----------------------------- MODULE Settlement -----------------------------
(***************************************************************************)
(* Money (crates/billing, with the callers of it in gateway, task, crm and *)
(* identity): a call is admitted against its key and wallet, served, and   *)
(* settled by one transaction over a wallet row and a key row; clerks      *)
(* credit wallets by confirming orders, recharging for a customer, or by   *)
(* hand; administrators edit keys meanwhile.                               *)
(*                                                                         *)
(* Every action is one SQL statement.  An UPDATE takes its row's lock      *)
(* (READ COMMITTED: it waits for the holder, then reads the committed row) *)
(* and what it computes stays with its transaction until the commit writes *)
(* it and gives the locks back; a transaction that fails writes nothing.   *)
(* Amounts are multiples of 0.00000001, the scale of numeric(18,8).        *)
(***************************************************************************)
EXTENDS Integers, Sequences, FiniteSets

CONSTANTS
  Org,          \* organisations, each with its wallet
  Key,          \* API keys
  Call,         \* requests: chat completions and tasks, one usage log each at most
  TaskCall,     \* the calls that are tasks: settled until it succeeds
  Order,        \* ids of orders
  Clerk,        \* concurrent recharging or confirming requests
  None,         \* NULL
  KeyOrg,       \* api_keys.org_id
  CallKey,      \* the key a call presents
  OrderOrg,     \* orders.org_id
  Charge,       \* charged_amount values, 0 when the price or the usage is 0; bounded,
                \* as numeric(18,8) is
  Amount,       \* amounts of recharges and orders
  Limit,        \* api_keys.budget_limit values; 0 stands for no limit
  Credit,       \* credit_limit - frozen, which no code changes
  MaxInFlight,  \* bound: calls between admission and settlement at one time
  MaxManual,    \* bound: manual recharges
  MaxEdits,     \* bound: edits of keys
  MaxFaults     \* bound: failed transactions and lost replies

Txn == Call \cup Clerk
Row == Org \cup Key \cup Order

ASSUME SettlementAssumption ==
  /\ TaskCall \subseteq Call
  /\ Call \cap Clerk = {} /\ Call \cap Order = {}
  /\ Org \cap Key = {} /\ Org \cap Order = {} /\ Key \cap Order = {}
  /\ None \notin Txn \cup Order
  /\ KeyOrg \in [Key -> Org] /\ CallKey \in [Call -> Key] /\ OrderOrg \in [Order -> Org]
  /\ Charge \subseteq Nat /\ \E most \in Charge \ {0} : \A n \in Charge : n <= most
  /\ Amount \subseteq Nat \ {0} /\ Limit \subseteq Nat /\ Credit \in Nat
  /\ MaxInFlight \in Nat \ {0} /\ MaxManual \in Nat /\ MaxEdits \in Nat /\ MaxFaults \in Nat

VARIABLES
  balance, entries,              \* wallets.balance; transactions rows of an org, by id
  logged, charge,                \* calls with a usage_logs row; its charged_amount
  live, used, limit, keyStatus,  \* api_keys: rows, budget_used, budget_limit, status
  order, orderAmount,            \* orders: status ("none": no row), amount
  holder,                        \* which transaction holds a row's lock
  pc,                            \* where a call or a clerk is
  after, usedAfter, statusAfter, \* values computed by uncommitted UPDATEs
  inHand, credit,                \* a clerk: the order (None: manual) and <<org, amount>>
  manuals, edits, faults         \* counters of the bounds

walletVars == <<balance, entries>>
logVars == <<logged, charge>>
keyVars == <<live, used, limit, keyStatus>>
orderVars == <<order, orderAmount>>
pendingVars == <<after, usedAfter, statusAfter>>
clerkVars == <<inHand, credit>>
vars == <<walletVars, logVars, keyVars, orderVars, holder, pc, pendingVars, clerkVars,
          manuals, edits, faults>>

CallOrg(c) == KeyOrg[CallKey[c]]
InTxn == {"debit", "budget", "commit"}
InFlight == InTxn \cup {"funds", "working", "settle"}

Fault == faults < MaxFaults /\ faults' = faults + 1
Goto(x, label) == pc' = [pc EXCEPT ![x] = label]
Locked(row) == holder[row] # None
Unlocked(x) == [row \in Row |-> IF holder[row] = x THEN None ELSE holder[row]]

----------------------------------------------------------------------------
Init ==
  /\ balance = [o \in Org |-> 0]
  /\ entries = [o \in Org |-> <<>>]
  /\ logged = {}
  /\ charge = [c \in Call |-> 0]
  /\ live = Key
  /\ used = [k \in Key |-> 0]
  /\ limit \in [Key -> Limit]
  /\ keyStatus = [k \in Key |-> "Enabled"]
  /\ order = [p \in Order |-> "none"]
  /\ orderAmount = [p \in Order |-> 0]
  /\ holder = [row \in Row |-> None]
  /\ pc = [x \in Txn |-> IF x \in Call THEN "new" ELSE "idle"]
  /\ after = [x \in Txn |-> 0]
  /\ usedAfter = [c \in Call |-> 0]
  /\ statusAfter = [c \in Call |-> "Enabled"]
  /\ inHand = [x \in Clerk |-> None]
  /\ credit = [x \in Clerk |-> <<None, 0>>]
  /\ manuals = 0 /\ edits = 0 /\ faults = 0

----------------------------------------------------------------------------
(* Slips: what a wrong edit of the code would make of a definition below.  *)
(* No action uses them; each shows that a property notices the slip.       *)

LockWithoutWaiting(x, row) == holder' = [holder EXCEPT ![row] = x]
FundedAtZero(o) == balance[o] + Credit >= 0
SettledForgotten(c) == FALSE
EnterUnsigned(x, o, amount, ref) ==
  /\ balance' = [balance EXCEPT ![o] = after[x]]
  /\ entries' = [entries EXCEPT ![o] =
                   Append(@, [ref |-> ref, amount |-> IF amount < 0 THEN -amount ELSE amount,
                              after |-> after[x]])]
AfterErrorGivesUp(c) == "unbilled"
PayableAlways(p) == TRUE

----------------------------------------------------------------------------
\* An UPDATE waits until nobody holds the row.
Lock(x, row) == ~Locked(row) /\ holder' = [holder EXCEPT ![row] = x]

----------------------------------------------------------------------------
(* Admission and service                                                   *)

UnderBudget(k) == limit[k] = 0 \/ used[k] < limit[k]

\* verify_key and evaluate_key.  Organisations are Active and keys unexpired.
VerifyKey(c) ==
  /\ pc[c] = "new"
  /\ Cardinality({d \in Call : pc[d] \in InFlight}) < MaxInFlight
  /\ LET k == CallKey[c]
     IN Goto(c, IF k \in live /\ keyStatus[k] = "Enabled" /\ UnderBudget(k)
                THEN "funds" ELSE "refused")
  /\ UNCHANGED <<walletVars, logVars, keyVars, orderVars, holder, pendingVars, clerkVars,
                 manuals, edits, faults>>

\* ensure_funds: a look, no reservation.
Funded(o) == balance[o] + Credit > 0

EnsureFunds(c) ==
  /\ pc[c] = "funds"
  /\ Goto(c, IF Funded(CallOrg(c)) THEN "working" ELSE "refused")
  /\ UNCHANGED <<walletVars, logVars, keyVars, orderVars, holder, pendingVars, clerkVars,
                 manuals, edits, faults>>

\* The upstream answers, with a usage to settle or without.
Serve(c) ==
  /\ pc[c] = "working"
  /\ Goto(c, "settle") \/ Goto(c, "unbilled")
  /\ UNCHANGED <<walletVars, logVars, keyVars, orderVars, holder, pendingVars, clerkVars,
                 manuals, edits, faults>>

----------------------------------------------------------------------------
(* settle_chat                                                             *)

\* The task runtime's lookup of the usage log by its request_id.
Settled(c) == c \in TaskCall \cap logged

\* After the lookup the price is resolved and the transaction begins with the
\* insert of the log.
Begin(c) ==
  /\ pc[c] = "settle"
  /\ \/ /\ Settled(c)
        /\ Goto(c, "billed")
        /\ UNCHANGED charge
     \/ /\ ~Settled(c)
        /\ \E amount \in Charge :
             /\ charge' = [charge EXCEPT ![c] = amount]
             /\ Goto(c, IF amount > 0 THEN "debit" ELSE "budget")
  /\ UNCHANGED <<walletVars, logged, keyVars, orderVars, holder, pendingVars, clerkVars,
                 manuals, edits, faults>>

\* adjust_balance within transaction x.
AdjustBalance(x, o, delta) ==
  /\ Lock(x, o)
  /\ after' = [after EXCEPT ![x] = balance[o] + delta]

Debit(c) ==
  /\ pc[c] = "debit"
  /\ AdjustBalance(c, CallOrg(c), -charge[c])
  /\ Goto(c, "budget")
  /\ UNCHANGED <<walletVars, logVars, keyVars, orderVars, usedAfter, statusAfter, clerkVars,
                 manuals, edits, faults>>

\* The CASE of the UPDATE: Enabled turns Exhausted at the limit.
StatusAt(k, total) ==
  IF limit[k] # 0 /\ total >= limit[k] /\ keyStatus[k] = "Enabled"
  THEN "Exhausted" ELSE keyStatus[k]

Total(k, c) == used[k] + charge[c]

\* One UPDATE of the key; of a deleted key it changes no row.
SpendBudget(c) ==
  /\ pc[c] = "budget"
  /\ LET k == CallKey[c]
     IN IF k \in live
        THEN /\ Lock(c, k)
             /\ usedAfter' = [usedAfter EXCEPT ![c] = Total(k, c)]
             /\ statusAfter' = [statusAfter EXCEPT ![c] = StatusAt(k, Total(k, c))]
        ELSE UNCHANGED <<holder, usedAfter, statusAfter>>
  /\ Goto(c, "commit")
  /\ UNCHANGED <<walletVars, logVars, keyVars, orderVars, after, clerkVars,
                 manuals, edits, faults>>

\* The wallet row and the transactions row of x, written by its commit.
Enter(x, o, amount, ref) ==
  /\ balance' = [balance EXCEPT ![o] = after[x]]
  /\ entries' = [entries EXCEPT ![o] =
                   Append(@, [ref |-> ref, amount |-> amount, after |-> after[x]])]

\* COMMIT.  When its reply is lost a task settles again; a chat call gives up.
Commit(c) ==
  /\ pc[c] = "commit"
  /\ LET k == CallKey[c]
     IN /\ IF charge[c] > 0 THEN Enter(c, CallOrg(c), -charge[c], c) ELSE UNCHANGED walletVars
        /\ logged' = logged \cup {c}
        /\ IF holder[k] = c
           THEN /\ used' = [used EXCEPT ![k] = usedAfter[c]]
                /\ keyStatus' = [keyStatus EXCEPT ![k] = statusAfter[c]]
           ELSE UNCHANGED <<used, keyStatus>>
  /\ holder' = Unlocked(c)
  /\ \/ Goto(c, "billed") /\ UNCHANGED faults
     \/ c \in TaskCall /\ Fault /\ Goto(c, "settle")
  /\ UNCHANGED <<charge, live, limit, orderVars, pendingVars, clerkVars, manuals, edits>>

\* do_settle swallows an error, process_poll tries again later.
AfterError(c) == IF c \in TaskCall THEN "settle" ELSE "unbilled"

\* An error or a lost connection, or a dropped handler, rolls back.
RollBack(c) ==
  /\ pc[c] \in {"settle"} \cup InTxn
  /\ Fault
  /\ holder' = Unlocked(c)
  /\ Goto(c, AfterError(c))
  /\ UNCHANGED <<walletVars, logVars, keyVars, orderVars, pendingVars, clerkVars,
                 manuals, edits>>

----------------------------------------------------------------------------
(* Orders and recharges                                                    *)

\* create_order
CreateOrder(p) ==
  /\ order[p] = "none" /\ ~Locked(p)
  /\ \E amount \in Amount : orderAmount' = [orderAmount EXCEPT ![p] = amount]
  /\ order' = [order EXCEPT ![p] = "Pending"]
  /\ UNCHANGED <<walletVars, logVars, keyVars, holder, pc, pendingVars, clerkVars,
                 manuals, edits, faults>>

\* confirm_order, before its transaction: a Paid order is returned as it is.
ReadOrder(x, p) ==
  /\ pc[x] = "idle"
  /\ order[p] = "Pending"
  /\ inHand' = [inHand EXCEPT ![x] = p]
  /\ Goto(x, "claim")
  /\ UNCHANGED <<walletVars, logVars, keyVars, orderVars, holder, pendingVars, credit,
                 manuals, edits, faults>>

Payable(p) == order[p] = "Pending"

\* UPDATE orders ... WHERE status = Pending; the loser of a race gets no row and
\* returns the order it reads again.
Claim(x) ==
  /\ pc[x] = "claim"
  /\ LET p == inHand[x]
     IN /\ ~Locked(p)
        /\ IF Payable(p)
           THEN /\ Lock(x, p)
                /\ credit' = [credit EXCEPT ![x] = <<OrderOrg[p], orderAmount[p]>>]
                /\ Goto(x, "credit")
                /\ UNCHANGED inHand
           ELSE /\ Goto(x, "idle")
                /\ inHand' = [inHand EXCEPT ![x] = None]
                /\ UNCHANGED <<holder, credit>>
  /\ UNCHANGED <<walletVars, logVars, keyVars, orderVars, pendingVars, manuals, edits, faults>>

\* crm recharge: its transaction begins with the insert of a Paid order, whose id
\* nobody else can see before the commit.
InsertPaid(x, p) ==
  /\ pc[x] = "idle"
  /\ order[p] = "none"
  /\ Lock(x, p)
  /\ inHand' = [inHand EXCEPT ![x] = p]
  /\ \E amount \in Amount : credit' = [credit EXCEPT ![x] = <<OrderOrg[p], amount>>]
  /\ Goto(x, "credit")
  /\ UNCHANGED <<walletVars, logVars, keyVars, orderVars, pendingVars, manuals, edits, faults>>

\* POST /api/billing/recharge
Recharge(x, o) ==
  /\ pc[x] = "idle" /\ manuals < MaxManual
  /\ manuals' = manuals + 1
  /\ \E amount \in Amount : credit' = [credit EXCEPT ![x] = <<o, amount>>]
  /\ Goto(x, "credit")
  /\ UNCHANGED <<walletVars, logVars, keyVars, orderVars, holder, pendingVars, inHand,
                 edits, faults>>

\* wallet::recharge, nested in the clerk's transaction.
CreditWallet(x) ==
  /\ pc[x] = "credit"
  /\ AdjustBalance(x, credit[x][1], credit[x][2])
  /\ Goto(x, "post")
  /\ UNCHANGED <<walletVars, logVars, keyVars, orderVars, usedAfter, statusAfter, clerkVars,
                 manuals, edits, faults>>

\* The clerk's request is over; the bookkeeping of its locals.
Leave(x) == /\ Goto(x, "idle")
            /\ inHand' = [inHand EXCEPT ![x] = None]
            /\ credit' = [credit EXCEPT ![x] = <<None, 0>>]
            /\ holder' = Unlocked(x)

\* The order turns Paid with the credit, in one commit.
Post(x) ==
  /\ pc[x] = "post"
  /\ LET p == inHand[x]
         amount == credit[x][2]
     IN /\ Enter(x, credit[x][1], amount, p)
        /\ IF p = None THEN UNCHANGED orderVars
           ELSE /\ order' = [order EXCEPT ![p] = "Paid"]
                /\ orderAmount' = [orderAmount EXCEPT ![p] = amount]
  /\ Leave(x)
  /\ UNCHANGED <<logVars, keyVars, pendingVars, manuals, edits, faults>>

\* An error, a dropped handler or an overflow of numeric(18,8) rolls back.
Abandon(x) ==
  /\ pc[x] \in {"claim", "credit", "post"}
  /\ Fault
  /\ Leave(x)
  /\ UNCHANGED <<walletVars, logVars, keyVars, orderVars, pendingVars, manuals, edits>>

----------------------------------------------------------------------------
(* Key administration (identity/api_key.rs): single statements.            *)

Edit(k) == k \in live /\ ~Locked(k) /\ edits < MaxEdits /\ edits' = edits + 1

\* update: only the columns given are written; Exhausted cannot be given.
UpdateKey(k) ==
  /\ Edit(k)
  /\ \E s \in {"Enabled", "Disabled"} \cup {keyStatus[k]} :
       keyStatus' = [keyStatus EXCEPT ![k] = s]
  /\ \E l \in (Limit \ {0}) \cup {limit[k]} : limit' = [limit EXCEPT ![k] = l]
  /\ UNCHANGED <<walletVars, logVars, live, used, orderVars, holder, pc, pendingVars,
                 clerkVars, manuals, faults>>

DeleteKey(k) ==
  /\ Edit(k)
  /\ live' = live \ {k}
  /\ UNCHANGED <<walletVars, logVars, used, limit, keyStatus, orderVars, holder, pc,
                 pendingVars, clerkVars, manuals, faults>>

----------------------------------------------------------------------------
CallStep(c) == \/ VerifyKey(c) \/ EnsureFunds(c) \/ Serve(c)
               \/ Begin(c) \/ Debit(c) \/ SpendBudget(c) \/ Commit(c) \/ RollBack(c)
ClerkStart(x) == \/ \E p \in Order : ReadOrder(x, p) \/ InsertPaid(x, p)
                 \/ \E o \in Org : Recharge(x, o)
ClerkStep(x) == Claim(x) \/ CreditWallet(x) \/ Post(x) \/ Abandon(x)
KeyStep(k) == UpdateKey(k) \/ DeleteKey(k)

Next == \/ \E c \in Call : CallStep(c)
        \/ \E x \in Clerk : ClerkStart(x) \/ ClerkStep(x)
        \/ \E p \in Order : CreateOrder(p)
        \/ \E k \in Key : KeyStep(k)

Spec == Init /\ [][Next]_vars

\* The steps of a request that has been received, and lock queues that are
\* served.  Nothing is assumed of clients, clerks' clicks or administrators.
Fairness == /\ \A c \in Call : WF_vars(Begin(c) \/ Debit(c) \/ SpendBudget(c) \/ Commit(c))
            /\ \A x \in Clerk : WF_vars(Claim(x) \/ CreditWallet(x) \/ Post(x))

FairSpec == Spec /\ Fairness
----------------------------------------------------------------------------
(* Types                                                                   *)

CallPc == {"new", "refused", "unbilled", "billed"} \cup InFlight
ClerkPc == {"idle", "claim", "credit", "post"}
KeyStatus == {"Enabled", "Disabled", "Exhausted"}
OrderStatus == {"none", "Pending", "Paid"}
Entry == [ref : Order \cup Call \cup {None}, amount : Int, after : Int]

WalletTypes == balance \in [Org -> Int] /\ entries \in [Org -> Seq(Entry)]

LogTypes == logged \subseteq Call /\ charge \in [Call -> Charge \cup {0}]

KeyTypes == /\ live \subseteq Key
            /\ used \in [Key -> Nat] /\ limit \in [Key -> Nat]
            /\ keyStatus \in [Key -> KeyStatus]

OrderTypes == order \in [Order -> OrderStatus] /\ orderAmount \in [Order -> Amount \cup {0}]

TxnTypes == /\ holder \in [Row -> Txn \cup {None}]
            /\ pc \in [Txn -> CallPc \cup ClerkPc]
            /\ \A c \in Call : pc[c] \in CallPc
            /\ \A x \in Clerk : pc[x] \in ClerkPc
            /\ after \in [Txn -> Int]
            /\ usedAfter \in [Call -> Nat] /\ statusAfter \in [Call -> KeyStatus]

ClerkTypes ==
  /\ inHand \in [Clerk -> Order \cup {None}]
  /\ credit \in [Clerk -> (Org \cup {None}) \X (Amount \cup {0})]
  /\ \A x \in Clerk : /\ pc[x] = "claim" => inHand[x] \in Order
                      /\ pc[x] \in {"credit", "post"} => credit[x] \in Org \X Amount
  /\ \A p \in Order : order[p] = "Pending" => orderAmount[p] \in Amount

\* Every row holds a value of its columns, and a transaction the values its next
\* statement needs.
TypeOK == /\ WalletTypes /\ LogTypes /\ KeyTypes /\ OrderTypes /\ TxnTypes /\ ClerkTypes
          /\ manuals \in Nat /\ edits \in Nat /\ faults \in Nat

----------------------------------------------------------------------------
(* Safety                                                                  *)

\* The rows of o that refer to r.
Rows(o, r) == {i \in 1..Len(entries[o]) : entries[o][i].ref = r}

\* The balance o had before its i-th row.
BalanceBefore(o, i) == IF i = 1 THEN 0 ELSE entries[o][i - 1].after

\* The balance is the running sum of the transactions rows: each row's
\* balance_after is the one before plus its amount, and the last is the balance
\* (wallet.rs:3-4: UPDATE ... RETURNING, row lock, no lost update).
BalanceIsRunningSum ==
  \A o \in Org :
    /\ \A i \in 1..Len(entries[o]) :
         entries[o][i].after = BalanceBefore(o, i) + entries[o][i].amount
    /\ balance[o] = BalanceBefore(o, Len(entries[o]) + 1)

\* r is entered at most once, to org o and with this amount.
EnteredOnce(r, org, amount) ==
  \A o \in Org : \A i \in Rows(o, r) :
    o = org /\ entries[o][i].amount = amount /\ Rows(o, r) = {i}

\* An order is Paid exactly when its amount was credited, once and to its
\* organisation, whoever confirms it how often (order.rs:3-5).
PaidIffCredited ==
  \A p \in Order : /\ order[p] = "Paid" <=> Rows(OrderOrg[p], p) # {}
                   /\ EnteredOnce(p, OrderOrg[p], orderAmount[p])

\* A usage log with a charge is debited once, one without not at all, and
\* nothing is debited without its log (settle.rs:62, wallet.rs:84-86).
LogIffDebited ==
  \A c \in Call : /\ c \in logged /\ charge[c] > 0 <=> Rows(CallOrg(c), c) # {}
                  /\ EnteredOnce(c, CallOrg(c), -charge[c])

\* The charges of a set of calls, unit by unit: as many as their sum.
Units(C) == UNION {{c} \X (1..charge[c]) : c \in C}

\* A live key's budget_used is the sum of the charged usage logs of its calls
\* (settle.rs:97-98: no read-modify-write).
BudgetIsSumOfLogs ==
  \A k \in live : used[k] = Cardinality(Units({c \in logged : CallKey[c] = k}))

\* Charging after the work overdraws a wallet, or a key whose limit nobody edits,
\* by no more than what is in flight at one time (settle.rs:4-5).
OverdraftBounded ==
  LET most == CHOOSE m \in Charge : \A n \in Charge : n <= m
      owing(C) == Cardinality({c \in C \ logged : pc[c] \in InFlight})
      spent(C) == most * (MaxInFlight - owing(C))
  IN /\ \A o \in Org :
          LET calls == {c \in Call : CallOrg(c) = o /\ pc[c] # "funds"}
          IN balance[o] + Credit >= 1 - spent(calls)
     /\ edits = 0 => \A k \in Key :
          limit[k] # 0 => used[k] <= limit[k] - 1 + spent({c \in Call : CallKey[c] = k})

(* Action properties                                                       *)

\* Spending never leaves a key Enabled at its limit, and never touches a key an
\* administrator disabled (settle.rs:97-112); only an administrator enables one.
LimitExhausts ==
  [][\A k \in Key :
       /\ used'[k] # used[k] =>
            /\ keyStatus'[k] = "Enabled" => limit[k] = 0 \/ used'[k] < limit[k]
            /\ keyStatus[k] = "Disabled" => keyStatus'[k] = "Disabled"
       /\ keyStatus[k] # "Enabled" /\ keyStatus'[k] = "Enabled" => edits' > edits]_vars

\* Settlement implements the abstract ledger.
Book == INSTANCE Ledger WITH Account <- Org, Source <- Order \cup Call, Manual <- None,
                             Amount <- Amount \cup {-n : n \in Charge \ {0}}
LedgerSpec == Book!Spec

(* Liveness                                                                *)

\* A finished task is billed, and a request that waits for a lock gets it: the
\* transactions take their locks in one order and never wait in a circle.
SettlementEnds ==
  /\ \A c \in Call : pc[c] = "settle" /\ c \in TaskCall ~> c \in logged
  /\ \A c \in Call : pc[c] \in InTxn ~> pc[c] \notin InTxn
  /\ \A x \in Clerk : pc[x] = "claim" ~> pc[x] = "idle"

============================================================================
