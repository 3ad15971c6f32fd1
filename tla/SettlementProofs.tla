-------------------------- MODULE SettlementProofs --------------------------
(* What holds of Settlement for every set of organisations, keys, calls,    *)
(* orders and clerks, and however many transactions fail.  The money is      *)
(* right in every state and step: the balance is the sum of its entries, an  *)
(* order is credited and a usage log debited exactly once, a key at its      *)
(* limit is exhausted, charging after the work overdraws by no more than is  *)
(* in flight, and the wallets implement the abstract ledger.  All of it      *)
(* rests on who holds which row's lock.                                      *)
EXTENDS Settlement, TLAPS, FiniteSetTheorems

\* Named conditions of the actions: always in view.
USE DEF Funded, Settled, Total, AfterError, Payable, Locked, Lock

----------------------------------------------------------------------------
(* Type correctness                                                        *)

\* What a call is charged and where it is charged.
LEMMA ChargeTypes ==
  ASSUME TypeOK, NEW c \in Call
  PROVE  charge[c] \in Nat /\ -charge[c] \in Int /\ CallKey[c] \in Key /\ CallOrg(c) \in Org
<1>1. charge[c] \in Charge \cup {0}
  BY DEF TypeOK, LogTypes
<1>2. charge[c] \in Nat /\ -charge[c] \in Int
  <2>1. Charge \subseteq Nat
    BY SettlementAssumption
  <2>2. 0 \in Nat
    OBVIOUS
  <2>3. charge[c] \in Nat
    BY <1>1, <2>1, <2>2, Zenon
  <2>4. QED
    BY <2>3
<1>3. CallKey[c] \in Key
  BY SettlementAssumption
<1>4. CallOrg(c) \in Org
  BY <1>3, SettlementAssumption DEF CallOrg
<1>5. QED
  BY <1>2, <1>3, <1>4

\* What a clerk credits and where.
LEMMA CreditTypes ==
  ASSUME TypeOK, NEW x \in Clerk, pc[x] \in {"credit", "post"}
  PROVE  credit[x][1] \in Org /\ credit[x][2] \in Amount /\ credit[x][2] \in Nat \ {0}
<1>1. credit[x] \in Org \X Amount
  BY DEF TypeOK, ClerkTypes
<1>2. credit[x][1] \in Org /\ credit[x][2] \in Amount
  BY <1>1
<1>3. QED
  BY <1>2, SettlementAssumption

LEMMA WalletTypesNext ==
  ASSUME TypeOK, [Next]_vars
  PROVE  WalletTypes'
<1> WalletTypes /\ LogTypes /\ TxnTypes /\ ClerkTypes
  BY DEF TypeOK
<1> USE SettlementAssumption DEF WalletTypes, walletVars
<1>1. ASSUME NEW x \in Txn, NEW o \in Org, NEW amount \in Int,
             NEW ref \in Order \cup Call \cup {None}, Enter(x, o, amount, ref)
      PROVE  WalletTypes'
  <2>1. after[x] \in Int
    BY DEF TxnTypes
  <2>2. [ref |-> ref, amount |-> amount, after |-> after[x]] \in Entry
    BY <2>1 DEF Entry
  <2>3. Append(entries[o], [ref |-> ref, amount |-> amount, after |-> after[x]]) \in Seq(Entry)
    BY <2>2
  <2>4. QED
    BY <1>1, <2>1, <2>3 DEF Enter
<1>2. ASSUME NEW c \in Call, CallStep(c) PROVE WalletTypes'
  <2>1. CASE Commit(c)
    BY <1>1, <2>1, ChargeTypes DEF Commit, Txn
  <2>2. CASE VerifyKey(c) \/ EnsureFunds(c) \/ Serve(c) \/ Begin(c) \/ Debit(c)
               \/ SpendBudget(c) \/ RollBack(c)
    BY <2>2 DEF VerifyKey, EnsureFunds, Serve, Begin, Debit, SpendBudget, RollBack
  <2>3. QED
    BY <1>2, <2>1, <2>2 DEF CallStep
<1>3. ASSUME NEW x \in Clerk, ClerkStart(x) \/ ClerkStep(x) PROVE WalletTypes'
  <2>1. CASE Post(x)
    <3>1. inHand[x] \in Order \cup {None}
      BY DEF ClerkTypes
    <3>2. credit[x][1] \in Org /\ credit[x][2] \in Int
      BY <2>1, CreditTypes DEF Post
    <3>3. QED
      BY <1>1, <2>1, <3>1, <3>2 DEF Post, Txn
  <2>2. CASE ClerkStart(x) \/ Claim(x) \/ CreditWallet(x) \/ Abandon(x)
    BY <2>2 DEF ClerkStart, ReadOrder, InsertPaid, Recharge, Claim, CreditWallet, Abandon
  <2>3. QED
    BY <1>3, <2>1, <2>2 DEF ClerkStep
<1>4. ASSUME NEW p \in Order, CreateOrder(p) PROVE WalletTypes'
  BY <1>4 DEF CreateOrder
<1>5. ASSUME NEW k \in Key, KeyStep(k) PROVE WalletTypes'
  BY <1>5 DEF KeyStep, UpdateKey, DeleteKey
<1>6. CASE UNCHANGED vars
  BY <1>6 DEF vars
<1>7. QED
  BY <1>2, <1>3, <1>4, <1>5, <1>6 DEF Next

LEMMA LogTypesNext ==
  ASSUME TypeOK, [Next]_vars
  PROVE  LogTypes'
<1> LogTypes
  BY DEF TypeOK
<1> USE SettlementAssumption DEF LogTypes, logVars
<1>1. ASSUME NEW c \in Call, CallStep(c) PROVE LogTypes'
  BY <1>1 DEF CallStep, VerifyKey, EnsureFunds, Serve, Begin, Debit, SpendBudget, Commit,
         RollBack
<1>2. ASSUME NEW x \in Clerk, ClerkStart(x) \/ ClerkStep(x) PROVE LogTypes'
  BY <1>2 DEF ClerkStart, ReadOrder, InsertPaid, Recharge, ClerkStep, Claim, CreditWallet,
         Post, Abandon
<1>3. ASSUME NEW p \in Order, CreateOrder(p) PROVE LogTypes'
  BY <1>3 DEF CreateOrder
<1>4. ASSUME NEW k \in Key, KeyStep(k) PROVE LogTypes'
  BY <1>4 DEF KeyStep, UpdateKey, DeleteKey
<1>5. CASE UNCHANGED vars
  BY <1>5 DEF vars
<1>6. QED
  BY <1>1, <1>2, <1>3, <1>4, <1>5 DEF Next

LEMMA KeyTypesNext ==
  ASSUME TypeOK, [Next]_vars
  PROVE  KeyTypes'
<1> KeyTypes /\ TxnTypes
  BY DEF TypeOK
<1> USE SettlementAssumption DEF KeyTypes, keyVars
<1>1. ASSUME NEW c \in Call, CallStep(c) PROVE KeyTypes'
  BY <1>1 DEF CallStep, VerifyKey, EnsureFunds, Serve, Begin, Debit, SpendBudget, Commit,
         RollBack, TxnTypes
<1>2. ASSUME NEW x \in Clerk, ClerkStart(x) \/ ClerkStep(x) PROVE KeyTypes'
  BY <1>2 DEF ClerkStart, ReadOrder, InsertPaid, Recharge, ClerkStep, Claim, CreditWallet,
         Post, Abandon
<1>3. ASSUME NEW p \in Order, CreateOrder(p) PROVE KeyTypes'
  BY <1>3 DEF CreateOrder
<1>4. ASSUME NEW k \in Key, KeyStep(k) PROVE KeyTypes'
  BY <1>4 DEF KeyStep, UpdateKey, DeleteKey, KeyStatus
<1>5. CASE UNCHANGED vars
  BY <1>5 DEF vars
<1>6. QED
  BY <1>1, <1>2, <1>3, <1>4, <1>5 DEF Next

LEMMA OrderTypesNext ==
  ASSUME TypeOK, [Next]_vars
  PROVE  OrderTypes'
<1> OrderTypes /\ ClerkTypes
  BY DEF TypeOK
<1> USE SettlementAssumption DEF OrderTypes, orderVars, OrderStatus
<1>1. ASSUME NEW c \in Call, CallStep(c) PROVE OrderTypes'
  BY <1>1 DEF CallStep, VerifyKey, EnsureFunds, Serve, Begin, Debit, SpendBudget, Commit,
         RollBack
<1>2. ASSUME NEW x \in Clerk, ClerkStart(x) \/ ClerkStep(x) PROVE OrderTypes'
  <2>1. CASE Post(x)
    <3>1. credit[x][2] \in Amount
      BY <2>1, CreditTypes DEF Post
    <3>2. QED
      BY <2>1, <3>1 DEF Post
  <2>2. CASE ClerkStart(x) \/ Claim(x) \/ CreditWallet(x) \/ Abandon(x)
    BY <2>2 DEF ClerkStart, ReadOrder, InsertPaid, Recharge, Claim, CreditWallet, Abandon
  <2>3. QED
    BY <1>2, <2>1, <2>2 DEF ClerkStep
<1>3. ASSUME NEW p \in Order, CreateOrder(p) PROVE OrderTypes'
  BY <1>3 DEF CreateOrder
<1>4. ASSUME NEW k \in Key, KeyStep(k) PROVE OrderTypes'
  BY <1>4 DEF KeyStep, UpdateKey, DeleteKey
<1>5. CASE UNCHANGED vars
  BY <1>5 DEF vars
<1>6. QED
  BY <1>1, <1>2, <1>3, <1>4, <1>5 DEF Next

LEMMA TxnTypesNext ==
  ASSUME TypeOK, [Next]_vars
  PROVE  TxnTypes'
<1> TxnTypes /\ LogTypes /\ KeyTypes /\ WalletTypes /\ ClerkTypes
  BY DEF TypeOK
<1> USE SettlementAssumption DEF TxnTypes, Txn, Row, CallPc, ClerkPc, InFlight, InTxn, Goto, pendingVars
<1>1. ASSUME NEW c \in Call, CallStep(c) PROVE TxnTypes'
  <2>1. CASE VerifyKey(c)
    BY <2>1 DEF VerifyKey
  <2>2. CASE EnsureFunds(c) \/ Serve(c)
    BY <2>2 DEF EnsureFunds, Serve
  <2>3. CASE Begin(c)
    BY <2>3 DEF Begin
  <2>4. CASE Debit(c)
    <3>1. CallOrg(c) \in Org /\ balance[CallOrg(c)] + -charge[c] \in Int
      BY ChargeTypes DEF WalletTypes
    <3>2. QED
      BY <2>4, <3>1 DEF Debit, AdjustBalance
  <2>5. CASE SpendBudget(c)
    <3>1. CallKey[c] \in Key /\ used[CallKey[c]] + charge[c] \in Nat
      BY ChargeTypes DEF KeyTypes
    <3>2. \A n : StatusAt(CallKey[c], n) \in KeyStatus
      BY <3>1 DEF StatusAt, KeyTypes, KeyStatus
    <3>3. QED
      BY <2>5, <3>1, <3>2 DEF SpendBudget
  <2>6. CASE Commit(c)
    BY <2>6 DEF Commit, Unlocked
  <2>7. CASE RollBack(c)
    BY <2>7 DEF RollBack, Unlocked
  <2>8. QED
    BY <1>1, <2>1, <2>2, <2>3, <2>4, <2>5, <2>6, <2>7 DEF CallStep
<1>2. ASSUME NEW x \in Clerk, ClerkStart(x) \/ ClerkStep(x) PROVE TxnTypes'
  <2>1. CASE ClerkStart(x)
    BY <2>1 DEF ClerkStart, ReadOrder, InsertPaid, Recharge
  <2>2. CASE Claim(x)
    <3>1. inHand[x] \in Order
      BY <2>2 DEF Claim, ClerkTypes
    <3>2. QED
      BY <2>2, <3>1 DEF Claim
  <2>3. CASE CreditWallet(x)
    <3>2. credit[x][1] \in Org /\ credit[x][2] \in Int
      BY <2>3, CreditTypes DEF CreditWallet
    <3>3. balance[credit[x][1]] + credit[x][2] \in Int
      BY <3>2 DEF WalletTypes
    <3>4. QED
      BY <2>3, <3>2, <3>3 DEF CreditWallet, AdjustBalance
  <2>4. CASE Post(x) \/ Abandon(x)
    BY <2>4 DEF Post, Abandon, Leave, Unlocked
  <2>5. QED
    BY <1>2, <2>1, <2>2, <2>3, <2>4 DEF ClerkStep
<1>3. ASSUME NEW p \in Order, CreateOrder(p) PROVE TxnTypes'
  BY <1>3 DEF CreateOrder
<1>4. ASSUME NEW k \in Key, KeyStep(k) PROVE TxnTypes'
  BY <1>4 DEF KeyStep, UpdateKey, DeleteKey
<1>5. CASE UNCHANGED vars
  BY <1>5 DEF vars
<1>6. QED
  BY <1>1, <1>2, <1>3, <1>4, <1>5 DEF Next

LEMMA ClerkTypesNext ==
  ASSUME TypeOK, [Next]_vars
  PROVE  ClerkTypes'
<1> ClerkTypes /\ TxnTypes /\ OrderTypes
  BY DEF TypeOK
<1> USE SettlementAssumption DEF ClerkTypes, Goto, clerkVars, orderVars
<1>1. ASSUME NEW c \in Call, CallStep(c) PROVE ClerkTypes'
  <2>1. UNCHANGED <<clerkVars, orderVars>>
    BY <1>1 DEF CallStep, VerifyKey, EnsureFunds, Serve, Begin, Debit, SpendBudget, Commit,
           RollBack
  <2>2. \A x \in Clerk : pc'[x] = pc[x]
    BY <1>1 DEF CallStep, VerifyKey, EnsureFunds, Serve, Begin, Debit, SpendBudget, Commit,
           RollBack, TxnTypes, Txn
  <2>3. QED
    BY <2>1, <2>2
<1>2. ASSUME NEW x \in Clerk, ClerkStart(x) PROVE ClerkTypes'
  <2> USE DEF TxnTypes, Txn
  <2>1. ASSUME NEW p \in Order, ReadOrder(x, p) PROVE ClerkTypes'
    BY <2>1 DEF ReadOrder
  <2>2. ASSUME NEW p \in Order, InsertPaid(x, p) PROVE ClerkTypes'
    BY <2>2 DEF InsertPaid
  <2>3. ASSUME NEW o \in Org, Recharge(x, o) PROVE ClerkTypes'
    BY <2>3 DEF Recharge
  <2>4. QED
    BY <1>2, <2>1, <2>2, <2>3 DEF ClerkStart
<1>3. ASSUME NEW x \in Clerk, ClerkStep(x) PROVE ClerkTypes'
  <2> USE DEF TxnTypes, Txn
  <2>1. CASE Claim(x)
    <3>1. ASSUME order[inHand[x]] = "Pending"
          PROVE  <<OrderOrg[inHand[x]], orderAmount[inHand[x]]>> \in Org \X Amount
      <4>1. inHand[x] \in Order
        BY <2>1 DEF Claim
      <4>2. OrderOrg[inHand[x]] \in Org /\ orderAmount[inHand[x]] \in Amount
        BY <3>1, <4>1
      <4>3. QED
        BY <4>2
    <3>2. CASE order[inHand[x]] = "Pending"
      <4>1. /\ credit' = [credit EXCEPT ![x] = <<OrderOrg[inHand[x]], orderAmount[inHand[x]]>>]
            /\ pc' = [pc EXCEPT ![x] = "credit"]
            /\ UNCHANGED <<inHand, order, orderAmount>>
        BY <2>1, <3>2 DEF Claim
      <4>2. pc[x] = "claim" /\ inHand[x] \in Order
        BY <2>1 DEF Claim
      <4>3. credit' \in [Clerk -> (Org \cup {None}) \X (Amount \cup {0})]
        BY <3>1, <3>2, <4>1
      <4>4. \A y \in Clerk : /\ pc'[y] = "claim" => inHand'[y] \in Order
                             /\ pc'[y] \in {"credit", "post"} => credit'[y] \in Org \X Amount
        BY <3>1, <3>2, <4>1
      <4>5. QED
        BY <4>1, <4>3, <4>4
    <3>3. CASE order[inHand[x]] # "Pending"
      <4>1. /\ pc' = [pc EXCEPT ![x] = "idle"] /\ inHand' = [inHand EXCEPT ![x] = None]
            /\ UNCHANGED <<credit, order, orderAmount>>
        BY <2>1, <3>3 DEF Claim
      <4>2. QED
        BY <4>1
    <3>4. QED
      BY <3>2, <3>3
  <2>2. CASE CreditWallet(x)
    BY <2>2 DEF CreditWallet
  <2>3. CASE Post(x)
    <3>1. credit[x][2] \in Amount
      BY <2>3, CreditTypes DEF Post
    <3>2. QED
      BY <2>3, <3>1 DEF Post, Leave, OrderTypes
  <2>4. CASE Abandon(x)
    BY <2>4 DEF Abandon, Leave
  <2>5. QED
    BY <1>3, <2>1, <2>2, <2>3, <2>4 DEF ClerkStep
<1>4. ASSUME NEW p \in Order, CreateOrder(p) PROVE ClerkTypes'
  BY <1>4 DEF CreateOrder, OrderTypes
<1>5. ASSUME NEW k \in Key, KeyStep(k) PROVE ClerkTypes'
  BY <1>5 DEF KeyStep, UpdateKey, DeleteKey
<1>6. CASE UNCHANGED vars
  BY <1>6 DEF vars
<1>7. QED
  BY <1>1, <1>2, <1>3, <1>4, <1>5, <1>6 DEF Next

LEMMA CountersNext ==
  ASSUME TypeOK, [Next]_vars
  PROVE  manuals' \in Nat /\ edits' \in Nat /\ faults' \in Nat
<1> manuals \in Nat /\ edits \in Nat /\ faults \in Nat
  BY DEF TypeOK
<1>1. ASSUME NEW c \in Call, CallStep(c) PROVE UNCHANGED <<manuals, edits>> /\ faults' \in Nat
  BY <1>1 DEF CallStep, VerifyKey, EnsureFunds, Serve, Begin, Debit, SpendBudget, Commit,
         RollBack, Fault
<1>2. ASSUME NEW x \in Clerk, ClerkStart(x) \/ ClerkStep(x)
      PROVE  manuals' \in Nat /\ UNCHANGED edits /\ faults' \in Nat
  BY <1>2 DEF ClerkStart, ReadOrder, InsertPaid, Recharge, ClerkStep, Claim, CreditWallet,
         Post, Abandon, Fault
<1>3. ASSUME NEW p \in Order, CreateOrder(p) PROVE UNCHANGED <<manuals, edits, faults>>
  BY <1>3 DEF CreateOrder
<1>4. ASSUME NEW k \in Key, KeyStep(k) PROVE UNCHANGED <<manuals, faults>> /\ edits' \in Nat
  BY <1>4 DEF KeyStep, UpdateKey, DeleteKey, Edit
<1>5. CASE UNCHANGED vars
  BY <1>5 DEF vars
<1>6. QED
  BY <1>1, <1>2, <1>3, <1>4, <1>5 DEF Next

\* Every reachable state is well typed, and a transaction has what its next
\* statement needs.
THEOREM TypeCorrect == Spec => []TypeOK
<1>1. Init => TypeOK
  <2> SUFFICES ASSUME Init PROVE TypeOK
    OBVIOUS
  <2> USE SettlementAssumption DEF Init
  <2>1. WalletTypes /\ LogTypes /\ OrderTypes
    BY DEF WalletTypes, LogTypes, OrderTypes, OrderStatus
  <2>2. KeyTypes
    BY DEF KeyTypes, KeyStatus
  <2>3. TxnTypes
    BY DEF TxnTypes, CallPc, ClerkPc, KeyStatus, Txn, Row
  <2>4. ClerkTypes
    BY DEF ClerkTypes, Txn
  <2>5. QED
    BY <2>1, <2>2, <2>3, <2>4 DEF TypeOK
<1>2. TypeOK /\ [Next]_vars => TypeOK'
  BY WalletTypesNext, LogTypesNext, KeyTypesNext, OrderTypesNext, TxnTypesNext, ClerkTypesNext,
     CountersNext DEF TypeOK
<1>3. QED
  BY <1>1, <1>2, PTL DEF Spec

----------------------------------------------------------------------------
(* Locks                                                                   *)

\* A call that debited its wallet holds the row, and has computed its balance
\* from the committed one.
CallLocks ==
  \A c \in Call : pc[c] \in {"budget", "commit"} /\ charge[c] > 0 =>
    holder[CallOrg(c)] = c /\ after[c] = balance[CallOrg(c)] - charge[c]

\* So does a clerk that credited one.
ClerkLocks ==
  \A x \in Clerk : pc[x] = "post" =>
    holder[credit[x][1]] = x /\ after[x] = balance[credit[x][1]] + credit[x][2]

\* A key is locked by a call about to commit what it computed from the row.
KeyLocks ==
  \A k \in Key, x \in Txn : holder[k] = x =>
    /\ x \in Call /\ pc[x] = "commit" /\ CallKey[x] = k
    /\ usedAfter[x] = used[k] + charge[x]
    /\ statusAfter[x] = StatusAt(k, used[k] + charge[x])

Locks == CallLocks /\ ClerkLocks /\ KeyLocks

----------------------------------------------------------------------------
(* What a step leaves to the others                                        *)

\* Other requests than y keep their place, what they computed and their locks.
Others(y) ==
  /\ \A x \in Txn \ {y} : pc'[x] = pc[x] /\ after'[x] = after[x]
  /\ \A c \in Call \ {y} : /\ charge'[c] = charge[c] /\ usedAfter'[c] = usedAfter[c]
                           /\ statusAfter'[c] = statusAfter[c]
  /\ \A x \in Clerk \ {y} : inHand'[x] = inHand[x] /\ credit'[x] = credit[x]
  /\ \A row \in Row, x \in Txn \ {y} : holder'[row] = x <=> holder[row] = x

LEMMA LockOthers ==
  ASSUME TypeOK, NEW y \in Txn, NEW taken \in Row, Lock(y, taken)
  PROVE  \A row \in Row, x \in Txn \ {y} : holder'[row] = x <=> holder[row] = x
<1>1. holder \in [Row -> Txn \cup {None}] /\ None \notin Txn
  BY SettlementAssumption DEF TypeOK, TxnTypes
<1>2. holder[taken] = None /\ holder' = [holder EXCEPT ![taken] = y]
  BY DEF Lock, Locked
<1>3. QED
  BY <1>1, <1>2

LEMMA CallOthers ==
  ASSUME TypeOK, NEW c \in Call, CallStep(c)
  PROVE  Others(c) /\ UNCHANGED <<clerkVars, orderVars, live, limit>>
<1> TxnTypes /\ LogTypes
  BY DEF TypeOK
<1> c \in Txn /\ CallOrg(c) \in Row /\ CallKey[c] \in Row
  BY ChargeTypes DEF Txn, Row
<1>0. None \notin Txn /\ Call \cap Clerk = {}
  BY SettlementAssumption
<1> USE <1>0 DEF Others, clerkVars, orderVars, pendingVars, logVars, keyVars,
        TxnTypes, LogTypes, Goto, Txn
<1>1. CASE VerifyKey(c) \/ EnsureFunds(c) \/ Serve(c)
  BY <1>1 DEF VerifyKey, EnsureFunds, Serve
<1>2. CASE Begin(c)
  BY <1>2 DEF Begin
<1>3. CASE Debit(c)
  <2>1. \A row \in Row, x \in Txn \ {c} : holder'[row] = x <=> holder[row] = x
    BY <1>3, LockOthers DEF Debit, AdjustBalance
  <2>2. QED
    BY <1>3, <2>1 DEF Debit, AdjustBalance
<1>4. CASE SpendBudget(c)
  <2>1. \A row \in Row, x \in Txn \ {c} : holder'[row] = x <=> holder[row] = x
    BY <1>4, LockOthers DEF SpendBudget
  <2>2. QED
    BY <1>4, <2>1 DEF SpendBudget
<1>5. CASE Commit(c)
  BY <1>5 DEF Commit, Unlocked
<1>6. CASE RollBack(c)
  BY <1>6 DEF RollBack, Unlocked
<1>7. QED
  BY <1>1, <1>2, <1>3, <1>4, <1>5, <1>6 DEF CallStep

LEMMA ClerkOthers ==
  ASSUME TypeOK, NEW x \in Clerk, ClerkStart(x) \/ ClerkStep(x)
  PROVE  Others(x) /\ UNCHANGED <<logVars, keyVars, usedAfter, statusAfter>>
<1> TxnTypes /\ ClerkTypes
  BY DEF TypeOK
<1> x \in Txn
  BY DEF Txn
<1>0. None \notin Txn /\ Call \cap Clerk = {}
  BY SettlementAssumption
<1> USE <1>0 DEF Others, clerkVars, orderVars, pendingVars, logVars, keyVars,
        TxnTypes, ClerkTypes, Goto, Txn
<1>1. CASE ClerkStart(x)
  <2>1. ASSUME NEW p \in Order, ReadOrder(x, p)
        PROVE  Others(x) /\ UNCHANGED <<logVars, keyVars, usedAfter, statusAfter>>
    BY <2>1 DEF ReadOrder
  <2>2. ASSUME NEW p \in Order, InsertPaid(x, p)
        PROVE  Others(x) /\ UNCHANGED <<logVars, keyVars, usedAfter, statusAfter>>
    <3>1. Lock(x, p) /\ p \in Row
      BY <2>2 DEF InsertPaid, Row
    <3>2. \A row \in Row, y \in Txn \ {x} : holder'[row] = y <=> holder[row] = y
      BY <3>1, LockOthers
    <3>3. QED
      BY <2>2, <3>2 DEF InsertPaid
  <2>3. ASSUME NEW o \in Org, Recharge(x, o)
        PROVE  Others(x) /\ UNCHANGED <<logVars, keyVars, usedAfter, statusAfter>>
    BY <2>3 DEF Recharge
  <2>4. QED
    BY <1>1, <2>1, <2>2, <2>3 DEF ClerkStart
<1>2. CASE Claim(x)
  <2>1. inHand[x] \in Row
    BY <1>2 DEF Claim, Row
  <2>2. \A row \in Row, y \in Txn \ {x} : holder'[row] = y <=> holder[row] = y
    BY <1>2, <2>1, LockOthers DEF Claim
  <2>3. QED
    BY <1>2, <2>2 DEF Claim
<1>3. CASE CreditWallet(x)
  <2>1. credit[x][1] \in Row
    BY <1>3, CreditTypes DEF CreditWallet, Row
  <2>2. \A row \in Row, y \in Txn \ {x} : holder'[row] = y <=> holder[row] = y
    BY <1>3, <2>1, LockOthers DEF CreditWallet, AdjustBalance
  <2>3. QED
    BY <1>3, <2>2 DEF CreditWallet, AdjustBalance
<1>4. CASE Post(x)
  BY <1>4 DEF Post, Leave, Unlocked
<1>5. CASE Abandon(x)
  BY <1>5 DEF Abandon, Leave, Unlocked
<1>6. QED
  BY <1>1, <1>2, <1>3, <1>4, <1>5 DEF ClerkStep

\* What a statement that takes a lock does for its own transaction.
LEMMA LockTakes ==
  ASSUME TypeOK, NEW y \in Txn, NEW taken \in Row, Lock(y, taken)
  PROVE  /\ holder[taken] = None /\ holder'[taken] = y
         /\ \A row \in Row \ {taken} : holder'[row] = holder[row]
<1>1. holder \in [Row -> Txn \cup {None}]
  BY DEF TypeOK, TxnTypes
<1>2. QED
  BY <1>1 DEF Lock, Locked

LEMMA AdjustComputes ==
  ASSUME TypeOK, NEW y \in Txn, NEW o \in Org, NEW delta \in Int, AdjustBalance(y, o, delta)
  PROVE  holder'[o] = y /\ after'[y] = balance[o] + delta
<1>1. holder'[o] = y
  BY LockTakes DEF AdjustBalance, Row
<1>2. after \in [Txn -> Int]
  BY DEF TypeOK, TxnTypes
<1>3. QED
  BY <1>1, <1>2 DEF AdjustBalance

\* Orders and keys are edited without touching a request, a lock or a wallet.
LEMMA OthersQuiet ==
  ASSUME (\E p \in Order : CreateOrder(p)) \/ (\E k \in Key : KeyStep(k))
  PROVE  UNCHANGED <<walletVars, logVars, used, holder, pc, pendingVars, clerkVars>>
  BY DEF CreateOrder, KeyStep, UpdateKey, DeleteKey, walletVars, logVars, keyVars, pendingVars,
         clerkVars, orderVars

----------------------------------------------------------------------------
(* Who holds a row                                                         *)

\* A wallet is written by its holder only.
LEMMA CallBalance ==
  ASSUME TypeOK, Locks, NEW c \in Call, CallStep(c)
  PROVE  \A o \in Org, x \in Txn \ {c} : holder[o] = x => balance'[o] = balance[o]
<1> balance \in [Org -> Int]
  BY DEF TypeOK, WalletTypes
<1>1. CASE Commit(c) /\ charge[c] > 0
  <2>1. holder[CallOrg(c)] = c
    BY <1>1 DEF Locks, CallLocks, Commit
  <2>2. balance' = [balance EXCEPT ![CallOrg(c)] = after[c]]
    BY <1>1 DEF Commit, Enter
  <2>3. QED
    BY <2>1, <2>2
<1>2. CASE Commit(c) /\ ~(charge[c] > 0)
  BY <1>2 DEF Commit, walletVars
<1>3. CASE ~Commit(c)
  BY <1>3 DEF CallStep, VerifyKey, EnsureFunds, Serve, Begin, Debit, SpendBudget, RollBack,
         walletVars
<1>4. QED
  BY <1>1, <1>2, <1>3

LEMMA ClerkBalance ==
  ASSUME TypeOK, Locks, NEW y \in Clerk, ClerkStart(y) \/ ClerkStep(y)
  PROVE  \A o \in Org, x \in Txn \ {y} : holder[o] = x => balance'[o] = balance[o]
<1> balance \in [Org -> Int]
  BY DEF TypeOK, WalletTypes
<1>1. CASE Post(y)
  <2>1. holder[credit[y][1]] = y
    BY <1>1 DEF Locks, ClerkLocks, Post
  <2>2. balance' = [balance EXCEPT ![credit[y][1]] = after[y]]
    BY <1>1 DEF Post, Enter
  <2>3. QED
    BY <2>1, <2>2
<1>2. CASE ~Post(y)
  BY <1>2 DEF ClerkStart, ReadOrder, InsertPaid, Recharge, ClerkStep, Claim, CreditWallet, Abandon,
         walletVars
<1>3. QED
  BY <1>1, <1>2

\* Who debited or credited a wallet, and does not move, still holds it and what
\* it computed is still right.
LEMMA CallKeeps ==
  ASSUME TypeOK, CallLocks, NEW y, NEW d \in Call, d # y, Others(y),
         \A o \in Org, x \in Txn \ {y} : holder[o] = x => balance'[o] = balance[o],
         pc'[d] \in {"budget", "commit"}, charge'[d] > 0
  PROVE  holder'[CallOrg(d)] = d /\ after'[d] = balance'[CallOrg(d)] - charge'[d]
<1>1. d \in Txn \ {y} /\ d \in Call \ {y} /\ CallOrg(d) \in Org /\ CallOrg(d) \in Row
  BY ChargeTypes DEF Txn, Row
<1>2. pc'[d] = pc[d] /\ charge'[d] = charge[d] /\ after'[d] = after[d]
  BY <1>1 DEF Others
<1>3. holder[CallOrg(d)] = d /\ after[d] = balance[CallOrg(d)] - charge[d]
  BY <1>2 DEF CallLocks
<1>4. holder'[CallOrg(d)] = d /\ balance'[CallOrg(d)] = balance[CallOrg(d)]
  BY <1>1, <1>3 DEF Others
<1>5. QED
  BY <1>2, <1>3, <1>4

LEMMA ClerkKeeps ==
  ASSUME TypeOK, ClerkLocks, NEW y, NEW x \in Clerk, x # y, Others(y),
         \A o \in Org, z \in Txn \ {y} : holder[o] = z => balance'[o] = balance[o],
         pc'[x] = "post"
  PROVE  holder'[credit'[x][1]] = x /\ after'[x] = balance'[credit'[x][1]] + credit'[x][2]
<1>1. x \in Txn \ {y} /\ x \in Clerk \ {y}
  BY DEF Txn
<1>2. pc'[x] = pc[x] /\ credit'[x] = credit[x] /\ after'[x] = after[x]
  BY <1>1 DEF Others
<1>3. holder[credit[x][1]] = x /\ after[x] = balance[credit[x][1]] + credit[x][2]
  BY <1>2 DEF ClerkLocks
<1>4. credit[x][1] \in Org /\ credit[x][1] \in Row
  BY <1>2, CreditTypes DEF Row
<1>5. holder'[credit[x][1]] = x /\ balance'[credit[x][1]] = balance[credit[x][1]]
  BY <1>1, <1>3, <1>4 DEF Others
<1>6. QED
  BY <1>2, <1>3, <1>5

LEMMA CallLocksNext ==
  ASSUME TypeOK, Locks, [Next]_vars
  PROVE  CallLocks'
<1> CallLocks
  BY DEF Locks
<1>1. ASSUME NEW c \in Call, CallStep(c) PROVE CallLocks'
  <2> SUFFICES ASSUME NEW d \in Call, pc'[d] \in {"budget", "commit"}, charge'[d] > 0
               PROVE  holder'[CallOrg(d)] = d /\ after'[d] = balance'[CallOrg(d)] - charge'[d]
    BY DEF CallLocks, CallOrg
  <2>1. CASE d # c
    BY <1>1, <2>1, CallOthers, CallBalance, CallKeeps
  <2>2. CASE d = c
    <3> TxnTypes /\ LogTypes
      BY DEF TypeOK
    <3> c \in Txn /\ CallOrg(c) \in Org /\ CallOrg(c) \in Row /\ CallOrg(c) # CallKey[c]
      BY ChargeTypes, SettlementAssumption DEF Txn, Row
    <3> USE <2>2 DEF TxnTypes, LogTypes, Goto
    <3>1. CASE Begin(c)
      BY <3>1 DEF Begin
    <3>2. CASE Debit(c)
      <4>1. after'[c] = balance[CallOrg(c)] + -charge[c] /\ holder'[CallOrg(c)] = c
        BY <3>2, ChargeTypes, AdjustComputes DEF Debit
      <4>2. charge' = charge /\ balance' = balance
        BY <3>2 DEF Debit, logVars, walletVars
      <4>3. balance[CallOrg(c)] \in Int /\ charge[c] \in Int
        BY ChargeTypes DEF TypeOK, WalletTypes
      <4>4. QED
        BY <4>1, <4>2, <4>3
    <3>3. CASE SpendBudget(c)
      <4>1. UNCHANGED <<charge, balance, after>> /\ pc[c] = "budget"
        BY <3>3 DEF SpendBudget, logVars, walletVars
      <4>2. holder[CallOrg(c)] = c /\ after[c] = balance[CallOrg(c)] - charge[c]
        BY <4>1 DEF CallLocks
      <4>3. holder'[CallOrg(c)] = c
        <5>1. CallKey[c] \in Row
          BY ChargeTypes DEF Row
        <5>2. QED
          BY <3>3, <4>2, <5>1, LockTakes DEF SpendBudget
      <4>4. QED
        BY <4>1, <4>2, <4>3
    <3>4. CASE VerifyKey(c) \/ EnsureFunds(c) \/ Serve(c)
      BY <3>4 DEF VerifyKey, EnsureFunds, Serve
    <3>5. CASE Commit(c) \/ RollBack(c)
      <4>1. pc \in [Txn -> CallPc \cup ClerkPc]
        OBVIOUS
      <4>2. pc'[c] \in {"billed", "settle"} \/ pc'[c] = AfterError(c)
        BY <3>5, <4>1 DEF Commit, RollBack
      <4>3. QED
        BY <4>2 DEF AfterError
    <3>6. QED
      BY <1>1, <3>1, <3>2, <3>3, <3>4, <3>5 DEF CallStep
  <2>3. QED
    BY <2>1, <2>2
<1>2. ASSUME NEW x \in Clerk, ClerkStart(x) \/ ClerkStep(x) PROVE CallLocks'
  <2> SUFFICES ASSUME NEW d \in Call, pc'[d] \in {"budget", "commit"}, charge'[d] > 0
               PROVE  holder'[CallOrg(d)] = d /\ after'[d] = balance'[CallOrg(d)] - charge'[d]
    BY DEF CallLocks, CallOrg
  <2>1. d # x
    BY SettlementAssumption
  <2>2. QED
    BY <1>2, <2>1, ClerkOthers, ClerkBalance, CallKeeps
<1>3. CASE (\E p \in Order : CreateOrder(p)) \/ (\E k \in Key : KeyStep(k))
  BY <1>3, OthersQuiet DEF CallLocks, CallOrg, walletVars, logVars, pendingVars
<1>4. CASE UNCHANGED vars
  BY <1>4 DEF vars, CallLocks, CallOrg, walletVars, logVars, pendingVars
<1>5. QED
  BY <1>1, <1>2, <1>3, <1>4 DEF Next

LEMMA ClerkLocksNext ==
  ASSUME TypeOK, Locks, [Next]_vars
  PROVE  ClerkLocks'
<1> ClerkLocks
  BY DEF Locks
<1>1. ASSUME NEW c \in Call, CallStep(c) PROVE ClerkLocks'
  <2> SUFFICES ASSUME NEW x \in Clerk, pc'[x] = "post"
               PROVE  /\ holder'[credit'[x][1]] = x
                      /\ after'[x] = balance'[credit'[x][1]] + credit'[x][2]
    BY DEF ClerkLocks
  <2>1. x # c
    BY SettlementAssumption
  <2>2. QED
    BY <1>1, <2>1, CallOthers, CallBalance, ClerkKeeps
<1>2. ASSUME NEW y \in Clerk, ClerkStart(y) \/ ClerkStep(y) PROVE ClerkLocks'
  <2> SUFFICES ASSUME NEW x \in Clerk, pc'[x] = "post"
               PROVE  /\ holder'[credit'[x][1]] = x
                      /\ after'[x] = balance'[credit'[x][1]] + credit'[x][2]
    BY DEF ClerkLocks
  <2>1. CASE x # y
    BY <1>2, <2>1, ClerkOthers, ClerkBalance, ClerkKeeps
  <2>2. CASE x = y
    <3> TxnTypes
      BY DEF TypeOK
    <3> y \in Txn
      BY DEF Txn
    <3> USE <2>2 DEF TxnTypes, Goto
    <3>1. CASE CreditWallet(y)
      <4>1. credit' = credit /\ balance' = balance
        BY <3>1 DEF CreditWallet, clerkVars, walletVars
      <4>2. after'[y] = balance[credit[y][1]] + credit[y][2] /\ holder'[credit[y][1]] = y
        BY <3>1, CreditTypes, AdjustComputes DEF CreditWallet
      <4>4. QED
        BY <4>1, <4>2
    <3>2. CASE ClerkStart(y)
      BY <3>2 DEF ClerkStart, ReadOrder, InsertPaid, Recharge
    <3>3. CASE Claim(y)
      BY <3>3 DEF Claim
    <3>4. CASE Post(y) \/ Abandon(y)
      BY <3>4 DEF Post, Abandon, Leave
    <3>5. QED
      BY <1>2, <3>1, <3>2, <3>3, <3>4 DEF ClerkStep
  <2>3. QED
    BY <2>1, <2>2
<1>3. CASE (\E p \in Order : CreateOrder(p)) \/ (\E k \in Key : KeyStep(k))
  BY <1>3, OthersQuiet DEF ClerkLocks, walletVars, clerkVars, pendingVars
<1>4. CASE UNCHANGED vars
  BY <1>4 DEF vars, ClerkLocks, walletVars, clerkVars, pendingVars
<1>5. QED
  BY <1>1, <1>2, <1>3, <1>4 DEF Next

LEMMA KeyLocksNext ==
  ASSUME TypeOK, Locks, [Next]_vars
  PROVE  KeyLocks'
<1> KeyLocks
  BY DEF Locks
<1>1. ASSUME NEW c \in Call, CallStep(c), NEW k \in Key, NEW x \in Txn, holder'[k] = x
      PROVE  /\ x \in Call /\ pc'[x] = "commit" /\ CallKey[x] = k
             /\ usedAfter'[x] = used'[k] + charge'[x]
             /\ statusAfter'[x] = StatusAt(k, used[k] + charge[x])'
  <2> k \in Row
    BY DEF Row
  <2>1. CASE x # c
    <3>1. holder[k] = x
      BY <1>1, <2>1, CallOthers DEF Others
    <3>2. /\ x \in Call /\ pc[x] = "commit" /\ CallKey[x] = k
          /\ usedAfter[x] = used[k] + charge[x]
          /\ statusAfter[x] = StatusAt(k, used[k] + charge[x])
      BY <3>1 DEF KeyLocks
    <3>3. /\ pc'[x] = pc[x] /\ charge'[x] = charge[x]
          /\ usedAfter'[x] = usedAfter[x] /\ statusAfter'[x] = statusAfter[x]
      BY <1>1, <2>1, <3>2, CallOthers DEF Others
    <3>4. used'[k] = used[k] /\ keyStatus'[k] = keyStatus[k] /\ limit' = limit
      <4> used \in [Key -> Nat] /\ keyStatus \in [Key -> KeyStatus]
        BY DEF TypeOK, KeyTypes
      <4>1. CASE Commit(c)
        BY <1>1, <2>1, <3>1, <4>1 DEF Commit
      <4>2. CASE ~Commit(c)
        BY <1>1, <4>2 DEF CallStep, VerifyKey, EnsureFunds, Serve, Begin, Debit, SpendBudget,
               RollBack, keyVars
      <4>3. QED
        BY <4>1, <4>2
    <3>5. QED
      BY <3>2, <3>3, <3>4 DEF StatusAt
  <2>2. CASE x = c
    <3> TxnTypes
      BY DEF TypeOK
    <3>1. holder[k] # c \/ pc[c] = "commit"
      BY <2>2 DEF KeyLocks
    <3>2. CASE VerifyKey(c) \/ EnsureFunds(c) \/ Serve(c) \/ Begin(c)
      BY <1>1, <2>2, <3>1, <3>2 DEF VerifyKey, EnsureFunds, Serve, Begin
    <3>3. CASE Debit(c)
      <4>1. k # CallOrg(c) /\ CallOrg(c) \in Row /\ c \in Txn
        BY ChargeTypes, SettlementAssumption DEF Row, Txn
      <4>2. holder'[k] = holder[k]
        BY <3>3, <4>1, LockTakes DEF Debit, AdjustBalance
      <4>3. QED
        BY <1>1, <2>2, <3>1, <3>3, <4>2 DEF Debit
    <3>4. CASE SpendBudget(c)
      <4>1. CallKey[c] \in Row /\ CallKey[c] \in Key /\ c \in Txn
        BY ChargeTypes DEF Row, Txn
      <4>2. holder[k] # c
        BY <3>1, <3>4 DEF SpendBudget
      <4>3. k = CallKey[c] /\ CallKey[c] \in live
        BY <1>1, <2>2, <3>4, <4>1, <4>2, LockTakes DEF SpendBudget
      <4>4. /\ usedAfter'[c] = used[k] + charge[c]
            /\ statusAfter'[c] = StatusAt(k, used[k] + charge[c])
        BY <3>4, <4>3 DEF SpendBudget, Total, TxnTypes
      <4>5. pc'[c] = "commit"
        BY <3>4, <4>1 DEF SpendBudget, Goto, TxnTypes
      <4>6. UNCHANGED <<used, keyStatus, limit, charge>>
        BY <3>4 DEF SpendBudget, keyVars, logVars
      <4>7. QED
        BY <2>2, <4>3, <4>4, <4>5, <4>6 DEF StatusAt
    <3>5. CASE Commit(c) \/ RollBack(c)
      BY <1>1, <2>2, <3>5, SettlementAssumption DEF Commit, RollBack, Unlocked, Txn
    <3>6. QED
      BY <1>1, <3>2, <3>3, <3>4, <3>5 DEF CallStep
  <2>3. QED
    BY <2>1, <2>2
<1>2. ASSUME NEW y \in Clerk, ClerkStart(y) \/ ClerkStep(y), NEW k \in Key, NEW x \in Txn,
             holder'[k] = x
      PROVE  /\ x \in Call /\ pc'[x] = "commit" /\ CallKey[x] = k
             /\ usedAfter'[x] = used'[k] + charge'[x]
             /\ statusAfter'[x] = StatusAt(k, used[k] + charge[x])'
  <2> k \in Row /\ y \in Txn
    BY DEF Row, Txn
  <2>1. holder[k] = x
    <3>1. CASE x # y
      BY <1>2, <3>1, ClerkOthers DEF Others
    <3>2. CASE x = y
      <4>1. k \notin Order /\ k \notin Org
        BY SettlementAssumption
      <4>2. ASSUME NEW p \in Order, ReadOrder(y, p) \/ InsertPaid(y, p) PROVE holder'[k] = holder[k]
        BY <4>1, <4>2, LockTakes DEF ReadOrder, InsertPaid, Row
      <4>3. ASSUME NEW o \in Org, Recharge(y, o) PROVE holder'[k] = holder[k]
        BY <4>3 DEF Recharge
      <4>4. CASE Claim(y)
        <5>1. inHand[y] \in Order
          BY <4>4 DEF Claim, TypeOK, ClerkTypes
        <5>2. QED
          BY <1>2, <4>1, <4>4, <5>1, LockTakes DEF Claim, Row
      <4>5. CASE CreditWallet(y)
        <5>1. credit[y][1] \in Org
          BY <4>5, CreditTypes DEF CreditWallet
        <5>2. QED
          BY <1>2, <4>1, <4>5, <5>1, LockTakes DEF CreditWallet, AdjustBalance, Row
      <4>6. CASE Post(y) \/ Abandon(y)
        BY <1>2, <3>2, <4>6, SettlementAssumption DEF Post, Abandon, Leave, Unlocked
      <4>7. QED
        BY <1>2, <4>2, <4>3, <4>4, <4>5, <4>6 DEF ClerkStart, ClerkStep
    <3>3. QED
      BY <3>1, <3>2
  <2>2. /\ x \in Call /\ pc[x] = "commit" /\ CallKey[x] = k
        /\ usedAfter[x] = used[k] + charge[x]
        /\ statusAfter[x] = StatusAt(k, used[k] + charge[x])
    BY <2>1 DEF KeyLocks
  <2>3. x # y
    BY <2>2, SettlementAssumption
  <2>4. pc'[x] = pc[x] /\ UNCHANGED <<usedAfter, statusAfter, charge, used, limit, keyStatus>>
    BY <1>2, <2>3, ClerkOthers DEF Others, logVars, keyVars
  <2>5. QED
    BY <2>2, <2>4 DEF StatusAt
<1>3. ASSUME NEW p \in Order, CreateOrder(p) PROVE KeyLocks'
  BY <1>3 DEF CreateOrder, KeyLocks, StatusAt, keyVars, logVars, pendingVars
<1>4. ASSUME NEW j \in Key, KeyStep(j) PROVE KeyLocks'
  <2>1. UNCHANGED <<holder, pc, usedAfter, statusAfter, charge, used>>
    BY <1>4 DEF KeyStep, UpdateKey, DeleteKey, pendingVars, logVars
  <2>2. holder[j] = None
    BY <1>4 DEF KeyStep, UpdateKey, DeleteKey, Edit, Locked
  <2>3. \A k \in Key \ {j} : limit'[k] = limit[k] /\ keyStatus'[k] = keyStatus[k]
    BY <1>4 DEF KeyStep, UpdateKey, DeleteKey, TypeOK, KeyTypes
  <2>4. None \notin Txn
    BY SettlementAssumption
  <2>5. QED
    BY <2>1, <2>2, <2>3, <2>4 DEF KeyLocks, StatusAt
<1>5. CASE UNCHANGED vars
  BY <1>5 DEF vars, KeyLocks, StatusAt, keyVars, logVars, pendingVars
<1>6. QED
  BY <1>1, <1>2, <1>3, <1>4, <1>5 DEF Next, KeyLocks

\* Who computed a balance or a budget holds the row it was computed from.
THEOREM LocksHeld == Spec => []Locks
<1>1. Init => Locks
  BY SettlementAssumption DEF Init, Locks, CallLocks, ClerkLocks, KeyLocks, Txn, Row
<1>2. TypeOK /\ Locks /\ [Next]_vars => Locks'
  BY CallLocksNext, ClerkLocksNext, KeyLocksNext DEF Locks
<1>3. QED
  BY <1>1, <1>2, TypeCorrect, PTL DEF Spec

----------------------------------------------------------------------------
\* A key at its limit is never left Enabled by spending, and only an
\* administrator enables one.
THEOREM LimitAlwaysExhausts == Spec => LimitExhausts
<1>1. ASSUME TypeOK, Locks, [Next]_vars, NEW k \in Key
      PROVE  /\ used'[k] # used[k] =>
                  /\ keyStatus'[k] = "Enabled" => limit[k] = 0 \/ used'[k] < limit[k]
                  /\ keyStatus[k] = "Disabled" => keyStatus'[k] = "Disabled"
             /\ keyStatus[k] # "Enabled" /\ keyStatus'[k] = "Enabled" => edits' > edits
  <2> used \in [Key -> Nat] /\ limit \in [Key -> Nat] /\ keyStatus \in [Key -> KeyStatus]
    BY <1>1 DEF TypeOK, KeyTypes
  <2>1. ASSUME NEW c \in Call, Commit(c), holder[k] = c, CallKey[c] = k
        PROVE  used'[k] \in Nat /\ keyStatus'[k] = StatusAt(k, used'[k])
    <3>1. c \in Txn
      BY DEF Txn
    <3>2. usedAfter[c] = used[k] + charge[c] /\ statusAfter[c] = StatusAt(k, used[k] + charge[c])
      BY <1>1, <2>1, <3>1 DEF Locks, KeyLocks
    <3>3. used'[k] = usedAfter[c] /\ keyStatus'[k] = statusAfter[c]
      BY <2>1 DEF Commit
    <3>4. used[k] + charge[c] \in Nat
      BY <1>1, ChargeTypes
    <3>5. QED
      BY <3>2, <3>3, <3>4
  <2>2. CASE \E c \in Call : Commit(c) /\ holder[k] = c /\ CallKey[c] = k
    BY <2>1, <2>2 DEF StatusAt
  <2>3. CASE UNCHANGED <<used, keyStatus>>
    BY <2>3
  <2>4. ASSUME NEW c \in Call, CallStep(c), ~(Commit(c) /\ holder[k] = c /\ CallKey[c] = k)
        PROVE  used'[k] = used[k] /\ keyStatus'[k] = keyStatus[k]
    <3>1. CASE Commit(c)
      BY <2>4, <3>1 DEF Commit
    <3>2. CASE ~Commit(c)
      BY <2>4, <3>2 DEF CallStep, VerifyKey, EnsureFunds, Serve, Begin, Debit, SpendBudget,
             RollBack, keyVars
    <3>3. QED
      BY <3>1, <3>2
  <2>5. ASSUME NEW j \in Key, KeyStep(j) PROVE used' = used /\ edits' = edits + 1
    BY <2>5 DEF KeyStep, UpdateKey, DeleteKey, Edit
  <2>6. ASSUME NEW x \in Clerk, ClerkStart(x) \/ ClerkStep(x) PROVE UNCHANGED <<used, keyStatus>>
    BY <1>1, <2>6, ClerkOthers DEF keyVars
  <2>7. ASSUME NEW p \in Order, CreateOrder(p) PROVE UNCHANGED <<used, keyStatus>>
    BY <2>7 DEF CreateOrder, keyVars
  <2>8. CASE UNCHANGED vars
    BY <2>8 DEF vars, keyVars
  <2>9. edits \in Nat
    BY <1>1 DEF TypeOK
  <2>10. CASE \E j \in Key : KeyStep(j)
    BY <2>5, <2>9, <2>10
  <2>11. QED
    BY <1>1, <2>2, <2>3, <2>4, <2>6, <2>7, <2>8, <2>10 DEF Next
<1>2. TypeOK /\ Locks /\ [Next]_vars =>
        [\A k \in Key :
           /\ used'[k] # used[k] =>
                /\ keyStatus'[k] = "Enabled" => limit[k] = 0 \/ used'[k] < limit[k]
                /\ keyStatus[k] = "Disabled" => keyStatus'[k] = "Disabled"
           /\ keyStatus[k] # "Enabled" /\ keyStatus'[k] = "Enabled" => edits' > edits]_vars
  BY <1>1
<1>3. QED
  BY <1>2, TypeCorrect, LocksHeld, PTL DEF Spec, LimitExhausts

----------------------------------------------------------------------------
(* What is entered in the books                                            *)

\* The entries a step makes, each with a balance that is right.
CallEnters(c) == /\ Commit(c) /\ charge[c] > 0
                 /\ Enter(c, CallOrg(c), -charge[c], c)
                 /\ after[c] = balance[CallOrg(c)] + -charge[c]
ClerkEnters(x) == /\ Post(x)
                  /\ Enter(x, credit[x][1], credit[x][2], inHand[x])
                  /\ after[x] = balance[credit[x][1]] + credit[x][2]

LEMMA CallEntering ==
  ASSUME TypeOK, Locks, NEW c \in Call, CallStep(c)
  PROVE  UNCHANGED walletVars \/ CallEnters(c)
<1>1. CASE Commit(c) /\ charge[c] > 0
  <2>1. after[c] = balance[CallOrg(c)] - charge[c]
    BY <1>1 DEF Locks, CallLocks, Commit
  <2>2. after[c] = balance[CallOrg(c)] + -charge[c]
    BY <2>1, ChargeTypes DEF TypeOK, WalletTypes
  <2>3. QED
    BY <1>1, <2>2 DEF CallEnters, Commit
<1>2. CASE Commit(c) /\ ~(charge[c] > 0)
  BY <1>2 DEF Commit
<1>3. CASE ~Commit(c)
  BY <1>3 DEF CallStep, VerifyKey, EnsureFunds, Serve, Begin, Debit, SpendBudget, RollBack
<1>4. QED
  BY <1>1, <1>2, <1>3

LEMMA ClerkEntering ==
  ASSUME TypeOK, Locks, NEW x \in Clerk, ClerkStart(x) \/ ClerkStep(x)
  PROVE  UNCHANGED <<walletVars, orderVars>> \/ ClerkEnters(x)
<1>1. CASE Post(x)
  BY <1>1 DEF ClerkEnters, Post, Locks, ClerkLocks
<1>2. CASE ~Post(x)
  BY <1>2 DEF ClerkStart, ReadOrder, InsertPaid, Recharge, ClerkStep, Claim, CreditWallet, Abandon
<1>3. QED
  BY <1>1, <1>2

LEMMA Entering ==
  ASSUME TypeOK, Locks, [Next]_vars
  PROVE  \/ UNCHANGED walletVars
         \/ \E c \in Call : CallEnters(c)
         \/ \E x \in Clerk : ClerkEnters(x)
<1>1. CASE (\E p \in Order : CreateOrder(p)) \/ (\E k \in Key : KeyStep(k))
  BY <1>1, OthersQuiet
<1>2. CASE UNCHANGED vars
  BY <1>2 DEF vars
<1>3. QED
  BY <1>1, <1>2, CallEntering, ClerkEntering DEF Next

\* A balance computed from the balance keeps the running sum.
LEMMA SumEntered ==
  ASSUME TypeOK, BalanceIsRunningSum, NEW x \in Txn, NEW o \in Org, NEW amount \in Int, NEW ref,
         Enter(x, o, amount, ref), after[x] = balance[o] + amount
  PROVE  BalanceIsRunningSum'
<1>1. balance \in [Org -> Int] /\ entries \in [Org -> Seq(Entry)]
  BY DEF TypeOK, WalletTypes
<1>2. ASSUME NEW a \in Org, a # o PROVE entries'[a] = entries[a] /\ balance'[a] = balance[a]
  BY <1>1, <1>2 DEF Enter
<1> DEFINE n == Len(entries[o])
           row == [ref |-> ref, amount |-> amount, after |-> after[x]]
<1>3. entries'[o] = Append(entries[o], row) /\ balance'[o] = after[x]
  BY <1>1 DEF Enter
<1>4. /\ Len(entries'[o]) = n + 1 /\ n \in Nat /\ entries'[o][n + 1] = row
      /\ \A i \in 1..n : entries'[o][i] = entries[o][i]
  BY <1>1, <1>3
<1>5. /\ \A i \in 1..n : entries[o][i].after
                           = (IF i = 1 THEN 0 ELSE entries[o][i - 1].after) + entries[o][i].amount
      /\ balance[o] = IF n + 1 = 1 THEN 0 ELSE entries[o][n + 1 - 1].after
  BY DEF BalanceIsRunningSum, BalanceBefore
<1>6. ASSUME NEW i \in 1..(n + 1)
      PROVE  entries'[o][i].after
               = (IF i = 1 THEN 0 ELSE entries'[o][i - 1].after) + entries'[o][i].amount
  <2>1. CASE i \in 1..n
    <3>1. i = 1 \/ i - 1 \in 1..n
      BY <1>4, <2>1
    <3>2. QED
      BY <1>4, <1>5, <2>1, <3>1
  <2>2. CASE i = n + 1
    <3>1. entries'[o][i].after = balance[o] + amount /\ entries'[o][i].amount = amount
      BY <1>4, <2>2
    <3>2. balance[o] = IF i = 1 THEN 0 ELSE entries'[o][i - 1].after
      BY <1>4, <1>5, <2>2
    <3>3. QED
      BY <3>1, <3>2
  <2>3. QED
    BY <1>4, <2>1, <2>2
<1>7. balance'[o] = IF n + 1 + 1 = 1 THEN 0 ELSE entries'[o][n + 1 + 1 - 1].after
  BY <1>3, <1>4
<1>8. ASSUME NEW a \in Org
      PROVE  /\ \A i \in 1..Len(entries'[a]) :
                  entries'[a][i].after = BalanceBefore(a, i)' + entries'[a][i].amount
             /\ balance'[a] = BalanceBefore(a, Len(entries[a]) + 1)'
  <2>1. CASE a = o
    BY <1>4, <1>6, <1>7, <2>1 DEF BalanceBefore
  <2>2. CASE a # o
    BY <1>2, <2>2 DEF BalanceIsRunningSum, BalanceBefore
  <2>3. QED
    BY <2>1, <2>2
<1>9. QED
  BY <1>8 DEF BalanceIsRunningSum

\* The balance is always the sum of the rows of transactions.
THEOREM BalanceAlwaysRunningSum == Spec => []BalanceIsRunningSum
<1>1. Init => BalanceIsRunningSum
  BY DEF Init, BalanceIsRunningSum, BalanceBefore
<1>2. TypeOK /\ Locks /\ BalanceIsRunningSum /\ [Next]_vars => BalanceIsRunningSum'
  <2> SUFFICES ASSUME TypeOK, Locks, BalanceIsRunningSum, [Next]_vars PROVE BalanceIsRunningSum'
    OBVIOUS
  <2>1. CASE UNCHANGED walletVars
    BY <2>1 DEF walletVars, BalanceIsRunningSum, BalanceBefore
  <2>2. ASSUME NEW c \in Call, CallEnters(c) PROVE BalanceIsRunningSum'
    BY <2>2, ChargeTypes, SumEntered DEF CallEnters, Txn
  <2>3. ASSUME NEW x \in Clerk, ClerkEnters(x) PROVE BalanceIsRunningSum'
    <3>1. credit[x][1] \in Org /\ credit[x][2] \in Int
      BY <2>3, CreditTypes DEF ClerkEnters, Post
    <3>2. QED
      BY <2>3, <3>1, SumEntered DEF ClerkEnters, Txn
  <2>4. QED
    BY <2>1, <2>2, <2>3, Entering
<1>3. QED
  BY <1>1, <1>2, TypeCorrect, LocksHeld, PTL DEF Spec

----------------------------------------------------------------------------
(* Nothing is entered twice                                                *)

\* What one entry does to the rows of the books.
LEMMA RowsEntered ==
  ASSUME TypeOK, NEW x \in Txn, NEW o \in Org, NEW amount, NEW ref, Enter(x, o, amount, ref)
  PROVE  /\ Rows(o, ref)' = Rows(o, ref) \cup {Len(entries[o]) + 1}
         /\ Len(entries[o]) + 1 \notin Rows(o, ref)
         /\ entries'[o][Len(entries[o]) + 1].amount = amount
         /\ \A a \in Org : \A i \in 1..Len(entries[a]) : entries'[a][i] = entries[a][i]
         /\ \A a \in Org : a # o => Rows(a, ref)' = Rows(a, ref)
         /\ \A a \in Org : \A r : r # ref => Rows(a, r)' = Rows(a, r)
<1>1. entries \in [Org -> Seq(Entry)]
  BY DEF TypeOK, WalletTypes
<1> DEFINE n == Len(entries[o])
           row == [ref |-> ref, amount |-> amount, after |-> after[x]]
<1>2. entries'[o] = Append(entries[o], row)
  BY <1>1 DEF Enter
<1>3. ASSUME NEW a \in Org, a # o PROVE entries'[a] = entries[a]
  BY <1>1, <1>3 DEF Enter
<1>4. /\ Len(entries'[o]) = n + 1 /\ n \in Nat /\ entries'[o][n + 1] = row
      /\ \A i \in 1..n : entries'[o][i] = entries[o][i]
  BY <1>1, <1>2
<1>5. \A a \in Org : \A i \in 1..Len(entries[a]) : entries'[a][i] = entries[a][i]
  BY <1>3, <1>4
<1>6. \A a \in Org : \A r : a # o => Rows(a, r)' = Rows(a, r)
  BY <1>3 DEF Rows
<1>7. Rows(o, ref)' = Rows(o, ref) \cup {n + 1}
  BY <1>4 DEF Rows
<1>8. ASSUME NEW r, r # ref PROVE Rows(o, r)' = Rows(o, r)
  BY <1>4, <1>8 DEF Rows
<1>9. n + 1 \notin Rows(o, ref)
  BY <1>4 DEF Rows
<1>10. QED
  BY <1>4, <1>5, <1>6, <1>7, <1>8, <1>9

\* What is entered at most once stays so when something else is entered,
LEMMA OtherEntered ==
  ASSUME TypeOK, NEW x \in Txn, NEW o \in Org, NEW amount, NEW ref, Enter(x, o, amount, ref),
         NEW r, r # ref, NEW org, NEW m, EnteredOnce(r, org, m)
  PROVE  \A a \in Org : \A i \in Rows(a, r)' :
           a = org /\ entries'[a][i].amount = m /\ Rows(a, r)' = {i}
<1> SUFFICES ASSUME NEW a \in Org, NEW i \in Rows(a, r)'
             PROVE  a = org /\ entries'[a][i].amount = m /\ Rows(a, r)' = {i}
  OBVIOUS
<1>1. Rows(a, r)' = Rows(a, r)
  BY RowsEntered
<1>2. a = org /\ entries[a][i].amount = m /\ Rows(a, r) = {i}
  BY <1>1 DEF EnteredOnce
<1>3. i \in 1..Len(entries[a])
  BY <1>1 DEF Rows
<1>4. entries'[a][i] = entries[a][i]
  BY <1>3, RowsEntered
<1>5. QED
  BY <1>1, <1>2, <1>4

\* and when it is entered itself for the first time.
LEMMA FirstEntered ==
  ASSUME TypeOK, NEW x \in Txn, NEW o \in Org, NEW amount, NEW ref, Enter(x, o, amount, ref),
         \A a \in Org : Rows(a, ref) = {}
  PROVE  /\ Rows(o, ref)' # {}
         /\ \A a \in Org : \A i \in Rows(a, ref)' :
              a = o /\ entries'[a][i].amount = amount /\ Rows(a, ref)' = {i}
<1>1. /\ Rows(o, ref)' = {Len(entries[o]) + 1}
      /\ entries'[o][Len(entries[o]) + 1].amount = amount
      /\ \A a \in Org : a # o => Rows(a, ref)' = {}
  BY RowsEntered
<1>2. QED
  BY <1>1

\* An order in the hand of a clerk who has claimed it is the clerk's alone, and
\* not yet credited.
OrderLocks ==
  \A x \in Clerk : pc[x] \in {"credit", "post"} /\ inHand[x] # None =>
    /\ holder[inHand[x]] = x /\ order[inHand[x]] # "Paid"
    /\ credit[x][1] = OrderOrg[inHand[x]]

\* A clerk between two requests has no order in hand.
IdleHands == \A x \in Clerk : pc[x] = "idle" => inHand[x] = None

\* Only a call that is through with settlement has a log, or a task that does
\* not know it is.
LoggedCalls ==
  \A c \in logged : pc[c] = "billed" \/ (c \in TaskCall /\ pc[c] = "settle")

LEMMA IdleHandsNext ==
  ASSUME TypeOK, IdleHands, [Next]_vars
  PROVE  IdleHands'
<1> TxnTypes /\ ClerkTypes
  BY DEF TypeOK
<1>1. ASSUME NEW c \in Call, CallStep(c) PROVE IdleHands'
  <2>1. \A x \in Clerk : pc'[x] = pc[x] /\ inHand'[x] = inHand[x]
    BY <1>1, CallOthers, SettlementAssumption DEF Others, Txn, clerkVars
  <2>2. QED
    BY <2>1 DEF IdleHands
<1>2. ASSUME NEW y \in Clerk, ClerkStart(y) \/ ClerkStep(y) PROVE IdleHands'
  <2>1. \A x \in Clerk \ {y} : pc'[x] = pc[x] /\ inHand'[x] = inHand[x]
    BY <1>2, ClerkOthers DEF Others, Txn
  <2>2. pc'[y] = "idle" => inHand'[y] = None
    <3> y \in Txn
      BY DEF Txn
    <3> USE DEF TxnTypes, ClerkTypes, Goto
    <3>1. CASE ClerkStart(y)
      BY <3>1 DEF ClerkStart, ReadOrder, InsertPaid, Recharge
    <3>2. CASE Claim(y)
      BY <3>2 DEF Claim
    <3>3. CASE CreditWallet(y)
      BY <3>3 DEF CreditWallet
    <3>4. CASE Post(y) \/ Abandon(y)
      BY <3>4 DEF Post, Abandon, Leave
    <3>5. QED
      BY <1>2, <3>1, <3>2, <3>3, <3>4 DEF ClerkStep
  <2>3. QED
    BY <2>1, <2>2 DEF IdleHands
<1>3. CASE (\E p \in Order : CreateOrder(p)) \/ (\E k \in Key : KeyStep(k))
  BY <1>3, OthersQuiet DEF IdleHands, clerkVars
<1>4. CASE UNCHANGED vars
  BY <1>4 DEF vars, IdleHands, clerkVars
<1>5. QED
  BY <1>1, <1>2, <1>3, <1>4 DEF Next

LEMMA OrderLocksNext ==
  ASSUME TypeOK, IdleHands, OrderLocks, [Next]_vars
  PROVE  OrderLocks'
<1> TxnTypes /\ ClerkTypes /\ OrderTypes
  BY DEF TypeOK
<1>1. ASSUME NEW c \in Call, CallStep(c) PROVE OrderLocks'
  <2> SUFFICES ASSUME NEW x \in Clerk, pc'[x] \in {"credit", "post"}, inHand'[x] # None
               PROVE  /\ holder'[inHand'[x]] = x /\ order'[inHand'[x]] # "Paid"
                      /\ credit'[x][1] = OrderOrg[inHand'[x]]
    BY DEF OrderLocks
  <2>1. x \in Txn \ {c} /\ UNCHANGED <<order, inHand, credit>>
    BY <1>1, CallOthers, SettlementAssumption DEF Txn, clerkVars, orderVars
  <2>2. pc'[x] = pc[x]
    BY <1>1, <2>1, CallOthers DEF Others
  <2>3. inHand[x] \in Order /\ inHand[x] \in Row
    BY <2>1 DEF ClerkTypes, Row
  <2>4. /\ holder[inHand[x]] = x /\ order[inHand[x]] # "Paid"
        /\ credit[x][1] = OrderOrg[inHand[x]]
    BY <2>1, <2>2 DEF OrderLocks
  <2>5. holder'[inHand[x]] = x
    BY <1>1, <2>1, <2>3, <2>4, CallOthers DEF Others
  <2>6. QED
    BY <2>1, <2>4, <2>5
<1>2. ASSUME NEW y \in Clerk, ClerkStart(y) \/ ClerkStep(y) PROVE OrderLocks'
  <2> SUFFICES ASSUME NEW x \in Clerk, pc'[x] \in {"credit", "post"}, inHand'[x] # None
               PROVE  /\ holder'[inHand'[x]] = x /\ order'[inHand'[x]] # "Paid"
                      /\ credit'[x][1] = OrderOrg[inHand'[x]]
    BY DEF OrderLocks
  <2> x \in Txn /\ y \in Txn
    BY DEF Txn
  <2>1. CASE x # y
    <3>1. pc'[x] = pc[x] /\ inHand'[x] = inHand[x] /\ credit'[x] = credit[x]
      BY <1>2, <2>1, ClerkOthers DEF Others
    <3>2. inHand[x] \in Order /\ inHand[x] \in Row
      BY <3>1 DEF ClerkTypes, Row
    <3>3. /\ holder[inHand[x]] = x /\ order[inHand[x]] # "Paid"
          /\ credit[x][1] = OrderOrg[inHand[x]]
      BY <3>1 DEF OrderLocks
    <3>4. holder'[inHand[x]] = x
      BY <1>2, <2>1, <3>2, <3>3, ClerkOthers DEF Others
    <3>5. order'[inHand[x]] = order[inHand[x]]
      <4>1. CASE Post(y)
        <5>1. inHand[y] # inHand[x]
          BY <2>1, <3>2, <3>3, <4>1, SettlementAssumption DEF OrderLocks, Post
        <5>2. QED
          BY <3>2, <4>1, <5>1 DEF Post, orderVars, OrderTypes
      <4>2. CASE ~Post(y)
        BY <1>2, <4>2 DEF ClerkStart, ReadOrder, InsertPaid, Recharge, ClerkStep, Claim,
               CreditWallet, Abandon, orderVars
      <4>3. QED
        BY <4>1, <4>2
    <3>6. QED
      BY <3>1, <3>3, <3>4, <3>5
  <2>2. CASE x = y
    <3>1. ASSUME NEW p \in Order, ReadOrder(y, p) PROVE FALSE
      BY <2>2, <3>1 DEF ReadOrder, Goto, TxnTypes
    <3>2. ASSUME NEW p \in Order, InsertPaid(y, p)
          PROVE  /\ holder'[inHand'[x]] = x /\ order'[inHand'[x]] # "Paid"
                 /\ credit'[x][1] = OrderOrg[inHand'[x]]
      <4>1. holder'[p] = y
        BY <3>2, LockTakes DEF InsertPaid, Row
      <4>2. inHand'[y] = p /\ credit'[y][1] = OrderOrg[p] /\ order'[p] = "none"
        BY <3>2 DEF InsertPaid, orderVars, ClerkTypes
      <4>3. QED
        BY <2>2, <4>1, <4>2
    <3>3. ASSUME NEW o \in Org, Recharge(y, o) PROVE FALSE
      <4>1. pc[y] = "idle" /\ inHand' = inHand
        BY <3>3 DEF Recharge
      <4>2. QED
        BY <2>2, <4>1 DEF IdleHands
    <3>4. CASE Claim(y)
      <4>1. inHand[y] \in Order /\ pc'[y] = "credit" /\ Payable(inHand[y])
        BY <2>2, <3>4 DEF Claim, Goto, TxnTypes, ClerkTypes
      <4>2. holder'[inHand[y]] = y
        BY <3>4, <4>1, LockTakes DEF Claim, Row
      <4>3. inHand'[y] = inHand[y] /\ credit'[y][1] = OrderOrg[inHand[y]] /\ order' = order
        BY <3>4, <4>1 DEF Claim, ClerkTypes, orderVars
      <4>4. QED
        BY <2>2, <4>1, <4>2, <4>3 DEF Payable
    <3>5. CASE CreditWallet(y)
      <4>1. pc[y] = "credit" /\ UNCHANGED <<inHand, credit, order>>
        BY <3>5 DEF CreditWallet, clerkVars, orderVars
      <4>2. /\ holder[inHand[y]] = y /\ order[inHand[y]] # "Paid"
            /\ credit[y][1] = OrderOrg[inHand[y]]
        BY <2>2, <4>1 DEF OrderLocks
      <4>3. inHand[y] \in Order /\ credit[y][1] \in Org /\ inHand[y] # credit[y][1]
        BY <2>2, <4>1, CreditTypes, SettlementAssumption DEF ClerkTypes
      <4>4. holder'[inHand[y]] = holder[inHand[y]]
        BY <3>5, <4>3, LockTakes DEF CreditWallet, AdjustBalance, Row
      <4>5. QED
        BY <2>2, <4>1, <4>2, <4>4
    <3>6. CASE Post(y) \/ Abandon(y)
      BY <2>2, <3>6 DEF Post, Abandon, Leave, Goto, TxnTypes
    <3>7. QED
      BY <1>2, <3>1, <3>2, <3>3, <3>4, <3>5, <3>6 DEF ClerkStart, ClerkStep
  <2>3. QED
    BY <2>1, <2>2
<1>3. ASSUME NEW p \in Order, CreateOrder(p) PROVE OrderLocks'
  <2>1. \A q \in Order : order'[q] = "Paid" => order[q] = "Paid"
    BY <1>3 DEF CreateOrder, OrderTypes
  <2>2. QED
    BY <1>3, <2>1 DEF CreateOrder, OrderLocks, clerkVars, ClerkTypes
<1>4. ASSUME NEW k \in Key, KeyStep(k) PROVE OrderLocks'
  BY <1>4 DEF KeyStep, UpdateKey, DeleteKey, OrderLocks, clerkVars, orderVars
<1>5. CASE UNCHANGED vars
  BY <1>5 DEF vars, OrderLocks, clerkVars, orderVars
<1>6. QED
  BY <1>1, <1>2, <1>3, <1>4, <1>5 DEF Next

LEMMA LoggedCallsNext ==
  ASSUME TypeOK, LoggedCalls, [Next]_vars
  PROVE  LoggedCalls'
<1> TxnTypes /\ LogTypes
  BY DEF TypeOK
<1>1. ASSUME NEW c \in Call, CallStep(c), NEW d \in logged'
      PROVE  pc'[d] = "billed" \/ (d \in TaskCall /\ pc'[d] = "settle")
  <2>1. d \in Call /\ d \in Txn /\ c \in Txn
    BY <1>1, LogTypesNext DEF LogTypes, Txn, Next
  <2>2. CASE d # c
    <3>1. pc'[d] = pc[d]
      BY <1>1, <2>1, <2>2, CallOthers DEF Others
    <3>2. d \in logged
      BY <1>1, <2>2 DEF CallStep, VerifyKey, EnsureFunds, Serve, Begin, Debit, SpendBudget,
             Commit, RollBack, logVars
    <3>3. QED
      BY <3>1, <3>2 DEF LoggedCalls
  <2>3. CASE d = c
    <3> USE <2>1, <2>3 DEF Goto, TxnTypes
    <3>1. CASE Commit(c)
      BY <3>1 DEF Commit
    <3>2. CASE ~Commit(c)
      <4>1. c \in logged
        BY <1>1, <3>2 DEF CallStep, VerifyKey, EnsureFunds, Serve, Begin, Debit, SpendBudget,
               RollBack, logVars
      <4>2. pc[c] = "billed" \/ (c \in TaskCall /\ pc[c] = "settle")
        BY <4>1 DEF LoggedCalls
      <4>3. CASE Begin(c)
        BY <4>1, <4>2, <4>3 DEF Begin, Settled
      <4>4. CASE RollBack(c)
        BY <4>2, <4>4 DEF RollBack, AfterError, InTxn
      <4>5. CASE VerifyKey(c) \/ EnsureFunds(c) \/ Serve(c) \/ Debit(c) \/ SpendBudget(c)
        BY <4>2, <4>5 DEF VerifyKey, EnsureFunds, Serve, Debit, SpendBudget
      <4>6. QED
        BY <1>1, <3>2, <4>3, <4>4, <4>5 DEF CallStep
    <3>3. QED
      BY <3>1, <3>2
  <2>4. QED
    BY <2>2, <2>3
<1>2. ASSUME NEW x \in Clerk, ClerkStart(x) \/ ClerkStep(x) PROVE LoggedCalls'
  <2>1. logged' = logged /\ \A c \in Call : pc'[c] = pc[c]
    BY <1>2, ClerkOthers, SettlementAssumption DEF Others, Txn, logVars
  <2>2. QED
    BY <2>1 DEF LoggedCalls, LogTypes
<1>3. CASE (\E p \in Order : CreateOrder(p)) \/ (\E k \in Key : KeyStep(k))
  BY <1>3, OthersQuiet DEF LoggedCalls, logVars
<1>4. CASE UNCHANGED vars
  BY <1>4 DEF vars, LoggedCalls, logVars
<1>5. QED
  BY <1>1, <1>2, <1>3, <1>4 DEF Next, LoggedCalls

----------------------------------------------------------------------------
LEMMA PaidIffCreditedNext ==
  ASSUME TypeOK, Locks, OrderLocks, PaidIffCredited, [Next]_vars
  PROVE  PaidIffCredited'
<1> SUFFICES ASSUME NEW p \in Order
             PROVE  /\ order'[p] = "Paid" <=> Rows(OrderOrg[p], p)' # {}
                    /\ EnteredOnce(p, OrderOrg[p], orderAmount[p])'
  BY DEF PaidIffCredited
<1> OrderOrg[p] \in Org
  BY SettlementAssumption
<1>1. /\ order[p] = "Paid" <=> Rows(OrderOrg[p], p) # {}
      /\ EnteredOnce(p, OrderOrg[p], orderAmount[p])
  BY DEF PaidIffCredited
<1>2. CASE UNCHANGED entries /\ order'[p] = order[p] /\ orderAmount'[p] = orderAmount[p]
  BY <1>1, <1>2 DEF EnteredOnce, Rows
<1>3. ASSUME NEW c \in Call, CallStep(c)
      PROVE  /\ order'[p] = "Paid" <=> Rows(OrderOrg[p], p)' # {}
             /\ EnteredOnce(p, OrderOrg[p], orderAmount[p])'
  <2>1. UNCHANGED <<order, orderAmount>>
    BY <1>3, CallOthers DEF orderVars
  <2>2. CASE CallEnters(c)
    <3>1. c # p /\ c \in Txn /\ CallOrg(c) \in Org
      BY ChargeTypes, SettlementAssumption DEF Txn
    <3>2. \A a \in Org : \A i \in Rows(a, p)' :
            /\ a = OrderOrg[p] /\ entries'[a][i].amount = orderAmount[p]
            /\ Rows(a, p)' = {i}
      BY <1>1, <2>2, <3>1, OtherEntered DEF CallEnters
    <3>3. Rows(OrderOrg[p], p)' = Rows(OrderOrg[p], p)
      BY <2>2, <3>1, RowsEntered DEF CallEnters
    <3>4. QED
      BY <1>1, <2>1, <3>2, <3>3 DEF EnteredOnce
  <2>3. QED
    BY <1>2, <1>3, <2>1, <2>2, CallEntering DEF walletVars
<1>4. ASSUME NEW x \in Clerk, ClerkStart(x) \/ ClerkStep(x)
      PROVE  /\ order'[p] = "Paid" <=> Rows(OrderOrg[p], p)' # {}
             /\ EnteredOnce(p, OrderOrg[p], orderAmount[p])'
  <2>1. CASE ClerkEnters(x)
    <3>1. x \in Txn /\ credit[x][1] \in Org /\ inHand[x] \in Order \cup {None}
      BY <2>1, CreditTypes DEF ClerkEnters, Post, Txn, TypeOK, ClerkTypes
    <3>2. CASE inHand[x] # p
      <4>1. order'[p] = order[p] /\ orderAmount'[p] = orderAmount[p]
        BY <2>1, <3>2 DEF ClerkEnters, Post, orderVars, TypeOK, OrderTypes
      <4>2. \A a \in Org : \A i \in Rows(a, p)' :
              /\ a = OrderOrg[p] /\ entries'[a][i].amount = orderAmount[p]
              /\ Rows(a, p)' = {i}
        BY <1>1, <2>1, <3>1, <3>2, OtherEntered DEF ClerkEnters
      <4>3. Rows(OrderOrg[p], p)' = Rows(OrderOrg[p], p)
        BY <2>1, <3>1, <3>2, RowsEntered DEF ClerkEnters
      <4>4. QED
        BY <1>1, <4>1, <4>2, <4>3 DEF EnteredOnce
    <3>3. CASE inHand[x] = p
      <4>1. p # None
        BY SettlementAssumption
      <4>2. order[p] # "Paid" /\ credit[x][1] = OrderOrg[p]
        BY <2>1, <3>3, <4>1 DEF OrderLocks, ClerkEnters, Post
      <4>3. \A a \in Org : Rows(a, p) = {}
        BY <1>1, <4>2 DEF EnteredOnce
      <4>4. order'[p] = "Paid" /\ orderAmount'[p] = credit[x][2]
        BY <2>1, <3>3, <4>1 DEF ClerkEnters, Post, TypeOK, OrderTypes
      <4>5. Enter(x, OrderOrg[p], credit[x][2], p)
        BY <2>1, <3>3, <4>2 DEF ClerkEnters
      <4>6. /\ Rows(OrderOrg[p], p)' # {}
            /\ \A a \in Org : \A i \in Rows(a, p)' :
                 /\ a = OrderOrg[p] /\ entries'[a][i].amount = orderAmount'[p]
                 /\ Rows(a, p)' = {i}
        BY <3>1, <4>3, <4>4, <4>5, FirstEntered
      <4>7. QED
        BY <4>4, <4>6 DEF EnteredOnce
    <3>4. QED
      BY <3>2, <3>3
  <2>2. QED
    BY <1>2, <1>4, <2>1, ClerkEntering DEF walletVars, orderVars
<1>5. ASSUME NEW q \in Order, CreateOrder(q)
      PROVE  /\ order'[p] = "Paid" <=> Rows(OrderOrg[p], p)' # {}
             /\ EnteredOnce(p, OrderOrg[p], orderAmount[p])'
  <2>1. UNCHANGED entries
    BY <1>5 DEF CreateOrder, walletVars
  <2>2. CASE q # p
    BY <1>2, <1>5, <2>1, <2>2 DEF CreateOrder, TypeOK, OrderTypes
  <2>3. CASE q = p
    <3>1. order[p] = "none" /\ order'[p] = "Pending"
      BY <1>5, <2>3 DEF CreateOrder, TypeOK, OrderTypes
    <3>2. \A a \in Org : Rows(a, p) = {}
      BY <1>1, <3>1 DEF EnteredOnce
    <3>3. QED
      BY <2>1, <3>1, <3>2 DEF EnteredOnce, Rows
  <2>4. QED
    BY <2>2, <2>3
<1>6. ASSUME NEW k \in Key, KeyStep(k) PROVE UNCHANGED <<entries, order, orderAmount>>
  BY <1>6 DEF KeyStep, UpdateKey, DeleteKey, walletVars, orderVars
<1>7. CASE UNCHANGED vars
  BY <1>2, <1>7 DEF vars, walletVars, orderVars
<1>8. QED
  BY <1>2, <1>3, <1>4, <1>5, <1>6, <1>7 DEF Next

LEMMA LogIffDebitedNext ==
  ASSUME TypeOK, Locks, LoggedCalls, LogIffDebited, [Next]_vars
  PROVE  LogIffDebited'
<1> SUFFICES ASSUME NEW d \in Call
             PROVE  /\ d \in logged' /\ charge'[d] > 0 <=> Rows(CallOrg(d), d)' # {}
                    /\ EnteredOnce(d, CallOrg(d), -charge[d])'
  BY DEF LogIffDebited, CallOrg
<1> d \in Txn /\ CallOrg(d) \in Org
  BY ChargeTypes DEF Txn
<1>1. /\ d \in logged /\ charge[d] > 0 <=> Rows(CallOrg(d), d) # {}
      /\ EnteredOnce(d, CallOrg(d), -charge[d])
  BY DEF LogIffDebited
<1>2. d \notin logged => \A a \in Org : Rows(a, d) = {}
  BY <1>1 DEF EnteredOnce
<1>3. CASE UNCHANGED entries /\ (d \in logged' <=> d \in logged) /\ charge'[d] = charge[d]
  BY <1>1, <1>3 DEF EnteredOnce, Rows, CallOrg
<1>4. CASE UNCHANGED entries /\ d \notin logged /\ (d \notin logged' \/ ~(charge'[d] > 0))
  BY <1>2, <1>4 DEF EnteredOnce, Rows, CallOrg
<1>5. ASSUME NEW x \in Txn, NEW o \in Org, NEW amount, NEW ref, ref # d, Enter(x, o, amount, ref),
             d \in logged' <=> d \in logged, charge'[d] = charge[d]
      PROVE  /\ d \in logged' /\ charge'[d] > 0 <=> Rows(CallOrg(d), d)' # {}
             /\ EnteredOnce(d, CallOrg(d), -charge[d])'
  <2>1. Rows(CallOrg(d), d)' = Rows(CallOrg(d), d)
    BY <1>5, RowsEntered DEF CallOrg
  <2>2. \A a \in Org : \A i \in Rows(a, d)' :
          a = CallOrg(d) /\ entries'[a][i].amount = -charge[d] /\ Rows(a, d)' = {i}
    BY <1>1, <1>5, OtherEntered
  <2>3. QED
    BY <1>1, <1>5, <2>1, <2>2 DEF EnteredOnce, CallOrg
<1>6. ASSUME NEW c \in Call, CallStep(c)
      PROVE  /\ d \in logged' /\ charge'[d] > 0 <=> Rows(CallOrg(d), d)' # {}
             /\ EnteredOnce(d, CallOrg(d), -charge[d])'
  <2>1. c \in Txn /\ CallOrg(c) \in Org
    BY ChargeTypes DEF Txn
  <2>2. CASE d # c
    <3>1. charge'[d] = charge[d]
      BY <1>6, <2>2, CallOthers DEF Others
    <3>2. d \in logged' <=> d \in logged
      BY <1>6, <2>2 DEF CallStep, VerifyKey, EnsureFunds, Serve, Begin, Debit, SpendBudget,
             Commit, RollBack, logVars
    <3>3. CASE CallEnters(c)
      BY <1>5, <2>1, <2>2, <3>1, <3>2, <3>3 DEF CallEnters
    <3>4. QED
      BY <1>3, <1>6, <3>1, <3>2, <3>3, CallEntering DEF walletVars
  <2>3. CASE d = c /\ Commit(c)
    <3>1. d \notin logged
      BY <2>3 DEF Commit, LoggedCalls
    <3>2. d \in logged' /\ charge' = charge
      BY <2>3 DEF Commit
    <3>3. CASE charge[d] > 0
      <4>1. Enter(d, CallOrg(d), -charge[d], d)
        BY <2>3, <3>3 DEF Commit
      <4>2. \A a \in Org : Rows(a, d) = {}
        BY <1>2, <3>1
      <4>3. /\ Rows(CallOrg(d), d)' # {}
            /\ \A a \in Org : \A i \in Rows(a, d)' :
                 /\ a = CallOrg(d) /\ entries'[a][i].amount = -charge[d]
                 /\ Rows(a, d)' = {i}
        BY <4>1, <4>2, FirstEntered
      <4>4. QED
        BY <3>2, <3>3, <4>3 DEF EnteredOnce, CallOrg
    <3>4. CASE ~(charge[d] > 0)
      BY <1>4, <2>3, <3>1, <3>2, <3>4 DEF Commit, walletVars
    <3>5. QED
      BY <3>3, <3>4
  <2>4. CASE d = c /\ Begin(c)
    <3>1. UNCHANGED <<entries, logged>>
      BY <2>4 DEF Begin, walletVars
    <3>2. CASE Settled(c)
      BY <1>3, <2>4, <3>1, <3>2 DEF Begin
    <3>3. CASE ~Settled(c)
      <4>1. c \notin logged
        BY <2>4, <3>3 DEF LoggedCalls, Settled, Begin
      <4>2. QED
        BY <1>4, <2>4, <3>1, <4>1
    <3>4. QED
      BY <3>2, <3>3
  <2>5. CASE ~Commit(c) /\ ~Begin(c)
    <3>1. UNCHANGED <<entries, logged, charge>>
      BY <1>6, <2>5 DEF CallStep, VerifyKey, EnsureFunds, Serve, Debit, SpendBudget, RollBack,
             logVars, walletVars
    <3>2. QED
      BY <1>3, <3>1
  <2>6. QED
    BY <2>2, <2>3, <2>4, <2>5
<1>7. ASSUME NEW x \in Clerk, ClerkStart(x) \/ ClerkStep(x)
      PROVE  /\ d \in logged' /\ charge'[d] > 0 <=> Rows(CallOrg(d), d)' # {}
             /\ EnteredOnce(d, CallOrg(d), -charge[d])'
  <2>1. UNCHANGED <<logged, charge>>
    BY <1>7, ClerkOthers DEF logVars
  <2>2. CASE ClerkEnters(x)
    <3>1. x \in Txn /\ credit[x][1] \in Org /\ inHand[x] \in Order \cup {None}
      BY <2>2, CreditTypes DEF ClerkEnters, Post, Txn, TypeOK, ClerkTypes
    <3>2. inHand[x] # d
      BY <3>1, SettlementAssumption
    <3>3. QED
      BY <1>5, <2>1, <2>2, <3>1, <3>2 DEF ClerkEnters
  <2>3. QED
    BY <1>3, <1>7, <2>1, <2>2, ClerkEntering DEF walletVars
<1>8. CASE (\E p \in Order : CreateOrder(p)) \/ (\E k \in Key : KeyStep(k))
  BY <1>3, <1>8, OthersQuiet DEF walletVars, logVars
<1>9. CASE UNCHANGED vars
  BY <1>3, <1>9 DEF vars, walletVars, logVars
<1>10. QED
  BY <1>6, <1>7, <1>8, <1>9 DEF Next

\* An order is Paid and credited together, once, to its organisation.
THEOREM AlwaysPaidIffCredited == Spec => []PaidIffCredited
<1>1. Init => IdleHands /\ OrderLocks /\ PaidIffCredited
  <2> SUFFICES ASSUME Init PROVE IdleHands /\ OrderLocks /\ PaidIffCredited
    OBVIOUS
  <2>1. IdleHands /\ OrderLocks
    BY SettlementAssumption DEF Init, IdleHands, OrderLocks, Txn
  <2>2. PaidIffCredited
    BY SettlementAssumption DEF Init, PaidIffCredited, EnteredOnce, Rows
  <2>3. QED
    BY <2>1, <2>2
<1>2. TypeOK /\ Locks /\ IdleHands /\ OrderLocks /\ PaidIffCredited /\ [Next]_vars
        => (IdleHands /\ OrderLocks /\ PaidIffCredited)'
  BY IdleHandsNext, OrderLocksNext, PaidIffCreditedNext
<1>3. QED
  BY <1>1, <1>2, TypeCorrect, LocksHeld, PTL DEF Spec

\* A usage log with a charge is debited once, and nothing is without its log.
THEOREM AlwaysLogIffDebited == Spec => []LogIffDebited
<1>1. Init => LoggedCalls /\ LogIffDebited
  <2> SUFFICES ASSUME Init PROVE LoggedCalls /\ LogIffDebited
    OBVIOUS
  <2>1. \A c \in Call : CallOrg(c) \in Org
    BY SettlementAssumption DEF CallOrg
  <2>2. \A o \in Org, c \in Call : Rows(o, c) = {}
    BY DEF Init, Rows
  <2>3. QED
    BY <2>1, <2>2 DEF Init, LoggedCalls, LogIffDebited, EnteredOnce
<1>2. TypeOK /\ Locks /\ LoggedCalls /\ LogIffDebited /\ [Next]_vars
        => (LoggedCalls /\ LogIffDebited)'
  BY LoggedCallsNext, LogIffDebitedNext
<1>3. QED
  BY <1>1, <1>2, TypeCorrect, LocksHeld, PTL DEF Spec

----------------------------------------------------------------------------
\* The books hold no row of d when no row of d is in its own organisation's.
LEMMA NotEntered ==
  ASSUME NEW src, NEW org, NEW m, EnteredOnce(src, org, m), Rows(org, src) = {}
  PROVE  ~Book!Entered(src)
<1>1. \A a \in Org : Rows(a, src) = {}
  BY DEF EnteredOnce
<1>2. QED
  BY <1>1 DEF Book!Entered, Rows

\* Every step of Settlement is an entry in the abstract ledger, or none.
THEOREM ImplementsLedger == Spec => LedgerSpec
<1>1. Init => Book!Init
  BY DEF Init, Book!Init
<1>2. TypeOK /\ Locks /\ OrderLocks /\ LoggedCalls /\ PaidIffCredited /\ LogIffDebited /\ [Next]_vars
        => [Book!Next]_<<balance, entries>>
  <2> SUFFICES ASSUME TypeOK, Locks, OrderLocks, LoggedCalls, PaidIffCredited, LogIffDebited,
                      [Next]_vars
               PROVE  Book!Next \/ UNCHANGED walletVars
    BY DEF walletVars
  <2>1. ASSUME NEW x \in Txn, NEW o \in Org, NEW amount \in Int,
               NEW src \in Order \cup Call \cup {None},
               amount \in Amount \cup {-n : n \in Charge \ {0}},
               Enter(x, o, amount, src), after[x] = balance[o] + amount,
               src = None \/ ~Book!Entered(src)
        PROVE  Book!Next
    <3>1. /\ balance' = [balance EXCEPT ![o] = balance[o] + amount]
          /\ entries' = [entries EXCEPT ![o] =
                           Append(@, [ref |-> src, amount |-> amount,
                                      after |-> balance[o] + amount])]
      BY <2>1 DEF Enter
    <3>2. Book!Enter(o, amount, src)
      BY <2>1, <3>1 DEF Book!Enter
    <3>3. QED
      BY <2>1, <3>2 DEF Book!Next
  <2>2. ASSUME NEW c \in Call, CallEnters(c) PROVE Book!Next
    <3>1. c \in Txn /\ CallOrg(c) \in Org /\ -charge[c] \in Int
      BY ChargeTypes DEF Txn
    <3>2. -charge[c] \in Amount \cup {-n : n \in Charge \ {0}}
      <4>1. charge[c] \in Charge \cup {0} /\ charge[c] > 0
        BY <2>2 DEF CallEnters, TypeOK, LogTypes
      <4>2. charge[c] \in Charge \ {0}
        BY <4>1
      <4>3. QED
        BY <4>2
    <3>3. c \notin logged
      BY <2>2 DEF CallEnters, Commit, LoggedCalls
    <3>4. Rows(CallOrg(c), c) = {} /\ EnteredOnce(c, CallOrg(c), -charge[c])
      BY <3>3 DEF LogIffDebited
    <3>5. ~Book!Entered(c)
      BY <3>4, NotEntered
    <3>6. QED
      BY <2>1, <2>2, <3>1, <3>2, <3>5 DEF CallEnters
  <2>3. ASSUME NEW x \in Clerk, ClerkEnters(x) PROVE Book!Next
    <3>1. /\ x \in Txn /\ inHand[x] \in Order \cup {None}
          /\ credit[x][1] \in Org /\ credit[x][2] \in Amount /\ credit[x][2] \in Int
      BY <2>3, CreditTypes DEF ClerkEnters, Post, Txn, TypeOK, ClerkTypes
    <3>2. ASSUME inHand[x] # None PROVE ~Book!Entered(inHand[x])
      <4>1. order[inHand[x]] # "Paid"
        BY <2>3, <3>2 DEF ClerkEnters, Post, OrderLocks
      <4>2. /\ Rows(OrderOrg[inHand[x]], inHand[x]) = {}
            /\ EnteredOnce(inHand[x], OrderOrg[inHand[x]], orderAmount[inHand[x]])
        BY <3>1, <3>2, <4>1 DEF PaidIffCredited
      <4>3. QED
        BY <4>2, NotEntered
    <3>3. QED
      BY <2>1, <2>3, <3>1, <3>2 DEF ClerkEnters
  <2>4. QED
    BY <2>2, <2>3, Entering
<1>3. Spec => [](OrderLocks /\ LoggedCalls)
  <2>1. Init => IdleHands /\ OrderLocks /\ LoggedCalls
    BY SettlementAssumption DEF Init, IdleHands, OrderLocks, LoggedCalls, Txn
  <2>2. TypeOK /\ IdleHands /\ OrderLocks /\ LoggedCalls /\ [Next]_vars
          => (IdleHands /\ OrderLocks /\ LoggedCalls)'
    BY IdleHandsNext, OrderLocksNext, LoggedCallsNext
  <2>3. QED
    BY <2>1, <2>2, TypeCorrect, PTL DEF Spec
<1>4. QED
  BY <1>1, <1>2, <1>3, TypeCorrect, LocksHeld, AlwaysPaidIffCredited, AlwaysLogIffDebited, PTL
     DEF Spec, LedgerSpec, Book!Spec, Book!ledgerVars

----------------------------------------------------------------------------
(* The overdraft                                                           *)

\* The largest charge there is.
Most == CHOOSE m \in Charge : \A n \in Charge : n <= m

LEMMA MostTypes == Most \in Nat \ {0} /\ \A n \in Charge : n <= Most
<1>1. PICK most \in Charge \ {0} : \A n \in Charge : n <= most
  BY SettlementAssumption
<1>2. Most \in Charge /\ \A n \in Charge : n <= Most
  BY <1>1, Zenon DEF Most
<1>3. Charge \subseteq Nat
  BY SettlementAssumption
<1>4. most \in Nat \ {0} /\ Most \in Nat /\ most <= Most
  BY <1>1, <1>2, <1>3
<1>5. QED
  BY <1>2, <1>4

\* The calls between admission and settlement; those of an organisation that
\* have been let past its wallet, and those of a key, that are still to be logged.
Flying == {c \in Call : pc[c] \in InFlight}
Served(o) ==
  {c \in {c \in Call : CallOrg(c) = o /\ pc[c] # "funds"} \ logged : pc[c] \in InFlight}
Admitted(k) == {c \in {c \in Call : CallKey[c] = k} \ logged : pc[c] \in InFlight}

\* What the calls not in flight may have spent beyond what there is.
Overdraft(C) == Most * (MaxInFlight - Cardinality(C))

WalletsBounded == \A o \in Org : balance[o] + Credit >= 1 - Overdraft(Served(o))
KeysBounded ==
  edits = 0 => \A k \in Key :
    limit[k] # 0 => used[k] <= limit[k] - 1 + Overdraft(Admitted(k))

\* The bound of OverdraftBounded, by its two halves.
LEMMA TwoBounds == OverdraftBounded <=> WalletsBounded /\ KeysBounded
  BY DEF OverdraftBounded, WalletsBounded, KeysBounded, Overdraft, Served, Admitted, Most

FewFlying == IsFiniteSet(Flying) /\ Cardinality(Flying) <= MaxInFlight

\* A slack of a for what was owed covers what is owed after a step that spends
\* nothing and owes no more, one that looked before it owed, and one that spends
\* at most m and owes one less.
LEMMA SlackKeeps ==
  ASSUME NEW m \in Nat, NEW M \in Nat, NEW a \in Nat, NEW b \in Nat, NEW x \in Int, NEW y \in Int,
         a <= M, b <= M, x >= 1 - m * (M - a),
         y >= 1 \/ (y >= x /\ b <= a) \/ (y >= x - m /\ b + 1 <= a)
  PROVE  y >= 1 - m * (M - b)
<1>1. CASE y >= 1
  <2>1. m * (M - b) >= 0
    OBVIOUS
  <2>2. QED
    BY <1>1, <2>1
<1>2. CASE y >= x /\ b <= a
  <2>1. m * (M - b) = m * (M - a) + m * (a - b) /\ m * (a - b) >= 0
    BY <1>2
  <2>2. m * (M - b) \in Int /\ m * (M - a) \in Int
    OBVIOUS
  <2>3. QED
    BY <1>2, <2>1, <2>2
<1>3. CASE y >= x - m /\ b + 1 <= a
  <2>1. m * (M - b) = m * (M - a) + m + m * (a - b - 1) /\ m * (a - b - 1) >= 0
    BY <1>3
  <2>2. m * (M - b) \in Int /\ m * (M - a) \in Int
    OBVIOUS
  <2>3. QED
    BY <1>3, <2>1, <2>2
<1>4. QED
  BY <1>1, <1>2, <1>3

\* A call is in flight from its admission until its settlement or its end, and
\* only an admission, of which there is a bounded number, adds one.
LEMMA FewFlyingNext ==
  ASSUME TypeOK, FewFlying, [Next]_vars
  PROVE  FewFlying'
<1> TxnTypes
  BY DEF TypeOK
<1> MaxInFlight \in Nat
  BY SettlementAssumption
<1>1. Flying' \subseteq Flying \/
      \E c \in Call : Flying' \subseteq Flying \cup {c} /\ Cardinality(Flying) < MaxInFlight
  <2> USE DEF Flying, InFlight, InTxn
  <2>1. ASSUME NEW c \in Call, CallStep(c)
        PROVE  \/ Flying' \subseteq Flying
               \/ Flying' \subseteq Flying \cup {c} /\ Cardinality(Flying) < MaxInFlight
    <3>1. \A d \in Call \ {c} : pc'[d] = pc[d]
      BY <2>1, CallOthers DEF Others, Txn
    <3>2. CASE VerifyKey(c)
      BY <3>1, <3>2 DEF VerifyKey
    <3>3. CASE ~VerifyKey(c)
      <4>1. pc[c] \in InFlight
        BY <2>1, <3>3 DEF CallStep, EnsureFunds, Serve, Begin, Debit, SpendBudget, Commit, RollBack
      <4>2. QED
        BY <3>1, <4>1
    <3>4. QED
      BY <3>2, <3>3
  <2>2. ASSUME NEW x \in Clerk, ClerkStart(x) \/ ClerkStep(x) PROVE Flying' \subseteq Flying
    BY <2>2, ClerkOthers, SettlementAssumption DEF Others, Txn
  <2>3. CASE (\E p \in Order : CreateOrder(p)) \/ (\E k \in Key : KeyStep(k))
    BY <2>3, OthersQuiet
  <2>4. CASE UNCHANGED vars
    BY <2>4 DEF vars
  <2>5. QED
    BY <2>1, <2>2, <2>3, <2>4 DEF Next
<1>2. ASSUME Flying' \subseteq Flying PROVE FewFlying'
  <2>1. IsFiniteSet(Flying') /\ Cardinality(Flying') <= Cardinality(Flying)
    BY <1>2, FS_Subset DEF FewFlying
  <2>2. Cardinality(Flying) \in Nat /\ Cardinality(Flying') \in Nat
    BY <2>1, FS_CardinalityType DEF FewFlying
  <2>3. QED
    BY <2>1, <2>2 DEF FewFlying
<1>3. ASSUME NEW c \in Call, Flying' \subseteq Flying \cup {c}, Cardinality(Flying) < MaxInFlight
      PROVE  FewFlying'
  <2>1. /\ IsFiniteSet(Flying \cup {c}) /\ Cardinality(Flying) \in Nat
        /\ Cardinality(Flying \cup {c}) \in {Cardinality(Flying), Cardinality(Flying) + 1}
    BY FS_AddElement, FS_CardinalityType DEF FewFlying
  <2>2. /\ IsFiniteSet(Flying') /\ Cardinality(Flying') <= Cardinality(Flying \cup {c})
        /\ Cardinality(Flying') \in Nat
    BY <1>3, <2>1, FS_Subset, FS_CardinalityType
  <2>3. QED
    BY <1>3, <2>1, <2>2 DEF FewFlying
<1>4. QED
  BY <1>1, <1>2, <1>3

\* How many of the calls in flight there are in a part of them.
LEMMA PartOfFlying ==
  ASSUME FewFlying, NEW C, C \subseteq Flying
  PROVE  IsFiniteSet(C) /\ Cardinality(C) \in Nat /\ Cardinality(C) <= MaxInFlight
<1>1. IsFiniteSet(C) /\ Cardinality(C) <= Cardinality(Flying)
  BY FS_Subset DEF FewFlying
<1>2. Cardinality(C) \in Nat /\ Cardinality(Flying) \in Nat
  BY <1>1, FS_CardinalityType DEF FewFlying
<1>3. QED
  BY <1>1, <1>2, SettlementAssumption DEF FewFlying

\* A part that only loses calls, and one that loses c, counts no more, and one less.
LEMMA PartShrinks ==
  ASSUME NEW C, NEW D, IsFiniteSet(C), D \subseteq C
  PROVE  /\ Cardinality(D) <= Cardinality(C)
         /\ \A c \in C : c \notin D => Cardinality(D) + 1 <= Cardinality(C)
<1>1. IsFiniteSet(D) /\ Cardinality(D) <= Cardinality(C)
  BY FS_Subset
<1>2. ASSUME NEW c \in C, c \notin D PROVE Cardinality(D) + 1 <= Cardinality(C)
  <2>1. IsFiniteSet(C \ {c}) /\ Cardinality(C \ {c}) = Cardinality(C) - 1
    BY FS_RemoveElement
  <2>2. Cardinality(D) <= Cardinality(C \ {c})
    BY <1>2, <2>1, FS_Subset
  <2>3. Cardinality(D) \in Nat /\ Cardinality(C) \in Nat
    BY <1>1, FS_CardinalityType
  <2>4. QED
    BY <2>1, <2>2, <2>3
<1>3. QED
  BY <1>1, <1>2

\* A step of c leaves the other calls of Served and Admitted where they are.
LEMMA CallParts ==
  ASSUME TypeOK, NEW c \in Call, CallStep(c)
  PROVE  /\ \A o \in Org : Served(o)' \subseteq Served(o) \cup {c}
         /\ \A k \in Key : Admitted(k)' \subseteq Admitted(k) \cup {c}
         /\ \A o \in Org : CallOrg(c) # o => c \notin Served(o)'
         /\ \A k \in Key : CallKey[c] # k => c \notin Admitted(k)'
<1>1. \A d \in Call \ {c} : pc'[d] = pc[d]
  BY CallOthers DEF Others, Txn
<1>2. logged \subseteq logged'
  BY DEF CallStep, VerifyKey, EnsureFunds, Serve, Begin, Debit, SpendBudget, Commit, RollBack, logVars
<1>3. QED
  BY <1>1, <1>2 DEF Served, Admitted, CallOrg

\* What a call's step does to its wallet's bound: it looks at the balance before
\* it is let past it, and the debit of a logged call takes it out of Served.
LEMMA CallServed ==
  ASSUME TypeOK, Locks, LoggedCalls, NEW c \in Call, CallStep(c), NEW o \in Org
  PROVE  \/ balance'[o] + Credit >= 1
         \/ balance'[o] >= balance[o] /\ Served(o)' \subseteq Served(o)
         \/ /\ balance'[o] >= balance[o] - Most /\ Served(o)' \subseteq Served(o)
            /\ c \in Served(o) /\ c \notin Served(o)'
<1> balance \in [Org -> Int] /\ TxnTypes /\ LogTypes
  BY DEF TypeOK, WalletTypes
<1> c \in Txn /\ CallOrg(c) \in Org
  BY ChargeTypes DEF Txn
<1> USE DEF TxnTypes, Goto
<1>1. CASE EnsureFunds(c)
  <2>1. balance' = balance
    BY <1>1 DEF EnsureFunds, walletVars
  <2>2. CASE Funded(CallOrg(c)) /\ CallOrg(c) = o
    <3>1. balance[o] \in Int /\ Credit \in Nat
      BY SettlementAssumption
    <3>2. QED
      BY <2>1, <2>2, <3>1
  <2>3. CASE ~(Funded(CallOrg(c)) /\ CallOrg(c) = o)
    <3>1. c \notin Served(o)'
      <4>1. CASE CallOrg(c) # o
        BY <1>1, <4>1, CallParts DEF CallStep
      <4>2. CASE ~Funded(CallOrg(c))
        <5>1. pc'[c] = "refused"
          BY <1>1, <4>2 DEF EnsureFunds
        <5>2. QED
          BY <5>1 DEF Served, InFlight, InTxn
      <4>3. QED
        BY <2>3, <4>1, <4>2
    <3>2. Served(o)' \subseteq Served(o)
      BY <1>1, <3>1, CallParts DEF CallStep
    <3>3. balance[o] \in Int
      OBVIOUS
    <3>4. QED
      BY <2>1, <3>2, <3>3
  <2>4. QED
    BY <2>2, <2>3
<1>2. CASE Commit(c) /\ CallOrg(c) = o
  <2>1. c \notin logged /\ c \in Served(o)
    BY <1>2 DEF Commit, LoggedCalls, Served, InFlight, InTxn
  <2>2. c \notin Served(o)'
    BY <1>2 DEF Commit, Served
  <2>3. Served(o)' \subseteq Served(o)
    BY <1>2, <2>2, CallParts DEF CallStep
  <2>4. balance'[o] >= balance[o] - Most
    <3>1. charge[c] \in Nat /\ charge[c] <= Most /\ balance[o] \in Int /\ Most \in Nat
      <4>1. charge[c] \in Charge \cup {0}
        BY DEF LogTypes
      <4>2. QED
        BY <4>1, MostTypes, ChargeTypes
    <3>2. CASE charge[c] > 0
      <4>1. after[c] = balance[o] - charge[c]
        BY <1>2, <3>2 DEF Locks, CallLocks, Commit
      <4>2. balance'[o] = after[c]
        BY <1>2, <3>2 DEF Commit, Enter
      <4>3. QED
        BY <3>1, <4>1, <4>2
    <3>3. CASE ~(charge[c] > 0)
      <4>1. balance'[o] = balance[o]
        BY <1>2, <3>3 DEF Commit, walletVars
      <4>2. QED
        BY <3>1, <4>1
    <3>4. QED
      BY <3>2, <3>3
  <2>5. QED
    BY <2>1, <2>2, <2>3, <2>4
<1>3. CASE ~EnsureFunds(c) /\ ~(Commit(c) /\ CallOrg(c) = o)
  <2>1. balance'[o] = balance[o] /\ balance[o] \in Int
    BY <1>3 DEF CallStep, VerifyKey, Serve, Begin, Debit, SpendBudget, Commit, Enter, RollBack,
           walletVars
  <2>2. Served(o)' \subseteq Served(o)
    <3>1. CASE Commit(c)
      BY <1>3, <3>1, CallParts DEF CallStep
    <3>2. CASE VerifyKey(c)
      <4>1. c \notin Served(o)'
        BY <3>2 DEF VerifyKey, Served, InFlight, InTxn
      <4>2. QED
        BY <3>2, <4>1, CallParts DEF CallStep
    <3>3. CASE Serve(c) \/ Begin(c) \/ Debit(c) \/ SpendBudget(c) \/ RollBack(c)
      <4>1. pc[c] \in InFlight /\ pc[c] # "funds" /\ logged' = logged
        BY <3>3 DEF Serve, Begin, Debit, SpendBudget, RollBack, InFlight, InTxn, logVars
      <4>2. c \in Served(o)' => c \in Served(o)
        BY <4>1 DEF Served, CallOrg
      <4>3. QED
        BY <3>3, <4>2, CallParts DEF CallStep
    <3>4. QED
      BY <1>3, <3>1, <3>2, <3>3 DEF CallStep
  <2>3. QED
    BY <2>1, <2>2
<1>4. QED
  BY <1>1, <1>2, <1>3

\* A clerk only adds to wallets, and moves no call.
LEMMA ClerkServed ==
  ASSUME TypeOK, Locks, NEW x \in Clerk, ClerkStart(x) \/ ClerkStep(x), NEW o \in Org
  PROVE  balance'[o] >= balance[o] /\ Served(o)' \subseteq Served(o)
<1>1. Served(o)' \subseteq Served(o)
  BY ClerkOthers, SettlementAssumption DEF Others, Txn, logVars, Served, CallOrg
<1>2. balance[o] \in Int
  BY DEF TypeOK, WalletTypes
<1>3. CASE Post(x) /\ credit[x][1] = o
  <2>1. credit[x][2] \in Nat
    BY <1>3, CreditTypes DEF Post
  <2>2. after[x] = balance[o] + credit[x][2]
    BY <1>3 DEF Locks, ClerkLocks, Post
  <2>3. balance'[o] = after[x]
    BY <1>3 DEF Post, Enter, TypeOK, WalletTypes
  <2>4. QED
    BY <1>1, <1>2, <2>1, <2>2, <2>3
<1>4. CASE ~(Post(x) /\ credit[x][1] = o)
  <2>1. balance'[o] = balance[o]
    BY <1>4 DEF ClerkStart, ReadOrder, InsertPaid, Recharge, ClerkStep, Claim, CreditWallet, Post,
           Enter, Abandon, walletVars, TypeOK, WalletTypes
  <2>2. QED
    BY <1>1, <1>2, <2>1
<1>5. QED
  BY <1>3, <1>4

LEMMA WalletsBoundedNext ==
  ASSUME TypeOK, Locks, LoggedCalls, FewFlying, FewFlying', WalletsBounded, [Next]_vars
  PROVE  WalletsBounded'
<1> SUFFICES ASSUME NEW o \in Org PROVE balance'[o] + Credit >= 1 - Overdraft(Served(o)')
  BY DEF WalletsBounded, Overdraft
<1> DEFINE a == Cardinality(Served(o))
           b == Cardinality(Served(o)')
<1>1. IsFiniteSet(Served(o)) /\ a \in Nat /\ a <= MaxInFlight
  BY PartOfFlying DEF Served, Flying
<1>2. b \in Nat /\ b <= MaxInFlight
  <2>1. Served(o)' \subseteq Flying'
    BY DEF Served, Flying
  <2>2. IsFiniteSet(Served(o)') /\ Cardinality(Served(o)') <= Cardinality(Flying')
    BY <2>1, FS_Subset DEF FewFlying
  <2>3. Cardinality(Served(o)') \in Nat /\ Cardinality(Flying') \in Nat
    BY <2>2, FS_CardinalityType DEF FewFlying
  <2>4. QED
    BY <2>2, <2>3, SettlementAssumption DEF FewFlying
<1>3. /\ Most \in Nat /\ MaxInFlight \in Nat /\ Credit \in Nat
      /\ balance[o] \in Int /\ balance'[o] \in Int
  BY MostTypes, SettlementAssumption, WalletTypesNext DEF TypeOK, WalletTypes
<1>4. balance[o] + Credit >= 1 - Most * (MaxInFlight - a)
  BY DEF WalletsBounded, Overdraft
<1>5. \/ balance'[o] + Credit >= 1
      \/ balance'[o] >= balance[o] /\ b <= a
      \/ balance'[o] >= balance[o] - Most /\ b + 1 <= a
  <2>1. CASE balance'[o] >= balance[o] /\ Served(o)' \subseteq Served(o)
    BY <1>1, <2>1, PartShrinks
  <2>2. ASSUME NEW c \in Call, CallStep(c)
        PROVE  \/ balance'[o] + Credit >= 1
               \/ balance'[o] >= balance[o] /\ b <= a
               \/ balance'[o] >= balance[o] - Most /\ b + 1 <= a
    <3>1. ASSUME Served(o)' \subseteq Served(o), c \in Served(o), c \notin Served(o)'
          PROVE  b + 1 <= a
      BY <1>1, <3>1, PartShrinks
    <3>2. QED
      BY <2>1, <2>2, <3>1, CallServed
  <2>3. ASSUME NEW x \in Clerk, ClerkStart(x) \/ ClerkStep(x)
        PROVE  balance'[o] >= balance[o] /\ b <= a
    BY <1>1, <2>3, ClerkServed, PartShrinks
  <2>4. CASE UNCHANGED <<walletVars, logVars, pc>>
    <3>1. balance'[o] = balance[o] /\ Served(o)' \subseteq Served(o)
      BY <2>4 DEF Served, CallOrg, walletVars, logVars
    <3>2. QED
      BY <1>3, <2>1, <3>1
  <2>5. QED
    BY <2>2, <2>3, <2>4, OthersQuiet DEF Next, vars
<1>6. balance'[o] + Credit >= 1 - Most * (MaxInFlight - b)
  <2> HIDE DEF a, b
  <2> DEFINE x == balance[o] + Credit
             y == balance'[o] + Credit
  <2>1. x \in Int /\ y \in Int
    BY <1>3
  <2>2. y >= 1 \/ (y >= x /\ b <= a) \/ (y >= x - Most /\ b + 1 <= a)
    BY <1>3, <1>5
  <2>3. x >= 1 - Most * (MaxInFlight - a)
    BY <1>4
  <2> HIDE DEF x, y
  <2>4. y >= 1 - Most * (MaxInFlight - b)
    BY <1>1, <1>2, <1>3, <2>1, <2>2, <2>3, SlackKeeps
  <2>5. QED
    BY <2>4 DEF y
<1>7. QED
  BY <1>6 DEF Overdraft

\* What a call's step does to its key's bound: the check of the budget comes
\* before its admission, and the charge of a logged call takes it out of Admitted.
LEMMA CallAdmitted ==
  ASSUME TypeOK, Locks, LoggedCalls, NEW c \in Call, CallStep(c), NEW k \in Key, limit[k] # 0
  PROVE  \/ limit[k] - used'[k] >= 1
         \/ used'[k] = used[k] /\ Admitted(k)' \subseteq Admitted(k)
         \/ /\ used'[k] <= used[k] + Most /\ Admitted(k)' \subseteq Admitted(k)
            /\ c \in Admitted(k) /\ c \notin Admitted(k)'
<1> used \in [Key -> Nat] /\ limit \in [Key -> Nat] /\ TxnTypes /\ LogTypes
  BY DEF TypeOK, KeyTypes
<1> c \in Txn /\ CallKey[c] \in Key
  BY ChargeTypes DEF Txn
<1> USE DEF TxnTypes, Goto
<1>1. CASE VerifyKey(c)
  <2>1. used' = used
    BY <1>1 DEF VerifyKey, keyVars
  <2>2. CASE UnderBudget(k) /\ CallKey[c] = k
    <3>1. used[k] \in Nat /\ limit[k] \in Nat /\ used[k] < limit[k]
      BY <2>2 DEF UnderBudget
    <3>2. QED
      BY <2>1, <3>1
  <2>3. CASE ~(UnderBudget(k) /\ CallKey[c] = k)
    <3>1. c \notin Admitted(k)'
      <4>1. CASE CallKey[c] # k
        BY <1>1, <4>1, CallParts DEF CallStep
      <4>2. CASE ~UnderBudget(k) /\ CallKey[c] = k
        <5>1. pc'[c] = "refused"
          BY <1>1, <4>2 DEF VerifyKey
        <5>2. QED
          BY <5>1 DEF Admitted, InFlight, InTxn
      <4>3. QED
        BY <2>3, <4>1, <4>2
    <3>2. QED
      BY <1>1, <2>1, <3>1, CallParts DEF CallStep
  <2>4. QED
    BY <2>2, <2>3
<1>2. CASE Commit(c) /\ CallKey[c] = k
  <2>1. c \notin logged /\ c \in Admitted(k)
    BY <1>2 DEF Commit, LoggedCalls, Admitted, InFlight, InTxn
  <2>2. c \notin Admitted(k)'
    BY <1>2 DEF Commit, Admitted
  <2>3. Admitted(k)' \subseteq Admitted(k)
    BY <1>2, <2>2, CallParts DEF CallStep
  <2>4. used'[k] <= used[k] + Most
    <3>1. charge[c] \in Nat /\ charge[c] <= Most /\ used[k] \in Nat /\ Most \in Nat
      <4>1. charge[c] \in Charge \cup {0}
        BY DEF LogTypes
      <4>2. QED
        BY <4>1, MostTypes, ChargeTypes
    <3>2. CASE holder[k] = c
      <4>1. usedAfter[c] = used[k] + charge[c]
        BY <3>2 DEF Locks, KeyLocks
      <4>2. used'[k] = usedAfter[c]
        BY <1>2, <3>2 DEF Commit
      <4>3. QED
        BY <3>1, <4>1, <4>2
    <3>3. CASE holder[k] # c
      <4>1. used'[k] = used[k]
        BY <1>2, <3>3 DEF Commit
      <4>2. QED
        BY <3>1, <4>1
    <3>4. QED
      BY <3>2, <3>3
  <2>5. QED
    BY <2>1, <2>2, <2>3, <2>4
<1>3. CASE ~VerifyKey(c) /\ ~(Commit(c) /\ CallKey[c] = k)
  <2>1. used'[k] = used[k]
    BY <1>3 DEF CallStep, EnsureFunds, Serve, Begin, Debit, SpendBudget, Commit, RollBack, keyVars
  <2>2. Admitted(k)' \subseteq Admitted(k)
    <3>1. CASE Commit(c)
      BY <1>3, <3>1, CallParts DEF CallStep
    <3>2. CASE EnsureFunds(c) \/ Serve(c) \/ Begin(c) \/ Debit(c) \/ SpendBudget(c) \/ RollBack(c)
      <4>1. pc[c] \in InFlight /\ logged' = logged
        BY <3>2 DEF EnsureFunds, Serve, Begin, Debit, SpendBudget, RollBack, InFlight, InTxn, logVars
      <4>2. c \in Admitted(k)' => c \in Admitted(k)
        BY <4>1 DEF Admitted
      <4>3. QED
        BY <3>2, <4>2, CallParts DEF CallStep
    <3>3. QED
      BY <1>3, <3>1, <3>2 DEF CallStep
  <2>3. QED
    BY <2>1, <2>2
<1>4. QED
  BY <1>1, <1>2, <1>3

LEMMA KeysBoundedNext ==
  ASSUME TypeOK, Locks, LoggedCalls, FewFlying, FewFlying', KeysBounded, [Next]_vars
  PROVE  KeysBounded'
<1> SUFFICES ASSUME edits' = 0, NEW k \in Key, limit'[k] # 0
             PROVE  used'[k] <= limit'[k] - 1 + Overdraft(Admitted(k)')
  BY DEF KeysBounded, Overdraft
<1> DEFINE a == Cardinality(Admitted(k))
           b == Cardinality(Admitted(k)')
<1>1. IsFiniteSet(Admitted(k)) /\ a \in Nat /\ a <= MaxInFlight
  BY PartOfFlying DEF Admitted, Flying
<1>2. b \in Nat /\ b <= MaxInFlight
  <2>1. Admitted(k)' \subseteq Flying'
    BY DEF Admitted, Flying
  <2>2. IsFiniteSet(Admitted(k)') /\ Cardinality(Admitted(k)') <= Cardinality(Flying')
    BY <2>1, FS_Subset DEF FewFlying
  <2>3. Cardinality(Admitted(k)') \in Nat /\ Cardinality(Flying') \in Nat
    BY <2>2, FS_CardinalityType DEF FewFlying
  <2>4. QED
    BY <2>2, <2>3, SettlementAssumption DEF FewFlying
<1>3. /\ Most \in Nat /\ MaxInFlight \in Nat
      /\ used[k] \in Nat /\ used'[k] \in Nat /\ limit[k] \in Nat
  BY MostTypes, SettlementAssumption, KeyTypesNext DEF TypeOK, KeyTypes
<1>4. ~\E j \in Key : KeyStep(j)
  <2>1. ASSUME NEW j \in Key, KeyStep(j) PROVE FALSE
    <3>1. edits' = edits + 1 /\ edits \in Nat
      BY <2>1 DEF KeyStep, UpdateKey, DeleteKey, Edit, TypeOK
    <3>2. QED
      BY <3>1
  <2>2. QED
    BY <2>1
<1>5. edits = 0 /\ limit' = limit
  <2>1. UNCHANGED <<edits, limit>>
    BY <1>4 DEF Next, vars, keyVars, CallStep, VerifyKey, EnsureFunds, Serve, Begin, Debit,
           SpendBudget, Commit, RollBack, ClerkStart, ReadOrder, InsertPaid, Recharge, ClerkStep,
           Claim, CreditWallet, Post, Abandon, CreateOrder
  <2>2. QED
    BY <2>1
<1>6. used[k] <= limit[k] - 1 + Most * (MaxInFlight - a)
  BY <1>5 DEF KeysBounded, Overdraft
<1>7. \/ limit[k] - used'[k] >= 1
      \/ used'[k] = used[k] /\ b <= a
      \/ used'[k] <= used[k] + Most /\ b + 1 <= a
  <2>1. CASE used'[k] = used[k] /\ Admitted(k)' \subseteq Admitted(k)
    BY <1>1, <2>1, PartShrinks
  <2>2. ASSUME NEW c \in Call, CallStep(c)
        PROVE  \/ limit[k] - used'[k] >= 1
               \/ used'[k] = used[k] /\ b <= a
               \/ used'[k] <= used[k] + Most /\ b + 1 <= a
    <3>1. ASSUME Admitted(k)' \subseteq Admitted(k), c \in Admitted(k), c \notin Admitted(k)'
          PROVE  b + 1 <= a
      BY <1>1, <3>1, PartShrinks
    <3>2. limit[k] # 0
      BY <1>5
    <3>3. QED
      BY <2>1, <2>2, <3>1, <3>2, CallAdmitted
  <2>3. ASSUME NEW x \in Clerk, ClerkStart(x) \/ ClerkStep(x)
        PROVE  used' = used /\ Admitted(k)' \subseteq Admitted(k)
    BY <2>3, ClerkOthers, SettlementAssumption DEF Others, Txn, logVars, keyVars, Admitted
  <2>4. CASE UNCHANGED <<used, logVars, pc>>
    <3>1. used' = used /\ Admitted(k)' \subseteq Admitted(k)
      BY <2>4 DEF Admitted, logVars
    <3>2. QED
      BY <2>1, <3>1
  <2>5. QED
    BY <2>1, <2>2, <2>3, <2>4, OthersQuiet DEF Next, vars, keyVars
<1>8. limit[k] - used'[k] >= 1 - Most * (MaxInFlight - b)
  <2> HIDE DEF a, b
  <2> DEFINE x == limit[k] - used[k]
             y == limit[k] - used'[k]
             owed == Most * (MaxInFlight - a)
  <2>1. x \in Int /\ y \in Int /\ owed \in Int
    BY <1>1, <1>3
  <2>2. y >= 1 \/ (y >= x /\ b <= a) \/ (y >= x - Most /\ b + 1 <= a)
    BY <1>3, <1>7
  <2>3. x >= 1 - owed
    <3>1. used[k] <= limit[k] - 1 + owed
      BY <1>6
    <3> HIDE DEF owed
    <3>2. QED
      BY <1>3, <2>1, <3>1
  <2> HIDE DEF x, y
  <2>4. y >= 1 - Most * (MaxInFlight - b)
    BY <1>1, <1>2, <1>3, <2>1, <2>2, <2>3, SlackKeeps
  <2>5. QED
    BY <2>4 DEF y
<1>9. QED
  <2> DEFINE owed == Most * (MaxInFlight - b)
  <2>1. owed \in Int /\ limit[k] - used'[k] >= 1 - owed
    BY <1>2, <1>3, <1>8
  <2>2. used'[k] <= limit'[k] - 1 + owed
    <3> HIDE DEF owed
    <3>1. QED
      BY <1>3, <1>5, <2>1
  <2>3. QED
    BY <2>2 DEF Overdraft

\* Charging after the work overdraws a wallet, or a key whose limit nobody edits,
\* by no more than what is in flight at one time: each call that is in flight
\* owes at most the largest charge, and was admitted while something was left.
THEOREM OverdraftAlwaysBounded == Spec => []OverdraftBounded
<1>1. Init => LoggedCalls /\ FewFlying /\ WalletsBounded /\ KeysBounded
  <2> SUFFICES ASSUME Init PROVE LoggedCalls /\ FewFlying /\ WalletsBounded /\ KeysBounded
    OBVIOUS
  <2>1. Flying = {} /\ \A o \in Org : Served(o) = {}
    BY DEF Init, Flying, Served, Txn, InFlight, InTxn
  <2>2. \A k \in Key : Admitted(k) = {}
    BY DEF Init, Admitted, Txn, InFlight, InTxn
  <2>3. MaxInFlight \in Nat \ {0} /\ Most \in Nat \ {0} /\ Credit \in Nat
    BY SettlementAssumption, MostTypes
  <2>4. Overdraft({}) \in Nat /\ Overdraft({}) >= 1
    BY <2>3, FS_EmptySet DEF Overdraft
  <2>5. LoggedCalls /\ FewFlying
    BY <2>1, <2>3, FS_EmptySet DEF Init, LoggedCalls, FewFlying
  <2>6. WalletsBounded
    <3> SUFFICES ASSUME NEW o \in Org PROVE balance[o] + Credit >= 1 - Overdraft(Served(o))
      BY DEF WalletsBounded
    <3>1. balance[o] = 0
      BY DEF Init
    <3>2. Overdraft(Served(o)) = Overdraft({})
      BY <2>1
    <3>3. QED
      BY <2>3, <2>4, <3>1, <3>2
  <2>7. KeysBounded
    <3> SUFFICES ASSUME NEW k \in Key, limit[k] # 0
                 PROVE  used[k] <= limit[k] - 1 + Overdraft(Admitted(k))
      BY DEF KeysBounded
    <3>1. used[k] = 0 /\ limit[k] \in Nat
      BY SettlementAssumption DEF Init
    <3>2. Overdraft(Admitted(k)) = Overdraft({})
      BY <2>2
    <3>3. QED
      BY <2>4, <3>1, <3>2
  <2>8. QED
    BY <2>5, <2>6, <2>7
<1>2. TypeOK /\ Locks /\ LoggedCalls /\ FewFlying /\ WalletsBounded /\ KeysBounded /\ [Next]_vars
        => (LoggedCalls /\ FewFlying /\ WalletsBounded /\ KeysBounded)'
  BY LoggedCallsNext, FewFlyingNext, WalletsBoundedNext, KeysBoundedNext
<1>3. WalletsBounded /\ KeysBounded => OverdraftBounded
  BY TwoBounds
<1>4. QED
  BY <1>1, <1>2, <1>3, TypeCorrect, LocksHeld, PTL DEF Spec

----------------------------------------------------------------------------
(* The budget                                                              *)

\* A call about to commit holds its key's row, unless the key was deleted.
KeyHeld == \A c \in Call : pc[c] = "commit" /\ CallKey[c] \in live => holder[CallKey[c]] = c

LEMMA KeyHeldNext ==
  ASSUME TypeOK, Locks, KeyHeld, [Next]_vars
  PROVE  KeyHeld'
<1> TxnTypes
  BY DEF TypeOK
<1>1. ASSUME NEW c \in Call, CallStep(c) PROVE KeyHeld'
  <2> SUFFICES ASSUME NEW d \in Call, pc'[d] = "commit", CallKey[d] \in live'
               PROVE  holder'[CallKey[d]] = d
    BY DEF KeyHeld
  <2>0. CallKey[d] \in live /\ CallKey[d] \in Row /\ d \in Txn /\ c \in Txn
    BY <1>1, CallOthers, ChargeTypes DEF Row, Txn
  <2>1. CASE d # c
    BY <1>1, <2>0, <2>1, CallOthers DEF Others, KeyHeld
  <2>2. CASE d = c
    <3>1. SpendBudget(c)
      <4>1. CASE VerifyKey(c) \/ EnsureFunds(c) \/ Serve(c) \/ Begin(c) \/ Debit(c) \/ RollBack(c)
        BY <2>0, <2>2, <4>1 DEF VerifyKey, EnsureFunds, Serve, Begin, Debit, RollBack, Goto, TxnTypes
      <4>2. CASE Commit(c)
        BY <2>0, <2>2, <4>2 DEF Commit, Goto, TxnTypes
      <4>3. QED
        BY <1>1, <4>1, <4>2 DEF CallStep
    <3>2. QED
      BY <2>0, <2>2, <3>1, LockTakes DEF SpendBudget
  <2>3. QED
    BY <2>1, <2>2
<1>2. ASSUME NEW x \in Clerk, ClerkStart(x) \/ ClerkStep(x) PROVE KeyHeld'
  <2>1. live' = live /\ \A c \in Call : c \in Txn \ {x} /\ CallKey[c] \in Row
    BY <1>2, ClerkOthers, ChargeTypes, SettlementAssumption DEF keyVars, Txn, Row
  <2>2. QED
    BY <1>2, <2>1, ClerkOthers DEF Others, KeyHeld
<1>3. CASE (\E p \in Order : CreateOrder(p)) \/ (\E k \in Key : KeyStep(k))
  <2>1. live' \subseteq live
    BY <1>3 DEF CreateOrder, KeyStep, UpdateKey, DeleteKey, keyVars
  <2>2. QED
    BY <1>3, <2>1, OthersQuiet DEF KeyHeld
<1>4. CASE UNCHANGED vars
  BY <1>4 DEF vars, keyVars, KeyHeld
<1>5. QED
  BY <1>1, <1>2, <1>3, <1>4 DEF Next

\* One more call adds its own units, and they are as many as its charge.
LEMMA UnitsAdded ==
  ASSUME TypeOK, NEW C, NEW c \in Call, c \notin C, IsFiniteSet(Units(C))
  PROVE  /\ IsFiniteSet(Units(C \cup {c}))
         /\ Cardinality(Units(C \cup {c})) = Cardinality(Units(C)) + charge[c]
<1> DEFINE own == {c} \X (1..charge[c])
<1>1. charge[c] \in Nat
  BY ChargeTypes
<1>2. IsFiniteSet(own) /\ Cardinality(own) = charge[c]
  <2>1. IsFiniteSet({c}) /\ Cardinality({c}) = 1
    BY FS_Singleton
  <2>2. IsFiniteSet(1..charge[c]) /\ Cardinality(1..charge[c]) = charge[c]
    BY <1>1, FS_Interval
  <2>3. IsFiniteSet(own) /\ Cardinality(own) = 1 * charge[c]
    <3> DEFINE S == {c}
               T == 1..charge[c]
    <3>1. IsFiniteSet(S) /\ Cardinality(S) = 1 /\ IsFiniteSet(T) /\ Cardinality(T) = charge[c]
      BY <2>1, <2>2
    <3> HIDE DEF S, T
    <3>2. IsFiniteSet(S \X T) /\ Cardinality(S \X T) = Cardinality(S) * Cardinality(T)
      BY <3>1, FS_Product, Zenon
    <3>3. QED
      BY <3>1, <3>2, Zenon DEF S, T
  <2>4. QED
    BY <1>1, <2>3
<1>3. Units(C \cup {c}) = Units(C) \cup own
  BY DEF Units
<1>4. Units(C) \cap own = {}
  <2>1. \A u \in Units(C) : u[1] # c
    BY DEF Units
  <2>2. \A u \in own : u[1] = c
    OBVIOUS
  <2>3. QED
    BY <2>1, <2>2
<1> HIDE DEF own
<1>5. /\ IsFiniteSet(Units(C) \cup own)
      /\ Cardinality(Units(C) \cup own) = Cardinality(Units(C)) + Cardinality(own) - 0
  BY <1>2, <1>4, FS_Union, FS_EmptySet
<1>6. Cardinality(Units(C)) \in Nat
  BY FS_CardinalityType
<1>7. Cardinality(Units(C)) + Cardinality(own) - 0 = Cardinality(Units(C)) + charge[c]
  BY <1>1, <1>2, <1>6
<1>8. QED
  BY <1>3, <1>5, <1>7, Zenon

\* The logged calls of a key.
OfKey(k) == {c \in logged : CallKey[c] = k}
FiniteLogs == \A k \in live : IsFiniteSet(Units(OfKey(k)))

\* Only a commit logs a call or counts a charge.
LEMMA LogsStay ==
  ASSUME TypeOK, LoggedCalls, [Next]_vars, \A c \in Call : ~Commit(c)
  PROVE  /\ used' = used /\ live' \subseteq live /\ logged' = logged
         /\ \A c \in logged : charge'[c] = charge[c]
<1> LogTypes
  BY DEF TypeOK
<1>1. ASSUME NEW c \in Call, CallStep(c)
      PROVE  /\ used' = used /\ live' \subseteq live /\ logged' = logged
             /\ \A d \in logged : charge'[d] = charge[d]
  <2>1. used' = used /\ live' = live /\ logged' = logged
    BY <1>1 DEF CallStep, VerifyKey, EnsureFunds, Serve, Begin, Debit, SpendBudget, RollBack,
           keyVars, logVars
  <2>2. \A d \in logged : d # c => charge'[d] = charge[d]
    BY <1>1, CallOthers DEF Others, LogTypes
  <2>3. c \in logged => charge'[c] = charge[c]
    BY <1>1 DEF CallStep, VerifyKey, EnsureFunds, Serve, Begin, Debit, SpendBudget, RollBack,
           logVars, LoggedCalls
  <2>4. QED
    BY <2>1, <2>2, <2>3
<1>2. ASSUME NEW x \in Clerk, ClerkStart(x) \/ ClerkStep(x) PROVE UNCHANGED <<logVars, keyVars>>
  BY <1>2, ClerkOthers
<1>3. CASE (\E p \in Order : CreateOrder(p)) \/ (\E k \in Key : KeyStep(k))
  <2>1. live' \subseteq live
    BY <1>3 DEF CreateOrder, KeyStep, UpdateKey, DeleteKey, keyVars
  <2>2. QED
    BY <1>3, <2>1, OthersQuiet DEF logVars
<1>4. QED
  BY <1>1, <1>2, <1>3 DEF Next, vars, keyVars, logVars

LEMMA BudgetNext ==
  ASSUME TypeOK, Locks, LoggedCalls, KeyHeld, FiniteLogs, BudgetIsSumOfLogs, [Next]_vars
  PROVE  (FiniteLogs /\ BudgetIsSumOfLogs)'
<1> SUFFICES ASSUME NEW k \in live'
             PROVE  IsFiniteSet(Units(OfKey(k))') /\ used'[k] = Cardinality(Units(OfKey(k))')
  BY DEF FiniteLogs, BudgetIsSumOfLogs, OfKey
<1>1. k \in live => IsFiniteSet(Units(OfKey(k))) /\ used[k] = Cardinality(Units(OfKey(k)))
  BY DEF FiniteLogs, BudgetIsSumOfLogs, OfKey
<1>2. CASE \A c \in Call : ~Commit(c)
  <2>1. k \in live /\ used' = used
    BY <1>2, LogsStay
  <2>2. OfKey(k)' = OfKey(k) /\ \A c \in OfKey(k) : charge'[c] = charge[c]
    BY <1>2, LogsStay DEF OfKey
  <2>3. Units(OfKey(k))' = Units(OfKey(k))
    BY <2>2 DEF Units
  <2>4. QED
    BY <1>1, <2>1, <2>3
<1>3. ASSUME NEW c \in Call, Commit(c)
      PROVE  IsFiniteSet(Units(OfKey(k))') /\ used'[k] = Cardinality(Units(OfKey(k))')
  <2>1. charge' = charge /\ live' = live /\ logged' = logged \cup {c} /\ c \notin logged
    BY <1>3 DEF Commit, LoggedCalls
  <2>2. used \in [Key -> Nat] /\ live \subseteq Key /\ CallKey[c] \in Key
    BY ChargeTypes DEF TypeOK, KeyTypes
  <2>3. CASE CallKey[c] = k
    <3>1. holder[k] = c
      BY <1>3, <2>1, <2>3 DEF Commit, KeyHeld
    <3>2. used'[k] = used[k] + charge[c]
      <4>1. usedAfter[c] = used[k] + charge[c]
        BY <2>2, <2>3, <3>1 DEF Locks, KeyLocks, Txn
      <4>2. used'[k] = usedAfter[c]
        BY <1>3, <2>2, <2>3, <3>1 DEF Commit
      <4>3. QED
        BY <4>1, <4>2
    <3>3. OfKey(k)' = OfKey(k) \cup {c} /\ c \notin OfKey(k)
      BY <2>1, <2>3 DEF OfKey
    <3>4. Units(OfKey(k))' = Units(OfKey(k) \cup {c})
      BY <2>1, <3>3 DEF Units
    <3>5. QED
      BY <1>1, <2>1, <3>2, <3>3, <3>4, UnitsAdded
  <2>4. CASE CallKey[c] # k
    <3>1. used'[k] = used[k]
      BY <1>3, <2>2, <2>4 DEF Commit
    <3>2. OfKey(k)' = OfKey(k)
      BY <2>1, <2>4 DEF OfKey
    <3>3. Units(OfKey(k))' = Units(OfKey(k))
      BY <2>1, <3>2 DEF Units
    <3>4. QED
      BY <1>1, <2>1, <3>1, <3>3
  <2>5. QED
    BY <2>3, <2>4
<1>4. QED
  BY <1>2, <1>3

\* The budget a key has used is the sum of its logged charges: each is added by
\* the commit that logs it, to the sum read under the row's lock.
THEOREM BudgetAlwaysSumOfLogs == Spec => []BudgetIsSumOfLogs
<1>1. Init => LoggedCalls /\ KeyHeld /\ FiniteLogs /\ BudgetIsSumOfLogs
  <2> SUFFICES ASSUME Init PROVE LoggedCalls /\ KeyHeld /\ FiniteLogs /\ BudgetIsSumOfLogs
    OBVIOUS
  <2>1. LoggedCalls /\ KeyHeld
    BY DEF Init, LoggedCalls, KeyHeld, Txn
  <2>2. \A k \in live : Units(OfKey(k)) = {} /\ used[k] = 0
    BY DEF Init, OfKey, Units
  <2>3. QED
    BY <2>1, <2>2, FS_EmptySet DEF FiniteLogs, BudgetIsSumOfLogs, OfKey
<1>2. TypeOK /\ Locks /\ LoggedCalls /\ KeyHeld /\ FiniteLogs /\ BudgetIsSumOfLogs /\ [Next]_vars
        => (LoggedCalls /\ KeyHeld /\ FiniteLogs /\ BudgetIsSumOfLogs)'
  BY LoggedCallsNext, KeyHeldNext, BudgetNext
<1>3. QED
  BY <1>1, <1>2, TypeCorrect, LocksHeld, PTL DEF Spec

============================================================================
