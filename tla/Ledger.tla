------------------------------- MODULE Ledger -------------------------------
(***************************************************************************)
(* What the wallet promises (crates/billing): an account is an append-only *)
(* list of entries; each entry carries the balance it leaves, and no       *)
(* source (an order, a usage log) is ever entered twice.                   *)
(***************************************************************************)
EXTENDS Integers, Sequences

CONSTANTS Account,   \* wallets.org_id
          Source,    \* what an entry can refer to: orders and usage logs
          Amount,    \* what can be entered, debits negative, never 0
          Manual     \* the reference of a manual recharge

VARIABLES balance,   \* wallets.balance
          entries    \* rows of transactions, per account in the order of their ids

ledgerVars == <<balance, entries>>

Entered(src) == \E a \in Account : \E i \in 1..Len(entries[a]) : entries[a][i].ref = src

Init == /\ balance = [a \in Account |-> 0]
        /\ entries = [a \in Account |-> <<>>]

Enter(a, amount, src) ==
  /\ src = Manual \/ ~Entered(src)
  /\ balance' = [balance EXCEPT ![a] = @ + amount]
  /\ entries' = [entries EXCEPT ![a] =
                   Append(@, [ref |-> src, amount |-> amount, after |-> balance[a] + amount])]

Next == \E a \in Account, amount \in Amount, src \in Source \cup {Manual} :
          Enter(a, amount, src)

Spec == Init /\ [][Next]_ledgerVars
============================================================================
