---------------------------- MODULE MCSettlement ----------------------------
(* Instances of Settlement for TLC: every call uses one key, and every key   *)
(* and order belongs to one organisation.                                    *)
EXTENDS Settlement, TLC

CONSTANTS o1, k1

OneKeyOrg == [k \in Key |-> o1]
OneCallKey == [c \in Call |-> k1]
OneOrderOrg == [p \in Order |-> o1]

Symmetry == Permutations(Clerk) \cup Permutations(Order) \cup Permutations(Call \ TaskCall)
============================================================================
