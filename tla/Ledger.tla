------------------------------- MODULE Ledger -------------------------------
(***************************************************************************)
(* What a wallet service promises: every balance is one number, and a      *)
(* transfer moves points from one user to another in a single step.        *)
(* transferPoint (DbUtils.cpp) has to implement this with two separate     *)
(* rewrites of users.parquet.                                              *)
(***************************************************************************)
EXTENDS Integers

CONSTANTS Users,    \* the rows of users.parquet
          Opening   \* the balances the service starts with

VARIABLE balance

Init == balance = Opening

Transfer(s, r, n) ==
    /\ s # r
    /\ n \in 1 .. balance[s]
    /\ balance' = [balance EXCEPT ![s] = @ - n, ![r] = @ + n]

(* A sender's process may die between the two updates of a transfer: the   *)
(* points it had taken are gone, and nobody else is affected.              *)
Forfeit(s, n) ==
    /\ n \in 1 .. balance[s]
    /\ balance' = [balance EXCEPT ![s] = @ - n]

(* A process may die inside an update: the file it had truncated is empty, *)
(* and every balance is gone for good.                                     *)
LoseAll == balance' = [u \in Users |-> 0]

TransferNext == \E s, r \in Users : \E n \in 1 .. balance[s] : Transfer(s, r, n)

ForfeitNext == \E s \in Users : \E n \in 1 .. balance[s] : Forfeit(s, n)

Spec == Init /\ [][TransferNext]_balance

LossySpec == Init /\ [][TransferNext \/ ForfeitNext \/ LoseAll]_balance
=============================================================================
