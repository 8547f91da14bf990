------------------------------ MODULE MCWallet ------------------------------
(***************************************************************************)
(* Small instances of WalletTransfer and its totals.                       *)
(***************************************************************************)
EXTENDS WalletTotals, TLC

CONSTANTS u1, u2, u3

(* 3 + 1 + 0 points: a sender who can pay, one who can pay little, one     *)
(* who cannot.                                                             *)
MCOpening == (u1 :> 3) @@ (u2 :> 1) @@ [u \in Users \ {u1, u2} |-> 0]

(* Everything from a negative amount to more than anybody can own.         *)
MCAmounts == -1 .. 5
=============================================================================
