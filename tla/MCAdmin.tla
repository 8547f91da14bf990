------------------------------ MODULE MCAdmin ------------------------------
(***************************************************************************)
(* Small instances of AdminPoints.                                         *)
(***************************************************************************)
EXTENDS AdminPoints, TLC

CONSTANTS u1, u2

(* u2 has no row yet. The wallet is balanced at the start.                 *)
MCOpening == u1 :> 1

(* A correction in each direction; twice the larger one leaves int.        *)
MCEdits == {-2, 2}
=============================================================================
