---------------------------- MODULE WalletTotals ----------------------------
(***************************************************************************)
(* What adds up in the Points column of users.parquet while the transfers  *)
(* of WalletTransfer run: the sum of the column, the points a transfer has *)
(* taken and not yet given, and the points a crash took with it. A column  *)
(* that cannot be read (torn) adds up to nothing.                          *)
(***************************************************************************)
EXTENDS WalletTransfer, FiniteSetsExt

(* A file has finitely many rows, and finitely many instances run.         *)
ASSUME FiniteAssumption == IsFiniteSet(Users) /\ IsFiniteSet(Clients)

SumOver(f, S) == MapThenSumSet(LAMBDA x : f[x], S)

Total(f) == SumOver(f, Users)

InFlightTotal == SumOver([c \in Clients |-> InFlight(c)], Clients)

(* As long as users.parquet can be read, points are neither made nor       *)
(* destroyed: the column, the transfers being executed and what crashes    *)
(* between two updates took add up to the opening total. Of a crash inside *)
(* an update it says nothing: that one leaves no column to add up.         *)
PointsConserved ==
    ~torn => Total(db) + InFlightTotal + lost = Total(Opening)

(* Whatever update fails and however often, one instance never makes       *)
(* points.                                                                 *)
NoPointsCreated == Total(db) <= Total(Opening)
=============================================================================
