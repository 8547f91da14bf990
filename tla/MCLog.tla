------------------------------- MODULE MCLog -------------------------------
(***************************************************************************)
(* A small instance of TransactionLog.                                     *)
(***************************************************************************)
EXTENDS TransactionLog

CONSTANTS u1, u2, admin

MCFirstName == [p \in {u1, u2, admin} |-> IF p = u1 THEN "An" ELSE "Binh"]

At(year, month, day, sec) == [date |-> <<year, month, day>>, sec |-> sec]

(* The last second before a leap day, and the first of that day.           *)
MCInstants == << At(2024, 2, 28, 86399), At(2024, 2, 29, 0) >>

(* A file that is one line over the limit.                                 *)
MCOld ==
    << [kind |-> "transfer", from |-> u1, to |-> u2, at |-> MCInstants[1],
        fromName |-> "An", toName |-> "Binh", cut |-> "none"],
       [kind |-> "edit", from |-> admin, to |-> u1, at |-> MCInstants[1],
        fromName |-> "Binh", toName |-> "An", cut |-> "none"] >>

(* Dates as they are typed; the last one never was.                        *)
MCTyped == {<<28, 2, 2024>>, <<29, 2, 2024>>, <<29, 2, 2023>>}
=============================================================================
