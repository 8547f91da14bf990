----------------------------- MODULE MCAccounts -----------------------------
(***************************************************************************)
(* Small instances of Accounts.                                            *)
(***************************************************************************)
EXTENDS Accounts

CONSTANTS u1, u2, u3

(* u1 has a status row, u2 has an account without one (most users of the   *)
(* data that ships with the program), u3 has no account.                   *)
OneRow == <<[user |-> u1, gen |-> FALSE, failed |-> FALSE, deleted |-> FALSE]>>
=============================================================================
