------------------------------ MODULE Accounts ------------------------------
(***************************************************************************)
(* The life of an account: registration, login with its three attempts,    *)
(* the forced change of a generated password, deletion, and what an admin  *)
(* does to it (DbUtils.cpp, Menus.cpp).                                    *)
(*                                                                         *)
(* An account is spread over two files without a transaction between them: *)
(* users.parquet has the password, userstatus.parquet the flags. The       *)
(* second is a list of rows in which the first row of a user counts, and   *)
(* in which most users have no row until somebody asks for it. One         *)
(* instance of the program runs, as a user or as an admin.                 *)
(***************************************************************************)
EXTENDS Integers, Sequences

CONSTANTS Users,      \* user names that may have an account
          NoUser,
          Known,      \* users with a row in users.parquet at the start
          FirstRows,  \* userstatus.parquet at the start
          Faults,     \* which of "refused", "torn", "crash" may happen
          MaxRows     \* bound: no registration starts with so many rows

StatusRow == [user : Users, gen : BOOLEAN, failed : BOOLEAN, deleted : BOOLEAN]

ASSUME AccountsAssumption ==
    /\ NoUser \notin Users
    /\ Known \subseteq Users
    /\ FirstRows \in Seq(StatusRow)
    /\ Faults \subseteq {"refused", "torn", "crash"}
    /\ MaxRows \in Nat

VARIABLES password,  \* users.parquet: the kind of password a user's row holds
          rows,      \* userstatus.parquet: its rows, in file order
          torn,      \* the files a reader cannot open: "users", "status"
          pc,        \* the prompt the program is at
          who,       \* the user it works on
          seen,      \* the status loginUser read before asking the password
          fails,     \* failedLoginCount of the running loginUser call
          pending,   \* the password changeuserinfo or registration has not saved
          struck     \* history: users who made a third mistake in one login

files == <<password, rows, torn>>
local == <<pc, who, seen, fails, pending>>
vars  == <<files, local, struck>>

Prompts   == {"down", "home", "password", "otp", "forced", "forcedSave", "menu",
              "enrol", "admin", "adminEnrol", "edit"}
Passwords == {"none", "chosen", "weak", "generated"}
Statuses  == {"OK", "DELETED", "LOCKED", "GENERATED_PASSWORD"}

Init ==
    /\ password = [u \in Users |-> IF u \in Known THEN "chosen" ELSE "none"]
    /\ rows = FirstRows
    /\ torn = {}
    /\ pc = "home" /\ who = NoUser /\ seen = "OK" /\ fails = 0 /\ pending = "none"
    /\ struck = {}

-----------------------------------------------------------------------------
(* userstatus.parquet                                                      *)

HasRow(u) == \E i \in 1 .. Len(rows) : rows[i].user = u

FirstRow_LastOne(u) ==
    CHOOSE i \in 1 .. Len(rows) :
        rows[i].user = u /\ \A j \in i + 1 .. Len(rows) : rows[j].user # u

(* Every reader and writer stops at the first row of a user.               *)
FirstRow(u) ==
    CHOOSE i \in 1 .. Len(rows) :
        rows[i].user = u /\ \A j \in 1 .. i - 1 : rows[j].user # u

Default(u) == [user |-> u, gen |-> FALSE, failed |-> FALSE, deleted |-> FALSE]

StatusOf(u) == IF HasRow(u) THEN rows[FirstRow(u)] ELSE Default(u)

checkStatus_LockedForgotten(s) ==
    IF s.deleted THEN "DELETED" ELSE IF s.gen THEN "GENERATED_PASSWORD" ELSE "OK"

checkStatus(s) ==
    IF s.deleted THEN "DELETED"
    ELSE IF s.failed THEN "LOCKED"
    ELSE IF s.gen THEN "GENERATED_PASSWORD" ELSE "OK"

Barred(u) == StatusOf(u).deleted \/ StatusOf(u).failed

(* updateUserStatusRow succeeds only on a readable file with a row of u.   *)
RowUpdated(u, row) ==
    /\ "status" \notin torn
    /\ HasRow(u)
    /\ rows' = [rows EXCEPT ![FirstRow(u)] = row]
    /\ UNCHANGED torn

RowNotUpdated(u) ==
    /\ UNCHANGED rows
    /\ \/ /\ "status" \in torn \/ ~HasRow(u) \/ "refused" \in Faults
          /\ UNCHANGED torn
       \/ /\ "status" \notin torn /\ HasRow(u) /\ "torn" \in Faults
          /\ torn' = torn \cup {"status"}

(* Most callers do not look at the result.                                 *)
UpdateRow(u, row) == RowUpdated(u, row) \/ RowNotUpdated(u)

(* appendUserStatusRow does not look at the result of reading the table:   *)
(* a table that cannot be read, or not now, is replaced by the one new row.*)
AppendRow(row) ==
    \/ /\ "status" \notin torn
       /\ rows' = Append(rows, row)
       /\ UNCHANGED torn
    \/ /\ "status" \in torn \/ "refused" \in Faults
       /\ rows' = <<row>>
       /\ torn' = torn \ {"status"}
    \/ /\ "refused" \in Faults
       /\ UNCHANGED <<rows, torn>>
    \/ /\ "torn" \in Faults
       /\ torn' = torn \cup {"status"}
       /\ UNCHANGED rows

(* updateUserInfo with a Password: saved, refused, or the file is torn.    *)
SavePassword(u, kind) ==
    \/ /\ "users" \notin torn
       /\ password' = [password EXCEPT ![u] = kind]
       /\ UNCHANGED torn
    \/ /\ "users" \in torn \/ "refused" \in Faults
       /\ UNCHANGED <<password, torn>>
    \/ /\ "users" \notin torn /\ "torn" \in Faults
       /\ torn' = torn \cup {"users"}
       /\ UNCHANGED password

-----------------------------------------------------------------------------
(* loginUser                                                               *)

GoTo(p) == pc' = p

Leave_KeepsUser(p) ==
    /\ GoTo(p)
    /\ seen' = "OK" /\ fails' = 0 /\ pending' = "none"
    /\ UNCHANGED who

(* The locals of a menu or of loginUser die with it.                       *)
Leave(p) ==
    /\ GoTo(p)
    /\ who' = NoUser /\ seen' = "OK" /\ fails' = 0 /\ pending' = "none"

StatusRead_NoDefaultRow(u) == UNCHANGED <<rows, torn>>
StatusRead_AlwaysAppends(u) == AppendRow(Default(u))

(* readUserStatusFromFile gives a user without a row the default one.      *)
StatusRead(u) ==
    IF HasRow(u) THEN UNCHANGED <<rows, torn>> ELSE AppendRow(Default(u))

(* loginUser does not look at whether the status could be read: when       *)
(* userstatus.parquet cannot be opened it goes on with the status OK it    *)
(* began with, whoever the user is.                                        *)
Login(u) ==
    /\ pc = "home"
    /\ torn = {}
    /\ password[u] # "none"
    /\ \/ /\ checkStatus(StatusOf(u)) \notin {"DELETED", "LOCKED"}
          /\ StatusRead(u)
          /\ seen' = checkStatus(StatusOf(u))
       \/ /\ "refused" \in Faults
          /\ seen' = "OK"
          /\ UNCHANGED <<rows, torn>>
    /\ GoTo("password") /\ who' = u
    /\ UNCHANGED <<password, fails, pending, struck>>

WrongPassword ==
    /\ pc = "password"
    /\ IF fails < 2
         THEN /\ fails' = fails + 1
              /\ UNCHANGED <<rows, torn, pc, who, seen, pending, struck>>
         ELSE /\ UpdateRow(who, [StatusOf(who) EXCEPT !.failed = TRUE])
              /\ struck' = struck \cup {who}
              /\ Leave("home")
    /\ UNCHANGED password

(* 'z' leaves the loop; the count of failed attempts dies with the call.   *)
LeavePassword ==
    /\ pc = "password"
    /\ Leave("home")
    /\ UNCHANGED <<files, struck>>

RightPassword ==
    /\ pc = "password"
    /\ GoTo("otp")
    /\ UNCHANGED <<files, who, seen, fails, pending, struck>>

(* After three wrong OTPs loginUser goes on to the user menu all the same. *)
OtpFailed ==
    /\ pc = "otp"
    /\ GoTo("menu")
    /\ UNCHANGED <<files, who, seen, fails, pending, struck>>

OtpVerified ==
    /\ pc = "otp"
    /\ GoTo(IF seen = "GENERATED_PASSWORD" THEN "forced" ELSE "menu")
    /\ UNCHANGED <<files, who, seen, fails, pending, struck>>

(* changeuserinfo with forceChangePassword: 'z' leaves without a change.   *)
ForcedLeave ==
    /\ pc = "forced"
    /\ Leave("home")
    /\ UNCHANGED <<files, struck>>

(* The flag is cleared first, whether or not that succeeds ...             *)
ForcedChange ==
    /\ pc = "forced"
    /\ UpdateRow(who, [StatusOf(who) EXCEPT !.gen = FALSE])
    /\ GoTo("forcedSave")
    /\ pending' = "chosen"
    /\ UNCHANGED <<password, who, seen, fails, struck>>

(* ... and the password is saved afterwards; the user has to log in again. *)
ForcedSave ==
    /\ pc = "forcedSave"
    /\ SavePassword(who, pending)
    /\ Leave("home")
    /\ UNCHANGED <<rows, struck>>

-----------------------------------------------------------------------------
(* UserLoginMenu                                                           *)

ChangePassword ==
    /\ pc = "menu"
    /\ SavePassword(who, "chosen")
    /\ UNCHANGED <<rows, local, struck>>

DeleteSelf ==
    /\ pc = "menu"
    /\ UpdateRow(who, [StatusOf(who) EXCEPT !.deleted = TRUE])
    /\ Leave("home")
    /\ UNCHANGED <<password, struck>>

Logout ==
    /\ pc = "menu"
    /\ Leave("home")
    /\ UNCHANGED <<files, struck>>

-----------------------------------------------------------------------------
(* enterUserInfoRegister, then AppendUserParquetRow by its caller.         *)

(* The name must be new in users.parquet; a status row of that name may    *)
(* already be there.                                                       *)
Register(u, kind, next) ==
    /\ "users" \notin torn
    /\ password[u] = "none"
    /\ Len(rows) < MaxRows
    /\ IF kind = "generated"
         THEN AppendRow([Default(u) EXCEPT !.gen = TRUE])
         ELSE UNCHANGED <<rows, torn>>
    /\ GoTo(next) /\ who' = u /\ pending' = kind
    /\ UNCHANGED <<password, seen, fails, struck>>

(* A user's own password is taken only if isvalidPassword refuses it; an   *)
(* empty one is replaced by a generated one.                               *)
RegisterSelf(u) ==
    /\ pc = "home"
    /\ \E kind \in {"weak", "generated"} : Register(u, kind, "enrol")

RegisterByAdmin(u) ==
    /\ pc = "admin"
    /\ Register(u, "generated", "adminEnrol")

(* A registered user is in the user menu at once, without a login.         *)
Enrol ==
    /\ pc \in {"enrol", "adminEnrol"}
    /\ UNCHANGED <<rows, struck>>
    /\ \/ /\ "users" \notin torn
          /\ password' = [password EXCEPT ![who] = pending]
          /\ UNCHANGED torn
          /\ IF pc = "enrol"
               THEN /\ GoTo("menu") /\ pending' = "none"
                    /\ UNCHANGED <<who, seen, fails>>
               ELSE Leave("admin")
       \/ /\ "refused" \in Faults
          /\ UNCHANGED <<password, torn>>
          /\ Leave(IF pc = "enrol" THEN "home" ELSE "admin")
       \/ /\ "torn" \in Faults
          /\ torn' = torn \cup {"users"}
          /\ UNCHANGED password
          /\ Leave(IF pc = "enrol" THEN "home" ELSE "admin")

-----------------------------------------------------------------------------
(* AdminLoginMenu and UserEditMenu                                         *)

AdminLogin ==
    /\ pc = "home"
    /\ GoTo("admin")
    /\ UNCHANGED <<files, who, seen, fails, pending, struck>>

AdminLogout ==
    /\ pc = "admin"
    /\ GoTo("home")
    /\ UNCHANGED <<files, who, seen, fails, pending, struck>>

ManageUser(u) ==
    /\ pc = "admin"
    /\ "users" \notin torn
    /\ password[u] # "none"
    /\ GoTo("edit") /\ who' = u
    /\ UNCHANGED <<files, seen, fails, pending, struck>>

DeleteUser(u) ==
    /\ pc = "admin"
    /\ "status" \notin torn
    /\ HasRow(u)
    /\ UpdateRow(u, [StatusOf(u) EXCEPT !.deleted = TRUE])
    /\ UNCHANGED <<password, local, struck>>

Unlocked(u) == struck' = struck \ {u}

(* Restoring clears both flags and goes on to the edit menu of the user.   *)
RestoreUser(u) ==
    /\ pc = "admin"
    /\ "status" \notin torn
    /\ HasRow(u)
    /\ \/ /\ RowUpdated(u, [StatusOf(u) EXCEPT !.deleted = FALSE, !.failed = FALSE])
          /\ Unlocked(u)
          /\ \/ /\ "users" \notin torn /\ password[u] # "none"
                /\ GoTo("edit") /\ who' = u
                /\ UNCHANGED <<seen, fails, pending>>
             \/ /\ "users" \notin torn /\ password[u] = "none"
                /\ UNCHANGED local
             \/ /\ "users" \in torn
                /\ Leave("down")
       \/ /\ RowNotUpdated(u)
          /\ UNCHANGED <<local, struck>>
    /\ UNCHANGED password

ResetRow(s) == [s EXCEPT !.gen = TRUE, !.failed = FALSE]

(* Resetting a password writes the flags at once, whether or not that      *)
(* succeeds, and leaves the password pending.                              *)
ResetPassword ==
    /\ pc = "edit"
    /\ \/ /\ RowUpdated(who, ResetRow(StatusOf(who)))
          /\ Unlocked(who)
       \/ /\ RowNotUpdated(who)
          /\ UNCHANGED struck
    /\ pending' = "generated"
    /\ UNCHANGED <<password, pc, who, seen, fails>>

DoneEditing ==
    /\ pc = "edit"
    /\ IF pending = "none" THEN UNCHANGED <<password, torn>>
                           ELSE SavePassword(who, pending)
    /\ Leave("admin")
    /\ UNCHANGED <<rows, struck>>

-----------------------------------------------------------------------------
(* A file that cannot be parsed, or not be opened, makes StreamReader or   *)
(* PARQUET_ASSIGN_OR_THROW throw out of the menus.                         *)
Abort ==
    /\ pc \in {"home", "admin"}
    /\ torn # {} \/ "refused" \in Faults
    /\ Leave("down")
    /\ UNCHANGED <<files, struck>>

Crash ==
    /\ "crash" \in Faults
    /\ pc # "down"
    /\ Leave("down")
    /\ UNCHANGED <<files, struck>>

Restart ==
    /\ pc = "down"
    /\ GoTo("home")
    /\ UNCHANGED <<files, who, seen, fails, pending, struck>>

Next ==
    \/ \E u \in Users :
          \/ Login(u) \/ RegisterSelf(u) \/ RegisterByAdmin(u)
          \/ ManageUser(u) \/ DeleteUser(u) \/ RestoreUser(u)
    \/ WrongPassword \/ LeavePassword \/ RightPassword
    \/ OtpFailed \/ OtpVerified \/ ForcedLeave \/ ForcedChange \/ ForcedSave
    \/ ChangePassword \/ DeleteSelf \/ Logout \/ Enrol
    \/ AdminLogin \/ AdminLogout \/ ResetPassword \/ DoneEditing
    \/ Abort \/ Crash \/ Restart

Spec == Init /\ [][Next]_vars

-----------------------------------------------------------------------------
(* Types: every row of userstatus.parquet belongs to a user and the        *)
(* program always works on a user it has a prompt for.                     *)
TypeOK ==
    /\ password \in [Users -> Passwords]
    /\ rows \in Seq(StatusRow)
    /\ torn \subseteq {"users", "status"}
    /\ pc \in Prompts
    /\ who \in Users \cup {NoUser}
    /\ seen \in Statuses
    /\ fails \in 0 .. 2
    /\ pending \in Passwords
    /\ struck \subseteq Users
    /\ (who = NoUser) <=> (pc \in {"down", "home", "admin"})

(* While somebody logs in or uses the user menu, the account is neither    *)
(* deleted nor locked.                                                     *)
SessionNotBarred ==
    pc \in {"password", "otp", "forced", "forcedSave", "menu"} => ~Barred(who)

(* A third wrong password in one login locks the account until an admin    *)
(* resets or restores it, also for a user who had no status row before.    *)
StruckIsLocked == \A u \in struck : StatusOf(u).failed

(* Between two operations a password the program made up is marked as      *)
(* such, so that its owner has to change it at the next login.             *)
GeneratedIsMarked ==
    pc \in {"home", "admin"} =>
        \A u \in Users : password[u] = "generated" => StatusOf(u).gen

(* No user has two status rows.                                            *)
OneRowPerUser ==
    \A i, j \in 1 .. Len(rows) : rows[i].user = rows[j].user => i = j

(* A login or a registration has put its one row in the place of a status  *)
(* table it could not read.                                                *)
TableReplaced == Len(rows') = 1 /\ pc' \in {"password", "enrol", "adminEnrol"}

(* The flags of a deleted or locked account are taken back only by an      *)
(* admin: no login, password change, second registration of the name,      *)
(* failed update or restart clears them. There is one way around the       *)
(* admin: somebody's login or registration fails to read userstatus.parquet*)
(* and replaces all of it.                                                 *)
OnlyAdminUnbars ==
    [][\A u \in Users : Barred(u) /\ ~Barred(u)'
          => pc \in {"admin", "edit"} \/ TableReplaced]_vars
=============================================================================
