--------------------------- MODULE AccountsProofs ---------------------------
(***************************************************************************)
(* Theorems about Accounts: for any users and any failures, that only an   *)
(* admin brings a barred account back; without failures, that sessions     *)
(* belong to accounts that are not barred, that a third mistake locks, and *)
(* that no user has two status rows.                                       *)
(***************************************************************************)
EXTENDS Accounts, SequenceTheorems, WellFoundedInduction, TLAPS

-----------------------------------------------------------------------------
(* The first row of a user in a table s, and what it says.                 *)
In(s, u) == \E i \in 1 .. Len(s) : s[i].user = u

IsFirst(s, u, i) ==
    /\ i \in 1 .. Len(s)
    /\ s[i].user = u
    /\ \A j \in 1 .. i - 1 : s[j].user # u

FirstIn(s, u) ==
    CHOOSE i \in 1 .. Len(s) :
        s[i].user = u /\ \A j \in 1 .. i - 1 : s[j].user # u

StatusIn(s, u) == IF In(s, u) THEN s[FirstIn(s, u)] ELSE Default(u)

Single(s) == \A i, j \in 1 .. Len(s) : s[i].user = s[j].user => i = j

(* A set of numbers with an element has a least one.                       *)
LEMMA LeastNumber ==
    ASSUME NEW T \in SUBSET Nat, T # {}
    PROVE  \E m \in T : \A k \in T : ~(k < m)
<1>1. \E m \in T : \A k \in T : ~(<<k, m>> \in OpToRel(<, Nat))
  BY NatLessThanWellFounded, WFMin
<1> QED BY <1>1 DEF OpToRel

(* A user with a row has a first one, and only one.                        *)
LEMMA FirstExists ==
    ASSUME NEW s \in Seq(StatusRow), NEW u, In(s, u)
    PROVE  IsFirst(s, u, FirstIn(s, u))
<1> DEFINE T == {i \in 1 .. Len(s) : s[i].user = u}
<1>1. Len(s) \in Nat
  BY LenProperties
<1>2. T \subseteq Nat /\ T # {}
  BY <1>1 DEF In
<1>3. PICK m \in T : \A k \in T : ~(k < m)
  BY <1>2, LeastNumber
<1>4. IsFirst(s, u, m)
  BY <1>1, <1>3 DEF IsFirst
<1>5. \E i \in 1 .. Len(s) : s[i].user = u /\ \A j \in 1 .. i - 1 : s[j].user # u
  BY <1>4 DEF IsFirst
<1> QED BY <1>5 DEF FirstIn, IsFirst

LEMMA FirstUnique ==
    ASSUME NEW s \in Seq(StatusRow), NEW u, NEW i, NEW j,
           IsFirst(s, u, i), IsFirst(s, u, j)
    PROVE  i = j
<1>1. Len(s) \in Nat
  BY LenProperties
<1> QED BY <1>1 DEF IsFirst

(* A status is a row of its user.                                          *)
LEMMA StatusType ==
    ASSUME NEW s \in Seq(StatusRow), NEW u \in Users
    PROVE  StatusIn(s, u) \in StatusRow /\ StatusIn(s, u).user = u
<1>1. CASE In(s, u)
  <2>1. IsFirst(s, u, FirstIn(s, u))
    BY <1>1, FirstExists
  <2>2. s[FirstIn(s, u)] \in StatusRow
    BY <2>1, ElementOfSeq DEF IsFirst
  <2> QED BY <1>1, <2>1, <2>2 DEF StatusIn, IsFirst
<1>2. CASE ~In(s, u)
  BY <1>2 DEF StatusIn, Default, StatusRow
<1> QED BY <1>1, <1>2

Rewritten(s, u, row, t) == t = [s EXCEPT ![FirstIn(s, u)] = row]

Extended(s, row, t) == t = Append(s, row)

(* Rewriting the first row of a user changes the status of nobody else.    *)
LEMMA Updated ==
    ASSUME NEW s \in Seq(StatusRow), NEW u \in Users, In(s, u),
           NEW row \in StatusRow, row.user = u,
           NEW t, Rewritten(s, u, row, t)
    PROVE  /\ t \in Seq(StatusRow)
           /\ \A v \in Users : In(t, v) <=> In(s, v)
           /\ StatusIn(t, u) = row
           /\ \A v \in Users \ {u} : StatusIn(t, v) = StatusIn(s, v)
           /\ Single(s) => Single(t)
<1> DEFINE f == FirstIn(s, u)
<1>1. IsFirst(s, u, f)
  BY FirstExists
<1>2. /\ t \in Seq(StatusRow) /\ Len(t) = Len(s)
      /\ \A j \in 1 .. Len(s) : t[j] = IF j = f THEN row ELSE s[j]
  BY <1>1, ExceptSeq DEF IsFirst, Rewritten
<1>3. \A j \in 1 .. Len(s) : t[j].user = s[j].user
  BY <1>1, <1>2 DEF IsFirst
<1>4. \A v \in Users : In(t, v) <=> In(s, v)
  BY <1>2, <1>3 DEF In
<1>5. Single(s) => Single(t)
  BY <1>2, <1>3 DEF Single
<1>6. ASSUME NEW v \in Users, In(s, v) PROVE FirstIn(t, v) = FirstIn(s, v)
  <2>1. IsFirst(s, v, FirstIn(s, v)) /\ Len(s) \in Nat
    BY <1>6, FirstExists, LenProperties
  <2>2. IsFirst(t, v, FirstIn(s, v))
    BY <1>2, <1>3, <2>1 DEF IsFirst
  <2>3. IsFirst(t, v, FirstIn(t, v))
    BY <1>2, <1>4, <1>6, FirstExists
  <2> QED BY <1>2, <2>2, <2>3, FirstUnique
<1>7. StatusIn(t, u) = row
  BY <1>1, <1>2, <1>4, <1>6 DEF StatusIn, IsFirst
<1>8. ASSUME NEW v \in Users \ {u} PROVE StatusIn(t, v) = StatusIn(s, v)
  <2>1. CASE In(s, v)
    <3>1. IsFirst(s, v, FirstIn(s, v))
      BY <2>1, FirstExists
    <3>2. FirstIn(s, v) # f
      BY <1>1, <3>1 DEF IsFirst
    <3> QED BY <1>2, <1>4, <1>6, <2>1, <3>1, <3>2 DEF StatusIn, IsFirst
  <2>2. CASE ~In(s, v)
    BY <1>4, <2>2 DEF StatusIn
  <2> QED BY <2>1, <2>2
<1> QED BY <1>2, <1>4, <1>5, <1>7, <1>8

(* A row appended is the status of its user only if there was none.        *)
LEMMA Appended ==
    ASSUME NEW s \in Seq(StatusRow), NEW row \in StatusRow,
           NEW t, Extended(s, row, t)
    PROVE  /\ t \in Seq(StatusRow)
           /\ \A v \in Users : In(t, v) <=> In(s, v) \/ v = row.user
           /\ \A v \in Users : In(s, v) => StatusIn(t, v) = StatusIn(s, v)
           /\ ~In(s, row.user) => StatusIn(t, row.user) = row
           /\ \A v \in Users \ {row.user} : StatusIn(t, v) = StatusIn(s, v)
           /\ Single(s) /\ ~In(s, row.user) => Single(t)
<1>1. /\ t \in Seq(StatusRow) /\ Len(t) = Len(s) + 1 /\ Len(s) \in Nat
      /\ \A i \in 1 .. Len(s) : t[i] = s[i]
      /\ t[Len(s) + 1] = row
  BY AppendProperties, LenProperties DEF Extended
<1>2. \A i \in 1 .. Len(t) : i \in 1 .. Len(s) \/ i = Len(s) + 1
  BY <1>1
<1>3. \A v \in Users : In(t, v) <=> In(s, v) \/ v = row.user
  BY <1>1, <1>2 DEF In
<1>4. ASSUME NEW v \in Users, In(s, v)
      PROVE  StatusIn(t, v) = StatusIn(s, v)
  <2>1. IsFirst(s, v, FirstIn(s, v))
    BY <1>4, FirstExists
  <2>2. IsFirst(t, v, FirstIn(s, v))
    BY <1>1, <2>1 DEF IsFirst
  <2>3. In(t, v) /\ IsFirst(t, v, FirstIn(t, v))
    BY <1>1, <1>3, <1>4, FirstExists
  <2>4. FirstIn(t, v) = FirstIn(s, v)
    BY <1>1, <2>2, <2>3, FirstUnique
  <2> QED BY <1>1, <1>4, <2>1, <2>3, <2>4 DEF StatusIn, IsFirst
<1>5. ASSUME ~In(s, row.user) PROVE StatusIn(t, row.user) = row
  <2>1. IsFirst(t, row.user, Len(s) + 1)
    BY <1>1, <1>5 DEF IsFirst, In
  <2>2. row.user \in Users
    BY DEF StatusRow
  <2>3. In(t, row.user) /\ IsFirst(t, row.user, FirstIn(t, row.user))
    BY <1>1, <1>3, <2>2, FirstExists
  <2>4. FirstIn(t, row.user) = Len(s) + 1
    BY <1>1, <2>1, <2>3, FirstUnique
  <2> QED BY <1>1, <2>3, <2>4 DEF StatusIn
<1>6. ASSUME NEW v \in Users \ {row.user}
      PROVE  StatusIn(t, v) = StatusIn(s, v)
  BY <1>3, <1>4 DEF StatusIn
<1>7. Single(s) /\ ~In(s, row.user) => Single(t)
  BY <1>1, <1>2 DEF Single, In
<1> QED BY <1>1, <1>3, <1>4, <1>5, <1>6, <1>7

-----------------------------------------------------------------------------
(* The operators of Accounts, before and after a step, are those above.    *)
LEMMA Now ==
    \A u : /\ HasRow(u) <=> In(rows, u)
           /\ FirstRow(u) = FirstIn(rows, u)
           /\ StatusOf(u) = StatusIn(rows, u)
<1>1. \A u : (HasRow(u) <=> In(rows, u)) /\ FirstRow(u) = FirstIn(rows, u)
  BY DEF HasRow, In, FirstRow, FirstIn
<1> QED BY <1>1 DEF StatusOf, StatusIn

LEMMA Then ==
    \A u : /\ HasRow(u)' <=> In(rows', u)
           /\ StatusOf(u)' = StatusIn(rows', u)
<1>1. \A u : (HasRow(u)' <=> In(rows', u)) /\ FirstRow(u)' = FirstIn(rows', u)
  BY DEF HasRow, In, FirstRow, FirstIn
<1> QED BY <1>1 DEF StatusOf, StatusIn

(* What an update of a row does, for everybody.                            *)
LEMMA RowUpdatedStep ==
    ASSUME rows \in Seq(StatusRow), NEW u \in Users,
           NEW row \in StatusRow, row.user = u, RowUpdated(u, row)
    PROVE  /\ rows' \in Seq(StatusRow) /\ torn' = torn
           /\ \A v \in Users : HasRow(v)' <=> HasRow(v)
           /\ StatusOf(u)' = row
           /\ \A v \in Users \ {u} : StatusOf(v)' = StatusOf(v)
           /\ OneRowPerUser => OneRowPerUser'
<1>1. In(rows, u) /\ Rewritten(rows, u, row, rows')
  BY Now DEF RowUpdated, Rewritten
<1>2. torn' = torn
  BY DEF RowUpdated
<1> HIDE DEF RowUpdated
<1>3. /\ rows' \in Seq(StatusRow)
      /\ \A v \in Users : In(rows', v) <=> In(rows, v)
      /\ StatusIn(rows', u) = row
      /\ \A v \in Users \ {u} : StatusIn(rows', v) = StatusIn(rows, v)
      /\ Single(rows) => Single(rows')
  BY <1>1, Updated
<1> QED BY <1>2, <1>3, Now, Then DEF OneRowPerUser, Single

(* What appending a row to a readable table does, when it succeeds.        *)
LEMMA AppendedStep ==
    ASSUME rows \in Seq(StatusRow), NEW row \in StatusRow,
           Extended(rows, row, rows')
    PROVE  /\ rows' \in Seq(StatusRow)
           /\ \A v \in Users : HasRow(v)' <=> HasRow(v) \/ v = row.user
           /\ \A v \in Users : HasRow(v) => StatusOf(v)' = StatusOf(v)
           /\ ~HasRow(row.user) => StatusOf(row.user)' = row
           /\ \A v \in Users \ {row.user} : StatusOf(v)' = StatusOf(v)
           /\ OneRowPerUser /\ ~HasRow(row.user) => OneRowPerUser'
<1>1. /\ rows' \in Seq(StatusRow)
      /\ \A v \in Users : In(rows', v) <=> In(rows, v) \/ v = row.user
      /\ \A v \in Users : In(rows, v) => StatusIn(rows', v) = StatusIn(rows, v)
      /\ ~In(rows, row.user) => StatusIn(rows', row.user) = row
      /\ \A v \in Users \ {row.user} : StatusIn(rows', v) = StatusIn(rows, v)
      /\ Single(rows) /\ ~In(rows, row.user) => Single(rows')
  BY Appended
<1> QED BY <1>1, Now, Then DEF OneRowPerUser, Single

(* A step that leaves the table alone.                                     *)
LEMMA RowsKept ==
    ASSUME rows' = rows
    PROVE  /\ \A v : (HasRow(v)' <=> HasRow(v)) /\ StatusOf(v)' = StatusOf(v)
           /\ OneRowPerUser => OneRowPerUser'
<1>1. \A v : (HasRow(v)' <=> HasRow(v)) /\ StatusOf(v)' = StatusOf(v)
  BY Now, Then
<1> QED BY <1>1 DEF OneRowPerUser

-----------------------------------------------------------------------------
(* Types. The parts of a step first.                                       *)
LEMMA StatusRowType ==
    ASSUME rows \in Seq(StatusRow), NEW u \in Users, NEW b \in BOOLEAN
    PROVE  /\ StatusOf(u) \in StatusRow /\ StatusOf(u).user = u
           /\ Default(u) \in StatusRow
           /\ [Default(u) EXCEPT !.gen = TRUE] \in StatusRow
           /\ [StatusOf(u) EXCEPT !.gen = b] \in StatusRow
           /\ [StatusOf(u) EXCEPT !.deleted = b] \in StatusRow
           /\ [StatusOf(u) EXCEPT !.failed = b] \in StatusRow
           /\ [StatusOf(u) EXCEPT !.deleted = b, !.failed = b] \in StatusRow
           /\ ResetRow(StatusOf(u)) \in StatusRow
<1>1. StatusOf(u) \in StatusRow /\ StatusOf(u).user = u
  BY Now, StatusType
<1>2. Default(u) \in StatusRow
  BY DEF Default, StatusRow
<1> QED BY <1>1, <1>2 DEF StatusRow, ResetRow

LEMMA UpdateType ==
    ASSUME rows \in Seq(StatusRow), torn \subseteq {"users", "status"},
           NEW u \in Users, NEW row \in StatusRow, row.user = u,
           UpdateRow(u, row) \/ RowUpdated(u, row) \/ RowNotUpdated(u)
    PROVE  rows' \in Seq(StatusRow) /\ torn' \subseteq {"users", "status"}
<1>1. CASE RowUpdated(u, row)
  BY <1>1, RowUpdatedStep
<1>2. CASE RowNotUpdated(u)
  BY <1>2 DEF RowNotUpdated
<1> QED BY <1>1, <1>2 DEF UpdateRow

LEMMA AppendType ==
    ASSUME rows \in Seq(StatusRow), torn \subseteq {"users", "status"},
           NEW row \in StatusRow, AppendRow(row)
    PROVE  rows' \in Seq(StatusRow) /\ torn' \subseteq {"users", "status"}
<1>1. rows' \in {rows, <<row>>, Append(rows, row)}
  BY DEF AppendRow
<1>2. <<row>> \in Seq(StatusRow) /\ Append(rows, row) \in Seq(StatusRow)
  BY AppendProperties
<1>3. torn' \subseteq {"users", "status"}
  BY DEF AppendRow
<1> QED BY <1>1, <1>2, <1>3

LEMMA SaveType ==
    ASSUME password \in [Users -> Passwords], torn \subseteq {"users", "status"},
           NEW u \in Users, NEW kind \in Passwords, SavePassword(u, kind)
    PROVE  /\ password' \in [Users -> Passwords]
           /\ torn' \subseteq {"users", "status"}
BY DEF SavePassword

LEMMA LeaveType ==
    ASSUME NEW p \in {"down", "home", "admin"}, Leave(p)
    PROVE  /\ pc' = p /\ who' = NoUser /\ seen' \in Statuses
           /\ fails' \in 0 .. 2 /\ pending' \in Passwords
BY DEF Leave, GoTo, Statuses, Passwords

LEMMA AccountsInitType == Init => TypeOK
<1> SUFFICES ASSUME Init PROVE TypeOK
  OBVIOUS
<1>1. /\ password \in [Users -> Passwords] /\ rows \in Seq(StatusRow)
      /\ torn \subseteq {"users", "status"} /\ struck \subseteq Users
  BY AccountsAssumption DEF Init, Passwords
<1>2. /\ pc = "home" /\ who = NoUser /\ seen \in Statuses /\ fails \in 0 .. 2
      /\ pending \in Passwords
  BY DEF Init, Statuses, Passwords
<1> QED BY <1>1, <1>2 DEF TypeOK, Prompts

(* The steps of a user.                                                    *)
LEMMA UserStepType ==
    ASSUME TypeOK,
           \/ \E u \in Users : Login(u)
           \/ WrongPassword \/ LeavePassword \/ RightPassword
           \/ OtpFailed \/ OtpVerified \/ ForcedLeave \/ ForcedChange
           \/ ForcedSave \/ ChangePassword \/ DeleteSelf \/ Logout
    PROVE  TypeOK'
<1> USE AccountsAssumption DEF TypeOK
<1>0. who \in Users <=> pc \notin {"down", "home", "admin"}
  OBVIOUS
<1>1. ASSUME NEW u \in Users, Login(u) PROVE TypeOK'
  <2>1. rows' \in Seq(StatusRow) /\ torn' \subseteq {"users", "status"}
    <3>1. CASE HasRow(u)
      BY <1>1, <3>1 DEF Login, StatusRead
    <3>2. CASE ~HasRow(u)
      BY <1>1, <3>2, AppendType, StatusRowType DEF Login, StatusRead
    <3> QED BY <3>1, <3>2
  <2>2. checkStatus(StatusOf(u)) \in Statuses
    BY DEF checkStatus, Statuses
  <2>3. seen' \in Statuses
    BY <1>1, <2>2 DEF Login, Statuses
  <2>4. /\ pc' = "password" /\ who' = u /\ password' = password
        /\ fails' = fails /\ pending' = pending /\ struck' = struck
    BY <1>1 DEF Login, GoTo
  <2> QED BY <2>1, <2>3, <2>4 DEF Prompts
<1>2. CASE WrongPassword
  <2>1. CASE fails < 2
    BY <1>2, <2>1 DEF WrongPassword
  <2>2. CASE ~(fails < 2)
    <3>1. who \in Users
      BY <1>0, <1>2 DEF WrongPassword
    <3>2. rows' \in Seq(StatusRow) /\ torn' \subseteq {"users", "status"}
      <4>1. [StatusOf(who) EXCEPT !.failed = TRUE] \in StatusRow
        BY <3>1, StatusRowType
      <4>2. [StatusOf(who) EXCEPT !.failed = TRUE].user = who
        BY <3>1, StatusRowType DEF StatusRow
      <4> QED BY <1>2, <2>2, <3>1, <4>1, <4>2, UpdateType DEF WrongPassword
    <3> QED BY <1>2, <2>2, <3>1, <3>2, LeaveType DEF WrongPassword, Prompts
  <2> QED BY <2>1, <2>2
<1>3. CASE LeavePassword \/ ForcedLeave \/ Logout
  BY <1>3, LeaveType DEF LeavePassword, ForcedLeave, Logout, files, Prompts
<1>4. CASE RightPassword \/ OtpFailed \/ OtpVerified
  BY <1>4 DEF RightPassword, OtpFailed, OtpVerified, GoTo, files, Prompts
<1>5. CASE ForcedChange
  <2>1. who \in Users
    BY <1>0, <1>5 DEF ForcedChange
  <2>2. rows' \in Seq(StatusRow) /\ torn' \subseteq {"users", "status"}
    <3>1. [StatusOf(who) EXCEPT !.gen = FALSE] \in StatusRow
      BY <2>1, StatusRowType
    <3>2. [StatusOf(who) EXCEPT !.gen = FALSE].user = who
      BY <2>1, StatusRowType DEF StatusRow
    <3> QED BY <1>5, <2>1, <3>1, <3>2, UpdateType DEF ForcedChange
  <2> QED BY <1>5, <2>1, <2>2 DEF ForcedChange, GoTo, Prompts, Passwords
<1>6. CASE ForcedSave
  <2>1. who \in Users
    BY <1>0, <1>6 DEF ForcedSave
  <2>2. /\ password' \in [Users -> Passwords]
        /\ torn' \subseteq {"users", "status"}
    BY <1>6, <2>1, SaveType DEF ForcedSave
  <2> QED BY <1>6, <2>2, LeaveType DEF ForcedSave, Prompts
<1>7. CASE ChangePassword
  <2>1. who \in Users
    BY <1>0, <1>7 DEF ChangePassword
  <2>2. /\ password' \in [Users -> Passwords]
        /\ torn' \subseteq {"users", "status"}
    <3>1. "chosen" \in Passwords
      BY DEF Passwords
    <3> QED BY <1>7, <2>1, <3>1, SaveType DEF ChangePassword
  <2> QED BY <1>7, <2>2 DEF ChangePassword, local
<1>8. CASE DeleteSelf
  <2>1. who \in Users
    BY <1>0, <1>8 DEF DeleteSelf
  <2>2. rows' \in Seq(StatusRow) /\ torn' \subseteq {"users", "status"}
    <3>1. [StatusOf(who) EXCEPT !.deleted = TRUE] \in StatusRow
      BY <2>1, StatusRowType
    <3>2. [StatusOf(who) EXCEPT !.deleted = TRUE].user = who
      BY <2>1, StatusRowType DEF StatusRow
    <3> QED BY <1>8, <2>1, <3>1, <3>2, UpdateType DEF DeleteSelf
  <2> QED BY <1>8, <2>2, LeaveType DEF DeleteSelf, Prompts
<1> QED BY <1>1, <1>2, <1>3, <1>4, <1>5, <1>6, <1>7, <1>8

(* Registration, the steps of an admin, and what happens around them.      *)
LEMMA AdminStepType ==
    ASSUME TypeOK,
           \/ \E u \in Users : \/ RegisterSelf(u) \/ RegisterByAdmin(u)
                               \/ ManageUser(u) \/ DeleteUser(u)
                               \/ RestoreUser(u)
           \/ Enrol \/ AdminLogin \/ AdminLogout \/ ResetPassword
           \/ DoneEditing \/ Abort \/ Crash \/ Restart
    PROVE  TypeOK'
<1> USE AccountsAssumption DEF TypeOK
<1>0. who \in Users <=> pc \notin {"down", "home", "admin"}
  OBVIOUS
<1>1. ASSUME NEW u \in Users, NEW kind \in {"weak", "generated"},
             NEW next \in {"enrol", "adminEnrol"}, Register(u, kind, next)
      PROVE  TypeOK'
  <2>1. rows' \in Seq(StatusRow) /\ torn' \subseteq {"users", "status"}
    <3>1. [Default(u) EXCEPT !.gen = TRUE] \in StatusRow
      BY StatusRowType
    <3>2. CASE kind = "generated"
      BY <1>1, <3>1, <3>2, AppendType DEF Register
    <3>3. CASE kind # "generated"
      BY <1>1, <3>3 DEF Register
    <3> QED BY <3>2, <3>3
  <2> QED BY <1>1, <2>1 DEF Register, GoTo, Prompts, Passwords
<1>2. ASSUME NEW u \in Users, ManageUser(u) PROVE TypeOK'
  BY <1>2 DEF ManageUser, GoTo, files, Prompts
<1>3. ASSUME NEW u \in Users, DeleteUser(u) PROVE TypeOK'
  <2>1. rows' \in Seq(StatusRow) /\ torn' \subseteq {"users", "status"}
    <3>1. [StatusOf(u) EXCEPT !.deleted = TRUE] \in StatusRow
      BY StatusRowType
    <3>2. [StatusOf(u) EXCEPT !.deleted = TRUE].user = u
      BY StatusRowType DEF StatusRow
    <3> QED BY <1>3, <3>1, <3>2, UpdateType DEF DeleteUser
  <2> QED BY <1>3, <2>1 DEF DeleteUser, local
<1>4. ASSUME NEW u \in Users, RestoreUser(u) PROVE TypeOK'
  <2>1. rows' \in Seq(StatusRow) /\ torn' \subseteq {"users", "status"}
    <3>1. [StatusOf(u) EXCEPT !.deleted = FALSE, !.failed = FALSE] \in StatusRow
      BY StatusRowType
    <3>2. [StatusOf(u) EXCEPT !.deleted = FALSE, !.failed = FALSE].user = u
      BY StatusRowType DEF StatusRow
    <3> QED BY <1>4, <3>1, <3>2, UpdateType DEF RestoreUser
  <2>2. struck' \subseteq Users /\ password' = password
    BY <1>4 DEF RestoreUser, Unlocked
  <2>3. CASE UNCHANGED local
    BY <2>1, <2>2, <2>3 DEF local
  <2>4. CASE GoTo("edit") /\ who' = u /\ UNCHANGED <<seen, fails, pending>>
    BY <2>1, <2>2, <2>4 DEF GoTo, Prompts
  <2>5. CASE Leave("down")
    BY <2>1, <2>2, <2>5, LeaveType DEF Prompts
  <2> QED BY <1>4, <2>3, <2>4, <2>5 DEF RestoreUser
<1>5. CASE Enrol
  <2>1. who \in Users
    BY <1>0, <1>5 DEF Enrol
  <2>2. /\ password' \in [Users -> Passwords]
        /\ torn' \subseteq {"users", "status"}
    BY <1>5, <2>1 DEF Enrol
  <2>3. CASE Leave("home") \/ Leave("admin")
    BY <1>5, <2>2, <2>3, LeaveType DEF Enrol, Prompts
  <2>4. CASE GoTo("menu") /\ pending' = "none" /\ UNCHANGED <<who, seen, fails>>
    BY <1>5, <2>1, <2>2, <2>4 DEF Enrol, GoTo, Prompts, Passwords
  <2> QED BY <1>5, <2>3, <2>4 DEF Enrol
<1>6. CASE AdminLogin \/ AdminLogout \/ Restart
  BY <1>6 DEF AdminLogin, AdminLogout, Restart, GoTo, files, Prompts
<1>7. CASE ResetPassword
  <2>1. who \in Users
    BY <1>0, <1>7 DEF ResetPassword
  <2>2. rows' \in Seq(StatusRow) /\ torn' \subseteq {"users", "status"}
    <3>1. ResetRow(StatusOf(who)) \in StatusRow
      BY <2>1, StatusRowType
    <3>2. ResetRow(StatusOf(who)).user = who
      BY <2>1, StatusRowType DEF StatusRow, ResetRow
    <3> QED BY <1>7, <2>1, <3>1, <3>2, UpdateType DEF ResetPassword
  <2>3. struck' \subseteq Users /\ pending' \in Passwords
    BY <1>7 DEF ResetPassword, Unlocked, Passwords
  <2> QED BY <1>7, <2>2, <2>3 DEF ResetPassword
<1>8. CASE DoneEditing
  <2>1. who \in Users
    BY <1>0, <1>8 DEF DoneEditing
  <2>2. /\ password' \in [Users -> Passwords]
        /\ torn' \subseteq {"users", "status"}
    BY <1>8, <2>1, SaveType DEF DoneEditing
  <2> QED BY <1>8, <2>2, LeaveType DEF DoneEditing, Prompts
<1>9. CASE Abort \/ Crash
  BY <1>9, LeaveType DEF Abort, Crash, files, Prompts
<1> QED BY <1>1, <1>2, <1>3, <1>4, <1>5, <1>6, <1>7, <1>8, <1>9
           DEF RegisterSelf, RegisterByAdmin

LEMMA AccountsNextType == TypeOK /\ [Next]_vars => TypeOK'
<1>1. ASSUME TypeOK, UNCHANGED vars PROVE TypeOK'
  BY <1>1 DEF TypeOK, vars, files, local
<1> QED BY <1>1, UserStepType, AdminStepType DEF Next

(* Every variable keeps its type, whatever fails: the status table holds   *)
(* rows of users, and every prompt has the user it works on.               *)
THEOREM AccountsTypeCorrect == Spec => []TypeOK
<1> QED BY AccountsInitType, AccountsNextType, PTL DEF Spec

-----------------------------------------------------------------------------
(* Only an admin brings a barred account back. A user who is barred has a  *)
(* row; a step of somebody else rewrites it with the flags still set, or   *)
(* appends behind it.                                                      *)
LEMMA BarredHasRow == \A u : Barred(u) => HasRow(u)
BY DEF Barred, StatusOf, Default

LEMMA UpdateKeepsBarred ==
    ASSUME rows \in Seq(StatusRow), NEW u \in Users,
           NEW row \in StatusRow, row.user = u, UpdateRow(u, row),
           Barred(u) => row.deleted \/ row.failed
    PROVE  \A v \in Users : Barred(v) => Barred(v)'
<1>1. CASE RowUpdated(u, row)
  <2>1. /\ StatusOf(u)' = row
        /\ \A v \in Users \ {u} : StatusOf(v)' = StatusOf(v)
    BY <1>1, RowUpdatedStep
  <2> QED BY <2>1 DEF Barred
<1>2. CASE RowNotUpdated(u)
  <2>1. rows' = rows
    BY <1>2 DEF RowNotUpdated
  <2> QED BY <2>1, RowsKept DEF Barred
<1> QED BY <1>1, <1>2 DEF UpdateRow

LEMMA AppendKeepsBarred ==
    ASSUME rows \in Seq(StatusRow),
           NEW row \in StatusRow, AppendRow(row), Len(rows') # 1
    PROVE  \A v \in Users : Barred(v) => Barred(v)'
<1>1. rows' = rows \/ Extended(rows, row, rows')
  <2>1. Len(<<row>>) = 1
    OBVIOUS
  <2>2. rows' # <<row>>
    BY <2>1
  <2> QED BY <2>2 DEF AppendRow, Extended
<1>2. \A v \in Users : HasRow(v) => StatusOf(v)' = StatusOf(v)
  BY <1>1, RowsKept, AppendedStep
<1> QED BY <1>2, BarredHasRow DEF Barred

LEMMA StepKeepsBarred ==
    ASSUME TypeOK, [Next]_vars, pc \notin {"admin", "edit"}, ~TableReplaced
    PROVE  \A v \in Users : Barred(v) => Barred(v)'
<1> DEFINE Kept == \A v \in Users : Barred(v) => Barred(v)'
<1> USE AccountsAssumption
<1>0. /\ rows \in Seq(StatusRow)
      /\ who \in Users <=> pc \notin {"down", "home", "admin"}
  BY DEF TypeOK
<1>1. ASSUME rows' = rows PROVE Kept
  BY <1>1, RowsKept DEF Barred
<1>2. ASSUME NEW u \in Users, Login(u) PROVE Kept
  <2>1. Len(rows') # 1
    BY <1>2 DEF Login, GoTo, TableReplaced
  <2>2. CASE UNCHANGED <<rows, torn>>
    BY <1>1, <2>2
  <2>3. CASE AppendRow(Default(u))
    BY <1>0, <2>1, <2>3, AppendKeepsBarred, StatusRowType
  <2> QED BY <1>2, <2>2, <2>3 DEF Login, StatusRead
<1>3. CASE WrongPassword
  <2>1. CASE fails < 2
    BY <1>1, <1>3, <2>1 DEF WrongPassword
  <2>2. CASE ~(fails < 2)
    <3> DEFINE row == [StatusOf(who) EXCEPT !.failed = TRUE]
    <3>1. who \in Users
      BY <1>0, <1>3 DEF WrongPassword
    <3>2. row \in StatusRow /\ row.user = who /\ row.failed
      BY <1>0, <3>1, StatusRowType DEF StatusRow
    <3>3. UpdateRow(who, row)
      BY <1>3, <2>2 DEF WrongPassword
    <3> QED BY <1>0, <3>1, <3>2, <3>3, UpdateKeepsBarred
  <2> QED BY <2>1, <2>2
<1>4. CASE DeleteSelf
  <2> DEFINE row == [StatusOf(who) EXCEPT !.deleted = TRUE]
  <2>1. who \in Users
    BY <1>0, <1>4 DEF DeleteSelf
  <2>2. row \in StatusRow /\ row.user = who /\ row.deleted
    BY <1>0, <2>1, StatusRowType DEF StatusRow
  <2>3. UpdateRow(who, row)
    BY <1>4 DEF DeleteSelf
  <2> QED BY <1>0, <2>1, <2>2, <2>3, UpdateKeepsBarred
<1>5. CASE ForcedChange
  <2> DEFINE row == [StatusOf(who) EXCEPT !.gen = FALSE]
  <2>1. who \in Users
    BY <1>0, <1>5 DEF ForcedChange
  <2>2. /\ row \in StatusRow /\ row.user = who
        /\ row.deleted = StatusOf(who).deleted
        /\ row.failed = StatusOf(who).failed
    BY <1>0, <2>1, StatusRowType DEF StatusRow
  <2>3. UpdateRow(who, row)
    BY <1>5 DEF ForcedChange
  <2>4. Barred(who) => row.deleted \/ row.failed
    BY <2>2 DEF Barred
  <2> QED BY <1>0, <2>1, <2>2, <2>3, <2>4, UpdateKeepsBarred
<1>6. ASSUME NEW u \in Users, RegisterSelf(u) PROVE Kept
  <2>1. PICK kind \in {"weak", "generated"} : Register(u, kind, "enrol")
    BY <1>6 DEF RegisterSelf
  <2>2. CASE kind = "generated"
    <3>1. Len(rows') # 1
      BY <2>1 DEF Register, GoTo, TableReplaced
    <3>2. AppendRow([Default(u) EXCEPT !.gen = TRUE])
      BY <2>1, <2>2 DEF Register
    <3> QED BY <1>0, <3>1, <3>2, AppendKeepsBarred, StatusRowType
  <2>3. CASE kind # "generated"
    BY <1>1, <2>1, <2>3 DEF Register
  <2> QED BY <2>2, <2>3
<1>7. CASE \/ LeavePassword \/ RightPassword \/ OtpFailed \/ OtpVerified
           \/ ForcedLeave \/ ForcedSave \/ ChangePassword \/ Logout \/ Enrol
  BY <1>1, <1>7 DEF LeavePassword, RightPassword, OtpFailed, OtpVerified,
     ForcedLeave, ForcedSave, ChangePassword, Logout, Enrol, files
<1>8. CASE AdminLogin \/ Abort \/ Crash \/ Restart \/ UNCHANGED vars
  BY <1>1, <1>8 DEF AdminLogin, Abort, Crash, Restart, files, vars
<1>9. /\ ~AdminLogout /\ ~ResetPassword /\ ~DoneEditing
      /\ \A u \in Users : /\ ~RegisterByAdmin(u) /\ ~ManageUser(u)
                          /\ ~DeleteUser(u) /\ ~RestoreUser(u)
  BY DEF AdminLogout, ResetPassword, DoneEditing, RegisterByAdmin,
     ManageUser, DeleteUser, RestoreUser
<1> QED BY <1>2, <1>3, <1>4, <1>5, <1>6, <1>7, <1>8, <1>9 DEF Next

(* The flags of a deleted or locked account are cleared only by an admin,  *)
(* whatever fails, or lost with the whole table, when a login or a         *)
(* registration could not read it and replaced it.                         *)
THEOREM OnlyAdminUnbarsHolds == Spec => OnlyAdminUnbars
<1>1. TypeOK /\ [Next]_vars =>
          [\A u \in Users : Barred(u) /\ ~Barred(u)'
               => pc \in {"admin", "edit"} \/ TableReplaced]_vars
  BY StepKeepsBarred
<1> QED BY <1>1, AccountsTypeCorrect, PTL DEF Spec, OnlyAdminUnbars

-----------------------------------------------------------------------------
(* Without failures. A user with a status row has an account, or is being  *)
(* registered: so a registration never appends a second row, and a new     *)
(* account is not born locked.                                             *)
RowsBelong ==
    \A u \in Users :
        HasRow(u) => \/ password[u] # "none"
                     \/ pc \in {"enrol", "adminEnrol"} /\ who = u

Unsaved == pc \in {"enrol", "adminEnrol", "forcedSave"} => pending # "none"

InSession == {"password", "otp", "forced", "forcedSave", "menu", "enrol"}

(* Nobody who is barred is logged in; who is asked for the password has a  *)
(* row to be locked.                                                       *)
SessionFree ==
    /\ pc \in InSession => ~Barred(who)
    /\ pc = "password" => HasRow(who)

Clean ==
    /\ torn = {}
    /\ OneRowPerUser /\ RowsBelong /\ Unsaved /\ SessionFree /\ StruckIsLocked

LEMMA CleanUpdate ==
    ASSUME Faults = {}, torn = {}, NEW u, NEW row
    PROVE  /\ UpdateRow(u, row) =>
                 RowUpdated(u, row) \/ (~HasRow(u) /\ UNCHANGED <<rows, torn>>)
           /\ RowNotUpdated(u) => ~HasRow(u) /\ UNCHANGED <<rows, torn>>
BY DEF UpdateRow, RowNotUpdated

LEMMA CleanAppend ==
    ASSUME Faults = {}, torn = {}, NEW row, AppendRow(row)
    PROVE  Extended(rows, row, rows') /\ torn' = {}
BY DEF AppendRow, Extended

LEMMA CleanSave ==
    ASSUME Faults = {}, torn = {}, NEW u, NEW kind, SavePassword(u, kind)
    PROVE  password' = [password EXCEPT ![u] = kind] /\ torn' = {}
BY DEF SavePassword

LEMMA CleanInit ==
    ASSUME Single(FirstRows),
           \A i \in 1 .. Len(FirstRows) : FirstRows[i].user \in Known,
           Init
    PROVE  Clean
<1>1. torn = {} /\ OneRowPerUser /\ Unsaved /\ SessionFree /\ StruckIsLocked
  BY DEF Init, OneRowPerUser, Single, Unsaved, SessionFree, InSession,
     StruckIsLocked
<1>2. RowsBelong
  BY DEF RowsBelong, Init, HasRow
<1> QED BY <1>1, <1>2 DEF Clean

(* Steps that leave the tables alone.                                      *)
LEMMA CleanQuiet ==
    ASSUME Faults = {}, TypeOK, Clean,
           \/ LeavePassword \/ RightPassword \/ OtpFailed \/ OtpVerified
           \/ ForcedLeave \/ Logout \/ AdminLogin \/ AdminLogout
           \/ \E u \in Users : ManageUser(u)
           \/ Abort \/ Crash \/ Restart \/ UNCHANGED vars
    PROVE  Clean'
<1>1. UNCHANGED <<files, struck>>
  BY DEF LeavePassword, RightPassword, OtpFailed, OtpVerified, ForcedLeave,
     Logout, AdminLogin, AdminLogout, ManageUser, Abort, Crash, Restart, vars
<1>2. /\ \A v : (HasRow(v)' <=> HasRow(v)) /\ StatusOf(v)' = StatusOf(v)
      /\ OneRowPerUser'
  BY <1>1, RowsKept DEF files, Clean
<1>3. torn' = {} /\ StruckIsLocked'
  BY <1>1, <1>2 DEF files, Clean, StruckIsLocked
<1>4. /\ pc' \in {"enrol", "adminEnrol", "password", "forcedSave"}
             => UNCHANGED vars
      /\ pc \in {"enrol", "adminEnrol"} => UNCHANGED vars
      /\ pc' \in InSession => pc \in InSession /\ who' = who
  BY DEF LeavePassword, RightPassword, OtpFailed, OtpVerified, ForcedLeave,
     Logout, AdminLogin, AdminLogout, ManageUser, Abort, Crash, Restart,
     Leave, GoTo, InSession, vars, local, Clean
<1>5. RowsBelong'
  BY <1>1, <1>2, <1>4 DEF RowsBelong, files, local, vars, Clean
<1>6. Unsaved'
  BY <1>4 DEF Unsaved, local, vars, Clean
<1>7. SessionFree'
  BY <1>2, <1>4 DEF SessionFree, Barred, local, vars, Clean
<1> QED BY <1>2, <1>3, <1>5, <1>6, <1>7 DEF Clean

(* Steps that write a password.                                            *)
LEMMA CleanPassword ==
    ASSUME Faults = {}, TypeOK, Clean,
           ForcedSave \/ ChangePassword \/ DoneEditing \/ Enrol
    PROVE  Clean'
<1>0. who \in Users /\ torn = {} /\ password \in [Users -> Passwords]
  BY DEF TypeOK, Clean, ForcedSave, ChangePassword, DoneEditing, Enrol
<1>1. UNCHANGED <<rows, struck>>
  BY DEF ForcedSave, ChangePassword, DoneEditing, Enrol
<1>2. /\ \A v : (HasRow(v)' <=> HasRow(v)) /\ StatusOf(v)' = StatusOf(v)
      /\ OneRowPerUser'
  BY <1>1, RowsKept DEF Clean
<1>3. /\ torn' = {}
      /\ \/ password' = password /\ ~Enrol
         \/ \E kind \in Passwords \ {"none"} :
                password' = [password EXCEPT ![who] = kind]
  <2>1. CASE ForcedSave
    BY <1>0, <2>1, CleanSave DEF ForcedSave, Clean, Unsaved, TypeOK
  <2>2. CASE ChangePassword
    BY <1>0, <2>2, CleanSave DEF ChangePassword, Passwords
  <2>3. CASE DoneEditing
    <3>1. ~Enrol
      BY <2>3 DEF DoneEditing, Enrol
    <3> QED BY <1>0, <2>3, <3>1, CleanSave DEF DoneEditing, TypeOK
  <2>4. CASE Enrol
    BY <1>0, <2>4 DEF Enrol, Clean, Unsaved, TypeOK
  <2> QED BY <2>1, <2>2, <2>3, <2>4
<1>4. pc' \in {"home", "admin", "menu"}
  BY DEF ForcedSave, ChangePassword, DoneEditing, Enrol, Leave, GoTo, local
<1>5. RowsBelong'
  <2>1. \A u \in Users : password[u] # "none" => password'[u] # "none"
    BY <1>0, <1>3
  <2>2. pc \in {"enrol", "adminEnrol"} => Enrol
    BY DEF ForcedSave, ChangePassword, DoneEditing
  <2>3. Enrol => password'[who] # "none"
    BY <1>0, <1>3
  <2> QED BY <1>2, <2>1, <2>2, <2>3 DEF RowsBelong, Clean
<1>6. SessionFree'
  <2>1. pc' = "menu" => pc \in InSession /\ who' = who
    BY DEF ForcedSave, ChangePassword, DoneEditing, Enrol, Leave, GoTo,
       local, InSession
  <2> QED BY <1>2, <1>4, <2>1 DEF SessionFree, Barred, InSession, Clean
<1> QED BY <1>1, <1>2, <1>3, <1>4, <1>5, <1>6
           DEF Clean, Unsaved, StruckIsLocked

(* Login and registration: a row for who has none.                         *)
LEMMA CleanLogin ==
    ASSUME Faults = {}, TypeOK, Clean, NEW u \in Users, Login(u)
    PROVE  Clean'
<1>0. /\ rows \in Seq(StatusRow) /\ torn = {} /\ password' = password
      /\ pc = "home" /\ pc' = "password" /\ who' = u /\ struck' = struck
      /\ password[u] # "none"
  BY DEF TypeOK, Clean, Login, GoTo
<1>1. ~Barred(u)
  BY DEF Login, Barred, checkStatus
<1>2. /\ torn' = {} /\ OneRowPerUser'
      /\ \A v \in Users : HasRow(v)' => HasRow(v) \/ v = u
      /\ \A v \in Users : HasRow(v) => StatusOf(v)' = StatusOf(v)
      /\ HasRow(u)' /\ (StatusOf(u)' = StatusOf(u))
  <2>1. CASE HasRow(u)
    BY <1>0, <2>1, RowsKept DEF Login, StatusRead, Clean
  <2>2. CASE ~HasRow(u)
    <3>1. Default(u) \in StatusRow /\ Default(u).user = u
      BY DEF Default, StatusRow
    <3>2. Extended(rows, Default(u), rows') /\ torn' = {}
      BY <1>0, <2>2, CleanAppend DEF Login, StatusRead
    <3> QED BY <1>0, <2>2, <3>1, <3>2, AppendedStep DEF Clean, StatusOf
  <2> QED BY <2>1, <2>2
<1>3. RowsBelong'
  BY <1>0, <1>2 DEF RowsBelong, Clean
<1>4. SessionFree'
  BY <1>0, <1>1, <1>2 DEF SessionFree, Barred
<1>5. StruckIsLocked'
  <2>1. \A v \in struck : v \in Users /\ HasRow(v)
    BY DEF TypeOK, Clean, StruckIsLocked, StatusOf, Default
  <2> QED BY <1>0, <1>2, <2>1 DEF StruckIsLocked, Clean
<1> QED BY <1>0, <1>2, <1>3, <1>4, <1>5 DEF Clean, Unsaved

LEMMA CleanRegister ==
    ASSUME Faults = {}, TypeOK, Clean, NEW u \in Users,
           NEW kind \in {"weak", "generated"},
           NEW next \in {"enrol", "adminEnrol"}, Register(u, kind, next),
           pc \in {"home", "admin"}
    PROVE  Clean'
<1>0. /\ rows \in Seq(StatusRow) /\ torn = {} /\ password' = password
      /\ pc' = next /\ who' = u /\ struck' = struck /\ pending' = kind
      /\ password[u] = "none"
  BY DEF TypeOK, Clean, Register, GoTo
<1>1. ~HasRow(u)
  BY <1>0 DEF Clean, RowsBelong
<1>2. /\ torn' = {} /\ OneRowPerUser'
      /\ \A v \in Users : HasRow(v)' => HasRow(v) \/ v = u
      /\ \A v \in Users : HasRow(v) => StatusOf(v)' = StatusOf(v)
      /\ ~StatusOf(u).failed' /\ ~StatusOf(u).deleted'
  <2>1. CASE kind = "weak"
    <3>1. rows' = rows /\ torn' = torn
      BY <2>1 DEF Register
    <3>2. /\ \A v : (HasRow(v)' <=> HasRow(v)) /\ StatusOf(v)' = StatusOf(v)
          /\ OneRowPerUser'
      BY <3>1, RowsKept DEF Clean
    <3>3. StatusOf(u) = Default(u)
      BY <1>1 DEF StatusOf
    <3> QED BY <1>0, <3>1, <3>2, <3>3 DEF Default
  <2>2. CASE kind = "generated"
    <3> DEFINE row == [Default(u) EXCEPT !.gen = TRUE]
    <3>1. row \in StatusRow /\ row.user = u /\ ~row.failed /\ ~row.deleted
      BY DEF Default, StatusRow
    <3>2. Extended(rows, row, rows') /\ torn' = {}
      BY <1>0, <2>2, CleanAppend DEF Register
    <3> HIDE DEF row
    <3>3. /\ OneRowPerUser'
          /\ \A v \in Users : HasRow(v)' => HasRow(v) \/ v = u
          /\ \A v \in Users : HasRow(v) => StatusOf(v)' = StatusOf(v)
          /\ StatusOf(u)' = row
      BY <1>0, <1>1, <3>1, <3>2, AppendedStep DEF Clean
    <3> QED BY <3>1, <3>2, <3>3
  <2> QED BY <2>1, <2>2
<1>3. RowsBelong'
  BY <1>0, <1>2 DEF RowsBelong, Clean
<1>4. SessionFree'
  BY <1>0, <1>2 DEF SessionFree, Barred
<1>5. StruckIsLocked'
  <2>1. \A v \in struck : v \in Users /\ HasRow(v)
    BY DEF TypeOK, Clean, StruckIsLocked, StatusOf, Default
  <2> QED BY <1>0, <1>2, <2>1 DEF StruckIsLocked, Clean
<1> QED BY <1>0, <1>2, <1>3, <1>4, <1>5 DEF Clean, Unsaved

(* Steps that rewrite a row.                                               *)
LEMMA CleanRow ==
    ASSUME Faults = {}, TypeOK, Clean, NEW u \in Users,
           NEW row \in StatusRow, row.user = u, RowUpdated(u, row),
           password' = password,
           pc \notin {"enrol", "adminEnrol"},
           pc' \notin {"enrol", "adminEnrol", "password"},
           pc' = "forcedSave" => pending' # "none",
           pc' \in InSession => /\ pc \in InSession /\ who' = u /\ who = u
                                /\ ~row.deleted /\ ~row.failed,
           struck' \in {struck, struck \cup {u}, struck \ {u}},
           u \in struck' => row.failed
    PROVE  Clean'
<1>1. /\ torn' = {} /\ OneRowPerUser'
      /\ \A v \in Users : HasRow(v)' <=> HasRow(v)
      /\ StatusOf(u)' = row
      /\ \A v \in Users \ {u} : StatusOf(v)' = StatusOf(v)
  BY RowUpdatedStep DEF TypeOK, Clean
<1>2. RowsBelong'
  BY <1>1 DEF RowsBelong, Clean
<1>3. SessionFree'
  BY <1>1 DEF SessionFree, Barred
<1>4. StruckIsLocked'
  <2> SUFFICES ASSUME NEW v \in struck' PROVE StatusOf(v)'.failed
    BY DEF StruckIsLocked
  <2>1. CASE v = u
    BY <1>1, <2>1
  <2>2. CASE v # u
    BY <1>1, <2>2 DEF Clean, StruckIsLocked, TypeOK
  <2> QED BY <2>1, <2>2
<1> QED BY <1>1, <1>2, <1>3, <1>4 DEF Clean, Unsaved

LEMMA CleanUserRow ==
    ASSUME Faults = {}, TypeOK, Clean,
           WrongPassword \/ DeleteSelf \/ ForcedChange
    PROVE  Clean'
<1>0. /\ who \in Users /\ rows \in Seq(StatusRow) /\ torn = {}
      /\ pc \in InSession /\ ~Barred(who)
  BY DEF TypeOK, Clean, WrongPassword, DeleteSelf, ForcedChange,
     SessionFree, InSession
<1>1. CASE WrongPassword
  <2>1. CASE fails < 2
    <3>1. UNCHANGED <<password, rows, torn, pc, who, pending, struck>>
      BY <1>1, <2>1 DEF WrongPassword
    <3>2. /\ \A v : (HasRow(v)' <=> HasRow(v)) /\ StatusOf(v)' = StatusOf(v)
          /\ OneRowPerUser'
      BY <3>1, RowsKept DEF Clean
    <3> QED BY <3>1, <3>2 DEF Clean, RowsBelong, Unsaved, SessionFree,
               StruckIsLocked, Barred
  <2>2. CASE ~(fails < 2)
    <3> DEFINE row == [StatusOf(who) EXCEPT !.failed = TRUE]
    <3>1. row \in StatusRow /\ row.user = who /\ row.failed
      BY <1>0, StatusRowType DEF StatusRow
    <3>2. RowUpdated(who, row)
      BY <1>0, <1>1, <2>2, CleanUpdate
         DEF WrongPassword, Clean, SessionFree
    <3>3. /\ pc = "password" /\ pc' = "home" /\ password' = password
          /\ struck' = struck \cup {who}
      BY <1>1, <2>2 DEF WrongPassword, Leave, GoTo
    <3> HIDE DEF row
    <3> QED BY <1>0, <3>1, <3>2, <3>3, CleanRow DEF InSession
  <2> QED BY <2>1, <2>2
<1>2. CASE DeleteSelf
  <2> DEFINE row == [StatusOf(who) EXCEPT !.deleted = TRUE]
  <2>1. /\ row \in StatusRow /\ row.user = who
        /\ row.failed = StatusOf(who).failed
    BY <1>0, StatusRowType DEF StatusRow
  <2>2. /\ pc = "menu" /\ pc' = "home" /\ password' = password
        /\ struck' = struck
    BY <1>2 DEF DeleteSelf, Leave, GoTo
  <2>3. who \in struck => row.failed
    BY <2>1 DEF Clean, StruckIsLocked
  <2>4. RowUpdated(who, row) \/ (~HasRow(who) /\ UNCHANGED <<rows, torn>>)
    BY <1>0, <1>2, CleanUpdate DEF DeleteSelf
  <2> HIDE DEF row
  <2>5. CASE RowUpdated(who, row)
    BY <1>0, <2>1, <2>2, <2>3, <2>5, CleanRow DEF InSession
  <2>6. CASE UNCHANGED <<rows, torn>>
    <3>1. /\ \A v : (HasRow(v)' <=> HasRow(v)) /\ StatusOf(v)' = StatusOf(v)
          /\ OneRowPerUser'
      BY <2>6, RowsKept DEF Clean
    <3> QED BY <2>2, <2>6, <3>1 DEF Clean, RowsBelong, Unsaved, SessionFree,
               StruckIsLocked, InSession
  <2> QED BY <2>4, <2>5, <2>6
<1>3. CASE ForcedChange
  <2> DEFINE row == [StatusOf(who) EXCEPT !.gen = FALSE]
  <2>1. /\ row \in StatusRow /\ row.user = who
        /\ row.failed = StatusOf(who).failed
        /\ row.deleted = StatusOf(who).deleted
    BY <1>0, StatusRowType DEF StatusRow
  <2>2. /\ pc = "forced" /\ pc' = "forcedSave" /\ password' = password
        /\ struck' = struck /\ who' = who /\ pending' = "chosen"
    BY <1>3 DEF ForcedChange, GoTo
  <2>3. ~row.deleted /\ ~row.failed /\ who \notin struck
    BY <1>0, <2>1 DEF Barred, Clean, StruckIsLocked
  <2>4. RowUpdated(who, row) \/ (~HasRow(who) /\ UNCHANGED <<rows, torn>>)
    BY <1>0, <1>3, CleanUpdate DEF ForcedChange
  <2> HIDE DEF row
  <2>5. CASE RowUpdated(who, row)
    BY <1>0, <2>1, <2>2, <2>3, <2>5, CleanRow DEF InSession
  <2>6. CASE UNCHANGED <<rows, torn>>
    <3>1. /\ \A v : (HasRow(v)' <=> HasRow(v)) /\ StatusOf(v)' = StatusOf(v)
          /\ OneRowPerUser'
      BY <2>6, RowsKept DEF Clean
    <3> QED BY <1>0, <2>2, <2>6, <3>1 DEF Clean, RowsBelong, Unsaved,
               SessionFree, StruckIsLocked, Barred
  <2> QED BY <2>4, <2>5, <2>6
<1> QED BY <1>1, <1>2, <1>3

LEMMA CleanAdminRow ==
    ASSUME Faults = {}, TypeOK, Clean,
           \/ \E u \in Users : DeleteUser(u) \/ RestoreUser(u)
           \/ ResetPassword
    PROVE  Clean'
<1>0. rows \in Seq(StatusRow) /\ torn = {}
  BY DEF TypeOK, Clean
<1>1. ASSUME NEW u \in Users, DeleteUser(u) PROVE Clean'
  <2> DEFINE row == [StatusOf(u) EXCEPT !.deleted = TRUE]
  <2>1. /\ row \in StatusRow /\ row.user = u
        /\ row.failed = StatusOf(u).failed
    BY <1>0, StatusRowType DEF StatusRow
  <2>2. /\ pc = "admin" /\ pc' = pc /\ password' = password
        /\ struck' = struck
    BY <1>1 DEF DeleteUser, local
  <2>3. u \in struck => row.failed
    BY <2>1 DEF Clean, StruckIsLocked
  <2>4. RowUpdated(u, row)
    BY <1>0, <1>1, CleanUpdate DEF DeleteUser
  <2> HIDE DEF row
  <2> QED BY <1>0, <2>1, <2>2, <2>3, <2>4, CleanRow DEF InSession
<1>2. ASSUME NEW u \in Users, RestoreUser(u) PROVE Clean'
  <2> DEFINE row == [StatusOf(u) EXCEPT !.deleted = FALSE, !.failed = FALSE]
  <2>1. row \in StatusRow /\ row.user = u
    BY <1>0, StatusRowType DEF StatusRow
  <2>2. HasRow(u) /\ pc = "admin" /\ password' = password
    BY <1>2 DEF RestoreUser
  <2>3. ~RowNotUpdated(u)
    BY <1>0, <2>2, CleanUpdate
  <2>4. RowUpdated(u, row) /\ struck' = struck \ {u}
    BY <1>2, <2>3 DEF RestoreUser, Unlocked
  <2>5. pc' \in {"edit", "admin", "down"}
    BY <1>2, <2>2, <2>3 DEF RestoreUser, GoTo, Leave, local
  <2> HIDE DEF row
  <2> QED BY <1>0, <2>1, <2>2, <2>4, <2>5, CleanRow DEF InSession
<1>3. CASE ResetPassword
  <2> DEFINE row == ResetRow(StatusOf(who))
  <2>0. who \in Users
    BY <1>3 DEF ResetPassword, TypeOK
  <2>1. row \in StatusRow /\ row.user = who
    BY <1>0, <2>0, StatusRowType DEF StatusRow, ResetRow
  <2>2. pc = "edit" /\ pc' = pc /\ password' = password
    BY <1>3 DEF ResetPassword
  <2>3. CASE RowUpdated(who, row) /\ Unlocked(who)
    <3>1. struck' = struck \ {who}
      BY <2>3 DEF Unlocked
    <3> HIDE DEF row
    <3> QED BY <1>0, <2>0, <2>1, <2>2, <2>3, <3>1, CleanRow DEF InSession
  <2>4. CASE RowNotUpdated(who) /\ UNCHANGED struck
    <3>1. UNCHANGED <<rows, torn>>
      BY <1>0, <2>4, CleanUpdate
    <3>2. /\ \A v : (HasRow(v)' <=> HasRow(v)) /\ StatusOf(v)' = StatusOf(v)
          /\ OneRowPerUser'
      BY <3>1, RowsKept DEF Clean
    <3> QED BY <2>2, <2>4, <3>1, <3>2 DEF Clean, RowsBelong, Unsaved,
               SessionFree, StruckIsLocked, InSession
  <2> QED BY <1>3, <2>3, <2>4 DEF ResetPassword
<1> QED BY <1>1, <1>2, <1>3

LEMMA CleanStep ==
    ASSUME Faults = {}, TypeOK, Clean, [Next]_vars
    PROVE  Clean'
<1>1. ASSUME NEW u \in Users, RegisterSelf(u) \/ RegisterByAdmin(u)
      PROVE  Clean'
  BY <1>1, CleanRegister DEF RegisterSelf, RegisterByAdmin
<1> QED BY <1>1, CleanQuiet, CleanPassword, CleanLogin, CleanUserRow,
           CleanAdminRow DEF Next

(* A first table with one row per account.                                 *)
FirstRowsFit ==
    /\ Single(FirstRows)
    /\ \A i \in 1 .. Len(FirstRows) : FirstRows[i].user \in Known

LEMMA CleanAlways ==
    ASSUME Faults = {}, FirstRowsFit
    PROVE  Spec => []Clean
<1>1. Init => Clean
  BY CleanInit DEF FirstRowsFit
<1>2. TypeOK /\ Clean /\ [Next]_vars => Clean'
  BY CleanStep
<1> QED BY <1>1, <1>2, AccountsTypeCorrect, PTL DEF Spec

(* When every update succeeds, whoever logs in or uses the menu has an     *)
(* account that is neither deleted nor locked.                             *)
THEOREM SessionNotBarredHolds ==
    ASSUME Faults = {}, FirstRowsFit
    PROVE  Spec => []SessionNotBarred
<1>1. Clean => SessionNotBarred
  BY DEF Clean, SessionFree, SessionNotBarred, InSession
<1> QED BY <1>1, CleanAlways, PTL

(* When every update succeeds, a third wrong password locks the account    *)
(* until an admin resets or restores it.                                   *)
THEOREM StruckIsLockedHolds ==
    ASSUME Faults = {}, FirstRowsFit
    PROVE  Spec => []StruckIsLocked
<1>1. Clean => StruckIsLocked
  BY DEF Clean
<1> QED BY <1>1, CleanAlways, PTL

(* When every update succeeds, no user ever has two status rows.           *)
THEOREM OneRowPerUserHolds ==
    ASSUME Faults = {}, FirstRowsFit
    PROVE  Spec => []OneRowPerUser
<1>1. Clean => OneRowPerUser
  BY DEF Clean
<1> QED BY <1>1, CleanAlways, PTL
=============================================================================
