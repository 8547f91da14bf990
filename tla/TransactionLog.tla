--------------------------- MODULE TransactionLog ---------------------------
(***************************************************************************)
(* ../logs/transaction.log: how transfers and edits of points append their *)
(* lines (logTransaction, logPointEditTransaction in DbUtils.cpp), how the *)
(* file is moved aside when it is large, and what the listings of users    *)
(* and admin find in it (listTransactions, listPointEdits in Menus.cpp).   *)
(*                                                                         *)
(* A line of the file is the sequence of what was written into it: one     *)
(* record, or several when a write stopped short of its newline. Writes    *)
(* are not checked, so that the program goes on after such a write. What   *)
(* the patterns of the listings make of such a line depends on where the   *)
(* writes stopped. User names are taken to have no comma and no bracket.   *)
(***************************************************************************)
EXTENDS Integers, SequencesExt

CONSTANTS Users, Admin,
          Names,          \* full names, of which two users may share one
          FirstName,      \* the names at the start
          Old,            \* the records that are in the file at the start
          Instants,       \* the instants at which lines may be written
          Typed,          \* what may be typed as a date: <<day, month, year>>
          Limit,          \* maxFileSize, in lines
          MayStop,        \* of Stops, those at which a write may stop
          RenameReplaces, \* rename onto an existing file replaces it (POSIX)
          MaxLines,       \* bound: lines written
          MaxCuts,        \* bound: lines cut short
          MaxRenames      \* bound: changes of a full name

Blank == <<>>

LastSecond == 86399   \* 23:59:59

Days == {t.date : t \in Range(Instants)}

(* Where in its line a write may stop:                                     *)
(*   id     - in the id the line begins with                               *)
(*   head   - before the bracket with the sender's user name               *)
(*   user   - in that user name                                            *)
(*   name   - in the sender's full name, before the closing bracket        *)
(*   tail   - after it, in what is fixed or about the receiver             *)
(*   reason - of an edit: behind "Reason:", before the status              *)
(*   end    - in the status, or only the newline is missing                *)
Stops == {"id", "head", "user", "name", "tail", "reason", "end"}

(* What a line says; the amount and the status are left out. An edit of    *)
(* the system wallet is one of the admin by the admin.                     *)
Records ==
    [kind : {"transfer", "edit"}, from : Users \cup {Admin},
     to : Users \cup {Admin}, at : Range(Instants),
     fromName : Names, toName : Names, cut : Stops \cup {"none"}]

ASSUME LogAssumption ==
    /\ Admin \notin Users
    /\ MayStop \subseteq Stops
    /\ Limit \in Nat \ {0}
    /\ RenameReplaces \in BOOLEAN
    /\ MaxLines \in Nat /\ MaxCuts \in Nat /\ MaxRenames \in Nat

ASSUME NameAssumption == FirstName \in [Users \cup {Admin} -> Names]

ASSUME ClockAssumption ==
    /\ Instants # <<>>
    /\ Instants \in Seq([date : Seq(Int), sec : 0 .. LastSecond])

ASSUME DateAssumption == \A d \in Days : Len(d) = 3

(* A day that is over does not come again.                                 *)
ASSUME DayAssumption ==
    \A i, j, k \in DOMAIN Instants :
        i <= k /\ k <= j /\ Instants[i].date = Instants[j].date
            => Instants[k].date = Instants[i].date

ASSUME TypedAssumption == Typed \subseteq Int \X Int \X Int

ASSUME OldAssumption ==
    Old \in Seq(Records) /\ Len(Old) <= MaxLines /\ Len(Old) <= Limit + 1

ASSUME WholeAssumption ==
    \A i \in DOMAIN Old : Old[i].at = Instants[1] /\ Old[i].cut = "none"

VARIABLES log,      \* the lines of transaction.log
          backup,   \* transaction_<date>.log of every day, <<>> if none
          name,     \* the full names of users and admin
          now,      \* the clock, an index of Instants
          written,  \* history: every record written, in order
          moved,    \* history: how many of them a rename has moved
          renames   \* changes of a name so far (bounded)

vars == <<log, backup, name, now, written, moved, renames>>

Init ==
    /\ log = [i \in DOMAIN Old |-> <<Old[i]>>]
    /\ backup = [d \in Days |-> <<>>]
    /\ name = FirstName
    /\ now = 1
    /\ written = Old /\ moved = 0
    /\ renames = 0

Today == Instants[now].date

-----------------------------------------------------------------------------
(* Appending                                                               *)

Record(kind, p, q, cut) ==
    [kind |-> kind, from |-> p, to |-> q, at |-> Instants[now],
     fromName |-> name[p], toName |-> name[q], cut |-> cut]

(* The last line has no newline yet.                                       *)
Unfinished(file) == file # <<>> /\ Last(Last(file)).cut # "none"

AppendTo_TwoNewLines(file, r) == Append(Append(file, <<r>>), <<>>)

AppendTo_NoNewLine(file, r) ==
    IF file # <<>>
      THEN Front(file) \o << Append(Last(file), r) >>
      ELSE Append(file, <<r>>)

AppendTo(file, r) ==
    IF Unfinished(file)
      THEN Front(file) \o << Append(Last(file), r) >>
      ELSE Append(file, <<r>>)

Cuts == Cardinality({i \in DOMAIN written : written[i].cut # "none"})

Written(r) ==
    /\ Len(written) < MaxLines
    /\ r.cut # "none" => Cuts < MaxCuts
    /\ written' = Append(written, r)
    /\ UNCHANGED <<name, now, renames>>

(* A file over the limit is to be renamed into a directory that does not   *)
(* exist; the failure of rename is not noticed and the file grows on.      *)
logTransaction(u, v, cut) ==
    /\ u # v /\ cut # "reason"
    /\ LET r == Record("transfer", u, v, cut)
       IN  Written(r) /\ log' = AppendTo(log, r)
    /\ UNCHANGED <<backup, moved>>

Rotates_Never == FALSE

Rotates_Always == Len(log) > Limit

(* The backup of an edit is named after the day. A second one of that day  *)
(* is refused, or replaces the first, as the platform has it.              *)
Rotates ==
    /\ Len(log) > Limit
    /\ backup[Today] = <<>> \/ RenameReplaces

logPointEditTransaction(t, cut) ==
    LET r == Record("edit", Admin, t, cut)
    IN  /\ Written(r)
        /\ IF Rotates
             THEN /\ backup' = [backup EXCEPT ![Today] = log]
                  /\ log' = AppendTo(<<>>, r)
                  /\ moved' = Len(written)
             ELSE /\ log' = AppendTo(log, r)
                  /\ UNCHANGED <<backup, moved>>

(* A full name that is changed and saved; earlier lines keep the old one.  *)
ChangeName(u, n) ==
    /\ renames < MaxRenames
    /\ n # name[u]
    /\ renames' = renames + 1
    /\ name' = [name EXCEPT ![u] = n]
    /\ UNCHANGED <<log, backup, now, written, moved>>

Tick ==
    /\ now < Len(Instants)
    /\ now' = now + 1
    /\ UNCHANGED <<log, backup, name, written, moved, renames>>

Next ==
    \/ Tick
    \/ \E u \in Users, n \in Names : ChangeName(u, n)
    \/ \E cut \in MayStop \cup {"none"} :
          \/ \E t \in Users \cup {Admin} : logPointEditTransaction(t, cut)
          \/ \E u, v \in Users : logTransaction(u, v, cut)

Spec == Init /\ [][Next]_vars

-----------------------------------------------------------------------------
(* Dates. A stamp is <<year, month, day, second of the day>>; the stamps   *)
(* of the file are compared as strings of fixed width, which is the        *)
(* comparison of these tuples.                                             *)

isLeapYear_NoCentury(year) == year % 4 = 0

isLeapYear(year) ==
    (year % 4 = 0 /\ year % 100 # 0) \/ year % 400 = 0

daysInMonth(year) ==
    <<31, IF isLeapYear(year) THEN 29 ELSE 28, 31, 30, 31, 30,
      31, 31, 30, 31, 30, 31>>

Valid(date) ==
    /\ date[3] \in 1900 .. 2100
    /\ date[2] \in 1 .. 12
    /\ date[1] \in 1 .. daysInMonth(date[3])[date[2]]

convertDateTime_NoEndOfDay(date, isEndOfDay) ==
    IF date # Blank /\ Valid(date)
      THEN <<date[3], date[2], date[1], 0>> ELSE Blank

(* Blank stands for the empty string, for what is not a date too.          *)
convertDateTime(date, isEndOfDay) ==
    IF date # Blank /\ Valid(date)
      THEN <<date[3], date[2], date[1], IF isEndOfDay THEN LastSecond ELSE 0>>
      ELSE Blank

(* s <= t, as the strings compare.                                         *)
NotAfter(s, t) ==
    \/ s = t
    \/ \E i \in 1 .. 4 : s[i] < t[i] /\ \A j \in 1 .. i - 1 : s[j] = t[j]

Stamp(r) == r.at.date \o <<r.at.sec>>

Refused(date) == date # Blank /\ convertDateTime(date, FALSE) = Blank

isWithinTimeRange(r, startDate, endDate) ==
    /\ ~Refused(startDate) /\ ~Refused(endDate)
    /\ startDate # Blank =>
          NotAfter(convertDateTime(startDate, FALSE), Stamp(r))
    /\ endDate # Blank =>
          NotAfter(Stamp(r), convertDateTime(endDate, TRUE))

-----------------------------------------------------------------------------
(* Listings. listTransactions refuses a date it cannot read before it      *)
(* opens the list, listPointEdits shows an empty one: both list nothing.   *)
(* The question of an admin is a full name or "All", which a blank means.  *)

BeforeUser == {"id", "head", "user"}

BeforeName == BeforeUser \cup {"name"}

(* The pattern takes the date and the sender's wallet from the record x: a *)
(* cut id is taken together with the id of the record behind it.           *)
Starts(line, x) ==
    /\ line[x].cut \notin {"id", "head"}
    /\ \A i \in 1 .. x - 1 : line[i].cut = "id"

(* [^,]+ and [^)]+ run on from a cut user name, or a cut full name, to the *)
(* end of the first sender's name that is complete: the receiver is the    *)
(* one of that record, y.                                                  *)
Continues(line, x, y) ==
    /\ x <= y
    /\ line[y].cut \notin BeforeName
    /\ \A i \in x .. y - 1 : line[i].cut \in BeforeName

(* .*? runs on from the reason of an edit to the last status of the line.  *)
Finishes(line, kind, y) ==
    /\ Last(line).kind = kind
    /\ Last(line).cut \in {"end", "none"}
    /\ y = Len(line) \/ (kind = "edit" /\ line[y].cut \in {"reason", "end"})

(* What the pattern of a kind of line reads out of a line: the records it  *)
(* takes the fields from. The first gives date and sender, the last the    *)
(* receiver, and they are one for a line that was written at once.         *)
Reads(line, kind) ==
    {SubSeq(line, xy[1], xy[2]) : xy \in
        {xy \in (DOMAIN line) \X (DOMAIN line) :
            /\ Starts(line, xy[1]) /\ line[xy[1]].kind = kind
            /\ Continues(line, xy[1], xy[2]) /\ line[xy[2]].kind = kind
            /\ Finishes(line, kind, xy[2])}}

(* The full names a reading shows; one that a cut goes through is of       *)
(* nobody.                                                                 *)
NamesOf(reading) ==
    (IF \A i \in 1 .. Len(reading) - 1 : reading[i].cut \in BeforeUser
       THEN {Last(reading).fromName} ELSE {})
      \cup {Last(reading).toName}

About(reading, who) ==
    \/ who = "All"
    \/ who \in Users /\ who \in {reading[1].from, Last(reading).to}
    \/ who \in Names /\ who \in NamesOf(reading)

Shown(line, kind, who, startDate, endDate) ==
    LET hits == {x \in Reads(line, kind) :
                    /\ isWithinTimeRange(x[1], startDate, endDate)
                    /\ About(x, who)}
    IN  IF hits = {} THEN <<>> ELSE <<CHOOSE x \in hits : TRUE>>

Listing(file, kind, who, startDate, endDate) ==
    FlattenSeq([i \in DOMAIN file |->
                   Shown(file[i], kind, who, startDate, endDate)])

listTransactions(file, who, startDate, endDate) ==
    Listing(file, "transfer", who, startDate, endDate)

listPointEdits(file, who, startDate, endDate) ==
    Listing(file, "edit", who, startDate, endDate)

-----------------------------------------------------------------------------
TypeOK ==
    /\ \A i \in DOMAIN log : log[i] # <<>> /\ Range(log[i]) \subseteq Records
    /\ DOMAIN backup = Days
    /\ name \in [Users \cup {Admin} -> Names]
    /\ now \in DOMAIN Instants
    /\ Range(written) \subseteq Records /\ Len(written) <= MaxLines
    /\ moved \in 0 .. Len(written)
    /\ renames \in 0 .. MaxRenames
    /\ Cuts <= MaxCuts

(* The number of a day, by a formula that knows no lengths of months.      *)
DayNumber(d, m, y) ==
    LET march == (m + 9) % 12
        year  == IF m <= 2 THEN y - 1 ELSE y
    IN  365 * year + year \div 4 - year \div 100 + year \div 400
          + (306 * march + 5) \div 10 + d - 1

LengthOf(m, y) ==
    DayNumber(1, IF m = 12 THEN 1 ELSE m + 1, IF m = 12 THEN y + 1 ELSE y)
      - DayNumber(1, m, y)

IsDate(date) ==
    /\ date[3] \in 1900 .. 2100 /\ date[2] \in 1 .. 12
    /\ date[1] \in 1 .. LengthOf(date[2], date[3])

(* The clock shows dates, of years that can be typed.                      *)
ASSUME CalendarAssumption ==
    \A d \in Days : IsDate(<<d[3], d[2], d[1]>>)

Day(date) == DayNumber(date[1], date[2], date[3])

DayOf(r) == DayNumber(r.at.date[3], r.at.date[2], r.at.date[1])

(* What the period from one typed date to another should hold: every line  *)
(* of its days, both of those included.                                    *)
InPeriod(r, startDate, endDate) ==
    /\ startDate # Blank => IsDate(startDate) /\ Day(startDate) <= DayOf(r)
    /\ endDate # Blank => IsDate(endDate) /\ DayOf(r) <= Day(endDate)

(* The record stands in the file, in a line of its own.                    *)
Alone(i) ==
    /\ i > moved
    /\ written[i].cut = "none"
    /\ i = moved + 1 \/ written[i - 1].cut = "none"

Due(i, kind, who, startDate, endDate) ==
    /\ Alone(i)
    /\ written[i].kind = kind
    /\ InPeriod(written[i], startDate, endDate)
    /\ About(<<written[i]>>, who)

Expected(kind, who, startDate, endDate) ==
    FlattenSeq([i \in DOMAIN written |->
        IF Due(i, kind, who, startDate, endDate) THEN << <<written[i]>> >> ELSE <<>>])

(* The file without the lines in which a write stopped short.              *)
Undamaged ==
    [i \in DOMAIN log |->
        IF Len(log[i]) = 1 /\ log[i][1].cut = "none" THEN log[i] ELSE Blank]

(* A reading of records that stand in the file one behind the other        *)
(* because the writes of all but the last of them stopped short.           *)
Consecutive(reading) ==
    \E i \in moved .. Len(written) :
        /\ i + Len(reading) <= Len(written)
        /\ \A j \in 1 .. Len(reading) : reading[j] = written[i + j]
        /\ \A j \in 1 .. Len(reading) - 1 : reading[j].cut # "none"

(* A listing shows a user every transfer of theirs in the period and none  *)
(* of others, and shows the admin the lines of whom the question names, in *)
(* the order of writing, but for the lines in which a write stopped short. *)
(* Such a line may still be shown: then the sender is of one record of the *)
(* file, and the receiver of the same or of one that was written right     *)
(* behind it over writes that stopped short, wherever the file was moved.  *)
ListingExact ==
    LET Exact(kind, who, startDate, endDate) ==
          /\ Listing(Undamaged, kind, who, startDate, endDate)
               = Expected(kind, who, startDate, endDate)
          /\ \A reading \in Range(Listing(log, kind, who, startDate, endDate)) :
                Consecutive(reading)
    IN  /\ \A who \in Users \cup Names :
              /\ Exact("transfer", who, Blank, Blank)
              /\ who \notin Users => Exact("edit", who, Blank, Blank)
        /\ \A startDate, endDate \in Typed \cup {Blank} :
              /\ Exact("transfer", "All", startDate, endDate)
              /\ Exact("edit", "All", startDate, endDate)

(* convertDateTime accepts exactly the dates there are, over all years it  *)
(* admits. (A constant fact, looked at in the first state.)                *)
CalendarExact ==
    written = Old /\ now = 1 /\ renames = 0 =>
        \A y \in 1899 .. 2101, m \in 0 .. 13, d \in 0 .. 32 :
            LET date == <<d, m, y>>
            IN  (convertDateTime(date, TRUE) # Blank) <=> IsDate(date)

(* The backups in the order in which their days came, then the file.       *)
FirstOfDay(i) == \A j \in 1 .. i - 1 : Instants[j].date # Instants[i].date

Kept ==
    FlattenSeq([i \in DOMAIN Instants |->
        IF FirstOfDay(i) THEN FlattenSeq(backup[Instants[i].date]) ELSE <<>>])
      \o FlattenSeq(log)

(* Moving the file aside loses nothing, however often it happens: backups  *)
(* and file together are everything ever written, in order.                *)
HistoryKept == ~RenameReplaces => Kept = written

(* A line of an edit is beyond the limit only where a backup of its day    *)
(* stood in the way: that the file grows without a bound is owed to the    *)
(* lines of transfers.                                                     *)
OnlyTransfersOutgrow ==
    \A i \in DOMAIN log :
        i > Limit + 1 /\ log[i][1].kind = "edit" =>
            backup[log[i][1].at.date] # <<>>
=============================================================================
