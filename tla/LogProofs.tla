------------------------------ MODULE LogProofs ------------------------------
(***************************************************************************)
(* Theorems about TransactionLog, for any users, names, clocks and limits, *)
(* on either platform:                                                     *)
(*   - types, and that only transfers make the file outgrow its limit;     *)
(*   - dates are read as the calendar has them (CalendarCorrect);          *)
(*   - moving the file aside loses no record (HistoryKeptHolds);           *)
(*   - a listing shows what is asked for of the lines written at once, and *)
(*     of damaged ones nothing but neighbours (ListingExactHolds).         *)
(* The last two need what FlattenSeq makes of a sequence that grows, which *)
(* a section of its own proves, by least counterexamples.                  *)
(***************************************************************************)
EXTENDS TransactionLog, SequenceTheorems, FiniteSetTheorems,
        NaturalsInduction, WellFoundedInduction, TLAPS

(* A line has at least one record.                                         *)
Line == Seq(Records) \ {<<>>}

LogTypes ==
    /\ log \in Seq(Line)
    /\ backup \in [Days -> Seq(Line)]
    /\ name \in [Users \cup {Admin} -> Names]
    /\ now \in DOMAIN Instants
    /\ written \in Seq(Records) /\ Len(written) <= MaxLines
    /\ moved \in 0 .. Len(written)
    /\ renames \in 0 .. MaxRenames

(* The records cut short, as a set of numbers that can be counted.         *)
CutRecords(s) == {i \in DOMAIN s : s[i].cut # "none"}

Counted == IsFiniteSet(CutRecords(written)) /\ Cuts <= MaxCuts

(* Appending keeps the lines there are and what each of them begins with.  *)
LEMMA AppendedTo ==
    ASSUME NEW file \in Seq(Line), NEW r \in Records
    PROVE  /\ AppendTo(file, r) \in Seq(Line)
           /\ \/ Len(AppendTo(file, r)) = Len(file)
              \/ Len(AppendTo(file, r)) = Len(file) + 1
           /\ \A i \in 1 .. Len(file) : AppendTo(file, r)[i][1] = file[i][1]
           /\ Len(AppendTo(file, r)) = Len(file) + 1 =>
                 AppendTo(file, r)[Len(file) + 1][1] = r
<1>0. Len(file) \in Nat
  BY LenProperties
<1>1. CASE Unfinished(file)
  <2> DEFINE n == Len(file)
             front == SubSeq(file, 1, n - 1)
             line == Append(file[n], r)
             t == front \o <<line>>
  <2>1. AppendTo(file, r) = t
    BY <1>1 DEF AppendTo, Front, Last
  <2>2. n \in Nat \ {0}
    BY <1>0, <1>1, EmptySeq DEF Unfinished
  <2>3. file[n] \in Line
    BY <2>2, ElementOfSeq
  <2>4. file[n] \in Seq(Records) /\ Len(file[n]) \in Nat \ {0}
    BY <2>3, EmptySeq DEF Line
  <2>5. line \in Line /\ line[1] = file[n][1]
    BY <2>4, AppendProperties DEF Line
  <2>6. \A i \in 1 .. n - 1 : file[i] \in Line
    BY <2>2, ElementOfSeq
  <2>7. /\ front \in Seq(Line) /\ Len(front) = n - 1
        /\ \A i \in 1 .. n - 1 : front[i] = file[i]
    <3>1. 1 \in Int /\ n - 1 \in Int
      BY <2>2
    <3>2. /\ front \in Seq(Line)
          /\ Len(front) = IF 1 <= n - 1 THEN n - 1 - 1 + 1 ELSE 0
          /\ \A i \in 1 .. n - 1 - 1 + 1 : front[i] = file[1 + i - 1]
      BY <2>6, <3>1, SubSeqProperties
    <3> HIDE DEF front, line, t
    <3> HIDE DEF n
    <3>3. n - 1 - 1 + 1 = n - 1 /\ Len(front) = n - 1
      <4>1. /\ n - 1 - 1 + 1 = n - 1
            /\ (IF 1 <= n - 1 THEN n - 1 - 1 + 1 ELSE 0) = n - 1
        BY <2>2
      <4> QED BY <3>2, <4>1, Zenon
    <3>4. ASSUME NEW i \in 1 .. n - 1 PROVE front[i] = file[i]
      <4>1. 1 + i - 1 = i
        OBVIOUS
      <4> QED BY <3>2, <3>3, <4>1, Zenon
    <3> QED BY <3>2, <3>3, <3>4
  <2> HIDE DEF front, line
  <2>8. <<line>> \in Seq(Line) /\ Len(<<line>>) = 1 /\ <<line>>[1] = line
    BY <2>5
  <2>9. /\ t \in Seq(Line)
        /\ Len(t) = Len(front) + Len(<<line>>)
        /\ \A i \in 1 .. Len(front) + Len(<<line>>) :
               t[i] = IF i <= Len(front) THEN front[i]
                                         ELSE <<line>>[i - Len(front)]
    BY <2>7, <2>8, ConcatProperties
  <2> HIDE DEF t
  <2>10. Len(t) = n
    BY <2>2, <2>7, <2>8, <2>9
  <2>11. ASSUME NEW i \in 1 .. n PROVE t[i][1] = file[i][1]
    <3>1. CASE i <= n - 1
      <4>1. t[i] = front[i] /\ front[i] = file[i]
        BY <2>2, <2>7, <2>8, <2>9, <3>1
      <4> QED BY <4>1
    <3>2. CASE i = n
      <4>1. t[i] = <<line>>[1]
        BY <2>2, <2>7, <2>8, <2>9, <3>2
      <4> QED BY <2>5, <2>8, <3>2, <4>1
    <3> QED BY <2>2, <3>1, <3>2
  <2> QED BY <1>0, <2>1, <2>9, <2>10, <2>11
<1>2. CASE ~Unfinished(file)
  <2>1. AppendTo(file, r) = Append(file, <<r>>)
    BY <1>2 DEF AppendTo
  <2>2. <<r>> \in Line /\ <<r>>[1] = r
    BY DEF Line
  <2>3. /\ Append(file, <<r>>) \in Seq(Line)
        /\ Len(Append(file, <<r>>)) = Len(file) + 1
        /\ \A i \in 1 .. Len(file) : Append(file, <<r>>)[i] = file[i]
        /\ Append(file, <<r>>)[Len(file) + 1] = <<r>>
    BY <2>2, AppendProperties
  <2> QED BY <2>1, <2>2, <2>3
<1> QED BY <1>1, <1>2

(* What is recorded is a record, stamped with the day it is.               *)
LEMMA Recorded ==
    ASSUME LogTypes, NEW kind \in {"transfer", "edit"},
           NEW p \in Users \cup {Admin}, NEW q \in Users \cup {Admin},
           NEW cut \in Stops \cup {"none"}
    PROVE  /\ Record(kind, p, q, cut) \in Records
           /\ Record(kind, p, q, cut).kind = kind
           /\ Record(kind, p, q, cut).cut = cut
           /\ Record(kind, p, q, cut).at.date = Today
           /\ Today \in Days
<1>1. Instants[now] \in Range(Instants)
  BY DEF LogTypes, Range
<1>2. name[p] \in Names /\ name[q] \in Names
  BY DEF LogTypes
<1> QED BY <1>1, <1>2 DEF Record, Records, Today, Days

LEMMA WrittenStep ==
    ASSUME LogTypes, Counted, NEW r \in Records, Written(r)
    PROVE  /\ written' \in Seq(Records) /\ Len(written') <= MaxLines
           /\ Len(written') = Len(written) + 1 /\ Len(written) \in Nat
           /\ Counted'
<1>1. /\ written' \in Seq(Records)
      /\ Len(written') = Len(written) + 1 /\ Len(written) \in Nat
      /\ \A i \in 1 .. Len(written) : written'[i] = written[i]
      /\ written'[Len(written) + 1] = r
  BY AppendProperties, LenProperties DEF Written, LogTypes
<1>2. /\ DOMAIN written = 1 .. Len(written)
      /\ DOMAIN written' = 1 .. Len(written) + 1
  BY <1>1, LenProperties DEF LogTypes
<1>3. Len(written') <= MaxLines
  BY <1>1, LogAssumption DEF Written
<1>4. Counted'
  <2>1. /\ Cuts = Cardinality(CutRecords(written))
        /\ Cuts' = Cardinality(CutRecords(written'))
        /\ Counted' <=> /\ IsFiniteSet(CutRecords(written'))
                        /\ Cuts' <= MaxCuts
    BY DEF Cuts, CutRecords, Counted
  <2>2. CASE r.cut # "none"
    <3>1. CutRecords(written') = CutRecords(written) \cup {Len(written) + 1}
      BY <1>1, <1>2, <2>2 DEF CutRecords
    <3>2. Cuts < MaxCuts /\ Cuts \in Nat
      BY <2>1, <2>2, FS_CardinalityType DEF Written, Counted
    <3>3. /\ IsFiniteSet(CutRecords(written) \cup {Len(written) + 1})
          /\ Cardinality(CutRecords(written) \cup {Len(written) + 1})
               \in {Cuts, Cuts + 1}
      BY <2>1, FS_AddElement DEF Counted
    <3> QED BY <2>1, <3>1, <3>2, <3>3, LogAssumption
  <2>3. CASE r.cut = "none"
    <3>1. CutRecords(written') = CutRecords(written)
      BY <1>1, <1>2, <2>3 DEF CutRecords
    <3> QED BY <2>1, <3>1 DEF Counted
  <2> QED BY <2>2, <2>3
<1> QED BY <1>1, <1>3, <1>4

(* The clock has a first instant.                                          *)
LEMMA ClockRuns ==
    Len(Instants) \in Nat \ {0} /\ DOMAIN Instants = 1 .. Len(Instants)
BY ClockAssumption, EmptySeq, LenProperties

(* The functional update of a table keeps its type.                        *)
LEMMA Updated ==
    ASSUME NEW S, NEW T, NEW f \in [S -> T], NEW x, NEW y \in T
    PROVE  [f EXCEPT ![x] = y] \in [S -> T]
OBVIOUS

LEMMA LogInit == Init => LogTypes /\ Counted /\ OnlyTransfersOutgrow
<1> SUFFICES ASSUME Init PROVE LogTypes /\ Counted /\ OnlyTransfersOutgrow
  OBVIOUS
<1>1. DOMAIN Old = 1 .. Len(Old) /\ Len(Old) \in Nat
  BY OldAssumption, LenProperties
<1>2. log \in Seq(Line) /\ Len(log) = Len(Old)
  <2>1. \A i \in 1 .. Len(Old) : <<Old[i]>> \in Line
    BY OldAssumption, ElementOfSeq DEF Line
  <2>2. log = [i \in 1 .. Len(Old) |-> <<Old[i]>>]
    BY <1>1 DEF Init
  <2> QED BY <1>1, <2>1, <2>2, IsASeq
<1>3. LogTypes
  <2>1. <<>> \in Seq(Line)
    BY EmptySeq
  <2>2. 1 \in DOMAIN Instants
    BY ClockRuns
  <2>3. backup \in [Days -> Seq(Line)]
    BY <2>1 DEF Init
  <2>4. name \in [Users \cup {Admin} -> Names]
    BY NameAssumption, Zenon DEF Init
  <2>5. now \in DOMAIN Instants
    BY <2>2 DEF Init
  <2>6. written \in Seq(Records) /\ Len(written) <= MaxLines
    BY OldAssumption, Zenon DEF Init
  <2>7. moved \in 0 .. Len(written) /\ renames \in 0 .. MaxRenames
    <3>1. moved = 0 /\ renames = 0 /\ Len(written) \in Nat
      BY <1>1, Zenon DEF Init
    <3> QED BY <3>1, LogAssumption
  <2> QED BY <1>2, <2>3, <2>4, <2>5, <2>6, <2>7, Zenon DEF LogTypes
<1>4. Counted
  <2>1. CutRecords(written) = {}
    BY WholeAssumption DEF Init, CutRecords
  <2> QED BY <2>1, LogAssumption, FS_EmptySet DEF Counted, Cuts, CutRecords
<1>5. OnlyTransfersOutgrow
  <2>1. DOMAIN log = 1 .. Len(Old)
    BY <1>1 DEF Init
  <2> QED BY <1>1, <2>1, OldAssumption, LogAssumption DEF OnlyTransfersOutgrow
<1> QED BY <1>3, <1>4, <1>5

(* A line of a transfer may come beyond the limit.                         *)
LEMMA TransferStep ==
    ASSUME LogTypes, Counted, OnlyTransfersOutgrow,
           NEW u \in Users, NEW v \in Users, NEW cut \in Stops \cup {"none"},
           logTransaction(u, v, cut)
    PROVE  LogTypes' /\ Counted' /\ OnlyTransfersOutgrow'
<1> DEFINE r == Record("transfer", u, v, cut)
<1>1. r \in Records /\ r.kind = "transfer"
  BY Recorded
<1>2. /\ Written(r) /\ log' = AppendTo(log, r)
      /\ UNCHANGED <<backup, moved, name, now, renames>>
  BY DEF logTransaction, Written
<1> HIDE DEF r
<1>3. /\ written' \in Seq(Records) /\ Len(written') <= MaxLines
      /\ Len(written') = Len(written) + 1 /\ Len(written) \in Nat
      /\ Counted'
  BY <1>1, <1>2, WrittenStep
<1>4. /\ log' \in Seq(Line) /\ log \in Seq(Line)
      /\ Len(log') = Len(log) \/ Len(log') = Len(log) + 1
      /\ \A i \in 1 .. Len(log) : log'[i][1] = log[i][1]
      /\ Len(log') = Len(log) + 1 => log'[Len(log) + 1][1] = r
  BY <1>1, <1>2, AppendedTo DEF LogTypes
<1>5. LogTypes'
  BY <1>2, <1>3, <1>4 DEF LogTypes
<1>6. OnlyTransfersOutgrow'
  <2>1. DOMAIN log = 1 .. Len(log) /\ DOMAIN log' = 1 .. Len(log')
        /\ Len(log) \in Nat
    BY <1>4, LenProperties
  <2> SUFFICES ASSUME NEW i \in DOMAIN log', i > Limit + 1,
                      log'[i][1].kind = "edit"
               PROVE  backup'[log'[i][1].at.date] # <<>>
    BY DEF OnlyTransfersOutgrow
  <2>2. i \in 1 .. Len(log)
    <3>1. i \in Int /\ 1 <= i /\ i <= Len(log')
      BY <2>1
    <3>2. CASE Len(log') = Len(log)
      BY <2>1, <3>1, <3>2
    <3>3. CASE Len(log') = Len(log) + 1
      <4>1. i # Len(log) + 1
        BY <1>1, <1>4, <3>3, Zenon
      <4> QED BY <2>1, <3>1, <3>3, <4>1
    <3> QED BY <1>4, <3>2, <3>3
  <2> QED BY <1>2, <1>4, <2>1, <2>2 DEF OnlyTransfersOutgrow
<1> QED BY <1>3, <1>5, <1>6

(* A line of an edit moves a full file aside, unless a backup is there.    *)
LEMMA EditStep ==
    ASSUME LogTypes, Counted, OnlyTransfersOutgrow,
           NEW u \in Users \cup {Admin}, NEW cut \in Stops \cup {"none"},
           logPointEditTransaction(u, cut)
    PROVE  LogTypes' /\ Counted' /\ OnlyTransfersOutgrow'
<1> DEFINE r == Record("edit", Admin, u, cut)
<1>1. r \in Records /\ r.at.date = Today /\ Today \in Days
  BY Recorded
<1>2. /\ Written(r) /\ UNCHANGED <<name, now, renames>>
      /\ IF Rotates
           THEN /\ backup' = [backup EXCEPT ![Today] = log]
                /\ log' = AppendTo(<<>>, r)
                /\ moved' = Len(written)
           ELSE log' = AppendTo(log, r) /\ UNCHANGED <<backup, moved>>
  BY DEF logPointEditTransaction, Written
<1> HIDE DEF r
<1>3. /\ written' \in Seq(Records) /\ Len(written') <= MaxLines
      /\ Len(written') = Len(written) + 1 /\ Len(written) \in Nat
      /\ Counted'
  BY <1>1, <1>2, WrittenStep
<1>4. /\ log \in Seq(Line) /\ Len(log) \in Nat /\ DOMAIN log = 1 .. Len(log)
      /\ backup \in [Days -> Seq(Line)] /\ Limit \in Nat
  BY LogAssumption, LenProperties DEF LogTypes
<1>5. CASE Rotates
  <2>1. <<>> \in Seq(Line) /\ Len(<<>>) = 0
    BY EmptySeq
  <2>2. log' \in Seq(Line) /\ (Len(log') = 0 \/ Len(log') = 1)
    <3>1. log' = AppendTo(<<>>, r)
      BY <1>2, <1>5
    <3>2. /\ log' \in Seq(Line)
          /\ Len(log') = Len(<<>>) \/ Len(log') = Len(<<>>) + 1
      BY <1>1, <2>1, <3>1, AppendedTo, Zenon
    <3> QED BY <2>1, <3>2
  <2>3. LogTypes'
    <3>1. backup' = [backup EXCEPT ![Today] = log] /\ moved' = Len(written)
      BY <1>2, <1>5
    <3>2. backup' \in [Days -> Seq(Line)]
      BY <1>4, <3>1, Updated, Zenon
    <3>3. moved' \in 0 .. Len(written')
      BY <1>3, <3>1
    <3>4. UNCHANGED <<name, now, renames>>
      BY <1>2
    <3> QED BY <1>3, <2>2, <3>2, <3>3, <3>4, Zenon DEF LogTypes
  <2>4. OnlyTransfersOutgrow'
    <3>1. DOMAIN log' = 1 .. Len(log')
      BY <2>2, LenProperties
    <3>2. \A i \in DOMAIN log' : ~(i > Limit + 1)
      BY <1>4, <2>2, <3>1
    <3> QED BY <3>2 DEF OnlyTransfersOutgrow
  <2> QED BY <1>3, <2>3, <2>4
<1>6. CASE ~Rotates
  <2>1. log' = AppendTo(log, r) /\ backup' = backup /\ moved' = moved
    BY <1>2, <1>6
  <2>2. /\ log' \in Seq(Line)
        /\ Len(log') = Len(log) \/ Len(log') = Len(log) + 1
        /\ \A i \in 1 .. Len(log) : log'[i][1] = log[i][1]
        /\ Len(log') = Len(log) + 1 => log'[Len(log) + 1][1] = r
    BY <1>1, <1>4, <2>1, AppendedTo
  <2>3. LogTypes'
    BY <1>2, <1>3, <2>1, <2>2 DEF LogTypes
  <2>4. OnlyTransfersOutgrow'
    <3>1. DOMAIN log' = 1 .. Len(log')
      BY <2>2, LenProperties
    <3> SUFFICES ASSUME NEW i \in DOMAIN log', i > Limit + 1,
                        log'[i][1].kind = "edit"
                 PROVE  backup'[log'[i][1].at.date] # <<>>
      BY DEF OnlyTransfersOutgrow
    <3>2. CASE i \in 1 .. Len(log)
      BY <1>4, <2>1, <2>2, <3>2 DEF OnlyTransfersOutgrow
    <3>3. CASE i \notin 1 .. Len(log)
      <4>1. i = Len(log) + 1 /\ Len(log') = Len(log) + 1
        <5>1. i \in Int /\ 1 <= i /\ i <= Len(log')
          BY <3>1
        <5> QED BY <1>4, <2>2, <3>3, <5>1
      <4>2. log'[i][1].at.date = Today
        BY <1>1, <2>2, <4>1
      <4>3. Len(log) > Limit
        BY <1>4, <4>1
      <4>4. backup[Today] # <<>>
        BY <1>6, <4>3 DEF Rotates
      <4> QED BY <2>1, <4>2, <4>4
    <3> QED BY <3>2, <3>3
  <2> QED BY <1>3, <2>3, <2>4
<1> QED BY <1>5, <1>6

LEMMA LogStep ==
    LogTypes /\ Counted /\ OnlyTransfersOutgrow /\ [Next]_vars
        => (LogTypes /\ Counted /\ OnlyTransfersOutgrow)'
<1> SUFFICES ASSUME LogTypes, Counted, OnlyTransfersOutgrow, [Next]_vars
             PROVE  LogTypes' /\ Counted' /\ OnlyTransfersOutgrow'
  OBVIOUS
<1>1. ASSUME UNCHANGED <<log, backup, written, moved>>,
             name' \in [Users \cup {Admin} -> Names],
             now' \in DOMAIN Instants, renames' \in 0 .. MaxRenames
      PROVE  LogTypes' /\ Counted' /\ OnlyTransfersOutgrow'
  <2>1. LogTypes'
    BY <1>1, Zenon DEF LogTypes
  <2>2. Counted' /\ OnlyTransfersOutgrow'
    BY <1>1 DEF Counted, Cuts, CutRecords, OnlyTransfersOutgrow
  <2> QED BY <2>1, <2>2
<1>2. CASE Tick
  <2>2. DOMAIN Instants = 1 .. Len(Instants) /\ Len(Instants) \in Nat
    BY ClockRuns
  <2>3. now' \in DOMAIN Instants
    BY <1>2, <2>2 DEF Tick, LogTypes
  <2> QED BY <1>1, <1>2, <2>3 DEF Tick, LogTypes
<1>3. ASSUME NEW u \in Users, NEW n \in Names, ChangeName(u, n)
      PROVE  LogTypes' /\ Counted' /\ OnlyTransfersOutgrow'
  <2>1. /\ name' \in [Users \cup {Admin} -> Names]
        /\ renames' \in 0 .. MaxRenames
    <3>1. renames \in Int /\ renames' = renames + 1 /\ renames < MaxRenames
          /\ 0 <= renames
      BY <1>3 DEF ChangeName, LogTypes
    <3>2. renames' \in 0 .. MaxRenames
      BY <3>1, LogAssumption
    <3>3. name \in [Users \cup {Admin} -> Names]
      BY Zenon DEF LogTypes
    <3>4. name' = [name EXCEPT ![u] = n]
      BY <1>3, Zenon DEF ChangeName
    <3> QED BY <3>2, <3>3, <3>4, Updated, Zenon
  <2> QED BY <1>1, <1>3, <2>1 DEF ChangeName, LogTypes
<1>4. CASE UNCHANGED vars
  BY <1>1, <1>4 DEF vars, LogTypes
<1> QED BY <1>2, <1>3, <1>4, TransferStep, EditStep, LogAssumption
   DEF Next

LEMMA LogAlways == Spec => [](LogTypes /\ Counted /\ OnlyTransfersOutgrow)
<1> QED BY LogInit, LogStep, PTL DEF Spec

(* Every variable keeps its type, however lines are cut and files moved.   *)
THEOREM LogTypeCorrect == Spec => []TypeOK
<1>1. LogTypes /\ Counted => TypeOK
  <2> SUFFICES ASSUME LogTypes, Counted PROVE TypeOK
    OBVIOUS
  <2>1. \A i \in DOMAIN log : log[i] \in Line
    BY ElementOfSeq, LenProperties DEF LogTypes
  <2>2. \A s \in Seq(Records) : Range(s) \subseteq Records
    BY ElementOfSeq, LenProperties DEF Range
  <2> QED BY <2>1, <2>2 DEF LogTypes, Counted, TypeOK, Line
<1> QED BY <1>1, LogAlways, PTL

(* An edit's line comes beyond the limit only where a backup of its day    *)
(* stood in the way, for any limit and on either platform.                 *)
THEOREM OnlyTransfersOutgrowHolds == Spec => []OnlyTransfersOutgrow
<1> QED BY LogAlways, PTL

-----------------------------------------------------------------------------
(* The calendar                                                            *)

(* What the quotients of the leap years add from one year to the next.     *)
LEMMA LeapQuotients ==
    ASSUME NEW y \in Nat, y > 0
    PROVE  /\ y \div 4 - (y - 1) \div 4 = IF y % 4 = 0 THEN 1 ELSE 0
           /\ y \div 100 - (y - 1) \div 100 = IF y % 100 = 0 THEN 1 ELSE 0
           /\ y \div 400 - (y - 1) \div 400 = IF y % 400 = 0 THEN 1 ELSE 0
           /\ y % 100 = 0 => y % 4 = 0
           /\ y % 400 = 0 => y % 100 = 0
<1>1. y \div 4 - (y - 1) \div 4 = IF y % 4 = 0 THEN 1 ELSE 0
  OBVIOUS
<1>2. y \div 100 - (y - 1) \div 100 = IF y % 100 = 0 THEN 1 ELSE 0
  OBVIOUS
<1>3. y \div 400 - (y - 1) \div 400 = IF y % 400 = 0 THEN 1 ELSE 0
  OBVIOUS
<1>4. (y % 100 = 0 => y % 4 = 0) /\ (y % 400 = 0 => y % 100 = 0)
  OBVIOUS
<1> QED BY <1>1, <1>2, <1>3, <1>4

LEMMA FebruaryLength ==
    ASSUME NEW y \in Nat, y > 0
    PROVE  LengthOf(2, y) = IF isLeapYear(y) THEN 29 ELSE 28
<1> DEFINE a == y \div 4
           b == (y - 1) \div 4
           e == y \div 100
           f == (y - 1) \div 100
           g == y \div 400
           h == (y - 1) \div 400
<1>1. /\ a \in Int /\ b \in Int /\ e \in Int /\ f \in Int /\ g \in Int /\ h \in Int
      /\ a - b = IF y % 4 = 0 THEN 1 ELSE 0
      /\ e - f = IF y % 100 = 0 THEN 1 ELSE 0
      /\ g - h = IF y % 400 = 0 THEN 1 ELSE 0
      /\ y % 100 = 0 => y % 4 = 0
      /\ y % 400 = 0 => y % 100 = 0
  BY LeapQuotients
<1>2. LengthOf(2, y) = (365 * y + a - e + g + 0 + 1 - 1)
                         - (365 * (y - 1) + b - f + h + 337 + 1 - 1)
  BY DEF LengthOf, DayNumber
<1> HIDE DEF a, b, e, f, g, h
<1>3. LengthOf(2, y) = 28 + (a - b) - (e - f) + (g - h)
  BY <1>1, <1>2
<1> QED BY <1>1, <1>3 DEF isLeapYear

LEMMA LongMonth ==
    ASSUME NEW y \in Nat, y > 0, NEW m,
           m = 1 \/ m = 3 \/ m = 5 \/ m = 7 \/ m = 8 \/ m = 10 \/ m = 12
    PROVE  LengthOf(m, y) = 31
BY DEF LengthOf, DayNumber

LEMMA ShortMonth ==
    ASSUME NEW y \in Nat, y > 0, NEW m, m = 4 \/ m = 6 \/ m = 9 \/ m = 11
    PROVE  LengthOf(m, y) = 30
BY DEF LengthOf, DayNumber

(* The table of daysInMonth is the calendar of DayNumber.                  *)
LEMMA MonthLengths ==
    ASSUME NEW y \in Nat, y > 0, NEW m \in 1 .. 12
    PROVE  daysInMonth(y)[m] = LengthOf(m, y)
<1>1. \/ m = 1 \/ m = 2 \/ m = 3 \/ m = 4 \/ m = 5 \/ m = 6 \/ m = 7 \/ m = 8
      \/ m = 9 \/ m = 10 \/ m = 11 \/ m = 12
  OBVIOUS
<1>2. CASE m = 1 \/ m = 3 \/ m = 5 \/ m = 7 \/ m = 8 \/ m = 10 \/ m = 12
  BY <1>2, LongMonth DEF daysInMonth
<1>3. CASE m = 4 \/ m = 6 \/ m = 9 \/ m = 11
  BY <1>3, ShortMonth DEF daysInMonth
<1>4. CASE m = 2
  BY <1>4, FebruaryLength DEF daysInMonth
<1> QED BY <1>1, <1>2, <1>3, <1>4

LEMMA ValidIsDate ==
    ASSUME NEW d \in Int, NEW m \in Int, NEW y \in Int
    PROVE  Valid(<<d, m, y>>) <=> IsDate(<<d, m, y>>)
<1>1. y \in 1900 .. 2100 => y \in Nat /\ y > 0
  OBVIOUS
<1> QED BY <1>1, MonthLengths DEF Valid, IsDate

(* convertDateTime accepts the dates there are, of any integers at all.    *)
LEMMA AcceptedIsDate ==
    ASSUME NEW d \in Int, NEW m \in Int, NEW y \in Int
    PROVE  (convertDateTime(<<d, m, y>>, TRUE) # Blank) <=> IsDate(<<d, m, y>>)
<1>1. <<d, m, y>> # Blank /\ \A s : <<y, m, d, s>> # Blank
  BY DEF Blank
<1>2. Valid(<<d, m, y>>) <=> IsDate(<<d, m, y>>)
  BY ValidIsDate
<1>3. (convertDateTime(<<d, m, y>>, TRUE) # Blank) <=> Valid(<<d, m, y>>)
  BY <1>1 DEF convertDateTime
<1> QED BY <1>2, <1>3, Zenon

(* convertDateTime accepts exactly the dates of the calendar: its table of  *)
(* months and its rule of leap years agree with a count of days that knows *)
(* neither.                                                                *)
THEOREM CalendarCorrect == Spec => []CalendarExact
<1> DEFINE Same(d, m, y) ==
             (convertDateTime(<<d, m, y>>, TRUE) # Blank) <=> IsDate(<<d, m, y>>)
<1>1. \A y \in Int, m \in Int, d \in Int : Same(d, m, y)
  BY AcceptedIsDate, Zenon
<1> DEFINE All ==
             written = Old /\ now = 1 /\ renames = 0 =>
                 \A y \in 1899 .. 2101, m \in 0 .. 13, d \in 0 .. 32 : Same(d, m, y)
<1>2. CalendarExact = All
  BY DEF CalendarExact
<1> HIDE DEF Same
<1>3. All
  BY <1>1
<1> HIDE DEF All
<1>4. CalendarExact
  BY <1>2, <1>3
<1> QED BY <1>4, PTL

-----------------------------------------------------------------------------
(* FlattenSeq: its defining equation, its type, and what it makes of a     *)
(* sequence that grows at its end or gets a first nonempty part.           *)

(* A set of natural numbers that is not empty has a least one.             *)
LEMMA LeastIndex ==
    ASSUME NEW T \in SUBSET Nat, T # {}
    PROVE  \E m \in T : \A k \in T : m <= k
<1>1. \E m \in T : \A k \in T : ~(<<k, m>> \in OpToRel(<, Nat))
  BY NatLessThanWellFounded, WFMin
<1>2. \E m \in T : \A k \in T : ~(k < m)
  BY <1>1 DEF OpToRel
<1> QED BY <1>2

(* g joins the parts of s, from the first to the n-th.                     *)
JoinsTo(s, n, g) ==
    g = [i \in 1 .. n |-> IF i = 1 THEN s[i] ELSE g[i - 1] \o s[i]]

(* There is such a g, and only one.                                        *)
LEMMA JoinsToAll ==
    ASSUME NEW s, NEW n \in Nat
    PROVE  \E g : JoinsTo(s, n, g)
<1> DEFINE B == {k \in Nat : ~\E g : JoinsTo(s, k, g)}
<1>1. ASSUME B # {} PROVE FALSE
  <2>1. PICK k \in B : \A j \in B : k <= j
    <3>1. B \in SUBSET Nat
      OBVIOUS
    <3> HIDE DEF B
    <3> QED BY <1>1, <3>1, LeastIndex
  <2>2. k # 0
    <3> SUFFICES ASSUME k = 0 PROVE FALSE
      OBVIOUS
    <3> DEFINE e == [i \in 1 .. 0 |-> <<>>]
    <3>1. JoinsTo(s, 0, e)
      BY DEF JoinsTo
    <3> QED BY <2>1, <3>1
  <2>3. k - 1 \in Nat /\ k \in Nat
    BY <2>1, <2>2
  <2>4. k - 1 \notin B
    <3> HIDE DEF B
    <3> QED BY <2>1, <2>3
  <2>5. PICK g : JoinsTo(s, k - 1, g)
    BY <2>3, <2>4
  <2> DEFINE h == [i \in 1 .. k |-> IF i = 1 THEN s[i] ELSE g[i - 1] \o s[i]]
  <2>6. \A i \in 1 .. k - 1 : h[i] = g[i]
    <3> SUFFICES ASSUME NEW i \in 1 .. k - 1 PROVE h[i] = g[i]
      OBVIOUS
    <3>1. i \in 1 .. k
      BY <2>3
    <3>2. g[i] = IF i = 1 THEN s[i] ELSE g[i - 1] \o s[i]
      BY <2>5 DEF JoinsTo
    <3> QED BY <3>1, <3>2
  <2>7. \A i \in 1 .. k : h[i] = IF i = 1 THEN s[i] ELSE h[i - 1] \o s[i]
    <3> SUFFICES ASSUME NEW i \in 1 .. k PROVE h[i] = IF i = 1 THEN s[i] ELSE h[i - 1] \o s[i]
      OBVIOUS
    <3>1. i # 1 => i - 1 \in 1 .. k - 1
      BY <2>3
    <3>2. h[i] = IF i = 1 THEN s[i] ELSE g[i - 1] \o s[i]
      OBVIOUS
    <3> HIDE DEF h
    <3> QED BY <2>6, <3>1, <3>2
  <2>8. h = [i \in 1 .. k |-> h[i]]
    OBVIOUS
  <2>9. JoinsTo(s, k, h)
    <3> HIDE DEF h
    <3> QED BY <2>7, <2>8 DEF JoinsTo
  <2> QED BY <2>1, <2>9
<1> QED BY <1>1

LEMMA JoinsUnique ==
    ASSUME NEW s, NEW n \in Nat, NEW g, NEW h, JoinsTo(s, n, g), JoinsTo(s, n, h)
    PROVE  g = h
<1> DEFINE B == {i \in 1 .. n : g[i] # h[i]}
<1>1. ASSUME B # {} PROVE FALSE
  <2>1. PICK k \in B : \A j \in B : k <= j
    <3>1. B \in SUBSET Nat
      OBVIOUS
    <3> HIDE DEF B
    <3> QED BY <1>1, <3>1, LeastIndex
  <2>2. k \in 1 .. n /\ k \in Nat
    OBVIOUS
  <2>3. /\ g[k] = IF k = 1 THEN s[k] ELSE g[k - 1] \o s[k]
        /\ h[k] = IF k = 1 THEN s[k] ELSE h[k - 1] \o s[k]
    BY <2>2 DEF JoinsTo
  <2>4. k # 1 => k - 1 \in 1 .. n /\ ~(k <= k - 1)
    BY <2>2
  <2>5. k # 1 => g[k - 1] = h[k - 1]
    BY <2>1, <2>4
  <2> QED BY <2>1, <2>3, <2>5
<1>2. g = [i \in 1 .. n |-> g[i]] /\ h = [i \in 1 .. n |-> h[i]]
  BY DEF JoinsTo
<1> QED BY <1>1, <1>2

(* FlattenSeq returns what has been joined when the last part has.         *)
LEMMA FlattenJoins ==
    ASSUME NEW R, NEW s \in Seq(Seq(R))
    PROVE  \E g : /\ JoinsTo(s, Len(s), g)
                  /\ FlattenSeq(s) = IF Len(s) = 0 THEN <<>> ELSE g[Len(s)]
<1> DEFINE g == CHOOSE h : JoinsTo(s, Len(s), h)
<1>1. Len(s) \in Nat
  BY LenProperties
<1>2. JoinsTo(s, Len(s), g)
  BY <1>1, JoinsToAll
<1>3. Len(s) = 0 => s = <<>>
  BY EmptySeq
<1>4. FlattenSeq(s) = IF Len(s) = 0 THEN s ELSE g[Len(s)]
  BY DEF FlattenSeq, JoinsTo
<1> HIDE DEF g
<1> QED BY <1>2, <1>3, <1>4

(* What the parts are sequences of, g and the whole are sequences of.      *)
LEMMA JoinsType ==
    ASSUME NEW R, NEW s \in Seq(Seq(R)), NEW g, JoinsTo(s, Len(s), g),
           NEW n \in 1 .. Len(s)
    PROVE  /\ s[n] \in Seq(R)
           /\ g[n] \in Seq(R)
           /\ g[n] = IF n = 1 THEN s[n] ELSE g[n - 1] \o s[n]
<1> DEFINE B == {i \in 1 .. Len(s) : g[i] \notin Seq(R)}
<1>0. \A i \in 1 .. Len(s) : s[i] \in Seq(R)
  BY ElementOfSeq
<1>1. ASSUME B # {} PROVE FALSE
  <2>1. PICK k \in B : \A j \in B : k <= j
    <3>1. B \in SUBSET Nat
      OBVIOUS
    <3> HIDE DEF B
    <3> QED BY <1>1, <3>1, LeastIndex
  <2>2. k \in 1 .. Len(s) /\ k \in Nat /\ Len(s) \in Nat
    BY LenProperties
  <2>3. g[k] = IF k = 1 THEN s[k] ELSE g[k - 1] \o s[k]
    BY <2>2 DEF JoinsTo
  <2>4. k # 1 => k - 1 \in 1 .. Len(s) /\ ~(k <= k - 1)
    BY <2>2
  <2>5. k # 1 => g[k - 1] \in Seq(R)
    BY <2>1, <2>4
  <2>6. s[k] \in Seq(R)
    BY <1>0, <2>2
  <2>7. g[k] \in Seq(R)
    BY <2>3, <2>5, <2>6, ConcatProperties
  <2> QED BY <2>1, <2>7
<1>2. g[n] \in Seq(R)
  BY <1>1
<1>3. g[n] = IF n = 1 THEN s[n] ELSE g[n - 1] \o s[n]
  BY DEF JoinsTo
<1> QED BY <1>0, <1>2, <1>3

LEMMA JoinsTypes ==
    ASSUME NEW R, NEW s \in Seq(Seq(R)), NEW g, JoinsTo(s, Len(s), g)
    PROVE  \A i \in 1 .. Len(s) :
               /\ s[i] \in Seq(R) /\ g[i] \in Seq(R)
               /\ g[i] = IF i = 1 THEN s[i] ELSE g[i - 1] \o s[i]
BY JoinsType

LEMMA FlattenType ==
    ASSUME NEW R, NEW s \in Seq(Seq(R))
    PROVE  FlattenSeq(s) \in Seq(R)
<1>1. PICK g : /\ JoinsTo(s, Len(s), g)
               /\ FlattenSeq(s) = IF Len(s) = 0 THEN <<>> ELSE g[Len(s)]
  BY FlattenJoins
<1>2. Len(s) \in Nat
  BY LenProperties
<1>3. CASE Len(s) = 0
  BY <1>1, <1>3, EmptySeq
<1>4. CASE Len(s) # 0
  <2>1. Len(s) \in 1 .. Len(s)
    BY <1>2, <1>4
  <2> QED BY <1>1, <1>4, <2>1, JoinsType
<1> QED BY <1>3, <1>4

LEMMA FlattenNone ==
    FlattenSeq(<<>>) = <<>>
BY DEF FlattenSeq

(* A part more at the end comes at the end.                                *)
LEMMA FlattenAppend ==
    ASSUME NEW R, NEW s \in Seq(Seq(R)), NEW t \in Seq(R)
    PROVE  FlattenSeq(Append(s, t)) = FlattenSeq(s) \o t
<1> DEFINE n == Len(s)
           a == Append(s, t)
<1>1. n \in Nat
  BY LenProperties
<1>2. /\ a \in Seq(Seq(R)) /\ Len(a) = n + 1
      /\ (\A i \in 1 .. n : a[i] = s[i]) /\ a[n + 1] = t
  BY AppendProperties
<1> HIDE DEF a
<1>3. PICK g : /\ JoinsTo(s, n, g)
               /\ FlattenSeq(s) = IF n = 0 THEN <<>> ELSE g[n]
  BY FlattenJoins
<1>4. PICK h : JoinsTo(a, Len(a), h) /\ FlattenSeq(a) = IF Len(a) = 0 THEN <<>> ELSE h[Len(a)]
  BY <1>2, FlattenJoins
<1> HIDE DEF n
<1>5. FlattenSeq(a) = h[n + 1] /\ JoinsTo(a, n + 1, h)
  BY <1>1, <1>2, <1>4
<1>6. h[n + 1] = IF n = 0 THEN t ELSE h[n] \o t
  <2>1. n + 1 \in 1 .. n + 1 /\ (n + 1 = 1 <=> n = 0) /\ n + 1 - 1 = n
    BY <1>1
  <2>2. \A i \in 1 .. n + 1 : h[i] = IF i = 1 THEN a[i] ELSE h[i - 1] \o a[i]
    BY <1>5 DEF JoinsTo
  <2>3. ASSUME NEW k \in 1 .. n + 1, k = n + 1 PROVE h[k] = IF n = 0 THEN t ELSE h[n] \o t
    <3>1. (k = 1 <=> n = 0) /\ k - 1 = n /\ a[k] = t
      BY <1>1, <1>2, <2>3
    <3> QED BY <2>2, <3>1
  <2> QED BY <2>1, <2>3, Zenon
<1>7. JoinsTo(s, n, [i \in 1 .. n |-> h[i]])
  <2> DEFINE f == [i \in 1 .. n |-> h[i]]
  <2>1. \A i \in 1 .. n : f[i] = IF i = 1 THEN s[i] ELSE f[i - 1] \o s[i]
    <3> SUFFICES ASSUME NEW i \in 1 .. n PROVE f[i] = IF i = 1 THEN s[i] ELSE f[i - 1] \o s[i]
      OBVIOUS
    <3>1. i \in 1 .. n + 1 /\ (i # 1 => i - 1 \in 1 .. n) /\ a[i] = s[i]
      BY <1>1, <1>2
    <3>2. h[i] = IF i = 1 THEN a[i] ELSE h[i - 1] \o a[i]
      BY <1>5, <3>1 DEF JoinsTo
    <3>3. f[i] = h[i] /\ (i # 1 => f[i - 1] = h[i - 1])
      BY <3>1
    <3> HIDE DEF f
    <3> QED BY <3>1, <3>2, <3>3
  <2>2. f = [i \in 1 .. n |-> f[i]]
    OBVIOUS
  <2> HIDE DEF f
  <2>3. JoinsTo(s, n, f)
    BY <2>1, <2>2 DEF JoinsTo
  <2> QED BY <2>3 DEF f
<1>8. g = [i \in 1 .. n |-> h[i]]
  BY <1>1, <1>3, <1>7, JoinsUnique
<1>9. CASE n = 0
  BY <1>3, <1>5, <1>6, <1>9, ConcatEmptySeq DEF a
<1>10. CASE n # 0
  <2>1. g[n] = h[n]
    BY <1>1, <1>8, <1>10
  <2> QED BY <1>3, <1>5, <1>6, <1>10, <2>1 DEF a
<1> QED BY <1>9, <1>10

(* Of empty parts nothing comes.                                           *)
LEMMA FlattenEmpty ==
    ASSUME NEW R, NEW s \in Seq(Seq(R)), \A i \in 1 .. Len(s) : s[i] = <<>>
    PROVE  FlattenSeq(s) = <<>>
<1>1. PICK g : /\ JoinsTo(s, Len(s), g)
               /\ FlattenSeq(s) = IF Len(s) = 0 THEN <<>> ELSE g[Len(s)]
  BY FlattenJoins
<1>2. Len(s) \in Nat
  BY LenProperties
<1> DEFINE B == {i \in 1 .. Len(s) : g[i] # <<>>}
<1>3. ASSUME B # {} PROVE FALSE
  <2>1. PICK k \in B : \A j \in B : k <= j
    <3>1. B \in SUBSET Nat
      OBVIOUS
    <3> HIDE DEF B
    <3> QED BY <1>3, <3>1, LeastIndex
  <2>2. k \in 1 .. Len(s) /\ (k # 1 => k - 1 \in 1 .. Len(s) /\ ~(k <= k - 1))
    BY <1>2
  <2>3. s[k] = <<>> /\ g[k] = IF k = 1 THEN s[k] ELSE g[k - 1] \o s[k]
    BY <1>1, <2>2, JoinsType
  <2>4. k # 1 => g[k - 1] = <<>>
    BY <2>1, <2>2
  <2>5. <<>> \o <<>> = <<>>
    BY EmptySeq, ConcatEmptySeq
  <2> QED BY <2>1, <2>3, <2>4, <2>5
<1>4. Len(s) # 0 => g[Len(s)] = <<>>
  BY <1>2, <1>3
<1> QED BY <1>1, <1>4

(* What becomes of one part, behind which all are empty, comes at the end. *)
LEMMA FlattenInsert ==
    ASSUME NEW R, NEW s \in Seq(Seq(R)), NEW t \in Seq(Seq(R)),
           Len(t) = Len(s), NEW k \in 1 .. Len(s), s[k] = <<>>,
           \A i \in 1 .. Len(s) : i < k => t[i] = s[i],
           \A i \in 1 .. Len(s) : i > k => t[i] = <<>> /\ s[i] = <<>>
    PROVE  FlattenSeq(t) = FlattenSeq(s) \o t[k]
<1> DEFINE n == Len(s)
<1>1. n \in Nat /\ k \in 1 .. n /\ n # 0 /\ n \in 1 .. n
  BY LenProperties
<1>2. PICK g : JoinsTo(s, Len(s), g) /\ FlattenSeq(s) = g[n]
  BY <1>1, FlattenJoins
<1>3. PICK h : JoinsTo(t, Len(t), h) /\ FlattenSeq(t) = h[n]
  BY <1>1, FlattenJoins
<1>4. \A i \in 1 .. n : /\ s[i] \in Seq(R) /\ g[i] \in Seq(R)
                        /\ t[i] \in Seq(R) /\ h[i] \in Seq(R)
                        /\ g[i] = IF i = 1 THEN s[i] ELSE g[i - 1] \o s[i]
                        /\ h[i] = IF i = 1 THEN t[i] ELSE h[i - 1] \o t[i]
  <2>1. \A i \in 1 .. Len(s) : /\ s[i] \in Seq(R) /\ g[i] \in Seq(R)
                               /\ g[i] = IF i = 1 THEN s[i] ELSE g[i - 1] \o s[i]
    <3>1. JoinsTo(s, Len(s), g) /\ s \in Seq(Seq(R))
      BY <1>2
    <3> HIDE DEF n
    <3> QED BY ONLY <3>1, JoinsTypes
  <2>2. \A i \in 1 .. Len(t) : /\ t[i] \in Seq(R) /\ h[i] \in Seq(R)
                               /\ h[i] = IF i = 1 THEN t[i] ELSE h[i - 1] \o t[i]
    <3>1. JoinsTo(t, Len(t), h) /\ t \in Seq(Seq(R))
      BY <1>3
    <3> HIDE DEF n
    <3> QED BY ONLY <3>1, JoinsTypes
  <2> QED BY <2>1, <2>2
<1>0. /\ \A i \in 1 .. n : i < k => t[i] = s[i]
      /\ \A i \in 1 .. n : i > k => t[i] = <<>> /\ s[i] = <<>>
      /\ s[k] = <<>>
      /\ ~(n < k)
  BY <1>1
<1>5. \A x \in Seq(R) : x \o <<>> = x /\ <<>> \o x = x
  BY ConcatEmptySeq
<1>6. t[k] \in Seq(R)
  BY <1>1, <1>4
<1> HIDE DEF n
<1> DEFINE B == {i \in 1 .. n : h[i] # IF i < k THEN g[i] ELSE g[i] \o t[k]}
<1>7. ASSUME B # {} PROVE FALSE
  <2>1. PICK m \in B : \A j \in B : m <= j
    <3>1. B \in SUBSET Nat
      OBVIOUS
    <3> HIDE DEF B
    <3> QED BY <1>7, <3>1, LeastIndex
  <2>2. /\ m \in 1 .. n /\ m \in Nat /\ k \in Nat
        /\ m # 1 => m - 1 \in 1 .. n /\ ~(m <= m - 1)
    BY <1>1
  <2>3. m # 1 => h[m - 1] = IF m - 1 < k THEN g[m - 1] ELSE g[m - 1] \o t[k]
    BY <2>1, <2>2
  <2>4. /\ s[m] \in Seq(R) /\ t[m] \in Seq(R)
        /\ g[m] = IF m = 1 THEN s[m] ELSE g[m - 1] \o s[m]
        /\ h[m] = IF m = 1 THEN t[m] ELSE h[m - 1] \o t[m]
        /\ m # 1 => g[m - 1] \in Seq(R) /\ h[m - 1] \in Seq(R)
    BY <1>4, <2>2
  <2>5. CASE m < k
    <3>1. t[m] = s[m] /\ (m # 1 => m - 1 < k)
      BY <1>0, <2>2, <2>5
    <3>2. h[m] = g[m]
      BY <2>3, <2>4, <3>1, Zenon
    <3> QED BY <2>1, <2>5, <3>2
  <2>6. CASE m = k
    <3>1. m # 1 => m - 1 < k
      BY <2>2, <2>6
    <3>2. m # 1 => h[m - 1] = g[m - 1] /\ g[m] = g[m - 1]
      BY <1>0, <1>5, <2>3, <2>4, <2>6, <3>1
    <3>3. h[m] = g[m] \o t[k]
      <4>1. CASE m = 1
        <5>1. g[m] = <<>> /\ h[m] = t[k]
          BY <1>0, <2>4, <2>6, <4>1
        <5> QED BY <1>5, <1>6, <5>1
      <4>2. CASE m # 1
        BY <2>4, <2>6, <3>2, <4>2
      <4> QED BY <4>1, <4>2
    <3>4. ~(m < k)
      BY <2>2, <2>6
    <3> QED BY <2>1, <3>3, <3>4
  <2>7. CASE m > k
    <3>0. m # 1 /\ ~(m - 1 < k) /\ ~(m < k)
      BY <1>1, <2>2, <2>7
    <3>1. t[m] = <<>> /\ s[m] = <<>>
      BY <1>0, <2>2, <2>7
    <3>2. g[m] = g[m - 1] /\ h[m] = h[m - 1]
      BY <1>5, <2>4, <3>0, <3>1
    <3> QED BY <2>1, <2>3, <3>0, <3>2
  <2> QED BY <2>2, <2>5, <2>6, <2>7
<1>8. h[n] = IF n < k THEN g[n] ELSE g[n] \o t[k]
  BY <1>1, <1>7
<1> QED BY <1>0, <1>2, <1>3, <1>8

(* Parts of one element each.                                              *)
LEMMA FlattenSingletons ==
    ASSUME NEW R, NEW s \in Seq(Seq(R)), NEW o \in Seq(R), Len(s) = Len(o),
           \A i \in 1 .. Len(o) : s[i] = <<o[i]>>
    PROVE  FlattenSeq(s) = o
<1>1. PICK g : /\ JoinsTo(s, Len(s), g)
               /\ FlattenSeq(s) = IF Len(s) = 0 THEN <<>> ELSE g[Len(s)]
  BY FlattenJoins
<1>2. Len(s) \in Nat
  BY LenProperties
<1> DEFINE B == {i \in 1 .. Len(s) : g[i] # SubSeq(o, 1, i)}
<1>3. ASSUME B # {} PROVE FALSE
  <2>1. PICK k \in B : \A j \in B : k <= j
    <3>1. B \in SUBSET Nat
      OBVIOUS
    <3> HIDE DEF B
    <3> QED BY <1>3, <3>1, LeastIndex
  <2>2. k \in 1 .. Len(s) /\ (k # 1 => k - 1 \in 1 .. Len(s) /\ ~(k <= k - 1))
    BY <1>2
  <2>3. s[k] = <<o[k]>> /\ g[k] = IF k = 1 THEN s[k] ELSE g[k - 1] \o s[k]
    BY <1>1, <2>2, JoinsType
  <2>4. k # 1 => g[k - 1] = SubSeq(o, 1, k - 1)
    BY <2>1, <2>2
  <2>5. 1 \in 1 .. Len(o) /\ k \in 1 .. Len(o)
    BY <1>2, <2>2
  <2>6. SubSeq(o, 1, k) = SubSeq(o, 1, k - 1) \o <<o[k]>>
    BY <2>5, SubSeqRecursiveSecond
  <2>7. k = 1 => SubSeq(o, 1, k - 1) = <<>>
    BY SubSeqEmpty
  <2>8. <<o[k]>> \in Seq(R)
    BY <2>3, <2>2, ElementOfSeq
  <2>9. <<>> \o <<o[k]>> = <<o[k]>>
    BY <2>8, ConcatEmptySeq
  <2>10. g[k] = SubSeq(o, 1, k)
    <3>1. CASE k = 1
      <4>1. g[k] = <<o[k]>>
        BY <2>3, <3>1
      <4> QED BY <2>6, <2>7, <2>9, <3>1, <4>1, Zenon
    <3>2. CASE k # 1
      BY <2>3, <2>4, <2>6, <3>2
    <3> QED BY <3>1, <3>2
  <2> QED BY <2>1, <2>10
<1>4. Len(s) # 0 => g[Len(s)] = SubSeq(o, 1, Len(o))
  <2>1. Len(s) # 0 => Len(s) \in 1 .. Len(s)
    BY <1>2
  <2> QED BY <1>3, <2>1
<1>5. SubSeq(o, 1, Len(o)) = o /\ (Len(o) = 0 => o = <<>>)
  BY SubSeqFull, EmptySeq
<1> QED BY <1>1, <1>4, <1>5

-----------------------------------------------------------------------------
(* The history of the file                                                 *)

(* The parts of the history: the backups, in the order of their days.      *)
PartsOf(b) ==
    [i \in DOMAIN Instants |->
        IF FirstOfDay(i) THEN FlattenSeq(b[Instants[i].date]) ELSE <<>>]

(* Last and Front undo Append.                                             *)
LEMMA LastAndFront ==
    ASSUME NEW R, NEW front \in Seq(R), NEW line \in R
    PROVE  /\ Last(Append(front, line)) = line
           /\ Front(Append(front, line)) = front
<1> DEFINE a == Append(front, line)
           n == Len(front)
           f == SubSeq(a, 1, n)
<1>1. /\ a \in Seq(R) /\ Len(a) = n + 1 /\ n \in Nat /\ a[n + 1] = line
      /\ \A i \in 1 .. n : a[i] = front[i]
  BY AppendProperties, LenProperties
<1>2. Last(a) = line
  BY <1>1 DEF Last
<1>3. Front(a) = f
  BY <1>1 DEF Front
<1>4. \A i \in 1 .. n : a[i] \in R
  BY <1>1, ElementOfSeq
<1> HIDE DEF a
<1> HIDE DEF n
<1>5. 1 \in Int /\ n \in Int /\ n - 1 + 1 = n
  BY <1>1
<1>6. /\ f \in Seq(R)
      /\ Len(f) = IF 1 <= n THEN n - 1 + 1 ELSE 0
      /\ \A i \in 1 .. n - 1 + 1 : f[i] = a[1 + i - 1]
  BY <1>4, <1>5, SubSeqProperties
<1> HIDE DEF f
<1>7. Len(f) = n
  BY <1>1, <1>6
<1>8. \A i \in 1 .. n : f[i] = front[i]
  <2> SUFFICES ASSUME NEW i \in 1 .. n PROVE f[i] = front[i]
    OBVIOUS
  <2>1. 1 + i - 1 = i
    OBVIOUS
  <2> QED BY <1>1, <1>5, <1>6, <2>1, Zenon
<1>9. f = front
  <2>1. Len(f) = Len(front) /\ \A i \in 1 .. Len(f) : f[i] = front[i]
    BY <1>7, <1>8 DEF n
  <2> QED BY <1>6, <2>1, SeqEqual
<1> QED BY <1>2, <1>3, <1>9 DEF a

(* Appending a record to the file appends it to what the file holds.       *)
LEMMA AppendToFlat ==
    ASSUME NEW file \in Seq(Line), NEW r \in Records
    PROVE  /\ file \in Seq(Seq(Records))
           /\ FlattenSeq(file) \in Seq(Records)
           /\ FlattenSeq(AppendTo(file, r)) = FlattenSeq(file) \o <<r>>
<1>1. file \in Seq(Seq(Records))
  BY SeqMonotonic DEF Line
<1>2. FlattenSeq(file) \in Seq(Records)
  BY <1>1, FlattenType
<1>3. <<r>> \in Seq(Records)
  OBVIOUS
<1>4. CASE ~Unfinished(file)
  <2>1. AppendTo(file, r) = Append(file, <<r>>)
    BY <1>4 DEF AppendTo
  <2> QED BY <1>1, <1>2, <1>3, <2>1, FlattenAppend
<1>5. CASE Unfinished(file)
  <2>1. PICK front \in Seq(Seq(Records)), line \in Seq(Records) : file = Append(front, line)
    BY <1>1, <1>5, SequenceEmptyOrAppend DEF Unfinished
  <2>2. Last(file) = line /\ Front(file) = front
    BY <2>1, LastAndFront
  <2>3. Append(line, r) \in Seq(Records) /\ Append(line, r) = line \o <<r>>
    BY <2>1, AppendProperties, AppendIsConcat
  <2>4. AppendTo(file, r) = Append(front, Append(line, r))
    <3>1. AppendTo(file, r) = front \o <<Append(line, r)>>
      BY <1>5, <2>2, Zenon DEF AppendTo
    <3> QED BY <2>3, <3>1, AppendIsConcat
  <2>5. FlattenSeq(AppendTo(file, r)) = FlattenSeq(front) \o (line \o <<r>>)
    BY <2>3, <2>4, FlattenAppend
  <2>6. FlattenSeq(file) = FlattenSeq(front) \o line
    BY <2>1, FlattenAppend
  <2>7. FlattenSeq(front) \in Seq(Records)
    BY FlattenType
  <2>8. (FlattenSeq(front) \o line) \o <<r>> = FlattenSeq(front) \o (line \o <<r>>)
    BY <1>3, <2>7, ConcatAssociative
  <2> QED BY <1>1, <1>2, <2>5, <2>6, <2>8
<1> QED BY <1>4, <1>5

LEMMA PartsType ==
    ASSUME NEW b \in [Days -> Seq(Line)]
    PROVE  /\ PartsOf(b) \in Seq(Seq(Records))
           /\ Len(PartsOf(b)) = Len(Instants)
           /\ FlattenSeq(PartsOf(b)) \in Seq(Records)
           /\ \A i \in 1 .. Len(Instants) :
                PartsOf(b)[i] = IF FirstOfDay(i)
                                  THEN FlattenSeq(b[Instants[i].date]) ELSE <<>>
<1> DEFINE n == Len(Instants)
           e(i) == IF FirstOfDay(i) THEN FlattenSeq(b[Instants[i].date]) ELSE <<>>
<1>1. n \in Nat /\ DOMAIN Instants = 1 .. n
  BY ClockRuns
<1>2. \A i \in 1 .. n : e(i) \in Seq(Records)
  <2> SUFFICES ASSUME NEW i \in 1 .. n PROVE e(i) \in Seq(Records)
    OBVIOUS
  <2>1. Instants[i].date \in Days
    BY <1>1 DEF Days, Range
  <2>2. b[Instants[i].date] \in Seq(Seq(Records))
    BY <2>1, SeqMonotonic DEF Line
  <2>3. FlattenSeq(b[Instants[i].date]) \in Seq(Records)
    BY <2>2, FlattenType
  <2> QED BY <2>3, EmptySeq
<1>3. PartsOf(b) = [i \in 1 .. n |-> e(i)]
  BY <1>1 DEF PartsOf
<1> HIDE DEF e
<1> HIDE DEF n
<1>4. /\ [i \in 1 .. n |-> e(i)] \in Seq(Seq(Records))
      /\ Len([i \in 1 .. n |-> e(i)]) = n
      /\ \A i \in 1 .. n : [j \in 1 .. n |-> e(j)][i] = e(i)
  BY <1>1, <1>2, IsASeq
<1>5. FlattenSeq([i \in 1 .. n |-> e(i)]) \in Seq(Records)
  BY <1>4, FlattenType
<1> QED BY <1>3, <1>4, <1>5 DEF e, n

(* A backup is of a day that has come.                                     *)
BackupsOfPast ==
    \A d \in Days : backup[d] # <<>> => \E j \in 1 .. now : Instants[j].date = d

LEMMA KeptIs == Kept = FlattenSeq(PartsOf(backup)) \o FlattenSeq(log)
BY DEF Kept, PartsOf

(* The file becomes the last of the nonempty parts: days do not return.    *)
LEMMA PartsAfterRotation ==
    ASSUME LogTypes, BackupsOfPast, backup[Today] = <<>>
    PROVE  FlattenSeq(PartsOf([backup EXCEPT ![Today] = log]))
             = FlattenSeq(PartsOf(backup)) \o FlattenSeq(log)
<1> DEFINE n == Len(Instants)
           b == [backup EXCEPT ![Today] = log]
           s == PartsOf(backup)
           t == PartsOf(b)
           B == {i \in 1 .. n : Instants[i].date = Today}
<1>1. n \in Nat /\ DOMAIN Instants = 1 .. n /\ now \in 1 .. n
  BY ClockRuns DEF LogTypes
<1>2. backup \in [Days -> Seq(Line)] /\ log \in Seq(Line) /\ Today \in Days
  BY <1>1 DEF LogTypes, Today, Days, Range
<1>3. /\ b \in [Days -> Seq(Line)] /\ b[Today] = log
      /\ \A d \in Days : d # Today => b[d] = backup[d]
  BY <1>2
<1>4. PICK k \in B : \A j \in B : k <= j
  <2>1. now \in B
    BY <1>1 DEF Today
  <2>2. B \in SUBSET Nat
    OBVIOUS
  <2> HIDE DEF B
  <2> QED BY <2>1, <2>2, LeastIndex
<1>5. k \in 1 .. n /\ Instants[k].date = Today /\ k <= now
  BY <1>1, <1>4 DEF Today
<1>6. FirstOfDay(k)
  <2> SUFFICES ASSUME NEW j \in 1 .. k - 1, Instants[j].date = Instants[k].date
               PROVE  FALSE
    BY DEF FirstOfDay
  <2>1. j \in B /\ ~(k <= j)
    BY <1>1, <1>5
  <2> QED BY <1>4, <2>1
<1>7. ASSUME NEW i \in 1 .. n, FirstOfDay(i), i # k
      PROVE  Instants[i].date # Today /\ Instants[i].date \in Days
  <2>1. Instants[i].date \in Days
    BY <1>1 DEF Days, Range
  <2>2. ASSUME Instants[i].date = Today PROVE FALSE
    <3>1. k <= i
      BY <1>4, <2>2
    <3>2. k \in 1 .. i - 1
      BY <1>5, <1>7, <3>1
    <3> QED BY <1>5, <1>7, <2>2, <3>2 DEF FirstOfDay
  <2> QED BY <2>1, <2>2
<1>8. /\ s \in Seq(Seq(Records)) /\ Len(s) = n
      /\ \A i \in 1 .. n :
            s[i] = IF FirstOfDay(i) THEN FlattenSeq(backup[Instants[i].date]) ELSE <<>>
  BY <1>2, PartsType
<1>9. /\ t \in Seq(Seq(Records)) /\ Len(t) = n
      /\ \A i \in 1 .. n :
            t[i] = IF FirstOfDay(i) THEN FlattenSeq(b[Instants[i].date]) ELSE <<>>
  BY <1>3, PartsType
<1> HIDE DEF s, t, b, B
<1> HIDE DEF n
<1>10. s[k] = <<>> /\ t[k] = FlattenSeq(log)
  BY <1>3, <1>5, <1>6, <1>8, <1>9, FlattenNone
<1>11. ASSUME NEW i \in 1 .. n, i # k PROVE t[i] = s[i]
  <2>1. CASE FirstOfDay(i)
    <3>1. b[Instants[i].date] = backup[Instants[i].date]
      BY <1>3, <1>7, <1>11, <2>1
    <3> QED BY <1>8, <1>9, <2>1, <3>1
  <2> QED BY <1>8, <1>9, <2>1
<1>12. ASSUME NEW i \in 1 .. n, i > k PROVE s[i] = <<>>
  <2>1. CASE ~FirstOfDay(i)
    BY <1>8, <2>1
  <2>2. CASE FirstOfDay(i)
    <3> DEFINE d == Instants[i].date
    <3>1. d \in Days /\ i # k
      BY <1>5, <1>7, <1>12, <2>2
    <3>2. ASSUME backup[d] # <<>> PROVE FALSE
      <4>1. PICK j \in 1 .. now : Instants[j].date = d
        BY <3>1, <3>2 DEF BackupsOfPast
      <4>2. i <= j
        <5>1. ASSUME ~(i <= j) PROVE FALSE
          <6>1. j \in 1 .. i - 1
            BY <1>1, <5>1
          <6> QED BY <2>2, <4>1, <6>1 DEF FirstOfDay
        <5> QED BY <5>1
      <4>3. k <= i /\ i <= now
        BY <1>1, <1>5, <1>12, <4>2
      <4>4. d = Instants[k].date
        <5>1. Instants[k].date = Instants[now].date
          BY <1>5 DEF Today
        <5>2. k \in DOMAIN Instants /\ i \in DOMAIN Instants /\ now \in DOMAIN Instants
          BY <1>1, <1>5
        <5> QED BY <4>3, <5>1, <5>2, DayAssumption
      <4>5. k \in 1 .. i - 1
        BY <1>5, <1>12
      <4> QED BY <2>2, <4>4, <4>5 DEF FirstOfDay
    <3>3. FlattenSeq(backup[d]) = <<>>
      BY <3>2, FlattenNone
    <3> QED BY <1>8, <2>2, <3>3
  <2> QED BY <2>1, <2>2
<1>13. \A i \in 1 .. Len(s) : i < k => t[i] = s[i]
  BY <1>5, <1>8, <1>11
<1>14. \A i \in 1 .. Len(s) : i > k => t[i] = <<>> /\ s[i] = <<>>
  BY <1>5, <1>8, <1>11, <1>12
<1>15. k \in 1 .. Len(s) /\ Len(t) = Len(s)
  BY <1>5, <1>8, <1>9
<1>16. FlattenSeq(t) = FlattenSeq(s) \o t[k]
  BY <1>8, <1>9, <1>10, <1>13, <1>14, <1>15, FlattenInsert
<1> QED BY <1>10, <1>16 DEF s, t, b

History == BackupsOfPast /\ HistoryKept

LEMMA HistoryInit == Init => History
<1> SUFFICES ASSUME Init PROVE History
  OBVIOUS
<1>1. LogTypes
  BY LogInit
<1>2. \A d \in Days : backup[d] = <<>>
  BY DEF Init
<1>3. FlattenSeq(PartsOf(backup)) = <<>>
  <2>1. /\ PartsOf(backup) \in Seq(Seq(Records))
        /\ Len(PartsOf(backup)) = Len(Instants)
        /\ \A i \in 1 .. Len(Instants) :
             PartsOf(backup)[i] = IF FirstOfDay(i)
                THEN FlattenSeq(backup[Instants[i].date]) ELSE <<>>
    BY <1>1, PartsType DEF LogTypes
  <2>2. \A i \in 1 .. Len(Instants) : Instants[i].date \in Days
    BY ClockRuns DEF Days, Range
  <2>3. \A i \in 1 .. Len(PartsOf(backup)) : PartsOf(backup)[i] = <<>>
    BY <1>2, <2>1, <2>2, FlattenNone
  <2> QED BY <2>1, <2>3, FlattenEmpty
<1>4. FlattenSeq(log) = Old
  <2>1. DOMAIN Old = 1 .. Len(Old) /\ Len(Old) \in Nat /\ Old \in Seq(Records)
    BY OldAssumption, LenProperties
  <2>2. /\ log \in Seq(Seq(Records)) /\ Len(log) = Len(Old)
        /\ \A i \in 1 .. Len(Old) : log[i] = <<Old[i]>>
    <3>1. log \in Seq(Seq(Records))
      BY <1>1, SeqMonotonic DEF LogTypes, Line
    <3>2. log = [i \in 1 .. Len(Old) |-> <<Old[i]>>]
      BY <2>1 DEF Init
    <3> QED BY <2>1, <3>1, <3>2
  <2> QED BY <2>1, <2>2, FlattenSingletons
<1>5. <<>> \o Old = Old
  BY OldAssumption, ConcatEmptySeq
<1>6. written = Old
  BY DEF Init
<1>7. HistoryKept
  BY <1>3, <1>4, <1>5, <1>6, KeptIs DEF HistoryKept
<1> QED BY <1>2, <1>7 DEF History, BackupsOfPast

(* A record at the end of the file is one at the end of the history.       *)
LEMMA HistoryAppend ==
    ASSUME LogTypes, HistoryKept, NEW r \in Records,
           written' = Append(written, r), log' = AppendTo(log, r),
           backup' = backup
    PROVE  HistoryKept'
<1> SUFFICES ASSUME ~RenameReplaces PROVE Kept' = written'
  BY DEF HistoryKept
<1> DEFINE p == FlattenSeq(PartsOf(backup))
           f == FlattenSeq(log)
<1>1. p \in Seq(Records)
  BY PartsType DEF LogTypes
<1>2. f \in Seq(Records) /\ FlattenSeq(log') = f \o <<r>>
  BY AppendToFlat DEF LogTypes
<1>3. Kept' = p \o FlattenSeq(log')
  BY DEF Kept, PartsOf
<1>4. written = p \o f
  BY KeptIs DEF HistoryKept
<1>5. Append(written, r) = written \o <<r>>
  BY AppendIsConcat DEF LogTypes
<1>6. <<r>> \in Seq(Records)
  OBVIOUS
<1> HIDE DEF p, f
<1>7. (p \o f) \o <<r>> = p \o (f \o <<r>>)
  BY <1>1, <1>2, <1>6, ConcatAssociative
<1> QED BY <1>2, <1>3, <1>4, <1>5, <1>7

LEMMA HistoryRotates ==
    ASSUME LogTypes, History, NEW r \in Records, Today \in Days,
           written' = Append(written, r), log' = AppendTo(<<>>, r),
           backup' = [backup EXCEPT ![Today] = log], Rotates
    PROVE  HistoryKept'
<1> SUFFICES ASSUME ~RenameReplaces PROVE Kept' = written'
  BY DEF HistoryKept
<1> DEFINE p == FlattenSeq(PartsOf(backup))
           f == FlattenSeq(log)
<1>1. FlattenSeq(PartsOf(backup')) = p \o f
  BY PartsAfterRotation DEF Rotates, History
<1>2. FlattenSeq(log') = <<r>>
  <2>1. <<>> \in Seq(Line)
    BY EmptySeq
  <2>2. FlattenSeq(AppendTo(<<>>, r)) = FlattenSeq(<<>>) \o <<r>>
    BY <2>1, AppendToFlat
  <2>3. <<r>> \in Seq(Records)
    OBVIOUS
  <2>4. <<>> \o <<r>> = <<r>>
    BY <2>3, ConcatEmptySeq
  <2> QED BY <2>2, <2>4, FlattenNone
<1>3. Kept' = FlattenSeq(PartsOf(backup')) \o FlattenSeq(log')
  BY DEF Kept, PartsOf
<1>4. written = p \o f
  BY KeptIs DEF HistoryKept, History
<1>5. Append(written, r) = written \o <<r>>
  BY AppendIsConcat DEF LogTypes
<1> HIDE DEF p, f
<1> QED BY <1>1, <1>2, <1>3, <1>4, <1>5

LEMMA HistoryStep == LogTypes /\ History /\ [Next]_vars => History'
<1> SUFFICES ASSUME LogTypes, History, [Next]_vars PROVE History'
  OBVIOUS
<1>1. ASSUME UNCHANGED <<log, backup, written>>,
             now' = now \/ now' = now + 1
      PROVE  History'
  <2>1. now \in Nat
    BY ClockRuns DEF LogTypes
  <2>2. BackupsOfPast'
    <3> SUFFICES ASSUME NEW d \in Days, backup[d] # <<>>
                 PROVE  \E j \in 1 .. now' : Instants[j].date = d
      BY <1>1 DEF BackupsOfPast
    <3>1. PICK j \in 1 .. now : Instants[j].date = d
      BY DEF History, BackupsOfPast
    <3>2. j \in 1 .. now'
      BY <1>1, <2>1
    <3> QED BY <3>1, <3>2
  <2>3. HistoryKept'
    BY <1>1 DEF History, HistoryKept, Kept
  <2> QED BY <2>2, <2>3 DEF History
<1>2. CASE Tick
  BY <1>1, <1>2 DEF Tick
<1>3. ASSUME NEW u \in Users, NEW n \in Names, ChangeName(u, n)
      PROVE  History'
  BY <1>1, <1>3 DEF ChangeName
<1>4. CASE UNCHANGED vars
  BY <1>1, <1>4 DEF vars
<1>5. ASSUME NEW r \in Records, Written(r), log' = AppendTo(log, r),
             backup' = backup
      PROVE  History'
  <2>1. written' = Append(written, r) /\ now' = now
    BY <1>5 DEF Written
  <2>2. HistoryKept'
    BY <1>5, <2>1, HistoryAppend DEF History
  <2>3. BackupsOfPast'
    BY <1>5, <2>1 DEF History, BackupsOfPast
  <2> QED BY <2>2, <2>3 DEF History
<1>6. ASSUME NEW u \in Users, NEW v \in Users, NEW cut \in Stops \cup {"none"},
             logTransaction(u, v, cut)
      PROVE  History'
  <2>1. Record("transfer", u, v, cut) \in Records
    BY Recorded
  <2> QED BY <1>5, <1>6, <2>1 DEF logTransaction
<1>7. ASSUME NEW u \in Users \cup {Admin}, NEW cut \in Stops \cup {"none"},
             logPointEditTransaction(u, cut)
      PROVE  History'
  <2> DEFINE r == Record("edit", Admin, u, cut)
  <2>1. r \in Records /\ Today \in Days
    BY Recorded
  <2>2. /\ Written(r)
        /\ IF Rotates
             THEN /\ backup' = [backup EXCEPT ![Today] = log]
                  /\ log' = AppendTo(<<>>, r)
             ELSE log' = AppendTo(log, r) /\ backup' = backup
    BY <1>7 DEF logPointEditTransaction
  <2> HIDE DEF r
  <2>3. CASE ~Rotates
    BY <1>5, <2>1, <2>2, <2>3
  <2>4. CASE Rotates
    <3>1. /\ written' = Append(written, r) /\ now' = now
          /\ backup' = [backup EXCEPT ![Today] = log]
          /\ log' = AppendTo(<<>>, r)
      BY <2>2, <2>4 DEF Written
    <3>2. HistoryKept'
      BY <2>1, <2>4, <3>1, HistoryRotates
    <3>3. BackupsOfPast'
      <4> SUFFICES ASSUME NEW d \in Days, backup'[d] # <<>>
                   PROVE  \E j \in 1 .. now' : Instants[j].date = d
        BY DEF BackupsOfPast
      <4>1. CASE d = Today
        <5>1. now \in 1 .. now
          BY ClockRuns DEF LogTypes
        <5> QED BY <3>1, <4>1, <5>1 DEF Today
      <4>2. CASE d # Today
        <5>1. backup'[d] = backup[d]
          BY <3>1, <4>2 DEF LogTypes
        <5> QED BY <3>1, <5>1 DEF History, BackupsOfPast
      <4> QED BY <4>1, <4>2
    <3> QED BY <3>2, <3>3 DEF History
  <2> QED BY <2>3, <2>4
<1> QED BY <1>2, <1>3, <1>4, <1>6, <1>7, LogAssumption DEF Next

(* Where a rename onto a backup is refused, the backups and the file hold  *)
(* together every record ever written, in the order of writing, however    *)
(* often the file is moved aside, on whatever days.                        *)
THEOREM HistoryKeptHolds == Spec => []HistoryKept
<1>1. LogTypes /\ Counted /\ OnlyTransfersOutgrow => LogTypes
  OBVIOUS
<1>2. History => HistoryKept
  BY DEF History
<1> QED BY <1>1, <1>2, HistoryInit, HistoryStep, LogAlways, PTL DEF Spec

-----------------------------------------------------------------------------
(* The order of dates                                                      *)

(* The first days of the months of a year come one after the other.        *)
LEMMA MonthStarts ==
    ASSUME NEW y \in Nat, y > 0, NEW m \in 1 .. 12, NEW k \in 1 .. 12, m < k
    PROVE  DayNumber(1, m, y) + LengthOf(m, y) <= DayNumber(1, k, y)
<1> DEFINE f == [i \in 1 .. 12 |-> DayNumber(1, i, y)]
<1>0. \A i \in 1 .. 12 : f[i] = DayNumber(1, i, y) /\ f[i] \in Int
  BY DEF DayNumber
<1>1. \A i \in 1 .. 11 : f[i] + LengthOf(i, y) = f[i + 1] /\ LengthOf(i, y) \in Int
  <2> SUFFICES ASSUME NEW i \in 1 .. 11
               PROVE  f[i] + LengthOf(i, y) = f[i + 1] /\ LengthOf(i, y) \in Int
    OBVIOUS
  <2>1. i \in 1 .. 12 /\ i + 1 \in 1 .. 12 /\ i # 12
    OBVIOUS
  <2>2. LengthOf(i, y) = DayNumber(1, i + 1, y) - DayNumber(1, i, y)
    BY <2>1 DEF LengthOf
  <2> HIDE DEF f
  <2> QED BY <1>0, <2>1, <2>2
<1>2. \A i \in 1 .. 12 : LengthOf(i, y) > 0
  <2> SUFFICES ASSUME NEW i \in 1 .. 12 PROVE LengthOf(i, y) > 0
    OBVIOUS
  <2>1. \/ i = 1 \/ i = 2 \/ i = 3 \/ i = 4 \/ i = 5 \/ i = 6 \/ i = 7 \/ i = 8
        \/ i = 9 \/ i = 10 \/ i = 11 \/ i = 12
    OBVIOUS
  <2> QED BY <2>1, LongMonth, ShortMonth, FebruaryLength
<1> HIDE DEF f
<1> DEFINE B == {i \in m + 1 .. 12 : ~(f[m + 1] <= f[i])}
<1>3. ASSUME B # {} PROVE FALSE
  <2>1. PICK j \in B : \A i \in B : j <= i
    <3>1. B \in SUBSET Nat
      OBVIOUS
    <3> HIDE DEF B
    <3> QED BY <1>3, <3>1, LeastIndex
  <2>2. j # m + 1
    BY <1>0, <2>1
  <2>3. j - 1 \in m + 1 .. 12 /\ j - 1 \in 1 .. 11 /\ ~(j <= j - 1)
    BY <2>2
  <2>4. f[m + 1] <= f[j - 1]
    BY <2>1, <2>3
  <2>5. f[j - 1] + LengthOf(j - 1, y) = f[j] /\ LengthOf(j - 1, y) > 0 /\ LengthOf(j - 1, y) \in Int
    <3>1. j - 1 + 1 = j /\ j - 1 \in 1 .. 12
      BY <2>3
    <3>2. f[j - 1] + LengthOf(j - 1, y) = f[j - 1 + 1] /\ LengthOf(j - 1, y) \in Int
      BY <1>1, <2>3
    <3> QED BY <1>2, <3>1, <3>2, Zenon
  <2>6. f[m + 1] \in Int /\ f[j - 1] \in Int /\ f[j] \in Int
    BY <1>0, <2>3
  <2> QED BY <2>1, <2>4, <2>5, <2>6
<1>4. f[m + 1] <= f[k]
  BY <1>3
<1>5. m \in 1 .. 11
  OBVIOUS
<1> QED BY <1>0, <1>1, <1>4, <1>5

LEMMA YearStarts ==
    ASSUME NEW a \in Nat, NEW b \in Nat, a > 0, a <= b
    PROVE  DayNumber(1, 1, a) <= DayNumber(1, 1, b)
<1> DEFINE p == a - 1
           q == b - 1
           a4 == p \div 4
           a100 == p \div 100
           a400 == p \div 400
           b4 == q \div 4
           b100 == q \div 100
           b400 == q \div 400
<1>1. p \in Nat /\ q \in Nat /\ p <= q
  OBVIOUS
<1>2. DayNumber(1, 1, a) = 365 * p + a4 - a100 + a400 + 306
  BY DEF DayNumber
<1>3. DayNumber(1, 1, b) = 365 * q + b4 - b100 + b400 + 306
  BY DEF DayNumber
<1> HIDE DEF p, q
<1>4. a4 \in Int /\ b4 \in Int /\ a4 <= b4
  BY <1>1
<1>5. a400 \in Int /\ b400 \in Int /\ a400 <= b400
  BY <1>1
<1>6. a100 \in Int /\ b100 \in Int /\ b100 - a100 <= q - p
  BY <1>1
<1> HIDE DEF a4, b4, a100, b100, a400, b400
<1> QED BY <1>1, <1>2, <1>3, <1>4, <1>5, <1>6

(* The comparison of year, month and day.                                  *)
Before(d, m, y, e, n, z) == y < z \/ (y = z /\ (m < n \/ (m = n /\ d < e)))

LEMMA EarlierNumber ==
    ASSUME NEW d \in Int, NEW m \in Int, NEW y \in Int, IsDate(<<d, m, y>>),
           NEW e \in Int, NEW n \in Int, NEW z \in Int, IsDate(<<e, n, z>>),
           Before(d, m, y, e, n, z)
    PROVE  DayNumber(d, m, y) < DayNumber(e, n, z)
<1>1. /\ y \in Nat /\ y > 0 /\ m \in 1 .. 12 /\ d \in 1 .. LengthOf(m, y)
      /\ z \in Nat /\ z > 0 /\ n \in 1 .. 12 /\ 1 <= e
  BY DEF IsDate
<1>2. \A i \in Int : \A k \in 1 .. 12 : \A x \in Nat :
          /\ DayNumber(i, k, x) \in Int
          /\ DayNumber(i, k, x) = DayNumber(1, k, x) + i - 1
          /\ LengthOf(k, x) \in Int
  BY DEF DayNumber, LengthOf
<1>3. d <= LengthOf(m, y) /\ LengthOf(m, y) \in Int
  <2>1. LengthOf(m, y) \in Int
    BY <1>1, <1>2, Zenon
  <2>2. d \in 1 .. LengthOf(m, y)
    BY <1>1
  <2> QED BY <2>1, <2>2
<1>4. /\ DayNumber(d, m, y) \in Int /\ DayNumber(1, m, y) \in Int
      /\ DayNumber(d, m, y) = DayNumber(1, m, y) + d - 1
      /\ DayNumber(e, n, z) \in Int /\ DayNumber(1, n, z) \in Int
      /\ DayNumber(e, n, z) = DayNumber(1, n, z) + e - 1
  <2>1. 1 \in Int
    OBVIOUS
  <2> QED BY <1>1, <1>2, <2>1, Zenon
<1>5. CASE y = z /\ m = n /\ d < e
  BY <1>1, <1>4, <1>5
<1>6. CASE y = z /\ m < n
  <2>1. DayNumber(1, m, y) + LengthOf(m, y) <= DayNumber(1, n, z)
    BY <1>1, <1>6, MonthStarts
  <2> QED BY <1>1, <1>3, <1>4, <2>1
<1>7. CASE y < z
  <2>1. DayNumber(1, m, y) + LengthOf(m, y) <= DayNumber(1, 1, y + 1)
    <3>1. DayNumber(1, 12, y) + LengthOf(12, y) = DayNumber(1, 1, y + 1)
      <4>1. LengthOf(12, y) = DayNumber(1, 1, y + 1) - DayNumber(1, 12, y)
        BY DEF LengthOf
      <4>2. DayNumber(1, 12, y) \in Int /\ DayNumber(1, 1, y + 1) \in Int
        BY <1>1, <1>2
      <4> QED BY <4>1, <4>2
    <3>2. LengthOf(12, y) = 31
      BY <1>1, LongMonth
    <3>3. DayNumber(1, 12, y) \in Int
      BY <1>1, <1>2
    <3>4. CASE m = 12
      BY <3>1, <3>4, <1>4, <1>3
    <3>5. CASE m < 12
      <4>1. DayNumber(1, m, y) + LengthOf(m, y) <= DayNumber(1, 12, y)
        BY <1>1, <3>5, MonthStarts
      <4> QED BY <1>3, <1>4, <3>1, <3>2, <3>3, <4>1
    <3> QED BY <1>1, <3>4, <3>5
  <2>2. DayNumber(1, 1, y + 1) <= DayNumber(1, 1, z)
    BY <1>1, <1>7, YearStarts
  <2>3. DayNumber(1, 1, z) <= DayNumber(1, n, z)
    <3>1. CASE n = 1
      BY <3>1, <1>4
    <3>2. CASE 1 < n
      <4>1. DayNumber(1, 1, z) + LengthOf(1, z) <= DayNumber(1, n, z)
        BY <1>1, <3>2, MonthStarts
      <4>2. LengthOf(1, z) = 31 /\ DayNumber(1, 1, z) \in Int
        BY <1>1, <1>2, LongMonth
      <4> QED BY <1>4, <4>1, <4>2
    <3> QED BY <1>1, <3>1, <3>2
  <2>4. DayNumber(1, 1, y + 1) \in Int /\ DayNumber(1, 1, z) \in Int
    BY <1>1, <1>2
  <2> QED BY <1>1, <1>3, <1>4, <2>1, <2>2, <2>3, <2>4
<1> QED BY <1>5, <1>6, <1>7 DEF Before

(* The order of the tuples is that of the days.                            *)
LEMMA OrderOfDays ==
    ASSUME NEW d \in Int, NEW m \in Int, NEW y \in Int, IsDate(<<d, m, y>>),
           NEW e \in Int, NEW n \in Int, NEW z \in Int, IsDate(<<e, n, z>>)
    PROVE  ~Before(e, n, z, d, m, y) <=> DayNumber(d, m, y) <= DayNumber(e, n, z)
<1>1. DayNumber(d, m, y) \in Int /\ DayNumber(e, n, z) \in Int
  BY DEF IsDate, DayNumber
<1>2. CASE Before(e, n, z, d, m, y)
  <2>1. DayNumber(e, n, z) < DayNumber(d, m, y)
    BY <1>2, EarlierNumber
  <2> QED BY <1>1, <1>2, <2>1
<1>3. CASE Before(d, m, y, e, n, z)
  <2>1. DayNumber(d, m, y) < DayNumber(e, n, z)
    BY <1>3, EarlierNumber
  <2>2. ~Before(e, n, z, d, m, y)
    BY <1>3 DEF Before
  <2> QED BY <1>1, <2>1, <2>2
<1>4. CASE y = z /\ m = n /\ d = e
  BY <1>1, <1>4 DEF Before
<1>5. \/ Before(d, m, y, e, n, z) \/ Before(e, n, z, d, m, y)
      \/ y = z /\ m = n /\ d = e
  BY DEF Before
<1> QED BY <1>2, <1>3, <1>4, <1>5

(* The comparison of stamps, spelled out.                                  *)
LEMMA StampOrder ==
    ASSUME NEW y \in Int, NEW m \in Int, NEW d \in Int, NEW s \in Int,
           NEW z \in Int, NEW n \in Int, NEW e \in Int, NEW t \in Int
    PROVE  NotAfter(<<y, m, d, s>>, <<z, n, e, t>>)
             <=> \/ Before(d, m, y, e, n, z)
                 \/ y = z /\ m = n /\ d = e /\ s <= t
<1> DEFINE a == <<y, m, d, s>>
           b == <<z, n, e, t>>
           Less(i) == a[i] < b[i] /\ \A j \in 1 .. i - 1 : a[j] = b[j]
<1>1. NotAfter(a, b) <=> a = b \/ \E i \in 1 .. 4 : Less(i)
  BY DEF NotAfter
<1>2. (\E i \in 1 .. 4 : Less(i)) <=> Less(1) \/ Less(2) \/ Less(3) \/ Less(4)
  <2>1. 1 .. 4 = {1, 2, 3, 4}
    OBVIOUS
  <2> HIDE DEF Less
  <2> QED BY <2>1, Zenon
<1>3. Less(1) <=> y < z
  <2>1. 1 .. 1 - 1 = {}
    OBVIOUS
  <2> QED BY <2>1
<1>4. Less(2) <=> m < n /\ y = z
  <2>1. 1 .. 2 - 1 = {1}
    OBVIOUS
  <2> QED BY <2>1
<1>5. Less(3) <=> d < e /\ m = n /\ y = z
  <2>1. 1 .. 3 - 1 = {1, 2}
    OBVIOUS
  <2> QED BY <2>1
<1>6. Less(4) <=> s < t /\ d = e /\ m = n /\ y = z
  <2>1. 1 .. 4 - 1 = {1, 2, 3}
    OBVIOUS
  <2> QED BY <2>1
<1>7. a = b <=> y = z /\ m = n /\ d = e /\ s = t
  OBVIOUS
<1> HIDE DEF a, b, Less
<1>8. NotAfter(a, b)
         <=> \/ Before(d, m, y, e, n, z)
             \/ y = z /\ m = n /\ d = e /\ s <= t
  BY <1>1, <1>2, <1>3, <1>4, <1>5, <1>6, <1>7 DEF Before
<1> QED BY <1>8 DEF a, b

(* The stamp of a record is that of a date.                                *)
LEMMA StampOfRecord ==
    ASSUME NEW r \in Records
    PROVE  \E e \in Int, n \in Int, z \in Int, t \in Int :
               /\ Stamp(r) = <<z, n, e, t>> /\ IsDate(<<e, n, z>>)
               /\ DayOf(r) = DayNumber(e, n, z)
               /\ 0 <= t /\ t <= LastSecond
<1> DEFINE w == r.at.date
<1>1. PICK i \in DOMAIN Instants : r.at = Instants[i]
  BY DEF Records, Range
<1>2. r.at \in [date : Seq(Int), sec : 0 .. LastSecond]
  <2>1. i \in 1 .. Len(Instants)
    BY <1>1, ClockRuns
  <2> QED BY <1>1, <2>1, ClockAssumption, ElementOfSeq
<1>3. w \in Seq(Int) /\ r.at.sec \in 0 .. LastSecond
  BY <1>2
<1>4. w \in Days
  BY <1>1 DEF Days, Range
<1>5. Len(w) = 3
  BY <1>4, DateAssumption
<1>6. w[1] \in Int /\ w[2] \in Int /\ w[3] \in Int
  BY <1>3, <1>5, ElementOfSeq
<1>7. r.at.sec \in Int /\ 0 <= r.at.sec /\ r.at.sec <= LastSecond
  <2>1. LastSecond \in Int
    BY DEF LastSecond
  <2> QED BY <1>3, <2>1
<1>8. IsDate(<<w[3], w[2], w[1]>>)
  BY <1>4, CalendarAssumption
<1> DEFINE sec == r.at.sec
<1>9. Stamp(r) = w \o <<sec>>
  BY DEF Stamp
<1>10. DayOf(r) = DayNumber(w[3], w[2], w[1])
  BY DEF DayOf
<1> HIDE DEF w, sec
<1>11. w \o <<sec>> = <<w[1], w[2], w[3], sec>>
  <2>1. <<sec>> \in Seq(Int) /\ Len(<<sec>>) = 1 /\ <<sec>>[1] = sec
    BY <1>7 DEF sec
  <2>2. /\ w \o <<sec>> \in Seq(Int)
        /\ Len(w \o <<sec>>) = Len(w) + Len(<<sec>>)
        /\ \A j \in 1 .. Len(w) + Len(<<sec>>) : (w \o <<sec>>)[j] =
              IF j <= Len(w) THEN w[j] ELSE <<sec>>[j - Len(w)]
    BY <1>3, <2>1, ConcatProperties
  <2> DEFINE c == w \o <<sec>>
             v == <<w[1], w[2], w[3], sec>>
  <2>3. Len(w) + Len(<<sec>>) = 4
    BY <1>5, <2>1
  <2>4. c \in Seq(Int) /\ Len(c) = 4
    BY <2>2, <2>3
  <2>5. c[1] = w[1] /\ c[2] = w[2] /\ c[3] = w[3] /\ c[4] = sec
    BY <1>5, <2>1, <2>2, <2>3
  <2>6. v \in Seq(Int) /\ Len(v) = 4 /\ v[1] = w[1] /\ v[2] = w[2] /\ v[3] = w[3] /\ v[4] = sec
    BY <1>6, <1>7 DEF sec
  <2> HIDE DEF c, v
  <2>7. \A j \in 1 .. Len(c) : c[j] = v[j]
    BY <2>4, <2>5, <2>6
  <2>8. c = v
    BY <2>4, <2>6, <2>7, SeqEqual
  <2> QED BY <2>8 DEF c, v
<1> QED BY <1>6, <1>7, <1>8, <1>9, <1>10, <1>11 DEF w, sec

LEMMA RefusedIsNoDate ==
    ASSUME NEW d \in Int, NEW m \in Int, NEW y \in Int
    PROVE  /\ <<d, m, y>> # Blank
           /\ Refused(<<d, m, y>>) <=> ~IsDate(<<d, m, y>>)
           /\ \A end \in BOOLEAN : IsDate(<<d, m, y>>) =>
                convertDateTime(<<d, m, y>>, end)
                  = <<y, m, d, IF end THEN LastSecond ELSE 0>>
<1>1. <<d, m, y>> # Blank /\ \A s : <<y, m, d, s>> # Blank
  BY DEF Blank
<1>2. Valid(<<d, m, y>>) <=> IsDate(<<d, m, y>>)
  BY ValidIsDate
<1>3. \A end \in BOOLEAN : convertDateTime(<<d, m, y>>, end)
         = IF Valid(<<d, m, y>>) THEN <<y, m, d, IF end THEN LastSecond ELSE 0>>
                                 ELSE Blank
  BY <1>1 DEF convertDateTime
<1>4. Refused(<<d, m, y>>) <=> ~Valid(<<d, m, y>>)
  BY <1>1, <1>3 DEF Refused
<1> QED BY <1>1, <1>2, <1>3, <1>4

LEMMA BlankIsNotRefused == ~Refused(Blank)
BY DEF Refused

(* The strings of the file and of the question compare as the days do.     *)
LEMMA PeriodOfDays ==
    ASSUME NEW r \in Records, NEW startDate \in Typed \cup {Blank},
           NEW endDate \in Typed \cup {Blank}
    PROVE  isWithinTimeRange(r, startDate, endDate)
             <=> InPeriod(r, startDate, endDate)
<1>1. PICK e \in Int, n \in Int, z \in Int, t \in Int :
          /\ Stamp(r) = <<z, n, e, t>> /\ IsDate(<<e, n, z>>)
          /\ DayOf(r) = DayNumber(e, n, z)
          /\ 0 <= t /\ t <= LastSecond
  BY StampOfRecord
<1>2. \A x \in Typed : \E d \in Int, m \in Int, y \in Int : x = <<d, m, y>>
  BY TypedAssumption
<1> DEFINE From == startDate # Blank =>
              NotAfter(convertDateTime(startDate, FALSE), Stamp(r))
           To == endDate # Blank =>
              NotAfter(Stamp(r), convertDateTime(endDate, TRUE))
           Since == startDate # Blank =>
              IsDate(startDate) /\ Day(startDate) <= DayOf(r)
           Until == endDate # Blank =>
              IsDate(endDate) /\ DayOf(r) <= Day(endDate)
<1>3. ~Refused(startDate) /\ From <=> Since
  <2>1. CASE startDate = Blank
    BY <2>1, BlankIsNotRefused
  <2>2. CASE startDate # Blank
    <3>1. PICK d \in Int, m \in Int, y \in Int : startDate = <<d, m, y>>
      BY <1>2, <2>2
    <3>2. Refused(startDate) <=> ~IsDate(startDate)
      BY <3>1, RefusedIsNoDate
    <3>3. CASE ~IsDate(startDate)
      BY <2>2, <3>2, <3>3
    <3>4. CASE IsDate(startDate)
      <4>1. convertDateTime(startDate, FALSE) = <<y, m, d, 0>>
        BY <3>1, <3>4, RefusedIsNoDate
      <4>2. NotAfter(<<y, m, d, 0>>, <<z, n, e, t>>)
               <=> \/ Before(d, m, y, e, n, z)
                   \/ y = z /\ m = n /\ d = e /\ 0 <= t
        BY StampOrder
      <4>3. NotAfter(<<y, m, d, 0>>, <<z, n, e, t>>) <=> ~Before(e, n, z, d, m, y)
        BY <1>1, <4>2 DEF Before
      <4>4. ~Before(e, n, z, d, m, y) <=> DayNumber(d, m, y) <= DayNumber(e, n, z)
        BY <1>1, <3>1, <3>4, OrderOfDays
      <4>5. Day(startDate) = DayNumber(d, m, y)
        BY <3>1 DEF Day
      <4>6. NotAfter(convertDateTime(startDate, FALSE), Stamp(r))
               <=> Day(startDate) <= DayOf(r)
        BY <1>1, <4>1, <4>3, <4>4, <4>5, Zenon
      <4> HIDE DEF From, Since
      <4>7. From <=> Since
        BY <2>2, <3>4, <4>6, Zenon DEF From, Since
      <4> QED BY <3>2, <3>4, <4>7
    <3> QED BY <3>3, <3>4
  <2> QED BY <2>1, <2>2
<1>4. ~Refused(endDate) /\ To <=> Until
  <2>1. CASE endDate = Blank
    BY <2>1, BlankIsNotRefused
  <2>2. CASE endDate # Blank
    <3>1. PICK d \in Int, m \in Int, y \in Int : endDate = <<d, m, y>>
      BY <1>2, <2>2
    <3>2. Refused(endDate) <=> ~IsDate(endDate)
      BY <3>1, RefusedIsNoDate
    <3>3. CASE ~IsDate(endDate)
      BY <2>2, <3>2, <3>3
    <3>4. CASE IsDate(endDate)
      <4>1. convertDateTime(endDate, TRUE) = <<y, m, d, LastSecond>>
        BY <3>1, <3>4, RefusedIsNoDate
      <4>0. LastSecond \in Int
        BY DEF LastSecond
      <4>2. NotAfter(<<z, n, e, t>>, <<y, m, d, LastSecond>>)
               <=> \/ Before(e, n, z, d, m, y)
                   \/ z = y /\ n = m /\ e = d /\ t <= LastSecond
        BY <4>0, StampOrder
      <4>3. NotAfter(<<z, n, e, t>>, <<y, m, d, LastSecond>>)
               <=> ~Before(d, m, y, e, n, z)
        BY <1>1, <4>2 DEF Before
      <4>4. ~Before(d, m, y, e, n, z) <=> DayNumber(e, n, z) <= DayNumber(d, m, y)
        BY <1>1, <3>1, <3>4, OrderOfDays
      <4>5. Day(endDate) = DayNumber(d, m, y)
        BY <3>1 DEF Day
      <4>6. NotAfter(Stamp(r), convertDateTime(endDate, TRUE))
               <=> DayOf(r) <= Day(endDate)
        BY <1>1, <4>1, <4>3, <4>4, <4>5, Zenon
      <4> HIDE DEF To, Until
      <4>7. To <=> Until
        BY <2>2, <3>4, <4>6, Zenon DEF To, Until
      <4> QED BY <3>2, <3>4, <4>7
    <3> QED BY <3>3, <3>4
  <2> QED BY <2>1, <2>2
<1>5. /\ isWithinTimeRange(r, startDate, endDate)
           <=> ~Refused(startDate) /\ ~Refused(endDate) /\ From /\ To
      /\ InPeriod(r, startDate, endDate) <=> Since /\ Until
  BY Zenon DEF isWithinTimeRange, InPeriod
<1> HIDE DEF From, To, Since, Until
<1> QED BY <1>3, <1>4, <1>5, Zenon

-----------------------------------------------------------------------------
(* What is listed and what should be, of any file and any records          *)

Kinds == {"transfer", "edit"}

Questions == Users \cup Names \cup {"All"}

Dates == Typed \cup {Blank}

Matches(r, kind, who, startDate, endDate) ==
    /\ r.kind = kind
    /\ isWithinTimeRange(r, startDate, endDate)
    /\ About(<<r>>, who)

(* A line that was written at once.                                        *)
AtOnce(line) == Len(line) = 1 /\ line[1].cut = "none"

(* Of such a line a listing shows the record, if it is asked for.          *)
Lists(line, kind, who, startDate, endDate) ==
    AtOnce(line) /\ Matches(line[1], kind, who, startDate, endDate)

ListOf(file, kind, who, startDate, endDate) ==
    [i \in DOMAIN file |->
        IF Lists(file[i], kind, who, startDate, endDate) THEN <<file[i]>> ELSE <<>>]

(* The record s[i] is in the file, which has those after the first m, and  *)
(* in a line of its own.                                                   *)
Whole(s, m, i) == i > m /\ s[i].cut = "none" /\ (i = m + 1 \/ s[i - 1].cut = "none")

ExpectedOf(s, m, kind, who, startDate, endDate) ==
    [i \in DOMAIN s |->
        IF Whole(s, m, i) /\ Matches(s[i], kind, who, startDate, endDate)
          THEN << <<s[i]>> >> ELSE <<>>]

LEMMA ListType ==
    ASSUME NEW file \in Seq(Line), NEW kind, NEW who, NEW startDate, NEW endDate
    PROVE  LET L == ListOf(file, kind, who, startDate, endDate)
           IN  /\ L \in Seq(Seq(Line))
               /\ Len(L) = Len(file)
               /\ \A i \in 1 .. Len(file) : L[i] =
                     IF Lists(file[i], kind, who, startDate, endDate)
                       THEN <<file[i]>> ELSE <<>>
<1> DEFINE n == Len(file)
           e(i) == IF Lists(file[i], kind, who, startDate, endDate)
                     THEN <<file[i]>> ELSE <<>>
<1>1. n \in Nat /\ DOMAIN file = 1 .. n
  BY LenProperties
<1>2. \A i \in 1 .. n : e(i) \in Seq(Line)
  <2> SUFFICES ASSUME NEW i \in 1 .. n PROVE e(i) \in Seq(Line)
    OBVIOUS
  <2>1. file[i] \in Line
    BY ElementOfSeq
  <2>2. <<file[i]>> \in Seq(Line) /\ <<>> \in Seq(Line)
    BY <2>1, EmptySeq
  <2> QED BY <2>2
<1>3. ListOf(file, kind, who, startDate, endDate) = [i \in 1 .. n |-> e(i)]
  BY <1>1 DEF ListOf
<1> HIDE DEF e
<1> HIDE DEF n
<1>4. /\ [i \in 1 .. n |-> e(i)] \in Seq(Seq(Line))
      /\ Len([i \in 1 .. n |-> e(i)]) = n
      /\ \A i \in 1 .. n : [j \in 1 .. n |-> e(j)][i] = e(i)
  BY <1>1, <1>2, IsASeq
<1> QED BY <1>3, <1>4 DEF e, n

LEMMA ExpectedType ==
    ASSUME NEW s \in Seq(Records), NEW m, NEW kind, NEW who,
           NEW startDate, NEW endDate
    PROVE  LET E == ExpectedOf(s, m, kind, who, startDate, endDate)
           IN  /\ E \in Seq(Seq(Line))
               /\ Len(E) = Len(s)
               /\ \A i \in 1 .. Len(s) : E[i] =
                     IF Whole(s, m, i) /\ Matches(s[i], kind, who, startDate, endDate)
                       THEN << <<s[i]>> >> ELSE <<>>
<1> DEFINE n == Len(s)
           e(i) == IF Whole(s, m, i) /\ Matches(s[i], kind, who, startDate, endDate)
                     THEN << <<s[i]>> >> ELSE <<>>
<1>1. n \in Nat /\ DOMAIN s = 1 .. n
  BY LenProperties
<1>2. \A i \in 1 .. n : e(i) \in Seq(Line)
  <2> SUFFICES ASSUME NEW i \in 1 .. n PROVE e(i) \in Seq(Line)
    OBVIOUS
  <2>1. <<s[i]>> \in Line
    BY ElementOfSeq DEF Line
  <2>2. << <<s[i]>> >> \in Seq(Line) /\ <<>> \in Seq(Line)
    BY <2>1, EmptySeq
  <2> QED BY <2>2
<1>3. ExpectedOf(s, m, kind, who, startDate, endDate) = [i \in 1 .. n |-> e(i)]
  BY <1>1 DEF ExpectedOf
<1> HIDE DEF e
<1> HIDE DEF n
<1>4. /\ [i \in 1 .. n |-> e(i)] \in Seq(Seq(Line))
      /\ Len([i \in 1 .. n |-> e(i)]) = n
      /\ \A i \in 1 .. n : [j \in 1 .. n |-> e(j)][i] = e(i)
  BY <1>1, <1>2, IsASeq
<1> QED BY <1>3, <1>4 DEF e, n

(* A whole file takes a new line, of which the listing shows what matches. *)
LEMMA ListAppended ==
    ASSUME NEW file \in Seq(Line), NEW r \in Records, ~Unfinished(file),
           NEW kind, NEW who, NEW startDate, NEW endDate
    PROVE  FlattenSeq(ListOf(AppendTo(file, r), kind, who, startDate, endDate))
             = FlattenSeq(ListOf(file, kind, who, startDate, endDate))
                 \o (IF r.cut = "none" /\ Matches(r, kind, who, startDate, endDate)
                       THEN << <<r>> >> ELSE <<>>)
<1> DEFINE n == Len(file)
           a == Append(file, <<r>>)
           x == IF r.cut = "none" /\ Matches(r, kind, who, startDate, endDate)
                  THEN << <<r>> >> ELSE <<>>
           L == ListOf(file, kind, who, startDate, endDate)
           K == ListOf(a, kind, who, startDate, endDate)
<1>1. AppendTo(file, r) = a
  BY DEF AppendTo
<1>2. <<r>> \in Line
  BY DEF Line
<1>3. /\ a \in Seq(Line) /\ Len(a) = n + 1 /\ n \in Nat
      /\ (\A i \in 1 .. n : a[i] = file[i]) /\ a[n + 1] = <<r>>
  BY <1>2, AppendProperties, LenProperties
<1>4. x \in Seq(Line)
  BY <1>2, EmptySeq
<1>5. /\ L \in Seq(Seq(Line)) /\ Len(L) = n
      /\ \A i \in 1 .. n : L[i] =
            IF Lists(file[i], kind, who, startDate, endDate)
              THEN <<file[i]>> ELSE <<>>
  BY ListType
<1> HIDE DEF a
<1>6. /\ K \in Seq(Seq(Line)) /\ Len(K) = n + 1
      /\ \A i \in 1 .. n + 1 : K[i] =
            IF Lists(a[i], kind, who, startDate, endDate)
              THEN <<a[i]>> ELSE <<>>
  <2>1. /\ K \in Seq(Seq(Line)) /\ Len(K) = Len(a)
        /\ \A i \in 1 .. Len(a) : K[i] =
              IF Lists(a[i], kind, who, startDate, endDate)
                THEN <<a[i]>> ELSE <<>>
    BY <1>3, ListType
  <2> QED BY <1>3, <2>1
<1>7. Lists(<<r>>, kind, who, startDate, endDate)
         <=> r.cut = "none" /\ Matches(r, kind, who, startDate, endDate)
  <2>1. AtOnce(<<r>>) <=> r.cut = "none"
    BY DEF AtOnce
  <2>2. <<r>>[1] = r
    OBVIOUS
  <2> QED BY <2>1, <2>2 DEF Lists
<1> HIDE DEF n, L, K
<1>8. n + 1 \in 1 .. n + 1 /\ \A i \in 1 .. n : i \in 1 .. n + 1
  BY <1>3
<1>9. K[n + 1] = x
  <2>1. K[n + 1] = IF Lists(a[n + 1], kind, who, startDate, endDate)
                     THEN <<a[n + 1]>> ELSE <<>>
    BY <1>6, <1>8, Zenon
  <2> QED BY <1>3, <1>7, <2>1
<1>10. \A i \in 1 .. n : K[i] = L[i]
  BY <1>3, <1>5, <1>6, <1>8
<1> HIDE DEF x
<1>11. /\ Append(L, x) \in Seq(Seq(Line)) /\ Len(Append(L, x)) = n + 1
       /\ (\A i \in 1 .. n : Append(L, x)[i] = L[i]) /\ Append(L, x)[n + 1] = x
  <2>1. /\ Append(L, x) \in Seq(Seq(Line)) /\ Len(Append(L, x)) = Len(L) + 1
        /\ (\A i \in 1 .. Len(L) : Append(L, x)[i] = L[i])
        /\ Append(L, x)[Len(L) + 1] = x
    BY <1>4, <1>5, AppendProperties
  <2> QED BY <1>5, <2>1
<1>12. K = Append(L, x)
  <2>1. \A i \in 1 .. Len(K) : K[i] = Append(L, x)[i]
    <3> SUFFICES ASSUME NEW i \in 1 .. Len(K) PROVE K[i] = Append(L, x)[i]
      OBVIOUS
    <3>1. i \in 1 .. n \/ i = n + 1
      BY <1>3, <1>6
    <3> QED BY <1>9, <1>10, <1>11, <3>1
  <2> QED BY <1>6, <1>11, <2>1, SeqEqual
<1>13. FlattenSeq(K) = FlattenSeq(L) \o x
  BY <1>4, <1>5, <1>12, FlattenAppend
<1> QED BY <1>1, <1>13 DEF K, L, x

(* Behind a line without its newline a record makes a line that is not     *)
(* shown, as that line was not before.                                     *)
LEMMA ListUnfinished ==
    ASSUME NEW file \in Seq(Line), NEW r \in Records, Unfinished(file),
           NEW kind, NEW who, NEW startDate, NEW endDate
    PROVE  ListOf(AppendTo(file, r), kind, who, startDate, endDate)
             = ListOf(file, kind, who, startDate, endDate)
<1>1. PICK front \in Seq(Line), line \in Line : file = Append(front, line)
  BY SequenceEmptyOrAppend DEF Unfinished
<1>2. Last(file) = line /\ Front(file) = front
  BY <1>1, LastAndFront
<1> DEFINE n == Len(front)
           new == Append(line, r)
           a == Append(front, new)
           L == ListOf(file, kind, who, startDate, endDate)
           K == ListOf(a, kind, who, startDate, endDate)
<1>3. line \in Seq(Records) /\ Len(line) \in Nat \ {0}
  BY EmptySeq DEF Line
<1>4. new \in Line /\ Len(new) = Len(line) + 1
  BY <1>3, AppendProperties DEF Line
<1>5. AppendTo(file, r) = a
  <2>1. AppendTo(file, r) = front \o <<new>>
    BY <1>2, Zenon DEF AppendTo
  <2> QED BY <1>4, <2>1, AppendIsConcat
<1>6. /\ file \in Seq(Line) /\ Len(file) = n + 1 /\ n \in Nat
      /\ (\A i \in 1 .. n : file[i] = front[i]) /\ file[n + 1] = line
  BY <1>1, AppendProperties, LenProperties
<1>7. /\ a \in Seq(Line) /\ Len(a) = n + 1
      /\ (\A i \in 1 .. n : a[i] = front[i]) /\ a[n + 1] = new
  BY <1>4, AppendProperties
<1>8. ~AtOnce(line) /\ ~AtOnce(new)
  <2>1. ~AtOnce(new)
    BY <1>3, <1>4 DEF AtOnce
  <2>2. Last(line).cut # "none"
    BY <1>2, Zenon DEF Unfinished
  <2>3. Len(line) = 1 => line[1].cut # "none"
    BY <2>2 DEF Last
  <2> QED BY <2>1, <2>3 DEF AtOnce
<1>9. /\ ~Lists(line, kind, who, startDate, endDate)
      /\ ~Lists(new, kind, who, startDate, endDate)
  BY <1>8 DEF Lists
<1> HIDE DEF a, new
<1>10. /\ L \in Seq(Seq(Line)) /\ Len(L) = n + 1
       /\ \A i \in 1 .. n + 1 : L[i] =
            IF Lists(file[i], kind, who, startDate, endDate)
              THEN <<file[i]>> ELSE <<>>
  <2>1. /\ L \in Seq(Seq(Line)) /\ Len(L) = Len(file)
        /\ \A i \in 1 .. Len(file) : L[i] =
              IF Lists(file[i], kind, who, startDate, endDate)
                THEN <<file[i]>> ELSE <<>>
    BY ListType
  <2> QED BY <1>6, <2>1
<1>11. /\ K \in Seq(Seq(Line)) /\ Len(K) = n + 1
       /\ \A i \in 1 .. n + 1 : K[i] =
            IF Lists(a[i], kind, who, startDate, endDate)
              THEN <<a[i]>> ELSE <<>>
  <2>1. /\ K \in Seq(Seq(Line)) /\ Len(K) = Len(a)
        /\ \A i \in 1 .. Len(a) : K[i] =
              IF Lists(a[i], kind, who, startDate, endDate)
                THEN <<a[i]>> ELSE <<>>
    BY <1>7, ListType
  <2> QED BY <1>7, <2>1
<1> HIDE DEF n, L, K
<1>12. \A i \in 1 .. n + 1 : K[i] = L[i]
  <2> SUFFICES ASSUME NEW i \in 1 .. n + 1 PROVE K[i] = L[i]
    OBVIOUS
  <2>1. CASE i \in 1 .. n
    <3>1. a[i] = file[i]
      BY <1>6, <1>7, <2>1
    <3> QED BY <1>10, <1>11, <3>1
  <2>2. CASE i = n + 1
    <3>1. file[i] = line /\ a[i] = new
      BY <1>6, <1>7, <2>2
    <3> QED BY <1>9, <1>10, <1>11, <3>1
  <2> QED BY <1>6, <2>1, <2>2
<1>13. K = L
  <2>1. Len(K) = Len(L) /\ \A i \in 1 .. Len(K) : K[i] = L[i]
    BY <1>10, <1>11, <1>12
  <2> QED BY <1>10, <1>11, <2>1, SeqEqual
<1> QED BY <1>5, <1>13 DEF K, L

LEMMA ExpectedAppended ==
    ASSUME NEW s \in Seq(Records), NEW m \in 0 .. Len(s), NEW r \in Records,
           NEW kind, NEW who, NEW startDate, NEW endDate
    PROVE  FlattenSeq(ExpectedOf(Append(s, r), m, kind, who, startDate, endDate))
             = FlattenSeq(ExpectedOf(s, m, kind, who, startDate, endDate))
                 \o (IF /\ r.cut = "none" /\ (Len(s) = m \/ s[Len(s)].cut = "none")
                        /\ Matches(r, kind, who, startDate, endDate)
                       THEN << <<r>> >> ELSE <<>>)
<1> DEFINE n == Len(s)
           a == Append(s, r)
           x == IF /\ r.cut = "none" /\ (n = m \/ s[n].cut = "none")
                   /\ Matches(r, kind, who, startDate, endDate)
                  THEN << <<r>> >> ELSE <<>>
           L == ExpectedOf(s, m, kind, who, startDate, endDate)
           K == ExpectedOf(a, m, kind, who, startDate, endDate)
<1>1. <<r>> \in Line
  BY DEF Line
<1>2. /\ a \in Seq(Records) /\ Len(a) = n + 1 /\ n \in Nat /\ m \in 0 .. n
      /\ (\A i \in 1 .. n : a[i] = s[i]) /\ a[n + 1] = r
  BY AppendProperties, LenProperties
<1>3. x \in Seq(Line)
  BY <1>1, EmptySeq
<1>4. /\ L \in Seq(Seq(Line)) /\ Len(L) = n
      /\ \A i \in 1 .. n : L[i] =
            IF Whole(s, m, i) /\ Matches(s[i], kind, who, startDate, endDate)
              THEN << <<s[i]>> >> ELSE <<>>
  BY ExpectedType
<1> HIDE DEF a
<1>5. /\ K \in Seq(Seq(Line)) /\ Len(K) = n + 1
      /\ \A i \in 1 .. n + 1 : K[i] =
            IF Whole(a, m, i) /\ Matches(a[i], kind, who, startDate, endDate)
              THEN << <<a[i]>> >> ELSE <<>>
  <2>1. /\ K \in Seq(Seq(Line)) /\ Len(K) = Len(a)
        /\ \A i \in 1 .. Len(a) : K[i] =
              IF Whole(a, m, i) /\ Matches(a[i], kind, who, startDate, endDate)
                THEN << <<a[i]>> >> ELSE <<>>
    BY <1>2, ExpectedType
  <2> QED BY <1>2, <2>1
<1> HIDE DEF n, L, K
<1>6. n + 1 \in 1 .. n + 1 /\ \A i \in 1 .. n : i \in 1 .. n + 1
  BY <1>2
<1>7. \A i \in 1 .. n : Whole(a, m, i) <=> Whole(s, m, i)
  <2> SUFFICES ASSUME NEW i \in 1 .. n PROVE Whole(a, m, i) <=> Whole(s, m, i)
    OBVIOUS
  <2>1. a[i] = s[i]
    BY <1>2
  <2>2. i > m /\ i # m + 1 => i - 1 \in 1 .. n
    BY <1>2
  <2>3. i > m /\ i # m + 1 => a[i - 1] = s[i - 1]
    BY <1>2, <2>2
  <2> QED BY <2>1, <2>3 DEF Whole
<1>8. Whole(a, m, n + 1) <=> r.cut = "none" /\ (n = m \/ s[n].cut = "none")
  <2>1. n + 1 > m /\ (n + 1 = m + 1 <=> n = m) /\ n + 1 - 1 = n
    BY <1>2
  <2>2. n # m => a[n] = s[n]
    BY <1>2
  <2> QED BY <1>2, <2>1, <2>2 DEF Whole
<1>9. K[n + 1] = x
  <2>1. K[n + 1] = IF Whole(a, m, n + 1) /\ Matches(a[n + 1], kind, who, startDate, endDate)
                     THEN << <<a[n + 1]>> >> ELSE <<>>
    BY <1>5, <1>6, Zenon
  <2> QED BY <1>2, <1>8, <2>1
<1>10. \A i \in 1 .. n : K[i] = L[i]
  BY <1>2, <1>4, <1>5, <1>6, <1>7
<1> HIDE DEF x
<1>11. /\ Append(L, x) \in Seq(Seq(Line)) /\ Len(Append(L, x)) = n + 1
       /\ (\A i \in 1 .. n : Append(L, x)[i] = L[i]) /\ Append(L, x)[n + 1] = x
  <2>1. /\ Append(L, x) \in Seq(Seq(Line)) /\ Len(Append(L, x)) = Len(L) + 1
        /\ (\A i \in 1 .. Len(L) : Append(L, x)[i] = L[i])
        /\ Append(L, x)[Len(L) + 1] = x
    BY <1>3, <1>4, AppendProperties
  <2> QED BY <1>4, <2>1
<1>12. K = Append(L, x)
  <2>1. \A i \in 1 .. Len(K) : K[i] = Append(L, x)[i]
    <3> SUFFICES ASSUME NEW i \in 1 .. Len(K) PROVE K[i] = Append(L, x)[i]
      OBVIOUS
    <3>1. i \in 1 .. n \/ i = n + 1
      BY <1>2, <1>5
    <3> QED BY <1>9, <1>10, <1>11, <3>1
  <2> QED BY <1>5, <1>11, <2>1, SeqEqual
<1>13. FlattenSeq(K) = FlattenSeq(L) \o x
  BY <1>3, <1>4, <1>12, FlattenAppend
<1> QED BY <1>13 DEF K, L, x, a, n

(* The file ends with a record cut short.                                  *)
EndsCut(s, m) == Len(s) > m /\ s[Len(s)].cut # "none"

LEMMA EndsAppended ==
    ASSUME NEW file \in Seq(Line), NEW r \in Records
    PROVE  Unfinished(AppendTo(file, r)) <=> r.cut # "none"
<1>1. \A front \in Seq(Line), line \in Line :
          Unfinished(Append(front, line)) <=> Last(line).cut # "none"
  BY AppendProperties, LastAndFront DEF Unfinished
<1>2. CASE ~Unfinished(file)
  <2>1. <<r>> \in Line /\ Last(<<r>>) = r
    BY DEF Line, Last
  <2> QED BY <1>1, <1>2, <2>1 DEF AppendTo
<1>3. CASE Unfinished(file)
  <2>1. PICK front \in Seq(Line), line \in Line : file = Append(front, line)
    BY <1>3, SequenceEmptyOrAppend DEF Unfinished
  <2>2. Last(file) = line /\ Front(file) = front
    BY <2>1, LastAndFront
  <2>3. line \in Seq(Records)
    BY DEF Line
  <2>4. Append(line, r) \in Line /\ Last(Append(line, r)) = r
    <3>1. Append(line, r) \in Seq(Records) /\ Append(line, r) # <<>>
      BY <2>3, AppendProperties
    <3>2. Last(Append(line, r)) = r
      BY <2>3, LastAndFront
    <3> QED BY <3>1, <3>2 DEF Line
  <2>5. AppendTo(file, r) = Append(front, Append(line, r))
    <3>1. AppendTo(file, r) = front \o <<Append(line, r)>>
      BY <1>3, <2>2, Zenon DEF AppendTo
    <3> QED BY <2>4, <3>1, AppendIsConcat
  <2> QED BY <1>1, <2>4, <2>5
<1> QED BY <1>2, <1>3

LEMMA ListingAppended ==
    ASSUME NEW file \in Seq(Line), NEW s \in Seq(Records), NEW m \in 0 .. Len(s),
           NEW r \in Records, NEW kind, NEW who, NEW startDate, NEW endDate,
           Unfinished(file) <=> EndsCut(s, m),
           FlattenSeq(ListOf(file, kind, who, startDate, endDate))
             = FlattenSeq(ExpectedOf(s, m, kind, who, startDate, endDate))
    PROVE  FlattenSeq(ListOf(AppendTo(file, r), kind, who, startDate, endDate))
             = FlattenSeq(ExpectedOf(Append(s, r), m, kind, who, startDate, endDate))
<1> DEFINE E == FlattenSeq(ExpectedOf(s, m, kind, who, startDate, endDate))
<1>1. Len(s) \in Nat
  BY LenProperties
<1>2. E \in Seq(Line)
  BY ExpectedType, FlattenType
<1>3. CASE Unfinished(file)
  <2>1. ListOf(AppendTo(file, r), kind, who, startDate, endDate)
          = ListOf(file, kind, who, startDate, endDate)
    BY <1>3, ListUnfinished
  <2>2. ~(Len(s) = m \/ s[Len(s)].cut = "none")
    BY <1>1, <1>3 DEF EndsCut
  <2>3. FlattenSeq(ExpectedOf(Append(s, r), m, kind, who, startDate, endDate))
          = E \o <<>>
    <3>1. FlattenSeq(ExpectedOf(Append(s, r), m, kind, who, startDate, endDate))
            = E \o (IF /\ r.cut = "none" /\ (Len(s) = m \/ s[Len(s)].cut = "none")
                       /\ Matches(r, kind, who, startDate, endDate)
                      THEN << <<r>> >> ELSE <<>>)
      BY ExpectedAppended
    <3> QED BY <2>2, <3>1, Zenon
  <2>4. E \o <<>> = E
    BY <1>2, ConcatEmptySeq
  <2> QED BY <2>1, <2>3, <2>4
<1>4. CASE ~Unfinished(file)
  <2>1. Len(s) = m \/ s[Len(s)].cut = "none"
    BY <1>1, <1>4 DEF EndsCut
  <2> DEFINE x == IF r.cut = "none" /\ Matches(r, kind, who, startDate, endDate)
                    THEN << <<r>> >> ELSE <<>>
  <2>2. FlattenSeq(ListOf(AppendTo(file, r), kind, who, startDate, endDate))
          = FlattenSeq(ListOf(file, kind, who, startDate, endDate)) \o x
    BY <1>4, ListAppended
  <2>3. FlattenSeq(ExpectedOf(Append(s, r), m, kind, who, startDate, endDate))
          = E \o x
    BY <2>1, ExpectedAppended
  <2> HIDE DEF x
  <2> QED BY <2>2, <2>3
<1> QED BY <1>3, <1>4

(* After the file has been moved aside, it holds the one record.           *)
LEMMA ListingRotated ==
    ASSUME NEW s \in Seq(Records), NEW r \in Records,
           NEW kind, NEW who, NEW startDate, NEW endDate
    PROVE  FlattenSeq(ListOf(AppendTo(<<>>, r), kind, who, startDate, endDate))
             = FlattenSeq(ExpectedOf(Append(s, r), Len(s), kind, who, startDate, endDate))
<1> DEFINE none == <<>>
<1>1. Len(s) \in Nat /\ Len(s) \in 0 .. Len(s)
  BY LenProperties
<1>2. none \in Seq(Line) /\ Len(none) = 0
  BY EmptySeq
<1>3. Unfinished(none) <=> EndsCut(s, Len(s))
  BY <1>1 DEF Unfinished, EndsCut
<1> HIDE DEF none
<1> DEFINE L == ListOf(none, kind, who, startDate, endDate)
           E == ExpectedOf(s, Len(s), kind, who, startDate, endDate)
<1>4. FlattenSeq(L) = <<>>
  <2>1. L \in Seq(Seq(Line)) /\ Len(L) = 0
    <3>1. \A file \in Seq(Line) :
             /\ ListOf(file, kind, who, startDate, endDate) \in Seq(Seq(Line))
             /\ Len(ListOf(file, kind, who, startDate, endDate)) = Len(file)
      BY ListType
    <3> QED BY <1>2, <3>1
  <2>2. L = <<>>
    BY <2>1, EmptySeq
  <2> QED BY <2>2, FlattenNone
<1>5. FlattenSeq(E) = <<>>
  <2>1. /\ E \in Seq(Seq(Line)) /\ Len(E) = Len(s)
        /\ \A i \in 1 .. Len(s) : E[i] =
             IF Whole(s, Len(s), i) /\ Matches(s[i], kind, who, startDate, endDate)
               THEN << <<s[i]>> >> ELSE <<>>
    BY ExpectedType
  <2>2. \A i \in 1 .. Len(s) : ~Whole(s, Len(s), i)
    BY <1>1 DEF Whole
  <2> HIDE DEF E
  <2>3. \A i \in 1 .. Len(E) : E[i] = <<>>
    BY <2>1, <2>2
  <2> QED BY <2>1, <2>3, FlattenEmpty
<1>6. FlattenSeq(L) = FlattenSeq(E)
  BY <1>4, <1>5
<1> HIDE DEF L, E
<1>7. FlattenSeq(ListOf(AppendTo(none, r), kind, who, startDate, endDate))
        = FlattenSeq(ExpectedOf(Append(s, r), Len(s), kind, who, startDate, endDate))
  <2>1. FlattenSeq(ListOf(none, kind, who, startDate, endDate))
          = FlattenSeq(ExpectedOf(s, Len(s), kind, who, startDate, endDate))
    BY <1>6 DEF L, E
  <2>2. ASSUME NEW file \in Seq(Line), Unfinished(file) <=> EndsCut(s, Len(s)),
               FlattenSeq(ListOf(file, kind, who, startDate, endDate))
                 = FlattenSeq(ExpectedOf(s, Len(s), kind, who, startDate, endDate))
        PROVE  FlattenSeq(ListOf(AppendTo(file, r), kind, who, startDate, endDate))
                 = FlattenSeq(ExpectedOf(Append(s, r), Len(s), kind, who, startDate, endDate))
    <3>1. Len(s) \in 0 .. Len(s)
      BY <1>1
    <3> QED BY <2>2, <3>1, ListingAppended
  <2> QED BY <1>2, <1>3, <2>1, <2>2, Zenon
<1> QED BY <1>7 DEF none

(* The file lacks a newline just when the last record written into it was  *)
(* cut short.                                                              *)
Tied == Unfinished(log) <=> EndsCut(written, moved)

SameLists(file, s, m) ==
    \A kind \in Kinds, who \in Questions, startDate \in Dates, endDate \in Dates :
        FlattenSeq(ListOf(file, kind, who, startDate, endDate))
          = FlattenSeq(ExpectedOf(s, m, kind, who, startDate, endDate))

Listed == Tied /\ SameLists(log, written, moved)

LEMMA ListedInit == Init => Listed
<1> SUFFICES ASSUME Init PROVE Listed
  OBVIOUS
<1>1. LogTypes
  BY LogInit
<1>2. Old \in Seq(Records) /\ Len(Old) \in Nat /\ DOMAIN Old = 1 .. Len(Old)
  BY OldAssumption, LenProperties
<1>3. /\ log \in Seq(Line) /\ Len(log) = Len(Old)
      /\ \A i \in 1 .. Len(Old) : log[i] = <<Old[i]>>
  <2>1. log = [i \in 1 .. Len(Old) |-> <<Old[i]>>]
    BY <1>2 DEF Init
  <2>2. log \in Seq(Line)
    BY <1>1 DEF LogTypes
  <2> QED BY <1>2, <2>1, <2>2
<1>4. written = Old /\ moved = 0
  BY DEF Init
<1>5. \A i \in 1 .. Len(Old) : Old[i].cut = "none"
  BY <1>2, WholeAssumption
<1>6. Tied
  <2>1. ~EndsCut(written, moved)
    BY <1>2, <1>4, <1>5 DEF EndsCut
  <2>2. ~Unfinished(log)
    <3>1. CASE log = <<>>
      BY <3>1 DEF Unfinished
    <3>2. CASE log # <<>>
      <4>1. Len(Old) \in 1 .. Len(Old)
        BY <1>2, <1>3, <3>2, EmptySeq
      <4>2. Last(log) = <<Old[Len(Old)]>>
        BY <1>3, <4>1 DEF Last
      <4>3. Last(Last(log)) = Old[Len(Old)]
        BY <4>2 DEF Last
      <4> QED BY <1>5, <4>1, <4>3 DEF Unfinished
    <3> QED BY <3>1, <3>2
  <2> QED BY <2>1, <2>2 DEF Tied
<1>7. ASSUME NEW kind \in Kinds, NEW who \in Questions,
             NEW startDate \in Dates, NEW endDate \in Dates
      PROVE  FlattenSeq(ListOf(log, kind, who, startDate, endDate))
               = FlattenSeq(ExpectedOf(written, moved, kind, who, startDate, endDate))
  <2> DEFINE L == ListOf(log, kind, who, startDate, endDate)
             E == ExpectedOf(written, moved, kind, who, startDate, endDate)
  <2>1. /\ L \in Seq(Seq(Line)) /\ Len(L) = Len(Old)
        /\ \A i \in 1 .. Len(Old) : L[i] =
              IF Lists(log[i], kind, who, startDate, endDate)
                THEN <<log[i]>> ELSE <<>>
    <3>1. /\ L \in Seq(Seq(Line)) /\ Len(L) = Len(log)
          /\ \A i \in 1 .. Len(log) : L[i] =
                IF Lists(log[i], kind, who, startDate, endDate)
                  THEN <<log[i]>> ELSE <<>>
      BY <1>3, ListType
    <3> QED BY <1>3, <3>1
  <2>2. /\ E \in Seq(Seq(Line)) /\ Len(E) = Len(Old)
        /\ \A i \in 1 .. Len(Old) : E[i] =
              IF Whole(Old, 0, i) /\ Matches(Old[i], kind, who, startDate, endDate)
                THEN << <<Old[i]>> >> ELSE <<>>
    BY <1>2, <1>4, ExpectedType
  <2> HIDE DEF L, E
  <2>3. ASSUME NEW i \in 1 .. Len(Old) PROVE L[i] = E[i]
    <3>1. log[i] = <<Old[i]>> /\ AtOnce(log[i]) /\ log[i][1] = Old[i]
      <4>1. log[i] = <<Old[i]>> /\ Old[i].cut = "none"
        BY <1>3, <1>5
      <4>2. Len(log[i]) = 1 /\ log[i][1] = Old[i]
        BY <4>1
      <4> QED BY <4>1, <4>2 DEF AtOnce
    <3>2. Lists(log[i], kind, who, startDate, endDate)
            <=> Matches(Old[i], kind, who, startDate, endDate)
      BY <3>1 DEF Lists
    <3>3. Whole(Old, 0, i)
      <4>1. i > 0 /\ (i = 0 + 1 \/ i - 1 \in 1 .. Len(Old))
        BY <1>2
      <4> QED BY <1>5, <4>1 DEF Whole
    <3> QED BY <2>1, <2>2, <3>1, <3>2, <3>3
  <2>4. L = E
    <3>1. Len(L) = Len(E) /\ \A i \in 1 .. Len(L) : L[i] = E[i]
      BY <2>1, <2>2, <2>3
    <3> QED BY <2>1, <2>2, <3>1, SeqEqual
  <2> QED BY <2>4 DEF L, E
<1> QED BY <1>6, <1>7 DEF Listed, SameLists

(* A record at the end of the file, and of what has been written.          *)
LEMMA ListedAppend ==
    ASSUME LogTypes, Listed, NEW r \in Records,
           written' = Append(written, r), log' = AppendTo(log, r),
           moved' = moved
    PROVE  Listed'
<1>1. /\ log \in Seq(Line) /\ written \in Seq(Records)
      /\ moved \in 0 .. Len(written) /\ Len(written) \in Nat
  BY LenProperties DEF LogTypes
<1>2. Unfinished(log) <=> EndsCut(written, moved)
  BY DEF Listed, Tied
<1>3. Tied'
  <2>1. Unfinished(log') <=> r.cut # "none"
    BY <1>1, EndsAppended
  <2>2. Len(written') = Len(written) + 1 /\ written'[Len(written) + 1] = r
    BY <1>1, AppendProperties
  <2>3. EndsCut(written', moved') <=> r.cut # "none"
    BY <1>1, <2>2 DEF EndsCut
  <2> QED BY <2>1, <2>3 DEF Tied
<1>4. ASSUME NEW kind \in Kinds, NEW who \in Questions,
             NEW startDate \in Dates, NEW endDate \in Dates
      PROVE  FlattenSeq(ListOf(log', kind, who, startDate, endDate))
               = FlattenSeq(ExpectedOf(written', moved', kind, who, startDate, endDate))
  <2>1. FlattenSeq(ListOf(log, kind, who, startDate, endDate))
          = FlattenSeq(ExpectedOf(written, moved, kind, who, startDate, endDate))
    BY DEF Listed, SameLists
  <2>2. FlattenSeq(ListOf(AppendTo(log, r), kind, who, startDate, endDate))
          = FlattenSeq(ExpectedOf(Append(written, r), moved, kind, who, startDate, endDate))
    BY <1>1, <1>2, <2>1, ListingAppended
  <2> QED BY <2>2
<1> QED BY <1>3, <1>4 DEF Listed, SameLists

LEMMA ListedRotates ==
    ASSUME LogTypes, NEW r \in Records, written' = Append(written, r),
           log' = AppendTo(<<>>, r), moved' = Len(written)
    PROVE  Listed'
<1>1. written \in Seq(Records) /\ Len(written) \in Nat
  BY LenProperties DEF LogTypes
<1>2. Tied'
  <2>1. <<>> \in Seq(Line)
    BY EmptySeq
  <2>2. Unfinished(log') <=> r.cut # "none"
    BY <2>1, EndsAppended
  <2>3. Len(written') = Len(written) + 1 /\ written'[Len(written) + 1] = r
    BY <1>1, AppendProperties
  <2>4. EndsCut(written', moved') <=> r.cut # "none"
    BY <1>1, <2>3 DEF EndsCut
  <2> QED BY <2>2, <2>4 DEF Tied
<1>3. ASSUME NEW kind \in Kinds, NEW who \in Questions,
             NEW startDate \in Dates, NEW endDate \in Dates
      PROVE  FlattenSeq(ListOf(log', kind, who, startDate, endDate))
               = FlattenSeq(ExpectedOf(written', moved', kind, who, startDate, endDate))
  <2>1. FlattenSeq(ListOf(AppendTo(<<>>, r), kind, who, startDate, endDate))
          = FlattenSeq(ExpectedOf(Append(written, r), Len(written), kind, who, startDate, endDate))
    BY <1>1, ListingRotated
  <2> QED BY <2>1
<1> QED BY <1>2, <1>3 DEF Listed, SameLists

LEMMA ListedStep == LogTypes /\ Listed /\ [Next]_vars => Listed'
<1> SUFFICES ASSUME LogTypes, Listed, [Next]_vars PROVE Listed'
  OBVIOUS
<1>1. ASSUME UNCHANGED <<log, written, moved>> PROVE Listed'
  BY <1>1 DEF Listed, Tied, SameLists
<1>2. CASE Tick
  BY <1>1, <1>2 DEF Tick
<1>3. ASSUME NEW u \in Users, NEW n \in Names, ChangeName(u, n) PROVE Listed'
  BY <1>1, <1>3 DEF ChangeName
<1>4. CASE UNCHANGED vars
  BY <1>1, <1>4 DEF vars
<1>5. ASSUME NEW u \in Users, NEW v \in Users, NEW cut \in Stops \cup {"none"},
             logTransaction(u, v, cut)
      PROVE  Listed'
  <2> DEFINE r == Record("transfer", u, v, cut)
  <2>1. r \in Records
    BY Recorded
  <2>2. written' = Append(written, r) /\ log' = AppendTo(log, r) /\ moved' = moved
    BY <1>5 DEF logTransaction, Written
  <2> HIDE DEF r
  <2> QED BY <2>1, <2>2, ListedAppend
<1>6. ASSUME NEW u \in Users \cup {Admin}, NEW cut \in Stops \cup {"none"},
             logPointEditTransaction(u, cut)
      PROVE  Listed'
  <2> DEFINE r == Record("edit", Admin, u, cut)
  <2>1. r \in Records
    BY Recorded
  <2>2. /\ written' = Append(written, r)
        /\ IF Rotates
             THEN log' = AppendTo(<<>>, r) /\ moved' = Len(written)
             ELSE log' = AppendTo(log, r) /\ moved' = moved
    BY <1>6 DEF logPointEditTransaction, Written
  <2> HIDE DEF r
  <2> QED BY <2>1, <2>2, ListedAppend, ListedRotates
<1> QED BY <1>2, <1>3, <1>4, <1>5, <1>6, LogAssumption DEF Next

(* What a listing reads out of a line that was written at once, or out of  *)
(* none.                                                                   *)
LEMMA ReadsAtOnce ==
    ASSUME NEW line \in Line, AtOnce(line), NEW kind
    PROVE  Reads(line, kind) = IF line[1].kind = kind THEN {line} ELSE {}
<1>1. /\ line \in Seq(Records) /\ Len(line) = 1 /\ line[1].cut = "none"
      /\ DOMAIN line = {1} /\ Last(line) = line[1]
  BY LenProperties DEF Line, AtOnce, Last
<1>2. SubSeq(line, 1, 1) = line
  <2>1. /\ SubSeq(line, 1, 1) \in Seq(Records) /\ Len(SubSeq(line, 1, 1)) = 1
        /\ SubSeq(line, 1, 1)[1] = line[1]
    BY <1>1, SubSeqProperties
  <2>2. \A i \in 1 .. 1 : SubSeq(line, 1, 1)[i] = line[i]
    BY <2>1
  <2> QED BY <1>1, <2>1, <2>2, SeqEqual
<1>3. /\ Starts(line, 1) /\ Continues(line, 1, 1)
      /\ Finishes(line, kind, 1) <=> line[1].kind = kind
  BY <1>1 DEF Starts, Continues, Finishes, BeforeName, BeforeUser
<1>4. CASE line[1].kind = kind
  <2> DEFINE pairs == {xy \in (DOMAIN line) \X (DOMAIN line) :
                /\ Starts(line, xy[1]) /\ line[xy[1]].kind = kind
                /\ Continues(line, xy[1], xy[2]) /\ line[xy[2]].kind = kind
                /\ Finishes(line, kind, xy[2])}
  <2>1. \A xy \in {1} \X {1} : xy = <<1, 1>>
    OBVIOUS
  <2>2. <<1, 1>> \in {1} \X {1} /\ <<1, 1>>[1] = 1 /\ <<1, 1>>[2] = 1
    OBVIOUS
  <2>3. <<1, 1>> \in pairs
    BY <1>1, <1>3, <1>4, <2>2
  <2>4. \A xy \in pairs : xy = <<1, 1>>
    BY <1>1, <2>1
  <2>5. Reads(line, kind) = {SubSeq(line, xy[1], xy[2]) : xy \in pairs}
    BY DEF Reads
  <2> HIDE DEF pairs
  <2>6. \A xy \in pairs : SubSeq(line, xy[1], xy[2]) = line
    BY <1>2, <2>2, <2>4
  <2>7. Reads(line, kind) = {line}
    BY <2>3, <2>5, <2>6
  <2> QED BY <1>4, <2>7
<1>5. CASE line[1].kind # kind
  <2>1. \A xy \in {1} \X {1} : xy[1] = 1
    OBVIOUS
  <2>2. Reads(line, kind) = {}
    BY <1>1, <1>5, <2>1 DEF Reads
  <2> QED BY <1>5, <2>2
<1> QED BY <1>4, <1>5

LEMMA ReadsBlank ==
    ASSUME NEW kind PROVE Reads(Blank, kind) = {}
<1>1. DOMAIN Blank = {}
  BY DEF Blank
<1> QED BY <1>1 DEF Reads

(* Of the file without its damaged lines a listing shows what is listed of *)
(* the lines written at once.                                              *)
LEMMA UndamagedListed ==
    ASSUME LogTypes, NEW kind, NEW who, NEW startDate, NEW endDate
    PROVE  Listing(Undamaged, kind, who, startDate, endDate)
             = FlattenSeq(ListOf(log, kind, who, startDate, endDate))
<1> DEFINE sound(i) == IF AtOnce(log[i]) THEN log[i] ELSE Blank
           show(i) == Shown(Undamaged[i], kind, who, startDate, endDate)
           list(i) == IF Lists(log[i], kind, who, startDate, endDate)
                        THEN <<log[i]>> ELSE <<>>
<1>1. Undamaged = [i \in DOMAIN log |-> sound(i)]
  BY DEF Undamaged, AtOnce
<1>2. ASSUME NEW i \in DOMAIN log PROVE show(i) = list(i)
  <2>1. log[i] \in Line
    BY ElementOfSeq, LenProperties DEF LogTypes
  <2>2. Undamaged[i] = sound(i)
    BY <1>1
  <2>3. CASE ~AtOnce(log[i])
    <3>1. Undamaged[i] = Blank
      BY <2>2, <2>3
    <3>2. show(i) = <<>>
      BY <3>1, ReadsBlank DEF Shown
    <3> QED BY <2>3, <3>2 DEF Lists
  <2>4. CASE AtOnce(log[i])
    <3> DEFINE line == log[i]
               hits == {x \in Reads(line, kind) :
                          /\ isWithinTimeRange(x[1], startDate, endDate)
                          /\ About(x, who)}
    <3>1. Undamaged[i] = line
      BY <2>2, <2>4
    <3>2. Reads(line, kind) = IF line[1].kind = kind THEN {line} ELSE {}
      BY <2>1, <2>4, ReadsAtOnce
    <3>3. <<line[1]>> = line
      <4>1. line \in Seq(Records) /\ Len(line) = 1
        BY <2>1, <2>4 DEF Line, AtOnce
      <4> HIDE DEF line
      <4> QED BY <4>1
    <3>4. show(i) = IF hits = {} THEN <<>> ELSE <<CHOOSE x \in hits : TRUE>>
      BY <3>1 DEF Shown
    <3>5. Matches(line[1], kind, who, startDate, endDate)
             <=> /\ line[1].kind = kind
                 /\ isWithinTimeRange(line[1], startDate, endDate)
                 /\ About(line, who)
      BY <3>3 DEF Matches
    <3>6. Lists(line, kind, who, startDate, endDate)
             <=> Matches(line[1], kind, who, startDate, endDate)
      BY <2>4 DEF Lists
    <3> HIDE DEF line
    <3>7. CASE Matches(line[1], kind, who, startDate, endDate)
      <4>1. hits = {line}
        BY <3>2, <3>5, <3>7
      <4> HIDE DEF hits
      <4>2. (CHOOSE x \in hits : TRUE) = line
        BY <4>1
      <4>3. show(i) = <<line>>
        BY <3>4, <4>1, <4>2
      <4> QED BY <3>6, <3>7, <4>3 DEF line
    <3>8. CASE ~Matches(line[1], kind, who, startDate, endDate)
      <4>1. hits = {}
        BY <3>2, <3>5, <3>8
      <4> HIDE DEF hits
      <4>2. show(i) = <<>>
        BY <3>4, <4>1
      <4> QED BY <3>6, <3>8, <4>2 DEF line
    <3> QED BY <3>7, <3>8
  <2> QED BY <2>3, <2>4
<1>3. /\ Listing(Undamaged, kind, who, startDate, endDate)
           = FlattenSeq([i \in DOMAIN Undamaged |-> show(i)])
      /\ ListOf(log, kind, who, startDate, endDate)
           = [i \in DOMAIN log |-> list(i)]
  BY DEF Listing, ListOf
<1>4. DOMAIN Undamaged = DOMAIN log
  BY <1>1
<1> HIDE DEF show, list
<1>5. [i \in DOMAIN Undamaged |-> show(i)] = [i \in DOMAIN log |-> list(i)]
  BY <1>2, <1>4
<1> QED BY <1>3, <1>5

LEMMA ExpectedIs ==
    ASSUME LogTypes, NEW kind, NEW who, NEW startDate \in Dates, NEW endDate \in Dates
    PROVE  /\ Listing(Undamaged, kind, who, startDate, endDate)
                = FlattenSeq(ListOf(log, kind, who, startDate, endDate))
           /\ Expected(kind, who, startDate, endDate)
                = FlattenSeq(ExpectedOf(written, moved, kind, who, startDate, endDate))
<1>1. Listing(Undamaged, kind, who, startDate, endDate)
        = FlattenSeq(ListOf(log, kind, who, startDate, endDate))
  BY UndamagedListed
<1> DEFINE d(i) == IF Due(i, kind, who, startDate, endDate)
                     THEN << <<written[i]>> >> ELSE <<>>
           e(i) == IF /\ Whole(written, moved, i)
                      /\ Matches(written[i], kind, who, startDate, endDate)
                     THEN << <<written[i]>> >> ELSE <<>>
<1>2. ASSUME NEW i \in DOMAIN written PROVE d(i) = e(i)
  <2>1. written[i] \in Records
    BY ElementOfSeq, LenProperties DEF LogTypes
  <2>2. isWithinTimeRange(written[i], startDate, endDate)
          <=> InPeriod(written[i], startDate, endDate)
    BY <2>1, PeriodOfDays DEF Dates
  <2>3. Due(i, kind, who, startDate, endDate)
          <=> /\ Whole(written, moved, i)
              /\ Matches(written[i], kind, who, startDate, endDate)
    BY <2>2 DEF Due, Alone, Whole, Matches
  <2> QED BY <2>3
<1>3. /\ Expected(kind, who, startDate, endDate) = FlattenSeq([i \in DOMAIN written |-> d(i)])
      /\ ExpectedOf(written, moved, kind, who, startDate, endDate)
           = [i \in DOMAIN written |-> e(i)]
  BY DEF Expected, ExpectedOf
<1> HIDE DEF d, e
<1>4. [i \in DOMAIN written |-> d(i)] = [i \in DOMAIN written |-> e(i)]
  BY <1>2
<1> QED BY <1>1, <1>3, <1>4

-----------------------------------------------------------------------------
(* Where the lines of the file stand among what has been written           *)

(* The line holds the records behind the first i of s, of which all but    *)
(* the last were cut short.                                                *)
StandsAt(line, i, s) ==
    /\ i + Len(line) <= Len(s)
    /\ \A j \in 1 .. Len(line) : line[j] = s[i + j]
    /\ \A j \in 1 .. Len(line) - 1 : line[j].cut # "none"

Placed(file, s, m) ==
    \A l \in 1 .. Len(file) :
        \E i \in m .. Len(s) :
            /\ StandsAt(file[l], i, s)
            /\ l = Len(file) => i + Len(file[l]) = Len(s)

(* A line of one record stands at the end of what is written with it.      *)
LEMMA NewLine ==
    ASSUME NEW s \in Seq(Records), NEW r \in Records
    PROVE  /\ StandsAt(<<r>>, Len(s), Append(s, r))
           /\ Len(s) + Len(<<r>>) = Len(Append(s, r))
<1>1. Len(s) \in Nat /\ Len(Append(s, r)) = Len(s) + 1
      /\ Append(s, r)[Len(s) + 1] = r
  BY AppendProperties, LenProperties
<1>2. Len(<<r>>) = 1 /\ <<r>>[1] = r
  OBVIOUS
<1> DEFINE line == <<r>>
           t == Append(s, r)
<1> HIDE DEF line, t
<1>3. /\ Len(s) \in Nat /\ Len(t) = Len(s) + 1 /\ t[Len(s) + 1] = r
      /\ Len(line) = 1 /\ line[1] = r
  BY <1>1, <1>2 DEF line, t
<1>4. StandsAt(line, Len(s), t) /\ Len(s) + Len(line) = Len(t)
  BY <1>3 DEF StandsAt
<1> QED BY <1>4 DEF line, t

(* What stands somewhere stays there when more is written.                 *)
LEMMA StandsStill ==
    ASSUME NEW s \in Seq(Records), NEW r \in Records,
           NEW line \in Seq(Records), NEW i \in Nat, StandsAt(line, i, s)
    PROVE  StandsAt(line, i, Append(s, r))
<1> DEFINE t == Append(s, r)
<1>1. /\ Len(s) \in Nat /\ Len(t) = Len(s) + 1
      /\ \A j \in 1 .. Len(s) : t[j] = s[j]
  BY AppendProperties, LenProperties
<1>2. Len(line) \in Nat
  BY LenProperties
<1> HIDE DEF t
<1>3. \A j \in 1 .. Len(line) : line[j] = t[i + j]
  <2> SUFFICES ASSUME NEW j \in 1 .. Len(line) PROVE line[j] = t[i + j]
    OBVIOUS
  <2>1. i + j \in 1 .. Len(s)
    BY <1>1, <1>2 DEF StandsAt
  <2>2. line[j] = s[i + j]
    BY DEF StandsAt
  <2> QED BY <1>1, <2>1, <2>2
<1>4. StandsAt(line, i, t)
  BY <1>1, <1>2, <1>3 DEF StandsAt
<1> QED BY <1>4 DEF t

(* A line at the end that lacks its newline takes the next record.         *)
LEMMA LineGrows ==
    ASSUME NEW s \in Seq(Records), NEW r \in Records, NEW line \in Line,
           NEW i \in Nat, StandsAt(line, i, s), i + Len(line) = Len(s),
           Last(line).cut # "none"
    PROVE  /\ StandsAt(Append(line, r), i, Append(s, r))
           /\ i + Len(Append(line, r)) = Len(Append(s, r))
<1> DEFINE t == Append(s, r)
           new == Append(line, r)
<1>1. /\ Len(s) \in Nat /\ Len(t) = Len(s) + 1 /\ t[Len(s) + 1] = r
      /\ \A j \in 1 .. Len(s) : t[j] = s[j]
  BY AppendProperties, LenProperties
<1>2. line \in Seq(Records) /\ Len(line) \in Nat \ {0}
  BY EmptySeq, LenProperties DEF Line
<1>3. /\ Len(new) = Len(line) + 1 /\ new[Len(line) + 1] = r
      /\ \A j \in 1 .. Len(line) : new[j] = line[j]
  BY <1>2, AppendProperties
<1> HIDE DEF t, new
<1>4. ASSUME NEW j \in 1 .. Len(new) PROVE new[j] = t[i + j]
  <2>1. CASE j \in 1 .. Len(line)
    <3>1. i + j \in 1 .. Len(s) /\ line[j] = s[i + j]
      BY <1>1, <1>2, <2>1 DEF StandsAt
    <3> QED BY <1>1, <1>3, <2>1, <3>1
  <2>2. CASE j = Len(line) + 1
    <3>1. i + j = Len(s) + 1
      BY <1>1, <1>2, <2>2
    <3> QED BY <1>1, <1>3, <2>2, <3>1
  <2> QED BY <1>2, <1>3, <2>1, <2>2
<1>5. ASSUME NEW j \in 1 .. Len(new) - 1 PROVE new[j].cut # "none"
  <2>1. j \in 1 .. Len(line)
    BY <1>2, <1>3
  <2>2. CASE j = Len(line)
    BY <1>3, <2>1, <2>2 DEF Last
  <2>3. CASE j # Len(line)
    <3>1. j \in 1 .. Len(line) - 1
      BY <1>2, <2>1, <2>3
    <3>2. line[j].cut # "none"
      BY <3>1 DEF StandsAt
    <3> QED BY <1>3, <2>1, <3>2
  <2> QED BY <2>2, <2>3
<1>6. i + Len(new) = Len(t)
  BY <1>1, <1>2, <1>3
<1>7. StandsAt(new, i, t)
  BY <1>1, <1>2, <1>3, <1>4, <1>5, <1>6 DEF StandsAt
<1> QED BY <1>6, <1>7 DEF t, new

LEMMA PlacedAppended ==
    ASSUME NEW file \in Seq(Line), NEW s \in Seq(Records), NEW m \in 0 .. Len(s),
           NEW r \in Records, Placed(file, s, m)
    PROVE  Placed(AppendTo(file, r), Append(s, r), m)
<1> DEFINE t == Append(s, r)
<1>1. Len(s) \in Nat /\ Len(t) = Len(s) + 1
  BY AppendProperties, LenProperties
<1>2. \A front \in Seq(Line), line \in Line :
         LET new == Append(front, line)
         IN  /\ Len(front) \in Nat /\ Len(new) = Len(front) + 1
             /\ \A l \in 1 .. Len(front) : new[l] = front[l]
             /\ new[Len(front) + 1] = line
  BY AppendProperties, LenProperties
<1>3. ASSUME NEW front \in Seq(Line), NEW line \in Line, NEW i \in m .. Len(t),
             StandsAt(line, i, t), i + Len(line) = Len(t),
             \A l \in 1 .. Len(front) :
                \E k \in m .. Len(s) : StandsAt(front[l], k, s)
      PROVE  Placed(Append(front, line), t, m)
  <2> DEFINE new == Append(front, line)
  <2>1. /\ Len(front) \in Nat /\ Len(new) = Len(front) + 1
        /\ \A l \in 1 .. Len(front) : new[l] = front[l]
        /\ new[Len(front) + 1] = line
    BY <1>2
  <2> HIDE DEF new
  <2>2. ASSUME NEW l \in 1 .. Len(new)
        PROVE  \E k \in m .. Len(t) :
                  /\ StandsAt(new[l], k, t)
                  /\ l = Len(new) => k + Len(new[l]) = Len(t)
    <3>1. CASE l = Len(front) + 1
      BY <1>3, <2>1, <3>1
    <3>2. CASE l \in 1 .. Len(front)
      <4>1. PICK k \in m .. Len(s) : StandsAt(front[l], k, s)
        BY <1>3, <3>2
      <4>2. front[l] \in Seq(Records) /\ k \in Nat
        BY <1>1, <3>2, ElementOfSeq DEF Line
      <4>3. StandsAt(front[l], k, t)
        BY <4>1, <4>2, StandsStill
      <4>4. k \in m .. Len(t) /\ l # Len(new)
        BY <1>1, <2>1, <3>2
      <4>5. new[l] = front[l]
        BY <2>1, <3>2
      <4> QED BY <4>3, <4>4, <4>5
    <3> QED BY <2>1, <3>1, <3>2
  <2>3. Placed(new, t, m)
    BY <2>2 DEF Placed
  <2> QED BY <2>3 DEF new
<1>4. CASE ~Unfinished(file)
  <2>1. AppendTo(file, r) = Append(file, <<r>>) /\ <<r>> \in Line
    BY <1>4 DEF AppendTo, Line
  <2>2. StandsAt(<<r>>, Len(s), t) /\ Len(s) + Len(<<r>>) = Len(t)
    BY NewLine
  <2>3. Len(s) \in m .. Len(t)
    BY <1>1
  <2>4. \A l \in 1 .. Len(file) : \E k \in m .. Len(s) : StandsAt(file[l], k, s)
    BY DEF Placed
  <2> QED BY <1>3, <2>1, <2>2, <2>3, <2>4
<1>5. CASE Unfinished(file)
  <2>1. PICK front \in Seq(Line), line \in Line : file = Append(front, line)
    BY <1>5, SequenceEmptyOrAppend DEF Unfinished
  <2>2. Last(file) = line /\ Front(file) = front
    BY <2>1, LastAndFront
  <2>3. line \in Seq(Records) /\ Append(line, r) \in Line
    <3>1. line \in Seq(Records)
      BY DEF Line
    <3>2. Append(line, r) \in Seq(Records) /\ Append(line, r) # <<>>
      BY <3>1, AppendProperties
    <3> QED BY <3>1, <3>2 DEF Line
  <2>4. AppendTo(file, r) = Append(front, Append(line, r))
    <3>1. AppendTo(file, r) = front \o <<Append(line, r)>>
      BY <1>5, <2>2, Zenon DEF AppendTo
    <3> QED BY <2>3, <3>1, AppendIsConcat
  <2>5. /\ Len(front) \in Nat /\ Len(file) = Len(front) + 1
        /\ \A l \in 1 .. Len(front) : file[l] = front[l]
        /\ file[Len(front) + 1] = line
    BY <1>2, <2>1
  <2>6. PICK i \in m .. Len(s) : StandsAt(line, i, s) /\ i + Len(line) = Len(s)
    <3>1. Len(front) + 1 \in 1 .. Len(file)
      BY <2>5
    <3> QED BY <2>5, <3>1 DEF Placed
  <2>7. Last(line).cut # "none"
    BY <1>5, <2>2, Zenon DEF Unfinished
  <2>8. i \in Nat /\ i \in m .. Len(t)
    BY <1>1
  <2>9. StandsAt(Append(line, r), i, t) /\ i + Len(Append(line, r)) = Len(t)
    BY <2>6, <2>7, <2>8, LineGrows
  <2>10. ASSUME NEW l \in 1 .. Len(front)
         PROVE  \E k \in m .. Len(s) : StandsAt(front[l], k, s)
    <3>1. l \in 1 .. Len(file) /\ file[l] = front[l]
      BY <2>5
    <3> QED BY <3>1 DEF Placed
  <2> QED BY <1>3, <2>3, <2>4, <2>8, <2>9, <2>10
<1> QED BY <1>4, <1>5

InPlace == Placed(log, written, moved)

LEMMA PlacedInit == Init => InPlace
<1> SUFFICES ASSUME Init PROVE InPlace
  OBVIOUS
<1>1. Old \in Seq(Records) /\ Len(Old) \in Nat /\ DOMAIN Old = 1 .. Len(Old)
  BY OldAssumption, LenProperties
<1>2. written = Old /\ moved = 0
  BY DEF Init
<1>3. Len(log) = Len(Old) /\ \A l \in 1 .. Len(Old) : log[l] = <<Old[l]>>
  BY <1>1 DEF Init
<1>4. ASSUME NEW l \in 1 .. Len(log)
      PROVE  \E i \in moved .. Len(written) :
                /\ StandsAt(log[l], i, written)
                /\ l = Len(log) => i + Len(log[l]) = Len(written)
  <2> DEFINE k == l - 1
             line == log[l]
  <2>1. k \in 0 .. Len(Old) /\ k + 1 = l /\ k + 1 <= Len(Old)
    BY <1>1, <1>3
  <2>2. Len(line) = 1 /\ line[1] = Old[l]
    <3>1. line = <<Old[l]>>
      BY <1>3
    <3> QED BY <3>1
  <2> HIDE DEF k, line
  <2>3. \A j \in 1 .. Len(line) : line[j] = Old[k + j]
    <3>1. \A j \in 1 .. Len(line) : j = 1
      BY <2>2
    <3>2. line[1] = Old[k + 1]
      BY <2>1, <2>2, Zenon
    <3> QED BY <3>1, <3>2
  <2>4. \A j \in 1 .. Len(line) - 1 : FALSE
    BY <2>2
  <2>5. StandsAt(line, k, Old)
    BY <2>1, <2>2, <2>3, <2>4 DEF StandsAt
  <2>6. l = Len(log) => k + Len(line) = Len(Old)
    BY <1>3, <2>1, <2>2
  <2> QED BY <1>2, <2>1, <2>5, <2>6 DEF line
<1> QED BY <1>4 DEF InPlace, Placed

LEMMA PlacedStep == LogTypes /\ InPlace /\ [Next]_vars => InPlace'
<1> SUFFICES ASSUME LogTypes, InPlace, [Next]_vars PROVE InPlace'
  OBVIOUS
<1>0. /\ log \in Seq(Line) /\ written \in Seq(Records)
      /\ moved \in 0 .. Len(written) /\ Len(written) \in Nat
  BY LenProperties DEF LogTypes
<1>1. ASSUME UNCHANGED <<log, written, moved>> PROVE InPlace'
  BY <1>1 DEF InPlace
<1>2. CASE Tick
  BY <1>1, <1>2 DEF Tick
<1>3. ASSUME NEW u \in Users, NEW n \in Names, ChangeName(u, n) PROVE InPlace'
  BY <1>1, <1>3 DEF ChangeName
<1>4. CASE UNCHANGED vars
  BY <1>1, <1>4 DEF vars
<1>5. ASSUME NEW r \in Records, written' = Append(written, r),
             log' = AppendTo(log, r), moved' = moved
      PROVE  InPlace'
  BY <1>0, <1>5, PlacedAppended DEF InPlace
<1>6. ASSUME NEW r \in Records, written' = Append(written, r),
             log' = AppendTo(<<>>, r), moved' = Len(written)
      PROVE  InPlace'
  <2> DEFINE none == <<>>
  <2>1. none \in Seq(Line) /\ Len(none) = 0
    BY EmptySeq
  <2> HIDE DEF none
  <2>2. Placed(none, written, Len(written))
    BY <2>1 DEF Placed
  <2>3. Len(written) \in 0 .. Len(written)
    BY <1>0
  <2>4. Placed(AppendTo(none, r), Append(written, r), Len(written))
    BY <1>0, <2>1, <2>2, <2>3, PlacedAppended
  <2> QED BY <1>6, <2>4 DEF InPlace, none
<1>7. ASSUME NEW u \in Users, NEW v \in Users, NEW cut \in Stops \cup {"none"},
             logTransaction(u, v, cut)
      PROVE  InPlace'
  <2> DEFINE r == Record("transfer", u, v, cut)
  <2>1. r \in Records
    BY Recorded
  <2>2. written' = Append(written, r) /\ log' = AppendTo(log, r) /\ moved' = moved
    BY <1>7 DEF logTransaction, Written
  <2> HIDE DEF r
  <2> QED BY <1>5, <2>1, <2>2
<1>8. ASSUME NEW u \in Users \cup {Admin}, NEW cut \in Stops \cup {"none"},
             logPointEditTransaction(u, cut)
      PROVE  InPlace'
  <2> DEFINE r == Record("edit", Admin, u, cut)
  <2>1. r \in Records
    BY Recorded
  <2>2. /\ written' = Append(written, r)
        /\ IF Rotates
             THEN log' = AppendTo(<<>>, r) /\ moved' = Len(written)
             ELSE log' = AppendTo(log, r) /\ moved' = moved
    BY <1>8 DEF logPointEditTransaction, Written
  <2> HIDE DEF r
  <2> QED BY <1>5, <1>6, <2>1, <2>2
<1> QED BY <1>2, <1>3, <1>4, <1>7, <1>8, LogAssumption DEF Next

(* A part of a line of the file is of records that stand in the file one   *)
(* behind the other, over writes that stopped short.                       *)
LEMMA PartIsConsecutive ==
    ASSUME LogTypes, InPlace, NEW l \in DOMAIN log,
           NEW x \in DOMAIN log[l], NEW y \in DOMAIN log[l], x <= y
    PROVE  /\ SubSeq(log[l], x, y) \in Seq(Records)
           /\ Consecutive(SubSeq(log[l], x, y))
<1> DEFINE line == log[l]
           part == SubSeq(log[l], x, y)
<1>1. /\ line \in Seq(Records) /\ Len(line) \in Nat
      /\ x \in 1 .. Len(line) /\ y \in 1 .. Len(line)
  BY ElementOfSeq, LenProperties DEF LogTypes, Line
<1>2. l \in 1 .. Len(log)
  BY LenProperties DEF LogTypes
<1>3. PICK i \in moved .. Len(written) : StandsAt(line, i, written)
  BY <1>2 DEF InPlace, Placed
<1>4. /\ moved \in Nat /\ Len(written) \in Nat
  BY LenProperties DEF LogTypes
<1>5. /\ part \in Seq(Records) /\ Len(part) = y - x + 1
      /\ \A j \in 1 .. y - x + 1 : part[j] = line[x + j - 1]
  <2>1. \A j \in x .. y : line[j] \in Records
    BY <1>1, ElementOfSeq
  <2>2. x \in Int /\ y \in Int
    BY <1>1
  <2> QED BY <2>1, <2>2, SubSeqProperties
<1> HIDE DEF line, part
<1> DEFINE k == i + x - 1
<1>6. k \in moved .. Len(written) /\ k + Len(part) <= Len(written)
  <2>1. i + Len(line) <= Len(written)
    BY <1>3 DEF StandsAt
  <2> QED BY <1>1, <1>4, <1>5, <2>1
<1>7. ASSUME NEW j \in 1 .. Len(part) PROVE part[j] = written[k + j]
  <2>1. x + j - 1 \in 1 .. Len(line) /\ i + (x + j - 1) = k + j
    BY <1>1, <1>5
  <2>2. line[x + j - 1] = written[i + (x + j - 1)]
    BY <1>3, <2>1 DEF StandsAt
  <2>3. part[j] = line[x + j - 1]
    BY <1>5
  <2> QED BY <2>1, <2>2, <2>3
<1>8. ASSUME NEW j \in 1 .. Len(part) - 1 PROVE part[j].cut # "none"
  <2>1. x + j - 1 \in 1 .. Len(line) - 1 /\ j \in 1 .. Len(part)
    BY <1>1, <1>5
  <2>2. line[x + j - 1].cut # "none"
    BY <1>3, <2>1 DEF StandsAt
  <2>3. part[j] = line[x + j - 1]
    BY <1>5, <2>1
  <2> QED BY <2>2, <2>3
<1> HIDE DEF k
<1>9. Consecutive(part)
  BY <1>6, <1>7, <1>8 DEF Consecutive
<1> QED BY <1>5, <1>9 DEF part

LEMMA ListedConsecutive ==
    ASSUME LogTypes, InPlace, NEW kind, NEW who, NEW startDate, NEW endDate
    PROVE  \A reading \in Range(Listing(log, kind, who, startDate, endDate)) :
              Consecutive(reading)
<1> DEFINE C == {part \in Seq(Records) : Consecutive(part)}
           show(l) == Shown(log[l], kind, who, startDate, endDate)
           S == [l \in DOMAIN log |-> show(l)]
<1>1. ASSUME NEW l \in DOMAIN log PROVE show(l) \in Seq(C)
  <2> DEFINE hits == {x \in Reads(log[l], kind) :
                        /\ isWithinTimeRange(x[1], startDate, endDate)
                        /\ About(x, who)}
  <2>1. show(l) = IF hits = {} THEN <<>> ELSE <<CHOOSE x \in hits : TRUE>>
    BY DEF Shown
  <2>2. Reads(log[l], kind) \subseteq C
    <3> SUFFICES ASSUME NEW reading \in Reads(log[l], kind)
                 PROVE  reading \in C
      OBVIOUS
    <3>1. PICK xy \in (DOMAIN log[l]) \X (DOMAIN log[l]) :
             /\ Continues(log[l], xy[1], xy[2])
             /\ reading = SubSeq(log[l], xy[1], xy[2])
      BY DEF Reads
    <3>2. xy[1] \in DOMAIN log[l] /\ xy[2] \in DOMAIN log[l] /\ xy[1] <= xy[2]
      BY <3>1 DEF Continues
    <3> QED BY <3>1, <3>2, PartIsConsecutive
  <2>3. hits \subseteq C
    BY <2>2
  <2> HIDE DEF hits
  <2> HIDE DEF C
  <2>4. <<>> \in Seq(C)
    BY EmptySeq
  <2>5. ASSUME hits # {} PROVE <<CHOOSE x \in hits : TRUE>> \in Seq(C)
    <3>1. (CHOOSE x \in hits : TRUE) \in C
      BY <2>3, <2>5
    <3> QED BY <3>1
  <2> QED BY <2>1, <2>4, <2>5
<1>2. DOMAIN log = 1 .. Len(log) /\ Len(log) \in Nat
  BY LenProperties DEF LogTypes
<1>3. Listing(log, kind, who, startDate, endDate) = FlattenSeq(S)
  BY DEF Listing
<1>4. \A part \in C : Consecutive(part)
  OBVIOUS
<1> HIDE DEF C, show
<1>5. S \in Seq(Seq(C))
  BY <1>1, <1>2, IsASeq
<1> HIDE DEF S
<1>6. FlattenSeq(S) \in Seq(C)
  BY <1>5, FlattenType
<1>7. \A reading \in Range(FlattenSeq(S)) : reading \in C
  BY <1>6, ElementOfSeq, LenProperties DEF Range
<1> QED BY <1>3, <1>4, <1>7

(* A listing shows what is asked for and nothing else, in the order of     *)
(* writing, but for the lines in which a write stopped short; what it      *)
(* shows of those puts together neighbours of the file only. This for any  *)
(* users, names, dates typed, clocks and limits, wherever writes stopped   *)
(* and however often the file was moved.                                   *)
THEOREM ListingExactHolds == Spec => []ListingExact
<1>1. LogTypes /\ Listed /\ InPlace => ListingExact
  <2> SUFFICES ASSUME LogTypes, Listed, InPlace PROVE ListingExact
    OBVIOUS
  <2> DEFINE Exact(kind, who, startDate, endDate) ==
        /\ Listing(Undamaged, kind, who, startDate, endDate)
             = Expected(kind, who, startDate, endDate)
        /\ \A reading \in Range(Listing(log, kind, who, startDate, endDate)) :
              Consecutive(reading)
  <2>1. \A kind \in Kinds, who \in Questions, startDate \in Dates, endDate \in Dates :
           Listing(Undamaged, kind, who, startDate, endDate)
             = Expected(kind, who, startDate, endDate)
    BY ExpectedIs DEF Listed, SameLists
  <2>2. ASSUME NEW kind \in Kinds, NEW who \in Questions,
               NEW startDate \in Dates, NEW endDate \in Dates
        PROVE  Exact(kind, who, startDate, endDate)
    BY <2>1, ListedConsecutive
  <2> DEFINE All == /\ \A who \in Users \cup Names :
                          /\ Exact("transfer", who, Blank, Blank)
                          /\ who \notin Users => Exact("edit", who, Blank, Blank)
                    /\ \A startDate, endDate \in Typed \cup {Blank} :
                          /\ Exact("transfer", "All", startDate, endDate)
                          /\ Exact("edit", "All", startDate, endDate)
  <2>3. ListingExact = All
    BY DEF ListingExact
  <2> HIDE DEF Exact
  <2>4. "transfer" \in Kinds /\ "edit" \in Kinds
    BY DEF Kinds
  <2>5. All
    BY <2>2, <2>4 DEF Questions, Dates
  <2> HIDE DEF All
  <2> QED BY <2>3, <2>5
<1>2. LogTypes /\ Counted /\ OnlyTransfersOutgrow => LogTypes
  OBVIOUS
<1> QED BY <1>1, <1>2, ListedInit, ListedStep, PlacedInit, PlacedStep, LogAlways,
          PTL DEF Spec
=============================================================================
