----------------------------- MODULE MenuProofs -----------------------------
(***************************************************************************)
(* Theorems about MenuInput, for anything that may be typed: what is not   *)
(* read yet always ends with an end of line, the program ends by a typed 0 *)
(* only, and while the input lasts the menus of a user start nothing that  *)
(* was not chosen by a typed number.                                       *)
(***************************************************************************)
EXTENDS MenuInput, SequenceTheorems, NaturalsInduction, WellFoundedInduction, TLAPS

(* The form that is open belongs to a choice with a form.                  *)
FormAsked == pc = "form" => op = <<op[1], op[2]>> /\ Asks(op[1], op[2])

(* In the one menu of a user that does not clear the stream, and in the    *)
(* forms of those menus, a failed stream means that the input has ended:   *)
(* a word that eWallet could not read has sent the user back by then.      *)
FailedAtEnd ==
    /\ pc = "wallet" /\ stream = "fail" => ended
    /\ pc = "form" /\ op[1] \in UserMenus /\ stream = "fail" => ended

MenuInv == FormAsked /\ FailedAtEnd /\ GoodbyeIsTyped /\ OperationsTyped

(* The program is left from the main menu with a 0, and eWallet is reached *)
(* from the user menu and from its own operations.                         *)
LEMMA WaysIn ==
    ASSUME NEW m, NEW c
    PROVE  /\ "exited" \in Ends(m, c) => m = "main" /\ c = 0
           /\ "wallet" \in Ends(m, c) => m \in {"user", "wallet"}
           /\ "form" \notin Ends(m, c)
           /\ ~Asks("main", 0) /\ ~Asks("wallet", 0) /\ ~Asks("user", 2)
           /\ "wallet" \notin Ends("wallet", 0)
           /\ Ends("wallet", 0) # {}
<1>1. /\ "exited" \in Ends(m, c) => m = "main" /\ c = 0
      /\ "wallet" \in Ends(m, c) => m \in {"user", "wallet"}
  BY DEF Ends, Moves
<1>2. "form" \notin Ends(m, c)
  BY DEF Ends, UserMenus, AdminMenus
<1>3. ~Asks("main", 0) /\ ~Asks("wallet", 0) /\ ~Asks("user", 2)
  BY DEF Asks
<1>4. "wallet" \notin Ends("wallet", 0)
  BY DEF Ends, Moves
<1>5. "user" \in Ends("wallet", 0)
  BY DEF Ends, Moves, UserMenus
<1> QED BY <1>1, <1>2, <1>3, <1>4, <1>5

(* Where a menu may lead after it has read c.                              *)
LEMMA Dispatched ==
    ASSUME NEW m \in UserMenus \cup AdminMenus, NEW c, Dispatch(m, c)
    PROVE  /\ pc' = "form" => op' = <<m, c>> /\ Asks(m, c)
           /\ pc' = "exited" => m = "main" /\ c = 0
           /\ pc' = "wallet" => m \in {"user", "wallet"}
<1>1. CASE Ends(m, c) = {}
  BY <1>1 DEF Dispatch, UserMenus, AdminMenus
<1>2. CASE Ends(m, c) # {} /\ Asks(m, c)
  BY <1>2 DEF Dispatch
<1>3. CASE Ends(m, c) # {} /\ ~Asks(m, c)
  BY <1>3, WaysIn DEF Dispatch
<1> QED BY <1>1, <1>2, <1>3

LEMMA MenuInit == Init => MenuInv
BY DEF Init, MenuInv, FormAsked, FailedAtEnd, GoodbyeIsTyped, OperationsTyped

LEMMA MenuStep == MenuInv /\ [Next]_vars => MenuInv'
<1> SUFFICES ASSUME MenuInv, [Next]_vars PROVE MenuInv'
  OBVIOUS
<1> USE DEF MenuInv, FormAsked, FailedAtEnd, GoodbyeIsTyped, OperationsTyped
<1>1. CASE (\E l \in Lines : Type(l)) \/ End \/ UNCHANGED vars
  BY <1>1 DEF Type, End, vars
<1>2. ASSUME NEW m \in UserMenus \cup AdminMenus, ReadNumber(m)
      PROVE  MenuInv'
  <2>1. Dispatch(m, Ahead) /\ told' = TRUE /\ stream' = "good"
    BY <1>2 DEF ReadNumber, HasNumber
  <2>2. pc' = "form" => op' = <<m, Ahead>> /\ Asks(m, Ahead)
    BY <2>1, Dispatched
  <2> QED BY <2>1, <2>2
<1>3. ASSUME NEW m \in UserMenus \cup AdminMenus, Recover(m)
      PROVE  MenuInv'
  BY <1>3 DEF Recover
<1>4. ASSUME NEW m \in UserMenus \cup AdminMenus, ReadWord(m)
      PROVE  MenuInv'
  <2>1. Dispatch(m, 0) /\ m # "main" /\ m # "user" /\ UNCHANGED ended
    BY <1>4 DEF ReadWord, Clearing
  <2>2. /\ pc' = "form" => op' = <<m, 0>> /\ Asks(m, 0)
        /\ pc' # "exited"
    BY <2>1, Dispatched
  <2>3. m \in UserMenus => m = "wallet"
    BY <1>4 DEF ReadWord, Clearing, UserMenus
  <2>4. pc' = "form" => m \notin UserMenus
    BY <2>2, <2>3, WaysIn
  <2>5. pc' # "wallet"
    <3>1. pc' = "wallet" => m = "wallet"
      BY <2>1, Dispatched
    <3>2. CASE m = "wallet"
      BY <2>1, <3>2, WaysIn DEF Dispatch
    <3> QED BY <3>1, <3>2
  <2> QED BY <2>2, <2>4, <2>5
<1>5. ASSUME NEW m \in UserMenus \cup AdminMenus, ReadNothing(m)
      PROVE  MenuInv'
  <2>1. PICK c \in Numbers : Dispatch(m, c)
    BY <1>5 DEF ReadNothing
  <2>2. /\ m # "main" /\ m # "user" /\ pc = m /\ ended' = ended
        /\ m \in UserMenus => m = "wallet"
    BY <1>5 DEF ReadNothing, Clearing, UserMenus
  <2>3. m = "wallet" => ended
    BY <1>5, <2>2 DEF ReadNothing, AtEnd
  <2>4. /\ pc' = "form" => op' = <<m, c>> /\ Asks(m, c)
        /\ pc' # "exited"
        /\ pc' = "wallet" => m = "wallet"
    BY <2>1, <2>2, Dispatched
  <2> QED BY <2>2, <2>3, <2>4
<1>6. CASE FormReads
  BY <1>6 DEF FormReads
<1>7. CASE FormClears
  BY <1>7 DEF FormClears
<1>8. CASE FormEnds
  <2>1. /\ pc = "form" /\ UNCHANGED <<stream, ended, told>>
        /\ pc' \in Ends(op[1], op[2]) \/ pc' = op[1]
    BY <1>8 DEF FormEnds
  <2>2. op[1] \in UserMenus \cup AdminMenus
    BY <2>1 DEF Asks, UserMenus, AdminMenus
  <2>3. pc' # "form" /\ pc' # "exited"
    <3>1. op[1] # "form" /\ op[1] # "exited"
      BY <2>2 DEF UserMenus, AdminMenus
    <3> QED BY <2>1, <3>1, WaysIn
  <2>4. pc' = "wallet" => op[1] \in UserMenus
    BY <2>1, WaysIn DEF UserMenus
  <2> QED BY <2>1, <2>3, <2>4
<1> QED BY <1>1, <1>2, <1>3, <1>4, <1>5, <1>6, <1>7, <1>8 DEF Next, Reads

LEMMA MenuAlways == Spec => []MenuInv
<1> QED BY MenuInit, MenuStep, PTL DEF Spec

(* The program ends by a typed 0 only, whatever is typed and wherever the  *)
(* input ends.                                                             *)
THEOREM GoodbyeTyped == Spec => []GoodbyeIsTyped
<1>1. MenuInv => GoodbyeIsTyped
  BY DEF MenuInv
<1> QED BY <1>1, MenuAlways, PTL

(* While the input lasts, what a user's menu starts was chosen by a number *)
(* that was typed.                                                         *)
THEOREM OperationsAreTyped == Spec => []OperationsTyped
<1>1. MenuInv => OperationsTyped
  BY DEF MenuInv
<1> QED BY <1>1, MenuAlways, PTL

-----------------------------------------------------------------------------
(* What is typed and not read.                                             *)

Entries == Numbers \cup {Word, NewLine}

(* Whole lines, up to the first of them, of which a part may be gone.      *)
Closed(s) == s \in Seq(Entries) /\ (s # <<>> => s[Len(s)] = NewLine)

(* The rest of such lines from any place on.                               *)
LEMMA ClosedSuffix ==
    ASSUME NEW s, Closed(s), NEW i \in Nat \ {0}, i <= Len(s) + 1
    PROVE  Closed(SubSeq(s, i, Len(s)))
<1> DEFINE n == Len(s)
           t == SubSeq(s, i, n)
<1>1. n \in Nat /\ n \in Int /\ i \in Int /\ i <= n + 1
  BY LenProperties DEF Closed
<1>2. \A j \in i .. n : s[j] \in Entries
  <2> SUFFICES ASSUME NEW j \in i .. n PROVE s[j] \in Entries
    OBVIOUS
  <2>1. j \in 1 .. n
    BY <1>1
  <2> QED BY <2>1, ElementOfSeq DEF Closed
<1> HIDE DEF n
<1>3. /\ t \in Seq(Entries)
      /\ Len(t) = IF i <= n THEN n - i + 1 ELSE 0
      /\ \A j \in 1 .. n - i + 1 : t[j] = s[i + j - 1]
  BY <1>1, <1>2, SubSeqProperties
<1>4. CASE i <= n
  <2> HIDE DEF t
  <2>1. Len(t) = n - i + 1 /\ n - i + 1 \in 1 .. n - i + 1 /\ i + (n - i + 1) - 1 = n
    BY <1>1, <1>3, <1>4
  <2>2. t[Len(t)] = s[n]
    BY <1>3, <2>1, Zenon
  <2>3. s # <<>>
    BY <1>1, <1>4, EmptySeq DEF n
  <2>4. s[n] = NewLine
    BY <2>3 DEF Closed, n
  <2>5. Closed(t)
    BY <1>3, <2>2, <2>4 DEF Closed
  <2> QED BY <2>5 DEF t, n
<1>5. CASE n < i
  <2>1. t = <<>>
    BY <1>1, <1>5, SubSeqEmpty
  <2>2. Closed(t)
    BY <2>1, EmptySeq DEF Closed
  <2> QED BY <2>2 DEF n
<1> QED BY <1>1, <1>4, <1>5

LEMMA ClosedTail ==
    ASSUME NEW s, Closed(s), s # <<>>
    PROVE  Closed(Tail(s))
<1>1. Tail(s) = SubSeq(s, 2, Len(s))
  BY TailIsSubSeq DEF Closed
<1>2. Len(s) \in Nat \ {0}
  BY EmptySeq DEF Closed
<1>3. Closed(SubSeq(s, 2, Len(s)))
  BY <1>2, ClosedSuffix
<1> QED BY <1>1, <1>3

(* A nonempty set of numbers has a least one.                              *)
LEMMA LeastEntry ==
    ASSUME NEW T \in SUBSET Nat, T # {}
    PROVE  \E m \in T : \A k \in T : m <= k
<1>1. \E m \in T : \A k \in T : ~(<<k, m>> \in OpToRel(<, Nat))
  BY NatLessThanWellFounded, WFMin
<1>2. \E m \in T : \A k \in T : ~(k < m)
  BY <1>1 DEF OpToRel
<1> QED BY <1>2

LEMMA ClosedForget ==
    ASSUME NEW s, Closed(s)
    PROVE  Closed(ForgetLine(s))
<1>1. CASE NewLine \notin Range(s)
  BY <1>1, EmptySeq DEF ForgetLine, Closed
<1>2. CASE NewLine \in Range(s)
  <2> DEFINE I == {i \in 1 .. Len(s) : s[i] = NewLine}
             k == SelectInSeq(s, LAMBDA t : t = NewLine)
  <2>1. Len(s) \in Nat /\ DOMAIN s = 1 .. Len(s)
    BY LenProperties DEF Closed
  <2>2. I # {} /\ I \in SUBSET Nat
    BY <1>2, <2>1 DEF Range
  <2>3. k = Min(I)
    BY <2>2 DEF SelectInSeq
  <2>4. k \in I
    <3> HIDE DEF I, k
    <3>1. \E m \in I : \A j \in I : m <= j
      BY <2>2, LeastEntry
    <3> QED BY <2>3, <3>1 DEF Min
  <2>5. ForgetLine(s) = SubSeq(s, k + 1, Len(s))
    BY <1>2 DEF ForgetLine
  <2> HIDE DEF k
  <2>6. k + 1 \in Nat \ {0} /\ k + 1 <= Len(s) + 1
    BY <2>1, <2>4
  <2> QED BY <2>5, <2>6, ClosedSuffix
<1> QED BY <1>1, <1>2

LEMMA ClosedAhead ==
    ASSUME Closed(pending), Tokens # {}
    PROVE  Closed(AfterAhead)
<1> DEFINE k == CHOOSE i \in Tokens : \A j \in Tokens : i <= j
<1>1. Len(pending) \in Nat /\ DOMAIN pending = 1 .. Len(pending)
  BY LenProperties DEF Closed
<1>2. Tokens \in SUBSET Nat
  BY <1>1 DEF Tokens
<1>3. k \in Tokens
  BY <1>2, LeastEntry
<1> HIDE DEF k
<1>4. k + 1 \in Nat \ {0} /\ k + 1 <= Len(pending) + 1
  BY <1>1, <1>3 DEF Tokens
<1>5. AfterAhead = SubSeq(pending, k + 1, Len(pending))
  BY DEF AfterAhead, k
<1> QED BY <1>4, <1>5, ClosedSuffix

LEMMA ClosedRest ==
    ASSUME Closed(pending), Tokens # {}, NEW m \in UserMenus \cup AdminMenus
    PROVE  Closed(Rest(m))
<1>1. Closed(AfterAhead)
  BY ClosedAhead
<1>2. Closed(ForgetLine(AfterAhead))
  BY <1>1, ClosedForget
<1>3. Closed(ForgetOne(AfterAhead))
  BY <1>1, ClosedTail DEF ForgetOne
<1>4. Rest(m) \in {AfterAhead, ForgetLine(AfterAhead), ForgetOne(AfterAhead)}
  BY DEF Rest, UserMenus, AdminMenus
<1> QED BY <1>1, <1>2, <1>3, <1>4

LEMMA ClosedTyped ==
    ASSUME Closed(pending), NEW l \in Lines
    PROVE  Closed(pending \o l \o <<NewLine>>)
<1>1. l \in Seq(Entries)
  BY InputAssumption, SeqMonotonic DEF Entries
<1>2. <<NewLine>> \in Seq(Entries) /\ Len(<<NewLine>>) = 1 /\ <<NewLine>>[1] = NewLine
  BY DEF Entries
<1> DEFINE p == pending \o l
           e == <<NewLine>>
<1>3. p \in Seq(Entries)
  BY <1>1, ConcatProperties DEF Closed
<1>4. Len(p) \in Nat
  BY <1>3, LenProperties
<1> HIDE DEF p, e
<1>5. /\ p \o e \in Seq(Entries) /\ Len(p \o e) = Len(p) + 1
      /\ \A i \in 1 .. Len(p) + 1 :
            (p \o e)[i] = IF i <= Len(p) THEN p[i] ELSE e[i - Len(p)]
  <2>1. e \in Seq(Entries) /\ Len(e) = 1
    BY <1>2 DEF e
  <2> QED BY <1>3, <2>1, ConcatProperties
<1>6. (p \o e)[Len(p) + 1] = e[1]
  BY <1>4, <1>5
<1>7. Closed(p \o e)
  <2>1. e[1] = NewLine
    BY <1>2 DEF e
  <2> QED BY <1>5, <1>6, <2>1 DEF Closed
<1> QED BY <1>7 DEF p, e

(* The inductive form of TypeOK.                                           *)
MenuTypes ==
    /\ pc \in UserMenus \cup AdminMenus \cup {"exited", "form"}
    /\ pc = "form" => op # <<>> /\ op[1] \in UserMenus \cup AdminMenus
    /\ pc # "form" => op = <<>>
    /\ stream \in {"good", "fail"}
    /\ Closed(pending)
    /\ typed \in 0 .. MaxLines
    /\ ended \in BOOLEAN /\ told \in BOOLEAN

LEMMA DispatchTypes ==
    ASSUME MenuTypes, NEW m \in UserMenus \cup AdminMenus, NEW c, pc = m, Dispatch(m, c)
    PROVE  /\ pc' \in UserMenus \cup AdminMenus \cup {"exited", "form"}
           /\ pc' = "form" => op' # <<>> /\ op'[1] \in UserMenus \cup AdminMenus
           /\ pc' # "form" => op' = <<>>
<1>0. m # "form" /\ op = <<>>
  BY DEF MenuTypes, UserMenus, AdminMenus
<1>1. CASE Ends(m, c) = {}
  BY <1>0, <1>1 DEF Dispatch, AdminMenus
<1>2. CASE Ends(m, c) # {} /\ Asks(m, c)
  BY <1>2 DEF Dispatch
<1>3. CASE Ends(m, c) # {} /\ ~Asks(m, c)
  <2>1. pc' \in Ends(m, c) /\ op' = op
    BY <1>3 DEF Dispatch
  <2>2. pc' \in UserMenus \cup AdminMenus \cup {"exited"} /\ pc' # "form"
    BY <2>1, WaysIn DEF Ends
  <2> QED BY <1>0, <2>1, <2>2
<1> QED BY <1>1, <1>2, <1>3

LEMMA MenuTypesStep == MenuTypes /\ [Next]_vars => MenuTypes'
<1> SUFFICES ASSUME MenuTypes, [Next]_vars PROVE MenuTypes'
  OBVIOUS
<1>0. Closed(pending)
  BY DEF MenuTypes
<1>1. CASE UNCHANGED vars
  BY <1>1 DEF vars, MenuTypes, Closed
<1>2. ASSUME NEW l \in Lines, Type(l) PROVE MenuTypes'
  <2>1. Closed(pending')
    BY <1>0, <1>2, ClosedTyped DEF Type
  <2>2. typed' \in 0 .. MaxLines
    BY <1>2, InputAssumption DEF Type, MenuTypes
  <2> QED BY <1>2, <2>1, <2>2 DEF Type, MenuTypes, Closed
<1>3. CASE End
  BY <1>3 DEF End, MenuTypes, Closed
<1>4. ASSUME NEW m \in UserMenus \cup AdminMenus, ReadNumber(m) PROVE MenuTypes'
  <2>1. Closed(pending')
    BY <1>0, <1>4, ClosedAhead, ClosedRest DEF ReadNumber, HasNumber
  <2>2. Dispatch(m, Ahead) /\ pc = m /\ told' = TRUE /\ UNCHANGED <<stream, ended, typed>>
    BY <1>4 DEF ReadNumber
  <2>3. /\ pc' \in UserMenus \cup AdminMenus \cup {"exited", "form"}
        /\ pc' = "form" => op' # <<>> /\ op'[1] \in UserMenus \cup AdminMenus
        /\ pc' # "form" => op' = <<>>
    BY <2>2, DispatchTypes
  <2> QED BY <2>1, <2>2, <2>3 DEF MenuTypes, Closed
<1>5. ASSUME NEW m \in UserMenus \cup AdminMenus, Recover(m) PROVE MenuTypes'
  <2>1. Closed(pending')
    BY <1>0, <1>5, ClosedForget DEF Recover
  <2> QED BY <1>5, <2>1 DEF Recover, MenuTypes, Closed
<1>6. ASSUME NEW m \in UserMenus \cup AdminMenus, ReadWord(m) \/ ReadNothing(m)
      PROVE  MenuTypes'
  <2>1. PICK c : Dispatch(m, c)
    BY <1>6 DEF ReadWord, ReadNothing
  <2>2. /\ pc = m /\ told' = FALSE /\ stream' = "fail"
        /\ UNCHANGED <<pending, ended, typed>>
    BY <1>6 DEF ReadWord, ReadNothing
  <2>3. /\ pc' \in UserMenus \cup AdminMenus \cup {"exited", "form"}
        /\ pc' = "form" => op' # <<>> /\ op'[1] \in UserMenus \cup AdminMenus
        /\ pc' # "form" => op' = <<>>
    BY <2>1, <2>2, DispatchTypes
  <2> QED BY <2>2, <2>3 DEF MenuTypes, Closed
<1>7. CASE FormReads
  <2>1. Closed(pending')
    BY <1>0, <1>7, ClosedForget, ClosedTail DEF FormReads
  <2> QED BY <1>7, <2>1 DEF FormReads, MenuTypes, Closed
<1>8. CASE FormClears
  BY <1>8 DEF FormClears, MenuTypes, Closed
<1>9. CASE FormEnds
  <2>1. /\ pc = "form" /\ op' = <<>> /\ UNCHANGED <<stream, pending, ended, typed, told>>
        /\ pc' \in Ends(op[1], op[2]) \/ pc' = op[1]
    BY <1>9 DEF FormEnds
  <2>2. op[1] \in UserMenus \cup AdminMenus
    BY <2>1 DEF MenuTypes
  <2>3. pc' \in UserMenus \cup AdminMenus \cup {"exited"} /\ pc' # "form"
    BY <2>1, <2>2, WaysIn DEF Ends, UserMenus, AdminMenus
  <2> QED BY <2>1, <2>3 DEF MenuTypes, Closed
<1> QED BY <1>1, <1>2, <1>3, <1>4, <1>5, <1>6, <1>7, <1>8, <1>9 DEF Next, Reads

(* Every variable keeps its type, the form that is open belongs to a menu, *)
(* and whatever is typed and read in part still ends with an end of line.  *)
THEOREM MenuTypeCorrect == Spec => []TypeOK
<1>1. Init => MenuTypes
  <2>1. Closed(<<>>)
    BY EmptySeq DEF Closed
  <2>2. 0 \in 0 .. MaxLines
    BY InputAssumption
  <2> QED BY <2>1, <2>2 DEF Init, MenuTypes, UserMenus
<1>2. MenuTypes => TypeOK
  <2> SUFFICES ASSUME MenuTypes PROVE TypeOK
    OBVIOUS
  <2>1. Range(pending) \subseteq Numbers \cup {Word, NewLine}
    <3>1. \A i \in DOMAIN pending : pending[i] \in Entries
      BY LenProperties DEF MenuTypes, Closed
    <3> QED BY <3>1 DEF Range, Entries
  <2>2. pending # <<>> => Last(pending) = NewLine
    BY DEF MenuTypes, Closed, Last
  <2>3. /\ Place \in UserMenus \cup AdminMenus \cup {"exited"}
        /\ (op # <<>>) <=> (pc = "form")
    BY DEF MenuTypes, Place
  <2> QED BY <2>1, <2>2, <2>3 DEF MenuTypes, TypeOK
<1> QED BY <1>1, <1>2, MenuTypesStep, PTL DEF Spec
=============================================================================
