----------------------------- MODULE MenuInput -----------------------------
(***************************************************************************)
(* The menus of Menus.cpp and how they read what is typed. std::cin is     *)
(* shared by all of them: a menu that asks for a number and finds a word   *)
(* leaves it with its fail bit set, and until somebody clears that bit no  *)
(* later read takes anything.                                              *)
(*                                                                         *)
(* The operations behind the menus are forms that read some lines and end  *)
(* at one of the menus Moves names; what they do is in the other modules.  *)
(***************************************************************************)
EXTENDS Integers, SequencesExt

CONSTANTS Lines,     \* what may be typed on a line: numbers and words
          MaxLines   \* bound: lines typed

VARIABLES pc,       \* the menu the program is at, "form" or "exited"
          op,       \* the menu and the choice whose form is running
          stream,   \* the state of cin: "good" or "fail"
          pending,  \* what is typed and not read, with the ends of lines
          ended,    \* the input has ended
          typed,    \* lines typed so far (bounded)
          told       \* history: the last choice is a number that was typed

vars == <<pc, op, stream, pending, ended, typed, told>>

Numbers == 0 .. 6        \* 6 is a number no menu offers
Word    == 10            \* anything that is not a number
NewLine == 11

ASSUME InputAssumption ==
    /\ Lines \subseteq Seq(Numbers \cup {Word})
    /\ MaxLines \in Nat

UserMenus  == {"main", "home", "user", "info", "wallet"}
AdminMenus == {"adminHome", "userEdit", "page", "history", "profile"}

(* Where a choice leads: mainMenu, userHomeMenu, UserLoginMenu, eWallet,   *)
(* changeuserinfo for a user ("info") and for an admin ("page"),           *)
(* AdminLoginMenu, UserEditMenu and the two menus inside AdminLoginMenu.   *)
Moves ==
    { <<"main", 0, "exited">>, <<"main", 1, "home">>,
      <<"main", 2, "adminHome">>, <<"main", 2, "main">>,
      <<"home", 0, "main">>, <<"home", 1, "user">>, <<"home", 1, "home">>,
      <<"home", 2, "user">>, <<"home", 2, "home">>, <<"home", 2, "main">>,
      <<"user", 0, "home">>, <<"user", 1, "info">>, <<"user", 2, "wallet">>,
      <<"user", 3, "user">>, <<"user", 3, "home">>,
      <<"info", 0, "user">>, <<"info", 1, "info">>, <<"info", 2, "info">>,
      <<"wallet", 0, "user">>, <<"wallet", 1, "wallet">>,
      <<"wallet", 2, "wallet">>, <<"wallet", 3, "wallet">>,
      <<"wallet", 3, "user">>,
      <<"adminHome", 0, "main">>, <<"adminHome", 1, "adminHome">>,
      <<"adminHome", 2, "userEdit">>, <<"adminHome", 3, "history">>,
      <<"adminHome", 4, "profile">>,
      <<"userEdit", 0, "adminHome">>, <<"userEdit", 1, "userEdit">>,
      <<"userEdit", 2, "userEdit">>, <<"userEdit", 3, "page">>,
      <<"userEdit", 3, "userEdit">>, <<"userEdit", 4, "userEdit">>,
      <<"userEdit", 5, "page">>, <<"userEdit", 5, "userEdit">>,
      <<"page", 0, "userEdit">>, <<"page", 1, "page">>,
      <<"page", 2, "page">>, <<"page", 3, "page">>,
      <<"history", 0, "adminHome">>, <<"history", 1, "adminHome">>,
      <<"history", 2, "adminHome">>,
      <<"profile", 0, "adminHome">>, <<"profile", 1, "profile">>,
      <<"profile", 2, "profile">>, <<"profile", 3, "profile">> }

Ends(m, c) == {n \in UserMenus \cup AdminMenus \cup {"exited"} :
                  <<m, c, n>> \in Moves}

(* The choices with a form between the menu and where it leads.            *)
Asks(m, c) ==
    \/ m = "main" /\ c = 2
    \/ m = "home" /\ c \in {1, 2}
    \/ m = "user" /\ c = 3
    \/ m \in {"info", "page", "wallet", "profile"} /\ c # 0
    \/ m = "userEdit" /\ c \in {1, 3, 4, 5}
    \/ m = "adminHome" /\ c = 1
    \/ m = "history" /\ c # 0

Init ==
    /\ pc = "main" /\ op = <<>>
    /\ stream = "good"
    /\ pending = <<>>
    /\ ended = FALSE /\ typed = 0
    /\ told = FALSE

-----------------------------------------------------------------------------
(* The person                                                              *)

Type(l) ==
    /\ ~ended
    /\ typed < MaxLines
    /\ typed' = typed + 1
    /\ pending' = pending \o l \o <<NewLine>>
    /\ UNCHANGED <<pc, op, stream, ended, told>>

End ==
    /\ ~ended
    /\ ended' = TRUE
    /\ UNCHANGED <<pc, op, stream, pending, typed, told>>

-----------------------------------------------------------------------------
(* cin                                                                     *)

Tokens == {i \in DOMAIN pending : pending[i] # NewLine}

(* operator>> skips ends of lines before it looks at what comes.           *)
Ahead == pending[CHOOSE i \in Tokens : \A j \in Tokens : i <= j]

AfterAhead ==
    SubSeq(pending, (CHOOSE i \in Tokens : \A j \in Tokens : i <= j) + 1,
           Len(pending))

HasNumber == stream = "good" /\ Tokens # {} /\ Ahead \in Numbers

HasWord == stream = "good" /\ Tokens # {} /\ Ahead = Word

AtEnd == stream = "good" /\ Tokens = {} /\ ended

ForgetLine_ClearOnly(s) == s

(* cin.ignore(max, '\n')                                                   *)
ForgetLine(s) ==
    IF NewLine \in Range(s)
      THEN SubSeq(s, SelectInSeq(s, LAMBDA t : t = NewLine) + 1, Len(s))
      ELSE <<>>

(* cin.ignore() takes the end of the line, or the blank before its rest.   *)
ForgetOne(s) == IF s # <<>> /\ Head(s) = NewLine THEN Tail(s) ELSE s

(* What a menu does to the rest of the line of a choice it has read.       *)
Rest(m) ==
    CASE m \in {"info", "page", "adminHome"} -> ForgetLine(AfterAhead)
      [] m \in {"main", "wallet", "history", "profile"} ->
             ForgetOne(AfterAhead)
      [] m \in {"home", "user", "userEdit"} -> AfterAhead

-----------------------------------------------------------------------------
(* Menus                                                                   *)

Dispatch(m, c) ==
    IF Ends(m, c) = {}
      THEN /\ pc' = IF m = "history" THEN "adminHome" ELSE m
           /\ UNCHANGED op
    ELSE IF Asks(m, c)
      THEN pc' = "form" /\ op' = <<m, c>>
      ELSE pc' \in Ends(m, c) /\ UNCHANGED op

(* The number a menu asked for; UserEditMenu and AdminLoginMenu ask again  *)
(* before they do anything else when it is not one of theirs.              *)
ReadNumber(m) ==
    /\ pc = m
    /\ HasNumber
    /\ Dispatch(m, Ahead)
    /\ pending' = IF m = "adminHome" /\ Ends(m, Ahead) = {}
                    THEN AfterAhead ELSE Rest(m)
    /\ told' = TRUE
    /\ UNCHANGED <<stream, ended, typed>>

Clearing_NotMain == {"home", "user", "info", "page"}

Clearing_NotUser == {"main", "home", "info", "page"}

(* The menus that clear the stream and forget the line when a read fails.  *)
Clearing == {"main", "home", "user", "info", "page"}

Recover(m) ==
    /\ pc = m
    /\ m \in Clearing
    /\ HasWord \/ stream = "fail"
    /\ NewLine \in Range(pending) \/ ended
    /\ stream' = "good"
    /\ pending' = ForgetLine(pending)
    /\ UNCHANGED <<pc, op, ended, typed, told>>

(* The other menus go on: a word reads as 0 ...                            *)
ReadWord(m) ==
    /\ pc = m
    /\ m \notin Clearing
    /\ HasWord
    /\ stream' = "fail"
    /\ told' = FALSE
    /\ Dispatch(m, 0)
    /\ UNCHANGED <<pending, ended, typed>>

(* ... and a read from a failed stream, or at the end of the input, leaves *)
(* a variable that was never given a value.                                *)
ReadNothing(m) ==
    /\ pc = m
    /\ m \notin Clearing
    /\ stream = "fail" \/ AtEnd
    /\ stream' = "fail"
    /\ told' = FALSE
    /\ \E c \in Numbers : Dispatch(m, c)
    /\ UNCHANGED <<pending, ended, typed>>

-----------------------------------------------------------------------------
(* Forms                                                                   *)

(* getline takes a line, a cin.get() at "Press ENTER" or a cin >> exit_char *)
(* one entry of it; at the end nothing is left to take.                    *)
FormReads ==
    /\ pc = "form"
    /\ stream = "good"
    /\ \/ /\ pending # <<>>
          /\ pending' \in {ForgetLine(pending), Tail(pending)}
          /\ UNCHANGED stream
       \/ /\ pending = <<>> /\ ended
          /\ stream' = "fail"
          /\ UNCHANGED pending
    /\ UNCHANGED <<pc, op, ended, typed, told>>

(* loginUser and loginAdmin clear the stream when they have asked for the  *)
(* name, transferPoint when the amount is not a number, and UserEditMenu   *)
(* before it asks for a new user and when the points are not a number.     *)
FormClears ==
    /\ pc = "form"
    /\ op \in {<<"main", 2>>, <<"home", 1>>, <<"wallet", 1>>, <<"userEdit", 1>>}
    /\ stream = "fail"
    /\ stream' = "good"
    /\ UNCHANGED <<pc, op, pending, ended, typed, told>>

FormEnds_StaysOpen ==
    /\ pc = "form"
    /\ pc' \in IF Ends(op[1], op[2]) # {} THEN Ends(op[1], op[2]) ELSE {op[1]}
    /\ UNCHANGED <<op, stream, pending, ended, typed, told>>

FormEnds ==
    /\ pc = "form"
    /\ pc' \in IF Ends(op[1], op[2]) # {} THEN Ends(op[1], op[2]) ELSE {op[1]}
    /\ op' = <<>>
    /\ UNCHANGED <<stream, pending, ended, typed, told>>

Reads ==
    \E m \in UserMenus \cup AdminMenus :
        ReadNumber(m) \/ Recover(m) \/ ReadWord(m) \/ ReadNothing(m)

Next ==
    \/ (\E l \in Lines : Type(l)) \/ End
    \/ Reads \/ FormReads \/ FormClears \/ FormEnds

(* A menu that can read does so; nobody has to type, and a form may last.  *)
Spec == Init /\ [][Next]_vars /\ WF_vars(Reads)

-----------------------------------------------------------------------------
Place == IF pc = "form" THEN op[1] ELSE pc

TypeOK ==
    /\ Place \in UserMenus \cup AdminMenus \cup {"exited"}
    /\ (op # <<>>) <=> (pc = "form")
    /\ stream \in {"good", "fail"}
    /\ Range(pending) \subseteq Numbers \cup {Word, NewLine}
    /\ pending # <<>> => Last(pending) = NewLine
    /\ typed \in 0 .. MaxLines
    /\ ended \in BOOLEAN /\ told \in BOOLEAN

(* The program says goodbye to a typed 0 only: not to a word that reads as *)
(* 0, whichever menu left it behind, and not to the end of the input.      *)
GoodbyeIsTyped == pc = "exited" => told

(* While the input lasts, whatever a user's menu starts was chosen by a    *)
(* number that was typed, also behind a word that another menu left.       *)
OperationsTyped == pc = "form" /\ op[1] \in UserMenus => told \/ ended

(* A word at a menu of a user is got rid of: while the input lasts the     *)
(* stream works again and the word is behind it.                           *)
WordsForgotten ==
    (pc \in UserMenus /\ (HasWord \/ stream = "fail"))
        ~> (ended \/ (stream = "good" /\ ~HasWord))
=============================================================================
