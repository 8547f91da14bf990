---------------------------- MODULE AdminProofs ----------------------------
(***************************************************************************)
(* Theorems about AdminPoints, for every set of users, every edit, every   *)
(* width of int, any failures and any number of other instances.           *)
(***************************************************************************)
EXTENDS AdminPoints, TLAPS

-----------------------------------------------------------------------------
(* Parsing into an int yields an integer, whatever is parsed.              *)
LEMMA ToIntType ==
    \A v \in Int : ToInt(v) \in Int
<1>1. 2 * IntHalf \in Nat /\ 2 * IntHalf > 0 /\ IntHalf \in Int
  BY AdminAssumption
<1> QED BY <1>1 DEF ToInt

(* What a user starts with is an integer.                                  *)
LEMMA OpeningType ==
    \A u : OpeningOf(u) \in Int
BY AdminAssumption DEF OpeningOf

(* The step of a page or a menu that is left.                              *)
LEMMA ClosedType ==
    ASSUME ClosePage
    PROVE  /\ target' = NoUser /\ path' \in {"none", "manage", "restore"}
           /\ base' \in Int /\ newPoints' \in Int
           /\ edited' \in BOOLEAN
<1>1. edited' \in BOOLEAN
  BY Zenon DEF ClosePage
<1>2. target' = NoUser /\ path' = "none" /\ base' = 0 /\ newPoints' = 0
  BY DEF ClosePage
<1> QED BY <1>1, <1>2

LEMMA LoggedType ==
    ASSUME TypeOK, NEW t \in Users \cup {System}, NEW n \in Int, Logged(t, n)
    PROVE  /\ books' \in [Users \cup {System} -> Int]
           /\ unlogged' \subseteq Users \cup {System}
BY DEF TypeOK, Logged

(* Types: initially, and after every step.                                 *)
LEMMA InitType == Init => TypeOK
<1> SUFFICES ASSUME Init PROVE TypeOK
  OBVIOUS
<1>1. points \in [Users -> Int] /\ books \in [Users \cup {System} -> Int]
  BY OpeningType, AdminAssumption DEF Init
<1>2. edited \in BOOLEAN /\ wrapped \in BOOLEAN
  BY Zenon DEF Init
<1>3. pc = "out" /\ target = NoUser /\ path = "none" /\ torn = {}
  BY DEF Init
<1>4. /\ wallet \in Int /\ adminPoint \in Int /\ base \in Int
      /\ newPoints \in Int /\ visits \in 0 .. MaxVisits
      /\ held \in Int /\ offered \in Int
  BY AdminAssumption DEF Init
<1>5. rows \subseteq Users /\ unlogged \subseteq Users \cup {System}
  BY AdminAssumption DEF Init
<1>6. sender = NoUser /\ receiver = NoUser /\ stale = {}
  BY DEF Init
<1> QED BY <1>1, <1>2, <1>3, <1>4, <1>5, <1>6 DEF TypeOK, Prompts

(* Copies are only those there are.                                        *)
LEMMA CopiesType ==
    \A accounts : Copies(accounts) \subseteq {"page", "sender", "receiver"}
BY DEF Copies, CopyOf

LEMMA NextType == TypeOK /\ [Next]_vars => TypeOK'
<1> SUFFICES ASSUME TypeOK, [Next]_vars PROVE TypeOK'
  OBVIOUS
<1> USE AdminAssumption DEF session
<1>1. CASE LoginAdmin
  <2>1. ToInt(wallet) \in Int
    BY ToIntType DEF TypeOK
  <2> QED BY <1>1, <2>1 DEF LoginAdmin, Noted, TypeOK, Prompts, files, page
<1>2. CASE LogoutAdmin
  BY <1>2, ClosedType
     DEF LogoutAdmin, EndSession, TypeOK, Prompts, files, history
<1>3. CASE ChangeProfile
  BY <1>3 DEF ChangeProfile, TearAdmin, TypeOK, Prompts, page, history
<1>4. CASE LogWalletEdit
  <2>1. newPoints - base \in Int
    BY DEF TypeOK
  <2>2. /\ books' \in [Users \cup {System} -> Int]
        /\ unlogged' \subseteq Users \cup {System}
    BY <1>4, <2>1, LoggedType DEF LogWalletEdit
  <2> QED BY <1>4, <2>2, ClosedType
             DEF LogWalletEdit, BackToMenu, TypeOK, Prompts, files
<1>5. CASE ClosesPage
  <2>1. target \in Users /\ target \in rows
    BY <1>5 DEF ClosesPage, TypeOK
  <2>2. CASE Saved
    <3>1. ToInt(newPoints) \in Int
      BY ToIntType DEF TypeOK
    <3>2. points' \in [Users -> Int] /\ unlogged' \subseteq Users \cup {System}
      BY <2>1, <2>2, <3>1 DEF Saved, TypeOK
    <3>5. stale' \subseteq {"page", "sender", "receiver"}
      BY <2>2, CopiesType DEF Saved, TypeOK
    <3>6. wrapped' \in BOOLEAN
      BY <2>2, Zenon DEF Saved, Noted, TypeOK
    <3>7. UNCHANGED <<rows, wallet, torn, adminPoint, session, visits, books>>
      BY <1>5, <2>2 DEF ClosesPage, Saved
    <3>3. CASE path = "manage"
      <4>1. pc' = "reason" /\ pc = "visit" /\ UNCHANGED page
        BY <1>5, <2>2, <3>3 DEF ClosesPage, Saved
      <4> HIDE <1>5, <2>2
      <4> QED BY <2>1, <3>2, <3>5, <3>6, <3>7, <4>1 DEF TypeOK, Prompts, page
    <3>4. CASE path # "manage"
      <4>1. pc' = "menu" /\ ClosePage
        BY <2>2, <3>4 DEF Saved, BackToMenu
      <4>2. target' = NoUser
        BY <4>1 DEF ClosePage
      <4> HIDE <1>5, <2>2
      <4> QED BY <3>2, <3>5, <3>6, <3>7, <4>1, <4>2, ClosedType DEF TypeOK, Prompts
    <3> QED BY <3>3, <3>4
  <2>3. CASE NotSaved
    BY <1>5, <2>3, ClosedType
       DEF ClosesPage, NotSaved, BackToMenu, TypeOK, Prompts
  <2>4. CASE ~edited /\ BackToMenu /\ UNCHANGED <<points, stale, torn, unlogged, wrapped>>
    BY <1>5, <2>4, ClosedType DEF ClosesPage, BackToMenu, TypeOK, Prompts
  <2> QED BY <1>5, <2>2, <2>3, <2>4 DEF ClosesPage
<1>6. CASE LogEdit
  <2>1. newPoints - base \in Int /\ target \in Users \cup {System}
    BY <1>6 DEF TypeOK, LogEdit
  <2>2. /\ books' \in [Users \cup {System} -> Int]
        /\ unlogged' \subseteq Users \cup {System}
    BY <1>6, <2>1, LoggedType DEF LogEdit
  <2> QED BY <1>6, <2>2, ClosedType
             DEF LogEdit, BackToMenu, TypeOK, Prompts, files
<1>7. CASE Abort
  BY <1>7, ClosedType DEF Abort, EndSession, TypeOK, Prompts, files, history
<1>8. CASE Crash
  <2>1. unlogged' \subseteq Users \cup {System}
    BY <1>8 DEF Crash, Unwritten, TypeOK
  <2> QED BY <1>8, <2>1, ClosedType
             DEF Crash, EndSession, TypeOK, Prompts, files
<1>9. ASSUME NEW d \in Edits, EditWallet(d)
      PROVE  TypeOK'
  <2>1. adminPoint + d \in Int /\ ToInt(adminPoint + d) \in Int
    BY ToIntType DEF TypeOK
  <2>2. CASE pc' = "walletLog" /\ WalletStored(adminPoint + d)
             /\ adminPoint' = ToInt(adminPoint + d) /\ base' = adminPoint
             /\ newPoints' = adminPoint + d /\ Noted(adminPoint + d)
             /\ UNCHANGED <<target, path, edited>>
    BY <1>9, <2>1, <2>2
       DEF EditWallet, WalletStored, TearAdmin, Noted, TypeOK, Prompts
  <2>3. CASE WalletNotStored /\ UNCHANGED <<pc, adminPoint, page, wrapped>>
    BY <1>9, <2>3
       DEF EditWallet, WalletNotStored, TearAdmin, TypeOK, Prompts, page
  <2> QED BY <1>9, <2>2, <2>3 DEF EditWallet, RememberedWallet
<1>10. ASSUME NEW d \in Edits, EditPoints(d)
       PROVE  TypeOK'
  BY <1>10 DEF EditPoints, TypeOK, Prompts, files, history
<1>11. ASSUME NEW u \in Users, NEW how \in {"manage", "restore"}, OpenPage(u, how)
       PROVE  TypeOK'
  BY <1>11 DEF OpenPage, TypeOK, Prompts, files, history
<1>12. ASSUME NEW u \in Users, NEW n \in Gifts, AddUser(u, n)
       PROVE  TypeOK'
  <2>1. wrapped' \in BOOLEAN
    BY <1>12, Zenon DEF AddUser, Noted, TypeOK
  <2>2. points' \in [Users -> Int] /\ books' \in [Users \cup {System} -> Int]
    BY <1>12 DEF AddUser, TypeOK
  <2>3. rows \subseteq rows' /\ rows' \subseteq Users
    BY <1>12 DEF AddUser, TypeOK
  <2>4. torn' \subseteq {"users", "admin"}
    BY <1>12 DEF AddUser, TypeOK
  <2> QED BY <1>12, <2>1, <2>2, <2>3, <2>4 DEF AddUser, TypeOK, Prompts, page
<1>13. ASSUME NEW n \in 1 .. held, Transfer(n)
       PROVE  TypeOK'
  <2>1. /\ sender \in Users /\ receiver \in Users /\ n \in Int
        /\ held - n \in Int /\ offered + n \in Int
    BY <1>13 DEF Transfer, TypeOK
  <2>2. /\ ToInt(held - n) \in Int /\ ToInt(offered + n) \in Int
        /\ ToInt(held) \in Int
    BY <2>1, ToIntType DEF TypeOK
  <2>3. points' \in [Users -> Int]
    BY <1>13, <2>1, <2>2
       DEF Transfer, Transferred, TakenBack, OnlyDebited, TypeOK
  <2>4. LineOf(n) \in [Users \cup {System} -> Int]
    BY <2>1 DEF LineOf, TypeOK
  <2>5. books' \in [Users \cup {System} -> Int]
    BY <1>13, <2>4 DEF Transfer, Transferred, TakenBack, OnlyDebited, TypeOK
  <2>6. unlogged' \subseteq Users \cup {System}
    <3>1. Outdated \subseteq {sender, receiver}
      BY DEF Outdated, CopyOf
    <3> QED BY <1>13, <2>1, <3>1
               DEF Transfer, Transferred, TakenBack, OnlyDebited, TypeOK
  <2>7. stale' \subseteq {"page", "sender", "receiver"}
    BY <1>13, CopiesType
       DEF Transfer, Transferred, TakenBack, OnlyDebited, TypeOK
  <2>8. held' \in Int
    BY <1>13, <2>1 DEF Transfer, Transferred, TakenBack, OnlyDebited, TypeOK
  <2>9. wrapped' \in BOOLEAN
    BY <1>13, Zenon
       DEF Transfer, Transferred, TakenBack, OnlyDebited, Noted, TypeOK
  <2>10. /\ UNCHANGED <<rows, wallet, torn, pc, adminPoint, page, sender, visits>>
         /\ receiver' = NoUser /\ offered' = 0
    BY <1>13 DEF Transfer
  <2> HIDE <1>13
  <2> QED BY <2>3, <2>5, <2>6, <2>7, <2>8, <2>9, <2>10 DEF TypeOK, Prompts, page
<1>15. ASSUME NEW u \in Users, LoginUser(u)
       PROVE  TypeOK'
  BY <1>15 DEF LoginUser, TypeOK, Prompts, files, page, history
<1>16. ASSUME NEW u \in Users, NameReceiver(u)
       PROVE  TypeOK'
  BY <1>16 DEF NameReceiver, TypeOK, Prompts, files, page, history
<1>17. CASE LogoutUser
  BY <1>17 DEF LogoutUser, TypeOK, Prompts, files, page, history
<1>14. CASE UNCHANGED vars
  BY <1>14 DEF TypeOK, Prompts, vars, files, page, history
<1> QED BY <1>1, <1>2, <1>3, <1>4, <1>5, <1>6, <1>7, <1>8, <1>9, <1>10, <1>11,
           <1>12, <1>13, <1>14, <1>15, <1>16, <1>17
       DEF Next, ManageUser, RestoreUser

(* Every variable keeps its type: the columns hold integers whatever is    *)
(* typed in, and a page is always that of a user with a row.               *)
THEOREM AdminTypeCorrect == Spec => []TypeOK
<1> QED BY InitType, NextType, PTL DEF Spec

-----------------------------------------------------------------------------
(* The change of a user's balance that is saved and not yet logged.        *)
Pending(u) == IF pc = "reason" /\ u = target THEN newPoints - base ELSE 0

(* The lines and the change in flight make up the balance, and a copy that *)
(* nothing came across, be it of a page or of a session, is the balance of *)
(* the file.                                                               *)
Books ==
    ~wrapped =>
        /\ \A u \in Users \ unlogged : points[u] = books[u] + Pending(u)
        /\ pc = "visit" => /\ path # "none"
                           /\ "page" \notin stale => base = points[target]
        /\ sender # NoUser /\ "sender" \notin stale => held = points[sender]
        /\ receiver # NoUser /\ "receiver" \notin stale
              => offered = points[receiver]

(* The admin's copy of the wallet is the file's, and the lines and the     *)
(* change in flight make up the wallet.                                    *)
WalletBooks ==
    ~wrapped =>
        /\ pc # "out" /\ "admin" \notin torn => adminPoint = wallet
        /\ \/ "admin" \in torn \/ System \in unlogged
           \/ wallet = books[System]
                         + (IF pc = "walletLog" THEN newPoints - base ELSE 0)

LEMMA InitBooks == Init => Books /\ WalletBooks
<1> SUFFICES ASSUME Init PROVE Books /\ WalletBooks
  OBVIOUS
<1>1. \A u \in Users : points[u] = books[u] /\ books[u] \in Int
  BY OpeningType, AdminAssumption DEF Init
<1>2. books[System] = wallet /\ wallet \in Int
  BY AdminAssumption DEF Init
<1>3. pc = "out" /\ sender = NoUser /\ receiver = NoUser
  BY DEF Init
<1> QED BY <1>1, <1>2, <1>3 DEF Books, WalletBooks, Pending

(* A number that does not fit int is never forgotten.                      *)
LEMMA WrappedStays == [Next]_vars /\ wrapped => wrapped'
<1> SUFFICES ASSUME [Next]_vars, wrapped PROVE wrapped'
  OBVIOUS
<1> USE DEF Noted, files, page, history
<1>1. CASE LoginAdmin \/ LogoutAdmin \/ ChangeProfile \/ LogWalletEdit
  BY <1>1 DEF LoginAdmin, LogoutAdmin, ChangeProfile, LogWalletEdit
<1>2. CASE ClosesPage
  BY <1>2 DEF ClosesPage, Saved, NotSaved
<1>3. CASE LogEdit \/ Abort \/ Crash
  BY <1>3 DEF LogEdit, Abort, Crash
<1>4. CASE \E d \in Edits : EditWallet(d) \/ EditPoints(d)
  BY <1>4 DEF EditWallet, EditPoints
<1>5. CASE \E u \in Users :
               \/ ManageUser(u) \/ RestoreUser(u)
               \/ \E n \in Gifts : AddUser(u, n)
  BY <1>5 DEF ManageUser, RestoreUser, OpenPage, AddUser
<1>6. CASE \E n \in 1 .. held : Transfer(n)
  BY <1>6 DEF Transfer, Transferred, TakenBack, OnlyDebited
<1>8. CASE LogoutUser \/ \E u \in Users : LoginUser(u) \/ NameReceiver(u)
  BY <1>8 DEF LogoutUser, LoginUser, NameReceiver
<1>7. CASE UNCHANGED vars
  BY <1>7 DEF vars
<1> QED BY <1>1, <1>2, <1>3, <1>4, <1>5, <1>6, <1>7, <1>8 DEF Next

(* A step that neither opens a page, nor leaves the reason of an edit, nor *)
(* touches a balance or its lines.                                         *)
LEMMA BooksKept ==
    ASSUME Books, ~wrapped, UNCHANGED <<points, books, session, stale>>,
           unlogged \subseteq unlogged', pc # "reason",
           pc' \notin {"visit", "reason"}
    PROVE  Books'
BY DEF Books, Pending, session

(* A transfer whose copies nothing came across moves a balance and its     *)
(* lines alike, and names the accounts of the others.                      *)
LEMMA TransferBooks ==
    ASSUME TypeOK, TypeOK', Books, ~wrapped, ~wrapped',
           NEW n \in 1 .. held, Transfer(n)
    PROVE  Books'
<1>1. /\ sender \in Users /\ receiver \in Users /\ sender # receiver
      /\ n \in Int /\ held \in Int /\ offered \in Int
      /\ points \in [Users -> Int] /\ books \in [Users \cup {System} -> Int]
      /\ unlogged \subseteq unlogged' /\ stale \subseteq stale'
  BY DEF Transfer, Transferred, TakenBack, OnlyDebited, TypeOK
<1>2. /\ UNCHANGED <<pc, target, path, newPoints, base, sender>>
      /\ receiver' = NoUser
  BY DEF Transfer, page
<1>3. /\ "sender" \notin stale => held = points[sender]
      /\ "receiver" \notin stale => offered = points[receiver]
      /\ \A w \in Users \ unlogged : points[w] = books[w] + Pending(w)
      /\ pc = "visit" => /\ path # "none"
                         /\ "page" \notin stale => base = points[target]
  <2>1. receiver # NoUser
    BY DEF Transfer
  <2> QED BY <1>1, <2>1, AdminAssumption DEF Books
<1>4. \A w \in Users : Pending(w) \in Int /\ Pending(w)' = Pending(w)
  BY <1>2 DEF Pending, TypeOK
<1>5. \A w \in Users : points'[w] \in Int /\ books'[w] \in Int
  BY DEF TypeOK
<1>6. /\ \A w \in Users \ unlogged' : points'[w] = books'[w] + Pending(w)
      /\ "sender" \notin stale' => held' = points'[sender]
      /\ pc = "visit" /\ "page" \notin stale' => base = points'[target]
  <2>1. CASE Transferred(n)
    <3>1. FitsInt(held - n) /\ FitsInt(offered + n)
      BY <2>1, Zenon DEF Transferred
    <3>2. points' = [points EXCEPT ![sender] = held - n,
                                   ![receiver] = offered + n]
      BY <2>1, <3>1 DEF Transferred, FitsInt
    <3>3. held' = held - n
      BY <2>1 DEF Transferred
    <3>4. pc = "visit" /\ "page" \notin stale'
             => /\ "page" \notin stale /\ target \notin {sender, receiver}
                /\ target \in Users
      BY <2>1 DEF Transferred, Copies, CopyOf, TypeOK
    <3>5. ASSUME NEW w \in Users \ unlogged'
          PROVE  points'[w] = books'[w] + Pending(w)
      <4>1. points[w] = books[w] + Pending(w)
        BY <1>1, <1>3
      <4>2. CASE books' = LineOf(n) /\ unlogged' = unlogged \cup Outdated
        <5>1. w = sender => points[w] = held
          BY <1>3, <4>2 DEF Outdated, CopyOf
        <5>2. w = receiver => points[w] = offered
          BY <1>3, <4>2 DEF Outdated, CopyOf
        <5>3. points[w] \in Int /\ books[w] \in Int /\ Pending(w) \in Int
          BY <1>1, <1>4
        <5>4. CASE w = sender
          <6>1. points'[w] = held - n /\ books'[w] = books[w] - n
            BY <1>1, <3>2, <4>2, <5>4 DEF LineOf
          <6> QED BY <1>1, <4>1, <5>1, <5>3, <5>4, <6>1
        <5>5. CASE w = receiver
          <6>1. points'[w] = offered + n /\ books'[w] = books[w] + n
            BY <1>1, <3>2, <4>2, <5>5 DEF LineOf
          <6> QED BY <1>1, <4>1, <5>2, <5>3, <5>5, <6>1
        <5>6. CASE w \notin {sender, receiver}
          <6>1. points'[w] = points[w] /\ books'[w] = books[w]
            BY <1>1, <3>2, <4>2, <5>6 DEF LineOf
          <6> QED BY <4>1, <6>1
        <5> QED BY <5>4, <5>5, <5>6
      <4>3. CASE unlogged' = unlogged \cup {sender, receiver}
                 /\ UNCHANGED books
        BY <1>1, <3>2, <4>1, <4>3
      <4> QED BY <2>1, <4>2, <4>3 DEF Transferred
    <3>6. "sender" \notin stale' => held' = points'[sender]
      BY <1>1, <3>2, <3>3
    <3>7. pc = "visit" /\ "page" \notin stale' => base = points'[target]
      BY <1>1, <1>3, <3>2, <3>4
    <3> QED BY <3>5, <3>6, <3>7
  <2>2. CASE TakenBack(n) \/ OnlyDebited(n)
    <3>1. PICK k \in Int : points' = [points EXCEPT ![sender] = k]
      BY <1>1, <2>2, ToIntType DEF TakenBack, OnlyDebited
    <3>2. /\ sender \in unlogged'
          /\ books' # books => receiver \in unlogged' /\ books' = LineOf(n)
      BY <2>2 DEF TakenBack, OnlyDebited
    <3>3. "sender" \in stale'
      BY <2>2 DEF TakenBack, OnlyDebited, Copies, CopyOf
    <3>4. pc = "visit" /\ "page" \notin stale'
             => "page" \notin stale /\ target # sender /\ target \in Users
      BY <2>2 DEF TakenBack, OnlyDebited, Copies, CopyOf, TypeOK
    <3>5. ASSUME NEW w \in Users \ unlogged'
          PROVE  points'[w] = books'[w] + Pending(w)
      <4>1. points'[w] = points[w]
        BY <1>1, <3>1, <3>2
      <4>2. books'[w] = books[w]
        BY <1>1, <3>2 DEF LineOf
      <4> QED BY <1>1, <1>3, <4>1, <4>2
    <3>6. pc = "visit" /\ "page" \notin stale' => base = points'[target]
      BY <1>1, <1>3, <3>1, <3>4
    <3> QED BY <3>3, <3>5, <3>6
  <2> QED BY <2>1, <2>2 DEF Transfer
<1> HIDE DEF Pending
<1> QED
  <2>1. \A w \in Users \ unlogged' : points'[w] = books'[w] + Pending(w)'
    BY <1>4, <1>6
  <2>2. pc' = "visit" => /\ path' # "none"
                         /\ "page" \notin stale' => base' = points'[target']
    BY <1>2, <1>3, <1>6
  <2>3. "sender" \notin stale' => held' = points'[sender']
    BY <1>2, <1>6
  <2> QED BY <1>2, <2>1, <2>2, <2>3 DEF Books

(* Every step keeps the books of the users. An edit enters them when it is *)
(* saved, as pending, and a transfer moves a balance and its lines alike.  *)
LEMMA NextBooks == TypeOK /\ Books /\ [Next]_vars => Books'
<1> SUFFICES ASSUME TypeOK, Books, [Next]_vars, ~wrapped' PROVE Books'
  BY DEF Books
<1>0. ~wrapped /\ TypeOK'
  BY WrappedStays, NextType
<1>1. CASE LoginAdmin \/ LogoutAdmin \/ ChangeProfile
  BY <1>0, <1>1, BooksKept
     DEF LoginAdmin, LogoutAdmin, ChangeProfile, EndSession, files, history
<1>2. CASE LogWalletEdit
  <2>1. /\ pc = "walletLog" /\ pc' = "menu" /\ points' = points
        /\ UNCHANGED <<sender, held, receiver, offered, stale>>
    BY <1>2 DEF LogWalletEdit, BackToMenu, files, session
  <2>2. \A u \in Users : books'[u] = books[u]
    BY <1>2, AdminAssumption DEF LogWalletEdit, Logged, TypeOK
  <2>3. unlogged \subseteq unlogged'
    BY <1>2 DEF LogWalletEdit, Logged
  <2> QED BY <1>0, <2>1, <2>2, <2>3 DEF Books, Pending
<1>3. CASE ClosesPage
  <2>1. /\ pc = "visit" /\ target \in Users /\ books' = books
        /\ UNCHANGED <<sender, held, receiver, offered>>
    BY <1>3 DEF ClosesPage, TypeOK, session
  <2>2. CASE Saved
    <3>1. unlogged \subseteq unlogged'
      BY <2>2 DEF Saved
    <3>2. FitsInt(newPoints)
      BY <1>0, <2>2, Zenon DEF Saved, Noted
    <3>3. points' = [points EXCEPT ![target] = newPoints]
      BY <2>2, <3>2 DEF Saved, FitsInt
    <3>4. target \notin unlogged' => path = "manage" /\ base = points[target]
      <4>1. target \notin unlogged' => path # "restore" /\ "page" \notin stale
        BY <2>2 DEF Saved
      <4>2. path # "none"
        BY <1>0, <2>1 DEF Books
      <4> QED BY <1>0, <2>1, <4>1, <4>2 DEF Books, TypeOK
    <3>7. /\ sender # NoUser /\ "sender" \notin stale' => held = points'[sender]
          /\ receiver # NoUser /\ "receiver" \notin stale'
                => offered = points'[receiver]
      <4>1. /\ "sender" \notin stale' => "sender" \notin stale /\ sender # target
            /\ "receiver" \notin stale'
                  => "receiver" \notin stale /\ receiver # target
        BY <2>2 DEF Saved, Copies, CopyOf
      <4>2. /\ sender # NoUser => sender \in Users
            /\ receiver # NoUser => receiver \in Users
        BY DEF TypeOK
      <4> QED BY <1>0, <3>3, <4>1, <4>2 DEF Books, TypeOK
    <3>5. CASE path = "manage"
      <4>1. pc' = "reason" /\ UNCHANGED <<target, newPoints, base>>
        BY <2>2, <3>5 DEF Saved, page
      <4>2. \A u \in Users \ unlogged' : points'[u] = books[u] + Pending(u)'
        BY <1>0, <2>1, <3>1, <3>3, <3>4, <4>1 DEF Books, Pending, TypeOK
      <4> QED BY <2>1, <3>7, <4>1, <4>2 DEF Books
    <3>6. CASE path # "manage"
      <4>1. pc' = "menu" /\ target \in unlogged'
        BY <2>2, <3>4, <3>6 DEF Saved, BackToMenu
      <4> QED BY <1>0, <2>1, <3>1, <3>3, <3>7, <4>1 DEF Books, Pending, TypeOK
    <3> QED BY <3>5, <3>6
  <2>3. CASE NotSaved \/ (~edited /\ BackToMenu
                            /\ UNCHANGED <<points, stale, torn, unlogged, wrapped>>)
    BY <1>0, <2>1, <2>3, BooksKept DEF NotSaved, BackToMenu, session
  <2> QED BY <1>3, <2>2, <2>3 DEF ClosesPage
<1>4. CASE LogEdit
  <2>1. /\ pc = "reason" /\ pc' = "menu" /\ points' = points
        /\ target \in Users
        /\ UNCHANGED <<sender, held, receiver, offered, stale>>
    BY <1>4 DEF LogEdit, BackToMenu, TypeOK, files, session
  <2>2. CASE /\ books' = [books EXCEPT ![target] = @ + (newPoints - base)]
             /\ UNCHANGED unlogged
    <3> SUFFICES ASSUME NEW u \in Users \ unlogged
                 PROVE  points[u] = books'[u] /\ books'[u] \in Int
      BY <1>0, <2>1, <2>2 DEF Books, Pending
    <3> QED BY <1>0, <2>1, <2>2 DEF Books, Pending, TypeOK
  <2>3. CASE unlogged' = unlogged \cup {target} /\ UNCHANGED books
    BY <1>0, <2>1, <2>3 DEF Books, Pending, TypeOK
  <2> QED BY <1>4, <2>2, <2>3 DEF LogEdit, Logged
<1>5. CASE Abort
  BY <1>0, <1>5, BooksKept DEF Abort, EndSession, files, history
<1>6. CASE Crash
  <2>1. /\ pc' = "out" /\ UNCHANGED <<points, books>>
        /\ UNCHANGED <<sender, held, receiver, offered, stale>>
    BY <1>6 DEF Crash, EndSession, files, session
  <2>2. unlogged \subseteq unlogged' /\ (pc = "reason" => target \in unlogged')
    BY <1>6 DEF Crash, Unwritten
  <2> QED BY <1>0, <2>1, <2>2 DEF Books, Pending
<1>7. ASSUME NEW d \in Edits, EditWallet(d)
      PROVE  Books'
  BY <1>0, <1>7, BooksKept DEF EditWallet
<1>8. ASSUME NEW d \in Edits, EditPoints(d)
      PROVE  Books'
  BY <1>0, <1>8 DEF EditPoints, Books, Pending, files, session, history
<1>9. ASSUME NEW u \in Users, NEW how \in {"manage", "restore"}, OpenPage(u, how)
      PROVE  Books'
  BY <1>0, <1>9 DEF OpenPage, Books, Pending, files, session, history
<1>10. ASSUME NEW u \in Users, NEW n \in Gifts, AddUser(u, n)
       PROVE  Books'
  <2>1. /\ pc = "menu" /\ pc' = "menu"
        /\ UNCHANGED <<unlogged, sender, held, receiver, offered, stale>>
    BY <1>10 DEF AddUser, session
  <2>2. \A v \in Users \ unlogged : points'[v] = books'[v]
    <3>1. \/ /\ points' = [points EXCEPT ![u] = n]
             /\ books' = [books EXCEPT ![u] = n]
          \/ UNCHANGED <<points, books>>
      BY <1>10 DEF AddUser
    <3>2. \A v \in Users \ unlogged : points[v] = books[v]
      BY <1>0, <2>1 DEF Books, Pending, TypeOK
    <3> QED BY <3>1, <3>2 DEF TypeOK
  <2>3. \A v \in Users : books'[v] \in Int
    BY <1>0 DEF TypeOK
  <2>4. /\ sender # NoUser /\ "sender" \notin stale => held = points'[sender]
        /\ receiver # NoUser /\ "receiver" \notin stale
              => offered = points'[receiver]
    <3>1. \A v \in rows : points'[v] = points[v]
      BY <1>10 DEF AddUser, TypeOK
    <3>2. /\ sender # NoUser => sender \in rows
          /\ receiver # NoUser => receiver \in rows
      BY DEF TypeOK
    <3> QED BY <1>0, <3>1, <3>2 DEF Books
  <2> QED BY <2>1, <2>2, <2>3, <2>4 DEF Books, Pending
<1>11. ASSUME NEW n \in 1 .. held, Transfer(n)
       PROVE  Books'
  BY <1>0, <1>11, TransferBooks
<1>13. ASSUME NEW u \in Users, LoginUser(u)
       PROVE  Books'
  BY <1>0, <1>13, AdminAssumption
     DEF LoginUser, Books, Pending, TypeOK, files, page, history
<1>14. ASSUME NEW u \in Users, NameReceiver(u)
       PROVE  Books'
  BY <1>0, <1>14 DEF NameReceiver, Books, Pending, files, page, history
<1>15. CASE LogoutUser
  BY <1>0, <1>15 DEF LogoutUser, Books, Pending, files, page, history
<1>12. CASE UNCHANGED vars
  BY <1>12 DEF Books, Pending, vars, files, page, session, history
<1> QED BY <1>1, <1>2, <1>3, <1>4, <1>5, <1>6, <1>7, <1>8, <1>9, <1>10, <1>11,
           <1>12, <1>13, <1>14, <1>15 DEF Next, ManageUser, RestoreUser

(* A step that leaves the wallet, its copy and its lines alone.            *)
LEMMA WalletKept ==
    ASSUME WalletBooks, ~wrapped,
           UNCHANGED <<wallet, torn>>, books'[System] = books[System],
           unlogged \subseteq unlogged',
           pc # "walletLog", pc' # "walletLog",
           pc' = "out" \/ (pc # "out" /\ adminPoint' = adminPoint)
    PROVE  WalletBooks'
BY DEF WalletBooks

(* The same for a step at which updateAdminRow tears its file.             *)
LEMMA WalletTorn ==
    ASSUME "admin" \in torn'
    PROVE  WalletBooks'
BY DEF WalletBooks

(* Every step keeps the books of the wallet.                               *)
LEMMA NextWalletBooks == TypeOK /\ WalletBooks /\ [Next]_vars => WalletBooks'
<1> SUFFICES ASSUME TypeOK, WalletBooks, [Next]_vars, ~wrapped'
             PROVE  WalletBooks'
  BY DEF WalletBooks
<1>0. ~wrapped /\ TypeOK'
  BY WrappedStays, NextType
<1>1. CASE LoginAdmin
  <2>1. FitsInt(wallet)
    BY <1>0, <1>1, Zenon DEF LoginAdmin, Noted
  <2>2. adminPoint' = wallet
    BY <1>1, <2>1 DEF LoginAdmin, FitsInt
  <2> QED BY <1>0, <1>1, <2>2 DEF LoginAdmin, WalletBooks, files
<1>2. CASE LogoutAdmin
  BY <1>0, <1>2, WalletKept DEF LogoutAdmin, EndSession, files, history
<1>3. CASE ChangeProfile
  BY <1>3, WalletTorn DEF ChangeProfile, TearAdmin
<1>4. CASE LogWalletEdit
  <2>1. /\ pc = "walletLog" /\ pc' = "menu"
        /\ UNCHANGED <<wallet, torn, adminPoint>>
    BY <1>4 DEF LogWalletEdit, BackToMenu, files
  <2>2. CASE System \in unlogged'
    BY <1>0, <2>1, <2>2 DEF WalletBooks
  <2>3. CASE System \notin unlogged'
    <3>1. /\ books' = [books EXCEPT ![System] = @ + (newPoints - base)]
          /\ unlogged' = unlogged
      BY <1>4, <2>3 DEF LogWalletEdit, Logged
    <3>2. books'[System] = books[System] + (newPoints - base)
      BY <3>1 DEF TypeOK
    <3>3. books'[System] \in Int
      BY <1>0 DEF TypeOK
    <3> QED BY <1>0, <2>1, <2>3, <3>1, <3>2, <3>3 DEF WalletBooks
  <2> QED BY <2>2, <2>3
<1>5. CASE ClosesPage
  <2>1. /\ pc = "visit" /\ UNCHANGED <<wallet, adminPoint, books>>
        /\ pc' \in {"menu", "reason"} /\ unlogged \subseteq unlogged'
    BY <1>5 DEF ClosesPage, Saved, NotSaved, BackToMenu
  <2>2. torn' \in {torn, torn \cup {"users"}}
    BY <1>5 DEF ClosesPage, Saved, NotSaved
  <2>3. "admin" \in torn' <=> "admin" \in torn
    BY <2>2
  <2>4. pc # "walletLog" /\ pc' # "walletLog" /\ pc # "out"
    BY <2>1
  <2> HIDE <1>5
  <2> QED BY <1>0, <2>1, <2>3, <2>4 DEF WalletBooks
<1>6. CASE LogEdit
  <2>1. /\ pc = "reason" /\ pc' = "menu" /\ target \in Users
        /\ UNCHANGED <<wallet, torn, adminPoint>>
    BY <1>6 DEF LogEdit, BackToMenu, TypeOK, files
  <2>2. books'[System] = books[System] /\ unlogged \subseteq unlogged'
    BY <1>6, <2>1, AdminAssumption DEF LogEdit, Logged, TypeOK
  <2> QED BY <1>0, <2>1, <2>2, WalletKept
<1>7. CASE Abort
  BY <1>0, <1>7, WalletKept DEF Abort, EndSession, files, history
<1>8. CASE Crash
  <2>1. pc' = "out" /\ UNCHANGED <<wallet, torn, books>>
    BY <1>8 DEF Crash, EndSession, files
  <2>2. /\ unlogged \subseteq unlogged'
        /\ pc = "walletLog" => System \in unlogged'
    BY <1>8 DEF Crash, Unwritten
  <2>3. books[System] \in Int
    BY DEF TypeOK
  <2> QED BY <1>0, <2>1, <2>2, <2>3 DEF WalletBooks
<1>9. ASSUME NEW d \in Edits, EditWallet(d)
      PROVE  WalletBooks'
  <2>1. pc = "menu" /\ UNCHANGED <<books, unlogged>>
    BY <1>9 DEF EditWallet
  <2>2. CASE "admin" \in torn'
    BY <2>2, WalletTorn
  <2>3. CASE "admin" \notin torn' /\ pc' = "walletLog"
    <3>1. /\ base' = adminPoint /\ newPoints' = adminPoint + d
          /\ wallet' = adminPoint + d /\ "admin" \notin torn
          /\ adminPoint' = ToInt(adminPoint + d)
      BY <1>9, <2>1, <2>3
         DEF EditWallet, WalletStored, WalletNotStored, TearAdmin,
             RememberedWallet
    <3>2. FitsInt(adminPoint + d)
      <4>1. Noted(adminPoint + d)
        BY <1>9, <2>1, <2>3 DEF EditWallet
      <4> QED BY <4>1, Zenon DEF Noted
    <3>3. adminPoint = wallet
      BY <1>0, <2>1, <3>1 DEF WalletBooks
    <3>4. System \in unlogged \/ wallet = books[System]
      BY <1>0, <2>1, <3>1 DEF WalletBooks, TypeOK
    <3>5. adminPoint' = wallet'
      BY <3>1, <3>2 DEF FitsInt
    <3>6. System \in unlogged'
            \/ wallet' = books'[System] + (newPoints' - base')
      <4>1. d \in Int /\ adminPoint \in Int /\ books[System] \in Int
        BY AdminAssumption DEF TypeOK
      <4> HIDE <1>9
      <4> QED BY <2>1, <3>1, <3>3, <3>4, <4>1
    <3> QED BY <2>3, <3>5, <3>6 DEF WalletBooks
  <2>4. CASE "admin" \notin torn' /\ pc' # "walletLog"
    <3>1. UNCHANGED <<pc, adminPoint, wallet, torn>>
      BY <1>9, <2>1, <2>4
         DEF EditWallet, WalletNotStored, TearAdmin
    <3> QED BY <1>0, <2>1, <3>1, WalletKept
  <2> QED BY <2>2, <2>3, <2>4
<1>10. ASSUME NEW d \in Edits, EditPoints(d)
       PROVE  WalletBooks'
  BY <1>0, <1>10, WalletKept DEF EditPoints, files, history
<1>11. ASSUME NEW u \in Users, NEW how, OpenPage(u, how)
       PROVE  WalletBooks'
  BY <1>0, <1>11, WalletKept DEF OpenPage, files, history
<1>12. ASSUME NEW u \in Users, NEW n \in Gifts, AddUser(u, n)
       PROVE  WalletBooks'
  <2>1. /\ pc = "menu" /\ pc' = "menu"
        /\ UNCHANGED <<wallet, adminPoint, unlogged>>
    BY <1>12 DEF AddUser
  <2>2. "admin" \in torn' <=> "admin" \in torn
    BY <1>12 DEF AddUser
  <2>3. books'[System] = books[System]
    BY <1>12, AdminAssumption DEF AddUser, TypeOK
  <2> HIDE <1>12
  <2> QED BY <1>0, <2>1, <2>2, <2>3 DEF WalletBooks
<1>13. ASSUME NEW n \in 1 .. held, Transfer(n)
       PROVE  WalletBooks'
  <2>1. UNCHANGED <<wallet, torn, pc, adminPoint, newPoints, base>>
    BY <1>13 DEF Transfer, page
  <2>2. sender # System /\ receiver # System
    BY <1>13, AdminAssumption DEF Transfer, TypeOK
  <2>3. /\ books'[System] = books[System]
        /\ unlogged \subseteq unlogged'
    BY <1>13, <2>2, AdminAssumption
       DEF Transfer, Transferred, TakenBack, OnlyDebited, LineOf, TypeOK
  <2> HIDE <1>13
  <2> QED BY <1>0, <2>1, <2>3 DEF WalletBooks
<1>15. CASE LogoutUser \/ \E u \in Users : LoginUser(u) \/ NameReceiver(u)
  <2>1. UNCHANGED <<wallet, torn, pc, adminPoint, newPoints, base, books, unlogged>>
    BY <1>15 DEF LogoutUser, LoginUser, NameReceiver, files, page, history
  <2> QED BY <1>0, <2>1 DEF WalletBooks
<1>14. CASE UNCHANGED vars
  BY <1>14 DEF WalletBooks, vars, files, page, history
<1> QED BY <1>1, <1>2, <1>3, <1>4, <1>5, <1>6, <1>7, <1>8, <1>9, <1>10, <1>11,
           <1>12, <1>13, <1>14, <1>15 DEF Next, ManageUser, RestoreUser

LEMMA AllBooks == Spec => [](TypeOK /\ Books /\ WalletBooks)
<1>1. Init => TypeOK /\ Books /\ WalletBooks
  BY InitType, InitBooks
<1>2. TypeOK /\ Books /\ WalletBooks /\ [Next]_vars
         => (TypeOK /\ Books /\ WalletBooks)'
  BY NextType, NextBooks, NextWalletBooks
<1> QED BY <1>1, <1>2, PTL DEF Spec

(* The lines of the log explain every balance they are complete for.       *)
THEOREM HistoryCorrect == Spec => []HistoryExplains
<1>1. TypeOK /\ Books => HistoryExplains
  BY DEF TypeOK, Books, Pending, HistoryExplains
<1> QED BY <1>1, AllBooks, PTL

(* The lines of the log explain the system wallet.                         *)
THEOREM WalletCorrect == Spec => []WalletExplained
<1>1. TypeOK /\ WalletBooks => WalletExplained
  BY DEF TypeOK, WalletBooks, WalletExplained
<1> QED BY <1>1, AllBooks, PTL

(* "Balanced" and "does NOT match" are about what the files hold, but for  *)
(* the -1 of a table that could not be read.                               *)
THEOREM BalancedCorrect == Spec => []BalancedIsReal
<1>1. TypeOK /\ WalletBooks => BalancedIsReal
  <2> SUFFICES ASSUME WalletBooks, pc = "menu", ~wrapped, "admin" \notin torn,
                      NEW total \in calculateTotalWalletIds
               PROVE  IF total = -1 /\ ReadFails
                        THEN Balanced(total) <=> wallet = -1
                        ELSE Balanced(total) <=> "users" \notin torn
                                          /\ wallet = SumFunction(points)
    BY DEF BalancedIsReal
  <2>1. adminPoint = wallet
    BY DEF WalletBooks
  <2>2. CASE total = -1 /\ ReadFails
    BY <2>1, <2>2 DEF Balanced
  <2>3. CASE ~(total = -1 /\ ReadFails)
    <3>1. "users" \notin torn /\ total = SumFunction(points)
      BY <2>3 DEF calculateTotalWalletIds
    <3> QED BY <2>1, <2>3, <3>1 DEF Balanced
  <2> QED BY <2>2, <2>3
<1> QED BY <1>1, AllBooks, PTL
=============================================================================
