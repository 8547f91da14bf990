---------------------------- MODULE AdminPoints ----------------------------
(***************************************************************************)
(* What an admin does to points: edits of a user's balance (changeuserinfo *)
(* and UserEditMenu in Menus.cpp), edits of the system wallet in           *)
(* admin.parquet (Admin.cpp, updateAdminRow in DbUtils.cpp), and the       *)
(* comparison of that wallet with the sum of users.parquet.                *)
(*                                                                         *)
(* An edit is remembered while the admin is on the page of a user, saved   *)
(* when the page is left, and written to the log afterwards. A user in the *)
(* same or in another instance pays from the balance copied at login and   *)
(* the one copied of the receiver; the two updates of a transfer are one   *)
(* step here (module WalletTransfer has them apart). What restoring does   *)
(* to userstatus.parquet is in module Accounts.                            *)
(***************************************************************************)
EXTENDS Integers, Functions

CONSTANTS Users,      \* user names that may have a row in users.parquet
          NoUser,
          System,     \* the target of an edit of the system wallet
          Opening,    \* users with a row at the start, and their points
          Wallet,     \* Points of the row of admin.parquet at the start
          Edits,      \* what an admin may type as a change of points
          Gifts,      \* what an admin may give to a new user
          IntHalf,    \* 2^31 of int
          Faults,     \* of "refused", "torn", "crash", "instance"
          MaxVisits   \* bound: of pages opened, wallet edits, user logins

ASSUME AdminAssumption ==
    /\ NoUser \notin Users /\ System \notin Users
    /\ DOMAIN Opening \subseteq Users
    /\ Opening \in [DOMAIN Opening -> Int]
    /\ Wallet \in Int
    /\ Edits \subseteq Int
    /\ Gifts \subseteq Nat
    /\ IntHalf \in Nat \ {0}
    /\ Faults \subseteq {"refused", "torn", "crash", "instance"}
    /\ MaxVisits \in Nat

VARIABLES rows,       \* users with a row in users.parquet
          points,     \* its Points column, last complete content
          wallet,     \* Points of admin.parquet, last complete content
          torn,       \* the files a reader cannot open: "users", "admin"
          pc,         \* the prompt the admin is at
          adminPoint, \* currentAdmin->point()
          target,     \* the user whose page is open
          path,       \* how the page was reached: case 3 or 5 of the menu
          base,       \* point() of that user, or of the admin, before an edit
          edited,     \* updated_values has Points
          newPoints,  \* updated_values["Points"], or the wallet to be stored
          sender,     \* the user who is logged in beside or before the admin
          held,       \* currentUser->point(), copied at login
          receiver,   \* the account that user has named
          offered,    \* receiverPoints, copied when it was named
          stale,      \* history: the copies whose row has changed since
          visits,     \* pages, wallet edits and user logins so far (bounded)
          books,      \* history: the balances the log adds up to
          unlogged,   \* history: targets with a change the log does not show
          wrapped     \* history: a number did not fit int

files   == <<rows, points, wallet, torn>>
page    == <<target, path, base, edited, newPoints>>
session == <<sender, held, receiver, offered>>
history == <<books, unlogged, wrapped>>
vars    == <<files, pc, adminPoint, page, session, stale, visits, history>>

Prompts == {"out", "menu", "visit", "reason", "walletLog"}

OpeningOf(u) == IF u \in DOMAIN Opening THEN Opening[u] ELSE 0

Init ==
    /\ rows = DOMAIN Opening
    /\ points = [u \in Users |-> OpeningOf(u)]
    /\ wallet = Wallet
    /\ torn = {}
    /\ pc = "out" /\ adminPoint = 0
    /\ target = NoUser /\ path = "none"
    /\ base = 0 /\ edited = FALSE /\ newPoints = 0
    /\ sender = NoUser /\ held = 0 /\ receiver = NoUser /\ offered = 0
    /\ stale = {}
    /\ visits = 0
    /\ books = [t \in Users \cup {System} |->
                   IF t = System THEN Wallet ELSE OpeningOf(t)]
    /\ unlogged = {}
    /\ wrapped = FALSE

-----------------------------------------------------------------------------
(* int: what updateUserInfo parses a balance into, and Admin::Point.       *)

ToInt(n) == ((n + IntHalf) % (2 * IntHalf)) - IntHalf

FitsInt(n) == ToInt(n) = n

Noted(n) == wrapped' = (wrapped \/ ~FitsInt(n))

ClosePage_KeepsTarget ==
    /\ path' = "none"
    /\ base' = 0 /\ edited' = FALSE /\ newPoints' = 0
    /\ UNCHANGED target

ClosePage ==
    /\ target' = NoUser /\ path' = "none"
    /\ base' = 0 /\ edited' = FALSE /\ newPoints' = 0

BackToMenu == pc' = "menu" /\ ClosePage

EndSession == pc' = "out" /\ adminPoint' = 0 /\ ClosePage

(* The account each copy of a balance is of.                               *)
CopyOf == [page |-> target, sender |-> sender, receiver |-> receiver]

Copies(accounts) == {c \in DOMAIN CopyOf : CopyOf[c] \in accounts}

-----------------------------------------------------------------------------
(* loginAdmin and AdminLoginMenu                                           *)

(* Admin keeps the 64-bit balance of the file in an int.                   *)
LoginAdmin ==
    /\ pc = "out"
    /\ sender = NoUser \/ "instance" \in Faults
    /\ "admin" \notin torn
    /\ pc' = "menu"
    /\ adminPoint' = ToInt(wallet)
    /\ Noted(wallet)
    /\ UNCHANGED <<files, page, session, stale, visits, books, unlogged>>

LogoutAdmin ==
    /\ pc = "menu"
    /\ EndSession
    /\ UNCHANGED <<files, session, stale, visits, history>>

(* updateAdminRow reports a failed write and not a failed Close, so that a *)
(* torn file may come with either result.                                  *)
TearAdmin ==
    /\ "admin" \notin torn /\ "torn" \in Faults
    /\ torn' = torn \cup {"admin"}
    /\ UNCHANGED wallet

WalletStored(n) ==
    \/ "admin" \notin torn /\ wallet' = n /\ UNCHANGED torn
    \/ TearAdmin

WalletNotStored ==
    \/ /\ "admin" \in torn \/ "refused" \in Faults
       /\ UNCHANGED <<wallet, torn>>
    \/ TearAdmin

RememberedWallet_NotUpdated(n) == adminPoint

(* editAdminPoints sets the admin's copy to what it has stored.            *)
RememberedWallet(n) == ToInt(n)

EditWallet(d) ==
    /\ pc = "menu"
    /\ visits < MaxVisits
    /\ visits' = visits + 1
    /\ \/ /\ pc' = "walletLog"
          /\ base' = adminPoint
          /\ newPoints' = adminPoint + d
          /\ WalletStored(adminPoint + d)
          /\ adminPoint' = RememberedWallet(adminPoint + d)
          /\ Noted(adminPoint + d)
          /\ UNCHANGED <<target, path, edited>>
       \/ /\ WalletNotStored
          /\ UNCHANGED <<pc, adminPoint, page, wrapped>>
    /\ UNCHANGED <<rows, points, session, stale, books, unlogged>>

(* AdminLoginMenu, 4: a new name or password rewrites the file too; its    *)
(* other columns are not modelled.                                         *)
ChangeProfile ==
    /\ pc = "menu"
    /\ TearAdmin
    /\ UNCHANGED <<rows, points, pc, adminPoint, page, session, stale>>
    /\ UNCHANGED <<visits, history>>

(* logPointEditTransaction; a log that cannot be opened is not an error.   *)
Logged(t, n) ==
    \/ /\ books' = [books EXCEPT ![t] = @ + n]
       /\ UNCHANGED unlogged
    \/ /\ "refused" \in Faults
       /\ unlogged' = unlogged \cup {t}
       /\ UNCHANGED books

LogWalletEdit ==
    /\ pc = "walletLog"
    /\ Logged(System, newPoints - base)
    /\ BackToMenu
    /\ UNCHANGED <<files, adminPoint, session, stale, visits, wrapped>>

-----------------------------------------------------------------------------
(* UserEditMenu                                                            *)

(* Case 1: a new user starts with the points the admin gives, stored as    *)
(* they are.                                                               *)
AddUser(u, n) ==
    /\ pc = "menu"
    /\ u \notin rows
    /\ \/ /\ "users" \notin torn
          /\ rows' = rows \cup {u}
          /\ points' = [points EXCEPT ![u] = n]
          /\ books' = [books EXCEPT ![u] = n]
          /\ Noted(n)
          /\ UNCHANGED torn
       \/ /\ "users" \notin torn /\ "torn" \in Faults
          /\ torn' = torn \cup {"users"}
          /\ UNCHANGED <<rows, points, books, wrapped>>
    /\ UNCHANGED <<wallet, pc, adminPoint, page, session, stale, visits>>
    /\ UNCHANGED unlogged

(* Cases 3 and 5 read the row of a user and open the same page on it.      *)
OpenPage(u, how) ==
    /\ pc = "menu"
    /\ "users" \notin torn
    /\ u \in rows
    /\ visits < MaxVisits
    /\ visits' = visits + 1
    /\ pc' = "visit" /\ target' = u /\ path' = how
    /\ base' = points[u]
    /\ stale' = stale \ {"page"}
    /\ UNCHANGED <<files, adminPoint, edited, newPoints, session, history>>

ManageUser(u)  == OpenPage(u, "manage")
RestoreUser(u) == OpenPage(u, "restore")

EditPoints_Remembered(d) ==
    /\ pc = "visit"
    /\ edited' = TRUE
    /\ newPoints' = base + d
    /\ base' = base + d
    /\ UNCHANGED <<files, pc, adminPoint, target, path, session, stale>>
    /\ UNCHANGED <<visits, history>>

(* changeuserinfo, 3: every edit starts from the balance the page was      *)
(* opened with, so the last one replaces the others.                       *)
EditPoints(d) ==
    /\ pc = "visit"
    /\ edited' = TRUE
    /\ newPoints' = base + d
    /\ UNCHANGED <<files, pc, adminPoint, target, path, base, session, stale>>
    /\ UNCHANGED <<visits, history>>

(* Case 3 logs the change it has saved. Case 5 never logs; and a save that *)
(* overwrites a change made under the open page takes that with it.        *)
Saved ==
    /\ "users" \notin torn
    /\ points' = [points EXCEPT ![target] = ToInt(newPoints)]
    /\ Noted(newPoints)
    /\ unlogged' = IF path = "restore" \/ "page" \in stale
                     THEN unlogged \cup {target} ELSE unlogged
    /\ stale' = stale \cup Copies({target})
    /\ IF path = "manage" THEN pc' = "reason" /\ UNCHANGED page
                          ELSE BackToMenu
    /\ UNCHANGED torn

NotSaved ==
    /\ \/ /\ "users" \in torn \/ "refused" \in Faults
          /\ UNCHANGED torn
       \/ /\ "users" \notin torn /\ "torn" \in Faults
          /\ torn' = torn \cup {"users"}
    /\ BackToMenu
    /\ UNCHANGED <<points, stale, unlogged, wrapped>>

ClosesPage ==
    /\ pc = "visit"
    /\ \/ /\ edited
          /\ Saved \/ NotSaved
       \/ /\ ~edited
          /\ BackToMenu
          /\ UNCHANGED <<points, stale, torn, unlogged, wrapped>>
    /\ UNCHANGED <<rows, wallet, adminPoint, session, visits, books>>

(* Case 3 asks for the reason after it has saved, and logs the difference. *)
LogEdit ==
    /\ pc = "reason"
    /\ Logged(target, newPoints - base)
    /\ BackToMenu
    /\ UNCHANGED <<files, adminPoint, session, stale, visits, wrapped>>

-----------------------------------------------------------------------------
(* Around the admin                                                        *)

(* login keeps the balance of the row; logging out drops it.               *)
LoginUser(u) ==
    /\ sender = NoUser
    /\ pc = "out" \/ "instance" \in Faults
    /\ "users" \notin torn
    /\ u \in rows
    /\ visits < MaxVisits
    /\ visits' = visits + 1
    /\ sender' = u /\ held' = points[u]
    /\ stale' = stale \ {"sender"}
    /\ UNCHANGED <<files, pc, adminPoint, page, receiver, offered, history>>

LogoutUser ==
    /\ sender # NoUser
    /\ sender' = NoUser /\ held' = 0 /\ receiver' = NoUser /\ offered' = 0
    /\ UNCHANGED <<files, pc, adminPoint, page, stale, visits, history>>

(* transferPoint copies the balance of the receiver it has found, and asks *)
(* for the points, the confirmation and the OTP afterwards.                *)
NameReceiver(v) ==
    /\ sender # NoUser
    /\ "users" \notin torn
    /\ v \in rows \ {sender}
    /\ receiver' = v /\ offered' = points[v]
    /\ stale' = stale \ {"receiver"}
    /\ UNCHANGED <<files, pc, adminPoint, page, sender, held, visits, history>>

(* The log line of a transfer: the balances it is about, both ways.        *)
LineOf(n) == [books EXCEPT ![sender] = @ - n, ![receiver] = @ + n]

Outdated == {CopyOf[c] : c \in stale \cap {"sender", "receiver"}}

(* Both updates write what follows from the copies, whatever the rows hold *)
(* by now, so that a change made since is lost with nothing in the log.    *)
Transferred(n) ==
    /\ points' = [points EXCEPT ![sender] = ToInt(held - n),
                                ![receiver] = ToInt(offered + n)]
    /\ wrapped' = (wrapped \/ ~FitsInt(held - n) \/ ~FitsInt(offered + n))
    /\ held' = held - n
    /\ stale' = stale \cup (Copies({sender, receiver}) \ {"sender"})
    /\ \/ /\ books' = LineOf(n)
          /\ unlogged' = unlogged \cup Outdated
       \/ /\ "refused" \in Faults
          /\ unlogged' = unlogged \cup {sender, receiver}
          /\ UNCHANGED books

(* The credit is refused. With the debit taken back the transfer goes on   *)
(* as a success: it is logged, and the copy of the sender pays for it.     *)
TakenBack(n) ==
    /\ "refused" \in Faults
    /\ points' = [points EXCEPT ![sender] = ToInt(held)]
    /\ wrapped' = (wrapped \/ ~FitsInt(held))
    /\ held' = held - n
    /\ stale' = stale \cup Copies({sender})
    /\ books' \in {books, LineOf(n)}
    /\ unlogged' = unlogged \cup {sender, receiver}

(* The debit is stored and nothing after it: the program dies, or the      *)
(* credit and the rollback are refused, which logs no success.             *)
OnlyDebited(n) ==
    /\ Faults \cap {"refused", "crash"} # {}
    /\ points' = [points EXCEPT ![sender] = ToInt(held - n)]
    /\ Noted(held - n)
    /\ stale' = stale \cup Copies({sender})
    /\ unlogged' = unlogged \cup {sender}
    /\ UNCHANGED <<held, books>>

Transfer(n) ==
    /\ receiver # NoUser
    /\ "users" \notin torn
    /\ n \in 1 .. held
    /\ Transferred(n) \/ TakenBack(n) \/ OnlyDebited(n)
    /\ receiver' = NoUser /\ offered' = 0
    /\ UNCHANGED <<rows, wallet, torn, pc, adminPoint, page, sender, visits>>

(* A file that cannot be parsed makes a StreamReader throw out of the menu *)
(* that reads it.                                                          *)
Abort ==
    /\ pc = "menu"
    /\ "users" \in torn
    /\ EndSession
    /\ UNCHANGED <<files, session, stale, visits, history>>

Unwritten ==
    IF pc = "reason" THEN {target}
    ELSE IF pc = "walletLog" THEN {System} ELSE {}

Crash ==
    /\ "crash" \in Faults
    /\ pc # "out"
    /\ EndSession
    /\ unlogged' = unlogged \cup Unwritten
    /\ UNCHANGED <<files, session, stale, visits, books, wrapped>>

Next ==
    \/ LoginAdmin \/ LogoutAdmin \/ ChangeProfile \/ LogWalletEdit
    \/ ClosesPage \/ LogEdit \/ Abort \/ Crash
    \/ \E d \in Edits : EditWallet(d) \/ EditPoints(d)
    \/ \E u \in Users :
          \/ ManageUser(u) \/ RestoreUser(u)
          \/ \E n \in Gifts : AddUser(u, n)
    \/ LogoutUser
    \/ \E u \in Users : LoginUser(u) \/ NameReceiver(u)
    \/ \E n \in 1 .. held : Transfer(n)

Spec == Init /\ [][Next]_vars

-----------------------------------------------------------------------------
TypeOK ==
    /\ rows \subseteq Users
    /\ points \in [Users -> Int]
    /\ wallet \in Int /\ adminPoint \in Int
    /\ torn \subseteq {"users", "admin"}
    /\ pc \in Prompts
    /\ target \in rows \cup {NoUser}
    /\ path \in {"none", "manage", "restore"}
    /\ base \in Int /\ newPoints \in Int
    /\ edited \in BOOLEAN
    /\ sender \in rows \cup {NoUser} /\ receiver \in rows \cup {NoUser}
    /\ held \in Int /\ offered \in Int
    /\ stale \subseteq {"page", "sender", "receiver"}
    /\ visits \in 0 .. MaxVisits
    /\ books \in [Users \cup {System} -> Int]
    /\ unlogged \subseteq Users \cup {System}
    /\ wrapped \in BOOLEAN
    /\ (target = NoUser) <=> (pc \in {"out", "menu", "walletLog"})
    /\ receiver # NoUser => sender \notin {NoUser, receiver}

(* The lines of the log explain the balances: outside of the moment        *)
(* between saving an edit and logging it, every user's balance is what the *)
(* lines add up to, however many edits a visit to a page had and whatever  *)
(* transfers came in between, as long as the table can be read. The        *)
(* exceptions are those history remembers: a restored account that was     *)
(* edited, a change overwritten from the copy an open page or the session  *)
(* of a user had of the balance before, a transfer of which only a part    *)
(* was stored, a death before the line, a log that could not be opened.    *)
HistoryExplains ==
    ~wrapped /\ "users" \notin torn =>
        \A u \in Users \ unlogged :
            (pc = "reason" => u # target) => points[u] = books[u]

(* The same for the system wallet, as long as its file can be read.        *)
WalletExplained ==
    ~wrapped /\ pc # "walletLog" =>
        "admin" \in torn \/ System \in unlogged \/ wallet = books[System]

ReadFails == "users" \in torn \/ "refused" \in Faults

calculateTotal_ZeroIfUnreadable ==
    (IF "users" \in torn THEN {} ELSE {SumFunction(points)})
        \cup (IF ReadFails THEN {0} ELSE {})

(* calculateTotalWalletIds: what it may answer. -1 stands for a table that *)
(* could not be read, be it torn or not opened this time.                  *)
calculateTotalWalletIds ==
    (IF "users" \in torn THEN {} ELSE {SumFunction(points)})
        \cup (IF ReadFails THEN {-1} ELSE {})

Balanced(total) == adminPoint = total

(* Whichever answer the admin's copy of the wallet is compared with,       *)
(* "Balanced" is announced of a stored wallet that is the sum of the       *)
(* stored balances, and "does NOT match" of one that is not. -1 confuses   *)
(* both: it denies a balanced system when the table could not be read, and *)
(* confirms a wallet of -1.                                                *)
BalancedIsReal ==
    pc = "menu" /\ ~wrapped /\ "admin" \notin torn =>
        \A total \in calculateTotalWalletIds :
            IF total = -1 /\ ReadFails
              THEN Balanced(total) <=> wallet = -1
              ELSE Balanced(total) <=> "users" \notin torn
                                         /\ wallet = SumFunction(points)

=============================================================================
