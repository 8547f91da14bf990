--------------------------- MODULE WalletTransfer ---------------------------
(***************************************************************************)
(* Point transfers of DbUtils.cpp (transferPoint, updateUserInfo) as they  *)
(* are reached from UserLoginMenu and eWallet in Menus.cpp.                *)
(*                                                                         *)
(* The only shared state is the file assets/users.parquet, rewritten as a  *)
(* whole by every update; a client is one running main.exe with at most    *)
(* one session, whose balance is copied from the file once, at login.      *)
(* Every client may fail in the ways listed in Faults.                     *)
(***************************************************************************)
EXTENDS Integers

CONSTANTS Users,         \* the rows of users.parquet (user name and wallet)
          NoUser,        \* "no session" / "no receiver"
          Clients,       \* running instances of the program
          Opening,       \* Points column when the model starts
          Amounts,       \* what a user may type as an amount
          IntHalf,       \* 2^31 of the int that updateUserInfo parses into
          Faults,        \* which of the failures below may happen
          MaxTransfers   \* bound: OTP-verified transfers in one behaviour

ASSUME WalletAssumption ==
    /\ NoUser \notin Users
    /\ Opening \in [Users -> Nat]
    /\ Amounts \subseteq Int
    /\ IntHalf \in Nat \ {0}
    /\ Faults \subseteq {"refused", "torn", "crash"}
    /\ MaxTransfers \in Nat

VARIABLES db,         \* Points column of users.parquet, last complete content;
                      \* while torn it is not in the file
          torn,       \* users.parquet cannot be read now (truncated, corrupt)
          overlap,    \* two clients have had the file open for writing at once
          deleted,    \* users whose userstatus.parquet row says deleteUser
          pc,         \* where each client is
          stage,      \* which updateUserInfo call a client is making
          session,    \* currentUser of each client
          point,      \* currentUser->point()
          tx,         \* receiver, receiverPoints and transferPoint
          snap,       \* the table an updateUserInfo call has read
          transfers,  \* verified transfers so far (bounded)
          statement,  \* history: the balances transaction.log adds up to
          lost,       \* history: points a crash took while in flight
          wrapped     \* history: a stored value differed from the computed one

file    == <<db, torn, overlap, deleted>>
locals  == <<session, point, tx, snap>>
history == <<statement, lost, wrapped>>
vars    == <<file, pc, stage, locals, transfers, history>>

Labels == {"down", "home", "menu", "amount", "confirm", "otp",
           "read", "open", "write", "settle"}
Stages == {"none", "debit", "credit", "rollback", "profile"}

Tables    == [Users -> Int]
Transfers == [to : Users \cup {NoUser}, pts : Int, amt : Nat]

NoTransfer == [to |-> NoUser, pts |-> 0, amt |-> 0]
NoTable    == [u \in Users |-> 0]

Init ==
    /\ db = Opening
    /\ torn = FALSE
    /\ overlap = FALSE
    /\ deleted = {}
    /\ pc = [c \in Clients |-> "home"]
    /\ stage = [c \in Clients |-> "none"]
    /\ session = [c \in Clients |-> NoUser]
    /\ point = [c \in Clients |-> 0]
    /\ tx = [c \in Clients |-> NoTransfer]
    /\ snap = [c \in Clients |-> NoTable]
    /\ transfers = 0
    /\ statement = Opening
    /\ lost = 0
    /\ wrapped = FALSE

-----------------------------------------------------------------------------
(* The session: loginUser, UserLoginMenu.                                  *)

(* The status of everybody is OK to a reader that cannot open              *)
(* userstatus.parquet.                                                     *)
NotDeleted(u) == u \notin deleted \/ "refused" \in Faults

(* A right password of an account that is not deleted ends in the user     *)
(* menu whatever the OTP says; the balance is read from the row, once.     *)
Login(c, u) ==
    /\ pc[c] = "home"
    /\ ~torn
    /\ NotDeleted(u)
    /\ pc' = [pc EXCEPT ![c] = "menu"]
    /\ session' = [session EXCEPT ![c] = u]
    /\ point' = [point EXCEPT ![c] = db[u]]
    /\ UNCHANGED <<file, stage, tx, snap, transfers, history>>

(* On an unreadable file StreamReader throws out of loginUser: the catch   *)
(* of arrow::Status does not match and the process ends.                   *)
LoginAborts(c) ==
    /\ pc[c] = "home"
    /\ torn
    /\ pc' = [pc EXCEPT ![c] = "down"]
    /\ UNCHANGED <<file, stage, locals, transfers, history>>

(* mainMenu, 0: exit(0).                                                   *)
Quit(c) ==
    /\ pc[c] = "home"
    /\ pc' = [pc EXCEPT ![c] = "down"]
    /\ UNCHANGED <<file, stage, locals, transfers, history>>

EndSession(c) ==
    /\ pc' = [pc EXCEPT ![c] = "home"]
    /\ session' = [session EXCEPT ![c] = NoUser]
    /\ point' = [point EXCEPT ![c] = 0]
    /\ UNCHANGED <<db, torn, overlap, stage, tx, snap, transfers, history>>

Logout(c) ==
    /\ pc[c] = "menu"
    /\ EndSession(c)
    /\ UNCHANGED deleted

DeleteAccount(c) ==
    /\ pc[c] = "menu"
    /\ deleted' = deleted \cup {session[c]}
    /\ EndSession(c)

(* Saving a changed name or password rewrites the whole file too.          *)
SaveProfile(c) ==
    /\ pc[c] = "menu"
    /\ pc' = [pc EXCEPT ![c] = "read"]
    /\ stage' = [stage EXCEPT ![c] = "profile"]
    /\ UNCHANGED <<file, locals, transfers, history>>

-----------------------------------------------------------------------------
(* The questions transferPoint asks. Each refused answer goes back to the  *)
(* head of its loop, which the menu stands for: 'z' leaves from there.     *)

Payee_NoStatusCheck(c, r) == r # session[c]
Payee_NoSelfCheck(c, r) == NotDeleted(r)

(* Another wallet than the sender's, of an account not marked as deleted.  *)
Payee(c, r) == r # session[c] /\ NotDeleted(r)

(* checkWalletIdAndFullName reads the receiver's balance from the file. A  *)
(* receiver whose account is locked is accepted.                           *)
ChooseReceiver(c, r) ==
    /\ pc[c] = "menu"
    /\ ~torn
    /\ Payee(c, r)
    /\ pc' = [pc EXCEPT ![c] = "amount"]
    /\ tx' = [tx EXCEPT ![c] = [to |-> r, pts |-> db[r], amt |-> 0]]
    /\ UNCHANGED <<file, stage, session, point, snap, transfers, history>>

(* Back to the head of the loop, or out of transferPoint: the locals die.  *)
Abandon(c) ==
    /\ pc' = [pc EXCEPT ![c] = "menu"]
    /\ stage' = [stage EXCEPT ![c] = "none"]
    /\ tx' = [tx EXCEPT ![c] = NoTransfer]
    /\ snap' = [snap EXCEPT ![c] = NoTable]
    /\ UNCHANGED <<session, point, transfers>>

Payable_NoSignCheck(c, n) == n <= point[c]
Payable_NoBalanceCheck(c, n) == n > 0

Payable(c, n) == n > 0 /\ n <= point[c]

EnterAmount(c, n) ==
    /\ pc[c] = "amount"
    /\ IF Payable(c, n)
         THEN /\ pc' = [pc EXCEPT ![c] = "confirm"]
              /\ tx' = [tx EXCEPT ![c] = [@ EXCEPT !.amt = n]]
              /\ UNCHANGED <<stage, session, point, snap, transfers>>
         ELSE Abandon(c)
    /\ UNCHANGED <<file, history>>

(* Anything but Y cancels and logs the transfer as Failed.                 *)
Cancel(c) ==
    /\ pc[c] = "confirm"
    /\ Abandon(c)
    /\ UNCHANGED <<file, history>>

Confirm(c) ==
    /\ pc[c] = "confirm"
    /\ pc' = [pc EXCEPT ![c] = "otp"]
    /\ UNCHANGED <<file, stage, locals, transfers, history>>

OtpRefused(c) ==
    /\ pc[c] = "otp"
    /\ Abandon(c)
    /\ UNCHANGED <<file, history>>

OtpVerified(c) ==
    /\ pc[c] = "otp"
    /\ transfers < MaxTransfers
    /\ transfers' = transfers + 1
    /\ pc' = [pc EXCEPT ![c] = "read"]
    /\ stage' = [stage EXCEPT ![c] = "debit"]
    /\ UNCHANGED <<file, locals, history>>

-----------------------------------------------------------------------------
(* updateUserInfo: read the whole table, open (and so truncate) the file,  *)
(* write the table and close.                                              *)

(* int value = std::stoll(...): the low 32 bits, signed.                   *)
ToInt(v) == ((v + IntHalf) % (2 * IntHalf)) - IntHalf

Row_Sender(c) == session[c]

(* The row a call updates and the number it is asked to store there.       *)
Row(c) == IF stage[c] = "credit" THEN tx[c].to ELSE session[c]

Requested_NoCredit(c) ==
    IF stage[c] = "debit" THEN point[c] - tx[c].amt
    ELSE IF stage[c] = "credit" THEN tx[c].pts ELSE point[c]

Requested(c) ==
    IF stage[c] = "debit" THEN point[c] - tx[c].amt
    ELSE IF stage[c] = "credit" THEN tx[c].pts + tx[c].amt ELSE point[c]

NewTable(c) ==
    IF stage[c] = "profile"
      THEN snap[c]
      ELSE [snap[c] EXCEPT ![Row(c)] = ToInt(Requested(c))]

Writers == {c \in Clients : pc[c] = "write"}

(* Where transferPoint goes when a call returns OK: debit, then credit,    *)
(* then the end. A rollback that succeeds continues to the end as well.    *)
ReturnOK(c) ==
    \/ /\ stage[c] = "debit"
       /\ pc' = [pc EXCEPT ![c] = "read"]
       /\ stage' = [stage EXCEPT ![c] = "credit"]
       /\ snap' = [snap EXCEPT ![c] = NoTable]
       /\ UNCHANGED <<session, point, tx, transfers>>
    \/ /\ stage[c] \in {"credit", "rollback"}
       /\ pc' = [pc EXCEPT ![c] = "settle"]
       /\ snap' = [snap EXCEPT ![c] = NoTable]
       /\ UNCHANGED <<stage, session, point, tx, transfers>>
    \/ /\ stage[c] = "profile"
       /\ Abandon(c)

Recovery_RetryRollback(c) ==
    IF stage[c] \in {"credit", "rollback"} THEN "rollback" ELSE "none"

(* Where it goes on an error: a failed credit is rolled back, a failed     *)
(* debit or rollback is logged as Failed and ends in the menu.             *)
Recovery(c) == IF stage[c] = "credit" THEN "rollback" ELSE "none"

ReturnError(c) ==
    IF Recovery(c) = "rollback"
      THEN /\ pc' = [pc EXCEPT ![c] = "read"]
           /\ stage' = [stage EXCEPT ![c] = "rollback"]
           /\ snap' = [snap EXCEPT ![c] = NoTable]
           /\ UNCHANGED <<session, point, tx, transfers>>
      ELSE Abandon(c)

ReadTable(c) ==
    /\ pc[c] = "read"
    /\ ~torn
    /\ pc' = [pc EXCEPT ![c] = "open"]
    /\ snap' = [snap EXCEPT ![c] = db]
    /\ UNCHANGED <<file, stage, session, point, tx, transfers, history>>

ReadFails(c) ==
    /\ pc[c] = "read"
    /\ torn \/ "refused" \in Faults
    /\ ReturnError(c)
    /\ UNCHANGED <<file, history>>

OpenFile(c) ==
    /\ pc[c] = "open"
    /\ pc' = [pc EXCEPT ![c] = "write"]
    /\ torn' = TRUE
    /\ overlap' = (Writers # {})
    /\ UNCHANGED <<db, deleted, stage, locals, transfers, history>>

OpenFails(c) ==
    /\ pc[c] = "open"
    /\ "refused" \in Faults
    /\ ReturnError(c)
    /\ UNCHANGED <<file, history>>

(* The last of two overlapping writers leaves its own table, the other's,  *)
(* or a mixture of both that no reader accepts.                            *)
WriteTable(c) ==
    /\ pc[c] = "write"
    /\ IF Writers = {c} /\ ~overlap
         THEN db' = NewTable(c) /\ torn' = FALSE
         ELSE \/ db' = NewTable(c) /\ torn' = (Writers # {c})
              \/ db' = db /\ torn' = (Writers # {c})
              \/ db' = db /\ torn' = TRUE
    /\ wrapped' = (wrapped \/ (stage[c] # "profile"
                               /\ ToInt(Requested(c)) # Requested(c)))
    /\ ReturnOK(c)
    /\ UNCHANGED <<overlap, deleted, statement, lost>>

WriteFails(c) ==
    /\ pc[c] = "write"
    /\ "torn" \in Faults
    /\ ReturnError(c)
    /\ UNCHANGED <<file, history>>

Remaining_NotDebited(c) == point[c]

(* currentUser->setPoint(currentUser->point() - transferPoint)             *)
Remaining(c) == point[c] - tx[c].amt

Moved(f, s, r, n) == [f EXCEPT ![s] = @ - n, ![r] = @ + n]

(* The end of transferPoint: the session is debited and Success is logged. *)
Settle(c) ==
    /\ pc[c] = "settle"
    /\ pc' = [pc EXCEPT ![c] = "menu"]
    /\ stage' = [stage EXCEPT ![c] = "none"]
    /\ point' = [point EXCEPT ![c] = Remaining(c)]
    /\ statement' = Moved(statement, session[c], tx[c].to, tx[c].amt)
    /\ tx' = [tx EXCEPT ![c] = NoTransfer]
    /\ UNCHANGED <<file, session, snap, transfers, lost, wrapped>>

-----------------------------------------------------------------------------
(* The process may die at any point and be started again.                  *)

(* Points taken from the sender and not yet given to the receiver. A death *)
(* inside an update does more harm: it leaves the file torn for good.      *)
InFlight(c) ==
    IF stage[c] \in {"credit", "rollback"} /\ pc[c] # "settle"
      THEN tx[c].amt
      ELSE 0

Crash(c) ==
    /\ "crash" \in Faults
    /\ pc[c] # "down"
    /\ pc' = [pc EXCEPT ![c] = "down"]
    /\ stage' = [stage EXCEPT ![c] = "none"]
    /\ session' = [session EXCEPT ![c] = NoUser]
    /\ point' = [point EXCEPT ![c] = 0]
    /\ tx' = [tx EXCEPT ![c] = NoTransfer]
    /\ snap' = [snap EXCEPT ![c] = NoTable]
    /\ lost' = lost + InFlight(c)
    /\ UNCHANGED <<file, transfers, statement, wrapped>>

Restart(c) ==
    /\ pc[c] = "down"
    /\ pc' = [pc EXCEPT ![c] = "home"]
    /\ UNCHANGED <<file, stage, locals, transfers, history>>

-----------------------------------------------------------------------------
UserStep(c) ==
    \/ \E u \in Users : Login(c, u) \/ ChooseReceiver(c, u)
    \/ \E n \in Amounts : EnterAmount(c, n)
    \/ Logout(c) \/ DeleteAccount(c) \/ SaveProfile(c)
    \/ Cancel(c) \/ Confirm(c) \/ OtpRefused(c) \/ OtpVerified(c)
    \/ Quit(c) \/ Restart(c)

ProgramStep(c) ==
    \/ LoginAborts(c)
    \/ ReadTable(c) \/ ReadFails(c)
    \/ OpenFile(c) \/ OpenFails(c)
    \/ WriteTable(c) \/ WriteFails(c)
    \/ Settle(c)

Next == \E c \in Clients : UserStep(c) \/ ProgramStep(c) \/ Crash(c)

Spec == Init /\ [][Next]_vars

(* Nothing makes a user answer; a program that is not waiting for one runs. *)
FairSpec == Spec /\ \A c \in Clients : WF_vars(ProgramStep(c))

-----------------------------------------------------------------------------
(* Types: in particular no amount a transfer carries is negative.          *)
TypeOK ==
    /\ db \in Tables
    /\ torn \in BOOLEAN
    /\ overlap \in BOOLEAN
    /\ deleted \subseteq Users
    /\ pc \in [Clients -> Labels]
    /\ stage \in [Clients -> Stages]
    /\ session \in [Clients -> Users \cup {NoUser}]
    /\ point \in [Clients -> Int]
    /\ tx \in [Clients -> Transfers]
    /\ snap \in [Clients -> Tables]
    /\ transfers \in 0 .. MaxTransfers
    /\ statement \in Tables
    /\ lost \in Int
    /\ wrapped \in BOOLEAN

(* The user has chosen whom to pay, and (later) how much.                  *)
Transferring(c) ==
    pc[c] \in {"amount", "confirm", "otp"} \/ stage[c] \in {"debit", "credit", "rollback"}

AmountFixed(c) == Transferring(c) /\ pc[c] # "amount"

WellFormed(c) ==
    /\ (session[c] = NoUser) <=> (pc[c] \in {"down", "home"})
    /\ (stage[c] = "none") <=> (pc[c] \in
           {"down", "home", "menu", "amount", "confirm", "otp"})
    /\ pc[c] = "settle" => stage[c] \in {"credit", "rollback"}
    /\ Transferring(c) => tx[c].to \in Users \ {session[c]}
    /\ AmountFixed(c) => tx[c].amt \in 1 .. point[c]

(* Where a client is, which update it is making and what it holds fit      *)
(* together: a transfer is always to somebody else than the session and,   *)
(* from the confirmation to the last update, for an amount the session's   *)
(* balance covers. Failures and other instances cannot change that.        *)
TransferWellFormed == \A c \in Clients : WellFormed(c)

Idle(c) == pc[c] \in {"down", "home", "menu", "amount", "confirm", "otp"}
Asking(c) == pc[c] \in {"menu", "amount", "confirm", "otp"}

(* The balance transferPoint and eWallet work with is a copy made at       *)
(* login; while the user is being asked, it and the receiver's balance     *)
(* read by checkWalletIdAndFullName are still what the file holds.         *)
SessionFresh ==
    \A c \in Clients : Asking(c) =>
        /\ point[c] = db[session[c]]
        /\ pc[c] # "menu" => tx[c].pts = db[tx[c].to]

(* When transferPoint announces "Transaction successful!" and logs         *)
(* Success, both rows hold the result of the transfer.                     *)
SuccessIsReal ==
    \A c \in Clients : pc[c] = "settle" =>
        /\ db[session[c]] = point[c] - tx[c].amt
        /\ db[tx[c].to] = tx[c].pts + tx[c].amt

(* Whenever no transfer is being executed, the Points column is what the   *)
(* Success lines of transaction.log add up to: every logged change is in   *)
(* the file and no unlogged one is.                                        *)
StatementAgrees ==
    (~wrapped /\ \A c \in Clients : Idle(c)) => db = statement

(* No sequence of transfers takes an account below zero, whatever fails    *)
(* and however many instances run.                                         *)
NoOverdraft == ~wrapped => \A u \in Users : db[u] >= 0

(* The balances an observer that ignores transfers in progress sees:       *)
(* a debit counts only when its credit has been written.                   *)
Settled ==
    [u \in Users |-> IF \E c \in Clients : session[c] = u /\ InFlight(c) # 0
                       THEN db[u] + InFlight(CHOOSE c \in Clients :
                                       session[c] = u /\ InFlight(c) # 0)
                       ELSE db[u]]

(* The file is truncated and nobody is writing it: no balance can be read  *)
(* from it again. Between truncation and Close the observer waits.         *)
Destroyed == torn /\ Writers = {}

Balances == IF Destroyed THEN NoTable ELSE Settled

L == INSTANCE Ledger WITH balance <- Balances

(* Seen that way, transferPoint is an atomic transfer.                     *)
LedgerSpec == L!Spec

(* With crashes, it is an atomic transfer, or one that forfeits the points *)
(* of its own sender and touches no other account, or one that dies inside *)
(* an update and loses every balance at once: no death leaves some rows of *)
(* the old column and some of the new, and after the loss nobody pays.     *)
LossyLedgerSpec == L!LossySpec

(* An account deleted before a transfer reaches its receiver check never   *)
(* receives points from it.                                                *)
NoCreditToDeleted ==
    [][\A u \in deleted : db'[u] <= db[u]]_vars

(* A transfer whose OTP was verified ends: it never stays in one of its    *)
(* three file updates.                                                     *)
TransferEnds ==
    \A c \in Clients : stage[c] = "debit" ~> pc[c] \in {"menu", "down"}
=============================================================================
