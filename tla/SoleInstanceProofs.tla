------------------------- MODULE SoleInstanceProofs -------------------------
(***************************************************************************)
(* Theorems about WalletTransfer for one instance that is alone on its     *)
(* files, as the program was written for, and that no update is refused    *)
(* to: what it tells its user is what the file holds, and its two updates  *)
(* implement the atomic transfer of Ledger. They hold for every set of     *)
(* users, every opening balance and every amount, as long as no balance    *)
(* leaves the range of int (~wrapped).                                     *)
(***************************************************************************)
EXTENDS WalletProofs

Crediting(c) == stage[c] = "credit" /\ pc[c] # "settle"

(* What one instance that is alone on the files knows of them. While it    *)
(* asks, its copies are the file's; while it updates, they differ from the *)
(* file by exactly the updates it has made.                                *)
Mirrors(c) ==
    /\ torn => pc[c] \in {"write", "down", "home"}
    /\ ~overlap
    /\ stage[c] # "rollback"
    /\ pc[c] \in {"open", "write"} => snap[c] = db
    /\ (Asking(c) \/ stage[c] \in {"debit", "profile"}) => point[c] = db[session[c]]
    /\ (Asking(c) /\ pc[c] # "menu") \/ stage[c] = "debit" \/ Crediting(c)
          => tx[c].pts = db[tx[c].to]
    /\ Crediting(c) \/ pc[c] = "settle" => db[session[c]] = point[c] - tx[c].amt
    /\ pc[c] = "settle" => db[tx[c].to] = tx[c].pts + tx[c].amt

(* What the log adds up to, when nothing crashes.                          *)
Logged(c) ==
    db = IF pc[c] = "settle"
           THEN Moved(statement, session[c], tx[c].to, tx[c].amt)
         ELSE IF Crediting(c)
           THEN [statement EXCEPT ![session[c]] = @ - tx[c].amt]
         ELSE statement

-----------------------------------------------------------------------------
LEMMA MirrorsInit ==
    ASSUME NEW c, Clients = {c}, Init
    PROVE  Mirrors(c)
BY DEF Init, Mirrors, Asking, Crediting

(* Leaving transferPoint, or a profile update that is done.                *)
LEMMA MirrorsAbandon ==
    ASSUME NEW c \in Clients, TypeOK, Mirrors(c), Abandon(c),
           ~torn', db' = db, overlap' = overlap,
           point[c] = db[session[c]]
    PROVE  Mirrors(c)'
BY DEF Mirrors, Abandon, Asking, Crediting, TypeOK

LEMMA MirrorsUser ==
    ASSUME NEW c \in Clients, TypeOK, WellFormed(c), Mirrors(c), UserStep(c)
    PROVE  Mirrors(c)'
<1> USE DEF Mirrors, Asking, Crediting, WellFormed, TypeOK, file, locals
<1>1. ASSUME NEW u \in Users, Login(c, u) PROVE Mirrors(c)'
  BY <1>1 DEF Login
<1>2. ASSUME NEW u \in Users, ChooseReceiver(c, u) PROVE Mirrors(c)'
  BY <1>2 DEF ChooseReceiver
<1>3. ASSUME NEW n \in Amounts, EnterAmount(c, n) PROVE Mirrors(c)'
  <2>1. CASE Payable(c, n)
    <3>1. tx'[c].pts = tx[c].pts /\ tx'[c].to = tx[c].to
      BY <1>3, <2>1 DEF EnterAmount, Transfers
    <3> QED BY <1>3, <2>1, <3>1 DEF EnterAmount
  <2>2. CASE ~Payable(c, n)
    BY <1>3, <2>2, MirrorsAbandon DEF EnterAmount
  <2> QED BY <2>1, <2>2
<1>4. ASSUME Logout(c) \/ DeleteAccount(c) PROVE Mirrors(c)'
  BY <1>4 DEF Logout, DeleteAccount, EndSession
<1>5. ASSUME SaveProfile(c) PROVE Mirrors(c)'
  BY <1>5 DEF SaveProfile
<1>6. ASSUME Cancel(c) \/ OtpRefused(c) PROVE Mirrors(c)'
  BY <1>6, MirrorsAbandon DEF Cancel, OtpRefused
<1>7. ASSUME Confirm(c) \/ OtpVerified(c) PROVE Mirrors(c)'
  BY <1>7 DEF Confirm, OtpVerified
<1>8. ASSUME Quit(c) \/ Restart(c) PROVE Mirrors(c)'
  BY <1>8 DEF Quit, Restart
<1> QED BY <1>1, <1>2, <1>3, <1>4, <1>5, <1>6, <1>7, <1>8 DEF UserStep

(* The effect of an update that is not disturbed and fits into an int.     *)
LEMMA CleanWrite ==
    ASSUME NEW c, Clients = {c}, TypeOK, WellFormed(c), Mirrors(c),
           WriteTable(c), ~wrapped'
    PROVE  /\ torn' = FALSE
           /\ stage[c] \in {"debit", "credit", "profile"}
           /\ stage[c] = "profile" => db' = db
           /\ stage[c] = "debit" =>
                 db' = [db EXCEPT ![session[c]] = point[c] - tx[c].amt]
           /\ stage[c] = "credit" =>
                 db' = [db EXCEPT ![tx[c].to] = tx[c].pts + tx[c].amt]
<1>1. Writers = {c} /\ ~overlap /\ pc[c] = "write" /\ snap[c] = db
  BY DEF Writers, WriteTable, Mirrors
<1>2. db' = NewTable(c) /\ torn' = FALSE
  BY <1>1 DEF WriteTable
<1>3. stage[c] # "profile" => ToInt(Requested(c)) = Requested(c)
  BY DEF WriteTable
<1>4. stage[c] \in {"debit", "credit", "profile"}
  BY <1>1 DEF WellFormed, Mirrors, TypeOK, Stages
<1> QED BY <1>1, <1>2, <1>3, <1>4 DEF NewTable, Row, Requested

LEMMA MirrorsProgram ==
    ASSUME NEW c, Clients = {c}, Faults \subseteq {"crash"},
           TypeOK, WellFormed(c), Mirrors(c), ProgramStep(c), ~wrapped'
    PROVE  Mirrors(c)'
<1> c \in Clients
  OBVIOUS
<1> USE DEF Mirrors, Asking, Crediting, WellFormed, TypeOK, file, locals, history
<1>1. ASSUME LoginAborts(c) PROVE Mirrors(c)'
  BY <1>1 DEF LoginAborts
<1>2. ASSUME ReadTable(c) PROVE Mirrors(c)'
  BY <1>2 DEF ReadTable
<1>3. ASSUME ReadFails(c) \/ OpenFails(c) \/ WriteFails(c) PROVE FALSE
  BY <1>3 DEF ReadFails, OpenFails, WriteFails
<1>4. ASSUME OpenFile(c) PROVE Mirrors(c)'
  <2>1. Writers = {}
    BY <1>4 DEF OpenFile, Writers
  <2>2. stage[c] \in {"debit", "credit", "profile"}
    BY <1>4 DEF OpenFile, Stages
  <2> QED BY <1>4, <2>1, <2>2 DEF OpenFile
<1>5. ASSUME WriteTable(c) PROVE Mirrors(c)'
  <2>1. /\ torn' = FALSE /\ overlap' = overlap /\ pc[c] = "write" /\ ReturnOK(c)
        /\ stage[c] \in {"debit", "credit", "profile"}
    BY <1>5, CleanWrite DEF WriteTable
  <2>2. session[c] \in Users /\ db \in [Users -> Int]
    BY <2>1 DEF Tables
  <2>3. stage[c] # "profile" => tx[c].to \in Users /\ tx[c].to # session[c]
    BY <2>1 DEF Transferring
  <2>4. CASE stage[c] = "profile"
    <3>1. db' = db /\ Abandon(c) /\ point[c] = db[session[c]]
      BY <1>5, <2>1, <2>4, CleanWrite DEF ReturnOK
    <3> QED BY <2>1, <3>1, MirrorsAbandon
  <2>5. CASE stage[c] = "debit"
    <3>1. db' = [db EXCEPT ![session[c]] = point[c] - tx[c].amt]
      BY <1>5, <2>5, CleanWrite
    <3>2. /\ db'[session[c]] = point[c] - tx[c].amt
          /\ db'[tx[c].to] = tx[c].pts
      BY <2>2, <2>3, <2>5, <3>1
    <3>3. /\ pc'[c] = "read" /\ stage'[c] = "credit"
          /\ session'[c] = session[c] /\ point'[c] = point[c] /\ tx'[c] = tx[c]
      BY <2>1, <2>5 DEF ReturnOK
    <3> QED BY <2>1, <3>2, <3>3
  <2>6. CASE stage[c] = "credit"
    <3>1. db' = [db EXCEPT ![tx[c].to] = tx[c].pts + tx[c].amt]
      BY <1>5, <2>6, CleanWrite
    <3>2. /\ db'[session[c]] = point[c] - tx[c].amt
          /\ db'[tx[c].to] = tx[c].pts + tx[c].amt
      BY <2>1, <2>2, <2>3, <2>6, <3>1
    <3>3. /\ pc'[c] = "settle" /\ stage'[c] = "credit"
          /\ session'[c] = session[c] /\ point'[c] = point[c] /\ tx'[c] = tx[c]
      BY <2>1, <2>6 DEF ReturnOK
    <3> QED BY <2>1, <3>2, <3>3
  <2> QED BY <2>1, <2>4, <2>5, <2>6
<1>6. ASSUME Settle(c) PROVE Mirrors(c)'
  BY <1>6 DEF Settle, Remaining
<1> QED BY <1>1, <1>2, <1>3, <1>4, <1>5, <1>6 DEF ProgramStep

LEMMA MirrorsCrash ==
    ASSUME NEW c \in Clients, TypeOK, Mirrors(c), Crash(c)
    PROVE  Mirrors(c)'
BY DEF Crash, Mirrors, Asking, Crediting, TypeOK, file

(* A value that was wrapped once stays recorded.                           *)
LEMMA WrappedStays ==
    ASSUME [Next]_vars, wrapped
    PROVE  wrapped'
BY DEF Next, vars, UserStep, Login, ChooseReceiver, EnterAmount, Logout, DeleteAccount,
   EndSession, SaveProfile, Cancel, Confirm, OtpRefused, OtpVerified, Quit,
   Restart, ProgramStep, LoginAborts, ReadTable, ReadFails, OpenFile, OpenFails,
   WriteTable, WriteFails, Settle, Crash, history

LEMMA MirrorsStep ==
    ASSUME NEW c, Clients = {c}, Faults \subseteq {"crash"},
           TypeOK, TransferWellFormed, Mirrors(c), [Next]_vars, ~wrapped'
    PROVE  Mirrors(c)'
<1>0. c \in Clients /\ WellFormed(c)
  BY DEF TransferWellFormed
<1>1. CASE UNCHANGED vars
  BY <1>1 DEF vars, file, locals, Mirrors, Asking, Crediting
<1>2. CASE UserStep(c)
  BY <1>0, <1>2, MirrorsUser
<1>3. CASE ProgramStep(c)
  BY <1>0, <1>3, MirrorsProgram
<1>4. CASE Crash(c)
  BY <1>0, <1>4, MirrorsCrash
<1> QED BY <1>1, <1>2, <1>3, <1>4 DEF Next

(* The invariant of a sole instance.                                       *)
Sole(c) == TypeOK /\ TransferWellFormed /\ (~wrapped => Mirrors(c))

LEMMA SoleInvariant ==
    ASSUME NEW c, Clients = {c}, Faults \subseteq {"crash"}
    PROVE  Spec => []Sole(c)
<1>1. Init => Sole(c)
  BY InitBasics, MirrorsInit DEF Sole
<1>2. Sole(c) /\ [Next]_vars => Sole(c)'
  BY TypeStep, WellFormedStep, MirrorsStep, WrappedStays DEF Sole
<1> QED BY <1>1, <1>2, PTL DEF Spec

(* While a sole instance asks its user, the balance it shows and the       *)
(* receiver's balance it has read are those of the file, also after any    *)
(* number of crashes.                                                      *)
THEOREM SessionsFresh ==
    ASSUME NEW c, Clients = {c}, Faults \subseteq {"crash"}
    PROVE  Spec => [](~wrapped => SessionFresh)
<1>1. Sole(c) => (~wrapped => SessionFresh)
  BY DEF Sole, Mirrors, SessionFresh
<1> QED BY <1>1, SoleInvariant, PTL

(* A sole instance announces and logs only transfers that both rows of     *)
(* users.parquet show.                                                     *)
THEOREM SuccessesAreReal ==
    ASSUME NEW c, Clients = {c}, Faults \subseteq {"crash"}
    PROVE  Spec => [](~wrapped => SuccessIsReal)
<1>1. Sole(c) => (~wrapped => SuccessIsReal)
  BY DEF Sole, Mirrors, SuccessIsReal
<1> QED BY <1>1, SoleInvariant, PTL

-----------------------------------------------------------------------------
(* The two updates as one transfer.                                        *)

(* With one client, the balances an observer sees are those of the file    *)
(* plus what that client has in flight.                                    *)
Visible(c) == [u \in Users |-> IF session[c] = u THEN db[u] + InFlight(c) ELSE db[u]]

LEMMA SettledOne ==
    ASSUME NEW c, Clients = {c}, TypeOK
    PROVE  Settled = Visible(c)
<1>1. ASSUME NEW u \in Users
      PROVE  (IF \E d \in Clients : session[d] = u /\ InFlight(d) # 0
                THEN db[u] + InFlight(CHOOSE d \in Clients :
                                 session[d] = u /\ InFlight(d) # 0)
                ELSE db[u])
             = (IF session[c] = u THEN db[u] + InFlight(c) ELSE db[u])
  <2>1. CASE session[c] = u /\ InFlight(c) # 0
    <3>1. (CHOOSE d \in Clients : session[d] = u /\ InFlight(d) # 0) = c
      BY <2>1
    <3> QED BY <2>1, <3>1
  <2>2. CASE ~(session[c] = u /\ InFlight(c) # 0)
    <3>1. db[u] \in Int
      BY DEF TypeOK, Tables
    <3>2. ~\E d \in Clients : session[d] = u /\ InFlight(d) # 0
      BY <2>2
    <3> QED BY <2>2, <3>1, <3>2
  <2> QED BY <2>1, <2>2
<1> QED BY <1>1 DEF Settled, Visible

(* The same in the next state.                                             *)
LEMMA SettledNext ==
    ASSUME NEW c, Clients = {c}
    PROVE  TypeOK' => (Settled = Visible(c))'
<1>1. TypeOK => Settled = Visible(c)
  BY SettledOne
<1> QED BY <1>1, PTL

(* A step that neither writes nor crashes moves nothing.                   *)
LEMMA QuietStep ==
    ASSUME NEW c, Clients = {c}, Faults \subseteq {"crash"}, TypeOK, TypeOK',
           WellFormed(c), Mirrors(c),
           UserStep(c) \/ ProgramStep(c), ~WriteTable(c)
    PROVE  Settled' = Settled
<1> c \in Clients
  OBVIOUS
<1> USE DEF TypeOK, WellFormed, Mirrors, file, locals, history
<1>1. db' = db
  BY DEF UserStep, Login, ChooseReceiver, EnterAmount, Logout,
     DeleteAccount, EndSession, SaveProfile, Cancel, Confirm, OtpRefused,
     OtpVerified, Quit, Restart, ProgramStep, LoginAborts, ReadTable, ReadFails,
     OpenFile, OpenFails, WriteFails, Settle
<1>2. \/ InFlight(c)' = InFlight(c) /\ session'[c] = session[c]
      \/ InFlight(c)' = 0 /\ InFlight(c) = 0
  <2>1. CASE UserStep(c)
    BY <2>1 DEF UserStep, Login, ChooseReceiver, EnterAmount, Logout,
       DeleteAccount, EndSession, SaveProfile, Cancel, Confirm, OtpRefused,
       OtpVerified, Quit, Restart, Abandon, InFlight
  <2>2. CASE ProgramStep(c)
    BY <2>2 DEF ProgramStep, LoginAborts, ReadTable, ReadFails,
       OpenFile, OpenFails, WriteFails, Settle, InFlight
  <2> QED BY <2>1, <2>2
<1>3. Settled = [u \in Users |-> IF session[c] = u THEN db[u] + InFlight(c)
                                                 ELSE db[u]]
  BY SettledOne DEF Visible
<1>4. Settled' = [u \in Users |-> IF session'[c] = u THEN db[u] + InFlight(c)'
                                                   ELSE db[u]]
  BY <1>1, SettledNext DEF Visible
<1>5. \A u \in Users : db[u] \in Int
  BY DEF Tables
<1> QED BY <1>2, <1>3, <1>4, <1>5

(* The end of an update: a debit is not seen yet, a credit completes the   *)
(* transfer of Ledger.                                                     *)
LEMMA WriteStep ==
    ASSUME NEW c, Clients = {c}, TypeOK, TypeOK', WellFormed(c), Mirrors(c),
           WriteTable(c), ~wrapped'
    PROVE  Settled' = Settled \/ (~Destroyed => L!TransferNext)
<1> c \in Clients
  OBVIOUS
<1> DEFINE s == session[c]
           r == tx[c].to
           n == tx[c].amt
<1>1. /\ pc[c] = "write" /\ ReturnOK(c)
      /\ stage[c] \in {"debit", "credit", "profile"}
  BY CleanWrite DEF WriteTable
<1>2. s \in Users /\ \A u \in Users : db[u] \in Int
  BY <1>1 DEF WellFormed, TypeOK, Tables
<1>3. Settled = [u \in Users |-> IF s = u THEN db[u] + InFlight(c) ELSE db[u]]
  BY SettledOne DEF Visible
<1>4. Settled' = [u \in Users |-> IF session'[c] = u THEN db'[u] + InFlight(c)'
                                                   ELSE db'[u]]
  BY SettledNext DEF Visible
<1>5. session'[c] = s
  BY <1>1 DEF ReturnOK, Abandon
<1>6. stage[c] # "profile" => r \in Users /\ r # s /\ n \in 1 .. point[c] /\ point[c] \in Int
  BY <1>1 DEF WellFormed, AmountFixed, Transferring, TypeOK
<1>7. CASE stage[c] = "profile"
  <2>1. InFlight(c) = 0 /\ InFlight(c)' = 0 /\ db' = db
    BY <1>1, <1>7, CleanWrite DEF InFlight, ReturnOK, Abandon, TypeOK
  <2> QED BY <1>3, <1>4, <1>5, <2>1
<1>8. CASE stage[c] = "debit"
  <2>1. db' = [db EXCEPT ![s] = point[c] - n] /\ point[c] = db[s]
    BY <1>8, CleanWrite DEF Mirrors
  <2>2. InFlight(c) = 0 /\ InFlight(c)' = n
    BY <1>1, <1>8 DEF InFlight, ReturnOK, TypeOK
  <2>3. \A u \in Users : db'[u] = IF u = s THEN db[s] - n ELSE db[u]
    BY <2>1 DEF TypeOK, Tables
  <2>4. \A u \in Users :
          (IF s = u THEN db'[u] + n ELSE db'[u]) = (IF s = u THEN db[u] + 0 ELSE db[u])
    BY <1>2, <1>6, <1>8, <2>3
  <2> QED BY <1>3, <1>4, <1>5, <2>2, <2>4
<1>9. CASE stage[c] = "credit"
  <2>1. /\ db' = [db EXCEPT ![r] = tx[c].pts + n]
        /\ tx[c].pts = db[r] /\ db[s] = point[c] - n
    BY <1>1, <1>9, CleanWrite DEF Mirrors, Crediting
  <2>2. InFlight(c) = n /\ InFlight(c)' = 0
    BY <1>1, <1>9 DEF InFlight, ReturnOK, TypeOK
  <2>3. \A u \in Users : db'[u] = IF u = r THEN db[r] + n ELSE db[u]
    BY <2>1 DEF TypeOK, Tables
  <2>4. \A u \in Users : Settled[u] = IF s = u THEN db[u] + n ELSE db[u]
    BY <1>3, <2>2
  <2>5. n \in 1 .. Settled[s]
    BY <1>2, <1>6, <1>9, <2>1, <2>4
  <2>6. Settled' = [Settled EXCEPT ![s] = @ - n, ![r] = @ + n]
    <3>1. ASSUME NEW u \in Users
          PROVE  (IF s = u THEN db'[u] + 0 ELSE db'[u])
                 = IF u = r THEN Settled[u] + n
                   ELSE IF u = s THEN Settled[u] - n ELSE Settled[u]
      BY <1>2, <1>6, <1>9, <2>3, <2>4
    <3>2. [Settled EXCEPT ![s] = @ - n, ![r] = @ + n]
            = [u \in Users |-> IF u = r THEN Settled[u] + n
                               ELSE IF u = s THEN Settled[u] - n ELSE Settled[u]]
      BY <1>3, <1>6, <1>9
    <3> QED BY <1>4, <1>5, <2>2, <3>1, <3>2
  <2>7. ASSUME ~Destroyed PROVE L!TransferNext
    <3>1. torn' = FALSE
      BY <1>9, CleanWrite
    <3>2. Balances = Settled /\ Balances' = Settled'
      BY <2>7, <3>1 DEF Balances, Destroyed
    <3>3. L!Transfer(s, r, n)
      BY <1>6, <1>9, <2>5, <2>6, <3>2 DEF L!Transfer
    <3> QED BY <1>2, <1>6, <1>9, <2>5, <3>2, <3>3 DEF L!TransferNext
  <2> QED BY <2>7
<1> QED BY <1>1, <1>7, <1>8, <1>9

(* A crash that leaves the file readable forfeits what its own client had  *)
(* in flight.                                                              *)
LEMMA CrashStep ==
    ASSUME NEW c, Clients = {c}, TypeOK, TypeOK', WellFormed(c), Mirrors(c), Crash(c),
           ~Destroyed, ~Destroyed'
    PROVE  Settled' = Settled \/ L!ForfeitNext
<1> c \in Clients
  OBVIOUS
<1> DEFINE s == session[c]
           n == InFlight(c)
<1>1. db' = db /\ InFlight(c)' = 0 /\ session'[c] = NoUser
  BY DEF Crash, file, InFlight, TypeOK
<1>2. \A u \in Users : db[u] \in Int /\ u # NoUser
  BY WalletAssumption DEF TypeOK, Tables
<1>3. Settled = [u \in Users |-> IF s = u THEN db[u] + n ELSE db[u]]
  BY SettledOne DEF Visible
<1>4. Settled' = [u \in Users |-> db[u]]
  BY <1>1, <1>2, SettledNext DEF Visible
<1>5. CASE n = 0
  BY <1>2, <1>3, <1>4, <1>5
<1>6. CASE n # 0
  <2>1. Crediting(c) /\ n = tx[c].amt
    BY <1>6 DEF InFlight, Crediting, Mirrors
  <2>2. /\ s \in Users /\ n \in 1 .. point[c] /\ point[c] \in Int
        /\ db[s] = point[c] - n
    BY <2>1 DEF Crediting, WellFormed, AmountFixed, Transferring, Mirrors, TypeOK
  <2> HIDE DEF n
  <2>3. n \in 1 .. Settled[s]
    BY <1>2, <1>3, <2>2
  <2>4. Settled' = [Settled EXCEPT ![s] = @ - n]
    BY <1>2, <1>3, <1>4, <2>2
  <2>5. Balances = Settled /\ Balances' = Settled'
    BY DEF Balances
  <2> QED BY <2>2, <2>3, <2>4, <2>5 DEF L!ForfeitNext, L!Forfeit
<1> QED BY <1>5, <1>6

LEMMA DestroyedOne ==
    ASSUME NEW c, Clients = {c}
    PROVE  /\ Destroyed <=> torn /\ pc[c] # "write"
           /\ Destroyed' <=> torn' /\ pc'[c] # "write"
BY DEF Destroyed, Writers

(* Only a crash destroys the file, and a destroyed file stays destroyed.   *)
LEMMA DestroyedStep ==
    ASSUME NEW c, Clients = {c}, Faults \subseteq {"crash"},
           TypeOK, WellFormed(c), Mirrors(c), [Next]_vars, ~wrapped'
    PROVE  /\ Destroyed => Destroyed'
           /\ Destroyed' => Destroyed \/ ("crash" \in Faults /\ Crash(c))
<1> c \in Clients
  OBVIOUS
<1>0. /\ Destroyed <=> torn /\ pc[c] # "write"
      /\ Destroyed' <=> torn' /\ pc'[c] # "write"
  BY DestroyedOne
<1> USE DEF TypeOK, file, locals, history
<1>1. CASE UNCHANGED vars
  BY <1>0, <1>1 DEF vars
<1>2. CASE UserStep(c)
  <2>1. torn' = torn /\ pc[c] # "write"
    BY <1>2 DEF UserStep, Login, ChooseReceiver, EnterAmount, Logout,
       DeleteAccount, EndSession, SaveProfile, Cancel, Confirm, OtpRefused,
       OtpVerified, Quit, Restart
  <2>2. ~torn \/ pc'[c] # "write"
    BY <1>2 DEF UserStep, Login, ChooseReceiver, EnterAmount, Logout,
       DeleteAccount, EndSession, SaveProfile, Cancel, Confirm, OtpRefused,
       OtpVerified, Quit, Restart, Abandon
  <2> QED BY <1>0, <2>1, <2>2
<1>3. CASE LoginAborts(c) \/ ReadTable(c) \/ Settle(c)
  BY <1>0, <1>3 DEF LoginAborts, ReadTable, Settle
<1>4. CASE OpenFile(c)
  BY <1>0, <1>4 DEF OpenFile, Mirrors
<1>5. CASE ReadFails(c) \/ OpenFails(c) \/ WriteFails(c)
  BY <1>5 DEF ReadFails, OpenFails, WriteFails, Mirrors
<1>6. CASE WriteTable(c)
  <2>1. torn' = FALSE /\ pc[c] = "write"
    BY <1>6, CleanWrite DEF WriteTable
  <2> QED BY <1>0, <2>1
<1>7. CASE Crash(c)
  BY <1>0, <1>7 DEF Crash
<1> QED BY <1>1, <1>2, <1>3, <1>4, <1>5, <1>6, <1>7 DEF Next, ProgramStep

LEMMA LedgerInit ==
    ASSUME NEW c, Clients = {c}, Init
    PROVE  L!Init
<1>1. Settled = Visible(c)
  BY InitBasics, SettledOne
<1>2. InFlight(c) = 0 /\ session[c] = NoUser /\ db = Opening
  BY DEF Init, InFlight
<1>3. Opening = [u \in Users |-> Opening[u]] /\ NoUser \notin Users
  BY WalletAssumption
<1>4. Balances = Settled
  BY DEF Init, Balances, Destroyed
<1> QED BY <1>1, <1>2, <1>3, <1>4 DEF Visible, L!Init

(* What every step is to Ledger.                                           *)
LEMMA LedgerStep ==
    ASSUME NEW c, Clients = {c}, Faults \subseteq {"crash"},
           Sole(c), Sole(c)', [Next]_vars, ~wrapped, ~wrapped'
    PROVE  \/ Balances' = Balances
           \/ L!TransferNext
           \/ "crash" \in Faults /\ (L!ForfeitNext \/ L!LoseAll)
<1>0. TypeOK /\ TypeOK' /\ WellFormed(c) /\ Mirrors(c)
  BY DEF Sole, TransferWellFormed
<1>1. /\ Destroyed => Destroyed'
      /\ Destroyed' => Destroyed \/ "crash" \in Faults
  BY <1>0, DestroyedStep
<1>2. CASE Destroyed
  BY <1>1, <1>2 DEF Balances, NoTable
<1>3. CASE ~Destroyed /\ Destroyed'
  BY <1>1, <1>3 DEF Balances, NoTable, L!LoseAll
<1>4. CASE ~Destroyed /\ ~Destroyed'
  <2>1. Balances = Settled /\ Balances' = Settled'
    BY <1>4 DEF Balances
  <2>2. CASE UNCHANGED vars
    BY <2>1, <2>2 DEF vars, file, locals, Settled, InFlight
  <2>3. CASE (UserStep(c) \/ ProgramStep(c)) /\ ~WriteTable(c)
    BY <1>0, <2>1, <2>3, QuietStep
  <2>4. CASE WriteTable(c)
    BY <1>0, <1>4, <2>1, <2>4, WriteStep
  <2>5. CASE Crash(c)
    BY <1>0, <1>4, <2>1, <2>5, CrashStep DEF Crash
  <2> QED BY <2>2, <2>3, <2>4, <2>5 DEF Next
<1> QED BY <1>2, <1>3, <1>4

(* A sole instance to which nothing happens implements Ledger: to an       *)
(* observer who ignores transfers under way, transferPoint's two rewrites  *)
(* of users.parquet are one atomic transfer.                               *)
THEOREM ImplementsLedger ==
    ASSUME NEW c, Clients = {c}, Faults = {}
    PROVE  Spec /\ [](~wrapped) => LedgerSpec
<1>1. Init => L!Init
  BY LedgerInit
<1>2. Sole(c) /\ Sole(c)' /\ [Next]_vars /\ ~wrapped /\ ~wrapped'
        => [L!TransferNext]_Balances
  BY LedgerStep
<1>3. Spec => []Sole(c)
  BY SoleInvariant
<1> QED BY <1>1, <1>2, <1>3, PTL DEF Spec, LedgerSpec, L!Spec

(* When it may also crash at any step, it implements the ledger in which a *)
(* death between two updates forfeits the sender's points and touches no   *)
(* other account, and one inside an update loses every balance for good.   *)
THEOREM ImplementsLossyLedger ==
    ASSUME NEW c, Clients = {c}, Faults \subseteq {"crash"}
    PROVE  Spec /\ [](~wrapped) => LossyLedgerSpec
<1>1. Init => L!Init
  BY LedgerInit
<1>2. Sole(c) /\ Sole(c)' /\ [Next]_vars /\ ~wrapped /\ ~wrapped'
        => [L!TransferNext \/ L!ForfeitNext \/ L!LoseAll]_Balances
  BY LedgerStep
<1>3. Spec => []Sole(c)
  BY SoleInvariant
<1> QED BY <1>1, <1>2, <1>3, PTL DEF Spec, LossyLedgerSpec, L!LossySpec

-----------------------------------------------------------------------------
(* The log and deleted accounts.                                           *)

LEMMA LoggedStep ==
    ASSUME NEW c, Clients = {c}, Faults = {}, TypeOK, TypeOK', WellFormed(c),
           Mirrors(c), Logged(c), [Next]_vars, ~wrapped'
    PROVE  Logged(c)'
<1> c \in Clients /\ "crash" \notin Faults /\ Faults \subseteq {"crash"}
  OBVIOUS
<1> USE DEF TypeOK, WellFormed, file, locals, history
<1>1. CASE UNCHANGED vars
  BY <1>1 DEF vars, Logged, Crediting
<1>2. CASE UserStep(c)
  <2>1. /\ db' = db /\ statement' = statement
        /\ pc[c] # "settle" /\ ~Crediting(c)
        /\ pc'[c] # "settle" /\ ~Crediting(c)'
    BY <1>2 DEF UserStep, Login, ChooseReceiver, EnterAmount, Logout,
       DeleteAccount, EndSession, SaveProfile, Cancel, Confirm, OtpRefused,
       OtpVerified, Quit, Restart, Abandon, Crediting
  <2> QED BY <2>1 DEF Logged
<1>3. CASE LoginAborts(c) \/ ReadTable(c) \/ OpenFile(c)
  BY <1>3 DEF LoginAborts, ReadTable, OpenFile, Logged, Crediting
<1>4. CASE Settle(c)
  BY <1>4 DEF Settle, Logged, Crediting
<1>5. CASE WriteTable(c)
  <2>1. /\ pc[c] = "write" /\ ReturnOK(c) /\ statement' = statement
        /\ stage[c] \in {"debit", "credit", "profile"}
    BY <1>5, CleanWrite DEF WriteTable
  <2>2. stage[c] # "profile" =>
          session[c] \in Users /\ tx[c].to \in Users /\ tx[c].to # session[c]
    BY <2>1 DEF Transferring
  <2>3. CASE stage[c] = "profile"
    <3>1. db' = db /\ db = statement
      BY <1>5, <2>1, <2>3, CleanWrite DEF Logged, Crediting
    <3>2. pc'[c] = "menu" /\ stage'[c] = "none"
      BY <2>1, <2>3 DEF ReturnOK, Abandon
    <3> QED BY <2>1, <3>1, <3>2 DEF Logged, Crediting
  <2>4. CASE stage[c] = "debit"
    <3>1. db = statement /\ point[c] = db[session[c]]
      BY <2>1, <2>4 DEF Logged, Crediting, Mirrors
    <3>2. db' = [db EXCEPT ![session[c]] = point[c] - tx[c].amt]
      BY <1>5, <2>4, CleanWrite
    <3>3. /\ pc'[c] = "read" /\ stage'[c] = "credit"
          /\ session'[c] = session[c] /\ tx'[c] = tx[c]
      BY <2>1, <2>4 DEF ReturnOK
    <3>4. db' = [statement EXCEPT ![session[c]] = @ - tx[c].amt]
      BY <3>1, <3>2
    <3> QED BY <2>1, <3>3, <3>4 DEF Logged, Crediting
  <2>5. CASE stage[c] = "credit"
    <3>1. /\ db = [statement EXCEPT ![session[c]] = @ - tx[c].amt]
          /\ tx[c].pts = db[tx[c].to]
      BY <2>1, <2>5 DEF Logged, Crediting, Mirrors
    <3>2. db' = [db EXCEPT ![tx[c].to] = tx[c].pts + tx[c].amt]
      BY <1>5, <2>5, CleanWrite
    <3>3. /\ pc'[c] = "settle" /\ stage'[c] = "credit"
          /\ session'[c] = session[c] /\ tx'[c] = tx[c]
      BY <2>1, <2>5 DEF ReturnOK
    <3>4. db[tx[c].to] = statement[tx[c].to] /\ tx[c].amt \in Int
      BY <2>2, <2>5, <3>1, TransferType DEF Tables
    <3>5. /\ db = [statement EXCEPT ![session[c]] = statement[session[c]] - tx[c].amt]
          /\ db' = [db EXCEPT ![tx[c].to] = statement[tx[c].to] + tx[c].amt]
      BY <3>1, <3>2, <3>4
    <3>6. /\ session[c] \in Users /\ tx[c].to \in Users /\ tx[c].to # session[c]
          /\ statement \in Tables
      BY <2>2, <2>5
    <3>7. db' = Moved(statement, session[c], tx[c].to, tx[c].amt)
      BY ONLY <3>4, <3>5, <3>6 DEF Moved, Tables
    <3> QED BY <2>1, <3>3, <3>7 DEF Logged, Crediting
  <2> QED BY <2>1, <2>3, <2>4, <2>5
<1>6. CASE ReadFails(c) \/ OpenFails(c) \/ WriteFails(c)
  BY <1>6 DEF ReadFails, OpenFails, WriteFails, Mirrors
<1>7. CASE Crash(c)
  BY <1>7 DEF Crash
<1> QED BY <1>1, <1>2, <1>3, <1>4, <1>5, <1>6, <1>7 DEF Next, ProgramStep

(* With a sole instance to which nothing happens, the Points column is     *)
(* what the Success lines of transaction.log add up to whenever no         *)
(* transfer is being executed.                                             *)
THEOREM StatementsAgree ==
    ASSUME NEW c, Clients = {c}, Faults = {}
    PROVE  Spec => []StatementAgrees
<1> DEFINE Inv == Sole(c) /\ (~wrapped => Logged(c))
<1>1. Init => Inv
  <2>1. Init => Logged(c)
    BY DEF Init, Logged, Crediting
  <2> QED BY <2>1, InitBasics, MirrorsInit DEF Sole
<1>2. Inv /\ [Next]_vars => Inv'
  <2> SUFFICES ASSUME Inv, [Next]_vars PROVE Inv'
    OBVIOUS
  <2>1. Sole(c)'
    BY TypeStep, WellFormedStep, MirrorsStep, WrappedStays DEF Sole
  <2>2. ASSUME ~wrapped' PROVE Logged(c)'
    BY <2>1, <2>2, LoggedStep, WrappedStays DEF Sole, TransferWellFormed
  <2> QED BY <2>1, <2>2
<1>3. Inv => StatementAgrees
  BY DEF Sole, TransferWellFormed, WellFormed, Logged, StatementAgrees, Idle, Crediting
<1> QED BY <1>1, <1>2, <1>3, PTL DEF Spec

(* The receiver of a transfer under way is not deleted: deleting takes the *)
(* user menu, and the only user of a sole instance is busy paying.         *)
LivePayee(c) == Transferring(c) => tx[c].to \notin deleted

LEMMA LivePayeeStep ==
    ASSUME NEW c, Clients = {c}, Faults \subseteq {"crash"}, TypeOK, WellFormed(c), LivePayee(c), [Next]_vars
    PROVE  LivePayee(c)'
<1> c \in Clients
  OBVIOUS
<1> USE DEF TypeOK, WellFormed, LivePayee, Transferring, file, locals, history
<1>1. CASE UNCHANGED vars
  BY <1>1 DEF vars
<1>2. CASE UserStep(c)
  <2>1. ASSUME NEW u \in Users, ChooseReceiver(c, u) PROVE LivePayee(c)'
    BY <2>1 DEF ChooseReceiver, Payee, NotDeleted
  <2>2. ASSUME NEW n \in Amounts, EnterAmount(c, n) PROVE LivePayee(c)'
    <3>1. pc'[c] # "menu" => tx'[c].to = tx[c].to
      BY <2>2 DEF EnterAmount, Abandon, Transfers
    <3> QED BY <2>2, <3>1 DEF EnterAmount, Abandon
  <2>3. ASSUME NEW u \in Users, Login(c, u) PROVE LivePayee(c)'
    BY <2>3 DEF Login
  <2> QED BY <1>2, <2>1, <2>2, <2>3 DEF UserStep, Logout, DeleteAccount, EndSession,
         SaveProfile, Cancel, Confirm, OtpRefused, OtpVerified, Quit, Restart, Abandon
<1>3. CASE ProgramStep(c)
  <2>1. ASSUME LoginAborts(c) \/ ReadTable(c) \/ OpenFile(c) PROVE LivePayee(c)'
    BY <2>1 DEF LoginAborts, ReadTable, OpenFile
  <2>2. ASSUME ReadFails(c) \/ OpenFails(c) \/ WriteFails(c) PROVE LivePayee(c)'
    BY <2>2 DEF ReadFails, OpenFails, WriteFails, ReturnError, Recovery, Abandon
  <2>3. ASSUME WriteTable(c) PROVE LivePayee(c)'
    BY <2>3 DEF WriteTable, ReturnOK, Abandon
  <2>4. ASSUME Settle(c) PROVE LivePayee(c)'
    BY <2>4 DEF Settle
  <2> QED BY <1>3, <2>1, <2>2, <2>3, <2>4 DEF ProgramStep
<1>4. CASE Crash(c)
  BY <1>4 DEF Crash
<1> QED BY <1>1, <1>2, <1>3, <1>4 DEF Next

(* A sole instance gives no points to an account that has been deleted.    *)
THEOREM NothingForDeleted ==
    ASSUME NEW c, Clients = {c}, Faults \subseteq {"crash"}
    PROVE  Spec /\ [](~wrapped) => NoCreditToDeleted
<1>1. Init => LivePayee(c)
  BY DEF Init, LivePayee, Transferring
<1>2. Sole(c) /\ LivePayee(c) /\ [Next]_vars => LivePayee(c)'
  BY LivePayeeStep DEF Sole, TransferWellFormed
<1>3. Sole(c) /\ LivePayee(c) /\ [Next]_vars /\ ~wrapped /\ ~wrapped'
        => [\A u \in deleted : db'[u] <= db[u]]_vars
  <2> SUFFICES ASSUME Sole(c), LivePayee(c), Next, ~wrapped, ~wrapped',
                      NEW u \in deleted
               PROVE  db'[u] <= db[u]
    OBVIOUS
  <2>0. TypeOK /\ WellFormed(c) /\ Mirrors(c)
    BY DEF Sole, TransferWellFormed
  <2>1. u \in Users /\ db[u] \in Int
    BY <2>0 DEF TypeOK, Tables
  <2>2. CASE WriteTable(c)
    <3>1. stage[c] \in {"debit", "credit", "profile"} /\ pc[c] = "write"
      BY <2>0, <2>2, CleanWrite DEF WriteTable
    <3>2. CASE stage[c] = "profile"
      <4>1. db' = db
        BY <2>0, <2>2, <3>2, CleanWrite
      <4> QED BY <2>1, <4>1
    <3>3. CASE stage[c] = "debit"
      <4>1. db' = [db EXCEPT ![session[c]] = point[c] - tx[c].amt]
        BY <2>0, <2>2, <3>3, CleanWrite
      <4>2. /\ point[c] = db[session[c]] /\ point[c] \in Int
            /\ tx[c].amt \in 1 .. point[c]
        BY <2>0, <3>1, <3>3 DEF Mirrors, WellFormed, AmountFixed, Transferring, TypeOK
      <4>3. db'[u] = IF u = session[c] THEN point[c] - tx[c].amt ELSE db[u]
        BY <2>0, <2>1, <4>1 DEF TypeOK, Tables
      <4> QED BY <2>1, <4>2, <4>3
    <3>4. CASE stage[c] = "credit"
      <4>1. db' = [db EXCEPT ![tx[c].to] = tx[c].pts + tx[c].amt]
        BY <2>0, <2>2, <3>4, CleanWrite
      <4>2. u # tx[c].to
        BY <3>4 DEF LivePayee, Transferring
      <4> QED BY <2>0, <2>1, <4>1, <4>2 DEF TypeOK, Tables
    <3> QED BY <3>1, <3>2, <3>3, <3>4
  <2>3. CASE ~WriteTable(c)
    <3>1. db' = db
      BY <2>3 DEF Next, UserStep, Login, ChooseReceiver, EnterAmount, Logout,
         DeleteAccount, EndSession, SaveProfile, Cancel, Confirm, OtpRefused,
         OtpVerified, Quit, Restart, ProgramStep, LoginAborts, ReadTable, ReadFails,
         OpenFile, OpenFails, WriteFails, Settle, Crash, file
    <3> QED BY <2>1, <3>1
  <2> QED BY <2>2, <2>3
<1>4. Spec => []Sole(c)
  BY SoleInvariant
<1> QED BY <1>1, <1>2, <1>3, <1>4, PTL DEF Spec, NoCreditToDeleted

=============================================================================
