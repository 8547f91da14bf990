---------------------------- MODULE WalletProofs ----------------------------
(***************************************************************************)
(* Theorems about WalletTransfer, for every set of users and clients,      *)
(* every opening balance, every width of int and every bound.              *)
(***************************************************************************)
EXTENDS WalletTransfer, TLAPS

-----------------------------------------------------------------------------
(* Parsing into an int yields an integer, whatever is parsed.              *)
LEMMA ToIntType ==
    \A v \in Int : ToInt(v) \in Int
<1>1. 2 * IntHalf \in Nat /\ 2 * IntHalf > 0 /\ IntHalf \in Int
  BY WalletAssumption
<1> QED BY <1>1 DEF ToInt

(* The empty values of the locals are well typed.                          *)
LEMMA EmptyType ==
    NoTable \in Tables /\ NoTransfer \in Transfers
BY DEF NoTable, Tables, NoTransfer, Transfers

LEMMA TransferType ==
    ASSUME NEW t \in Transfers
    PROVE  t.to \in Users \cup {NoUser} /\ t.pts \in Int /\ t.amt \in Nat
BY DEF Transfers

(* Every table an update writes has one integer per user.                  *)
LEMMA NewTableType ==
    ASSUME TypeOK, NEW c \in Clients
    PROVE  /\ Requested(c) \in Int
           /\ ToInt(Requested(c)) \in Int
           /\ NewTable(c) \in Tables
<1>1. /\ point[c] \in Int /\ tx[c].pts \in Int /\ tx[c].amt \in Int
      /\ snap[c] \in Tables
  BY TransferType DEF TypeOK
<1>2. Requested(c) \in Int
  BY <1>1 DEF Requested
<1>3. ToInt(Requested(c)) \in Int
  BY <1>2, ToIntType
<1> QED BY <1>1, <1>2, <1>3 DEF NewTable, Tables

(* What a transfer does to a column of points.                             *)
LEMMA MovedTable ==
    ASSUME NEW f \in Tables, NEW s \in Users, NEW r \in Users \ {s}, NEW n \in Int
    PROVE  /\ Moved(f, s, r, n) \in Tables
           /\ Moved(f, s, r, n) =
                [u \in Users |-> IF u = s THEN f[u] - n
                                ELSE IF u = r THEN f[u] + n ELSE f[u]]
<1>1. Moved(f, s, r, n) \in Tables
  BY DEF Moved, Tables
<1>2. Moved(f, s, r, n) =
        [u \in Users |-> IF u = s THEN f[u] - n
                        ELSE IF u = r THEN f[u] + n ELSE f[u]]
  BY DEF Moved, Tables
<1> QED BY <1>1, <1>2

(* Leaving transferPoint keeps the locals well typed.                      *)
LEMMA AbandonType ==
    ASSUME TypeOK, NEW c \in Clients, Abandon(c)
    PROVE  /\ pc' \in [Clients -> Labels] /\ stage' \in [Clients -> Stages]
           /\ session' = session /\ point' = point /\ transfers' = transfers
           /\ tx' \in [Clients -> Transfers] /\ snap' \in [Clients -> Tables]
BY EmptyType DEF TypeOK, Abandon, Labels, Stages

LEMMA ReturnOKType ==
    ASSUME TypeOK, NEW c \in Clients, ReturnOK(c)
    PROVE  /\ pc' \in [Clients -> Labels] /\ stage' \in [Clients -> Stages]
           /\ session' = session /\ point' = point /\ transfers' = transfers
           /\ tx' \in [Clients -> Transfers] /\ snap' \in [Clients -> Tables]
<1>1. CASE stage[c] = "debit"
  BY <1>1, EmptyType DEF TypeOK, ReturnOK, Labels, Stages
<1>2. CASE stage[c] \in {"credit", "rollback"}
  BY <1>2, EmptyType DEF TypeOK, ReturnOK, Labels, Stages
<1>3. CASE stage[c] = "profile"
  BY <1>3, AbandonType DEF ReturnOK
<1> QED BY <1>1, <1>2, <1>3 DEF ReturnOK

LEMMA ReturnErrorType ==
    ASSUME TypeOK, NEW c \in Clients, ReturnError(c)
    PROVE  /\ pc' \in [Clients -> Labels] /\ stage' \in [Clients -> Stages]
           /\ session' = session /\ point' = point /\ transfers' = transfers
           /\ tx' \in [Clients -> Transfers] /\ snap' \in [Clients -> Tables]
<1>1. CASE Recovery(c) = "rollback"
  BY <1>1, EmptyType DEF TypeOK, ReturnError, Labels, Stages
<1>2. CASE Recovery(c) # "rollback"
  BY <1>2, AbandonType DEF ReturnError
<1> QED BY <1>1, <1>2

(* Every step keeps every variable in its type.                            *)
LEMMA TypeStep ==
    ASSUME TypeOK, TransferWellFormed, [Next]_vars
    PROVE  TypeOK'
<1> USE DEF file, locals, history
<1>1. CASE UNCHANGED vars
  BY <1>1 DEF TypeOK, vars
<1>2. ASSUME NEW c \in Clients, UserStep(c) PROVE TypeOK'
  <2>1. ASSUME NEW u \in Users, Login(c, u) PROVE TypeOK'
    BY <2>1 DEF TypeOK, Login, Labels, Tables
  <2>2. ASSUME NEW u \in Users, ChooseReceiver(c, u) PROVE TypeOK'
    <3>1. [to |-> u, pts |-> db[u], amt |-> 0] \in Transfers
      BY DEF TypeOK, Transfers, Tables
    <3> QED BY <2>2, <3>1 DEF TypeOK, ChooseReceiver, Labels
  <2>3. ASSUME NEW n \in Amounts, EnterAmount(c, n) PROVE TypeOK'
    <3>1. CASE Payable(c, n)
      <4>1. n \in Nat
        BY <3>1, WalletAssumption DEF Payable
      <4>2. [tx[c] EXCEPT !.amt = n] \in Transfers
        BY <4>1 DEF TypeOK, Transfers
      <4> QED BY <2>3, <3>1, <4>2 DEF TypeOK, EnterAmount, Labels
    <3>2. CASE ~Payable(c, n)
      BY <2>3, <3>2, AbandonType DEF EnterAmount, TypeOK
    <3> QED BY <3>1, <3>2
  <2>4. ASSUME Logout(c) PROVE TypeOK'
    BY <2>4 DEF TypeOK, Logout, EndSession, Labels
  <2>5. ASSUME DeleteAccount(c) PROVE TypeOK'
    <3>1. session[c] \in Users
      BY <2>5 DEF DeleteAccount, TransferWellFormed, WellFormed, TypeOK
    <3> QED BY <2>5, <3>1 DEF TypeOK, DeleteAccount, EndSession, Labels
  <2>6. ASSUME SaveProfile(c) PROVE TypeOK'
    BY <2>6 DEF TypeOK, SaveProfile, Labels, Stages
  <2>7. ASSUME Cancel(c) \/ OtpRefused(c) PROVE TypeOK'
    BY <2>7, AbandonType DEF Cancel, OtpRefused, TypeOK
  <2>8. ASSUME Confirm(c) PROVE TypeOK'
    BY <2>8 DEF TypeOK, Confirm, Labels
  <2>9. ASSUME OtpVerified(c) PROVE TypeOK'
    BY <2>9, WalletAssumption DEF TypeOK, OtpVerified, Labels, Stages
  <2>10. ASSUME Quit(c) \/ Restart(c) PROVE TypeOK'
    BY <2>10 DEF TypeOK, Quit, Restart, Labels
  <2> QED BY <1>2, <2>1, <2>2, <2>3, <2>4, <2>5, <2>6, <2>7, <2>8, <2>9, <2>10 DEF UserStep
<1>3. ASSUME NEW c \in Clients, ProgramStep(c) PROVE TypeOK'
  <2>1. ASSUME LoginAborts(c) PROVE TypeOK'
    BY <2>1 DEF TypeOK, LoginAborts, Labels
  <2>2. ASSUME ReadTable(c) PROVE TypeOK'
    BY <2>2 DEF TypeOK, ReadTable, Labels
  <2>3. ASSUME ReadFails(c) \/ OpenFails(c) \/ WriteFails(c) PROVE TypeOK'
    BY <2>3, ReturnErrorType DEF ReadFails, OpenFails, WriteFails, TypeOK
  <2>4. ASSUME OpenFile(c) PROVE TypeOK'
    BY <2>4 DEF TypeOK, OpenFile, Labels
  <2>5. ASSUME WriteTable(c) PROVE TypeOK'
    <3>1. db' \in Tables /\ torn' \in BOOLEAN
      BY <2>5, NewTableType DEF WriteTable, TypeOK
    <3>2. wrapped' \in BOOLEAN
      BY <2>5 DEF WriteTable, TypeOK
    <3> QED BY <2>5, <3>1, <3>2, ReturnOKType DEF WriteTable, TypeOK
  <2>6. ASSUME Settle(c) PROVE TypeOK'
    <3>1. point[c] \in Int /\ tx[c].amt \in Int /\ Remaining(c) \in Int
      BY TransferType DEF TypeOK, Remaining
    <3>2. statement' \in Tables
      <4>1. session[c] \in Users /\ tx[c].to \in Users \ {session[c]}
        BY <2>6 DEF Settle, TransferWellFormed, WellFormed, Transferring, TypeOK
      <4> QED BY <2>6, <3>1, <4>1, MovedTable DEF Settle, TypeOK
    <3> QED BY <2>6, <3>1, <3>2, EmptyType DEF Settle, TypeOK, Labels, Stages
  <2> QED BY <1>3, <2>1, <2>2, <2>3, <2>4, <2>5, <2>6 DEF ProgramStep
<1>4. ASSUME NEW c \in Clients, Crash(c) PROVE TypeOK'
  <2>1. InFlight(c) \in Int
    BY TransferType DEF InFlight, TypeOK
  <2> QED BY <1>4, <2>1, EmptyType DEF Crash, TypeOK, Labels, Stages
<1> QED BY <1>1, <1>2, <1>3, <1>4 DEF Next

-----------------------------------------------------------------------------
(* A step of one client leaves the others where they are.                  *)
LEMMA OthersWellFormed ==
    ASSUME TransferWellFormed, NEW c \in Clients, NEW d \in Clients, d # c,
           pc'[d] = pc[d], stage'[d] = stage[d], session'[d] = session[d],
           point'[d] = point[d], tx'[d] = tx[d]
    PROVE  WellFormed(d)'
BY DEF TransferWellFormed, WellFormed, Transferring, AmountFixed

(* The step's own client: one fact per action.                             *)
LEMMA AbandonWellFormed ==
    ASSUME NEW c \in Clients, TypeOK, WellFormed(c), Abandon(c),
           pc[c] \notin {"down", "home"}
    PROVE  WellFormed(c)'
BY WalletAssumption DEF WellFormed, Transferring, AmountFixed, Abandon, TypeOK, NoTransfer

LEMMA ErrorWellFormed ==
    ASSUME NEW c \in Clients, TypeOK, WellFormed(c), ReturnError(c),
           pc[c] \in {"read", "open", "write"}
    PROVE  WellFormed(c)'
<1>1. CASE Recovery(c) = "rollback"
  BY <1>1, WalletAssumption
     DEF WellFormed, Transferring, AmountFixed, ReturnError, Recovery, TypeOK
<1>2. CASE Recovery(c) # "rollback"
  BY <1>2, AbandonWellFormed DEF ReturnError
<1> QED BY <1>1, <1>2

LEMMA OKWellFormed ==
    ASSUME NEW c \in Clients, TypeOK, WellFormed(c), ReturnOK(c), pc[c] = "write"
    PROVE  WellFormed(c)'
<1> USE WalletAssumption DEF WellFormed, Transferring, AmountFixed, TypeOK
<1>1. CASE stage[c] = "debit"
  BY <1>1 DEF ReturnOK
<1>2. CASE stage[c] \in {"credit", "rollback"}
  BY <1>2 DEF ReturnOK
<1>3. CASE stage[c] = "profile"
  BY <1>3, AbandonWellFormed DEF ReturnOK
<1> QED BY <1>1, <1>2, <1>3 DEF ReturnOK

LEMMA OwnWellFormed ==
    ASSUME NEW c \in Clients, TypeOK, WellFormed(c),
           UserStep(c) \/ ProgramStep(c) \/ Crash(c)
    PROVE  WellFormed(c)'
<1> USE WalletAssumption DEF WellFormed, Transferring, AmountFixed, locals, TypeOK
<1>1. CASE UserStep(c)
  <2>1. ASSUME NEW u \in Users, Login(c, u) PROVE WellFormed(c)'
    BY <2>1 DEF Login
  <2>2. ASSUME NEW u \in Users, ChooseReceiver(c, u) PROVE WellFormed(c)'
    BY <2>2 DEF ChooseReceiver, Payee
  <2>3. ASSUME NEW n \in Amounts, EnterAmount(c, n) PROVE WellFormed(c)'
    <3>1. CASE Payable(c, n)
      <4>1. tx'[c].amt = n /\ tx'[c].to = tx[c].to
        BY <2>3, <3>1 DEF EnterAmount, Transfers
      <4> QED BY <2>3, <3>1, <4>1 DEF EnterAmount, Payable
    <3>2. CASE ~Payable(c, n)
      BY <2>3, <3>2, AbandonWellFormed DEF EnterAmount
    <3> QED BY <3>1, <3>2
  <2>4. ASSUME Logout(c) \/ DeleteAccount(c) PROVE WellFormed(c)'
    BY <2>4 DEF Logout, DeleteAccount, EndSession
  <2>5. ASSUME SaveProfile(c) PROVE WellFormed(c)'
    BY <2>5 DEF SaveProfile
  <2>6. ASSUME Cancel(c) \/ OtpRefused(c) PROVE WellFormed(c)'
    BY <2>6, AbandonWellFormed DEF Cancel, OtpRefused
  <2>7. ASSUME Confirm(c) \/ OtpVerified(c) PROVE WellFormed(c)'
    BY <2>7 DEF Confirm, OtpVerified
  <2>8. ASSUME Quit(c) \/ Restart(c) PROVE WellFormed(c)'
    BY <2>8 DEF Quit, Restart
  <2> QED BY <1>1, <2>1, <2>2, <2>3, <2>4, <2>5, <2>6, <2>7, <2>8 DEF UserStep
<1>2. CASE ProgramStep(c)
  <2>1. ASSUME LoginAborts(c) PROVE WellFormed(c)'
    BY <2>1 DEF LoginAborts
  <2>2. ASSUME ReadTable(c) \/ OpenFile(c) PROVE WellFormed(c)'
    BY <2>2 DEF ReadTable, OpenFile
  <2>3. ASSUME ReadFails(c) \/ OpenFails(c) \/ WriteFails(c) PROVE WellFormed(c)'
    BY <2>3, ErrorWellFormed DEF ReadFails, OpenFails, WriteFails
  <2>4. ASSUME WriteTable(c) PROVE WellFormed(c)'
    BY <2>4, OKWellFormed DEF WriteTable
  <2>5. ASSUME Settle(c) PROVE WellFormed(c)'
    BY <2>5 DEF Settle, NoTransfer
  <2> QED BY <1>2, <2>1, <2>2, <2>3, <2>4, <2>5 DEF ProgramStep
<1>3. CASE Crash(c)
  BY <1>3 DEF Crash, NoTransfer
<1> QED BY <1>1, <1>2, <1>3

(* What a step of one client can never touch: the control and the locals   *)
(* of another process.                                                     *)
LEMMA OtherClients ==
    ASSUME TypeOK, NEW c \in Clients, NEW d \in Clients, d # c,
           UserStep(c) \/ ProgramStep(c) \/ Crash(c)
    PROVE  /\ pc'[d] = pc[d] /\ stage'[d] = stage[d] /\ session'[d] = session[d]
           /\ point'[d] = point[d] /\ tx'[d] = tx[d] /\ snap'[d] = snap[d]
<1> USE DEF TypeOK, locals
<1>1. CASE UserStep(c)
  BY <1>1 DEF UserStep, Login, ChooseReceiver, EnterAmount, Logout, DeleteAccount,
       EndSession, SaveProfile, Cancel, Confirm, OtpRefused, OtpVerified, Quit,
       Restart, Abandon
<1>2. CASE ProgramStep(c)
  BY <1>2 DEF ProgramStep, LoginAborts, ReadTable, ReadFails, OpenFile, OpenFails,
       WriteTable, WriteFails, Settle, ReturnOK, ReturnError, Abandon
<1>3. CASE Crash(c)
  BY <1>3 DEF Crash
<1> QED BY <1>1, <1>2, <1>3

LEMMA WellFormedStep ==
    ASSUME TypeOK, TransferWellFormed, [Next]_vars
    PROVE  TransferWellFormed'
<1>1. CASE UNCHANGED vars
  BY <1>1 DEF vars, locals, TransferWellFormed, WellFormed, Transferring, AmountFixed
<1>2. ASSUME NEW c \in Clients, UserStep(c) \/ ProgramStep(c) \/ Crash(c),
             NEW d \in Clients
      PROVE  WellFormed(d)'
  <2>1. CASE d = c
    BY <1>2, <2>1, OwnWellFormed DEF TransferWellFormed
  <2>2. CASE d # c
    BY <1>2, <2>2, OtherClients, OthersWellFormed
  <2> QED BY <2>1, <2>2
<1> QED BY <1>1, <1>2 DEF Next, TransferWellFormed

LEMMA InitBasics ==
    ASSUME Init PROVE TypeOK /\ TransferWellFormed
<1>1. TypeOK
  <2>1. db \in Tables /\ statement \in Tables
    BY WalletAssumption DEF Init, Tables
  <2>2. tx \in [Clients -> Transfers] /\ snap \in [Clients -> Tables]
    BY EmptyType DEF Init
  <2>3. transfers \in 0 .. MaxTransfers
    BY WalletAssumption DEF Init
  <2>4. pc \in [Clients -> Labels] /\ stage \in [Clients -> Stages]
    BY DEF Init, Labels, Stages
  <2>5. /\ session \in [Clients -> Users \cup {NoUser}]
        /\ point \in [Clients -> Int]
    BY DEF Init
  <2>6. torn \in BOOLEAN /\ overlap \in BOOLEAN /\ wrapped \in BOOLEAN
    BY Zenon DEF Init
  <2>7. lost \in Int /\ deleted \subseteq Users
    BY DEF Init
  <2> QED BY <2>1, <2>2, <2>3, <2>4, <2>5, <2>6, <2>7 DEF TypeOK
<1>2. TransferWellFormed
  BY WalletAssumption
     DEF Init, TransferWellFormed, WellFormed, Transferring, AmountFixed
<1> QED BY <1>1, <1>2

(* Every variable keeps its type, whoever runs and whatever fails.         *)
THEOREM TypeCorrect == Spec => []TypeOK
<1>1. Init => TypeOK /\ TransferWellFormed
  BY InitBasics
<1>2. TypeOK /\ TransferWellFormed /\ [Next]_vars => TypeOK' /\ TransferWellFormed'
  BY TypeStep, WellFormedStep
<1> QED BY <1>1, <1>2, PTL DEF Spec

(* A transfer under way is always to another user, for an amount the       *)
(* sender's session covers, and every file update belongs to a transfer or *)
(* to a profile change; no failure and no second instance breaks that.     *)
THEOREM TransfersWellFormed == Spec => []TransferWellFormed
<1>1. Init => TypeOK /\ TransferWellFormed
  BY InitBasics
<1>2. TypeOK /\ TransferWellFormed /\ [Next]_vars => TypeOK' /\ TransferWellFormed'
  BY TypeStep, WellFormedStep
<1> QED BY <1>1, <1>2, PTL DEF Spec

-----------------------------------------------------------------------------
(* NoOverdraft is inductive once the copies of a balance are included: the *)
(* session's, the receiver's and the table an update has read.             *)
Funded ==
    ~wrapped =>
        /\ db \in [Users -> Nat]
        /\ snap \in [Clients -> [Users -> Nat]]
        /\ \A c \in Clients : point[c] \in Nat /\ tx[c].pts \in Nat

LEMMA FundedTable ==
    ASSUME TypeOK, TransferWellFormed, Funded, NEW c \in Clients, WriteTable(c), ~wrapped'
    PROVE  NewTable(c) \in [Users -> Nat]
<1>1. ~wrapped /\ pc[c] = "write" /\ (stage[c] # "profile" => ToInt(Requested(c)) = Requested(c))
  BY DEF WriteTable, TypeOK
<1>2. /\ snap[c] \in [Users -> Nat] /\ point[c] \in Nat /\ tx[c].pts \in Nat
      /\ tx[c].amt \in Nat
  BY <1>1, TransferType DEF Funded, TypeOK
<1>3. Requested(c) \in Nat
  <2>1. stage[c] = "debit" => tx[c].amt <= point[c]
    BY <1>1, <1>2 DEF TransferWellFormed, WellFormed, AmountFixed, Transferring
  <2> QED BY <1>2, <2>1 DEF Requested
<1> QED BY <1>1, <1>2, <1>3 DEF NewTable

LEMMA FundedStep ==
    ASSUME TypeOK, TransferWellFormed, Funded, [Next]_vars
    PROVE  Funded'
<1> SUFFICES ASSUME ~wrapped' PROVE Funded'
  BY DEF Funded
<1> USE DEF file, locals, history
<1>1. CASE UNCHANGED vars
  BY <1>1 DEF vars, Funded
<1>2. ASSUME NEW c \in Clients, UserStep(c) \/ ProgramStep(c) \/ Crash(c) PROVE Funded'
  <2>1. ~wrapped
    BY <1>2 DEF UserStep, Login, ChooseReceiver, EnterAmount, Logout, DeleteAccount,
       EndSession, SaveProfile, Cancel, Confirm, OtpRefused, OtpVerified, Quit,
       Restart, ProgramStep, LoginAborts, ReadTable, ReadFails, OpenFile, OpenFails,
       WriteTable, WriteFails, Settle, Crash
  <2>2. /\ db \in [Users -> Nat] /\ snap \in [Clients -> [Users -> Nat]]
        /\ \A e \in Clients : point[e] \in Nat /\ tx[e].pts \in Nat
    BY <2>1 DEF Funded
  <2>3. NoTransfer.pts \in Nat /\ NoTable \in [Users -> Nat]
    BY DEF NoTransfer, NoTable
  <2>4. db' \in [Users -> Nat]
    <3>1. CASE WriteTable(c)
      BY <2>2, <3>1, FundedTable DEF WriteTable
    <3>2. CASE ~WriteTable(c)
      BY <1>2, <2>2, <3>2 DEF UserStep, Login, ChooseReceiver, EnterAmount, Logout,
         DeleteAccount, EndSession, SaveProfile, Cancel, Confirm, OtpRefused,
         OtpVerified, Quit, Restart, ProgramStep, LoginAborts, ReadTable, ReadFails,
         OpenFile, OpenFails, WriteFails, Settle, Crash
    <3> QED BY <3>1, <3>2
  <2>5. snap'[c] \in [Users -> Nat]
    BY <1>2, <2>2, <2>3 DEF TypeOK, UserStep, Login, ChooseReceiver, EnterAmount, Logout,
       DeleteAccount, EndSession, SaveProfile, Cancel, Confirm, OtpRefused,
       OtpVerified, Quit, Restart, ProgramStep, LoginAborts, ReadTable, ReadFails,
       OpenFile, OpenFails, WriteTable, WriteFails, Settle, Crash, Abandon, ReturnOK,
       ReturnError
  <2>6. point'[c] \in Nat
    <3>1. CASE Settle(c)
      <4>1. tx[c].amt \in 1 .. point[c]
        BY <3>1 DEF Settle, TransferWellFormed, WellFormed, AmountFixed, Transferring
      <4> QED BY <2>2, <3>1, <4>1 DEF Settle, Remaining, TypeOK
    <3>2. CASE \E u \in Users : Login(c, u)
      BY <2>2, <3>2 DEF Login, TypeOK
    <3>3. CASE ~Settle(c) /\ ~\E u \in Users : Login(c, u)
      BY <1>2, <2>2, <3>3 DEF TypeOK, UserStep, ChooseReceiver, EnterAmount, Logout,
       DeleteAccount, EndSession, SaveProfile, Cancel, Confirm, OtpRefused,
       OtpVerified, Quit, Restart, ProgramStep, LoginAborts, ReadTable, ReadFails,
       OpenFile, OpenFails, WriteTable, WriteFails, Crash, Abandon, ReturnOK,
       ReturnError
    <3> QED BY <3>1, <3>2, <3>3
  <2>7. tx'[c].pts \in Nat
    <3>1. CASE \E u \in Users : ChooseReceiver(c, u)
      BY <2>2, <3>1 DEF ChooseReceiver, TypeOK
    <3>2. CASE \E n \in Amounts : EnterAmount(c, n)
      BY <2>2, <2>3, <3>2 DEF EnterAmount, Abandon, TypeOK, Transfers
    <3>3. CASE /\ ~\E u \in Users : ChooseReceiver(c, u)
               /\ ~\E n \in Amounts : EnterAmount(c, n)
      BY <1>2, <2>2, <2>3, <3>3 DEF TypeOK, UserStep, Login, Logout,
       DeleteAccount, EndSession, SaveProfile, Cancel, Confirm, OtpRefused,
       OtpVerified, Quit, Restart, ProgramStep, LoginAborts, ReadTable, ReadFails,
       OpenFile, OpenFails, WriteTable, WriteFails, Settle, Crash, Abandon, ReturnOK,
       ReturnError
    <3> QED BY <3>1, <3>2, <3>3
  <2>8. \A d \in Clients \ {c} :
           point'[d] = point[d] /\ tx'[d] = tx[d] /\ snap'[d] = snap[d]
    BY <1>2, OtherClients
  <2>9. snap' \in [Clients -> [Users -> Nat]]
    BY <2>2, <2>5, <2>8, <1>2, TypeStep DEF TypeOK, Next
  <2> QED BY <2>2, <2>4, <2>6, <2>7, <2>8, <2>9 DEF Funded
<1> QED BY <1>1, <1>2 DEF Next

LEMMA FundedInit ==
    ASSUME Init PROVE Funded
<1>1. NoTable \in [Users -> Nat] /\ NoTransfer.pts \in Nat
  BY DEF NoTable, NoTransfer
<1> QED BY <1>1, WalletAssumption DEF Init, Funded

(* No account goes below zero, for any number of running instances and any *)
(* failures, as long as no balance has left the range of int.              *)
THEOREM NeverOverdrawn == Spec => []NoOverdraft
<1>1. Init => TypeOK /\ TransferWellFormed /\ Funded
  BY InitBasics, FundedInit
<1>2. TypeOK /\ TransferWellFormed /\ Funded /\ [Next]_vars
        => TypeOK' /\ TransferWellFormed' /\ Funded'
  BY TypeStep, WellFormedStep, FundedStep
<1>3. Funded => NoOverdraft
  BY DEF Funded, NoOverdraft
<1> QED BY <1>1, <1>2, <1>3, PTL DEF Spec

=============================================================================
