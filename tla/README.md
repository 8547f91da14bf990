# Verification of the user and wallet management client

The program is one C++ executable, `main.exe`, with a console menu. It keeps its data in Parquet
files and a text log beside it: `assets/users.parquet`, `assets/userstatus.parquet`,
`assets/admin.parquet`, `logs/transaction.log`. This directory models its core logic in TLA+,
checks the models with TLC on small instances and proves the main results with TLAPS for every
value of the constants. Line numbers below are of `src/src/DbUtils.cpp` (DB), `src/src/Menus.cpp`
(MN), `src/src/Admin.cpp` (AD) and `src/src/OTP.cpp` (OTP).

## 1. The system

| Component | State | Operations | Talks to |
|---|---|---|---|
| Point transfer | `Points` column of users.parquet; `currentUser->point()`, a copy made at login; the locals of `transferPoint` | `transferPoint` (DB 1440), `checkWalletIdAndFullName` (DB 1360), `updateUserInfo` (DB 1114), `logTransaction` (DB 1256) | OTP, accounts (receiver's status), log |
| Accounts and their status | rows of users.parquet; rows of userstatus.parquet with `genPassword`, `failedlogin`, `deleteUser` | `enterUserInfoRegister` (MN 276), `loginUser` (DB 694), `changeuserinfo` (MN 1107), `UserEditMenu` (MN 445), `read/append/updateUserStatusRow` (DB 34-221) | OTP, both files |
| One-time passwords | none; the clock | `generateOTP`, `verifyOTP`, `verifyOTPForUser` (OTP 32-91) | called by login, transfer, change of profile, deletion |
| System wallet, admin point edits | admin.parquet, `Points` of a user | cases 3 and 5 of `UserEditMenu`, `updateAdminRow` (DB 245), `calculateTotalWalletIds` (DB 951), `logPointEditTransaction` (DB 1316) | users.parquet, log |
| Admin login and profile | admin.parquet | `loginAdmin` (DB 856), `AdminLoginMenu` (MN 858) | system wallet |
| Transaction log | transaction.log | `logTransaction`, `listTransactions`, `listPointEdits`, `convertDateTime`, `isWithinTimeRange` (MN 1289-1593) | - |
| Menus | `std::cin`, `currentClient` | `mainMenu`, `userHomeMenu`, `UserLoginMenu`, `eWallet` (MN 1595-1827) | everything |
| Kafka client | consumer thread, producer | `activateConsumerThread`, `sendMessageToKafka` (User.cpp) | all calls are commented out |
| CSV import | - | `ReadCSV`, `saveUserToDbFromCSV` (DB 541-614) | called from nowhere |
| Hashing, JSON, printing | - | pure functions | - |

How the parts meet: the menus call the operations one after another in a single thread. What they
share is files. There is no transaction, no lock and no temporary file. Every change of a Parquet
file reads the whole table, opens the file for writing (which truncates it) and writes the whole
new table.

### What is hard

* A transfer is two rewrites of one file, with a third to undo the first. Each can be refused, can
  fail after the truncation, or can be the last thing the process does.
* The debit is computed from a balance copied at login, the credit from a balance read before the
  user was asked for the amount, the confirmation and the OTP.
* Two running `main.exe` work on the same files.
* An account is spread over two files, most users of the shipped data have no row in the second,
  and most callers do not look at whether writing a row worked.
* What was read before a prompt (status, flags, clock, the balance an admin is about to edit) is
  used after it.
* An admin's edit is remembered while a page is open, saved when it is left and logged after one
  more question; one way to the page never logs.
* The log is appended to without looking at the result and is moved aside when it is large; what
  the listings show is found by a pattern in its lines, damaged ones included, and by comparing
  strings of dates.
* All menus share `std::cin`. A word where a number is expected stays there, with the fail bit,
  for whoever reads next, and not every menu clears it.

### What makes it correct

Transfers: points are neither made nor lost, no balance goes below zero, what is announced and
logged is what the file holds, a transfer is atomic for an observer. Accounts: deleted and locked
accounts stay out until an admin lets them in; three mistakes lock; a password the program made up
is changed by its owner. OTP: an old code is not accepted, a fresh one is. Admin: the log explains
every balance, and "Balanced" means that the wallet is the sum. Log: a listing shows exactly the
lines it should and makes none up, and moving the file loses none. Menus: nothing happens that
nobody typed, and a word does not block them.

## 2. Modules

| Module | Content |
|---|---|
| `Ledger` | The abstract service: one step moves points from a user to another (`Spec`); a crash may take points from a sender, or every balance (`LossySpec`). |
| `WalletTransfer` | Sessions and transfers of any number of program instances on one users.parquet. |
| `WalletTotals` | The sums of the Points column, of what is in flight and of what crashes took, and the two properties about them. |
| `MCWallet` | Instances of the two for TLC. |
| `WalletProofs` | Theorems for any number of instances and any failures. |
| `SoleInstanceProofs` | Theorems for one instance, with and without crashes, and the refinement of `Ledger`. |
| `ConservationProofs` | Theorems about the totals; the theorems of `SoleInstanceProofs` from the opening total alone. |
| `Accounts` | Registration, login, lock-out, forced change, deletion and the admin's part over both files. |
| `MCAccounts` | Instances of it for TLC. |
| `AccountsProofs` | Theorems about it, with any failures and without. |
| `Otp` | One call of `verifyOTPForUser` with its prompts and its clock readings. |
| `OtpProofs` | Theorems about it for every step length and number of prompts. |
| `AdminPoints` | Edits of points and of the system wallet by an admin, their log lines, and the comparison of the two, with transfers of users around them. |
| `MCAdmin`, `AdminProofs` | An instance of it for TLC; theorems for any users, edits and failures. |
| `TransactionLog` | The lines of transaction.log, its backups, and the listings with their dates. |
| `MCLog`, `LogProofs` | An instance of it for TLC; theorems for any limit, clock and dates typed. |
| `MenuInput` | The ten menus on one `std::cin`. |
| `MCMenu`, `MenuProofs` | An instance of it for TLC; theorems for any lines typed. |

Each part is a specification of its own, because what they share is files that one thread uses in
turn. Where two of them meet, one has the other's whole operation as a step: `AdminPoints` has
`Transfer` for what `WalletTransfer` does in many steps, with what may come of it: all of it is
stored (`Transferred`), it is taken back (`TakenBack`), or only the debit is there
(`OnlyDebited`); `MenuInput` has a form for every operation of the others; `WalletTransfer` and
`Accounts` have one step for a verified or refused OTP.

### WalletTransfer and the code

`db` is the last complete content of users.parquet and `torn` says that the file on disk cannot be
read now; a reader is stopped by `torn`, so `db` is then what was lost with the file, and comes
back only if some writer still writes a table it had read before. `Destroyed` says that there is
no such writer. `overlap` says that two instances have had the file open for writing at once. `pc`
is the prompt or the point of `updateUserInfo` an instance is at, `stage` the call it makes:
`debit` (DB 1574), `credit` (DB 1611), `rollback` (DB 1619) or `profile` (MN 1690). `point` is
`currentUser->point()`, `tx` the locals of `transferPoint`, `snap` the table an update has read.

| Code | Actions |
|---|---|
| `loginUser`, end of a session | `Login`, `LoginAborts`, `Logout`, `Quit` |
| `UserLoginMenu` cases 1 and 3 | `SaveProfile`, `DeleteAccount` |
| questions of `transferPoint` | `ChooseReceiver`, `EnterAmount`, `Confirm`, `Cancel`, `OtpVerified`, `OtpRefused` |
| `updateUserInfo` | `ReadTable`/`ReadFails`, `OpenFile`/`OpenFails`, `WriteTable`/`WriteFails`, with `ToInt` for `int value = std::stoll(..)` |
| the rest of `transferPoint` | `ReturnOK`, `ReturnError`, `Recovery`, `Settle` |
| process | `Crash`, `Restart` |

A refused answer goes back to the head of the loop in the code and to `menu` in the model: from
there `z` leaves without effect, so the two are the same state for what is modelled. The status of
the receiver is in `deleted`; that a locked receiver is accepted is in `Payee`. Two overlapping
writers of one file leave the table of either of them or a file that no reader accepts: the code
truncates and writes through two unrelated handles, and all three happen. History variables:
`statement` adds up the Success lines of the log, `lost` what crashes took in flight, `wrapped`
remembers that a number did not fit `int`.

### Accounts and the code

`password` holds the kind of password in each row of users.parquet (`none` is "no row"), `rows`
the rows of userstatus.parquet in file order, `torn` the files that cannot be read. `who`, `seen`,
`fails` and `pending` are the user at work, the status `loginUser` read, `failedLoginCount`, and
the password that `changeuserinfo` returned or registration has not saved yet. `UpdateRow` is
`updateUserStatusRow` with a caller that does not look at its result. `AppendRow` is
`appendUserStatusRow`, which does not look at whether it could read the table: a torn one, and one
that could not be opened just then, is replaced by the one new row (DB 85). `Login` does not look
either: a status that cannot be opened is the default one, OK (DB 37, 757).

| Code | Actions |
|---|---|
| `loginUser` | `Login` (status read, a default row appended if there is none), `WrongPassword`, `LeavePassword`, `RightPassword`, `OtpFailed`, `OtpVerified` |
| forced change of password | `ForcedLeave`, `ForcedChange` (clears the flag), `ForcedSave` |
| `UserLoginMenu` | `ChangePassword`, `DeleteSelf`, `Logout` |
| `enterUserInfoRegister` and `AppendUserParquetRow` | `RegisterSelf`, `RegisterByAdmin`, `Enrol` |
| `AdminLoginMenu`, `UserEditMenu` | `AdminLogin`, `AdminLogout`, `ManageUser`, `DeleteUser`, `RestoreUser`, `ResetPassword`, `DoneEditing` |
| process | `Abort` (a reader throws through the menus), `Crash`, `Restart` |

A failure of a file is one outcome of the action that rewrites it (refused before the truncation,
or torn after it), because one instance has no reader in between.

### Otp and the code

A code is a hash of the user's salt, the number of the 15-second step and a random transaction id;
salt and id are fixed in a call, so the model uses the step number. `verifyOTP` reads the clock
itself for the previous step and calls `generateOTP`, which reads it again, for the current one:
`Enter` and `Compare` are these readings, and `Tick` may come between them. Every prompt prints a
code, and the user may type the code of any of them or something else.

### AdminPoints and the code

`points` and `wallet` are the last complete contents of the two Points columns, `torn` the files
that cannot be read. `adminPoint` is `currentAdmin->point()`, an `int`. `target`, `path`, `base`,
`edited` and `newPoints` are the page of a user that is open: whose, from which case of
`UserEditMenu`, the balance read when it was opened, and `updated_values`. `sender`, `held`,
`receiver` and `offered` are a user who is logged in, the balance copied at login (DB 808), the
receiver named and the balance copied of them (DB 1360); the admin and this user are in one
instance after one another, or in two at once if `Faults` has "instance". `stale` names the copies
(of the page, the sender, the receiver) whose row has changed since. Of the history, `books` are
the balances the lines of the log add up to, and `unlogged` the accounts for which there is a
change without a line.

| Code | Actions |
|---|---|
| `loginAdmin`, `AdminLoginMenu` | `LoginAdmin`, `LogoutAdmin`, `Abort` |
| `editAdminPoints` (AD 122), `updateAdminRow` (DB 245), MN 1035-1076 | `EditWallet` (`WalletStored`, `WalletNotStored`), `LogWalletEdit`, `ChangeProfile` |
| `UserEditMenu` case 1 | `AddUser` |
| `UserEditMenu` cases 3 and 5, `changeuserinfo` 3 (MN 1231) | `ManageUser`, `RestoreUser`, `EditPoints`, `ClosesPage` (`Saved`, `NotSaved`), `LogEdit` |
| `logPointEditTransaction` | `Logged` |
| `calculateTotalWalletIds` (DB 951), MN 928 | `calculateTotalWalletIds`, `Balanced` |
| `loginUser`, end of a user's session | `LoginUser`, `LogoutUser` |
| `transferPoint` (DB 1440) | `NameReceiver`, `Transfer`: both rows are written from the copies (DB 1562-1572, 1610) |
| process | `Crash` |

`updateAdminRow` returns the status of the write but not of `Close` (DB 352): a torn file comes
with either result. A refused write of the log is not an error for its callers.
`calculateTotalWalletIds` is a set of answers: the sum, and -1 whenever the read may fail.

### TransactionLog and the code

A line of `log` is the sequence of the records in it: one, or several when a write stopped short
of its newline and the next write went on in the same line. `backup` has the file
`transaction_<date>.log` of each day. `cut` of a record says where in its line the write stopped
(`Stops`), because it depends on this what the patterns make of the line. `written` is every
record ever handed to a stream, `moved` how many of them a rename has taken away. `RenameReplaces`
is what `std::rename` does with an existing target: false for the program as it is built, which is
for Windows (README.md 132, `system("cls")`).

| Code | Definitions |
|---|---|
| `logTransaction` (DB 1256) | `logTransaction`; the rename at DB 1291 goes into a directory that does not exist, its failure is not looked at |
| `logPointEditTransaction` (DB 1316) | `logPointEditTransaction`, `Rotates` |
| a write that stops | `cut` of a record, `AppendTo` |
| change of a full name | `ChangeName`: earlier lines keep the old one |
| `convertDateTime`, `isWithinTimeRange` (MN 1289, 1328) | operators of these names; strings of fixed width are compared like the tuples |
| `listTransactions`, `listPointEdits` (MN 1350, 1483) | operators of these names. `Reads` is what the patterns read out of a line: where the match `Starts`, how far `[^,]+` and `[^)]+` run on (`Continues`) and where it ends (`Finishes`); then the period, and `About` whom |

### MenuInput and the code

`pc` is the menu the program is at: `main`, `home` (`userHomeMenu`), `user` (`UserLoginMenu`),
`info` and `page` (`changeuserinfo` for a user and for an admin), `wallet` (`eWallet`),
`adminHome`, `history` and `profile` (`AdminLoginMenu`), `userEdit`, or a `form`: whatever an
operation asks before it ends at one of the menus `Moves` names. `stream` is the fail bit,
`pending` what is typed and not read. `Moves` is the table of choices; `Rest` and `Clearing` say
for each menu what it does with the rest of a line and with a failed read. `ReadWord` is the rule
of C++11 that a failed extraction stores 0, `ReadNothing` the case of a stream that has already
failed, which stores nothing: `int` variables of the admin's menus then have any value.

## 3. Runs

`tlc -config X.cfg M`; most take seconds, `log_listing` and `admin_points` a minute or two.
`MCOpening` gives 3, 1 and 0 points, so that there is a user who can pay, one who can pay once and
one who cannot. `IntHalf = 16` stands for 2^31 and no sum of the opening points reaches it, except
in `wallet_faults`, where it is 4, the opening total, so that a balance can leave `int`.

| Run | Bounds | Shows |
|---|---|---|
| `wallet_one` | 3 users, 1 instance, amounts -1..5, 4 verified transfers, no failures | `SessionFresh`: the balance copied at login and the receiver's balance are still those of the file at every prompt. `SuccessIsReal`: what is announced is in both rows. `StatementAgrees`: Points are the sum of the Success lines. `LedgerSpec`: it implements `Ledger!Spec`. `NoCreditToDeleted`. |
| `wallet_crash` | 3 users, 1 instance, amounts 1, 2, 4, 3 transfers, a crash at any step | `PointsConserved`: while the file can be read, column, transfer in flight and what crashes took between two updates add up to the opening total. `LossyLedgerSpec`: a crash between two updates costs the sender what is in flight; one inside an update, after the truncation, costs every balance; there is no third effect. |
| `wallet_faults` | 3 users, 1 instance, 3 transfers, refused updates, torn files, crashes | `TransferWellFormed`, `NoPointsCreated`: no combination of failures makes points, and neither does a balance that leaves `int`. |
| `wallet_two` | 2 users, 2 instances, overlapping rewrites, refused updates | `NoOverdraft`: no balance below zero. `TransferEnds`: every verified transfer ends. |
| `wallet_rollback` (violated) | 1 instance, refused updates | `SuccessIsReal` |
| `accounts_plain` | 3 users (with a row, without a row, not registered), no failures | `SessionNotBarred`, `StruckIsLocked`, `OneRowPerUser` |
| `accounts_faults` | 2 users, refused and torn reads and updates, crashes, up to 3 rows | `OnlyAdminUnbars`: nobody but an admin lets a barred account in again, except that a login or registration that could not read the status table replaces all of it. |
| `accounts_norow` (violated) | no failures | `GeneratedIsMarked` |
| `otp_window` | steps of 4 seconds, 3 prompts, 3.5 steps of the clock | `AcceptedIsRecent`, `RefusedAtBoundaryOnly` |
| `admin_points` | 1 user and one to be added, wallet balanced at the start, edits of -2 and 2, gifts of 0 and 1, int of -4..3, 3 visits (pages, wallet edits and logins of a user together), refused and torn files, crashes, the user in the same or in another instance | `HistoryExplains`: outside of the moment between saving and logging, a balance is what the log adds up to, unless the account was edited while it was restored, a change of it was overwritten from a stale copy (of the open page, of a session or of a receiver named before), only a part of a transfer was stored, or its line was lost to a crash or a log that cannot be opened. `WalletExplained`: the same for the system wallet. `BalancedIsReal`: "Balanced" is announced exactly when the stored wallet is the stored sum, except that -1, the answer of any failed read, denies every wallet but -1. |
| `log_listing` | 2 users (one shares a full name with the admin), a file one line over a limit of 1 line, 3 more lines over the last second of 28 February 2024 and the first of the 29th, one line cut at any of the seven places, one change of a name; dates 28 and 29 February 2024 and 29 February 2023 typed as either end | `ListingExact`: of the lines written at once, every listing of every user, name and period is what `Expected` says from the history: all due and no other; a damaged line shows nothing but a record of the file, or sender and receiver of records behind one another over writes that stopped short. `CalendarExact`: over 1899 to 2101, `convertDateTime` accepts exactly the dates of a calendar given by day numbers. `HistoryKept`: backups and file together are everything written, in order. `OnlyTransfersOutgrow`. |
| `menu_input` | 4 lines out of 11: every digit 0 to 6, a word, a number with a word or a number behind it, an empty line; the input may end at any time | `GoodbyeIsTyped`, `OperationsTyped`: no word left in the stream, and no value read from a failed one, ends the program or starts an operation of a user. `WordsForgotten`: a word at a menu of a user is got rid of. |

Why the bounds are enough. Three users let a transfer be chained (the receiver pays on) and leave
one that must not be touched; amounts range from negative to more than anybody owns; three or four
transfers let balances go up and down again and reach an OTP-verified transfer after a failed one.
`MaxTransfers` only stops the number of transfers: when it is reached every other action is still
enabled. Two instances are what an overlap needs. `MaxRows` stops registrations, not the default
rows a login appends; one more row than users lets a name be registered twice.  The clock of
`otp_window` may start at any second of a step and covers three further step boundaries, one more
than a code lives through; deadlock is not checked there because the call ends and the clock stops
at `Horizon`. Three visits in `admin_points` let an admin's edit come between a login of a user
and the payment, or an edit follow a lost or unlogged one, on the same or another account; an int
of three bits is left by two edits of 2. Three lines behind a file over the limit are what it
takes to have it moved aside, a second edit of that day that finds the backup in its way, and a
cut before, between or after them. One cut is enough to join two records in one line; the proof is
for any number. The instants are the two ends of periods that end on the 28th and begin on the
29th. Four lines let a word be typed two menus deep and a number behind it be read by another
menu. The runs of admin, log and menus stop at their bounds, so that deadlock is not checked
there. In the other runs it is: an instance can always be restarted.

Fairness. `TransferEnds` needs `WF_vars(ProgramStep(c))`: `ProgramStep` has exactly the steps that
a running program makes without input, in one thread; nothing makes a user answer, and whether a
process dies is left open. So the property speaks of the updates after the OTP, which ask nothing.
`WordsForgotten` needs `WF_vars(Reads)`: a menu whose `cin >>` can return does return, because
nothing else runs in the process. Nobody has to type, and a form may last for ever.

Every property of a passing run has a mutant of the code (`PROJECT.json`) that TLC finds to
violate it: a dropped self or deleted check, a debit without a balance check, a credit that adds
nothing, a session that is not debited, a rollback that is retried, a lock that is not looked at,
a default row that is not written, the last instead of the first row, two steps back instead of
one, an edit that starts from the edit before it, a wallet the session does not remember, a total
of 0 for a table that cannot be read, an end of day that is its beginning, every fourth year a
leap year, a newline that is forgotten, a rename that overwrites or that never happens, a menu
that does not clear its stream.

### What the violated runs show

* `wallet_rollback`. When the receiver's update fails and the rollback succeeds, `transferPoint`
  leaves the `if` at DB 1632 and continues: it debits the session, prints "Transaction
  successful!" (DB 1637) and logs Success, with both rows as before, although it has just undone
  the debit as the comment at DB 1617 announces.
* `accounts_norow`. Resetting the password of a user who has no row in userstatus.parquet stores a
  generated password and no flag, although MN 1215 announces a forced change.

### Seen while modelling, without a run

* With two instances a transfer that was logged as Success is overwritten by the other's rewrite
  (DB 1141); README.md 145 says that every change is in the Parquet files and stays there.
* After three wrong OTPs at login `loginUser` still calls `UserLoginMenu` (DB 832), and the forced
  change, which is inside the `if`, is skipped (`OtpFailed`).
* README.md 14 says that users are locked after more than three failed logins; the count is a
  local of `loginUser` (DB 789), so leaving with `z` starts it again (`LeavePassword`).
* The test of the password at registration is the wrong way round (MN 349: `RegisterSelf`
  therefore enrols `weak` passwords only).
* A new balance that leaves `int` is stored as another number (DB 1189, `ToInt`, history variable
  `wrapped`).
* A program closed between truncation and write leaves a file nobody can read (DB 1242, `torn`).
* A login of a user without a row, or a registration, that cannot read userstatus.parquet, torn or
  only not to be opened just then, replaces all rows by one if its own write succeeds (DB 85,
  120): every lock and deletion is gone. `OnlyAdminUnbars` excepts this (`TableReplaced`).
* A locked or deleted account whose status cannot be opened at login is let in with the status OK
  (DB 37, 757), so that `SessionNotBarred` is about runs in which no read is refused.
* With refused updates it does not hold for another reason, too: a registration that got no
  further than its status row can be marked as deleted by an admin and the name be registered
  again, into the user menu.
* A code just printed is refused when a step begins between the two clock readings (OTP 50), and
  one is accepted up to 29 seconds after it was printed, though "Valid for 15 seconds" is
  announced (OTP 76): `RefusedAtBoundaryOnly` and `AcceptedIsRecent` say exactly how far this
  goes.
* The second edit of points in one visit to a page replaces the first (MN 1255), though both are
  announced as saved; the line of the log is then the second one's, so that `HistoryExplains`
  holds.
* Points changed on the page of a restored account are saved and never logged (MN 817), and
  neither are the points a new user starts with. The system wallet is not touched by edits of
  users.
* A users.parquet that cannot be opened makes the total -1 (DB 953), so that a balanced system is
  announced as one that does not match, and a wallet of -1 as "Balanced".
* A user who logged in, or named a receiver, before an admin edited a balance pays from the old
  one (DB 808, 1572, 1610): the edit is overwritten though its line is in the log.
* A line cut in the sender's user name and the record behind it match the pattern as one transfer,
  from the first sender to the second receiver (MN 1369), and a cut in the id shows the second
  record, although the comments at MN 1442 and 1445 say that a faulty line is skipped.
  `ListingExact` says how far this goes.
* A user name with a comma, or a full name with a closing bracket, does not fit the pattern: lines
  about that user are not listed.
* The comment at DB 1274 announces a backup of a log beyond 100 MB; a transfer renames into a
  directory that does not exist (DB 1291). Only a later edit of points moves the file.
* The listing of an admin asks for a user name (MN 944) and compares full names; it mixes users
  who share one, and a change of the name hides earlier lines. The listings never read the
  backups.
* A word at the admin's menus reads as 0 and leaves the menu; in some of them the next read finds
  the fail bit and uses an `int` without a value (`ReadNothing`), and AdminLoginMenu may ask for
  ever (MN 868). At the end of the input every menu that clears its stream asks for ever, too (MN
  1759, 1809).

## 4. Theorems

All proofs are checked by `tlapm`. The assumptions on constants are `WalletAssumption`,
`FiniteAssumption`, `OtpAssumption`, `AccountsAssumption`, `AdminAssumption`, `InputAssumption`
and those of `TransactionLog`. They give the constants their types and say that

* a file has finitely many rows and finitely many instances run (`FiniteAssumption`), without
  which the points would have no sum;
* what is typed at a menu is a sequence of numbers and words (`InputAssumption`);
* the log at the start is readable and not past its limit by more than a line (`OldAssumption`,
  `WholeAssumption`);
* the clock shows dates, of years that can be typed as well (`CalendarAssumption`), and a day that
  is over does not come again (`DayAssumption`): a clock set back is not modelled. What is typed
  as a date is three integers (`TypedAssumption`); they need not be a date.

`WalletProofs`, for any users, amounts, number of instances and any set of failures:

* `TypeCorrect`, `TransfersWellFormed`: `TypeOK /\ TransferWellFormed` is inductive. Types alone
  are not: that an amount stays natural needs that a client in `confirm` or later has an amount
  between 1 and its balance, which is a conjunct of `WellFormed`.
* `NeverOverdrawn`: `NoOverdraft` is not inductive, because a balance is written from what a
  client remembers. `Funded` adds that, as long as nothing was wrapped, every table a client has
  read, its session's balance and the receiver's balance it holds are natural numbers. With
  `TransferWellFormed` the three numbers an update can store are natural too.

`SoleInstanceProofs`, for one instance (`Clients = {c}`) and `Faults \subseteq {"crash"}`, or no
failures where stated, as long as no number left `int`:

* `SoleInvariant` proves `Sole(c)`: types, well-formedness and `Mirrors(c)`, which says for each
  position in `transferPoint` and `updateUserInfo` how the file, the table that was read, the
  session's balance and the receiver's balance hang together. The properties are only about
  prompts or about the end; between them the file and the session differ by the debit, and this is
  what has to be said.
* `SessionsFresh` and `SuccessesAreReal` follow from it.
* `StatementsAgree` (no failures) needs `Logged(c)` too: the log's sum is the file without the
  part of the transfer already written.
* `ImplementsLedger` (no failures) and `ImplementsLossyLedger` (crashes): every step maps to a
  step or a stutter of `Ledger` under `balance <- Balances`: `Settled`, which gives a debit back
  to its sender until the credit is written, and nothing for anybody once the file is `Destroyed`.
  The credit's write is the step `Transfer`; a crash between two updates is `Forfeit`, one behind
  a truncation `LoseAll`.
* `NothingForDeleted` needs `LivePayee(c)`: with one instance nobody can delete the receiver
  between its check and the credit.

`ConservationProofs`, for one instance. The sum of the library is a fold over a set in an order
that `CHOOSE` picks. The first lemmas (`PickIn` to `SumSame`) show by minimal subsets that this
order does not matter and what the sum becomes when one number changes; the rest of the proofs
uses only that.

* `NothingCreated`, for all failures and any width of `int`. The total alone is not inductive,
  because an update stores what its client remembers. `Backed(c)` says that even if the session's
  row held what the session counts on, as a rollback or the next debit may store it, the column
  would not exceed the opening total, and that the credit is written only after its debit. It
  bounds the total from above only, so a number that wraps, which becomes a smaller one, does no
  harm.
* `NothingWraps`, `NoDebt`, for all failures, if the opening total fits into `int`: no balance
  exceeds a total that never grows.
* `TransfersConserve`, with crashes and if the opening total fits: the exact account while the
  file can be read, from `Sole(c)` of `SoleInstanceProofs` and the effect of each write on the
  sums.
* `SoleInstanceHonest`, `TransferIsAtomic`, `TransferIsAtomicOrLoses`: the theorems of
  `SoleInstanceProofs` speak of behaviours as long as no number has left `int`. By `NothingWraps`
  none does, so that here the whole hypothesis is one about the first state.

`OtpProofs`, for every step length, number of prompts and horizon: `OtpTypeCorrect`,
`NoStaleCode`, `RefusedOnlyAtBoundary`. The invariant `Noted` says that prompts are printed before
the clock is read and readings are not later than now; the lemmas `StepInterval`, `StepOrder` and
`PreviousStep` reduce integer division to inequalities.

`AccountsProofs`, for any users, rows and bounds:

* `AccountsTypeCorrect` and `OnlyAdminUnbarsHolds`, whatever is refused, torn or crashes. The
  action property is about the first row of a user; the lemmas say what appending a row and
  replacing the first row of a user do to the first row of every other. An append that has
  replaced the whole table is the exception the property names, and the table has one row then.
* `SessionNotBarredHolds`, `StruckIsLockedHolds`, `OneRowPerUserHolds`, for `Faults = {}` and a
  table with one row per account at the start. None is inductive. `Clean` adds that no file is
  torn, that rows belong to accounts (`RowsBelong`), that a registration or forced change half-way
  has a password to be saved (`Unsaved`), and that whoever is past the status check has a row that
  is not barred (`SessionFree`).

`AdminProofs`, for any users, edits, gifts, width of `int` and failures, with a user who is logged
in in the same or another instance: `AdminTypeCorrect`, `HistoryCorrect`, `WalletCorrect`,
`BalancedCorrect`. The invariant `Books` says that `points[u]` is `books[u]` plus what the open
question for a reason has saved and not logged (`Pending`), and that each copy of a balance (of
the open page, the session, the receiver) that is not `stale` is the number of the file;
`WalletBooks` the same of the wallet, and that the admin's copy is the file's number while the
file can be read.

`LogProofs`, for any users, names, clock, limit, cuts and either behaviour of `rename`:

* `LogTypeCorrect` and `OnlyTransfersOutgrowHolds`. `AppendedTo` says what an append does to a
  file whose last line may be unfinished; the property needs that appending does not change the
  first record of a line.
* `CalendarCorrect`, for all integers typed (`AcceptedIsDate`): the table of months and the rule
  of leap years are the differences of `DayNumber`, which has neither. The lemma about February
  reduces to what the quotients by 4, 100 and 400 gain from one year to the next.
* `HistoryKeptHolds`. `FlattenInsert` says what a joined sequence becomes when a part behind which
  all are empty is filled. `BackupsOfPast` (a backup is of a day that has come) is the
  strengthening: when the file is moved aside, the backups of later days are empty because there
  have been none, and the part of today is empty because else the rename is refused.
* `ListingExactHolds`. Three things are to be shown. That comparing strings compares days:
  `OrderOfDays`, that the order of (year, month, day) is that of the day numbers, and
  `PeriodOfDays`. That the undamaged lines of the file and the history of writes give the same
  list: `Tied` says that the file lacks a newline just when the last record written into it was
  cut, from which an append adds the same to both (`ListingAppended`), whether it begins a line or
  spoils one. And that what the patterns read out of a damaged line are neighbours of the history:
  `Placed` says that the records of each line stand behind one another in it, all but the last of
  them cut.

`MenuProofs`, for any lines typed: `MenuTypeCorrect`, `GoodbyeTyped`, `OperationsAreTyped`. The
first needs that what is pending ends with the end of a line (`Closed`). The invariant of the
others adds `FailedAtEnd`: at `wallet`, the one menu of a user that does not clear the stream, and
in the forms of those menus, the stream has failed only at the end of the input.

Only model-checked: `TransferEnds` and `WordsForgotten`, because liveness under fairness is
outside of what the prover can do. `SessionFresh`, `SuccessIsReal`, `StatementAgrees`, the two
refinements and the two totals are proved for one instance, because with two they do not hold
(section 3). That the totals hold up to the first overlap of two instances is not claimed.

## 5. Not modelled, and the plan

Left out of the modules above: salts and the content of names and passwords; races of two
instances on userstatus.parquet and on the log; changes of the system clock backwards; collisions
of the six-digit codes; amounts and statuses in the lines of the log, and user names with a comma
or full names with a bracket; which row of admin.parquet `updateAdminRow` writes when none matches
(DB 279: the admin who is logged in has one).

Not modelled at all:

* the Kafka client and the CSV import, which no code calls;
* hashing, JSON and printing, which are pure;
* Arrow, Parquet, OpenSSL and librdkafka in `src/include`, which are headers of libraries and
  nearly all of the lines of the repository: what the program relies on, that a file is read and
  rewritten as a whole and that opening it for writing truncates it, is part of the models. The
  program's own code is about 4000 lines, nearly all of them in Menus.cpp and DbUtils.cpp.

What could be added: an automaton of one account (active, marked, locked, deleted) as an abstract
specification that `Accounts` implements; two instances on userstatus.parquet; the forced change
that clears its flag before the password is saved (MN 1221) as a property of its own.
