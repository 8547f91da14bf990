-------------------------------- MODULE Otp --------------------------------
(***************************************************************************)
(* One call of verifyOTPForUser (OTP.cpp), as made by loginUser,           *)
(* changeuserinfo and transferPoint.                                       *)
(*                                                                         *)
(* A code is a hash of the number of the current 15-second step, so the    *)
(* model uses the number itself. Checking one reads the clock twice, and   *)
(* time may pass between the two readings.                                 *)
(***************************************************************************)
EXTENDS Integers, Sequences

CONSTANTS OTP_VALIDITY_SECONDS,  \* the length of a step
          MaxAttempts,           \* prompts of one call
          Horizon                \* bound: the clock stops there

ASSUME OtpAssumption ==
    /\ OTP_VALIDITY_SECONDS \in Nat \ {0}
    /\ MaxAttempts \in Nat \ {0}
    /\ Horizon \in Nat

VARIABLES now,      \* system_clock, in seconds
          pc,       \* "prompt", "enter", "compare", "verified" or "failed"
          printed,  \* when the code of each prompt so far was printed
          typed,    \* the prompt whose code the user typed, 0 for another text
          checked   \* verifyOTP's own reading of the clock

vars == <<now, pc, printed, typed, checked>>

(* The call may start at any moment of a step.                             *)
Init ==
    /\ now \in OTP_VALIDITY_SECONDS .. 2 * OTP_VALIDITY_SECONDS - 1
    /\ pc = "prompt"
    /\ printed = <<>>
    /\ typed = 0
    /\ checked = 0

generateOTP(time) == time \div OTP_VALIDITY_SECONDS

previousTimeStep_TwoBack(time) ==
    (time - 2 * OTP_VALIDITY_SECONDS) \div OTP_VALIDITY_SECONDS

previousTimeStep(time) ==
    (time - OTP_VALIDITY_SECONDS) \div OTP_VALIDITY_SECONDS

Tick ==
    /\ now < Horizon
    /\ now' = now + 1
    /\ UNCHANGED <<pc, printed, typed, checked>>

Prompt ==
    /\ pc = "prompt"
    /\ printed' = Append(printed, now)
    /\ pc' = "enter"
    /\ UNCHANGED <<now, typed, checked>>

(* The user types the code of this or an earlier prompt, or anything else; *)
(* verifyOTP reads the clock ...                                           *)
Enter(i) ==
    /\ pc = "enter"
    /\ typed' = i
    /\ checked' = now
    /\ pc' = "compare"
    /\ UNCHANGED <<now, printed>>

Matches_CurrentOnly == generateOTP(printed[typed]) = generateOTP(now)

(* ... and generateOTP reads it again: the code of the step of the second  *)
(* reading is accepted, and that of the step before the first one.         *)
Matches ==
    \/ generateOTP(printed[typed]) = generateOTP(now)
    \/ generateOTP(printed[typed]) = previousTimeStep(checked)

verifyOTP == typed # 0 /\ Matches

MoreAttempts_OneTooMany == Len(printed) <= MaxAttempts
MoreAttempts == Len(printed) < MaxAttempts

Compare ==
    /\ pc = "compare"
    /\ pc' = IF verifyOTP THEN "verified"
             ELSE IF MoreAttempts THEN "prompt" ELSE "failed"
    /\ UNCHANGED <<now, printed, typed, checked>>

Next == Tick \/ Prompt \/ (\E i \in 0 .. Len(printed) : Enter(i)) \/ Compare

Spec == Init /\ [][Next]_vars

-----------------------------------------------------------------------------
(* Types; a call prompts at most MaxAttempts times, and a typed code is    *)
(* one that was printed before the clock was read.                         *)
TypeOK ==
    /\ now \in Nat
    /\ pc \in {"prompt", "enter", "compare", "verified", "failed"}
    /\ printed \in Seq(Nat)
    /\ Len(printed) <= MaxAttempts
    /\ typed \in 0 .. Len(printed)
    /\ checked \in Nat

Age(time) == time - printed[typed]

(* A code is never accepted when verifyOTP is called two steps or more     *)
(* after it was printed, however long the comparison itself takes.         *)
AcceptedIsRecent ==
    pc = "verified" =>
        /\ typed # 0
        /\ Age(checked) < 2 * OTP_VALIDITY_SECONDS

Refused == pc = "compare" /\ pc' \in {"prompt", "failed"}

(* A printed code that is still valid is refused only when a step of the   *)
(* clock began between the two readings of one comparison.                 *)
RefusedAtBoundaryOnly ==
    [][(Refused /\ typed # 0 /\ Age(now) < OTP_VALIDITY_SECONDS)
          => generateOTP(checked) # generateOTP(now)]_vars
=============================================================================
