----------------------------- MODULE OtpProofs -----------------------------
(***************************************************************************)
(* What verifyOTPForUser guarantees for every length of a step, every      *)
(* number of attempts and every moment of the clock.                       *)
(***************************************************************************)
EXTENDS Otp, TLAPS

V == OTP_VALIDITY_SECONDS

-----------------------------------------------------------------------------
(* Steps of the clock.                                                     *)

(* A step is an interval of V seconds.                                     *)
LEMMA StepInterval ==
    ASSUME NEW t \in Int
    PROVE  /\ generateOTP(t) \in Int
           /\ V * generateOTP(t) <= t
           /\ t < V * generateOTP(t) + V
<1>1. V \in Int /\ V > 0
  BY OtpAssumption, SMT DEF V
<1>2. /\ t \div V \in Int
      /\ t = V * (t \div V) + (t % V)
      /\ t % V \in 0 .. V - 1
  BY <1>1, SMT
<1>3. QED
  BY <1>1, <1>2, SMT DEF generateOTP, V

(* Multiples of V are ordered as their factors.                            *)
LEMMA StepOrder ==
    ASSUME NEW a \in Int, NEW b \in Int, V * a < V * b + V
    PROVE  a <= b
<1>1. V \in Int /\ V > 0
  BY OtpAssumption, SMT DEF V
<1>2. SUFFICES ASSUME a > b PROVE FALSE
  BY SMT
<1>3. a = b + 1 + (a - b - 1) /\ a - b - 1 \in Nat
  BY <1>2, SMT
<1>4. V * (a - b - 1) >= 0
  BY <1>1, <1>3, SMT
<1>5. V * a = V * b + V + V * (a - b - 1)
  BY <1>1, SMT
<1>6. QED
  BY <1>1, <1>4, <1>5, SMT

(* The step before the one of t is the step of the moment V seconds        *)
(* earlier.                                                                *)
LEMMA PreviousStep ==
    ASSUME NEW t \in Int
    PROVE  previousTimeStep(t) = generateOTP(t) - 1
<1>1. V \in Int /\ V > 0
  BY OtpAssumption, SMT DEF V
<1> DEFINE a == generateOTP(t)
           b == generateOTP(t - V)
<1>2. t - V \in Int /\ previousTimeStep(t) = b
  BY <1>1 DEF previousTimeStep, generateOTP, V
<1>3. /\ a \in Int
      /\ V * a <= t
      /\ t < V * a + V
  BY StepInterval
<1>4. /\ b \in Int
      /\ V * b <= t - V
      /\ t - V < V * b + V
  BY <1>2, StepInterval
<1> HIDE DEF a, b
<1>5. a - 1 <= b
  <2>1. V * (a - 1) = V * a - V
    BY <1>1, <1>3, SMT
  <2>2. V * (a - 1) < V * b + V
    BY <1>1, <1>3, <1>4, <2>1, SMT
  <2>3. QED
    BY <2>2, <1>3, <1>4, StepOrder
<1>6. b <= a - 1
  <2>1. V * (a - 1) = V * a - V
    BY <1>1, <1>3, SMT
  <2>2. V * b < V * (a - 1) + V
    BY <1>1, <1>3, <1>4, <2>1, SMT
  <2>3. a - 1 \in Int
    BY <1>3, SMT
  <2>4. QED
    BY <2>2, <2>3, <1>4, StepOrder
<1>7. QED
  BY <1>2, <1>3, <1>4, <1>5, <1>6, SMT DEF a

-----------------------------------------------------------------------------
(* Type correctness.                                                       *)

(* What the program knows about the clock: every time it has noted is in   *)
(* the past, and a code that is compared was printed before the clock was  *)
(* read. The number of prompts stays within bounds because another one     *)
(* comes only while there are attempts left.                               *)
Noted ==
    /\ TypeOK
    /\ checked <= now
    /\ \A i \in 1 .. Len(printed) : printed[i] <= now
    /\ pc \in {"compare", "verified"} /\ typed # 0 => printed[typed] <= checked
    /\ pc = "prompt" => Len(printed) < MaxAttempts

LEMMA NotedInit == Init => Noted
<1>1. OTP_VALIDITY_SECONDS \in Nat \ {0} /\ MaxAttempts \in Nat \ {0}
  BY OtpAssumption
<1>2. QED
  BY <1>1, SMT DEF Init, Noted, TypeOK

LEMMA NotedStep == Noted /\ [Next]_vars => Noted'
<1> SUFFICES ASSUME Noted, [Next]_vars PROVE Noted'
  OBVIOUS
<1>0. MaxAttempts \in Nat /\ Horizon \in Nat
  BY OtpAssumption
<1>1. CASE Tick
  BY <1>1, SMT DEF Noted, TypeOK, Tick
<1>2. CASE Prompt
  <2>1. /\ printed' = Append(printed, now)
        /\ printed \in Seq(Nat) /\ now \in Nat
        /\ Len(printed) < MaxAttempts
    BY <1>2 DEF Prompt, Noted, TypeOK
  <2>2. /\ printed' \in Seq(Nat)
        /\ Len(printed') = Len(printed) + 1
        /\ \A i \in 1 .. Len(printed') :
              printed'[i] = IF i = Len(printed) + 1 THEN now ELSE printed[i]
    BY <2>1, SMT
  <2>3. \A i \in 1 .. Len(printed') : printed'[i] <= now'
    BY <1>2, <2>1, <2>2, SMT DEF Prompt, Noted
  <2>4. TypeOK'
    BY <1>0, <1>2, <2>1, <2>2, SMT DEF Prompt, Noted, TypeOK
  <2>5. QED
    BY <1>2, <2>3, <2>4, SMT DEF Prompt, Noted
<1>3. ASSUME NEW i \in 0 .. Len(printed), Enter(i)
      PROVE  Noted'
  BY <1>3, SMT DEF Noted, TypeOK, Enter
<1>4. CASE Compare
  BY <1>0, <1>4, SMT DEF Noted, TypeOK, Compare, MoreAttempts
<1>5. CASE UNCHANGED vars
  BY <1>5, SMT DEF Noted, TypeOK, vars
<1>6. QED
  BY <1>1, <1>2, <1>3, <1>4, <1>5 DEF Next

(* One call of verifyOTPForUser prompts at most MaxAttempts times and      *)
(* compares only codes it has printed.                                     *)
THEOREM OtpTypeCorrect == Spec => []TypeOK
<1>1. Init => Noted
  BY NotedInit
<1>2. Noted /\ [Next]_vars => Noted'
  BY NotedStep
<1>3. Noted => TypeOK
  BY DEF Noted
<1>4. QED
  BY <1>1, <1>2, <1>3, PTL DEF Spec

-----------------------------------------------------------------------------
(* How old an accepted code can be, and when a valid one is refused.       *)

(* An accepted code is of the step of now or of the step before checked:   *)
(* either way checked is less than two steps after it was printed.         *)
LEMMA AcceptedAge ==
    ASSUME NEW p \in Int, NEW c \in Int, NEW t \in Int,
           c <= t,
           generateOTP(p) = generateOTP(t) \/ generateOTP(p) = previousTimeStep(c)
    PROVE  c - p < 2 * V
<1>1. V \in Int /\ V > 0
  BY OtpAssumption, SMT DEF V
<1> DEFINE q == generateOTP(p)
           r == generateOTP(t)
           s == generateOTP(c)
<1>2. q \in Int /\ V * q <= p
  BY StepInterval
<1>3. r \in Int /\ t < V * r + V
  BY StepInterval
<1>4. s \in Int /\ c < V * s + V
  BY StepInterval
<1>5. q = r \/ q = s - 1
  BY PreviousStep
<1> HIDE DEF q, r, s
<1>6. CASE q = r
  BY <1>1, <1>2, <1>3, <1>6, SMT
<1>7. CASE q = s - 1
  <2>1. V * q = V * s - V
    BY <1>1, <1>4, <1>7, SMT
  <2>2. QED
    BY <1>1, <1>2, <1>4, <2>1, SMT
<1>8. QED
  BY <1>5, <1>6, <1>7

(* A code printed less than V seconds before t is of the step of t or of   *)
(* the step before.                                                        *)
LEMMA ValidStep ==
    ASSUME NEW p \in Int, NEW t \in Int, p <= t, t - p < V
    PROVE  generateOTP(p) = generateOTP(t) \/ generateOTP(p) = generateOTP(t) - 1
<1>1. V \in Int /\ V > 0
  BY OtpAssumption, SMT DEF V
<1> DEFINE q == generateOTP(p)
           r == generateOTP(t)
<1>2. q \in Int /\ V * q <= p /\ p < V * q + V
  BY StepInterval
<1>3. r \in Int /\ V * r <= t /\ t < V * r + V
  BY StepInterval
<1> HIDE DEF q, r
<1>4. q <= r
  <2>1. V * q < V * r + V
    BY <1>1, <1>2, <1>3, SMT
  <2>2. QED
    BY <2>1, <1>2, <1>3, StepOrder
<1>5. r <= q + 1
  <2>1. V * (q + 1) = V * q + V
    BY <1>1, <1>2, SMT
  <2>2. V * r < V * (q + 1) + V
    BY <1>1, <1>2, <1>3, <2>1, SMT
  <2>3. q + 1 \in Int
    BY <1>2, SMT
  <2>4. QED
    BY <2>2, <2>3, <1>3, StepOrder
<1>6. QED
  BY <1>2, <1>3, <1>4, <1>5, SMT DEF q, r

(* The invariant that carries AcceptedIsRecent: its own conclusion, kept   *)
(* by every step that does not compare.                                    *)
LEMMA RecentStep ==
    Noted /\ AcceptedIsRecent /\ [Next]_vars => AcceptedIsRecent'
<1> SUFFICES ASSUME Noted, AcceptedIsRecent, [Next]_vars,
                    pc' = "verified"
             PROVE  typed' # 0 /\ Age(checked)' < 2 * OTP_VALIDITY_SECONDS
  BY DEF AcceptedIsRecent
<1>1. CASE Tick
  BY <1>1 DEF AcceptedIsRecent, Tick, Age
<1>2. CASE Prompt
  BY <1>2 DEF Prompt
<1>3. ASSUME NEW i \in 0 .. Len(printed), Enter(i)
      PROVE  FALSE
  BY <1>3 DEF Enter
<1>4. CASE Compare
  <2>1. pc = "compare" /\ verifyOTP /\ UNCHANGED <<now, printed, typed, checked>>
    BY <1>4 DEF Compare
  <2>2. typed # 0 /\ Matches
    BY <2>1 DEF verifyOTP
  <2>3. typed \in 1 .. Len(printed) /\ printed \in Seq(Nat)
    BY <2>2, SMT DEF Noted, TypeOK
  <2>4. printed[typed] \in Int /\ checked \in Int /\ now \in Int /\ checked <= now
    BY <2>3, SMT DEF Noted, TypeOK
  <2>5. checked - printed[typed] < 2 * V
    BY <2>2, <2>4, AcceptedAge DEF Matches
  <2>6. QED
    BY <2>1, <2>2, <2>5 DEF Age, V
<1>5. CASE UNCHANGED vars
  BY <1>5 DEF AcceptedIsRecent, vars, Age
<1>6. QED
  BY <1>1, <1>2, <1>3, <1>4, <1>5 DEF Next

(* verifyOTP never accepts a code it is asked about two steps or more      *)
(* after the code was printed.                                             *)
THEOREM NoStaleCode == Spec => []AcceptedIsRecent
<1>1. Init => Noted /\ AcceptedIsRecent
  <2>1. Init => AcceptedIsRecent
    BY DEF Init, AcceptedIsRecent
  <2>2. QED
    BY <2>1, NotedInit
<1>2. Noted /\ AcceptedIsRecent /\ [Next]_vars => (Noted /\ AcceptedIsRecent)'
  BY NotedStep, RecentStep
<1>3. QED
  BY <1>1, <1>2, PTL DEF Spec

(* A valid code is refused only when a step of the clock begins between    *)
(* the two readings verifyOTP makes of it.                                 *)
THEOREM RefusedOnlyAtBoundary == Spec => RefusedAtBoundaryOnly
<1>1. Noted /\ [Next]_vars =>
        [(Refused /\ typed # 0 /\ Age(now) < OTP_VALIDITY_SECONDS)
            => generateOTP(checked) # generateOTP(now)]_vars
  <2> SUFFICES ASSUME Noted, [Next]_vars, Refused, typed # 0,
                      Age(now) < OTP_VALIDITY_SECONDS,
                      generateOTP(checked) = generateOTP(now)
               PROVE  FALSE
    OBVIOUS
  <2>1. typed \in 1 .. Len(printed) /\ printed \in Seq(Nat)
    BY SMT DEF Noted, TypeOK
  <2>2. /\ printed[typed] \in Int /\ checked \in Int /\ now \in Int
        /\ printed[typed] <= now
    BY <2>1, SMT DEF Noted, TypeOK
  <2>3. now - printed[typed] < V
    BY DEF Age, V
  <2>4. \/ generateOTP(printed[typed]) = generateOTP(now)
        \/ generateOTP(printed[typed]) = generateOTP(now) - 1
    BY <2>2, <2>3, ValidStep
  <2>5. previousTimeStep(checked) = generateOTP(now) - 1
    BY <2>2, PreviousStep
  <2>6. verifyOTP
    BY <2>4, <2>5 DEF verifyOTP, Matches
  <2>7. pc = "compare" /\ pc' # "verified" /\ pc' # pc
    BY DEF Refused
  <2>8. Compare
    BY <2>7 DEF Next, Tick, Prompt, Enter, vars
  <2>9. QED
    BY <2>6, <2>7, <2>8 DEF Compare
<1>2. Init => Noted
  BY NotedInit
<1>3. Noted /\ [Next]_vars => Noted'
  BY NotedStep
<1>4. QED
  BY <1>1, <1>2, <1>3, PTL DEF Spec, RefusedAtBoundaryOnly

=============================================================================
