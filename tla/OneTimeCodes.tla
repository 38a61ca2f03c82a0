---------------------------- MODULE OneTimeCodes ----------------------------
(***************************************************************************)
(* The codes that are sent to one telephone or address for one purpose,    *)
(* and the requests that use them: sendOtp, consumeOtp, verifyOtp and      *)
(* resetPassword of apps/api/src/modules/auth/auth.service.ts.             *)
(*                                                                         *)
(* A code is read, its attempts are written back as the number read plus   *)
(* one, it is compared, and it is marked as consumed, in three statements. *)
(***************************************************************************)
EXTENDS Integers, Sequences

CONSTANTS
  Verifiers,     \* requests with a code that run at one time
  OtpMaxAttempts,
  MaxCodes       \* bound: codes that are sent

ASSUME CodesAssumption ==
  /\ OtpMaxAttempts \in Nat \ {0}
  /\ MaxCodes \in Nat

VARIABLES
  codes,     \* the rows of otp_codes, in the order of created_at
  held       \* each request: where it is, its code, the attempts it has read

codesVars == <<codes, held>>

\* tries, accepted and overlapped are history: how often the code was compared
\* and accepted, and whether two requests ever had it in hand at one time.
NewCode == [attempts |-> 0, consumed |-> FALSE, expired |-> FALSE,
            tries |-> 0, accepted |-> 0, overlapped |-> FALSE]

Holds(at, code, attempts) == [at |-> at, code |-> code, attempts |-> attempts]

HoldsNone == Holds("away", 0, 0)

CodesInit ==
  /\ codes = <<>>
  /\ held = [r \in Verifiers |-> HoldsNone]

\* sendOtp, when the limits allow it
SaveCode ==
  /\ Len(codes) < MaxCodes
  /\ codes' = Append(codes, NewCode)
  /\ UNCHANGED held

InHand(n) == \E r \in Verifiers : held[r].code = n

\* consumeOtp: the latest code.
ReadCode(r) ==
  LET n == Len(codes)
  IN  /\ held[r] = HoldsNone
      /\ n > 0
      /\ ~codes[n].consumed /\ ~codes[n].expired /\ codes[n].attempts < OtpMaxAttempts
      /\ held' = [held EXCEPT ![r] = Holds("compare", n, codes[n].attempts)]
      /\ codes' = [codes EXCEPT ![n].overlapped = @ \/ InHand(n)]

\* Mutant of AttemptsAfter: attempts are only counted for the right code.
AttemptsIfRight(r, right) == held[r].attempts + (IF right THEN 1 ELSE 0)

AttemptsAfter(r, right) == held[r].attempts + 1

\* The attempt is written, and then the code is compared.
CompareCode(r, right) ==
  LET n == held[r].code
  IN  /\ held[r].at = "compare"
      /\ held' = [held EXCEPT ![r] = IF right THEN [@ EXCEPT !.at = "consume"] ELSE HoldsNone]
      /\ codes' = [codes EXCEPT ![n].attempts = AttemptsAfter(r, right),
                                ![n].tries = @ + 1]

\* The code is marked, and its owner goes on to a session or a new password.
ConsumeCode(r) ==
  /\ held[r].at = "consume"
  /\ held' = [held EXCEPT ![r] = HoldsNone]
  /\ codes' = [codes EXCEPT ![held[r].code].consumed = TRUE,
                            ![held[r].code].accepted = @ + 1]

VerifierDies(r) ==
  /\ held[r] # HoldsNone
  /\ held' = [held EXCEPT ![r] = HoldsNone]
  /\ UNCHANGED codes

CodeExpires(n) ==
  /\ n \in DOMAIN codes
  /\ ~codes[n].expired
  /\ codes' = [codes EXCEPT ![n].expired = TRUE]
  /\ UNCHANGED held

CodesNext ==
  \/ SaveCode
  \/ \E r \in Verifiers :
       \/ ReadCode(r) \/ (\E right \in BOOLEAN : CompareCode(r, right))
       \/ ConsumeCode(r) \/ VerifierDies(r)
  \/ \E n \in 1..MaxCodes : CodeExpires(n)

CodesSpec == CodesInit /\ [][CodesNext]_codesVars

-----------------------------------------------------------------------------
\* The types of the codes and of what the requests hold.
CodesTypeOK ==
  /\ codes \in Seq([attempts : 0..OtpMaxAttempts, consumed : BOOLEAN, expired : BOOLEAN,
                    tries : Nat, accepted : Nat, overlapped : BOOLEAN])
  /\ held \in [Verifiers -> [at : {"away", "compare", "consume"}, code : 0..Len(codes),
                             attempts : 0..OtpMaxAttempts]]

\* A code opens one session and is tried OtpMaxAttempts times at most, unless
\* two requests had it in hand at the same time.
CodeUsedOnce ==
  \A n \in DOMAIN codes :
    codes[n].overlapped \/ (codes[n].accepted <= 1 /\ codes[n].tries <= OtpMaxAttempts)
=============================================================================
