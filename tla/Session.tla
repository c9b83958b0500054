------------------------------ MODULE Session ------------------------------
(***************************************************************************)
(* The login session of an installed system (kernel/session.c): the        *)
(* identity of process 1, the count of failed attempts and the window in   *)
(* which further attempts are refused unseen.  Only process 1 may make     *)
(* these calls.  Passwords are abstracted to right and wrong ones.         *)
(***************************************************************************)
EXTENDS Integers

CONSTANTS Frequency,  \* ticks per second of the timer
          MaxFailed,  \* bound: failed attempts in a row
          MaxTick     \* bound: ticks after boot

ASSUME FrequencyAssumption == Frequency \in Nat \ {0}
ASSUME BoundsAssumption == MaxFailed \in Nat /\ MaxTick \in Nat

VARIABLES
  now,               \* timer_get_ticks()
  uid,               \* identity of process 1
  failed_attempts,
  retry_after_tick,
  autologin,         \* the autologin line of etc/aos-system.conf
  since              \* history: when failed_attempts was last reset

sessionVars == <<now, uid, failed_attempts, retry_after_tick, autologin, since>>

SessionTypeOK ==
  /\ now \in 0 .. MaxTick
  /\ uid \in {"login", "user"}
  /\ failed_attempts \in 0 .. MaxFailed
  /\ retry_after_tick \in 0 .. MaxTick + 10 * Frequency
  /\ autologin \in BOOLEAN
  /\ since \in Nat

\* session_prepare_boot_identity
SessionInit ==
  /\ now = 0
  /\ uid = "login"
  /\ failed_attempts = 0 /\ retry_after_tick = 0
  /\ autologin \in BOOLEAN
  /\ since = 0

\* Mutant of RetrySeconds: rounds down.
RetrySecondsDown ==
  IF now >= retry_after_tick THEN 0 ELSE (retry_after_tick - now) \div Frequency

\* retry_seconds: rounded up to whole seconds.
RetrySeconds ==
  IF now >= retry_after_tick THEN 0
  ELSE (retry_after_tick - now + Frequency - 1) \div Frequency

\* Mutant of Delay: the same for every attempt.
DelayConstant(failed) == IF failed < 3 THEN 0 ELSE 2

\* The seconds to wait after a number of failed attempts.
Delay(failed) ==
  IF failed < 3 THEN 0 ELSE IF failed - 1 > 10 THEN 10 ELSE failed - 1

-----------------------------------------------------------------------------
\* The timer interrupt.
Tick ==
  /\ now < MaxTick
  /\ now' = now + 1
  /\ UNCHANGED <<uid, failed_attempts, retry_after_tick, autologin, since>>

\* failed_attempts and retry_after_tick are cleared.
Reset ==
  /\ failed_attempts' = 0 /\ retry_after_tick' = 0
  /\ since' = now

\* session_login up to the comparison of the password: process 1 shows the
\* login screen and no retry window is open.
MayTry == uid = "login" /\ RetrySeconds = 0

\* session_login with a wrong user name or password.
LoginWrong ==
  /\ MayTry
  /\ failed_attempts < MaxFailed
  /\ failed_attempts' = failed_attempts + 1
  /\ retry_after_tick' = IF failed_attempts' >= 3
                         THEN now + Frequency * Delay(failed_attempts')
                         ELSE retry_after_tick
  /\ UNCHANGED <<now, uid, autologin, since>>

\* session_login with the right password (begin_user_session).
LoginRight ==
  /\ MayTry
  /\ uid' = "user" /\ Reset
  /\ UNCHANGED <<now, autologin>>

\* session_autologin asks for no password and looks at no window.
Autologin ==
  /\ uid = "login" /\ autologin
  /\ uid' = "user" /\ Reset
  /\ UNCHANGED <<now, autologin>>

\* session_logout.  The user's processes are ended (module Process).
Logout ==
  /\ uid = "user"
  /\ uid' = "login" /\ Reset
  /\ UNCHANGED <<now, autologin>>

\* The configuration file is edited during a session; the flag is read from it
\* at every request (config_flag).
Configure ==
  /\ uid = "user"
  /\ autologin' = ~autologin
  /\ UNCHANGED <<now, uid, failed_attempts, retry_after_tick, since>>

SessionNext == Tick \/ LoginWrong \/ LoginRight \/ Autologin \/ Logout \/ Configure

SessionSpec == SessionInit /\ [][SessionNext]_sessionVars

-----------------------------------------------------------------------------
(***************************************************************************)
(* Properties.                                                             *)
(***************************************************************************)
\* The delay is capped at ten seconds (docs/session-manager.md): whatever was
\* tried before, the login screen never has to wait longer.
DelayCapped == retry_after_tick - now <= 10 * Frequency

\* What session_login reports in retry_after_seconds is enough to wait for the
\* next attempt to be accepted, and less than a second too long.
ReportedDelayExact ==
  retry_after_tick > now =>
    /\ now + Frequency * RetrySeconds >= retry_after_tick
    /\ now + Frequency * (RetrySeconds - 1) < retry_after_tick

\* The seconds that must have passed at the login screen before attempt n + 1
\* when each of n failures costs its delay: 2, 3, ... from the third on, and ten
\* from the eleventh on.
Paid(n) ==
  IF n < 3 THEN 0
  ELSE IF n <= 11 THEN (n * (n - 1)) \div 2 - 1
  ELSE 54 + 10 * (n - 11)

\* Guessing is slow over the whole history of a login screen, not just between
\* two attempts: the window that is open after n failures ends no earlier than
\* all n delays together after the counter was last reset.
GuessingIsSlow ==
  failed_attempts >= 3 =>
    retry_after_tick >= since + Frequency * Paid(failed_attempts)
=============================================================================
