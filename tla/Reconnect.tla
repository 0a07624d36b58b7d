----------------------------- MODULE Reconnect -----------------------------
(***************************************************************************)
(* The reconnect loop of tunnel-client's main: how a session ended decides *)
(* how long the client waits before the next one.  Delays are in seconds.  *)
(***************************************************************************)
EXTENDS Integers, FiniteSetsExt

CONSTANTS
  BackoffMin,   \* cfg.backoff_min (1 s)
  BackoffMax,   \* cfg.backoff_max (30 s)
  MaxSessions   \* bound: sessions in a behaviour

ASSUME BackoffAssumption ==
  BackoffMin \in Nat \ {0} /\ BackoffMax \in Nat /\ BackoffMin <= BackoffMax
ASSUME MaxSessionsAssumption == MaxSessions \in Nat \ {0}

VARIABLES
  loop,      \* "session": in run_session; "sleep": in sleep(backoff)
  backoff,   \* the delay after the next error
  slept,     \* the delay before the current session, or being slept
  sessions,  \* sessions started
  chain,     \* errors since the last reset of the backoff
  last       \* how the previous session ended

reconnectVars == <<loop, backoff, slept, sessions, chain, last>>

(* "refused": tunnel-server turned the client down (no_handshake, unknown  *)
(* spoke, bad token, bind error).  It only ends its response stream, which *)
(* the client cannot tell from an orderly end.                             *)
CleanEnds == {"refused", "ended"}

ReconnectTypeOK ==
  /\ loop \in {"session", "sleep"}
  /\ backoff \in BackoffMin..BackoffMax
  /\ slept \in 0..BackoffMax
  /\ sessions \in 1..MaxSessions
  /\ chain \in 0..MaxSessions
  /\ last \in CleanEnds \cup {"none", "failed"}

ReconnectInit ==
  /\ loop = "session" /\ sessions = 1
  /\ backoff = BackoffMin
  /\ slept = 0 /\ chain = 0 /\ last = "none"

(* The stream ended without an error: reset, and reconnect at once.        *)
EndedCleanly(how) ==
  /\ loop = "session" /\ sessions < MaxSessions
  /\ backoff' = BackoffMin
  /\ slept' = 0 /\ chain' = 0 /\ last' = how
  /\ sessions' = sessions + 1
  /\ UNCHANGED loop

Doubled(b) == Min({BackoffMax, b * 2})

(* Mutant: a long session does not reset the backoff.                      *)
Failed_NoReset(long) ==
  /\ loop = "session"
  /\ slept' = backoff
  /\ backoff' = Doubled(backoff)
  /\ chain' = (IF long THEN 1 ELSE chain + 1)
  /\ loop' = "sleep" /\ last' = "failed"
  /\ UNCHANGED sessions

(* The session failed.  One that lasted ten seconds or more resets the     *)
(* backoff first; either way the client sleeps and doubles the delay.      *)
Failed(long) ==
  LET delay == IF long THEN BackoffMin ELSE backoff IN
  /\ loop = "session"
  /\ slept' = delay
  /\ backoff' = Doubled(delay)
  /\ chain' = (IF long THEN 1 ELSE chain + 1)
  /\ loop' = "sleep" /\ last' = "failed"
  /\ UNCHANGED sessions

Wake ==
  /\ loop = "sleep" /\ sessions < MaxSessions
  /\ loop' = "session"
  /\ sessions' = sessions + 1
  /\ UNCHANGED <<backoff, slept, chain, last>>

ReconnectNext ==
  \/ \E how \in CleanEnds : EndedCleanly(how)
  \/ \E long \in BOOLEAN : Failed(long)
  \/ Wake

ReconnectSpec == ReconnectInit /\ [][ReconnectNext]_reconnectVars

-----------------------------------------------------------------------------
(* Properties                                                              *)

(* 2^n, as a recursive function.                                           *)
PowerOfTwo[n \in Nat] == IF n = 0 THEN 1 ELSE 2 * PowerOfTwo[n - 1]

(* "Only chains of quick failures grow the delay": the n-th error of a     *)
(* chain is followed by a sleep of min * 2^(n-1) seconds, capped, and a    *)
(* clean end or a long session starts a new chain.                         *)
DelayIsExponential ==
  loop = "sleep" => slept = Min({BackoffMax, BackoffMin * PowerOfTwo[chain - 1]})

(* "Reconnects automatically with exponential backoff when the stream goes *)
(* down": a client that was turned down waits before it tries again.       *)
RefusalBacksOff ==
  (loop = "session" /\ last = "refused") => slept >= BackoffMin
=============================================================================
