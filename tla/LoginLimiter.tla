---------------------------- MODULE LoginLimiter ----------------------------
(***************************************************************************)
(* The two limiters in the memory of the process, for one client address:  *)
(* security.RL, which counts failed logins, and passwordResetRL, which     *)
(* counts requests for a reset link.                                       *)
(*                                                                         *)
(* Both keep the times of the attempts of the last window.  Here an        *)
(* attempt is its age, so that time need not be bounded; the ages are      *)
(* those of the slice, oldest first.  The login handler asks IsBlocked     *)
(* before it looks at the password and calls Register after it, two        *)
(* critical sections with a password hash in between; the reset limiter    *)
(* checks and records in one.                                              *)
(*                                                                         *)
(* A definition that stands right before another one with its parameters   *)
(* and is not used is a plausible bug of the code, as in UserSession.      *)
(***************************************************************************)
EXTENDS Integers, Sequences, FiniteSets

CONSTANTS
  Workers,          \* login requests of this address under way at a time
  LimitCount,       \* failures that block the address (5 in the code)
  LimitWindow,      \* how long a failure counts (5 minutes)
  ResetLimitCount,  \* passwordResetLimitCount (3 in the code)
  ResetLimitWindow  \* passwordResetLimitWindow (15 minutes)

\* The limits and windows are positive numbers, and so many requests are finite.
LimitsOK ==
  /\ {LimitCount, LimitWindow, ResetLimitCount, ResetLimitWindow} \subseteq Nat \ {0}
  /\ IsFiniteSet(Workers)

VARIABLES
  attempts,   \* RL.attempts of the address, as ages
  resets,     \* passwordResetRL.attempts of the address, as ages
  verifying   \* workers between IsBlocked and the outcome of the login

vars == <<attempts, resets, verifying>>

-----------------------------------------------------------------------------
(* Helpers *)

\* clean: what is not in the window any more is dropped, by every operation,
\* before it looks.
Clean(ages, window) ==
  LET v[i \in 0..Len(ages)] ==
        IF i = 0 THEN <<>>
        ELSE IF ages[i] < window THEN Append(v[i - 1], ages[i]) ELSE v[i - 1]
  IN v[Len(ages)]

Fresh == Clean(attempts, LimitWindow)

IsBlockedLate == Len(Fresh) > LimitCount
IsBlocked == Len(Fresh) >= LimitCount

\* How long the address is said to stay blocked.
RetryAfterNewest == IF Len(Fresh) < LimitCount THEN 0 ELSE LimitWindow - Fresh[Len(Fresh)]
RetryAfter == IF Len(Fresh) < LimitCount THEN 0 ELSE LimitWindow - Fresh[1]

\* An age beyond the window is as good as one at its end.
Older(ages, window) == [i \in DOMAIN ages |-> IF ages[i] < window THEN ages[i] + 1 ELSE window]

\* RetryAfter goes by the first attempt as the oldest one.
OldestFirst(ages) == \A i, j \in DOMAIN ages : i < j => ages[i] >= ages[j]

TypeOK ==
  /\ attempts \in Seq(0..LimitWindow) /\ OldestFirst(attempts)
  /\ resets \in Seq(0..ResetLimitWindow) /\ OldestFirst(resets)
  /\ verifying \subseteq Workers

-----------------------------------------------------------------------------
(* Logging in *)

LoginPostCountsRefused(w) ==
  /\ w \notin verifying
  /\ attempts' = IF IsBlocked THEN Append(Tail(Fresh), 0) ELSE Fresh
  /\ verifying' = IF IsBlocked THEN verifying ELSE verifying \cup {w}
  /\ UNCHANGED resets
\* LoginPost, for a password or for a second factor: a blocked address is told
\* so before anything is looked at, and that is not counted.
LoginPost(w) ==
  /\ w \notin verifying
  /\ attempts' = Fresh
  /\ verifying' = IF IsBlocked THEN verifying ELSE verifying \cup {w}
  /\ UNCHANGED resets

RegisterFirst(w) ==
  /\ w \in verifying
  /\ attempts' = <<0>> \o Fresh
  /\ verifying' = verifying \ {w}
  /\ UNCHANGED resets
\* The password or the code was wrong: Register, then Left for the message.
Register(w) ==
  /\ w \in verifying
  /\ attempts' = Append(Fresh, 0)
  /\ verifying' = verifying \ {w}
  /\ UNCHANGED resets

\* completeLogin.
Clear(w) ==
  /\ w \in verifying
  /\ attempts' = <<>>
  /\ verifying' = verifying \ {w}
  /\ UNCHANGED resets

\* The form is out of date, the account disabled, a second factor due, or the
\* request comes to nothing.
Uncounted(w) ==
  /\ w \in verifying
  /\ verifying' = verifying \ {w}
  /\ UNCHANGED <<attempts, resets>>

\* completeLogin of an OIDC login, which asks no limiter, and unblock_ip.
ClearedElsewhere ==
  /\ attempts # <<>>
  /\ attempts' = <<>>
  /\ UNCHANGED <<resets, verifying>>

-----------------------------------------------------------------------------
(* Asking for a reset link *)

HasRoomLate(fresh) == Len(fresh) <= ResetLimitCount
HasRoom(fresh) == Len(fresh) < ResetLimitCount

\* passwordResetAllowed: the check and the record under one lock, whatever the
\* request comes to.
PasswordResetAllowed ==
  /\ LET fresh == Clean(resets, ResetLimitWindow) IN
       resets' = IF HasRoom(fresh) THEN Append(fresh, 0) ELSE fresh
  /\ UNCHANGED <<attempts, verifying>>

-----------------------------------------------------------------------------
(* Time and restarts *)

Tick ==
  /\ attempts' = Older(attempts, LimitWindow)
  /\ resets' = Older(resets, ResetLimitWindow)
  /\ UNCHANGED verifying

\* Both limiters are in memory only.
Restart ==
  /\ vars # <<<<>>, <<>>, {}>>
  /\ attempts' = <<>> /\ resets' = <<>> /\ verifying' = {}

-----------------------------------------------------------------------------
(* The specification *)

Init == attempts = <<>> /\ resets = <<>> /\ verifying = {}

Next ==
  \/ \E w \in Workers : LoginPost(w) \/ Register(w) \/ Clear(w) \/ Uncounted(w)
  \/ ClearedElsewhere \/ PasswordResetAllowed \/ Tick \/ Restart

Spec == Init /\ [][Next]_vars

\* Time goes on; nothing is assumed of the clients.
FairSpec == Spec /\ WF_vars(Tick)

-----------------------------------------------------------------------------
(* Properties *)

\* "5 failed attempts from the same IP ... block that IP" is exceeded by the
\* logins that passed IsBlocked together, and by no more than those.
FailuresBounded == Len(Fresh) + Cardinality(verifying) < LimitCount + Cardinality(Workers)

\* The reset limiter is exact, however many requests there are at a time.
ResetsBounded == Len(resets) <= ResetLimitCount

\* "The block lifts as soon as attempts age out of the window": an address that
\* goes on trying while it is blocked does not stay blocked.
BlockLifts == IsBlocked ~> ~IsBlocked

\* "RetryAfter returns how long ip stays blocked": with no further attempt the
\* address is blocked for exactly that long.  With more failures on file than the
\* limit, which logins that passed IsBlocked together can leave, it is longer.
StillBlocked(after) == Len(Clean(Fresh, LimitWindow - after)) >= LimitCount

RetryAfterExact ==
  IsBlocked /\ Len(Fresh) = LimitCount => StillBlocked(RetryAfter - 1) /\ ~StillBlocked(RetryAfter)
=============================================================================
