------------------------------ MODULE Throttle ------------------------------
(***************************************************************************)
(* The throttle of password sign-in: _throttle                             *)
(* (backend/app/password_auth.py), a sliding window per identifier kept in *)
(* a dictionary that is cleaned up when it gets large.  The function has   *)
(* no await, so a call is one step.                                        *)
(***************************************************************************)
EXTENDS Clock, Sequences, FiniteSets

CONSTANTS Identifier,       \* handles, e-mail addresses and DIDs typed in
          Window,           \* _ATTEMPT_WINDOW_S
          MaxAttempts,      \* _MAX_ATTEMPTS
          MaxKeys,          \* the size above which the dictionary is cleaned
          ThrottleHorizon   \* bound: the clock stops

ASSUME ThrottleAssumption ==
  /\ Window \in Nat \ {0} /\ MaxAttempts \in Nat \ {0}
  /\ MaxKeys \in Nat /\ ThrottleHorizon \in Nat

VARIABLES attempts,  \* _attempts: the hits kept for each identifier, <<>> if no key
          log        \* history: every attempt let through

throttleVars == <<now, attempts, log>>

\* The hits that still count.  The clock is monotonic and hits are appended: they
\* are the end of the list.
Recent(hits) ==
  LET first == CHOOSE k \in 1..Len(hits) + 1 :
                 /\ \A j \in 1..k - 1 : now - hits[j] >= Window
                 /\ k <= Len(hits) => now - hits[k] < Window
  IN  SubSeq(hits, first, Len(hits))

Keys(table) == { i \in Identifier : table[i] # <<>> }

Last(hits) == hits[Len(hits)]

\* Slip: an identifier is dropped when its oldest hit has gone stale.
CleanedByFirst(table) ==
  [i \in Identifier |->
     IF table[i] # <<>> /\ now - Head(table[i]) > Window THEN <<>> ELSE table[i]]

\* The cleanup drops the identifiers whose newest hit has gone stale.
Cleaned(table) ==
  [i \in Identifier |->
     IF table[i] # <<>> /\ now - Last(table[i]) > Window THEN <<>> ELSE table[i]]

\* Slip: the window is not looked at, only the list.
BlockedForGood(i) == Len(attempts[i]) >= MaxAttempts

\* Too many attempts: nothing is recorded, so being refused does not prolong it.
Blocked(i) == Len(Recent(attempts[i])) >= MaxAttempts

Attempt(i) ==
  /\ ~Blocked(i)
  /\ LET table == [attempts EXCEPT ![i] = Append(Recent(@), now)]
     IN  attempts' = IF Cardinality(Keys(table)) > MaxKeys THEN Cleaned(table) ELSE table
  /\ log' = [log EXCEPT ![i] = Append(@, now)]
  /\ UNCHANGED now

\* The server restarts with an empty dictionary; the count starts again.
ThrottleRestart ==
  /\ attempts' = [i \in Identifier |-> <<>>]
  /\ log' = [i \in Identifier |-> <<>>]
  /\ UNCHANGED now

ThrottleTick == Passes(ThrottleHorizon) /\ UNCHANGED <<attempts, log>>

ThrottleInit ==
  /\ now = 0
  /\ attempts = [i \in Identifier |-> <<>>]
  /\ log = [i \in Identifier |-> <<>>]

ThrottleNext == (\E i \in Identifier : Attempt(i)) \/ ThrottleRestart \/ ThrottleTick

ThrottleSpec == ThrottleInit /\ [][ThrottleNext]_throttleVars
-----------------------------------------------------------------------------
(* The inductive invariant: what the list of an identifier tells of its    *)
(* past, when others may have had it thrown away.                          *)

ThrottleTypeOK ==
  /\ now \in Nat
  /\ attempts \in [Identifier -> Seq(Nat)] /\ log \in [Identifier -> Seq(Nat)]

\* Attempts are logged in the order of time.
Sorted(past) ==
  \A k \in 1..Len(past) : past[k] <= now /\ \A j \in 1..k : past[j] <= past[k]

\* A list is the end of its log, and what it lacks has gone stale.
EndOf(past, hits) ==
  /\ Len(hits) <= Len(past)
  /\ \A k \in 1..Len(hits) : hits[k] = past[Len(past) - Len(hits) + k]
  /\ \A k \in 1..Len(past) - Len(hits) : now - past[k] >= Window

\* An attempt and the MaxAttempts-th after it are a window apart.
Spaced(past) ==
  \A k \in 1..Len(past) - MaxAttempts : past[k + MaxAttempts] - past[k] >= Window

ListsAreTrue ==
  \A i \in Identifier : Sorted(log[i]) /\ EndOf(log[i], attempts[i]) /\ Spaced(log[i])

ThrottleInv == ThrottleTypeOK /\ ListsAreTrue

\* In no stretch of Window seconds are more than MaxAttempts attempts on one
\* identifier let through to the PDS (password_auth.py:51-53), although the
\* cleanup a different identifier triggers throws lists away.
WindowBound ==
  \A i \in Identifier, t \in 0..now :
    Cardinality({ k \in DOMAIN log[i] : log[i][k] <= t /\ t - log[i][k] < Window })
      <= MaxAttempts

\* Nobody is locked out by anyone else, or longer than the window: an identifier
\* is refused only when MaxAttempts attempts on it were let through in the last
\* Window seconds.
LockedOutOnlyByOwnAttempts ==
  \A i \in Identifier :
    Blocked(i) =>
      Cardinality({ k \in DOMAIN log[i] : now - log[i][k] < Window }) >= MaxAttempts
=============================================================================
