----------------------------- MODULE MCServices -----------------------------
(***************************************************************************)
(* Small instances of the services around the board.  They share no state: *)
(* a step of one neither reads nor writes what another keeps, so a         *)
(* behaviour of all is an interleaving of a behaviour of each, and an      *)
(* invariant of one holds of all.  A behaviour here is therefore that of   *)
(* one of them, named by `part` and picked at the start.                   *)
(***************************************************************************)
EXTENDS SignIn, TokenCache, Throttle, ClientKey, OAuthFlow, AgentWake, Pages, TLC

CONSTANTS d1, d2, s1, s2, t1, t2, r1, r2

VARIABLE part

signInOwn   == <<login, flows, sessions, pc, who, started, taken, vouched, minted, out>>
cacheOwn    == <<revoked, cache, cachePc, start, lastHit>>
throttleOwn == <<attempts, log>>

Init ==
  /\ SignInInit /\ CacheInit /\ ThrottleInit /\ KeyInit /\ WakeInit /\ PagesInit
  /\ part \in {"sign-in", "cache", "throttle", "key", "flow", "wake", "pages"}
  /\ IF part = "flow" THEN FlowInit ELSE FlowInit /\ web = dns /\ claims = [a \in Account |-> Nil]

Next ==
  /\ UNCHANGED part
  /\ \/ part = "sign-in"  /\ SignInNext
          /\ UNCHANGED <<cacheOwn, throttleOwn, keyVars, flowVars, wakeVars, pagesVars>>
     \/ part = "cache"    /\ CacheNext
          /\ UNCHANGED <<signInOwn, throttleOwn, keyVars, flowVars, wakeVars, pagesVars>>
     \/ part = "throttle" /\ ThrottleNext
          /\ UNCHANGED <<signInOwn, cacheOwn, keyVars, flowVars, wakeVars, pagesVars>>
     \/ part = "key"      /\ KeyNext
          /\ UNCHANGED <<now, signInOwn, cacheOwn, throttleOwn, flowVars, wakeVars, pagesVars>>
     \/ part = "flow"     /\ FlowNext
          /\ UNCHANGED <<now, signInOwn, cacheOwn, throttleOwn, keyVars, wakeVars, pagesVars>>
     \/ part = "wake"     /\ WakeNext
          /\ UNCHANGED <<now, signInOwn, cacheOwn, throttleOwn, keyVars, flowVars, pagesVars>>
     \/ part = "pages"    /\ PagesNext
          /\ UNCHANGED <<now, signInOwn, cacheOwn, throttleOwn, keyVars, flowVars, wakeVars>>

Spec ==
  Init /\ [][Next]_<<part, now, signInOwn, cacheOwn, throttleOwn, keyVars, flowVars, wakeVars,
                     pagesVars>>

\* Accounts, flows, tokens and requests of a sign-in are interchangeable; so are
\* the accounts and the names of a flow, for which an instance takes the values of
\* the accounts and flows of a sign-in: the group stays small.
Swap == Permutations({d1, d2}) \cup Permutations({s1, s2})
          \cup Permutations({t1, t2}) \cup Permutations({r1, r2})
=============================================================================
