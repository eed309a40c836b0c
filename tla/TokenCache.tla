----------------------------- MODULE TokenCache -----------------------------
(***************************************************************************)
(* The cache of bsky-mcp tokens: validate_token (backend/app/auth.py).     *)
(* Entries of different tokens do not touch each other, so the module      *)
(* follows one token: the requests that present it, the calls to bsky-mcp  *)
(* they make, and the moment bsky-mcp revokes it.                          *)
(***************************************************************************)
EXTENDS Clock

CONSTANTS Lookup,       \* concurrent requests with the token
          CacheTtl,     \* _AUTH_CACHE_TTL_S
          CacheHorizon  \* bound: the clock stops

ASSUME CacheAssumption == CacheTtl \in Nat \ {0} /\ CacheHorizon \in Nat

Never == -1

VARIABLES revoked,  \* when bsky-mcp revoked the token, or Never
          cache,    \* when the cached answer was asked for, or Never
          cachePc, start, \* each request: where it stands, the clock it read first
          lastHit   \* history: when the cache last let a request through, or Never

cacheVars == <<now, revoked, cache, cachePc, start, lastHit>>

\* Slip: an entry as old as the TTL is still taken.
HitToTheEnd(r) ==
  /\ cachePc[r] = "idle"
  /\ cache # Never
  /\ now - cache <= CacheTtl
  /\ lastHit' = now
  /\ UNCHANGED <<now, revoked, cache, cachePc, start>>

\* The entry is there and young enough: the request is let through.
Hit(r) ==
  /\ cachePc[r] = "idle"
  /\ cache # Never
  /\ now - cache < CacheTtl
  /\ lastHit' = now
  /\ UNCHANGED <<now, revoked, cache, cachePc, start>>

\* No entry, or an old one: bsky-mcp is asked.
Miss(r) ==
  /\ cachePc[r] = "idle"
  /\ cache = Never \/ now - cache >= CacheTtl
  /\ cachePc' = [cachePc EXCEPT ![r] = "asking"]
  /\ start' = [start EXCEPT ![r] = now]
  /\ UNCHANGED <<now, revoked, cache, lastHit>>

\* bsky-mcp looks at the token; its answer is on its way.
Vouch(r) ==
  /\ cachePc[r] = "asking"
  /\ revoked = Never
  /\ cachePc' = [cachePc EXCEPT ![r] = "vouched"]
  /\ UNCHANGED <<now, revoked, cache, start, lastHit>>

\* AuthError: revoked, unreachable or malformed.  The entry stays as it is.
Deny(r) ==
  /\ cachePc[r] \in {"asking", "vouched"}
  /\ cachePc' = [cachePc EXCEPT ![r] = "idle"]
  /\ UNCHANGED <<now, revoked, cache, start, lastHit>>

\* Slip: stamped with the time of the answer.
StoreLate(r) ==
  /\ cachePc[r] = "vouched"
  /\ cache' = now
  /\ cachePc' = [cachePc EXCEPT ![r] = "idle"]
  /\ UNCHANGED <<now, revoked, start, lastHit>>

\* The answer arrives and is stored under the time the question was asked,
\* over whatever a quicker request stored meanwhile.
Store(r) ==
  /\ cachePc[r] = "vouched"
  /\ cache' = start[r]
  /\ cachePc' = [cachePc EXCEPT ![r] = "idle"]
  /\ UNCHANGED <<now, revoked, start, lastHit>>

Revoke ==
  /\ revoked = Never
  /\ revoked' = now
  /\ UNCHANGED <<now, cache, cachePc, start, lastHit>>

\* A restart: the cache is in memory.
CacheRestart ==
  /\ cache' = Never
  /\ cachePc' = [r \in Lookup |-> "idle"]
  /\ UNCHANGED <<now, revoked, start, lastHit>>

CacheTick ==
  /\ Passes(CacheHorizon)
  /\ UNCHANGED <<revoked, cache, cachePc, start, lastHit>>

CacheInit ==
  /\ now = 0
  /\ revoked = Never
  /\ cache = Never
  /\ cachePc = [r \in Lookup |-> "idle"]
  /\ start = [r \in Lookup |-> 0]
  /\ lastHit = Never

Validate(r) == Hit(r) \/ Miss(r) \/ Vouch(r) \/ Deny(r) \/ Store(r)

CacheNext == (\E r \in Lookup : Validate(r)) \/ Revoke \/ CacheRestart \/ CacheTick

CacheSpec == CacheInit /\ [][CacheNext]_cacheVars
-----------------------------------------------------------------------------
\* Revocation takes hold within the TTL (auth.py:137-151): the cache lets
\* nobody through once the token has been revoked for CacheTtl seconds, however
\* slow the calls that filled it were and in whatever order they returned.
RevocationTakesHold == revoked # Never => lastHit < revoked + CacheTtl

\* Its inductive strengthening: an answer in flight or in the cache was asked
\* for before the token was revoked.
CacheInv ==
  /\ now \in Nat /\ revoked \in Nat \cup {Never} /\ cache \in Nat \cup {Never}
  /\ lastHit \in Nat \cup {Never}
  /\ cachePc \in [Lookup -> {"idle", "asking", "vouched"}]
  /\ start \in [Lookup -> Nat]
  /\ lastHit <= now /\ revoked <= now /\ cache <= now
  /\ \A r \in Lookup : start[r] <= now
  /\ revoked # Never =>
       /\ cache <= revoked
       /\ \A r \in Lookup : cachePc[r] = "vouched" => start[r] <= revoked
  /\ RevocationTakesHold
=============================================================================
