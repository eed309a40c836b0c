---------------------------- MODULE ServiceProofs ---------------------------
(***************************************************************************)
(* The client key: for any number of callers and keys, all callers are     *)
(* told one key, and the three statements of get_or_create_client_jwk      *)
(* implement a register that is written once.                              *)
(*                                                                         *)
(* The token cache: for any number of concurrent requests and any TTL, a   *)
(* revoked token is let through by the cache for less than the TTL.        *)
(*                                                                         *)
(* The throttle: for any number of identifiers, any window and any limit,  *)
(* the limit holds in every window, and only the attempts on an identifier *)
(* lock it out.                                                            *)
(*                                                                         *)
(* The wake-up of agents: for any number of texts, tags, agents and        *)
(* requests, a mention is about a tag that was stored and the only one for *)
(* it, and no tag is missed but for a sender who is gone or a restart.     *)
(***************************************************************************)
EXTENDS ClientKey, TokenCache, Throttle, AgentWake, FiniteSetTheorems, TLAPS

-----------------------------------------------------------------------------
(* The client key *)

LEMMA KeyInitInvariant == KeyInit => KeyInv
BY DEF KeyInit, KeyInv

\* Every step of a call keeps the invariant.
LEMMA KeyStepInvariant == KeyInv /\ [KeyNext]_keyVars => KeyInv'
<1> USE KeyAssumption
<1> SUFFICES ASSUME KeyInv, [KeyNext]_keyVars PROVE KeyInv'
  OBVIOUS
<1>1. CASE UNCHANGED keyVars
  BY <1>1 DEF KeyInv, keyVars
<1>2. ASSUME NEW c \in Caller, FirstRead(c) PROVE KeyInv'
  BY <1>2 DEF KeyInv, FirstRead
<1>3. ASSUME NEW c \in Caller, NEW k \in Key, Insert(c, k) PROVE KeyInv'
  <2>1. CASE jwk = NoKey
    BY <1>3, <2>1 DEF KeyInv, Insert
  <2>2. CASE jwk # NoKey
    BY <1>3, <2>2 DEF KeyInv, Insert
  <2> QED
    BY <2>1, <2>2
<1>4. ASSUME NEW c \in Caller, SecondRead(c) PROVE KeyInv'
  BY <1>4 DEF KeyInv, SecondRead
<1>5. ASSUME NEW c \in Caller, CallFails(c) PROVE KeyInv'
  BY <1>5 DEF KeyInv, CallFails
<1> QED
  BY <1>1, <1>2, <1>3, <1>4, <1>5 DEF KeyNext, Call

\* The inductive invariant.
THEOREM KeyInvariant == KeySpec => []KeyInv
BY KeyInitInvariant, KeyStepInvariant, PTL DEF KeySpec

\* "Racing callers are fine" (db.py:310-312), for every number of them.
THEOREM CallersAgree == KeySpec => []Agreement
<1>1. KeyInv => Agreement
  BY DEF KeyInv, Agreement
<1> QED
  BY <1>1, KeyInvariant, PTL

\* A call's steps are the register's: the INSERT that finds no row decides, a
\* SELECT that finds one tells, everything else is a stutter.
LEMMA StepRefines == KeyInv /\ KeyInv' /\ [KeyNext]_keyVars => [Register!Next]_(Register!vars)
<1> USE KeyAssumption
<1> SUFFICES ASSUME KeyInv, KeyInv', [KeyNext]_keyVars PROVE [Register!Next]_(Register!vars)
  OBVIOUS
<1>1. CASE UNCHANGED keyVars
  BY <1>1 DEF keyVars, Register!vars
<1>2. ASSUME NEW c \in Caller, FirstRead(c) PROVE [Register!Next]_(Register!vars)
  <2>1. CASE jwk # NoKey
    BY <1>2, <2>1 DEF FirstRead, Register!Next, Register!Tell
  <2>2. CASE jwk = NoKey
    BY <1>2, <2>2 DEF FirstRead, Register!vars
  <2> QED
    BY <2>1, <2>2
<1>3. ASSUME NEW c \in Caller, NEW k \in Key, Insert(c, k)
      PROVE  [Register!Next]_(Register!vars)
  <2>1. CASE jwk = NoKey
    BY <1>3, <2>1 DEF Insert, Register!Next, Register!Decide
  <2>2. CASE jwk # NoKey
    BY <1>3, <2>2 DEF Insert, Register!vars
  <2> QED
    BY <2>1, <2>2
<1>4. ASSUME NEW c \in Caller, SecondRead(c) PROVE [Register!Next]_(Register!vars)
  <2>1. jwk # NoKey /\ jwk' = jwk
    BY <1>4 DEF KeyInv, SecondRead
  <2> QED
    BY <1>4, <2>1 DEF SecondRead, Register!Next, Register!Tell
<1>5. ASSUME NEW c \in Caller, CallFails(c) PROVE [Register!Next]_(Register!vars)
  BY <1>5 DEF CallFails, Register!vars
<1> QED
  BY <1>1, <1>2, <1>3, <1>4, <1>5 DEF KeyNext, Call

\* The key is written once and told to all, whatever races and fails.
THEOREM KeyRefinesRegister == KeySpec => RefinesWriteOnce
<1>1. KeyInit => Register!Init
  BY DEF KeyInit, Register!Init
<1> QED
  BY <1>1, StepRefines, KeyInvariant, PTL DEF KeySpec, RefinesWriteOnce, Register!Spec

-----------------------------------------------------------------------------
(* The token cache *)

LEMMA CacheInitInvariant == CacheInit => CacheInv
BY DEF CacheInit, CacheInv, Never, RevocationTakesHold

\* A hit needs an entry younger than CacheTtl, and an entry was asked for before the
\* revocation; a stored answer was.
LEMMA CacheStepInvariant == CacheInv /\ [CacheNext]_cacheVars => CacheInv'
<1> USE CacheAssumption DEF CacheInv, Never, RevocationTakesHold
<1> SUFFICES ASSUME CacheInv, [CacheNext]_cacheVars PROVE CacheInv'
  OBVIOUS
<1>1. CASE UNCHANGED cacheVars
  BY <1>1 DEF cacheVars
<1>2. ASSUME NEW r \in Lookup, Hit(r) PROVE CacheInv'
  BY <1>2 DEF Hit
<1>3. ASSUME NEW r \in Lookup, Miss(r) PROVE CacheInv'
  BY <1>3 DEF Miss
<1>4. ASSUME NEW r \in Lookup, Vouch(r) PROVE CacheInv'
  BY <1>4 DEF Vouch
<1>5. ASSUME NEW r \in Lookup, Deny(r) PROVE CacheInv'
  BY <1>5 DEF Deny
<1>6. ASSUME NEW r \in Lookup, Store(r) PROVE CacheInv'
  BY <1>6 DEF Store
<1>7. CASE Revoke
  BY <1>7 DEF Revoke
<1>8. CASE CacheRestart
  BY <1>8 DEF CacheRestart
<1>9. CASE CacheTick
  BY <1>9 DEF CacheTick, Passes
<1> QED
  BY <1>1, <1>2, <1>3, <1>4, <1>5, <1>6, <1>7, <1>8, <1>9 DEF CacheNext, Validate

\* The inductive invariant of the cache.
THEOREM CacheInvariant == CacheSpec => []CacheInv
BY CacheInitInvariant, CacheStepInvariant, PTL DEF CacheSpec

\* The cache honours a revocation within the TTL (auth.py:137-151), for every
\* number of requests and every delay of bsky-mcp.
THEOREM RevocationHolds == CacheSpec => []RevocationTakesHold
<1>1. CacheInv => RevocationTakesHold
  BY DEF CacheInv
<1> QED
  BY <1>1, CacheInvariant, PTL

-----------------------------------------------------------------------------
(* The throttle *)

\* A set of numbers has a least one.
NatLess == { ss \in Nat \X Nat : ss[1] < ss[2] }

LEMMA LeastNumber ==
  ASSUME NEW T \in SUBSET Nat, T # {}
  PROVE  \E k \in T : \A y \in T : k <= y
<1>1. IsWellFoundedOn(NatLess, Nat)
  BY NatLessThanWellFounded DEF OpToRel, NatLess
<1>2. PICK k \in T : \A y \in T : ~ (<<y, k>> \in NatLess)
  BY <1>1, WFMin
<1>3. \A y \in T : k <= y
  <2> SUFFICES ASSUME NEW y \in T, y < k PROVE FALSE
    OBVIOUS
  <2>1. <<y, k>> \in Nat \X Nat
    OBVIOUS
  <2>2. <<y, k>>[1] < <<y, k>>[2]
    OBVIOUS
  <2>3. <<y, k>> \in NatLess
    BY <2>1, <2>2, Zenon DEF NatLess
  <2> QED
    BY <1>2, <2>3
<1> QED
  BY <1>3

\* Where the hits that still count begin.
IsFirst(hits, k) ==
  /\ k \in 1..Len(hits) + 1
  /\ \A j \in 1..k - 1 : now - hits[j] >= Window
  /\ k <= Len(hits) => now - hits[k] < Window

LEMMA FirstExists ==
  ASSUME now \in Nat, NEW hits \in Seq(Nat)
  PROVE  \E k : IsFirst(hits, k)
<1> USE ThrottleAssumption DEF IsFirst
<1> DEFINE T == { k \in Nat : k \in 1..Len(hits) /\ now - hits[k] < Window }
<1>1. CASE T = {}
  <2>1. \A j \in 1..Len(hits) : now - hits[j] >= Window
    BY <1>1
  <2> WITNESS Len(hits) + 1
  <2> QED
    BY <2>1
<1>2. CASE T # {}
  <2>3. PICK k \in T : \A y \in T : k <= y
    <3>1. T \in SUBSET Nat
      OBVIOUS
    <3> HIDE DEF T
    <3> QED
      BY <1>2, <3>1, LeastNumber
  <2>4. \A j \in 1..k - 1 : now - hits[j] >= Window
    BY <2>3
  <2> WITNESS k
  <2> QED
    BY <2>4
<1> QED
  BY <1>1, <1>2

\* The hits that count are the end of the list, in its order; what is left out is stale.
LEMMA RecentIsTheEnd ==
  ASSUME now \in Nat, NEW hits \in Seq(Nat)
  PROVE  \E k : /\ IsFirst(hits, k)
                /\ Recent(hits) \in Seq(Nat)
                /\ Len(Recent(hits)) = Len(hits) + 1 - k
                /\ \A j \in 1..Len(Recent(hits)) : Recent(hits)[j] = hits[k - 1 + j]
<1> DEFINE P(x) == x \in 1..Len(hits) + 1
                   /\ ((\A j \in 1..x - 1 : now - hits[j] >= Window)
                       /\ (x <= Len(hits) => now - hits[x] < Window))
           k == CHOOSE x \in 1..Len(hits) + 1 :
                 /\ \A j \in 1..x - 1 : now - hits[j] >= Window
                 /\ x <= Len(hits) => now - hits[x] < Window
<1>1. IsFirst(hits, k)
  BY FirstExists DEF IsFirst
<1>2. Recent(hits) = SubSeq(hits, k, Len(hits))
  BY DEF Recent
<1> HIDE DEF k
<1>3. k \in 1..Len(hits) + 1
  BY <1>1 DEF IsFirst
<1>4. /\ Recent(hits) \in Seq(Nat)
      /\ Len(Recent(hits)) = Len(hits) + 1 - k
      /\ \A j \in 1..Len(Recent(hits)) : Recent(hits)[j] = hits[k - 1 + j]
  BY <1>2, <1>3
<1> WITNESS k
<1> QED
  BY <1>1, <1>4

\* A list with one hit more.
LEMMA OneMore ==
  ASSUME now \in Nat, NEW past \in Seq(Nat)
  PROVE  /\ Append(past, now) \in Seq(Nat) /\ Len(Append(past, now)) = Len(past) + 1
         /\ Append(past, now)[Len(past) + 1] = now
         /\ \A k \in 1..Len(past) : Append(past, now)[k] = past[k] /\ past[k] \in Nat
OBVIOUS

LEMMA SortedGrows ==
  ASSUME now \in Nat, NEW past \in Seq(Nat), Sorted(past)
  PROVE  Sorted(Append(past, now))
<1> DEFINE new == Append(past, now)
           L == Len(past)
<1>1. /\ L \in Nat /\ Len(new) = L + 1 /\ new[L + 1] = now
      /\ \A k \in 1..L : new[k] = past[k] /\ past[k] \in Nat
  BY OneMore
<1> HIDE DEF new
<1> SUFFICES ASSUME NEW k \in 1..L + 1, NEW j \in 1..k
             PROVE  new[k] <= now /\ new[j] <= new[k]
  BY <1>1 DEF Sorted, new
<1> HIDE DEF L
<1>2. CASE k \in 1..L
  BY <1>1, <1>2 DEF Sorted, L
<1>3. CASE k = L + 1 /\ j = k
  BY <1>1, <1>3
<1>4. CASE k = L + 1 /\ j \in 1..L
  BY <1>1, <1>4 DEF Sorted, L
<1> QED
  BY <1>1, <1>2, <1>3, <1>4

\* What is left out when the recent hits of a list are taken is stale.
LEMMA OthersAreStale ==
  ASSUME now \in Nat, NEW past \in Seq(Nat), NEW hits \in Seq(Nat), EndOf(past, hits)
  PROVE  EndOf(past, Recent(hits)) /\ Recent(hits) \in Seq(Nat)
<1> USE ThrottleAssumption
<1>1. PICK f : /\ IsFirst(hits, f)
               /\ Recent(hits) \in Seq(Nat)
               /\ Len(Recent(hits)) = Len(hits) + 1 - f
               /\ \A j \in 1..Len(Recent(hits)) : Recent(hits)[j] = hits[f - 1 + j]
  BY RecentIsTheEnd
<1> DEFINE L == Len(past)
           H == Len(hits)
           R == Len(Recent(hits))
<1>2. L \in Nat /\ H \in Nat /\ R \in Nat /\ f \in 1..H + 1 /\ R = H + 1 - f /\ H <= L
  BY <1>1 DEF EndOf, IsFirst
<1> HIDE DEF L, H, R
<1>3. ASSUME NEW k \in 1..R PROVE Recent(hits)[k] = past[L - R + k]
  <2>1. Recent(hits)[k] = hits[f - 1 + k]
    BY <1>1, <1>3 DEF R
  <2>2. f - 1 + k \in 1..H
    BY <1>2, <1>3
  <2>3. hits[f - 1 + k] = past[L - H + (f - 1 + k)]
    BY <2>2 DEF EndOf, H, L
  <2>4. L - H + (f - 1 + k) = L - R + k
    BY <1>2, <1>3
  <2> QED
    BY <2>1, <2>3, <2>4
<1>4. ASSUME NEW k \in 1..L - R PROVE now - past[k] >= Window
  <2>1. CASE k \in 1..L - H
    BY <2>1 DEF EndOf, L, H
  <2>2. CASE k \notin 1..L - H
    <3> DEFINE j == k - (L - H)
    <3>1. j \in 1..f - 1 /\ j \in 1..H /\ L - H + j = k
      BY <1>2, <1>4, <2>2
    <3> HIDE DEF j
    <3>2. now - hits[j] >= Window
      BY <1>1, <3>1 DEF IsFirst
    <3>3. hits[j] = past[L - H + j]
      BY <3>1 DEF EndOf, L, H
    <3> QED
      BY <3>1, <3>2, <3>3
  <2> QED
    BY <2>1, <2>2
<1>5. R <= L
  BY <1>2
<1> QED
  BY <1>1, <1>3, <1>4, <1>5 DEF EndOf, L, R

LEMMA EndGrows ==
  ASSUME now \in Nat, NEW past \in Seq(Nat), NEW hits \in Seq(Nat), EndOf(past, hits)
  PROVE  EndOf(Append(past, now), Append(hits, now))
<1> DEFINE p == Append(past, now)
           h == Append(hits, now)
           L == Len(past)
           H == Len(hits)
<1>1. /\ L \in Nat /\ Len(p) = L + 1 /\ p[L + 1] = now
      /\ \A k \in 1..L : p[k] = past[k]
  BY OneMore
<1>2. /\ H \in Nat /\ Len(h) = H + 1 /\ h[H + 1] = now
      /\ \A k \in 1..H : h[k] = hits[k]
  BY OneMore
<1>3. /\ H <= L
      /\ \A k \in 1..H : hits[k] = past[L - H + k]
      /\ \A k \in 1..L - H : now - past[k] >= Window
  BY DEF EndOf
<1> HIDE DEF p, h, L, H
<1>4. ASSUME NEW k \in 1..H + 1 PROVE h[k] = p[L - H + k]
  <2>1. CASE k \in 1..H
    <3>1. L - H + k \in 1..L
      BY <1>1, <1>2, <1>3, <2>1
    <3> QED
      BY <1>1, <1>2, <1>3, <2>1, <3>1
  <2>2. CASE k = H + 1
    <3>1. L - H + k = L + 1
      BY <1>1, <1>2, <2>2
    <3> QED
      BY <1>1, <1>2, <2>2, <3>1
  <2> QED
    BY <1>2, <1>4, <2>1, <2>2
<1>5. ASSUME NEW k \in 1..L - H PROVE now - p[k] >= Window
  <2>1. k \in 1..L
    BY <1>1, <1>2, <1>5
  <2> QED
    BY <1>1, <1>3, <1>5, <2>1
<1>6. H + 1 <= L + 1 /\ (L + 1) - (H + 1) = L - H
  BY <1>1, <1>2, <1>3
<1>7. EndOf(p, h)
  BY <1>1, <1>2, <1>4, <1>5, <1>6 DEF EndOf
<1> QED
  BY <1>7 DEF p, h

\* Nothing counts of a list whose newest hit is stale.
LEMMA StaleGoes ==
  ASSUME now \in Nat, NEW past \in Seq(Nat), NEW hits \in Seq(Nat), hits # <<>>,
         EndOf(past, hits), Sorted(past), now - Last(hits) > Window
  PROVE  EndOf(past, <<>>)
<1> USE ThrottleAssumption
<1> DEFINE L == Len(past)
           H == Len(hits)
<1>1. L \in Nat /\ H \in Nat \ {0} /\ H <= L
  BY DEF EndOf
<1>2. Last(hits) = past[L]
  <2>1. hits[H] = past[L - H + H]
    BY <1>1 DEF EndOf
  <2> QED
    BY <1>1, <2>1 DEF Last
<1>3. ASSUME NEW k \in 1..L PROVE now - past[k] >= Window
  <2>1. past[k] <= past[L]
    BY <1>1, <1>3 DEF Sorted
  <2>2. past[k] \in Nat /\ past[L] \in Nat
    BY <1>1, <1>3
  <2> HIDE DEF L
  <2> QED
    BY <1>2, <2>1, <2>2
<1> QED
  BY <1>1, <1>3 DEF EndOf

\* An attempt is let through when the one MaxAttempts before it is stale.
LEMMA SpacingGrows ==
  ASSUME now \in Nat, NEW past \in Seq(Nat), NEW hits \in Seq(Nat),
         EndOf(past, hits), Len(hits) < MaxAttempts, Spaced(past)
  PROVE  Spaced(Append(past, now))
<1> USE ThrottleAssumption
<1> DEFINE p == Append(past, now)
           L == Len(past)
           H == Len(hits)
<1>1. /\ L \in Nat /\ Len(p) = L + 1 /\ p[L + 1] = now
      /\ \A k \in 1..L : p[k] = past[k]
  BY OneMore
<1>2. H \in Nat /\ H <= L /\ H < MaxAttempts /\ \A k \in 1..L - H : now - past[k] >= Window
  BY DEF EndOf
<1>3. \A k \in 1..L - MaxAttempts : past[k + MaxAttempts] - past[k] >= Window
  BY DEF Spaced
<1> HIDE DEF p, L, H
<1>4. ASSUME NEW k \in 1..L + 1 - MaxAttempts PROVE p[k + MaxAttempts] - p[k] >= Window
  <2>1. CASE k \in 1..L - MaxAttempts
    <3>1. k + MaxAttempts \in 1..L /\ k \in 1..L
      BY <1>1, <2>1
    <3> QED
      BY <1>1, <1>3, <2>1, <3>1
  <2>2. CASE k = L + 1 - MaxAttempts
    <3>1. k + MaxAttempts = L + 1 /\ k \in 1..L - H /\ k \in 1..L
      BY <1>1, <1>2, <1>4, <2>2
    <3> QED
      BY <1>1, <1>2, <3>1
  <2> QED
    BY <1>1, <1>4, <2>1, <2>2
<1>5. Spaced(p)
  BY <1>1, <1>4 DEF Spaced
<1> QED
  BY <1>5 DEF p

\* What was true of a list stays true as time passes.
LEMMA TimePasses ==
  ASSUME now \in Nat, now' = now + 1, NEW past \in Seq(Nat), NEW hits \in Seq(Nat),
         Sorted(past), EndOf(past, hits)
  PROVE  /\ \A k \in 1..Len(past) : past[k] <= now' /\ \A j \in 1..k : past[j] <= past[k]
         /\ Len(hits) <= Len(past)
         /\ \A k \in 1..Len(hits) : hits[k] = past[Len(past) - Len(hits) + k]
         /\ \A k \in 1..Len(past) - Len(hits) : now' - past[k] >= Window
<1> USE ThrottleAssumption
<1>1. Len(past) \in Nat /\ Len(hits) \in Nat /\ Len(hits) <= Len(past)
  BY DEF EndOf
<1>2. \A k \in 1..Len(past) : past[k] \in Nat
  OBVIOUS
<1>3. \A k \in 1..Len(past) - Len(hits) : now' - past[k] >= Window
  <2> SUFFICES ASSUME NEW k \in 1..Len(past) - Len(hits) PROVE now' - past[k] >= Window
    OBVIOUS
  <2>1. past[k] \in Nat
    BY <1>1, <1>2
  <2>2. now - past[k] >= Window
    BY DEF EndOf
  <2> QED
    BY <2>1, <2>2
<1>4. ASSUME NEW k \in 1..Len(past) PROVE past[k] <= now' /\ \A j \in 1..k : past[j] <= past[k]
  BY <1>2 DEF Sorted
<1> QED
  BY <1>1, <1>3, <1>4 DEF EndOf

LEMMA ThrottleStarts == ThrottleInit => ThrottleInv
<1> SUFFICES ASSUME ThrottleInit PROVE ThrottleInv
  OBVIOUS
<1>1. \A i \in Identifier : attempts[i] = <<>> /\ log[i] = <<>>
  BY DEF ThrottleInit
<1> QED
  BY <1>1, ThrottleAssumption
  DEF ThrottleInit, ThrottleInv, ThrottleTypeOK, ListsAreTrue, Sorted, EndOf, Spaced

\* An attempt adds to its own list and its own log; the cleanup empties stale lists.
LEMMA AttemptKeeps ==
  ASSUME ThrottleInv, NEW i \in Identifier, Attempt(i)
  PROVE  ThrottleInv'
<1> DEFINE kept == Append(Recent(attempts[i]), now)
           table == [attempts EXCEPT ![i] = kept]
<1>1. /\ now \in Nat /\ now' = now
      /\ attempts \in [Identifier -> Seq(Nat)] /\ log \in [Identifier -> Seq(Nat)]
      /\ log' = [log EXCEPT ![i] = Append(@, now)]
      /\ Len(Recent(attempts[i])) < MaxAttempts
      /\ attempts' = IF Cardinality(Keys(table)) > MaxKeys THEN Cleaned(table) ELSE table
  <2>1. attempts[i] \in Seq(Nat)
    BY DEF ThrottleInv, ThrottleTypeOK
  <2>2. now \in Nat
    BY DEF ThrottleInv, ThrottleTypeOK
  <2>3. Len(Recent(attempts[i])) \in Nat
    BY <2>1, <2>2, RecentIsTheEnd
  <2> QED
    BY <2>3, ThrottleAssumption DEF ThrottleInv, ThrottleTypeOK, Attempt, Blocked
<1>2. EndOf(log[i], Recent(attempts[i])) /\ Recent(attempts[i]) \in Seq(Nat)
  BY <1>1, OthersAreStale DEF ThrottleInv, ListsAreTrue
<1>3. kept \in Seq(Nat) /\ Append(log[i], now) \in Seq(Nat)
  BY <1>1, <1>2
<1>4. Sorted(Append(log[i], now)) /\ EndOf(Append(log[i], now), kept) /\ Spaced(Append(log[i], now))
  BY <1>1, <1>2, SortedGrows, EndGrows, SpacingGrows DEF ThrottleInv, ListsAreTrue
<1> HIDE DEF kept
<1>5. /\ table \in [Identifier -> Seq(Nat)] /\ log' \in [Identifier -> Seq(Nat)]
      /\ \A q \in Identifier : Sorted(log'[q]) /\ EndOf(log'[q], table[q]) /\ Spaced(log'[q])
  BY <1>1, <1>3, <1>4 DEF ThrottleInv, ListsAreTrue
<1> HIDE DEF table
<1>6. /\ attempts' \in [Identifier -> Seq(Nat)]
      /\ \A q \in Identifier : EndOf(log'[q], attempts'[q])
  <2>1. CASE attempts' = table
    BY <1>5, <2>1
  <2>2. CASE attempts' = Cleaned(table)
    <3>1. \A q \in Identifier :
            attempts'[q] = IF table[q] # <<>> /\ now - Last(table[q]) > Window THEN <<>>
                                                                             ELSE table[q]
      BY <2>2 DEF Cleaned
    <3>2. attempts' \in [Identifier -> Seq(Nat)]
      BY <1>5, <2>2 DEF Cleaned
    <3>3. ASSUME NEW q \in Identifier PROVE EndOf(log'[q], attempts'[q])
      <4>1. log'[q] \in Seq(Nat) /\ table[q] \in Seq(Nat)
        BY <1>5
      <4>2. Sorted(log'[q]) /\ EndOf(log'[q], table[q])
        BY <1>5
      <4>3. CASE table[q] # <<>> /\ now - Last(table[q]) > Window
        BY <1>1, <3>1, <4>1, <4>2, <4>3, StaleGoes
      <4>4. CASE ~(table[q] # <<>> /\ now - Last(table[q]) > Window)
        BY <3>1, <4>2, <4>4
      <4> QED
        BY <4>3, <4>4
    <3> QED
      BY <3>2, <3>3
  <2> QED
    BY <1>1, <2>1, <2>2
<1> QED
  BY <1>1, <1>5, <1>6 DEF ThrottleInv, ThrottleTypeOK, ListsAreTrue, Sorted, EndOf, Spaced

LEMMA ThrottleStep == ThrottleInv /\ [ThrottleNext]_throttleVars => ThrottleInv'
<1> SUFFICES ASSUME ThrottleInv, [ThrottleNext]_throttleVars PROVE ThrottleInv'
  OBVIOUS
<1> USE DEF ThrottleInv, ThrottleTypeOK, ListsAreTrue
<1>1. CASE UNCHANGED throttleVars
  BY <1>1 DEF throttleVars, Sorted, EndOf, Spaced
<1>2. CASE ThrottleRestart
  <2>1. \A i \in Identifier : attempts'[i] = <<>> /\ log'[i] = <<>>
    BY <1>2 DEF ThrottleRestart
  <2> QED
    BY <1>2, <2>1, ThrottleAssumption DEF ThrottleRestart, Sorted, EndOf, Spaced
<1>3. CASE ThrottleTick
  <2>1. now \in Nat /\ now' = now + 1 /\ attempts' = attempts /\ log' = log
    BY <1>3 DEF ThrottleTick, Passes
  <2>2. \A i \in Identifier : log[i] \in Seq(Nat) /\ attempts[i] \in Seq(Nat)
    OBVIOUS
  <2>3. ASSUME NEW i \in Identifier
        PROVE  (Sorted(log[i]) /\ EndOf(log[i], attempts[i]) /\ Spaced(log[i]))'
    BY <2>1, <2>2, TimePasses DEF Sorted, EndOf, Spaced
  <2> QED
    BY <2>1, <2>3
<1> QED
  BY <1>1, <1>2, <1>3, AttemptKeeps DEF ThrottleNext

\* The inductive invariant of the throttle.
THEOREM ThrottleInvariant == ThrottleSpec => []ThrottleInv
BY ThrottleStarts, ThrottleStep, PTL DEF ThrottleSpec

\* Two attempts that are MaxAttempts places apart are not in one window.
LEMMA WindowHolds ==
  ASSUME now \in Nat, NEW past \in Seq(Nat), Sorted(past), Spaced(past), NEW t \in Nat
  PROVE  Cardinality({ k \in DOMAIN past : past[k] <= t /\ t - past[k] < Window }) <= MaxAttempts
<1> USE ThrottleAssumption
<1> DEFINE W == { k \in DOMAIN past : past[k] <= t /\ t - past[k] < Window }
           L == Len(past)
<1>1. L \in Nat /\ W \in SUBSET Nat /\ \A k \in 1..L : past[k] \in Nat
  OBVIOUS
<1>2. \A k \in W : k \in 1..L /\ past[k] <= t /\ t - past[k] < Window
  OBVIOUS
<1>3. /\ \A k \in 1..L : \A j \in 1..k : past[j] <= past[k]
      /\ \A k \in 1..L - MaxAttempts : past[k + MaxAttempts] - past[k] >= Window
  BY DEF Sorted, Spaced
<1> HIDE DEF W, L
<1>4. CASE W = {}
  <2>1. Cardinality(W) = 0
    BY <1>4, FS_EmptySet
  <2> QED
    BY <2>1 DEF W
<1>5. CASE W # {}
  <2>1. PICK k \in W : \A y \in W : k <= y
    BY <1>1, <1>5, LeastNumber
  <2>2. k \in Nat
    BY <1>1, <2>1
  <2>3. W \subseteq k..k + MaxAttempts - 1
    <3> SUFFICES ASSUME NEW y \in W, y >= k + MaxAttempts PROVE FALSE
      BY <1>1, <2>1, <2>2
    <3> DEFINE n == k + MaxAttempts
    <3>1. k \in 1..L - MaxAttempts /\ n \in 1..y /\ n \in 1..L /\ y \in 1..L /\ k \in 1..L
      BY <1>1, <1>2, <2>1, <2>2
    <3>2. past[n] - past[k] >= Window /\ past[n] <= past[y]
      BY <1>3, <3>1
    <3>3. past[y] <= t /\ t - past[k] < Window
      BY <1>2
    <3>4. past[n] \in Nat /\ past[y] \in Nat /\ past[k] \in Nat
      BY <1>1, <3>1
    <3> HIDE DEF n
    <3> QED
      BY <3>2, <3>3, <3>4
  <2> DEFINE b == k + MaxAttempts - 1
  <2>4. b \in Int /\ ~(k > b) /\ b - k + 1 = MaxAttempts /\ k \in Int
    BY <2>2
  <2> HIDE DEF b
  <2>5. IsFiniteSet(k..b) /\ Cardinality(k..b) = MaxAttempts
    BY <2>4, FS_Interval
  <2>6. W \in SUBSET (k..b)
    BY <2>3 DEF b
  <2>7. Cardinality(W) <= Cardinality(k..b)
    BY <2>5, <2>6, FS_Subset
  <2> QED
    BY <2>5, <2>7 DEF W
<1> QED
  BY <1>4, <1>5

\* The window holds (password_auth.py:51-53) for any number of identifiers, any
\* window and any limit, although the cleanup throws lists away.
THEOREM WindowIsBounded == ThrottleSpec => []WindowBound
<1>1. ThrottleInv => WindowBound
  <2> SUFFICES ASSUME ThrottleInv, NEW i \in Identifier, NEW t \in 0..now
               PROVE  Cardinality({ k \in DOMAIN log[i] :
                                      log[i][k] <= t /\ t - log[i][k] < Window }) <= MaxAttempts
    BY DEF WindowBound
  <2>1. now \in Nat /\ log[i] \in Seq(Nat) /\ Sorted(log[i]) /\ Spaced(log[i]) /\ t \in Nat
    BY DEF ThrottleInv, ThrottleTypeOK, ListsAreTrue
  <2> QED
    BY <2>1, WindowHolds
<1> QED
  BY <1>1, ThrottleInvariant, PTL

\* The recent hits of a list are recent in its log.
LEMMA RecentAreLogged ==
  ASSUME now \in Nat, NEW past \in Seq(Nat), NEW hits \in Seq(Nat),
         Sorted(past), EndOf(past, hits)
  PROVE  Cardinality({ k \in DOMAIN past : now - past[k] < Window }) >= Len(Recent(hits))
<1> USE ThrottleAssumption
<1>1. PICK f : /\ IsFirst(hits, f)
               /\ Recent(hits) \in Seq(Nat) /\ Len(Recent(hits)) = Len(hits) + 1 - f
  BY RecentIsTheEnd
<1> DEFINE W == { k \in DOMAIN past : now - past[k] < Window }
           L == Len(past)
           H == Len(hits)
           R == Len(Recent(hits))
           a == L - R + 1
<1>2. /\ L \in Nat /\ H \in Nat /\ R \in Nat /\ H <= L
      /\ f \in 1..H + 1 /\ R = H + 1 - f /\ a \in Int /\ a = L - H + f
  BY <1>1 DEF EndOf, IsFirst
<1>3. /\ \A k \in 1..L : past[k] \in Nat /\ \A j \in 1..k : past[j] <= past[k]
      /\ \A k \in 1..L : now - past[k] < Window => k \in W
      /\ W \in SUBSET (1..L)
      /\ f <= H => now - hits[f] < Window
      /\ \A k \in 1..H : hits[k] = past[L - H + k]
  <2>1. \A k \in 1..L : past[k] \in Nat /\ \A j \in 1..k : past[j] <= past[k]
    BY DEF Sorted
  <2>2. \A k \in 1..L : now - past[k] < Window => k \in W
    OBVIOUS
  <2>3. W \in SUBSET (1..L)
    OBVIOUS
  <2>4. f <= H => now - hits[f] < Window
    BY <1>1, <1>2 DEF IsFirst
  <2>5. \A k \in 1..H : hits[k] = past[L - H + k]
    BY DEF EndOf
  <2> QED
    BY <2>1, <2>2, <2>3, <2>4, <2>5
<1> HIDE DEF W, L, H, R, a
<1>4. IsFiniteSet(1..L) /\ IsFiniteSet(a..L)
  BY <1>2, FS_Interval
<1>5. IsFiniteSet(W) /\ Cardinality(W) \in Nat
  BY <1>3, <1>4, FS_Subset, FS_CardinalityType
<1>6. CASE R = 0
  BY <1>5, <1>6 DEF W, R
<1>7. CASE R > 0
  <2>1. a..L \subseteq W
    <3> SUFFICES ASSUME NEW k \in a..L PROVE k \in W
      OBVIOUS
    <3>1. f \in 1..H /\ a \in 1..k /\ a \in 1..L /\ k \in 1..L
      BY <1>2, <1>7
    <3>2. now - past[a] < Window
      BY <1>2, <1>3, <3>1
    <3>3. past[a] <= past[k] /\ past[a] \in Nat /\ past[k] \in Nat
      BY <1>3, <3>1
    <3>4. now - past[k] < Window
      BY <3>2, <3>3
    <3> QED
      BY <1>3, <3>1, <3>4
  <2>2. a \in Int /\ L \in Int /\ ~(a > L) /\ L - a + 1 = R
    BY <1>2, <1>7 DEF a
  <2>3. Cardinality(a..L) = R
    BY <2>2, FS_Interval
  <2>4. Cardinality(a..L) <= Cardinality(W)
    BY <1>5, <2>1, FS_Subset
  <2> QED
    BY <1>2, <1>5, <2>3, <2>4 DEF W, R
<1> QED
  BY <1>2, <1>6, <1>7

\* Whoever is refused made MaxAttempts attempts in the last Window seconds.
THEOREM LockedOutByOwnAttempts == ThrottleSpec => []LockedOutOnlyByOwnAttempts
<1>1. ThrottleInv => LockedOutOnlyByOwnAttempts
  <2> SUFFICES ASSUME ThrottleInv, NEW i \in Identifier, Len(Recent(attempts[i])) >= MaxAttempts
               PROVE  Cardinality({ k \in DOMAIN log[i] : now - log[i][k] < Window }) >= MaxAttempts
    BY DEF LockedOutOnlyByOwnAttempts, Blocked
  <2> DEFINE W == { k \in DOMAIN log[i] : now - log[i][k] < Window }
  <2>1. /\ now \in Nat /\ log[i] \in Seq(Nat) /\ attempts[i] \in Seq(Nat)
        /\ Sorted(log[i]) /\ EndOf(log[i], attempts[i])
    BY DEF ThrottleInv, ThrottleTypeOK, ListsAreTrue
  <2>2. Cardinality(W) >= Len(Recent(attempts[i])) /\ Len(Recent(attempts[i])) \in Nat
    <3>1. Cardinality(W) >= Len(Recent(attempts[i]))
      BY <2>1, RecentAreLogged
    <3>2. Recent(attempts[i]) \in Seq(Nat)
      BY <2>1, RecentIsTheEnd
    <3> QED
      BY <3>1, <3>2
  <2>3. Cardinality(W) \in Nat
    <3>1. Len(log[i]) \in Nat /\ W \in SUBSET (1..Len(log[i]))
      BY <2>1
    <3>2. IsFiniteSet(1..Len(log[i]))
      BY <3>1, FS_Interval
    <3> HIDE DEF W
    <3> QED
      BY <3>1, <3>2, FS_Subset, FS_CardinalityType
  <2> HIDE DEF W
  <2>4. Cardinality(W) >= MaxAttempts
    BY <2>2, <2>3, ThrottleAssumption
  <2> QED
    BY <2>4 DEF W
<1> QED
  BY <1>1, ThrottleInvariant, PTL

-----------------------------------------------------------------------------
(* The wake-up of agents *)

Requests ==
  [at : {"idle", "begun", "stored", "more"}, way : {"http", "bulk", "ws"},
   text : Text \cup {NoRow}, says : Words \cup {NoRow}]

WakeTypeOK ==
  /\ row \in [Text -> Words \cup {NoRow}] /\ first \in [Text -> Words \cup {NoRow}]
  /\ wake \in [Text -> [Spot -> {"none", "due", "ended"}]]
  /\ mentions \in [Text -> [Spot -> Nat]]
  /\ request \in [Sender -> Requests]
  /\ edited \subseteq Text /\ missed \subseteq Text

\* A request has a text of its own from "begun" on: not stored yet, or stored as
\* the request says and no tag of it scheduled.
RequestSound ==
  \A r \in Sender :
    /\ request[r].at \in {"begun", "stored"} <=> request[r].text \in Text
    /\ request[r].text \in Text => request[r].says \in Words
    /\ \A q \in Sender : request[q].text = request[r].text /\ request[r].text \in Text => q = r
    /\ request[r].at = "begun" => first[request[r].text] = NoRow
    /\ request[r].at = "stored" =>
         /\ first[request[r].text] = request[r].says
         /\ \A s \in Spot : wake[request[r].text][s] = "none" /\ mentions[request[r].text][s] = 0

\* A task is about a tag of a stored text, and has not mentioned it yet.
TaskSound ==
  \A t \in Text, s \in Spot :
    /\ wake[t][s] # "none" \/ mentions[t][s] > 0 => Says(first[t], s)
    /\ wake[t][s] = "due" => mentions[t][s] = 0
    /\ mentions[t][s] <= 1
    /\ row[t] = first[t] \/ t \in edited
    /\ t \in edited => first[t] # NoRow

WakeInv == WakeTypeOK /\ RequestSound /\ TaskSound /\ NoOtherTagIsMissed

LEMMA WakeStarts == WakeInit => WakeInv
BY WakeAssumption
DEF WakeInit, WakeInv, WakeTypeOK, RequestSound, TaskSound, NoOtherTagIsMissed, Requests, Idle, Words, Says

LEMMA BeginTextKeeps ==
  ASSUME WakeInv, NEW r \in Sender, NEW way \in {"http", "bulk", "ws"}, NEW t \in Text, NEW says \in Words,
             BeginText(r, way, t, says)
  PROVE  WakeInv'
<1> USE WakeAssumption DEF WakeInv, WakeTypeOK, Requests, Idle, Words, Says, BeginText
<1>1. WakeTypeOK'
  OBVIOUS
<1>2. RequestSound'
  BY <1>1 DEF RequestSound, TaskSound
<1>3. TaskSound'
  BY <1>1 DEF RequestSound, TaskSound
<1>4. NoOtherTagIsMissed'
  BY <1>1 DEF RequestSound, TaskSound, NoOtherTagIsMissed
<1> QED
  BY <1>1, <1>2, <1>3, <1>4

LEMMA StoreTextKeeps ==
  ASSUME WakeInv, NEW r \in Sender, StoreText(r)
  PROVE  WakeInv'
<1> USE WakeAssumption DEF WakeInv, WakeTypeOK, Requests, Idle, Words, Says, StoreText
<1>1. WakeTypeOK'
  OBVIOUS
<1>2. RequestSound'
  BY <1>1 DEF RequestSound, TaskSound
<1>3. TaskSound'
  BY <1>1 DEF RequestSound, TaskSound
<1>4. NoOtherTagIsMissed'
  BY <1>1 DEF RequestSound, TaskSound, NoOtherTagIsMissed
<1> QED
  BY <1>1, <1>2, <1>3, <1>4

LEMMA StoreUnansweredKeeps ==
  ASSUME WakeInv, NEW r \in Sender, StoreUnanswered(r)
  PROVE  WakeInv'
<1> USE WakeAssumption DEF WakeInv, WakeTypeOK, Requests, Idle, Words, Says, StoreUnanswered
<1>0. request[r].text \in Text /\ request[r].says \in Words
  BY DEF RequestSound
<1>1. WakeTypeOK'
  BY <1>0
<1>2. RequestSound'
  BY <1>0, <1>1 DEF RequestSound, TaskSound
<1>3. TaskSound'
  BY <1>0, <1>1 DEF RequestSound, TaskSound
<1>4. NoOtherTagIsMissed'
  <2> SUFFICES ASSUME NEW t \in Text, NEW s \in Spot, Says(first'[t], s), t \notin missed',
                      \A q \in Sender : request'[q].at = "stored" => request'[q].text # t
               PROVE  wake[t][s] \in {"due", "ended"}
    BY DEF NoOtherTagIsMissed
  <2>1. t # request[r].text /\ first'[t] = first[t] /\ t \notin missed
    BY <1>0
  <2>2. \A q \in Sender : request[q].at = "stored" => request[q].text # t
    OBVIOUS
  <2> QED
    BY <2>1, <2>2 DEF NoOtherTagIsMissed
<1> QED
  BY <1>1, <1>2, <1>3, <1>4

LEMMA ScheduleKeeps ==
  ASSUME WakeInv, NEW r \in Sender, Schedule(r)
  PROVE  WakeInv'
<1> USE WakeAssumption DEF WakeInv, WakeTypeOK, Requests, Idle, Words, Says, Schedule, Tasks
<1>1. WakeTypeOK'
  OBVIOUS
<1>2. RequestSound'
  BY <1>1 DEF RequestSound, TaskSound
<1>3. TaskSound'
  BY <1>1 DEF RequestSound, TaskSound
<1>4. NoOtherTagIsMissed'
  <2> SUFFICES ASSUME NEW t \in Text, NEW s \in Spot, Says(first[t], s), t \notin missed,
                      \A q \in Sender : request'[q].at = "stored" => request'[q].text # t
               PROVE  wake'[t][s] \in {"due", "ended"}
    BY DEF NoOtherTagIsMissed
  <2>1. CASE t = request[r].text
    BY <2>1 DEF RequestSound
  <2>2. CASE t # request[r].text
    <3>1. \A q \in Sender : request[q].at = "stored" => request[q].text # t
      BY <2>2
    <3>2. wake[t][s] \in {"due", "ended"}
      BY <3>1 DEF NoOtherTagIsMissed
    <3> QED
      BY <2>2, <3>2
  <2> QED
    BY <2>1, <2>2
<1> QED
  BY <1>1, <1>2, <1>3, <1>4

LEMMA EchoFailsKeeps ==
  ASSUME WakeInv, NEW r \in Sender, EchoFails(r)
  PROVE  WakeInv'
<1> USE WakeAssumption DEF WakeInv, WakeTypeOK, Requests, Idle, Words, Says, EchoFails
<1>0. request[r].text \in Text
  BY DEF RequestSound
<1>1. WakeTypeOK'
  BY <1>0
<1>2. RequestSound'
  BY <1>1 DEF RequestSound, TaskSound
<1>3. TaskSound'
  BY <1>1 DEF RequestSound, TaskSound
<1>4. NoOtherTagIsMissed'
  <2> SUFFICES ASSUME NEW t \in Text, NEW s \in Spot, Says(first[t], s), t \notin missed',
                      \A q \in Sender : request'[q].at = "stored" => request'[q].text # t
               PROVE  wake[t][s] \in {"due", "ended"}
    BY DEF NoOtherTagIsMissed
  <2>1. \A q \in Sender : request[q].at = "stored" => request[q].text # t
    OBVIOUS
  <2> QED
    BY <2>1 DEF NoOtherTagIsMissed
<1> QED
  BY <1>1, <1>2, <1>3, <1>4

LEMMA EndsKeeps ==
  ASSUME WakeInv, NEW r \in Sender, Ends(r)
  PROVE  WakeInv'
<1> USE WakeAssumption DEF WakeInv, WakeTypeOK, Requests, Idle, Words, Says, Ends
<1>1. WakeTypeOK'
  OBVIOUS
<1>2. RequestSound'
  BY <1>1 DEF RequestSound, TaskSound
<1>3. TaskSound'
  BY <1>1 DEF RequestSound, TaskSound
<1>4. NoOtherTagIsMissed'
  BY <1>1 DEF RequestSound, TaskSound, NoOtherTagIsMissed
<1> QED
  BY <1>1, <1>2, <1>3, <1>4

LEMMA RewriteKeeps ==
  ASSUME WakeInv, NEW t \in Text, NEW says \in Words \cup {NoRow}, Rewrite(t, says)
  PROVE  WakeInv'
<1> USE WakeAssumption DEF WakeInv, WakeTypeOK, Requests, Idle, Words, Says, Rewrite
<1>1. WakeTypeOK'
  OBVIOUS
<1>2. RequestSound'
  BY <1>1 DEF RequestSound, TaskSound
<1>3. TaskSound'
  BY <1>1 DEF RequestSound, TaskSound
<1>4. NoOtherTagIsMissed'
  BY <1>1 DEF RequestSound, TaskSound, NoOtherTagIsMissed
<1> QED
  BY <1>1, <1>2, <1>3, <1>4

LEMMA NotifyKeeps ==
  ASSUME WakeInv, NEW t \in Text, NEW s \in Spot, NEW landed \in BOOLEAN, Notify(t, s, landed)
  PROVE  WakeInv'
<1> USE WakeAssumption DEF WakeInv, WakeTypeOK, Requests, Idle, Words, Says, Notify
<1>1. WakeTypeOK'
  OBVIOUS
<1>2. RequestSound'
  BY <1>1 DEF RequestSound, TaskSound
<1>3. TaskSound'
  BY <1>1 DEF RequestSound, TaskSound
<1>4. NoOtherTagIsMissed'
  BY <1>1 DEF RequestSound, TaskSound, NoOtherTagIsMissed
<1> QED
  BY <1>1, <1>2, <1>3, <1>4

LEMMA WakeRestartKeeps ==
  ASSUME WakeInv, WakeRestart
  PROVE  WakeInv'
<1> USE WakeAssumption DEF WakeInv, WakeTypeOK, Requests, Idle, Words, Says, WakeRestart
<1>1. WakeTypeOK'
  OBVIOUS
<1>2. RequestSound'
  BY <1>1 DEF RequestSound, TaskSound
<1>3. TaskSound'
  BY <1>1 DEF RequestSound, TaskSound
<1>4. NoOtherTagIsMissed'
  BY <1>1 DEF RequestSound, TaskSound, NoOtherTagIsMissed
<1> QED
  BY <1>1, <1>2, <1>3, <1>4

LEMMA WakeSteps == WakeInv /\ [WakeNext]_wakeVars => WakeInv'
<1> SUFFICES ASSUME WakeInv, [WakeNext]_wakeVars PROVE WakeInv'
  OBVIOUS
<1>1. CASE UNCHANGED wakeVars
  BY <1>1
  DEF wakeVars, WakeInv, WakeTypeOK, RequestSound, TaskSound, NoOtherTagIsMissed
<1>2. CASE WakeNext
  BY <1>2, BeginTextKeeps, StoreTextKeeps, StoreUnansweredKeeps, ScheduleKeeps, EchoFailsKeeps,
     EndsKeeps, RewriteKeeps, NotifyKeeps, WakeRestartKeeps
  DEF WakeNext, Creates
<1> QED
  BY <1>1, <1>2

\* The inductive invariant: what a request and a task know of their text.
THEOREM WakeInvariant == WakeSpec => []WakeInv
BY WakeStarts, WakeSteps, PTL DEF WakeSpec

\* An agent that follows a mention finds its tag in a stored text, unless that has
\* been rewritten or deleted since (ai_trigger.py:10).
THEOREM FollowedMentionsFind == WakeSpec => []MentionsFindTheirTag
<1>1. WakeInv => MentionsFindTheirTag
  BY DEF WakeInv, TaskSound, MentionsFindTheirTag
<1> QED
  BY <1>1, WakeInvariant, PTL

\* One tag is one mention at most, whatever bsky-mcp answers.
THEOREM NoAgentIsPestered == WakeSpec => []MentionedOnce
<1>1. WakeInv => MentionedOnce
  BY DEF WakeInv, TaskSound, MentionedOnce
<1> QED
  BY <1>1, WakeInvariant, PTL

\* Only a sender who is gone before the echo, a lost answer to the INSERT or a
\* restart costs a tag its task.
THEOREM TagsHaveTheirTask == WakeSpec => []NoOtherTagIsMissed
<1>1. WakeInv => NoOtherTagIsMissed
  BY DEF WakeInv
<1> QED
  BY <1>1, WakeInvariant, PTL
=============================================================================
