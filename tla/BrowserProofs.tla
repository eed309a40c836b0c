--------------------------- MODULE BrowserProofs ---------------------------
(***************************************************************************)
(* What is proved of BrowserSync, for any elements, images, flushes and    *)
(* edits and any backlog of the socket.                                    *)
(*                                                                         *)
(* After facts about lists (membership under Only, \o, EXCEPT, Tail and    *)
(* SetToSeqs) come the types; then what an edit here is, so that an echo   *)
(* is none; then, until a bulk request leaves an image out, whose row a    *)
(* wbid names and that nothing is asked for twice; then, while no flush    *)
(* overtakes another, that contents only grow along the way of an element, *)
(* from its row over the socket and the flushes to what is pending; last,  *)
(* where on that way the edit is that has yet to reach its row, so that    *)
(* none is lost but where the code gives it up.                            *)
(***************************************************************************)
EXTENDS BrowserSync, FiniteSetTheorems, TLAPS

-----------------------------------------------------------------------------
LEMMA Members ==
  ASSUME NEW T, NEW s \in Seq(T)
  PROVE  /\ ToSet(s) \subseteq T
         /\ \A x : x \in ToSet(s) <=> \E i \in 1..Len(s) : s[i] = x
         /\ DOMAIN s = 1..Len(s) /\ Len(s) \in Nat
  BY DEF ToSet

LEMMA WiderSeq ==
  ASSUME NEW S, NEW T, S \subseteq T
  PROVE  Seq(S) \subseteq Seq(T)
  OBVIOUS

LEMMA AppendSet ==
  ASSUME NEW T, NEW s \in Seq(T), NEW x \in T
  PROVE  /\ Append(s, x) \in Seq(T) /\ Len(Append(s, x)) = Len(s) + 1
         /\ ToSet(Append(s, x)) = ToSet(s) \cup {x}
<1> DEFINE t == Append(s, x)
<1>1. /\ t \in Seq(T) /\ Len(t) = Len(s) + 1 /\ Len(s) \in Nat
      /\ \A i \in 1..Len(s) + 1 : t[i] = IF i = Len(s) + 1 THEN x ELSE s[i]
  OBVIOUS
<1> HIDE DEF t
<1>2. \A y : y \in ToSet(t) => y \in ToSet(s) \cup {x}
  BY <1>1, Members
<1>3. \A y : y \in ToSet(s) => y \in ToSet(t)
  BY <1>1, Members
<1>4. x \in ToSet(t)
  BY <1>1, Members
<1> QED BY <1>1, <1>2, <1>3, <1>4 DEF t

LEMMA ConcatSet ==
  ASSUME NEW T, NEW s \in Seq(T), NEW t \in Seq(T)
  PROVE  /\ s \o t \in Seq(T) /\ Len(s \o t) = Len(s) + Len(t)
         /\ \A i \in 1..Len(s) + Len(t) :
              (s \o t)[i] = IF i <= Len(s) THEN s[i] ELSE t[i - Len(s)]
         /\ ToSet(s \o t) = ToSet(s) \cup ToSet(t)
<1> DEFINE u == s \o t
<1>1. /\ u \in Seq(T) /\ Len(u) = Len(s) + Len(t) /\ Len(s) \in Nat /\ Len(t) \in Nat
      /\ \A i \in 1..Len(s) + Len(t) : u[i] = IF i <= Len(s) THEN s[i] ELSE t[i - Len(s)]
  OBVIOUS
<1> HIDE DEF u
<1>2. \A i \in 1..Len(u) : u[i] \in ToSet(s) \cup ToSet(t)
  <2> SUFFICES ASSUME NEW i \in 1..Len(u) PROVE u[i] \in ToSet(s) \cup ToSet(t)
    OBVIOUS
  <2>1. CASE i <= Len(s)
    BY <1>1, <2>1, Members
  <2>2. CASE i > Len(s)
    <3> DEFINE j == i - Len(s)
    <3>1. j \in 1..Len(t) /\ u[i] = t[j]
      BY <1>1, <2>2
    <3> HIDE DEF j
    <3> QED BY <3>1, Members
  <2> QED BY <1>1, <2>1, <2>2
<1>3. \A y : y \in ToSet(u) => y \in ToSet(s) \cup ToSet(t)
  BY <1>1, <1>2, Members
<1>4. \A y : y \in ToSet(s) => y \in ToSet(u)
  <2> SUFFICES ASSUME NEW i \in 1..Len(s) PROVE s[i] \in ToSet(u)
    BY Members
  <2> i \in 1..Len(s) + Len(t) /\ i <= Len(s)
    BY <1>1
  <2> QED BY <1>1, Members
<1>5. \A y : y \in ToSet(t) => y \in ToSet(u)
  <2> SUFFICES ASSUME NEW i \in 1..Len(t) PROVE t[i] \in ToSet(u)
    BY Members
  <2> Len(s) + i \in 1..Len(s) + Len(t) /\ ~(Len(s) + i <= Len(s))
      /\ (Len(s) + i) - Len(s) = i
    BY <1>1
  <2> QED BY <1>1, Members, ZenonT(30)
<1> QED BY <1>1, <1>3, <1>4, <1>5 DEF u

LEMMA TailSet ==
  ASSUME NEW T, NEW s \in Seq(T), s # <<>>
  PROVE  /\ Head(s) \in T /\ Tail(s) \in Seq(T) /\ Len(Tail(s)) = Len(s) - 1
         /\ Head(s) = s[1] /\ \A i \in 1..Len(s) - 1 : Tail(s)[i] = s[i + 1]
         /\ ToSet(s) = {Head(s)} \cup ToSet(Tail(s))
<1> DEFINE t == Tail(s)
<1>1. /\ Head(s) = s[1] /\ t \in Seq(T) /\ Len(t) = Len(s) - 1 /\ Len(s) \in Nat \ {0}
      /\ \A i \in 1..Len(s) - 1 : t[i] = s[i + 1]
  OBVIOUS
<1> HIDE DEF t
<1>2. \A i \in 1..Len(s) : s[i] \in {Head(s)} \cup ToSet(t)
  <2> SUFFICES ASSUME NEW i \in 1..Len(s), i # 1 PROVE s[i] \in ToSet(t)
    BY <1>1
  <2> DEFINE j == i - 1
  <2>1. j \in 1..Len(t) /\ s[i] = t[j]
    BY <1>1
  <2> HIDE DEF j
  <2> QED BY <1>1, <2>1, Members
<1>3. Head(s) \in ToSet(s) /\ Head(s) \in T
  BY <1>1, Members
<1>4. \A i \in 1..Len(t) : t[i] \in ToSet(s)
  <2> SUFFICES ASSUME NEW i \in 1..Len(s) - 1 PROVE t[i] \in ToSet(s)
    BY <1>1
  <2> i + 1 \in 1..Len(s)
    BY <1>1
  <2> QED BY <1>1, Members
<1>5. \A y : y \in ToSet(s) => y \in {Head(s)} \cup ToSet(t)
  BY <1>2, Members
<1>6. \A y : y \in ToSet(t) => y \in ToSet(s)
  BY <1>1, <1>4, Members
<1> QED BY <1>1, <1>3, <1>5, <1>6 DEF t

LEMMA ExceptSet ==
  ASSUME NEW T, NEW s \in Seq(T), NEW i \in 1..Len(s), NEW x \in T
  PROVE  /\ [s EXCEPT ![i] = x] \in Seq(T) /\ Len([s EXCEPT ![i] = x]) = Len(s)
         /\ ToSet([s EXCEPT ![i] = x]) \subseteq ToSet(s) \cup {x}
         /\ ToSet(s) \subseteq ToSet([s EXCEPT ![i] = x]) \cup {s[i]}
         /\ x \in ToSet([s EXCEPT ![i] = x])
<1> DEFINE t == [s EXCEPT ![i] = x]
<1>1. t \in Seq(T) /\ Len(t) = Len(s) /\ \A j \in 1..Len(s) : t[j] = IF j = i THEN x ELSE s[j]
  OBVIOUS
<1> HIDE DEF t
<1>2. \A y : y \in ToSet(t) => y \in ToSet(s) \cup {x}
  BY <1>1, Members
<1>3. \A y : y \in ToSet(s) => y \in ToSet(t) \cup {s[i]}
  BY <1>1, Members
<1>4. x \in ToSet(t)
  BY <1>1, Members
<1> QED BY <1>1, <1>2, <1>3, <1>4 DEF t

LEMMA NoneSet == ToSet(<<>>) = {} /\ \A T : <<>> \in Seq(T)
  BY DEF ToSet

\* How many of a set of places lie up to one of them.
Rank(K, i) == Cardinality({ j \in K : j <= i })

LEMMA Ranks ==
  ASSUME NEW n \in Nat, NEW K \in SUBSET (1..n)
  PROVE  /\ IsFiniteSet(K) /\ Cardinality(K) \in Nat
         /\ \A i \in K : Rank(K, i) \in 1..Cardinality(K)
         /\ \A i, j \in K : i < j => Rank(K, i) < Rank(K, j)
         /\ \A k \in 1..Cardinality(K) : \E i \in K : Rank(K, i) = k
<1> DEFINE Up(i) == { j \in K : j <= i }
           c == Cardinality(K)
           rank == [i \in K |-> Rank(K, i)]
<1>1. IsFiniteSet(K) /\ c \in Nat
  <2>1. IsFiniteSet(1..n)
    BY FS_Interval
  <2> QED BY <2>1, FS_Subset, FS_CardinalityType
<1>2. ASSUME NEW i \in K
      PROVE  /\ IsFiniteSet(Up(i)) /\ Rank(K, i) \in 1..c
  <2>1. Up(i) \in SUBSET K
    OBVIOUS
  <2>2. IsFiniteSet(Up(i)) /\ Cardinality(Up(i)) <= c /\ Cardinality(Up(i)) \in Nat
    BY <1>1, <2>1, FS_Subset, FS_CardinalityType
  <2>3. Up(i) # {}
    OBVIOUS
  <2>4. Cardinality(Up(i)) # 0
    BY <2>2, <2>3, FS_EmptySet
  <2> QED BY <1>1, <2>2, <2>4 DEF Rank
<1>3. ASSUME NEW i \in K, NEW j \in K, i < j
      PROVE  Rank(K, i) < Rank(K, j)
  <2> i \in Int /\ j \in Int /\ \A k \in K : k \in Int
    OBVIOUS
  <2>0. \A k \in K : k <= i => k <= j
    BY <1>3
  <2>1. Up(i) \in SUBSET Up(j) /\ Up(j) # Up(i)
    <3>1. j <= j /\ ~(j <= i)
      BY <1>3
    <3>2. j \in Up(j) /\ j \notin Up(i)
      BY <3>1, Zenon
    <3>3. Up(i) \subseteq Up(j)
      BY <2>0, Zenon
    <3> QED BY <3>2, <3>3
  <2>2. Cardinality(Up(i)) <= Cardinality(Up(j)) /\ Cardinality(Up(i)) # Cardinality(Up(j))
    BY <1>2, <2>1, FS_Subset, Zenon
  <2>3. Cardinality(Up(i)) \in Nat /\ Cardinality(Up(j)) \in Nat
    BY <1>2, FS_CardinalityType
  <2> QED BY <2>2, <2>3 DEF Rank
<1>4. rank \in Injection(K, 1..c)
  <2>1. rank \in [K -> 1..c]
    BY <1>2
  <2>2. \A i, j \in K : rank[i] = rank[j] => i = j
    <3> SUFFICES ASSUME NEW i \in K, NEW j \in K, i # j PROVE rank[i] # rank[j]
      OBVIOUS
    <3>1. i \in Int /\ j \in Int /\ rank[i] \in Int /\ rank[j] \in Int
      BY <2>1
    <3>2. CASE i < j
      BY <1>3, <3>1, <3>2
    <3>3. CASE j < i
      BY <1>3, <3>1, <3>3
    <3> QED BY <3>1, <3>2, <3>3
  <2> QED BY <2>1, <2>2 DEF Injection, IsInjective
<1>5. IsFiniteSet(1..c) /\ Cardinality(1..c) = c
  BY <1>1, FS_Interval
<1>6. rank \in Surjection(K, 1..c)
  BY <1>1, <1>4, <1>5, FS_Injection
<1>7. \A k \in 1..c : \E i \in K : Rank(K, i) = k
  BY <1>6 DEF Surjection
<1> QED BY <1>1, <1>2, <1>3, <1>7

LEMMA Extremes ==
  ASSUME NEW n \in Nat, NEW K \in SUBSET (1..n), K # {}
  PROVE  /\ Min(K) \in K /\ \A i \in K : Min(K) <= i
         /\ Max(K) \in K /\ \A i \in K : i <= Max(K)
<1>1. /\ Cardinality(K) \in Nat \ {0}
      /\ \A i \in K : Rank(K, i) \in 1..Cardinality(K)
      /\ \A i, j \in K : i < j => Rank(K, i) < Rank(K, j)
      /\ \A k \in 1..Cardinality(K) : \E i \in K : Rank(K, i) = k
  <2>1. /\ IsFiniteSet(K) /\ Cardinality(K) \in Nat
        /\ \A i \in K : Rank(K, i) \in 1..Cardinality(K)
        /\ \A i, j \in K : i < j => Rank(K, i) < Rank(K, j)
        /\ \A k \in 1..Cardinality(K) : \E i \in K : Rank(K, i) = k
    BY Ranks
  <2>2. Cardinality(K) # 0
    BY <2>1, FS_EmptySet
  <2> QED BY <2>1, <2>2
<1>2. PICK a \in K : Rank(K, a) = 1
  BY <1>1
<1>3. PICK b \in K : Rank(K, b) = Cardinality(K)
  BY <1>1
<1>4. ASSUME NEW i \in K PROVE a <= i /\ i <= b
  <2>1. /\ i \in Int /\ a \in Int /\ b \in Int
        /\ Rank(K, i) \in 1..Cardinality(K)
    BY <1>1
  <2>2. ~(Rank(K, i) < Rank(K, a)) /\ ~(Rank(K, b) < Rank(K, i))
    BY <1>1, <1>2, <1>3, <2>1
  <2>3. ~(i < a) /\ ~(b < i)
    BY <1>1, <2>2
  <2> QED BY <2>1, <2>3
<1> QED BY <1>4 DEF Min, Max

\* What is left of a list is the members that were asked for, each from a place of its
\* own and in their order.
LEMMA OnlyIsPart ==
  ASSUME NEW T, NEW s \in Seq(T), NEW S
  PROVE  /\ Only(s, S) \in Seq(T) /\ Len(Only(s, S)) <= Len(s)
         /\ ToSet(Only(s, S)) = ToSet(s) \cap S
         /\ \E at \in [1..Len(Only(s, S)) -> 1..Len(s)] :
              /\ \A k \in 1..Len(Only(s, S)) : Only(s, S)[k] = s[at[k]]
              /\ \A k, l \in 1..Len(Only(s, S)) : k < l => at[k] < at[l]
<1> DEFINE K == { i \in DOMAIN s : s[i] \in S }
           c == Cardinality(K)
           At(k) == CHOOSE i \in K : Rank(K, i) = k
           at == [k \in 1..c |-> At(k)]
<1>1. DOMAIN s = 1..Len(s) /\ Len(s) \in Nat
  BY Members
<1>2. K \in SUBSET (1..Len(s))
  BY <1>1
<1> HIDE DEF K
<1>3. Only(s, S) = [k \in 1..c |-> s[At(k)]]
  BY DEF Only, K, Rank
<1>4. c \in Nat /\ \A k \in 1..c : At(k) \in K /\ Rank(K, At(k)) = k
  BY <1>1, <1>2, Ranks
<1>5. \A k \in 1..c : At(k) \in 1..Len(s) /\ s[At(k)] \in T /\ s[At(k)] \in S
  <2>1. \A i \in K : i \in 1..Len(s) /\ s[i] \in T /\ s[i] \in S
    BY <1>1 DEF K
  <2> QED BY <1>4, <2>1
<1>6. \A k, l \in 1..c : k < l => At(k) < At(l)
  <2> SUFFICES ASSUME NEW k \in 1..c, NEW l \in 1..c, ~(At(k) < At(l)) PROVE ~(k < l)
    OBVIOUS
  <2> DEFINE a == At(k)
             b == At(l)
  <2>1. a \in K /\ b \in K /\ Rank(K, a) = k /\ Rank(K, b) = l /\ a \in Int /\ b \in Int
    BY <1>4, <1>5
  <2> HIDE DEF a, b
  <2>2. b <= a
    BY <2>1 DEF a, b
  <2>3. CASE b = a
    BY <2>1, <2>3
  <2>4. CASE b < a
    <3>1. Rank(K, b) < Rank(K, a)
      BY <1>1, <1>2, <2>1, <2>4, Ranks
    <3> QED BY <2>1, <3>1
  <2> QED BY <2>1, <2>2, <2>3, <2>4
<1>7. \A i \in K : \E k \in 1..c : At(k) = i
  <2> SUFFICES ASSUME NEW i \in K PROVE \E k \in 1..c : At(k) = i
    OBVIOUS
  <2>1. Rank(K, i) \in 1..c
    BY <1>1, <1>2, Ranks
  <2> DEFINE k == Rank(K, i)
             b == At(k)
  <2>2. b \in K /\ Rank(K, b) = Rank(K, i)
    BY <1>4, <2>1
  <2> HIDE DEF b
  <2>3. b \in Int /\ i \in Int /\ Rank(K, i) \in Int
    BY <1>1, <1>2, <2>1, <2>2
  <2>4. /\ b < i => Rank(K, b) < Rank(K, i)
        /\ i < b => Rank(K, i) < Rank(K, b)
    BY <1>1, <1>2, <2>2, Ranks
  <2>5. b = i
    BY <2>2, <2>3, <2>4
  <2> QED BY <2>1, <2>5 DEF b
<1> DEFINE o == Only(s, S)
<1> HIDE DEF At
<1>13. c <= Len(s)
  <2>1. IsFiniteSet(1..Len(s)) /\ Cardinality(1..Len(s)) = Len(s)
    BY <1>1, FS_Interval
  <2> QED BY <1>2, <2>1, FS_Subset
<1>8. o \in Seq(T) /\ Len(o) = c /\ \A k \in 1..c : o[k] = s[At(k)]
  BY <1>3, <1>4, <1>5
<1> HIDE DEF o
<1>9. \A y : y \in ToSet(o) => y \in ToSet(s) \cap S
  BY <1>5, <1>8, Members
<1>10. \A y : y \in ToSet(s) \cap S => y \in ToSet(o)
  <2> SUFFICES ASSUME NEW i \in 1..Len(s), s[i] \in S PROVE s[i] \in ToSet(o)
    BY Members
  <2>1. i \in K
    BY <1>1 DEF K
  <2>2. PICK k \in 1..c : At(k) = i
    BY <1>7, <2>1
  <2> QED BY <1>8, <2>2, Members
<1>11. at \in [1..c -> 1..Len(s)]
  BY <1>5
<1>12. /\ \A k \in 1..c : o[k] = s[at[k]]
       /\ \A k, l \in 1..c : k < l => at[k] < at[l]
  BY <1>6, <1>8
<1>14. ToSet(o) = ToSet(s) \cap S
  BY <1>9, <1>10
<1> QED BY <1>8, <1>11, <1>12, <1>13, <1>14 DEF o

\* A list of a finite set has its elements.
LEMMA SetToSeqsSet ==
  ASSUME NEW T, NEW S \in SUBSET T, IsFiniteSet(S), NEW f \in SetToSeqs(S)
  PROVE  f \in Seq(T) /\ ToSet(f) = S
<1> DEFINE c == Cardinality(S)
<1>1. c \in Nat
  BY FS_CardinalityType
<1>2. f \in [1..c -> S] /\ \A i, j \in 1..c : i # j => f[i] # f[j]
  BY DEF SetToSeqs
<1>3. IsFiniteSet(1..c) /\ Cardinality(1..c) = c
  BY <1>1, FS_Interval
<1>4. f \in Injection(1..c, S)
  BY <1>2 DEF Injection, IsInjective
<1>5. f \in Surjection(1..c, S)
  BY <1>3, <1>4, FS_Injection
<1>6. f \in Seq(T)
  BY <1>1, <1>2
<1>7. ToSet(f) = S
  BY <1>2, <1>5 DEF ToSet, Surjection
<1> QED BY <1>6, <1>7

-----------------------------------------------------------------------------
Element == [id : Elem, v : Nat, wbid : Nat]
Drawn == [id : Elem, v : Nat \ {0}, wbid : {0}]
Row == [id : Elem, v : Nat, wbid : {0}]
Shown(n) == [id : Elem, v : Nat \ {0}, wbid : 0..n]
Stored(n) == [id : Elem, v : Nat \ {0}, wbid : 1..n]
Message(n) == [id : Elem, v : Nat, wbid : 1..n]
Frame == [op : {"snapshot", "add", "add_bulk", "update", "delete"}, els : Seq(Element)]

SceneOK ==
  /\ scene \in Seq(Element) /\ ToSet(scene) \subseteq Shown(Len(rows))
  /\ known \in [Elem -> [v : Nat, wbid : 0..Len(rows)]]

PendOK ==
  /\ creates \in Seq(Drawn)
  /\ updates \subseteq Stored(Len(rows)) /\ IsFiniteSet(updates)
  /\ deletes \subseteq 1..Len(rows)
  /\ timer \in BOOLEAN
  /\ ~timer => creates = <<>> /\ updates = {} /\ deletes = {}

FlightOK(fl, n) ==
  /\ fl \in [stage : {"idle", "posted", "answered"}, batch : Seq(Drawn), reply : Seq(1..n),
             updates : SUBSET Stored(n), deletes : SUBSET (1..n)]
  /\ IsFiniteSet(fl.updates)
  /\ Len(fl.reply) <= Len(fl.batch)
  /\ fl.stage = "idle" => fl = Landed

FlightsOK ==
  /\ flight = [f \in Flight |-> flight[f]]
  /\ \A f \in Flight : FlightOK(flight[f], Len(rows))

FrameOK(fr, n) ==
  /\ fr \in Frame
  /\ ToSet(fr.els) \subseteq IF fr.op = "delete" THEN Message(n) ELSE Stored(n)
  /\ fr.op # "snapshot" => fr.els # <<>>

WireOK ==
  /\ up \in Seq(Element) /\ ToSet(up) \subseteq Message(Len(rows))
  /\ down \in Seq(Frame) /\ \A fr \in ToSet(down) : FrameOK(fr, Len(rows))
  /\ answered \in Seq(Element) /\ ToSet(answered) \subseteq Stored(Len(rows))

CountsOK ==
  /\ edits \in Nat /\ others \in Nat
  /\ upload \in [Elem -> {"none", "asked", "stored", "failed"}]
  /\ due \in [Elem -> Int]
  /\ skipped \in BOOLEAN /\ raced \in BOOLEAN

BrowserTypeOK ==
  /\ rows \in Seq(Row)
  /\ SceneOK /\ PendOK /\ FlightsOK /\ WireOK /\ CountsOK

LEMMA Wider ==
  ASSUME NEW m \in Nat, NEW n \in Nat, m <= n
  PROVE  /\ Shown(m) \subseteq Shown(n) /\ Stored(m) \subseteq Stored(n)
         /\ Message(m) \subseteq Message(n) /\ 1..m \subseteq 1..n /\ 0..m \subseteq 0..n
         /\ Stored(n) \subseteq Message(n) /\ Stored(n) \subseteq Shown(n)
         /\ Shown(n) \subseteq Element /\ Message(n) \subseteq Element /\ Drawn \subseteq Shown(n)
         /\ Drawn \subseteq Element /\ Drawn \subseteq Row /\ Row \subseteq Element
BY DEF Shown, Stored, Message, Element, Drawn, Row

LEMMA BaselineIs ==
  ASSUME NEW els \in Seq(Element), NEW e \in Elem
  PROVE  \/ Baseline(els)[e] = Unknown /\ \A el \in ToSet(els) : el.id # e
         \/ \E el \in ToSet(els) : el.id = e /\ Baseline(els)[e] = Info(el)
<1> DEFINE places == { i \in DOMAIN els : els[i].id = e }
<1>1. Baseline(els)[e] = IF places = {} THEN Unknown ELSE Info(els[Max(places)])
  BY DEF Baseline
<1>2. CASE places = {}
  BY <1>1, <1>2 DEF ToSet
<1>3. CASE places # {}
  <2>1. places \in SUBSET (1..Len(els)) /\ Len(els) \in Nat
    OBVIOUS
  <2> HIDE DEF places
  <2>4. Max(places) \in places
    BY <1>3, <2>1, Extremes
  <2> USE DEF places
  <2> QED BY <1>1, <1>3, <2>4 DEF ToSet
<1> QED BY <1>2, <1>3

\* Lists of elements with different ids.
LEMMA DistinctMeans ==
  ASSUME NEW els \in Seq(Element), Distinct(els),
         NEW x \in ToSet(els), NEW y \in ToSet(els), x.id = y.id
  PROVE  x = y
<1>1. PICK i \in 1..Len(els) : els[i] = x
  BY Members
<1>2. PICK j \in 1..Len(els) : els[j] = y
  BY Members
<1>3. i \in DOMAIN els /\ j \in DOMAIN els
  OBVIOUS
<1> QED BY <1>1, <1>2, <1>3 DEF Distinct

LEMMA OnlyDistinct ==
  ASSUME NEW els \in Seq(Element), Distinct(els), NEW S
  PROVE  Distinct(Only(els, S))
<1> DEFINE o == Only(els, S)
<1>1. o \in Seq(Element)
  BY OnlyIsPart
<1>2. PICK at \in [1..Len(o) -> 1..Len(els)] :
        /\ \A k \in 1..Len(o) : o[k] = els[at[k]]
        /\ \A k, l \in 1..Len(o) : k < l => at[k] < at[l]
  BY OnlyIsPart
<1> HIDE DEF o
<1> SUFFICES ASSUME NEW k \in 1..Len(o), NEW l \in 1..Len(o), o[k].id = o[l].id
             PROVE  k = l
  BY <1>1 DEF Distinct, o
<1>3. at[k] = at[l]
  <2> at[k] \in DOMAIN els /\ at[l] \in DOMAIN els
    BY <1>2
  <2> QED BY <1>2 DEF Distinct
<1>4. k \in Int /\ l \in Int /\ at[k] \in Int /\ at[l] \in Int
  BY <1>1, <1>2
<1>5. ~(k < l) /\ ~(l < k)
  BY <1>2, <1>3, <1>4
<1> QED BY <1>4, <1>5

LEMMA ConcatDistinct ==
  ASSUME NEW s \in Seq(Element), NEW t \in Seq(Element), Distinct(s), Distinct(t),
         \A x \in ToSet(s), y \in ToSet(t) : x.id # y.id
  PROVE  Distinct(s \o t)
<1> DEFINE u == s \o t
<1>1. /\ u \in Seq(Element) /\ Len(u) = Len(s) + Len(t) /\ Len(s) \in Nat /\ Len(t) \in Nat
      /\ \A i \in 1..Len(s) + Len(t) : u[i] = IF i <= Len(s) THEN s[i] ELSE t[i - Len(s)]
  BY ConcatSet
<1> HIDE DEF u
<1>2. SUFFICES ASSUME NEW i \in 1..Len(u), NEW j \in 1..Len(u), u[i].id = u[j].id, i < j
               PROVE  FALSE
  <2>1. \A i, j \in 1..Len(u) : u[i].id = u[j].id => ~(i < j) /\ ~(j < i)
    BY <1>2, Zenon
  <2>2. \A i, j \in 1..Len(u) : u[i].id = u[j].id => i = j
    BY <1>1, <2>1
  <2> QED BY <1>1, <2>2 DEF Distinct, u
<1>3. CASE j <= Len(s)
  <2>1. i \in DOMAIN s /\ j \in DOMAIN s /\ u[i] = s[i] /\ u[j] = s[j]
    BY <1>1, <1>2, <1>3
  <2> QED BY <1>2, <2>1 DEF Distinct
<1>4. CASE i <= Len(s) /\ j > Len(s)
  <2> DEFINE l == j - Len(s)
  <2>1. i \in 1..Len(s) /\ l \in 1..Len(t) /\ u[i] = s[i] /\ u[j] = t[l]
    BY <1>1, <1>2, <1>4
  <2> HIDE DEF l
  <2>2. s[i] \in ToSet(s) /\ t[l] \in ToSet(t)
    BY <2>1, Members
  <2> QED BY <1>2, <2>1, <2>2
<1>5. CASE i > Len(s)
  <2> DEFINE k == i - Len(s)
             l == j - Len(s)
  <2>1. k \in 1..Len(t) /\ l \in 1..Len(t) /\ u[i] = t[k] /\ u[j] = t[l] /\ k # l
    BY <1>1, <1>2, <1>5
  <2> HIDE DEF k, l
  <2>2. k \in DOMAIN t /\ l \in DOMAIN t
    BY <2>1
  <2> QED BY <1>2, <2>1, <2>2 DEF Distinct
<1> QED BY <1>1, <1>2, <1>3, <1>4, <1>5

\* A list whose members are replaced one by one, ids kept.
LEMMA SameIdsDistinct ==
  ASSUME NEW s \in Seq(Element), NEW t \in Seq(Element), Len(s) = Len(t),
         \A i \in 1..Len(s) : s[i].id = t[i].id
  PROVE  /\ Distinct(s) <=> Distinct(t)
         /\ Ids(s) = Ids(t)
<1>1. DOMAIN s = 1..Len(s) /\ DOMAIN t = 1..Len(s)
  OBVIOUS
<1>2. Distinct(s) <=> Distinct(t)
  BY <1>1 DEF Distinct
<1>3. \A x \in ToSet(s) : \E y \in ToSet(t) : y.id = x.id
  BY <1>1 DEF ToSet
<1>4. \A x \in ToSet(t) : \E y \in ToSet(s) : y.id = x.id
  BY <1>1 DEF ToSet
<1>5. Ids(s) = Ids(t)
  BY <1>3, <1>4 DEF Ids
<1> QED BY <1>2, <1>5

-----------------------------------------------------------------------------
\* What handleChange makes of a list.

LEMMA CreatesAfter ==
  ASSUME NEW els \in Seq(Element), NEW made \in Seq(Drawn), NEW new \in SUBSET ToSet(els),
         new \subseteq Drawn
  PROVE  /\ SetCreates(made, els, new) \in Seq(Drawn)
         /\ ToSet(SetCreates(made, els, new)) \subseteq ToSet(made) \cup new
         /\ \A x \in ToSet(made) :
              (\A y \in new : y.id # x.id) => x \in ToSet(SetCreates(made, els, new))
         /\ Ids(SetCreates(made, els, new)) = Ids(made) \cup { x.id : x \in new }
         /\ Distinct(els) => new \subseteq ToSet(SetCreates(made, els, new))
         /\ Distinct(els) /\ Distinct(made) => Distinct(SetCreates(made, els, new))
<1> DEFINE Now(x) == IF \E el \in new : el.id = x.id THEN CHOOSE el \in new : el.id = x.id ELSE x
           a == [k \in DOMAIN made |-> Now(made[k])]
           b == Only(els, { el \in new : el.id \notin Ids(made) })
           t == SetCreates(made, els, new)
<1>1. t = a \o b
  BY DEF SetCreates
<1>2. \A x : /\ (\E el \in new : el.id = x.id) => Now(x) \in new /\ Now(x).id = x.id
             /\ (\A el \in new : el.id # x.id) => Now(x) = x
  OBVIOUS
<1> HIDE DEF Now
<1>3. \A x \in Drawn : Now(x) \in Drawn /\ Now(x).id = x.id
  BY <1>2
<1>4. a \in Seq(Drawn) /\ Len(a) = Len(made) /\ \A k \in 1..Len(made) : a[k] = Now(made[k])
  <2>1. \A k \in 1..Len(made) : made[k] \in Drawn
    OBVIOUS
  <2> QED BY <1>3, <2>1
<1>5. b \in Seq(Element) /\ ToSet(b) = { el \in new : el.id \notin Ids(made) }
  BY OnlyIsPart
<1>6. b \in Seq(Drawn)
  <2> HIDE DEF b
  <2>1. \A k \in 1..Len(b) : b[k] \in Drawn
    BY <1>5, Members
  <2> QED BY <1>5, <2>1
<1>7. \A x \in ToSet(made) : Now(x) \in ToSet(a)
  BY <1>4 DEF ToSet
<1>8. \A y \in ToSet(a) : \E x \in ToSet(made) : y = Now(x)
  BY <1>4 DEF ToSet
<1> HIDE DEF a, b, t
<1>9. t \in Seq(Drawn) /\ ToSet(t) = ToSet(a) \cup ToSet(b)
  BY <1>1, <1>4, <1>6, ConcatSet
<1>10. ToSet(made) \subseteq Drawn /\ ToSet(a) \subseteq Drawn
  BY <1>4, Members
<1>11. ToSet(a) \subseteq ToSet(made) \cup new
  BY <1>2, <1>8
<1>12. \A x \in ToSet(made) : (\A y \in new : y.id # x.id) => x \in ToSet(t)
  BY <1>2, <1>7, <1>9
<1>13. Ids(a) = Ids(made)
  BY <1>3, <1>7, <1>8, <1>10 DEF Ids
<1>14. Ids(t) = Ids(made) \cup { x.id : x \in new }
  <2>1. Ids(t) = Ids(a) \cup Ids(b)
    BY <1>9 DEF Ids
  <2>2. Ids(b) = { x.id : x \in new } \ Ids(made)
    BY <1>5 DEF Ids
  <2> QED BY <1>13, <2>1, <2>2
<1>15. ASSUME Distinct(els), NEW y \in new PROVE y \in ToSet(t)
  <2>1. CASE y.id \notin Ids(made)
    BY <1>5, <1>9, <2>1
  <2>2. CASE y.id \in Ids(made)
    <3>1. PICK x \in ToSet(made) : x.id = y.id
      BY <2>2 DEF Ids
    <3>2. Now(x) \in new /\ Now(x).id = y.id
      BY <1>2, <3>1
    <3>3. Now(x) = y
      BY <1>15, <3>2, DistinctMeans
    <3> QED BY <1>7, <1>9, <3>1, <3>3
  <2> QED BY <2>1, <2>2
<1>16. ASSUME Distinct(els), Distinct(made) PROVE Distinct(t)
  <2>1. Distinct(b)
    BY <1>16, OnlyDistinct DEF b
  <2>2. a \in Seq(Element) /\ made \in Seq(Element) /\ b \in Seq(Element)
    <3>1. Seq(Drawn) \subseteq Seq(Element)
      <4> Drawn \subseteq Element
        BY DEF Drawn, Element
      <4> QED BY WiderSeq
    <3> QED BY <1>4, <1>5, <3>1
  <2>3. Distinct(a)
    <3>1. \A k \in 1..Len(made) : made[k].id = a[k].id
      BY <1>3, <1>4
    <3> QED BY <1>4, <1>16, <2>2, <3>1, SameIdsDistinct
  <2>4. \A x \in ToSet(a), y \in ToSet(b) : x.id # y.id
    BY <1>5, <1>13 DEF Ids
  <2> QED BY <1>1, <2>1, <2>2, <2>3, <2>4, ConcatDistinct
<1>17. Distinct(els) => new \subseteq ToSet(t)
  BY <1>15
<1>18. Distinct(els) /\ Distinct(made) => Distinct(t)
  BY <1>16
<1>19. t \in Seq(Drawn)
  BY <1>9
<1>20. ToSet(t) \subseteq ToSet(made) \cup new
  BY <1>5, <1>9, <1>11
<1> QED BY <1>12, <1>14, <1>17, <1>18, <1>19, <1>20, Zenon DEF t

LEMMA FiniteMembers ==
  ASSUME NEW T, NEW s \in Seq(T)
  PROVE  IsFiniteSet(ToSet(s))
<1>1. s \in Surjection(1..Len(s), ToSet(s)) /\ Len(s) \in Nat
  BY DEF Surjection, ToSet
<1>2. IsFiniteSet(1..Len(s))
  BY <1>1, FS_Interval
<1> QED BY <1>1, <1>2, FS_Surjection

LEMMA FiniteRenewed ==
  ASSUME NEW S, IsFiniteSet(S), NEW old, NEW v
  PROVE  IsFiniteSet({ Renewed(el, old, v) : el \in S })
<1> DEFINE f == [el \in S |-> Renewed(el, old, v)]
           T == { Renewed(el, old, v) : el \in S }
<1>1. f \in Surjection(S, T)
  BY DEF Surjection
<1> QED BY <1>1, FS_Surjection

LEMMA RenewedKeeps ==
  ASSUME NEW el, NEW old, NEW v \in Nat \ {0}
  PROVE  /\ el \in Drawn => Renewed(el, old, v) \in Drawn
         /\ \A n \in Nat : el \in Stored(n) => Renewed(el, old, v) \in Stored(n)
         /\ el \in Element => /\ Renewed(el, old, v).id = el.id /\ Renewed(el, old, v).wbid = el.wbid
                              /\ Renewed(el, old, v).v \in {el.v, v}
                              /\ el.id = old.id /\ el.v = old.v => Renewed(el, old, v).v = v
                              /\ ~(el.id = old.id /\ el.v = old.v) => Renewed(el, old, v) = el
  BY DEF Renewed, Drawn, Stored, Element

-----------------------------------------------------------------------------
\* Every list, set and record has the form it should.

LEMMA HandleTypes ==
  ASSUME SceneOK, PendOK, rows \in Seq(Row), rows' = rows,
         NEW els \in Seq(Element), \A el \in ToSet(els) : el.wbid <= Len(rows),
         NEW held, NEW made \in Seq(Drawn),
         NEW changed \in SUBSET Stored(Len(rows)), IsFiniteSet(changed),
         HandleChange(els, held, made, changed)
  PROVE  PendOK' /\ known' \in [Elem -> [v : Nat, wbid : 0..Len(rows)]]
<1> DEFINE fresh == Fresh(els, held)
           touched == Touched(els, held)
           new == { el \in touched : el.wbid # 0 }
           n == Len(rows)
           Seen(e) == { el \in fresh \cup touched : el.id = e }
<1>0. n \in Nat /\ ToSet(els) \subseteq Element
  BY Members
<1>1. fresh \subseteq ToSet(els) /\ touched \subseteq ToSet(els)
  BY DEF Fresh, Touched
<1>2. \A el \in fresh \cup touched : el \in Shown(n)
  BY <1>0 DEF Fresh, Touched, Shown, Element
<1> HIDE DEF fresh, touched
<1>3. known' \in [Elem -> [v : Nat, wbid : 0..n]]
  <2>1. known' = [e \in Elem |-> IF e \in Gone(els) THEN Unknown
                                 ELSE IF Seen(e) = {} THEN known[e]
                                 ELSE Info(CHOOSE el \in Seen(e) : TRUE)]
    BY DEF HandleChange, fresh, touched
  <2>2. ASSUME NEW e \in Elem, Seen(e) # {}
        PROVE  Info(CHOOSE el \in Seen(e) : TRUE) \in [v : Nat, wbid : 0..n]
    <3>1. (CHOOSE el \in Seen(e) : TRUE) \in Seen(e)
      BY <2>2
    <3>2. (CHOOSE el \in Seen(e) : TRUE) \in Shown(n)
      BY <1>2, <3>1
    <3> QED BY <3>2 DEF Info, Shown
  <2>3. Unknown \in [v : Nat, wbid : 0..n]
    BY <1>0 DEF Unknown
  <2>4. \A e \in Elem : known[e] \in [v : Nat, wbid : 0..n]
    BY DEF SceneOK
  <2> QED BY <2>1, <2>2, <2>3, <2>4
<1>4. creates' \in Seq(Drawn)
  <2> DEFINE drawn == { el \in fresh : el.wbid = 0 }
  <2>1. creates' = SetCreates(made, els, drawn)
    BY DEF HandleChange, fresh
  <2>2. drawn \in SUBSET ToSet(els) /\ drawn \subseteq Drawn
    BY <1>1, <1>2 DEF Shown, Drawn
  <2> QED BY <2>1, <2>2, CreatesAfter
<1>5. updates' \subseteq Stored(n) /\ IsFiniteSet(updates')
  <2>1. updates' = SetUpdates(changed, new)
    BY DEF HandleChange, touched
  <2>2. new \subseteq Stored(n)
    BY <1>0, <1>2 DEF Shown, Stored
  <2>3. IsFiniteSet(ToSet(els))
    BY FiniteMembers
  <2>4. new \in SUBSET ToSet(els)
    BY <1>1
  <2>5. IsFiniteSet(new)
    BY <2>3, <2>4, FS_Subset
  <2>6. updates' \in SUBSET (changed \cup new)
    BY <2>1 DEF SetUpdates
  <2>7. IsFiniteSet(changed \cup new)
    BY <2>5, FS_Union
  <2>8. IsFiniteSet(updates')
    BY <2>6, <2>7, FS_Subset
  <2> QED BY <2>2, <2>6, <2>8
<1>6. deletes' \subseteq 1..n
  <2>1. deletes' = deletes \cup ({ known[e].wbid : e \in Gone(els) } \ {0})
    BY DEF HandleChange
  <2>2. \A e \in Gone(els) : known[e].wbid \in 0..n
    BY DEF Gone, SceneOK
  <2>3. deletes \subseteq 1..n
    BY DEF PendOK
  <2>4. \A e \in Gone(els) : known[e].wbid # 0 => known[e].wbid \in 1..n
    BY <1>0, <2>2
  <2> QED BY <2>1, <2>3, <2>4
<1>7. timer' = (timer \/ creates' # <<>> \/ updates' # {} \/ deletes' # {})
  BY DEF HandleChange
<1>8. timer' \in BOOLEAN /\ (~timer' => creates' = <<>> /\ updates' = {} /\ deletes' = {})
  BY <1>7 DEF PendOK
<1> QED BY <1>3, <1>4, <1>5, <1>6, <1>8 DEF PendOK

\* What is put on the socket: the updates and the deletes, if it is open; their edits are
\* given up, if it is not.
LEMMA Sent ==
  ASSUME rows \in Seq(Row), up \in Seq(Element), ToSet(up) \subseteq Message(Len(rows)),
         due \in [Elem -> Int],
         NEW changed \in SUBSET Stored(Len(rows)), IsFiniteSet(changed),
         NEW erased \in SUBSET (1..Len(rows)), NEW lostToo,
         Send(changed, erased, lostToo)
  PROVE  LET els == changed \cup { El(rows[w].id, 0, w) : w \in erased }
         IN  /\ up' \in Seq(Element) /\ ToSet(up') \subseteq Message(Len(rows))
             /\ due' \in [Elem -> Int]
             /\ els \subseteq Message(Len(rows))
             /\ \/ ToSet(up') = ToSet(up) \cup els /\ due' = Dropped(lostToo)
                \/ up' = up /\ due' = Dropped(lostToo \cup { el.id : el \in els })
<1> DEFINE n == Len(rows)
           gone == { El(rows[w].id, 0, w) : w \in erased }
           els == changed \cup gone
<1>0. n \in Nat
  OBVIOUS
<1>1. \A w \in 1..n : El(rows[w].id, 0, w) \in Message(n)
  <2> \A w \in 1..n : rows[w] \in Row /\ w \in 1..n /\ 0 \in Nat
    OBVIOUS
  <2> HIDE DEF n
  <2> QED BY DEF El, Message, Row
<1>2. IsFiniteSet(gone)
  <2> DEFINE f == [w \in erased |-> El(rows[w].id, 0, w)]
  <2>1. f \in Surjection(erased, gone)
    BY DEF Surjection
  <2>2. IsFiniteSet(1..n)
    BY <1>0, FS_Interval
  <2>3. IsFiniteSet(erased)
    BY <2>2, FS_Subset
  <2> QED BY <2>1, <2>3, FS_Surjection
<1>3. IsFiniteSet(els \ changed)
  <2>1. (els \ changed) \in SUBSET gone
    OBVIOUS
  <2> QED BY <1>2, <2>1, FS_Subset
<1>4. els \subseteq Message(n)
  BY <1>0, <1>1, Wider
<1>5. Message(n) \subseteq Element /\ els \subseteq Element
  BY <1>0, <1>4, Wider
<1>6. \A ids : Dropped(ids) \in [Elem -> Int]
  BY DEF Dropped
<1> HIDE DEF gone, els
<1>7. CASE socket = "open"
  <2>1. PICK a \in SetToSeqs(changed), b \in SetToSeqs(els \ changed) :
          up' = up \o a \o b /\ due' = Dropped(lostToo)
    BY <1>7 DEF Send, els, gone
  <2>2. a \in Seq(Element) /\ ToSet(a) = changed
    BY <1>5, SetToSeqsSet DEF els
  <2>3. b \in Seq(Element) /\ ToSet(b) = els \ changed
    BY <1>3, <1>5, SetToSeqsSet
  <2>4. up \o a \in Seq(Element) /\ ToSet(up \o a) = ToSet(up) \cup changed
    BY <2>2, ConcatSet
  <2>5. up' \in Seq(Element) /\ ToSet(up') = ToSet(up \o a) \cup ToSet(b)
    BY <2>1, <2>3, <2>4, ConcatSet, ZenonT(30)
  <2>6. changed \subseteq els
    BY DEF els
  <2>7. ToSet(up') = ToSet(up) \cup els
    BY <2>3, <2>4, <2>5, <2>6
  <2> QED BY <1>4, <1>6, <2>1, <2>5, <2>7 DEF els, gone
<1>8. CASE socket # "open"
  <2>1. up' = up /\ due' = Dropped(lostToo \cup { el.id : el \in els })
    BY <1>8 DEF Send, els, gone
  <2> QED BY <1>4, <1>6, <2>1 DEF els, gone
<1> QED BY <1>7, <1>8

LEMMA ApplyTypes ==
  ASSUME rows \in Seq(Row), rows' = rows,
         NEW els \in Seq(Element), ToSet(els) \subseteq Shown(Len(rows)), ApplyScene(els)
  PROVE  SceneOK'
<1> DEFINE n == Len(rows)
<1>0. n \in Nat
  OBVIOUS
<1>1. scene' = els /\ known' = Baseline(els)
  BY DEF ApplyScene
<1>2. \A e \in Elem : Baseline(els)[e] \in [v : Nat, wbid : 0..n]
  <2> SUFFICES ASSUME NEW e \in Elem PROVE Baseline(els)[e] \in [v : Nat, wbid : 0..n]
    OBVIOUS
  <2>1. Unknown \in [v : Nat, wbid : 0..n]
    BY <1>0 DEF Unknown
  <2>2. \A el \in ToSet(els) : Info(el) \in [v : Nat, wbid : 0..n]
    BY DEF Info, Shown
  <2> QED BY <2>1, <2>2, BaselineIs
<1>3. Baseline(els) = [e \in Elem |-> Baseline(els)[e]]
  BY DEF Baseline
<1> HIDE DEF n
<1> QED BY <1>1, <1>2, <1>3 DEF SceneOK, n

LEMMA TypesDraw ==
  ASSUME BrowserTypeOK, NEW e \in Elem, NEW isImage \in BOOLEAN, Draw(e, isImage)
  PROVE  BrowserTypeOK'
<1> DEFINE n == Len(rows)
           x == El(e, edits', 0)
           held == IF isImage THEN HeldBack \cup {e} ELSE HeldBack
<1>0. n \in Nat /\ rows \in Seq(Row) /\ SceneOK /\ PendOK /\ CountsOK /\ WireOK /\ FlightsOK
  BY DEF BrowserTypeOK
<1>1. /\ edits' = edits + 1 /\ scene' = Append(scene, x) /\ rows' = rows
      /\ HandleChange(scene', held, creates, updates)
      /\ upload' = IF isImage THEN [upload EXCEPT ![e] = "asked"] ELSE upload
      /\ due' = [due EXCEPT ![e] = edits']
      /\ UNCHANGED <<flight, netVars, others, raceVars>>
  BY DEF Draw
<1>2. x \in Shown(n) /\ x \in Element
  BY <1>0, <1>1 DEF El, Shown, Element, CountsOK
<1>3. scene' \in Seq(Element) /\ ToSet(scene') = ToSet(scene) \cup {x}
  BY <1>0, <1>1, <1>2, AppendSet DEF SceneOK
<1>4. ToSet(scene') \subseteq Shown(n)
  BY <1>0, <1>2, <1>3 DEF SceneOK
<1>5. \A el \in ToSet(scene') : el.wbid <= n
  BY <1>0, <1>4 DEF Shown
<1> HIDE DEF x, held
<1>6. PendOK' /\ known' \in [Elem -> [v : Nat, wbid : 0..n]]
  BY <1>0, <1>1, <1>3, <1>5, HandleTypes DEF PendOK
<1>7. SceneOK'
  BY <1>1, <1>3, <1>4, <1>6 DEF SceneOK
<1>8. FlightsOK' /\ WireOK'
  BY <1>0, <1>1 DEF FlightsOK, WireOK, netVars
<1>9. CountsOK'
  BY <1>0, <1>1 DEF CountsOK, raceVars
<1> QED BY <1>0, <1>1, <1>6, <1>7, <1>8, <1>9 DEF BrowserTypeOK

LEMMA TypesReport ==
  ASSUME BrowserTypeOK, Report
  PROVE  BrowserTypeOK'
<1> DEFINE n == Len(rows)
<1>0. n \in Nat /\ rows \in Seq(Row) /\ SceneOK /\ PendOK /\ CountsOK /\ WireOK /\ FlightsOK
  BY DEF BrowserTypeOK
<1>1. /\ HandleChange(scene, HeldBack, creates, updates)
      /\ UNCHANGED <<scene, flight, rows, netVars, countVars, historyVars>>
  BY DEF Report
<1>2. scene \in Seq(Element) /\ \A el \in ToSet(scene) : el.wbid <= n
  BY <1>0 DEF SceneOK, Shown
<1>3. PendOK' /\ known' \in [Elem -> [v : Nat, wbid : 0..n]]
  BY <1>0, <1>1, <1>2, HandleTypes DEF PendOK
<1>4. SceneOK'
  BY <1>0, <1>1, <1>3 DEF SceneOK
<1>5. FlightsOK' /\ WireOK'
  BY <1>0, <1>1 DEF FlightsOK, WireOK, netVars
<1>6. CountsOK'
  BY <1>0, <1>1 DEF CountsOK, countVars, historyVars, raceVars
<1> QED BY <1>0, <1>1, <1>3, <1>4, <1>5, <1>6 DEF BrowserTypeOK

LEMMA TypesErase ==
  ASSUME BrowserTypeOK, NEW i \in DOMAIN scene, NEW reported \in BOOLEAN, Erase(i, reported)
  PROVE  BrowserTypeOK'
<1> DEFINE n == Len(rows)
           x == [scene[i] EXCEPT !.v = 0]
           els == IF reported THEN [scene EXCEPT ![i].v = 0] ELSE scene'
<1>0. n \in Nat /\ rows \in Seq(Row) /\ SceneOK /\ PendOK /\ CountsOK /\ WireOK /\ FlightsOK
  BY DEF BrowserTypeOK
<1>1. /\ scene' = Only(scene, ToSet(scene) \ {scene[i]})
      /\ HandleChange(els, HeldBack, creates, updates)
      /\ UNCHANGED <<flight, rows, netVars, countVars, raceVars>>
  BY DEF Erase
<1>2. scene \in Seq(Element) /\ i \in 1..Len(scene) /\ ToSet(scene) \subseteq Shown(n)
  BY <1>0 DEF SceneOK
<1>3. scene' \in Seq(Element) /\ ToSet(scene') \subseteq ToSet(scene)
  BY <1>1, <1>2, OnlyIsPart
<1>4. scene[i] \in Element /\ scene[i] \in ToSet(scene)
  BY <1>2, Members
<1>5. x \in Element /\ x.wbid = scene[i].wbid
  BY <1>4 DEF Element
<1>6. [scene EXCEPT ![i].v = 0] = [scene EXCEPT ![i] = x]
  BY <1>2
<1>7. /\ [scene EXCEPT ![i] = x] \in Seq(Element)
      /\ ToSet([scene EXCEPT ![i] = x]) \subseteq ToSet(scene) \cup {x}
  BY <1>2, <1>5, ExceptSet
<1>8. \A el \in ToSet(scene) : el.wbid <= n
  BY <1>0, <1>2 DEF Shown
<1>9. els \in Seq(Element) /\ \A el \in ToSet(els) : el.wbid <= n
  BY <1>3, <1>4, <1>5, <1>6, <1>7, <1>8
<1> HIDE DEF els
<1>10. PendOK' /\ known' \in [Elem -> [v : Nat, wbid : 0..n]]
  BY <1>0, <1>1, <1>9, HandleTypes DEF PendOK
<1>11. SceneOK'
  BY <1>1, <1>2, <1>3, <1>10 DEF SceneOK
<1>12. FlightsOK' /\ WireOK'
  BY <1>0, <1>1 DEF FlightsOK, WireOK, netVars
<1>13. CountsOK'
  <2>1. due \in [Elem -> Int]
    BY <1>0 DEF CountsOK
  <2>2. \E b \in Int : due' = [due EXCEPT ![scene[i].id] = b]
    <3> DEFINE b == IF scene[i].wbid = 0 /\ scene[i].id \notin Ids(creates) \cup Overtaken
                      THEN 0 ELSE Erased
    <3>1. b \in Int
      BY DEF Erased
    <3>2. due' = [due EXCEPT ![scene[i].id] = b]
      BY DEF Erase
    <3> QED BY <3>1, <3>2
  <2>3. due' \in [Elem -> Int]
    BY <2>1, <2>2
  <2> QED BY <1>0, <1>1, <2>3 DEF CountsOK, countVars, raceVars
<1> QED BY <1>0, <1>1, <1>10, <1>11, <1>12, <1>13 DEF BrowserTypeOK

LEMMA TypesEdit ==
  ASSUME BrowserTypeOK, NEW i \in DOMAIN scene, NEW inPlace \in BOOLEAN, Edit(i, inPlace)
  PROVE  BrowserTypeOK'
<1> DEFINE n == Len(rows)
           old == scene[i]
           v == edits + 1
           x == [old EXCEPT !.v = v]
           Now(el) == IF inPlace THEN Renewed(el, old, v) ELSE el
           made == [k \in DOMAIN creates |-> Now(creates[k])]
           changed == { Now(el) : el \in updates }
<1>0. n \in Nat /\ rows \in Seq(Row) /\ SceneOK /\ PendOK /\ CountsOK /\ WireOK /\ FlightsOK
  BY DEF BrowserTypeOK
<1>1. /\ scene' = [scene EXCEPT ![i] = x] /\ edits' = v
      /\ HandleChange(scene', HeldBack, made, changed)
      /\ flight' = [f \in Flight |->
                      [flight[f] EXCEPT !.updates = { Now(el) : el \in flight[f].updates }]]
      /\ UNCHANGED <<rows, netVars, others, upload, raceVars>>
  BY DEF Edit
<1>2. scene \in Seq(Element) /\ i \in 1..Len(scene) /\ ToSet(scene) \subseteq Shown(n)
  BY <1>0 DEF SceneOK
<1>3. old \in Shown(n) /\ old \in Element /\ v \in Nat \ {0}
  BY <1>0, <1>2, Members DEF CountsOK
<1>4. x \in Shown(n) /\ x \in Element
  BY <1>3 DEF Shown, Element
<1> HIDE DEF x, v, old
<1>5. scene' \in Seq(Element) /\ ToSet(scene') \subseteq ToSet(scene) \cup {x}
  BY <1>1, <1>2, <1>4, ExceptSet
<1>6. ToSet(scene') \subseteq Shown(n)
  BY <1>2, <1>4, <1>5
<1>7. \A el \in ToSet(scene') : el.wbid <= n
  BY <1>0, <1>6 DEF Shown
<1>8. \A el : (el \in Drawn => Now(el) \in Drawn) /\ (el \in Stored(n) => Now(el) \in Stored(n))
  BY <1>0, <1>3, RenewedKeeps
<1>9. \A S : IsFiniteSet(S) => IsFiniteSet({ Now(el) : el \in S })
  <2> SUFFICES ASSUME NEW S, IsFiniteSet(S) PROVE IsFiniteSet({ Now(el) : el \in S })
    OBVIOUS
  <2>1. CASE inPlace
    <3>1. { Now(el) : el \in S } = { Renewed(el, old, v) : el \in S }
      BY <2>1
    <3> QED BY <3>1, FiniteRenewed
  <2>2. CASE ~inPlace
    <3>1. { Now(el) : el \in S } = S
      BY <2>2
    <3> QED BY <3>1
  <2> QED BY <2>1, <2>2
<1> HIDE DEF Now
<1>10. made \in Seq(Drawn)
  <2>1. creates \in Seq(Drawn)
    BY <1>0 DEF PendOK
  <2>2. \A k \in 1..Len(creates) : creates[k] \in Drawn
    BY <2>1
  <2> QED BY <1>8, <2>1, <2>2
<1>11. changed \in SUBSET Stored(n) /\ IsFiniteSet(changed)
  <2>1. updates \subseteq Stored(n) /\ IsFiniteSet(updates)
    BY <1>0 DEF PendOK
  <2> QED BY <1>8, <1>9, <2>1
<1> HIDE DEF made, changed
<1>12. PendOK' /\ known' \in [Elem -> [v : Nat, wbid : 0..n]]
  BY <1>0, <1>1, <1>5, <1>7, <1>10, <1>11, HandleTypes
<1>13. SceneOK'
  BY <1>1, <1>5, <1>6, <1>12 DEF SceneOK
<1>14. FlightsOK'
  <2>1. ASSUME NEW f \in Flight PROVE FlightOK(flight'[f], n)
    <3> DEFINE fl == flight[f]
               now == { Now(el) : el \in fl.updates }
    <3>1. FlightOK(fl, n)
      BY <1>0 DEF FlightsOK
    <3>2. fl.updates \subseteq Stored(n) /\ IsFiniteSet(fl.updates)
      BY <3>1 DEF FlightOK
    <3>3. now \subseteq Stored(n) /\ IsFiniteSet(now)
      BY <1>8, <1>9, <3>2
    <3>4. flight'[f] = [fl EXCEPT !.updates = now]
      BY <1>1
    <3>5. fl.updates = {} => now = {}
      OBVIOUS
    <3> HIDE DEF fl, now
    <3>6. /\ fl.stage \in {"idle", "posted", "answered"} /\ fl.batch \in Seq(Drawn)
          /\ fl.reply \in Seq(1..n) /\ fl.deletes \in SUBSET (1..n)
          /\ Len(fl.reply) <= Len(fl.batch) /\ (fl.stage = "idle" => fl = Landed)
          /\ fl = [stage |-> fl.stage, batch |-> fl.batch, reply |-> fl.reply,
                   updates |-> fl.updates, deletes |-> fl.deletes]
      BY <3>1 DEF FlightOK
    <3>7. flight'[f] = [stage |-> fl.stage, batch |-> fl.batch, reply |-> fl.reply,
                        updates |-> now, deletes |-> fl.deletes]
      BY <3>4, <3>6
    <3>8. fl.stage = "idle" => fl.updates = {}
      BY <3>6 DEF Landed
    <3>9. fl.stage = "idle" => flight'[f] = Landed
      BY <3>5, <3>6, <3>7, <3>8 DEF Landed
    <3> QED BY <3>3, <3>6, <3>7, <3>9 DEF FlightOK
  <2>2. flight' = [f \in Flight |-> flight'[f]]
    BY <1>1
  <2> QED BY <1>1, <2>1, <2>2 DEF FlightsOK
<1>15. WireOK'
  BY <1>0, <1>1 DEF WireOK, netVars
<1>16. CountsOK'
  <2>1. due' \in [Elem -> Int]
    <3>1. \E b \in Int : due' = [due EXCEPT ![old.id] = b]
      <4> DEFINE b == IF \/ old.wbid # 0 \/ old.id \in Overtaken
                         \/ inPlace /\ old \in ToSet(creates) THEN x.v ELSE 0
      <4>1. b \in Int
        BY <1>4 DEF Shown
      <4>2. due' = [due EXCEPT ![old.id] = b]
        BY DEF Edit, old, x, v
      <4> QED BY <4>1, <4>2
    <3> QED BY <1>0, <3>1 DEF CountsOK
  <2> QED BY <1>0, <1>1, <1>3, <2>1 DEF CountsOK, raceVars
<1> QED BY <1>0, <1>1, <1>12, <1>13, <1>14, <1>15, <1>16 DEF BrowserTypeOK

LEMMA TypesUpload ==
  ASSUME BrowserTypeOK, NEW e \in Elem, UploadLands(e) \/ UploadFails(e)
  PROVE  BrowserTypeOK'
<1> DEFINE n == Len(rows)
           els == Only(scene, { el \in ToSet(scene) : el.id # e })
<1>0. n \in Nat /\ rows \in Seq(Row) /\ SceneOK /\ PendOK /\ CountsOK /\ WireOK /\ FlightsOK
  BY DEF BrowserTypeOK
<1>1. UNCHANGED <<pendVars, flight, rows, netVars, edits, others, raceVars>>
  BY DEF UploadLands, UploadFails, historyVars
<1>2. PendOK' /\ FlightsOK' /\ WireOK'
  BY <1>0, <1>1 DEF PendOK, FlightsOK, WireOK, pendVars, netVars
<1>3. SceneOK'
  <2>1. CASE UploadLands(e)
    BY <1>0, <1>1, <2>1 DEF UploadLands, SceneOK
  <2>2. CASE UploadFails(e)
    <3>1. els \in Seq(Element) /\ ToSet(els) \subseteq Shown(n)
      BY <1>0, OnlyIsPart DEF SceneOK
    <3> QED BY <1>0, <1>1, <2>2, <3>1, ApplyTypes DEF UploadFails
  <2> QED BY <2>1, <2>2
<1>4. CountsOK'
  <2>1. \E s \in {"stored", "failed"} : upload' = [upload EXCEPT ![e] = s]
    BY DEF UploadLands, UploadFails
  <2>2. due' \in [Elem -> Int]
    BY <1>0 DEF UploadLands, UploadFails, CountsOK, historyVars, Dropped
  <2> QED BY <1>0, <1>1, <2>1, <2>2 DEF CountsOK, raceVars
<1> QED BY <1>0, <1>1, <1>2, <1>3, <1>4 DEF BrowserTypeOK

LEMMA TypesFlush ==
  ASSUME BrowserTypeOK, NEW f \in Flight, Flush(f)
  PROVE  BrowserTypeOK'
<1> DEFINE n == Len(rows)
           batch == Only(creates, { el \in ToSet(creates) : el.id \in Ids(scene) })
           wiped == { e \in Ids(creates) \ Ids(scene) : due[e] # Erased }
           fl == [stage |-> "posted", batch |-> batch, reply |-> <<>>,
                  updates |-> updates, deletes |-> deletes]
<1>0. n \in Nat /\ rows \in Seq(Row) /\ SceneOK /\ PendOK /\ CountsOK /\ WireOK /\ FlightsOK
  BY DEF BrowserTypeOK
<1>1. /\ timer' = FALSE /\ creates' = <<>> /\ updates' = {} /\ deletes' = {}
      /\ raced' = (raced \/ \E g \in Flight : flight[g].updates # {})
      /\ UNCHANGED <<scene, known, rows, down, socket, http, answered, countVars, skipped>>
  BY DEF Flush
<1>2. \/ Send(updates, deletes, wiped) /\ flight' = flight
      \/ flight' = [flight EXCEPT ![f] = fl] /\ due' = Dropped(wiped) /\ up' = up
  BY DEF Flush
<1>3. PendOK'
  BY <1>1, FS_EmptySet, NoneSet DEF PendOK
<1>4. SceneOK'
  BY <1>0, <1>1 DEF SceneOK
<1>5. updates \in SUBSET Stored(n) /\ IsFiniteSet(updates) /\ deletes \in SUBSET (1..n)
  BY <1>0 DEF PendOK
<1>6. batch \in Seq(Drawn) /\ Len(batch) \in Nat
  BY <1>0, OnlyIsPart DEF PendOK
<1> HIDE DEF batch, wiped
<1>7. FlightOK(fl, n)
  <2>2. <<>> \in Seq(1..n) /\ Len(<<>>) = 0
    OBVIOUS
  <2> QED BY <1>5, <1>6, <2>2 DEF FlightOK
<1> HIDE DEF fl
<1>8. FlightsOK'
  <2>1. CASE flight' = flight
    BY <1>0, <1>1, <2>1 DEF FlightsOK
  <2>2. CASE flight' = [flight EXCEPT ![f] = fl]
    <3>1. /\ flight' = [g \in Flight |-> flight'[g]]
          /\ \A g \in Flight : flight'[g] = IF g = f THEN fl ELSE flight[g]
      BY <1>0, <2>2 DEF FlightsOK
    <3> QED BY <1>0, <1>1, <1>7, <3>1 DEF FlightsOK
  <2> QED BY <1>2, <2>1, <2>2
<1>9. /\ up' \in Seq(Element) /\ ToSet(up') \subseteq Message(n)
      /\ due' \in [Elem -> Int]
  <2>1. up \in Seq(Element) /\ ToSet(up) \subseteq Message(n) /\ due \in [Elem -> Int]
    BY <1>0 DEF WireOK, CountsOK
  <2>2. CASE Send(updates, deletes, wiped)
    BY <1>0, <1>5, <2>1, <2>2, Sent
  <2>3. CASE due' = Dropped(wiped) /\ up' = up
    BY <2>1, <2>3 DEF Dropped
  <2> QED BY <1>2, <2>2, <2>3
<1>10. WireOK'
  BY <1>0, <1>1, <1>9 DEF WireOK
<1>11. CountsOK'
  BY <1>0, <1>1, <1>9 DEF CountsOK, countVars
<1> QED BY <1>0, <1>1, <1>3, <1>4, <1>8, <1>10, <1>11 DEF BrowserTypeOK

\* An element gets one of these ids of rows, at the place it has in the batch.
GetsTag(old, new, batch, reply) ==
  \E k \in 1..Len(reply) : batch[k].id = old.id /\ new = [old EXCEPT !.wbid = reply[k]]

LEMMA StampedIs ==
  ASSUME NEW els \in Seq(Element), NEW batch, NEW R, NEW reply \in Seq(R)
  PROVE  /\ Len(Stamped(els, batch, reply)) = Len(els)
         /\ DOMAIN Stamped(els, batch, reply) = DOMAIN els
         /\ \A i \in 1..Len(els) :
              \/ /\ Stamped(els, batch, reply)[i] = els[i]
                 /\ \A k \in 1..Len(reply) : batch[k].id # els[i].id
              \/ GetsTag(els[i], Stamped(els, batch, reply)[i], batch, reply)
<1> DEFINE places(i) == { k \in DOMAIN reply : batch[k].id = els[i].id }
<1>1. Stamped(els, batch, reply) =
        [i \in DOMAIN els |-> IF places(i) = {} THEN els[i]
                              ELSE [els[i] EXCEPT !.wbid = reply[Max(places(i))]]]
  BY DEF Stamped
<1>2. Len(reply) \in Nat /\ DOMAIN reply = 1..Len(reply)
  OBVIOUS
<1>3. \A i : places(i) \in SUBSET (1..Len(reply))
  BY <1>2
<1>4. \A i : places(i) # {} => Max(places(i)) \in places(i)
  BY <1>2, <1>3, Extremes
<1>5. \A i : places(i) # {} => Max(places(i)) \in 1..Len(reply) /\ batch[Max(places(i))].id = els[i].id
  BY <1>2, <1>4
<1>6. \A i : places(i) = {} => \A k \in 1..Len(reply) : batch[k].id # els[i].id
  BY <1>2
<1> HIDE DEF places
<1>7. DOMAIN els = 1..Len(els) /\ Len(els) \in Nat
  OBVIOUS
<1>8. Len(Stamped(els, batch, reply)) = Len(els) /\ DOMAIN Stamped(els, batch, reply) = DOMAIN els
  BY <1>1, <1>7
<1>9. ASSUME NEW i \in 1..Len(els)
      PROVE  \/ /\ Stamped(els, batch, reply)[i] = els[i]
                /\ \A k \in 1..Len(reply) : batch[k].id # els[i].id
             \/ GetsTag(els[i], Stamped(els, batch, reply)[i], batch, reply)
  <2>1. CASE places(i) = {}
    BY <1>1, <1>6, <1>7, <2>1
  <2>2. CASE places(i) # {}
    BY <1>1, <1>5, <1>7, <2>2 DEF GetsTag
  <2> QED BY <2>1, <2>2
<1> QED BY <1>8, <1>9

LEMMA TypesLanding ==
  ASSUME BrowserTypeOK, NEW f \in Flight, Answer(f) \/ PostFails(f)
  PROVE  BrowserTypeOK'
<1> DEFINE n == Len(rows)
           fl == flight[f]
<1>0. n \in Nat /\ rows \in Seq(Row) /\ SceneOK /\ PendOK /\ CountsOK /\ WireOK /\ FlightsOK
  BY DEF BrowserTypeOK
<1>1. /\ flight' = [flight EXCEPT ![f] = Landed]
      /\ UNCHANGED <<pendVars, rows, down, socket, http, answered, countVars, raceVars>>
      /\ \E lost : Send(fl.updates, fl.deletes, lost)
  BY DEF Answer, PostFails
<1>2. PendOK'
  BY <1>0, <1>1 DEF PendOK, pendVars
<1>3. FlightOK(fl, n)
  BY <1>0 DEF FlightsOK
<1>4. /\ fl.updates \in SUBSET Stored(n) /\ IsFiniteSet(fl.updates) /\ fl.deletes \in SUBSET (1..n)
      /\ fl.reply \in Seq(1..n)
  BY <1>3 DEF FlightOK
<1>5. FlightOK(Landed, n)
  <2> <<>> \in Seq(1..n) /\ <<>> \in Seq(Drawn) /\ Len(<<>>) = 0 /\ IsFiniteSet({})
    BY FS_EmptySet
  <2> QED BY DEF FlightOK, Landed
<1>6. FlightsOK'
  <2>1. /\ flight' = [g \in Flight |-> flight'[g]]
        /\ \A g \in Flight : flight'[g] = IF g = f THEN Landed ELSE flight[g]
    BY <1>0, <1>1 DEF FlightsOK
  <2> QED BY <1>0, <1>1, <1>5, <2>1 DEF FlightsOK
<1>7. /\ up' \in Seq(Element) /\ ToSet(up') \subseteq Message(n)
      /\ due' \in [Elem -> Int]
  <2>1. up \in Seq(Element) /\ ToSet(up) \subseteq Message(n) /\ due \in [Elem -> Int]
    BY <1>0 DEF WireOK, CountsOK
  <2> HIDE DEF fl, n
  <2> QED BY <1>0, <1>1, <1>4, <2>1, Sent DEF n
<1>8. SceneOK'
  <2>1. CASE UNCHANGED <<scene, known>>
    BY <1>0, <1>1, <2>1 DEF SceneOK
  <2>2. CASE ApplyScene(Stamped(scene, fl.batch, fl.reply))
    <3> DEFINE els == Stamped(scene, fl.batch, fl.reply)
    <3>1. scene \in Seq(Element) /\ ToSet(scene) \subseteq Shown(n)
      BY <1>0 DEF SceneOK
    <3>2. \A i \in 1..Len(scene) : scene[i] \in Shown(n)
      BY <3>1, Members
    <3>3. \A k \in 1..Len(fl.reply) : fl.reply[k] \in 1..n
      BY <1>4
    <3>4. \A x \in Shown(n), w \in 1..n : [x EXCEPT !.wbid = w] \in Shown(n)
      BY DEF Shown
    <3>5. \A i \in 1..Len(scene) :
            \/ els[i] = scene[i]
            \/ \E k \in 1..Len(fl.reply) : els[i] = [scene[i] EXCEPT !.wbid = fl.reply[k]]
      <4> DEFINE r == fl.reply
                 b == fl.batch
                 R == 1..n
      <4>1. r \in Seq(R)
        BY <1>4
      <4> HIDE DEF r, b, R
      <4>2. \A i \in 1..Len(scene) :
              \/ Stamped(scene, b, r)[i] = scene[i]
              \/ \E k \in 1..Len(r) : Stamped(scene, b, r)[i] = [scene[i] EXCEPT !.wbid = r[k]]
        BY <3>1, <4>1, StampedIs DEF GetsTag
      <4> QED BY <4>2 DEF r, b
    <3> HIDE DEF els, fl
    <3>6. \A i \in 1..Len(scene) : els[i] \in Shown(n)
      <4> SUFFICES ASSUME NEW i \in 1..Len(scene) PROVE els[i] \in Shown(n)
        OBVIOUS
      <4>1. CASE els[i] = scene[i]
        BY <3>2, <4>1
      <4>2. ASSUME NEW k \in 1..Len(fl.reply), els[i] = [scene[i] EXCEPT !.wbid = fl.reply[k]]
            PROVE  els[i] \in Shown(n)
        BY <3>2, <3>3, <3>4, <4>2
      <4> QED BY <3>5, <4>1, <4>2
    <3>7. els = [i \in 1..Len(scene) |-> els[i]]
      BY <3>1 DEF Stamped, els
    <3>8. els \in Seq(Shown(n)) /\ Shown(n) \subseteq Element
      BY <1>0, <3>1, <3>6, <3>7, Wider
    <3>9. els \in Seq(Element) /\ ToSet(els) \subseteq Shown(n)
      BY <3>8, Members, WiderSeq
    <3> QED BY <1>0, <1>1, <2>2, <3>9, ApplyTypes DEF els, fl
  <2> QED BY <2>1, <2>2 DEF Answer, PostFails
<1>9. WireOK'
  BY <1>0, <1>1, <1>7 DEF WireOK
<1>10. CountsOK'
  BY <1>0, <1>1, <1>7 DEF CountsOK, countVars, raceVars
<1> QED BY <1>0, <1>1, <1>2, <1>6, <1>8, <1>9, <1>10 DEF BrowserTypeOK

\* More rows: what was well formed stays so.
LEMMA Grown ==
  ASSUME BrowserTypeOK, rows' \in Seq(Row), Len(rows) <= Len(rows')
  PROVE  LET n == Len(rows')
         IN  /\ ToSet(scene) \subseteq Shown(n) /\ known \in [Elem -> [v : Nat, wbid : 0..n]]
             /\ updates \subseteq Stored(n) /\ deletes \subseteq 1..n
             /\ \A f \in Flight : FlightOK(flight[f], n)
             /\ ToSet(up) \subseteq Message(n) /\ ToSet(answered) \subseteq Stored(n)
             /\ \A fr \in ToSet(down) : FrameOK(fr, n)
<1> DEFINE m == Len(rows)
           n == Len(rows')
<1>1. m \in Nat /\ n \in Nat /\ m <= n
  BY DEF BrowserTypeOK
<1> HIDE DEF m, n
<1>2. /\ Shown(m) \subseteq Shown(n) /\ Stored(m) \subseteq Stored(n)
      /\ Message(m) \subseteq Message(n) /\ 1..m \subseteq 1..n /\ 0..m \subseteq 0..n
  BY <1>1, Wider
<1>3. ToSet(scene) \subseteq Shown(n) /\ known \in [Elem -> [v : Nat, wbid : 0..n]]
  <2>1. known \in [Elem -> [v : Nat, wbid : 0..m]] /\ ToSet(scene) \subseteq Shown(m)
    BY DEF BrowserTypeOK, SceneOK, m
  <2>2. [v : Nat, wbid : 0..m] \subseteq [v : Nat, wbid : 0..n]
    BY <1>2
  <2> QED BY <1>2, <2>1, <2>2
<1>4. updates \subseteq Stored(n) /\ deletes \subseteq 1..n
  BY <1>2 DEF BrowserTypeOK, PendOK, m
<1>5. ASSUME NEW f \in Flight PROVE FlightOK(flight[f], n)
  <2> DEFINE fl == flight[f]
  <2>1. FlightOK(fl, m)
    BY DEF BrowserTypeOK, FlightsOK, m
  <2> HIDE DEF fl
  <2>2. fl.reply \in Seq(1..n) /\ fl.updates \in SUBSET Stored(n) /\ fl.deletes \in SUBSET (1..n)
    <3>1. Seq(1..m) \subseteq Seq(1..n)
      BY <1>2, WiderSeq
    <3> QED BY <1>2, <2>1, <3>1 DEF FlightOK
  <2>3. FlightOK(fl, n)
    BY <2>1, <2>2 DEF FlightOK
  <2> QED BY <2>3 DEF fl
<1>6. ToSet(up) \subseteq Message(n) /\ ToSet(answered) \subseteq Stored(n)
  BY <1>2 DEF BrowserTypeOK, WireOK, m
<1>7. \A fr \in ToSet(down) : FrameOK(fr, n)
  <2>1. \A fr \in ToSet(down) : FrameOK(fr, m)
    BY DEF BrowserTypeOK, WireOK, m
  <2> QED BY <1>2, <2>1 DEF FrameOK
<1> QED BY <1>3, <1>4, <1>5, <1>6, <1>7 DEF n

LEMMA Told ==
  ASSUME NEW n, down \in Seq(Frame), \A fr \in ToSet(down) : FrameOK(fr, n),
         NEW frame, FrameOK(frame, n), Tell(frame)
  PROVE  /\ down' \in Seq(Frame) /\ \A fr \in ToSet(down') : FrameOK(fr, n)
         /\ ToSet(down') \subseteq ToSet(down) \cup {frame}
<1>1. frame \in Frame
  BY DEF FrameOK
<1>2. CASE socket = "open"
  <2>1. down' = Append(down, frame)
    BY <1>2 DEF Tell
  <2>2. down' \in Seq(Frame) /\ ToSet(down') = ToSet(down) \cup {frame}
    BY <1>1, <2>1, AppendSet
  <2> QED BY <2>2
<1>3. CASE socket # "open"
  BY <1>3 DEF Tell
<1> QED BY <1>2, <1>3

LEMMA KeptIs ==
  ASSUME NEW batch \in Seq(Drawn)
  PROVE  /\ Kept(batch) \in Seq(Drawn) /\ Len(Kept(batch)) <= Len(batch)
         /\ ToSet(Kept(batch)) \subseteq ToSet(batch)
<1>1. Len(batch) \in Nat
  OBVIOUS
<1>2. CASE Len(batch) = 1
  <2>1. Kept(batch) = batch
    BY <1>2 DEF Kept
  <2> QED BY <1>1, <2>1
<1>3. CASE Len(batch) # 1
  BY <1>3, OnlyIsPart DEF Kept
<1> QED BY <1>2, <1>3

LEMMA CreatedIs ==
  ASSUME rows \in Seq(Row), NEW kept \in Seq(Drawn)
  PROVE  LET m == Len(rows) + Len(kept)
             new == Created(kept)
         IN  /\ rows \o kept \in Seq(Row) /\ Len(rows \o kept) = m
             /\ new \in Seq(Stored(m)) /\ Len(new) = Len(kept)
             /\ \A k \in 1..Len(kept) : /\ new[k].id = kept[k].id /\ new[k].v = kept[k].v
                                        /\ new[k].wbid = Len(rows) + k
                                        /\ (rows \o kept)[Len(rows) + k] = kept[k]
             /\ \A w \in 1..Len(rows) : (rows \o kept)[w] = rows[w]
<1> DEFINE n == Len(rows)
           l == Len(kept)
           new == Created(kept)
           all == rows \o kept
<1>1. n \in Nat /\ l \in Nat /\ Drawn \subseteq Row
  BY DEF Drawn, Row
<1>2. kept \in Seq(Row)
  BY <1>1, WiderSeq
<1>3. /\ all \in Seq(Row) /\ Len(all) = n + l
      /\ \A i \in 1..n + l : all[i] = IF i <= n THEN rows[i] ELSE kept[i - n]
  BY <1>2, ConcatSet
<1>4. new = [k \in 1..l |-> El(kept[k].id, kept[k].v, n + k)]
  BY DEF Created
<1> HIDE DEF new, all
<1>5. ASSUME NEW k \in 1..l
      PROVE  /\ new[k].id = kept[k].id /\ new[k].v = kept[k].v /\ new[k].wbid = n + k
             /\ new[k] \in Stored(n + l) /\ all[n + k] = kept[k]
  <2>1. kept[k] \in Drawn
    OBVIOUS
  <2> HIDE DEF n, l
  <2>2. n + k \in 1..n + l /\ ~(n + k <= n) /\ (n + k) - n = k
    BY <1>1
  <2>3. new[k] = El(kept[k].id, kept[k].v, n + k)
    BY <1>4
  <2>4. all[n + k] = kept[k]
    BY <1>3, <2>2
  <2> QED BY <2>1, <2>2, <2>3, <2>4 DEF El, Stored, Drawn
<1>6. new \in Seq(Stored(n + l)) /\ Len(new) = l
  <2> HIDE DEF n, l
  <2>1. \A k \in 1..l : new[k] \in Stored(n + l)
    BY <1>5
  <2>2. new \in [1..l -> Stored(n + l)]
    BY <1>4, <2>1
  <2> QED BY <1>1, <2>2
<1>7. \A w \in 1..n : all[w] = rows[w]
  BY <1>1, <1>3
<1> QED BY <1>3, <1>5, <1>6, <1>7 DEF new, all

LEMMA TypesCreate ==
  ASSUME BrowserTypeOK, NEW f \in Flight, Create(f)
  PROVE  BrowserTypeOK'
<1> DEFINE fl == flight[f]
           batch == fl.batch
           kept == Kept(batch)
           new == Created(kept)
           n == Len(rows')
           reply == [k \in DOMAIN new |-> new[k].wbid]
           frame == [op |-> IF Len(batch) = 1 THEN "add" ELSE "add_bulk", els |-> new]
<1>0. rows \in Seq(Row) /\ SceneOK /\ PendOK /\ CountsOK /\ WireOK /\ FlightsOK
  BY DEF BrowserTypeOK
<1>1. /\ fl.stage = "posted" /\ rows' = rows \o kept
      /\ flight' = [flight EXCEPT ![f].stage = "answered", ![f].reply = reply]
      /\ IF new = <<>> THEN UNCHANGED down ELSE Tell(frame)
      /\ due' = Reached(kept)
      /\ skipped' = (skipped \/ kept # batch)
      /\ UNCHANGED <<scene, known, pendVars, up, socket, http, answered, countVars, raced>>
  BY DEF Create
<1>2. FlightOK(fl, Len(rows))
  BY <1>0 DEF FlightsOK
<1>3. batch \in Seq(Drawn)
  BY <1>2 DEF FlightOK
<1>4. kept \in Seq(Drawn) /\ Len(kept) <= Len(batch)
  BY <1>3, KeptIs
<1> HIDE DEF kept
<1>5. /\ rows' \in Seq(Row) /\ n = Len(rows) + Len(kept)
      /\ new \in Seq(Stored(n)) /\ Len(new) = Len(kept)
  BY <1>0, <1>1, <1>4, CreatedIs
<1>6. Len(rows) \in Nat /\ Len(kept) \in Nat /\ n \in Nat /\ Len(rows) <= n
  BY <1>0, <1>4, <1>5
<1> HIDE DEF new
<1>7. /\ ToSet(scene) \subseteq Shown(n) /\ known \in [Elem -> [v : Nat, wbid : 0..n]]
      /\ updates \subseteq Stored(n) /\ deletes \subseteq 1..n
      /\ \A g \in Flight : FlightOK(flight[g], n)
      /\ ToSet(up) \subseteq Message(n) /\ ToSet(answered) \subseteq Stored(n)
      /\ \A fr \in ToSet(down) : FrameOK(fr, n)
  BY <1>5, <1>6, Grown
<1>8. SceneOK' /\ PendOK'
  BY <1>0, <1>1, <1>7 DEF SceneOK, PendOK, pendVars
<1>9. FlightsOK'
  <2> DEFINE now == [stage |-> "answered", batch |-> batch, reply |-> reply,
                     updates |-> fl.updates, deletes |-> fl.deletes]
  <2>1. FlightOK(fl, n)
    BY <1>7
  <2>2. reply \in Seq(1..n) /\ Len(reply) = Len(kept)
    <3>1. \A k \in 1..Len(kept) : new[k] \in Stored(n)
      BY <1>5
    <3>2. \A k \in 1..Len(kept) : new[k].wbid \in 1..n
      BY <3>1 DEF Stored
    <3>3. DOMAIN new = 1..Len(kept)
      BY <1>5
    <3> QED BY <1>6, <3>2, <3>3
  <2> HIDE DEF reply
  <2>3. FlightOK(now, n)
    BY <1>4, <2>1, <2>2 DEF FlightOK
  <2>4. flight' = [g \in Flight |-> flight'[g]] /\ \A g \in Flight : g # f => flight'[g] = flight[g]
    BY <1>0, <1>1 DEF FlightsOK
  <2>5. flight'[f] = now
    <3>1. flight'[f] = [[fl EXCEPT !.stage = "answered"] EXCEPT !.reply = reply]
      BY <1>0, <1>1 DEF FlightsOK
    <3>2. fl = [stage |-> fl.stage, batch |-> fl.batch, reply |-> fl.reply,
                updates |-> fl.updates, deletes |-> fl.deletes]
      BY <2>1 DEF FlightOK
    <3> HIDE DEF fl
    <3> QED BY <3>1, <3>2
  <2> HIDE DEF now
  <2>6. \A g \in Flight : FlightOK(flight'[g], n)
    BY <1>7, <2>3, <2>4, <2>5
  <2> QED BY <2>4, <2>6 DEF FlightsOK
<1>10. down' \in Seq(Frame) /\ \A fr \in ToSet(down') : FrameOK(fr, n)
  <2>1. CASE new = <<>>
    BY <1>0, <1>1, <1>7, <2>1 DEF WireOK
  <2>2. CASE new # <<>>
    <3>1. new \in Seq(Element) /\ ToSet(new) \subseteq Stored(n)
      <4>1. Stored(n) \subseteq Element
        BY <1>6, Wider
      <4> QED BY <1>5, <4>1, WiderSeq, Members
    <3>2. FrameOK(frame, n)
      <4>1. frame.op \in {"add", "add_bulk"} /\ frame.els = new
        OBVIOUS
      <4>2. frame \in Frame
        BY <3>1 DEF Frame
      <4> HIDE DEF frame
      <4> QED BY <2>2, <3>1, <4>1, <4>2 DEF FrameOK
    <3> QED BY <1>0, <1>1, <1>7, <2>2, <3>2, Told DEF WireOK
  <2> QED BY <2>1, <2>2
<1>11. WireOK'
  BY <1>0, <1>1, <1>7, <1>10 DEF WireOK
<1>12. CountsOK'
  <2>1. due' \in [Elem -> Int]
    BY <1>0, <1>1 DEF Reached, CountsOK
  <2> QED BY <1>0, <1>1, <2>1 DEF CountsOK, countVars
<1> QED BY <1>5, <1>8, <1>9, <1>11, <1>12 DEF BrowserTypeOK

\* What one row becomes; the others are as they were.
LEMMA TypesRow ==
  ASSUME BrowserTypeOK, NEW w \in 1..Len(rows), NEW r \in Row, rows' = [rows EXCEPT ![w] = r],
         NEW m, m \in Message(Len(rows)),
         Tell([op |-> IF m.v = 0 THEN "delete" ELSE "update", els |-> <<m>>])
  PROVE  /\ rows' \in Seq(Row) /\ Len(rows') = Len(rows)
         /\ down' \in Seq(Frame) /\ \A fr \in ToSet(down') : FrameOK(fr, Len(rows))
<1> DEFINE n == Len(rows)
           frame == [op |-> IF m.v = 0 THEN "delete" ELSE "update", els |-> <<m>>]
<1>1. rows \in Seq(Row) /\ n \in Nat
  BY DEF BrowserTypeOK
<1>2. rows' \in Seq(Row) /\ Len(rows') = n
  BY <1>1
<1>3. m \in Element
  BY <1>1, Wider
<1>4. <<m>> \in Seq(Element) /\ ToSet(<<m>>) = {m} /\ <<m>> # <<>>
  BY <1>3 DEF ToSet
<1>5. m.v # 0 => m \in Stored(n)
  BY DEF Message, Stored
<1> DEFINE one == <<m>>
<1> HIDE DEF one, n
<1>6. FrameOK(frame, n)
  <2>1. frame.op = (IF m.v = 0 THEN "delete" ELSE "update") /\ frame.els = one
        /\ frame \in [op : {"delete", "update"}, els : {one}]
    BY DEF one
  <2> HIDE DEF frame
  <2>2. frame \in Frame
    BY <1>4, <2>1 DEF Frame, one
  <2>3. ToSet(frame.els) \subseteq IF frame.op = "delete" THEN Message(n) ELSE Stored(n)
    <3>1. m.v # 0 => frame.op = "update"
      BY <2>1
    <3> QED BY <1>4, <1>5, <2>1, <3>1 DEF one, n
  <2> QED BY <1>4, <2>1, <2>2, <2>3 DEF FrameOK, one
<1>7. down \in Seq(Frame) /\ \A fr \in ToSet(down) : FrameOK(fr, n)
  BY DEF BrowserTypeOK, WireOK, n
<1>8. Tell(frame)
  BY Zenon
<1> HIDE DEF frame
<1> QED BY <1>2, <1>6, <1>7, <1>8, Told DEF n

LEMMA SameLength ==
  ASSUME BrowserTypeOK, rows' \in Seq(Row), Len(rows') = Len(rows),
         UNCHANGED <<scene, known, pendVars, flight, answered>>,
         up' \in Seq(Element), ToSet(up') \subseteq ToSet(up),
         down' \in Seq(Frame), \A fr \in ToSet(down') : FrameOK(fr, Len(rows)),
         CountsOK'
  PROVE  BrowserTypeOK'
<1>1. SceneOK /\ PendOK /\ WireOK /\ FlightsOK
  BY DEF BrowserTypeOK
<1>2. SceneOK'
  BY <1>1 DEF SceneOK
<1>3. PendOK'
  BY <1>1 DEF PendOK, pendVars
<1>4. FlightsOK'
  BY <1>1 DEF FlightsOK
<1>5. WireOK'
  BY <1>1 DEF WireOK
<1> QED BY <1>2, <1>3, <1>4, <1>5 DEF BrowserTypeOK

LEMMA TypesServe ==
  ASSUME BrowserTypeOK, Serve
  PROVE  BrowserTypeOK'
<1> DEFINE el == Head(up)
           n == Len(rows)
           w == el.wbid
           r == IF el.v = 0 THEN [rows[w] EXCEPT !.v = 0] ELSE El(el.id, el.v, 0)
<1>0. rows \in Seq(Row) /\ CountsOK /\ WireOK /\ n \in Nat
  BY DEF BrowserTypeOK
<1>1. /\ up # <<>> /\ up' = Tail(up)
      /\ UNCHANGED <<scene, known, pendVars, flight, socket, http, answered, countVars, raceVars>>
  BY DEF Serve
<1>2. \/ UNCHANGED <<rows, down, due>>
      \/ /\ rows' = [rows EXCEPT ![w] = r]
         /\ Tell([op |-> IF el.v = 0 THEN "delete" ELSE "update", els |-> <<el>>])
         /\ due' = Reached(<<el>>)
  BY DEF Serve
<1>3. /\ el \in Message(n) /\ up' \in Seq(Element) /\ ToSet(up') \subseteq ToSet(up)
  <2>1. up \in Seq(Element) /\ ToSet(up) \subseteq Message(n)
    BY <1>0 DEF WireOK
  <2> QED BY <1>1, <2>1, TailSet
<1> HIDE DEF el
<1>4. w \in 1..n /\ r \in Row
  <2>1. w \in 1..n /\ el.id \in Elem /\ el.v \in Nat
    BY <1>3 DEF Message
  <2>2. rows[w] \in Row
    BY <1>0, <2>1
  <2> HIDE DEF w
  <2> QED BY <2>1, <2>2 DEF Row, El
<1> HIDE DEF r, w
<1>5. /\ rows' \in Seq(Row) /\ Len(rows') = n
      /\ down' \in Seq(Frame) /\ \A fr \in ToSet(down') : FrameOK(fr, n)
  <2>1. CASE UNCHANGED <<rows, down, due>>
    BY <1>0, <2>1 DEF WireOK
  <2>2. CASE /\ rows' = [rows EXCEPT ![w] = r]
             /\ Tell([op |-> IF el.v = 0 THEN "delete" ELSE "update", els |-> <<el>>])
    BY <1>3, <1>4, <2>2, TypesRow
  <2> QED BY <1>2, <2>1, <2>2
<1>6. CountsOK'
  <2>1. due' \in [Elem -> Int]
    BY <1>0, <1>2 DEF CountsOK, Reached
  <2> QED BY <1>0, <1>1, <2>1 DEF CountsOK, countVars, raceVars
<1> QED BY <1>1, <1>3, <1>5, <1>6, SameLength

LEMMA TypesOther ==
  ASSUME BrowserTypeOK, NEW w \in DOMAIN rows, NEW v \in Nat, Other(w, v)
  PROVE  BrowserTypeOK'
<1> DEFINE n == Len(rows)
           r == [rows[w] EXCEPT !.v = v]
           m == El(rows[w].id, v, w)
<1>0. rows \in Seq(Row) /\ CountsOK /\ WireOK /\ n \in Nat
  BY DEF BrowserTypeOK
<1>1. /\ others' = others + 1 /\ rows' = [rows EXCEPT ![w].v = v]
      /\ Tell([op |-> IF v = 0 THEN "delete" ELSE "update", els |-> <<m>>])
      /\ UNCHANGED <<scene, known, pendVars, flight, up, socket, http, answered, edits, upload, historyVars>>
  BY DEF Other
<1>2. w \in 1..n /\ rows[w] \in Row
  BY <1>0
<1>3. rows' = [rows EXCEPT ![w] = r]
  BY <1>0, <1>1, <1>2
<1> HIDE DEF n
<1>4. r \in Row /\ m \in Message(n) /\ m.v = v
  BY <1>2 DEF Row, Message, El
<1> HIDE DEF r, m
<1>5. /\ rows' \in Seq(Row) /\ Len(rows') = n
      /\ down' \in Seq(Frame) /\ \A fr \in ToSet(down') : FrameOK(fr, n)
  <2>1. Tell([op |-> IF m.v = 0 THEN "delete" ELSE "update", els |-> <<m>>])
    BY <1>1, <1>4
  <2> QED BY <1>2, <1>3, <1>4, <2>1, TypesRow DEF n
<1>6. CountsOK'
  BY <1>0, <1>1 DEF CountsOK, historyVars, raceVars
<1>7. up' \in Seq(Element) /\ ToSet(up') \subseteq ToSet(up)
  BY <1>0, <1>1 DEF WireOK
<1> QED BY <1>1, <1>5, <1>6, <1>7, SameLength DEF n

\* What a snapshot carries.
LEMMA BoardIs ==
  ASSUME rows \in Seq(Row)
  PROVE  /\ Board \in Seq(Element) /\ ToSet(Board) \subseteq Stored(Len(rows))
         /\ \A el : el \in ToSet(Board) <=>
              \E w \in 1..Len(rows) : rows[w].v # 0 /\ el = El(rows[w].id, rows[w].v, w)
<1> DEFINE n == Len(rows)
           all == [w \in DOMAIN rows |-> El(rows[w].id, rows[w].v, w)]
           some == { el \in ToSet(all) : el.v # 0 }
<1>1. n \in Nat /\ DOMAIN rows = 1..n
  OBVIOUS
<1>2. ASSUME NEW w \in 1..n
      PROVE  /\ all[w] = El(rows[w].id, rows[w].v, w) /\ all[w].v = rows[w].v
             /\ all[w] \in Message(n)
  <2>1. rows[w] \in Row
    OBVIOUS
  <2> HIDE DEF n
  <2> QED BY <1>1, <2>1 DEF Row, Message, El
<1>3. all \in Seq(Message(n)) /\ Len(all) = n
  <2> HIDE DEF n
  <2>1. all = [w \in 1..n |-> all[w]]
    BY <1>1
  <2> HIDE DEF all
  <2> QED BY <1>1, <1>2, <2>1
<1>4. Board = Only(all, some)
  BY DEF Board
<1>5. Message(n) \subseteq Element
  BY <1>1, Wider
<1> HIDE DEF all, n
<1>6. all \in Seq(Element)
  BY <1>3, <1>5, WiderSeq
<1>7. Board \in Seq(Element) /\ ToSet(Board) = some
  BY <1>4, <1>6, OnlyIsPart
<1>8. \A el : el \in ToSet(all) <=> \E w \in 1..n : el = all[w]
  BY <1>3, Members
<1>9. \A el : el \in ToSet(Board) <=>
               \E w \in 1..n : rows[w].v # 0 /\ el = El(rows[w].id, rows[w].v, w)
  <2>1. \A el : el \in ToSet(Board) <=> el \in ToSet(all) /\ el.v # 0
    BY <1>7
  <2> QED BY <1>2, <1>8, <2>1
<1>10. ToSet(Board) \subseteq Stored(n)
  <2>1. \A el \in Message(n) : el.v # 0 => el \in Stored(n)
    BY DEF Message, Stored
  <2>2. ToSet(all) \subseteq Message(n)
    BY <1>3, Members
  <2> QED BY <1>7, <2>1, <2>2
<1> QED BY <1>7, <1>9, <1>10 DEF n

\* The scene that a frame makes: what was there, and what the frame brings, at most.
LEMMA MergedIs ==
  ASSUME NEW n \in Nat, scene \in Seq(Element), ToSet(scene) \subseteq Shown(n),
         NEW fr, FrameOK(fr, n)
  PROVE  /\ Merged(fr) \in Seq(Element) /\ ToSet(Merged(fr)) \subseteq Shown(n)
         /\ ToSet(Merged(fr)) \subseteq ToSet(scene) \cup ToSet(fr.els)
         /\ fr.op = "delete" =>
              /\ ToSet(Merged(fr)) = { el \in ToSet(scene) : el.wbid # fr.els[1].wbid }
              /\ Distinct(scene) => Distinct(Merged(fr))
         /\ fr.op = "snapshot" => Merged(fr) = fr.els
         /\ fr.op # "snapshot" => fr.els[1] \in ToSet(fr.els)
<1>0. /\ fr.op \in {"snapshot", "add", "add_bulk", "update", "delete"} /\ fr.els \in Seq(Element)
      /\ ToSet(fr.els) \subseteq IF fr.op = "delete" THEN Message(n) ELSE Stored(n)
      /\ fr.op # "snapshot" => fr.els # <<>>
  BY DEF FrameOK, Frame
<1>1. Stored(n) \subseteq Shown(n) /\ Shown(n) \subseteq Element /\ Message(n) \subseteq Element
  BY Wider
<1>2. fr.op # "snapshot" => fr.els[1] \in ToSet(fr.els)
  <2> DEFINE els == fr.els
  <2>1. els \in Seq(Element) /\ (fr.op # "snapshot" => els # <<>>)
    BY <1>0
  <2> HIDE DEF els
  <2>2. els # <<>> => els[1] \in ToSet(els)
    <3>1. els # <<>> => 1 \in 1..Len(els)
      BY <2>1
    <3> QED BY <2>1, <3>1, Members
  <2> QED BY <2>1, <2>2 DEF els
<1>3. CASE fr.op = "snapshot"
  <2>1. Merged(fr) = fr.els
    BY <1>3 DEF Merged
  <2> QED BY <1>0, <1>1, <1>3, <2>1
<1>4. CASE fr.op = "add_bulk"
  <2> DEFINE b == Only(fr.els, { el \in ToSet(fr.els) : \A x \in ToSet(scene) : x.wbid # el.wbid })
  <2>1. Merged(fr) = scene \o b
    BY <1>4 DEF Merged
  <2>2. b \in Seq(Element) /\ ToSet(b) \subseteq ToSet(fr.els)
    <3> DEFINE els == fr.els
    <3>1. els \in Seq(Element)
      BY <1>0
    <3> HIDE DEF els
    <3>2. \A S : Only(els, S) \in Seq(Element) /\ ToSet(Only(els, S)) \subseteq ToSet(els)
      BY <3>1, OnlyIsPart
    <3> QED BY <3>2 DEF els
  <2> HIDE DEF b
  <2>3. Merged(fr) \in Seq(Element) /\ ToSet(Merged(fr)) = ToSet(scene) \cup ToSet(b)
    BY <2>1, <2>2, ConcatSet
  <2> QED BY <1>0, <1>1, <1>2, <1>4, <2>2, <2>3
<1>5. CASE fr.op \in {"add", "update"}
  <2> DEFINE new == fr.els[1]
             places == { i \in DOMAIN scene : scene[i].wbid = new.wbid \/ scene[i].id = new.id }
  <2>1. Merged(fr) = IF places = {} THEN Append(scene, new) ELSE [scene EXCEPT ![Min(places)] = new]
    BY <1>5 DEF Merged
  <2>2. new \in Element /\ new \in Shown(n) /\ new \in ToSet(fr.els)
    BY <1>0, <1>1, <1>2, <1>5
  <2>3. places \in SUBSET (1..Len(scene)) /\ Len(scene) \in Nat
    OBVIOUS
  <2> HIDE DEF new, places
  <2>4. CASE places = {}
    <3>1. Merged(fr) \in Seq(Element) /\ ToSet(Merged(fr)) = ToSet(scene) \cup {new}
      BY <2>1, <2>2, <2>4, AppendSet
    <3> QED BY <1>2, <1>5, <2>2, <3>1
  <2>5. CASE places # {}
    <3>1. Min(places) \in 1..Len(scene)
      BY <2>3, <2>5, Extremes
    <3>2. Merged(fr) \in Seq(Element) /\ ToSet(Merged(fr)) \subseteq ToSet(scene) \cup {new}
      BY <2>1, <2>2, <2>5, <3>1, ExceptSet
    <3> QED BY <1>2, <1>5, <2>2, <3>2
  <2> QED BY <2>4, <2>5
<1>6. CASE fr.op = "delete"
  <2> DEFINE rest == { el \in ToSet(scene) : el.wbid # fr.els[1].wbid }
  <2>1. Merged(fr) = Only(scene, rest)
    BY <1>6 DEF Merged
  <2>2. Merged(fr) \in Seq(Element) /\ ToSet(Merged(fr)) = rest
    BY <2>1, OnlyIsPart
  <2>3. Distinct(scene) => Distinct(Merged(fr))
    BY <2>1, OnlyDistinct
  <2> QED BY <1>2, <1>6, <2>2, <2>3
<1> QED BY <1>0, <1>3, <1>4, <1>5, <1>6

LEMMA TypesReceive ==
  ASSUME BrowserTypeOK, Receive
  PROVE  BrowserTypeOK'
<1> DEFINE n == Len(rows)
           fr == Head(down)
<1>0. n \in Nat /\ rows \in Seq(Row) /\ SceneOK /\ PendOK /\ CountsOK /\ WireOK /\ FlightsOK
  BY DEF BrowserTypeOK
<1>1. /\ down # <<>> /\ down' = Tail(down)
      /\ UNCHANGED <<pendVars, flight, rows, up, socket, http, answered, countVars, raceVars>>
      /\ \/ UNCHANGED <<scene, known, due>>
         \/ ApplyScene(Merged(fr)) /\ due' = Dropped(Overtaken)
  BY DEF Receive
<1>2. down \in Seq(Frame) /\ \A x \in ToSet(down) : FrameOK(x, n)
  BY <1>0 DEF WireOK
<1>3. fr \in ToSet(down) /\ down' \in Seq(Frame) /\ ToSet(down') \subseteq ToSet(down)
  BY <1>1, <1>2, TailSet
<1> HIDE DEF fr
<1>4. SceneOK'
  <2>1. CASE UNCHANGED <<scene, known, due>>
    BY <1>0, <1>1, <2>1 DEF SceneOK
  <2>2. CASE ApplyScene(Merged(fr))
    <3>1. Merged(fr) \in Seq(Element) /\ ToSet(Merged(fr)) \subseteq Shown(n)
      BY <1>0, <1>2, <1>3, MergedIs DEF SceneOK
    <3> QED BY <1>0, <1>1, <2>2, <3>1, ApplyTypes
  <2> QED BY <1>1, <2>1, <2>2
<1>5. PendOK' /\ FlightsOK'
  BY <1>0, <1>1 DEF PendOK, FlightsOK, pendVars
<1>6. WireOK'
  BY <1>0, <1>1, <1>2, <1>3 DEF WireOK
<1>7. CountsOK'
  <2>1. due' \in [Elem -> Int]
    BY <1>0, <1>1 DEF CountsOK, Dropped
  <2> QED BY <1>0, <1>1, <2>1 DEF CountsOK, countVars, raceVars
<1> QED BY <1>0, <1>1, <1>4, <1>5, <1>6, <1>7 DEF BrowserTypeOK

LEMMA TypesJoin ==
  ASSUME BrowserTypeOK, Connect \/ Close \/ HttpRead \/ HttpArrives
  PROVE  BrowserTypeOK'
<1> DEFINE n == Len(rows)
           frame == [op |-> "snapshot", els |-> Board]
<1>0. n \in Nat /\ rows \in Seq(Row) /\ SceneOK /\ PendOK /\ CountsOK /\ WireOK /\ FlightsOK
  BY DEF BrowserTypeOK
<1>1. UNCHANGED <<pendVars, flight, rows, countVars, raceVars>>
  BY DEF Connect, Close, HttpRead, HttpArrives, historyVars
<1>2. PendOK' /\ FlightsOK'
  BY <1>0, <1>1 DEF PendOK, FlightsOK, pendVars
<1>3. Board \in Seq(Element) /\ ToSet(Board) \subseteq Stored(n)
  BY <1>0, BoardIs
<1>4. up' \in Seq(Element) /\ ToSet(up') \subseteq Message(n)
  <2>1. up' = up \/ up' = <<>>
    BY DEF Connect, Close, HttpRead, HttpArrives
  <2> QED BY <1>0, <2>1, NoneSet DEF WireOK
<1>5. down' \in Seq(Frame) /\ \A fr \in ToSet(down') : FrameOK(fr, n)
  <2>1. down' = down \/ down' = <<>> \/ down' = <<frame>>
    BY DEF Connect, Close, HttpRead, HttpArrives
  <2>2. frame \in Frame /\ FrameOK(frame, n)
    <3>1. frame.op = "snapshot" /\ frame.els = Board /\ frame \in Frame
      BY <1>3 DEF Frame
    <3> HIDE DEF frame
    <3> QED BY <1>3, <3>1 DEF FrameOK
  <2> HIDE DEF frame
  <2>3. <<frame>> \in Seq(Frame) /\ ToSet(<<frame>>) = {frame}
    BY <2>2 DEF ToSet
  <2>4. CASE down' = <<frame>>
    BY <2>2, <2>3, <2>4
  <2>5. CASE down' = <<>>
    BY <2>5, NoneSet
  <2> QED BY <1>0, <2>1, <2>4, <2>5 DEF WireOK
<1>6. answered' \in Seq(Element) /\ ToSet(answered') \subseteq Stored(n)
  <2>1. answered' = answered \/ answered' = Board \/ answered' = <<>>
    BY DEF Connect, Close, HttpRead, HttpArrives
  <2> QED BY <1>0, <1>3, <2>1, NoneSet DEF WireOK
<1>7. WireOK'
  BY <1>1, <1>4, <1>5, <1>6 DEF WireOK
<1>8. SceneOK'
  <2>1. CASE UNCHANGED <<scene, known>>
    BY <1>0, <1>1, <2>1 DEF SceneOK
  <2>2. CASE ApplyScene(answered)
    <3>1. answered \in Seq(Element) /\ ToSet(answered) \subseteq Shown(n)
      BY <1>0, Wider DEF WireOK
    <3> QED BY <1>0, <1>1, <2>2, <3>1, ApplyTypes
  <2> QED BY <2>1, <2>2 DEF Connect, Close, HttpRead, HttpArrives
<1>9. CountsOK'
  <2>1. due' \in [Elem -> Int]
    BY <1>0 DEF CountsOK, Dropped, Connect, Close, HttpRead, HttpArrives, historyVars
  <2> QED BY <1>0, <1>1, <2>1 DEF CountsOK, countVars, raceVars
<1> QED BY <1>0, <1>1, <1>2, <1>7, <1>8, <1>9 DEF BrowserTypeOK

LEMMA TypesLeave ==
  ASSUME BrowserTypeOK, Leave
  PROVE  BrowserTypeOK'
<1>0. rows \in Seq(Row) /\ SceneOK /\ PendOK /\ CountsOK /\ WireOK /\ FlightsOK /\ Len(rows) \in Nat
  BY DEF BrowserTypeOK
<1>1. /\ scene' = <<>> /\ known' = [e \in Elem |-> Unknown]
      /\ creates' = <<>> /\ updates' = {} /\ deletes' = {} /\ timer' = FALSE
      /\ http' = "done" /\ answered' = <<>> /\ down' = <<>>
      /\ UNCHANGED <<flight, rows, up, countVars, raceVars>>
  BY DEF Leave
<1>2. SceneOK'
  BY <1>0, <1>1, NoneSet DEF SceneOK, Unknown
<1>3. PendOK'
  BY <1>1, NoneSet, FS_EmptySet DEF PendOK
<1>4. FlightsOK' /\ WireOK'
  BY <1>0, <1>1, NoneSet DEF FlightsOK, WireOK
<1>5. CountsOK'
  <2>1. due' \in [Elem -> Int]
    BY <1>0 DEF Leave, CountsOK, Dropped
  <2> QED BY <1>0, <1>1, <2>1 DEF CountsOK, countVars, raceVars
<1> QED BY <1>0, <1>1, <1>2, <1>3, <1>4, <1>5 DEF BrowserTypeOK

LEMMA TypesInit == BrowserInit => BrowserTypeOK
<1> SUFFICES ASSUME BrowserInit PROVE BrowserTypeOK
  OBVIOUS
<1>1. rows = <<>> /\ Len(rows) = 0 /\ rows \in Seq(Row)
  BY DEF BrowserInit
<1>2. SceneOK
  BY <1>1, NoneSet DEF BrowserInit, SceneOK, Unknown
<1>3. PendOK
  BY NoneSet, FS_EmptySet DEF BrowserInit, PendOK
<1>4. FlightOK(Landed, 0)
  <2> <<>> \in Seq(1..0) /\ <<>> \in Seq(Drawn) /\ Len(<<>>) = 0 /\ IsFiniteSet({})
    BY FS_EmptySet
  <2> QED BY DEF FlightOK, Landed
<1>5. FlightsOK
  BY <1>1, <1>4 DEF BrowserInit, FlightsOK
<1>6. WireOK
  BY NoneSet DEF BrowserInit, WireOK
<1>7. CountsOK
  <2>1. Undrawn \in Int
    BY DEF Undrawn
  <2>2. due \in [Elem -> Int]
    BY <2>1 DEF BrowserInit
  <2> QED BY <2>2 DEF BrowserInit, CountsOK
<1> QED BY <1>1, <1>2, <1>3, <1>5, <1>6, <1>7 DEF BrowserTypeOK

LEMMA TypesStep == BrowserTypeOK /\ [BrowserNext]_browserVars => BrowserTypeOK'
<1> SUFFICES ASSUME BrowserTypeOK, [BrowserNext]_browserVars PROVE BrowserTypeOK'
  OBVIOUS
<1>1. CASE UNCHANGED browserVars
  <2> USE <1>1 DEF browserVars, pendVars, netVars, countVars, historyVars, raceVars
  <2>1. SceneOK' /\ PendOK'
    BY DEF BrowserTypeOK, SceneOK, PendOK
  <2>2. FlightsOK' /\ WireOK' /\ CountsOK'
    BY DEF BrowserTypeOK, FlightsOK, WireOK, CountsOK
  <2> QED BY <2>1, <2>2 DEF BrowserTypeOK
<1>2. ASSUME NEW w \in DOMAIN rows, Other(w, 0) \/ Other(w, MaxEdits + others + 1)
      PROVE  BrowserTypeOK'
  <2>1. MaxEdits + others + 1 \in Nat
    BY BrowserAssumption DEF BrowserTypeOK, CountsOK
  <2> QED BY <1>2, <2>1, TypesOther
<1>3. CASE User
  BY <1>3, TypesDraw, TypesEdit, TypesErase, TypesReport DEF User
<1>4. CASE Server
  BY <1>2, <1>4, TypesCreate, TypesServe DEF Server
<1> QED
  BY <1>1, <1>3, <1>4, TypesFlush, TypesLanding, TypesUpload, TypesReceive, TypesJoin, TypesLeave
  DEF BrowserNext

\* The scene, the baseline, what is pending and what is on its way are made of elements
\* with a content and of numbers of rows that exist: what stampWbid (CanvasView.tsx:204)
\* and the frames bring is the number of a row, and a frame that is not a snapshot has an
\* element for onmessage to look at.
THEOREM BrowserTypes == BrowserSpec => []BrowserTypeOK
  BY TypesInit, TypesStep, PTL DEF BrowserSpec

-----------------------------------------------------------------------------
\* What handleChange makes of the baseline, when no id is twice in the list.
LEMMA KnownAfter ==
  ASSUME NEW els \in Seq(Element), Distinct(els), NEW held, NEW made, NEW changed,
         HandleChange(els, held, made, changed),
         NEW el, el \in ToSet(els)
  PROVE  /\ el.v = 0 => known'[el.id] = Unknown
         /\ el.v # 0 /\ el.id \in held => known'[el.id] = known[el.id]
         /\ el.v # 0 /\ el.id \notin held =>
              known'[el.id] = IF known[el.id] # Unknown /\ known[el.id].v = el.v
                                THEN known[el.id] ELSE Info(el)
<1> DEFINE fresh == Fresh(els, held)
           touched == Touched(els, held)
           Seen(e) == { x \in fresh \cup touched : x.id = e }
           e == el.id
<1>0. el \in Element /\ e \in Elem
  <2>1. ToSet(els) \subseteq Element
    BY Members
  <2> QED BY <2>1 DEF Element
<1>1. known'[e] = IF e \in Gone(els) THEN Unknown
                  ELSE IF Seen(e) = {} THEN known[e] ELSE Info(CHOOSE x \in Seen(e) : TRUE)
  BY <1>0 DEF HandleChange
<1>2. \A x \in ToSet(els) : x.id = e => x = el
  BY DistinctMeans
<1>3. Seen(e) = IF el \in fresh \cup touched THEN {el} ELSE {}
  BY <1>2 DEF Fresh, Touched
<1>4. el \in fresh \cup touched => Info(CHOOSE x \in Seen(e) : TRUE) = Info(el)
  <2>1. el \in fresh \cup touched => (CHOOSE x \in Seen(e) : TRUE) \in Seen(e)
    BY <1>3
  <2>2. Seen(e) \subseteq {el}
    BY <1>3
  <2> QED BY <2>1, <2>2
<1>5. e \in Gone(els) <=> known[e] # Unknown /\ el.v = 0
  BY <1>0, <1>2 DEF Gone
<1>6. el \in fresh \cup touched <=>
        /\ el.v # 0 /\ e \notin held
        /\ known[e] = Unknown \/ known[e].v # el.v
  BY DEF Fresh, Touched
<1> HIDE DEF Seen, fresh, touched
<1>7. el.v = 0 => known'[e] = Unknown
  BY <1>1, <1>3, <1>5, <1>6
<1>8. el.v # 0 /\ e \in held => known'[e] = known[e]
  BY <1>1, <1>3, <1>5, <1>6
<1>9. el.v # 0 /\ e \notin held => known'[e] = IF known[e] # Unknown /\ known[e].v = el.v
                                               THEN known[e] ELSE Info(el)
  BY <1>1, <1>3, <1>4, <1>5, <1>6
<1> QED BY <1>7, <1>8, <1>9

\* The baseline that applyScene makes of such a list.
LEMMA BaselineDistinct ==
  ASSUME NEW els \in Seq(Element), Distinct(els), NEW el, el \in ToSet(els)
  PROVE  Baseline(els)[el.id] = Info(el)
<1>1. el.id \in Elem
  <2>1. ToSet(els) \subseteq Element
    BY Members
  <2> QED BY <2>1 DEF Element
<1>2. \E x \in ToSet(els) : x.id = el.id /\ Baseline(els)[el.id] = Info(x)
  BY <1>1, BaselineIs
<1> QED BY <1>2, DistinctMeans

\* A content is not the baseline's answer for an unknown id.
LEMMA InfoKnown ==
  ASSUME NEW el, el.v # 0
  PROVE  Info(el) # Unknown
  BY DEF Info, Unknown

\* The list that a user's edit reports has each id once, if the scene had.
LEMMA ReplacedDistinct ==
  ASSUME scene \in Seq(Element), NEW i \in 1..Len(scene), NEW x \in Element, x.id = scene[i].id
  PROVE  /\ Distinct([scene EXCEPT ![i] = x]) <=> Distinct(scene)
         /\ Ids([scene EXCEPT ![i] = x]) = Ids(scene)
<1> DEFINE t == [scene EXCEPT ![i] = x]
<1>1. t \in Seq(Element) /\ Len(t) = Len(scene) /\ \A j \in 1..Len(scene) : scene[j].id = t[j].id
  OBVIOUS
<1> HIDE DEF t
<1>2. (Distinct(scene) <=> Distinct(t)) /\ Ids(scene) = Ids(t)
  BY <1>1, SameIdsDistinct
<1> QED BY <1>2 DEF t

\* The members of what is pending or on its way.
LEMMA OutgoingElements ==
  ASSUME BrowserTypeOK
  PROVE  /\ updates \subseteq Stored(Len(rows))
         /\ \A f \in Flight : flight[f].updates \subseteq Stored(Len(rows))
         /\ ToSet(up) \subseteq Message(Len(rows))
         /\ Outgoing \subseteq Message(Len(rows))
<1>1. Len(rows) \in Nat
  BY DEF BrowserTypeOK
<1>2. Stored(Len(rows)) \subseteq Message(Len(rows))
  BY <1>1, Wider
<1>3. updates \subseteq Stored(Len(rows)) /\ ToSet(up) \subseteq Message(Len(rows))
  BY DEF BrowserTypeOK, PendOK, WireOK
<1>4. \A f \in Flight : flight[f].updates \subseteq Stored(Len(rows))
  BY DEF BrowserTypeOK, FlightsOK, FlightOK
<1> QED BY <1>2, <1>3, <1>4 DEF Outgoing

\* The steps of the user, as sets of elements: what the scene becomes, and the list that
\* handleChange is given.
LEMMA SceneElements ==
  ASSUME BrowserTypeOK
  PROVE  /\ scene \in Seq(Element) /\ DOMAIN scene = 1..Len(scene)
         /\ \A el \in ToSet(scene) : el \in Element /\ el \in Shown(Len(rows)) /\ el.v # 0
  BY Members DEF BrowserTypeOK, SceneOK, Shown

DrawFacts(e, x, held) ==
  /\ x.id = e /\ x.v = edits + 1 /\ x.wbid = 0 /\ x.v # 0
  /\ HeldBack \subseteq held /\ held \subseteq HeldBack \cup {e} /\ held = HeldBack'
  /\ scene' \in Seq(Element) /\ ToSet(scene') = ToSet(scene) \cup {x}
  /\ Distinct(scene) /\ (\A el \in ToSet(scene) : el.id # e) => Distinct(scene')
  /\ HandleChange(scene', held, creates, updates)
  /\ edits' = edits + 1 /\ edits + others < MaxEdits
  /\ due[e] = Undrawn /\ due' = [due EXCEPT ![e] = edits + 1]
  /\ UNCHANGED <<flight, rows, netVars, others, raceVars>>

LEMMA DrawIs ==
  ASSUME BrowserTypeOK, NEW e \in Elem, NEW b \in BOOLEAN, Draw(e, b)
  PROVE  \E x \in Element, held \in SUBSET Elem : DrawFacts(e, x, held)
<1> DEFINE x == El(e, edits', 0)
           held == IF b THEN HeldBack \cup {e} ELSE HeldBack
<1>1. /\ edits' = edits + 1 /\ edits + others < MaxEdits
      /\ scene' = Append(scene, x)
      /\ HandleChange(scene', held, creates, updates)
      /\ upload' = IF b THEN [upload EXCEPT ![e] = "asked"] ELSE upload
      /\ due[e] = Undrawn /\ due' = [due EXCEPT ![e] = edits']
      /\ UNCHANGED <<flight, rows, netVars, others, raceVars>>
  BY DEF Draw
<1>2. edits \in Nat /\ upload = [d \in Elem |-> upload[d]]
  BY DEF BrowserTypeOK, CountsOK
<1>3. /\ x = El(e, edits + 1, 0) /\ x.id = e /\ x.v = edits + 1 /\ x.wbid = 0
      /\ x \in Element /\ x.v # 0
  BY <1>1, <1>2 DEF El, Element
<1>4. held = HeldBack' /\ held \in SUBSET Elem
  BY <1>1, <1>2 DEF HeldBack
<1> HIDE DEF x, held
<1>5. scene' \in Seq(Element) /\ ToSet(scene') = ToSet(scene) \cup {x}
  BY <1>1, <1>3, AppendSet, SceneElements
<1>6. HeldBack \subseteq held /\ held \subseteq HeldBack \cup {e}
  BY DEF held
<1>7. ASSUME Distinct(scene), \A el \in ToSet(scene) : el.id # e PROVE Distinct(scene')
  <2>1. scene' = scene \o <<x>> /\ <<x>> \in Seq(Element) /\ ToSet(<<x>>) = {x} /\ Distinct(<<x>>)
    <3>1. scene' = scene \o <<x>> /\ <<x>> \in Seq(Element)
      BY <1>1, <1>3, SceneElements
    <3> QED BY <3>1 DEF Distinct, ToSet
  <2> QED BY <1>3, <1>7, <2>1, ConcatDistinct, SceneElements
<1>8. DrawFacts(e, x, held)
  BY <1>1, <1>3, <1>4, <1>5, <1>6, <1>7 DEF DrawFacts
<1> QED BY <1>3, <1>4, <1>8

\* The element as it is after an edit of `old`, made in place or not.
Edited(inPlace, old, el) == IF inPlace THEN Renewed(el, old, edits + 1) ELSE el

EditFacts(b, old, x, made) ==
  /\ x = [old EXCEPT !.v = edits + 1]
  /\ x.id = old.id /\ x.wbid = old.wbid /\ x.v = edits + 1 /\ x.v # 0
  /\ scene' \in Seq(Element) /\ ToSet(scene') = (ToSet(scene) \ {old}) \cup {x}
  /\ Distinct(scene') /\ Ids(scene') = Ids(scene)
  /\ Ids(made) = Ids(creates)
  /\ ToSet(made) = { Edited(b, old, el) : el \in ToSet(creates) }
  /\ Distinct(made) <=> Distinct(creates)
  /\ HandleChange(scene', HeldBack, made, { Edited(b, old, el) : el \in updates })
  /\ \A f \in Flight : /\ flight'[f].stage = flight[f].stage /\ flight'[f].batch = flight[f].batch
                       /\ flight'[f].reply = flight[f].reply
                       /\ flight'[f].deletes = flight[f].deletes
                       /\ flight'[f].updates = { Edited(b, old, el) : el \in flight[f].updates }
  /\ \A el \in Element : /\ Edited(b, old, el).id = el.id
                         /\ Edited(b, old, el).wbid = el.wbid
                         /\ Edited(b, old, el).v \in {el.v, edits + 1}
                         /\ ~(b /\ el.id = old.id /\ el.v = old.v) => Edited(b, old, el) = el
                         /\ b /\ el.id = old.id /\ el.v = old.v =>
                              Edited(b, old, el).v = edits + 1
  /\ edits' = edits + 1 /\ edits + others < MaxEdits
  /\ due' = [due EXCEPT ![old.id] = IF \/ old.wbid # 0 \/ old.id \in Overtaken
                                       \/ b /\ old \in ToSet(creates) THEN edits + 1 ELSE 0]
  /\ UNCHANGED <<rows, netVars, others, upload, raceVars>>

LEMMA EditIs ==
  ASSUME BrowserTypeOK, ~Doubled, NEW i \in DOMAIN scene, NEW b \in BOOLEAN, Edit(i, b)
  PROVE  \E old \in ToSet(scene), x \in Element, made \in Seq(Drawn) :
           EditFacts(b, old, x, made)
<1> DEFINE old == scene[i]
           v == edits + 1
           x == [old EXCEPT !.v = v]
           made == [k \in DOMAIN creates |-> Edited(b, old, creates[k])]
<1>1. /\ scene' = [scene EXCEPT ![i] = x] /\ edits' = v /\ edits + others < MaxEdits
      /\ HandleChange(scene', HeldBack, made, { Edited(b, old, el) : el \in updates })
      /\ flight' = [f \in Flight |->
                      [flight[f] EXCEPT !.updates = { Edited(b, old, el) : el \in flight[f].updates }]]
      /\ due' = [due EXCEPT ![old.id] =
                   IF \/ old.wbid # 0 \/ old.id \in Overtaken
                      \/ b /\ old \in ToSet(creates) THEN x.v ELSE 0]
      /\ UNCHANGED <<rows, netVars, others, upload, raceVars>>
  BY DEF Edit, Edited
<1>2. /\ scene \in Seq(Element) /\ i \in 1..Len(scene) /\ old \in ToSet(scene) /\ old \in Element
      /\ v \in Nat \ {0} /\ Distinct(scene) /\ creates \in Seq(Drawn)
  BY Members, SceneElements DEF BrowserTypeOK, CountsOK, Doubled, PendOK
<1>3. x \in Element /\ x.id = old.id /\ x.wbid = old.wbid /\ x.v = v
  BY <1>2 DEF Element
<1>4. \A el \in Element : /\ Edited(b, old, el).id = el.id
                          /\ Edited(b, old, el).wbid = el.wbid
                          /\ Edited(b, old, el).v \in {el.v, v}
                          /\ ~(b /\ el.id = old.id /\ el.v = old.v) => Edited(b, old, el) = el
                          /\ b /\ el.id = old.id /\ el.v = old.v => Edited(b, old, el).v = v
  BY <1>2, RenewedKeeps DEF Edited
<1>5. \A el \in Drawn : Edited(b, old, el) \in Drawn /\ el \in Element
  BY <1>2, RenewedKeeps, Wider DEF Edited, Drawn, Element
<1>6. \A f \in Flight :
        /\ flight'[f].stage = flight[f].stage /\ flight'[f].batch = flight[f].batch
        /\ flight'[f].reply = flight[f].reply /\ flight'[f].deletes = flight[f].deletes
        /\ flight'[f].updates = { Edited(b, old, el) : el \in flight[f].updates }
  <2> SUFFICES ASSUME NEW f \in Flight
               PROVE  /\ flight'[f].stage = flight[f].stage /\ flight'[f].batch = flight[f].batch
                      /\ flight'[f].reply = flight[f].reply
                      /\ flight'[f].deletes = flight[f].deletes
                      /\ flight'[f].updates = { Edited(b, old, el) : el \in flight[f].updates }
    BY Zenon
  <2> DEFINE fl == flight[f]
             now == { Edited(b, old, el) : el \in fl.updates }
  <2>1. fl = [stage |-> fl.stage, batch |-> fl.batch, reply |-> fl.reply,
              updates |-> fl.updates, deletes |-> fl.deletes]
    BY DEF BrowserTypeOK, FlightsOK, FlightOK
  <2>2. flight'[f] = [fl EXCEPT !.updates = now]
    BY <1>1
  <2> HIDE DEF fl, now
  <2>3. /\ flight'[f].stage = fl.stage /\ flight'[f].batch = fl.batch
        /\ flight'[f].reply = fl.reply /\ flight'[f].deletes = fl.deletes
        /\ flight'[f].updates = now
    BY <2>1, <2>2
  <2> QED BY <2>3 DEF fl, now
<1> HIDE DEF x, v
<1>7. /\ scene' \in Seq(Element) /\ ToSet(scene') = (ToSet(scene) \ {old}) \cup {x}
      /\ Distinct(scene') /\ Ids(scene') = Ids(scene)
  <2>1. /\ scene' \in Seq(Element) /\ ToSet(scene') \subseteq ToSet(scene) \cup {x}
        /\ ToSet(scene) \subseteq ToSet(scene') \cup {old} /\ x \in ToSet(scene')
        /\ Distinct(scene') /\ Ids(scene') = Ids(scene)
    BY <1>1, <1>2, <1>3, ExceptSet, ReplacedDistinct
  <2>2. old \in ToSet(scene') => old = x
    <3>1. old \in ToSet(scene') => old = x
      BY <1>3, <2>1, DistinctMeans
    <3> QED BY <3>1
  <2> QED BY <2>1, <2>2
<1>8. /\ made \in Seq(Drawn) /\ Len(made) = Len(creates)
      /\ \A k \in 1..Len(creates) : made[k] = Edited(b, old, creates[k])
  <2>1. \A k \in 1..Len(creates) : creates[k] \in Drawn
    BY <1>2
  <2> HIDE DEF old
  <2> QED BY <1>2, <1>5, <2>1
<1>9. ToSet(made) = { Edited(b, old, el) : el \in ToSet(creates) }
  <2> DOMAIN made = DOMAIN creates
    OBVIOUS
  <2> QED BY DEF ToSet
<1>10. Ids(made) = Ids(creates) /\ (Distinct(made) <=> Distinct(creates))
  <2>1. Seq(Drawn) \subseteq Seq(Element)
    BY <1>5, WiderSeq
  <2>2. \A k \in 1..Len(creates) : creates[k].id = made[k].id
    <3>1. \A k \in 1..Len(creates) : creates[k] \in Element
      BY <1>2, <1>5
    <3> QED BY <1>4, <1>8, <3>1
  <2> HIDE DEF made, old
  <2> QED BY <1>2, <1>8, <2>1, <2>2, SameIdsDistinct
<1>11. /\ x = [old EXCEPT !.v = edits + 1] /\ x.v = edits + 1 /\ x.v # 0 /\ edits' = edits + 1
       /\ \A el \in Element : /\ Edited(b, old, el).v \in {el.v, edits + 1}
                              /\ b /\ el.id = old.id /\ el.v = old.v =>
                                   Edited(b, old, el).v = edits + 1
  BY <1>1, <1>2, <1>3, <1>4 DEF x, v
<1>12. due' = [due EXCEPT ![old.id] =
                        IF \/ old.wbid # 0 \/ old.id \in Overtaken
                           \/ b /\ old \in ToSet(creates) THEN edits + 1 ELSE 0]
  BY <1>1, <1>11
<1>13. HandleChange(scene', HeldBack, made, { Edited(b, old, el) : el \in updates })
  BY <1>1
<1> HIDE DEF made
<1>14. EditFacts(b, old, x, made)
  BY <1>1, <1>3, <1>4, <1>6, <1>7, <1>9, <1>10, <1>11, <1>12, <1>13, Zenon DEF EditFacts
<1> QED BY <1>2, <1>3, <1>8, <1>14, Zenon

EraseFacts(x, els) ==
  /\ scene' \in Seq(Element) /\ ToSet(scene') = ToSet(scene) \ {x} /\ Distinct(scene')
  /\ \A el \in ToSet(scene') : el.id # x.id
  /\ Distinct(els) /\ ToSet(scene') \subseteq ToSet(els)
  /\ \A el \in ToSet(els) :
       el \in ToSet(scene') \/ (el.v = 0 /\ el.id = x.id /\ el.wbid = x.wbid)
  /\ HandleChange(els, HeldBack, creates, updates)
  /\ due' = [due EXCEPT ![x.id] =
               IF x.wbid = 0 /\ x.id \notin Ids(creates) \cup Overtaken THEN 0 ELSE Erased]
  /\ UNCHANGED <<flight, rows, netVars, countVars, raceVars>>

LEMMA EraseIs ==
  ASSUME BrowserTypeOK, ~Doubled, NEW i \in DOMAIN scene, NEW b \in BOOLEAN, Erase(i, b)
  PROVE  \E x \in ToSet(scene), els \in Seq(Element) : EraseFacts(x, els)
<1> DEFINE old == scene[i]
           z == [old EXCEPT !.v = 0]
           els == IF b THEN [scene EXCEPT ![i] = z] ELSE scene'
<1>0. /\ scene \in Seq(Element) /\ i \in 1..Len(scene) /\ old \in ToSet(scene) /\ old \in Element
      /\ Distinct(scene)
  BY Members, SceneElements DEF Doubled
<1>1. /\ scene' = Only(scene, ToSet(scene) \ {old})
      /\ HandleChange(els, HeldBack, creates, updates)
      /\ due' = [due EXCEPT ![old.id] =
                   IF old.wbid = 0 /\ old.id \notin Ids(creates) \cup Overtaken THEN 0 ELSE Erased]
      /\ UNCHANGED <<flight, rows, netVars, countVars, raceVars>>
  <2>1. [scene EXCEPT ![i].v = 0] = [scene EXCEPT ![i] = z]
    BY <1>0
  <2> QED BY <2>1 DEF Erase
<1>2. z \in Element /\ z.v = 0 /\ z.id = old.id /\ z.wbid = old.wbid
  BY <1>0 DEF Element
<1>3. scene' \in Seq(Element) /\ ToSet(scene') = ToSet(scene) \ {old} /\ Distinct(scene')
  BY <1>0, <1>1, OnlyIsPart, OnlyDistinct
<1>4. \A el \in ToSet(scene') : el.id # old.id
  BY <1>0, <1>3, DistinctMeans
<1> HIDE DEF z
<1>5. /\ els \in Seq(Element) /\ Distinct(els) /\ ToSet(scene') \subseteq ToSet(els)
      /\ \A el \in ToSet(els) : el \in ToSet(scene') \/ el = z
  <2>1. CASE ~b
    BY <1>3, <2>1
  <2>2. CASE b
    <3> DEFINE t == [scene EXCEPT ![i] = z]
    <3>1. /\ t \in Seq(Element) /\ ToSet(t) \subseteq ToSet(scene) \cup {z}
          /\ ToSet(scene) \subseteq ToSet(t) \cup {old} /\ z \in ToSet(t) /\ Distinct(t)
      BY <1>0, <1>2, ExceptSet, ReplacedDistinct
    <3> HIDE DEF t
    <3>2. old \in ToSet(t) => old = z
      BY <1>2, <3>1, DistinctMeans
    <3>3. els = t
      BY <2>2 DEF t
    <3> QED BY <1>3, <3>1, <3>2, <3>3
  <2> QED BY <2>1, <2>2
<1> HIDE DEF els
<1> HIDE DEF old
<1>6. \A el \in ToSet(els) : el \in ToSet(scene') \/ (el.v = 0 /\ el.id = old.id /\ el.wbid = old.wbid)
  BY <1>2, <1>5
<1>7. EraseFacts(old, els)
  BY <1>1, <1>3, <1>4, <1>5, <1>6, Zenon DEF EraseFacts
<1> QED BY <1>0, <1>5, <1>7

-----------------------------------------------------------------------------
\* EchoIsNotAnEdit is inductive with this about the scene: what differs from the baseline
\* is an edit made here.
Ours(el) == el.v <= MaxEdits

EchoInvariant ==
  /\ edits + others <= MaxEdits
  /\ \A el \in Outgoing : Ours(el)
  /\ ~Doubled => \A el \in ToSet(scene) :
                   known[el.id] = Unknown \/ known[el.id].v = el.v \/ Ours(el)

LEMMA EchoReported ==
  ASSUME NEW els \in Seq(Element), NEW held, NEW made, NEW changed,
         HandleChange(els, held, made, changed),
         \A el \in changed : Ours(el),
         \A el \in ToSet(els) : known[el.id] = Unknown \/ known[el.id].v = el.v \/ Ours(el)
  PROVE  /\ \A el \in updates' : Ours(el)
         /\ Distinct(els) => \A el \in ToSet(els) :
              el.v # 0 => known'[el.id] = Unknown \/ known'[el.id].v = el.v \/ Ours(el)
<1>1. \A el \in updates' : Ours(el)
  BY DEF HandleChange, SetUpdates, Touched
<1>2. ASSUME Distinct(els), NEW el \in ToSet(els), el.v # 0
      PROVE  known'[el.id] = Unknown \/ known'[el.id].v = el.v \/ Ours(el)
  <2>1. known'[el.id] = known[el.id] \/ known'[el.id] = Info(el)
    BY <1>2, KnownAfter
  <2> QED BY <2>1 DEF Info
<1> QED BY <1>1, <1>2

LEMMA EchoUser ==
  ASSUME BrowserTypeOK, EchoInvariant, ~Doubled, User
  PROVE  EchoInvariant'
<1>0. /\ SceneOK /\ CountsOK /\ scene \in Seq(Element) /\ Distinct(scene)
      /\ edits \in Nat /\ others \in Nat /\ MaxEdits \in Nat
      /\ \A el \in ToSet(scene) : el \in Element /\ el.v # 0
  BY BrowserAssumption, Members DEF BrowserTypeOK, SceneOK, CountsOK, Doubled, Shown
<1>1. ASSUME NEW e \in Elem, NEW b \in BOOLEAN, Draw(e, b)
      PROVE  EchoInvariant'
  <2>1. PICK x \in Element, held \in SUBSET Elem : DrawFacts(e, x, held)
    BY <1>1, DrawIs
  <2> USE <2>1 DEF DrawFacts
  <2>2. Ours(x) /\ edits' + others' <= MaxEdits
    BY <1>0, <2>1 DEF Ours
  <2>3. \A el \in ToSet(scene') : known[el.id] = Unknown \/ known[el.id].v = el.v \/ Ours(el)
    BY <2>1, <2>2 DEF EchoInvariant
  <2>4. \A el \in updates : Ours(el)
    BY DEF EchoInvariant, Outgoing
  <2>5. /\ \A el \in updates' : Ours(el)
        /\ Distinct(scene') => \A el \in ToSet(scene') :
             el.v # 0 => known'[el.id] = Unknown \/ known'[el.id].v = el.v \/ Ours(el)
    BY <2>1, <2>3, <2>4, EchoReported
  <2>6. \A el \in ToSet(scene') : el.v # 0
    BY <1>0, <2>1
  <2> QED BY <2>1, <2>2, <2>5, <2>6 DEF EchoInvariant, Outgoing, Doubled, Ours, netVars
<1>2. ASSUME NEW i \in DOMAIN scene, NEW b \in BOOLEAN, Edit(i, b)
      PROVE  EchoInvariant'
  <2>1. PICK old \in ToSet(scene), x \in Element, made \in Seq(Drawn) :
           EditFacts(b, old, x, made)
    BY <1>2, EditIs
  <2> USE <2>1 DEF EditFacts
  <2>2. Ours(x) /\ edits' + others' <= MaxEdits
    BY <1>0, <2>1 DEF Ours
  <2>3. \A el \in Outgoing : Ours(Edited(b, old, el))
    <3>1. \A el \in Outgoing : Ours(el) /\ el \in Element
      <4>1. Message(Len(rows)) \subseteq Element
        BY Wider DEF BrowserTypeOK
      <4> QED BY <4>1, OutgoingElements DEF EchoInvariant
    <3>2. edits + 1 <= MaxEdits
      BY <1>0, <2>1
    <3> QED BY <2>1, <3>1, <3>2 DEF Ours
  <2>4. \A el \in ToSet(scene') : known[el.id] = Unknown \/ known[el.id].v = el.v \/ Ours(el)
    BY <2>1, <2>2 DEF EchoInvariant
  <2>5. \A el \in { Edited(b, old, u) : u \in updates } : Ours(el)
    BY <2>3 DEF Outgoing
  <2>6. /\ \A el \in updates' : Ours(el)
        /\ Distinct(scene') => \A el \in ToSet(scene') :
             el.v # 0 => known'[el.id] = Unknown \/ known'[el.id].v = el.v \/ Ours(el)
    BY <2>1, <2>4, <2>5, EchoReported
  <2>7. \A el \in ToSet(scene') : el.v # 0
    BY <1>0, <2>1
  <2>8. \A f \in Flight : \A el \in flight'[f].updates : Ours(el)
    BY <2>1, <2>3 DEF Outgoing
  <2>9. \A el \in ToSet(up) : Ours(el)
    BY DEF EchoInvariant, Outgoing
  <2>10. \A el \in Outgoing' : Ours(el)
    BY <2>1, <2>6, <2>8, <2>9 DEF Outgoing, netVars
  <2> QED BY <2>1, <2>2, <2>6, <2>7, <2>10 DEF EchoInvariant, Doubled, Ours
<1>3. ASSUME NEW i \in DOMAIN scene, NEW b \in BOOLEAN, Erase(i, b)
      PROVE  EchoInvariant'
  <2>1. PICK x \in ToSet(scene), els \in Seq(Element) : EraseFacts(x, els)
    BY <1>3, EraseIs
  <2> USE <2>1 DEF EraseFacts
  <2>2. \A el \in ToSet(els) : known[el.id] = Unknown \/ known[el.id].v = el.v \/ Ours(el)
    BY <1>0, <2>1 DEF EchoInvariant, Ours
  <2>3. \A el \in updates : Ours(el)
    BY DEF EchoInvariant, Outgoing
  <2>4. /\ \A el \in updates' : Ours(el)
        /\ \A el \in ToSet(els) :
             el.v # 0 => known'[el.id] = Unknown \/ known'[el.id].v = el.v \/ Ours(el)
    BY <2>1, <2>2, <2>3, EchoReported
  <2>5. \A el \in ToSet(scene') : known'[el.id] = Unknown \/ known'[el.id].v = el.v \/ Ours(el)
    BY <1>0, <2>1, <2>4
  <2> QED BY <2>1, <2>4, <2>5 DEF EchoInvariant, Outgoing, Doubled, Ours, netVars, countVars
<1>4. ASSUME Report
      PROVE  EchoInvariant'
  <2>1. HandleChange(scene, HeldBack, creates, updates) /\ UNCHANGED <<scene, flight, up, edits, others>>
    BY <1>4 DEF Report, netVars, countVars
  <2>2. /\ \A el \in updates' : Ours(el)
        /\ \A el \in ToSet(scene) :
             el.v # 0 => known'[el.id] = Unknown \/ known'[el.id].v = el.v \/ Ours(el)
    <3>1. \A el \in updates : Ours(el)
      BY DEF EchoInvariant, Outgoing
    <3>2. \A el \in ToSet(scene) : known[el.id] = Unknown \/ known[el.id].v = el.v \/ Ours(el)
      BY DEF EchoInvariant
    <3> QED BY <1>0, <2>1, <3>1, <3>2, EchoReported
  <2> QED BY <1>0, <2>1, <2>2 DEF EchoInvariant, Outgoing, Doubled, Ours
<1> QED BY <1>1, <1>2, <1>3, <1>4 DEF User

\* A scene applied: nothing in it differs from the baseline.
LEMMA EchoApplied ==
  ASSUME EchoInvariant, NEW els \in Seq(Element), ApplyScene(els),
         edits' + others' <= MaxEdits, \A el \in Outgoing' : el \in Outgoing \/ Ours(el)
  PROVE  EchoInvariant'
<1>1. scene' = els /\ known' = Baseline(els)
  BY DEF ApplyScene
<1>2. Distinct(els) => \A el \in ToSet(els) : Baseline(els)[el.id].v = el.v
  <2>1. \A el : Info(el).v = el.v
    BY DEF Info
  <2> QED BY <2>1, BaselineDistinct
<1> QED BY <1>1, <1>2 DEF EchoInvariant, Ours, Doubled

\* The scene is left as it is.
LEMMA EchoKept ==
  ASSUME EchoInvariant, UNCHANGED <<scene, known>>,
         edits' + others' <= MaxEdits, \A el \in Outgoing' : el \in Outgoing \/ Ours(el)
  PROVE  EchoInvariant'
  BY DEF EchoInvariant, Ours, Doubled

\* What a flush puts on the socket is what was pending, and deletes.
LEMMA EchoSent ==
  ASSUME BrowserTypeOK, NEW f \in Flight, Flush(f) \/ Answer(f) \/ PostFails(f)
  PROVE  \A el \in Outgoing' : el \in Outgoing \/ Ours(el)
<1>1. rows \in Seq(Row) /\ up \in Seq(Element) /\ ToSet(up) \subseteq Message(Len(rows)) /\ due \in [Elem -> Int]
  BY DEF BrowserTypeOK, WireOK, CountsOK
<1>2. /\ updates \in SUBSET Stored(Len(rows)) /\ IsFiniteSet(updates)
      /\ deletes \in SUBSET (1..Len(rows))
  BY DEF BrowserTypeOK, PendOK
<1>3. /\ flight[f].updates \in SUBSET Stored(Len(rows)) /\ IsFiniteSet(flight[f].updates)
      /\ flight[f].deletes \in SUBSET (1..Len(rows))
  BY DEF BrowserTypeOK, FlightsOK, FlightOK
<1>4. \A w : Ours(El(rows[w].id, 0, w))
  BY BrowserAssumption DEF Ours, El
<1>5. ASSUME NEW changed \in SUBSET Stored(Len(rows)), IsFiniteSet(changed),
             NEW erased \in SUBSET (1..Len(rows)), NEW lost, Send(changed, erased, lost)
      PROVE  \A el \in ToSet(up') : el \in ToSet(up) \cup changed \/ Ours(el)
  <2> DEFINE gone == { El(rows[w].id, 0, w) : w \in erased }
  <2>1. ToSet(up') = ToSet(up) \cup (changed \cup gone) \/ up' = up
    BY <1>1, <1>5, Sent
  <2>2. \A el \in gone : Ours(el)
    BY <1>4
  <2> QED BY <2>1, <2>2
<1>6. flight = [g \in Flight |-> flight[g]]
  BY DEF BrowserTypeOK, FlightsOK
<1>7. CASE Flush(f)
  <2>1. updates' = {}
    BY <1>7 DEF Flush
  <2>2. CASE Send(updates, deletes, { e \in Ids(creates) \ Ids(scene) : due[e] # Erased }) /\ flight' = flight
    BY <1>2, <1>5, <2>1, <2>2 DEF Outgoing
  <2>3. CASE up' = up /\ \E b : flight' = [flight EXCEPT ![f] =
               [stage |-> "posted", batch |-> b, reply |-> <<>>, updates |-> updates, deletes |-> deletes]]
    <3>1. \A g \in Flight : flight'[g].updates = flight[g].updates \/ flight'[g].updates = updates
      BY <1>6, <2>3
    <3> QED BY <2>1, <2>3, <3>1 DEF Outgoing
  <2> QED BY <1>7, <2>2, <2>3 DEF Flush
<1>8. CASE Answer(f) \/ PostFails(f)
  <2>1. /\ updates' = updates /\ flight' = [flight EXCEPT ![f] = Landed]
        /\ \E lost : Send(flight[f].updates, flight[f].deletes, lost)
    BY <1>8 DEF Answer, PostFails, pendVars
  <2>2. \A g \in Flight : flight'[g].updates = flight[g].updates \/ flight'[g].updates = {}
    BY <1>6, <2>1 DEF Landed
  <2>3. \A el \in ToSet(up') : el \in ToSet(up) \cup flight[f].updates \/ Ours(el)
    <3> DEFINE c == flight[f].updates
               d == flight[f].deletes
    <3> HIDE DEF c, d
    <3>1. c \in SUBSET Stored(Len(rows)) /\ IsFiniteSet(c) /\ d \in SUBSET (1..Len(rows))
          /\ \E lost : Send(c, d, lost)
      BY <1>3, <2>1 DEF c, d
    <3>2. \A el \in ToSet(up') : el \in ToSet(up) \cup c \/ Ours(el)
      BY <1>5, <3>1
    <3> QED BY <3>2 DEF c
  <2> QED BY <2>1, <2>2, <2>3 DEF Outgoing
<1> QED BY <1>7, <1>8

LEMMA EchoStep == BrowserTypeOK /\ EchoInvariant /\ [BrowserNext]_browserVars => EchoInvariant'
<1> SUFFICES ASSUME BrowserTypeOK, EchoInvariant, [BrowserNext]_browserVars PROVE EchoInvariant'
  OBVIOUS
<1>1. CASE UNCHANGED browserVars
  BY <1>1 DEF browserVars, pendVars, netVars, countVars, EchoInvariant, Outgoing, Ours, Doubled
<1>2. /\ edits \in Nat /\ others \in Nat /\ MaxEdits \in Nat /\ edits + others <= MaxEdits
      /\ scene \in Seq(Element) /\ flight = [g \in Flight |-> flight[g]]
  BY BrowserAssumption DEF BrowserTypeOK, CountsOK, EchoInvariant, SceneOK, FlightsOK
<1>3. CASE Server
  <2>1. UNCHANGED <<scene, known, updates>>
    BY <1>3 DEF Server, Create, Serve, Other, pendVars
  <2>2. edits' + others' <= MaxEdits
    <3>1. \/ edits' = edits /\ others' = others
          \/ edits' = edits /\ others' = others + 1 /\ edits + others < MaxEdits
      BY <1>3 DEF Server, Create, Serve, Other, countVars
    <3> QED BY <1>2, <3>1
  <2>3. \A g \in Flight : flight'[g].updates = flight[g].updates
    <3>1. ASSUME NEW f \in Flight, Create(f), NEW g \in Flight
          PROVE  flight'[g].updates = flight[g].updates
      <4> DEFINE reply == [k \in DOMAIN Created(Kept(flight[f].batch)) |->
                             Created(Kept(flight[f].batch))[k].wbid]
                 fl == flight[f]
      <4>1. flight' = [flight EXCEPT ![f].stage = "answered", ![f].reply = reply]
        BY <3>1 DEF Create
      <4>2. fl = [stage |-> fl.stage, batch |-> fl.batch, reply |-> fl.reply,
                  updates |-> fl.updates, deletes |-> fl.deletes]
        BY DEF BrowserTypeOK, FlightsOK, FlightOK
      <4>3. flight'[f] = [[fl EXCEPT !.stage = "answered"] EXCEPT !.reply = reply]
        BY <1>2, <4>1
      <4> HIDE DEF fl, reply
      <4>4. flight'[f].updates = fl.updates
        BY <4>2, <4>3
      <4> QED BY <1>2, <4>1, <4>4 DEF fl
    <3> QED BY <1>3, <3>1 DEF Server, Serve, Other
  <2>4. ToSet(up') \subseteq ToSet(up)
    <3>1. up' = up \/ (up # <<>> /\ up' = Tail(up))
      BY <1>3 DEF Server, Create, Serve, Other
    <3>2. up \in Seq(Element)
      BY DEF BrowserTypeOK, WireOK
    <3> QED BY <3>1, <3>2, TailSet
  <2>5. Outgoing' \subseteq Outgoing
    BY <2>1, <2>3, <2>4 DEF Outgoing
  <2> QED BY <2>1, <2>2, <2>5, EchoKept
<1>4. ASSUME NEW f \in Flight, Flush(f) \/ Answer(f) \/ PostFails(f)
      PROVE  EchoInvariant'
  <2>1. edits' + others' <= MaxEdits
    BY <1>2, <1>4 DEF Flush, Answer, PostFails, countVars
  <2>2. \A el \in Outgoing' : el \in Outgoing \/ Ours(el)
    BY <1>4, EchoSent
  <2>3. CASE UNCHANGED <<scene, known>>
    BY <2>1, <2>2, <2>3, EchoKept
  <2>4. CASE ApplyScene(Stamped(scene, flight[f].batch, flight[f].reply)) /\ Answer(f)
    <3>1. Stamped(scene, flight[f].batch, flight[f].reply) \in Seq(Element)
      <4>1. scene' = Stamped(scene, flight[f].batch, flight[f].reply)
        BY <2>4 DEF ApplyScene
      <4>2. BrowserTypeOK'
        BY <2>4, TypesLanding
      <4> QED BY <4>1, <4>2 DEF BrowserTypeOK, SceneOK
    <3> QED BY <2>1, <2>2, <2>4, <3>1, EchoApplied
  <2> QED BY <1>4, <2>3, <2>4 DEF Flush, Answer, PostFails
<1>5. CASE \/ \E e \in Elem : UploadLands(e) \/ UploadFails(e)
           \/ Receive \/ Connect \/ Close \/ HttpRead \/ HttpArrives \/ Leave
  <2>0. BrowserTypeOK'
    BY <1>5, TypesUpload, TypesReceive, TypesJoin, TypesLeave
  <2>1. edits' + others' <= MaxEdits
    BY <1>2, <1>5
    DEF UploadLands, UploadFails, Receive, Connect, Close, HttpRead, HttpArrives, Leave, countVars
  <2>2. Outgoing' \subseteq Outgoing
    <3>1. flight' = flight /\ (updates' = updates \/ updates' = {}) /\ (up' = up \/ up' = <<>>)
      BY <1>5
      DEF UploadLands, UploadFails, Receive, Connect, Close, HttpRead, HttpArrives, Leave,
          pendVars, netVars
    <3> QED BY <3>1, NoneSet DEF Outgoing
  <2>3. CASE UNCHANGED <<scene, known>>
    BY <2>1, <2>2, <2>3, EchoKept
  <2>4. CASE \E els : ApplyScene(els)
    <3>1. PICK els : ApplyScene(els)
      BY <2>4
    <3>2. els \in Seq(Element)
      BY <2>0, <3>1 DEF BrowserTypeOK, SceneOK, ApplyScene
    <3> QED BY <2>1, <2>2, <3>1, <3>2, EchoApplied
  <2>5. CASE Leave
    <3>1. scene' = <<>>
      BY <2>5 DEF Leave
    <3> QED BY <2>1, <2>2, <3>1, NoneSet DEF EchoInvariant
  <2> QED BY <1>5, <2>3, <2>4, <2>5
      DEF UploadLands, UploadFails, Receive, Connect, Close, HttpRead, HttpArrives
<1>6. CASE User /\ ~Doubled
  BY <1>6, EchoUser
<1> QED BY <1>1, <1>3, <1>4, <1>5, <1>6 DEF BrowserNext

LEMMA EchoInit == BrowserInit => EchoInvariant
<1> SUFFICES ASSUME BrowserInit PROVE EchoInvariant
  OBVIOUS
<1>1. /\ scene = <<>> /\ up = <<>> /\ updates = {} /\ edits = 0 /\ others = 0
      /\ \A f \in Flight : flight[f].updates = {}
  BY DEF BrowserInit, Landed
<1>2. Outgoing = {}
  BY <1>1, NoneSet DEF Outgoing
<1> QED BY <1>1, <1>2, NoneSet, BrowserAssumption DEF EchoInvariant

\* What others wrote is never sent back as an edit of this browser: applyScene
\* (CanvasView.tsx:96-108) and handleChange (CanvasView.tsx:110-166) leave no element of
\* another's hand that differs from the baseline, as long as each is shown once.
THEOREM EchoIsDropped == BrowserSpec => []EchoIsNotAnEdit
<1>1. BrowserTypeOK /\ EchoInvariant => EchoIsNotAnEdit
  BY DEF EchoInvariant, EchoIsNotAnEdit, Ours
<1> QED BY <1>1, TypesInit, TypesStep, EchoInit, EchoStep, PTL DEF BrowserSpec

-----------------------------------------------------------------------------
\* Until a bulk leaves an image out: every wbid is that of a row of the same element, no
\* element is asked for twice, and what is asked for or stored is not asked for again.
OwnIn(rs, el) == el.wbid # 0 => rs[el.wbid].id = el.id

Waiting == updates \cup UNION { flight[f].updates : f \in Flight }
Posted(f) == IF flight[f].stage = "posted" THEN Ids(flight[f].batch) ELSE {}
Asked == Ids(creates) \cup Ids(rows) \cup UNION { Posted(f) : f \in Flight }

TagsOK ==
  /\ \A el \in ToSet(scene) : OwnIn(rows, el)
  /\ \A el \in Outgoing : OwnIn(rows, el)
  /\ \A el \in ToSet(answered) : OwnIn(rows, el)
  /\ \A fr \in ToSet(down) : \A el \in ToSet(fr.els) : OwnIn(rows, el)
  /\ \A f \in Flight : flight[f].stage = "answered" =>
       /\ Len(flight[f].reply) = Len(flight[f].batch)
       /\ \A k \in 1..Len(flight[f].reply) : rows[flight[f].reply[k]].id = flight[f].batch[k].id

OnceOK ==
  /\ Distinct(creates) /\ Distinct(rows)
  /\ \A f \in Flight : Distinct(flight[f].batch)
  /\ Ids(creates) \cap Ids(rows) = {}
  /\ \A f \in Flight : Posted(f) \cap (Ids(creates) \cup Ids(rows)) = {}
  /\ \A f, g \in Flight : f # g => Posted(f) \cap Posted(g) = {}

Settled(el) ==
  /\ el.wbid = 0 /\ known[el.id] = Unknown => el.id \notin Asked
  /\ el.wbid = 0 => \A u \in Waiting : u.id # el.id
  /\ el.wbid # 0 => known[el.id] = Info(el)

UntoldOK ==
  /\ \A e \in Asked : e \notin HeldBack /\ due[e] # Undrawn
  /\ \A el \in ToSet(scene) : due[el.id] # Undrawn
  /\ ~Doubled => \A el \in ToSet(scene) : Settled(el)

CleanInvariant == ~skipped => TagsOK /\ OnceOK /\ UntoldOK

LEMMA Lists ==
  ASSUME BrowserTypeOK
  PROVE  /\ creates \in Seq(Element) /\ rows \in Seq(Element)
         /\ \A f \in Flight : flight[f].batch \in Seq(Drawn) /\ flight[f].batch \in Seq(Element)
         /\ DOMAIN rows = 1..Len(rows) /\ Len(rows) \in Nat
<1>1. Drawn \subseteq Element /\ Row \subseteq Element
  BY DEF Drawn, Row, Element
<1>2. Seq(Drawn) \subseteq Seq(Element) /\ Seq(Row) \subseteq Seq(Element)
  BY <1>1, WiderSeq
<1>3. rows \in Seq(Row) /\ creates \in Seq(Drawn) /\ \A f \in Flight : flight[f].batch \in Seq(Drawn)
  BY DEF BrowserTypeOK, PendOK, FlightsOK, FlightOK
<1> QED BY <1>2, <1>3

\* An element with a wbid of its own is stored.
LEMMA OwnAsked ==
  ASSUME BrowserTypeOK, NEW el, OwnIn(rows, el), el.wbid \in 1..Len(rows)
  PROVE  el.id \in Ids(rows) /\ el.id \in Asked
<1>1. rows[el.wbid] \in ToSet(rows) /\ rows[el.wbid].id = el.id
  BY Lists, Members DEF OwnIn
<1> QED BY <1>1 DEF Ids, Asked

LEMMA WaitingStored ==
  ASSUME BrowserTypeOK, TagsOK, NEW u \in Waiting
  PROVE  u \in Element /\ u.wbid \in 1..Len(rows) /\ u.wbid # 0 /\ OwnIn(rows, u) /\ u.id \in Asked
<1>1. u \in Stored(Len(rows)) /\ u \in Outgoing
  BY OutgoingElements DEF Waiting, Outgoing
<1>2. u \in Element /\ u.wbid \in 1..Len(rows) /\ u.wbid # 0
  BY <1>1, Lists DEF Stored, Element
<1>3. OwnIn(rows, u)
  BY <1>1 DEF TagsOK
<1> QED BY <1>2, <1>3, OwnAsked

LEMMA IdsOfRows ==
  ASSUME rows \in Seq(Element), rows' \in Seq(Element), Len(rows') = Len(rows),
         \A w \in 1..Len(rows) : rows'[w].id = rows[w].id
  PROVE  Ids(rows') = Ids(rows) /\ (Distinct(rows') <=> Distinct(rows))
  BY SameIdsDistinct

-----------------------------------------------------------------------------
\* What the steps of the user have in common: `els` is reported, and the scene is the part
\* of it that is not erased.
Placed(held, el) ==
  /\ OwnIn(rows, el) /\ el.wbid \in 0..Len(rows)
  /\ el.wbid # 0 => known[el.id].wbid = el.wbid
  /\ el.wbid = 0 /\ known[el.id] = Unknown /\ el.id \notin held => el.id \notin Asked
  /\ el.wbid = 0 => \A u \in Waiting : u.id # el.id
  /\ due'[el.id] # Undrawn

SameNames(now, before) == \A u \in now : \E o \in before : u.id = o.id /\ u.wbid = o.wbid

Reports(els, held, made, changed) ==
  /\ HandleChange(els, held, made, changed) /\ held = HeldBack'
  /\ Distinct(els) /\ ToSet(scene') \subseteq ToSet(els)
  /\ \A el \in ToSet(els) : el.v # 0 => Placed(held, el)
  /\ Ids(made) = Ids(creates) /\ Distinct(made)
  /\ SameNames(changed, updates)
  /\ \A f \in Flight : /\ SameNames(flight'[f].updates, flight[f].updates)
                       /\ flight'[f].stage = flight[f].stage
                       /\ flight'[f].batch = flight[f].batch
                       /\ flight'[f].reply = flight[f].reply
  /\ UNCHANGED <<rows, netVars>>
  /\ \A e \in Asked : e \notin held /\ due'[e] # Undrawn

LEMMA CleanReported ==
  ASSUME BrowserTypeOK, BrowserTypeOK', TagsOK, OnceOK, UntoldOK,
         NEW els \in Seq(Element), NEW held, NEW made \in Seq(Drawn), NEW changed,
         Reports(els, held, made, changed)
  PROVE  TagsOK' /\ OnceOK' /\ UntoldOK'
<1> DEFINE fresh == { el \in Fresh(els, held) : el.wbid = 0 }
           touched == { el \in Touched(els, held) : el.wbid # 0 }
<1> USE DEF Reports
<1>0. /\ \A el \in ToSet(scene') : el.v # 0 /\ el \in ToSet(els) /\ Placed(held, el)
      /\ \A el \in ToSet(els) : el.v # 0 => Placed(held, el)
  BY DEF BrowserTypeOK, SceneOK, Shown
<1>1. /\ creates' = SetCreates(made, els, fresh) /\ updates' = SetUpdates(changed, touched)
      /\ rows' = rows /\ up' = up /\ down' = down /\ answered' = answered
  BY DEF HandleChange, netVars
<1>2. \A el \in fresh : el \in ToSet(els) /\ el.v # 0 /\ el.wbid = 0 /\ el.id \notin held /\ el.id \notin Asked
                       /\ due'[el.id] # Undrawn
  BY <1>0 DEF Fresh, Placed
<1>3. \A el \in touched : el \in ToSet(els) /\ el.v # 0 /\ el.wbid # 0 /\ OwnIn(rows, el)
  BY <1>0 DEF Touched, Placed
<1> HIDE DEF fresh, touched
<1>4. \A u \in Waiting' : u \in touched \/ \E o \in Waiting : u.id = o.id /\ u.wbid = o.wbid
  <2>1. \A u \in updates' : u \in touched \/ u \in changed
    BY <1>1 DEF SetUpdates
  <2> QED BY <2>1 DEF Waiting, SameNames
<1>5. TagsOK'
  <2>1. \A el \in ToSet(scene') : OwnIn(rows, el)
    BY <1>0 DEF Placed
  <2>2. \A u \in Waiting' : OwnIn(rows, u)
    <3>1. \A o \in Waiting : OwnIn(rows, o)
      BY WaitingStored
    <3> QED BY <1>3, <1>4, <3>1 DEF OwnIn
  <2>3. \A el \in Outgoing' : OwnIn(rows, el)
    <3>1. Outgoing' = Waiting' \cup ToSet(up)
      BY <1>1 DEF Outgoing, Waiting
    <3>2. \A el \in ToSet(up) : OwnIn(rows, el)
      BY DEF TagsOK, Outgoing
    <3> QED BY <2>2, <3>1, <3>2
  <2>4. /\ \A el \in ToSet(answered') : OwnIn(rows', el)
        /\ \A fr \in ToSet(down') : \A el \in ToSet(fr.els) : OwnIn(rows', el)
    BY <1>1 DEF TagsOK
  <2>5. \A f \in Flight : flight'[f].stage = "answered" =>
          /\ Len(flight'[f].reply) = Len(flight'[f].batch)
          /\ \A k \in 1..Len(flight'[f].reply) : rows'[flight'[f].reply[k]].id = flight'[f].batch[k].id
    <3> SUFFICES ASSUME NEW f \in Flight
                 PROVE  flight'[f].stage = "answered" =>
                   /\ Len(flight'[f].reply) = Len(flight'[f].batch)
                   /\ \A k \in 1..Len(flight'[f].reply) :
                        rows'[flight'[f].reply[k]].id = flight'[f].batch[k].id
      BY Zenon
    <3>1. /\ flight'[f].stage = flight[f].stage /\ flight'[f].batch = flight[f].batch
          /\ flight'[f].reply = flight[f].reply /\ rows' = rows
      BY <1>1
    <3> QED BY <3>1 DEF TagsOK
  <2> QED BY <1>1, <2>1, <2>3, <2>4, <2>5 DEF TagsOK
<1>6. /\ creates' \in Seq(Drawn) /\ Ids(creates') = Ids(creates) \cup { el.id : el \in fresh }
      /\ Distinct(creates')
  <2>1. fresh \in SUBSET ToSet(els)
    BY <1>2
  <2>2. fresh \subseteq Drawn
    <3>1. ToSet(els) \subseteq Element
      BY Members
    <3> QED BY <1>2, <3>1 DEF Element, Drawn
  <2> QED BY <1>1, <2>1, <2>2, CreatesAfter
<1>7. \A f \in Flight : Posted(f)' = Posted(f)
  BY DEF Posted
<1>8. Asked' = Asked \cup { el.id : el \in fresh }
  BY <1>1, <1>6, <1>7 DEF Asked
<1>10. \A e \in Asked' : e \notin HeldBack' /\ due'[e] # Undrawn
  BY <1>2, <1>8
<1>11. ASSUME NEW el \in ToSet(scene') PROVE Settled(el)'
  <2>1. /\ el \in ToSet(els) /\ el.v # 0 /\ OwnIn(rows, el) /\ el.wbid \in 0..Len(rows)
        /\ el.wbid # 0 => known[el.id].wbid = el.wbid
        /\ el.wbid = 0 => \A u \in Waiting : u.id # el.id
    BY <1>0 DEF Placed
  <2>2. Info(el) # Unknown
    BY <2>1, InfoKnown
  <2>3. /\ el.id \in held => known'[el.id] = known[el.id]
        /\ el.id \notin held => known'[el.id] = IF known[el.id] # Unknown /\ known[el.id].v = el.v
                                                 THEN known[el.id] ELSE Info(el)
    BY <2>1, KnownAfter
  <2>4. known'[el.id] = Unknown => el.id \notin Asked'
    BY <1>10, <2>2, <2>3
  <2>5. el.wbid = 0 => \A u \in Waiting' : u.id # el.id
    <3> SUFFICES ASSUME el.wbid = 0, NEW u \in Waiting', u.id = el.id PROVE FALSE
      OBVIOUS
    <3>1. u \in touched
      BY <1>4, <2>1
    <3>2. u = el
      BY <1>3, <2>1, <3>1, DistinctMeans
    <3> QED BY <1>3, <3>1, <3>2
  <2>6. el.wbid # 0 => known'[el.id] = Info(el)
    <3> SUFFICES ASSUME el.wbid # 0 PROVE known'[el.id] = Info(el)
      OBVIOUS
    <3>1. el.id \in Asked
      <4> el.wbid \in 1..Len(rows)
        BY <2>1, Lists
      <4> QED BY <2>1, OwnAsked
    <3>2. el.id \notin held /\ known[el.id].wbid = el.wbid
      BY <2>1, <3>1
    <3>3. known[el.id] = [v |-> known[el.id].v, wbid |-> known[el.id].wbid]
      <4>1. el.id \in Elem
        <5> ToSet(els) \subseteq Element
          BY Members
        <5> QED BY <2>1 DEF Element
      <4> QED BY <4>1 DEF BrowserTypeOK, SceneOK
    <3> QED BY <2>3, <3>2, <3>3 DEF Info
  <2> QED BY <2>4, <2>5, <2>6 DEF Settled
<1>12. UntoldOK'
  <2>1. \A el \in ToSet(scene') : due'[el.id] # Undrawn
    BY <1>0 DEF Placed
  <2>2. ~Doubled' => \A el \in ToSet(scene') : Settled(el)'
    BY <1>11
  <2> QED BY <1>10, <2>1, <2>2 DEF UntoldOK
<1>13. OnceOK'
  <2>1. \A e \in { el.id : el \in fresh } : e \notin Asked
    BY <1>2
  <2>2. Ids(creates') \cap Ids(rows) = {}
    BY <1>6, <2>1 DEF OnceOK, Asked
  <2>3. \A f \in Flight : Posted(f)' \cap (Ids(creates') \cup Ids(rows)) = {}
    BY <1>6, <1>7, <2>1 DEF OnceOK, Asked
  <2> QED BY <1>1, <1>6, <1>7, <2>2, <2>3 DEF OnceOK
<1> QED BY <1>5, <1>12, <1>13

LEMMA CleanUser ==
  ASSUME BrowserTypeOK, BrowserTypeOK', TagsOK, OnceOK, UntoldOK, ~Doubled, User
  PROVE  TagsOK' /\ OnceOK' /\ UntoldOK'
<1>0. /\ scene \in Seq(Element) /\ Distinct(scene) /\ creates \in Seq(Drawn)
      /\ \A el \in ToSet(scene) : el \in Element /\ el \in Shown(Len(rows)) /\ el.v # 0
      /\ scene' \in Seq(Element) /\ \A el \in ToSet(scene') : el.v # 0
      /\ edits \in Nat /\ Len(rows) \in Nat /\ DOMAIN due = Elem
  <2>1. CountsOK
    BY DEF BrowserTypeOK
  <2>2. \A el \in ToSet(scene') : el.v # 0
    BY DEF BrowserTypeOK, SceneOK, Shown
  <2> QED BY <2>1, <2>2, SceneElements, Lists DEF Doubled, CountsOK, BrowserTypeOK, PendOK, SceneOK
<1>1. \A el \in ToSet(scene) : /\ OwnIn(rows, el) /\ el.wbid \in 0..Len(rows)
                               /\ Settled(el) /\ due[el.id] # Undrawn /\ el.id \in Elem
  <2>1. \A el \in ToSet(scene) : el.wbid \in 0..Len(rows) /\ el.id \in Elem
    BY <1>0 DEF Shown
  <2> QED BY <2>1 DEF TagsOK, UntoldOK
<1>2. \A el \in ToSet(scene) :
         /\ el.wbid # 0 => known[el.id].wbid = el.wbid
         /\ el.wbid = 0 /\ known[el.id] = Unknown => el.id \notin Asked
         /\ el.wbid = 0 => \A u \in Waiting : u.id # el.id
  <2>1. \A el : Info(el).wbid = el.wbid
    BY DEF Info
  <2> QED BY <1>1, <2>1 DEF Settled
<1>3. \A e \in Asked : e \notin HeldBack /\ due[e] # Undrawn
  BY DEF UntoldOK
<1>4. edits + 1 # Undrawn
  BY <1>0 DEF Undrawn
<1>5. ASSUME NEW e \in Elem, NEW b \in BOOLEAN, Draw(e, b)
      PROVE  TagsOK' /\ OnceOK' /\ UntoldOK'
  <2>1. PICK x \in Element, held \in SUBSET Elem : DrawFacts(e, x, held)
    BY <1>5, DrawIs
  <2> USE <2>1 DEF DrawFacts
  <2>2. e \notin Asked /\ \A el \in ToSet(scene) : el.id # e
    BY <1>1, <1>3
  <2>3. Distinct(scene')
    BY <1>0, <2>2
  <2>4. \A u \in Waiting : u.id # e
    BY <2>2, WaitingStored
  <2>5. \A d \in Elem : due'[d] # Undrawn \/ (d # e /\ due[d] = Undrawn)
    BY <1>0, <1>4
  <2>6. \A el \in ToSet(scene') : due'[el.id] # Undrawn
    BY <1>0, <1>1, <1>4, <2>5
  <2>7. \A d \in Asked : d \notin held
    BY <1>3, <2>2
  <2>8. \A d \in Asked : due'[d] # Undrawn
    BY <1>0, <1>3, <1>4
  <2>9. Placed(held, x)
    <3>1. x.wbid = 0 /\ x.id = e /\ due'[x.id] # Undrawn /\ x.wbid \in 0..Len(rows)
      BY <1>0, <2>6
    <3> QED BY <2>2, <2>4, <3>1 DEF Placed, OwnIn
  <2>10. \A el \in ToSet(scene) : Placed(held, el)
    BY <1>1, <1>2, <2>6 DEF Placed
  <2>11. Reports(scene', held, creates, updates)
    BY <2>3, <2>7, <2>8, <2>9, <2>10 DEF Reports, SameNames, OnceOK
  <2> QED BY <1>0, <2>11, CleanReported
<1>6. ASSUME NEW i \in DOMAIN scene, NEW b \in BOOLEAN, Edit(i, b)
      PROVE  TagsOK' /\ OnceOK' /\ UntoldOK'
  <2>1. PICK old \in ToSet(scene), x \in Element, made \in Seq(Drawn) : EditFacts(b, old, x, made)
    BY <1>6, EditIs
  <2> USE <2>1 DEF EditFacts
  <2>2. old.id \in Elem /\ Undrawn # 0
    BY <1>1 DEF Undrawn
  <2>3. \A d : due'[d] = due[d] \/ due'[d] # Undrawn
    <3>1. \A d : due'[d] = due[d] \/ due'[d] \in {0, edits + 1}
      BY <1>0, <2>2
    <3> QED BY <1>4, <2>2, <3>1
  <2>4. \A el \in ToSet(scene') : Placed(HeldBack, el)
    <3>1. \A el \in ToSet(scene) : Placed(HeldBack, el)
      BY <1>1, <1>2, <2>3 DEF Placed
    <3>2. x.id = old.id /\ x.wbid = old.wbid /\ Placed(HeldBack, old)
      BY <3>1
    <3>3. Placed(HeldBack, x)
      BY <3>2 DEF Placed, OwnIn
    <3> QED BY <3>1, <3>3
  <2>5. \A o \in Waiting : o \in Element
    BY WaitingStored
  <2>6. \A u \in { Edited(b, old, el) : el \in updates } :
           \E o \in updates : u.id = o.id /\ u.wbid = o.wbid
    BY <2>5 DEF Waiting
  <2>7. \A f \in Flight : \A u \in flight'[f].updates :
           \E o \in flight[f].updates : u.id = o.id /\ u.wbid = o.wbid
    BY <2>5, SMTT(20) DEF Waiting
  <2>8. HeldBack' = HeldBack
    BY DEF HeldBack
  <2>9. /\ \A d \in Asked : d \notin HeldBack
        /\ \A d \in Asked : due'[d] # Undrawn
    BY <1>3, <2>3
  <2> DEFINE changed == { Edited(b, old, el) : el \in updates }
  <2>10. /\ HandleChange(scene', HeldBack, made, changed)
         /\ UNCHANGED <<rows, netVars>>
         /\ Ids(made) = Ids(creates) /\ Distinct(made) /\ Distinct(scene')
         /\ \A f \in Flight : /\ flight'[f].stage = flight[f].stage
                              /\ flight'[f].batch = flight[f].batch
                              /\ flight'[f].reply = flight[f].reply
    BY DEF OnceOK
  <2> HIDE DEF changed
  <2>11. \A u \in changed : \E o \in updates : u.id = o.id /\ u.wbid = o.wbid
    BY <2>6 DEF changed
  <2>12. Reports(scene', HeldBack, made, changed)
    BY <2>4, <2>7, <2>8, <2>9, <2>10, <2>11 DEF Reports, SameNames
  <2> QED BY <1>0, <2>12, CleanReported
<1>7. ASSUME NEW i \in DOMAIN scene, NEW b \in BOOLEAN, Erase(i, b)
      PROVE  TagsOK' /\ OnceOK' /\ UntoldOK'
  <2>1. PICK x \in ToSet(scene), els \in Seq(Element) : EraseFacts(x, els)
    BY <1>7, EraseIs
  <2> USE <2>1 DEF EraseFacts
  <2>2. x.id \in Elem /\ Undrawn # 0 /\ Erased # Undrawn
    BY <1>1 DEF Undrawn, Erased
  <2>3. \A d : due'[d] = due[d] \/ due'[d] # Undrawn
    <3>1. \A d : due'[d] = due[d] \/ due'[d] \in {0, Erased}
      BY <1>0, <2>2
    <3> QED BY <2>2, <3>1
  <2>4. \A el \in ToSet(els) : el.v # 0 => Placed(HeldBack, el)
    BY <1>1, <1>2, <2>3 DEF Placed
  <2>5. HeldBack' = HeldBack
    BY DEF HeldBack, countVars
  <2>6. /\ \A d \in Asked : d \notin HeldBack
        /\ \A d \in Asked : due'[d] # Undrawn
    BY <1>3, <2>3
  <2>7. /\ HandleChange(els, HeldBack, creates, updates)
        /\ UNCHANGED <<rows, netVars>> /\ flight' = flight
        /\ Distinct(creates) /\ Distinct(els) /\ ToSet(scene') \subseteq ToSet(els)
    BY DEF OnceOK
  <2>8. Reports(els, HeldBack, creates, updates)
    BY <2>4, <2>5, <2>6, <2>7 DEF Reports, SameNames
  <2> QED BY <1>0, <2>8, CleanReported
<1>8. ASSUME Report
      PROVE  TagsOK' /\ OnceOK' /\ UntoldOK'
  <2>1. /\ HandleChange(scene, HeldBack, creates, updates)
        /\ UNCHANGED <<rows, netVars>> /\ flight' = flight /\ scene' = scene /\ due' = due
        /\ HeldBack' = HeldBack
    BY <1>8 DEF Report, countVars, historyVars, HeldBack
  <2>2. \A el \in ToSet(scene) : Placed(HeldBack, el)
    BY <1>1, <1>2, <2>1 DEF Placed
  <2>3. /\ \A d \in Asked : d \notin HeldBack
        /\ \A d \in Asked : due'[d] # Undrawn
    BY <1>3, <2>1
  <2>4. Reports(scene, HeldBack, creates, updates)
    BY <1>0, <2>1, <2>2, <2>3 DEF Reports, SameNames, OnceOK
  <2> QED BY <1>0, <2>4, CleanReported
<1> QED BY <1>5, <1>6, <1>7, <1>8 DEF User

-----------------------------------------------------------------------------
LEMMA AskedElements ==
  ASSUME BrowserTypeOK
  PROVE  Asked \subseteq Elem
<1>1. \A f \in Flight : Posted(f) \subseteq Ids(flight[f].batch)
  BY DEF Posted
<1>2. ASSUME NEW s \in Seq(Element) PROVE Ids(s) \subseteq Elem
  <2>1. ToSet(s) \subseteq Element
    BY Members
  <2> QED BY <2>1 DEF Element, Ids
<1> QED BY <1>1, <1>2, Lists DEF Asked

\* The other steps of the browser add nothing to what is asked for, is pending or is on its
\* way, and what they show anew has a row.
Quiet ==
  /\ rows' = rows
  /\ \A el \in ToSet(scene') : OwnIn(rows, el) /\ (el \in ToSet(scene) \/ el.wbid # 0)
  /\ Waiting' \subseteq Waiting
  /\ \A el \in ToSet(up') : OwnIn(rows, el)
  /\ \A el \in ToSet(answered') : OwnIn(rows, el)
  /\ \A fr \in ToSet(down') : \A el \in ToSet(fr.els) : OwnIn(rows, el)
  /\ \A f \in Flight :
       flight'[f].stage = "answered" => /\ flight[f].stage = "answered"
                                        /\ flight'[f].reply = flight[f].reply
                                        /\ flight'[f].batch = flight[f].batch
  /\ \A f \in Flight : Distinct(flight'[f].batch)
  /\ Distinct(creates') /\ Ids(creates') \subseteq Ids(creates)
  /\ \A f \in Flight : Posted(f)' \subseteq Posted(f) \cup (Ids(creates) \ Ids(creates'))
  /\ \A f, g \in Flight : f # g => Posted(f)' \subseteq Posted(f) \/ Posted(g)' \subseteq Posted(g)
  /\ HeldBack' \subseteq HeldBack
  /\ \A e \in Elem : due'[e] # Undrawn \/ due[e] = Undrawn
  /\ \/ UNCHANGED <<scene, known>>
     \/ ApplyScene(scene')
     \/ scene' = <<>>

LEMMA CleanQuiet ==
  ASSUME BrowserTypeOK, BrowserTypeOK', TagsOK, OnceOK, UntoldOK, ~Doubled, Quiet
  PROVE  TagsOK' /\ OnceOK' /\ UntoldOK'
<1> USE DEF Quiet
<1>1. TagsOK'
  <2>1. \A el \in Outgoing' : OwnIn(rows, el)
    <3>1. \A el \in Waiting' : OwnIn(rows, el)
      BY WaitingStored
    <3>2. Outgoing' = Waiting' \cup ToSet(up')
      BY DEF Outgoing, Waiting
    <3> QED BY <3>1, <3>2
  <2>2. \A f \in Flight : flight'[f].stage = "answered" =>
          /\ Len(flight'[f].reply) = Len(flight'[f].batch)
          /\ \A k \in 1..Len(flight'[f].reply) : rows'[flight'[f].reply[k]].id = flight'[f].batch[k].id
    BY DEF TagsOK
  <2> QED BY <2>1, <2>2 DEF TagsOK
<1>2. Asked' \subseteq Asked
  BY DEF Asked
<1>3. OnceOK'
  <2>1. \A f \in Flight : Posted(f)' \cap (Ids(creates') \cup Ids(rows')) = {}
    BY DEF OnceOK
  <2>2. ASSUME NEW f \in Flight, NEW g \in Flight, f # g, Posted(f)' \subseteq Posted(f)
        PROVE  Posted(f)' \cap Posted(g)' = {}
    BY <2>2 DEF OnceOK
  <2>3. \A f, g \in Flight : f # g => Posted(f)' \cap Posted(g)' = {}
    BY <2>2
  <2> QED BY <2>1, <2>3 DEF OnceOK
<1>4. \A el \in ToSet(scene') : el.id \in Elem /\ el.wbid \in 0..Len(rows) /\ el.v # 0
  BY DEF BrowserTypeOK, SceneOK, Shown
<1>5. \A e \in Asked : e \in Elem
  BY AskedElements
<1>6. \A e \in Asked' : e \notin HeldBack' /\ due'[e] # Undrawn
  BY <1>2, <1>5 DEF UntoldOK
<1>7. \A el \in ToSet(scene') : due'[el.id] # Undrawn
  <2> SUFFICES ASSUME NEW el \in ToSet(scene') PROVE due'[el.id] # Undrawn
    OBVIOUS
  <2>1. CASE el \in ToSet(scene)
    BY <1>4, <2>1 DEF UntoldOK
  <2>2. CASE el.wbid # 0
    <3>1. el.wbid \in 1..Len(rows)
      BY <1>4, <2>2, Lists
    <3>2. el.id \in Asked
      BY <3>1, OwnAsked
    <3> QED BY <1>4, <3>2 DEF UntoldOK
  <2> QED BY <2>1, <2>2
<1>8. ~Doubled' => \A el \in ToSet(scene') : Settled(el)'
  <2> SUFFICES ASSUME ~Doubled', NEW el \in ToSet(scene') PROVE Settled(el)'
    OBVIOUS
  <2>1. CASE UNCHANGED <<scene, known>>
    BY <1>2, <2>1 DEF UntoldOK, Settled, Doubled
  <2>2. CASE ApplyScene(scene')
    <3>1. known'[el.id] = Info(el)
      BY <2>2, BaselineDistinct DEF ApplyScene, Doubled, BrowserTypeOK, SceneOK
    <3>2. known'[el.id] # Unknown
      BY <1>4, <3>1, InfoKnown
    <3>3. el.wbid = 0 => \A u \in Waiting' : u.id # el.id
      <4> SUFFICES ASSUME el.wbid = 0, NEW u \in Waiting', u.id = el.id PROVE FALSE
        OBVIOUS
      <4>1. el \in ToSet(scene) /\ u \in Waiting
        OBVIOUS
      <4> QED BY <4>1 DEF UntoldOK, Settled
    <3> QED BY <3>1, <3>2, <3>3 DEF Settled
  <2>3. CASE scene' = <<>>
    BY <2>3, NoneSet
  <2> QED BY <2>1, <2>2, <2>3
<1> QED BY <1>1, <1>3, <1>6, <1>7, <1>8 DEF UntoldOK

LEMMA DroppedIs ==
  ASSUME NEW ids, due' = Dropped(ids)
  PROVE  \A e \in Elem : due'[e] = (IF e \in ids THEN 0 ELSE due[e])
                         /\ (due'[e] # Undrawn \/ due[e] = Undrawn)
<1>1. Undrawn # 0
  BY DEF Undrawn
<1> QED BY <1>1 DEF Dropped

LEMMA SentOwn ==
  ASSUME BrowserTypeOK, TagsOK,
         NEW changed \in SUBSET Stored(Len(rows)), IsFiniteSet(changed), changed \subseteq Waiting,
         NEW erased \in SUBSET (1..Len(rows)), NEW lost, Send(changed, erased, lost)
  PROVE  /\ \A el \in ToSet(up') : OwnIn(rows, el)
         /\ \A e \in Elem : due'[e] # Undrawn \/ due[e] = Undrawn
<1> DEFINE gone == { El(rows[w].id, 0, w) : w \in erased }
<1>1. rows \in Seq(Row) /\ up \in Seq(Element) /\ ToSet(up) \subseteq Message(Len(rows)) /\ due \in [Elem -> Int]
  BY DEF BrowserTypeOK, WireOK, CountsOK
<1>2. ToSet(up') = ToSet(up) \cup (changed \cup gone) \/ up' = up
  BY <1>1, Sent
<1>3. \A el \in gone : OwnIn(rows, el)
  BY DEF OwnIn, El
<1>4. \A el \in ToSet(up) \cup changed : OwnIn(rows, el)
  BY WaitingStored DEF TagsOK, Outgoing
<1>5. \A el \in ToSet(up') : OwnIn(rows, el)
  <2> HIDE DEF gone
  <2> QED BY <1>2, <1>3, <1>4
<1>6. \E ids : due' = Dropped(ids)
  BY DEF Send
<1> QED BY <1>5, <1>6, DroppedIs

LEMMA QuietFlush ==
  ASSUME BrowserTypeOK, TagsOK, OnceOK, NEW f \in Flight, Flush(f)
  PROVE  Quiet
<1> DEFINE batch == Only(creates, { el \in ToSet(creates) : el.id \in Ids(scene) })
           wiped == { e \in Ids(creates) \ Ids(scene) : due[e] # Erased }
           fl == [stage |-> "posted", batch |-> batch, reply |-> <<>>,
                  updates |-> updates, deletes |-> deletes]
<1>0. /\ creates \in Seq(Element) /\ flight = [g \in Flight |-> flight[g]]
      /\ updates \in SUBSET Stored(Len(rows)) /\ IsFiniteSet(updates)
      /\ deletes \in SUBSET (1..Len(rows)) /\ updates \subseteq Waiting
  BY Lists DEF BrowserTypeOK, PendOK, FlightsOK, Waiting
<1>1. /\ creates' = <<>> /\ updates' = {} /\ flight[f].stage = "idle"
      /\ UNCHANGED <<scene, known, rows, down, socket, http, answered, countVars, skipped>>
  BY DEF Flush
<1>2. \/ Send(updates, deletes, wiped) /\ flight' = flight
      \/ flight' = [flight EXCEPT ![f] = fl] /\ due' = Dropped(wiped) /\ up' = up
  BY DEF Flush
<1>3. /\ batch \in Seq(Element) /\ Distinct(batch) /\ ToSet(batch) \subseteq ToSet(creates)
  BY <1>0, OnlyIsPart, OnlyDistinct DEF OnceOK
<1>4. Ids(batch) \subseteq Ids(creates)
  BY <1>3 DEF Ids
<1> HIDE DEF batch
<1>5. /\ fl.stage = "posted" /\ fl.batch = batch /\ fl.updates = updates
  OBVIOUS
<1> HIDE DEF wiped, fl
<1>6. Ids(<<>>) = {} /\ Distinct(<<>>)
  BY NoneSet DEF Ids, Distinct
<1>7. /\ \A el \in ToSet(up') : OwnIn(rows, el)
      /\ \A e \in Elem : due'[e] # Undrawn \/ due[e] = Undrawn
  <2>1. CASE Send(updates, deletes, wiped)
    BY <1>0, <2>1, SentOwn
  <2>2. CASE due' = Dropped(wiped) /\ up' = up
    BY <2>2, DroppedIs DEF TagsOK, Outgoing
  <2> QED BY <1>2, <2>1, <2>2
<1>8. \A g \in Flight : \/ flight'[g] = flight[g]
                        \/ g = f /\ flight'[g] = fl
  BY <1>0, <1>2
<1>9. \A g \in Flight : \/ Posted(g)' = Posted(g)
                        \/ g = f /\ Posted(g)' = Ids(batch)
  BY <1>5, <1>8 DEF Posted
<1>10. \A g \in Flight : Posted(g)' \subseteq Posted(g) \cup (Ids(creates) \ Ids(creates'))
  BY <1>1, <1>4, <1>6, <1>9
<1>11. \A g, h \in Flight : g # h => Posted(g)' \subseteq Posted(g) \/ Posted(h)' \subseteq Posted(h)
  BY <1>9
<1>12. Waiting' \subseteq Waiting
  <2>1. \A g \in Flight : flight'[g].updates = flight[g].updates \/ flight'[g].updates = updates
    BY <1>5, <1>8
  <2> QED BY <1>1, <2>1 DEF Waiting
<1>13. \A g \in Flight : Distinct(flight'[g].batch)
  BY <1>3, <1>5, <1>8 DEF OnceOK
<1>14. \A g \in Flight : flight'[g].stage = "answered" =>
             /\ flight[g].stage = "answered" /\ flight'[g].reply = flight[g].reply
             /\ flight'[g].batch = flight[g].batch
  BY <1>5, <1>8
<1>15. HeldBack' \subseteq HeldBack
  BY <1>1 DEF HeldBack, countVars
<1>16. /\ \A el \in ToSet(scene') : OwnIn(rows, el) /\ (el \in ToSet(scene) \/ el.wbid # 0)
       /\ \A el \in ToSet(answered') : OwnIn(rows, el)
       /\ \A fr \in ToSet(down') : \A el \in ToSet(fr.els) : OwnIn(rows, el)
  BY <1>1 DEF TagsOK
<1>17. rows' = rows /\ UNCHANGED <<scene, known>> /\ Distinct(creates') /\ Ids(creates') \subseteq Ids(creates)
  BY <1>1, <1>6
<1> QED BY <1>7, <1>10, <1>11, <1>12, <1>13, <1>14, <1>15, <1>16, <1>17 DEF Quiet

\* An element that is stamped gets its own row, if the answer names the rows of the batch.
LEMMA StampedOwnRow ==
  ASSUME NEW els \in Seq(Element), NEW batch, NEW R, NEW reply \in Seq(R), NEW board,
         \A k \in 1..Len(reply) : board[reply[k]].id = batch[k].id /\ reply[k] # 0,
         NEW i \in 1..Len(els), OwnIn(board, els[i])
  PROVE  LET new == Stamped(els, batch, reply)[i]
         IN  OwnIn(board, new) /\ (new = els[i] \/ new.wbid # 0)
<1> DEFINE new == Stamped(els, batch, reply)[i]
<1>1. els[i] \in Element
  OBVIOUS
<1>2. new = els[i] \/ GetsTag(els[i], new, batch, reply)
  BY StampedIs
<1> HIDE DEF new
<1>3. ASSUME NEW k \in 1..Len(reply), batch[k].id = els[i].id, new = [els[i] EXCEPT !.wbid = reply[k]]
      PROVE  OwnIn(board, new) /\ new.wbid # 0
  <2>1. new.wbid = reply[k] /\ new.id = els[i].id
    BY <1>1, <1>3 DEF Element
  <2>2. board[reply[k]].id = new.id
    BY <1>3, <2>1
  <2> QED BY <2>1, <2>2 DEF OwnIn
<1>4. OwnIn(board, new) /\ (new = els[i] \/ new.wbid # 0)
  BY <1>2, <1>3 DEF GetsTag
<1> QED BY <1>4 DEF new

\* A batch that is answered for every element: each that is stamped gets its own row.
LEMMA StampedOwn ==
  ASSUME BrowserTypeOK, TagsOK, NEW f \in Flight, flight[f].stage = "answered",
         Stamped(scene, flight[f].batch, flight[f].reply) \in Seq(Element)
  PROVE  \A el \in ToSet(Stamped(scene, flight[f].batch, flight[f].reply)) :
           OwnIn(rows, el) /\ (el \in ToSet(scene) \/ el.wbid # 0)
<1> DEFINE batch == flight[f].batch
           reply == flight[f].reply
           els == Stamped(scene, batch, reply)
           R == 1..Len(rows)
<1>1. scene \in Seq(Element) /\ reply \in Seq(R) /\ DOMAIN scene = 1..Len(scene) /\ Len(rows) \in Nat
  BY SceneElements, Lists DEF BrowserTypeOK, FlightsOK, FlightOK
<1>2. \A k \in 1..Len(reply) : rows[reply[k]].id = batch[k].id /\ reply[k] # 0
  BY <1>1 DEF TagsOK
<1>3. \A i \in 1..Len(scene) : scene[i] \in ToSet(scene) /\ OwnIn(rows, scene[i])
  BY <1>1, Members DEF TagsOK
<1> HIDE DEF batch, reply, R
<1>4. DOMAIN els = 1..Len(scene)
  BY <1>1, StampedIs
<1>5. \A i \in 1..Len(scene) : OwnIn(rows, els[i]) /\ (els[i] = scene[i] \/ els[i].wbid # 0)
  BY <1>1, <1>2, <1>3, StampedOwnRow
<1> HIDE DEF els
<1>6. \A el \in ToSet(els) : \E i \in 1..Len(scene) : el = els[i]
  BY <1>4 DEF ToSet
<1>7. \A el \in ToSet(els) : OwnIn(rows, el) /\ (el \in ToSet(scene) \/ el.wbid # 0)
  BY <1>3, <1>5, <1>6
<1> QED BY <1>7 DEF els, batch, reply

LEMMA QuietLanding ==
  ASSUME BrowserTypeOK, BrowserTypeOK', TagsOK, OnceOK, NEW f \in Flight, Answer(f) \/ PostFails(f)
  PROVE  Quiet
<1> DEFINE els == Stamped(scene, flight[f].batch, flight[f].reply)
<1>0. flight = [g \in Flight |-> flight[g]]
  BY DEF BrowserTypeOK, FlightsOK
<1>1. /\ flight' = [flight EXCEPT ![f] = Landed]
      /\ UNCHANGED <<pendVars, rows, down, socket, http, answered, countVars, raceVars>>
      /\ \E lost : Send(flight[f].updates, flight[f].deletes, lost)
      /\ \/ UNCHANGED <<scene, known>>
         \/ ApplyScene(els) /\ flight[f].stage = "answered"
  BY DEF Answer, PostFails
<1> HIDE DEF els
<1>2. /\ \A el \in ToSet(up') : OwnIn(rows, el)
      /\ \A e \in Elem : due'[e] # Undrawn \/ due[e] = Undrawn
  <2> DEFINE c == flight[f].updates
             d == flight[f].deletes
  <2>1. c \in SUBSET Stored(Len(rows)) /\ IsFiniteSet(c) /\ d \in SUBSET (1..Len(rows)) /\ c \subseteq Waiting
    BY DEF BrowserTypeOK, FlightsOK, FlightOK, Waiting
  <2>2. \E lost : Send(c, d, lost)
    BY <1>1
  <2> HIDE DEF c, d
  <2> QED BY <2>1, <2>2, SentOwn
<1>3. \A g \in Flight : flight'[g] = IF g = f THEN Landed ELSE flight[g]
  BY <1>0, <1>1
<1>4. Landed.stage = "idle" /\ Landed.batch = <<>> /\ Landed.updates = {} /\ Distinct(<<>>)
  BY DEF Landed, Distinct
<1>5. \A g \in Flight : Posted(g)' \subseteq Posted(g)
  BY <1>3, <1>4 DEF Posted
<1>6. Waiting' \subseteq Waiting
  BY <1>1, <1>3, <1>4 DEF Waiting, pendVars
<1>7. /\ \A g \in Flight : Distinct(flight'[g].batch)
      /\ \A g \in Flight : flight'[g].stage = "answered" =>
             /\ flight[g].stage = "answered" /\ flight'[g].reply = flight[g].reply
             /\ flight'[g].batch = flight[g].batch
  BY <1>3, <1>4 DEF OnceOK
<1>8. HeldBack' \subseteq HeldBack
  BY <1>1 DEF HeldBack, countVars
<1>9. /\ \A el \in ToSet(scene') : OwnIn(rows, el) /\ (el \in ToSet(scene) \/ el.wbid # 0)
      /\ UNCHANGED <<scene, known>> \/ ApplyScene(scene')
  <2>1. CASE UNCHANGED <<scene, known>>
    BY <2>1 DEF TagsOK
  <2>2. CASE ApplyScene(els) /\ flight[f].stage = "answered"
    <3>1. scene' = els /\ scene' \in Seq(Element)
      BY <2>2 DEF ApplyScene, BrowserTypeOK, SceneOK
    <3> QED BY <2>2, <3>1, StampedOwn DEF els
  <2> QED BY <1>1, <2>1, <2>2
<1>10. /\ \A el \in ToSet(answered') : OwnIn(rows, el)
       /\ \A fr \in ToSet(down') : \A el \in ToSet(fr.els) : OwnIn(rows, el)
  BY <1>1 DEF TagsOK
<1>11. creates' = creates /\ Distinct(creates')
  BY <1>1 DEF pendVars, OnceOK
<1> QED BY <1>1, <1>2, <1>5, <1>6, <1>7, <1>8, <1>9, <1>10, <1>11 DEF Quiet

LEMMA QuietTold ==
  ASSUME BrowserTypeOK, BrowserTypeOK', TagsOK, OnceOK,
         \/ \E e \in Elem : UploadLands(e) \/ UploadFails(e)
         \/ Receive \/ Connect \/ Close \/ HttpRead \/ HttpArrives \/ Leave
  PROVE  Quiet
<1>0. /\ scene \in Seq(Element) /\ ToSet(scene) \subseteq Shown(Len(rows)) /\ rows \in Seq(Row) /\ Len(rows) \in Nat
      /\ down \in Seq(Frame) /\ \A fr \in ToSet(down) : FrameOK(fr, Len(rows))
      /\ scene' \in Seq(Element) /\ DOMAIN upload = Elem
      /\ ToSet(answered) \subseteq Stored(Len(rows))
  BY Lists DEF BrowserTypeOK, SceneOK, WireOK, CountsOK
<1>1. /\ rows' = rows /\ flight' = flight
      /\ (creates' = creates /\ updates' = updates) \/ (creates' = <<>> /\ updates' = {})
      /\ up' = up \/ up' = <<>>
  BY DEF UploadLands, UploadFails, Receive, Connect, Close, HttpRead, HttpArrives, Leave,
          pendVars, netVars
<1>2. \A e \in Elem : due'[e] # Undrawn \/ due[e] = Undrawn
  <2>1. due' = due \/ \E ids : due' = Dropped(ids)
    BY DEF UploadLands, UploadFails, Receive, Connect, Close, HttpRead, HttpArrives, Leave, historyVars
  <2> QED BY <2>1, DroppedIs
<1>3. HeldBack' \subseteq HeldBack
  <2>1. \/ upload' = upload
        \/ \E e \in Elem : upload[e] = "asked" /\ upload' = [upload EXCEPT ![e] = "stored"]
        \/ \E e \in Elem : upload[e] = "asked" /\ upload' = [upload EXCEPT ![e] = "failed"]
    BY DEF UploadLands, UploadFails, Receive, Connect, Close, HttpRead, HttpArrives, Leave, countVars
  <2> QED BY <1>0, <2>1 DEF HeldBack
<1>4. /\ \A el \in ToSet(scene') : OwnIn(rows, el) /\ (el \in ToSet(scene) \/ el.wbid # 0)
      /\ UNCHANGED <<scene, known>> \/ ApplyScene(scene') \/ scene' = <<>>
  <2>1. CASE UNCHANGED <<scene, known>>
    BY <2>1 DEF TagsOK
  <2>2. CASE scene' = <<>>
    BY <2>2, NoneSet
  <2>3. ASSUME NEW e \in Elem, UploadFails(e)
        PROVE  /\ ApplyScene(scene')
               /\ \A el \in ToSet(scene') : OwnIn(rows, el) /\ (el \in ToSet(scene) \/ el.wbid # 0)
    <3> DEFINE els == Only(scene, { el \in ToSet(scene) : el.id # e })
    <3>1. ApplyScene(els) /\ scene' = els
      BY <2>3 DEF UploadFails, ApplyScene
    <3>2. ToSet(els) \subseteq ToSet(scene)
      BY <1>0, OnlyIsPart
    <3> HIDE DEF els
    <3> QED BY <3>1, <3>2 DEF TagsOK
  <2>4. CASE Receive /\ ApplyScene(Merged(Head(down)))
    <3> DEFINE fr == Head(down)
    <3>1. fr \in ToSet(down)
      BY <1>0, <2>4, TailSet DEF Receive
    <3>2. FrameOK(fr, Len(rows))
      BY <1>0, <3>1
    <3>3. scene' = Merged(fr)
      BY <2>4 DEF ApplyScene
    <3> HIDE DEF fr
    <3>4. /\ ToSet(scene') \subseteq ToSet(scene) \cup ToSet(fr.els)
          /\ fr.op = "delete" => ToSet(scene') \subseteq ToSet(scene)
      BY <1>0, <3>2, <3>3, MergedIs
    <3>5. fr.op # "delete" => ToSet(fr.els) \subseteq Stored(Len(rows))
      BY <3>2 DEF FrameOK
    <3>6. fr.op # "delete" => \A el \in ToSet(fr.els) : el.wbid # 0
      BY <1>0, <3>5 DEF Stored
    <3> QED BY <2>4, <3>1, <3>3, <3>4, <3>6 DEF TagsOK, fr
  <2>5. CASE HttpArrives
    <3>1. scene' = answered /\ ApplyScene(scene')
      BY <2>5 DEF HttpArrives, ApplyScene
    <3>2. \A el \in ToSet(answered) : el.wbid # 0
      BY <1>0 DEF Stored
    <3> QED BY <3>1, <3>2 DEF TagsOK
  <2> QED BY <2>1, <2>2, <2>3, <2>4, <2>5
      DEF UploadLands, Receive, Connect, Close, HttpRead, Leave
<1>5. \A el \in ToSet(Board) : OwnIn(rows, el)
  BY <1>0, BoardIs DEF OwnIn, El
<1>6. \A el \in ToSet(answered') : OwnIn(rows, el)
  <2>1. answered' = answered \/ answered' = Board \/ answered' = <<>>
    BY DEF UploadLands, UploadFails, Receive, Connect, Close, HttpRead, HttpArrives, Leave, netVars
  <2> QED BY <1>5, <2>1, NoneSet DEF TagsOK
<1>7. \A fr \in ToSet(down') : \A el \in ToSet(fr.els) : OwnIn(rows, el)
  <2> DEFINE frame == [op |-> "snapshot", els |-> Board]
  <2>1. down' = down \/ down' = <<>> \/ down' = <<frame>> \/ (down # <<>> /\ down' = Tail(down))
    BY DEF UploadLands, UploadFails, Receive, Connect, Close, HttpRead, HttpArrives, Leave, netVars
  <2>2. frame.els = Board
    OBVIOUS
  <2> HIDE DEF frame
  <2>3. ToSet(<<frame>>) = {frame}
    BY DEF ToSet
  <2>4. CASE down' = <<frame>>
    BY <1>5, <2>2, <2>3, <2>4
  <2>5. CASE down # <<>> /\ down' = Tail(down)
    <3>1. ToSet(down') \subseteq ToSet(down)
      BY <1>0, <2>5, TailSet
    <3> QED BY <3>1 DEF TagsOK
  <2> QED BY <2>1, <2>4, <2>5, NoneSet DEF TagsOK
<1>8. Ids(<<>>) = {} /\ Distinct(<<>>)
  BY NoneSet DEF Ids, Distinct
<1>9. Distinct(creates') /\ Ids(creates') \subseteq Ids(creates)
  BY <1>1, <1>8 DEF OnceOK
<1>10. Waiting' \subseteq Waiting /\ \A f \in Flight : Posted(f)' = Posted(f)
  BY <1>1 DEF Waiting, Posted
<1>11. \A el \in ToSet(up') : OwnIn(rows, el)
  BY <1>1, NoneSet DEF TagsOK, Outgoing
<1>12. \A f \in Flight : Distinct(flight'[f].batch)
  BY <1>1 DEF OnceOK
<1> QED BY <1>1, <1>2, <1>3, <1>4, <1>6, <1>7, <1>9, <1>10, <1>11, <1>12 DEF Quiet

-----------------------------------------------------------------------------
\* The server: a row keeps the id it was created with.
LEMMA CleanRows ==
  ASSUME BrowserTypeOK, BrowserTypeOK', TagsOK, OnceOK, UntoldOK,
         Len(rows') = Len(rows), \A w \in 1..Len(rows) : rows'[w].id = rows[w].id,
         UNCHANGED <<scene, known, pendVars, flight, answered, upload>>,
         ToSet(up') \subseteq ToSet(up),
         \A fr \in ToSet(down') : fr \in ToSet(down) \/ \A el \in ToSet(fr.els) : OwnIn(rows, el),
         \A e \in Elem : due'[e] # Undrawn \/ due[e] = Undrawn
  PROVE  TagsOK' /\ OnceOK' /\ UntoldOK'
<1> DEFINE n == Len(rows)
<1>1. Ids(rows') = Ids(rows) /\ (Distinct(rows') <=> Distinct(rows)) /\ n \in Nat
  <2>1. rows' \in Seq(Row) /\ Row \subseteq Element
    BY DEF BrowserTypeOK, Row, Element
  <2>2. rows' \in Seq(Element)
    BY <2>1, WiderSeq
  <2> QED BY <2>2, Lists, IdsOfRows
<1>2. \A el : el.wbid \in 0..n /\ OwnIn(rows, el) => OwnIn(rows', el)
  BY <1>1 DEF OwnIn
<1> HIDE DEF n
<1>3. Outgoing' \subseteq Outgoing /\ Outgoing \subseteq Message(n)
  BY OutgoingElements DEF Outgoing, pendVars, n
<1>4. \A el \in Message(n) \cup Stored(n) \cup Shown(n) : el.wbid \in 0..n
  BY <1>1 DEF Message, Stored, Shown
<1>5. /\ ToSet(scene) \subseteq Shown(n) /\ ToSet(answered) \subseteq Stored(n)
      /\ \A fr \in ToSet(down') : ToSet(fr.els) \subseteq Message(n) \cup Stored(n)
  <2>1. \A fr \in ToSet(down') : FrameOK(fr, n)
    BY DEF BrowserTypeOK, WireOK, n
  <2> QED BY <2>1 DEF BrowserTypeOK, SceneOK, WireOK, FrameOK, n
<1>6. TagsOK'
  <2>1. \A el \in ToSet(scene') : OwnIn(rows', el)
    BY <1>2, <1>4, <1>5 DEF TagsOK
  <2>2. \A el \in Outgoing' : OwnIn(rows', el)
    BY <1>2, <1>3, <1>4 DEF TagsOK
  <2>3. \A el \in ToSet(answered') : OwnIn(rows', el)
    BY <1>2, <1>4, <1>5 DEF TagsOK
  <2>4. \A fr \in ToSet(down') : \A el \in ToSet(fr.els) : OwnIn(rows', el)
    BY <1>2, <1>4, <1>5 DEF TagsOK
  <2>5. \A f \in Flight : flight'[f].stage = "answered" =>
          /\ Len(flight'[f].reply) = Len(flight'[f].batch)
          /\ \A k \in 1..Len(flight'[f].reply) : rows'[flight'[f].reply[k]].id = flight'[f].batch[k].id
    <3> SUFFICES ASSUME NEW f \in Flight, flight[f].stage = "answered"
                 PROVE  /\ Len(flight[f].reply) = Len(flight[f].batch)
                        /\ \A k \in 1..Len(flight[f].reply) :
                             rows'[flight[f].reply[k]].id = flight[f].batch[k].id
      OBVIOUS
    <3>1. \A k \in 1..Len(flight[f].reply) : flight[f].reply[k] \in 1..n
      BY DEF BrowserTypeOK, FlightsOK, FlightOK, n
    <3> QED BY <3>1 DEF TagsOK, n
  <2> QED BY <2>1, <2>2, <2>3, <2>4, <2>5 DEF TagsOK
<1>7. Asked' = Asked /\ (\A f \in Flight : Posted(f)' = Posted(f)) /\ Waiting' = Waiting
      /\ HeldBack' = HeldBack
  BY <1>1 DEF Asked, Posted, Waiting, HeldBack, pendVars
<1>8. OnceOK'
  BY <1>1, <1>7 DEF OnceOK, pendVars
<1>9. \A e \in Asked : e \in Elem
  BY AskedElements
<1>10. \A el \in ToSet(scene) : el.id \in Elem
  BY <1>5 DEF Shown
<1>11. UntoldOK'
  <2>1. \A e \in Asked' : e \notin HeldBack' /\ due'[e] # Undrawn
    BY <1>7, <1>9 DEF UntoldOK
  <2>2. \A el \in ToSet(scene') : due'[el.id] # Undrawn
    BY <1>10 DEF UntoldOK
  <2>3. ~Doubled' => \A el \in ToSet(scene') : Settled(el)'
    BY <1>7 DEF UntoldOK, Doubled, Settled
  <2> QED BY <2>1, <2>2, <2>3 DEF UntoldOK
<1> QED BY <1>6, <1>8, <1>11

\* What Serve makes of its row keeps the id of the row.
LEMMA ServeIds ==
  ASSUME BrowserTypeOK, TagsOK, Serve
  PROVE  /\ Head(up) \in ToSet(up) /\ Head(up) \in Message(Len(rows))
         /\ ToSet(up') \subseteq ToSet(up) /\ OwnIn(rows, Head(up)) /\ Head(up).wbid \in 1..Len(rows)
         /\ \A w \in 1..Len(rows) :
              /\ rows'[w].id = rows[w].id
              /\ rows'[w].v = rows[w].v \/ (w = Head(up).wbid /\ rows'[w].v = Head(up).v /\ rows[w].v # 0)
<1> DEFINE el == Head(up)
           n == Len(rows)
           r == IF el.v = 0 THEN [rows[el.wbid] EXCEPT !.v = 0] ELSE El(el.id, el.v, 0)
<1>1. /\ up # <<>> /\ up' = Tail(up) /\ up \in Seq(Element) /\ ToSet(up) \subseteq Message(n)
      /\ rows' = rows \/ (rows' = [rows EXCEPT ![el.wbid] = r] /\ rows[el.wbid].v # 0)
  BY DEF Serve, BrowserTypeOK, WireOK
<1>2. el \in ToSet(up) /\ ToSet(up') \subseteq ToSet(up) /\ el \in Message(n)
  BY <1>1, TailSet
<1>3. OwnIn(rows, el)
  BY <1>2 DEF TagsOK, Outgoing
<1> HIDE DEF el
<1>4. el.wbid \in 1..n /\ rows[el.wbid] \in Row /\ el.wbid # 0 /\ DOMAIN rows = 1..n
  <2>1. el.wbid \in 1..n /\ rows \in Seq(Row)
    BY <1>2 DEF Message, BrowserTypeOK
  <2> QED BY <2>1
<1>5. r.id = rows[el.wbid].id /\ r.v = el.v
  BY <1>3, <1>4 DEF Row, OwnIn, El
<1> HIDE DEF r
<1>6. \A w \in 1..n : /\ rows'[w].id = rows[w].id
                      /\ rows'[w].v = rows[w].v \/ (w = el.wbid /\ rows'[w].v = el.v /\ rows[w].v # 0)
  BY <1>1, <1>4, <1>5
<1> QED BY <1>2, <1>3, <1>4, <1>6 DEF el

LEMMA ToldFrames ==
  ASSUME BrowserTypeOK, NEW frame \in Frame, Tell(frame)
  PROVE  \A fr \in ToSet(down') : fr \in ToSet(down) \/ fr = frame
<1>1. down \in Seq(Frame)
  BY DEF BrowserTypeOK, WireOK
<1>2. CASE socket = "open"
  <2>1. ToSet(down') = ToSet(down) \cup {frame}
    BY <1>1, <1>2, AppendSet DEF Tell
  <2> QED BY <2>1
<1> QED BY <1>2 DEF Tell

LEMMA OneFrame ==
  ASSUME NEW el \in Element, NEW op \in {"update", "delete"}
  PROVE  /\ [op |-> op, els |-> <<el>>] \in Frame
         /\ ToSet([op |-> op, els |-> <<el>>].els) = {el}
<1>1. <<el>> \in Seq(Element) /\ ToSet(<<el>>) = {el}
  BY DEF ToSet
<1> QED BY <1>1 DEF Frame

LEMMA ReachedIs ==
  ASSUME NEW els, due' = Reached(els)
  PROVE  \A e \in Elem :
           /\ due'[e] = IF \E el \in ToSet(els) : el.id = e /\ el.v = due[e] THEN 0 ELSE due[e]
           /\ due'[e] # Undrawn \/ due[e] = Undrawn
<1>1. Undrawn # 0
  BY DEF Undrawn
<1> QED BY <1>1 DEF Reached

LEMMA CleanServe ==
  ASSUME BrowserTypeOK, BrowserTypeOK', TagsOK, OnceOK, UntoldOK, Serve
  PROVE  TagsOK' /\ OnceOK' /\ UntoldOK'
<1> DEFINE el == Head(up)
           op == IF el.v = 0 THEN "delete" ELSE "update"
           frame == [op |-> op, els |-> <<el>>]
<1>1. /\ UNCHANGED <<scene, known, pendVars, flight, answered, upload>>
      /\ (rows' = rows /\ down' = down /\ due' = due)
         \/ (Tell(frame) /\ due' = Reached(<<el>>) /\ \E r : rows' = [rows EXCEPT ![el.wbid] = r])
  BY DEF Serve, countVars
<1>2. /\ el \in Message(Len(rows)) /\ ToSet(up') \subseteq ToSet(up) /\ OwnIn(rows, el)
      /\ \A w \in 1..Len(rows) : rows'[w].id = rows[w].id
  BY ServeIds
<1>3. el \in Element /\ Len(rows') = Len(rows)
  <2>1. Message(Len(rows)) \subseteq Element /\ rows \in Seq(Row)
    BY Wider, Lists DEF BrowserTypeOK
  <2> QED BY <1>1, <1>2, <2>1
<1> HIDE DEF el
<1>4. frame \in Frame /\ ToSet(frame.els) = {el} /\ op \in {"update", "delete"}
  BY <1>3, OneFrame
<1> HIDE DEF frame, op
<1>5. /\ \A fr \in ToSet(down') : fr \in ToSet(down) \/ \A x \in ToSet(fr.els) : OwnIn(rows, x)
      /\ \A e \in Elem : due'[e] # Undrawn \/ due[e] = Undrawn
  BY <1>1, <1>2, <1>4, ToldFrames, ReachedIs
<1> QED BY <1>1, <1>2, <1>3, <1>5, CleanRows

LEMMA CleanOther ==
  ASSUME BrowserTypeOK, BrowserTypeOK', TagsOK, OnceOK, UntoldOK,
         NEW w \in DOMAIN rows, NEW v \in Nat, Other(w, v)
  PROVE  TagsOK' /\ OnceOK' /\ UntoldOK'
<1> DEFINE el == El(rows[w].id, v, w)
           op == IF v = 0 THEN "delete" ELSE "update"
           frame == [op |-> op, els |-> <<el>>]
<1>1. /\ UNCHANGED <<scene, known, pendVars, flight, answered, upload, up, due>>
      /\ Tell(frame) /\ rows' = [rows EXCEPT ![w].v = v]
  BY DEF Other, historyVars
<1>2. rows \in Seq(Row) /\ w \in 1..Len(rows) /\ rows[w] \in Row /\ w \in Nat
  BY Lists DEF BrowserTypeOK
<1>3. el \in Element /\ OwnIn(rows, el)
  BY <1>2 DEF El, Element, Row, OwnIn
<1>4. Len(rows') = Len(rows) /\ \A x \in 1..Len(rows) : rows'[x].id = rows[x].id
  <2>1. [rows[w] EXCEPT !.v = v].id = rows[w].id
    BY <1>2 DEF Row
  <2> QED BY <1>1, <1>2, <2>1
<1> HIDE DEF el
<1>5. frame \in Frame /\ ToSet(frame.els) = {el} /\ op \in {"update", "delete"}
  BY <1>3, OneFrame
<1> HIDE DEF frame, op
<1>6. \A fr \in ToSet(down') : fr \in ToSet(down) \/ \A x \in ToSet(fr.els) : OwnIn(rows, x)
  BY <1>1, <1>3, <1>5, ToldFrames
<1> QED BY <1>1, <1>4, <1>6, CleanRows

LEMMA CleanCreate ==
  ASSUME BrowserTypeOK, BrowserTypeOK', TagsOK, OnceOK, UntoldOK,
         NEW f \in Flight, Create(f), ~skipped'
  PROVE  TagsOK' /\ OnceOK' /\ UntoldOK'
<1> DEFINE batch == flight[f].batch
           new == Created(batch)
           n == Len(rows)
           m == Len(rows')
           reply == [k \in DOMAIN new |-> new[k].wbid]
           frame == [op |-> IF Len(batch) = 1 THEN "add" ELSE "add_bulk", els |-> new]
<1>1. Kept(batch) = batch
  BY DEF Create
<1>2. /\ flight[f].stage = "posted" /\ rows' = rows \o batch
      /\ flight' = [flight EXCEPT ![f].stage = "answered", ![f].reply = reply]
      /\ down' = down \/ Tell(frame)
      /\ due' = Reached(batch)
      /\ UNCHANGED <<scene, known, pendVars, up, answered, upload>>
  BY <1>1 DEF Create, countVars
<1>3. /\ rows \in Seq(Row) /\ rows \in Seq(Element) /\ batch \in Seq(Drawn) /\ batch \in Seq(Element)
      /\ n \in Nat /\ Len(batch) \in Nat
  BY Lists DEF BrowserTypeOK
<1>4. flight[f] = [stage |-> flight[f].stage, batch |-> batch, reply |-> flight[f].reply,
                   updates |-> flight[f].updates, deletes |-> flight[f].deletes]
  BY DEF BrowserTypeOK, FlightsOK, FlightOK
<1>5. /\ \A g \in Flight : g # f => flight'[g] = flight[g]
      /\ flight'[f].stage = "answered" /\ flight'[f].reply = reply /\ flight'[f].batch = batch
      /\ flight'[f].updates = flight[f].updates
  <2>1. flight = [g \in Flight |-> flight[g]]
    BY DEF BrowserTypeOK, FlightsOK
  <2> DEFINE fl == flight[f]
  <2> HIDE DEF new, batch, reply
  <2>2. flight'[f] = [[fl EXCEPT !.stage = "answered"] EXCEPT !.reply = reply]
    BY <1>2, <2>1
  <2>3. \A g \in Flight : g # f => flight'[g] = flight[g]
    BY <1>2, <2>1
  <2>4. fl = [stage |-> fl.stage, batch |-> batch, reply |-> fl.reply,
              updates |-> fl.updates, deletes |-> fl.deletes]
    BY <1>4
  <2> HIDE DEF fl
  <2>5. /\ flight'[f].stage = "answered" /\ flight'[f].reply = reply /\ flight'[f].batch = batch
        /\ flight'[f].updates = fl.updates
    BY <2>2, <2>4
  <2> QED BY <2>3, <2>5 DEF fl
<1> HIDE DEF batch
<1>6. /\ m = n + Len(batch) /\ new \in Seq(Stored(m)) /\ Len(new) = Len(batch)
      /\ \A k \in 1..Len(batch) : /\ new[k].id = batch[k].id /\ new[k].wbid = n + k
                                  /\ rows'[n + k] = batch[k]
      /\ \A w \in 1..n : rows'[w] = rows[w]
  BY <1>2, <1>3, CreatedIs
<1> HIDE DEF new, n, m
<1>7. \A el : el.wbid \in 0..n /\ OwnIn(rows, el) => OwnIn(rows', el)
  <2> SUFFICES ASSUME NEW el, el.wbid \in 0..n, OwnIn(rows, el), el.wbid # 0
               PROVE  rows'[el.wbid].id = el.id
    BY DEF OwnIn
  <2>1. el.wbid \in 1..n
    BY <1>3 DEF n
  <2> QED BY <1>6, <2>1 DEF OwnIn
<1>8. \A el \in ToSet(new) : OwnIn(rows', el)
  <2>1. \A k \in 1..Len(batch) : OwnIn(rows', new[k])
    BY <1>6 DEF OwnIn
  <2>2. DOMAIN new = 1..Len(batch)
    BY <1>6
  <2> QED BY <2>1, <2>2 DEF ToSet
<1>9. TagsOK'
  <2>1. /\ ToSet(scene) \subseteq Shown(n) /\ ToSet(answered) \subseteq Stored(n)
        /\ Outgoing \subseteq Message(n) /\ n \in Nat
        /\ \A fr \in ToSet(down) : ToSet(fr.els) \subseteq Message(n) \cup Stored(n)
    BY <1>3, OutgoingElements DEF BrowserTypeOK, SceneOK, WireOK, FrameOK, n
  <2>2. \A el \in Message(n) \cup Stored(n) \cup Shown(n) : el.wbid \in 0..n
    BY <2>1 DEF Message, Stored, Shown
  <2>3. Outgoing' = Outgoing
    <3> \A g \in Flight : flight'[g].updates = flight[g].updates
      BY <1>5
    <3> QED BY <1>2 DEF Outgoing, pendVars
  <2>4. /\ \A el \in ToSet(scene') : OwnIn(rows', el)
        /\ \A el \in Outgoing' : OwnIn(rows', el)
        /\ \A el \in ToSet(answered') : OwnIn(rows', el)
    BY <1>2, <1>7, <2>1, <2>2, <2>3 DEF TagsOK
  <2>5. \A fr \in ToSet(down) : \A el \in ToSet(fr.els) : OwnIn(rows', el)
    BY <1>7, <2>1, <2>2 DEF TagsOK
  <2>6. \A fr \in ToSet(down') : \A el \in ToSet(fr.els) : OwnIn(rows', el)
    <3>1. CASE down' = down
      BY <2>5, <3>1
    <3>2. CASE Tell(frame)
      <4>1. new \in Seq(Element)
        <5>1. Stored(m) \subseteq Element
          BY DEF Stored, Element
        <5> QED BY <1>6, <5>1, WiderSeq
      <4>2. frame \in Frame /\ frame.els = new
        BY <4>1 DEF Frame
      <4> HIDE DEF frame
      <4> QED BY <1>8, <2>5, <3>2, <4>2, ToldFrames
    <3> QED BY <1>2, <3>1, <3>2
  <2>7. Len(reply) = Len(batch) /\ \A k \in 1..Len(reply) : rows'[reply[k]].id = batch[k].id
    BY <1>3, <1>6
  <2> HIDE DEF reply
  <2>8. ASSUME NEW g \in Flight, g # f, flight'[g].stage = "answered"
        PROVE  /\ Len(flight'[g].reply) = Len(flight'[g].batch)
               /\ \A k \in 1..Len(flight'[g].reply) : rows'[flight'[g].reply[k]].id = flight'[g].batch[k].id
    <3>1. flight'[g] = flight[g]
      BY <1>5, <2>8
    <3>2. \A k \in 1..Len(flight[g].reply) : flight[g].reply[k] \in 1..n
      BY DEF BrowserTypeOK, FlightsOK, FlightOK, n
    <3> QED BY <1>6, <2>8, <3>1, <3>2, SMTT(20) DEF TagsOK
  <2>9. \A g \in Flight : flight'[g].stage = "answered" =>
          /\ Len(flight'[g].reply) = Len(flight'[g].batch)
          /\ \A k \in 1..Len(flight'[g].reply) : rows'[flight'[g].reply[k]].id = flight'[g].batch[k].id
    BY <1>5, <2>7, <2>8
  <2> QED BY <2>4, <2>6, <2>9 DEF TagsOK
<1>10. Posted(f) = Ids(batch) /\ Posted(f)' = {} /\ \A g \in Flight : g # f => Posted(g)' = Posted(g)
  <2>1. Posted(f) = Ids(batch)
    BY <1>2 DEF Posted, batch
  <2>2. Posted(f)' = {}
    BY <1>5 DEF Posted
  <2>3. \A g \in Flight : g # f => Posted(g)' = Posted(g)
    BY <1>5 DEF Posted
  <2> QED BY <2>1, <2>2, <2>3
<1>11. Ids(rows') = Ids(rows) \cup Ids(batch)
  <2>1. ToSet(rows') = ToSet(rows) \cup ToSet(batch)
    BY <1>2, <1>3, ConcatSet
  <2> QED BY <2>1 DEF Ids
<1>12. Distinct(rows')
  <2>1. Distinct(rows) /\ Distinct(batch) /\ Ids(rows) \cap Ids(batch) = {}
    BY <1>10 DEF OnceOK, batch
  <2>2. \A x \in ToSet(rows), y \in ToSet(batch) : x.id # y.id
    BY <2>1 DEF Ids
  <2> QED BY <1>2, <1>3, <2>1, <2>2, ConcatDistinct
<1>13. OnceOK'
  <2>1. \A g \in Flight : Distinct(flight'[g].batch)
    BY <1>5 DEF OnceOK, batch
  <2>2. Ids(creates') \cap Ids(rows') = {}
    BY <1>2, <1>10, <1>11 DEF OnceOK, pendVars
  <2>3. \A g \in Flight : Posted(g)' \cap (Ids(creates') \cup Ids(rows')) = {}
    BY <1>2, <1>10, <1>11 DEF OnceOK, pendVars
  <2>4. \A g, h \in Flight : g # h => Posted(g)' \cap Posted(h)' = {}
    BY <1>10 DEF OnceOK
  <2> QED BY <1>2, <1>12, <2>1, <2>2, <2>3, <2>4 DEF OnceOK, pendVars
<1>14. Asked' = Asked
  BY <1>2, <1>10, <1>11 DEF Asked, pendVars
<1>15. UntoldOK'
  <2>1. \A e \in Elem : due'[e] # Undrawn \/ due[e] = Undrawn
    BY <1>2, ReachedIs
  <2>2. HeldBack' = HeldBack
    BY <1>2 DEF HeldBack
  <2>3. \A e \in Asked' : e \notin HeldBack' /\ due'[e] # Undrawn
    BY <1>14, <2>1, <2>2, AskedElements DEF UntoldOK
  <2>4. \A el \in ToSet(scene') : due'[el.id] # Undrawn
    <3>1. \A el \in ToSet(scene) : el.id \in Elem
      BY SceneElements DEF Element
    <3> QED BY <1>2, <2>1, <3>1 DEF UntoldOK
  <2>5. Waiting' = Waiting
    <3> \A g \in Flight : flight'[g].updates = flight[g].updates
      BY <1>5
    <3> QED BY <1>2 DEF Waiting, pendVars
  <2>6. ~Doubled' => \A el \in ToSet(scene') : Settled(el)'
    BY <1>2, <1>14, <2>5 DEF UntoldOK, Doubled, Settled
  <2> QED BY <2>3, <2>4, <2>6 DEF UntoldOK
<1> QED BY <1>9, <1>13, <1>15

LEMMA CleanStep ==
  BrowserTypeOK /\ BrowserTypeOK' /\ CleanInvariant /\ [BrowserNext]_browserVars => CleanInvariant'
<1> SUFFICES ASSUME BrowserTypeOK, BrowserTypeOK', CleanInvariant, [BrowserNext]_browserVars, ~skipped'
             PROVE  TagsOK' /\ OnceOK' /\ UntoldOK'
  BY DEF CleanInvariant
<1>1. CASE UNCHANGED browserVars
  <2> USE <1>1 DEF browserVars, pendVars, netVars, countVars, historyVars, raceVars
  <2>1. ~skipped /\ TagsOK /\ OnceOK /\ UntoldOK
    BY DEF CleanInvariant
  <2>2. TagsOK'
    BY <2>1 DEF TagsOK, Outgoing
  <2>3. OnceOK'
    BY <2>1 DEF OnceOK, Posted
  <2>4. UntoldOK'
    BY <2>1 DEF UntoldOK, Asked, Posted, HeldBack, Doubled, Settled, Waiting
  <2> QED BY <2>2, <2>3, <2>4
<1>2. CASE BrowserNext
  <2>1. ~skipped /\ ~Doubled
    <3>1. User => ~skipped
      BY DEF User, Draw, Edit, Erase, Report, historyVars, raceVars
    <3>2. Server => ~skipped
      BY DEF Server, Create, Other, Serve, historyVars, raceVars
    <3>3. \A f \in Flight : Flush(f) \/ Answer(f) \/ PostFails(f) => ~skipped
      BY DEF Flush, Answer, PostFails, raceVars
    <3>4. \A e \in Elem : UploadLands(e) \/ UploadFails(e) => ~skipped
      BY DEF UploadLands, UploadFails, historyVars, raceVars
    <3>5. Receive \/ Connect \/ Close \/ HttpRead \/ HttpArrives \/ Leave => ~skipped
      BY DEF Receive, Connect, Close, HttpRead, HttpArrives, Leave, historyVars, raceVars
    <3> QED BY <1>2, <3>1, <3>2, <3>3, <3>4, <3>5 DEF BrowserNext
  <2>2. TagsOK /\ OnceOK /\ UntoldOK
    BY <2>1 DEF CleanInvariant
  <2>3. CASE User
    BY <2>1, <2>2, <2>3, CleanUser
  <2>4. ASSUME NEW w \in DOMAIN rows, Other(w, 0) \/ Other(w, MaxEdits + others + 1)
        PROVE  TagsOK' /\ OnceOK' /\ UntoldOK'
    <3>1. MaxEdits + others + 1 \in Nat
      BY BrowserAssumption DEF BrowserTypeOK, CountsOK
    <3> QED BY <2>2, <2>4, <3>1, CleanOther
  <2>5. CASE Server
    BY <2>2, <2>4, <2>5, CleanCreate, CleanServe DEF Server
  <2>6. CASE Quiet
    BY <2>1, <2>2, <2>6, CleanQuiet
  <2> QED BY <1>2, <2>2, <2>3, <2>5, <2>6, QuietFlush, QuietLanding, QuietTold DEF BrowserNext
<1> QED BY <1>1, <1>2

LEMMA CleanInit == BrowserInit => CleanInvariant
<1> SUFFICES ASSUME BrowserInit PROVE TagsOK /\ OnceOK /\ UntoldOK
  BY DEF CleanInvariant
<1>1. /\ scene = <<>> /\ up = <<>> /\ down = <<>> /\ answered = <<>> /\ updates = {}
      /\ creates = <<>> /\ rows = <<>>
      /\ \A f \in Flight : flight[f].updates = {} /\ flight[f].stage = "idle" /\ flight[f].batch = <<>>
  BY DEF BrowserInit, Landed
<1>2. Ids(<<>>) = {} /\ Distinct(<<>>)
  BY NoneSet DEF Ids, Distinct
<1>3. Outgoing = {} /\ \A f \in Flight : Posted(f) = {}
  BY <1>1, NoneSet DEF Outgoing, Posted
<1>4. Asked = {}
  BY <1>1, <1>2, <1>3 DEF Asked
<1>5. TagsOK
  BY <1>1, <1>3, NoneSet DEF TagsOK
<1>6. OnceOK
  BY <1>1, <1>2, <1>3 DEF OnceOK
<1>7. UntoldOK
  BY <1>1, <1>4, NoneSet DEF UntoldOK
<1> QED BY <1>5, <1>6, <1>7

\* stampWbid (CanvasView.tsx:204-205): until a bulk request leaves out an image, an element
\* carries the wbid of its own row, however answers, echoes and snapshots interleave.
THEOREM TagsStayTrue == BrowserSpec => []TagsAreTrue
<1>1. BrowserTypeOK /\ CleanInvariant => TagsAreTrue
  <2> SUFFICES ASSUME BrowserTypeOK, CleanInvariant, ~skipped, NEW i \in DOMAIN scene
               PROVE  OwnIn(rows, scene[i])
    BY DEF TagsAreTrue, OwnIn
  <2>1. scene[i] \in ToSet(scene)
    BY SceneElements, Members
  <2> QED BY <2>1 DEF CleanInvariant, TagsOK
<1> QED BY <1>1, TypesInit, TypesStep, CleanInit, CleanStep, PTL DEF BrowserSpec

\* What was drawn once is stored once, until a bulk request leaves out an image: a create
\* is asked for (CanvasView.tsx:139) only of an element that is nowhere pending, posted or
\* stored.
THEOREM NothingIsStoredTwice == BrowserSpec => []StoredOnce
<1>1. BrowserTypeOK /\ CleanInvariant => StoredOnce
  <2> SUFFICES ASSUME BrowserTypeOK, CleanInvariant, ~skipped, NEW e \in Elem
               PROVE  Cardinality({ w \in DOMAIN rows : rows[w].id = e }) <= 1
    BY DEF StoredOnce
  <2> DEFINE W == { w \in DOMAIN rows : rows[w].id = e }
  <2>1. \A w, x \in W : w = x
    BY DEF CleanInvariant, OnceOK, Distinct
  <2>2. CASE W = {}
    BY <2>2, FS_EmptySet
  <2>3. CASE W # {}
    <3>1. PICK w \in W : W = {w}
      BY <2>1, <2>3
    <3>2. Cardinality({w}) = 1
      BY FS_Singleton
    <3> QED BY <3>1, <3>2
  <2> QED BY <2>2, <2>3
<1> QED BY <1>1, TypesInit, TypesStep, CleanInit, CleanStep, PTL DEF BrowserSpec

-----------------------------------------------------------------------------
\* Every content is an edit made so far, or somebody else's.
MadeBy(n, el) == el.v <= n \/ el.v > MaxEdits

MadeUpTo(n) ==
  /\ \A el \in ToSet(scene) \cup ToSet(creates) \cup Outgoing : MadeBy(n, el)
  /\ \A el \in ToSet(rows) \cup ToSet(answered) : MadeBy(n, el)
  /\ \A f \in Flight : \A el \in ToSet(flight[f].batch) : MadeBy(n, el)
  /\ \A fr \in ToSet(down) : \A el \in ToSet(fr.els) : MadeBy(n, el)

NumbersOK == MadeUpTo(edits)

\* While no flush has overtaken another: along the way of an element, from its row to the
\* edits that are pending, contents made here only grow.
Before(x, y) == x.v \in 1..MaxEdits /\ y.v # 0 /\ x.wbid = y.wbid => x.v <= y.v
Chain(s) == \A i, j \in 1..Len(s) : i < j => Before(s[i], s[j])
Single(S) == \A x, y \in S : x.wbid = y.wbid => x = y
AtRow(w) == El(rows[w].id, rows[w].v, w)

OrderOK ==
  /\ \A f, g \in Flight : f # g => flight[f].updates = {} \/ flight[g].updates = {}
  /\ Chain(up)
  /\ \A w \in 1..Len(rows) : \A el \in Outgoing : Before(AtRow(w), el)
  /\ \A x \in ToSet(up), u \in Waiting : Before(x, u)
  /\ \A f \in Flight : \A x \in flight[f].updates, u \in updates : Before(x, u)
  /\ Single(updates) /\ \A f \in Flight : Single(flight[f].updates)

OrderInvariant == ~skipped => NumbersOK /\ (~raced => OrderOK)

LEMMA ChainConcat ==
  ASSUME NEW s \in Seq(Element), NEW t \in Seq(Element), Chain(s), Chain(t),
         \A x \in ToSet(s), y \in ToSet(t) : Before(x, y)
  PROVE  Chain(s \o t)
<1> DEFINE u == s \o t
<1>1. /\ Len(u) = Len(s) + Len(t) /\ Len(s) \in Nat /\ Len(t) \in Nat
      /\ \A i \in 1..Len(s) + Len(t) : u[i] = IF i <= Len(s) THEN s[i] ELSE t[i - Len(s)]
  BY ConcatSet
<1> HIDE DEF u
<1>2. \A i \in 1..Len(s) : s[i] \in ToSet(s)
  BY Members
<1>3. \A i \in 1..Len(t) : t[i] \in ToSet(t)
  BY Members
<1> SUFFICES ASSUME NEW i \in 1..Len(u), NEW j \in 1..Len(u), i < j PROVE Before(u[i], u[j])
  BY DEF Chain, u
<1>4. CASE j <= Len(s)
  BY <1>1, <1>4 DEF Chain
<1>5. CASE i <= Len(s) /\ j > Len(s)
  <2>1. u[i] = s[i] /\ u[j] = t[j - Len(s)] /\ i \in 1..Len(s) /\ j - Len(s) \in 1..Len(t)
    BY <1>1, <1>5
  <2> QED BY <1>2, <1>3, <2>1
<1>6. CASE i > Len(s)
  <2>1. /\ u[i] = t[i - Len(s)] /\ u[j] = t[j - Len(s)]
        /\ i - Len(s) \in 1..Len(t) /\ j - Len(s) \in 1..Len(t) /\ i - Len(s) < j - Len(s)
    BY <1>1, <1>6
  <2> QED BY <2>1 DEF Chain
<1> QED BY <1>1, <1>4, <1>5, <1>6

LEMMA ChainSingle ==
  ASSUME NEW s \in Seq(Element), Single(ToSet(s))
  PROVE  Chain(s)
<1>1. \A i \in 1..Len(s) : s[i] \in ToSet(s) /\ s[i] \in Element
  BY Members
<1>2. \A x \in Element : x.v <= x.v
  BY DEF Element
<1> QED BY <1>1, <1>2 DEF Chain, Single, Before

LEMMA ChainErased ==
  ASSUME NEW s \in Seq(Element), \A x \in ToSet(s) : x.v = 0
  PROVE  Chain(s)
<1>1. \A i \in 1..Len(s) : s[i] \in ToSet(s)
  BY Members
<1> QED BY <1>1 DEF Chain, Before

\* What a flush puts on the socket.
LEMMA SentOrder ==
  ASSUME rows \in Seq(Row), up \in Seq(Element), Chain(up),
         NEW changed \in SUBSET Stored(Len(rows)), IsFiniteSet(changed), Single(changed),
         \A x \in ToSet(up), u \in changed : Before(x, u),
         NEW erased \in SUBSET (1..Len(rows)), NEW lost, Send(changed, erased, lost)
  PROVE  /\ Chain(up')
         /\ \A x \in ToSet(up') : x \in ToSet(up) \/ x \in changed \/ x.v = 0
<1> DEFINE gone == { El(rows[w].id, 0, w) : w \in erased }
<1>1. \/ up' = up
      \/ \E s \in SetToSeqs(changed), t \in SetToSeqs((changed \cup gone) \ changed) :
           up' = up \o s \o t
  BY DEF Send
<1>2. Len(rows) \in Nat /\ changed \subseteq Element
  BY Wider
<1>3. gone \subseteq Element /\ \A x \in gone : x.v = 0
  <2>1. \A w \in 1..Len(rows) : rows[w] \in Row /\ w \in Nat
    BY <1>2
  <2>2. \A w \in 1..Len(rows) : El(rows[w].id, 0, w) \in Element
    BY <2>1 DEF El, Element, Row
  <2> QED BY <2>2 DEF El
<1>4. IsFiniteSet((changed \cup gone) \ changed)
  <2>1. IsFiniteSet(1..Len(rows))
    BY <1>2, FS_Interval
  <2>2. IsFiniteSet(erased)
    BY <2>1, FS_Subset
  <2>3. IsFiniteSet(gone)
    <3> DEFINE f == [w \in erased |-> El(rows[w].id, 0, w)]
    <3>1. f \in Surjection(erased, gone)
      BY DEF Surjection
    <3> QED BY <2>2, <3>1, FS_Surjection
  <2>4. (changed \cup gone) \ changed \subseteq gone
    OBVIOUS
  <2> QED BY <2>3, <2>4, FS_Subset
<1> HIDE DEF gone
<1> SUFFICES ASSUME NEW s \in SetToSeqs(changed),
                    NEW t \in SetToSeqs((changed \cup gone) \ changed), up' = up \o s \o t
             PROVE  /\ Chain(up')
                    /\ \A x \in ToSet(up') : x \in ToSet(up) \/ x \in changed \/ x.v = 0
  BY <1>1
<1>5. s \in Seq(Element) /\ ToSet(s) = changed
  BY <1>2, SetToSeqsSet
<1>6. t \in Seq(Element) /\ ToSet(t) = gone \ changed
  <2> DEFINE G == (changed \cup gone) \ changed
  <2>1. G \in SUBSET Element /\ G = gone \ changed /\ IsFiniteSet(G)
    BY <1>3, <1>4
  <2>0. t \in SetToSeqs(G)
    OBVIOUS
  <2> HIDE DEF G
  <2>2. t \in Seq(Element) /\ ToSet(t) = G
    BY <2>0, <2>1, SetToSeqsSet
  <2> QED BY <2>1, <2>2 DEF G
<1>7. Chain(s) /\ Chain(t)
  BY <1>3, <1>5, <1>6, ChainSingle, ChainErased
<1>8. up \o s \in Seq(Element) /\ ToSet(up \o s) = ToSet(up) \cup changed /\ Chain(up \o s)
  BY <1>5, <1>7, ConcatSet, ChainConcat
<1>9. \A x \in ToSet(up \o s), y \in ToSet(t) : Before(x, y)
  BY <1>3, <1>6 DEF Before
<1>10. ToSet(up \o s \o t) = ToSet(up) \cup changed \cup ToSet(t) /\ Chain(up \o s \o t)
  <2> DEFINE u == up \o s
  <2>1. u \in Seq(Element) /\ ToSet(u) = ToSet(up) \cup changed /\ Chain(u)
        /\ \A x \in ToSet(u), y \in ToSet(t) : Before(x, y)
    BY <1>8, <1>9
  <2> HIDE DEF u
  <2>2. ToSet(u \o t) = ToSet(u) \cup ToSet(t)
    BY <1>6, <2>1, ConcatSet
  <2>3. Chain(u \o t)
    BY <1>6, <1>7, <2>1, ChainConcat
  <2> QED BY <2>1, <2>2, <2>3 DEF u
<1> QED BY <1>3, <1>6, <1>10

-----------------------------------------------------------------------------
LEMMA MadeEarlier ==
  ASSUME BrowserTypeOK, NumbersOK, NEW n \in Nat, edits <= n
  PROVE  MadeUpTo(n)
<1>1. edits \in Nat
  BY DEF BrowserTypeOK, CountsOK
<1>2. \A el \in Element : MadeBy(edits, el) => MadeBy(n, el)
  BY <1>1 DEF MadeBy, Element
<1>3. ASSUME NEW s \in Seq(Element) PROVE ToSet(s) \subseteq Element
  BY Members
<1>4. scene \in Seq(Element) /\ answered \in Seq(Element) /\ down \in Seq(Frame)
  BY DEF BrowserTypeOK, SceneOK, WireOK
<1>5. /\ ToSet(scene) \cup ToSet(creates) \cup ToSet(rows) \cup ToSet(answered) \subseteq Element
      /\ \A f \in Flight : ToSet(flight[f].batch) \subseteq Element
  BY <1>3, <1>4, Lists
<1>6. Outgoing \subseteq Element
  BY OutgoingElements, Lists, Wider
<1>7. \A fr \in ToSet(down) : ToSet(fr.els) \subseteq Element
  <2>1. \A fr \in ToSet(down) : fr \in Frame
    BY <1>4, Members
  <2> QED BY <1>3, <2>1 DEF Frame
<1> QED BY <1>2, <1>5, <1>6, <1>7 DEF NumbersOK, MadeUpTo

LEMMA NumbersReported ==
  ASSUME BrowserTypeOK, NEW n, MadeUpTo(n),
         NEW els \in Seq(Element), NEW held, NEW made \in Seq(Drawn), NEW changed,
         HandleChange(els, held, made, changed), ToSet(scene') \subseteq ToSet(els),
         \A el \in ToSet(els) \cup ToSet(made) \cup changed : MadeBy(n, el),
         \A f \in Flight : /\ flight'[f].batch = flight[f].batch
                           /\ \A u \in flight'[f].updates : MadeBy(n, u),
         UNCHANGED <<rows, netVars>>
  PROVE  MadeUpTo(n)'
<1> DEFINE fresh == { el \in Fresh(els, held) : el.wbid = 0 }
           touched == { el \in Touched(els, held) : el.wbid # 0 }
<1>1. /\ creates' = SetCreates(made, els, fresh) /\ updates' = SetUpdates(changed, touched)
      /\ rows' = rows /\ up' = up /\ down' = down /\ answered' = answered
  BY DEF HandleChange, netVars
<1>2. fresh \in SUBSET ToSet(els) /\ touched \in SUBSET ToSet(els) /\ fresh \subseteq Drawn
  <2>1. ToSet(els) \subseteq Element
    BY Members
  <2> QED BY <2>1 DEF Fresh, Touched, Element, Drawn
<1> HIDE DEF fresh, touched
<1>3. ToSet(creates') \subseteq ToSet(made) \cup ToSet(els)
  BY <1>1, <1>2, CreatesAfter
<1>4. updates' \subseteq changed \cup ToSet(els)
  BY <1>1, <1>2 DEF SetUpdates
<1>5. \A el \in Outgoing' : MadeBy(n, el)
  BY <1>1, <1>4 DEF Outgoing, MadeUpTo
<1> QED BY <1>1, <1>3, <1>5 DEF MadeUpTo

LEMMA NumbersUser ==
  ASSUME BrowserTypeOK, NEW n, MadeUpTo(n), n = edits', ~Doubled, User
  PROVE  MadeUpTo(n)'
<1>1. /\ scene \in Seq(Element) /\ creates \in Seq(Drawn)
      /\ edits \in Nat /\ \A f \in Flight : flight[f].updates \subseteq Element
      /\ updates \subseteq Element /\ ToSet(creates) \subseteq Element
  <2>1. Outgoing \subseteq Element /\ creates \in Seq(Element)
    BY OutgoingElements, Lists, Wider
  <2>2. ToSet(creates) \subseteq Element
    BY <2>1, Members
  <2> QED BY <2>1, <2>2 DEF BrowserTypeOK, SceneOK, PendOK, CountsOK, Outgoing
<1>2. /\ \A el \in ToSet(scene) \cup ToSet(creates) \cup updates : MadeBy(n, el)
      /\ \A f \in Flight : \A u \in flight[f].updates : MadeBy(n, u)
  BY DEF MadeUpTo, Outgoing
<1>4. ASSUME NEW e \in Elem, NEW b \in BOOLEAN, Draw(e, b) PROVE MadeUpTo(n)'
  <2>1. PICK x \in Element, held \in SUBSET Elem : DrawFacts(e, x, held)
    BY <1>4, DrawIs
  <2> USE <2>1 DEF DrawFacts
  <2>2. MadeBy(n, x)
    BY <1>1 DEF MadeBy
  <2>3. \A el \in ToSet(scene') : MadeBy(n, el)
    BY <1>2, <2>2
  <2> QED BY <1>1, <1>2, <2>3, NumbersReported
<1>5. ASSUME NEW i \in DOMAIN scene, NEW b \in BOOLEAN, Edit(i, b) PROVE MadeUpTo(n)'
  <2>1. PICK old \in ToSet(scene), x \in Element, made \in Seq(Drawn) : EditFacts(b, old, x, made)
    BY <1>5, EditIs
  <2> USE <2>1 DEF EditFacts
  <2>2. \A el \in Element : MadeBy(n, el) => MadeBy(n, Edited(b, old, el))
    BY <1>1 DEF MadeBy
  <2>3. \A el \in ToSet(scene') : MadeBy(n, el)
    <3>1. MadeBy(n, x)
      BY <1>1 DEF MadeBy
    <3> QED BY <1>2, <3>1
  <2> DEFINE changed == { Edited(b, old, el) : el \in updates }
  <2>4. \A el \in changed : MadeBy(n, el)
    BY <1>1, <1>2, <2>2
  <2>5. \A el \in ToSet(made) : MadeBy(n, el)
    BY <1>1, <1>2, <2>2
  <2>6. \A f \in Flight : \A u \in flight'[f].updates : MadeBy(n, u)
    BY <1>1, <1>2, <2>2
  <2>7. /\ HandleChange(scene', HeldBack, made, changed)
        /\ UNCHANGED <<rows, netVars>>
        /\ \A f \in Flight : flight'[f].batch = flight[f].batch
    BY <1>1
  <2> HIDE DEF changed
  <2> QED BY <1>1, <2>3, <2>4, <2>5, <2>6, <2>7, NumbersReported
<1>6. ASSUME NEW i \in DOMAIN scene, NEW b \in BOOLEAN, Erase(i, b) PROVE MadeUpTo(n)'
  <2>1. PICK x \in ToSet(scene), els \in Seq(Element) : EraseFacts(x, els)
    BY <1>6, EraseIs
  <2> USE <2>1 DEF EraseFacts
  <2>2. edits' = edits
    BY DEF countVars
  <2>3. \A el \in ToSet(els) : MadeBy(n, el)
    <3>1. \A el : el.v = 0 => MadeBy(n, el)
      BY <1>1, <2>2 DEF MadeBy
    <3> QED BY <1>2, <3>1
  <2> QED BY <1>1, <1>2, <2>3, NumbersReported
<1>7. CASE Report
  <2>1. /\ HandleChange(scene, HeldBack, creates, updates) /\ scene' = scene /\ flight' = flight
        /\ UNCHANGED <<rows, netVars>>
    BY <1>7 DEF Report
  <2> QED BY <1>1, <1>2, <2>1, NumbersReported
<1> QED BY <1>4, <1>5, <1>6, <1>7 DEF User

\* The browser's other steps write nothing.
LEMMA NumbersFlush ==
  ASSUME BrowserTypeOK, NEW n \in Nat, MadeUpTo(n), NEW f \in Flight,
         Flush(f) \/ Answer(f) \/ PostFails(f)
  PROVE  MadeUpTo(n)'
<1> DEFINE m == Len(rows)
           batch == Only(creates, { el \in ToSet(creates) : el.id \in Ids(scene) })
           fl == [stage |-> "posted", batch |-> batch, reply |-> <<>>,
                  updates |-> updates, deletes |-> deletes]
           els == Stamped(scene, flight[f].batch, flight[f].reply)
<1>0. /\ flight = [g \in Flight |-> flight[g]] /\ rows \in Seq(Row)
      /\ up \in Seq(Element) /\ ToSet(up) \subseteq Message(m) /\ due \in [Elem -> Int]
      /\ updates \in SUBSET Stored(m) /\ IsFiniteSet(updates) /\ deletes \in SUBSET (1..m)
      /\ flight[f].updates \in SUBSET Stored(m) /\ IsFiniteSet(flight[f].updates)
      /\ flight[f].deletes \in SUBSET (1..m) /\ flight[f].reply \in Seq(1..m)
  BY DEF BrowserTypeOK, FlightsOK, FlightOK, WireOK, CountsOK, PendOK
<1>1. UNCHANGED <<rows, down, answered>>
  BY DEF Flush, Answer, PostFails
<1>2. /\ \/ creates' = <<>> /\ updates' = {}
         \/ creates' = creates /\ updates' = updates
      /\ \/ \E lost : Send(updates, deletes, lost) \/ Send(flight[f].updates, flight[f].deletes, lost)
         \/ up' = up
      /\ scene' = scene \/ scene' = els
      /\ \/ flight' = flight \/ flight' = [flight EXCEPT ![f] = Landed]
         \/ flight' = [flight EXCEPT ![f] = fl]
  <2>1. CASE Flush(f)
    <3>1. \/ \E lost : Send(updates, deletes, lost) /\ flight' = flight
          \/ flight' = [flight EXCEPT ![f] = fl] /\ up' = up
      BY <2>1 DEF Flush
    <3>2. creates' = <<>> /\ updates' = {} /\ scene' = scene
      BY <2>1 DEF Flush
    <3>3. \/ \E lost : Send(updates, deletes, lost) \/ Send(flight[f].updates, flight[f].deletes, lost)
          \/ up' = up
      BY <3>1, Zenon
    <3>4. flight' = flight \/ flight' = [flight EXCEPT ![f] = fl]
      BY <3>1, Zenon
    <3> QED BY <3>2, <3>3, <3>4, Zenon
  <2>2. CASE Answer(f) \/ PostFails(f)
    BY <2>2 DEF Answer, PostFails, ApplyScene, pendVars
  <2> QED BY <2>1, <2>2
<1>3. \A el \in ToSet(scene') : MadeBy(n, el)
  <2> SUFFICES ASSUME scene' = els, NEW el \in ToSet(els) PROVE MadeBy(n, el)
    BY <1>2 DEF MadeUpTo
  <2> DEFINE reply == flight[f].reply
             b == flight[f].batch
  <2>1. scene \in Seq(Element) /\ DOMAIN scene = 1..Len(scene)
    BY SceneElements
  <2>2. /\ DOMAIN els = DOMAIN scene
        /\ \A i \in 1..Len(scene) :
             els[i] = scene[i] \/ \E w : els[i] = [scene[i] EXCEPT !.wbid = w]
    <3>1. reply \in Seq(1..m) /\ els = Stamped(scene, b, reply)
      BY <1>0
    <3> HIDE DEF reply, els, b, m
    <3>2. /\ DOMAIN Stamped(scene, b, reply) = DOMAIN scene
          /\ \A i \in 1..Len(scene) :
               \/ Stamped(scene, b, reply)[i] = scene[i]
               \/ \E k \in 1..Len(reply) :
                    Stamped(scene, b, reply)[i] = [scene[i] EXCEPT !.wbid = reply[k]]
      BY <2>1, <3>1, StampedIs, SMTT(40) DEF GetsTag
    <3> QED BY <3>1, <3>2
  <2> HIDE DEF els
  <2>3. PICK i \in 1..Len(scene) : els[i] = el
    BY <2>1, <2>2 DEF ToSet
  <2>4. scene[i] \in ToSet(scene) /\ scene[i] \in Element
    BY <2>1, Members
  <2>5. el.v = scene[i].v
    BY <2>2, <2>3, <2>4 DEF Element
  <2> QED BY <2>4, <2>5 DEF MadeUpTo, MadeBy
<1>4. \A el \in ToSet(up') : el \in Outgoing \/ el.v = 0
  <2> DEFINE gone(d) == { El(rows[w].id, 0, w) : w \in d }
  <2>1. ASSUME NEW c \in SUBSET Stored(m), IsFiniteSet(c), NEW d \in SUBSET (1..m), NEW lost, Send(c, d, lost)
        PROVE  up' = up \/ ToSet(up') = ToSet(up) \cup (c \cup gone(d))
    BY <1>0, <2>1, Sent
  <2>2. \A d : \A el \in gone(d) : el.v = 0
    BY DEF El
  <2>3. updates \subseteq Outgoing /\ flight[f].updates \subseteq Outgoing /\ ToSet(up) \subseteq Outgoing
    BY DEF Outgoing
  <2> HIDE DEF gone
  <2>4. ASSUME NEW lost, Send(updates, deletes, lost)
        PROVE  \A el \in ToSet(up') : el \in Outgoing \/ el.v = 0
    <3>1. up' = up \/ ToSet(up') = ToSet(up) \cup (updates \cup gone(deletes))
      BY <1>0, <2>1, <2>4
    <3> QED BY <2>2, <2>3, <3>1
  <2>5. ASSUME NEW lost, Send(flight[f].updates, flight[f].deletes, lost)
        PROVE  \A el \in ToSet(up') : el \in Outgoing \/ el.v = 0
    <3>1. up' = up \/ ToSet(up') = ToSet(up) \cup (flight[f].updates \cup gone(flight[f].deletes))
      BY <1>0, <2>1, <2>5
    <3> QED BY <2>2, <2>3, <3>1
  <2> QED BY <1>2, <2>3, <2>4, <2>5
<1>5. ToSet(batch) \subseteq ToSet(creates)
  BY Lists, OnlyIsPart
<1>6. /\ Landed.batch = <<>> /\ Landed.updates = {} /\ fl.batch = batch /\ fl.updates = updates
      /\ ToSet(<<>>) = {}
  BY NoneSet DEF Landed
<1> HIDE DEF batch, fl, els
<1>7. \A g \in Flight : \/ flight'[g] = flight[g]
                        \/ flight'[g].batch = <<>> /\ flight'[g].updates = {}
                        \/ flight'[g].batch = batch /\ flight'[g].updates = updates
  BY <1>0, <1>2, <1>6
<1>8. \A el \in Outgoing' : MadeBy(n, el)
  <2>1. \A g \in Flight : flight'[g].updates \subseteq Outgoing
    BY <1>7 DEF Outgoing
  <2>2. \A el \in Outgoing' : el \in Outgoing \/ el.v = 0
    BY <1>2, <1>4, <2>1 DEF Outgoing
  <2>3. \A el : el.v = 0 => MadeBy(n, el)
    BY DEF MadeBy
  <2> QED BY <2>2, <2>3 DEF MadeUpTo
<1>9. \A g \in Flight : \A el \in ToSet(flight'[g].batch) : MadeBy(n, el)
  BY <1>5, <1>6, <1>7 DEF MadeUpTo
<1>10. ToSet(creates') \subseteq ToSet(creates)
  BY <1>2, <1>6
<1> QED BY <1>1, <1>3, <1>8, <1>9, <1>10 DEF MadeUpTo

LEMMA NumbersTold ==
  ASSUME BrowserTypeOK, NEW n, MadeUpTo(n),
         \/ \E e \in Elem : UploadLands(e) \/ UploadFails(e)
         \/ Receive \/ Connect \/ Close \/ HttpRead \/ HttpArrives \/ Leave
  PROVE  MadeUpTo(n)'
<1>0. /\ scene \in Seq(Element) /\ ToSet(scene) \subseteq Shown(Len(rows)) /\ rows \in Seq(Row)
      /\ Len(rows) \in Nat
      /\ down \in Seq(Frame) /\ \A fr \in ToSet(down) : FrameOK(fr, Len(rows))
  BY Lists DEF BrowserTypeOK, SceneOK, WireOK, CountsOK
<1>1. /\ rows' = rows /\ flight' = flight
      /\ (creates' = creates /\ updates' = updates) \/ (creates' = <<>> /\ updates' = {})
      /\ up' = up \/ up' = <<>>
  BY DEF UploadLands, UploadFails, Receive, Connect, Close, HttpRead, HttpArrives, Leave,
          pendVars, netVars
<1>2. \A el \in ToSet(scene') : MadeBy(n, el)
  <2>1. CASE scene' = scene
    BY <2>1 DEF MadeUpTo
  <2>2. CASE scene' = <<>>
    BY <2>2, NoneSet
  <2>3. ASSUME NEW e \in Elem, UploadFails(e)
        PROVE  \A el \in ToSet(scene') : MadeBy(n, el)
    <3> DEFINE els == Only(scene, { el \in ToSet(scene) : el.id # e })
    <3>1. scene' = els
      BY <2>3 DEF UploadFails, ApplyScene
    <3>2. ToSet(els) \subseteq ToSet(scene)
      BY <1>0, OnlyIsPart
    <3> HIDE DEF els
    <3> QED BY <3>1, <3>2 DEF MadeUpTo
  <2>4. CASE Receive /\ ApplyScene(Merged(Head(down)))
    <3> DEFINE fr == Head(down)
    <3>1. fr \in ToSet(down)
      BY <1>0, <2>4, TailSet DEF Receive
    <3>2. FrameOK(fr, Len(rows))
      BY <1>0, <3>1
    <3>3. scene' = Merged(fr)
      BY <2>4 DEF ApplyScene
    <3> HIDE DEF fr
    <3>4. ToSet(scene') \subseteq ToSet(scene) \cup ToSet(fr.els)
      BY <1>0, <3>2, <3>3, MergedIs
    <3> QED BY <3>1, <3>4 DEF MadeUpTo
  <2>5. CASE HttpArrives
    BY <2>5 DEF HttpArrives, ApplyScene, MadeUpTo
  <2> QED BY <2>1, <2>2, <2>3, <2>4, <2>5
      DEF UploadLands, Receive, Connect, Close, HttpRead, Leave
<1>3. \A el \in ToSet(Board) : MadeBy(n, el)
  <2>1. \A w \in 1..Len(rows) : rows[w] \in ToSet(rows)
    BY <1>0, Members
  <2>2. \A w \in 1..Len(rows) : MadeBy(n, rows[w])
    BY <2>1 DEF MadeUpTo
  <2>3. \A el \in ToSet(Board) : \E w \in 1..Len(rows) : el.v = rows[w].v
    BY <1>0, BoardIs, SMTT(20) DEF El
  <2> QED BY <2>2, <2>3 DEF MadeBy
<1>4. \A el \in ToSet(answered') : MadeBy(n, el)
  <2>1. answered' = answered \/ answered' = Board \/ answered' = <<>>
    BY DEF UploadLands, UploadFails, Receive, Connect, Close, HttpRead, HttpArrives, Leave, netVars
  <2> QED BY <1>3, <2>1, NoneSet DEF MadeUpTo
<1>5. \A fr \in ToSet(down') : \A el \in ToSet(fr.els) : MadeBy(n, el)
  <2> DEFINE frame == [op |-> "snapshot", els |-> Board]
  <2>1. down' = down \/ down' = <<>> \/ down' = <<frame>> \/ (down # <<>> /\ down' = Tail(down))
    BY DEF UploadLands, UploadFails, Receive, Connect, Close, HttpRead, HttpArrives, Leave, netVars
  <2>2. frame.els = Board
    OBVIOUS
  <2> HIDE DEF frame
  <2>3. ToSet(<<frame>>) = {frame}
    BY DEF ToSet
  <2>4. CASE down' = <<frame>>
    BY <1>3, <2>2, <2>3, <2>4
  <2>5. CASE down # <<>> /\ down' = Tail(down)
    <3>1. ToSet(down') \subseteq ToSet(down)
      BY <1>0, <2>5, TailSet
    <3> QED BY <3>1 DEF MadeUpTo
  <2> QED BY <2>1, <2>4, <2>5, NoneSet DEF MadeUpTo
<1>6. \A el \in ToSet(creates') \cup Outgoing' : MadeBy(n, el)
  <2>1. ToSet(creates') \subseteq ToSet(creates) /\ ToSet(up') \subseteq ToSet(up)
    BY <1>1, NoneSet
  <2>2. Outgoing' \subseteq Outgoing
    BY <1>1, <2>1 DEF Outgoing
  <2> QED BY <2>1, <2>2 DEF MadeUpTo
<1> QED BY <1>1, <1>2, <1>4, <1>5, <1>6 DEF MadeUpTo

LEMMA NumbersCreate ==
  ASSUME BrowserTypeOK, NEW n, MadeUpTo(n), NEW f \in Flight, Create(f)
  PROVE  MadeUpTo(n)'
<1> DEFINE batch == flight[f].batch
           kept == Kept(batch)
           new == Created(kept)
           reply == [k \in DOMAIN new |-> new[k].wbid]
           frame == [op |-> IF Len(batch) = 1 THEN "add" ELSE "add_bulk", els |-> new]
           fl == flight[f]
<1>1. /\ rows' = rows \o kept /\ flight' = [flight EXCEPT ![f].stage = "answered", ![f].reply = reply]
      /\ down' = down \/ Tell(frame)
      /\ UNCHANGED <<scene, pendVars, up, answered>>
  BY DEF Create
<1>2. rows \in Seq(Row) /\ batch \in Seq(Drawn) /\ rows \in Seq(Element)
  BY Lists DEF BrowserTypeOK
<1>3. \A g \in Flight : flight'[g].batch = flight[g].batch /\ flight'[g].updates = flight[g].updates
  <2>1. fl = [stage |-> fl.stage, batch |-> batch, reply |-> fl.reply,
              updates |-> fl.updates, deletes |-> fl.deletes]
    BY DEF BrowserTypeOK, FlightsOK, FlightOK
  <2>2. flight = [g \in Flight |-> flight[g]]
    BY DEF BrowserTypeOK, FlightsOK
  <2> HIDE DEF reply, batch
  <2>3. flight'[f] = [[fl EXCEPT !.stage = "answered"] EXCEPT !.reply = reply]
    BY <1>1, <2>2
  <2>4. \A g \in Flight : g # f => flight'[g] = flight[g]
    BY <1>1, <2>2
  <2> HIDE DEF fl
  <2>5. flight'[f].batch = batch /\ flight'[f].updates = fl.updates
    BY <2>1, <2>3
  <2> QED BY <2>4, <2>5 DEF fl, batch
<1> HIDE DEF batch
<1>4. kept \in Seq(Drawn) /\ ToSet(kept) \subseteq ToSet(batch)
  BY <1>2, KeptIs
<1>5. Drawn \subseteq Element
  BY DEF Drawn, Element
<1> HIDE DEF kept
<1>6. \A el \in ToSet(kept) : MadeBy(n, el)
  BY <1>4 DEF MadeUpTo, batch
<1>7. ToSet(rows') = ToSet(rows) \cup ToSet(kept)
  <2>1. kept \in Seq(Element)
    BY <1>4, <1>5, WiderSeq
  <2> QED BY <1>1, <1>2, <2>1, ConcatSet
<1>8. new \in Seq(Element) /\ \A el \in ToSet(new) : MadeBy(n, el)
  <2> DEFINE m == Len(rows) + Len(kept)
  <2>1. /\ new \in Seq(Stored(m)) /\ Len(new) = Len(kept)
        /\ \A k \in 1..Len(kept) : new[k].v = kept[k].v
    BY <1>2, <1>4, CreatedIs
  <2>2. m \in Nat
    BY <1>2, <1>4
  <2> HIDE DEF m, new
  <2>3. new \in Seq(Element)
    <3>1. Stored(m) \subseteq Element
      BY <2>2, Wider
    <3> QED BY <2>1, <3>1, WiderSeq
  <2>4. \A k \in 1..Len(kept) : kept[k] \in ToSet(kept)
    BY <1>4, Members
  <2>5. \A k \in 1..Len(new) : MadeBy(n, new[k])
    BY <1>6, <2>1, <2>4 DEF MadeBy
  <2> QED BY <2>3, <2>5, Members
<1>9. \A fr \in ToSet(down') : \A el \in ToSet(fr.els) : MadeBy(n, el)
  <2>1. frame.els = new
    OBVIOUS
  <2>2. frame \in Frame
    BY <1>8 DEF Frame
  <2> HIDE DEF frame
  <2>3. \A fr \in ToSet(down') : fr \in ToSet(down) \/ fr = frame
    BY <1>1, <2>2, ToldFrames
  <2> QED BY <1>8, <2>1, <2>3 DEF MadeUpTo
<1>10. Outgoing' = Outgoing
  BY <1>1, <1>3, ZenonT(30) DEF Outgoing, pendVars
<1> QED BY <1>1, <1>3, <1>6, <1>7, <1>9, <1>10 DEF MadeUpTo, pendVars

\* A row that changes, and the frame that tells of it.
LEMMA NumbersRows ==
  ASSUME BrowserTypeOK, BrowserTypeOK', NEW n, MadeUpTo(n),
         UNCHANGED <<scene, pendVars, flight, answered>>,
         ToSet(up') \subseteq ToSet(up), Len(rows') = Len(rows),
         NEW el, MadeBy(n, el),
         \A w \in 1..Len(rows) : rows'[w].v = rows[w].v \/ rows'[w].v = el.v,
         \A fr \in ToSet(down') : fr \in ToSet(down) \/ ToSet(fr.els) = {el}
  PROVE  MadeUpTo(n)'
<1>1. rows \in Seq(Row) /\ rows' \in Seq(Row)
  BY DEF BrowserTypeOK
<1>2. \A x \in ToSet(rows') : MadeBy(n, x)
  <2>1. \A w \in 1..Len(rows) : rows[w] \in ToSet(rows)
    BY <1>1, Members
  <2>2. \A w \in 1..Len(rows') : MadeBy(n, rows'[w])
    BY <2>1 DEF MadeUpTo, MadeBy
  <2> QED BY <1>1, <2>2, Members
<1>3. Outgoing' \subseteq Outgoing
  BY DEF Outgoing, pendVars
<1> QED BY <1>2, <1>3 DEF MadeUpTo, pendVars

LEMMA NumbersServe ==
  ASSUME BrowserTypeOK, BrowserTypeOK', TagsOK, NEW n, MadeUpTo(n), Serve
  PROVE  MadeUpTo(n)'
<1> DEFINE el == Head(up)
           op == IF el.v = 0 THEN "delete" ELSE "update"
           frame == [op |-> op, els |-> <<el>>]
<1>1. /\ UNCHANGED <<scene, pendVars, flight, answered>>
      /\ (rows' = rows /\ down' = down)
         \/ (Tell(frame) /\ \E r : rows' = [rows EXCEPT ![el.wbid] = r])
  BY DEF Serve
<1>2. /\ el \in ToSet(up) /\ el \in Message(Len(rows)) /\ ToSet(up') \subseteq ToSet(up)
      /\ \A w \in 1..Len(rows) : rows'[w].v = rows[w].v \/ rows'[w].v = el.v
  BY ServeIds
<1>3. el \in Element /\ Len(rows') = Len(rows) /\ MadeBy(n, el)
  <2>1. Message(Len(rows)) \subseteq Element /\ rows \in Seq(Row)
    BY Wider, Lists DEF BrowserTypeOK
  <2> QED BY <1>1, <1>2, <2>1 DEF MadeUpTo, Outgoing
<1> HIDE DEF el
<1>4. frame \in Frame /\ ToSet(frame.els) = {el}
  BY <1>3, OneFrame
<1> HIDE DEF frame, op
<1>5. \A fr \in ToSet(down') : fr \in ToSet(down) \/ ToSet(fr.els) = {el}
  BY <1>1, <1>4, ToldFrames
<1> QED BY <1>1, <1>2, <1>3, <1>5, NumbersRows

LEMMA NumbersOther ==
  ASSUME BrowserTypeOK, BrowserTypeOK', NEW n \in Nat, MadeUpTo(n),
         NEW w \in DOMAIN rows, NEW v \in Nat, v = 0 \/ v > MaxEdits, Other(w, v)
  PROVE  MadeUpTo(n)'
<1> DEFINE el == El(rows[w].id, v, w)
           op == IF v = 0 THEN "delete" ELSE "update"
           frame == [op |-> op, els |-> <<el>>]
<1>1. /\ UNCHANGED <<scene, pendVars, flight, answered, up>>
      /\ Tell(frame) /\ rows' = [rows EXCEPT ![w].v = v]
  BY DEF Other
<1>2. rows \in Seq(Row) /\ w \in 1..Len(rows) /\ rows[w] \in Row /\ w \in Nat
  BY Lists DEF BrowserTypeOK
<1>3. el \in Element /\ el.v = v /\ MadeBy(n, el)
  BY <1>2 DEF El, Element, Row, MadeBy
<1>4. Len(rows') = Len(rows) /\ \A x \in 1..Len(rows) : rows'[x].v = rows[x].v \/ rows'[x].v = v
  <2>1. [rows[w] EXCEPT !.v = v].v = v
    BY <1>2 DEF Row
  <2> QED BY <1>1, <1>2, <2>1
<1> HIDE DEF el
<1>5. frame \in Frame /\ ToSet(frame.els) = {el}
  BY <1>3, OneFrame
<1> HIDE DEF frame, op
<1>6. \A fr \in ToSet(down') : fr \in ToSet(down) \/ ToSet(fr.els) = {el}
  BY <1>1, <1>5, ToldFrames
<1> QED BY <1>1, <1>3, <1>4, <1>6, NumbersRows

-----------------------------------------------------------------------------
\* An element that waits and has the id of one of the scene has its wbid too.
LEMMA WaitingLikeScene ==
  ASSUME BrowserTypeOK, TagsOK, OnceOK, UntoldOK, ~Doubled,
         NEW x \in ToSet(scene), NEW u \in Waiting, u.id = x.id
  PROVE  u.wbid = x.wbid /\ x.wbid \in 1..Len(rows)
<1>1. x \in Element /\ x.wbid \in 0..Len(rows) /\ OwnIn(rows, x) /\ Settled(x)
  BY SceneElements DEF Shown, TagsOK, UntoldOK
<1>2. u.wbid \in 1..Len(rows) /\ OwnIn(rows, u) /\ u.wbid # 0
  BY WaitingStored
<1>3. x.wbid # 0
  BY <1>1 DEF Settled
<1>4. x.wbid \in 1..Len(rows)
  BY <1>1, <1>3, Lists
<1>5. rows[u.wbid].id = rows[x.wbid].id
  BY <1>1, <1>2, <1>3 DEF OwnIn
<1> QED BY <1>2, <1>4, <1>5, Lists DEF OnceOK, Distinct

\* Of stored elements, a report finds changed only the one that was edited.
LEMMA TouchedOnly ==
  ASSUME BrowserTypeOK, UntoldOK, ~Doubled, NEW els, NEW held,
         NEW el \in Touched(els, held), el.wbid # 0
  PROVE  el \notin ToSet(scene)
<1> SUFFICES ASSUME el \in ToSet(scene) PROVE FALSE
  OBVIOUS
<1>1. known[el.id] = Info(el)
  BY DEF UntoldOK, Settled
<1>2. known[el.id].v # el.v
  BY DEF Touched
<1> QED BY <1>1, <1>2 DEF Info

\* So everything but an edit leaves the pending updates as they are.
LEMMA OrderReported ==
  ASSUME BrowserTypeOK, UntoldOK, OrderOK, ~Doubled,
         NEW els, NEW held, HandleChange(els, held, creates, updates),
         \A el \in ToSet(els) : el \in ToSet(scene) \/ el.v = 0 \/ el.wbid = 0,
         UNCHANGED <<rows, flight, up>>
  PROVE  OrderOK'
<1> DEFINE touched == { el \in Touched(els, held) : el.wbid # 0 }
<1>1. updates' = SetUpdates(updates, touched)
  BY DEF HandleChange
<1>2. touched = {}
  <2> SUFFICES ASSUME NEW el \in touched PROVE FALSE
    OBVIOUS
  <2>1. el \in ToSet(els) /\ el.v # 0
    BY DEF Touched
  <2> QED BY <2>1, TouchedOnly
<1>3. updates' = updates
  BY <1>1, <1>2 DEF SetUpdates
<1>4. Outgoing' = Outgoing /\ Waiting' = Waiting
  BY <1>3 DEF Outgoing, Waiting
<1> QED BY <1>3, <1>4 DEF OrderOK, AtRow, Chain

\* An edit of a stored element is found.
LEMMA EditTouches ==
  ASSUME BrowserTypeOK, TagsOK, UntoldOK, NumbersOK, ~Doubled,
         NEW old \in ToSet(scene), NEW x \in Element, NEW b, NEW made, EditFacts(b, old, x, made),
         x.wbid # 0
  PROVE  x \in Touched(scene', HeldBack)
<1> USE DEF EditFacts
<1>0. /\ edits \in Nat /\ MaxEdits \in Nat /\ edits + 1 <= MaxEdits
      /\ old \in Element /\ old.v # 0
  <2>1. edits \in Nat /\ others \in Nat /\ MaxEdits \in Nat /\ edits + others < MaxEdits
    BY BrowserAssumption DEF BrowserTypeOK, CountsOK
  <2> QED BY <2>1, SceneElements
<1>1. old.wbid # 0 /\ OwnIn(rows, old) /\ known[old.id] = Info(old) /\ old.wbid \in 1..Len(rows)
  <2>1. old.wbid # 0 /\ OwnIn(rows, old) /\ Settled(old)
    BY DEF TagsOK, UntoldOK
  <2>2. old.wbid \in 0..Len(rows)
    BY SceneElements DEF Shown
  <2>3. Len(rows) \in Nat
    BY Lists
  <2> QED BY <2>1, <2>2, <2>3 DEF Settled
<1>2. x.id \notin HeldBack
  BY <1>1, OwnAsked DEF UntoldOK
<1>3. known[x.id] # Unknown /\ known[x.id].v = old.v
  BY <1>0, <1>1, InfoKnown DEF Info
<1>4. old.v # edits + 1
  <2>1. MadeBy(edits, old)
    BY DEF NumbersOK, MadeUpTo
  <2> QED BY <1>0, <2>1 DEF MadeBy, Element
<1>5. x \in ToSet(scene') /\ x.v # 0 /\ x.v = edits + 1
  OBVIOUS
<1> QED BY <1>2, <1>3, <1>4, <1>5 DEF Touched

LEMMA OrderEdit ==
  ASSUME BrowserTypeOK, TagsOK, OnceOK, UntoldOK, EchoInvariant, NumbersOK, OrderOK, ~Doubled,
         NEW old \in ToSet(scene), NEW x \in Element, NEW b, NEW made, EditFacts(b, old, x, made)
  PROVE  OrderOK'
<1>16. x.wbid # 0 => x \in Touched(scene', HeldBack)
  BY EditTouches
<1> USE DEF EditFacts
<1> DEFINE changed == { Edited(b, old, el) : el \in updates }
           touched == { el \in Touched(scene', HeldBack) : el.wbid # 0 }
<1>0. /\ edits \in Nat /\ others \in Nat /\ MaxEdits \in Nat /\ edits + 1 <= MaxEdits
      /\ old \in Element /\ old.v # 0 /\ Waiting \subseteq Element /\ up \in Seq(Element)
      /\ ToSet(up) \subseteq Element /\ rows \in Seq(Element) /\ Len(rows) \in Nat
  <2>1. edits \in Nat /\ others \in Nat /\ MaxEdits \in Nat /\ edits + others < MaxEdits
    BY BrowserAssumption DEF BrowserTypeOK, CountsOK
  <2>2. old \in Element /\ old.v # 0 /\ up \in Seq(Element)
    BY SceneElements DEF BrowserTypeOK, WireOK
  <2>3. Outgoing \subseteq Element /\ Waiting \subseteq Outgoing /\ ToSet(up) \subseteq Outgoing
    BY OutgoingElements, Lists, Wider, SMTT(20) DEF Waiting, Outgoing
  <2> QED BY <2>1, <2>2, <2>3, Lists
<1>1. /\ updates' = SetUpdates(changed, touched) /\ rows' = rows /\ up' = up
  BY DEF HandleChange, netVars
\* An element of the same wbid as the edited one is it; all others stay as they were.
<1>2. ASSUME NEW u \in Waiting, u.wbid # x.wbid PROVE Edited(b, old, u) = u
  <2>1. u.id # old.id
    BY <1>2, WaitingLikeScene
  <2> QED BY <1>0, <2>1
<1>3. \A u \in Waiting : /\ Edited(b, old, u).wbid = u.wbid
                         /\ Edited(b, old, u).v \in {u.v, edits + 1}
                         /\ Edited(b, old, u).wbid # x.wbid => Edited(b, old, u) = u
  BY <1>0, <1>2
<1>4. x.wbid # 0 => x \in touched
  BY <1>16
<1>5. touched \subseteq {x}
  <2> SUFFICES ASSUME NEW el \in touched PROVE el = x
    OBVIOUS
  <2>1. el \in Touched(scene', HeldBack) /\ el.wbid # 0 /\ el \in ToSet(scene')
    BY DEF Touched
  <2>2. el \notin ToSet(scene)
    BY <2>1, TouchedOnly
  <2> QED BY <2>1, <2>2
<1> HIDE DEF touched
<1>6. \A u \in updates' : (u \in updates /\ u.wbid # x.wbid) \/ (u = x /\ x.wbid # 0 /\ x \in touched)
  <2> SUFFICES ASSUME NEW u \in updates', u \notin touched PROVE u \in updates /\ u.wbid # x.wbid
    BY <1>5, <1>4 DEF Touched, touched
  <2>1. PICK o \in updates : u = Edited(b, old, o)
    BY <1>1 DEF SetUpdates
  <2>2. o \in Waiting
    BY DEF Waiting
  <2>3. u.wbid = o.wbid /\ o.wbid # 0
    BY <1>3, <2>1, <2>2, WaitingStored
  <2>4. u.wbid # x.wbid
    <3> SUFFICES ASSUME u.wbid = x.wbid PROVE FALSE
      OBVIOUS
    <3>1. x \in touched
      BY <1>4, <2>3
    <3> QED BY <1>1, <3>1 DEF SetUpdates
  <2> QED BY <1>3, <2>1, <2>2, <2>4
<1>7. \A f \in Flight : \A u \in flight'[f].updates :
        \E o \in flight[f].updates : /\ u = Edited(b, old, o) /\ o \in Waiting
                                     /\ u.wbid = o.wbid /\ u.v \in {o.v, edits + 1}
                                     /\ u.wbid # x.wbid => u = o
  <2>1. \A f \in Flight : flight[f].updates \subseteq Waiting
    BY DEF Waiting
  <2> QED BY <1>3, <2>1
<1>8. \A u \in Waiting' : \/ \E o \in Waiting : u.wbid = o.wbid /\ u.v = o.v
                          \/ u.v = edits + 1
  <2>1. \A u \in updates' : (u \in Waiting) \/ u.v = edits + 1
    BY <1>6 DEF Waiting
  <2> QED BY <1>7, <2>1 DEF Waiting
\* What was written before has a smaller number than this edit.
<1>9. \A y \in Element : \A u : MadeBy(edits, y) /\ u.v = edits + 1 => Before(y, u)
  BY <1>0 DEF MadeBy, Before, Element
<1>10. \A y \in ToSet(up), u \in Waiting' : Before(y, u)
  <2> SUFFICES ASSUME NEW y \in ToSet(up), NEW u \in Waiting' PROVE Before(y, u)
    OBVIOUS
  <2>1. MadeBy(edits, y) /\ y \in Element
    BY <1>0 DEF NumbersOK, MadeUpTo, Outgoing
  <2>2. ASSUME NEW o \in Waiting, u.wbid = o.wbid, u.v = o.v PROVE Before(y, u)
    BY <2>2 DEF OrderOK, Before
  <2> QED BY <1>8, <1>9, <2>1, <2>2
<1>11. \A w \in 1..Len(rows) : \A u \in Outgoing' : Before(AtRow(w), u)
  <2> SUFFICES ASSUME NEW w \in 1..Len(rows), NEW u \in Outgoing' PROVE Before(AtRow(w), u)
    OBVIOUS
  <2>1. MadeBy(edits, AtRow(w)) /\ AtRow(w) \in Element
    <3>1. rows[w] \in ToSet(rows) /\ rows[w] \in Element /\ w \in Nat
      BY <1>0, Members
    <3>2. AtRow(w).v = rows[w].v /\ AtRow(w) \in Element
      BY <3>1 DEF AtRow, El, Element
    <3> QED BY <3>1, <3>2 DEF NumbersOK, MadeUpTo, MadeBy
  <2>2. \A o \in Outgoing : Before(AtRow(w), o)
    BY DEF OrderOK
  <2>3. u \in ToSet(up) \/ u \in Waiting'
    BY <1>1 DEF Outgoing, Waiting
  <2>4. ASSUME NEW o \in Waiting, u.wbid = o.wbid, u.v = o.v PROVE Before(AtRow(w), u)
    <3>1. o \in Outgoing
      BY DEF Waiting, Outgoing
    <3> QED BY <2>2, <2>4, <3>1 DEF Before
  <2>5. u \in ToSet(up) => Before(AtRow(w), u)
    BY <2>2 DEF Outgoing
  <2> QED BY <1>8, <1>9, <2>1, <2>3, <2>4, <2>5
<1>12. \A f \in Flight : \A y \in flight'[f].updates, u \in updates' : Before(y, u)
  <2> SUFFICES ASSUME NEW f \in Flight, NEW y \in flight'[f].updates, NEW u \in updates' PROVE Before(y, u)
    OBVIOUS
  <2>1. PICK o \in flight[f].updates : /\ o \in Waiting /\ y.wbid = o.wbid
                                       /\ y.v \in {o.v, edits + 1}
                                       /\ y.wbid # x.wbid => y = o
    BY <1>7
  <2>2. CASE u = x
    <3>1. o \in Element /\ MadeBy(edits, o)
      BY <1>0, <2>1 DEF NumbersOK, MadeUpTo, Outgoing
    <3>2. o.v \in Nat
      BY <3>1 DEF Element
    <3> QED BY <1>0, <2>1, <2>2, <3>1, <3>2 DEF Before, MadeBy
  <2>3. CASE u \in updates /\ u.wbid # x.wbid
    <3>1. Before(o, u)
      BY <2>3 DEF OrderOK
    <3> QED BY <2>1, <2>3, <3>1 DEF Before
  <2> QED BY <1>6, <2>2, <2>3
<1>13. Single(updates')
  BY <1>6, ZenonT(30) DEF OrderOK, Single
<1>14. \A f \in Flight : Single(flight'[f].updates)
  <2> SUFFICES ASSUME NEW f \in Flight, NEW u \in flight'[f].updates, NEW y \in flight'[f].updates,
                      u.wbid = y.wbid
               PROVE  u = y
    BY DEF Single
  <2>1. PICK o \in flight[f].updates : u = Edited(b, old, o) /\ u.wbid = o.wbid
    BY <1>7
  <2>2. PICK p \in flight[f].updates : y = Edited(b, old, p) /\ y.wbid = p.wbid
    BY <1>7
  <2>3. o = p
    BY <2>1, <2>2 DEF OrderOK, Single
  <2> QED BY <2>1, <2>2, <2>3
<1>15. \A f, g \in Flight : f # g => flight'[f].updates = {} \/ flight'[g].updates = {}
  <2>1. \A f \in Flight : flight[f].updates = {} => flight'[f].updates = {}
    OBVIOUS
  <2> QED BY <2>1 DEF OrderOK
<1> QED BY <1>1, <1>10, <1>11, <1>12, <1>13, <1>14, <1>15 DEF OrderOK, AtRow, Chain

-----------------------------------------------------------------------------
LEMMA OrderUser ==
  ASSUME BrowserTypeOK, TagsOK, OnceOK, UntoldOK, EchoInvariant, NumbersOK, OrderOK, ~Doubled, User
  PROVE  OrderOK'
<1>1. ASSUME NEW e \in Elem, NEW b \in BOOLEAN, Draw(e, b) PROVE OrderOK'
  <2>1. PICK x \in Element, held \in SUBSET Elem : DrawFacts(e, x, held)
    BY <1>1, DrawIs
  <2> USE <2>1 DEF DrawFacts
  <2>2. \A el \in ToSet(scene') : el \in ToSet(scene) \/ el.v = 0 \/ el.wbid = 0
    OBVIOUS
  <2> QED BY <2>2, OrderReported DEF netVars
<1>2. ASSUME NEW i \in DOMAIN scene, NEW b \in BOOLEAN, Edit(i, b) PROVE OrderOK'
  BY <1>2, EditIs, OrderEdit
<1>3. ASSUME NEW i \in DOMAIN scene, NEW b \in BOOLEAN, Erase(i, b) PROVE OrderOK'
  <2>1. PICK x \in ToSet(scene), els \in Seq(Element) : EraseFacts(x, els)
    BY <1>3, EraseIs
  <2> USE <2>1 DEF EraseFacts
  <2>2. \A el \in ToSet(els) : el \in ToSet(scene) \/ el.v = 0 \/ el.wbid = 0
    OBVIOUS
  <2> QED BY <2>2, OrderReported DEF netVars
<1>4. CASE Report
  BY <1>4, OrderReported DEF Report, netVars
<1> QED BY <1>1, <1>2, <1>3, <1>4 DEF User

\* A flush, or the end of one: either its updates move on as they are, or they are sent.
LEMMA OrderMoved ==
  ASSUME BrowserTypeOK, OrderOK, rows' = rows, up' = up,
         \A f, g \in Flight : f # g => flight'[f].updates = {} \/ flight'[g].updates = {},
         \A f \in Flight : \/ flight'[f].updates = {}
                           \/ flight'[f].updates = flight[f].updates
                           \/ flight'[f].updates = updates /\ updates' = {},
         updates' = updates \/ updates' = {}
  PROVE  OrderOK'
<1>1. Waiting' \subseteq Waiting
  BY DEF Waiting
<1>2. Outgoing' \subseteq Outgoing
  BY <1>1 DEF Waiting, Outgoing
<1>3. \A f \in Flight : \A x \in flight'[f].updates, u \in updates' : Before(x, u)
  BY DEF OrderOK
<1>4. Single(updates') /\ \A f \in Flight : Single(flight'[f].updates)
  BY DEF OrderOK, Single
<1>5. \A w \in 1..Len(rows) : \A u \in Outgoing' : Before(AtRow(w), u)
  BY <1>2 DEF OrderOK
<1>6. \A x \in ToSet(up), u \in Waiting' : Before(x, u)
  BY <1>1 DEF OrderOK
<1>7. Chain(up)
  BY DEF OrderOK
<1> QED BY <1>3, <1>4, <1>5, <1>6, <1>7 DEF OrderOK, AtRow, Chain

LEMMA OrderSent ==
  ASSUME BrowserTypeOK, OrderOK, rows' = rows,
         NEW changed, changed \subseteq Waiting, IsFiniteSet(changed), Single(changed),
         NEW erased \in SUBSET (1..Len(rows)), NEW lost, Send(changed, erased, lost),
         Waiting' \subseteq Waiting,
         \A x \in changed, u \in Waiting' : Before(x, u),
         \A f, g \in Flight : f # g => flight'[f].updates = {} \/ flight'[g].updates = {},
         \A f \in Flight : flight'[f].updates = {} \/ flight'[f].updates = flight[f].updates,
         updates' = updates \/ updates' = {}
  PROVE  OrderOK'
<1>1. rows \in Seq(Row) /\ up \in Seq(Element) /\ changed \subseteq Stored(Len(rows)) /\ Chain(up)
  BY OutgoingElements DEF BrowserTypeOK, WireOK, Waiting, OrderOK
<1>2. \A x \in ToSet(up), u \in changed : Before(x, u)
  BY DEF OrderOK
<1>3. /\ Chain(up')
      /\ \A x \in ToSet(up') : x \in ToSet(up) \/ x \in changed \/ x.v = 0
  BY <1>1, <1>2, SentOrder
<1>4. \A x \in ToSet(up'), u \in Waiting' : Before(x, u)
  <2>1. \A x \in ToSet(up), u \in Waiting' : Before(x, u)
    BY DEF OrderOK
  <2>2. \A x, u : x.v = 0 => Before(x, u)
    BY DEF Before
  <2> QED BY <1>3, <2>1, <2>2
<1>5. \A w \in 1..Len(rows) : \A u \in Outgoing' : Before(AtRow(w), u)
  <2>1. \A u \in Outgoing' : u \in Outgoing \/ u.v = 0
    BY <1>3 DEF Outgoing, Waiting
  <2>2. \A x, u : u.v = 0 => Before(x, u)
    BY DEF Before
  <2> QED BY <2>1, <2>2 DEF OrderOK
<1>6. \A f \in Flight : \A x \in flight'[f].updates, u \in updates' : Before(x, u)
  BY DEF OrderOK
<1>7. Single(updates') /\ \A f \in Flight : Single(flight'[f].updates)
  BY DEF OrderOK, Single
<1> QED BY <1>3, <1>4, <1>5, <1>6, <1>7 DEF OrderOK, AtRow

LEMMA OrderFlush ==
  ASSUME BrowserTypeOK, OrderOK, NEW f \in Flight, Flush(f), ~raced'
  PROVE  OrderOK'
<1> DEFINE batch == Only(creates, { el \in ToSet(creates) : el.id \in Ids(scene) })
           wiped == { e \in Ids(creates) \ Ids(scene) : due[e] # Erased }
           fl == [stage |-> "posted", batch |-> batch, reply |-> <<>>,
                  updates |-> updates, deletes |-> deletes]
<1>0. /\ flight = [g \in Flight |-> flight[g]] /\ IsFiniteSet(updates)
      /\ deletes \in SUBSET (1..Len(rows)) /\ updates \subseteq Waiting
  BY DEF BrowserTypeOK, PendOK, FlightsOK, Waiting
<1>1. /\ updates' = {} /\ rows' = rows /\ \A g \in Flight : flight[g].updates = {}
      /\ \/ Send(updates, deletes, wiped) /\ flight' = flight
         \/ flight' = [flight EXCEPT ![f] = fl] /\ up' = up
  BY DEF Flush
<1>2. fl.updates = updates
  OBVIOUS
<1> HIDE DEF fl, batch, wiped
<1>3. CASE Send(updates, deletes, wiped) /\ flight' = flight
  <2>1. Waiting' = {}
    BY <1>1, <1>3 DEF Waiting
  <2>2. Single(updates)
    BY DEF OrderOK
  <2> QED BY <1>0, <1>1, <1>3, <2>1, <2>2, OrderSent
<1>4. CASE flight' = [flight EXCEPT ![f] = fl] /\ up' = up
  <2>1. \A g \in Flight : flight'[g].updates = IF g = f THEN updates ELSE {}
    BY <1>0, <1>1, <1>2, <1>4
  <2> QED BY <1>1, <1>4, <2>1, OrderMoved
<1> QED BY <1>1, <1>3, <1>4

LEMMA OrderLanding ==
  ASSUME BrowserTypeOK, OrderOK, NEW f \in Flight, Answer(f) \/ PostFails(f)
  PROVE  OrderOK'
<1> DEFINE c == flight[f].updates
           d == flight[f].deletes
<1>0. /\ flight = [g \in Flight |-> flight[g]] /\ IsFiniteSet(c) /\ d \in SUBSET (1..Len(rows))
      /\ c \subseteq Waiting
  BY DEF BrowserTypeOK, FlightsOK, FlightOK, Waiting
<1>1. /\ updates' = updates /\ rows' = rows /\ flight' = [flight EXCEPT ![f] = Landed]
  BY DEF Answer, PostFails, pendVars
<1>2. \E lost : Send(c, d, lost)
  BY DEF Answer, PostFails
<1>3. \A g \in Flight : flight'[g].updates = IF g = f THEN {} ELSE flight[g].updates
  BY <1>0, <1>1 DEF Landed
<1>4. Waiting' \subseteq Waiting
  BY <1>1, <1>3 DEF Waiting
<1>5. \A x \in c, u \in Waiting' : Before(x, u)
  <2> SUFFICES ASSUME NEW x \in c, NEW u \in Waiting' PROVE Before(x, u)
    OBVIOUS
  <2>1. u \in updates => Before(x, u)
    BY DEF OrderOK
  <2>2. \A g \in Flight : u \notin flight'[g].updates
    BY <1>3 DEF OrderOK
  <2> QED BY <1>1, <2>1, <2>2 DEF Waiting
<1>6. Single(c)
  BY DEF OrderOK
<1>7. \A g, h \in Flight : g # h => flight'[g].updates = {} \/ flight'[h].updates = {}
  BY <1>3 DEF OrderOK
<1> HIDE DEF c, d
<1> QED BY <1>0, <1>1, <1>2, <1>3, <1>4, <1>5, <1>6, <1>7, OrderSent

LEMMA OrderTold ==
  ASSUME BrowserTypeOK, OrderOK,
         \/ \E e \in Elem : UploadLands(e) \/ UploadFails(e)
         \/ Receive \/ Connect \/ Close \/ HttpRead \/ HttpArrives \/ Leave
  PROVE  OrderOK'
<1>1. /\ rows' = rows /\ flight' = flight
      /\ updates' = updates \/ updates' = {}
      /\ up' = up \/ up' = <<>>
  BY DEF UploadLands, UploadFails, Receive, Connect, Close, HttpRead, HttpArrives, Leave,
          pendVars, netVars
<1>2. Waiting' \subseteq Waiting /\ ToSet(up') \subseteq ToSet(up)
  BY <1>1, NoneSet DEF Waiting
<1>3. Outgoing' \subseteq Outgoing
  BY <1>2 DEF Outgoing, Waiting
<1>4. Chain(up')
  BY <1>1 DEF OrderOK, Chain
<1>5. \A w \in 1..Len(rows) : \A u \in Outgoing' : Before(AtRow(w), u)
  BY <1>3 DEF OrderOK
<1>6. \A x \in ToSet(up'), u \in Waiting' : Before(x, u)
  BY <1>2 DEF OrderOK
<1>7. /\ \A f \in Flight : \A x \in flight[f].updates, u \in updates' : Before(x, u)
      /\ Single(updates') /\ \A f \in Flight : Single(flight[f].updates)
  BY <1>1 DEF OrderOK, Single
<1> QED BY <1>1, <1>4, <1>5, <1>6, <1>7 DEF OrderOK, AtRow

LEMMA OrderCreate ==
  ASSUME BrowserTypeOK, OrderOK, NEW f \in Flight, Create(f)
  PROVE  OrderOK'
<1> DEFINE batch == flight[f].batch
           kept == Kept(batch)
           new == Created(kept)
           reply == [k \in DOMAIN new |-> new[k].wbid]
           fl == flight[f]
           n == Len(rows)
<1>1. /\ rows' = rows \o kept /\ flight' = [flight EXCEPT ![f].stage = "answered", ![f].reply = reply]
      /\ UNCHANGED <<pendVars, up>>
  BY DEF Create
<1>2. rows \in Seq(Row) /\ batch \in Seq(Drawn)
  BY Lists DEF BrowserTypeOK
<1>3. \A g \in Flight : flight'[g].updates = flight[g].updates
  <2>1. fl = [stage |-> fl.stage, batch |-> batch, reply |-> fl.reply,
              updates |-> fl.updates, deletes |-> fl.deletes]
    BY DEF BrowserTypeOK, FlightsOK, FlightOK
  <2>2. flight = [g \in Flight |-> flight[g]]
    BY DEF BrowserTypeOK, FlightsOK
  <2> HIDE DEF reply, batch
  <2>3. flight'[f] = [[fl EXCEPT !.stage = "answered"] EXCEPT !.reply = reply]
    BY <1>1, <2>2
  <2>4. \A g \in Flight : g # f => flight'[g] = flight[g]
    BY <1>1, <2>2
  <2> HIDE DEF fl
  <2>5. flight'[f].updates = fl.updates
    BY <2>1, <2>3
  <2> QED BY <2>4, <2>5 DEF fl
<1> HIDE DEF batch
<1>4. kept \in Seq(Drawn)
  BY <1>2, KeptIs
<1> HIDE DEF kept, fl, reply, new
<1>5. /\ n \in Nat /\ Len(rows') = n + Len(kept) /\ Len(kept) \in Nat
      /\ \A w \in 1..n : rows'[w] = rows[w]
  BY <1>1, <1>2, <1>4, CreatedIs
<1>6. Outgoing' = Outgoing /\ Waiting' = Waiting /\ updates' = updates /\ up' = up
  BY <1>1, <1>3 DEF Outgoing, Waiting, pendVars
<1>7. \A w \in 1..Len(rows') : \A u \in Outgoing : Before(El(rows'[w].id, rows'[w].v, w), u)
  <2> SUFFICES ASSUME NEW w \in 1..Len(rows'), NEW u \in Outgoing
               PROVE  Before(El(rows'[w].id, rows'[w].v, w), u)
    OBVIOUS
  <2>1. u.wbid \in 1..n
    BY OutgoingElements DEF Message
  <2>2. CASE w \in 1..n
    <3>1. El(rows'[w].id, rows'[w].v, w) = AtRow(w)
      BY <1>5, <2>2 DEF AtRow
    <3> QED BY <2>2, <3>1 DEF OrderOK
  <2>3. CASE w \notin 1..n
    <3>1. El(rows'[w].id, rows'[w].v, w).wbid # u.wbid
      BY <2>1, <2>3 DEF El
    <3> QED BY <3>1 DEF Before
  <2> QED BY <2>2, <2>3
<1> QED BY <1>3, <1>6, <1>7 DEF OrderOK, AtRow, Chain

\* A row takes the content that comes next, and none that comes later is older.
LEMMA OrderRows ==
  ASSUME BrowserTypeOK, OrderOK, UNCHANGED <<pendVars, flight>>, Len(rows') = Len(rows),
         Chain(up'), ToSet(up') \subseteq ToSet(up),
         \A w \in 1..Len(rows) : \/ rows'[w].v = rows[w].v
                                 \/ rows'[w].v \notin 1..MaxEdits
                                 \/ \E el : /\ rows'[w].v = el.v /\ w = el.wbid
                                            /\ \A u \in Outgoing' : Before(el, u)
  PROVE  OrderOK'
<1>1. Outgoing' \subseteq Outgoing /\ Waiting' = Waiting
  BY DEF Outgoing, Waiting, pendVars
<1>2. ASSUME NEW w \in 1..Len(rows), NEW u \in Outgoing'
      PROVE  Before(El(rows'[w].id, rows'[w].v, w), u)
  <2> DEFINE r == El(rows'[w].id, rows'[w].v, w)
  <2>1. r.v = rows'[w].v /\ r.wbid = w
    BY DEF El
  <2>2. AtRow(w).v = rows[w].v /\ AtRow(w).wbid = w /\ Before(AtRow(w), u)
    BY <1>1 DEF AtRow, El, OrderOK
  <2> HIDE DEF r
  <2>3. CASE rows'[w].v = rows[w].v
    BY <2>1, <2>2, <2>3 DEF Before, r
  <2>4. CASE rows'[w].v \notin 1..MaxEdits
    BY <2>1, <2>4 DEF Before, r
  <2>5. ASSUME NEW el, rows'[w].v = el.v, w = el.wbid, Before(el, u)
        PROVE  Before(r, u)
    BY <2>1, <2>5 DEF Before
  <2> QED BY <2>3, <2>4, <2>5 DEF r
<1>3. \A x \in ToSet(up'), u \in Waiting' : Before(x, u)
  BY <1>1 DEF OrderOK
<1> QED BY <1>2, <1>3 DEF OrderOK, AtRow, pendVars

LEMMA OrderServe ==
  ASSUME BrowserTypeOK, TagsOK, OrderOK, Serve
  PROVE  OrderOK'
<1> DEFINE el == Head(up)
<1>1. /\ up \in Seq(Element) /\ up # <<>> /\ up' = Tail(up) /\ UNCHANGED <<pendVars, flight>>
      /\ Len(rows') = Len(rows) /\ Chain(up)
  <2>1. rows' = rows \/ \E r : rows' = [rows EXCEPT ![Head(up).wbid] = r]
    BY DEF Serve
  <2>2. up \in Seq(Element) /\ rows \in Seq(Row)
    BY DEF BrowserTypeOK, WireOK
  <2>3. Len(rows') = Len(rows)
    BY <2>1, <2>2
  <2> QED BY <2>2, <2>3 DEF Serve, OrderOK
<1>2. /\ el \in ToSet(up) /\ ToSet(up') \subseteq ToSet(up)
      /\ \A w \in 1..Len(rows) : rows'[w].v = rows[w].v \/ (w = el.wbid /\ rows'[w].v = el.v)
  BY ServeIds
<1>3. Len(up') = Len(up) - 1 /\ \A i \in 1..Len(up) - 1 : up'[i] = up[i + 1]
  BY <1>1, TailSet
<1>4. Len(up) \in Nat /\ up' \in Seq(Element)
  BY <1>1, TailSet
<1>5. Chain(up')
  BY <1>1, <1>3, <1>4 DEF Chain
<1>6. \A u \in Outgoing' : Before(el, u)
  <2>1. \A u \in ToSet(up') : Before(el, u)
    <3> SUFFICES ASSUME NEW i \in 1..Len(up') PROVE Before(el, up'[i])
      BY <1>4, Members
    <3>1. up'[i] = up[i + 1] /\ el = up[1] /\ 1 \in 1..Len(up) /\ i + 1 \in 1..Len(up) /\ 1 < i + 1
      BY <1>1, <1>3, <1>4, TailSet
    <3> QED BY <1>1, <3>1 DEF Chain
  <2>2. \A u \in Waiting : Before(el, u)
    BY <1>2 DEF OrderOK
  <2>3. Outgoing' = Waiting \cup ToSet(up')
    BY <1>1 DEF Outgoing, Waiting, pendVars
  <2> QED BY <2>1, <2>2, <2>3
<1> HIDE DEF el
<1>7. \A w \in 1..Len(rows) : \/ rows'[w].v = rows[w].v
                              \/ /\ rows'[w].v = el.v /\ w = el.wbid
                                 /\ \A u \in Outgoing' : Before(el, u)
  BY <1>2, <1>6
<1> QED BY <1>1, <1>2, <1>5, <1>7, OrderRows

LEMMA OrderOther ==
  ASSUME BrowserTypeOK, OrderOK, NEW w \in DOMAIN rows, NEW v \in Nat, v = 0 \/ v > MaxEdits, Other(w, v)
  PROVE  OrderOK'
<1>1. /\ UNCHANGED <<pendVars, flight, up>> /\ rows' = [rows EXCEPT ![w].v = v]
      /\ rows \in Seq(Row) /\ w \in 1..Len(rows) /\ rows[w] \in Row /\ MaxEdits \in Nat
  BY Lists, BrowserAssumption DEF Other, BrowserTypeOK
<1>2. Len(rows') = Len(rows) /\ \A x \in 1..Len(rows) : rows'[x].v = rows[x].v \/ rows'[x].v = v
  <2>1. [rows[w] EXCEPT !.v = v].v = v
    BY <1>1 DEF Row
  <2> QED BY <1>1, <2>1
<1>3. v \notin 1..MaxEdits
  BY <1>1
<1>4. Chain(up')
  BY <1>1 DEF OrderOK
<1> QED BY <1>1, <1>2, <1>3, <1>4, OrderRows

-----------------------------------------------------------------------------
LEMMA HistoryStays ==
  ASSUME [BrowserNext]_browserVars
  PROVE  (~skipped' => ~skipped) /\ (~raced' => ~raced)
<1>1. CASE UNCHANGED browserVars
  BY <1>1 DEF browserVars, historyVars, raceVars
<1>2. ASSUME ~skipped', BrowserNext PROVE ~skipped
  <2>1. User => ~skipped
    BY <1>2 DEF User, Draw, Edit, Erase, Report, historyVars, raceVars
  <2>2. Server => ~skipped
    BY <1>2 DEF Server, Create, Other, Serve, historyVars, raceVars
  <2>3. \A f \in Flight : Flush(f) \/ Answer(f) \/ PostFails(f) => ~skipped
    BY <1>2 DEF Flush, Answer, PostFails, raceVars
  <2>4. \A e \in Elem : UploadLands(e) \/ UploadFails(e) => ~skipped
    BY <1>2 DEF UploadLands, UploadFails, historyVars, raceVars
  <2>5. Receive \/ Connect \/ Close \/ HttpRead \/ HttpArrives \/ Leave => ~skipped
    BY <1>2 DEF Receive, Connect, Close, HttpRead, HttpArrives, Leave, historyVars, raceVars
  <2> QED BY <1>2, <2>1, <2>2, <2>3, <2>4, <2>5 DEF BrowserNext
<1>3. ASSUME ~raced', BrowserNext PROVE ~raced
  <2>1. User => ~raced
    BY <1>3 DEF User, Draw, Edit, Erase, Report, historyVars, raceVars
  <2>2. Server => ~raced
    BY <1>3 DEF Server, Create, Other, Serve, historyVars, raceVars
  <2>3. \A f \in Flight : Flush(f) \/ Answer(f) \/ PostFails(f) => ~raced
    BY <1>3 DEF Flush, Answer, PostFails, raceVars
  <2>4. \A e \in Elem : UploadLands(e) \/ UploadFails(e) => ~raced
    BY <1>3 DEF UploadLands, UploadFails, historyVars, raceVars
  <2>5. Receive \/ Connect \/ Close \/ HttpRead \/ HttpArrives \/ Leave => ~raced
    BY <1>3 DEF Receive, Connect, Close, HttpRead, HttpArrives, Leave, historyVars, raceVars
  <2> QED BY <1>3, <2>1, <2>2, <2>3, <2>4, <2>5 DEF BrowserNext
<1> QED BY <1>1, <1>2, <1>3

\* The number of the latest edit only grows.
LEMMA EditsGrow ==
  ASSUME BrowserTypeOK, BrowserTypeOK', BrowserNext
  PROVE  edits \in Nat /\ edits' \in Nat /\ edits <= edits'
<1>1. edits \in Nat /\ edits' \in Nat
  BY DEF BrowserTypeOK, CountsOK
<1>2. User => edits' = edits \/ edits' = edits + 1
  BY DEF User, Draw, Edit, Erase, Report, countVars
<1>3. Server => edits' = edits
  BY DEF Server, Create, Other, Serve, countVars
<1>4. \A f \in Flight : Flush(f) \/ Answer(f) \/ PostFails(f) => edits' = edits
  BY DEF Flush, Answer, PostFails, countVars
<1>5. \A e \in Elem : UploadLands(e) \/ UploadFails(e) => edits' = edits
  BY DEF UploadLands, UploadFails
<1>6. Receive \/ Connect \/ Close \/ HttpRead \/ HttpArrives \/ Leave => edits' = edits
  BY DEF Receive, Connect, Close, HttpRead, HttpArrives, Leave, countVars
<1>7. edits' = edits \/ edits' = edits + 1
  BY <1>2, <1>3, <1>4, <1>5, <1>6 DEF BrowserNext
<1> QED BY <1>1, <1>7

\* No step makes an edit with a number beyond n, the number of the latest.
LEMMA NumbersUpTo ==
  ASSUME BrowserTypeOK, BrowserTypeOK', TagsOK, BrowserNext,
         NEW n \in Nat, n = edits', MadeUpTo(n)
  PROVE  MadeUpTo(n)'
<1>1. edits' <= n /\ others \in Nat
  BY DEF BrowserTypeOK, CountsOK
<1>2. User /\ ~Doubled => MadeUpTo(n)'
  BY <1>1, NumbersUser
<1>3. \A f \in Flight : Flush(f) \/ Answer(f) \/ PostFails(f) => MadeUpTo(n)'
  BY NumbersFlush
<1>4. Server => MadeUpTo(n)'
  <2>1. ASSUME NEW w \in DOMAIN rows, Other(w, 0) \/ Other(w, MaxEdits + others + 1)
        PROVE  MadeUpTo(n)'
    <3>1. MaxEdits + others + 1 \in Nat /\ MaxEdits + others + 1 > MaxEdits
      BY <1>1, BrowserAssumption
    <3> QED BY <2>1, <3>1, NumbersOther
  <2> QED BY <2>1, NumbersCreate, NumbersServe DEF Server
<1>5. (\E e \in Elem : UploadLands(e) \/ UploadFails(e))
        \/ Receive \/ Connect \/ Close \/ HttpRead \/ HttpArrives \/ Leave => MadeUpTo(n)'
  BY NumbersTold
<1> QED BY <1>2, <1>3, <1>4, <1>5 DEF BrowserNext

LEMMA NumbersStep ==
  ASSUME BrowserTypeOK, BrowserTypeOK', TagsOK, NumbersOK, BrowserNext
  PROVE  NumbersOK'
<1>1. PICK n \in Nat : n = edits'
  BY DEF BrowserTypeOK, CountsOK
<1>2. MadeUpTo(n)
  BY <1>1, EditsGrow, MadeEarlier
<1>3. MadeUpTo(n)'
  BY <1>1, <1>2, NumbersUpTo
<1> QED BY <1>1, <1>3 DEF NumbersOK, MadeUpTo

LEMMA OrderStep ==
  BrowserTypeOK /\ BrowserTypeOK' /\ EchoInvariant /\ CleanInvariant /\ OrderInvariant
    /\ [BrowserNext]_browserVars => OrderInvariant'
<1> SUFFICES ASSUME BrowserTypeOK, BrowserTypeOK', EchoInvariant, CleanInvariant, OrderInvariant,
                    [BrowserNext]_browserVars, ~skipped'
             PROVE  NumbersOK' /\ (~raced' => OrderOK')
  BY DEF OrderInvariant
<1>1. ~skipped /\ (~raced' => ~raced)
  BY HistoryStays
<1>2. TagsOK /\ OnceOK /\ UntoldOK /\ NumbersOK /\ (~raced' => OrderOK)
  BY <1>1 DEF CleanInvariant, OrderInvariant
<1>3. CASE UNCHANGED browserVars
  <2> USE <1>3 DEF browserVars, pendVars, netVars, countVars, historyVars, raceVars
  <2>1. Outgoing' = Outgoing /\ Waiting' = Waiting
    BY DEF Outgoing, Waiting
  <2>2. NumbersOK'
    BY <1>2, <2>1 DEF NumbersOK, MadeUpTo
  <2>3. OrderOK => OrderOK'
    BY <2>1 DEF OrderOK, AtRow, Chain
  <2> QED BY <1>2, <2>2, <2>3
<1>4. CASE BrowserNext
  <2>1. NumbersOK'
    BY <1>2, <1>4, NumbersStep
  <2> SUFFICES ASSUME ~raced' PROVE OrderOK'
    BY <2>1
  <2>2. OrderOK
    BY <1>2
  <2>3. User /\ ~Doubled => OrderOK'
    BY <1>2, <2>2, OrderUser
  <2>4. \A f \in Flight : Flush(f) \/ Answer(f) \/ PostFails(f) => OrderOK'
    BY <2>2, OrderFlush, OrderLanding
  <2>5. Server => OrderOK'
    <3>1. ASSUME NEW w \in DOMAIN rows, Other(w, 0) \/ Other(w, MaxEdits + others + 1)
          PROVE  OrderOK'
      <4>1. MaxEdits + others + 1 \in Nat /\ MaxEdits + others + 1 > MaxEdits
        BY BrowserAssumption DEF BrowserTypeOK, CountsOK
      <4> QED BY <2>2, <3>1, <4>1, OrderOther
    <3> QED BY <1>2, <2>2, <3>1, OrderCreate, OrderServe DEF Server
  <2>6. (\E e \in Elem : UploadLands(e) \/ UploadFails(e))
          \/ Receive \/ Connect \/ Close \/ HttpRead \/ HttpArrives \/ Leave => OrderOK'
    BY <2>2, OrderTold
  <2> QED BY <1>4, <2>3, <2>4, <2>5, <2>6 DEF BrowserNext
<1> QED BY <1>3, <1>4

LEMMA OrderInit == BrowserInit => OrderInvariant
<1> SUFFICES ASSUME BrowserInit PROVE NumbersOK /\ OrderOK
  BY DEF OrderInvariant
<1>1. /\ scene = <<>> /\ up = <<>> /\ down = <<>> /\ answered = <<>> /\ updates = {}
      /\ creates = <<>> /\ rows = <<>> /\ Len(<<>>) = 0 /\ 1..0 = {}
      /\ \A f \in Flight : flight[f].updates = {} /\ flight[f].batch = <<>>
  BY DEF BrowserInit, Landed
<1>2. Outgoing = {} /\ Waiting = {}
  BY <1>1, NoneSet DEF Outgoing, Waiting
<1>3. NumbersOK
  BY <1>1, <1>2, NoneSet DEF NumbersOK, MadeUpTo
<1>4. OrderOK
  BY <1>1, <1>2, NoneSet DEF OrderOK, Chain, Single
<1> QED BY <1>3, <1>4

\* A row never goes back from an edit of this browser to an earlier one (flush,
\* CanvasView.tsx:168-198), until one flush overtakes another or a bulk leaves out an image:
\* from the row over the socket and the flushes to what is pending, edits only get later.
THEOREM EditsArriveInOrder == BrowserSpec => RowsMoveOn
<1> DEFINE Forward == ~raced /\ ~skipped => \A w \in DOMAIN rows :
             {rows[w].v, rows'[w].v} \subseteq 1..MaxEdits => rows'[w].v >= rows[w].v
<1>1. BrowserTypeOK /\ BrowserTypeOK' /\ CleanInvariant /\ OrderInvariant
        /\ [BrowserNext]_browserVars => [Forward]_browserVars
  <2> SUFFICES ASSUME BrowserTypeOK, CleanInvariant, OrderInvariant, BrowserNext, ~raced, ~skipped,
                      NEW w \in DOMAIN rows, rows[w].v \in 1..MaxEdits, rows'[w].v \in 1..MaxEdits
               PROVE  rows'[w].v >= rows[w].v
    OBVIOUS
  <2>0. /\ TagsOK /\ OrderOK /\ w \in 1..Len(rows) /\ rows \in Seq(Row) /\ MaxEdits \in Nat
        /\ rows[w].v \in Nat /\ others \in Nat
    <3>1. rows \in Seq(Row) /\ w \in 1..Len(rows) /\ others \in Nat
      BY DEF BrowserTypeOK, CountsOK
    <3>2. rows[w] \in Row
      BY <3>1
    <3> QED BY <3>1, <3>2, BrowserAssumption DEF CleanInvariant, OrderInvariant, Row
  <2>1. CASE rows'[w].v = rows[w].v
    BY <2>0, <2>1
  <2>2. CASE Serve
    <3> DEFINE el == Head(up)
    <3>1. /\ el \in ToSet(up)
          /\ rows'[w].v = rows[w].v \/ (w = el.wbid /\ rows'[w].v = el.v)
      BY <2>0, <2>2, ServeIds
    <3>2. Before(AtRow(w), el)
      BY <2>0, <3>1 DEF OrderOK, Outgoing
    <3>3. AtRow(w).v = rows[w].v /\ AtRow(w).wbid = w
      BY DEF AtRow, El
    <3> HIDE DEF el
    <3>4. rows'[w].v # rows[w].v => rows[w].v <= rows'[w].v
      <4> SUFFICES ASSUME rows'[w].v # rows[w].v PROVE rows[w].v <= rows'[w].v
        OBVIOUS
      <4>1. w = el.wbid /\ rows'[w].v = el.v /\ el.v # 0
        BY <3>1
      <4> QED BY <3>2, <3>3, <4>1 DEF Before
    <3> QED BY <2>0, <3>4
  <2>3. ASSUME NEW x \in DOMAIN rows, NEW v \in Nat, v = 0 \/ v > MaxEdits, Other(x, v)
        PROVE  rows'[w].v = rows[w].v
    <3>1. rows' = [rows EXCEPT ![x].v = v]
      BY <2>3 DEF Other
    <3>2. rows[x] \in Row
      BY <2>0, <2>3
    <3>3. x = w => rows'[w].v = v
      BY <2>0, <3>1, <3>2 DEF Row
    <3>4. x # w
      BY <2>0, <2>3, <3>3
    <3> QED BY <2>0, <3>1, <3>4
  <2>4. ASSUME NEW f \in Flight, Create(f)
        PROVE  rows'[w].v = rows[w].v
    <3> DEFINE kept == Kept(flight[f].batch)
    <3>1. rows' = rows \o kept
      BY <2>4 DEF Create
    <3>2. kept \in Seq(Drawn)
      BY KeptIs, Lists
    <3> HIDE DEF kept
    <3> QED BY <2>0, <3>1, <3>2
  <2>5. Server => Serve \/ rows'[w].v = rows[w].v
    <3>1. MaxEdits + others + 1 \in Nat /\ MaxEdits + others + 1 > MaxEdits /\ 0 \in Nat
      BY <2>0
    <3> QED BY <2>3, <2>4, <3>1 DEF Server
  <2>6. User => rows' = rows
    BY DEF User, Draw, Edit, Erase, Report
  <2>7. \A f \in Flight : Flush(f) \/ Answer(f) \/ PostFails(f) => rows' = rows
    BY DEF Flush, Answer, PostFails
  <2>8. \A e \in Elem : UploadLands(e) \/ UploadFails(e) => rows' = rows
    BY DEF UploadLands, UploadFails
  <2>9. Receive \/ Connect \/ Close \/ HttpRead \/ HttpArrives \/ Leave => rows' = rows
    BY DEF Receive, Connect, Close, HttpRead, HttpArrives, Leave
  <2> QED BY <2>1, <2>2, <2>5, <2>6, <2>7, <2>8, <2>9 DEF BrowserNext
<1> QED
  BY <1>1, TypesInit, TypesStep, EchoInit, EchoStep, CleanInit, CleanStep, OrderInit, OrderStep, PTL
     DEF BrowserSpec, RowsMoveOn

-----------------------------------------------------------------------------
\* Until a bulk leaves an image out: an edit that is due waits somewhere, or its row is
\* gone; of an element whose deletion is due each row is bound to go, none is to be
\* created, and what the scene shows of it has a row.
Holds(S, e, v) == \E el \in S : el.id = e /\ el.v = v

Waits(e, v) ==
  \/ Holds(ToSet(creates), e, v) \/ Holds(updates, e, v) \/ Holds(ToSet(up), e, v)
  \/ \E f \in Flight : \/ Holds(flight[f].updates, e, v)
                       \/ flight[f].stage = "posted" /\ Holds(ToSet(flight[f].batch), e, v)
  \/ known[e] = Unknown /\ Holds(ToSet(scene), e, v)

Dead(e) == \E w \in 1..Len(rows) : rows[w].id = e /\ rows[w].v = 0

Doomed(w) ==
  \/ rows[w].v = 0 \/ w \in deletes \/ \E f \in Flight : w \in flight[f].deletes
  \/ \E el \in ToSet(up) : el.wbid = w /\ el.v = 0

LateOK(e) == due[e] > 0 => Dead(e) \/ Waits(e, due[e])

GoneOK(e) ==
  due[e] = Erased => /\ \A w \in 1..Len(rows) : rows[w].id = e => Doomed(w)
                     /\ \A f \in Flight : e \notin Posted(f)
                     /\ \A el \in ToSet(scene) : el.id = e => el.wbid # 0

DueOK == \A e \in Elem : LateOK(e) /\ GoneOK(e)
DueInvariant == ~skipped => DueOK

\* The baseline has no element that is not shown.
KnownOK == \A e \in Elem : known[e] # Unknown => e \in Ids(scene)
LEMMA KnownReported ==
  ASSUME BrowserTypeOK, KnownOK, NEW els \in Seq(Element), NEW held, NEW made, NEW changed,
         HandleChange(els, held, made, changed),
         \A el \in ToSet(els) : el.v # 0 => el.id \in Ids(scene')
  PROVE  KnownOK'
<1> DEFINE Seen(e) == { el \in Fresh(els, held) \cup Touched(els, held) : el.id = e }
<1> SUFFICES ASSUME NEW e \in Elem, known'[e] # Unknown PROVE e \in Ids(scene')
  BY DEF KnownOK
<1>1. known'[e] = IF e \in Gone(els) THEN Unknown
                  ELSE IF Seen(e) = {} THEN known[e] ELSE Info(CHOOSE el \in Seen(e) : TRUE)
  BY DEF HandleChange
<1>2. e \notin Gone(els)
  BY <1>1
<1>3. \A el \in Seen(e) : el \in ToSet(els) /\ el.v # 0 /\ el.id = e
  BY DEF Fresh, Touched
<1> HIDE DEF Seen
<1>4. CASE Seen(e) = {}
  <2>1. known[e] # Unknown
    BY <1>1, <1>2, <1>4
  <2>2. \E el \in ToSet(els) : el.id = e /\ el.v # 0
    BY <1>2, <2>1 DEF Gone
  <2> QED BY <2>2
<1>5. CASE Seen(e) # {}
  BY <1>3, <1>5
<1> QED BY <1>4, <1>5

LEMMA KnownStep ==
  BrowserTypeOK /\ BrowserTypeOK' /\ KnownOK /\ [BrowserNext]_browserVars => KnownOK'
<1> SUFFICES ASSUME BrowserTypeOK, BrowserTypeOK', KnownOK, [BrowserNext]_browserVars PROVE KnownOK'
  OBVIOUS
<1>1. CASE UNCHANGED <<scene, known>>
  BY <1>1 DEF KnownOK
<1>2. CASE ApplyScene(scene')
  <2> SUFFICES ASSUME NEW e \in Elem, known'[e] # Unknown PROVE e \in Ids(scene')
    BY DEF KnownOK
  <2>1. scene' \in Seq(Element) /\ known'[e] = Baseline(scene')[e]
    BY <1>2 DEF ApplyScene, BrowserTypeOK, SceneOK
  <2> QED BY <2>1, BaselineIs DEF Ids
<1>3. CASE ~Doubled /\ User
  <2>1. ASSUME NEW e \in Elem, NEW b \in BOOLEAN, Draw(e, b) PROVE KnownOK'
    <3>1. PICK x \in Element, held \in SUBSET Elem : DrawFacts(e, x, held)
      BY <2>1, DrawIs
    <3>2. scene' \in Seq(Element) /\ HandleChange(scene', held, creates, updates)
      BY <3>1 DEF DrawFacts
    <3> QED BY <3>2, KnownReported DEF Ids
  <2>2. ASSUME NEW i \in DOMAIN scene, NEW b \in BOOLEAN, Edit(i, b) PROVE KnownOK'
    <3>1. PICK old \in ToSet(scene), x \in Element, made \in Seq(Drawn) : EditFacts(b, old, x, made)
      BY <1>3, <2>2, EditIs
    <3>2. /\ scene' \in Seq(Element)
          /\ HandleChange(scene', HeldBack, made, { Edited(b, old, el) : el \in updates })
      BY <3>1 DEF EditFacts
    <3> QED BY <3>2, KnownReported DEF Ids
  <2>3. ASSUME NEW i \in DOMAIN scene, NEW b \in BOOLEAN, Erase(i, b) PROVE KnownOK'
    <3>1. PICK x \in ToSet(scene), els \in Seq(Element) : EraseFacts(x, els)
      BY <1>3, <2>3, EraseIs
    <3>2. /\ HandleChange(els, HeldBack, creates, updates)
          /\ \A el \in ToSet(els) : el \in ToSet(scene') \/ el.v = 0
      BY <3>1 DEF EraseFacts
    <3> QED BY <3>2, KnownReported DEF Ids
  <2>4. CASE Report
    <3>1. scene' = scene /\ HandleChange(scene, HeldBack, creates, updates)
      BY <2>4 DEF Report
    <3> QED BY <3>1, SceneElements, KnownReported DEF Ids
  <2> QED BY <1>3, <2>1, <2>2, <2>3, <2>4 DEF User
<1>4. CASE Leave
  BY <1>4 DEF Leave, KnownOK
<1>5. Server => UNCHANGED <<scene, known>>
  BY DEF Server, Create, Other, Serve
<1>6. ASSUME NEW f \in Flight, Flush(f) \/ Answer(f) \/ PostFails(f)
      PROVE  UNCHANGED <<scene, known>> \/ ApplyScene(scene')
  BY <1>6 DEF Flush, Answer, PostFails, ApplyScene
<1>7. ASSUME NEW e \in Elem, UploadLands(e) \/ UploadFails(e)
      PROVE  UNCHANGED <<scene, known>> \/ ApplyScene(scene')
  BY <1>7 DEF UploadLands, UploadFails, ApplyScene
<1>8. Receive \/ Connect \/ Close \/ HttpRead \/ HttpArrives =>
        UNCHANGED <<scene, known>> \/ ApplyScene(scene')
  BY DEF Receive, Connect, Close, HttpRead, HttpArrives, ApplyScene
<1>9. CASE UNCHANGED browserVars
  BY <1>1, <1>9 DEF browserVars
<1>10. CASE BrowserNext
  BY <1>1, <1>2, <1>3, <1>4, <1>5, <1>6, <1>7, <1>8, <1>10, Zenon DEF BrowserNext
<1> QED BY <1>9, <1>10

\* What handleChange leaves where it is, and where it puts an element that is new to it.
LEMMA CreatesStay ==
  ASSUME NEW els \in Seq(Element), NEW held, NEW made \in Seq(Drawn), NEW changed,
         HandleChange(els, held, made, changed), NEW x \in ToSet(made),
         \A y \in ToSet(els) : y.id = x.id /\ y.wbid = 0 /\ y.v # 0 => known[y.id] # Unknown
  PROVE  x \in ToSet(creates')
<1> DEFINE new == { el \in Fresh(els, held) : el.wbid = 0 }
<1>1. new \in SUBSET ToSet(els) /\ ToSet(els) \subseteq Element
  BY Members DEF Fresh
<1>2. new \subseteq Drawn
  BY <1>1 DEF Fresh, Element, Drawn
<1>3. creates' = SetCreates(made, els, new)
  BY DEF HandleChange
<1>4. \A y \in new : y.id # x.id
  BY DEF Fresh
<1> HIDE DEF new
<1> QED BY <1>1, <1>2, <1>3, <1>4, CreatesAfter

LEMMA UpdatesStay ==
  ASSUME NEW els, NEW held, NEW made, NEW changed, HandleChange(els, held, made, changed),
         NEW x \in changed, \A y \in Touched(els, held) : y.wbid # 0 => y.wbid # x.wbid
  PROVE  x \in updates'
BY DEF HandleChange, SetUpdates

LEMMA FreshWaits ==
  ASSUME NEW els \in Seq(Element), Distinct(els), NEW held, NEW made \in Seq(Drawn), NEW changed,
         HandleChange(els, held, made, changed),
         NEW x \in ToSet(els), x \in ToSet(scene'), x.v # 0, x.wbid = 0, known[x.id] = Unknown
  PROVE  Waits(x.id, x.v)'
<1> DEFINE new == { el \in Fresh(els, held) : el.wbid = 0 }
<1>1. CASE x.id \in held
  <2>1. known'[x.id] = Unknown
    BY <1>1, KnownAfter
  <2> QED BY <2>1 DEF Waits, Holds
<1>2. CASE x.id \notin held
  <2>1. new \in SUBSET ToSet(els) /\ ToSet(els) \subseteq Element
    BY Members DEF Fresh
  <2>2. new \subseteq Drawn
    BY <2>1 DEF Fresh, Element, Drawn
  <2>3. creates' = SetCreates(made, els, new)
    BY DEF HandleChange
  <2>4. x \in new
    BY <1>2 DEF Fresh
  <2> HIDE DEF new
  <2>5. x \in ToSet(creates')
    BY <2>1, <2>2, <2>3, <2>4, CreatesAfter
  <2> QED BY <2>5 DEF Waits, Holds
<1> QED BY <1>1, <1>2

-----------------------------------------------------------------------------
\* A step of the user, for an element that it is not about.
Aside(e, els, made, changed) ==
  /\ due'[e] = due[e]
  /\ \A el \in ToSet(els) : el.wbid # 0 /\ el.v # 0 => OwnIn(rows, el)
  /\ \A el : el.id = e => (el \in ToSet(scene) <=> el \in ToSet(scene'))
  /\ \A el : el.id = e => (el \in ToSet(scene) <=> el \in ToSet(els))
  /\ \A el \in ToSet(creates) : el.id = e => el \in ToSet(made)
  /\ \A el \in updates : el.id = e => el \in changed
  /\ \A f \in Flight : /\ flight'[f].stage = flight[f].stage /\ flight'[f].batch = flight[f].batch
                       /\ flight'[f].deletes = flight[f].deletes
                       /\ \A el \in flight[f].updates : el.id = e => el \in flight'[f].updates
  /\ rows' = rows /\ up' = up

LEMMA GoneAside ==
  ASSUME NEW e \in Elem, GoneOK(e), NEW els, NEW held, NEW made, NEW changed,
         HandleChange(els, held, made, changed), Aside(e, els, made, changed)
  PROVE  GoneOK(e)'
<1>1. deletes \subseteq deletes'
  BY DEF HandleChange
<1>2. \A w : Doomed(w) => Doomed(w)'
  BY <1>1 DEF Doomed, Aside
<1>3. \A f \in Flight : Posted(f)' = Posted(f)
  BY DEF Posted, Aside
<1> QED BY <1>2, <1>3 DEF GoneOK, Aside

LEMMA LateAside ==
  ASSUME BrowserTypeOK, TagsOK, UntoldOK, ~Doubled, NEW e \in Elem, LateOK(e),
         NEW els \in Seq(Element), Distinct(els), NEW held, NEW made \in Seq(Drawn), NEW changed,
         HandleChange(els, held, made, changed), Aside(e, els, made, changed)
  PROVE  LateOK(e)'
<1> SUFFICES ASSUME due[e] > 0 PROVE Dead(e)' \/ Waits(e, due[e])'
  BY DEF LateOK, Aside
<1>0. due'[e] = due[e]
  BY DEF Aside
<1>1. CASE Dead(e)
  BY <1>1 DEF Dead, Aside
<1> DEFINE v == due[e]
<1>2. CASE Holds(ToSet(creates), e, v)
  <2>1. PICK x \in ToSet(creates) : x.id = e /\ x.v = v
    BY <1>2 DEF Holds
  <2>2. e \in Asked /\ x \in ToSet(made)
    BY <2>1 DEF Asked, Ids, Aside
  <2>3. ASSUME NEW y \in ToSet(els), y.id = x.id, y.wbid = 0 PROVE known[y.id] # Unknown
    <3>1. y \in ToSet(scene)
      BY <2>1, <2>3 DEF Aside
    <3> QED BY <2>1, <2>2, <2>3, <3>1 DEF UntoldOK, Settled
  <2>4. x \in ToSet(creates')
    BY <2>2, <2>3, CreatesStay
  <2> QED BY <1>0, <2>1, <2>4 DEF Waits, Holds
<1>3. CASE Holds(updates, e, v)
  <2>1. PICK x \in updates : x.id = e /\ x.v = v
    BY <1>3 DEF Holds
  <2>2. x \in changed /\ x \in Waiting
    BY <2>1 DEF Aside, Waiting
  <2>3. x.wbid \in 1..Len(rows) /\ x.wbid # 0 /\ OwnIn(rows, x)
    BY <2>2, WaitingStored
  <2>4. ASSUME NEW y \in Touched(els, held), y.wbid # 0, y.wbid = x.wbid PROVE FALSE
    <3>1. y \in ToSet(els) /\ y.v # 0
      BY <2>4 DEF Touched
    <3>2. y.id = e
      BY <2>1, <2>3, <2>4, <3>1 DEF OwnIn, Aside
    <3>3. y \in ToSet(scene)
      BY <3>1, <3>2 DEF Aside
    <3> QED BY <2>4, <3>3, TouchedOnly
  <2>5. x \in updates'
    BY <2>2, <2>4, UpdatesStay
  <2> QED BY <1>0, <2>1, <2>5 DEF Waits, Holds
<1>4. CASE Holds(ToSet(up), e, v)
  BY <1>0, <1>4 DEF Waits, Aside
<1>5. ASSUME NEW f \in Flight, \/ Holds(flight[f].updates, e, v)
                               \/ flight[f].stage = "posted" /\ Holds(ToSet(flight[f].batch), e, v)
      PROVE  Waits(e, due[e])'
  <2>1. \/ Holds(flight'[f].updates, e, v)
        \/ flight'[f].stage = "posted" /\ Holds(ToSet(flight'[f].batch), e, v)
    BY <1>5 DEF Aside, Holds
  <2> QED BY <1>0, <2>1 DEF Waits
<1>6. CASE known[e] = Unknown /\ Holds(ToSet(scene), e, v)
  <2>1. PICK x \in ToSet(scene) : x.id = e /\ x.v = v
    BY <1>6 DEF Holds
  <2>2. x \in ToSet(els) /\ x \in ToSet(scene')
    BY <2>1 DEF Aside
  <2>3. x.v # 0 /\ Settled(x)
    BY <2>1, SceneElements DEF UntoldOK
  <2>4. x.wbid = 0
    BY <1>6, <2>1, <2>3, InfoKnown DEF Settled
  <2>5. Waits(x.id, x.v)'
    BY <1>6, <2>1, <2>2, <2>3, <2>4, FreshWaits
  <2> QED BY <1>0, <2>1, <2>5
<1> HIDE DEF v
<1>7. Dead(e) \/ Waits(e, v)
  BY DEF LateOK, v
<1>8. CASE Waits(e, v)
  BY <1>2, <1>3, <1>4, <1>5, <1>6, <1>8 DEF Waits
<1> QED BY <1>1, <1>7, <1>8

LEMMA DueAside ==
  ASSUME BrowserTypeOK, TagsOK, UntoldOK, ~Doubled, NEW e \in Elem, LateOK(e), GoneOK(e),
         NEW els \in Seq(Element), Distinct(els), NEW held, NEW made \in Seq(Drawn), NEW changed,
         HandleChange(els, held, made, changed), Aside(e, els, made, changed)
  PROVE  LateOK(e)' /\ GoneOK(e)'
BY GoneAside, LateAside

-----------------------------------------------------------------------------
LEMMA DueDraw ==
  ASSUME BrowserTypeOK, TagsOK, UntoldOK, KnownOK, DueOK, ~Doubled,
         NEW e \in Elem, NEW b \in BOOLEAN, Draw(e, b)
  PROVE  DueOK'
<1>1. PICK x \in Element, held \in SUBSET Elem : DrawFacts(e, x, held)
  BY DrawIs
<1>2. /\ x.id = e /\ x.v = edits + 1 /\ x.wbid = 0 /\ x.v # 0 /\ due[e] = Undrawn
      /\ scene' \in Seq(Element) /\ ToSet(scene') = ToSet(scene) \cup {x}
      /\ HandleChange(scene', held, creates, updates)
      /\ due' = [due EXCEPT ![e] = edits + 1]
      /\ rows' = rows /\ up' = up /\ flight' = flight
      /\ (\A el \in ToSet(scene) : el.id # e) => Distinct(scene')
  BY <1>1 DEF DrawFacts, netVars, Doubled
<1>3. due = [d \in Elem |-> due[d]] /\ edits \in Nat /\ creates \in Seq(Drawn)
  BY DEF BrowserTypeOK, CountsOK, PendOK
<1>4. \A el \in ToSet(scene) : el.id # e
  BY <1>2 DEF UntoldOK
<1>5. known[e] = Unknown
  BY <1>4 DEF KnownOK, Ids
<1>6. \A el \in ToSet(scene') : OwnIn(rows, el)
  BY <1>2 DEF OwnIn, TagsOK
<1>7. ASSUME NEW d \in Elem, d # e PROVE LateOK(d)' /\ GoneOK(d)'
  <2>1. Aside(d, scene', creates, updates)
    BY <1>2, <1>3, <1>6, <1>7 DEF Aside
  <2>2. LateOK(d) /\ GoneOK(d)
    BY DEF DueOK
  <2> QED BY <1>2, <1>3, <1>4, <2>1, <2>2, DueAside
<1>8. LateOK(e)' /\ GoneOK(e)'
  <2>1. due'[e] = x.v /\ due'[e] # Erased
    BY <1>2, <1>3 DEF Erased
  <2>2. Waits(x.id, x.v)'
    BY <1>2, <1>3, <1>4, <1>5, FreshWaits
  <2> QED BY <1>2, <2>1, <2>2 DEF LateOK, GoneOK
<1> QED BY <1>7, <1>8 DEF DueOK

LEMMA DueEdit ==
  ASSUME BrowserTypeOK, TagsOK, UntoldOK, NumbersOK, DueOK, ~Doubled,
         NEW i \in DOMAIN scene, NEW b \in BOOLEAN, Edit(i, b)
  PROVE  DueOK'
<1>1. PICK old \in ToSet(scene), x \in Element, made \in Seq(Drawn) : EditFacts(b, old, x, made)
  BY EditIs
<1> DEFINE changed == { Edited(b, old, el) : el \in updates }
<1>2. /\ x = [old EXCEPT !.v = edits + 1]
      /\ x.id = old.id /\ x.wbid = old.wbid /\ x.v = edits + 1 /\ x.v # 0
      /\ scene' \in Seq(Element) /\ ToSet(scene') = (ToSet(scene) \ {old}) \cup {x}
      /\ Distinct(scene') /\ rows' = rows /\ up' = up
      /\ ToSet(made) = { Edited(b, old, el) : el \in ToSet(creates) }
      /\ HandleChange(scene', HeldBack, made, changed)
  BY <1>1 DEF EditFacts, netVars
<1>3. \A f \in Flight : /\ flight'[f].stage = flight[f].stage /\ flight'[f].batch = flight[f].batch
                        /\ flight'[f].deletes = flight[f].deletes
                        /\ flight'[f].updates = { Edited(b, old, el) : el \in flight[f].updates }
  BY <1>1 DEF EditFacts
<1>4. /\ \A el \in Element : /\ el.id # old.id => Edited(b, old, el) = el
                             /\ b /\ el = old => Edited(b, old, el) = x
  <2>1. \A el \in Element : ~(b /\ el.id = old.id /\ el.v = old.v) => Edited(b, old, el) = el
    BY <1>1 DEF EditFacts
  <2>2. b => Edited(b, old, old) = x
    BY <1>2 DEF Edited, Renewed
  <2> QED BY <2>1, <2>2
<1>5. /\ due = [d \in Elem |-> due[d]] /\ edits \in Nat /\ old.id \in Elem /\ x.id \in Elem
      /\ creates \in Seq(Element) /\ ToSet(creates) \subseteq Drawn /\ ToSet(creates) \subseteq Element
      /\ updates \subseteq Element /\ \A f \in Flight : flight[f].updates \subseteq Element
  <2>1. ToSet(creates) \subseteq Drawn /\ ToSet(creates) \subseteq Element
    BY Lists, Members DEF BrowserTypeOK, PendOK
  <2>2. updates \subseteq Element /\ \A f \in Flight : flight[f].updates \subseteq Element
    <3>1. Outgoing \subseteq Element
      BY OutgoingElements, Lists, Wider
    <3> QED BY <3>1 DEF Outgoing
  <2> QED BY <1>2, <2>1, <2>2, Lists DEF BrowserTypeOK, CountsOK, Element
<1>6. due' = [due EXCEPT ![old.id] = IF \/ old.wbid # 0 \/ old.id \in Overtaken
                                        \/ b /\ old \in ToSet(creates) THEN edits + 1 ELSE 0]
  BY <1>1 DEF EditFacts
<1>7. \A el \in ToSet(scene') : OwnIn(rows, el)
  <2>1. OwnIn(rows, old)
    BY DEF TagsOK
  <2>2. OwnIn(rows, x)
    BY <1>2, <2>1 DEF OwnIn
  <2>3. \A el \in ToSet(scene) : OwnIn(rows, el)
    BY DEF TagsOK
  <2> QED BY <1>2, <2>2, <2>3
<1>8. \A el : el.id # old.id => (el \in ToSet(scene) <=> el \in ToSet(scene'))
  BY <1>2
<1>9. ASSUME NEW d \in Elem, d # old.id PROVE LateOK(d)' /\ GoneOK(d)'
  <2>1. /\ \A el \in ToSet(creates) : el.id = d => el \in ToSet(made)
        /\ \A el \in updates : el.id = d => el \in changed
    BY <1>2, <1>4, <1>5, <1>9
  <2>2. \A f \in Flight : \A el \in flight[f].updates : el.id = d => el \in flight'[f].updates
    BY <1>3, <1>4, <1>5, <1>9
  <2>3. due'[d] = due[d]
    BY <1>5, <1>6, <1>9
  <2> HIDE DEF changed
  <2>4. Aside(d, scene', made, changed)
    BY <1>2, <1>3, <1>7, <1>8, <1>9, <2>1, <2>2, <2>3 DEF Aside
  <2>5. LateOK(d) /\ GoneOK(d)
    BY DEF DueOK
  <2> QED BY <1>2, <2>4, <2>5, DueAside
<1>10. due'[old.id] = 0 \/ (due'[old.id] = x.v /\ Waits(old.id, x.v)')
  <2>1. CASE old.wbid # 0
    <3>1. x \in Touched(scene', HeldBack)
      BY <1>1, <1>2, <2>1, EditTouches
    <3> HIDE DEF changed
    <3>2. x \in updates'
      BY <1>2, <2>1, <3>1 DEF HandleChange, SetUpdates
    <3> QED BY <1>2, <1>5, <1>6, <2>1, <3>2 DEF Waits, Holds
  <2>2. CASE old.wbid = 0 /\ old.id \in Overtaken
    <3>1. known[x.id] = Unknown /\ x \in ToSet(scene')
      BY <1>2, <2>2 DEF Overtaken
    <3> HIDE DEF changed
    <3>2. Waits(x.id, x.v)'
      BY <1>2, <2>2, <3>1, FreshWaits
    <3> QED BY <1>2, <1>5, <1>6, <2>2, <3>2
  <2>3. CASE old.wbid = 0 /\ b /\ old \in ToSet(creates)
    <3>1. x \in ToSet(made)
      BY <1>2, <1>4, <1>5, <2>3
    <3>2. known[old.id] # Unknown
      <4>1. old.id \in Asked
        BY <2>3 DEF Asked, Ids
      <4> QED BY <2>3, <4>1 DEF UntoldOK, Settled
    <3> HIDE DEF changed
    <3>3. x \in ToSet(creates')
      BY <1>2, <3>1, <3>2, CreatesStay
    <3> QED BY <1>2, <1>5, <1>6, <2>3, <3>3 DEF Waits, Holds
  <2>4. CASE old.wbid = 0 /\ old.id \notin Overtaken /\ ~(b /\ old \in ToSet(creates))
    BY <1>5, <1>6, <2>4
  <2> QED BY <2>1, <2>2, <2>3, <2>4
<1>11. LateOK(old.id)' /\ GoneOK(old.id)'
  BY <1>2, <1>5, <1>10 DEF LateOK, GoneOK, Erased
<1> QED BY <1>9, <1>11 DEF DueOK

LEMMA DueErase ==
  ASSUME BrowserTypeOK, TagsOK, OnceOK, UntoldOK, DueOK, ~Doubled,
         NEW i \in DOMAIN scene, NEW b \in BOOLEAN, Erase(i, b)
  PROVE  DueOK'
<1>1. PICK x \in ToSet(scene), els \in Seq(Element) : EraseFacts(x, els)
  BY EraseIs
<1>2. /\ ToSet(scene') = ToSet(scene) \ {x}
      /\ \A el \in ToSet(scene') : el.id # x.id
      /\ Distinct(els) /\ ToSet(scene') \subseteq ToSet(els)
      /\ \A el \in ToSet(els) :
           el \in ToSet(scene') \/ (el.v = 0 /\ el.id = x.id /\ el.wbid = x.wbid)
      /\ HandleChange(els, HeldBack, creates, updates)
      /\ rows' = rows /\ up' = up /\ flight' = flight
  BY <1>1 DEF EraseFacts, netVars
<1>3. due' = [due EXCEPT ![x.id] =
                IF x.wbid = 0 /\ x.id \notin Ids(creates) \cup Overtaken THEN 0 ELSE Erased]
  BY <1>1 DEF EraseFacts
<1>4. /\ due = [d \in Elem |-> due[d]] /\ creates \in Seq(Drawn) /\ rows \in Seq(Element)
      /\ x.id \in Elem /\ x.v # 0 /\ Settled(x) /\ OwnIn(rows, x) /\ x.wbid \in 0..Len(rows)
      /\ Len(rows) \in Nat
  BY SceneElements, Lists DEF BrowserTypeOK, CountsOK, PendOK, Element, UntoldOK, TagsOK, Shown
<1>5. ASSUME NEW d \in Elem, d # x.id PROVE LateOK(d)' /\ GoneOK(d)'
  <2>1. \A el \in ToSet(els) : el.v # 0 => OwnIn(rows, el)
    BY <1>2 DEF TagsOK
  <2>2. due'[d] = due[d]
    BY <1>3, <1>4, <1>5
  <2>3. Aside(d, els, creates, updates)
    BY <1>2, <1>5, <2>1, <2>2 DEF Aside
  <2>4. LateOK(d) /\ GoneOK(d)
    BY DEF DueOK
  <2> QED BY <1>2, <1>4, <2>3, <2>4, DueAside
<1>6. ASSUME due'[x.id] = Erased
      PROVE  /\ \A w \in 1..Len(rows) : rows[w].id = x.id => w \in deletes'
             /\ \A f \in Flight : x.id \notin Posted(f)
  <2>1. CASE x.wbid # 0
    <3>1. known[x.id] = Info(x) /\ known[x.id].wbid = x.wbid
      BY <1>4, <2>1 DEF Settled, Info
    <3>2. known[x.id] # Unknown
      BY <1>4, <3>1, InfoKnown
    <3>3. x.id \in Gone(els)
      BY <1>2, <1>4, <3>2 DEF Gone
    <3>4. x.wbid \in deletes'
      BY <1>2, <2>1, <3>1, <3>3 DEF HandleChange
    <3>5. x.wbid \in 1..Len(rows) /\ rows[x.wbid].id = x.id
      BY <1>4, <2>1 DEF OwnIn
    <3>6. \A w \in 1..Len(rows) : rows[w].id = x.id => w = x.wbid
      BY <1>4, <3>5, Lists DEF OnceOK, Distinct
    <3>7. x.id \in Ids(rows)
      BY <1>4, <3>5, Members DEF Ids
    <3> QED BY <3>4, <3>6, <3>7 DEF OnceOK
  <2>2. CASE x.wbid = 0
    <3>1. x.id \in Ids(creates) \cup Overtaken
      BY <1>3, <1>4, <1>6, <2>2 DEF Erased
    <3>2. x.id \notin Ids(rows) /\ \A f \in Flight : x.id \notin Posted(f)
      <4>1. CASE x.id \in Ids(creates)
        BY <4>1 DEF OnceOK
      <4>2. CASE x.id \in Overtaken
        BY <1>4, <2>2, <4>2 DEF Overtaken, Settled, Asked
      <4> QED BY <3>1, <4>1, <4>2
    <3>3. \A w \in 1..Len(rows) : rows[w] \in ToSet(rows)
      BY <1>4, Members
    <3> QED BY <3>2, <3>3 DEF Ids
  <2> QED BY <2>1, <2>2
<1>7. LateOK(x.id)' /\ GoneOK(x.id)'
  <2>1. due'[x.id] \in {0, Erased} /\ ~(due'[x.id] > 0)
    BY <1>3, <1>4 DEF Erased
  <2>2. \A f \in Flight : Posted(f)' = Posted(f)
    BY <1>2 DEF Posted
  <2>3. GoneOK(x.id)'
    BY <1>2, <1>6, <2>2 DEF GoneOK, Doomed
  <2> QED BY <2>1, <2>3 DEF LateOK
<1> QED BY <1>5, <1>7 DEF DueOK

LEMMA DueUser ==
  ASSUME BrowserTypeOK, TagsOK, OnceOK, UntoldOK, NumbersOK, KnownOK, DueOK, ~Doubled, User
  PROVE  DueOK'
<1>1. CASE Report
  <2>1. /\ scene' = scene /\ HandleChange(scene, HeldBack, creates, updates)
        /\ rows' = rows /\ up' = up /\ flight' = flight /\ due' = due
    BY <1>1 DEF Report, netVars, historyVars
  <2>2. creates \in Seq(Drawn) /\ Distinct(scene)
    BY DEF BrowserTypeOK, PendOK, Doubled
  <2> SUFFICES ASSUME NEW e \in Elem PROVE LateOK(e)' /\ GoneOK(e)'
    BY DEF DueOK
  <2>3. Aside(e, scene, creates, updates)
    BY <2>1 DEF Aside, TagsOK
  <2>4. LateOK(e) /\ GoneOK(e)
    BY DEF DueOK
  <2> QED BY <2>1, <2>2, <2>3, <2>4, SceneElements, DueAside
<1> QED BY <1>1, DueDraw, DueEdit, DueErase DEF User

-----------------------------------------------------------------------------
\* What is sent of an element is on the socket now, or given up.
Forwards(e, changed, erased, lost) ==
  /\ due'[e] = due[e] /\ e \notin lost /\ ToSet(up) \subseteq ToSet(up')
  /\ \A el \in changed : el.id = e => el \in ToSet(up')
  /\ \A w \in erased : rows[w].id = e => \E el \in ToSet(up') : el.wbid = w /\ el.v = 0

LEMMA SentDue ==
  ASSUME BrowserTypeOK, NEW changed \in SUBSET Stored(Len(rows)), IsFiniteSet(changed),
         NEW erased \in SUBSET (1..Len(rows)), NEW lost, Send(changed, erased, lost),
         NEW e \in Elem, due'[e] # 0
  PROVE  Forwards(e, changed, erased, lost)
<1> DEFINE els == changed \cup { El(rows[w].id, 0, w) : w \in erased }
<1>1. /\ rows \in Seq(Row) /\ up \in Seq(Element) /\ ToSet(up) \subseteq Message(Len(rows))
      /\ due \in [Elem -> Int]
  BY DEF BrowserTypeOK, WireOK, CountsOK
<1>2. \/ ToSet(up') = ToSet(up) \cup els /\ due' = Dropped(lost)
      \/ up' = up /\ due' = Dropped(lost \cup { el.id : el \in els })
  BY <1>1, Sent
<1>3. \A w \in erased : \E el \in els : el.wbid = w /\ el.v = 0 /\ el.id = rows[w].id
  <2> SUFFICES ASSUME NEW w \in erased
               PROVE  \E el \in els : el.wbid = w /\ el.v = 0 /\ el.id = rows[w].id
    OBVIOUS
  <2> DEFINE x == El(rows[w].id, 0, w)
  <2>1. x \in els
    OBVIOUS
  <2>2. x.wbid = w /\ x.v = 0 /\ x.id = rows[w].id
    BY DEF El
  <2> HIDE DEF x, els
  <2> QED BY <2>1, <2>2
<1>4. changed \subseteq els
  OBVIOUS
<1> HIDE DEF els
<1>5. CASE ToSet(up') = ToSet(up) \cup els /\ due' = Dropped(lost)
  <2>1. due'[e] = due[e] /\ e \notin lost
    BY <1>5, DroppedIs
  <2> QED BY <1>3, <1>4, <1>5, <2>1 DEF Forwards
<1>6. CASE up' = up /\ due' = Dropped(lost \cup { el.id : el \in els })
  <2> DEFINE all == lost \cup { el.id : el \in els }
  <2>1. e \notin all /\ due'[e] = due[e]
    BY <1>6, DroppedIs
  <2>2. \A el \in els : el.id # e
    BY <2>1
  <2> QED BY <1>3, <1>4, <1>6, <2>1, <2>2 DEF Forwards
<1> QED BY <1>2, <1>5, <1>6

\* An edit that is given up owes nothing.
LEMMA DueNothing ==
  ASSUME NEW e, due'[e] = 0
  PROVE  LateOK(e)' /\ GoneOK(e)'
BY DEF LateOK, GoneOK, Erased

LEMMA DueFlush ==
  ASSUME BrowserTypeOK, TagsOK, OnceOK, DueOK, NEW f \in Flight, Flush(f)
  PROVE  DueOK'
<1> DEFINE batch == Only(creates, { el \in ToSet(creates) : el.id \in Ids(scene) })
           wiped == { e \in Ids(creates) \ Ids(scene) : due[e] # Erased }
           fl == [stage |-> "posted", batch |-> batch, reply |-> <<>>,
                  updates |-> updates, deletes |-> deletes]
<1>0. /\ creates \in Seq(Element) /\ flight = [g \in Flight |-> flight[g]]
      /\ updates \in SUBSET Stored(Len(rows)) /\ IsFiniteSet(updates)
      /\ deletes \in SUBSET (1..Len(rows))
  BY Lists DEF BrowserTypeOK, PendOK, FlightsOK
<1>1. /\ rows' = rows /\ scene' = scene /\ known' = known /\ flight[f].stage = "idle"
      /\ \/ batch = <<>> /\ Send(updates, deletes, wiped) /\ flight' = flight
         \/ flight' = [flight EXCEPT ![f] = fl] /\ due' = Dropped(wiped) /\ up' = up
  BY DEF Flush
<1>2. ToSet(batch) = { el \in ToSet(creates) : el.id \in Ids(scene) }
  BY <1>0, OnlyIsPart
<1>3. /\ fl.stage = "posted" /\ fl.batch = batch /\ fl.updates = updates /\ fl.deletes = deletes
  OBVIOUS
<1>4. flight[f].updates = {} /\ flight[f].deletes = {}
  BY <1>1 DEF BrowserTypeOK, FlightsOK, FlightOK, Landed
<1> HIDE DEF fl, batch
<1> SUFFICES ASSUME NEW e \in Elem, due'[e] # 0 PROVE LateOK(e)' /\ GoneOK(e)'
  BY DueNothing DEF DueOK
<1> DEFINE Stays == /\ ToSet(up) \subseteq ToSet(up')
                    /\ \A g \in Flight : g # f => flight'[g] = flight[g]
           Sends == /\ batch = <<>> /\ flight'[f] = flight[f]
                    /\ \A el \in updates : el.id = e => el \in ToSet(up')
                    /\ \A w \in deletes : rows[w].id = e =>
                         \E el \in ToSet(up') : el.wbid = w /\ el.v = 0
           Posts == flight'[f] = fl
<1>5. due'[e] = due[e] /\ e \notin wiped /\ Stays /\ (Sends \/ Posts)
  <2>1. CASE batch = <<>> /\ Send(updates, deletes, wiped) /\ flight' = flight
    <3> HIDE DEF wiped
    <3>1. Forwards(e, updates, deletes, wiped)
      BY <1>0, <2>1, SentDue
    <3> QED BY <2>1, <3>1 DEF Forwards
  <2>2. CASE flight' = [flight EXCEPT ![f] = fl] /\ due' = Dropped(wiped) /\ up' = up
    <3> HIDE DEF wiped
    <3>1. due'[e] = due[e] /\ e \notin wiped
      BY <2>2, DroppedIs
    <3> QED BY <1>0, <2>2, <3>1
  <2> QED BY <1>1, <2>1, <2>2
<1> HIDE DEF Stays, Sends, Posts
<1>6. LateOK(e) /\ GoneOK(e)
  BY DEF DueOK
<1>7. LateOK(e)'
  <2> SUFFICES ASSUME NEW v, v = due[e], v > 0 PROVE Dead(e)' \/ Waits(e, v)'
    BY <1>5 DEF LateOK
  <2>1. CASE Dead(e)
    BY <1>1, <2>1 DEF Dead
  <2>2. CASE Holds(ToSet(creates), e, v)
    <3>1. PICK x \in ToSet(creates) : x.id = e /\ x.v = v
      BY <2>2 DEF Holds
    <3>2. e \in Ids(scene)
      BY <1>5, <3>1 DEF Ids, Erased
    <3>3. x \in ToSet(batch)
      BY <1>2, <3>1, <3>2
    <3>4. Posts
      BY <1>5, <3>3, NoneSet DEF Sends
    <3> QED BY <1>3, <3>1, <3>3, <3>4 DEF Posts, Waits, Holds
  <2>3. CASE Holds(updates, e, v)
    <3>1. Holds(ToSet(up'), e, v) \/ Holds(flight'[f].updates, e, v)
      BY <1>3, <1>5, <2>3 DEF Sends, Posts, Holds
    <3> QED BY <3>1 DEF Waits
  <2>4. CASE Holds(ToSet(up), e, v)
    BY <1>5, <2>4 DEF Stays, Waits, Holds
  <2>5. ASSUME NEW g \in Flight, \/ Holds(flight[g].updates, e, v)
                                 \/ flight[g].stage = "posted" /\ Holds(ToSet(flight[g].batch), e, v)
        PROVE  Waits(e, v)'
    <3>1. g # f
      BY <1>1, <1>4, <2>5 DEF Holds
    <3>2. flight'[g] = flight[g]
      BY <1>5, <3>1 DEF Stays
    <3> QED BY <2>5, <3>2 DEF Waits
  <2>6. CASE known[e] = Unknown /\ Holds(ToSet(scene), e, v)
    BY <1>1, <2>6 DEF Waits
  <2>7. Dead(e) \/ Waits(e, v)
    BY <1>6 DEF LateOK
  <2>8. CASE Waits(e, v)
    BY <2>2, <2>3, <2>4, <2>5, <2>6, <2>8 DEF Waits
  <2> QED BY <2>1, <2>7, <2>8
<1>8. GoneOK(e)'
  <2> SUFFICES ASSUME due[e] = Erased
               PROVE  /\ \A w \in 1..Len(rows) : rows[w].id = e => Doomed(w)'
                      /\ \A g \in Flight : e \notin Posted(g)'
                      /\ \A el \in ToSet(scene) : el.id = e => el.wbid # 0
    BY <1>1, <1>5 DEF GoneOK
  <2>1. ASSUME NEW w \in 1..Len(rows), rows[w].id = e PROVE Doomed(w)'
    <3>1. Doomed(w)
      BY <1>6, <2>1 DEF GoneOK
    <3>2. CASE rows[w].v = 0
      BY <1>1, <3>2 DEF Doomed
    <3>3. CASE w \in deletes
      BY <1>3, <1>5, <2>1, <3>3 DEF Sends, Posts, Doomed
    <3>4. ASSUME NEW g \in Flight, w \in flight[g].deletes PROVE Doomed(w)'
      <4>1. g # f
        BY <1>4, <3>4
      <4> QED BY <1>5, <3>4, <4>1 DEF Stays, Doomed
    <3>5. ASSUME NEW el \in ToSet(up), el.wbid = w, el.v = 0 PROVE Doomed(w)'
      BY <1>5, <3>5 DEF Stays, Doomed
    <3> QED BY <3>1, <3>2, <3>3, <3>4, <3>5 DEF Doomed
  <2>2. \A el \in ToSet(scene) : el.id = e => el.wbid # 0
    BY <1>6 DEF GoneOK
  <2>3. e \notin Ids(batch)
    <3> SUFFICES ASSUME e \in Ids(batch) PROVE FALSE
      OBVIOUS
    <3>1. e \in Ids(creates) /\ e \in Ids(scene)
      BY <1>2 DEF Ids
    <3>2. PICK y \in ToSet(scene) : y.id = e
      BY <3>1 DEF Ids
    <3>3. y.wbid \in 0..Len(rows) /\ y.wbid # 0 /\ OwnIn(rows, y) /\ Len(rows) \in Nat
      BY <2>2, <3>2, SceneElements, Lists DEF TagsOK, Shown
    <3>4. e \in Ids(rows)
      BY <3>2, <3>3, OwnAsked
    <3> QED BY <3>1, <3>4 DEF OnceOK
  <2>4. \A g \in Flight : Posted(g)' = Posted(g) \/ Posted(g)' = Ids(batch)
    <3>1. Posted(f)' = Posted(f) \/ Posted(f)' = Ids(batch)
      BY <1>3, <1>5 DEF Sends, Posts, Posted
    <3>2. \A g \in Flight : g # f => Posted(g)' = Posted(g)
      BY <1>5 DEF Stays, Posted
    <3> QED BY <3>1, <3>2
  <2>5. \A g \in Flight : e \notin Posted(g)'
    BY <1>6, <2>3, <2>4 DEF GoneOK
  <2> QED BY <2>1, <2>2, <2>5
<1> QED BY <1>7, <1>8

-----------------------------------------------------------------------------
\* A flush ends: its updates and deletes are sent, its batch stored before or given up.
LEMMA DueLanding ==
  ASSUME BrowserTypeOK, BrowserTypeOK', TagsOK, OnceOK, DueOK,
         NEW f \in Flight, Answer(f) \/ PostFails(f)
  PROVE  DueOK'
<1> DEFINE c == flight[f].updates
           d == flight[f].deletes
<1>0. /\ flight = [g \in Flight |-> flight[g]]
      /\ c \in SUBSET Stored(Len(rows)) /\ IsFiniteSet(c) /\ d \in SUBSET (1..Len(rows))
  BY DEF BrowserTypeOK, FlightsOK, FlightOK
<1>1. /\ flight' = [flight EXCEPT ![f] = Landed] /\ rows' = rows
      /\ creates' = creates /\ updates' = updates /\ deletes' = deletes
  BY DEF Answer, PostFails, pendVars
<1>2. \E lost : /\ Send(c, d, lost)
                /\ UNCHANGED <<scene, known>> \/ Overtaken \subseteq lost
                /\ flight[f].stage = "posted" => Ids(flight[f].batch) \subseteq lost
  BY DEF Answer, PostFails
<1>3. PICK lost : /\ Send(c, d, lost)
                  /\ UNCHANGED <<scene, known>> \/ Overtaken \subseteq lost
                  /\ flight[f].stage = "posted" => Ids(flight[f].batch) \subseteq lost
  BY <1>2
<1> HIDE DEF c, d
<1>4. /\ \A g \in Flight : g # f => flight'[g] = flight[g]
      /\ flight'[f].stage = "idle"
  BY <1>0, <1>1 DEF Landed
<1>5. Quiet
  BY QuietLanding
<1> SUFFICES ASSUME NEW e \in Elem, due'[e] # 0 PROVE LateOK(e)' /\ GoneOK(e)'
  BY DueNothing DEF DueOK
<1>6. Forwards(e, c, d, lost)
  BY <1>0, <1>3, SentDue
<1>7. LateOK(e) /\ GoneOK(e)
  BY DEF DueOK
<1>8. LateOK(e)'
  <2> SUFFICES ASSUME NEW v, v = due[e], v > 0 PROVE Dead(e)' \/ Waits(e, v)'
    BY <1>6 DEF LateOK, Forwards
  <2>1. CASE Dead(e)
    BY <1>1, <2>1 DEF Dead
  <2>2. CASE Holds(ToSet(creates), e, v) \/ Holds(updates, e, v)
    BY <1>1, <2>2 DEF Waits
  <2>3. CASE Holds(ToSet(up), e, v)
    BY <1>6, <2>3 DEF Forwards, Waits, Holds
  <2>4. ASSUME NEW g \in Flight, g # f,
               \/ Holds(flight[g].updates, e, v)
               \/ flight[g].stage = "posted" /\ Holds(ToSet(flight[g].batch), e, v)
        PROVE  Waits(e, v)'
    BY <1>4, <2>4 DEF Waits
  <2>5. CASE Holds(flight[f].updates, e, v)
    BY <1>6, <2>5 DEF Forwards, Waits, Holds, c
  <2>6. CASE flight[f].stage = "posted" /\ Holds(ToSet(flight[f].batch), e, v)
    BY <1>3, <1>6, <2>6 DEF Forwards, Holds, Ids
  <2>7. CASE known[e] = Unknown /\ Holds(ToSet(scene), e, v)
    <3>1. e \in Overtaken
      BY <2>7 DEF Overtaken, Holds, Ids
    <3>2. UNCHANGED <<scene, known>>
      BY <1>3, <1>6, <3>1 DEF Forwards
    <3> QED BY <2>7, <3>2 DEF Waits
  <2>8. Dead(e) \/ Waits(e, v)
    BY <1>7 DEF LateOK
  <2>9. CASE Waits(e, v)
    BY <2>2, <2>3, <2>4, <2>5, <2>6, <2>7, <2>9 DEF Waits
  <2> QED BY <2>1, <2>8, <2>9
<1>9. GoneOK(e)'
  <2> SUFFICES ASSUME due[e] = Erased
               PROVE  /\ \A w \in 1..Len(rows) : rows[w].id = e => Doomed(w)'
                      /\ \A g \in Flight : e \notin Posted(g)'
                      /\ \A el \in ToSet(scene') : el.id = e => el.wbid # 0
    BY <1>1, <1>6 DEF GoneOK, Forwards
  <2>1. ASSUME NEW w \in 1..Len(rows), rows[w].id = e PROVE Doomed(w)'
    <3>1. Doomed(w)
      BY <1>7, <2>1 DEF GoneOK
    <3>2. CASE rows[w].v = 0 \/ w \in deletes
      BY <1>1, <3>2 DEF Doomed
    <3>3. ASSUME NEW g \in Flight, w \in flight[g].deletes PROVE Doomed(w)'
      <4>1. CASE g = f
        BY <1>6, <2>1, <3>3, <4>1 DEF Forwards, Doomed, d
      <4>2. CASE g # f
        BY <1>4, <3>3, <4>2 DEF Doomed
      <4> QED BY <4>1, <4>2
    <3>4. ASSUME NEW el \in ToSet(up), el.wbid = w, el.v = 0 PROVE Doomed(w)'
      BY <1>6, <3>4 DEF Forwards, Doomed
    <3> QED BY <3>1, <3>2, <3>3, <3>4 DEF Doomed
  <2>2. \A el \in ToSet(scene') : el.id = e => el.wbid # 0
    BY <1>5, <1>7 DEF GoneOK, Quiet
  <2>3. \A g \in Flight : Posted(g)' = {} \/ Posted(g)' = Posted(g)
    BY <1>4 DEF Posted
  <2>4. \A g \in Flight : e \notin Posted(g)'
    BY <1>7, <2>3 DEF GoneOK
  <2> QED BY <2>1, <2>2, <2>4
<1> QED BY <1>8, <1>9

\* What happens between two flushes: what is pending, on its way or held back stays where
\* it is, or its edit is given up.
Rests(e) ==
  /\ due'[e] = due[e] /\ rows' = rows /\ flight' = flight
  /\ creates' = creates \/ e \notin Ids(creates)
  /\ updates' = updates \/ \A el \in updates : el.id # e
  /\ deletes' = deletes \/ \A w \in deletes : rows[w].id # e
  /\ up' = up \/ e \notin Ids(up)
  /\ UNCHANGED <<scene, known>> \/ e \notin Overtaken

LEMMA DueRests ==
  ASSUME BrowserTypeOK, TagsOK, Quiet, NEW e \in Elem, LateOK(e), GoneOK(e), Rests(e)
  PROVE  LateOK(e)' /\ GoneOK(e)'
<1> USE DEF Rests
<1>1. LateOK(e)'
  <2> SUFFICES ASSUME NEW v, v = due[e], v > 0 PROVE Dead(e)' \/ Waits(e, v)'
    BY DEF LateOK
  <2>1. CASE Dead(e)
    BY <2>1 DEF Dead
  <2>2. CASE Holds(ToSet(creates), e, v)
    BY <2>2 DEF Waits, Holds, Ids
  <2>3. CASE Holds(updates, e, v)
    BY <2>3 DEF Waits, Holds
  <2>4. CASE Holds(ToSet(up), e, v)
    BY <2>4 DEF Waits, Holds, Ids
  <2>5. CASE \E f \in Flight : \/ Holds(flight[f].updates, e, v)
                               \/ flight[f].stage = "posted" /\ Holds(ToSet(flight[f].batch), e, v)
    BY <2>5 DEF Waits
  <2>6. CASE known[e] = Unknown /\ Holds(ToSet(scene), e, v)
    <3>1. e \in Overtaken
      BY <2>6 DEF Overtaken, Holds, Ids
    <3> QED BY <2>6, <3>1 DEF Waits
  <2>7. Dead(e) \/ Waits(e, v)
    BY DEF LateOK
  <2>8. CASE Waits(e, v)
    BY <2>2, <2>3, <2>4, <2>5, <2>6, <2>8 DEF Waits
  <2> QED BY <2>1, <2>7, <2>8
<1>2. GoneOK(e)'
  <2> SUFFICES ASSUME due[e] = Erased
               PROVE  /\ \A w \in 1..Len(rows) : rows[w].id = e => Doomed(w)'
                      /\ \A g \in Flight : e \notin Posted(g)'
                      /\ \A el \in ToSet(scene') : el.id = e => el.wbid # 0
    BY DEF GoneOK
  <2>1. ASSUME NEW w \in 1..Len(rows), rows[w].id = e PROVE Doomed(w)'
    <3>1. Doomed(w)
      BY <2>1 DEF GoneOK
    <3>2. CASE rows[w].v = 0 \/ w \in deletes \/ \E f \in Flight : w \in flight[f].deletes
      BY <2>1, <3>2 DEF Doomed
    <3>3. ASSUME NEW el \in ToSet(up), el.wbid = w, el.v = 0 PROVE Doomed(w)'
      <4>1. OwnIn(rows, el) /\ el.wbid # 0
        BY <3>3 DEF TagsOK, Outgoing
      <4>2. e \in Ids(up)
        BY <2>1, <3>3, <4>1 DEF OwnIn, Ids
      <4> QED BY <3>3, <4>2 DEF Doomed
    <3> QED BY <3>1, <3>2, <3>3 DEF Doomed
  <2>2. \A el \in ToSet(scene') : el.id = e => el.wbid # 0
    BY DEF GoneOK, Quiet
  <2>3. \A g \in Flight : e \notin Posted(g)'
    BY DEF GoneOK, Posted
  <2> QED BY <2>1, <2>2, <2>3
<1> QED BY <1>1, <1>2

LEMMA DueTold ==
  ASSUME BrowserTypeOK, BrowserTypeOK', TagsOK, OnceOK, DueOK,
         \/ \E e \in Elem : UploadLands(e) \/ UploadFails(e)
         \/ Receive \/ Connect \/ Close \/ HttpRead \/ HttpArrives \/ Leave
  PROVE  DueOK'
<1> SUFFICES ASSUME NEW e \in Elem, due'[e] # 0 PROVE LateOK(e)' /\ GoneOK(e)'
  BY DueNothing DEF DueOK
<1>1. Quiet /\ LateOK(e) /\ GoneOK(e)
  BY QuietTold DEF DueOK
<1>2. CASE (\E x \in Elem : UploadLands(x)) \/ Connect \/ HttpRead
  <2>1. UNCHANGED <<rows, flight, creates, updates, deletes, up, scene, known, due>>
    BY <1>2 DEF UploadLands, Connect, HttpRead, pendVars, netVars, historyVars
  <2>2. Rests(e)
    BY <2>1 DEF Rests
  <2> QED BY <1>1, <2>2, DueRests
<1>3. CASE (\E x \in Elem : UploadFails(x)) \/ Receive \/ HttpArrives
  <2>1. /\ UNCHANGED <<rows, flight, creates, updates, deletes, up>>
        /\ UNCHANGED <<scene, known, due>> \/ due' = Dropped(Overtaken)
    BY <1>3 DEF UploadFails, Receive, HttpArrives, pendVars, netVars
  <2>2. Rests(e)
    BY <2>1, DroppedIs DEF Rests
  <2> QED BY <1>1, <2>2, DueRests
<1>4. CASE Close
  <2>1. /\ UNCHANGED <<rows, flight, creates, updates, deletes, scene, known>>
        /\ due' = Dropped(Ids(up))
    BY <1>4 DEF Close, pendVars
  <2>2. Rests(e)
    BY <2>1, DroppedIs DEF Rests
  <2> QED BY <1>1, <2>2, DueRests
<1>5. CASE Leave
  <2> DEFINE ids == Ids(creates) \cup { el.id : el \in updates }
                     \cup { rows[w].id : w \in deletes } \cup Overtaken
  <2>1. UNCHANGED <<rows, flight, up>> /\ due' = Dropped(ids)
    BY <1>5 DEF Leave
  <2>2. due'[e] = due[e] /\ e \notin ids
    BY <2>1, DroppedIs
  <2>3. Rests(e)
    BY <2>1, <2>2 DEF Rests
  <2> QED BY <1>1, <2>3, DueRests
<1> QED BY <1>2, <1>3, <1>4, <1>5

-----------------------------------------------------------------------------
\* The server: what reaches a row is due no more, or the row is gone.
LEMMA DueCreate ==
  ASSUME BrowserTypeOK, OnceOK, DueOK, NEW f \in Flight, Create(f), ~skipped'
  PROVE  DueOK'
<1> DEFINE batch == flight[f].batch
           n == Len(rows)
<1>1. Kept(batch) = batch
  BY DEF Create
<1>2. /\ flight[f].stage = "posted" /\ rows' = rows \o batch
      /\ \E reply : flight' = [flight EXCEPT ![f].stage = "answered", ![f].reply = reply]
      /\ due' = Reached(batch)
      /\ UNCHANGED <<scene, known, creates, updates, deletes, up>>
  BY <1>1 DEF Create, pendVars
<1>3. /\ rows \in Seq(Row) /\ batch \in Seq(Drawn) /\ batch \in Seq(Element)
      /\ n \in Nat /\ Len(batch) \in Nat
  BY Lists DEF BrowserTypeOK
<1>4. /\ \A g \in Flight : g # f => flight'[g] = flight[g]
      /\ flight'[f].stage = "answered"
      /\ flight'[f].updates = flight[f].updates /\ flight'[f].deletes = flight[f].deletes
  <2>1. flight = [g \in Flight |-> flight[g]]
    BY DEF BrowserTypeOK, FlightsOK
  <2>2. PICK reply : flight' = [flight EXCEPT ![f].stage = "answered", ![f].reply = reply]
    BY <1>2
  <2> DEFINE fl == flight[f]
  <2>3. fl = [stage |-> fl.stage, batch |-> fl.batch, reply |-> fl.reply,
              updates |-> fl.updates, deletes |-> fl.deletes]
    BY DEF BrowserTypeOK, FlightsOK, FlightOK
  <2>4. flight'[f] = [[fl EXCEPT !.stage = "answered"] EXCEPT !.reply = reply]
    BY <2>1, <2>2
  <2>5. \A g \in Flight : g # f => flight'[g] = flight[g]
    BY <2>1, <2>2
  <2> HIDE DEF fl
  <2>6. /\ flight'[f].stage = "answered" /\ flight'[f].updates = fl.updates
        /\ flight'[f].deletes = fl.deletes
    BY <2>3, <2>4
  <2> QED BY <2>5, <2>6 DEF fl
<1> HIDE DEF batch
<1>5. /\ Len(rows') = n + Len(batch) /\ \A w \in 1..n : rows'[w] = rows[w]
      /\ \A k \in 1..Len(batch) : rows'[n + k] = batch[k]
  BY <1>2, <1>3, CreatedIs
<1> HIDE DEF n
<1> SUFFICES ASSUME NEW e \in Elem, due'[e] # 0 PROVE LateOK(e)' /\ GoneOK(e)'
  BY DueNothing DEF DueOK
<1>6. due'[e] = due[e] /\ ~Holds(ToSet(batch), e, due[e])
  BY <1>2, ReachedIs DEF Holds
<1>7. LateOK(e) /\ GoneOK(e)
  BY DEF DueOK
<1>8. LateOK(e)'
  <2> SUFFICES ASSUME NEW v, v = due[e], v > 0 PROVE Dead(e)' \/ Waits(e, v)'
    BY <1>6 DEF LateOK
  <2>1. CASE Dead(e)
    <3>1. PICK w \in 1..n : rows[w].id = e /\ rows[w].v = 0
      BY <2>1 DEF Dead, n
    <3>2. w \in 1..Len(rows') /\ rows'[w] = rows[w]
      BY <1>3, <1>5
    <3> QED BY <3>1, <3>2 DEF Dead
  <2>2. ASSUME NEW g \in Flight, \/ Holds(flight[g].updates, e, v)
                                 \/ flight[g].stage = "posted" /\ Holds(ToSet(flight[g].batch), e, v)
        PROVE  Waits(e, v)'
    <3>1. CASE g = f
      BY <1>4, <1>6, <2>2, <3>1 DEF Waits, batch
    <3>2. CASE g # f
      BY <1>4, <2>2, <3>2 DEF Waits
    <3> QED BY <3>1, <3>2
  <2>3. Dead(e) \/ Waits(e, v)
    BY <1>7 DEF LateOK
  <2>4. CASE Waits(e, v)
    BY <1>2, <2>2, <2>4 DEF Waits
  <2> QED BY <2>1, <2>3, <2>4
<1>9. GoneOK(e)'
  <2> SUFFICES ASSUME due[e] = Erased
               PROVE  /\ \A w \in 1..Len(rows') : rows'[w].id = e => Doomed(w)'
                      /\ \A g \in Flight : e \notin Posted(g)'
                      /\ \A el \in ToSet(scene) : el.id = e => el.wbid # 0
    BY <1>2, <1>6 DEF GoneOK
  <2>1. \A g \in Flight : e \notin Posted(g)
    BY <1>7 DEF GoneOK
  <2>2. ASSUME NEW w \in 1..Len(rows'), rows'[w].id = e PROVE Doomed(w)'
    <3>1. CASE w \in 1..n
      <4>1. rows'[w] = rows[w] /\ Doomed(w)
        BY <1>5, <1>7, <2>2, <3>1 DEF GoneOK, n
      <4>2. \A g \in Flight : flight'[g].deletes = flight[g].deletes
        BY <1>4
      <4> QED BY <1>2, <4>1, <4>2 DEF Doomed
    <3>2. CASE w \notin 1..n
      <4>1. w - n \in 1..Len(batch) /\ n + (w - n) = w
        BY <1>3, <1>5, <3>2
      <4>2. rows'[w] = batch[w - n] /\ batch[w - n] \in ToSet(batch)
        BY <1>3, <1>5, <4>1, Members
      <4>3. e \in Posted(f)
        BY <1>2, <2>2, <4>2 DEF Posted, Ids, batch
      <4> QED BY <2>1, <4>3
    <3> QED BY <3>1, <3>2
  <2>3. \A g \in Flight : Posted(g)' = {} \/ Posted(g)' = Posted(g)
    BY <1>4 DEF Posted
  <2>4. \A g \in Flight : e \notin Posted(g)'
    BY <2>1, <2>3
  <2>5. \A el \in ToSet(scene) : el.id = e => el.wbid # 0
    BY <1>7 DEF GoneOK
  <2> QED BY <2>2, <2>4, <2>5
<1> QED BY <1>8, <1>9

\* A row that is gone stays so.
LEMMA DueOther ==
  ASSUME BrowserTypeOK, DueOK, NEW x \in DOMAIN rows, NEW v \in Nat, Other(x, v)
  PROVE  DueOK'
<1>1. /\ rows[x].v # 0 /\ rows' = [rows EXCEPT ![x].v = v]
      /\ UNCHANGED <<scene, known, creates, updates, deletes, flight, up, due>>
  BY DEF Other, pendVars, historyVars
<1>2. rows \in Seq(Row) /\ x \in 1..Len(rows) /\ rows[x] \in Row
  BY Lists DEF BrowserTypeOK
<1>3. /\ Len(rows') = Len(rows)
      /\ \A w \in 1..Len(rows) : rows'[w].id = rows[w].id /\ (rows[w].v = 0 => rows'[w].v = 0)
  <2>1. [rows[x] EXCEPT !.v = v].id = rows[x].id
    BY <1>2 DEF Row
  <2> QED BY <1>1, <1>2, <2>1
<1> SUFFICES ASSUME NEW e \in Elem PROVE LateOK(e)' /\ GoneOK(e)'
  BY DEF DueOK
<1>4. LateOK(e) /\ GoneOK(e)
  BY DEF DueOK
<1>5. LateOK(e)'
  BY <1>1, <1>3, <1>4 DEF LateOK, Dead, Waits
<1>6. GoneOK(e)'
  <2>1. \A w \in 1..Len(rows) : Doomed(w) => Doomed(w)'
    BY <1>1, <1>3 DEF Doomed
  <2> QED BY <1>1, <1>3, <1>4, <2>1 DEF GoneOK, Posted
<1> QED BY <1>5, <1>6

LEMMA DueServe ==
  ASSUME BrowserTypeOK, TagsOK, DueOK, Serve
  PROVE  DueOK'
<1> DEFINE el == Head(up)
           r == IF el.v = 0 THEN [rows[el.wbid] EXCEPT !.v = 0] ELSE El(el.id, el.v, 0)
           gone == rows[el.wbid].v = 0
<1>1. /\ up # <<>> /\ up' = Tail(up)
      /\ \/ gone /\ rows' = rows /\ due' = due
         \/ ~gone /\ rows' = [rows EXCEPT ![el.wbid] = r] /\ due' = Reached(<<el>>)
      /\ UNCHANGED <<scene, known, creates, updates, deletes, flight>>
  BY DEF Serve, pendVars
<1>2. /\ up \in Seq(Element) /\ ToSet(up) \subseteq Message(Len(rows)) /\ rows \in Seq(Row)
      /\ Len(rows) \in Nat
  BY Lists DEF BrowserTypeOK, WireOK
<1>3. ToSet(up) = {el} \cup ToSet(up')
  BY <1>1, <1>2, TailSet
<1>4. el \in Element /\ el.wbid \in 1..Len(rows) /\ OwnIn(rows, el) /\ rows[el.wbid] \in Row
      /\ rows[el.wbid].id = el.id
  <2>1. el \in Message(Len(rows)) /\ el \in Element /\ OwnIn(rows, el)
    BY <1>1, <1>2, <1>3, TailSet DEF TagsOK, Outgoing
  <2>2. el.wbid \in 1..Len(rows)
    BY <2>1 DEF Message
  <2> QED BY <1>2, <2>1, <2>2 DEF OwnIn
<1>5. r.id = el.id /\ r.v = el.v
  BY <1>4 DEF Row, El
<1> HIDE DEF el, r
<1>6. ToSet(<<el>>) = {el}
  BY DEF ToSet
<1>7. /\ Len(rows') = Len(rows)
      /\ \A w \in 1..Len(rows) : rows'[w].id = rows[w].id /\ (rows[w].v = 0 => rows'[w].v = 0)
      /\ el.v = 0 => rows'[el.wbid].v = 0
  <2>1. CASE gone /\ rows' = rows
    BY <1>4, <2>1
  <2>2. CASE rows' = [rows EXCEPT ![el.wbid] = r] /\ ~gone
    BY <1>2, <1>4, <1>5, <2>2, SMTT(20)
  <2> QED BY <1>1, <2>1, <2>2
<1> SUFFICES ASSUME NEW e \in Elem, due'[e] # 0 PROVE LateOK(e)' /\ GoneOK(e)'
  BY DueNothing DEF DueOK
<1>8. due'[e] = due[e] /\ (~gone => ~(el.id = e /\ el.v = due[e]))
  BY <1>1, <1>6, ReachedIs
<1>9. LateOK(e) /\ GoneOK(e)
  BY DEF DueOK
<1>10. LateOK(e)'
  <2> SUFFICES ASSUME NEW v, v = due[e], v > 0 PROVE Dead(e)' \/ Waits(e, v)'
    BY <1>8 DEF LateOK
  <2>1. CASE Dead(e)
    BY <1>7, <2>1 DEF Dead
  <2>2. CASE Holds(ToSet(up), e, v)
    <3>1. CASE el.id = e /\ el.v = v
      <4>1. gone
        BY <1>8, <3>1
      <4> QED BY <1>4, <1>7, <3>1, <4>1 DEF Dead
    <3>2. CASE ~(el.id = e /\ el.v = v)
      BY <1>3, <2>2, <3>2 DEF Waits, Holds
    <3> QED BY <3>1, <3>2
  <2>3. Dead(e) \/ Waits(e, v)
    BY <1>9 DEF LateOK
  <2>4. CASE Waits(e, v)
    BY <1>1, <2>2, <2>4 DEF Waits
  <2> QED BY <2>1, <2>3, <2>4
<1>11. GoneOK(e)'
  <2>1. ASSUME NEW w \in 1..Len(rows), Doomed(w) PROVE Doomed(w)'
    BY <1>1, <1>3, <1>7, <2>1 DEF Doomed
  <2> QED BY <1>1, <1>7, <1>8, <1>9, <2>1 DEF GoneOK, Posted
<1> QED BY <1>10, <1>11

-----------------------------------------------------------------------------
LEMMA DueStep ==
  BrowserTypeOK /\ BrowserTypeOK' /\ CleanInvariant /\ OrderInvariant /\ KnownOK /\ DueInvariant
    /\ [BrowserNext]_browserVars => DueInvariant'
<1> SUFFICES ASSUME BrowserTypeOK, BrowserTypeOK', CleanInvariant, OrderInvariant, KnownOK,
                    DueInvariant, [BrowserNext]_browserVars, ~skipped'
             PROVE  DueOK'
  BY DEF DueInvariant
<1>1. ~skipped
  BY HistoryStays
<1>2. TagsOK /\ OnceOK /\ UntoldOK /\ NumbersOK /\ DueOK
  BY <1>1 DEF CleanInvariant, OrderInvariant, DueInvariant
<1>3. CASE UNCHANGED browserVars
  <2>1. UNCHANGED <<scene, known, creates, updates, deletes, flight, rows, up, due>>
    BY <1>3 DEF browserVars, pendVars, netVars, historyVars
  <2> QED BY <1>2, <2>1 DEF DueOK, LateOK, GoneOK, Dead, Doomed, Waits, Posted
<1>4. CASE BrowserNext
  <2>1. User /\ ~Doubled => DueOK'
    BY <1>2, DueUser
  <2>2. \A f \in Flight : Flush(f) \/ Answer(f) \/ PostFails(f) => DueOK'
    BY <1>2, DueFlush, DueLanding
  <2>3. Server => DueOK'
    <3>1. ASSUME NEW w \in DOMAIN rows, Other(w, 0) \/ Other(w, MaxEdits + others + 1)
          PROVE  DueOK'
      <4>1. 0 \in Nat /\ MaxEdits + others + 1 \in Nat
        BY BrowserAssumption DEF BrowserTypeOK, CountsOK
      <4> QED BY <1>2, <3>1, <4>1, DueOther
    <3> QED BY <1>2, <3>1, DueCreate, DueServe DEF Server
  <2>4. (\E e \in Elem : UploadLands(e) \/ UploadFails(e))
          \/ Receive \/ Connect \/ Close \/ HttpRead \/ HttpArrives \/ Leave => DueOK'
    BY <1>2, DueTold
  <2> QED BY <1>4, <2>1, <2>2, <2>3, <2>4 DEF BrowserNext
<1> QED BY <1>3, <1>4

LEMMA DueInit == BrowserInit => DueInvariant /\ KnownOK
<1> SUFFICES ASSUME BrowserInit PROVE DueInvariant /\ KnownOK
  OBVIOUS
<1>1. \A e \in Elem : due[e] = Undrawn /\ known[e] = Unknown
  BY DEF BrowserInit
<1> QED BY <1>1 DEF DueInvariant, DueOK, LateOK, GoneOK, KnownOK, Undrawn, Erased

\* At rest no edit waits anywhere, and no deletion.
LEMMA RestIsEmpty ==
  ASSUME BrowserTypeOK, AtRest
  PROVE  /\ \A e \in Elem : \A v : ~Waits(e, v)
         /\ \A w : Doomed(w) => rows[w].v = 0
<1>1. /\ creates = <<>> /\ updates = {} /\ deletes = {} /\ up = <<>>
      /\ \A f \in Flight : flight[f] = Landed
  BY DEF BrowserTypeOK, PendOK, FlightsOK, FlightOK, AtRest
<1>2. \A f \in Flight : flight[f].stage = "idle" /\ flight[f].updates = {} /\ flight[f].deletes = {}
  BY <1>1 DEF Landed
<1>3. \A el \in ToSet(scene) : known[el.id] # Unknown
  BY DEF AtRest, Overtaken, Ids
<1>4. ToSet(creates) = {} /\ ToSet(up) = {}
  BY <1>1, NoneSet
<1> QED BY <1>1, <1>2, <1>3, <1>4 DEF Waits, Holds, Doomed

\* No edit is lost but where the code gives it up (flush, CanvasView.tsx:168-198; "items
\* queued mid-flush aren't lost", CHANGES.md:110-111), whatever is drawn, edited, erased,
\* answered, refused or told in between: an edit that is due is pending, posted, or on the
\* socket, so that with nothing of it left there it has reached its row.
THEOREM OnlyKnownLosses == BrowserSpec => []NothingElseIsLost
<1>1. BrowserTypeOK /\ DueInvariant => NothingElseIsLost
  <2> SUFFICES ASSUME BrowserTypeOK, DueOK, AtRest, NEW e \in Elem
               PROVE  /\ due[e] > 0 => \E w \in DOMAIN rows : rows[w].id = e /\ rows[w].v = 0
                      /\ due[e] = Erased => \A w \in DOMAIN rows : rows[w].id = e => rows[w].v = 0
    BY DEF NothingElseIsLost, DueInvariant
  <2>1. LateOK(e) /\ GoneOK(e) /\ DOMAIN rows = 1..Len(rows)
    BY Lists DEF DueOK
  <2>2. ~Waits(e, due[e]) /\ \A w : Doomed(w) => rows[w].v = 0
    BY RestIsEmpty
  <2> QED BY <2>1, <2>2 DEF LateOK, GoneOK, Dead
<1> QED
  BY <1>1, TypesInit, TypesStep, EchoInit, EchoStep, CleanInit, CleanStep, OrderInit, OrderStep,
     KnownStep, DueInit, DueStep, PTL
     DEF BrowserSpec
=============================================================================
