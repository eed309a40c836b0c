-------------------------- MODULE CanvasOrderProofs --------------------------
(***************************************************************************)
(* For any canvases, users, elements, connections and requests and any     *)
(* bounds: what was neither lost nor sent out of order, every browser      *)
(* shows (ConvergesInOrder of CanvasLive).  The invariant follows each     *)
(* frame from the commit to the screen.                                    *)
(***************************************************************************)
EXTENDS CanvasLiveProofs

USE ConstantsAssumption DEF Task

\* Commit m is the newest of element e in S.
Newest(S, e, m) == m \in S /\ m.e = e /\ \A y \in S : y.e = e => y.n <= m.n

\* The number that a frame of the commits cs has for e, 0 if none.
Pick(cs, e) == IF \E m \in cs : m.e = e THEN (CHOOSE m \in cs : m.e = e).n ELSE 0

\* A browser of canvas cv that knows the commits S should show v for e.
Right(S, cv, e, v) ==
  \/ v = 0 /\ \A m \in S : m.e = e => m.cv # cv
  \/ \E m \in S : /\ Newest(S, e, m) /\ m.cv = cv
                  /\ v = IF m.op = "delete" THEN 0 ELSE m.n

-----------------------------------------------------------------------------
(* A browser that shows w for e and has yet to read the frames of q.        *)

\* The frames after the s-th that are about e.
Mentions(q, e, s) == { i \in DOMAIN q : i > s /\ \E m \in q[i].cs : m.e = e }

\* What an op makes of e.
Says(f, e) == IF f.op = "delete" THEN 0 ELSE Pick(f.cs, e)

\* What the ops after the s-th frame, a snapshot or nothing at all, start from.
From(q, w, e, s) == IF s = 0 THEN w ELSE Pick(q[s].cs, e)

\* The last op about e, or what there was before any, is right for whoever knows
\* S; a bulk insert, which the browser skips when it has the element, is the first.
Stage(q, w, S, cv, e, s) ==
  /\ s > 0 => q[s].op = "snapshot"
  /\ \A i \in DOMAIN q : i > s => q[i].op # "snapshot"
  /\ Mentions(q, e, s) = {} => Right(S, cv, e, From(q, w, e, s))
  /\ \A i \in Mentions(q, e, s) :
       /\ (\A j \in Mentions(q, e, s) : j <= i) => Right(S, cv, e, Says(q[i], e))
       /\ q[i].op = "add_bulk" =>
            /\ \A j \in Mentions(q, e, s) : j >= i
            /\ From(q, w, e, s) \in {0, Says(q[i], e)}

Shows(q, w, S, cv, e) == \E s \in 0..Len(q) : Stage(q, w, S, cv, e, s)

\* Commits about other elements make no difference.
LEMMA RightElsewhere ==
  ASSUME NEW S, NEW cs, NEW cv, NEW e, NEW v, \A m \in cs : m.e # e, Right(S, cv, e, v)
  PROVE  Right(S \cup cs, cv, e, v)
BY DEF Right, Newest

LEMMA PickOnly ==
  ASSUME NEW cs, NEW m \in cs, \A y \in cs : y.e = m.e => y = m
  PROVE  Pick(cs, m.e) = m.n
BY DEF Pick

\* Ops that overtake nothing are shown in their turn.
LEMMA AppendOp ==
  ASSUME NEW q \in Seq(Frame), NEW w \in Nat, NEW S \in SUBSET Commit, NEW G \in SUBSET S,
         NEW cv, NEW e, NEW op \in Op, NEW cs \in SUBSET Commit,
         \A i \in DOMAIN q : q[i].op # "snapshot" => q[i].cs \subseteq G,
         G \cap cs = {},
         \A x, y \in S \cup cs : x.n = y.n => x = y,
         \A x \in cs : x.op = op,
         \A x, y \in cs : x.e = y.e => x = y,
         \A x \in cs, y \in S : x.e = e /\ y.e = e => y.n <= x.n,
         op = "add_bulk" => \A x \in cs, y \in S : x.e = e /\ y.e = e => x.n <= y.n,
         \A x \in cs : x.e = e => x.cv = cv,
         Shows(q, w, S, cv, e)
  PROVE  Shows(Append(q, [op |-> op, cs |-> cs]), w, S \cup cs, cv, e)
<1> DEFINE f == [op |-> op, cs |-> cs]
           p == Append(q, f)
           n == Len(q) + 1
           T == S \cup cs
<1>1. /\ n \in Nat \ {0} /\ Len(p) = n /\ DOMAIN p = 1..n /\ DOMAIN q = 1..(n - 1) /\ p[n] = f
      /\ \A i \in 1..(n - 1) : p[i] = q[i]
  OBVIOUS
<1>2. PICK s \in 0..Len(q) : Stage(q, w, S, cv, e, s)
  BY DEF Shows
<1> HIDE DEF p, n
<1>3. /\ s \in 0..(n - 1) /\ s \in 0..n /\ From(p, w, e, s) = From(q, w, e, s)
      /\ s > 0 => p[s].op = "snapshot"
      /\ \A i \in DOMAIN p : i > s => p[i].op # "snapshot"
  BY <1>1, <1>2 DEF Stage, From, n, Op
<1>4. CASE \A m \in cs : m.e # e
  <2>1. Mentions(p, e, s) = Mentions(q, e, s)
    BY <1>1, <1>3, <1>4 DEF Mentions
  <2>2. \A i \in Mentions(q, e, s) : p[i] = q[i]
    BY <1>1 DEF Mentions
  <2>3. Stage(p, w, T, cv, e, s)
    BY <1>2, <1>3, <1>4, <2>1, <2>2, RightElsewhere DEF Stage
  <2> QED
    BY <1>1, <1>3, <2>3 DEF Shows, p
<1>5. CASE \E m \in cs : m.e = e
  <2>1. PICK m \in cs : m.e = e
    BY <1>5
  <2>2. Mentions(p, e, s) = Mentions(q, e, s) \cup {n}
    BY <1>1, <1>3, <2>1 DEF Mentions
  <2>3. \A i \in Mentions(q, e, s) : i \in 1..(n - 1) /\ p[i] = q[i]
    BY <1>1 DEF Mentions
  <2>4. Says(p[n], e) = IF m.op = "delete" THEN 0 ELSE m.n
    BY <1>1, <2>1, PickOnly DEF Says
  <2>5. Newest(T, e, m)
    BY <2>1 DEF Newest, Commit
  <2>6. Right(T, cv, e, Says(p[n], e))
    BY <2>1, <2>4, <2>5 DEF Right
  <2>7. ASSUME op = "add_bulk"
        PROVE  Mentions(q, e, s) = {} /\ From(q, w, e, s) \in {0, Says(p[n], e)}
    <3>1. \A y \in S : y.e = e => y = m
      <4> SUFFICES ASSUME NEW y \in S, y.e = e PROVE y = m
        OBVIOUS
      <4>1. y.n <= m.n /\ m.n <= y.n
        BY <2>1, <2>7
      <4>2. y.n \in Nat /\ m.n \in Nat
        BY DEF Commit
      <4> QED
        BY <4>1, <4>2
    <3>2. Mentions(q, e, s) = {}
      <4> SUFFICES ASSUME NEW i \in Mentions(q, e, s) PROVE FALSE
        OBVIOUS
      <4>1. i \in DOMAIN q /\ i > s
        BY DEF Mentions
      <4>2. PICK y \in q[i].cs : y.e = e
        BY DEF Mentions
      <4>3. y \in G
        BY <1>2, <4>1, <4>2 DEF Stage
      <4> QED
        BY <2>1, <3>1, <4>2, <4>3
    <3>3. Right(S, cv, e, From(q, w, e, s))
      BY <1>2, <3>2 DEF Stage
    <3> QED
      BY <2>1, <2>4, <2>7, <3>1, <3>2, <3>3 DEF Right, Newest
  <2>8. \A i \in Mentions(p, e, s) : (\A j \in Mentions(p, e, s) : j <= i) => i = n
    BY <1>1, <2>2, <2>3
  <2>9. ASSUME NEW i \in Mentions(p, e, s), p[i].op = "add_bulk"
        PROVE  /\ \A j \in Mentions(p, e, s) : j >= i
               /\ From(p, w, e, s) \in {0, Says(p[i], e)}
    <3>1. CASE i = n
      BY <1>1, <1>3, <2>2, <2>7, <2>9, <3>1
    <3>2. CASE i # n
      BY <1>1, <1>2, <1>3, <2>2, <2>3, <2>9, <3>2 DEF Stage
    <3> QED
      BY <3>1, <3>2
  <2>10. Stage(p, w, T, cv, e, s)
    BY <1>3, <2>2, <2>6, <2>8, <2>9 DEF Stage
  <2> QED
    BY <1>1, <1>3, <2>10 DEF Shows, p
<1> QED
  BY <1>4, <1>5

\* A snapshot starts afresh.
LEMMA AppendSnapshot ==
  ASSUME NEW q \in Seq(Frame), NEW w, NEW S, NEW cv, NEW e, NEW f \in Frame,
         f.op = "snapshot", Right(S, cv, e, Pick(f.cs, e))
  PROVE  Shows(Append(q, f), w, S, cv, e)
<1> DEFINE p == Append(q, f)
           n == Len(q) + 1
<1>1. n \in Nat \ {0} /\ Len(p) = n /\ DOMAIN p = 1..n /\ p[n] = f
  OBVIOUS
<1> HIDE DEF p, n
<1>2. Mentions(p, e, n) = {}
  BY <1>1 DEF Mentions
<1>3. From(p, w, e, n) = Pick(f.cs, e)
  BY <1>1 DEF From
<1>4. Stage(p, w, S, cv, e, n)
  BY <1>1, <1>2, <1>3 DEF Stage
<1> QED
  BY <1>1, <1>4 DEF Shows, p

\* A frame that is read changes e as it says.
LEMMA ShownSays ==
  ASSUME NEW v \in [Elem -> Nat], NEW e \in Elem, NEW f \in Frame
  PROVE  /\ f.op = "snapshot" => Shown(v, f)[e] = Pick(f.cs, e)
         /\ f.op # "snapshot" /\ (\A m \in f.cs : m.e # e) => Shown(v, f)[e] = v[e]
         /\ /\ f.op # "snapshot" /\ \E m \in f.cs : m.e = e
            /\ f.op = "add_bulk" => v[e] \in {0, Says(f, e)}
            => Shown(v, f)[e] = Says(f, e)
<1>1. CASE f.op = "snapshot"
  BY <1>1 DEF Shown, Pick
<1>2. CASE f.op = "delete"
  BY <1>2 DEF Shown, Says
<1>3. CASE f.op = "add_bulk"
  BY <1>3 DEF Shown, Says, Pick
<1>4. CASE f.op \notin {"snapshot", "delete", "add_bulk"}
  BY <1>4 DEF Shown, Says, Pick
<1> QED
  BY <1>1, <1>2, <1>3, <1>4

\* Reading the next frame keeps the rest in turn.
LEMMA ReadNext ==
  ASSUME NEW q \in Seq(Frame), q # <<>>, NEW v \in [Elem -> Nat], NEW S, NEW cv, NEW e \in Elem,
         Shows(q, v[e], S, cv, e)
  PROVE  Shows(Tail(q), Shown(v, Head(q))[e], S, cv, e)
<1> DEFINE p == Tail(q)
           n == Len(q)
           x == Shown(v, Head(q))[e]
<1>1. /\ n \in Nat \ {0} /\ Len(p) = n - 1 /\ DOMAIN p = 1..(n - 1) /\ DOMAIN q = 1..n
      /\ Head(q) = q[1] /\ q[1] \in Frame
      /\ \A i \in 1..(n - 1) : p[i] = q[i + 1]
  OBVIOUS
<1>2. PICK s \in 0..n : Stage(q, v[e], S, cv, e, s)
  BY DEF Shows
<1> HIDE DEF p, n, x
<1> DEFINE k == IF s = 0 THEN 0 ELSE s - 1
<1>3. \A i \in Nat : i \in Mentions(p, e, k) <=> i + 1 \in Mentions(q, e, s) /\ i > 0
  BY <1>1, <1>2 DEF Mentions
<1>4. /\ k \in 0..(n - 1)
      /\ k > 0 => p[k].op = "snapshot"
      /\ \A i \in DOMAIN p : i > k => p[i].op # "snapshot"
  <2>1. k \in 0..(n - 1) /\ (k > 0 => s > 0 /\ k + 1 = s)
    BY <1>1
  <2>2. k > 0 => p[k] = q[s]
    BY <1>1, <2>1
  <2>3. ASSUME NEW i \in DOMAIN p, i > k PROVE p[i] = q[i + 1] /\ i + 1 \in DOMAIN q /\ i + 1 > s
    BY <1>1, <2>3
  <2> QED
    BY <1>2, <2>1, <2>2, <2>3 DEF Stage
<1>5. \A i \in Mentions(p, e, k) : i \in 1..(n - 1) /\ p[i] = q[i + 1]
  BY <1>1 DEF Mentions
<1>6. \A i \in Mentions(q, e, s) : i \in 1..n
  BY <1>1 DEF Mentions
<1>7. \A i \in Mentions(p, e, k) :
        (\A j \in Mentions(p, e, k) : j <= i) => Right(S, cv, e, Says(p[i], e))
  <2> SUFFICES ASSUME NEW i \in Mentions(p, e, k), \A j \in Mentions(p, e, k) : j <= i
               PROVE  Right(S, cv, e, Says(p[i], e))
    OBVIOUS
  <2>1. i + 1 \in Mentions(q, e, s)
    BY <1>3, <1>5
  <2>2. ASSUME NEW j \in Mentions(q, e, s) PROVE j <= i + 1
    <3>1. j \in 1..n /\ i \in 1..(n - 1)
      BY <1>5, <1>6
    <3>2. CASE j = 1
      BY <3>1, <3>2, <1>1
    <3>3. CASE j # 1
      <4>1. j - 1 \in Mentions(p, e, k)
        BY <1>1, <1>3, <3>1, <3>3
      <4> QED
        BY <3>1, <4>1, <1>1
    <3> QED
      BY <3>2, <3>3
  <2> QED
    BY <1>2, <1>5, <2>1, <2>2 DEF Stage
<1>8. CASE s > 0
  <2>1. From(p, x, e, k) = From(q, v[e], e, s)
    <3>1. CASE s = 1
      BY <1>1, <1>2, <3>1, ShownSays DEF From, Stage, x
    <3>2. CASE s # 1
      BY <1>1, <1>2, <1>8, <3>2 DEF From
    <3> QED
      BY <3>1, <3>2
  <2>2. \A i \in Mentions(q, e, s) : i - 1 \in Mentions(p, e, k)
    BY <1>2, <1>3, <1>6, <1>8 DEF Mentions
  <2>3. Mentions(p, e, k) = {} => Mentions(q, e, s) = {}
    BY <2>2
  <2>4. ASSUME NEW i \in Mentions(p, e, k), p[i].op = "add_bulk"
        PROVE  (\A j \in Mentions(p, e, k) : j >= i) /\ From(p, x, e, k) \in {0, Says(p[i], e)}
    <3>1. i + 1 \in Mentions(q, e, s) /\ q[i + 1].op = "add_bulk"
      BY <1>3, <1>5, <2>4
    <3>2. ASSUME NEW j \in Mentions(p, e, k) PROVE j >= i
      <4>1. j + 1 \in Mentions(q, e, s)
        BY <1>3, <1>5
      <4>2. j + 1 >= i + 1
        BY <1>2, <3>1, <4>1 DEF Stage
      <4> QED
        BY <1>1, <1>5, <4>2
    <3> QED
      BY <1>2, <1>5, <2>1, <3>1, <3>2 DEF Stage
  <2>5. Stage(p, x, S, cv, e, k)
    BY <1>2, <1>4, <1>7, <2>1, <2>3, <2>4 DEF Stage
  <2> QED
    BY <1>1, <1>4, <2>5 DEF Shows, p, x
<1>9. CASE s = 0 /\ 1 \notin Mentions(q, e, s)
  <2>1. x = v[e]
    BY <1>1, <1>2, <1>9, ShownSays DEF Stage, Mentions, x
  <2>2. From(p, x, e, k) = From(q, v[e], e, s)
    BY <1>9, <2>1 DEF From
  <2>3. \A i \in Mentions(q, e, s) : i - 1 \in Mentions(p, e, k)
    BY <1>1, <1>3, <1>6, <1>9
  <2>4. Mentions(p, e, k) = {} => Mentions(q, e, s) = {}
    BY <2>3
  <2>5. ASSUME NEW i \in Mentions(p, e, k), p[i].op = "add_bulk"
        PROVE  (\A j \in Mentions(p, e, k) : j >= i) /\ From(p, x, e, k) \in {0, Says(p[i], e)}
    <3>1. i + 1 \in Mentions(q, e, s) /\ q[i + 1].op = "add_bulk"
      BY <1>3, <1>5, <2>5
    <3>2. ASSUME NEW j \in Mentions(p, e, k) PROVE j >= i
      <4>1. j + 1 \in Mentions(q, e, s)
        BY <1>3, <1>5
      <4>2. j + 1 >= i + 1
        BY <1>2, <3>1, <4>1 DEF Stage
      <4> QED
        BY <1>1, <1>5, <4>2
    <3> QED
      BY <1>2, <1>5, <2>2, <3>1, <3>2 DEF Stage
  <2>6. Stage(p, x, S, cv, e, k)
    BY <1>2, <1>4, <1>7, <2>2, <2>4, <2>5 DEF Stage
  <2> QED
    BY <1>1, <1>4, <2>6 DEF Shows, p, x
<1>10. CASE s = 0 /\ 1 \in Mentions(q, e, s)
  <2>1. x = Says(q[1], e)
    <3>1. q[1].op = "add_bulk" => v[e] \in {0, Says(q[1], e)}
      BY <1>2, <1>10 DEF Stage, From
    <3>2. q[1].op # "snapshot" /\ \E m \in q[1].cs : m.e = e
      BY <1>1, <1>2, <1>10 DEF Stage, Mentions
    <3> QED
      BY <1>1, <3>1, <3>2, ShownSays DEF x
  <2>2. From(p, x, e, k) = x
    BY <1>10 DEF From
  <2>3. Mentions(p, e, k) = {} => Right(S, cv, e, x)
    <3> SUFFICES ASSUME Mentions(p, e, k) = {} PROVE Right(S, cv, e, x)
      OBVIOUS
    <3>1. ASSUME NEW j \in Mentions(q, e, s) PROVE j <= 1
      <4>1. j \in 1..n /\ j - 1 \notin Mentions(p, e, k)
        BY <1>6
      <4> QED
        BY <1>1, <1>3, <4>1
    <3> QED
      BY <1>2, <1>10, <2>1, <3>1 DEF Stage
  <2>4. ASSUME NEW i \in Mentions(p, e, k) PROVE p[i].op # "add_bulk"
    <3>1. i + 1 \in Mentions(q, e, s) /\ p[i] = q[i + 1] /\ i \in 1..(n - 1)
      BY <1>3, <1>5
    <3>2. ~(1 >= i + 1)
      BY <1>1, <3>1
    <3> QED
      BY <1>2, <1>10, <3>1, <3>2 DEF Stage
  <2>5. Stage(p, x, S, cv, e, k)
    BY <1>4, <1>7, <2>2, <2>3, <2>4 DEF Stage
  <2> QED
    BY <1>1, <1>4, <2>5 DEF Shows, p, x
<1> QED
  BY <1>1, <1>2, <1>8, <1>9, <1>10

-----------------------------------------------------------------------------
(* The inductive invariant, from the commit to the screen.                  *)

\* What a connection's browser has been told, by its snapshot or by ops.
Told(c) == base[c] \cup got[c]

\* Commits are numbered apart; an element stays on its canvas and is inserted first.
CommitSound ==
  \A x, y \in commits :
    /\ x.n = y.n => x = y
    /\ x.e = y.e => x.cv = y.cv
    /\ x.e = y.e /\ x.op \in {"add", "add_bulk"} => x.n <= y.n

\* A row is the newest commit of its element; without a row it was deleted, or never was.
RowsSound ==
  \A e \in Elem :
    IF Absent(e) THEN \/ \A m \in commits : m.e # e
                      \/ \E m \in commits : Newest(commits, e, m) /\ m.op = "delete"
                 ELSE Newest(commits, e, rows[e]) /\ rows[e].op # "delete"

\* A frame is about one operation, names an element once and goes to one canvas.
JobSound ==
  \A t \in Task :
    /\ \A m \in work[t] : m.op = job[t].op
    /\ \A x, y \in work[t] : x.e = y.e => x = y
    /\ t \in Conn /\ pc[t] # "idle" => job[t].cv = ConnCanvas[t]
    /\ pc[t] = "sending" => \A c \in todo[t] : ConnCanvas[c] = job[t].cv

FrameSound ==
  \A c \in Conn :
    /\ base[c] \subseteq commits
    /\ \A i \in DOMAIN chan[c] : chan[c][i].op # "snapshot" => chan[c][i].cs \subseteq got[c]

\* A snapshot that has been read is right for what was committed before.
HeldSound ==
  \A c \in Conn : phase[c] = "read" =>
    \A e \in Elem : Right(base[c], ConnCanvas[c], e, Pick(held[c], e))

\* A browser shows, or has before it the frames that make it show, what it was told.
ScreenSound ==
  \A c \in Conn, e \in Elem :
    Watching(c) /\ <<c, e>> \notin late \cup stale /\ Reached(c, e) =>
      Shows(chan[c], view[c][e], Told(c), ConnCanvas[c], e)

OrderInv == CommitSound /\ RowsSound /\ JobSound /\ FrameSound /\ HeldSound /\ ScreenSound

\* Only the statements change rows and commits.
LEMMA OnlyStatements ==
  ASSUME [Next]_vars
  PROVE  ElementStep \/ UNCHANGED <<rows, commits, clock>>
BY NextCases DEF Handshake, Check, Refuse, Join, Abandon, ReadSnapshot, SendSnapshot,
   SetupFails, Disconnect, Leave, Receive, Echo, BulkDone, RequestFails, Respond, HttpAddCheck,
   TakeRoom, Unanswered, Send, CanvasStep, SetStatus, HttpSnapshot, Restart, dbVars, vars

\* A commit is new and numbered after all others.
LEMMA CommitIsLast ==
  ASSUME TypeOK, HistorySound, NEW t \in Task, NEW m \in Commit, Commits(t, m)
  PROVE  /\ commits' = commits \cup {m}
         /\ m \notin commits
         /\ \A x \in commits : x.n \in Nat /\ m.n \in Nat /\ x.n < m.n
BY DEF Commits, HistorySound, TypeOK

LEMMA CommitStep ==
  ASSUME TypeOK, WorkSound, HistorySound, CommitSound, RowsSound, [Next]_vars
  PROVE  CommitSound'
<1>1. CASE ElementStep
  <2>1. PICK t \in Task, m \in Commit : Commits(t, m)
    BY <1>1, ElementStepCommits
  <2>2. \A x \in commits : x.e = m.e => x.cv = m.cv /\ m.op \notin {"add", "add_bulk"}
    <3>1. CASE m.op \in {"add", "add_bulk"}
      BY <2>1, <3>1 DEF Commits, Leaves, Fresh
    <3>2. CASE m.op \notin {"add", "add_bulk"}
      <4>1. ~Absent(m.e) /\ m.cv = rows[m.e].cv /\ m.e \in Elem
        BY <2>1, <3>2 DEF Commits, Leaves, Commit
      <4>2. rows[m.e] \in commits /\ rows[m.e].e = m.e
        BY <4>1 DEF RowsSound, Newest
      <4> QED
        BY <3>2, <4>1, <4>2 DEF CommitSound
    <3> QED
      BY <3>1, <3>2
  <2>3. /\ commits' = commits \cup {m}
        /\ \A x \in commits : x.n \in Nat /\ m.n \in Nat /\ x.n < m.n
    BY <2>1, CommitIsLast
  <2>4. m.n \in Nat
    BY DEF Commit
  <2> QED
    BY <2>2, <2>3, <2>4 DEF CommitSound
<1>2. CASE UNCHANGED <<rows, commits, clock>>
  BY <1>2 DEF CommitSound
<1> QED
  BY <1>1, <1>2, OnlyStatements

LEMMA RowsStep ==
  ASSUME TypeOK, WorkSound, HistorySound, RowsSound, [Next]_vars
  PROVE  RowsSound'
<1>1. CASE ElementStep
  <2>1. PICK t \in Task, m \in Commit : Commits(t, m)
    BY <1>1, ElementStepCommits
  <2>2. /\ commits' = commits \cup {m} /\ m.n \in Nat
        /\ \A x \in commits : x.n \in Nat /\ x.n < m.n
    BY <2>1, CommitIsLast DEF Commit
  <2>3. rows' = [rows EXCEPT ![m.e] = IF m.op = "delete" THEN NoRow ELSE m] /\ m.e \in Elem
    BY <2>1 DEF Commits, Leaves, Commit
  <2>4. m # NoRow
    BY <2>1 DEF Commits, NoRow, TypeOK
  <2>5. SUFFICES ASSUME NEW e \in Elem
                 PROVE  IF rows'[e] = NoRow
                          THEN \/ \A x \in commits' : x.e # e
                               \/ \E x \in commits' : Newest(commits', e, x) /\ x.op = "delete"
                          ELSE Newest(commits', e, rows'[e]) /\ rows'[e].op # "delete"
    BY DEF RowsSound, Absent
  <2>6. CASE e = m.e
    <3>1. Newest(commits', e, m)
      BY <2>2, <2>6 DEF Newest
    <3>2. rows'[e] = IF m.op = "delete" THEN NoRow ELSE m
      BY <2>3, <2>6 DEF TypeOK
    <3> QED
      BY <2>2, <2>4, <3>1, <3>2
  <2>7. CASE e # m.e
    <3>1. rows'[e] = rows[e]
      BY <2>3, <2>7 DEF TypeOK
    <3>2. \A x : Newest(commits, e, x) => Newest(commits', e, x)
      BY <2>2, <2>7 DEF Newest
    <3> QED
      BY <2>2, <2>7, <3>1, <3>2 DEF RowsSound, Absent
  <2> QED
    BY <2>6, <2>7
<1>2. CASE UNCHANGED <<rows, commits, clock>>
  BY <1>2 DEF RowsSound, Absent, Newest
<1> QED
  BY <1>1, <1>2, OnlyStatements

LEMMA JobStep ==
  ASSUME TypeOK, WorkSound, HistorySound, RoomSound, JobSound, [Next]_vars
  PROVE  JobSound'
<1>1. CASE ElementStep
  <2>1. PICK t \in Task, m \in Commit : Commits(t, m)
    BY <1>1, ElementStepCommits
  <2>2. PICK p \in {"checked", "committed"} : pc' = [pc EXCEPT ![t] = p]
    BY <2>1 DEF Commits
  <2>3. PICK j \in Job : job' = [job EXCEPT ![t] = j] /\ m.room = j.cv
    BY <2>1 DEF Commits
  <2>4. \A x \in Task : /\ pc'[x] = IF x = t THEN p ELSE pc[x]
                        /\ job'[x] = IF x = t THEN j ELSE job[x]
                        /\ work'[x] = IF x = t THEN work[t] \cup {m} ELSE work[x]
                        /\ todo'[x] = todo[x]
    BY <2>1, <2>2, <2>3 DEF Commits, TypeOK
  <2>5. j.op = m.op /\ (t \in Conn => j.cv = ConnCanvas[t])
    BY <2>1, <2>3, <2>4 DEF Commits, Leaves
  <2>6. \A x \in work[t] : x.op = m.op /\ x.e # m.e
    <3>1. CASE pc[t] = "idle"
      BY <3>1 DEF WorkSound
    <3>2. CASE pc[t] = "checked"
      BY <2>1, <3>2 DEF Commits, Leaves, Fresh, JobSound, HistorySound
    <3> QED
      BY <2>1, <3>1, <3>2 DEF Commits
  <2> QED
    BY <2>4, <2>5, <2>6 DEF JobSound
<1>2. ASSUME NEW c \in Conn, Handshake(c) PROVE JobSound'
  <2>1. UNCHANGED taskVars
    BY <1>2 DEF Handshake, Check, Refuse, Join, Abandon, ReadSnapshot,
       SendSnapshot, SetupFails, Disconnect, Leave, Receive
  <2> QED
    BY <2>1 DEF taskVars, JobSound
<1>3. ASSUME NEW t \in Task, Rest(t) PROVE JobSound'
  BY <1>3 DEF Rest, JobSound, TypeOK
<1>4. ASSUME NEW r \in Req, BulkDone(r) \/ RequestFails(r) PROVE JobSound'
  <2>1. /\ UNCHANGED todo
        /\ \A x \in Task : \/ job'[x] = job[x] /\ work'[x] = work[x] /\ pc'[x] = pc[x]
                           \/ work'[x] = {} /\ pc'[x] = "idle"
                           \/ /\ pc[x] = "checked" /\ pc'[x] = "committed"
                              /\ work'[x] = work[x] /\ job'[x] = job[x]
    BY <1>4 DEF BulkDone, RequestFails, TypeOK
  <2> QED
    BY <2>1 DEF JobSound
<1>5. ASSUME NEW r \in Req, NEW op \in {"add", "add_bulk"}, NEW cv \in Canvas,
             NEW u \in User, HttpAddCheck(r, op, cv, u)
      PROVE  JobSound'
  <2>1. /\ UNCHANGED <<work, todo>> /\ work[r] = {}
        /\ \A x \in Task : /\ pc'[x] = IF x = r THEN "checked" ELSE pc[x]
                           /\ x # r => job'[x] = job[x]
    BY <1>5 DEF HttpAddCheck, WorkSound, TypeOK
  <2> QED
    BY <2>1 DEF JobSound
<1>6. ASSUME NEW t \in Task, TakeRoom(t) PROVE JobSound'
  <2>1. /\ UNCHANGED <<work, job>> /\ pc[t] = "committed"
        /\ \A x \in Task : /\ pc'[x] = IF x = t THEN "sending" ELSE pc[x]
                           /\ todo'[x] = IF x = t THEN rooms[job[t].cv] \ {t} ELSE todo[x]
    BY <1>6 DEF TakeRoom, TypeOK
  <2>2. job[t].cv \in Canvas
    BY <2>1 DEF WorkSound, Job
  <2>3. \A c \in rooms[job[t].cv] : ConnCanvas[c] = job[t].cv
    BY <2>2 DEF RoomSound, TypeOK
  <2> QED
    BY <2>1, <2>3 DEF JobSound
<1>7. ASSUME NEW t \in Task, NEW c \in Conn, Send(t, c) PROVE JobSound'
  <2>1. todo' = [todo EXCEPT ![t] = @ \ {c}] /\ UNCHANGED <<pc, job, work>>
    BY <1>7 DEF Send
  <2> QED
    BY <2>1 DEF JobSound, TypeOK
<1>8. CASE (\E cv \in Canvas : CanvasStep(cv)) \/ UNCHANGED vars
  BY <1>8 DEF CanvasStep, SetStatus, HttpSnapshot, taskVars, vars, JobSound
<1>9. CASE Restart
  BY <1>9 DEF Restart, JobSound
<1>10. ASSUME NEW t \in Task, Unanswered(t) PROVE JobSound'
  BY <1>10, UnansweredGivesUp DEF JobSound
<1> QED
  BY <1>1, <1>2, <1>3, <1>4, <1>5, <1>6, <1>7, <1>8, <1>9, <1>10, NextCases DEF Echo, Respond

\* A step of task t that sends its frame to connection c.
Sends(t, c) ==
  /\ pc[t] = "sending" /\ (c \in todo[t] \/ c = t)
  /\ SendOp(c, job[t].op, work[t])
  /\ UNCHANGED <<rows, commits, lost, connVars>>

LEMMA SendSends ==
  ASSUME NEW t \in Task, NEW c \in Conn, Send(t, c)
  PROVE  Sends(t, c)
BY DEF Send, Sends, dbVars

LEMMA EchoSends ==
  ASSUME NEW c \in Conn, Echo(c)
  PROVE  Sends(c, c)
BY DEF Echo, Rest, Sends, dbVars

\* What is sent is the work of a request at hand.
LEMMA SentWork ==
  ASSUME TypeOK, WorkSound, NEW t \in Task, NEW c \in Conn, Sends(t, c)
  PROVE  job[t].op \in Op /\ work[t] \in SUBSET Commit
BY DEF Sends, WorkSound, Job, TypeOK

\* What the frame changes.
LEMMA SendOpFrame ==
  ASSUME TypeOK, NEW c \in Conn, NEW op \in Op, NEW cs \in SUBSET Commit, SendOp(c, op, cs)
  PROVE  /\ \A d \in Conn : d # c \/ ~alive[c] => chan'[d] = chan[d] /\ got'[d] = got[d]
         /\ alive[c] => /\ chan'[c] = Append(chan[c], [op |-> op, cs |-> cs])
                        /\ got'[c] = got[c] \cup cs
         /\ view' = view /\ stale' = stale /\ late \subseteq late'
         /\ alive[c] => {c} \X Overtaken(c, cs) \subseteq late'
BY DEF SendOp, netVars, TypeOK

LEMMA FrameStep ==
  ASSUME TypeOK, WorkSound, HistorySound, FrameSound, [Next]_vars
  PROVE  FrameSound'
<1> USE DEF FrameSound
<1>1. CASE ElementStep
  BY <1>1, ElementStepCommits DEF Commits, connVars, netVars
<1>2. ASSUME NEW t \in Task, NEW d \in Conn, Sends(t, d) PROVE FrameSound'
  <2>1. /\ \A c \in Conn : c # d \/ ~alive[d] => chan'[c] = chan[c] /\ got'[c] = got[c]
        /\ alive[d] => /\ chan'[d] = Append(chan[d], [op |-> job[t].op, cs |-> work[t]])
                       /\ got'[d] = got[d] \cup work[t]
    BY <1>2, SentWork, SendOpFrame DEF Sends
  <2>2. UNCHANGED <<commits, base>>
    BY <1>2 DEF Sends, connVars
  <2>3. ASSUME NEW c \in Conn, NEW i \in DOMAIN chan'[c], chan'[c][i].op # "snapshot"
        PROVE  chan'[c][i].cs \subseteq got'[c]
    <3>1. CASE c # d \/ ~alive[d]
      BY <2>1, <2>3, <3>1
    <3>2. CASE c = d /\ alive[d]
      <4> DEFINE f == [op |-> job[t].op, cs |-> work[t]]
      <4>1. f \in Frame /\ chan[d] \in Seq(Frame) /\ f.cs = work[t]
        BY <1>2, SentWork DEF Frame, TypeOK
      <4>2. chan'[d] = Append(chan[d], f)
        BY <2>1, <3>2
      <4> HIDE DEF f
      <4>3. \/ i \in DOMAIN chan[d] /\ chan'[d][i] = chan[d][i]
            \/ chan'[d][i] = f
        BY <2>3, <3>2, <4>1, <4>2
      <4> QED
        BY <2>1, <2>3, <3>2, <4>1, <4>3
    <3> QED
      BY <3>1, <3>2
  <2> QED
    BY <2>2, <2>3
<1>3. ASSUME NEW d \in Conn, ReadSnapshot(d) PROVE FrameSound'
  BY <1>3 DEF ReadSnapshot, dbVars, netVars, TypeOK
<1>4. ASSUME NEW d \in Conn, SendSnapshot(d) PROVE FrameSound'
  <2> DEFINE f == [op |-> "snapshot", cs |-> held[d]]
  <2>1. /\ UNCHANGED <<commits, base, got>>
        /\ \A c \in Conn : chan'[c] = chan[c] \/ chan'[c] = Append(chan[c], f)
    BY <1>4 DEF SendSnapshot, dbVars, netVars, TypeOK
  <2>2. f \in Frame /\ f.op = "snapshot" /\ \A c \in Conn : chan[c] \in Seq(Frame)
    BY DEF Frame, TypeOK
  <2> HIDE DEF f
  <2>3. ASSUME NEW c \in Conn, NEW i \in DOMAIN chan'[c], chan'[c][i].op # "snapshot"
        PROVE  i \in DOMAIN chan[c] /\ chan'[c][i] = chan[c][i]
    BY <2>1, <2>2, <2>3
  <2> QED
    BY <2>1, <2>3
<1>5. ASSUME NEW d \in Conn, Receive(d) PROVE FrameSound'
  <2>1. /\ UNCHANGED <<commits, base, got>> /\ chan[d] # <<>>
        /\ \A c \in Conn : chan'[c] = IF c = d THEN Tail(chan[d]) ELSE chan[c]
    BY <1>5 DEF Receive, dbVars, connVars, TypeOK
  <2>2. \A i \in DOMAIN Tail(chan[d]) :
          i + 1 \in DOMAIN chan[d] /\ Tail(chan[d])[i] = chan[d][i + 1]
    BY <2>1 DEF TypeOK
  <2>3. ASSUME NEW c \in Conn, NEW i \in DOMAIN chan'[c], chan'[c][i].op # "snapshot"
        PROVE  chan'[c][i].cs \subseteq got[c]
    <3>1. CASE c = d
      <4>1. i + 1 \in DOMAIN chan[d] /\ chan'[c][i] = chan[d][i + 1]
        BY <2>1, <2>2, <2>3, <3>1
      <4> QED
        BY <2>3, <3>1, <4>1
    <3>2. CASE c # d
      BY <2>1, <2>3, <3>2
    <3> QED
      BY <3>1, <3>2
  <2> QED
    BY <2>1, <2>3
<1>6. ASSUME NEW d \in Conn, SetupFails(d) \/ Disconnect(d) PROVE FrameSound'
  <2>1. /\ UNCHANGED <<commits, base, got>>
        /\ \A c \in Conn : chan'[c] = chan[c] \/ chan'[c] = <<>>
    BY <1>6 DEF SetupFails, Disconnect, dbVars, TypeOK
  <2> QED
    BY <2>1
<1>7. CASE Restart
  <2>1. UNCHANGED <<commits, base>> /\ \A c \in Conn : chan'[c] = <<>>
    BY <1>7 DEF Restart, dbVars
  <2> QED
    BY <2>1
<1>8. CASE \/ \E c \in Conn : Check(c) \/ Refuse(c) \/ Join(c) \/ Abandon(c) \/ Leave(c)
           \/ \E r \in Req : BulkDone(r) \/ RequestFails(r) \/ Respond(r)
           \/ \E r \in Req, op \in {"add", "add_bulk"}, cv \in Canvas, u \in User :
                HttpAddCheck(r, op, cv, u)
           \/ \E t \in Task : TakeRoom(t)
           \/ \E cv \in Canvas : CanvasStep(cv)
           \/ UNCHANGED vars
  <2>1. UNCHANGED <<commits, base, got, chan>>
    BY <1>8 DEF Check, Refuse, Join, Abandon, Leave, BulkDone, RequestFails, Respond,
       HttpAddCheck, TakeRoom, CanvasStep, SetStatus, HttpSnapshot, vars, dbVars, connVars, netVars
  <2> QED
    BY <2>1
<1>9. ASSUME NEW t \in Task, Unanswered(t) PROVE FrameSound'
  BY <1>9, UnansweredGivesUp
<1> QED
  BY <1>1, <1>2, <1>3, <1>4, <1>5, <1>6, <1>7, <1>8, <1>9, SendSends, EchoSends, NextCases
  DEF Handshake

\* The rows of a canvas are right for whoever knows every commit.
LEMMA ContentsRight ==
  ASSUME TypeOK, CommitSound, RowsSound, NEW cv \in Canvas, NEW e \in Elem
  PROVE  Right(commits, cv, e, Pick(Contents(cv), e))
<1>1. \A x \in Elem : ~Absent(x) => rows[x].e = x /\ rows[x] \in commits
  BY DEF RowsSound, Newest
<1>2. CASE ~Absent(e) /\ rows[e].cv = cv
  <2>1. rows[e] \in Contents(cv) /\ \A y \in Contents(cv) : y.e = e => y = rows[e]
    BY <1>1, <1>2 DEF Contents
  <2>2. Pick(Contents(cv), e) = rows[e].n
    BY <1>1, <1>2, <2>1, PickOnly
  <2>3. Newest(commits, e, rows[e]) /\ rows[e].op # "delete"
    BY <1>2 DEF RowsSound
  <2> QED
    BY <1>1, <1>2, <2>2, <2>3 DEF Right
<1>3. CASE Absent(e) \/ rows[e].cv # cv
  <2>1. \A y \in Contents(cv) : y.e # e
    BY <1>1, <1>3 DEF Contents
  <2>2. Pick(Contents(cv), e) = 0
    BY <2>1 DEF Pick
  <2>3. CASE Absent(e)
    <3>1. \/ \A m \in commits : m.e # e
          \/ \E m \in commits : Newest(commits, e, m) /\ m.op = "delete"
      BY <2>3 DEF RowsSound
    <3>2. ASSUME NEW m \in commits, Newest(commits, e, m), m.op = "delete", m.cv # cv
          PROVE  \A x \in commits : x.e = e => x.cv # cv
      BY <3>2 DEF CommitSound, Newest
    <3> QED
      BY <2>2, <3>1, <3>2 DEF Right
  <2>4. CASE ~Absent(e)
    <3>1. \A x \in commits : x.e = e => x.cv # cv
      BY <1>1, <1>3, <2>4 DEF CommitSound
    <3> QED
      BY <2>2, <3>1 DEF Right
  <2> QED
    BY <2>3, <2>4
<1> QED
  BY <1>2, <1>3

LEMMA HeldStep ==
  ASSUME TypeOK, WorkSound, CommitSound, RowsSound, HeldSound, [Next]_vars
  PROVE  HeldSound'
<1>1. SUFFICES ASSUME NEW c \in Conn, phase'[c] = "read", NEW e \in Elem
               PROVE  Right(base'[c], ConnCanvas[c], e, Pick(held'[c], e))
  BY DEF HeldSound
<1>2. CASE ReadSnapshot(c)
  <2>1. base'[c] = commits /\ held'[c] = Contents(ConnCanvas[c]) /\ ConnCanvas[c] \in Canvas
    BY <1>2 DEF ReadSnapshot, TypeOK
  <2> QED
    BY <2>1, ContentsRight
<1>3. CASE phase[c] = "read" /\ base'[c] = base[c] /\ held'[c] = held[c]
  BY <1>3 DEF HeldSound
<1>4. \/ ReadSnapshot(c)
      \/ phase[c] = "read" /\ base'[c] = base[c] /\ held'[c] = held[c]
  <2>1. CASE ElementStep
    BY <1>1, <2>1, ElementStepCommits DEF Commits, connVars
  <2>2. CASE \E d \in Conn : Handshake(d)
    BY <1>1, <2>2 DEF Handshake, Check, Refuse, Join, Abandon, ReadSnapshot, SendSnapshot,
       SetupFails, Disconnect, Leave, Receive, connVars, TypeOK
  <2>3. CASE Restart
    BY <1>1, <2>3 DEF Restart
  <2>4. CASE \/ \E d \in Conn : Echo(d)
             \/ \E r \in Req : BulkDone(r) \/ RequestFails(r) \/ Respond(r)
             \/ \E r \in Req, op \in {"add", "add_bulk"}, cv \in Canvas, u \in User :
                  HttpAddCheck(r, op, cv, u)
             \/ \E t \in Task : TakeRoom(t) \/ Unanswered(t)
             \/ \E t \in Task, d \in Conn : Send(t, d)
             \/ \E cv \in Canvas : CanvasStep(cv)
             \/ UNCHANGED vars
    BY <1>1, <2>4 DEF Unanswered, Echo, BulkDone, RequestFails, Respond, HttpAddCheck, TakeRoom, Send,
       CanvasStep, SetStatus, HttpSnapshot, connVars, vars
  <2> QED
    BY <2>1, <2>2, <2>3, <2>4, NextCases
<1> QED
  BY <1>2, <1>3, <1>4

\* Why e should be right on c's screen.
Due(c, e) == Watching(c) /\ <<c, e>> \notin late \cup stale /\ Reached(c, e)

\* A frame that overtakes nothing keeps e right.
LEMMA SentFrameShows ==
  ASSUME IInv, CommitSound, JobSound, FrameSound, ScreenSound,
         NEW t \in Task, NEW c \in Conn, Sends(t, c), NEW e \in Elem, Due(c, e)'
  PROVE  Shows(chan'[c], view'[c][e], Told(c)', ConnCanvas[c], e)
<1> DEFINE op == job[t].op
           cs == work[t]
           S == Told(c)
<1>0. TypeOK /\ WorkSound /\ HistorySound /\ NeverTwice
  BY DEF IInv
<1>1. /\ op \in Op /\ cs \in SUBSET Commit /\ SendOp(c, op, cs)
      /\ UNCHANGED <<base, phase, alive, commits, lost>>
  BY <1>0, SentWork DEF Sends, connVars
<1>2. Due(c, e) /\ alive[c] /\ <<c, e>> \notin late'
  BY <1>0, <1>1, SendOpFrame DEF Due, Watching, Reached
<1>3. /\ chan'[c] = Append(chan[c], [op |-> op, cs |-> cs])
      /\ view' = view /\ Told(c)' = S \cup cs
      /\ {c} \X Overtaken(c, cs) \subseteq late'
  BY <1>0, <1>1, <1>2, SendOpFrame DEF Told
<1>4. Shows(chan[c], view[c][e], S, ConnCanvas[c], e)
  BY <1>2 DEF Due, ScreenSound
<1>5. S \cup cs \subseteq commits /\ got[c] \subseteq S /\ S \subseteq Commit
  BY <1>0 DEF Told, FrameSound, HistorySound, TypeOK
<1>6. job[t].cv = ConnCanvas[c]
  BY DEF Sends, JobSound
<1>7. \A x \in cs : x.e = e => x.cv = ConnCanvas[c]
  <2>1. got'[c] = got[c] \cup cs
    BY <1>0, <1>1, <1>2, SendOpFrame
  <2>2. \A x \in got'[c] : x.e = e => x.cv = ConnCanvas[c]
    BY DEF Due, Reached
  <2> QED
    BY <2>1, <2>2
<1>8. got[c] \cap cs = {}
  BY <1>0 DEF Sends, NeverTwice
<1>9. \A x \in cs, y \in S : x.e = e /\ y.e = e => y.n <= x.n
  <2> SUFFICES ASSUME NEW x \in cs, NEW y \in S, x.e = e, y.e = e PROVE y.n <= x.n
    OBVIOUS
  <2>1. e \notin Overtaken(c, cs)
    BY <1>2, <1>3
  <2>2. ~(y.n > x.n)
    BY <2>1 DEF Overtaken, Told
  <2>3. y.n \in Nat /\ x.n \in Nat
    BY <1>1, <1>5 DEF Commit
  <2> QED
    BY <2>2, <2>3
<1>10. \A x \in cs : x.op = op
  BY DEF JobSound
<1>11. \A x, y \in cs : x.e = y.e => x = y
  BY DEF JobSound
<1>12. op = "add_bulk" => \A x \in cs, y \in S : x.e = e /\ y.e = e => x.n <= y.n
  BY <1>5, <1>10 DEF CommitSound
<1>13. \A x, y \in S \cup cs : x.n = y.n => x = y
  BY <1>5 DEF CommitSound
<1>14. \A i \in DOMAIN chan[c] : chan[c][i].op # "snapshot" => chan[c][i].cs \subseteq got[c]
  BY DEF FrameSound
<1>15. chan[c] \in Seq(Frame) /\ view[c][e] \in Nat
  BY <1>0 DEF TypeOK
<1>16. S \in SUBSET Commit /\ got[c] \in SUBSET S
  BY <1>5
<1> HIDE DEF op, cs, S
<1>17. Shows(Append(chan[c], [op |-> op, cs |-> cs]), view[c][e], S \cup cs, ConnCanvas[c], e)
  BY <1>1, <1>4, <1>7, <1>8, <1>9, <1>10, <1>11, <1>12, <1>13, <1>14, <1>15, <1>16, AppendOp
<1> QED
  BY <1>3, <1>17

\* So does the snapshot, unless an op was sent before it.
LEMMA SnapshotShows ==
  ASSUME TypeOK, HeldSound, NEW c \in Conn, SendSnapshot(c), NEW e \in Elem, Due(c, e)'
  PROVE  Shows(chan'[c], view'[c][e], Told(c)', ConnCanvas[c], e)
<1> DEFINE f == [op |-> "snapshot", cs |-> held[c]]
<1>1. phase[c] = "read" /\ alive[c] /\ UNCHANGED <<view, base, got>>
  BY DEF SendSnapshot, Due, Watching, netVars
<1>2. chan'[c] = Append(chan[c], f) /\ stale' = stale \cup ({c} \X { m.e : m \in got[c] \ base[c] })
  BY <1>1 DEF SendSnapshot, TypeOK
<1>3. \A m \in got[c] \ base[c] : m.e # e
  BY <1>2 DEF Due
<1>4. Right(base[c], ConnCanvas[c], e, Pick(held[c], e))
  BY <1>1 DEF HeldSound
<1>5. Told(c)' = base[c] \cup (got[c] \ base[c])
  BY <1>1 DEF Told
<1>6. Right(Told(c)', ConnCanvas[c], e, Pick(held[c], e))
  <2> DEFINE cs == got[c] \ base[c]
             v  == Pick(held[c], e)
  <2>1. \A m \in cs : m.e # e
    BY <1>3
  <2>2. Right(base[c], ConnCanvas[c], e, v)
    BY <1>4
  <2>3. Told(c)' = base[c] \cup cs
    BY <1>5
  <2> HIDE DEF cs, v
  <2>4. Right(base[c] \cup cs, ConnCanvas[c], e, v)
    BY <2>1, <2>2, RightElsewhere
  <2>5. Right(Told(c)', ConnCanvas[c], e, v)
    BY <2>3, <2>4
  <2> QED
    BY <2>5 DEF v
<1>7. f \in Frame /\ f.op = "snapshot" /\ f.cs = held[c] /\ chan[c] \in Seq(Frame)
  BY DEF Frame, TypeOK
<1> HIDE DEF f
<1> QED
  BY <1>1, <1>2, <1>6, <1>7, AppendSnapshot

LEMMA ScreenStep ==
  ASSUME IInv, CommitSound, JobSound, FrameSound, HeldSound, ScreenSound, [Next]_vars
  PROVE  ScreenSound'
<1>0. TypeOK /\ WorkSound
  BY DEF IInv
<1>1. SUFFICES ASSUME NEW c \in Conn, NEW e \in Elem, Due(c, e)'
               PROVE  Shows(chan'[c], view'[c][e], Told(c)', ConnCanvas[c], e)
  BY DEF ScreenSound, Due
\* Nothing that c's screen depends on changes.
<1> DEFINE Still == /\ Due(c, e)
                    /\ chan'[c] = chan[c] /\ view'[c] = view[c]
                    /\ base'[c] = base[c] /\ got'[c] = got[c]
<1>2. CASE Still
  BY <1>2 DEF Due, ScreenSound, Told
<1>3. CASE ElementStep
  <2>1. PICK t \in Task, m \in Commit : Commits(t, m)
    BY <1>0, <1>3, ElementStepCommits
  <2>2. commits' = commits \cup {m} /\ UNCHANGED <<lost, connVars, netVars>>
    BY <2>1 DEF Commits
  <2> QED
    BY <1>1, <1>2, <2>2 DEF Due, Watching, Reached, connVars, netVars
<1>4. ASSUME NEW t \in Task, NEW d \in Conn, Sends(t, d)
      PROVE  Shows(chan'[c], view'[c][e], Told(c)', ConnCanvas[c], e)
  <2>1. CASE d = c
    BY <1>1, <1>4, <2>1, SentFrameShows
  <2>2. CASE d # c
    <3>1. /\ chan'[c] = chan[c] /\ got'[c] = got[c] /\ view' = view
          /\ stale' = stale /\ late \subseteq late'
      BY <1>0, <1>4, <2>2, SentWork, SendOpFrame DEF Sends
    <3> QED
      BY <1>1, <1>2, <1>4, <3>1 DEF Sends, Due, Watching, Reached, connVars
  <2> QED
    BY <2>1, <2>2
<1>5. ASSUME NEW d \in Conn, SendSnapshot(d)
      PROVE  Shows(chan'[c], view'[c][e], Told(c)', ConnCanvas[c], e)
  <2>1. CASE d = c
    BY <1>0, <1>1, <1>5, <2>1, SnapshotShows
  <2>2. CASE d # c
    BY <1>0, <1>1, <1>2, <1>5, <2>2
    DEF SendSnapshot, Due, Watching, Reached, TypeOK, dbVars, taskVars, netVars
  <2> QED
    BY <2>1, <2>2
<1>6. ASSUME NEW d \in Conn, Receive(d)
      PROVE  Shows(chan'[c], view'[c][e], Told(c)', ConnCanvas[c], e)
  <2>1. Due(c, e) /\ Told(c)' = Told(c)
    BY <1>1, <1>6 DEF Receive, Due, Watching, Reached, Told, dbVars, taskVars, connVars
  <2>2. CASE d = c
    <3>1. /\ chan[c] # <<>> /\ chan'[c] = Tail(chan[c])
          /\ view'[c] = Shown(view[c], Head(chan[c]))
      BY <1>0, <1>6, <2>2 DEF Receive, TypeOK
    <3>2. Shows(chan[c], view[c][e], Told(c), ConnCanvas[c], e)
      BY <2>1 DEF Due, ScreenSound
    <3>3. chan[c] \in Seq(Frame) /\ view[c] \in [Elem -> Nat]
      BY <1>0 DEF TypeOK
    <3>4. Shows(Tail(chan[c]), Shown(view[c], Head(chan[c]))[e], Told(c), ConnCanvas[c], e)
      BY <3>1, <3>2, <3>3, ReadNext
    <3> QED
      BY <2>1, <3>1, <3>4
  <2>3. CASE d # c
    BY <1>0, <1>2, <1>6, <2>1, <2>3 DEF Receive, TypeOK, connVars
  <2> QED
    BY <2>2, <2>3
<1>7. ASSUME NEW d \in Conn, \/ Check(d) \/ Refuse(d) \/ Join(d) \/ Abandon(d) \/ ReadSnapshot(d)
                             \/ SetupFails(d) \/ Disconnect(d) \/ Leave(d)
      PROVE  Shows(chan'[c], view'[c][e], Told(c)', ConnCanvas[c], e)
  <2>1. /\ phase'[c] = "live" => phase[c] = "live" /\ base'[c] = base[c]
        /\ alive'[c] => alive[c] /\ chan'[c] = chan[c]
        /\ UNCHANGED <<view, got, late, stale, commits, lost>>
    BY <1>0, <1>7 DEF Check, Refuse, Join, Abandon, ReadSnapshot, SetupFails, Disconnect, Leave,
       dbVars, taskVars, netVars, TypeOK
  <2> QED
    BY <1>1, <1>2, <2>1 DEF Due, Watching, Reached
<1>8. CASE \/ \E r \in Req : BulkDone(r) \/ RequestFails(r) \/ Respond(r)
           \/ \E r \in Req, op \in {"add", "add_bulk"}, cv \in Canvas, u \in User :
                HttpAddCheck(r, op, cv, u)
           \/ \E t \in Task : TakeRoom(t)
           \/ \E cv \in Canvas : CanvasStep(cv)
           \/ UNCHANGED vars
  <2>1. UNCHANGED <<commits, connVars, netVars>> /\ lost \subseteq lost'
    BY <1>8 DEF BulkDone, RequestFails, Respond, Rest, HttpAddCheck, TakeRoom, CanvasStep,
       SetStatus, HttpSnapshot, vars, dbVars, taskVars
  <2> QED
    BY <1>1, <1>2, <2>1 DEF Due, Watching, Reached, connVars, netVars
<1>9. CASE Restart
  BY <1>1, <1>9 DEF Restart, Due, Watching
<1>10. ASSUME NEW t \in Task, Unanswered(t)
       PROVE  Shows(chan'[c], view'[c][e], Told(c)', ConnCanvas[c], e)
  <2>1. /\ UNCHANGED <<phase, base, view, got, late, stale, commits>>
        /\ alive'[c] => alive[c] /\ chan'[c] = chan[c]
        /\ lost \subseteq lost'
    BY <1>0, <1>10, UnansweredGivesUp
  <2> QED
    BY <1>1, <1>2, <2>1 DEF Due, Watching, Reached
<1> QED
  BY <1>3, <1>4, <1>5, <1>6, <1>7, <1>8, <1>9, <1>10, SendSends, EchoSends, NextCases DEF Handshake

-----------------------------------------------------------------------------
(* The theorem. *)

LEMMA InitOrder == Init => OrderInv
<1> SUFFICES ASSUME Init PROVE OrderInv
  OBVIOUS
<1>1. CommitSound /\ RowsSound /\ JobSound /\ FrameSound /\ HeldSound
  BY DEF Init, CommitSound, RowsSound, JobSound, FrameSound, HeldSound, Absent
<1>2. ScreenSound
  BY DEF Init, ScreenSound, Watching
<1> QED
  BY <1>1, <1>2 DEF OrderInv

LEMMA StepOrder == IInv /\ OrderInv /\ [Next]_vars => OrderInv'
BY CommitStep, RowsStep, JobStep, FrameStep, HeldStep, ScreenStep DEF IInv, OrderInv

\* When nothing is in flight, every commit a browser should know it was told.
LEMMA ToldAll ==
  ASSUME NoGap, Quiescent, NEW c \in Conn, Watching(c), NEW e, Reached(c, e),
         NEW m \in commits, m.e = e, m.cv = ConnCanvas[c]
  PROVE  m \in Told(c)
<1> SUFFICES ASSUME m \notin base[c] PROVE m \in got[c]
  BY DEF Told
<1>1. m \notin lost /\ m.room = ConnCanvas[c]
  BY DEF Reached
<1>2. ~Owed(m, c)
  BY DEF Owed, Quiescent
<1> QED
  BY <1>1, <1>2 DEF NoGap, Watching, Told

\* And what it then shows of e is what the database holds.
LEMMA QuietAgrees ==
  ASSUME IInv, OrderInv, Quiescent, NEW c \in Conn, NEW e \in Elem, Due(c, e)
  PROVE  Agrees(c, e)
<1> DEFINE cv == ConnCanvas[c]
           v == view[c][e]
<1>0. /\ NoGap /\ HistorySound /\ CommitSound /\ RowsSound /\ FrameSound
      /\ Told(c) \subseteq commits /\ commits \subseteq Commit
  BY DEF IInv, OrderInv, Told, HistorySound, FrameSound, TypeOK
<1>1. Right(Told(c), cv, e, v)
  <2>1. chan[c] = <<>> /\ Shows(chan[c], v, Told(c), cv, e)
    BY DEF Quiescent, Due, OrderInv, ScreenSound
  <2>2. Stage(<<>>, v, Told(c), cv, e, 0)
    BY <2>1 DEF Shows
  <2>3. Mentions(<<>>, e, 0) = {} /\ From(<<>>, v, e, 0) = v
    BY DEF Mentions, From
  <2> QED
    BY <2>2, <2>3 DEF Stage
<1>2. \A m \in commits : m.e = e /\ m.cv = cv => m \in Told(c)
  BY <1>0, ToldAll DEF Due
<1>3. CASE v = 0 /\ \A m \in Told(c) : m.e = e => m.cv # cv
  <2>1. ~Absent(e) => rows[e] \in commits /\ rows[e].e = e
    BY <1>0 DEF RowsSound, Newest
  <2> QED
    BY <1>2, <1>3, <2>1 DEF Agrees
<1>4. ASSUME NEW m \in Told(c), Newest(Told(c), e, m), m.cv = cv,
             v = IF m.op = "delete" THEN 0 ELSE m.n
      PROVE  Agrees(c, e)
  <2>1. Newest(commits, e, m)
    BY <1>0, <1>2, <1>4 DEF Newest, CommitSound
  <2>2. \A y \in commits : Newest(commits, e, y) => y = m
    <3> SUFFICES ASSUME NEW y \in commits, Newest(commits, e, y) PROVE y = m
      OBVIOUS
    <3>1. y.n <= m.n /\ m.n <= y.n /\ y.n \in Nat /\ m.n \in Nat
      BY <1>0, <2>1 DEF Newest, Commit
    <3> QED
      BY <1>0, <2>1, <3>1 DEF CommitSound, Newest
  <2>3. CASE Absent(e)
    <3>1. m.op = "delete"
      BY <1>0, <2>1, <2>2, <2>3 DEF RowsSound, Newest
    <3> QED
      BY <1>4, <2>3, <3>1 DEF Agrees
  <2>4. CASE ~Absent(e)
    <3>1. rows[e] = m /\ m.op # "delete"
      BY <1>0, <2>2, <2>4 DEF RowsSound, Newest
    <3> QED
      BY <1>4, <2>4, <3>1 DEF Agrees
  <2> QED
    BY <2>3, <2>4
<1> QED
  BY <1>1, <1>3, <1>4 DEF Right

\* Once everything sent has been read, every browser shows the database, except for
\* elements sent out of order, lost with a request or changed through the socket of
\* another canvas (the frames of ws_routes.py:56-123 and CanvasView.tsx).
THEOREM BrowsersConverge == Spec => []ConvergesInOrder
<1>1. IInv /\ OrderInv => ConvergesInOrder
  BY QuietAgrees DEF ConvergesInOrder, Due, Reached
<1> QED
  BY <1>1, InductiveInvariant, InitOrder, StepOrder, PTL DEF Spec
=============================================================================
