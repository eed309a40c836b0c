-------------------------- MODULE CanvasLiveProofs --------------------------
(***************************************************************************)
(* Proofs about CanvasLive for any sets of canvases, users, elements,      *)
(* connections and requests and any bounds: its types, and that no op      *)
(* falls between a connection's snapshot and its stream.                   *)
(***************************************************************************)
EXTENDS CanvasLive, TLAPS

USE ConstantsAssumption DEF Task

\* A row that is there is a commit.
LEMMA RowIsCommit ==
  ASSUME TypeOK, NEW e \in Elem, ~Absent(e)
  PROVE  rows[e] \in Commit
BY DEF TypeOK, Absent

\* Statements are stamped with the next number, in the element's own terms.
LEMMA StampIsCommit ==
  ASSUME TypeOK, NEW op \in Op, NEW e \in Elem, NEW kind \in Kind,
         NEW u \in User, NEW cv \in Canvas, NEW room \in Canvas
  PROVE  Stamp(op, e, kind, u, cv, room) \in Commit
BY DEF TypeOK, Stamp, Commit

\* What a browser shows stays a map from elements to commit numbers.
LEMMA ShownType ==
  ASSUME NEW v \in [Elem -> Nat], NEW f \in Frame
  PROVE  Shown(v, f) \in [Elem -> Nat]
<1> DEFINE Has(e) == \E m \in f.cs : m.e = e
           Pick(e) == (CHOOSE m \in f.cs : m.e = e).n
<1>1. \A e \in Elem : Has(e) => Pick(e) \in Nat
  <2> SUFFICES ASSUME NEW e \in Elem, Has(e) PROVE Pick(e) \in Nat
    OBVIOUS
  <2>1. (CHOOSE m \in f.cs : m.e = e) \in f.cs
    OBVIOUS
  <2>2. f.cs \subseteq Commit
    BY DEF Frame
  <2> QED BY <2>1, <2>2 DEF Commit
<1>2. CASE f.op = "snapshot"
  BY <1>1, <1>2 DEF Shown
<1>3. CASE f.op = "delete"
  BY <1>3 DEF Shown
<1>4. CASE f.op = "add_bulk"
  BY <1>1, <1>4 DEF Shown
<1>5. CASE f.op \notin {"snapshot", "delete", "add_bulk"}
  BY <1>1, <1>5 DEF Shown
<1> QED BY <1>2, <1>3, <1>4, <1>5

\* History pairs of one connection.
LEMMA PairsType ==
  ASSUME NEW c \in Conn, NEW S \in SUBSET Elem
  PROVE  {c} \X S \subseteq Conn \X Elem
BY Zenon

\* Sending a frame of commits keeps the network's variables typed.
LEMMA SendOpType ==
  ASSUME TypeOK, NEW c \in Conn, NEW op \in Op, NEW cs \in SUBSET Commit,
         SendOp(c, op, cs)
  PROVE  /\ chan' \in [Conn -> Seq(Frame)]
         /\ view' \in [Conn -> [Elem -> Nat]]
         /\ got' \in [Conn -> SUBSET Commit]
         /\ late' \subseteq Conn \X Elem
         /\ stale' \subseteq Conn \X Elem
<1>1. CASE ~alive[c]
  BY <1>1 DEF SendOp, netVars, TypeOK
<1>2. CASE alive[c]
  <2>1. [op |-> op, cs |-> cs] \in Frame
    BY DEF Frame
  <2>2. Append(chan[c], [op |-> op, cs |-> cs]) \in Seq(Frame)
    BY <2>1 DEF TypeOK
  <2>3. Overtaken(c, cs) \subseteq Elem
    BY DEF Overtaken, Commit
  <2>4. chan' \in [Conn -> Seq(Frame)]
    BY <1>2, <2>2 DEF SendOp, TypeOK
  <2>5. got' \in [Conn -> SUBSET Commit]
    <3>1. got[c] \cup cs \in SUBSET Commit
      BY DEF TypeOK
    <3>2. got' = [got EXCEPT ![c] = @ \cup cs]
      BY <1>2 DEF SendOp
    <3>3. got \in [Conn -> SUBSET Commit]
      BY DEF TypeOK
    <3> QED BY <3>1, <3>2, <3>3
  <2>6. {c} \X Overtaken(c, cs) \subseteq Conn \X Elem
    BY <2>3, PairsType
  <2>7. late' \subseteq Conn \X Elem
    BY <1>2, <2>6 DEF SendOp, TypeOK
  <2>8. view' \in [Conn -> [Elem -> Nat]] /\ stale' \subseteq Conn \X Elem
    BY <1>2 DEF SendOp, TypeOK
  <2> QED BY <2>4, <2>5, <2>7, <2>8
<1> QED BY <1>1, <1>2

\* A statement keeps the database's variables typed.
LEMMA WriteType ==
  ASSUME TypeOK, NEW m \in Commit, NEW row \in Commit \cup {NoRow}, Write(m, row)
  PROVE  /\ rows' \in [Elem -> Commit \cup {NoRow}]
         /\ clock' \in Nat
         /\ commits' \subseteq Commit
<1>1. m.e \in Elem
  BY DEF Commit
<1>2. rows' \in [Elem -> Commit \cup {NoRow}]
  BY <1>1 DEF Write, TypeOK
<1>3. clock' \in Nat /\ commits' \subseteq Commit
  BY DEF Write, TypeOK
<1> QED BY <1>2, <1>3

\* So does a task that has committed, with its own variables.
LEMMA CommittedType ==
  ASSUME TypeOK, NEW t \in Task, NEW op \in Op, NEW room \in Canvas,
         NEW u \in User, NEW m \in Commit, Committed(t, op, room, u, m)
  PROVE  /\ pc' \in [Task -> {"idle", "checked", "committed", "sending"}]
         /\ job' \in [Task -> Job \cup {NoJob}]
         /\ work' \in [Task -> SUBSET Commit]
         /\ todo' = todo /\ lost' = lost
<1>1. [op |-> op, cv |-> room, user |-> u] \in Job
  BY DEF Job
<1>2. work[t] \cup {m} \in SUBSET Commit
  BY DEF TypeOK
<1>3. job' \in [Task -> Job \cup {NoJob}]
  BY <1>1 DEF Committed, TypeOK
<1>4. work' \in [Task -> SUBSET Commit]
  BY <1>2 DEF Committed, TypeOK
<1>5. pc' \in [Task -> {"idle", "checked", "committed", "sending"}]
  BY DEF Committed, TypeOK
<1> QED BY <1>3, <1>4, <1>5 DEF Committed

\* And a task that goes back to rest.
LEMMA RestType ==
  ASSUME TypeOK, NEW t \in Task, Rest(t)
  PROVE  /\ pc' \in [Task -> {"idle", "checked", "committed", "sending"}]
         /\ job' \in [Task -> Job \cup {NoJob}]
         /\ work' \in [Task -> SUBSET Commit]
         /\ todo' = todo /\ lost' = lost
BY DEF Rest, TypeOK

\* The commit of each statement.
LEMMA UpdatedIsCommit ==
  ASSUME TypeOK, NEW e \in Elem, ~Absent(e), NEW room \in Canvas
  PROVE  Updated(e, room) \in Commit /\ Deleted(e, room) \in Commit
<1>1. rows[e].kind \in Kind /\ rows[e].owner \in User /\ rows[e].cv \in Canvas
  BY RowIsCommit DEF Commit
<1>2. "update" \in Op /\ "delete" \in Op
  BY DEF Op
<1> QED BY <1>1, <1>2, StampIsCommit DEF Updated, Deleted

-----------------------------------------------------------------------------
(* Types. *)

\* Every step keeps the types.
LEMMA TypeStep ==
  ASSUME TypeOK, WorkSound, [Next]_vars
  PROVE  TypeOK'
<1> USE DEF dbVars, taskVars, connVars, netVars, vars
<1>1. ASSUME NEW c \in Conn, Check(c) PROVE TypeOK'
  BY <1>1 DEF Check, TypeOK
<1>2. ASSUME NEW c \in Conn, Refuse(c) PROVE TypeOK'
  BY <1>2 DEF Refuse, TypeOK
<1>3. ASSUME NEW c \in Conn, Join(c) PROVE TypeOK'
  BY <1>3 DEF Join, TypeOK
<1>4. ASSUME NEW c \in Conn, Abandon(c) PROVE TypeOK'
  BY <1>4 DEF Abandon, TypeOK
<1>5. ASSUME NEW c \in Conn, ReadSnapshot(c) PROVE TypeOK'
  <2>1. Contents(ConnCanvas[c]) \subseteq Commit
    BY RowIsCommit DEF Contents
  <2> QED BY <1>5, <2>1 DEF ReadSnapshot, TypeOK
<1>6. ASSUME NEW c \in Conn, SendSnapshot(c) PROVE TypeOK'
  <2>1. Append(chan[c], [op |-> "snapshot", cs |-> held[c]]) \in Seq(Frame)
    <3>1. [op |-> "snapshot", cs |-> held[c]] \in Frame
      BY DEF Frame, TypeOK
    <3>2. chan[c] \in Seq(Frame)
      BY DEF TypeOK
    <3> QED BY <3>1, <3>2
  <2>2. { m.e : m \in got[c] \ base[c] } \subseteq Elem
    BY DEF TypeOK, Commit
  <2>3. {c} \X { m.e : m \in got[c] \ base[c] } \subseteq Conn \X Elem
    BY <2>2, PairsType
  <2>4. chan' \in [Conn -> Seq(Frame)]
    BY <1>6, <2>1 DEF SendSnapshot, TypeOK
  <2>5. stale' \subseteq Conn \X Elem
    BY <1>6, <2>3 DEF SendSnapshot, TypeOK
  <2>6. phase' \in [Conn -> {"new", "checked", "joined", "read", "live", "gone", "failed"}]
        /\ held' \in [Conn -> SUBSET Commit]
    BY <1>6 DEF SendSnapshot, TypeOK
  <2>7. UNCHANGED <<dbVars, taskVars, view, got, late, rooms, alive, base, restarts>>
    BY <1>6 DEF SendSnapshot
  <2> QED BY <2>4, <2>5, <2>6, <2>7 DEF TypeOK
<1>7. ASSUME NEW c \in Conn, SetupFails(c) PROVE TypeOK'
  BY <1>7 DEF SetupFails, TypeOK
<1>8. ASSUME NEW c \in Conn, Disconnect(c) PROVE TypeOK'
  BY <1>8 DEF Disconnect, TypeOK
<1>9. ASSUME NEW c \in Conn, Leave(c) PROVE TypeOK'
  BY <1>9 DEF Leave, TypeOK
<1>10. ASSUME NEW c \in Conn, Receive(c) PROVE TypeOK'
  <2>1. Head(chan[c]) \in Frame /\ Tail(chan[c]) \in Seq(Frame)
    BY <1>10 DEF Receive, TypeOK
  <2>2. Shown(view[c], Head(chan[c])) \in [Elem -> Nat]
    BY <2>1, ShownType DEF TypeOK
  <2> QED BY <1>10, <2>1, <2>2 DEF Receive, TypeOK
<1>11. ASSUME NEW c \in Conn, Echo(c) PROVE TypeOK'
  <2>1. job[c].op \in Op /\ work[c] \in SUBSET Commit
    BY <1>11 DEF Echo, WorkSound, Job, TypeOK
  <2>2. SendOp(c, job[c].op, work[c]) /\ Rest(c)
    BY <1>11 DEF Echo
  <2> HIDE DEF netVars
  <2> QED BY <1>11, <2>1, <2>2, SendOpType, RestType DEF Echo, TypeOK
<1>12. ASSUME NEW c \in Conn, NEW e \in Elem, WsUpdate(c, e) PROVE TypeOK'
  <2> DEFINE m == Updated(e, ConnCanvas[c])
  <2>1. m \in Commit
    BY <1>12, UpdatedIsCommit DEF WsUpdate, MayWrite
  <2>2. Write(m, m) /\ Committed(c, "update", ConnCanvas[c], ConnUser[c], m)
    BY <1>12 DEF WsUpdate
  <2> HIDE DEF m
  <2> QED BY <1>12, <2>1, <2>2, WriteType, CommittedType DEF WsUpdate, TypeOK, Op
<1>13. ASSUME NEW c \in Conn, NEW e \in Elem, WsDelete(c, e) PROVE TypeOK'
  <2> DEFINE m == Deleted(e, ConnCanvas[c])
  <2>1. m \in Commit
    BY <1>13, UpdatedIsCommit DEF WsDelete, MayWrite
  <2>2. Write(m, NoRow) /\ Committed(c, "delete", ConnCanvas[c], ConnUser[c], m)
    BY <1>13 DEF WsDelete
  <2> HIDE DEF m
  <2> QED BY <1>13, <2>1, <2>2, WriteType, CommittedType DEF WsDelete, TypeOK, Op
<1>14. ASSUME NEW c \in Conn, NEW e \in Elem, NEW kind \in Kind, WsAdd(c, e, kind)
       PROVE  TypeOK'
  <2> DEFINE m == Inserted("add", e, kind, ConnUser[c], ConnCanvas[c])
  <2>1. m \in Commit
    BY StampIsCommit DEF Inserted, Op
  <2>2. Write(m, m) /\ Committed(c, "add", ConnCanvas[c], ConnUser[c], m)
    BY <1>14 DEF WsAdd
  <2> HIDE DEF m
  <2> QED BY <1>14, <2>1, <2>2, WriteType, CommittedType DEF WsAdd, TypeOK, Op
<1>15. ASSUME NEW r \in Req, BulkDone(r) PROVE TypeOK'
  BY <1>15 DEF BulkDone, TypeOK
<1>16. ASSUME NEW r \in Req, RequestFails(r) PROVE TypeOK'
  BY <1>16 DEF RequestFails, TypeOK
<1>17. ASSUME NEW r \in Req, Respond(r) PROVE TypeOK'
  BY <1>17, RestType DEF Respond, TypeOK
<1>18. ASSUME NEW r \in Req, NEW op \in {"add", "add_bulk"}, NEW cv \in Canvas,
              NEW u \in User, HttpAddCheck(r, op, cv, u)
       PROVE  TypeOK'
  <2>1. [op |-> op, cv |-> cv, user |-> u] \in Job
    BY DEF Job, Op
  <2> QED BY <1>18, <2>1 DEF HttpAddCheck, TypeOK
<1>19. ASSUME NEW r \in Req, NEW e \in Elem, NEW kind \in Kind, HttpAdd(r, e, kind)
       PROVE  TypeOK'
  <2> DEFINE m == Inserted("add", e, kind, job[r].user, job[r].cv)
  <2>1. job[r].cv \in Canvas /\ job[r].user \in User
    BY <1>19 DEF HttpAdd, WorkSound, Job
  <2>2. m \in Commit
    BY <2>1, StampIsCommit DEF Inserted, Op
  <2>3. Write(m, m) /\ Committed(r, "add", job[r].cv, job[r].user, m)
    BY <1>19 DEF HttpAdd
  <2> HIDE DEF m
  <2> QED BY <1>19, <2>1, <2>2, <2>3, WriteType, CommittedType DEF HttpAdd, TypeOK, Op
<1>20. ASSUME NEW r \in Req, NEW e \in Elem, NEW kind \in Kind, BulkInsert(r, e, kind)
       PROVE  TypeOK'
  <2> DEFINE m == Inserted("add_bulk", e, kind, job[r].user, job[r].cv)
  <2>1. job[r].cv \in Canvas /\ job[r].user \in User
    BY <1>20 DEF BulkInsert, WorkSound, Job
  <2>2. m \in Commit
    BY <2>1, StampIsCommit DEF Inserted, Op
  <2>3. Write(m, m) /\ work' = [work EXCEPT ![r] = @ \cup {m}]
    BY <1>20 DEF BulkInsert
  <2> HIDE DEF m
  <2>4. work' \in [Task -> SUBSET Commit]
    BY <2>2, <2>3 DEF TypeOK
  <2> QED BY <1>20, <2>2, <2>3, <2>4, WriteType DEF BulkInsert, TypeOK
<1>21. ASSUME NEW r \in Req, NEW e \in Elem, NEW u \in User, HttpUpdate(r, e, u)
       PROVE  TypeOK'
  <2> DEFINE m == Updated(e, rows[e].cv)
  <2>1. m \in Commit /\ m.cv \in Canvas
    BY <1>21, UpdatedIsCommit, RowIsCommit DEF HttpUpdate, MayWrite, Commit
  <2>2. Write(m, m) /\ Committed(r, "update", m.cv, u, m)
    BY <1>21 DEF HttpUpdate
  <2> HIDE DEF m
  <2> QED BY <1>21, <2>1, <2>2, WriteType, CommittedType DEF HttpUpdate, TypeOK, Op
<1>22. ASSUME NEW r \in Req, NEW e \in Elem, NEW u \in User, HttpDelete(r, e, u)
       PROVE  TypeOK'
  <2> DEFINE m == Deleted(e, rows[e].cv)
  <2>1. m \in Commit /\ m.cv \in Canvas
    BY <1>22, UpdatedIsCommit, RowIsCommit DEF HttpDelete, MayWrite, Commit
  <2>2. Write(m, NoRow) /\ Committed(r, "delete", m.cv, u, m)
    BY <1>22 DEF HttpDelete
  <2> HIDE DEF m
  <2> QED BY <1>22, <2>1, <2>2, WriteType, CommittedType DEF HttpDelete, TypeOK, Op
<1>23. ASSUME NEW t \in Task, TakeRoom(t) PROVE TypeOK'
  <2>1. job[t].cv \in Canvas
    BY <1>23 DEF TakeRoom, WorkSound, Job
  <2>2. rooms[job[t].cv] \ {t} \in SUBSET Conn
    BY <2>1 DEF TypeOK
  <2> QED BY <1>23, <2>2 DEF TakeRoom, TypeOK
<1>24. ASSUME NEW t \in Task, NEW c \in Conn, Send(t, c) PROVE TypeOK'
  <2>1. job[t].op \in Op /\ work[t] \in SUBSET Commit
    BY <1>24 DEF Send, WorkSound, Job, TypeOK
  <2>2. SendOp(c, job[t].op, work[t]) /\ todo' \in [Task -> SUBSET Conn]
    BY <1>24 DEF Send, TypeOK
  <2> HIDE DEF netVars
  <2> QED BY <1>24, <2>1, <2>2, SendOpType DEF Send, TypeOK
<1>25. ASSUME NEW cv \in Canvas, CanvasStep(cv) PROVE TypeOK'
  <2>1. CASE \E st \in {"active", "archived"} : SetStatus(cv, st)
    BY <2>1 DEF SetStatus, TypeOK
  <2>2. CASE \E u \in User : HttpSnapshot(cv, u)
    BY <2>2 DEF HttpSnapshot, TypeOK
  <2> QED BY <1>25, <2>1, <2>2 DEF CanvasStep
<1>26. ASSUME Restart PROVE TypeOK'
  BY <1>26 DEF Restart, TypeOK
<1>27. CASE UNCHANGED vars
  BY <1>27 DEF TypeOK
<1>28. ASSUME NEW t \in Task, Unanswered(t) PROVE TypeOK'
  <2>1. \A c \in Conn : chan'[c] \in Seq(Frame) /\ alive'[c] \in BOOLEAN
    BY <1>28 DEF Unanswered, TypeOK
  <2> QED BY <1>28, <2>1 DEF Unanswered, TypeOK
<1> QED
  BY <1>1, <1>2, <1>3, <1>4, <1>5, <1>6, <1>7, <1>8, <1>9, <1>10, <1>11, <1>12,
     <1>13, <1>14, <1>15, <1>16, <1>17, <1>18, <1>19, <1>20, <1>21, <1>22, <1>23,
     <1>24, <1>25, <1>26, <1>27, <1>28
  DEF Next, ConnStep, ReqStep, TaskStep

-----------------------------------------------------------------------------
(* The six statements that write an element have one shape.                 *)

\* The row that commit m leaves, whose element is new or is the one it names, on
\* its canvas; and the operation of task t, one insert of several in its bulk loop.
Leaves(t, m) ==
  /\ rows' = [rows EXCEPT ![m.e] = IF m.op = "delete" THEN NoRow ELSE m]
  /\ IF m.op \in {"add", "add_bulk"} THEN Fresh(m.e)
                                    ELSE ~Absent(m.e) /\ m.cv = rows[m.e].cv
  /\ job'[t].op = m.op
  /\ t \in Conn => m.room = ConnCanvas[t]
  /\ pc[t] = "checked" => job[t].op = m.op /\ m.op \in {"add", "add_bulk"}

\* Task t, at rest or in its bulk loop, makes commit m and has yet to send it.
Commits(t, m) ==
  /\ m.n = clock + 1 /\ clock' = clock + 1
  /\ commits' = commits \cup {m}
  /\ pc[t] \in {"idle", "checked"}
  /\ work' = [work EXCEPT ![t] = @ \cup {m}]
  /\ \E p \in {"checked", "committed"} : pc' = [pc EXCEPT ![t] = p]
  /\ \E j \in Job :
       /\ job' = [job EXCEPT ![t] = j]
       /\ m.room = j.cv
       /\ pc[t] = "checked" => j.cv = job[t].cv
  /\ Leaves(t, m)
  /\ UNCHANGED <<todo, lost, connVars, netVars, members>>

\* Steps that write an element.
ElementStep ==
  \/ \E c \in Conn, e \in Elem : WsUpdate(c, e) \/ WsDelete(c, e)
  \/ \E c \in Conn, e \in Elem, kind \in Kind : WsAdd(c, e, kind)
  \/ \E r \in Req, e \in Elem, kind \in Kind : HttpAdd(r, e, kind) \/ BulkInsert(r, e, kind)
  \/ \E r \in Req, e \in Elem, u \in User : HttpUpdate(r, e, u) \/ HttpDelete(r, e, u)

\* A task that starts at rest and commits m takes a job for m's room.
LEMMA CommittedCommits ==
  ASSUME TypeOK, NEW t \in Task, NEW op \in Op, NEW room \in Canvas,
         NEW u \in User, NEW m \in Commit, NEW row,
         m.n = clock + 1, m.room = room, pc[t] \in {"idle", "checked"},
         pc[t] = "checked" => room = job[t].cv /\ job[t].op = op /\ op = "add",
         m.op = op, row = (IF op = "delete" THEN NoRow ELSE m),
         IF op \in {"add", "add_bulk"} THEN Fresh(m.e)
                                     ELSE ~Absent(m.e) /\ m.cv = rows[m.e].cv,
         t \in Conn => room = ConnCanvas[t],
         Write(m, row), Committed(t, op, room, u, m),
         UNCHANGED <<connVars, netVars, members>>
  PROVE  Commits(t, m)
<1> DEFINE j == [op |-> op, cv |-> room, user |-> u]
<1>1. j \in Job /\ j.cv = room /\ j.op = op
  BY DEF Job
<1>2. job' = [job EXCEPT ![t] = j]
  BY DEF Committed
<1> HIDE DEF j
<1>3. Leaves(t, m)
  BY <1>1, <1>2 DEF Write, Leaves, TypeOK
<1> QED BY <1>1, <1>2, <1>3 DEF Write, Committed, Commits

LEMMA ElementStepCommits ==
  ASSUME TypeOK, WorkSound, ElementStep
  PROVE  \E t \in Task, m \in Commit : Commits(t, m)
<1> USE DEF Op
<1>1. ASSUME NEW c \in Conn, NEW e \in Elem, WsUpdate(c, e)
      PROVE  \E t \in Task, m \in Commit : Commits(t, m)
  <2> DEFINE m == Updated(e, ConnCanvas[c])
  <2>1. /\ m \in Commit /\ m.n = clock + 1 /\ m.room = ConnCanvas[c]
        /\ m.op = "update" /\ m.e = e /\ m.cv = rows[e].cv /\ ~Absent(e)
    BY <1>1, UpdatedIsCommit DEF WsUpdate, MayWrite, Updated, Stamp
  <2>2. /\ Write(m, m) /\ Committed(c, "update", ConnCanvas[c], ConnUser[c], m)
        /\ pc[c] = "idle" /\ UNCHANGED <<connVars, netVars, members>>
    BY <1>1 DEF WsUpdate, Ready
  <2> HIDE DEF m
  <2> QED BY <2>1, <2>2, CommittedCommits
<1>2. ASSUME NEW c \in Conn, NEW e \in Elem, WsDelete(c, e)
      PROVE  \E t \in Task, m \in Commit : Commits(t, m)
  <2> DEFINE m == Deleted(e, ConnCanvas[c])
  <2>1. /\ m \in Commit /\ m.n = clock + 1 /\ m.room = ConnCanvas[c]
        /\ m.op = "delete" /\ m.e = e /\ m.cv = rows[e].cv /\ ~Absent(e)
    BY <1>2, UpdatedIsCommit DEF WsDelete, MayWrite, Deleted, Stamp
  <2>2. /\ Write(m, NoRow) /\ Committed(c, "delete", ConnCanvas[c], ConnUser[c], m)
        /\ pc[c] = "idle" /\ UNCHANGED <<connVars, netVars, members>>
    BY <1>2 DEF WsDelete, Ready
  <2> HIDE DEF m
  <2> QED BY <2>1, <2>2, CommittedCommits
<1>3. ASSUME NEW c \in Conn, NEW e \in Elem, NEW kind \in Kind, WsAdd(c, e, kind)
      PROVE  \E t \in Task, m \in Commit : Commits(t, m)
  <2> DEFINE m == Inserted("add", e, kind, ConnUser[c], ConnCanvas[c])
  <2>1. /\ m \in Commit /\ m.n = clock + 1 /\ m.room = ConnCanvas[c]
        /\ m.op = "add" /\ Fresh(m.e)
    BY <1>3, StampIsCommit DEF WsAdd, Inserted, Stamp
  <2>2. /\ Write(m, m) /\ Committed(c, "add", ConnCanvas[c], ConnUser[c], m)
        /\ pc[c] = "idle" /\ UNCHANGED <<connVars, netVars, members>>
    BY <1>3 DEF WsAdd, Ready
  <2> HIDE DEF m
  <2> QED BY <2>1, <2>2, CommittedCommits
<1>4. ASSUME NEW r \in Req, NEW e \in Elem, NEW kind \in Kind, HttpAdd(r, e, kind)
      PROVE  \E t \in Task, m \in Commit : Commits(t, m)
  <2> DEFINE m == Inserted("add", e, kind, job[r].user, job[r].cv)
  <2>1. job[r].cv \in Canvas /\ job[r].user \in User
    BY <1>4 DEF HttpAdd, WorkSound, Job
  <2>2. /\ m \in Commit /\ m.n = clock + 1 /\ m.room = job[r].cv
        /\ m.op = "add" /\ Fresh(m.e)
    BY <1>4, <2>1, StampIsCommit DEF HttpAdd, Inserted, Stamp
  <2>3. /\ Write(m, m) /\ Committed(r, "add", job[r].cv, job[r].user, m)
        /\ pc[r] = "checked" /\ job[r].op = "add" /\ UNCHANGED <<connVars, netVars, members>>
    BY <1>4 DEF HttpAdd
  <2> HIDE DEF m
  <2> QED BY <2>1, <2>2, <2>3, CommittedCommits
<1>5. ASSUME NEW r \in Req, NEW e \in Elem, NEW kind \in Kind, BulkInsert(r, e, kind)
      PROVE  \E t \in Task, m \in Commit : Commits(t, m)
  <2> DEFINE m == Inserted("add_bulk", e, kind, job[r].user, job[r].cv)
  <2>1. job[r] \in Job
    BY <1>5 DEF BulkInsert, WorkSound
  <2>2. job[r].cv \in Canvas /\ job[r].user \in User
    BY <2>1 DEF Job
  <2>3. /\ m \in Commit /\ m.n = clock + 1 /\ m.room = job[r].cv
        /\ m.op = "add_bulk" /\ Fresh(m.e)
    BY <1>5, <2>2, StampIsCommit DEF BulkInsert, Inserted, Stamp
  <2>4. /\ Write(m, m) /\ work' = [work EXCEPT ![r] = @ \cup {m}]
        /\ pc[r] = "checked" /\ job[r].op = "add_bulk"
        /\ UNCHANGED <<connVars, netVars, members, pc, job, todo, lost>>
    BY <1>5 DEF BulkInsert
  <2>5. pc' = [pc EXCEPT ![r] = "checked"] /\ job' = [job EXCEPT ![r] = job[r]]
    BY <2>4 DEF TypeOK
  <2> HIDE DEF m
  <2>6. Leaves(r, m)
    BY <2>3, <2>4 DEF Leaves, Write
  <2>7. Commits(r, m)
    BY <2>1, <2>3, <2>4, <2>5, <2>6 DEF Commits, Write
  <2> QED BY <2>3, <2>7
<1>6. ASSUME NEW r \in Req, NEW e \in Elem, NEW u \in User, HttpUpdate(r, e, u)
      PROVE  \E t \in Task, m \in Commit : Commits(t, m)
  <2> DEFINE m == Updated(e, rows[e].cv)
  <2>1. /\ m \in Commit /\ m.n = clock + 1 /\ m.cv \in Canvas /\ m.room = m.cv
        /\ m.op = "update" /\ m.e = e /\ m.cv = rows[e].cv /\ ~Absent(e)
    BY <1>6, UpdatedIsCommit, RowIsCommit DEF HttpUpdate, MayWrite, Updated, Stamp, Commit
  <2>2. /\ Write(m, m) /\ Committed(r, "update", m.cv, u, m)
        /\ pc[r] = "idle" /\ UNCHANGED <<connVars, netVars, members>>
    BY <1>6 DEF HttpUpdate
  <2> HIDE DEF m
  <2> QED BY <2>1, <2>2, CommittedCommits
<1>7. ASSUME NEW r \in Req, NEW e \in Elem, NEW u \in User, HttpDelete(r, e, u)
      PROVE  \E t \in Task, m \in Commit : Commits(t, m)
  <2> DEFINE m == Deleted(e, rows[e].cv)
  <2>1. /\ m \in Commit /\ m.n = clock + 1 /\ m.cv \in Canvas /\ m.room = m.cv
        /\ m.op = "delete" /\ m.e = e /\ m.cv = rows[e].cv /\ ~Absent(e)
    BY <1>7, UpdatedIsCommit, RowIsCommit DEF HttpDelete, MayWrite, Deleted, Stamp, Commit
  <2>2. /\ Write(m, NoRow) /\ Committed(r, "delete", m.cv, u, m)
        /\ pc[r] = "idle" /\ UNCHANGED <<connVars, netVars, members>>
    BY <1>7 DEF HttpDelete
  <2> HIDE DEF m
  <2> QED BY <2>1, <2>2, CommittedCommits
<1> QED
  BY <1>1, <1>2, <1>3, <1>4, <1>5, <1>6, <1>7 DEF ElementStep

\* The steps of a handshake, a departure and a browser leave the tasks alone.
Handshake(c) ==
  \/ Check(c) \/ Refuse(c) \/ Join(c) \/ Abandon(c) \/ ReadSnapshot(c)
  \/ SendSnapshot(c) \/ SetupFails(c) \/ Disconnect(c) \/ Leave(c) \/ Receive(c)

LEMMA NextCases ==
  ASSUME [Next]_vars
  PROVE  \/ ElementStep
         \/ \E c \in Conn : Handshake(c) \/ Echo(c)
         \/ \E r \in Req : BulkDone(r) \/ RequestFails(r) \/ Respond(r)
         \/ \E r \in Req, op \in {"add", "add_bulk"}, cv \in Canvas, u \in User :
              HttpAddCheck(r, op, cv, u)
         \/ \E t \in Task : TakeRoom(t) \/ Unanswered(t)
         \/ \E t \in Task, c \in Conn : Send(t, c)
         \/ \E cv \in Canvas : CanvasStep(cv)
         \/ Restart
         \/ UNCHANGED vars
BY DEF Next, ConnStep, ReqStep, TaskStep, ElementStep, Handshake

\* A handler that raises gives up its commits and at most its own socket.
LEMMA UnansweredGivesUp ==
  ASSUME TypeOK, NEW t \in Task, Unanswered(t)
  PROVE  /\ pc[t] = "committed" /\ lost' = lost \cup work[t]
         /\ \A y \in Task : /\ pc'[y] = IF y = t THEN "idle" ELSE pc[y]
                            /\ job'[y] = IF y = t THEN NoJob ELSE job[y]
                            /\ work'[y] = IF y = t THEN {} ELSE work[y]
         /\ \A c \in Conn : /\ alive'[c] => alive[c] /\ chan'[c] = chan[c]
                            /\ chan'[c] = chan[c] \/ chan'[c] = <<>>
         /\ UNCHANGED <<status, rows, members, commits, clock, todo, rooms, phase, held, base,
                        view, got, late, stale>>
BY DEF Unanswered, dbVars, TypeOK

-----------------------------------------------------------------------------
(* The inductive invariant, conjunct by conjunct.                           *)

LEMMA WorkStep ==
  ASSUME TypeOK, WorkSound, [Next]_vars
  PROVE  WorkSound'
<1>1. CASE ElementStep
  <2>1. PICK t \in Task, m \in Commit : Commits(t, m)
    BY <1>1, ElementStepCommits
  <2>2. PICK p \in {"checked", "committed"} : pc' = [pc EXCEPT ![t] = p]
    BY <2>1 DEF Commits
  <2>3. PICK j \in Job :
          /\ job' = [job EXCEPT ![t] = j]
          /\ m.room = j.cv
          /\ pc[t] = "checked" => j.cv = job[t].cv
    BY <2>1 DEF Commits
  <2>4. /\ pc[t] \in {"idle", "checked"} /\ work' = [work EXCEPT ![t] = @ \cup {m}]
        /\ UNCHANGED todo
    BY <2>1 DEF Commits
  <2>5. \A x \in work[t] : x.room = j.cv
    <3>1. CASE pc[t] = "idle"
      BY <3>1 DEF WorkSound
    <3>2. CASE pc[t] = "checked"
      <4>1. j.cv = job[t].cv
        BY <2>3, <3>2
      <4> QED BY <4>1 DEF WorkSound
    <3> QED BY <2>4, <3>1, <3>2
  <2>6. \A x \in Task : /\ pc'[x] = IF x = t THEN p ELSE pc[x]
                        /\ job'[x] = IF x = t THEN j ELSE job[x]
                        /\ work'[x] = IF x = t THEN work[t] \cup {m} ELSE work[x]
                        /\ todo'[x] = todo[x]
    BY <2>2, <2>3, <2>4 DEF TypeOK
  <2>7. \A x \in work[t] \cup {m} : x.room = j.cv
    BY <2>3, <2>5
  <2> QED BY <2>6, <2>7 DEF WorkSound
<1>2. ASSUME NEW c \in Conn, Handshake(c) PROVE WorkSound'
  <2>1. UNCHANGED taskVars
    BY <1>2 DEF Handshake, Check, Refuse, Join, Abandon, ReadSnapshot,
       SendSnapshot, SetupFails, Disconnect, Leave, Receive
  <2> QED BY <2>1 DEF taskVars, WorkSound
<1>3. ASSUME NEW t \in Task, Rest(t) PROVE WorkSound'
  BY <1>3 DEF Rest, WorkSound, TypeOK
<1>4. ASSUME NEW r \in Req, BulkDone(r) PROVE WorkSound'
  <2>1. CASE work[r] # {}
    <3>1. pc[r] = "checked" /\ pc' = [pc EXCEPT ![r] = "committed"]
          /\ UNCHANGED <<job, work, todo>>
      BY <1>4, <2>1 DEF BulkDone
    <3> QED BY <3>1 DEF WorkSound, TypeOK
  <2>2. CASE work[r] = {}
    <3>1. pc' = [pc EXCEPT ![r] = "idle"] /\ job' = [job EXCEPT ![r] = NoJob]
          /\ UNCHANGED <<work, todo>>
      BY <1>4, <2>2 DEF BulkDone
    <3> QED BY <2>2, <3>1 DEF WorkSound, TypeOK
  <2> QED BY <2>1, <2>2
<1>5. ASSUME NEW r \in Req, RequestFails(r) PROVE WorkSound'
  BY <1>5 DEF RequestFails, WorkSound, TypeOK
<1>6. ASSUME NEW r \in Req, NEW op \in {"add", "add_bulk"}, NEW cv \in Canvas,
             NEW u \in User, HttpAddCheck(r, op, cv, u)
      PROVE  WorkSound'
  <2> DEFINE j == [op |-> op, cv |-> cv, user |-> u]
  <2>1. j \in Job
    BY DEF Job, Op
  <2>2. pc[r] = "idle" /\ pc' = [pc EXCEPT ![r] = "checked"]
        /\ job' = [job EXCEPT ![r] = j] /\ UNCHANGED <<work, todo>>
    BY <1>6 DEF HttpAddCheck
  <2> HIDE DEF j
  <2> QED BY <2>1, <2>2 DEF WorkSound, TypeOK
<1>7. ASSUME NEW t \in Task, TakeRoom(t) PROVE WorkSound'
  BY <1>7 DEF TakeRoom, WorkSound, TypeOK
<1>8. ASSUME NEW t \in Task, NEW c \in Conn, Send(t, c) PROVE WorkSound'
  <2>1. todo' = [todo EXCEPT ![t] = @ \ {c}] /\ UNCHANGED <<pc, job, work>>
    BY <1>8 DEF Send
  <2> QED BY <2>1 DEF WorkSound, TypeOK
<1>9. ASSUME NEW cv \in Canvas, CanvasStep(cv) PROVE WorkSound'
  BY <1>9 DEF CanvasStep, SetStatus, HttpSnapshot, taskVars, WorkSound
<1>10. CASE Restart
  BY <1>10 DEF Restart, WorkSound
<1>11. CASE UNCHANGED vars
  BY <1>11 DEF vars, taskVars, WorkSound
<1>12. ASSUME NEW t \in Task, Unanswered(t) PROVE WorkSound'
  BY <1>12, UnansweredGivesUp DEF WorkSound
<1> QED
  BY <1>1, <1>2, <1>3, <1>4, <1>5, <1>6, <1>7, <1>8, <1>9, <1>10, <1>11, <1>12, NextCases
  DEF Echo, Respond

\* What a frame adds to the history of its recipient.
LEMMA SendOpGot ==
  ASSUME TypeOK, NEW c \in Conn, NEW op, NEW cs \in SUBSET Commit, SendOp(c, op, cs)
  PROVE  got' = [got EXCEPT ![c] = IF alive[c] THEN @ \cup cs ELSE @]
BY DEF SendOp, netVars, TypeOK

LEMMA HistoryStep ==
  ASSUME TypeOK, WorkSound, HistorySound, [Next]_vars
  PROVE  HistorySound'
<1>1. CASE ElementStep
  <2>1. PICK t \in Task, m \in Commit : Commits(t, m)
    BY <1>1, ElementStepCommits
  <2>2. m \notin commits
    BY <2>1 DEF Commits, HistorySound, TypeOK
  <2>3. \A x \in commits' : x.n \in 1..clock'
    BY <2>1 DEF Commits, HistorySound, TypeOK
  <2>4. UNCHANGED got
    BY <2>1 DEF Commits, netVars
  <2>5. \A x \in Task : work'[x] = IF x = t THEN work[t] \cup {m} ELSE work[x]
    BY <2>1 DEF Commits, TypeOK
  <2>6. commits' = commits \cup {m}
    BY <2>1 DEF Commits
  <2> QED BY <2>2, <2>3, <2>4, <2>5, <2>6 DEF HistorySound
<1>2. ASSUME NEW c \in Conn, Handshake(c) PROVE HistorySound'
  <2>1. UNCHANGED <<work, commits, clock, got>>
    BY <1>2 DEF Handshake, Check, Refuse, Join, Abandon, ReadSnapshot, SendSnapshot,
       SetupFails, Disconnect, Leave, Receive, taskVars, dbVars, netVars
  <2> QED BY <2>1 DEF HistorySound
<1>3. ASSUME NEW c \in Conn, Echo(c) PROVE HistorySound'
  <2>1. SendOp(c, job[c].op, work[c]) /\ work[c] \in SUBSET Commit
    BY <1>3 DEF Echo, TypeOK
  <2>2. got' = [got EXCEPT ![c] = IF alive[c] THEN @ \cup work[c] ELSE @]
    BY <2>1, SendOpGot
  <2>3. work' = [work EXCEPT ![c] = {}] /\ UNCHANGED <<commits, clock>>
    BY <1>3 DEF Echo, Rest, dbVars
  <2> QED BY <2>2, <2>3 DEF HistorySound, TypeOK
<1>4. ASSUME NEW r \in Req, BulkDone(r) \/ RequestFails(r) \/ Respond(r)
      PROVE  HistorySound'
  <2>1. /\ work' = work \/ work' = [work EXCEPT ![r] = {}]
        /\ UNCHANGED <<commits, clock, got>>
    BY <1>4 DEF BulkDone, RequestFails, Respond, Rest, dbVars, netVars
  <2> QED BY <2>1 DEF HistorySound, TypeOK
<1>5. ASSUME NEW r \in Req, NEW op \in {"add", "add_bulk"}, NEW cv \in Canvas,
             NEW u \in User, HttpAddCheck(r, op, cv, u)
      PROVE  HistorySound'
  BY <1>5 DEF HttpAddCheck, dbVars, netVars, HistorySound
<1>6. ASSUME NEW t \in Task, TakeRoom(t) PROVE HistorySound'
  BY <1>6 DEF TakeRoom, dbVars, netVars, HistorySound
<1>7. ASSUME NEW t \in Task, NEW c \in Conn, Send(t, c) PROVE HistorySound'
  <2>1. SendOp(c, job[t].op, work[t]) /\ work[t] \in SUBSET Commit
    BY <1>7 DEF Send, TypeOK
  <2>2. got' = [got EXCEPT ![c] = IF alive[c] THEN @ \cup work[t] ELSE @]
    BY <2>1, SendOpGot
  <2>3. UNCHANGED <<work, commits, clock>>
    BY <1>7 DEF Send, dbVars
  <2> QED BY <2>2, <2>3 DEF HistorySound, TypeOK
<1>8. ASSUME NEW cv \in Canvas, CanvasStep(cv) PROVE HistorySound'
  BY <1>8 DEF CanvasStep, SetStatus, HttpSnapshot, taskVars, netVars, HistorySound
<1>9. CASE Restart
  BY <1>9 DEF Restart, dbVars, HistorySound
<1>10. CASE UNCHANGED vars
  BY <1>10 DEF vars, dbVars, taskVars, netVars, HistorySound
<1>11. ASSUME NEW t \in Task, Unanswered(t) PROVE HistorySound'
  BY <1>11, UnansweredGivesUp DEF HistorySound
<1> QED
  BY <1>1, <1>2, <1>3, <1>4, <1>5, <1>6, <1>7, <1>8, <1>9, <1>10, <1>11, NextCases

LEMMA RoomStep ==
  ASSUME TypeOK, WorkSound, RoomSound, [Next]_vars
  PROVE  RoomSound'
<1>1. CASE ElementStep
  <2>1. UNCHANGED <<connVars, members>>
    BY <1>1, ElementStepCommits DEF Commits
  <2> QED BY <2>1 DEF connVars, RoomSound
<1>2. ASSUME NEW c \in Conn, Handshake(c) PROVE RoomSound'
  <2>1. CASE Join(c)
    <3>1. \A cv \in Canvas : rooms'[cv] = IF cv = ConnCanvas[c] THEN rooms[cv] \cup {c}
                                                                ELSE rooms[cv]
      BY <2>1 DEF Join, TypeOK
    <3>2. \A d \in Conn : phase'[d] = IF d = c THEN "joined" ELSE phase[d]
      BY <2>1 DEF Join, TypeOK
    <3>3. members' = members \cup {<<ConnCanvas[c], ConnUser[c]>>}
      BY <2>1 DEF Join
    <3>4. \A d \in Conn : phase'[d] \in {"joined", "read", "live"} =>
            /\ d \in rooms'[ConnCanvas[d]]
            /\ <<ConnCanvas[d], ConnUser[d]>> \in members'
      BY <3>1, <3>2, <3>3 DEF RoomSound
    <3>5. ASSUME NEW d \in Conn, NEW cv \in Canvas, d \in rooms'[cv]
          PROVE  cv = ConnCanvas[d] /\ phase'[d] \notin {"new", "checked", "gone"}
      <4>1. d \in rooms[cv] \/ (d = c /\ cv = ConnCanvas[c])
        BY <3>1, <3>5
      <4>2. d \in rooms[cv] => cv = ConnCanvas[d] /\ phase[d] \notin {"new", "checked", "gone"}
        BY DEF RoomSound
      <4> QED BY <3>2, <4>1, <4>2
    <3> QED BY <3>4, <3>5 DEF RoomSound
  <2>2. CASE Leave(c)
    <3>1. \A cv \in Canvas : rooms'[cv] = IF cv = ConnCanvas[c] THEN rooms[cv] \ {c}
                                                                ELSE rooms[cv]
      BY <2>2 DEF Leave, TypeOK
    <3>2. \A d \in Conn : phase'[d] = IF d = c THEN "gone" ELSE phase[d]
      BY <2>2 DEF Leave, TypeOK
    <3>3. members' = members
      BY <2>2 DEF Leave, dbVars
    <3>4. \A d \in Conn : phase'[d] \in {"joined", "read", "live"} =>
            /\ d \in rooms'[ConnCanvas[d]]
            /\ <<ConnCanvas[d], ConnUser[d]>> \in members'
      BY <3>1, <3>2, <3>3 DEF RoomSound
    <3>5. ASSUME NEW d \in Conn, NEW cv \in Canvas, d \in rooms'[cv]
          PROVE  cv = ConnCanvas[d] /\ phase'[d] \notin {"new", "checked", "gone"}
      <4>1. d \in rooms[cv] /\ ~(d = c /\ cv = ConnCanvas[c])
        BY <3>1, <3>5
      <4>2. cv = ConnCanvas[d] /\ phase[d] \notin {"new", "checked", "gone"}
        BY <4>1 DEF RoomSound
      <4> QED BY <3>2, <4>1, <4>2
    <3> QED BY <3>4, <3>5 DEF RoomSound
  <2>3. CASE Check(c) \/ Refuse(c) \/ Abandon(c) \/ ReadSnapshot(c) \/ SendSnapshot(c)
             \/ SetupFails(c) \/ Disconnect(c) \/ Receive(c)
    <3>1. UNCHANGED <<rooms, members>>
      BY <2>3 DEF Check, Refuse, Abandon, ReadSnapshot, SendSnapshot, SetupFails,
         Disconnect, Receive, dbVars, connVars
    <3>2. \A d \in Conn :
            \/ phase'[d] = phase[d]
            \/ phase[d] = "new" /\ phase'[d] \in {"checked", "gone"}
            \/ phase[d] = "checked" /\ phase'[d] = "gone"
            \/ phase[d] \in {"joined", "read"} /\ phase'[d] \in {"read", "live", "failed"}
      BY <2>3 DEF Check, Refuse, Abandon, ReadSnapshot, SendSnapshot, SetupFails,
         Disconnect, Receive, connVars, TypeOK
    <3> QED BY <3>1, <3>2 DEF RoomSound
  <2> QED BY <1>2, <2>1, <2>2, <2>3 DEF Handshake
<1>3. ASSUME NEW c \in Conn, Echo(c) PROVE RoomSound'
  BY <1>3 DEF Echo, dbVars, connVars, RoomSound
<1>4. ASSUME NEW r \in Req, BulkDone(r) \/ RequestFails(r) \/ Respond(r)
      PROVE  RoomSound'
  BY <1>4 DEF BulkDone, RequestFails, Respond, dbVars, connVars, RoomSound
<1>5. ASSUME NEW r \in Req, NEW op \in {"add", "add_bulk"}, NEW cv \in Canvas,
             NEW u \in User, HttpAddCheck(r, op, cv, u)
      PROVE  RoomSound'
  BY <1>5 DEF HttpAddCheck, dbVars, connVars, RoomSound
<1>6. ASSUME NEW t \in Task, TakeRoom(t) PROVE RoomSound'
  BY <1>6 DEF TakeRoom, dbVars, connVars, RoomSound
<1>7. ASSUME NEW t \in Task, NEW c \in Conn, Send(t, c) PROVE RoomSound'
  BY <1>7 DEF Send, dbVars, connVars, RoomSound
<1>8. ASSUME NEW cv \in Canvas, CanvasStep(cv) PROVE RoomSound'
  BY <1>8 DEF CanvasStep, SetStatus, HttpSnapshot, connVars, RoomSound
<1>9. CASE Restart
  BY <1>9 DEF Restart, dbVars, RoomSound, TypeOK
<1>10. CASE UNCHANGED vars
  BY <1>10 DEF vars, dbVars, connVars, RoomSound
<1>11. ASSUME NEW t \in Task, Unanswered(t) PROVE RoomSound'
  BY <1>11, UnansweredGivesUp DEF RoomSound
<1> QED
  BY <1>1, <1>2, <1>3, <1>4, <1>5, <1>6, <1>7, <1>8, <1>9, <1>10, <1>11, NextCases

\* What a connection past its snapshot may expect of commit m.
Promised(m, c) ==
  /\ phase[c] \in {"read", "live"} /\ alive[c]
  /\ m \in commits /\ m \notin base[c] /\ m \notin lost
  /\ m.room = ConnCanvas[c]

LEMMA GapStep ==
  ASSUME TypeOK, WorkSound, RoomSound, NoGap, [Next]_vars
  PROVE  NoGap'
<1> SUFFICES ASSUME NEW c \in Conn, NEW m \in commits', Promised(m, c)'
             PROVE  (m \in got[c] \/ Owed(m, c))'
  BY DEF NoGap, Promised
<1>0. Promised(m, c) => m \in got[c] \/ Owed(m, c)
  BY DEF NoGap, Promised
<1>1. CASE ElementStep
  <2>1. PICK t \in Task, x \in Commit : Commits(t, x)
    BY <1>1, ElementStepCommits
  <2>2. PICK p \in {"checked", "committed"} : pc' = [pc EXCEPT ![t] = p]
    BY <2>1 DEF Commits
  <2>3. \A y \in Task : /\ pc'[y] = IF y = t THEN p ELSE pc[y]
                        /\ work'[y] = IF y = t THEN work[t] \cup {x} ELSE work[y]
                        /\ todo'[y] = todo[y]
    BY <2>1, <2>2 DEF Commits, TypeOK
  <2>4. UNCHANGED <<got, base, phase, alive, lost>> /\ commits' = commits \cup {x}
    BY <2>1 DEF Commits, netVars, connVars
  <2>5. CASE m = x
    <3>1. m \in work'[t] /\ pc'[t] \in {"checked", "committed"}
      BY <2>3, <2>5
    <3> QED BY <3>1 DEF Owed
  <2>6. CASE m \in commits
    <3>1. Promised(m, c)
      BY <2>4, <2>6 DEF Promised
    <3>2. CASE Owed(m, c)
      BY <2>3, <3>2 DEF Owed
    <3> QED BY <1>0, <2>4, <3>1, <3>2
  <2> QED BY <2>4, <2>5, <2>6
<1>2. ASSUME NEW d \in Conn, Handshake(d) PROVE (m \in got[c] \/ Owed(m, c))'
  <2>1. UNCHANGED <<taskVars, got, commits>>
    BY <1>2 DEF Handshake, Check, Refuse, Join, Abandon, ReadSnapshot, SendSnapshot,
       SetupFails, Disconnect, Leave, Receive, dbVars, netVars
  <2>2. Promised(m, c)
    <3>1. CASE ReadSnapshot(d) /\ c = d
      BY <3>1 DEF ReadSnapshot, Promised, dbVars, TypeOK
    <3>2. CASE ReadSnapshot(d) /\ c # d
      BY <3>2 DEF ReadSnapshot, Promised, dbVars, taskVars, TypeOK
    <3>3. CASE ~ReadSnapshot(d)
      <4>1. UNCHANGED <<base, lost, commits>>
        BY <1>2, <3>3 DEF Handshake, Check, Refuse, Join, Abandon, SendSnapshot,
           SetupFails, Disconnect, Leave, Receive, connVars, taskVars, dbVars
      <4>2. /\ alive'[c] => alive[c]
            /\ phase'[c] \in {"read", "live"} => phase[c] \in {"read", "live"}
        BY <1>2, <3>3 DEF Handshake, Check, Refuse, Join, Abandon, SendSnapshot,
           SetupFails, Disconnect, Leave, Receive, connVars, TypeOK
      <4> QED BY <4>1, <4>2 DEF Promised
    <3> QED BY <3>1, <3>2, <3>3
  <2> QED BY <1>0, <2>1, <2>2 DEF Owed, taskVars
<1>3. ASSUME NEW d \in Conn, Echo(d) PROVE (m \in got[c] \/ Owed(m, c))'
  <2>1. SendOp(d, job[d].op, work[d]) /\ work[d] \in SUBSET Commit
    BY <1>3 DEF Echo, TypeOK
  <2>2. got' = [got EXCEPT ![d] = IF alive[d] THEN @ \cup work[d] ELSE @]
    BY <2>1, SendOpGot
  <2>3. Promised(m, c)
    BY <1>3 DEF Echo, Rest, dbVars, connVars, Promised
  <2>4. CASE m \in got[c]
    BY <2>2, <2>4 DEF TypeOK
  <2>5. CASE Owed(m, c)
    <3>1. PICK t \in Task : /\ m \in work[t]
                           /\ \/ pc[t] \in {"checked", "committed"}
                              \/ pc[t] = "sending" /\ (c \in todo[t] \/ c = t)
      BY <2>5 DEF Owed
    <3>2. CASE t = d
      <4>1. c = d
        BY <1>3, <3>1, <3>2 DEF Echo
      <4> QED BY <2>2, <2>3, <3>1, <3>2, <4>1 DEF Promised, TypeOK
    <3>3. CASE t # d
      <4>1. pc'[t] = pc[t] /\ work'[t] = work[t] /\ todo'[t] = todo[t]
        BY <1>3, <3>3 DEF Echo, Rest, TypeOK
      <4> QED BY <3>1, <4>1 DEF Owed
    <3> QED BY <3>2, <3>3
  <2> QED BY <1>0, <2>3, <2>4, <2>5
<1>4. ASSUME NEW r \in Req, BulkDone(r) \/ RequestFails(r) \/ Respond(r)
      PROVE  (m \in got[c] \/ Owed(m, c))'
  <2>1. UNCHANGED <<dbVars, connVars, netVars, todo>>
    BY <1>4 DEF BulkDone, RequestFails, Respond, Rest
  <2>2. lost \subseteq lost' /\ Promised(m, c)
    BY <1>4, <2>1 DEF BulkDone, RequestFails, Respond, Rest, dbVars, connVars, Promised
  <2>3. \A t \in Task : t # r => pc'[t] = pc[t] /\ work'[t] = work[t]
    BY <1>4 DEF BulkDone, RequestFails, Respond, Rest, TypeOK
  <2>4. CASE Owed(m, c)
    <3>1. PICK t \in Task : /\ m \in work[t]
                           /\ \/ pc[t] \in {"checked", "committed"}
                              \/ pc[t] = "sending" /\ (c \in todo[t] \/ c = t)
      BY <2>4 DEF Owed
    <3>2. CASE t # r
      BY <2>1, <2>3, <3>1, <3>2 DEF Owed
    <3>3. CASE t = r /\ BulkDone(r)
      <4>1. pc'[r] = "committed" /\ work'[r] = work[r]
        BY <3>1, <3>3 DEF BulkDone, TypeOK
      <4> QED BY <3>1, <3>3, <4>1 DEF Owed
    <3>4. CASE t = r /\ RequestFails(r)
      BY <3>1, <3>4 DEF RequestFails, Promised
    <3>5. CASE t = r /\ Respond(r)
      BY <3>1, <3>5 DEF Respond
    <3> QED BY <1>4, <3>2, <3>3, <3>4, <3>5
  <2> QED BY <1>0, <2>1, <2>2, <2>4 DEF netVars
<1>5. ASSUME NEW r \in Req, NEW op \in {"add", "add_bulk"}, NEW cv \in Canvas,
             NEW u \in User, HttpAddCheck(r, op, cv, u)
      PROVE  (m \in got[c] \/ Owed(m, c))'
  <2>1. UNCHANGED <<dbVars, connVars, netVars, work, todo, lost>>
        /\ pc[r] = "idle" /\ pc' = [pc EXCEPT ![r] = "checked"]
    BY <1>5 DEF HttpAddCheck
  <2>2. Promised(m, c)
    BY <2>1 DEF dbVars, connVars, Promised
  <2>3. Owed(m, c) => Owed(m, c)'
    BY <2>1 DEF Owed, TypeOK
  <2> QED BY <1>0, <2>1, <2>2, <2>3 DEF netVars
<1>6. ASSUME NEW t \in Task, TakeRoom(t) PROVE (m \in got[c] \/ Owed(m, c))'
  <2>1. /\ pc[t] = "committed" /\ UNCHANGED <<work, got>>
        /\ \A y \in Task : /\ pc'[y] = IF y = t THEN "sending" ELSE pc[y]
                           /\ todo'[y] = IF y = t THEN rooms[job[t].cv] \ {t} ELSE todo[y]
    BY <1>6 DEF TakeRoom, netVars, TypeOK
  <2>2. Promised(m, c)
    BY <1>6 DEF TakeRoom, dbVars, connVars, Promised
  <2>3. CASE m \in work[t]
    <3>1. m.room = job[t].cv
      BY <2>3 DEF WorkSound
    <3>2. c \in rooms[job[t].cv]
      BY <2>2, <3>1 DEF Promised, RoomSound
    <3> QED BY <2>1, <2>3, <3>2 DEF Owed
  <2>4. CASE m \notin work[t]
    <3>1. Owed(m, c) => Owed(m, c)'
      BY <2>1, <2>4 DEF Owed
    <3> QED BY <1>0, <2>1, <2>2, <3>1
  <2> QED BY <2>3, <2>4
<1>7. ASSUME NEW t \in Task, NEW d \in Conn, Send(t, d)
      PROVE  (m \in got[c] \/ Owed(m, c))'
  <2>1. SendOp(d, job[t].op, work[t]) /\ work[t] \in SUBSET Commit
    BY <1>7 DEF Send, TypeOK
  <2>2. got' = [got EXCEPT ![d] = IF alive[d] THEN @ \cup work[t] ELSE @]
    BY <2>1, SendOpGot
  <2>3. Promised(m, c)
    BY <1>7 DEF Send, dbVars, connVars, Promised
  <2>4. /\ UNCHANGED <<pc, work>>
        /\ \A y \in Task : todo'[y] = IF y = t THEN todo[t] \ {d} ELSE todo[y]
    BY <1>7 DEF Send, TypeOK
  <2>5. CASE m \in got[c]
    BY <2>2, <2>5 DEF TypeOK
  <2>6. CASE Owed(m, c) /\ c = d /\ m \in work[t]
    BY <2>2, <2>3, <2>6 DEF Promised, TypeOK
  <2>7. CASE Owed(m, c) /\ ~(c = d /\ m \in work[t])
    BY <2>4, <2>7 DEF Owed
  <2> QED BY <1>0, <2>3, <2>5, <2>6, <2>7
<1>8. ASSUME NEW cv \in Canvas, CanvasStep(cv) PROVE (m \in got[c] \/ Owed(m, c))'
  <2>1. UNCHANGED <<commits, connVars, netVars, taskVars>>
    BY <1>8 DEF CanvasStep, SetStatus, HttpSnapshot
  <2> QED BY <1>0, <2>1 DEF connVars, netVars, taskVars, Promised, Owed
<1>9. CASE Restart
  BY <1>9 DEF Restart, Promised, TypeOK
<1>10. CASE UNCHANGED vars
  BY <1>0, <1>10 DEF vars, dbVars, connVars, netVars, taskVars, Promised, Owed
<1>11. ASSUME NEW t \in Task, Unanswered(t) PROVE (m \in got[c] \/ Owed(m, c))'
  <2>1. Promised(m, c) /\ m \notin work[t]
    BY <1>11, UnansweredGivesUp DEF Promised
  <2>2. Owed(m, c) => Owed(m, c)'
    BY <1>11, <2>1, UnansweredGivesUp DEF Owed
  <2> QED BY <1>0, <1>11, <2>1, <2>2, UnansweredGivesUp
<1> QED
  BY <1>1, <1>2, <1>3, <1>4, <1>5, <1>6, <1>7, <1>8, <1>9, <1>10, <1>11, NextCases

\* Task t may still send to connection c.
MaySend(t, c) ==
  \/ pc[t] \in {"checked", "committed"}
  \/ pc[t] = "sending" /\ (c \in todo[t] \/ c = t)

\* A frame sent to d by task t, which then owes d nothing.
LEMMA SentOnce ==
  ASSUME TypeOK, HistorySound, NeverTwice, NEW t \in Task, NEW d \in Conn,
         got' = [got EXCEPT ![d] = IF alive[d] THEN @ \cup work[t] ELSE @],
         \A y \in Task : work'[y] \subseteq work[y],
         \A y \in Task, c \in Conn : MaySend(y, c)' => MaySend(y, c) \/ work'[y] = {},
         ~MaySend(t, d)' \/ work'[t] = {}
  PROVE  NeverTwice'
<1> SUFFICES ASSUME NEW y \in Task, NEW c \in Conn, MaySend(y, c)', work'[y] # {}
             PROVE  work'[y] \cap got'[c] = {}
  BY DEF NeverTwice, MaySend
<1>1. MaySend(y, c) /\ work[y] \cap got[c] = {} /\ ~(y = t /\ c = d)
  BY DEF NeverTwice, MaySend
<1>2. CASE c # d
  BY <1>1, <1>2 DEF TypeOK
<1>3. CASE c = d
  <2>1. work[y] \cap work[t] = {}
    BY <1>1, <1>3 DEF HistorySound
  <2> QED BY <1>1, <1>3, <2>1 DEF TypeOK
<1> QED BY <1>2, <1>3

LEMMA OnceStep ==
  ASSUME TypeOK, WorkSound, HistorySound, NeverTwice, [Next]_vars
  PROVE  NeverTwice'
<1>1. CASE ElementStep
  <2>1. PICK t \in Task, m \in Commit : Commits(t, m)
    BY <1>1, ElementStepCommits
  <2>2. PICK p \in {"checked", "committed"} : pc' = [pc EXCEPT ![t] = p]
    BY <2>1 DEF Commits
  <2>3. \A c \in Conn : m \notin got[c]
    BY <2>1 DEF Commits, HistorySound, TypeOK
  <2>4. \A c \in Conn : work[t] \cap got[c] = {}
    BY <2>1 DEF Commits, WorkSound, NeverTwice
  <2>5. \A y \in Task : /\ pc'[y] = IF y = t THEN p ELSE pc[y]
                        /\ work'[y] = IF y = t THEN work[t] \cup {m} ELSE work[y]
                        /\ todo'[y] = todo[y]
    BY <2>1, <2>2 DEF Commits, TypeOK
  <2>6. UNCHANGED got
    BY <2>1 DEF Commits, netVars
  <2> QED BY <2>3, <2>4, <2>5, <2>6 DEF NeverTwice
<1>2. ASSUME NEW c \in Conn, Handshake(c) PROVE NeverTwice'
  <2>1. UNCHANGED <<taskVars, got>>
    BY <1>2 DEF Handshake, Check, Refuse, Join, Abandon, ReadSnapshot, SendSnapshot,
       SetupFails, Disconnect, Leave, Receive, netVars
  <2> QED BY <2>1 DEF taskVars, NeverTwice
<1>3. ASSUME NEW d \in Conn, Echo(d) PROVE NeverTwice'
  <2>1. SendOp(d, job[d].op, work[d]) /\ work[d] \in SUBSET Commit
    BY <1>3 DEF Echo, TypeOK
  <2>2. got' = [got EXCEPT ![d] = IF alive[d] THEN @ \cup work[d] ELSE @]
    BY <2>1, SendOpGot
  <2>3. \A y \in Task : /\ pc'[y] = IF y = d THEN "idle" ELSE pc[y]
                        /\ work'[y] = IF y = d THEN {} ELSE work[y]
                        /\ todo'[y] = todo[y]
    BY <1>3 DEF Echo, Rest, TypeOK
  <2>4. \A y \in Task, c \in Conn : MaySend(y, c)' => MaySend(y, c) \/ work'[y] = {}
    BY <2>3 DEF MaySend
  <2>5. work'[d] = {} /\ \A y \in Task : work'[y] \subseteq work[y]
    BY <2>3
  <2> QED BY <2>2, <2>4, <2>5, SentOnce
<1>4. ASSUME NEW r \in Req, BulkDone(r) \/ RequestFails(r) \/ Respond(r)
      PROVE  NeverTwice'
  <2>1. UNCHANGED <<got, todo>>
    BY <1>4 DEF BulkDone, RequestFails, Respond, Rest, netVars
  <2>2. \A y \in Task : \/ pc'[y] = pc[y] /\ work'[y] = work[y]
                        \/ work'[y] = {}
                        \/ pc[y] = "checked" /\ work'[y] = work[y]
    BY <1>4 DEF BulkDone, RequestFails, Respond, Rest, TypeOK
  <2> QED BY <2>1, <2>2 DEF NeverTwice
<1>5. ASSUME NEW r \in Req, NEW op \in {"add", "add_bulk"}, NEW cv \in Canvas,
             NEW u \in User, HttpAddCheck(r, op, cv, u)
      PROVE  NeverTwice'
  <2>1. UNCHANGED <<got, work, todo>> /\ pc[r] = "idle" /\ pc' = [pc EXCEPT ![r] = "checked"]
    BY <1>5 DEF HttpAddCheck, netVars
  <2>2. work[r] = {}
    BY <2>1 DEF WorkSound
  <2> QED BY <2>1, <2>2 DEF NeverTwice, TypeOK
<1>6. ASSUME NEW t \in Task, TakeRoom(t) PROVE NeverTwice'
  <2>1. UNCHANGED <<got, work>> /\ pc[t] = "committed"
        /\ \A y \in Task : y # t => pc'[y] = pc[y] /\ todo'[y] = todo[y]
    BY <1>6 DEF TakeRoom, netVars, TypeOK
  <2> QED BY <2>1 DEF NeverTwice
<1>7. ASSUME NEW t \in Task, NEW d \in Conn, Send(t, d) PROVE NeverTwice'
  <2>1. SendOp(d, job[t].op, work[t]) /\ work[t] \in SUBSET Commit
    BY <1>7 DEF Send, TypeOK
  <2>2. got' = [got EXCEPT ![d] = IF alive[d] THEN @ \cup work[t] ELSE @]
    BY <2>1, SendOpGot
  <2>3. /\ UNCHANGED <<pc, work>> /\ pc[t] = "sending" /\ d \in todo[t]
        /\ \A y \in Task : todo'[y] = IF y = t THEN todo[t] \ {d} ELSE todo[y]
    BY <1>7 DEF Send, TypeOK
  <2>4. d # t
    BY <2>3 DEF WorkSound
  <2>5. ~MaySend(t, d)'
    BY <2>3, <2>4 DEF MaySend
  <2>6. \A y \in Task, c \in Conn : MaySend(y, c)' => MaySend(y, c)
    BY <2>3 DEF MaySend
  <2>7. \A y \in Task : work'[y] \subseteq work[y]
    BY <2>3
  <2> QED BY <2>2, <2>5, <2>6, <2>7, SentOnce
<1>8. ASSUME NEW cv \in Canvas, CanvasStep(cv) PROVE NeverTwice'
  BY <1>8 DEF CanvasStep, SetStatus, HttpSnapshot, taskVars, netVars, NeverTwice
<1>9. CASE Restart
  BY <1>9 DEF Restart, NeverTwice
<1>10. CASE UNCHANGED vars
  BY <1>10 DEF vars, taskVars, netVars, NeverTwice
<1>11. ASSUME NEW t \in Task, Unanswered(t) PROVE NeverTwice'
  BY <1>11, UnansweredGivesUp DEF NeverTwice
<1> QED
  BY <1>1, <1>2, <1>3, <1>4, <1>5, <1>6, <1>7, <1>8, <1>9, <1>10, <1>11, NextCases

-----------------------------------------------------------------------------
(* An archived canvas that has settled.                                     *)

\* No socket of it gets past the status check.
LEMMA SocketsStayOut ==
  ASSUME TypeOK, WorkSound, [Next]_vars, NEW cv \in Canvas, Settled(cv),
         NEW c \in Conn, ConnCanvas[c] = cv
  PROVE  phase'[c] \in {"new", "gone", "failed"}
<1>0. phase[c] \in {"new", "gone", "failed"}
  BY DEF Settled
<1>1. CASE ElementStep
  BY <1>0, <1>1, ElementStepCommits DEF Commits, connVars
<1>2. ASSUME NEW d \in Conn, Handshake(d) PROVE phase'[c] \in {"new", "gone", "failed"}
  BY <1>0, <1>2 DEF Handshake, Check, Refuse, Join, Abandon, ReadSnapshot, SendSnapshot,
     SetupFails, Disconnect, Leave, Receive, connVars, Settled, TypeOK
<1>3. CASE Restart
  BY <1>0, <1>3 DEF Restart
<1>4. CASE \/ \E d \in Conn : Echo(d)
           \/ \E r \in Req : BulkDone(r) \/ RequestFails(r) \/ Respond(r)
           \/ \E r \in Req, op \in {"add", "add_bulk"}, w \in Canvas, u \in User :
                HttpAddCheck(r, op, w, u)
           \/ \E t \in Task : TakeRoom(t) \/ Unanswered(t)
           \/ \E t \in Task, d \in Conn : Send(t, d)
           \/ \E w \in Canvas : CanvasStep(w)
           \/ UNCHANGED vars
  BY <1>0, <1>4 DEF Unanswered, Echo, BulkDone, RequestFails, Respond, HttpAddCheck, TakeRoom, Send,
     CanvasStep, SetStatus, HttpSnapshot, connVars, vars
<1> QED
  BY <1>1, <1>2, <1>3, <1>4, NextCases

\* No insert for it passes its own.
LEMMA InsertsStayOut ==
  ASSUME TypeOK, [Next]_vars, NEW cv \in Canvas, Settled(cv), NEW r \in Req, pc'[r] = "checked"
  PROVE  job'[r].cv # cv
<1>0. pc[r] = "checked" => job[r].cv # cv
  BY DEF Settled
<1>1. CASE ElementStep
  BY <1>0, <1>1 DEF ElementStep, WsAdd, WsUpdate, WsDelete, HttpAdd, BulkInsert, HttpUpdate,
     HttpDelete, Committed, TypeOK
<1>2. ASSUME NEW q \in Req, NEW op \in {"add", "add_bulk"}, NEW w \in Canvas, NEW u \in User,
             HttpAddCheck(q, op, w, u)
      PROVE  job'[r].cv # cv
  BY <1>0, <1>2 DEF HttpAddCheck, Settled, TypeOK
<1>3. CASE \E q \in Req : BulkDone(q) \/ RequestFails(q) \/ Respond(q)
  BY <1>0, <1>3 DEF BulkDone, RequestFails, Respond, Rest, TypeOK
<1>4. CASE \E c \in Conn : Handshake(c)
  BY <1>0, <1>4 DEF Handshake, Check, Refuse, Join, Abandon, ReadSnapshot, SendSnapshot,
     SetupFails, Disconnect, Leave, Receive, taskVars
<1>5. CASE \E c \in Conn : Echo(c)
  BY <1>0, <1>5 DEF Echo, Rest, TypeOK
<1>6. CASE Restart
  BY <1>6 DEF Restart
<1>7. CASE \/ \E t \in Task : TakeRoom(t) \/ Unanswered(t)
           \/ \E t \in Task, c \in Conn : Send(t, c)
  BY <1>0, <1>7 DEF TakeRoom, Unanswered, Send, TypeOK
<1>8. CASE (\E w \in Canvas : CanvasStep(w)) \/ UNCHANGED vars
  BY <1>0, <1>8 DEF CanvasStep, SetStatus, HttpSnapshot, taskVars, vars
<1> QED
  BY <1>1, <1>2, <1>3, <1>4, <1>5, <1>6, <1>7, <1>8, NextCases

\* So nothing is inserted into it; updates and deletes only find what is there.
LEMMA NothingIsInserted ==
  ASSUME TypeOK, WorkSound, [Next]_vars, NEW cv \in Canvas, Settled(cv),
         NEW e \in Elem, Absent(e)
  PROVE  rows'[e] = NoRow \/ rows'[e].cv # cv
<1>0. rows[e] = NoRow
  BY DEF Absent
<1>1. ASSUME NEW c \in Conn, NEW x \in Elem, NEW kind \in Kind, WsAdd(c, x, kind)
      PROVE  rows'[e] = NoRow \/ rows'[e].cv # cv
  <2> DEFINE m == Inserted("add", x, kind, ConnUser[c], ConnCanvas[c])
  <2>1. m.e = x /\ m.cv = ConnCanvas[c] /\ ConnCanvas[c] # cv
    BY <1>1 DEF Inserted, Stamp, WsAdd, Ready, Settled
  <2>2. rows' = [rows EXCEPT ![m.e] = m]
    BY <1>1 DEF WsAdd, Write
  <2> HIDE DEF m
  <2> QED
    BY <1>0, <2>1, <2>2 DEF TypeOK
<1>2. ASSUME NEW r \in Req, NEW x \in Elem, NEW kind \in Kind, NEW op \in Op,
             pc[r] = "checked",
             LET m == Inserted(op, x, kind, job[r].user, job[r].cv) IN Write(m, m)
      PROVE  rows'[e] = NoRow \/ rows'[e].cv # cv
  <2> DEFINE m == Inserted(op, x, kind, job[r].user, job[r].cv)
  <2>1. m.e = x /\ m.cv = job[r].cv /\ job[r].cv # cv
    BY <1>2 DEF Inserted, Stamp, Settled
  <2>2. rows' = [rows EXCEPT ![m.e] = m]
    BY <1>2 DEF Write
  <2> HIDE DEF m
  <2> QED
    BY <1>0, <2>1, <2>2 DEF TypeOK
<1>3. ASSUME NEW r \in Req, NEW x \in Elem, NEW kind \in Kind,
             HttpAdd(r, x, kind) \/ BulkInsert(r, x, kind)
      PROVE  rows'[e] = NoRow \/ rows'[e].cv # cv
  BY <1>2, <1>3 DEF HttpAdd, BulkInsert, Op
<1>4. ASSUME NEW x \in Elem, NEW room, NEW u, MayWrite(u, x),
             NEW m, m.e = x, NEW row, Write(m, row)
      PROVE  rows'[e] = NoRow
  BY <1>0, <1>4 DEF MayWrite, Absent, Write, TypeOK
<1>5. CASE \/ \E c \in Conn, x \in Elem : WsUpdate(c, x) \/ WsDelete(c, x)
           \/ \E r \in Req, x \in Elem, u \in User : HttpUpdate(r, x, u) \/ HttpDelete(r, x, u)
  BY <1>4, <1>5 DEF WsUpdate, WsDelete, HttpUpdate, HttpDelete, Updated, Deleted, Stamp
<1>6. CASE UNCHANGED rows
  BY <1>0, <1>6
<1>7. ElementStep \/ UNCHANGED rows
  BY NextCases DEF Handshake, Check, Refuse, Join, Abandon, ReadSnapshot, SendSnapshot,
     SetupFails, Disconnect, Leave, Receive, Echo, BulkDone, RequestFails, Respond, HttpAddCheck,
     TakeRoom, Unanswered, Send, CanvasStep, SetStatus, HttpSnapshot, Restart, dbVars, vars
<1> QED
  BY <1>1, <1>3, <1>5, <1>6, <1>7 DEF ElementStep

-----------------------------------------------------------------------------
(* The theorems. *)

LEMMA InitIInv == Init => IInv
<1> SUFFICES ASSUME Init PROVE IInv
  OBVIOUS
<1>1. TypeOK
  <2>1. \A c \in Conn : chan[c] \in Seq(Frame)
    BY DEF Init
  <2> QED BY <2>1 DEF Init, TypeOK
<1>2. WorkSound /\ HistorySound
  BY DEF Init, WorkSound, HistorySound
<1>3. RoomSound /\ NoGap /\ NeverTwice
  BY DEF Init, RoomSound, NoGap, NeverTwice
<1> QED BY <1>1, <1>2, <1>3 DEF IInv

LEMMA StepIInv == IInv /\ [Next]_vars => IInv'
<1> SUFFICES ASSUME IInv, [Next]_vars PROVE IInv'
  OBVIOUS
<1> QED BY TypeStep, WorkStep, HistoryStep, RoomStep, GapStep, OnceStep DEF IInv

\* Every reachable state satisfies the inductive invariant.
THEOREM InductiveInvariant == Spec => []IInv
BY InitIInv, StepIInv, PTL DEF Spec

\* The types: rows, frames and the work of every handler are commits.
THEOREM TypeCorrect == Spec => []TypeOK
<1>1. IInv => TypeOK
  BY DEF IInv
<1> QED BY <1>1, InductiveInvariant, PTL

\* ws.join before the snapshot query closes the gap between snapshot and stream
\* (ws_routes.py:56-65): nothing committed after the query is missed.
THEOREM NoOpIsMissed == Spec => []NoGap
<1>1. IInv => NoGap
  BY DEF IInv
<1> QED BY <1>1, InductiveInvariant, PTL

\* Excluding the sender from the broadcast and echoing to it sends an op to a
\* client at most once (ws_routes.py:107-108, ws.py:44-46).
THEOREM NoOpIsSentTwice == Spec => []NeverTwice
<1>1. IInv => NeverTwice
  BY DEF IInv
<1> QED BY <1>1, InductiveInvariant, PTL

\* Rooms hold exactly the connections past their join that have not left, and
\* the ones whose setup failed (ws.py:23-36).
THEOREM RoomsAgree == Spec => []RoomSound
<1>1. IInv => RoomSound
  BY DEF IInv
<1> QED BY <1>1, InductiveInvariant, PTL

\* Once an archived canvas has settled it takes neither sockets nor inserts until
\* it is restored (routes.py:191-192, ws_routes.py:50-52).
THEOREM ArchivedCanvasesSettle == Spec => ArchiveSettles
<1> DEFINE Stays == \A cv \in Canvas : Settled(cv) /\ status'[cv] = "archived" =>
                      /\ Settled(cv)'
                      /\ \A e \in Elem : Absent(e) => rows'[e] = NoRow \/ rows'[e].cv # cv
<1>1. IInv /\ [Next]_vars => Stays
  <2> SUFFICES ASSUME IInv, [Next]_vars, NEW cv \in Canvas, Settled(cv), status'[cv] = "archived"
               PROVE  /\ Settled(cv)'
                      /\ \A e \in Elem : Absent(e) => rows'[e] = NoRow \/ rows'[e].cv # cv
    OBVIOUS
  <2>1. TypeOK /\ WorkSound
    BY DEF IInv
  <2>2. Settled(cv)'
    BY <2>1, SocketsStayOut, InsertsStayOut DEF Settled
  <2> QED
    BY <2>1, <2>2, NothingIsInserted
<1>2. IInv /\ [Next]_vars => [Stays]_vars
  BY <1>1
<1> QED
  BY <1>2, InductiveInvariant, PTL DEF Spec, ArchiveSettles
=============================================================================
