----------------------------- MODULE CanvasLive -----------------------------
(***************************************************************************)
(* The live half of the whiteboard server: the element rows in Postgres    *)
(* (backend/app/db.py), the rooms of open WebSockets (backend/app/ws.py),  *)
(* the socket handler (backend/app/ws_routes.py) and the HTTP handlers     *)
(* that change a canvas (backend/app/routes.py), down to what a browser    *)
(* makes of the frames it is sent (frontend/src/CanvasView.tsx).           *)
(*                                                                         *)
(* The server is one asyncio process: a handler runs alone from one await  *)
(* to the next, so an action is what happens between two awaits.  Every    *)
(* database statement commits by itself, so a statement is one step.  What *)
(* an element looks like is abstracted to the number of the commit that    *)
(* wrote it; who may write it (its kind and owner) is kept.                *)
(*                                                                         *)
(* A browser is followed only through the frames of its socket, with its   *)
(* editor up: what it draws itself and loads over HTTP is left out, and so *)
(* are images (CanvasFiles), who a caller is (SignIn, TokenCache) and the  *)
(* wake-up of tagged agents.                                               *)
(***************************************************************************)
EXTENDS Naturals, Sequences, FiniteSets

CONSTANTS Canvas,      \* canvas ids
          User,        \* DIDs
          Elem,        \* element ids (uuid4: an id is never drawn twice)
          Conn,        \* WebSocket connections, each used once
          Req,         \* slots for concurrent HTTP requests
          ConnCanvas,  \* the canvas in the path of a connection
          ConnUser,    \* the user its token stands for
          Archivable,  \* the canvases whose owner archives and restores them
          Readers,     \* the users that also read canvases over HTTP
          MaxCommits,  \* bound: element writes in a behaviour
          ChanCap,     \* bound: frames a socket buffers before a send waits
          MaxRestarts  \* bound: server restarts in a behaviour

ASSUME ConstantsAssumption ==
  /\ ConnCanvas \in [Conn -> Canvas]
  /\ ConnUser \in [Conn -> User]
  /\ Conn \cap Req = {}
  /\ Archivable \subseteq Canvas /\ Readers \subseteq User
  /\ MaxCommits \in Nat /\ ChanCap \in Nat \ {0} /\ MaxRestarts \in Nat

Task == Conn \cup Req   \* a socket handler runs one operation at a time

Kind == {"text", "mark"}
Op   == {"add", "add_bulk", "update", "delete"}

\* One committed INSERT, UPDATE or DELETE of canvas_elements: its position in
\* the commit order, the row it leaves (kind, owner and canvas of the element)
\* and the room its handler broadcasts to.
Commit == [n : Nat, op : Op, e : Elem, kind : Kind, owner : User,
           cv : Canvas, room : Canvas]

NoRow == [n |-> 0]
Job   == [op : Op, cv : Canvas, user : User]
NoJob == [op |-> "none"]
Frame == [op : Op \cup {"snapshot"}, cs : SUBSET Commit]

VARIABLES status,   \* canvases.status
          rows,     \* canvas_elements: the commit that last wrote each row
          members,  \* canvas_members
          rooms,    \* ws._rooms
          phase,    \* where each connection's handler stands
          alive,    \* the client's end of the socket is open
          held,     \* the snapshot a handler has read and not yet sent
          pc, job, work, todo,  \* each task: step, request, commits made, recipients left
          chan,     \* frames sent on each socket and not yet read by its browser
          view,     \* what each browser shows: commit number per element, 0 if absent
          clock,    \* number of commits so far
          restarts,
          \* history, read by no guard:
          commits,  \* every commit
          base,     \* the commits a connection's snapshot was read after
          got,      \* the commits whose frame was sent to a connection
          late,     \* <<connection, element>>: ops sent out of commit order
          stale,    \* <<connection, element>>: an older snapshot sent after an op
          lost      \* commits of a request that failed before its broadcast

dbVars   == <<status, rows, members, clock, commits>>
taskVars == <<pc, job, work, todo, lost>>
connVars == <<rooms, phase, alive, held, base>>
netVars  == <<chan, view, got, late, stale>>
vars     == <<dbVars, taskVars, connVars, netVars, restarts>>

-----------------------------------------------------------------------------
(* The database. *)

Absent(e) == rows[e] = NoRow

\* uuid4: an element id that no row has ever had.
Fresh(e) == \A m \in commits : m.e # e

\* The ownership split of update_element and delete_element: text is its
\* owner's, marks are everyone's.
MayWrite(u, e) == ~Absent(e) /\ (rows[e].kind = "mark" \/ rows[e].owner = u)

\* get_canvas_elements: the rows of one canvas.
Contents(cv) == { rows[e] : e \in { x \in Elem : ~Absent(x) /\ rows[x].cv = cv } }

\* Statement m commits and leaves `row`.
Write(m, row) ==
  /\ clock < MaxCommits
  /\ clock' = clock + 1
  /\ rows' = [rows EXCEPT ![m.e] = row]
  /\ commits' = commits \cup {m}

Stamp(op, e, kind, owner, cv, room) ==
  [n |-> clock + 1, op |-> op, e |-> e, kind |-> kind, owner |-> owner,
   cv |-> cv, room |-> room]

\* add_element: a row of user u on the canvas it is broadcast to.
Inserted(op, e, kind, u, cv) == Stamp(op, e, kind, u, cv, cv)

\* update_element: the row keeps its kind, owner and canvas.
Updated(e, room) ==
  Stamp("update", e, rows[e].kind, rows[e].owner, rows[e].cv, room)

\* delete_element
Deleted(e, room) ==
  Stamp("delete", e, rows[e].kind, rows[e].owner, rows[e].cv, room)

-----------------------------------------------------------------------------
(* The sockets. *)

\* What a browser shows after a frame: a snapshot replaces the scene, add and
\* update put the element in whether or not it was there, add_bulk only adds
\* elements it does not know, delete takes it out.
Shown(v, f) ==
  CASE f.op = "snapshot" ->
         [e \in Elem |-> IF \E m \in f.cs : m.e = e
                           THEN (CHOOSE m \in f.cs : m.e = e).n ELSE 0]
    [] f.op = "delete"   ->
         [e \in Elem |-> IF \E m \in f.cs : m.e = e THEN 0 ELSE v[e]]
    [] f.op = "add_bulk" ->
         [e \in Elem |-> IF v[e] = 0 /\ \E m \in f.cs : m.e = e
                           THEN (CHOOSE m \in f.cs : m.e = e).n ELSE v[e]]
    [] OTHER             ->
         [e \in Elem |-> IF \E m \in f.cs : m.e = e
                           THEN (CHOOSE m \in f.cs : m.e = e).n ELSE v[e]]

\* Elements of which c was already told something newer than the commits cs.
Overtaken(c, cs) ==
  { m.e : m \in { x \in cs : \E y \in got[c] \cup base[c] : y.e = x.e /\ y.n > x.n } }

\* A handler sends the frame of the commits cs to c.  A send to a closed
\* socket is swallowed; a full send buffer makes the sender wait.
SendOp(c, op, cs) ==
  IF alive[c]
    THEN /\ Len(chan[c]) < ChanCap
         /\ chan' = [chan EXCEPT ![c] = Append(@, [op |-> op, cs |-> cs])]
         /\ got' = [got EXCEPT ![c] = @ \cup cs]
         /\ late' = late \cup ({c} \X Overtaken(c, cs))
         /\ UNCHANGED <<view, stale>>
    ELSE UNCHANGED netVars

-----------------------------------------------------------------------------
(* The connection handler canvas_ws, from the handshake to the receive loop. *)

\* get_canvas: the canvas exists and is active.
Check(c) ==
  /\ phase[c] = "new"
  /\ status[ConnCanvas[c]] = "active"
  /\ phase' = [phase EXCEPT ![c] = "checked"]
  /\ UNCHANGED <<dbVars, taskVars, netVars, rooms, alive, held, base, restarts>>

\* Closed with 4410: the canvas is archived.
Refuse(c) ==
  /\ phase[c] = "new"
  /\ status[ConnCanvas[c]] # "active"
  /\ phase' = [phase EXCEPT ![c] = "gone"]
  /\ alive' = [alive EXCEPT ![c] = FALSE]
  /\ UNCHANGED <<dbVars, taskVars, netVars, rooms, held, base, restarts>>

\* accept, upsert_member, ws.join.  Nothing reads the membership row before
\* the join, so the two writes are one step.
Join(c) ==
  /\ phase[c] = "checked"
  /\ phase' = [phase EXCEPT ![c] = "joined"]
  /\ members' = members \cup {<<ConnCanvas[c], ConnUser[c]>>}
  /\ rooms' = [rooms EXCEPT ![ConnCanvas[c]] = @ \cup {c}]
  /\ UNCHANGED <<status, rows, clock, commits, taskVars, netVars, alive, held,
                 base, restarts>>

\* accept fails: the client left during the handshake.
Abandon(c) ==
  /\ phase[c] = "checked"
  /\ ~alive[c]
  /\ phase' = [phase EXCEPT ![c] = "gone"]
  /\ UNCHANGED <<dbVars, taskVars, netVars, rooms, alive, held, base, restarts>>

\* get_canvas_snapshot
ReadSnapshot(c) ==
  /\ phase[c] = "joined"
  /\ phase' = [phase EXCEPT ![c] = "read"]
  /\ held' = [held EXCEPT ![c] = Contents(ConnCanvas[c])]
  /\ base' = [base EXCEPT ![c] = commits]
  /\ UNCHANGED <<dbVars, taskVars, netVars, rooms, alive, restarts>>

\* The snapshot frame, sent with no room lock held; then the receive loop.
SendSnapshot(c) ==
  /\ phase[c] = "read"
  /\ phase' = [phase EXCEPT ![c] = "live"]
  /\ held' = [held EXCEPT ![c] = {}]
  /\ IF alive[c]
       THEN /\ Len(chan[c]) < ChanCap
            /\ chan' = [chan EXCEPT ![c] =
                          Append(@, [op |-> "snapshot", cs |-> held[c]])]
            /\ stale' = stale \cup ({c} \X { m.e : m \in got[c] \ base[c] })
            /\ UNCHANGED <<got, view, late>>
       ELSE UNCHANGED netVars
  /\ UNCHANGED <<dbVars, taskVars, rooms, alive, base, restarts>>

\* An exception between ws.join and the try statement: a query fails, or the
\* snapshot frame meets a socket that is already closed.  No finally clause
\* runs; the server closes the socket.
SetupFails(c) ==
  /\ phase[c] = "joined" \/ (phase[c] = "read" /\ ~alive[c])
  /\ phase' = [phase EXCEPT ![c] = "failed"]
  /\ held' = [held EXCEPT ![c] = {}]
  /\ alive' = [alive EXCEPT ![c] = FALSE]
  /\ chan' = [chan EXCEPT ![c] = <<>>]
  /\ UNCHANGED <<dbVars, taskVars, view, got, late, stale, rooms, base, restarts>>

\* The client closes its end, at any moment.  An operation that raises (a failed
\* statement, a message that is no object) ends a live handler like this, too.
Disconnect(c) ==
  /\ alive[c]
  /\ phase[c] \notin {"new", "gone"}
  /\ alive' = [alive EXCEPT ![c] = FALSE]
  /\ chan' = [chan EXCEPT ![c] = <<>>]
  /\ UNCHANGED <<dbVars, taskVars, view, got, late, stale, rooms, phase, held, base,
                 restarts>>

\* Slip: no finally clause.
LeaveForgotten(c) ==
  /\ phase[c] = "live"
  /\ ~alive[c]
  /\ pc[c] = "idle"
  /\ phase' = [phase EXCEPT ![c] = "gone"]
  /\ UNCHANGED <<dbVars, taskVars, netVars, rooms, alive, held, base, restarts>>

\* receive_text (or the echo) raises; the finally clause leaves the room.
Leave(c) ==
  /\ phase[c] = "live"
  /\ ~alive[c]
  /\ pc[c] = "idle"
  /\ phase' = [phase EXCEPT ![c] = "gone"]
  /\ rooms' = [rooms EXCEPT ![ConnCanvas[c]] = @ \ {c}]
  /\ UNCHANGED <<dbVars, taskVars, netVars, alive, held, base, restarts>>

\* The browser takes the next frame (ws.onmessage).
Receive(c) ==
  /\ chan[c] # <<>>
  /\ view' = [view EXCEPT ![c] = Shown(@, Head(chan[c]))]
  /\ chan' = [chan EXCEPT ![c] = Tail(@)]
  /\ UNCHANGED <<dbVars, taskVars, connVars, got, late, stale, restarts>>

-----------------------------------------------------------------------------
(* Operations that arrive on a socket: ws_routes._handle_add, _handle_update *)
(* and _handle_delete.  They look at neither the canvas's status nor, for an *)
(* update or a delete, at the canvas the element is on.  A refused operation *)
(* only sends an error to its sender and changes nothing.                    *)

Ready(c) == phase[c] = "live" /\ pc[c] = "idle"

\* Task t has made commit m and has yet to take the room list.
Committed(t, op, room, u, m) ==
  /\ pc' = [pc EXCEPT ![t] = "committed"]
  /\ job' = [job EXCEPT ![t] = [op |-> op, cv |-> room, user |-> u]]
  /\ work' = [work EXCEPT ![t] = @ \cup {m}]
  /\ UNCHANGED <<todo, lost>>

WsAdd(c, e, kind) ==
  /\ Ready(c)
  /\ Fresh(e)
  /\ LET m == Inserted("add", e, kind, ConnUser[c], ConnCanvas[c])
     IN  Write(m, m) /\ Committed(c, "add", ConnCanvas[c], ConnUser[c], m)
  /\ UNCHANGED <<status, members, connVars, netVars, restarts>>

WsUpdate(c, e) ==
  /\ Ready(c)
  /\ MayWrite(ConnUser[c], e)
  /\ LET m == Updated(e, ConnCanvas[c])
     IN  Write(m, m) /\ Committed(c, "update", ConnCanvas[c], ConnUser[c], m)
  /\ UNCHANGED <<status, members, connVars, netVars, restarts>>

WsDelete(c, e) ==
  /\ Ready(c)
  /\ MayWrite(ConnUser[c], e)
  /\ LET m == Deleted(e, ConnCanvas[c])
     IN  Write(m, NoRow) /\ Committed(c, "delete", ConnCanvas[c], ConnUser[c], m)
  /\ UNCHANGED <<status, members, connVars, netVars, restarts>>

-----------------------------------------------------------------------------
(* Operations that arrive by HTTP. *)

\* Slip: the status of the canvas is not looked at.
HttpAddUnchecked(r, op, cv, u) ==
  /\ pc[r] = "idle"
  /\ pc' = [pc EXCEPT ![r] = "checked"]
  /\ job' = [job EXCEPT ![r] = [op |-> op, cv |-> cv, user |-> u]]
  /\ UNCHANGED <<dbVars, connVars, netVars, work, todo, lost, restarts>>

\* add_element and add_elements_bulk: 409 unless the canvas is active.
HttpAddCheck(r, op, cv, u) ==
  /\ pc[r] = "idle"
  /\ status[cv] = "active"
  /\ pc' = [pc EXCEPT ![r] = "checked"]
  /\ job' = [job EXCEPT ![r] = [op |-> op, cv |-> cv, user |-> u]]
  /\ UNCHANGED <<dbVars, connVars, netVars, work, todo, lost, restarts>>

HttpAdd(r, e, kind) ==
  /\ pc[r] = "checked"
  /\ job[r].op = "add"
  /\ Fresh(e)
  /\ LET m == Inserted("add", e, kind, job[r].user, job[r].cv)
     IN  Write(m, m) /\ Committed(r, "add", job[r].cv, job[r].user, m)
  /\ UNCHANGED <<status, members, connVars, netVars, restarts>>

\* One turn of the bulk loop: a row of its own, committed by itself.
BulkInsert(r, e, kind) ==
  /\ pc[r] = "checked"
  /\ job[r].op = "add_bulk"
  /\ Fresh(e)
  /\ LET m == Inserted("add_bulk", e, kind, job[r].user, job[r].cv)
     IN  Write(m, m) /\ work' = [work EXCEPT ![r] = @ \cup {m}]
  /\ UNCHANGED <<status, members, connVars, netVars, pc, job, todo, lost, restarts>>

\* Slip: the rows are returned to their author and broadcast to nobody.
BulkDoneSilently(r) ==
  /\ pc[r] = "checked"
  /\ job[r].op = "add_bulk"
  /\ pc' = [pc EXCEPT ![r] = "idle"]
  /\ job' = [job EXCEPT ![r] = NoJob]
  /\ work' = [work EXCEPT ![r] = {}]
  /\ UNCHANGED <<dbVars, connVars, netVars, todo, lost, restarts>>

\* The loop ends: one frame for all rows, none when every item was skipped.
BulkDone(r) ==
  /\ pc[r] = "checked"
  /\ job[r].op = "add_bulk"
  /\ IF work[r] # {}
       THEN pc' = [pc EXCEPT ![r] = "committed"] /\ UNCHANGED job
       ELSE /\ pc' = [pc EXCEPT ![r] = "idle"]
            /\ job' = [job EXCEPT ![r] = NoJob]
  /\ UNCHANGED <<dbVars, connVars, netVars, work, todo, lost, restarts>>

\* A statement of an insert fails: the request answers 500, and the rows a bulk
\* request had inserted stay, never broadcast.
RequestFails(r) ==
  /\ pc[r] = "checked"
  /\ lost' = lost \cup work[r]
  /\ pc' = [pc EXCEPT ![r] = "idle"]
  /\ job' = [job EXCEPT ![r] = NoJob]
  /\ work' = [work EXCEPT ![r] = {}]
  /\ UNCHANGED <<dbVars, connVars, netVars, todo, restarts>>

\* PATCH /elements/{id}: broadcast to the canvas of the row.
HttpUpdate(r, e, u) ==
  /\ pc[r] = "idle"
  /\ MayWrite(u, e)
  /\ LET m == Updated(e, rows[e].cv)
     IN  Write(m, m) /\ Committed(r, "update", m.cv, u, m)
  /\ UNCHANGED <<status, members, connVars, netVars, restarts>>

\* DELETE /elements/{id}.  The row it looks up first gives it only the canvas,
\* which never changes; the DELETE statement decides.
HttpDelete(r, e, u) ==
  /\ pc[r] = "idle"
  /\ MayWrite(u, e)
  /\ LET m == Deleted(e, rows[e].cv)
     IN  Write(m, NoRow) /\ Committed(r, "delete", m.cv, u, m)
  /\ UNCHANGED <<status, members, connVars, netVars, restarts>>

\* archive_canvas and restore_canvas.  Only the owner may, and the owner and
\* the existence of a canvas never change, so the lookup and the write are one
\* step.  Open connections are told nothing.
SetStatus(cv, s) ==
  /\ cv \in Archivable
  /\ status[cv] # s
  /\ status' = [status EXCEPT ![cv] = s]
  /\ UNCHANGED <<rows, members, clock, commits, taskVars, connVars, netVars, restarts>>

\* GET /canvases/{id}/snapshot records its reader as a member.
HttpSnapshot(cv, u) ==
  /\ u \in Readers
  /\ members' = members \cup {<<cv, u>>}
  /\ UNCHANGED <<status, rows, clock, commits, taskVars, connVars, netVars, restarts>>

-----------------------------------------------------------------------------
(* ws.broadcast and what follows it in each handler. *)

\* Slips: sockets whose snapshot is on its way are skipped; the sender is not
\* excluded.
TakeRoomOfLive(t) ==
  /\ pc[t] = "committed"
  /\ pc' = [pc EXCEPT ![t] = "sending"]
  /\ todo' = [todo EXCEPT ![t] =
                { c \in rooms[job[t].cv] \ {t} : phase[c] = "live" }]
  /\ UNCHANGED <<dbVars, connVars, netVars, job, work, lost, restarts>>

TakeWholeRoom(t) ==
  /\ pc[t] = "committed"
  /\ pc' = [pc EXCEPT ![t] = "sending"]
  /\ todo' = [todo EXCEPT ![t] = rooms[job[t].cv]]
  /\ UNCHANGED <<dbVars, connVars, netVars, job, work, lost, restarts>>

\* The room is copied under the lock.
TakeRoom(t) ==
  /\ pc[t] = "committed"
  /\ pc' = [pc EXCEPT ![t] = "sending"]
  /\ todo' = [todo EXCEPT ![t] = rooms[job[t].cv] \ {t}]
  /\ UNCHANGED <<dbVars, connVars, netVars, job, work, lost, restarts>>

\* The statement committed and its answer is lost: the handler raises before it
\* takes the room, and a socket of its own is closed.
Unanswered(t) ==
  /\ pc[t] = "committed" /\ job[t].op # "add_bulk"
  /\ lost' = lost \cup work[t]
  /\ pc' = [pc EXCEPT ![t] = "idle"]
  /\ job' = [job EXCEPT ![t] = NoJob]
  /\ work' = [work EXCEPT ![t] = {}]
  /\ alive' = [c \in Conn |-> alive[c] /\ c # t]
  /\ chan' = [c \in Conn |-> IF c = t THEN <<>> ELSE chan[c]]
  /\ UNCHANGED <<dbVars, todo, rooms, phase, held, base, view, got, late, stale, restarts>>

\* Slip: the exception of a dead socket ends the loop.
SendUnguarded(t, c) ==
  /\ pc[t] = "sending"
  /\ c \in todo[t]
  /\ todo' = [todo EXCEPT ![t] = IF alive[c] THEN @ \ {c} ELSE {}]
  /\ SendOp(c, job[t].op, work[t])
  /\ UNCHANGED <<dbVars, connVars, pc, job, work, lost, restarts>>

\* One send of the loop; the list came from a Python set, in no order.
Send(t, c) ==
  /\ pc[t] = "sending"
  /\ c \in todo[t]
  /\ todo' = [todo EXCEPT ![t] = @ \ {c}]
  /\ SendOp(c, job[t].op, work[t])
  /\ UNCHANGED <<dbVars, connVars, pc, job, work, lost, restarts>>

\* Slip: the commits of the last request are still there in the next one.
RestDirty(t) ==
  /\ pc' = [pc EXCEPT ![t] = "idle"]
  /\ job' = [job EXCEPT ![t] = NoJob]
  /\ UNCHANGED <<work, todo, lost>>

\* The task is done with its request.
Rest(t) ==
  /\ pc' = [pc EXCEPT ![t] = "idle"]
  /\ job' = [job EXCEPT ![t] = NoJob]
  /\ work' = [work EXCEPT ![t] = {}]
  /\ UNCHANGED <<todo, lost>>

\* A socket handler echoes the op to its own client, then receives again.
Echo(c) ==
  /\ pc[c] = "sending"
  /\ todo[c] = {}
  /\ SendOp(c, job[c].op, work[c])
  /\ Rest(c)
  /\ UNCHANGED <<dbVars, connVars, restarts>>

\* An HTTP handler returns its response.
Respond(r) ==
  /\ pc[r] = "sending"
  /\ todo[r] = {}
  /\ Rest(r)
  /\ UNCHANGED <<dbVars, connVars, netVars, restarts>>

\* The process dies and comes back: rooms, tasks and sockets are gone, the
\* database stays.
Restart ==
  /\ restarts < MaxRestarts
  /\ restarts' = restarts + 1
  /\ rooms' = [cv \in Canvas |-> {}]
  /\ phase' = [c \in Conn |-> IF phase[c] = "new" THEN "new" ELSE "gone"]
  /\ alive' = [c \in Conn |-> phase[c] = "new"]
  /\ held' = [c \in Conn |-> {}]
  /\ chan' = [c \in Conn |-> <<>>]
  /\ pc' = [t \in Task |-> "idle"]
  /\ job' = [t \in Task |-> NoJob]
  /\ work' = [t \in Task |-> {}]
  /\ todo' = [t \in Task |-> {}]
  /\ UNCHANGED <<dbVars, base, view, got, late, stale, lost>>

-----------------------------------------------------------------------------
Init ==
  /\ status = [cv \in Canvas |-> "active"]
  /\ rows = [e \in Elem |-> NoRow]
  /\ members = {}
  /\ rooms = [cv \in Canvas |-> {}]
  /\ phase = [c \in Conn |-> "new"]
  /\ alive = [c \in Conn |-> TRUE]
  /\ held = [c \in Conn |-> {}]
  /\ pc = [t \in Task |-> "idle"]
  /\ job = [t \in Task |-> NoJob]
  /\ work = [t \in Task |-> {}]
  /\ todo = [t \in Task |-> {}]
  /\ chan = [c \in Conn |-> <<>>]
  /\ view = [c \in Conn |-> [e \in Elem |-> 0]]
  /\ clock = 0
  /\ restarts = 0
  /\ commits = {}
  /\ base = [c \in Conn |-> {}]
  /\ got = [c \in Conn |-> {}]
  /\ late = {}
  /\ stale = {}
  /\ lost = {}

ConnStep(c) ==
  \/ Check(c) \/ Refuse(c) \/ Join(c) \/ Abandon(c) \/ ReadSnapshot(c)
  \/ SendSnapshot(c) \/ SetupFails(c) \/ Disconnect(c) \/ Leave(c)
  \/ Receive(c) \/ Echo(c)
  \/ \E e \in Elem : WsUpdate(c, e) \/ WsDelete(c, e)
  \/ \E e \in Elem, kind \in Kind : WsAdd(c, e, kind)

ReqStep(r) ==
  \/ BulkDone(r) \/ RequestFails(r) \/ Respond(r)
  \/ \E op \in {"add", "add_bulk"}, cv \in Canvas, u \in User :
       HttpAddCheck(r, op, cv, u)
  \/ \E e \in Elem, kind \in Kind : HttpAdd(r, e, kind) \/ BulkInsert(r, e, kind)
  \/ \E e \in Elem, u \in User : HttpUpdate(r, e, u) \/ HttpDelete(r, e, u)

TaskStep(t) == TakeRoom(t) \/ Unanswered(t) \/ \E c \in Conn : Send(t, c)

CanvasStep(cv) ==
  \/ \E s \in {"active", "archived"} : SetStatus(cv, s)
  \/ \E u \in User : HttpSnapshot(cv, u)

Next ==
  \/ \E c \in Conn : ConnStep(c)
  \/ \E r \in Req : ReqStep(r)
  \/ \E t \in Task : TaskStep(t)
  \/ \E cv \in Canvas : CanvasStep(cv)
  \/ Restart

Spec == Init /\ [][Next]_vars

\* A started handler keeps being scheduled by the event loop, a browser keeps
\* reading its socket.  Nobody has to connect, write, archive, fail or restart.
Fairness ==
  /\ \A c \in Conn : WF_vars(Join(c) \/ ReadSnapshot(c) \/ SendSnapshot(c))
  /\ \A c \in Conn : WF_vars(Leave(c)) /\ WF_vars(Echo(c)) /\ WF_vars(Receive(c))
  /\ \A r \in Req : WF_vars(BulkDone(r)) /\ WF_vars(Respond(r))
  /\ \A t \in Task : WF_vars(TakeRoom(t) \/ \E c \in Conn : Send(t, c))

FairSpec == Spec /\ Fairness
-----------------------------------------------------------------------------
(* What the live board promises. *)

\* Every variable has its type: in particular a row, a frame and the work of a
\* handler are made of commits.
TypeOK ==
  /\ status \in [Canvas -> {"active", "archived"}]
  /\ rows \in [Elem -> Commit \cup {NoRow}]
  /\ members \subseteq Canvas \X User
  /\ rooms \in [Canvas -> SUBSET Conn]
  /\ phase \in [Conn -> {"new", "checked", "joined", "read", "live", "gone", "failed"}]
  /\ alive \in [Conn -> BOOLEAN]
  /\ held \in [Conn -> SUBSET Commit]
  /\ pc \in [Task -> {"idle", "checked", "committed", "sending"}]
  /\ job \in [Task -> Job \cup {NoJob}]
  /\ work \in [Task -> SUBSET Commit]
  /\ todo \in [Task -> SUBSET Conn]
  /\ chan \in [Conn -> Seq(Frame)]
  /\ view \in [Conn -> [Elem -> Nat]]
  /\ clock \in Nat /\ restarts \in Nat
  /\ commits \subseteq Commit
  /\ base \in [Conn -> SUBSET Commit]
  /\ got \in [Conn -> SUBSET Commit]
  /\ late \subseteq Conn \X Elem
  /\ stale \subseteq Conn \X Elem
  /\ lost \subseteq Commit

\* A handler still owes commit m to connection c: it has not copied the room
\* yet, or c is on its list, or c is its own socket and the echo is to come.
Owed(m, c) ==
  \E t \in Task :
    /\ m \in work[t]
    /\ \/ pc[t] \in {"checked", "committed"}
       \/ pc[t] = "sending" /\ (c \in todo[t] \/ c = t)

\* No gap between the snapshot and the stream (ws_routes.py:56-65): whatever a
\* connection's snapshot did not contain has been sent to it or is still owed
\* to it, however handlers, archives and disconnects interleave.
NoGap ==
  \A c \in Conn : phase[c] \in {"read", "live"} /\ alive[c] =>
    \A m \in commits \ (base[c] \cup lost) :
      m.room = ConnCanvas[c] => m \in got[c] \/ Owed(m, c)

\* An op reaches a client once (broadcast excludes the sender, who is echoed
\* to): what is still to be sent to a connection has not been sent to it.
NeverTwice ==
  \A t \in Task, c \in Conn :
    \/ pc[t] \in {"checked", "committed"}
    \/ pc[t] = "sending" /\ (c \in todo[t] \/ c = t)
    => work[t] \cap got[c] = {}

\* The room and the handlers agree (ws.py:23-36, ws_routes.py:56,86): whoever
\* is past the join is in the room of its canvas and a member of it; a room
\* holds connections to its canvas only, and none that left.
RoomSound ==
  \A c \in Conn :
    /\ phase[c] \in {"joined", "read", "live"} =>
         /\ c \in rooms[ConnCanvas[c]]
         /\ <<ConnCanvas[c], ConnUser[c]>> \in members
    /\ \A cv \in Canvas : c \in rooms[cv] =>
         cv = ConnCanvas[c] /\ phase[c] \notin {"new", "checked", "gone"}

\* What makes the three above inductive.  A task at rest holds no commits; one
\* at work has a request, and broadcasts its commits to their room.
WorkSound ==
  \A t \in Task :
    /\ pc[t] = "idle" => work[t] = {}
    /\ pc[t] # "idle" => job[t] \in Job
    /\ \A m \in work[t] : m.room = job[t].cv
    /\ pc[t] = "sending" => t \notin todo[t]

\* Commits are numbered up to the clock; what is being or has been sent was
\* committed; no two tasks send the same commit.
HistorySound ==
  /\ \A m \in commits : m.n \in 1..clock
  /\ \A t \in Task : work[t] \subseteq commits
  /\ \A c \in Conn : got[c] \subseteq commits
  /\ \A t1, t2 \in Task : t1 # t2 => work[t1] \cap work[t2] = {}

\* The inductive invariant behind the theorems of CanvasLiveProofs.
IInv == TypeOK /\ WorkSound /\ HistorySound /\ RoomSound /\ NoGap /\ NeverTwice

Quiescent == (\A t \in Task : pc[t] = "idle") /\ (\A c \in Conn : chan[c] = <<>>)

\* What a browser shows of element e is what the database holds.
Agrees(c, e) ==
  view[c][e] = IF ~Absent(e) /\ rows[e].cv = ConnCanvas[c] THEN rows[e].n ELSE 0

Watching(c) == phase[c] = "live" /\ alive[c]

\* What c has to know of e has its way to c: whatever its snapshot did not have was
\* broadcast, to its room, and it was told of no e that is on another canvas.
Reached(c, e) ==
  /\ \A m \in got[c] : m.e = e => m.cv = ConnCanvas[c]
  /\ \A m \in commits \ base[c] :
       m.e = e /\ m.cv = ConnCanvas[c] => m.room = ConnCanvas[c] /\ m \notin lost

\* Once everything sent has been read, a browser shows the database, except for an
\* element whose frames left the server out of order, or of which it was not told
\* what its snapshot lacked: an insert of a bulk that failed halfway, a change
\* through the socket of another canvas.  Whoever joins later is shown those, too.
ConvergesInOrder ==
  Quiescent =>
    \A c \in Conn, e \in Elem :
      Watching(c) /\ <<c, e>> \notin late \cup stale /\ Reached(c, e) => Agrees(c, e)

\* The canvas is archived and nothing that was let in before is still at work:
\* no socket is past its status check, no insert has passed its own.
Settled(cv) ==
  /\ status[cv] = "archived"
  /\ \A c \in Conn : ConnCanvas[c] = cv => phase[c] \in {"new", "gone", "failed"}
  /\ \A r \in Req : pc[r] = "checked" => job[r].cv # cv

\* An archived canvas that has settled stays so and does not grow until it is
\* restored: every later insert and every new socket is refused
\* (routes.py:191-192, ws_routes.py:50-52).
ArchiveSettles ==
  [][\A cv \in Canvas :
       Settled(cv) /\ status'[cv] = "archived" =>
         /\ Settled(cv)'
         /\ \A e \in Elem : Absent(e) => rows'[e] = NoRow \/ rows'[e].cv # cv]_vars

\* A client that closes its socket after the handshake is eventually taken out
\* of the room (ws_routes.py:83-86), even in the middle of a broadcast.
LiveLeaves ==
  \A c \in Conn : (phase[c] = "live" /\ ~alive[c]) ~> c \notin rooms[ConnCanvas[c]]

\* Every commit reaches every browser watching its room, unless the browser
\* goes away, its snapshot already had it or its request failed first.
Delivered ==
  \A c \in Conn, n \in 1..MaxCommits :
    (/\ Watching(c)
     /\ \E m \in commits \ (base[c] \cup lost) :
          m.n = n /\ m.room = ConnCanvas[c])
    ~> (~alive[c] \/ \E m \in got[c] \cup lost : m.n = n)
-----------------------------------------------------------------------------
(* What the sources say of the board and the code does not keep. *)

\* "everyone connected to the same canvas sees updates in real time"
\* (README.md:4): when nothing is in flight, a browser shows the database.
Converges ==
  Quiescent /\ lost = {} =>
    \A c \in Conn, e \in Elem : Watching(c) => Agrees(c, e)

\* "Broadcasts element-level ops (add/update/delete) to every connected client
\* on that canvas" (ws.py:3-4): the room an op goes to is the canvas of its
\* element.
OpsReachTheirCanvas == \A m \in commits : m.room = m.cv

\* "Client likely gone; leave() will clean up on the receive side" (ws.py:50):
\* a connection whose client is gone ends up in no room.
LeaveCleansUp ==
  \A c \in Conn : ~alive[c] ~> \A cv \in Canvas : c \notin rooms[cv]
=============================================================================
