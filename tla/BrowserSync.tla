---------------------------- MODULE BrowserSync ----------------------------
(***************************************************************************)
(* The local edits of one browser on one canvas: CanvasView.tsx finds them *)
(* by comparing the scene with a baseline, keeps them until a timer fires, *)
(* creates elements over HTTP and sends updates and deletes on its socket, *)
(* while the server answers, echoes everything and relays what others do.  *)
(*                                                                         *)
(* An element is its Excalidraw id, the number of the edit that gave it    *)
(* its content (versionNonce) and its wbid, the number of its row; 0 is no *)
(* content (a deleted element) and no wbid.  Excalidraw is external: an    *)
(* edit and the onChange that reports it are one step, and an edit may     *)
(* change the element object in place or replace it.  The server is one    *)
(* step for each request; CanvasLive has its interleavings.  An image is   *)
(* held back until its bytes are uploaded (CanvasFiles has the bytes).  Of *)
(* elements that are someone else's text the browser sends nothing; they   *)
(* are left out.                                                           *)
(***************************************************************************)
EXTENDS Integers, Sequences, FiniteSets, SequencesExt

CONSTANTS
  Elem,        \* Excalidraw ids this browser may draw
  MaxImages,   \* images among them (bound)
  Flight,      \* flushes that may be under way at once (bound)
  MaxEdits,    \* edits made, here and elsewhere (bound)
  Backlog      \* messages on the socket when a flush may start (bound)

ASSUME BrowserAssumption == {MaxImages, MaxEdits, Backlog} \subseteq Nat

VARIABLES
  scene,     \* what Excalidraw shows, in order
  known,     \* knownRef: the baseline
  creates, updates, deletes,   \* pendingRef
  timer,     \* a flush is scheduled
  flight,    \* the flushes awaiting the answer to their POST
  rows,      \* canvas_elements of the canvas, in order of creation
  up, down,  \* the socket: to the server, to the browser
  socket,    \* "connecting", "open", "closed", or "left": the view is unmounted
  http,      \* the HTTP snapshot: "asked", "read" or "done"
  answered,  \* the elements it carries
  upload,    \* images: "asked", "stored" (imagesUploadedRef) or "failed"; else "none"
  edits,     \* the number of edits made here: 1, 2, ...
  others,    \* and elsewhere: MaxEdits + 1, MaxEdits + 2, ...
  \* history
  due,       \* element -> its edit that has yet to reach its row, Erased if
             \*   that is its deletion, 0 if none or given up, or Undrawn
  skipped,   \* a bulk request has left out an image
  raced      \* a flush has begun while another still had updates to send

pendVars == <<creates, updates, deletes, timer>>
netVars == <<up, down, socket, http, answered>>
countVars == <<edits, others, upload>>
raceVars == <<skipped, raced>>
historyVars == <<due, raceVars>>
browserVars == <<scene, known, pendVars, flight, rows, netVars, countVars, historyVars>>

Erased == -1
Undrawn == -2

El(e, v, w) == [id |-> e, v |-> v, wbid |-> w]
Unknown == [v |-> 0, wbid |-> 0]
Landed == [stage |-> "idle", batch |-> <<>>, reply |-> <<>>, updates |-> {}, deletes |-> {}]

Image == { e \in Elem : upload[e] # "none" }
Ids(els) == { el.id : el \in ToSet(els) }

\* The elements of a list that are among these, in their order.
Only(els, these) ==
  LET places == { i \in DOMAIN els : els[i] \in these }
  IN  [k \in 1..Cardinality(places) |->
         els[CHOOSE i \in places : Cardinality({ j \in places : j <= i }) = k]]

\* No id is twice in the list.
Distinct(els) == \A i, j \in DOMAIN els : els[i].id = els[j].id => i = j

\* What a snapshot carries: the rows there are.
Board == LET all == [w \in DOMAIN rows |-> El(rows[w].id, rows[w].v, w)]
         IN  Only(all, { el \in ToSet(all) : el.v # 0 })

-----------------------------------------------------------------------------
(* applyScene: a scene that did not come from the user is shown, and the   *)
(* baseline rebuilt from it.                                               *)

Info(el) == [v |-> el.v, wbid |-> el.wbid]

Baseline(els) ==
  [e \in Elem |-> LET places == { i \in DOMAIN els : els[i].id = e }
                  IN  IF places = {} THEN Unknown ELSE Info(els[Max(places)])]

\* Slips: the baseline is emptied and not rebuilt; it is left as it was.
ApplyAndForget(els) ==
  /\ scene' = els
  /\ known' = [e \in Elem |-> Unknown]

ApplyAndKeep(els) ==
  /\ scene' = els
  /\ known' = [e \in Elem |-> IF known[e] = Unknown THEN Baseline(els)[e] ELSE known[e]]

ApplyScene(els) ==
  /\ scene' = els
  /\ known' = Baseline(els)

-----------------------------------------------------------------------------
(* handleChange.  No id is twice in the list that is reported (Doubled),   *)
(* so each element is compared with its own entry of the baseline.         *)

\* Images are passed over until their upload is through.
HeldBack == { e \in Elem : upload[e] \in {"asked", "failed"} }

\* What is looked at: elements that are not in the baseline, and elements that
\* have another content there.
Fresh(els, held) ==
  { el \in ToSet(els) : el.v # 0 /\ el.id \notin held /\ known[el.id] = Unknown }

Touched(els, held) ==
  { el \in ToSet(els) : /\ el.v # 0 /\ el.id \notin held
                        /\ known[el.id] # Unknown /\ known[el.id].v # el.v }

\* Ids of the baseline that the list has as deleted or has no longer.
Gone(els) ==
  { e \in Elem : known[e] # Unknown /\ \A el \in ToSet(els) : el.id = e => el.v = 0 }

\* pend.creates.set: an id keeps its place in the Map.
SetCreates(made, els, new) ==
  [k \in DOMAIN made |->
     IF \E el \in new : el.id = made[k].id THEN CHOOSE el \in new : el.id = made[k].id
                                           ELSE made[k]]
  \o Only(els, { el \in new : el.id \notin Ids(made) })

\* Slip: an update that is pending is not replaced by a later one.
SetOnce(changed, new) ==
  changed \cup { el \in new : \A u \in changed : u.wbid # el.wbid }

\* pend.updates.set: the update of a wbid is now this one.
SetUpdates(changed, new) ==
  { u \in changed : \A el \in new : el.wbid # u.wbid } \cup new

\* The list `els` is reported when the edits pending are `made` and `changed` and
\* the images `held` are not uploaded.
HandleChange(els, held, made, changed) ==
  LET fresh   == Fresh(els, held)
      touched == Touched(els, held)
      gone    == Gone(els)
      Seen(e) == { el \in fresh \cup touched : el.id = e }
  IN  /\ known' = [e \in Elem |-> IF e \in gone THEN Unknown
                                  ELSE IF Seen(e) = {} THEN known[e]
                                  ELSE Info(CHOOSE el \in Seen(e) : TRUE)]
      /\ creates' = SetCreates(made, els, { el \in fresh : el.wbid = 0 })
      /\ updates' = SetUpdates(changed, { el \in touched : el.wbid # 0 })
      /\ deletes' = deletes \cup ({ known[e].wbid : e \in gone } \ {0})
      /\ timer' = (timer \/ creates' # <<>> \/ updates' # {} \/ deletes' # {})

-----------------------------------------------------------------------------
(* The user. *)

\* The elements of the scene that are not in the baseline yet: images held back.
\* A scene that is applied now puts them there, and they are never created.
Overtaken == { e \in Ids(scene) : known[e] = Unknown }

\* A new element.  The upload of an image begins, as soon as Excalidraw has its file.
Draw(e, isImage) ==
  /\ due[e] = Undrawn
  /\ edits + others < MaxEdits
  /\ edits' = edits + 1
  /\ scene' = Append(scene, El(e, edits', 0))
  /\ isImage => Cardinality(Image) < MaxImages
  /\ upload' = IF isImage THEN [upload EXCEPT ![e] = "asked"] ELSE upload
  /\ HandleChange(scene', IF isImage THEN HeldBack \cup {e} ELSE HeldBack, creates, updates)
  /\ due' = [due EXCEPT ![e] = edits']
  /\ UNCHANGED <<flight, rows, netVars, others, raceVars>>

\* What refers to an element object, once that is changed in place.
Renewed(el, old, v) == IF el.id = old.id /\ el.v = old.v THEN [el EXCEPT !.v = v] ELSE el

\* An edit of the i-th element.  In place, it also changes the object that a
\* pending create or update refers to, the updates of a flush under way too.
\* Nothing is sent of an element without wbid, except with its pending create or
\* an upload still to come.
Edit(i, inPlace) ==
  LET old == scene[i]
      new == [old EXCEPT !.v = edits + 1]
      Now(el) == IF inPlace THEN Renewed(el, old, new.v) ELSE el
  IN  /\ edits + others < MaxEdits
      /\ edits' = edits + 1
      /\ scene' = [scene EXCEPT ![i] = new]
      /\ HandleChange(scene', HeldBack, [k \in DOMAIN creates |-> Now(creates[k])],
                      { Now(el) : el \in updates })
      /\ flight' = [f \in Flight |->
                      [flight[f] EXCEPT !.updates = { Now(el) : el \in flight[f].updates }]]
      /\ due' = [due EXCEPT ![old.id] =
                   IF \/ old.wbid # 0 \/ old.id \in Overtaken
                      \/ inPlace /\ old \in ToSet(creates) THEN new.v ELSE 0]
      /\ UNCHANGED <<rows, netVars, others, upload, raceVars>>

\* The i-th element is erased; Excalidraw reports it as deleted or not at all.
\* Without a wbid nothing is sent, which is too little once it has been posted.
Erase(i, reported) ==
  LET e == scene[i].id
      posted == scene[i].wbid = 0 /\ e \notin Ids(creates) \cup Overtaken
  IN  /\ scene' = Only(scene, ToSet(scene) \ {scene[i]})
      /\ HandleChange(IF reported THEN [scene EXCEPT ![i].v = 0] ELSE scene',
                      HeldBack, creates, updates)
      /\ due' = [due EXCEPT ![e] = IF posted THEN 0 ELSE Erased]
      /\ UNCHANGED <<flight, rows, netVars, countVars, raceVars>>

\* onChange fires once more, as it does after every applyScene and upload.
Report ==
  /\ HandleChange(scene, HeldBack, creates, updates)
  /\ UNCHANGED <<scene, flight, rows, netVars, countVars, historyVars>>

-----------------------------------------------------------------------------
(* shrinkAndUpload *)

\* The edits of these elements are given up.
Dropped(ids) == [e \in Elem |-> IF e \in ids THEN 0 ELSE due[e]]

UploadLands(e) ==
  /\ upload[e] = "asked" /\ socket # "left"
  /\ upload' = [upload EXCEPT ![e] = "stored"]
  /\ UNCHANGED <<scene, known, pendVars, flight, rows, netVars, edits, others, historyVars>>

\* Or the image is taken out of the scene.
UploadFails(e) ==
  /\ upload[e] = "asked" /\ socket # "left"
  /\ upload' = [upload EXCEPT ![e] = "failed"]
  /\ ApplyScene(Only(scene, { el \in ToSet(scene) : el.id # e }))
  /\ due' = Dropped(Overtaken)
  /\ UNCHANGED <<pendVars, flight, rows, netVars, edits, others, raceVars>>

-----------------------------------------------------------------------------
(* flush *)

\* Updates and then deletes are sent, each in an order that is left open (that of
\* a Map and of a Set), or dropped when the socket is not open.
Send(changed, erased, lostToo) ==
  LET els == changed \cup { El(rows[w].id, 0, w) : w \in erased }
  IN  IF socket = "open"
        THEN /\ \E first \in SetToSeqs(changed), last \in SetToSeqs(els \ changed) :
                  up' = up \o first \o last
             /\ due' = Dropped(lostToo)
        ELSE /\ due' = Dropped(lostToo \cup { el.id : el \in els })
             /\ UNCHANGED up

\* The timer fires: what is pending is swapped out, and creates whose element
\* is no longer in the scene are passed over.
Flush(f) ==
  LET batch == Only(creates, { el \in ToSet(creates) : el.id \in Ids(scene) })
      wiped == { e \in Ids(creates) \ Ids(scene) : due[e] # Erased }
  IN  /\ timer
      /\ flight[f].stage = "idle"
      /\ Len(up) + Len(down) <= Backlog
      /\ timer' = FALSE
      /\ creates' = <<>> /\ updates' = {} /\ deletes' = {}
      /\ IF batch = <<>>
           THEN Send(updates, deletes, wiped) /\ UNCHANGED flight
           ELSE /\ flight' = [flight EXCEPT ![f] =
                     [stage |-> "posted", batch |-> batch, reply |-> <<>>,
                      updates |-> updates, deletes |-> deletes]]
                /\ due' = Dropped(wiped)
                /\ UNCHANGED up
      /\ raced' = (raced \/ \E g \in Flight : flight[g].updates # {})
      /\ UNCHANGED <<scene, known, rows, down, socket, http, answered, countVars, skipped>>

\* stampWbid: the rows that come back are matched to the batch by position.
Stamped(els, batch, reply) ==
  [i \in DOMAIN els |->
     LET places == { k \in DOMAIN reply : batch[k].id = els[i].id }
     IN  IF places = {} THEN els[i] ELSE [els[i] EXCEPT !.wbid = reply[Max(places)]]]

Answer(f) ==
  LET batch == flight[f].batch
      reply == flight[f].reply
      found == \E k \in DOMAIN reply : batch[k].id \in Ids(scene)
  IN  /\ flight[f].stage = "answered"
      /\ IF found THEN ApplyScene(Stamped(scene, batch, reply))
                  ELSE UNCHANGED <<scene, known>>
      /\ Send(flight[f].updates, flight[f].deletes, IF found THEN Overtaken ELSE {})
      /\ flight' = [flight EXCEPT ![f] = Landed]
      /\ UNCHANGED <<pendVars, rows, down, socket, http, answered, countVars, raceVars>>

\* The request is refused or its answer is lost; it is not tried again.
PostFails(f) ==
  /\ flight[f].stage # "idle"
  /\ Send(flight[f].updates, flight[f].deletes, Ids(flight[f].batch))
  /\ flight' = [flight EXCEPT ![f] = Landed]
  /\ UNCHANGED <<scene, known, pendVars, rows, down, socket, http, answered, countVars, raceVars>>

-----------------------------------------------------------------------------
(* The server. *)

\* These contents have reached their rows.
Reached(els) ==
  [e \in Elem |-> IF \E el \in ToSet(els) : el.id = e /\ el.v = due[e] THEN 0 ELSE due[e]]

Tell(frame) == down' = IF socket = "open" THEN Append(down, frame) ELSE down

\* What is stored of a request for one element, or for several in bulk, which
\* leaves images out; and these elements with the ids of their rows.
Kept(batch) ==
  IF Len(batch) = 1 THEN batch
                    ELSE Only(batch, { el \in ToSet(batch) : el.id \notin Image })

Created(kept) == [k \in DOMAIN kept |-> El(kept[k].id, kept[k].v, Len(rows) + k)]

\* Slip: the rows of a bulk request come back last first.
CreateReversed(f) ==
  LET batch == flight[f].batch
      kept  == Kept(batch)
      new   == Created(kept)
  IN  /\ flight[f].stage = "posted"
      /\ rows' = rows \o kept
      /\ flight' = [flight EXCEPT ![f].stage = "answered",
                                  ![f].reply = Reverse([k \in DOMAIN new |-> new[k].wbid])]
      /\ Tell([op |-> IF Len(batch) = 1 THEN "add" ELSE "add_bulk", els |-> new])
      /\ due' = Reached(kept)
      /\ skipped' = (skipped \/ kept # batch)
      /\ UNCHANGED <<scene, known, pendVars, up, socket, http, answered, countVars, raced>>

\* The elements are stored in order, broadcast in one frame and returned.
Create(f) ==
  LET batch == flight[f].batch
      kept  == Kept(batch)
      new   == Created(kept)
  IN  /\ flight[f].stage = "posted"
      /\ rows' = rows \o kept
      /\ flight' = [flight EXCEPT ![f].stage = "answered",
                                  ![f].reply = [k \in DOMAIN new |-> new[k].wbid]]
      /\ IF new = <<>> THEN UNCHANGED down
         ELSE Tell([op |-> IF Len(batch) = 1 THEN "add" ELSE "add_bulk", els |-> new])
      /\ due' = Reached(kept)
      /\ skipped' = (skipped \/ kept # batch)
      /\ UNCHANGED <<scene, known, pendVars, up, socket, http, answered, countVars, raced>>

\* Slip: messages are handled as tasks of their own, the last one first.
ServeLast ==
  LET el == Last(up)
  IN  /\ up # <<>>
      /\ up' = Front(up)
      /\ IF rows[el.wbid].v = 0
           THEN UNCHANGED <<rows, down, due>>
           ELSE /\ rows' = [rows EXCEPT ![el.wbid] =
                              IF el.v = 0 THEN [@ EXCEPT !.v = 0] ELSE El(el.id, el.v, 0)]
                /\ Tell([op |-> IF el.v = 0 THEN "delete" ELSE "update", els |-> <<el>>])
                /\ due' = Reached(<<el>>)
      /\ UNCHANGED <<scene, known, pendVars, flight, socket, http, answered, countVars, raceVars>>

\* The next update or delete (content 0) from the socket; one for a row that is
\* gone is answered by an error, which the browser ignores.
Serve ==
  LET el == Head(up)
  IN  /\ up # <<>>
      /\ up' = Tail(up)
      /\ IF rows[el.wbid].v = 0
           THEN UNCHANGED <<rows, down, due>>
           ELSE /\ rows' = [rows EXCEPT ![el.wbid] =
                              IF el.v = 0 THEN [@ EXCEPT !.v = 0] ELSE El(el.id, el.v, 0)]
                /\ Tell([op |-> IF el.v = 0 THEN "delete" ELSE "update", els |-> <<el>>])
                /\ due' = Reached(<<el>>)
      /\ UNCHANGED <<scene, known, pendVars, flight, socket, http, answered, countVars, raceVars>>

\* Somebody else rewrites or deletes a row.
Other(w, v) ==
  /\ rows[w].v # 0
  /\ edits + others < MaxEdits
  /\ others' = others + 1
  /\ rows' = [rows EXCEPT ![w].v = v]
  /\ Tell([op |-> IF v = 0 THEN "delete" ELSE "update", els |-> <<El(rows[w].id, v, w)>>])
  /\ UNCHANGED <<scene, known, pendVars, flight, up, socket, http, answered, edits, upload, historyVars>>

-----------------------------------------------------------------------------
(* What the browser is told. *)

\* ws.onmessage, by the kind of frame.
Merged(f) ==
  CASE f.op = "snapshot" -> f.els
    [] f.op = "add_bulk" ->
         scene \o Only(f.els, { el \in ToSet(f.els) : \A x \in ToSet(scene) : x.wbid # el.wbid })
    [] f.op \in {"add", "update"} ->
         LET new == f.els[1]
             places == { i \in DOMAIN scene : scene[i].wbid = new.wbid \/ scene[i].id = new.id }
         IN  IF places = {} THEN Append(scene, new) ELSE [scene EXCEPT ![Min(places)] = new]
    [] f.op = "delete" ->
         Only(scene, { el \in ToSet(scene) : el.wbid # f.els[1].wbid })

Receive ==
  /\ down # <<>>
  /\ down' = Tail(down)
  /\ IF Head(down).op = "add_bulk" /\ Merged(Head(down)) = scene
       THEN UNCHANGED <<scene, known, due>>
       ELSE ApplyScene(Merged(Head(down))) /\ due' = Dropped(Overtaken)
  /\ UNCHANGED <<pendVars, flight, rows, up, socket, http, answered, countVars, raceVars>>

\* The socket joins the room and is sent a snapshot.
Connect ==
  /\ socket = "connecting"
  /\ socket' = "open"
  /\ down' = <<[op |-> "snapshot", els |-> Board]>>
  /\ UNCHANGED <<scene, known, pendVars, flight, rows, up, http, answered, countVars, historyVars>>

\* It closes, with what is on its way; the browser does not reconnect.
Close ==
  /\ socket = "open"
  /\ socket' = "closed"
  /\ up' = <<>> /\ down' = <<>>
  /\ due' = Dropped(Ids(up))
  /\ UNCHANGED <<scene, known, pendVars, flight, rows, http, answered, countVars, raceVars>>

\* The snapshot over HTTP is read, and arrives.
HttpRead ==
  /\ http = "asked"
  /\ http' = "read"
  /\ answered' = Board
  /\ UNCHANGED <<scene, known, pendVars, flight, rows, up, down, socket, countVars, historyVars>>

HttpArrives ==
  /\ http = "read"
  /\ http' = "done"
  /\ answered' = <<>>
  /\ ApplyScene(answered)
  /\ due' = Dropped(Overtaken)
  /\ UNCHANGED <<pendVars, flight, rows, up, down, socket, countVars, raceVars>>

\* The view is unmounted: what waits for the timer is given up, a flush under way
\* goes on without its socket.  What the socket was given is sent before it closes.
Leave ==
  /\ socket # "left"
  /\ socket' = "left"
  /\ scene' = <<>> /\ known' = [e \in Elem |-> Unknown]
  /\ creates' = <<>> /\ updates' = {} /\ deletes' = {} /\ timer' = FALSE
  /\ http' = "done" /\ answered' = <<>> /\ down' = <<>>
  /\ due' = Dropped(Ids(creates) \cup { el.id : el \in updates }
                     \cup { rows[w].id : w \in deletes } \cup Overtaken)
  /\ UNCHANGED <<flight, rows, up, countVars, raceVars>>

-----------------------------------------------------------------------------
BrowserInit ==
  /\ scene = <<>>
  /\ known = [e \in Elem |-> Unknown]
  /\ creates = <<>> /\ updates = {} /\ deletes = {}
  /\ timer = FALSE
  /\ flight = [f \in Flight |-> Landed]
  /\ rows = <<>>
  /\ up = <<>> /\ down = <<>>
  /\ socket = "connecting"
  /\ http = "asked"
  /\ answered = <<>>
  /\ edits = 0 /\ others = 0
  /\ upload = [e \in Elem |-> "none"]
  /\ due = [e \in Elem |-> Undrawn]
  /\ skipped = FALSE /\ raced = FALSE

User == socket # "left" /\
  \/ \E e \in Elem, b \in BOOLEAN : Draw(e, b)
  \/ \E i \in DOMAIN scene, b \in BOOLEAN : Edit(i, b) \/ Erase(i, b)
  \/ Report

Server ==
  \/ \E f \in Flight : Create(f)
  \/ \E w \in DOMAIN rows : Other(w, 0) \/ Other(w, MaxEdits + others + 1)
  \/ Serve

\* The editor is handed an id twice.  What Excalidraw makes of that is not
\* followed: behaviours end there.
Doubled == ~Distinct(scene)

BrowserNext == ~Doubled /\
  \/ User \/ Server
  \/ \E f \in Flight : Flush(f) \/ Answer(f) \/ PostFails(f)
  \/ \E e \in Elem : UploadLands(e) \/ UploadFails(e)
  \/ Receive \/ Connect \/ Close \/ HttpRead \/ HttpArrives \/ Leave

BrowserSpec == BrowserInit /\ [][BrowserNext]_browserVars

-----------------------------------------------------------------------------
\* The browser's echo of a create is "an idempotent in-scene replacement"
\* (CHANGES.md:96-97), so that the editor holds each element once.  The code
\* replaces by id for one element only; the frame of a bulk create is sent before
\* the answer that brings the wbids, and onmessage looks for wbids alone.
ShownOnce == ~Doubled

\* What waits to be sent, or is on its way to the server.
Outgoing ==
  updates \cup ToSet(up) \cup UNION { flight[f].updates : f \in Flight }

\* "The onChange echo of a remote apply then diffs to nothing, while a real
\* local edit bumps versionNonce and is detected" (CanvasView.tsx:17-22): what
\* others wrote is never sent back as an edit of this browser, whatever frame
\* arrives between an edit and its flush, unless the element is shown twice.
EchoIsNotAnEdit ==
  \A el \in Outgoing : el.v <= MaxEdits

\* What was drawn once is stored once: neither a snapshot that wipes the scene,
\* nor an echo that comes before the answer, nor an answer that never comes
\* makes the browser create the element again; until a bulk request leaves out an
\* image, after which an element may carry the wbid of another.
StoredOnce ==
  ~skipped => \A e \in Elem : Cardinality({ w \in DOMAIN rows : rows[w].id = e }) <= 1

\* stampWbid (CanvasView.tsx:204-205): an element carries the wbid of its own
\* row, so that its later edits change no other; until a bulk request leaves out
\* an image, whose place in the batch the answer then does not know.
TagsAreTrue ==
  ~skipped => \A i \in DOMAIN scene :
    scene[i].wbid # 0 => rows[scene[i].wbid].id = scene[i].id

\* A row never goes back from one edit of this browser to an earlier one, although
\* edits pile up in a flush, in another that waits for its POST, and on the socket.
\* The code waits for the POST before it sends the updates of a flush
\* (CanvasView.tsx:168-198), so it does when one overtakes another.
RowsMoveOn ==
  [][~raced /\ ~skipped => \A w \in DOMAIN rows :
       {rows[w].v, rows'[w].v} \subseteq 1..MaxEdits => rows'[w].v >= rows[w].v]_browserVars

AtRest ==
  /\ ~timer /\ up = <<>> /\ \A f \in Flight : flight[f].stage = "idle"
  /\ Overtaken = {}

\* Once nothing is pending or under way, the last edit of each element has
\* reached its row, unless somebody has deleted that, and an element erased here
\* has no row left: edits are given up nowhere but at an element that is not
\* stored yet, a failed request, a socket that is not open, a snapshot that wipes
\* a drawing, a scene applied while an image uploads, a bulk that leaves one out,
\* and a view that is left within the delay of its flush (CHANGES.md:110-111:
\* "batches are swapped out (not cleared) during a flush so items queued mid-flush
\* aren't lost").
NothingElseIsLost ==
  AtRest /\ ~skipped => \A e \in Elem :
    /\ due[e] > 0 => \E w \in DOMAIN rows : rows[w].id = e /\ rows[w].v = 0
    /\ due[e] = Erased => \A w \in DOMAIN rows : rows[w].id = e => rows[w].v = 0
=============================================================================
