---------------------------- MODULE CanvasFiles -----------------------------
(***************************************************************************)
(* The images of one canvas: the rows of canvas_files with their byte      *)
(* budget (backend/app/routes.py, backend/app/db.py), the image elements   *)
(* that point at them, and what reaches a browser that is opening the      *)
(* canvas (frontend/src/CanvasView.tsx).                                   *)
(*                                                                         *)
(* An image element carries only a file id; the bytes travel by upload,    *)
(* then by a "file" broadcast or by the HTTP snapshot - the WebSocket      *)
(* snapshot has none.  A broadcast is one step here: the loop of sends is  *)
(* in CanvasLive, and a frame is handled when it is sent.  An action is    *)
(* what happens between two awaits.                                        *)
(***************************************************************************)
EXTENDS Integers, FiniteSets, FiniteSetsExt

CONSTANTS File,         \* file ids (Excalidraw's: a digest of the image)
          None,         \* no file (the element is not on the canvas), no element, no viewer
          Size,         \* length of the data URL of each file
          Elem,         \* element ids, each inserted once
          Req,          \* slots for concurrent requests
          Viewer,       \* browsers that open the canvas
          MaxFile,      \* MAX_FILE_CHARS
          MaxTotal,     \* MAX_CANVAS_FILE_CHARS
          FromBrowser,  \* TRUE: elements are added by CanvasView, after its upload
          Collected,    \* TRUE: somebody calls the gc endpoint
          EditorFirst,  \* TRUE: Excalidraw is ready before the canvas is opened
          Archivable    \* TRUE: the owner archives and restores the canvas

ASSUME FilesAssumption ==
  /\ None \notin File \cup Elem \cup Viewer
  /\ Size \in [File -> Nat] /\ MaxFile \in Nat /\ MaxTotal \in Nat
  /\ IsFiniteSet(Req)
  /\ {FromBrowser, Collected, EditorFirst, Archivable} \subseteq BOOLEAN

VARIABLES active,   \* canvases.status = 'active'
          files,    \* canvas_files: the ids stored
          image,    \* canvas_elements: the file id of each image element
          used,     \* element ids already given out
          acked,    \* files whose upload was answered 200
          pc, arg,  \* each request: where it stands; its file, element and viewer
          ready,    \* Excalidraw has handed a viewer its API
          http, ws, \* a viewer's two ways of loading the canvas
          response, \* a snapshot response: the image elements and files read for it
          initial,  \* elements kept until Excalidraw is ready
          scene,    \* image elements in a viewer's editor
          bytes,    \* files a viewer's editor has
          handled,  \* imagesHandledRef: image elements a viewer has uploaded or tried to
          inTime    \* history: the viewer joined, and was ready, before its files were read

dbVars     == <<active, files, image, used>>
reqVars    == <<acked, pc, arg>>
loadVars   == <<ready, http, ws, response, initial, inTime>>
viewerVars == <<loadVars, scene, bytes, handled>>
vars       == <<dbVars, reqVars, viewerVars>>

Scene         == [Elem -> File \cup {None}]
Blank         == [e \in Elem |-> None]
Present(e)    == image[e] # None
Referenced(f) == \E e \in Elem : image[e] = f
Chars(len, S) == MapThenSumSet(LAMBDA x : len[x], S)
Total(fs)     == Chars(Size, fs)
NoArg         == [f |-> None, e |-> None, v |-> None]

\* The scenes once viewer v, if there is one, has taken out element e.
Without(v, e) ==
  [w \in Viewer |-> IF w = v THEN [scene[w] EXCEPT ![e] = None] ELSE scene[w]]

Go(r, step) == pc' = [pc EXCEPT ![r] = step]

-----------------------------------------------------------------------------
(* upload_file *)

\* The canvas is active, the image within the per-file ceiling.
UploadCheck(r, f) ==
  /\ pc[r] = "idle"
  /\ active
  /\ Size[f] <= MaxFile
  /\ Go(r, "sized")
  /\ arg' = [arg EXCEPT ![r] = [NoArg EXCEPT !.f = f]]
  /\ UNCHANGED <<dbVars, viewerVars, acked>>

\* Slip: the budget is not looked at.
UploadUnmetered(r) ==
  /\ pc[r] = "sized"
  /\ Go(r, "metered") /\ UNCHANGED arg
  /\ UNCHANGED <<dbVars, viewerVars, acked>>

\* canvas_files_bytes, then the comparison: 413 when over.  A file that is
\* already stored counts a second time.  A viewer that uploaded it again takes the
\* element out of its scene.
UploadBudget(r) ==
  /\ pc[r] = "sized"
  /\ IF Total(files) + Size[arg[r].f] <= MaxTotal
       THEN Go(r, "metered") /\ UNCHANGED <<arg, scene>>
       ELSE /\ Go(r, "idle")
            /\ arg' = [arg EXCEPT ![r] = NoArg]
            /\ scene' = Without(arg[r].v, arg[r].e)
  /\ UNCHANGED <<dbVars, loadVars, bytes, handled, acked>>

\* put_file: ON CONFLICT DO NOTHING.
UploadPut(r) ==
  /\ pc[r] = "metered"
  /\ files' = files \cup {arg[r].f}
  /\ Go(r, "stored")
  /\ UNCHANGED <<active, image, used, acked, arg, viewerVars>>

\* Slip: the uploader's room is not told.
UploadQuiet(r) ==
  /\ pc[r] = "stored"
  /\ acked' = acked \cup {arg[r].f}
  /\ Go(r, "idle")
  /\ arg' = [arg EXCEPT ![r] = NoArg]
  /\ UNCHANGED <<dbVars, viewerVars>>

\* The "file" broadcast and the response.  A frame that reaches a browser whose
\* editor is not ready is dropped.
UploadTell(r) ==
  /\ pc[r] = "stored"
  /\ acked' = acked \cup {arg[r].f}
  /\ bytes' = [v \in Viewer |-> IF ws[v] # "off" /\ ready[v]
                                  THEN bytes[v] \cup {arg[r].f} ELSE bytes[v]]
  /\ Go(r, "idle")
  /\ arg' = [arg EXCEPT ![r] = NoArg]
  /\ UNCHANGED <<dbVars, loadVars, scene, handled>>

-----------------------------------------------------------------------------
(* add_element with an image, and what else changes image elements *)

\* Slip: the browser sends the element without waiting for the upload.
MaySendEarly(f) == TRUE

\* CanvasView holds an image element back until its upload has succeeded.
MaySend(f) == FromBrowser => f \in acked

AddCheck(r, e, f) ==
  /\ pc[r] = "idle"
  /\ active
  /\ MaySend(f)
  /\ e \notin used
  /\ \A q \in Req : arg[q].e # e
  /\ Go(r, "adding")
  /\ arg' = [arg EXCEPT ![r] = [f |-> f, e |-> e, v |-> None]]
  /\ UNCHANGED <<dbVars, viewerVars, acked>>

\* is_ephemeral(data) and not get_files(canvas): 400 only if the canvas has no
\* file at all.
AddFilesCheck(r) ==
  /\ pc[r] = "adding"
  /\ IF files # {}
       THEN Go(r, "checked") /\ UNCHANGED arg
       ELSE Go(r, "idle") /\ arg' = [arg EXCEPT ![r] = NoArg]
  /\ UNCHANGED <<dbVars, viewerVars, acked>>

\* Slip: the id of the new element stays free.
AddInsertReusing(r) ==
  /\ pc[r] = "checked"
  /\ image' = [image EXCEPT ![arg[r].e] = arg[r].f]
  /\ Go(r, "written")
  /\ UNCHANGED <<active, files, used, acked, arg, viewerVars>>

AddInsert(r) ==
  /\ pc[r] = "checked"
  /\ image' = [image EXCEPT ![arg[r].e] = arg[r].f]
  /\ used' = used \cup {arg[r].e}
  /\ Go(r, "written")
  /\ UNCHANGED <<active, files, acked, arg, viewerVars>>

\* The op of an add, update or delete puts the element, with its file or with
\* none, into the scene of every browser that has joined and whose editor is ready.
Tell(r) ==
  /\ pc[r] = "written"
  /\ scene' = [v \in Viewer |-> IF ws[v] # "off" /\ ready[v]
                                  THEN [scene[v] EXCEPT ![arg[r].e] = arg[r].f]
                                  ELSE scene[v]]
  /\ Go(r, "idle")
  /\ arg' = [arg EXCEPT ![r] = NoArg]
  /\ UNCHANGED <<dbVars, acked, loadVars, bytes, handled>>

\* The statement that changes or deletes a stored element.
Rewrite(r, e, f) ==
  /\ pc[r] = "idle"
  /\ Present(e)
  /\ image' = [image EXCEPT ![e] = f]
  /\ Go(r, "written")
  /\ arg' = [arg EXCEPT ![r] = [f |-> f, e |-> e, v |-> None]]
  /\ UNCHANGED <<active, files, used, acked, viewerVars>>

\* A PATCH by a client other than CanvasView can name any file.
Patch(r, e, f) == ~FromBrowser /\ Rewrite(r, e, f)

Delete(r, e) == Rewrite(r, e, None)

\* gc_files: one DELETE ... WHERE NOT EXISTS (an element with the file id).
Gc ==
  /\ Collected
  /\ files' = { f \in files : Referenced(f) }
  /\ UNCHANGED <<active, image, used, reqVars, viewerVars>>

SetStatus ==
  /\ Archivable
  /\ active' = ~active
  /\ UNCHANGED <<files, image, used, reqVars, viewerVars>>

-----------------------------------------------------------------------------
(* A browser opens the canvas: two requests at once and an editor that comes *)
(* up when it does.                                                          *)

EditorReady(v) ==
  /\ ~ready[v]
  /\ ready' = [ready EXCEPT ![v] = TRUE]
  /\ scene' = [scene EXCEPT ![v] = initial[v]]
  /\ initial' = [initial EXCEPT ![v] = Blank]
  /\ UNCHANGED <<dbVars, reqVars, http, ws, response, inTime, bytes, handled>>

\* One of the two queries of get_snapshot.
Query(v, from, to, answer) ==
  /\ http[v] = from
  /\ http' = [http EXCEPT ![v] = to]
  /\ response' = [response EXCEPT ![v] = answer]
  /\ inTime' = [inTime EXCEPT ![v] = ready[v] /\ ws[v] # "off"]
  /\ UNCHANGED <<dbVars, reqVars, ready, ws, initial, scene, bytes, handled>>

\* Slip: the files before the elements.
HttpReadFilesFirst(v) ==
  \/ Query(v, "asked", "half", [response[v] EXCEPT !.files = files])
  \/ Query(v, "half", "read", [response[v] EXCEPT !.image = image])

\* The elements and then, awaits later, the files.
HttpRead(v) ==
  \/ Query(v, "asked", "half", [response[v] EXCEPT !.image = image])
  \/ Query(v, "half", "read", [response[v] EXCEPT !.files = files])

\* The response arrives.  addFiles is skipped when the editor is not ready; the
\* elements are kept for it.
HttpArrives(v) ==
  /\ http[v] = "read"
  /\ http' = [http EXCEPT ![v] = "done"]
  /\ IF ready[v]
       THEN /\ bytes' = [bytes EXCEPT ![v] = @ \cup response[v].files]
            /\ scene' = [scene EXCEPT ![v] = response[v].image]
            /\ UNCHANGED initial
       ELSE /\ initial' = [initial EXCEPT ![v] = response[v].image]
            /\ UNCHANGED <<bytes, scene>>
  /\ UNCHANGED <<dbVars, reqVars, ready, ws, response, inTime, handled>>

WsJoin(v) ==
  /\ ws[v] = "off"
  /\ active
  /\ ws' = [ws EXCEPT ![v] = "joined"]
  /\ UNCHANGED <<dbVars, reqVars, ready, http, response, initial, inTime, scene, bytes, handled>>

\* The snapshot frame: elements only, dropped when the editor is not ready.
WsSnapshot(v) ==
  /\ ws[v] = "joined"
  /\ ws' = [ws EXCEPT ![v] = "live"]
  /\ scene' = [scene EXCEPT ![v] = IF ready[v] THEN image ELSE @]
  /\ UNCHANGED <<dbVars, reqVars, ready, http, response, initial, inTime, bytes, handled>>

\* handleChange runs for every element in the editor, whoever added it: the first
\* time an image has its bytes, its viewer uploads it again.  A refusal at the
\* first checks (archived, too large) takes the element out of the scene, like
\* a refusal in UploadBudget.
Reupload(r, v, e) ==
  /\ pc[r] = "idle"
  /\ ready[v]
  /\ scene[v][e] \in bytes[v]
  /\ e \notin handled[v]
  /\ handled' = [handled EXCEPT ![v] = @ \cup {e}]
  /\ IF active /\ Size[scene[v][e]] <= MaxFile
       THEN /\ Go(r, "sized")
            /\ arg' = [arg EXCEPT ![r] = [f |-> scene[v][e], e |-> e, v |-> v]]
            /\ UNCHANGED scene
       ELSE scene' = Without(v, e) /\ UNCHANGED <<pc, arg>>
  /\ UNCHANGED <<dbVars, acked, loadVars, bytes>>

-----------------------------------------------------------------------------
Init ==
  /\ active = TRUE
  /\ files = {}
  /\ image = Blank
  /\ used = {}
  /\ acked = {}
  /\ pc = [r \in Req |-> "idle"]
  /\ arg = [r \in Req |-> NoArg]
  /\ ready = [v \in Viewer |-> EditorFirst]
  /\ http = [v \in Viewer |-> "asked"]
  /\ ws = [v \in Viewer |-> "off"]
  /\ response = [v \in Viewer |-> [image |-> Blank, files |-> {}]]
  /\ initial = [v \in Viewer |-> Blank]
  /\ scene = [v \in Viewer |-> Blank]
  /\ bytes = [v \in Viewer |-> {}]
  /\ handled = [v \in Viewer |-> {}]
  /\ inTime = [v \in Viewer |-> FALSE]

Handle(r) ==
  \/ UploadBudget(r) \/ UploadPut(r) \/ UploadTell(r)
  \/ AddFilesCheck(r) \/ AddInsert(r) \/ Tell(r)

Load(v) == EditorReady(v) \/ HttpRead(v) \/ HttpArrives(v) \/ WsJoin(v) \/ WsSnapshot(v)

Next ==
  \/ \E r \in Req : Handle(r)
  \/ \E r \in Req, f \in File : UploadCheck(r, f)
  \/ \E r \in Req, e \in Elem, f \in File : AddCheck(r, e, f)
  \/ \E r \in Req, e \in Elem, f \in File : Patch(r, e, f)
  \/ \E r \in Req, e \in Elem : Delete(r, e)
  \/ \E r \in Req, v \in Viewer, e \in Elem : Reupload(r, v, e)
  \/ Gc
  \/ SetStatus
  \/ \E v \in Viewer : Load(v)

Spec == Init /\ [][Next]_vars

-----------------------------------------------------------------------------
\* Types; an element on the canvas has had its id given out.
TypeOK ==
  /\ active \in BOOLEAN
  /\ files \subseteq File /\ acked \subseteq File
  /\ image \in Scene
  /\ used \subseteq Elem /\ \A e \in Elem : Present(e) => e \in used
  /\ pc \in [Req -> {"idle", "sized", "metered", "stored", "adding", "checked", "written"}]
  /\ arg \in [Req -> [f : File \cup {None}, e : Elem \cup {None}, v : Viewer \cup {None}]]
  /\ ready \in [Viewer -> BOOLEAN] /\ inTime \in [Viewer -> BOOLEAN]
  /\ http \in [Viewer -> {"asked", "half", "read", "done"}]
  /\ ws \in [Viewer -> {"off", "joined", "live"}]
  /\ response \in [Viewer -> [image : Scene, files : SUBSET File]]
  /\ initial \in [Viewer -> Scene] /\ scene \in [Viewer -> Scene]
  /\ bytes \in [Viewer -> SUBSET File] /\ handled \in [Viewer -> SUBSET Elem]

\* The characters of uploads that have passed the budget and are not stored yet.
Due     == { r \in Req : pc[r] = "metered" }
Pending == Chars([r \in Due |-> Size[arg[r].f]], Due)

\* The budget is checked and then spent with awaits in between (routes.py:127-135),
\* so concurrent uploads can pass it together; what they can exceed it by is
\* bounded by the other uploads in flight, each within the per-file ceiling.
BudgetOvershoot ==
  LET n == Total(files) + Pending
  IN  n = 0 \/ n <= MaxTotal + (Cardinality(Req) - 1) * MaxFile

\* "The invariant: no element pointing at bytes we don't have"
\* (test_bulk_and_images.py:66): an image element on the canvas has its bytes on
\* the canvas.  Holds as long as elements come from CanvasView, which uploads
\* first (CanvasView.tsx:221-262), and nobody collects files.
NoDangling == \A e \in Elem : Present(e) => image[e] \in files

\* get_snapshot reads elements before files (routes.py:153-162), so every image
\* of a response has its bytes in it although the two queries are not one
\* transaction.
SnapshotComplete ==
  \A v \in Viewer, e \in Elem :
    http[v] = "read" => response[v].image[e] \in response[v].files \cup {None}

Open(v) == http[v] = "done" /\ ws[v] = "live" /\ ready[v]

Renders(v) == \A e \in Elem : scene[v][e] \in bytes[v] \cup {None}

\* A browser that had joined the room, with its editor up, before its files were
\* read renders every image it is shown: what the response lacks is broadcast.
RendersIfJoinedFirst == \A v \in Viewer : Open(v) /\ inTime[v] => Renders(v)

-----------------------------------------------------------------------------
(* The three above, made inductive: elements come from CanvasView only       *)
(* (FromBrowser) and nobody collects files (~Collected).                     *)

\* A request past a check has what it checked: an upload its file, an insert its
\* element and a file whose upload was answered.
ArgSound ==
  \A r \in Req :
    /\ pc[r] \in {"sized", "metered", "stored"} => arg[r].f \in File
    /\ pc[r] = "stored" => arg[r].f \in files
    /\ pc[r] \in {"adding", "checked", "written"} => arg[r].e \in Elem
    /\ pc[r] \in {"adding", "checked"} => arg[r].f \in acked
    /\ pc[r] = "written" => arg[r].f \in acked \cup {None}

\* Uploads that were answered are stored; stored elements name such uploads.
BytesFirst ==
  /\ acked \subseteq files
  /\ \A e \in Elem : image[e] \in acked \cup {None}

\* So does all a browser has or is being sent; a response that has been read
\* holds the files of its elements.
SceneSound ==
  \A v \in Viewer, e \in Elem :
    /\ scene[v][e] \in acked \cup {None}
    /\ initial[v][e] \in acked \cup {None}
    /\ response[v].image[e] \in acked \cup {None}
    /\ http[v] \in {"read", "done"} =>
         response[v].image[e] \in response[v].files \cup {None}

\* A browser that was in time is still there, and every answered upload is in
\* its response or in its editor.
BytesReach ==
  \A v \in Viewer : inTime[v] =>
    /\ http[v] \in {"read", "done"} => ready[v] /\ ws[v] # "off"
    /\ http[v] = "read" => acked \subseteq response[v].files \cup bytes[v]
    /\ http[v] = "done" => acked \subseteq bytes[v]

FilesInv == TypeOK /\ ArgSound /\ BytesFirst /\ SceneSound /\ BytesReach

-----------------------------------------------------------------------------
(* What the sources say and the code does not keep. *)

\* "Files must be registered before their elements render, or the image draws
\* as a broken placeholder" (CanvasView.tsx:333-334).
EveryOpenBrowserRenders == \A v \in Viewer : Open(v) => Renders(v)

\* "Remove it rather than leave an element that can never render"
\* (CanvasView.tsx:259): an element that a browser takes out of its scene, while
\* it is on the canvas and apart from loading, has no bytes there.
RemovedIsUnrenderable ==
  [][\A v \in Viewer, e \in Elem :
       loadVars' = loadVars /\ Present(e) /\ scene[v][e] # None /\ scene'[v][e] = None
         => scene[v][e] \notin bytes[v]]_vars
=============================================================================
