# A TLA+ model of theblueai-whiteboard

The whiteboard is one asyncio process (FastAPI) over Postgres, and a React
client around Excalidraw. Every database statement commits by itself
(`autocommit`), and a handler runs alone only from one `await` to the next.
That is where its difficulties are: what a handler has read may be old when it
acts on it, what it has committed may be told to others in another order, and a
browser puts its picture together from frames that two channels bring.

The modules here translate the handlers, statement by statement. TLC checks
small instances, TLAPS proves the main invariants for every size.

## The system

| Component | Where | State | Operations | Talks to |
|---|---|---|---|---|
| Live board | `ws.py`, `ws_routes.py`, `routes.py`, `db.py` | `canvases`, `canvas_elements`, `canvas_members`; `_rooms` in memory | connect, join, snapshot, leave; add, bulk add, update, delete by socket and by HTTP; archive, restore, read | browsers, by frames on sockets; AI wake |
| Images | `routes.py`, `db.py`, `CanvasView.tsx` | `canvas_files`; the editor's files and the sets `imagesHandled`, `imagesUploaded` | upload, collect, add an image element; open a canvas over HTTP and a socket at once | the room of the canvas |
| Browser sync | `CanvasView.tsx` | `knownRef`, `pendingRef`, the flush timer, the scene | diff a change, flush, stamp ids, apply a frame | HTTP for creates, the socket for the rest |
| Pages | `App.tsx`, `Home.tsx`, `CanvasList.tsx` | `localStorage`, which tabs share; path, token, handle and canvas of a tab; the list it has loaded | load, navigate, sign in, log out, click, open, create, go back | sessions, canvas list, live board |
| Canvas lifecycle and list | `routes.py`, `db.py` | `canvases`, `canvas_members` | create, list, open by id, archive, restore | pages, live board |
| Sign-in | `oauth_routes.py`, `password_auth.py`, `db.py` | `oauth_auth_request`, `wb_session` | login, callback, password, register, logout, prune | authorization server, PDS |
| Client key | `db.py` | `oauth_client_key` | get or create | OAuth calls, `/oauth/jwks.json` |
| Token validation | `auth.py` | `_token_cache` in memory | validate, cache | bsky-mcp, sessions |
| Throttle | `password_auth.py` | `_attempts` in memory | count, clean up | sign-in |
| AT Protocol identity | `atproto_oauth.py` | none but the DPoP nonce of a flow | resolve handle, DID, PDS, issuer; PAR; token | sign-in |
| AI wake | `ai_trigger.py`, `routes.py`, `ws_routes.py` | the tasks of the event loop, which nothing refers to | find tags, schedule, notify | bsky-mcp |
| Element content | `elements.py`, `CanvasView.tsx` | `canvas_elements.data`, the elements in the editors | complete, strip, convert there and back | element routes, `ws.onmessage` |
| Rendering, shell, static pages, scripts | `render.py`, `main.py`, `config.py`, static frontend pages, `scripts/` | none shared | draw, serve | |

What is hard about each, and what makes it right:

- **Live board.** Handlers of one canvas interleave at every await, a socket can
  die at any of them, the process can restart between a commit and its
  broadcast. Right means: a browser that connects in the middle of it misses no
  op and gets none twice; rooms hold exactly the handlers that are past their
  join; once nothing is in flight every browser shows the database; an archived
  canvas stops growing.
- **Images.** An element and its bytes travel separately, a page opens over two
  channels and into an editor that may not be up yet, the budget is read before
  it is spent. Right means: no element without bytes, no snapshot without the
  files of its elements, a budget that holds, a browser that renders what it is
  shown.
- **Browser sync.** Local edits wait for a timer, creates go by HTTP and the rest
  by socket, the server echoes everything back. Right means: an edit is sent
  once, to the element it was made on, and its echo is not taken for an edit.
- **Sign-in.** Flows are rows that anybody's sign-in prunes, callbacks can be
  replayed, requests fail after any statement. Right means: a flow signs in once,
  only for the account it was started for; no prune takes a young flow or a
  live session.
- **Element content.** Agents post parts of elements, browsers whole ones with
  fields of their own, and whoever saves replaces all of it. Right means: every
  row is complete, holds nothing of a viewer's, and loses no field on its way.
- **AT Protocol identity.** DNS, web servers and a DID directory are asked one
  after the other and may change in between; nonces run out. Right means: handle
  and account have pointed at each other, and no sign-in fails for its nonce
  unless that has changed.
- **Pages.** React keeps a token that `localStorage` has not had for long, answers
  come to a page that has changed since it asked, other tabs sign in and out
  behind its back. Right means: a page acts as the account it shows, and nobody
  becomes a member of what no page was told to open.
- **AI wake.** A text comes in three ways, its tasks are started at another point
  of each and die with the process. Right means: one mention for a tag, none for
  what was not stored, and no tag forgotten.
- **Client key, tokens, throttle.** A create race, a slow answer that is cached
  late, a cleanup that throws lists away. Right means: one key for ever, a
  revocation that takes hold within the TTL, an exact window.

The list of hazards with their lines is in `PROJECT.json`.

## The modules

### CanvasLive, the live board

An element is abstracted to its kind, owner, canvas and the number of the commit
that last wrote it; a commit also names the room its handler broadcasts to.
`rows`, `members`, `status` are the tables, `rooms` is `ws._rooms`. A connection
goes through `phase`: `new`, `checked` (status read), `joined`, `read` (snapshot
read), `live` (receive loop), `gone` or `failed`. The program counter `pc` of a
task is that of an operation: `checked` (an insert has seen an active canvas),
`committed`, `sending`. A socket handler runs one operation at a time, so a
connection is its own task; HTTP requests have slots.

| Code | Actions |
|---|---|
| `canvas_ws` | `Check`, `Refuse`, `Join`, `Abandon`, `ReadSnapshot`, `SendSnapshot`, `SetupFails`, `Leave` |
| `_handle_add`, `_handle_update`, `_handle_delete` | `WsAdd`, `WsUpdate`, `WsDelete`, then `TakeRoom`, `Send`, `Echo` |
| `add_element`, `add_elements_bulk` | `HttpAddCheck`, `HttpAdd`, `BulkInsert`, `BulkDone`, `RequestFails`, then `TakeRoom`, `Send`, `Respond` |
| `update_element`, `delete_element` | `HttpUpdate`, `HttpDelete`, then the same |
| `archive_canvas`, `restore_canvas`, `get_snapshot` | `SetStatus`, `HttpSnapshot` |
| `ws.onmessage` in the browser | `Receive`, with `Shown` |
| a statement commits and its answer is lost | `Unanswered`; for an item of a bulk, `BulkInsert` and then `RequestFails` |
| client or process goes away | `Disconnect`, `Restart` |

The variables after "history" in the module (`commits`, `base`, `got`, `late`,
`stale`, `lost`) record what happened. No guard reads one, but `Fresh`: a uuid4
is one that no commit has had.

### CanvasFiles, the images of one canvas

`files` is `canvas_files`, `image` the file id of each image element. Uploads go
through `UploadCheck`, `UploadBudget`, `UploadPut`, `UploadTell`; image elements
through `AddCheck`, `AddFilesCheck`, `AddInsert`, `Tell`; `Patch`, `Delete` and `Gc`
are the other statements. A browser opens the canvas by `HttpRead` (two queries)
and `HttpArrives`, `WsJoin` and `WsSnapshot`, with `EditorReady` wherever it falls,
and uploads again every image it is shown (`Reupload`). `CanvasLive` has the loop
of sends that is one step here (`UploadTell`, `Tell`), and its frames in flight;
here a frame is handled when it is sent. An image that a browser uploads again
is taken to have the length it had: the browser leaves a small image alone and
re-encodes a larger one.

`FromBrowser` says who writes elements: `CanvasView`, which waits for its upload,
or any client of the API. `Collected` says whether anybody calls the endpoint
that collects files; nothing in the repository does.

### BrowserSync, the edits of one browser

`scene` is what Excalidraw shows, `known` is `knownRef`, `creates`, `updates` and
`deletes` are `pendingRef`. An element is its Excalidraw id, the number of the edit
that gave it its content, and its `wbid`. `Draw`, `Edit` and `Erase` are the user, with
the `onChange` that follows. `HandleChange` compares what is reported with the baseline,
each element with its own entry, which is what the loop of `handleChange` comes to
when no id is twice in the list. Excalidraw may change an element in place, in
which case the change is already in the scene that a frame replaces. `Flush` swaps
the batches out and sends its POST; `Answer` or `PostFails` ends it, stamps the ids and
sends the updates and then the deletes, each in an order that `Send` leaves open
(in the code that of a `Map` and of a `Set`), so that no property rests on it.
`Create`, `Serve` and `Other` are the server, one step per request; `Receive` is
`ws.onmessage`; `HttpRead` and `HttpArrives` the snapshot over HTTP; `Connect` and
`Close` the socket. The history variable `due` has the last edit of each element
that has yet to reach its row; the code gives some up, and each such place sets it
to 0 by name.

An element may be an image. Then it is held back until its upload has ended:
`upload` stands for `imagesHandledRef` and `imagesUploadedRef` together, `UploadLands`
for a `shrinkAndUpload` that succeeds or leaves a stored image alone, `UploadFails` for
one that takes the image out of the scene. `Overtaken` are the elements that a
scene applied now would put in the baseline before they were ever queued.
`Leave` is the view's unmounting, with `disposedRef`: what waits for the timer is
given up, a flush under way goes on and finds no socket. Two more histories mark
known flaws of the code, for properties that hold up to them: `skipped`, a bulk
has left an image out, and `raced`, a flush has begun while another still had
updates to send.

### Elements, the content of one element

An element is a function from its fields to values. The fields that the code
names are strings; all others are the constant `Style`, and those among them
that a type needs are `Needs`. `Normalize`, `StripForStorage`, `BackendToExc` and
`ExcToBackend` are the code's functions; the actions are who calls them: an agent
posts a part (`PostPart`) or patches (`Patches`), a browser posts what it drew
(`PostWhole`), is shown the row (`Shows`), changes a field (`Touches`) and saves the
whole element (`Saves`). All defaults are one value, `Preset`, and all false values are
`Empty`. `MCBrowser` runs `BrowserSync` and `Elements` as one instance with two
parts, as `MCServices` does.

### Pages, what a tab shows and whom the server takes it for

`page` is the location with the state of `App`, `stored` is `localStorage`, `list` and
`wire` are the states of a mounted `CanvasList` and `CanvasView`, `calls` the requests
under way. A task of the page is one step, which is what the browser's event
loop gives, also towards `localStorage`; so is a request at the server, since none
of these routes reads anything twice. React's effects are in `Turns`: every
action that changes the page says what it turns into, and the list, the socket
and the snapshot request follow.

| Code | Actions |
|---|---|
| `App`: `useState`, `go`, `popstate` | `Loads`, `Navigates` |
| `Home.submit`, `signedIn`, the hand-off to Bluesky | `Submits`, `SignedIn`, `HandedOff` |
| `App.logout`, `logout` in `oauth_routes.py` | `LogsOut`, `Ended` |
| `CanvasList`: the load effect, items, `create`, `join` | `ListArrives`, `Clicks`, `Asks`, `Opens` |
| `create_canvas`, `get_canvas`, `list_canvases_for` | `Serves`, `Listed` |
| `CanvasView`: its mount effects, `onBack`; `get_snapshot`, `canvas_ws` | `Turns`, `GoesBack`; `Reads`, `Connects` |
| `archive_canvas`, `restore_canvas` | `SetsStatus` |
| other tabs, expiry | `SignInElsewhere`, `LogOutElsewhere`, `Expires` |

`carried` and `swapped` are histories of two flaws of the code, described below;
`ActsAsShown` and `ListsWhatWasOpened` hold up to them, and neither does without.

### AgentWake, from a tag to a mention

`row` is what a text says: the handle at each `Spot`, or none. `request` follows a
text through `add_element`, `add_elements_bulk` or `_handle_add` (`BeginText`, `StoreText`,
`Schedule`, `Ends`). The INSERT can commit and its answer be lost (`StoreUnanswered`),
and the socket's way can end before it schedules (`EchoFails`): such a text has no
task and is in `missed`, with those that a restart caught.
`Rewrite` is an update or a delete, which look for no tags. `wake` is the task of
each tag, `Notify` its one call, which lands or not; `WakeRestart` ends handlers and
tasks. How a tag is written is left to `extract_tags`: a spot has one or not.

### SignIn, OAuthFlow, TokenCache, Throttle, ClientKey, WriteOnce

- `SignIn`: `SaveFlow` and `PruneFlows` are the statements of `login`; `TakeFlow`,
  `Exchange`, `Mint`, `PruneSessions` those of `callback`; `PdsVouches` stands for the
  password and the registration, which go on as `Mint`; `Stop` is a failure or the
  end of a registration, which does not prune. The authorization server and the
  PDS may vouch for anybody.
- `OAuthFlow`: one login from the outside in. `AskDns`, `AskWeb` and `AskDoc` are the
  lookups of `resolve_identity`, for a handle or a DID; `Challenged`, `Answered` and
  `ChallengedAgain` are `auth_server_post`, first for the pushed request and then for
  the token. `Outside` changes DNS, the web, a document or the nonce at any
  time; a lookup that gets no answer is one that finds `Nil`. A challenge is
  taken to bring the nonce the server wants. The rows of the flow are in `SignIn`.
- `TokenCache`: `validate_token` for one token. bsky-mcp answers after any delay and
  the answers overtake each other.
- `Throttle`: `_throttle` as one step, since it has no await, for a few identifiers
  and a dictionary that is cleaned as soon as it is larger than `MaxKeys` (1000 in
  the code).
- `ClientKey`: the three statements of `get_or_create_client_jwk`. `WriteOnce` is what
  it promises: a register that is written once and told to whoever asks.
  `Register!Spec` is the refinement, with `value <- jwk`, `Value <- Key` and
  `None <- NoKey`.
- `Clock` is the clock that three of them read, a number that `Passes` up to a
  horizon. Postgres's `now()` and `time.monotonic()` are read apart in the code, but
  no module reads both.
- `MCServices` runs these five, `AgentWake` and `Pages` as one instance. They share no
  variable but the clock and never call each other with state, so a behaviour picks one of them at its
  start (`part`) and every property of a module is checked on all of its
  behaviours.

The MC modules give constants their values. Next to some definitions is one
marked "Slip": the same definition with a plausible mistake, which `PROJECT.json`
lists with the property that notices it. No specification uses them.

## The runs

Runs that pass. Every instance is small, and large enough that the case at stake
happens; each bound is a constant and is named in its module.

| Run | Instance | Shows |
|---|---|---|
| `Live_board` | two sockets of one user, an HTTP request, two elements, two writes | `IInv` and its parts `NoGap` and `NeverTwice`: no op falls between snapshot and stream, none is sent twice; `ConvergesInOrder`: what was neither sent out of order nor lost before it was told, every browser shows |
| `Live_delivery` | two sockets of one user, a request, one write, one restart, archive and restore, a reader of snapshots, under fairness | `RoomSound` across a restart; `Delivered`, `LiveLeaves`; `ArchiveSettles`: archived, and with what was let in before at rest, the canvas does not grow |
| `Files_budget` | three files of sizes 1, 2 and 3, per-file ceiling 2, budget 3, any client, collection, archiving | `TypeOK`; `BudgetOvershoot`: the budget is exceeded by at most one image for each other request in flight |
| `Files_browser` | two files, two elements, two requests, a browser that opens the canvas, archiving | `FilesInv`, `NoDangling`, `SnapshotComplete`, `RendersIfJoinedFirst` |
| `Browser` | sync: two elements, one of them perhaps an image, two flushes, three edits here and elsewhere, the view left at any time; content: two browsers, five partial and two whole elements | `EchoIsNotAnEdit`, `StoredOnce`, `TagsAreTrue`, `NothingElseIsLost`, `RowsMoveOn`; `Renderable`, `Verbatim` |
| `Services` | sign-in: two accounts, flows, tokens and requests; identity: two names and accounts, two changes outside; cache: two validations; throttle: two identifiers; key: three callers; wake: two texts of two spots, two requests; pages: two accounts and tokens, one canvas, two requests under way | `OneSessionPerFlow`, `SessionsAreVouchedFor`, `YoungFlowsLive`, `SessionsLast`; `FlowInv`, `TwoWay`, `OneRetryIsEnough`; `CacheInv`, `RevocationTakesHold`; `WindowBound`, `LockedOutOnlyByOwnAttempts`; `KeyInv`, `Agreement`, `RefinesWriteOnce`; `MentionsFindTheirTag`, `MentionedOnce`, `NoOtherTagIsMissed`; `ActsAsShown`, `ListsWhatWasOpened` |

Why the bounds are enough. Two writes of an element are what an order needs, and
two elements are a bulk. A channel
holds one frame (`ChanCap`): frames keep the order in which they were sent, so a
longer channel only delays a browser, and a channel of one makes a sender wait.
The one restart of `Live_delivery` can fall on every point; `Live_board` has none, which
would double its states, and it is the theorems that cover `IInv` and
`ConvergesInOrder` across restarts, and changes through the socket of another canvas:
both runs have one canvas. Two flushes are
what it takes for one to overtake another, and with three edits an element is
drawn, changed and changed again while they do (`MaxEdits`); a flush starts with at
most one message waiting on the socket (`Backlog`), which is what keeps the
queue of the socket finite. An agent
patches an element once: nothing more is promised of one that was patched
(`patched`). Two changes outside (`MaxMoves`) can fall on both sides of a lookup or
of a challenge. One viewer suffices in `CanvasFiles`, since
viewers meet only in the database. Flows and sessions live for one tick and
the clock makes two (`SignInHorizon`), which is both sides of the boundary; cache and
throttle have six ticks for a TTL of two and a window of three, so a hit can be
stored, expire and be stored again, and a window can slide past its first half.
One image (`MaxImages`) among two elements is what a mixed bulk needs. One tab is
followed, and all others are what they do to `localStorage` and sessions; two
tokens are two accounts one after the other, or one twice, and each of them has
its turn with the one canvas. The page starts no request while two are under way
(`MaxCalls`), which leaves the second submission that the code lets through, and
adds at most the list or the snapshot that React asks for by itself.
The invariants proved below do not depend on any of it.

Deadlock is checked in `Live_board` and `Live_delivery`: there is always a
request to make, a socket to close or a status to change. A configuration says
`CHECK_DEADLOCK FALSE` where the instance does end: `Services` when flows, tokens and
ticks are used up and when every caller has its key, `Browser` where the editor
holds an element twice (`Doubled`): what Excalidraw makes of that is its own
business, and behaviours stop there, `CanvasFiles` when no element
id is left and its pages are loaded, `Live_cross_canvas` and `Live_leak` when every
socket, used once, is closed.

Symmetry is declared only in runs that check safety, over values that no constant
tells apart: the sockets of one user on one canvas, request slots, elements,
files of one size, accounts, flows, tokens. `BrowserSync` chooses no order among
elements that a value could fix: `Send` allows each. `Services` and `Browser` let the parts
share their model values (a handle of `OAuthFlow` and a text of `AgentWake` are
named like a flow of `SignIn`, accounts and tokens of `Pages` like those of `SignIn`, a
browser of `Elements` like a flush of `BrowserSync`), so that the
group of permutations stays small; no part sees another's state.

Fairness. `CanvasLive!Fairness` says that the event loop keeps scheduling a handler
that has started, and that an open browser keeps reading its socket. A send to a
browser that has stopped reading does wait, with no timeout in the code, which is
why `Delivered` needs the latter. Nobody has to connect, write, archive, fail or
restart.

Runs that find a violation. Each quotes the line that says otherwise; the findings
in `PROJECT.json` have the details.

| Run | The code says | What happens |
|---|---|---|
| `Live_converges` | everyone connected sees updates (`README.md:4`), "full state before live ops" (`ws_routes.py:58`) | a snapshot read before an op and sent after it wipes the op out in the browser |
| `Live_cross_canvas` | ops go to everyone on that canvas (`ws.py:3-4`) | an update on the socket of another canvas goes to the wrong room |
| `Live_leak` | `leave()` will clean up (`ws.py:50`) | a handler that fails between `join` and `try` never leaves |
| `Files_opening` | files before their elements (`CanvasView.tsx:333-334`) | an image pasted between the HTTP snapshot and the join has no bytes |
| `Files_reupload` | only an element that "can never render" is removed (`CanvasView.tsx:259`) | a browser that was shown a stored image uploads it again, is refused, and removes it |
| `Browser_echo` | the echo is "an idempotent in-scene replacement" (`CHANGES.md:96-97`) | the frame of a bulk create comes before the answer with the ids, and its elements are in the editor twice |

Behaviours that the modules contain and no run is spent on, since they follow
from a variable or a guard one can read:

- An op can reach a socket before its snapshot does (`Join` precedes `ReadSnapshot`);
  `Live_converges` shows the case where that does harm.
- Two handlers can broadcast two writes of one element against their commit order
  (`late`), which "just append-and-broadcast" (`WHITEBOARD_PLAN.md:23`) does not expect.
- Two uploads can pass the budget check together; `BudgetOvershoot` is what is left of
  the ceiling of `routes.py:31`.
- Collection can fall between an upload and the insert of its element
  (`db.py:449`); nothing calls the endpoint, though its docstring says "called after
  deletions" (`routes.py:145`), so the images of deleted elements stay in the budget.
- The check before an image element is stored is satisfied by any file of the
  canvas (`routes.py:193`), although no element should point "at bytes we don't
  have" (`test_bulk_and_images.py:66`): with `FromBrowser = FALSE`, `NoDangling` is
  violated.
- A bulk create skips images (`routes.py:239-240`), and the browser matches the ids
  that come back by position (`CanvasView.tsx:184-187`): an image flushed together
  with other elements is not stored and the others are tagged with each other's
  rows. Without `~skipped`, `TagsAreTrue` is violated in seven states.
- A flush that has no creates overtakes one that awaits its POST, so an older
  update can land on a newer one (`CanvasView.tsx:158-201`): with `MaxEdits = 4` and
  without `~raced`, `RowsMoveOn` is violated.
- What was drawn within the delay of a flush is lost when the view is left
  (`CanvasView.tsx:152`, `disposedRef`).
- An update searches no text for tags and a deletion stops no task: a tag that is
  typed after the first flush of its text, 150 ms after it was begun, wakes nobody,
  although a tag "in any text element" does (`README.md:18`); if that flush fell in
  the middle of a handle, what it had so far is the handle. A handle that is
  written twice is mentioned twice, and agents may wake each other without end.
- `logout` ends the session that `localStorage` has (`App.tsx:53`). When another tab has
  signed in meanwhile that is the other's, and the tab's own stays alive until it
  expires.
- `onOpen` and Back know nothing of who is signed in: a canvas that was asked for
  before a log-out, or that was open when Back led to Home, is opened for whoever
  signs in next, and makes a member of them. `carried` excludes it; without it
  `ListsWhatWasOpened` is violated.
- Enter submits again while a sign-in is under way, and the later answer replaces
  the token under whatever is mounted. `CanvasView` starts over, `CanvasList` does
  not (`CanvasList.tsx:30`) and goes on showing the canvases of the account before.
  `swapped` excludes it; without it `ActsAsShown` is violated.
- A socket is authenticated when it opens, and outlives the expiry of its session
  and a log-out in another tab.
- An element edited while its create is under way has no `wbid` yet, and that edit
  is queued nowhere (`CanvasView.tsx:306`): "items queued mid-flush aren't lost"
  (`CHANGES.md:110-111`) holds of what was queued.
- An image that is held back while it uploads enters the baseline with any scene
  applied meanwhile, and is then not created (`CanvasView.tsx:283-296`, `135-141`).
- A response that arrives before the editor is up keeps its elements for it and
  drops its files (`CanvasView.tsx:335`, `392-399`): `inTime` excludes it.

## The proofs

All by TLAPS, for any finite or infinite sets of users, canvases, elements,
sockets, requests, files, texts, tags, accounts, sessions, callers and keys, and any
bounds, from the assumptions
named in each module (`ConstantsAssumption`, `FilesAssumption`, `KeyAssumption`,
`CacheAssumption`, `FlowAssumption`, `ElementAssumption`, `SignInAssumption`,
`WakeAssumption`, `PagesAssumption`, `ThrottleAssumption`, `BrowserAssumption`), which TLC
evaluates in the runs. Only the byte budget needs a finite set, that of requests
(`FilesAssumption`): it is about their number.

- `CanvasLiveProofs`: `Spec => []IInv`, and from it `TypeCorrect`, `NoOpIsMissed`
  (`NoGap`), `NoOpIsSentTwice` (`NeverTwice`) and `RoomsAgree` (`RoomSound`). `NoGap`
  is not inductive: to know that a commit made now will reach a connection that
  has read its snapshot one must know that the connection is in the room that
  the task will copy (`RoomSound`), that the task's commits are for that room
  (`WorkSound`), and that no other task holds them (`HistorySound`). The heart is
  that a handler joins before it reads: a commit is either in what it reads or
  made while it is in the room. One lemma per action, one step per conjunct.
  `ArchivedCanvasesSettle` (`ArchiveSettles`) is an action property on top: sockets
  stay out (`SocketsStayOut`), inserts too (`InsertsStayOut`), and updates and deletes
  only find what is there.
- `CanvasOrderProofs`: `BrowsersConverge` (`ConvergesInOrder`). `OrderInv`, on top of
  `IInv`, follows an element from the commit to the screen: its row is its newest
  commit (`RowsSound`), a snapshot that was read is right for what was committed
  before (`HeldSound`), a frame holds one commit of it, of one operation, for one
  canvas (`JobSound`), and each browser shows, or has before it the frames that make
  it show, what it was told last (`ScreenSound`, by `Shows`). `Shows` is about the frames
  after the last snapshot in a channel, or after the scene when there is none: the
  last that mentions the element decides, and a bulk insert, which a browser that
  has the element skips, can only be the first. Three lemmas carry it, about any
  channel: `AppendOp`, `AppendSnapshot` and `ReadNext`. At rest nothing is owed, so by
  `NoGap` a browser was told every commit of its canvas, and what it was told last
  is the row. What was lost, or went to another room, costs only the browsers
  whose snapshot lacks it (`Reached`): whoever joins later shows it.
- `CanvasFilesProofs`: with `Setting`, which says that elements come from `CanvasView`
  and nobody collects files, `Spec => []FilesInv`, and from it `NoElementDangles`,
  `ResponsesAreComplete` and `InTimeRenders`. Upload before element makes every
  named file an answered upload, hence stored; elements before files in a
  response makes it complete; a browser that had joined before its files were
  read gets each upload by one way or the other. A client that names a file it
  never uploaded shows that the first half of `Setting` is needed, and `Gc` between
  `UploadTell` and `AddInsert` the second. `FilesTyped` (`TypeOK`) needs no `Setting`.
- `CanvasFilesProofs` also has `BudgetIsBounded` (`BudgetOvershoot`), for any client. What
  is stored and what has passed the check and is still to be stored are counted
  together: `UploadBudget` sees the first only, `UploadPut` moves from one to the
  other. That a sum over a finite set grows by what is added (`Chars`) is proved
  without induction over data, by a smallest set that would contradict it.
- `ServiceProofs`, of `ClientKey`: `KeyInvariant` (`KeyInv`), `CallersAgree`, and `KeyRefinesRegister`, the
  refinement of `WriteOnce`: `FirstRead` and `SecondRead` tell, the `Insert` that wins
  decides, the rest stutters.
- `ElementsProofs`: three lemmas about `normalize` - it completes whatever is posted,
  keeps what the client sent, and leaves a complete element as it is - and
  `ElementInvariant`, which ties each copy to the row; from it `RowsRender`
  (`Renderable`) and `GivenBackVerbatim` (`Verbatim`). `Verbatim` alone is not inductive: to
  know that posting a drawing adds no field to it, the drawing must be complete.
- `SignInProofs`, of `OAuthFlow`: `FlowInvariant` (`FlowInv`), `BothWays` (`TwoWay`) and `NonceIsEnough`
  (`OneRetryIsEnough`). What a flow knows halfway (`Halfway`) is among what was told
  since its login, and its nonce is the current one unless that has turned
  (`NonceKept`).
- `ServiceProofs`, of `TokenCache`: `CacheInvariant` (`CacheInv`) and `RevocationHolds`. An
  answer is cached under the time its question was asked, and a revoked token is
  vouched for no more.
- `ServiceProofs`, of `Throttle`: `ThrottleInvariant` (`ThrottleInv`), `WindowIsBounded`
  (`WindowBound`) and `LockedOutByOwnAttempts` (`LockedOutOnlyByOwnAttempts`). The bound is
  about a count of past attempts, and no list in the dictionary tells that count,
  since lists are pruned and thrown away. What is inductive is that a list is the
  end of its log and what it lacks is stale (`EndOf`), so that an attempt let through
  is a window away from the `MaxAttempts`-th before it (`Spaced`); two attempts of one
  window are then fewer than `MaxAttempts` places apart.
- `SignInProofs`, of `SignIn`: `SignInInvariant`, and from it `FlowsSignInOnce`
  (`OneSessionPerFlow`), `SessionsVouched` (`SessionsAreVouchedFor`), `FlowsStay`
  (`YoungFlowsLive`) and `SessionsStay` (`SessionsLast`). That two sessions of one flow
  are one is not inductive: a request that mints must be the only one that took
  the flow, and no earlier session may be from it (`RequestsSound`); that holds
  since the `DELETE ... RETURNING` gives the row to one request only
  (`FlowsSound`), and that a session is for a vouched account since the exchange has
  compared the two before (`MintedSound` keeps it).
- `ServiceProofs`, of `AgentWake`: `WakeInvariant`, and from it `FollowedMentionsFind`
  (`MentionsFindTheirTag`), `NoAgentIsPestered` (`MentionedOnce`) and `TagsHaveTheirTask`
  (`NoOtherTagIsMissed`). A text that is being created belongs to one request, and
  none of its tags has a task before that schedules them (`RequestSound`); a task
  that is due has mentioned nothing yet (`TaskSound`).
- `PagesProofs`: `PagesInvariant`, and from it `PagesActAsShown` (`ActsAsShown`) and
  `ListsAreOfWhatWasOpened` (`ListsWhatWasOpened`). Token and handle travel together, in
  `localStorage`, on the page and in every answer, and a token is one account's for
  ever (`TokensSound`); every request carries a canvas that some page was told to
  open for the account of its token (`CallsSound`), so that whichever way the page
  turns meanwhile, socket and members are of that account. One lemma, `TurnsKeeps`,
  does the effects of React for all the actions that turn the page.

- `BrowserProofs`: types (`BrowserTypes`), for which every list that goes into the scene
  must be one of elements, and every `wbid` that of a row; then four layers.
  `EchoIsDropped` (`EchoIsNotAnEdit`): what differs from the baseline has just been
  edited here, since whatever else comes into the scene comes with its baseline
  (`EchoInvariant`). `TagsStayTrue` (`TagsAreTrue`) and `NothingIsStoredTwice` (`StoredOnce`),
  from `CleanInvariant`: until a bulk leaves an image out, an element without `wbid`
  that may still be created is in one place only - pending, in one batch that
  waits for its answer, or held back while it uploads - and has no row; a reply
  names the rows of its batch in its order. `EditsArriveInOrder` (`RowsMoveOn`), from
  `OrderInvariant`: until a flush overtakes another, the contents of one element
  grow along its way, from the row over the socket and the flush under way to what
  is pending and the scene. `OnlyKnownLosses` (`NothingElseIsLost`), from `DueInvariant`,
  which says where a thing waits, since only that forbids to lose it: an edit that is
  due is pending, in a batch that is posted, in a flush under way, on the socket, or
  with an image held back, or its row is gone; of an element whose deletion is due,
  every row is bound to go, none is to be created, and what the scene still shows of
  it has its `wbid`. It stands on the others: an edit reaches the row it is due
  at only if the `wbid` is true, is not taken for another's only if edits are
  numbered in order, and is given up with the images held back only if the baseline
  has nothing that is not shown (`KnownOK`). The attempt at the second layer showed
  that `StoredOnce` does not follow once a bulk has left an image out, when an element
  carries another's `wbid`; it says so now.

Only model-checked: what needs liveness (`Delivered`, `LiveLeaves`), out of the
prover's reach. Every safety property of a run that passes is a theorem.

## Not modelled

- `render.py` draws; `main.py` serves files; `serializers.py`, `models.py`, `config.py`
  format and validate; the static pages show text: no state of their own.
- `images.ts` re-encodes an image; a file is its id and its length.
- Signatures, DPoP proofs and PKCE, the checks on URLs and on server metadata, the
  S2S token: that a verdict comes out is kept, not how.
- `scripts/` and deployment.
- In `BrowserSync`, text of other users, of which a browser sends nothing, and the
  wait for Excalidraw before the first scene (which `CanvasFiles` has).
- In `Elements`, what follows an agent's `PATCH`: the route replaces the row by the
  body and completes nothing (`elements.py:162`), so nothing is promised of such a
  row.
- That an update carries a whole element, and with it fields that somebody else
  has changed since (`CanvasView.tsx:194`): the last write wins by design, and the
  code states nothing to hold it to.
- `_token_cache` only grows (`auth.py:150`): there is no bound to check.

Three things seen while modelling that no run shows. The OAuth callback redirects
to `/#session=...` (`oauth_routes.py:219`), and nothing under `frontend/src` reads the
fragment. The throttle counts what was typed in, so a handle, its DID and its
e-mail address are three identifiers. And some lines of the documentation are older
than the code; the models follow the code, and no run counts these as findings,
since the repository settles each of them elsewhere:

- Logging out "just clears the stored token" (`USER_GUIDE.md:28`); it also ends the
  session (`oauth_routes.py:298-303`).
- "Only your own canvases appear here for now" (`USER_GUIDE.md:38`); the list has those
  one has joined, too, and `list_canvases_for` says why (`db.py:166-172`).
- Marks can only be seen and erased (`USER_GUIDE.md:58`), are "append-only"
  (`USER_GUIDE.md:63-64`, `:103`, `db.py:11`) and immutable (`README.md:26`); since the
  entry "Marks are now free-for-all" (`CHANGES.md:58-69`) anyone may move and change
  them, which is what the predicate of `update_element` says (`MayWrite`).

## Plan

Done, in the order of what matters most: the live board and its proofs, the
images and theirs, the browser's edits with uploads and leaving, sign-in with its
key, cache, throttle and proofs, the content of elements, identity, the wake of
agents, the pages with the canvas list. Next, in order:

1. Two browsers over `CanvasLive`'s interleavings: the scene of `BrowserSync` instead
   of `Shown`, with bounds that still let two elements cross.
2. An abstract board - a register per element, told to each watcher in an order -
   that `CanvasLive` implements where `ConvergesInOrder` applies.
3. Proofs: that `CanvasLive` implements the board of 2, step by step, from the
   invariants of `CanvasLiveProofs` and `CanvasOrderProofs`.
4. `authenticate` with its three kinds of caller in one module with the cache.
