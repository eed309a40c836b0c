------------------------------- MODULE Pages --------------------------------
(***************************************************************************)
(* The page of one tab (frontend/src/App.tsx, pages/Home.tsx,              *)
(* CanvasList.tsx and what CanvasView.tsx does when it is mounted), the    *)
(* localStorage it shares with the other tabs of the browser, and the      *)
(* routes it calls: which account a page shows, which one the server takes *)
(* it for, and which canvases an account is a member of.                   *)
(*                                                                         *)
(* A step is one task of the page or one request at the server.  React     *)
(* keeps its state until the page is loaded again; localStorage is read    *)
(* only then.  SignIn has how a session is minted and pruned, CanvasLive   *)
(* what a socket does once it is open.                                     *)
(***************************************************************************)
EXTENDS Naturals, FiniteSets

CONSTANTS Person, Board,
          Pass,    \* session tokens, each drawn once
          Blank,   \* no token, no account, no canvas
          MaxCalls \* bound: requests under way when the page starts another

ASSUME PagesAssumption == Blank \notin Pass \cup Person \cup Board /\ MaxCalls \in Nat

VARIABLES stored,   \* localStorage: wb_token and wb_handle
          page,     \* location and the state of App
          list,     \* whose canvases CanvasList has loaded, and which
          wire,     \* the socket of CanvasView
          calls,    \* requests under way
          session,  \* wb_session: the account of each live session
          owner, archived, members, \* canvases and canvas_members
          \* history, read by no guard but to draw fresh names:
          issued,   \* <<token, account>> of every session
          chosen,   \* <<canvas, account>> that a page was told to open
          carried,  \* <<canvas, account>> that a page had from another account
          swapped   \* the token was replaced under a mounted list

tabVars   == <<stored, page, list, wire, calls>>
tableVars == <<session, owner, archived, members>>
pastVars  == <<issued, chosen, carried, swapped>>
pagesVars == <<tabVars, tableVars, pastVars>>

SignedOut == [token |-> Blank, handle |-> Blank]
Away      == [path |-> "away", token |-> Blank, handle |-> Blank, canvas |-> Blank]
NoList    == [of |-> Blank, boards |-> {}]
NoWire    == [step |-> "none", as |-> Blank]

Sent(op, token, canvas) == [op |-> op, token |-> token, canvas |-> canvas, as |-> Blank]

\* What App renders: Home, the list, or a canvas.
HomeUp(p) == p.path = "home" \/ (p.path = "whiteboard" /\ p.token = Blank)
ListUp(p) == p.path = "whiteboard" /\ p.token # Blank /\ p.canvas = Blank
ViewUp(p) == p.path = "whiteboard" /\ p.token # Blank /\ p.canvas # Blank

\* list_canvases_for: the canvases an account owns or has joined.
Listed(d) == {b \in Board \ archived : owner[b] # Blank /\ (owner[b] = d \/ <<b, d>> \in members)}

\* authenticate: whose session a token is now.  bsky-mcp knows none of them.
Authenticated(p) == session[p]

-----------------------------------------------------------------------------
(* The page turns from `old` to `new`: React mounts and unmounts, and the  *)
(* effects run.  CanvasList loads once; CanvasView opens its socket and    *)
(* asks for a snapshot again whenever its canvas or its token has changed. *)

\* Slip: the effect depends on the canvas alone.
SameViewAnyToken(old, new) == ViewUp(old) /\ ViewUp(new) /\ old.canvas = new.canvas

SameView(old, new) ==
  ViewUp(old) /\ ViewUp(new) /\ old.canvas = new.canvas /\ old.token = new.token

Turns(old, new, underWay) ==
  LET sameList == ListUp(old) /\ ListUp(new)
      opening  == ViewUp(new) /\ ~SameView(old, new)
  IN  /\ page' = new
      /\ list' = IF sameList THEN list ELSE NoList
      /\ swapped' = (sameList /\ (swapped \/ new.token # old.token))
      /\ wire' = IF ~ViewUp(new) THEN NoWire
                 ELSE IF opening THEN [step |-> "opening", as |-> Blank] ELSE wire
      /\ calls' = {c \in underWay : c.op = "list" => sameList}
                    \cup (IF ListUp(new) /\ ~sameList
                            THEN {Sent("list", new.token, Blank)} ELSE {})
                    \cup (IF opening THEN {Sent("snapshot", new.token, new.canvas)} ELSE {})

\* The tab is opened, loaded again, or comes back from elsewhere.  Answers to
\* what was under way find no page.
Loads(p) ==
  /\ Turns(Away, [path |-> p, token |-> stored.token, handle |-> stored.handle,
                  canvas |-> Blank], {})
  /\ UNCHANGED <<stored, tableVars, issued, chosen, carried>>

\* go, a link, or Back: the state of App stays.
Navigates(p) ==
  /\ page.path \notin {"away", p}
  /\ Turns(page, [page EXCEPT !.path = p], calls)
  /\ UNCHANGED <<stored, tableVars, issued, chosen, carried>>

-----------------------------------------------------------------------------
(* Signing in and out *)

\* submit, which Enter starts again while one is under way, and its handling:
\* login_password or register.  One that is refused changes nothing.
Submits(d, p, goal) ==
  /\ HomeUp(page) /\ Cardinality(calls) < MaxCalls
  /\ \A x \in issued : x[1] # p
  /\ issued' = issued \cup {<<p, d>>}
  /\ session' = [session EXCEPT ![p] = d]
  /\ calls' = calls \cup {[Sent(goal, p, Blank) EXCEPT !.as = d]}
  /\ UNCHANGED <<stored, page, list, wire, owner, archived, members, chosen, carried, swapped>>

\* The answer, whatever the page shows by now: signedIn.  The canvas stays.
SignedIn(c) ==
  /\ c \in calls /\ c.op = "whiteboard"
  /\ stored' = [token |-> c.token, handle |-> c.as]
  /\ Turns(page, [page EXCEPT !.path = "whiteboard", !.token = c.token, !.handle = c.as],
           calls \ {c})
  /\ carried' = IF page.token # Blank /\ page.canvas # Blank
                  THEN carried \cup {<<page.canvas, c.as>>} ELSE carried
  /\ UNCHANGED <<tableVars, issued, chosen>>

\* The other button: the session is kept for later and the tab leaves.
HandedOff(c) ==
  /\ c \in calls /\ c.op = "bluesky"
  /\ stored' = [token |-> c.token, handle |-> c.as]
  /\ Turns(page, Away, {})
  /\ UNCHANGED <<tableVars, issued, chosen, carried>>

\* The call that logout sends, for the token in localStorage.
Farewell == IF stored.token = Blank THEN {} ELSE {Sent("logout", stored.token, Blank)}

\* Slip: the canvas stays.
LogsOutOnly ==
  /\ ListUp(page) \/ ViewUp(page)
  /\ stored' = SignedOut
  /\ Turns(page, [Away EXCEPT !.path = "home", !.canvas = page.canvas], calls \cup Farewell)
  /\ UNCHANGED <<tableVars, issued, chosen, carried>>

\* logout, which does not wait for the answer.  The session it ends is the one
\* in localStorage, which may be another tab's by now.
LogsOut ==
  /\ ListUp(page) \/ ViewUp(page)
  /\ stored' = SignedOut
  /\ Turns(page, [Away EXCEPT !.path = "home"], calls \cup Farewell)
  /\ UNCHANGED <<tableVars, issued, chosen, carried>>

\* The server logs a session out, if the request gets there.
Ended(c) ==
  /\ c \in calls /\ c.op = "logout"
  /\ calls' = calls \ {c}
  /\ session' = [session EXCEPT ![c.token] = Blank]
  /\ UNCHANGED <<stored, page, list, wire, owner, archived, members, pastVars>>

\* A session has expired.
Expires(p) ==
  /\ session[p] # Blank
  /\ session' = [session EXCEPT ![p] = Blank]
  /\ UNCHANGED <<tabVars, owner, archived, members, pastVars>>

\* Another tab signs in, which the page is not told: nothing listens to storage.
SignInElsewhere(d, p) ==
  /\ \A x \in issued : x[1] # p
  /\ issued' = issued \cup {<<p, d>>}
  /\ session' = [session EXCEPT ![p] = d]
  /\ stored' = [token |-> p, handle |-> d]
  /\ UNCHANGED <<page, list, wire, calls, owner, archived, members, chosen, carried, swapped>>

\* Another tab logs out.
LogOutElsewhere ==
  /\ stored # SignedOut
  /\ stored' = SignedOut
  /\ session' = [session EXCEPT ![stored.token] = Blank]
  /\ UNCHANGED <<page, list, wire, calls, owner, archived, members, pastVars>>

-----------------------------------------------------------------------------
(* The list and the canvas *)

\* The list arrives, or the session is unknown (setErr).
ListArrives(c) ==
  /\ c \in calls /\ c.op = "list"
  /\ calls' = calls \ {c}
  /\ LET d == Authenticated(c.token)
     IN  list' = IF d = Blank THEN list ELSE [of |-> d, boards |-> Listed(d)]
  /\ UNCHANGED <<stored, page, wire, tableVars, pastVars>>

\* A click on an item of the list.
Clicks(b) ==
  /\ ListUp(page) /\ b \in list.boards
  /\ Turns(page, [page EXCEPT !.canvas = b], calls)
  /\ chosen' = chosen \cup {<<b, page.handle>>}
  /\ UNCHANGED <<stored, tableVars, issued, carried>>

\* create and join ask the server for the canvas first.
Asks(op, b) ==
  /\ ListUp(page) /\ Cardinality(calls) < MaxCalls
  /\ op = "create" => owner[b] = Blank
  /\ calls' = calls \cup {Sent(op, page.token, b)}
  /\ chosen' = chosen \cup {<<b, page.handle>>}
  /\ UNCHANGED <<stored, page, list, wire, tableVars, issued, carried, swapped>>

\* create_canvas and get_canvas, which record no member.
Serves(c) ==
  /\ c \in calls /\ c.op \in {"open", "create"} /\ c.as = Blank
  /\ LET d  == Authenticated(c.token)
         ok == d # Blank /\ (c.op = "create" <=> owner[c.canvas] = Blank)
     IN  /\ calls' = (calls \ {c}) \cup (IF ok THEN {[c EXCEPT !.as = d]} ELSE {})
         /\ owner' = IF ok /\ c.op = "create" THEN [owner EXCEPT ![c.canvas] = d] ELSE owner
  /\ UNCHANGED <<stored, page, list, wire, session, archived, members, pastVars>>

\* onOpen is setCanvas, which works whatever the page shows by now.
Opens(c) ==
  /\ c \in calls /\ c.op \in {"open", "create"} /\ c.as # Blank
  /\ Turns(page, [page EXCEPT !.canvas = c.canvas], calls \ {c})
  /\ carried' = IF page.token = c.token THEN carried ELSE carried \cup ({c.canvas} \X Person)
  /\ UNCHANGED <<stored, tableVars, issued, chosen>>

\* onBack.
GoesBack ==
  /\ ViewUp(page)
  /\ Turns(page, [page EXCEPT !.canvas = Blank], calls)
  /\ UNCHANGED <<stored, tableVars, issued, chosen, carried>>

\* get_snapshot: a member is recorded, then the rest is read.
Reads(c) ==
  /\ c \in calls /\ c.op = "snapshot"
  /\ calls' = calls \ {c}
  /\ LET d == Authenticated(c.token)
     IN  members' = IF d = Blank THEN members ELSE members \cup {<<c.canvas, d>>}
  /\ UNCHANGED <<stored, page, list, wire, session, owner, archived, pastVars>>

\* canvas_ws up to its snapshot: the one time a socket is authenticated.
Connects ==
  /\ wire.step = "opening"
  /\ LET d  == Authenticated(page.token)
         ok == d # Blank /\ page.canvas \notin archived
     IN  /\ wire' = [step |-> IF ok THEN "live" ELSE "refused", as |-> IF ok THEN d ELSE Blank]
         /\ members' = IF ok THEN members \cup {<<page.canvas, d>>} ELSE members
  /\ UNCHANGED <<stored, page, list, calls, session, owner, archived, pastVars>>

\* archive_canvas and restore_canvas, which only the owner may call.
SetsStatus(b) ==
  /\ owner[b] # Blank
  /\ archived' = IF b \in archived THEN archived \ {b} ELSE archived \cup {b}
  /\ UNCHANGED <<tabVars, session, owner, members, pastVars>>

-----------------------------------------------------------------------------
PagesInit ==
  /\ stored = SignedOut /\ page = Away /\ list = NoList /\ wire = NoWire /\ calls = {}
  /\ session = [p \in Pass |-> Blank]
  /\ owner = [b \in Board |-> Blank] /\ archived = {} /\ members = {}
  /\ issued = {} /\ chosen = {} /\ carried = {} /\ swapped = FALSE

PageStep ==
  \/ \E p \in {"home", "whiteboard"} : Loads(p) \/ Navigates(p)
  \/ \E d \in Person, p \in Pass, goal \in {"whiteboard", "bluesky"} : Submits(d, p, goal)
  \/ \E c \in calls : SignedIn(c) \/ HandedOff(c) \/ Opens(c)
  \/ \E b \in Board : Clicks(b) \/ \E op \in {"open", "create"} : Asks(op, b)
  \/ LogsOut \/ GoesBack

ServerStep ==
  \/ \E c \in calls : ListArrives(c) \/ Serves(c) \/ Reads(c) \/ Ended(c)
  \/ Connects
  \/ \E p \in Pass : Expires(p)
  \/ \E b \in Board : SetsStatus(b)

PagesNext ==
  PageStep \/ ServerStep \/ LogOutElsewhere \/ \E d \in Person, p \in Pass : SignInElsewhere(d, p)

PagesSpec == PagesInit /\ [][PagesNext]_pagesVars
-----------------------------------------------------------------------------
\* The account a page shows is the one its socket acts as, and the list is that
\* account's: a token that changes takes the socket with it (CanvasView.tsx:390).
\* The list does not follow (CanvasList.tsx:30), hence `swapped`.
ActsAsShown ==
  /\ wire.step = "live" => wire.as = page.handle
  /\ list.of # Blank => list.of = page.handle \/ swapped

\* "Opening a canvas once puts it in your list from then on" (db.py:171-172),
\* and nothing else does but to own it: a canvas that is live on a page is in the
\* list of the account the page shows, and what an account is a member of a page
\* was told to open for it, or still had from the account before.
ListsWhatWasOpened ==
  /\ wire.step = "live" => page.canvas \in Listed(page.handle) \cup archived
  /\ members \subseteq chosen \cup carried
=============================================================================
