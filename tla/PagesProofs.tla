----------------------------- MODULE PagesProofs ----------------------------
(***************************************************************************)
(* For any number of accounts, canvases, sign-ins and requests, and        *)
(* whatever other tabs do: a page acts as the account it shows, and an     *)
(* account is a member of the canvases that a page opened for it.          *)
(***************************************************************************)
EXTENDS Pages, TLAPS

\* The two histories a membership comes from.
Known == chosen \cup carried

PageStates ==
  [path : {"home", "whiteboard", "away"}, token : Pass \cup {Blank},
   handle : Person \cup {Blank}, canvas : Board \cup {Blank}]

CallStates ==
  [op : {"whiteboard", "bluesky", "logout", "list", "open", "create", "snapshot"},
   token : Pass, canvas : Board \cup {Blank}, as : Person \cup {Blank}]

PageTypeOK ==
  /\ stored \in [token : Pass \cup {Blank}, handle : Person \cup {Blank}]
  /\ page \in PageStates
  /\ list \in [of : Person \cup {Blank}, boards : SUBSET Board]
  /\ wire \in [step : {"none", "opening", "live", "refused"}, as : Person \cup {Blank}]
  /\ calls \subseteq CallStates
  /\ session \in [Pass -> Person \cup {Blank}]
  /\ owner \in [Board -> Person \cup {Blank}]
  /\ archived \subseteq Board /\ members \subseteq Board \X Person
  /\ issued \subseteq Pass \X Person
  /\ swapped \in BOOLEAN

\* A token is for one account, whoever holds it.
Holds(p, d) == p # Blank => <<p, d>> \in issued

TokensSound ==
  /\ \A x, y \in issued : x[1] = y[1] => x = y
  /\ \A p \in Pass : session[p] # Blank => <<p, session[p]>> \in issued
  /\ Holds(stored.token, stored.handle)
  /\ Holds(page.token, page.handle)

\* A request carries a token, and a canvas that was known to its account.
CallsSound ==
  \A c \in calls :
    /\ \E d \in Person : <<c.token, d>> \in issued
    /\ c.as # Blank => <<c.token, c.as>> \in issued
    /\ c.op \in {"whiteboard", "bluesky"} => c.as # Blank
    /\ c.op \in {"open", "create", "snapshot"} =>
         /\ c.canvas # Blank
         /\ \A d \in Person : <<c.token, d>> \in issued => <<c.canvas, d>> \in Known
         /\ c.as # Blank \/ c.op = "snapshot" => owner[c.canvas] # Blank
    /\ c.op = "list" => ListUp(page) /\ (c.token = page.token \/ swapped)

\* A canvas on the page is known to the account, or to any that signs in next.
CanvasSound ==
  page.canvas # Blank =>
    /\ owner[page.canvas] # Blank
    /\ IF page.token # Blank THEN <<page.canvas, page.handle>> \in Known
                             ELSE {page.canvas} \X Person \subseteq Known

\* The list and the socket belong to what is mounted.
MountedSound ==
  /\ list.of # Blank => ListUp(page)
  /\ \A b \in list.boards : owner[b] # Blank
  /\ wire.step # "none" => ViewUp(page)
  /\ wire.step = "live" => <<page.canvas, page.handle>> \in members

PagesInv ==
  /\ PageTypeOK /\ TokensSound /\ CallsSound /\ CanvasSound /\ MountedSound
  /\ ActsAsShown /\ members \subseteq Known

LEMMA PagesStart == PagesInit => PagesInv
<1> SUFFICES ASSUME PagesInit PROVE PagesInv
  OBVIOUS
<1> USE PagesAssumption DEF PagesInit, SignedOut, Away, NoList, NoWire
<1>1. PageTypeOK
  BY DEF PageTypeOK, PageStates
<1>2. TokensSound
  BY DEF TokensSound, Holds
<1>3. CallsSound /\ CanvasSound /\ MountedSound
  BY DEF CallsSound, CanvasSound, MountedSound
<1>4. ActsAsShown /\ members \subseteq Known
  BY DEF ActsAsShown
<1> QED
  BY <1>1, <1>2, <1>3, <1>4 DEF PagesInv

\* Who holds a token is one account.
LEMMA OneHolder ==
  ASSUME TokensSound, NEW p, NEW d, NEW e, <<p, d>> \in issued, <<p, e>> \in issued
  PROVE  d = e
BY DEF TokensSound

-----------------------------------------------------------------------------
(* The page turns *)

\* What a task of the page may do: it turns to a state whose token and canvas are
\* its account's, and starts nothing but the call of a log-out.
May(old, new, underWay) ==
  /\ old = page \/ (old = Away /\ underWay = {})
  /\ new \in PageStates /\ Holds(new.token, new.handle)
  /\ underWay \subseteq calls \cup Farewell
  /\ stored' \in [token : Pass \cup {Blank}, handle : Person \cup {Blank}]
  /\ Holds(stored'.token, stored'.handle)
  /\ UNCHANGED <<tableVars, issued>>
  /\ chosen \subseteq chosen' /\ carried \subseteq carried'
  /\ new.canvas # Blank =>
       /\ owner[new.canvas] # Blank
       /\ IF new.token # Blank THEN <<new.canvas, new.handle>> \in Known'
                              ELSE {new.canvas} \X Person \subseteq Known'

LEMMA TurnsKeeps ==
  ASSUME PagesInv, NEW old, NEW new, NEW underWay, May(old, new, underWay),
         Turns(old, new, underWay)
  PROVE  PagesInv'
<1> USE PagesAssumption DEF PagesInv, May, Turns, tableVars, NoList, NoWire
<1> DEFINE sameList == ListUp(old) /\ ListUp(new)
           opening  == ViewUp(new) /\ ~SameView(old, new)
<1>1. page' = new /\ Known \subseteq Known'
  BY DEF Known
<1>2. sameList => old = page
  BY DEF ListUp, Away
<1>3. \A c \in calls' : \/ c \in underWay /\ (c.op = "list" => sameList)
                        \/ c = Sent("list", new.token, Blank) /\ ListUp(new)
                        \/ c = Sent("snapshot", new.token, new.canvas) /\ ViewUp(new)
  OBVIOUS
<1>4. Farewell \subseteq CallStates /\ \A c \in Farewell : c.op = "logout" /\ c.as = Blank
                                       /\ c.token = stored.token /\ stored.token # Blank
  BY DEF Farewell, Sent, CallStates, PageTypeOK
<1>5. PageTypeOK'
  <2>1. calls' \subseteq CallStates
    BY <1>3, <1>4 DEF PageTypeOK, CallStates, PageStates, Sent, ListUp, ViewUp
  <2>2. list' \in [of : Person \cup {Blank}, boards : SUBSET Board]
    BY DEF PageTypeOK
  <2>3. wire' \in [step : {"none", "opening", "live", "refused"}, as : Person \cup {Blank}]
    BY DEF PageTypeOK
  <2>4. swapped' \in BOOLEAN
    OBVIOUS
  <2> QED
    BY <1>1, <2>1, <2>2, <2>3, <2>4 DEF PageTypeOK, PageStates, CallStates
<1>6. TokensSound'
  BY <1>1 DEF TokensSound, Holds
<1>7. CallsSound'
  <2> SUFFICES ASSUME NEW c \in calls'
               PROVE  /\ \E d \in Person : <<c.token, d>> \in issued
                      /\ c.as # Blank => <<c.token, c.as>> \in issued
                      /\ c.op \in {"whiteboard", "bluesky"} => c.as # Blank
                      /\ c.op \in {"open", "create", "snapshot"} =>
                           /\ c.canvas # Blank
                           /\ \A d \in Person :
                                <<c.token, d>> \in issued => <<c.canvas, d>> \in Known'
                           /\ c.as # Blank \/ c.op = "snapshot" => owner[c.canvas] # Blank
                      /\ c.op = "list" => ListUp(new) /\ (c.token = new.token \/ swapped')
    BY <1>1 DEF CallsSound
  <2>1. CASE c \in calls /\ (c.op = "list" => sameList)
    BY <1>1, <1>2, <2>1 DEF CallsSound
  <2>2. CASE c \in Farewell
    <3>1. <<stored.token, stored.handle>> \in issued
      BY <1>4, <2>2 DEF TokensSound, Holds
    <3> QED
      BY <1>4, <2>2, <3>1 DEF PageTypeOK
  <2>3. CASE c = Sent("list", new.token, Blank) /\ ListUp(new)
    BY <2>3 DEF Sent, ListUp, Holds, PageStates, PageTypeOK
  <2>4. CASE c = Sent("snapshot", new.token, new.canvas) /\ ViewUp(new)
    <3>1. <<new.token, new.handle>> \in issued /\ new.handle \in Person
      BY <2>4 DEF ViewUp, Holds, PageTypeOK
    <3>2. \A d \in Person : <<new.token, d>> \in issued => d = new.handle
      BY <3>1, OneHolder
    <3> QED
      BY <2>4, <3>1, <3>2 DEF Sent, ViewUp
  <2> QED
    BY <1>3, <2>1, <2>2, <2>3, <2>4
<1>8. CanvasSound'
  BY <1>1 DEF CanvasSound
<1>9. wire'.step # "none" => ViewUp(new)
  OBVIOUS
<1>10. wire'.step = "live" => /\ wire' = wire /\ old = page /\ new.canvas = page.canvas
                              /\ new.handle = page.handle
  <2> SUFFICES ASSUME wire'.step = "live"
               PROVE  /\ wire' = wire /\ old = page /\ new.canvas = page.canvas
                      /\ new.handle = page.handle
    OBVIOUS
  <2>1. SameView(old, new) /\ wire' = wire
    OBVIOUS
  <2>2. old = page /\ new.canvas = page.canvas /\ new.token = page.token /\ new.token # Blank
    BY <2>1 DEF SameView, ViewUp, Away
  <2>3. new.handle = page.handle
    BY <2>2, OneHolder DEF TokensSound, Holds
  <2> QED
    BY <2>1, <2>2, <2>3
<1>11. list'.of # Blank => sameList /\ list' = list
  OBVIOUS
<1>12. MountedSound'
  <2>1. list'.of # Blank => ListUp(new)
    BY <1>11
  <2>2. \A b \in list'.boards : owner[b] # Blank
    BY DEF MountedSound
  <2> QED
    BY <1>1, <1>9, <1>10, <2>1, <2>2 DEF MountedSound
<1>13. ActsAsShown'
  <2>1. list'.of # Blank => list'.of = new.handle \/ swapped'
    <3> SUFFICES ASSUME list'.of # Blank, new.token = page.token
                 PROVE  list'.of = new.handle \/ swapped'
      BY <1>2, <1>11
    <3>1. new.handle = page.handle
      BY <1>11, OneHolder DEF TokensSound, Holds, ListUp
    <3> QED
      BY <1>2, <1>11, <3>1 DEF ActsAsShown
  <2> QED
    BY <1>1, <1>10, <2>1 DEF ActsAsShown
<1>14. (members \subseteq Known)'
  BY <1>1
<1> QED
  BY <1>5, <1>6, <1>7, <1>8, <1>12, <1>13, <1>14
-----------------------------------------------------------------------------
(* What the page does *)

LEMMA SubmitsKeeps ==
  ASSUME PagesInv, NEW d \in Person, NEW p \in Pass, NEW goal \in {"whiteboard", "bluesky"},
         Submits(d, p, goal)
  PROVE  PagesInv'
<1> USE PagesAssumption DEF PagesInv, Submits
<1> DEFINE c == [Sent(goal, p, Blank) EXCEPT !.as = d]
<1>1. c \in CallStates /\ c.op = goal /\ c.token = p /\ c.as = d
  BY DEF Sent, CallStates
<1>2. PageTypeOK'
  BY <1>1 DEF PageTypeOK
<1>3. TokensSound'
  BY DEF TokensSound, PageTypeOK, Holds
<1>4. CallsSound'
  <2>1. \A x \in calls, e \in Person : <<x.token, e>> \in issued' => <<x.token, e>> \in issued
    BY DEF CallsSound
  <2> QED
    BY <1>1, <2>1 DEF CallsSound, Known
<1>5. CanvasSound' /\ MountedSound' /\ ActsAsShown' /\ (members \subseteq Known)'
  BY DEF CanvasSound, MountedSound, ActsAsShown, Known
<1> QED
  BY <1>2, <1>3, <1>4, <1>5

LEMMA AsksKeeps ==
  ASSUME PagesInv, NEW b \in Board, NEW op \in {"open", "create"}, Asks(op, b)
  PROVE  PagesInv'
<1> USE PagesAssumption DEF PagesInv, Asks, tableVars
<1> DEFINE c == Sent(op, page.token, b)
<1>1. /\ c.op = op /\ c.token = page.token /\ c.canvas = b /\ c.as = Blank
      /\ page.token # Blank /\ ListUp(page)
  BY DEF Sent, ListUp
<1>2. c \in CallStates
  BY <1>1 DEF Sent, CallStates, PageTypeOK, PageStates
<1>3. Known \subseteq Known' /\ <<b, page.handle>> \in Known'
  BY DEF Known
<1>4. PageTypeOK'
  BY <1>2 DEF PageTypeOK
<1>5. TokensSound'
  BY DEF TokensSound, Holds
<1>6. CallsSound'
  <2>1. <<page.token, page.handle>> \in issued /\ page.handle \in Person
    BY <1>1 DEF TokensSound, Holds, PageTypeOK
  <2>2. \A d \in Person : <<page.token, d>> \in issued => d = page.handle
    BY <2>1, OneHolder
  <2> QED
    BY <1>1, <1>3, <2>1, <2>2 DEF CallsSound
<1>7. CanvasSound' /\ MountedSound' /\ ActsAsShown' /\ (members \subseteq Known)'
  BY <1>3 DEF CanvasSound, MountedSound, ActsAsShown
<1> QED
  BY <1>4, <1>5, <1>6, <1>7

LEMMA PageStepKeeps == ASSUME PagesInv, PageStep PROVE PagesInv'
<1> USE PagesAssumption
<1>t. /\ page \in PageStates /\ page.token \in Pass \cup {Blank}
      /\ page.handle \in Person \cup {Blank} /\ page.canvas \in Board \cup {Blank}
      /\ stored \in [token : Pass \cup {Blank}, handle : Person \cup {Blank}]
  BY DEF PagesInv, PageTypeOK, PageStates
<1>h. Holds(page.token, page.handle) /\ Holds(stored.token, stored.handle)
  BY DEF PagesInv, TokensSound
<1>a. Away \in PageStates /\ Away.canvas = Blank /\ Holds(Away.token, Away.handle)
  BY DEF Away, PageStates, Holds
<1>1. ASSUME NEW p \in {"home", "whiteboard"}, Loads(p) PROVE PagesInv'
  <2> DEFINE new == [path |-> p, token |-> stored.token, handle |-> stored.handle, canvas |-> Blank]
  <2>1. new \in PageStates
    BY <1>t DEF PageStates
  <2>2. May(Away, new, {})
    BY <1>1, <1>t, <1>h, <2>1 DEF Loads, May
  <2> QED
    BY <1>1, <2>2, TurnsKeeps DEF Loads
<1>2. ASSUME NEW p \in {"home", "whiteboard"}, Navigates(p) PROVE PagesInv'
  <2> DEFINE new == [page EXCEPT !.path = p]
  <2>1. /\ new \in PageStates /\ new.token = page.token /\ new.handle = page.handle
        /\ new.canvas = page.canvas
    BY <1>t DEF PageStates
  <2>2. May(page, new, calls)
    BY <1>2, <1>t, <1>h, <2>1 DEF Navigates, May, PagesInv, CanvasSound, Known
  <2> QED
    BY <1>2, <2>2, TurnsKeeps DEF Navigates
<1>3. ASSUME NEW d \in Person, NEW p \in Pass, NEW goal \in {"whiteboard", "bluesky"},
             Submits(d, p, goal)
      PROVE  PagesInv'
  BY <1>3, SubmitsKeeps
<1>4. ASSUME NEW c \in calls, SignedIn(c) PROVE PagesInv'
  <2> DEFINE new == [page EXCEPT !.path = "whiteboard", !.token = c.token, !.handle = c.as]
  <2>1. c.token \in Pass /\ c.as \in Person /\ <<c.token, c.as>> \in issued
    BY <1>4 DEF SignedIn, PagesInv, CallsSound, PageTypeOK, CallStates
  <2>2. /\ new \in PageStates /\ new.token = c.token /\ new.handle = c.as
        /\ new.canvas = page.canvas
    BY <1>t, <2>1 DEF PageStates
  <2>3. new.canvas # Blank => owner[new.canvas] # Blank /\ <<new.canvas, c.as>> \in Known'
    BY <1>4, <1>t, <2>1, <2>2 DEF SignedIn, PagesInv, CanvasSound, Known
  <2>4. Holds(new.token, new.handle) /\ Holds(stored'.token, stored'.handle)
    BY <1>4, <2>1, <2>2 DEF SignedIn, Holds
  <2>5. stored' \in [token : Pass \cup {Blank}, handle : Person \cup {Blank}]
    BY <1>4, <2>1 DEF SignedIn
  <2>6. May(page, new, calls \ {c})
    BY <1>4, <2>1, <2>2, <2>3, <2>4, <2>5 DEF SignedIn, May
  <2> QED
    BY <1>4, <2>6, TurnsKeeps DEF SignedIn
<1>5. ASSUME NEW c \in calls, HandedOff(c) PROVE PagesInv'
  <2>1. c.token \in Pass /\ c.as \in Person /\ <<c.token, c.as>> \in issued
    BY <1>5 DEF HandedOff, PagesInv, CallsSound, PageTypeOK, CallStates
  <2>2. May(page, Away, {})
    BY <1>5, <1>a, <2>1 DEF HandedOff, May, Holds
  <2> QED
    BY <1>5, <2>2, TurnsKeeps DEF HandedOff
<1>6. ASSUME NEW c \in calls, Opens(c) PROVE PagesInv'
  <2> DEFINE new == [page EXCEPT !.canvas = c.canvas]
  <2>1. /\ c.canvas \in Board /\ owner[c.canvas] # Blank
        /\ \A d \in Person : <<c.token, d>> \in issued => <<c.canvas, d>> \in Known
    BY <1>6 DEF Opens, PagesInv, CallsSound, PageTypeOK, CallStates
  <2>2. /\ new \in PageStates /\ new.token = page.token /\ new.handle = page.handle
        /\ new.canvas = c.canvas
    BY <1>t, <2>1 DEF PageStates
  <2>3. page.token # Blank => page.handle \in Person /\ <<page.token, page.handle>> \in issued
    BY <1>h DEF Holds, PagesInv, PageTypeOK
  <2>4. c.token # Blank
    BY <1>6 DEF PagesInv, PageTypeOK, CallStates
  <2>5. IF new.token # Blank THEN <<new.canvas, new.handle>> \in Known'
                             ELSE {new.canvas} \X Person \subseteq Known'
    BY <1>6, <2>1, <2>2, <2>3, <2>4 DEF Opens, Known
  <2>6. May(page, new, calls \ {c})
    BY <1>6, <1>t, <1>h, <2>1, <2>2, <2>5 DEF Opens, May
  <2> QED
    BY <1>6, <2>6, TurnsKeeps DEF Opens
<1>7. ASSUME NEW b \in Board, Clicks(b) PROVE PagesInv'
  <2> DEFINE new == [page EXCEPT !.canvas = b]
  <2>1. /\ new \in PageStates /\ new.token = page.token /\ new.handle = page.handle
        /\ new.canvas = b
    BY <1>t DEF PageStates
  <2>2. owner[b] # Blank /\ page.token # Blank
    BY <1>7 DEF Clicks, PagesInv, MountedSound, ListUp
  <2>3. May(page, new, calls)
    BY <1>7, <1>t, <1>h, <2>1, <2>2 DEF Clicks, May, Known
  <2> QED
    BY <1>7, <2>3, TurnsKeeps DEF Clicks
<1>8. ASSUME NEW b \in Board, NEW op \in {"open", "create"}, Asks(op, b) PROVE PagesInv'
  BY <1>8, AsksKeeps
<1>9. CASE LogsOut
  <2> DEFINE new == [Away EXCEPT !.path = "home"]
  <2>1. new \in PageStates /\ new.token = Blank /\ new.canvas = Blank
    BY DEF Away, PageStates
  <2>2. May(page, new, calls \cup Farewell)
    BY <1>9, <2>1 DEF LogsOut, May, SignedOut, Holds
  <2> QED
    BY <1>9, <2>2, TurnsKeeps DEF LogsOut
<1>10. CASE GoesBack
  <2> DEFINE new == [page EXCEPT !.canvas = Blank]
  <2>1. /\ new \in PageStates /\ new.token = page.token /\ new.handle = page.handle
        /\ new.canvas = Blank
    BY <1>t DEF PageStates
  <2>2. May(page, new, calls)
    BY <1>10, <1>t, <1>h, <2>1 DEF GoesBack, May
  <2> QED
    BY <1>10, <2>2, TurnsKeeps DEF GoesBack
<1> QED
  BY <1>1, <1>2, <1>3, <1>4, <1>5, <1>6, <1>7, <1>8, <1>9, <1>10 DEF PageStep

-----------------------------------------------------------------------------
(* What the server and other tabs do *)

LEMMA ServerStepKeeps == ASSUME PagesInv, ServerStep PROVE PagesInv'
<1> USE PagesAssumption DEF PagesInv, tabVars, tableVars, pastVars, Authenticated
<1>1. ASSUME NEW c \in calls, ListArrives(c) PROVE PagesInv'
  <2> USE DEF ListArrives
  <2>1. c.token \in Pass /\ ListUp(page) /\ (c.token = page.token \/ swapped)
    BY <1>1 DEF CallsSound, PageTypeOK, CallStates
  <2>2. list'.of # Blank /\ list' # list => <<c.token, list'.of>> \in issued
    BY <1>1, <2>1 DEF TokensSound
  <2>3. c.token = page.token /\ list'.of # Blank /\ list' # list => list'.of = page.handle
    BY <2>1, <2>2, OneHolder DEF TokensSound, Holds, ListUp
  <2>4. Listed(session[c.token]) \subseteq Board
        /\ \A b \in Listed(session[c.token]) : owner[b] # Blank
    BY DEF Listed
  <2>5. PageTypeOK'
    BY <1>1, <2>1, <2>4 DEF PageTypeOK
  <2>6. TokensSound' /\ CallsSound' /\ CanvasSound'
    BY <1>1 DEF TokensSound, CallsSound, CanvasSound, Known, Holds
  <2>7. MountedSound' /\ ActsAsShown'
    BY <1>1, <2>1, <2>3, <2>4 DEF MountedSound, ActsAsShown
  <2> QED
    BY <1>1, <2>5, <2>6, <2>7 DEF Known
<1>2. ASSUME NEW c \in calls, Serves(c) PROVE PagesInv'
  <2> DEFINE served == [c EXCEPT !.as = session[c.token]]
  <2> USE DEF Serves
  <2>1. c.token \in Pass /\ c \in CallStates /\ c.canvas \in Board /\ c.op \in {"open", "create"}
    BY <1>2 DEF CallsSound, PageTypeOK, CallStates
  <2>2. /\ served.op = c.op /\ served.token = c.token /\ served.canvas = c.canvas
        /\ served.as = session[c.token]
    BY <2>1 DEF CallStates
  <2>3. /\ owner' \in [Board -> Person \cup {Blank}]
        /\ \A b \in Board : owner[b] # Blank => owner'[b] # Blank
    BY <1>2, <2>1 DEF PageTypeOK
  <2>4. \A x \in calls' : x \in calls \/ (x = served /\ session[c.token] # Blank
                                               /\ owner'[c.canvas] # Blank)
    BY <1>2, <2>1 DEF PageTypeOK
  <2>5. served \in CallStates
    BY <2>1 DEF CallStates, PageTypeOK
  <2>6. PageTypeOK'
    BY <1>2, <2>3, <2>4, <2>5 DEF PageTypeOK
  <2>7. CallsSound'
    <3>1. <<c.token, session[c.token]>> \in issued \/ session[c.token] = Blank
      BY <2>1 DEF TokensSound
    <3>2. \A x \in calls : x.canvas \in Board \cup {Blank}
      BY DEF PageTypeOK, CallStates
    <3> QED
      BY <1>2, <2>1, <2>2, <2>3, <2>4, <3>1, <3>2 DEF CallsSound, Known
  <2>8. TokensSound' /\ CanvasSound' /\ MountedSound' /\ ActsAsShown'
    BY <1>2, <2>3
    DEF TokensSound, CanvasSound, Known, Holds, MountedSound, ActsAsShown, PageTypeOK, PageStates
  <2> QED
    BY <1>2, <2>6, <2>7, <2>8 DEF Known
<1>3. ASSUME NEW c \in calls, Reads(c) PROVE PagesInv'
  <2> USE DEF Reads
  <2>1. /\ c.token \in Pass /\ c.canvas \in Board
        /\ session[c.token] # Blank =>
             session[c.token] \in Person /\ <<c.canvas, session[c.token]>> \in Known
    BY <1>3 DEF CallsSound, PageTypeOK, CallStates, TokensSound
  <2>2. PageTypeOK'
    BY <1>3, <2>1 DEF PageTypeOK
  <2>3. TokensSound' /\ CallsSound' /\ CanvasSound' /\ MountedSound' /\ ActsAsShown'
    BY <1>3 DEF TokensSound, CallsSound, CanvasSound, MountedSound, ActsAsShown, Known, Holds
  <2> QED
    BY <1>3, <2>1, <2>2, <2>3 DEF Known
<1>4. ASSUME NEW c \in calls, Ended(c) PROVE PagesInv'
  <2>1. TokensSound' /\ CallsSound' /\ CanvasSound' /\ MountedSound' /\ ActsAsShown'
    BY <1>4 DEF Ended, TokensSound, CallsSound, CanvasSound, MountedSound, ActsAsShown, Known,
                Holds, PageTypeOK
  <2> QED
    BY <1>4, <2>1 DEF Ended, PageTypeOK, Known
<1>5. CASE Connects
  <2> USE DEF Connects
  <2> DEFINE d == session[page.token]
  <2>1. ViewUp(page) /\ page.token \in Pass /\ page.canvas \in Board
    BY <1>5 DEF MountedSound, ViewUp, PageTypeOK, PageStates
  <2>2. <<page.token, page.handle>> \in issued /\ <<page.canvas, page.handle>> \in Known
    BY <2>1 DEF ViewUp, TokensSound, Holds, CanvasSound
  <2>3. d # Blank => d = page.handle /\ d \in Person
    BY <2>1, <2>2, OneHolder DEF TokensSound, PageTypeOK
  <2>4. PageTypeOK'
    BY <1>5, <2>1, <2>3 DEF PageTypeOK
  <2>5. TokensSound' /\ CallsSound' /\ CanvasSound'
    BY <1>5 DEF TokensSound, CallsSound, CanvasSound, Known, Holds
  <2>6. MountedSound' /\ ActsAsShown'
    BY <1>5, <2>1, <2>3 DEF MountedSound, ActsAsShown
  <2> QED
    BY <1>5, <2>2, <2>3, <2>4, <2>5, <2>6 DEF Known
<1>6. ASSUME NEW p \in Pass, Expires(p) PROVE PagesInv'
  <2>1. TokensSound' /\ CallsSound' /\ CanvasSound' /\ MountedSound' /\ ActsAsShown'
    BY <1>6 DEF Expires, TokensSound, CallsSound, CanvasSound, MountedSound, ActsAsShown, Known,
                Holds, PageTypeOK
  <2> QED
    BY <1>6, <2>1 DEF Expires, PageTypeOK, Known
<1>7. ASSUME NEW b \in Board, SetsStatus(b) PROVE PagesInv'
  <2>1. TokensSound' /\ CallsSound' /\ CanvasSound' /\ MountedSound' /\ ActsAsShown'
    BY <1>7 DEF SetsStatus, TokensSound, CallsSound, CanvasSound, MountedSound, ActsAsShown, Known,
                Holds
  <2> QED
    BY <1>7, <2>1 DEF SetsStatus, PageTypeOK, Known
<1> QED
  BY <1>1, <1>2, <1>3, <1>4, <1>5, <1>6, <1>7 DEF ServerStep

LEMMA ElsewhereKeeps ==
  ASSUME PagesInv,
         LogOutElsewhere \/ \E d \in Person, p \in Pass : SignInElsewhere(d, p)
  PROVE  PagesInv'
<1> USE PagesAssumption DEF PagesInv, SignedOut
<1>1. CASE LogOutElsewhere
  <2>1. TokensSound' /\ CallsSound' /\ CanvasSound' /\ MountedSound' /\ ActsAsShown'
    BY <1>1 DEF LogOutElsewhere, TokensSound, CallsSound, CanvasSound, MountedSound, ActsAsShown,
                Known, Holds, PageTypeOK, pastVars
  <2> QED
    BY <1>1, <2>1 DEF LogOutElsewhere, PageTypeOK, Known, pastVars
<1>2. ASSUME NEW d \in Person, NEW p \in Pass, SignInElsewhere(d, p) PROVE PagesInv'
  <2> USE DEF SignInElsewhere
  <2>1. PageTypeOK'
    BY <1>2 DEF PageTypeOK
  <2>2. TokensSound'
    BY <1>2 DEF TokensSound, PageTypeOK, Holds
  <2>3. CallsSound'
    <3>1. \A x \in calls, e \in Person : <<x.token, e>> \in issued' => <<x.token, e>> \in issued
      BY <1>2 DEF CallsSound
    <3> QED
      BY <1>2, <3>1 DEF CallsSound, Known
  <2>4. CanvasSound' /\ MountedSound' /\ ActsAsShown' /\ (members \subseteq Known)'
    BY <1>2 DEF CanvasSound, MountedSound, ActsAsShown, Known
  <2> QED
    BY <2>1, <2>2, <2>3, <2>4
<1> QED
  BY <1>1, <1>2

-----------------------------------------------------------------------------
\* The inductive invariant: a token is for one account, a request carries a canvas
\* its account was told of, and what is mounted belongs to what the page shows.
THEOREM PagesInvariant == PagesSpec => []PagesInv
<1>1. PagesInv /\ UNCHANGED pagesVars => PagesInv'
  <2> SUFFICES ASSUME PagesInv, UNCHANGED pagesVars PROVE PagesInv'
    OBVIOUS
  <2> USE DEF PagesInv, pagesVars, tabVars, tableVars, pastVars
  <2>1. PageTypeOK'
    BY DEF PageTypeOK
  <2>2. TokensSound' /\ CanvasSound' /\ MountedSound' /\ ActsAsShown'
    BY DEF TokensSound, Holds, CanvasSound, MountedSound, ActsAsShown, Known
  <2>3. CallsSound' /\ (members \subseteq Known)'
    BY DEF CallsSound, Known
  <2> QED
    BY <2>1, <2>2, <2>3
<1>2. PagesInv /\ [PagesNext]_pagesVars => PagesInv'
  BY <1>1, PageStepKeeps, ServerStepKeeps, ElsewhereKeeps DEF PagesNext
<1> QED
  BY PagesStart, <1>2, PTL DEF PagesSpec

\* The account a page shows is the one its socket acts as and its list is of
\* (App.tsx:44-65, CanvasView.tsx:390), whatever answers come late.
THEOREM PagesActAsShown == PagesSpec => []ActsAsShown
<1>1. PagesInv => ActsAsShown
  BY DEF PagesInv
<1> QED
  BY <1>1, PagesInvariant, PTL

\* What an account is a member of, a page was told to open for it or carried over,
\* and what is live on a page is listed (db.py:165-186).
THEOREM ListsAreOfWhatWasOpened == PagesSpec => []ListsWhatWasOpened
<1>1. PagesInv => ListsWhatWasOpened
  <2> SUFFICES ASSUME PagesInv, wire.step = "live"
               PROVE  page.canvas \in Listed(page.handle) \cup archived
    BY DEF PagesInv, ListsWhatWasOpened, Known
  <2>1. /\ page.canvas \in Board /\ owner[page.canvas] # Blank
        /\ <<page.canvas, page.handle>> \in members
    BY DEF PagesInv, MountedSound, CanvasSound, ViewUp, PageTypeOK, PageStates
  <2> QED
    BY <2>1 DEF Listed
<1> QED
  BY <1>1, PagesInvariant, PTL
=============================================================================
