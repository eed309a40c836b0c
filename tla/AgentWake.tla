------------------------------ MODULE AgentWake ------------------------------
(***************************************************************************)
(* From a tag in a text to the agent it names: the three ways in which a   *)
(* text is created (backend/app/routes.py, ws_routes.py), the wake tasks   *)
(* they start (backend/app/ai_trigger.py) and the mentions these post.     *)
(*                                                                         *)
(* A text is the handle at each of its spots, Nil where there is none.     *)
(* Only elements of kind "text" are followed: no other is searched.  A     *)
(* request waits between "begun" (validated) and "stored", and after       *)
(* "stored"; what a handler does from there to its next wait is one step.  *)
(* bsky-mcp is outside: it may post a mention and its answer be lost.      *)
(***************************************************************************)
EXTENDS Integers

CONSTANTS Text,     \* elements of kind "text", each created once
          Spot,     \* where a text may have a tag
          Agent,    \* handles
          Sender,   \* concurrent requests and sockets
          NoTag,    \* no tag at a spot
          NoRow     \* not in canvas_elements

ASSUME WakeAssumption == NoTag \notin Agent /\ NoRow \notin Text \cup [Spot -> Agent \cup {NoTag}]

VARIABLES row,      \* canvas_elements: what each text says, or NoRow
          wake,     \* the task of each tag: "none", "due" or "ended"
          request,  \* each request: where it stands, the way it came, its text
          \* history:
          first,    \* what each text said when it was stored, or NoRow
          edited,   \* texts rewritten or deleted since
          mentions, \* how often the tag has been mentioned
          missed    \* texts whose sender was gone, whose INSERT went
                    \* unanswered, or that a restart caught

wakeVars == <<row, wake, request, first, edited, mentions, missed>>

Words == [Spot -> Agent \cup {NoTag}]
Idle == [at |-> "idle", way |-> "http", text |-> NoRow, says |-> NoRow]

-----------------------------------------------------------------------------
(* Creating a text. *)

\* Slip: scheduled when the request is accepted.
BeginEagerly(r, way, t, says) ==
  /\ request[r].at = "idle" \/ (request[r].at = "more" /\ way = "bulk")
  /\ first[t] = NoRow
  /\ \A q \in Sender : request[q].text # t
  /\ request' = [request EXCEPT ![r] = [at |-> "begun", way |-> way, text |-> t, says |-> says]]
  /\ wake' = [wake EXCEPT ![t] = [s \in Spot |-> IF says[s] # NoTag THEN "due" ELSE @[s]]]
  /\ UNCHANGED <<row, first, edited, mentions, missed>>

\* A request for a text, or the next item of a bulk.
BeginText(r, way, t, says) ==
  /\ \/ request[r].at = "idle"
     \/ request[r].at = "more" /\ way = "bulk"
  /\ first[t] = NoRow
  /\ \A q \in Sender : request[q].text # t
  /\ request' = [request EXCEPT ![r] = [at |-> "begun", way |-> way, text |-> t, says |-> says]]
  /\ UNCHANGED <<row, wake, first, edited, mentions, missed>>

\* The INSERT.
StoreText(r) ==
  LET t == request[r].text
  IN  /\ request[r].at = "begun"
      /\ row' = [row EXCEPT ![t] = request[r].says]
      /\ first' = [first EXCEPT ![t] = request[r].says]
      /\ request' = [request EXCEPT ![r].at = "stored"]
      /\ UNCHANGED <<wake, edited, mentions, missed>>

\* The INSERT commits and its answer is lost: add_element raises, which ends the
\* handler and leaves the text without a task.
StoreUnanswered(r) ==
  LET t == request[r].text
  IN  /\ request[r].at = "begun"
      /\ row' = [row EXCEPT ![t] = request[r].says]
      /\ first' = [first EXCEPT ![t] = request[r].says]
      /\ request' = [request EXCEPT ![r] = Idle]
      /\ missed' = missed \cup {t}
      /\ UNCHANGED <<wake, edited, mentions>>

\* Slip: re.search for findall.
FirstTask(t, says) ==
  [s \in Spot |->
     IF says[s] # NoTag /\ \A z \in Spot : says[z] # NoTag => s <= z THEN "due" ELSE wake[t][s]]

\* schedule_ai_tagged for every tag that extract_tags finds.
Tasks(t, says) ==
  [s \in Spot |-> IF says[s] # NoTag THEN "due" ELSE wake[t][s]]

\* The handler goes on: over HTTP it schedules and then broadcasts; a bulk
\* schedules before its next item; a socket schedules last, once its sender has
\* been sent the element back.
Schedule(r) ==
  /\ request[r].at = "stored"
  /\ wake' = [wake EXCEPT ![request[r].text] = Tasks(request[r].text, request[r].says)]
  /\ request' = [request EXCEPT ![r] =
                   IF request[r].way = "bulk" THEN [Idle EXCEPT !.at = "more", !.way = "bulk"]
                                              ELSE Idle]
  /\ UNCHANGED <<row, first, edited, mentions, missed>>

\* The echo to a sender who is gone raises, and the handler ends.
EchoFails(r) ==
  /\ request[r].at = "stored" /\ request[r].way = "ws"
  /\ request' = [request EXCEPT ![r] = Idle]
  /\ missed' = missed \cup {request[r].text}
  /\ UNCHANGED <<row, wake, first, edited, mentions>>

\* An INSERT fails, which ends a bulk before its broadcast; or a bulk is done.
Ends(r) ==
  /\ request[r].at \in {"begun", "more"}
  /\ request' = [request EXCEPT ![r] = Idle]
  /\ UNCHANGED <<row, wake, first, edited, mentions, missed>>

\* The owner rewrites a text or deletes it; neither looks for tags.
Rewrite(t, says) ==
  /\ row[t] # NoRow /\ says # row[t]
  /\ row' = [row EXCEPT ![t] = says]
  /\ edited' = edited \cup {t}
  /\ UNCHANGED <<wake, request, first, mentions, missed>>

-----------------------------------------------------------------------------
(* notify_ai_tagged *)

\* Slip: a failed call is made again.
NotifyRetrying(t, s, landed) ==
  /\ wake[t][s] = "due"
  /\ wake' = IF landed THEN [wake EXCEPT ![t][s] = "ended"] ELSE wake
  /\ mentions' = [mentions EXCEPT ![t][s] = @ + 1]
  /\ UNCHANGED <<row, request, first, edited, missed>>

\* One call.  The mention is posted or not; an answer, a refusal, a timeout and
\* the lack of a token are logged alike and the task is over.
Notify(t, s, landed) ==
  /\ wake[t][s] = "due"
  /\ wake' = [wake EXCEPT ![t][s] = "ended"]
  /\ mentions' = [mentions EXCEPT ![t][s] = IF landed THEN @ + 1 ELSE @]
  /\ UNCHANGED <<row, request, first, edited, missed>>

\* The process restarts, which ends handlers and tasks.
WakeRestart ==
  /\ missed' = missed \cup { t \in Text :
                     \/ \E r \in Sender : request[r].at = "stored" /\ request[r].text = t
                     \/ \E s \in Spot : wake[t][s] = "due" }
  /\ request' = [r \in Sender |-> Idle]
  /\ wake' = [t \in Text |-> [s \in Spot |-> IF wake[t][s] = "due" THEN "none" ELSE wake[t][s]]]
  /\ UNCHANGED <<row, first, edited, mentions>>

-----------------------------------------------------------------------------
WakeInit ==
  /\ row = [t \in Text |-> NoRow]
  /\ wake = [t \in Text |-> [s \in Spot |-> "none"]]
  /\ request = [r \in Sender |-> Idle]
  /\ first = [t \in Text |-> NoRow]
  /\ edited = {}
  /\ mentions = [t \in Text |-> [s \in Spot |-> 0]]
  /\ missed = {}

Creates(r) ==
  \/ \E way \in {"http", "bulk", "ws"}, t \in Text, says \in Words : BeginText(r, way, t, says)
  \/ StoreText(r) \/ StoreUnanswered(r) \/ Schedule(r) \/ EchoFails(r) \/ Ends(r)

WakeNext ==
  \/ \E r \in Sender : Creates(r)
  \/ \E t \in Text, says \in Words \cup {NoRow} : Rewrite(t, says)
  \/ \E t \in Text, s \in Spot, landed \in BOOLEAN : Notify(t, s, landed)
  \/ WakeRestart

WakeSpec == WakeInit /\ [][WakeNext]_wakeVars
-----------------------------------------------------------------------------
Says(says, s) == says # NoRow /\ says[s] # NoTag

\* "The tag is persisted on the canvas regardless" (ai_trigger.py:10): an agent
\* that follows a mention finds its tag in a stored text, unless that has been
\* rewritten or deleted since.
MentionsFindTheirTag ==
  \A t \in Text, s \in Spot :
    mentions[t][s] > 0 => Says(first[t], s) /\ (row[t] = first[t] \/ t \in edited)

\* However a text came, whatever bsky-mcp answers and whoever rewrites it: one
\* tag is one mention at most.
MentionedOnce == \A t \in Text, s \in Spot : mentions[t][s] <= 1

\* Once the handler is past its text, every tag that the text was created with has
\* its one task, running or done: a failing neighbour in a bulk, a rewriting and
\* every other request cost it nothing.  A sender who is gone before the echo does,
\* and so do a lost answer to the INSERT and a restart.
NoOtherTagIsMissed ==
  \A t \in Text, s \in Spot :
    /\ Says(first[t], s)
    /\ t \notin missed
    /\ \A r \in Sender : request[r].at = "stored" => request[r].text # t
    => wake[t][s] \in {"due", "ended"}
=============================================================================
