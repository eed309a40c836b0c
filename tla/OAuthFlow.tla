------------------------------ MODULE OAuthFlow ------------------------------
(***************************************************************************)
(* One OAuth flow as a client of others (backend/app/atproto_oauth.py):    *)
(* who the user is, told by DNS, by web servers and by a DID directory,    *)
(* and the two requests to the authorization server, each with a DPoP      *)
(* nonce.  What others publish may change between any two requests.        *)
(*                                                                         *)
(* A step is one answer from outside.  The rows a flow leaves behind, the  *)
(* issuer and the subject of its token are in SignIn; which server is      *)
(* asked, and whether its metadata will do, is not told apart from an      *)
(* answer that fails the flow.                                             *)
(***************************************************************************)
EXTENDS Integers

CONSTANTS Name,      \* handles
          Account,   \* DIDs
          Nil,       \* no answer
          MaxMoves   \* changes outside (bound)

ASSUME FlowAssumption == Nil \notin Name \cup Account /\ MaxMoves \in Nat

VARIABLES dns, web,   \* outside: the account that each of the two ways gives for a name,
                      \*   or Nil: none, or no answer
          claims,     \* the name that the document of an account claims, or Nil
          current,    \* the nonce that the authorization server accepts
          moves,
          at,         \* where the flow stands
          flow,       \* what it knows: the name, the account, which was given, the nonce
          \* history
          told,       \* since the login: names DNS was silent on, <<name, account>>
                      \*   pairs by name and by document
          turned      \* current has changed since this flow was given a nonce

outsideVars == <<dns, web, claims, current, moves>>
flowVars    == <<outsideVars, at, flow, told, turned>>

Start == [name |-> Nil, account |-> Nil, byName |-> TRUE, nonce |-> 0]

\* What is told once outside is `d`, `w` and `c`.
Telling(t, d, w, c) ==
  LET silent == t.silent \cup { n \in Name : d[n] = Nil }
  IN  [silent  |-> silent,
       pointed |-> t.pointed \cup { <<n, d[n]>> : n \in Name } \cup { <<n, w[n]>> : n \in silent },
       claimed |-> t.claimed \cup { <<c[a], a>> : a \in Account }]

Untold == [silent |-> {}, pointed |-> {}, claimed |-> {}]

Reach(step) == at' = step /\ UNCHANGED <<outsideVars, told, turned>>

-----------------------------------------------------------------------------
(* resolve_identity *)

\* The user typed a handle or a DID.
Login(id) ==
  /\ at = "idle"
  /\ at' = IF id \in Name THEN "dns" ELSE "doc"
  /\ flow' = IF id \in Name THEN [Start EXCEPT !.name = id]
                            ELSE [Start EXCEPT !.account = id, !.byName = FALSE]
  /\ told' = Telling(Untold, dns, web, claims)
  /\ turned' = FALSE
  /\ UNCHANGED outsideVars

\* Slip: the account that was typed is not compared with the one the name has.
NameLeadsToAny(a) ==
  IF flow.byName
    THEN Reach("doc") /\ flow' = [flow EXCEPT !.account = a]
    ELSE Reach("found") /\ UNCHANGED flow

\* The name resolves to account a: its document is asked for, or, when the
\* document came first, the account must be the one asked about.
NameLeadsTo(a) ==
  IF flow.byName
    THEN Reach("doc") /\ flow' = [flow EXCEPT !.account = a]
    ELSE Reach(IF a = flow.account THEN "found" ELSE "failed") /\ UNCHANGED flow

\* resolve_handle: DNS, then the well-known document of the name.
AskDns ==
  /\ at = "dns"
  /\ IF dns[flow.name] = Nil THEN Reach("web") /\ UNCHANGED flow
                             ELSE NameLeadsTo(dns[flow.name])

AskWeb ==
  /\ at = "web"
  /\ IF web[flow.name] = Nil THEN Reach("failed") /\ UNCHANGED flow
                             ELSE NameLeadsTo(web[flow.name])

\* Slip: the document is fetched, and its handle not compared.
AskDocOnly ==
  /\ at = "doc"
  /\ IF flow.byName
       THEN Reach("found") /\ UNCHANGED flow
       ELSE /\ Reach(IF claims[flow.account] = Nil THEN "failed" ELSE "dns")
            /\ flow' = [flow EXCEPT !.name = claims[flow.account]]

\* resolve_did and handle_from_doc: the document must claim the name; when the
\* account was given, its name must resolve back to it.
AskDoc ==
  LET claim == claims[flow.account]
  IN  /\ at = "doc"
      /\ IF flow.byName
           THEN Reach(IF claim = flow.name THEN "found" ELSE "failed") /\ UNCHANGED flow
           ELSE /\ Reach(IF claim = Nil THEN "failed" ELSE "dns")
                /\ flow' = [flow EXCEPT !.name = claim]

-----------------------------------------------------------------------------
(* The authorization server *)

\* resolve_pds_authserver and fetch_authserver_meta succeed, for the pushed request;
\* so does the second fetch of the metadata, when the user has come back.
Discovered ==
  /\ \/ at = "found" /\ Reach("par")
     \/ at = "away" /\ Reach("token")
  /\ UNCHANGED flow

Again == IF at = "par" THEN "par again" ELSE "token again"
Accepted == IF at \in {"par", "par again"} THEN "away" ELSE "in"

\* Slip: the nonce of the challenge serves for the retry alone.
ChallengedAndForgotten ==
  /\ at \in {"par", "token"} /\ flow.nonce # current
  /\ at' = Again
  /\ turned' = FALSE
  /\ UNCHANGED <<outsideVars, told, flow>>

\* auth_server_post: a nonce that is missing or no longer good is answered by a
\* challenge that brings a new one, kept for what remains of the flow.
Challenged ==
  /\ at \in {"par", "token"} /\ flow.nonce # current
  /\ at' = Again
  /\ flow' = [flow EXCEPT !.nonce = current]
  /\ turned' = FALSE
  /\ UNCHANGED <<outsideVars, told>>

\* The nonce is good, at the first try or the second: the answer is 200, or the
\* flow fails on other grounds (Fails).
Answered ==
  /\ at \in {"par", "par again", "token", "token again"} /\ flow.nonce = current
  /\ Reach(Accepted)
  /\ UNCHANGED flow

\* The second try is the last.
ChallengedAgain ==
  /\ at \in {"par again", "token again"} /\ flow.nonce # current
  /\ Reach("refused")
  /\ UNCHANGED flow

\* A server that does not answer, answers what will not do or refuses.
Fails ==
  /\ at \notin {"idle", "in", "failed", "refused"}
  /\ Reach("failed")
  /\ UNCHANGED flow

-----------------------------------------------------------------------------
(* Outside *)

Moves(d, w, c, n) ==
  /\ moves < MaxMoves
  /\ moves' = moves + 1
  /\ dns' = d /\ web' = w /\ claims' = c /\ current' = n
  /\ told' = Telling(told, d, w, c)
  /\ turned' = (turned \/ n # current)
  /\ UNCHANGED <<at, flow>>

Outside ==
  \/ \E n \in Name, a \in Account \cup {Nil} :
       \/ Moves([dns EXCEPT ![n] = a], web, claims, current)
       \/ Moves(dns, [web EXCEPT ![n] = a], claims, current)
  \/ \E a \in Account, n \in Name \cup {Nil} :
       Moves(dns, web, [claims EXCEPT ![a] = n], current)
  \/ Moves(dns, web, claims, current + 1)

-----------------------------------------------------------------------------
\* Names resolve over the web to begin with; nonces are 1, 2, ..., and 0 is none.
FlowInit ==
  /\ dns = [n \in Name |-> Nil]
  /\ web \in [Name -> Account \cup {Nil}]
  /\ claims \in [Account -> Name \cup {Nil}]
  /\ current = 1 /\ moves = 0
  /\ at = "idle"
  /\ flow = Start
  /\ told = Untold
  /\ turned = FALSE

FlowNext ==
  \/ \E id \in Name \cup Account : Login(id)
  \/ AskDns \/ AskWeb \/ AskDoc
  \/ Discovered \/ Challenged \/ Answered \/ ChallengedAgain \/ Fails
  \/ Outside

FlowSpec == FlowInit /\ [][FlowNext]_flowVars

-----------------------------------------------------------------------------
Identified == at \notin {"idle", "dns", "web", "doc", "failed"}

\* "The handle is verified bidirectionally" (atproto_oauth.py:193-195): the
\* account a flow is for and its handle have pointed at each other during this
\* login - by DNS, or by the web with DNS silent - whichever the user typed and
\* whatever changed between the requests.
TwoWay ==
  Identified =>
    /\ flow.name # Nil /\ flow.account # Nil
    /\ <<flow.name, flow.account>> \in told.pointed \cap told.claimed

\* Why: what a step learns is still among what was told when it is used.
FlowTypes ==
  /\ dns \in [Name -> Account \cup {Nil}] /\ web \in [Name -> Account \cup {Nil}]
  /\ claims \in [Account -> Name \cup {Nil}]
  /\ current \in Nat \ {0}
  /\ flow \in [name : Name \cup {Nil}, account : Account \cup {Nil}, byName : BOOLEAN, nonce : Nat]
  /\ turned \in BOOLEAN

UpToDate ==
  at # "idle" =>
    /\ \A n \in Name : <<n, dns[n]>> \in told.pointed /\ (dns[n] = Nil => n \in told.silent)
    /\ \A n \in told.silent \cap Name : <<n, web[n]>> \in told.pointed
    /\ \A a \in Account : <<claims[a], a>> \in told.claimed

Halfway ==
  /\ at \in {"dns", "web"} =>
       /\ flow.name \in Name
       /\ ~flow.byName => flow.account \in Account /\ <<flow.name, flow.account>> \in told.claimed
  /\ at = "web" => flow.name \in told.silent
  /\ at = "doc" =>
       /\ flow.account \in Account
       /\ flow.byName => flow.name \in Name /\ <<flow.name, flow.account>> \in told.pointed

NonceKept ==
  /\ at \in {"idle", "dns", "web", "doc", "found", "par"} => flow.nonce = 0
  /\ at \in {"par again", "away", "token", "token again"} /\ ~turned => flow.nonce = current

FlowInv == FlowTypes /\ UpToDate /\ Halfway /\ NonceKept /\ TwoWay

\* "retrying once on a nonce challenge (the server issues nonces lazily)"
\* (atproto_oauth.py:357-359): a request is refused for its nonce only if the
\* nonce has changed since the challenge, and the token request needs no
\* challenge unless it has changed since the flow was given one.
OneRetryIsEnough ==
  [][(at # "refused" /\ at' = "refused") \/ (at = "token" /\ at' = "token again")
       => turned]_flowVars
=============================================================================
