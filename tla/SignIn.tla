------------------------------- MODULE SignIn -------------------------------
(***************************************************************************)
(* Signing in: OAuth flows and their callbacks, password sign-in and       *)
(* registration (backend/app/oauth_routes.py), the rows they keep in       *)
(* oauth_auth_request and wb_session (backend/app/db.py), and signing out. *)
(*                                                                         *)
(* Each statement commits by itself; a step is one statement, or the       *)
(* answer of the authorization server or the PDS.  These two are outside:  *)
(* they may vouch for anybody or fail.                                     *)
(***************************************************************************)
EXTENDS Clock, FiniteSets

CONSTANTS Did,           \* accounts
          Flow,          \* values of `state`, each drawn once
          Token,         \* session tokens, each drawn once
          Req,           \* concurrent callbacks, password sign-ins and registrations
          Pds,           \* our own PDS, where a password or a registration is proved
          None,          \* no row
          FlowAge,       \* max_age_seconds of prune_auth_requests
          SessionTtl,    \* session_ttl_seconds
          SignInHorizon  \* bound: the clock stops

ASSUME SignInAssumption ==
  /\ Pds \notin Flow /\ None \notin Flow \cup {Pds} \cup Did
  /\ None \notin [did : Did, born : Nat] \cup [did : Did, until : Nat]
  /\ FlowAge \in Nat /\ SessionTtl \in Nat \ {0} /\ SignInHorizon \in Nat

VARIABLES login,    \* the login handler of each flow
          flows,    \* oauth_auth_request
          sessions, \* wb_session
          pc, who,  \* each request: step, and what it knows: source and account
          \* history, read by no guard but to draw fresh names:
          started,  \* each flow: account and time
          taken,    \* flows whose row a callback has taken
          vouched,  \* <<source, account>> somebody outside has vouched for
          minted,   \* <<token, source, account, expiry>> of every session
          out       \* tokens that signed out

dbVars     == <<flows, sessions>>
histVars   == <<started, taken, vouched, minted, out>>
signInVars == <<now, login, dbVars, pc, who, histVars>>

Nobody == [source |-> None, did |-> None]

Go(r, step, w) == pc' = [pc EXCEPT ![r] = step] /\ who' = [who EXCEPT ![r] = w]

-----------------------------------------------------------------------------
(* login: everything before the first statement only asks others. *)

\* save_auth_request, for the account the handle resolved to.
SaveFlow(s, d) ==
  /\ login[s] = "none"
  /\ login' = [login EXCEPT ![s] = "saved"]
  /\ flows' = [flows EXCEPT ![s] = [did |-> d, born |-> now]]
  /\ started' = [started EXCEPT ![s] = [did |-> d, born |-> now]]
  /\ UNCHANGED <<now, sessions, pc, who, taken, vouched, minted, out>>

\* Slip: <= for <.
PruneFlowsEarly(s) ==
  /\ login[s] = "saved"
  /\ login' = [login EXCEPT ![s] = "done"]
  /\ flows' = [f \in Flow |-> IF flows[f] # None /\ now - flows[f].born >= FlowAge
                                THEN None ELSE flows[f]]
  /\ UNCHANGED <<now, sessions, pc, who, histVars>>

\* prune_auth_requests, then the redirect that tells the browser its state.
PruneFlows(s) ==
  /\ login[s] = "saved"
  /\ login' = [login EXCEPT ![s] = "done"]
  /\ flows' = [f \in Flow |-> IF flows[f] # None /\ now - flows[f].born > FlowAge
                                THEN None ELSE flows[f]]
  /\ UNCHANGED <<now, sessions, pc, who, histVars>>

-----------------------------------------------------------------------------
(* callback *)

\* Slip: SELECT, with the row deleted by the next prune.
TakeFlowKept(r, s, issuerOk) ==
  /\ pc[r] = "idle" /\ login[s] = "done" /\ flows[s] # None
  /\ taken' = taken \cup {s}
  /\ IF issuerOk
       THEN Go(r, "exchange", [source |-> s, did |-> flows[s].did])
       ELSE UNCHANGED <<pc, who>>
  /\ UNCHANGED <<now, login, flows, sessions, started, vouched, minted, out>>

\* take_auth_request deletes and returns the row in one statement, then the
\* issuer is compared.  The row is gone whatever happens next.
TakeFlow(r, s, issuerOk) ==
  /\ pc[r] = "idle" /\ login[s] = "done" /\ flows[s] # None
  /\ flows' = [flows EXCEPT ![s] = None]
  /\ taken' = taken \cup {s}
  /\ IF issuerOk
       THEN Go(r, "exchange", [source |-> s, did |-> flows[s].did])
       ELSE UNCHANGED <<pc, who>>
  /\ UNCHANGED <<now, login, sessions, started, vouched, minted, out>>

\* Slip: the subject of the token is not compared.
ExchangeUnchecked(r, sub) ==
  /\ pc[r] = "exchange"
  /\ vouched' = vouched \cup {<<who[r].source, sub>>}
  /\ Go(r, "verified", who[r])
  /\ UNCHANGED <<now, login, dbVars, started, taken, minted, out>>

\* initial_token_request brings a token for some account; only the account the
\* flow was started for goes on.
Exchange(r, sub) ==
  /\ pc[r] = "exchange"
  /\ vouched' = vouched \cup {<<who[r].source, sub>>}
  /\ IF sub = who[r].did THEN Go(r, "verified", who[r]) ELSE Go(r, "idle", Nobody)
  /\ UNCHANGED <<now, login, dbVars, started, taken, minted, out>>

-----------------------------------------------------------------------------
(* login_password and register, and what all three ways in share *)

\* verify_credentials or create_account succeeds for account d.
PdsVouches(r, d) ==
  /\ pc[r] = "idle"
  /\ vouched' = vouched \cup {<<Pds, d>>}
  /\ Go(r, "verified", [source |-> Pds, did |-> d])
  /\ UNCHANGED <<now, login, dbVars, started, taken, minted, out>>

\* create_session under a token nobody has seen.
Mint(r, t) ==
  /\ pc[r] = "verified"
  /\ \A x \in minted : x[1] # t
  /\ sessions' = [sessions EXCEPT ![t] = [did |-> who[r].did, until |-> now + SessionTtl]]
  /\ minted' = minted \cup {<<t, who[r].source, who[r].did, now + SessionTtl>>}
  /\ Go(r, "minted", who[r])
  /\ UNCHANGED <<now, login, flows, started, taken, vouched, out>>

\* Slip: the other sessions of the account go too.
PruneAccount(r) ==
  /\ pc[r] = "minted"
  /\ sessions' = [t \in Token |-> IF sessions[t] # None /\ sessions[t].did = who[r].did
                                    THEN None ELSE sessions[t]]
  /\ Go(r, "idle", Nobody)
  /\ UNCHANGED <<now, login, flows, histVars>>

\* prune_sessions, then the response with the token.
PruneSessions(r) ==
  /\ pc[r] = "minted"
  /\ sessions' = [t \in Token |-> IF sessions[t] # None /\ sessions[t].until <= now
                                    THEN None ELSE sessions[t]]
  /\ Go(r, "idle", Nobody)
  /\ UNCHANGED <<now, login, flows, histVars>>

\* A failed exchange or statement, a registration (which does not prune), or a
\* restart of the server: the request ends where it is.
Stop(r) ==
  /\ pc[r] # "idle"
  /\ Go(r, "idle", Nobody)
  /\ UNCHANGED <<now, login, dbVars, histVars>>

Logout(t) ==
  /\ \E x \in minted : x[1] = t
  /\ t \notin out
  /\ sessions' = [sessions EXCEPT ![t] = None]
  /\ out' = out \cup {t}
  /\ UNCHANGED <<now, login, flows, pc, who, started, taken, vouched, minted>>

SignInTick ==
  /\ Passes(SignInHorizon)
  /\ UNCHANGED <<login, dbVars, pc, who, histVars>>

-----------------------------------------------------------------------------
SignInInit ==
  /\ now = 0
  /\ login = [s \in Flow |-> "none"]
  /\ flows = [s \in Flow |-> None]
  /\ sessions = [t \in Token |-> None]
  /\ pc = [r \in Req |-> "idle"]
  /\ who = [r \in Req |-> Nobody]
  /\ started = [s \in Flow |-> None]
  /\ taken = {} /\ vouched = {} /\ minted = {} /\ out = {}

Handle(r) ==
  \/ \E s \in Flow, ok \in BOOLEAN : TakeFlow(r, s, ok)
  \/ \E d \in Did : Exchange(r, d) \/ PdsVouches(r, d)
  \/ \E t \in Token : Mint(r, t)
  \/ PruneSessions(r) \/ Stop(r)

SignInNext ==
  \/ \E s \in Flow : PruneFlows(s) \/ \E d \in Did : SaveFlow(s, d)
  \/ \E r \in Req : Handle(r)
  \/ \E t \in Token : Logout(t)
  \/ SignInTick

SignInSpec == SignInInit /\ [][SignInNext]_signInVars
-----------------------------------------------------------------------------
\* A flow signs in once: "two concurrent callbacks replaying the same code
\* cannot both succeed" (db.py:344-345), nor one after the other.
OneSessionPerFlow ==
  \A x, y \in minted : x[2] = y[2] /\ x[2] \in Flow => x = y

\* "THE load-bearing check" (oauth_routes.py:204-207): a session is for an
\* account that its source vouched for and, by OAuth, that its flow was
\* started for.
SessionsAreVouchedFor ==
  \A t \in Token : sessions[t] # None =>
    \E x \in minted :
      /\ x[1] = t /\ x[3] = sessions[t].did
      /\ <<x[2], x[3]>> \in vouched
      /\ x[2] \in Flow => started[x[2]].did = x[3]

\* A flow no older than FlowAge that no callback has taken can be completed,
\* whoever else signs in meanwhile and prunes (db.py:355-363).
YoungFlowsLive ==
  \A s \in Flow :
    started[s] # None /\ now - started[s].born <= FlowAge /\ s \notin taken
      => flows[s] # None

\* A session lasts until it expires or signs out, whoever else signs in
\* meanwhile and prunes (db.py:395-399).
SessionsLast ==
  \A x \in minted : now < x[4] /\ x[1] \notin out => sessions[x[1]] # None
=============================================================================
