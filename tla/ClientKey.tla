----------------------------- MODULE ClientKey ------------------------------
(***************************************************************************)
(* The signing key of the OAuth client: get_or_create_client_jwk           *)
(* (backend/app/db.py), called for every client assertion and by           *)
(* /oauth/jwks.json (backend/app/oauth_routes.py).  The authorization      *)
(* server verifies an assertion with the key the endpoint publishes, so    *)
(* all callers must be told one key, before and after a restart.           *)
(*                                                                         *)
(* Each of the three statements commits by itself.                         *)
(***************************************************************************)
CONSTANTS Caller,  \* concurrent calls
          Key,     \* keys generate() may return, each at most once
          NoKey    \* no key

ASSUME KeyAssumption == NoKey \notin Key

VARIABLES jwk,     \* the row of oauth_client_key, or NoKey
          keyPc,   \* where each call stands
          drawn,   \* keys generated so far
          answer   \* what each caller was last told

keyVars == <<jwk, keyPc, drawn, answer>>

\* SELECT: a row is the answer, no row means generating one.
FirstRead(c) ==
  /\ keyPc[c] = "idle"
  /\ IF jwk # NoKey
       THEN answer' = [answer EXCEPT ![c] = jwk] /\ UNCHANGED keyPc
       ELSE keyPc' = [keyPc EXCEPT ![c] = "missing"] /\ UNCHANGED answer
  /\ UNCHANGED <<jwk, drawn>>

\* Slip: INSERT ... ON CONFLICT DO UPDATE.
InsertOverwriting(c, k) ==
  /\ keyPc[c] = "missing"
  /\ k \notin drawn
  /\ drawn' = drawn \cup {k}
  /\ jwk' = k
  /\ keyPc' = [keyPc EXCEPT ![c] = "inserted"]
  /\ UNCHANGED answer

\* generate(), then INSERT ... ON CONFLICT DO NOTHING.
Insert(c, k) ==
  /\ keyPc[c] = "missing"
  /\ k \notin drawn
  /\ drawn' = drawn \cup {k}
  /\ jwk' = IF jwk = NoKey THEN k ELSE jwk
  /\ keyPc' = [keyPc EXCEPT ![c] = "inserted"]
  /\ UNCHANGED answer

\* Slip: a caller takes a key it has generated for the answer.
SecondReadOwn(c) ==
  /\ keyPc[c] = "inserted"
  /\ \E k \in drawn : answer' = [answer EXCEPT ![c] = k]
  /\ keyPc' = [keyPc EXCEPT ![c] = "idle"]
  /\ UNCHANGED <<jwk, drawn>>

\* The second SELECT reads the winner.
SecondRead(c) ==
  /\ keyPc[c] = "inserted"
  /\ answer' = [answer EXCEPT ![c] = jwk]
  /\ keyPc' = [keyPc EXCEPT ![c] = "idle"]
  /\ UNCHANGED <<jwk, drawn>>

\* The connection is lost or the server restarts: the call ends without an
\* answer; what it inserted stays.
CallFails(c) ==
  /\ keyPc[c] # "idle"
  /\ keyPc' = [keyPc EXCEPT ![c] = "idle"]
  /\ UNCHANGED <<jwk, drawn, answer>>

KeyInit ==
  /\ jwk = NoKey
  /\ keyPc = [c \in Caller |-> "idle"]
  /\ drawn = {}
  /\ answer = [c \in Caller |-> NoKey]

Call(c) == FirstRead(c) \/ SecondRead(c) \/ CallFails(c) \/ \E k \in Key : Insert(c, k)

KeyNext == \E c \in Caller : Call(c)

KeySpec == KeyInit /\ [][KeyNext]_keyVars
-----------------------------------------------------------------------------
\* Types, and what a call knows at each step: a call that has inserted left a
\* row behind it, and every key, stored or told, was generated.
KeyInv ==
  /\ jwk \in drawn \cup {NoKey}
  /\ drawn \subseteq Key
  /\ keyPc \in [Caller -> {"idle", "missing", "inserted"}]
  /\ answer \in [Caller -> Key \cup {NoKey}]
  /\ \A c \in Caller : keyPc[c] = "inserted" => jwk # NoKey
  /\ \A c \in Caller : answer[c] \in {NoKey, jwk}

\* "Racing callers are fine" (db.py:310-312): two callers, however they race or
\* fail, were told the same key, and it is the one stored.
Agreement ==
  \A c, d \in Caller :
    answer[c] # NoKey /\ answer[d] # NoKey => answer[c] = answer[d] /\ answer[c] = jwk

Register == INSTANCE WriteOnce WITH value <- jwk, Value <- Key, None <- NoKey

\* The three statements implement a register written once: the key never
\* changes, on no deploy and by no race (db.py:83-87).
RefinesWriteOnce == Register!Spec
=============================================================================
