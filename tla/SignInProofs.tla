---------------------------- MODULE SignInProofs ----------------------------
(***************************************************************************)
(* For any number of accounts, flows, tokens and concurrent requests, and  *)
(* any two ages: a flow signs in once and for a vouched account, and no    *)
(* prune takes a young flow or a live session.  For any number of names,   *)
(* and however often what is published about them changes (OAuthFlow): a   *)
(* flow goes on only for a handle and an account that pointed at each      *)
(* other, and its nonce stays good until the authorization server changes  *)
(* it.                                                                     *)
(***************************************************************************)
EXTENDS SignIn, OAuthFlow, TLAPS

FlowRows == [did : Did, born : Nat] \cup {None}
Sources  == Flow \cup {Pds}

SignInTypeOK ==
  /\ now \in Nat
  /\ login \in [Flow -> {"none", "saved", "done"}]
  /\ flows \in [Flow -> FlowRows] /\ started \in [Flow -> FlowRows]
  /\ sessions \in [Token -> [did : Did, until : Nat] \cup {None}]
  /\ pc \in [Req -> {"idle", "exchange", "verified", "minted"}]
  /\ who \in [Req -> [source : Sources \cup {None}, did : Did \cup {None}]]
  /\ taken \subseteq Flow /\ out \subseteq Token
  /\ vouched \subseteq Sources \X Did
  /\ minted \subseteq Token \X Sources \X Did \X Nat

\* A row is that of a started flow that no callback has taken.
FlowsSound ==
  \A s \in Flow :
    /\ login[s] = "none" <=> started[s] = None
    /\ flows[s] # None => flows[s] = started[s] /\ s \notin taken
    /\ s \in taken => started[s] # None

\* A request past the callback has its flow to itself, which has signed nobody in
\* so far; its account is the one the flow was started for, and is vouched for from
\* "verified" on.
RequestsSound ==
  \A r \in Req :
    /\ pc[r] = "idle" => who[r].source = None
    /\ pc[r] # "idle" => who[r].source \in Sources /\ who[r].did \in Did
    /\ pc[r] \in {"verified", "minted"} => <<who[r].source, who[r].did>> \in vouched
    /\ pc[r] = "exchange" => who[r].source \in Flow
    /\ who[r].source \in Flow =>
         /\ who[r].source \in taken /\ started[who[r].source].did = who[r].did
         /\ \A q \in Req : who[q].source = who[r].source => q = r
         /\ pc[r] # "minted" => \A x \in minted : x[2] # who[r].source

\* A token is drawn once, and its row says what it was minted for.
MintedSound ==
  /\ \A x \in minted :
       /\ <<x[2], x[3]>> \in vouched
       /\ x[2] \in Flow => x[2] \in taken /\ started[x[2]].did = x[3]
       /\ sessions[x[1]] # None => sessions[x[1]].did = x[3] /\ sessions[x[1]].until = x[4]
       /\ \A y \in minted : x[1] = y[1] => x = y
  /\ \A t \in Token : sessions[t] # None => \E x \in minted : x[1] = t

SignInInv ==
  /\ SignInTypeOK /\ FlowsSound /\ RequestsSound /\ MintedSound
  /\ OneSessionPerFlow /\ YoungFlowsLive /\ SessionsLast

LEMMA SignInStarts == SignInInit => SignInInv
BY SignInAssumption
DEF SignInInit, SignInInv, SignInTypeOK, FlowRows, Sources, FlowsSound, RequestsSound, MintedSound,
    OneSessionPerFlow, YoungFlowsLive, SessionsLast, Nobody

\* A token with what it was minted for.
LEMMA MintedParts ==
  ASSUME SignInTypeOK, NEW x \in minted
  PROVE  /\ x[1] \in Token /\ x[2] \in Sources /\ x[3] \in Did /\ x[4] \in Nat
         /\ x = <<x[1], x[2], x[3], x[4]>>
BY DEF SignInTypeOK

LEMMA SaveFlowKeeps ==
  ASSUME SignInInv, NEW s \in Flow, NEW d \in Did, SaveFlow(s, d)
  PROVE  SignInInv'
<1> USE SignInAssumption DEF SignInInv, SignInTypeOK, FlowRows, Sources, SaveFlow, dbVars, histVars, Go, Nobody
<1>1. SignInTypeOK'
  BY DEF RequestsSound
<1>2. FlowsSound'
  BY DEF FlowsSound
<1>3. RequestsSound'
  BY <1>1 DEF RequestsSound, FlowsSound, MintedSound
<1>4. MintedSound'
  BY <1>1 DEF MintedSound, RequestsSound, FlowsSound
<1>5. OneSessionPerFlow'
  BY DEF OneSessionPerFlow, RequestsSound
<1>6. YoungFlowsLive'
  BY DEF YoungFlowsLive, FlowsSound
<1>7. SessionsLast'
  BY DEF SessionsLast, MintedSound
<1> QED
  BY <1>1, <1>2, <1>3, <1>4, <1>5, <1>6, <1>7

LEMMA PruneFlowsKeeps ==
  ASSUME SignInInv, NEW s \in Flow, PruneFlows(s)
  PROVE  SignInInv'
<1> USE SignInAssumption DEF SignInInv, SignInTypeOK, FlowRows, Sources, PruneFlows, dbVars, histVars, Go, Nobody
<1>1. SignInTypeOK'
  BY DEF RequestsSound
<1>2. FlowsSound'
  BY DEF FlowsSound
<1>3. RequestsSound'
  BY <1>1 DEF RequestsSound, FlowsSound, MintedSound
<1>4. MintedSound'
  BY <1>1 DEF MintedSound, RequestsSound, FlowsSound
<1>5. OneSessionPerFlow'
  BY DEF OneSessionPerFlow, RequestsSound
<1>6. YoungFlowsLive'
  BY DEF YoungFlowsLive, FlowsSound
<1>7. SessionsLast'
  BY DEF SessionsLast, MintedSound
<1> QED
  BY <1>1, <1>2, <1>3, <1>4, <1>5, <1>6, <1>7

LEMMA TakeFlowKeeps ==
  ASSUME SignInInv, NEW r \in Req, NEW s \in Flow, NEW ok \in BOOLEAN, TakeFlow(r, s, ok)
  PROVE  SignInInv'
<1> USE SignInAssumption DEF SignInInv, SignInTypeOK, FlowRows, Sources, TakeFlow, dbVars, histVars, Go, Nobody
<1>1. SignInTypeOK'
  BY DEF RequestsSound
<1>2. FlowsSound'
  BY DEF FlowsSound
<1>3. RequestsSound'
  <2> s \notin taken
    BY DEF FlowsSound
  <2>0. \A q \in Req : who[q].source # s
    BY DEF RequestsSound
  <2>1. \A x \in minted : x[2] # s
    <3> SUFFICES ASSUME NEW x \in minted, x[2] = s PROVE FALSE
      OBVIOUS
    <3> x[2] \in taken
      BY DEF MintedSound
    <3> QED
      OBVIOUS
  <2>2. CASE ok
    <3>1. /\ flows[s].did \in Did /\ started[s].did = flows[s].did
          /\ who' = [who EXCEPT ![r] = [source |-> s, did |-> flows[s].did]]
          /\ pc' = [pc EXCEPT ![r] = "exchange"]
      BY <2>2 DEF FlowsSound
    <3> QED
      BY <2>0, <2>1, <3>1 DEF RequestsSound
  <2>3. CASE ~ok
    BY <2>3 DEF RequestsSound
  <2> QED
    BY <2>2, <2>3
<1>4. MintedSound'
  BY <1>1 DEF MintedSound, RequestsSound, FlowsSound
<1>5. OneSessionPerFlow'
  BY DEF OneSessionPerFlow, RequestsSound
<1>6. YoungFlowsLive'
  BY DEF YoungFlowsLive, FlowsSound
<1>7. SessionsLast'
  BY DEF SessionsLast, MintedSound
<1> QED
  BY <1>1, <1>2, <1>3, <1>4, <1>5, <1>6, <1>7

LEMMA ExchangeKeeps ==
  ASSUME SignInInv, NEW r \in Req, NEW d \in Did, Exchange(r, d)
  PROVE  SignInInv'
<1> USE SignInAssumption DEF SignInInv, SignInTypeOK, FlowRows, Sources, Exchange, dbVars, histVars, Go, Nobody
<1>0. who[r].source \in Sources /\ who[r].did \in Did
  BY DEF RequestsSound
<1>1. SignInTypeOK'
  <2>1. vouched' \subseteq Sources \X Did
    BY <1>0
  <2>2. CASE d = who[r].did
    BY <1>0, <2>1, <2>2
  <2>3. CASE d # who[r].did
    <3>1. pc' = [pc EXCEPT ![r] = "idle"] /\ who' = [who EXCEPT ![r] = Nobody]
      BY <2>3
    <3>2. Nobody \in [source : Sources \cup {None}, did : Did \cup {None}]
      OBVIOUS
    <3> HIDE DEF Nobody, Exchange
    <3>3. who' \in [Req -> [source : Sources \cup {None}, did : Did \cup {None}]]
      BY <3>1, <3>2
    <3>4. pc' \in [Req -> {"idle", "exchange", "verified", "minted"}]
      BY <3>1
    <3> USE DEF Exchange
    <3> QED
      BY <2>1, <3>3, <3>4
  <2> QED
    BY <2>2, <2>3
<1>2. FlowsSound'
  BY DEF FlowsSound
<1>3. RequestsSound'
  <2>1. CASE d = who[r].did
    BY <1>0, <2>1 DEF RequestsSound
  <2>2. CASE d # who[r].did
    <3>1. pc' = [pc EXCEPT ![r] = "idle"] /\ who' = [who EXCEPT ![r] = Nobody]
      BY <2>2
    <3> QED
      BY <3>1 DEF RequestsSound
  <2> QED
    BY <2>1, <2>2
<1>4. MintedSound'
  BY <1>1 DEF MintedSound, RequestsSound, FlowsSound
<1>5. OneSessionPerFlow'
  BY DEF OneSessionPerFlow, RequestsSound
<1>6. YoungFlowsLive'
  BY DEF YoungFlowsLive, FlowsSound
<1>7. SessionsLast'
  BY DEF SessionsLast, MintedSound
<1> QED
  BY <1>1, <1>2, <1>3, <1>4, <1>5, <1>6, <1>7

LEMMA PdsVouchesKeeps ==
  ASSUME SignInInv, NEW r \in Req, NEW d \in Did, PdsVouches(r, d)
  PROVE  SignInInv'
<1> USE SignInAssumption DEF SignInInv, SignInTypeOK, FlowRows, Sources, PdsVouches, dbVars, histVars, Go, Nobody
<1>1. SignInTypeOK'
  BY DEF RequestsSound
<1>2. FlowsSound'
  BY DEF FlowsSound
<1>3. RequestsSound'
  BY <1>1 DEF RequestsSound, FlowsSound, MintedSound
<1>4. MintedSound'
  BY <1>1 DEF MintedSound, RequestsSound, FlowsSound
<1>5. OneSessionPerFlow'
  BY DEF OneSessionPerFlow, RequestsSound
<1>6. YoungFlowsLive'
  BY DEF YoungFlowsLive, FlowsSound
<1>7. SessionsLast'
  BY DEF SessionsLast, MintedSound
<1> QED
  BY <1>1, <1>2, <1>3, <1>4, <1>5, <1>6, <1>7

LEMMA MintKeeps ==
  ASSUME SignInInv, NEW r \in Req, NEW t \in Token, Mint(r, t)
  PROVE  SignInInv'
<1> USE SignInAssumption DEF SignInInv, SignInTypeOK, FlowRows, Sources, Mint, dbVars, histVars, Go, Nobody
<1> DEFINE new == <<t, who[r].source, who[r].did, now + SessionTtl>>
<1>0. who[r].source \in Sources /\ who[r].did \in Did /\ <<who[r].source, who[r].did>> \in vouched
  BY DEF RequestsSound
<1>1. SignInTypeOK'
  <2>1. new \in Token \X Sources \X Did \X Nat
    BY <1>0
  <2>2. minted' \subseteq Token \X Sources \X Did \X Nat
    BY <2>1
  <2>3. sessions' \in [Token -> [did : Did, until : Nat] \cup {None}]
    BY <1>0
  <2> QED
    BY <1>0, <2>2, <2>3
<1>2. FlowsSound'
  BY DEF FlowsSound
<1>3. RequestsSound'
  BY <1>1 DEF RequestsSound, FlowsSound, MintedSound
<1>4. MintedSound'
  <2>1. new[1] = t /\ new[2] = who[r].source /\ new[3] = who[r].did /\ new[4] = now + SessionTtl
    OBVIOUS
  <2>2. \A x \in minted : x[1] # t /\ x[1] \in Token
    BY MintedParts
  <2>3. minted' = minted \cup {new} /\ vouched' = vouched /\ started' = started /\ taken' = taken
    OBVIOUS
  <2>4. sessions'[t] = [did |-> who[r].did, until |-> now + SessionTtl]
    OBVIOUS
  <2>5. \A u \in Token : u # t => sessions'[u] = sessions[u]
    OBVIOUS
  <2>6. who[r].source \in Flow => who[r].source \in taken /\ started[who[r].source].did = who[r].did
    BY DEF RequestsSound
  <2> HIDE DEF new, Mint
  <2>7. \A x \in minted' :
          /\ <<x[2], x[3]>> \in vouched
          /\ x[2] \in Flow => x[2] \in taken /\ started[x[2]].did = x[3]
          /\ sessions'[x[1]] # None => sessions'[x[1]].did = x[3] /\ sessions'[x[1]].until = x[4]
    <3> TAKE x \in minted'
    <3>1. CASE x \in minted
      BY <3>1, <2>2, <2>5 DEF MintedSound
    <3>2. CASE x = new
      BY <3>2, <1>0, <2>1, <2>4, <2>6
    <3> QED
      BY <3>1, <3>2, <2>3
  <2>8. \A x, y \in minted' : x[1] = y[1] => x = y
    BY <2>1, <2>2, <2>3 DEF MintedSound
  <2>9. \A u \in Token : sessions'[u] # None => \E x \in minted' : x[1] = u
    BY <2>1, <2>3, <2>5 DEF MintedSound
  <2> QED
    BY <2>3, <2>7, <2>8, <2>9 DEF MintedSound
<1>5. OneSessionPerFlow'
  <2>1. new[2] = who[r].source /\ minted' = minted \cup {new}
    OBVIOUS
  <2>2. who[r].source \in Flow => \A x \in minted : x[2] # who[r].source
    BY DEF RequestsSound
  <2> QED
    BY <2>1, <2>2 DEF OneSessionPerFlow
<1>6. YoungFlowsLive'
  BY DEF YoungFlowsLive, FlowsSound
<1>7. SessionsLast'
  <2>1. new[1] = t /\ minted' = minted \cup {new}
    OBVIOUS
  <2>2. sessions'[t] # None
    <3>1. [did |-> who[r].did, until |-> now + SessionTtl] \in [did : Did, until : Nat]
      BY <1>0
    <3> QED
      BY <3>1
  <2>3. \A x \in minted : x[1] # t /\ x[1] \in Token
    BY MintedParts
  <2> QED
    BY <2>1, <2>2, <2>3 DEF SessionsLast
<1> QED
  BY <1>1, <1>2, <1>3, <1>4, <1>5, <1>6, <1>7

LEMMA PruneSessionsKeeps ==
  ASSUME SignInInv, NEW r \in Req, PruneSessions(r)
  PROVE  SignInInv'
<1> USE SignInAssumption DEF SignInInv, SignInTypeOK, FlowRows, Sources, PruneSessions, dbVars, histVars, Go, Nobody
<1>1. SignInTypeOK'
  BY DEF RequestsSound
<1>2. FlowsSound'
  BY DEF FlowsSound
<1>3. RequestsSound'
  BY <1>1 DEF RequestsSound, FlowsSound, MintedSound
<1>4. MintedSound'
  BY <1>1 DEF MintedSound, RequestsSound, FlowsSound
<1>5. OneSessionPerFlow'
  BY DEF OneSessionPerFlow, RequestsSound
<1>6. YoungFlowsLive'
  BY DEF YoungFlowsLive, FlowsSound
<1>7. SessionsLast'
  <2> SUFFICES ASSUME NEW x \in minted, now < x[4], x[1] \notin out PROVE sessions'[x[1]] # None
    BY DEF SessionsLast
  <2>1. x[1] \in Token /\ x[4] \in Nat /\ sessions[x[1]] # None
    BY MintedParts DEF SessionsLast
  <2>2. sessions[x[1]].until = x[4]
    BY <2>1 DEF MintedSound
  <2> QED
    BY <2>1, <2>2
<1> QED
  BY <1>1, <1>2, <1>3, <1>4, <1>5, <1>6, <1>7

LEMMA StopKeeps ==
  ASSUME SignInInv, NEW r \in Req, Stop(r)
  PROVE  SignInInv'
<1> USE SignInAssumption DEF SignInInv, SignInTypeOK, FlowRows, Sources, Stop, dbVars, histVars, Go, Nobody
<1>1. SignInTypeOK'
  BY DEF RequestsSound
<1>2. FlowsSound'
  BY DEF FlowsSound
<1>3. RequestsSound'
  BY <1>1 DEF RequestsSound, FlowsSound, MintedSound
<1>4. MintedSound'
  BY <1>1 DEF MintedSound, RequestsSound, FlowsSound
<1>5. OneSessionPerFlow'
  BY DEF OneSessionPerFlow, RequestsSound
<1>6. YoungFlowsLive'
  BY DEF YoungFlowsLive, FlowsSound
<1>7. SessionsLast'
  BY DEF SessionsLast, MintedSound
<1> QED
  BY <1>1, <1>2, <1>3, <1>4, <1>5, <1>6, <1>7

LEMMA LogoutKeeps ==
  ASSUME SignInInv, NEW t \in Token, Logout(t)
  PROVE  SignInInv'
<1> USE SignInAssumption DEF SignInInv, SignInTypeOK, FlowRows, Sources, Logout, dbVars, histVars, Go, Nobody
<1>1. SignInTypeOK'
  BY DEF RequestsSound
<1>2. FlowsSound'
  BY DEF FlowsSound
<1>3. RequestsSound'
  BY <1>1 DEF RequestsSound, FlowsSound, MintedSound
<1>4. MintedSound'
  BY <1>1 DEF MintedSound, RequestsSound, FlowsSound
<1>5. OneSessionPerFlow'
  BY DEF OneSessionPerFlow, RequestsSound
<1>6. YoungFlowsLive'
  BY DEF YoungFlowsLive, FlowsSound
<1>7. SessionsLast'
  BY DEF SessionsLast, MintedSound
<1> QED
  BY <1>1, <1>2, <1>3, <1>4, <1>5, <1>6, <1>7

LEMMA SignInTickKeeps ==
  ASSUME SignInInv, SignInTick
  PROVE  SignInInv'
<1> USE SignInAssumption DEF SignInInv, SignInTypeOK, FlowRows, Sources, SignInTick, dbVars, histVars, Go, Nobody, Passes
<1>1. SignInTypeOK'
  BY DEF RequestsSound
<1>2. FlowsSound'
  BY DEF FlowsSound
<1>3. RequestsSound'
  BY <1>1 DEF RequestsSound, FlowsSound, MintedSound
<1>4. MintedSound'
  BY <1>1 DEF MintedSound, RequestsSound, FlowsSound
<1>5. OneSessionPerFlow'
  BY DEF OneSessionPerFlow, RequestsSound
<1>6. YoungFlowsLive'
  BY DEF YoungFlowsLive, FlowsSound
<1>7. SessionsLast'
  BY DEF SessionsLast, MintedSound
<1> QED
  BY <1>1, <1>2, <1>3, <1>4, <1>5, <1>6, <1>7

LEMMA SignInSteps == SignInInv /\ [SignInNext]_signInVars => SignInInv'
<1> SUFFICES ASSUME SignInInv, [SignInNext]_signInVars PROVE SignInInv'
  OBVIOUS
<1>1. CASE UNCHANGED signInVars
  BY <1>1
  DEF signInVars, dbVars, histVars, SignInInv, SignInTypeOK, FlowsSound, RequestsSound, MintedSound,
      OneSessionPerFlow, YoungFlowsLive, SessionsLast
<1>2. CASE SignInNext
  BY <1>2, SaveFlowKeeps, PruneFlowsKeeps, TakeFlowKeeps, ExchangeKeeps, PdsVouchesKeeps,
     MintKeeps, PruneSessionsKeeps, StopKeeps, LogoutKeeps, SignInTickKeeps
  DEF SignInNext, Handle
<1> QED
  BY <1>1, <1>2

\* The inductive invariant: who holds a flow, and what every token was minted for.
THEOREM SignInInvariant == SignInSpec => []SignInInv
BY SignInStarts, SignInSteps, PTL DEF SignInSpec

\* A flow signs in once, however many callbacks race (db.py:344-345).
THEOREM FlowsSignInOnce == SignInSpec => []OneSessionPerFlow
<1>1. SignInInv => OneSessionPerFlow
  BY DEF SignInInv
<1> QED
  BY <1>1, SignInInvariant, PTL

\* A session is for an account its source vouched for and its flow was started for
\* (oauth_routes.py:204-207).
THEOREM SessionsVouched == SignInSpec => []SessionsAreVouchedFor
<1>1. SignInInv => SessionsAreVouchedFor
  BY DEF SignInInv, SignInTypeOK, MintedSound, SessionsAreVouchedFor
<1> QED
  BY <1>1, SignInInvariant, PTL

\* No prune takes a flow that may still be completed (db.py:355-363).
THEOREM FlowsStay == SignInSpec => []YoungFlowsLive
<1>1. SignInInv => YoungFlowsLive
  BY DEF SignInInv
<1> QED
  BY <1>1, SignInInvariant, PTL

\* No prune takes a session that has neither expired nor signed out (db.py:395-399).
THEOREM SessionsStay == SignInSpec => []SessionsLast
<1>1. SignInInv => SessionsLast
  BY DEF SignInInv
<1> QED
  BY <1>1, SignInInvariant, PTL

-----------------------------------------------------------------------------
(* OAuthFlow *)

LEMMA FlowStarts == FlowInit => FlowInv
<1> SUFFICES ASSUME FlowInit PROVE FlowInv
  OBVIOUS
<1> USE DEF FlowInit
<1>1. FlowTypes
  <2>1. flow \in [name : Name \cup {Nil}, account : Account \cup {Nil}, byName : BOOLEAN, nonce : Nat]
    BY DEF Start
  <2>2. dns \in [Name -> Account \cup {Nil}] /\ current \in Nat \ {0}
    OBVIOUS
  <2> QED
    BY <2>1, <2>2, Zenon DEF FlowTypes
<1>2. UpToDate
  BY DEF UpToDate
<1>3. Halfway /\ NonceKept /\ TwoWay
  BY DEF Halfway, NonceKept, TwoWay, Identified, Start
<1> QED
  BY <1>1, <1>2, <1>3 DEF FlowInv

\* What was told once stays told, and what is published now has been told.
LEMMA TellingGrows ==
  ASSUME NEW t, NEW d, NEW w, NEW c
  PROVE  LET u == Telling(t, d, w, c)
         IN  /\ t.silent \subseteq u.silent /\ t.pointed \subseteq u.pointed
             /\ t.claimed \subseteq u.claimed
             /\ \A n \in Name : <<n, d[n]>> \in u.pointed /\ (d[n] = Nil => n \in u.silent)
             /\ \A n \in u.silent : <<n, w[n]>> \in u.pointed
             /\ \A a \in Account : <<c[a], a>> \in u.claimed
BY DEF Telling

\* A change outside adds to what was told and leaves the flow where it is.
LEMMA MovesKeep ==
  ASSUME FlowInv, NEW d \in [Name -> Account \cup {Nil}], NEW w \in [Name -> Account \cup {Nil}],
         NEW c \in [Account -> Name \cup {Nil}], NEW n \in Nat \ {0}, Moves(d, w, c, n)
  PROVE  FlowInv'
<1> USE DEF FlowInv, Moves
<1>1. FlowTypes'
  BY DEF FlowTypes
<1>2. UpToDate'
  BY TellingGrows DEF UpToDate
<1>3. told.silent \subseteq told'.silent /\ told.pointed \subseteq told'.pointed
        /\ told.claimed \subseteq told'.claimed
  BY TellingGrows
<1>4. Halfway'
  BY <1>3 DEF Halfway
<1>5. NonceKept'
  BY DEF NonceKept, FlowTypes
<1>6. TwoWay'
  BY <1>3 DEF TwoWay, Identified
<1> QED
  BY <1>1, <1>2, <1>4, <1>5, <1>6

\* An answer is used with what was told while the question was open; the nonce is
\* the one of the last challenge.
LEMMA FlowSteps == FlowInv /\ [FlowNext]_flowVars => FlowInv'
<1> SUFFICES ASSUME FlowInv, [FlowNext]_flowVars PROVE FlowInv'
  OBVIOUS
<1> USE FlowAssumption DEF FlowInv
<1>1. CASE UNCHANGED flowVars
  BY <1>1 DEF flowVars, outsideVars, FlowTypes, UpToDate, Halfway, NonceKept, TwoWay, Identified
<1>2. ASSUME NEW id \in Name \cup Account, Login(id) PROVE FlowInv'
  <2> USE <1>2 DEF Login, outsideVars
  <2>1. FlowTypes'
    <3>1. CASE id \in Name
      BY <3>1 DEF FlowTypes, Start
    <3>2. CASE id \in Account /\ id \notin Name
      BY <3>2 DEF FlowTypes, Start
    <3> QED
      BY <3>1, <3>2
  <2>2. UpToDate'
    BY TellingGrows DEF UpToDate
  <2>3. at' \in {"dns", "doc"} /\ flow'.nonce = 0
    BY DEF Start
  <2>4. Halfway'
    BY DEF Halfway, Start
  <2> QED
    BY <2>1, <2>2, <2>3, <2>4 DEF NonceKept, TwoWay, Identified
<1>3. CASE AskDns
  <2> USE <1>3 DEF AskDns, NameLeadsTo, Reach, outsideVars
  <2>1. /\ at = "dns" /\ at' \in {"web", "doc", "found", "failed"}
        /\ UNCHANGED <<dns, web, claims, current, told, turned>>
    OBVIOUS
  <2>2. FlowTypes'
    BY DEF FlowTypes, Halfway
  <2>3. UpToDate'
    BY <2>1 DEF UpToDate
  <2>4. Halfway'
    BY DEF FlowTypes, UpToDate, Halfway
  <2>5. NonceKept'
    BY DEF FlowTypes, NonceKept
  <2>6. TwoWay'
    BY DEF FlowTypes, UpToDate, Halfway, TwoWay, Identified
  <2> QED
    BY <2>2, <2>3, <2>4, <2>5, <2>6
<1>4. CASE AskWeb
  <2> USE <1>4 DEF AskWeb, NameLeadsTo, Reach, outsideVars
  <2>1. /\ at = "web" /\ at' \in {"doc", "found", "failed"}
        /\ UNCHANGED <<dns, web, claims, current, told, turned>>
    OBVIOUS
  <2>2. FlowTypes'
    BY DEF FlowTypes, Halfway
  <2>3. UpToDate'
    BY <2>1 DEF UpToDate
  <2>4. Halfway'
    BY DEF FlowTypes, UpToDate, Halfway
  <2>5. NonceKept'
    BY DEF FlowTypes, NonceKept
  <2>6. TwoWay'
    BY DEF FlowTypes, UpToDate, Halfway, TwoWay, Identified
  <2> QED
    BY <2>2, <2>3, <2>4, <2>5, <2>6
<1>5. CASE AskDoc
  <2> USE <1>5 DEF AskDoc, Reach, outsideVars
  <2>1. /\ at = "doc" /\ at' \in {"dns", "found", "failed"}
        /\ UNCHANGED <<dns, web, claims, current, told, turned>>
    OBVIOUS
  <2>2. FlowTypes'
    BY DEF FlowTypes, Halfway
  <2>3. UpToDate'
    BY <2>1 DEF UpToDate
  <2>4. Halfway'
    BY DEF FlowTypes, UpToDate, Halfway
  <2>5. NonceKept'
    BY DEF FlowTypes, NonceKept
  <2>6. TwoWay'
    BY DEF FlowTypes, UpToDate, Halfway, TwoWay, Identified
  <2> QED
    BY <2>2, <2>3, <2>4, <2>5, <2>6
<1>6. CASE Discovered
  BY <1>6 DEF Discovered, Reach, outsideVars, FlowTypes, UpToDate, Halfway, NonceKept, TwoWay,
        Identified
<1>7. CASE Challenged
  BY <1>7 DEF Challenged, Again, outsideVars, FlowTypes, UpToDate, Halfway, NonceKept, TwoWay,
        Identified
<1>8. CASE Answered
  BY <1>8 DEF Answered, Accepted, Reach, outsideVars, FlowTypes, UpToDate, Halfway, NonceKept,
        TwoWay, Identified
<1>9. CASE ChallengedAgain
  BY <1>9 DEF ChallengedAgain, Reach, outsideVars, FlowTypes, UpToDate, Halfway, NonceKept,
        TwoWay, Identified
<1>10. CASE Fails
  BY <1>10 DEF Fails, Reach, outsideVars, FlowTypes, UpToDate, Halfway, NonceKept, TwoWay,
        Identified
<1>11. CASE Outside
  <2> USE DEF FlowTypes
  <2>1. ASSUME NEW n \in Name, NEW a \in Account \cup {Nil},
               Moves([dns EXCEPT ![n] = a], web, claims, current) PROVE FlowInv'
    BY <2>1, MovesKeep
  <2>2. ASSUME NEW n \in Name, NEW a \in Account \cup {Nil},
               Moves(dns, [web EXCEPT ![n] = a], claims, current) PROVE FlowInv'
    BY <2>2, MovesKeep
  <2>3. ASSUME NEW a \in Account, NEW n \in Name \cup {Nil},
               Moves(dns, web, [claims EXCEPT ![a] = n], current) PROVE FlowInv'
    BY <2>3, MovesKeep
  <2>4. CASE Moves(dns, web, claims, current + 1)
    BY <2>4, MovesKeep
  <2> QED
    BY <1>11, <2>1, <2>2, <2>3, <2>4 DEF Outside
<1> QED
  BY <1>1, <1>2, <1>3, <1>4, <1>5, <1>6, <1>7, <1>8, <1>9, <1>10, <1>11 DEF FlowNext

\* The inductive invariant of a flow.
THEOREM FlowInvariant == FlowSpec => []FlowInv
BY FlowStarts, FlowSteps, PTL DEF FlowSpec

\* The two-way check of resolve_identity (atproto_oauth.py:190-221) holds for any
\* changes between its requests.
THEOREM BothWays == FlowSpec => []TwoWay
<1>1. FlowInv => TwoWay
  BY DEF FlowInv
<1> QED
  BY <1>1, FlowInvariant, PTL

\* auth_server_post (atproto_oauth.py:348-379) gives up on a nonce, and the token
\* request is challenged, only after the server has changed it.
THEOREM NonceIsEnough == FlowSpec => OneRetryIsEnough
<1> DEFINE Act == (at # "refused" /\ at' = "refused") \/ (at = "token" /\ at' = "token again")
                    => turned
<1>1. FlowInv /\ [FlowNext]_flowVars => [Act]_flowVars
  <2> SUFFICES ASSUME FlowInv, FlowNext,
                      (at # "refused" /\ at' = "refused") \/ (at = "token" /\ at' = "token again")
               PROVE  turned
    OBVIOUS
  <2>1. ChallengedAgain \/ Challenged
    BY DEF FlowNext, Login, AskDns, AskWeb, AskDoc, NameLeadsTo, Reach, Discovered, Answered,
         Accepted, Fails, Outside, Moves
  <2> QED
    BY <2>1 DEF ChallengedAgain, Challenged, Again, Reach, FlowInv, FlowTypes, NonceKept
<1> QED
  BY <1>1, FlowInvariant, PTL DEF FlowSpec, OneRetryIsEnough
=============================================================================
