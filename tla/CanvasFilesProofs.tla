-------------------------- MODULE CanvasFilesProofs -------------------------
(***************************************************************************)
(* For any client: every variable keeps its type, and concurrent uploads   *)
(* exceed the byte budget of a canvas by the other uploads in flight at    *)
(* most.                                                                   *)
(*                                                                         *)
(* When elements come from CanvasView, which uploads first, and nobody     *)
(* collects files: for any number of files, elements, requests and         *)
(* browsers, an image element has its bytes on the canvas, a snapshot      *)
(* response is complete, and a browser that joined before its files were   *)
(* read renders all it is shown.                                           *)
(***************************************************************************)
EXTENDS CanvasFiles, FiniteSetTheorems, TLAPS

LEMMA BlankIsScene == Blank \in Scene /\ \A e \in Elem : Blank[e] = None
BY DEF Blank, Scene

\* Taking an element out of a scene, or nothing, leaves the rest.
LEMMA WithoutDrops ==
  ASSUME scene \in [Viewer -> Scene], NEW v, NEW e, NEW w \in Viewer, NEW x \in Elem
  PROVE  Without(v, e)[w][x] \in {scene[w][x], None}
BY DEF Without, Scene

LEMMA WithoutType ==
  ASSUME scene \in [Viewer -> Scene], NEW v, NEW e
  PROVE  Without(v, e) \in [Viewer -> Scene]
<1>1. ASSUME NEW w \in Viewer PROVE [scene[w] EXCEPT ![e] = None] \in Scene
  BY DEF Scene
<1> QED
  BY <1>1 DEF Without

-----------------------------------------------------------------------------
(* Types, whoever the clients are and whatever is collected.               *)

Args == [f : File \cup {None}, e : Elem \cup {None}, v : Viewer \cup {None}]

\* A request past its first check has its file, and an element if it is about one.
ArgTypes ==
  \A r \in Req :
    /\ pc[r] \in {"sized", "metered", "stored", "adding", "checked"} => arg[r].f \in File
    /\ pc[r] \in {"adding", "checked", "written"} => arg[r].e \in Elem

FileTypes == TypeOK /\ ArgTypes

\* Steps of a request that leave the canvas, and the browsers' ways of loading.
LEMMA RequestTypes ==
  ASSUME FileTypes, NEW r \in Req,
         Handle(r) \/ \E f \in File : UploadCheck(r, f) \/ \E e \in Elem : AddCheck(r, e, f)
  PROVE  FileTypes'
<1>0. NoArg \in Args
  BY DEF NoArg, Args
<1>1. ASSUME NEW f \in File, UploadCheck(r, f) PROVE FileTypes'
  <2>1. [NoArg EXCEPT !.f = f] \in Args /\ [NoArg EXCEPT !.f = f].f = f
    BY DEF NoArg, Args
  <2> QED
    BY <1>1, <2>1 DEF FileTypes, TypeOK, ArgTypes, Args, UploadCheck, Go, dbVars, viewerVars,
       loadVars, Present
<1>2. ASSUME NEW f \in File, NEW e \in Elem, AddCheck(r, e, f) PROVE FileTypes'
  BY <1>2 DEF FileTypes, TypeOK, ArgTypes, AddCheck, Go, dbVars, viewerVars, loadVars, Present
<1>3. CASE UploadBudget(r)
  <2>1. UNCHANGED <<dbVars, loadVars, bytes, handled, acked>>
    BY <1>3 DEF UploadBudget
  <2>2. scene' \in [Viewer -> Scene]
    BY <1>3, WithoutType DEF FileTypes, TypeOK, UploadBudget
  <2>3. CASE Total(files) + Size[arg[r].f] <= MaxTotal
    <3>1. pc' = [pc EXCEPT ![r] = "metered"] /\ arg' = arg
      BY <1>3, <2>3 DEF UploadBudget, Go
    <3> QED
      BY <1>3, <2>1, <2>2, <3>1
      DEF FileTypes, TypeOK, ArgTypes, UploadBudget, dbVars, loadVars, Present
  <2>4. CASE ~(Total(files) + Size[arg[r].f] <= MaxTotal)
    <3>1. pc' = [pc EXCEPT ![r] = "idle"] /\ arg' = [arg EXCEPT ![r] = NoArg]
      BY <1>3, <2>4 DEF UploadBudget, Go
    <3> QED
      BY <1>0, <2>1, <2>2, <3>1 DEF FileTypes, TypeOK, ArgTypes, Args, dbVars, loadVars, Present
  <2> QED
    BY <2>3, <2>4
<1>4. CASE UploadPut(r)
  BY <1>4 DEF FileTypes, TypeOK, ArgTypes, UploadPut, Go, viewerVars, loadVars, Present
<1>5. CASE UploadTell(r)
  BY <1>0, <1>5 DEF FileTypes, TypeOK, ArgTypes, Args, UploadTell, Go, dbVars, loadVars, Present
<1>6. CASE AddFilesCheck(r)
  <2>1. CASE files # {}
    BY <1>6, <2>1 DEF FileTypes, TypeOK, ArgTypes, AddFilesCheck, Go, dbVars, viewerVars, loadVars,
       Present
  <2>2. CASE ~(files # {})
    <3>1. pc' = [pc EXCEPT ![r] = "idle"] /\ arg' = [arg EXCEPT ![r] = NoArg]
      BY <1>6, <2>2 DEF AddFilesCheck, Go
    <3>2. UNCHANGED <<dbVars, viewerVars, acked>>
      BY <1>6 DEF AddFilesCheck
    <3> QED
      BY <1>0, <3>1, <3>2 DEF FileTypes, TypeOK, ArgTypes, Args, dbVars, viewerVars, loadVars, Present
  <2> QED
    BY <2>1, <2>2
<1>7. CASE AddInsert(r)
  <2>1. image' \in Scene /\ \A e \in Elem : image'[e] # None => e = arg[r].e \/ image[e] # None
    BY <1>7 DEF FileTypes, TypeOK, ArgTypes, AddInsert, Scene
  <2> QED
    BY <1>7, <2>1 DEF FileTypes, TypeOK, ArgTypes, AddInsert, Go, viewerVars, loadVars, Present
<1>8. CASE Tell(r)
  <2>1. scene' \in [Viewer -> Scene]
    BY <1>8 DEF FileTypes, TypeOK, Tell, Scene
  <2> QED
    BY <1>0, <1>8, <2>1 DEF FileTypes, TypeOK, ArgTypes, Args, Tell, Go, dbVars, loadVars, Present
<1> QED
  BY <1>1, <1>2, <1>3, <1>4, <1>5, <1>6, <1>7, <1>8 DEF Handle

LEMMA RewriteTypes ==
  ASSUME FileTypes, NEW r \in Req, NEW e \in Elem, NEW f \in File \cup {None}, Rewrite(r, e, f)
  PROVE  FileTypes'
<1>1. image' \in Scene /\ \A x \in Elem : image'[x] # None => image[x] # None
  BY DEF FileTypes, TypeOK, Rewrite, Scene, Present
<1>2. arg' \in [Req -> Args] /\ ArgTypes'
  BY DEF FileTypes, TypeOK, ArgTypes, Args, Rewrite, Go
<1> QED
  BY <1>1, <1>2 DEF FileTypes, TypeOK, Args, Rewrite, Go, viewerVars, loadVars, Present

LEMMA LoadTypes ==
  ASSUME FileTypes, NEW v \in Viewer, Load(v)
  PROVE  FileTypes'
<1>1. CASE EditorReady(v)
  BY <1>1, BlankIsScene DEF FileTypes, TypeOK, ArgTypes, EditorReady, dbVars, reqVars, Present
<1>2. CASE HttpRead(v)
  <2> DEFINE Responses == [image : Scene, files : SUBSET File]
  <2>1. ASSUME NEW from, NEW to \in {"half", "read"}, NEW a \in Responses, Query(v, from, to, a)
        PROVE  FileTypes'
    BY <2>1 DEF FileTypes, TypeOK, ArgTypes, Query, dbVars, reqVars, Present
  <2>2. /\ [response[v] EXCEPT !.image = image] \in Responses
        /\ [response[v] EXCEPT !.files = files] \in Responses
    BY DEF FileTypes, TypeOK
  <2> QED
    BY <1>2, <2>1, <2>2 DEF HttpRead
<1>3. CASE HttpArrives(v)
  <2>1. bytes[v] \cup response[v].files \in SUBSET File /\ response[v].image \in Scene
    BY DEF FileTypes, TypeOK
  <2>2. bytes' \in [Viewer -> SUBSET File]
    BY <1>3, <2>1 DEF FileTypes, TypeOK, HttpArrives
  <2>3. initial' \in [Viewer -> Scene] /\ scene' \in [Viewer -> Scene]
    BY <1>3, <2>1 DEF FileTypes, TypeOK, HttpArrives
  <2> QED
    BY <1>3, <2>2, <2>3 DEF FileTypes, TypeOK, ArgTypes, HttpArrives, dbVars, reqVars, Present
<1>4. CASE WsJoin(v)
  BY <1>4 DEF FileTypes, TypeOK, ArgTypes, WsJoin, dbVars, reqVars, Present
<1>5. CASE WsSnapshot(v)
  BY <1>5 DEF FileTypes, TypeOK, ArgTypes, WsSnapshot, dbVars, reqVars, Present
<1> QED
  BY <1>1, <1>2, <1>3, <1>4, <1>5 DEF Load

LEMMA ReuploadTypes ==
  ASSUME FileTypes, NEW r \in Req, NEW v \in Viewer, NEW e \in Elem, Reupload(r, v, e)
  PROVE  FileTypes'
<1>1. scene[v][e] \in File
  BY DEF FileTypes, TypeOK, Reupload
<1>2. scene' \in [Viewer -> Scene]
  BY WithoutType DEF FileTypes, TypeOK, Reupload
<1>3. arg' \in [Req -> Args]
  <2> DEFINE a == [f |-> scene[v][e], e |-> e, v |-> v]
  <2>1. a \in Args
    BY <1>1 DEF Args
  <2>2. arg' = [arg EXCEPT ![r] = a] \/ arg' = arg
    BY DEF Reupload
  <2> HIDE DEF a
  <2> QED
    BY <2>1, <2>2 DEF FileTypes, TypeOK, Args
<1>4. handled' \in [Viewer -> SUBSET Elem]
  <2>1. handled[v] \cup {e} \in SUBSET Elem
    BY DEF FileTypes, TypeOK
  <2> QED
    BY <2>1 DEF FileTypes, TypeOK, Reupload
<1>5. pc' \in [Req -> {"idle", "sized", "metered", "stored", "adding", "checked", "written"}]
  <2>1. pc' = [pc EXCEPT ![r] = "sized"] \/ pc' = pc
    BY DEF Reupload, Go
  <2> QED
    BY <2>1 DEF FileTypes, TypeOK
<1>6. ArgTypes'
  BY <1>1 DEF FileTypes, TypeOK, ArgTypes, Reupload, Go
<1> QED
  BY <1>2, <1>3, <1>4, <1>5, <1>6 DEF FileTypes, TypeOK, Args, Reupload, dbVars, loadVars, Present

LEMMA StepTypes == ASSUME FileTypes, [Next]_vars PROVE FileTypes'
<1>1. CASE UNCHANGED vars
  BY <1>1 DEF vars, dbVars, reqVars, viewerVars, loadVars, FileTypes, TypeOK, ArgTypes, Present
<1>2. ASSUME NEW r \in Req, NEW e \in Elem, Delete(r, e) PROVE FileTypes'
  BY <1>2, RewriteTypes DEF Delete
<1>3. ASSUME NEW r \in Req, NEW e \in Elem, NEW f \in File, Patch(r, e, f) PROVE FileTypes'
  BY <1>3, RewriteTypes DEF Patch
<1>4. CASE Gc \/ SetStatus
  BY <1>4 DEF Gc, SetStatus, reqVars, viewerVars, loadVars, FileTypes, TypeOK, ArgTypes, Present
<1> QED
  BY <1>1, <1>2, <1>3, <1>4, RequestTypes, LoadTypes, ReuploadTypes DEF Next

\* Type correctness, for every client of the API, with and without collection.
THEOREM FilesTyped == Spec => []TypeOK
<1>1. Init => FileTypes
  BY FilesAssumption, BlankIsScene DEF Init, FileTypes, TypeOK, ArgTypes, NoArg, Present
<1>2. FileTypes /\ [Next]_vars => FileTypes'
  BY StepTypes
<1>3. FileTypes => TypeOK
  BY DEF FileTypes
<1> QED
  BY <1>1, <1>2, <1>3, PTL DEF Spec

-----------------------------------------------------------------------------
(* Sums over finite sets, by minimal counterexamples: the lengths of a set  *)
(* of files or of uploads.                                                 *)

\* A property of finite sets that every set inherits from its proper subsets.
LEMMA OfSmallerSets ==
  ASSUME NEW S, IsFiniteSet(S), NEW Good,
         \A T \in SUBSET S : (\A U \in SUBSET T : U # T => U \in Good) => T \in Good
  PROVE  SUBSET S \subseteq Good
<1> DEFINE Bad == (SUBSET S) \ Good
           R == StrictSubsetOrdering(S)
<1>1. CASE Bad = {}
  BY <1>1
<1>2. CASE Bad # {}
  <2>1. IsWellFoundedOn(R, SUBSET S)
    BY FS_StrictSubsetOrderingWellFounded, FS_FiniteSubsetsOfFinite
  <2>2. PICK T \in Bad : \A U \in Bad : ~ (<<U, T>> \in R)
    <3>1. Bad \subseteq SUBSET S
      OBVIOUS
    <3> HIDE DEF Bad, R
    <3> QED
      BY <1>2, <2>1, <3>1, WFMin
  <2>3. ASSUME NEW U \in SUBSET T, U # T PROVE U \in Good
    <3>1. <<U, T>> \in (SUBSET S) \X (SUBSET S) /\ <<U, T>>[1] \subseteq <<U, T>>[2]
          /\ <<U, T>>[1] # <<U, T>>[2]
      BY <2>3
    <3>2. <<U, T>> \in R
      BY <3>1, Zenon DEF StrictSubsetOrdering
    <3> QED
      BY <2>2, <3>2
  <2> QED
    BY <2>2, <2>3
<1> QED
  BY <1>1, <1>2

Pick(S) == CHOOSE x \in S : TRUE

\* A function that sums up every subset of S, an element at a time.
Adds(g, len, S) ==
  g = [s \in SUBSET S |-> IF s = {} THEN 0 ELSE len[Pick(s)] + g[s \ {Pick(s)}]]

LEMMA CharsIsAFold ==
  ASSUME NEW len, NEW S
  PROVE  Chars(len, S) = (CHOOSE g : Adds(g, len, S))[S]
BY DEF Chars, MapThenSumSet, MapThenFoldSet, Adds, Pick

LEMMA PickIn == ASSUME NEW S, S # {} PROVE Pick(S) \in S
BY DEF Pick

\* Two such functions agree where both are defined.
LEMMA AddsAgree ==
  ASSUME NEW len, NEW S, NEW T, NEW g, NEW h, Adds(g, len, S), Adds(h, len, T),
         NEW s \in SUBSET (S \cap T), IsFiniteSet(s)
  PROVE  g[s] = h[s]
<1> DEFINE Good == { t \in SUBSET s : g[t] = h[t] }
<1>1. ASSUME NEW t \in SUBSET s, \A u \in SUBSET t : u # t => u \in Good PROVE t \in Good
  <2>0. t \in SUBSET S /\ t \in SUBSET T
    OBVIOUS
  <2>1. CASE t = {}
    BY <2>0, <2>1 DEF Adds
  <2>2. CASE t # {}
    <3>1. t \ {Pick(t)} \in SUBSET t /\ t \ {Pick(t)} # t
      BY <2>2, PickIn
    <3>2. g[t \ {Pick(t)}] = h[t \ {Pick(t)}]
      BY <1>1, <3>1
    <3>3. g[t] = len[Pick(t)] + g[t \ {Pick(t)}] /\ h[t] = len[Pick(t)] + h[t \ {Pick(t)}]
      BY <2>0, <2>2 DEF Adds
    <3> QED
      BY <3>2, <3>3
  <2> QED
    BY <2>1, <2>2
<1> HIDE DEF Good
<1>2. SUBSET s \subseteq Good
  BY <1>1, OfSmallerSets
<1>3. s \in Good
  BY <1>2
<1> QED
  BY <1>3 DEF Good

\* There is one, since the subsets of a finite set are well-founded.
LEMMA AddsExist ==
  ASSUME NEW len, NEW S, IsFiniteSet(S)
  PROVE  \E g : Adds(g, len, S)
<1> DEFINE Good == { T \in SUBSET S : \E g : Adds(g, len, T) }
<1>1. ASSUME NEW T \in SUBSET S, \A U \in SUBSET T : U # T => U \in Good PROVE T \in Good
  <2> DEFINE G(s) == CHOOSE g : Adds(g, len, s)
  <2>0. \A U \in SUBSET T : IsFiniteSet(U)
    BY FS_Subset
  <2>1. \A U \in SUBSET T : U # T => Adds(G(U), len, U)
    BY <1>1
  <2> DEFINE rest == T \ {Pick(T)}
             last == IF T = {} THEN 0 ELSE len[Pick(T)] + G(rest)[rest]
             g == [s \in SUBSET T |-> IF s = T THEN last ELSE G(s)[s]]
  <2> HIDE DEF G
  <2>2. ASSUME NEW s \in SUBSET T
        PROVE  g[s] = IF s = {} THEN 0 ELSE len[Pick(s)] + g[s \ {Pick(s)}]
    <3>1. CASE s = T /\ s = {}
      BY <3>1
    <3>2. CASE s = T /\ s # {}
      <4>1. rest # T /\ rest \in SUBSET T
        BY <3>2, PickIn
      <4>2. g[rest] = G(rest)[rest]
        BY <4>1
      <4> QED
        BY <3>2, <4>2
    <3>3. CASE s # T /\ s = {}
      <4>1. Adds(G(s), len, s)
        BY <2>1, <3>3
      <4>2. G(s)[s] = 0
        BY <3>3, <4>1 DEF Adds
      <4> QED
        BY <3>3, <4>2
    <3>4. CASE s # T /\ s # {}
      <4> DEFINE t == s \ {Pick(s)}
      <4>1. t \in SUBSET T /\ t \in SUBSET s /\ t # s /\ t # T
        BY <3>4, PickIn
      <4>2. Adds(G(s), len, s) /\ Adds(G(t), len, t)
        BY <2>1, <3>4, <4>1
      <4>3. G(s)[s] = len[Pick(s)] + G(s)[t]
        BY <3>4, <4>2 DEF Adds
      <4>4. G(s)[t] = G(t)[t]
        <5>1. t \in SUBSET (s \cap t) /\ IsFiniteSet(t)
          BY <2>0, <4>1
        <5> HIDE DEF t
        <5> QED
          BY <4>2, <5>1, AddsAgree
      <4>5. g[s] = G(s)[s] /\ g[t] = G(t)[t]
        BY <3>4, <4>1
      <4> QED
        BY <3>4, <4>3, <4>4, <4>5
    <3> QED
      BY <3>1, <3>2, <3>3, <3>4
  <2>3. Adds(g, len, T)
    <3>1. g = [s \in SUBSET T |-> g[s]]
      OBVIOUS
    <3> HIDE DEF g
    <3> QED
      BY <2>2, <3>1 DEF Adds
  <2> QED
    BY <2>3
<1> HIDE DEF Good
<1>2. SUBSET S \subseteq Good
  BY <1>1, OfSmallerSets
<1>3. S \in Good
  BY <1>2
<1> QED
  BY <1>3 DEF Good

LEMMA CharsOfNone == ASSUME NEW len PROVE Chars(len, {}) = 0
<1> DEFINE g == CHOOSE x : Adds(x, len, {})
<1>1. Adds(g, len, {})
  BY AddsExist, FS_EmptySet
<1>2. g[{}] = 0
  BY <1>1 DEF Adds
<1> QED
  BY <1>2, CharsIsAFold

\* The first element is taken, the rest are summed up.
LEMMA CharsOfFirst ==
  ASSUME NEW len, NEW S, IsFiniteSet(S), S # {}
  PROVE  Chars(len, S) = len[Pick(S)] + Chars(len, S \ {Pick(S)})
<1> DEFINE T == S \ {Pick(S)}
           g == CHOOSE x : Adds(x, len, S)
           h == CHOOSE x : Adds(x, len, T)
<1>1. IsFiniteSet(T) /\ T \in SUBSET S /\ T \in SUBSET (S \cap T)
  BY FS_RemoveElement
<1>2. Adds(g, len, S) /\ Adds(h, len, T)
  BY <1>1, AddsExist
<1>3. g[S] = len[Pick(S)] + g[T]
  BY <1>2 DEF Adds
<1>4. Chars(len, S) = g[S] /\ Chars(len, T) = h[T]
  BY CharsIsAFold
<1> HIDE DEF g, h, T
<1>5. g[T] = h[T]
  BY <1>1, <1>2, AddsAgree
<1> QED
  BY <1>3, <1>4, <1>5 DEF T

\* Lengths add up to a length.
LEMMA CharsNat ==
  ASSUME NEW S, IsFiniteSet(S), NEW len, \A x \in S : len[x] \in Nat
  PROVE  Chars(len, S) \in Nat
<1> DEFINE Good == { T \in SUBSET S : Chars(len, T) \in Nat }
<1>1. ASSUME NEW T \in SUBSET S, \A U \in SUBSET T : U # T => U \in Good PROVE T \in Good
  <2>1. CASE T = {}
    BY <2>1, CharsOfNone
  <2>2. CASE T # {}
    <3>1. Pick(T) \in T /\ T \ {Pick(T)} \in Good
      BY <1>1, <2>2, PickIn
    <3>2. Chars(len, T) = len[Pick(T)] + Chars(len, T \ {Pick(T)})
      BY <2>2, CharsOfFirst, FS_Subset
    <3> QED
      BY <3>1, <3>2
  <2> QED
    BY <2>1, <2>2
<1> HIDE DEF Good
<1>2. S \in Good
  BY <1>1, OfSmallerSets
<1> QED
  BY <1>2 DEF Good

\* Any element may be taken first.
LEMMA CharsOfAny ==
  ASSUME NEW S, IsFiniteSet(S), NEW len, \A x \in S : len[x] \in Nat, NEW y \in S
  PROVE  Chars(len, S) = len[y] + Chars(len, S \ {y})
<1> DEFINE Good == { T \in SUBSET S : \A x \in T : Chars(len, T) = len[x] + Chars(len, T \ {x}) }
<1>1. ASSUME NEW T \in SUBSET S, \A U \in SUBSET T : U # T => U \in Good PROVE T \in Good
  <2> SUFFICES ASSUME NEW x \in T PROVE Chars(len, T) = len[x] + Chars(len, T \ {x})
    OBVIOUS
  <2> DEFINE p == Pick(T)
             c == Chars(len, (T \ {p}) \ {x})
  <2>1. p \in T /\ Chars(len, T) = len[p] + Chars(len, T \ {p})
    BY CharsOfFirst, FS_Subset, PickIn
  <2> HIDE DEF p
  <2>2. CASE x = p
    BY <2>1, <2>2
  <2>3. CASE x # p
    <3>1. T \ {p} \in Good /\ T \ {x} \in Good /\ x \in T \ {p} /\ p \in T \ {x}
      BY <1>1, <2>1, <2>3
    <3>2. Chars(len, T \ {p}) = len[x] + c
      BY <3>1
    <3>3. Chars(len, T \ {x}) = len[p] + Chars(len, (T \ {x}) \ {p})
      BY <3>1
    <3>4. (T \ {x}) \ {p} = (T \ {p}) \ {x}
      OBVIOUS
    <3>5. c \in Nat /\ len[x] \in Nat /\ len[p] \in Nat
      <4>1. IsFiniteSet((T \ {p}) \ {x})
        BY FS_Subset
      <4> QED
        BY <2>1, <4>1, CharsNat
    <3> QED
      BY <2>1, <3>2, <3>3, <3>4, <3>5
  <2> QED
    BY <2>2, <2>3
<1> HIDE DEF Good
<1>2. S \in Good
  BY <1>1, OfSmallerSets
<1> QED
  BY <1>2 DEF Good

\* One element more.
LEMMA CharsAdd ==
  ASSUME NEW S, IsFiniteSet(S), NEW y, y \notin S,
         NEW len, \A x \in S \cup {y} : len[x] \in Nat
  PROVE  Chars(len, S \cup {y}) = len[y] + Chars(len, S)
<1>1. IsFiniteSet(S \cup {y}) /\ (S \cup {y}) \ {y} = S
  BY FS_AddElement
<1> QED
  BY <1>1, CharsOfAny

\* The sum depends on the lengths of the elements alone.
LEMMA CharsSame ==
  ASSUME NEW S, IsFiniteSet(S), NEW len, NEW new, \A x \in S : len[x] = new[x]
  PROVE  Chars(len, S) = Chars(new, S)
<1> DEFINE Good == { T \in SUBSET S : Chars(len, T) = Chars(new, T) }
<1>1. ASSUME NEW T \in SUBSET S, \A U \in SUBSET T : U # T => U \in Good PROVE T \in Good
  <2>1. CASE T = {}
    BY <2>1, CharsOfNone
  <2>2. CASE T # {}
    <3>1. Pick(T) \in T /\ T \ {Pick(T)} \in Good
      BY <1>1, <2>2, PickIn
    <3>2. /\ Chars(len, T) = len[Pick(T)] + Chars(len, T \ {Pick(T)})
          /\ Chars(new, T) = new[Pick(T)] + Chars(new, T \ {Pick(T)})
      BY <2>2, CharsOfFirst, FS_Subset
    <3> QED
      BY <3>1, <3>2
  <2> QED
    BY <2>1, <2>2
<1> HIDE DEF Good
<1>2. S \in Good
  BY <1>1, OfSmallerSets
<1> QED
  BY <1>2 DEF Good

\* A part is no longer than the whole.
LEMMA CharsGrow ==
  ASSUME NEW S, IsFiniteSet(S), NEW len, \A x \in S : len[x] \in Nat, NEW V \in SUBSET S
  PROVE  Chars(len, V) <= Chars(len, S)
<1> DEFINE Good == { T \in SUBSET S : V \in SUBSET T => Chars(len, V) <= Chars(len, T) }
<1>0. \A T \in SUBSET S : IsFiniteSet(T) /\ Chars(len, T) \in Nat
  BY FS_Subset, CharsNat
<1>1. ASSUME NEW T \in SUBSET S, \A U \in SUBSET T : U # T => U \in Good PROVE T \in Good
  <2>1. CASE V = T
    BY <1>0, <2>1
  <2>2. CASE V # T /\ V \in SUBSET T
    <3>1. PICK y \in T : y \notin V
      BY <2>2
    <3>2. T \ {y} \in SUBSET T /\ T \ {y} # T /\ V \in SUBSET (T \ {y})
      BY <2>2, <3>1
    <3>3. T \ {y} \in Good
      BY <1>1, <3>2
    <3>4. Chars(len, V) <= Chars(len, T \ {y})
      BY <3>2, <3>3
    <3>5. Chars(len, T) = len[y] + Chars(len, T \ {y})
      BY <1>0, CharsOfAny
    <3>6. Chars(len, V) \in Nat /\ Chars(len, T \ {y}) \in Nat /\ len[y] \in Nat
      BY <1>0, <3>2
    <3>7. Chars(len, V) <= Chars(len, T)
      BY <3>4, <3>5, <3>6
    <3> QED
      BY <3>7
  <2>3. CASE V \notin SUBSET T
    BY <2>3
  <2> QED
    BY <2>1, <2>2, <2>3
<1> HIDE DEF Good
<1>2. S \in Good
  BY <1>1, OfSmallerSets
<1> QED
  BY <1>2 DEF Good

\* The sum of lengths within a ceiling.
LEMMA CharsBounded ==
  ASSUME NEW S, IsFiniteSet(S), NEW most \in Nat,
         NEW len, \A x \in S : len[x] \in Nat /\ len[x] <= most
  PROVE  Chars(len, S) <= Cardinality(S) * most
<1> DEFINE Good == { T \in SUBSET S : Chars(len, T) <= Cardinality(T) * most }
<1>0. \A T \in SUBSET S : IsFiniteSet(T) /\ Chars(len, T) \in Nat /\ Cardinality(T) \in Nat
  BY FS_Subset, CharsNat, FS_CardinalityType
<1>1. ASSUME NEW T \in SUBSET S, \A U \in SUBSET T : U # T => U \in Good PROVE T \in Good
  <2>1. CASE T = {}
    <3>1. Chars(len, T) = 0 /\ Cardinality(T) = 0
      BY <2>1, CharsOfNone, FS_EmptySet
    <3> QED
      BY <3>1
  <2>2. CASE T # {}
    <3> DEFINE p == Pick(T)
               U == T \ {p}
    <3>1. p \in T /\ U \in SUBSET T /\ U # T
      BY <2>2, PickIn
    <3>2. Chars(len, T) = len[p] + Chars(len, U) /\ Cardinality(U) = Cardinality(T) - 1
      BY <1>0, <2>2, <3>1, CharsOfFirst, FS_RemoveElement
    <3>3. U \in Good
      BY <1>1, <3>1
    <3> HIDE DEF p, U
    <3>4. Chars(len, U) <= Cardinality(U) * most
      BY <3>3
    <3>5. /\ len[p] \in Nat /\ len[p] <= most /\ Chars(len, U) \in Nat
          /\ Cardinality(U) \in Nat /\ Cardinality(T) = Cardinality(U) + 1
      BY <1>0, <3>1, <3>2
    <3>6. Cardinality(T) * most = Cardinality(U) * most + most
      BY <3>5
    <3> DEFINE m == Cardinality(U) * most
               n == Cardinality(T) * most
    <3>7. m \in Nat
      BY <3>5
    <3>8. n = m + most /\ Chars(len, U) <= m
      BY <3>4, <3>6
    <3> HIDE DEF m, n
    <3>9. Chars(len, T) <= n
      BY <3>2, <3>5, <3>7, <3>8
    <3> QED
      BY <3>9 DEF n
  <2> QED
    BY <2>1, <2>2
<1> HIDE DEF Good
<1>2. S \in Good
  BY <1>1, OfSmallerSets
<1> QED
  BY <1>2 DEF Good

-----------------------------------------------------------------------------
(* The budget, whoever the clients are and whatever is collected.          *)

\* An upload past the size check is within the ceiling of a file.
WithinCeiling ==
  \A r \in Req : pc[r] \in {"sized", "metered"} => Size[arg[r].f] <= MaxFile

BudgetInv == FileTypes /\ IsFiniteSet(files) /\ WithinCeiling /\ BudgetOvershoot

\* A step neither stores nor meters an upload, or it does just that.
Quiet ==
  /\ files' \subseteq files
  /\ \A r \in Req : /\ pc'[r] = "metered" <=> pc[r] = "metered"
                    /\ pc[r] = "metered" => arg'[r] = arg[r]

Meters(r) ==
  /\ pc[r] = "sized" /\ pc' = [pc EXCEPT ![r] = "metered"] /\ UNCHANGED <<files, arg>>
  /\ Total(files) + Size[arg[r].f] <= MaxTotal

LEMMA Accounting ==
  ASSUME FileTypes, WithinCeiling, [Next]_vars
  PROVE  /\ WithinCeiling'
         /\ Quiet \/ \E r \in Req : Meters(r) \/ UploadPut(r)
<1> DEFINE Claim == WithinCeiling' /\ (Quiet \/ \E r \in Req : Meters(r) \/ UploadPut(r))
<1> USE DEF FileTypes, TypeOK, Go, NoArg
<1>1. CASE UNCHANGED vars
  BY <1>1 DEF WithinCeiling, Quiet, vars, dbVars, reqVars
<1>2. ASSUME NEW r \in Req, NEW f \in File, UploadCheck(r, f) PROVE Claim
  BY <1>2 DEF WithinCeiling, Quiet, UploadCheck, dbVars
<1>3. ASSUME NEW r \in Req, UploadBudget(r) PROVE Claim
  <2>1. files' = files
    BY <1>3 DEF UploadBudget, dbVars
  <2>2. CASE Total(files) + Size[arg[r].f] <= MaxTotal
    BY <1>3, <2>1, <2>2 DEF UploadBudget, WithinCeiling, Meters
  <2>3. CASE ~(Total(files) + Size[arg[r].f] <= MaxTotal)
    BY <1>3, <2>1, <2>3 DEF UploadBudget, WithinCeiling, Quiet
  <2> QED
    BY <2>2, <2>3
<1>4. ASSUME NEW r \in Req, UploadPut(r) PROVE Claim
  BY <1>4 DEF UploadPut, WithinCeiling
<1>5. ASSUME NEW r \in Req, UploadTell(r) PROVE Claim
  BY <1>5 DEF UploadTell, WithinCeiling, Quiet, dbVars
<1>6. ASSUME NEW r \in Req, AddFilesCheck(r) \/ AddInsert(r) \/ Tell(r) PROVE Claim
  BY <1>6 DEF AddFilesCheck, AddInsert, Tell, WithinCeiling, Quiet, dbVars
<1>7. ASSUME NEW r \in Req, NEW e \in Elem, NEW f \in File, AddCheck(r, e, f) PROVE Claim
  BY <1>7 DEF AddCheck, WithinCeiling, Quiet, dbVars
<1>8. ASSUME NEW r \in Req, NEW e \in Elem, NEW f \in File \cup {None}, Rewrite(r, e, f) PROVE Claim
  BY <1>8 DEF Rewrite, WithinCeiling, Quiet
<1>9. ASSUME NEW r \in Req, NEW v \in Viewer, NEW e \in Elem, Reupload(r, v, e) PROVE Claim
  BY <1>9 DEF Reupload, WithinCeiling, Quiet, dbVars
<1>10. CASE Gc \/ SetStatus
  BY <1>10 DEF Gc, SetStatus, WithinCeiling, Quiet, reqVars
<1>11. ASSUME NEW v \in Viewer, Load(v) PROVE Claim
  <2>1. UNCHANGED <<files, pc, arg>>
    BY <1>11 DEF Load, EditorReady, HttpRead, Query, HttpArrives, WsJoin, WsSnapshot, dbVars, reqVars
  <2> QED
    BY <2>1 DEF WithinCeiling, Quiet
<1> QED
  BY <1>1, <1>2, <1>3, <1>4, <1>5, <1>6, <1>7, <1>8, <1>9, <1>10, <1>11
  DEF Next, Handle, Patch, Delete

Lengths == [r \in Due |-> Size[arg[r].f]]

LEMMA DueLengths ==
  ASSUME FileTypes
  PROVE  /\ IsFiniteSet(Due) /\ \A r \in Due : Lengths[r] \in Nat /\ Lengths[r] = Size[arg[r].f]
         /\ Pending = Chars(Lengths, Due) /\ Pending \in Nat
<1>1. Due \in SUBSET Req /\ IsFiniteSet(Due)
  BY FilesAssumption, FS_Subset DEF Due
<1>2. \A r \in Due : Lengths[r] \in Nat /\ Lengths[r] = Size[arg[r].f]
  BY FilesAssumption DEF FileTypes, ArgTypes, Due, Lengths
<1>3. Pending = Chars(Lengths, Due)
  BY DEF Pending, Lengths
<1> QED
  BY <1>1, <1>2, <1>3, CharsNat

\* The same after a step.
LEMMA DueLengthsAfter ==
  ASSUME FileTypes'
  PROVE  /\ IsFiniteSet(Due') /\ \A r \in Due' : Lengths'[r] \in Nat /\ Lengths'[r] = Size[arg'[r].f]
         /\ Pending' = Chars(Lengths', Due') /\ Pending' \in Nat
<1>1. Due' \in SUBSET Req /\ IsFiniteSet(Due')
  BY FilesAssumption, FS_Subset DEF Due
<1>2. \A r \in Due' : Lengths'[r] \in Nat /\ Lengths'[r] = Size[arg'[r].f]
  BY FilesAssumption DEF FileTypes, ArgTypes, Due, Lengths
<1>3. Pending' = Chars(Lengths', Due')
  BY DEF Pending, Lengths
<1> QED
  BY <1>1, <1>2, <1>3, CharsNat

LEMMA TotalNat ==
  ASSUME FileTypes, IsFiniteSet(files)
  PROVE  Total(files) \in Nat /\ \A f \in files : Size[f] \in Nat
<1>1. \A f \in files : Size[f] \in Nat
  BY FilesAssumption DEF FileTypes, TypeOK
<1> QED
  BY <1>1, CharsNat DEF Total

\* Metering adds a length that fits next to what is stored, and leaves one request
\* less for what is still due; storing moves a length from one sum to the other.
LEMMA BudgetStep ==
  ASSUME BudgetInv, [Next]_vars
  PROVE  BudgetInv'
<1>1. FileTypes' /\ WithinCeiling' /\ (Quiet \/ \E r \in Req : Meters(r) \/ UploadPut(r))
  BY StepTypes, Accounting DEF BudgetInv
<1> USE DEF BudgetInv
<1>2. IsFiniteSet(files')
  <2>1. CASE Quiet
    BY <2>1, FS_Subset DEF Quiet
  <2>2. ASSUME NEW r \in Req, Meters(r) PROVE IsFiniteSet(files')
    BY <2>2 DEF Meters
  <2>3. ASSUME NEW r \in Req, UploadPut(r) PROVE IsFiniteSet(files')
    BY <2>3, FS_AddElement DEF UploadPut
  <2> QED
    BY <1>1, <2>1, <2>2, <2>3
<1>3. /\ IsFiniteSet(Due') /\ Pending' = Chars(Lengths', Due') /\ Pending' \in Nat
      /\ \A r \in Due' : Lengths'[r] \in Nat /\ Lengths'[r] = Size[arg'[r].f]
  BY <1>1, DueLengthsAfter
<1>4. /\ IsFiniteSet(Due) /\ Pending = Chars(Lengths, Due) /\ Pending \in Nat
      /\ \A r \in Due : Lengths[r] \in Nat /\ Lengths[r] = Size[arg[r].f]
  BY DueLengths
<1>5. Total(files) \in Nat /\ (\A f \in files : Size[f] \in Nat) /\ Total(files') \in Nat
  BY <1>1, <1>2, TotalNat, FilesAssumption, CharsNat DEF FileTypes, TypeOK, Total
<1> DEFINE Bound == MaxTotal + (Cardinality(Req) - 1) * MaxFile
           n == Total(files) + Pending
           new == Total(files') + Pending'
<1>6. n = 0 \/ n <= Bound
  BY DEF BudgetOvershoot
<1>7. n \in Nat /\ new \in Nat
  BY <1>3, <1>4, <1>5
<1>8. new <= n \/ new <= Bound
  <2>1. CASE Quiet
    <3>1. Due' = Due /\ \A r \in Due : Lengths'[r] = Lengths[r]
      BY <1>3, <1>4, <2>1 DEF Quiet, Due
    <3>2. Pending' = Pending
      BY <1>3, <1>4, <3>1, CharsSame
    <3>3. Total(files') <= Total(files)
      BY <1>5, <2>1, CharsGrow DEF Quiet, Total
    <3> QED
      BY <1>3, <1>4, <1>5, <3>2, <3>3
  <2>2. ASSUME NEW r \in Req, UploadPut(r) PROVE new <= n
    <3>1. /\ pc[r] = "metered" /\ files' = files \cup {arg[r].f} /\ arg' = arg
          /\ pc' = [pc EXCEPT ![r] = "stored"]
      BY <2>2 DEF UploadPut, Go
    <3>2. r \in Due /\ Due' = Due \ {r} /\ \A q \in Due' : Lengths'[q] = Lengths[q]
      BY <1>3, <1>4, <3>1 DEF Due, FileTypes, TypeOK
    <3>3. Pending = Size[arg[r].f] + Chars(Lengths, Due \ {r})
      BY <1>4, <3>2, CharsOfAny
    <3>4. Pending' = Chars(Lengths, Due \ {r})
      BY <1>3, <3>2, CharsSame
    <3>5. Total(files') <= Size[arg[r].f] + Total(files)
      <4>1. Size[arg[r].f] \in Nat
        BY <1>4, <3>2
      <4>2. CASE arg[r].f \in files
        <5>1. files' = files
          BY <3>1, <4>2
        <5> QED
          BY <1>5, <4>1, <5>1
      <4>3. CASE arg[r].f \notin files
        <5>1. Total(files') = Size[arg[r].f] + Total(files)
          BY <1>5, <3>1, <4>1, <4>3, CharsAdd DEF Total
        <5> QED
          BY <1>5, <4>1, <5>1
      <4> QED
        BY <4>2, <4>3
    <3>6. Size[arg[r].f] \in Nat
      BY <1>4, <3>2
    <3> QED
      BY <1>3, <1>4, <1>5, <3>3, <3>4, <3>5, <3>6
  <2>3. ASSUME NEW r \in Req, Meters(r) PROVE new <= Bound
    <3> DEFINE others == Req \ {r}
    <3>1. /\ files' = files /\ r \in Due' /\ Due' \in SUBSET Req
          /\ Total(files) + Size[arg[r].f] <= MaxTotal /\ arg' = arg
      BY <2>3 DEF Meters, Due, FileTypes, TypeOK
    <3>2. Pending' = Size[arg[r].f] + Chars(Lengths', Due' \ {r})
      BY <1>3, <3>1, CharsOfAny
    <3>3. \A q \in Due' : Lengths'[q] <= MaxFile
      BY <1>1, <1>3 DEF WithinCeiling, Due
    <3>4. IsFiniteSet(Due' \ {r}) /\ Due' \ {r} \in SUBSET others
      BY <1>3, <3>1, FS_Subset
    <3>5. Chars(Lengths', Due' \ {r}) <= Cardinality(Due' \ {r}) * MaxFile
      BY <1>3, <3>3, <3>4, FilesAssumption, CharsBounded
    <3>6. /\ IsFiniteSet(others) /\ Cardinality(others) = Cardinality(Req) - 1
          /\ Cardinality(others) \in Nat /\ Cardinality(Due' \ {r}) \in Nat
          /\ Cardinality(Due' \ {r}) <= Cardinality(others)
      BY <3>4, FilesAssumption, FS_RemoveElement, FS_Subset, FS_CardinalityType
    <3> DEFINE a == Cardinality(Due' \ {r})
               b == Cardinality(others)
               c == Chars(Lengths', Due' \ {r})
               s == Size[arg[r].f]
    <3>7. c \in Nat /\ s \in Nat /\ MaxTotal \in Nat /\ MaxFile \in Nat
      BY <1>3, <3>1, <3>4, FilesAssumption, CharsNat
    <3>8. new = Total(files) + s + c /\ Bound = MaxTotal + b * MaxFile
      BY <1>5, <3>1, <3>2, <3>6, <3>7
    <3> HIDE DEF a, b, c, s, new, Bound
    <3>9. c <= a * MaxFile /\ a <= b /\ a \in Nat /\ b \in Nat
      BY <3>5, <3>6 DEF a, b, c
    <3>10. a * MaxFile <= b * MaxFile /\ a * MaxFile \in Nat /\ b * MaxFile \in Nat
      BY <3>7, <3>9
    <3>11. Total(files) + s <= MaxTotal
      BY <3>1 DEF s
    <3> QED
      BY <1>5, <3>7, <3>8, <3>9, <3>10, <3>11
  <2> QED
    BY <1>1, <2>1, <2>2, <2>3
<1>9. Bound \in Int
  BY FilesAssumption, FS_CardinalityType
<1> HIDE DEF n, new, Bound
<1>10. new = 0 \/ new <= Bound
  BY <1>6, <1>7, <1>8, <1>9
<1> QED
  BY <1>1, <1>2, <1>10 DEF BudgetOvershoot, new, Bound

\* The budget of a canvas is exceeded by the other uploads in flight at most.
THEOREM BudgetIsBounded == Spec => []BudgetOvershoot
<1>1. Init => BudgetInv
  <2> SUFFICES ASSUME Init PROVE BudgetInv
    OBVIOUS
  <2>1. FileTypes
    BY FilesAssumption, BlankIsScene DEF Init, FileTypes, TypeOK, ArgTypes, NoArg, Present
  <2>2. files = {} /\ Due = {} /\ WithinCeiling
    BY DEF Init, Due, WithinCeiling
  <2>3. Total(files) = 0 /\ Pending = 0
    BY <2>2, CharsOfNone DEF Total, Pending
  <2> QED
    BY <2>1, <2>2, <2>3, FS_EmptySet DEF BudgetInv, BudgetOvershoot
<1>2. BudgetInv /\ [Next]_vars => BudgetInv'
  BY BudgetStep
<1>3. BudgetInv => BudgetOvershoot
  BY DEF BudgetInv
<1> QED
  BY <1>1, <1>2, <1>3, PTL DEF Spec

-----------------------------------------------------------------------------
(* The setting of the other theorems.                                      *)

Setting == FromBrowser = TRUE /\ Collected = FALSE

LEMMA InitInvariant == Init => FilesInv
BY FilesAssumption, BlankIsScene
   DEF Init, FilesInv, TypeOK, ArgSound, BytesFirst, SceneSound, BytesReach, NoArg, Present

LEMMA UploadCheckKeeps ==
  ASSUME Setting, FilesInv, TypeOK', NEW r \in Req, NEW f \in File, UploadCheck(r, f)
  PROVE  FilesInv'
<1>1. ArgSound'
  BY DEF FilesInv, TypeOK, ArgSound, UploadCheck, Go, dbVars, viewerVars, loadVars
<1>2. BytesFirst'
  BY DEF FilesInv, BytesFirst, UploadCheck, Go, dbVars, viewerVars, loadVars
<1>3. SceneSound'
  BY DEF FilesInv, SceneSound, UploadCheck, Go, dbVars, viewerVars, loadVars
<1>4. BytesReach'
  BY DEF FilesInv, BytesReach, UploadCheck, Go, dbVars, viewerVars, loadVars
<1> QED
  BY <1>1, <1>2, <1>3, <1>4 DEF FilesInv

LEMMA UploadBudgetKeeps ==
  ASSUME Setting, FilesInv, TypeOK', NEW r \in Req, UploadBudget(r)
  PROVE  FilesInv'
<1>1. ArgSound'
  BY DEF FilesInv, TypeOK, ArgSound, UploadBudget, Go, NoArg, dbVars, loadVars
<1>2. BytesFirst'
  BY DEF FilesInv, BytesFirst, UploadBudget, dbVars, loadVars
<1>3. SceneSound'
  <2>1. \A w \in Viewer, x \in Elem : scene'[w][x] \in {scene[w][x], None}
    BY WithoutDrops DEF FilesInv, TypeOK, UploadBudget
  <2> QED
    BY <2>1 DEF FilesInv, SceneSound, UploadBudget, dbVars, loadVars
<1>4. BytesReach'
  BY DEF FilesInv, BytesReach, UploadBudget, dbVars, loadVars
<1> QED
  BY <1>1, <1>2, <1>3, <1>4 DEF FilesInv

LEMMA UploadPutKeeps ==
  ASSUME Setting, FilesInv, TypeOK', NEW r \in Req, UploadPut(r)
  PROVE  FilesInv'
<1>1. ArgSound'
  BY DEF FilesInv, ArgSound, UploadPut, Go, viewerVars, loadVars
<1>2. BytesFirst'
  BY DEF FilesInv, BytesFirst, UploadPut, Go, viewerVars, loadVars
<1>3. SceneSound'
  BY DEF FilesInv, SceneSound, UploadPut, Go, viewerVars, loadVars
<1>4. BytesReach'
  BY DEF FilesInv, BytesReach, UploadPut, Go, viewerVars, loadVars
<1> QED
  BY <1>1, <1>2, <1>3, <1>4 DEF FilesInv

LEMMA UploadTellKeeps ==
  ASSUME Setting, FilesInv, TypeOK', NEW r \in Req, UploadTell(r)
  PROVE  FilesInv'
<1>1. ArgSound'
  BY DEF FilesInv, TypeOK, ArgSound, UploadTell, Go, NoArg, dbVars, loadVars
<1>2. BytesFirst'
  BY DEF FilesInv, TypeOK, ArgSound, BytesFirst, UploadTell, Go, NoArg, dbVars, loadVars
<1>3. SceneSound'
  BY DEF FilesInv, SceneSound, UploadTell, Go, NoArg, dbVars, loadVars
<1>4. BytesReach'
  BY DEF FilesInv, BytesReach, UploadTell, Go, NoArg, dbVars, loadVars
<1> QED
  BY <1>1, <1>2, <1>3, <1>4 DEF FilesInv

LEMMA AddCheckKeeps ==
  ASSUME Setting, FilesInv, TypeOK', NEW r \in Req, NEW e \in Elem, NEW f \in File, AddCheck(r, e, f)
  PROVE  FilesInv'
<1>1. ArgSound'
  BY DEF FilesInv, TypeOK, ArgSound, AddCheck, Go, MaySend, Setting, dbVars, viewerVars, loadVars
<1>2. BytesFirst'
  BY DEF FilesInv, BytesFirst, AddCheck, Go, MaySend, Setting, dbVars, viewerVars, loadVars
<1>3. SceneSound'
  BY DEF FilesInv, SceneSound, AddCheck, Go, MaySend, Setting, dbVars, viewerVars, loadVars
<1>4. BytesReach'
  BY DEF FilesInv, BytesReach, AddCheck, Go, MaySend, Setting, dbVars, viewerVars, loadVars
<1> QED
  BY <1>1, <1>2, <1>3, <1>4 DEF FilesInv

LEMMA AddFilesCheckKeeps ==
  ASSUME Setting, FilesInv, TypeOK', NEW r \in Req, AddFilesCheck(r)
  PROVE  FilesInv'
<1>1. ArgSound'
  BY DEF FilesInv, TypeOK, ArgSound, AddFilesCheck, Go, NoArg, dbVars, viewerVars, loadVars
<1>2. BytesFirst'
  BY DEF FilesInv, BytesFirst, AddFilesCheck, Go, NoArg, dbVars, viewerVars, loadVars
<1>3. SceneSound'
  BY DEF FilesInv, SceneSound, AddFilesCheck, Go, NoArg, dbVars, viewerVars, loadVars
<1>4. BytesReach'
  BY DEF FilesInv, BytesReach, AddFilesCheck, Go, NoArg, dbVars, viewerVars, loadVars
<1> QED
  BY <1>1, <1>2, <1>3, <1>4 DEF FilesInv

LEMMA AddInsertKeeps ==
  ASSUME Setting, FilesInv, TypeOK', NEW r \in Req, AddInsert(r)
  PROVE  FilesInv'
<1>1. ArgSound'
  BY DEF FilesInv, ArgSound, AddInsert, Go, viewerVars, loadVars
<1>2. BytesFirst'
  BY DEF FilesInv, TypeOK, ArgSound, BytesFirst, AddInsert, Go, viewerVars, loadVars
<1>3. SceneSound'
  BY DEF FilesInv, SceneSound, AddInsert, Go, viewerVars, loadVars
<1>4. BytesReach'
  BY DEF FilesInv, BytesReach, AddInsert, Go, viewerVars, loadVars
<1> QED
  BY <1>1, <1>2, <1>3, <1>4 DEF FilesInv

LEMMA TellKeeps ==
  ASSUME Setting, FilesInv, TypeOK', NEW r \in Req, Tell(r)
  PROVE  FilesInv'
<1>1. ArgSound'
  BY DEF FilesInv, TypeOK, ArgSound, Tell, Go, NoArg, dbVars, loadVars
<1>2. BytesFirst'
  BY DEF FilesInv, BytesFirst, Tell, Go, NoArg, dbVars, loadVars
<1>3. SceneSound'
  BY DEF FilesInv, TypeOK, ArgSound, SceneSound, Tell, Go, NoArg, dbVars, loadVars
<1>4. BytesReach'
  BY DEF FilesInv, BytesReach, Tell, Go, NoArg, dbVars, loadVars
<1> QED
  BY <1>1, <1>2, <1>3, <1>4 DEF FilesInv

LEMMA DeleteKeeps ==
  ASSUME Setting, FilesInv, TypeOK', NEW r \in Req, NEW e \in Elem, Delete(r, e)
  PROVE  FilesInv'
<1>1. ArgSound'
  BY DEF FilesInv, TypeOK, ArgSound, Delete, Rewrite, Go, viewerVars, loadVars
<1>2. BytesFirst'
  BY DEF FilesInv, TypeOK, BytesFirst, Delete, Rewrite, Scene, viewerVars, loadVars
<1>3. SceneSound'
  BY DEF FilesInv, SceneSound, Delete, Rewrite, viewerVars, loadVars
<1>4. BytesReach'
  BY DEF FilesInv, BytesReach, Delete, Rewrite, viewerVars, loadVars
<1> QED
  BY <1>1, <1>2, <1>3, <1>4 DEF FilesInv

LEMMA SetStatusKeeps ==
  ASSUME Setting, FilesInv, TypeOK', SetStatus
  PROVE  FilesInv'
<1>1. ArgSound'
  BY DEF FilesInv, ArgSound, SetStatus, reqVars, viewerVars, loadVars
<1>2. BytesFirst'
  BY DEF FilesInv, BytesFirst, SetStatus, reqVars, viewerVars, loadVars
<1>3. SceneSound'
  BY DEF FilesInv, SceneSound, SetStatus, reqVars, viewerVars, loadVars
<1>4. BytesReach'
  BY DEF FilesInv, BytesReach, SetStatus, reqVars, viewerVars, loadVars
<1> QED
  BY <1>1, <1>2, <1>3, <1>4 DEF FilesInv

LEMMA EditorReadyKeeps ==
  ASSUME Setting, FilesInv, TypeOK', NEW v \in Viewer, EditorReady(v)
  PROVE  FilesInv'
<1>1. ArgSound'
  BY DEF FilesInv, ArgSound, EditorReady, dbVars, reqVars
<1>2. BytesFirst'
  BY DEF FilesInv, BytesFirst, EditorReady, dbVars, reqVars
<1>3. SceneSound'
  BY BlankIsScene DEF FilesInv, TypeOK, ArgSound, BytesFirst, SceneSound, BytesReach, EditorReady, dbVars, reqVars
<1>4. BytesReach'
  BY DEF FilesInv, BytesReach, EditorReady, dbVars, reqVars
<1> QED
  BY <1>1, <1>2, <1>3, <1>4 DEF FilesInv

LEMMA ReadElementsKeeps ==
  ASSUME Setting, FilesInv, TypeOK', NEW v \in Viewer,
         NEW a \in [image : Scene, files : SUBSET File],
         a.image = image, Query(v, "asked", "half", a)
  PROVE  FilesInv'
<1>1. ArgSound'
  BY DEF FilesInv, ArgSound, Query, dbVars, reqVars
<1>2. BytesFirst'
  BY DEF FilesInv, BytesFirst, Query, dbVars, reqVars
<1>3. SceneSound'
  BY DEF FilesInv, TypeOK, ArgSound, BytesFirst, SceneSound, Query, dbVars, reqVars
<1>4. BytesReach'
  BY DEF FilesInv, BytesReach, Query, dbVars, reqVars
<1> QED
  BY <1>1, <1>2, <1>3, <1>4 DEF FilesInv

LEMMA ReadFilesKeeps ==
  ASSUME Setting, FilesInv, TypeOK', NEW v \in Viewer,
         NEW a \in [image : Scene, files : SUBSET File],
         a.image = response[v].image, a.files = files, Query(v, "half", "read", a)
  PROVE  FilesInv'
<1>1. ArgSound'
  BY DEF FilesInv, ArgSound, Query, dbVars, reqVars
<1>2. BytesFirst'
  BY DEF FilesInv, BytesFirst, Query, dbVars, reqVars
<1>3. SceneSound'
  BY DEF FilesInv, TypeOK, ArgSound, BytesFirst, SceneSound, Query, dbVars, reqVars
<1>4. BytesReach'
  <2>1. acked' \subseteq a.files /\ response'[v].files = a.files /\ http[v] = "half"
    BY DEF FilesInv, TypeOK, BytesFirst, Query, reqVars
  <2>2. \A w \in Viewer : w # v =>
           http'[w] = http[w] /\ response'[w] = response[w] /\ inTime'[w] = inTime[w]
    BY DEF FilesInv, TypeOK, Query
  <2>3. http'[v] = "read" /\ (inTime'[v] => ready[v] /\ ws[v] # "off")
    BY DEF FilesInv, TypeOK, Query
  <2> QED
    BY <2>1, <2>2, <2>3 DEF FilesInv, BytesReach, Query, reqVars
<1> QED
  BY <1>1, <1>2, <1>3, <1>4 DEF FilesInv

LEMMA HttpArrivesKeeps ==
  ASSUME Setting, FilesInv, TypeOK', NEW v \in Viewer, HttpArrives(v)
  PROVE  FilesInv'
<1>1. ArgSound'
  BY DEF FilesInv, ArgSound, HttpArrives, dbVars, reqVars
<1>2. BytesFirst'
  BY DEF FilesInv, BytesFirst, HttpArrives, dbVars, reqVars
<1>3. SceneSound'
  BY DEF FilesInv, TypeOK, SceneSound, HttpArrives, dbVars, reqVars
<1>4. BytesReach'
  BY DEF FilesInv, TypeOK, BytesReach, HttpArrives, dbVars, reqVars
<1> QED
  BY <1>1, <1>2, <1>3, <1>4 DEF FilesInv

LEMMA WsJoinKeeps ==
  ASSUME Setting, FilesInv, TypeOK', NEW v \in Viewer, WsJoin(v)
  PROVE  FilesInv'
<1>1. ArgSound'
  BY DEF FilesInv, ArgSound, WsJoin, dbVars, reqVars
<1>2. BytesFirst'
  BY DEF FilesInv, BytesFirst, WsJoin, dbVars, reqVars
<1>3. SceneSound'
  BY DEF FilesInv, SceneSound, WsJoin, dbVars, reqVars
<1>4. BytesReach'
  BY DEF FilesInv, BytesReach, WsJoin, dbVars, reqVars
<1> QED
  BY <1>1, <1>2, <1>3, <1>4 DEF FilesInv

LEMMA WsSnapshotKeeps ==
  ASSUME Setting, FilesInv, TypeOK', NEW v \in Viewer, WsSnapshot(v)
  PROVE  FilesInv'
<1>1. ArgSound'
  BY DEF FilesInv, ArgSound, WsSnapshot, dbVars, reqVars
<1>2. BytesFirst'
  BY DEF FilesInv, BytesFirst, WsSnapshot, dbVars, reqVars
<1>3. SceneSound'
  BY DEF FilesInv, TypeOK, ArgSound, BytesFirst, SceneSound, WsSnapshot, dbVars, reqVars
<1>4. BytesReach'
  BY DEF FilesInv, BytesReach, WsSnapshot, dbVars, reqVars
<1> QED
  BY <1>1, <1>2, <1>3, <1>4 DEF FilesInv

LEMMA ReuploadKeeps ==
  ASSUME Setting, FilesInv, TypeOK', NEW r \in Req, NEW v \in Viewer, NEW e \in Elem,
         Reupload(r, v, e)
  PROVE  FilesInv'
<1>0. scene[v][e] \in File
  BY DEF FilesInv, TypeOK, Reupload
<1>1. ArgSound'
  BY <1>0 DEF FilesInv, TypeOK, ArgSound, Reupload, Go, dbVars, loadVars
<1>2. BytesFirst'
  BY DEF FilesInv, BytesFirst, Reupload, dbVars, loadVars
<1>3. SceneSound'
  <2>1. \A w \in Viewer, x \in Elem : scene'[w][x] \in {scene[w][x], None}
    BY WithoutDrops DEF FilesInv, TypeOK, Reupload
  <2> QED
    BY <2>1 DEF FilesInv, SceneSound, Reupload, dbVars, loadVars
<1>4. BytesReach'
  BY DEF FilesInv, BytesReach, Reupload, dbVars, loadVars
<1> QED
  BY <1>1, <1>2, <1>3, <1>4 DEF FilesInv

\* Every step of a setting without gc and without foreign clients.
LEMMA StepInvariant == ASSUME Setting, FilesInv, [Next]_vars PROVE FilesInv'
<1>0. TypeOK'
  <2>1. FileTypes
    BY DEF FilesInv, FileTypes, TypeOK, ArgSound, ArgTypes
  <2> QED
    BY <2>1, StepTypes DEF FileTypes
<1>1. CASE UNCHANGED vars
  BY <1>1 DEF vars, dbVars, reqVars, viewerVars, loadVars, FilesInv, TypeOK, ArgSound, BytesFirst,
              SceneSound, BytesReach, Present
<1>2. ASSUME NEW r \in Req, Handle(r) PROVE FilesInv'
  BY <1>0, <1>2, UploadBudgetKeeps, UploadPutKeeps, UploadTellKeeps, AddFilesCheckKeeps,
     AddInsertKeeps, TellKeeps DEF Handle
<1>3. ASSUME NEW r \in Req, NEW f \in File, UploadCheck(r, f) PROVE FilesInv'
  BY <1>0, <1>3, UploadCheckKeeps
<1>4. ASSUME NEW r \in Req, NEW e \in Elem, NEW f \in File, AddCheck(r, e, f)
      PROVE  FilesInv'
  BY <1>0, <1>4, AddCheckKeeps
<1>5. ASSUME NEW r \in Req, NEW e \in Elem, NEW f \in File, Patch(r, e, f) PROVE FilesInv'
  BY <1>5 DEF Patch, Setting
<1>6. ASSUME NEW r \in Req, NEW e \in Elem, Delete(r, e) PROVE FilesInv'
  BY <1>0, <1>6, DeleteKeeps
<1>7. CASE Gc
  BY <1>7 DEF Gc, Setting
<1>8. CASE SetStatus
  BY <1>0, <1>8, SetStatusKeeps
<1>9. ASSUME NEW v \in Viewer, HttpRead(v) PROVE FilesInv'
  <2>1. CASE Query(v, "asked", "half", [response[v] EXCEPT !.image = image])
    <3> DEFINE a == [response[v] EXCEPT !.image = image]
    <3>1. a \in [image : Scene, files : SUBSET File] /\ a.image = image
      BY DEF FilesInv, TypeOK
    <3> HIDE DEF a
    <3> QED
      BY <1>0, <2>1, <3>1, ReadElementsKeeps DEF a
  <2>2. CASE Query(v, "half", "read", [response[v] EXCEPT !.files = files])
    <3> DEFINE a == [response[v] EXCEPT !.files = files]
    <3>1. a \in [image : Scene, files : SUBSET File]
          /\ a.image = response[v].image /\ a.files = files
      BY DEF FilesInv, TypeOK
    <3> QED
      BY <1>0, <2>2, <3>1, ReadFilesKeeps
  <2> QED
    BY <1>9, <2>1, <2>2 DEF HttpRead
<1>10. ASSUME NEW v \in Viewer, Load(v) PROVE FilesInv'
  BY <1>0, <1>9, <1>10, EditorReadyKeeps, HttpArrivesKeeps, WsJoinKeeps, WsSnapshotKeeps DEF Load
<1>11. ASSUME NEW r \in Req, NEW v \in Viewer, NEW e \in Elem, Reupload(r, v, e)
       PROVE  FilesInv'
  BY <1>0, <1>11, ReuploadKeeps
<1> QED
  BY <1>1, <1>2, <1>3, <1>4, <1>5, <1>6, <1>7, <1>8, <1>10, <1>11 DEF Next

\* The inductive invariant: what was answered is stored, what is stored or shown
\* was answered, and whoever was in time has it.
THEOREM FilesInvariant == ASSUME Setting PROVE Spec => []FilesInv
<1>1. FilesInv /\ [Next]_vars => FilesInv'
  BY StepInvariant
<1> QED
  BY <1>1, InitInvariant, PTL DEF Spec

\* An image element on the canvas has its bytes on the canvas.
THEOREM NoElementDangles == ASSUME Setting PROVE Spec => []NoDangling
<1>1. FilesInv => NoDangling
  BY DEF FilesInv, BytesFirst, NoDangling, Present
<1> QED
  BY <1>1, FilesInvariant, PTL

\* A snapshot response holds the files of its elements.
THEOREM ResponsesAreComplete == ASSUME Setting PROVE Spec => []SnapshotComplete
<1>1. FilesInv => SnapshotComplete
  BY DEF FilesInv, SceneSound, SnapshotComplete
<1> QED
  BY <1>1, FilesInvariant, PTL

\* A browser that was in time renders every image it is shown.
THEOREM InTimeRenders == ASSUME Setting PROVE Spec => []RendersIfJoinedFirst
<1>1. FilesInv => RendersIfJoinedFirst
  BY DEF FilesInv, SceneSound, BytesReach, RendersIfJoinedFirst, Open, Renders
<1> QED
  BY <1>1, FilesInvariant, PTL
=============================================================================
