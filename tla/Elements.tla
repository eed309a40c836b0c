------------------------------ MODULE Elements ------------------------------
(***************************************************************************)
(* The content of one element on its way from a client to its row and back *)
(* (backend/app/elements.py, frontend/src/CanvasView.tsx): agents post a   *)
(* part of an Excalidraw element and the server completes it; browsers     *)
(* hold whole ones, keep fields of their own on them, and send them back   *)
(* after edits.                                                            *)
(*                                                                         *)
(* An element is a function from the fields it has to their values.  Those *)
(* that the code treats alike, whatever Excalidraw makes of them, are      *)
(* members of Style.                                                       *)
(***************************************************************************)
CONSTANTS
  Style,        \* fields with a fixed default, and fields the code does not know
  Needs,        \* those of them that an element of each type must have
  Value,        \* what a client puts into them
  Empty,        \* a false value: "", [], null
  Preset,       \* what the server puts in: a default, a diagonal, an id from the row's
  Partial,      \* elements that agents post
  Whole,        \* elements that browsers draw
  Browser

\* A line or an arrow is "linear"; a "shape" is anything else, images included.
Type     == {"text", "freedraw", "linear", "shape"}
Stroke   == {"freedraw", "linear"}
Special  == {"id", "type", "isDeleted", "locked", "customData", "text", "originalText", "points"}
Stripped == {"locked", "isDeleted", "customData"}

Has(el, f) == f \in DOMAIN el /\ el[f] # Empty

Complete(el) ==
  /\ Has(el, "id") /\ "type" \in DOMAIN el /\ el["type"] \in Type
  /\ Needs[el["type"]] \subseteq DOMAIN el
  /\ el["type"] = "text" => {"text", "originalText"} \subseteq DOMAIN el
  /\ el["type"] \in Stroke => Has(el, "points")

Posted(el) == "type" \in DOMAIN el => el["type"] \in Type \cup {Empty}

ASSUME ElementAssumption ==
  /\ Style \cap Special = {}
  /\ Needs \in [Type -> SUBSET Style]
  /\ Empty \notin Type /\ Preset # Empty
  /\ \A el \in Partial : el = [f \in DOMAIN el |-> el[f]] /\ Posted(el)
  /\ \A el \in Whole : el = [f \in DOMAIN el |-> el[f]] /\ Complete(el)

VARIABLES row,     \* canvas_elements.data, or NoData
          copy,    \* the element as each browser holds it, or NoData
          edited,  \* fields a browser has changed since it got its copy
          \* history
          fresh,   \* nobody has written the row since
          patched  \* an agent has replaced it by a part of an element

elementVars == <<row, copy, edited, fresh, patched>>

NoData == [f \in {} |-> Empty]

-----------------------------------------------------------------------------
(* elements.py *)

SetField(el, f, v) == [g \in DOMAIN el \cup {f} |-> IF g = f THEN v ELSE el[g]]
SetDefault(el, f, v) == IF f \in DOMAIN el THEN el ELSE SetField(el, f, v)
Ensure(el, f, v) == IF Has(el, f) THEN el ELSE SetField(el, f, v)
Fill(el, fs) == [g \in DOMAIN el \cup fs |-> IF g \in DOMAIN el THEN el[g] ELSE Preset]
Bare(el) == [f \in DOMAIN el \ Stripped |-> el[f]]

Typed(kind, data) ==
  Ensure(Ensure(Bare(data), "id", Preset), "type", IF kind = "text" THEN "text" ELSE "freedraw")

Based(kind, data) ==
  LET el == Typed(kind, data) IN SetField(Fill(el, Needs[el["type"]]), "isDeleted", FALSE)

\* Slip: the points of a stroke are only filled in when there is no such field.
NormalizeLax(kind, data) ==
  LET el == Based(kind, data)
  IN  CASE el["type"] = "text" ->
             LET t == SetDefault(el, "text", Empty) IN SetDefault(t, "originalText", t["text"])
        [] el["type"] \in Stroke -> SetDefault(el, "points", Preset)
        [] OTHER -> el

Normalize(kind, data) ==
  LET el == Based(kind, data)
  IN  CASE el["type"] = "text" ->
             LET t == SetDefault(el, "text", Empty) IN SetDefault(t, "originalText", t["text"])
        [] el["type"] \in Stroke -> Ensure(el, "points", Preset)
        [] OTHER -> el

StripForStorage(data) == SetField(Bare(data), "isDeleted", FALSE)

-----------------------------------------------------------------------------
(* CanvasView.tsx *)

\* Slip: the fields are carried over by name.
BackendToExcByName(el, lock) ==
  LET known == DOMAIN el \cap (Special \cup UNION { Needs[t] : t \in Type })
  IN  SetField(SetField(SetField([f \in known |-> el[f]], "isDeleted", FALSE), "locked", lock),
               "customData", Preset)

BackendToExc(el, lock) ==
  SetField(SetField(SetField(el, "isDeleted", FALSE), "locked", lock), "customData", Preset)

ExcToBackend(el) == Bare(el)

-----------------------------------------------------------------------------
(* An agent, or a browser, creates the element. *)

PostPart(kind, data) ==
  /\ row = NoData
  /\ row' = Normalize(kind, data)
  /\ UNCHANGED <<copy, edited, fresh, patched>>

\* The browser that drew it tags it with the id it is told (stampWbid).
PostWhole(b, kind, el) ==
  /\ row = NoData
  /\ row' = Normalize(kind, ExcToBackend(el))
  /\ copy' = [copy EXCEPT ![b] = SetField(el, "customData", Preset)]
  /\ edited' = [edited EXCEPT ![b] = {}]
  /\ fresh' = [fresh EXCEPT ![b] = TRUE]
  /\ UNCHANGED patched

\* A snapshot or an op brings the row.
Shows(b, lock) ==
  /\ row # NoData
  /\ copy' = [copy EXCEPT ![b] = BackendToExc(row, lock)]
  /\ edited' = [edited EXCEPT ![b] = {}]
  /\ fresh' = [fresh EXCEPT ![b] = TRUE]
  /\ UNCHANGED <<row, patched>>

\* The user changes a field; Excalidraw adds fields but takes none away.
Touches(b, f, v) ==
  /\ copy[b] # NoData
  /\ copy' = [copy EXCEPT ![b] = SetField(copy[b], f, v)]
  /\ edited' = [edited EXCEPT ![b] = @ \cup {f}]
  /\ UNCHANGED <<row, fresh, patched>>

\* An update: the whole element replaces what is stored.
Saves(b) ==
  /\ copy[b] # NoData
  /\ row' = StripForStorage(ExcToBackend(copy[b]))
  /\ edited' = [edited EXCEPT ![b] = {}]
  /\ fresh' = [c \in Browser |-> c = b]
  /\ UNCHANGED <<copy, patched>>

\* So does the body of an agent's PATCH, which is not completed.  Bound: once.
Patches(data) ==
  /\ row # NoData /\ ~patched
  /\ row' = StripForStorage(data)
  /\ fresh' = [b \in Browser |-> FALSE]
  /\ patched' = TRUE
  /\ UNCHANGED <<copy, edited>>

-----------------------------------------------------------------------------
ElementInit ==
  /\ row = NoData
  /\ copy = [b \in Browser |-> NoData]
  /\ edited = [b \in Browser |-> {}]
  /\ fresh = [b \in Browser |-> FALSE]
  /\ patched = FALSE

ElementNext ==
  \/ \E kind \in {"text", "mark"} :
       \/ \E data \in Partial : PostPart(kind, data)
       \/ \E b \in Browser, el \in Whole : PostWhole(b, kind, el)
  \/ \E b \in Browser :
       \/ \E lock \in BOOLEAN : Shows(b, lock)
       \/ \E f \in Style, v \in Value : Touches(b, f, v)
       \/ Saves(b)
  \/ \E data \in Partial : Patches(data)

ElementSpec == ElementInit /\ [][ElementNext]_elementVars

-----------------------------------------------------------------------------
\* "Return a complete, renderable Excalidraw element" (elements.py:100) and "one
\* viewer's lock state must never become everyone's" (elements.py:25): the row
\* has nothing that belongs to a viewer and, as long as "updates come from a
\* browser that already holds a complete element" (elements.py:162-163), every field
\* its type needs, whoever wrote it last.
Renderable ==
  row # NoData =>
    /\ ~patched => Complete(row)
    /\ {"locked", "customData"} \cap DOMAIN row = {} /\ row["isDeleted"] = FALSE

\* "Carry the Excalidraw element verbatim" (CanvasView.tsx:54): what a browser
\* would send back agrees with the row in every field it has not touched, fields
\* the server has never heard of included, unless the row was written since; and
\* the id that browsers correlate elements by does not change.
Verbatim ==
  \A b \in Browser : copy[b] # NoData =>
    /\ ~patched => copy[b]["id"] = row["id"]
    /\ fresh[b] =>
         LET back == StripForStorage(ExcToBackend(copy[b]))
         IN  /\ DOMAIN row \subseteq DOMAIN back
             /\ \A f \in DOMAIN back \ edited[b] : f \in DOMAIN row /\ back[f] = row[f]
=============================================================================
