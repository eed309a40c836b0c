--------------------------- MODULE ElementsProofs ---------------------------
(***************************************************************************)
(* Whoever writes an element, whatever fields it has and whatever values   *)
(* they hold, its row can be rendered and a browser gives back what it was *)
(* given.  The argument is two lemmas about normalize - it completes what  *)
(* is posted, and changes nothing that is complete - and an invariant that *)
(* ties each copy to the row.                                              *)
(***************************************************************************)
EXTENDS Elements, TLAPS

USE DEF Type, Stroke, Special, Stripped

\* A completed element, and what may not be in a row.
Clean(el) ==
  /\ "locked" \notin DOMAIN el /\ "customData" \notin DOMAIN el
  /\ "isDeleted" \in DOMAIN el /\ el["isDeleted"] = FALSE

\* normalize completes whatever an agent posts, and takes what belongs
\* to a viewer off it.
LEMMA NormalizeCompletes ==
  ASSUME NEW kind, NEW data, Posted(data)
  PROVE  Complete(Normalize(kind, data)) /\ Clean(Normalize(kind, data))
  <1> DEFINE el == Typed(kind, data)
             base == Based(kind, data)
  <1>1. /\ Has(el, "id") /\ "type" \in DOMAIN el /\ el["type"] \in Type
        /\ DOMAIN el \cap Stripped = {}
    BY ElementAssumption DEF Typed, Ensure, Has, SetField, Bare, Posted
  <1>2. /\ Has(base, "id") /\ "type" \in DOMAIN base /\ base["type"] \in Type
        /\ Needs[base["type"]] \subseteq DOMAIN base
        /\ Clean(base)
    BY <1>1, ElementAssumption DEF Based, SetField, Fill, Has, Clean
  <1> HIDE DEF el, base
  <1>3. CASE base["type"] = "text"
    BY <1>2, <1>3 DEF Normalize, base, SetDefault, SetField, Has, Complete, Clean
  <1>4. CASE base["type"] \in Stroke
    BY <1>2, <1>4, ElementAssumption DEF Normalize, base, Ensure, SetField, Has, Complete, Clean
  <1>5. CASE base["type"] \notin Stroke \cup {"text"}
    BY <1>2, <1>5 DEF Normalize, base, Has, Complete, Clean
  <1> QED BY <1>3, <1>4, <1>5

\* "If the client already sent a field, we never overwrite it" (elements.py:15):
\* but for a false id, type or list of points.
LEMMA NormalizeKeeps ==
  ASSUME NEW kind, NEW data, Posted(data), NEW f \in DOMAIN data \ Stripped,
         data[f] # Empty \/ f \notin {"id", "type", "points"}
  PROVE  f \in DOMAIN Normalize(kind, data) /\ Normalize(kind, data)[f] = data[f]
  <1> DEFINE base == Based(kind, data)
  <1>1. f \in DOMAIN Typed(kind, data) /\ Typed(kind, data)[f] = data[f]
    BY DEF Typed, Ensure, Has, SetField, Bare
  <1>2. f \in DOMAIN base /\ base[f] = data[f]
    BY <1>1 DEF Based, SetField, Fill
  <1> HIDE DEF base
  <1>3. CASE base["type"] = "text"
    BY <1>2, <1>3 DEF Normalize, base, SetDefault, SetField
  <1>4. CASE base["type"] \in Stroke
    BY <1>2, <1>4 DEF Normalize, base, Ensure, Has, SetField
  <1>5. CASE base["type"] \notin Stroke \cup {"text"}
    BY <1>2, <1>5 DEF Normalize, base
  <1> QED BY <1>3, <1>4, <1>5

\* A complete element is stored as it is, and gains no field but the one that
\* says it is not deleted.
LEMMA NormalizeLeaves ==
  ASSUME NEW kind, NEW data, Complete(data)
  PROVE  LET stored == Normalize(kind, ExcToBackend(data))
         IN  /\ DOMAIN stored = (DOMAIN data \ Stripped) \cup {"isDeleted"}
             /\ \A f \in DOMAIN data \ Stripped : stored[f] = data[f]
  <1> DEFINE bare == ExcToBackend(data)
             base == Based(kind, bare)
  <1>1. /\ DOMAIN bare = DOMAIN data \ Stripped
        /\ \A f \in DOMAIN bare : bare[f] = data[f]
        /\ Complete(bare)
    <2>1. /\ DOMAIN bare = DOMAIN data \ Stripped
          /\ \A f \in DOMAIN bare : bare[f] = data[f]
      BY DEF ExcToBackend, Bare
    <2>2. Needs[data["type"]] \cap Stripped = {}
      BY ElementAssumption DEF Complete
    <2> HIDE DEF bare
    <2> QED BY <2>1, <2>2 DEF Complete, Has
  <1> HIDE DEF bare
  <1>2. /\ DOMAIN Typed(kind, bare) = DOMAIN bare
        /\ \A f \in DOMAIN bare : Typed(kind, bare)[f] = bare[f]
    BY <1>1, ElementAssumption DEF Typed, Ensure, Has, SetField, Bare, Complete
  <1>3. /\ DOMAIN base = DOMAIN bare \cup {"isDeleted"}
        /\ \A f \in DOMAIN bare : base[f] = bare[f]
    BY <1>1, <1>2 DEF Based, SetField, Fill, Complete
  <1> HIDE DEF base
  <1>4. /\ DOMAIN Normalize(kind, bare) = DOMAIN base
        /\ \A f \in DOMAIN base : Normalize(kind, bare)[f] = base[f]
    <2>1. CASE base["type"] = "text"
      BY <1>1, <1>3, <2>1 DEF Normalize, base, SetDefault, SetField, Complete
    <2>2. CASE base["type"] \in Stroke
      BY <1>1, <1>3, <2>2 DEF Normalize, base, Ensure, Has, SetField, Complete
    <2>3. CASE base["type"] \notin Stroke \cup {"text"}
      BY <2>3 DEF Normalize, base
    <2> QED BY <2>1, <2>2, <2>3
  <1> QED BY <1>1, <1>3, <1>4 DEF bare

-----------------------------------------------------------------------------
\* What an update from browser b would store.
Back(b) == StripForStorage(ExcToBackend(copy[b]))

RowSound ==
  row # NoData => Clean(row) /\ (~patched => Complete(row))

\* A copy is of the row, complete like it and with its id; the fields that a
\* browser has not touched are the row's while nobody has written it.
CopySound ==
  \A b \in Browser : copy[b] # NoData =>
    /\ row # NoData
    /\ ~patched => Complete(copy[b]) /\ copy[b]["id"] = row["id"]
    /\ fresh[b] =>
         /\ DOMAIN row \subseteq DOMAIN Back(b)
         /\ \A f \in DOMAIN Back(b) \ edited[b] : f \in DOMAIN row /\ Back(b)[f] = row[f]

ElementTypes ==
  /\ copy = [b \in Browser |-> copy[b]]
  /\ edited = [b \in Browser |-> edited[b]]
  /\ fresh = [b \in Browser |-> fresh[b]]

ElementInv == ElementTypes /\ RowSound /\ CopySound

\* There is no row and no copy to begin with.
LEMMA InitInv == ElementInit => ElementInv
  BY DEF ElementInit, ElementInv, ElementTypes, RowSound, CopySound

\* Nobody has a copy of a row that is not there, so the first post disturbs none.
LEMMA PostPartInv ==
  ASSUME ElementInv, NEW kind, NEW data \in Partial, PostPart(kind, data)
  PROVE  ElementInv'
  <1>1. \A b \in Browser : copy'[b] = NoData
    BY DEF PostPart, ElementInv, CopySound
  <1>2. RowSound'
    BY NormalizeCompletes, ElementAssumption DEF PostPart, RowSound
  <1> QED BY <1>1, <1>2 DEF PostPart, ElementInv, ElementTypes, CopySound

\* The browser that drew the element keeps what it sent, which is what is stored.
LEMMA PostWholeInv ==
  ASSUME ElementInv, NEW kind, NEW b \in Browser, NEW el \in Whole, PostWhole(b, kind, el)
  PROVE  ElementInv'
  <1> DEFINE bare == ExcToBackend(el)
             stored == Normalize(kind, bare)
  <1>1. /\ Complete(el)
        /\ DOMAIN bare = DOMAIN el \ Stripped
        /\ \A f \in DOMAIN bare : bare[f] = el[f]
        /\ Posted(bare)
    BY ElementAssumption DEF ExcToBackend, Bare, Complete, Posted
  <1>2. Complete(stored) /\ Clean(stored)
    BY <1>1, NormalizeCompletes
  <1>3. /\ DOMAIN stored = DOMAIN bare \cup {"isDeleted"}
        /\ \A f \in DOMAIN bare : stored[f] = bare[f]
    BY <1>1, NormalizeLeaves
  <1> HIDE DEF bare, stored
  <1>4. /\ row' = stored
        /\ copy'[b] = SetField(el, "customData", Preset)
        /\ \A c \in Browser \ {b} : copy'[c] = NoData
        /\ ElementTypes'
    BY DEF PostWhole, ElementInv, ElementTypes, CopySound, bare, stored
  <1>5. /\ DOMAIN copy'[b] = DOMAIN el \cup {"customData"}
        /\ \A f \in DOMAIN el \ {"customData"} : copy'[b][f] = el[f]
    BY <1>4 DEF SetField
  <1>6. /\ DOMAIN Back(b)' = DOMAIN stored
        /\ \A f \in DOMAIN stored : Back(b)'[f] = stored[f]
    BY <1>1, <1>2, <1>3, <1>5 DEF Back, StripForStorage, ExcToBackend, Bare, SetField, Clean
  <1>7. Complete(copy[b])' /\ copy'[b]["id"] = stored["id"]
    BY <1>1, <1>3, <1>5, ElementAssumption DEF Complete, Has
  <1>8. row' # NoData
    BY <1>2, <1>4 DEF Clean, NoData
  <1> QED BY <1>2, <1>4, <1>6, <1>7, <1>8 DEF ElementInv, RowSound, CopySound

\* A row has all that a copy of it has.
LEMMA ShowsInv ==
  ASSUME ElementInv, NEW b \in Browser, NEW lock \in BOOLEAN, Shows(b, lock)
  PROVE  ElementInv'
  <1>1. /\ row # NoData /\ Clean(row) /\ UNCHANGED <<row, patched>>
        /\ copy'[b] = BackendToExc(row, lock) /\ ElementTypes'
        /\ \A c \in Browser \ {b} : UNCHANGED <<copy[c], edited[c], fresh[c]>>
    BY DEF Shows, ElementInv, ElementTypes, RowSound
  <1>2. /\ DOMAIN copy'[b] = DOMAIN row \cup Stripped
        /\ \A f \in DOMAIN row \ Stripped : copy'[b][f] = row[f]
    BY <1>1 DEF BackendToExc, SetField, Clean
  <1>3. /\ DOMAIN Back(b)' = DOMAIN row
        /\ \A f \in DOMAIN row : Back(b)'[f] = row[f]
    BY <1>1, <1>2 DEF Back, StripForStorage, ExcToBackend, Bare, SetField, Clean
  <1>4. ~patched => Complete(copy[b])' /\ copy'[b]["id"] = row["id"]
    BY <1>1, <1>2, ElementAssumption DEF ElementInv, RowSound, Complete, Has
  <1>5. \A c \in Browser \ {b} : Back(c)' = Back(c)
    BY <1>1 DEF Back
  <1> QED BY <1>1, <1>3, <1>4, <1>5 DEF ElementInv, RowSound, CopySound

\* What is touched is not compared, and is none of the fields told apart.
LEMMA TouchesInv ==
  ASSUME ElementInv, NEW b \in Browser, NEW f \in Style, NEW v \in Value, Touches(b, f, v)
  PROVE  ElementInv'
  <1>1. /\ copy[b] # NoData /\ UNCHANGED <<row, fresh, patched>>
        /\ copy'[b] = SetField(copy[b], f, v) /\ edited'[b] = edited[b] \cup {f}
        /\ ElementTypes'
        /\ \A c \in Browser \ {b} : UNCHANGED <<copy[c], edited[c]>>
    BY DEF Touches, ElementInv, ElementTypes
  <1>2. f \notin Special
    BY ElementAssumption
  <1>3. /\ DOMAIN copy'[b] = DOMAIN copy[b] \cup {f}
        /\ \A g \in DOMAIN copy[b] \ {f} : copy'[b][g] = copy[b][g]
    BY <1>1 DEF SetField
  <1>4. /\ DOMAIN Back(b)' = DOMAIN Back(b) \cup {f}
        /\ \A g \in DOMAIN Back(b) \ {f} : Back(b)'[g] = Back(b)[g]
    BY <1>2, <1>3 DEF Back, StripForStorage, ExcToBackend, Bare, SetField
  <1>5. ~patched => Complete(copy[b])' /\ copy'[b]["id"] = row["id"]
    BY <1>1, <1>2, <1>3 DEF ElementInv, CopySound, Complete, Has
  <1>6. \A c \in Browser \ {b} : Back(c)' = Back(c)
    BY <1>1 DEF Back
  <1> QED BY <1>1, <1>4, <1>5, <1>6 DEF ElementInv, RowSound, CopySound

\* What is saved is as complete as the copy, and every other copy is outdated.
LEMMA SavesInv ==
  ASSUME ElementInv, NEW b \in Browser, Saves(b)
  PROVE  ElementInv'
  <1>1. /\ copy[b] # NoData /\ UNCHANGED <<copy, patched>>
        /\ row' = Back(b) /\ fresh' = [c \in Browser |-> c = b]
        /\ ElementTypes'
    BY DEF Saves, Back, ElementInv, ElementTypes
  <1>2. /\ DOMAIN Back(b) = (DOMAIN copy[b] \ Stripped) \cup {"isDeleted"}
        /\ \A f \in DOMAIN copy[b] \ Stripped : Back(b)[f] = copy[b][f]
        /\ Clean(Back(b))
    BY DEF Back, StripForStorage, ExcToBackend, Bare, SetField, Clean
  <1>3. ~patched => Complete(Back(b)) /\ Back(b)["id"] = copy[b]["id"]
    <2>1. ~patched => Complete(copy[b])
      BY <1>1 DEF ElementInv, CopySound
    <2> QED BY <1>2, <2>1, ElementAssumption DEF Complete, Has
  <1>4. \A c \in Browser : Back(c)' = Back(c)
    BY <1>1 DEF Back
  <1>5. row' # NoData
    BY <1>1, <1>2 DEF Clean, NoData
  <1> QED BY <1>1, <1>2, <1>3, <1>4, <1>5 DEF ElementInv, RowSound, CopySound

\* What an agent writes is clean, and nothing more is promised from then on.
LEMMA PatchesInv ==
  ASSUME ElementInv, NEW data \in Partial, Patches(data)
  PROVE  ElementInv'
  <1>1. Clean(StripForStorage(data)) /\ StripForStorage(data) # NoData
    BY DEF StripForStorage, Bare, SetField, Clean, NoData
  <1> QED BY <1>1 DEF Patches, ElementInv, ElementTypes, RowSound, CopySound

\* Every step preserves the invariant.
LEMMA NextInv == ElementInv /\ [ElementNext]_elementVars => ElementInv'
  <1> SUFFICES ASSUME ElementInv, [ElementNext]_elementVars PROVE ElementInv'
    OBVIOUS
  <1>1. CASE UNCHANGED elementVars
    BY <1>1 DEF elementVars, ElementInv, ElementTypes, RowSound, CopySound, Back
  <1>2. CASE ElementNext
    BY <1>2, PostPartInv, PostWholeInv, ShowsInv, TouchesInv, SavesInv, PatchesInv DEF ElementNext
  <1> QED BY <1>1, <1>2

-----------------------------------------------------------------------------
\* The invariant holds whoever writes the row, in any order.
THEOREM ElementInvariant == ElementSpec => []ElementInv
  BY InitInv, NextInv, PTL DEF ElementSpec

\* Rows have every field their type needs, and none that is a viewer's own, for
\* any fields, values and clients (elements.py:100, elements.py:25).
THEOREM RowsRender == ElementSpec => []Renderable
  <1>1. ElementInv => Renderable
    BY DEF ElementInv, RowSound, Renderable, Clean
  <1> QED BY <1>1, ElementInvariant, PTL

\* What a browser sends back is what it was given, but for what it has touched
\* (CanvasView.tsx:54).
THEOREM GivenBackVerbatim == ElementSpec => []Verbatim
  <1>1. ElementInv => Verbatim
    BY DEF ElementInv, CopySound, Verbatim, Back
  <1> QED BY <1>1, ElementInvariant, PTL
=============================================================================
