----------------------------- MODULE WriteOnce ------------------------------
(***************************************************************************)
(* A register that is written once.  What get_or_create_client_jwk         *)
(* (backend/app/db.py) promises its callers: there is one key, and whoever *)
(* asks is told that one, for ever.                                        *)
(***************************************************************************)
CONSTANTS Caller,  \* those who ask
          Value,   \* what may be written
          None     \* nothing yet

VARIABLES value,   \* the register
          answer   \* what each caller was last told

vars == <<value, answer>>

Init == value = None /\ answer = [c \in Caller |-> None]

Decide(v) == value = None /\ value' = v /\ UNCHANGED answer

Tell(c) ==
  /\ value # None
  /\ answer' = [answer EXCEPT ![c] = value]
  /\ UNCHANGED value

Next == (\E v \in Value : Decide(v)) \/ (\E c \in Caller : Tell(c))

Spec == Init /\ [][Next]_vars
=============================================================================
