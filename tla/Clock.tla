------------------------------- MODULE Clock --------------------------------
(***************************************************************************)
(* The clock a component reads, in seconds: now() of Postgres or           *)
(* time.monotonic() of the process.                                        *)
(***************************************************************************)
EXTENDS Integers

VARIABLE now

\* Time passes, up to a bound.
Passes(last) == now < last /\ now' = now + 1
=============================================================================
