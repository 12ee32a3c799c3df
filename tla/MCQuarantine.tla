----------------------------- MODULE MCQuarantine -----------------------------
(***************************************************************************)
(* Instances of Quarantine.  MaxWritten bounds the contents ever written.  *)
(***************************************************************************)
EXTENDS Quarantine

CONSTANT MaxWritten

WriteBound == Cardinality(written) <= MaxWritten
=============================================================================
