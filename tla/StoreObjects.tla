---------------------------- MODULE StoreObjects ----------------------------
(***************************************************************************)
(* What every model of the archive store speaks of.                        *)
(***************************************************************************)
CONSTANTS
  Call,     \* calls of Put; bounds their number
  Key,      \* object keys
  Data,     \* contents; equal SHA-256 and size iff equal
  NoObject  \* the key has no object

ASSUME ObjectAssumption == NoObject \notin Data

=============================================================================
