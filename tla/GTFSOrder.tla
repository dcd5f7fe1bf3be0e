----------------------------- MODULE GTFSOrder ------------------------------
(***************************************************************************)
(* Downloads of the GTFS archive and the order in which they replace each  *)
(* other (skipGTFSReason in internal/database/gtfs.go).  No variables:     *)
(* GTFSNetwork and GTFSImport both decide with these operators.            *)
(***************************************************************************)
EXTENDS Naturals

CONSTANTS
  Import,     \* ids of gtfs_imports rows; bounds the number of attempts
  Body,       \* archive contents; equal SHA-256 iff equal
  Time,       \* instants
  Download,   \* the responses Fetch can return
  NoTime,     \* no Last-Modified header
  NoNetwork   \* no import is current

ASSUME GTFSTimeAssumption == Time \subseteq Nat /\ NoTime \notin Time

ASSUME DownloadAssumption ==
  Download \subseteq [body : Body, requested_at : Time, retrieved_at : Time,
                      modified_at : Time \cup {NoTime}]

Installation == [import : Import, download : Download]

ASSUME NetworkAssumption == NoNetwork \notin Installation

\* skipGTFSReason with skipCode: why download d does not replace download c.
Superseded(c, d) ==
  IF c.modified_at # NoTime /\ d.modified_at # NoTime
    THEN \/ d.modified_at < c.modified_at
         \/ d.modified_at = c.modified_at /\ d.requested_at < c.requested_at
    ELSE d.requested_at < c.requested_at

\* Mutant: only unchanged content is skipped.
SkipReasonContent(cur, d) ==
  IF cur = NoNetwork THEN "none"
  ELSE IF cur.download.body = d.body THEN "duplicate"
  ELSE "none"

SkipReason(cur, d) ==
  IF cur = NoNetwork THEN "none"
  ELSE IF Superseded(cur.download, d) THEN "stale"
  ELSE IF cur.download.body = d.body THEN "duplicate"
  ELSE "none"

=============================================================================
