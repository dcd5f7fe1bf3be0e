---------------------------- MODULE GTFSNetwork -----------------------------
(***************************************************************************)
(* What GTFS ingestion promises about the installed network, with workers, *)
(* transactions and failures left out: an archive replaces the network     *)
(* only as a whole and only when skipGTFSReason finds no reason against    *)
(* it.  GTFSImport implements this module.                                 *)
(***************************************************************************)
EXTENDS GTFSOrder

VARIABLES
  current,    \* the current import, or NoNetwork
  installed   \* every import that was ever current

vars == <<current, installed>>

-----------------------------------------------------------------------------

Init == current = NoNetwork /\ installed = {}

\* CompleteImport commits import i as succeeded and current.
Install(i, d) ==
  /\ \A p \in installed : p.import # i
  /\ SkipReason(current, d) = "none"
  /\ current' = [import |-> i, download |-> d]
  /\ installed' = installed \cup {current'}

Next == \E i \in Import, d \in Download : Install(i, d)

Spec == Init /\ [][Next]_vars

-----------------------------------------------------------------------------

TypeOK ==
  /\ current \in Installation \cup {NoNetwork}
  /\ installed \in SUBSET Installation
  /\ current = NoNetwork <=> installed = {}
  /\ current # NoNetwork => current \in installed

(***************************************************************************)
(* The network never regresses.  While the source always sends             *)
(* Last-Modified, or never does, the current network is the newest ever    *)
(* installed, not merely newer than the one it replaced: skipGTFSReason    *)
(* compares with the current import only, and its order is transitive in   *)
(* these two cases (a mixture can go back, see the README).                *)
(***************************************************************************)
AllStamped == \A p \in installed : p.download.modified_at # NoTime

NoneStamped == \A p \in installed : p.download.modified_at = NoTime

CurrentIsNewest ==
  AllStamped \/ NoneStamped =>
    \A p \in installed : ~ Superseded(p.download, current.download)

=============================================================================
