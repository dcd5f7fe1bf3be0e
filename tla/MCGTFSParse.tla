---- MODULE MCGTFSParse ----
\* The parse, record by record, and the limiter below it, byte by byte.  They
\* share no variable and no property is about both, so each is explored while
\* the other is at its start.
EXTENDS GTFSParse, RecordLimit, TLC

MCInit == ParseInit /\ LimitInit

MCNext ==
  \/ LimitInit /\ ParseNext /\ UNCHANGED limitVars
  \/ ParseInit /\ ReadNext /\ UNCHANGED parseVars

MCSpec == MCInit /\ [][MCNext]_<<parseVars, limitVars>>

Symmetry == Permutations(RouteId) \cup Permutations(StopId) \cup Permutations(TripId)
====
