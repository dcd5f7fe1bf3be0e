-------------------------- MODULE MCIngestionStatus -------------------------
EXTENDS IngestionStatus

\* Fetched a while ago, by a clock that is ahead, and with old data.
MCResponse ==
  {[offset |-> -1, stamp |-> NoTime], [offset |-> 1, stamp |-> NoTime],
   [offset |-> 1, stamp |-> 0]}

MCDataMaxAge == [alerts |-> 2, gtfs |-> 2]

MCCheckMaxAge == [alerts |-> 0, gtfs |-> 2]

MCRunMaxDuration == [alerts |-> 0, gtfs |-> 1]

=============================================================================
