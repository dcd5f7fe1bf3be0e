--------------------------- MODULE MCAlertHistory ---------------------------
EXTENDS AlertEpisodes, TLC

CONSTANTS a, b, d, x, y, MaxTime

RunSymmetry == Permutations(Run)

MCTime == 0..MaxTime

F(ts, cx, cy, ok) ==
  [decodes |-> TRUE, full |-> TRUE, persistable |-> ok, timestamp |-> ts,
   alerts |-> (x :> cx) @@ (y :> cy)]

\* Two entities that change, are deleted, vanish and return out of step; a
\* stamped feed among unstamped ones; a feed the transaction rejects.
MCBody == 1..5

MCFeed ==
  <<F(NoTime, a, a, TRUE), F(NoTime, b, Missing, TRUE), F(NoTime, d, b, TRUE),
    F(1, Missing, a, TRUE), F(NoTime, a, a, FALSE)>>

\* Feeds that all carry the same timestamp.
SameBody == 1..2

SameFeed == <<F(1, a, a, TRUE), F(1, Missing, a, TRUE)>>

=============================================================================
