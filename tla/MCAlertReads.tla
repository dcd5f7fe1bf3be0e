---------------------------- MODULE MCAlertReads ----------------------------
EXTENDS AlertReads

CONSTANTS a, b, d, x, y, l, MaxTime

RunSymmetry == Permutations(Run)

MCTime == 0..MaxTime

F(ts, cx, cy) ==
  [decodes |-> TRUE, full |-> TRUE, persistable |-> TRUE, timestamp |-> ts,
   alerts |-> (x :> cx) @@ (y :> cy)]

\* Two alerts that turn historical by absence and by a deletion notice, move
\* in the list and return; content b is not of the line and comes later.
MCBody == 1..4

MCFeed ==
  <<F(NoTime, a, a), F(NoTime, d, Missing), F(NoTime, Missing, Missing), F(1, Missing, b)>>

\* An import takes contents a and d from the line and gives it b.
MCNetwork == 1..2

MCImpact ==
  <<(a :> {l}) @@ (b :> {}) @@ (d :> {l}), (a :> {}) @@ (b :> {l}) @@ (d :> {})>>

MCPeriod == (a :> {}) @@ (b :> {<<1, 2>>}) @@ (d :> {})

MCFilter ==
  {[line |-> NoLine, from |-> NoTime, to |-> NoTime], [line |-> l, from |-> 1, to |-> 2]}

=============================================================================
