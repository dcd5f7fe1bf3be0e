---------------------------- MODULE MCAlertIngest ---------------------------
EXTENDS AlertIngest, TLC

CONSTANTS a, b, x

\* stage: the step that refuses the feed, if any.
F(ts, c, stage) ==
  [decodes |-> stage # "decode", full |-> stage # "full",
   persistable |-> stage # "persist", timestamp |-> ts, alerts |-> (x :> c)]

\* Two contents under one timestamp, so that retrieval times decide, and a
\* feed without a timestamp that drops the entity.
MCBody == 1..3

MCFeed == <<F(1, a, "ok"), F(1, b, "ok"), F(NoTime, Missing, "ok")>>

SourceSymmetry == Permutations(Source)

\* Two good feeds, and one refused at each stage.
FaultBody == 1..5

FaultFeed ==
  <<F(1, a, "ok"), F(NoTime, Missing, "ok"), F(1, a, "decode"), F(1, a, "full"),
    F(1, a, "persist")>>

=============================================================================
