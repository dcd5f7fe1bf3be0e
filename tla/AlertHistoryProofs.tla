------------------------- MODULE AlertHistoryProofs -------------------------
(***************************************************************************)
(* The invariants of AlertHistory hold for every set of runs, sources,     *)
(* entities, contents, instants and bodies.  Part one is about the row     *)
(* operators alone; part two lifts it to the specification.                *)
(***************************************************************************)
EXTENDS AlertHistory, TLAPS, SequenceTheorems

-----------------------------------------------------------------------------
(* Feeds and observations.                                                 *)

\* A body has a decoded feed and an observation time that is an instant.
LEMMA FeedFacts ==
  ASSUME NEW f \in AppliedRun
  PROVE  /\ ObservedAt(f) \in Time
         /\ Listed(f) \in [Entity -> Content \cup {Missing}]
         /\ f.run \in Run
BY TimeAssumption, FeedAssumption DEF AppliedRun, ObservedAt, ObservationTime, Listed, FeedSummary

-----------------------------------------------------------------------------
(* What the row operators do to the revisions.                             *)

\* Replacing the current revision.
LEMMA ReplaceCurrentFacts ==
  ASSUME NEW a \in Alert, a.current \in 1..Len(a.revisions), NEW v \in Revision
  PROVE  /\ ReplaceCurrent(a, v) \in Seq(Revision)
         /\ Len(ReplaceCurrent(a, v)) = Len(a.revisions)
         /\ \A n \in 1..Len(a.revisions) :
              ReplaceCurrent(a, v)[n] = IF n = a.current THEN v ELSE a.revisions[n]
<1>1. a.revisions \in Seq(Revision)
  BY DEF Alert
<1> QED
  BY <1>1, ExceptSeq DEF ReplaceCurrent

\* What an operator does to a revision v, and to a row a, in terms of fields.
SameOpening(v, w) ==
  /\ w.content = v.content /\ w.first_seen_at = v.first_seen_at
  /\ w.opened_run_id = v.opened_run_id

Touched(v, w, t) ==
  /\ SameOpening(v, w) /\ w.last_seen_at = t
  /\ w.closed_at = v.closed_at /\ w.closed_run_id = v.closed_run_id

ClosedAt(v, w, r, t) ==
  /\ SameOpening(v, w) /\ w.last_seen_at = v.last_seen_at
  /\ w.closed_at = t /\ w.closed_run_id = r

Opened(w, c, r, t) ==
  /\ w.content = c /\ w.first_seen_at = t /\ w.last_seen_at = t
  /\ w.closed_at = NoTime /\ w.opened_run_id = r /\ w.closed_run_id = NoRun

\* Row b is row a with its current revision last seen at t by run r.
TouchedRow(a, b, r, t) ==
  /\ b \in Alert /\ b.first_seen_at = a.first_seen_at /\ b.is_present = a.is_present
  /\ b.first_seen_run_id = a.first_seen_run_id
  /\ b.last_seen_at = t /\ b.last_seen_run_id = r /\ b.closed_at = NoTime
  /\ b.current = a.current /\ Len(b.revisions) = Len(a.revisions)
  /\ Touched(a.revisions[a.current], b.revisions[a.current], t)
  /\ \A n \in 1..Len(a.revisions) : n # a.current => b.revisions[n] = a.revisions[n]

\* Row b is row a with its current revision closed at t by run r.
ClosedRow(a, b, r, t) ==
  /\ b \in Alert /\ b.first_seen_at = a.first_seen_at
  /\ b.first_seen_run_id = a.first_seen_run_id
  /\ b.last_seen_at = a.last_seen_at /\ b.last_seen_run_id = a.last_seen_run_id
  /\ b.current = a.current /\ Len(b.revisions) = Len(a.revisions)
  /\ ClosedAt(a.revisions[a.current], b.revisions[a.current], r, t)
  /\ \A n \in 1..Len(a.revisions) : n # a.current => b.revisions[n] = a.revisions[n]

\* Row b is row a with a further revision, current and open, of content c.
ExtendedRow(a, b, c, r, t) ==
  /\ b \in Alert /\ b.first_seen_at = a.first_seen_at /\ b.is_present
  /\ b.first_seen_run_id = a.first_seen_run_id
  /\ b.last_seen_at = t /\ b.last_seen_run_id = r /\ b.closed_at = NoTime
  /\ b.current = Len(a.revisions) + 1 /\ Len(b.revisions) = Len(a.revisions) + 1
  /\ Opened(b.revisions[Len(a.revisions) + 1], c, r, t)
  /\ \A n \in 1..Len(a.revisions) : b.revisions[n] = a.revisions[n]

\* reconcileAlert on an alert present with the same hash.
LEMMA SeenAgainFacts ==
  ASSUME NEW a \in Alert, a.current \in 1..Len(a.revisions),
         NEW r \in Run, NEW t \in Time
  PROVE  TouchedRow(a, SeenAgain(a, r, t), r, t)
<1> DEFINE w == Touch(CurrentRevision(a), t)
           q == ReplaceCurrent(a, w)
<1>1. CurrentRevision(a) \in Revision
  BY ElementOfSeq DEF Alert, CurrentRevision
<1>2. w \in Revision /\ Touched(CurrentRevision(a), w, t)
  BY <1>1 DEF Revision, Touch, Touched, SameOpening
<1>3. /\ q \in Seq(Revision) /\ Len(q) = Len(a.revisions)
      /\ \A n \in 1..Len(a.revisions) : q[n] = IF n = a.current THEN w ELSE a.revisions[n]
  BY <1>2, ReplaceCurrentFacts
<1>4. SeenAgain(a, r, t) =
        [a EXCEPT !.last_seen_at = t, !.last_seen_run_id = r, !.closed_at = NoTime, !.revisions = q]
  BY DEF SeenAgain
<1> DEFINE b == SeenAgain(a, r, t)
<1> HIDE DEF q, w, b
<1>5. b = [a EXCEPT !.last_seen_at = t, !.last_seen_run_id = r, !.closed_at = NoTime,
                    !.revisions = q]
  BY <1>4 DEF b
<1>6. b \in Alert
  BY <1>3, <1>5 DEF Alert
<1>7. /\ b.first_seen_at = a.first_seen_at /\ b.is_present = a.is_present
      /\ b.first_seen_run_id = a.first_seen_run_id
      /\ b.last_seen_at = t /\ b.last_seen_run_id = r /\ b.closed_at = NoTime
      /\ b.current = a.current /\ b.revisions = q
  BY <1>5 DEF Alert
<1>8. Touched(a.revisions[a.current], q[a.current], t)
  BY <1>2, <1>3 DEF CurrentRevision
<1> QED BY <1>3, <1>6, <1>7, <1>8 DEF TouchedRow, b

\* closeMissingAlerts on a present alert.
LEMMA CloseMissingFacts ==
  ASSUME NEW a \in Alert, a.current \in 1..Len(a.revisions), a.is_present,
         NEW r \in Run, NEW t \in Time
  PROVE  LET b == CloseMissingAlert(a, r, t)
         IN  ClosedRow(a, b, r, t) /\ ~ b.is_present /\ b.closed_at = t
<1> DEFINE w == Close(CurrentRevision(a), r, t)
           q == ReplaceCurrent(a, w)
<1>1. CurrentRevision(a) \in Revision
  BY ElementOfSeq DEF Alert, CurrentRevision
<1>2. w \in Revision /\ ClosedAt(CurrentRevision(a), w, r, t)
  BY <1>1 DEF Revision, Close, ClosedAt, SameOpening
<1>3. /\ q \in Seq(Revision) /\ Len(q) = Len(a.revisions)
      /\ \A n \in 1..Len(a.revisions) : q[n] = IF n = a.current THEN w ELSE a.revisions[n]
  BY <1>2, ReplaceCurrentFacts
<1>4. CloseMissingAlert(a, r, t) =
        [[a EXCEPT !.revisions = q] EXCEPT !.is_present = FALSE, !.closed_at = t]
  BY AlertAssumption DEF CloseMissingAlert, CloseRevision
<1> DEFINE b == CloseMissingAlert(a, r, t)
<1> HIDE DEF q, w, b
<1>5. b = [a EXCEPT !.revisions = q, !.is_present = FALSE, !.closed_at = t]
  BY <1>4 DEF b, Alert
<1>6. b \in Alert
  BY <1>3, <1>5 DEF Alert
<1>7. /\ b.first_seen_at = a.first_seen_at /\ b.first_seen_run_id = a.first_seen_run_id
      /\ b.last_seen_at = a.last_seen_at /\ b.last_seen_run_id = a.last_seen_run_id
      /\ b.current = a.current /\ b.revisions = q
      /\ ~ b.is_present /\ b.closed_at = t
  BY <1>5 DEF Alert
<1>8. ClosedAt(a.revisions[a.current], q[a.current], r, t)
  BY <1>2, <1>3 DEF CurrentRevision
<1> QED BY <1>3, <1>6, <1>7, <1>8 DEF ClosedRow, b

\* reconcileAlert on a changed alert: its current revision is closed first.
LEMMA CloseIfOpenFacts ==
  ASSUME NEW a \in Alert, a.current \in 1..Len(a.revisions),
         CurrentRevision(a).closed_at = NoTime, NEW r \in Run, NEW t \in Time
  PROVE  ClosedRow(a, CloseIfOpen(a, r, t), r, t)
<1> DEFINE w == Close(CurrentRevision(a), r, t)
           q == ReplaceCurrent(a, w)
<1>1. CurrentRevision(a) \in Revision
  BY ElementOfSeq DEF Alert, CurrentRevision
<1>2. w \in Revision /\ ClosedAt(CurrentRevision(a), w, r, t)
  BY <1>1 DEF Revision, Close, ClosedAt, SameOpening
<1>3. /\ q \in Seq(Revision) /\ Len(q) = Len(a.revisions)
      /\ \A n \in 1..Len(a.revisions) : q[n] = IF n = a.current THEN w ELSE a.revisions[n]
  BY <1>2, ReplaceCurrentFacts
<1>4. CloseIfOpen(a, r, t) = [a EXCEPT !.revisions = q]
  BY DEF CloseIfOpen, CloseRevision
<1> HIDE DEF q, w
<1> QED
  BY <1>2, <1>3, <1>4 DEF Alert, ClosedRow, CurrentRevision

\* A changed or returning alert gets a new current revision.
LEMMA AddRevisionFacts ==
  ASSUME NEW a \in Alert, NEW c \in Content, NEW r \in Run, NEW t \in Time
  PROVE  ExtendedRow(a, AddRevision(a, c, r, t), c, r, t) /\ Len(a.revisions) \in Nat
<1> DEFINE w == NewRevision(c, r, t)
           q == Append(a.revisions, w)
           k == Len(a.revisions) + 1
<1>1. w \in Revision /\ Opened(w, c, r, t)
  BY DEF Revision, NewRevision, Opened
<1>2. a.revisions \in Seq(Revision)
  BY DEF Alert
<1> HIDE DEF w
<1>3. /\ q \in Seq(Revision) /\ Len(q) = k /\ q[k] = w
      /\ \A n \in 1..Len(a.revisions) : q[n] = a.revisions[n]
  BY <1>1, <1>2, AppendProperties
<1>4. Len(a.revisions) \in Nat /\ k \in Nat
  BY <1>2, LenProperties
<1>5. AddRevision(a, c, r, t) =
        [a EXCEPT !.last_seen_at = t, !.last_seen_run_id = r, !.is_present = TRUE,
                  !.closed_at = NoTime, !.current = k, !.revisions = q]
  BY DEF AddRevision, w
<1> HIDE DEF q, k
<1>6. LET b == AddRevision(a, c, r, t) IN
         /\ b \in Alert /\ b.first_seen_at = a.first_seen_at
         /\ b.first_seen_run_id = a.first_seen_run_id
         /\ b.last_seen_at = t /\ b.last_seen_run_id = r
         /\ b.is_present /\ b.closed_at = NoTime
         /\ b.current = k /\ b.revisions = q
  BY <1>3, <1>4, <1>5 DEF Alert
<1> QED
  BY <1>1, <1>3, <1>4, <1>6 DEF k, ExtendedRow

\* A first sighting creates a present alert with one open revision.
LEMMA NewAlertFacts ==
  ASSUME NEW c \in Content, NEW r \in Run, NEW t \in Time
  PROVE  LET b == NewAlert(c, r, t) IN
         /\ b \in Alert /\ b.is_present /\ b.closed_at = NoTime
         /\ b.first_seen_at = t /\ b.last_seen_at = t /\ b.last_seen_run_id = r
         /\ b.current = 1 /\ Len(b.revisions) = 1
         /\ Opened(b.revisions[1], c, r, t)
<1>1. NewRevision(c, r, t) \in Revision
  BY DEF Revision, NewRevision
<1> QED
  BY <1>1 DEF NewAlert, Alert, Opened, NewRevision

-----------------------------------------------------------------------------
(* Rows stay in order when an observation no older than the others is      *)
(* reconciled with them.                                                   *)

\* The applied runs A, and the run f being applied after them.
Follows(f, A) ==
  /\ A \in SUBSET AppliedRun /\ f \in AppliedRun
  /\ \A g \in A : ObservedAt(g) <= ObservedAt(f)

\* Observation times are naturals, none after that of f.
LEMMA FollowsFacts ==
  ASSUME NEW f, NEW A, Follows(f, A)
  PROVE  /\ \A g \in A \cup {f} : /\ ObservedAt(g) \in Time /\ ObservedAt(g) \in Nat
                                /\ ObservedAt(g) <= ObservedAt(f)
         /\ f.run \in Run
<1>1. \A g \in A \cup {f} : ObservedAt(g) \in Time /\ g.run \in Run
  BY FeedFacts DEF Follows
<1>2. ASSUME NEW g \in A \cup {f}
      PROVE  ObservedAt(g) \in Nat /\ ObservedAt(f) \in Nat
  BY <1>1, TimeAssumption
<1>3. ASSUME NEW g \in A \cup {f} PROVE ObservedAt(g) <= ObservedAt(f)
  <2>1. CASE g = f
    BY <1>2, <2>1
  <2>2. CASE g \in A
    BY <2>2 DEF Follows
  <2> QED BY <2>1, <2>2
<1> QED
  BY <1>1, <1>2, <1>3

\* Every recorded instant of a row comes from an applied observation.
LEMMA RowBounded ==
  ASSUME NEW f, NEW A, Follows(f, A), NEW e \in Entity, NEW a \in Alert, RowOK(A, e, a)
  PROVE  /\ a.current \in 1..Len(a.revisions) /\ a.current = Len(a.revisions)
         /\ Len(a.revisions) \in Nat
         /\ \A n \in 1..Len(a.revisions) :
              /\ a.revisions[n] \in Revision
              /\ a.revisions[n].first_seen_at \in Nat /\ a.revisions[n].last_seen_at \in Nat
              /\ a.revisions[n].last_seen_at <= ObservedAt(f)
              /\ a.revisions[n].first_seen_at <= a.revisions[n].last_seen_at
              /\ a.revisions[n].closed_at # NoTime =>
                   a.revisions[n].closed_at \in Nat /\ a.revisions[n].closed_at <= ObservedAt(f)
<1> DEFINE t == ObservedAt(f)
<1>1. a.revisions \in Seq(Revision) /\ Len(a.revisions) \in Nat
  BY LenProperties DEF Alert
<1>2. a.current \in 1..Len(a.revisions) /\ a.current = Len(a.revisions)
  BY <1>1 DEF RowOK, LifecycleOK, Alert
<1>3. \A g \in A : ObservedAt(g) \in Nat /\ ObservedAt(g) <= t
  BY FollowsFacts
<1> HIDE DEF t
<1>4. ASSUME NEW n \in 1..Len(a.revisions)
      PROVE  /\ a.revisions[n] \in Revision
             /\ a.revisions[n].first_seen_at \in Nat /\ a.revisions[n].last_seen_at \in Nat
             /\ a.revisions[n].first_seen_at <= a.revisions[n].last_seen_at
             /\ a.revisions[n].closed_at # NoTime =>
                  a.revisions[n].closed_at \in Nat /\ a.revisions[n].closed_at <= t
             /\ a.revisions[n].last_seen_at <= t
  <2> DEFINE v == a.revisions[n]
  <2>1. v \in Revision
    BY <1>1, ElementOfSeq
  <2>2. v.first_seen_at \in Nat /\ v.last_seen_at \in Nat
    BY <2>1, TimeAssumption DEF Revision
  <2>3. ASSUME v.closed_at # NoTime PROVE v.closed_at \in Nat /\ v.closed_at <= t
    <3>1. PICK g \in A : ClosedBy(g, e, v)
      BY <2>3 DEF RowOK, RowTraceable
    <3> QED
      BY <3>1, <1>3 DEF ClosedBy
  <2>4. v.first_seen_at <= v.last_seen_at
    BY DEF RowOK, WindowsOK
  <2>5. v.last_seen_at <= t
    <3>1. CASE v.closed_at # NoTime
      <4>1. v.last_seen_at <= v.closed_at
        BY <3>1 DEF RowOK, WindowsOK
      <4> HIDE DEF v
      <4> QED BY <4>1, <3>1, <2>2, <2>3, <1>3, FollowsFacts DEF t
    <3>2. CASE v.closed_at = NoTime
      <4>1. n = a.current
        BY <3>2, <1>1, <1>2 DEF RowOK, LifecycleOK
      <4>2. PICK g \in A : LastSeenBy(g, e, a)
        BY DEF RowOK, RowTraceable
      <4>3. v.last_seen_at = a.last_seen_at
        BY <4>1 DEF RowOK, LifecycleOK, CurrentRevision
      <4> QED BY <4>2, <4>3, <1>3 DEF LastSeenBy
    <3> QED BY <3>1, <3>2
  <2> QED BY <2>1, <2>2, <2>3, <2>4, <2>5
<1> QED
  BY <1>1, <1>2, <1>4 DEF t

\* A sighting of the same content keeps a row right: the observations its
\* current window now covers all listed that content.
LEMMA TouchedRowOK ==
  ASSUME NEW f, NEW A, Follows(f, A), NEW e \in Entity, NEW a \in Alert, RowOK(A, e, a),
         a.is_present, CurrentRevision(a).content = Listed(f)[e],
         NEW b, TouchedRow(a, b, f.run, ObservedAt(f))
  PROVE  RowOK(A \cup {f}, e, b)
<1> DEFINE t == ObservedAt(f)
           B == A \cup {f}
           m == a.current
<1>1. t \in Nat /\ \A g \in B : ObservedAt(g) \in Nat /\ ObservedAt(g) <= t
  BY FollowsFacts
<1>2. /\ m \in 1..Len(a.revisions) /\ m = Len(a.revisions) /\ Len(a.revisions) \in Nat
      /\ \A n \in 1..Len(a.revisions) :
           /\ a.revisions[n].first_seen_at \in Nat /\ a.revisions[n].last_seen_at \in Nat
           /\ a.revisions[n].last_seen_at <= t
           /\ a.revisions[n].first_seen_at <= a.revisions[n].last_seen_at
           /\ a.revisions[n].closed_at # NoTime =>
                a.revisions[n].closed_at \in Nat /\ a.revisions[n].closed_at <= t
  BY RowBounded
<1>3. /\ b \in Alert /\ b.first_seen_at = a.first_seen_at /\ b.is_present = a.is_present
      /\ b.last_seen_at = t /\ b.last_seen_run_id = f.run /\ b.closed_at = NoTime
      /\ b.current = m /\ Len(b.revisions) = Len(a.revisions)
  BY DEF TouchedRow
<1>4. \A n \in 1..Len(a.revisions) :
           /\ SameOpening(a.revisions[n], b.revisions[n])
           /\ b.revisions[n].closed_at = a.revisions[n].closed_at
           /\ b.revisions[n].closed_run_id = a.revisions[n].closed_run_id
           /\ b.revisions[n].last_seen_at = IF n = m THEN t ELSE a.revisions[n].last_seen_at
  BY DEF TouchedRow, Touched, SameOpening
<1>5. a.revisions[m].closed_at = NoTime
  BY DEF RowOK, LifecycleOK, CurrentRevision
<1> HIDE DEF t, m, B
<1>6. LifecycleOK(b)
  BY <1>2, <1>3, <1>4, <1>5 DEF RowOK, LifecycleOK, CurrentRevision, SameOpening
<1>7. WindowsOK(b)
  <2> SUFFICES ASSUME NEW n \in 1..Len(a.revisions)
               PROVE  LET v == b.revisions[n] IN
                        /\ v.first_seen_at <= v.last_seen_at
                        /\ v.closed_at # NoTime => v.last_seen_at <= v.closed_at
                        /\ n < Len(a.revisions) =>
                             v.closed_at <= b.revisions[n + 1].first_seen_at
    BY <1>3 DEF WindowsOK
  <2>1. /\ a.revisions[n].closed_at # NoTime =>
             a.revisions[n].last_seen_at <= a.revisions[n].closed_at
        /\ n < Len(a.revisions) =>
             a.revisions[n].closed_at <= a.revisions[n + 1].first_seen_at
    BY DEF RowOK, WindowsOK
  <2>2. b.revisions[n].first_seen_at <= b.revisions[n].last_seen_at
    BY <1>1, <1>2, <1>4 DEF SameOpening
  <2>3. b.revisions[n].closed_at # NoTime => b.revisions[n].last_seen_at <= b.revisions[n].closed_at
    BY <2>1, <1>4, <1>5
  <2>4. n < Len(a.revisions) => b.revisions[n].closed_at <= b.revisions[n + 1].first_seen_at
    BY <2>1, <1>2, <1>4 DEF SameOpening
  <2> QED BY <2>2, <2>3, <2>4
<1>8. RowTraceable(B, e, b)
  <2>1. ASSUME NEW n \in 1..Len(b.revisions)
        PROVE  /\ \E g \in B : OpenedBy(g, e, b.revisions[n])
               /\ b.revisions[n].closed_at # NoTime => \E g \in B : ClosedBy(g, e, b.revisions[n])
    BY <1>3, <1>4 DEF RowOK, RowTraceable, OpenedBy, ClosedBy, B, SameOpening
  <2>2. LastSeenBy(f, e, b)
    BY <1>2, <1>3, <1>4 DEF LastSeenBy, CurrentRevision, t, m, SameOpening
  <2> QED
    BY <2>1, <2>2 DEF RowTraceable, B
<1>9. OpenReplays(B, e, b)
  BY <1>2, <1>3, <1>4 DEF RowOK, OpenReplays, CurrentRevision, B, m, SameOpening
<1>10. RowReplays(B, e, b)
  <2>1. ASSUME NEW g \in B, Listed(g)[e] # Missing
        PROVE  b # NoAlert /\ Covered(b, Listed(g)[e], ObservedAt(g))
    <3>1. CASE g = f
      BY <3>1, <1>1, <1>2, <1>3, <1>4, AlertAssumption
        DEF Covered, CurrentRevision, t, m, SameOpening
    <3>2. CASE g \in A
      <4>1. PICK n \in 1..Len(a.revisions) :
              /\ a.revisions[n].content = Listed(g)[e]
              /\ a.revisions[n].first_seen_at <= ObservedAt(g)
              /\ ObservedAt(g) <= a.revisions[n].last_seen_at
        BY <2>1, <3>2 DEF RowOK, RowReplays, Covered
      <4>2. ObservedAt(g) <= b.revisions[n].last_seen_at
        BY <4>1, <1>1, <1>4
      <4> QED
        BY <4>1, <4>2, <1>3, <1>4, AlertAssumption DEF Covered, SameOpening
    <3> QED BY <3>1, <3>2 DEF B
  <2>2. ASSUME NEW g \in B, NEW n \in 1..Len(b.revisions),
               b.revisions[n].first_seen_at < ObservedAt(g),
               ObservedAt(g) < b.revisions[n].last_seen_at
        PROVE  Listed(g)[e] = b.revisions[n].content
    <3>1. g \in A
      BY <2>2, <1>1, <1>2, <1>3, <1>4 DEF B, t
    <3>2. CASE n = m
      BY <2>2, <3>1, <3>2, <1>2, <1>4 DEF RowOK, OpenReplays, CurrentRevision, m, SameOpening
    <3>3. CASE n # m
      BY <2>2, <3>1, <3>3, <1>3, <1>4, AlertAssumption DEF RowOK, RowReplays, SameOpening
    <3> QED BY <3>2, <3>3
  <2> QED BY <2>1, <2>2 DEF RowReplays
<1> QED
  BY <1>6, <1>7, <1>8, <1>9, <1>10 DEF RowOK, B

\* A row whose revisions are all closed, f's effect on the current one
\* included: absent rows, and rows between closing and AddRevision.
ReadyRow(A, f, e, a) ==
  /\ Len(a.revisions) \in Nat /\ Len(a.revisions) > 0 /\ a.current = Len(a.revisions)
  /\ a.first_seen_at = a.revisions[1].first_seen_at
  /\ a.last_seen_at = CurrentRevision(a).last_seen_at
  /\ \A n \in 1..Len(a.revisions) :
       /\ a.revisions[n].closed_at # NoTime /\ a.revisions[n].closed_run_id # NoRun
       /\ a.revisions[n].first_seen_at \in Nat /\ a.revisions[n].last_seen_at \in Nat
       /\ a.revisions[n].closed_at \in Nat /\ a.revisions[n].closed_at <= ObservedAt(f)
  /\ WindowsOK(a)
  /\ RowTraceable(A \cup {f}, e, a)
  /\ \A g \in A : Listed(g)[e] # Missing => Covered(a, Listed(g)[e], ObservedAt(g))
  /\ \A g \in A \cup {f} : \A n \in 1..Len(a.revisions) :
       /\ a.revisions[n].first_seen_at < ObservedAt(g)
       /\ ObservedAt(g) < a.revisions[n].last_seen_at
       => Listed(g)[e] = a.revisions[n].content

\* An absent alert has only closed revisions.
LEMMA AbsentIsReady ==
  ASSUME NEW f, NEW A, Follows(f, A), NEW e \in Entity, NEW a \in Alert, RowOK(A, e, a),
         ~ a.is_present
  PROVE  ReadyRow(A, f, e, a)
<1> DEFINE t == ObservedAt(f)
<1>1. t \in Nat /\ \A g \in A \cup {f} : ObservedAt(g) \in Nat /\ ObservedAt(g) <= t
  BY FollowsFacts
<1>2. /\ a.current \in 1..Len(a.revisions) /\ a.current = Len(a.revisions)
      /\ Len(a.revisions) \in Nat
      /\ \A n \in 1..Len(a.revisions) :
           /\ a.revisions[n].first_seen_at \in Nat /\ a.revisions[n].last_seen_at \in Nat
           /\ a.revisions[n].last_seen_at <= t
           /\ a.revisions[n].closed_at # NoTime =>
                a.revisions[n].closed_at \in Nat /\ a.revisions[n].closed_at <= t
  BY RowBounded
<1> HIDE DEF t
<1>3. \A n \in 1..Len(a.revisions) :
        a.revisions[n].closed_at # NoTime /\ a.revisions[n].closed_run_id # NoRun
  BY <1>2 DEF RowOK, LifecycleOK, CurrentRevision
<1>4. RowTraceable(A \cup {f}, e, a)
  BY DEF RowOK, RowTraceable
<1>5. ASSUME NEW g \in A \cup {f}, NEW n \in 1..Len(a.revisions),
             a.revisions[n].first_seen_at < ObservedAt(g),
             ObservedAt(g) < a.revisions[n].last_seen_at
      PROVE  Listed(g)[e] = a.revisions[n].content
  <2>1. g \in A
    BY <1>5, <1>1, <1>2 DEF t
  <2> QED
    BY <2>1, <1>5, AlertAssumption DEF RowOK, RowReplays
<1>6. \A g \in A : Listed(g)[e] # Missing => Covered(a, Listed(g)[e], ObservedAt(g))
  BY DEF RowOK, RowReplays
<1>7. /\ a.first_seen_at = a.revisions[1].first_seen_at
      /\ a.last_seen_at = CurrentRevision(a).last_seen_at /\ WindowsOK(a)
  BY DEF RowOK, LifecycleOK
<1> QED
  BY <1>2, <1>3, <1>4, <1>5, <1>6, <1>7 DEF ReadyRow, t

\* So has a present one whose current revision f closes.
LEMMA ClosedIsReady ==
  ASSUME NEW f, NEW A, Follows(f, A), NEW e \in Entity, NEW a \in Alert, RowOK(A, e, a),
         a.is_present, CurrentRevision(a).content # Listed(f)[e],
         NEW b, ClosedRow(a, b, f.run, ObservedAt(f))
  PROVE  ReadyRow(A, f, e, b)
<1> DEFINE t == ObservedAt(f)
           m == a.current
           B == A \cup {f}
<1>1. /\ t \in Nat /\ t \in Time /\ f.run \in Run
      /\ \A g \in B : ObservedAt(g) \in Nat /\ ObservedAt(g) <= t
  BY FollowsFacts
<1>2. /\ m \in 1..Len(a.revisions) /\ m = Len(a.revisions) /\ Len(a.revisions) \in Nat
      /\ \A n \in 1..Len(a.revisions) :
           /\ a.revisions[n].first_seen_at \in Nat /\ a.revisions[n].last_seen_at \in Nat
           /\ a.revisions[n].last_seen_at <= t
           /\ a.revisions[n].first_seen_at <= a.revisions[n].last_seen_at
           /\ a.revisions[n].closed_at # NoTime =>
                a.revisions[n].closed_at \in Nat /\ a.revisions[n].closed_at <= t
  BY RowBounded
<1>3. /\ b.first_seen_at = a.first_seen_at /\ b.current = m
      /\ b.last_seen_at = a.last_seen_at /\ b.last_seen_run_id = a.last_seen_run_id
      /\ Len(b.revisions) = Len(a.revisions)
  BY DEF ClosedRow
<1>4. \A n \in 1..Len(a.revisions) :
        /\ SameOpening(a.revisions[n], b.revisions[n])
        /\ b.revisions[n].last_seen_at = a.revisions[n].last_seen_at
        /\ b.revisions[n].closed_at = IF n = m THEN t ELSE a.revisions[n].closed_at
        /\ b.revisions[n].closed_run_id = IF n = m THEN f.run ELSE a.revisions[n].closed_run_id
  BY DEF ClosedRow, ClosedAt, SameOpening
<1> HIDE DEF t, m, B
<1>5. \A n \in 1..Len(b.revisions) :
        /\ b.revisions[n].closed_at # NoTime /\ b.revisions[n].closed_run_id # NoRun
        /\ b.revisions[n].first_seen_at \in Nat /\ b.revisions[n].last_seen_at \in Nat
        /\ b.revisions[n].closed_at \in Nat /\ b.revisions[n].closed_at <= t
  <2>1. \A n \in 1..Len(a.revisions) :
          /\ n < Len(a.revisions) => a.revisions[n].closed_at # NoTime
          /\ (a.revisions[n].closed_at = NoTime) <=> (a.revisions[n].closed_run_id = NoRun)
    BY DEF RowOK, LifecycleOK
  <2>2. t # NoTime /\ f.run # NoRun
    BY <1>1, RunAssumption, TimeAssumption
  <2> SUFFICES ASSUME NEW n \in 1..Len(a.revisions)
               PROVE  /\ b.revisions[n].closed_at # NoTime /\ b.revisions[n].closed_run_id # NoRun
                      /\ b.revisions[n].first_seen_at \in Nat
                      /\ b.revisions[n].last_seen_at \in Nat
                      /\ b.revisions[n].closed_at \in Nat /\ b.revisions[n].closed_at <= t
    BY <1>3
  <2>3. b.revisions[n].first_seen_at \in Nat /\ b.revisions[n].last_seen_at \in Nat
    BY <1>2, <1>4 DEF SameOpening
  <2>4. CASE n = m
    BY <1>1, <1>4, <2>2, <2>3, <2>4
  <2>5. CASE n # m
    <3>1. n < Len(a.revisions)
      BY <1>2, <2>5
    <3>2. /\ b.revisions[n].closed_at = a.revisions[n].closed_at
          /\ b.revisions[n].closed_run_id = a.revisions[n].closed_run_id
      BY <1>4, <2>5
    <3> QED BY <1>2, <2>1, <2>3, <3>1, <3>2
  <2> QED BY <2>4, <2>5
<1>6. /\ b.first_seen_at = b.revisions[1].first_seen_at
      /\ b.last_seen_at = CurrentRevision(b).last_seen_at
  BY <1>2, <1>3, <1>4 DEF RowOK, LifecycleOK, CurrentRevision, SameOpening, m
<1>7. WindowsOK(b)
  <2> SUFFICES ASSUME NEW n \in 1..Len(a.revisions)
               PROVE  LET v == b.revisions[n] IN
                        /\ v.first_seen_at <= v.last_seen_at
                        /\ v.closed_at # NoTime => v.last_seen_at <= v.closed_at
                        /\ n < Len(a.revisions) =>
                             v.closed_at <= b.revisions[n + 1].first_seen_at
    BY <1>3 DEF WindowsOK
  <2>1. /\ a.revisions[n].closed_at # NoTime =>
             a.revisions[n].last_seen_at <= a.revisions[n].closed_at
        /\ n < Len(a.revisions) =>
             /\ a.revisions[n].closed_at <= a.revisions[n + 1].first_seen_at
             /\ a.revisions[n].closed_at # NoTime
    BY DEF RowOK, WindowsOK, LifecycleOK
  <2>2. b.revisions[n].first_seen_at <= b.revisions[n].last_seen_at
    BY <1>2, <1>4 DEF SameOpening
  <2>3. b.revisions[n].last_seen_at <= b.revisions[n].closed_at
    BY <2>1, <1>2, <1>4
  <2>4. n < Len(a.revisions) => b.revisions[n].closed_at <= b.revisions[n + 1].first_seen_at
    BY <2>1, <1>2, <1>4 DEF SameOpening
  <2> QED BY <2>2, <2>3, <2>4
<1>8. RowTraceable(B, e, b)
  <2>1. ASSUME NEW n \in 1..Len(b.revisions)
        PROVE  \E g \in B : OpenedBy(g, e, b.revisions[n])
    BY <1>3, <1>4 DEF RowOK, RowTraceable, OpenedBy, B, SameOpening
  <2>2. ASSUME NEW n \in 1..Len(b.revisions)
        PROVE  \E g \in B : ClosedBy(g, e, b.revisions[n])
    <3>1. CASE n = m
      BY <3>1, <1>2, <1>3, <1>4 DEF ClosedBy, CurrentRevision, B, t, m, SameOpening
    <3>2. CASE n # m
      <4>1. a.revisions[n].closed_at # NoTime
        BY <3>2, <1>2, <1>3 DEF RowOK, LifecycleOK
      <4> QED
        BY <3>2, <4>1, <1>3, <1>4 DEF RowOK, RowTraceable, ClosedBy, B, SameOpening
    <3> QED BY <3>1, <3>2
  <2>3. \E g \in B : LastSeenBy(g, e, b)
    BY <1>2, <1>3, <1>4 DEF RowOK, RowTraceable, LastSeenBy, CurrentRevision, B, m, SameOpening
  <2> QED
    BY <2>1, <2>2, <2>3 DEF RowTraceable
<1>9. ASSUME NEW g \in A, Listed(g)[e] # Missing
      PROVE  Covered(b, Listed(g)[e], ObservedAt(g))
  BY <1>9, <1>3, <1>4 DEF RowOK, RowReplays, Covered, SameOpening
<1>10. ASSUME NEW g \in B, NEW n \in 1..Len(b.revisions),
              b.revisions[n].first_seen_at < ObservedAt(g),
              ObservedAt(g) < b.revisions[n].last_seen_at
       PROVE  Listed(g)[e] = b.revisions[n].content
  <2>1. g \in A
    BY <1>10, <1>1, <1>2, <1>3, <1>4 DEF B, t
  <2> QED
    BY <2>1, <1>10, <1>3, <1>4, AlertAssumption DEF RowOK, RowReplays, SameOpening
<1> QED
  BY <1>2, <1>3, <1>5, <1>6, <1>7, <1>8, <1>9, <1>10 DEF ReadyRow, t, B

\* An absent row stays right when the feed does not list the entity.
LEMMA ReadyAbsentOK ==
  ASSUME NEW f, NEW A, Follows(f, A), NEW e \in Entity, NEW b \in Alert, ReadyRow(A, f, e, b),
         ~ b.is_present, b.closed_at = CurrentRevision(b).closed_at, Listed(f)[e] = Missing
  PROVE  RowOK(A \cup {f}, e, b)
<1> DEFINE B == A \cup {f}
<1>1. /\ Len(b.revisions) \in Nat /\ Len(b.revisions) > 0 /\ b.current = Len(b.revisions)
      /\ b.first_seen_at = b.revisions[1].first_seen_at
      /\ b.last_seen_at = CurrentRevision(b).last_seen_at
      /\ \A n \in 1..Len(b.revisions) :
           b.revisions[n].closed_at # NoTime /\ b.revisions[n].closed_run_id # NoRun
  BY DEF ReadyRow
<1>2. LifecycleOK(b)
  BY <1>1 DEF LifecycleOK, CurrentRevision
<1>3. WindowsOK(b) /\ RowTraceable(B, e, b)
  BY DEF ReadyRow
<1>4. OpenReplays(B, e, b)
  BY DEF OpenReplays
<1>5. RowReplays(B, e, b)
  <2>1. ASSUME NEW g \in B, Listed(g)[e] # Missing
        PROVE  b # NoAlert /\ Covered(b, Listed(g)[e], ObservedAt(g))
    BY <2>1, AlertAssumption DEF ReadyRow
  <2>2. ASSUME NEW g \in B, NEW n \in 1..Len(b.revisions),
               b.revisions[n].first_seen_at < ObservedAt(g),
               ObservedAt(g) < b.revisions[n].last_seen_at
        PROVE  Listed(g)[e] = b.revisions[n].content
    BY <2>2 DEF ReadyRow
  <2> QED BY <2>1, <2>2 DEF RowReplays
<1> QED
  BY <1>2, <1>3, <1>4, <1>5 DEF RowOK

\* A new open revision after closed ones: the alert changed or returned.
LEMMA ExtendReadyOK ==
  ASSUME NEW f, NEW A, Follows(f, A), NEW e \in Entity, NEW a \in Alert, ReadyRow(A, f, e, a),
         Listed(f)[e] \in Content,
         NEW b, ExtendedRow(a, b, Listed(f)[e], f.run, ObservedAt(f))
  PROVE  RowOK(A \cup {f}, e, b)
<1> DEFINE t == ObservedAt(f)
           c == Listed(f)[e]
           B == A \cup {f}
           k == Len(a.revisions) + 1
<1>1. t \in Nat /\ \A g \in B : ObservedAt(g) \in Nat /\ ObservedAt(g) <= t
  BY FollowsFacts
<1>2. /\ Len(a.revisions) \in Nat /\ Len(a.revisions) > 0 /\ a.current = Len(a.revisions)
      /\ a.first_seen_at = a.revisions[1].first_seen_at
      /\ \A n \in 1..Len(a.revisions) :
           /\ a.revisions[n].closed_at # NoTime /\ a.revisions[n].closed_run_id # NoRun
           /\ a.revisions[n].first_seen_at \in Nat /\ a.revisions[n].last_seen_at \in Nat
           /\ a.revisions[n].closed_at \in Nat /\ a.revisions[n].closed_at <= t
  BY DEF ReadyRow
<1>3. /\ b \in Alert /\ b.first_seen_at = a.first_seen_at /\ b.is_present
      /\ b.last_seen_at = t /\ b.last_seen_run_id = f.run /\ b.closed_at = NoTime
      /\ b.current = k /\ Len(b.revisions) = k
      /\ \A n \in 1..Len(a.revisions) : b.revisions[n] = a.revisions[n]
  BY DEF ExtendedRow
<1>4. /\ b.revisions[k].content = c /\ b.revisions[k].first_seen_at = t
      /\ b.revisions[k].last_seen_at = t /\ b.revisions[k].closed_at = NoTime
      /\ b.revisions[k].opened_run_id = f.run /\ b.revisions[k].closed_run_id = NoRun
  BY DEF ExtendedRow, Opened
<1>5. /\ k \in 1..Len(b.revisions)
      /\ \A n \in 1..Len(b.revisions) : n = k \/ n \in 1..Len(a.revisions)
  BY <1>2, <1>3
<1>6. k # 1 /\ 1 \in 1..Len(a.revisions) /\ \A n \in 1..Len(a.revisions) : n < k /\ n # k
  BY <1>2
<1> HIDE DEF t, c, B, k
<1>7. LifecycleOK(b)
  <2>1. /\ b.current = Len(b.revisions) /\ b.current > 0
        /\ b.is_present <=> b.closed_at = NoTime
        /\ b.closed_at = CurrentRevision(b).closed_at
        /\ b.last_seen_at = CurrentRevision(b).last_seen_at
        /\ b.first_seen_at = b.revisions[1].first_seen_at
    BY <1>2, <1>3, <1>4, <1>5, <1>6 DEF CurrentRevision
  <2>2. ASSUME NEW n \in 1..Len(b.revisions)
        PROVE  /\ n < Len(b.revisions) => b.revisions[n].closed_at # NoTime
               /\ (b.revisions[n].closed_at = NoTime) <=> (b.revisions[n].closed_run_id = NoRun)
    <3>1. CASE n = k
      <4>1. ~ (k < Len(b.revisions))
        BY <1>2, <1>3 DEF k
      <4> QED BY <1>4, <3>1, <4>1
    <3>2. CASE n \in 1..Len(a.revisions)
      <4>1. b.revisions[n] = a.revisions[n]
        BY <1>3, <3>2
      <4> QED BY <1>2, <3>2, <4>1
    <3> QED BY <1>5, <3>1, <3>2
  <2> QED BY <2>1, <2>2 DEF LifecycleOK
<1>8. WindowsOK(b)
  <2> SUFFICES ASSUME NEW n \in 1..Len(b.revisions)
               PROVE  LET v == b.revisions[n] IN
                        /\ v.first_seen_at <= v.last_seen_at
                        /\ v.closed_at # NoTime => v.last_seen_at <= v.closed_at
                        /\ n < Len(b.revisions) =>
                             v.closed_at <= b.revisions[n + 1].first_seen_at
    BY DEF WindowsOK
  <2>1. CASE n = k
    BY <2>1, <1>1, <1>3, <1>4, <1>5
  <2>2. CASE n \in 1..Len(a.revisions)
    <3>1. /\ a.revisions[n].first_seen_at <= a.revisions[n].last_seen_at
          /\ a.revisions[n].last_seen_at <= a.revisions[n].closed_at
          /\ n < Len(a.revisions) =>
               a.revisions[n].closed_at <= a.revisions[n + 1].first_seen_at
      BY <2>2, <1>2 DEF ReadyRow, WindowsOK
    <3>2. b.revisions[n].closed_at <= b.revisions[n + 1].first_seen_at
      <4>1. CASE n + 1 = k
        BY <4>1, <2>2, <1>2, <1>3, <1>4
      <4>2. CASE n + 1 # k
        <5>1. n < Len(a.revisions) /\ n + 1 \in 1..Len(a.revisions)
          BY <4>2, <2>2, <1>2 DEF k
        <5> QED BY <5>1, <3>1, <2>2, <1>3
      <4> QED BY <4>1, <4>2
    <3> QED BY <3>1, <3>2, <2>2, <1>3
  <2> QED BY <2>1, <2>2, <1>5
<1>9. RowTraceable(B, e, b)
  <2>1. ASSUME NEW n \in 1..Len(b.revisions)
        PROVE  /\ \E g \in B : OpenedBy(g, e, b.revisions[n])
               /\ b.revisions[n].closed_at # NoTime => \E g \in B : ClosedBy(g, e, b.revisions[n])
    <3>1. CASE n = k
      <4>1. OpenedBy(f, e, b.revisions[n])
        BY <3>1, <1>4 DEF OpenedBy, t, c
      <4> QED BY <4>1, <3>1, <1>4 DEF B
    <3>2. CASE n \in 1..Len(a.revisions)
      BY <3>2, <1>3 DEF ReadyRow, RowTraceable, B
    <3> QED BY <3>1, <3>2, <1>5
  <2>2. LastSeenBy(f, e, b)
    BY <1>3, <1>4 DEF LastSeenBy, CurrentRevision, t, c
  <2> QED BY <2>1, <2>2 DEF RowTraceable, B
<1>10. OpenReplays(B, e, b)
  BY <1>1, <1>3, <1>4 DEF OpenReplays, CurrentRevision
<1>11. RowReplays(B, e, b)
  <2>1. ASSUME NEW g \in B, Listed(g)[e] # Missing
        PROVE  b # NoAlert /\ Covered(b, Listed(g)[e], ObservedAt(g))
    <3>1. CASE g = f
      BY <3>1, <1>1, <1>3, <1>4, <1>5, AlertAssumption DEF Covered, t, c
    <3>2. CASE g \in A
      <4>1. Covered(a, Listed(g)[e], ObservedAt(g))
        BY <2>1, <3>2 DEF ReadyRow
      <4>2. \A n \in 1..Len(a.revisions) : n \in 1..Len(b.revisions)
        BY <1>2, <1>3 DEF k
      <4> QED BY <4>1, <4>2, <1>3, AlertAssumption DEF Covered
    <3> QED BY <3>1, <3>2 DEF B
  <2>2. ASSUME NEW g \in B, NEW n \in 1..Len(b.revisions),
               b.revisions[n].first_seen_at < ObservedAt(g),
               ObservedAt(g) < b.revisions[n].last_seen_at
        PROVE  Listed(g)[e] = b.revisions[n].content
    <3>1. CASE n = k
      BY <3>1, <2>2, <1>1, <1>4
    <3>2. CASE n \in 1..Len(a.revisions)
      BY <3>2, <2>2, <1>3 DEF ReadyRow, B
    <3> QED BY <3>1, <3>2, <1>5
  <2> QED BY <2>1, <2>2 DEF RowReplays
<1> QED
  BY <1>7, <1>8, <1>9, <1>10, <1>11 DEF RowOK, B

\* The first sighting of an entity no earlier feed listed.
LEMMA NewAlertOK ==
  ASSUME NEW f, NEW A, Follows(f, A), NEW e \in Entity, NeverListed(A, e),
         Listed(f)[e] \in Content
  PROVE  RowOK(A \cup {f}, e, NewAlert(Listed(f)[e], f.run, ObservedAt(f)))
<1> DEFINE t == ObservedAt(f)
           c == Listed(f)[e]
           B == A \cup {f}
           b == NewAlert(c, f.run, t)
<1>1. /\ t \in Nat /\ t \in Time /\ f.run \in Run
      /\ \A g \in B : ObservedAt(g) \in Nat /\ ObservedAt(g) <= t
  BY FollowsFacts
<1>2. /\ b \in Alert /\ b.is_present /\ b.closed_at = NoTime
      /\ b.first_seen_at = t /\ b.last_seen_at = t /\ b.last_seen_run_id = f.run
      /\ b.current = 1 /\ Len(b.revisions) = 1
      /\ Opened(b.revisions[1], c, f.run, t)
  BY <1>1, NewAlertFacts
<1> HIDE DEF t, c, B, b
<1>3. \A n \in 1..Len(b.revisions) : n = 1
  BY <1>2
<1>4. LifecycleOK(b) /\ WindowsOK(b)
  BY <1>1, <1>2, <1>3 DEF LifecycleOK, WindowsOK, CurrentRevision, Opened
<1>5. OpenedBy(f, e, b.revisions[1]) /\ LastSeenBy(f, e, b)
  BY <1>2 DEF OpenedBy, LastSeenBy, CurrentRevision, Opened, t, c
<1>6. RowTraceable(B, e, b)
  BY <1>2, <1>3, <1>5 DEF RowTraceable, Opened, B
<1>7. OpenReplays(B, e, b)
  BY <1>1, <1>2 DEF OpenReplays, CurrentRevision, Opened
<1>8. RowReplays(B, e, b)
  <2>1. ASSUME NEW g \in B, Listed(g)[e] # Missing
        PROVE  b # NoAlert /\ Covered(b, Listed(g)[e], ObservedAt(g))
    <3>1. g = f
      BY <2>1 DEF NeverListed, B
    <3>2. 1 \in 1..Len(b.revisions)
      BY <1>2
    <3> QED BY <3>1, <3>2, <1>1, <1>2, AlertAssumption DEF Covered, Opened, t, c
  <2>2. ASSUME NEW g \in B, NEW n \in 1..Len(b.revisions),
               b.revisions[n].first_seen_at < ObservedAt(g),
               ObservedAt(g) < b.revisions[n].last_seen_at
        PROVE  Listed(g)[e] = b.revisions[n].content
    BY <2>2, <1>1, <1>2, <1>3 DEF Opened
  <2> QED BY <2>1, <2>2 DEF RowReplays
<1> QED
  BY <1>4, <1>6, <1>7, <1>8 DEF RowOK, B, b, c, t

-----------------------------------------------------------------------------
(* One entity through ReconcileFeed.                                       *)

\* The row after the feed, and what the feed says of the entity.
Reconciled(a, f, e) ==
  IF Listed(f)[e] = Missing
    THEN CloseMissingAlert(a, f.run, ObservedAt(f))
    ELSE ReconcileAlert(a, Listed(f)[e], f.run, ObservedAt(f))

ShownBy(b) == IF b # NoAlert /\ b.is_present THEN CurrentRevision(b).content ELSE Missing

EntityStep(A, a, f, e, b) ==
  /\ b \in Alert \cup {NoAlert}
  /\ EntityOK(A \cup {f}, e, b)
  /\ ShownBy(b) = Listed(f)[e]
  /\ a # NoAlert => b # NoAlert /\ AppendOnly(a, b)

\* closeMissingAlerts: the feed does not list the entity.
LEMMA MissingStep ==
  ASSUME NEW f, NEW A, Follows(f, A), NEW e \in Entity, NEW a \in Alert \cup {NoAlert},
         EntityOK(A, e, a), Listed(f)[e] = Missing
  PROVE  EntityStep(A, a, f, e, CloseMissingAlert(a, f.run, ObservedAt(f)))
<1> DEFINE r == f.run
           t == ObservedAt(f)
           b == CloseMissingAlert(a, r, t)
<1>0. t \in Time /\ r \in Run
  BY FollowsFacts
<1>1. CASE a = NoAlert
  <2>1. b = NoAlert
    BY <1>1 DEF CloseMissingAlert
  <2>2. NeverListed(A \cup {f}, e)
    BY <1>1 DEF EntityOK, NeverListed
  <2> HIDE DEF b
  <2> QED BY <1>1, <2>1, <2>2 DEF EntityStep, EntityOK, ShownBy, b
<1>2. CASE a # NoAlert /\ ~ a.is_present
  <2>1. b = a /\ a \in Alert
    BY <1>2 DEF CloseMissingAlert
  <2>2. RowOK(A, e, a)
    BY <1>2 DEF EntityOK
  <2>3. ReadyRow(A, f, e, a)
    BY <1>2, <2>1, <2>2, AbsentIsReady
  <2>4. RowOK(A \cup {f}, e, a)
    BY <1>2, <2>1, <2>2, <2>3, ReadyAbsentOK DEF RowOK, LifecycleOK
  <2>5. AppendOnly(a, a)
    BY <2>1, LenProperties DEF AppendOnly, Alert
  <2> QED BY <1>2, <2>1, <2>4, <2>5 DEF EntityStep, EntityOK, ShownBy
<1>3. CASE a # NoAlert /\ a.is_present
  <2>1. a \in Alert /\ RowOK(A, e, a)
    BY <1>3 DEF EntityOK
  <2>2. /\ a.current \in 1..Len(a.revisions) /\ Len(a.revisions) \in Nat
        /\ CurrentRevision(a) \in Revision
        /\ a.current = Len(a.revisions)
    BY <2>1, RowBounded DEF CurrentRevision
  <2>3. ClosedRow(a, b, r, t) /\ ~ b.is_present /\ b.closed_at = t
    BY <1>0, <1>3, <2>1, <2>2, CloseMissingFacts
  <2> HIDE DEF b
  <2>4. CurrentRevision(a).content # Listed(f)[e]
    BY <2>2, FeedAssumption DEF Revision
  <2>5. ReadyRow(A, f, e, b)
    BY <1>3, <2>1, <2>3, <2>4, ClosedIsReady
  <2>6. b \in Alert /\ b.closed_at = CurrentRevision(b).closed_at
    BY <2>2, <2>3 DEF ClosedRow, ClosedAt, CurrentRevision
  <2>7. RowOK(A \cup {f}, e, b)
    BY <2>3, <2>5, <2>6, ReadyAbsentOK
  <2>8. CurrentRevision(a).closed_at = NoTime
    BY <1>3, <2>1 DEF RowOK, LifecycleOK
  <2>9. AppendOnly(a, b)
    BY <2>2, <2>3, <2>8 DEF AppendOnly, ClosedRow, ClosedAt, SameOpening, CurrentRevision
  <2> QED BY <2>3, <2>6, <2>7, <2>9, AlertAssumption DEF EntityStep, EntityOK, ShownBy, b
<1> QED BY <1>1, <1>2, <1>3

\* A new current revision after closed ones is a right step.
LEMMA ExtendStep ==
  ASSUME NEW f, NEW A, Follows(f, A), NEW e \in Entity, NEW a \in Alert, ReadyRow(A, f, e, a),
         Listed(f)[e] \in Content
  PROVE  LET b == AddRevision(a, Listed(f)[e], f.run, ObservedAt(f)) IN
         /\ b \in Alert /\ b.is_present /\ RowOK(A \cup {f}, e, b)
         /\ CurrentRevision(b).content = Listed(f)[e]
         /\ AppendOnly(a, b)
<1> DEFINE b == AddRevision(a, Listed(f)[e], f.run, ObservedAt(f))
<1>1. ExtendedRow(a, b, Listed(f)[e], f.run, ObservedAt(f)) /\ Len(a.revisions) \in Nat
  BY FollowsFacts, AddRevisionFacts
<1> HIDE DEF b
<1>2. RowOK(A \cup {f}, e, b)
  BY <1>1, ExtendReadyOK
<1>3. b \in Alert /\ b.is_present /\ CurrentRevision(b).content = Listed(f)[e]
  BY <1>1 DEF ExtendedRow, Opened, CurrentRevision
<1>4. AppendOnly(a, b)
  BY <1>1 DEF ExtendedRow, AppendOnly
<1> QED BY <1>2, <1>3, <1>4 DEF b

\* reconcileAlert: the feed lists the entity.
LEMMA ListedStep ==
  ASSUME NEW f, NEW A, Follows(f, A), NEW e \in Entity, NEW a \in Alert \cup {NoAlert},
         EntityOK(A, e, a), Listed(f)[e] # Missing
  PROVE  EntityStep(A, a, f, e, ReconcileAlert(a, Listed(f)[e], f.run, ObservedAt(f)))
<1> DEFINE r == f.run
           t == ObservedAt(f)
           c == Listed(f)[e]
           b == ReconcileAlert(a, c, r, t)
<1>0. t \in Time /\ r \in Run /\ c \in Content
  BY FollowsFacts, FeedFacts DEF Follows
<1> HIDE DEF r, t, c
<1>1. CASE a = NoAlert
  <2>1. b = NewAlert(c, r, t)
    BY <1>1 DEF ReconcileAlert
  <2>2. RowOK(A \cup {f}, e, b)
    BY <1>0, <1>1, <2>1, NewAlertOK DEF EntityOK, r, t, c
  <2>3. b \in Alert /\ b.is_present /\ CurrentRevision(b).content = c
    BY <1>0, <2>1, NewAlertFacts DEF CurrentRevision, Opened
  <2> HIDE DEF b
  <2> QED BY <1>1, <2>2, <2>3, AlertAssumption DEF EntityStep, EntityOK, ShownBy, b, r, t, c
<1>2. ASSUME a # NoAlert
      PROVE  EntityStep(A, a, f, e, b)
  <2>1. a \in Alert /\ RowOK(A, e, a)
    BY <1>2 DEF EntityOK
  <2>2. /\ a.current \in 1..Len(a.revisions) /\ Len(a.revisions) \in Nat
        /\ a.current = Len(a.revisions)
    BY <2>1, RowBounded
  <2>3. CASE a.is_present /\ CurrentRevision(a).content = c
    <3>1. b = SeenAgain(a, r, t)
      BY <1>2, <2>3 DEF ReconcileAlert
    <3>2. TouchedRow(a, b, r, t)
      BY <1>0, <2>1, <2>2, <3>1, SeenAgainFacts
    <3> HIDE DEF b
    <3>3. RowOK(A \cup {f}, e, b)
      BY <2>1, <2>3, <3>2, TouchedRowOK DEF r, t, c
    <3>4. b \in Alert /\ b.is_present /\ CurrentRevision(b).content = c
      BY <2>3, <3>2 DEF TouchedRow, Touched, SameOpening, CurrentRevision
    <3>5. CurrentRevision(a).closed_at = NoTime
      BY <2>1, <2>3 DEF RowOK, LifecycleOK
    <3>6. AppendOnly(a, b)
      BY <2>2, <3>2, <3>5 DEF AppendOnly, TouchedRow, Touched, SameOpening, CurrentRevision
    <3> QED BY <3>3, <3>4, <3>6, AlertAssumption DEF EntityStep, EntityOK, ShownBy, c
  <2>4. CASE a.is_present /\ CurrentRevision(a).content # c
    <3> DEFINE d == CloseIfOpen(a, r, t)
    <3>1. b = AddRevision(d, c, r, t)
      BY <1>2, <2>4 DEF ReconcileAlert
    <3>2. CurrentRevision(a).closed_at = NoTime
      BY <2>1, <2>4 DEF RowOK, LifecycleOK
    <3>3. ClosedRow(a, d, r, t)
      BY <1>0, <2>1, <2>2, <3>2, CloseIfOpenFacts
    <3> HIDE DEF d, b
    <3>4. ReadyRow(A, f, e, d)
      BY <2>1, <2>4, <3>3, ClosedIsReady DEF r, t, c
    <3>5. d \in Alert
      BY <3>3 DEF ClosedRow
    <3>6. /\ b \in Alert /\ b.is_present /\ RowOK(A \cup {f}, e, b)
          /\ CurrentRevision(b).content = c /\ AppendOnly(d, b)
      BY <1>0, <3>1, <3>4, <3>5, ExtendStep DEF r, t, c
    <3>7. AppendOnly(a, b)
      <4>1. /\ b.first_seen_at = a.first_seen_at /\ b.first_seen_run_id = a.first_seen_run_id
            /\ Len(b.revisions) >= Len(a.revisions)
        BY <3>3, <3>6 DEF AppendOnly, ClosedRow
      <4>2. ASSUME NEW n \in 1..Len(a.revisions)
            PROVE  /\ b.revisions[n].content = a.revisions[n].content
                   /\ b.revisions[n].first_seen_at = a.revisions[n].first_seen_at
                   /\ a.revisions[n].closed_at # NoTime => b.revisions[n] = a.revisions[n]
        <5>1. CASE n = a.current
          BY <5>1, <3>2, <3>3, <3>6 DEF AppendOnly, ClosedRow, ClosedAt, SameOpening,
              CurrentRevision
        <5>2. CASE n # a.current
          BY <5>2, <3>3, <3>6 DEF AppendOnly, ClosedRow
        <5> QED BY <5>1, <5>2
      <4> QED BY <4>1, <4>2 DEF AppendOnly
    <3> QED BY <3>6, <3>7, AlertAssumption DEF EntityStep, EntityOK, ShownBy, c
  <2>5. CASE ~ a.is_present
    <3>1. b = AddRevision(a, c, r, t)
      BY <1>2, <2>5 DEF ReconcileAlert
    <3>2. ReadyRow(A, f, e, a)
      BY <2>1, <2>5, AbsentIsReady
    <3> HIDE DEF b
    <3>3. /\ b \in Alert /\ b.is_present /\ RowOK(A \cup {f}, e, b)
          /\ CurrentRevision(b).content = c /\ AppendOnly(a, b)
      BY <1>0, <2>1, <3>1, <3>2, ExtendStep DEF r, t, c
    <3> QED BY <3>3, AlertAssumption DEF EntityStep, EntityOK, ShownBy, c
  <2> QED BY <2>3, <2>4, <2>5
<1> QED BY <1>1, <1>2 DEF b, c, r, t

-----------------------------------------------------------------------------
(* The specification.                                                      *)

\* Apply's guard: the feed follows everything applied to its source.
LEMMA ApplyFollows ==
  ASSUME TypeOK, NEW f \in AppliedRun, Apply(f)
  PROVE  Follows(f, AppliedTo(f.source)) /\ \A g \in AppliedTo(f.source) \cup {f} : ~ Newer(g, f)
<1>1. AppliedTo(f.source) \in SUBSET AppliedRun
  BY DEF TypeOK, AppliedTo
<1>2. \A g \in AppliedTo(f.source) \cup {f} :
        /\ ObservedAt(g) \in Nat /\ ObservedAt(f) \in Nat /\ g.retrieved_at \in Nat
  BY <1>1, FeedFacts, TimeAssumption DEF AppliedRun
<1>3. \A g \in AppliedTo(f.source) : ~ Newer(g, f) /\ ObservedAt(g) <= ObservedAt(f)
  BY <1>2 DEF Apply, Newer
<1>4. ~ Newer(f, f)
  BY <1>2 DEF Newer
<1> QED BY <1>1, <1>3, <1>4 DEF Follows

\* What Apply does to each source's alerts and applied runs.
LEMMA ApplyRows ==
  ASSUME TypeOK, NEW f \in AppliedRun, Apply(f)
  PROVE  /\ alerts' \in [Source -> [Entity -> {Reconciled(alerts[s][e], f, e) : s \in Source,
             e \in Entity}
                                              \cup Alert \cup {NoAlert}]]
         /\ \A e \in Entity : alerts'[f.source][e] = Reconciled(alerts[f.source][e], f, e)
         /\ AppliedTo(f.source)' = AppliedTo(f.source) \cup {f}
         /\ \A s \in Source \ {f.source} :
              alerts'[s] = alerts[s] /\ AppliedTo(s)' = AppliedTo(s)
<1>1. f.source \in Source
  BY DEF AppliedRun
<1>2. /\ alerts' = [alerts EXCEPT ![f.source] =
                      ReconcileFeed(alerts[f.source], Listed(f), f.run, ObservedAt(f))]
      /\ applied' = applied \cup {f}
  BY DEF Apply
<1>3. ReconcileFeed(alerts[f.source], Listed(f), f.run, ObservedAt(f))
        = [e \in Entity |-> Reconciled(alerts[f.source][e], f, e)]
  BY DEF ReconcileFeed, Reconciled
<1>4. AppliedTo(f.source)' = AppliedTo(f.source) \cup {f}
  BY <1>2 DEF AppliedTo
<1>5. \A s \in Source \ {f.source} : alerts'[s] = alerts[s] /\ AppliedTo(s)' = AppliedTo(s)
  BY <1>1, <1>2 DEF AppliedTo, TypeOK
<1>6. \A e \in Entity : alerts'[f.source][e] = Reconciled(alerts[f.source][e], f, e)
  BY <1>1, <1>2, <1>3 DEF TypeOK
<1>7. alerts' \in [Source -> [Entity -> {Reconciled(alerts[s][e], f, e) : s \in Source,
    e \in Entity}
                                          \cup Alert \cup {NoAlert}]]
  BY <1>1, <1>2, <1>3 DEF TypeOK
<1> QED BY <1>4, <1>5, <1>6, <1>7

\* Every entity of the feed's source takes a right step.
LEMMA ApplyEntities ==
  ASSUME Inv, NEW f \in AppliedRun, Apply(f), NEW e \in Entity
  PROVE  EntityStep(AppliedTo(f.source), alerts[f.source][e], f, e, alerts'[f.source][e])
<1>1. f.source \in Source /\ TypeOK
  BY DEF AppliedRun, Inv
<1>2. alerts[f.source][e] \in Alert \cup {NoAlert} /\
    EntityOK(AppliedTo(f.source), e, alerts[f.source][e])
  BY <1>1 DEF Inv, TypeOK
<1>3. Follows(f, AppliedTo(f.source))
  BY <1>1, ApplyFollows
<1>4. alerts'[f.source][e] = Reconciled(alerts[f.source][e], f, e)
  BY <1>1, ApplyRows
<1> QED BY <1>2, <1>3, <1>4, MissingStep, ListedStep DEF Reconciled

\* Initially nothing is stored and nothing was applied.
LEMMA InitInv == Init => Inv
<1> SUFFICES ASSUME Init PROVE Inv
  OBVIOUS
<1>1. TypeOK
  BY DEF Init, TypeOK
<1>2. \A s \in Source : AppliedTo(s) = {} /\ Shown(alerts[s]) = [e \in Entity |-> Missing]
  BY DEF Init, AppliedTo, Shown
<1>3. \A s \in Source, e \in Entity : EntityOK(AppliedTo(s), e, alerts[s][e])
  BY <1>2 DEF Init, EntityOK, NeverListed
<1> QED BY <1>1, <1>2, <1>3 DEF Inv, ShowsNewestFeed

\* Apply, the only action, preserves the invariant.
LEMMA ApplyInv ==
  ASSUME Inv, NEW f \in AppliedRun, Apply(f)
  PROVE  Inv'
<1> DEFINE z == f.source
<1>1. TypeOK /\ z \in Source
  BY DEF Inv, AppliedRun
<1>2. \A e \in Entity : EntityStep(AppliedTo(z), alerts[z][e], f, e, alerts'[z][e])
  BY ApplyEntities
<1>3. /\ AppliedTo(z)' = AppliedTo(z) \cup {f}
      /\ \A s \in Source \ {z} : alerts'[s] = alerts[s] /\ AppliedTo(s)' = AppliedTo(s)
  BY <1>1, ApplyRows
<1>4. TypeOK'
  <2>1. applied' \in SUBSET AppliedRun
    BY <1>1 DEF Apply, TypeOK
  <2>2. ASSUME NEW s \in Source, NEW e \in Entity PROVE alerts'[s][e] \in Alert \cup {NoAlert}
    BY <1>1, <1>2, <1>3 DEF EntityStep, TypeOK
  <2>3. alerts' \in [Source -> [Entity -> {Reconciled(alerts[s][e], f, e) : s \in Source,
      e \in Entity}
                                            \cup Alert \cup {NoAlert}]]
    BY <1>1, ApplyRows
  <2> QED BY <2>1, <2>2, <2>3 DEF TypeOK
<1>5. ASSUME NEW s \in Source, NEW e \in Entity
      PROVE  EntityOK(AppliedTo(s)', e, alerts'[s][e])
  <2>1. CASE s = z
    BY <2>1, <1>2, <1>3 DEF EntityStep
  <2>2. CASE s # z
    BY <2>2, <1>3 DEF Inv
  <2> QED BY <2>1, <2>2
<1>6. ShowsNewestFeed'
  <2> SUFFICES ASSUME NEW s \in Source
               PROVE  IF AppliedTo(s)' = {} THEN Shown(alerts'[s]) = [e \in Entity |-> Missing]
                      ELSE \E g \in Newest(s)' : Shown(alerts'[s]) = Listed(g)
    BY DEF ShowsNewestFeed
  <2>1. CASE s = z
    <3>1. \A g \in AppliedTo(z) \cup {f} : ~ Newer(g, f)
      BY <1>1, ApplyFollows
    <3>2. f \in Newest(s)' /\ AppliedTo(s)' # {}
      BY <2>1, <3>1, <1>3 DEF Newest
    <3>3. Listed(f) \in [Entity -> Content \cup {Missing}]
      BY FeedFacts
    <3>4. \A e \in Entity : ShownBy(alerts'[s][e]) = Listed(f)[e]
      BY <2>1, <1>2 DEF EntityStep
    <3>5. Shown(alerts'[s]) = [e \in Entity |-> ShownBy(alerts'[s][e])]
      BY DEF Shown, ShownBy
    <3>6. Shown(alerts'[s]) = Listed(f)
      BY <3>3, <3>4, <3>5
    <3> QED BY <3>2, <3>6
  <2>2. CASE s # z
    <3>1. alerts'[s] = alerts[s] /\ AppliedTo(s)' = AppliedTo(s)
      BY <2>2, <1>3
    <3>2. Newest(s)' = Newest(s)
      BY <3>1 DEF Newest
    <3> QED BY <3>1, <3>2 DEF Inv, ShowsNewestFeed
  <2> QED BY <2>1, <2>2
<1>7. \A s \in Source, e \in Entity : EntityOK(AppliedTo(s)', e, alerts'[s][e])
  BY <1>5
<1> QED BY <1>4, <1>6, <1>7 DEF Inv

\* The inductive invariant is preserved by every step.
LEMMA NextInv == Inv /\ [Next]_vars => Inv'
<1> SUFFICES ASSUME Inv, [Next]_vars PROVE Inv'
  OBVIOUS
<1>1. CASE Next
  BY <1>1, ApplyInv DEF Next
<1>2. CASE UNCHANGED vars
  BY <1>2 DEF vars, Inv, TypeOK, EntityOK, AppliedTo, ShowsNewestFeed, Newest
<1> QED BY <1>1, <1>2

\* The inductive invariant holds in every reachable state.
THEOREM Invariance == Spec => []Inv
<1>1. Init => Inv
  BY InitInv
<1>2. Inv /\ [Next]_vars => Inv'
  BY NextInv
<1> QED BY <1>1, <1>2, PTL DEF Spec

\* The inductive invariant implies each of the properties of AlertHistory.
LEMMA InvImplies ==
  Inv => /\ TypeOK /\ RowsAgree /\ WindowsOrdered /\ Traceable
         /\ ShowsNewestFeed /\ HistoryReplays
<1> SUFFICES ASSUME Inv
             PROVE  RowsAgree /\ WindowsOrdered /\ Traceable /\ HistoryReplays
  BY DEF Inv
<1>1. RowsAgree /\ WindowsOrdered /\ Traceable
  BY DEF Inv, EntityOK, RowOK, RowsAgree, WindowsOrdered, Traceable, Known
<1>2. ASSUME NEW s \in Source, NEW e \in Entity
      PROVE  RowReplays(AppliedTo(s), e, alerts[s][e])
  <2>1. EntityOK(AppliedTo(s), e, alerts[s][e])
    BY DEF Inv
  <2>2. CASE alerts[s][e] = NoAlert
    BY <2>1, <2>2 DEF EntityOK, NeverListed, RowReplays
  <2>3. CASE alerts[s][e] # NoAlert
    BY <2>1, <2>3 DEF EntityOK, RowOK
  <2> QED BY <2>2, <2>3
<1> QED BY <1>1, <1>2 DEF HistoryReplays

\* Rows, revisions and applied runs always have their types.
THEOREM TypeCorrect == Spec => []TypeOK
BY Invariance, InvImplies, PTL

\* An alert row and its revisions always agree (reconcileAlert, closeMissingAlerts).
THEOREM RowsAlwaysAgree == Spec => []RowsAgree
BY Invariance, InvImplies, PTL

\* Revision windows never run backwards and never overlap (the stale check).
THEOREM WindowsAlwaysOrdered == Spec => []WindowsOrdered
BY Invariance, InvImplies, PTL

\* Every revision is traceable to the runs that opened and closed it.
THEOREM AlwaysTraceable == Spec => []Traceable
BY Invariance, InvImplies, PTL

\* The alerts of a source always show the newest applied feed.
THEOREM AlwaysShowsNewestFeed == Spec => []ShowsNewestFeed
BY Invariance, InvImplies, PTL

\* The stored revisions always replay every applied feed.
THEOREM AlwaysReplays == Spec => []HistoryReplays
BY Invariance, InvImplies, PTL

\* No step rewrites recorded history: rows persist and closed revisions are
\* immutable (reconcileAlert, closeMissingAlerts).
THEOREM NeverRewrites == Spec => HistoryAppendOnly
<1> DEFINE Kept == \A s \in Source, e \in Entity :
             Known(s, e) => Known(s, e)' /\ AppendOnly(alerts[s][e], alerts'[s][e])
<1>1. Inv /\ [Next]_vars => [Kept]_vars
  <2> SUFFICES ASSUME Inv, NEW f \in AppliedRun, Apply(f),
                      NEW s \in Source, NEW e \in Entity, Known(s, e)
               PROVE  Known(s, e)' /\ AppendOnly(alerts[s][e], alerts'[s][e])
    BY DEF Next
  <2>1. CASE s = f.source
    BY <2>1, ApplyEntities DEF EntityStep, Known
  <2>2. CASE s # f.source
    <3>1. alerts'[s] = alerts[s]
      BY <2>2, ApplyRows DEF Inv
    <3>2. alerts[s][e] \in Alert
      BY DEF Inv, TypeOK, Known
    <3>3. AppendOnly(alerts[s][e], alerts[s][e])
      BY <3>2, LenProperties DEF AppendOnly, Alert
    <3> QED BY <3>1, <3>3 DEF Known
  <2> QED BY <2>1, <2>2
<1>2. Spec => []Inv
  BY Invariance
<1> QED BY <1>1, <1>2, PTL DEF Spec, HistoryAppendOnly
=============================================================================
