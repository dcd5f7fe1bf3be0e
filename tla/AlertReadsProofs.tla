-------------------------- MODULE AlertReadsProofs --------------------------
(***************************************************************************)
(* What the read side makes of the alert history, for any feeds and any    *)
(* interleaving of reads with ingestion: the episode views (AlertEpisodes) *)
(* and the read repository (AlertReads).                                   *)
(***************************************************************************)
EXTENDS AlertReads, AlertHistoryProofs, FiniteSetTheorems, WellFoundedInduction, TLAPS

-----------------------------------------------------------------------------
(* Least elements.  The library's induction theorems take a predicate as a *)
(* parameter; these two, which have none, are what the proofs below use.   *)

\* A nonempty family of subsets of a finite set has a minimal member.
LEMMA FiniteMinimal ==
  ASSUME NEW S, IsFiniteSet(S), NEW F \in SUBSET (SUBSET S), F # {}
  PROVE  \E T \in F : \A U \in F : U \subseteq T => U = T
<1> DEFINE R == StrictSubsetOrdering(S)
<1>1. IsWellFoundedOn(R, FiniteSubsetsOf(S)) /\ FiniteSubsetsOf(S) = SUBSET S
  BY FS_StrictSubsetOrderingWellFounded, FS_FiniteSubsetsOfFinite
<1> HIDE DEF R
<1>2. PICK T \in F : \A U \in F : ~ (<<U, T>> \in R)
  BY <1>1, WFMin
<1>3. \A U \in F : U \subseteq T => U = T
  BY <1>2 DEF R, StrictSubsetOrdering
<1> QED BY <1>3

\* A nonempty set of natural numbers has a least one.
LEMMA LeastNatural ==
  ASSUME NEW T \in SUBSET Nat, T # {}
  PROVE  \E x \in T : \A y \in T : x <= y
<1>1. PICK n \in T : TRUE
  OBVIOUS
<1> DEFINE S == 0..n
           F == {0..k : k \in {k \in T : k <= n}}
<1>2. IsFiniteSet(S)
  BY FS_Interval
<1>3. \A k \in T : k \in Nat /\ n \in Nat /\ (k <= n => 0..k \subseteq 0..n)
  OBVIOUS
<1>4. F \in SUBSET (SUBSET S) /\ F # {}
  <2>1. 0..n \in F
    BY <1>3
  <2>2. \A I \in F : I \subseteq 0..n
    BY <1>3
  <2> QED BY <2>1, <2>2
<1> HIDE DEF F, S
<1>5. PICK I \in F : \A J \in F : J \subseteq I => J = I
  BY <1>2, <1>4, FiniteMinimal
<1>6. PICK x \in T : x <= n /\ I = 0..x
  BY DEF F
<1>7. ASSUME NEW y \in T, ~ (x <= y) PROVE FALSE
  <2>1. y < x /\ y <= n /\ x \in Nat /\ y \in Nat
    BY <1>6, <1>7
  <2>2. 0..y \in F /\ 0..y \subseteq 0..x
    BY <2>1 DEF F
  <2>3. x \in 0..x /\ x \notin 0..y
    BY <2>1
  <2> QED BY <1>5, <1>6, <2>2, <2>3
<1> QED BY <1>7

\* A nonempty set of numbers up to n has a greatest one.
LEMMA GreatestNumber ==
  ASSUME NEW n \in Nat, NEW T \in SUBSET (0..n), T # {}
  PROVE  \E x \in T : \A y \in T : y <= x
<1> DEFINE U == {n - y : y \in T}
<1>1. U \in SUBSET Nat /\ U # {}
  OBVIOUS
<1> HIDE DEF U
<1>2. PICK u \in U : \A w \in U : u <= w
  BY <1>1, LeastNatural
<1>3. PICK x \in T : u = n - x
  BY DEF U
<1>4. \A y \in T : n - x <= n - y
  BY <1>2, <1>3 DEF U
<1> QED BY <1>4

-----------------------------------------------------------------------------
(* The windows of the episode views, for a row whose revisions were first  *)
(* seen in the order of their numbers.                                     *)

InOrder(a) ==
  /\ Len(a.revisions) \in Nat /\ Len(a.revisions) > 0
  /\ \A n \in Numbers(a) : a.revisions[n].first_seen_at \in Nat
  /\ \A m, n \in Numbers(a) :
       m < n => a.revisions[m].first_seen_at <= a.revisions[n].first_seen_at

\* The revisions of a row are numbered by naturals.
LEMMA NumbersAreNat == ASSUME NEW a, InOrder(a) PROVE Numbers(a) \subseteq Nat
<1>1. Len(a.revisions) \in Nat
  BY DEF InOrder
<1> QED BY <1>1 DEF Numbers

\* ORDER BY first_seen_at, revision_number is the order of the numbers.
LEMMA PrecedesIsLess ==
  ASSUME NEW a, InOrder(a), NEW m \in Numbers(a), NEW n \in Numbers(a)
  PROVE  Precedes(a, m, n) <=> m < n
BY DEF InOrder, Precedes, Numbers

\* lag() is the revision before.
LEMMA LagIsPrevious ==
  ASSUME NEW a, InOrder(a), NEW n \in Numbers(a)
  PROVE  Lag(a, n) = IF n = 1 THEN {} ELSE {n - 1}
<1>0. Numbers(a) = 1..Len(a.revisions) /\ Len(a.revisions) \in Nat /\ n \in Nat
  BY DEF Numbers, InOrder
<1> DEFINE before == {m \in Numbers(a) : Precedes(a, m, n)}
<1>1. before = {m \in Numbers(a) : m < n}
  BY PrecedesIsLess
<1>2. before = 1..(n - 1)
  BY <1>0, <1>1
<1>3. \A m \in before : (\A k \in before \ {m} : Precedes(a, k, m)) <=> m = n - 1
  <2> SUFFICES ASSUME NEW m \in before
               PROVE  (\A k \in before \ {m} : Precedes(a, k, m)) <=> m = n - 1
    OBVIOUS
  <2>1. \A k \in before : Precedes(a, k, m) <=> k < m
    BY <1>1, PrecedesIsLess
  <2> HIDE DEF before
  <2> QED BY <1>0, <1>2, <2>1
<1>4. Lag(a, n) = {m \in before : \A k \in before \ {m} : Precedes(a, k, m)}
  BY DEF Lag
<1> HIDE DEF before
<1>5. Lag(a, n) = {m \in before : m = n - 1}
  BY <1>3, <1>4
<1> QED BY <1>0, <1>2, <1>5

\* Where a revision starts an episode.
StartsAt(a, n) ==
  \/ n = 1
  \/ IsDeleted(a.revisions[n - 1]) /\ ~ IsDeleted(a.revisions[n])
  \/ a.revisions[n - 1].closed_at # a.revisions[n].first_seen_at

\* The view's condition, with the lag resolved.
LEMMA StartsEpisodeIs ==
  ASSUME NEW a, InOrder(a), NEW n \in Numbers(a)
  PROVE  StartsEpisode(a, n) <=> StartsAt(a, n)
BY LagIsPrevious DEF StartsEpisode, StartsAt

StartsUpTo(a, n) == {m \in 1..n : StartsAt(a, m)}

\* The running sum counts the starts so far.
LEMMA EpisodeNumberIs ==
  ASSUME NEW a, InOrder(a), NEW n \in Numbers(a)
  PROVE  EpisodeNumber(a, n) = Cardinality(StartsUpTo(a, n))
<1>0. Numbers(a) = 1..Len(a.revisions) /\ Len(a.revisions) \in Nat /\ n \in Nat
  BY DEF Numbers, InOrder
<1>1. \A m \in Numbers(a) : (m = n \/ Precedes(a, m, n)) <=> m <= n
  BY <1>0, PrecedesIsLess
<1>2. \A m \in Numbers(a) : StartsEpisode(a, m) <=> StartsAt(a, m)
  BY StartsEpisodeIs
<1>3. {m \in Numbers(a) : (m = n \/ Precedes(a, m, n)) /\ StartsEpisode(a, m)}
        = StartsUpTo(a, n)
  BY <1>0, <1>1, <1>2 DEF StartsUpTo
<1> QED BY <1>3 DEF EpisodeNumber

\* Episode numbers grow by one at each start and not elsewhere.
LEMMA EpisodeNumberOrder ==
  ASSUME NEW a, InOrder(a), NEW m \in Numbers(a), NEW n \in Numbers(a), m < n
  PROVE  /\ EpisodeNumber(a, m) \in Nat /\ EpisodeNumber(a, n) \in Nat
         /\ EpisodeNumber(a, m) <= EpisodeNumber(a, n)
         /\ EpisodeNumber(a, m) = EpisodeNumber(a, n)
              <=> \A k \in (m + 1)..n : ~ StartsAt(a, k)
<1>0. m \in Nat /\ n \in Nat /\ m >= 1
  BY DEF Numbers, InOrder
<1> DEFINE S == StartsUpTo(a, m)
           T == StartsUpTo(a, n)
<1>1. S \subseteq T /\ T \subseteq 1..n
  BY <1>0 DEF StartsUpTo
<1>2. IsFiniteSet(T)
  <2>1. IsFiniteSet(1..n)
    BY <1>0, FS_Interval
  <2> QED BY <1>1, <2>1, FS_Subset
<1>3. S = T <=> \A k \in (m + 1)..n : ~ StartsAt(a, k)
  BY <1>0 DEF StartsUpTo
<1>4. EpisodeNumber(a, m) = Cardinality(S) /\ EpisodeNumber(a, n) = Cardinality(T)
  BY EpisodeNumberIs
<1> HIDE DEF S, T
<1>5. IsFiniteSet(S) /\ Cardinality(S) <= Cardinality(T) /\
    (Cardinality(S) = Cardinality(T) => S = T)
  BY <1>1, <1>2, FS_Subset
<1>6. Cardinality(S) \in Nat /\ Cardinality(T) \in Nat
  BY <1>2, <1>5, FS_CardinalityType
<1> QED BY <1>3, <1>4, <1>5, <1>6

\* Every revision belongs to an episode that a revision no later started.
LEMMA EpisodeHasStart ==
  ASSUME NEW a, InOrder(a), NEW n \in Numbers(a)
  PROVE  \E m \in Numbers(a) : /\ m <= n /\ StartsAt(a, m)
                               /\ EpisodeNumber(a, m) = EpisodeNumber(a, n)
                               /\ \A k \in (m + 1)..n : ~ StartsAt(a, k)
<1>0. Numbers(a) = 1..Len(a.revisions) /\ Len(a.revisions) \in Nat /\ n \in Nat /\ n >= 1
  BY DEF Numbers, InOrder
<1> DEFINE S == StartsUpTo(a, n)
<1>1. S \in SUBSET (0..n) /\ 1 \in S
  BY <1>0 DEF StartsUpTo, StartsAt
<1> HIDE DEF S
<1>2. PICK m \in S : \A k \in S : k <= m
  BY <1>0, <1>1, GreatestNumber
<1>3. m \in Numbers(a) /\ m <= n /\ StartsAt(a, m)
  BY <1>0 DEF S, StartsUpTo
<1>4. \A k \in (m + 1)..n : ~ StartsAt(a, k)
  BY <1>0, <1>2, <1>3 DEF S, StartsUpTo
<1>5. EpisodeNumber(a, m) = EpisodeNumber(a, n)
  BY <1>0, <1>3, <1>4, EpisodeNumberOrder
<1> QED BY <1>3, <1>4, <1>5

\* After a deletion notice an episode has nothing but deletion notices.
LEMMA DeletedStaysDeleted ==
  ASSUME NEW a, InOrder(a), NEW m \in Numbers(a), NEW n \in Numbers(a), m <= n,
         \A k \in (m + 1)..n : ~ StartsAt(a, k), IsDeleted(a.revisions[m])
  PROVE  IsDeleted(a.revisions[n])
<1> SUFFICES ASSUME ~ IsDeleted(a.revisions[n]) PROVE FALSE
  OBVIOUS
<1>0. m \in Nat /\ n \in Nat /\ m >= 1
  BY DEF Numbers, InOrder
<1> DEFINE T == {k \in m..n : ~ IsDeleted(a.revisions[k])}
<1>1. T \in SUBSET Nat /\ n \in T
  BY <1>0
<1> HIDE DEF T
<1>2. PICK k \in T : \A j \in T : k <= j
  BY <1>1, LeastNatural
<1>3. k \in (m + 1)..n /\ ~ IsDeleted(a.revisions[k])
  BY <1>0 DEF T
<1>4. k - 1 \notin T
  BY <1>0, <1>2, <1>3
<1>5. IsDeleted(a.revisions[k - 1])
  BY <1>0, <1>3, <1>4 DEF T
<1> QED BY <1>3, <1>5 DEF StartsAt

LiveStarts(a) == {n \in Numbers(a) : StartsAt(a, n) /\ ~ IsDeleted(a.revisions[n])}

\* The revisions of n's episode.
EpisodeOf(a, n) == {m \in Numbers(a) : EpisodeNumber(a, m) = EpisodeNumber(a, n)}

\* The counted episodes are those of the starts that are not deleted.
LEMMA CountedEpisodesAre ==
  ASSUME NEW a, InOrder(a)
  PROVE  CountedEpisodes(a) = {EpisodeOf(a, n) : n \in LiveStarts(a)}
<1> DEFINE S == LiveStarts(a)
           T == CountedEpisodes(a)
<1>1. ASSUME NEW n \in S PROVE EpisodeOf(a, n) \in T
  <2>1. n \in Numbers(a) /\ ~ IsDeleted(a.revisions[n]) /\ n \in EpisodeOf(a, n)
    BY DEF LiveStarts, EpisodeOf
  <2>2. EpisodeOf(a, n) \in Episodes(a)
    BY <2>1 DEF Episodes, EpisodeOf
  <2>3. n \notin DeletedIn(a, EpisodeOf(a, n))
    BY <2>1 DEF DeletedIn
  <2> QED BY <2>1, <2>2, <2>3 DEF CountedEpisodes
<1>2. ASSUME NEW ep \in T PROVE \E n \in S : ep = EpisodeOf(a, n)
  <2>1. PICK k \in {EpisodeNumber(a, n) : n \in Numbers(a)} :
          ep = {n \in Numbers(a) : EpisodeNumber(a, n) = k}
    BY DEF CountedEpisodes, Episodes
  <2>2. PICK n \in ep : ~ IsDeleted(a.revisions[n])
    BY DEF CountedEpisodes, DeletedIn
  <2>3. n \in Numbers(a) /\ EpisodeNumber(a, n) = k
    BY <2>1
  <2>4. PICK m \in Numbers(a) : /\ m <= n /\ StartsAt(a, m)
                                /\ EpisodeNumber(a, m) = EpisodeNumber(a, n)
                                /\ \A j \in (m + 1)..n : ~ StartsAt(a, j)
    BY <2>3, EpisodeHasStart
  <2>5. ~ IsDeleted(a.revisions[m])
    BY <2>2, <2>3, <2>4, DeletedStaysDeleted
  <2>6. m \in S /\ ep = EpisodeOf(a, m)
    BY <2>1, <2>3, <2>4, <2>5 DEF LiveStarts, EpisodeOf
  <2> QED BY <2>6
<1> QED BY <1>1, <1>2

\* Every counted episode has exactly one start, which is not deleted.
LEMMA CountedEpisodesCount ==
  ASSUME NEW a, InOrder(a)
  PROVE  /\ IsFiniteSet(LiveStarts(a))
         /\ Cardinality(CountedEpisodes(a)) = Cardinality(LiveStarts(a))
<1>0. Numbers(a) = 1..Len(a.revisions) /\ Len(a.revisions) \in Nat
  BY DEF Numbers, InOrder
<1> DEFINE S == LiveStarts(a)
           T == CountedEpisodes(a)
           g == [n \in S |-> EpisodeOf(a, n)]
<1>1. IsFiniteSet(S)
  <2>1. IsFiniteSet(Numbers(a)) /\ S \in SUBSET Numbers(a)
    BY <1>0, FS_Interval DEF LiveStarts
  <2> QED BY <2>1, FS_Subset
<1>2. T = {EpisodeOf(a, n) : n \in S}
  BY CountedEpisodesAre
<1>3. ASSUME NEW m \in S, NEW n \in S, m < n PROVE EpisodeOf(a, m) # EpisodeOf(a, n)
  <2>1. m \in Numbers(a) /\ n \in Numbers(a) /\ StartsAt(a, n) /\ n \in (m + 1)..n
    BY <1>0, <1>3 DEF LiveStarts
  <2>2. EpisodeNumber(a, m) # EpisodeNumber(a, n)
    BY <1>3, <2>1, EpisodeNumberOrder
  <2> QED BY <2>1, <2>2 DEF EpisodeOf
<1>4. \A ep \in T : \E n \in S : ep = EpisodeOf(a, n)
  BY <1>2
<1>5. \A m, n \in S : m \in Nat /\ n \in Nat
  BY <1>0 DEF LiveStarts
<1>6. \A m, n \in S : EpisodeOf(a, m) = EpisodeOf(a, n) => m = n
  BY <1>3, <1>5
<1> HIDE DEF S, T
<1>7. g \in [S -> T] /\ \A n \in S : g[n] = EpisodeOf(a, n)
  BY <1>2
<1> HIDE DEF g
<1>8. g \in Bijection(S, T)
  <2>1. g \in Injection(S, T)
    BY <1>6, <1>7 DEF Injection, IsInjective
  <2>2. g \in Surjection(S, T)
    BY <1>4, <1>7 DEF Surjection
  <2> QED BY <2>1, <2>2 DEF Bijection
<1>9. Cardinality(T) = Cardinality(S)
  BY <1>1, <1>8, FS_Bijection DEF ExistsBijection
<1> QED BY <1>1, <1>9 DEF S, T

-----------------------------------------------------------------------------
(* Appearances.                                                            *)

AppearanceStarts(s, e) == {i \in 1..Len(feeds[s]) : Live(s, e, i) /\ ~ Live(s, e, i - 1)}

\* A position at which the alert becomes live starts exactly one appearance.
LEMMA AppearancesCount ==
  ASSUME NEW s, NEW e, Len(feeds[s]) \in Nat
  PROVE  /\ IsFiniteSet(AppearanceStarts(s, e))
         /\ Cardinality(Appearances(s, e)) = Cardinality(AppearanceStarts(s, e))
<1> DEFINE k == Len(feeds[s])
           L(i) == Live(s, e, i)
           S == AppearanceStarts(s, e)
           T == Appearances(s, e)
           g == [p \in T |-> p[1]]
<1>0. k \in Nat /\ \A i : L(i) => i \in 1..k
  BY DEF Live
<1>1. IsFiniteSet(S)
  <2>1. IsFiniteSet(1..k) /\ S \in SUBSET (1..k)
    BY FS_Interval DEF AppearanceStarts
  <2> QED BY <2>1, FS_Subset
<1>2. T = {p \in (1..k) \X (1..k) : /\ \A i \in p[1]..p[2] : L(i)
                                   /\ p[1] <= p[2] /\ ~ L(p[1] - 1) /\ ~ L(p[2] + 1)}
  BY DEF Appearances
<1>3. S = {i \in 1..k : L(i) /\ ~ L(i - 1)}
  BY DEF AppearanceStarts
<1> HIDE DEF L, S, T, k
<1>4. ASSUME NEW p \in T
      PROVE  /\ p \in (1..k) \X (1..k) /\ p = <<p[1], p[2]>> /\ p[1] \in 1..k /\ p[2] \in 1..k
             /\ \A i \in p[1]..p[2] : L(i)
             /\ p[1] <= p[2] /\ ~ L(p[1] - 1) /\ ~ L(p[2] + 1)
  BY <1>2
<1>5. ASSUME NEW p \in T PROVE p[1] \in S
  BY <1>0, <1>3, <1>4
<1>6. ASSUME NEW p \in T, NEW q \in T, p[1] = q[1] PROVE p = q
  <2>1. p[2] = q[2]
    <3>1. ~ (p[2] < q[2])
      <4>1. p[2] < q[2] => p[2] + 1 \in q[1]..q[2]
        BY <1>4, <1>6, <1>0
      <4> QED BY <1>4, <4>1
    <3>2. ~ (q[2] < p[2])
      <4>1. q[2] < p[2] => q[2] + 1 \in p[1]..p[2]
        BY <1>4, <1>6, <1>0
      <4> QED BY <1>4, <4>1
    <3> QED BY <1>0, <1>4, <3>1, <3>2
  <2> QED BY <1>4, <1>6, <2>1
<1>7. ASSUME NEW i \in S PROVE \E p \in T : p[1] = i
  <2> DEFINE E == {j \in i..k : ~ L(j + 1)}
  <2>1. i \in 1..k /\ L(i) /\ ~ L(i - 1)
    BY <1>3
  <2>2. E \in SUBSET Nat /\ k \in E
    BY <1>0, <2>1
  <2> HIDE DEF E
  <2>3. PICK j \in E : \A h \in E : j <= h
    BY <2>2, LeastNatural
  <2>4. j \in i..k /\ ~ L(j + 1)
    BY DEF E
  <2>5. ASSUME NEW h \in i..j PROVE L(h)
    <3>1. CASE h = i
      BY <2>1, <3>1
    <3>2. CASE h # i
      <4>1. h - 1 \in i..k /\ ~ (j <= h - 1)
        BY <1>0, <2>1, <2>4, <3>2
      <4>2. h - 1 \notin E
        BY <2>3, <4>1
      <4>3. L((h - 1) + 1)
        BY <4>1, <4>2 DEF E
      <4>4. (h - 1) + 1 = h
        BY <1>0, <2>1, <2>4
      <4> QED BY <4>3, <4>4
    <3> QED BY <3>1, <3>2
  <2>6. <<i, j>> \in T
    BY <1>0, <1>2, <2>1, <2>4, <2>5
  <2> QED BY <2>6
<1>8. g \in [T -> S] /\ \A p \in T : g[p] = p[1]
  BY <1>5
<1> HIDE DEF g
<1>9. g \in Bijection(T, S)
  <2>1. g \in Injection(T, S)
    BY <1>6, <1>8 DEF Injection, IsInjective
  <2>2. g \in Surjection(T, S)
    BY <1>7, <1>8 DEF Surjection
  <2> QED BY <2>1, <2>2 DEF Bijection
<1>10. Cardinality(T) = Cardinality(S)
  <2>1. IsFiniteSet(T)
    BY <1>1, <1>9, FS_Injection DEF Bijection
  <2> QED BY <1>9, <2>1, FS_Bijection DEF ExistsBijection
<1> QED BY <1>1, <1>10 DEF S, T

-----------------------------------------------------------------------------
(* What a feed does to a row.                                              *)

\* Row b differs from row a only in when its current revision was last seen.
SameRevisions(a, b) ==
  /\ Len(b.revisions) = Len(a.revisions)
  /\ \A n \in Numbers(a) :
       /\ b.revisions[n].content = a.revisions[n].content
       /\ b.revisions[n].first_seen_at = a.revisions[n].first_seen_at
       /\ b.revisions[n].closed_at = a.revisions[n].closed_at

\* The revisions but the last are as they were; the last keeps its opening.
SamePast(a, b) ==
  /\ \A n \in Numbers(a) :
       /\ b.revisions[n].content = a.revisions[n].content
       /\ b.revisions[n].first_seen_at = a.revisions[n].first_seen_at
  /\ \A n \in Numbers(a) : n < Len(a.revisions) => b.revisions[n] = a.revisions[n]

\* The alert of row a is present and the feed says the same.
SeenStep(a, b, c, t) ==
  /\ a.is_present /\ b.is_present /\ CurrentRevision(a).content = c
  /\ SameRevisions(a, b) /\ b.revisions[Len(a.revisions)].last_seen_at = t

\* It is absent, and missing from the feed.
IdleStep(a, b, c) == ~ a.is_present /\ c = Missing /\ b = a

\* It is present, and missing from the feed.
GoneStep(a, b, c, t) ==
  /\ a.is_present /\ c = Missing /\ ~ b.is_present /\ b.closed_at = t
  /\ Len(b.revisions) = Len(a.revisions)
  /\ b.revisions[Len(a.revisions)].last_seen_at = a.revisions[Len(a.revisions)].last_seen_at
  /\ b.revisions[Len(a.revisions)].closed_at = t

\* Its last revision gets a successor with content c.
NewStep(a, b, c, t) ==
  /\ c \in Content /\ b.is_present /\ Len(b.revisions) = Len(a.revisions) + 1
  /\ b.revisions[Len(a.revisions) + 1].content = c
  /\ b.revisions[Len(a.revisions) + 1].first_seen_at = t
  /\ b.revisions[Len(a.revisions) + 1].last_seen_at = t
  /\ b.revisions[Len(a.revisions) + 1].closed_at = NoTime
  /\ b.revisions[Len(a.revisions)].last_seen_at = a.revisions[Len(a.revisions)].last_seen_at

\* The feed lists it with another content.
ChangedStep(a, b, c, t) ==
  /\ a.is_present /\ CurrentRevision(a).content # c
  /\ NewStep(a, b, c, t) /\ b.revisions[Len(a.revisions)].closed_at = t

\* The feed lists it again after it had gone.
ReturnedStep(a, b, c, t) ==
  /\ ~ a.is_present /\ NewStep(a, b, c, t)
  /\ b.revisions[Len(a.revisions)] = a.revisions[Len(a.revisions)]

\* The first sighting.
FirstStep(b, c, t) ==
  /\ c \in Content /\ b.is_present /\ Len(b.revisions) = 1
  /\ b.revisions[1].content = c /\ b.revisions[1].first_seen_at = t
  /\ b.revisions[1].last_seen_at = t /\ b.revisions[1].closed_at = NoTime

\* A feed of time t that lists the alert as c takes row a to row b.
RowStep(a, b, c, t) ==
  IF a = NoAlert THEN IF c = Missing THEN b = NoAlert ELSE b \in Alert /\ FirstStep(b, c, t)
  ELSE /\ a \in Alert /\ b \in Alert /\ SamePast(a, b)
       /\ \/ SeenStep(a, b, c, t) \/ IdleStep(a, b, c) \/ GoneStep(a, b, c, t)
          \/ ChangedStep(a, b, c, t) \/ ReturnedStep(a, b, c, t)

\* Every row of the feed's source takes such a step.
LEMMA ReconciledStep ==
  ASSUME NEW f, NEW A, Follows(f, A), NEW e \in Entity, NEW a \in Alert \cup {NoAlert},
         EntityOK(A, e, a)
  PROVE  RowStep(a, Reconciled(a, f, e), Listed(f)[e], ObservedAt(f))
<1> DEFINE r == f.run
           t == ObservedAt(f)
           c == Listed(f)[e]
           b == Reconciled(a, f, e)
<1>0. t \in Time /\ r \in Run /\ c \in Content \cup {Missing} /\ Missing \notin Content
  BY FollowsFacts, FeedFacts, FeedAssumption DEF Follows
<1>1. b = IF c = Missing THEN CloseMissingAlert(a, r, t) ELSE ReconcileAlert(a, c, r, t)
  BY DEF Reconciled
<1> HIDE DEF r, t, c, b
<1>2. ASSUME a = NoAlert PROVE RowStep(a, b, c, t)
  <2>1. CASE c = Missing
    BY <1>1, <1>2, <2>1 DEF CloseMissingAlert, RowStep
  <2>2. CASE c # Missing
    <3>1. b = NewAlert(c, r, t) /\ c \in Content
      BY <1>0, <1>1, <1>2, <2>2 DEF ReconcileAlert
    <3>2. b \in Alert /\ FirstStep(b, c, t)
      BY <1>0, <3>1, NewAlertFacts DEF FirstStep, Opened
    <3> QED BY <1>2, <2>2, <3>2 DEF RowStep
  <2> QED BY <2>1, <2>2
<1>3. ASSUME a # NoAlert PROVE RowStep(a, b, c, t)
  <2> DEFINE L == Len(a.revisions)
  <2>0. a \in Alert /\ RowOK(A, e, a)
    BY <1>3 DEF EntityOK
  <2>1. /\ a.current = L /\ L \in Nat /\ L \in 1..L /\ Numbers(a) = 1..L
        /\ a.current \in 1..Len(a.revisions)
    BY <2>0, RowBounded DEF Numbers
  <2>2. CASE c = Missing /\ ~ a.is_present
    <3>1. b = a
      BY <1>1, <1>3, <2>2 DEF CloseMissingAlert
    <3> QED BY <1>3, <2>0, <2>2, <3>1 DEF RowStep, IdleStep, SamePast
  <2>3. CASE c = Missing /\ a.is_present
    <3>1. b = CloseMissingAlert(a, r, t)
      BY <1>1, <2>3
    <3>2. ClosedRow(a, b, r, t) /\ ~ b.is_present /\ b.closed_at = t
      BY <1>0, <2>0, <2>1, <2>3, <3>1, CloseMissingFacts
    <3>3. SamePast(a, b) /\ GoneStep(a, b, c, t) /\ b \in Alert
      BY <2>1, <2>3, <3>2 DEF ClosedRow, ClosedAt, SameOpening, SamePast, GoneStep
    <3> QED BY <1>3, <2>0, <3>3 DEF RowStep
  <2>4. CASE c # Missing /\ a.is_present /\ CurrentRevision(a).content = c
    <3>1. b = SeenAgain(a, r, t)
      BY <1>1, <1>3, <2>4 DEF ReconcileAlert
    <3>2. TouchedRow(a, b, r, t)
      BY <1>0, <2>0, <2>1, <3>1, SeenAgainFacts
    <3>3. SamePast(a, b) /\ SeenStep(a, b, c, t) /\ b \in Alert
      BY <2>1, <2>4, <3>2
      DEF TouchedRow, Touched, SameOpening, SamePast, SeenStep, SameRevisions, CurrentRevision
    <3> QED BY <1>3, <2>0, <3>3 DEF RowStep
  <2>5. CASE c # Missing /\ a.is_present /\ CurrentRevision(a).content # c
    <3> DEFINE d == CloseIfOpen(a, r, t)
    <3>1. b = AddRevision(d, c, r, t) /\ c \in Content
      BY <1>0, <1>1, <1>3, <2>5 DEF ReconcileAlert
    <3>2. CurrentRevision(a).closed_at = NoTime
      BY <2>0, <2>5 DEF RowOK, LifecycleOK
    <3>3. ClosedRow(a, d, r, t)
      BY <1>0, <2>0, <2>1, <3>2, CloseIfOpenFacts
    <3> HIDE DEF d
    <3>4. d \in Alert /\ Len(d.revisions) = L
      BY <3>3 DEF ClosedRow
    <3>5. ExtendedRow(d, b, c, r, t)
      BY <1>0, <3>1, <3>4, AddRevisionFacts
    <3>6. SamePast(a, b)
      <4>1. /\ SameOpening(a.revisions[L], d.revisions[L])
            /\ \A n \in 1..L : n # L => d.revisions[n] = a.revisions[n]
        BY <2>1, <3>3 DEF ClosedRow, ClosedAt
      <4>2. \A n \in 1..L : b.revisions[n] = d.revisions[n]
        BY <3>4, <3>5 DEF ExtendedRow
      <4>3. ASSUME NEW n \in 1..L
            PROVE  /\ b.revisions[n].content = a.revisions[n].content
                   /\ b.revisions[n].first_seen_at = a.revisions[n].first_seen_at
        <5>1. CASE n = L
          BY <4>1, <4>2, <5>1 DEF SameOpening
        <5>2. CASE n # L
          <6>1. b.revisions[n] = a.revisions[n]
            BY <4>1, <4>2, <5>2
          <6> QED BY <6>1
        <5> QED BY <5>1, <5>2
      <4>4. \A n \in 1..L : n < L => b.revisions[n] = a.revisions[n]
        <5>1. \A n \in 1..L : n < L => n # L
          BY <2>1
        <5> QED BY <4>1, <4>2, <5>1
      <4> QED BY <2>1, <4>3, <4>4 DEF SamePast
    <3>7. NewStep(a, b, c, t) /\ b.revisions[L].closed_at = t /\ b \in Alert
      BY <2>1, <3>1, <3>3, <3>4, <3>5 DEF ClosedRow, ClosedAt, ExtendedRow, Opened, NewStep
    <3> QED BY <1>3, <2>0, <2>5, <3>6, <3>7 DEF RowStep, ChangedStep
  <2>6. CASE c # Missing /\ ~ a.is_present
    <3>1. b = AddRevision(a, c, r, t) /\ c \in Content
      BY <1>0, <1>1, <1>3, <2>6 DEF ReconcileAlert
    <3>2. ExtendedRow(a, b, c, r, t)
      BY <1>0, <2>0, <3>1, AddRevisionFacts
    <3>3. SamePast(a, b) /\ b.revisions[L] = a.revisions[L] /\ b \in Alert
      BY <2>1, <3>2 DEF ExtendedRow, SamePast
    <3>4. NewStep(a, b, c, t)
      BY <2>1, <3>1, <3>2, <3>3 DEF ExtendedRow, Opened, NewStep
    <3> QED BY <1>3, <2>0, <2>6, <3>3, <3>4 DEF RowStep, ReturnedStep
  <2> QED BY <2>2, <2>3, <2>4, <2>5, <2>6
<1> QED BY <1>2, <1>3 DEF b, c, t

-----------------------------------------------------------------------------
(* Counts.                                                                 *)

LiveContent == Content \ Deleted

\* The feed after row a begins an appearance.
Begins(a, c) == c \in LiveContent /\ ShownBy(a) \notin LiveContent

\* It is observed at the very time at which the alert was seen to be gone.
Merges(a, t) ==
  /\ a # NoAlert /\ ~ a.is_present /\ ~ IsDeleted(a.revisions[Len(a.revisions)])
  /\ a.revisions[Len(a.revisions)].closed_at = t

LiveStartsOf(a) == IF a = NoAlert THEN {} ELSE LiveStarts(a)

RowInOrder(a) == a # NoAlert => InOrder(a)

\* Where the row is not NoAlert its current revision is the last.
CurrentIsLast(a) == a # NoAlert => a.current = Len(a.revisions)

\* The starts among the old revisions stay what they were.
LEMMA StartsStay ==
  ASSUME NEW a \in Alert, NEW b, InOrder(a), SamePast(a, b), NEW n \in Numbers(a)
  PROVE  /\ StartsAt(b, n) <=> StartsAt(a, n)
         /\ IsDeleted(b.revisions[n]) <=> IsDeleted(a.revisions[n])
<1>1. n \in 1..Len(a.revisions) /\ Len(a.revisions) \in Nat
  BY DEF Numbers, InOrder
<1>2. IsDeleted(b.revisions[n]) <=> IsDeleted(a.revisions[n])
  BY DEF SamePast, IsDeleted
<1>3. CASE n = 1
  BY <1>2, <1>3 DEF StartsAt
<1>4. CASE n # 1
  <2>1. n - 1 \in Numbers(a) /\ n - 1 < Len(a.revisions)
    BY <1>1, <1>4 DEF Numbers
  <2>2. b.revisions[n - 1] = a.revisions[n - 1]
    BY <2>1 DEF SamePast
  <2>3. b.revisions[n].first_seen_at = a.revisions[n].first_seen_at
    BY DEF SamePast
  <2> QED BY <1>2, <2>2, <2>3 DEF StartsAt
<1> QED BY <1>2, <1>3, <1>4

\* A feed adds a start to a row when it begins an appearance, unless it merges
\* with the one before.
LEMMA LiveStartsGrow ==
  ASSUME NEW a, NEW b, NEW c, NEW t, RowStep(a, b, c, t), Missing \notin Content,
         RowInOrder(a), CurrentIsLast(a), c \in Content \cup {Missing},
         a # NoAlert => a \in Alert, NoAlert \notin Alert
  PROVE  LiveStartsOf(b) = IF Begins(a, c) /\ ~ Merges(a, t)
                             THEN LiveStartsOf(a) \cup {Len(b.revisions)}
                             ELSE LiveStartsOf(a)
<1>1. CASE a = NoAlert
  <2>1. ShownBy(a) = Missing /\ ~ Merges(a, t) /\ LiveStartsOf(a) = {}
    BY <1>1 DEF ShownBy, Merges, LiveStartsOf
  <2>2. CASE c = Missing
    BY <1>1, <2>1, <2>2 DEF RowStep, Begins, LiveContent, LiveStartsOf
  <2>3. CASE c # Missing
    <3>1. b \in Alert /\ FirstStep(b, c, t)
      BY <1>1, <2>3 DEF RowStep
    <3>2. b # NoAlert
      BY <3>1
    <3>3. /\ Len(b.revisions) = 1 /\ Numbers(b) = 1..1 /\ StartsAt(b, 1)
          /\ IsDeleted(b.revisions[1]) <=> c \in Deleted
      BY <3>1 DEF FirstStep, Numbers, StartsAt, IsDeleted
    <3>4. LiveStarts(b) = IF c \in Deleted THEN {} ELSE {1}
      BY <3>3 DEF LiveStarts
    <3>5. Begins(a, c) <=> c \notin Deleted
      BY <2>1, <2>3 DEF Begins, LiveContent
    <3> QED BY <2>1, <3>2, <3>3, <3>4, <3>5 DEF LiveStartsOf
  <2> QED BY <2>2, <2>3
<1>2. CASE a # NoAlert
  <2> DEFINE L == Len(a.revisions)
             v == a.revisions[L]
  <2>0. /\ a \in Alert /\ b \in Alert /\ b # NoAlert /\ SamePast(a, b) /\ InOrder(a)
        /\ L \in Nat /\ L > 0 /\ Numbers(a) = 1..L /\ a.current = L
    BY <1>2 DEF RowStep, RowInOrder, InOrder, Numbers, CurrentIsLast
  <2>1. \A n \in Numbers(a) : /\ StartsAt(b, n) <=> StartsAt(a, n)
                              /\ IsDeleted(b.revisions[n]) <=> IsDeleted(a.revisions[n])
    BY <2>0, StartsStay
  <2>2. LiveStartsOf(a) = LiveStarts(a) /\ LiveStartsOf(b) = LiveStarts(b)
    BY <1>2, <2>0 DEF LiveStartsOf
  <2>3. ShownBy(a) = IF a.is_present THEN v.content ELSE Missing
    BY <1>2, <2>0 DEF ShownBy, CurrentRevision
  <2>4. ASSUME Len(b.revisions) = L PROVE LiveStarts(b) = LiveStarts(a)
    <3>1. Numbers(b) = Numbers(a)
      BY <2>4 DEF Numbers
    <3> QED BY <2>1, <3>1 DEF LiveStarts
  <2>5. ASSUME SeenStep(a, b, c, t) \/ IdleStep(a, b, c) \/ GoneStep(a, b, c, t)
        PROVE  Len(b.revisions) = L /\ ~ Begins(a, c)
    BY <2>0, <2>3, <2>5
    DEF SeenStep, IdleStep, GoneStep, SameRevisions, Begins, LiveContent, CurrentRevision
  <2>6. ASSUME ChangedStep(a, b, c, t) \/ ReturnedStep(a, b, c, t)
        PROVE  LiveStarts(b) = IF Begins(a, c) /\ ~ Merges(a, t)
                             THEN LiveStarts(a) \cup {Len(b.revisions)}
                             ELSE LiveStarts(a)
    <3>1. NewStep(a, b, c, t)
      BY <2>6 DEF ChangedStep, ReturnedStep
    <3>2. Len(b.revisions) = L + 1 /\ Numbers(b) = 1..(L + 1) /\ c \in Content
      BY <3>1 DEF NewStep, Numbers
    <3>3. LiveStarts(b) = LiveStarts(a) \cup
            {n \in {L + 1} : StartsAt(b, n) /\ ~ IsDeleted(b.revisions[n])}
      BY <2>0, <2>1, <3>2 DEF LiveStarts
    <3>4. IsDeleted(b.revisions[L + 1]) <=> c \in Deleted
      BY <3>1 DEF NewStep, IsDeleted
    <3>5. /\ b.revisions[L].content = v.content /\ (L + 1) - 1 = L /\ L + 1 # 1
          /\ b.revisions[L + 1].first_seen_at = t
      BY <2>0, <3>1 DEF SamePast, NewStep
    <3>6. StartsAt(b, L + 1) <=> \/ v.content \in Deleted /\ c \notin Deleted
                                 \/ b.revisions[L].closed_at # t
      BY <3>4, <3>5 DEF StartsAt, IsDeleted
    <3>7. StartsAt(b, L + 1) /\ c \notin Deleted <=> Begins(a, c) /\ ~ Merges(a, t)
      <4>1. CASE ChangedStep(a, b, c, t)
        <5>1. a.is_present /\ b.revisions[L].closed_at = t
          BY <4>1 DEF ChangedStep
        <5>2. v.content \in Content
          <6>1. a.revisions \in Seq(Revision)
            BY <2>0 DEF Alert
          <6>2. v \in Revision
            BY <2>0, <6>1
          <6> QED BY <6>2 DEF Revision
        <5> QED BY <3>2, <3>6, <5>1, <5>2, <2>3 DEF Begins, LiveContent, Merges
      <4>2. CASE ReturnedStep(a, b, c, t)
        <5>1. ~ a.is_present /\ b.revisions[L] = v
          BY <4>2 DEF ReturnedStep
        <5> QED BY <1>2, <3>2, <3>6, <5>1, <2>3 DEF Begins, LiveContent, Merges, IsDeleted
      <4> QED BY <2>6, <4>1, <4>2
    <3> QED BY <3>2, <3>3, <3>4, <3>7
  <2>7. \/ SeenStep(a, b, c, t) \/ IdleStep(a, b, c) \/ GoneStep(a, b, c, t)
        \/ ChangedStep(a, b, c, t) \/ ReturnedStep(a, b, c, t)
    BY <1>2 DEF RowStep
  <2>8. CASE SeenStep(a, b, c, t) \/ IdleStep(a, b, c) \/ GoneStep(a, b, c, t)
    BY <2>2, <2>4, <2>5, <2>8
  <2>9. CASE ChangedStep(a, b, c, t) \/ ReturnedStep(a, b, c, t)
    BY <2>2, <2>6, <2>9
  <2> QED BY <2>7, <2>8, <2>9
<1> QED BY <1>1, <1>2

-----------------------------------------------------------------------------
(* The feeds q applied to a source in order, and the row a of entity e.    *)

\* Feed i lists e, and not as deleted.
LiveIn(q, e, i) == i \in 1..Len(q) /\ Listed(q[i])[e] \in LiveContent

\* The feeds at which an appearance of e starts.
StartsIn(q, e) == {i \in 1..Len(q) : LiveIn(q, e, i) /\ ~ LiveIn(q, e, i - 1)}

\* What the last feed says of e.
LastSaid(q, e) == IF Len(q) = 0 THEN Missing ELSE Listed(q[Len(q)])[e]

\* No two feeds have one time.
DistinctTimes(q) ==
  \A i, j \in 1..Len(q) : ObservedAt(q[i]) = ObservedAt(q[j]) => i = j

\* There is an episode for every appearance; two appearances may share one only
\* when two feeds share a time.
CountsAgree(q, e, a) ==
  /\ Cardinality(LiveStartsOf(a)) <= Cardinality(StartsIn(q, e))
  /\ DistinctTimes(q) => Cardinality(LiveStartsOf(a)) = Cardinality(StartsIn(q, e))

\* The last revision that is not a deletion notice, and the last feed that
\* lists the alert live: they say the same.
LastLiveNumber(a, n) ==
  /\ n \in Numbers(a) /\ ~ IsDeleted(a.revisions[n])
  /\ \A m \in Numbers(a) : m > n => IsDeleted(a.revisions[m])

LastLivePosition(q, e, i) == LiveIn(q, e, i) /\ \A j : LiveIn(q, e, j) => j <= i

LastLiveAgrees(q, e, a) ==
  a # NoAlert => \A n : LastLiveNumber(a, n) =>
    \E i : LastLivePosition(q, e, i) /\ a.revisions[n].content = Listed(q[i])[e]

\* What a row tells of the feeds.
RowTells(q, e, a) ==
  /\ RowInOrder(a) /\ ShownBy(a) = LastSaid(q, e)
  /\ CountsAgree(q, e, a) /\ LastLiveAgrees(q, e, a)

\* The feeds before the last.
LEMMA AppendFeed ==
  ASSUME NEW q \in Seq(AppliedRun), NEW f \in AppliedRun
  PROVE  /\ Append(q, f) \in Seq(AppliedRun) /\ Len(q) \in Nat
         /\ Len(Append(q, f)) = Len(q) + 1 /\ Append(q, f)[Len(q) + 1] = f
         /\ \A i \in 1..Len(q) : Append(q, f)[i] = q[i]
OBVIOUS

\* A feed makes one more position, live or not; the others stay.
LEMMA LiveInAppend ==
  ASSUME NEW q \in Seq(AppliedRun), NEW f \in AppliedRun, NEW e
  PROVE  /\ \A i \in 1..Len(q) : LiveIn(Append(q, f), e, i) <=> LiveIn(q, e, i)
         /\ LiveIn(Append(q, f), e, Len(q) + 1) <=> Listed(f)[e] \in LiveContent
         /\ ~ LiveIn(Append(q, f), e, 0) /\ ~ LiveIn(q, e, 0) /\ ~ LiveIn(q, e, Len(q) + 1)
         /\ \A i : LiveIn(Append(q, f), e, i) => i \in 1..(Len(q) + 1)
<1> DEFINE p == Append(q, f)
<1>1. /\ Len(q) \in Nat /\ Len(p) = Len(q) + 1 /\ p[Len(q) + 1] = f
      /\ \A i \in 1..Len(q) : p[i] = q[i]
  BY AppendFeed
<1> HIDE DEF p
<1>2. /\ \A i \in 1..Len(q) : LiveIn(p, e, i) <=> LiveIn(q, e, i)
      /\ LiveIn(p, e, Len(q) + 1) <=> Listed(f)[e] \in LiveContent
      /\ ~ LiveIn(p, e, 0) /\ ~ LiveIn(q, e, 0) /\ ~ LiveIn(q, e, Len(q) + 1)
      /\ \A i : LiveIn(p, e, i) => i \in 1..(Len(q) + 1)
  BY <1>1 DEF LiveIn
<1> QED BY <1>2 DEF p

\* It begins an appearance when the alert becomes live with it.
LEMMA StartsInAppend ==
  ASSUME NEW q \in Seq(AppliedRun), NEW f \in AppliedRun, NEW e, Missing \notin Content
  PROVE  /\ StartsIn(Append(q, f), e) =
              IF Listed(f)[e] \in LiveContent /\ LastSaid(q, e) \notin LiveContent
                THEN StartsIn(q, e) \cup {Len(q) + 1} ELSE StartsIn(q, e)
         /\ IsFiniteSet(StartsIn(q, e)) /\ Len(q) + 1 \notin StartsIn(q, e)
<1> DEFINE p == Append(q, f)
           k == Len(q)
<1>1. k \in Nat /\ Len(p) = k + 1
  BY AppendFeed
<1>2. /\ \A i \in 1..k : LiveIn(p, e, i) <=> LiveIn(q, e, i)
      /\ LiveIn(p, e, k + 1) <=> Listed(f)[e] \in LiveContent
      /\ ~ LiveIn(p, e, 0) /\ ~ LiveIn(q, e, 0)
  BY LiveInAppend
<1>3. LiveIn(p, e, k) <=> LastSaid(q, e) \in LiveContent
  <2>1. CASE k = 0
    BY <1>2, <2>1 DEF LastSaid, LiveContent
  <2>2. CASE k # 0
    BY <1>1, <1>2, <2>2 DEF LastSaid, LiveIn
  <2> QED BY <2>1, <2>2
<1>4. IsFiniteSet(StartsIn(q, e)) /\ k + 1 \notin StartsIn(q, e)
  <2>1. StartsIn(q, e) \in SUBSET (1..k) /\ IsFiniteSet(1..k)
    BY <1>1, FS_Interval DEF StartsIn
  <2> QED BY <1>1, <2>1, FS_Subset
<1> HIDE DEF p, k
<1>5. StartsIn(p, e) = {i \in 1..(k + 1) : LiveIn(p, e, i) /\ ~ LiveIn(p, e, i - 1)}
  BY <1>1 DEF StartsIn
<1>6. StartsIn(q, e) = {i \in 1..k : LiveIn(q, e, i) /\ ~ LiveIn(q, e, i - 1)}
  BY DEF StartsIn, k
<1>7. \A i \in 1..k : (LiveIn(p, e, i) /\ ~ LiveIn(p, e, i - 1))
                        <=> (LiveIn(q, e, i) /\ ~ LiveIn(q, e, i - 1))
  <2> SUFFICES ASSUME NEW i \in 1..k PROVE LiveIn(p, e, i - 1) <=> LiveIn(q, e, i - 1)
    BY <1>2
  <2>1. i - 1 = 0 \/ i - 1 \in 1..k
    BY <1>1
  <2> QED BY <1>2, <2>1
<1>8. (k + 1) - 1 = k
  BY <1>1
<1>9. StartsIn(p, e) = StartsIn(q, e) \cup
        {i \in {k + 1} : LiveIn(p, e, i) /\ ~ LiveIn(p, e, k)}
  BY <1>1, <1>5, <1>6, <1>7, <1>8
<1>10. StartsIn(p, e) = IF Listed(f)[e] \in LiveContent /\ LastSaid(q, e) \notin LiveContent
                          THEN StartsIn(q, e) \cup {k + 1} ELSE StartsIn(q, e)
  BY <1>2, <1>3, <1>9
<1> QED BY <1>4, <1>10 DEF p, k

\* The counts keep agreeing.
LEMMA CountsStep ==
  ASSUME NEW q \in Seq(AppliedRun), NEW f \in AppliedRun, NEW e, NEW a, NEW b,
         RowStep(a, b, Listed(f)[e], ObservedAt(f)), RowTells(q, e, a), CurrentIsLast(a),
         Listed(f)[e] \in Content \cup {Missing}, a # NoAlert => a \in Alert,
         a # NoAlert => \A n \in Numbers(a) : a.revisions[n].closed_at # NoTime =>
           \E i \in 1..Len(q) : ObservedAt(q[i]) = a.revisions[n].closed_at,
         ObservedAt(f) # NoTime
  PROVE  CountsAgree(Append(q, f), e, b)
<1> DEFINE c == Listed(f)[e]
           t == ObservedAt(f)
           p == Append(q, f)
           R == LiveStartsOf(a)
           S == StartsIn(q, e)
<1>0. Missing \notin Content /\ NoAlert \notin Alert
  BY FeedAssumption, AlertAssumption
<1>1. /\ Len(q) \in Nat /\ Len(p) = Len(q) + 1 /\ p[Len(q) + 1] = f
      /\ \A i \in 1..Len(q) : p[i] = q[i]
  BY AppendFeed
<1>2. LiveStartsOf(b) = IF Begins(a, c) /\ ~ Merges(a, t) THEN R \cup {Len(b.revisions)} ELSE R
  BY <1>0, LiveStartsGrow DEF RowTells
<1>3. /\ StartsIn(p, e) = IF Begins(a, c) THEN S \cup {Len(q) + 1} ELSE S
      /\ IsFiniteSet(S) /\ Len(q) + 1 \notin S
  BY <1>0, StartsInAppend DEF Begins, RowTells
<1>4. IsFiniteSet(R)
  BY CountedEpisodesCount, FS_EmptySet DEF RowTells, RowInOrder, LiveStartsOf
<1>5. Cardinality(R) \in Nat /\ Cardinality(S) \in Nat
  BY <1>3, <1>4, FS_CardinalityType
<1>6. ASSUME Begins(a, c), ~ Merges(a, t) PROVE Len(b.revisions) \notin R
  <2>1. CASE a = NoAlert
    BY <2>1 DEF LiveStartsOf
  <2>2. CASE a # NoAlert
    <3>1. R \subseteq 1..Len(a.revisions) /\ Len(a.revisions) \in Nat
      BY <2>2 DEF LiveStartsOf, LiveStarts, Numbers, RowTells, RowInOrder, InOrder
    <3>2. ShownBy(a) = IF a.is_present THEN CurrentRevision(a).content ELSE Missing
      BY <2>2 DEF ShownBy
    <3>3. Len(b.revisions) = Len(a.revisions) + 1
      BY <1>0, <1>6, <2>2, <3>2 DEF Begins, LiveContent, RowStep, SeenStep, IdleStep, GoneStep,
         ChangedStep, ReturnedStep, NewStep
    <3> QED BY <3>1, <3>3
  <2> QED BY <2>1, <2>2
<1>7. DistinctTimes(p) => DistinctTimes(q)
  BY <1>1 DEF DistinctTimes
<1>8. DistinctTimes(p) => ~ Merges(a, t)
  <2> SUFFICES ASSUME Merges(a, t) PROVE ~ DistinctTimes(p)
    OBVIOUS
  <2>1. a # NoAlert /\ a.revisions[Len(a.revisions)].closed_at = t
    BY DEF Merges
  <2>2. Len(a.revisions) \in Numbers(a)
    BY <2>1 DEF RowTells, RowInOrder, InOrder, Numbers
  <2>3. PICK i \in 1..Len(q) : ObservedAt(q[i]) = t
    BY <2>1, <2>2
  <2>4. /\ i \in 1..Len(p) /\ Len(q) + 1 \in 1..Len(p) /\ i # Len(q) + 1
        /\ ObservedAt(p[i]) = ObservedAt(p[Len(q) + 1])
    BY <1>1, <2>3
  <2> QED BY <2>4 DEF DistinctTimes
<1>9. CountsAgree(q, e, a)
  BY DEF RowTells
<1> HIDE DEF c, t, p, R, S
<1>10. CASE Begins(a, c) /\ ~ Merges(a, t)
  <2>1. /\ Cardinality(LiveStartsOf(b)) = Cardinality(R) + 1
        /\ Cardinality(StartsIn(p, e)) = Cardinality(S) + 1
    BY <1>2, <1>3, <1>4, <1>6, <1>10, FS_AddElement
  <2> QED BY <1>5, <1>7, <1>9, <2>1 DEF CountsAgree, R, S, p
<1>11. CASE Begins(a, c) /\ Merges(a, t)
  <2>1. LiveStartsOf(b) = R /\ Cardinality(StartsIn(p, e)) = Cardinality(S) + 1
    BY <1>2, <1>3, <1>11, FS_AddElement
  <2> QED BY <1>5, <1>8, <1>9, <1>11, <2>1 DEF CountsAgree, R, S, p
<1>12. CASE ~ Begins(a, c)
  <2>1. LiveStartsOf(b) = R /\ StartsIn(p, e) = S
    BY <1>2, <1>3, <1>12
  <2> QED BY <1>5, <1>7, <1>9, <2>1 DEF CountsAgree, R, S, p
<1> QED BY <1>10, <1>11, <1>12

\* A row's revisions stay in order: the new one is seen first now.
LEMMA InOrderStep ==
  ASSUME NEW a, NEW b, NEW c, NEW t \in Nat, RowStep(a, b, c, t), RowInOrder(a),
         a # NoAlert => \A n \in Numbers(a) : a.revisions[n].first_seen_at <= t,
         c # Missing => c \in Content
  PROVE  RowInOrder(b)
<1> SUFFICES ASSUME b # NoAlert PROVE InOrder(b)
  BY DEF RowInOrder
<1>1. CASE a = NoAlert
  BY <1>1 DEF RowStep, FirstStep, InOrder, Numbers
<1>2. CASE a # NoAlert
  <2> DEFINE L == Len(a.revisions)
  <2>1. SamePast(a, b) /\ InOrder(a) /\ L \in Nat /\ L > 0 /\ Numbers(a) = 1..L
    BY <1>2 DEF RowStep, RowInOrder, InOrder, Numbers
  <2>2. \A n \in 1..L : b.revisions[n].first_seen_at = a.revisions[n].first_seen_at
    BY <2>1 DEF SamePast
  <2>3. /\ \A n \in 1..L : a.revisions[n].first_seen_at \in Nat
        /\ \A m, n \in 1..L : m < n => a.revisions[m].first_seen_at <= a.revisions[n].first_seen_at
    BY <2>1 DEF InOrder
  <2>4. CASE Len(b.revisions) = L
    <3>1. Numbers(b) = 1..L
      BY <2>4 DEF Numbers
    <3> QED BY <2>1, <2>2, <2>3, <2>4, <3>1 DEF InOrder
  <2>5. CASE NewStep(a, b, c, t)
    <3>1. /\ Len(b.revisions) = L + 1 /\ Numbers(b) = 1..(L + 1)
          /\ b.revisions[L + 1].first_seen_at = t
      BY <2>5 DEF NewStep, Numbers
    <3>2. \A n \in 1..L : a.revisions[n].first_seen_at <= t
      BY <1>2, <2>1
    <3>3. ASSUME NEW m \in 1..(L + 1), NEW n \in 1..(L + 1), m < n
          PROVE  b.revisions[m].first_seen_at <= b.revisions[n].first_seen_at
      <4>1. m \in 1..L /\ (n \in 1..L \/ n = L + 1)
        BY <2>1, <3>3
      <4> QED BY <2>2, <2>3, <3>1, <3>2, <3>3, <4>1
    <3>4. \A n \in 1..(L + 1) : b.revisions[n].first_seen_at \in Nat
      BY <2>1, <2>2, <2>3, <3>1
    <3> QED BY <2>1, <3>1, <3>3, <3>4 DEF InOrder
  <2>6. Len(b.revisions) = L \/ NewStep(a, b, c, t)
    BY <1>2 DEF RowStep, SeenStep, IdleStep, GoneStep, ChangedStep, ReturnedStep, SameRevisions
  <2> QED BY <2>4, <2>5, <2>6
<1> QED BY <1>1, <1>2

\* The last live revision keeps the content of the last live feed.
LEMMA LastLiveStep ==
  ASSUME NEW q \in Seq(AppliedRun), NEW f \in AppliedRun, NEW e, NEW a, NEW b,
         RowStep(a, b, Listed(f)[e], ObservedAt(f)), RowTells(q, e, a), CurrentIsLast(a),
         Listed(f)[e] \in Content \cup {Missing}
  PROVE  LastLiveAgrees(Append(q, f), e, b)
<1> DEFINE c == Listed(f)[e]
           t == ObservedAt(f)
           p == Append(q, f)
           k == Len(q) + 1
<1>0. Missing \notin Content
  BY FeedAssumption
<1>1. /\ Len(q) \in Nat /\ Len(p) = k /\ p[k] = f
      /\ \A i \in 1..Len(q) : p[i] = q[i]
  BY AppendFeed
<1>2. /\ \A i \in 1..Len(q) : LiveIn(p, e, i) <=> LiveIn(q, e, i)
      /\ LiveIn(p, e, k) <=> c \in LiveContent
      /\ \A i : LiveIn(p, e, i) => i \in 1..k
  BY LiveInAppend
<1> SUFFICES ASSUME b # NoAlert, NEW n, LastLiveNumber(b, n)
             PROVE  \E i : LastLivePosition(p, e, i) /\ b.revisions[n].content = Listed(p[i])[e]
  BY DEF LastLiveAgrees
<1> HIDE DEF p
<1>3. ASSUME c \in LiveContent, b.revisions[n].content = c
      PROVE  LastLivePosition(p, e, k) /\ b.revisions[n].content = Listed(p[k])[e]
  BY <1>1, <1>2, <1>3 DEF LastLivePosition
<1>4. ASSUME c \notin LiveContent, a # NoAlert, LastLiveNumber(a, n),
             b.revisions[n].content = a.revisions[n].content
      PROVE  \E i : LastLivePosition(p, e, i) /\ b.revisions[n].content = Listed(p[i])[e]
  <2>1. PICK i : LastLivePosition(q, e, i) /\ a.revisions[n].content = Listed(q[i])[e]
    BY <1>4 DEF RowTells, LastLiveAgrees
  <2>2. i \in 1..Len(q) /\ p[i] = q[i]
    BY <1>1, <2>1 DEF LastLivePosition, LiveIn
  <2>3. \A j : LiveIn(p, e, j) => j \in 1..Len(q) /\ LiveIn(q, e, j)
    BY <1>1, <1>2, <1>4
  <2>4. LastLivePosition(p, e, i)
    BY <1>2, <2>1, <2>2, <2>3 DEF LastLivePosition
  <2> QED BY <1>4, <2>1, <2>2, <2>4
<1>5. CASE a = NoAlert
  <2>1. FirstStep(b, c, t)
    BY <1>5 DEF RowStep
  <2>2. n = 1 /\ c \in LiveContent /\ b.revisions[n].content = c
    BY <2>1 DEF FirstStep, LastLiveNumber, Numbers, IsDeleted, LiveContent
  <2> QED BY <1>3, <2>2
<1>6. CASE a # NoAlert
  <2> DEFINE L == Len(a.revisions)
  <2>1. SamePast(a, b) /\ L \in Nat /\ L > 0 /\ Numbers(a) = 1..L /\ a.current = L
    BY <1>6 DEF RowStep, RowTells, RowInOrder, InOrder, Numbers, CurrentIsLast
  <2>2. \A m \in 1..L : b.revisions[m].content = a.revisions[m].content
    BY <2>1 DEF SamePast
  <2>3. \A m \in 1..L : IsDeleted(b.revisions[m]) <=> IsDeleted(a.revisions[m])
    BY <2>2 DEF IsDeleted
  <2>4. CASE Len(b.revisions) = L
    <3>1. Numbers(b) = 1..L /\ n \in 1..L
      BY <2>4 DEF Numbers, LastLiveNumber
    <3>2. LastLiveNumber(a, n)
      BY <2>1, <2>3, <3>1 DEF LastLiveNumber
    <3>3. CASE c \notin LiveContent
      BY <1>4, <1>6, <2>2, <3>1, <3>2, <3>3
    <3>4. CASE c \in LiveContent
      <4>1. a.is_present /\ a.revisions[L].content = c
        BY <1>0, <1>6, <2>1, <2>4, <3>4
        DEF RowStep, SeenStep, IdleStep, GoneStep, ChangedStep, ReturnedStep, NewStep,
            LiveContent, CurrentRevision
      <4>2. ~ IsDeleted(a.revisions[L])
        BY <3>4, <4>1 DEF IsDeleted, LiveContent
      <4>3. n = L
        BY <2>1, <3>1, <3>2, <4>2 DEF LastLiveNumber
      <4> QED BY <1>3, <2>2, <3>1, <3>4, <4>1, <4>3
    <3> QED BY <3>3, <3>4
  <2>5. CASE NewStep(a, b, c, t)
    <3>1. /\ Len(b.revisions) = L + 1 /\ Numbers(b) = 1..(L + 1) /\ c \in Content
          /\ b.revisions[L + 1].content = c
      BY <2>5 DEF NewStep, Numbers
    <3>2. IsDeleted(b.revisions[L + 1]) <=> c \notin LiveContent
      BY <3>1 DEF IsDeleted, LiveContent
    <3>3. CASE c \in LiveContent
      <4>1. n = L + 1
        BY <2>1, <3>1, <3>2, <3>3 DEF LastLiveNumber
      <4> QED BY <1>3, <3>1, <3>3, <4>1
    <3>4. CASE c \notin LiveContent
      <4>1. n \in 1..L /\ LastLiveNumber(a, n)
        <5>1. /\ n \in 1..(L + 1) /\ ~ IsDeleted(b.revisions[n])
              /\ \A m \in 1..(L + 1) : m > n => IsDeleted(b.revisions[m])
          BY <3>1 DEF LastLiveNumber
        <5>2. n # L + 1
          BY <3>2, <3>4, <5>1
        <5>3. n \in 1..L /\ 1..L \subseteq 1..(L + 1)
          BY <2>1, <5>1, <5>2
        <5>4. ~ IsDeleted(a.revisions[n])
          BY <2>3, <5>1, <5>3
        <5>5. \A m \in 1..L : m > n => IsDeleted(a.revisions[m])
          BY <2>3, <5>1, <5>3
        <5> QED BY <2>1, <5>3, <5>4, <5>5 DEF LastLiveNumber
      <4> QED BY <1>4, <1>6, <2>2, <3>4, <4>1
    <3> QED BY <3>3, <3>4
  <2>6. Len(b.revisions) = L \/ NewStep(a, b, c, t)
    BY <1>6 DEF RowStep, SeenStep, IdleStep, GoneStep, ChangedStep, ReturnedStep, SameRevisions
  <2> QED BY <2>4, <2>5, <2>6
<1> QED BY <1>5, <1>6

-----------------------------------------------------------------------------
(* The inductive invariant of the episodes.                                *)

\* The feeds recorded in order are the feeds of the applied runs.
FeedsApplied ==
  /\ feeds \in [Source -> Seq(AppliedRun)]
  /\ \A s \in Source : AppliedTo(s) = {feeds[s][i] : i \in 1..Len(feeds[s])}

\* Every row tells of the feeds of its source.
RowsTell == \A s \in Source, e \in Entity : RowTells(feeds[s], e, alerts[s][e])

\* The invariant of the writer (Inv, of AlertHistoryProofs) says what rows look
\* like; the other two say what they remember.
EpisodeInv == Inv /\ FeedsApplied /\ RowsTell

\* Initially there are no rows, and no feeds to tell of.
LEMMA InitEpisodeInv == InitEpisodes => EpisodeInv
<1> SUFFICES ASSUME InitEpisodes PROVE EpisodeInv
  OBVIOUS
<1>1. Inv
  BY InitInv DEF InitEpisodes
<1>2. \A s \in Source : feeds[s] = << >> /\ AppliedTo(s) = {}
  BY DEF InitEpisodes, Init, AppliedTo
<1>3. FeedsApplied
  BY <1>2 DEF FeedsApplied, InitEpisodes
<1>4. ASSUME NEW s \in Source, NEW e \in Entity
      PROVE  RowTells(feeds[s], e, alerts[s][e])
  <2>1. alerts[s][e] = NoAlert /\ feeds[s] = << >> /\ Len(<< >>) = 0
    BY <1>2 DEF InitEpisodes, Init
  <2>2. StartsIn(<< >>, e) = {} /\ LiveStartsOf(NoAlert) = {}
    BY DEF StartsIn, LiveStartsOf
  <2>3. CountsAgree(<< >>, e, NoAlert)
    BY <2>2, FS_EmptySet DEF CountsAgree
  <2>4. ShownBy(NoAlert) = LastSaid(<< >>, e)
    BY DEF ShownBy, LastSaid
  <2> QED BY <2>1, <2>3, <2>4 DEF RowTells, RowInOrder, LastLiveAgrees
<1> QED BY <1>1, <1>3, <1>4 DEF EpisodeInv, RowsTell

\* What ApplyFeed does, row by row.
LEMMA ApplyFeedRows ==
  ASSUME EpisodeInv, NEW f \in AppliedRun, ApplyFeed(f)
  PROVE  /\ f.source \in Source /\ Inv'
         /\ \A e \in Entity : RowStep(alerts[f.source][e], alerts'[f.source][e],
                                      Listed(f)[e], ObservedAt(f))
         /\ feeds'[f.source] = Append(feeds[f.source], f)
         /\ feeds' \in [Source -> Seq(AppliedRun)]
         /\ \A s \in Source \ {f.source} :
              alerts'[s] = alerts[s] /\ feeds'[s] = feeds[s] /\ AppliedTo(s)' = AppliedTo(s)
         /\ AppliedTo(f.source)' = AppliedTo(f.source) \cup {f}
         /\ Follows(f, AppliedTo(f.source))
<1> DEFINE z == f.source
<1>1. Inv /\ TypeOK /\ Apply(f) /\ z \in Source
  BY DEF EpisodeInv, Inv, ApplyFeed, AppliedRun
<1>2. Follows(f, AppliedTo(z))
  BY <1>1, ApplyFollows
<1>3. ASSUME NEW e \in Entity
      PROVE  RowStep(alerts[z][e], alerts'[z][e], Listed(f)[e], ObservedAt(f))
  <2>1. alerts'[z][e] = Reconciled(alerts[z][e], f, e)
    BY <1>1, ApplyRows
  <2>2. alerts[z][e] \in Alert \cup {NoAlert} /\ EntityOK(AppliedTo(z), e, alerts[z][e])
    BY <1>1 DEF Inv, TypeOK
  <2> QED BY <1>2, <2>1, <2>2, ReconciledStep
<1>4. /\ feeds'[z] = Append(feeds[z], f) /\ feeds' \in [Source -> Seq(AppliedRun)]
      /\ \A s \in Source \ {z} : feeds'[s] = feeds[s]
  BY <1>1 DEF EpisodeInv, FeedsApplied, ApplyFeed
<1>5. /\ AppliedTo(z)' = AppliedTo(z) \cup {f}
      /\ \A s \in Source \ {z} : alerts'[s] = alerts[s] /\ AppliedTo(s)' = AppliedTo(s)
  BY <1>1, ApplyRows
<1>6. Inv'
  BY <1>1, ApplyInv
<1> QED BY <1>1, <1>2, <1>3, <1>4, <1>5, <1>6

\* What the invariant says of one row before the feed f of its source.
LEMMA RowBefore ==
  ASSUME EpisodeInv, NEW f \in AppliedRun, Follows(f, AppliedTo(f.source)), NEW e \in Entity
  PROVE  LET a == alerts[f.source][e] IN
         /\ a \in Alert \cup {NoAlert} /\ RowInOrder(a) /\ CurrentIsLast(a)
         /\ Listed(f)[e] \in Content \cup {Missing}
         /\ ObservedAt(f) \in Nat /\ ObservedAt(f) # NoTime
         /\ a # NoAlert => \A n \in Numbers(a) :
              /\ a.revisions[n] \in Revision
              /\ a.revisions[n].first_seen_at <= ObservedAt(f)
              /\ a.revisions[n].last_seen_at <= ObservedAt(f)
              /\ a.revisions[n].closed_at # NoTime =>
                   \E i \in 1..Len(feeds[f.source]) :
                     ObservedAt(feeds[f.source][i]) = a.revisions[n].closed_at
<1> DEFINE z == f.source
           a == alerts[z][e]
           A == AppliedTo(z)
<1>1. z \in Source /\ Inv /\ a \in Alert \cup {NoAlert} /\ EntityOK(A, e, a)
  BY DEF AppliedRun, EpisodeInv, Inv, TypeOK
<1>2. /\ Listed(f)[e] \in Content \cup {Missing} /\ ObservedAt(f) \in Nat
      /\ ObservedAt(f) # NoTime
  BY FeedFacts, FollowsFacts, TimeAssumption DEF Follows
<1>3. RowInOrder(a)
  BY <1>1 DEF EpisodeInv, RowsTell, RowTells
<1>4. ASSUME a # NoAlert
      PROVE  /\ a.current = Len(a.revisions)
             /\ \A n \in Numbers(a) :
                  /\ a.revisions[n] \in Revision
                  /\ a.revisions[n].first_seen_at <= ObservedAt(f)
                  /\ a.revisions[n].last_seen_at <= ObservedAt(f)
                  /\ a.revisions[n].closed_at # NoTime =>
                       \E g \in A : ObservedAt(g) = a.revisions[n].closed_at
  <2>1. a \in Alert /\ RowOK(A, e, a)
    BY <1>1, <1>4 DEF EntityOK
  <2> HIDE DEF a, A, z
  <2>2. /\ a.current = Len(a.revisions)
        /\ \A n \in Numbers(a) :
             /\ a.revisions[n] \in Revision
             /\ a.revisions[n].first_seen_at \in Nat /\ a.revisions[n].last_seen_at \in Nat
             /\ a.revisions[n].first_seen_at <= a.revisions[n].last_seen_at
             /\ a.revisions[n].last_seen_at <= ObservedAt(f)
    BY <2>1, RowBounded DEF Numbers, A, z
  <2>3. \A n \in Numbers(a) : a.revisions[n].closed_at # NoTime =>
           \E g \in A : ObservedAt(g) = a.revisions[n].closed_at
    BY <2>1 DEF RowOK, RowTraceable, ClosedBy, Numbers
  <2> QED BY <1>2, <2>2, <2>3
<1>5. A = {feeds[z][i] : i \in 1..Len(feeds[z])}
  BY <1>1 DEF EpisodeInv, FeedsApplied
<1> HIDE DEF a, A, z
<1>6. CurrentIsLast(a)
  BY <1>4 DEF CurrentIsLast
<1> QED BY <1>1, <1>2, <1>3, <1>4, <1>5, <1>6 DEF a, A, z

\* A feed keeps the invariant.
LEMMA ApplyFeedInv ==
  ASSUME EpisodeInv, NEW f \in AppliedRun, ApplyFeed(f)
  PROVE  EpisodeInv'
<1> DEFINE z == f.source
<1>1. /\ z \in Source /\ Inv'
      /\ \A e \in Entity : RowStep(alerts[z][e], alerts'[z][e], Listed(f)[e], ObservedAt(f))
      /\ feeds'[z] = Append(feeds[z], f) /\ feeds' \in [Source -> Seq(AppliedRun)]
      /\ \A s \in Source \ {z} :
           alerts'[s] = alerts[s] /\ feeds'[s] = feeds[s] /\ AppliedTo(s)' = AppliedTo(s)
      /\ AppliedTo(z)' = AppliedTo(z) \cup {f}
      /\ Follows(f, AppliedTo(z))
  BY ApplyFeedRows
<1>2. /\ feeds[z] \in Seq(AppliedRun)
      /\ \A s \in Source : AppliedTo(s) = {feeds[s][i] : i \in 1..Len(feeds[s])}
  BY <1>1 DEF EpisodeInv, FeedsApplied
<1> DEFINE q == feeds[z]
           p == Append(feeds[z], f)
<1>3. /\ Len(q) \in Nat /\ Len(p) = Len(q) + 1 /\ p[Len(q) + 1] = f
      /\ \A i \in 1..Len(q) : p[i] = q[i]
  BY <1>2, AppendFeed
<1>4. FeedsApplied'
  <2>1. ASSUME NEW s \in Source
        PROVE  AppliedTo(s)' = {feeds'[s][i] : i \in 1..Len(feeds'[s])}
    <3>1. CASE s = z
      <4>0. AppliedTo(z) = {q[i] : i \in 1..Len(q)} /\ feeds'[s] = p
        BY <1>1, <1>2, <3>1
      <4> HIDE DEF q, p
      <4>1. {p[i] : i \in 1..Len(p)} = {q[i] : i \in 1..Len(q)} \cup {f}
        BY <1>3
      <4>2. AppliedTo(z)' = {p[i] : i \in 1..Len(p)}
        BY <1>1, <4>0, <4>1
      <4> QED BY <3>1, <4>0, <4>2
    <3>2. CASE s # z
      BY <1>1, <1>2, <3>2
    <3> QED BY <3>1, <3>2
  <2> QED BY <1>1, <2>1 DEF FeedsApplied
<1>5. ASSUME NEW s \in Source, NEW e \in Entity
      PROVE  RowTells(feeds[s], e, alerts[s][e])'
  <2>0. RowTells(feeds[s], e, alerts[s][e])
    BY DEF EpisodeInv, RowsTell
  <2>1. CASE s # z
    <3>1. feeds'[s] = feeds[s] /\ alerts'[s] = alerts[s]
      BY <1>1, <2>1
    <3>2. RowTells(feeds'[s], e, alerts'[s][e])
      BY <2>0, <3>1
    <3> QED BY <3>2 DEF RowTells, CountsAgree, LastLiveAgrees, DistinctTimes
  <2>2. CASE s = z
    <3> DEFINE a == alerts[z][e]
               b == alerts'[z][e]
               c == Listed(f)[e]
               t == ObservedAt(f)
    <3>1. RowStep(a, b, c, t)
      BY <1>1
    <3>2. RowTells(q, e, a)
      BY <2>0, <2>2
    <3>3. /\ a \in Alert \cup {NoAlert} /\ RowInOrder(a) /\ CurrentIsLast(a)
          /\ c \in Content \cup {Missing} /\ t \in Nat /\ t # NoTime
          /\ a # NoAlert => \A n \in Numbers(a) :
               /\ a.revisions[n].first_seen_at <= t
               /\ a.revisions[n].closed_at # NoTime =>
                    \E i \in 1..Len(q) : ObservedAt(q[i]) = a.revisions[n].closed_at
      BY <1>1, RowBefore
    <3>4. Inv /\ Apply(f)
      BY DEF EpisodeInv, ApplyFeed
    <3>5. ShownBy(b) = c
      BY <1>1, <3>4, ApplyEntities DEF EntityStep
    <3>6. LastSaid(p, e) = c
      BY <1>3 DEF LastSaid
    <3>7. RowInOrder(b)
      BY <3>1, <3>3, InOrderStep
    <3>8. CountsAgree(p, e, b)
      BY <1>2, <3>1, <3>2, <3>3, CountsStep
    <3>9. LastLiveAgrees(p, e, b)
      BY <1>2, <3>1, <3>2, <3>3, LastLiveStep
    <3>10. RowTells(p, e, b)
      BY <3>5, <3>6, <3>7, <3>8, <3>9 DEF RowTells
    <3> QED BY <1>1, <2>2, <3>10
  <2> QED BY <2>1, <2>2
<1> QED BY <1>1, <1>4, <1>5 DEF EpisodeInv, RowsTell

\* So do the steps of both specifications, which apply feeds or leave the
\* history alone.
LEMMA HistoryStepInv ==
  ASSUME EpisodeInv,
         (\E f \in AppliedRun : ApplyFeed(f)) \/ UNCHANGED <<alerts, applied, feeds>>
  PROVE  EpisodeInv'
<1>1. CASE UNCHANGED <<alerts, applied, feeds>>
  <2>1. Inv'
    BY <1>1, NextInv DEF EpisodeInv, vars
  <2>2. FeedsApplied' /\ RowsTell'
    BY <1>1 DEF EpisodeInv, FeedsApplied, RowsTell, AppliedTo, RowTells
  <2> QED BY <2>1, <2>2 DEF EpisodeInv
<1> QED BY <1>1, ApplyFeedInv

\* The reads never change what they read.
LEMMA ReadsLeaveHistory ==
  ASSUME [NextReads]_readVars
  PROVE  (\E f \in AppliedRun : ApplyFeed(f)) \/ UNCHANGED <<alerts, applied, feeds>>
BY DEF NextReads, readVars, FeedArrives, ImportArrives, ReadAlert, ReadLine, Finish, StartWalk,
       NextPage, FinishPage, Unread

\* The invariant of the episodes holds for every sequence of feeds.
THEOREM EpisodeInvariance == EpisodeSpec => []EpisodeInv
<1>1. EpisodeInv /\ [NextEpisodes]_episodeVars => EpisodeInv'
  BY HistoryStepInv DEF NextEpisodes, episodeVars
<1> QED BY InitEpisodeInv, <1>1, PTL DEF EpisodeSpec

\* And while the read repository serves them.
THEOREM ReadsKeepHistory == ReadsSpec => []EpisodeInv
<1>1. InitReads => EpisodeInv
  BY InitEpisodeInv DEF InitReads
<1>2. EpisodeInv /\ [NextReads]_readVars => EpisodeInv'
  BY HistoryStepInv, ReadsLeaveHistory
<1> QED BY <1>1, <1>2, PTL DEF ReadsSpec

\* The episode views count an alert once per appearance, for any feeds in any
\* order of arrival; equal observation times can only merge appearances.
THEOREM EpisodesAlwaysAppearances == EpisodeSpec => []EpisodesAreAppearances
<1>1. EpisodeInv => EpisodesAreAppearances
  <2> SUFFICES ASSUME EpisodeInv, NEW s \in Source, NEW e \in Entity
               PROVE  /\ Count(s, e) <= Cardinality(Appearances(s, e))
                      /\ Distinct(s) => Count(s, e) = Cardinality(Appearances(s, e))
    BY DEF EpisodesAreAppearances
  <2>1. RowTells(feeds[s], e, alerts[s][e]) /\ Len(feeds[s]) \in Nat
    BY DEF EpisodeInv, RowsTell, FeedsApplied
  <2>2. \A i : Live(s, e, i) <=> LiveIn(feeds[s], e, i)
    BY DEF Live, LiveIn, LiveContent, Says
  <2>3. Cardinality(Appearances(s, e)) = Cardinality(StartsIn(feeds[s], e))
    BY <2>1, <2>2, AppearancesCount DEF AppearanceStarts, StartsIn
  <2>4. Count(s, e) = Cardinality(LiveStartsOf(alerts[s][e]))
    BY <2>1, CountedEpisodesCount, FS_EmptySet
    DEF Count, Known, LiveStartsOf, RowTells, RowInOrder
  <2>5. Distinct(s) <=> DistinctTimes(feeds[s])
    BY DEF Distinct, DistinctTimes
  <2> QED BY <2>1, <2>3, <2>4, <2>5 DEF RowTells, CountsAgree
<1> QED BY <1>1, EpisodeInvariance, PTL

-----------------------------------------------------------------------------
(* The alerts with their ids.                                              *)

\* The greatest of a set of numbers, once there is one.
LEMMA MaxIs ==
  ASSUME NEW S \in SUBSET Int, NEW x \in S, \A y \in S : y <= x
  PROVE  Max(S) = x
<1>1. \A y \in S : x >= y
  OBVIOUS
<1>2. Max(S) \in S /\ \A y \in S : Max(S) >= y
  BY <1>1 DEF Max
<1> DEFINE m == Max(S)
<1>3. m \in Int /\ x \in Int /\ m >= x /\ m <= x
  BY <1>2
<1> HIDE DEF m
<1>4. m = x
  BY <1>3
<1> QED BY <1>4 DEF m

\* The last of some revisions is the one with the greatest number.
LEMMA LastOfIs ==
  ASSUME NEW a, InOrder(a), NEW T \in SUBSET Numbers(a), T # {}
  PROVE  LastOf(a, T) \in T /\ \A m \in T : m <= LastOf(a, T)
<1>0. Numbers(a) = 1..Len(a.revisions) /\ Len(a.revisions) \in Nat
  BY DEF Numbers, InOrder
<1>1. PICK x \in T : \A y \in T : y <= x
  <2>1. T \in SUBSET (0..Len(a.revisions))
    BY <1>0
  <2> QED BY <1>0, <2>1, GreatestNumber
<1>2. ASSUME NEW m \in T \ {x} PROVE Precedes(a, m, x)
  <2>1. m \in Numbers(a) /\ x \in Numbers(a) /\ m < x
    BY <1>0, <1>1
  <2> QED BY <2>1, PrecedesIsLess
<1> DEFINE n == LastOf(a, T)
<1>3. n \in T /\ \A m \in T \ {n} : Precedes(a, m, n)
  BY <1>2 DEF LastOf
<1> HIDE DEF n
<1>4. ASSUME NEW m \in T PROVE m <= n
  <2>1. m \in Numbers(a) /\ n \in Numbers(a) /\ (m = n \/ Precedes(a, m, n))
    BY <1>3
  <2>2. m = n \/ m < n
    BY <2>1, PrecedesIsLess
  <2> QED BY <1>0, <2>1, <2>2
<1> QED BY <1>3, <1>4 DEF n

\* Every id is that of a stored alert.
IdsOK ==
  /\ ids \in Seq(Source \X Entity)
  /\ \A n \in 1..Len(ids) : alerts[ids[n][1]][ids[n][2]] # NoAlert

\* The ids a feed adds are of alerts that were not stored before.
LEMMA NewIdsAre ==
  ASSUME EpisodeInv, NEW f \in AppliedRun, ApplyFeed(f), NEW new \in NewIds(f)
  PROVE  /\ new \in Seq(Source \X Entity)
         /\ \A n \in 1..Len(new) : /\ alerts'[new[n][1]][new[n][2]] # NoAlert
                                   /\ alerts[new[n][1]][new[n][2]] = NoAlert
<1> DEFINE z == f.source
           E == {e \in Entity : ~ Known(z, e) /\ Known(z, e)'}
           P == {<<z, e>> : e \in E}
           g == [e \in E |-> <<z, e>>]
<1>1. /\ z \in Source
      /\ \A e \in Entity : RowStep(alerts[z][e], alerts'[z][e], Listed(f)[e], ObservedAt(f))
  BY ApplyFeedRows
<1>2. E \in SUBSET {e \in Entity : Listed(f)[e] # Missing}
  BY <1>1 DEF Known, RowStep
<1>3. IsFiniteSet(E)
  BY <1>2, BodyAssumption, FS_Subset DEF Listed, AppliedRun
<1>4. IsFiniteSet(P)
  <2>1. g \in Surjection(E, P)
    BY DEF Surjection
  <2> QED BY <1>3, <2>1, FS_Surjection
<1>5. Cardinality(P) \in Nat /\ new \in SetToSeqs(P)
  BY <1>4, FS_CardinalityType DEF NewIds
<1>6. new \in Seq(P)
  BY <1>5 DEF SetToSeqs
<1>7. \A n \in 1..Len(new) : \E e \in E : new[n] = <<z, e>>
  BY <1>6
<1>8. P \subseteq Source \X Entity
  BY <1>1
<1>9. new \in Seq(Source \X Entity)
  BY <1>6, <1>8
<1> QED BY <1>7, <1>9 DEF Known

\* The ids after a feed: the old ones, then those of the new alerts.
LEMMA IdsAfterFeed ==
  ASSUME EpisodeInv, IdsOK, NEW f \in AppliedRun, FeedArrives(f)
  PROVE  /\ IdsOK' /\ Len(ids) \in Nat /\ Len(ids') \in Nat /\ Len(ids) <= Len(ids')
         /\ \A n \in 1..Len(ids) : ids'[n] = ids[n]
         /\ \A n \in 1..Len(ids') : n > Len(ids) => alerts[ids'[n][1]][ids'[n][2]] = NoAlert
<1>1. ApplyFeed(f)
  BY DEF FeedArrives
<1>2. PICK new \in NewIds(f) : ids' = ids \o new
  BY DEF FeedArrives
<1>3. /\ new \in Seq(Source \X Entity)
      /\ \A n \in 1..Len(new) : /\ alerts'[new[n][1]][new[n][2]] # NoAlert
                                /\ alerts[new[n][1]][new[n][2]] = NoAlert
  BY <1>1, NewIdsAre
<1>4. /\ ids \in Seq(Source \X Entity)
      /\ \A n \in 1..Len(ids) : alerts[ids[n][1]][ids[n][2]] # NoAlert
  BY DEF IdsOK
<1>5. /\ ids' \in Seq(Source \X Entity) /\ Len(ids') = Len(ids) + Len(new)
      /\ \A i \in 1..Len(ids) : ids'[i] = ids[i]
      /\ \A i \in 1..Len(new) : ids'[Len(ids) + i] = new[i]
      /\ Len(ids) \in Nat /\ Len(new) \in Nat
  BY <1>2, <1>3, <1>4
<1>6. ASSUME NEW n \in 1..Len(ids') PROVE alerts'[ids'[n][1]][ids'[n][2]] # NoAlert
  <2>1. CASE n \in 1..Len(ids)
    <3>1. ids'[n] = ids[n] /\ ids[n][1] \in Source /\ ids[n][2] \in Entity
      BY <1>4, <1>5, <2>1
    <3>2. alerts[ids[n][1]][ids[n][2]] # NoAlert
      BY <1>4, <2>1
    <3>3. CASE ids[n][1] = f.source
      <4>1. RowStep(alerts[f.source][ids[n][2]], alerts'[f.source][ids[n][2]],
                    Listed(f)[ids[n][2]], ObservedAt(f))
        BY <1>1, <3>1, ApplyFeedRows
      <4>2. alerts'[f.source][ids[n][2]] \in Alert
        BY <3>2, <3>3, <4>1 DEF RowStep
      <4> QED BY <3>1, <3>3, <4>2, AlertAssumption
    <3>4. CASE ids[n][1] # f.source
      BY <1>1, <3>1, <3>2, <3>4, ApplyFeedRows
    <3> QED BY <3>3, <3>4
  <2>2. CASE n \notin 1..Len(ids)
    <3>1. PICK i \in 1..Len(new) : n = Len(ids) + i
      <4>1. n - Len(ids) \in 1..Len(new) /\ n = Len(ids) + (n - Len(ids))
        BY <1>5, <2>2
      <4> QED BY <4>1
    <3> QED BY <1>3, <1>5, <3>1
  <2> QED BY <2>1, <2>2
<1>7. ASSUME NEW n \in 1..Len(ids'), n > Len(ids)
      PROVE  alerts[ids'[n][1]][ids'[n][2]] = NoAlert
  <2>1. PICK i \in 1..Len(new) : n = Len(ids) + i
    <3>1. n - Len(ids) \in 1..Len(new) /\ n = Len(ids) + (n - Len(ids))
      BY <1>5, <1>7
    <3> QED BY <3>1
  <2> QED BY <1>3, <1>5, <2>1
<1> QED BY <1>5, <1>6, <1>7 DEF IdsOK

\* Ids stay those of stored alerts.
LEMMA IdsStep ==
  ASSUME EpisodeInv, IdsOK, [NextReads]_readVars
  PROVE  IdsOK'
<1>1. CASE \E f \in AppliedRun : FeedArrives(f)
  BY <1>1, IdsAfterFeed
<1>2. CASE UNCHANGED <<alerts, ids>>
  BY <1>2 DEF IdsOK
<1> QED BY <1>1, <1>2 DEF NextReads, readVars, ImportArrives, ReadAlert, ReadLine, Finish,
           StartWalk, NextPage, FinishPage, Unread

\* Ids are always those of stored alerts.
LEMMA IdsAlwaysOK == ReadsSpec => [](EpisodeInv /\ IdsOK)
<1>1. InitReads => EpisodeInv /\ IdsOK
  <2>1. InitReads => IdsOK
    BY DEF InitReads, IdsOK
  <2> QED BY <2>1, InitEpisodeInv DEF InitReads
<1>2. EpisodeInv /\ IdsOK /\ [NextReads]_readVars => (EpisodeInv /\ IdsOK)'
  BY HistoryStepInv, ReadsLeaveHistory, IdsStep
<1> QED BY <1>1, <1>2, PTL DEF ReadsSpec

\* The historical list shows of an alert what the last feed that showed it
\* live said, for any feeds and through equal observation times.
THEOREM HistoricalAlwaysLastLive == ReadsSpec => []HistoricalShowsLastLive
<1> DEFINE all == [line |-> NoLine, from |-> NoTime, to |-> NoTime]
<1>1. EpisodeInv /\ IdsOK => HistoricalShowsLastLive
  <2> SUFFICES ASSUME EpisodeInv, IdsOK, NEW id \in Historical(Database, all)
               PROVE  LET s == ids[id][1]
                          e == ids[id][2]
                          last == Max({i \in 1..Len(feeds[s]) : Live(s, e, i)})
                          shown == ListedRevision(network, alerts[s][e], all)
                      IN  alerts[s][e].revisions[shown].content = Says(s, e, last)
    BY DEF HistoricalShowsLastLive
  <2> DEFINE s == ids[id][1]
             e == ids[id][2]
             a == alerts[s][e]
             T == Selectable(network, a, all)
             n == LastOf(a, T)
             P == {i \in 1..Len(feeds[s]) : Live(s, e, i)}
  <2>1. id \in DOMAIN ids /\ T # {}
    BY DEF Historical, Database, Row
  <2>2. s \in Source /\ e \in Entity /\ a # NoAlert
    BY <2>1 DEF IdsOK
  <2>3. RowTells(feeds[s], e, a) /\ Len(feeds[s]) \in Nat
    BY <2>2 DEF EpisodeInv, RowsTell, FeedsApplied
  <2>4. InOrder(a) /\ LastLiveAgrees(feeds[s], e, a)
    BY <2>2, <2>3 DEF RowTells, RowInOrder
  <2>5. T = {m \in Numbers(a) : ~ IsDeleted(a.revisions[m])}
    <3>1. \A m \in Numbers(a) : Matches(network, a.revisions[m], all)
      BY DEF Matches
    <3> QED BY <3>1 DEF Selectable
  <2> HIDE DEF T
  <2>6. n \in T /\ \A m \in T : m <= n
    BY <2>1, <2>4, <2>5, LastOfIs
  <2> HIDE DEF n
  <2>7. LastLiveNumber(a, n)
    <3>1. ASSUME NEW m \in Numbers(a), m > n PROVE m \notin T
      <4>0. Numbers(a) \subseteq Nat
        BY <2>4, NumbersAreNat
      <4>1. m \in Nat /\ n \in Nat
        BY <2>5, <2>6, <4>0
      <4> QED BY <2>6, <3>1, <4>1
    <3> QED BY <2>5, <2>6, <3>1 DEF LastLiveNumber
  <2>8. PICK i : LastLivePosition(feeds[s], e, i) /\ a.revisions[n].content = Listed(feeds[s][i])[e]
    BY <2>2, <2>4, <2>7 DEF LastLiveAgrees
  <2>9. i \in P /\ \A j \in P : j <= i
    BY <2>8 DEF LastLivePosition, LiveIn, Live, Says, LiveContent
  <2>10. Max(P) = i
    <3>1. P \in SUBSET Int
      OBVIOUS
    <3> QED BY <2>9, <3>1, MaxIs
  <2>11. ListedRevision(network, a, all) = n
    BY DEF ListedRevision, n, T
  <2> QED BY <2>8, <2>10, <2>11 DEF Says
<1> QED BY <1>1, IdsAlwaysOK, PTL

-----------------------------------------------------------------------------
(* Line analytics: the counted episodes.                                   *)

\* Revision n of row a is not deleted and of the line, whose contents K are.
Concerns(K, a, n) ==
  /\ n \in Numbers(a) /\ ~ IsDeleted(a.revisions[n])
  /\ a.revisions[n].content \in K

\* It is the first such revision of its episode.
FirstConcern(K, a, n) ==
  /\ Concerns(K, a, n)
  /\ \A m : Concerns(K, a, m) /\ EpisodeNumber(a, m) = EpisodeNumber(a, n) => n <= m

\* The definitions inside Categorized.
ConcernsIn(K, a, ep) ==
  {n \in ep : ~ IsDeleted(a.revisions[n]) /\ a.revisions[n].content \in K}

FirstIn(K, a, ep) ==
  CHOOSE n \in ConcernsIn(K, a, ep) :
    \A m \in ConcernsIn(K, a, ep) \ {n} : Precedes(a, n, m)

\* The first revision of the line in an episode is the one of least number.
LEMMA FirstInIs ==
  ASSUME NEW a, InOrder(a), NEW K, NEW ep \in SUBSET Numbers(a),
         ConcernsIn(K, a, ep) # {}
  PROVE  /\ FirstIn(K, a, ep) \in ConcernsIn(K, a, ep)
         /\ \A m \in ConcernsIn(K, a, ep) : FirstIn(K, a, ep) <= m
<1> DEFINE T == ConcernsIn(K, a, ep)
           x == FirstIn(K, a, ep)
<1>1. T \in SUBSET Nat /\ T \in SUBSET Numbers(a)
  <2>1. Numbers(a) \subseteq Nat
    BY DEF Numbers, InOrder
  <2> QED BY <2>1 DEF ConcernsIn
<1>2. PICK y \in T : \A m \in T : y <= m
  BY <1>1, LeastNatural
<1>3. ASSUME NEW m \in T \ {y} PROVE Precedes(a, y, m)
  <2>1. y \in Numbers(a) /\ m \in Numbers(a) /\ y < m
    BY <1>1, <1>2
  <2> QED BY <2>1, PrecedesIsLess
<1>4. x \in T /\ \A m \in T \ {x} : Precedes(a, x, m)
  BY <1>3 DEF FirstIn
<1> HIDE DEF x, T
<1>5. ASSUME NEW m \in T PROVE x <= m
  <2>1. x \in Numbers(a) /\ m \in Numbers(a) /\ (m = x \/ Precedes(a, x, m))
    BY <1>1, <1>4
  <2>2. x \in Nat /\ m \in Nat /\ (m = x \/ x < m)
    BY <1>1, <1>4, <2>1, PrecedesIsLess
  <2> QED BY <2>2
<1> QED BY <1>4, <1>5 DEF x, T

\* The episodes a line counts for a row, by their first revision of the line.
LEMMA CountedFirsts ==
  ASSUME NEW a, InOrder(a), NEW K, NEW n
  PROVE  (\E ep \in Episodes(a) : ConcernsIn(K, a, ep) # {} /\ n = FirstIn(K, a, ep))
           <=> FirstConcern(K, a, n)
<1>1. ASSUME NEW ep \in Episodes(a), ConcernsIn(K, a, ep) # {}, n = FirstIn(K, a, ep)
      PROVE  FirstConcern(K, a, n)
  <2>1. PICK k : ep = {m \in Numbers(a) : EpisodeNumber(a, m) = k}
    BY DEF Episodes
  <2>2. n \in ConcernsIn(K, a, ep) /\ \A m \in ConcernsIn(K, a, ep) : n <= m
    BY <1>1, <2>1, FirstInIs
  <2>3. Concerns(K, a, n) /\ EpisodeNumber(a, n) = k
    BY <2>1, <2>2 DEF ConcernsIn, Concerns
  <2>4. ASSUME NEW m, Concerns(K, a, m), EpisodeNumber(a, m) = k
        PROVE  n <= m
    BY <2>1, <2>2, <2>4 DEF ConcernsIn, Concerns
  <2> QED BY <2>3, <2>4 DEF FirstConcern
<1>2. ASSUME FirstConcern(K, a, n)
      PROVE  \E ep \in Episodes(a) : ConcernsIn(K, a, ep) # {} /\ n = FirstIn(K, a, ep)
  <2> DEFINE ep == EpisodeOf(a, n)
             x == FirstIn(K, a, ep)
  <2>1. n \in Numbers(a) /\ Concerns(K, a, n)
    BY <1>2 DEF FirstConcern, Concerns
  <2>2. ep \in Episodes(a)
    BY <2>1 DEF Episodes, EpisodeOf
  <2>3. n \in ConcernsIn(K, a, ep) /\ ep \in SUBSET Numbers(a)
    BY <2>1 DEF EpisodeOf, Concerns, ConcernsIn
  <2>4. x \in ConcernsIn(K, a, ep) /\ x <= n
    BY <2>3, FirstInIs
  <2>5. Concerns(K, a, x) /\ EpisodeNumber(a, x) = EpisodeNumber(a, n)
    BY <2>4 DEF EpisodeOf, Concerns, ConcernsIn
  <2> HIDE DEF x, ep
  <2>6. n <= x /\ n \in Nat /\ x \in Nat
    BY <1>2, <2>1, <2>5 DEF FirstConcern, Concerns, Numbers
  <2>7. n = x
    BY <2>4, <2>6
  <2> QED BY <2>2, <2>3, <2>7 DEF x
<1> QED BY <1>1, <1>2

\* What a line counts for a source with this table of alerts.
CategorizedRows(table, K) ==
  UNION {{<<e, FirstIn(K, table[e], ep),
            table[e].revisions[FirstIn(K, table[e], ep)].first_seen_at>> :
            ep \in {p \in Episodes(table[e]) : ConcernsIn(K, table[e], p) # {}}} :
         e \in {e \in Entity : table[e] # NoAlert}}

\* Categorized, before and after a step.
LEMMA CategorizedNow ==
  ASSUME NEW s, NEW line
  PROVE  /\ Categorized(s, line) = CategorizedRows(alerts[s], LineContents(network, line))
         /\ Categorized(s, line)' = CategorizedRows(alerts'[s], LineContents(network', line))
BY DEF Categorized, CategorizedRows, FirstIn, ConcernsIn, Known, LineContents

\* The counted episodes are the first revisions of the line in theirs.
LEMMA CategorizedIs ==
  ASSUME NEW table, \A e \in Entity : RowInOrder(table[e]), NEW K, NEW x
  PROVE  x \in CategorizedRows(table, K) <=>
           \E e \in Entity : /\ table[e] # NoAlert
                             /\ \E n : /\ FirstConcern(K, table[e], n)
                                       /\ x = <<e, n, table[e].revisions[n].first_seen_at>>
<1> DEFINE Cat(e) == {<<e, FirstIn(K, table[e], ep),
                        table[e].revisions[FirstIn(K, table[e], ep)].first_seen_at>> :
                        ep \in {p \in Episodes(table[e]) : ConcernsIn(K, table[e], p) # {}}}
<1>1. CategorizedRows(table, K) = UNION {Cat(e) : e \in {e \in Entity : table[e] # NoAlert}}
  BY DEF CategorizedRows
<1>2. ASSUME NEW e \in Entity, table[e] # NoAlert
      PROVE  x \in Cat(e) <=> \E n : /\ FirstConcern(K, table[e], n)
                                     /\ x = <<e, n, table[e].revisions[n].first_seen_at>>
  <2> DEFINE a == table[e]
  <2>1. InOrder(a)
    BY <1>2 DEF RowInOrder
  <2>2. x \in Cat(e) <=> \E ep \in Episodes(a) :
          /\ ConcernsIn(K, a, ep) # {}
          /\ x = <<e, FirstIn(K, a, ep), a.revisions[FirstIn(K, a, ep)].first_seen_at>>
    OBVIOUS
  <2> HIDE DEF a, Cat
  <2>3. \A n : (\E ep \in Episodes(a) : ConcernsIn(K, a, ep) # {} /\ n = FirstIn(K, a, ep))
                 <=> FirstConcern(K, a, n)
    BY <2>1, CountedFirsts
  <2>4. x \in Cat(e) <=> \E n : FirstConcern(K, a, n)
                                /\ x = <<e, n, a.revisions[n].first_seen_at>>
    BY <2>2, <2>3
  <2> QED BY <2>4 DEF a
<1> HIDE DEF Cat
<1> QED BY <1>1, <1>2

\* The episodes of the old revisions keep their numbers.
LEMMA EpisodeNumbersStay ==
  ASSUME NEW a \in Alert, NEW b, InOrder(a), InOrder(b), SamePast(a, b),
         Len(b.revisions) >= Len(a.revisions), NEW n \in Numbers(a)
  PROVE  n \in Numbers(b) /\ EpisodeNumber(b, n) = EpisodeNumber(a, n)
<1>1. Numbers(a) = 1..Len(a.revisions) /\ Len(a.revisions) \in Nat /\ Len(b.revisions) \in Nat
  BY DEF Numbers, InOrder
<1>2. n \in Numbers(b)
  BY <1>1 DEF Numbers
<1>3. \A m \in 1..n : StartsAt(b, m) <=> StartsAt(a, m)
  BY <1>1, StartsStay
<1>4. StartsUpTo(b, n) = StartsUpTo(a, n)
  BY <1>3 DEF StartsUpTo
<1> QED BY <1>2, <1>4, EpisodeNumberIs

\* A feed leaves the firsts of a line among the old revisions, and the
\* revision it adds is first seen now.
LEMMA FirstConcernStep ==
  ASSUME NEW a, NEW b, NEW c, NEW t, NEW K, RowStep(a, b, c, t), a # NoAlert,
         InOrder(a), InOrder(b), NEW n
  PROVE  /\ n \in Numbers(a) =>
              /\ FirstConcern(K, b, n) <=> FirstConcern(K, a, n)
              /\ b.revisions[n].first_seen_at = a.revisions[n].first_seen_at
         /\ n \in Numbers(b) /\ n \notin Numbers(a) => b.revisions[n].first_seen_at = t
<1> DEFINE L == Len(a.revisions)
<1>1. a \in Alert /\ SamePast(a, b) /\ L \in Nat /\ Numbers(a) = 1..L
  BY DEF RowStep, InOrder, Numbers
<1>2. Len(b.revisions) = L \/ NewStep(a, b, c, t)
  BY DEF RowStep, SeenStep, IdleStep, GoneStep, ChangedStep, ReturnedStep, SameRevisions
<1>3. /\ Len(b.revisions) \in Nat /\ Len(b.revisions) >= L /\ Numbers(b) = 1..Len(b.revisions)
      /\ Len(b.revisions) \in {L, L + 1}
  BY <1>1, <1>2 DEF NewStep, InOrder, Numbers
<1>4. ASSUME n \in Numbers(b), n \notin Numbers(a) PROVE b.revisions[n].first_seen_at = t
  <2>1. n = L + 1 /\ NewStep(a, b, c, t)
    BY <1>1, <1>2, <1>3, <1>4
  <2> QED BY <2>1 DEF NewStep
<1>5. ASSUME n \in Numbers(a)
      PROVE  /\ FirstConcern(K, b, n) <=> FirstConcern(K, a, n)
             /\ b.revisions[n].first_seen_at = a.revisions[n].first_seen_at
  <2>1. b.revisions[n].first_seen_at = a.revisions[n].first_seen_at
    BY <1>1, <1>5 DEF SamePast
  <2>2. \A m \in Numbers(a) : /\ m \in Numbers(b) /\ EpisodeNumber(b, m) = EpisodeNumber(a, m)
                              /\ Concerns(K, b, m) <=> Concerns(K, a, m)
    <3> SUFFICES ASSUME NEW m \in Numbers(a)
                 PROVE  /\ m \in Numbers(b) /\ EpisodeNumber(b, m) = EpisodeNumber(a, m)
                        /\ Concerns(K, b, m) <=> Concerns(K, a, m)
      OBVIOUS
    <3>1. m \in Numbers(b) /\ EpisodeNumber(b, m) = EpisodeNumber(a, m)
      BY <1>1, <1>3, EpisodeNumbersStay
    <3>2. b.revisions[m].content = a.revisions[m].content
      BY <1>1 DEF SamePast
    <3> QED BY <3>1, <3>2 DEF Concerns, IsDeleted
  <2>3. \A m : Concerns(K, a, m) => m \in Numbers(a)
    BY DEF Concerns
  <2>4. \A m : Concerns(K, b, m) => m \in Numbers(a) \/ n <= m
    <3> SUFFICES ASSUME NEW m, Concerns(K, b, m), m \notin Numbers(a) PROVE n <= m
      OBVIOUS
    <3>1. m \in 1..Len(b.revisions)
      BY <1>3 DEF Concerns
    <3> QED BY <1>1, <1>3, <1>5, <3>1
  <2> QED BY <1>5, <2>1, <2>2, <2>3, <2>4 DEF FirstConcern
<1> QED BY <1>4, <1>5

\* Only a change of the line list rewrites counts of the time before an
\* applied observation: no later feed does, however late a worker delivers
\* what it fetched, and no import that leaves the line's contents alone.
THEOREM PastStaysBetweenImports == ReadsSpec => PastChangesOnlyWithLines
<1> DEFINE Stays ==
      \A s \in Source, line \in Line :
        LET before == Categorized(s, line)
            after  == Categorized(s, line)'
        IN  /\ <<alerts, network>>' # <<alerts, network>>
            /\ LineContents(network', line) = LineContents(network, line)
            => \A c \in SymDiff(before, after), f \in AppliedTo(s) : c[3] >= ObservedAt(f)
<1>1. ASSUME EpisodeInv, EpisodeInv', NEW f \in AppliedRun, ApplyFeed(f),
             NEW s \in Source, NEW K, NEW g \in AppliedTo(s), NEW x,
             ~ (x \in CategorizedRows(alerts[s], K) <=> x \in CategorizedRows(alerts'[s], K))
      PROVE  x[3] >= ObservedAt(g)
  <2>1. /\ \A e \in Entity : RowInOrder(alerts[s][e]) /\ RowInOrder(alerts'[s][e])
        /\ \A e \in Entity : alerts[s][e] \in Alert \cup {NoAlert}
    BY <1>1 DEF EpisodeInv, RowsTell, RowTells, Inv, TypeOK
  <2> DEFINE In(e, row, y) ==
        row # NoAlert /\ \E n : /\ FirstConcern(K, row, n)
                                /\ y = <<e, n, row.revisions[n].first_seen_at>>
  <2>2. x \in CategorizedRows(alerts[s], K) <=> \E e \in Entity : In(e, alerts[s][e], x)
    BY <2>1, CategorizedIs
  <2>3. x \in CategorizedRows(alerts'[s], K) <=> \E e \in Entity : In(e, alerts'[s][e], x)
    BY <2>1, CategorizedIs
  <2>4. s = f.source
    <3>1. s # f.source => alerts'[s] = alerts[s]
      BY <1>1, ApplyFeedRows
    <3> QED BY <1>1, <3>1
  <2> DEFINE t == ObservedAt(f)
  <2>5. /\ \A e \in Entity : RowStep(alerts[s][e], alerts'[s][e], Listed(f)[e], t)
        /\ Follows(f, AppliedTo(s))
    BY <1>1, <2>4, ApplyFeedRows
  <2>6. ObservedAt(g) \in Nat /\ t \in Nat /\ ObservedAt(g) <= t
    BY <2>5, FollowsFacts
  <2> HIDE DEF t
  <2>7. ASSUME NEW e \in Entity, x[3] # t
        PROVE  In(e, alerts'[s][e], x) <=> In(e, alerts[s][e], x)
    <3> DEFINE a == alerts[s][e]
               b == alerts'[s][e]
               c == Listed(f)[e]
    <3>0. RowStep(a, b, c, t) /\ RowInOrder(a) /\ RowInOrder(b) /\ x[3] # t
      BY <2>1, <2>5, <2>7
    <3> HIDE DEF a, b, c
    <3>1. CASE a = NoAlert
      <4>1. ~ In(e, a, x)
        BY <3>1
      <4>2. ASSUME b # NoAlert, NEW n, FirstConcern(K, b, n),
                   x = <<e, n, b.revisions[n].first_seen_at>>
            PROVE  FALSE
        <5>1. FirstStep(b, c, t)
          BY <3>0, <3>1, <4>2 DEF RowStep
        <5>2. n = 1 /\ b.revisions[n].first_seen_at = t
          BY <4>2, <5>1 DEF FirstConcern, Concerns, FirstStep, Numbers
        <5>3. x[3] = t
          BY <4>2, <5>2
        <5> QED BY <3>0, <5>3
      <4> QED BY <4>1, <4>2 DEF a, b
    <3>2. CASE a # NoAlert
      <4>1. b # NoAlert /\ InOrder(a) /\ InOrder(b)
        BY <3>0, <3>2, AlertAssumption DEF RowStep, RowInOrder
      <4>2. \A n :
              /\ n \in Numbers(a) =>
                   /\ FirstConcern(K, b, n) <=> FirstConcern(K, a, n)
                   /\ b.revisions[n].first_seen_at = a.revisions[n].first_seen_at
              /\ n \in Numbers(b) /\ n \notin Numbers(a) => b.revisions[n].first_seen_at = t
        BY <3>0, <3>2, <4>1, FirstConcernStep
      <4>3. \A n : /\ FirstConcern(K, a, n) => n \in Numbers(a)
                   /\ FirstConcern(K, b, n) => n \in Numbers(b)
        BY DEF FirstConcern, Concerns
      <4>4. ASSUME NEW n, FirstConcern(K, b, n), x = <<e, n, b.revisions[n].first_seen_at>>
            PROVE  n \in Numbers(a)
        <5> SUFFICES ASSUME n \notin Numbers(a) PROVE FALSE
          OBVIOUS
        <5>1. b.revisions[n].first_seen_at = t
          BY <4>2, <4>3, <4>4
        <5>2. x[3] = t
          BY <4>4, <5>1
        <5> QED BY <3>0, <5>2
      <4>5. In(e, b, x) <=> In(e, a, x)
        BY <3>2, <4>1, <4>2, <4>3, <4>4
      <4> QED BY <4>5 DEF a, b
    <3> QED BY <3>1, <3>2
  <2> HIDE DEF In
  <2>8. x[3] = t
    BY <1>1, <2>2, <2>3, <2>7
  <2> QED BY <2>6, <2>8
<1>2. ASSUME EpisodeInv, [NextReads]_readVars PROVE Stays
  <2> SUFFICES ASSUME NEW s \in Source, NEW line \in Line,
                      LineContents(network', line) = LineContents(network, line),
                      NEW x \in SymDiff(Categorized(s, line), Categorized(s, line)'),
                      NEW g \in AppliedTo(s)
               PROVE  x[3] >= ObservedAt(g)
    OBVIOUS
  <2> DEFINE K == LineContents(network, line)
  <2>1. /\ Categorized(s, line) = CategorizedRows(alerts[s], K)
        /\ Categorized(s, line)' = CategorizedRows(alerts'[s], K)
    BY CategorizedNow
  <2>2. ~ (x \in CategorizedRows(alerts[s], K) <=> x \in CategorizedRows(alerts'[s], K))
    BY <2>1 DEF SymDiff
  <2>3. CASE UNCHANGED alerts
    BY <2>2, <2>3
  <2>4. ASSUME NEW f \in AppliedRun, ApplyFeed(f) PROVE x[3] >= ObservedAt(g)
    <3>1. EpisodeInv'
      BY <1>2, <2>4, ApplyFeedInv
    <3> HIDE DEF K
    <3> QED BY <1>1, <1>2, <2>2, <2>4, <3>1
  <2> QED BY <1>2, <2>3, <2>4, ReadsLeaveHistory
<1> HIDE DEF Stays
<1>3. EpisodeInv /\ [NextReads]_readVars => [Stays]_readVars
  BY <1>2
<1>4. PastChangesOnlyWithLines <=> [][Stays]_readVars
  BY DEF PastChangesOnlyWithLines, Stays
<1> QED BY <1>3, <1>4, ReadsKeepHistory, PTL DEF ReadsSpec

-----------------------------------------------------------------------------
(* The historical list of a database db.                                   *)

\* A row as AlertHistory leaves it.
RowFine(a) == a \in Alert /\ LifecycleOK(a) /\ InOrder(a)

\* A database of such rows.
DbOK(db) ==
  /\ db.ids \in Seq(Source \X Entity)
  /\ \A n \in 1..Len(db.ids) : RowFine(Row(db, n))

\* Every database the readers see is such a one.
LEMMA DatabaseOK == EpisodeInv /\ IdsOK => DbOK(Database)
<1> SUFFICES ASSUME EpisodeInv, IdsOK, NEW n \in 1..Len(ids)
    PROVE RowFine(alerts[ids[n][1]][ids[n][2]])
  BY DEF DbOK, Database, Row, IdsOK
<1> DEFINE s == ids[n][1]
           e == ids[n][2]
           a == alerts[s][e]
<1>1. s \in Source /\ e \in Entity /\ a # NoAlert
  BY DEF IdsOK
<1>2. a \in Alert \cup {NoAlert} /\ EntityOK(AppliedTo(s), e, a) /\ RowInOrder(a)
  BY <1>1 DEF EpisodeInv, Inv, TypeOK, RowsTell, RowTells
<1> QED BY <1>1, <1>2 DEF RowFine, EntityOK, RowOK, RowInOrder

\* What the queries read in such a row.
LEMMA RowFineFacts ==
  ASSUME NEW a, RowFine(a)
  PROVE  /\ a.current = Len(a.revisions) /\ a.current \in Numbers(a)
         /\ Numbers(a) = 1..Len(a.revisions) /\ Len(a.revisions) \in Nat
         /\ \A n \in Numbers(a) : a.revisions[n] \in Revision
         /\ CurrentRevision(a) = a.revisions[Len(a.revisions)]
         /\ CurrentRevision(a).first_seen_at \in Nat
         /\ CurrentRevision(a).first_seen_at # NoTime
         /\ a.is_present <=> a.closed_at = NoTime
         /\ a.closed_at = CurrentRevision(a).closed_at
         /\ a.closed_at # NoTime => a.closed_at \in Nat
         /\ SortKey(a) \in Nat
<1>1. /\ a \in Alert /\ a.current = Len(a.revisions) /\ Len(a.revisions) \in Nat
      /\ Len(a.revisions) > 0 /\ a.revisions \in Seq(Revision)
  BY DEF RowFine, LifecycleOK, InOrder, Alert
<1>2. Numbers(a) = 1..Len(a.revisions) /\ a.current \in Numbers(a)
  BY <1>1 DEF Numbers
<1>3. \A n \in Numbers(a) : a.revisions[n] \in Revision
  BY <1>1, <1>2
<1>4. CurrentRevision(a) = a.revisions[Len(a.revisions)] /\ CurrentRevision(a) \in Revision
  BY <1>1, <1>2, <1>3 DEF CurrentRevision
<1>5. CurrentRevision(a).first_seen_at \in Time
  BY <1>4 DEF Revision
<1>6. CurrentRevision(a).first_seen_at \in Nat /\ CurrentRevision(a).first_seen_at # NoTime
  BY <1>5, TimeAssumption
<1>7. /\ a.is_present <=> a.closed_at = NoTime
      /\ a.closed_at = CurrentRevision(a).closed_at
  BY DEF RowFine, LifecycleOK
<1>8. a.closed_at \in Time \cup {NoTime}
  BY <1>1 DEF Alert
<1>9. a.closed_at # NoTime => a.closed_at \in Nat
  BY <1>8, TimeAssumption
<1>10. SortKey(a) \in Nat
  BY <1>6, <1>7, <1>9 DEF SortKey
<1> QED BY <1>1, <1>2, <1>3, <1>4, <1>6, <1>7, <1>9, <1>10

\* How many alerts are listed before id.
Rank(db, filter, id) == Cardinality(ListedBefore(db, filter, id))

\* Ranks number the list without gaps.
LEMMA RankFacts ==
  ASSUME NEW db, DbOK(db), NEW filter
  PROVE  LET H == Historical(db, filter) IN
         /\ H \in SUBSET Nat /\ IsFiniteSet(H) /\ Cardinality(H) \in Nat
         /\ \A x \in H : Rank(db, filter, x) \in 0..(Cardinality(H) - 1)
         /\ \A x, y \in H : Rank(db, filter, x) = Rank(db, filter, y) => x = y
         /\ \A r \in 0..(Cardinality(H) - 1) : \E x \in H : Rank(db, filter, x) = r
<1> DEFINE H == Historical(db, filter)
           N == Cardinality(H)
           B(x) == ListedBefore(db, filter, x)
           key(x) == SortKey(Row(db, x))
           g == [x \in H |-> Cardinality(B(x))]
<1>1. H \in SUBSET (1..Len(db.ids)) /\ Len(db.ids) \in Nat
  BY DEF Historical, DbOK
<1>2. H \in SUBSET Nat /\ IsFiniteSet(H) /\ N \in Nat
  <2>1. IsFiniteSet(1..Len(db.ids))
    BY <1>1, FS_Interval
  <2>2. IsFiniteSet(H)
    BY <1>1, <2>1, FS_Subset
  <2>3. H \in SUBSET Nat
    BY <1>1
  <2> QED BY <2>2, <2>3, FS_CardinalityType
<1>3. \A x \in H : key(x) \in Nat
  BY <1>1, RowFineFacts DEF DbOK
<1>4. \A x, y : y \in B(x) <=> y \in H /\ (key(y) > key(x) \/ (key(y) = key(x) /\ y > x))
  BY DEF ListedBefore
<1> HIDE DEF H, N, B, key
<1>5. ASSUME NEW x \in H PROVE IsFiniteSet(B(x)) /\ Cardinality(B(x)) \in 0..(N - 1)
  <2>1. B(x) \in SUBSET (H \ {x})
    BY <1>2, <1>3, <1>4
  <2>2. IsFiniteSet(H \ {x}) /\ Cardinality(H \ {x}) = N - 1
    BY <1>2, FS_RemoveElement DEF N
  <2>3. IsFiniteSet(B(x)) /\ Cardinality(B(x)) <= N - 1
    BY <2>1, <2>2, FS_Subset
  <2>4. Cardinality(B(x)) \in Nat
    BY <2>3, FS_CardinalityType
  <2> QED BY <1>2, <2>3, <2>4
<1>6. ASSUME NEW x \in H, NEW y \in H, y \in B(x)
      PROVE  Cardinality(B(y)) < Cardinality(B(x))
  <2>1. B(y) \in SUBSET B(x)
    <3> SUFFICES ASSUME NEW w \in B(y) PROVE w \in B(x)
      OBVIOUS
    <3>1. w \in H /\ key(w) \in Nat /\ key(x) \in Nat /\ key(y) \in Nat
      BY <1>3, <1>4
    <3>2. w \in Nat /\ x \in Nat /\ y \in Nat
      BY <1>2, <3>1
    <3>3. /\ key(w) > key(y) \/ (key(w) = key(y) /\ w > y)
          /\ key(y) > key(x) \/ (key(y) = key(x) /\ y > x)
      BY <1>4, <1>6
    <3>4. key(w) > key(x) \/ (key(w) = key(x) /\ w > x)
      BY <3>1, <3>2, <3>3
    <3> QED BY <1>4, <3>1, <3>4
  <2>2. y \notin B(y)
    BY <1>2, <1>3, <1>4
  <2>3. /\ Cardinality(B(y)) <= Cardinality(B(x))
        /\ Cardinality(B(x)) = Cardinality(B(y)) => B(x) = B(y)
    BY <1>5, <2>1, FS_Subset
  <2>4. Cardinality(B(y)) # Cardinality(B(x))
    BY <1>6, <2>2, <2>3
  <2>5. Cardinality(B(x)) \in Nat /\ Cardinality(B(y)) \in Nat
    BY <1>5, FS_CardinalityType
  <2> QED BY <2>3, <2>4, <2>5
<1>7. ASSUME NEW x \in H, NEW y \in H, Cardinality(B(x)) = Cardinality(B(y)), x # y
      PROVE  FALSE
  <2>1. /\ key(x) \in Nat /\ key(y) \in Nat /\ x \in Nat /\ y \in Nat
        /\ Cardinality(B(x)) \in Nat /\ Cardinality(B(y)) \in Nat
    BY <1>2, <1>3, <1>5, FS_CardinalityType
  <2>2. \/ key(x) > key(y) \/ (key(x) = key(y) /\ x > y)
        \/ key(y) > key(x) \/ (key(y) = key(x) /\ y > x)
    BY <1>7, <2>1
  <2>3. x \in B(y) \/ y \in B(x)
    BY <1>4, <2>2
  <2> QED BY <1>6, <1>7, <2>1, <2>3
<1>8. g \in Injection(H, 0..(N - 1))
  <2>1. g \in [H -> 0..(N - 1)]
    BY <1>5
  <2>2. \A x \in H : g[x] = Cardinality(B(x))
    OBVIOUS
  <2> HIDE DEF g
  <2> QED BY <1>7, <2>1, <2>2 DEF Injection, IsInjective
<1>9. IsFiniteSet(0..(N - 1)) /\ Cardinality(0..(N - 1)) = N
  <2>1. 0 \in Int /\ N - 1 \in Int
    BY <1>2
  <2> QED BY <1>2, <2>1, FS_Interval
<1>10. g \in Surjection(H, 0..(N - 1))
  BY <1>8, <1>9, FS_Injection DEF N
<1>11. \A r \in 0..(N - 1) : \E x \in H : Cardinality(B(x)) = r
  BY <1>10 DEF Surjection
<1> QED BY <1>2, <1>5, <1>7, <1>11 DEF H, N, B, Rank

\* The list has the alert of rank n - 1 at place n.
LEMMA OrderFacts ==
  ASSUME NEW db, DbOK(db), NEW filter
  PROVE  LET H == Historical(db, filter)
             list == HistoricalOrder(db, filter) IN
         /\ list \in Seq(H) /\ Len(list) = Cardinality(H) /\ Cardinality(H) \in Nat
         /\ \A n \in 1..Len(list) : Rank(db, filter, list[n]) = n - 1
<1> DEFINE H == Historical(db, filter)
           N == Cardinality(H)
           R(x) == Rank(db, filter, x)
           list == HistoricalOrder(db, filter)
<1>1. /\ N \in Nat /\ \A r \in 0..(N - 1) : \E x \in H : R(x) = r
  BY RankFacts
<1>2. list = [n \in 1..N |-> CHOOSE x \in H : R(x) = n - 1]
  BY DEF HistoricalOrder, Rank
<1> HIDE DEF H, N, R, list
<1>3. ASSUME NEW n \in 1..N PROVE list[n] \in H /\ R(list[n]) = n - 1
  <2>1. n - 1 \in 0..(N - 1)
    BY <1>1
  <2>2. PICK x \in H : R(x) = n - 1
    BY <1>1, <2>1
  <2>3. list[n] = CHOOSE y \in H : R(y) = n - 1
    BY <1>2
  <2> QED BY <2>2, <2>3
<1>4. list \in [1..N -> H]
  BY <1>2, <1>3
<1>5. list \in Seq(H) /\ Len(list) = N
  BY <1>1, <1>4
<1> QED BY <1>1, <1>3, <1>5 DEF H, N, R, list

\* The first place of a page, and where the pages end.
LEMMA OffsetFacts ==
  ASSUME NEW page \in Nat \ {0}
  PROVE  /\ PageSize \in Nat /\ PageSize > 0
         /\ Offset(page) \in Nat /\ Offset(page + 1) = Offset(page) + PageSize
         /\ \A total \in Nat : ~ (page < TotalPages(total)) => total <= Offset(page + 1)
<1>1. PageSize \in Nat \ {0}
  BY ReadsAssumption
<1>2. Offset(page) \in Nat
  BY <1>1 DEF Offset
<1>3. Offset(page + 1) = Offset(page) + PageSize
  BY <1>1 DEF Offset
<1>4. ASSUME NEW total \in Nat, ~ (page < TotalPages(total)) PROVE total <= Offset(page + 1)
  <2> DEFINE x == total + PageSize - 1
             d == x \div PageSize
  <2>1. x \in Nat
    BY <1>1
  <2> HIDE DEF x
  <2>2. d \in Nat /\ x = PageSize * d + (x % PageSize) /\ x % PageSize \in 0..(PageSize - 1)
    BY <1>1, <2>1
  <2>3. d <= page
    BY <1>4, <2>2 DEF TotalPages, x
  <2> HIDE DEF d
  <2>4. d * PageSize <= page * PageSize
    BY <1>1, <2>2, <2>3
  <2>5. total <= PageSize * d
    BY <1>1, <2>2 DEF x
  <2>6. Offset(page + 1) = page * PageSize /\ PageSize * d = d * PageSize
    BY <1>1, <2>2 DEF Offset
  <2>7. page * PageSize \in Nat /\ d * PageSize \in Nat
    BY <1>1, <2>2
  <2> QED BY <2>4, <2>5, <2>6, <2>7
<1> QED BY <1>1, <1>2, <1>3, <1>4

\* What ans, the page that starts at offset o, shows of the list.
Shows(db, filter, ans, o) ==
  /\ ans \in Seq(Nat) /\ Len(ans) \in Nat
  /\ Len(ans) = Max({0, Min({PageSize, Cardinality(Historical(db, filter)) - o})})
  /\ \A i \in 1..Len(ans) : Rank(db, filter, ans[i]) = o + i - 1
  /\ Len(ans) <= PageSize
  /\ \A x \in Historical(db, filter) :
       o <= Rank(db, filter, x) /\ Rank(db, filter, x) < o + PageSize =>
         \E i \in 1..Len(ans) : ans[i] = x

\* A page shows the alerts whose rank is in its range, each once.
LEMMA PageFacts ==
  ASSUME NEW db, DbOK(db), NEW filter, NEW page \in Nat \ {0}
  PROVE  Shows(db, filter, HistoricalPage(db, filter, page), Offset(page))
<1> DEFINE H == Historical(db, filter)
           N == Cardinality(H)
           R(x) == Rank(db, filter, x)
           list == HistoricalOrder(db, filter)
           o == Offset(page)
           ans == HistoricalPage(db, filter, page)
           k == Min({o + PageSize, N})
<1>1. /\ PageSize \in Nat /\ PageSize > 0 /\ o \in Nat
  BY OffsetFacts
<1>2. /\ list \in Seq(H) /\ Len(list) = N /\ N \in Nat
      /\ \A n \in 1..Len(list) : R(list[n]) = n - 1
  BY OrderFacts
<1>3. /\ H \in SUBSET Nat
      /\ \A x \in H : R(x) \in 0..(N - 1)
      /\ \A x, y \in H : R(x) = R(y) => x = y
  BY RankFacts
<1>4. ans = SubSeq(list, o + 1, k)
  BY <1>2 DEF HistoricalPage
<1> HIDE DEF H, N, R, list, o, ans
<1>5. k = IF o + PageSize < N THEN o + PageSize ELSE N
  BY <1>1, <1>2 DEF Min
<1> HIDE DEF k
<1>6. /\ o + 1 \in Nat /\ o + 1 >= 1 /\ k \in Nat /\ k <= N /\ k <= o + PageSize
  BY <1>1, <1>2, <1>5
<1>7. ans \in Seq(H) /\ Len(ans) = IF o + 1 <= k THEN k - o ELSE 0
  <2>1. CASE o + 1 <= k
    <3>1. o + 1 \in 1..Len(list) /\ k \in 1..Len(list) /\ k - (o + 1) + 1 = k - o
      BY <1>1, <1>2, <1>6, <2>1
    <3> QED BY <1>1, <1>2, <1>4, <1>6, <2>1, <3>1
  <2>2. CASE ~ (o + 1 <= k)
    BY <1>1, <1>2, <1>4, <1>6, <2>2
  <2> QED BY <2>1, <2>2
<1>8. ASSUME NEW i \in 1..Len(ans)
      PROVE  ans[i] = list[o + i] /\ o + i \in 1..N /\ o + i <= k
  <2>1. o + 1 <= k /\ i \in 1..(k - o)
    BY <1>1, <1>6, <1>7
  <2> QED BY <1>1, <1>2, <1>4, <1>6, <2>1
<1>9. ASSUME NEW i \in 1..Len(ans) PROVE ans[i] \in H /\ R(ans[i]) = o + i - 1
  <2>1. ans[i] = list[o + i] /\ o + i \in 1..Len(list)
    BY <1>2, <1>8
  <2>2. R(list[o + i]) = (o + i) - 1 /\ list[o + i] \in H
    BY <1>2, <2>1
  <2>3. R(ans[i]) = (o + i) - 1
    BY <2>1, <2>2 DEF R
  <2> QED BY <1>1, <2>1, <2>2, <2>3
<1>10. ASSUME NEW x \in H, o <= R(x), R(x) < o + PageSize
       PROVE  \E i \in 1..Len(ans) : ans[i] = x
  <2> DEFINE i == R(x) - o + 1
  <2>1. R(x) \in Nat /\ R(x) + 1 <= N
    BY <1>2, <1>3
  <2>2. i \in Nat /\ i >= 1 /\ o + i = R(x) + 1 /\ o + i <= k
    BY <1>1, <1>2, <1>5, <1>10, <2>1
  <2> HIDE DEF i
  <2>3. i \in 1..Len(ans)
    BY <1>1, <1>6, <1>7, <2>2
  <2>4. ans[i] \in H /\ R(ans[i]) = R(x)
    BY <1>1, <1>9, <2>1, <2>2, <2>3
  <2>5. ans[i] = x
    BY <1>3, <2>4
  <2> QED BY <2>3, <2>5
<1>11. Len(ans) = Max({0, Min({PageSize, N - o})})
  <2>1. Min({PageSize, N - o}) = IF PageSize < N - o THEN PageSize ELSE N - o
    BY <1>1, <1>2 DEF Min
  <2> DEFINE m == Min({PageSize, N - o})
  <2>2. m \in Int
    BY <1>1, <1>2, <2>1
  <2>3. m = IF PageSize < N - o THEN PageSize ELSE N - o
    BY <2>1
  <2> HIDE DEF m
  <2>4. Max({0, m}) = IF 0 < m THEN m ELSE 0
    BY <2>2 DEF Max
  <2>5. Len(ans) = IF 0 < m THEN m ELSE 0
    BY <1>1, <1>2, <1>5, <1>6, <1>7, <2>3
  <2> QED BY <2>4, <2>5 DEF m
<1>12. ans \in Seq(Nat) /\ Len(ans) \in Nat /\ Len(ans) <= PageSize
  <2>1. ans \in Seq(Nat)
    <3>1. ans \in [1..Len(ans) -> H] /\ Len(ans) \in Nat
      BY <1>7
    <3>2. ans \in [1..Len(ans) -> Nat]
      BY <1>3, <3>1
    <3> QED BY <3>1, <3>2
  <2> QED BY <1>1, <1>6, <1>7, <2>1
<1>13. Shows(db, filter, ans, o)
  BY <1>9, <1>10, <1>11, <1>12 DEF Shows, H, N, R
<1> QED BY <1>13 DEF ans, o

-----------------------------------------------------------------------------
(* The read transactions and the walk.                                     *)

\* The steps that change what the queries read.
DataArrives == (\E f \in AppliedRun : FeedArrives(f)) \/ \E n \in Network : ImportArrives(n)

\* A walk through the pages of the historical list.
Walk ==
  [state : {"walking", "done"}, filter : Filter, page : Nat \ {0}, seen : Seq(Nat),
   stayed : SUBSET Nat, left : BOOLEAN, came : BOOLEAN]

\* A transaction holds a database that was committed when it began, and what
\* its first query read there.
TxOK ==
  \/ tx = NoTx
  \/ /\ DbOK(tx.snapshot) /\ tx.first = FirstQuery(tx.op, tx.arg, tx.snapshot)
     /\ \/ tx.op = "alert" /\ tx.arg \in DOMAIN tx.snapshot.ids
        \/ tx.op = "line"
        \/ tx.op = "page" /\ walk.state = "walking" /\ tx.arg = <<walk.filter, walk.page>>

\* What the readers hold is what some committed database said.
ReadsInv == EpisodeInv /\ IdsOK /\ (walk = NoWalk \/ walk \in Walk) /\ TxOK

\* The walk has seen x, and not twice.
IsSeen(w, x) == \E n \in 1..Len(w.seen) : w.seen[n] = x

SeenOnce(w, x) ==
  \A m, n \in 1..Len(w.seen) : w.seen[m] = x /\ w.seen[n] = x => m = n

\* The client reads page w.page next, in db: what it has not seen is not
\* before that page unless some alert left, and what it has seen is before it
\* unless some alert came.
PlaceOK(w, db) ==
  \A x \in w.stayed :
    /\ x \in Historical(db, w.filter)
    /\ ~ w.left => IsSeen(w, x) \/ Rank(db, w.filter, x) >= Offset(w.page)
    /\ ~ w.came => SeenOnce(w, x) /\ (IsSeen(w, x) => Rank(db, w.filter, x) < Offset(w.page))

\* Alerts that stay move back only when others come, and forward only when
\* others leave.
MovesOK(w, old, new) ==
  \A x \in w.stayed :
    /\ x \in Historical(new, w.filter)
    /\ ~ w.left => Rank(old, w.filter, x) <= Rank(new, w.filter, x)
    /\ ~ w.came => Rank(new, w.filter, x) <= Rank(old, w.filter, x)

\* Between transactions the walk is in place in the database; within one it is
\* in place in the snapshot, and the alerts move from there to the database.
\* A finished walk has seen what stayed.
WalkInv ==
  /\ walk.state = "walking" =>
       IF tx.op = "page" THEN PlaceOK(walk, tx.snapshot) /\ MovesOK(walk, tx.snapshot, Database)
       ELSE PlaceOK(walk, Database)
  /\ walk.state = "done" => \A x \in walk.stayed : /\ ~ walk.left => IsSeen(walk, x)
                                                   /\ ~ walk.came => SeenOnce(walk, x)

\* Begin starts a transaction on the database as it is.
LEMMA BeginTx ==
  ASSUME EpisodeInv, IdsOK, NEW op, NEW arg, Begin(op, arg)
  PROVE  /\ tx = NoTx /\ tx'.op = op /\ tx'.arg = arg /\ tx'.snapshot = Database
         /\ tx'.first = FirstQuery(op, arg, Database)
         /\ DbOK(tx'.snapshot) /\ tx'.first = FirstQuery(tx'.op, tx'.arg, tx'.snapshot)
<1>1. /\ tx = NoTx /\ tx'.op = op /\ tx'.arg = arg /\ tx'.snapshot = Database
      /\ tx'.first = FirstQuery(op, arg, Database)
  BY DEF Begin
<1>2. DbOK(Database)
  BY DatabaseOK
<1> QED BY <1>1, <1>2

\* What TxOK says of a transaction in progress.
LEMMA TxOps ==
  ASSUME TxOK
  PROVE  /\ tx.op \in {"none", "alert", "line", "page"}
         /\ tx.op = "none" <=> tx = NoTx
         /\ tx.op # "none" => /\ DbOK(tx.snapshot)
                              /\ tx.first = FirstQuery(tx.op, tx.arg, tx.snapshot)
         /\ tx.op = "alert" => tx.arg \in DOMAIN tx.snapshot.ids
         /\ tx.op = "page" => walk.state = "walking" /\ tx.arg = <<walk.filter, walk.page>>
BY DEF TxOK, NoTx

\* The page the client reads goes into the walk.
LEMMA FinishPageWalk ==
  ASSUME ReadsInv, FinishPage
  PROVE  /\ tx.op = "page" /\ walk \in Walk /\ walk.state = "walking"
         /\ tx.arg = <<walk.filter, walk.page>> /\ DbOK(tx.snapshot)
         /\ tx.first = Cardinality(Historical(tx.snapshot, walk.filter))
         /\ Answer = HistoricalPage(tx.snapshot, walk.filter, walk.page)
         /\ walk' \in Walk /\ walk'.seen = walk.seen \o Answer /\ walk'.page = walk.page + 1
         /\ walk'.filter = walk.filter /\ walk'.stayed = walk.stayed
         /\ walk'.left = walk.left /\ walk'.came = walk.came
         /\ walk'.state = IF walk.page < TotalPages(tx.first) THEN "walking" ELSE "done"
         /\ tx' = NoTx /\ UNCHANGED <<alerts, applied, feeds, network, ids>>
<1>1. /\ tx.op = "page" /\ walk.state = "walking" /\ tx.arg = <<walk.filter, walk.page>>
      /\ DbOK(tx.snapshot) /\ tx.first = FirstQuery(tx.op, tx.arg, tx.snapshot)
  BY TxOps DEF ReadsInv, FinishPage
<1>2. walk \in Walk
  BY <1>1 DEF ReadsInv, NoWalk
<1>3. tx.arg[1] = walk.filter /\ tx.arg[2] = walk.page
  BY <1>1
<1>4. tx.first = Cardinality(Historical(tx.snapshot, walk.filter))
  BY <1>1, <1>3 DEF FirstQuery
<1>5. Answer = HistoricalPage(tx.snapshot, walk.filter, walk.page)
  BY <1>1, <1>3 DEF Answer, SecondQuery, View
<1>6. walk.page \in Nat \ {0} /\ walk.seen \in Seq(Nat)
  BY <1>2 DEF Walk
<1>7. Answer \in Seq(Nat)
  BY <1>1, <1>5, <1>6, PageFacts DEF Shows
<1>8. walk.seen \o Answer \in Seq(Nat) /\ walk.page + 1 \in Nat \ {0}
  BY <1>6, <1>7
<1>9. walk' = [walk EXCEPT !.seen = walk.seen \o Answer, !.page = walk.page + 1,
                           !.state = IF walk.page < TotalPages(tx.first)
                               THEN walk.state ELSE "done"]
  BY DEF FinishPage
<1>10. tx' = NoTx /\ UNCHANGED <<alerts, applied, feeds, network, ids>>
  BY DEF FinishPage, Unread
<1> DEFINE sn == walk.seen \o Answer
           go == walk.page < TotalPages(tx.first)
<1> HIDE DEF sn, go
<1>11. walk' = [walk EXCEPT !.seen = sn, !.page = walk.page + 1,
                            !.state = IF go THEN walk.state ELSE "done"]
  BY <1>9 DEF sn, go
<1>12. sn \in Seq(Nat)
  BY <1>8 DEF sn
<1>13. /\ walk' \in Walk /\ walk'.seen = sn /\ walk'.page = walk.page + 1
       /\ walk'.filter = walk.filter /\ walk'.stayed = walk.stayed
       /\ walk'.left = walk.left /\ walk'.came = walk.came
       /\ walk'.state = IF go THEN "walking" ELSE "done"
  BY <1>1, <1>2, <1>8, <1>11, <1>12 DEF Walk
<1> QED BY <1>1, <1>2, <1>4, <1>5, <1>10, <1>13 DEF sn, go

\* What a feed or an import does to the walk.
LEMMA FollowFacts ==
  ASSUME NEW w \in Walk, NEW old, NEW new,
         Historical(old, w.filter) \subseteq Nat, Historical(new, w.filter) \subseteq Nat
  PROVE  LET before == Historical(old, w.filter)
             after == Historical(new, w.filter)
             moved == {id \in before \cap after : SortKey(Row(old, id)) # SortKey(Row(new, id))}
             v == Follow(w, old, new) IN
         /\ v \in Walk /\ v.state = w.state /\ v.filter = w.filter /\ v.page = w.page
         /\ v.seen = w.seen /\ v.stayed = (w.stayed \cap after) \ moved
         /\ ~ v.left => ~ w.left /\ before \subseteq after
         /\ ~ v.came => ~ w.came /\ after \subseteq before /\ moved = {}
<1> DEFINE before == Historical(old, w.filter)
           after == Historical(new, w.filter)
           moved == {id \in before \cap after : SortKey(Row(old, id)) # SortKey(Row(new, id))}
           st == (w.stayed \cap after) \ moved
           lf == w.left \/ before \ after # {}
           cm == w.came \/ (after \ before) \cup moved # {}
<1>1. Follow(w, old, new) = [w EXCEPT !.stayed = st, !.left = lf, !.came = cm]
  BY DEF Follow
<1>2. st \in SUBSET Nat /\ lf \in BOOLEAN /\ cm \in BOOLEAN
  BY DEF Walk
<1>3. /\ ~ lf => ~ w.left /\ before \subseteq after
      /\ ~ cm => ~ w.came /\ after \subseteq before /\ moved = {}
  OBVIOUS
<1> HIDE DEF before, after, moved, st, lf, cm
<1> DEFINE v == [w EXCEPT !.stayed = st, !.left = lf, !.came = cm]
<1>4. /\ v \in Walk /\ v.state = w.state /\ v.filter = w.filter /\ v.page = w.page
      /\ v.seen = w.seen /\ v.stayed = st /\ v.left = lf /\ v.came = cm
  BY <1>2 DEF Walk
<1> QED BY <1>1, <1>3, <1>4 DEF before, after, moved, st, lf, cm

\* The lists of databases are of numbers.
LEMMA ListsAreNumbers ==
  ASSUME EpisodeInv, IdsOK, EpisodeInv', IdsOK', NEW filter
  PROVE  Historical(Database, filter) \subseteq Nat /\ Historical(Database', filter) \subseteq Nat
<1>1. DbOK(Database)
  BY DatabaseOK
<1>2. DOMAIN ids' \subseteq Nat
  BY DEF IdsOK
<1>3. Historical(Database', filter) \subseteq DOMAIN ids'
  BY DEF Historical, Database
<1> QED BY <1>1, <1>2, <1>3, RankFacts

\* The invariant of reads is inductive.
LEMMA ReadsInvStep ==
  ASSUME ReadsInv, [NextReads]_readVars
  PROVE  ReadsInv'
<1> DEFINE WalkType == walk = NoWalk \/ walk \in Walk
<1>0. EpisodeInv /\ IdsOK /\ WalkType /\ TxOK
  BY DEF ReadsInv
<1>1. EpisodeInv' /\ IdsOK'
  BY <1>0, HistoryStepInv, ReadsLeaveHistory, IdsStep
<1>2. CASE DataArrives
  <2>1. /\ tx' = tx
        /\ walk' = IF walk.state = "walking" THEN Follow(walk, Database, Database') ELSE walk
    BY <1>2 DEF DataArrives, FeedArrives, ImportArrives
  <2>2. CASE walk.state # "walking"
    BY <1>0, <1>1, <2>1, <2>2 DEF ReadsInv, TxOK
  <2>3. CASE walk.state = "walking"
    <3>1. walk \in Walk
      BY <1>0, <2>3 DEF NoWalk
    <3>2. /\ walk' \in Walk /\ walk'.state = walk.state /\ walk'.filter = walk.filter
          /\ walk'.page = walk.page
      BY <1>0, <1>1, <2>1, <2>3, <3>1, FollowFacts, ListsAreNumbers
    <3> QED BY <1>0, <1>1, <2>1, <3>2 DEF ReadsInv, TxOK
  <2> QED BY <2>2, <2>3
<1>3. CASE \E id \in DOMAIN ids : ReadAlert(id)
  <2>1. PICK id \in DOMAIN ids : Begin("alert", id) /\ walk' = walk
    BY <1>3 DEF ReadAlert
  <2>2. /\ DbOK(tx'.snapshot) /\ tx'.first = FirstQuery(tx'.op, tx'.arg, tx'.snapshot)
        /\ tx'.op = "alert" /\ tx'.arg = id /\ tx'.snapshot = Database
    BY <1>0, <2>1, BeginTx
  <2>3. tx'.arg \in DOMAIN tx'.snapshot.ids
    BY <2>2 DEF Database
  <2>4. TxOK'
    BY <2>2, <2>3 DEF TxOK
  <2> QED BY <1>0, <1>1, <2>1, <2>4 DEF ReadsInv
<1>4. CASE \E line \in Line, now \in Time : ReadLine(line, now)
  <2>1. PICK line \in Line, now \in Time : Begin("line", <<line, now>>) /\ walk' = walk
    BY <1>4 DEF ReadLine
  <2>2. /\ DbOK(tx'.snapshot) /\ tx'.first = FirstQuery(tx'.op, tx'.arg, tx'.snapshot)
        /\ tx'.op = "line"
    BY <1>0, <2>1, BeginTx
  <2>3. TxOK'
    BY <2>2 DEF TxOK
  <2> QED BY <1>0, <1>1, <2>1, <2>3 DEF ReadsInv
<1>5. CASE Finish
  BY <1>0, <1>1, <1>5 DEF Finish, ReadsInv, TxOK
<1>6. CASE \E filter \in Filter : StartWalk(filter)
  <2>1. PICK filter \in Filter : StartWalk(filter)
    BY <1>6
  <2>2. walk' = [state |-> "walking", filter |-> filter, page |-> 1, seen |-> <<>>,
                 stayed |-> Historical(Database, filter), left |-> FALSE, came |-> FALSE]
    BY <2>1 DEF StartWalk
  <2>3. Historical(Database, filter) \in SUBSET Nat
    BY <1>0, <1>1, ListsAreNumbers
  <2>4. walk' \in Walk /\ walk'.state = "walking" /\ walk'.filter = filter /\ walk'.page = 1
    BY <2>2, <2>3 DEF Walk
  <2>5. /\ DbOK(tx'.snapshot) /\ tx'.first = FirstQuery(tx'.op, tx'.arg, tx'.snapshot)
        /\ tx'.op = "page" /\ tx'.arg = <<filter, 1>>
    BY <1>0, <2>1, BeginTx DEF StartWalk
  <2>6. TxOK'
    BY <2>4, <2>5 DEF TxOK
  <2> QED BY <1>1, <2>4, <2>6 DEF ReadsInv
<1>7. CASE NextPage
  <2>1. walk.state = "walking" /\ walk' = walk /\ Begin("page", <<walk.filter, walk.page>>)
    BY <1>7 DEF NextPage
  <2>2. /\ DbOK(tx'.snapshot) /\ tx'.first = FirstQuery(tx'.op, tx'.arg, tx'.snapshot)
        /\ tx'.op = "page" /\ tx'.arg = <<walk.filter, walk.page>>
    BY <1>0, <2>1, BeginTx
  <2>3. TxOK'
    BY <2>1, <2>2 DEF TxOK
  <2> QED BY <1>0, <1>1, <2>1, <2>3 DEF ReadsInv
<1>8. CASE FinishPage
  BY <1>1, <1>8, FinishPageWalk DEF ReadsInv, TxOK
<1>9. CASE UNCHANGED readVars
  BY <1>0, <1>1, <1>9 DEF readVars, ReadsInv, TxOK
<1> QED BY <1>2, <1>3, <1>4, <1>5, <1>6, <1>7, <1>8, <1>9 DEF NextReads, DataArrives

\* Transactions always read one committed database.
THEOREM ReadsInvariance == ReadsSpec => []ReadsInv
<1>1. InitReads => ReadsInv
  <2>1. InitReads => IdsOK /\ TxOK /\ walk = NoWalk
    BY DEF InitReads, IdsOK, TxOK
  <2> QED BY <2>1, InitEpisodeInv DEF InitReads, ReadsInv
<1>2. ReadsInv /\ [NextReads]_readVars => ReadsInv'
  BY ReadsInvStep
<1> QED BY <1>1, <1>2, PTL DEF ReadsSpec

\* GetAlert: what its two queries say of an alert agrees.
LEMMA AlertCoherent ==
  ASSUME NEW db, DbOK(db), NEW id \in DOMAIN db.ids
  PROVE  LET first == AlertSummary(db, id)
             last == LatestRevision(db, id)
             latest == Row(db, id).revisions[last] IN
         /\ last = first.revision_count
         /\ first.status = "present" <=> first.closed_at = NoTime
         /\ first.status = "present" <=> ~ IsDeleted(latest) /\ latest.closed_at = NoTime
<1> DEFINE a == Row(db, id)
           v == CurrentRevision(a)
           first == AlertSummary(db, id)
           last == LatestRevision(db, id)
<1>1. RowFine(a)
  BY DEF DbOK
<1>2. /\ first.status = IF IsLive(a) THEN "present" ELSE "historical"
      /\ first.closed_at = IF IsDeleted(v) THEN v.first_seen_at ELSE a.closed_at
      /\ first.revision_count = Len(a.revisions)
  BY DEF AlertSummary
<1>3. last = LastOf(a, Numbers(a))
  BY DEF LatestRevision
<1> HIDE DEF a, first, last, v
<1>4. /\ v = a.revisions[Len(a.revisions)] /\ Len(a.revisions) \in Nat
      /\ Numbers(a) = 1..Len(a.revisions) /\ Len(a.revisions) \in Numbers(a)
      /\ v.first_seen_at # NoTime /\ a.closed_at = v.closed_at
      /\ a.is_present <=> a.closed_at = NoTime
  BY <1>1, RowFineFacts DEF v
<1>5. last = Len(a.revisions)
  <2>1. InOrder(a) /\ Numbers(a) # {}
    BY <1>1, <1>4 DEF RowFine
  <2>2. last \in Numbers(a) /\ \A m \in Numbers(a) : m <= last
    BY <1>3, <2>1, LastOfIs
  <2> QED BY <1>4, <2>2
<1>6. IsLive(a) <=> a.is_present /\ ~ IsDeleted(v)
  BY DEF IsLive, v
<1>7. a.revisions[last] = v
  BY <1>4, <1>5
<1>8. /\ first.status = "present" <=> first.closed_at = NoTime
      /\ first.status = "present" <=> ~ IsDeleted(v) /\ v.closed_at = NoTime
  BY <1>2, <1>4, <1>6
<1> QED BY <1>2, <1>5, <1>7, <1>8 DEF a, first, last

\* GetLine: the counts are those of the alerts shown.
LEMMA LineCoherent ==
  ASSUME NEW db, DbOK(db), NEW line, NEW now
  PROVE  LET first == LineCounts(db, line, now) IN
         /\ first.present = Cardinality(LineAlerts(db, line))
         /\ first.current + first.upcoming <= first.present
<1> DEFINE S == LineAlerts(db, line)
           C == {id \in S : ActiveAt(CurrentRevision(Row(db, id)), now)}
           U == {id \in S : UpcomingAt(CurrentRevision(Row(db, id)), now)}
           first == LineCounts(db, line, now)
<1>1. /\ first.present = Cardinality(S) /\ first.current = Cardinality(C)
      /\ first.upcoming = Cardinality(U)
  BY DEF LineCounts
<1>2. S \in SUBSET (1..Len(db.ids)) /\ Len(db.ids) \in Nat
  BY DEF LineAlerts, DbOK
<1>3. C \cap U = {} /\ C \in SUBSET S /\ U \in SUBSET S
  BY DEF UpcomingAt
<1> HIDE DEF S, C, U, first
<1>4. IsFiniteSet(S)
  <2>1. IsFiniteSet(1..Len(db.ids))
    BY <1>2, FS_Interval
  <2> QED BY <1>2, <2>1, FS_Subset
<1>5. IsFiniteSet(C) /\ IsFiniteSet(U)
  BY <1>3, <1>4, FS_Subset
<1>6. Cardinality(C \cup U) = Cardinality(C) + Cardinality(U) - 0
  BY <1>3, <1>5, FS_Union, FS_EmptySet
<1>7. C \cup U \in SUBSET S
  BY <1>3
<1>8. Cardinality(C \cup U) <= Cardinality(S)
  BY <1>4, <1>7, FS_Subset
<1>9. Cardinality(C) \in Nat /\ Cardinality(U) \in Nat
  BY <1>5, FS_CardinalityType
<1> QED BY <1>1, <1>6, <1>8, <1>9 DEF S, first

\* A response is of one moment, whatever ingestion commits between its
\* queries (readTx).
THEOREM ReadsAlwaysCoherent == ReadsSpec => []Coherent
<1>1. ReadsInv => Coherent
  <2> SUFFICES ASSUME ReadsInv PROVE Coherent
    OBVIOUS
  <2>1. /\ tx.op \in {"none", "alert", "line", "page"}
        /\ tx.op # "none" => /\ DbOK(tx.snapshot)
                             /\ tx.first = FirstQuery(tx.op, tx.arg, tx.snapshot)
        /\ tx.op = "alert" => tx.arg \in DOMAIN tx.snapshot.ids
        /\ tx.op = "page" => walk.state = "walking" /\ tx.arg = <<walk.filter, walk.page>>
    BY TxOps DEF ReadsInv
  <2>2. CASE tx.op = "none"
    BY <2>2 DEF Coherent
  <2>3. CASE tx.op = "alert"
    <3>1. /\ tx.first = AlertSummary(tx.snapshot, tx.arg)
          /\ Answer = LatestRevision(tx.snapshot, tx.arg)
      BY <2>1, <2>3 DEF FirstQuery, Answer, SecondQuery, View
    <3>2. /\ Answer = tx.first.revision_count
          /\ tx.first.status = "present" <=> tx.first.closed_at = NoTime
          /\ tx.first.status = "present" <=>
               /\ ~ IsDeleted(Row(tx.snapshot, tx.arg).revisions[Answer])
               /\ Row(tx.snapshot, tx.arg).revisions[Answer].closed_at = NoTime
      BY <2>1, <2>3, <3>1, AlertCoherent
    <3> QED BY <2>3, <3>2 DEF Coherent, View
  <2>4. CASE tx.op = "line"
    <3>1. /\ tx.first = LineCounts(tx.snapshot, tx.arg[1], tx.arg[2])
          /\ Answer = LineAlerts(tx.snapshot, tx.arg[1])
      BY <2>1, <2>4 DEF FirstQuery, Answer, SecondQuery, View
    <3>2. /\ tx.first.present = Cardinality(Answer)
          /\ tx.first.current + tx.first.upcoming <= tx.first.present
      BY <2>1, <2>4, <3>1, LineCoherent
    <3> QED BY <2>4, <3>2 DEF Coherent
  <2>5. CASE tx.op = "page"
    <3>1. walk \in Walk
      BY <2>1, <2>5 DEF ReadsInv, NoWalk
    <3>2. tx.arg[1] = walk.filter /\ tx.arg[2] = walk.page /\ walk.page \in Nat \ {0}
      BY <2>1, <2>5, <3>1 DEF Walk
    <3>3. /\ tx.first = Cardinality(Historical(tx.snapshot, walk.filter))
          /\ Answer = HistoricalPage(tx.snapshot, walk.filter, walk.page)
      BY <2>1, <2>5, <3>2 DEF FirstQuery, Answer, SecondQuery, View
    <3>4. Len(Answer) = Max({0, Min({PageSize, tx.first - Offset(walk.page)})})
      BY <2>1, <2>5, <3>2, <3>3, PageFacts DEF Shows
    <3> QED BY <2>5, <3>2, <3>4 DEF Coherent
  <2> QED BY <2>1, <2>2, <2>3, <2>4, <2>5
<1> QED BY <1>1, ReadsInvariance, PTL

-----------------------------------------------------------------------------
(* The walk while feeds and imports arrive.                                *)

\* Alerts move in the historical list to the front only.
LEMMA SortKeyGrows ==
  ASSUME NEW a, NEW b, NEW c, NEW t \in Nat, RowStep(a, b, c, t), RowFine(a), RowFine(b),
         a # NoAlert,
         \A n \in Numbers(a) : /\ a.revisions[n].first_seen_at <= t
                               /\ a.revisions[n].closed_at # NoTime =>
                                    a.revisions[n].closed_at <= t
  PROVE  SortKey(a) <= SortKey(b)
<1> DEFINE L == Len(a.revisions)
           M == Len(b.revisions)
<1>1. /\ L \in Nat /\ L \in Numbers(a) /\ a.closed_at = a.revisions[L].closed_at
      /\ CurrentRevision(a) = a.revisions[L] /\ SortKey(a) \in Nat
      /\ a.is_present <=> a.closed_at = NoTime
  BY RowFineFacts
<1>2. /\ CurrentRevision(b) = b.revisions[M] /\ SortKey(b) \in Nat
  BY RowFineFacts
<1>3. SortKey(a) <= t
  BY <1>1 DEF SortKey
<1>4. CASE SeenStep(a, b, c, t)
  <2>1. M = L /\ a.is_present /\ b.is_present
    BY <1>4 DEF SeenStep, SameRevisions
  <2>2. b.revisions[L].first_seen_at = a.revisions[L].first_seen_at
    BY <1>1, <1>4 DEF SeenStep, SameRevisions
  <2> QED BY <1>1, <1>2, <2>1, <2>2 DEF SortKey
<1>5. CASE IdleStep(a, b, c)
  BY <1>1, <1>5 DEF IdleStep
<1>6. CASE GoneStep(a, b, c, t)
  BY <1>3, <1>6 DEF GoneStep, SortKey
<1>7. CASE NewStep(a, b, c, t)
  <2>1. b.is_present /\ M = L + 1 /\ b.revisions[L + 1].first_seen_at = t
    BY <1>7 DEF NewStep
  <2>2. SortKey(b) = t
    BY <1>2, <2>1 DEF SortKey
  <2> QED BY <1>3, <2>2
<1> QED BY <1>4, <1>5, <1>6, <1>7 DEF RowStep, ChangedStep, ReturnedStep

\* What a feed does to the alerts that were stored before.
LEMMA FeedMovesRows ==
  ASSUME EpisodeInv, IdsOK, NEW f \in AppliedRun, FeedArrives(f), NEW id \in DOMAIN ids
  PROVE  /\ id \in DOMAIN ids'
         /\ SortKey(Row(Database, id)) \in Nat /\ SortKey(Row(Database', id)) \in Nat
         /\ SortKey(Row(Database, id)) <= SortKey(Row(Database', id))
<1> DEFINE s == ids[id][1]
           e == ids[id][2]
           a == alerts[s][e]
           b == alerts'[s][e]
           t == ObservedAt(f)
<1>1. ApplyFeed(f) /\ EpisodeInv' /\ IdsOK'
  BY ApplyFeedInv, IdsAfterFeed DEF FeedArrives
<1>2. DbOK(Database)
  BY DatabaseOK
<1>3. DbOK(Database')
  <2>1. DbOK(Database)'
    BY <1>1, DatabaseOK, PTL
  <2> QED BY <2>1 DEF DbOK, Row
<1>4. /\ id \in 1..Len(ids) /\ id \in 1..Len(ids') /\ id \in DOMAIN ids' /\ ids'[id] = ids[id]
      /\ s \in Source /\ e \in Entity /\ a # NoAlert
  <2>1. id \in 1..Len(ids) /\ s \in Source /\ e \in Entity /\ a # NoAlert
    BY DEF IdsOK
  <2>2. /\ Len(ids) \in Nat /\ Len(ids') \in Nat /\ Len(ids) <= Len(ids')
        /\ ids'[id] = ids[id]
    BY <2>1, IdsAfterFeed
  <2>3. id \in 1..Len(ids')
    BY <2>1, <2>2
  <2>4. DOMAIN ids' = 1..Len(ids')
    BY <1>1 DEF IdsOK
  <2> QED BY <2>1, <2>2, <2>3, <2>4
<1>5. Row(Database, id) = a /\ Row(Database', id) = b
  BY <1>4 DEF Row, Database
<1>6. RowFine(a) /\ RowFine(b)
  BY <1>2, <1>3, <1>4, <1>5 DEF DbOK, Database
<1>7. SortKey(a) \in Nat /\ SortKey(b) \in Nat
  BY <1>6, RowFineFacts
<1>8. SortKey(a) <= SortKey(b)
  <2>1. CASE s # f.source
    <3>1. b = a
      BY <1>1, <1>4, <2>1, ApplyFeedRows
    <3> QED BY <1>7, <3>1
  <2>2. CASE s = f.source
    <3>1. RowStep(a, b, Listed(f)[e], t) /\ Follows(f, AppliedTo(s))
      BY <1>1, <1>4, <2>2, ApplyFeedRows
    <3>2. RowOK(AppliedTo(s), e, a) /\ a \in Alert
      BY <1>4 DEF EpisodeInv, Inv, TypeOK, EntityOK
    <3>3. t \in Nat
      BY <3>1, FollowsFacts
    <3> HIDE DEF a
    <3>4. \A n \in Numbers(a) : /\ a.revisions[n].first_seen_at \in Nat
                                /\ a.revisions[n].last_seen_at \in Nat
                                /\ a.revisions[n].first_seen_at <= a.revisions[n].last_seen_at
                                /\ a.revisions[n].last_seen_at <= t
                                /\ a.revisions[n].closed_at # NoTime =>
                                     a.revisions[n].closed_at <= t
      <4>1. \A n \in 1..Len(a.revisions) :
              /\ a.revisions[n].first_seen_at \in Nat /\ a.revisions[n].last_seen_at \in Nat
              /\ a.revisions[n].last_seen_at <= t
              /\ a.revisions[n].first_seen_at <= a.revisions[n].last_seen_at
              /\ a.revisions[n].closed_at # NoTime =>
                   a.revisions[n].closed_at \in Nat /\ a.revisions[n].closed_at <= t
        BY <1>4, <3>1, <3>2, RowBounded
      <4> HIDE DEF t
      <4> QED BY <4>1 DEF Numbers
    <3>5. \A n \in Numbers(a) : a.revisions[n].first_seen_at <= t
      BY <3>3, <3>4
    <3> HIDE DEF b, t
    <3> QED BY <1>4, <1>6, <3>1, <3>3, <3>4, <3>5, SortKeyGrows
  <2> QED BY <2>1, <2>2
<1> QED BY <1>4, <1>5, <1>7, <1>8

\* Feeds and imports alike leave the order of the old alerts or move them to
\* the front.
LEMMA DataMovesRows ==
  ASSUME EpisodeInv, IdsOK, DataArrives
  PROVE  /\ EpisodeInv' /\ IdsOK'
         /\ \A id \in DOMAIN ids :
              /\ SortKey(Row(Database, id)) \in Nat /\ SortKey(Row(Database', id)) \in Nat
              /\ SortKey(Row(Database, id)) <= SortKey(Row(Database', id))
<1>1. EpisodeInv' /\ IdsOK'
  <2>1. NextReads
    BY DEF DataArrives, NextReads
  <2> QED BY <2>1, HistoryStepInv, ReadsLeaveHistory, IdsStep
<1>2. CASE \E f \in AppliedRun : FeedArrives(f)
  BY <1>1, <1>2, FeedMovesRows
<1>3. ASSUME NEW n \in Network, ImportArrives(n), NEW id \in DOMAIN ids
      PROVE  /\ SortKey(Row(Database, id)) \in Nat
             /\ SortKey(Row(Database', id)) = SortKey(Row(Database, id))
  <2>1. Row(Database', id) = Row(Database, id)
    BY <1>3 DEF ImportArrives, Row, Database
  <2>2. id \in 1..Len(ids) /\ DbOK(Database)
    BY <1>3, DatabaseOK DEF IdsOK
  <2>3. RowFine(Row(Database, id))
    BY <2>2 DEF DbOK, Database
  <2> QED BY <2>1, <2>3, RowFineFacts
<1>4. CASE \E n \in Network : ImportArrives(n)
  <2>1. \A id \in DOMAIN ids : /\ SortKey(Row(Database, id)) \in Nat
                               /\ SortKey(Row(Database', id)) = SortKey(Row(Database, id))
    BY <1>3, <1>4
  <2>2. \A id \in DOMAIN ids : SortKey(Row(Database, id)) <= SortKey(Row(Database', id))
    BY <2>1
  <2> QED BY <1>1, <2>1, <2>2
<1> QED BY <1>2, <1>4 DEF DataArrives

\* So an alert that stays moves back only when others come, and forward only
\* when others leave.
LEMMA DataMovesRanks ==
  ASSUME ReadsInv, DataArrives, NEW filter, NEW x,
         x \in Historical(Database, filter), x \in Historical(Database', filter),
         SortKey(Row(Database, x)) = SortKey(Row(Database', x))
  PROVE  LET before == Historical(Database, filter)
             after == Historical(Database', filter)
             moved == {id \in before \cap after :
                         SortKey(Row(Database, id)) # SortKey(Row(Database', id))} IN
         /\ before \subseteq after =>
              Rank(Database, filter, x) <= Rank(Database', filter, x)
         /\ after \subseteq before /\ moved = {} =>
              Rank(Database', filter, x) <= Rank(Database, filter, x)
<1> DEFINE before == Historical(Database, filter)
           after == Historical(Database', filter)
           moved == {id \in before \cap after :
                       SortKey(Row(Database, id)) # SortKey(Row(Database', id))}
           old(j) == SortKey(Row(Database, j))
           new(j) == SortKey(Row(Database', j))
           B == ListedBefore(Database, filter, x)
           A == ListedBefore(Database', filter, x)
<1>1. EpisodeInv /\ IdsOK /\ EpisodeInv' /\ IdsOK'
  BY DataMovesRows DEF ReadsInv
<1>2. DbOK(Database)
  BY <1>1, DatabaseOK
<1>3. DbOK(Database')
  <2>1. DbOK(Database)'
    BY <1>1, DatabaseOK, PTL
  <2> QED BY <2>1 DEF DbOK, Row
<1>4. before \in SUBSET Nat /\ after \in SUBSET Nat /\ IsFiniteSet(before) /\ IsFiniteSet(after)
  BY <1>2, <1>3, RankFacts
<1>5. \A j \in before : old(j) \in Nat /\ new(j) \in Nat /\ old(j) <= new(j)
  BY <1>1, DataMovesRows DEF Historical, Database
<1>6. /\ \A j : j \in B <=> j \in before /\ (old(j) > old(x) \/ (old(j) = old(x) /\ j > x))
      /\ \A j : j \in A <=> j \in after /\ (new(j) > new(x) \/ (new(j) = new(x) /\ j > x))
  BY DEF ListedBefore
<1>7. B \in SUBSET before /\ A \in SUBSET after
  BY <1>6
<1>8. IsFiniteSet(A) /\ IsFiniteSet(B)
  BY <1>4, <1>7, FS_Subset
<1>9. x \in before /\ x \in after /\ old(x) = new(x)
  OBVIOUS
<1> HIDE DEF before, after, moved, old, new, A, B
<1>10. ASSUME before \subseteq after PROVE Cardinality(B) <= Cardinality(A)
  <2>1. ASSUME NEW j \in B PROVE j \in A
    <3>1. j \in before /\ j \in after /\ (old(j) > old(x) \/ (old(j) = old(x) /\ j > x))
      BY <1>6, <1>10, <2>1
    <3>2. old(j) \in Nat /\ new(j) \in Nat /\ old(j) <= new(j) /\ old(x) \in Nat
      BY <1>5, <1>9, <3>1
    <3>3. new(j) > new(x) \/ (new(j) = new(x) /\ j > x)
      BY <1>9, <3>1, <3>2
    <3> QED BY <1>6, <3>1, <3>3
  <2>2. B \in SUBSET A
    BY <2>1
  <2> QED BY <1>8, <2>2, FS_Subset
<1>11. ASSUME after \subseteq before, moved = {} PROVE Cardinality(A) <= Cardinality(B)
  <2>1. ASSUME NEW j \in A PROVE j \in B
    <3>1. j \in before /\ j \in after /\ (new(j) > new(x) \/ (new(j) = new(x) /\ j > x))
      BY <1>6, <1>11, <2>1
    <3>2. old(j) = new(j)
      BY <1>11, <3>1 DEF moved, old, new
    <3> QED BY <1>6, <1>9, <3>1, <3>2
  <2>2. A \in SUBSET B
    BY <2>1
  <2> QED BY <1>8, <2>2, FS_Subset
<1> QED BY <1>10, <1>11 DEF Rank, before, after, moved, old, new, A, B

\* The invariant after a step, of the walk and the databases after it.
LEMMA WalkPrimed ==
  /\ PlaceOK(walk, Database)' <=> PlaceOK(walk', Database')
  /\ PlaceOK(walk, tx.snapshot)' <=> PlaceOK(walk', tx'.snapshot)
  /\ MovesOK(walk, tx.snapshot, Database)' <=> MovesOK(walk', tx'.snapshot, Database')
  /\ \A x : IsSeen(walk, x)' <=> IsSeen(walk', x)
  /\ \A x : SeenOnce(walk, x)' <=> SeenOnce(walk', x)
<1>1. PlaceOK(walk, Database)' <=> PlaceOK(walk', Database')
  BY DEF PlaceOK, Rank, ListedBefore, Historical, Row, IsSeen, SeenOnce
<1>2. PlaceOK(walk, tx.snapshot)' <=> PlaceOK(walk', tx'.snapshot)
  BY DEF PlaceOK, Rank, ListedBefore, Historical, Row, IsSeen, SeenOnce
<1>3. MovesOK(walk, tx.snapshot, Database)' <=> MovesOK(walk', tx'.snapshot, Database')
  BY DEF MovesOK, Rank, ListedBefore, Historical, Row
<1>4. /\ \A x : IsSeen(walk, x)' <=> IsSeen(walk', x)
      /\ \A x : SeenOnce(walk, x)' <=> SeenOnce(walk', x)
  BY DEF IsSeen, SeenOnce
<1> QED BY <1>1, <1>2, <1>3, <1>4

\* A feed or an import that arrives during the walk.
LEMMA WalkData ==
  ASSUME ReadsInv, WalkInv, DataArrives
  PROVE  WalkInv'
<1>1. /\ tx' = tx
      /\ walk' = IF walk.state = "walking" THEN Follow(walk, Database, Database') ELSE walk
  BY DEF DataArrives, FeedArrives, ImportArrives
<1>2. CASE walk.state # "walking"
  BY <1>1, <1>2 DEF WalkInv
<1>3. CASE walk.state = "walking"
  <2> DEFINE w == walk
             v == walk'
             fl == walk.filter
             before == Historical(Database, fl)
             after == Historical(Database', fl)
             moved == {id \in before \cap after :
                         SortKey(Row(Database, id)) # SortKey(Row(Database', id))}
  <2>1. EpisodeInv /\ IdsOK /\ EpisodeInv' /\ IdsOK' /\ w \in Walk
    <3>1. EpisodeInv /\ IdsOK /\ (walk = NoWalk \/ walk \in Walk)
      BY DEF ReadsInv
    <3>2. walk # NoWalk
      BY <1>3 DEF NoWalk
    <3>3. EpisodeInv' /\ IdsOK'
      BY <3>1, DataMovesRows
    <3> QED BY <3>1, <3>2, <3>3
  <2>2. before \subseteq Nat /\ after \subseteq Nat
    BY <2>1, ListsAreNumbers
  <2>3. /\ v.state = "walking" /\ v.filter = fl /\ v.page = w.page
        /\ v.seen = w.seen /\ v.stayed = (w.stayed \cap after) \ moved
        /\ ~ v.left => ~ w.left /\ before \subseteq after
        /\ ~ v.came => ~ w.came /\ after \subseteq before /\ moved = {}
    BY <1>1, <1>3, <2>1, <2>2, FollowFacts
  <2>4. ASSUME NEW x \in v.stayed, x \in before
        PROVE  /\ x \in w.stayed /\ x \in after
               /\ ~ v.left => Rank(Database, fl, x) <= Rank(Database', fl, x)
               /\ ~ v.came => Rank(Database', fl, x) <= Rank(Database, fl, x)
    <3>1. x \in w.stayed /\ x \in after /\ x \notin moved
      BY <2>3, <2>4
    <3>2. SortKey(Row(Database, x)) = SortKey(Row(Database', x))
      BY <2>4, <3>1
    <3>3. /\ before \subseteq after => Rank(Database, fl, x) <= Rank(Database', fl, x)
          /\ after \subseteq before /\ moved = {} =>
               Rank(Database', fl, x) <= Rank(Database, fl, x)
      BY <2>4, <3>1, <3>2, DataMovesRanks
    <3> HIDE DEF before, after, moved, w, v, fl
    <3> QED BY <2>3, <3>1, <3>3
  <2>5. \A x : IsSeen(v, x) <=> IsSeen(w, x)
    BY <2>3 DEF IsSeen
  <2>6. \A x : SeenOnce(v, x) <=> SeenOnce(w, x)
    BY <2>3 DEF SeenOnce
  <2>7. \A x \in before : Rank(Database, fl, x) \in Nat
    BY <2>1, DatabaseOK, RankFacts
  <2>8. \A x \in after : Rank(Database', fl, x) \in Nat
    <3>1. DbOK(Database)'
      BY <2>1, DatabaseOK, PTL
    <3>2. DbOK(Database')
      BY <3>1 DEF DbOK, Row
    <3> QED BY <3>2, RankFacts
  <2>9. w.page \in Nat \ {0} /\ Offset(w.page) \in Nat
    BY <2>1, OffsetFacts DEF Walk
  <2> HIDE DEF before, after, moved, w, v, fl
  <2>10. CASE tx.op # "page"
    <3>1. PlaceOK(w, Database)
      BY <1>3, <2>10 DEF WalkInv, w
    <3>2. ASSUME NEW x \in v.stayed
          PROVE  /\ x \in after
                 /\ ~ v.left => IsSeen(v, x) \/ Rank(Database', fl, x) >= Offset(v.page)
                 /\ ~ v.came => /\ SeenOnce(v, x)
                                /\ IsSeen(v, x) => Rank(Database', fl, x) < Offset(v.page)
      <4>1. x \in w.stayed
        BY <2>3, <3>2
      <4>2. /\ x \in before
            /\ ~ w.left => IsSeen(w, x) \/ Rank(Database, fl, x) >= Offset(w.page)
            /\ ~ w.came => SeenOnce(w, x) /\ (IsSeen(w, x) =>
                Rank(Database, fl, x) < Offset(w.page))
        BY <3>1, <4>1 DEF PlaceOK, before, w, fl
      <4>3. /\ x \in after
            /\ ~ v.left => Rank(Database, fl, x) <= Rank(Database', fl, x)
            /\ ~ v.came => Rank(Database', fl, x) <= Rank(Database, fl, x)
        BY <2>4, <4>2
      <4>4. Rank(Database, fl, x) \in Nat /\ Rank(Database', fl, x) \in Nat
        BY <2>7, <2>8, <4>2, <4>3
      <4> QED BY <2>3, <2>5, <2>6, <2>9, <4>2, <4>3, <4>4
    <3>3. PlaceOK(v, Database')
      BY <2>3, <3>2 DEF PlaceOK, after
    <3>4. PlaceOK(walk, Database)'
      BY <3>3, WalkPrimed DEF v
    <3> QED BY <1>1, <2>3, <2>10, <3>4 DEF WalkInv, v
  <2>11. CASE tx.op = "page"
    <3> DEFINE snap == tx.snapshot
    <3>1. PlaceOK(w, snap) /\ MovesOK(w, snap, Database)
      BY <1>3, <2>11 DEF WalkInv, w
    <3>2. DbOK(snap)
      BY <2>11, TxOps DEF ReadsInv
    <3> HIDE DEF snap
    <3>3. \A x \in Historical(snap, fl) : Rank(snap, fl, x) \in Nat
      BY <3>2, RankFacts
    <3>4. PlaceOK(v, snap)
      BY <2>3, <2>5, <2>6, <3>1 DEF PlaceOK, w, fl
    <3>5. ASSUME NEW x \in v.stayed
          PROVE  /\ x \in after
                 /\ ~ v.left => Rank(snap, fl, x) <= Rank(Database', fl, x)
                 /\ ~ v.came => Rank(Database', fl, x) <= Rank(snap, fl, x)
      <4>1. x \in w.stayed
        BY <2>3, <3>5
      <4>2. /\ x \in before
            /\ ~ w.left => Rank(snap, fl, x) <= Rank(Database, fl, x)
            /\ ~ w.came => Rank(Database, fl, x) <= Rank(snap, fl, x)
            /\ x \in Historical(snap, fl)
        BY <3>1, <4>1 DEF MovesOK, PlaceOK, before, w, fl
      <4>3. /\ x \in after
            /\ ~ v.left => Rank(Database, fl, x) <= Rank(Database', fl, x)
            /\ ~ v.came => Rank(Database', fl, x) <= Rank(Database, fl, x)
        BY <2>4, <4>2
      <4>4. /\ Rank(Database, fl, x) \in Nat /\ Rank(Database', fl, x) \in Nat
            /\ Rank(snap, fl, x) \in Nat
        BY <2>7, <2>8, <3>3, <4>2, <4>3
      <4> QED BY <2>3, <4>2, <4>3, <4>4
    <3>6. MovesOK(v, snap, Database')
      BY <2>3, <3>5 DEF MovesOK, after
    <3>7. tx'.snapshot = snap
      BY <1>1 DEF snap
    <3>8. PlaceOK(walk, tx.snapshot)'
      BY <3>4, <3>7, WalkPrimed DEF v
    <3>9. MovesOK(walk, tx.snapshot, Database)'
      BY <3>6, <3>7, WalkPrimed DEF v
    <3> QED BY <1>1, <2>3, <2>11, <3>8, <3>9 DEF WalkInv, v
  <2> QED BY <2>10, <2>11
<1> QED BY <1>2, <1>3

\* The page the client reads shows what is at its place in the list.
LEMMA WalkPage ==
  ASSUME ReadsInv, WalkInv, FinishPage
  PROVE  WalkInv'
<1> DEFINE w == walk
           v == walk'
           fl == walk.filter
           snap == tx.snapshot
           ans == Answer
           o == Offset(walk.page)
           k == Len(walk.seen)
           Rs(x) == Rank(snap, fl, x)
           Rn(x) == Rank(Database, fl, x)
<1>1. /\ tx.op = "page" /\ w \in Walk /\ w.state = "walking" /\ DbOK(snap)
      /\ tx.first = Cardinality(Historical(snap, fl))
      /\ ans = HistoricalPage(snap, fl, w.page)
      /\ v.seen = w.seen \o ans /\ v.page = w.page + 1
      /\ v.filter = fl /\ v.stayed = w.stayed /\ v.left = w.left /\ v.came = w.came
      /\ v.state = IF w.page < TotalPages(tx.first) THEN "walking" ELSE "done"
      /\ tx' = NoTx /\ UNCHANGED <<alerts, applied, feeds, network, ids>>
  BY FinishPageWalk
<1>2. PlaceOK(w, snap) /\ MovesOK(w, snap, Database) /\ DbOK(Database)
  BY <1>1, DatabaseOK DEF WalkInv, ReadsInv
<1>3. /\ w.page \in Nat \ {0} /\ w.seen \in Seq(Nat) /\ w.left \in BOOLEAN /\ w.came \in BOOLEAN
      /\ k \in Nat
  BY <1>1 DEF Walk
<1>4. /\ PageSize \in Nat /\ o \in Nat /\ Offset(v.page) = o + PageSize
      /\ v.state = "done" => Cardinality(Historical(snap, fl)) <= o + PageSize
  <2>1. Cardinality(Historical(snap, fl)) \in Nat
    BY <1>1, RankFacts
  <2> QED BY <1>1, <1>3, <2>1, OffsetFacts
<1>5. /\ ans \in Seq(Nat) /\ Len(ans) \in Nat
      /\ \A i \in 1..Len(ans) : Rs(ans[i]) = o + i - 1
      /\ Len(ans) <= PageSize
      /\ \A x \in Historical(snap, fl) :
           o <= Rs(x) /\ Rs(x) < o + PageSize => \E i \in 1..Len(ans) : ans[i] = x
  <2>1. walk.page \in Nat \ {0} /\ DbOK(snap) /\ ans = HistoricalPage(snap, fl, walk.page)
    BY <1>1, <1>3
  <2> HIDE DEF snap, ans, fl
  <2>2. Shows(snap, fl, ans, o)
    BY <2>1, PageFacts
  <2> HIDE DEF o
  <2> QED BY <2>2 DEF Shows
<1>6. /\ Len(v.seen) = k + Len(ans)
      /\ \A i \in 1..k : v.seen[i] = w.seen[i]
      /\ \A i \in 1..Len(ans) : v.seen[k + i] = ans[i]
  <2> DEFINE p == w.seen
  <2>1. v.seen = p \o ans /\ p \in Seq(Nat) /\ k = Len(p)
    BY <1>1, <1>3
  <2> HIDE DEF ans, k, v, w, p
  <2>2. /\ Len(p \o ans) = k + Len(ans)
        /\ \A i \in 1..k : (p \o ans)[i] = p[i]
        /\ \A i \in 1..Len(ans) : (p \o ans)[k + i] = ans[i]
    BY <1>5, <2>1
  <2> QED BY <2>1, <2>2 DEF p
<1>7. \A x \in Historical(snap, fl) :
        Rs(x) \in Nat /\ Rs(x) < Cardinality(Historical(snap, fl))
        /\ Cardinality(Historical(snap, fl)) \in Nat
  BY <1>1, RankFacts
<1>8. \A x \in Historical(Database, fl) : Rn(x) \in Nat
  BY <1>2, RankFacts
<1>9. ASSUME NEW x \in w.stayed
      PROVE  /\ x \in Historical(snap, fl) /\ x \in Historical(Database, fl)
             /\ Rs(x) \in Nat /\ Rn(x) \in Nat
             /\ ~ w.left => (IsSeen(w, x) \/ Rs(x) >= o) /\ Rs(x) <= Rn(x)
             /\ ~ w.came => /\ SeenOnce(w, x) /\ (IsSeen(w, x) => Rs(x) < o)
                            /\ Rn(x) <= Rs(x)
  BY <1>2, <1>7, <1>8 DEF PlaceOK, MovesOK
<1>10. Database' = Database
  BY <1>1 DEF Database
<1> HIDE DEF w, v, fl, snap, ans, o, k, Rs, Rn
<1>11. ASSUME NEW x, IsSeen(w, x) PROVE IsSeen(v, x)
  <2>1. PICK n \in 1..k : w.seen[n] = x
    BY <1>11 DEF IsSeen, k, w
  <2>2. n \in 1..Len(v.seen) /\ v.seen[n] = x
    BY <1>3, <1>5, <1>6, <2>1
  <2> QED BY <2>2 DEF IsSeen
<1>12. ASSUME NEW x, NEW i \in 1..Len(ans), ans[i] = x PROVE IsSeen(v, x)
  <2>1. k + i \in 1..Len(v.seen) /\ v.seen[k + i] = x
    BY <1>3, <1>5, <1>6, <1>12
  <2> QED BY <2>1 DEF IsSeen
<1>13. ASSUME NEW x, NEW n \in 1..Len(v.seen), v.seen[n] = x
       PROVE  \/ n \in 1..k /\ w.seen[n] = x /\ IsSeen(w, x)
              \/ \E i \in 1..Len(ans) : n = k + i /\ ans[i] = x /\ Rs(x) = o + i - 1
  <2>1. CASE n \in 1..k
    <3>1. w.seen[n] = x
      BY <1>6, <1>13, <2>1
    <3> QED BY <2>1, <3>1 DEF IsSeen, k, w
  <2>2. CASE n \notin 1..k
    <3>1. n - k \in 1..Len(ans) /\ n = k + (n - k)
      BY <1>3, <1>5, <1>6, <2>2
    <3>2. PICK i \in 1..Len(ans) : n = k + i
      BY <3>1
    <3>3. ans[i] = x
      BY <1>6, <1>13, <3>2
    <3> QED BY <1>5, <3>2, <3>3
  <2> QED BY <2>1, <2>2
<1>14. ASSUME NEW x \in w.stayed, ~ w.left
       PROVE  IsSeen(v, x) \/ Rs(x) >= o + PageSize
  <2>1. /\ x \in Historical(snap, fl) /\ Rs(x) \in Nat
        /\ IsSeen(w, x) \/ Rs(x) >= o
    BY <1>9, <1>14
  <2>2. CASE IsSeen(w, x)
    BY <1>11, <2>2
  <2>3. CASE Rs(x) >= o
    <3>1. CASE Rs(x) < o + PageSize
      <4>1. o <= Rs(x)
        BY <1>4, <2>1, <2>3
      <4>2. PICK i \in 1..Len(ans) : ans[i] = x
        BY <1>5, <2>1, <3>1, <4>1
      <4> QED BY <1>12, <4>2
    <3>2. CASE ~ (Rs(x) < o + PageSize)
      BY <1>4, <2>1, <3>2
    <3> QED BY <3>1, <3>2
  <2> QED BY <2>1, <2>2, <2>3
<1>15. ASSUME NEW x \in w.stayed, ~ w.came
       PROVE  /\ SeenOnce(v, x)
              /\ IsSeen(v, x) => Rs(x) < o + PageSize
  <2>1. SeenOnce(w, x) /\ (IsSeen(w, x) => Rs(x) < o) /\ Rs(x) \in Nat
    BY <1>9, <1>15
  <2>2. ASSUME NEW m \in 1..Len(v.seen), NEW n \in 1..Len(v.seen),
               v.seen[m] = x, v.seen[n] = x
        PROVE  m = n
    <3>1. /\ \/ m \in 1..k /\ w.seen[m] = x /\ IsSeen(w, x)
             \/ \E i \in 1..Len(ans) : m = k + i /\ Rs(x) = o + i - 1
          /\ \/ n \in 1..k /\ w.seen[n] = x /\ IsSeen(w, x)
             \/ \E i \in 1..Len(ans) : n = k + i /\ Rs(x) = o + i - 1
      BY <1>13, <2>2
    <3>2. \A i \in 1..Len(ans) : Rs(x) = o + i - 1 => ~ IsSeen(w, x) /\ i = Rs(x) - o + 1
      BY <1>4, <1>5, <2>1
    <3>3. CASE IsSeen(w, x)
      BY <2>1, <3>1, <3>2, <3>3 DEF SeenOnce, k, w
    <3>4. CASE ~ IsSeen(w, x)
      BY <3>1, <3>2, <3>4
    <3> QED BY <3>3, <3>4
  <2>3. SeenOnce(v, x)
    BY <2>2 DEF SeenOnce
  <2>4. ASSUME NEW n \in 1..Len(v.seen), v.seen[n] = x PROVE Rs(x) < o + PageSize
    <3>1. CASE IsSeen(w, x)
      BY <1>4, <2>1, <3>1
    <3>2. CASE \E i \in 1..Len(ans) : n = k + i /\ ans[i] = x /\ Rs(x) = o + i - 1
      BY <1>4, <1>5, <2>1, <3>2
    <3> QED BY <1>13, <2>4, <3>1, <3>2
  <2> QED BY <2>3, <2>4 DEF IsSeen
<1>16. CASE v.state = "done"
  <2>1. ASSUME NEW x \in w.stayed, ~ w.left PROVE IsSeen(v, x)
    <3>1. /\ Rs(x) \in Nat /\ Rs(x) < Cardinality(Historical(snap, fl))
          /\ Cardinality(Historical(snap, fl)) \in Nat
      BY <1>7, <1>9
    <3>2. ~ (Rs(x) >= o + PageSize)
      BY <1>4, <1>16, <3>1
    <3> QED BY <1>14, <2>1, <3>2
  <2>2. \A x \in v.stayed : (~ v.left => IsSeen(v, x)) /\ (~ v.came => SeenOnce(v, x))
    BY <1>1, <1>15, <2>1
  <2> QED BY <1>16, <2>2 DEF WalkInv, IsSeen, SeenOnce, v
<1>17. CASE v.state # "done"
  <2>1. v.state = "walking"
    BY <1>1, <1>17
  <2>2. ASSUME NEW x \in v.stayed
        PROVE  /\ x \in Historical(Database, v.filter)
               /\ ~ v.left => IsSeen(v, x) \/ Rank(Database, v.filter, x) >= Offset(v.page)
               /\ ~ v.came => /\ SeenOnce(v, x)
                              /\ IsSeen(v, x) => Rank(Database, v.filter, x) < Offset(v.page)
    <3>1. x \in w.stayed /\ v.filter = fl /\ v.left = w.left /\ v.came = w.came
      BY <1>1, <2>2
    <3>2. /\ x \in Historical(Database, fl) /\ Rs(x) \in Nat /\ Rn(x) \in Nat
          /\ ~ w.left => Rs(x) <= Rn(x)
          /\ ~ w.came => Rn(x) <= Rs(x)
      BY <1>9, <3>1
    <3>3. ~ w.left => IsSeen(v, x) \/ Rn(x) >= o + PageSize
      BY <1>4, <1>14, <3>1, <3>2
    <3>4. ~ w.came => SeenOnce(v, x) /\ (IsSeen(v, x) => Rn(x) < o + PageSize)
      BY <1>4, <1>15, <3>1, <3>2
    <3> QED BY <1>4, <3>1, <3>2, <3>3, <3>4 DEF Rn
  <2>3. PlaceOK(v, Database)
    BY <2>2 DEF PlaceOK
  <2>4. PlaceOK(walk, Database)'
    BY <1>10, <2>3, WalkPrimed DEF v
  <2>5. tx'.op = "none"
    BY <1>1 DEF NoTx
  <2> QED BY <2>1, <2>4, <2>5 DEF WalkInv, v
<1> QED BY <1>16, <1>17

\* The invariant of the walk is inductive.
LEMMA WalkInvStep ==
  ASSUME ReadsInv, WalkInv, [NextReads]_readVars
  PROVE  WalkInv'
<1>0. EpisodeInv /\ IdsOK /\ TxOK
  BY DEF ReadsInv
<1>1. CASE DataArrives
  BY <1>1, WalkData
<1>2. CASE FinishPage
  BY <1>2, WalkPage
<1>3. CASE (\E id \in DOMAIN ids : ReadAlert(id)) \/
    (\E line \in Line, now \in Time : ReadLine(line, now))
  <2>1. walk.state = "none" /\ walk' = walk
    BY <1>3 DEF ReadAlert, ReadLine
  <2> QED BY <2>1 DEF WalkInv
<1>4. CASE Finish
  <2>1. /\ walk' = walk /\ tx' = NoTx /\ tx.op # "page"
        /\ UNCHANGED <<alerts, applied, feeds, network, ids>>
    BY <1>4 DEF Finish, Unread
  <2>2. tx'.op = "none" /\ Database' = Database
    BY <2>1 DEF NoTx, Database
  <2>3. walk.state = "walking" => PlaceOK(walk, Database)
    BY <2>1 DEF WalkInv
  <2>4. walk.state = "walking" => PlaceOK(walk, Database)'
    BY <2>1, <2>2, <2>3, WalkPrimed
  <2> QED BY <2>1, <2>2, <2>4 DEF WalkInv, IsSeen, SeenOnce
<1>5. ASSUME NEW filter \in Filter, StartWalk(filter) PROVE WalkInv'
  <2>1. /\ walk' = [state |-> "walking", filter |-> filter, page |-> 1, seen |-> <<>>,
                    stayed |-> Historical(Database, filter), left |-> FALSE, came |-> FALSE]
        /\ UNCHANGED <<alerts, applied, feeds, network, ids>> /\ Begin("page", <<filter, 1>>)
    BY <1>5 DEF StartWalk, Unread
  <2>2. tx'.op = "page" /\ tx'.snapshot = Database /\ Database' = Database
    BY <1>0, <2>1, BeginTx DEF Database
  <2>3. \A x \in Historical(Database, filter) : Rank(Database, filter, x) \in Nat
    BY <1>0, DatabaseOK, RankFacts
  <2> DEFINE v == walk'
  <2>4. /\ v.state = "walking" /\ v.filter = filter /\ v.page = 1 /\ v.seen = << >>
        /\ v.stayed = Historical(Database, filter)
    BY <2>1
  <2> HIDE DEF v
  <2>5. Offset(v.page) = 0
    BY <2>4, ReadsAssumption DEF Offset
  <2>6. \A x : ~ IsSeen(v, x) /\ SeenOnce(v, x)
    BY <2>4 DEF IsSeen, SeenOnce
  <2>7. PlaceOK(v, Database) /\ MovesOK(v, Database, Database)
    BY <2>3, <2>4, <2>5, <2>6 DEF PlaceOK, MovesOK
  <2>8. PlaceOK(walk, tx.snapshot)'
    BY <2>2, <2>7, WalkPrimed DEF v
  <2>9. MovesOK(walk, tx.snapshot, Database)'
    BY <2>2, <2>7, WalkPrimed DEF v
  <2> QED BY <2>2, <2>4, <2>8, <2>9 DEF WalkInv, v
<1>6. CASE NextPage
  <2>1. /\ walk.state = "walking" /\ walk' = walk
        /\ UNCHANGED <<alerts, applied, feeds, network, ids>>
        /\ Begin("page", <<walk.filter, walk.page>>)
    BY <1>6 DEF NextPage, Unread
  <2>2. tx = NoTx /\ tx'.op = "page" /\ tx'.snapshot = Database /\ Database' = Database
    BY <1>0, <2>1, BeginTx DEF Database
  <2>3. PlaceOK(walk, Database)
    BY <2>1, <2>2 DEF WalkInv, NoTx
  <2>4. walk \in Walk
    BY <2>1 DEF ReadsInv, NoWalk
  <2>5. \A x \in Historical(Database, walk.filter) : Rank(Database, walk.filter, x) \in Nat
    BY <1>0, DatabaseOK, RankFacts
  <2>6. MovesOK(walk, Database, Database)
    BY <2>3, <2>5 DEF MovesOK, PlaceOK
  <2>7. PlaceOK(walk, tx.snapshot)'
    BY <2>1, <2>2, <2>3, WalkPrimed
  <2>8. MovesOK(walk, tx.snapshot, Database)'
    BY <2>1, <2>2, <2>6, WalkPrimed
  <2> QED BY <2>1, <2>2, <2>7, <2>8 DEF WalkInv
<1>7. CASE UNCHANGED readVars
  <2>1. walk' = walk /\ tx' = tx /\ Database' = Database
    BY <1>7 DEF readVars, Database
  <2>2. tx'.snapshot = tx.snapshot /\ tx'.op = tx.op
    BY <2>1
  <2> QED BY <2>1, <2>2, WalkPrimed DEF WalkInv
<1> QED BY <1>1, <1>2, <1>3, <1>4, <1>5, <1>6, <1>7 DEF NextReads, DataArrives

\* Walking the historical list while feeds and imports arrive misses an alert that
\* stayed only if some alert left the list, and shows it twice only if one
\* came or moved.
THEOREM WalksMissOnlyLeavers == ReadsSpec => []WalkMissesOnlyLeavers
<1>1. InitReads => WalkInv
  BY DEF InitReads, WalkInv, NoWalk
<1>2. ReadsInv /\ WalkInv /\ [NextReads]_readVars => WalkInv'
  BY WalkInvStep
<1>3. ReadsInv /\ WalkInv => WalkMissesOnlyLeavers
  <2> SUFFICES ASSUME ReadsInv, WalkInv, walk.state = "done", NEW x \in walk.stayed
               PROVE  LET times == Cardinality({n \in DOMAIN walk.seen : walk.seen[n] = x})
                      IN  (~ walk.left => times >= 1) /\ (~ walk.came => times <= 1)
    BY DEF WalkMissesOnlyLeavers
  <2> DEFINE T == {n \in DOMAIN walk.seen : walk.seen[n] = x}
  <2>1. walk \in Walk
    BY DEF ReadsInv, NoWalk
  <2>2. DOMAIN walk.seen = 1..Len(walk.seen) /\ Len(walk.seen) \in Nat
    BY <2>1 DEF Walk
  <2>3. IsFiniteSet(T) /\ Cardinality(T) \in Nat
    <3>1. IsFiniteSet(1..Len(walk.seen)) /\ T \in SUBSET (1..Len(walk.seen))
      BY <2>2, FS_Interval
    <3> QED BY <3>1, FS_Subset, FS_CardinalityType
  <2>4. (~ walk.left => IsSeen(walk, x)) /\ (~ walk.came => SeenOnce(walk, x))
    BY DEF WalkInv
  <2>5. ASSUME ~ walk.left PROVE Cardinality(T) >= 1
    <3>1. T # {}
      BY <2>2, <2>4, <2>5 DEF IsSeen
    <3>2. Cardinality(T) # 0
      BY <2>3, <3>1, FS_EmptySet
    <3> QED BY <2>3, <3>2
  <2>6. ASSUME ~ walk.came PROVE Cardinality(T) <= 1
    <3>1. \A m, n \in T : m = n
      BY <2>2, <2>4, <2>6 DEF SeenOnce
    <3> HIDE DEF T
    <3>2. CASE T = {}
      BY <3>2, FS_EmptySet
    <3>3. CASE T # {}
      <4>1. PICK n \in T : T = {n}
        BY <3>1, <3>3
      <4> QED BY <4>1, FS_Singleton
    <3> QED BY <3>2, <3>3
  <2> QED BY <2>5, <2>6
<1> QED BY <1>1, <1>2, <1>3, ReadsInvariance, PTL DEF ReadsSpec

-----------------------------------------------------------------------------
(* The spans of the completed episodes.                                    *)

\* From start n to m an episode shows the alert, without a break.
Stretch(a, n, m) ==
  /\ n \in LiveStarts(a) /\ m \in Numbers(a) /\ n <= m
  /\ \A k \in (n + 1)..m : ~ StartsAt(a, k) /\ ~ IsDeleted(a.revisions[k])

\* It ends at m: with the next episode, with a deletion notice, or closed.
EndsAt(a, m) ==
  IF m < Len(a.revisions) THEN StartsAt(a, m + 1) \/ IsDeleted(a.revisions[m + 1])
  ELSE a.revisions[m].closed_at # NoTime

\* The deletion notice's time, or else when it was last seen.
EndTime(a, m) ==
  IF m < Len(a.revisions) /\ ~ StartsAt(a, m + 1) THEN a.revisions[m + 1].first_seen_at
  ELSE a.revisions[m].last_seen_at

\* The completed episodes, from their first to their last revision.
EndedStretches(a) ==
  {p \in Numbers(a) \X Numbers(a) : Stretch(a, p[1], p[2]) /\ EndsAt(a, p[2])}

StretchSpan(a, p) == <<a.revisions[p[1]].first_seen_at, EndTime(a, p[2])>>

\* The spans of a row.
RowSpans(a) == IF a = NoAlert THEN {} ELSE {StretchSpan(a, p) : p \in EndedStretches(a)}

\* The same of the feeds q: an appearance from i to j, and what ended it.
Appears(q, e, i, j) ==
  /\ i \in 1..Len(q) /\ j \in 1..Len(q) /\ i <= j /\ ~ LiveIn(q, e, i - 1)
  /\ \A h \in i..j : LiveIn(q, e, h)

\* The completed appearances, and their spans.
EndedIn(q, e) ==
  {p \in (1..Len(q)) \X (1..Len(q)) :
     Appears(q, e, p[1], p[2]) /\ p[2] < Len(q) /\ ~ LiveIn(q, e, p[2] + 1)}

SpanIn(q, e, p) ==
  LET end == IF Listed(q[p[2] + 1])[e] \in Deleted THEN p[2] + 1 ELSE p[2]
  IN  <<ObservedAt(q[p[1]]), ObservedAt(q[end])>>

FeedSpans(q, e) == {SpanIn(q, e, p) : p \in EndedIn(q, e)}

\* While the alert is live, the open episode began with the open appearance
\* and was last seen with the last feed.
OpenAgrees(q, e, a) ==
  LastSaid(q, e) \in LiveContent =>
    /\ a # NoAlert
    /\ a.revisions[Len(a.revisions)].last_seen_at = ObservedAt(q[Len(q)])
    /\ \E n \in Numbers(a), i \in 1..Len(q) :
         /\ Stretch(a, n, Len(a.revisions)) /\ Appears(q, e, i, Len(q))
         /\ a.revisions[n].first_seen_at = ObservedAt(q[i])

\* The invariant: completed episodes are completed appearances, and the open one
\* will be.
SpansAgree(q, e, a) ==
  DistinctTimes(q) => RowSpans(a) = FeedSpans(q, e) /\ OpenAgrees(q, e, a)

\* The past of a row keeps its stretches, and those that ended before its last
\* revision their end.
LEMMA StretchesStay ==
  ASSUME NEW a \in Alert, NEW b, InOrder(a), SamePast(a, b),
         Len(b.revisions) \in Nat, Len(a.revisions) <= Len(b.revisions)
  PROVE  /\ Numbers(a) \subseteq Numbers(b)
         /\ \A n \in Numbers(a), m \in Numbers(a) : Stretch(b, n, m) <=> Stretch(a, n, m)
         /\ \A m \in Numbers(a) : m < Len(a.revisions) =>
              (EndsAt(b, m) <=> EndsAt(a, m)) /\ EndTime(b, m) = EndTime(a, m)
<1> DEFINE L == Len(a.revisions)
<1>1. L \in Nat /\ Numbers(a) = 1..L /\ Numbers(b) = 1..Len(b.revisions)
  BY DEF InOrder, Numbers
<1>2. \A k \in Numbers(a) : /\ StartsAt(b, k) <=> StartsAt(a, k)
                            /\ IsDeleted(b.revisions[k]) <=> IsDeleted(a.revisions[k])
  BY StartsStay
<1>3. /\ \A k \in Numbers(a) : b.revisions[k].first_seen_at = a.revisions[k].first_seen_at
      /\ \A k \in Numbers(a) : k < L => b.revisions[k] = a.revisions[k]
  BY DEF SamePast
<1>4. Numbers(a) \subseteq Numbers(b)
  BY <1>1
<1>5. ASSUME NEW n \in Numbers(a), NEW m \in Numbers(a)
      PROVE  Stretch(b, n, m) <=> Stretch(a, n, m)
  <2>1. n \in LiveStarts(b) <=> n \in LiveStarts(a)
    BY <1>2, <1>4 DEF LiveStarts
  <2>2. \A k \in (n + 1)..m : k \in Numbers(a)
    BY <1>1
  <2> QED BY <1>2, <1>4, <2>1, <2>2 DEF Stretch
<1>6. ASSUME NEW m \in Numbers(a), m < L
      PROVE  (EndsAt(b, m) <=> EndsAt(a, m)) /\ EndTime(b, m) = EndTime(a, m)
  <2>1. m + 1 \in Numbers(a) /\ m < Len(b.revisions)
    BY <1>1, <1>6
  <2> QED BY <1>2, <1>3, <1>6, <2>1 DEF EndsAt, EndTime
<1> QED BY <1>4, <1>5, <1>6

\* The span that a feed with content c at time t completes, if it does.
NewRowSpans(a, c, t) ==
  IF ShownBy(a) \in LiveContent /\ c \notin LiveContent
    THEN {<<a.revisions[n].first_seen_at,
            IF c \in Deleted THEN t ELSE a.revisions[Len(a.revisions)].last_seen_at>> :
            n \in {k \in Numbers(a) : Stretch(a, k, Len(a.revisions))}}
    ELSE {}

\* What a step makes of the stretches that reach the last revision.
LEMMA RowSpansByEnd ==
  ASSUME NEW a \in Alert, NEW b \in Alert, InOrder(a), SamePast(a, b), NEW l, l = Len(a.revisions),
         Len(b.revisions) = l \/ (Len(b.revisions) = l + 1 /\
             b.revisions[l + 1].closed_at = NoTime),
         NoAlert \notin Alert
  PROVE  LET old == {p \in EndedStretches(a) : p[2] < l}
             last == {n \in Numbers(a) : Stretch(a, n, l)} IN
         /\ RowSpans(a) = {StretchSpan(a, p) : p \in old} \cup
              {<<a.revisions[n].first_seen_at, EndTime(a, l)>> : n \in {k \in last : EndsAt(a, l)}}
         /\ RowSpans(b) = {StretchSpan(a, p) : p \in old} \cup
              {<<a.revisions[n].first_seen_at, EndTime(b, l)>> : n \in {k \in last : EndsAt(b, l)}}
<1> DEFINE old == {p \in EndedStretches(a) : p[2] < l}
           last == {n \in Numbers(a) : Stretch(a, n, l)}
           N == Len(b.revisions)
<1>0. l \in Nat /\ l > 0 /\ Numbers(a) = 1..l /\ N \in Nat /\ Numbers(b) = 1..N /\ l <= N /\
    l \in Numbers(a)
  BY DEF InOrder, Numbers
<1>1. /\ \A n \in Numbers(a), m \in Numbers(a) : Stretch(b, n, m) <=> Stretch(a, n, m)
      /\ \A m \in Numbers(a) : m < l =>
           (EndsAt(b, m) <=> EndsAt(a, m)) /\ EndTime(b, m) = EndTime(a, m)
      /\ \A n \in Numbers(a) : b.revisions[n].first_seen_at = a.revisions[n].first_seen_at
  BY <1>0, StretchesStay DEF SamePast
<1>2. /\ RowSpans(a) = {StretchSpan(a, p) : p \in EndedStretches(a)}
      /\ RowSpans(b) = {StretchSpan(b, p) : p \in EndedStretches(b)}
  BY DEF RowSpans
<1>3. \A n, m : Stretch(a, n, m) => n \in Numbers(a) /\ m \in Numbers(a) /\ n <= m
  BY DEF Stretch, LiveStarts
<1>4. \A n, m : Stretch(b, n, m) => n \in Numbers(b) /\ m \in Numbers(b) /\ n <= m
  BY DEF Stretch, LiveStarts
<1>5. \A p : p \in EndedStretches(a) <=> \E n, m : /\ p = <<n, m>> /\ n \in Numbers(a)
                                               /\ m \in Numbers(a) /\ Stretch(a, n, m) /\
                                                   EndsAt(a, m)
  BY DEF EndedStretches
<1>6. \A p : p \in EndedStretches(b) <=> \E n, m : /\ p = <<n, m>> /\ n \in Numbers(a)
                                               /\ m \in Numbers(a) /\ Stretch(a, n, m) /\
                                                   EndsAt(b, m)
  <2>1. \A p : p \in EndedStretches(b) <=> \E n, m : /\ p = <<n, m>> /\ n \in Numbers(b)
                                               /\ m \in Numbers(b) /\ Stretch(b, n, m) /\
                                                   EndsAt(b, m)
    BY DEF EndedStretches
  <2>2. \A m \in Numbers(b) : EndsAt(b, m) => m \in Numbers(a)
    <3> SUFFICES ASSUME N = l + 1, b.revisions[l + 1].closed_at = NoTime PROVE ~ EndsAt(b, l + 1)
      BY <1>0
    <3> QED BY <1>0 DEF EndsAt
  <2>3. \A n, m : n \in Numbers(b) /\ m \in Numbers(a) /\ Stretch(b, n, m) =>
                    n \in Numbers(a) /\ Stretch(a, n, m)
    BY <1>0, <1>1, <1>4
  <2>4. \A n \in Numbers(a) : n \in Numbers(b)
    BY <1>0
  <2> QED BY <1>1, <2>1, <2>2, <2>3, <2>4
<1>7. \A n \in Numbers(a), m \in Numbers(a) : m < l =>
        /\ StretchSpan(b, <<n, m>>) = StretchSpan(a, <<n, m>>)
        /\ <<n, m>> \in EndedStretches(b) <=> <<n, m>> \in EndedStretches(a)
  BY <1>1, <1>5, <1>6 DEF StretchSpan
<1>8. \A n \in Numbers(a) : /\ StretchSpan(a, <<n, l>>) = <<a.revisions[n].first_seen_at,
                                EndTime(a, l)>>
                            /\ StretchSpan(b, <<n, l>>) = <<a.revisions[n].first_seen_at,
                                EndTime(b, l)>>
  BY <1>1 DEF StretchSpan
<1>9. \A m \in Numbers(a) : m < l \/ m = l
  BY <1>0
<1>10. ASSUME NEW x
       PROVE  x \in RowSpans(a) <=>
                x \in {StretchSpan(a, p) : p \in old} \cup
                {<<a.revisions[n].first_seen_at, EndTime(a, l)>> :
                    n \in {k \in last : EndsAt(a, l)}}
  <2>1. ASSUME x \in RowSpans(a)
        PROVE  x \in {StretchSpan(a, p) : p \in old} \cup
                {<<a.revisions[n].first_seen_at, EndTime(a, l)>> :
                    n \in {k \in last : EndsAt(a, l)}}
    <3>1. PICK p \in EndedStretches(a) : x = StretchSpan(a, p)
      BY <1>2, <2>1
    <3>2. PICK n, m : /\ p = <<n, m>> /\ n \in Numbers(a)
                      /\ m \in Numbers(a) /\ Stretch(a, n, m) /\ EndsAt(a, m)
      BY <1>5, <3>1
    <3>3. CASE m < l
      <4>1. p \in old
        BY <3>1, <3>2, <3>3
      <4> QED BY <3>1, <4>1
    <3>4. CASE m = l
      <4>1. n \in last /\ EndsAt(a, l) /\ x = <<a.revisions[n].first_seen_at, EndTime(a, l)>>
        BY <1>8, <3>1, <3>2, <3>4
      <4> QED BY <4>1
    <3> QED BY <1>9, <3>2, <3>3, <3>4
  <2>2. ASSUME NEW n \in last, EndsAt(a, l), x = <<a.revisions[n].first_seen_at, EndTime(a, l)>>
        PROVE  x \in RowSpans(a)
    <3>1. <<n, l>> \in EndedStretches(a) /\ x = StretchSpan(a, <<n, l>>)
      BY <1>0, <1>5, <1>8, <2>2
    <3> QED BY <1>2, <3>1
  <2>3. ASSUME NEW p \in old, x = StretchSpan(a, p) PROVE x \in RowSpans(a)
    BY <1>2, <2>3
  <2> QED BY <2>1, <2>2, <2>3
<1>11. ASSUME NEW x
       PROVE  x \in RowSpans(b) <=>
                x \in {StretchSpan(a, p) : p \in old} \cup
                {<<a.revisions[n].first_seen_at, EndTime(b, l)>> :
                    n \in {k \in last : EndsAt(b, l)}}
  <2>1. ASSUME x \in RowSpans(b)
        PROVE  x \in {StretchSpan(a, p) : p \in old} \cup
                {<<a.revisions[n].first_seen_at, EndTime(b, l)>> :
                    n \in {k \in last : EndsAt(b, l)}}
    <3>1. PICK p \in EndedStretches(b) : x = StretchSpan(b, p)
      BY <1>2, <2>1
    <3>2. PICK n, m : /\ p = <<n, m>> /\ n \in Numbers(a)
                      /\ m \in Numbers(a) /\ Stretch(a, n, m) /\ EndsAt(b, m)
      BY <1>6, <3>1
    <3>3. CASE m < l
      <4>1. p \in old /\ x = StretchSpan(a, p)
        BY <1>7, <3>1, <3>2, <3>3
      <4> QED BY <4>1
    <3>4. CASE m = l
      <4>1. n \in last /\ EndsAt(b, l) /\ x = <<a.revisions[n].first_seen_at, EndTime(b, l)>>
        BY <1>8, <3>1, <3>2, <3>4
      <4> QED BY <4>1
    <3> QED BY <1>9, <3>2, <3>3, <3>4
  <2>2. ASSUME NEW n \in last, EndsAt(b, l), x = <<a.revisions[n].first_seen_at, EndTime(b, l)>>
        PROVE  x \in RowSpans(b)
    <3>1. <<n, l>> \in EndedStretches(b) /\ x = StretchSpan(b, <<n, l>>)
      BY <1>0, <1>6, <1>8, <2>2
    <3> QED BY <1>2, <3>1
  <2>3. ASSUME NEW p \in old, x = StretchSpan(a, p) PROVE x \in RowSpans(b)
    <3>1. PICK n, m : p = <<n, m>> /\ n \in Numbers(a) /\ m \in Numbers(a)
      BY <1>5
    <3>2. m < l
      BY <3>1
    <3>3. p \in EndedStretches(b) /\ x = StretchSpan(b, p)
      BY <1>7, <2>3, <3>1, <3>2
    <3> QED BY <1>2, <3>3
  <2> QED BY <2>1, <2>2, <2>3
<1> QED BY <1>10, <1>11

\* A feed completes the span of an alert that was live until then, and no
\* other.
LEMMA RowSpansGrow ==
  ASSUME NEW a, NEW b, NEW c, NEW t, RowStep(a, b, c, t),
         a # NoAlert => RowFine(a), ~ Merges(a, t), t # NoTime,
         Missing \notin Content, NoAlert \notin Alert, c \in Content \cup {Missing}
  PROVE  RowSpans(b) = RowSpans(a) \cup NewRowSpans(a, c, t)
<1>1. CASE a = NoAlert
  <2>1. RowSpans(a) = {} /\ ShownBy(a) \notin LiveContent
    BY <1>1 DEF RowSpans, ShownBy, LiveContent
  <2>2. CASE c = Missing
    BY <1>1, <2>1, <2>2 DEF RowStep, NewRowSpans
  <2>3. CASE c # Missing
    <3>1. b \in Alert /\ Len(b.revisions) = 1 /\ b.revisions[1].closed_at = NoTime
      BY <1>1, <2>3 DEF RowStep, FirstStep
    <3>2. Numbers(b) = {1} /\ ~ EndsAt(b, 1)
      BY <3>1 DEF Numbers, EndsAt
    <3>3. EndedStretches(b) = {}
      BY <3>2 DEF EndedStretches
    <3> QED BY <2>1, <3>1, <3>3 DEF RowSpans, NewRowSpans
  <2> QED BY <2>2, <2>3
<1>2. CASE a # NoAlert
  <2> DEFINE l == Len(a.revisions)
             v == a.revisions[l]
             w == b.revisions[l]
             N == Len(b.revisions)
             last == {n \in Numbers(a) : Stretch(a, n, l)}
             old == {StretchSpan(a, p) : p \in {p \in EndedStretches(a) : p[2] < l}}
             LastTo(x) == {<<a.revisions[n].first_seen_at, x>> : n \in last}
  <2>0. /\ a \in Alert /\ b \in Alert /\ SamePast(a, b) /\ InOrder(a) /\ LifecycleOK(a)
        /\ l \in Nat /\ l > 0 /\ Numbers(a) = 1..l /\ a.current = l /\ l \in Numbers(a)
    BY <1>2 DEF RowStep, RowFine, InOrder, Numbers, LifecycleOK
  <2>1. N = l \/ (N = l + 1 /\ b.revisions[l + 1].closed_at = NoTime)
    BY <1>2 DEF RowStep, SeenStep, IdleStep, GoneStep, ChangedStep, ReturnedStep, NewStep,
                SameRevisions
  <2>2. /\ RowSpans(a) = old \cup (IF EndsAt(a, l) THEN LastTo(EndTime(a, l)) ELSE {})
        /\ RowSpans(b) = old \cup (IF EndsAt(b, l) THEN LastTo(EndTime(b, l)) ELSE {})
    BY <2>0, <2>1, RowSpansByEnd
  <2>3. /\ a.is_present <=> v.closed_at = NoTime
        /\ ShownBy(a) = IF a.is_present THEN v.content ELSE Missing
    BY <1>2, <2>0 DEF LifecycleOK, CurrentRevision, ShownBy
  <2>4. (EndsAt(a, l) <=> ~ a.is_present) /\ EndTime(a, l) = v.last_seen_at
    BY <2>0, <2>3 DEF EndsAt, EndTime
  <2>5. v.content \in Deleted => last = {}
    <3> SUFFICES ASSUME v.content \in Deleted, NEW n \in last PROVE FALSE
      OBVIOUS
    <3>1. n \in LiveStarts(a) /\ n <= l /\ \A k \in (n + 1)..l : ~ IsDeleted(a.revisions[k])
      BY DEF Stretch
    <3>2. n \in 1..l /\ ~ IsDeleted(a.revisions[n])
      BY <2>0, <3>1 DEF LiveStarts
    <3>3. n = l \/ l \in (n + 1)..l
      BY <2>0, <3>2
    <3> QED BY <3>1, <3>2, <3>3 DEF IsDeleted
  <2>6. NewRowSpans(a, c, t) = IF ShownBy(a) \in LiveContent /\ c \notin LiveContent
                                 THEN LastTo(IF c \in Deleted THEN t ELSE v.last_seen_at) ELSE {}
    BY DEF NewRowSpans
  <2>7. v.content \in Content
    <3>1. a.revisions \in Seq(Revision)
      BY <2>0 DEF Alert
    <3>2. v \in Revision
      BY <2>0, <3>1
    <3> QED BY <3>2 DEF Revision
  <2>8. ASSUME N = l PROVE (EndsAt(b, l) <=> w.closed_at # NoTime) /\ EndTime(b, l) = w.last_seen_at
    BY <2>0, <2>8 DEF EndsAt, EndTime
  <2>9. ASSUME N = l + 1, b.revisions[l + 1].content = c, b.revisions[l + 1].first_seen_at = t
        PROVE  /\ StartsAt(b, l + 1) <=> (v.content \in Deleted /\ c \notin Deleted) \/
                   w.closed_at # t
               /\ EndsAt(b, l) <=> StartsAt(b, l + 1) \/ c \in Deleted
               /\ EndTime(b, l) = IF StartsAt(b, l + 1) THEN w.last_seen_at ELSE t
    <3>1. w.content = v.content /\ (l + 1) - 1 = l /\ l + 1 # 1 /\ l < N
      BY <2>0, <2>9 DEF SamePast
    <3> QED BY <2>9, <3>1 DEF EndsAt, EndTime, StartsAt, IsDeleted
  <2> HIDE DEF LastTo, old, last
  <2>10. v.content \in Deleted => \A x : LastTo(x) = {}
    BY <2>5 DEF LastTo
  <2>11. CASE SeenStep(a, b, c, t)
    <3>1. N = l /\ w.closed_at = v.closed_at /\ a.is_present /\ v.content = c
      BY <2>0, <2>11 DEF SeenStep, SameRevisions, CurrentRevision
    <3> QED BY <2>2, <2>3, <2>4, <2>6, <2>8, <3>1
  <2>12. CASE IdleStep(a, b, c)
    BY <2>2, <2>3, <2>6, <2>12 DEF IdleStep, LiveContent
  <2>13. CASE GoneStep(a, b, c, t)
    <3>1. /\ N = l /\ w.closed_at = t /\ w.last_seen_at = v.last_seen_at /\ a.is_present
          /\ c = Missing
      BY <2>13 DEF GoneStep
    <3>2. c \notin LiveContent /\ c \notin Deleted
      BY <3>1, DeletedAssumption DEF LiveContent
    <3>3. RowSpans(b) = old \cup LastTo(v.last_seen_at) /\ RowSpans(a) = old
      BY <2>2, <2>3, <2>4, <2>8, <3>1
    <3> QED BY <2>3, <2>6, <2>7, <2>10, <3>1, <3>2, <3>3 DEF LiveContent
  <2>14. CASE ChangedStep(a, b, c, t)
    <3>1. /\ N = l + 1 /\ b.revisions[l + 1].content = c /\ b.revisions[l + 1].first_seen_at = t
          /\ a.is_present /\ w.closed_at = t /\ c \in Content
      BY <2>14 DEF ChangedStep, NewStep
    <3>2. /\ StartsAt(b, l + 1) <=> (v.content \in Deleted /\ c \notin Deleted)
          /\ EndsAt(b, l) <=> StartsAt(b, l + 1) \/ c \in Deleted
          /\ EndTime(b, l) = IF StartsAt(b, l + 1) THEN w.last_seen_at ELSE t
      BY <2>9, <3>1
    <3>3. RowSpans(a) = old
      BY <2>2, <2>4, <3>1
    <3> QED BY <2>2, <2>3, <2>6, <2>7, <2>10, <3>1, <3>2, <3>3 DEF LiveContent
  <2>15. CASE ReturnedStep(a, b, c, t)
    <3>1. /\ N = l + 1 /\ b.revisions[l + 1].content = c /\ b.revisions[l + 1].first_seen_at = t
          /\ ~ a.is_present /\ w = v
      BY <2>15 DEF ReturnedStep, NewStep
    <3>2. /\ StartsAt(b, l + 1) <=> (v.content \in Deleted /\ c \notin Deleted) \/ v.closed_at # t
          /\ EndsAt(b, l) <=> StartsAt(b, l + 1) \/ c \in Deleted
          /\ EndTime(b, l) = IF StartsAt(b, l + 1) THEN v.last_seen_at ELSE t
      BY <2>9, <3>1
    <3>3. v.content \notin Deleted => v.closed_at # t
      BY <1>2, <3>1 DEF Merges, IsDeleted
    <3>4. ShownBy(a) \notin LiveContent
      BY <2>3, <3>1 DEF LiveContent
    <3> QED BY <2>2, <2>4, <2>6, <2>10, <3>1, <3>2, <3>3, <3>4
  <2> QED BY <1>2, <2>11, <2>12, <2>13, <2>14, <2>15 DEF RowStep
<1> QED BY <1>1, <1>2

\* The spans of the feeds grow in the same way.
NewFeedSpans(q, e, f) ==
  IF LastSaid(q, e) \in LiveContent /\ Listed(f)[e] \notin LiveContent
    THEN {<<ObservedAt(q[i]),
            IF Listed(f)[e] \in Deleted THEN ObservedAt(f) ELSE ObservedAt(q[Len(q)])>> :
            i \in {h \in 1..Len(q) : Appears(q, e, h, Len(q))}}
    ELSE {}

\* A feed ends the appearance that reached the last feed before it, if it does
\* not show the alert.
LEMMA FeedSpansGrow ==
  ASSUME NEW q \in Seq(AppliedRun), NEW f \in AppliedRun, NEW e
  PROVE  FeedSpans(Append(q, f), e) = FeedSpans(q, e) \cup NewFeedSpans(q, e, f)
<1> DEFINE p == Append(q, f)
           k == Len(q)
           c == Listed(f)[e]
           end == IF c \in Deleted THEN ObservedAt(f) ELSE ObservedAt(q[k])
           ends == LastSaid(q, e) \in LiveContent /\ c \notin LiveContent
<1>1. /\ k \in Nat /\ Len(p) = k + 1 /\ p[k + 1] = f /\ \A i \in 1..k : p[i] = q[i]
  BY AppendFeed
<1>2. /\ \A i \in 1..k : LiveIn(p, e, i) <=> LiveIn(q, e, i)
      /\ LiveIn(p, e, k + 1) <=> c \in LiveContent
      /\ ~ LiveIn(p, e, 0) /\ ~ LiveIn(q, e, 0)
  BY LiveInAppend
<1> HIDE DEF p, k, c
<1>3. \A i, j \in 1..k : Appears(p, e, i, j) <=> Appears(q, e, i, j)
  <2> SUFFICES ASSUME NEW i \in 1..k, NEW j \in 1..k PROVE Appears(p, e, i, j) <=>
      Appears(q, e, i, j)
    OBVIOUS
  <2>1. i \in 1..Len(p) /\ j \in 1..Len(p) /\ (i - 1 = 0 \/ i - 1 \in 1..k) /\ \A h \in i..j :
      h \in 1..k
    BY <1>1
  <2> QED BY <1>2, <2>1 DEF Appears, k
<1>4. \A i, j : Appears(q, e, i, j) => i \in 1..k /\ j \in 1..k /\ LiveIn(q, e, j)
  BY DEF Appears, k
<1>5. LiveIn(q, e, k) <=> LastSaid(q, e) \in LiveContent /\ k # 0
  BY <1>1 DEF LiveIn, LastSaid, k
<1>6. ASSUME NEW i \in 1..k, NEW j \in 1..k, j < k
      PROVE  /\ <<i, j>> \in EndedIn(p, e) <=> <<i, j>> \in EndedIn(q, e)
             /\ SpanIn(p, e, <<i, j>>) = SpanIn(q, e, <<i, j>>)
  <2>1. j + 1 \in 1..k /\ j < Len(p)
    BY <1>1, <1>6
  <2>2. p[j + 1] = q[j + 1] /\ p[i] = q[i] /\ p[j] = q[j]
    BY <1>1, <2>1
  <2> QED BY <1>1, <1>2, <1>3, <1>6, <2>1, <2>2 DEF EndedIn, SpanIn, k
<1>7. ASSUME NEW i \in 1..k
      PROVE  /\ <<i, k>> \in EndedIn(p, e) <=> Appears(q, e, i, k) /\ c \notin LiveContent
             /\ SpanIn(p, e, <<i, k>>) = <<ObservedAt(q[i]), end>>
  <2>1. k \in 1..k /\ k < Len(p) /\ i \in 1..Len(p) /\ k \in 1..Len(p)
    BY <1>1
  <2>2. p[k + 1] = f /\ p[i] = q[i] /\ p[k] = q[k]
    BY <1>1, <2>1
  <2>3. <<i, k>> \in EndedIn(p, e) <=> Appears(p, e, i, k) /\ ~ LiveIn(p, e, k + 1)
    BY <2>1 DEF EndedIn
  <2> QED BY <1>2, <1>3, <2>1, <2>2, <2>3 DEF SpanIn, c
<1>8. \A x : x \in EndedIn(p, e) => \E i, j \in 1..k : x = <<i, j>>
  <2> SUFFICES ASSUME NEW x \in EndedIn(p, e) PROVE \E i, j \in 1..k : x = <<i, j>>
    OBVIOUS
  <2>1. x = <<x[1], x[2]>> /\ x[1] \in 1..(k + 1) /\ x[2] \in 1..(k + 1) /\ x[1] <= x[2] /\
      x[2] < k + 1
    BY <1>1 DEF EndedIn, Appears
  <2>2. x[1] \in 1..k /\ x[2] \in 1..k
    BY <1>1, <2>1
  <2> QED BY <2>1, <2>2
<1>9. \A x : x \in EndedIn(q, e) => \E i, j \in 1..k : x = <<i, j>> /\ j < k
  BY DEF EndedIn, k
<1>10. \A j \in 1..k : j < k \/ j = k
  BY <1>1
<1>11. NewFeedSpans(q, e, f) =
         IF ends THEN {<<ObservedAt(q[i]), end>> : i \in {h \in 1..k : Appears(q, e, h, k)}} ELSE {}
  BY DEF NewFeedSpans, c, k
<1> HIDE DEF end
<1>12. ASSUME NEW x \in FeedSpans(p, e) PROVE x \in FeedSpans(q, e) \cup NewFeedSpans(q, e, f)
  <2>1. PICK y \in EndedIn(p, e) : x = SpanIn(p, e, y)
    BY DEF FeedSpans
  <2>2. PICK i \in 1..k, j \in 1..k : y = <<i, j>>
    BY <1>8, <2>1
  <2>3. CASE j < k
    <3>1. y \in EndedIn(q, e) /\ x = SpanIn(q, e, y)
      BY <1>6, <2>1, <2>2, <2>3
    <3> QED BY <3>1 DEF FeedSpans
  <2>4. CASE j = k
    <3>1. Appears(q, e, i, k) /\ c \notin LiveContent /\ x = <<ObservedAt(q[i]), end>>
      BY <1>7, <2>1, <2>2, <2>4
    <3>2. ends
      BY <1>4, <1>5, <3>1
    <3> QED BY <1>11, <3>1, <3>2
  <2> QED BY <1>10, <2>3, <2>4
<1>13. ASSUME NEW x \in FeedSpans(q, e) PROVE x \in FeedSpans(p, e)
  <2>1. PICK y \in EndedIn(q, e) : x = SpanIn(q, e, y)
    BY DEF FeedSpans
  <2>2. PICK i \in 1..k, j \in 1..k : y = <<i, j>> /\ j < k
    BY <1>9, <2>1
  <2>3. y \in EndedIn(p, e) /\ x = SpanIn(p, e, y)
    BY <1>6, <2>1, <2>2
  <2> QED BY <2>3 DEF FeedSpans
<1>14. ASSUME NEW x \in NewFeedSpans(q, e, f) PROVE x \in FeedSpans(p, e)
  <2>1. PICK i \in 1..k : Appears(q, e, i, k) /\ x = <<ObservedAt(q[i]), end>> /\ ends
    BY <1>11
  <2>2. <<i, k>> \in EndedIn(p, e) /\ x = SpanIn(p, e, <<i, k>>)
    BY <1>7, <2>1
  <2> QED BY <2>2 DEF FeedSpans
<1>15. FeedSpans(p, e) = FeedSpans(q, e) \cup NewFeedSpans(q, e, f)
  BY <1>12, <1>13, <1>14
<1> QED BY <1>15 DEF p

\* At most one stretch reaches the last revision, and one appearance the last
\* feed.
LEMMA OneOpen ==
  ASSUME NEW a, InOrder(a), NEW q \in Seq(AppliedRun), NEW e
  PROVE  /\ \A m, n : Stretch(a, m, Len(a.revisions)) /\ Stretch(a, n, Len(a.revisions)) => m = n
         /\ \A i, j : Appears(q, e, i, Len(q)) /\ Appears(q, e, j, Len(q)) => i = j
<1>1. ASSUME NEW m, NEW n, Stretch(a, m, Len(a.revisions)), Stretch(a, n, Len(a.revisions)), m < n
      PROVE  FALSE
  <2>1. m \in Nat /\ n \in Nat /\ Len(a.revisions) \in Nat /\ n <= Len(a.revisions) /\
      StartsAt(a, n)
    BY <1>1 DEF Stretch, LiveStarts, Numbers, InOrder
  <2>2. n \in (m + 1)..Len(a.revisions)
    BY <1>1, <2>1
  <2> QED BY <1>1, <2>1, <2>2 DEF Stretch
<1>2. \A m, n : Stretch(a, m, Len(a.revisions)) /\ Stretch(a, n, Len(a.revisions)) =>
        m \in Nat /\ n \in Nat
  BY DEF Stretch, LiveStarts, Numbers
<1>3. ASSUME NEW i, NEW j, Appears(q, e, i, Len(q)), Appears(q, e, j, Len(q)), i < j
      PROVE  FALSE
  <2>1. i \in Nat /\ j \in Nat /\ Len(q) \in Nat /\ j <= Len(q) /\ ~ LiveIn(q, e, j - 1)
    BY <1>3 DEF Appears
  <2>2. j - 1 \in i..Len(q)
    BY <1>3, <2>1
  <2> QED BY <1>3, <2>1, <2>2 DEF Appears
<1>4. \A i, j : Appears(q, e, i, Len(q)) /\ Appears(q, e, j, Len(q)) => i \in Nat /\ j \in Nat
  BY DEF Appears
<1>5. ASSUME NEW m, NEW n, Stretch(a, m, Len(a.revisions)), Stretch(a, n, Len(a.revisions))
      PROVE  m = n
  <2>1. m \in Nat /\ n \in Nat /\ ~ (m < n) /\ ~ (n < m)
    BY <1>1, <1>2, <1>5
  <2> QED BY <2>1
<1>6. ASSUME NEW i, NEW j, Appears(q, e, i, Len(q)), Appears(q, e, j, Len(q))
      PROVE  i = j
  <2>1. i \in Nat /\ j \in Nat /\ ~ (i < j) /\ ~ (j < i)
    BY <1>3, <1>4, <1>6
  <2> QED BY <2>1
<1> QED BY <1>5, <1>6

\* What a feed completes is the same in the row and in the feeds.
LEMMA SameNewSpans ==
  ASSUME NEW q \in Seq(AppliedRun), NEW f \in AppliedRun, NEW e, NEW a, a # NoAlert => InOrder(a),
         ShownBy(a) = LastSaid(q, e), OpenAgrees(q, e, a)
  PROVE  NewRowSpans(a, Listed(f)[e], ObservedAt(f)) = NewFeedSpans(q, e, f)
<1> DEFINE c == Listed(f)[e]
           t == ObservedAt(f)
           l == Len(a.revisions)
           k == Len(q)
<1>1. CASE ShownBy(a) \in LiveContent /\ c \notin LiveContent
  <2>1. a # NoAlert /\ a.revisions[l].last_seen_at = ObservedAt(q[k])
    BY <1>1 DEF OpenAgrees
  <2>2. PICK n \in Numbers(a), i \in 1..k :
          /\ Stretch(a, n, l) /\ Appears(q, e, i, k)
          /\ a.revisions[n].first_seen_at = ObservedAt(q[i])
    BY <1>1 DEF OpenAgrees
  <2>3. {h \in Numbers(a) : Stretch(a, h, l)} = {n}
    BY <2>1, <2>2, OneOpen
  <2>4. {h \in 1..k : Appears(q, e, h, k)} = {i}
    BY <2>1, <2>2, OneOpen
  <2> QED BY <1>1, <2>1, <2>2, <2>3, <2>4 DEF NewRowSpans, NewFeedSpans
<1>2. CASE ~ (ShownBy(a) \in LiveContent /\ c \notin LiveContent)
  BY <1>2 DEF NewRowSpans, NewFeedSpans
<1> QED BY <1>1, <1>2

\* The open episode and the open appearance begin and go on together.
LEMMA OpenStep ==
  ASSUME NEW q \in Seq(AppliedRun), NEW f \in AppliedRun, NEW e, NEW a, NEW b,
         RowStep(a, b, Listed(f)[e], ObservedAt(f)), a # NoAlert => RowFine(a),
         ~ Merges(a, ObservedAt(f)), ShownBy(a) = LastSaid(q, e), OpenAgrees(q, e, a),
         Missing \notin Content, NoAlert \notin Alert, Listed(f)[e] \in Content \cup {Missing}
  PROVE  OpenAgrees(Append(q, f), e, b)
<1> DEFINE c == Listed(f)[e]
           t == ObservedAt(f)
           p == Append(q, f)
           k == Len(q)
           l == Len(a.revisions)
           N == Len(b.revisions)
<1>1. /\ k \in Nat /\ Len(p) = k + 1 /\ p[k + 1] = f /\ \A i \in 1..k : p[i] = q[i]
  BY AppendFeed
<1>2. /\ \A i \in 1..k : LiveIn(p, e, i) <=> LiveIn(q, e, i)
      /\ LiveIn(p, e, k + 1) <=> c \in LiveContent
      /\ ~ LiveIn(p, e, 0) /\ ~ LiveIn(q, e, 0)
  BY LiveInAppend
<1>3. LastSaid(p, e) = c
  BY <1>1 DEF LastSaid
<1> SUFFICES ASSUME c \in LiveContent
             PROVE  /\ b # NoAlert /\ b.revisions[N].last_seen_at = t
                    /\ \E n \in Numbers(b), i \in 1..(k + 1) :
                         /\ Stretch(b, n, N) /\ Appears(p, e, i, k + 1)
                         /\ b.revisions[n].first_seen_at = ObservedAt(p[i])
  BY <1>1, <1>3 DEF OpenAgrees
<1> HIDE DEF p
<1>4. c \in Content /\ c \notin Deleted /\ c # Missing
  BY DEF LiveContent
<1>5. CASE ShownBy(a) \in LiveContent
  <2>1. /\ a # NoAlert /\ RowFine(a) /\ a.is_present /\ l \in Nat /\ l > 0 /\ a.current = l
        /\ Numbers(a) = 1..l /\ a.revisions[l].content \notin Deleted /\ InOrder(a) /\ a \in Alert
    BY <1>5 DEF ShownBy, LiveContent, RowFine, LifecycleOK, InOrder, Numbers, CurrentRevision
  <2>2. PICK n \in Numbers(a), i \in 1..k :
          /\ Stretch(a, n, l) /\ Appears(q, e, i, k)
          /\ a.revisions[n].first_seen_at = ObservedAt(q[i])
    BY <1>5 DEF OpenAgrees
  <2>3. SamePast(a, b) /\ b \in Alert
    BY <2>1 DEF RowStep
  <2>4. Appears(p, e, i, k + 1)
    <3>1. i \in 1..Len(p) /\ k + 1 \in 1..Len(p) /\ i <= k + 1 /\ (i - 1 = 0 \/ i - 1 \in 1..k)
      BY <1>1
    <3>2. ~ LiveIn(q, e, i - 1) /\ \A h \in i..k : LiveIn(q, e, h)
      BY <2>2 DEF Appears
    <3>3. \A h \in i..(k + 1) : h = k + 1 \/ (h \in i..k /\ h \in 1..k)
      BY <1>1
    <3> QED BY <1>2, <3>1, <3>2, <3>3 DEF Appears
  <2>5. b.revisions[n].first_seen_at = ObservedAt(p[i])
    BY <1>1, <2>2, <2>3 DEF SamePast
  <2>6. SeenStep(a, b, c, t) \/ ChangedStep(a, b, c, t)
    BY <1>4, <2>1 DEF RowStep, IdleStep, GoneStep, ReturnedStep
  <2>7. CASE SeenStep(a, b, c, t)
    <3>1. N = l /\ b.revisions[N].last_seen_at = t
      BY <2>7 DEF SeenStep, SameRevisions
    <3>2. Stretch(b, n, N) /\ n \in Numbers(b)
      BY <2>1, <2>2, <2>3, <3>1, StretchesStay
    <3> QED BY <2>3, <2>4, <2>5, <3>1, <3>2
  <2>8. CASE ChangedStep(a, b, c, t)
    <3>1. /\ N = l + 1 /\ b.revisions[l + 1].content = c /\ b.revisions[l + 1].first_seen_at = t
          /\ b.revisions[l + 1].last_seen_at = t /\ b.revisions[l].closed_at = t
      BY <2>8 DEF ChangedStep, NewStep
    <3>2. /\ b.revisions[l].content = a.revisions[l].content /\ (l + 1) - 1 = l /\ l + 1 # 1
          /\ l \in Numbers(a) /\ N \in Nat /\ l <= N /\ Numbers(b) = 1..N
      BY <2>1, <2>3, <3>1 DEF SamePast, Numbers
    <3>3. ~ StartsAt(b, l + 1) /\ ~ IsDeleted(b.revisions[l + 1])
      BY <1>4, <2>1, <3>1, <3>2 DEF StartsAt, IsDeleted
    <3>4. Stretch(b, n, l)
      BY <2>1, <2>2, <2>3, <3>2, StretchesStay
    <3>5. Stretch(b, n, l + 1) /\ n \in Numbers(b)
      <4>1. n \in LiveStarts(b) /\ n \in 1..l /\ \A h \in (n + 1)..l :
              ~ StartsAt(b, h) /\ ~ IsDeleted(b.revisions[h])
        BY <2>1, <3>4 DEF Stretch
      <4>2. \A h \in (n + 1)..(l + 1) : h = l + 1 \/ h \in (n + 1)..l
        BY <2>1, <4>1
      <4>3. n <= l + 1 /\ l + 1 \in Numbers(b) /\ n \in Numbers(b)
        BY <2>1, <3>1, <3>2, <4>1
      <4> QED BY <3>3, <4>1, <4>2, <4>3 DEF Stretch
    <3> QED BY <2>3, <2>4, <2>5, <3>1, <3>5
  <2> QED BY <2>6, <2>7, <2>8
<1>6. CASE ShownBy(a) \notin LiveContent
  <2>1. Appears(p, e, k + 1, k + 1) /\ k + 1 \in 1..(k + 1)
    <3>1. k + 1 \in 1..Len(p) /\ (k + 1) - 1 = k /\ (k = 0 \/ k \in 1..k)
      BY <1>1
    <3>2. ~ LiveIn(p, e, k)
      <4>1. k # 0 => (LiveIn(q, e, k) <=> LastSaid(q, e) \in LiveContent)
        BY <1>1 DEF LiveIn, LastSaid
      <4> QED BY <1>2, <1>6, <3>1, <4>1
    <3>3. \A h \in (k + 1)..(k + 1) : h = k + 1
      BY <1>1
    <3> QED BY <1>1, <1>2, <3>1, <3>2, <3>3 DEF Appears
  <2>2. Begins(a, c)
    BY <1>6 DEF Begins
  <2>3. LiveStartsOf(b) = LiveStartsOf(a) \cup {N}
    <3>1. RowInOrder(a) /\ CurrentIsLast(a) /\ (a # NoAlert => a \in Alert)
      BY DEF RowInOrder, CurrentIsLast, RowFine, LifecycleOK
    <3> QED BY <2>2, <3>1, LiveStartsGrow
  <2>4. /\ b # NoAlert /\ N \in Nat /\ b.revisions[N].first_seen_at = t
        /\ b.revisions[N].last_seen_at = t
    <3>1. CASE a = NoAlert
      BY <1>4, <3>1 DEF RowStep, FirstStep
    <3>2. CASE a # NoAlert
      <4>1. ShownBy(a) = IF a.is_present THEN CurrentRevision(a).content ELSE Missing
        BY <3>2 DEF ShownBy
      <4>2. NewStep(a, b, c, t) /\ b \in Alert /\ l \in Nat
        BY <1>4, <1>6, <3>2, <4>1
        DEF RowStep, SeenStep, IdleStep, GoneStep, ChangedStep, ReturnedStep, RowFine, InOrder,
            LiveContent
      <4> QED BY <4>2 DEF NewStep
    <3> QED BY <3>1, <3>2
  <2>5. N \in LiveStarts(b)
    BY <2>3, <2>4 DEF LiveStartsOf
  <2>6. Stretch(b, N, N) /\ N \in Numbers(b)
    BY <2>4, <2>5 DEF Stretch, LiveStarts
  <2> QED BY <1>1, <2>1, <2>4, <2>6
<1> QED BY <1>5, <1>6

\* A feed keeps the spans of its source's rows and of the feeds in agreement.
LEMMA SpansStep ==
  ASSUME NEW q \in Seq(AppliedRun), NEW f \in AppliedRun, NEW e, NEW a, NEW b,
         RowStep(a, b, Listed(f)[e], ObservedAt(f)), a # NoAlert => RowFine(a),
         ShownBy(a) = LastSaid(q, e), SpansAgree(q, e, a),
         Listed(f)[e] \in Content \cup {Missing},
         a # NoAlert => \A n \in Numbers(a) : a.revisions[n].closed_at # NoTime =>
           \E i \in 1..Len(q) : ObservedAt(q[i]) = a.revisions[n].closed_at,
         ObservedAt(f) # NoTime
  PROVE  SpansAgree(Append(q, f), e, b)
<1> DEFINE c == Listed(f)[e]
           t == ObservedAt(f)
           p == Append(q, f)
<1>0. Missing \notin Content /\ NoAlert \notin Alert
  BY FeedAssumption, AlertAssumption
<1>1. /\ Len(q) \in Nat /\ Len(p) = Len(q) + 1 /\ p[Len(q) + 1] = f
      /\ \A i \in 1..Len(q) : p[i] = q[i]
  BY AppendFeed
<1> SUFFICES ASSUME DistinctTimes(p) PROVE RowSpans(b) = FeedSpans(p, e) /\ OpenAgrees(p, e, b)
  BY DEF SpansAgree
<1>2. DistinctTimes(q)
  BY <1>1 DEF DistinctTimes
<1>3. RowSpans(a) = FeedSpans(q, e) /\ OpenAgrees(q, e, a)
  BY <1>2 DEF SpansAgree
<1>4. ~ Merges(a, t)
  <2> SUFFICES ASSUME Merges(a, t) PROVE FALSE
    OBVIOUS
  <2>1. a # NoAlert /\ a.revisions[Len(a.revisions)].closed_at = t
    BY DEF Merges
  <2>2. Len(a.revisions) \in Numbers(a)
    BY <2>1 DEF RowFine, InOrder, Numbers
  <2>3. PICK i \in 1..Len(q) : ObservedAt(q[i]) = t
    BY <2>1, <2>2
  <2>4. /\ i \in 1..Len(p) /\ Len(q) + 1 \in 1..Len(p) /\ i # Len(q) + 1
        /\ ObservedAt(p[i]) = ObservedAt(p[Len(q) + 1])
    BY <1>1, <2>3
  <2> QED BY <2>4 DEF DistinctTimes
<1>5. OpenAgrees(p, e, b)
  BY <1>0, <1>3, <1>4, OpenStep
<1>6. RowSpans(b) = RowSpans(a) \cup NewRowSpans(a, c, t)
  BY <1>0, <1>4, RowSpansGrow
<1>7. FeedSpans(p, e) = FeedSpans(q, e) \cup NewFeedSpans(q, e, f)
  BY FeedSpansGrow
<1>8. NewRowSpans(a, c, t) = NewFeedSpans(q, e, f)
  BY <1>3, SameNewSpans DEF RowFine
<1> QED BY <1>3, <1>5, <1>6, <1>7, <1>8

\* The invariant of the spans.
RowsSpan == \A s \in Source, e \in Entity : SpansAgree(feeds[s], e, alerts[s][e])

\* The rows of a reachable state are fine.
LEMMA RowsFine ==
  EpisodeInv => \A s \in Source, e \in Entity : alerts[s][e] # NoAlert =>
                  RowFine(alerts[s][e]) /\ WindowsOK(alerts[s][e])
<1> SUFFICES ASSUME EpisodeInv, NEW s \in Source, NEW e \in Entity, alerts[s][e] # NoAlert
             PROVE  RowFine(alerts[s][e]) /\ WindowsOK(alerts[s][e])
  OBVIOUS
<1>1. alerts[s][e] \in Alert /\ RowOK(AppliedTo(s), e, alerts[s][e])
  BY DEF EpisodeInv, Inv, TypeOK, EntityOK
<1>2. InOrder(alerts[s][e])
  BY DEF EpisodeInv, RowsTell, RowTells, RowInOrder
<1> QED BY <1>1, <1>2 DEF RowFine, RowOK

\* A feed keeps it.
LEMMA ApplyFeedSpans ==
  ASSUME EpisodeInv, RowsSpan, NEW f \in AppliedRun, ApplyFeed(f)
  PROVE  RowsSpan'
<1> DEFINE z == f.source
           q == feeds[z]
           p == Append(feeds[z], f)
<1>1. /\ z \in Source
      /\ \A e \in Entity : RowStep(alerts[z][e], alerts'[z][e], Listed(f)[e], ObservedAt(f))
      /\ feeds'[z] = p
      /\ \A s \in Source \ {z} : alerts'[s] = alerts[s] /\ feeds'[s] = feeds[s]
      /\ Follows(f, AppliedTo(z))
  BY ApplyFeedRows
<1>2. q \in Seq(AppliedRun)
  BY <1>1 DEF EpisodeInv, FeedsApplied
<1> SUFFICES ASSUME NEW s \in Source, NEW e \in Entity
             PROVE  SpansAgree(feeds[s], e, alerts[s][e])'
  BY DEF RowsSpan
<1>3. SpansAgree(feeds[s], e, alerts[s][e])
  BY DEF RowsSpan
<1>4. CASE s # z
  BY <1>1, <1>3, <1>4 DEF SpansAgree, DistinctTimes
<1>5. CASE s = z
  <2> DEFINE a == alerts[z][e]
             b == alerts'[z][e]
  <2>1. RowStep(a, b, Listed(f)[e], ObservedAt(f)) /\ SpansAgree(q, e, a)
    BY <1>1, <1>3, <1>5
  <2>2. /\ Listed(f)[e] \in Content \cup {Missing} /\ ObservedAt(f) # NoTime
        /\ a # NoAlert => \A n \in Numbers(a) : a.revisions[n].closed_at # NoTime =>
             \E i \in 1..Len(q) : ObservedAt(q[i]) = a.revisions[n].closed_at
    BY <1>1, RowBefore
  <2>3. a # NoAlert => RowFine(a)
    BY <1>1, RowsFine
  <2>4. ShownBy(a) = LastSaid(q, e)
    BY <1>1 DEF EpisodeInv, RowsTell, RowTells
  <2>5. SpansAgree(p, e, b)
    BY <1>2, <2>1, <2>2, <2>3, <2>4, SpansStep
  <2> QED BY <1>1, <1>5, <2>5
<1> QED BY <1>4, <1>5

\* The least of a set of numbers, once there is one.
LEMMA MinIs ==
  ASSUME NEW S \in SUBSET Nat, NEW x \in S, \A y \in S : x <= y
  PROVE  Min(S) = x
<1>1. Min(S) \in S /\ \A y \in S : Min(S) <= y
  BY DEF Min
<1> DEFINE m == Min(S)
<1>2. m \in Nat /\ x \in Nat /\ m >= x /\ m <= x
  BY <1>1
<1> HIDE DEF m
<1>3. m = x
  BY <1>2
<1> QED BY <1>3 DEF m

\* Revisions are last seen in the order of their numbers too.
LEMMA LastSeenInOrder ==
  ASSUME NEW a, RowFine(a), WindowsOK(a)
  PROVE  /\ \A n \in Numbers(a) : a.revisions[n].last_seen_at \in Nat
         /\ \A m, n \in Numbers(a) : m <= n =>
              a.revisions[m].last_seen_at <= a.revisions[n].last_seen_at
<1> DEFINE l == Len(a.revisions)
           fs(n) == a.revisions[n].first_seen_at
           ls(n) == a.revisions[n].last_seen_at
<1>0. l \in Nat /\ Numbers(a) = 1..l /\ a.revisions \in Seq(Revision)
  BY DEF RowFine, InOrder, Numbers, Alert
<1>1. ASSUME NEW n \in Numbers(a)
      PROVE  /\ ls(n) \in Nat /\ fs(n) \in Nat /\ a.revisions[n] \in Revision
             /\ fs(n) <= ls(n)
  <2>1. a.revisions[n] \in Revision
    BY <1>0
  <2>2. fs(n) <= ls(n)
    BY <1>0 DEF WindowsOK
  <2> QED BY <2>1, <2>2, TimeAssumption DEF Revision
<1>2. ASSUME NEW m \in Numbers(a), NEW n \in Numbers(a), m < n PROVE ls(m) <= ls(n)
  <2>1. m < l /\ m + 1 \in Numbers(a) /\ m + 1 <= n
    BY <1>0, <1>2
  <2>2. a.revisions[m].closed_at # NoTime
    BY <1>0, <2>1 DEF RowFine, LifecycleOK
  <2>3. ls(m) <= a.revisions[m].closed_at /\ a.revisions[m].closed_at <= fs(m + 1)
    BY <1>0, <2>1, <2>2 DEF WindowsOK
  <2>4. a.revisions[m].closed_at \in Nat
    BY <1>1, <2>2, TimeAssumption DEF Revision
  <2>5. fs(m + 1) <= fs(n)
    <3>1. m + 1 = n \/ m + 1 < n
      BY <1>0, <2>1
    <3> QED BY <1>1, <2>1, <3>1 DEF RowFine, InOrder
  <2>6. fs(m + 1) \in Nat /\ fs(n) \in Nat /\ fs(n) <= ls(n) /\ ls(m) \in Nat /\ ls(n) \in Nat
    BY <1>1, <2>1
  <2> HIDE DEF fs, ls
  <2> QED BY <2>3, <2>4, <2>5, <2>6
<1>3. ASSUME NEW m \in Numbers(a), NEW n \in Numbers(a), m <= n PROVE ls(m) <= ls(n)
  <2>1. m = n \/ m < n
    BY <1>0, <1>3
  <2> QED BY <1>1, <1>2, <2>1
<1> QED BY <1>1, <1>3

\* A start's episode goes up to the next start.
LEMMA EpisodeOfStart ==
  ASSUME NEW a, InOrder(a), NEW n \in LiveStarts(a)
  PROVE  \A m : m \in EpisodeOf(a, n) <=>
           m \in Numbers(a) /\ n <= m /\ \A k \in (n + 1)..m : ~ StartsAt(a, k)
<1>0. Numbers(a) = 1..Len(a.revisions) /\ Len(a.revisions) \in Nat /\ n \in Numbers(a) /\
    StartsAt(a, n)
  BY DEF Numbers, InOrder, LiveStarts
<1> SUFFICES ASSUME NEW m \in Numbers(a)
             PROVE  EpisodeNumber(a, m) = EpisodeNumber(a, n) <=>
                      n <= m /\ \A k \in (n + 1)..m : ~ StartsAt(a, k)
  BY DEF EpisodeOf
<1>1. CASE m < n
  <2>1. n \in (m + 1)..n /\ ~ (n <= m)
    BY <1>0, <1>1
  <2>2. EpisodeNumber(a, m) # EpisodeNumber(a, n)
    BY <1>0, <1>1, <2>1, EpisodeNumberOrder
  <2> QED BY <2>1, <2>2
<1>2. CASE m = n
  BY <1>0, <1>2
<1>3. CASE n < m
  <2>1. EpisodeNumber(a, n) = EpisodeNumber(a, m) <=> \A k \in (n + 1)..m : ~ StartsAt(a, k)
    BY <1>0, <1>3, EpisodeNumberOrder
  <2>2. n <= m
    BY <1>0, <1>3
  <2> QED BY <2>1, <2>2
<1> QED BY <1>0, <1>1, <1>2, <1>3

\* The stretch of a start, followed to its end.
LEMMA LongestStretch ==
  ASSUME NEW a, InOrder(a), NEW n \in LiveStarts(a)
  PROVE  \E m \in Numbers(a) :
           /\ Stretch(a, n, m)
           /\ m < Len(a.revisions) => StartsAt(a, m + 1) \/ IsDeleted(a.revisions[m + 1])
           /\ \A k \in Numbers(a) : Stretch(a, n, k) => k <= m
<1> DEFINE l == Len(a.revisions)
           T == {m \in Numbers(a) : Stretch(a, n, m)}
<1>0. Numbers(a) = 1..l /\ l \in Nat /\ n \in Numbers(a)
  BY DEF Numbers, InOrder, LiveStarts
<1>1. n \in T /\ T \in SUBSET (0..l)
  BY <1>0 DEF Stretch
<1> HIDE DEF T
<1>2. PICK m \in T : \A k \in T : k <= m
  BY <1>0, <1>1, GreatestNumber
<1>3. m \in Numbers(a) /\ Stretch(a, n, m) /\ \A k \in Numbers(a) : Stretch(a, n, k) => k <= m
  BY <1>2 DEF T
<1>4. ASSUME m < l, ~ StartsAt(a, m + 1), ~ IsDeleted(a.revisions[m + 1]) PROVE FALSE
  <2>1. m + 1 \in Numbers(a) /\ n <= m + 1 /\ m \in Nat /\ n \in Nat
        /\ \A k \in (n + 1)..(m + 1) : k = m + 1 \/ k \in (n + 1)..m
    BY <1>0, <1>3, <1>4 DEF Stretch
  <2>2. Stretch(a, n, m + 1)
    BY <1>3, <1>4, <2>1 DEF Stretch
  <2>3. ~ (m + 1 <= m)
    BY <2>1
  <2> QED BY <1>3, <2>1, <2>2, <2>3
<1> QED BY <1>3, <1>4

\* What the views say of the episode of a start whose stretch goes to m.
LEMMA EpisodeSpan ==
  ASSUME NEW a, RowFine(a), WindowsOK(a), NEW n, NEW m, Stretch(a, n, m),
         m < Len(a.revisions) => StartsAt(a, m + 1) \/ IsDeleted(a.revisions[m + 1])
  PROVE  LET ep == EpisodeOf(a, n) IN
         /\ EpisodeFirstSeen(a, ep) = a.revisions[n].first_seen_at
         /\ EpisodeLastSeen(a, ep) = EndTime(a, m)
         /\ EpisodeClosedAt(a, ep) # NoTime <=> EndsAt(a, m)
<1> DEFINE l == Len(a.revisions)
           ep == EpisodeOf(a, n)
           D == DeletedIn(a, ep)
           fs(k) == a.revisions[k].first_seen_at
           ls(k) == a.revisions[k].last_seen_at
<1>0. /\ InOrder(a) /\ LifecycleOK(a) /\ l \in Nat /\ Numbers(a) = 1..l
      /\ n \in LiveStarts(a) /\ n \in Numbers(a) /\ m \in Numbers(a) /\ n <= m
      /\ ~ IsDeleted(a.revisions[n])
      /\ \A k \in (n + 1)..m : ~ StartsAt(a, k) /\ ~ IsDeleted(a.revisions[k])
  BY DEF RowFine, InOrder, Numbers, Stretch, LiveStarts
<1>1. \A k : k \in ep <=> k \in Numbers(a) /\ n <= k /\ \A j \in (n + 1)..k : ~ StartsAt(a, j)
  BY <1>0, EpisodeOfStart
<1>2. \A k \in Numbers(a) : fs(k) \in Nat
  BY <1>0 DEF InOrder
<1>3. \A j, k \in Numbers(a) : j <= k => fs(j) <= fs(k)
  <2> SUFFICES ASSUME NEW j \in Numbers(a), NEW k \in Numbers(a), j <= k PROVE fs(j) <= fs(k)
    OBVIOUS
  <2>1. j = k \/ j < k
    BY <1>0
  <2> QED BY <1>0, <1>2, <2>1 DEF InOrder
<1>4. /\ \A k \in Numbers(a) : ls(k) \in Nat
      /\ \A j, k \in Numbers(a) : j <= k => ls(j) <= ls(k)
  BY LastSeenInOrder
<1>5. \A k \in ep : k \in Numbers(a) /\ n <= k
  BY <1>1
<1>6. n \in ep /\ m \in ep /\ \A k \in n..m : k \in ep /\ ~ IsDeleted(a.revisions[k])
  <2>1. \A k \in n..m : k \in Numbers(a) /\ n <= k /\ (k = n \/ k \in (n + 1)..m)
                        /\ \A j \in (n + 1)..k : j \in (n + 1)..m
    BY <1>0
  <2>2. \A k \in n..m : k \in ep /\ ~ IsDeleted(a.revisions[k])
    BY <1>0, <1>1, <2>1
  <2>3. n \in n..m /\ m \in n..m
    BY <1>0
  <2> QED BY <2>2, <2>3
<1> HIDE DEF ep
<1>7. EpisodeFirstSeen(a, ep) = fs(n)
  <2> DEFINE F == {fs(k) : k \in ep}
  <2>1. F \in SUBSET Nat /\ fs(n) \in F /\ \A y \in F : fs(n) <= y
    BY <1>0, <1>2, <1>3, <1>5, <1>6
  <2>2. EpisodeFirstSeen(a, ep) = Min(F)
    BY DEF EpisodeFirstSeen
  <2> HIDE DEF F
  <2> QED BY <2>1, <2>2, MinIs
<1>8. CASE m < l /\ ~ StartsAt(a, m + 1)
  <2>1. /\ IsDeleted(a.revisions[m + 1]) /\ m + 1 \in Numbers(a) /\ n <= m + 1
        /\ \A j \in (n + 1)..(m + 1) : j = m + 1 \/ j \in (n + 1)..m
    BY <1>0, <1>8
  <2>2. m + 1 \in ep
    BY <1>0, <1>1, <1>8, <2>1
  <2>3. m + 1 \in D /\ \A k \in D : k \in ep /\ IsDeleted(a.revisions[k])
    BY <2>1, <2>2 DEF DeletedIn
  <2>4. \A k \in D : k \in Numbers(a) /\ m + 1 <= k
    <3> SUFFICES ASSUME NEW k \in D PROVE k \in Numbers(a) /\ m + 1 <= k
      OBVIOUS
    <3>1. k \in Numbers(a) /\ n <= k /\ k \notin n..m
      BY <1>5, <1>6, <2>3
    <3> QED BY <1>0, <3>1
  <2> HIDE DEF D
  <2> DEFINE F == {fs(k) : k \in D}
  <2>5. F \in SUBSET Nat /\ fs(m + 1) \in F /\ \A y \in F : fs(m + 1) <= y
    BY <1>2, <1>3, <2>1, <2>3, <2>4
  <2>6. EpisodeFirstSeen(a, D) = Min(F)
    BY DEF EpisodeFirstSeen
  <2> HIDE DEF F
  <2>7. EpisodeFirstSeen(a, D) = fs(m + 1)
    BY <2>5, <2>6, MinIs
  <2>8. D # {}
    BY <2>3
  <2>9. EpisodeLastSeen(a, ep) = fs(m + 1) /\ EpisodeClosedAt(a, ep) = fs(m + 1)
    BY <2>7, <2>8 DEF EpisodeLastSeen, EpisodeClosedAt, D
  <2>10. fs(m + 1) # NoTime
    <3>1. a.revisions \in Seq(Revision)
      BY DEF RowFine, Alert
    <3>2. a.revisions[m + 1] \in Revision
      BY <1>0, <2>1, <3>1
    <3> QED BY <3>2, TimeAssumption DEF Revision
  <2>11. EndTime(a, m) = fs(m + 1) /\ EndsAt(a, m)
    BY <1>8, <2>1 DEF EndTime, EndsAt
  <2> QED BY <1>7, <2>9, <2>10, <2>11 DEF ep
<1>9. CASE ~ (m < l /\ ~ StartsAt(a, m + 1))
  <2>1. m = l \/ (m < l /\ StartsAt(a, m + 1))
    BY <1>0, <1>9
  <2>2. \A k \in ep : k \in n..m
    <3> SUFFICES ASSUME NEW k \in ep, m < k PROVE FALSE
      BY <1>0, <1>5
    <3>1. k \in Numbers(a) /\ m + 1 \in (n + 1)..k /\ m # l
      BY <1>0, <1>5
    <3> QED BY <1>1, <2>1, <3>1
  <2>3. D = {}
    BY <1>6, <2>2 DEF DeletedIn
  <2> DEFINE G == {ls(k) : k \in ep}
  <2>4. G \in SUBSET Nat /\ ls(m) \in G /\ \A y \in G : y <= ls(m)
    <3>1. \A k \in ep : k \in Numbers(a) /\ k <= m
      BY <1>0, <1>5, <2>2
    <3> QED BY <1>0, <1>4, <1>6, <3>1
  <2>5. EpisodeLastSeen(a, ep) = Max(G)
    BY <2>3 DEF EpisodeLastSeen
  <2> HIDE DEF G
  <2>6. EpisodeLastSeen(a, ep) = ls(m)
    <3>1. G \in SUBSET Int
      BY <2>4
    <3> QED BY <2>4, <2>5, <3>1, MaxIs
  <2> DEFINE final == CHOOSE k \in ep : \A j \in ep \ {k} : Precedes(a, j, k)
  <2>7. \A j \in ep \ {m} : Precedes(a, j, m)
    <3> SUFFICES ASSUME NEW j \in ep \ {m} PROVE Precedes(a, j, m)
      OBVIOUS
    <3>1. j \in Numbers(a) /\ j < m
      BY <1>0, <1>5, <2>2
    <3> QED BY <1>0, <3>1, PrecedesIsLess
  <2>8. final \in ep /\ \A j \in ep \ {final} : Precedes(a, j, final)
    BY <1>6, <2>7
  <2>9. EpisodeClosedAt(a, ep) = a.revisions[final].closed_at
    BY <2>3 DEF EpisodeClosedAt
  <2> HIDE DEF final
  <2>10. final = m
    <3> SUFFICES ASSUME final # m PROVE FALSE
      OBVIOUS
    <3>1. Precedes(a, m, final) /\ Precedes(a, final, m) /\ final \in Numbers(a)
      BY <1>5, <1>6, <2>7, <2>8
    <3>2. m < final /\ final < m
      BY <1>0, <3>1, PrecedesIsLess
    <3> QED BY <1>0, <3>1, <3>2
  <2>11. EndTime(a, m) = ls(m)
    BY <1>9 DEF EndTime
  <2>12. EndsAt(a, m) <=> a.revisions[m].closed_at # NoTime
    <3>1. m < l => a.revisions[m].closed_at # NoTime
      BY <1>0 DEF LifecycleOK
    <3> QED BY <2>1, <3>1 DEF EndsAt
  <2> QED BY <1>7, <2>6, <2>9, <2>10, <2>11, <2>12 DEF ep
<1> QED BY <1>8, <1>9

\* The completed episodes span the stretches that have ended.
LEMMA CompletedSpansAre ==
  ASSUME NEW a, RowFine(a), WindowsOK(a), a # NoAlert
  PROVE  CompletedSpans(a) = RowSpans(a)
<1>0. /\ InOrder(a) /\ CountedEpisodes(a) = {EpisodeOf(a, n) : n \in LiveStarts(a)}
      /\ RowSpans(a) = {StretchSpan(a, p) : p \in EndedStretches(a)}
      /\ Numbers(a) = 1..Len(a.revisions) /\ Len(a.revisions) \in Nat
  BY CountedEpisodesAre DEF RowFine, RowSpans, Numbers, InOrder
<1> DEFINE Span(ep) == <<EpisodeFirstSeen(a, ep), EpisodeLastSeen(a, ep)>>
           Ended == {p \in CountedEpisodes(a) : EpisodeClosedAt(a, p) # NoTime}
<1>1. CompletedSpans(a) = {Span(ep) : ep \in Ended}
  BY DEF CompletedSpans
<1>2. ASSUME NEW ep \in Ended PROVE Span(ep) \in RowSpans(a)
  <2>1. PICK n \in LiveStarts(a) : ep = EpisodeOf(a, n)
    BY <1>0
  <2>2. PICK m \in Numbers(a) :
          /\ Stretch(a, n, m)
          /\ m < Len(a.revisions) => StartsAt(a, m + 1) \/ IsDeleted(a.revisions[m + 1])
    BY <1>0, LongestStretch
  <2>3. /\ EpisodeFirstSeen(a, ep) = a.revisions[n].first_seen_at
        /\ EpisodeLastSeen(a, ep) = EndTime(a, m)
        /\ EpisodeClosedAt(a, ep) # NoTime <=> EndsAt(a, m)
    BY <2>1, <2>2, EpisodeSpan
  <2>4. n \in Numbers(a) /\ EndsAt(a, m)
    BY <2>3 DEF LiveStarts
  <2>5. <<n, m>> \in EndedStretches(a) /\ Span(ep) = StretchSpan(a, <<n, m>>)
    BY <2>2, <2>3, <2>4 DEF EndedStretches, StretchSpan
  <2> QED BY <1>0, <2>5
<1>3. ASSUME NEW p \in EndedStretches(a) PROVE StretchSpan(a, p) \in CompletedSpans(a)
  <2> DEFINE n == p[1]
             m == p[2]
             ep == EpisodeOf(a, n)
  <2>1. Stretch(a, n, m) /\ EndsAt(a, m) /\ n \in LiveStarts(a)
    BY DEF EndedStretches, Stretch
  <2>2. m < Len(a.revisions) => StartsAt(a, m + 1) \/ IsDeleted(a.revisions[m + 1])
    BY <2>1 DEF EndsAt
  <2> HIDE DEF n, m
  <2>3. /\ EpisodeFirstSeen(a, ep) = a.revisions[n].first_seen_at
        /\ EpisodeLastSeen(a, ep) = EndTime(a, m)
        /\ EpisodeClosedAt(a, ep) # NoTime <=> EndsAt(a, m)
    BY <2>1, <2>2, EpisodeSpan
  <2>4. ep \in Ended /\ StretchSpan(a, p) = Span(ep)
    BY <1>0, <2>1, <2>3 DEF StretchSpan, n, m
  <2> QED BY <1>1, <2>4
<1> QED BY <1>0, <1>1, <1>2, <1>3

\* SpansAreObserved: the durations analytics reports are those observed, for
\* any feeds in any order of arrival, as long as no two of a source share an
\* observation time.
THEOREM SpansAlwaysObserved == EpisodeSpec => []SpansAreObserved
<1>1. InitEpisodes => RowsSpan
  <2> SUFFICES ASSUME InitEpisodes, NEW s \in Source, NEW e \in Entity
               PROVE  SpansAgree(feeds[s], e, alerts[s][e])
    BY DEF RowsSpan
  <2>1. alerts[s][e] = NoAlert /\ feeds[s] = << >> /\ Len(<< >>) = 0
    BY DEF InitEpisodes, Init
  <2>2. EndedIn(<< >>, e) = {} /\ RowSpans(NoAlert) = {}
    BY DEF EndedIn, RowSpans
  <2>3. LastSaid(<< >>, e) \notin LiveContent
    BY FeedAssumption DEF LastSaid, LiveContent
  <2> QED BY <2>1, <2>2, <2>3 DEF SpansAgree, FeedSpans, OpenAgrees
<1>2. EpisodeInv /\ RowsSpan /\ [NextEpisodes]_episodeVars => RowsSpan'
  <2> SUFFICES ASSUME EpisodeInv, RowsSpan, [NextEpisodes]_episodeVars PROVE RowsSpan'
    OBVIOUS
  <2>1. CASE NextEpisodes
    BY <2>1, ApplyFeedSpans DEF NextEpisodes
  <2>2. CASE UNCHANGED episodeVars
    BY <2>2 DEF episodeVars, RowsSpan
  <2> QED BY <2>1, <2>2
<1>3. EpisodeInv /\ RowsSpan => SpansAreObserved
  <2> SUFFICES ASSUME EpisodeInv, RowsSpan, NEW s \in Source, NEW e \in Entity,
                      Known(s, e), Distinct(s)
               PROVE  CompletedSpans(alerts[s][e]) = EndedSpans(s, e)
    BY DEF SpansAreObserved
  <2> DEFINE a == alerts[s][e]
             q == feeds[s]
  <2>1. a # NoAlert /\ RowFine(a) /\ WindowsOK(a) /\ Len(q) \in Nat
    BY RowsFine DEF Known, EpisodeInv, FeedsApplied
  <2>2. CompletedSpans(a) = RowSpans(a)
    BY <2>1, CompletedSpansAre
  <2>3. DistinctTimes(q)
    BY DEF Distinct, DistinctTimes
  <2>4. RowSpans(a) = FeedSpans(q, e)
    BY <2>3 DEF RowsSpan, SpansAgree
  <2>5. \A i : Live(s, e, i) <=> LiveIn(q, e, i)
    BY DEF Live, LiveIn, LiveContent, Says
  <2>6. {p \in Appearances(s, e) : p[2] < Len(q)} = EndedIn(q, e)
    BY <2>5 DEF Appearances, EndedIn, Appears
  <2>7. \A p : ObservedSpan(s, e, p) = SpanIn(q, e, p)
    BY DEF ObservedSpan, SpanIn, Says
  <2>8. EndedSpans(s, e) = FeedSpans(q, e)
    BY <2>6, <2>7 DEF EndedSpans, EndedAppearances, FeedSpans
  <2> QED BY <2>2, <2>4, <2>8
<1> QED BY <1>1, <1>2, <1>3, EpisodeInvariance, PTL DEF EpisodeSpec

-----------------------------------------------------------------------------
(* The points of a series.                                                 *)

\* Division with remainder.
LEMMA DivMod ==
  ASSUME NEW n \in Int, NEW d \in Nat \ {0}
  PROVE  n \div d \in Int /\ n % d \in 0..(d - 1) /\ n = d * (n \div d) + (n % d)
OBVIOUS

\* Multiplication by a positive number keeps the order, both ways.
LEMMA TimesOrder ==
  ASSUME NEW d \in Nat \ {0}, NEW m \in Int, NEW n \in Int
  PROVE  (m <= n <=> d * m <= d * n) /\ (m < n <=> d * m < d * n)
OBVIOUS

\* Quotient and remainder are the only ones.
LEMMA DivModUnique ==
  ASSUME NEW n \in Int, NEW d \in Nat \ {0}, NEW q \in Int, NEW r \in 0..(d - 1), n = d * q + r
  PROVE  n \div d = q /\ n % d = r
<1> DEFINE p == n \div d
           o == n % d
<1>1. p \in Int /\ o \in 0..(d - 1) /\ n = d * p + o
  BY DivMod
<1> HIDE DEF p, o
<1>2. d * (p + 1) = d * p + d /\ d * (q + 1) = d * q + d
  BY <1>1
<1>3. d * p < d * (q + 1) /\ d * q < d * (p + 1)
  BY <1>1, <1>2
<1>4. p < q + 1 /\ q < p + 1
  BY <1>1, <1>3, TimesOrder
<1>5. p = q
  BY <1>1, <1>4
<1>6. o = r
  BY <1>1, <1>5
<1> QED BY <1>5, <1>6 DEF p, o

\* The last multiple of d that is not after u is u less its remainder.
LEMMA LastMultiple ==
  ASSUME NEW d \in Nat \ {0}, NEW u \in Int
  PROVE  /\ (u - (u % d)) % d = 0
         /\ \A v \in Int : v <= u /\ v % d = 0 => v <= u - (u % d)
         /\ (((u + 1) % d) + d - 1) % d = u % d
<1> DEFINE q == u \div d
           r == u % d
<1>0. \A n \in Int, k \in Int, i \in 0..(d - 1) : n = d * k + i => n % d = i
  BY DivModUnique
<1>1. q \in Int /\ r \in 0..(d - 1) /\ u = d * q + r
  BY DivMod
<1> HIDE DEF q, r
<1>2. (u - r) % d = 0
  BY <1>1, DivModUnique
<1>3. ASSUME NEW v \in Int, v <= u, v % d = 0 PROVE v <= u - r
  <2>1. PICK k \in Int : v = d * k
    <3>1. v = d * (v \div d) + 0 /\ v \div d \in Int
      BY <1>3, DivMod
    <3> QED BY <3>1
  <2>2. d * (q + 1) = d * q + d
    BY <1>1
  <2>3. d * k < d * (q + 1)
    BY <1>1, <1>3, <2>1, <2>2
  <2>4. k <= q
    BY <1>1, <2>3, TimesOrder
  <2>5. d * k <= d * q
    BY <1>1, <2>4, TimesOrder
  <2> QED BY <1>1, <2>1, <2>5
<1>4. (((u + 1) % d) + d - 1) % d = r
  <2>1. CASE r < d - 1
    <3>1. (u + 1) % d = r + 1
      <4>1. u + 1 = d * q + (r + 1) /\ r + 1 \in 0..(d - 1) /\ u + 1 \in Int
        BY <1>1, <2>1
      <4> QED BY <1>0, <1>1, <4>1
    <3>2. r + 1 + d - 1 = d * 1 + r
      BY <1>1
    <3> QED BY <1>1, <3>1, <3>2, DivModUnique
  <2>2. CASE r = d - 1
    <3>1. (u + 1) % d = 0
      <4>1. u + 1 = d * (q + 1) + 0 /\ 0 \in 0..(d - 1)
        BY <1>1, <2>2
      <4> QED BY <1>1, <4>1, DivModUnique
    <3>2. 0 + d - 1 = d * 0 + r
      BY <1>1, <2>2
    <3> QED BY <1>1, <3>1, <3>2, DivModUnique
  <2> QED BY <1>1, <2>1, <2>2
<1> QED BY <1>2, <1>3, <1>4 DEF r

\* The first day of the interval that the day belongs to, as Go counts back to
\* it (analyticsBuckets).
FirstDay(interval, day) ==
  LET weekday == (FirstWeekday + day) % WeekLength
  IN  IF interval = "week" THEN day - ((weekday + WeekLength - 1) % WeekLength) ELSE day

\* The days in an interval.
Days(interval) == IF interval = "day" THEN 1 ELSE WeekLength

\* Go and date_trunc find the same day.
LEMMA TruncIsFirstDay ==
  ASSUME NEW t \in Nat, NEW interval \in {"day", "week"}
  PROVE  /\ DayOf(t) \in Nat
         /\ DateTrunc(interval, t) = DayLength * FirstDay(interval, DayOf(t))
<1> DEFINE day == DayOf(t)
           D == DayLength
           W == WeekLength
           u == FirstWeekday + day - 1
<1>1. D \in Nat \ {0} /\ W \in Nat \ {0} /\ FirstWeekday \in Nat
  BY ReadsAssumption
<1>2. day \in Nat
  BY <1>1 DEF DayOf
<1> HIDE DEF day
<1>3. CASE interval = "day"
  BY <1>1, <1>2, <1>3 DEF DateTrunc, FirstDay, day
<1>4. CASE interval = "week"
  <2> DEFINE M == {x \in (day - W)..day : (FirstWeekday + x - 1) % W = 0}
             first == day - (u % W)
  <2>1. u \in Int /\ u + 1 = FirstWeekday + day
    BY <1>1, <1>2
  <2> HIDE DEF u
  <2>2. /\ u % W \in 0..(W - 1) /\ (u - (u % W)) % W = 0
        /\ \A v \in Int : v <= u /\ v % W = 0 => v <= u - (u % W)
        /\ (((u + 1) % W) + W - 1) % W = u % W
    BY <1>1, <2>1, LastMultiple, DivMod
  <2>3. FirstDay(interval, day) = first
    BY <1>4, <2>1, <2>2 DEF FirstDay
  <2> DEFINE r == u % W
  <2>4. r \in 0..(W - 1)
    BY <2>2
  <2>5. first \in M
    <3>1. FirstWeekday + first - 1 = u - r
      BY <1>1, <1>2, <2>1, <2>4
    <3>2. first \in (day - W)..day
      BY <1>1, <1>2, <2>4
    <3> QED BY <2>2, <3>1, <3>2
  <2>6. ASSUME NEW x \in M PROVE x <= first
    <3>1. x \in Int /\ x <= day
      BY <1>1, <1>2
    <3>2. FirstWeekday + x - 1 \in Int /\ FirstWeekday + x - 1 <= u
      BY <1>1, <1>2, <2>1, <3>1
    <3>3. FirstWeekday + x - 1 <= u - r
      BY <2>2, <3>2
    <3> QED BY <1>1, <1>2, <2>1, <2>4, <3>1, <3>3
  <2>7. M \subseteq Int
    BY <1>1, <1>2
  <2> HIDE DEF first, M
  <2>8. Max(M) = first
    BY <2>5, <2>6, <2>7, MaxIs
  <2>9. DateTrunc(interval, t) = D * Max(M)
    BY <1>4 DEF DateTrunc, M, day
  <2> QED BY <1>2, <2>3, <2>8, <2>9 DEF day
<1> QED BY <1>3, <1>4

\* Intervals start a multiple of Step from base, and every instant is in the
\* one that date_trunc gives it.
Aligned(interval, base) ==
  \A t \in Nat : \E k \in Int :
    /\ DateTrunc(interval, t) = base + Step(interval) * k
    /\ DateTrunc(interval, t) <= t /\ t < DateTrunc(interval, t) + Step(interval)

\* Intervals follow each other: they start Step apart, and t is in its own.
LEMMA TruncFacts ==
  ASSUME NEW interval \in {"day", "week"}
  PROVE  /\ Step(interval) \in Nat \ {0}
         /\ \E base \in Int : Aligned(interval, base)
<1> DEFINE D == DayLength
           W == WeekLength
           F == FirstWeekday
<1>1. D \in Nat \ {0} /\ W \in Nat \ {0} /\ F \in Nat
  BY ReadsAssumption
<1>2. ASSUME NEW t \in Nat
      PROVE  DayOf(t) \in Nat /\ D * DayOf(t) <= t /\ t < D * DayOf(t) + D
  <2>1. t \div D \in Int /\ t % D \in 0..(D - 1) /\ t = D * (t \div D) + (t % D)
    BY <1>1, DivMod
  <2>2. DayOf(t) \in Nat
    BY TruncIsFirstDay
  <2> QED BY <1>1, <2>1, <2>2 DEF DayOf
<1>3. CASE interval = "day"
  <2>1. Step(interval) = D
    BY <1>3 DEF Step
  <2>2. \A t \in Nat : DateTrunc(interval, t) = 0 + D * DayOf(t)
    BY <1>1, <1>2, <1>3, TruncIsFirstDay DEF FirstDay
  <2>3. ASSUME NEW t \in Nat
        PROVE  \E k \in Int : /\ DateTrunc(interval, t) = 0 + D * k
                              /\ DateTrunc(interval, t) <= t /\ t < DateTrunc(interval, t) + D
    <3>1. DayOf(t) \in Int /\ DateTrunc(interval, t) = D * DayOf(t) /\ D * DayOf(t) \in Int
      BY <1>1, <1>2, <2>2
    <3> QED BY <1>2, <2>2, <3>1
  <2>4. Aligned(interval, 0)
    BY <2>1, <2>3 DEF Aligned
  <2> QED BY <1>1, <2>1, <2>4
<1>4. CASE interval = "week"
  <2>1. Step(interval) = W * D /\ W * D \in Nat \ {0}
    BY <1>1, <1>4 DEF Step
  <2> DEFINE base == D * (1 - F)
  <2>2. ASSUME NEW t \in Nat
        PROVE  \E k \in Int : /\ DateTrunc(interval, t) = base + (W * D) * k
                              /\ DateTrunc(interval, t) <= t
                              /\ t < DateTrunc(interval, t) + W * D
    <3> DEFINE day == DayOf(t)
               u == F + day - 1
               q == u \div W
               r == u % W
    <3>1. day \in Nat /\ D * day <= t /\ t < D * day + D
      BY <1>2
    <3> HIDE DEF day
    <3>2. u \in Int /\ u + 1 = F + day
      BY <1>1, <3>1
    <3>3. q \in Int /\ r \in 0..(W - 1) /\ u = W * q + r
      BY <1>1, <3>2, DivMod
    <3>4. FirstDay(interval, day) = day - r
      <4>1. (((u + 1) % W) + W - 1) % W = r
        BY <1>1, <3>2, LastMultiple
      <4> HIDE DEF u
      <4> QED BY <1>4, <3>2, <4>1 DEF FirstDay
    <3>5. DateTrunc(interval, t) = D * (day - r)
      BY <3>4, TruncIsFirstDay DEF day
    <3> HIDE DEF q, r
    <3>6. day - r = W * q + (1 - F)
      BY <1>1, <3>1, <3>3
    <3>7. D * (day - r) = base + (W * D) * q
      BY <1>1, <3>1, <3>3, <3>6
    <3>8. D * (day - r) <= D * day
      BY <1>1, <3>1, <3>3, TimesOrder
    <3>9. D * (day + 1) <= D * (day - r + W)
      BY <1>1, <3>1, <3>3, TimesOrder
    <3>10. D * (day + 1) = D * day + D /\ D * (day - r + W) = D * (day - r) + W * D
      BY <1>1, <3>1, <3>3
    <3>11. D * (day - r) \in Int /\ D * day \in Int /\ W * D \in Int
      BY <1>1, <3>1, <3>3
    <3> QED BY <1>1, <3>1, <3>3, <3>5, <3>7, <3>8, <3>9, <3>10, <3>11
  <2>3. base \in Int
    BY <1>1
  <2> HIDE DEF base
  <2>4. Aligned(interval, base)
    BY <2>1, <2>2 DEF Aligned
  <2> QED BY <2>1, <2>3, <2>4
<1> QED BY <1>3, <1>4

\* The buckets that Go makes are those of generate_series, and every instant
\* of [from, to) is in one of them.
LEMMA BucketsAgree ==
  ASSUME NEW from \in Nat, NEW to \in Nat, from < to, NEW interval \in {"day", "week"}
  PROVE  /\ AnalyticsBuckets(interval, from, to) = GenerateSeries(interval, from, to)
         /\ \A t \in from..(to - 1) :
              DateTrunc(interval, t) \in AnalyticsBuckets(interval, from, to)
         /\ IsFiniteSet(AnalyticsBuckets(interval, from, to))
<1> DEFINE S == Step(interval)
           T(t) == DateTrunc(interval, t)
           start == T(from)
           A == {b \in start..(to - 1) : (b - start) % S = 0}
<1>1. S \in Nat \ {0}
  BY TruncFacts
<1>2. PICK base \in Int : \A t \in Nat : \E k \in Int :
        T(t) = base + S * k /\ T(t) <= t /\ t < T(t) + S
  <2>1. PICK base \in Int : Aligned(interval, base)
    BY TruncFacts
  <2>2. \A t \in Nat : \E k \in Int :
          T(t) = base + S * k /\ T(t) <= t /\ t < T(t) + S
    BY <2>1, Zenon DEF Aligned
  <2> QED BY <2>2, Zenon
<1>3. AnalyticsBuckets(interval, from, to) = A
  <2> DEFINE day == DayOf(from)
             weekday == (FirstWeekday + day) % WeekLength
             back == IF interval = "week" THEN (weekday + WeekLength - 1) % WeekLength ELSE 0
             begin == (day - back) * DayLength
  <2>1. day \in Nat /\ start = DayLength * FirstDay(interval, day)
    BY TruncIsFirstDay
  <2>2. DayLength \in Nat \ {0} /\ WeekLength \in Nat \ {0} /\ FirstWeekday \in Nat
    BY ReadsAssumption
  <2> HIDE DEF day
  <2>3. FirstDay(interval, day) = day - back /\ back \in Int
    <3>1. CASE interval = "week"
      <4>1. weekday \in Int
        BY <2>1, <2>2, DivMod
      <4> HIDE DEF weekday
      <4>2. back \in Int
        BY <2>2, <3>1, <4>1, DivMod
      <4>3. FirstDay(interval, day) = day - ((weekday + WeekLength - 1) % WeekLength)
        BY <3>1 DEF FirstDay, weekday
      <4> QED BY <3>1, <4>2, <4>3
    <3>2. CASE interval = "day"
      BY <2>1, <3>2 DEF FirstDay
    <3> QED BY <3>1, <3>2
  <2> HIDE DEF back
  <2>4. begin = start
    BY <2>1, <2>2, <2>3
  <2>5. AnalyticsBuckets(interval, from, to)
          = {b \in begin..(to - 1) : (b - begin) % Step(interval) = 0}
    BY DEF AnalyticsBuckets, day, back
  <2> HIDE DEF begin, start
  <2> QED BY <2>4, <2>5
<1> HIDE DEF S, T
<1>4. to - 1 \in Nat
  OBVIOUS
<1>5. PICK k \in Int : start = base + S * k /\ start <= from /\ from < start + S
  BY <1>2
<1>6. PICK m \in Int : T(to - 1) = base + S * m /\ T(to - 1) <= to - 1 /\ to - 1 < T(to - 1) + S
  BY <1>2, <1>4
<1>7. start \in Int /\ T(to - 1) \in Int
  BY <1>1, <1>5, <1>6
<1>8. GenerateSeries(interval, from, to) = {b \in start..T(to - 1) : (b - start) % S = 0}
  BY DEF GenerateSeries, S, T
<1> HIDE DEF start
<1>9. ASSUME NEW b \in start..(to - 1), (b - start) % S = 0
      PROVE  b <= T(to - 1)
  <2>1. PICK j \in Int : b - start = S * j
    <3>1. b - start \in Int
      BY <1>7
    <3>2. (b - start) \div S \in Int /\ b - start = S * ((b - start) \div S) + 0
      BY <1>1, <1>9, <3>1, DivMod
    <3> DEFINE x == (b - start) \div S
    <3> HIDE DEF x
    <3>3. x \in Int /\ b - start = S * x
      <4>1. x \in Int /\ b - start = S * x + 0
        BY <3>2 DEF x
      <4> QED BY <1>1, <4>1
    <3> QED BY <3>3
  <2>2. b \in Int /\ b = base + S * (k + j) /\ S * (m + 1) = S * m + S
    BY <1>1, <1>5, <1>7, <2>1
  <2>3. S * (k + j) < S * (m + 1)
    <3>1. S * (k + j) \in Int /\ S * m \in Int
      BY <1>1
    <3> QED BY <1>1, <1>6, <2>2, <3>1
  <2>4. k + j <= m
    BY <1>1, <2>3, TimesOrder
  <2>5. S * (k + j) <= S * m
    BY <1>1, <2>4, TimesOrder
  <2>6. S * (k + j) \in Int /\ S * m \in Int
    BY <1>1
  <2> QED BY <1>6, <2>2, <2>5, <2>6
<1>10. A = GenerateSeries(interval, from, to)
  BY <1>6, <1>7, <1>8, <1>9
<1>11. ASSUME NEW t \in from..(to - 1) PROVE T(t) \in A
  <2>1. PICK j \in Int : T(t) = base + S * j /\ T(t) <= t /\ t < T(t) + S
    BY <1>2
  <2>2. S * (j + 1) = S * j + S /\ S * j \in Int /\ S * k \in Int
    BY <1>1
  <2>3. S * k < S * (j + 1)
    BY <1>1, <1>5, <2>1, <2>2
  <2>4. k <= j
    BY <1>1, <2>3, TimesOrder
  <2>5. S * k <= S * j
    BY <1>1, <2>4, TimesOrder
  <2>6. T(t) \in start..(to - 1)
    BY <1>5, <1>7, <2>1, <2>2, <2>5
  <2>7. T(t) - start = S * (j - k) + 0 /\ T(t) - start \in Int
    BY <1>1, <1>5, <2>1, <2>2
  <2>8. (T(t) - start) % S = 0
    <3> DEFINE n == T(t) - start
               q == j - k
    <3>1. n \in Int /\ q \in Int /\ n = S * q + 0 /\ 0 \in 0..(S - 1)
      BY <1>1, <2>7
    <3> HIDE DEF n, q
    <3>2. n % S = 0
      BY <1>1, <3>1, DivModUnique
    <3> QED BY <3>2 DEF n
  <2> QED BY <2>6, <2>8
<1>12. IsFiniteSet(A)
  <2>1. IsFiniteSet(start..(to - 1)) /\ A \in SUBSET (start..(to - 1))
    BY <1>7, FS_Interval
  <2> QED BY <2>1, FS_Subset
<1> QED BY <1>3, <1>10, <1>11, <1>12 DEF T

\* The sum of the points.
Total(list, B) == MapThenSumSet(LAMBDA b : list[b], B)

\* When every element of C is in one bucket, the sizes of the buckets add up to
\* the size of C.  The sum is a recursive function on sets of buckets; how many
\* elements are in the buckets of a set is a solution, and the only one.
LEMMA CountsAddUp ==
  ASSUME NEW C, IsFiniteSet(C), NEW B, IsFiniteSet(B), NEW h \in [C -> B], NEW list,
         list = [b \in B |-> Cardinality({c \in C : h[c] = b})]
  PROVE  Total(list, B) = Cardinality(C)
<1> DEFINE pick(s) == CHOOSE x \in s : TRUE
           Term(g, s) == IF s = {} THEN 0 ELSE list[pick(s)] + g[s \ {pick(s)}]
           IsSum(g) == g = [s \in SUBSET B |-> Term(g, s)]
           total == CHOOSE g : IsSum(g)
           In(s) == {c \in C : h[c] \in s}
           size == [s \in SUBSET B |-> Cardinality(In(s))]
<1>1. Total(list, B) = total[B]
  BY DEF Total, MapThenSumSet, MapThenFoldSet
<1>2. ASSUME NEW s \in SUBSET B
      PROVE  IsFiniteSet(In(s)) /\ Cardinality(In(s)) \in Nat
  <2>1. In(s) \in SUBSET C
    OBVIOUS
  <2>2. IsFiniteSet(In(s))
    BY <2>1, FS_Subset
  <2> QED BY <2>2, FS_CardinalityType
<1>3. ASSUME NEW s \in SUBSET B, s # {}
      PROVE  /\ pick(s) \in s /\ s \ {pick(s)} \in SUBSET B
             /\ Cardinality(In(s)) = list[pick(s)] + Cardinality(In(s \ {pick(s)}))
  <2> DEFINE x == pick(s)
  <2>1. x \in s /\ s \ {x} \in SUBSET B /\ {x} \in SUBSET B
    BY <1>3
  <2> HIDE DEF x
  <2>2. In(s) = In({x}) \cup In(s \ {x}) /\ In({x}) \cap In(s \ {x}) = {}
    BY <2>1
  <2>3. list[x] = Cardinality(In({x}))
    <3>1. In({x}) = {c \in C : h[c] = x}
      OBVIOUS
    <3> QED BY <2>1, <3>1
  <2>4. IsFiniteSet(In({x})) /\ IsFiniteSet(In(s \ {x}))
    BY <1>2, <2>1
  <2>5. /\ Cardinality(In({x})) \in Nat /\ Cardinality(In(s \ {x})) \in Nat
        /\ Cardinality(In({x}) \cap In(s \ {x})) = 0
    BY <1>2, <2>1, <2>2, FS_EmptySet
  <2> HIDE DEF In
  <2>6. Cardinality(In({x}) \cup In(s \ {x}))
          = Cardinality(In({x})) + Cardinality(In(s \ {x}))
              - Cardinality(In({x}) \cap In(s \ {x}))
    BY <2>4, FS_Union
  <2>7. Cardinality(In(s)) = list[x] + Cardinality(In(s \ {x}))
    <3> DEFINE p == Cardinality(In({x}))
               q == Cardinality(In(s \ {x}))
               o == Cardinality(In({x}) \cap In(s \ {x}))
    <3>1. Cardinality(In(s)) = p + q - o /\ p \in Nat /\ q \in Nat /\ o = 0 /\ list[x] = p
      BY <2>2, <2>3, <2>5, <2>6
    <3> HIDE DEF p, q, o
    <3>2. Cardinality(In(s)) = list[x] + q
      BY <3>1
    <3> QED BY <3>2 DEF q
  <2> QED BY <2>1, <2>7 DEF x
<1>4. In({}) = {} /\ Cardinality(In({})) = 0
  BY FS_EmptySet
<1>5. In(B) = C
  OBVIOUS
<1> HIDE DEF In, pick
<1>6. IsSum(size)
  <2>1. ASSUME NEW s \in SUBSET B PROVE Cardinality(In(s)) = Term(size, s)
    <3>1. CASE s = {}
      BY <1>4, <3>1
    <3>2. CASE s # {}
      BY <1>3, <3>2
    <3> QED BY <3>1, <3>2
  <2> HIDE DEF Term
  <2> QED BY <2>1
<1>7. IsSum(total)
  <2> HIDE DEF IsSum, size
  <2> QED BY <1>6
<1> HIDE DEF total
<1>8. \A s \in SUBSET B : total[s] = Term(total, s)
  <2> HIDE DEF Term
  <2> QED BY <1>7
<1>9. ASSUME NEW s \in SUBSET B PROVE total[s] = Cardinality(In(s))
  <2> DEFINE F == {u \in SUBSET B : total[u] # Cardinality(In(u))}
  <2>1. SUFFICES ASSUME F # {} PROVE FALSE
    OBVIOUS
  <2>2. PICK u \in F : \A v \in F : v \subseteq u => v = u
    <3>1. F \in SUBSET (SUBSET B)
      OBVIOUS
    <3> HIDE DEF F
    <3> QED BY <2>1, <3>1, FiniteMinimal
  <2>3. u # {}
    BY <1>4, <1>8, <2>2
  <2>4. /\ pick(u) \in u /\ u \ {pick(u)} \in SUBSET B
        /\ Cardinality(In(u)) = list[pick(u)] + Cardinality(In(u \ {pick(u)}))
    BY <1>3, <2>2, <2>3
  <2>5. total[u \ {pick(u)}] = Cardinality(In(u \ {pick(u)}))
    BY <2>2, <2>4
  <2> QED BY <1>8, <2>2, <2>3, <2>4, <2>5
<1> QED BY <1>1, <1>5, <1>9

\* At any time only finitely many alerts of a source are stored.
FiniteRows == \A s \in Source : IsFiniteSet({e \in Entity : Known(s, e)})

\* A feed lists finitely many, so it adds finitely many.
LEMMA FiniteRowsStep ==
  ASSUME EpisodeInv, FiniteRows, [NextReads]_readVars
  PROVE  FiniteRows'
<1>1. ASSUME NEW f \in AppliedRun, FeedArrives(f) PROVE FiniteRows'
  <2>1. /\ f.source \in Source /\ ApplyFeed(f)
        /\ \A e \in Entity : RowStep(alerts[f.source][e], alerts'[f.source][e],
                                     Listed(f)[e], ObservedAt(f))
        /\ \A s \in Source \ {f.source} : alerts'[s] = alerts[s]
    BY <1>1, ApplyFeedRows DEF FeedArrives
  <2> SUFFICES ASSUME NEW s \in Source PROVE IsFiniteSet({e \in Entity : Known(s, e)'})
    BY DEF FiniteRows
  <2>2. CASE s = f.source
    <3> DEFINE old == {e \in Entity : Known(s, e)}
               said == {e \in Entity : Listed(f)[e] # Missing}
    <3>1. {e \in Entity : Known(s, e)'} \in SUBSET (old \cup said)
      BY <2>1, <2>2 DEF Known, RowStep
    <3>2. IsFiniteSet(old) /\ IsFiniteSet(said)
      BY BodyAssumption DEF FiniteRows, Listed, AppliedRun
    <3>3. IsFiniteSet(old \cup said)
      BY <3>2, FS_Union
    <3> QED BY <3>1, <3>3, FS_Subset
  <2>3. CASE s # f.source
    <3>1. {e \in Entity : Known(s, e)'} = {e \in Entity : Known(s, e)}
      BY <2>1, <2>3 DEF Known
    <3> QED BY <3>1 DEF FiniteRows
  <2> QED BY <2>2, <2>3
<1>2. CASE UNCHANGED alerts
  BY <1>2 DEF FiniteRows, Known
<1> QED BY <1>1, <1>2 DEF NextReads, readVars, ImportArrives, ReadAlert, ReadLine, Finish,
           StartWalk, NextPage, FinishPage, Unread

\* So what a line counts is finite, and was seen at an instant.
LEMMA CategorizedFinite ==
  ASSUME EpisodeInv, FiniteRows, NEW s \in Source, NEW line \in Line
  PROVE  /\ IsFiniteSet(Categorized(s, line))
         /\ \A c \in Categorized(s, line) : c[3] \in Nat
<1> DEFINE known == {e \in Entity : Known(s, e)}
           row(e) == alerts[s][e]
           of(e) == {<<e, n, row(e).revisions[n].first_seen_at>> : n \in Numbers(row(e))}
           all == {of(e) : e \in known}
           ofLine == LineContents(network, line)
<1>1. ASSUME NEW e \in known
      PROVE  /\ row(e) \in Alert /\ Numbers(row(e)) = 1..Len(row(e).revisions)
             /\ Len(row(e).revisions) \in Nat
             /\ \A n \in Numbers(row(e)) : row(e).revisions[n].first_seen_at \in Nat
  <2>1. row(e) \in Alert
    BY DEF EpisodeInv, Inv, TypeOK, Known
  <2>2. row(e).revisions \in Seq(Revision)
    BY <2>1 DEF Alert
  <2>3. Numbers(row(e)) = 1..Len(row(e).revisions) /\ Len(row(e).revisions) \in Nat
    BY <2>2 DEF Numbers
  <2>4. \A n \in Numbers(row(e)) : row(e).revisions[n] \in Revision
    BY <2>2, <2>3
  <2> QED BY <2>1, <2>3, <2>4, TimeAssumption DEF Revision
<1>2. ASSUME NEW e \in known PROVE IsFiniteSet(of(e))
  <2> DEFINE N == Numbers(row(e))
             g == [n \in N |-> <<e, n, row(e).revisions[n].first_seen_at>>]
  <2>1. IsFiniteSet(N)
    <3> DEFINE L == Len(row(e).revisions)
    <3>1. N = 1..L /\ L \in Nat
      BY <1>1
    <3> HIDE DEF N, L
    <3>2. IsFiniteSet(1..L)
      BY <3>1, FS_Interval
    <3> QED BY <3>1, <3>2
  <2>2. g \in Surjection(N, of(e))
    BY DEF Surjection
  <2> QED BY <2>1, <2>2, FS_Surjection
<1>3. IsFiniteSet(UNION all)
  <2> DEFINE g == [e \in known |-> of(e)]
  <2>1. g \in Surjection(known, all)
    BY DEF Surjection
  <2>2. IsFiniteSet(known)
    BY DEF FiniteRows
  <2>3. IsFiniteSet(all)
    BY <2>1, <2>2, FS_Surjection
  <2>4. \A K \in all : IsFiniteSet(K)
    BY <1>2
  <2> HIDE DEF all
  <2> QED BY <2>3, <2>4, FS_UNION
<1>4. ASSUME NEW c \in Categorized(s, line)
      PROVE  c \in UNION all /\ c[3] \in Nat
  <2>1. \A e \in Entity : RowInOrder(alerts[s][e])
    BY DEF EpisodeInv, RowsTell, RowTells
  <2>2. c \in CategorizedRows(alerts[s], ofLine)
    BY CategorizedNow
  <2> HIDE DEF ofLine
  <2>3. PICK e \in Entity : /\ alerts[s][e] # NoAlert
                            /\ \E n : /\ FirstConcern(ofLine, alerts[s][e], n)
                                      /\ c = <<e, n, alerts[s][e].revisions[n].first_seen_at>>
    BY <2>1, <2>2, CategorizedIs
  <2>4. PICK n : /\ FirstConcern(ofLine, alerts[s][e], n)
                 /\ c = <<e, n, alerts[s][e].revisions[n].first_seen_at>>
    BY <2>3
  <2>5. e \in known /\ n \in Numbers(row(e))
    BY <2>3, <2>4 DEF Known, FirstConcern, Concerns
  <2>6. c \in of(e)
    BY <2>4, <2>5
  <2> QED BY <1>1, <2>4, <2>5, <2>6
<1>5. Categorized(s, line) \in SUBSET (UNION all)
  BY <1>4
<1> QED BY <1>3, <1>4, <1>5, FS_Subset

\* For any feeds, weeks and windows, the buckets made in Go are those of
\* generate_series, and the points of a line's series add up to the episodes
\* counted in the window (analyticsBuckets, queryLineAnalytics).
THEOREM SeriesAlwaysAddUp == ReadsSpec => []SeriesAddUp
<1>1. InitReads => FiniteRows
  <2> SUFFICES ASSUME InitReads, NEW s \in Source
               PROVE  IsFiniteSet({e \in Entity : Known(s, e)})
    BY DEF FiniteRows
  <2>1. {e \in Entity : Known(s, e)} = {}
    BY DEF InitReads, InitEpisodes, Init, Known
  <2> QED BY <2>1, FS_EmptySet
<1>2. EpisodeInv /\ FiniteRows => SeriesAddUp
  <2> SUFFICES ASSUME EpisodeInv, FiniteRows, NEW s \in Source, NEW line \in Line,
                      NEW from \in Time, NEW to \in Time, NEW interval \in {"day", "week"},
                      from < to
               PROVE  LET counted == Within(Categorized(s, line), from, to)
                          list == Series(counted, interval, AnalyticsBuckets(interval, from, to))
                      IN  /\ list = Series(counted, interval, GenerateSeries(interval, from, to))
                          /\ MapThenSumSet(LAMBDA b : list[b], DOMAIN list) = Cardinality(counted)
    BY DEF SeriesAddUp
  <2> DEFINE C == Within(Categorized(s, line), from, to)
             B == AnalyticsBuckets(interval, from, to)
             h == [c \in C |-> DateTrunc(interval, c[3])]
             list == Series(C, interval, B)
  <2>1. from \in Nat /\ to \in Nat
    BY TimeAssumption
  <2>2. /\ B = GenerateSeries(interval, from, to) /\ IsFiniteSet(B)
        /\ \A t \in from..(to - 1) : DateTrunc(interval, t) \in B
    BY <2>1, BucketsAgree
  <2>3. C \in SUBSET Categorized(s, line) /\ \A c \in C : c[3] \in from..(to - 1)
    BY <2>1, CategorizedFinite DEF Within
  <2>4. IsFiniteSet(C)
    BY <2>3, CategorizedFinite, FS_Subset
  <2> HIDE DEF C, B
  <2>5. h \in [C -> B]
    BY <2>2, <2>3
  <2>6. list = [b \in B |-> Cardinality({c \in C : h[c] = b})]
    <3>1. \A b : {c \in C : DateTrunc(interval, c[3]) = b} = {c \in C : h[c] = b}
      OBVIOUS
    <3> HIDE DEF h
    <3> QED BY <3>1 DEF Series
  <2>7. DOMAIN list = B
    BY DEF Series
  <2> HIDE DEF h, list
  <2>8. Total(list, B) = Cardinality(C)
    BY <2>2, <2>4, <2>5, <2>6, CountsAddUp
  <2>9. MapThenSumSet(LAMBDA b : list[b], DOMAIN list) = Cardinality(C)
    BY <2>7, <2>8 DEF Total, MapThenSumSet, MapThenFoldSet
  <2> QED BY <2>2, <2>9 DEF C, B, list
<1> QED BY <1>1, <1>2, FiniteRowsStep, ReadsKeepHistory, PTL DEF ReadsSpec

=============================================================================
