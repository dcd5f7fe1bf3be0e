--------------------------- MODULE AlertEpisodes ----------------------------
(***************************************************************************)
(* The episode views behind the analytics API (migration 00005): how the   *)
(* revisions of an alert are grouped into continuous appearances, and what *)
(* those episodes say of the feeds that were really applied.  The state is *)
(* AlertHistory's, with the order of application remembered.               *)
(***************************************************************************)
EXTENDS AlertHistory, FiniteSetsExt

CONSTANT Deleted   \* the contents with is_deleted set

ASSUME DeletedAssumption == Deleted \subseteq Content

VARIABLE feeds     \* feeds[s]: the runs applied to s, in order; history only

episodeVars == <<alerts, applied, feeds>>

InitEpisodes == Init /\ feeds = [s \in Source |-> <<>>]

ApplyFeed(f) == Apply(f) /\ feeds' = [feeds EXCEPT ![f.source] = Append(@, f)]

NextEpisodes == \E f \in AppliedRun : ApplyFeed(f)

EpisodeSpec == InitEpisodes /\ [][NextEpisodes]_episodeVars

-----------------------------------------------------------------------------
(* alert_revision_episode_membership and alert_episodes, for one alert.    *)

Numbers(a) == 1..Len(a.revisions)

IsDeleted(v) == v.content \in Deleted

\* ORDER BY first_seen_at, revision_number.
Precedes(a, m, n) ==
  \/ a.revisions[m].first_seen_at < a.revisions[n].first_seen_at
  \/ a.revisions[m].first_seen_at = a.revisions[n].first_seen_at /\ m < n

\* lag(): the row just before n, as a set of at most one.
Lag(a, n) ==
  LET before == {m \in Numbers(a) : Precedes(a, m, n)}
  IN  {m \in before : \A k \in before \ {m} : Precedes(a, k, m)}

\* Mutant: a gap between revisions does not start an episode.
StartsEpisodeNoGap(a, n) ==
  \/ Lag(a, n) = {}
  \/ \E m \in Lag(a, n) : IsDeleted(a.revisions[m]) /\ ~ IsDeleted(a.revisions[n])

StartsEpisode(a, n) ==
  \/ Lag(a, n) = {}
  \/ \E m \in Lag(a, n) :
       \/ IsDeleted(a.revisions[m]) /\ ~ IsDeleted(a.revisions[n])
       \/ a.revisions[m].closed_at # a.revisions[n].first_seen_at

\* The running sum over the window.
EpisodeNumber(a, n) ==
  Cardinality({m \in Numbers(a) : (m = n \/ Precedes(a, m, n)) /\ StartsEpisode(a, m)})

Episodes(a) == {{n \in Numbers(a) : EpisodeNumber(a, n) = k} :
                  k \in {EpisodeNumber(a, n) : n \in Numbers(a)}}

EpisodeFirstSeen(a, ep) == Min({a.revisions[n].first_seen_at : n \in ep})

DeletedIn(a, ep) == {n \in ep : IsDeleted(a.revisions[n])}

\* Mutant: a deletion notice counts as a sighting.
EpisodeLastSeenDeleted(a, ep) == Max({a.revisions[n].last_seen_at : n \in ep})

EpisodeLastSeen(a, ep) ==
  IF DeletedIn(a, ep) # {} THEN EpisodeFirstSeen(a, DeletedIn(a, ep))
  ELSE Max({a.revisions[n].last_seen_at : n \in ep})

\* The closing time of the episode's final revision, NULL while it is open.
EpisodeClosedAt(a, ep) ==
  IF DeletedIn(a, ep) # {} THEN EpisodeFirstSeen(a, DeletedIn(a, ep))
  ELSE LET final == CHOOSE n \in ep : \A m \in ep \ {n} : Precedes(a, m, n)
       IN  a.revisions[final].closed_at

\* The analytics queries count the episodes that have a revision that is not
\* deleted, and take durations from the closed ones.
CountedEpisodes(a) == {ep \in Episodes(a) : ep # DeletedIn(a, ep)}

CompletedSpans(a) ==
  {<<EpisodeFirstSeen(a, ep), EpisodeLastSeen(a, ep)>> :
     ep \in {p \in CountedEpisodes(a) : EpisodeClosedAt(a, p) # NoTime}}

-----------------------------------------------------------------------------
(* What really happened, from the applied feeds.                           *)

Says(s, e, i) == Listed(feeds[s][i])[e]

\* At position i the feed shows the alert, and does not call it deleted.
Live(s, e, i) == i \in 1..Len(feeds[s]) /\ Says(s, e, i) \in Content \ Deleted

\* Maximal intervals of positions at which the alert is live.
Appearances(s, e) ==
  {p \in (1..Len(feeds[s])) \X (1..Len(feeds[s])) :
     /\ \A i \in p[1]..p[2] : Live(s, e, i)
     /\ p[1] <= p[2] /\ ~ Live(s, e, p[1] - 1) /\ ~ Live(s, e, p[2] + 1)}

\* From the first sighting to the last, or to the first notice of deletion if
\* the next feed has one.
ObservedSpan(s, e, p) ==
  LET next == p[2] + 1
      end  == IF Says(s, e, next) \in Deleted THEN next ELSE p[2]
  IN  <<ObservedAt(feeds[s][p[1]]), ObservedAt(feeds[s][end])>>

EndedAppearances(s, e) == {p \in Appearances(s, e) : p[2] < Len(feeds[s])}

EndedSpans(s, e) == {ObservedSpan(s, e, p) : p \in EndedAppearances(s, e)}

\* No two feeds of the source were observed at the same time.
Distinct(s) ==
  \A i, j \in 1..Len(feeds[s]) :
    ObservedAt(feeds[s][i]) = ObservedAt(feeds[s][j]) => i = j

Count(s, e) == IF Known(s, e) THEN Cardinality(CountedEpisodes(alerts[s][e])) ELSE 0

-----------------------------------------------------------------------------

(***************************************************************************)
(* The views rebuild the alert's appearances from its revisions alone: one *)
(* counted episode per maximal run of feeds that showed the alert, also    *)
(* through changes of content, deletion notices and returns, when no two   *)
(* feeds share an observation time; with equal times appearances can merge *)
(* but none is ever invented.                                              *)
(***************************************************************************)
EpisodesAreAppearances ==
  \A s \in Source, e \in Entity :
    /\ Count(s, e) <= Cardinality(Appearances(s, e))
    /\ Distinct(s) => Count(s, e) = Cardinality(Appearances(s, e))

(***************************************************************************)
(* The durations analytics reports are what alert_episodes defines them to *)
(* be (00005:182-186 and the test of the view): an appearance that ended   *)
(* by vanishing spans from the first feed that showed the alert to the     *)
(* last, without the feed that missed it; one that ended by a notice of    *)
(* deletion spans to the first notice, without its repetitions, and so to  *)
(* a time later than DurationsEndAtLastAppearance says.                    *)
(***************************************************************************)
SpansAreObserved ==
  \A s \in Source, e \in Entity :
    Known(s, e) /\ Distinct(s) => CompletedSpans(alerts[s][e]) = EndedSpans(s, e)

(***************************************************************************)
(* analyticsMetricLimitations: "For alerts that ended, duration runs from  *)
(* the first to the last time the alert appeared. It does not include the  *)
(* time needed to confirm that the alert had ended."                       *)
(***************************************************************************)
DurationsEndAtLastAppearance ==
  \A s \in Source, e \in Entity :
    Known(s, e) /\ Distinct(s) =>
      CompletedSpans(alerts[s][e]) =
        {<<ObservedAt(feeds[s][p[1]]), ObservedAt(feeds[s][p[2]])>> : p \in EndedAppearances(s, e)}

(***************************************************************************)
(* analyticsMetricLimitations: "An alert is counted once each time it      *)
(* appears. If it disappears and later returns, it is counted again."      *)
(***************************************************************************)
ReturnsAreCountedAgain ==
  \A s \in Source, e \in Entity : Count(s, e) = Cardinality(Appearances(s, e))

=============================================================================
