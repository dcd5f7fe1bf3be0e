----------------------------- MODULE GTFSProofs -----------------------------
(***************************************************************************)
(* The timetable's two halves, for archives of any size and for any number *)
(* of workers, downloads and faults.  The parser (internal/gtfs/parse.go): *)
(* what it accepts the tables accept, the station of a stop is the one the *)
(* views find, and no CSV record is longer than the limit.  The import:    *)
(* what its run checks as invariants, that it implements GTFSNetwork, and  *)
(* that the network therefore never regresses.                             *)
(***************************************************************************)
EXTENDS GTFSParse, RecordLimit, GTFSImport, FiniteSetTheorems, WellFoundedInduction, TLAPS

-----------------------------------------------------------------------------
(* Least elements.  The library's induction theorems take a predicate as a *)
(* parameter; these two, which have none, are what the proofs below use.   *)

\* A nonempty family of subsets of a finite set has a minimal member.
LEMMA FiniteMinimal ==
  ASSUME NEW S, IsFiniteSet(S), NEW F \in SUBSET (SUBSET S), F # {}
  PROVE  \E T \in F : \A U \in F : U \subseteq T => U = T
<1> DEFINE R == StrictSubsetOrdering(S)
<1>1. IsWellFoundedOn(R, FiniteSubsetsOf(S)) /\ FiniteSubsetsOf(S) = SUBSET S
  BY FS_StrictSubsetOrderingWellFounded, FS_FiniteSubsetsOfFinite
<1> HIDE DEF R
<1>2. PICK T \in F : \A U \in F : ~ (<<U, T>> \in R)
  BY <1>1, WFMin
<1>3. \A U \in F : U \subseteq T => U = T
  BY <1>2 DEF R, StrictSubsetOrdering
<1> QED BY <1>3

\* A nonempty set of natural numbers has a least one.
LEMMA LeastNatural ==
  ASSUME NEW T \in SUBSET Nat, T # {}
  PROVE  \E x \in T : \A y \in T : x <= y
<1>1. PICK n \in T : TRUE
  OBVIOUS
<1> DEFINE S == 0..n
           F == {0..k : k \in {k \in T : k <= n}}
<1>2. IsFiniteSet(S)
  BY FS_Interval
<1>3. \A k \in T : k \in Nat /\ n \in Nat /\ (k <= n => 0..k \subseteq 0..n)
  OBVIOUS
<1>4. F \in SUBSET (SUBSET S) /\ F # {}
  <2>1. 0..n \in F
    BY <1>3
  <2>2. \A I \in F : I \subseteq 0..n
    BY <1>3
  <2> QED BY <2>1, <2>2
<1> HIDE DEF F, S
<1>5. PICK I \in F : \A J \in F : J \subseteq I => J = I
  BY <1>2, <1>4, FiniteMinimal
<1>6. PICK x \in T : x <= n /\ I = 0..x
  BY DEF F
<1>7. ASSUME NEW y \in T, ~ (x <= y) PROVE FALSE
  <2>1. y < x /\ y <= n /\ x \in Nat /\ y \in Nat
    BY <1>6, <1>7
  <2>2. 0..y \in F /\ 0..y \subseteq 0..x
    BY <2>1 DEF F
  <2>3. x \in 0..x /\ x \notin 0..y
    BY <2>1
  <2> QED BY <1>5, <1>6, <2>2, <2>3
<1> QED BY <1>7

-----------------------------------------------------------------------------
(* ParseArchive and the tables.                                            *)

\* stops.txt was read and its parents were checked.
StopsChecked == stage \in {"trips", "stop_times", "accepted", "loaded", "refused"}

\* AcceptedIsLoadable is about the end of the parse.  On the way there ids
\* stay distinct, which makes StopOf the stop itself; relations are made only
\* when the stops they speak of no longer change.
ParseInv ==
  /\ ParseTypeOK
  /\ RoutesAccept /\ Unique([n \in DOMAIN stops |-> stops[n].id])
  /\ Len(stops) <= MaxStopRecords
  /\ StopsChecked => \A id \in StopIds : ParentAllowed(id)
  /\ \A t \in Trips : trips[t] \in RouteIds
  /\ stage \in {"routes", "stops", "trips"} => relations = {}
  /\ stage = "routes" => stops = <<>>
  /\ stage \in {"routes", "stops"} => Trips = {}
  /\ RouteStationsAccept
  /\ stage = "refused" => ~ fits

\* The ids of the stops read are ids.
LEMMA StopIdsTyped ==
  ASSUME ParseTypeOK
  PROVE  StopIds \subseteq StopId
<1> SUFFICES ASSUME NEW n \in DOMAIN stops PROVE stops[n].id \in StopId
  BY DEF StopIds
<1>1. stops[n] \in Stop
  BY DEF ParseTypeOK
<1> QED BY <1>1 DEF Stop

\* Where ids are distinct, a stop is found by its id.
LEMMA StopFound ==
  ASSUME ParseTypeOK, Unique([n \in DOMAIN stops |-> stops[n].id]), NEW n \in DOMAIN stops
  PROVE  StopOf(stops[n].id) = stops[n]
<1>1. \A m \in DOMAIN stops : stops[m].id = stops[n].id => m = n
  BY DEF Unique
<1>2. \A s \in {stops[m] : m \in DOMAIN stops} : s.id = stops[n].id => s = stops[n]
  BY <1>1
<1> QED BY <1>2 DEF StopOf

\* What ParentAllowed says of every stop is what the CHECKs and the deferred
\* foreign key of the stops table ask for.
LEMMA CheckedStopsAccepted ==
  ASSUME ParseInv, StopsChecked
  PROVE  StopsAccept
<1> SUFFICES ASSUME NEW n \in DOMAIN stops
    PROVE  LET stop == stops[n]
               expected == IF stop.location_type = 4 THEN 0 ELSE 1
           IN  /\ stop.location_type \in 0..4
               /\ stop.location_type = 1 => stop.parent_station = NoId
               /\ stop.location_type \in {2, 3, 4} => stop.parent_station # NoId
               /\ stop.parent_station # NoId =>
                    \E p \in DOMAIN stops :
                      /\ stops[p].id = stop.parent_station
                      /\ stops[p].location_type = expected
  BY DEF ParseInv, StopsAccept
<1> DEFINE id == stops[n].id
<1>1. /\ stops[n] \in Stop /\ id \in StopIds
      /\ LocationType(id) = stops[n].location_type
      /\ Parent(id) = stops[n].parent_station
  BY StopFound DEF ParseInv, ParseTypeOK, StopIds, LocationType, Parent
<1>2. \A p \in StopIds : \E m \in DOMAIN stops :
        stops[m].id = p /\ stops[m].location_type = LocationType(p)
  BY StopFound DEF ParseInv, StopIds, LocationType
<1>3. NoId \notin StopIds
  BY ParseAssumption, StopIdsTyped DEF ParseInv
<1>4. stops[n].location_type \in 0..4 /\ ParentAllowed(id)
  BY <1>1 DEF ParseInv, Stop
<1>5. /\ stops[n].location_type = 0 =>
           \/ stops[n].parent_station = NoId
           \/ stops[n].parent_station \in StopIds /\ LocationType(stops[n].parent_station) = 1
      /\ stops[n].location_type = 1 => stops[n].parent_station = NoId
      /\ stops[n].location_type \in {2, 3} =>
           stops[n].parent_station \in StopIds /\ LocationType(stops[n].parent_station) = 1
      /\ stops[n].location_type = 4 =>
           stops[n].parent_station \in StopIds /\ LocationType(stops[n].parent_station) = 0
  BY <1>1, <1>4 DEF ParentAllowed
<1> QED BY <1>2, <1>3, <1>4, <1>5

\* A record appended to a list of distinct ids keeps them distinct.
LEMMA AppendUnique ==
  ASSUME NEW S, NEW ids \in Seq(S), NEW id \in S, Unique(ids),
         id \notin {ids[n] : n \in DOMAIN ids}
  PROVE  Unique(Append(ids, id))
<1>1. DOMAIN Append(ids, id) = 1..Len(ids) + 1 /\ DOMAIN ids = 1..Len(ids) /\ Len(ids) \in Nat
  OBVIOUS
<1>2. \A n \in 1..Len(ids) + 1 :
        Append(ids, id)[n] = IF n = Len(ids) + 1 THEN id ELSE ids[n]
  BY <1>1
<1> QED BY <1>1, <1>2 DEF Unique

\* A step that changes only the stage keeps the invariant.
LEMMA StageStep ==
  ASSUME ParseInv, UNCHANGED dataset,
         stage' \in {"stops", "trips", "stop_times", "accepted", "rejected", "loaded", "refused"},
         stage' = "stops" => stage = "routes",
         stage' = "trips" => stage \in {"stops", "trips"} /\ StopsAllowed,
         stage' \in {"stop_times", "accepted", "loaded", "refused"} => StopsChecked,
         stage' = "refused" => ~ fits
  PROVE  ParseInv'
<1>1. /\ routes' = routes /\ stops' = stops /\ fits' = fits /\ trips' = trips
      /\ stopTimes' = stopTimes /\ relations' = relations
  BY DEF dataset
<1>2. /\ RouteIds' = RouteIds /\ StopIds' = StopIds /\ Trips' = Trips
      /\ \A id : LocationType(id)' = LocationType(id) /\ Parent(id)' = Parent(id)
  BY <1>1 DEF RouteIds, StopIds, Trips, LocationType, Parent, StopOf
<1>3. Stations' = Stations /\ \A id : ParentAllowed(id)' <=> ParentAllowed(id)
  BY <1>2 DEF Stations, ParentAllowed
<1>4. ParseTypeOK'
  BY <1>1 DEF ParseInv, ParseTypeOK
<1>5. StopsChecked' => \A id \in StopIds' : ParentAllowed(id)'
  BY <1>2, <1>3 DEF ParseInv, StopsChecked, StopsAllowed
<1>6. /\ stage' \in {"routes", "stops", "trips"} => relations' = {}
      /\ stage' = "routes" => stops' = <<>>
      /\ stage' \in {"routes", "stops"} => Trips' = {}
  BY <1>1, <1>2 DEF ParseInv
<1>7. RoutesAccept' /\ Unique([n \in DOMAIN stops' |-> stops'[n].id]) /\ RouteStationsAccept'
  BY <1>1, <1>2, <1>3 DEF ParseInv, RoutesAccept, RouteStationsAccept
<1>8. \A t \in Trips' : trips'[t] \in RouteIds'
  BY <1>1, <1>2 DEF ParseInv
<1> QED BY <1>1, <1>4, <1>5, <1>6, <1>7, <1>8 DEF ParseInv

\* Giving up keeps the invariant, wherever it happens.
LEMMA RejectStep ==
  ASSUME ParseInv, Reject
  PROVE  ParseInv'
BY StageStep DEF Reject, GoTo

\* A route record: appended or rejected.
LEMMA RouteStep ==
  ASSUME ParseInv, NEW row \in RouteRow, ParseRoute(row)
  PROVE  ParseInv'
<1>1. CASE RouteAllowed(row) /\ routes' = Append(routes, row.route_id)
           /\ fits' = (fits /\ row.fits)
           /\ UNCHANGED <<stage, stops, trips, stopTimes, relations>>
  <2>1. stage = "routes" /\ row.route_id \in RouteId /\ row.fits \in BOOLEAN
    BY <1>1 DEF ParseRoute, RouteRow, RouteAllowed
  <2>2. RoutesAccept'
    BY <1>1, <2>1, AppendUnique DEF ParseInv, ParseTypeOK, RoutesAccept, RouteAllowed, RouteIds,
        Unique
  <2>3. routes' \in Seq(RouteId) /\ RouteIds \subseteq RouteIds'
    BY <1>1, <2>1 DEF ParseInv, ParseTypeOK, RouteIds
  <2>4. ParseTypeOK'
    BY <1>1, <2>1, <2>3 DEF ParseInv, ParseTypeOK
  <2>5. relations' = {} /\ Trips' = {} /\ stops' = <<>>
    BY <1>1, <2>1 DEF ParseInv, Trips
  <2>6. Unique([n \in DOMAIN stops' |-> stops'[n].id]) /\ Len(stops') <= MaxStopRecords
    BY <1>1 DEF ParseInv
  <2> QED
    BY <1>1, <2>1, <2>2, <2>4, <2>5, <2>6 DEF ParseInv, StopsChecked, RouteStationsAccept
<1>2. CASE Reject
  BY <1>2, RejectStep
<1> QED BY <1>1, <1>2 DEF ParseRoute

\* A stop record: appended to distinct ones, or rejected.
LEMMA StopStep ==
  ASSUME ParseInv, NEW row \in StopRow, ParseStop(row)
  PROVE  ParseInv'
<1> DEFINE new == [id |-> row.stop_id, location_type |-> row.location_type,
                   parent_station |-> row.parent_station]
<1>1. CASE /\ StopAllowed(row) /\ stops' = Append(stops, new) /\ fits' = (fits /\ row.fits)
           /\ UNCHANGED <<stage, routes, trips, stopTimes, relations>>
  <2>1. stage = "stops" /\ new \in Stop /\ row.fits \in BOOLEAN /\ new.id \notin StopIds
    BY <1>1 DEF ParseStop, StopRow, StopAllowed, Stop
  <2>2. stops \in Seq(Stop) /\ stops' \in Seq(Stop)
    BY <1>1, <2>1 DEF ParseInv, ParseTypeOK
  <2>3. Unique([n \in DOMAIN stops' |-> stops'[n].id])
    <3>1. \A m, n \in 1..Len(stops) : stops[m].id = stops[n].id => m = n
      BY <2>2 DEF ParseInv, Unique
    <3>2. \A m \in 1..Len(stops) : stops[m].id # new.id
      BY <2>1, <2>2 DEF StopIds
    <3>3. DOMAIN stops' = 1..Len(stops) + 1 /\ Len(stops) \in Nat
      BY <1>1, <2>1, <2>2
    <3>4. \A m \in 1..Len(stops) + 1 :
            stops'[m] = IF m = Len(stops) + 1 THEN new ELSE stops[m]
      BY <1>1, <2>1, <2>2
    <3>5. \A m, n \in 1..Len(stops) + 1 : stops'[m].id = stops'[n].id => m = n
      BY <3>1, <3>2, <3>3, <3>4
    <3> HIDE DEF new
    <3> QED BY <3>3, <3>5 DEF Unique
  <2>4. ParseTypeOK'
    BY <1>1, <2>1, <2>2 DEF ParseInv, ParseTypeOK
  <2>5. relations' = {} /\ Trips' = {} /\ routes' = routes
    BY <1>1, <2>1 DEF ParseInv, Trips
  <2>6. Len(stops') <= MaxStopRecords
    BY <1>1, <2>2, ParseAssumption DEF StopAllowed
  <2> QED
    BY <1>1, <2>1, <2>3, <2>4, <2>5, <2>6
       DEF ParseInv, StopsChecked, RouteStationsAccept, RoutesAccept
<1>2. CASE Reject
  BY <1>2, RejectStep
<1> QED BY <1>1, <1>2 DEF ParseStop

\* A trip record names a route that was read, or is rejected.
LEMMA TripStep ==
  ASSUME ParseInv, NEW row \in TripRow, ParseTrip(row)
  PROVE  ParseInv'
<1>1. CASE /\ TripAllowed(row) /\ trips' = [trips EXCEPT ![row.trip_id] = row.route_id]
           /\ UNCHANGED <<stage, routes, stops, fits, stopTimes, relations>>
  <2>1. /\ stage = "trips" /\ row.trip_id \in TripId /\ row.route_id \in RouteIds
        /\ trips \in [TripId -> RouteId \cup {NoId}]
    BY <1>1 DEF ParseTrip, TripRow, TripAllowed, ParseInv, ParseTypeOK
  <2>2. RouteIds \subseteq RouteId
    BY DEF ParseInv, ParseTypeOK, RouteIds
  <2>3. ParseTypeOK'
    BY <1>1, <2>1, <2>2 DEF ParseInv, ParseTypeOK
  <2>4. /\ RouteIds' = RouteIds /\ StopIds' = StopIds
        /\ \A id : LocationType(id)' = LocationType(id) /\ Parent(id)' = Parent(id)
    BY <1>1 DEF RouteIds, StopIds, LocationType, Parent, StopOf
  <2>5. \A t \in Trips' : trips'[t] \in RouteIds'
    BY <1>1, <2>1, <2>4 DEF ParseInv, Trips
  <2>6. \A id \in StopIds' : ParentAllowed(id)'
    BY <2>1, <2>4 DEF ParseInv, StopsChecked, ParentAllowed
  <2>7. relations' = {} /\ stage' = "trips"
    BY <1>1, <2>1 DEF ParseInv
  <2>8. /\ RoutesAccept' /\ Unique([n \in DOMAIN stops' |-> stops'[n].id])
        /\ Len(stops') <= MaxStopRecords
    BY <1>1 DEF ParseInv, RoutesAccept
  <2> QED BY <2>3, <2>5, <2>6, <2>7, <2>8 DEF ParseInv, RouteStationsAccept
<1>2. CASE Reject
  BY <1>2, RejectStep
<1> QED BY <1>1, <1>2 DEF ParseTrip

\* A stop time adds a relation between a route and a station, or is rejected.
LEMMA StopTimeStep ==
  ASSUME ParseInv, NEW row \in StopTimeRow, ParseStopTime(row)
  PROVE  ParseInv'
<1>1. CASE /\ StopTimeAllowed(row) /\ stopTimes' = stopTimes + 1
           /\ relations' = RelationsWith(row)
           /\ UNCHANGED <<stage, routes, stops, fits, trips>>
  <2>1. /\ stage = "stop_times" /\ row.trip_id \in Trips
        /\ StopStation(row.stop_id) \subseteq Stations
    BY <1>1 DEF ParseStopTime, StopTimeAllowed
  <2>2. trips[row.trip_id] \in RouteIds
    BY <2>1 DEF ParseInv
  <2>3. relations' \subseteq RouteIds \X Stations
    BY <1>1, <2>1, <2>2 DEF ParseInv, RouteStationsAccept, RelationsWith
  <2>4. RouteIds \subseteq RouteId /\ Stations \subseteq StopId
    BY StopIdsTyped DEF ParseInv, ParseTypeOK, RouteIds, Stations
  <2>5. stopTimes' \in 0..MaxStopTimeRows
    BY <1>1, ParseAssumption DEF ParseInv, ParseTypeOK, StopTimeAllowed
  <2>6. ParseTypeOK'
    BY <1>1, <2>3, <2>4, <2>5 DEF ParseInv, ParseTypeOK
  <2>7. /\ RouteIds' = RouteIds /\ StopIds' = StopIds /\ Trips' = Trips
        /\ \A id : LocationType(id)' = LocationType(id) /\ Parent(id)' = Parent(id)
    BY <1>1 DEF RouteIds, StopIds, Trips, LocationType, Parent, StopOf
  <2>8. RouteStationsAccept'
    BY <2>3, <2>7 DEF RouteStationsAccept, Stations
  <2>9. \A id \in StopIds' : ParentAllowed(id)'
    BY <2>1, <2>7 DEF ParseInv, StopsChecked, ParentAllowed
  <2>10. /\ RoutesAccept' /\ Unique([n \in DOMAIN stops' |-> stops'[n].id])
         /\ \A t \in Trips' : trips'[t] \in RouteIds'
         /\ Len(stops') <= MaxStopRecords
    BY <1>1, <2>7 DEF ParseInv, RoutesAccept
  <2>11. stage' = "stop_times"
    BY <1>1, <2>1
  <2> QED BY <2>6, <2>8, <2>9, <2>10, <2>11 DEF ParseInv
<1>2. CASE Reject
  BY <1>2, RejectStep
<1> QED BY <1>1, <1>2 DEF ParseStopTime

\* The ends of the files, failures to read and the insertion.
LEMMA EndStep ==
  ASSUME ParseInv,
         EndRoutes \/ EndStops \/ EndTrips \/ EndStopTimes \/ ReadFails \/ Load
  PROVE  ParseInv'
<1>1. CASE EndRoutes
  BY <1>1, StageStep DEF EndRoutes, GoTo
<1>2. CASE EndStops
  BY <1>2, StageStep, RejectStep DEF EndStops, GoTo
<1>3. CASE EndTrips
  BY <1>3, StageStep DEF EndTrips, GoTo, StopsChecked
<1>4. CASE EndStopTimes
  BY <1>4, StageStep, RejectStep DEF EndStopTimes, GoTo, StopsChecked
<1>5. CASE ReadFails
  BY <1>5, RejectStep DEF ReadFails
<1>6. CASE Load
  <2>1. stage = "accepted" /\ StopsChecked
    BY <1>6 DEF Load, StopsChecked
  <2>2. Constraints
    BY <2>1, CheckedStopsAccepted DEF ParseInv, Constraints
  <2> QED BY <1>6, <2>1, <2>2, StageStep DEF Load, GoTo
<1> QED BY <1>1, <1>2, <1>3, <1>4, <1>5, <1>6

\* The invariant holds in every reachable state of a parse.
THEOREM ParseInvariant == ParseSpec => []ParseInv
<1>1. ParseInit => ParseInv
  <2> SUFFICES ASSUME ParseInit PROVE ParseInv
    OBVIOUS
  <2>1. ParseTypeOK
    BY ParseAssumption DEF ParseInit, ParseTypeOK
  <2>2. RoutesAccept /\ Unique([n \in DOMAIN stops |-> stops[n].id])
    BY DEF ParseInit, RoutesAccept, Unique
  <2>3. Trips = {} /\ relations = {} /\ stops = <<>> /\ stage = "routes"
        /\ Len(stops) <= MaxStopRecords
    BY ParseAssumption DEF ParseInit, Trips
  <2> QED BY <2>1, <2>2, <2>3 DEF ParseInv, StopsChecked, RouteStationsAccept
<1>2. ParseInv /\ [ParseNext]_parseVars => ParseInv'
  <2> SUFFICES ASSUME ParseInv, [ParseNext]_parseVars PROVE ParseInv'
    OBVIOUS
  <2>1. CASE ParseNext
    BY <2>1, RouteStep, StopStep, TripStep, StopTimeStep, EndStep DEF ParseNext
  <2>2. CASE UNCHANGED parseVars
    <3>1. /\ stage' = stage /\ routes' = routes /\ stops' = stops /\ fits' = fits
          /\ trips' = trips /\ stopTimes' = stopTimes /\ relations' = relations
      BY <2>2 DEF parseVars
    <3>2. /\ RouteIds' = RouteIds /\ StopIds' = StopIds /\ Trips' = Trips
          /\ \A id : LocationType(id)' = LocationType(id) /\ Parent(id)' = Parent(id)
      BY <3>1 DEF RouteIds, StopIds, Trips, LocationType, Parent, StopOf
    <3>3. /\ Stations' = Stations /\ \A id : ParentAllowed(id)' <=> ParentAllowed(id)
          /\ ParseTypeOK'
      BY <3>1, <3>2 DEF Stations, ParentAllowed, ParseInv, ParseTypeOK
    <3> QED
      BY <3>1, <3>2, <3>3 DEF ParseInv, RoutesAccept, StopsChecked, RouteStationsAccept
  <2> QED BY <2>1, <2>2
<1> QED BY <1>1, <1>2, PTL DEF ParseSpec

\* AcceptedIsLoadable: for archives of any size, the keys, CHECKs and foreign
\* keys of migration 00003 accept whatever ParseArchive accepted.
THEOREM AcceptedAlwaysLoadable == ParseSpec => []AcceptedIsLoadable
<1>1. ParseInv => AcceptedIsLoadable
  <2> SUFFICES ASSUME ParseInv PROVE AcceptedIsLoadable
    OBVIOUS
  <2>1. ASSUME stage = "accepted" PROVE Constraints
    <3>1. StopsAccept
      BY <2>1, CheckedStopsAccepted DEF StopsChecked
    <3> QED BY <3>1 DEF ParseInv, Constraints
  <2> QED BY <2>1 DEF ParseInv, AcceptedIsLoadable
<1> QED BY ParseInvariant, <1>1, PTL

-----------------------------------------------------------------------------
(* Two walks up the parents, resolveStation and the view.                  *)

\* Once the parents were checked a stop is at most two parents below its
\* station: an entrance or a node below it, a boarding area below a platform.
LEMMA ParentsChecked ==
  ASSUME ParseInv, StopsChecked, NEW s \in StopIds
  PROVE  /\ NoId \notin StopIds
         /\ LocationType(s) \in 0..4
         /\ LocationType(s) = 0 =>
              Parent(s) = NoId \/ (Parent(s) \in StopIds /\ LocationType(Parent(s)) = 1)
         /\ LocationType(s) = 1 => Parent(s) = NoId
         /\ LocationType(s) \in {2, 3} => Parent(s) \in StopIds /\ LocationType(Parent(s)) = 1
         /\ LocationType(s) = 4 => Parent(s) \in StopIds /\ LocationType(Parent(s)) = 0
<1>1. NoId \notin StopIds
  BY ParseAssumption, StopIdsTyped DEF ParseInv
<1>2. PICK n \in DOMAIN stops : s = stops[n].id
  BY DEF StopIds
<1>3. stops[n] \in Stop /\ LocationType(s) = stops[n].location_type
  BY <1>2, StopFound DEF ParseInv, ParseTypeOK, LocationType
<1>4. ParentAllowed(s)
  BY DEF ParseInv
<1>5. LocationType(s) \in 0..4
  BY <1>3 DEF Stop
<1>6. /\ LocationType(s) = 0 =>
           Parent(s) = NoId \/ (Parent(s) \in StopIds /\ LocationType(Parent(s)) = 1)
      /\ LocationType(s) = 1 => Parent(s) = NoId
      /\ LocationType(s) \in {2, 3} => Parent(s) \in StopIds /\ LocationType(Parent(s)) = 1
      /\ LocationType(s) = 4 => Parent(s) \in StopIds /\ LocationType(Parent(s)) = 0
  BY <1>4 DEF ParentAllowed
<1> QED BY <1>1, <1>5, <1>6

\* The station of a stop that trains call at: none, its parent, or the parent
\* of the platform it is an area of.
StationAbove(id) ==
  LET up == IF LocationType(id) = 4 THEN Parent(id) ELSE id
  IN  IF Parent(up) = NoId THEN {} ELSE {Parent(up)}

\* resolveStation walks to it; the walk is finite, so the recursion is well
\* defined.
LEMMA ResolveFindsStation ==
  ASSUME ParseInv, StopsChecked, NEW id \in Resolved
  PROVE  ResolveStation(id) = StationAbove(id)
<1> DEFINE Calls == StopIds \X SUBSET StopIds
           Call(r, s, v) == IF s \in v THEN {"cycle"}
                            ELSE IF LocationType(s) = 1 THEN {s}
                            ELSE IF Parent(s) = NoId THEN {}
                            ELSE r[<<Parent(s), v \cup {s}>>]
           IsResolve(r) == r = [call \in Calls |-> Call(r, call[1], call[2])]
           resolve == CHOOSE r : IsResolve(r)
           at1(s, v) == IF s \in v THEN {"cycle"} ELSE {s}
           at0(s, v) == IF s \in v THEN {"cycle"} ELSE IF Parent(s) = NoId THEN {}
                        ELSE at1(Parent(s), v \cup {s})
           at2(s, v) == IF s \in v THEN {"cycle"} ELSE at1(Parent(s), v \cup {s})
           at4(s, v) == IF s \in v THEN {"cycle"} ELSE at0(Parent(s), v \cup {s})
           Walk(s, v) == IF LocationType(s) = 1 THEN at1(s, v)
                       ELSE IF LocationType(s) = 0 THEN at0(s, v)
                       ELSE IF LocationType(s) = 4 THEN at4(s, v)
                       ELSE at2(s, v)
           walk == [call \in Calls |-> Walk(call[1], call[2])]
<1>1. ResolveStation(id) = resolve[<<id, {}>>]
  BY DEF ResolveStation
<1>2. IsResolve(walk)
  <2>1. \A s \in StopIds, v \in SUBSET StopIds : walk[<<s, v>>] = Walk(s, v)
    <3> HIDE DEF Walk
    <3> QED OBVIOUS
  <2>2. ASSUME NEW s \in StopIds, NEW v \in SUBSET StopIds PROVE Walk(s, v) = Call(walk, s, v)
    <3> HIDE DEF walk
    <3>1. v \cup {s} \in SUBSET StopIds
      OBVIOUS
    <3>2. Parent(s) \in StopIds =>
            walk[<<Parent(s), v \cup {s}>>] = Walk(Parent(s), v \cup {s})
      BY <2>1, <3>1
    <3> QED BY <3>2, ParentsChecked
  <2> HIDE DEF Call, Walk
  <2>3. \A call \in Calls : call[1] \in StopIds /\ call[2] \in SUBSET StopIds
    OBVIOUS
  <2>4. \A call \in Calls : Walk(call[1], call[2]) = Call(walk, call[1], call[2])
    BY <2>2, <2>3
  <2> QED BY <2>4
<1>3. IsResolve(resolve)
  <2> HIDE DEF IsResolve, walk
  <2> QED BY <1>2
<1> HIDE DEF resolve
<1>4. \A s \in StopIds, v \in SUBSET StopIds : resolve[<<s, v>>] = Call(resolve, s, v)
  <2> HIDE DEF Call
  <2> QED BY <1>3
<1>5. id \in StopIds /\ LocationType(id) \in {0, 4}
  BY DEF Resolved
<1>6. CASE LocationType(id) = 0
  <2>1. Parent(id) # NoId => Parent(id) \in StopIds /\ LocationType(Parent(id)) = 1
    BY <1>5, <1>6, ParentsChecked
  <2>2. resolve[<<id, {}>>] =
          IF Parent(id) = NoId THEN {} ELSE resolve[<<Parent(id), {} \cup {id}>>]
    BY <1>4, <1>5, <1>6
  <2>3. ASSUME Parent(id) # NoId PROVE resolve[<<Parent(id), {} \cup {id}>>] = {Parent(id)}
    <3>1. {} \cup {id} \in SUBSET StopIds /\ Parent(id) \notin {} \cup {id}
      BY <1>5, <1>6, <2>1, <2>3
    <3> DEFINE p == Parent(id)
               v == {} \cup {id}
    <3>2. p \in StopIds /\ LocationType(p) = 1 /\ v \in SUBSET StopIds /\ p \notin v
      BY <2>1, <2>3, <3>1
    <3> HIDE DEF p, v
    <3>3. Call(resolve, p, v) = {p}
      BY <3>2
    <3>4. resolve[<<p, v>>] = Call(resolve, p, v)
      BY <1>4, <3>2
    <3> QED BY <3>3, <3>4 DEF p, v
  <2> QED BY <1>1, <1>6, <2>2, <2>3 DEF StationAbove
<1>7. CASE LocationType(id) = 4
  <2> DEFINE p == Parent(id)
             v == {id}
             q == Parent(p)
  <2>1. p \in StopIds /\ LocationType(p) = 0 /\ p # NoId
    BY <1>5, <1>7, ParentsChecked
  <2>2. q # NoId => q \in StopIds /\ LocationType(q) = 1
    BY <2>1, ParentsChecked
  <2>3. resolve[<<id, {}>>] = resolve[<<p, {} \cup {id}>>] /\ {} \cup {id} = v
    BY <1>4, <1>5, <1>7, <2>1
  <2>4. v \in SUBSET StopIds /\ p \notin v /\ v \cup {p} \in SUBSET StopIds
    BY <1>5, <1>7, <2>1
  <2>5. q # NoId => q \notin v \cup {p}
    BY <1>7, <2>1, <2>2
  <2> HIDE DEF v, p, q
  <2>6. resolve[<<p, v>>] = IF q = NoId THEN {} ELSE resolve[<<q, v \cup {p}>>]
    <3>1. resolve[<<p, v>>] = Call(resolve, p, v)
      <4> HIDE DEF Call
      <4> QED BY <1>4, <2>1, <2>4
    <3>2. q = Parent(p)
      BY DEF q
    <3> QED BY <2>1, <2>4, <3>1, <3>2
  <2>7. q # NoId => resolve[<<q, v \cup {p}>>] = {q}
    BY <1>4, <2>2, <2>4, <2>5
  <2> USE DEF v, p, q
  <2> QED BY <1>1, <1>7, <2>3, <2>6, <2>7 DEF StationAbove
<1> QED BY <1>5, <1>6, <1>7

\* The view joins every stop to its parent and stops at a station: after two
\* joins nothing is added, and the limit on stops leaves room for two.
LEMMA ViewFindsStation ==
  ASSUME ParseInv, StopsChecked, NEW id \in Resolved
  PROVE  StopParentStations(id) = StationAbove(id)
<1> DEFINE M == MaxStopRecords
           J(found) == {Parent(s) : s \in {f \in found : LocationType(f) # 1}} \cap StopIds
           A1 == {id} \cup J({id})
           A2 == A1 \cup J(A1)
           IsAfter(a) ==
             a = [n \in 0..M |-> IF n = 0 THEN {id} ELSE a[n - 1] \cup J(a[n - 1])]
           after == CHOOSE a : IsAfter(a)
           cand == [n \in 0..M |-> IF n = 0 THEN {id} ELSE IF n = 1 THEN A1 ELSE A2]
<1>1. StopParentStations(id) = {s \in after[M] : LocationType(s) = 1}
  BY DEF StopParentStations, Ancestors
<1>2. id \in StopIds /\ LocationType(id) \in {0, 4} /\ M \in Nat /\ Len(stops) \in Nat
  BY ParseAssumption DEF Resolved, ParseInv, ParseTypeOK
<1>3. M >= 1 /\ \A x \in StopIds : x # id => M >= 2
  <2>1. PICK n \in DOMAIN stops : id = stops[n].id
    BY <1>2 DEF StopIds
  <2>2. DOMAIN stops = 1..Len(stops) /\ Len(stops) <= M
    BY DEF ParseInv, ParseTypeOK
  <2>3. ASSUME NEW x \in StopIds, x # id PROVE M >= 2
    <3>1. PICK m \in DOMAIN stops : x = stops[m].id
      BY DEF StopIds
    <3>2. m # n
      BY <2>1, <2>3, <3>1
    <3> QED BY <1>2, <2>2, <3>2
  <2> QED BY <1>2, <2>2, <2>3
<1>4. /\ A2 \cup J(A2) = A2
      /\ A1 = A2 \/ M >= 2
      /\ {s \in A2 : LocationType(s) = 1} = StationAbove(id)
  <2>1. NoId \notin StopIds
    BY <1>2, ParentsChecked
  <2>2. CASE LocationType(id) = 0
    <3>1. Parent(id) # NoId => Parent(id) \in StopIds /\ LocationType(Parent(id)) = 1
      BY <1>2, <2>2, ParentsChecked
    <3>2. J({id}) = StationAbove(id)
      BY <2>1, <2>2, <3>1 DEF StationAbove
    <3>3. \A s \in StationAbove(id) : LocationType(s) = 1
      BY <2>2, <3>1 DEF StationAbove
    <3>4. J(A1) = J({id})
      BY <3>2, <3>3
    <3> HIDE DEF J
    <3> QED BY <2>2, <3>2, <3>3, <3>4
  <2>3. CASE LocationType(id) = 4
    <3> DEFINE p == Parent(id)
    <3>1. p \in StopIds /\ LocationType(p) = 0 /\ p # id
      BY <1>2, <2>3, ParentsChecked
    <3>2. Parent(p) # NoId => Parent(p) \in StopIds /\ LocationType(Parent(p)) = 1
      BY <3>1, ParentsChecked
    <3>3. J({id}) = {p}
      BY <2>3, <3>1
    <3>4. StationAbove(id) = IF Parent(p) = NoId THEN {} ELSE {Parent(p)}
      BY <2>3 DEF StationAbove
    <3>5. J({id, p}) = {p} \cup StationAbove(id)
      BY <2>1, <2>3, <3>1, <3>2, <3>4
    <3>6. J({id, p} \cup StationAbove(id)) = J({id, p})
      BY <3>2, <3>4
    <3>7. M >= 2
      BY <1>3, <3>1
    <3>8. \A s \in StationAbove(id) : LocationType(s) = 1
      BY <3>2, <3>4
    <3> HIDE DEF J, p
    <3>9. A1 = {id, p} /\ A2 = {id, p} \cup StationAbove(id)
      BY <3>3, <3>5
    <3> HIDE DEF A1, A2
    <3> QED BY <2>3, <3>1, <3>5, <3>6, <3>7, <3>8, <3>9
  <2> QED BY <1>2, <2>2, <2>3
<1> HIDE DEF J
<1>5. IsAfter(cand)
  <2> HIDE DEF A2
  <2>1. \A n \in 0..M : cand[n] = IF n = 0 THEN {id} ELSE IF n = 1 THEN A1 ELSE A2
    OBVIOUS
  <2>2. \A n \in 0..M : n # 0 => n - 1 \in 0..M /\ (n = 1 <=> n - 1 = 0) /\ (n = 2 <=> n - 1 = 1)
    BY <1>2
  <2>3. A1 = {id} \cup J({id}) /\ A2 = A1 \cup J(A1)
    BY DEF A2
  <2> HIDE DEF A1
  <2>4. ASSUME NEW n \in 0..M
        PROVE  cand[n] = IF n = 0 THEN {id} ELSE cand[n - 1] \cup J(cand[n - 1])
    <3> HIDE DEF cand
    <3> QED BY <1>4, <2>1, <2>2, <2>3
  <2> QED BY <2>1, <2>4
<1>6. IsAfter(after)
  <2> HIDE DEF IsAfter, cand
  <2> QED BY <1>5
<1> HIDE DEF after
<1>7. /\ after[0] = {id}
      /\ \A n \in 0..M : n # 0 => after[n] = after[n - 1] \cup J(after[n - 1])
  <2>1. after = [n \in 0..M |-> IF n = 0 THEN {id} ELSE after[n - 1] \cup J(after[n - 1])]
    BY <1>6
  <2>2. \A n \in 0..M : after[n] = IF n = 0 THEN {id} ELSE after[n - 1] \cup J(after[n - 1])
    BY <2>1
  <2>3. 0 \in 0..M
    BY <1>2
  <2> QED BY <2>2, <2>3
<1>8. after[1] = A1 /\ (M >= 2 => after[2] = A2)
  <2>1. 1 \in 0..M /\ 1 - 1 = 0 /\ 2 - 1 = 1 /\ (M >= 2 => 2 \in 0..M)
    BY <1>2, <1>3
  <2>2. after[1] = after[0] \cup J(after[0])
    BY <1>7, <2>1
  <2>3. M >= 2 => after[2] = after[1] \cup J(after[1])
    BY <1>7, <2>1
  <2> QED BY <1>7, <2>2, <2>3
<1> HIDE DEF A1, A2
<1>9. \A n \in 2..M : after[n] = A2
  <2> DEFINE T == {n \in 2..M : after[n] # A2}
  <2> SUFFICES ASSUME T # {} PROVE FALSE
    OBVIOUS
  <2>1. T \in SUBSET Nat
    BY <1>2
  <2>2. PICK n \in T : \A m \in T : n <= m
    BY <2>1, LeastNatural
  <2>3. n \in 2..M /\ n # 2 /\ after[n] # A2
    BY <1>8
  <2>4. n - 1 \in 2..M /\ n \in 0..M /\ n # 0 /\ ~ (n <= n - 1)
    BY <1>2, <2>3
  <2>5. after[n - 1] = A2
    BY <2>2, <2>4
  <2> QED BY <1>4, <1>7, <2>3, <2>4, <2>5
<1>10. after[M] = A2
  BY <1>2, <1>3, <1>4, <1>8, <1>9
<1> QED BY <1>1, <1>4, <1>10

\* StationsAgree: for archives of any size, the parser and the view over the
\* loaded tables give every stop that trains call at the same station, if any.
THEOREM StationsAlwaysAgree == ParseSpec => []StationsAgree
<1>1. ParseInv => StationsAgree
  <2> SUFFICES ASSUME ParseInv, stage = "loaded", NEW id \in Resolved
      PROVE  /\ StopStation(id) = StopParentStations(id)
             /\ Cardinality(StopStation(id)) <= 1
    BY DEF StationsAgree
  <2>1. StopStation(id) = StationAbove(id) /\ StopParentStations(id) = StationAbove(id)
    BY ResolveFindsStation, ViewFindsStation DEF StopStation, StopsChecked
  <2>2. \A x : Cardinality({x}) = 1
    BY FS_Singleton
  <2>3. Cardinality({}) = 0
    BY FS_EmptySet
  <2>4. Cardinality(StationAbove(id)) <= 1
    BY <2>2, <2>3 DEF StationAbove
  <2> QED BY <2>1, <2>4
<1> QED BY ParseInvariant, <1>1, PTL

-----------------------------------------------------------------------------
(* recordLimitReader.                                                      *)

\* FailsOnLongRecords says nothing of the limiter's own fields, so a step
\* cannot be shown to keep it: InStep ties them to csv's.
LimitInv ==
  /\ LimitTypeOK
  /\ ~ failed => remaining >= 0
  /\ InStep
  /\ FailsOnLongRecords

\* What one byte does when the record still has room.
Counts ==
  /\ remaining' \in 0..maxCSVRecordBytes
  /\ length' \in 1..maxCSVRecordBytes
  /\ field' # "invalid" =>
       remaining' = IF field' = "record" THEN maxCSVRecordBytes
                                        ELSE maxCSVRecordBytes - length'

Quotes ==
  /\ inQuotes' \in BOOLEAN /\ quotePending' \in BOOLEAN
  /\ field' \in {"record", "start", "plain", "quoted", "quote", "quote return", "invalid"}
  /\ field' # "invalid" =>
       /\ inQuotes' <=> field' \in {"quoted", "quote"}
       /\ quotePending' <=> field' = "quote"

\* Every byte keeps the limiter in step with csv.
LEMMA ReadKeepsLimitInv ==
  ASSUME LimitInv, NEW value \in Byte, Read(value)
  PROVE  LimitInv'
<1> USE RecordLimitAssumption
<1>1. remaining \in 0..maxCSVRecordBytes /\ length \in 0..maxCSVRecordBytes
  <2>1. remaining \in -1..maxCSVRecordBytes /\ remaining >= 0 /\ length \in Nat
    BY DEF LimitInv, LimitTypeOK, Read
  <2>2. ~ (length > maxCSVRecordBytes)
    BY DEF LimitInv, FailsOnLongRecords, Read
  <2> QED
    BY <2>1, <2>2
<1>2. /\ length' \in 1..maxCSVRecordBytes + 1
      /\ length' = IF field = "record" THEN 1 ELSE length + 1
  BY <1>1 DEF Read
<1>3. field = "record" => remaining = maxCSVRecordBytes
  BY DEF LimitInv, InStep, Read
<1>4. field # "record" => remaining = maxCSVRecordBytes - length
  BY DEF LimitInv, InStep, Read
<1>5. CASE remaining = 0
  <2>1. failed' /\ remaining' = -1 /\ UNCHANGED <<inQuotes, quotePending>>
    BY <1>5 DEF Read, Limit
  <2>2. length' = maxCSVRecordBytes + 1
    BY <1>1, <1>2, <1>3, <1>4, <1>5
  <2>3. field' \in {"record", "start", "plain", "quoted", "quote", "quote return", "invalid"}
    BY DEF Read, Csv, Plain
  <2>4. failed' \in BOOLEAN
    BY <1>5 DEF Read, Limit
  <2>5. -1 \in -1..maxCSVRecordBytes /\ length' \in Nat /\ length' > maxCSVRecordBytes
    BY <2>2
  <2>6. LimitTypeOK'
    BY <2>1, <2>3, <2>4, <2>5 DEF LimitInv, LimitTypeOK
  <2> QED
    BY <2>1, <2>2, <2>5, <2>6 DEF LimitInv, InStep, FailsOnLongRecords
<1>6. CASE remaining # 0
  <2>1. length' <= maxCSVRecordBytes /\ remaining - 1 = maxCSVRecordBytes - length'
    BY <1>6, <1>1, <1>2, <1>3, <1>4
  <2>2. ~ failed' /\ failed' \in BOOLEAN
    BY <1>6 DEF Read, Limit
  <2> SUFFICES Quotes /\ Counts
    <3>0. remaining' \in -1..maxCSVRecordBytes /\ length' \in Nat
      BY DEF Counts
    <3>1. LimitTypeOK'
      BY <2>2, <3>0 DEF Quotes, Counts, LimitTypeOK
    <3>2. InStep'
      BY DEF Quotes, Counts, InStep
    <3>3. ~ (length' > maxCSVRecordBytes) /\ length' <= maxCSVRecordBytes + 1 /\ remaining' >= 0
      BY DEF Counts
    <3> QED
      BY <2>2, <3>1, <3>2, <3>3 DEF LimitInv, FailsOnLongRecords
  <2>3. CASE ~ inQuotes
    <3>1. Unquoted(value)
      BY <1>6, <2>3 DEF Read, Limit
    <3>2. field \in {"record", "start", "plain", "quote return"}
      BY <2>3 DEF LimitInv, LimitTypeOK, InStep, Read
    <3>3. Quotes
      <4>1. CASE value = "quote"
        BY <3>1, <3>2, <4>1 DEF Quotes, Unquoted, Read, Csv, Plain, Byte
      <4>2. CASE value # "quote"
        BY <3>1, <3>2, <4>2 DEF Quotes, Unquoted, Read, Csv, Plain, Byte
      <4> QED
        BY <4>1, <4>2
    <3>4. Counts
      <4>1. CASE value = "newline"
        <5>1. field' = "record"
          BY <3>2, <4>1 DEF Read, Csv, Plain
        <5>2. remaining' = maxCSVRecordBytes
          BY <3>1, <4>1 DEF Unquoted
        <5> QED
          BY <1>2, <2>1, <5>1, <5>2 DEF Counts
      <4>2. CASE value # "newline"
        <5>1. field' # "record"
          BY <3>2, <4>2 DEF Read, Csv, Plain
        <5>2. remaining' = remaining - 1
          BY <3>1, <4>2 DEF Unquoted
        <5> QED
          BY <1>1, <1>2, <1>6, <2>1, <5>1, <5>2 DEF Counts
      <4> QED
        BY <4>1, <4>2
    <3> QED
      BY <3>3, <3>4
  <2>4. CASE inQuotes /\ ~ quotePending
    <3>1. Quoted(value)
      BY <1>6, <2>4 DEF Read, Limit
    <3>2. field = "quoted"
      BY <2>4 DEF LimitInv, InStep, Read
    <3>3. Quotes
      <4>1. CASE value = "quote"
        BY <3>1, <3>2, <4>1 DEF Quotes, Quoted, Read, Csv, Byte
      <4>2. CASE value # "quote"
        BY <3>1, <3>2, <4>2 DEF Quotes, Quoted, Read, Csv, Byte
      <4> QED
        BY <4>1, <4>2
    <3>4. Counts
      BY <1>1, <1>2, <1>6, <2>1, <3>1, <3>2 DEF Counts, Quoted, Read, Csv, Byte
    <3> QED
      BY <3>3, <3>4
  <2>5. CASE inQuotes /\ quotePending
    <3>1. QuotePending(value)
      BY <1>6, <2>5 DEF Read, Limit
    <3>2. field = "quote"
      BY <2>5 DEF LimitInv, InStep, Read
    <3>3. Quotes
      <4>1. CASE value = "quote"
        BY <3>1, <3>2, <4>1 DEF Quotes, QuotePending, Unquoted, Read, Csv, Plain, Byte
      <4>2. CASE value # "quote"
        BY <3>1, <3>2, <4>2 DEF Quotes, QuotePending, Unquoted, Read, Csv, Plain, Byte
      <4> QED
        BY <4>1, <4>2
    <3>4. Counts
      <4>1. CASE value = "newline"
        <5>1. field' = "record"
          BY <3>2, <4>1 DEF Read, Csv, Plain
        <5>2. remaining' = maxCSVRecordBytes
          BY <3>1, <4>1 DEF QuotePending, Unquoted
        <5> QED
          BY <1>2, <2>1, <5>1, <5>2 DEF Counts
      <4>2. CASE value # "newline"
        <5>1. field' # "record"
          BY <3>2, <4>2 DEF Read, Csv, Plain
        <5>2. remaining' = remaining - 1
          BY <3>1, <4>2 DEF QuotePending, Unquoted
        <5> QED
          BY <1>1, <1>2, <1>6, <2>1, <5>1, <5>2 DEF Counts
      <4> QED
        BY <4>1, <4>2
    <3> QED
      BY <3>3, <3>4
  <2> QED
    BY <2>3, <2>4, <2>5
<1> QED
  BY <1>5, <1>6

\* As long as a file is CSV, recordLimitReader fails exactly on a record that
\* is too long, whatever the limit and the length of the file.
THEOREM RecordLimitHolds == LimitSpec => []FailsOnLongRecords
<1>1. LimitInit => LimitInv
  <2> SUFFICES ASSUME LimitInit PROVE LimitInv
    OBVIOUS
  <2>1. remaining \in -1..maxCSVRecordBytes /\ remaining >= 0 /\ length \in Nat
    BY RecordLimitAssumption DEF LimitInit
  <2>2. InStep
    BY DEF LimitInit, InStep
  <2>3. ~ failed /\ ~ (length > maxCSVRecordBytes) /\ length <= maxCSVRecordBytes + 1
    BY RecordLimitAssumption DEF LimitInit
  <2> QED
    BY <2>1, <2>2, <2>3 DEF LimitInit, LimitInv, LimitTypeOK, FailsOnLongRecords
<1>2. LimitInv /\ [ReadNext]_limitVars => LimitInv'
  <2> SUFFICES ASSUME LimitInv, [ReadNext]_limitVars PROVE LimitInv'
    OBVIOUS
  <2>1. CASE ReadNext
    BY <2>1, ReadKeepsLimitInv DEF ReadNext
  <2>2. CASE UNCHANGED limitVars
    BY <2>2 DEF limitVars, LimitInv, LimitTypeOK, InStep, FailsOnLongRecords
  <2> QED
    BY <2>1, <2>2
<1>3. LimitInv => FailsOnLongRecords
  BY DEF LimitInv
<1> QED
  BY <1>1, <1>2, <1>3, PTL DEF LimitSpec

-----------------------------------------------------------------------------
(* The inductive invariant.                                                *)

\* The import's row links the archived bytes that its worker downloaded.
Linked(i) ==
  /\ worker[i].download \in Download
  /\ KeyOf(worker[i].download) \in rawArchives \cap objects
  /\ imports[i].archive_status = "archived"
  /\ imports[i].raw_archive = KeyOf(worker[i].download)

\* The row, its archive and the marker.
RowOK(i) ==
  /\ imports[i].archive_status # "archived" => imports[i].raw_archive = NoKey
  /\ imports[i].archive_status = "archived" => Linked(i)
  /\ imports[i].status \in {"succeeded", "skipped"} =>
       Linked(i) /\ imports[i].download = worker[i].download
  /\ imports[i].is_current => imports[i].status = "succeeded"

\* Where a worker can be, given its row, and what it has by then.  After
\* CheckRollbackLost it parses while its own transaction is still open.
ProgressOK(i) ==
  /\ At(i, "none") <=> imports[i].status = "absent"
  /\ worker[i].pc \in {"none", "fetch", "archive", "record"} =>
       imports[i].archive_status = "pending" /\ txn[i].state = "none"
  /\ worker[i].pc \in {"archive", "record", "recording", "resolve_archive"} =>
       worker[i].download \in Download
  /\ worker[i].pc \in {"record", "recording", "resolve_archive"} =>
       KeyOf(worker[i].download) \in objects
  /\ worker[i].pc \in {"recording", "resolve_archive"} => txn[i].state \in {"none", "archive"}
  /\ worker[i].pc \in {"check", "checking", "parse", "complete", "installing", "committing",
                       "resolve_commit"} => Linked(i)
  /\ At(i, "check") => txn[i].state = "none"
  /\ worker[i].pc \in {"parse", "complete"} => txn[i].state \in {"none", "open"}
  /\ worker[i].pc \in {"checking", "installing"} => txn[i].state = "open"
  /\ worker[i].pc \in {"fetch", "archive", "record", "recording", "resolve_archive", "check",
                       "checking", "parse", "complete", "installing"} =>
       imports[i].status = "running"
  /\ worker[i].pc \in {"committing", "resolve_commit"} => txn[i].state \in {"none", "commit"}

\* What the worker reports.
ReportOK(i) ==
  /\ At(i, "ok") => imports[i].status \in {"succeeded", "skipped"}
  /\ At(i, "failed") => imports[i].status = "failed"
  /\ imports[i].status = "failed" => worker[i].pc \in {"failed", "unrecorded"}
  /\ imports[i].status \in {"succeeded", "skipped"} =>
       /\ txn[i].state = "none"
       /\ worker[i].pc \in {"committing", "resolve_commit", "ok", "unknown", "fail",
                            "unrecorded", "dead"}

\* Transactions on the server, which may outlive the call that began them.
TransactionOK(i) ==
  /\ lock = i <=> txn[i].state \in {"open", "commit"}
  /\ txn[i].state = "archive" =>
       /\ imports[i].status = "running" /\ imports[i].archive_status = "pending"
       /\ worker[i].download \in Download /\ KeyOf(worker[i].download) \in objects
       /\ worker[i].pc \in {"recording", "resolve_archive", "fail", "unrecorded",
                            "unknown", "dead"}
  /\ txn[i].state \in {"open", "commit"} => Linked(i)
  /\ txn[i].state = "open" =>
       worker[i].pc \in {"checking", "parse", "complete", "installing", "fail", "failed",
                         "unrecorded", "dead"}
  /\ txn[i].state = "commit" =>
       /\ imports[i].status = "running"
       /\ worker[i].pc \in {"committing", "resolve_commit", "fail", "unrecorded",
                            "unknown", "dead"}

ImportOK(i) == RowOK(i) /\ ProgressOK(i) /\ ReportOK(i) /\ TransactionOK(i)

\* What skipGTFSReason answered under the advisory lock is still the answer.
ReasonOK ==
  \A i \in Import : txn[i].state \in {"open", "commit"} => txn[i].reason = ReasonToSkip(i)

ImportInv ==
  /\ TypeOK
  /\ \A i \in Import : ImportOK(i)
  /\ ReasonOK /\ NetworkIsCurrent

-----------------------------------------------------------------------------
(* One step of import i's worker or transaction.                           *)

\* Other imports keep their rows, apart from the marker, which they may
\* lose, and their workers, transactions and locks; nothing is ever removed
\* from the archive.
OthersKept(i) ==
  /\ \A j \in Import \ {i} :
       /\ imports'[j].status = imports[j].status
       /\ imports'[j].archive_status = imports[j].archive_status
       /\ imports'[j].raw_archive = imports[j].raw_archive
       /\ imports'[j].download = imports[j].download
       /\ imports'[j].is_current => imports[j].is_current
       /\ worker'[j] = worker[j] /\ txn'[j] = txn[j]
       /\ lock' = j <=> lock = j
  /\ objects \subseteq objects' /\ rawArchives \subseteq rawArchives'

\* The marker stays, no import becomes succeeded, no succeeded row changes
\* its download, and the network stays as it is.
SameInstalled ==
  /\ network' = network
  /\ \A j \in Import :
       /\ imports'[j].is_current <=> imports[j].is_current
       /\ imports'[j].status = "succeeded" <=> imports[j].status = "succeeded"
       /\ imports[j].status = "succeeded" => imports'[j].download = imports[j].download

\* A transaction that holds the advisory lock held it before, with the same
\* answer about the same download.
NothingJudged(i) ==
  txn'[i].state \in {"open", "commit"} =>
    /\ txn[i].state \in {"open", "commit"}
    /\ txn'[i].reason = txn[i].reason /\ worker'[i].download = worker[i].download

Quiet(i) == OthersKept(i) /\ SameInstalled /\ NothingJudged(i)

Label ==
  {"none", "fetch", "archive", "record", "recording", "resolve_archive", "check", "checking",
   "parse", "complete", "installing", "committing", "resolve_commit", "fail", "ok", "failed",
   "unrecorded", "unknown", "dead"}

\* Only the worker's pc, and its failure stage, change.
Moves(i, label) ==
  /\ UNCHANGED <<dbVars, objects, lock, txn>>
  /\ Goto(i, label) \/ \E at \in Stage : label = "fail" /\ GotoFail(i, at)

\* Goto changes one worker's pc and nothing else of any worker.
LEMMA GotoFacts ==
  ASSUME TypeOK, NEW i \in Import, NEW label \in Label, Goto(i, label)
  PROVE  /\ worker' \in [Import -> WorkerState]
         /\ worker'[i].pc = label /\ worker'[i].download = worker[i].download
         /\ \A j \in Import \ {i} : worker'[j] = worker[j]
<1>1. worker[i] \in WorkerState /\ worker \in [Import -> WorkerState]
  BY DEF TypeOK
<1> DEFINE w == [worker[i] EXCEPT !.pc = label]
<1>2. w \in WorkerState /\ w.pc = label /\ w.download = worker[i].download
  BY <1>1 DEF WorkerState, Label
<1>3. worker' = [worker EXCEPT ![i] = w]
  BY DEF Goto
<1> QED BY <1>1, <1>2, <1>3

\* GotoFail changes one worker's pc and failure stage.
LEMMA GotoFailFacts ==
  ASSUME TypeOK, NEW i \in Import, NEW at \in Stage, GotoFail(i, at)
  PROVE  /\ worker' \in [Import -> WorkerState]
         /\ worker'[i].pc = "fail" /\ worker'[i].download = worker[i].download
         /\ \A j \in Import \ {i} : worker'[j] = worker[j]
<1>1. worker[i] \in WorkerState /\ worker \in [Import -> WorkerState]
  BY DEF TypeOK
<1> DEFINE w == [worker[i] EXCEPT !.pc = "fail", !.stage = at]
<1>2. w \in WorkerState /\ w.pc = "fail" /\ w.download = worker[i].download
  BY <1>1 DEF WorkerState
<1>3. worker' = [worker EXCEPT ![i] = w]
  BY DEF GotoFail
<1> QED BY <1>1, <1>2, <1>3

\* A worker that only moves disturbs nobody, and nothing of its own but its pc.
LEMMA MoveFacts ==
  ASSUME TypeOK, NEW i \in Import, NEW label \in Label, Moves(i, label)
  PROVE  /\ TypeOK' /\ Quiet(i)
         /\ worker'[i].pc = label /\ worker'[i].download = worker[i].download
<1>1. /\ worker' \in [Import -> WorkerState]
      /\ worker'[i].pc = label /\ worker'[i].download = worker[i].download
      /\ \A j \in Import \ {i} : worker'[j] = worker[j]
  BY GotoFacts, GotoFailFacts DEF Moves
<1> QED
  BY <1>1 DEF Moves, dbVars, TypeOK, Quiet, OthersKept, SameInstalled, NothingJudged

\* The actions that only move a worker.
Moving(i) ==
  \/ FetchFails(i) \/ RecordArchiveFails(i) \/ RecordArchiveReturns(i)
  \/ RecordArchiveCommitLost(i) \/ ResolveArchiveCommit(i) \/ ResolveFails(i)
  \/ CheckRollbackLost(i) \/ Parse(i) \/ CompleteRejects(i) \/ PersistFails(i)
  \/ CommitReturns(i) \/ CommitLost(i) \/ ResolveCommit(i) \/ Crash(i)

\* A step that only moves the worker of i keeps i consistent: one step per action.
LEMMA MovingSteps ==
  ASSUME ImportInv, NEW i \in Import, Moving(i)
  PROVE  TypeOK' /\ ImportOK(i)' /\ Quiet(i)
<1>1. TypeOK /\ ImportOK(i)
  BY DEF ImportInv
<1> DEFINE Arrives(label) == Moves(i, label) /\ ImportOK(i)'
<1> USE DEF At, Moves, dbVars, ImportOK, RowOK, ProgressOK, ReportOK, TransactionOK, Linked
<1>2. ASSUME FetchFails(i) PROVE Arrives("fail")
  <2>1. Moves(i, "fail")
    BY <1>2 DEF FetchFails, Stage
  <2>2. worker'[i].pc = "fail" /\ worker'[i].download = worker[i].download
    BY <2>1, <1>1, MoveFacts DEF Label
  <2> QED BY <1>1, <1>2, <2>1, <2>2 DEF FetchFails
<1>3. ASSUME RecordArchiveFails(i) PROVE Arrives("fail")
  <2>1. Moves(i, "fail")
    BY <1>3 DEF RecordArchiveFails, Stage
  <2>2. worker'[i].pc = "fail" /\ worker'[i].download = worker[i].download
    BY <2>1, <1>1, MoveFacts DEF Label
  <2> QED BY <1>1, <1>3, <2>1, <2>2 DEF RecordArchiveFails
<1>4. ASSUME RecordArchiveReturns(i) PROVE Arrives("check")
  <2>1. Moves(i, "check")
    BY <1>4 DEF RecordArchiveReturns, Stage
  <2>2. worker'[i].pc = "check" /\ worker'[i].download = worker[i].download
    BY <2>1, <1>1, MoveFacts DEF Label
  <2> QED BY <1>1, <1>4, <2>1, <2>2 DEF RecordArchiveReturns, ArchiveLinked
<1>5. ASSUME RecordArchiveCommitLost(i) PROVE Arrives("resolve_archive")
  <2>1. Moves(i, "resolve_archive")
    BY <1>5 DEF RecordArchiveCommitLost, Stage
  <2>2. worker'[i].pc = "resolve_archive" /\ worker'[i].download = worker[i].download
    BY <2>1, <1>1, MoveFacts DEF Label
  <2> QED BY <1>1, <1>5, <2>1, <2>2 DEF RecordArchiveCommitLost
<1>6. ASSUME ResolveArchiveCommit(i) PROVE Arrives("check") \/ Arrives("fail")
  <2>1. (ArchiveLinked(i) /\ Moves(i, "check")) \/ Moves(i, "fail")
    BY <1>6 DEF ResolveArchiveCommit, Stage
  <2>2. ASSUME ArchiveLinked(i), Moves(i, "check") PROVE ImportOK(i)'
    <3>1. worker'[i].pc = "check" /\ worker'[i].download = worker[i].download
      BY <2>2, <1>1, MoveFacts DEF Label
    <3> QED BY <1>1, <1>6, <2>2, <3>1 DEF ResolveArchiveCommit, ArchiveLinked
  <2>3. ASSUME Moves(i, "fail") PROVE ImportOK(i)'
    <3>1. worker'[i].pc = "fail" /\ worker'[i].download = worker[i].download
      BY <2>3, <1>1, MoveFacts DEF Label
    <3> QED BY <1>1, <1>6, <2>3, <3>1 DEF ResolveArchiveCommit
  <2> QED BY <2>1, <2>2, <2>3
<1>7. ASSUME ResolveFails(i) PROVE Arrives("unknown")
  <2>1. Moves(i, "unknown")
    BY <1>7 DEF ResolveFails, Stage
  <2>2. worker'[i].pc = "unknown" /\ worker'[i].download = worker[i].download
    BY <2>1, <1>1, MoveFacts DEF Label
  <2> QED BY <1>1, <1>7, <2>1, <2>2 DEF ResolveFails
<1>8. ASSUME CheckRollbackLost(i) PROVE Arrives("parse")
  <2>1. Moves(i, "parse")
    BY <1>8 DEF CheckRollbackLost, Stage
  <2>2. worker'[i].pc = "parse" /\ worker'[i].download = worker[i].download
    BY <2>1, <1>1, MoveFacts DEF Label
  <2> QED BY <1>1, <1>8, <2>1, <2>2 DEF CheckRollbackLost
<1>9. ASSUME Parse(i) PROVE Arrives("complete") \/ Arrives("fail")
  <2>1. (Archive[worker[i].download.body].parses /\ Moves(i, "complete")) \/ Moves(i, "fail")
    BY <1>9 DEF Parse, Stage
  <2>2. ASSUME Archive[worker[i].download.body].parses, Moves(i, "complete") PROVE ImportOK(i)'
    <3>1. worker'[i].pc = "complete" /\ worker'[i].download = worker[i].download
      BY <2>2, <1>1, MoveFacts DEF Label
    <3> QED BY <1>1, <1>9, <2>2, <3>1 DEF Parse
  <2>3. ASSUME Moves(i, "fail") PROVE ImportOK(i)'
    <3>1. worker'[i].pc = "fail" /\ worker'[i].download = worker[i].download
      BY <2>3, <1>1, MoveFacts DEF Label
    <3> QED BY <1>1, <1>9, <2>3, <3>1 DEF Parse
  <2> QED BY <2>1, <2>2, <2>3
<1>10. ASSUME CompleteRejects(i) PROVE Arrives("fail")
  <2>1. Moves(i, "fail")
    BY <1>10 DEF CompleteRejects, Stage
  <2>2. worker'[i].pc = "fail" /\ worker'[i].download = worker[i].download
    BY <2>1, <1>1, MoveFacts DEF Label
  <2> QED BY <1>1, <1>10, <2>1, <2>2 DEF CompleteRejects
<1>11. ASSUME PersistFails(i) PROVE Arrives("fail")
  <2>1. Moves(i, "fail")
    BY <1>11 DEF PersistFails, Stage
  <2>2. worker'[i].pc = "fail" /\ worker'[i].download = worker[i].download
    BY <2>1, <1>1, MoveFacts DEF Label
  <2> QED BY <1>1, <1>11, <2>1, <2>2 DEF PersistFails
<1>12. ASSUME CommitReturns(i) PROVE Arrives("ok")
  <2>1. Moves(i, "ok")
    BY <1>12 DEF CommitReturns, Stage
  <2>2. worker'[i].pc = "ok" /\ worker'[i].download = worker[i].download
    BY <2>1, <1>1, MoveFacts DEF Label
  <2> QED BY <1>1, <1>12, <2>1, <2>2 DEF CommitReturns, ExpectedStatus
<1>13. ASSUME CommitLost(i) PROVE Arrives("resolve_commit")
  <2>1. Moves(i, "resolve_commit")
    BY <1>13 DEF CommitLost, Stage
  <2>2. worker'[i].pc = "resolve_commit" /\ worker'[i].download = worker[i].download
    BY <2>1, <1>1, MoveFacts DEF Label
  <2> QED BY <1>1, <1>13, <2>1, <2>2 DEF CommitLost
<1>14. ASSUME ResolveCommit(i) PROVE Arrives("ok") \/ Arrives("fail")
  <2>1. (imports[i].status = ExpectedStatus(i) /\ Moves(i, "ok")) \/ Moves(i, "fail")
    BY <1>14 DEF ResolveCommit, Stage
  <2>2. ASSUME imports[i].status = ExpectedStatus(i), Moves(i, "ok") PROVE ImportOK(i)'
    <3>1. worker'[i].pc = "ok" /\ worker'[i].download = worker[i].download
      BY <2>2, <1>1, MoveFacts DEF Label
    <3> QED BY <1>1, <1>14, <2>2, <3>1 DEF ResolveCommit, ExpectedStatus
  <2>3. ASSUME Moves(i, "fail") PROVE ImportOK(i)'
    <3>1. worker'[i].pc = "fail" /\ worker'[i].download = worker[i].download
      BY <2>3, <1>1, MoveFacts DEF Label
    <3> QED BY <1>1, <1>14, <2>3, <3>1 DEF ResolveCommit
  <2> QED BY <2>1, <2>2, <2>3
<1>15. ASSUME Crash(i) PROVE Arrives("dead")
  <2>1. Moves(i, "dead")
    BY <1>15 DEF Crash, Stage
  <2>2. worker'[i].pc = "dead" /\ worker'[i].download = worker[i].download
    BY <2>1, <1>1, MoveFacts DEF Label
  <2> QED BY <1>1, <1>15, <2>1, <2>2 DEF Crash, Ended
<1>16. \E label \in Label : Arrives(label)
  BY <1>2, <1>3, <1>4, <1>5, <1>6, <1>7, <1>8,
     <1>9, <1>10, <1>11, <1>12, <1>13, <1>14, <1>15
  DEF Moving, Label
<1> QED BY <1>1, <1>16, MoveFacts

-----------------------------------------------------------------------------
(* The actions that change more than a pc.                                 *)

\* StartImport inserts the row as running and its worker begins.
LEMMA StartStep ==
  ASSUME ImportInv, NEW i \in Import, StartImport(i)
  PROVE  TypeOK' /\ ImportOK(i)' /\ Quiet(i)
<1>1. TypeOK /\ ImportOK(i) /\ imports[i] \in Row
  BY DEF ImportInv, TypeOK
<1>2. /\ worker' \in [Import -> WorkerState]
      /\ worker'[i].pc = "fetch" /\ worker'[i].download = worker[i].download
      /\ \A j \in Import \ {i} : worker'[j] = worker[j]
  BY <1>1, GotoFacts DEF StartImport, Label
<1> DEFINE row == [imports[i] EXCEPT !.status = "running"]
<1>3. /\ row \in Row /\ row.status = "running" /\ row.is_current = imports[i].is_current
      /\ row.archive_status = imports[i].archive_status
      /\ row.raw_archive = imports[i].raw_archive
  BY <1>1 DEF Row
<1>4. imports' = [imports EXCEPT ![i] = row] /\ imports[i].status = "absent"
  BY DEF StartImport
<1> HIDE DEF row
<1>5. /\ imports' \in [Import -> Row] /\ imports'[i] = row
      /\ \A j \in Import \ {i} : imports'[j] = imports[j]
  BY <1>1, <1>3, <1>4 DEF TypeOK
<1>6. TypeOK'
  BY <1>1, <1>2, <1>5 DEF TypeOK, StartImport
<1>7. ImportOK(i)'
  BY <1>1, <1>2, <1>3, <1>4, <1>5
  DEF StartImport, At, ImportOK, RowOK, ProgressOK, ReportOK, TransactionOK, Linked
<1>8. Quiet(i)
  BY <1>1, <1>2, <1>3, <1>4, <1>5
  DEF StartImport, Quiet, OthersKept, SameInstalled, NothingJudged
<1> QED BY <1>6, <1>7, <1>8

\* Fetch gives the worker a download.
LEMMA FetchStep ==
  ASSUME ImportInv, NEW i \in Import, Fetch(i)
  PROVE  TypeOK' /\ ImportOK(i)' /\ Quiet(i)
<1>1. TypeOK /\ ImportOK(i) /\ worker[i] \in WorkerState
  BY DEF ImportInv, TypeOK
<1>2. PICK d \in Download : worker' = [worker EXCEPT ![i].pc = "archive", ![i].download = d]
  BY DEF Fetch
<1> DEFINE w == [worker[i] EXCEPT !.pc = "archive", !.download = d]
<1>3. w \in WorkerState /\ w.pc = "archive" /\ w.download = d
  BY <1>1 DEF WorkerState
<1>4. worker' = [worker EXCEPT ![i] = w]
  BY <1>2
<1> HIDE DEF w
<1>5. /\ worker' \in [Import -> WorkerState] /\ worker'[i] = w
      /\ \A j \in Import \ {i} : worker'[j] = worker[j]
  BY <1>1, <1>3, <1>4 DEF TypeOK
<1>6. TypeOK'
  BY <1>1, <1>5 DEF TypeOK, Fetch, dbVars
<1>7. ImportOK(i)'
  BY <1>1, <1>3, <1>5
  DEF Fetch, dbVars, At, ImportOK, RowOK, ProgressOK, ReportOK, TransactionOK, Linked
<1>8. Quiet(i)
  BY <1>1, <1>5
  DEF Fetch, dbVars, At, ImportOK, ProgressOK, Quiet, OthersKept, SameInstalled, NothingJudged
<1> QED BY <1>6, <1>7, <1>8

\* The archive key of a download.
LEMMA KeyFacts ==
  ASSUME NEW d \in Download
  PROVE  KeyOf(d) \in Key /\ KeyOf(d) # NoKey /\ d.body \in Body
<1>1. d.body \in Body /\ d.retrieved_at \in Time
  BY DownloadAssumption
<1> QED BY <1>1, GTFSNullAssumption DEF KeyOf, Key

\* Put stores the downloaded bytes, and may do so even when it fails.
LEMMA PutStep ==
  ASSUME ImportInv, NEW i \in Import, ArchivePut(i) \/ ArchivePutFails(i)
  PROVE  TypeOK' /\ ImportOK(i)' /\ Quiet(i)
<1>1. TypeOK /\ ImportOK(i) /\ At(i, "archive") /\ KeyOf(worker[i].download) \in Key
  BY KeyFacts DEF ImportInv, ImportOK, ProgressOK, At, ArchivePut, ArchivePutFails
<1>2. \/ worker'[i].pc = "record" /\ KeyOf(worker[i].download) \in objects'
      \/ worker'[i].pc = "fail"
  BY <1>1, GotoFacts, GotoFailFacts DEF ArchivePut, ArchivePutFails, Label, Stage
<1>3. /\ worker' \in [Import -> WorkerState] /\ worker'[i].download = worker[i].download
      /\ \A j \in Import \ {i} : worker'[j] = worker[j]
  BY <1>1, GotoFacts, GotoFailFacts DEF ArchivePut, ArchivePutFails, Label, Stage
<1>4. objects \subseteq objects' /\ objects' \in SUBSET Key
  BY <1>1 DEF ArchivePut, ArchivePutFails, TypeOK
<1>5. UNCHANGED <<imports, network, rawArchives, lock, txn>>
  BY DEF ArchivePut, ArchivePutFails, dbVars
<1>6. TypeOK'
  BY <1>1, <1>3, <1>4, <1>5 DEF TypeOK
<1>7. ImportOK(i)'
  BY <1>1, <1>2, <1>3, <1>4, <1>5
  DEF At, ImportOK, RowOK, ProgressOK, ReportOK, TransactionOK, Linked
<1>8. Quiet(i)
  BY <1>3, <1>4, <1>5 DEF Quiet, OthersKept, SameInstalled, NothingJudged
<1> QED BY <1>6, <1>7, <1>8

\* A COMMIT is sent: the worker waits, the transaction is up to the server.
LEMMA SendStep ==
  ASSUME ImportInv, NEW i \in Import, RecordGTFSArchive(i) \/ SendCommit(i)
  PROVE  TypeOK' /\ ImportOK(i)' /\ Quiet(i)
<1>1. TypeOK /\ ImportOK(i) /\ txn[i] \in Transaction /\ txn \in [Import -> Transaction]
  BY DEF ImportInv, TypeOK
<1>2. /\ worker' \in [Import -> WorkerState] /\ worker'[i].download = worker[i].download
      /\ \A j \in Import \ {i} : worker'[j] = worker[j]
      /\ RecordGTFSArchive(i) => worker'[i].pc = "recording"
      /\ SendCommit(i) => worker'[i].pc = "committing"
  BY <1>1, GotoFacts DEF RecordGTFSArchive, SendCommit, Label
<1>3. ASSUME NEW st \in {"archive", "commit"}, txn' = [txn EXCEPT ![i].state = st]
      PROVE  /\ txn' \in [Import -> Transaction]
             /\ txn'[i].state = st /\ txn'[i].reason = txn[i].reason
             /\ \A j \in Import \ {i} : txn'[j] = txn[j]
  <2> DEFINE t == [txn[i] EXCEPT !.state = st]
  <2>1. t \in Transaction /\ t.state = st /\ t.reason = txn[i].reason
    BY <1>1 DEF Transaction
  <2> QED BY <1>1, <1>3, <2>1
<1>4. /\ txn' \in [Import -> Transaction] /\ txn'[i].reason = txn[i].reason
      /\ \A j \in Import \ {i} : txn'[j] = txn[j]
      /\ RecordGTFSArchive(i) => txn'[i].state = "archive"
      /\ SendCommit(i) => txn'[i].state = "commit"
  BY <1>3 DEF RecordGTFSArchive, SendCommit
<1>5. UNCHANGED <<imports, network, rawArchives, objects, lock>>
  BY DEF RecordGTFSArchive, SendCommit, dbVars
<1>6. TypeOK'
  BY <1>1, <1>2, <1>4, <1>5 DEF TypeOK
<1>7. CASE RecordGTFSArchive(i)
  <2>1. ImportOK(i)'
    BY <1>7, <1>1, <1>2, <1>4, <1>5
    DEF RecordGTFSArchive, At, ImportOK, RowOK, ProgressOK, ReportOK, TransactionOK, Linked
  <2>2. Quiet(i)
    BY <1>7, <1>2, <1>4, <1>5 DEF Quiet, OthersKept, SameInstalled, NothingJudged
  <2> QED BY <1>6, <2>1, <2>2
<1>8. CASE SendCommit(i)
  <2>1. ImportOK(i)'
    BY <1>8, <1>1, <1>2, <1>4, <1>5
    DEF SendCommit, At, ImportOK, RowOK, ProgressOK, ReportOK, TransactionOK, Linked
  <2>2. Quiet(i)
    BY <1>8, <1>1, <1>2, <1>4, <1>5
    DEF SendCommit, At, ImportOK, ProgressOK, Quiet, OthersKept, SameInstalled, NothingJudged
  <2> QED BY <1>6, <2>1, <2>2
<1> QED BY <1>7, <1>8

\* SkipIfImported finds no reason and gives the lock back.
LEMMA CheckPassesStep ==
  ASSUME ImportInv, NEW i \in Import, CheckPasses(i)
  PROVE  TypeOK' /\ ImportOK(i)' /\ Quiet(i)
<1>1. TypeOK /\ ImportOK(i) /\ txn \in [Import -> Transaction] /\ lock = i
  BY DEF ImportInv, TypeOK, CheckPasses, At, ImportOK, ProgressOK, TransactionOK
<1>2. /\ worker' \in [Import -> WorkerState]
      /\ worker'[i].pc = "parse" /\ worker'[i].download = worker[i].download
      /\ \A j \in Import \ {i} : worker'[j] = worker[j]
  BY <1>1, GotoFacts DEF CheckPasses, Label
<1>3. /\ txn' \in [Import -> Transaction] /\ txn'[i].state = "none"
      /\ \A j \in Import \ {i} : txn'[j] = txn[j]
  BY <1>1 DEF CheckPasses, Idle, Transaction
<1>4. UNCHANGED <<imports, network, rawArchives, objects>> /\ lock' = NoImport
  BY DEF CheckPasses, dbVars
<1>5. TypeOK'
  BY <1>1, <1>2, <1>3, <1>4 DEF TypeOK
<1>6. ImportOK(i)'
  BY <1>1, <1>2, <1>3, <1>4, ImportAssumption
  DEF CheckPasses, At, ImportOK, RowOK, ProgressOK, ReportOK, TransactionOK, Linked
<1>7. Quiet(i)
  BY <1>1, <1>2, <1>3, <1>4, ImportAssumption
  DEF Quiet, OthersKept, SameInstalled, NothingJudged
<1> QED BY <1>5, <1>6, <1>7

\* fail() records the failure, finds the import ended, or gives up.
LEMMA FailStep ==
  ASSUME ImportInv, NEW i \in Import, FailImport(i) \/ FailUnrecorded(i)
  PROVE  TypeOK' /\ ImportOK(i)' /\ Quiet(i)
<1>1. /\ TypeOK /\ ImportOK(i) /\ imports[i] \in Row /\ worker[i] \in WorkerState
      /\ At(i, "fail")
  BY DEF ImportInv, TypeOK, FailImport, FailUnrecorded
<1>2. /\ worker' \in [Import -> WorkerState] /\ worker'[i].download = worker[i].download
      /\ \A j \in Import \ {i} : worker'[j] = worker[j]
  BY <1>1, GotoFacts DEF FailImport, FailUnrecorded, Label
<1>3. \/ worker'[i].pc = "unrecorded" /\ UNCHANGED imports
      \/ /\ worker'[i].pc \in {"failed", "unrecorded"}
         /\ ~ RowLocked(i) /\ imports[i].status = "running"
         /\ imports' = [imports EXCEPT ![i] = FailedRow(i)]
  BY <1>1, GotoFacts DEF FailImport, FailUnrecorded, Label
<1>4. UNCHANGED <<network, rawArchives, objects, lock, txn>>
  BY DEF FailImport, FailUnrecorded
<1>5. CASE worker'[i].pc = "unrecorded" /\ UNCHANGED imports
  <2>1. TypeOK' /\ Quiet(i)
    BY <1>1, <1>2, <1>4, <1>5 DEF TypeOK, Quiet, OthersKept, SameInstalled, NothingJudged
  <2>2. ImportOK(i)'
    BY <1>1, <1>2, <1>4, <1>5
    DEF At, ImportOK, RowOK, ProgressOK, ReportOK, TransactionOK, Linked
  <2> QED BY <2>1, <2>2
<1>6. CASE /\ worker'[i].pc \in {"failed", "unrecorded"}
           /\ ~ RowLocked(i) /\ imports[i].status = "running"
           /\ imports' = [imports EXCEPT ![i] = FailedRow(i)]
  <2> DEFINE row == FailedRow(i)
  <2>1. /\ row \in Row /\ row.status = "failed" /\ row.is_current = imports[i].is_current
        /\ row.archive_status = "archived" <=> imports[i].archive_status = "archived"
        /\ row.raw_archive = imports[i].raw_archive
    <3>1. /\ worker[i].download \in Download \cup {NoDownload}
          /\ worker[i].stage \in Stage \cup {"none"}
      BY <1>1 DEF WorkerState
    <3>2. imports[i].archive_status \in {"pending", "archived", "failed"}
      BY <1>1 DEF Row
    <3> DEFINE archive == IF imports[i].archive_status = "archived" THEN "archived" ELSE "failed"
    <3>3. /\ archive \in {"pending", "archived", "failed"}
          /\ archive = "archived" <=> imports[i].archive_status = "archived"
      BY <3>2
    <3>4. row = [imports[i] EXCEPT !.status = "failed", !.download = worker[i].download,
                                   !.failure_stage = worker[i].stage,
                                   !.archive_status = archive]
      BY DEF FailedRow
    <3> HIDE DEF row, archive
    <3>5. row \in Row
      BY <1>1, <3>1, <3>3, <3>4 DEF Row, Terminal
    <3>6. /\ row.status = "failed" /\ row.is_current = imports[i].is_current
          /\ row.archive_status = archive /\ row.raw_archive = imports[i].raw_archive
      BY <1>1, <3>4 DEF Row
    <3> QED BY <3>3, <3>5, <3>6
  <2> HIDE DEF row
  <2>2. /\ imports' \in [Import -> Row] /\ imports'[i] = row
        /\ \A j \in Import \ {i} : imports'[j] = imports[j]
    BY <1>1, <1>6, <2>1 DEF TypeOK, row
  <2>3. TypeOK' /\ Quiet(i)
    BY <1>1, <1>2, <1>4, <1>6, <2>1, <2>2
    DEF TypeOK, Quiet, OthersKept, SameInstalled, NothingJudged
  <2>4. ImportOK(i)'
    BY <1>1, <1>2, <1>4, <1>6, <2>1, <2>2
    DEF At, RowLocked, ImportOK, RowOK, ProgressOK, ReportOK, TransactionOK, Linked
  <2> QED BY <2>3, <2>4
<1> QED BY <1>3, <1>5, <1>6

\* The commit of recordArchive links the archived object.
LEMMA ArchiveCommitStep ==
  ASSUME ImportInv, NEW i \in Import, ServerCommitArchive(i)
  PROVE  TypeOK' /\ ImportOK(i)' /\ Quiet(i)
<1> DEFINE d == worker[i].download
           k == KeyOf(d)
<1>1. /\ TypeOK /\ ImportOK(i) /\ imports[i] \in Row /\ txn \in [Import -> Transaction]
      /\ d \in Download /\ k \in objects /\ imports[i].status = "running"
  BY DEF ImportInv, TypeOK, ServerCommitArchive, ImportOK, TransactionOK
<1>2. k \in Key
  BY <1>1, KeyFacts
<1> DEFINE row == [imports[i] EXCEPT !.archive_status = "archived", !.raw_archive = k]
<1>3. /\ row \in Row /\ row.status = imports[i].status
      /\ row.is_current = imports[i].is_current
      /\ row.archive_status = "archived" /\ row.raw_archive = k
  BY <1>1, <1>2 DEF Row
<1>4. imports' = [imports EXCEPT ![i] = row]
  BY DEF ServerCommitArchive
<1> HIDE DEF row
<1>5. /\ imports' \in [Import -> Row] /\ imports'[i] = row
      /\ \A j \in Import \ {i} : imports'[j] = imports[j]
  BY <1>1, <1>3, <1>4 DEF TypeOK
<1>6. /\ txn' \in [Import -> Transaction] /\ txn'[i].state = "none"
      /\ \A j \in Import \ {i} : txn'[j] = txn[j]
  BY <1>1 DEF ServerCommitArchive, Idle, Transaction
<1>7. /\ rawArchives' = rawArchives \cup {k}
      /\ UNCHANGED <<network, objects, lock, worker>> /\ txn[i].state = "archive"
  BY DEF ServerCommitArchive
<1> HIDE DEF k
<1>8. TypeOK'
  BY <1>1, <1>2, <1>5, <1>6, <1>7 DEF TypeOK
<1>9. ImportOK(i)'
  BY <1>1, <1>3, <1>5, <1>6, <1>7
  DEF k, At, ImportOK, RowOK, ProgressOK, ReportOK, TransactionOK, Linked
<1>10. Quiet(i)
  BY <1>1, <1>3, <1>5, <1>6, <1>7 DEF Quiet, OthersKept, SameInstalled, NothingJudged
<1> QED BY <1>8, <1>9, <1>10

\* A rollback releases the lock and leaves the row alone.
LEMMA AbortStep ==
  ASSUME ImportInv, NEW i \in Import, ServerAbort(i)
  PROVE  TypeOK' /\ ImportOK(i)' /\ Quiet(i)
<1>1. TypeOK /\ ImportOK(i) /\ txn \in [Import -> Transaction] /\ txn[i] \in Transaction
  BY DEF ImportInv, TypeOK
<1> DEFINE t == [txn[i] EXCEPT !.state = "none"]
<1>2. t \in Transaction /\ t.state = "none"
  BY <1>1 DEF Transaction
<1>3. txn' = [txn EXCEPT ![i] = t]
  BY DEF ServerAbort
<1> HIDE DEF t
<1>4. /\ txn' \in [Import -> Transaction] /\ txn'[i].state = "none"
      /\ \A j \in Import \ {i} : txn'[j] = txn[j]
  BY <1>1, <1>2, <1>3
<1>5. /\ lock' = IF lock = i THEN NoImport ELSE lock
      /\ UNCHANGED <<imports, network, rawArchives, objects, worker>>
  BY DEF ServerAbort, dbVars
<1>6. /\ lock' \in Import \cup {NoImport} /\ lock' # i
      /\ \A j \in Import \ {i} : lock' = j <=> lock = j
  BY <1>1, <1>5, ImportAssumption DEF TypeOK
<1>7. TypeOK'
  BY <1>1, <1>4, <1>5, <1>6 DEF TypeOK
<1>8. ImportOK(i)'
  BY <1>1, <1>4, <1>5, <1>6
  DEF ServerAbort, RowLocked, At, ImportOK, RowOK, ProgressOK, ReportOK, TransactionOK, Linked
<1>9. Quiet(i)
  BY <1>4, <1>5, <1>6 DEF Quiet, OthersKept, SameInstalled, NothingJudged
<1> QED BY <1>7, <1>8, <1>9

\* A transaction of SkipIfImported or CompleteImport begins under the lock,
\* with the answer of skipGTFSReason.
Begins(i) == SkipIfImported(i) \/ CompleteImport(i)

\* What such a beginning changes.
LEMMA BeginStep ==
  ASSUME ImportInv, NEW i \in Import, Begins(i)
  PROVE  /\ TypeOK' /\ ImportOK(i)' /\ OthersKept(i) /\ SameInstalled
         /\ worker'[i].download = worker[i].download /\ txn'[i].reason = ReasonToSkip(i)
         /\ lock = NoImport
<1>1. /\ TypeOK /\ ImportOK(i) /\ txn \in [Import -> Transaction] /\ worker[i] \in WorkerState
      /\ worker \in [Import -> WorkerState]
  BY DEF ImportInv, TypeOK
<1>2. PICK label \in {"checking", "installing"}, installs \in BOOLEAN :
        BeginLocked(i, label, installs)
  BY DEF Begins, SkipIfImported, CompleteImport
<1>3. At(i, "check") \/ At(i, "complete")
  BY DEF Begins, SkipIfImported, CompleteImport
<1> DEFINE w == [worker[i] EXCEPT !.pc = label, !.installs = installs]
           t == [state |-> "open", reason |-> ReasonToSkip(i)]
<1>4. w \in WorkerState /\ w.pc = label /\ w.download = worker[i].download
  BY <1>1, <1>2 DEF WorkerState
<1>5. t \in Transaction /\ t.state = "open" /\ t.reason = ReasonToSkip(i)
  BY DEF Transaction, ReasonToSkip, SkipReason
<1>6. /\ worker' = [worker EXCEPT ![i] = w] /\ txn' = [txn EXCEPT ![i] = t]
      /\ lock = NoImport /\ lock' = i
      /\ UNCHANGED <<imports, network, rawArchives, objects>>
  BY <1>2 DEF BeginLocked, dbVars
<1> HIDE DEF w, t
<1>7. /\ worker' \in [Import -> WorkerState] /\ worker'[i] = w
      /\ \A j \in Import \ {i} : worker'[j] = worker[j]
      /\ txn' \in [Import -> Transaction] /\ txn'[i] = t
      /\ \A j \in Import \ {i} : txn'[j] = txn[j]
  BY <1>1, <1>4, <1>5, <1>6
<1>8. TypeOK'
  BY <1>1, <1>6, <1>7 DEF TypeOK
<1>9. ImportOK(i)'
  BY <1>1, <1>3, <1>4, <1>5, <1>6, <1>7
  DEF At, ImportOK, RowOK, ProgressOK, ReportOK, TransactionOK, Linked
<1>10. OthersKept(i) /\ SameInstalled
  BY <1>6, <1>7, ImportAssumption DEF OthersKept, SameInstalled
<1> QED BY <1>4, <1>5, <1>6, <1>7, <1>8, <1>9, <1>10

\* The commit installs the network or skips the import.
Replaces(i) == ServerCommit(i) /\ Installs(i)

Skips(i) == ServerCommit(i) /\ ~ Installs(i)

\* What the commit does to the import's own row, transaction and lock.
Ends(i, status) ==
  /\ imports'[i].status = status /\ imports'[i].download = worker[i].download
  /\ imports[i].status = "running" /\ txn'[i].state = "none" /\ lock = i
  /\ worker[i].download \in Download /\ worker' = worker

\* Common to both: the import's own part of the state after its commit.
LEMMA EndedOK ==
  ASSUME ImportInv, NEW i \in Import, ServerCommit(i),
         NEW status \in {"succeeded", "skipped"}, imports' \in [Import -> Row],
         imports'[i].status = status, imports'[i].download = worker[i].download,
         imports'[i].archive_status = imports[i].archive_status,
         imports'[i].raw_archive = imports[i].raw_archive,
         imports'[i].is_current => status = "succeeded",
         network' \in NetworkRows \cup {NoNetwork}
  PROVE  /\ TypeOK' /\ ImportOK(i)' /\ Ends(i, status)
         /\ \A j \in Import \ {i} : txn'[j] = txn[j] /\ (lock' = j <=> lock = j)
<1>1. /\ TypeOK /\ ImportOK(i) /\ txn \in [Import -> Transaction] /\ txn[i] \in Transaction
      /\ Linked(i) /\ imports[i].status = "running" /\ lock = i
      /\ worker[i].download \in Download
      /\ worker[i].pc \in {"committing", "resolve_commit", "fail", "unrecorded",
                           "unknown", "dead"}
  BY DEF ImportInv, TypeOK, ServerCommit, ImportOK, TransactionOK, Linked
<1> DEFINE t == [txn[i] EXCEPT !.state = "none"]
<1>2. t \in Transaction /\ t.state = "none"
  BY <1>1 DEF Transaction
<1>3. txn' = [txn EXCEPT ![i] = t] /\ lock' = NoImport /\ UNCHANGED <<rawArchives, objects, worker>>
  BY DEF ServerCommit
<1> HIDE DEF t
<1>4. /\ txn' \in [Import -> Transaction] /\ txn'[i].state = "none"
      /\ \A j \in Import \ {i} : txn'[j] = txn[j]
  BY <1>1, <1>2, <1>3
<1>5. TypeOK'
  BY <1>1, <1>3, <1>4 DEF TypeOK
<1>6. ImportOK(i)'
  BY <1>1, <1>3, <1>4, ImportAssumption
  DEF At, ImportOK, RowOK, ProgressOK, ReportOK, TransactionOK, Linked
<1> QED BY <1>1, <1>3, <1>4, <1>5, <1>6, ImportAssumption DEF Ends

\* The import replaces the network: it alone carries the marker.
LEMMA ReplaceStep ==
  ASSUME ImportInv, NEW i \in Import, Replaces(i)
  PROVE  /\ TypeOK' /\ ImportOK(i)' /\ OthersKept(i) /\ Ends(i, "succeeded")
         /\ imports'[i].is_current /\ \A j \in Import \ {i} : ~ imports'[j].is_current
         /\ network' = [gtfs_import_id |-> i, body |-> worker[i].download.body]
<1> DEFINE row == [imports[i] EXCEPT !.status = "succeeded", !.is_current = TRUE,
                                     !.download = worker[i].download]
           other(j) == [imports[j] EXCEPT !.is_current = FALSE]
<1>1. /\ TypeOK /\ imports \in [Import -> Row] /\ \A j \in Import : imports[j] \in Row
      /\ worker[i].download \in Download
  BY DEF ImportInv, TypeOK, Replaces, ServerCommit, ImportOK, TransactionOK, Linked
<1>2. /\ network' = [gtfs_import_id |-> i, body |-> worker[i].download.body]
      /\ imports' = [j \in Import |-> IF j = i THEN row ELSE other(j)]
      /\ UNCHANGED <<rawArchives, objects, worker>>
  BY DEF Replaces, ServerCommit, InstallWrites
<1>3. /\ row \in Row /\ row.status = "succeeded" /\ row.is_current
      /\ row.download = worker[i].download
      /\ row.archive_status = imports[i].archive_status
      /\ row.raw_archive = imports[i].raw_archive
  BY <1>1 DEF Row, Terminal
<1>4. ASSUME NEW j \in Import
      PROVE  /\ other(j) \in Row /\ ~ other(j).is_current
             /\ other(j).status = imports[j].status
             /\ other(j).archive_status = imports[j].archive_status
             /\ other(j).raw_archive = imports[j].raw_archive
             /\ other(j).download = imports[j].download
  BY <1>1 DEF Row
<1> HIDE DEF row, other
<1>5. imports' \in [Import -> Row] /\ imports'[i] = row
  BY <1>2, <1>3, <1>4
<1>6. \A j \in Import \ {i} : imports'[j] = other(j)
  BY <1>2
<1>7. network' \in NetworkRows
  BY <1>1, <1>2, KeyFacts DEF NetworkRows
<1>8. /\ TypeOK' /\ ImportOK(i)' /\ Ends(i, "succeeded")
      /\ \A j \in Import \ {i} : txn'[j] = txn[j] /\ (lock' = j <=> lock = j)
  BY <1>3, <1>5, <1>7, EndedOK DEF Replaces
<1>9. OthersKept(i)
  BY <1>2, <1>4, <1>6, <1>8 DEF OthersKept
<1> QED BY <1>2, <1>3, <1>4, <1>5, <1>6, <1>8, <1>9

\* The import is skipped: nothing is installed.
LEMMA SkipStep ==
  ASSUME ImportInv, NEW i \in Import, Skips(i)
  PROVE  /\ TypeOK' /\ ImportOK(i)' /\ OthersKept(i) /\ Ends(i, "skipped")
         /\ SameInstalled
<1> DEFINE row == [imports[i] EXCEPT !.status = "skipped", !.skip_code = txn[i].reason,
                                     !.download = worker[i].download]
<1>1. /\ TypeOK /\ imports \in [Import -> Row] /\ imports[i] \in Row
      /\ worker[i].download \in Download /\ txn[i] \in Transaction
      /\ imports[i].status = "running" /\ RowOK(i)
  BY DEF ImportInv, TypeOK, Skips, ServerCommit, ImportOK, TransactionOK, Linked
<1>2. imports' = [imports EXCEPT ![i] = row] /\ UNCHANGED <<network, rawArchives, objects, worker>>
  BY DEF Skips, ServerCommit, SkipWrites
<1>3. /\ row \in Row /\ row.status = "skipped" /\ row.is_current = imports[i].is_current
      /\ row.download = worker[i].download
      /\ row.archive_status = imports[i].archive_status
      /\ row.raw_archive = imports[i].raw_archive
  <2>1. txn[i].reason \in {"none", "stale", "duplicate"}
    BY <1>1 DEF Transaction
  <2> QED BY <1>1, <2>1 DEF Row, Terminal
<1> HIDE DEF row
<1>4. /\ imports' \in [Import -> Row] /\ imports'[i] = row
      /\ \A j \in Import \ {i} : imports'[j] = imports[j]
  BY <1>1, <1>2, <1>3
<1>5. network' \in NetworkRows \cup {NoNetwork} /\ ~ imports[i].is_current
  BY <1>1, <1>2 DEF TypeOK, RowOK
<1>6. /\ TypeOK' /\ ImportOK(i)' /\ Ends(i, "skipped")
      /\ \A j \in Import \ {i} : txn'[j] = txn[j] /\ (lock' = j <=> lock = j)
  BY <1>3, <1>4, <1>5, EndedOK DEF Skips
<1>7. OthersKept(i) /\ SameInstalled
  BY <1>1, <1>2, <1>3, <1>4, <1>6 DEF OthersKept, SameInstalled
<1> QED BY <1>6, <1>7

\* A step of i leaves every other import as consistent as it was.
LEMMA OthersFrame ==
  ASSUME NEW i \in Import, OthersKept(i), NEW j \in Import \ {i}, ImportOK(j)
  PROVE  ImportOK(j)'
BY DEF OthersKept, At, ImportOK, RowOK, ProgressOK, ReportOK, TransactionOK, Linked

-----------------------------------------------------------------------------
(* The marker and the answers of skipGTFSReason.                           *)

\* The import with the marker is the current one.
LEMMA MarkedIsCurrent ==
  ASSUME NEW i \in Import, imports[i].is_current,
         \A j \in Import : imports[j].is_current => j = i
  PROVE  CurrentImport = [import |-> i, download |-> imports[i].download]
<1>1. (CHOOSE j \in Import : imports[j].is_current) = i
  OBVIOUS
<1> QED BY <1>1 DEF CurrentImport

\* The same in the next state.
LEMMA MarkedIsCurrentNext ==
  ASSUME NEW i \in Import, imports'[i].is_current,
         \A j \in Import : imports'[j].is_current => j = i
  PROVE  CurrentImport' = [import |-> i, download |-> imports'[i].download]
<1>1. (CHOOSE j \in Import : imports'[j].is_current) = i
  OBVIOUS
<1> QED BY <1>1 DEF CurrentImport

\* While nothing is installed the current import stays what it is.
LEMMA CurrentStable ==
  ASSUME ImportInv, SameInstalled
  PROVE  CurrentImport' = CurrentImport /\ NetworkIsCurrent'
<1>1. CurrentImport' = CurrentImport
  <2>1. CASE \E i \in Import : imports[i].is_current
    <3>1. PICK i \in Import : imports[i].is_current
      BY <2>1
    <3>2. \A j \in Import : imports[j].is_current => j = i
      BY <3>1 DEF ImportInv, NetworkIsCurrent
    <3>3. /\ imports'[i].is_current /\ imports'[i].download = imports[i].download
          /\ \A j \in Import : imports'[j].is_current => j = i
      BY <3>1, <3>2 DEF SameInstalled, ImportInv, ImportOK, RowOK
    <3> QED BY <3>1, <3>2, <3>3, MarkedIsCurrent, MarkedIsCurrentNext
  <2>2. CASE ~ \E i \in Import : imports[i].is_current
    <3>1. ~ \E i \in Import : imports'[i].is_current
      BY <2>2 DEF SameInstalled
    <3> QED BY <2>2, <3>1 DEF CurrentImport
  <2> QED BY <2>1, <2>2
<1>2. NetworkIsCurrent'
  BY <1>1 DEF SameInstalled, ImportInv, NetworkIsCurrent
<1> QED BY <1>1, <1>2

\* A step that installs nothing and gives no new answer keeps the invariant.
LEMMA QuietStep ==
  ASSUME ImportInv, NEW i \in Import, TypeOK', ImportOK(i)', Quiet(i)
  PROVE  ImportInv'
<1>1. OthersKept(i) /\ SameInstalled /\ NothingJudged(i)
  BY DEF Quiet
<1>2. CurrentImport' = CurrentImport /\ NetworkIsCurrent'
  BY <1>1, CurrentStable
<1>3. \A j \in Import : ImportOK(j)'
  BY <1>1, OthersFrame DEF ImportInv
<1>4. ASSUME NEW j \in Import, txn'[j].state \in {"open", "commit"}
      PROVE  txn'[j].reason = ReasonToSkip(j)'
  <2>1. /\ txn[j].state \in {"open", "commit"}
        /\ txn'[j].reason = txn[j].reason /\ worker'[j].download = worker[j].download
    BY <1>1, <1>4 DEF OthersKept, NothingJudged
  <2> QED BY <1>2, <2>1 DEF ImportInv, ReasonOK, ReasonToSkip
<1> QED BY <1>2, <1>3, <1>4 DEF ImportInv, ReasonOK

\* The lock is free while skipGTFSReason answers: no other answer is pending.
LEMMA BeginInv ==
  ASSUME ImportInv, NEW i \in Import, Begins(i)
  PROVE  ImportInv' /\ SameInstalled
<1>1. /\ TypeOK' /\ ImportOK(i)' /\ OthersKept(i) /\ SameInstalled
      /\ worker'[i].download = worker[i].download /\ txn'[i].reason = ReasonToSkip(i)
      /\ lock = NoImport
  BY BeginStep
<1>2. CurrentImport' = CurrentImport /\ NetworkIsCurrent'
  BY <1>1, CurrentStable
<1>3. \A j \in Import : ImportOK(j)'
  BY <1>1, OthersFrame DEF ImportInv
<1>4. ASSUME NEW j \in Import, txn'[j].state \in {"open", "commit"}
      PROVE  txn'[j].reason = ReasonToSkip(j)'
  <2>1. CASE j = i
    BY <1>1, <1>2, <2>1 DEF ReasonToSkip
  <2>2. CASE j # i
    BY <1>1, <1>4, <2>2, ImportAssumption DEF OthersKept, ImportInv, ImportOK, TransactionOK
  <2> QED BY <2>1, <2>2
<1> QED BY <1>1, <1>2, <1>3, <1>4 DEF ImportInv, ReasonOK

\* Whoever commits holds the lock, so no answer to another import is pending.
LEMMA NoOtherReason ==
  ASSUME ImportInv, NEW i \in Import, OthersKept(i), ImportOK(i)', lock = i,
         txn'[i].state = "none"
  PROVE  ReasonOK' /\ \A j \in Import : ImportOK(j)'
<1>1. \A j \in Import \ {i} : txn'[j].state \notin {"open", "commit"}
  BY DEF OthersKept, ImportInv, ImportOK, TransactionOK
<1> QED BY <1>1, OthersFrame DEF ReasonOK, ImportInv

\* Skipping an import keeps the invariant.
LEMMA SkipInv ==
  ASSUME ImportInv, NEW i \in Import, Skips(i)
  PROVE  ImportInv' /\ SameInstalled
<1>1. TypeOK' /\ ImportOK(i)' /\ OthersKept(i) /\ Ends(i, "skipped") /\ SameInstalled
  BY SkipStep
<1>2. ReasonOK' /\ \A j \in Import : ImportOK(j)'
  BY <1>1, NoOtherReason DEF Ends
<1> QED BY <1>1, <1>2, CurrentStable DEF ImportInv

\* The import that replaced the network is the current one from then on.
LEMMA ReplaceCurrent ==
  ASSUME ImportInv, NEW i \in Import, Replaces(i)
  PROVE  CurrentImport' = [import |-> i, download |-> worker[i].download]
<1>1. /\ Ends(i, "succeeded") /\ imports'[i].is_current
      /\ \A j \in Import : imports'[j].is_current => j = i
  BY ReplaceStep
<1> QED BY <1>1, MarkedIsCurrentNext DEF Ends

\* Replacing the network keeps the invariant.
LEMMA ReplaceInv ==
  ASSUME ImportInv, NEW i \in Import, Replaces(i)
  PROVE  ImportInv'
<1>1. /\ TypeOK' /\ ImportOK(i)' /\ OthersKept(i) /\ Ends(i, "succeeded")
      /\ imports'[i].is_current /\ \A j \in Import \ {i} : ~ imports'[j].is_current
      /\ network' = [gtfs_import_id |-> i, body |-> worker[i].download.body]
  BY ReplaceStep
<1>2. ReasonOK' /\ \A j \in Import : ImportOK(j)'
  BY <1>1, NoOtherReason DEF Ends
<1> DEFINE c == [import |-> i, download |-> worker[i].download]
<1>3. CurrentImport' = c /\ c.import = i /\ c.download = worker[i].download
  BY ReplaceCurrent
<1>4. c # NoNetwork
  BY <1>1, NetworkAssumption DEF Ends, Installation
<1> HIDE DEF c
<1>5. NetworkIsCurrent'
  BY <1>1, <1>3, <1>4 DEF NetworkIsCurrent, Ends
<1> QED BY <1>1, <1>2, <1>5 DEF ImportInv

-----------------------------------------------------------------------------
(* The invariant.                                                          *)

\* The invariant holds before any import was started.
LEMMA InitInv ==
  ASSUME Init
  PROVE  ImportInv
<1>1. NoRow \in Row /\ ~ NoRow.is_current /\ NoRow.status = "absent"
      /\ NoRow.archive_status = "pending" /\ NoRow.raw_archive = NoKey
  BY DEF NoRow, Row
<1>2. imports \in [Import -> Row] /\ \A i \in Import : imports[i] = NoRow
  BY <1>1 DEF Init
<1>3. txn \in [Import -> Transaction] /\ \A i \in Import : txn[i].state = "none"
  BY DEF Init, Idle, Transaction
<1>4. worker \in [Import -> WorkerState] /\ \A i \in Import : worker[i].pc = "none"
  BY DEF Init, WorkerState
<1>5. TypeOK
  BY <1>2, <1>3, <1>4 DEF Init, TypeOK
<1>6. \A i \in Import : ImportOK(i)
  BY <1>1, <1>2, <1>3, <1>4, ImportAssumption
  DEF Init, At, ImportOK, RowOK, ProgressOK, ReportOK, TransactionOK, Linked
<1>7. ReasonOK /\ NetworkIsCurrent
  BY <1>1, <1>2, <1>3 DEF Init, ReasonOK, NetworkIsCurrent, CurrentImport
<1> QED BY <1>5, <1>6, <1>7 DEF ImportInv

\* Every step keeps the invariant, and installs nothing unless it commits
\* CompleteImport.
LEMMA NextStep ==
  ASSUME ImportInv, Next
  PROVE  ImportInv' /\ (SameInstalled \/ \E i \in Import : Replaces(i))
<1>1. PICK i \in Import : StartImport(i) \/ WorkerStep(i) \/ WorkerFault(i) \/ Server(i)
  BY DEF Next
<1>2. CASE Begins(i)
  BY <1>2, BeginInv
<1>3. CASE Replaces(i)
  BY <1>3, ReplaceInv
<1>4. CASE Skips(i)
  BY <1>4, SkipInv
<1>5. CASE ~ Begins(i) /\ ~ ServerCommit(i)
  <2>1. \/ Moving(i) \/ StartImport(i) \/ Fetch(i)
        \/ ArchivePut(i) \/ ArchivePutFails(i)
        \/ RecordGTFSArchive(i) \/ SendCommit(i) \/ CheckPasses(i)
        \/ FailImport(i) \/ FailUnrecorded(i)
        \/ ServerCommitArchive(i) \/ ServerAbort(i)
    BY <1>1, <1>5 DEF WorkerStep, WorkerFault, Server, Moving, Begins
  <2>2. TypeOK' /\ ImportOK(i)' /\ Quiet(i)
    BY <2>1, MovingSteps, StartStep, FetchStep, PutStep, SendStep, CheckPassesStep,
       FailStep, ArchiveCommitStep, AbortStep
  <2> QED BY <2>2, QuietStep DEF Quiet
<1> QED BY <1>2, <1>3, <1>4, <1>5 DEF Replaces, Skips

\* A stuttering step keeps the invariant.
LEMMA StutterStep ==
  ASSUME ImportInv, UNCHANGED vars
  PROVE  ImportInv' /\ SameInstalled
<1>1. UNCHANGED <<imports, network, rawArchives, objects, lock, txn, worker>>
  BY DEF vars
<1>2. TypeOK'
  BY <1>1 DEF ImportInv, TypeOK
<1>3. \A i \in Import : ImportOK(i)'
  BY <1>1 DEF ImportInv, ImportOK, RowOK, ProgressOK, ReportOK, TransactionOK, Linked, At
<1>4. SameInstalled
  BY <1>1 DEF SameInstalled
<1>5. CurrentImport' = CurrentImport /\ NetworkIsCurrent'
  BY <1>4, CurrentStable
<1>6. ReasonOK'
  BY <1>1, <1>5 DEF ImportInv, ReasonOK, ReasonToSkip
<1> QED BY <1>2, <1>3, <1>4, <1>5, <1>6 DEF ImportInv

(***************************************************************************)
(* The inductive invariant holds throughout: row, worker and transaction   *)
(* of every import fit together, and the answer of skipGTFSReason under    *)
(* the advisory lock stays right until its commit is decided.              *)
(***************************************************************************)
THEOREM ImportInvariant == Spec => []ImportInv
<1>1. ImportInv /\ [Next]_vars => ImportInv'
  BY NextStep, StutterStep
<1> QED BY InitInv, <1>1, PTL DEF Spec

(***************************************************************************)
(* NetworkIsCurrent: at most one import carries the marker, it succeeded,  *)
(* and the stored network is that import's (InstallWrites, ServerCommit).  *)
(***************************************************************************)
THEOREM NetworkAlwaysCurrent == Spec => []NetworkIsCurrent
<1>1. ImportInv => NetworkIsCurrent
  BY DEF ImportInv
<1> QED BY ImportInvariant, <1>1, PTL

(***************************************************************************)
(* ArchivedBeforeUse: an import that was used links the archived download  *)
(* that it interpreted, whatever was interrupted.                          *)
(***************************************************************************)
THEOREM ArchivedBeforeUseHolds == Spec => []ArchivedBeforeUse
<1>1. ImportInv => ArchivedBeforeUse
  BY DEF ImportInv, ImportOK, RowOK, Linked, ArchivedBeforeUse
<1> QED BY ImportInvariant, <1>1, PTL

(***************************************************************************)
(* ReportMatchesRow: what GTFSService.Run reports is what the row says,    *)
(* also after a commit whose reply was lost.                               *)
(***************************************************************************)
THEOREM ReportMatchesRowHolds == Spec => []ReportMatchesRow
<1>1. ImportInv => ReportMatchesRow
  BY DEF ImportInv, ImportOK, ReportOK, ReportMatchesRow
<1> QED BY ImportInvariant, <1>1, PTL

-----------------------------------------------------------------------------
(* Implementation of GTFSNetwork.                                          *)

\* GTFSNetwork decides with its own instance of GTFSOrder's operators.
LEMMA SameOrder ==
  /\ \A c, d : Installed!Superseded(c, d) <=> Superseded(c, d)
  /\ \A c, d : Installed!SkipReason(c, d) = SkipReason(c, d)
BY DEF Installed!Superseded, Superseded, Installed!SkipReason, SkipReason

\* A commit that replaces the network is a step of GTFSNetwork: the answer
\* "none" was given about the very import that is replaced.
LEMMA ReplaceRefines ==
  ASSUME ImportInv, NEW i \in Import, Replaces(i)
  PROVE  Installed!Next
<1> DEFINE d == worker[i].download
           n == [import |-> i, download |-> d]
<1>1. OthersKept(i) /\ Ends(i, "succeeded") /\ d \in Download
  BY ReplaceStep DEF Ends
<1>2. CurrentImport' = n
  BY ReplaceCurrent
<1>3. InstalledImports' = InstalledImports \cup {n}
  <2>1. Succeeded' = Succeeded \cup {i}
    BY <1>1 DEF OthersKept, Ends, Succeeded
  <2>2. \A j \in Succeeded : imports'[j].download = imports[j].download
    BY <1>1 DEF OthersKept, Ends, Succeeded
  <2>3. imports'[i].download = d
    BY <1>1 DEF Ends
  <2> QED BY <2>1, <2>2, <2>3 DEF InstalledImports
<1>4. \A p \in InstalledImports : p.import # i
  BY <1>1 DEF InstalledImports, Succeeded, Ends
<1>5. Installed!SkipReason(CurrentImport, d) = "none"
  BY SameOrder DEF Replaces, ServerCommit, Installs, ImportInv, ReasonOK, ReasonToSkip
<1> HIDE DEF n, d
<1> QED BY <1>1, <1>2, <1>3, <1>4, <1>5 DEF Installed!Next, Installed!Install, n

\* Any other step leaves GTFSNetwork's variables unchanged.
LEMMA OtherStepsStutter ==
  ASSUME ImportInv, SameInstalled
  PROVE  UNCHANGED Installed!vars
<1>1. Succeeded' = Succeeded /\ \A j \in Succeeded : imports'[j].download = imports[j].download
  BY DEF SameInstalled, Succeeded
<1>2. InstalledImports' = InstalledImports
  BY <1>1 DEF InstalledImports
<1> QED BY <1>2, CurrentStable DEF Installed!vars

(***************************************************************************)
(* ImplementsNetwork: with any number of workers, the early duplicate      *)
(* check, lost commits and crashes, the current network changes only by    *)
(* installing an archive that skipGTFSReason allows over the one it        *)
(* really replaces.                                                        *)
(***************************************************************************)
THEOREM ImportImplementsNetwork == Spec => ImplementsNetwork
<1>1. Init => Installed!Init
  <2> SUFFICES ASSUME Init PROVE Installed!Init
    OBVIOUS
  <2>1. \A i \in Import : imports[i] = NoRow
    BY DEF Init
  <2>2. ~ NoRow.is_current /\ NoRow.status # "succeeded"
    BY DEF NoRow
  <2> QED BY <2>1, <2>2 DEF Installed!Init, CurrentImport, InstalledImports, Succeeded
<1>2. ImportInv /\ [Next]_vars => [Installed!Next]_Installed!vars
  BY NextStep, StutterStep, ReplaceRefines, OtherStepsStutter
<1> QED BY ImportInvariant, <1>1, <1>2, PTL DEF Spec, ImplementsNetwork, Installed!Spec

-----------------------------------------------------------------------------
(* The promise of GTFSNetwork, which any implementation of it inherits.    *)

\* The times in a download are naturals, apart from a missing Last-Modified.
LEMMA DownloadFacts ==
  ASSUME NEW d \in Download
  PROVE  /\ d.requested_at \in Nat
         /\ d.modified_at # NoTime => d.modified_at \in Nat
BY DownloadAssumption, GTFSTimeAssumption

\* The order of skipGTFSReason is transitive among downloads that all have,
\* or all lack, Last-Modified.
LEMMA SupersededTransitive ==
  ASSUME NEW c \in Download, NEW d \in Download, NEW n \in Download,
         \/ c.modified_at # NoTime /\ d.modified_at # NoTime /\ n.modified_at # NoTime
         \/ c.modified_at = NoTime /\ d.modified_at = NoTime /\ n.modified_at = NoTime,
         ~ Superseded(c, d), ~ Superseded(d, n)
  PROVE  ~ Superseded(c, n)
BY DownloadFacts DEF Superseded

\* No download is older than itself.
LEMMA SupersededIrreflexive ==
  ASSUME NEW d \in Download
  PROVE  ~ Superseded(d, d)
BY DownloadFacts DEF Superseded

\* GTFSNetwork's type invariant and CurrentIsNewest are inductive together.
NetworkInv == Installed!TypeOK /\ Installed!CurrentIsNewest

\* An installation that skipGTFSReason allows keeps the invariant: it is
\* newer than the network it replaces, hence than all before.
LEMMA InstallNetworkInv ==
  ASSUME NetworkInv, NEW i \in Import, NEW d \in Download, Installed!Install(i, d)
  PROVE  NetworkInv'
<1> DEFINE n == [import |-> i, download |-> d]
           cur == CurrentImport
           all == InstalledImports
<1>1. /\ cur' = n /\ all' = all \cup {n} /\ SkipReason(cur, d) = "none"
  BY SameOrder DEF Installed!Install
<1>2. n \in Installation /\ n.download = d /\ n # NoNetwork
  <2>1. n \in Installation /\ n.download = d
    BY DEF Installation
  <2> QED BY <2>1, NetworkAssumption
<1> HIDE DEF n, cur, all
<1>3. /\ cur \in Installation \cup {NoNetwork} /\ all \in SUBSET Installation
      /\ cur = NoNetwork <=> all = {}
      /\ cur # NoNetwork => cur \in all
  BY DEF NetworkInv, Installed!TypeOK, Installed!Installation, Installation, cur, all
<1>4. Installed!TypeOK'
  BY <1>1, <1>2, <1>3 DEF Installed!TypeOK, Installed!Installation, Installation, cur, all
<1>5. Installed!CurrentIsNewest'
  <2> SUFFICES ASSUME Installed!AllStamped' \/ Installed!NoneStamped', NEW p \in all \cup {n}
               PROVE  ~ Superseded(p.download, d)
    BY <1>1, <1>2, SameOrder DEF Installed!CurrentIsNewest, cur, all
  <2>1. CASE p = n
    BY <2>1, <1>2, SupersededIrreflexive
  <2>2. CASE p \in all
    <3>1. cur # NoNetwork /\ cur \in all /\ cur \in Installation /\ p \in Installation
      BY <1>3, <2>2
    <3>2. p.download \in Download /\ cur.download \in Download
      BY <3>1 DEF Installation
    <3>3. ~ Superseded(cur.download, d)
      BY <1>1, <3>1 DEF SkipReason
    <3>4. Installed!AllStamped \/ Installed!NoneStamped
      BY <1>1 DEF Installed!AllStamped, Installed!NoneStamped, all
    <3>5. ~ Superseded(p.download, cur.download)
      BY <2>2, <3>4, SameOrder DEF NetworkInv, Installed!CurrentIsNewest, cur, all
    <3>6. \/ /\ p.download.modified_at # NoTime /\ cur.download.modified_at # NoTime
             /\ d.modified_at # NoTime
          \/ /\ p.download.modified_at = NoTime /\ cur.download.modified_at = NoTime
             /\ d.modified_at = NoTime
      BY <1>1, <1>2, <2>2, <3>1 DEF Installed!AllStamped, Installed!NoneStamped, all
    <3> QED BY <3>2, <3>3, <3>5, <3>6, SupersededTransitive
  <2> QED BY <2>1, <2>2
<1> QED BY <1>4, <1>5 DEF NetworkInv

(***************************************************************************)
(* Whatever installs archives as GTFSNetwork says never takes the network  *)
(* back, while the source always sends Last-Modified or never does         *)
(* (skipGTFSReason, CompleteImport).                                       *)
(***************************************************************************)
THEOREM NetworkNeverRegresses == Installed!Spec => []CurrentIsNewest
<1>1. Installed!Init => NetworkInv
  BY DEF Installed!Init, NetworkInv, Installed!TypeOK, Installed!CurrentIsNewest
<1>2. NetworkInv /\ [Installed!Next]_(Installed!vars) => NetworkInv'
  <2> SUFFICES ASSUME NetworkInv, [Installed!Next]_(Installed!vars) PROVE NetworkInv'
    OBVIOUS
  <2>1. CASE Installed!Next
    BY <2>1, InstallNetworkInv DEF Installed!Next
  <2>2. CASE UNCHANGED Installed!vars
    BY <2>2 DEF Installed!vars, NetworkInv, Installed!TypeOK, Installed!CurrentIsNewest,
                Installed!AllStamped, Installed!NoneStamped
  <2> QED BY <2>1, <2>2
<1>3. NetworkInv => CurrentIsNewest
  BY DEF NetworkInv, CurrentIsNewest
<1> QED BY <1>1, <1>2, <1>3, PTL DEF Installed!Spec

(***************************************************************************)
(* CurrentIsNewest: concurrent imports never take the network back, while  *)
(* the source always sends Last-Modified, or never does.  GTFSNetwork's    *)
(* promise, carried over by the refinement.                                *)
(***************************************************************************)
THEOREM ImportsNeverRegress == Spec => []CurrentIsNewest
BY ImportImplementsNetwork, NetworkNeverRegresses, PTL DEF ImplementsNetwork

=============================================================================
