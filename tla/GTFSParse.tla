----------------------------- MODULE GTFSParse ------------------------------
(***************************************************************************)
(* ParseArchive (internal/gtfs/parse.go), record by record: what it keeps  *)
(* of routes.txt, stops.txt, trips.txt and stop_times.txt, and where it    *)
(* gives up; then the insertion of what it accepted into tables with       *)
(* constraints of their own (internal/database/gtfs.go, migration 00003)   *)
(* and the view that finds a stop's station again (migration 00005).       *)
(* GTFSImport sees only the outcome.                                       *)
(***************************************************************************)
EXTENDS Naturals, Sequences, FiniteSets

CONSTANTS
  RouteId, StopId, TripId,  \* the ids files mention
  NoId,                     \* an empty id
  MaxRouteRecords, MaxStopRecords, MaxTripRecords, MaxStopTimeRows, MaxRelations

ASSUME ParseAssumption ==
  /\ NoId \notin RouteId \cup StopId \cup TripId
  /\ {MaxRouteRecords, MaxStopRecords, MaxTripRecords, MaxStopTimeRows, MaxRelations} \subseteq Nat

\* Records as read.  defect: the first thing wrong with the other fields, a
\* number that does not parse or no name or coordinates.  fits: the columns
\* can hold the values (CHAR(6) colours, 32-bit integers, valid text).
RouteRow ==
  [route_id : RouteId \cup {NoId}, defect : {"none", "number", "name"}, fits : BOOLEAN]

StopRow ==
  [stop_id : StopId \cup {NoId}, location_type : 0..5, parent_station : StopId \cup {NoId},
   defect : {"none", "number", "name", "coordinates"}, fits : BOOLEAN]

TripRow == [trip_id : TripId \cup {NoId}, route_id : RouteId \cup {NoId}]

StopTimeRow == [trip_id : TripId, stop_id : StopId]

Stop == [id : StopId, location_type : 0..4, parent_station : StopId \cup {NoId}]

VARIABLES
  stage,      \* the file being read, or how it ended
  routes,     \* Dataset.Routes, the ids
  stops,      \* Dataset.Stops
  fits,       \* the columns can hold every value of Routes and Stops
  trips,      \* trips[t]: the route of trip t, or NoId
  stopTimes,  \* rows of stop_times.txt read so far
  relations   \* Dataset.RouteStations

parseVars == <<stage, routes, stops, fits, trips, stopTimes, relations>>

ParseTypeOK ==
  /\ stage \in {"routes", "stops", "trips", "stop_times", "accepted", "rejected",
                "loaded", "refused"}
  /\ routes \in Seq(RouteId)
  /\ stops \in Seq(Stop)
  /\ fits \in BOOLEAN
  /\ trips \in [TripId -> RouteId \cup {NoId}]
  /\ stopTimes \in 0..MaxStopTimeRows
  /\ relations \in SUBSET (RouteId \X StopId)

ParseInit ==
  /\ stage = "routes"
  /\ routes = <<>> /\ stops = <<>> /\ fits = TRUE
  /\ trips = [t \in TripId |-> NoId]
  /\ stopTimes = 0 /\ relations = {}

dataset == <<routes, stops, fits, trips, stopTimes, relations>>

GoTo(next) == stage' = next /\ UNCHANGED dataset

Reject == GoTo("rejected")

\* A missing or duplicate entry, a file or record too long, a CSV error.
ReadFails == stage \in {"routes", "stops", "trips", "stop_times"} /\ Reject

-----------------------------------------------------------------------------
(* routes.txt.                                                             *)

RouteIds == {routes[n] : n \in DOMAIN routes}

RouteAllowed(row) ==
  /\ row.defect = "none" /\ row.route_id \notin RouteIds \cup {NoId}
  /\ Len(routes) < MaxRouteRecords

ParseRoute(row) ==
  /\ stage = "routes"
  /\ \/ /\ RouteAllowed(row)
        /\ routes' = Append(routes, row.route_id)
        /\ fits' = (fits /\ row.fits)
        /\ UNCHANGED <<stage, stops, trips, stopTimes, relations>>
     \/ ~ RouteAllowed(row) /\ Reject

EndRoutes == stage = "routes" /\ GoTo("stops")

-----------------------------------------------------------------------------
(* stops.txt.                                                              *)

StopIds == {stops[n].id : n \in DOMAIN stops}

StopOf(id) == CHOOSE s \in {stops[n] : n \in DOMAIN stops} : s.id = id

LocationType(id) == StopOf(id).location_type

Parent(id) == StopOf(id).parent_station

\* Name and coordinates are required of the location types up to 2.
StopAllowed(row) ==
  /\ row.stop_id \notin StopIds \cup {NoId}
  /\ row.defect # "number" /\ row.location_type <= 4
  /\ row.location_type <= 2 => row.defect = "none"
  /\ Len(stops) < MaxStopRecords

ParseStop(row) ==
  /\ stage = "stops"
  /\ \/ /\ StopAllowed(row)
        /\ stops' = Append(stops, [id |-> row.stop_id, location_type |-> row.location_type,
                                   parent_station |-> row.parent_station])
        /\ fits' = (fits /\ row.fits)
        /\ UNCHANGED <<stage, routes, trips, stopTimes, relations>>
     \/ ~ StopAllowed(row) /\ Reject

\* Mutant: any parent that exists will do.
ParentAllowedAnyType(id) ==
  CASE LocationType(id) = 0 -> Parent(id) \in StopIds \cup {NoId}
    [] LocationType(id) = 1 -> Parent(id) = NoId
    [] OTHER -> Parent(id) \in StopIds

\* The switch over the location type and expectedParentType.
ParentAllowed(id) ==
  LET IsA(p, type) == p \in StopIds /\ LocationType(p) = type
  IN  /\ LocationType(id) = 0 => Parent(id) = NoId \/ IsA(Parent(id), 1)
      /\ LocationType(id) = 1 => Parent(id) = NoId
      /\ LocationType(id) \in {2, 3} => IsA(Parent(id), 1)
      /\ LocationType(id) = 4 => IsA(Parent(id), 0)

\* Mutant: only the direct parent is looked at.
ResolveStationDirect(id) ==
  IF LocationType(id) = 1 THEN {id}
  ELSE IF Parent(id) = NoId THEN {} ELSE {Parent(id)}

\* resolveStation: the station above a stop, as a set; "cycle" for its error.
ResolveStation(id) ==
  LET resolve[call \in StopIds \X SUBSET StopIds] ==
        LET s == call[1]
            visiting == call[2]
        IN  IF s \in visiting THEN {"cycle"}
            ELSE IF LocationType(s) = 1 THEN {s}
            ELSE IF Parent(s) = NoId THEN {}
            ELSE resolve[<<Parent(s), visiting \cup {s}>>]
  IN  resolve[<<id, {}>>]

Resolved == {id \in StopIds : LocationType(id) \in {0, 4}}

\* stopStations[id], as a set of at most one.
StopStation(id) == IF id \in Resolved THEN ResolveStation(id) ELSE {}

Stations == {id \in StopIds : LocationType(id) = 1}

StopsAllowed ==
  /\ \A id \in StopIds : ParentAllowed(id)
  /\ \A id \in Resolved : "cycle" \notin ResolveStation(id)

EndStops ==
  /\ stage = "stops"
  /\ IF StopsAllowed THEN GoTo("trips") ELSE Reject

-----------------------------------------------------------------------------
(* trips.txt and stop_times.txt.                                           *)

Trips == {t \in TripId : trips[t] # NoId}

TripAllowed(row) ==
  /\ row.trip_id \notin Trips \cup {NoId} /\ row.route_id \in RouteIds
  /\ Cardinality(Trips) < MaxTripRecords

ParseTrip(row) ==
  /\ stage = "trips"
  /\ \/ /\ TripAllowed(row)
        /\ trips' = [trips EXCEPT ![row.trip_id] = row.route_id]
        /\ UNCHANGED <<stage, routes, stops, fits, stopTimes, relations>>
     \/ ~ TripAllowed(row) /\ Reject

EndTrips == stage = "trips" /\ GoTo("stop_times")

RelationsWith(row) ==
  relations \cup {<<trips[row.trip_id], station>> : station \in StopStation(row.stop_id)}

StopTimeAllowed(row) ==
  /\ stopTimes < MaxStopTimeRows
  /\ row.trip_id \in Trips
  /\ StopStation(row.stop_id) # {} /\ StopStation(row.stop_id) \subseteq Stations
  /\ Cardinality(RelationsWith(row)) <= MaxRelations

ParseStopTime(row) ==
  /\ stage = "stop_times"
  /\ \/ /\ StopTimeAllowed(row)
        /\ stopTimes' = stopTimes + 1
        /\ relations' = RelationsWith(row)
        /\ UNCHANGED <<stage, routes, stops, fits, trips>>
     \/ ~ StopTimeAllowed(row) /\ Reject

\* The check that ends ParseArchive.
NonEmpty ==
  /\ RouteIds # {} /\ StopIds # {} /\ Stations # {}
  /\ Trips # {} /\ stopTimes > 0 /\ relations # {}

EndStopTimes ==
  /\ stage = "stop_times"
  /\ IF NonEmpty THEN GoTo("accepted") ELSE Reject

-----------------------------------------------------------------------------
(* What the tables accept, and the view over them.                         *)

Unique(ids) == \A m, n \in DOMAIN ids : ids[m] = ids[n] => m = n

\* The primary key of routes.
RoutesAccept == Unique(routes)

\* The primary key, the CHECKs and the deferred foreign key of stops.
StopsAccept ==
  /\ Unique([n \in DOMAIN stops |-> stops[n].id])
  /\ \A n \in DOMAIN stops :
       LET stop == stops[n]
           expected_parent_location_type == IF stop.location_type = 4 THEN 0 ELSE 1
       IN  /\ stop.location_type \in 0..4
           /\ stop.location_type = 1 => stop.parent_station = NoId
           /\ stop.location_type \in {2, 3, 4} => stop.parent_station # NoId
           /\ stop.parent_station # NoId =>
                \E p \in DOMAIN stops :
                  /\ stops[p].id = stop.parent_station
                  /\ stops[p].location_type = expected_parent_location_type

\* The foreign keys of route_stations: a route, and a stop that is a station.
RouteStationsAccept == relations \subseteq RouteIds \X Stations

Constraints == RoutesAccept /\ StopsAccept /\ RouteStationsAccept

\* insertRoutes, insertStops, insertRouteStations and the commit that checks
\* the deferred foreign key: the rows go in, or the transaction fails.
Load ==
  /\ stage = "accepted"
  /\ GoTo(IF fits /\ Constraints THEN "loaded" ELSE "refused")

\* ancestors of the view, from one stop: the stops reached in n joins; no
\* join goes beyond a station.  Paths never repeat a stop, so as many joins as
\* there are stops reach everything.
Ancestors(id) ==
  LET Joined(found) ==
        {Parent(s) : s \in {f \in found : LocationType(f) # 1}} \cap StopIds
      after[n \in 0..MaxStopRecords] ==
        IF n = 0 THEN {id} ELSE after[n - 1] \cup Joined(after[n - 1])
  IN  after[MaxStopRecords]

\* stop_parent_stations: the stations of one stop.
StopParentStations(id) == {s \in Ancestors(id) : LocationType(s) = 1}

ParseNext ==
  \/ \E row \in RouteRow : ParseRoute(row)
  \/ \E row \in StopRow : ParseStop(row)
  \/ \E row \in TripRow : ParseTrip(row)
  \/ \E row \in StopTimeRow : ParseStopTime(row)
  \/ EndRoutes \/ EndStops \/ EndTrips \/ EndStopTimes
  \/ ReadFails
  \/ Load

ParseSpec == ParseInit /\ [][ParseNext]_parseVars

-----------------------------------------------------------------------------
(* Properties.                                                             *)

\* What ParseArchive accepts the tables accept too: ReplaceGTFS fails on a
\* parsed data set only because a column cannot hold a value, never on a key,
\* a CHECK or a foreign key.
AcceptedIsLoadable ==
  /\ stage = "accepted" => Constraints
  /\ stage = "refused" => ~ fits

\* The parser and the view over the loaded tables, two separate walks up the
\* parents, send every stop that trains call at to the same one station.
StationsAgree ==
  stage = "loaded" =>
    \A id \in Resolved :
      /\ StopStation(id) = StopParentStations(id)
      /\ Cardinality(StopStation(id)) <= 1

=============================================================================
