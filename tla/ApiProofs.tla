------------------------------ MODULE ApiProofs -----------------------------
(***************************************************************************)
(* What the API serves, whatever the numbers of queries and runs:          *)
(* RequestPath, the queries that share one API process, and                *)
(* IngestionStatus, what the status endpoint reports of the runs.          *)
(***************************************************************************)
EXTENDS RequestPath, IngestionStatus, FiniteSetTheorems, TLAPS

-----------------------------------------------------------------------------
(* Requests and their answers.                                             *)

CallRecord ==
  [pc : {"idle", "paused", "fetch", "body", "retry", "done", "cancelled"},
   failures : {0, 1}, timer : BOOLEAN, reason : {"none", "timeout", "caller"},
   promise : {"pending", "resolved", "rejected"}, result : Result \cup {"none"}]

ExchangeRecord ==
  [wire : {"none", "sent", "headers", "complete", "broken"},
   handler : {"none", "running", "writing", "ended", "killed"},
   ctx : {"live", "cancelled"}, status : Status \cup {"none"}]

-----------------------------------------------------------------------------

Underway(q) == call[q].pc \in {"fetch", "body"}

(***************************************************************************)
(* The inductive invariant.  Of a call of getJson: the timer and the       *)
(* promise are its own while it lasts, an abort is noticed while it lasts, *)
(* a body is read only after a status came, and fails to be read only on a *)
(* broken connection unless something aborted it.                          *)
(***************************************************************************)
CallOK(q) ==
  /\ ~ Underway(q) => ~ call[q].timer /\ call[q].promise = "pending"
  /\ Underway(q) /\ q \in aborted => call[q].reason # "none"
  /\ call[q].reason = "caller" => q \in aborted
  /\ call[q].pc = "body" \/ call[q].promise = "resolved" => exchange[Current(q)].status # "none"
  /\ call[q].pc = "body" /\ call[q].promise = "rejected" /\ call[q].reason = "none" =>
       exchange[Current(q)].wire = "broken"

\* FirstAbortDecides, of one query.
FirstOK(q) ==
  Settled(q) =>
    /\ call[q].reason = "timeout" <=> call[q].result = "request_timeout"
    /\ call[q].reason = "caller" => call[q].result = "aborted"
    /\ call[q].result = "aborted" => q \in aborted

\* OnlyRealErrorsAreFinal, of one query.
FinalOK(q) ==
  call[q].pc = "done" =>
    CASE call[q].result = "data"             -> resource[q] = "found"
      [] call[q].result = "not_found"        -> resource[q] = "missing"
      [] call[q].result = "bad_request"      -> resource[q] = "invalid"
      [] call[q].result = "invalid_response" ->
           \/ resource[q] = "skewed"
           \/ exchange[Current(q)].wire = "broken" /\ exchange[Current(q)].status # "none"
      [] call[q].result = "aborted"          -> q \in aborted
      [] OTHER                               -> call[q].failures = 1

QueryOK(q) == CallOK(q) /\ FirstOK(q) /\ FinalOK(q)

\* Headers go out only with a status, and a status says what is so.
ExchangeOK(r) ==
  /\ exchange[r].wire \in {"headers", "complete"} \/ exchange[r].handler = "writing" =>
       exchange[r].status # "none"
  /\ exchange[r].status = "ok" => resource[r[1]] \in {"found", "skewed"}
  /\ exchange[r].status = "not_found" => resource[r[1]] = "missing"
  /\ exchange[r].status = "bad_request" => resource[r[1]] = "invalid"

\* run closes the pool only after it cancelled every request, and returns
\* without an error only if no handler was left.
ServerOK ==
  /\ db = "closed" <=> api \in {"closed", "exited"}
  /\ api \in {"cancelled", "closed", "exited"} =>
       \A r \in Request : exchange[r].ctx = "cancelled"
  /\ api \in {"returning", "cancelled", "closed", "exited"} =>
       exit = "error" \/ \A r \in Request : ~ Active(r)
  /\ \A r \in Request : exchange[r].handler = "killed" => api = "exited" /\ exit = "error"

PathInv ==
  /\ TypeOK /\ ServerOK
  /\ \A q \in Query : QueryOK(q)
  /\ \A r \in Request : ExchangeOK(r)

-----------------------------------------------------------------------------

\* The type invariant with the records named.
LEMMA Types ==
  TypeOK <=>
    /\ resource \in [Query -> Resource] /\ aborted \in SUBSET Query
    /\ browser \in SUBSET Conditions
    /\ call \in [Query -> CallRecord] /\ exchange \in [Request -> ExchangeRecord]
    /\ api \in {"serving", "draining", "closing", "returning", "cancelled", "closed", "exited"}
    /\ db \in {"open", "closed"} /\ exit \in {"none", "clean", "error"}
BY DEF TypeOK, CallRecord, ExchangeRecord

\* The request a call waits for is one of its own two.
LEMMA CurrentFacts ==
  ASSUME TypeOK, NEW q \in Query
  PROVE  /\ Current(q) \in Request /\ Current(q)[1] = q
         /\ \A p \in Query, n \in Attempt : p # q => Current(q) # <<p, n>>
<1>1. call[q].failures \in {0, 1}
  BY Types DEF CallRecord
<1> QED BY <1>1 DEF Current, Request, Attempt

(***************************************************************************)
(* Whatever happens to the exchanges, a status stays a status and a broken *)
(* connection stays broken; the calls need no more.                        *)
(***************************************************************************)
Onward ==
  \A r \in Request :
    /\ exchange[r].status # "none" => exchange'[r].status # "none"
    /\ exchange[r].wire = "broken" => exchange'[r].wire = "broken"

\* A step of handlers and network keeps what is said of the calls.
LEMMA CallsKept ==
  ASSUME PathInv, UNCHANGED <<resource, aborted, call>>, Onward, NEW q \in Query
  PROVE  QueryOK(q)'
<1>1. Current(q)' = Current(q) /\ Current(q) \in Request
  BY CurrentFacts DEF Current, PathInv
<1>2. /\ exchange[Current(q)].status # "none" => exchange'[Current(q)].status # "none"
      /\ exchange[Current(q)].wire = "broken" => exchange'[Current(q)].wire = "broken"
  BY <1>1 DEF Onward
<1>3. CallOK(q)'
  BY <1>1, <1>2 DEF PathInv, QueryOK, CallOK, Underway
<1>4. FirstOK(q)'
  BY DEF PathInv, QueryOK, FirstOK, Settled
<1>5. FinalOK(q)'
  BY <1>1, <1>2 DEF PathInv, QueryOK, FinalOK
<1> QED BY <1>3, <1>4, <1>5 DEF QueryOK

(***************************************************************************)
(* A step of one call leaves the others as they are.                       *)
(***************************************************************************)
LEMMA ClientStep ==
  ASSUME PathInv, NEW q \in Query, UNCHANGED <<resource, browser, exchange, serverVars>>,
         NEW c \in CallRecord, call' = [call EXCEPT ![q] = c],
         aborted' \in {aborted, aborted \cup {q}}, QueryOK(q)'
  PROVE  PathInv'
<1>1. TypeOK'
  BY DEF PathInv, TypeOK, CallRecord, ExchangeRecord, serverVars
<1>2. ASSUME NEW p \in Query, p # q PROVE QueryOK(p)'
  <2>1. call'[p] = call[p] /\ (p \in aborted' <=> p \in aborted)
    BY <1>2, Types DEF PathInv
  <2>2. Current(p)' = Current(p)
    BY <2>1 DEF Current
  <2>3. CallOK(p)'
    BY <2>1, <2>2 DEF PathInv, QueryOK, CallOK, Underway
  <2>4. FirstOK(p)'
    BY <2>1 DEF PathInv, QueryOK, FirstOK, Settled
  <2>5. FinalOK(p)'
    BY <2>1, <2>2 DEF PathInv, QueryOK, FinalOK
  <2> QED BY <2>3, <2>4, <2>5 DEF QueryOK
<1>3. ServerOK'
  BY DEF PathInv, ServerOK, Active, serverVars
<1>4. \A r \in Request : ExchangeOK(r)'
  BY DEF PathInv, ExchangeOK
<1> QED BY <1>1, <1>2, <1>3, <1>4 DEF PathInv

(***************************************************************************)
(* A step on the exchanges leaves the calls as they are.                   *)
(***************************************************************************)
LEMMA ServerStep ==
  ASSUME PathInv, UNCHANGED clientVars, Onward, exchange' \in [Request -> ExchangeRecord],
         api' \in {"serving", "draining", "closing", "returning", "cancelled", "closed",
                   "exited"},
         db' \in {"open", "closed"}, exit' \in {"none", "clean", "error"},
         ServerOK', \A r \in Request : ExchangeOK(r)'
  PROVE  PathInv'
<1>1. TypeOK'
  BY DEF PathInv, TypeOK, CallRecord, ExchangeRecord, clientVars
<1>2. \A q \in Query : QueryOK(q)'
  BY CallsKept DEF clientVars
<1> QED BY <1>1, <1>2 DEF PathInv

-----------------------------------------------------------------------------
(* The client's steps.                                                     *)

\* What the invariant says of one call.
LEMMA OfQuery ==
  ASSUME PathInv, NEW q \in Query
  PROVE  call[q] \in CallRecord /\ CallOK(q) /\ FirstOK(q) /\ FinalOK(q)
BY Types DEF PathInv, QueryOK

(***************************************************************************)
(* A new attempt sends a request of its own; every other call waits for    *)
(* another.                                                                *)
(***************************************************************************)
LEMMA GetJsonStep == ASSUME PathInv, NEW q \in Query, GetJson(q) PROVE PathInv'
<1>1. PICK n \in {0, 1} :
        /\ call' = [call EXCEPT ![q] =
                      [@ EXCEPT !.pc = "fetch", !.failures = n, !.timer = TRUE,
                                !.reason = "none", !.result = "none"]]
        /\ exchange' = [exchange EXCEPT ![<<q, n + 1>>].wire = "sent"]
  BY DEF GetJson
<1> DEFINE r == <<q, n + 1>>
           c == [call[q] EXCEPT !.pc = "fetch", !.failures = n, !.timer = TRUE,
                                !.reason = "none", !.result = "none"]
<1>2. /\ r \in Request /\ n + 1 \in Attempt /\ q \notin aborted
      /\ call[q].pc \in {"idle", "paused", "retry"}
      /\ UNCHANGED <<resource, browser, aborted, serverVars>>
  BY DEF GetJson, MayStart, Request, Attempt
<1>3. /\ c \in CallRecord /\ c.pc = "fetch" /\ c.reason = "none"
      /\ c.promise = call[q].promise
  BY OfQuery DEF CallRecord
<1>4. call' = [call EXCEPT ![q] = c] /\ call'[q] = c
  BY <1>1, Types DEF PathInv
<1>5. /\ exchange' \in [Request -> ExchangeRecord]
      /\ \A x \in Request : /\ x # r => exchange'[x] = exchange[x]
                            /\ exchange'[x].handler = exchange[x].handler
                            /\ exchange'[x].ctx = exchange[x].ctx
                            /\ exchange'[x].status = exchange[x].status
      /\ exchange'[r].wire = "sent"
  BY <1>1, <1>2, Types DEF PathInv, ExchangeRecord
<1> HIDE DEF c
<1>6. TypeOK'
  BY <1>2, <1>3, <1>4, <1>5 DEF PathInv, TypeOK, CallRecord, ExchangeRecord, serverVars
<1>7. QueryOK(q)'
  <2>1. call[q].promise = "pending"
    BY <1>2, OfQuery DEF CallOK, Underway
  <2> QED BY <1>2, <1>3, <1>4, <2>1 DEF QueryOK, CallOK, FirstOK, FinalOK, Underway, Settled
<1>8. ASSUME NEW p \in Query, p # q PROVE QueryOK(p)'
  <2>1. call'[p] = call[p] /\ Current(p)' = Current(p)
    BY <1>4, <1>8, Types DEF PathInv, Current
  <2>2. exchange'[Current(p)] = exchange[Current(p)]
    BY <1>2, <1>5, <1>8, CurrentFacts DEF PathInv
  <2>3. CallOK(p)'
    BY <1>2, <2>1, <2>2, OfQuery DEF CallOK, Underway
  <2>4. FirstOK(p)'
    BY <1>2, <2>1, OfQuery DEF FirstOK, Settled
  <2>5. FinalOK(p)'
    BY <1>2, <2>1, <2>2, OfQuery DEF FinalOK
  <2> QED BY <2>3, <2>4, <2>5 DEF QueryOK
<1>9. ServerOK'
  BY <1>2, <1>5 DEF PathInv, ServerOK, Active, serverVars
<1>10. \A x \in Request : ExchangeOK(x)'
  BY <1>2, <1>5 DEF PathInv, ExchangeOK
<1> QED BY <1>6, <1>7, <1>8, <1>9, <1>10 DEF PathInv

(***************************************************************************)
(* A first fetch waits for the network.                                    *)
(***************************************************************************)
LEMMA PauseFetchStep == ASSUME PathInv, NEW q \in Query, PauseFetch(q) PROVE PathInv'
<1> DEFINE c == [call[q] EXCEPT !.pc = "paused"]
<1>1. /\ c \in CallRecord /\ c.pc = "paused" /\ c.reason = call[q].reason
      /\ c.promise = call[q].promise /\ c.timer = call[q].timer
  BY OfQuery DEF CallRecord
<1>2. call' = [call EXCEPT ![q] = c] /\ call'[q] = c /\ call[q].pc = "idle"
      /\ UNCHANGED <<resource, browser, aborted, exchange, serverVars>>
  BY Types DEF PathInv, PauseFetch
<1> HIDE DEF c
<1>3. QueryOK(q)'
  BY <1>1, <1>2, OfQuery DEF QueryOK, CallOK, FirstOK, FinalOK, Underway, Settled
<1> QED BY <1>1, <1>2, <1>3, ClientStep

(***************************************************************************)
(* The network or the page's visibility changes: no call does.             *)
(***************************************************************************)
LEMMA BrowserChangesStep ==
  ASSUME PathInv, NEW condition \in Conditions, BrowserChanges(condition)
  PROVE  PathInv'
<1>1. /\ UNCHANGED <<resource, aborted, call, exchange, serverVars>>
      /\ browser' \in SUBSET Conditions
  BY Types DEF PathInv, BrowserChanges
<1>2. \A q \in Query : QueryOK(q)'
  BY <1>1, CallsKept DEF Onward
<1>3. TypeOK' /\ ServerOK' /\ \A r \in Request : ExchangeOK(r)'
  BY <1>1 DEF PathInv, TypeOK, ServerOK, Active, ExchangeOK, serverVars
<1> QED BY <1>2, <1>3 DEF PathInv

(***************************************************************************)
(* An abort before the call, or before the retry, ends it.                 *)
(***************************************************************************)
LEMMA GetJsonAbortedStep == ASSUME PathInv, NEW q \in Query, GetJsonAborted(q) PROVE PathInv'
<1> DEFINE c == [call[q] EXCEPT !.pc = "cancelled"]
<1>1. /\ c \in CallRecord /\ c.pc = "cancelled" /\ c.reason = call[q].reason
      /\ c.promise = call[q].promise /\ c.timer = call[q].timer
  BY OfQuery DEF CallRecord
<1>2. call' = [call EXCEPT ![q] = c] /\ call'[q] = c
      /\ call[q].pc \in {"idle", "paused", "retry"}
      /\ UNCHANGED <<resource, browser, aborted, exchange, serverVars>>
  BY Types DEF PathInv, GetJsonAborted
<1> HIDE DEF c
<1>3. QueryOK(q)'
  BY <1>1, <1>2, OfQuery DEF QueryOK, CallOK, FirstOK, FinalOK, Underway, Settled
<1> QED BY <1>1, <1>2, <1>3, ClientStep

(***************************************************************************)
(* The deadline passes: the first reason stays.                            *)
(***************************************************************************)
LEMMA TimeoutStep == ASSUME PathInv, NEW q \in Query, Timeout(q) PROVE PathInv'
<1> DEFINE c == [Abort(call[q], "timeout") EXCEPT !.timer = FALSE]
<1>1. /\ c \in CallRecord /\ c.pc = call[q].pc /\ c.promise = call[q].promise
      /\ c.failures = call[q].failures
      /\ c.reason = IF call[q].reason = "none" THEN "timeout" ELSE call[q].reason
  BY OfQuery DEF CallRecord, Abort
<1>2. call' = [call EXCEPT ![q] = c] /\ call'[q] = c
      /\ call[q].timer /\ UNCHANGED <<resource, browser, aborted, exchange, serverVars>>
  BY Types DEF PathInv, Timeout
<1> HIDE DEF c
<1>3. Underway(q) /\ Current(q)' = Current(q)
  BY <1>1, <1>2, OfQuery DEF CallOK, Current
<1>4. QueryOK(q)'
  BY <1>1, <1>2, <1>3, OfQuery DEF QueryOK, CallOK, FirstOK, FinalOK, Underway, Settled
<1> QED BY <1>1, <1>2, <1>4, ClientStep

(***************************************************************************)
(* The caller aborts: a call that lasts notices, unless the deadline came  *)
(* first.                                                                  *)
(***************************************************************************)
LEMMA CallerAbortsStep == ASSUME PathInv, NEW q \in Query, CallerAborts(q) PROVE PathInv'
<1> DEFINE c == IF Underway(q) THEN Abort(call[q], "caller") ELSE call[q]
<1>1. /\ c \in CallRecord /\ c.pc = call[q].pc /\ c.promise = call[q].promise
      /\ c.failures = call[q].failures /\ c.timer = call[q].timer /\ c.result = call[q].result
      /\ c.reason = IF Underway(q) /\ call[q].reason = "none" THEN "caller" ELSE call[q].reason
  BY OfQuery DEF CallRecord, Abort
<1>2. call' = [call EXCEPT ![q] = c] /\ call'[q] = c
      /\ call[q].pc # "done" /\ aborted' = aborted \cup {q}
      /\ UNCHANGED <<resource, browser, exchange, serverVars>>
  BY Types DEF PathInv, CallerAborts, Underway
<1> HIDE DEF c
<1>3. Current(q)' = Current(q)
  BY <1>1, <1>2 DEF Current
<1>4. CallOK(q)'
  BY <1>1, <1>2, <1>3, OfQuery DEF CallOK, Underway
<1>5. FirstOK(q)'
  BY <1>1, <1>2, OfQuery DEF FirstOK, Settled, Underway
<1>6. FinalOK(q)'
  BY <1>1, <1>2 DEF FinalOK
<1> QED BY <1>1, <1>2, <1>4, <1>5, <1>6, ClientStep DEF QueryOK

(***************************************************************************)
(* A promise resolves only on what really came, and is rejected only for a *)
(* reason or on a broken connection.                                       *)
(***************************************************************************)
LEMMA PromiseSettlesStep == ASSUME PathInv, NEW q \in Query, PromiseSettles(q) PROVE PathInv'
<1>1. PICK o \in {"resolved", "rejected"} :
        /\ call' = [call EXCEPT ![q].promise = o]
        /\ o = "resolved" => exchange[Current(q)].wire \in {"headers", "complete"}
        /\ o = "rejected" => exchange[Current(q)].wire = "broken" \/ call[q].reason # "none"
  BY DEF PromiseSettles, FetchOutcomes, BodyOutcomes
<1> DEFINE c == [call[q] EXCEPT !.promise = o]
<1>2. /\ c \in CallRecord /\ c.pc = call[q].pc /\ c.promise = o /\ c.timer = call[q].timer
      /\ c.failures = call[q].failures /\ c.reason = call[q].reason
  BY OfQuery DEF CallRecord
<1>3. call' = [call EXCEPT ![q] = c] /\ call'[q] = c
      /\ call[q].pc \in {"fetch", "body"}
      /\ UNCHANGED <<resource, browser, aborted, exchange, serverVars>>
  BY <1>1, Types DEF PathInv, PromiseSettles
<1> HIDE DEF c
<1>4. Current(q)' = Current(q)
  BY <1>2, <1>3 DEF Current
<1>5. o = "resolved" => exchange[Current(q)].status # "none"
  BY <1>1, CurrentFacts DEF PathInv, ExchangeOK
<1>6. CallOK(q)'
  BY <1>1, <1>2, <1>3, <1>4, <1>5, OfQuery DEF CallOK, Underway
<1>7. FirstOK(q)' /\ FinalOK(q)'
  BY <1>2, <1>3 DEF FirstOK, FinalOK, Settled
<1> QED BY <1>2, <1>3, <1>6, <1>7, ClientStep DEF QueryOK

\* What a result may say, if neither the deadline nor the caller came first.
ResultOK(q, result) ==
  /\ result \in Result \ {"request_timeout", "aborted"}
  /\ result = "data" => resource[q] = "found"
  /\ result = "not_found" => resource[q] = "missing"
  /\ result = "bad_request" => resource[q] = "invalid"
  /\ result = "invalid_response" /\ call[q].reason = "none" =>
       \/ resource[q] = "skewed"
       \/ exchange[Current(q)].wire = "broken" /\ exchange[Current(q)].status # "none"

(***************************************************************************)
(* The end of getJson.                                                     *)
(***************************************************************************)
LEMMA SettleStep ==
  ASSUME PathInv, NEW q \in Query, NEW result, ResultOK(q, result),
         call[q].pc \in {"fetch", "body"}, Settle(q, Unless(q, result)),
         UNCHANGED <<resource, browser, aborted, exchange, serverVars>>
  PROVE  PathInv'
<1> DEFINE u == Unless(q, result)
           place == IF ShouldRetryRequest(call[q].failures, u) THEN "retry" ELSE "done"
           c == [call[q] EXCEPT !.pc = place, !.timer = FALSE, !.promise = "pending",
                                !.result = u]
<1>1. /\ u \in Result
      /\ call[q].reason = "timeout" <=> u = "request_timeout"
      /\ call[q].reason = "caller" => u = "aborted"
      /\ u = "aborted" => q \in aborted
      /\ u \notin {"request_timeout", "aborted"} => u = result /\ call[q].reason = "none"
  <2>1. call[q].reason \in {"none", "timeout", "caller"}
    BY OfQuery DEF CallRecord
  <2>2. q \in aborted => call[q].reason # "none"
    BY OfQuery DEF CallOK, Underway
  <2>3. call[q].reason = "caller" => q \in aborted
    BY OfQuery DEF CallOK
  <2> QED BY <2>1, <2>2, <2>3 DEF Unless, ResultOK, Result
<1>2. /\ call[q].failures \in {0, 1} /\ place \in {"retry", "done"}
      /\ place = "done" =>
           \/ call[q].failures = 1
           \/ u \in {"data", "not_found", "bad_request", "invalid_response", "aborted"}
  <2>1. call[q].failures \in {0, 1}
    BY OfQuery DEF CallRecord
  <2> HIDE DEF u
  <2> QED BY <1>1, <2>1 DEF ShouldRetryRequest, Result, Status
<1> HIDE DEF u, place
<1>3. /\ c \in CallRecord /\ c.pc = place /\ c.promise = "pending" /\ c.result = u
      /\ ~ c.timer /\ c.failures = call[q].failures /\ c.reason = call[q].reason
  BY <1>1, <1>2, OfQuery DEF CallRecord
<1>4. call' = [call EXCEPT ![q] = c] /\ call'[q] = c
  BY Types DEF PathInv, Settle, u, place
<1> HIDE DEF c
<1>5. Current(q)' = Current(q)
  BY <1>3, <1>4 DEF Current
<1>6. CallOK(q)'
  BY <1>2, <1>3, <1>4, OfQuery DEF CallOK, Underway
<1>7. FirstOK(q)'
  BY <1>1, <1>3, <1>4 DEF FirstOK
<1>8. FinalOK(q)'
  BY <1>1, <1>2, <1>3, <1>4, <1>5 DEF FinalOK, ResultOK
<1> QED BY <1>3, <1>4, <1>6, <1>7, <1>8, ClientStep DEF QueryOK

(***************************************************************************)
(* The headers came, or the fetch failed.                                  *)
(***************************************************************************)
LEMMA AfterFetchStep == ASSUME PathInv, NEW q \in Query, AfterFetch(q) PROVE PathInv'
<1>1. CASE call[q].promise = "resolved"
  <2> DEFINE c == [call[q] EXCEPT !.pc = "body", !.promise = "pending"]
  <2>1. /\ c \in CallRecord /\ c.pc = "body" /\ c.promise = "pending"
        /\ c.failures = call[q].failures /\ c.reason = call[q].reason
    BY OfQuery DEF CallRecord
  <2>2. call' = [call EXCEPT ![q] = c] /\ call'[q] = c
        /\ call[q].pc = "fetch" /\ UNCHANGED <<resource, browser, aborted, exchange, serverVars>>
    BY <1>1, Types DEF PathInv, AfterFetch
  <2> HIDE DEF c
  <2>3. Current(q)' = Current(q)
    BY <2>1, <2>2 DEF Current
  <2>4. QueryOK(q)'
    BY <1>1, <2>1, <2>2, <2>3, OfQuery
       DEF QueryOK, CallOK, FirstOK, FinalOK, Underway, Settled
  <2> QED BY <2>1, <2>2, <2>4, ClientStep
<1>2. CASE call[q].promise # "resolved"
  <2>1. /\ Settle(q, Unless(q, "network_error")) /\ call[q].pc = "fetch"
        /\ UNCHANGED <<resource, browser, aborted, exchange, serverVars>>
    BY <1>2 DEF AfterFetch
  <2>2. ResultOK(q, "network_error")
    BY DEF ResultOK, Result
  <2> QED BY <2>1, <2>2, SettleStep
<1> QED BY <1>1, <1>2

(***************************************************************************)
(* The body came, or could not be read.                                    *)
(***************************************************************************)
LEMMA AfterBodyStep == ASSUME PathInv, NEW q \in Query, AfterBody(q) PROVE PathInv'
<1> DEFINE e == exchange[Current(q)]
           result == IF call[q].promise = "resolved" THEN BodyResult(q) ELSE "invalid_response"
<1>1. /\ Settle(q, Unless(q, result)) /\ call[q].pc = "body" /\ call[q].promise # "pending"
      /\ UNCHANGED <<resource, browser, aborted, exchange, serverVars>>
  BY DEF AfterBody
<1>2. e.status \in Status /\ ExchangeOK(Current(q))
  <2>1. e \in ExchangeRecord /\ ExchangeOK(Current(q))
    BY CurrentFacts, Types DEF PathInv
  <2>2. e.status # "none"
    BY <1>1, OfQuery DEF CallOK
  <2> QED BY <2>1, <2>2 DEF ExchangeRecord
<1>3. ResultOK(q, result)
  <2>1. CASE call[q].promise = "resolved"
    <3>1. result = BodyResult(q) /\ Current(q)[1] = q /\ resource[q] \in Resource
      BY <2>1, CurrentFacts, Types DEF PathInv
    <3>2. CASE e.status # "ok"
      <4>1. result = e.status
        BY <3>1, <3>2 DEF BodyResult
      <4> HIDE DEF e, result
      <4> QED BY <1>2, <3>1, <3>2, <4>1 DEF e, ResultOK, Result, Status, ExchangeOK
    <3>3. CASE e.status = "ok" /\ resource[q] = "skewed"
      <4>1. result = "invalid_response"
        BY <3>1, <3>3 DEF BodyResult
      <4> HIDE DEF result
      <4> QED BY <3>3, <4>1 DEF ResultOK, Result
    <3>4. CASE e.status = "ok" /\ resource[q] # "skewed"
      <4>1. result = "data"
        BY <3>1, <3>4 DEF BodyResult
      <4>2. resource[q] = "found"
        BY <1>2, <3>1, <3>4 DEF ExchangeOK
      <4> HIDE DEF result
      <4> QED BY <4>1, <4>2 DEF ResultOK, Result
    <3> QED BY <3>2, <3>3, <3>4
  <2>2. CASE call[q].promise # "resolved"
    <3>1. call[q].promise = "rejected" /\ result = "invalid_response"
      BY <1>1, <2>2, OfQuery DEF CallRecord
    <3>2. call[q].reason = "none" => e.wire = "broken"
      BY <1>1, <3>1, OfQuery DEF CallOK
    <3>3. e.status # "none"
      BY <1>2 DEF Status
    <3> HIDE DEF result
    <3> QED BY <3>1, <3>2, <3>3 DEF ResultOK, Result
  <2> QED BY <2>1, <2>2
<1> HIDE DEF result
<1> QED BY <1>1, <1>3, SettleStep

-----------------------------------------------------------------------------
(* The handlers and their connections.                                     *)

\* What the invariant says of one exchange.
LEMMA OfRequest ==
  ASSUME PathInv, NEW r \in Request
  PROVE  exchange[r] \in ExchangeRecord /\ ExchangeOK(r) /\ resource[r[1]] \in Resource
<1>1. r[1] \in Query
  BY DEF Request
<1> QED BY <1>1, Types DEF PathInv

\* What a step of one exchange may not do to it.
Proper(r, e) ==
  /\ e \in ExchangeRecord
  /\ exchange[r].status # "none" => e.status # "none"
  /\ exchange[r].wire = "broken" => e.wire = "broken"
  /\ exchange[r].ctx = "cancelled" => e.ctx = "cancelled"
  /\ e.handler = "killed" => exchange[r].handler = "killed"
  /\ e.handler \in {"running", "writing"} => Active(r) \/ HasConnections
  /\ e.wire \in {"headers", "complete"} \/ e.handler = "writing" => e.status # "none"
  /\ e.status = "ok" => resource[r[1]] \in {"found", "skewed"}
  /\ e.status = "not_found" => resource[r[1]] = "missing"
  /\ e.status = "bad_request" => resource[r[1]] = "invalid"

(***************************************************************************)
(* A step of one exchange, while run does nothing.                         *)
(***************************************************************************)
LEMMA ExchangeStep ==
  ASSUME PathInv, NEW r \in Request, NEW e, Proper(r, e),
         exchange' = [exchange EXCEPT ![r] = e], UNCHANGED <<clientVars, serverVars>>
  PROVE  PathInv'
<1>1. exchange \in [Request -> ExchangeRecord]
  BY Types DEF PathInv
<1>2. /\ exchange' \in [Request -> ExchangeRecord]
      /\ \A x \in Request : exchange'[x] = IF x = r THEN e ELSE exchange[x]
  BY <1>1 DEF Proper
<1>3. Onward
  BY <1>2 DEF Onward, Proper
<1>4. \A x \in Request : ExchangeOK(x)'
  BY <1>2 DEF PathInv, ExchangeOK, Proper, clientVars
<1>5. ServerOK'
  <2>1. \A x \in Request : Active(x)' => Active(x) \/ HasConnections
    BY <1>2 DEF Active, Proper
  <2>2. \A x \in Request : exchange[x].ctx = "cancelled" => exchange'[x].ctx = "cancelled"
    BY <1>2 DEF Proper
  <2>3. \A x \in Request : exchange'[x].handler = "killed" => exchange[x].handler = "killed"
    BY <1>2 DEF Proper
  <2> QED BY <2>1, <2>2, <2>3 DEF PathInv, ServerOK, HasConnections, serverVars
<1>6. UNCHANGED <<api, db, exit>> /\ UNCHANGED clientVars
  BY DEF serverVars
<1> QED BY <1>2, <1>3, <1>4, <1>5, <1>6, Types, ServerStep DEF PathInv

(***************************************************************************)
(* The connection breaks.                                                  *)
(***************************************************************************)
LEMMA BreakStep == ASSUME PathInv, NEW r \in Request, Break(r) PROVE PathInv'
<1> DEFINE e == [exchange[r] EXCEPT !.wire = "broken", !.ctx = "cancelled"]
<1>1. /\ e \in ExchangeRecord /\ e.wire = "broken" /\ e.ctx = "cancelled"
      /\ e.handler = exchange[r].handler /\ e.status = exchange[r].status
  BY OfRequest DEF ExchangeRecord
<1>2. exchange' = [exchange EXCEPT ![r] = e] /\ UNCHANGED <<clientVars, serverVars>>
  BY DEF Break
<1> HIDE DEF e
<1>3. Proper(r, e)
  BY <1>1, OfRequest DEF Proper, ExchangeOK, Active
<1> QED BY <1>2, <1>3, ExchangeStep

(***************************************************************************)
(* A connection brings the request, or nobody listens.                     *)
(***************************************************************************)
LEMMA AcceptStep == ASSUME PathInv, NEW r \in Request, Accept(r) PROVE PathInv'
<1>1. CASE HasConnections /\ exchange' = [exchange EXCEPT ![r].handler = "running"]
  <2> DEFINE e == [exchange[r] EXCEPT !.handler = "running"]
  <2>1. /\ e \in ExchangeRecord /\ e.handler = "running" /\ e.wire = exchange[r].wire
        /\ e.ctx = exchange[r].ctx /\ e.status = exchange[r].status
    BY OfRequest DEF ExchangeRecord
  <2>2. exchange' = [exchange EXCEPT ![r] = e] /\ UNCHANGED <<clientVars, serverVars>>
    BY <1>1 DEF Accept
  <2> HIDE DEF e
  <2>3. Proper(r, e)
    BY <1>1, <2>1, OfRequest DEF Proper, ExchangeOK
  <2> QED BY <2>2, <2>3, ExchangeStep
<1>2. CASE exchange' = [exchange EXCEPT ![r].wire = "broken"]
  <2> DEFINE e == [exchange[r] EXCEPT !.wire = "broken"]
  <2>1. /\ e \in ExchangeRecord /\ e.wire = "broken" /\ e.handler = exchange[r].handler
        /\ e.ctx = exchange[r].ctx /\ e.status = exchange[r].status
    BY OfRequest DEF ExchangeRecord
  <2>2. exchange' = [exchange EXCEPT ![r] = e] /\ UNCHANGED <<clientVars, serverVars>>
    BY <1>2 DEF Accept
  <2> HIDE DEF e
  <2>3. Proper(r, e)
    BY <2>1, OfRequest DEF Proper, ExchangeOK, Active
  <2> QED BY <2>2, <2>3, ExchangeStep
<1> QED BY <1>1, <1>2 DEF Accept

(***************************************************************************)
(* What a handler may answer: that a resource is found, missing or asked   *)
(* for wrongly only if it is.                                              *)
(***************************************************************************)
LEMMA AnswersAreTrue ==
  ASSUME PathInv, NEW r \in Request, NEW status \in Answers(r)
  PROVE  /\ status \in Status
         /\ status = "ok" => resource[r[1]] \in {"found", "skewed"}
         /\ status = "not_found" => resource[r[1]] = "missing"
         /\ status = "bad_request" => resource[r[1]] = "invalid"
<1>1. resource[r[1]] \in Resource
  BY OfRequest
<1>2. CASE resource[r[1]] = "invalid"
  BY <1>2 DEF Answers, Status
<1>3. CASE resource[r[1]] # "invalid" /\ status = "ok"
  <2>1. \A err : WriteRepositoryError(err) # "ok"
    BY DEF WriteRepositoryError
  <2>2. resource[r[1]] # "missing"
    BY <1>3, <2>1 DEF Answers
  <2> QED BY <1>1, <1>3, <2>2 DEF Resource, Status
<1>4. CASE resource[r[1]] # "invalid" /\ status # "ok"
  <2>1. PICK err \in RepositoryErrors(r) : status = WriteRepositoryError(err)
    BY <1>4 DEF Answers
  <2>2. status \in {"not_found", "gateway_timeout", "internal_error"}
    BY <2>1 DEF WriteRepositoryError
  <2>3. status = "not_found" => err = "ErrNotFound"
    BY <2>1 DEF WriteRepositoryError
  <2>4. err = "ErrNotFound" => resource[r[1]] = "missing"
    BY <2>1 DEF RepositoryErrors
  <2> QED BY <2>2, <2>3, <2>4 DEF Status
<1> QED BY <1>2, <1>3, <1>4

\* A handler decides its answer.
LEMMA HandleStep == ASSUME PathInv, NEW r \in Request, Handle(r) PROVE PathInv'
<1>1. PICK status \in Answers(r) :
        exchange' = [exchange EXCEPT ![r] = [@ EXCEPT !.handler = "writing", !.status = status]]
  BY DEF Handle
<1> DEFINE e == [exchange[r] EXCEPT !.handler = "writing", !.status = status]
<1>2. status \in Status /\ status # "none"
  BY AnswersAreTrue DEF Status
<1>3. /\ e \in ExchangeRecord /\ e.handler = "writing" /\ e.status = status
      /\ e.wire = exchange[r].wire /\ e.ctx = exchange[r].ctx
  BY <1>2, OfRequest DEF ExchangeRecord
<1>4. exchange' = [exchange EXCEPT ![r] = e] /\ UNCHANGED <<clientVars, serverVars>>
      /\ Active(r)
  BY <1>1 DEF Handle, Active
<1> HIDE DEF e
<1>5. Proper(r, e)
  BY <1>2, <1>3, <1>4, AnswersAreTrue DEF Proper
<1> QED BY <1>4, <1>5, ExchangeStep

(***************************************************************************)
(* The answer leaves in two parts, or the connection is gone.              *)
(***************************************************************************)
LEMMA WriteJSONStep == ASSUME PathInv, NEW r \in Request, WriteJSON(r) PROVE PathInv'
<1>1. exchange[r].handler = "writing" /\ Active(r) /\ exchange[r].status # "none"
      /\ UNCHANGED <<clientVars, serverVars>>
  BY OfRequest DEF WriteJSON, Active, ExchangeOK
<1>2. PICK e : /\ e \in ExchangeRecord /\ exchange' = [exchange EXCEPT ![r] = e]
               /\ e.status = exchange[r].status /\ e.ctx = exchange[r].ctx
               /\ e.handler \in {"writing", "ended"}
               /\ exchange[r].wire = "broken" => e.wire = "broken"
  <2>1. CASE exchange[r].wire = "sent"
    <3> DEFINE e == [exchange[r] EXCEPT !.wire = "headers"]
    <3>1. exchange' = [exchange EXCEPT ![r] = e]
      BY <2>1 DEF WriteJSON
    <3>2. /\ e \in ExchangeRecord /\ e.status = exchange[r].status
          /\ e.ctx = exchange[r].ctx /\ e.handler = "writing"
      BY <1>1, OfRequest DEF ExchangeRecord
    <3> QED BY <2>1, <3>1, <3>2
  <2>2. CASE exchange[r].wire = "headers"
    <3> DEFINE e == [exchange[r] EXCEPT !.wire = "complete", !.handler = "ended"]
    <3>1. exchange' = [exchange EXCEPT ![r] = e]
      BY <2>2 DEF WriteJSON
    <3>2. /\ e \in ExchangeRecord /\ e.status = exchange[r].status
          /\ e.ctx = exchange[r].ctx /\ e.handler = "ended"
      BY OfRequest DEF ExchangeRecord
    <3> QED BY <2>2, <3>1, <3>2
  <2>3. CASE exchange[r].wire \notin {"sent", "headers"}
    <3> DEFINE e == [exchange[r] EXCEPT !.handler = "ended"]
    <3>1. exchange' = [exchange EXCEPT ![r] = e]
      BY <2>3 DEF WriteJSON
    <3>2. /\ e \in ExchangeRecord /\ e.status = exchange[r].status
          /\ e.ctx = exchange[r].ctx /\ e.handler = "ended" /\ e.wire = exchange[r].wire
      BY OfRequest DEF ExchangeRecord
    <3> QED BY <3>1, <3>2
  <2> QED BY <2>1, <2>2, <2>3
<1>3. Proper(r, e)
  BY <1>1, <1>2, OfRequest DEF Proper, ExchangeOK
<1> QED BY <1>1, <1>2, <1>3, ExchangeStep

-----------------------------------------------------------------------------
(* run and shutdownServer.                                                 *)

(***************************************************************************)
(* A step of run that leaves the exchanges alone.                          *)
(***************************************************************************)
LEMMA RunStep ==
  ASSUME PathInv, UNCHANGED <<clientVars, exchange>>, ServerOK',
         api' \in {"draining", "returning", "closed"}, db' \in {"open", "closed"},
         exit' \in {"none", "clean", "error"}
  PROVE  PathInv'
<1>1. Onward /\ exchange' \in [Request -> ExchangeRecord]
  BY Types DEF PathInv, Onward
<1>2. \A r \in Request : ExchangeOK(r)'
  BY DEF PathInv, ExchangeOK, clientVars
<1> QED BY <1>1, <1>2, ServerStep

\* A signal, the end of draining and a failing Serve.
LEMMA StopStep ==
  ASSUME PathInv, Signal \/ ShutdownDrained \/ ServeFails \/ DeferredClose
  PROVE  PathInv'
<1>1. UNCHANGED <<clientVars, exchange>> /\ \A r \in Request : Active(r)' = Active(r)
  BY DEF Signal, ShutdownDrained, ServeFails, DeferredClose, Active
<1>2. /\ api' \in {"draining", "returning", "closed"} /\ db' \in {"open", "closed"}
      /\ exit' \in {"none", "clean", "error"}
  BY Types DEF PathInv, Signal, ShutdownDrained, ServeFails, DeferredClose
<1>3. ServerOK'
  <2>1. CASE Signal
    BY <1>1, <2>1 DEF Signal, PathInv, ServerOK
  <2>2. CASE ShutdownDrained
    BY <1>1, <2>2 DEF ShutdownDrained, PathInv, ServerOK
  <2>3. CASE ServeFails
    BY <1>1, <2>3 DEF ServeFails, PathInv, ServerOK
  <2>4. CASE DeferredClose
    BY <1>1, <2>4 DEF DeferredClose, PathInv, ServerOK
  <2> QED BY <2>1, <2>2, <2>3, <2>4
<1> QED BY <1>1, <1>2, <1>3, RunStep

(***************************************************************************)
(* Every request is cancelled.                                             *)
(***************************************************************************)
LEMMA CancelFacts ==
  ASSUME PathInv, CancelRequests, UNCHANGED clientVars
  PROVE  /\ exchange' \in [Request -> ExchangeRecord] /\ Onward
         /\ \A r \in Request : /\ exchange'[r].ctx = "cancelled" /\ Active(r)' = Active(r)
                               /\ exchange'[r].handler = exchange[r].handler
         /\ \A r \in Request : ExchangeOK(r)'
<1>1. ASSUME NEW r \in Request
      PROVE  /\ exchange'[r] \in ExchangeRecord /\ exchange'[r].ctx = "cancelled"
             /\ exchange'[r].wire = exchange[r].wire
             /\ exchange'[r].handler = exchange[r].handler
             /\ exchange'[r].status = exchange[r].status
  BY OfRequest DEF CancelRequests, ExchangeRecord
<1>2. exchange' \in [Request -> ExchangeRecord]
  BY <1>1 DEF CancelRequests
<1>3. Onward
  BY <1>1 DEF Onward
<1>4. \A r \in Request : ExchangeOK(r)'
  BY <1>1 DEF PathInv, ExchangeOK, clientVars
<1> QED BY <1>1, <1>2, <1>3, <1>4 DEF Active

\* The shutdown's deadline, and the deferred cancelRequests.
LEMMA CancelStep ==
  ASSUME PathInv, ShutdownTimesOut \/ DeferredCancel
  PROVE  PathInv'
<1>1. CancelRequests /\ UNCHANGED <<clientVars, db, exit>> /\ api' \in {"closing", "cancelled"}
  BY DEF ShutdownTimesOut, DeferredCancel
<1>2. db' \in {"open", "closed"} /\ exit' \in {"none", "clean", "error"}
  BY <1>1, Types DEF PathInv
<1>3. ServerOK'
  <2>1. CASE ShutdownTimesOut
    BY <1>1, <2>1, CancelFacts DEF ShutdownTimesOut, PathInv, ServerOK
  <2>2. CASE DeferredCancel
    BY <1>1, <2>2, CancelFacts DEF DeferredCancel, PathInv, ServerOK
  <2> QED BY <2>1, <2>2
<1> QED BY <1>1, <1>2, <1>3, CancelFacts, ServerStep

\* What cutting a connection leaves.
LEMMA CutFacts ==
  ASSUME NEW e \in ExchangeRecord
  PROVE  /\ Cut(e) \in ExchangeRecord /\ Cut(e).status = e.status /\ Cut(e).ctx = e.ctx
         /\ Cut(e).handler = e.handler
         /\ Cut(e).wire = IF e.wire \in {"sent", "headers"} THEN "broken" ELSE e.wire
BY DEF Cut, ExchangeRecord

(***************************************************************************)
(* Close cuts the connections of the handlers that remain.                 *)
(***************************************************************************)
LEMMA CloseServerStep == ASSUME PathInv, CloseServer PROVE PathInv'
<1>1. ASSUME NEW r \in Request
      PROVE  /\ exchange'[r] = Cut(exchange[r]) /\ exchange'[r] \in ExchangeRecord
             /\ exchange'[r].status = exchange[r].status /\ exchange'[r].ctx = exchange[r].ctx
             /\ exchange'[r].handler = exchange[r].handler
             /\ exchange'[r].wire = IF exchange[r].wire \in {"sent", "headers"} THEN "broken"
                                    ELSE exchange[r].wire
  <2>1. exchange'[r] = Cut(exchange[r])
    BY DEF CloseServer
  <2> QED BY <2>1, OfRequest, CutFacts
<1>2. exchange' \in [Request -> ExchangeRecord]
  BY <1>1 DEF CloseServer
<1>3. Onward
  BY <1>1 DEF Onward
<1>4. UNCHANGED <<clientVars, db>> /\ api' = "returning" /\ exit' = "error"
      /\ api = "closing" /\ db' \in {"open", "closed"}
  BY Types DEF CloseServer, PathInv
<1>5. \A r \in Request : ExchangeOK(r)'
  BY <1>1, <1>4 DEF PathInv, ExchangeOK, clientVars
<1>6. ServerOK'
  BY <1>1, <1>4 DEF PathInv, ServerOK
<1> QED BY <1>2, <1>3, <1>4, <1>5, <1>6, ServerStep

(***************************************************************************)
(* main returns: the handlers that die were cancelled, and the exit says   *)
(* so.                                                                     *)
(***************************************************************************)
LEMMA ExitStep == ASSUME PathInv, Exit PROVE PathInv'
<1>1. UNCHANGED <<clientVars, db, exit>> /\ api = "closed" /\ api' = "exited"
      /\ db' \in {"open", "closed"} /\ exit' \in {"none", "clean", "error"}
  BY Types DEF Exit, PathInv
<1>2. ASSUME NEW r \in Request
      PROVE  /\ exchange'[r] \in ExchangeRecord
             /\ exchange'[r].status = exchange[r].status /\ exchange'[r].ctx = exchange[r].ctx
             /\ exchange'[r].handler = IF Active(r) THEN "killed" ELSE exchange[r].handler
             /\ exchange'[r].wire = IF exchange[r].wire \in {"sent", "headers"} THEN "broken"
                                    ELSE exchange[r].wire
  <2> DEFINE e == Cut(exchange[r])
  <2>1. /\ e \in ExchangeRecord /\ e.status = exchange[r].status /\ e.ctx = exchange[r].ctx
        /\ e.handler = exchange[r].handler
        /\ e.wire = IF exchange[r].wire \in {"sent", "headers"} THEN "broken"
                    ELSE exchange[r].wire
    BY OfRequest, CutFacts
  <2>2. exchange'[r] = IF Active(r) THEN [e EXCEPT !.handler = "killed"] ELSE e
    BY DEF Exit
  <2> HIDE DEF e
  <2>3. CASE Active(r)
    BY <2>1, <2>2, <2>3 DEF ExchangeRecord
  <2>4. CASE ~ Active(r)
    BY <2>1, <2>2, <2>4
  <2> QED BY <2>3, <2>4
<1>3. exchange' \in [Request -> ExchangeRecord]
  BY <1>2 DEF Exit
<1>4. Onward
  BY <1>2 DEF Onward
<1>5. \A r \in Request : ExchangeOK(r)'
  BY <1>1, <1>2 DEF PathInv, ExchangeOK, clientVars
<1>6. \A r \in Request : ~ Active(r)'
  BY <1>2 DEF Active
<1>7. \A r \in Request : exchange'[r].handler = "killed" => exit = "error"
  BY <1>1, <1>2 DEF PathInv, ServerOK
<1>8. ServerOK'
  BY <1>1, <1>2, <1>6, <1>7 DEF PathInv, ServerOK
<1> QED BY <1>1, <1>3, <1>4, <1>5, <1>8, ServerStep

-----------------------------------------------------------------------------

(***************************************************************************)
(* The invariant holds in every reachable state.                           *)
(***************************************************************************)
THEOREM PathInvariant == Spec => []PathInv
<1>1. Init => PathInv
  <2> SUFFICES ASSUME Init PROVE PathInv
    OBVIOUS
  <2>1. TypeOK
    BY DEF Init, TypeOK
  <2>2. \A q \in Query : QueryOK(q)
    BY DEF Init, QueryOK, CallOK, FirstOK, FinalOK, Underway, Settled
  <2>3. \A r \in Request : ExchangeOK(r)
    BY DEF Init, ExchangeOK
  <2>4. ServerOK
    BY DEF Init, ServerOK
  <2> QED BY <2>1, <2>2, <2>3, <2>4 DEF PathInv
<1>2. PathInv /\ [Next]_vars => PathInv'
  <2> SUFFICES ASSUME PathInv, [Next]_vars PROVE PathInv'
    OBVIOUS
  <2>1. ASSUME NEW q \in Query,
               \/ PauseFetch(q) \/ GetJson(q) \/ GetJsonAborted(q) \/ Timeout(q)
               \/ CallerAborts(q) \/ PromiseSettles(q) \/ AfterFetch(q) \/ AfterBody(q)
        PROVE  PathInv'
    BY <2>1, PauseFetchStep, GetJsonStep, GetJsonAbortedStep, TimeoutStep, CallerAbortsStep,
       PromiseSettlesStep, AfterFetchStep, AfterBodyStep
  <2>2. ASSUME NEW r \in Request, Break(r) \/ Accept(r) \/ Handle(r) \/ WriteJSON(r)
        PROVE  PathInv'
    BY <2>2, BreakStep, AcceptStep, HandleStep, WriteJSONStep
  <2>3. CASE \/ Signal \/ ShutdownDrained \/ ShutdownTimesOut \/ CloseServer \/ ServeFails
             \/ DeferredCancel \/ DeferredClose \/ Exit
    BY <2>3, StopStep, CancelStep, CloseServerStep, ExitStep
  <2>4. CASE UNCHANGED vars
    <3>1. UNCHANGED <<clientVars, exchange, serverVars>> /\ Onward
      BY <2>4 DEF vars, clientVars, serverVars, Onward
    <3>2. \A q \in Query : QueryOK(q)'
      BY <3>1, CallsKept DEF clientVars
    <3>3. TypeOK' /\ ServerOK' /\ \A r \in Request : ExchangeOK(r)'
      BY <2>4 DEF vars, PathInv, TypeOK, ServerOK, Active, ExchangeOK
    <3> QED BY <3>2, <3>3 DEF PathInv
  <2>5. CASE \E condition \in Conditions : BrowserChanges(condition)
    BY <2>5, BrowserChangesStep
  <2> QED BY <2>1, <2>2, <2>3, <2>4, <2>5 DEF Next
<1> QED BY <1>1, <1>2, PTL DEF Spec

(***************************************************************************)
(* FirstAbortDecides: the first of the deadline and the caller's abort     *)
(* decides how getJson ends, wherever the answer was.                      *)
(***************************************************************************)
THEOREM FirstAbortAlwaysDecides == Spec => []FirstAbortDecides
<1>1. PathInv => FirstAbortDecides
  BY DEF PathInv, QueryOK, FirstOK, FirstAbortDecides
<1> QED BY <1>1, PathInvariant, PTL

(***************************************************************************)
(* OnlyRealErrorsAreFinal: a page gives up for good only over what is      *)
(* really so.                                                              *)
(***************************************************************************)
THEOREM FinalErrorsAreReal == Spec => []OnlyRealErrorsAreFinal
<1>1. PathInv => OnlyRealErrorsAreFinal
  BY DEF PathInv, QueryOK, FinalOK, OnlyRealErrorsAreFinal
<1> QED BY <1>1, PathInvariant, PTL

(***************************************************************************)
(* NoHandlerIsSurprised: the pool is never closed, and the process never   *)
(* ends, under a handler that was not cancelled; a clean exit leaves none. *)
(***************************************************************************)
THEOREM HandlersNeverSurprised == Spec => []NoHandlerIsSurprised
<1>1. PathInv => NoHandlerIsSurprised
  BY DEF PathInv, ServerOK, NoHandlerIsSurprised
<1> QED BY <1>1, PathInvariant, PTL

-----------------------------------------------------------------------------
(* The tables that status reads.                                           *)

Done(row) == row.status \in {"succeeded", "skipped", "failed"}

\* A null or a time.
Maybe(S) == S \cup {NoTime}

StatusRow ==
  [status : {"absent", "running", "succeeded", "skipped", "failed"},
   skip_code : {"none", "stale", "duplicate"},
   started_at : Maybe(Nat), completed_at : Maybe(Nat), retrieved_at : Maybe(Int),
   stamp : Maybe(Nat), is_current : BOOLEAN]

StatusTypeOK ==
  /\ clock \in Nat
  /\ rows \in [Table -> [Run -> StatusRow]]
  /\ ending \in [Table -> [Run -> [kind : {"none", "complete", "fail"}, began : Maybe(Nat)]]]
  /\ ended \in [Table -> [Run -> Maybe(Nat)]]

\* An accepted run: applied, or its feed was seen before.
IsAccepted(row) ==
  row.status = "succeeded" \/ (row.status = "skipped" /\ row.skip_code = "duplicate")

\* The times of a row are in order, by the database's clock; only a skipped
\* run has a reason; an accepted one was fetched within a worker's clock
\* error of the transaction that completed it.
RowTimesOK(row, e, done) ==
  /\ row.status # "absent" => row.started_at \in 0..clock
  /\ e.kind # "none" => row.status = "running" /\ e.began \in 0..clock
  /\ Done(row) =>
       /\ row.completed_at \in Nat /\ done \in Nat
       /\ row.completed_at <= done /\ done <= clock
  /\ row.skip_code = "duplicate" => row.status = "skipped"
  /\ IsAccepted(row) => \E d \in Response : row.retrieved_at = row.completed_at + d.offset

Attempts(t) == {r \in Run : rows[t][r].status # "absent"}

\* Ids are given out in the order of the starts.
StartsInOrder(t) ==
  \A r \in Attempts(t), q \in Run :
    q < r => q \in Attempts(t) /\ rows[t][q].started_at <= rows[t][r].started_at

\* Some member of S comes first in ORDER BY k DESC, id DESC.
HasTop(S, k) ==
  S # {} => \E r \in S : \A q \in S : k[q] < k[r] \/ (k[q] = k[r] /\ q <= r)

StartedAt(t) == [r \in Run |-> rows[t][r].started_at]
CompletedAt(t) == [r \in Run |-> rows[t][r].completed_at]
RetrievedAt(t) == [r \in Run |-> rows[t][r].retrieved_at]

TimesOK(t) == \A r \in Run : RowTimesOK(rows[t][r], ending[t][r], ended[t][r])

TopsExist(t) ==
  /\ HasTop(Attempts(t), StartedAt(t))
  /\ HasTop(Accepted(t), CompletedAt(t)) /\ HasTop(Accepted(t), RetrievedAt(t))
  /\ HasTop(With(t, "failed"), CompletedAt(t))

TableOK(t) == TimesOK(t) /\ StartsInOrder(t) /\ TopsExist(t)

\* The inductive invariant.
StatusInv == StatusTypeOK /\ \A t \in Table : TableOK(t)

-----------------------------------------------------------------------------

(***************************************************************************)
(* One more row keeps the first place of an ORDER BY well defined, as long *)
(* as the rows that were there keep their keys.                            *)
(***************************************************************************)
LEMMA TopGrows ==
  ASSUME NEW S, NEW T, NEW x, NEW k, NEW l,
         S \subseteq Nat, T \subseteq Nat, S \subseteq T, T \subseteq S \cup {x},
         \A q \in S : k[q] \in Int /\ l[q] = k[q],
         \A q \in T : l[q] \in Int,
         HasTop(S, k)
  PROVE  HasTop(T, l)
<1>1. CASE S = {}
  <2>1. T = {} \/ (T = {x} /\ x \in Nat)
    BY <1>1
  <2>2. CASE T = {}
    BY <2>2 DEF HasTop
  <2>3. CASE T = {x} /\ x \in Nat
    <3>1. x \in T /\ \A q \in T : l[q] = l[x] /\ q <= x
      BY <2>3
    <3> QED BY <3>1 DEF HasTop
  <2> QED BY <2>1, <2>2, <2>3
<1>2. CASE S # {}
  <2>1. PICK r \in S : \A q \in S : k[q] < k[r] \/ (k[q] = k[r] /\ q <= r)
    BY <1>2 DEF HasTop
  <2>2. CASE x \notin T \/ l[x] < l[r] \/ (l[x] = l[r] /\ x <= r)
    BY <2>1, <2>2 DEF HasTop
  <2>3. CASE x \in T /\ ~ (l[x] < l[r] \/ (l[x] = l[r] /\ x <= r))
    <3>1. \A q \in T : l[q] < l[x] \/ (l[q] = l[x] /\ q <= x)
      BY <2>1, <2>3
    <3> QED BY <2>3, <3>1 DEF HasTop
  <2> QED BY <2>2, <2>3
<1> QED BY <1>1, <1>2

(***************************************************************************)
(* A query with LIMIT 1 finds the first row.                               *)
(***************************************************************************)
LEMMA LatestFacts ==
  ASSUME NEW t, NEW S, S \subseteq Run, S # {}
  PROVE  /\ HasTop(S, StartedAt(t)) =>
              /\ Latest(t, S, "started_at") \in S
              /\ \A q \in S :
                   \/ rows[t][q].started_at < rows[t][Latest(t, S, "started_at")].started_at
                   \/ /\ rows[t][q].started_at = rows[t][Latest(t, S, "started_at")].started_at
                      /\ q <= Latest(t, S, "started_at")
         /\ HasTop(S, CompletedAt(t)) =>
              /\ Latest(t, S, "completed_at") \in S
              /\ \A q \in S :
                   \/ rows[t][q].completed_at < rows[t][Latest(t, S, "completed_at")].completed_at
                   \/ /\ rows[t][q].completed_at =
                           rows[t][Latest(t, S, "completed_at")].completed_at
                      /\ q <= Latest(t, S, "completed_at")
<1>1. ASSUME HasTop(S, StartedAt(t))
      PROVE  \E r \in S : \A q \in S :
               \/ rows[t][q]["started_at"] < rows[t][r]["started_at"]
               \/ rows[t][q]["started_at"] = rows[t][r]["started_at"] /\ q <= r
  BY <1>1 DEF HasTop, StartedAt
<1>2. ASSUME HasTop(S, CompletedAt(t))
      PROVE  \E r \in S : \A q \in S :
               \/ rows[t][q]["completed_at"] < rows[t][r]["completed_at"]
               \/ rows[t][q]["completed_at"] = rows[t][r]["completed_at"] /\ q <= r
  BY <1>2 DEF HasTop, CompletedAt
<1> QED BY <1>1, <1>2 DEF Latest

(***************************************************************************)
(* What the invariant says of the rows the properties speak of.            *)
(***************************************************************************)
LEMMA RowFacts ==
  ASSUME StatusInv, NEW t \in Table
  PROVE  /\ \A r \in Attempts(t) : r \in Run /\ rows[t][r].started_at \in 0..clock
         /\ \A r \in Accepted(t) \cup With(t, "failed") :
              /\ r \in Run /\ rows[t][r].completed_at \in Nat /\ ended[t][r] \in Nat
              /\ rows[t][r].completed_at <= ended[t][r] /\ ended[t][r] <= clock
         /\ \A r \in Accepted(t) : \E d \in Response :
              /\ rows[t][r].retrieved_at \in Int
              /\ rows[t][r].retrieved_at = rows[t][r].completed_at + d.offset
         /\ \A r \in Run :
              rows[t][r].status = "succeeded" \/ rows[t][r].skip_code = "duplicate"
                <=> r \in Accepted(t)
         /\ Run \subseteq Nat /\ NoRun \notin Run /\ clock \in Nat
<1>1. \A r \in Run : RowTimesOK(rows[t][r], ending[t][r], ended[t][r])
  BY DEF StatusInv, TableOK, TimesOK
<1>2. \A r \in Accepted(t) : r \in Run /\ IsAccepted(rows[t][r]) /\ Done(rows[t][r])
  BY DEF Accepted, With, IsAccepted, Done
<1>3. \A r \in With(t, "failed") : r \in Run /\ Done(rows[t][r])
  BY DEF With, Done
<1>4. \A r \in Accepted(t) : \E d \in Response :
        /\ rows[t][r].retrieved_at \in Int
        /\ rows[t][r].retrieved_at = rows[t][r].completed_at + d.offset
  <2> SUFFICES ASSUME NEW r \in Accepted(t)
               PROVE  \E d \in Response :
                        /\ rows[t][r].retrieved_at \in Int
                        /\ rows[t][r].retrieved_at = rows[t][r].completed_at + d.offset
    OBVIOUS
  <2>1. /\ rows[t][r].completed_at \in Nat
        /\ \E d \in Response : rows[t][r].retrieved_at = rows[t][r].completed_at + d.offset
    BY <1>1, <1>2 DEF RowTimesOK
  <2>2. \A d \in Response : d.offset \in Int
    BY StatusAssumption
  <2> QED BY <2>1, <2>2
<1>5. \A r \in Run :
        rows[t][r].status = "succeeded" \/ rows[t][r].skip_code = "duplicate"
          <=> r \in Accepted(t)
  BY <1>1 DEF RowTimesOK, Accepted, With
<1>6. \A r \in Attempts(t) : r \in Run /\ rows[t][r].started_at \in 0..clock
  BY <1>1 DEF RowTimesOK, Attempts
<1>7. \A r \in Accepted(t) \cup With(t, "failed") :
        /\ r \in Run /\ rows[t][r].completed_at \in Nat /\ ended[t][r] \in Nat
        /\ rows[t][r].completed_at <= ended[t][r] /\ ended[t][r] <= clock
  BY <1>1, <1>2, <1>3 DEF RowTimesOK
<1> QED BY <1>4, <1>5, <1>6, <1>7, StatusAssumption DEF StatusInv, StatusTypeOK

(***************************************************************************)
(* The accepted check that operational reasons are compared with is one    *)
(* completed last.                                                         *)
(***************************************************************************)
LEMMA AcceptedCheckFacts ==
  ASSUME StatusInv, NEW t \in Table
  PROVE  IF Accepted(t) = {} THEN AcceptedCheck(t) = NoRun
         ELSE /\ AcceptedCheck(t) \in Accepted(t) /\ AcceptedCheck(t) # NoRun
              /\ \A a \in Accepted(t) :
                   rows[t][a].completed_at <= rows[t][AcceptedCheck(t)].completed_at
<1>1. CASE Accepted(t) = {}
  BY <1>1 DEF AcceptedCheck, Latest
<1>2. CASE Accepted(t) # {}
  <2>1. HasTop(Accepted(t), CompletedAt(t))
    BY DEF StatusInv, TableOK, TopsExist
  <2>2. Accepted(t) \subseteq Run
    BY RowFacts
  <2>3. /\ AcceptedCheck(t) \in Accepted(t)
        /\ \A q \in Accepted(t) :
             \/ rows[t][q].completed_at < rows[t][AcceptedCheck(t)].completed_at
             \/ rows[t][q].completed_at = rows[t][AcceptedCheck(t)].completed_at
    BY <1>2, <2>1, <2>2, LatestFacts DEF AcceptedCheck
  <2>4. \A q \in Accepted(t) : rows[t][q].completed_at \in Nat
    BY RowFacts
  <2> QED BY <1>2, <2>2, <2>3, <2>4, RowFacts
<1> QED BY <1>1, <1>2

(***************************************************************************)
(* The latest attempt exists as soon as a run was started, and it is the   *)
(* highest id in use.                                                      *)
(***************************************************************************)
LEMMA LatestAttemptFacts ==
  ASSUME StatusInv, NEW t \in Table
  PROVE  IF Attempts(t) = {} THEN LatestAttempt(t) = NoRun
         ELSE /\ LatestAttempt(t) \in Attempts(t) /\ LatestAttempt(t) # NoRun
              /\ \A q \in Attempts(t) : q <= LatestAttempt(t)
<1>1. CASE Attempts(t) = {}
  BY <1>1 DEF LatestAttempt, Latest, Attempts
<1>2. CASE Attempts(t) # {}
  <2> DEFINE m == LatestAttempt(t)
  <2>1. HasTop(Attempts(t), StartedAt(t)) /\ Attempts(t) \subseteq Run
    BY DEF StatusInv, TableOK, TopsExist, Attempts
  <2>2. /\ m \in Attempts(t)
        /\ \A q \in Attempts(t) : \/ rows[t][q].started_at < rows[t][m].started_at
                                  \/ rows[t][q].started_at = rows[t][m].started_at /\ q <= m
    BY <1>2, <2>1, LatestFacts DEF LatestAttempt, Attempts
  <2>3. ASSUME NEW q \in Attempts(t) PROVE q <= m
    <3>1. m < q => rows[t][m].started_at <= rows[t][q].started_at
      BY <2>1, <2>2 DEF StatusInv, TableOK, StartsInOrder
    <3>2. rows[t][m].started_at \in Nat /\ rows[t][q].started_at \in Nat /\ m \in Nat /\ q \in Nat
      BY <2>1, <2>2, RowFacts
    <3> QED BY <2>2, <3>1, <3>2
  <2> QED BY <1>2, <2>1, <2>2, <2>3, RowFacts
<1> QED BY <1>1, <1>2

(***************************************************************************)
(* The failure completed last is among the recent ones: none is before it, *)
(* and the limit is at least 1.                                            *)
(***************************************************************************)
LEMMA LastFailureIsRecent ==
  ASSUME StatusInv, NEW t \in Table, NEW f \in With(t, "failed")
  PROVE  \E m \in RecentFailures(t) :
           m \in With(t, "failed") /\ rows[t][f].completed_at <= rows[t][m].completed_at
<1> DEFINE F == With(t, "failed")
           Before(q, r) ==
             \/ rows[t][q].completed_at > rows[t][r].completed_at
             \/ rows[t][q].completed_at = rows[t][r].completed_at /\ q > r
<1>1. HasTop(F, CompletedAt(t)) /\ F \subseteq Run
  BY DEF StatusInv, TableOK, TopsExist, With
<1>2. \A q \in F : rows[t][q].completed_at \in Nat /\ q \in Nat
  BY RowFacts
<1>3. PICK m \in F : \A q \in F : \/ rows[t][q].completed_at < rows[t][m].completed_at
                                  \/ rows[t][q].completed_at = rows[t][m].completed_at /\ q <= m
  BY <1>1 DEF HasTop, CompletedAt
<1>4. {q \in F : Before(q, m)} = {}
  BY <1>2, <1>3
<1>5. Cardinality({q \in F : Before(q, m)}) < RecentFailureLimit
  <2>1. 0 < RecentFailureLimit
    BY StatusAssumption
  <2>2. Cardinality({q \in F : Before(q, m)}) = 0
    BY ONLY <1>4, FS_EmptySet
  <2> QED BY ONLY <2>1, <2>2
<1>6. m \in RecentFailures(t)
  BY <1>5 DEF RecentFailures
<1>7. rows[t][f].completed_at <= rows[t][m].completed_at
  BY <1>2, <1>3
<1> QED BY <1>6, <1>7

(***************************************************************************)
(* Recorded failures and hanging runs are reported.                        *)
(***************************************************************************)
LEMMA InvShowsTrouble == StatusInv => TroubleShown
<1> SUFFICES ASSUME StatusInv, NEW t \in Table
             PROVE  /\ \A f \in With(t, "failed") :
                         (\A a \in Accepted(t) : ended[t][a] < rows[t][f].completed_at)
                         => "recent_failure" \in Reasons(t)
                    /\ \A r \in Run :
                         /\ Overdue(t, r)
                         /\ \A q \in Run : q > r => rows[t][q].status = "absent"
                         /\ \A a \in Accepted(t) : ended[t][a] < rows[t][r].started_at
                         => "run_overdue" \in Reasons(t)
  BY DEF TroubleShown
<1>1. ASSUME NEW f \in With(t, "failed"),
             \A a \in Accepted(t) : ended[t][a] < rows[t][f].completed_at
      PROVE  "recent_failure" \in Reasons(t)
  <2>1. PICK m \in RecentFailures(t) :
          m \in With(t, "failed") /\ rows[t][f].completed_at <= rows[t][m].completed_at
    BY LastFailureIsRecent
  <2>2. CASE Accepted(t) = {}
    BY <2>1, <2>2, AcceptedCheckFacts DEF Reasons, OperationalReasons, AttemptAfterAccepted
  <2>3. CASE Accepted(t) # {}
    <3>1. AcceptedCheck(t) \in Accepted(t)
      BY <2>3, AcceptedCheckFacts
    <3>2. rows[t][m].completed_at > rows[t][AcceptedCheck(t)].completed_at
      BY <1>1, <2>1, <3>1, RowFacts
    <3> QED BY <2>1, <3>2 DEF Reasons, OperationalReasons, AttemptAfterAccepted
  <2> QED BY <2>2, <2>3
<1>2. ASSUME NEW r \in Run, Overdue(t, r),
             \A q \in Run : q > r => rows[t][q].status = "absent",
             \A a \in Accepted(t) : ended[t][a] < rows[t][r].started_at
      PROVE  "run_overdue" \in Reasons(t)
  <2>1. r \in Attempts(t)
    BY <1>2 DEF Overdue, Attempts
  <2>2. LatestAttempt(t) = r /\ r # NoRun
    <3>1. LatestAttempt(t) \in Attempts(t) /\ r <= LatestAttempt(t)
      BY <2>1, LatestAttemptFacts
    <3>2. ~ (LatestAttempt(t) > r)
      BY <1>2, <3>1 DEF Attempts
    <3> QED BY <2>1, <3>1, <3>2, RowFacts
  <2>3. AttemptAfterAccepted(t, rows[t][r].started_at, r)
    <3>1. CASE Accepted(t) = {}
      BY <3>1, AcceptedCheckFacts DEF AttemptAfterAccepted
    <3>2. CASE Accepted(t) # {}
      <4>1. AcceptedCheck(t) \in Accepted(t)
        BY <3>2, AcceptedCheckFacts
      <4> QED BY <1>2, <2>1, <4>1, RowFacts DEF AttemptAfterAccepted
    <3> QED BY <3>1, <3>2
  <2> QED BY <1>2, <2>2, <2>3 DEF Reasons, OperationalReasons
<1> QED BY <1>1, <1>2

(***************************************************************************)
(* A later accepted check is the one compared with.                        *)
(***************************************************************************)
LEMMA InvClears == StatusInv => AcceptanceClears
<1> SUFFICES ASSUME StatusInv, NEW t \in Table, NEW r \in Run,
                    rows[t][r].status = "succeeded" \/ rows[t][r].skip_code = "duplicate"
             PROVE  /\ (\A f \in With(t, "failed") : ended[t][f] < rows[t][r].completed_at)
                         => "recent_failure" \notin Reasons(t)
                    /\ (\A q \in With(t, "running") :
                          rows[t][q].started_at < rows[t][r].completed_at)
                         => "run_overdue" \notin Reasons(t)
  BY DEF AcceptanceClears
<1> DEFINE check == AcceptedCheck(t)
<1>1. r \in Accepted(t)
  BY RowFacts
<1>2. /\ check \in Accepted(t) /\ check # NoRun
      /\ rows[t][r].completed_at <= rows[t][check].completed_at
  BY <1>1, AcceptedCheckFacts
<1>3. rows[t][r].completed_at \in Nat /\ rows[t][check].completed_at \in Nat
  BY <1>1, <1>2, RowFacts
<1>4. "recent_failure" \notin DataReasons(t) \cup CheckReasons(t)
  BY DEF DataReasons, Freshness, CheckReasons
<1>5. "run_overdue" \notin DataReasons(t) \cup CheckReasons(t)
  BY DEF DataReasons, Freshness, CheckReasons
<1>6. ASSUME \A f \in With(t, "failed") : ended[t][f] < rows[t][r].completed_at
      PROVE  "recent_failure" \notin Reasons(t)
  <2>1. ASSUME NEW f \in With(t, "failed")
        PROVE  ~ AttemptAfterAccepted(t, rows[t][f].completed_at, f)
    <3>1. /\ rows[t][f].completed_at \in Nat /\ ended[t][f] \in Nat
          /\ rows[t][f].completed_at <= ended[t][f] /\ ended[t][f] < rows[t][r].completed_at
      BY <1>6, RowFacts
    <3>2. rows[t][f].completed_at < rows[t][check].completed_at
      BY <1>2, <1>3, <3>1
    <3> QED BY <1>2, <1>3, <3>1, <3>2 DEF AttemptAfterAccepted
  <2>2. RecentFailures(t) \subseteq With(t, "failed")
    BY DEF RecentFailures
  <2> QED BY <1>4, <2>1, <2>2 DEF Reasons, OperationalReasons
<1>7. ASSUME \A q \in With(t, "running") : rows[t][q].started_at < rows[t][r].completed_at
      PROVE  "run_overdue" \notin Reasons(t)
  <2> DEFINE m == LatestAttempt(t)
  <2>1. ASSUME m # NoRun, Overdue(t, m)
        PROVE  ~ AttemptAfterAccepted(t, rows[t][m].started_at, m)
    <3>1. m \in Attempts(t) /\ m \in Run
      BY <2>1, LatestAttemptFacts, RowFacts
    <3>2. m \in With(t, "running")
      BY <2>1, <3>1 DEF Overdue, With
    <3>3. rows[t][m].started_at \in Nat
      BY <3>1, RowFacts
    <3>4. rows[t][m].started_at < rows[t][check].completed_at
      BY <1>2, <1>3, <1>7, <3>2, <3>3
    <3> QED BY <1>2, <1>3, <3>3, <3>4 DEF AttemptAfterAccepted
  <2> QED BY <1>5, <2>1 DEF Reasons, OperationalReasons
<1> QED BY <1>6, <1>7

(***************************************************************************)
(* With "ok" the latest retrieval of an accepted run is within the limit,  *)
(* and its transaction committed no earlier than it began.                 *)
(***************************************************************************)
LEMMA InvRecent == StatusInv => OkIsRecent
<1> SUFFICES ASSUME StatusInv, OverallStatus = "ok", NEW t \in Table
             PROVE  \E r \in Run, d \in Response :
                      /\ rows[t][r].status = "succeeded" \/ rows[t][r].skip_code = "duplicate"
                      /\ ended[t][r] + d.offset >= clock - CheckMaxAge[t]
  BY DEF OkIsRecent
<1> DEFINE retrieved == {rows[t][r].retrieved_at : r \in Accepted(t)}
           checkAt == CHOOSE m \in retrieved : \A n \in retrieved : n <= m
<1>1. CheckReasons(t) = {}
  BY DEF OverallStatus, Reasons
<1>2. Accepted(t) # {} /\ ~ (clock - checkAt > CheckMaxAge[t])
  BY <1>1 DEF CheckReasons
<1>3. PICK r \in Accepted(t) : \A q \in Accepted(t) :
        rows[t][q].retrieved_at <= rows[t][r].retrieved_at
  <2>1. HasTop(Accepted(t), RetrievedAt(t)) /\ Accepted(t) \subseteq Run
    BY RowFacts DEF StatusInv, TableOK, TopsExist
  <2>2. PICK r \in Accepted(t) : \A q \in Accepted(t) :
          \/ rows[t][q].retrieved_at < rows[t][r].retrieved_at
          \/ rows[t][q].retrieved_at = rows[t][r].retrieved_at
    BY <1>2, <2>1 DEF HasTop, RetrievedAt
  <2>3. \A q \in Accepted(t) : rows[t][q].retrieved_at \in Int
    BY RowFacts
  <2> QED BY <2>2, <2>3
<1>4. checkAt \in retrieved
  <2>1. \E m \in retrieved : \A n \in retrieved : n <= m
    BY <1>3
  <2> QED BY <2>1
<1>5. PICK a \in Accepted(t) : ~ (clock - rows[t][a].retrieved_at > CheckMaxAge[t])
  BY <1>2, <1>4
<1>6. PICK d \in Response : rows[t][a].retrieved_at = rows[t][a].completed_at + d.offset
  BY RowFacts
<1>7. /\ a \in Run /\ rows[t][a].completed_at \in Nat /\ ended[t][a] \in Nat
      /\ rows[t][a].completed_at <= ended[t][a] /\ clock \in Nat
      /\ rows[t][a].status = "succeeded" \/ rows[t][a].skip_code = "duplicate"
  BY RowFacts
<1>8. d.offset \in Int /\ CheckMaxAge[t] \in Nat
  BY StatusAssumption
<1>9. ended[t][a] + d.offset >= clock - CheckMaxAge[t]
  BY <1>5, <1>6, <1>7, <1>8
<1> QED BY <1>7, <1>9

-----------------------------------------------------------------------------
(* Every step keeps the invariant.                                         *)

(***************************************************************************)
(* A table none of whose rows or transactions a step touches.              *)
(***************************************************************************)
LEMMA TableKept ==
  ASSUME StatusTypeOK, StatusTypeOK', NEW t \in Table, TableOK(t), clock' >= clock,
         rows'[t] = rows[t], ending'[t] = ending[t], ended'[t] = ended[t]
  PROVE  TableOK(t)'
<1>1. TimesOK(t)'
  <2> SUFFICES ASSUME NEW r \in Run
               PROVE  RowTimesOK(rows[t][r], ending[t][r], ended[t][r])'
    BY DEF TimesOK
  <2>1. RowTimesOK(rows[t][r], ending[t][r], ended[t][r])
    BY DEF TableOK, TimesOK
  <2>2. clock \in Nat /\ clock' \in Nat
    BY DEF StatusTypeOK
  <2> QED BY <2>1, <2>2 DEF RowTimesOK, Done, IsAccepted
<1>2. /\ Attempts(t)' = Attempts(t) /\ Accepted(t)' = Accepted(t)
      /\ With(t, "failed")' = With(t, "failed")
      /\ StartedAt(t)' = StartedAt(t) /\ CompletedAt(t)' = CompletedAt(t)
      /\ RetrievedAt(t)' = RetrievedAt(t)
  BY DEF Attempts, Accepted, With, StartedAt, CompletedAt, RetrievedAt
<1>3. StartsInOrder(t)' /\ TopsExist(t)'
  BY <1>2 DEF TableOK, StartsInOrder, TopsExist, HasTop
<1> QED BY <1>1, <1>3 DEF TableOK

(***************************************************************************)
(* Time passes.                                                            *)
(***************************************************************************)
LEMMA TickStep == ASSUME StatusInv, Tick PROVE StatusInv'
<1>1. StatusTypeOK' /\ clock' >= clock
  BY DEF StatusInv, StatusTypeOK, Tick
<1> QED BY <1>1, TableKept DEF StatusInv, Tick

(***************************************************************************)
(* The new row has the highest id and the latest start; it is neither      *)
(* accepted nor failed.                                                    *)
(***************************************************************************)
LEMMA StartRunStep ==
  ASSUME StatusInv, NEW t \in Table, NEW r \in Run, StartRun(t, r)
  PROVE  StatusInv'
<1> DEFINE row == [rows[t][r] EXCEPT !.status = "running", !.started_at = clock]
<1>0. /\ rows' = [rows EXCEPT ![t][r] = row]
      /\ rows[t][r] \in StatusRow /\ clock \in Nat /\ row \in StatusRow
  <2>1. rows \in [Table -> [Run -> StatusRow]] /\ clock \in Nat
    BY DEF StatusInv, StatusTypeOK
  <2>2. rows[t][r] \in StatusRow
    BY <2>1
  <2>3. row \in StatusRow
    BY <2>1, <2>2 DEF StatusRow, Maybe
  <2> QED BY <2>1, <2>2, <2>3 DEF StartRun
<1> HIDE DEF row
<1>1. StatusTypeOK' /\ clock \in Nat
  BY <1>0 DEF StatusInv, StatusTypeOK, StartRun
<1>2. ASSUME NEW u \in Table, u # t PROVE TableOK(u)'
  BY <1>1, <1>2, TableKept DEF StatusInv, StartRun, StatusTypeOK
<1>3. /\ rows'[t][r] = row /\ \A q \in Run : q # r => rows'[t][q] = rows[t][q]
      /\ rows[t][r].status = "absent"
      /\ clock' = clock /\ ending' = ending /\ ended' = ended
  <2>1. rows \in [Table -> [Run -> StatusRow]]
    BY DEF StatusInv, StatusTypeOK
  <2>2. rows'[t][r] = row /\ \A q \in Run : q # r => rows'[t][q] = rows[t][q]
    BY <1>0, <2>1
  <2> QED BY <2>2 DEF StartRun
<1>4. /\ rows'[t][r].status = "running" /\ rows'[t][r].started_at = clock
      /\ rows'[t][r].skip_code = rows[t][r].skip_code
  <2> DEFINE old == rows[t][r]
  <2>1. old \in StatusRow /\ row = [old EXCEPT !.status = "running", !.started_at = clock]
    BY <1>0 DEF row
  <2> HIDE DEF old
  <2>2. row.status = "running" /\ row.started_at = clock /\ row.skip_code = old.skip_code
    BY <2>1 DEF StatusRow
  <2> QED BY <1>3, <2>2 DEF old
<1>5. \A q \in Run : RowTimesOK(rows[t][q], ending[t][q], ended[t][q])
  BY DEF StatusInv, TableOK, TimesOK
<1>6. TimesOK(t)'
  <2> SUFFICES ASSUME NEW q \in Run
               PROVE  RowTimesOK(rows[t][q], ending[t][q], ended[t][q])'
    BY DEF TimesOK
  <2>1. CASE q = r
    <3>1. /\ rows[t][r].skip_code # "duplicate" /\ ending[t][r].kind = "none"
          /\ clock \in 0..clock
      BY <1>1, <1>3, <1>5 DEF RowTimesOK
    <3> QED BY <1>3, <1>4, <2>1, <3>1 DEF RowTimesOK, Done, IsAccepted
  <2>2. CASE q # r
    BY <1>3, <1>5, <2>2 DEF RowTimesOK, Done, IsAccepted
  <2> QED BY <2>1, <2>2
<1>7. Attempts(t)' = Attempts(t) \cup {r}
  BY <1>3, <1>4 DEF Attempts
<1>8. Accepted(t)' = Accepted(t) /\ With(t, "failed")' = With(t, "failed")
  BY <1>3, <1>4 DEF Accepted, With
<1>9. /\ \A q \in Attempts(t) : q \in Run /\ rows[t][q].started_at \in 0..clock
      /\ Run \subseteq Nat
  BY RowFacts, <1>3 DEF StatusInv
<1>10. StartsInOrder(t)'
  <2>1. \A q \in Attempts(t) : q # r
    BY <1>3 DEF Attempts
  <2>2. \A q \in Run : q < r => q \in Attempts(t)
    BY DEF StartRun, Attempts
  <2>3. \A p \in Attempts(t) : ~ (r < p)
    BY <2>1 DEF StatusInv, TableOK, StartsInOrder
  <2>4. \A p \in Attempts(t), q \in Run :
          q < p => q \in Attempts(t) /\ rows'[t][q].started_at <= rows'[t][p].started_at
    <3>1. \A p \in Attempts(t), q \in Run :
            q < p => q \in Attempts(t) /\ rows[t][q].started_at <= rows[t][p].started_at
      BY DEF StatusInv, TableOK, StartsInOrder
    <3>2. \A q \in Attempts(t) : rows'[t][q] = rows[t][q]
      BY <1>3, <1>9, <2>1
    <3> QED BY <3>1, <3>2
  <2>5. \A q \in Run : q < r => rows'[t][q].started_at <= rows'[t][r].started_at
    <3> SUFFICES ASSUME NEW q \in Run, q < r
                 PROVE  rows'[t][q].started_at <= rows'[t][r].started_at
      OBVIOUS
    <3>1. q \in Attempts(t) /\ q # r
      BY <2>1, <2>2
    <3>2. rows'[t][q] = rows[t][q] /\ rows[t][q].started_at \in 0..clock
      BY <1>3, <1>9, <3>1
    <3> QED BY <1>1, <1>4, <3>2
  <2> QED BY <1>7, <2>2, <2>4, <2>5, <1>9 DEF StartsInOrder
<1>11. TopsExist(t)'
  <2>1. HasTop(Attempts(t), StartedAt(t))'
    <3>1. \A q \in Attempts(t) : StartedAt(t)[q] \in Int /\ StartedAt(t)'[q] = StartedAt(t)[q]
      <4>1. \A q \in Attempts(t) : q \in Run /\ q # r
        BY <1>3 DEF Attempts
      <4>2. \A q \in Attempts(t) : rows'[t][q] = rows[t][q]
        BY <1>3, <4>1
      <4>3. \A q \in Attempts(t) : rows[t][q].started_at \in Int
        BY <1>1, <1>9
      <4>4. \A q \in Attempts(t) : /\ StartedAt(t)[q] = rows[t][q].started_at
                                   /\ StartedAt(t)'[q] = rows'[t][q].started_at
        BY <4>1 DEF StartedAt
      <4> QED BY <4>2, <4>3, <4>4
    <3>2. \A q \in Attempts(t)' : StartedAt(t)'[q] \in Int
      <4>1. StartedAt(t)'[r] = clock
        BY <1>4 DEF StartedAt
      <4> QED BY <1>1, <1>7, <3>1, <4>1
    <3>3. Attempts(t) \subseteq Nat /\ Attempts(t)' \subseteq Nat
      BY <1>7, <1>9
    <3>4. HasTop(Attempts(t), StartedAt(t))
      BY DEF StatusInv, TableOK, TopsExist
    <3>5. HasTop(Attempts(t)', StartedAt(t)')
      <4>1. Attempts(t) \subseteq Attempts(t)' /\ Attempts(t)' \subseteq Attempts(t) \cup {r}
        BY <1>7
      <4> QED BY <3>1, <3>2, <3>3, <3>4, <4>1, TopGrows
    <3> QED BY <3>5 DEF HasTop
  <2>2. \A q \in Accepted(t) \cup With(t, "failed") :
          CompletedAt(t)'[q] = CompletedAt(t)[q] /\ RetrievedAt(t)'[q] = RetrievedAt(t)[q]
    BY <1>3, <1>4 DEF CompletedAt, RetrievedAt, Accepted, With
  <2>3. /\ HasTop(Accepted(t), CompletedAt(t)) /\ HasTop(Accepted(t), RetrievedAt(t))
        /\ HasTop(With(t, "failed"), CompletedAt(t))
    BY DEF StatusInv, TableOK, TopsExist
  <2> QED BY <1>8, <2>1, <2>2, <2>3 DEF TopsExist, HasTop
<1>12. TableOK(t)'
  BY <1>6, <1>10, <1>11 DEF TableOK
<1> QED BY <1>1, <1>2, <1>12 DEF StatusInv

(***************************************************************************)
(* A transaction that begins only concerns a running row.                  *)
(***************************************************************************)
LEMMA BeginStep ==
  ASSUME StatusInv, NEW t \in Table, NEW r \in Run, BeginComplete(t, r) \/ BeginFail(t, r)
  PROVE  StatusInv'
<1>1. /\ StatusTypeOK' /\ clock \in Nat /\ clock' = clock /\ rows' = rows /\ ended' = ended
      /\ rows[t][r].status = "running" /\ ending'[t][r].began = clock
      /\ \A u \in Table, q \in Run : u # t \/ q # r => ending'[u][q] = ending[u][q]
  <2>1. PICK kind \in {"complete", "fail"} :
          /\ ending' = [ending EXCEPT ![t][r] = [kind |-> kind, began |-> clock]]
          /\ UNCHANGED <<clock, rows, ended>> /\ rows[t][r].status = "running"
    BY DEF BeginComplete, BeginFail
  <2>2. [kind |-> kind, began |-> clock] \in
          [kind : {"none", "complete", "fail"}, began : Maybe(Nat)]
    BY DEF StatusInv, StatusTypeOK, Maybe
  <2> QED BY <2>1, <2>2 DEF StatusInv, StatusTypeOK
<1>2. ASSUME NEW u \in Table PROVE TableOK(u)'
  <2>1. \A q \in Run : RowTimesOK(rows[u][q], ending[u][q], ended[u][q])
    BY DEF StatusInv, TableOK, TimesOK
  <2>2. TimesOK(u)'
    <3> SUFFICES ASSUME NEW q \in Run
                 PROVE  RowTimesOK(rows[u][q], ending[u][q], ended[u][q])'
      BY DEF TimesOK
    <3>1. CASE u = t /\ q = r
      BY <1>1, <2>1, <3>1 DEF RowTimesOK, Done, IsAccepted
    <3>2. CASE u # t \/ q # r
      BY <1>1, <2>1, <3>2 DEF RowTimesOK, Done, IsAccepted
    <3> QED BY <3>1, <3>2
  <2>3. /\ Attempts(u)' = Attempts(u) /\ Accepted(u)' = Accepted(u)
        /\ With(u, "failed")' = With(u, "failed")
        /\ StartedAt(u)' = StartedAt(u) /\ CompletedAt(u)' = CompletedAt(u)
        /\ RetrievedAt(u)' = RetrievedAt(u)
    BY <1>1 DEF Attempts, Accepted, With, StartedAt, CompletedAt, RetrievedAt
  <2>4. StartsInOrder(u)' /\ TopsExist(u)'
    BY <1>1, <2>3 DEF StatusInv, TableOK, StartsInOrder, TopsExist, HasTop
  <2> QED BY <2>2, <2>4 DEF TableOK
<1> QED BY <1>1, <1>2 DEF StatusInv

(***************************************************************************)
(* What ending a run writes: the row of the run itself, and at most the    *)
(* is_current flags of the others.                                         *)
(***************************************************************************)
LEMMA EndRowFacts ==
  ASSUME StatusInv, NEW t \in Table, NEW r \in Run, ending[t][r].kind # "none",
         NEW status \in {"succeeded", "skipped", "failed"},
         NEW code \in {"none", "stale", "duplicate"},
         NEW e \in [retrieved_at : Maybe(Int), stamp : Maybe(Nat)],
         EndRow(t, r, status, code, e), clock' = clock
  PROVE  /\ StatusTypeOK'
         /\ \A u \in Table : u # t =>
              rows'[u] = rows[u] /\ ending'[u] = ending[u] /\ ended'[u] = ended[u]
         /\ \A q \in Run : q # r =>
              /\ rows'[t][q].status = rows[t][q].status
              /\ rows'[t][q].skip_code = rows[t][q].skip_code
              /\ rows'[t][q].started_at = rows[t][q].started_at
              /\ rows'[t][q].completed_at = rows[t][q].completed_at
              /\ rows'[t][q].retrieved_at = rows[t][q].retrieved_at
              /\ ending'[t][q] = ending[t][q] /\ ended'[t][q] = ended[t][q]
         /\ rows'[t][r].status = status /\ rows'[t][r].skip_code = code
         /\ rows'[t][r].started_at = rows[t][r].started_at
         /\ rows'[t][r].completed_at = ending[t][r].began
         /\ rows'[t][r].retrieved_at = e.retrieved_at
         /\ ending'[t][r].kind = "none" /\ ended'[t][r] = clock
         /\ rows[t][r].status = "running" /\ ending[t][r].began \in 0..clock /\ clock \in Nat
<1> DEFINE installs == t = "gtfs" /\ status = "succeeded"
           Mine(row) == [row EXCEPT !.status = status, !.skip_code = code,
                                    !.completed_at = ending[t][r].began,
                                    !.retrieved_at = e.retrieved_at, !.stamp = e.stamp,
                                    !.is_current = installs]
           Other(row) == [row EXCEPT !.is_current = @ /\ ~ installs]
<1>1. /\ rows \in [Table -> [Run -> StatusRow]] /\ clock \in Nat
      /\ ending \in [Table -> [Run -> [kind : {"none", "complete", "fail"}, began : Maybe(Nat)]]]
      /\ ended \in [Table -> [Run -> Maybe(Nat)]]
  BY DEF StatusInv, StatusTypeOK
<1>2. rows[t][r].status = "running" /\ ending[t][r].began \in 0..clock
  BY DEF StatusInv, TableOK, TimesOK, RowTimesOK
<1>3. /\ rows' = [rows EXCEPT ![t] = [q \in Run |-> IF q = r THEN Mine(rows[t][q])
                                                             ELSE Other(rows[t][q])]]
      /\ ending' = [ending EXCEPT ![t][r] = NotEnding]
      /\ ended' = [ended EXCEPT ![t][r] = clock]
  BY DEF EndRow
<1>4. /\ e.retrieved_at \in Maybe(Int) /\ e.stamp \in Maybe(Nat)
      /\ ending[t][r].began \in Maybe(Nat) /\ installs \in BOOLEAN
  BY <1>1, <1>2 DEF Maybe
<1>5. \A row \in StatusRow :
        /\ Mine(row) \in StatusRow
        /\ Mine(row).status = status /\ Mine(row).skip_code = code
        /\ Mine(row).started_at = row.started_at
        /\ Mine(row).completed_at = ending[t][r].began
        /\ Mine(row).retrieved_at = e.retrieved_at
  BY <1>4 DEF StatusRow
<1>6. \A row \in StatusRow :
        /\ Other(row) \in StatusRow
        /\ Other(row).status = row.status /\ Other(row).skip_code = row.skip_code
        /\ Other(row).started_at = row.started_at
        /\ Other(row).completed_at = row.completed_at
        /\ Other(row).retrieved_at = row.retrieved_at
  <2>1. \A row \in StatusRow : (row.is_current /\ ~ installs) \in BOOLEAN
    OBVIOUS
  <2> QED BY <2>1 DEF StatusRow
<1> HIDE DEF Mine, Other
<1>7. /\ rows'[t] = [q \in Run |-> IF q = r THEN Mine(rows[t][q]) ELSE Other(rows[t][q])]
      /\ \A u \in Table : u # t =>
              rows'[u] = rows[u] /\ ending'[u] = ending[u] /\ ended'[u] = ended[u]
      /\ rows' \in [Table -> [Run -> StatusRow]]
  <2>1. [q \in Run |-> IF q = r THEN Mine(rows[t][q]) ELSE Other(rows[t][q])]
          \in [Run -> StatusRow]
    BY <1>1, <1>5, <1>6
  <2> QED BY <1>1, <1>3, <2>1
<1>8. NotEnding \in [kind : {"none", "complete", "fail"}, began : Maybe(Nat)]
  BY DEF NotEnding, Maybe
<1>9. StatusTypeOK'
  BY <1>1, <1>3, <1>7, <1>8 DEF StatusTypeOK, Maybe
<1>10. /\ ending'[t][r].kind = "none" /\ ended'[t][r] = clock
       /\ \A q \in Run : q # r => ending'[t][q] = ending[t][q] /\ ended'[t][q] = ended[t][q]
  BY <1>1, <1>3 DEF NotEnding
<1>11. \A q \in Run : rows[t][q] \in StatusRow
  BY <1>1
<1>12. /\ rows'[t][r].status = status /\ rows'[t][r].skip_code = code
       /\ rows'[t][r].started_at = rows[t][r].started_at
       /\ rows'[t][r].completed_at = ending[t][r].began
       /\ rows'[t][r].retrieved_at = e.retrieved_at
  BY <1>5, <1>7, <1>11
<1>13. \A q \in Run : q # r =>
         /\ rows'[t][q].status = rows[t][q].status
         /\ rows'[t][q].skip_code = rows[t][q].skip_code
         /\ rows'[t][q].started_at = rows[t][q].started_at
         /\ rows'[t][q].completed_at = rows[t][q].completed_at
         /\ rows'[t][q].retrieved_at = rows[t][q].retrieved_at
  BY <1>6, <1>7, <1>11
<1> QED BY <1>1, <1>2, <1>7, <1>9, <1>10, <1>12, <1>13

(***************************************************************************)
(* Ending a run adds at most its own row to the accepted or failed ones,   *)
(* completed when the transaction began and committed now.                 *)
(***************************************************************************)
LEMMA EndRowStep ==
  ASSUME StatusInv, NEW t \in Table, NEW r \in Run, ending[t][r].kind # "none",
         NEW status \in {"succeeded", "skipped", "failed"},
         NEW code \in {"none", "stale", "duplicate"},
         NEW e \in [retrieved_at : Maybe(Int), stamp : Maybe(Nat)],
         EndRow(t, r, status, code, e), clock' = clock,
         code = "duplicate" => status = "skipped",
         status # "failed" =>
           \E d \in Response : e.retrieved_at = ending[t][r].began + d.offset
  PROVE  StatusInv'
<1>1. /\ StatusTypeOK'
      /\ \A u \in Table : u # t =>
           rows'[u] = rows[u] /\ ending'[u] = ending[u] /\ ended'[u] = ended[u]
      /\ \A q \in Run : q # r =>
           /\ rows'[t][q].status = rows[t][q].status
           /\ rows'[t][q].skip_code = rows[t][q].skip_code
           /\ rows'[t][q].started_at = rows[t][q].started_at
           /\ rows'[t][q].completed_at = rows[t][q].completed_at
           /\ rows'[t][q].retrieved_at = rows[t][q].retrieved_at
           /\ ending'[t][q] = ending[t][q] /\ ended'[t][q] = ended[t][q]
      /\ rows'[t][r].status = status /\ rows'[t][r].skip_code = code
      /\ rows'[t][r].started_at = rows[t][r].started_at
      /\ rows'[t][r].completed_at = ending[t][r].began
      /\ rows'[t][r].retrieved_at = e.retrieved_at
      /\ ending'[t][r].kind = "none" /\ ended'[t][r] = clock
      /\ rows[t][r].status = "running" /\ ending[t][r].began \in 0..clock /\ clock \in Nat
  BY EndRowFacts
<1>2. ASSUME NEW u \in Table, u # t PROVE TableOK(u)'
  <2>1. StatusTypeOK /\ TableOK(u) /\ clock' >= clock
    BY <1>1 DEF StatusInv
  <2> QED BY <1>1, <1>2, <2>1, TableKept
<1>3. \A q \in Run : RowTimesOK(rows[t][q], ending[t][q], ended[t][q])
  BY DEF StatusInv, TableOK, TimesOK
<1>4. TimesOK(t)'
  <2> SUFFICES ASSUME NEW q \in Run
               PROVE  RowTimesOK(rows[t][q], ending[t][q], ended[t][q])'
    BY DEF TimesOK
  <2>1. CASE q = r
    BY <1>1, <1>3, <2>1 DEF RowTimesOK, Done, IsAccepted
  <2>2. CASE q # r
    <3>1. RowTimesOK(rows[t][q], ending[t][q], ended[t][q])
      BY <1>3
    <3> QED BY <1>1, <2>2, <3>1 DEF RowTimesOK, Done, IsAccepted
  <2> QED BY <2>1, <2>2
<1>5. Attempts(t)' = Attempts(t) /\ \A q \in Run : rows'[t][q].started_at = rows[t][q].started_at
  BY <1>1 DEF Attempts
<1>6. StartsInOrder(t)'
  <2>1. StartsInOrder(t) /\ Attempts(t) \subseteq Run
    BY DEF StatusInv, TableOK, Attempts
  <2> QED BY <1>5, <2>1 DEF StartsInOrder
<1>7. /\ Accepted(t) \subseteq Accepted(t)' /\ Accepted(t)' \subseteq Accepted(t) \cup {r}
      /\ With(t, "failed") \subseteq With(t, "failed")'
      /\ With(t, "failed")' \subseteq With(t, "failed") \cup {r}
      /\ r \notin Accepted(t) \cup With(t, "failed")
      /\ Accepted(t)' \subseteq Run /\ With(t, "failed")' \subseteq Run
  BY <1>1 DEF Accepted, With
<1>8. \A q \in Accepted(t) \cup With(t, "failed") :
        /\ q \in Run /\ CompletedAt(t)[q] \in Int /\ CompletedAt(t)'[q] = CompletedAt(t)[q]
        /\ RetrievedAt(t)'[q] = RetrievedAt(t)[q]
  <2>1. \A q \in Accepted(t) \cup With(t, "failed") :
          q # r /\ q \in Run /\ rows[t][q].completed_at \in Nat
    BY <1>7, RowFacts
  <2> QED BY <1>1, <2>1 DEF CompletedAt, RetrievedAt
<1>9. \A q \in Accepted(t) : RetrievedAt(t)[q] \in Int
  BY <1>7, RowFacts DEF RetrievedAt
<1>10. CompletedAt(t)'[r] \in Int /\ (r \in Accepted(t)' => RetrievedAt(t)'[r] \in Int)
  <2>1. CompletedAt(t)'[r] = ending[t][r].began /\ RetrievedAt(t)'[r] = e.retrieved_at
    BY <1>1 DEF CompletedAt, RetrievedAt
  <2>2. r \in Accepted(t)' => status # "failed"
    BY <1>1 DEF Accepted, With
  <2>3. \A d \in Response : d.offset \in Int
    BY StatusAssumption
  <2> QED BY <1>1, <2>1, <2>2, <2>3
<1>11. TopsExist(t)'
  <2>1. /\ HasTop(Attempts(t), StartedAt(t)) /\ HasTop(Accepted(t), CompletedAt(t))
        /\ HasTop(Accepted(t), RetrievedAt(t)) /\ HasTop(With(t, "failed"), CompletedAt(t))
    BY DEF StatusInv, TableOK, TopsExist
  <2>2. Run \subseteq Nat
    BY StatusAssumption
  <2>3. HasTop(Attempts(t)', StartedAt(t)')
    <3>1. StartedAt(t)' = StartedAt(t)
      BY <1>5 DEF StartedAt
    <3> QED BY <1>5, <2>1, <3>1
  <2>4. HasTop(Accepted(t)', CompletedAt(t)')
    <3>1. \A q \in Accepted(t)' : CompletedAt(t)'[q] \in Int
      BY <1>7, <1>8, <1>10
    <3>2. Accepted(t) \subseteq Nat /\ Accepted(t)' \subseteq Nat
      BY <1>7, <2>2
    <3>3. \A q \in Accepted(t) : CompletedAt(t)[q] \in Int /\ CompletedAt(t)'[q] = CompletedAt(t)[q]
      BY <1>8, <1>9
    <3>4. Accepted(t) \subseteq Accepted(t)' /\ Accepted(t)' \subseteq Accepted(t) \cup {r}
      BY <1>7
    <3>5. HasTop(Accepted(t), CompletedAt(t))
      BY <2>1
    <3> QED BY ONLY <3>1, <3>2, <3>3, <3>4, <3>5, TopGrows
  <2>5. HasTop(Accepted(t)', RetrievedAt(t)')
    <3>1. \A q \in Accepted(t)' : RetrievedAt(t)'[q] \in Int
      BY <1>7, <1>8, <1>9, <1>10
    <3>2. Accepted(t) \subseteq Nat /\ Accepted(t)' \subseteq Nat
      BY <1>7, <2>2
    <3>3. \A q \in Accepted(t) : RetrievedAt(t)[q] \in Int /\ RetrievedAt(t)'[q] = RetrievedAt(t)[q]
      BY <1>8, <1>9
    <3>4. Accepted(t) \subseteq Accepted(t)' /\ Accepted(t)' \subseteq Accepted(t) \cup {r}
      BY <1>7
    <3> QED BY <2>1, <3>1, <3>2, <3>3, <3>4, TopGrows
  <2>6. HasTop(With(t, "failed")', CompletedAt(t)')
    <3>1. \A q \in With(t, "failed")' : CompletedAt(t)'[q] \in Int
      BY <1>7, <1>8, <1>10
    <3>2. With(t, "failed") \subseteq Nat /\ With(t, "failed")' \subseteq Nat
      BY <1>7, <2>2
    <3>3. \A q \in With(t, "failed") : CompletedAt(t)[q] \in Int /\
        CompletedAt(t)'[q] = CompletedAt(t)[q]
      BY <1>8, <1>9
    <3>4. With(t, "failed") \subseteq With(t, "failed")' /\
        With(t, "failed")' \subseteq With(t, "failed") \cup {r}
      BY <1>7
    <3>5. HasTop(With(t, "failed"), CompletedAt(t))
      BY <2>1
    <3> QED BY ONLY <3>1, <3>2, <3>3, <3>4, <3>5, TopGrows
  <2> QED BY <2>3, <2>4, <2>5, <2>6 DEF TopsExist, HasTop
<1>12. TableOK(t)'
  BY <1>4, <1>6, <1>11 DEF TableOK
<1> QED BY <1>1, <1>2, <1>12 DEF StatusInv

(***************************************************************************)
(* Whatever the verdict, a completed run carries what was fetched within a *)
(* worker's clock error of its transaction.                                *)
(***************************************************************************)
LEMMA CommitStep ==
  ASSUME StatusInv, NEW t \in Table, NEW r \in Run, CommitComplete(t, r) \/ CommitFail(t, r)
  PROVE  StatusInv'
<1>1. ASSUME CommitComplete(t, r) PROVE StatusInv'
  <2>1. PICK d \in Response :
          \E v \in Verdicts(t, Fetched(ending[t][r].began, d), Applied(t)) :
            IF v = "succeeded"
              THEN EndRow(t, r, "succeeded", "none", Fetched(ending[t][r].began, d))
              ELSE EndRow(t, r, "skipped", v, Fetched(ending[t][r].began, d))
    BY <1>1 DEF CommitComplete
  <2> DEFINE e == Fetched(ending[t][r].began, d)
  <2>2. PICK v \in {"succeeded", "stale", "duplicate"} :
          IF v = "succeeded" THEN EndRow(t, r, "succeeded", "none", e)
                             ELSE EndRow(t, r, "skipped", v, e)
    BY <2>1 DEF Verdicts
  <2>3. ending[t][r].kind # "none" /\ clock' = clock
    BY <1>1 DEF CommitComplete
  <2>4. ending[t][r].began \in Nat
    BY <2>3 DEF StatusInv, StatusTypeOK, TableOK, TimesOK, RowTimesOK
  <2>5. d.offset \in Int /\ d.stamp \in Maybe(Nat)
    BY StatusAssumption DEF Maybe
  <2>6. /\ e \in [retrieved_at : Maybe(Int), stamp : Maybe(Nat)]
        /\ e.retrieved_at = ending[t][r].began + d.offset
    BY <2>4, <2>5 DEF Fetched, Maybe
  <2> HIDE DEF e
  <2>7. CASE v = "succeeded"
    BY <2>2, <2>3, <2>6, <2>7, EndRowStep
  <2>8. CASE v # "succeeded"
    BY <2>2, <2>3, <2>6, <2>8, EndRowStep
  <2> QED BY <2>7, <2>8
<1>2. ASSUME CommitFail(t, r) PROVE StatusInv'
  <2>1. /\ ending[t][r].kind # "none" /\ clock' = clock
        /\ EndRow(t, r, "failed", "none", Nothing)
    BY <1>2 DEF CommitFail
  <2>2. Nothing \in [retrieved_at : Maybe(Int), stamp : Maybe(Nat)]
    BY DEF Nothing, Maybe
  <2> QED BY <2>1, <2>2, EndRowStep
<1> QED BY <1>1, <1>2

(***************************************************************************)
(* The invariant of the two ingestion tables holds in every reachable      *)
(* state.                                                                  *)
(***************************************************************************)
THEOREM StatusInvariance == StatusSpec => []StatusInv
<1>1. StatusInit => StatusInv
  <2> SUFFICES ASSUME StatusInit PROVE StatusInv
    OBVIOUS
  <2>1. StatusTypeOK
    BY DEF StatusInit, StatusTypeOK, StatusRow, Maybe, NoRow, NotEnding
  <2>2. ASSUME NEW t \in Table PROVE TableOK(t)
    <3>1. \A r \in Run : rows[t][r] = NoRow /\ ending[t][r] = NotEnding
      BY DEF StatusInit
    <3>2. Attempts(t) = {} /\ Accepted(t) = {} /\ With(t, "failed") = {}
      BY <3>1 DEF Attempts, Accepted, With, NoRow
    <3>3. TimesOK(t)
      BY <3>1 DEF TimesOK, RowTimesOK, NoRow, NotEnding, Done, IsAccepted
    <3> QED BY <3>2, <3>3 DEF TableOK, StartsInOrder, TopsExist, HasTop
  <2> QED BY <2>1, <2>2 DEF StatusInv
<1>2. StatusInv /\ [StatusNext]_statusVars => StatusInv'
  <2> SUFFICES ASSUME StatusInv, [StatusNext]_statusVars PROVE StatusInv'
    OBVIOUS
  <2>1. CASE Tick
    BY <2>1, TickStep
  <2>2. ASSUME NEW t \in Table, NEW r \in Run, StartRun(t, r) PROVE StatusInv'
    BY <2>2, StartRunStep
  <2>3. ASSUME NEW t \in Table, NEW r \in Run, BeginComplete(t, r) \/ BeginFail(t, r)
        PROVE  StatusInv'
    BY <2>3, BeginStep
  <2>4. ASSUME NEW t \in Table, NEW r \in Run, CommitComplete(t, r) \/ CommitFail(t, r)
        PROVE  StatusInv'
    BY <2>4, CommitStep
  <2>5. CASE UNCHANGED statusVars
    <3>1. /\ StatusTypeOK' /\ clock' >= clock /\ rows' = rows /\ ending' = ending
          /\ ended' = ended
      BY <2>5 DEF statusVars, StatusInv, StatusTypeOK
    <3> QED BY <3>1, TableKept DEF StatusInv
  <2> QED BY <2>1, <2>2, <2>3, <2>4, <2>5 DEF StatusNext
<1> QED BY <1>1, <1>2, PTL DEF StatusSpec

(***************************************************************************)
(* A failure recorded after every acceptance, and a newest run that hangs, *)
(* are reported, for any number of runs and any limit on the failures      *)
(* listed.                                                                 *)
(***************************************************************************)
THEOREM TroubleAlwaysShown == StatusSpec => []TroubleShown
BY StatusInvariance, InvShowsTrouble, PTL

(***************************************************************************)
(* An accepted run that began after them clears earlier failures and       *)
(* overdue runs.                                                           *)
(***************************************************************************)
THEOREM AcceptanceAlwaysClears == StatusSpec => []AcceptanceClears
BY StatusInvariance, InvClears, PTL

(***************************************************************************)
(* An overall "ok" means that a run of either table was accepted within    *)
(* its limit, whatever the workers' clocks.                                *)
(***************************************************************************)
THEOREM OkIsAlwaysRecent == StatusSpec => []OkIsRecent
BY StatusInvariance, InvRecent, PTL

=============================================================================
