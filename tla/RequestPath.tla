----------------------------- MODULE RequestPath -----------------------------
(***************************************************************************)
(* A page's request from getJson (web/src/api/client.ts) to the API's      *)
(* handlers (internal/api/server.go) and back, while deadlines pass, pages *)
(* are left, hidden or offline, connections break and the API process      *)
(* shuts down (cmd/api/main.go).  Time is abstracted: a deadline may pass  *)
(* at any moment it is armed.                                              *)
(***************************************************************************)
EXTENDS Naturals

CONSTANT Query   \* the queries of the pages, one getJson and its retry each

Attempt == {1, 2}

Request == Query \X Attempt

\* What a query asks for.  "skewed": the API answers 200 with an envelope
\* that this version of the client does not accept.
Resource == {"found", "missing", "invalid", "skewed"}

Status == {"ok", "bad_request", "not_found", "gateway_timeout", "internal_error"}

\* How getJson ends: with data, an ApiError, or, "aborted", the error thrown
\* at a caller that gave up: its abort reason, or what fetch or json threw.
Result == {"data", "aborted", "request_timeout", "network_error", "invalid_response"}
            \cup (Status \ {"ok"})

\* What React Query looks at before it fetches (onlineManager, focusManager).
Conditions == {"online", "visible"}

VARIABLES
  resource,  \* resource[q]
  browser,   \* the conditions that hold now
  aborted,   \* the queries whose caller has aborted its signal
  call,      \* call[q]: the call of getJson
  exchange,  \* exchange[r]: the connection and the handler of a request
  api,       \* where run of cmd/api is
  db,        \* the pool: "open" or "closed"
  exit       \* what run returns

clientVars == <<resource, browser, aborted, call>>
serverVars == <<api, db, exit>>
vars == <<resource, browser, aborted, call, exchange, api, db, exit>>

TypeOK ==
  /\ resource \in [Query -> Resource] /\ aborted \in SUBSET Query
  /\ browser \in SUBSET Conditions
  /\ call \in [Query -> [pc : {"idle", "paused", "fetch", "body", "retry", "done", "cancelled"},
                         failures : {0, 1}, timer : BOOLEAN,
                         reason : {"none", "timeout", "caller"},
                         promise : {"pending", "resolved", "rejected"},
                         result : Result \cup {"none"}]]
  /\ exchange \in [Request -> [wire : {"none", "sent", "headers", "complete", "broken"},
                               handler : {"none", "running", "writing", "ended", "killed"},
                               ctx : {"live", "cancelled"}, status : Status \cup {"none"}]]
  /\ api \in {"serving", "draining", "closing", "returning", "cancelled", "closed", "exited"}
  /\ db \in {"open", "closed"} /\ exit \in {"none", "clean", "error"}

Init ==
  /\ resource \in [Query -> Resource] /\ aborted = {} /\ browser = Conditions
  /\ call = [q \in Query |-> [pc |-> "idle", failures |-> 0, timer |-> FALSE, reason |-> "none",
                              promise |-> "pending", result |-> "none"]]
  /\ exchange = [r \in Request |-> [wire |-> "none", handler |-> "none", ctx |-> "live",
                                    status |-> "none"]]
  /\ api = "serving" /\ db = "open" /\ exit = "none"

-----------------------------------------------------------------------------
(* The client.                                                             *)

Current(q) == <<q, call[q].failures + 1>>

\* The network comes and goes, the page is hidden and shown.
BrowserChanges(condition) ==
  /\ browser' = IF condition \in browser THEN browser \ {condition} ELSE browser \cup {condition}
  /\ UNCHANGED <<resource, aborted, call, exchange, serverVars>>

\* React Query starts a first fetch only online, and resumes one it paused, or
\* a retry, only while the page is visible too: the queries override neither
\* networkMode nor the focus manager.
MayStart(q) ==
  \/ call[q].pc = "idle" /\ "online" \in browser
  \/ call[q].pc \in {"paused", "retry"} /\ browser = Conditions

PauseFetch(q) ==
  /\ call[q].pc = "idle" /\ q \notin aborted /\ "online" \notin browser
  /\ call' = [call EXCEPT ![q].pc = "paused"]
  /\ UNCHANGED <<resource, browser, aborted, exchange, serverVars>>

\* A call starts: the timer is armed and the request sent.  React Query
\* repeats it after a failure that shouldRetryRequest accepts.
GetJson(q) ==
  LET failures == IF call[q].pc = "retry" THEN 1 ELSE 0
  IN  /\ MayStart(q) /\ q \notin aborted
      /\ call' = [call EXCEPT ![q] =
                    [@ EXCEPT !.pc = "fetch", !.failures = failures, !.timer = TRUE,
                              !.reason = "none", !.result = "none"]]
      /\ exchange' = [exchange EXCEPT ![<<q, failures + 1>>].wire = "sent"]
      /\ UNCHANGED <<resource, browser, aborted, serverVars>>

\* The signal was aborted before the call, before the retry or in a pause.
GetJsonAborted(q) ==
  /\ call[q].pc \in {"idle", "paused", "retry"} /\ q \in aborted
  /\ call' = [call EXCEPT ![q].pc = "cancelled"]
  /\ UNCHANGED <<resource, browser, aborted, exchange, serverVars>>

\* Only the first controller.abort sets the signal's reason.
Abort(c, reason) == [c EXCEPT !.reason = IF @ = "none" THEN reason ELSE @]

Timeout(q) ==
  /\ call[q].timer
  /\ call' = [call EXCEPT ![q] = [Abort(@, "timeout") EXCEPT !.timer = FALSE]]
  /\ UNCHANGED <<resource, browser, aborted, exchange, serverVars>>

\* The listener is there while the call lasts.
CallerAborts(q) ==
  /\ q \notin aborted /\ call[q].pc \notin {"done", "cancelled"}
  /\ aborted' = aborted \cup {q}
  /\ call' = [call EXCEPT ![q] = IF @.pc \in {"fetch", "body"} THEN Abort(@, "caller") ELSE @]
  /\ UNCHANGED <<resource, browser, exchange, serverVars>>

\* What the browser makes of a pending fetch, or json, promise.
FetchOutcomes(q) ==
  LET wire == exchange[Current(q)].wire
  IN  {o \in {"resolved", "rejected"} :
         \/ o = "resolved" /\ wire \in {"headers", "complete"} /\ call[q].reason = "none"
         \/ o = "rejected" /\ (wire = "broken" \/ call[q].reason # "none")}

\* A body received in full may be parsed although the signal was aborted.
BodyOutcomes(q) ==
  LET wire == exchange[Current(q)].wire
  IN  {o \in {"resolved", "rejected"} :
         \/ o = "resolved" /\ wire = "complete"
         \/ o = "rejected" /\ (wire = "broken" \/ call[q].reason # "none")}

\* The promise settles; what awaits it runs later.
PromiseSettles(q) ==
  /\ call[q].pc \in {"fetch", "body"} /\ call[q].promise = "pending"
  /\ \E o \in IF call[q].pc = "fetch" THEN FetchOutcomes(q) ELSE BodyOutcomes(q) :
       call' = [call EXCEPT ![q].promise = o]
  /\ UNCHANGED <<resource, browser, aborted, exchange, serverVars>>

ShouldRetryRequest(failureCount, error) ==
  /\ failureCount < 1
  /\ error \in {"network_error", "request_timeout", "gateway_timeout", "internal_error"}

\* The end of getJson: finally clears the timer and the listener.
Settle(q, result) ==
  call' = [call EXCEPT ![q] =
             [@ EXCEPT !.pc = IF ShouldRetryRequest(call[q].failures, result) THEN "retry"
                              ELSE "done",
                       !.timer = FALSE, !.promise = "pending", !.result = result]]

\* A timeout goes before the caller's abort, both before anything else.
Unless(q, result) ==
  CASE call[q].reason = "timeout" -> "request_timeout"
    [] call[q].reason # "timeout" /\ q \in aborted -> "aborted"
    [] OTHER -> result

\* Mutant: the timer covers the fetch but not the body.
AfterFetchClearsTimer(q) ==
  /\ call[q].pc = "fetch" /\ call[q].promise # "pending"
  /\ IF call[q].promise = "resolved"
       THEN call' = [call EXCEPT ![q] = [@ EXCEPT !.pc = "body", !.promise = "pending",
                                                  !.timer = FALSE]]
       ELSE Settle(q, Unless(q, "network_error"))
  /\ UNCHANGED <<resource, browser, aborted, exchange, serverVars>>

AfterFetch(q) ==
  /\ call[q].pc = "fetch" /\ call[q].promise # "pending"
  /\ IF call[q].promise = "resolved"
       THEN call' = [call EXCEPT ![q] = [@ EXCEPT !.pc = "body", !.promise = "pending"]]
       ELSE Settle(q, Unless(q, "network_error"))
  /\ UNCHANGED <<resource, browser, aborted, exchange, serverVars>>

\* What a body that was read amounts to.
BodyResult(q) ==
  CASE exchange[Current(q)].status # "ok" -> exchange[Current(q)].status
    [] exchange[Current(q)].status = "ok" /\ resource[q] = "skewed" -> "invalid_response"
    [] OTHER -> "data"

\* Mutant: a body that arrived is used, whatever happened meanwhile.
AfterBodyUnchecked(q) ==
  /\ call[q].pc = "body" /\ call[q].promise # "pending"
  /\ Settle(q, IF call[q].promise = "resolved" THEN BodyResult(q)
               ELSE Unless(q, "invalid_response"))
  /\ UNCHANGED <<resource, browser, aborted, exchange, serverVars>>

AfterBody(q) ==
  /\ call[q].pc = "body" /\ call[q].promise # "pending"
  /\ Settle(q, Unless(q, IF call[q].promise = "resolved" THEN BodyResult(q)
                         ELSE "invalid_response"))
  /\ UNCHANGED <<resource, browser, aborted, exchange, serverVars>>

-----------------------------------------------------------------------------
(* The handlers, and the connections below them.                           *)

Active(r) == exchange[r].handler \in {"running", "writing"}

\* The connection breaks: the network, a client that gave up, or the
\* server's WriteTimeout.  net/http then cancels the request's context.
Break(r) ==
  /\ exchange[r].wire \in {"sent", "headers"}
  /\ exchange' = [exchange EXCEPT ![r] = [@ EXCEPT !.wire = "broken", !.ctx = "cancelled"]]
  /\ UNCHANGED <<clientVars, serverVars>>

\* The server has connections: until Shutdown found none in use, or, where it
\* did not or Serve failed, until the process ends.
HasConnections == api \in {"serving", "draining", "closing"} \/ (exit = "error" /\ api # "exited")

\* A connection the server has may still bring a request when nobody listens
\* any more; any other request is refused then.
Accept(r) ==
  /\ exchange[r].wire = "sent" /\ exchange[r].handler = "none"
  /\ \/ HasConnections /\ exchange' = [exchange EXCEPT ![r].handler = "running"]
     \/ api # "serving" /\ exchange' = [exchange EXCEPT ![r].wire = "broken"]
  /\ UNCHANGED <<clientVars, serverVars>>

\* Mutant: what is not a timeout is a missing resource.
WriteRepositoryErrorNotFound(err) ==
  IF err = "DeadlineExceeded" THEN "gateway_timeout" ELSE "not_found"

WriteRepositoryError(err) ==
  CASE err = "ErrNotFound" -> "not_found"
    [] err = "DeadlineExceeded" -> "gateway_timeout"
    [] OTHER -> "internal_error"

\* How a repository call may fail: by the database, by the handler's
\* timeout, or by a context cancelled before.  An id that no row can have is
\* missing too.
RepositoryErrors(r) ==
  {"failed", "DeadlineExceeded"}
    \cup (IF exchange[r].ctx = "cancelled" THEN {"Canceled"} ELSE {})
    \cup (IF resource[r[1]] = "missing" THEN {"ErrNotFound"} ELSE {})

\* The statuses a handler may answer with: an invalid query or path is
\* refused before the repository is asked.
Answers(r) ==
  IF resource[r[1]] = "invalid" THEN {"bad_request"}
  ELSE {WriteRepositoryError(err) : err \in RepositoryErrors(r)}
         \cup (IF db = "open" /\ resource[r[1]] # "missing" THEN {"ok"} ELSE {})

Handle(r) ==
  /\ exchange[r].handler = "running"
  /\ \E status \in Answers(r) :
       exchange' = [exchange EXCEPT ![r] = [@ EXCEPT !.handler = "writing", !.status = status]]
  /\ UNCHANGED <<clientVars, serverVars>>

\* Headers and body leave separately; a failed write is only logged.
WriteJSON(r) ==
  /\ exchange[r].handler = "writing"
  /\ exchange' = [exchange EXCEPT ![r] =
       CASE @.wire = "sent"    -> [@ EXCEPT !.wire = "headers"]
         [] @.wire = "headers" -> [@ EXCEPT !.wire = "complete", !.handler = "ended"]
         [] OTHER              -> [@ EXCEPT !.handler = "ended"]]
  /\ UNCHANGED <<clientVars, serverVars>>

-----------------------------------------------------------------------------
(* run and shutdownServer.                                                 *)

CancelRequests == exchange' = [r \in Request |-> [exchange[r] EXCEPT !.ctx = "cancelled"]]

\* The connections of unfinished requests are cut.
Cut(e) == IF e.wire \in {"sent", "headers"} THEN [e EXCEPT !.wire = "broken"] ELSE e

\* A signal: Shutdown closes the listener and waits.
Signal ==
  /\ api = "serving" /\ api' = "draining"
  /\ UNCHANGED <<clientVars, exchange, db, exit>>

\* Nothing is running any more.  An error if Serve had failed by itself.
ShutdownDrained ==
  /\ api = "draining" /\ \A r \in Request : ~ Active(r)
  /\ api' = "returning" /\ exit' \in {"clean", "error"}
  /\ UNCHANGED <<clientVars, exchange, db>>

ShutdownTimesOut ==
  /\ api = "draining" /\ \E r \in Request : Active(r)
  /\ CancelRequests
  /\ api' = "closing"
  /\ UNCHANGED <<clientVars, db, exit>>

CloseServer ==
  /\ api = "closing"
  /\ exchange' = [r \in Request |-> Cut(exchange[r])]
  /\ api' = "returning" /\ exit' = "error"
  /\ UNCHANGED <<clientVars, db>>

\* Serve fails by itself, with handlers at work.
ServeFails ==
  /\ api = "serving"
  /\ api' = "returning" /\ exit' = "error"
  /\ UNCHANGED <<clientVars, exchange, db>>

\* Mutant: cancelRequests is not deferred.
DeferredCancelMissing ==
  /\ api = "returning" /\ api' = "cancelled"
  /\ UNCHANGED <<clientVars, exchange, db, exit>>

\* The deferred calls, last first: cancelRequests, then db.Close.
DeferredCancel ==
  /\ api = "returning" /\ api' = "cancelled"
  /\ CancelRequests
  /\ UNCHANGED <<clientVars, db, exit>>

DeferredClose ==
  /\ api = "cancelled" /\ api' = "closed"
  /\ db' = "closed"
  /\ UNCHANGED <<clientVars, exchange, exit>>

\* main returns; handlers still at work die with the process.
Exit ==
  /\ api = "closed" /\ api' = "exited"
  /\ exchange' = [r \in Request |-> IF Active(r) THEN [Cut(exchange[r]) EXCEPT !.handler = "killed"]
                                                 ELSE Cut(exchange[r])]
  /\ UNCHANGED <<clientVars, db, exit>>

-----------------------------------------------------------------------------

Continue(q) == PromiseSettles(q) \/ AfterFetch(q) \/ AfterBody(q)

Next ==
  \/ \E condition \in Conditions : BrowserChanges(condition)
  \/ \E q \in Query : \/ PauseFetch(q) \/ GetJson(q) \/ GetJsonAborted(q) \/ Timeout(q)
                      \/ CallerAborts(q) \/ PromiseSettles(q) \/ AfterFetch(q) \/ AfterBody(q)
  \/ \E r \in Request : Break(r) \/ Accept(r) \/ Handle(r) \/ WriteJSON(r)
  \/ Signal \/ ShutdownDrained \/ ShutdownTimesOut \/ CloseServer \/ ServeFails
  \/ DeferredCancel \/ DeferredClose \/ Exit

\* The browser's event loop runs timers and settled promises.  A paused call is
\* resumed by the very event that makes the last condition true, so one whose
\* conditions come back again and again starts, though none of them stays
\* (SF).  Nothing is assumed of the network, of the server, or that a page is
\* ever shown again.
Spec ==
  /\ Init /\ [][Next]_vars
  /\ \A q \in Query :
       WF_vars(Timeout(q)) /\ WF_vars(Continue(q)) /\ SF_vars(GetJson(q) \/ GetJsonAborted(q))

-----------------------------------------------------------------------------

Settled(q) == call[q].pc \in {"retry", "done"}

\* The first of the client's deadline and the caller's abort decides how
\* getJson ends, wherever the answer was at that moment: after a timeout it
\* is a request_timeout, after an abort "aborted" (never an ApiError, which
\* might be retried), and data is returned only if neither came
\* (client.ts 46-78).
FirstAbortDecides ==
  \A q \in Query : Settled(q) =>
    /\ call[q].reason = "timeout" <=> call[q].result = "request_timeout"
    /\ call[q].reason = "caller" => call[q].result = "aborted"
    /\ call[q].result = "aborted" => q \in aborted

\* A page gives up for good only over what is really so: it says that a
\* resource is missing or a query invalid only if they are, and everything a
\* shutdown, a cancellation or a slow database does to a request was
\* retried first, except an answer cut off within its body
\* (client.ts 80-83, writeRepositoryError, shutdownServer).
OnlyRealErrorsAreFinal ==
  \A q \in Query : call[q].pc = "done" =>
    CASE call[q].result = "data"             -> resource[q] = "found"
      [] call[q].result = "not_found"        -> resource[q] = "missing"
      [] call[q].result = "bad_request"      -> resource[q] = "invalid"
      [] call[q].result = "invalid_response" ->
           \/ resource[q] = "skewed"
           \/ exchange[Current(q)].wire = "broken" /\ exchange[Current(q)].status # "none"
      [] call[q].result = "aborted"          -> q \in aborted
      [] OTHER                               -> call[q].failures = 1

\* The pool is never closed, and the process never ends, under a handler
\* that was not cancelled before; a clean exit leaves no handler behind
\* (run's deferred calls, shutdownServer).
NoHandlerIsSurprised ==
  \A r \in Request :
    /\ Active(r) /\ db = "closed" => exchange[r].ctx = "cancelled"
    /\ exchange[r].handler = "killed" => exchange[r].ctx = "cancelled" /\ exit = "error"

\* Every fetch ends, with its pauses and its retry, even if the server answers
\* half and then nothing more (client.ts 44-46: the timer covers the body
\* too), unless from some time on the page is never online and visible at
\* once, when React Query leaves it paused (query-client.ts 3-8).
PagesSettle ==
  []<>(browser = Conditions) =>
    \A q \in Query : call[q].pc \in {"paused", "fetch"} ~> call[q].pc \in {"done", "cancelled"}

=============================================================================
