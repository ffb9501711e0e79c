----------------------------- MODULE FetchUser -----------------------------
(***************************************************************************)
(* The event-comparison program: the request loop of main.run, fetchUser   *)
(* with its cache lookup and its retried DB calls, the two event recorders *)
(* and the shutdown of the trace and the log provider.                     *)
(*                                                                         *)
(* A signal cancels the context at any moment.  It is noticed at the top   *)
(* of the loop and in sleep, whose select takes either branch when the     *)
(* timer has fired too.                                                    *)
(***************************************************************************)
EXTENDS Integers, FiniteSets

CONSTANTS
    MaxAttempts,       \* maxAttempts
    RequestFlags,      \* values of -requests; 0 means until stopped
    MaxSent,           \* bound: requests sent when -requests is 0
    TracesStall,       \* may the trace collector outlast the deadline?
    LogsStall          \* may the log collector outlast the deadline?

ASSUME AttemptsAssumption == MaxAttempts \in Nat \ {0}
ASSUME FlagsAssumption == RequestFlags \subseteq Nat /\ MaxSent \in Nat
ASSUME StallAssumption == TracesStall \in BOOLEAN /\ LogsStall \in BOOLEAN

VARIABLES
    opt,               \* the flags and environment of this run
    pc,                \* where run, or the request it makes, is
    signalled,         \* ctx is cancelled
    due,               \* the timer of the sleep in progress has fired
    scenario,          \* what the cache and the DB do in this request
    req,               \* the local variables of fetchUser, and its span
    sent, failed, lastErr,
    expired,           \* the deadline of the shutdown has passed
    exitCode,
    tp, spanQueue, spanOut, spanLost,    \* the tracer provider
    lp, logQueue, logOut, logLost        \* the logger provider

requestVars == <<scenario, req>>
loopVars    == <<sent, failed, lastErr>>
traceVars   == <<tp, spanQueue, spanOut, spanLost>>
logVars     == <<lp, logQueue, logOut, logLost>>
exitVars    == <<expired, exitCode>>
vars == <<opt, pc, signalled, due, requestVars, loopVars, exitVars, traceVars, logVars>>

Traces == INSTANCE SpanPipeline WITH CollectorFails <- TracesStall,
    provider <- tp, queue <- spanQueue, exported <- spanOut, lost <- spanLost
Logs == INSTANCE SpanPipeline WITH CollectorFails <- LogsStall,
    provider <- lp, queue <- logQueue, exported <- logOut, lost <- logLost

NoErr == "nil"

(* fetchUser's variables as it starts, and db.calls of its userDB (served). *)
FreshRequest == [attempt |-> 0, served |-> 0, calls |-> 0, retries |-> 0, hit |-> FALSE,
                 err |-> NoErr, events |-> {}, recorded |-> NoErr]

NoScenario == [hit |-> FALSE, timeouts |-> 0]

(* -requests 1 replays one scenario: the DB times out once, or always. *)
FixedScenario(fail) == [hit |-> FALSE, timeouts |-> IF fail THEN MaxAttempts ELSE 1]

(* Otherwise it is drawn: a hit, or a miss with no, one or only timeouts. *)
RandomScenarios(fail) ==
    {[hit |-> TRUE, timeouts |-> 0]}
      \cup [hit : {FALSE}, timeouts : IF fail THEN {MaxAttempts} ELSE {0, 1, MaxAttempts}]

Scenarios == IF opt.requests = 1 THEN {FixedScenario(opt.fail)} ELSE RandomScenarios(opt.fail)

-----------------------------------------------------------------------------
(* Spans, log records and events *)

(* (Mutant of OnStart: every span gets the request context.) *)
OnStartAlways(parent) == parent \in {"none", "fetch user"}

(* OnStart gives the request context to the span without a local parent.   *)
OnStart(parent) == parent = "none"

(* A child of the request's main span, and that span itself. *)
ChildSpan(name, attempt, err) ==
    [req |-> sent + 1, name |-> name, attempt |-> attempt, error |-> err,
     info |-> OnStart("fetch user")]
MainSpan ==
    [req |-> sent + 1, name |-> "fetch user", error |-> req.recorded, hit |-> req.hit,
     retries |-> req.retries, calls |-> req.calls, events |-> req.events,
     info |-> OnStart("none")]

EndSpan(s) == IF opt.batch THEN Traces!EndSpan(s) ELSE Traces!EndSpanNow(s)

(* Emit carries the span of its context; OnEmit copies the name, if asked. *)
LogRecord(name, attempt, span) ==
    [req |-> sent + 1, name |-> name, attempt |-> attempt, span |-> span,
     nameAttr |-> opt.copyName /\ name # "none"]
Emit(r) == IF opt.batch THEN Logs!EndSpan(r) ELSE Logs!EndSpanNow(r)

(* eventRecorder: a log record in the main span's context, or an event in  *)
(* the main span itself.                                                   *)
SpanEvent(name, attempt) == [name |-> name, attempt |-> attempt]
Record(r, name, attempt) ==
    IF opt.spanEvents
      THEN req' = [r EXCEPT !.events = @ \cup {SpanEvent(name, attempt)}] /\ UNCHANGED logVars
      ELSE req' = r /\ Emit(LogRecord(name, attempt, "fetch user"))

-----------------------------------------------------------------------------
(* main.run *)

Init ==
    /\ opt \in [fail : BOOLEAN, spanEvents : BOOLEAN, requests : RequestFlags,
                batch : BOOLEAN, copyName : BOOLEAN]
    /\ pc = "start" /\ signalled = FALSE /\ due = FALSE
    /\ scenario = NoScenario /\ req = FreshRequest
    /\ sent = 0 /\ failed = 0 /\ lastErr = NoErr
    /\ expired = FALSE /\ exitCode = 0
    /\ Traces!PipelineInit /\ Logs!PipelineInit

(* newTelemetry installs both providers, or fails and run returns 1. *)
NewTelemetry ==
    /\ pc = "start"
    /\ \/ /\ Traces!InstallProvider /\ Logs!InstallProvider
          /\ pc' = "loop" /\ exitCode' = exitCode
       \/ /\ pc' = "exited" /\ exitCode' = 1
          /\ UNCHANGED <<traceVars, logVars>>
    /\ UNCHANGED <<opt, signalled, due, requestVars, loopVars, expired>>

(* The next request, unless enough were sent or the context is cancelled:  *)
(* fetchUser starts its span and asks the cache.                           *)
StartRequest ==
    /\ pc = "loop" /\ ~signalled
    /\ IF opt.requests = 0 THEN sent < MaxSent ELSE sent < opt.requests
    /\ scenario' \in Scenarios
    /\ req' = FreshRequest
    /\ pc' = "cacheGet" /\ due' = FALSE
    /\ UNCHANGED <<opt, signalled, loopVars, exitVars, traceVars, logVars>>

(* (Mutant of LeaveLoop: the cancelled context is not looked at.) *)
LeaveLoopWhenSent ==
    /\ pc = "loop"
    /\ opt.requests # 0 /\ sent >= opt.requests
    /\ pc' = "shutdown"
    /\ UNCHANGED <<opt, signalled, due, requestVars, loopVars, exitVars, traceVars, logVars>>

LeaveLoop ==
    /\ pc = "loop"
    /\ signalled \/ (opt.requests # 0 /\ sent >= opt.requests)
    /\ pc' = "shutdown"
    /\ UNCHANGED <<opt, signalled, due, requestVars, loopVars, exitVars, traceVars, logVars>>

(* The pause between two requests; cut short, it ends the loop. *)
Pause ==
    /\ pc = "pause"
    /\ \/ due /\ pc' = "loop"
       \/ signalled /\ pc' = "shutdown"
    /\ UNCHANGED <<opt, signalled, due, requestVars, loopVars, exitVars, traceVars, logVars>>

-----------------------------------------------------------------------------
(* fetchUser *)

(* cache.get: cut short, or a hit, or a miss that goes on to the DB. *)
CacheGet ==
    /\ pc = "cacheGet"
    /\ \/ /\ signalled
          /\ EndSpan(ChildSpan("cache get", 0, "cancelled"))
          /\ req' = [req EXCEPT !.err = "cancelled"]
          /\ pc' = "annotate" /\ due' = due
       \/ /\ due
          /\ EndSpan(ChildSpan("cache get", 0, NoErr))
          /\ IF scenario.hit
               THEN req' = [req EXCEPT !.hit = TRUE] /\ pc' = "annotate"
               ELSE req' = [req EXCEPT !.attempt = 1] /\ pc' = "select"
          /\ due' = FALSE
    /\ UNCHANGED <<opt, signalled, scenario, loopVars, exitVars, logVars>>

(* userDB.selectUser: cut short, timed out with a diagnostic log record,   *)
(* or answered.  Only a call that was not cut short counts as served.      *)
SelectUser ==
    /\ pc = "select"
    /\ \/ /\ signalled
          /\ req' = [req EXCEPT !.err = "cancelled"]
          /\ EndSpan(ChildSpan("SELECT users", req.attempt, "cancelled"))
          /\ UNCHANGED logVars
       \/ /\ due /\ req.served + 1 <= scenario.timeouts
          /\ req' = [req EXCEPT !.served = @ + 1, !.err = "timeout"]
          /\ EndSpan(ChildSpan("SELECT users", req.attempt, "timeout"))
          /\ Emit(LogRecord("none", req.attempt, "SELECT users"))
       \/ /\ due /\ req.served + 1 > scenario.timeouts
          /\ req' = [req EXCEPT !.served = @ + 1, !.err = NoErr]
          /\ EndSpan(ChildSpan("SELECT users", req.attempt, NoErr))
          /\ UNCHANGED logVars
    /\ pc' = "answered"
    /\ UNCHANGED <<opt, signalled, due, scenario, loopVars, exitVars>>

(* (Mutant of AfterSelect: a call that ends the loop is not counted.) *)
AfterSelectCountsLate ==
    /\ pc = "answered"
    /\ IF req.err = NoErr \/ req.attempt = MaxAttempts
         THEN /\ pc' = "annotate"
              /\ UNCHANGED <<req, due, logVars>>
         ELSE /\ Record([req EXCEPT !.calls = @ + 1, !.retries = @ + 1],
                        "db.query.retry", req.attempt + 1)
              /\ pc' = "backoff" /\ due' = FALSE
    /\ UNCHANGED <<opt, signalled, scenario, loopVars, exitVars, traceVars>>

(* (Mutant of AfterSelect: one attempt too many.) *)
AfterSelectOneMore ==
    /\ pc = "answered"
    /\ LET counted == [req EXCEPT !.calls = @ + 1] IN
         IF req.err = NoErr \/ req.attempt > MaxAttempts
           THEN /\ req' = counted /\ pc' = "annotate" /\ due' = due
                /\ UNCHANGED logVars
           ELSE /\ Record([counted EXCEPT !.retries = @ + 1], "db.query.retry", req.attempt + 1)
                /\ pc' = "backoff" /\ due' = FALSE
    /\ UNCHANGED <<opt, signalled, scenario, loopVars, exitVars, traceVars>>

(* (Mutant of AfterSelect: attempts counted from 0, so the loop gives up   *)
(* one call early.)                                                        *)
AfterSelectGivesUp ==
    /\ pc = "answered"
    /\ LET counted == [req EXCEPT !.calls = @ + 1] IN
         IF req.err = NoErr \/ req.attempt + 1 >= MaxAttempts
           THEN /\ req' = counted /\ pc' = "annotate" /\ due' = due
                /\ UNCHANGED logVars
           ELSE /\ Record([counted EXCEPT !.retries = @ + 1], "db.query.retry", req.attempt + 1)
                /\ pc' = "backoff" /\ due' = FALSE
    /\ UNCHANGED <<opt, signalled, scenario, loopVars, exitVars, traceVars>>

(* The loop counts the call, and returns or records a retry and backs off. *)
(* It does not look at why the call failed.                                *)
AfterSelect ==
    /\ pc = "answered"
    /\ LET counted == [req EXCEPT !.calls = @ + 1] IN
         IF req.err = NoErr \/ req.attempt = MaxAttempts
           THEN /\ req' = counted /\ pc' = "annotate" /\ due' = due
                /\ UNCHANGED logVars
           ELSE /\ Record([counted EXCEPT !.retries = @ + 1], "db.query.retry", req.attempt + 1)
                /\ pc' = "backoff" /\ due' = FALSE
    /\ UNCHANGED <<opt, signalled, scenario, loopVars, exitVars, traceVars>>

Backoff ==
    /\ pc = "backoff"
    /\ \/ /\ signalled
          /\ req' = [req EXCEPT !.err = "cancelled"]
          /\ pc' = "annotate" /\ due' = due
       \/ /\ due
          /\ req' = [req EXCEPT !.attempt = @ + 1, !.err = NoErr]
          /\ pc' = "select" /\ due' = FALSE
    /\ UNCHANGED <<opt, signalled, scenario, loopVars, exitVars, traceVars, logVars>>

(* The deferred function: what became of the request goes on its span, and *)
(* an error is recorded as an exception.                                   *)
Annotate ==
    /\ pc = "annotate"
    /\ IF req.err = NoErr
         THEN UNCHANGED <<req, logVars>>
         ELSE Record([req EXCEPT !.recorded = req.err], "user.fetch.exception", 0)
    /\ pc' = "end"
    /\ UNCHANGED <<opt, signalled, due, scenario, loopVars, exitVars, traceVars>>

(* (Mutant of EndRequest: a new variable shadows lastErr.) *)
EndRequestShadowed ==
    /\ pc = "end"
    /\ EndSpan(MainSpan)
    /\ failed' = IF req.err = NoErr THEN failed ELSE failed + 1
    /\ sent' = sent + 1
    /\ req' = FreshRequest /\ scenario' = NoScenario
    /\ pc' = "pause" /\ due' = FALSE
    /\ UNCHANGED <<opt, signalled, lastErr, exitVars, logVars>>

(* span.End, the return of fetchUser and the counting in the loop. *)
EndRequest ==
    /\ pc = "end"
    /\ EndSpan(MainSpan)
    /\ lastErr' = req.err
    /\ failed' = IF req.err = NoErr THEN failed ELSE failed + 1
    /\ sent' = sent + 1
    /\ req' = FreshRequest /\ scenario' = NoScenario
    /\ pc' = "pause" /\ due' = FALSE
    /\ UNCHANGED <<opt, signalled, exitVars, logVars>>

-----------------------------------------------------------------------------
(* telemetry.shutdown, and the end of the process *)

(* The tracer provider is shut down first; the deadline is shared. *)
ShutdownTraces ==
    /\ pc = "shutdown"
    /\ \/ Traces!Drain /\ expired' = FALSE
       \/ TracesStall /\ Traces!GiveUp /\ expired' = TRUE
    /\ pc' = "shutdownLogs"
    /\ UNCHANGED <<opt, signalled, due, requestVars, loopVars, exitCode, logVars>>

(* (Mutant of ShutdownLogs: the logger provider is forgotten.) *)
ShutdownLogsForgotten ==
    /\ pc = "shutdownLogs"
    /\ exitCode' = IF opt.requests = 1 /\ lastErr # NoErr THEN 1 ELSE 0
    /\ pc' = "exited"
    /\ UNCHANGED <<opt, signalled, due, requestVars, loopVars, expired, traceVars, logVars>>

(* Then the logger provider, in what is left of the five seconds; then run *)
(* returns its exit code.                                                  *)
ShutdownLogs ==
    /\ pc = "shutdownLogs"
    /\ Logs!Drain \/ ((expired \/ LogsStall) /\ Logs!GiveUp)
    /\ exitCode' = IF opt.requests = 1 /\ lastErr # NoErr THEN 1 ELSE 0
    /\ pc' = "exited"
    /\ UNCHANGED <<opt, signalled, due, requestVars, loopVars, expired, traceVars>>

-----------------------------------------------------------------------------
(* The surroundings: signals, timers and the batch processors *)

Signal ==
    /\ ~signalled /\ pc # "exited"
    /\ signalled' = TRUE
    /\ UNCHANGED <<opt, pc, due, requestVars, loopVars, exitVars, traceVars, logVars>>

TimerFires ==
    /\ pc \in {"cacheGet", "select", "backoff", "pause"} /\ ~due
    /\ due' = TRUE
    /\ UNCHANGED <<opt, pc, signalled, requestVars, loopVars, exitVars, traceVars, logVars>>

Export ==
    /\ pc # "exited"
    /\ \/ Traces!ExportBatch /\ UNCHANGED logVars
       \/ Logs!ExportBatch /\ UNCHANGED traceVars
    /\ UNCHANGED <<opt, pc, signalled, due, requestVars, loopVars, exitVars>>

Main ==
    \/ NewTelemetry
    \/ StartRequest
    \/ LeaveLoop
    \/ Pause
    \/ CacheGet
    \/ SelectUser
    \/ AfterSelect
    \/ Backoff
    \/ Annotate
    \/ EndRequest
    \/ ShutdownTraces
    \/ ShutdownLogs

Next == Main \/ Signal \/ TimerFires \/ Export

Spec == Init /\ [][Next]_vars

(* run goes on, and a timer fires in the end; no signal has to come. *)
FairSpec == Spec /\ WF_vars(Main) /\ WF_vars(TimerFires)

-----------------------------------------------------------------------------
(* Properties *)

Spans     == spanQueue \cup spanOut \cup spanLost
Records   == logQueue \cup logOut \cup logLost
MainSpans == {s \in Spans : s.name = "fetch user"}
Selects(r) == {s \in Spans : s.name = "SELECT users" /\ s.req = r}

(* The events of the main span m, whichever API recorded them. *)
EventsOf(m) ==
    m.events \cup {SpanEvent(r.name, r.attempt) :
                     r \in {r \in Records : r.req = m.req /\ r.name # "none"}}

Errors == {NoErr, "timeout", "cancelled"}
Attempts == 0 .. MaxAttempts

(* The type of every variable that is not a span or a record. *)
TypeOK ==
    /\ pc \in {"start", "loop", "cacheGet", "select", "answered", "backoff", "annotate",
               "end", "pause", "shutdown", "shutdownLogs", "exited"}
    /\ signalled \in BOOLEAN /\ due \in BOOLEAN /\ expired \in BOOLEAN
    /\ scenario \in [hit : BOOLEAN, timeouts : Attempts]
    /\ req \in [attempt : Attempts, served : Attempts, calls : Attempts,
                retries : 0 .. (MaxAttempts - 1), hit : BOOLEAN, err : Errors,
                events : SUBSET [name : {"db.query.retry", "user.fetch.exception"}, attempt : Attempts],
                recorded : Errors]
    /\ sent \in Nat /\ failed \in 0 .. sent /\ lastErr \in Errors /\ exitCode \in {0, 1}
    /\ {tp, lp} \subseteq {"none", "up", "stopped"}

(* The columns of the main span agree with the other signals: its call     *)
(* count is the number of its SELECT spans, numbered without a gap, and    *)
(* its retry count the number of retry events, by either recorder.  There  *)
(* is one call more than retries, unless the request was cancelled: the    *)
(* retry its backoff was for is counted, and reported, but never made.     *)
CountsAgree ==
    \A m \in MainSpans :
        /\ {s.attempt : s \in Selects(m.req)} = 1 .. m.calls
        /\ Cardinality(Selects(m.req)) = m.calls
        /\ m.retries = Cardinality({e \in EventsOf(m) : e.name = "db.query.retry"})
        /\ m.calls > 0 => \/ m.calls = m.retries + 1
                          \/ m.error = "cancelled" /\ m.calls = m.retries

(* The main span is in error only if the request failed in the end         *)
(* (README.md:205), and only then there is an exception: a request some    *)
(* retry rescued is clean, and its last call is the one that succeeded.    *)
(* A timeout is its error only after all attempts were made, none of them  *)
(* with success: however a signal interrupts it, no request gives up early *)
(* with an error that says the DB did not answer.                          *)
ErrorOnlyIfFailed ==
    \A m \in MainSpans :
        /\ m.error # NoErr <=> \E e \in EventsOf(m) : e.name = "user.fetch.exception"
        /\ m.error = NoErr <=>
             m.hit \/ (\E s \in Selects(m.req) : s.attempt = m.calls /\ s.error = NoErr)
        /\ m.error = "timeout" =>
             /\ m.calls = MaxAttempts
             /\ \A s \in Selects(m.req) :
                  s.error # NoErr /\ (s.attempt = m.calls => s.error = "timeout")

(* Every record and attribute is at the span it belongs to (README.md:204, *)
(* reqctx.go): a timed-out SELECT span and a diagnostic record come in     *)
(* pairs, named events belong to the main span and are the only ones with  *)
(* a copied name, and only main spans carry the request context.           *)
SignalsCorrelate ==
    /\ {<<r.req, r.attempt>> : r \in {r \in Records : r.span = "SELECT users"}}
         = {<<s.req, s.attempt>> : s \in {s \in Spans : s.name = "SELECT users" /\ s.error = "timeout"}}
    /\ \A r \in Records : r.span = "fetch user" <=> r.name # "none"
    /\ \A r \in Records : r.nameAttr <=> opt.copyName /\ r.name # "none"
    /\ \A s \in Spans : s.info <=> s.name = "fetch user"

(* With -requests 1 the exit code says whether the main span is in error,  *)
(* otherwise it is 0 (README.md:121).                                      *)
ExitCodeTells ==
    pc = "exited" /\ tp # "none" =>
        (exitCode = 1 <=> opt.requests = 1 /\ \E m \in MainSpans : m.error # NoErr)

(* When the collectors answer in time nothing that was recorded is missing *)
(* after run, which is why main calls os.Exit only outside of run, however *)
(* the program was stopped.                                                *)
FlushedOnExit ==
    pc = "exited" /\ ~TracesStall /\ ~LogsStall => Spans = spanOut /\ Records = logOut

(* Ctrl+C or docker stop ends the program, in whatever sleep it is, even   *)
(* with -requests 0 (main.go:33, README.md:269).                           *)
SignalStops == signalled ~> pc = "exited"

(* shutdown writes out the buffered data (telemetry.go:108): log records   *)
(* reach a log collector that answers in time.                             *)
LogsWritten == pc = "exited" /\ ~LogsStall => logLost = {}
=============================================================================
