-------------------------- MODULE FetchUser_proof --------------------------
(***************************************************************************)
(* Theorems about FetchUser, for every number of attempts, every value of  *)
(* the flags, any number of requests and collectors that answer or not.    *)
(***************************************************************************)
EXTENDS FetchUser, FiniteSetTheorems, TLAPS

(* Where a request is under way; its number is sent + 1. *)
Handling == {"cacheGet", "select", "answered", "backoff", "annotate", "end"}

(* What fetchUser's variables say of each other at each of its points: one *)
(* call a retry, one more for the last, and none for a hit.                *)
LocalInv ==
    /\ pc \in Handling => req.served <= req.attempt
    /\ pc = "cacheGet" => req = FreshRequest
    /\ pc = "select" =>
         /\ req.attempt = req.calls + 1 /\ req.retries = req.calls /\ ~req.hit
         /\ req.served <= req.calls /\ req.err = NoErr /\ req.recorded = NoErr
    /\ pc = "answered" =>
         /\ req.attempt = req.calls + 1 /\ req.retries = req.calls /\ ~req.hit
         /\ req.recorded = NoErr
    /\ pc = "backoff" =>
         /\ req.attempt = req.calls /\ req.retries = req.calls /\ req.attempt \in 1..(MaxAttempts - 1)
         /\ req.err # NoErr /\ ~req.hit /\ req.recorded = NoErr
    /\ pc \in {"annotate", "end"} =>
         /\ req.hit => req.calls = 0 /\ req.retries = 0 /\ req.err = NoErr
         /\ ~req.hit /\ req.calls = 0 => req.retries = 0 /\ req.err = "cancelled"
         /\ req.calls > 0 => \/ req.calls = req.retries + 1
                             \/ req.err = "cancelled" /\ req.calls = req.retries
         /\ req.err = "timeout" => req.calls = MaxAttempts
    /\ pc = "annotate" => req.recorded = NoErr
    /\ pc = "end" => req.recorded = req.err

(* The providers follow run. *)
ModeInv ==
    /\ opt \in [fail : BOOLEAN, spanEvents : BOOLEAN, requests : RequestFlags,
                batch : BOOLEAN, copyName : BOOLEAN]
    /\ pc = "start" => tp = "none" /\ lp = "none"
    /\ pc \in Handling \cup {"loop", "pause", "shutdown"} => tp = "up" /\ lp = "up"
    /\ pc = "shutdownLogs" => tp = "stopped" /\ lp = "up"
    /\ pc = "exited" => (tp = "none" /\ lp = "none") \/ (tp = "stopped" /\ lp = "stopped")

ControlInv == TypeOK /\ LocalInv /\ ModeInv

Cur == sent + 1

(* No span and no record is of a request that has not been started, and no *)
(* main span of one that is still under way.                               *)
SentInv ==
    /\ \A s \in Spans : /\ s.name \in {"cache get", "SELECT users", "fetch user"}
                        /\ s.req \in 1..Cur /\ (s.req = Cur => pc \in Handling)
    /\ \A m \in MainSpans : m.req # Cur
    /\ \A r \in Records : /\ r.name \in {"none", "db.query.retry", "user.fetch.exception"}
                          /\ r.req \in 1..Cur /\ (r.req = Cur => pc \in Handling)

(* The SELECT spans of the request under way: one a call, numbered from 1, *)
(* and only the last of them can be clean.                                 *)
Made == IF pc = "answered" THEN req.calls + 1 ELSE req.calls

SelectInv ==
    pc \in Handling =>
      /\ {s.attempt : s \in Selects(Cur)} = 1..Made
      /\ IsFiniteSet(Selects(Cur)) /\ Cardinality(Selects(Cur)) = Made
      /\ \A s \in Selects(Cur) : s.error = NoErr =>
           s.attempt = Made /\ req.err = NoErr /\ pc \in {"answered", "annotate", "end"}
      /\ pc \in {"answered", "annotate", "end"} =>
           /\ Made > 0 /\ req.err = NoErr =>
                \E s \in Selects(Cur) : s.attempt = Made /\ s.error = NoErr
           /\ req.err = "timeout" =>
                \A s \in Selects(Cur) : s.attempt = Made => s.error = "timeout"

(* Its events, whoever recorded them. *)
CurEvents ==
    req.events \cup {SpanEvent(r.name, r.attempt) :
                       r \in {r \in Records : r.req = Cur /\ r.name # "none"}}
Named(events, name) == {e \in events : e.name = name}

EventInv ==
    pc \in Handling =>
      /\ \A e \in Named(CurEvents, "db.query.retry") : e.attempt \in 2 .. req.retries + 1
      /\ IsFiniteSet(Named(CurEvents, "db.query.retry"))
      /\ Cardinality(Named(CurEvents, "db.query.retry")) = req.retries
      /\ Named(CurEvents, "user.fetch.exception")
           = IF pc = "end" /\ req.err # NoErr THEN {SpanEvent("user.fetch.exception", 0)} ELSE {}

(* One fixed request decides the exit code. *)
ExitInv ==
    /\ opt.requests = 1 =>
         /\ sent <= 1 /\ (pc \in Handling => sent = 0)
         /\ lastErr # NoErr <=> \E m \in MainSpans : m.error # NoErr
    /\ ExitCodeTells

(* A provider is shut down with an empty queue, and nothing is lost before *)
(* a deadline passes.                                                      *)
FlushInv ==
    /\ pc \in {"start", "shutdownLogs", "exited"} => spanQueue = {}
    /\ pc \in {"start", "exited"} => logQueue = {}
    /\ ~TracesStall => spanLost = {} /\ ~expired
    /\ ~TracesStall /\ ~LogsStall => logLost = {}
-----------------------------------------------------------------------------
(* Spans and records *)

(* A span that ends, and a record that is emitted, is one more; nothing is *)
(* lost as long as its provider is up.                                     *)
LEMMA EndSpanFrame ==
    ASSUME NEW s, EndSpan(s)
    PROVE  /\ Spans' = Spans \cup {s} /\ tp' = tp
           /\ tp = "up" => spanLost' = spanLost
BY DEF EndSpan, Traces!EndSpan, Traces!EndSpanNow, Spans

LEMMA EmitFrame ==
    ASSUME NEW r, Emit(r)
    PROVE  /\ Records' = Records \cup {r} /\ lp' = lp
           /\ lp = "up" => logLost' = logLost
BY DEF Emit, Logs!EndSpan, Logs!EndSpanNow, Records

LEMMA RecordFrame ==
    ASSUME NEW r, NEW name, NEW attempt, Record(r, name, attempt)
    PROVE  /\ \/ req' = [r EXCEPT !.events = @ \cup {SpanEvent(name, attempt)}] /\ Records' = Records
              \/ req' = r /\ Records' = Records \cup {LogRecord(name, attempt, "fetch user")}
           /\ lp' = lp /\ (lp = "up" => logLost' = logLost)
<1>1. CASE opt.spanEvents
  BY <1>1 DEF Record, logVars, Records
<1>2. CASE ~opt.spanEvents
  BY <1>2, EmitFrame DEF Record
<1> QED
  BY <1>1, <1>2

(* Everything but five steps of fetchUser leaves both sets alone. *)
LEMMA QuietStep ==
    ASSUME \/ NewTelemetry \/ StartRequest \/ LeaveLoop \/ Pause \/ Backoff
           \/ ShutdownTraces \/ ShutdownLogs \/ Signal \/ TimerFires \/ Export \/ UNCHANGED vars
    PROVE  Spans' = Spans /\ Records' = Records
<1> USE DEF Spans, Records, traceVars, logVars
<1>1. CASE NewTelemetry
  BY <1>1 DEF NewTelemetry, Traces!InstallProvider, Logs!InstallProvider
<1>2. CASE StartRequest \/ LeaveLoop \/ Pause \/ Backoff \/ Signal \/ TimerFires \/ UNCHANGED vars
  BY <1>2 DEF StartRequest, LeaveLoop, Pause, Backoff, Signal, TimerFires, vars
<1>3. CASE ShutdownTraces
  BY <1>3 DEF ShutdownTraces, Traces!Drain, Traces!GiveUp
<1>4. CASE ShutdownLogs
  BY <1>4 DEF ShutdownLogs, Logs!Drain, Logs!GiveUp
<1>5. CASE Export
  BY <1>5 DEF Export, Traces!ExportBatch, Logs!ExportBatch
<1> QED
  BY <1>1, <1>2, <1>3, <1>4, <1>5

-----------------------------------------------------------------------------
(* Control *)

ReqType == [attempt : Attempts, served : Attempts, calls : Attempts,
            retries : 0 .. (MaxAttempts - 1), hit : BOOLEAN, err : Errors,
            events : SUBSET [name : {"db.query.retry", "user.fetch.exception"}, attempt : Attempts],
            recorded : Errors]

LEMMA FreshType == FreshRequest \in ReqType
<1>1. 0 \in Attempts /\ 0 \in 0 .. (MaxAttempts - 1) /\ NoErr \in Errors
  BY AttemptsAssumption DEF Attempts, Errors
<1> QED
  BY <1>1 DEF FreshRequest, ReqType

LEMMA ScenarioTypes ==
    ASSUME ModeInv
    PROVE  Scenarios \subseteq [hit : BOOLEAN, timeouts : Attempts]
<1>1. {0, 1, MaxAttempts} \subseteq Attempts
  BY AttemptsAssumption DEF Attempts
<1>2. FixedScenario(opt.fail) \in [hit : BOOLEAN, timeouts : Attempts]
  BY <1>1 DEF FixedScenario
<1>3. RandomScenarios(opt.fail) \subseteq [hit : BOOLEAN, timeouts : Attempts]
  <2> SUFFICES ASSUME NEW x \in RandomScenarios(opt.fail)
               PROVE  x \in [hit : BOOLEAN, timeouts : Attempts]
    OBVIOUS
  <2>1. CASE x = [hit |-> TRUE, timeouts |-> 0]
    BY <1>1, <2>1
  <2>2. CASE x \in [hit : {FALSE}, timeouts : {MaxAttempts}]
    BY <1>1, <2>2
  <2>3. CASE x \in [hit : {FALSE}, timeouts : {0, 1, MaxAttempts}]
    BY <1>1, <2>3
  <2> QED
    BY <2>1, <2>2, <2>3 DEF RandomScenarios
<1> QED
  BY <1>2, <1>3 DEF Scenarios

LEMMA InitControl == Init => ControlInv
<1> SUFFICES ASSUME Init PROVE ControlInv
  OBVIOUS
<1> USE DEF Init, Traces!PipelineInit, Logs!PipelineInit
<1>1. NoScenario \in [hit : BOOLEAN, timeouts : Attempts]
  BY AttemptsAssumption DEF NoScenario, Attempts
<1>2. TypeOK
  <2>1. req \in ReqType /\ scenario \in [hit : BOOLEAN, timeouts : Attempts]
    BY <1>1, FreshType
  <2>2. sent \in Nat /\ failed \in 0 .. sent /\ lastErr \in Errors /\ exitCode \in {0, 1}
    BY DEF Errors
  <2>3. /\ pc = "start" /\ signalled \in BOOLEAN /\ due \in BOOLEAN /\ expired \in BOOLEAN
        /\ {tp, lp} \subseteq {"none", "up", "stopped"}
    OBVIOUS
  <2> HIDE DEF Init
  <2> QED
    BY <2>1, <2>2, <2>3 DEF TypeOK, ReqType
<1>3. LocalInv /\ ModeInv
  BY DEF LocalInv, ModeInv, Handling
<1> QED
  BY <1>2, <1>3 DEF ControlInv

(* The steps of run, of the timers and of the exporters. *)
LEMMA OutsideControl ==
    ASSUME ControlInv,
           \/ NewTelemetry \/ LeaveLoop \/ Pause \/ ShutdownTraces \/ ShutdownLogs
           \/ Signal \/ TimerFires \/ Export \/ UNCHANGED vars
    PROVE  ControlInv'
<1> USE DEF ControlInv, requestVars, loopVars, traceVars, logVars, exitVars
<1>1. UNCHANGED <<opt, scenario, req, sent, failed, lastErr>>
  BY DEF NewTelemetry, LeaveLoop, Pause, ShutdownTraces, ShutdownLogs, Signal, TimerFires, Export, vars
<1>2. /\ signalled' \in BOOLEAN /\ due' \in BOOLEAN /\ expired' \in BOOLEAN /\ exitCode' \in {0, 1}
  BY DEF NewTelemetry, LeaveLoop, Pause, ShutdownTraces, ShutdownLogs, Signal, TimerFires, Export,
         vars, TypeOK
<1>3. /\ pc' \in {pc, "loop", "shutdown", "shutdownLogs", "exited"}
      /\ \/ pc' = pc /\ tp' = tp /\ lp' = lp
         \/ pc = "start" /\ pc' = "loop" /\ tp' = "up" /\ lp' = "up"
         \/ pc = "start" /\ pc' = "exited" /\ tp' = tp /\ lp' = lp
         \/ pc \in {"loop", "pause"} /\ pc' \in {"loop", "shutdown"} /\ tp' = tp /\ lp' = lp
         \/ pc = "shutdown" /\ pc' = "shutdownLogs" /\ tp' = "stopped" /\ lp' = lp
         \/ pc = "shutdownLogs" /\ pc' = "exited" /\ tp' = tp /\ lp' = "stopped"
  <2>1. CASE NewTelemetry
    BY <2>1 DEF NewTelemetry, Traces!InstallProvider, Logs!InstallProvider
  <2>2. CASE LeaveLoop \/ Pause \/ Signal \/ TimerFires \/ UNCHANGED vars
    BY <2>2 DEF LeaveLoop, Pause, Signal, TimerFires, vars
  <2>3. CASE ShutdownTraces
    BY <2>3 DEF ShutdownTraces, Traces!Drain, Traces!GiveUp
  <2>4. CASE ShutdownLogs
    BY <2>4 DEF ShutdownLogs, Logs!Drain, Logs!GiveUp
  <2>5. CASE Export
    BY <2>5 DEF Export, Traces!ExportBatch, Logs!ExportBatch
  <2> QED
    BY <2>1, <2>2, <2>3, <2>4, <2>5
<1>4. ModeInv'
  BY <1>1, <1>3 DEF ModeInv, Handling
<1>5. TypeOK'
  <2>1. {tp', lp'} \subseteq {"none", "up", "stopped"}
    BY <1>3 DEF TypeOK
  <2> QED
    BY <1>1, <1>2, <1>3, <2>1 DEF TypeOK
<1>6. LocalInv'
  BY <1>1, <1>3 DEF LocalInv, Handling
<1> QED
  BY <1>4, <1>5, <1>6

(* A step of fetchUser: what is left to show is about its own variables. *)
LEMMA InsideControl ==
    ASSUME ControlInv, pc \in Handling \cup {"loop"}, pc' \in Handling \cup {"pause"},
           UNCHANGED <<opt, signalled, expired, exitCode>>, due' \in BOOLEAN,
           scenario' \in [hit : BOOLEAN, timeouts : Attempts], req' \in ReqType,
           \/ UNCHANGED loopVars
           \/ /\ sent' = sent + 1 /\ failed' \in {failed, failed + 1} /\ lastErr' \in Errors,
           tp' = tp, lp' = lp, LocalInv'
    PROVE  ControlInv'
<1> USE DEF ControlInv
<1>1. tp = "up" /\ lp = "up"
  BY DEF ModeInv
<1>2. ModeInv'
  BY <1>1 DEF ModeInv, Handling
<1>3. sent' \in Nat /\ failed' \in 0 .. sent' /\ lastErr' \in Errors
  BY DEF TypeOK, loopVars
<1>4. TypeOK'
  BY <1>1, <1>3 DEF TypeOK, ReqType, Handling
<1> QED
  BY <1>2, <1>4

LEMMA StartRequestControl == ASSUME ControlInv, StartRequest PROVE ControlInv'
<1> USE DEF StartRequest
<1>1. scenario' \in [hit : BOOLEAN, timeouts : Attempts]
  BY ScenarioTypes DEF ControlInv
<1>2. LocalInv'
  BY AttemptsAssumption DEF LocalInv, FreshRequest, Handling
<1> QED
  BY <1>1, <1>2, FreshType, InsideControl DEF Handling, loopVars, exitVars, traceVars, logVars

LEMMA CacheGetControl == ASSUME ControlInv, CacheGet PROVE ControlInv'
<1>1. /\ pc = "cacheGet" /\ pc' \in {"annotate", "select"} /\ tp' = tp /\ lp' = lp
      /\ UNCHANGED <<opt, signalled, scenario, loopVars, exitVars>> /\ due' \in BOOLEAN
  BY EndSpanFrame DEF CacheGet, logVars, ControlInv, TypeOK
<1>2. req = FreshRequest /\ req \in ReqType /\ 1 \in Attempts
  BY <1>1, FreshType, AttemptsAssumption DEF ControlInv, LocalInv, Attempts
<1>3. \/ req' = [req EXCEPT !.err = "cancelled"] /\ pc' = "annotate"
      \/ req' = [req EXCEPT !.hit = TRUE] /\ pc' = "annotate"
      \/ req' = [req EXCEPT !.attempt = 1] /\ pc' = "select"
  BY DEF CacheGet
<1>4. req' \in ReqType
  BY <1>2, <1>3 DEF ReqType, Errors
<1>5. /\ req'.served = 0 /\ req'.calls = 0 /\ req'.retries = 0 /\ req'.recorded = NoErr
      /\ \/ pc' = "annotate" /\ req'.attempt = 0 /\ req'.err = "cancelled" /\ ~req'.hit
         \/ pc' = "annotate" /\ req'.attempt = 0 /\ req'.err = NoErr /\ req'.hit
         \/ pc' = "select" /\ req'.attempt = 1 /\ req'.err = NoErr /\ ~req'.hit
  BY <1>2, <1>3 DEF FreshRequest
<1>6. LocalInv'
  BY <1>5 DEF LocalInv, Handling, NoErr
<1> QED
  BY <1>1, <1>4, <1>6, InsideControl DEF Handling, exitVars, ControlInv, TypeOK

LEMMA SelectUserControl == ASSUME ControlInv, SelectUser PROVE ControlInv'
<1>1. /\ pc = "select" /\ pc' = "answered" /\ tp' = tp /\ lp' = lp
      /\ UNCHANGED <<opt, signalled, due, scenario, loopVars, exitVars>>
  BY EndSpanFrame, EmitFrame DEF SelectUser, logVars
<1>2. req \in ReqType
  BY DEF ControlInv, TypeOK, ReqType
<1>3. \/ req' = [req EXCEPT !.err = "cancelled"]
      \/ req' = [req EXCEPT !.served = @ + 1, !.err = "timeout"]
      \/ req' = [req EXCEPT !.served = @ + 1, !.err = NoErr]
  BY DEF SelectUser
<1>4. /\ req.attempt = req.calls + 1 /\ req.retries = req.calls /\ ~req.hit
      /\ req.served <= req.calls /\ req.recorded = NoErr
      /\ req.attempt \in Attempts /\ req.served \in Attempts /\ req.calls \in Nat
  BY <1>1, <1>2, AttemptsAssumption DEF ControlInv, LocalInv, ReqType, Attempts
<1>5. req.served + 1 \in Attempts /\ req.served + 1 <= req.attempt /\ req.served <= req.attempt
  BY <1>4, AttemptsAssumption DEF Attempts
<1>6. /\ req' \in ReqType /\ req'.attempt = req.attempt /\ req'.calls = req.calls
      /\ req'.retries = req.retries /\ req'.hit = req.hit /\ req'.recorded = req.recorded
      /\ req'.served \in {req.served, req.served + 1}
  BY <1>2, <1>3, <1>5 DEF ReqType, Errors
<1>7. LocalInv'
  BY <1>1, <1>4, <1>5, <1>6 DEF LocalInv, Handling
<1> QED
  BY <1>1, <1>6, <1>7, InsideControl DEF Handling, exitVars, ControlInv, TypeOK
LEMMA AfterSelectControl == ASSUME ControlInv, AfterSelect PROVE ControlInv'
<1> DEFINE counted == [req EXCEPT !.calls = @ + 1]
           retried == [counted EXCEPT !.retries = @ + 1]
<1>1. /\ pc = "answered" /\ UNCHANGED <<opt, signalled, scenario, loopVars, exitVars, traceVars>>
      /\ req \in ReqType
  BY DEF AfterSelect, ControlInv, TypeOK, ReqType
<1>2. /\ req.attempt = req.calls + 1 /\ req.retries = req.calls /\ ~req.hit
      /\ req.served <= req.attempt /\ req.recorded = NoErr
      /\ req.attempt \in Attempts /\ req.calls \in Nat /\ req.err \in Errors
  BY <1>1, AttemptsAssumption DEF ControlInv, LocalInv, ReqType, Attempts, Handling
<1>3. /\ counted \in ReqType /\ counted.attempt = req.attempt /\ counted.calls = req.calls + 1
      /\ counted.retries = req.retries /\ counted.hit = req.hit /\ counted.err = req.err
      /\ counted.recorded = req.recorded /\ counted.served = req.served
      /\ counted.events = req.events
  <2>1. req.calls + 1 \in Attempts
    BY <1>2
  <2> QED
    BY <1>1, <2>1 DEF ReqType
<1>4. CASE req.err = NoErr \/ req.attempt = MaxAttempts
  <2>1. req' = counted /\ pc' = "annotate" /\ due' = due /\ UNCHANGED logVars
    BY <1>4 DEF AfterSelect
  <2> HIDE DEF counted
  <2>2. LocalInv'
    BY <1>2, <1>3, <1>4, <2>1, AttemptsAssumption DEF LocalInv, Handling, NoErr, Errors
  <2> QED
    BY <1>1, <1>3, <2>1, <2>2, InsideControl DEF Handling, exitVars, traceVars, logVars, ControlInv, TypeOK
<1>5. CASE ~(req.err = NoErr \/ req.attempt = MaxAttempts)
  <2>1. /\ Record(retried, "db.query.retry", req.attempt + 1)
        /\ pc' = "backoff" /\ due' = FALSE
    BY <1>5 DEF AfterSelect
  <2>2. req.attempt + 1 \in Attempts /\ req.retries + 1 \in 0 .. (MaxAttempts - 1)
        /\ req.attempt \in 1 .. (MaxAttempts - 1)
    BY <1>2, <1>5, AttemptsAssumption DEF Attempts
  <2> HIDE DEF counted
  <2>3. /\ retried \in ReqType /\ retried.attempt = req.attempt /\ retried.calls = req.calls + 1
        /\ retried.retries = req.retries + 1 /\ retried.hit = req.hit /\ retried.err = req.err
        /\ retried.recorded = req.recorded /\ retried.served = req.served
    BY <1>3, <2>2 DEF ReqType
  <2> HIDE DEF retried
  <2>4. SpanEvent("db.query.retry", req.attempt + 1)
          \in [name : {"db.query.retry", "user.fetch.exception"}, attempt : Attempts]
    BY <2>2 DEF SpanEvent
  <2>5. /\ req' = retried \/ req' = [retried EXCEPT !.events =
                               @ \cup {SpanEvent("db.query.retry", req.attempt + 1)}]
        /\ lp' = lp
    BY <2>1, RecordFrame
  <2>6. /\ req' \in ReqType /\ req'.attempt = req.attempt /\ req'.calls = req.calls + 1
        /\ req'.retries = req.retries + 1 /\ req'.hit = req.hit /\ req'.err = req.err
        /\ req'.recorded = req.recorded /\ req'.served = req.served
    BY <2>3, <2>4, <2>5 DEF ReqType
  <2>7. LocalInv'
    BY <1>2, <1>5, <2>1, <2>2, <2>6 DEF LocalInv, Handling
  <2> QED
    BY <1>1, <2>1, <2>5, <2>6, <2>7, InsideControl DEF Handling, exitVars, traceVars, ControlInv, TypeOK
<1> QED
  BY <1>4, <1>5

LEMMA BackoffControl == ASSUME ControlInv, Backoff PROVE ControlInv'
<1>1. /\ pc = "backoff" /\ UNCHANGED <<opt, signalled, scenario, loopVars, exitVars, traceVars, logVars>>
      /\ req \in ReqType /\ due' \in BOOLEAN
  BY DEF Backoff, ControlInv, TypeOK, ReqType
<1>2. /\ req.attempt = req.calls /\ req.retries = req.calls /\ req.attempt \in 1..(MaxAttempts - 1)
      /\ req.err # NoErr /\ ~req.hit /\ req.recorded = NoErr /\ req.served <= req.attempt
      /\ req.served \in Nat
  BY <1>1, AttemptsAssumption DEF ControlInv, LocalInv, ReqType, Attempts, Handling
<1>3. req.attempt + 1 \in Attempts
  BY <1>2, AttemptsAssumption DEF Attempts
<1>4. \/ req' = [req EXCEPT !.err = "cancelled"] /\ pc' = "annotate"
      \/ req' = [req EXCEPT !.attempt = @ + 1, !.err = NoErr] /\ pc' = "select"
  BY DEF Backoff
<1>5. /\ req' \in ReqType /\ req'.calls = req.calls /\ req'.retries = req.retries
      /\ req'.hit = req.hit /\ req'.recorded = req.recorded /\ req'.served = req.served
      /\ \/ pc' = "annotate" /\ req'.err = "cancelled" /\ req'.attempt = req.attempt
         \/ pc' = "select" /\ req'.err = NoErr /\ req'.attempt = req.attempt + 1
  BY <1>1, <1>3, <1>4 DEF ReqType, Errors
<1>6. LocalInv'
  BY <1>2, <1>5, AttemptsAssumption DEF LocalInv, Handling, NoErr
<1> QED
  BY <1>1, <1>5, <1>6, InsideControl DEF Handling, exitVars, traceVars, logVars, ControlInv, TypeOK

LEMMA AnnotateControl == ASSUME ControlInv, Annotate PROVE ControlInv'
<1> DEFINE marked == [req EXCEPT !.recorded = req.err]
<1>1. /\ pc = "annotate" /\ pc' = "end"
      /\ UNCHANGED <<opt, signalled, due, scenario, loopVars, exitVars, traceVars>>
      /\ req \in ReqType
  BY DEF Annotate, ControlInv, TypeOK, ReqType
<1>2. SpanEvent("user.fetch.exception", 0)
          \in [name : {"db.query.retry", "user.fetch.exception"}, attempt : Attempts]
  BY AttemptsAssumption DEF SpanEvent, Attempts
<1>3. /\ marked \in ReqType /\ marked.attempt = req.attempt /\ marked.calls = req.calls
      /\ marked.retries = req.retries /\ marked.hit = req.hit /\ marked.err = req.err
      /\ marked.recorded = req.err /\ marked.served = req.served
  BY <1>1 DEF ReqType
<1>4. CASE req.err = NoErr
  <2>1. req' = req /\ lp' = lp
    BY <1>4 DEF Annotate, logVars
  <2>2. LocalInv'
    BY <1>1, <1>4, <2>1 DEF ControlInv, LocalInv, Handling
  <2> QED
    BY <1>1, <2>1, <2>2, InsideControl DEF Handling, exitVars, traceVars, ControlInv, TypeOK
<1>5. CASE req.err # NoErr
  <2>1. Record(marked, "user.fetch.exception", 0)
    BY <1>5 DEF Annotate
  <2> HIDE DEF marked
  <2>2. /\ req' = marked \/ req' = [marked EXCEPT !.events =
                              @ \cup {SpanEvent("user.fetch.exception", 0)}]
        /\ lp' = lp
    BY <2>1, RecordFrame
  <2>3. /\ req' \in ReqType /\ req'.attempt = req.attempt /\ req'.calls = req.calls
        /\ req'.retries = req.retries /\ req'.hit = req.hit /\ req'.err = req.err
        /\ req'.recorded = req.err /\ req'.served = req.served
    BY <1>2, <1>3, <2>2 DEF ReqType
  <2>4. LocalInv'
    BY <1>1, <2>3 DEF ControlInv, LocalInv, Handling
  <2> QED
    BY <1>1, <2>2, <2>3, <2>4, InsideControl DEF Handling, exitVars, traceVars, ControlInv, TypeOK
<1> QED
  BY <1>4, <1>5

LEMMA EndRequestControl == ASSUME ControlInv, EndRequest PROVE ControlInv'
<1>1. /\ pc = "end" /\ pc' = "pause" /\ due' = FALSE /\ tp' = tp /\ lp' = lp
      /\ UNCHANGED <<opt, signalled, exitVars>> /\ sent' = sent + 1
      /\ req' = FreshRequest /\ scenario' = NoScenario
      /\ lastErr' = req.err /\ failed' \in {failed, failed + 1}
  BY EndSpanFrame DEF EndRequest, logVars
<1>2. scenario' \in [hit : BOOLEAN, timeouts : Attempts]
  BY <1>1, AttemptsAssumption DEF NoScenario, Attempts
<1>3. LocalInv'
  BY <1>1 DEF LocalInv, Handling
<1>4. req' \in ReqType /\ lastErr' \in Errors
  BY <1>1, FreshType DEF ControlInv, TypeOK
<1> QED
  BY <1>1, <1>2, <1>3, <1>4, InsideControl DEF Handling, exitVars

LEMMA NextControl == ControlInv /\ [Next]_vars => ControlInv'
BY OutsideControl, StartRequestControl, CacheGetControl, SelectUserControl, AfterSelectControl,
   BackoffControl, AnnotateControl, EndRequestControl DEF Next, Main

LEMMA Control == Spec => []ControlInv
BY InitControl, NextControl, PTL DEF Spec

(* Every variable keeps its type, for any number of attempts: no more      *)
(* calls and fewer retries than there are attempts.                        *)
THEOREM TypeCorrect == Spec => []TypeOK
<1>1. ControlInv => TypeOK
  BY DEF ControlInv
<1> QED
  BY <1>1, Control, PTL
-----------------------------------------------------------------------------
(* The five steps that end a span or emit a record, and the others *)

LEMMA CacheGetAdds ==
    ASSUME CacheGet
    PROVE  /\ pc = "cacheGet" /\ sent' = sent /\ opt' = opt /\ Records' = Records
           /\ \E c : /\ Spans' = Spans \cup {c} /\ c.name = "cache get" /\ c.req = Cur /\ ~c.info
<1>1. PICK err : EndSpan(ChildSpan("cache get", 0, err))
  BY DEF CacheGet
<1>2. /\ ChildSpan("cache get", 0, err).name = "cache get"
      /\ ChildSpan("cache get", 0, err).req = Cur /\ ~ChildSpan("cache get", 0, err).info
  BY DEF ChildSpan, OnStart, Cur
<1>3. pc = "cacheGet" /\ sent' = sent /\ opt' = opt /\ Records' = Records
  BY DEF CacheGet, loopVars, logVars, Records
<1> QED
  BY <1>1, <1>2, <1>3, EndSpanFrame

LEMMA SelectUserAdds ==
    ASSUME SelectUser, ControlInv
    PROVE  /\ pc = "select" /\ pc' = "answered" /\ sent' = sent /\ opt' = opt
           /\ req'.attempt = req.attempt /\ req'.calls = req.calls /\ req'.retries = req.retries
           /\ req'.events = req.events
           /\ \E s : /\ Spans' = Spans \cup {s} /\ s.name = "SELECT users" /\ s.req = Cur /\ ~s.info
                     /\ s.attempt = req.attempt /\ s.error = req'.err
           /\ \/ req'.err # "timeout" /\ Records' = Records
              \/ /\ req'.err = "timeout"
                 /\ \E r : /\ Records' = Records \cup {r} /\ r.name = "none" /\ r.req = Cur
                           /\ r.span = "SELECT users" /\ r.attempt = req.attempt /\ ~r.nameAttr
<1>1. req \in ReqType /\ pc = "select" /\ pc' = "answered" /\ sent' = sent /\ opt' = opt
  BY DEF ControlInv, TypeOK, ReqType, SelectUser, loopVars
<1>2. /\ req'.attempt = req.attempt /\ req'.calls = req.calls /\ req'.retries = req.retries
      /\ req'.events = req.events
  BY <1>1 DEF SelectUser, ReqType
<1>3. /\ EndSpan(ChildSpan("SELECT users", req.attempt, req'.err))
      /\ \/ req'.err # "timeout" /\ UNCHANGED logVars
         \/ req'.err = "timeout" /\ Emit(LogRecord("none", req.attempt, "SELECT users"))
  <2>1. \/ req' = [req EXCEPT !.err = "cancelled"]
             /\ EndSpan(ChildSpan("SELECT users", req.attempt, "cancelled")) /\ UNCHANGED logVars
        \/ req' = [req EXCEPT !.served = @ + 1, !.err = "timeout"]
             /\ EndSpan(ChildSpan("SELECT users", req.attempt, "timeout"))
             /\ Emit(LogRecord("none", req.attempt, "SELECT users"))
        \/ req' = [req EXCEPT !.served = @ + 1, !.err = NoErr]
             /\ EndSpan(ChildSpan("SELECT users", req.attempt, NoErr)) /\ UNCHANGED logVars
    BY DEF SelectUser
  <2>2. /\ [req EXCEPT !.err = "cancelled"].err = "cancelled"
        /\ [req EXCEPT !.served = @ + 1, !.err = "timeout"].err = "timeout"
        /\ [req EXCEPT !.served = @ + 1, !.err = NoErr].err = NoErr
    BY <1>1 DEF ReqType
  <2> QED
    BY <2>1, <2>2 DEF NoErr
<1>4. \E s : /\ Spans' = Spans \cup {s} /\ s.name = "SELECT users" /\ s.req = Cur /\ ~s.info
             /\ s.attempt = req.attempt /\ s.error = req'.err
  <2> DEFINE s == ChildSpan("SELECT users", req.attempt, req'.err)
  <2>1. /\ s.name = "SELECT users" /\ s.req = Cur /\ ~s.info
        /\ s.attempt = req.attempt /\ s.error = req'.err
    BY DEF ChildSpan, OnStart, Cur
  <2> HIDE DEF s
  <2>2. Spans' = Spans \cup {s}
    BY <1>3, EndSpanFrame DEF s
  <2> QED
    BY <2>1, <2>2
<1>5. ASSUME req'.err # "timeout" PROVE Records' = Records
  BY <1>3, <1>5 DEF logVars, Records
<1>6. ASSUME req'.err = "timeout"
      PROVE  \E r : /\ Records' = Records \cup {r} /\ r.name = "none" /\ r.req = Cur
                    /\ r.span = "SELECT users" /\ r.attempt = req.attempt /\ ~r.nameAttr
  <2> DEFINE r == LogRecord("none", req.attempt, "SELECT users")
  <2>1. /\ r.name = "none" /\ r.req = Cur
        /\ r.span = "SELECT users" /\ r.attempt = req.attempt /\ ~r.nameAttr
    BY DEF LogRecord, Cur
  <2> HIDE DEF r
  <2>2. Records' = Records \cup {r}
    BY <1>3, <1>6, EmitFrame DEF r
  <2> QED
    BY <2>1, <2>2
<1> QED
  BY <1>1, <1>2, <1>4, <1>5, <1>6

(* Recording an event makes it one of the events of the request. *)
LEMMA RecordAdds ==
    ASSUME NEW r \in ReqType, r.events = req.events, sent' = sent,
           NEW name \in {"db.query.retry", "user.fetch.exception"}, NEW attempt,
           Record(r, name, attempt)
    PROVE  /\ \/ Records' = Records
              \/ \E n : /\ Records' = Records \cup {n} /\ n.req = Cur /\ n.name = name
                        /\ n.span = "fetch user" /\ (n.nameAttr <=> opt.copyName)
           /\ CurEvents' = CurEvents \cup {SpanEvent(name, attempt)}
<1> DEFINE n == LogRecord(name, attempt, "fetch user")
           e == SpanEvent(name, attempt)
<1>1. n.req = Cur /\ n.name = name /\ n.attempt = attempt /\ n.span = "fetch user"
      /\ (n.nameAttr <=> opt.copyName)
  BY DEF LogRecord, Cur
<1>2. SpanEvent(n.name, n.attempt) = e
  BY <1>1
<1> HIDE DEF n, e
<1>3. CASE req' = [r EXCEPT !.events = @ \cup {e}] /\ Records' = Records
  <2>1. req'.events = req.events \cup {e}
    BY <1>3 DEF ReqType
  <2>2. CurEvents' = CurEvents \cup {e}
    BY <1>3, <2>1 DEF CurEvents, Cur
  <2> QED
    BY <1>3, <2>2 DEF e
<1>4. CASE req' = r /\ Records' = Records \cup {n}
  <2>1. req'.events = req.events
    BY <1>4
  <2>2. CurEvents' = CurEvents \cup {e}
    BY <1>1, <1>2, <1>4, <2>1 DEF CurEvents, Cur
  <2> QED
    BY <1>1, <1>4, <2>2 DEF e
<1> QED
  BY <1>3, <1>4, RecordFrame DEF n, e

LEMMA AfterSelectAdds ==
    ASSUME AfterSelect, ControlInv
    PROVE  /\ pc = "answered" /\ sent' = sent /\ opt' = opt /\ Spans' = Spans
           /\ req'.calls = req.calls + 1 /\ req'.err = req.err
           /\ \/ /\ pc' = "annotate" /\ req'.retries = req.retries
                 /\ Records' = Records /\ CurEvents' = CurEvents
              \/ /\ pc' = "backoff" /\ req'.retries = req.retries + 1 /\ req.err # NoErr
                 /\ CurEvents' = CurEvents \cup {SpanEvent("db.query.retry", req.attempt + 1)}
                 /\ \/ Records' = Records
                    \/ \E n : /\ Records' = Records \cup {n} /\ n.req = Cur /\ n.name = "db.query.retry"
                              /\ n.span = "fetch user" /\ (n.nameAttr <=> opt.copyName)
<1> DEFINE counted == [req EXCEPT !.calls = @ + 1]
           retried == [counted EXCEPT !.retries = @ + 1]
<1>1. /\ pc = "answered" /\ sent' = sent /\ opt' = opt /\ Spans' = Spans
      /\ req \in ReqType /\ req.retries = req.calls /\ req.attempt = req.calls + 1
      /\ req.calls \in Nat /\ req.attempt \in Attempts
  BY AttemptsAssumption
     DEF AfterSelect, ControlInv, TypeOK, LocalInv, ReqType, Attempts, loopVars, traceVars, Spans
<1>2. /\ counted \in ReqType /\ counted.calls = req.calls + 1 /\ counted.err = req.err
      /\ counted.retries = req.retries /\ counted.events = req.events
  BY <1>1 DEF ReqType
<1>3. CASE req.err = NoErr \/ req.attempt = MaxAttempts
  <2>1. req' = counted /\ pc' = "annotate" /\ UNCHANGED logVars
    BY <1>3 DEF AfterSelect
  <2> HIDE DEF counted
  <2>2. CurEvents' = CurEvents /\ Records' = Records
    BY <1>1, <1>2, <2>1 DEF CurEvents, Cur, Records, logVars
  <2> QED
    BY <1>1, <1>2, <2>1, <2>2
<1>4. CASE ~(req.err = NoErr \/ req.attempt = MaxAttempts)
  <2>1. Record(retried, "db.query.retry", req.attempt + 1) /\ pc' = "backoff"
    BY <1>4 DEF AfterSelect
  <2>2. req.retries + 1 \in 0 .. (MaxAttempts - 1)
    BY <1>1, <1>4, AttemptsAssumption DEF Attempts
  <2> HIDE DEF counted
  <2>3. /\ retried \in ReqType /\ retried.calls = req.calls + 1 /\ retried.err = req.err
        /\ retried.retries = req.retries + 1 /\ retried.events = req.events
    BY <1>2, <2>2 DEF ReqType
  <2> HIDE DEF retried
  <2>4. /\ CurEvents' = CurEvents \cup {SpanEvent("db.query.retry", req.attempt + 1)}
        /\ \/ Records' = Records
           \/ \E n : /\ Records' = Records \cup {n} /\ n.req = Cur /\ n.name = "db.query.retry"
                     /\ n.span = "fetch user" /\ (n.nameAttr <=> opt.copyName)
    BY <1>1, <2>1, <2>3, RecordAdds
  <2>5. /\ req'.calls = req.calls + 1 /\ req'.err = req.err /\ req'.retries = req.retries + 1
    BY <2>1, <2>3, RecordFrame DEF ReqType
  <2> QED
    BY <1>1, <1>4, <2>1, <2>4, <2>5
<1> QED
  BY <1>3, <1>4

LEMMA AnnotateAdds ==
    ASSUME Annotate, ControlInv
    PROVE  /\ pc = "annotate" /\ pc' = "end" /\ sent' = sent /\ opt' = opt /\ Spans' = Spans
           /\ req'.calls = req.calls /\ req'.err = req.err /\ req'.retries = req.retries
           /\ \/ req.err = NoErr /\ Records' = Records /\ CurEvents' = CurEvents
              \/ /\ req.err # NoErr
                 /\ CurEvents' = CurEvents \cup {SpanEvent("user.fetch.exception", 0)}
                 /\ \/ Records' = Records
                    \/ \E n : /\ Records' = Records \cup {n} /\ n.req = Cur
                              /\ n.name = "user.fetch.exception"
                              /\ n.span = "fetch user" /\ (n.nameAttr <=> opt.copyName)
<1> DEFINE marked == [req EXCEPT !.recorded = req.err]
<1>1. /\ pc = "annotate" /\ pc' = "end" /\ sent' = sent /\ opt' = opt /\ Spans' = Spans
      /\ req \in ReqType
  BY DEF Annotate, ControlInv, TypeOK, ReqType, loopVars, traceVars, Spans
<1>2. CASE req.err = NoErr
  <2>1. req' = req /\ Records' = Records
    BY <1>2 DEF Annotate, logVars, Records
  <2>2. CurEvents' = CurEvents
    BY <1>1, <2>1 DEF CurEvents, Cur
  <2> QED
    BY <1>1, <1>2, <2>1, <2>2
<1>3. CASE req.err # NoErr
  <2>1. Record(marked, "user.fetch.exception", 0)
    BY <1>3 DEF Annotate
  <2>2. /\ marked \in ReqType /\ marked.calls = req.calls /\ marked.err = req.err
        /\ marked.retries = req.retries /\ marked.events = req.events
    BY <1>1 DEF ReqType
  <2> HIDE DEF marked
  <2>3. /\ CurEvents' = CurEvents \cup {SpanEvent("user.fetch.exception", 0)}
        /\ \/ Records' = Records
           \/ \E n : /\ Records' = Records \cup {n} /\ n.req = Cur /\ n.name = "user.fetch.exception"
                     /\ n.span = "fetch user" /\ (n.nameAttr <=> opt.copyName)
    BY <1>1, <2>1, <2>2, RecordAdds
  <2>4. /\ req'.calls = req.calls /\ req'.err = req.err /\ req'.retries = req.retries
    BY <2>1, <2>2, RecordFrame DEF ReqType
  <2> QED
    BY <1>1, <1>3, <2>3, <2>4
<1> QED
  BY <1>2, <1>3

LEMMA EndRequestAdds ==
    ASSUME EndRequest
    PROVE  /\ pc = "end" /\ pc' = "pause" /\ sent' = sent + 1 /\ opt' = opt /\ Records' = Records
           /\ lastErr' = req.err
           /\ \E m : /\ Spans' = Spans \cup {m} /\ m.name = "fetch user" /\ m.req = Cur /\ m.info
                     /\ m.error = req.recorded /\ m.hit = req.hit /\ m.retries = req.retries
                     /\ m.calls = req.calls /\ m.events = req.events
<1> DEFINE m == MainSpan
<1>1. /\ m.name = "fetch user" /\ m.req = Cur /\ m.info
      /\ m.error = req.recorded /\ m.hit = req.hit /\ m.retries = req.retries
      /\ m.calls = req.calls /\ m.events = req.events
  BY DEF MainSpan, OnStart, Cur
<1> HIDE DEF m
<1>2. Spans' = Spans \cup {m}
  BY EndSpanFrame DEF EndRequest, m
<1>3. /\ pc = "end" /\ pc' = "pause" /\ sent' = sent + 1 /\ opt' = opt /\ Records' = Records
      /\ lastErr' = req.err
  BY DEF EndRequest, logVars, Records
<1> QED
  BY <1>1, <1>2, <1>3

(* The others, of which only two are steps of a request. *)
LEMMA QuietControl ==
    ASSUME ControlInv,
           \/ NewTelemetry \/ StartRequest \/ LeaveLoop \/ Pause \/ Backoff
           \/ ShutdownTraces \/ ShutdownLogs \/ Signal \/ TimerFires \/ Export \/ UNCHANGED vars
    PROVE  /\ sent' = sent /\ opt' = opt /\ lastErr' = lastErr
           /\ \/ pc' = pc /\ req' = req
              \/ pc \notin Handling /\ pc' \notin Handling
              \/ pc = "loop" /\ pc' = "cacheGet" /\ req' = FreshRequest
              \/ /\ pc = "backoff" /\ req'.calls = req.calls /\ req'.retries = req.retries
                 /\ req'.events = req.events
                 /\ \/ pc' = "annotate" /\ req'.err = "cancelled"
                    \/ pc' = "select" /\ req'.err = NoErr
<1> USE DEF Handling, loopVars, requestVars
<1>1. CASE NewTelemetry \/ LeaveLoop \/ Pause \/ ShutdownTraces \/ ShutdownLogs \/ Signal \/ TimerFires
           \/ Export \/ UNCHANGED vars
  BY <1>1 DEF NewTelemetry, LeaveLoop, Pause, ShutdownTraces, ShutdownLogs, Signal, TimerFires,
              Export, vars
<1>2. CASE StartRequest
  BY <1>2 DEF StartRequest
<1>3. CASE Backoff
  <2>1. req \in ReqType
    BY DEF ControlInv, TypeOK, ReqType
  <2> QED
    BY <1>3, <2>1 DEF Backoff, ReqType
<1> QED
  BY <1>1, <1>2, <1>3
-----------------------------------------------------------------------------
(* The request under way *)

Quiet == \/ NewTelemetry \/ StartRequest \/ LeaveLoop \/ Pause \/ Backoff
         \/ ShutdownTraces \/ ShutdownLogs \/ Signal \/ TimerFires \/ Export \/ UNCHANGED vars

LEMMA Steps == [Next]_vars => \/ Quiet \/ CacheGet \/ SelectUser \/ AfterSelect
                              \/ Annotate \/ EndRequest
BY DEF Next, Main, Quiet

LEMMA InitTraces == Init => SentInv /\ SelectInv /\ EventInv
<1> SUFFICES ASSUME Init PROVE SentInv /\ SelectInv /\ EventInv
  OBVIOUS
<1>1. Spans = {} /\ Records = {} /\ pc \notin Handling
  BY DEF Init, Traces!PipelineInit, Logs!PipelineInit, Spans, Records, Handling
<1> QED
  BY <1>1 DEF SentInv, SelectInv, EventInv, MainSpans

LEMMA CurFacts ==
    ASSUME sent \in Nat
    PROVE  Cur \in Nat /\ Cur >= 1 /\ Cur \in 1..Cur
<1>1. sent + 1 \in Nat /\ sent + 1 >= 1
  OBVIOUS
<1> QED
  BY <1>1 DEF Cur

LEMMA SentGrows ==
    ASSUME SentInv, sent \in Nat, sent' = sent, pc' \in Handling,
           \A s \in Spans' : s \in Spans \/ (s.name \in {"cache get", "SELECT users"} /\ s.req = Cur),
           \A r \in Records' : \/ r \in Records
                             \/ /\ r.name \in {"none", "db.query.retry", "user.fetch.exception"}
                                /\ r.req = Cur
    PROVE  SentInv'
<1>1. Cur' = Cur /\ Cur \in 1..Cur
  BY CurFacts DEF Cur
<1>2. \A s \in Spans' : s.name \in {"cache get", "SELECT users", "fetch user"} /\ s.req \in 1..Cur
  BY <1>1 DEF SentInv
<1>3. \A r \in Records' : /\ r.name \in {"none", "db.query.retry", "user.fetch.exception"}
                          /\ r.req \in 1..Cur
  BY <1>1 DEF SentInv
<1>4. \A m \in MainSpans' : m \in MainSpans
  BY DEF MainSpans
<1> HIDE DEF Cur
<1> QED
  BY <1>1, <1>2, <1>3, <1>4 DEF SentInv

LEMMA SentStep == ControlInv /\ SentInv /\ [Next]_vars => SentInv'
<1> SUFFICES ASSUME ControlInv, SentInv, [Next]_vars PROVE SentInv'
  OBVIOUS
<1>0. sent \in Nat
  BY DEF ControlInv, TypeOK
<1>1. CASE Quiet
  <2>1. /\ sent' = sent /\ (pc \in Handling => pc' \in Handling)
        /\ Spans' = Spans /\ Records' = Records /\ MainSpans' = MainSpans
    BY <1>1, QuietControl, QuietStep DEF Quiet, Handling, MainSpans
  <2> QED
    BY <2>1 DEF SentInv, Cur
<1>2. CASE CacheGet
  <2>1. pc' \in Handling /\ sent' = sent /\ Records' = Records
    BY <1>2, CacheGetAdds DEF CacheGet, Handling
  <2>2. PICK c : /\ Spans' = Spans \cup {c} /\ c.name = "cache get" /\ c.req = Cur
    BY <1>2, CacheGetAdds
  <2> QED
    BY <1>0, <2>1, <2>2, SentGrows
<1>3. CASE SelectUser
  <2>1. pc' \in Handling /\ sent' = sent
    BY <1>3, SelectUserAdds DEF Handling
  <2>2. PICK s : /\ Spans' = Spans \cup {s} /\ s.name = "SELECT users" /\ s.req = Cur
    BY <1>3, SelectUserAdds
  <2>3. \A r \in Records' : r \in Records \/ (r.req = Cur /\ r.name = "none")
    BY <1>3, SelectUserAdds
  <2> QED
    BY <1>0, <2>1, <2>2, <2>3, SentGrows
<1>4. CASE AfterSelect \/ Annotate
  <2>1. pc' \in Handling /\ sent' = sent /\ Spans' = Spans
    BY <1>4, AfterSelectAdds, AnnotateAdds DEF Handling
  <2>2. \A r \in Records' : r \in Records \/ (r.req = Cur /\ r.name \in {"db.query.retry", "user.fetch.exception"})
    BY <1>4, AfterSelectAdds, AnnotateAdds
  <2> QED
    BY <1>0, <2>1, <2>2, SentGrows
<1>5. CASE EndRequest
  <2>1. Records' = Records /\ Cur' = Cur + 1 /\ Cur \in Nat /\ Cur >= 1
    <3>1. sent' = sent + 1 /\ Records' = Records
      BY <1>5, EndRequestAdds
    <3> QED
      BY <1>0, <3>1 DEF Cur
  <2>2. PICK m : Spans' = Spans \cup {m} /\ m.name = "fetch user" /\ m.req = Cur
    BY <1>5, EndRequestAdds
  <2>3. \A s \in Spans' : /\ s.name \in {"cache get", "SELECT users", "fetch user"}
                          /\ s.req \in 1..Cur' /\ s.req # Cur'
    <3>1. \A s \in Spans' : /\ s.name \in {"cache get", "SELECT users", "fetch user"}
                            /\ s.req \in 1..Cur
      BY <1>0, <2>2, CurFacts DEF SentInv
    <3>2. \A n \in 1..Cur : n \in 1..(Cur + 1) /\ n # Cur + 1
      BY <2>1
    <3> QED
      BY <2>1, <3>1, <3>2
  <2>4. \A r \in Records' : /\ r.name \in {"none", "db.query.retry", "user.fetch.exception"}
                            /\ r.req \in 1..Cur' /\ r.req # Cur'
    <3>1. \A r \in Records' : /\ r.name \in {"none", "db.query.retry", "user.fetch.exception"}
                              /\ r.req \in 1..Cur
      BY <2>1 DEF SentInv
    <3>2. \A n \in 1..Cur : n \in 1..(Cur + 1) /\ n # Cur + 1
      BY <2>1
    <3> QED
      BY <2>1, <3>1, <3>2
  <2> QED
    BY <2>3, <2>4 DEF SentInv, MainSpans
<1> QED
  BY <1>1, <1>2, <1>3, <1>4, <1>5, Steps

LEMMA SelectsBefore ==
    ASSUME ControlInv, SentInv, pc \notin Handling
    PROVE  Selects(Cur) = {}
BY DEF SentInv, Selects

LEMMA SelectStep == ControlInv /\ SentInv /\ SelectInv /\ [Next]_vars => SelectInv'
<1> SUFFICES ASSUME ControlInv, SentInv, SelectInv, [Next]_vars, pc' \in Handling
             PROVE  SelectInv'
  BY DEF SelectInv
<1>0. /\ req \in ReqType /\ req.calls \in Nat /\ req.attempt \in Nat
  BY AttemptsAssumption DEF ControlInv, TypeOK, ReqType, Attempts
<1>1. CASE Quiet
  <2>1. Spans' = Spans /\ sent' = sent
    BY <1>1, QuietControl, QuietStep DEF Quiet
  <2>2. Selects(Cur)' = Selects(Cur)
    BY <2>1 DEF Selects, Cur
  <2>3. CASE pc' = pc /\ req' = req
    BY <2>2, <2>3 DEF SelectInv, Made
  <2>4. CASE pc = "loop" /\ pc' = "cacheGet" /\ req' = FreshRequest
    <3>1. Selects(Cur)' = {} /\ Made' = 0
      BY <2>2, <2>4, SelectsBefore DEF Handling, Made, FreshRequest
    <3> QED
      BY <2>4, <3>1, FS_EmptySet DEF SelectInv
  <2>5. CASE /\ pc = "backoff" /\ req'.calls = req.calls
             /\ \/ pc' = "annotate" /\ req'.err = "cancelled"
                \/ pc' = "select" /\ req'.err = NoErr
    <3>1. Made' = Made /\ \A s \in Selects(Cur) : s.error # NoErr
      BY <2>5 DEF Made, SelectInv, Handling
    <3>2. /\ {s.attempt : s \in Selects(Cur)} = 1..Made
          /\ IsFiniteSet(Selects(Cur)) /\ Cardinality(Selects(Cur)) = Made
      BY <2>5 DEF SelectInv, Handling
    <3>3. Cardinality(Selects(Cur))' = Cardinality(Selects(Cur))
      BY <2>2
    <3>4. pc' \notin {"answered", "end"} /\ (pc' = "annotate" => req'.err = "cancelled")
      BY <2>5
    <3> HIDE DEF SelectInv
    <3> QED
      BY <2>2, <3>1, <3>2, <3>3, <3>4 DEF SelectInv, NoErr
  <2> QED
    BY <1>1, <2>3, <2>4, <2>5, QuietControl DEF Quiet
<1>2. CASE CacheGet
  <2>1. PICK c : Spans' = Spans \cup {c} /\ c.name = "cache get"
    BY <1>2, CacheGetAdds
  <2>2. pc = "cacheGet" /\ sent' = sent /\ req = FreshRequest
    BY <1>2, CacheGetAdds DEF ControlInv, LocalInv
  <2>3. req'.calls = 0 /\ pc' # "answered"
    BY <1>2, <2>2 DEF CacheGet, FreshRequest
  <2>4. Made = 0 /\ Made' = 0
    BY <2>2, <2>3 DEF Made, FreshRequest
  <2>5. Selects(Cur) = {}
    BY <2>2, <2>4, FS_EmptySet DEF SelectInv, Handling
  <2>6. Selects(Cur)' = {}
    BY <2>1, <2>2, <2>5 DEF Selects, Cur
  <2> QED
    BY <2>4, <2>6, FS_EmptySet DEF SelectInv
<1>3. CASE SelectUser
  <2>1. /\ pc = "select" /\ pc' = "answered" /\ sent' = sent /\ req'.calls = req.calls
        /\ req.attempt = req.calls + 1
    BY <1>3, SelectUserAdds DEF ControlInv, LocalInv
  <2>2. PICK s : /\ Spans' = Spans \cup {s} /\ s.name = "SELECT users" /\ s.req = Cur
                 /\ s.attempt = req.attempt /\ s.error = req'.err
    BY <1>3, SelectUserAdds
  <2>3. Selects(Cur)' = Selects(Cur) \cup {s}
    BY <2>1, <2>2 DEF Selects, Cur
  <2>4. Made = req.calls /\ Made' = req.calls + 1
    BY <2>1 DEF Made
  <2>5. /\ {t.attempt : t \in Selects(Cur)} = 1..req.calls
        /\ IsFiniteSet(Selects(Cur)) /\ Cardinality(Selects(Cur)) = req.calls
        /\ \A t \in Selects(Cur) : t.error # NoErr
    BY <2>1, <2>4 DEF SelectInv, Handling
  <2>6. \A t \in Selects(Cur) : t.attempt # req.calls + 1
    <3>1. req.calls + 1 \notin 1..req.calls
      BY <1>0
    <3> QED
      BY <2>5, <3>1
  <2>7. s \notin Selects(Cur)
    BY <1>0, <2>1, <2>2, <2>6
  <2>8. /\ IsFiniteSet(Selects(Cur) \cup {s})
        /\ Cardinality(Selects(Cur) \cup {s}) = req.calls + 1
    BY <2>5, <2>7, FS_AddElement
  <2>9. {t.attempt : t \in Selects(Cur) \cup {s}} = 1..(req.calls + 1)
    <3>1. {t.attempt : t \in Selects(Cur) \cup {s}} = 1..req.calls \cup {req.calls + 1}
      BY <2>1, <2>2, <2>5
    <3> QED
      BY <1>0, <3>1
  <2>10. \A t \in Selects(Cur) \cup {s} : t.error = NoErr =>
           t.attempt = req.calls + 1 /\ req'.err = NoErr
    BY <2>1, <2>2, <2>5
  <2>11. req'.err = NoErr => \E t \in Selects(Cur) \cup {s} : t.attempt = req.calls + 1 /\ t.error = NoErr
    BY <2>1, <2>2
  <2>12. req'.err = "timeout" =>
           \A t \in Selects(Cur) \cup {s} : t.attempt = req.calls + 1 => t.error = "timeout"
    BY <1>0, <2>1, <2>2, <2>6
  <2> QED
    BY <2>1, <2>3, <2>4, <2>8, <2>9, <2>10, <2>11, <2>12 DEF SelectInv
<1>4. CASE AfterSelect
  <2>1. /\ pc = "answered" /\ sent' = sent /\ Spans' = Spans
        /\ req'.calls = req.calls + 1 /\ req'.err = req.err
        /\ pc' = "annotate" \/ (pc' = "backoff" /\ req.err # NoErr)
    BY <1>4, AfterSelectAdds
  <2>2. Selects(Cur)' = Selects(Cur) /\ Made' = Made
    BY <2>1 DEF Selects, Cur, Made
  <2> QED
    BY <2>1, <2>2 DEF SelectInv, Handling
<1>5. CASE Annotate
  <2>1. /\ pc = "annotate" /\ pc' = "end" /\ sent' = sent /\ Spans' = Spans
        /\ req'.calls = req.calls /\ req'.err = req.err
    BY <1>5, AnnotateAdds
  <2>2. Selects(Cur)' = Selects(Cur) /\ Made' = Made
    BY <2>1 DEF Selects, Cur, Made
  <2> QED
    BY <2>1, <2>2 DEF SelectInv, Handling
<1>6. CASE EndRequest
  BY <1>6, EndRequestAdds DEF Handling
<1> QED
  BY <1>1, <1>2, <1>3, <1>4, <1>5, <1>6, Steps

LEMMA EventStep == ControlInv /\ SentInv /\ EventInv /\ [Next]_vars => EventInv'
<1> SUFFICES ASSUME ControlInv, SentInv, EventInv, [Next]_vars, pc' \in Handling
             PROVE  EventInv'
  BY DEF EventInv
<1> DEFINE Retries == Named(CurEvents, "db.query.retry")
           Exceptions == Named(CurEvents, "user.fetch.exception")
<1>0. /\ req \in ReqType /\ req.retries \in Nat /\ req.attempt \in Nat
  BY AttemptsAssumption DEF ControlInv, TypeOK, ReqType, Attempts
<1>1. ASSUME CurEvents' = CurEvents, req'.retries = req.retries, pc \in Handling, pc # "end", pc' # "end"
      PROVE  EventInv'
  BY <1>1 DEF EventInv, Named
<1>2. CASE Quiet
  <2>1. Records' = Records /\ sent' = sent
    BY <1>2, QuietControl, QuietStep DEF Quiet
  <2>2. CASE pc' = pc /\ req' = req
    <3>1. CurEvents' = CurEvents
      BY <2>1, <2>2 DEF CurEvents, Cur
    <3> QED
      BY <2>2, <3>1 DEF EventInv, Named
  <2>3. CASE pc = "loop" /\ pc' = "cacheGet" /\ req' = FreshRequest
    <3>1. req'.events = {} /\ req'.retries = 0
      BY <2>3 DEF FreshRequest
    <3>2. \A r \in Records' : r.req # Cur'
      BY <2>1, <2>3 DEF SentInv, Handling, Cur
    <3>3. CurEvents' = {}
      BY <3>1, <3>2 DEF CurEvents
    <3>4. Named(CurEvents', "db.query.retry") = {} /\ Named(CurEvents', "user.fetch.exception") = {}
      BY <3>3 DEF Named
    <3> QED
      BY <2>3, <3>1, <3>4, FS_EmptySet DEF EventInv
  <2>4. CASE /\ pc = "backoff" /\ req'.retries = req.retries /\ req'.events = req.events
             /\ pc' \in {"annotate", "select"}
    <3>1. CurEvents' = CurEvents
      BY <2>1, <2>4 DEF CurEvents, Cur
    <3> QED
      BY <1>1, <2>4, <3>1 DEF Handling
  <2> QED
    BY <1>2, <2>2, <2>3, <2>4, QuietControl DEF Quiet
<1>3. CASE CacheGet
  <2>1. pc = "cacheGet" /\ pc' # "end" /\ Records' = Records /\ sent' = sent
    BY <1>3, CacheGetAdds DEF CacheGet
  <2>2. req'.retries = req.retries /\ req'.events = req.events
    BY <1>0, <1>3 DEF CacheGet, ReqType
  <2>3. CurEvents' = CurEvents
    BY <2>1, <2>2 DEF CurEvents, Cur
  <2> QED
    BY <1>1, <2>1, <2>2, <2>3 DEF Handling
<1>4. CASE SelectUser
  <2>1. /\ pc = "select" /\ pc' = "answered" /\ sent' = sent /\ req'.retries = req.retries
        /\ req'.events = req.events
    BY <1>4, SelectUserAdds
  <2>2. {r \in Records' : r.req = Cur /\ r.name # "none"} = {r \in Records : r.req = Cur /\ r.name # "none"}
    BY <1>4, SelectUserAdds
  <2>3. CurEvents' = CurEvents
    BY <2>1, <2>2 DEF CurEvents, Cur
  <2> QED
    BY <1>1, <2>1, <2>3 DEF Handling
<1>5. CASE AfterSelect
  <2>1. CASE /\ pc = "answered" /\ pc' = "annotate" /\ req'.retries = req.retries
             /\ CurEvents' = CurEvents
    BY <1>1, <2>1 DEF Handling
  <2>2. CASE /\ pc = "answered" /\ pc' = "backoff" /\ req'.retries = req.retries + 1
             /\ CurEvents' = CurEvents \cup {SpanEvent("db.query.retry", req.attempt + 1)}
    <3> DEFINE e == SpanEvent("db.query.retry", req.attempt + 1)
    <3>1. e.name = "db.query.retry" /\ e.attempt = req.retries + 2
      BY <1>0, <2>2 DEF SpanEvent, ControlInv, LocalInv
    <3>2. CurEvents' = CurEvents \cup {e}
      BY <2>2
    <3> HIDE DEF e
    <3>3. /\ Named(CurEvents', "db.query.retry") = Retries \cup {e}
          /\ Named(CurEvents', "user.fetch.exception") = Exceptions
      BY <3>1, <3>2 DEF Named
    <3>4. /\ \A x \in Retries : x.attempt \in 2 .. req.retries + 1
          /\ IsFiniteSet(Retries) /\ Cardinality(Retries) = req.retries /\ Exceptions = {}
      BY <2>2 DEF EventInv, Handling
    <3>5. e \notin Retries
      BY <1>0, <3>1, <3>4
    <3>6. IsFiniteSet(Retries \cup {e}) /\ Cardinality(Retries \cup {e}) = req.retries + 1
      BY <3>4, <3>5, FS_AddElement
    <3>7. \A x \in Retries \cup {e} : x.attempt \in 2 .. req.retries + 2
      BY <1>0, <3>1, <3>4
    <3> HIDE DEF Retries, Exceptions
    <3>8. /\ \A x \in Named(CurEvents', "db.query.retry") : x.attempt \in 2 .. req'.retries + 1
          /\ IsFiniteSet(Named(CurEvents', "db.query.retry"))
          /\ Cardinality(Named(CurEvents', "db.query.retry")) = req'.retries
          /\ Named(CurEvents', "user.fetch.exception") = {}
      <4>1. (req.retries + 1) + 1 = req.retries + 2
        BY <1>0
      <4> QED
        BY <2>2, <3>3, <3>4, <3>6, <3>7, <4>1
    <3> QED
      BY <2>2, <3>8 DEF EventInv
  <2> QED
    BY <1>5, <2>1, <2>2, AfterSelectAdds
<1>6. CASE Annotate
  <2>1. /\ pc = "annotate" /\ pc' = "end" /\ req'.retries = req.retries /\ req'.err = req.err
        /\ \/ req.err = NoErr /\ CurEvents' = CurEvents
           \/ /\ req.err # NoErr
              /\ CurEvents' = CurEvents \cup {SpanEvent("user.fetch.exception", 0)}
    BY <1>6, AnnotateAdds
  <2> DEFINE e == SpanEvent("user.fetch.exception", 0)
  <2>2. e.name = "user.fetch.exception"
    BY DEF SpanEvent
  <2> HIDE DEF e
  <2>3. /\ \A x \in Retries : x.attempt \in 2 .. req.retries + 1
        /\ IsFiniteSet(Retries) /\ Cardinality(Retries) = req.retries /\ Exceptions = {}
    BY <2>1 DEF EventInv, Handling
  <2>4. /\ Named(CurEvents', "db.query.retry") = Retries
        /\ Named(CurEvents', "user.fetch.exception") = IF req.err # NoErr THEN {e} ELSE {}
    BY <2>1, <2>2, <2>3 DEF Named, e
  <2> HIDE DEF Retries, Exceptions
  <2> QED
    BY <2>1, <2>3, <2>4 DEF EventInv, e
<1>7. CASE EndRequest
  BY <1>7, EndRequestAdds DEF Handling
<1> QED
  BY <1>2, <1>3, <1>4, <1>5, <1>6, <1>7, Steps
-----------------------------------------------------------------------------
(* The requests that are over *)

TraceInv == ControlInv /\ SentInv /\ SelectInv /\ EventInv

LEMMA Traced == Spec => []TraceInv
<1>1. Init => TraceInv
  BY InitControl, InitTraces DEF TraceInv
<1>2. TraceInv /\ [Next]_vars => TraceInv'
  BY NextControl, SentStep, SelectStep, EventStep DEF TraceInv
<1> QED
  BY <1>1, <1>2, PTL DEF Spec

(* What CountsAgree and ErrorOnlyIfFailed ask of one main span. *)
CountsOf(m) ==
    /\ {s.attempt : s \in Selects(m.req)} = 1 .. m.calls
    /\ Cardinality(Selects(m.req)) = m.calls
    /\ m.retries = Cardinality(Named(EventsOf(m), "db.query.retry"))
    /\ m.calls > 0 => \/ m.calls = m.retries + 1
                      \/ m.error = "cancelled" /\ m.calls = m.retries

ErrorsOf(m) ==
    /\ m.error # NoErr <=> \E e \in EventsOf(m) : e.name = "user.fetch.exception"
    /\ m.error = NoErr <=> m.hit \/ (\E s \in Selects(m.req) : s.attempt = m.calls /\ s.error = NoErr)
    /\ m.error = "timeout" =>
         /\ m.calls = MaxAttempts
         /\ \A s \in Selects(m.req) :
              s.error # NoErr /\ (s.attempt = m.calls => s.error = "timeout")

MainInv == \A m \in MainSpans : CountsOf(m) /\ ErrorsOf(m)

(* Once its main span has ended, nothing is added to a request. *)
LEMMA PastKept ==
    ASSUME SentInv, NEW m \in MainSpans, CountsOf(m) /\ ErrorsOf(m),
           Spans \subseteq Spans', \A s \in Spans' : s \in Spans \/ s.req = Cur,
           Records \subseteq Records', \A r \in Records' : r \in Records \/ r.req = Cur
    PROVE  CountsOf(m)' /\ ErrorsOf(m)'
<1>1. m.req # Cur
  BY DEF SentInv
<1>2. Selects(m.req)' = Selects(m.req)
  BY <1>1 DEF Selects
<1>3. {r \in Records' : r.req = m.req /\ r.name # "none"} = {r \in Records : r.req = m.req /\ r.name # "none"}
  BY <1>1
<1>4. EventsOf(m)' = EventsOf(m)
  BY <1>3 DEF EventsOf
<1> QED
  BY <1>2, <1>4 DEF CountsOf, ErrorsOf

(* Every step adds to the request under way only. *)
LEMMA Adds ==
    ASSUME TraceInv, [Next]_vars
    PROVE  /\ Spans \subseteq Spans' /\ \A s \in Spans' : s \in Spans \/ s.req = Cur
           /\ Records \subseteq Records' /\ \A r \in Records' : r \in Records \/ r.req = Cur
           /\ ~EndRequest => MainSpans' = MainSpans
<1> USE DEF TraceInv
<1>1. CASE Quiet
  BY <1>1, QuietStep DEF Quiet, MainSpans
<1>2. CASE CacheGet
  BY <1>2, CacheGetAdds DEF MainSpans
<1>3. CASE SelectUser
  <2>1. PICK s : Spans' = Spans \cup {s} /\ s.name = "SELECT users" /\ s.req = Cur
    BY <1>3, SelectUserAdds
  <2>2. Records \subseteq Records' /\ \A r \in Records' : r \in Records \/ r.req = Cur
    BY <1>3, SelectUserAdds
  <2> QED
    BY <2>1, <2>2 DEF MainSpans
<1>4. CASE AfterSelect
  <2>1. Spans' = Spans
    BY <1>4, AfterSelectAdds
  <2>2. Records \subseteq Records' /\ \A r \in Records' : r \in Records \/ r.req = Cur
    BY <1>4, AfterSelectAdds
  <2> QED
    BY <2>1, <2>2 DEF MainSpans
<1>5. CASE Annotate
  <2>1. Spans' = Spans
    BY <1>5, AnnotateAdds
  <2>2. Records \subseteq Records' /\ \A r \in Records' : r \in Records \/ r.req = Cur
    BY <1>5, AnnotateAdds
  <2> QED
    BY <2>1, <2>2 DEF MainSpans
<1>6. CASE EndRequest
  BY <1>6, EndRequestAdds
<1> QED
  BY <1>1, <1>2, <1>3, <1>4, <1>5, <1>6, Steps

LEMMA CallsNat == ControlInv => req.calls \in Nat
BY AttemptsAssumption DEF ControlInv, TypeOK, Attempts

LEMMA NatZero == \A n \in Nat : n = 0 \/ n > 0
OBVIOUS

LEMMA EndRequestMain ==
    ASSUME TraceInv, EndRequest,
           NEW m, Spans' = Spans \cup {m}, m.name = "fetch user", m.req = Cur,
           m.error = req.recorded, m.hit = req.hit, m.retries = req.retries,
           m.calls = req.calls, m.events = req.events
    PROVE  CountsOf(m)' /\ ErrorsOf(m)'
<1>1. /\ pc = "end" /\ Records' = Records /\ req.recorded = req.err
      /\ req.calls \in Nat /\ Made = req.calls
  <2>1. pc = "end" /\ Records' = Records
    BY EndRequestAdds
  <2>2. req \in ReqType /\ req.recorded = req.err
    BY <2>1 DEF TraceInv, ControlInv, LocalInv, TypeOK, ReqType
  <2>3. req.calls \in Nat
    BY CallsNat DEF TraceInv
  <2> QED
    BY <2>1, <2>2, <2>3 DEF Made
<1>2. Selects(m.req)' = Selects(Cur)
  BY DEF Selects
<1>3. EventsOf(m)' = CurEvents
  BY <1>1 DEF EventsOf, CurEvents
<1>4. /\ {s.attempt : s \in Selects(Cur)} = 1 .. m.calls
      /\ Cardinality(Selects(Cur)) = m.calls
      /\ \A s \in Selects(Cur) : s.error = NoErr => s.attempt = m.calls /\ m.error = NoErr
      /\ m.calls > 0 /\ m.error = NoErr => \E s \in Selects(Cur) : s.attempt = m.calls /\ s.error = NoErr
      /\ m.error = "timeout" => \A s \in Selects(Cur) : s.attempt = m.calls => s.error = "timeout"
  BY <1>1 DEF TraceInv, SelectInv, Handling
<1>5. /\ m.hit => m.calls = 0 /\ m.error = NoErr
      /\ ~m.hit /\ m.calls = 0 => m.error = "cancelled"
      /\ m.calls > 0 => \/ m.calls = m.retries + 1
                        \/ m.error = "cancelled" /\ m.calls = m.retries
      /\ m.error = "timeout" => m.calls = MaxAttempts
  BY <1>1 DEF TraceInv, ControlInv, LocalInv
<1>6. /\ Cardinality(Named(CurEvents, "db.query.retry")) = m.retries
      /\ Named(CurEvents, "user.fetch.exception")
           = IF m.error # NoErr THEN {SpanEvent("user.fetch.exception", 0)} ELSE {}
  BY <1>1 DEF TraceInv, EventInv, Handling
<1>7. CountsOf(m)'
  BY <1>2, <1>3, <1>4, <1>5, <1>6 DEF CountsOf
<1>8. m.error # NoErr <=> \E e \in CurEvents : e.name = "user.fetch.exception"
  <2>1. CASE m.error = NoErr
    BY <1>6, <2>1 DEF Named
  <2>2. CASE m.error # NoErr
    <3>1. SpanEvent("user.fetch.exception", 0) \in Named(CurEvents, "user.fetch.exception")
      BY <1>6, <2>2
    <3> QED
      BY <2>2, <3>1 DEF Named
  <2> QED
    BY <2>1, <2>2
<1>9. m.error = NoErr <=> m.hit \/ (\E s \in Selects(Cur) : s.attempt = m.calls /\ s.error = NoErr)
  <2>1. m.calls \in Nat
    BY <1>1
  <2>2. m.error = NoErr /\ ~m.hit => m.calls > 0
    <3>1. m.calls > 0 \/ m.calls = 0
      BY <2>1, NatZero, Zenon
    <3> QED
      BY <1>5, <3>1 DEF NoErr
  <2> QED
    BY <1>4, <1>5, <2>2
<1>10. m.error = "timeout" =>
         /\ m.calls = MaxAttempts
         /\ \A s \in Selects(Cur) :
              s.error # NoErr /\ (s.attempt = m.calls => s.error = "timeout")
  BY <1>4, <1>5 DEF NoErr
<1>11. ErrorsOf(m)'
  BY <1>2, <1>3, <1>8, <1>9, <1>10 DEF ErrorsOf
<1> QED
  BY <1>7, <1>11

LEMMA MainStep == TraceInv /\ MainInv /\ [Next]_vars => MainInv'
<1> SUFFICES ASSUME TraceInv, MainInv, [Next]_vars PROVE MainInv'
  OBVIOUS
<1>1. \A m \in MainSpans : CountsOf(m)' /\ ErrorsOf(m)'
  BY Adds, PastKept DEF MainInv, TraceInv
<1>2. CASE ~EndRequest
  BY <1>1, <1>2, Adds DEF MainInv
<1>3. CASE EndRequest
  <2>1. PICK m : /\ Spans' = Spans \cup {m} /\ m.name = "fetch user" /\ m.req = Cur /\ m.info
                 /\ m.error = req.recorded /\ m.hit = req.hit /\ m.retries = req.retries
                 /\ m.calls = req.calls /\ m.events = req.events
    BY <1>3, EndRequestAdds
  <2>2. CountsOf(m)' /\ ErrorsOf(m)'
    BY <1>3, <2>1, EndRequestMain
  <2>3. \A x \in MainSpans' : x \in MainSpans \/ x = m
    BY <2>1 DEF MainSpans
  <2> QED
    BY <1>1, <2>2, <2>3 DEF MainInv
<1> QED
  BY <1>2, <1>3

LEMMA MainSpansHold == Spec => []MainInv
<1>1. Init => MainInv
  BY DEF Init, Traces!PipelineInit, Spans, MainSpans, MainInv
<1> QED
  BY <1>1, MainStep, Traced, PTL DEF Spec

(* The columns of a main span tell what the other signals of its request   *)
(* tell, for any number of attempts, whichever recorder is used and        *)
(* wherever a signal cut the request short.                                *)
THEOREM CountsSafe == Spec => []CountsAgree
<1>1. MainInv => CountsAgree
  BY DEF MainInv, CountsOf, CountsAgree, Named
<1> QED
  BY <1>1, MainSpansHold, PTL

(* README.md:205: a main span is in error, and has an exception, exactly   *)
(* if its request failed in the end, whatever was retried before; and if   *)
(* its error is a timeout, then every attempt was made and none succeeded. *)
THEOREM ErrorSafe == Spec => []ErrorOnlyIfFailed
<1>1. MainInv => ErrorOnlyIfFailed
  BY DEF MainInv, ErrorsOf, ErrorOnlyIfFailed, Named
<1> QED
  BY <1>1, MainSpansHold, PTL
-----------------------------------------------------------------------------
(* Spans against records *)

LEMMA SignalsStep == TraceInv /\ SignalsCorrelate /\ [Next]_vars => SignalsCorrelate'
<1> DEFINE Diagnosed == {r \in Records : r.span = "SELECT users"}
           TimedOut == {s \in Spans : s.name = "SELECT users" /\ s.error = "timeout"}
<1> SUFFICES ASSUME TraceInv, SignalsCorrelate, [Next]_vars PROVE SignalsCorrelate'
  OBVIOUS
<1>0. /\ {<<r.req, r.attempt>> : r \in Diagnosed} = {<<s.req, s.attempt>> : s \in TimedOut}
      /\ \A r \in Records : r.span = "fetch user" <=> r.name # "none"
      /\ \A r \in Records : r.nameAttr <=> opt.copyName /\ r.name # "none"
      /\ \A s \in Spans : s.info <=> s.name = "fetch user"
  BY DEF SignalsCorrelate
<1>1. ASSUME opt' = opt,
             \A s \in Spans' : s \in Spans \/ (s.info <=> s.name = "fetch user"),
             \A r \in Records' : \/ r \in Records
                                 \/ /\ r.span = "fetch user" <=> r.name # "none"
                                    /\ r.nameAttr <=> opt.copyName /\ r.name # "none",
             {<<r.req, r.attempt>> : r \in Diagnosed'} = {<<s.req, s.attempt>> : s \in TimedOut'}
      PROVE  SignalsCorrelate'
  <2>1. \A s \in Spans' : s.info <=> s.name = "fetch user"
    BY <1>0, <1>1
  <2>2. \A r \in Records' : /\ r.span = "fetch user" <=> r.name # "none"
                            /\ r.nameAttr <=> opt.copyName /\ r.name # "none"
    BY <1>0, <1>1
  <2> QED
    BY <1>1, <2>1, <2>2 DEF SignalsCorrelate
<1>2. CASE Quiet
  BY <1>2, QuietStep, QuietControl DEF Quiet, TraceInv, SignalsCorrelate
<1>3. CASE CacheGet
  <2>1. opt' = opt /\ Records' = Records
    BY <1>3, CacheGetAdds
  <2>2. PICK c : Spans' = Spans \cup {c} /\ c.name = "cache get" /\ ~c.info
    BY <1>3, CacheGetAdds
  <2>3. Diagnosed' = Diagnosed /\ TimedOut' = TimedOut
    BY <2>1, <2>2
  <2> HIDE DEF Diagnosed, TimedOut
  <2> QED
    BY <1>0, <1>1, <2>1, <2>2, <2>3
<1>4. CASE SelectUser
  <2>1. opt' = opt
    BY <1>4, SelectUserAdds DEF TraceInv
  <2>2. PICK s : /\ Spans' = Spans \cup {s} /\ s.name = "SELECT users" /\ s.req = Cur /\ ~s.info
                 /\ s.attempt = req.attempt /\ s.error = req'.err
    BY <1>4, SelectUserAdds DEF TraceInv
  <2>3. CASE req'.err # "timeout"
    <3>1. Records' = Records
      BY <1>4, <2>3, SelectUserAdds DEF TraceInv
    <3>2. Diagnosed' = Diagnosed /\ TimedOut' = TimedOut
      BY <2>2, <2>3, <3>1
    <3> HIDE DEF Diagnosed, TimedOut
    <3> QED
      BY <1>0, <1>1, <2>1, <2>2, <3>1, <3>2
  <2>4. CASE req'.err = "timeout"
    <3>1. PICK r : /\ Records' = Records \cup {r} /\ r.name = "none" /\ r.req = Cur
                   /\ r.span = "SELECT users" /\ r.attempt = req.attempt /\ ~r.nameAttr
      BY <1>4, <2>4, SelectUserAdds DEF TraceInv
    <3>2. Diagnosed' = Diagnosed \cup {r} /\ TimedOut' = TimedOut \cup {s}
      BY <2>2, <2>4, <3>1
    <3> HIDE DEF Diagnosed, TimedOut
    <3>3. /\ {<<x.req, x.attempt>> : x \in Diagnosed'}
               = {<<x.req, x.attempt>> : x \in Diagnosed} \cup {<<Cur, req.attempt>>}
          /\ {<<x.req, x.attempt>> : x \in TimedOut'}
               = {<<x.req, x.attempt>> : x \in TimedOut} \cup {<<Cur, req.attempt>>}
      BY <2>2, <3>1, <3>2
    <3> QED
      BY <1>0, <1>1, <2>1, <2>2, <3>1, <3>3
  <2> QED
    BY <2>3, <2>4
<1>5. CASE AfterSelect \/ Annotate
  <2>1. opt' = opt /\ Spans' = Spans
    BY <1>5, AfterSelectAdds, AnnotateAdds DEF TraceInv
  <2>2. \/ Records' = Records
        \/ \E n : /\ Records' = Records \cup {n} /\ n.name # "none"
                  /\ n.span = "fetch user" /\ (n.nameAttr <=> opt.copyName)
    BY <1>5, AfterSelectAdds, AnnotateAdds DEF TraceInv
  <2>3. Diagnosed' = Diagnosed /\ TimedOut' = TimedOut
    BY <2>1, <2>2
  <2> HIDE DEF Diagnosed, TimedOut
  <2> QED
    BY <1>0, <1>1, <2>1, <2>2, <2>3
<1>6. CASE EndRequest
  <2>1. opt' = opt /\ Records' = Records
    BY <1>6, EndRequestAdds
  <2>2. PICK m : Spans' = Spans \cup {m} /\ m.name = "fetch user" /\ m.info
    BY <1>6, EndRequestAdds
  <2>3. Diagnosed' = Diagnosed /\ TimedOut' = TimedOut
    BY <2>1, <2>2
  <2> HIDE DEF Diagnosed, TimedOut
  <2> QED
    BY <1>0, <1>1, <2>1, <2>2, <2>3
<1> QED
  BY <1>2, <1>3, <1>4, <1>5, <1>6, Steps

(* README.md:204 and reqctx.go: every record is in the context of the span *)
(* it is about, a diagnosis with the timed-out query, an event with the    *)
(* main span, which alone carries the context of its request.              *)
THEOREM SignalsSafe == Spec => []SignalsCorrelate
<1>1. Init => SignalsCorrelate
  BY DEF Init, Traces!PipelineInit, Logs!PipelineInit, Spans, Records, SignalsCorrelate
<1> QED
  BY <1>1, SignalsStep, Traced, PTL DEF Spec

-----------------------------------------------------------------------------
(* The end of run *)

LEMMA ExitStep == TraceInv /\ ExitInv /\ [Next]_vars => ExitInv'
<1> SUFFICES ASSUME TraceInv, ExitInv, [Next]_vars PROVE ExitInv'
  OBVIOUS
<1> DEFINE Errored == \E m \in MainSpans : m.error # NoErr
           OnlyInv == opt.requests = 1 => /\ sent <= 1 /\ (pc \in Handling => sent = 0)
                                          /\ lastErr # NoErr <=> Errored
<1>0. sent \in Nat /\ OnlyInv
  BY DEF ExitInv, TraceInv, ControlInv, TypeOK
<1>1. CASE ~EndRequest
  <2>1. MainSpans' = MainSpans /\ opt' = opt /\ sent' = sent /\ lastErr' = lastErr
    <3>1. MainSpans' = MainSpans
      BY <1>1, Adds
    <3>2. opt' = opt /\ sent' = sent /\ lastErr' = lastErr
      BY <1>1 DEF Next, Main, NewTelemetry, StartRequest, LeaveLoop, Pause, CacheGet, SelectUser,
           AfterSelect, Backoff, Annotate, ShutdownTraces, ShutdownLogs, Signal, TimerFires,
           Export, vars, loopVars
    <3> QED
      BY <3>1, <3>2
  <2>2. pc' \in Handling => pc \in Handling \/ StartRequest
    BY <1>1 DEF Next, Main, NewTelemetry, StartRequest, LeaveLoop, Pause, CacheGet, SelectUser,
         AfterSelect, Backoff, Annotate, ShutdownTraces, ShutdownLogs, Signal, TimerFires,
         Export, vars, Handling
  <2>3. StartRequest /\ opt.requests = 1 => sent = 0
    BY <1>0 DEF StartRequest
  <2>4. OnlyInv'
    BY <1>0, <2>1, <2>2, <2>3
  <2>5. ExitCodeTells'
    <3>1. CASE ShutdownLogs
      <4>1. exitCode' = IF opt.requests = 1 /\ lastErr # NoErr THEN 1 ELSE 0
        BY <3>1 DEF ShutdownLogs
      <4>2. exitCode' = 1 <=> opt.requests = 1 /\ lastErr # NoErr
        BY <4>1
      <4> QED
        BY <1>0, <2>1, <4>2 DEF ExitCodeTells
    <3>2. CASE NewTelemetry
      <4>1. pc' = "exited" => tp' = "none"
        BY <3>2 DEF NewTelemetry, traceVars, TraceInv, ControlInv, ModeInv
      <4> QED
        BY <4>1 DEF ExitCodeTells
    <3>3. CASE ~ShutdownLogs /\ ~NewTelemetry
      <4>1. pc' = "exited" => UNCHANGED vars
        BY <1>1, <3>3 DEF Next, Main, StartRequest, LeaveLoop, Pause, CacheGet, SelectUser,
             AfterSelect, Backoff, Annotate, ShutdownTraces, Signal, TimerFires, Export
      <4>2. pc' = "exited" => pc' = pc /\ tp' = tp /\ exitCode' = exitCode
        BY <4>1 DEF vars, traceVars, exitVars
      <4> QED
        BY <2>1, <4>2 DEF ExitCodeTells, ExitInv
    <3> QED
      BY <3>1, <3>2, <3>3
  <2> QED
    BY <2>4, <2>5 DEF ExitInv
<1>2. CASE EndRequest
  <2>1. /\ pc = "end" /\ pc' = "pause" /\ sent' = sent + 1 /\ opt' = opt /\ lastErr' = req.err
        /\ req.recorded = req.err
    BY <1>2, EndRequestAdds DEF TraceInv, ControlInv, LocalInv
  <2>2. PICK m : Spans' = Spans \cup {m} /\ m.name = "fetch user" /\ m.error = req.recorded
    BY <1>2, EndRequestAdds
  <2>3. MainSpans' = MainSpans \cup {m}
    BY <2>2 DEF MainSpans
  <2>4. sent = 0 => MainSpans = {}
    <3> SUFFICES ASSUME sent = 0, NEW x \in MainSpans PROVE FALSE
      OBVIOUS
    <3>1. x.req \in 1..Cur /\ x.req # Cur
      BY DEF TraceInv, SentInv, MainSpans
    <3>2. Cur = 1
      BY DEF Cur
    <3> QED
      BY <3>1, <3>2
  <2>5. OnlyInv'
    <3> SUFFICES ASSUME opt.requests = 1
                 PROVE  /\ sent' <= 1 /\ pc' \notin Handling
                        /\ lastErr' # NoErr <=> Errored'
      BY <2>1
    <3>1. sent = 0
      BY <1>0, <2>1 DEF Handling
    <3>2. Errored' <=> m.error # NoErr
      BY <2>3, <2>4, <3>1
    <3>3. sent' = 1
      BY <2>1, <3>1
    <3>4. lastErr' # NoErr <=> Errored'
      BY <2>1, <2>2, <3>2
    <3>5. sent' <= 1 /\ pc' \notin Handling
      BY <2>1, <3>3 DEF Handling
    <3> QED
      BY <3>4, <3>5
  <2>6. ExitCodeTells'
    BY <2>1 DEF ExitCodeTells
  <2> QED
    BY <2>5, <2>6 DEF ExitInv
<1> QED
  BY <1>1, <1>2

(* README.md:121: with -requests 1 an exit code of 1 tells that the main   *)
(* span is in error, and every other run that got its telemetry ends with  *)
(* 0.                                                                      *)
THEOREM ExitSafe == Spec => []ExitCodeTells
<1>1. Init => ExitInv
  <2> SUFFICES ASSUME Init PROVE ExitInv
    OBVIOUS
  <2>1. MainSpans = {} /\ pc = "start" /\ sent = 0 /\ lastErr = NoErr
    BY DEF Init, Traces!PipelineInit, Spans, MainSpans
  <2> QED
    BY <2>1 DEF ExitInv, ExitCodeTells, Handling
<1>2. ExitInv => ExitCodeTells
  BY DEF ExitInv
<1> QED
  BY <1>1, <1>2, ExitStep, Traced, PTL DEF Spec

LEMMA FlushStep == ControlInv /\ FlushInv /\ [Next]_vars => FlushInv'
<1> SUFFICES ASSUME ControlInv, FlushInv, [Next]_vars PROVE FlushInv'
  OBVIOUS
<1> USE DEF FlushInv, traceVars, logVars, exitVars
<1>1. CASE NewTelemetry
  <2>1. /\ UNCHANGED <<spanQueue, spanOut, spanLost, logQueue, logOut, logLost, expired>>
        /\ pc = "start" /\ pc' # "shutdownLogs"
    BY <1>1 DEF NewTelemetry, Traces!InstallProvider, Logs!InstallProvider
  <2>2. pc = "start" => spanQueue = {} /\ logQueue = {}
    BY DEF FlushInv
  <2> QED
    BY <2>1, <2>2
<1>2. CASE StartRequest \/ LeaveLoop \/ Pause \/ Backoff \/ Signal \/ TimerFires \/ UNCHANGED vars
  BY <1>2 DEF StartRequest, LeaveLoop, Pause, Backoff, Signal, TimerFires, vars
<1>3. CASE CacheGet \/ SelectUser \/ AfterSelect \/ Annotate \/ EndRequest
  <2>1. tp = "up" /\ lp = "up"
    BY <1>3 DEF CacheGet, SelectUser, AfterSelect, Annotate, EndRequest, ControlInv, ModeInv, Handling
  <2>2. spanLost' = spanLost
    BY <1>3, <2>1, EndSpanFrame DEF CacheGet, SelectUser, AfterSelect, Annotate, EndRequest
  <2>3. logLost' = logLost
    BY <1>3, <2>1, EmitFrame, RecordFrame DEF CacheGet, SelectUser, AfterSelect, Annotate, EndRequest
  <2>4. expired' = expired /\ pc' \notin {"start", "shutdownLogs", "exited"}
    BY <1>3 DEF CacheGet, SelectUser, AfterSelect, Annotate, EndRequest
  <2> QED
    BY <2>2, <2>3, <2>4
<1>4. CASE ShutdownTraces
  BY <1>4 DEF ShutdownTraces, Traces!Drain, Traces!GiveUp
<1>5. CASE ShutdownLogs
  BY <1>5 DEF ShutdownLogs, Logs!Drain, Logs!GiveUp
<1>6. CASE Export
  BY <1>6 DEF Export, Traces!ExportBatch, Logs!ExportBatch, ControlInv, ModeInv
<1> QED
  BY <1>1, <1>2, <1>3, <1>4, <1>5, <1>6 DEF Next, Main

(* The reason main leaves os.Exit to its caller: with collectors that      *)
(* answer in time run returns with every span and record handed over,      *)
(* wherever it was stopped.                                                *)
THEOREM FlushSafe == Spec => []FlushedOnExit
<1>1. Init => FlushInv
  BY DEF Init, Traces!PipelineInit, Logs!PipelineInit, FlushInv
<1>2. FlushInv => FlushedOnExit
  BY DEF FlushInv, FlushedOnExit, Spans, Records
<1> QED
  BY <1>1, <1>2, FlushStep, Control, PTL DEF Spec
=============================================================================
