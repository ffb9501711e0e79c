---------------------------- MODULE Order_proof ----------------------------
(***************************************************************************)
(* Theorems about Order, for every set of requests, every width of int and *)
(* every limit.                                                            *)
(***************************************************************************)
EXTENDS Order, TLAPS

LEMMA NumbersType ==
    /\ MaxInt \in Nat /\ AmountLimit \in Nat /\ DefaultAmount \in Nat
    /\ 0 \in Ints /\ 1 \in Ints /\ DefaultAmount \in Ints
    /\ Ints \subseteq Int
BY NumbersAssumption DEF Ints

USE NumbersType

Places == {"none", "validate", "charge", "charged", "failValidation", "failCharge",
           "logStdout", "logBridge", "event", "end", "done"}

Accepted(r) == Items(r) > 0 /\ Amount(r) <= AmountLimit

(* Where a handler is tells what its server span and its client know.      *)
Told(r) ==
    /\ at[r] # "none" => wide[r].items = Items(r) /\ wide[r].amount = Amount(r)
    /\ at[r] \in {"none", "validate", "charge", "charged", "failValidation", "failCharge",
                  "logStdout", "logBridge", "event"} => answer[r] = 0
    /\ at[r] \in {"validate", "charge", "charged", "failValidation", "failCharge"} =>
         wide[r].status = "unset" /\ ~wide[r].error
    /\ at[r] = "charge" => Items(r) > 0
    /\ at[r] = "charged" => Accepted(r)
    /\ at[r] \in {"failValidation", "failCharge", "logStdout", "logBridge", "event"} => ~Accepted(r)
    /\ at[r] \in {"logStdout", "logBridge", "event"} => wide[r].status = "failed" /\ wide[r].error
    /\ at[r] \in {"end", "done"} =>
         \/ answer[r] = 200 /\ Accepted(r) /\ wide[r].status = "charged" /\ ~wide[r].error
         \/ answer[r] = 400 /\ ~Accepted(r) /\ wide[r].status = "failed" /\ wide[r].error

HandlerInv ==
    /\ at \in [Requests -> Places] /\ wide \in [Requests -> Wides]
    /\ query \in [Requests -> Queries] /\ answer \in [Requests -> {0, 200, 400}]
    /\ \A r \in Requests : Told(r)

(* A span that ended is the wide event of a handler that is through. *)
SpanInv ==
    \A s \in Traces!Ended : s.req \in Requests /\ at[s.req] = "done" /\ s.wide = wide[s.req]

Plain(r) == [req |-> r, name |-> "none", stage |-> FailureStage(r)]
Event(r) == [req |-> r, name |-> "order.failed", stage |-> FailureStage(r)]
Line(r)  == [req |-> r, stage |-> FailureStage(r), fields |-> {"trace_id", "span_id", "error"}]

(* The records and lines there are, and the handlers that wrote them. *)
Logged(r)   == at[r] = "event" \/ answer[r] = 400
OnStdout(r) == at[r] = "logBridge" \/ Logged(r)

RecordInv ==
    /\ \A rec \in Logs!Ended :
         /\ rec.req \in Requests
         /\ \/ rec = Plain(rec.req) /\ Logged(rec.req)
            \/ rec = Event(rec.req) /\ answer[rec.req] = 400
    /\ \A l \in stdout : l.fields = {"trace_id", "span_id", "error"}
    /\ \A r \in Requests :
         /\ Logged(r) => Plain(r) \in Logs!Ended
         /\ answer[r] = 400 => Event(r) \in Logs!Ended
         /\ OnStdout(r) => Line(r) \in stdout

-----------------------------------------------------------------------------
(* Handlers *)

LEMMA AtoiInt ==
    ASSUME NEW q \in Queries, NEW default \in Ints
    PROVE  atoi(q.items, default) \in Ints /\ atoi(q.amount, default) \in Ints
BY DEF atoi, Ints

LEMMA HandlerInit == Init => HandlerInv /\ SpanInv /\ RecordInv
<1> SUFFICES ASSUME Init PROVE HandlerInv /\ SpanInv /\ RecordInv
  OBVIOUS
<1>1. Traces!Ended = {} /\ Logs!Ended = {}
  BY DEF Init, Traces!PipelineInit, Logs!PipelineInit, Traces!Ended, Logs!Ended
<1>2. HandlerInv
  <2>1. NoQuery \in Queries
    BY DEF NoQuery, Queries, Values, NoNumber
  <2>2. NoWide \in Wides
    BY DEF NoWide, Wides
  <2> QED
    BY <2>1, <2>2 DEF Init, HandlerInv, Told, Places
<1>3. SpanInv /\ RecordInv
  BY <1>1 DEF Init, SpanInv, RecordInv, Logged, OnStdout
<1> QED
  BY <1>2, <1>3

(* A request arrives: its handler reads the query. *)
LEMMA HandlerArrive ==
    ASSUME HandlerInv, NEW r \in Requests, Arrive(r)
    PROVE  HandlerInv'
<1>1. PICK q \in Queries : query' = [query EXCEPT ![r] = q]
  BY DEF Arrive
<1> DEFINE w == [NoWide EXCEPT !.items = atoi(q.items, 1), !.amount = atoi(q.amount, DefaultAmount)]
<1>2. /\ at[r] = "none" /\ at' = [at EXCEPT ![r] = "validate"] /\ answer' = answer
      /\ wide' = [wide EXCEPT ![r] = w]
  <2>1. query'[r] = q
    BY <1>1 DEF HandlerInv
  <2> QED
    BY <2>1 DEF Arrive, Goto
<1>3. /\ w \in Wides
      /\ w.items = atoi(q.items, 1) /\ w.amount = atoi(q.amount, DefaultAmount)
      /\ w.status = "unset" /\ w.error = FALSE
  <2>1. atoi(q.items, 1) \in Ints /\ atoi(q.amount, DefaultAmount) \in Ints
    BY AtoiInt
  <2> QED
    BY <2>1 DEF NoWide, Wides
<1> HIDE DEF w
<1>4. /\ at' \in [Requests -> Places] /\ wide' \in [Requests -> Wides]
      /\ query' \in [Requests -> Queries] /\ answer' \in [Requests -> {0, 200, 400}]
  BY <1>1, <1>2, <1>3 DEF HandlerInv, Places
<1>5. ASSUME NEW p \in Requests PROVE Told(p)'
  <2>1. CASE p = r
    <3>1. /\ at'[r] = "validate" /\ answer'[r] = 0 /\ query'[r] = q
          /\ wide'[r].items = atoi(q.items, 1) /\ wide'[r].amount = atoi(q.amount, DefaultAmount)
          /\ wide'[r].status = "unset" /\ wide'[r].error = FALSE
      BY <1>1, <1>2, <1>3 DEF HandlerInv, Told
    <3> QED
      BY <2>1, <3>1 DEF Told, Items, Amount
  <2>2. CASE p # r
    <3>1. Told(p)
      BY DEF HandlerInv
    <3>2. /\ at'[p] = at[p] /\ answer'[p] = answer[p] /\ query'[p] = query[p]
          /\ wide'[p] = wide[p]
      BY <1>1, <1>2, <2>2 DEF HandlerInv
    <3> QED
      BY <3>1, <3>2 DEF Told, Items, Amount, Accepted
  <2> QED
    BY <2>1, <2>2
<1> QED
  BY <1>4, <1>5 DEF HandlerInv

(* The other steps of a handler leave its query alone. *)
LEMMA HandlerStep ==
    ASSUME HandlerInv, NEW r \in Requests, Handle(r), ~Arrive(r)
    PROVE  HandlerInv' /\ query' = query
<1> USE DEF Goto
<1>1. query' = query
  BY DEF Handle, Validate, Charge, Succeed, FailSpan, FailStdout, FailBridge, FailEvent, EndRequest
<1>2. \A p \in Requests : /\ Items(p)' = Items(p) /\ Amount(p)' = Amount(p)
                          /\ Accepted(p)' = Accepted(p)
  BY <1>1 DEF Items, Amount, Accepted
<1>3. Items(r) \in Int /\ Amount(r) \in Int
  <2>1. query[r] \in Queries
    BY DEF HandlerInv
  <2>2. Items(r) \in Ints /\ Amount(r) \in Ints
    BY <2>1, AtoiInt DEF Items, Amount
  <2> QED
    BY <2>2
<1>4. /\ at' \in [Requests -> Places] /\ wide' \in [Requests -> Wides]
      /\ answer' \in [Requests -> {0, 200, 400}]
  <2>1. CASE Succeed(r)
    <3>1. [wide[r] EXCEPT !.status = "charged"] \in Wides
      BY DEF HandlerInv, Wides
    <3> QED
      BY <2>1, <3>1 DEF Succeed, HandlerInv, Places
  <2>2. CASE FailSpan(r)
    <3> DEFINE w == [wide EXCEPT ![r].status = "failed"]
    <3>1. w \in [Requests -> Wides]
      <4>1. [wide[r] EXCEPT !.status = "failed"] \in Wides
        BY DEF HandlerInv, Wides
      <4> QED
        BY <4>1 DEF HandlerInv
    <3>2. [w EXCEPT ![r].error = TRUE] \in [Requests -> Wides]
      <4> HIDE DEF w
      <4>1. [w[r] EXCEPT !.error = TRUE] \in Wides
        BY <3>1 DEF Wides
      <4> QED
        BY <3>1, <4>1
    <3>3. wide' = [w EXCEPT ![r].error = TRUE]
      BY <2>2 DEF FailSpan
    <3>4. at' \in [Requests -> Places] /\ answer' \in [Requests -> {0, 200, 400}]
      BY <2>2 DEF FailSpan, HandlerInv, Places
    <3> QED
      BY <3>2, <3>3, <3>4
  <2>3. CASE ~Succeed(r) /\ ~FailSpan(r)
    BY <2>3 DEF Handle, Validate, Charge, FailStdout, FailBridge, FailEvent, EndRequest,
                HandlerInv, Places
  <2> QED
    BY <2>1, <2>2, <2>3
<1>5. \A p \in Requests \ {r} :
         at'[p] = at[p] /\ answer'[p] = answer[p] /\ wide'[p] = wide[p]
  BY DEF Handle, Validate, Charge, Succeed, FailSpan, FailStdout, FailBridge, FailEvent,
         EndRequest, HandlerInv
<1>6. \A p \in Requests \ {r} : Told(p)'
  BY <1>2, <1>5 DEF HandlerInv, Told
<1>7. Told(r)'
  <2>0. Told(r)
    BY DEF HandlerInv
  <2>1. CASE Validate(r)
    BY <1>2, <1>3, <2>0, <2>1 DEF Validate, HandlerInv, Told, Accepted
  <2>2. CASE Charge(r)
    BY <1>2, <1>3, <2>0, <2>2 DEF Charge, HandlerInv, Told, Accepted
  <2>3. CASE Succeed(r)
    <3>1. /\ at[r] = "charged" /\ at'[r] = "end" /\ answer'[r] = 200
          /\ wide'[r].items = wide[r].items /\ wide'[r].amount = wide[r].amount
          /\ wide'[r].status = "charged" /\ wide'[r].error = wide[r].error
      BY <2>3 DEF Succeed, HandlerInv, Wides
    <3> QED
      BY <1>2, <2>0, <3>1 DEF Told
  <2>4. CASE FailSpan(r)
    <3>1. /\ at[r] \in {"failValidation", "failCharge"} /\ at'[r] = "logStdout"
          /\ answer'[r] = answer[r]
          /\ wide'[r].items = wide[r].items /\ wide'[r].amount = wide[r].amount
          /\ wide'[r].status = "failed" /\ wide'[r].error = TRUE
      BY <2>4 DEF FailSpan, HandlerInv, Wides
    <3> QED
      BY <1>2, <2>0, <3>1 DEF Told
  <2>5. CASE FailStdout(r)
    BY <1>2, <2>0, <2>5 DEF FailStdout, HandlerInv, Told
  <2>6. CASE FailBridge(r)
    BY <1>2, <2>0, <2>6 DEF FailBridge, HandlerInv, Told
  <2>7. CASE FailEvent(r)
    BY <1>2, <2>0, <2>7 DEF FailEvent, HandlerInv, Told
  <2>8. CASE EndRequest(r)
    BY <1>2, <2>0, <2>8 DEF EndRequest, HandlerInv, Told
  <2> QED
    BY <2>1, <2>2, <2>3, <2>4, <2>5, <2>6, <2>7, <2>8 DEF Handle
<1> QED
  BY <1>1, <1>4, <1>6, <1>7 DEF HandlerInv

(* Whatever main, the exporters and a signal do, what was ended is what    *)
(* was ended, and the handlers are where they were.                        *)
MainStep == StartServer \/ ServerStops \/ LogCleanup \/ TraceCleanup \/ Killed \/ Export

LEMMA MainFrame ==
    ASSUME MainStep \/ UNCHANGED vars
    PROVE  /\ UNCHANGED <<handlerVars, stdout>>
           /\ Traces!Ended' = Traces!Ended /\ Logs!Ended' = Logs!Ended
BY DEF MainStep, StartServer, ServerStops, LogCleanup, TraceCleanup, Killed, Export, vars,
       traceVars, logVars, Traces!Ended, Logs!Ended, Traces!InstallProvider, Logs!InstallProvider,
       Traces!Shutdown, Logs!Shutdown, Traces!Drain, Logs!Drain, Traces!GiveUp, Logs!GiveUp,
       Traces!Kill, Logs!Kill, Traces!ExportBatch, Logs!ExportBatch

LEMMA HandlerNext == HandlerInv /\ [Next]_vars => HandlerInv'
<1> SUFFICES ASSUME HandlerInv, [Next]_vars PROVE HandlerInv'
  OBVIOUS
<1>1. CASE MainStep \/ UNCHANGED vars
  <2>1. UNCHANGED <<query, at, wide, answer>>
    BY <1>1, MainFrame DEF handlerVars
  <2> QED
    BY <2>1 DEF HandlerInv, Told, Items, Amount, Accepted
<1> QED
  BY <1>1, HandlerArrive, HandlerStep DEF Next, MainStep

-----------------------------------------------------------------------------
(* What handlers leave behind *)

LEMMA SpanNext == HandlerInv /\ SpanInv /\ [Next]_vars => SpanInv'
<1> SUFFICES ASSUME HandlerInv, SpanInv, [Next]_vars PROVE SpanInv'
  OBVIOUS
<1>1. CASE MainStep \/ UNCHANGED vars
  BY <1>1, MainFrame DEF SpanInv, handlerVars
<1>2. ASSUME NEW r \in Requests, Handle(r), ~EndRequest(r)
      PROVE  SpanInv'
  <2>1. Traces!Ended' = Traces!Ended
    BY <1>2 DEF Handle, Arrive, Validate, Charge, Succeed, FailSpan, FailStdout, FailBridge,
                FailEvent, traceVars, Traces!Ended
  <2>2. at[r] # "done"
    BY <1>2 DEF Handle, Arrive, Validate, Charge, Succeed, FailSpan, FailStdout, FailBridge,
                FailEvent, Goto
  <2>3. \A p \in Requests \ {r} : at'[p] = at[p] /\ wide'[p] = wide[p]
    BY <1>2 DEF Handle, Arrive, Validate, Charge, Succeed, FailSpan, FailStdout, FailBridge,
                FailEvent, Goto, HandlerInv
  <2> QED
    BY <2>1, <2>2, <2>3 DEF SpanInv
<1>3. ASSUME NEW r \in Requests, EndRequest(r)
      PROVE  SpanInv'
  <2>1. at' = [at EXCEPT ![r] = "done"] /\ wide' = wide
    BY <1>3 DEF EndRequest, Goto
  <2>2. Traces!Ended' \subseteq Traces!Ended \cup {[req |-> r, wide |-> wide[r]]}
    BY <1>3 DEF EndRequest, traceVars, Traces!Ended, Traces!EndSpan
  <2> QED
    BY <2>1, <2>2 DEF SpanInv, HandlerInv
<1> QED
  BY <1>1, <1>2, <1>3 DEF Next, MainStep

(* Steps that write nothing, of handlers whose place in between says so. *)
LEMMA RecordFrame ==
    ASSUME RecordInv, query' = query, Logs!Ended' = Logs!Ended, stdout' = stdout,
           \A r \in Requests : answer'[r] = 400 <=> answer[r] = 400,
           \A r \in Requests : at'[r] \in {"logBridge", "event"} \/ at[r] \in {"logBridge", "event"}
                                => at'[r] = at[r]
    PROVE  RecordInv'
<1>1. \A r : Plain(r)' = Plain(r) /\ Event(r)' = Event(r) /\ Line(r)' = Line(r)
  BY DEF Plain, Event, Line, FailureStage, Items
<1>2. \A r \in Requests : Logged(r)' = Logged(r) /\ OnStdout(r)' = OnStdout(r)
  BY DEF Logged, OnStdout
<1> QED
  BY <1>1, <1>2 DEF RecordInv

(* The first record, the line and the event, each at its step of fail. *)
LEMMA RecordFail ==
    ASSUME HandlerInv, RecordInv, NEW r \in Requests,
           FailStdout(r) \/ FailBridge(r) \/ FailEvent(r)
    PROVE  RecordInv'
<1> USE DEF Goto, HandlerInv
<1>1. \A p : Plain(p)' = Plain(p) /\ Event(p)' = Event(p) /\ Line(p)' = Line(p)
  BY DEF FailStdout, FailBridge, FailEvent, Plain, Event, Line, FailureStage, Items
<1>2. answer[r] = 0
  BY DEF FailStdout, FailBridge, FailEvent, Told
<1>3. \A p \in Requests \ {r} : Logged(p)' = Logged(p) /\ OnStdout(p)' = OnStdout(p)
                                 /\ answer'[p] = answer[p]
  BY DEF FailStdout, FailBridge, FailEvent, Logged, OnStdout
<1>4. CASE FailStdout(r)
  <2>1. /\ at[r] = "logStdout" /\ at'[r] = "logBridge" /\ answer' = answer
        /\ Logs!Ended' = Logs!Ended
    BY <1>4 DEF FailStdout, logVars, Logs!Ended
  <2>2. filter(CtxFields) \cup filter({"error"}) = {"trace_id", "span_id", "error"}
    BY DEF filter, CtxFields
  <2>3. stdout' = stdout \cup {Line(r)}
    BY <1>4, <2>2 DEF FailStdout, LogToStdout, Line
  <2>4. ~Logged(r) /\ ~Logged(r)'
    BY <1>2, <2>1 DEF Logged
  <2>5. Line(r).fields = {"trace_id", "span_id", "error"}
    BY DEF Line
  <2> QED
    BY <1>1, <1>2, <1>3, <2>1, <2>3, <2>4, <2>5 DEF RecordInv
<1>5. CASE FailBridge(r)
  <2>1. /\ at[r] = "logBridge" /\ at'[r] = "event" /\ answer' = answer /\ stdout' = stdout
        /\ Logs!Ended' = Logs!Ended \cup {Plain(r)}
    BY <1>5 DEF FailBridge, LogToBridge, Plain, Logs!Ended, Logs!EndSpan
  <2>2. Logged(r)' /\ OnStdout(r) /\ Plain(r).req = r
    BY <2>1 DEF Logged, OnStdout, Plain
  <2> QED
    BY <1>1, <1>2, <1>3, <2>1, <2>2 DEF RecordInv
<1>6. CASE FailEvent(r)
  <2>1. /\ at[r] = "event" /\ at'[r] = "end" /\ answer' = [answer EXCEPT ![r] = 400]
        /\ stdout' = stdout
        /\ Logs!Ended' = Logs!Ended \cup {Event(r)}
    BY <1>6 DEF FailEvent, EmitEvent, Event, Logs!Ended, Logs!EndSpan
  <2>2. Logged(r) /\ Logged(r)' /\ OnStdout(r) /\ answer'[r] = 400 /\ Event(r).req = r
    BY <2>1 DEF Logged, OnStdout, Event
  <2> QED
    BY <1>1, <1>2, <1>3, <2>1, <2>2 DEF RecordInv
<1> QED
  BY <1>4, <1>5, <1>6

LEMMA RecordNext == HandlerInv /\ RecordInv /\ [Next]_vars => RecordInv'
<1> SUFFICES ASSUME HandlerInv, RecordInv, [Next]_vars PROVE RecordInv'
  OBVIOUS
<1>1. CASE MainStep \/ UNCHANGED vars
  BY <1>1, MainFrame, RecordFrame DEF handlerVars
<1>2. ASSUME NEW r \in Requests,
             Validate(r) \/ Charge(r) \/ Succeed(r) \/ FailSpan(r) \/ EndRequest(r)
      PROVE  RecordInv'
  <2> USE <1>2 DEF Validate, Charge, Succeed, FailSpan, EndRequest
  <2>1. query' = query /\ Logs!Ended' = Logs!Ended /\ stdout' = stdout
    BY DEF logVars, Logs!Ended
  <2>2. \A p \in Requests : answer'[p] = 400 <=> answer[p] = 400
    BY DEF Goto, HandlerInv, Told
  <2>3. \A p \in Requests : at'[p] \in {"logBridge", "event"} \/ at[p] \in {"logBridge", "event"}
                            => at'[p] = at[p]
    BY DEF Goto, HandlerInv
  <2> QED
    BY <2>1, <2>2, <2>3, RecordFrame
<1>3. ASSUME NEW r \in Requests, Arrive(r)
      PROVE  RecordInv'
  <2>1. Logs!Ended' = Logs!Ended /\ stdout' = stdout /\ answer' = answer
    BY <1>3 DEF Arrive, logVars, Logs!Ended
  <2>2. at[r] = "none" /\ at' = [at EXCEPT ![r] = "validate"] /\ answer[r] = 0
    BY <1>3 DEF Arrive, Goto, HandlerInv, Told
  <2>3. PICK q \in Queries : query' = [query EXCEPT ![r] = q]
    BY <1>3 DEF Arrive
  <2>4. \A p \in Requests \ {r} :
           Plain(p)' = Plain(p) /\ Event(p)' = Event(p) /\ Line(p)' = Line(p)
    BY <2>3 DEF Plain, Event, Line, FailureStage, Items, HandlerInv
  <2>5. /\ \A p \in Requests : Logged(p)' = Logged(p) /\ OnStdout(p)' = OnStdout(p)
        /\ ~Logged(r) /\ ~OnStdout(r) /\ answer[r] # 400
    BY <2>1, <2>2 DEF Logged, OnStdout, HandlerInv
  <2> QED
    BY <2>1, <2>4, <2>5 DEF RecordInv
<1> QED
  BY <1>1, <1>2, <1>3, RecordFail DEF Next, MainStep, Handle

(* The state that is no handler's has its type. *)
Lines == [req : Requests, stage : Stages, fields : SUBSET (CtxFields \cup {"error"})]

OutputInv ==
    /\ server \in {"starting", "serving", "returned", "cleanup", "down"}
    /\ {tp, lp} \subseteq {"none", "up", "stopped"}
    /\ stdout \subseteq Lines /\ Traces!Ended \subseteq Spans /\ Logs!Ended \subseteq Records

LEMMA OutputInit == Init => OutputInv
BY DEF Init, OutputInv, Traces!PipelineInit, Logs!PipelineInit, Traces!Ended, Logs!Ended

LEMMA StageType == \A r : FailureStage(r) \in Stages
BY DEF FailureStage, Stages

LEMMA OutputNext == HandlerInv /\ OutputInv /\ [Next]_vars => OutputInv'
<1> SUFFICES ASSUME HandlerInv, OutputInv, [Next]_vars PROVE OutputInv'
  OBVIOUS
<1>1. CASE MainStep \/ UNCHANGED vars
  <2>1. stdout' = stdout /\ Traces!Ended' = Traces!Ended /\ Logs!Ended' = Logs!Ended
    BY <1>1, MainFrame
  <2>2. /\ server' \in {"starting", "serving", "returned", "cleanup", "down"}
        /\ {tp, lp}' \subseteq {"none", "up", "stopped"}
    BY <1>1 DEF OutputInv, MainStep, StartServer, ServerStops, LogCleanup, TraceCleanup, Killed,
                Export, vars, traceVars, logVars, Traces!InstallProvider, Logs!InstallProvider,
                Traces!Shutdown, Logs!Shutdown, Traces!Drain, Logs!Drain, Traces!GiveUp,
                Logs!GiveUp, Traces!Kill, Logs!Kill, Traces!ExportBatch, Logs!ExportBatch
  <2> QED
    BY <2>1, <2>2 DEF OutputInv
<1>2. ASSUME NEW r \in Requests, Handle(r)
      PROVE  OutputInv'
  <2>1. server' = server /\ tp' = tp /\ lp' = lp
    BY <1>2 DEF Handle, Arrive, Validate, Charge, Succeed, FailSpan, FailStdout, FailBridge,
                FailEvent, EndRequest, LogToBridge, EmitEvent, traceVars, logVars,
                Traces!EndSpan, Logs!EndSpan
  <2>2. stdout' \subseteq Lines
    <3>1. CASE FailStdout(r)
      <4> DEFINE l == [req |-> r, stage |-> FailureStage(r),
                       fields |-> filter(CtxFields) \cup filter({"error"})]
      <4>1. l \in Lines
        BY StageType DEF Lines, filter
      <4>2. stdout' = stdout \cup {l}
        BY <3>1 DEF FailStdout, LogToStdout
      <4> QED
        BY <4>1, <4>2 DEF OutputInv
    <3>2. CASE ~FailStdout(r)
      BY <1>2, <3>2 DEF OutputInv, Handle, Arrive, Validate, Charge, Succeed, FailSpan, FailBridge,
                        FailEvent, EndRequest
    <3> QED
      BY <3>1, <3>2
  <2>3. Traces!Ended' \subseteq Spans
    <3>1. Traces!Ended' \subseteq Traces!Ended \cup {[req |-> r, wide |-> wide[r]]}
      BY <1>2 DEF Handle, Arrive, Validate, Charge, Succeed, FailSpan, FailStdout, FailBridge,
                  FailEvent, EndRequest, traceVars, Traces!Ended, Traces!EndSpan
    <3>2. [req |-> r, wide |-> wide[r]] \in Spans
      BY DEF HandlerInv, Spans
    <3> QED
      BY <3>1, <3>2 DEF OutputInv
  <2>4. Logs!Ended' \subseteq Records
    <3>1. Logs!Ended' \subseteq Logs!Ended \cup {Plain(r), Event(r)}
      BY <1>2 DEF Handle, Arrive, Validate, Charge, Succeed, FailSpan, FailStdout, FailBridge,
                  FailEvent, EndRequest, LogToBridge, EmitEvent, Plain, Event, logVars,
                  Logs!Ended, Logs!EndSpan
    <3>2. Plain(r) \in Records /\ Event(r) \in Records
      BY StageType DEF Plain, Event, Records
    <3> QED
      BY <3>1, <3>2 DEF OutputInv
  <2> QED
    BY <2>1, <2>2, <2>3, <2>4 DEF OutputInv
<1> QED
  BY <1>1, <1>2 DEF Next, MainStep

-----------------------------------------------------------------------------
(* Theorems *)

IInv == HandlerInv /\ OutputInv /\ SpanInv /\ RecordInv

LEMMA Inductive == Spec => []IInv
<1>1. IInv /\ [Next]_vars => IInv'
  BY HandlerNext, OutputNext, SpanNext, RecordNext DEF IInv
<1> QED
  BY <1>1, HandlerInit, OutputInit, PTL DEF Spec, IInv

(* Every variable keeps its type: whatever a client writes for a number,   *)
(* the span, the answer and the records are made of ints that the program  *)
(* can hold.                                                               *)
THEOREM TypeCorrect == Spec => []TypeOK
<1>1. IInv => TypeOK
  BY DEF IInv, HandlerInv, OutputInv, TypeOK, Places, Lines
<1> QED
  BY <1>1, Inductive, PTL

(* A server span that was exported, or lost, says what the client was      *)
(* told, and an order is charged exactly when its numbers are accepted,    *)
(* for every limit and every width of int.                                 *)
THEOREM WideEventSafe == Spec => []WideEventTellsAnswer
<1>1. IInv => WideEventTellsAnswer
  <2> SUFFICES ASSUME IInv, NEW s \in Traces!Ended
               PROVE  /\ s.wide.items = Items(s.req) /\ s.wide.amount = Amount(s.req)
                      /\ s.wide.status = "charged" <=> answer[s.req] = 200
                      /\ s.wide.error <=> answer[s.req] = 400
                      /\ answer[s.req] = 200 <=> s.wide.items > 0 /\ s.wide.amount <= AmountLimit
    BY DEF WideEventTellsAnswer
  <2>1. s.req \in Requests /\ at[s.req] = "done" /\ s.wide = wide[s.req]
    BY DEF IInv, SpanInv
  <2>2. Told(s.req)
    BY <2>1 DEF IInv, HandlerInv
  <2>3. wide[s.req].items = Items(s.req) /\ wide[s.req].amount = Amount(s.req)
    BY <2>1, <2>2 DEF Told
  <2>4. \/ answer[s.req] = 200 /\ Accepted(s.req) /\ wide[s.req].status = "charged" /\ ~wide[s.req].error
        \/ answer[s.req] = 400 /\ ~Accepted(s.req) /\ wide[s.req].status = "failed" /\ wide[s.req].error
    BY <2>1, <2>2 DEF Told
  <2> QED
    BY <2>1, <2>3, <2>4 DEF Accepted
<1> QED
  BY <1>1, Inductive, PTL

(* A client that got 400 has left both records, with the same stage, and   *)
(* one that got 200 none.                                                  *)
THEOREM BothLogsSafe == Spec => []FailuresReachBothLogs
<1>1. IInv => FailuresReachBothLogs
  <2> SUFFICES ASSUME IInv, NEW r \in Requests
               PROVE  /\ answer[r] = 400 => RecordsOf(r) =
                           [req : {r}, name : {"none", "order.failed"}, stage : {FailureStage(r)}]
                      /\ answer[r] = 200 => RecordsOf(r) = {}
    BY DEF FailuresReachBothLogs
  <2>1. [req : {r}, name : {"none", "order.failed"}, stage : {FailureStage(r)}]
          = {Plain(r), Event(r)}
    <3> DEFINE Both == [req : {r}, name : {"none", "order.failed"}, stage : {FailureStage(r)}]
    <3>1. Plain(r) \in Both /\ Event(r) \in Both
      BY DEF Plain, Event
    <3>2. ASSUME NEW rec \in Both PROVE rec \in {Plain(r), Event(r)}
      <4>1. /\ rec = [req |-> rec.req, name |-> rec.name, stage |-> rec.stage]
            /\ rec.req = r /\ rec.stage = FailureStage(r) /\ rec.name \in {"none", "order.failed"}
        OBVIOUS
      <4>2. CASE rec.name = "none"
        BY <4>1, <4>2 DEF Plain
      <4>3. CASE rec.name = "order.failed"
        BY <4>1, <4>3 DEF Event
      <4> QED
        BY <4>1, <4>2, <4>3
    <3> QED
      BY <3>1, <3>2
  <2>2. Plain(r).req = r /\ Event(r).req = r
    BY DEF Plain, Event
  <2>3. answer[r] = 400 => RecordsOf(r) = {Plain(r), Event(r)}
    BY <2>2 DEF IInv, RecordInv, RecordsOf, Logged
  <2>4. answer[r] = 200 => RecordsOf(r) = {}
    BY DEF IInv, RecordInv, RecordsOf, Logged, HandlerInv, Told
  <2> QED
    BY <2>1, <2>3, <2>4
<1> QED
  BY <1>1, Inductive, PTL

(* Every record of the bridge is a line on stdout, every answered failure  *)
(* is, and no line has the raw context.                                    *)
THEOREM TeeSafe == Spec => []TeeAgrees
<1>1. IInv => TeeAgrees
  <2> SUFFICES ASSUME IInv PROVE TeeAgrees
    OBVIOUS
  <2>1. ASSUME NEW rec \in Logs!Ended, rec.name = "none"
        PROVE  \E l \in stdout : l.req = rec.req /\ l.stage = rec.stage
    <3>1. rec.req \in Requests /\ rec = Plain(rec.req) /\ Logged(rec.req)
      <4>1. Event(rec.req).name = "order.failed"
        BY DEF Event
      <4> QED
        BY <2>1, <4>1 DEF IInv, RecordInv
    <3>2. Line(rec.req) \in stdout
      BY <3>1 DEF IInv, RecordInv, OnStdout
    <3>3. Line(rec.req).req = rec.req /\ Line(rec.req).stage = Plain(rec.req).stage
      BY DEF Line, Plain
    <3> QED
      BY <3>1, <3>2, <3>3
  <2>2. ASSUME NEW r \in Requests, answer[r] = 400
        PROVE  \E l \in stdout : l.req = r
    <3>1. Line(r) \in stdout /\ Line(r).req = r
      BY <2>2 DEF IInv, RecordInv, OnStdout, Logged, Line
    <3> QED
      BY <3>1
  <2> QED
    BY <2>1, <2>2 DEF TeeAgrees, IInv, RecordInv
<1> QED
  BY <1>1, Inductive, PTL
=============================================================================
