------------------------------- MODULE Order -------------------------------
(***************************************************************************)
(* The signoz-wide-event program: the order handler with its validation    *)
(* and charge steps, the wide event it builds on the server span, the two  *)
(* log records of a failed order, the tee logger behind one of them, and   *)
(* the two providers that carry spans and records away.                    *)
(*                                                                         *)
(* A query value is the number a client wrote, or no number at all.  Go's  *)
(* int holds -MaxInt - 1 .. MaxInt; TLC checks a narrow one.               *)
(***************************************************************************)
EXTENDS Integers, FiniteSets

CONSTANTS
    Requests,          \* requests a server process gets
    ItemNumbers,       \* numbers a client may write for items ...
    AmountNumbers,     \* ... and for amount
    MaxInt,            \* the largest int
    AmountLimit,       \* amountLimit
    DefaultAmount      \* what a missing or malformed amount stands for

ASSUME NumbersAssumption ==
    /\ ItemNumbers \subseteq Int /\ AmountNumbers \subseteq Int
    /\ MaxInt \in Nat \ {0} /\ AmountLimit \in Nat
    /\ DefaultAmount \in 0 .. MaxInt    \* the program has it as an int

VARIABLES
    server,            \* "starting", "serving", "returned", "cleanup" or "down"
    query,             \* [Requests -> what the client asked]
    at,                \* [Requests -> where its handler is]
    wide,              \* [Requests -> attributes and status of the server span]
    answer,            \* [Requests -> HTTP status, 0 before the answer]
    stdout,            \* the lines the logger wrote
    tp, spanQueue, spanOut, spanLost,
    lp, logQueue, logOut, logLost

handlerVars == <<query, at, wide, answer>>
traceVars   == <<tp, spanQueue, spanOut, spanLost>>
logVars     == <<lp, logQueue, logOut, logLost>>
vars == <<server, handlerVars, stdout, traceVars, logVars>>

Traces == INSTANCE SpanPipeline WITH CollectorFails <- FALSE,
    provider <- tp, queue <- spanQueue, exported <- spanOut, lost <- spanLost
Logs == INSTANCE SpanPipeline WITH CollectorFails <- FALSE,
    provider <- lp, queue <- logQueue, exported <- logOut, lost <- logLost

-----------------------------------------------------------------------------
(* Query values *)

NoNumber == [number |-> FALSE, n |-> 0]
Values(numbers) == [number : {TRUE}, n : numbers] \cup {NoNumber}

(* What a client asks, and whether its trace is sampled. *)
Queries == [items : Values(ItemNumbers), amount : Values(AmountNumbers), sampled : BOOLEAN]
NoQuery == [items |-> NoNumber, amount |-> NoNumber, sampled |-> TRUE]

(* strconv.Atoi refuses what is no number and what no int can hold; either *)
(* way the default is used.                                                *)
atoi(v, default) ==
    IF v.number /\ v.n \in (-MaxInt - 1) .. MaxInt THEN v.n ELSE default

Items(r)  == atoi(query[r].items, 1)
Amount(r) == atoi(query[r].amount, DefaultAmount)

-----------------------------------------------------------------------------
(* Loggers *)

(* Fields of a log call: the raw context, the ids written out, the error.  *)
CtxFields == {"context", "trace_id", "span_id"}

(* (Mutant of filter: nothing is dropped.) *)
filterNothing(fields) == fields
(* dropFieldCore removes the raw context, in With and in Write. *)
filter(fields) == fields \ {"context"}

(* The tee writes an entry to stdout first, through dropFieldCore ... *)
LogToStdout(r, stage) ==
    stdout' = stdout \cup
        {[req |-> r, stage |-> stage, fields |-> filter(CtxFields) \cup filter({"error"})]}

(* ... then to the bridge, which takes the context for the record's span. *)
LogToBridge(r, stage) == Logs!EndSpan([req |-> r, name |-> "none", stage |-> stage])

EmitEvent(r, stage) ==
    Logs!EndSpan([req |-> r, name |-> "order.failed", stage |-> stage])

-----------------------------------------------------------------------------
(* main *)

NoWide == [items |-> 0, amount |-> 0, status |-> "unset", error |-> FALSE]

Init ==
    /\ server = "starting"
    /\ query = [r \in Requests |-> NoQuery] /\ at = [r \in Requests |-> "none"]
    /\ wide = [r \in Requests |-> NoWide] /\ answer = [r \in Requests |-> 0]
    /\ stdout = {}
    /\ Traces!PipelineInit /\ Logs!PipelineInit

(* Both providers are installed; the server listens, or cannot. *)
StartServer ==
    /\ server = "starting"
    /\ server' \in {"serving", "returned"}
    /\ Traces!InstallProvider /\ Logs!InstallProvider
    /\ UNCHANGED <<handlerVars, stdout>>

(* ListenAndServe gives up; main logs it and returns, through its defers:  *)
(* the logger provider first, then the tracer provider, each with its own  *)
(* deadline.  Handlers still running are cut off when main is through.     *)
ServerStops ==
    /\ server = "serving" /\ server' = "returned"
    /\ UNCHANGED <<handlerVars, stdout, traceVars, logVars>>

LogCleanup ==
    /\ server = "returned" /\ server' = "cleanup"
    /\ Logs!Shutdown
    /\ UNCHANGED <<handlerVars, stdout, traceVars>>

TraceCleanup ==
    /\ server = "cleanup" /\ server' = "down"
    /\ Traces!Shutdown
    /\ UNCHANGED <<handlerVars, stdout, logVars>>

(* SIGTERM ends the process where it is: nothing handles it. *)
Killed ==
    /\ server \in {"serving", "returned", "cleanup"} /\ server' = "down"
    /\ Traces!Kill /\ Logs!Kill
    /\ UNCHANGED <<handlerVars, stdout>>

Export ==
    /\ server # "down"
    /\ \/ Traces!ExportBatch /\ UNCHANGED logVars
       \/ Logs!ExportBatch /\ UNCHANGED traceVars
    /\ UNCHANGED <<server, handlerVars, stdout>>

-----------------------------------------------------------------------------
(* The handler *)

Running == server \in {"serving", "returned", "cleanup"}

Goto(r, here, there) == Running /\ at[r] = here /\ at' = [at EXCEPT ![r] = there]

(* A request arrives; the handler reads its query into the server span. *)
Arrive(r) ==
    /\ server = "serving" /\ Goto(r, "none", "validate")
    /\ query' \in {[query EXCEPT ![r] = q] : q \in Queries}
    /\ wide' = [wide EXCEPT ![r] = [NoWide EXCEPT !.items = atoi(query'[r].items, 1),
                                    !.amount = atoi(query'[r].amount, DefaultAmount)]]
    /\ UNCHANGED <<server, answer, stdout, traceVars, logVars>>

(* validate and charge decide; each is a child span, which no property of  *)
(* this module tells apart from its absence.                               *)
Validate(r) ==
    /\ Goto(r, "validate", IF Items(r) <= 0 THEN "failValidation" ELSE "charge")
    /\ UNCHANGED <<server, query, wide, answer, stdout, traceVars, logVars>>

Charge(r) ==
    /\ Goto(r, "charge", IF Amount(r) > AmountLimit THEN "failCharge" ELSE "charged")
    /\ UNCHANGED <<server, query, wide, answer, stdout, traceVars, logVars>>

(* order's last lines: the wide event says charged, the client gets 200. *)
Succeed(r) ==
    /\ Goto(r, "charged", "end")
    /\ wide' = [wide EXCEPT ![r].status = "charged"]
    /\ answer' = [answer EXCEPT ![r] = 200]
    /\ UNCHANGED <<server, query, stdout, traceVars, logVars>>

FailureStage(r) == IF Items(r) <= 0 THEN "validation failed" ELSE "charge failed"

(* fail: the span says that it failed ... *)
FailSpan(r) ==
    /\ at[r] \in {"failValidation", "failCharge"}
    /\ Goto(r, at[r], "logStdout")
    /\ wide' = [wide EXCEPT ![r].status = "failed", ![r].error = TRUE]
    /\ UNCHANGED <<server, query, answer, stdout, traceVars, logVars>>

(* ... the plain log record says why, on both sides of the tee ... *)
FailStdout(r) ==
    /\ Goto(r, "logStdout", "logBridge")
    /\ LogToStdout(r, FailureStage(r))
    /\ UNCHANGED <<server, query, wide, answer, traceVars, logVars>>

FailBridge(r) ==
    /\ Goto(r, "logBridge", "event")
    /\ LogToBridge(r, FailureStage(r))
    /\ UNCHANGED <<server, query, wide, answer, stdout, traceVars>>

(* (Mutant of FailEvent: the event of a failed charge is left out.) *)
FailEventOnce(r) ==
    /\ Goto(r, "event", "end")
    /\ IF Items(r) <= 0 THEN EmitEvent(r, FailureStage(r)) ELSE UNCHANGED logVars
    /\ answer' = [answer EXCEPT ![r] = 400]
    /\ UNCHANGED <<server, query, wide, stdout, traceVars>>

(* (Mutant of FailEvent: the client is told of a server error.) *)
FailEventInternal(r) ==
    /\ Goto(r, "event", "end")
    /\ EmitEvent(r, FailureStage(r))
    /\ answer' = [answer EXCEPT ![r] = 500]
    /\ UNCHANGED <<server, query, wide, stdout, traceVars>>

(* ... then the event, and the client gets 400. *)
FailEvent(r) ==
    /\ Goto(r, "event", "end")
    /\ EmitEvent(r, FailureStage(r))
    /\ answer' = [answer EXCEPT ![r] = 400]
    /\ UNCHANGED <<server, query, wide, stdout, traceVars>>

(* (Mutant of EndRequest: the wide event is not on the span that ends.) *)
EndRequestBare(r) ==
    /\ Goto(r, "end", "done")
    /\ IF query[r].sampled
         THEN Traces!EndSpan([req |-> r, wide |-> NoWide])
         ELSE UNCHANGED traceVars
    /\ UNCHANGED <<server, query, wide, answer, stdout, logVars>>

(* otelhttp ends the server span, if the caller's sampling decision, which *)
(* the sampler follows, lets it be recorded at all.                        *)
EndRequest(r) ==
    /\ Goto(r, "end", "done")
    /\ IF query[r].sampled
         THEN Traces!EndSpan([req |-> r, wide |-> wide[r]])
         ELSE UNCHANGED traceVars
    /\ UNCHANGED <<server, query, wide, answer, stdout, logVars>>

Handle(r) ==
    \/ Arrive(r)
    \/ Validate(r)
    \/ Charge(r)
    \/ Succeed(r)
    \/ FailSpan(r)
    \/ FailStdout(r)
    \/ FailBridge(r)
    \/ FailEvent(r)
    \/ EndRequest(r)

Next ==
    \/ StartServer
    \/ ServerStops
    \/ LogCleanup
    \/ TraceCleanup
    \/ Killed
    \/ Export
    \/ \E r \in Requests : Handle(r)

Spec == Init /\ [][Next]_vars

-----------------------------------------------------------------------------
(* Properties *)

Ints  == (-MaxInt - 1) .. MaxInt
Wides == [items : Ints, amount : Ints, status : {"unset", "charged", "failed"}, error : BOOLEAN]
Spans == [req : Requests, wide : Wides]
Stages  == {"validation failed", "charge failed"}
Records == [req : Requests, name : {"none", "order.failed"}, stage : Stages]

(* Every variable has its type; the int a handler works with is one that   *)
(* the program's int can hold, whatever the client wrote (atoi).           *)
TypeOK ==
    /\ server \in {"starting", "serving", "returned", "cleanup", "down"}
    /\ query \in [Requests -> Queries]
    /\ at \in [Requests -> {"none", "validate", "charge", "charged", "failValidation",
                            "failCharge", "logStdout", "logBridge", "event", "end", "done"}]
    /\ wide \in [Requests -> Wides]
    /\ answer \in [Requests -> {0, 200, 400}]
    /\ stdout \subseteq [req : Requests, stage : Stages, fields : SUBSET (CtxFields \cup {"error"})]
    /\ Traces!Ended \subseteq Spans /\ Logs!Ended \subseteq Records
    /\ {tp, lp} \subseteq {"none", "up", "stopped"}

(* The two records of a failed order (fail): the plain one of the logger   *)
(* and the event.  A client that got 400 has left both, with the stage     *)
(* that failed; one that got 200 has left none.  Sampling plays no part.   *)
RecordsOf(r) == {rec \in Logs!Ended : rec.req = r}

FailuresReachBothLogs ==
    \A r \in Requests :
        /\ answer[r] = 400 => RecordsOf(r) =
             [req : {r}, name : {"none", "order.failed"}, stage : {FailureStage(r)}]
        /\ answer[r] = 200 => RecordsOf(r) = {}

(* The wide event and the answer agree: a span that was ended carries what *)
(* the handler parsed, and says charged or failed as the client was told.  *)
(* An order is charged exactly when validate and charge accept what was    *)
(* parsed, the limit itself included.                                      *)
WideEventTellsAnswer ==
    \A s \in Traces!Ended :
        /\ s.wide.items = Items(s.req) /\ s.wide.amount = Amount(s.req)
        /\ s.wide.status = "charged" <=> answer[s.req] = 200
        /\ s.wide.error <=> answer[s.req] = 400
        /\ answer[s.req] = 200 <=> s.wide.items > 0 /\ s.wide.amount <= AmountLimit

(* The tee: what the bridge got, stdout shows too, and an answered failure *)
(* is on stdout; no line shows the raw context that the bridge needs, and  *)
(* each carries the ids a reader needs (dropFieldCore, Ctx).               *)
TeeAgrees ==
    /\ \A rec \in Logs!Ended : rec.name = "none" =>
         \E l \in stdout : l.req = rec.req /\ l.stage = rec.stage
    /\ \A r \in Requests : answer[r] = 400 => \E l \in stdout : l.req = r
    /\ \A l \in stdout : l.fields = {"trace_id", "span_id", "error"}

(* README.md, "send a request": an amount above the limit is a charge      *)
(* error.  An amount too large for an int is replaced by the default.      *)
OverLimitRefused ==
    \A r \in Requests :
        query[r].amount.number /\ query[r].amount.n > AmountLimit => answer[r] # 200
=============================================================================
