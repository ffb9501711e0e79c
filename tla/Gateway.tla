------------------------------ MODULE Gateway ------------------------------
(***************************************************************************)
(* The six two-process programs (microservice, sampling, collector, envoy, *)
(* tail-sampling, refinery): a gateway that serves /hello over HTTP and    *)
(* asks a backend over gRPC, with the spans both leave behind.  The        *)
(* programs differ in a few decisions, which a record holds.               *)
(***************************************************************************)
EXTENDS Naturals, FiniteSets

CONSTANTS
    Requests,          \* the /hello requests a gateway gets
    ProgramNames,      \* the programs under check
    MaxLeft            \* bound: clients that close their connection

(* What a program does when a call fails and when it can listen no more,   *)
(* its sampler, whether its backend fails on purpose, whether hello calls  *)
(* httpbin.org too, whether a start waits for the collector, and whether   *)
(* the backend's spans come from a grpc.StatsHandler or an interceptor.    *)
Microservice == [sampler |-> "always", onCallError |-> "fatal", onListenError |-> "cleanup",
                 backendFails |-> FALSE, external |-> TRUE, blocks |-> FALSE, stats |-> FALSE]
Sampling     == [sampler |-> "parent", onCallError |-> "fatal", onListenError |-> "cleanup",
                 backendFails |-> FALSE, external |-> FALSE, blocks |-> FALSE, stats |-> FALSE]
Collector    == [sampler |-> "parent", onCallError |-> "fatal", onListenError |-> "fatal",
                 backendFails |-> FALSE, external |-> FALSE, blocks |-> TRUE, stats |-> FALSE]
Envoy        == [sampler |-> "parent", onCallError |-> "answer", onListenError |-> "cleanup",
                 backendFails |-> FALSE, external |-> FALSE, blocks |-> FALSE, stats |-> TRUE]
TailSampling == [sampler |-> "always", onCallError |-> "answer", onListenError |-> "fatal",
                 backendFails |-> TRUE, external |-> FALSE, blocks |-> FALSE, stats |-> TRUE]
Refinery     == TailSampling

Programs == [microservice |-> Microservice, sampling |-> Sampling, collector |-> Collector,
             envoy |-> Envoy, tailSampling |-> TailSampling, refinery |-> Refinery]

ASSUME ProgramsAssumption == ProgramNames \subseteq DOMAIN Programs /\ MaxLeft \in Nat

VARIABLES
    program,           \* the record of the program that runs
    reliable,          \* does the collector take the batches, in time?
    gateway,           \* "off", "serving", "returned", "flushed", "stopped" or "down"
    exit,              \* how the gateway ended: "none", "signal", "returned" or "fatal"
    finished,          \* history: requests that were done when the provider was shut down
    backend,           \* "off", "serving" or "down"
    at,                \* [Requests -> where the gateway's handler is]
    rpc,               \* [Requests -> where the backend's handler is]
    open,              \* requests whose serve span was started and has not ended
    left,              \* clients that closed their connection
    flag,              \* requests the gateway's sampler records
    beFlag,            \* requests the backend's sampler records
    answer,            \* [Requests -> HTTP status, 0 before the answer]
    gp, gwQueue, gwOut, gwLost,    \* the gateway's tracer provider
    beSpans            \* spans the backend has ended, wherever they are now

processVars == <<program, reliable, gateway, exit, finished, backend>>
requestVars == <<at, rpc, open, left, flag, beFlag, answer>>
gwVars      == <<gp, gwQueue, gwOut, gwLost>>
vars == <<processVars, requestVars, gwVars, beSpans>>

GwSpans == INSTANCE SpanPipeline WITH CollectorFails <- TRUE,
    provider <- gp, queue <- gwQueue, exported <- gwOut, lost <- gwLost

(* A reliable collector loses nothing that is sent to it; the other one is *)
(* away for as long as the processes live.                                 *)
CollectorTakes == IF reliable THEN gwLost' = gwLost ELSE gwOut' = gwOut

-----------------------------------------------------------------------------
(* Sampling *)

(* (Mutant of SamplerAnswers: the ratio is not wrapped in ParentBased.) *)
SamplerAnswersAlone(sampler, parent) == IF sampler = "always" THEN {TRUE} ELSE BOOLEAN

(* What the sampler may say of a span with this remote parent: AlwaysSample *)
(* asks nobody, ParentBased follows a parent and lets the ratio decide for  *)
(* a root (an unset or malformed SAMPLING_RATIO is a ratio of 0).           *)
SamplerAnswers(sampler, parent) ==
    IF sampler = "always" \/ parent = "sampled" THEN {TRUE}
    ELSE IF parent = "unsampled" THEN {FALSE} ELSE BOOLEAN

(* Spans of a request; the names say who the parent is (README trees). *)
Span(r, name, error) == [req |-> r, name |-> name, error |-> error]

EndGwSpan(r, name, error) ==
    IF r \in flag THEN GwSpans!EndSpan(Span(r, name, error)) ELSE UNCHANGED gwVars
EndBeSpan(r, name, error) ==
    beSpans' = IF r \in beFlag THEN beSpans \cup {Span(r, name, error)} ELSE beSpans

-----------------------------------------------------------------------------
(* The processes *)

Init ==
    /\ program \in {Programs[n] : n \in ProgramNames} /\ reliable \in BOOLEAN
    /\ gateway = "off" /\ exit = "none" /\ finished = {} /\ backend = "off"
    /\ at = [r \in Requests |-> "none"] /\ rpc = [r \in Requests |-> "none"]
    /\ open = {} /\ left = {} /\ flag = {} /\ beFlag = {}
    /\ answer = [r \in Requests |-> 0]
    /\ GwSpans!PipelineInit /\ beSpans = {}

(* NewTracerProvider under grpc.WithBlock and a context without deadline   *)
(* does not come back while the collector is away.                         *)
ProviderReady == program.blocks => reliable

(* main of the gateway: the provider, the client, the server. *)
StartGateway ==
    /\ gateway = "off" /\ ProviderReady /\ gateway' = "serving"
    /\ GwSpans!InstallProvider
    /\ UNCHANGED <<program, reliable, exit, finished, backend, requestVars, beSpans>>

(* main of the backend.  Its cleanup never runs: anything that fails in    *)
(* it, Serve included, is log.Fatal, and a signal is not handled either.   *)
(* So its spans are followed to their end and not to the collector.        *)
StartBackend ==
    /\ backend = "off" /\ ProviderReady /\ backend' = "serving"
    /\ UNCHANGED <<program, reliable, gateway, exit, finished, requestVars, gwVars, beSpans>>

(* Before a process serves: every error of its start is log.Fatal. *)
StartFails ==
    /\ \/ gateway = "off" /\ gateway' = "down" /\ exit' = "fatal" /\ backend' = backend
       \/ backend = "off" /\ backend' = "down" /\ UNCHANGED <<gateway, exit>>
    /\ UNCHANGED <<program, reliable, finished, requestVars, gwVars, beSpans>>

StopBackend ==
    /\ backend = "serving" /\ backend' = "down"
    /\ UNCHANGED <<program, reliable, gateway, exit, finished, requestVars, gwVars, beSpans>>

(* The gateway's process, and its handlers, from the start to the end. *)
Running == gateway \in {"serving", "returned", "flushed", "stopped"}

(* The gateway's process ends without cleanup: log.Fatal, or a signal. *)
Die(why) ==
    /\ gateway' = "down" /\ exit' = why
    /\ GwSpans!Kill
    /\ UNCHANGED <<program, reliable, finished, backend>>

SignalGateway == Running /\ Die("signal") /\ UNCHANGED <<requestVars, beSpans>>

(* ListenAndServe gives up: some programs ignore the error and return from *)
(* main, the others are done with log.Fatal.                               *)
ListenFails ==
    /\ gateway = "serving"
    /\ \/ /\ program.onListenError = "cleanup" /\ gateway' = "returned"
          /\ UNCHANGED <<program, reliable, exit, finished, backend, gwVars>>
       \/ program.onListenError = "fatal" /\ Die("fatal")
    /\ UNCHANGED <<requestVars, beSpans>>

(* The deferred cleanup: ForceFlush, which exports what is queued unless   *)
(* the collector lets five seconds pass ...                                *)
FlushGateway ==
    /\ gateway = "returned" /\ gateway' = "flushed"
    /\ \/ GwSpans!ExportBatch /\ CollectorTakes
       \/ (gwQueue = {} \/ ~reliable) /\ UNCHANGED gwVars
    /\ UNCHANGED <<program, reliable, exit, finished, backend, requestVars, beSpans>>

(* (Mutant of ShutdownGateway: the provider is closed, not drained.) *)
ShutdownGatewayDrops ==
    /\ gateway = "flushed" /\ gateway' = "stopped"
    /\ finished' = {r \in Requests : at[r] = "done"}
    /\ GwSpans!GiveUp
    /\ UNCHANGED <<program, reliable, exit, backend, requestVars, beSpans>>

(* ... and Shutdown, for the spans handlers ended in the meantime, with    *)
(* five seconds more.  Handlers go on, and end spans nobody will export.   *)
ShutdownGateway ==
    /\ gateway = "flushed" /\ gateway' = "stopped"
    /\ finished' = {r \in Requests : at[r] = "done"}
    /\ GwSpans!Shutdown /\ CollectorTakes
    /\ UNCHANGED <<program, reliable, exit, backend, requestVars, beSpans>>

(* main is over, and the handlers with it. *)
ExitGateway ==
    /\ gateway = "stopped" /\ gateway' = "down" /\ exit' = "returned"
    /\ UNCHANGED <<program, reliable, finished, backend, requestVars, gwVars, beSpans>>

Export ==
    /\ Running /\ GwSpans!ExportBatch /\ CollectorTakes
    /\ UNCHANGED <<processVars, requestVars, beSpans>>

-----------------------------------------------------------------------------
(* hello, at the gateway *)

Goto(r, here, there) ==
    /\ Running
    /\ at[r] = here /\ at' = [at EXCEPT ![r] = there]

(* A request arrives with or without a sampling decision of its caller;    *)
(* otelhttp starts its span, hello calls SayHello.                         *)
Arrive(r) ==
    /\ gateway = "serving" /\ Goto(r, "none", "calling")
    /\ \E parent \in {"none", "sampled", "unsampled"} :
         \E sampled \in SamplerAnswers(program.sampler, parent) :
           flag' = IF sampled THEN flag \cup {r} ELSE flag
    /\ rpc' = [rpc EXCEPT ![r] = "sent"]
    /\ UNCHANGED <<processVars, open, left, beFlag, answer, gwVars, beSpans>>

(* The client closes its connection: the context of its request, which     *)
(* hello passes on to both calls, is cancelled.  Nothing else in hello      *)
(* looks at it, so that leaving during Operation is leaving after it.      *)
ClientLeaves(r) ==
    /\ Running /\ at[r] \in {"calling", "external"}
    /\ r \notin left /\ Cardinality(left) < MaxLeft
    /\ left' = left \cup {r}
    /\ UNCHANGED <<processVars, at, rpc, open, flag, beFlag, answer, gwVars, beSpans>>

CallReturns(r) ==
    /\ rpc[r] = "replied" /\ Goto(r, "calling", "operation")
    /\ EndGwSpan(r, "call", FALSE)
    /\ UNCHANGED <<processVars, rpc, open, left, flag, beFlag, answer, beSpans>>

(* (Mutant of CallFails: the call waits for the backend to be there.) *)
CallFailsWhenReady(r) ==
    /\ rpc[r] = "failed" \/ r \in left
    /\ Goto(r, "calling", "failed")
    /\ EndGwSpan(r, "call", TRUE)
    /\ UNCHANGED <<processVars, rpc, open, left, flag, beFlag, answer, beSpans>>

(* SayHello fails: an error of the backend, no client any more, whatever   *)
(* the backend goes on to do, or no backend to take the call.              *)
CallFails(r) ==
    /\ \/ (rpc[r] = "failed" \/ r \in left) /\ rpc' = rpc
       \/ backend # "serving" /\ rpc' = [rpc EXCEPT ![r] = "none"]
    /\ Goto(r, "calling", "failed")
    /\ EndGwSpan(r, "call", TRUE)
    /\ UNCHANGED <<processVars, open, left, flag, beFlag, answer, beSpans>>

(* (Mutant of CallError: the return after http.Error is missing.) *)
CallErrorFallsThrough(r) ==
    /\ IF program.onCallError = "fatal"
         THEN Goto(r, "failed", "failed") /\ Die("fatal") /\ UNCHANGED answer
         ELSE /\ Goto(r, "failed", "operation")
              /\ answer' = [answer EXCEPT ![r] = 500]
              /\ UNCHANGED <<processVars, gwVars>>
    /\ UNCHANGED <<rpc, open, left, flag, beFlag, beSpans>>

(* (Mutant of CallError: it answers 502.) *)
CallErrorBadGateway(r) ==
    /\ IF program.onCallError = "fatal"
         THEN Goto(r, "failed", "failed") /\ Die("fatal") /\ UNCHANGED answer
         ELSE /\ Goto(r, "failed", "end")
              /\ answer' = [answer EXCEPT ![r] = 502]
              /\ UNCHANGED <<processVars, gwVars>>
    /\ UNCHANGED <<rpc, open, left, flag, beFlag, beSpans>>

(* What hello does then: log.Fatal ends the process with every request in  *)
(* it; http.Error answers 500.                                             *)
CallError(r) ==
    /\ IF program.onCallError = "fatal"
         THEN Goto(r, "failed", "failed") /\ Die("fatal") /\ UNCHANGED answer
         ELSE /\ Goto(r, "failed", "end")
              /\ answer' = [answer EXCEPT ![r] = 500]
              /\ UNCHANGED <<processVars, gwVars>>
    /\ UNCHANGED <<rpc, open, left, flag, beFlag, beSpans>>

(* Operation, which is all that is left to do unless httpbin is asked. *)
Operation(r) ==
    /\ Goto(r, "operation", IF program.external THEN "external" ELSE "end")
    /\ EndGwSpan(r, "op1", FALSE)
    /\ answer' = IF program.external \/ answer[r] # 0 THEN answer
                 ELSE [answer EXCEPT ![r] = 200]
    /\ UNCHANGED <<processVars, rpc, open, left, flag, beFlag, beSpans>>

(* httpbin answers, with any status: hello does not look at it, while      *)
(* otelhttp marks its span as an error from 400 on.                        *)
ExternalAnswers(r) ==
    /\ Goto(r, "external", "end")
    /\ \E error \in BOOLEAN : EndGwSpan(r, "get", error)
    /\ answer' = [answer EXCEPT ![r] = 200]
    /\ UNCHANGED <<processVars, rpc, open, left, flag, beFlag, beSpans>>

(* (Mutant of ExternalFails: the call does not have the request's context.) *)
ExternalFailsDetached(r) ==
    /\ Goto(r, "external", "failed") /\ r \notin left
    /\ EndGwSpan(r, "get", TRUE)
    /\ UNCHANGED <<processVars, rpc, open, left, flag, beFlag, answer, beSpans>>

(* No answer: the connection fails, or the client has left.  The HTTP      *)
(* client has no timeout, so that neither this nor an answer has to come.  *)
ExternalFails(r) ==
    /\ Goto(r, "external", "failed")
    /\ EndGwSpan(r, "get", TRUE)
    /\ UNCHANGED <<processVars, rpc, open, left, flag, beFlag, answer, beSpans>>

EndRequest(r) ==
    /\ Goto(r, "end", "done")
    /\ EndGwSpan(r, "server", answer[r] = 500)
    /\ UNCHANGED <<processVars, rpc, open, left, flag, beFlag, answer, beSpans>>

-----------------------------------------------------------------------------
(* SayHello, at the backend *)

BackendGoto(r, here, there) ==
    backend = "serving" /\ rpc[r] = here /\ rpc' = [rpc EXCEPT ![r] = there]

(* The call comes in, with the gateway's sampling decision in its metadata;*)
(* the serve span is started.                                              *)
TakeCall(r) ==
    /\ BackendGoto(r, "sent", "taken")
    /\ open' = open \cup {r}
    /\ \E sampled \in SamplerAnswers(program.sampler,
                                     IF r \in flag THEN "sampled" ELSE "unsampled") :
         beFlag' = IF sampled THEN beFlag \cup {r} ELSE beFlag
    /\ UNCHANGED <<processVars, at, left, flag, answer, gwVars, beSpans>>

(* A backend that fails on purpose does so before its operation; the       *)
(* backends that do so have a StatsHandler.                                *)
SayHelloFails(r) ==
    /\ program.backendFails
    /\ BackendGoto(r, "taken", "failed")
    /\ UNCHANGED <<processVars, at, open, left, flag, beFlag, answer, gwVars, beSpans>>

BackendOperation(r) ==
    /\ BackendGoto(r, "taken", "operated")
    /\ EndBeSpan(r, "operation", FALSE)
    /\ UNCHANGED <<processVars, at, open, left, flag, beFlag, answer, gwVars>>

(* An interceptor has ended the serve span when the reply is written.  A   *)
(* StatsHandler ends it later, and hears of a reply that could not be      *)
(* written because the gateway is gone.                                    *)
Reply(r) ==
    /\ \E there \in IF program.stats /\ gateway = "down" THEN {"replied", "undelivered"}
                                                         ELSE {"replied"} :
         BackendGoto(r, "operated", there)
    /\ IF program.stats THEN UNCHANGED <<open, beSpans>>
                        ELSE open' = open \ {r} /\ EndBeSpan(r, "serve", FALSE)
    /\ UNCHANGED <<processVars, at, left, flag, beFlag, answer, gwVars>>

(* stats.End, after the reply or the error was written. *)
ServeEnds(r) ==
    /\ backend = "serving" /\ program.stats
    /\ r \in open /\ rpc[r] \in {"replied", "undelivered", "failed"}
    /\ open' = open \ {r}
    /\ EndBeSpan(r, "serve", rpc[r] # "replied")
    /\ UNCHANGED <<processVars, at, rpc, left, flag, beFlag, answer, gwVars>>

Hello(r) ==
    \/ CallReturns(r)
    \/ CallFails(r)
    \/ CallError(r)
    \/ Operation(r)
    \/ ExternalAnswers(r)
    \/ ExternalFails(r)
    \/ EndRequest(r)

SayHello(r) ==
    \/ TakeCall(r)
    \/ SayHelloFails(r)
    \/ BackendOperation(r)
    \/ Reply(r)
    \/ ServeEnds(r)

Next ==
    \/ StartGateway
    \/ StartBackend
    \/ StartFails
    \/ StopBackend
    \/ SignalGateway
    \/ ListenFails
    \/ FlushGateway
    \/ ShutdownGateway
    \/ ExitGateway
    \/ Export
    \/ \E r \in Requests : Arrive(r) \/ ClientLeaves(r) \/ Hello(r) \/ SayHello(r)

Spec == Init /\ [][Next]_vars

(* Go runs the handlers of both processes: sleeps end, a call whose        *)
(* context is cancelled comes back, and so does one whose backend is not   *)
(* there.  httpbin does not have to answer, nobody has to leave, and no    *)
(* process has to start or to end.  Each of these steps is taken at most   *)
(* once per request, so that fairness to all of them is fairness to each.  *)
GoRuns ==
    \E r \in Requests :
        \/ CallReturns(r)
        \/ CallFails(r)
        \/ CallError(r)
        \/ Operation(r)
        \/ r \in left /\ ExternalFails(r)
        \/ EndRequest(r)
        \/ SayHello(r)

FairSpec == Spec /\ WF_vars(GoRuns)

-----------------------------------------------------------------------------
(* Properties *)

GwNames == {"server", "call", "op1", "get"}
BeNames == {"serve", "operation"}

(* The type of every variable; the spans of the two processes are disjoint *)
(* and each process has at most one span of a name and request.            *)
TypeOK ==
    /\ program \in {Programs[n] : n \in ProgramNames} /\ reliable \in BOOLEAN
    /\ gateway \in {"off", "serving", "returned", "flushed", "stopped", "down"}
    /\ exit \in {"none", "signal", "returned", "fatal"} /\ finished \subseteq Requests
    /\ backend \in {"off", "serving", "down"}
    /\ at \in [Requests -> {"none", "calling", "failed", "operation", "external", "end", "done"}]
    /\ rpc \in [Requests -> {"none", "sent", "taken", "operated", "replied", "undelivered", "failed"}]
    /\ open \subseteq Requests /\ left \subseteq Requests
    /\ flag \subseteq Requests /\ beFlag \subseteq Requests
    /\ answer \in [Requests -> {0, 200, 500}]
    /\ GwSpans!Ended \subseteq [req : Requests, name : GwNames, error : BOOLEAN]
    /\ beSpans \subseteq [req : Requests, name : BeNames, error : BOOLEAN]
    /\ \A s, t \in GwSpans!Ended \cup beSpans :
         s.req = t.req /\ s.name = t.name => s.error = t.error
    /\ gp \in {"none", "up", "stopped"}

SpansOf(r) == {<<s.name, s.error>> : s \in {s \in GwSpans!Ended \cup beSpans : s.req = r}}

(* README.md of sampling, line 38: what the gateway decides to sample, the *)
(* backend samples as well, and nothing else; so a call that was replied   *)
(* to has both spans of the backend, once a StatsHandler has ended its     *)
(* own.  With AlwaysSample in both the same holds.                         *)
SampledTogether ==
    /\ \A s \in beSpans : s.req \in flag
    /\ \A r \in flag :
         rpc[r] = "replied" /\ r \notin open => {<<n, FALSE>> : n \in BeNames} \subseteq SpansOf(r)

(* The tree of README.md: a sampled request that was answered has left     *)
(* exactly the spans of its path, error status included: a get that was    *)
(* answered may be in error while its request is not, and the serve span   *)
(* of a StatsHandler may be open still.  A failed call leaves no op1,      *)
(* while the backend may still work for a client that left.                *)
TraceTree ==
    \A r \in Requests : at[r] = "done" =>
        LET spans == SpansOf(r) IN
        /\ r \notin flag => spans = {}
        /\ r \in flag /\ answer[r] = 200 =>
             \E get \in IF program.external THEN {{<<"get", TRUE>>}, {<<"get", FALSE>>}} ELSE {{}} :
               spans = {<<n, FALSE>> : n \in {"server", "call", "op1", "operation"}} \cup get
                       \cup (IF program.stats /\ r \in open THEN {} ELSE {<<"serve", FALSE>>})
        /\ r \in flag /\ answer[r] = 500 =>
             /\ {s \in spans : s[1] \in GwNames} = {<<"server", TRUE>>, <<"call", TRUE>>}
             /\ {<<"serve", TRUE>>, <<"operation", FALSE>>} \subseteq spans => gateway = "down"

(* When a gateway returns from main, requests that were through when the   *)
(* provider was shut down, those that ended between ForceFlush and         *)
(* Shutdown included, have all their spans of the gateway at the           *)
(* collector, as long as it takes what it is sent.                         *)
CleanupKeepsFinished ==
    exit = "returned" /\ reliable =>
        \A s \in GwSpans!Ended : s.req \in finished => s \in gwOut

(* No call has a deadline of its own, and still a request comes to its end *)
(* or the process does: a backend that is gone, or was never there, is     *)
(* noticed, and a client that leaves releases its handler from both calls. *)
(* All that may hold a request for ever is httpbin, while its client waits.*)
RequestsEnd ==
    \A r \in Requests :
        at[r] = "calling" \/ r \in left ~>
            at[r] = "done" \/ gateway = "down" \/ (at[r] = "external" /\ r \notin left)

(* README.md of microservice, line 30: every request is traced.  One whose *)
(* call fails takes the spans of the others with it.                       *)
EveryRequestTraced ==
    exit = "fatal" => \A r \in Requests : at[r] \notin {"none", "failed"} =>
        \E s \in gwOut : s.req = r /\ s.name = "server"
=============================================================================
