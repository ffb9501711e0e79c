--------------------------- MODULE Gateway_proof ---------------------------
(***************************************************************************)
(* Theorems about Gateway, for every set of requests, every choice of      *)
(* programs and every number of clients that leave.                        *)
(***************************************************************************)
EXTENDS Gateway, TLAPS

Serve(r)   == Span(r, "serve", FALSE)
Operate(r) == Span(r, "operation", FALSE)

RpcPlaces == {"none", "sent", "taken", "operated", "replied", "undelivered", "failed"}

(* The backend's decisions follow the gateway's from the moment it takes a *)
(* call, its spans follow its decisions, and a call that was answered has  *)
(* left both, once the serve span is no longer open, which it stays after  *)
(* the reply only under a StatsHandler.  Under AlwaysSample the gateway    *)
(* has recorded every call.                                                *)
SamplingInv ==
    /\ rpc \in [Requests -> RpcPlaces] /\ open \subseteq Requests
    /\ beFlag \subseteq flag /\ flag \subseteq Requests
    /\ \A s \in beSpans : s.req \in beFlag
    /\ \A r \in Requests :
         /\ program.sampler = "always" /\ rpc[r] # "none" => r \in flag
         /\ rpc[r] \in {"taken", "operated", "replied"} /\ r \in flag => r \in beFlag
         /\ rpc[r] \in {"taken", "operated"} => r \in open
         /\ rpc[r] \in {"operated", "replied"} /\ r \in beFlag => Operate(r) \in beSpans
         /\ rpc[r] = "replied" /\ r \in beFlag => Serve(r) \in beSpans \/ r \in open
         /\ rpc[r] = "replied" /\ r \in open => program.stats

-----------------------------------------------------------------------------
(* Steps of a handler *)

(* Every step of a handler but CallError ends a span. *)
LEMMA HandlerEndsSpan ==
    ASSUME NEW r, CallReturns(r) \/ CallFails(r) \/ Operation(r) \/ ExternalAnswers(r)
                    \/ ExternalFails(r) \/ EndRequest(r)
    PROVE  \E name, error : EndGwSpan(r, name, error)
<1>1. CASE CallReturns(r)
  BY <1>1 DEF CallReturns
<1>2. CASE CallFails(r)
  BY <1>2 DEF CallFails
<1>3. CASE Operation(r)
  BY <1>3 DEF Operation
<1>4. CASE ExternalAnswers(r)
  BY <1>4 DEF ExternalAnswers
<1>5. CASE ExternalFails(r)
  BY <1>5 DEF ExternalFails
<1>6. CASE EndRequest(r)
  BY <1>6 DEF EndRequest
<1> QED
  BY <1>1, <1>2, <1>3, <1>4, <1>5, <1>6

-----------------------------------------------------------------------------
(* Sampling *)

LEMMA ServeSpan ==
    ASSUME NEW r
    PROVE  Span(r, "serve", rpc[r] # "replied") =
             IF rpc[r] = "replied" THEN Serve(r) ELSE Span(r, "serve", TRUE)
<1>1. CASE rpc[r] = "replied"
  <2>1. (rpc[r] # "replied") = FALSE
    BY <1>1
  <2> QED
    BY <1>1, <2>1, Zenon DEF Serve
<1>2. CASE rpc[r] # "replied"
  <2>1. (rpc[r] # "replied") = TRUE
    BY <1>2
  <2> QED
    BY <1>2, <2>1, Zenon
<1> QED
  BY <1>1, <1>2

LEMMA SamplingInit == Init => SamplingInv
BY DEF Init, SamplingInv, RpcPlaces

LEMMA SamplingFrame ==
    ASSUME SamplingInv, UNCHANGED <<program, rpc, open, flag, beFlag, beSpans>>
    PROVE  SamplingInv'
BY DEF SamplingInv, Operate, Serve, Span

(* The request is new to the backend, and recorded as the sampler says. *)
LEMMA SamplingArrive ==
    ASSUME SamplingInv, NEW r \in Requests, Arrive(r)
    PROVE  SamplingInv'
<1>1. /\ rpc' = [rpc EXCEPT ![r] = "sent"]
      /\ UNCHANGED <<program, open, beFlag, beSpans>>
  BY DEF Arrive, processVars
<1>2. flag' \in {flag, flag \cup {r}} /\ (program.sampler = "always" => flag' = flag \cup {r})
  BY DEF Arrive, SamplerAnswers
<1> QED
  BY <1>1, <1>2 DEF SamplingInv, RpcPlaces, Operate, Serve, Span

(* The backend follows the decision in the metadata of the call. *)
LEMMA SamplingTakeCall ==
    ASSUME SamplingInv, NEW r \in Requests, TakeCall(r)
    PROVE  SamplingInv'
<1>1. /\ rpc[r] = "sent" /\ rpc' = [rpc EXCEPT ![r] = "taken"]
      /\ UNCHANGED <<program, flag, beSpans>> /\ open' = open \cup {r}
  BY DEF TakeCall, BackendGoto, processVars
<1>2. PICK sampled \in SamplerAnswers(program.sampler,
                                      IF r \in flag THEN "sampled" ELSE "unsampled") :
          beFlag' = IF sampled THEN beFlag \cup {r} ELSE beFlag
  BY DEF TakeCall
<1>3. r \in flag <=> sampled = TRUE
  <2>1. program.sampler = "always" => r \in flag
    BY <1>1 DEF SamplingInv
  <2> QED
    BY <1>2, <2>1 DEF SamplerAnswers
<1>4. beFlag' = IF r \in flag THEN beFlag \cup {r} ELSE beFlag
  <2>1. sampled \in BOOLEAN
    BY <1>2 DEF SamplerAnswers
  <2> QED
    BY <1>2, <1>3, <2>1
<1> QED
  BY <1>1, <1>4 DEF SamplingInv, RpcPlaces, Operate, Serve, Span

(* The operation and the serve span each end once; what was ended stays. *)
LEMMA SamplingSayHello ==
    ASSUME SamplingInv, NEW r \in Requests,
           SayHelloFails(r) \/ BackendOperation(r) \/ Reply(r) \/ ServeEnds(r)
    PROVE  SamplingInv'
<1>1. UNCHANGED <<program, flag, beFlag>>
  BY DEF SayHelloFails, BackendOperation, Reply, ServeEnds, processVars
<1>2. CASE SayHelloFails(r)
  <2>1. rpc' = [rpc EXCEPT ![r] = "failed"] /\ rpc[r] = "taken" /\ UNCHANGED <<open, beSpans>>
    BY <1>2 DEF SayHelloFails, BackendGoto
  <2> QED
    BY <1>1, <2>1 DEF SamplingInv, RpcPlaces, Operate, Serve, Span
<1>3. CASE BackendOperation(r)
  <2>1. rpc' = [rpc EXCEPT ![r] = "operated"] /\ rpc[r] = "taken" /\ open' = open
    BY <1>3 DEF BackendOperation, BackendGoto
  <2>2. beSpans' = IF r \in beFlag THEN beSpans \cup {Operate(r)} ELSE beSpans
    BY <1>3 DEF BackendOperation, EndBeSpan, Operate
  <2> QED
    BY <1>1, <2>1, <2>2 DEF SamplingInv, RpcPlaces, Operate, Serve, Span
<1>4. CASE Reply(r)
  <2>1. PICK there \in {"replied", "undelivered"} :
            rpc' = [rpc EXCEPT ![r] = there] /\ rpc[r] = "operated"
    BY <1>4 DEF Reply, BackendGoto
  <2>2. CASE program.stats
    <3>1. UNCHANGED <<open, beSpans>>
      BY <1>4, <2>2 DEF Reply
    <3> QED
      BY <1>1, <2>1, <2>2, <3>1 DEF SamplingInv, RpcPlaces, Operate, Serve, Span
  <2>3. CASE ~program.stats
    <3>1. open' = open \ {r} /\ beSpans' = IF r \in beFlag THEN beSpans \cup {Serve(r)} ELSE beSpans
      BY <1>4, <2>3 DEF Reply, EndBeSpan, Serve
    <3> QED
      BY <1>1, <2>1, <3>1 DEF SamplingInv, RpcPlaces, Operate, Serve, Span
  <2> QED
    BY <2>2, <2>3
<1>5. CASE ServeEnds(r)
  <2>1. rpc' = rpc /\ rpc[r] \in {"replied", "undelivered", "failed"} /\ open' = open \ {r}
    BY <1>5 DEF ServeEnds
  <2>2. beSpans' = IF r \in beFlag THEN beSpans \cup {Span(r, "serve", rpc[r] # "replied")}
                                   ELSE beSpans
    BY <1>5 DEF ServeEnds, EndBeSpan
  <2>3. Span(r, "serve", rpc[r] # "replied").req = r
    BY DEF Span
  <2>4. rpc[r] = "replied" => Span(r, "serve", rpc[r] # "replied") = Serve(r)
    BY ServeSpan
  <2>5. \A s \in beSpans' : s.req \in beFlag
    BY <2>2, <2>3 DEF SamplingInv
  <2>6. beSpans \subseteq beSpans' /\ (rpc[r] = "replied" /\ r \in beFlag => Serve(r) \in beSpans')
    BY <2>2, <2>4
  <2> QED
    BY <1>1, <2>1, <2>5, <2>6 DEF SamplingInv, Operate, Serve, Span
<1> QED
  BY <1>2, <1>3, <1>4, <1>5

(* A call that fails for want of a backend is forgotten there. *)
LEMMA SamplingCallFails ==
    ASSUME SamplingInv, NEW r \in Requests, CallFails(r)
    PROVE  SamplingInv'
<1>1. /\ rpc' \in {rpc, [rpc EXCEPT ![r] = "none"]}
      /\ UNCHANGED <<program, open, flag, beFlag, beSpans>>
  BY DEF CallFails, processVars
<1> QED
  BY <1>1 DEF SamplingInv, RpcPlaces, Operate, Serve, Span

LEMMA SamplingNext == SamplingInv /\ [Next]_vars => SamplingInv'
<1> SUFFICES ASSUME SamplingInv, [Next]_vars PROVE SamplingInv'
  OBVIOUS
<1>1. CASE \/ StartGateway \/ StartBackend \/ StartFails \/ StopBackend \/ SignalGateway
           \/ ListenFails \/ FlushGateway \/ ShutdownGateway \/ ExitGateway \/ Export
           \/ UNCHANGED vars
  <2>1. UNCHANGED <<program, requestVars, beSpans>>
    BY <1>1 DEF StartGateway, StartBackend, StartFails, StopBackend, SignalGateway,
                ListenFails, FlushGateway, ShutdownGateway, ExitGateway, Export, Die, vars, processVars
  <2> QED
    BY <2>1, SamplingFrame DEF requestVars
<1>2. ASSUME NEW r \in Requests,
             ClientLeaves(r) \/ CallReturns(r) \/ CallError(r) \/ Operation(r)
               \/ ExternalAnswers(r) \/ ExternalFails(r) \/ EndRequest(r)
      PROVE  SamplingInv'
  <2>1. UNCHANGED <<program, rpc, open, flag, beFlag, beSpans>>
    BY <1>2 DEF ClientLeaves, CallReturns, CallError, Operation, ExternalAnswers, ExternalFails,
                EndRequest, Die, processVars
  <2> QED
    BY <2>1, SamplingFrame
<1> QED
  BY <1>1, <1>2, SamplingArrive, SamplingTakeCall, SamplingSayHello, SamplingCallFails
  DEF Next, Hello, SayHello

(* Both processes record a trace or neither does, whatever the ratio of    *)
(* the backend, the caller of the gateway and the order of things: the     *)
(* spans of the backend are those of recorded requests, all of them.       *)
THEOREM SamplingSafe == Spec => []SampledTogether
<1>1. SamplingInv => SampledTogether
  <2> SUFFICES ASSUME SamplingInv PROVE SampledTogether
    OBVIOUS
  <2>1. \A s \in beSpans : s.req \in flag
    BY DEF SamplingInv
  <2>2. ASSUME NEW r \in flag, rpc[r] = "replied", r \notin open
        PROVE  {<<n, FALSE>> : n \in BeNames} \subseteq SpansOf(r)
    <3>1. {Serve(r), Operate(r)} \subseteq beSpans
      BY <2>2 DEF SamplingInv
    <3>2. /\ Serve(r).req = r /\ Serve(r).name = "serve" /\ Serve(r).error = FALSE
          /\ Operate(r).req = r /\ Operate(r).name = "operation" /\ Operate(r).error = FALSE
      BY DEF Serve, Operate, Span
    <3>3. <<"serve", FALSE>> \in SpansOf(r) /\ <<"operation", FALSE>> \in SpansOf(r)
      BY <3>1, <3>2 DEF SpansOf
    <3> QED
      BY <3>3 DEF BeNames
  <2> QED
    BY <2>1, <2>2 DEF SampledTogether
<1> QED
  BY <1>1, SamplingInit, SamplingNext, PTL DEF Spec

-----------------------------------------------------------------------------
(* Types and trees *)

Ok(r, name)  == Span(r, name, FALSE)
Bad(r, name) == Span(r, name, TRUE)

GwOf(r) == {s \in GwSpans!Ended : s.req = r}
BeOf(r) == {s \in beSpans : s.req = r}

(* What a request whose call came back has left at the end of hello: an    *)
(* answer of httpbin may have marked its span.                             *)
AnsweredTrees(r) ==
    IF program.external
      THEN {{Ok(r, "call"), Ok(r, "op1"), Ok(r, "get")}, {Ok(r, "call"), Ok(r, "op1"), Bad(r, "get")}}
      ELSE {{Ok(r, "call"), Ok(r, "op1")}}

FinishedTrees(r) == IF answer[r] = 500 THEN {{Bad(r, "call")}} ELSE AnsweredTrees(r)

(* The trees a recorded request may have at the gateway, by the place of   *)
(* its handler, and at the backend, by the place of SayHello.  A call that *)
(* failed for want of a backend left there what it had come to.            *)
GwTrees(r) ==
    CASE at[r] \in {"none", "calling"} -> {{}}
      [] at[r] = "operation" -> {{Ok(r, "call")}}
      [] at[r] = "external" -> {{Ok(r, "call"), Ok(r, "op1")}}
      [] at[r] = "failed" -> {{Bad(r, "call")}} \cup
           (IF program.external THEN {{Ok(r, "call"), Ok(r, "op1"), Bad(r, "get")}} ELSE {})
      [] at[r] = "end" -> FinishedTrees(r)
      [] at[r] = "done" -> {t \cup {Span(r, "server", answer[r] = 500)} : t \in FinishedTrees(r)}

(* Without a gateway a reply may have failed to be written. *)
Unwritten(r) == IF gateway = "down" THEN {{Operate(r), Bad(r, "serve")}} ELSE {}

BeTrees(r) ==
    CASE rpc[r] = "none" ->
           {{}, {Operate(r)}, {Operate(r), Serve(r)}, {Bad(r, "serve")}} \cup Unwritten(r)
      [] rpc[r] \in {"sent", "taken"} -> {{}}
      [] rpc[r] = "operated" -> {{Operate(r)}}
      [] rpc[r] = "replied" ->
           IF r \in open THEN {{Operate(r)}} ELSE {{Operate(r), Serve(r)}}
      [] rpc[r] = "undelivered" ->
           IF r \in open THEN {{Operate(r)}} ELSE Unwritten(r)
      [] rpc[r] = "failed" -> IF r \in open THEN {{}} ELSE {{Bad(r, "serve")}}

ControlInv ==
    /\ program \in {Programs[n] : n \in ProgramNames} /\ reliable \in BOOLEAN
    /\ gateway \in {"off", "serving", "returned", "flushed", "stopped", "down"}
    /\ exit \in {"none", "signal", "returned", "fatal"} /\ finished \subseteq Requests
    /\ backend \in {"off", "serving", "down"}
    /\ at \in [Requests -> {"none", "calling", "failed", "operation", "external", "end", "done"}]
    /\ left \subseteq Requests
    /\ answer \in [Requests -> {0, 200, 500}]
    /\ gp \in {"none", "up", "stopped"}

(* An answer comes with the end of hello; only a call that was replied to  *)
(* lets a handler go on.                                                   *)
HelloInv ==
    \A r \in Requests :
        /\ at[r] \notin {"end", "done"} => answer[r] = 0
        /\ at[r] \in {"end", "done"} => answer[r] \in {200, 500}
        /\ at[r] = "none" => rpc[r] = "none" /\ r \notin flag
        /\ at[r] \in {"operation", "external"} \/ answer[r] = 200 => rpc[r] = "replied"
        /\ at[r] = "external" => program.external
        /\ rpc[r] = "undelivered" => gateway = "down"

GwTreeInv ==
    /\ \A s \in GwSpans!Ended : s.req \in flag
    /\ \A r \in flag : GwOf(r) \in GwTrees(r)

BeTreeInv == \A r \in beFlag : BeOf(r) \in BeTrees(r)

TreeInv == ControlInv /\ HelloInv /\ GwTreeInv /\ BeTreeInv /\ SamplingInv

(* Whatever happens to the gateway's process, its ended spans are where    *)
(* they were, or one is added.                                             *)
LEMMA GatewaySpansMove ==
    ASSUME \/ UNCHANGED gwVars
           \/ GwSpans!InstallProvider
           \/ GwSpans!ExportBatch
           \/ GwSpans!Shutdown
           \/ GwSpans!Kill
    PROVE  GwSpans!Ended' = GwSpans!Ended
BY DEF gwVars, GwSpans!Ended, GwSpans!InstallProvider, GwSpans!ExportBatch, GwSpans!Shutdown,
       GwSpans!Drain, GwSpans!GiveUp, GwSpans!Kill

LEMMA GatewayTreeGrows ==
    ASSUME NEW r, NEW name, NEW error, EndGwSpan(r, name, error)
    PROVE  /\ GwSpans!Ended' = IF r \in flag THEN GwSpans!Ended \cup {Span(r, name, error)}
                                             ELSE GwSpans!Ended
           /\ r \in flag => GwOf(r)' = GwOf(r) \cup {Span(r, name, error)}
           /\ \A q : q # r => GwOf(q)' = GwOf(q)
<1>1. GwSpans!Ended' = IF r \in flag THEN GwSpans!Ended \cup {Span(r, name, error)}
                                     ELSE GwSpans!Ended
  BY DEF EndGwSpan, gwVars, GwSpans!Ended, GwSpans!EndSpan
<1>2. Span(r, name, error).req = r
  BY DEF Span
<1> QED
  BY <1>1, <1>2 DEF GwOf

LEMMA BackendTreeGrows ==
    ASSUME NEW r, NEW name, NEW error, EndBeSpan(r, name, error)
    PROVE  /\ r \in beFlag => BeOf(r)' = BeOf(r) \cup {Span(r, name, error)}
           /\ \A q : q # r => BeOf(q)' = BeOf(q)
<1>1. Span(r, name, error).req = r
  BY DEF Span
<1> QED
  BY <1>1 DEF BeOf, EndBeSpan

LEMMA ControlNext == ControlInv /\ [Next]_vars => ControlInv'
<1> SUFFICES ASSUME ControlInv, [Next]_vars PROVE ControlInv'
  OBVIOUS
<1> USE DEF ControlInv
<1>1. CASE UNCHANGED vars
  BY <1>1 DEF vars, processVars, requestVars, gwVars
<1>2. CASE StartGateway \/ StartBackend \/ StartFails \/ StopBackend
  BY <1>2 DEF StartGateway, StartBackend, StartFails, StopBackend, requestVars, gwVars,
     GwSpans!InstallProvider
<1>3. ASSUME NEW why \in {"signal", "fatal"}, Die(why), UNCHANGED <<at, left, answer>>
      PROVE  ControlInv'
  BY <1>3 DEF Die, GwSpans!Kill
<1>4. CASE SignalGateway \/ ListenFails
  BY <1>3, <1>4 DEF SignalGateway, ListenFails, requestVars, gwVars
<1>5. CASE FlushGateway \/ ShutdownGateway \/ ExitGateway \/ Export
  BY <1>5 DEF FlushGateway, ShutdownGateway, ExitGateway, Export, processVars, requestVars, gwVars,
     GwSpans!ExportBatch, GwSpans!Shutdown, GwSpans!Drain, GwSpans!GiveUp
<1>6. ASSUME NEW r \in Requests, Arrive(r) \/ ClientLeaves(r)
      PROVE  ControlInv'
  BY <1>6 DEF Arrive, ClientLeaves, Goto, processVars, gwVars
<1>7. ASSUME NEW r, NEW name, NEW error, EndGwSpan(r, name, error)
      PROVE  gp' = gp
  BY <1>7 DEF EndGwSpan, GwSpans!EndSpan, gwVars
<1>8. ASSUME NEW r \in Requests,
             CallReturns(r) \/ CallFails(r) \/ Operation(r) \/ ExternalAnswers(r)
               \/ ExternalFails(r) \/ EndRequest(r)
      PROVE  ControlInv'
  <2>1. gp' = gp
    BY <1>7, <1>8, HandlerEndsSpan
  <2>2. UNCHANGED <<processVars, left>>
    BY <1>8 DEF CallReturns, CallFails, Operation, ExternalAnswers, ExternalFails, EndRequest
  <2>3. \E place \in {"operation", "failed", "external", "end", "done"} :
           at' = [at EXCEPT ![r] = place]
    BY <1>8 DEF CallReturns, CallFails, Operation, ExternalAnswers, ExternalFails, EndRequest, Goto
  <2>4. answer' = answer \/ answer' = [answer EXCEPT ![r] = 200]
    BY <1>8 DEF CallReturns, CallFails, Operation, ExternalAnswers, ExternalFails, EndRequest
  <2> QED
    BY <2>1, <2>2, <2>3, <2>4 DEF processVars
<1>9. ASSUME NEW r \in Requests, CallError(r)
      PROVE  ControlInv'
  <2>1. CASE program.onCallError = "fatal"
    <3>1. at[r] = "failed" /\ at' = [at EXCEPT ![r] = "failed"]
      BY <1>9, <2>1 DEF CallError, Goto
    <3>2. at' = at
      BY <3>1
    <3>3. Die("fatal") /\ UNCHANGED <<left, answer>>
      BY <1>9, <2>1 DEF CallError
    <3> QED
      BY <1>3, <3>2, <3>3
  <2>2. CASE program.onCallError # "fatal"
    BY <1>9, <2>2 DEF CallError, Goto, processVars, gwVars
  <2> QED
    BY <2>1, <2>2
<1>10. ASSUME NEW r \in Requests, SayHello(r)
       PROVE  ControlInv'
  <2>1. UNCHANGED <<processVars, at, left, answer, gwVars>>
    BY <1>10 DEF SayHello, TakeCall, SayHelloFails, BackendOperation, Reply, ServeEnds
  <2> QED
    BY <2>1 DEF processVars, gwVars
<1> QED
  BY <1>1, <1>2, <1>4, <1>5, <1>6, <1>8, <1>9, <1>10 DEF Next, Hello

(* Only a program that dies of a failed call asks httpbin too. *)
LEMMA ProgramFacts ==
    ASSUME ControlInv
    PROVE  /\ program.external \in BOOLEAN
           /\ program.external => program.onCallError = "fatal"
<1>1. PICK n \in {"microservice", "sampling", "collector", "envoy", "tailSampling", "refinery"} :
          program = Programs[n]
  BY ProgramsAssumption DEF ControlInv, Programs
<1>2. program \in {Microservice, Sampling, Collector, Envoy, TailSampling}
  BY <1>1 DEF Programs, Refinery
<1>3. /\ Microservice.external = TRUE /\ Microservice.onCallError = "fatal"
      /\ \A p \in {Sampling, Collector, Envoy, TailSampling} : p.external = FALSE
  BY DEF Microservice, Sampling, Collector, Envoy, TailSampling
<1> QED
  BY <1>2, <1>3

(* A process that starts, exports or ends leaves the requests alone. *)
ProcessStep ==
    \/ StartGateway \/ StartBackend \/ StartFails \/ StopBackend \/ SignalGateway
    \/ ListenFails \/ FlushGateway \/ ShutdownGateway \/ ExitGateway \/ Export \/ UNCHANGED vars

(* A gateway that is down stays down. *)
Forward == gateway = "down" => gateway' = "down"

LEMMA ProcessStepFrame ==
    ASSUME ProcessStep
    PROVE  /\ UNCHANGED <<program, requestVars, beSpans>> /\ Forward
           /\ GwSpans!Ended' = GwSpans!Ended
<1> USE DEF ProcessStep
<1>1. UNCHANGED <<program, requestVars, beSpans>>
  BY DEF StartGateway, StartBackend, StartFails, StopBackend, SignalGateway,
     ListenFails, FlushGateway, ShutdownGateway, ExitGateway, Export, Die, vars, processVars
<1>2. Forward
  BY DEF Forward, StartGateway, StartBackend, StartFails, StopBackend, SignalGateway,
     ListenFails, FlushGateway, ShutdownGateway, ExitGateway, Export, Die, vars, processVars
<1>3. \/ UNCHANGED gwVars \/ GwSpans!InstallProvider \/ GwSpans!ExportBatch
      \/ GwSpans!Shutdown \/ GwSpans!Kill
  BY DEF StartGateway, StartBackend, StartFails, StopBackend, SignalGateway,
     ListenFails, FlushGateway, ShutdownGateway, ExitGateway, Export, Die, vars
<1> QED
  BY <1>1, <1>2, <1>3, GatewaySpansMove

(* The steps of a handler, without its spans. *)
LEMMA HelloMoves ==
    ASSUME ControlInv, NEW r \in Requests, Hello(r)
    PROVE  /\ UNCHANGED <<program, open, left, flag, beFlag, beSpans>> /\ Forward
           /\ CallFails(r) \/ rpc' = rpc
           /\ \A q \in Requests \ {r} : at'[q] = at[q] /\ answer'[q] = answer[q]
<1> USE DEF Hello
<1>1. UNCHANGED <<program, open, left, flag, beFlag, beSpans>> /\ Forward
  <2>1. CASE CallError(r)
    BY <2>1 DEF CallError, Die, processVars, Forward
  <2> QED
    BY <2>1 DEF CallReturns, CallFails, Operation, ExternalAnswers, ExternalFails, EndRequest,
                processVars, Forward
<1>2. CallFails(r) \/ rpc' = rpc
  BY DEF CallReturns, CallFails, CallError, Operation, ExternalAnswers, ExternalFails, EndRequest
<1>3. \E place : at' = [at EXCEPT ![r] = place]
  <2>1. CASE CallError(r)
    BY <2>1 DEF CallError, Goto
  <2>2. CASE ExternalAnswers(r)
    BY <2>2 DEF ExternalAnswers, Goto
  <2>3. CASE ExternalFails(r)
    BY <2>3 DEF ExternalFails, Goto
  <2>4. CASE Operation(r)
    BY <2>4 DEF Operation, Goto
  <2>5. CASE CallReturns(r)
    BY <2>5 DEF CallReturns, Goto
  <2>6. CASE CallFails(r)
    BY <2>6 DEF CallFails, Goto
  <2>7. CASE EndRequest(r)
    <3>1. at[r] = "end" /\ at' = [at EXCEPT ![r] = "done"]
      BY <2>7 DEF EndRequest, Goto
    <3> QED
      BY <3>1
  <2> QED
    BY <2>1, <2>2, <2>3, <2>4, <2>5, <2>6, <2>7
<1>4. answer' = answer \/ \E status : answer' = [answer EXCEPT ![r] = status]
  BY DEF CallReturns, CallFails, CallError, Operation, ExternalAnswers, ExternalFails, EndRequest
<1> QED
  BY <1>1, <1>2, <1>3, <1>4 DEF ControlInv

LEMMA HelloInvStep ==
    ASSUME TreeInv, NEW r \in Requests, Hello(r)
    PROVE  HelloInv'
<1> USE DEF TreeInv
<1>1. rpc \in [Requests -> RpcPlaces]
  BY DEF SamplingInv
<1>2. \A q \in Requests \ {r} : at'[q] = at[q] /\ answer'[q] = answer[q]
  BY HelloMoves
<1>3. UNCHANGED <<program, flag>> /\ (gateway = "down" => gateway' = "down")
  BY HelloMoves DEF Forward
<1>4. \A q \in Requests : rpc'[q] = "undelivered" => gateway' = "down"
  <2>1. rpc' = rpc \/ rpc' = [rpc EXCEPT ![r] = "none"]
    BY HelloMoves DEF CallFails
  <2> QED
    BY <1>1, <1>3, <2>1 DEF HelloInv
<1>5. ASSUME NEW q \in Requests \ {r}
      PROVE  /\ at'[q] \notin {"end", "done"} => answer'[q] = 0
             /\ at'[q] \in {"end", "done"} => answer'[q] \in {200, 500}
             /\ at'[q] = "none" => rpc'[q] = "none" /\ q \notin flag'
             /\ at'[q] \in {"operation", "external"} \/ answer'[q] = 200 => rpc'[q] = "replied"
             /\ at'[q] = "external" => program'.external
  <2>1. rpc'[q] = rpc[q]
    BY <1>1, HelloMoves DEF CallFails
  <2> QED
    BY <1>2, <1>3, <2>1 DEF HelloInv
<1>6. /\ at'[r] \notin {"end", "done"} => answer'[r] = 0
      /\ at'[r] \in {"end", "done"} => answer'[r] \in {200, 500}
      /\ at'[r] = "none" => rpc'[r] = "none" /\ r \notin flag'
      /\ at'[r] \in {"operation", "external"} \/ answer'[r] = 200 => rpc'[r] = "replied"
      /\ at'[r] = "external" => program'.external
  <2> USE <1>3 DEF HelloInv, Goto, ControlInv
  <2>1. CASE CallReturns(r)
    BY <2>1 DEF CallReturns
  <2>2. CASE CallFails(r)
    BY <2>2 DEF CallFails
  <2>3. CASE CallError(r)
    BY <2>3 DEF CallError
  <2>4. CASE Operation(r)
    BY <2>4 DEF Operation
  <2>5. CASE ExternalAnswers(r)
    BY <2>5 DEF ExternalAnswers
  <2>6. CASE ExternalFails(r)
    BY <2>6 DEF ExternalFails
  <2>7. CASE EndRequest(r)
    BY <2>7 DEF EndRequest
  <2> QED
    BY <2>1, <2>2, <2>3, <2>4, <2>5, <2>6, <2>7 DEF Hello
<1> QED
  BY <1>4, <1>5, <1>6 DEF HelloInv

LEMMA HelloInvNext == TreeInv /\ [Next]_vars => HelloInv'
<1> SUFFICES ASSUME TreeInv, [Next]_vars PROVE HelloInv'
  OBVIOUS
<1> USE DEF TreeInv
<1>1. /\ rpc \in [Requests -> RpcPlaces]
      /\ at \in [Requests -> {"none", "calling", "failed", "operation", "external", "end", "done"}]
  BY DEF SamplingInv, ControlInv
<1>2. CASE ProcessStep
  BY <1>2, ProcessStepFrame DEF HelloInv, requestVars, Forward
<1>3. ASSUME NEW r \in Requests, Arrive(r)
      PROVE  HelloInv'
  <2>1. flag' \in {flag, flag \cup {r}}
    BY <1>3 DEF Arrive
  <2>2. /\ at[r] = "none" /\ at' = [at EXCEPT ![r] = "calling"]
        /\ rpc' = [rpc EXCEPT ![r] = "sent"] /\ UNCHANGED <<program, answer, gateway>>
    BY <1>3 DEF Arrive, Goto, processVars
  <2> QED
    BY <1>1, <2>1, <2>2 DEF HelloInv
<1>4. ASSUME NEW r \in Requests, ClientLeaves(r)
      PROVE  HelloInv'
  BY <1>4 DEF ClientLeaves, HelloInv, processVars
<1>5. ASSUME NEW r \in Requests, SayHello(r)
      PROVE  HelloInv'
  <2>1. UNCHANGED <<program, gateway, at, flag, answer>>
    BY <1>5 DEF SayHello, TakeCall, SayHelloFails, BackendOperation, Reply, ServeEnds, processVars
  <2>2. \/ rpc[r] = "sent" /\ rpc' = [rpc EXCEPT ![r] = "taken"]
        \/ rpc[r] = "taken" /\ rpc' = [rpc EXCEPT ![r] = "failed"]
        \/ rpc[r] = "taken" /\ rpc' = [rpc EXCEPT ![r] = "operated"]
        \/ rpc[r] = "operated" /\ rpc' = [rpc EXCEPT ![r] = "replied"]
        \/ rpc[r] = "operated" /\ rpc' = [rpc EXCEPT ![r] = "undelivered"] /\ gateway = "down"
        \/ rpc' = rpc
    BY <1>5 DEF SayHello, TakeCall, SayHelloFails, BackendOperation, Reply, ServeEnds, BackendGoto
  <2> QED
    BY <1>1, <2>1, <2>2 DEF HelloInv
<1> QED
  BY <1>2, <1>3, <1>4, <1>5, HelloInvStep DEF Next, ProcessStep

LEMMA GwTreesFrame ==
    ASSUME NEW r, program' = program, at'[r] = at[r], answer'[r] = answer[r]
    PROVE  GwTrees(r)' = GwTrees(r)
BY DEF GwTrees, FinishedTrees, AnsweredTrees, Ok, Bad, Span

LEMMA BeTreesFrame ==
    ASSUME NEW r, rpc[r] \in RpcPlaces, rpc'[r] = rpc[r], r \in open' <=> r \in open, Forward
    PROVE  BeTrees(r) \subseteq BeTrees(r)'
<1> DEFINE serve == Serve(r)  operate == Operate(r)  bad == Bad(r, "serve")
<1>1. serve' = serve /\ operate' = operate /\ bad' = bad
  BY DEF Serve, Operate, Bad, Span
<1>2. Unwritten(r) \subseteq Unwritten(r)'
  BY <1>1 DEF Unwritten, Forward
<1>3. CASE rpc[r] \in {"none", "undelivered"}
  BY <1>1, <1>2, <1>3 DEF BeTrees
<1>4. CASE rpc[r] \in {"sent", "taken", "operated"}
  BY <1>1, <1>4 DEF BeTrees
<1>5. CASE rpc[r] \in {"replied", "failed"}
  BY <1>1, <1>5 DEF BeTrees
<1> QED
  BY <1>3, <1>4, <1>5 DEF RpcPlaces

(* Every step of a handler turns the tree of its place into the tree of    *)
(* the next.                                                               *)
LEMMA HelloTreeGrows ==
    ASSUME TreeInv, NEW r \in flag, Hello(r)
    PROVE  GwOf(r)' \in GwTrees(r)'
<1> USE DEF TreeInv
<1>1. r \in Requests /\ GwOf(r) \in GwTrees(r)
  BY DEF SamplingInv, GwTreeInv
<1>2. /\ at \in [Requests -> {"none", "calling", "failed", "operation", "external", "end", "done"}]
      /\ answer \in [Requests -> {0, 200, 500}]
  BY DEF ControlInv
<1>3. program' = program
  BY <1>1, HelloMoves
<1>4. CASE CallReturns(r)
  <2>1. at[r] = "calling" /\ at'[r] = "operation"
    BY <1>1, <1>2, <1>4 DEF CallReturns, Goto
  <2>2. GwOf(r) = {} /\ GwOf(r)' = GwOf(r) \cup {Ok(r, "call")}
    BY <1>1, <1>4, <2>1, GatewayTreeGrows DEF CallReturns, GwTrees, Ok
  <2>3. GwTrees(r)' = {{Ok(r, "call")}}
    BY <2>1 DEF GwTrees, Ok, Span
  <2> QED
    BY <2>2, <2>3
<1>5. CASE CallFails(r)
  <2>1. at[r] = "calling" /\ at'[r] = "failed"
    BY <1>1, <1>2, <1>5 DEF CallFails, Goto
  <2>2. GwOf(r) = {} /\ GwOf(r)' = GwOf(r) \cup {Bad(r, "call")}
    BY <1>1, <1>5, <2>1, GatewayTreeGrows DEF CallFails, GwTrees, Bad
  <2>3. {Bad(r, "call")} \in GwTrees(r)'
    BY <2>1 DEF GwTrees, Bad, Span
  <2> QED
    BY <2>2, <2>3
<1>6. CASE CallError(r)
  <2>1. CASE program.onCallError = "fatal"
    <3>1. at'[r] = at[r] /\ answer'[r] = answer[r]
      BY <1>1, <1>2, <1>6, <2>1 DEF CallError, Goto
    <3>2. GwOf(r)' = GwOf(r)
      BY <1>6, <2>1, GatewaySpansMove DEF CallError, Die, GwOf
    <3> QED
      BY <1>1, <1>3, <3>1, <3>2, GwTreesFrame
  <2>2. CASE program.onCallError # "fatal"
    <3>1. at[r] = "failed" /\ at'[r] = "end" /\ answer'[r] = 500
      BY <1>1, <1>2, <1>6, <2>2 DEF CallError, Goto
    <3>2. GwOf(r)' = GwOf(r)
      BY <1>6, <2>2, GatewaySpansMove DEF CallError, GwOf
    <3>3. GwOf(r) = {Bad(r, "call")}
      BY <1>1, <2>2, <3>1, ProgramFacts DEF GwTrees
    <3>4. GwTrees(r)' = {{Bad(r, "call")}}
      BY <3>1 DEF GwTrees, FinishedTrees, Bad, Span
    <3> QED
      BY <3>2, <3>3, <3>4
  <2> QED
    BY <2>1, <2>2
<1>7. CASE Operation(r)
  <2>1. at[r] = "operation" /\ at'[r] = IF program.external THEN "external" ELSE "end"
    BY <1>1, <1>2, <1>7 DEF Operation, Goto
  <2>2. answer[r] = 0 /\ answer'[r] = IF program.external THEN 0 ELSE 200
    BY <1>1, <1>2, <1>7, <2>1 DEF Operation, HelloInv
  <2>3. GwOf(r) = {Ok(r, "call")} /\ GwOf(r)' = GwOf(r) \cup {Ok(r, "op1")}
    BY <1>1, <1>7, <2>1, GatewayTreeGrows DEF Operation, GwTrees, Ok
  <2>4. GwTrees(r)' = {{Ok(r, "call"), Ok(r, "op1")}}
    BY <1>3, <2>1, <2>2, ProgramFacts DEF GwTrees, FinishedTrees, AnsweredTrees, Ok, Span
  <2> QED
    BY <2>3, <2>4
<1>8. CASE ExternalAnswers(r)
  <2>1. at[r] = "external" /\ at'[r] = "end" /\ answer'[r] = 200 /\ program.external
    BY <1>1, <1>2, <1>8 DEF ExternalAnswers, Goto, HelloInv
  <2>2. GwOf(r) = {Ok(r, "call"), Ok(r, "op1")}
    BY <1>1, <2>1 DEF GwTrees
  <2>3. PICK error \in BOOLEAN : EndGwSpan(r, "get", error)
    BY <1>8 DEF ExternalAnswers
  <2>4. GwOf(r)' = GwOf(r) \cup {Span(r, "get", error)}
    BY <2>3, GatewayTreeGrows
  <2>5. Span(r, "get", error) \in {Ok(r, "get"), Bad(r, "get")}
    BY <2>3 DEF Ok, Bad
  <2>6. GwTrees(r)' = {{Ok(r, "call"), Ok(r, "op1"), Ok(r, "get")},
                       {Ok(r, "call"), Ok(r, "op1"), Bad(r, "get")}}
    BY <1>3, <2>1 DEF GwTrees, FinishedTrees, AnsweredTrees, Ok, Bad, Span
  <2>7. GwOf(r)' = {Ok(r, "call"), Ok(r, "op1"), Ok(r, "get")} \/
        GwOf(r)' = {Ok(r, "call"), Ok(r, "op1"), Bad(r, "get")}
    BY <2>2, <2>4, <2>5
  <2> QED
    BY <2>6, <2>7
<1>9. CASE ExternalFails(r)
  <2>1. at[r] = "external" /\ at'[r] = "failed" /\ program.external
    BY <1>1, <1>2, <1>9 DEF ExternalFails, Goto, HelloInv
  <2>2. GwOf(r) = {Ok(r, "call"), Ok(r, "op1")}
    BY <1>1, <2>1 DEF GwTrees
  <2>3. GwOf(r)' = GwOf(r) \cup {Bad(r, "get")}
    BY <1>9, GatewayTreeGrows DEF ExternalFails, Bad
  <2>4. {Ok(r, "call"), Ok(r, "op1"), Bad(r, "get")} \in GwTrees(r)'
    BY <1>3, <2>1 DEF GwTrees, Ok, Bad, Span
  <2>5. GwOf(r)' = {Ok(r, "call"), Ok(r, "op1"), Bad(r, "get")}
    BY <2>2, <2>3
  <2> QED
    BY <2>4, <2>5
<1>10. CASE EndRequest(r)
  <2> DEFINE server == Span(r, "server", answer[r] = 500)
  <2>1. at[r] = "end" /\ at'[r] = "done" /\ answer' = answer
    BY <1>1, <1>2, <1>10 DEF EndRequest, Goto
  <2>2. GwOf(r) \in FinishedTrees(r) /\ GwOf(r)' = GwOf(r) \cup {server}
    BY <1>1, <1>10, <2>1, GatewayTreeGrows DEF EndRequest, GwTrees
  <2>3. GwTrees(r)' = {t \cup {server} : t \in FinishedTrees(r)}
    BY <1>3, <2>1 DEF GwTrees, FinishedTrees, AnsweredTrees, Ok, Bad, Span
  <2> QED
    BY <2>2, <2>3
<1> QED
  BY <1>4, <1>5, <1>6, <1>7, <1>8, <1>9, <1>10 DEF Hello

LEMMA GwTreeNext == TreeInv /\ [Next]_vars => GwTreeInv'
<1> SUFFICES ASSUME TreeInv, [Next]_vars PROVE GwTreeInv'
  OBVIOUS
<1> USE DEF TreeInv
<1>1. flag \subseteq Requests
  BY DEF SamplingInv
<1>2. ASSUME UNCHANGED <<program, at, answer, flag>>, GwSpans!Ended' = GwSpans!Ended
      PROVE  GwTreeInv'
  BY <1>2, GwTreesFrame DEF GwTreeInv, GwOf
<1>3. CASE ProcessStep
  BY <1>2, <1>3, ProcessStepFrame DEF requestVars
<1>4. ASSUME NEW r \in Requests, Arrive(r)
      PROVE  GwTreeInv'
  <2>1. GwSpans!Ended' = GwSpans!Ended
    BY <1>4, GatewaySpansMove DEF Arrive
  <2>2. at[r] = "none" /\ at' = [at EXCEPT ![r] = "calling"] /\ UNCHANGED <<program, answer>>
    BY <1>4 DEF Arrive, Goto, processVars
  <2>3. r \notin flag /\ flag \subseteq flag' /\ flag' \subseteq flag \cup {r}
    BY <1>4, <2>2 DEF Arrive, HelloInv
  <2>4. GwOf(r)' = {}
    BY <2>1, <2>3 DEF GwOf, GwTreeInv
  <2>5. GwTrees(r)' = {{}}
    BY <2>2 DEF GwTrees, ControlInv
  <2>6. \A q \in flag : GwOf(q)' = GwOf(q) /\ GwTrees(q)' = GwTrees(q)
    BY <1>1, <2>1, <2>2, <2>3, GwTreesFrame DEF GwOf, ControlInv
  <2> QED
    BY <2>1, <2>3, <2>4, <2>5, <2>6 DEF GwTreeInv
<1>5. ASSUME NEW r \in Requests, Hello(r)
      PROVE  GwTreeInv'
  <2>1. flag' = flag /\ program' = program
    BY <1>5, HelloMoves
  <2>2. \/ GwSpans!Ended' = GwSpans!Ended
        \/ \E name, error : EndGwSpan(r, name, error)
    <3>1. CASE CallError(r)
      BY <3>1, GatewaySpansMove DEF CallError, Die
    <3>2. CASE ~CallError(r)
      BY <1>5, <3>2, HandlerEndsSpan DEF Hello
    <3> QED
      BY <3>1, <3>2
  <2>3. \A s \in GwSpans!Ended' : s.req \in flag
    BY <2>2, GatewayTreeGrows DEF GwTreeInv, Span
  <2>4. ASSUME NEW q \in flag, q # r
        PROVE  GwOf(q)' \in GwTrees(q)'
    <3>1. GwOf(q)' = GwOf(q)
      BY <2>2, <2>4, GatewayTreeGrows DEF GwOf
    <3>2. GwTrees(q)' = GwTrees(q)
      BY <1>1, <1>5, <2>1, <2>4, HelloMoves, GwTreesFrame
    <3> QED
      BY <3>1, <3>2 DEF GwTreeInv
  <2>5. r \in flag => GwOf(r)' \in GwTrees(r)'
    BY <1>5, HelloTreeGrows
  <2> QED
    BY <2>1, <2>3, <2>4, <2>5 DEF GwTreeInv
<1>6. ASSUME NEW r \in Requests, ClientLeaves(r) \/ SayHello(r)
      PROVE  GwTreeInv'
  <2>1. UNCHANGED <<program, at, answer, flag, gwVars>>
    BY <1>6 DEF ClientLeaves, SayHello, TakeCall, SayHelloFails, BackendOperation, Reply, ServeEnds,
                processVars
  <2> QED
    BY <1>2, <2>1, GatewaySpansMove
<1> QED
  BY <1>3, <1>4, <1>5, <1>6 DEF Next, ProcessStep

(* The same at the backend. *)
LEMMA SayHelloTreeGrows ==
    ASSUME TreeInv, NEW r \in beFlag,
           SayHelloFails(r) \/ BackendOperation(r) \/ Reply(r) \/ ServeEnds(r)
    PROVE  BeOf(r)' \in BeTrees(r)'
<1> USE DEF TreeInv
<1>1. /\ rpc \in [Requests -> RpcPlaces]
      /\ r \in Requests /\ BeOf(r) \in BeTrees(r)
  BY DEF SamplingInv, BeTreeInv
<1>2. CASE SayHelloFails(r)
  <2>1. rpc[r] = "taken" /\ rpc'[r] = "failed" /\ UNCHANGED <<open, beSpans>>
    BY <1>1, <1>2 DEF SayHelloFails, BackendGoto
  <2>2. r \in open'
    BY <1>1, <2>1 DEF SamplingInv
  <2>3. BeOf(r)' = {}
    BY <1>1, <2>1 DEF BeTrees, BeOf
  <2> QED
    BY <2>1, <2>2, <2>3 DEF BeTrees
<1>3. CASE BackendOperation(r)
  <2>1. rpc[r] = "taken" /\ rpc'[r] = "operated"
    BY <1>1, <1>3 DEF BackendOperation, BackendGoto
  <2>2. BeOf(r) = {} /\ BeOf(r)' = BeOf(r) \cup {Operate(r)}
    BY <1>1, <1>3, <2>1, BackendTreeGrows DEF BackendOperation, BeTrees, Operate
  <2>3. BeTrees(r)' = {{Operate(r)}}
    BY <2>1 DEF BeTrees, Operate, Span
  <2> QED
    BY <2>2, <2>3
<1>4. CASE Reply(r)
  <2>1. PICK there \in {"replied", "undelivered"} :
            rpc[r] = "operated" /\ rpc' = [rpc EXCEPT ![r] = there]
    BY <1>4 DEF Reply, BackendGoto
  <2>2. rpc'[r] = there /\ BeOf(r) = {Operate(r)} /\ r \in open
    BY <1>1, <2>1 DEF BeTrees, SamplingInv
  <2>3. CASE program.stats
    <3>1. UNCHANGED <<open, beSpans>>
      BY <1>4, <2>3 DEF Reply
    <3>2. BeOf(r)' = {Operate(r)}
      BY <2>2, <3>1 DEF BeOf
    <3>3. BeTrees(r)' = {{Operate(r)}}
      BY <2>2, <3>1 DEF BeTrees, Operate, Span
    <3> QED
      BY <3>2, <3>3
  <2>4. CASE ~program.stats
    <3>1. open' = open \ {r} /\ EndBeSpan(r, "serve", FALSE)
      BY <1>4, <2>4 DEF Reply
    <3>2. rpc'[r] = "replied"
      BY <1>1, <1>4, <2>4 DEF Reply, BackendGoto
    <3>3. BeOf(r)' = BeOf(r) \cup {Serve(r)}
      BY <3>1, BackendTreeGrows DEF Serve
    <3>4. BeTrees(r)' = {{Operate(r), Serve(r)}}
      BY <3>1, <3>2 DEF BeTrees, Operate, Serve, Span
    <3>5. BeOf(r)' = {Operate(r), Serve(r)}
      BY <2>2, <3>3
    <3> QED
      BY <3>4, <3>5
  <2> QED
    BY <2>3, <2>4
<1>5. CASE ServeEnds(r)
  <2> DEFINE serve == Span(r, "serve", rpc[r] # "replied")
  <2>1. /\ rpc'[r] = rpc[r] /\ r \in open /\ r \notin open' /\ gateway' = gateway
        /\ EndBeSpan(r, "serve", rpc[r] # "replied")
    BY <1>5 DEF ServeEnds, processVars
  <2>2. BeOf(r)' = BeOf(r) \cup {serve}
    BY <2>1, BackendTreeGrows
  <2>3. serve = IF rpc[r] = "replied" THEN Serve(r) ELSE Bad(r, "serve")
    BY ServeSpan DEF Bad
  <2> HIDE DEF serve
  <2>4. CASE rpc[r] = "replied"
    <3>1. BeOf(r) = {Operate(r)}
      BY <1>1, <2>1, <2>4 DEF BeTrees
    <3>2. BeOf(r)' = {Operate(r), Serve(r)}
      BY <2>2, <2>3, <2>4, <3>1
    <3>3. BeTrees(r)' = {{Operate(r), Serve(r)}}
      BY <2>1, <2>4 DEF BeTrees, Operate, Serve, Span
    <3> QED
      BY <3>2, <3>3
  <2>5. CASE rpc[r] = "undelivered"
    <3>1. BeOf(r) = {Operate(r)} /\ gateway = "down"
      BY <1>1, <2>1, <2>5 DEF BeTrees, HelloInv
    <3>2. BeOf(r)' = {Operate(r), Bad(r, "serve")}
      BY <2>2, <2>3, <2>5, <3>1
    <3>3. BeTrees(r)' = {{Operate(r), Bad(r, "serve")}}
      BY <2>1, <2>5, <3>1 DEF BeTrees, Unwritten, Operate, Bad, Span
    <3> QED
      BY <3>2, <3>3
  <2>6. CASE rpc[r] = "failed"
    <3>1. BeOf(r) = {}
      BY <1>1, <2>1, <2>6 DEF BeTrees
    <3>2. BeOf(r)' = {Bad(r, "serve")}
      BY <2>2, <2>3, <2>6, <3>1
    <3>3. BeTrees(r)' = {{Bad(r, "serve")}}
      BY <2>1, <2>6 DEF BeTrees, Bad, Span
    <3> QED
      BY <3>2, <3>3
  <2> QED
    BY <1>5, <2>4, <2>5, <2>6 DEF ServeEnds
<1> QED
  BY <1>2, <1>3, <1>4, <1>5

LEMMA BeTreeNext == TreeInv /\ [Next]_vars => BeTreeInv'
<1> SUFFICES ASSUME TreeInv, [Next]_vars PROVE BeTreeInv'
  OBVIOUS
<1> USE DEF TreeInv
<1>1. /\ beFlag \subseteq flag /\ flag \subseteq Requests
      /\ rpc \in [Requests -> RpcPlaces]
  BY DEF SamplingInv
<1>2. ASSUME NEW q \in beFlag, rpc'[q] = rpc[q], q \in open' <=> q \in open, Forward,
             BeOf(q)' = BeOf(q)
      PROVE  BeOf(q)' \in BeTrees(q)'
  <2>1. rpc[q] \in RpcPlaces
    BY <1>1, <1>2
  <2> QED
    BY <1>2, <2>1, BeTreesFrame DEF BeTreeInv
<1>3. ASSUME UNCHANGED <<rpc, open, beFlag, beSpans>>, Forward
      PROVE  BeTreeInv'
  BY <1>2, <1>3 DEF BeTreeInv, BeOf
<1>4. CASE ProcessStep
  BY <1>3, <1>4, ProcessStepFrame DEF requestVars
<1>5. ASSUME NEW r \in Requests, Arrive(r)
      PROVE  BeTreeInv'
  <2>1. UNCHANGED <<open, beFlag, beSpans>> /\ Forward
    BY <1>5 DEF Arrive, processVars, Forward
  <2>2. r \notin beFlag /\ \A q \in beFlag : rpc'[q] = rpc[q]
    BY <1>1, <1>5 DEF Arrive, Goto, HelloInv
  <2> QED
    BY <1>2, <2>1, <2>2 DEF BeTreeInv, BeOf
<1>6. ASSUME NEW r \in Requests, CallFails(r)
      PROVE  BeTreeInv'
  <2>1. UNCHANGED <<open, beFlag, beSpans>> /\ Forward
    BY <1>6 DEF CallFails, processVars, Forward
  <2>2. \A q \in beFlag \ {r} : rpc'[q] = rpc[q]
    BY <1>1, <1>6 DEF CallFails
  <2>3. rpc'[r] = rpc[r] \/ rpc'[r] = "none"
    BY <1>1, <1>6 DEF CallFails
  <2>4. ASSUME r \in beFlag, rpc'[r] = "none"
        PROVE  BeTrees(r) \subseteq BeTrees(r)'
    <3>1. rpc[r] \in RpcPlaces
      BY <1>1
    <3>2. Unwritten(r) \subseteq Unwritten(r)'
      BY <2>1 DEF Unwritten, Forward, Operate, Bad, Span
    <3>3. BeTrees(r) \subseteq {{}, {Operate(r)}, {Operate(r), Serve(r)}, {Bad(r, "serve")}}
                                 \cup Unwritten(r)
      BY <3>1 DEF BeTrees, RpcPlaces
    <3>4. BeTrees(r)' = {{}, {Operate(r)}, {Operate(r), Serve(r)}, {Bad(r, "serve")}}
                          \cup Unwritten(r)'
      BY <2>4 DEF BeTrees, Operate, Serve, Bad, Span
    <3> QED
      BY <3>2, <3>3, <3>4
  <2>5. r \in beFlag => BeOf(r)' \in BeTrees(r)'
    BY <1>2, <2>1, <2>3, <2>4 DEF BeTreeInv, BeOf
  <2>6. \A q \in beFlag \ {r} : BeOf(q)' \in BeTrees(q)'
    BY <1>2, <2>1, <2>2 DEF BeOf
  <2> QED
    BY <2>1, <2>5, <2>6 DEF BeTreeInv
<1>7. ASSUME NEW r \in Requests, Hello(r), ~CallFails(r)
      PROVE  BeTreeInv'
  BY <1>3, <1>7, HelloMoves
<1>8. ASSUME NEW r \in Requests, TakeCall(r)
      PROVE  BeTreeInv'
  <2>1. beSpans' = beSpans /\ open' = open \cup {r} /\ Forward
    BY <1>8 DEF TakeCall, processVars, Forward
  <2>2. /\ rpc[r] = "sent" /\ rpc' = [rpc EXCEPT ![r] = "taken"]
        /\ beFlag \subseteq beFlag' /\ beFlag' \subseteq beFlag \cup {r}
    BY <1>8 DEF TakeCall, BackendGoto
  <2>3. BeOf(r) = {}
    <3>1. r \in beFlag => BeOf(r) \in {{}}
      BY <2>2 DEF BeTreeInv, BeTrees
    <3>2. r \notin beFlag => BeOf(r) = {}
      BY DEF BeOf, SamplingInv
    <3> QED
      BY <3>1, <3>2
  <2>4. BeOf(r)' = {} /\ BeTrees(r)' = {{}}
    BY <1>1, <2>1, <2>2, <2>3 DEF BeOf, BeTrees
  <2>5. \A q \in beFlag \ {r} : BeOf(q)' \in BeTrees(q)'
    BY <1>1, <1>2, <2>1, <2>2 DEF BeOf
  <2> QED
    BY <2>2, <2>4, <2>5 DEF BeTreeInv
<1>9. ASSUME NEW r \in Requests,
             SayHelloFails(r) \/ BackendOperation(r) \/ Reply(r) \/ ServeEnds(r)
      PROVE  BeTreeInv'
  <2>1. beFlag' = beFlag /\ (rpc' = rpc \/ \E there : rpc' = [rpc EXCEPT ![r] = there]) /\ Forward
    BY <1>9 DEF SayHelloFails, BackendOperation, Reply, ServeEnds, BackendGoto, processVars, Forward
  <2>2. open' \in {open, open \ {r}}
    BY <1>9 DEF SayHelloFails, BackendOperation, Reply, ServeEnds
  <2>3. beSpans' = beSpans \/ \E name, error : EndBeSpan(r, name, error)
    BY <1>9 DEF SayHelloFails, BackendOperation, Reply, ServeEnds
  <2>4. \A q \in beFlag \ {r} : BeOf(q)' = BeOf(q)
    BY <2>3, BackendTreeGrows DEF BeOf
  <2>5. \A q \in beFlag \ {r} : rpc'[q] = rpc[q] /\ (q \in open' <=> q \in open)
    BY <1>1, <2>1, <2>2
  <2>6. r \in beFlag => BeOf(r)' \in BeTrees(r)'
    BY <1>9, SayHelloTreeGrows
  <2> QED
    BY <1>2, <2>1, <2>4, <2>5, <2>6 DEF BeTreeInv
<1>10. ASSUME NEW r \in Requests, ClientLeaves(r)
       PROVE  BeTreeInv'
  BY <1>3, <1>10 DEF ClientLeaves, processVars, Forward
<1> QED
  BY <1>4, <1>5, <1>6, <1>7, <1>8, <1>9, <1>10 DEF Next, SayHello, ProcessStep

LEMMA TreeInvariant == Spec => []TreeInv
<1>1. Init => TreeInv
  <2> SUFFICES ASSUME Init PROVE TreeInv
    OBVIOUS
  <2>1. ControlInv
    BY DEF Init, ControlInv, GwSpans!PipelineInit
  <2>2. GwSpans!Ended = {} /\ flag = {} /\ beFlag = {}
    BY DEF Init, GwSpans!PipelineInit, GwSpans!Ended
  <2>3. HelloInv /\ GwTreeInv /\ BeTreeInv
    BY <2>2 DEF Init, HelloInv, GwTreeInv, BeTreeInv
  <2> QED
    BY <2>1, <2>3, SamplingInit DEF TreeInv
<1>2. TreeInv /\ [Next]_vars => TreeInv'
  BY ControlNext, HelloInvNext, GwTreeNext, BeTreeNext, SamplingNext DEF TreeInv
<1> QED
  BY <1>1, <1>2, PTL DEF Spec

LEMMA SpanFields ==
    ASSUME NEW r, NEW name
    PROVE  /\ Ok(r, name).name = name /\ Ok(r, name).error = FALSE
           /\ Bad(r, name).name = name /\ Bad(r, name).error = TRUE
BY DEF Ok, Bad, Span

LEMMA SpanTypes ==
    ASSUME NEW r \in Requests
    PROVE  /\ \A n \in GwNames : {Ok(r, n), Bad(r, n)} \subseteq
                [req : Requests, name : GwNames, error : BOOLEAN]
           /\ \A n \in BeNames : {Ok(r, n), Bad(r, n)} \subseteq
                [req : Requests, name : BeNames, error : BOOLEAN]
BY DEF Ok, Bad, Span

LEMMA ServerSpan ==
    ASSUME NEW r
    PROVE  Span(r, "server", answer[r] = 500) =
             IF answer[r] = 500 THEN Bad(r, "server") ELSE Ok(r, "server")
<1>1. CASE answer[r] = 500
  <2>1. (answer[r] = 500) = TRUE
    BY <1>1
  <2> QED
    BY <1>1, <2>1, Zenon DEF Bad
<1>2. CASE answer[r] # 500
  <2>1. (answer[r] = 500) = FALSE
    BY <1>2
  <2> QED
    BY <1>2, <2>1, Zenon DEF Ok
<1> QED
  BY <1>1, <1>2

(* A tree has at most one span of a name, and the fields of its spans are  *)
(* those of their request.                                                 *)
LEMMA GwTreeType ==
    ASSUME TreeInv, NEW r \in flag
    PROVE  /\ \A s \in GwOf(r) : s \in [req : Requests, name : GwNames, error : BOOLEAN]
           /\ \A s, t \in GwOf(r) : s.name = t.name => s.error = t.error
<1> DEFINE server == Span(r, "server", answer[r] = 500)
<1>1. r \in Requests /\ GwOf(r) \in GwTrees(r) /\ (answer[r] = 500) \in BOOLEAN
  BY DEF TreeInv, SamplingInv, GwTreeInv
<1>2. at[r] \in {"none", "calling", "failed", "operation", "external", "end", "done"}
  BY <1>1 DEF TreeInv, ControlInv
<1>3. ASSUME NEW tree \in FinishedTrees(r)
      PROVE  \/ tree \subseteq {Bad(r, "call")}
             \/ tree \subseteq {Ok(r, "call"), Ok(r, "op1"), Ok(r, "get")}
             \/ tree \subseteq {Ok(r, "call"), Ok(r, "op1"), Bad(r, "get")}
  BY <1>3 DEF FinishedTrees, AnsweredTrees
<1>4. \/ GwOf(r) \subseteq {Bad(r, "call"), server}
      \/ GwOf(r) \subseteq {Ok(r, "call"), Ok(r, "op1"), Ok(r, "get"), server}
      \/ GwOf(r) \subseteq {Ok(r, "call"), Ok(r, "op1"), Bad(r, "get"), server}
  <2>1. CASE at[r] \in {"none", "calling", "operation", "external", "failed"}
    BY <1>1, <2>1 DEF GwTrees
  <2>2. CASE at[r] \in {"end", "done"}
    <3>1. \E tree \in FinishedTrees(r) : GwOf(r) \subseteq tree \cup {server}
      BY <1>1, <2>2 DEF GwTrees
    <3> QED
      BY <1>3, <3>1
  <2> QED
    BY <1>2, <2>1, <2>2
<1>5. server \in {Ok(r, "server"), Bad(r, "server")}
  BY ServerSpan
<1> HIDE DEF server
<1>6. /\ Bad(r, "call").name = "call" /\ Ok(r, "call").name = "call"
      /\ Ok(r, "op1").name = "op1" /\ Ok(r, "get").name = "get" /\ Bad(r, "get").name = "get"
      /\ Ok(r, "server").name = "server" /\ Bad(r, "server").name = "server"
  BY DEF Ok, Bad, Span
<1>7. \A s \in GwOf(r) : s \in [req : Requests, name : GwNames, error : BOOLEAN]
  BY <1>1, <1>4, <1>5, SpanTypes DEF GwNames
<1>8. ASSUME NEW s \in GwOf(r), NEW t \in GwOf(r), s.name = t.name
      PROVE  s = t
  <2>1. CASE GwOf(r) \subseteq {Bad(r, "call"), server}
    BY <1>5, <1>6, <1>8, <2>1
  <2>2. CASE GwOf(r) \subseteq {Ok(r, "call"), Ok(r, "op1"), Ok(r, "get"), server}
    BY <1>5, <1>6, <1>8, <2>2
  <2>3. CASE GwOf(r) \subseteq {Ok(r, "call"), Ok(r, "op1"), Bad(r, "get"), server}
    BY <1>5, <1>6, <1>8, <2>3
  <2> QED
    BY <1>4, <2>1, <2>2, <2>3
<1> QED
  BY <1>7, <1>8

(* A serve span in error beside an operation tells of a reply that could   *)
(* not be written.                                                         *)
LEMMA BeTreeType ==
    ASSUME TreeInv, NEW r \in beFlag
    PROVE  /\ \A s \in BeOf(r) : s \in [req : Requests, name : BeNames, error : BOOLEAN]
           /\ \A s, t \in BeOf(r) : s.name = t.name => s.error = t.error
           /\ \A s, t \in BeOf(r) :
                s.name = "serve" /\ s.error /\ t.name = "operation" => gateway = "down"
<1>1. r \in Requests /\ BeOf(r) \in BeTrees(r)
  BY DEF TreeInv, SamplingInv, BeTreeInv
<1>2. rpc[r] \in RpcPlaces
  BY <1>1 DEF TreeInv, SamplingInv
<1>3. \/ BeOf(r) \subseteq {Operate(r), Serve(r)}
      \/ BeOf(r) = {Bad(r, "serve")}
      \/ BeOf(r) = {Operate(r), Bad(r, "serve")} /\ gateway = "down"
  BY <1>1, <1>2 DEF BeTrees, Unwritten, RpcPlaces
<1>4. /\ Operate(r).name = "operation" /\ Operate(r).error = FALSE
      /\ Serve(r).name = "serve" /\ Serve(r).error = FALSE
      /\ Bad(r, "serve").name = "serve" /\ Bad(r, "serve").error = TRUE
  BY DEF Operate, Serve, Bad, Span
<1>5. {Operate(r), Serve(r), Bad(r, "serve")} \subseteq [req : Requests, name : BeNames, error : BOOLEAN]
  <2>1. \A n \in BeNames, e \in BOOLEAN :
           Span(r, n, e) \in [req : Requests, name : BeNames, error : BOOLEAN]
    BY <1>1 DEF Span
  <2> QED
    BY <2>1 DEF Operate, Serve, Bad, BeNames
<1> QED
  BY <1>3, <1>4, <1>5

(* Every variable keeps its type, and a process ends at most one span of a *)
(* name for a request.                                                     *)
THEOREM TypeCorrect == Spec => []TypeOK
<1>1. TreeInv => TypeOK
  <2> SUFFICES ASSUME TreeInv PROVE TypeOK
    OBVIOUS
  <2>1. \A s \in GwSpans!Ended : s.req \in flag /\ s \in GwOf(s.req)
    BY DEF TreeInv, GwTreeInv, GwOf
  <2>2. \A s \in beSpans : s.req \in beFlag /\ s \in BeOf(s.req)
    BY DEF TreeInv, SamplingInv, BeOf
  <2>3. GwSpans!Ended \subseteq [req : Requests, name : GwNames, error : BOOLEAN]
    BY <2>1, GwTreeType
  <2>4. beSpans \subseteq [req : Requests, name : BeNames, error : BOOLEAN]
    BY <2>2, BeTreeType
  <2>5. ASSUME NEW s \in GwSpans!Ended \cup beSpans,
               NEW t \in GwSpans!Ended \cup beSpans, s.req = t.req, s.name = t.name
        PROVE  s.error = t.error
    <3>1. CASE s \in GwSpans!Ended /\ t \in GwSpans!Ended
      BY <2>1, <2>5, <3>1, GwTreeType
    <3>2. CASE s \in beSpans /\ t \in beSpans
      BY <2>2, <2>5, <3>2, BeTreeType
    <3>3. (s.name \in GwNames /\ s \in GwSpans!Ended) \/ (s.name \in BeNames /\ s \in beSpans)
      BY <2>3, <2>4, <2>5
    <3>4. (t.name \in GwNames /\ t \in GwSpans!Ended) \/ (t.name \in BeNames /\ t \in beSpans)
      BY <2>3, <2>4, <2>5
    <3>5. GwNames \cap BeNames = {}
      BY DEF GwNames, BeNames
    <3> QED
      BY <2>5, <3>1, <3>2, <3>3, <3>4, <3>5
  <2>6. beFlag \subseteq Requests
    BY DEF TreeInv, SamplingInv
  <2>7. rpc \in [Requests -> RpcPlaces] /\ open \subseteq Requests /\ flag \subseteq Requests
    BY DEF TreeInv, SamplingInv
  <2>8. \A s, t \in GwSpans!Ended \cup beSpans :
           s.req = t.req /\ s.name = t.name => s.error = t.error
    BY <2>5
  <2> QED
    BY <2>3, <2>4, <2>6, <2>7, <2>8 DEF TypeOK, TreeInv, ControlInv, RpcPlaces
<1> QED
  BY <1>1, TreeInvariant, PTL

(* What SpansOf tells of the spans of a request, by process. *)
LEMMA SpansOfParts ==
    ASSUME NEW r, NEW n
    PROVE  /\ <<n, FALSE>> \in SpansOf(r) <=>
                \E s \in GwOf(r) \cup BeOf(r) : s.name = n /\ s.error = FALSE
           /\ <<n, TRUE>> \in SpansOf(r) <=>
                \E s \in GwOf(r) \cup BeOf(r) : s.name = n /\ s.error = TRUE
BY DEF SpansOf, GwOf, BeOf

LEMMA SpansOfPairs ==
    ASSUME NEW r, NEW p \in SpansOf(r)
    PROVE  \E s \in GwOf(r) \cup BeOf(r) : p = <<s.name, s.error>>
BY DEF SpansOf, GwOf, BeOf

(* What SpansOf says of spans. *)
Pairs(spans) == {<<s.name, s.error>> : s \in spans}

LEMMA PairsOfSpan ==
    ASSUME NEW r, NEW n
    PROVE  Pairs({Ok(r, n)}) = {<<n, FALSE>>} /\ Pairs({Bad(r, n)}) = {<<n, TRUE>>}
<1>1. \A s : Pairs({s}) = {<<s.name, s.error>>}
  BY DEF Pairs
<1>2. <<Ok(r, n).name, Ok(r, n).error>> = <<n, FALSE>>
  <2>1. Ok(r, n).name = n /\ Ok(r, n).error = FALSE
    BY SpanFields
  <2> QED
    BY <2>1, Zenon
<1>3. <<Bad(r, n).name, Bad(r, n).error>> = <<n, TRUE>>
  <2>1. Bad(r, n).name = n /\ Bad(r, n).error = TRUE
    BY SpanFields
  <2> QED
    BY <2>1, Zenon
<1> QED
  BY <1>1, <1>2, <1>3, Zenon

(* A sampled request that was answered has left exactly the tree of its    *)
(* path, for every program, however calls fail, httpbin answers, clients   *)
(* leave and backends stop meanwhile; an unsampled one has left nothing.   *)
THEOREM TraceTreeSafe == Spec => []TraceTree
<1>1. TreeInv => TraceTree
  <2> SUFFICES ASSUME TreeInv, NEW r \in Requests, at[r] = "done"
               PROVE  /\ r \notin flag => SpansOf(r) = {}
                      /\ r \in flag /\ answer[r] = 200 =>
                           \E get \in IF program.external
                                        THEN {{<<"get", TRUE>>}, {<<"get", FALSE>>}} ELSE {{}} :
                             SpansOf(r) =
                               {<<n, FALSE>> : n \in {"server", "call", "op1", "operation"}} \cup get
                               \cup (IF program.stats /\ r \in open THEN {} ELSE {<<"serve", FALSE>>})
                      /\ r \in flag /\ answer[r] = 500 =>
                           /\ {s \in SpansOf(r) : s[1] \in GwNames} = {<<"server", TRUE>>, <<"call", TRUE>>}
                           /\ {<<"serve", TRUE>>, <<"operation", FALSE>>} \subseteq SpansOf(r) =>
                                gateway = "down"
    BY DEF TraceTree
  <2> USE DEF TreeInv
  <2>1. r \notin beFlag => BeOf(r) = {}
    BY DEF SamplingInv, BeOf
  <2>2. \A name : /\ Ok(r, name).name = name /\ Ok(r, name).error = FALSE
                  /\ Bad(r, name).name = name /\ Bad(r, name).error = TRUE
    BY SpanFields
  <2>3. ASSUME r \notin flag
        PROVE  SpansOf(r) = {}
    <3>1. GwOf(r) = {} /\ BeOf(r) = {}
      BY <2>1, <2>3 DEF GwTreeInv, GwOf, SamplingInv
    <3> QED
      BY <3>1, SpansOfPairs
  <2>4. r \in flag => \E tree \in FinishedTrees(r) :
                        GwOf(r) = tree \cup {Span(r, "server", answer[r] = 500)}
    BY DEF GwTreeInv, GwTrees
  <2>5. ASSUME r \in flag, answer[r] = 200
        PROVE  \E get \in IF program.external
                            THEN {{<<"get", TRUE>>}, {<<"get", FALSE>>}} ELSE {{}} :
                 SpansOf(r) =
                   {<<n, FALSE>> : n \in {"server", "call", "op1", "operation"}} \cup get
                   \cup (IF program.stats /\ r \in open THEN {} ELSE {<<"serve", FALSE>>})
    <3> DEFINE serve == IF program.stats /\ r \in open THEN {} ELSE {Ok(r, "serve")}
    <3>1. r \in beFlag /\ rpc[r] = "replied" /\ (r \in open => program.stats)
      BY <2>5 DEF HelloInv, SamplingInv
    <3>2. BeOf(r) = {Ok(r, "operation")} \cup serve
      BY <3>1 DEF BeTreeInv, BeTrees, Operate, Serve, Ok
    <3>3. Span(r, "server", answer[r] = 500) = Ok(r, "server")
      BY <2>5, ServerSpan
    <3>4. PICK tree \in AnsweredTrees(r) : GwOf(r) = tree \cup {Ok(r, "server")}
      BY <2>4, <2>5, <3>3 DEF FinishedTrees
    <3>5. PICK get \in IF program.external THEN {{Bad(r, "get")}, {Ok(r, "get")}} ELSE {{}} :
              tree = {Ok(r, "call"), Ok(r, "op1")} \cup get
      BY <3>4 DEF AnsweredTrees
    <3>6. GwOf(r) \cup BeOf(r) =
            {Ok(r, "server"), Ok(r, "call"), Ok(r, "op1"), Ok(r, "operation")} \cup get \cup serve
      BY <3>2, <3>4, <3>5
    <3>7. SpansOf(r) = Pairs(GwOf(r) \cup BeOf(r))
      BY DEF SpansOf, GwOf, BeOf, Pairs
    <3>8. \A n : Pairs({Ok(r, n)}) = {<<n, FALSE>>} /\ Pairs({Bad(r, n)}) = {<<n, TRUE>>}
      BY PairsOfSpan
    <3>9. Pairs({}) = {}
      BY DEF Pairs
    <3>10. Pairs(serve) = IF program.stats /\ r \in open THEN {} ELSE {<<"serve", FALSE>>}
      BY <3>8, <3>9
    <3>11. Pairs(get) \in IF program.external THEN {{<<"get", TRUE>>}, {<<"get", FALSE>>}} ELSE {{}}
      BY <3>5, <3>8, <3>9
    <3> HIDE DEF serve
    <3>12. SpansOf(r) = {<<"server", FALSE>>} \cup {<<"call", FALSE>>} \cup {<<"op1", FALSE>>}
                          \cup {<<"operation", FALSE>>} \cup Pairs(get) \cup Pairs(serve)
      <4>1. GwOf(r) \cup BeOf(r) =
              {Ok(r, "server")} \cup {Ok(r, "call")} \cup {Ok(r, "op1")} \cup {Ok(r, "operation")}
                \cup get \cup serve
        BY <3>6
      <4> DEFINE server == {Ok(r, "server")}
                 call == {Ok(r, "call")}
                 op1 == {Ok(r, "op1")}
                 operation == {Ok(r, "operation")}
      <4>2. /\ Pairs(server) = {<<"server", FALSE>>} /\ Pairs(call) = {<<"call", FALSE>>}
            /\ Pairs(op1) = {<<"op1", FALSE>>} /\ Pairs(operation) = {<<"operation", FALSE>>}
        BY <3>8
      <4>3. GwOf(r) \cup BeOf(r) = server \cup call \cup op1 \cup operation \cup get \cup serve
        BY <4>1
      <4> HIDE DEF server, call, op1, operation
      <4>4. Pairs(server \cup call \cup op1 \cup operation \cup get \cup serve) =
              Pairs(server) \cup Pairs(call) \cup Pairs(op1) \cup Pairs(operation)
                \cup Pairs(get) \cup Pairs(serve)
        BY DEF Pairs
      <4> QED
        BY <3>7, <4>2, <4>3, <4>4
    <3>13. SpansOf(r) = {<<n, FALSE>> : n \in {"server", "call", "op1", "operation"}}
                          \cup Pairs(get) \cup Pairs(serve)
      <4>1. {<<n, FALSE>> : n \in {"server", "call", "op1", "operation"}} =
              {<<"server", FALSE>>} \cup {<<"call", FALSE>>} \cup {<<"op1", FALSE>>}
                \cup {<<"operation", FALSE>>}
        OBVIOUS
      <4> QED
        BY <3>12, <4>1
    <3> QED
      BY <3>10, <3>11, <3>13
  <2>6. ASSUME r \in flag, answer[r] = 500
        PROVE  /\ {s \in SpansOf(r) : s[1] \in GwNames} = {<<"server", TRUE>>, <<"call", TRUE>>}
               /\ {<<"serve", TRUE>>, <<"operation", FALSE>>} \subseteq SpansOf(r) => gateway = "down"
    <3>1. Span(r, "server", answer[r] = 500) = Bad(r, "server")
      BY <2>6, ServerSpan
    <3>2. GwOf(r) = {Bad(r, "call"), Bad(r, "server")}
      BY <2>4, <2>6, <3>1 DEF FinishedTrees
    <3>3. \A s \in BeOf(r) : s.name \in BeNames
      BY <2>1, BeTreeType
    <3>4. ASSUME NEW p \in SpansOf(r), p[1] \in GwNames
          PROVE  p \in {<<"server", TRUE>>, <<"call", TRUE>>}
      <4>1. PICK s \in GwOf(r) \cup BeOf(r) : p = <<s.name, s.error>>
        BY <3>4, SpansOfPairs
      <4>2. s \in GwOf(r)
        BY <3>3, <3>4, <4>1 DEF GwNames, BeNames
      <4>3. s.name \in {"server", "call"} /\ s.error = TRUE
        BY <2>2, <3>2, <4>2
      <4> QED
        BY <4>1, <4>3, Zenon
    <3>5. <<"server", TRUE>> \in SpansOf(r) /\ <<"call", TRUE>> \in SpansOf(r)
      <4>1. Bad(r, "server") \in GwOf(r) /\ Bad(r, "call") \in GwOf(r)
        BY <3>2
      <4>2. /\ Bad(r, "server").name = "server" /\ Bad(r, "server").error = TRUE
            /\ Bad(r, "call").name = "call" /\ Bad(r, "call").error = TRUE
        BY <2>2
      <4> QED
        BY <4>1, <4>2, SpansOfParts
    <3>6. ASSUME <<"serve", TRUE>> \in SpansOf(r), <<"operation", FALSE>> \in SpansOf(r)
          PROVE  gateway = "down"
      <4>1. PICK s \in GwOf(r) \cup BeOf(r) : <<"serve", TRUE>> = <<s.name, s.error>>
        BY <3>6, SpansOfPairs, Zenon
      <4>2. PICK t \in GwOf(r) \cup BeOf(r) : <<"operation", FALSE>> = <<t.name, t.error>>
        BY <3>6, SpansOfPairs, Zenon
      <4>3. s \in BeOf(r) /\ t \in BeOf(r)
        BY <2>2, <3>2, <4>1, <4>2
      <4> QED
        BY <2>1, <4>1, <4>2, <4>3, BeTreeType
    <3>7. <<"server", TRUE>>[1] \in GwNames /\ <<"call", TRUE>>[1] \in GwNames
      BY DEF GwNames
    <3>8. {s \in SpansOf(r) : s[1] \in GwNames} = {<<"server", TRUE>>, <<"call", TRUE>>}
      <4> DEFINE wanted == {<<"server", TRUE>>, <<"call", TRUE>>}
      <4>1. \A p \in wanted : p \in SpansOf(r) /\ p[1] \in GwNames
        BY <3>5, <3>7
      <4>2. \A p \in SpansOf(r) : p[1] \in GwNames => p \in wanted
        BY <3>4
      <4> HIDE DEF wanted
      <4>3. {s \in SpansOf(r) : s[1] \in GwNames} = wanted
        BY <4>1, <4>2
      <4> QED
        BY <4>3 DEF wanted
    <3>9. {<<"serve", TRUE>>, <<"operation", FALSE>>} \subseteq SpansOf(r) => gateway = "down"
      BY <3>6
    <3> QED
      BY <3>8, <3>9
  <2> QED
    BY <2>3, <2>5, <2>6
<1> QED
  BY <1>1, TreeInvariant, PTL

-----------------------------------------------------------------------------
(* The cleanup *)

(* Until Shutdown the provider takes spans and a reliable collector has    *)
(* lost none; after it, what was queued is exported, and whatever handlers *)
(* still end belongs to requests that were not through.                    *)
CleanupInv ==
    /\ gateway \in {"serving", "returned", "flushed"} => gp = "up"
    /\ gateway = "stopped" \/ exit = "returned" => gp = "stopped" /\ gwQueue = {}
    /\ gateway \notin {"stopped", "down"} /\ reliable => gwLost = {}
    /\ gateway # "down" => exit = "none"
    /\ reliable /\ (gateway = "stopped" \/ exit = "returned") =>
         \A s \in gwLost : s.req \notin finished
    /\ gateway = "stopped" => \A r \in finished : at[r] = "done"

LEMMA CleanupFrame ==
    ASSUME CleanupInv, UNCHANGED <<reliable, gateway, exit, finished, at, gwVars>>
    PROVE  CleanupInv'
BY DEF CleanupInv, gwVars

(* A handler ends a span of a request that is not done. *)
LEMMA CleanupHello ==
    ASSUME ControlInv, CleanupInv, NEW r \in Requests,
           CallReturns(r) \/ CallFails(r) \/ Operation(r) \/ ExternalAnswers(r)
             \/ ExternalFails(r) \/ EndRequest(r)
    PROVE  CleanupInv'
<1>1. UNCHANGED <<reliable, gateway, exit, finished>> /\ Running
  BY DEF CallReturns, CallFails, Operation, ExternalAnswers, ExternalFails, EndRequest, Goto,
     processVars
<1>2. at[r] # "done" /\ \E place : at' = [at EXCEPT ![r] = place]
  <2>1. CASE Operation(r)
    BY <2>1 DEF Operation, Goto
  <2>2. CASE CallReturns(r) \/ CallFails(r)
    BY <2>2 DEF CallReturns, CallFails, Goto
  <2>3. CASE ExternalAnswers(r) \/ ExternalFails(r)
    BY <2>3 DEF ExternalAnswers, ExternalFails, Goto
  <2>4. CASE EndRequest(r)
    <3>1. at[r] = "end" /\ at' = [at EXCEPT ![r] = "done"]
      BY <2>4 DEF EndRequest, Goto
    <3> QED
      BY <3>1
  <2> QED
    BY <2>1, <2>2, <2>3, <2>4
<1>3. PICK name, error : EndGwSpan(r, name, error)
  BY HandlerEndsSpan
<1> DEFINE span == Span(r, name, error)
<1>4. span.req = r
  BY DEF Span
<1>5. \/ UNCHANGED gwVars
      \/ gp = "up" /\ gwLost' = gwLost /\ gwQueue' = gwQueue \cup {span} /\ gp' = gp
      \/ gp # "up" /\ gwLost' = gwLost \cup {span} /\ gwQueue' = gwQueue /\ gp' = gp
  BY <1>3 DEF EndGwSpan, GwSpans!EndSpan
<1> HIDE DEF span
<1>6. gateway = "stopped" => r \notin finished
  BY <1>2 DEF CleanupInv
<1>7. gateway = "stopped" => \A q \in finished : at'[q] = "done"
  BY <1>2, <1>6 DEF CleanupInv, ControlInv
<1>8. gateway \in {"serving", "returned", "flushed", "stopped"}
  BY <1>1 DEF Running
<1>9. CASE gateway = "stopped"
  BY <1>1, <1>4, <1>5, <1>6, <1>7, <1>9 DEF CleanupInv, gwVars
<1>10. CASE gateway # "stopped"
  BY <1>1, <1>5, <1>8, <1>10 DEF CleanupInv, gwVars
<1> QED
  BY <1>9, <1>10

LEMMA CleanupDie ==
    ASSUME CleanupInv, NEW why \in {"signal", "fatal"}, Die(why)
    PROVE  CleanupInv'
BY DEF CleanupInv, Die

LEMMA CleanupNext == ControlInv /\ CleanupInv /\ [Next]_vars => CleanupInv'
<1> SUFFICES ASSUME ControlInv, CleanupInv, [Next]_vars PROVE CleanupInv'
  OBVIOUS
<1>1. CASE StartBackend \/ StopBackend \/ UNCHANGED vars
  BY <1>1, CleanupFrame DEF StartBackend, StopBackend, vars, processVars, requestVars
<1>2. CASE StartGateway
  BY <1>2 DEF StartGateway, requestVars, CleanupInv, GwSpans!InstallProvider
<1>3. CASE StartFails
  BY <1>3 DEF StartFails, requestVars, gwVars, CleanupInv
<1>4. CASE SignalGateway
  BY <1>4, CleanupDie DEF SignalGateway
<1>5. CASE ListenFails
  <2>1. CASE gateway' = "returned" /\ UNCHANGED <<reliable, exit, gwVars>>
    BY <1>5, <2>1 DEF ListenFails, CleanupInv, gwVars
  <2> QED
    BY <1>5, <2>1, CleanupDie DEF ListenFails
<1>6. CASE FlushGateway
  <2>1. reliable /\ gwVars' # gwVars => gwLost' = gwLost
    BY <1>6 DEF FlushGateway, CollectorTakes
  <2>2. gp' = gp /\ gateway = "returned" /\ gateway' = "flushed" /\ UNCHANGED <<reliable, exit>>
    BY <1>6 DEF FlushGateway, GwSpans!ExportBatch, gwVars
  <2> QED
    BY <2>1, <2>2 DEF CleanupInv, gwVars
<1>7. CASE ShutdownGateway
  <2>1. /\ gateway = "flushed" /\ gateway' = "stopped" /\ UNCHANGED <<reliable, exit, at>>
        /\ finished' = {r \in Requests : at[r] = "done"}
    BY <1>7 DEF ShutdownGateway, requestVars
  <2>2. gp' = "stopped" /\ gwQueue' = {} /\ (reliable => gwLost' = gwLost)
    BY <1>7 DEF ShutdownGateway, CollectorTakes, GwSpans!Shutdown, GwSpans!Drain, GwSpans!GiveUp
  <2> QED
    BY <2>1, <2>2 DEF CleanupInv
<1>8. CASE ExitGateway
  BY <1>8 DEF ExitGateway, requestVars, gwVars, CleanupInv
<1>9. CASE Export
  <2>1. UNCHANGED <<reliable, gateway, exit, finished, at>> /\ Running
    BY <1>9 DEF Export, processVars, requestVars
  <2>2. gp = "up" /\ gp' = gp /\ gwQueue' = {} /\ (reliable => gwLost' = gwLost)
    BY <1>9 DEF Export, CollectorTakes, GwSpans!ExportBatch
  <2> QED
    BY <2>1, <2>2 DEF CleanupInv, Running
<1>10. ASSUME NEW r \in Requests, Arrive(r)
       PROVE  CleanupInv'
  BY <1>10 DEF Arrive, Goto, processVars, gwVars, CleanupInv
<1>11. ASSUME NEW r \in Requests, ClientLeaves(r) \/ SayHello(r)
       PROVE  CleanupInv'
  BY <1>11, CleanupFrame DEF ClientLeaves, SayHello, TakeCall, SayHelloFails, BackendOperation,
     Reply, ServeEnds, processVars
<1>12. ASSUME NEW r \in Requests, CallError(r)
       PROVE  CleanupInv'
  <2>1. CASE program.onCallError = "fatal"
    BY <1>12, <2>1, CleanupDie DEF CallError
  <2>2. CASE program.onCallError # "fatal"
    <3>1. /\ UNCHANGED <<reliable, gateway, exit, finished, gwVars>>
          /\ at[r] = "failed" /\ at' = [at EXCEPT ![r] = "end"]
      BY <1>12, <2>2 DEF CallError, Goto, processVars
    <3>2. gateway = "stopped" => \A q \in finished : at'[q] = "done"
      BY <3>1 DEF CleanupInv, ControlInv
    <3> QED
      BY <3>1, <3>2 DEF CleanupInv, gwVars
  <2> QED
    BY <2>1, <2>2
<1> QED
  BY <1>1, <1>2, <1>3, <1>4, <1>5, <1>6, <1>7, <1>8, <1>9, <1>10, <1>11, <1>12, CleanupHello
  DEF Next, Hello

(* Whatever handlers do while the cleanup runs, a gateway that returns     *)
(* from main has delivered every span of the requests that were through    *)
(* when it was shut down, unless the collector did not take them.          *)
THEOREM CleanupSafe == Spec => []CleanupKeepsFinished
<1>1. Init => CleanupInv
  BY DEF Init, CleanupInv, GwSpans!PipelineInit
<1>2. CleanupInv => CleanupKeepsFinished
  BY DEF CleanupInv, CleanupKeepsFinished, GwSpans!Ended
<1>3. TreeInv => ControlInv
  BY DEF TreeInv
<1> QED
  BY <1>1, <1>2, <1>3, TreeInvariant, CleanupNext, PTL DEF Spec
=============================================================================
