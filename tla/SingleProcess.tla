--------------------------- MODULE SingleProcess ---------------------------
(***************************************************************************)
(* The four programs that are one process: the HTTP servers simple,        *)
(* multi-package and bridge, and the job batch.  A request, or the job,    *)
(* goes through a sequence of steps, each of which ends a child span, and  *)
(* ends its root span at the end; a process starts, serves, and ends in    *)
(* one of several ways while handlers are still at work.                   *)
(***************************************************************************)
EXTENDS Naturals, Sequences, FiniteSets

CONSTANTS
    Requests,          \* the requests a server gets, or the job of batch
    ProgramNames,      \* the programs under check
    MaxLeft            \* bound: clients that close their connection

(* What a program does for /hello (batch: for its job), what a failed call *)
(* does, and whether the cleanup flushes before it shuts down.             *)
Simple       == [root |-> "server", steps |-> <<"op1", "op2", "get", "op3">>,
                 onError |-> "fatal", flushes |-> TRUE]
MultiPackage == [root |-> "server", steps |-> <<"op1", "get", "op">>,
                 onError |-> "fatal", flushes |-> TRUE]
Bridge       == [root |-> "server", steps |-> <<"op1", "apply", "readRows">>,
                 onError |-> "ignore", flushes |-> TRUE]
Batch        == [root |-> "batch.Run", steps |-> <<"fetch", "item-a", "item-b", "item-c">>,
                 onError |-> "none", flushes |-> FALSE]

Programs == [simple |-> Simple, multiPackage |-> MultiPackage, bridge |-> Bridge, batch |-> Batch]

(* Steps that wait for somebody else: httpbin.org, or Bigtable. *)
Remote == {"get", "apply", "readRows"}

ASSUME ProgramsAssumption == ProgramNames \subseteq DOMAIN Programs /\ MaxLeft \in Nat

VARIABLES
    program,           \* the record of the program that runs
    reliable,          \* does the collector take the batches, in time?
    phase,             \* "off", "up", "returned", "flushed", "stopped" or "down"
    exit,              \* "none", "0", "1" or "signal"
    path,              \* [Requests -> "none", "alive" or "hello"]
    at,                \* [Requests -> the step a handler is before, 0 before it arrived]
    done,              \* requests whose root span has ended
    left,              \* clients that closed their connection
    failed,            \* handlers whose call failed and that are about to log.Fatal
    finished,          \* history: done when the provider was shut down
    provider, queue, exported, lost

processVars  == <<program, reliable, phase, exit, finished>>
requestVars  == <<path, at, done, left, failed>>
pipelineVars == <<provider, queue, exported, lost>>
vars == <<processVars, requestVars, pipelineVars>>

Spans == INSTANCE SpanPipeline WITH CollectorFails <- TRUE

(* A reliable collector loses nothing that is sent to it; the other one is *)
(* away for as long as the process lives.                                  *)
CollectorTakes == IF reliable THEN lost' = lost ELSE exported' = exported

StepsOf(r) == IF path[r] = "hello" THEN program.steps ELSE <<>>
IsJob == program.root = "batch.Run"
Alive == phase \in {"up", "returned", "flushed", "stopped"}

-----------------------------------------------------------------------------
(* The process *)

Init ==
    /\ program \in {Programs[n] : n \in ProgramNames} /\ reliable \in BOOLEAN
    /\ phase = "off" /\ exit = "none"
    /\ path = [r \in Requests |-> "none"] /\ at = [r \in Requests |-> 0]
    /\ done = {} /\ left = {} /\ failed = {} /\ finished = {}
    /\ Spans!PipelineInit

(* Init functions, configuration, provider: all there, main goes on. *)
Start ==
    /\ phase = "off" /\ phase' = "up"
    /\ Spans!InstallProvider
    /\ UNCHANGED <<program, reliable, exit, finished, requestVars>>

(* One of them fails: log.Fatal, or run returns 1; nothing to clean up. *)
StartFails ==
    /\ phase = "off" /\ phase' = "down" /\ exit' = "1"
    /\ UNCHANGED <<program, reliable, finished, requestVars, pipelineVars>>

(* The process ends on the spot, with all its handlers and its queue. *)
Die(code) ==
    /\ phase' = "down" /\ exit' = code
    /\ Spans!Kill
    /\ UNCHANGED <<program, reliable, finished>>

Signal == Alive /\ Die("signal") /\ UNCHANGED requestVars

(* ListenAndServe gives up, at once or later: main ignores the error and   *)
(* returns, whatever its handlers are doing.                               *)
ListenFails ==
    /\ phase = "up" /\ ~IsJob /\ phase' = "returned"
    /\ UNCHANGED <<program, reliable, exit, finished, requestVars, pipelineVars>>

(* (Mutant of JobReturns: run does not wait for the deferred span.End.) *)
JobReturnsEarly ==
    /\ phase = "up" /\ IsJob /\ (\E r \in Requests : at[r] > 0) /\ phase' = "returned"
    /\ UNCHANGED <<program, reliable, exit, finished, requestVars, pipelineVars>>

(* job.Run comes back to run; process and fetch have no error to give. *)
JobReturns ==
    /\ phase = "up" /\ IsJob /\ done # {} /\ phase' = "returned"
    /\ UNCHANGED <<program, reliable, exit, finished, requestVars, pipelineVars>>

(* The deferred cleanup of the servers: ForceFlush, up to five seconds ... *)
FlushProvider ==
    /\ phase = "returned" /\ program.flushes /\ phase' = "flushed"
    /\ \/ Spans!ExportBatch /\ CollectorTakes
       \/ (queue = {} \/ ~reliable) /\ UNCHANGED pipelineVars
    /\ UNCHANGED <<program, reliable, exit, finished, requestVars>>

(* (Mutant of ShutdownProvider: the provider is closed, not drained.) *)
ShutdownProviderDrops ==
    /\ phase = IF program.flushes THEN "flushed" ELSE "returned"
    /\ phase' = "stopped" /\ finished' = done
    /\ Spans!GiveUp
    /\ UNCHANGED <<program, reliable, exit, requestVars>>

(* (Mutant of ShutdownProvider: without a deadline it waits for ever.) *)
ShutdownProviderWaits ==
    /\ phase = (IF program.flushes THEN "flushed" ELSE "returned") /\ reliable
    /\ phase' = "stopped" /\ finished' = done
    /\ Spans!Drain
    /\ UNCHANGED <<program, reliable, exit, requestVars>>

(* ... then Shutdown, up to five seconds more; batch only has the latter.  *)
(* Handlers of a server go on, and end spans nobody will export.           *)
ShutdownProvider ==
    /\ phase = IF program.flushes THEN "flushed" ELSE "returned"
    /\ phase' = "stopped" /\ finished' = done
    /\ Spans!Shutdown /\ CollectorTakes
    /\ UNCHANGED <<program, reliable, exit, requestVars>>

(* main is over, with 0, and the handlers of a server with it. *)
Exit ==
    /\ phase = "stopped" /\ phase' = "down" /\ exit' = "0"
    /\ UNCHANGED <<program, reliable, finished, requestVars, pipelineVars>>

Export ==
    /\ Alive /\ Spans!ExportBatch /\ CollectorTakes
    /\ UNCHANGED <<processVars, requestVars>>

-----------------------------------------------------------------------------
(* A request, or the job *)

(* otelhttp starts the root span of a request and mux finds its handler;   *)
(* run starts the one job.                                                 *)
Arrive(r) ==
    /\ phase = "up" /\ at[r] = 0 /\ at' = [at EXCEPT ![r] = 1]
    /\ IsJob => \A q \in Requests : at[q] = 0
    /\ \E p \in IF IsJob THEN {"hello"} ELSE {"alive", "hello"} : path' = [path EXCEPT ![r] = p]
    /\ UNCHANGED <<processVars, done, left, failed, pipelineVars>>

Span(r, name, error, parent) == [req |-> r, name |-> name, error |-> error, parent |-> parent]

(* (Mutant of StepEnds: a step passes on the context of its own span.) *)
StepEndsNested(r, error) ==
    LET parent == IF at[r] = 1 THEN program.root ELSE StepsOf(r)[at[r] - 1] IN
    /\ at' = [at EXCEPT ![r] = @ + 1]
    /\ Spans!EndSpan(Span(r, StepsOf(r)[at[r]], error, parent))
    /\ UNCHANGED <<processVars, path, done, left>>

(* The step a handler is before is over: its span ends, the next is due. *)
StepEnds(r, error) ==
    /\ at' = [at EXCEPT ![r] = @ + 1]
    /\ Spans!EndSpan(Span(r, StepsOf(r)[at[r]], error, program.root))
    /\ UNCHANGED <<processVars, path, done, left>>

At(r, names) ==
    /\ Alive /\ r \notin failed
    /\ at[r] \in DOMAIN StepsOf(r) /\ StepsOf(r)[at[r]] \in names

(* Operation, Operation1 ..., fetch, an item: a sleep that does not look   *)
(* at the context.                                                         *)
LocalStep(r) ==
    /\ At(r, {"op", "op1", "op2", "op3", "fetch", "item-a", "item-b", "item-c"})
    /\ StepEnds(r, FALSE)
    /\ UNCHANGED failed

(* The answer, which may outrun a cancel; httpbin may answer with a status *)
(* that marks the span.                                                    *)
RemoteAnswers(r) ==
    /\ At(r, Remote)
    /\ \E error \in IF program.onError = "fatal" THEN BOOLEAN ELSE {FALSE} : StepEnds(r, error)
    /\ UNCHANGED failed

(* (Mutant of RemoteFails: the error of bridge is fatal too.) *)
RemoteFailsFatally(r) ==
    /\ At(r, Remote)
    /\ StepEnds(r, TRUE)
    /\ failed' = failed \cup {r}

(* (Mutant of RemoteFails: the call does not have the request's context.) *)
RemoteFailsDetached(r) ==
    /\ At(r, Remote) /\ r \notin left
    /\ StepEnds(r, TRUE)
    /\ failed' = IF program.onError = "fatal" THEN failed \cup {r} ELSE failed

(* No answer: the connection fails, Bigtable refuses, the client has left  *)
(* and its context is over.  The client span ends in error; bridge drops   *)
(* the error and goes on.                                                  *)
RemoteFails(r) ==
    /\ At(r, Remote)
    /\ StepEnds(r, TRUE)
    /\ failed' = IF program.onError = "fatal" THEN failed \cup {r} ELSE failed

(* log.Fatal: the end of the process, and of every request in it. *)
Fatal(r) == Alive /\ r \in failed /\ Die("1") /\ UNCHANGED requestVars

(* The client closes its connection, which cancels the context of hello. *)
ClientLeaves(r) ==
    /\ Alive /\ ~IsJob /\ at[r] > 0 /\ r \notin done \cup left /\ Cardinality(left) < MaxLeft
    /\ left' = left \cup {r}
    /\ UNCHANGED <<processVars, path, at, done, failed, pipelineVars>>

(* (Mutant of EndRequest: the root span ends before the last step.) *)
EndRequestEarly(r) ==
    /\ Alive /\ at[r] = Len(StepsOf(r)) /\ at[r] > 0 /\ r \notin done
    /\ done' = done \cup {r}
    /\ Spans!EndSpan(Span(r, program.root, FALSE, "none"))
    /\ UNCHANGED <<processVars, path, at, left, failed>>

(* The handler, or job.Run, is through, and the root span ends. *)
EndRequest(r) ==
    /\ Alive /\ at[r] = Len(StepsOf(r)) + 1 /\ r \notin done \cup failed
    /\ done' = done \cup {r}
    /\ Spans!EndSpan(Span(r, program.root, FALSE, "none"))
    /\ UNCHANGED <<processVars, path, at, left, failed>>

Handler(r) == LocalStep(r) \/ (r \in left /\ RemoteFails(r)) \/ Fatal(r) \/ EndRequest(r)

Cleanup == JobReturns \/ FlushProvider \/ ShutdownProvider \/ Exit

Next ==
    \/ Start
    \/ StartFails
    \/ Signal
    \/ ListenFails
    \/ Cleanup
    \/ Export
    \/ \E r \in Requests :
         \/ Arrive(r)
         \/ LocalStep(r)
         \/ RemoteAnswers(r)
         \/ RemoteFails(r)
         \/ Fatal(r)
         \/ ClientLeaves(r)
         \/ EndRequest(r)

Spec == Init /\ [][Next]_vars

(* Sleeps end, a cancelled call comes back, main goes on, and batch starts *)
(* its job.  Nobody has to answer: no call has a timeout.                  *)
FairSpec ==
    /\ Spec
    /\ \A r \in Requests : WF_vars(Handler(r)) /\ WF_vars(IsJob /\ Arrive(r))
    /\ WF_vars(Cleanup)

-----------------------------------------------------------------------------
(* Properties *)

Names == {"server", "batch.Run", "op", "op1", "op2", "op3", "fetch", "item-a", "item-b", "item-c"}
         \cup Remote

SpanType == [req : Requests, name : Names, error : BOOLEAN,
             parent : {"none", "server", "batch.Run"}]

(* The type of every variable; the provider follows the phase. *)
TypeOK ==
    /\ program \in {Programs[n] : n \in ProgramNames} /\ reliable \in BOOLEAN
    /\ phase \in {"off", "up", "returned", "flushed", "stopped", "down"}
    /\ exit \in {"none", "0", "1", "signal"} /\ (phase = "down" <=> exit # "none")
    /\ path \in [Requests -> {"none", "alive", "hello"}] /\ at \in [Requests -> Nat]
    /\ done \subseteq Requests /\ left \subseteq Requests /\ failed \subseteq Requests
    /\ finished \subseteq Requests
    /\ queue \cup exported \cup lost \subseteq SpanType
    /\ provider = CASE phase \in {"up", "returned", "flushed"} -> "up"
                    [] phase = "stopped" \/ exit = "0"         -> "stopped"
                    [] OTHER                                   -> "none"

SpansOf(r) == {s \in Spans!Ended : s.req = r}
Children(r) == {s \in SpansOf(r) : s.parent = program.root}

(* The trees of the READMEs: a root span has ended only after all of its   *)
(* children, each of them exactly once and none in another trace; a        *)
(* failed call of bridge and a cancelled request make no exception.        *)
TraceTree ==
    \A r \in Requests :
      /\ r \in done => {s.name : s \in Children(r)} = {StepsOf(r)[i] : i \in DOMAIN StepsOf(r)}
      /\ (\E s \in SpansOf(r) : s.parent = "none") <=> r \in done
      /\ Cardinality(Children(r)) = IF at[r] = 0 THEN 0 ELSE at[r] - 1

(* cleanup in main: when a server returns, requests that were through when *)
(* the provider was shut down have all their spans at the collector, as    *)
(* long as it takes what it is sent.                                       *)
CleanupKeepsFinished ==
    exit = "0" /\ reliable => \A r \in finished : SpansOf(r) \subseteq exported

(* batch/main.go, 34 to 41: an exit code of 0 means that the whole job was *)
(* done and, with a collector that takes the batches, that its whole trace *)
(* was handed over before the process ended.                               *)
JobExitTells ==
    IsJob /\ exit = "0" =>
        \E r \in finished :
            /\ {s.name : s \in SpansOf(r)}
                 = {program.root} \cup {program.steps[i] : i \in DOMAIN program.steps}
            /\ reliable => SpansOf(r) \subseteq exported

(* A process that ends with 1 after it served was ended by a failed get:   *)
(* bridge and batch survive whatever their calls do, and a failed start    *)
(* leaves no request behind.                                               *)
FatalOnlyAtGet ==
    exit = "1" =>
        \/ \A r \in Requests : at[r] = 0
        \/ \E s \in Spans!Ended : s.name = "get" /\ s.error /\ s.req \notin done

(* A client that leaves releases its handler, although no call has a       *)
(* timeout: hello gives the context of its request to every call.          *)
LeaversRelease == \A r \in Requests : r \in left ~> r \in done \/ phase = "down"

(* The deadlines of the cleanup: whatever the collector does, a process    *)
(* whose main returned ends, and so does the job of batch.                 *)
RunEnds == phase = "returned" \/ (IsJob /\ phase = "up") ~> phase = "down"
=============================================================================
