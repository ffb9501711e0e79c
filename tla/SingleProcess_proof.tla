------------------------ MODULE SingleProcess_proof ------------------------
(***************************************************************************)
(* Theorems about SingleProcess, for every set of requests, every choice   *)
(* of programs and every number of clients that leave.                     *)
(***************************************************************************)
EXTENDS SingleProcess, FiniteSetTheorems, TLAPS

(* A request that is through has no step left to end a span in, and what   *)
(* was through at the shutdown stays through.                              *)
DoneInv ==
    /\ \A r \in done : at[r] = Len(StepsOf(r)) + 1 /\ r \notin failed
    /\ finished \subseteq done
    /\ phase = "off" => \A r \in Requests : at[r] = 0

(* A collector that takes everything gets everything up to the shutdown,   *)
(* which leaves nothing behind; what is lost later is of other requests.   *)
DrainInv ==
    /\ phase \in {"off", "up", "returned", "flushed"} /\ reliable => lost = {}
    /\ phase = "stopped" \/ exit = "0" =>
         queue = {} /\ (reliable => \A s \in lost : s.req \notin finished)

(* A handler is about to log.Fatal because of a get that ended in error. *)
FailedInv ==
    \A r \in failed : \E s \in Spans!Ended : s.req = r /\ s.name = "get" /\ s.error

IInv == TypeOK /\ DoneInv /\ DrainInv /\ FailedInv /\ FatalOnlyAtGet

(* What the four programs have in common; a fatal call is a get. *)
LEMMA ProgramFacts ==
    ASSUME TypeOK
    PROVE  /\ program.root \in {"server", "batch.Run"} /\ program.flushes \in BOOLEAN
           /\ program.steps \in Seq(Names)
           /\ program.onError = "fatal" =>
                \A i \in DOMAIN program.steps :
                    program.steps[i] \in Remote => program.steps[i] = "get"
<1>1. PICK n \in ProgramNames : program = Programs[n]
  BY DEF TypeOK
<1>2. n \in {"simple", "multiPackage", "bridge", "batch"}
  BY ProgramsAssumption DEF Programs
<1> USE DEF Names, Remote
<1>3. CASE n = "simple"
  <2>1. program = Simple
    BY <1>1, <1>3 DEF Programs
  <2>2. /\ Simple.root \in {"server", "batch.Run"} /\ Simple.flushes \in BOOLEAN
        /\ Simple.steps = <<"op1", "op2", "get", "op3">>
    BY DEF Simple
  <2>3. Simple.steps \in Seq(Names)
    BY <2>2
  <2>4. Simple.onError = "fatal" =>
          \A i \in DOMAIN Simple.steps : Simple.steps[i] \in Remote => Simple.steps[i] = "get"
    BY <2>2
  <2> QED
    BY <2>1, <2>2, <2>3, <2>4
<1>4. CASE n = "multiPackage"
  <2>1. program = MultiPackage
    BY <1>1, <1>4 DEF Programs
  <2>2. /\ MultiPackage.root \in {"server", "batch.Run"} /\ MultiPackage.flushes \in BOOLEAN
        /\ MultiPackage.steps = <<"op1", "get", "op">>
    BY DEF MultiPackage
  <2>3. MultiPackage.steps \in Seq(Names)
    BY <2>2
  <2>4. MultiPackage.onError = "fatal" =>
          \A i \in DOMAIN MultiPackage.steps : MultiPackage.steps[i] \in Remote => MultiPackage.steps[i] = "get"
    BY <2>2
  <2> QED
    BY <2>1, <2>2, <2>3, <2>4
<1>5. CASE n = "bridge"
  <2>1. program = Bridge
    BY <1>1, <1>5 DEF Programs
  <2>2. /\ Bridge.root \in {"server", "batch.Run"} /\ Bridge.flushes \in BOOLEAN
        /\ Bridge.steps = <<"op1", "apply", "readRows">>
    BY DEF Bridge
  <2>3. Bridge.steps \in Seq(Names)
    BY <2>2
  <2>4. Bridge.onError = "fatal" =>
          \A i \in DOMAIN Bridge.steps : Bridge.steps[i] \in Remote => Bridge.steps[i] = "get"
    BY DEF Bridge
  <2> QED
    BY <2>1, <2>2, <2>3, <2>4
<1>6. CASE n = "batch"
  <2>1. program = Batch
    BY <1>1, <1>6 DEF Programs
  <2>2. /\ Batch.root \in {"server", "batch.Run"} /\ Batch.flushes \in BOOLEAN
        /\ Batch.steps = <<"fetch", "item-a", "item-b", "item-c">>
    BY DEF Batch
  <2>3. Batch.steps \in Seq(Names)
    BY <2>2
  <2>4. Batch.onError = "fatal" =>
          \A i \in DOMAIN Batch.steps : Batch.steps[i] \in Remote => Batch.steps[i] = "get"
    BY DEF Batch
  <2> QED
    BY <2>1, <2>2, <2>3, <2>4
<1> QED
  BY <1>2, <1>3, <1>4, <1>5, <1>6

LEMMA StepsFacts ==
    ASSUME TypeOK, NEW r \in Requests
    PROVE  /\ StepsOf(r) \in Seq(Names)
           /\ program.onError = "fatal" =>
                \A i \in DOMAIN StepsOf(r) : StepsOf(r)[i] \in Remote => StepsOf(r)[i] = "get"
BY ProgramFacts DEF StepsOf

LEMMA InitIInv == Init => IInv
<1> SUFFICES ASSUME Init PROVE IInv
  OBVIOUS
<1> USE DEF Init, Spans!PipelineInit
<1>1. Spans!Ended = {}
  BY DEF Spans!Ended
<1>2. path \in [Requests -> {"none", "alive", "hello"}] /\ at \in [Requests -> Nat]
  OBVIOUS
<1>3. queue \cup exported \cup lost = {}
  OBVIOUS
<1>4. TypeOK
  BY <1>2, <1>3 DEF TypeOK
<1>5. DoneInv /\ DrainInv /\ FailedInv /\ FatalOnlyAtGet
  BY <1>1 DEF DoneInv, DrainInv, FailedInv, FatalOnlyAtGet
<1> QED
  BY <1>4, <1>5 DEF IInv

(* What requests look like when no step of theirs is taken. *)
LEMMA RequestsFrame ==
    ASSUME IInv, UNCHANGED <<requestVars, program>>, finished' = finished \/ finished' = done,
           phase' # "off", Spans!Ended' = Spans!Ended
    PROVE  DoneInv' /\ FailedInv'
<1> USE DEF IInv, requestVars
<1>1. DoneInv'
  BY DEF DoneInv, StepsOf
<1>2. FailedInv'
  BY DEF FailedInv
<1> QED
  BY <1>1, <1>2

(* A span that ends while the process lives, of a request that is not done. *)
LEMMA EndSpanFrame ==
    ASSUME IInv, Alive, NEW s \in SpanType, Spans!EndSpan(s), s.req \notin done,
           UNCHANGED processVars
    PROVE  /\ Spans!Ended' = Spans!Ended \cup {s} /\ Spans!Ended' \subseteq SpanType
           /\ provider' = provider /\ DrainInv' /\ FatalOnlyAtGet'
<1> USE DEF IInv, processVars
<1>1. Spans!Ended' = Spans!Ended \cup {s} /\ provider' = provider
  BY DEF Spans!EndSpan, Spans!Ended
<1>2. Spans!Ended' \subseteq SpanType
  BY <1>1 DEF TypeOK, Spans!Ended
<1>3. exit = "none"
  BY DEF TypeOK, Alive
<1>4. ASSUME phase = "stopped" PROVE DrainInv'
  <2>1. provider = "stopped"
    BY <1>4 DEF TypeOK
  <2>2. queue' = queue /\ lost' = lost \cup {s}
    BY <2>1 DEF Spans!EndSpan
  <2> QED
    BY <1>3, <1>4, <2>2 DEF DrainInv, DoneInv
<1>5. ASSUME phase # "stopped" PROVE DrainInv'
  <2>1. provider = "up"
    BY <1>5 DEF TypeOK, Alive
  <2>2. lost' = lost
    BY <2>1 DEF Spans!EndSpan
  <2> QED
    BY <1>3, <1>5, <2>2 DEF DrainInv
<1>6. DrainInv'
  BY <1>4, <1>5
<1>7. FatalOnlyAtGet'
  BY <1>3 DEF FatalOnlyAtGet
<1> QED
  BY <1>1, <1>2, <1>6, <1>7

LEMMA StepEndsStep ==
    ASSUME IInv, NEW r \in Requests, NEW names, At(r, names), NEW error \in BOOLEAN,
           StepEnds(r, error),
           \/ failed' = failed
           \/ failed' = failed \cup {r} /\ error /\ StepsOf(r)[at[r]] = "get"
    PROVE  IInv'
<1> DEFINE s == Span(r, StepsOf(r)[at[r]], error, program.root)
<1>1. StepsOf(r) \in Seq(Names) /\ at[r] \in DOMAIN StepsOf(r) /\ Alive
  BY StepsFacts DEF IInv, At
<1>2. StepsOf(r)[at[r]] \in Names
  BY <1>1
<1>3. s \in SpanType /\ s.req = r /\ s.name = StepsOf(r)[at[r]] /\ s.error = error
  BY <1>2, ProgramFacts DEF IInv, Span, SpanType
<1>4. r \notin done
  BY <1>1 DEF IInv, DoneInv
<1>5. Spans!EndSpan(s) /\ UNCHANGED <<processVars, path, done, left>>
      /\ at' = [at EXCEPT ![r] = @ + 1]
  BY DEF StepEnds
<1> HIDE DEF s
<1>6. /\ Spans!Ended' = Spans!Ended \cup {s} /\ Spans!Ended' \subseteq SpanType
      /\ provider' = provider /\ DrainInv' /\ FatalOnlyAtGet'
  BY <1>1, <1>3, <1>4, <1>5, EndSpanFrame
<1>7. TypeOK'
  <2>1. at' \in [Requests -> Nat]
    BY <1>5 DEF IInv, TypeOK
  <2>2. queue' \cup exported' \cup lost' \subseteq SpanType
    BY <1>6 DEF Spans!Ended
  <2>3. failed' \subseteq Requests
    BY DEF IInv, TypeOK
  <2> QED
    BY <1>5, <1>6, <2>1, <2>2, <2>3 DEF IInv, TypeOK, processVars
<1>8. DoneInv'
  <2>1. \A q \in Requests : q # r => at'[q] = at[q] /\ StepsOf(q)' = StepsOf(q)
    BY <1>5 DEF IInv, TypeOK, StepsOf, processVars
  <2>2. phase' # "off" /\ finished' = finished /\ done' = done /\ done \subseteq Requests
    BY <1>1, <1>5 DEF Alive, processVars, IInv, TypeOK
  <2> QED
    BY <1>4, <2>1, <2>2 DEF IInv, DoneInv
<1>9. FailedInv'
  BY <1>3, <1>6 DEF IInv, FailedInv
<1> QED
  BY <1>6, <1>7, <1>8, <1>9 DEF IInv

LEMMA RequestStep ==
    ASSUME IInv, NEW r \in Requests, LocalStep(r) \/ RemoteAnswers(r) \/ RemoteFails(r)
    PROVE  IInv'
<1>1. CASE LocalStep(r)
  BY <1>1, StepEndsStep DEF LocalStep
<1>2. CASE RemoteAnswers(r)
  BY <1>2, StepEndsStep DEF RemoteAnswers
<1>3. CASE RemoteFails(r)
  <2>1. At(r, Remote) /\ StepEnds(r, TRUE)
    BY <1>3 DEF RemoteFails
  <2>2. program.onError = "fatal" => StepsOf(r)[at[r]] = "get"
    BY <2>1, StepsFacts DEF At, IInv
  <2> QED
    BY <1>3, <2>1, <2>2, StepEndsStep DEF RemoteFails
<1> QED
  BY <1>1, <1>2, <1>3

LEMMA EndRequestStep ==
    ASSUME IInv, NEW r \in Requests, EndRequest(r)
    PROVE  IInv'
<1> DEFINE s == Span(r, program.root, FALSE, "none")
<1>1. s \in SpanType /\ s.req = r
  BY ProgramFacts DEF IInv, Span, SpanType, Names
<1>2. Spans!EndSpan(s) /\ Alive /\ r \notin done \cup failed /\ at[r] = Len(StepsOf(r)) + 1
      /\ done' = done \cup {r} /\ UNCHANGED <<processVars, path, at, left, failed>>
  BY DEF EndRequest
<1> HIDE DEF s
<1>3. /\ Spans!Ended' = Spans!Ended \cup {s} /\ Spans!Ended' \subseteq SpanType
      /\ provider' = provider /\ DrainInv' /\ FatalOnlyAtGet'
  BY <1>1, <1>2, EndSpanFrame
<1>4. TypeOK'
  <2>1. queue' \cup exported' \cup lost' \subseteq SpanType
    BY <1>3 DEF Spans!Ended
  <2> QED
    BY <1>2, <1>3, <2>1 DEF IInv, TypeOK, processVars
<1>5. DoneInv'
  BY <1>2 DEF IInv, DoneInv, StepsOf, processVars
<1>6. FailedInv'
  BY <1>2, <1>3 DEF IInv, FailedInv
<1> QED
  BY <1>3, <1>4, <1>5, <1>6 DEF IInv

(* The process comes up, or does not. *)
LEMMA StartStep ==
    ASSUME IInv, Start \/ StartFails
    PROVE  IInv'
<1> USE DEF IInv, Start, StartFails, Spans!InstallProvider, requestVars, pipelineVars
<1>1. Spans!Ended' = Spans!Ended /\ queue' = queue /\ exported' = exported /\ lost' = lost
      /\ UNCHANGED <<program, reliable, finished, requestVars>>
      /\ phase = "off" /\ exit = "none"
  BY DEF Spans!Ended, TypeOK
<1>2. TypeOK'
  BY <1>1 DEF TypeOK
<1>3. DoneInv' /\ FailedInv'
  BY <1>1 DEF DoneInv, StepsOf, FailedInv
<1>4. DrainInv'
  BY <1>1 DEF DrainInv
<1>5. FatalOnlyAtGet'
  BY <1>1 DEF FatalOnlyAtGet, DoneInv
<1> QED
  BY <1>2, <1>3, <1>4, <1>5

(* A process that dies loses its queue, whatever the reason. *)
LEMMA DieStep ==
    ASSUME IInv, Alive, UNCHANGED requestVars, NEW code \in {"1", "signal"}, Die(code),
           code = "1" => failed # {}
    PROVE  IInv'
<1>1. /\ phase' = "down" /\ exit' = code /\ provider' = "none" /\ queue' = {}
      /\ exported' = exported /\ lost' = lost \cup queue
      /\ UNCHANGED <<program, reliable, finished, requestVars>>
  BY DEF Die, Spans!Kill
<1>2. Spans!Ended' = Spans!Ended
  BY <1>1 DEF Spans!Ended
<1>3. TypeOK'
  BY <1>1, <1>2 DEF IInv, TypeOK, requestVars
<1>4. DoneInv' /\ FailedInv'
  BY <1>1, <1>2, RequestsFrame
<1>5. DrainInv'
  BY <1>1 DEF DrainInv
<1>6. FatalOnlyAtGet'
  BY <1>1, <1>2 DEF FatalOnlyAtGet, IInv, FailedInv, DoneInv, requestVars
<1> QED
  BY <1>3, <1>4, <1>5, <1>6 DEF IInv

(* main returns, and is over. *)
LEMMA MainStep ==
    ASSUME IInv, ListenFails \/ JobReturns \/ Exit
    PROVE  IInv'
<1> USE DEF ListenFails, JobReturns, Exit
<1>1. /\ UNCHANGED <<program, reliable, finished, requestVars, pipelineVars>>
      /\ \/ phase = "up" /\ phase' = "returned" /\ exit' = exit
         \/ phase = "stopped" /\ phase' = "down" /\ exit' = "0"
  OBVIOUS
<1> USE DEF pipelineVars
<1>2. Spans!Ended' = Spans!Ended
  BY <1>1 DEF Spans!Ended
<1>3. TypeOK'
  BY <1>1 DEF IInv, TypeOK, requestVars
<1>4. DoneInv' /\ FailedInv'
  BY <1>1, <1>2, RequestsFrame
<1>5. DrainInv'
  BY <1>1 DEF IInv, TypeOK, DrainInv
<1>6. FatalOnlyAtGet'
  BY <1>1 DEF IInv, TypeOK, FatalOnlyAtGet
<1> QED
  BY <1>3, <1>4, <1>5, <1>6 DEF IInv

(* Spans leave the queue: exported, or lost if the collector is away. *)
LEMMA ExportStep ==
    ASSUME IInv, FlushProvider \/ Export
    PROVE  IInv'
<1> USE DEF FlushProvider, Export, pipelineVars, processVars, CollectorTakes, Spans!ExportBatch
<1>1. /\ UNCHANGED <<program, reliable, exit, finished, requestVars, provider>>
      /\ Spans!Ended' = Spans!Ended /\ (reliable => lost' = lost)
      /\ Alive
      /\ \/ phase' = phase /\ provider = "up"
         \/ phase = "returned" /\ phase' = "flushed"
  BY DEF Spans!Ended, Alive
<1> HIDE DEF FlushProvider, Export, Spans!ExportBatch, CollectorTakes
<1>2. TypeOK'
  <2>1. queue' \cup exported' \cup lost' \subseteq SpanType
    BY <1>1 DEF IInv, TypeOK, Spans!Ended
  <2> QED
    BY <1>1, <2>1 DEF IInv, TypeOK, requestVars
<1>3. DoneInv' /\ FailedInv'
  BY <1>1, RequestsFrame DEF Alive
<1>4. DrainInv'
  <2>1. phase \in {"up", "returned", "flushed"} /\ phase' \in {"up", "returned", "flushed"}
        /\ exit = "none" /\ exit' = "none"
    BY <1>1 DEF IInv, TypeOK, Alive
  <2> QED
    BY <1>1, <2>1 DEF IInv, DrainInv
<1>5. FatalOnlyAtGet'
  BY <1>1 DEF IInv, TypeOK, FatalOnlyAtGet, Alive
<1> QED
  BY <1>2, <1>3, <1>4, <1>5 DEF IInv

LEMMA ShutdownStep ==
    ASSUME IInv, ShutdownProvider
    PROVE  IInv'
<1>1. /\ UNCHANGED <<program, reliable, exit, requestVars>>
      /\ finished' = done /\ phase' = "stopped" /\ phase \in {"returned", "flushed"}
      /\ (Spans!Drain \/ Spans!GiveUp) /\ (reliable => lost' = lost)
  BY DEF ShutdownProvider, Spans!Shutdown, CollectorTakes
<1>2. Spans!Ended' = Spans!Ended /\ provider' = "stopped" /\ queue' = {}
  BY <1>1 DEF Spans!Drain, Spans!GiveUp, Spans!Ended
<1>3. exit = "none"
  BY <1>1 DEF IInv, TypeOK
<1>4. TypeOK'
  <2>1. queue' \cup exported' \cup lost' \subseteq SpanType
    BY <1>2 DEF IInv, TypeOK, Spans!Ended
  <2> QED
    BY <1>1, <1>2, <1>3, <2>1 DEF IInv, TypeOK, requestVars
<1>5. DoneInv' /\ FailedInv'
  BY <1>1, <1>2, RequestsFrame
<1>6. DrainInv'
  BY <1>1, <1>2 DEF IInv, DrainInv
<1>7. FatalOnlyAtGet'
  BY <1>1, <1>3 DEF FatalOnlyAtGet
<1> QED
  BY <1>4, <1>5, <1>6, <1>7 DEF IInv

LEMMA ArriveStep ==
    ASSUME IInv, NEW r \in Requests, Arrive(r)
    PROVE  IInv'
<1>1. /\ phase = "up" /\ at[r] = 0 /\ at' = [at EXCEPT ![r] = 1]
      /\ UNCHANGED <<processVars, done, left, failed, pipelineVars>>
  BY DEF Arrive
<1>2. PICK p \in {"alive", "hello"} : path' = [path EXCEPT ![r] = p]
  BY DEF Arrive
<1> USE DEF IInv, processVars, pipelineVars
<1>3. TypeOK'
  BY <1>1, <1>2 DEF TypeOK
<1>4. r \notin done
  <2>1. StepsOf(r) \in Seq(Names)
    BY StepsFacts
  <2>2. Len(StepsOf(r)) + 1 # 0
    BY <2>1
  <2> QED
    BY <1>1, <2>2 DEF DoneInv
<1>5. DoneInv'
  <2>1. \A q \in Requests : q # r => at'[q] = at[q] /\ StepsOf(q)' = StepsOf(q)
    BY <1>1, <1>2 DEF TypeOK, StepsOf
  <2> QED
    BY <1>1, <1>4, <2>1 DEF DoneInv, TypeOK
<1>6. Spans!Ended' = Spans!Ended
  BY <1>1 DEF Spans!Ended
<1>7. DrainInv' /\ FailedInv'
  BY <1>1, <1>6 DEF DrainInv, FailedInv
<1>8. FatalOnlyAtGet'
  BY <1>1 DEF TypeOK, FatalOnlyAtGet
<1> QED
  BY <1>3, <1>5, <1>7, <1>8

(* The steps that touch neither spans nor handlers. *)
LEMMA IdleStep ==
    ASSUME IInv, UNCHANGED vars \/ \E r \in Requests : ClientLeaves(r)
    PROVE  IInv'
<1>1. /\ UNCHANGED <<processVars, path, at, done, failed, pipelineVars>>
      /\ left' \subseteq Requests
  BY DEF ClientLeaves, vars, requestVars, IInv, TypeOK
<1> USE DEF IInv, processVars, pipelineVars
<1>2. TypeOK'
  BY <1>1 DEF TypeOK
<1>3. Spans!Ended' = Spans!Ended
  BY <1>1 DEF Spans!Ended
<1>4. DoneInv' /\ DrainInv' /\ FailedInv' /\ FatalOnlyAtGet'
  BY <1>1, <1>3 DEF DoneInv, StepsOf, DrainInv, FailedInv, FatalOnlyAtGet
<1> QED
  BY <1>2, <1>4

LEMMA NextIInv == IInv /\ [Next]_vars => IInv'
<1> SUFFICES ASSUME IInv, [Next]_vars PROVE IInv'
  OBVIOUS
<1>1. CASE Start \/ StartFails
  BY <1>1, StartStep
<1>2. CASE Signal
  BY <1>2, DieStep DEF Signal
<1>3. CASE ListenFails \/ Cleanup
  BY <1>3, MainStep, ExportStep, ShutdownStep DEF Cleanup
<1>4. CASE Export
  BY <1>4, ExportStep
<1>5. ASSUME NEW r \in Requests, Arrive(r)
      PROVE  IInv'
  BY <1>5, ArriveStep
<1>6. ASSUME NEW r \in Requests, LocalStep(r) \/ RemoteAnswers(r) \/ RemoteFails(r)
      PROVE  IInv'
  BY <1>6, RequestStep
<1>7. ASSUME NEW r \in Requests, Fatal(r)
      PROVE  IInv'
  BY <1>7, DieStep DEF Fatal
<1>8. ASSUME NEW r \in Requests, EndRequest(r)
      PROVE  IInv'
  BY <1>8, EndRequestStep
<1>9. CASE UNCHANGED vars \/ \E r \in Requests : ClientLeaves(r)
  BY <1>9, IdleStep
<1> QED
  BY <1>1, <1>2, <1>3, <1>4, <1>5, <1>6, <1>7, <1>8, <1>9 DEF Next

LEMMA Inductive == Spec => []IInv
BY InitIInv, NextIInv, PTL DEF Spec

(* Every variable keeps its type, and the provider is there exactly as     *)
(* long as main has not shut it down and the process lives.                *)
THEOREM TypeCorrect == Spec => []TypeOK
<1>1. IInv => TypeOK
  BY DEF IInv
<1> QED
  BY <1>1, Inductive, PTL

(* The cleanup of main: with a collector that takes what it is sent, every *)
(* span of a request that was through at the shutdown has reached it when  *)
(* main returns, whatever the other handlers were doing meanwhile.         *)
THEOREM CleanupSafe == Spec => []CleanupKeepsFinished
<1>1. IInv => CleanupKeepsFinished
  <2> SUFFICES ASSUME IInv, exit = "0", reliable, NEW r \in finished, NEW s \in SpansOf(r)
               PROVE  s \in exported
    BY DEF CleanupKeepsFinished
  <2>1. s \in queue \cup exported \cup lost /\ s.req = r
    BY DEF SpansOf, Spans!Ended
  <2>2. queue = {} /\ s \notin lost
    BY <2>1 DEF IInv, DrainInv
  <2> QED
    BY <2>1, <2>2
<1> QED
  BY <1>1, Inductive, PTL

(* log.Fatal: a process that served and ends with 1 had a get that failed; *)
(* the errors of Bigtable and of the job are nobody's end.                 *)
THEOREM FatalSafe == Spec => []FatalOnlyAtGet
<1>1. IInv => FatalOnlyAtGet
  BY DEF IInv
<1> QED
  BY <1>1, Inductive, PTL
-----------------------------------------------------------------------------
(* The trees *)

(* One child span for each step that is over, by name, and as many of them *)
(* as steps are over; the root span carries the name of its kind.          *)
TreeOf(r) ==
    /\ at[r] \in 0..Len(StepsOf(r)) + 1
    /\ \A s \in SpansOf(r) : s.parent = program.root \/ (s.parent = "none" /\ s.name = program.root)
    /\ (\E s \in SpansOf(r) : s.parent = "none") <=> r \in done
    /\ \A s \in Children(r) : \E i \in DOMAIN StepsOf(r) : i < at[r] /\ s.name = StepsOf(r)[i]
    /\ \A i \in DOMAIN StepsOf(r) : i < at[r] => \E s \in Children(r) : s.name = StepsOf(r)[i]
    /\ IsFiniteSet(Children(r))
    /\ Cardinality(Children(r)) = IF at[r] = 0 THEN 0 ELSE at[r] - 1

TreeInv == \A r \in Requests : TreeOf(r)

(* A job that was started is a hello; main returns only from one that is   *)
(* through, and shuts the provider down after that.                        *)
JobInv ==
    IsJob =>
      /\ \A r \in Requests : at[r] > 0 => path[r] = "hello"
      /\ phase \in {"returned", "flushed"} => done # {}
      /\ phase = "stopped" \/ exit = "0" => finished # {}
LEMMA ProgramSteps ==
    ASSUME TypeOK
    PROVE  /\ \A i, j \in DOMAIN program.steps : program.steps[i] = program.steps[j] => i = j
           /\ program.root # "none"
<1>1. PICK n \in ProgramNames : program = Programs[n]
  BY DEF TypeOK
<1>2. n \in {"simple", "multiPackage", "bridge", "batch"}
  BY ProgramsAssumption DEF Programs
<1>3. program = Simple \/ program = MultiPackage \/ program = Bridge \/ program = Batch
  BY <1>1, <1>2 DEF Programs
<1>4. /\ Simple.steps = <<"op1", "op2", "get", "op3">>
      /\ MultiPackage.steps = <<"op1", "get", "op">>
      /\ Bridge.steps = <<"op1", "apply", "readRows">>
      /\ Batch.steps = <<"fetch", "item-a", "item-b", "item-c">>
  BY DEF Simple, MultiPackage, Bridge, Batch
<1>5. ASSUME program.steps = <<"op1", "op2", "get", "op3">>
      PROVE  \A i, j \in DOMAIN program.steps : program.steps[i] = program.steps[j] => i = j
  BY <1>5
<1>6. ASSUME program.steps = <<"op1", "get", "op">>
      PROVE  \A i, j \in DOMAIN program.steps : program.steps[i] = program.steps[j] => i = j
  BY <1>6
<1>7. ASSUME program.steps = <<"op1", "apply", "readRows">>
      PROVE  \A i, j \in DOMAIN program.steps : program.steps[i] = program.steps[j] => i = j
  BY <1>7
<1>8. ASSUME program.steps = <<"fetch", "item-a", "item-b", "item-c">>
      PROVE  \A i, j \in DOMAIN program.steps : program.steps[i] = program.steps[j] => i = j
  BY <1>8
<1> QED
  BY <1>3, <1>4, <1>5, <1>6, <1>7, <1>8, ProgramFacts

LEMMA StepsDistinct ==
    ASSUME TypeOK, NEW r \in Requests
    PROVE  /\ StepsOf(r) \in Seq(Names)
           /\ \A i, j \in DOMAIN StepsOf(r) : StepsOf(r)[i] = StepsOf(r)[j] => i = j
           /\ program.root # "none"
BY ProgramSteps, StepsFacts DEF StepsOf

LEMMA InitTrees == Init => TreeInv /\ JobInv
<1> SUFFICES ASSUME Init PROVE TreeInv /\ JobInv
  OBVIOUS
<1>1. Spans!Ended = {}
  BY DEF Init, Spans!PipelineInit, Spans!Ended
<1>2. \A r \in Requests : SpansOf(r) = {} /\ Children(r) = {} /\ at[r] = 0 /\ StepsOf(r) = <<>>
  BY <1>1 DEF Init, SpansOf, Children, StepsOf
<1>3. TreeInv
  <2> SUFFICES ASSUME NEW r \in Requests PROVE TreeOf(r)
    BY DEF TreeInv
  <2>1. SpansOf(r) = {} /\ Children(r) = {} /\ at[r] = 0 /\ StepsOf(r) = <<>> /\ r \notin done
    BY <1>2 DEF Init
  <2>2. IsFiniteSet(Children(r)) /\ Cardinality(Children(r)) = 0
    BY <2>1, FS_EmptySet
  <2>3. DOMAIN StepsOf(r) = {} /\ at[r] \in 0..Len(StepsOf(r)) + 1
    BY <2>1
  <2> QED
    BY <2>1, <2>2, <2>3 DEF TreeOf
<1>4. JobInv
  BY DEF Init, JobInv
<1> QED
  BY <1>3, <1>4

(* A request whose handler does nothing keeps its tree. *)
LEMMA TreeKept ==
    ASSUME NEW r \in Requests, TreeOf(r), SpansOf(r)' = SpansOf(r), StepsOf(r)' = StepsOf(r),
           at'[r] = at[r], (r \in done)' = (r \in done), program' = program
    PROVE  TreeOf(r)'
<1>1. Children(r)' = Children(r)
  BY DEF Children
<1> QED
  BY <1>1 DEF TreeOf

(* The steps of the process and of clients end no span. *)
LEMMA NoSpanEnds ==
    ASSUME IInv, TreeInv, UNCHANGED <<program, path, at, done>>, Spans!Ended' = Spans!Ended
    PROVE  TreeInv'
<1>1. \A r \in Requests : SpansOf(r)' = SpansOf(r) /\ StepsOf(r)' = StepsOf(r)
  BY DEF SpansOf, StepsOf
<1> QED
  BY <1>1, TreeKept DEF TreeInv

LEMMA ProcessSteps ==
    ASSUME IInv, JobInv,
           \/ Start \/ StartFails \/ Signal \/ ListenFails \/ Cleanup \/ Export \/ UNCHANGED vars
           \/ \E r \in Requests : Fatal(r) \/ ClientLeaves(r)
    PROVE  /\ UNCHANGED <<program, path, at, done>> /\ Spans!Ended' = Spans!Ended
           /\ JobInv'
<1> USE DEF requestVars, pipelineVars, processVars
<1>1. CASE Start \/ StartFails
  <2>1. /\ UNCHANGED <<program, path, at, done>> /\ Spans!Ended' = Spans!Ended
        /\ phase' \in {"up", "down"} /\ exit' \in {"none", "1"}
    BY <1>1 DEF Start, StartFails, Spans!InstallProvider, Spans!Ended, IInv, TypeOK
  <2> QED
    BY <2>1 DEF JobInv, IsJob
<1>2. CASE Signal \/ \E r \in Requests : Fatal(r)
  <2>1. /\ UNCHANGED <<program, path, at, done>> /\ Spans!Ended' = Spans!Ended
        /\ phase' = "down" /\ exit' \in {"signal", "1"}
    BY <1>2 DEF Signal, Fatal, Die, Spans!Kill, Spans!Ended
  <2> QED
    BY <2>1 DEF JobInv, IsJob
<1>3. CASE ListenFails \/ JobReturns \/ Exit
  <2>1. UNCHANGED <<program, path, at, done, finished>> /\ Spans!Ended' = Spans!Ended
    BY <1>3 DEF ListenFails, JobReturns, Exit, Spans!Ended
  <2>2. IsJob => \/ done # {} /\ phase' = "returned" /\ exit' = "none"
                 \/ phase = "stopped" /\ phase' = "down"
    BY <1>3 DEF ListenFails, JobReturns, Exit, IInv, TypeOK
  <2> QED
    BY <2>1, <2>2 DEF JobInv, IsJob
<1>4. CASE FlushProvider \/ Export
  <2>1. /\ UNCHANGED <<program, path, at, done, finished, exit>> /\ Spans!Ended' = Spans!Ended
        /\ phase' = phase \/ (phase = "returned" /\ phase' = "flushed" /\ exit = "none")
    BY <1>4 DEF FlushProvider, Export, Spans!ExportBatch, Spans!Ended, IInv, TypeOK
  <2> QED
    BY <2>1 DEF JobInv, IsJob
<1>5. CASE ShutdownProvider
  <2>1. /\ UNCHANGED <<program, path, at, done>> /\ Spans!Ended' = Spans!Ended
        /\ phase \in {"returned", "flushed"} /\ phase' = "stopped" /\ finished' = done
    BY <1>5 DEF ShutdownProvider, Spans!Shutdown, Spans!Drain, Spans!GiveUp, Spans!Ended
  <2> QED
    BY <2>1 DEF JobInv, IsJob
<1>6. CASE UNCHANGED vars \/ \E r \in Requests : ClientLeaves(r)
  <2>1. /\ UNCHANGED <<program, path, at, done, phase, exit, finished>>
        /\ Spans!Ended' = Spans!Ended
    BY <1>6 DEF ClientLeaves, vars, Spans!Ended
  <2> QED
    BY <2>1 DEF JobInv, IsJob
<1> QED
  BY <1>1, <1>2, <1>3, <1>4, <1>5, <1>6 DEF Cleanup

LEMMA ArriveTrees ==
    ASSUME IInv, TreeInv, JobInv, NEW r \in Requests, Arrive(r)
    PROVE  TreeInv' /\ JobInv'
<1>1. /\ phase = "up" /\ at[r] = 0 /\ at' = [at EXCEPT ![r] = 1]
      /\ UNCHANGED <<processVars, done, pipelineVars>>
  BY DEF Arrive
<1>2. PICK p \in {"alive", "hello"} : path' = [path EXCEPT ![r] = p] /\ (IsJob => p = "hello")
  BY DEF Arrive
<1>3. \A q \in Requests : SpansOf(q)' = SpansOf(q) /\ Children(q)' = Children(q)
  BY <1>1 DEF SpansOf, Children, Spans!Ended, pipelineVars, processVars
<1>4. at'[r] = 1 /\ path'[r] = p /\ (\A q \in Requests \ {r} : at'[q] = at[q] /\ path'[q] = path[q])
  BY <1>1, <1>2 DEF IInv, TypeOK
<1>5. \A q \in Requests \ {r} : TreeOf(q)'
  <2> SUFFICES ASSUME NEW q \in Requests \ {r} PROVE TreeOf(q)'
    OBVIOUS
  <2>1. StepsOf(q)' = StepsOf(q)
    BY <1>1, <1>4 DEF StepsOf, processVars
  <2> QED
    BY <1>1, <1>3, <1>4, <2>1, TreeKept DEF TreeInv, processVars
<1>6. TreeOf(r)'
  <2>1. TypeOK' /\ StepsOf(r)' \in Seq(Names)
    <3>1. TypeOK'
      BY ArriveStep DEF IInv
    <3>2. program' \in {Programs[n] : n \in ProgramNames} /\ program' = program
      BY <1>1 DEF processVars, IInv, TypeOK
    <3>3. StepsOf(r)' \in Seq(Names)
      BY <3>2, ProgramFacts DEF StepsOf, IInv
    <3> QED
      BY <3>1, <3>3
  <2>2. at'[r] \in 0..Len(StepsOf(r)') + 1
    BY <1>4, <2>1
  <2>3. Cardinality(Children(r)) = 0 /\ IsFiniteSet(Children(r)) /\ Children(r) = {}
    BY <1>1, FS_EmptySet DEF TreeInv, TreeOf
  <2>4. \A i \in DOMAIN StepsOf(r)' : ~(i < at'[r])
    BY <1>4, <2>1
  <2>5. (r \in done)' = (r \in done) /\ program' = program
    BY <1>1 DEF processVars
  <2>6. /\ \A s \in SpansOf(r) : s.parent = program.root \/ (s.parent = "none" /\ s.name = program.root)
        /\ (\E s \in SpansOf(r) : s.parent = "none") <=> r \in done
    BY DEF TreeInv, TreeOf
  <2>7. Children(r)' = {} /\ IsFiniteSet(Children(r)') /\ Cardinality(Children(r)') = at'[r] - 1
    BY <1>3, <1>4, <2>3
  <2>8. /\ \A s \in SpansOf(r)' : \/ s.parent = program'.root
                                  \/ s.parent = "none" /\ s.name = program'.root
        /\ (\E s \in SpansOf(r)' : s.parent = "none") <=> (r \in done)'
    BY <1>3, <2>5, <2>6
  <2> QED
    BY <1>4, <2>2, <2>4, <2>7, <2>8 DEF TreeOf
<1>7. JobInv'
  BY <1>1, <1>2, <1>4 DEF JobInv, IsJob, processVars
<1> QED
  BY <1>5, <1>6, <1>7 DEF TreeInv

LEMMA StepTrees ==
    ASSUME IInv, TreeInv, JobInv, NEW r \in Requests, NEW names, At(r, names),
           NEW error \in BOOLEAN, StepEnds(r, error)
    PROVE  TreeInv' /\ JobInv'
<1> DEFINE s == Span(r, StepsOf(r)[at[r]], error, program.root)
<1>1. s.req = r /\ s.name = StepsOf(r)[at[r]] /\ s.parent = program.root
  BY DEF Span
<1>2. Spans!EndSpan(s) /\ UNCHANGED <<processVars, path, done, left>>
      /\ at' = [at EXCEPT ![r] = @ + 1]
  BY DEF StepEnds
<1> HIDE DEF s
<1>3. Spans!Ended' = Spans!Ended \cup {s}
  BY <1>2 DEF Spans!EndSpan, Spans!Ended
<1>4. program' = program /\ \A q \in Requests : StepsOf(q)' = StepsOf(q)
  BY <1>2 DEF StepsOf, processVars
<1>5. at'[r] = at[r] + 1 /\ at[r] \in Nat /\ (\A q \in Requests \ {r} : at'[q] = at[q])
  BY <1>2 DEF IInv, TypeOK
<1>6. \A q \in Requests \ {r} : TreeOf(q)'
  <2> SUFFICES ASSUME NEW q \in Requests \ {r} PROVE TreeOf(q)'
    OBVIOUS
  <2>1. SpansOf(q)' = SpansOf(q)
    BY <1>1, <1>3 DEF SpansOf
  <2> QED
    BY <1>2, <1>4, <1>5, <2>1, TreeKept DEF TreeInv
<1>7. TreeOf(r)'
  <2>1. /\ StepsOf(r) \in Seq(Names) /\ at[r] \in DOMAIN StepsOf(r) /\ program.root # "none"
        /\ \A i, j \in DOMAIN StepsOf(r) : StepsOf(r)[i] = StepsOf(r)[j] => i = j
    BY StepsDistinct DEF IInv, At
  <2>2. SpansOf(r)' = SpansOf(r) \cup {s} /\ Children(r)' = Children(r) \cup {s}
    BY <1>1, <1>3, <1>4 DEF SpansOf, Children
  <2>3. TreeOf(r)
    BY DEF TreeInv
  <2>4. s \notin Children(r)
    BY <1>1, <1>5, <2>1, <2>3 DEF TreeOf
  <2>5. IsFiniteSet(Children(r)') /\ Cardinality(Children(r)') = Cardinality(Children(r)) + 1
    <3>1. IsFiniteSet(Children(r))
      BY <2>3 DEF TreeOf
    <3>2. /\ IsFiniteSet(Children(r) \cup {s})
          /\ Cardinality(Children(r) \cup {s}) = Cardinality(Children(r)) + 1
      BY <2>4, <3>1, FS_AddElement
    <3> QED
      BY <2>2, <3>2
  <2>6. Cardinality(Children(r)') = at'[r] - 1 /\ at'[r] # 0
    BY <1>5, <2>1, <2>3, <2>5 DEF TreeOf
  <2>7. at'[r] \in 0..Len(StepsOf(r)) + 1
    BY <1>5, <2>1
  <2>8. \A t \in SpansOf(r)' : t.parent = program.root \/ (t.parent = "none" /\ t.name = program.root)
    BY <1>1, <2>2, <2>3 DEF TreeOf
  <2>9. (\E t \in SpansOf(r)' : t.parent = "none") <=> r \in done
    BY <1>1, <2>1, <2>2, <2>3 DEF TreeOf
  <2>10. \A t \in Children(r)' : \E i \in DOMAIN StepsOf(r) : i < at'[r] /\ t.name = StepsOf(r)[i]
    BY <1>1, <1>5, <2>1, <2>2, <2>3 DEF TreeOf
  <2>11. \A i \in DOMAIN StepsOf(r) : i < at'[r] => \E t \in Children(r)' : t.name = StepsOf(r)[i]
    <3> SUFFICES ASSUME NEW i \in DOMAIN StepsOf(r), i < at'[r]
                 PROVE  \E t \in Children(r)' : t.name = StepsOf(r)[i]
      OBVIOUS
    <3>1. i = at[r] \/ i < at[r]
      BY <1>5, <2>1
    <3> QED
      BY <1>1, <2>2, <2>3, <3>1 DEF TreeOf
  <2>12. (r \in done)' = (r \in done)
    BY <1>2
  <2> QED
    BY <1>4, <2>5, <2>6, <2>7, <2>8, <2>9, <2>10, <2>11, <2>12 DEF TreeOf
<1>8. JobInv'
  <2>1. phase' = phase /\ exit' = exit /\ finished' = finished /\ path' = path /\ done' = done
    BY <1>2 DEF processVars
  <2>2. \A q \in Requests : at'[q] > 0 => at[q] > 0 \/ path[q] = "hello"
    BY <1>5 DEF At, StepsOf
  <2> QED
    BY <1>4, <2>1, <2>2 DEF JobInv, IsJob
<1> QED
  BY <1>6, <1>7, <1>8 DEF TreeInv

LEMMA EndRequestTrees ==
    ASSUME IInv, TreeInv, JobInv, NEW r \in Requests, EndRequest(r)
    PROVE  TreeInv' /\ JobInv'
<1> DEFINE s == Span(r, program.root, FALSE, "none")
<1>1. s.req = r /\ s.name = program.root /\ s.parent = "none"
  BY DEF Span
<1>2. /\ Spans!EndSpan(s) /\ at[r] = Len(StepsOf(r)) + 1 /\ done' = done \cup {r}
      /\ UNCHANGED <<processVars, path, at>>
  BY DEF EndRequest
<1> HIDE DEF s
<1>3. Spans!Ended' = Spans!Ended \cup {s}
  BY <1>2 DEF Spans!EndSpan, Spans!Ended
<1>4. program' = program /\ \A q \in Requests : StepsOf(q)' = StepsOf(q)
  BY <1>2 DEF StepsOf, processVars
<1>5. \A q \in Requests \ {r} : TreeOf(q)'
  <2> SUFFICES ASSUME NEW q \in Requests \ {r} PROVE TreeOf(q)'
    OBVIOUS
  <2>1. SpansOf(q)' = SpansOf(q)
    BY <1>1, <1>3 DEF SpansOf
  <2> QED
    BY <1>2, <1>4, <2>1, TreeKept DEF TreeInv
<1>6. TreeOf(r)'
  <2>1. program.root # "none"
    BY StepsDistinct DEF IInv
  <2>2. SpansOf(r)' = SpansOf(r) \cup {s} /\ Children(r)' = Children(r)
    BY <1>1, <1>3, <1>4, <2>1 DEF SpansOf, Children
  <2>3. TreeOf(r) /\ (r \in done)' /\ at' = at
    BY <1>2 DEF TreeInv
  <2>4. \A t \in SpansOf(r)' : t.parent = program.root \/ (t.parent = "none" /\ t.name = program.root)
    BY <1>1, <2>2, <2>3 DEF TreeOf
  <2>5. \E t \in SpansOf(r)' : t.parent = "none"
    BY <1>1, <2>2
  <2> QED
    BY <1>4, <2>2, <2>3, <2>4, <2>5 DEF TreeOf
<1>7. JobInv'
  <2>1. UNCHANGED <<phase, exit, finished, path, at>> /\ done' # {}
    BY <1>2 DEF processVars
  <2> QED
    BY <1>4, <2>1 DEF JobInv, IsJob
<1> QED
  BY <1>5, <1>6, <1>7 DEF TreeInv

LEMMA NextTrees == IInv /\ TreeInv /\ JobInv /\ [Next]_vars => TreeInv' /\ JobInv'
<1> SUFFICES ASSUME IInv, TreeInv, JobInv, [Next]_vars PROVE TreeInv' /\ JobInv'
  OBVIOUS
<1>1. CASE \/ Start \/ StartFails \/ Signal \/ ListenFails \/ Cleanup \/ Export \/ UNCHANGED vars
           \/ \E r \in Requests : Fatal(r) \/ ClientLeaves(r)
  BY <1>1, ProcessSteps, NoSpanEnds
<1>2. ASSUME NEW r \in Requests, Arrive(r)
      PROVE  TreeInv' /\ JobInv'
  BY <1>2, ArriveTrees
<1>3. ASSUME NEW r \in Requests, LocalStep(r) \/ RemoteAnswers(r) \/ RemoteFails(r)
      PROVE  TreeInv' /\ JobInv'
  <2>1. CASE LocalStep(r)
    BY <2>1, StepTrees DEF LocalStep
  <2>2. CASE RemoteAnswers(r)
    BY <2>2, StepTrees DEF RemoteAnswers
  <2>3. CASE RemoteFails(r)
    BY <2>3, StepTrees DEF RemoteFails
  <2> QED
    BY <1>3, <2>1, <2>2, <2>3
<1>4. ASSUME NEW r \in Requests, EndRequest(r)
      PROVE  TreeInv' /\ JobInv'
  BY <1>4, EndRequestTrees
<1> QED
  BY <1>1, <1>2, <1>3, <1>4 DEF Next

LEMMA TreesHold == Spec => [](IInv /\ TreeInv /\ JobInv)
BY InitIInv, InitTrees, NextIInv, NextTrees, PTL DEF Spec

LEMMA TreesSafe == IInv /\ TreeInv => TraceTree
<1> SUFFICES ASSUME IInv, TreeInv, NEW r \in Requests
             PROVE  /\ r \in done => {s.name : s \in Children(r)} = {StepsOf(r)[i] : i \in DOMAIN StepsOf(r)}
                    /\ (\E s \in SpansOf(r) : s.parent = "none") <=> r \in done
                    /\ Cardinality(Children(r)) = IF at[r] = 0 THEN 0 ELSE at[r] - 1
  BY DEF TraceTree
<1>1. TreeOf(r) /\ StepsOf(r) \in Seq(Names)
  BY StepsDistinct DEF TreeInv, IInv
<1>2. ASSUME r \in done
      PROVE  {s.name : s \in Children(r)} = {StepsOf(r)[i] : i \in DOMAIN StepsOf(r)}
  <2>1. \A i \in DOMAIN StepsOf(r) : i < at[r]
    BY <1>1, <1>2 DEF IInv, DoneInv
  <2> QED
    BY <1>1, <2>1 DEF TreeOf
<1> QED
  BY <1>1, <1>2 DEF TreeOf

(* The trees of the READMEs: a root span is there exactly when its request *)
(* is through, under it one span for each step that is over and, at the    *)
(* end, for every step of the program, failed calls and clients that left  *)
(* included.                                                               *)
THEOREM TraceTreeSafe == Spec => []TraceTree
BY TreesHold, TreesSafe, PTL

(* run of batch: the exit code 0 says that the job ended all of its spans  *)
(* and, if the collector takes them, that all of them have reached it.     *)
THEOREM JobSafe == Spec => []JobExitTells
<1>1. IInv /\ TreeInv /\ JobInv => JobExitTells
  <2> SUFFICES ASSUME IInv, TreeInv, JobInv, IsJob, exit = "0"
               PROVE  \E r \in finished :
                        /\ {s.name : s \in SpansOf(r)}
                             = {program.root} \cup {program.steps[i] : i \in DOMAIN program.steps}
                        /\ reliable => SpansOf(r) \subseteq exported
    BY DEF JobExitTells
  <2>1. PICK r \in finished : TRUE
    BY DEF JobInv
  <2>2. r \in Requests /\ r \in done
    BY DEF IInv, DoneInv, TypeOK
  <2>3. StepsOf(r) = program.steps
    <3>1. StepsOf(r) \in Seq(Names) /\ at[r] = Len(StepsOf(r)) + 1
      BY <2>2, StepsDistinct DEF IInv, DoneInv
    <3>2. at[r] > 0
      BY <3>1
    <3> QED
      BY <2>2, <3>2 DEF JobInv, StepsOf
  <2>4. TreeOf(r) /\ {s.name : s \in Children(r)} = {program.steps[i] : i \in DOMAIN program.steps}
    BY <2>2, <2>3, TreesSafe DEF TraceTree, TreeInv
  <2>5. {s.name : s \in SpansOf(r)}
          = {program.root} \cup {program.steps[i] : i \in DOMAIN program.steps}
    <3>1. PICK root \in SpansOf(r) : root.parent = "none" /\ root.name = program.root
      BY <2>2, <2>4, StepsDistinct DEF TreeOf, IInv
    <3>2. \A s \in SpansOf(r) : s \in Children(r) \/ s.name = program.root
      BY <2>4 DEF TreeOf, Children
    <3>3. \A s \in Children(r) : s \in SpansOf(r)
      BY DEF Children
    <3> QED
      BY <2>4, <3>1, <3>2, <3>3
  <2>6. reliable => SpansOf(r) \subseteq exported
    BY <2>1 DEF IInv, DrainInv, SpansOf, Spans!Ended
  <2> QED
    BY <2>5, <2>6
<1> QED
  BY <1>1, TreesHold, PTL
=============================================================================
