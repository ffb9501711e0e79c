---------------------------- MODULE Worker_proof ----------------------------
(***************************************************************************)
(* Theorems about Worker, for every set of messages, every number of       *)
(* publishes, of starts and of lost acknowledgements.                      *)
(***************************************************************************)
EXTENDS Worker, TLAPS

LEMMA BoundsType == PerRun \in Nat /\ MaxRuns \in Nat /\ MaxLostAcks \in Nat
BY WorkerAssumption

USE BoundsType

Running == {"create", "bootstrap", "receive", "stopping", "closed"}

HandleSpan(m) == [msg |-> m, name |-> "handle-message", run |-> runs]

(* Publishes are on their way only while Bootstrap runs, and what is on    *)
(* its way is not in the subscription.                                     *)
FlightInv ==
    /\ inFlight # {} => pc = "bootstrap"
    /\ inFlight \cap (stored \cup acked) = {}

(* Callbacks run only inside Receive, on messages that are not settled; a  *)
(* callback that is about to acknowledge has ended its span in this run.   *)
CallbackInv ==
    \A m \in Messages :
        /\ callback[m] # "none" => pc = "receive" /\ m \in stored
        /\ callback[m] = "handled" => HandleSpan(m) \in Spans!Ended

(* The provider is there as long as the process; spans belong to this run  *)
(* or to an earlier one, and with a reliable collector only a killed       *)
(* process has lost some of its own.                                       *)
RunInv ==
    /\ pc \in Running => provider = "up" /\ runs > 0
    /\ \A s \in Spans!Ended : s.run <= runs
    /\ pc # "killed" /\ reliable => \A s \in lost : s.run < runs
    /\ pc = "exited" => queue = {}

IInv == TypeOK /\ DeliveriesTraced /\ FlightInv /\ CallbackInv /\ RunInv

(* Steps that end no span and lose none leave the claims about spans. *)
LEMMA SpansFrame ==
    ASSUME IInv, UNCHANGED <<runs, reliable, pipelineVars>>
    PROVE  /\ Spans!Ended' = Spans!Ended
           /\ Spans!Ended' \subseteq SpanType /\ provider' \in {"none", "up", "stopped"}
           /\ DeliveriesTraced'
           /\ \A s \in Spans!Ended' : s.run <= runs'
<1> USE DEF IInv, pipelineVars
<1>1. Spans!Ended' = Spans!Ended
  BY DEF Spans!Ended
<1>2. DeliveriesTraced'
  BY <1>1 DEF DeliveriesTraced
<1> QED
  BY <1>1, <1>2 DEF TypeOK, RunInv

(* One more span, of the run that goes on, while the provider is there. *)
LEMMA EndSpanFrame ==
    ASSUME IInv, runs' = runs, reliable' = reliable, pc' = pc, pc \in Running, NEW s \in SpanType, s.run = runs,
           Spans!EndSpan(s),
           s.name = "subscribe" => [s EXCEPT !.name = "handle-message"] \in Spans!Ended
    PROVE  /\ Spans!Ended' = Spans!Ended \cup {s}
           /\ Spans!Ended' \subseteq SpanType /\ provider' \in {"none", "up", "stopped"}
           /\ DeliveriesTraced' /\ RunInv'
<1> USE DEF IInv
<1>1. provider = "up" /\ provider' = provider /\ lost' = lost /\ queue' = queue \cup {s}
      /\ exported' = exported
  BY DEF RunInv, Spans!EndSpan
<1>2. Spans!Ended' = Spans!Ended \cup {s}
  BY <1>1 DEF Spans!Ended
<1>3. Spans!Ended' \subseteq SpanType
  BY <1>2 DEF TypeOK
<1>4. DeliveriesTraced'
  BY <1>2, <1>3 DEF DeliveriesTraced, SpanType
<1>5. runs \in Nat
  BY DEF TypeOK
<1>6. RunInv'
  BY <1>1, <1>2, <1>5 DEF RunInv, Running
<1> QED
  BY <1>1, <1>2, <1>3, <1>4, <1>6

LEMMA InitIInv == Init => IInv
<1> SUFFICES ASSUME Init PROVE IInv
  OBVIOUS
<1> USE DEF Init, Spans!PipelineInit
<1>0. Spans!Ended = {}
  BY DEF Spans!Ended
<1>1. TypeOK
  <2>1. callback \in [Messages -> {"none", "handling", "handled"}]
    OBVIOUS
  <2>2. runs \in 0 .. MaxRuns /\ toPublish \in 0 .. PerRun /\ lostAcks \in 0 .. MaxLostAcks
    OBVIOUS
  <2> QED
    BY <1>0, <2>1, <2>2 DEF TypeOK
<1>2. DeliveriesTraced
  BY <1>0 DEF DeliveriesTraced
<1>3. FlightInv /\ CallbackInv /\ RunInv
  BY <1>0 DEF FlightInv, CallbackInv, RunInv, Running
<1> QED
  BY <1>1, <1>2, <1>3 DEF IInv

LEMMA CreateStep ==
    ASSUME IInv, Create
    PROVE  IInv'
<1> USE DEF Create, processVars, brokerVars
<1>1. UNCHANGED <<runs, reliable, pipelineVars>>
  OBVIOUS
<1>2. TypeOK'
  BY <1>1, SpansFrame DEF IInv, TypeOK, pipelineVars
<1>3. FlightInv'
  BY DEF IInv, TypeOK, FlightInv
<1>4. CallbackInv'
  BY <1>1, SpansFrame DEF IInv, TypeOK, CallbackInv, HandleSpan
<1>5. RunInv'
  BY <1>1, SpansFrame DEF IInv, RunInv, Running, pipelineVars
<1> QED
  BY <1>1, <1>2, <1>3, <1>4, <1>5, SpansFrame DEF IInv

LEMMA PublishOneStep ==
    ASSUME IInv, PublishOne
    PROVE  IInv'
<1> USE DEF PublishOne, processVars, brokerVars
<1>1. UNCHANGED <<runs, reliable, pipelineVars>>
  OBVIOUS
<1>2. TypeOK'
  BY <1>1, SpansFrame DEF IInv, TypeOK, pipelineVars
<1>3. FlightInv'
  BY DEF IInv, TypeOK, FlightInv
<1>4. CallbackInv'
  BY <1>1, SpansFrame DEF IInv, TypeOK, CallbackInv, HandleSpan
<1>5. RunInv'
  BY <1>1, SpansFrame DEF IInv, RunInv, Running, pipelineVars
<1> QED
  BY <1>1, <1>2, <1>3, <1>4, <1>5, SpansFrame DEF IInv

LEMMA StopTopicStep ==
    ASSUME IInv, StopTopic
    PROVE  IInv'
<1> USE DEF StopTopic, processVars, brokerVars
<1>1. UNCHANGED <<runs, reliable, pipelineVars>>
  OBVIOUS
<1>2. TypeOK'
  BY <1>1, SpansFrame DEF IInv, TypeOK, pipelineVars
<1>3. FlightInv'
  BY DEF IInv, TypeOK, FlightInv
<1>4. CallbackInv'
  BY <1>1, SpansFrame DEF IInv, TypeOK, CallbackInv, HandleSpan
<1>5. RunInv'
  BY <1>1, SpansFrame DEF IInv, RunInv, Running, pipelineVars
<1> QED
  BY <1>1, <1>2, <1>3, <1>4, <1>5, SpansFrame DEF IInv

LEMMA SignalStep ==
    ASSUME IInv, Signal
    PROVE  IInv'
<1> USE DEF Signal, processVars, brokerVars
<1>1. UNCHANGED <<runs, reliable, pipelineVars>>
  OBVIOUS
<1>2. TypeOK'
  BY <1>1, SpansFrame DEF IInv, TypeOK, pipelineVars
<1>3. FlightInv'
  BY DEF IInv, TypeOK, FlightInv
<1>4. CallbackInv'
  BY <1>1, SpansFrame DEF IInv, TypeOK, CallbackInv, HandleSpan
<1>5. RunInv'
  BY <1>1, SpansFrame DEF IInv, RunInv, Running, pipelineVars
<1> QED
  BY <1>1, <1>2, <1>3, <1>4, <1>5, SpansFrame DEF IInv

LEMMA ReceiveReturnsStep ==
    ASSUME IInv, ReceiveReturns
    PROVE  IInv'
<1> USE DEF ReceiveReturns, processVars, brokerVars
<1>1. UNCHANGED <<runs, reliable, pipelineVars>>
  OBVIOUS
<1>2. TypeOK'
  BY <1>1, SpansFrame DEF IInv, TypeOK, pipelineVars
<1>3. FlightInv'
  BY DEF IInv, TypeOK, FlightInv
<1>4. CallbackInv'
  BY <1>1, SpansFrame DEF IInv, TypeOK, CallbackInv, HandleSpan
<1>5. RunInv'
  BY <1>1, SpansFrame DEF IInv, RunInv, Running, pipelineVars
<1> QED
  BY <1>1, <1>2, <1>3, <1>4, <1>5, SpansFrame DEF IInv

LEMMA CloseClientStep ==
    ASSUME IInv, CloseClient
    PROVE  IInv'
<1> USE DEF CloseClient, processVars, brokerVars
<1>1. UNCHANGED <<runs, reliable, pipelineVars>>
  OBVIOUS
<1>2. TypeOK'
  BY <1>1, SpansFrame DEF IInv, TypeOK, pipelineVars
<1>3. FlightInv'
  BY DEF IInv, TypeOK, FlightInv
<1>4. CallbackInv'
  BY <1>1, SpansFrame DEF IInv, TypeOK, CallbackInv, HandleSpan
<1>5. RunInv'
  BY <1>1, SpansFrame DEF IInv, RunInv, Running, pipelineVars
<1> QED
  BY <1>1, <1>2, <1>3, <1>4, <1>5, SpansFrame DEF IInv

LEMMA DeliverStep ==
    ASSUME IInv, NEW m \in Messages, Deliver(m)
    PROVE  IInv'
<1> USE DEF Deliver, processVars, brokerVars
<1>1. UNCHANGED <<runs, reliable, pipelineVars>>
  OBVIOUS
<1>2. TypeOK'
  BY <1>1, SpansFrame DEF IInv, TypeOK, pipelineVars
<1>3. FlightInv'
  BY DEF IInv, TypeOK, FlightInv
<1>4. CallbackInv'
  BY <1>1, SpansFrame DEF IInv, TypeOK, CallbackInv, HandleSpan
<1>5. RunInv'
  BY <1>1, SpansFrame DEF IInv, RunInv, Running, pipelineVars
<1> QED
  BY <1>1, <1>2, <1>3, <1>4, <1>5, SpansFrame DEF IInv

LEMMA PublishEndsStep ==
    ASSUME IInv, NEW m \in Messages, PublishEnds(m)
    PROVE  IInv'
<1> DEFINE s == [msg |-> m, name |-> "publish", run |-> runs]
<1> USE DEF PublishEnds, processVars, brokerVars
<1>1. pc \in Running /\ runs > 0 /\ runs \in 1 .. MaxRuns
  BY DEF IInv, TypeOK, FlightInv, CallbackInv, RunInv, Running
<1>2. s \in SpanType /\ s.run = runs
  BY <1>1 DEF SpanType, HandleSpan
<1>3. s.name = "subscribe" => [s EXCEPT !.name = "handle-message"] \in Spans!Ended
  OBVIOUS
<1>4. Spans!EndSpan(s) /\ runs' = runs /\ reliable' = reliable /\ pc' = pc
  BY DEF HandleSpan
<1>5. /\ Spans!Ended' = Spans!Ended \cup {s}
      /\ Spans!Ended' \subseteq SpanType /\ provider' \in {"none", "up", "stopped"}
      /\ DeliveriesTraced' /\ RunInv'
  <2> HIDE DEF s, PublishEnds
  <2> QED
    BY <1>1, <1>2, <1>3, <1>4, EndSpanFrame
<1> HIDE DEF s
<1>6. TypeOK'
  BY <1>1, <1>5 DEF IInv, TypeOK, CallbackInv, FlightInv
<1>7. FlightInv'
  BY DEF IInv, TypeOK, FlightInv
<1>8. CallbackInv'
  BY <1>4, <1>5 DEF IInv, TypeOK, CallbackInv, HandleSpan
<1> QED
  BY <1>5, <1>6, <1>7, <1>8 DEF IInv

LEMMA HandleMessageStep ==
    ASSUME IInv, NEW m \in Messages, HandleMessage(m)
    PROVE  IInv'
<1> DEFINE s == HandleSpan(m)
<1> USE DEF HandleMessage, processVars, brokerVars
<1>1. pc \in Running /\ runs > 0 /\ runs \in 1 .. MaxRuns
  BY DEF IInv, TypeOK, FlightInv, CallbackInv, RunInv, Running
<1>2. s \in SpanType /\ s.run = runs
  BY <1>1 DEF SpanType, HandleSpan
<1>3. s.name = "subscribe" => [s EXCEPT !.name = "handle-message"] \in Spans!Ended
  BY DEF HandleSpan
<1>4. Spans!EndSpan(s) /\ runs' = runs /\ reliable' = reliable /\ pc' = pc
  BY DEF HandleSpan
<1>5. /\ Spans!Ended' = Spans!Ended \cup {s}
      /\ Spans!Ended' \subseteq SpanType /\ provider' \in {"none", "up", "stopped"}
      /\ DeliveriesTraced' /\ RunInv'
  <2> HIDE DEF s, HandleMessage
  <2> QED
    BY <1>1, <1>2, <1>3, <1>4, EndSpanFrame
<1> HIDE DEF s
<1>6. TypeOK'
  BY <1>1, <1>5 DEF IInv, TypeOK, CallbackInv, FlightInv
<1>7. FlightInv'
  BY DEF IInv, TypeOK, FlightInv
<1>8. CallbackInv'
  BY <1>4, <1>5 DEF IInv, TypeOK, CallbackInv, HandleSpan, s
<1> QED
  BY <1>5, <1>6, <1>7, <1>8 DEF IInv

LEMMA AckStep ==
    ASSUME IInv, NEW m \in Messages, Ack(m)
    PROVE  IInv'
<1> DEFINE s == [msg |-> m, name |-> "subscribe", run |-> runs]
<1> USE DEF Ack, processVars, brokerVars
<1>1. pc \in Running /\ runs > 0 /\ runs \in 1 .. MaxRuns
  BY DEF IInv, TypeOK, FlightInv, CallbackInv, RunInv, Running
<1>2. s \in SpanType /\ s.run = runs
  BY <1>1 DEF SpanType, HandleSpan
<1>3. s.name = "subscribe" => [s EXCEPT !.name = "handle-message"] \in Spans!Ended
  <2>1. HandleSpan(m) \in Spans!Ended
    BY DEF IInv, CallbackInv
  <2>2. [s EXCEPT !.name = "handle-message"] = HandleSpan(m)
    BY DEF HandleSpan
  <2> QED
    BY <2>1, <2>2
<1>4. Spans!EndSpan(s) /\ runs' = runs /\ reliable' = reliable /\ pc' = pc
  BY DEF HandleSpan
<1>5. /\ Spans!Ended' = Spans!Ended \cup {s}
      /\ Spans!Ended' \subseteq SpanType /\ provider' \in {"none", "up", "stopped"}
      /\ DeliveriesTraced' /\ RunInv'
  <2> HIDE DEF s, Ack
  <2> QED
    BY <1>1, <1>2, <1>3, <1>4, EndSpanFrame
<1> HIDE DEF s
<1>6. TypeOK'
  BY <1>1, <1>5 DEF IInv, TypeOK, CallbackInv, FlightInv
<1>7. FlightInv'
  BY DEF IInv, TypeOK, FlightInv, CallbackInv
<1>8. CallbackInv'
  BY <1>4, <1>5 DEF IInv, TypeOK, CallbackInv, HandleSpan
<1> QED
  BY <1>5, <1>6, <1>7, <1>8 DEF IInv

(* The process starts: what is there belongs to earlier runs. *)
LEMMA StartStep ==
    ASSUME IInv, Start
    PROVE  IInv'
<1> USE DEF Start, brokerVars, Spans!InstallProvider
<1>1. Spans!Ended' = Spans!Ended /\ lost' = lost /\ provider' = "up" /\ runs' = runs + 1
  BY DEF Spans!Ended
<1>2. runs \in Nat /\ runs' \in 1 .. MaxRuns
  BY DEF IInv, TypeOK
<1>3. toPublish' \in 0 .. PerRun /\ pc' \in {"create", "receive"} /\ bootstrap' \in BOOLEAN
  OBVIOUS
<1>4. TypeOK'
  <2>1. UNCHANGED <<subscribed, inFlight, unused, stored, acked, lostAcks, callback>>
    OBVIOUS
  <2>2. signalled' \in BOOLEAN /\ reliable' \in BOOLEAN
    OBVIOUS
  <2>3. runs' \in 0 .. MaxRuns
    BY <1>2
  <2> HIDE DEF Start
  <2> QED
    BY <1>1, <1>3, <2>1, <2>2, <2>3 DEF IInv, TypeOK
<1>5. DeliveriesTraced'
  BY <1>1 DEF IInv, DeliveriesTraced
<1>6. FlightInv'
  BY DEF IInv, FlightInv
<1>7. CallbackInv'
  BY DEF IInv, CallbackInv
<1>8. RunInv'
  <2>1. \A x \in Spans!Ended : x.run \in Nat /\ x.run <= runs
    BY DEF IInv, TypeOK, SpanType, RunInv
  <2>2. lost \subseteq Spans!Ended
    BY DEF Spans!Ended
  <2>3. \A x \in Spans!Ended : x.run < runs'
    BY <1>1, <1>2, <2>1
  <2> QED
    BY <1>1, <1>2, <1>3, <2>1, <2>2, <2>3 DEF RunInv
<1> QED
  BY <1>4, <1>5, <1>6, <1>7, <1>8 DEF IInv

(* The provider is drained, or gives up: a reliable collector gets all.    *)
LEMMA ShutdownStep ==
    ASSUME IInv, ShutdownProvider
    PROVE  IInv'
<1> USE DEF ShutdownProvider, brokerVars, processVars, CollectorTakes
<1>1. /\ Spans!Ended' = Spans!Ended /\ provider' = "stopped" /\ queue' = {}
      /\ reliable => lost' = lost
  BY DEF Spans!Ended, Spans!Shutdown, Spans!Drain, Spans!GiveUp
<1>2. TypeOK'
  BY <1>1 DEF IInv, TypeOK
<1>3. DeliveriesTraced'
  BY <1>1 DEF IInv, DeliveriesTraced
<1>4. FlightInv' /\ CallbackInv'
  BY DEF IInv, FlightInv, CallbackInv
<1>5. RunInv'
  BY <1>1 DEF IInv, RunInv, Running
<1> QED
  BY <1>2, <1>3, <1>4, <1>5 DEF IInv

LEMMA ExportStep ==
    ASSUME IInv, Export
    PROVE  IInv'
<1> USE DEF Export, brokerVars, processVars, CollectorTakes
<1>1. /\ Spans!Ended' = Spans!Ended /\ provider' = provider /\ queue' = {}
      /\ reliable => lost' = lost
  BY DEF Spans!Ended, Spans!ExportBatch
<1>2. TypeOK'
  BY <1>1 DEF IInv, TypeOK
<1>3. DeliveriesTraced'
  BY <1>1 DEF IInv, DeliveriesTraced
<1>4. FlightInv' /\ CallbackInv'
  BY <1>1 DEF IInv, FlightInv, CallbackInv, HandleSpan
<1>5. RunInv'
  BY <1>1 DEF IInv, RunInv, Running
<1> QED
  BY <1>2, <1>3, <1>4, <1>5 DEF IInv

(* The process is killed: its callbacks and its queue are gone. *)
LEMMA KilledStep ==
    ASSUME IInv, Killed
    PROVE  IInv'
<1> USE DEF Killed, processVars, Spans!Kill
<1>1. Spans!Ended' = Spans!Ended /\ provider' = "none" /\ pc' = "killed"
  BY DEF Spans!Ended
<1>2. callback' \in [Messages -> {"none", "handling", "handled"}]
      /\ \A m \in Messages : callback'[m] = "none"
  OBVIOUS
<1>3. stored' \subseteq stored \cup inFlight
  OBVIOUS
<1>4. TypeOK'
  BY <1>1, <1>2, <1>3 DEF IInv, TypeOK, FlightInv
<1>5. DeliveriesTraced'
  BY <1>1 DEF IInv, DeliveriesTraced
<1>6. FlightInv' /\ CallbackInv'
  BY <1>2 DEF FlightInv, CallbackInv
<1>7. RunInv'
  BY <1>1 DEF IInv, RunInv, Running
<1> QED
  BY <1>4, <1>5, <1>6, <1>7 DEF IInv

LEMMA NextIInv == IInv /\ [Next]_vars => IInv'
<1> SUFFICES ASSUME IInv, [Next]_vars PROVE IInv'
  OBVIOUS
<1>1. CASE Start
  BY <1>1, StartStep
<1>2. CASE Main
  BY <1>2, CreateStep, PublishOneStep, StopTopicStep, ReceiveReturnsStep, CloseClientStep,
     ShutdownStep DEF Main
<1>3. CASE Signal
  BY <1>3, SignalStep
<1>4. CASE Killed
  BY <1>4, KilledStep
<1>5. CASE Export
  BY <1>5, ExportStep
<1>6. CASE \E m \in Messages : Deliver(m) \/ Callback(m)
  BY <1>6, DeliverStep, PublishEndsStep, HandleMessageStep, AckStep DEF Callback
<1>7. CASE UNCHANGED vars
  <2> USE <1>7 DEF vars, processVars, brokerVars
  <2>1. TypeOK'
    BY SpansFrame DEF IInv, TypeOK, pipelineVars
  <2>2. FlightInv' /\ CallbackInv' /\ RunInv' /\ DeliveriesTraced'
    BY SpansFrame DEF IInv, FlightInv, CallbackInv, RunInv, HandleSpan, pipelineVars
  <2> QED
    BY <2>1, <2>2 DEF IInv
<1> QED
  BY <1>1, <1>2, <1>3, <1>4, <1>5, <1>6, <1>7 DEF Next

LEMMA Inductive == Spec => []IInv
BY InitIInv, NextIInv, PTL DEF Spec

(* Every variable of the worker keeps its type, and a message is in one    *)
(* place only, through every start, signal and kill of the process.        *)
THEOREM TypeCorrect == Spec => []TypeOK
<1>1. IInv => TypeOK
  BY DEF IInv
<1> QED
  BY <1>1, Inductive, PTL

(* Every delivery that ended left its whole subtree, in the same run       *)
(* (main.go: the subscribe span ends after Handle).                        *)
THEOREM DeliveriesSafe == Spec => []DeliveriesTraced
<1>1. IInv => DeliveriesTraced
  BY DEF IInv
<1> QED
  BY <1>1, Inductive, PTL

(* When the collector takes the batches, a run that ends on its own has    *)
(* exported every span it ended (the order of the deferred calls in main). *)
THEOREM GracefulSafe == Spec => []GracefulFlush
<1>1. IInv => GracefulFlush
  <2> SUFFICES ASSUME IInv, pc = "exited"
               PROVE  /\ \A m \in Messages : callback[m] = "none"
                      /\ reliable => \A s \in Spans!Ended : s.run = runs => s \in exported
    BY DEF GracefulFlush
  <2>1. \A m \in Messages : callback[m] = "none"
    BY DEF IInv, CallbackInv
  <2>2. ASSUME reliable, NEW s \in Spans!Ended, s.run = runs
        PROVE  s \in exported
    <3>1. s \notin lost
      BY <2>2 DEF IInv, RunInv, TypeOK
    <3>2. s \notin queue
      BY DEF IInv, RunInv
    <3> QED
      BY <2>2, <3>1, <3>2 DEF Spans!Ended
  <2> QED
    BY <2>1, <2>2
<1> QED
  BY <1>1, Inductive, PTL

(* An ended span makes a handled message, if it is a handle-message span. *)
LEMMA HandledMore ==
    ASSUME NEW s, Spans!EndSpan(s)
    PROVE  Handled' = IF s.name = "handle-message" THEN Handled \cup {s.msg} ELSE Handled
<1>1. Spans!Ended' = Spans!Ended \cup {s}
  BY DEF Spans!EndSpan, Spans!Ended
<1> QED
  BY <1>1 DEF Handled

LEMMA HandledSame ==
    ASSUME Spans!Ended' = Spans!Ended
    PROVE  Handled' = Handled
BY DEF Handled

LEMMA StepRefines ==
    ASSUME IInv, [Next]_vars
    PROVE  [Contract!ContractNext]_Contract!contractVars
<1> USE DEF Contract!contractVars, processVars, brokerVars
<1>1. CASE Start \/ Create \/ PublishOne \/ StopTopic \/ ReceiveReturns \/ CloseClient
             \/ ShutdownProvider \/ Signal \/ Export \/ (\E m \in Messages : Deliver(m))
             \/ UNCHANGED vars
  <2>1. Spans!Ended' = Spans!Ended
    BY <1>1 DEF Start, Create, PublishOne, StopTopic, ReceiveReturns, CloseClient,
         ShutdownProvider, Signal, Export, Deliver, vars, pipelineVars, Spans!Ended,
         Spans!InstallProvider, Spans!Shutdown, Spans!Drain, Spans!GiveUp, Spans!ExportBatch
  <2>2. stored' = stored /\ acked' = acked
    BY <1>1 DEF Start, Create, PublishOne, StopTopic, ReceiveReturns, CloseClient,
         ShutdownProvider, Signal, Export, Deliver, vars
  <2> QED
    BY <2>1, <2>2, HandledSame
<1>2. CASE Killed
  <2>1. Spans!Ended' = Spans!Ended /\ acked' = acked
    BY <1>2 DEF Killed, Spans!Kill, Spans!Ended
  <2>2. PICK arrived \in SUBSET inFlight :
          stored' = IF subscribed THEN stored \cup arrived ELSE stored
    BY <1>2 DEF Killed
  <2>3. arrived \in SUBSET Messages /\ arrived \cap (stored \cup acked) = {}
    BY DEF IInv, TypeOK, FlightInv
  <2>4. CASE subscribed
    <3>1. Contract!Publish(arrived)
      BY <2>1, <2>2, <2>3, <2>4, HandledSame DEF Contract!Publish
    <3> QED
      BY <2>3, <3>1 DEF Contract!ContractNext
  <2>5. CASE ~subscribed
    BY <2>1, <2>2, <2>5, HandledSame
  <2> QED
    BY <2>4, <2>5
<1>3. ASSUME NEW m \in Messages, PublishEnds(m)
      PROVE  [Contract!ContractNext]_Contract!contractVars
  <2>1. Spans!EndSpan([msg |-> m, name |-> "publish", run |-> runs]) /\ acked' = acked
    BY <1>3 DEF PublishEnds
  <2>2. Handled' = Handled
    BY <2>1, HandledMore
  <2>3. {m} \cap (stored \cup acked) = {}
    BY <1>3 DEF PublishEnds, IInv, FlightInv
  <2>4. CASE stored' = stored \cup {m}
    BY <2>1, <2>2, <2>3, <2>4 DEF Contract!ContractNext, Contract!Publish
  <2>5. CASE stored' = stored
    BY <2>1, <2>2, <2>5
  <2> QED
    BY <1>3, <2>4, <2>5 DEF PublishEnds
<1>4. ASSUME NEW m \in Messages, HandleMessage(m)
      PROVE  [Contract!ContractNext]_Contract!contractVars
  <2>1. Spans!EndSpan(HandleSpan(m)) /\ stored' = stored /\ acked' = acked
    BY <1>4 DEF HandleMessage, HandleSpan
  <2>2. Handled' = Handled \cup {m}
    BY <2>1, HandledMore DEF HandleSpan
  <2>3. m \in stored
    BY <1>4 DEF HandleMessage, IInv, CallbackInv
  <2> QED
    BY <2>1, <2>2, <2>3 DEF Contract!ContractNext, Contract!Handle
<1>5. ASSUME NEW m \in Messages, Ack(m)
      PROVE  [Contract!ContractNext]_Contract!contractVars
  <2>1. Spans!EndSpan([msg |-> m, name |-> "subscribe", run |-> runs])
    BY <1>5 DEF Ack
  <2>2. Handled' = Handled
    BY <2>1, HandledMore
  <2>3. m \in stored /\ HandleSpan(m) \in Spans!Ended
    BY <1>5 DEF Ack, IInv, CallbackInv
  <2>4. m \in Handled
    BY <2>3 DEF Handled, HandleSpan
  <2>5. CASE acked' = acked \cup {m} /\ stored' = stored \ {m}
    BY <2>2, <2>3, <2>4, <2>5 DEF Contract!ContractNext, Contract!Settle
  <2>6. CASE UNCHANGED <<acked, stored>>
    BY <2>2, <2>6
  <2> QED
    BY <1>5, <2>5, <2>6 DEF Ack
<1> QED
  BY <1>1, <1>2, <1>3, <1>4, <1>5 DEF Next, Main, Callback

(* The worker is an at-least-once consumer: through concurrent callbacks,  *)
(* lost acknowledgements, kills and restarts no message is settled before  *)
(* Handle was through with it, and none disappears (main.go, bootstrap.go).*)
THEOREM Refinement == Spec => AtLeastOnceRefinement
<1>1. Init => Contract!ContractInit
  BY DEF Init, Contract!ContractInit, Handled, Spans!PipelineInit, Spans!Ended
<1>2. IInv /\ [Next]_vars => [Contract!ContractNext]_Contract!contractVars
  BY StepRefines
<1> QED
  BY <1>1, <1>2, Inductive, PTL DEF Spec, AtLeastOnceRefinement, Contract!ContractSpec
=============================================================================
