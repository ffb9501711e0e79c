------------------------------- MODULE Worker -------------------------------
(***************************************************************************)
(* The worker program: main from its start to its end, Bootstrap with its  *)
(* unchecked publishes, the callbacks Receive runs at the same time, a     *)
(* signal that ends Receive, and the deferred calls after it.  The process *)
(* can be killed at any point and started again on the same subscription.  *)
(***************************************************************************)
EXTENDS Integers, FiniteSets

CONSTANTS
    Messages,          \* what Bootstrap publishes, in every run together
    PerRun,            \* how many messages one Bootstrap publishes (3)
    MaxRuns,           \* bound: starts of the process
    MaxLostAcks        \* bound: acknowledgements the broker does not get

ASSUME WorkerAssumption == {PerRun, MaxRuns, MaxLostAcks} \subseteq Nat

VARIABLES
    pc,                \* where main is
    bootstrap,         \* conf.Bootstrap of this run
    signalled,         \* the context of main is cancelled
    runs,
    reliable,          \* does the collector take the batches of this run, in time?
    toPublish,         \* publishes Bootstrap has still to make
    subscribed,        \* is there a subscription that retains messages?
    inFlight,          \* publishes topic.Stop waits for
    unused,            \* messages nobody has published
    stored,            \* messages in the subscription
    acked,             \* messages the broker took an acknowledgement for
    lostAcks,
    callback,          \* [Messages -> "none", "handling" or "handled"]
    provider, queue, exported, lost

brokerVars   == <<subscribed, inFlight, unused, stored, acked, lostAcks>>
processVars  == <<bootstrap, signalled, runs, reliable, toPublish>>
pipelineVars == <<provider, queue, exported, lost>>
vars == <<pc, processVars, brokerVars, callback, pipelineVars>>

Spans == INSTANCE SpanPipeline WITH CollectorFails <- TRUE

(* Nothing is lost on the way to a reliable collector; another one may     *)
(* refuse a batch, or not answer before a deadline.                        *)
CollectorTakes == reliable => lost' = lost

-----------------------------------------------------------------------------
(* main, up to Receive *)

Init ==
    /\ pc = "off" /\ bootstrap = FALSE /\ signalled = FALSE /\ runs = 0
    /\ reliable = TRUE /\ toPublish = 0
    /\ subscribed = FALSE /\ inFlight = {} /\ unused = Messages /\ stored = {} /\ acked = {}
    /\ lostAcks = 0
    /\ callback = [m \in Messages |-> "none"]
    /\ Spans!PipelineInit

(* A process starts, in any of its configurations: provider and client. *)
Start ==
    /\ pc \in {"off", "exited", "killed"} /\ runs < MaxRuns
    /\ runs' = runs + 1 /\ signalled' = FALSE
    /\ bootstrap' \in BOOLEAN /\ reliable' \in BOOLEAN
    /\ pc' = IF bootstrap' THEN "create" ELSE "receive"
    /\ toPublish' = IF bootstrap' THEN PerRun ELSE 0
    /\ Spans!InstallProvider
    /\ UNCHANGED <<brokerVars, callback>>

(* CreateTopic and CreateSubscription: what they return is not looked at,  *)
(* be it that both exist, that one failed, or that the context is over.    *)
Create ==
    /\ pc = "create" /\ pc' = "bootstrap"
    /\ subscribed' \in IF signalled THEN {subscribed} ELSE {subscribed, TRUE}
    /\ UNCHANGED <<processVars, inFlight, unused, stored, acked, lostAcks, callback,
                   pipelineVars>>

(* (Mutant of PublishOne: one message is published again and again.) *)
PublishOneAgain ==
    /\ pc = "bootstrap" /\ toPublish > 0
    /\ \E m \in unused : inFlight' = inFlight \cup {m}
    /\ toPublish' = toPublish - 1
    /\ UNCHANGED <<pc, bootstrap, signalled, runs, reliable, subscribed, unused, stored, acked,
                   lostAcks, callback, pipelineVars>>

(* topic.Publish hands a message to the SDK and goes on. *)
PublishOne ==
    /\ pc = "bootstrap" /\ toPublish > 0
    /\ \E m \in unused : inFlight' = inFlight \cup {m} /\ unused' = unused \ {m}
    /\ toPublish' = toPublish - 1
    /\ UNCHANGED <<pc, bootstrap, signalled, runs, reliable, subscribed, stored, acked, lostAcks,
                   callback, pipelineVars>>

(* The SDK ends a publish and its span: the broker has the message, which  *)
(* a topic without subscription does not keep, or the publish has failed.  *)
PublishEnds(m) ==
    /\ m \in inFlight /\ inFlight' = inFlight \ {m}
    /\ \/ stored' = IF subscribed THEN stored \cup {m} ELSE stored
       \/ stored' = stored
    /\ Spans!EndSpan([msg |-> m, name |-> "publish", run |-> runs])
    /\ UNCHANGED <<pc, processVars, subscribed, unused, acked, lostAcks, callback>>

(* topic.Stop waits for them; Bootstrap returns nil whatever became of them.*)
StopTopic ==
    /\ pc = "bootstrap" /\ (toPublish = 0 \/ unused = {}) /\ inFlight = {}
    /\ pc' = "receive"
    /\ UNCHANGED <<processVars, brokerVars, callback, pipelineVars>>

-----------------------------------------------------------------------------
(* Receive and its callbacks *)

(* A message is delivered to a callback of its own, while Receive runs. *)
Deliver(m) ==
    /\ pc = "receive" /\ ~signalled
    /\ m \in stored /\ callback[m] = "none"
    /\ callback' = [callback EXCEPT ![m] = "handling"]
    /\ UNCHANGED <<pc, processVars, brokerVars, pipelineVars>>

(* (Mutant of HandleMessage: the span is not ended.) *)
HandleMessageOpen(m) ==
    /\ callback[m] = "handling"
    /\ callback' = [callback EXCEPT ![m] = "handled"]
    /\ UNCHANGED <<pc, processVars, brokerVars, pipelineVars>>

(* Handle: the handle-message span, a child of the subscribe span. *)
HandleMessage(m) ==
    /\ callback[m] = "handling"
    /\ callback' = [callback EXCEPT ![m] = "handled"]
    /\ Spans!EndSpan([msg |-> m, name |-> "handle-message", run |-> runs])
    /\ UNCHANGED <<pc, processVars, brokerVars>>

(* (Mutant of Ack: acknowledged before Handle.) *)
AckEarly(m) ==
    /\ callback[m] \in {"handling", "handled"}
    /\ callback' = [callback EXCEPT ![m] = "none"]
    /\ acked' = acked \cup {m} /\ stored' = stored \ {m}
    /\ Spans!EndSpan([msg |-> m, name |-> "subscribe", run |-> runs])
    /\ UNCHANGED <<pc, processVars, subscribed, inFlight, unused, lostAcks>>

(* m.Ack, which ends the subscribe span; the broker may not hear of it and *)
(* deliver the message again.                                              *)
Ack(m) ==
    /\ callback[m] = "handled"
    /\ callback' = [callback EXCEPT ![m] = "none"]
    /\ \/ acked' = acked \cup {m} /\ stored' = stored \ {m} /\ lostAcks' = lostAcks
       \/ /\ lostAcks < MaxLostAcks /\ lostAcks' = lostAcks + 1
          /\ UNCHANGED <<acked, stored>>
    /\ Spans!EndSpan([msg |-> m, name |-> "subscribe", run |-> runs])
    /\ UNCHANGED <<pc, processVars, subscribed, inFlight, unused>>

(* SIGINT or SIGTERM cancels the context; a second one changes nothing. *)
Signal ==
    /\ pc \in {"create", "bootstrap", "receive", "stopping", "closed"} /\ ~signalled
    /\ signalled' = TRUE
    /\ UNCHANGED <<pc, bootstrap, runs, reliable, toPublish, brokerVars, callback,
                   pipelineVars>>

(* (Mutant of ReceiveReturns: Receive does not have the signal's context.) *)
ReceiveReturnsUnsignalled ==
    /\ pc = "receive" /\ ~signalled
    /\ \A m \in Messages : callback[m] = "none"
    /\ pc' = "stopping"
    /\ UNCHANGED <<processVars, brokerVars, callback, pipelineVars>>

(* Receive comes back once its context is cancelled, or the stream is      *)
(* broken, and no callback runs any more.                                  *)
ReceiveReturns ==
    /\ pc = "receive"
    /\ \A m \in Messages : callback[m] = "none"
    /\ pc' = "stopping"
    /\ UNCHANGED <<processVars, brokerVars, callback, pipelineVars>>

-----------------------------------------------------------------------------
(* The end of the process *)

(* The deferred client.Close, then the deferred shutdown. *)
CloseClient ==
    /\ pc = "stopping" /\ pc' = "closed"
    /\ UNCHANGED <<processVars, brokerVars, callback, pipelineVars>>

(* (Mutant of ShutdownProvider: log.Fatalf on the error of Receive.) *)
ShutdownProviderSkipped ==
    /\ pc = "closed" /\ pc' = "exited"
    /\ Spans!Kill
    /\ UNCHANGED <<processVars, brokerVars, callback>>

(* Shutdown drains the queue or gives up after five seconds; its error is  *)
(* only logged.                                                            *)
ShutdownProvider ==
    /\ pc = "closed" /\ pc' = "exited"
    /\ Spans!Shutdown /\ CollectorTakes
    /\ UNCHANGED <<processVars, brokerVars, callback>>

(* SIGKILL, or a crash: publishes on their way may still arrive. *)
Killed ==
    /\ pc \in {"create", "bootstrap", "receive", "stopping", "closed"} /\ pc' = "killed"
    /\ Spans!Kill
    /\ callback' = [m \in Messages |-> "none"]
    /\ inFlight' = {}
    /\ \E arrived \in SUBSET inFlight :
         stored' = IF subscribed THEN stored \cup arrived ELSE stored
    /\ UNCHANGED <<processVars, subscribed, unused, acked, lostAcks>>

Callback(m) == PublishEnds(m) \/ HandleMessage(m) \/ Ack(m)

Export == Spans!ExportBatch /\ CollectorTakes /\ UNCHANGED <<pc, processVars, brokerVars, callback>>

Main == Create \/ PublishOne \/ StopTopic \/ ReceiveReturns \/ CloseClient \/ ShutdownProvider

Next ==
    \/ Start
    \/ Main
    \/ Signal
    \/ Killed
    \/ Export
    \/ \E m \in Messages : Deliver(m) \/ Callback(m)

Spec == Init /\ [][Next]_vars

(* The goroutines of a live process go on, and calls come back; a stream   *)
(* need not break, so Receive has to come back only after a signal.        *)
MainGoesOn == Main /\ (pc = "receive" => signalled)
FairSpec ==
    Spec /\ WF_vars(MainGoesOn) /\ \A m \in Messages : WF_vars(Callback(m))

-----------------------------------------------------------------------------
(* Properties *)

SpanType == [msg : Messages, name : {"publish", "subscribe", "handle-message"}, run : 1 .. MaxRuns]

(* The type of every variable; a message is in one place only. *)
TypeOK ==
    /\ pc \in {"off", "create", "bootstrap", "receive", "stopping", "closed", "exited", "killed"}
    /\ {bootstrap, signalled, subscribed, reliable} \subseteq BOOLEAN
    /\ runs \in 0 .. MaxRuns /\ toPublish \in 0 .. PerRun
    /\ lostAcks \in 0 .. MaxLostAcks
    /\ callback \in [Messages -> {"none", "handling", "handled"}]
    /\ stored \subseteq Messages /\ acked \subseteq Messages /\ stored \cap acked = {}
    /\ unused \subseteq Messages /\ inFlight \subseteq Messages
    /\ unused \cap (inFlight \cup stored \cup acked) = {}
    /\ Spans!Ended \subseteq SpanType
    /\ provider \in {"none", "up", "stopped"}

Handled == {s.msg : s \in {s \in Spans!Ended : s.name = "handle-message"}}

(* The worker is an at-least-once consumer: through concurrent callbacks,  *)
(* lost acknowledgements and restarts no message is settled that was not   *)
(* handled, and none that is not settled disappears.                       *)
Contract == INSTANCE AtLeastOnce WITH pending <- stored, handled <- Handled, settled <- acked
AtLeastOnceRefinement == Contract!ContractSpec

(* Every delivery that ended left its whole subtree: the handle-message    *)
(* span has ended, in the same run, before its subscribe span (main.go).   *)
DeliveriesTraced ==
    \A s \in Spans!Ended : s.name = "subscribe" =>
        [s EXCEPT !.name = "handle-message"] \in Spans!Ended

(* When the collector takes the batches, a run that ends on its own, by a  *)
(* signal or a broken stream, has exported every span it ended: no         *)
(* callback outlives Receive, and the provider is drained after everything *)
(* else (the order of the deferred calls in main).                         *)
GracefulFlush ==
    pc = "exited" =>
        /\ \A m \in Messages : callback[m] = "none"
        /\ reliable => \A s \in Spans!Ended : s.run = runs => s \in exported

(* SIGTERM ends the worker, whatever its callbacks were doing. *)
SignalStops == signalled ~> pc \in {"exited", "killed"}
=============================================================================
