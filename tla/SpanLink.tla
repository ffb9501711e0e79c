------------------------------ MODULE SpanLink ------------------------------
(***************************************************************************)
(* The span-link program: a run publishes BatchSize messages, each under a *)
(* producer span of its own trace, receives a batch from the subscription  *)
(* with concurrent callbacks, and processes every collected message under  *)
(* a new root span with one link to the message's producer.                *)
(*                                                                         *)
(* A run may be killed at any point and started again; the topic and the   *)
(* subscription live in Pub/Sub and keep what earlier runs left behind.    *)
(* Pub/Sub is external: it delivers a retained message while fewer than    *)
(* MaxOutstandingMessages callbacks hold one, and an acknowledgement may   *)
(* be lost, after which the message is delivered again.                    *)
(***************************************************************************)
EXTENDS Integers, Sequences, FiniteSets, SpanPipeline

CONSTANTS
    BatchSize,         \* BATCH_SIZE
    Callbacks,         \* goroutines in which Receive may run the callback
    MaxRuns,           \* bound: how often the program is started
    MaxLostAcks        \* bound: acknowledgements that do not reach Pub/Sub

ASSUME BatchSizeAssumption == BatchSize \in Nat
ASSUME BoundsAssumption == MaxRuns \in Nat /\ MaxLostAcks \in Nat

Msg == (1 .. MaxRuns) \X (1 .. BatchSize)     \* <<run, i>> of Publish's loop
NoMsg == <<0, 0>>
NoTrace == 0

VARIABLES
    pc,                \* where main.run is
    run,               \* how often the program was started
    next,              \* loop index of Publish, then of ConsumeMessages
    traces,            \* trace ids handed out so far
    topic, sub,        \* does the topic (the subscription) exist?
    stored,            \* messages the subscription retains
    traceparent,       \* [Msg -> trace id in the message's attributes]
    lostAcks,          \* acknowledgements lost so far
    mu,                \* callbacks inside the critical section
    collected,         \* the slice the callbacks append to
    cb,                \* the callbacks in progress
    acked,             \* messages whose Ack this run has called
    cancelled,         \* cctx is cancelled
    rpcError           \* Receive met an error it does not retry

brokerVars  == <<topic, sub, stored, traceparent, lostAcks>>
receiveVars == <<mu, collected, cb, acked, cancelled, rpcError>>
vars == <<pc, run, next, traces, brokerVars, receiveVars, pipelineVars>>

Idle == [at |-> "idle", msg |-> NoMsg, seen |-> 0, done |-> FALSE]

(* The client library's default when MaxOutstandingMessages is zero. *)
DefaultOutstanding == 1000
MaxOutstanding == IF BatchSize = 0 THEN DefaultOutstanding ELSE BatchSize

(* Messages a callback holds: flow control counts them until the Ack. *)
Outstanding == {c \in Callbacks : cb[c].at \in {"called", "locked", "appended"}}

Span(kind, m, trace, links) ==
    [kind |-> kind, msg |-> m, trace |-> trace, links |-> links]

(* What receiveBatch starts from, and what is left when its process is gone. *)
NoReceive ==
    /\ mu' = {} /\ collected' = <<>> /\ cb' = [c \in Callbacks |-> Idle]
    /\ acked' = {} /\ cancelled' = FALSE /\ rpcError' = FALSE

Init ==
    /\ pc = "down" /\ run = 0 /\ next = 1 /\ traces = 0
    /\ topic = FALSE /\ sub = FALSE
    /\ stored = {} /\ traceparent = [m \in Msg |-> NoTrace] /\ lostAcks = 0
    /\ mu = {} /\ collected = <<>> /\ cb = [c \in Callbacks |-> Idle]
    /\ acked = {} /\ cancelled = FALSE /\ rpcError = FALSE
    /\ PipelineInit

-----------------------------------------------------------------------------
(* main.run *)

(* The process starts: the provider is installed before anything else. *)
StartRun ==
    /\ pc = "down" /\ run < MaxRuns
    /\ run' = run + 1
    /\ pc' = "setup"
    /\ InstallProvider
    /\ UNCHANGED <<next, traces, brokerVars, receiveVars>>

(* setup takes any error of CreateTopic or CreateSubscription to mean that *)
(* the thing exists already; so a failed creation leaves it missing.       *)
Setup ==
    /\ pc = "setup"
    /\ pc' = "publish" /\ next' = 1
    /\ topic' \in IF topic THEN {TRUE} ELSE BOOLEAN
    /\ sub' \in IF sub THEN {TRUE} ELSE IF topic' THEN BOOLEAN ELSE {FALSE}
    /\ UNCHANGED <<run, traces, stored, traceparent, lostAcks, receiveVars, pipelineVars>>

(* One turn of Publish's loop up to the answer of Pub/Sub: a root span is  *)
(* started, its context injected into the message, the message published.  *)
(* The answer may be an error although the message arrived.  A message     *)
(* published while there is no subscription is retained nowhere.           *)
PublishMessage ==
    /\ pc = "publish" /\ next <= BatchSize
    /\ LET m == <<run, next>> IN
         /\ traces' = traces + 1
         /\ traceparent' = [traceparent EXCEPT ![m] = traces + 1]
         /\ \/ /\ topic
               /\ stored' = IF sub THEN stored \cup {m} ELSE stored
               /\ pc' \in {"published", "publishFailed"}
            \/ stored' = stored /\ pc' = "publishFailed"
    /\ UNCHANGED <<run, next, topic, sub, lostAcks, receiveVars, pipelineVars>>

(* The rest of the turn: the span ends; an error ends the loop and run. *)
PublishAnswered ==
    /\ pc \in {"published", "publishFailed"}
    /\ EndSpan(Span("send", <<run, next>>, traceparent[<<run, next>>], {}))
    /\ IF pc = "published" THEN pc' = "publish" /\ next' = next + 1
                           ELSE pc' = "exit" /\ next' = next
    /\ UNCHANGED <<run, traces, brokerVars, receiveVars>>

(* Publish is through; receiveBatch makes its slice, lock and context. *)
StartReceive ==
    /\ pc = "publish" /\ next > BatchSize
    /\ pc' = "receive"
    /\ NoReceive
    /\ UNCHANGED <<run, next, traces, brokerVars, pipelineVars>>

-----------------------------------------------------------------------------
(* sub.Receive and its callback *)

(* Pub/Sub hands a retained message to a new callback.  A message some     *)
(* callback still holds is leased, and not delivered a second time.        *)
Deliver(c, m) ==
    /\ pc = "receive" /\ sub /\ ~cancelled /\ ~rpcError
    /\ cb[c].at = "idle"
    /\ m \in stored \ {cb[d].msg : d \in Outstanding}
    /\ Cardinality(Outstanding) < MaxOutstanding
    /\ cb' = [cb EXCEPT ![c] = [Idle EXCEPT !.at = "called", !.msg = m]]
    /\ UNCHANGED <<pc, run, next, traces, brokerVars, mu, collected, acked,
                   cancelled, rpcError, pipelineVars>>

(* (Mutant of LockBatch: the callback appends without the lock.) *)
LockBatchUnguarded(c) ==
    /\ cb[c].at = "called"
    /\ mu' = mu \cup {c}
    /\ cb' = [cb EXCEPT ![c].at = "locked", ![c].seen = Len(collected)]
    /\ UNCHANGED <<pc, run, next, traces, brokerVars, collected, acked,
                   cancelled, rpcError, pipelineVars>>

(* mu.Lock() succeeds; append reads the length of the slice. *)
LockBatch(c) ==
    /\ cb[c].at = "called" /\ mu = {}
    /\ mu' = mu \cup {c}
    /\ cb' = [cb EXCEPT ![c].at = "locked", ![c].seen = Len(collected)]
    /\ UNCHANGED <<pc, run, next, traces, brokerVars, collected, acked,
                   cancelled, rpcError, pipelineVars>>

(* (Mutant of AppendMessage: done is off by one.) *)
AppendMessageEarlyDone(c) ==
    /\ cb[c].at = "locked"
    /\ LET n == cb[c].seen + 1 IN
         /\ collected' = [i \in 1 .. n |-> IF i = n THEN cb[c].msg ELSE collected[i]]
         /\ cb' = [cb EXCEPT ![c].at = "appended", ![c].done = (n + 1 >= BatchSize)]
    /\ mu' = mu \ {c}
    /\ UNCHANGED <<pc, run, next, traces, brokerVars, acked, cancelled,
                   rpcError, pipelineVars>>

(* append writes behind the length it read, done compares the new length,  *)
(* and mu.Unlock() opens the section.                                      *)
AppendMessage(c) ==
    /\ cb[c].at = "locked"
    /\ LET n == cb[c].seen + 1 IN
         /\ collected' = [i \in 1 .. n |-> IF i = n THEN cb[c].msg ELSE collected[i]]
         /\ cb' = [cb EXCEPT ![c].at = "appended", ![c].done = (n >= BatchSize)]
    /\ mu' = mu \ {c}
    /\ UNCHANGED <<pc, run, next, traces, brokerVars, acked, cancelled,
                   rpcError, pipelineVars>>

(* (Mutant of AckMessage: the callback never acknowledges.) *)
AckMessageForgotten(c) ==
    /\ cb[c].at = "appended"
    /\ cb' = [cb EXCEPT ![c].at = "acked"]
    /\ UNCHANGED <<pc, run, next, traces, brokerVars, mu, collected, acked,
                   cancelled, rpcError, pipelineVars>>

(* m.Ack(): it frees the callback's place under flow control at once.  The *)
(* acknowledgement may be lost on its way, which the program never learns. *)
AckMessage(c) ==
    /\ cb[c].at = "appended"
    /\ cb' = [cb EXCEPT ![c].at = "acked"]
    /\ acked' = acked \cup {cb[c].msg}
    /\ \/ stored' = stored \ {cb[c].msg} /\ lostAcks' = lostAcks
       \/ /\ lostAcks < MaxLostAcks
          /\ lostAcks' = lostAcks + 1 /\ stored' = stored
    /\ UNCHANGED <<pc, run, next, traces, topic, sub, traceparent, mu, collected,
                   cancelled, rpcError, pipelineVars>>

(* (Mutant of ReturnCallback: nobody cancels Receive.) *)
ReturnCallbackWithoutCancel(c) ==
    /\ cb[c].at = "acked"
    /\ cb' = [cb EXCEPT ![c] = Idle]
    /\ UNCHANGED <<pc, run, next, traces, brokerVars, mu, collected, acked,
                   cancelled, rpcError, pipelineVars>>

(* The callback returns, cancelling Receive if it completed the batch. *)
ReturnCallback(c) ==
    /\ cb[c].at = "acked"
    /\ cancelled' = IF cb[c].done THEN TRUE ELSE cancelled
    /\ cb' = [cb EXCEPT ![c] = Idle]
    /\ UNCHANGED <<pc, run, next, traces, brokerVars, mu, collected, acked,
                   rpcError, pipelineVars>>

(* Receive meets an error it does not retry, such as a missing subscription. *)
ReceiveFails ==
    /\ pc = "receive" /\ ~rpcError
    /\ rpcError' = TRUE
    /\ UNCHANGED <<pc, run, next, traces, brokerVars, mu, collected, cb, acked,
                   cancelled, pipelineVars>>

(* Receive returns once it is cancelled or has failed, and every callback  *)
(* has returned.                                                           *)
ReceiveReturns ==
    /\ pc = "receive" /\ (cancelled \/ rpcError)
    /\ \A c \in Callbacks : cb[c].at = "idle"

(* receiveBatch returns nil and the error, dropping what was collected. *)
ReceiveBatchFails ==
    /\ ReceiveReturns /\ rpcError
    /\ pc' = "exit"
    /\ UNCHANGED <<run, next, traces, brokerVars, receiveVars, pipelineVars>>

ReceiveBatchReturns ==
    /\ ReceiveReturns /\ ~rpcError
    /\ pc' = "consume" /\ next' = 1
    /\ UNCHANGED <<run, traces, brokerVars, receiveVars, pipelineVars>>

-----------------------------------------------------------------------------
(* ConsumeMessages, and the end of the run *)

(* (Mutant of ConsumeMessage: the span continues the producer's trace.) *)
ConsumeMessageAsChild ==
    /\ pc = "consume" /\ next <= Len(collected)
    /\ LET m == collected[next] IN
         EndSpan(Span("process", m, traceparent[m], {traceparent[m]}))
    /\ traces' = traces
    /\ next' = next + 1
    /\ UNCHANGED <<pc, run, brokerVars, receiveVars>>

(* (Mutant of ConsumeMessage: the new root is not counted as a trace.) *)
ConsumeMessageUncounted ==
    /\ pc = "consume" /\ next <= Len(collected)
    /\ LET m == collected[next] IN
         EndSpan(Span("process", m, traces + 1, {traceparent[m]}))
    /\ next' = next + 1
    /\ UNCHANGED <<pc, run, traces, brokerVars, receiveVars>>

(* One turn of the loop: a new root span, linked to the producer whose     *)
(* context the message carries, is started and ended.                      *)
ConsumeMessage ==
    /\ pc = "consume" /\ next <= Len(collected)
    /\ LET m == collected[next] IN
         EndSpan(Span("process", m, traces + 1, {traceparent[m]}))
    /\ traces' = traces + 1
    /\ next' = next + 1
    /\ UNCHANGED <<pc, run, brokerVars, receiveVars>>

(* (Mutant of ConsumeDone: only the first BatchSize messages are processed.) *)
ConsumeDoneAtBatchSize ==
    /\ pc = "consume" /\ next > BatchSize
    /\ pc' = "exit"
    /\ UNCHANGED <<run, next, traces, brokerVars, receiveVars, pipelineVars>>

ConsumeDone ==
    /\ pc = "consume" /\ next > Len(collected)
    /\ pc' = "exit"
    /\ UNCHANGED <<run, next, traces, brokerVars, receiveVars, pipelineVars>>

(* run returns: topic.Stop, client.Close and shutdown run, then the process *)
(* ends, by log.Fatal if run returned an error.                             *)
Exit ==
    /\ pc = "exit"
    /\ pc' = "down"
    /\ Shutdown
    /\ NoReceive /\ next' = 1
    /\ UNCHANGED <<run, traces, brokerVars>>

(* The process is killed: no signal is handled. *)
Crash ==
    /\ pc # "down"
    /\ pc' = "down"
    /\ Kill
    /\ NoReceive /\ next' = 1
    /\ UNCHANGED <<run, traces, brokerVars>>

Export == ExportBatch /\ UNCHANGED <<pc, run, next, traces, brokerVars, receiveVars>>

CallbackStep(c) ==
    \/ LockBatch(c)
    \/ AppendMessage(c)
    \/ AckMessage(c)
    \/ ReturnCallback(c)

Main ==
    \/ Setup
    \/ PublishMessage
    \/ PublishAnswered
    \/ StartReceive
    \/ ReceiveBatchFails
    \/ ReceiveBatchReturns
    \/ ConsumeMessage
    \/ ConsumeDone
    \/ Exit

Next ==
    \/ StartRun
    \/ Main
    \/ \E c \in Callbacks, m \in Msg : Deliver(c, m)
    \/ \E c \in Callbacks : CallbackStep(c)
    \/ ReceiveFails
    \/ Export
    \/ Crash

Spec == Init /\ [][Next]_vars

(* The scheduler runs main and every callback, and Pub/Sub goes on         *)
(* delivering what it retains; a missing subscription is reported.         *)
(* Nothing forces a crash, a failure of Pub/Sub or another run.            *)
Fairness ==
    /\ WF_vars(Main)
    /\ \A c \in Callbacks : WF_vars(CallbackStep(c))
    /\ WF_vars(\E c \in Callbacks, m \in Msg : Deliver(c, m))
    /\ WF_vars(~sub /\ ReceiveFails)

FairSpec == Spec /\ Fairness
-----------------------------------------------------------------------------
(* Properties *)

Processed == {s \in Ended : s.kind = "process"}

PC == {"down", "setup", "publish", "published", "publishFailed", "receive",
       "consume", "exit"}

(* Spans whose traces, and whose links' traces, are among the first n. *)
SpansUpTo(n) == [kind : {"send", "process"}, msg : Msg, trace : 1 .. n,
                 links : SUBSET (1 .. n)]

CallbackType == [at : {"idle", "called", "locked", "appended", "acked"},
                 msg : Msg \cup {NoMsg}, seen : Nat, done : BOOLEAN]

MainTypeOK ==
    pc \in PC /\ run \in 0 .. MaxRuns /\ next \in Nat \ {0} /\ traces \in Nat

BrokerTypeOK ==
    /\ topic \in BOOLEAN /\ sub \in BOOLEAN
    /\ stored \subseteq Msg /\ traceparent \in [Msg -> 0 .. traces]
    /\ lostAcks \in 0 .. MaxLostAcks

ReceiveTypeOK ==
    /\ mu \subseteq Callbacks /\ collected \in Seq(Msg)
    /\ cb \in [Callbacks -> CallbackType]
    /\ acked \subseteq Msg /\ cancelled \in BOOLEAN /\ rpcError \in BOOLEAN

PipelineTypeOK ==
    /\ provider \in {"none", "up", "stopped"}
    /\ queue \subseteq SpansUpTo(traces) /\ exported \subseteq SpansUpTo(traces)
    /\ lost \subseteq SpansUpTo(traces)

(* The type of every variable. *)
TypeOK == MainTypeOK /\ BrokerTypeOK /\ ReceiveTypeOK /\ PipelineTypeOK

(* The phase of the batch, for its caller. *)
Phase == IF pc = "receive" THEN "open" ELSE IF pc = "consume" THEN "full" ELSE "none"

CollectedMsgs == {collected[i] : i \in DOMAIN collected}

(* The callback acknowledges only after the append under mu: no            *)
(* interleaving of callbacks loses an acknowledged message from the batch. *)
AckedCollected == acked \subseteq CollectedMsgs

(* However the callbacks interleave, receiveBatch keeps BatchContract: an   *)
(* append overwrites nothing, the batch is handed on only with BatchSize   *)
(* messages in it, and ConsumeMessages, which reads the slice without the  *)
(* lock, sees no further append.                                           *)
Contract == INSTANCE BatchContract WITH
    Message <- Msg,
    phase   <- Phase,
    batch   <- IF Phase = "none" THEN <<>> ELSE collected

BatchRefinement == Contract!Spec

(* The last message a run published before it came to its end. *)
LastOfItsRun(m) ==
    /\ m[1] < run \/ pc = "down"
    /\ \A i \in m[2] + 1 .. BatchSize : traceparent[<<m[1], i>>] = NoTrace

(* consumer.go:20-24: a process span is the root of a trace of its own and *)
(* its link stands for its message: over all runs and redeliveries spans   *)
(* share a link if and only if they are of the same message.  The link     *)
(* leads to the send span of the message, and leads nowhere only if the    *)
(* run that sent it was killed while Publish waited for the answer, which  *)
(* happens to no more than the last message of a run.                      *)
LinkedToOwnProducer ==
    \A s \in Processed :
        /\ \A t \in Ended \ {s} : t.trace # s.trace
        /\ \A t \in Processed : s.links \cap t.links # {} <=> s.msg = t.msg
        /\ \/ \E t \in Ended : t.kind = "send" /\ t.msg = s.msg /\ s.links = {t.trace}
           \/ LastOfItsRun(s.msg)

(* "BatchSize is the number of messages processed together in one process  *)
(* span; as many span links are put on the one span" (config.go:17-18).    *)
BatchSizeLinks == \A s \in Processed : Cardinality(s.links) = BatchSize

(* A run that reaches its end without an error has processed every message *)
(* it acknowledged: none is gone from Pub/Sub unprocessed.                 *)
CleanRunProcessesAcked ==
    pc = "exit" /\ cancelled /\ ~rpcError =>
        \A m \in acked : \E s \in Processed : s.msg = m

(* A publish and a process span correspond one to one (README.md:5-7 of    *)
(* span-link): no message is processed twice, over all runs, as long as no *)
(* acknowledgement is lost; nothing in the code detects a redelivery.      *)
OneProcessPerPublish ==
    lostAcks = 0 => \A s, t \in Processed : s.msg = t.msg => s = t

(* receiveBatch "receives batchSize messages and returns them" (main.go:81). *)
ReturnsBatchSize == pc = "consume" => Len(collected) = BatchSize

(* Receive comes back: what the run itself published is enough to fill the *)
(* batch, because Pub/Sub delivers it and no other program takes it away.  *)
ReceiveEnds == pc = "receive" ~> pc # "receive"

-----------------------------------------------------------------------------
(* The inductive invariant behind the theorems of SpanLink_proof. *)

(* A loop index of Publish stays in range while its message is on the way. *)
PublishInv ==
    /\ pc # "down" => run \in 1 .. MaxRuns
    /\ pc \in {"published", "publishFailed"} =>
          next <= BatchSize /\ traceparent[<<run, next>>] # NoTrace

(* Every message Pub/Sub retains, a callback holds or the slice contains   *)
(* carries the context of a producer span.                                 *)
TracedInv ==
    /\ \A m \in stored : traceparent[m] # NoTrace
    /\ \A i \in 1 .. Len(collected) : traceparent[collected[i]] # NoTrace
    /\ \A c \in Callbacks : cb[c].at # "idle" =>
          cb[c].msg \in Msg /\ traceparent[cb[c].msg] # NoTrace

(* mu excludes: the one callback inside has read the current length. *)
LockInv ==
    /\ \A c \in Callbacks : cb[c].at = "locked" <=> c \in mu
    /\ \A c, d \in mu : c = d
    /\ \A c \in mu : cb[c].seen = Len(collected)

(* What was appended or acknowledged is in the slice. *)
AckInv ==
    /\ AckedCollected
    /\ \A c \in Callbacks : cb[c].at \in {"appended", "acked"} => cb[c].msg \in CollectedMsgs

(* Only a full batch is done, only a done batch is cancelled. *)
DoneInv ==
    /\ \A c \in Callbacks : cb[c].done => Len(collected) >= BatchSize
    /\ cancelled => Len(collected) >= BatchSize

(* Callbacks run only inside Receive. *)
QuietInv == pc # "receive" => \A c \in Callbacks : cb[c].at = "idle"

IInv ==
    /\ TypeOK
    /\ PublishInv
    /\ TracedInv
    /\ LockInv
    /\ AckInv
    /\ DoneInv
    /\ QuietInv
=============================================================================
