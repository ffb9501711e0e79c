--------------------------- MODULE SpanLink_proof ---------------------------
(***************************************************************************)
(* Theorems about SpanLink, for every batch size, every set of callbacks   *)
(* and every number of runs and of lost acknowledgements.                  *)
(***************************************************************************)
EXTENDS SpanLink, TLAPS

USE BatchSizeAssumption, BoundsAssumption

(* Spans keep their type when more trace ids are handed out. *)
LEMMA SpansGrow ==
    ASSUME NEW m \in Nat, NEW n \in Nat, m <= n
    PROVE  SpansUpTo(m) \subseteq SpansUpTo(n)
<1>1. 1 .. m \subseteq 1 .. n
  OBVIOUS
<1> QED
  BY <1>1 DEF SpansUpTo

(* A callback that is not there, and a receive that has not begun. *)
LEMMA IdleType == Idle \in CallbackType /\ [c \in Callbacks |-> Idle] \in [Callbacks -> CallbackType]
<1>1. Idle \in CallbackType
  BY DEF Idle, CallbackType, NoMsg
<1> QED
  BY <1>1

LEMMA NoReceiveInv ==
    ASSUME NoReceive
    PROVE  ReceiveTypeOK' /\ LockInv' /\ AckInv' /\ DoneInv' /\ QuietInv'
<1> USE DEF NoReceive
<1>1. mu' \subseteq Callbacks /\ collected' \in Seq(Msg) /\ acked' \subseteq Msg
  OBVIOUS
<1>2. cb' \in [Callbacks -> CallbackType]
  BY IdleType
<1>3. cancelled' \in BOOLEAN /\ rpcError' \in BOOLEAN
  OBVIOUS
<1>4. LockInv' /\ AckInv' /\ DoneInv' /\ QuietInv'
  BY DEF LockInv, AckInv, AckedCollected, DoneInv, QuietInv, Idle
<1> QED
  BY <1>1, <1>2, <1>3, <1>4 DEF ReceiveTypeOK

(* What the steps outside of Receive leave alone. *)
LEMMA ReceiveFrame ==
    ASSUME IInv, UNCHANGED receiveVars
    PROVE  ReceiveTypeOK' /\ LockInv' /\ AckInv' /\ DoneInv'
<1> USE DEF IInv, TypeOK, receiveVars
<1>1. ReceiveTypeOK' /\ LockInv'
  BY DEF ReceiveTypeOK, LockInv
<1>2. AckInv' /\ DoneInv'
  BY DEF AckInv, AckedCollected, CollectedMsgs, DoneInv
<1> QED
  BY <1>1, <1>2

LEMMA PipelineFrame ==
    ASSUME IInv, UNCHANGED <<traces, pipelineVars>>
    PROVE  PipelineTypeOK'
BY DEF IInv, TypeOK, PipelineTypeOK, pipelineVars

LEMMA EndSpanType ==
    ASSUME IInv, NEW s, EndSpan(s), traces' \in Nat, traces <= traces',
           s \in SpansUpTo(traces')
    PROVE  PipelineTypeOK'
<1>1. SpansUpTo(traces) \subseteq SpansUpTo(traces')
  BY SpansGrow DEF IInv, TypeOK, MainTypeOK
<1> QED
  BY <1>1 DEF IInv, TypeOK, PipelineTypeOK, EndSpan

LEMMA InitIInv == Init => IInv
<1> SUFFICES ASSUME Init PROVE IInv
  OBVIOUS
<1> USE DEF Init, PipelineInit
<1>1. MainTypeOK
  BY DEF MainTypeOK, PC
<1>2. /\ topic \in BOOLEAN /\ sub \in BOOLEAN
      /\ cancelled \in BOOLEAN /\ rpcError \in BOOLEAN
  OBVIOUS
<1>3. stored \subseteq Msg /\ traceparent \in [Msg -> 0 .. traces] /\ lostAcks \in 0 .. MaxLostAcks
  BY DEF NoTrace
<1>4. mu \subseteq Callbacks /\ collected \in Seq(Msg) /\ acked \subseteq Msg
  OBVIOUS
<1>5. cb \in [Callbacks -> CallbackType]
  BY IdleType
<1>6. PipelineTypeOK
  BY DEF PipelineTypeOK
<1>7. PublishInv /\ TracedInv /\ QuietInv
  BY DEF PublishInv, TracedInv, QuietInv, Idle
<1>8. LockInv /\ AckInv /\ DoneInv
  BY DEF LockInv, AckInv, DoneInv, AckedCollected, Idle
<1>9. BrokerTypeOK /\ ReceiveTypeOK
  BY <1>2, <1>3, <1>4, <1>5 DEF BrokerTypeOK, ReceiveTypeOK
<1> QED
  BY <1>1, <1>6, <1>7, <1>8, <1>9 DEF IInv, TypeOK

LEMMA StartRunStep ==
    ASSUME IInv, StartRun
    PROVE  IInv'
<1> USE DEF IInv, TypeOK, StartRun
<1>1. MainTypeOK' /\ BrokerTypeOK'
  BY DEF MainTypeOK, BrokerTypeOK, PC, brokerVars, MainTypeOK
<1>2. ReceiveTypeOK' /\ LockInv' /\ AckInv' /\ DoneInv'
  BY ReceiveFrame
<1>3. PipelineTypeOK'
  BY DEF PipelineTypeOK, InstallProvider
<1>4. PublishInv' /\ TracedInv' /\ QuietInv'
  BY DEF PublishInv, TracedInv, QuietInv, brokerVars, receiveVars, MainTypeOK
<1> QED
  BY <1>1, <1>2, <1>3, <1>4

LEMMA SetupStep ==
    ASSUME IInv, Setup
    PROVE  IInv'
<1> USE DEF IInv, TypeOK, Setup
<1>1. topic' \in BOOLEAN /\ sub' \in BOOLEAN
  OBVIOUS
<1>2. MainTypeOK'
  BY DEF MainTypeOK, PC
<1>3. BrokerTypeOK'
  BY <1>1 DEF BrokerTypeOK
<1>4. ReceiveTypeOK' /\ LockInv' /\ AckInv' /\ DoneInv'
  BY ReceiveFrame
<1>5. PipelineTypeOK'
  BY PipelineFrame
<1>6. PublishInv' /\ TracedInv' /\ QuietInv'
  BY DEF PublishInv, TracedInv, QuietInv, brokerVars, receiveVars
<1> QED
  BY <1>2, <1>3, <1>4, <1>5, <1>6

LEMMA PublishMessageStep ==
    ASSUME IInv, PublishMessage
    PROVE  IInv'
<1> USE DEF IInv, TypeOK, PublishMessage
<1>1. <<run, next>> \in Msg
  BY DEF MainTypeOK, PublishInv, Msg
<1>2. traces' \in Nat /\ traces < traces'
  BY DEF MainTypeOK
<1>3. \A m \in Msg : traceparent'[m] = IF m = <<run, next>> THEN traces + 1 ELSE traceparent[m]
  BY <1>1 DEF BrokerTypeOK
<1>4. MainTypeOK'
  BY <1>2 DEF MainTypeOK, PC
<1>5. BrokerTypeOK'
  BY <1>1, <1>2 DEF BrokerTypeOK, MainTypeOK
<1>6. PipelineTypeOK'
  BY <1>2, SpansGrow DEF PipelineTypeOK, pipelineVars, MainTypeOK
<1>7. ReceiveTypeOK' /\ LockInv' /\ AckInv' /\ DoneInv'
  BY ReceiveFrame
<1>8. PublishInv'
  BY <1>1, <1>3 DEF PublishInv, MainTypeOK, NoTrace
<1>9. \A m \in Msg : traceparent[m] # NoTrace => traceparent'[m] # NoTrace
  BY <1>3 DEF MainTypeOK, NoTrace
<1>10. \A i \in 1 .. Len(collected) : collected[i] \in Msg
  BY DEF ReceiveTypeOK
<1>11. \A m \in stored' : m \in Msg /\ traceparent'[m] # NoTrace
  <2>1. stored' \subseteq stored \cup {<<run, next>>} /\ stored \subseteq Msg
    BY <1>1 DEF BrokerTypeOK
  <2>2. <<run, next>> \in Msg /\ traceparent'[<<run, next>>] # NoTrace
    BY <1>1, <1>3 DEF MainTypeOK, NoTrace
  <2> QED
    BY <1>9, <2>1, <2>2 DEF TracedInv
<1>12. TracedInv'
  BY <1>9, <1>10, <1>11 DEF TracedInv, receiveVars
<1>13. QuietInv'
  BY DEF QuietInv, receiveVars
<1> QED
  BY <1>4, <1>5, <1>6, <1>7, <1>8, <1>12, <1>13

LEMMA PublishAnsweredStep ==
    ASSUME IInv, PublishAnswered
    PROVE  IInv'
<1> USE DEF IInv, TypeOK, PublishAnswered
<1>1. <<run, next>> \in Msg
  BY DEF MainTypeOK, PublishInv, Msg
<1>2. Span("send", <<run, next>>, traceparent[<<run, next>>], {}) \in SpansUpTo(traces)
  BY <1>1 DEF Span, SpansUpTo, BrokerTypeOK, MainTypeOK, PublishInv, NoTrace
<1>3. PipelineTypeOK'
  BY <1>2, EndSpanType DEF MainTypeOK
<1>4. MainTypeOK' /\ BrokerTypeOK'
  BY DEF MainTypeOK, BrokerTypeOK, PC, brokerVars
<1>5. ReceiveTypeOK' /\ LockInv' /\ AckInv' /\ DoneInv'
  BY ReceiveFrame
<1>6. PublishInv' /\ TracedInv' /\ QuietInv'
  BY DEF PublishInv, TracedInv, QuietInv, brokerVars, receiveVars
<1> QED
  BY <1>3, <1>4, <1>5, <1>6

LEMMA StartReceiveStep ==
    ASSUME IInv, StartReceive
    PROVE  IInv'
<1> USE DEF IInv, TypeOK, StartReceive
<1>1. MainTypeOK' /\ BrokerTypeOK'
  BY DEF MainTypeOK, BrokerTypeOK, PC, brokerVars
<1>2. ReceiveTypeOK' /\ LockInv' /\ AckInv' /\ DoneInv' /\ QuietInv'
  BY NoReceiveInv
<1>3. PipelineTypeOK'
  BY PipelineFrame
<1>4. PublishInv' /\ TracedInv'
  BY DEF PublishInv, TracedInv, NoReceive, Idle, brokerVars
<1> QED
  BY <1>1, <1>2, <1>3, <1>4

LEMMA ReceiveFailsStep ==
    ASSUME IInv, ReceiveFails
    PROVE  IInv'
<1> USE DEF IInv, TypeOK, ReceiveFails
<1>1. MainTypeOK' /\ BrokerTypeOK'
  BY DEF MainTypeOK, BrokerTypeOK, PC, brokerVars
<1>2. ReceiveTypeOK' /\ LockInv'
  BY DEF ReceiveTypeOK, LockInv
<1>3. AckInv' /\ DoneInv'
  BY DEF AckInv, AckedCollected, CollectedMsgs, DoneInv
<1>4. PipelineTypeOK'
  BY PipelineFrame
<1>5. PublishInv' /\ TracedInv' /\ QuietInv'
  BY DEF PublishInv, TracedInv, QuietInv, brokerVars, receiveVars
<1> QED
  BY <1>1, <1>2, <1>3, <1>4, <1>5

LEMMA ReceiveBatchFailsStep ==
    ASSUME IInv, ReceiveBatchFails
    PROVE  IInv'
<1> USE DEF IInv, TypeOK, ReceiveBatchFails, ReceiveReturns
<1>1. MainTypeOK' /\ BrokerTypeOK'
  BY DEF MainTypeOK, BrokerTypeOK, PC, brokerVars
<1>2. ReceiveTypeOK' /\ LockInv' /\ AckInv' /\ DoneInv'
  BY ReceiveFrame
<1>3. PipelineTypeOK'
  BY PipelineFrame
<1>4. PublishInv' /\ TracedInv' /\ QuietInv'
  BY DEF PublishInv, TracedInv, QuietInv, brokerVars, receiveVars
<1> QED
  BY <1>1, <1>2, <1>3, <1>4

LEMMA ReceiveBatchReturnsStep ==
    ASSUME IInv, ReceiveBatchReturns
    PROVE  IInv'
<1> USE DEF IInv, TypeOK, ReceiveBatchReturns, ReceiveReturns
<1>1. MainTypeOK' /\ BrokerTypeOK'
  BY DEF MainTypeOK, BrokerTypeOK, PC, brokerVars
<1>2. ReceiveTypeOK' /\ LockInv' /\ AckInv' /\ DoneInv'
  BY ReceiveFrame
<1>3. PipelineTypeOK'
  BY PipelineFrame
<1>4. PublishInv' /\ TracedInv' /\ QuietInv'
  BY DEF PublishInv, TracedInv, QuietInv, brokerVars, receiveVars
<1> QED
  BY <1>1, <1>2, <1>3, <1>4

LEMMA ConsumeDoneStep ==
    ASSUME IInv, ConsumeDone
    PROVE  IInv'
<1> USE DEF IInv, TypeOK, ConsumeDone
<1>1. MainTypeOK' /\ BrokerTypeOK'
  BY DEF MainTypeOK, BrokerTypeOK, PC, brokerVars
<1>2. ReceiveTypeOK' /\ LockInv' /\ AckInv' /\ DoneInv'
  BY ReceiveFrame
<1>3. PipelineTypeOK'
  BY PipelineFrame
<1>4. PublishInv' /\ TracedInv' /\ QuietInv'
  BY DEF PublishInv, TracedInv, QuietInv, brokerVars, receiveVars
<1> QED
  BY <1>1, <1>2, <1>3, <1>4

LEMMA ConsumeMessageStep ==
    ASSUME IInv, ConsumeMessage
    PROVE  IInv'
<1> USE DEF IInv, TypeOK, ConsumeMessage
<1>1. collected[next] \in Msg
  BY DEF MainTypeOK, ReceiveTypeOK
<1>2. traces' \in Nat /\ traces < traces'
  BY DEF MainTypeOK
<1>3. traceparent[collected[next]] \in 1 .. traces'
  BY <1>1, <1>2 DEF MainTypeOK, BrokerTypeOK, TracedInv, NoTrace, ReceiveTypeOK
<1>4. Span("process", collected[next], traces', {traceparent[collected[next]]}) \in SpansUpTo(traces')
  BY <1>1, <1>2, <1>3 DEF Span, SpansUpTo, MainTypeOK
<1>5. PipelineTypeOK'
  BY <1>2, <1>4, EndSpanType DEF MainTypeOK
<1>6. MainTypeOK' /\ BrokerTypeOK'
  BY DEF MainTypeOK, BrokerTypeOK, PC, brokerVars
<1>7. ReceiveTypeOK' /\ LockInv' /\ AckInv' /\ DoneInv'
  BY ReceiveFrame
<1>8. PublishInv' /\ TracedInv' /\ QuietInv'
  BY DEF PublishInv, TracedInv, QuietInv, brokerVars, receiveVars
<1> QED
  BY <1>5, <1>6, <1>7, <1>8

LEMMA ExitStep ==
    ASSUME IInv, Exit
    PROVE  IInv'
<1> USE DEF IInv, TypeOK, Exit
<1>1. MainTypeOK' /\ BrokerTypeOK'
  BY DEF MainTypeOK, BrokerTypeOK, PC, brokerVars
<1>2. ReceiveTypeOK' /\ LockInv' /\ AckInv' /\ DoneInv' /\ QuietInv'
  BY NoReceiveInv
<1>3. PipelineTypeOK'
  BY DEF PipelineTypeOK, Shutdown, Drain, GiveUp
<1>4. PublishInv' /\ TracedInv'
  BY DEF PublishInv, TracedInv, NoReceive, Idle, brokerVars
<1> QED
  BY <1>1, <1>2, <1>3, <1>4

LEMMA CrashStep ==
    ASSUME IInv, Crash
    PROVE  IInv'
<1> USE DEF IInv, TypeOK, Crash
<1>1. MainTypeOK' /\ BrokerTypeOK'
  BY DEF MainTypeOK, BrokerTypeOK, PC, brokerVars
<1>2. ReceiveTypeOK' /\ LockInv' /\ AckInv' /\ DoneInv' /\ QuietInv'
  BY NoReceiveInv
<1>3. PipelineTypeOK'
  BY DEF PipelineTypeOK, Kill
<1>4. PublishInv' /\ TracedInv'
  BY DEF PublishInv, TracedInv, NoReceive, Idle, brokerVars
<1> QED
  BY <1>1, <1>2, <1>3, <1>4

LEMMA ExportStep ==
    ASSUME IInv, Export
    PROVE  IInv'
<1> USE DEF IInv, TypeOK, Export
<1>1. MainTypeOK' /\ BrokerTypeOK'
  BY DEF MainTypeOK, BrokerTypeOK, PC, brokerVars
<1>2. ReceiveTypeOK' /\ LockInv' /\ AckInv' /\ DoneInv'
  BY ReceiveFrame
<1>3. PipelineTypeOK'
  BY DEF PipelineTypeOK, ExportBatch
<1>4. PublishInv' /\ TracedInv' /\ QuietInv'
  BY DEF PublishInv, TracedInv, QuietInv, brokerVars, receiveVars
<1> QED
  BY <1>1, <1>2, <1>3, <1>4

LEMMA DeliverStep ==
    ASSUME IInv, NEW c \in Callbacks, NEW m \in Msg, Deliver(c, m)
    PROVE  IInv'
<1> USE DEF IInv, TypeOK, Deliver, Idle
<1>1. MainTypeOK' /\ BrokerTypeOK'
  BY DEF MainTypeOK, BrokerTypeOK, PC, brokerVars
<1>2. PipelineTypeOK'
  BY PipelineFrame
<1>3. ReceiveTypeOK'
  BY DEF ReceiveTypeOK, CallbackType, NoMsg
<1>4. PublishInv' /\ TracedInv'
  BY DEF PublishInv, TracedInv, ReceiveTypeOK, brokerVars
<1>5. LockInv'
  BY DEF LockInv, ReceiveTypeOK
<1>6. AckInv' /\ DoneInv' /\ QuietInv'
  BY DEF AckInv, AckedCollected, CollectedMsgs, DoneInv, QuietInv, ReceiveTypeOK
<1> QED
  BY <1>1, <1>2, <1>3, <1>4, <1>5, <1>6

LEMMA LockBatchStep ==
    ASSUME IInv, NEW c \in Callbacks, LockBatch(c)
    PROVE  IInv'
<1> USE DEF IInv, TypeOK, LockBatch
<1>1. MainTypeOK' /\ BrokerTypeOK'
  BY DEF MainTypeOK, BrokerTypeOK, PC, brokerVars
<1>2. PipelineTypeOK'
  BY PipelineFrame
<1>3. Len(collected) \in Nat
  BY DEF ReceiveTypeOK
<1>4. [cb[c] EXCEPT !.at = "locked", !.seen = Len(collected)] \in CallbackType
  BY <1>3 DEF ReceiveTypeOK, CallbackType
<1>5. cb' = [cb EXCEPT ![c] = [cb[c] EXCEPT !.at = "locked", !.seen = Len(collected)]]
  OBVIOUS
<1>6. ReceiveTypeOK'
  BY <1>4, <1>5 DEF ReceiveTypeOK
<1>7. cb'[c].at = "locked" /\ cb'[c].msg = cb[c].msg /\ cb'[c].seen = Len(collected)
  BY <1>5 DEF ReceiveTypeOK, CallbackType
<1>8. cb'[c].done = cb[c].done
  BY <1>5 DEF ReceiveTypeOK, CallbackType
<1>9. \A d \in Callbacks \ {c} : cb'[d] = cb[d]
  BY DEF ReceiveTypeOK
<1>10. PublishInv' /\ TracedInv'
  BY <1>7, <1>9 DEF PublishInv, TracedInv, brokerVars
<1>11. LockInv'
  BY <1>7, <1>9 DEF LockInv, ReceiveTypeOK
<1>12. AckInv'
  <2>1. CollectedMsgs' = CollectedMsgs /\ acked' = acked
    BY DEF CollectedMsgs
  <2>2. \A d \in Callbacks : cb'[d].at \in {"appended", "acked"} =>
           cb[d].at \in {"appended", "acked"} /\ cb'[d].msg = cb[d].msg
    BY <1>7, <1>9
  <2>3. AckInv
    OBVIOUS
  <2> HIDE DEF IInv, LockBatch
  <2> QED
    BY <2>1, <2>2, <2>3 DEF AckInv, AckedCollected
<1>13. DoneInv'
  BY <1>8, <1>9 DEF DoneInv
<1>14. QuietInv'
  BY <1>7, <1>9 DEF QuietInv
<1> QED
  BY <1>1, <1>2, <1>6, <1>10, <1>11, <1>12, <1>13, <1>14

LEMMA AppendMessageStep ==
    ASSUME IInv, NEW c \in Callbacks, AppendMessage(c)
    PROVE  IInv'
<1> USE DEF IInv, TypeOK, AppendMessage
<1>1. /\ cb[c] \in CallbackType /\ cb[c].msg \in Msg /\ cb[c].seen = Len(collected)
      /\ collected \in Seq(Msg)
  BY DEF ReceiveTypeOK, TracedInv, LockInv
<1>2. collected' = Append(collected, cb[c].msg)
  BY <1>1
<1>3. /\ collected' \in Seq(Msg) /\ Len(collected') = Len(collected) + 1
      /\ \A i \in 1 .. Len(collected) : collected'[i] = collected[i]
      /\ collected'[Len(collected) + 1] = cb[c].msg
  BY <1>1, <1>2
<1>4. CollectedMsgs' = CollectedMsgs \cup {cb[c].msg}
  <2>1. DOMAIN collected' = 1 .. (Len(collected) + 1) /\ DOMAIN collected = 1 .. Len(collected)
    BY <1>1, <1>3
  <2>2. DOMAIN collected' = DOMAIN collected \cup {Len(collected) + 1}
    BY <1>1, <2>1
  <2> QED
    BY <1>3, <2>1, <2>2 DEF CollectedMsgs
<1>5. PICK full \in BOOLEAN :
        /\ full <=> Len(collected') >= BatchSize
        /\ cb' = [cb EXCEPT ![c] = [cb[c] EXCEPT !.at = "appended", !.done = full]]
  <2> DEFINE full == cb[c].seen + 1 >= BatchSize
  <2>1. full \in BOOLEAN /\ (full <=> Len(collected') >= BatchSize)
    BY <1>1, <1>3
  <2>2. cb' = [cb EXCEPT ![c] = [cb[c] EXCEPT !.at = "appended", !.done = full]]
    OBVIOUS
  <2> QED
    BY <2>1, <2>2
<1>6. /\ cb'[c].at = "appended" /\ cb'[c].msg = cb[c].msg
      /\ \A d \in Callbacks \ {c} : cb'[d] = cb[d]
  BY <1>1, <1>5 DEF ReceiveTypeOK, CallbackType
<1>7. cb'[c].done = full
  BY <1>1, <1>5 DEF ReceiveTypeOK, CallbackType
<1>8. MainTypeOK' /\ BrokerTypeOK'
  BY DEF MainTypeOK, BrokerTypeOK, PC, brokerVars
<1>9. PipelineTypeOK'
  BY PipelineFrame
<1>10. cb' \in [Callbacks -> CallbackType]
  <2>1. [cb[c] EXCEPT !.at = "appended", !.done = full] \in CallbackType
    BY <1>1 DEF CallbackType
  <2> QED
    BY <1>5, <2>1 DEF ReceiveTypeOK
<1>11. ReceiveTypeOK'
  BY <1>3, <1>10 DEF ReceiveTypeOK
<1>12. PublishInv'
  BY DEF PublishInv, brokerVars
<1>13. TracedInv'
  <2>1. \A i \in 1 .. Len(collected') : traceparent[collected'[i]] # NoTrace
    BY <1>1, <1>3 DEF TracedInv
  <2>2. \A d \in Callbacks : cb'[d].at # "idle" =>
          cb'[d].msg \in Msg /\ traceparent[cb'[d].msg] # NoTrace
    BY <1>1, <1>6 DEF TracedInv
  <2> QED
    BY <2>1, <2>2 DEF TracedInv, brokerVars
<1>14. LockInv'
  BY <1>6 DEF LockInv, ReceiveTypeOK
<1>15. AckInv'
  <2>1. \A d \in Callbacks : cb'[d].at \in {"appended", "acked"} => cb'[d].msg \in CollectedMsgs'
    <3> SUFFICES ASSUME NEW d \in Callbacks, cb'[d].at \in {"appended", "acked"}
                 PROVE  cb'[d].msg \in CollectedMsgs'
      OBVIOUS
    <3>1. CASE d = c
      BY <1>4, <1>6, <3>1
    <3>2. CASE d # c
      <4>1. cb'[d] = cb[d]
        BY <1>6, <3>2
      <4>2. cb[d].msg \in CollectedMsgs
        BY <4>1 DEF AckInv
      <4> QED
        BY <1>4, <4>1, <4>2
    <3> QED
      BY <3>1, <3>2
  <2> QED
    BY <1>4, <2>1 DEF AckInv, AckedCollected
<1>16. DoneInv'
  <2>1. Len(collected') >= BatchSize \/ (Len(collected) < BatchSize /\ ~full)
    BY <1>1, <1>3, <1>5
  <2>2. \A d \in Callbacks : cb'[d].done => Len(collected') >= BatchSize
    <3> SUFFICES ASSUME NEW d \in Callbacks, cb'[d].done
                 PROVE  Len(collected') >= BatchSize
      OBVIOUS
    <3>1. CASE d = c
      BY <1>5, <1>7, <3>1
    <3>2. CASE d # c
      <4>1. cb[d].done
        BY <1>6, <3>2
      <4> QED
        BY <1>1, <1>3, <4>1 DEF DoneInv
    <3> QED
      BY <3>1, <3>2
  <2>3. cancelled => Len(collected') >= BatchSize
    BY <1>1, <1>3 DEF DoneInv
  <2> QED
    BY <2>1, <2>2, <2>3 DEF DoneInv
<1>17. QuietInv'
  BY <1>6 DEF QuietInv
<1> QED
  BY <1>8, <1>9, <1>11, <1>12, <1>13, <1>14, <1>15, <1>16, <1>17

LEMMA AckMessageStep ==
    ASSUME IInv, NEW c \in Callbacks, AckMessage(c)
    PROVE  IInv'
<1> USE DEF IInv, TypeOK, AckMessage
<1>1. MainTypeOK' /\ BrokerTypeOK'
  BY DEF MainTypeOK, BrokerTypeOK, PC, brokerVars, TracedInv
<1>2. PipelineTypeOK'
  BY PipelineFrame
<1>3. cb[c] \in CallbackType /\ cb[c].msg \in Msg
  BY DEF ReceiveTypeOK, TracedInv
<1>4. ReceiveTypeOK'
  BY <1>3 DEF ReceiveTypeOK, CallbackType
<1>5. PublishInv' /\ TracedInv'
  BY <1>3 DEF PublishInv, TracedInv, ReceiveTypeOK
<1>6. LockInv'
  BY <1>3 DEF LockInv, ReceiveTypeOK
<1>7. AckInv' /\ DoneInv' /\ QuietInv'
  BY DEF AckInv, AckedCollected, CollectedMsgs, DoneInv, QuietInv, ReceiveTypeOK
<1> QED
  BY <1>1, <1>2, <1>4, <1>5, <1>6, <1>7

LEMMA ReturnCallbackStep ==
    ASSUME IInv, NEW c \in Callbacks, ReturnCallback(c)
    PROVE  IInv'
<1> USE DEF IInv, TypeOK, ReturnCallback
<1>1. MainTypeOK' /\ BrokerTypeOK'
  BY DEF MainTypeOK, BrokerTypeOK, PC, brokerVars
<1>2. PipelineTypeOK'
  BY PipelineFrame
<1>3. \A d \in Callbacks : cb'[d] = IF d = c THEN Idle ELSE cb[d]
  BY DEF ReceiveTypeOK
<1>4. cancelled' \in BOOLEAN
  BY DEF ReceiveTypeOK, CallbackType
<1>5. ReceiveTypeOK'
  BY <1>4, IdleType DEF ReceiveTypeOK
<1>6. PublishInv' /\ TracedInv'
  BY <1>3 DEF PublishInv, TracedInv, Idle, brokerVars
<1>7. LockInv'
  BY <1>3 DEF LockInv, Idle, ReceiveTypeOK
<1>8. AckInv'
  BY <1>3 DEF AckInv, AckedCollected, CollectedMsgs, Idle
<1>9. DoneInv'
  BY <1>3 DEF DoneInv, Idle
<1>10. QuietInv'
  BY <1>3 DEF QuietInv, Idle
<1> QED
  BY <1>1, <1>2, <1>5, <1>6, <1>7, <1>8, <1>9, <1>10

LEMMA NextIInv == IInv /\ [Next]_vars => IInv'
<1> SUFFICES ASSUME IInv, [Next]_vars PROVE IInv'
  OBVIOUS
<1>1. CASE StartRun
  BY <1>1, StartRunStep
<1>2. CASE Main
  BY <1>2, SetupStep, PublishMessageStep, PublishAnsweredStep, StartReceiveStep,
     ReceiveBatchFailsStep, ReceiveBatchReturnsStep, ConsumeMessageStep,
     ConsumeDoneStep, ExitStep DEF Main
<1>3. CASE \E c \in Callbacks, m \in Msg : Deliver(c, m)
  BY <1>3, DeliverStep
<1>4. CASE \E c \in Callbacks : CallbackStep(c)
  BY <1>4, LockBatchStep, AppendMessageStep, AckMessageStep, ReturnCallbackStep DEF CallbackStep
<1>5. CASE ReceiveFails \/ Export \/ Crash
  BY <1>5, ReceiveFailsStep, ExportStep, CrashStep
<1>6. CASE UNCHANGED vars
  <2> USE <1>6 DEF vars, IInv, TypeOK, brokerVars
  <2>1. MainTypeOK' /\ BrokerTypeOK' /\ PublishInv'
    BY DEF MainTypeOK, BrokerTypeOK, PublishInv
  <2>2. ReceiveTypeOK' /\ LockInv' /\ AckInv' /\ DoneInv'
    BY ReceiveFrame
  <2>3. PipelineTypeOK'
    BY PipelineFrame
  <2>4. TracedInv' /\ QuietInv'
    BY DEF TracedInv, QuietInv, receiveVars
  <2> QED
    BY <2>1, <2>2, <2>3, <2>4
<1> QED
  BY <1>1, <1>2, <1>3, <1>4, <1>5, <1>6 DEF Next

THEOREM Inductive == Spec => []IInv
<1>1. Init => IInv
  BY InitIInv
<1>2. IInv /\ [Next]_vars => IInv'
  BY NextIInv
<1> QED
  BY <1>1, <1>2, PTL DEF Spec

(* Every variable keeps its type. *)
THEOREM TypeCorrect == Spec => []TypeOK
<1>1. IInv => TypeOK
  BY DEF IInv
<1> QED
  BY <1>1, Inductive, PTL

(* Whatever the interleaving of the callbacks, a message is acknowledged   *)
(* only when it is in the slice receiveBatch returns (main.go:94-104).     *)
THEOREM AckedSafe == Spec => []AckedCollected
<1>1. IInv => AckedCollected
  BY DEF IInv, AckInv
<1> QED
  BY <1>1, Inductive, PTL

-----------------------------------------------------------------------------
(* receiveBatch implements BatchContract. *)

LEMMA InitContract == Init => Contract!Init
BY DEF Init, Contract!Init, Phase

LEMMA NextContract ==
    ASSUME IInv, [Next]_vars
    PROVE  [Contract!Next]_<<Phase, IF Phase = "none" THEN <<>> ELSE collected>>
<1> DEFINE batch == IF Phase = "none" THEN <<>> ELSE collected
<1> USE DEF IInv, Phase
<1>1. CASE StartRun \/ Setup \/ PublishMessage \/ PublishAnswered
  BY <1>1 DEF StartRun, Setup, PublishMessage, PublishAnswered
<1>2. CASE StartReceive
  <2>1. Contract!Open
    BY <1>2 DEF StartReceive, NoReceive, Contract!Open
  <2> QED
    BY <2>1 DEF Contract!Next
<1>3. CASE ReceiveBatchFails \/ ConsumeDone
  <2>1. Contract!GiveUp
    BY <1>3 DEF ReceiveBatchFails, ReceiveReturns, ConsumeDone, Contract!GiveUp
  <2> QED
    BY <2>1 DEF Contract!Next
<1>4. CASE ReceiveBatchReturns
  <2>1. Contract!Fill
    BY <1>4 DEF ReceiveBatchReturns, ReceiveReturns, receiveVars, DoneInv, Contract!Fill
  <2> QED
    BY <2>1 DEF Contract!Next
<1>5. CASE ConsumeMessage \/ Export
  BY <1>5 DEF ConsumeMessage, Export, receiveVars
<1>6. CASE Exit
  BY <1>6 DEF Exit
<1>7. CASE Crash
  <2>1. Contract!GiveUp \/ UNCHANGED <<Phase, batch>>
    BY <1>7 DEF Crash, Contract!GiveUp
  <2> QED
    BY <2>1 DEF Contract!Next
<1>8. ASSUME NEW c \in Callbacks, NEW m \in Msg, Deliver(c, m)
      PROVE  UNCHANGED <<Phase, batch>>
  BY <1>8 DEF Deliver
<1>9. ASSUME NEW c \in Callbacks, CallbackStep(c)
      PROVE  Contract!Take \/ UNCHANGED <<Phase, batch>>
  <2>1. CASE AppendMessage(c)
    <3>1. pc = "receive" /\ pc' = pc
      BY <2>1 DEF AppendMessage, QuietInv
    <3>2. cb[c].msg \in Msg /\ collected' = Append(collected, cb[c].msg)
      BY <2>1 DEF AppendMessage, TypeOK, ReceiveTypeOK, TracedInv, LockInv
    <3> QED
      BY <3>1, <3>2 DEF Contract!Take
  <2>2. CASE LockBatch(c) \/ AckMessage(c) \/ ReturnCallback(c)
    BY <2>2 DEF LockBatch, AckMessage, ReturnCallback
  <2> QED
    BY <1>9, <2>1, <2>2 DEF CallbackStep
<1>10. CASE ReceiveFails
  BY <1>10 DEF ReceiveFails
<1>11. CASE UNCHANGED vars
  BY <1>11 DEF vars, receiveVars
<1> QED
  BY <1>1, <1>2, <1>3, <1>4, <1>5, <1>6, <1>7, <1>8, <1>9, <1>10, <1>11
  DEF Next, Main, Contract!Next

(* receiveBatch implements BatchContract: no append is lost or overwritten, *)
(* no batch is handed on short, and a batch handed on does not change.     *)
THEOREM Refinement == Spec => BatchRefinement
<1>1. Init => Contract!Init
  BY InitContract
<1>2. IInv /\ [Next]_vars => [Contract!Next]_<<Phase, IF Phase = "none" THEN <<>> ELSE collected>>
  BY NextContract
<1> QED
  BY <1>1, <1>2, Inductive, PTL DEF Spec, BatchRefinement, Contract!Spec
=============================================================================
