------------------------ MODULE SpanLinkTraces_proof ------------------------
(***************************************************************************)
(* Theorems about SpanLink that relate the spans of all runs: the links,   *)
(* what a clean run has processed, and that it processed nothing twice.    *)
(* They rest on IInv, whose theorems SpanLink_proof proves.                *)
(***************************************************************************)
EXTENDS SpanLink_proof

(* Messages Publish has not come to. *)
Unpublished ==
    {m \in Msg :
        \/ m[1] > run
        \/ m[1] = run /\ pc = "setup"
        \/ m[1] = run /\ pc = "publish" /\ m[2] >= next
        \/ m[1] = run /\ pc \in {"published", "publishFailed"} /\ m[2] > next}

(* A trace id is handed out once: to a producer span or to a process span. *)
ParentInv ==
    /\ \A m \in Unpublished : traceparent[m] = NoTrace
    /\ \A m, n \in Msg : traceparent[m] # NoTrace /\ traceparent[m] = traceparent[n] => m = n

SendInv == \A s \in Ended : s.kind = "send" => s.trace = traceparent[s.msg]

ProcessInv ==
    /\ \A s \in Processed : s.links = {traceparent[s.msg]}
    /\ \A s \in Processed, m \in Msg : traceparent[m] # s.trace
    /\ \A s, t \in Processed : s.trace = t.trace => s = t

TraceInv == ParentInv /\ SendInv /\ ProcessInv

(* A message whose producer span was started has that span ended, is the   *)
(* one Publish waits for, or was the one when its run was killed.          *)
InFlight(m) == pc \in {"published", "publishFailed"} /\ m = <<run, next>>
Sent(m)     == \E t \in Ended : t.kind = "send" /\ t.msg = m

SentInv ==
    /\ \A m \in Msg : traceparent[m] # NoTrace => Sent(m) \/ InFlight(m) \/ LastOfItsRun(m)
    /\ \A s \in Processed : ~InFlight(s.msg)

(* ConsumeMessages has processed what it has passed. *)
HasSpan(m) == \E s \in Processed : s.msg = m

ConsumeInv ==
    /\ cancelled => pc \in {"receive", "consume", "exit"}
    /\ pc = "consume" => \A i \in 1 .. Len(collected) : i < next => HasSpan(collected[i])
    /\ pc = "exit" /\ cancelled /\ ~rpcError =>
          \A i \in 1 .. Len(collected) : HasSpan(collected[i])

(* Without a lost acknowledgement a message is retained by Pub/Sub, held   *)
(* by one callback, in the slice or processed, and never goes back.        *)
HeldInv ==
    /\ \A c \in Outstanding : cb[c].msg \in stored
    /\ \A c, d \in Outstanding : cb[c].msg = cb[d].msg => c = d

BatchInv ==
    /\ \A i \in 1 .. Len(collected) : collected[i] \in stored =>
          \E c \in Callbacks : cb[c].at = "appended" /\ cb[c].msg = collected[i]
    /\ \A i, j \in 1 .. Len(collected) : collected[i] = collected[j] => i = j

SettledInv ==
    /\ \A s \in Processed : s.msg \notin stored
    /\ \A s \in Processed, i \in 1 .. Len(collected) :
          pc = "receive" \/ (pc = "consume" /\ i >= next) => s.msg # collected[i]
    /\ \A s, t \in Processed : s.msg = t.msg => s = t

OnceInv == lostAcks = 0 => HeldInv /\ BatchInv /\ SettledInv
-----------------------------------------------------------------------------
(* What the steps of the pipeline do to the ended spans. *)

LEMMA EndedSame ==
    ASSUME \/ UNCHANGED pipelineVars \/ InstallProvider \/ ExportBatch
           \/ Shutdown \/ Kill
    PROVE  Ended' = Ended
BY DEF pipelineVars, InstallProvider, ExportBatch, Shutdown, Drain, GiveUp, Kill, Ended

LEMMA EndedMore ==
    ASSUME NEW s, EndSpan(s)
    PROVE  Ended' = Ended \cup {s}
BY DEF EndSpan, Ended

LEMMA SpanFacts ==
    ASSUME IInv, NEW s \in Ended
    PROVE  s.kind \in {"send", "process"} /\ s.msg \in Msg /\ s.trace \in 1 .. traces
BY DEF IInv, TypeOK, PipelineTypeOK, Ended, SpansUpTo

(* A trace id that is handed out now is none of the earlier ones. *)
LEMMA NewTrace ==
    ASSUME IInv
    PROVE  /\ traces + 1 # NoTrace
           /\ \A m \in Msg : traceparent[m] # traces + 1
           /\ \A s \in Ended : s.trace # traces + 1
<1>1. traces \in Nat /\ traceparent \in [Msg -> 0 .. traces]
  BY DEF IInv, TypeOK, MainTypeOK, BrokerTypeOK
<1> QED
  BY <1>1, SpanFacts DEF NoTrace

-----------------------------------------------------------------------------
(* TraceInv *)

LEMMA TraceFrame ==
    ASSUME TraceInv, UNCHANGED traceparent, Ended' = Ended, Unpublished' \subseteq Unpublished
    PROVE  TraceInv'
<1>1. Processed' = Processed
  BY DEF Processed
<1> QED
  BY <1>1 DEF TraceInv, ParentInv, SendInv, ProcessInv

(* The message Publish has come to is in no span, and nowhere in Pub/Sub. *)
LEMMA FreshMessage ==
    ASSUME IInv, TraceInv, <<run, next>> \in Unpublished
    PROVE  /\ traceparent[<<run, next>>] = NoTrace
           /\ \A s \in Ended : s.msg # <<run, next>>
           /\ \A i \in 1 .. Len(collected) : collected[i] # <<run, next>>
<1> DEFINE new == <<run, next>>
<1>1. traceparent[new] = NoTrace
  BY DEF TraceInv, ParentInv
<1>2. ASSUME NEW s \in Ended
      PROVE  s.msg # new
  <2>1. s.msg \in Msg /\ s.trace \in 1 .. traces /\ s.links \subseteq 1 .. traces
    BY <1>2, SpanFacts DEF IInv, TypeOK, PipelineTypeOK, Ended, SpansUpTo
  <2>2. CASE s.kind = "send"
    BY <1>1, <1>2, <2>1, <2>2 DEF TraceInv, SendInv, NoTrace
  <2>3. CASE s.kind = "process"
    BY <1>1, <1>2, <2>1, <2>3 DEF TraceInv, ProcessInv, Processed, NoTrace
  <2> QED
    BY <1>2, <2>2, <2>3, SpanFacts
<1> QED
  BY <1>1, <1>2 DEF IInv, TracedInv

LEMMA PublishMessageTrace ==
    ASSUME IInv, TraceInv, PublishMessage
    PROVE  TraceInv'
<1> DEFINE new == <<run, next>>
<1>1. run \in 1 .. MaxRuns /\ next \in 1 .. BatchSize /\ new \in Msg
  BY DEF IInv, TypeOK, MainTypeOK, PublishInv, PublishMessage, Msg
<1>2. \A m \in Msg : traceparent'[m] = IF m = new THEN traces + 1 ELSE traceparent[m]
  BY DEF PublishMessage, IInv, TypeOK, BrokerTypeOK
<1>3. new \in Unpublished /\ Unpublished' \subseteq Unpublished \ {new}
  BY <1>1 DEF PublishMessage, Unpublished, Msg
<1>4. Ended' = Ended /\ Processed' = Processed
  BY EndedSame DEF PublishMessage, Processed
<1>5. traceparent[new] = NoTrace /\ \A s \in Ended : s.msg # new
  BY <1>3, FreshMessage
<1>6. ParentInv'
  BY <1>2, <1>3, NewTrace DEF TraceInv, ParentInv, Unpublished
<1>7. SendInv'
  BY <1>2, <1>4, <1>5, SpanFacts DEF TraceInv, SendInv
<1>8. ProcessInv'
  <2>1. \A s \in Processed : s.links = {traceparent'[s.msg]}
    BY <1>2, <1>5, SpanFacts DEF TraceInv, ProcessInv, Processed
  <2>2. \A s \in Processed, m \in Msg : traceparent'[m] # s.trace
    BY <1>2, NewTrace DEF TraceInv, ProcessInv, Processed
  <2> QED
    BY <1>4, <2>1, <2>2 DEF TraceInv, ProcessInv
<1> QED
  BY <1>6, <1>7, <1>8 DEF TraceInv

LEMMA PublishAnsweredTrace ==
    ASSUME IInv, TraceInv, PublishAnswered
    PROVE  TraceInv'
<1> DEFINE span == Span("send", <<run, next>>, traceparent[<<run, next>>], {})
<1>1. /\ span.kind = "send" /\ span.msg = <<run, next>>
      /\ span.trace = traceparent[<<run, next>>]
  BY DEF Span
<1>2. Ended' = Ended \cup {span}
  BY EndedMore DEF PublishAnswered
<1>3. Processed' = Processed
  BY <1>1, <1>2 DEF Processed
<1>4. traceparent' = traceparent
  BY DEF PublishAnswered, brokerVars
<1>5. Unpublished' \subseteq Unpublished
  BY DEF PublishAnswered, Unpublished, Msg, IInv, TypeOK, MainTypeOK
<1>6. ParentInv'
  BY <1>4, <1>5 DEF TraceInv, ParentInv
<1>7. SendInv'
  BY <1>1, <1>2, <1>4 DEF TraceInv, SendInv
<1>8. ProcessInv'
  BY <1>3, <1>4 DEF TraceInv, ProcessInv
<1> QED
  BY <1>6, <1>7, <1>8 DEF TraceInv

LEMMA ConsumeMessageTrace ==
    ASSUME IInv, TraceInv, ConsumeMessage
    PROVE  TraceInv'
<1> DEFINE m == collected[next]
           span == Span("process", m, traces + 1, {traceparent[m]})
<1>1. /\ span.kind = "process" /\ span.msg = m /\ span.trace = traces + 1
      /\ span.links = {traceparent[m]}
  BY DEF Span
<1>2. Ended' = Ended \cup {span}
  BY EndedMore DEF ConsumeMessage
<1>3. Processed' = Processed \cup {span}
  BY <1>1, <1>2 DEF Processed
<1>4. traceparent' = traceparent
  BY DEF ConsumeMessage, brokerVars
<1>5. Unpublished' \subseteq Unpublished
  BY DEF ConsumeMessage, Unpublished
<1>6. ParentInv'
  BY <1>4, <1>5 DEF TraceInv, ParentInv
<1>7. SendInv'
  BY <1>1, <1>2, <1>4 DEF TraceInv, SendInv
<1>8. ProcessInv'
  BY <1>1, <1>3, <1>4, NewTrace DEF TraceInv, ProcessInv, Processed
<1> QED
  BY <1>6, <1>7, <1>8 DEF TraceInv

LEMMA NextTraceInv == IInv /\ TraceInv /\ [Next]_vars => TraceInv'
<1> SUFFICES ASSUME IInv, TraceInv, [Next]_vars PROVE TraceInv'
  OBVIOUS
<1>1. run \in Nat
  BY DEF IInv, TypeOK, MainTypeOK
<1>2. CASE StartRun
  <2>1. Unpublished' \subseteq Unpublished
    BY <1>1, <1>2 DEF StartRun, Unpublished, Msg
  <2> QED
    BY <1>2, <2>1, TraceFrame, EndedSame DEF StartRun, brokerVars
<1>3. CASE Setup
  <2>1. Unpublished' \subseteq Unpublished
    BY <1>3 DEF Setup, Unpublished
  <2> QED
    BY <1>3, <2>1, TraceFrame, EndedSame DEF Setup
<1>4. CASE PublishMessage \/ PublishAnswered \/ ConsumeMessage
  BY <1>4, PublishMessageTrace, PublishAnsweredTrace, ConsumeMessageTrace
<1>5. CASE StartReceive \/ ReceiveBatchFails \/ ReceiveBatchReturns \/ ConsumeDone
  <2>1. Unpublished' \subseteq Unpublished
    BY <1>5 DEF StartReceive, ReceiveBatchFails, ReceiveBatchReturns, ReceiveReturns,
                ConsumeDone, Unpublished
  <2> QED
    BY <1>5, <2>1, TraceFrame, EndedSame
    DEF StartReceive, ReceiveBatchFails, ReceiveBatchReturns, ConsumeDone, brokerVars
<1>6. CASE Exit \/ Crash
  <2>1. Unpublished' \subseteq Unpublished
    BY <1>6 DEF Exit, Crash, Unpublished
  <2> QED
    BY <1>6, <2>1, TraceFrame, EndedSame DEF Exit, Crash, brokerVars
<1>7. ASSUME NEW c \in Callbacks, NEW m \in Msg, Deliver(c, m)
      PROVE  TraceInv'
  BY <1>7, TraceFrame, EndedSame DEF Deliver, Unpublished, brokerVars
<1>8. ASSUME NEW c \in Callbacks, CallbackStep(c)
      PROVE  TraceInv'
  BY <1>8, TraceFrame, EndedSame
  DEF CallbackStep, LockBatch, AppendMessage, AckMessage, ReturnCallback, Unpublished, brokerVars
<1>9. CASE ReceiveFails \/ Export \/ UNCHANGED vars
  BY <1>9, TraceFrame, EndedSame DEF ReceiveFails, Export, vars, Unpublished, brokerVars
<1> QED
  BY <1>2, <1>3, <1>4, <1>5, <1>6, <1>7, <1>8, <1>9 DEF Next, Main

-----------------------------------------------------------------------------
(* SentInv *)

(* Steps after which no message is on its way. *)
LEMMA SentFrame ==
    ASSUME SentInv, UNCHANGED <<run, traceparent>>, Ended' = Ended,
           pc \notin {"published", "publishFailed"}, pc' \notin {"published", "publishFailed"},
           pc = "down" => pc' = "down"
    PROVE  SentInv'
<1>1. \A m : ~InFlight(m) /\ ~InFlight(m)' /\ Sent(m)' = Sent(m)
  BY DEF InFlight, Sent
<1>2. \A m : LastOfItsRun(m) => LastOfItsRun(m)'
  BY DEF LastOfItsRun
<1> QED
  BY <1>1, <1>2 DEF SentInv, Processed

LEMMA StartRunSent ==
    ASSUME IInv, TraceInv, SentInv, StartRun
    PROVE  SentInv'
<1>1. /\ pc = "down" /\ pc' = "setup" /\ run' = run + 1 /\ run \in Nat
      /\ UNCHANGED <<traceparent, next>> /\ Ended' = Ended
  BY EndedSame DEF StartRun, brokerVars, IInv, TypeOK, MainTypeOK
<1>2. \A m : ~InFlight(m) /\ ~InFlight(m)' /\ Sent(m)' = Sent(m)
  BY <1>1 DEF InFlight, Sent
<1>3. ASSUME NEW m \in Msg, traceparent[m] # NoTrace, LastOfItsRun(m)
      PROVE  LastOfItsRun(m)'
  <2>1. m[1] \in Nat /\ ~(m[1] > run)
    BY <1>3 DEF TraceInv, ParentInv, Unpublished, Msg
  <2>2. m[1] < run'
    BY <1>1, <2>1
  <2> QED
    BY <1>1, <1>3, <2>2 DEF LastOfItsRun
<1> QED
  BY <1>1, <1>2, <1>3 DEF SentInv, Processed

LEMMA PublishMessageSent ==
    ASSUME IInv, TraceInv, SentInv, PublishMessage
    PROVE  SentInv'
<1> DEFINE new == <<run, next>>
<1>1. /\ run \in 1 .. MaxRuns /\ next \in 1 .. BatchSize /\ new \in Msg
      /\ pc = "publish" /\ pc' \in {"published", "publishFailed"} /\ UNCHANGED <<run, next>>
  BY DEF IInv, TypeOK, MainTypeOK, PublishInv, PublishMessage, Msg
<1>2. \A m \in Msg : m # new => traceparent'[m] = traceparent[m]
  BY DEF PublishMessage, IInv, TypeOK, BrokerTypeOK
<1>3. Ended' = Ended
  BY EndedSame DEF PublishMessage
<1>4. \A s \in Ended : s.msg # new
  BY <1>1, FreshMessage DEF Unpublished
<1>5. ASSUME NEW m \in Msg, m # new, LastOfItsRun(m)
      PROVE  LastOfItsRun(m)'
  <2>1. m[1] < run
    BY <1>1, <1>5 DEF LastOfItsRun
  <2>2. ASSUME NEW i \in m[2] + 1 .. BatchSize
        PROVE  traceparent'[<<m[1], i>>] = NoTrace
    <3>1. <<m[1], i>> \in Msg /\ <<m[1], i>> # new
      BY <1>1, <2>1, <2>2, BatchSizeAssumption, BoundsAssumption DEF Msg
    <3> QED
      BY <1>2, <1>5, <2>2, <3>1 DEF LastOfItsRun
  <2> QED
    BY <1>1, <2>1, <2>2 DEF LastOfItsRun
<1>6. \A m \in Msg : traceparent'[m] # NoTrace => Sent(m)' \/ InFlight(m)' \/ LastOfItsRun(m)'
  <2> TAKE m \in Msg
  <2> HAVE traceparent'[m] # NoTrace
  <2>1. CASE m = new
    BY <1>1, <2>1 DEF InFlight
  <2>2. CASE m # new
    <3>1. Sent(m) \/ LastOfItsRun(m)
      BY <1>1, <1>2, <2>2 DEF SentInv, InFlight
    <3>2. Sent(m) => Sent(m)'
      BY <1>3 DEF Sent
    <3>3. LastOfItsRun(m) => LastOfItsRun(m)'
      BY <1>5, <2>2
    <3> QED
      BY <3>1, <3>2, <3>3
  <2> QED
    BY <2>1, <2>2
<1>7. \A s \in Processed' : ~InFlight(s.msg)'
  BY <1>1, <1>3, <1>4 DEF Processed, InFlight
<1> QED
  BY <1>6, <1>7 DEF SentInv

LEMMA PublishAnsweredSent ==
    ASSUME IInv, SentInv, PublishAnswered
    PROVE  SentInv'
<1> DEFINE span == Span("send", <<run, next>>, traceparent[<<run, next>>], {})
<1>1. span.kind = "send" /\ span.msg = <<run, next>>
  BY DEF Span
<1>2. Ended' = Ended \cup {span}
  BY EndedMore DEF PublishAnswered
<1> HIDE DEF span
<1>3. /\ pc' \notin {"published", "publishFailed", "down"} /\ pc # "down"
      /\ UNCHANGED <<run, traceparent>>
  BY DEF PublishAnswered, brokerVars
<1>4. \A m : ~InFlight(m)' /\ (LastOfItsRun(m) => LastOfItsRun(m)')
  BY <1>3 DEF InFlight, LastOfItsRun
<1>5. \A m : Sent(m) \/ InFlight(m) => Sent(m)'
  BY <1>1, <1>2 DEF InFlight, Sent
<1> QED
  BY <1>3, <1>4, <1>5 DEF SentInv

LEMMA CrashSent ==
    ASSUME IInv, TraceInv, SentInv, Crash
    PROVE  SentInv'
<1>1. pc # "down" /\ pc' = "down" /\ UNCHANGED <<run, traceparent>> /\ Ended' = Ended
  BY EndedSame DEF Crash, brokerVars
<1>2. \A m : ~InFlight(m)' /\ Sent(m)' = Sent(m) /\ (LastOfItsRun(m) => LastOfItsRun(m)')
  BY <1>1 DEF InFlight, Sent, LastOfItsRun
<1>3. ASSUME NEW m \in Msg, InFlight(m)
      PROVE  LastOfItsRun(m)'
  <2>1. m = <<run, next>> /\ pc \in {"published", "publishFailed"} /\ run \in 1 .. MaxRuns
        /\ next \in Nat
    BY <1>3 DEF InFlight, IInv, PublishInv, TypeOK, MainTypeOK
  <2>2. ASSUME NEW i \in next + 1 .. BatchSize
        PROVE  traceparent[<<run, i>>] = NoTrace
    <3>1. i \in 1 .. BatchSize /\ i > next
      BY <2>1, <2>2, BatchSizeAssumption
    <3>2. <<run, i>> \in Msg
      BY <2>1, <3>1 DEF Msg
    <3> QED
      BY <2>1, <3>1, <3>2 DEF TraceInv, ParentInv, Unpublished
  <2> QED
    BY <1>1, <2>1, <2>2 DEF LastOfItsRun
<1> QED
  BY <1>1, <1>2, <1>3 DEF SentInv, Processed

LEMMA ConsumeMessageSent ==
    ASSUME SentInv, ConsumeMessage
    PROVE  SentInv'
<1> DEFINE span == Span("process", collected[next], traces + 1, {traceparent[collected[next]]})
<1>1. Ended' = Ended \cup {span}
  BY EndedMore DEF ConsumeMessage
<1>2. pc = "consume" /\ pc' = pc /\ UNCHANGED <<run, traceparent>>
  BY DEF ConsumeMessage, brokerVars
<1>3. \A m : ~InFlight(m) /\ ~InFlight(m)' /\ (LastOfItsRun(m) => LastOfItsRun(m)')
  BY <1>2 DEF InFlight, LastOfItsRun
<1>4. \A m : Sent(m) => Sent(m)'
  BY <1>1 DEF Sent
<1> QED
  BY <1>2, <1>3, <1>4 DEF SentInv

LEMMA NextSentInv == IInv /\ TraceInv /\ SentInv /\ [Next]_vars => SentInv'
<1> SUFFICES ASSUME IInv, TraceInv, SentInv, [Next]_vars PROVE SentInv'
  OBVIOUS
<1>1. CASE StartRun \/ PublishMessage \/ PublishAnswered \/ ConsumeMessage \/ Crash
  BY <1>1, StartRunSent, PublishMessageSent, PublishAnsweredSent, ConsumeMessageSent, CrashSent
<1>2. CASE Setup \/ StartReceive \/ ReceiveBatchFails \/ ReceiveBatchReturns \/ ConsumeDone \/ Exit
  BY <1>2, SentFrame, EndedSame
  DEF Setup, StartReceive, ReceiveBatchFails, ReceiveBatchReturns, ReceiveReturns, ConsumeDone, Exit,
      brokerVars
<1>3. ASSUME NEW c \in Callbacks, NEW m \in Msg, Deliver(c, m)
      PROVE  SentInv'
  BY <1>3, SentFrame, EndedSame DEF Deliver, brokerVars
<1>4. ASSUME NEW c \in Callbacks, CallbackStep(c)
      PROVE  SentInv'
  <2>1. pc = "receive"
    BY <1>4 DEF CallbackStep, LockBatch, AppendMessage, AckMessage, ReturnCallback, IInv, QuietInv
  <2> QED
    BY <1>4, <2>1, SentFrame, EndedSame
    DEF CallbackStep, LockBatch, AppendMessage, AckMessage, ReturnCallback, brokerVars
<1>5. CASE ReceiveFails \/ Export \/ UNCHANGED vars
  <2>1. UNCHANGED <<pc, run, next, traceparent>> /\ Ended' = Ended
    BY <1>5, EndedSame DEF ReceiveFails, Export, vars, brokerVars
  <2> QED
    BY <2>1 DEF SentInv, InFlight, Sent, LastOfItsRun, Processed
<1> QED
  BY <1>1, <1>2, <1>3, <1>4, <1>5 DEF Next, Main

LEMMA TraceInductive == Spec => [](IInv /\ TraceInv /\ SentInv)
<1>1. Init => TraceInv /\ SentInv
  BY DEF Init, PipelineInit, TraceInv, ParentInv, SendInv, ProcessInv, SentInv, Processed, Ended,
         Unpublished, NoTrace
<1> QED
  BY <1>1, NextTraceInv, NextSentInv, Inductive, PTL DEF Spec

(* Over all runs, crashes and redeliveries a process span is alone in its  *)
(* trace, and its link tells its message from every other one and leads to *)
(* the send span, which is missing only for the last message of a run that *)
(* was killed (consumer.go:29-49).                                         *)
THEOREM LinkedSafe == Spec => []LinkedToOwnProducer
<1>1. IInv /\ TraceInv /\ SentInv => LinkedToOwnProducer
  <2> SUFFICES ASSUME IInv, TraceInv, SentInv, NEW s \in Processed
               PROVE  /\ \A t \in Ended \ {s} : t.trace # s.trace
                      /\ \A t \in Processed : s.links \cap t.links # {} <=> s.msg = t.msg
                      /\ \/ \E t \in Ended : t.kind = "send" /\ t.msg = s.msg /\ s.links = {t.trace}
                         \/ LastOfItsRun(s.msg)
    BY DEF LinkedToOwnProducer
  <2> USE DEF TraceInv
  <2>1. \A t \in Processed : t \in Ended /\ t.msg \in Msg /\ t.links = {traceparent[t.msg]}
    BY SpanFacts DEF Processed, ProcessInv
  <2>2. traceparent[s.msg] \in 1 .. traces
    BY <2>1 DEF IInv, TypeOK, PipelineTypeOK, SpansUpTo, Ended
  <2>3. ASSUME NEW t \in Ended \ {s}
        PROVE  t.trace # s.trace
    <3>1. CASE t.kind = "send"
      BY <2>3, <3>1, SpanFacts DEF SendInv, ProcessInv
    <3>2. CASE t.kind = "process"
      BY <2>3, <3>2 DEF ProcessInv, Processed
    <3> QED
      BY <2>3, <3>1, <3>2, SpanFacts
  <2>4. ASSUME NEW t \in Processed
        PROVE  s.links \cap t.links # {} <=> s.msg = t.msg
    <3>1. s.links \cap t.links # {} <=> traceparent[s.msg] = traceparent[t.msg]
      BY <2>1
    <3> QED
      BY <2>1, <2>2, <3>1 DEF ParentInv, NoTrace
  <2>5. Sent(s.msg) \/ LastOfItsRun(s.msg)
    BY <2>1, <2>2 DEF SentInv, NoTrace
  <2>6. Sent(s.msg) => \E t \in Ended : t.kind = "send" /\ t.msg = s.msg /\ s.links = {t.trace}
    BY <2>1 DEF Sent, SendInv
  <2> QED
    BY <2>3, <2>4, <2>5, <2>6
<1> QED
  BY <1>1, TraceInductive, PTL

-----------------------------------------------------------------------------
(* ConsumeInv *)

LEMMA HasSpanGrows ==
    ASSUME Processed \subseteq Processed', UNCHANGED collected,
           NEW i \in DOMAIN collected, HasSpan(collected[i])
    PROVE  HasSpan(collected[i])'
BY DEF HasSpan

LEMMA ConsumeFrame ==
    ASSUME ConsumeInv, Processed \subseteq Processed', IInv,
           UNCHANGED <<pc, next, collected, cancelled, rpcError>>
    PROVE  ConsumeInv'
BY HasSpanGrows DEF ConsumeInv, IInv, TypeOK, ReceiveTypeOK

LEMMA ConsumeMessageConsume ==
    ASSUME IInv, ConsumeInv, ConsumeMessage
    PROVE  ConsumeInv'
<1> DEFINE span == Span("process", collected[next], traces + 1, {traceparent[collected[next]]})
<1>1. span.kind = "process" /\ span.msg = collected[next]
  BY DEF Span
<1>2. Processed' = Processed \cup {span}
  BY <1>1, EndedMore DEF ConsumeMessage, Processed
<1>3. next \in Nat /\ collected \in Seq(Msg)
  BY DEF IInv, TypeOK, MainTypeOK, ReceiveTypeOK
<1>4. pc = "consume" /\ pc' = pc /\ next' = next + 1 /\ collected' = collected
  BY DEF ConsumeMessage, receiveVars
<1>5. ASSUME NEW i \in 1 .. Len(collected), i < next'
      PROVE  HasSpan(collected[i])'
  <2>1. CASE i = next
    BY <1>1, <1>2, <1>4, <2>1 DEF HasSpan
  <2>2. CASE i < next
    BY <1>2, <1>3, <1>4, <2>2, HasSpanGrows DEF ConsumeInv
  <2> QED
    BY <1>3, <1>4, <1>5, <2>1, <2>2
<1> QED
  BY <1>4, <1>5 DEF ConsumeInv

LEMMA NextConsumeInv == IInv /\ ConsumeInv /\ [Next]_vars => ConsumeInv'
<1> SUFFICES ASSUME IInv, ConsumeInv, [Next]_vars PROVE ConsumeInv'
  OBVIOUS
<1>1. CASE StartRun \/ Setup \/ PublishMessage \/ PublishAnswered
  <2>1. ~cancelled /\ pc' # "consume"
    BY <1>1 DEF StartRun, Setup, PublishMessage, PublishAnswered, ConsumeInv
  <2>2. cancelled' = cancelled
    BY <1>1 DEF StartRun, Setup, PublishMessage, PublishAnswered, receiveVars
  <2> QED
    BY <2>1, <2>2 DEF ConsumeInv
<1>2. CASE StartReceive \/ Exit \/ Crash
  BY <1>2 DEF StartReceive, Exit, Crash, NoReceive, ConsumeInv
<1>3. CASE ReceiveBatchFails \/ ReceiveBatchReturns
  BY <1>3 DEF ReceiveBatchFails, ReceiveBatchReturns, ReceiveReturns, receiveVars, ConsumeInv
<1>4. CASE ConsumeMessage
  BY <1>4, ConsumeMessageConsume
<1>5. CASE ConsumeDone
  <2>1. \A i \in 1 .. Len(collected) : i < next
    BY <1>5 DEF ConsumeDone, IInv, TypeOK, MainTypeOK, ReceiveTypeOK
  <2>2. Processed' = Processed
    BY <1>5, EndedSame DEF ConsumeDone, Processed
  <2>3. collected \in Seq(Msg) /\ collected' = collected /\ pc' = "exit"
    BY <1>5 DEF ConsumeDone, receiveVars, IInv, TypeOK, ReceiveTypeOK
  <2>4. \A i \in 1 .. Len(collected) : HasSpan(collected[i])'
    BY <1>5, <2>1, <2>2, <2>3, HasSpanGrows DEF ConsumeDone, ConsumeInv
  <2> QED
    BY <2>3, <2>4 DEF ConsumeInv
<1>6. ASSUME NEW c \in Callbacks, CallbackStep(c)
      PROVE  ConsumeInv'
  <2>1. pc = "receive" /\ pc' = pc
    BY <1>6 DEF CallbackStep, LockBatch, AppendMessage, AckMessage, ReturnCallback, IInv, QuietInv
  <2> QED
    BY <2>1 DEF ConsumeInv
<1>7. CASE ReceiveFails \/ Export \/ UNCHANGED vars \/ \E c \in Callbacks, m \in Msg : Deliver(c, m)
  <2>1. Processed' = Processed
    BY <1>7, EndedSame DEF ReceiveFails, Export, vars, Deliver, Processed
  <2>2. CASE ReceiveFails
    BY <2>2 DEF ReceiveFails, ConsumeInv
  <2>3. CASE Export \/ UNCHANGED vars \/ \E c \in Callbacks, m \in Msg : Deliver(c, m)
    BY <2>1, <2>3, ConsumeFrame DEF Export, vars, receiveVars, Deliver
  <2> QED
    BY <1>7, <2>2, <2>3
<1> QED
  BY <1>1, <1>2, <1>3, <1>4, <1>5, <1>6, <1>7 DEF Next, Main

(* A run that ends without an error has processed every message it         *)
(* acknowledged, in whatever order its callbacks appended them: an Ack     *)
(* (main.go:100) takes no message from Pub/Sub for nothing.                *)
THEOREM CleanRunSafe == Spec => []CleanRunProcessesAcked
<1>1. Init => ConsumeInv
  BY DEF Init, ConsumeInv
<1>2. IInv /\ ConsumeInv => CleanRunProcessesAcked
  BY DEF CleanRunProcessesAcked, IInv, TypeOK, ReceiveTypeOK, AckInv, AckedCollected,
         CollectedMsgs, ConsumeInv, HasSpan
<1> QED
  BY <1>1, <1>2, NextConsumeInv, Inductive, PTL DEF Spec
-----------------------------------------------------------------------------
(* OnceInv *)

(* The part of OnceInv under its hypothesis. *)
Once == HeldInv /\ BatchInv /\ SettledInv

LEMMA LostAcksGrow ==
    ASSUME IInv, [Next]_vars, lostAcks' = 0
    PROVE  lostAcks = 0
<1>1. lostAcks \in Nat
  BY DEF IInv, TypeOK, BrokerTypeOK
<1>2. ASSUME NEW c \in Callbacks, CallbackStep(c)
      PROVE  lostAcks' = lostAcks \/ lostAcks' = lostAcks + 1
  BY <1>2 DEF CallbackStep, LockBatch, AppendMessage, AckMessage, ReturnCallback, brokerVars
<1>3. CASE Main
  BY <1>3 DEF Main, Setup, PublishMessage, PublishAnswered, StartReceive, ReceiveBatchFails,
     ReceiveBatchReturns, ConsumeMessage, ConsumeDone, Exit, brokerVars
<1>4. ASSUME NEW c \in Callbacks, NEW m \in Msg, Deliver(c, m)
      PROVE  lostAcks' = lostAcks
  BY <1>4 DEF Deliver, brokerVars
<1>5. CASE StartRun \/ ReceiveFails \/ Export \/ Crash \/ UNCHANGED vars
  BY <1>5 DEF StartRun, ReceiveFails, Export, Crash, vars, brokerVars
<1> QED
  BY <1>1, <1>2, <1>3, <1>4, <1>5 DEF Next

(* Steps of main that leave the receive and the broker alone. *)
LEMMA OnceFrame ==
    ASSUME Once, IInv, UNCHANGED <<stored, collected, cb>>, Processed' = Processed,
           \/ pc' \notin {"receive", "consume"}
           \/ pc' = pc /\ next' = next
           \/ pc = "receive"
    PROVE  Once'
<1>1. HeldInv'
  BY DEF Once, HeldInv, Outstanding
<1>2. BatchInv'
  BY DEF Once, BatchInv
<1>3. SettledInv'
  BY DEF Once, SettledInv
<1> QED
  BY <1>1, <1>2, <1>3 DEF Once

LEMMA NoReceiveOnce ==
    ASSUME Once, NoReceive, UNCHANGED stored, Processed' = Processed
    PROVE  Once'
<1>1. Outstanding' = {} /\ Len(collected') = 0
  BY DEF NoReceive, Outstanding, Idle
<1> QED
  BY <1>1 DEF Once, HeldInv, BatchInv, SettledInv

LEMMA PublishMessageOnce ==
    ASSUME IInv, TraceInv, Once, PublishMessage
    PROVE  Once'
<1>1. <<run, next>> \in Unpublished
  BY DEF IInv, TypeOK, MainTypeOK, PublishInv, PublishMessage, Unpublished, Msg
<1>2. stored' \subseteq stored \cup {<<run, next>>} /\ stored \subseteq stored'
  BY DEF PublishMessage
<1>3. cb' = cb /\ collected' = collected /\ pc' \notin {"receive", "consume"}
  BY DEF PublishMessage, receiveVars
<1>4. Processed' = Processed
  BY EndedSame DEF PublishMessage, Processed
<1>5. HeldInv'
  BY <1>2, <1>3 DEF Once, HeldInv, Outstanding
<1>6. BatchInv'
  BY <1>1, <1>2, <1>3, FreshMessage DEF Once, BatchInv
<1>7. SettledInv'
  BY <1>1, <1>2, <1>3, <1>4, FreshMessage DEF Once, SettledInv, Processed
<1> QED
  BY <1>5, <1>6, <1>7 DEF Once

LEMMA ConsumeMessageOnce ==
    ASSUME IInv, Once, ConsumeMessage
    PROVE  Once'
<1> DEFINE span == Span("process", collected[next], traces + 1, {traceparent[collected[next]]})
<1>1. span.kind = "process" /\ span.msg = collected[next]
  BY DEF Span
<1>2. Processed' = Processed \cup {span}
  BY <1>1, EndedMore DEF ConsumeMessage, Processed
<1>3. next \in 1 .. Len(collected) /\ pc = "consume" /\ pc' = pc /\ next' = next + 1
  BY DEF ConsumeMessage, IInv, TypeOK, MainTypeOK
<1>4. stored' = stored /\ collected' = collected /\ cb' = cb
  BY DEF ConsumeMessage, brokerVars, receiveVars
<1>5. collected[next] \notin stored
  BY <1>3 DEF Once, BatchInv, IInv, QuietInv
<1>6. \A s \in Processed : s.msg # collected[next]
  BY <1>3 DEF Once, SettledInv
<1>7. HeldInv' /\ BatchInv'
  BY <1>4 DEF Once, HeldInv, Outstanding, BatchInv
<1>8. \A s \in Processed' : s.msg \notin stored
  BY <1>1, <1>2, <1>5 DEF Once, SettledInv
<1>9. \A s \in Processed', i \in 1 .. Len(collected) : i >= next + 1 => s.msg # collected[i]
  BY <1>1, <1>2, <1>3 DEF Once, SettledInv, BatchInv
<1>10. \A s, t \in Processed' : s.msg = t.msg => s = t
  BY <1>1, <1>2, <1>6 DEF Once, SettledInv
<1>11. SettledInv'
  BY <1>3, <1>4, <1>8, <1>9, <1>10 DEF SettledInv
<1> QED
  BY <1>7, <1>11 DEF Once

LEMMA DeliverOnce ==
    ASSUME IInv, Once, NEW c \in Callbacks, NEW m \in Msg, Deliver(c, m)
    PROVE  Once'
<1>1. \A d \in Callbacks : cb'[d] = IF d = c THEN [Idle EXCEPT !.at = "called", !.msg = m] ELSE cb[d]
  BY DEF Deliver, IInv, TypeOK, ReceiveTypeOK
<1>2. cb[c].at = "idle" /\ cb'[c].at = "called" /\ cb'[c].msg = m
  <2>1. cb'[c] = [Idle EXCEPT !.at = "called", !.msg = m]
    BY <1>1
  <2> QED
    BY <2>1 DEF Deliver, Idle
<1>3. m \in stored /\ \A d \in Outstanding : cb[d].msg # m
  BY DEF Deliver
<1>4. stored' = stored /\ collected' = collected /\ pc' = pc /\ next' = next
  BY DEF Deliver, brokerVars
<1>5. Processed' = Processed
  BY EndedSame DEF Deliver, Processed
<1>6. Outstanding' = Outstanding \cup {c}
  BY <1>1, <1>2 DEF Outstanding
<1>7. HeldInv'
  BY <1>1, <1>2, <1>3, <1>4, <1>6 DEF Once, HeldInv, Outstanding
<1>8. BatchInv'
  BY <1>1, <1>2, <1>4 DEF Once, BatchInv
<1>9. SettledInv'
  BY <1>4, <1>5 DEF Once, SettledInv
<1> QED
  BY <1>7, <1>8, <1>9 DEF Once

LEMMA LockBatchOnce ==
    ASSUME IInv, Once, NEW c \in Callbacks, LockBatch(c)
    PROVE  Once'
<1>1. cb[c] \in CallbackType
  BY DEF IInv, TypeOK, ReceiveTypeOK
<1>2. cb' = [cb EXCEPT ![c] = [cb[c] EXCEPT !.at = "locked", !.seen = Len(collected)]]
  BY DEF LockBatch
<1>3. /\ cb[c].at = "called" /\ cb'[c].at = "locked" /\ cb'[c].msg = cb[c].msg
      /\ \A d \in Callbacks \ {c} : cb'[d] = cb[d]
  BY <1>1, <1>2 DEF LockBatch, IInv, TypeOK, ReceiveTypeOK, CallbackType
<1>4. stored' = stored /\ collected' = collected /\ pc' = pc /\ next' = next
  BY DEF LockBatch, brokerVars
<1>5. Processed' = Processed
  BY EndedSame DEF LockBatch, Processed
<1>6. Outstanding' = Outstanding
  BY <1>3 DEF Outstanding
<1>7. HeldInv'
  BY <1>3, <1>4, <1>6 DEF Once, HeldInv, Outstanding
<1>8. BatchInv'
  BY <1>3, <1>4 DEF Once, BatchInv
<1>9. SettledInv'
  BY <1>4, <1>5 DEF Once, SettledInv
<1> QED
  BY <1>7, <1>8, <1>9 DEF Once

LEMMA AppendMessageOnce ==
    ASSUME IInv, Once, NEW c \in Callbacks, AppendMessage(c)
    PROVE  Once'
<1>1. /\ cb[c] \in CallbackType /\ cb[c].msg \in Msg /\ cb[c].seen = Len(collected)
      /\ collected \in Seq(Msg) /\ cb[c].at = "locked" /\ pc = "receive"
  BY DEF IInv, TypeOK, ReceiveTypeOK, TracedInv, LockInv, QuietInv, AppendMessage
<1>2. collected' = Append(collected, cb[c].msg)
  BY <1>1 DEF AppendMessage
<1>3. /\ Len(collected') = Len(collected) + 1
      /\ \A i \in 1 .. Len(collected) : collected'[i] = collected[i]
      /\ collected'[Len(collected) + 1] = cb[c].msg
  BY <1>1, <1>2
<1>4. PICK full : cb' = [cb EXCEPT ![c] = [cb[c] EXCEPT !.at = "appended", !.done = full]]
  BY DEF AppendMessage
<1>5. /\ cb'[c].at = "appended" /\ cb'[c].msg = cb[c].msg
      /\ \A d \in Callbacks \ {c} : cb'[d] = cb[d]
  BY <1>1, <1>4 DEF IInv, TypeOK, ReceiveTypeOK, CallbackType
<1>6. stored' = stored /\ pc' = pc /\ next' = next
  BY DEF AppendMessage, brokerVars
<1>7. Processed' = Processed
  BY EndedSame DEF AppendMessage, Processed
<1>8. Outstanding' = Outstanding /\ c \in Outstanding /\ cb[c].msg \in stored
  BY <1>1, <1>5 DEF Outstanding, Once, HeldInv
<1>9. \A i \in 1 .. Len(collected) : collected[i] # cb[c].msg
  <2> SUFFICES ASSUME NEW i \in 1 .. Len(collected), collected[i] = cb[c].msg PROVE FALSE
    OBVIOUS
  <2>1. PICK d \in Callbacks : cb[d].at = "appended" /\ cb[d].msg = cb[c].msg
    BY <1>8 DEF Once, BatchInv
  <2>2. d \in Outstanding
    BY <2>1 DEF Outstanding
  <2> QED
    BY <1>1, <1>8, <2>1, <2>2 DEF Once, HeldInv
<1>10. HeldInv'
  BY <1>5, <1>6, <1>8 DEF Once, HeldInv, Outstanding
<1>11. BatchInv'
  <2>1. \A i \in 1 .. Len(collected') : collected'[i] \in stored =>
           \E d \in Callbacks : cb'[d].at = "appended" /\ cb'[d].msg = collected'[i]
    <3> SUFFICES ASSUME NEW i \in 1 .. Len(collected'), collected'[i] \in stored
                 PROVE  \E d \in Callbacks : cb'[d].at = "appended" /\ cb'[d].msg = collected'[i]
      OBVIOUS
    <3>1. CASE i = Len(collected) + 1
      BY <1>3, <1>5, <3>1
    <3>2. CASE i \in 1 .. Len(collected)
      <4>1. PICK d \in Callbacks : cb[d].at = "appended" /\ cb[d].msg = collected[i]
        BY <1>3, <3>2 DEF Once, BatchInv
      <4> QED
        BY <1>1, <1>3, <1>5, <3>2, <4>1
    <3> QED
      BY <1>1, <1>3, <3>1, <3>2
  <2>2. \A i, j \in 1 .. Len(collected') : collected'[i] = collected'[j] => i = j
    BY <1>1, <1>3, <1>9 DEF Once, BatchInv
  <2> QED
    BY <1>6, <2>1, <2>2 DEF BatchInv
<1>12. SettledInv'
  <2>1. \A s \in Processed, i \in 1 .. Len(collected') : s.msg # collected'[i]
    BY <1>1, <1>3, <1>8 DEF Once, SettledInv
  <2> QED
    BY <1>6, <1>7, <2>1 DEF Once, SettledInv
<1> QED
  BY <1>10, <1>11, <1>12 DEF Once

LEMMA AckMessageOnce ==
    ASSUME IInv, Once, NEW c \in Callbacks, AckMessage(c), lostAcks = 0, lostAcks' = 0
    PROVE  Once'
<1>1. cb[c] \in CallbackType
  BY DEF IInv, TypeOK, ReceiveTypeOK
<1>2. /\ cb[c].at = "appended" /\ cb'[c].at = "acked" /\ cb'[c].msg = cb[c].msg
      /\ \A d \in Callbacks \ {c} : cb'[d] = cb[d]
  BY <1>1 DEF AckMessage, IInv, TypeOK, ReceiveTypeOK, CallbackType
<1>3. stored' = stored \ {cb[c].msg}
  BY DEF AckMessage
<1>4. collected' = collected /\ pc' = pc /\ next' = next
  BY DEF AckMessage
<1>5. Processed' = Processed
  BY EndedSame DEF AckMessage, Processed
<1>6. Outstanding' = Outstanding \ {c} /\ c \in Outstanding
  BY <1>2 DEF Outstanding
<1>7. HeldInv'
  BY <1>2, <1>3, <1>6 DEF Once, HeldInv, Outstanding
<1>8. BatchInv'
  <2>1. ASSUME NEW i \in 1 .. Len(collected), collected[i] \in stored'
        PROVE  \E d \in Callbacks : cb'[d].at = "appended" /\ cb'[d].msg = collected[i]
    <3>1. PICK d \in Callbacks : cb[d].at = "appended" /\ cb[d].msg = collected[i]
      BY <1>3, <2>1 DEF Once, BatchInv
    <3> QED
      BY <1>2, <1>3, <2>1, <3>1
  <2> QED
    BY <1>4, <2>1 DEF Once, BatchInv
<1>9. SettledInv'
  BY <1>3, <1>4, <1>5 DEF Once, SettledInv
<1> QED
  BY <1>7, <1>8, <1>9 DEF Once

LEMMA ReturnCallbackOnce ==
    ASSUME IInv, Once, NEW c \in Callbacks, ReturnCallback(c)
    PROVE  Once'
<1>1. \A d \in Callbacks : cb'[d] = IF d = c THEN Idle ELSE cb[d]
  BY DEF ReturnCallback, IInv, TypeOK, ReceiveTypeOK
<1>2. cb[c].at = "acked" /\ stored' = stored /\ collected' = collected /\ pc' = pc /\ next' = next
  BY DEF ReturnCallback, brokerVars
<1>3. Processed' = Processed
  BY EndedSame DEF ReturnCallback, Processed
<1>4. Outstanding' = Outstanding
  BY <1>1, <1>2 DEF Outstanding, Idle
<1>5. HeldInv'
  BY <1>1, <1>2, <1>4 DEF Once, HeldInv, Outstanding
<1>6. BatchInv'
  BY <1>1, <1>2 DEF Once, BatchInv
<1>7. SettledInv'
  BY <1>2, <1>3 DEF Once, SettledInv
<1> QED
  BY <1>5, <1>6, <1>7 DEF Once

LEMMA NextOnceInv == IInv /\ TraceInv /\ OnceInv /\ [Next]_vars => OnceInv'
<1> SUFFICES ASSUME IInv, TraceInv, Once, [Next]_vars, lostAcks = 0, lostAcks' = 0
             PROVE  Once'
  BY LostAcksGrow DEF OnceInv, Once
<1>1. CASE StartRun \/ Setup \/ ReceiveBatchFails \/ ReceiveBatchReturns \/ ConsumeDone
  BY <1>1, OnceFrame, EndedSame
  DEF StartRun, Setup, ReceiveBatchFails, ReceiveBatchReturns, ReceiveReturns, ConsumeDone,
      brokerVars, receiveVars, Processed
<1>2. CASE PublishMessage
  BY <1>2, PublishMessageOnce
<1>3. CASE PublishAnswered
  <2>1. Processed' = Processed
    BY <1>3, EndedMore DEF PublishAnswered, Processed, Span
  <2> QED
    BY <1>3, <2>1, OnceFrame DEF PublishAnswered, brokerVars, receiveVars
<1>4. CASE StartReceive \/ Exit \/ Crash
  BY <1>4, NoReceiveOnce, EndedSame DEF StartReceive, Exit, Crash, brokerVars, Processed
<1>5. CASE ConsumeMessage
  BY <1>5, ConsumeMessageOnce
<1>6. CASE \E c \in Callbacks, m \in Msg : Deliver(c, m)
  BY <1>6, DeliverOnce
<1>7. CASE \E c \in Callbacks : CallbackStep(c)
  BY <1>7, LockBatchOnce, AppendMessageOnce, AckMessageOnce, ReturnCallbackOnce DEF CallbackStep
<1>8. CASE ReceiveFails \/ Export \/ UNCHANGED vars
  BY <1>8, OnceFrame, EndedSame
  DEF ReceiveFails, Export, vars, brokerVars, receiveVars, Processed
<1> QED
  BY <1>1, <1>2, <1>3, <1>4, <1>5, <1>6, <1>7, <1>8 DEF Next, Main

(* As long as every acknowledgement reached Pub/Sub no message has two     *)
(* process spans, over any number of runs, crashes and failed Receives:    *)
(* what a killed run held is delivered again only if no run processed it.  *)
THEOREM OnceSafe == Spec => []OneProcessPerPublish
<1>1. Init => OnceInv
  BY DEF Init, PipelineInit, OnceInv, HeldInv, BatchInv, SettledInv, Outstanding, Idle,
         Processed, Ended
<1>2. OnceInv => OneProcessPerPublish
  BY DEF OnceInv, SettledInv, OneProcessPerPublish
<1> QED
  BY <1>1, <1>2, NextOnceInv, TraceInductive, PTL DEF Spec
=============================================================================
