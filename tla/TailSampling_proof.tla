------------------------ MODULE TailSampling_proof -------------------------
(***************************************************************************)
(* Theorems about TailSampling, for any number of traces at a time.        *)
(***************************************************************************)
EXTENDS TailSampling, TLAPS

(* The spans of a trace that have ended, wherever they are. *)
Queued(t, p) == {s \in queue[p] : s.trace = t}
Ended(t) == {s \in arrived : s.trace = t} \cup Queued(t, "gateway") \cup Queued(t, "backend")

BackendStates == {"none", "sent", "refusing", "refused", "working", "worked",
                  "replying", "replied", "failed"}

(* What is left of a request that failed, was abandoned or was delayed.    *)
ContentInv ==
    \A t \in Traces :
      /\ gw[t] = "none" =>
           be[t] = "none" /\ Ended(t) = {} /\ wait[t] = 0 /\ decision[t] = "none"
      /\ be[t] = "failed" \/ (be[t] = "none" /\ gw[t] # "none") => \E s \in Ended(t) : s.error
      /\ be[t] = "replied" /\ t \in delayed => \E s \in Ended(t) : s.slow

(* The collector has not waited for longer than the request is at work,    *)
(* nor will it have, when the batches are due, for longer than the request *)
(* and a batch may take.                                                   *)
TimeInv ==
    \A t \in Traces :
      /\ Busy(t) => wait[t] <= age[t]
      /\ \A p \in Processes : Queued(t, p) # {} => wait[t] + due[p] <= age[t] + BatchTimeout

IInv == TypeOK /\ ContentInv /\ TimeInv /\ JudgedWhole /\ KeepsFailedAndSlow
-----------------------------------------------------------------------------
(* Spans that end *)

LEMMA InitIInv == Init => IInv
<1> SUFFICES ASSUME Init PROVE IInv
  OBVIOUS
<1> USE DEF Init
<1>1. TypeOK
  BY DEF TypeOK, MaxDelay, BatchTimeout, DecisionWait, DecisionInterval, Processes
<1>2. \A t \in Traces : Ended(t) = {} /\ ~Busy(t)
  BY DEF Ended, Queued, Busy, Processes
<1>3. ContentInv /\ TimeInv
  BY <1>2 DEF ContentInv, TimeInv, Queued
<1>4. JudgedWhole /\ KeepsFailedAndSlow
  BY DEF JudgedWhole, KeepsFailedAndSlow
<1> QED
  BY <1>1, <1>3, <1>4 DEF IInv

(* A batch that gets a span is due in time, and no later than it was. *)
LEMMA EndSpanFrame ==
    ASSUME TypeOK, NEW p \in Processes, NEW s \in Spans, EndSpan(p, s)
    PROVE  /\ queue' \in [Processes -> SUBSET Spans] /\ due' \in [Processes -> 0 .. BatchTimeout]
           /\ \A q \in Processes : queue'[q] = {} => due'[q] = 0
           /\ \A q \in Processes : queue'[q] = queue[q] \cup (IF q = p THEN {s} ELSE {})
           /\ \A q \in Processes : due'[q] = due[q] \/ queue[q] = {}
<1> USE DEF EndSpan
<1>1. queue' \in [Processes -> SUBSET Spans]
  BY DEF TypeOK
<1>2. due' \in [Processes -> 0 .. BatchTimeout]
  <2>1. (IF queue[p] = {} THEN BatchTimeout ELSE due[p]) \in 0 .. BatchTimeout
    BY DEF TypeOK, BatchTimeout
  <2> QED
    BY <2>1 DEF TypeOK
<1>3. \A q \in Processes : queue'[q] = queue[q] \cup (IF q = p THEN {s} ELSE {})
  BY DEF TypeOK
<1>4. \A q \in Processes : due'[q] = due[q] \/ queue[q] = {}
  BY DEF TypeOK
<1>5. \A q \in Processes \ {p} : due'[q] = due[q] /\ queue'[q] = queue[q]
  BY DEF TypeOK
<1>6. \A q \in Processes : queue'[q] = {} => due'[q] = 0
  BY <1>3, <1>5 DEF TypeOK
<1> QED
  BY <1>1, <1>2, <1>3, <1>4, <1>6

(* A step of hello or SayHello that ends a span of its trace, which is not *)
(* over yet; what it leaves undone must show in the span.                  *)
LEMMA SpanStep ==
    ASSUME IInv, NEW t \in Traces, Busy(t), NEW p \in Processes, NEW s \in Spans, s.trace = t,
           EndSpan(p, s), UNCHANGED <<delayed, age, collectorVars>>,
           gw' \in [Traces -> {"none", "calling", "operating", "ending", "failing", "ended"}],
           be' \in [Traces -> BackendStates],
           gw'[t] # "none",
           be'[t] \in {"none", "failed"} => s.error \/ be'[t] = be[t],
           be'[t] = "replied" /\ t \in delayed => s.slow \/ be'[t] = be[t],
           be'[t] \in {"working", "worked", "replying", "replied"}
             \/ be[t] \notin {"working", "worked", "replying", "replied"} \/ be'[t] = be[t],
           \A u \in Traces \ {t} : gw'[u] = gw[u] /\ be'[u] = be[u]
    PROVE  IInv'
<1> USE DEF IInv, collectorVars
<1>1. /\ queue' \in [Processes -> SUBSET Spans] /\ due' \in [Processes -> 0 .. BatchTimeout]
      /\ \A q \in Processes : queue'[q] = {} => due'[q] = 0
      /\ \A q \in Processes : queue'[q] = queue[q] \cup (IF q = p THEN {s} ELSE {})
      /\ \A q \in Processes : due'[q] = due[q] \/ queue[q] = {}
  BY EndSpanFrame
<1>2. TypeOK'
  <2>1. \A u \in delayed' : be'[u] \in {"working", "worked", "replying", "replied"}
    BY DEF TypeOK
  <2> QED
    BY <1>1, <2>1 DEF TypeOK, BackendStates
<1>3. \A u \in Traces \ {t} : /\ Ended(u)' = Ended(u) /\ (Busy(u)' <=> Busy(u))
                              /\ \A q \in Processes : Queued(u, q)' = Queued(u, q)
  <2> SUFFICES ASSUME NEW u \in Traces \ {t}
               PROVE  /\ Ended(u)' = Ended(u) /\ (Busy(u)' <=> Busy(u))
                      /\ \A q \in Processes : Queued(u, q)' = Queued(u, q)
    OBVIOUS
  <2>1. \A q \in Processes : Queued(u, q)' = Queued(u, q)
    BY <1>1 DEF Queued
  <2>2. Ended(u)' = Ended(u)
    BY <2>1 DEF Ended, Processes
  <2>3. Busy(u)' <=> Busy(u)
    BY DEF Busy
  <2> QED
    BY <2>1, <2>2, <2>3
<1>4. Ended(t) \subseteq Ended(t)' /\ s \in Ended(t)'
  BY <1>1 DEF Ended, Queued, Processes
<1>5. ContentInv'
  <2>1. gw[t] # "none"
    BY DEF ContentInv, Busy
  <2> SUFFICES ASSUME NEW u \in Traces
               PROVE  /\ gw'[u] = "none" => /\ be'[u] = "none" /\ Ended(u)' = {}
                                              /\ wait'[u] = 0 /\ decision'[u] = "none"
                      /\ be'[u] = "failed" \/ (be'[u] = "none" /\ gw'[u] # "none")
                           => \E x \in Ended(u)' : x.error
                      /\ be'[u] = "replied" /\ u \in delayed' => \E x \in Ended(u)' : x.slow
    BY DEF ContentInv
  <2>2. CASE u = t
    BY <1>4, <2>1, <2>2 DEF ContentInv
  <2>3. CASE u # t
    BY <1>3, <2>3 DEF ContentInv
  <2> QED
    BY <2>2, <2>3
<1>6. TimeInv'
  <2> SUFFICES ASSUME NEW u \in Traces
               PROVE  /\ Busy(u)' => wait[u] <= age[u]
                      /\ \A q \in Processes :
                           Queued(u, q)' # {} => wait[u] + due'[q] <= age[u] + BatchTimeout
    BY DEF TimeInv
  <2>1. CASE u = t
    <3>1. wait[t] <= age[t] /\ wait[t] \in Nat /\ age[t] \in Nat
      BY DEF TimeInv, TypeOK
    <3>2. \A q \in Processes : due'[q] \in Nat /\ due'[q] <= BatchTimeout
      BY <1>1 DEF BatchTimeout
    <3>3. \A q \in Processes : wait[t] + due'[q] <= age[t] + BatchTimeout
      BY <3>1, <3>2 DEF BatchTimeout
    <3> QED
      BY <2>1, <3>1, <3>3
  <2>2. CASE u # t
    <3>1. Busy(u)' => wait[u] <= age[u]
      BY <1>3, <2>2 DEF TimeInv
    <3>2. ASSUME NEW q \in Processes, Queued(u, q)' # {}
          PROVE  wait[u] + due'[q] <= age[u] + BatchTimeout
      <4>1. Queued(u, q) # {}
        BY <1>3, <2>2, <3>2
      <4>2. due'[q] = due[q]
        BY <1>1, <4>1 DEF Queued
      <4> QED
        BY <4>1, <4>2 DEF TimeInv
    <3> QED
      BY <3>1, <3>2
  <2> QED
    BY <2>1, <2>2
<1>7. decision[t] = "none"
  BY DEF JudgedWhole
<1>8. JudgedWhole'
  <2>1. ASSUME NEW u \in Traces, decision[u] # "none"
        PROVE  ~Busy(u)' /\ \A q \in Processes : \A x \in queue'[q] : x.trace # u
    <3>1. u # t
      BY <1>7, <2>1
    <3>2. ~Busy(u)'
      BY <1>3, <2>1, <3>1 DEF JudgedWhole
    <3>3. \A q \in Processes : \A x \in queue'[q] : x.trace # u
      BY <1>1, <2>1, <3>1 DEF JudgedWhole
    <3> QED
      BY <3>2, <3>3
  <2> QED
    BY <2>1 DEF JudgedWhole
<1>9. KeepsFailedAndSlow'
  <2>1. \A u \in Traces : decision[u] = "drop" => u # t
    BY <1>7
  <2> QED
    BY <2>1 DEF KeepsFailedAndSlow
<1> QED
  BY <1>2, <1>5, <1>6, <1>8, <1>9
LEMMA HelloFrame ==
    ASSUME TypeOK, NEW t \in Traces, NEW here,
           NEW there \in {"calling", "operating", "ending", "failing", "ended"}, Hello(t, here, there)
    PROVE  /\ gw[t] = here /\ gw'[t] = there /\ \A u \in Traces \ {t} : gw'[u] = gw[u]
           /\ gw' \in [Traces -> {"none", "calling", "operating", "ending", "failing", "ended"}]
BY DEF Hello, TypeOK

LEMMA SayHelloFrame ==
    ASSUME TypeOK, NEW t \in Traces, NEW here,
           NEW there \in BackendStates, SayHello(t, here, there)
    PROVE  /\ be[t] = here /\ be'[t] = there /\ \A u \in Traces \ {t} : be'[u] = be[u]
           /\ be' \in [Traces -> BackendStates]
BY DEF SayHello, TypeOK, BackendStates

(* The steps of hello: the one that leaves the backend to itself, and the  *)
(* one that takes the call from it, end a call span in error.              *)
LEMMA HelloStep ==
    ASSUME IInv, NEW t \in Traces,
           CallReturns(t) \/ CallFails(t) \/ ClientLeaves(t) \/ Operation(t) \/ EndRequest(t)
    PROVE  IInv'
<1> USE DEF IInv
<1>1. (t \in delayed) \in BOOLEAN /\ (age[t] > LatencyThreshold) \in BOOLEAN
  OBVIOUS
<1>2. "gateway" \in Processes /\ be \in [Traces -> BackendStates]
  BY DEF Processes, TypeOK, BackendStates
<1>3. CASE CallReturns(t)
  <2> DEFINE s == Span(t, "call", FALSE, t \in delayed)
  <2>1. s \in Spans /\ s.trace = t
    BY <1>1 DEF Span, Spans
  <2> HIDE DEF s
  <2>2. /\ EndSpan("gateway", s) /\ Hello(t, "calling", "operating")
        /\ UNCHANGED <<be, delayed, age, collectorVars>>
    BY <1>3 DEF CallReturns, s
  <2>3. Busy(t)
    BY <2>2 DEF Hello, Busy
  <2> QED
    BY <1>2, <2>1, <2>2, <2>3, HelloFrame, SpanStep
<1>4. CASE CallFails(t)
  <2> DEFINE s == Span(t, "call", TRUE, FALSE)
  <2>1. s \in Spans /\ s.trace = t
    BY DEF Span, Spans
  <2> HIDE DEF s
  <2>2. /\ EndSpan("gateway", s) /\ Hello(t, "calling", "failing")
        /\ UNCHANGED <<be, delayed, age, collectorVars>>
    BY <1>4 DEF CallFails, s
  <2>3. Busy(t)
    BY <2>2 DEF Hello, Busy
  <2> QED
    BY <1>2, <2>1, <2>2, <2>3, HelloFrame, SpanStep
<1>5. CASE ClientLeaves(t)
  <2> DEFINE s == Span(t, "call", TRUE, age[t] > LatencyThreshold)
  <2>1. s \in Spans /\ s.trace = t /\ s.error
    BY <1>1 DEF Span, Spans
  <2> HIDE DEF s
  <2>2. /\ EndSpan("gateway", s) /\ Hello(t, "calling", "failing")
        /\ UNCHANGED <<delayed, age, collectorVars>>
        /\ be' = be \/ (be[t] = "sent" /\ be' = [be EXCEPT ![t] = "none"])
    BY <1>5 DEF ClientLeaves, s
  <2>3. Busy(t)
    BY <2>2 DEF Hello, Busy
  <2>4. /\ be' \in [Traces -> BackendStates]
        /\ \A u \in Traces \ {t} : be'[u] = be[u]
        /\ be'[t] = be[t] \/ (be[t] = "sent" /\ be'[t] = "none")
    BY <1>2, <2>2 DEF BackendStates
  <2>5. be'[t] = "replied" => be'[t] = be[t]
    BY <2>4
  <2>6. /\ gw'[t] # "none"
        /\ gw' \in [Traces -> {"none", "calling", "operating", "ending", "failing", "ended"}]
        /\ \A u \in Traces \ {t} : gw'[u] = gw[u] /\ be'[u] = be[u]
    BY <2>2, <2>4, HelloFrame
  <2> QED
    BY <1>2, <2>1, <2>2, <2>3, <2>4, <2>5, <2>6, SpanStep
<1>6. CASE Operation(t)
  <2> DEFINE s == Span(t, "op1", FALSE, FALSE)
  <2>1. s \in Spans /\ s.trace = t
    BY DEF Span, Spans
  <2> HIDE DEF s
  <2>2. /\ EndSpan("gateway", s) /\ Hello(t, "operating", "ending")
        /\ UNCHANGED <<be, delayed, age, collectorVars>>
    BY <1>6 DEF Operation, s
  <2>3. Busy(t)
    BY <2>2 DEF Hello, Busy
  <2> QED
    BY <1>2, <2>1, <2>2, <2>3, HelloFrame, SpanStep
<1>7. CASE EndRequest(t)
  <2>1. PICK here \in {"ending", "failing"}, error \in BOOLEAN, slow \in BOOLEAN :
          Hello(t, here, "ended") /\ EndSpan("gateway", Span(t, "server", error, slow))
    BY <1>1, <1>7, Zenon DEF EndRequest
  <2> DEFINE s == Span(t, "server", error, slow)
  <2>2. s \in Spans /\ s.trace = t
    BY DEF Span, Spans
  <2>3. EndSpan("gateway", s) /\ UNCHANGED <<be, delayed, age, collectorVars>>
    BY <1>7, <2>1 DEF EndRequest
  <2> HIDE DEF s
  <2>4. Busy(t)
    BY <2>1 DEF Hello, Busy
  <2> QED
    BY <1>2, <2>1, <2>2, <2>3, <2>4, HelloFrame, SpanStep
<1> QED
  BY <1>3, <1>4, <1>5, <1>6, <1>7

(* The steps of SayHello: a refusal ends its span in error, the reply of a *)
(* delayed one is slow.                                                    *)
LEMMA SayHelloStep ==
    ASSUME IInv, NEW t \in Traces, Refuse(t) \/ Work(t) \/ Reply(t)
    PROVE  IInv'
<1> USE DEF IInv
<1>1. (t \in delayed) \in BOOLEAN
  OBVIOUS
<1>2. /\ "backend" \in Processes
      /\ gw \in [Traces -> {"none", "calling", "operating", "ending", "failing", "ended"}]
  BY DEF Processes, TypeOK
<1>3. CASE Refuse(t)
  <2> DEFINE s == Span(t, "serve", TRUE, FALSE)
  <2>1. s \in Spans /\ s.trace = t /\ s.error
    BY DEF Span, Spans
  <2> HIDE DEF s
  <2>2. /\ EndSpan("backend", s) /\ SayHello(t, "refused", "failed")
        /\ UNCHANGED <<gw, delayed, age, collectorVars>>
    BY <1>3 DEF Refuse, s
  <2>3. Busy(t)
    BY <2>2 DEF SayHello, Busy
  <2>4. gw[t] # "none"
    BY <2>2 DEF SayHello, ContentInv
  <2> QED
    BY <1>2, <2>1, <2>2, <2>3, <2>4, SayHelloFrame, SpanStep DEF BackendStates
<1>4. CASE Work(t)
  <2> DEFINE s == Span(t, "operation", FALSE, FALSE)
  <2>1. s \in Spans /\ s.trace = t
    BY DEF Span, Spans
  <2> HIDE DEF s
  <2>2. /\ EndSpan("backend", s) /\ SayHello(t, "working", "worked")
        /\ UNCHANGED <<gw, delayed, age, collectorVars>>
    BY <1>4 DEF Work, s
  <2>3. Busy(t)
    BY <2>2 DEF SayHello, Busy
  <2>4. gw[t] # "none"
    BY <2>2 DEF SayHello, ContentInv
  <2> QED
    BY <1>2, <2>1, <2>2, <2>3, <2>4, SayHelloFrame, SpanStep DEF BackendStates
<1>5. CASE Reply(t)
  <2> DEFINE s == Span(t, "serve", FALSE, t \in delayed)
  <2>1. s \in Spans /\ s.trace = t /\ (s.slow <=> t \in delayed)
    BY <1>1 DEF Span, Spans
  <2> HIDE DEF s
  <2>2. /\ EndSpan("backend", s) /\ SayHello(t, "replying", "replied")
        /\ UNCHANGED <<gw, delayed, age, collectorVars>>
    BY <1>5 DEF Reply, s
  <2>3. Busy(t)
    BY <2>2 DEF SayHello, Busy
  <2>4. gw[t] # "none"
    BY <2>2 DEF SayHello, ContentInv
  <2> QED
    BY <1>2, <2>1, <2>2, <2>3, <2>4, SayHelloFrame, SpanStep DEF BackendStates
<1> QED
  BY <1>3, <1>4, <1>5

-----------------------------------------------------------------------------
(* Requests, batches, the collector and time *)

(* A request comes, is taken by the backend or answered: no span ends. *)
LEMMA RequestStep ==
    ASSUME IInv, NEW t \in Traces, Arrive(t) \/ TakeCall(t) \/ WriteReply(t)
    PROVE  IInv'
<1> USE DEF IInv, batchVars, collectorVars
<1>1. /\ UNCHANGED <<age, batchVars, collectorVars>>
      /\ gw' \in [Traces -> {"none", "calling", "operating", "ending", "failing", "ended"}]
      /\ be' \in [Traces -> BackendStates]
      /\ delayed' \subseteq Traces /\ delayed' \ {t} = delayed \ {t}
      /\ \A u \in Traces \ {t} : gw'[u] = gw[u] /\ be'[u] = be[u]
      /\ be'[t] \in {"sent", "refusing", "refused", "working", "replying"}
      /\ t \in delayed' => be'[t] \in {"working", "replying"}
      /\ \/ gw[t] = "none" /\ gw'[t] = "calling"
         \/ be[t] \in {"sent", "worked", "refusing"} /\ gw'[t] = gw[t]
  <2>1. CASE Arrive(t)
    <3>1. be[t] = "none"
      BY <2>1 DEF Arrive, Hello, ContentInv
    <3> QED
      BY <2>1, <3>1 DEF Arrive, Hello, TypeOK, BackendStates
  <2>2. CASE TakeCall(t)
    BY <2>2 DEF TakeCall, SayHello, TypeOK, BackendStates
  <2>3. CASE WriteReply(t)
    <3>1. PICK x \in {<<"worked", "replying">>, <<"refusing", "refused">>} : SayHello(t, x[1], x[2])
      BY <2>3 DEF WriteReply
    <3>2. be' \in [Traces -> BackendStates] /\ be[t] = x[1] /\ be'[t] = x[2]
          /\ \A u \in Traces \ {t} : be'[u] = be[u]
      BY <3>1, SayHelloFrame DEF BackendStates
    <3>3. UNCHANGED <<gw, delayed, age, batchVars, collectorVars>>
      BY <2>3 DEF WriteReply
    <3>4. t \in delayed => x = <<"worked", "replying">>
      BY <3>2 DEF TypeOK
    <3> QED
      BY <3>2, <3>3, <3>4 DEF TypeOK
  <2> QED
    BY <2>1, <2>2, <2>3
<1>2. \A u \in Traces : Ended(u)' = Ended(u) /\ \A p \in Processes : Queued(u, p)' = Queued(u, p)
  BY <1>1 DEF Ended, Queued
<1>3. \A u \in Traces \ {t} : (Busy(u)' <=> Busy(u)) /\ (u \in delayed' <=> u \in delayed)
  BY <1>1 DEF Busy
<1>4. /\ gw'[t] # "none" /\ wait[t] <= age[t]
      /\ decision[t] = "none"
  <2>1. CASE gw[t] = "none" /\ gw'[t] = "calling"
    BY <2>1 DEF ContentInv, TypeOK
  <2>2. CASE be[t] \in {"sent", "worked", "refusing"} /\ gw'[t] = gw[t]
    <3>1. Busy(t)
      BY <2>2 DEF Busy
    <3> QED
      BY <2>2, <3>1 DEF ContentInv, TimeInv, JudgedWhole
  <2> QED
    BY <1>1, <2>1, <2>2
<1>5. TypeOK'
  <2>1. \A u \in delayed' : be'[u] \in {"working", "worked", "replying", "replied"}
    BY <1>1, <1>3 DEF TypeOK
  <2> QED
    BY <1>1, <2>1 DEF TypeOK, BackendStates
<1>6. ContentInv'
  BY <1>1, <1>2, <1>3, <1>4 DEF ContentInv
<1>7. TimeInv'
  BY <1>1, <1>2, <1>3, <1>4 DEF TimeInv
<1>8. JudgedWhole'
  BY <1>1, <1>3, <1>4 DEF JudgedWhole
<1>9. KeepsFailedAndSlow'
  BY <1>1, <1>3, <1>4 DEF KeepsFailedAndSlow
<1> QED
  BY <1>5, <1>6, <1>7, <1>8, <1>9
LEMMA ExportStep ==
    ASSUME IInv, NEW p \in Processes, Export(p)
    PROVE  IInv'
<1> USE DEF IInv, requestVars
<1>1. /\ UNCHANGED <<gw, be, delayed, age, wait, decision>>
      /\ arrived' = arrived \cup queue[p]
      /\ queue' = [queue EXCEPT ![p] = {}] /\ due' = [due EXCEPT ![p] = 0]
  BY DEF Export
<1>2. /\ queue'[p] = {} /\ due'[p] = 0
      /\ \A q \in Processes \ {p} : queue'[q] = queue[q] /\ due'[q] = due[q]
  BY <1>1 DEF TypeOK
<1>3. TypeOK'
  <2>1. arrived' \subseteq Spans /\ queue' \in [Processes -> SUBSET Spans]
    BY <1>1 DEF TypeOK
  <2>2. due' \in [Processes -> 0 .. BatchTimeout]
    BY <1>1 DEF TypeOK, BatchTimeout
  <2>3. \A q \in Processes : queue'[q] = {} => due'[q] = 0
    BY <1>2 DEF TypeOK
  <2> QED
    BY <1>1, <2>1, <2>2, <2>3 DEF TypeOK
<1>4. \A t \in Traces : /\ Ended(t)' = Ended(t) /\ (Busy(t)' <=> Busy(t))
                        /\ Queued(t, p)' = {}
                        /\ \A q \in Processes \ {p} : Queued(t, q)' = Queued(t, q)
  <2> SUFFICES ASSUME NEW t \in Traces
               PROVE  /\ Ended(t)' = Ended(t) /\ (Busy(t)' <=> Busy(t))
                      /\ Queued(t, p)' = {}
                      /\ \A q \in Processes \ {p} : Queued(t, q)' = Queued(t, q)
    OBVIOUS
  <2>1. /\ Queued(t, p)' = {}
        /\ \A q \in Processes \ {p} : Queued(t, q)' = Queued(t, q)
    BY <1>2 DEF Queued
  <2>2. {s \in arrived' : s.trace = t} = {s \in arrived : s.trace = t} \cup Queued(t, p)
    BY <1>1 DEF Queued
  <2>3. Ended(t)' = Ended(t)
    BY <2>1, <2>2 DEF Ended, Processes
  <2> QED
    BY <1>1, <2>1, <2>3 DEF Busy
<1>5. ContentInv'
  BY <1>1, <1>4 DEF ContentInv
<1>6. TimeInv'
  BY <1>1, <1>2, <1>4 DEF TimeInv
<1>7. JudgedWhole'
  BY <1>1, <1>2, <1>4 DEF JudgedWhole
<1>8. KeepsFailedAndSlow'
  BY <1>1 DEF KeepsFailedAndSlow, JudgedWhole
<1> QED
  BY <1>3, <1>5, <1>6, <1>7, <1>8

(* When the wait of the collector is over, everything is there: the trace  *)
(* ended within MaxDelay ticks, and its batches BatchTimeout ticks later.  *)
LEMMA AllThere ==
    ASSUME IInv, NEW t \in Traces, wait[t] >= DecisionWait
    PROVE  ~Busy(t) /\ \A p \in Processes : Queued(t, p) = {}
<1>1. wait[t] \in Nat /\ age[t] \in 0 .. MaxDelay
  BY DEF IInv, TypeOK, DecisionWait, DecisionInterval
<1>2. ~Busy(t)
  BY <1>1 DEF IInv, TimeInv, DecisionWait, MaxDelay
<1>3. ASSUME NEW p \in Processes, Queued(t, p) # {}
      PROVE  FALSE
  <2>1. due[p] \in Nat
    BY DEF IInv, TypeOK, BatchTimeout
  <2>2. wait[t] + due[p] <= age[t] + BatchTimeout
    BY <1>3 DEF IInv, TimeInv
  <2> QED
    BY <1>1, <2>1, <2>2 DEF DecisionWait, MaxDelay, BatchTimeout
<1> QED
  BY <1>2, <1>3

LEMMA DecideStep ==
    ASSUME IInv, NEW t \in Traces, Decide(t)
    PROVE  IInv'
<1> USE DEF IInv, requestVars, batchVars
<1>1. /\ UNCHANGED <<gw, be, delayed, age, queue, due, arrived, wait>>
      /\ Waiting(t) /\ wait[t] >= DecisionWait
  BY DEF Decide
<1>2. PICK d \in {"keep", "drop"} : (PolicyKeeps(t) => d = "keep")
                                  /\ decision' = [decision EXCEPT ![t] = d]
  BY DEF Decide
<1>3. /\ decision' \in [Traces -> {"none", "keep", "drop"}] /\ decision'[t] = d
      /\ \A u \in Traces \ {t} : decision'[u] = decision[u]
  BY <1>2 DEF TypeOK
<1>4. TypeOK'
  BY <1>1, <1>3 DEF TypeOK
<1>5. \A u \in Traces : /\ Ended(u)' = Ended(u) /\ (Busy(u)' <=> Busy(u))
                        /\ \A p \in Processes : Queued(u, p)' = Queued(u, p)
  BY <1>1 DEF Ended, Queued, Busy
<1>6. gw[t] # "none"
  BY <1>1 DEF Waiting, ContentInv, Ended
<1>7. ContentInv'
  BY <1>1, <1>3, <1>5, <1>6 DEF ContentInv
<1>8. TimeInv'
  BY <1>1, <1>5 DEF TimeInv
<1>9. ~Busy(t) /\ \A p \in Processes : Queued(t, p) = {}
  BY <1>1, AllThere
<1>10. JudgedWhole'
  <2>1. \A p \in Processes : \A s \in queue[p] : s.trace # t
    BY <1>9 DEF Queued
  <2> QED
    BY <1>1, <1>3, <1>5, <1>9, <2>1 DEF JudgedWhole
<1>11. d = "drop" => t \notin delayed /\ be[t] = "replied"
                       /\ \A s \in arrived : s.trace = t => ~s.error
  <2> SUFFICES ASSUME d = "drop"
               PROVE  t \notin delayed /\ be[t] = "replied"
                        /\ \A s \in arrived : s.trace = t => ~s.error
    OBVIOUS
  <2>1. \A s \in arrived : s.trace = t => ~s.error /\ ~s.slow
    BY <1>2 DEF PolicyKeeps
  <2>2. \A s \in Ended(t) : s \in arrived /\ s.trace = t
    BY <1>9 DEF Ended, Processes
  <2>3. \A s \in Ended(t) : ~s.error /\ ~s.slow
    BY <2>1, <2>2
  <2>4. be[t] \in {"none", "replied", "failed"}
    BY <1>9 DEF Busy, TypeOK
  <2>5. be[t] = "replied"
    BY <1>6, <2>3, <2>4 DEF ContentInv
  <2>6. t \notin delayed
    BY <2>3, <2>5 DEF ContentInv
  <2> QED
    BY <2>1, <2>5, <2>6
<1>12. KeepsFailedAndSlow'
  BY <1>1, <1>3, <1>11 DEF KeepsFailedAndSlow
<1> QED
  BY <1>4, <1>7, <1>8, <1>10, <1>12

LEMMA TickStep ==
    ASSUME IInv, Tick
    PROVE  IInv'
<1> USE DEF IInv, requestVars
<1>1. /\ UNCHANGED <<gw, be, delayed, queue, arrived, decision>>
      /\ age' = [t \in Traces |-> IF Busy(t) THEN age[t] + 1 ELSE age[t]]
      /\ due' = [p \in Processes |-> IF queue[p] # {} THEN due[p] - 1 ELSE 0]
      /\ wait' = [t \in Traces |-> IF Waiting(t) THEN wait[t] + 1 ELSE wait[t]]
  BY DEF Tick
<1>2. \A t \in Traces : /\ Busy(t) => age[t] < MaxDelay
                        /\ Waiting(t) => wait[t] < DecisionWait + DecisionInterval
  <2> SUFFICES ASSUME NEW t \in Traces
               PROVE  /\ Busy(t) => age[t] < MaxDelay
                      /\ Waiting(t) => wait[t] < DecisionWait + DecisionInterval
    OBVIOUS
  <2>1. /\ Busy(t) => age[t] < IF t \in delayed THEN MaxDelay ELSE 1
        /\ Waiting(t) => wait[t] < DecisionWait + DecisionInterval
    BY DEF Tick
  <2>2. age[t] \in Nat
    BY DEF TypeOK
  <2> QED
    BY <2>1, <2>2 DEF MaxDelay
<1>3. \A p \in Processes : queue[p] # {} => due[p] > 0
  BY DEF Tick
<1>4. \A t \in Traces : /\ Ended(t)' = Ended(t) /\ (Busy(t)' <=> Busy(t))
                        /\ \A p \in Processes : Queued(t, p)' = Queued(t, p)
  BY <1>1 DEF Ended, Queued, Busy
<1>5. TypeOK'
  <2>1. age' \in [Traces -> 0 .. MaxDelay]
    <3> SUFFICES ASSUME NEW t \in Traces
                 PROVE  (IF Busy(t) THEN age[t] + 1 ELSE age[t]) \in 0 .. MaxDelay
      BY <1>1
    <3>1. age[t] \in 0 .. MaxDelay
      BY DEF TypeOK
    <3> QED
      BY <1>2, <3>1 DEF MaxDelay
  <2>2. due' \in [Processes -> 0 .. BatchTimeout]
    <3> SUFFICES ASSUME NEW p \in Processes
                 PROVE  (IF queue[p] # {} THEN due[p] - 1 ELSE 0) \in 0 .. BatchTimeout
      BY <1>1
    <3>1. due[p] \in 0 .. BatchTimeout
      BY DEF TypeOK
    <3> QED
      BY <1>3, <3>1 DEF BatchTimeout
  <2>3. wait' \in [Traces -> 0 .. DecisionWait + DecisionInterval]
    <3> SUFFICES ASSUME NEW t \in Traces
                 PROVE  (IF Waiting(t) THEN wait[t] + 1 ELSE wait[t]) \in 0 .. DecisionWait + DecisionInterval
      BY <1>1
    <3>1. wait[t] \in 0 .. DecisionWait + DecisionInterval
      BY DEF TypeOK
    <3> QED
      BY <1>2, <3>1 DEF DecisionWait, DecisionInterval
  <2>4. \A p \in Processes : queue'[p] = {} => due'[p] = 0
    BY <1>1
  <2> QED
    BY <1>1, <2>1, <2>2, <2>3, <2>4 DEF TypeOK
<1>6. ContentInv'
  <2>1. \A t \in Traces : gw[t] = "none" => ~Waiting(t)
    BY DEF ContentInv, Waiting, Ended
  <2>2. \A t \in Traces : gw[t] = "none" => wait'[t] = wait[t]
    BY <1>1, <2>1
  <2> QED
    BY <1>1, <1>4, <2>2 DEF ContentInv
<1>7. TimeInv'
  <2> SUFFICES ASSUME NEW t \in Traces
               PROVE  /\ Busy(t) => wait'[t] <= age'[t]
                      /\ \A p \in Processes :
                           Queued(t, p) # {} => wait'[t] + due'[p] <= age'[t] + BatchTimeout
    BY <1>4 DEF TimeInv
  <2>1. /\ wait[t] \in Nat /\ age[t] \in Nat
        /\ wait'[t] \in {wait[t], wait[t] + 1} /\ age'[t] \in {age[t], age[t] + 1}
        /\ Busy(t) => age'[t] = age[t] + 1
    BY <1>1 DEF TypeOK, DecisionWait, DecisionInterval, MaxDelay
  <2>2. Busy(t) => wait[t] <= age[t]
    BY DEF TimeInv
  <2>3. ASSUME NEW p \in Processes, Queued(t, p) # {}
        PROVE  wait'[t] + due'[p] <= age'[t] + BatchTimeout
    <3>1. wait[t] + due[p] <= age[t] + BatchTimeout /\ queue[p] # {}
      BY <2>3 DEF TimeInv, Queued
    <3>2. due'[p] = due[p] - 1 /\ due[p] \in Nat
      BY <1>1, <3>1 DEF TypeOK, BatchTimeout
    <3> QED
      BY <2>1, <3>1, <3>2 DEF BatchTimeout
  <2> QED
    BY <2>1, <2>2, <2>3
<1>8. JudgedWhole'
  BY <1>1, <1>4 DEF JudgedWhole
<1>9. KeepsFailedAndSlow'
  BY <1>1 DEF KeepsFailedAndSlow
<1> QED
  BY <1>5, <1>6, <1>7, <1>8, <1>9

LEMMA NextIInv == IInv /\ [Next]_vars => IInv'
<1> SUFFICES ASSUME IInv, [Next]_vars PROVE IInv'
  OBVIOUS
<1>1. CASE UNCHANGED vars
  <2>1. UNCHANGED <<gw, be, delayed, age, queue, due, arrived, wait, decision>>
    BY <1>1 DEF vars, requestVars, batchVars, collectorVars
  <2> QED
    BY <2>1 DEF IInv, TypeOK, ContentInv, TimeInv, JudgedWhole, KeepsFailedAndSlow, Ended, Queued, Busy
<1>2. CASE Next
  BY <1>2, TickStep, ExportStep, RequestStep, HelloStep, SayHelloStep, DecideStep DEF Next
<1> QED
  BY <1>1, <1>2

LEMMA Inductive == Spec => []IInv
BY InitIInv, NextIInv, PTL DEF Spec

(* Every variable keeps its type: no request is at work for longer than    *)
(* its delay allows, and no batch is overdue.                              *)
THEOREM TypeCorrect == Spec => []TypeOK
<1>1. IInv => TypeOK
  BY DEF IInv
<1> QED
  BY <1>1, Inductive, PTL

(* otel-collector-config.yaml, line 9: ten seconds of decision_wait are    *)
(* enough for any number of requests that share the batches, since the     *)
(* wait for a trace cannot outrun the request and the batches it is in.    *)
THEOREM WholeSafe == Spec => []JudgedWhole
<1>1. IInv => JudgedWhole
  BY DEF IInv
<1> QED
  BY <1>1, Inductive, PTL

(* README.md of tail-sampling, lines 41 and 42: the collector drops only   *)
(* traces that were replied to without a delay and without an error.       *)
THEOREM KeepsSafe == Spec => []KeepsFailedAndSlow
<1>1. IInv => KeepsFailedAndSlow
  BY DEF IInv
<1> QED
  BY <1>1, Inductive, PTL
=============================================================================
