---------------------------- MODULE TailSampling ----------------------------
(***************************************************************************)
(* The tail-sampling program as the OpenTelemetry collector sees it: the   *)
(* spans of a trace end in two processes, each batches them on its own,    *)
(* and the collector judges a trace by what has arrived when decision_wait *)
(* is over (tail-sampling/otel-collector-config.yaml).                     *)
(*                                                                         *)
(* Time passes in ticks of half a second.  What takes less than a tick may *)
(* or may not see one.  The collector is there and takes a batch at once.  *)
(***************************************************************************)
EXTENDS Naturals, FiniteSets

CONSTANTS
    Traces             \* the /hello requests, one trace each

(* The times of the program, in ticks: the delay of a slow SayHello (1 to  *)
(* 3 s, and its operation), the threshold of the latency policy, the wait  *)
(* of the collector and the second in which it notices that it is over,    *)
(* and the interval of the batch processor (5 s, nobody sets it).          *)
MinDelay == 2
MaxDelay == 7
LatencyThreshold == 1
DecisionInterval == 2
BatchTimeout == 10

(* (Mutant of DecisionWait: 5 s, as long as a batch may wait.) *)
DecisionWaitHalved == 10

DecisionWait == 20

VARIABLES
    gw,                \* [Traces -> where hello is]
    be,                \* [Traces -> where SayHello is]
    delayed,           \* traces whose SayHello sleeps
    age,               \* [Traces -> ticks since the request arrived]
    queue, due,        \* [Processes -> ended spans; ticks until they must go]
    arrived,           \* spans the collector has
    wait,              \* [Traces -> ticks since its first span arrived]
    decision           \* [Traces -> "none", "keep" or "drop"]

requestVars   == <<gw, be, delayed>>
batchVars     == <<queue, due>>
collectorVars == <<arrived, wait, decision>>
vars == <<requestVars, age, batchVars, collectorVars>>

Processes == {"gateway", "backend"}

Init ==
    /\ gw = [t \in Traces |-> "none"] /\ be = [t \in Traces |-> "none"]
    /\ delayed = {} /\ age = [t \in Traces |-> 0]
    /\ queue = [p \in Processes |-> {}] /\ due = [p \in Processes |-> 0]
    /\ arrived = {} /\ wait = [t \in Traces |-> 0]
    /\ decision = [t \in Traces |-> "none"]

-----------------------------------------------------------------------------
(* Batches *)

Span(t, name, error, slow) == [trace |-> t, name |-> name, error |-> error, slow |-> slow]

(* span.End: the first one in a batch sets the latest time it goes out. *)
EndSpan(p, s) ==
    /\ queue' = [queue EXCEPT ![p] = @ \cup {s}]
    /\ due' = [due EXCEPT ![p] = IF queue[p] = {} THEN BatchTimeout ELSE @]

(* A batch goes out: by the clock, or earlier, since the interval does not *)
(* start with this trace and since a full batch does not wait for it.      *)
Export(p) ==
    /\ queue[p] # {}
    /\ arrived' = arrived \cup queue[p]
    /\ queue' = [queue EXCEPT ![p] = {}] /\ due' = [due EXCEPT ![p] = 0]
    /\ UNCHANGED <<requestVars, age, wait, decision>>

-----------------------------------------------------------------------------
(* hello, at the gateway *)

Hello(t, here, there) == gw[t] = here /\ gw' = [gw EXCEPT ![t] = there]

Arrive(t) ==
    /\ Hello(t, "none", "calling")
    /\ be' = [be EXCEPT ![t] = "sent"]
    /\ UNCHANGED <<delayed, age, batchVars, collectorVars>>

(* SayHello comes back, with a reply or an error, and its span ends. *)
CallReturns(t) ==
    /\ be[t] \in {"replying", "replied"} /\ Hello(t, "calling", "operating")
    /\ EndSpan("gateway", Span(t, "call", FALSE, t \in delayed))
    /\ UNCHANGED <<be, delayed, age, collectorVars>>

CallFails(t) ==
    /\ be[t] \in {"refused", "failed"} /\ Hello(t, "calling", "failing")
    /\ EndSpan("gateway", Span(t, "call", TRUE, FALSE))
    /\ UNCHANGED <<be, delayed, age, collectorVars>>

(* The client closes its connection: the call fails here and now, while    *)
(* the backend goes on with it, if it has seen it.                         *)
ClientLeaves(t) ==
    /\ Hello(t, "calling", "failing")
    /\ \/ UNCHANGED be
       \/ be[t] = "sent" /\ be' = [be EXCEPT ![t] = "none"]
    /\ EndSpan("gateway", Span(t, "call", TRUE, age[t] > LatencyThreshold))
    /\ UNCHANGED <<delayed, age, collectorVars>>

Operation(t) ==
    /\ Hello(t, "operating", "ending")
    /\ EndSpan("gateway", Span(t, "op1", FALSE, FALSE))
    /\ UNCHANGED <<be, delayed, age, collectorVars>>

(* The server span, in error after http.Error with 500. *)
EndRequest(t) ==
    /\ \/ /\ Hello(t, "ending", "ended")
          /\ EndSpan("gateway", Span(t, "server", FALSE, t \in delayed))
       \/ /\ Hello(t, "failing", "ended")
          /\ EndSpan("gateway", Span(t, "server", TRUE, age[t] > LatencyThreshold))
    /\ UNCHANGED <<be, delayed, age, collectorVars>>

-----------------------------------------------------------------------------
(* SayHello, at the backend *)

SayHello(t, here, there) == be[t] = here /\ be' = [be EXCEPT ![t] = there]

(* (Mutant of TakeCall: the delay is drawn first, and a failure after it.) *)
TakeCallSleepsFirst(t) ==
    /\ SayHello(t, "sent", "refusing") \/ SayHello(t, "sent", "working")
    /\ delayed' \in {delayed, delayed \cup {t}}
    /\ UNCHANGED <<gw, age, batchVars, collectorVars>>

(* One in ten fails, one in ten sleeps before its operation. *)
TakeCall(t) ==
    /\ \/ SayHello(t, "sent", "refusing") /\ UNCHANGED delayed
       \/ SayHello(t, "sent", "working") /\ delayed' \in {delayed, delayed \cup {t}}
    /\ UNCHANGED <<gw, age, batchVars, collectorVars>>

Work(t) ==
    /\ SayHello(t, "working", "worked") /\ (t \in delayed => age[t] >= MinDelay)
    /\ EndSpan("backend", Span(t, "operation", FALSE, FALSE))
    /\ UNCHANGED <<gw, delayed, age, collectorVars>>

(* The reply or the error is on its way, and the gateway may go on, before *)
(* the stats handler ends the server span.                                 *)
WriteReply(t) ==
    /\ SayHello(t, "worked", "replying") \/ SayHello(t, "refusing", "refused")
    /\ UNCHANGED <<gw, delayed, age, batchVars, collectorVars>>

Reply(t) ==
    /\ SayHello(t, "replying", "replied")
    /\ EndSpan("backend", Span(t, "serve", FALSE, t \in delayed))
    /\ UNCHANGED <<gw, delayed, age, collectorVars>>

Refuse(t) ==
    /\ SayHello(t, "refused", "failed")
    /\ EndSpan("backend", Span(t, "serve", TRUE, FALSE))
    /\ UNCHANGED <<gw, delayed, age, collectorVars>>

-----------------------------------------------------------------------------
(* The collector, and time *)

(* (Mutant of PolicyKeeps: the latency policy is missing.) *)
PolicyKeepsErrors(t) == \E s \in arrived : s.trace = t /\ s.error

(* errors-policy and latency-policy; the others are a matter of luck. *)
PolicyKeeps(t) == \E s \in arrived : s.trace = t /\ (s.error \/ s.slow)

Waiting(t) == decision[t] = "none" /\ \E s \in arrived : s.trace = t

Decide(t) ==
    /\ Waiting(t) /\ wait[t] >= DecisionWait
    /\ \E d \in {"keep", "drop"} :
         /\ PolicyKeeps(t) => d = "keep"
         /\ decision' = [decision EXCEPT ![t] = d]
    /\ UNCHANGED <<requestVars, age, batchVars, arrived, wait>>

Busy(t) ==
    \/ gw[t] \in {"calling", "operating", "ending", "failing"}
    \/ be[t] \in {"sent", "refusing", "refused", "working", "worked", "replying"}

(* Time passes, unless something is due first. *)
Tick ==
    /\ \A t \in Traces :
         /\ Busy(t) => age[t] < IF t \in delayed THEN MaxDelay ELSE 1
         /\ Waiting(t) => wait[t] < DecisionWait + DecisionInterval
    /\ \A p \in Processes : queue[p] # {} => due[p] > 0
    /\ \E t \in Traces : Busy(t) \/ Waiting(t) \/ \E p \in Processes : queue[p] # {}
    /\ age' = [t \in Traces |-> IF Busy(t) THEN age[t] + 1 ELSE age[t]]
    /\ due' = [p \in Processes |-> IF queue[p] # {} THEN due[p] - 1 ELSE 0]
    /\ wait' = [t \in Traces |-> IF Waiting(t) THEN wait[t] + 1 ELSE wait[t]]
    /\ UNCHANGED <<requestVars, queue, arrived, decision>>

Next ==
    \/ Tick
    \/ \E p \in Processes : Export(p)
    \/ \E t \in Traces :
         \/ Arrive(t)
         \/ CallReturns(t)
         \/ CallFails(t)
         \/ ClientLeaves(t)
         \/ Operation(t)
         \/ EndRequest(t)
         \/ TakeCall(t)
         \/ Work(t)
         \/ WriteReply(t)
         \/ Reply(t)
         \/ Refuse(t)
         \/ Decide(t)

Spec == Init /\ [][Next]_vars

-----------------------------------------------------------------------------
(* Properties *)

Spans == [trace : Traces, name : {"server", "call", "op1", "serve", "operation"},
          error : BOOLEAN, slow : BOOLEAN]

(* The type of every variable; a SayHello that fails has not been delayed. *)
TypeOK ==
    /\ gw \in [Traces -> {"none", "calling", "operating", "ending", "failing", "ended"}]
    /\ be \in [Traces -> {"none", "sent", "refusing", "refused", "working", "worked",
                          "replying", "replied", "failed"}]
    /\ \A t \in delayed : be[t] \in {"working", "worked", "replying", "replied"}
    /\ delayed \subseteq Traces /\ age \in [Traces -> 0 .. MaxDelay]
    /\ queue \in [Processes -> SUBSET Spans] /\ due \in [Processes -> 0 .. BatchTimeout]
    /\ arrived \subseteq Spans /\ wait \in [Traces -> 0 .. DecisionWait + DecisionInterval]
    /\ decision \in [Traces -> {"none", "keep", "drop"}]
    /\ \A p \in Processes : queue[p] = {} => due[p] = 0

(* otel-collector-config.yaml, line 9: decision_wait outlasts the batches  *)
(* of both processes and the slowest call, also one whose client has left: *)
(* no trace is judged by a part of it.                                     *)
JudgedWhole ==
    \A t \in Traces : decision[t] # "none" =>
        ~Busy(t) /\ \A p \in Processes : \A s \in queue[p] : s.trace # t

(* README.md of tail-sampling, lines 41 and 42: every trace with an error  *)
(* and every slow one is kept, wherever in it the error or the delay was.  *)
KeepsFailedAndSlow ==
    \A t \in Traces : decision[t] = "drop" =>
        t \notin delayed /\ be[t] = "replied"
          /\ \A s \in arrived : s.trace = t => ~s.error
=============================================================================
