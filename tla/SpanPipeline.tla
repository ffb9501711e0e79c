---------------------------- MODULE SpanPipeline ----------------------------
(***************************************************************************)
(* The path of an ended span from span.End() to the collector, as every    *)
(* program of the repository sets it up in its telemetry package:          *)
(* NewTracerProvider installs a provider whose batch processor keeps ended *)
(* spans in a queue, exports them in the background, and drains the queue  *)
(* when the program calls the returned shutdown function, which gives up   *)
(* after five seconds and only logs.                                       *)
(*                                                                         *)
(* The batch processor itself belongs to the OpenTelemetry SDK, which is   *)
(* not part of the repository: EndSpan, ExportBatch and Kill model it from *)
(* its use.                                                                *)
(***************************************************************************)
EXTENDS FiniteSets

CONSTANTS
    CollectorFails     \* may an export be refused, or outlast the deadline?

ASSUME CollectorAssumption == CollectorFails \in BOOLEAN

VARIABLES
    provider,          \* "none", "up" or "stopped": the global TracerProvider
    queue,             \* ended spans the batch processor has not exported
    exported,          \* spans the collector has accepted
    lost               \* ended spans that can no longer be exported

pipelineVars == <<provider, queue, exported, lost>>

(* Every span that was ended, wherever it is now. *)
Ended == queue \cup exported \cup lost

PipelineInit ==
    /\ provider = "none"
    /\ queue = {}
    /\ exported = {}
    /\ lost = {}

(* NewTracerProvider: a new process installs its provider. *)
InstallProvider ==
    /\ provider' = "up"
    /\ UNCHANGED <<queue, exported, lost>>

(* span.End() of a sampled span: a stopped provider ignores it. *)
EndSpan(s) ==
    /\ IF provider = "up"
         THEN queue' = queue \cup {s} /\ lost' = lost
         ELSE queue' = queue /\ lost' = lost \cup {s}
    /\ UNCHANGED <<provider, exported>>

(* The background export of what is queued; a refused batch is dropped. *)
ExportBatch ==
    /\ provider = "up" /\ queue # {}
    /\ queue' = {}
    /\ \/ exported' = exported \cup queue /\ lost' = lost
       \/ CollectorFails /\ lost' = lost \cup queue /\ exported' = exported
    /\ UNCHANGED provider

(* span.End() under a simple processor: the span is exported on the spot. *)
EndSpanNow(s) ==
    /\ provider = "up"
    /\ exported' = exported \cup {s}
    /\ UNCHANGED <<provider, queue, lost>>

(* A shutdown that drains the queue, and one that runs into its deadline:  *)
(* what is left is dropped, and the program goes on.                       *)
Drain ==
    /\ provider' = "stopped"
    /\ exported' = exported \cup queue /\ queue' = {} /\ lost' = lost

GiveUp ==
    /\ provider' = "stopped"
    /\ lost' = lost \cup queue /\ queue' = {} /\ exported' = exported

(* The returned shutdown function: at its deadline it only logs. *)
Shutdown == Drain \/ (CollectorFails /\ GiveUp)

(* The process ends without the shutdown function (a signal nobody         *)
(* handles, log.Fatal, os.Exit): its memory goes, and the queue with it.   *)
Kill ==
    /\ provider' = "none"
    /\ queue' = {}
    /\ lost' = lost \cup queue
    /\ UNCHANGED exported
=============================================================================
