# TLA+ models of otel-sample

The repository is a set of small Go programs, each showing one way to instrument a program with
OpenTelemetry. What they have in common is what is hard to test in them: work that ends at one
place, telemetry that is sent at another, by another goroutine, later, and a process that may end
in between. The models follow the control of the programs step by step; names, attributes, texts
and durations are left out unless a property is about them.

## Components

| component | state it keeps | operations | how it interacts |
|---|---|---|---|
| span pipeline (`*/telemetry/*.go`) | global provider, queue of ended spans (records) | install, `span.End`, background export, shutdown with a deadline, death of the process | every program ends its spans here |
| `span-link` | trace ids, the slice `collected` with its mutex, the cancelled context | `setup`, `Publish`, `receiveBatch` and its callbacks, `ConsumeMessages` | Pub/Sub delivers, concurrently and at least once; trace context travels in message attributes |
| `worker` | Bootstrap's progress, running callbacks, the signal's context | `Bootstrap`, `Receive`, `Handle`, `Ack`, deferred calls | Pub/Sub, signals, restarts |
| `event-comparison` | loop counters, `lastErr`, local variables of `fetchUser`, two providers | `run`, `fetchUser`, `cache.get`, `selectUser`, `sleep`, event recorders, `shutdown` | signal against timers, two batch processors |
| `signoz-wide-event` | handlers in progress, stdout, two providers | `order`, `validate`, `charge`, `fail`, tee logger, `emitEvent` | HTTP clients, process end |
| gateway and backend of `microservice`, `sampling`, `collector`, `envoy`, `tail-sampling`, `refinery` | handlers and sampling decisions on both sides, two pipelines | `hello`, `SayHello`, `Operation`, `main`, cleanup | HTTP in, gRPC between, trace context in metadata |
| `batch` | one job, its exit code | `run`, `job.Run`, `fetch`, `process`, deferred shutdown | pipeline, collector |
| `simple`, `bridge`, `multi-package` | handlers in progress | `hello`, `alive`, `Operation`s, `write`, `readRows`, `main`, cleanup | HTTP in, httpbin or Bigtable out |
| tail sampling policies (`tail-sampling/otel-collector-config.yaml`) | batches of two processes, traces under decision | `decision_wait`, the policies | both processes export to the collector |
| Refinery rules | external | - | not modelled |

What makes each correct:

* **span pipeline**: an ended span is exported, or the reason it is not is known: the provider was
  stopped, the collector did not answer, the process died.
* **span-link**: `receiveBatch` loses and overwrites nothing however its callbacks interleave; a
  process span is linked to the publish of its own message; `Receive` ends.
* **worker**: it is an at-least-once consumer, every delivery leaves its two spans, a signal ends it,
  and a run that ends on its own hands over its spans to a collector that takes them.
* **event-comparison**: attributes, child spans, events and log records of a request agree,
  whichever recorder is chosen and wherever the request is cut short; the exit code and the flush.
* **signoz-wide-event**: answer, wide event, plain log and event of an order agree; the range of
  the numbers a client writes.
* **gateway and backend**: both record a trace or neither does; an answered request has exactly its
  tree; a failing call ends the request and no other; a gateway that returns hands over the traces
  of the requests that were through; only httpbin may hold a request for ever.
* **simple, bridge, multi-package**: a request that is through has its whole tree, also when calls
  failed on the way; a server that returns hands them over to a collector that takes them; a
  client that leaves releases its handler.
* **batch**: an exit code of 0 means that the whole trace of the job was handed over, to a
  collector that takes it.
* **tail sampling**: a trace is judged as a whole; a failed or slow one is never dropped.

The behaviours that are hard (concurrent callbacks, redelivery, a signal at any point, a killed
process, a client that leaves, a shared deadline, a retry cut short) are listed line by line under
`hazards` in `PROJECT.json`, with the properties that would notice.

## Modules

| module | models | main correspondence |
|---|---|---|
| `SpanPipeline` | `telemetry` packages | `InstallProvider`, `Shutdown` are `NewTracerProvider` and the function it returns; `EndSpan`, `ExportBatch`, `EndSpanNow`, `Drain`, `GiveUp`, `Kill` stand for the SDK and the end of the process (external) |
| `SpanLink` | `span-link` | one action per step of `run`; a callback is `Deliver`, `LockBatch`, `AppendMessage`, `AckMessage`, `ReturnCallback`, so that the lock, the append, the Ack and the cancel of several callbacks interleave |
| `BatchContract` | what `receiveBatch` promises | abstract: open, take, fill, give up |
| `Worker` | `worker` | `Create`, `PublishOne`, `StopTopic` are Bootstrap; `Deliver`, `HandleMessage`, `Ack` a callback; `ReceiveReturns`, `CloseClient`, `ShutdownProvider` the way out |
| `AtLeastOnce` | what a consumer promises | abstract: publish, handle, settle |
| `FetchUser` | `event-comparison` | one action per blocking step of `run` and `fetchUser`; `Signal` and `TimerFires` race in every sleep |
| `Order` | `signoz-wide-event` | one action per statement of `order` and `fail` that leaves something behind |
| `Gateway` | the six two-process programs | a record per program (`Microservice`, `Sampling`, ...) holds what they decide differently: sampler, what a failed call does, what a failed listener does, a backend that fails on purpose, an external call, a start that blocks on the collector, spans of a `grpc.StatsHandler`; `ExternalAnswers` has any HTTP status, since `hello` checks none; `Reply` ends the serve span of an interceptor, `ServeEnds` that of a StatsHandler, later; `ListenFails`, `FlushGateway`, `ShutdownGateway`, `ExitGateway` are the way out of `main`, handlers going on in between; `StartFails` is every `log.Fatal` of a start |
| `SingleProcess` | `simple`, `multi-package`, `bridge`, `batch` | a record per program (`Simple`, ...) lists the steps of `hello` or of the job and what a failed call does; `LocalStep`, `RemoteAnswers`, `RemoteFails` are one step of a handler; `JobReturns`, `ListenFails`, `FlushProvider`, `ShutdownProvider`, `Exit` the ways out of `main` |
| `TailSampling` | `tail-sampling` seen by its collector | `hello` and `SayHello` with the times they take (`WriteReply` comes before the serve span of the StatsHandler ends), the batch of each process (`EndSpan`, `Export`), and the collector (`Decide`); `Tick` is half a second |
| `MCSpanLink` | - | symmetry of the callbacks for TLC, in the two violated runs of `SpanLink` |
| `SpanLink_proof`, `Worker_proof`, `SingleProcess_proof`, `Gateway_proof`, `Order_proof`, `FetchUser_proof`, `TailSampling_proof` | - | theorems about the module they are named after |
| `SpanLinkTraces_proof` | - | theorems about `SpanLink` that relate the spans of several runs; extends `SpanLink_proof` |

`SpanLink` extends `SpanPipeline`; the others instantiate it, once per provider. `SpanLink` and
`Worker` instantiate their abstract specifications with a refinement mapping.

Definitions whose comment begins with "(Mutant of" are plausible wrong versions of the definition
they name. Nothing uses them: they say which mistake a property would notice.

## Runs

| run | bounds | what it shows |
|---|---|---|
| `span_link` | batch of 2, 2 callbacks, 2 runs of the program, 1 lost Ack, reliable collector | types, acknowledged messages are in the batch, a process span is linked to the producer of its own message and to no other trace, no acknowledged message unprocessed after a clean run, one process span per message as long as no Ack was lost, `receiveBatch` implements `BatchContract`; `Receive` comes back |
| `span_link_links` (violated) | batch of 2, 3 callbacks, 1 run | a process span has one link, and not `BatchSize` links as `config.go` says |
| `span_link_overshoot` (violated) | batch of 2, 3 callbacks, 2 runs | with a backlog from an earlier run `receiveBatch` returns more than `BatchSize` messages |
| `fetch_user` | 3 attempts, 0, 1 or 2 requests, at most 2 sent when endless, all flags | counts, errors, correlation, exit code, flush; a signal ends the program |
| `fetch_user_deadline` (violated) | 1 request, trace collector stalls | the shared deadline drops the log records |
| `order` | 2 requests at a time, int of -4..3, limit 2, amounts at, above and out of range | answer, wide event, records and stdout agree |
| `order_range` (violated) | 1 request | an amount out of range is charged as the default |
| `gateway` | 2 requests, all six programs, at most one client that leaves, a collector that takes every batch or is away | sampling, span trees, what a return from `main` keeps; every request ends unless httpbin keeps it and its client waits |
| `gateway_fatal` (violated) | 2 requests, microservice | one failed call ends the process and takes the traces of the other request along |
| `worker` | 2 messages, 2 starts, 1 lost Ack, in each run a collector that takes every batch or one that may refuse any | at-least-once refinement, paired spans, graceful flush to a collector that takes the spans; a signal ends the worker |
| `single_process` | all four programs, 2 requests or 1 job, at most one client that leaves, a collector that takes every batch or is away | span trees with failed calls in them, what a return from `main` keeps, what the exit code tells; cleanup, job and abandoned requests end |
| `tail_sampling` | 1 trace, ticks of 0.5 s, the real times: calls of up to 3.5 s, batches of up to 5 s, a wait of 10 s | no trace is judged by a part of it, none that failed or was slow is dropped |

Four things the code does differently from what a reader of its comments may expect, and no run is
devoted to: `Bootstrap` takes every error of a creation for "already exists" (`Create` models the
failure, and the worker then waits on nothing); in `span-link` a lost acknowledgement gives a message
a second process span (`OneProcessPerPublish` promises one per message only as long as none was
lost); a request of `event-comparison` that is cancelled in its backoff has counted a retry that is
never made (`CountsAgree` states the exact relation, with that case); the order server does not
handle SIGTERM, so a stopped container may have sent an error span and lost its error log (`Killed`
models it).

The bounds are the smallest at which the cases happen. Two messages fill a batch in two appends, by
two callbacks that interleave in every order; a third callback, which arrives between an Ack and the
cancel, is needed for the overshoot only, and has its run. A second run is what finds the backlog,
and what a killed run leaves. Two requests are what it takes for one to disturb another, and one
client that leaves already separates the two sides of a request. Three attempts are the program's
own constant. One lost acknowledgement already leads to every kind of redelivery; two would only
repeat it. The narrow int of `Order` has numbers below, at and above the limit and outside of the
type, which is what `atoi` and `charge` tell apart.

In `SingleProcess` and `Gateway` the collector takes every batch in time or is away for the whole
run: the two cases in which the cleanup makes a promise, to keep spans and to end. In `Worker` it is
chosen anew for each start, and one that is not reliable may refuse any batch, so that `Shutdown`
may also give up; its five seconds and the error that is only logged are why `GracefulFlush` speaks
of reliable collectors alone. In `SpanLink` no property is about what the collector gets, and it
takes every batch. One trace is enough in `TailSampling`: traces meet only in the batches, where
others can make a batch go out early, which `Export` allows at any time. What takes less than half a
second may or may not see a tick. `DecisionWait` is 20 ticks, the configured 10 s; with 17 ticks a
trace whose client left would still be judged before the backend's last batch came, so little more
than a second is to spare.

`CHECK_DEADLOCK FALSE` is set in every run: each program may end, and the bounds on runs and
requests end the behaviours.

## Fairness

* `SpanLink.FairSpec`: the Go scheduler runs `main` and every callback; Pub/Sub delivers what the
  subscription retains; a missing subscription is reported. No fairness on crashes, failures or
  another start.
* `FetchUser.FairSpec`: `run` goes on and a timer that was started fires; no signal has to come.
* `Worker.FairSpec`: main and the callbacks go on; `Receive` has to return only after a signal.
* `Gateway.FairSpec`: the handlers of both processes go on, a call whose context is cancelled or
  whose backend is not there comes back. No process has to start, to stay or to end, no client has
  to leave, and httpbin need not answer: the HTTP client has no timeout. A step of `GoRuns` is taken
  at most once per request, so that fairness to their disjunction is fairness to each.
* `SingleProcess.FairSpec`: sleeps end, a call whose context is cancelled comes back, `main` and its
  deferred calls go on and `batch` starts its job. Nobody has to answer a call, no listener fails, no
  signal comes.
* `TailSampling` states no fairness, and no liveness is checked of it: `Tick` stops before anything
  would be late, which is how the upper limits on times are stated, and time that must pass would
  make everything happen by construction.

## Proofs

Every invariant that a passing run checks is a theorem about every value of the constants, and so
are the two refinements. The assumptions are those on the constants: numbers are naturals, the int
of `Order` holds at least -2..1 and the default amount, programs are among those the repository has.
Each module names an inductive invariant, proves it from `Init` and over `Next` with one step per
action, and derives its theorems from it. TLC has checked the invariants on the instances of the
runs before they were proved (for `FetchUser` in full with collectors that answer).

| module | theorems |
|---|---|
| `SpanLink_proof` | `TypeCorrect`: `TypeOK`; `AckedSafe`: `AckedCollected`; `Refinement`: `BatchRefinement` |
| `SpanLinkTraces_proof` | `LinkedSafe`: `LinkedToOwnProducer`; `CleanRunSafe`: `CleanRunProcessesAcked`; `OnceSafe`: `OneProcessPerPublish` |
| `Worker_proof` | `TypeCorrect`: `TypeOK`; `DeliveriesSafe`: `DeliveriesTraced`; `GracefulSafe`: `GracefulFlush`; `Refinement`: `AtLeastOnceRefinement` |
| `FetchUser_proof` | `TypeCorrect`: `TypeOK`; `CountsSafe`: `CountsAgree`; `ErrorSafe`: `ErrorOnlyIfFailed`; `SignalsSafe`: `SignalsCorrelate`; `ExitSafe`: `ExitCodeTells`; `FlushSafe`: `FlushedOnExit` |
| `Order_proof` | `TypeCorrect`: `TypeOK`; `WideEventSafe`: `WideEventTellsAnswer`; `BothLogsSafe`: `FailuresReachBothLogs`; `TeeSafe`: `TeeAgrees` |
| `Gateway_proof` | `TypeCorrect`: `TypeOK`; `SamplingSafe`: `SampledTogether`; `CleanupSafe`: `CleanupKeepsFinished`; `TraceTreeSafe`: `TraceTree` |
| `SingleProcess_proof` | `TypeCorrect`: `TypeOK`; `CleanupSafe`: `CleanupKeepsFinished`; `FatalSafe`: `FatalOnlyAtGet`; `TraceTreeSafe`: `TraceTree`; `JobSafe`: `JobExitTells` |
| `TailSampling_proof` | `TypeCorrect`: `TypeOK`; `WholeSafe`: `JudgedWhole`; `KeepsSafe`: `KeepsFailedAndSlow` |

**SpanLink**, for every batch size, set of callbacks, number of runs and of lost acknowledgements.
`AckedCollected` is not inductive: a callback that is about to acknowledge must already be in the
slice, and that its append was not overwritten needs the lock. `IInv` adds this: `LockInv` (one
callback inside `mu`, and the length it has read is the current one), `AckInv` (an appended message
is in the slice), `DoneInv` (only a full batch is done or cancelled, which `Fill` of the contract
needs), `QuietInv` (no callback outside of `Receive`, so the unlocked read by `ConsumeMessages` is
safe), `TracedInv` and `PublishInv` (trace ids in range, for the types). The contract is about the
phase and the batch alone, so the refinement proof is one more case split over the actions under
`IInv`.

**SpanLink, the spans of all runs.** `TraceInv` says that a trace id is handed out once: no two
messages share one, an unpublished message has none, and a process span has one no message was sent
in. `SentInv` says that a message with a trace id has its send span, is still between the two steps
of its publish, or was the last of a run that was killed there; with both, a link leads to the send
span of its own message. `ConsumeInv` says that `ConsumeMessages` has left a span for every message it
has passed, which with `AckedCollected` gives the clean run. `OnceInv` is about behaviours that have
lost no acknowledgement: a message retained by Pub/Sub is held by one callback at most, is in the
slice only between the append and the Ack of that callback, and has no process span; so a killed or
failed run gives back only messages no run has processed.

**Worker**, for any messages, callbacks and number of starts. That a settled message was handled is
what `Ack` needs to know of a callback: `CallbackInv` says that a callback which has handled its
message left a span for it in this run. `CallbackInv` also keeps callbacks inside `Receive`,
`FlightInv` keeps publishes inside `Bootstrap` and apart from what the subscription holds, and
`RunInv` says that the provider is there while the process is, that with a reliable collector only
a killed process lost spans of its own run, and that a process which ended on its own left nothing
queued, which is what `GracefulFlush` is about.

**FetchUser**, for any number of attempts and requests, all flags, and collectors that answer or
not. `LocalInv` relates the local variables of `fetchUser` at each of its points (one call a retry,
and one more for the last). `SelectInv` and `EventInv` tie them to the spans and events of the
request in progress: its `SELECT` spans are numbered 1 to the number of calls, all but the last in
error, its retry events are as many as its retries and distinct, whichever recorder made them; a
timeout is its error only when all attempts are made and the last of them timed out. `EndRequest`
then makes a main span for which `CountsOf` and `ErrorsOf` hold, and `SentInv` (what is recorded
later belongs to later requests) keeps it true. `ExitInv` follows the only request of `-requests 1`
to the exit code; `FlushInv` says that what is lost was lost to a deadline.

**Order**, for any set of requests, width of int and limit. `Told` says, for each place in `order`
and `fail`, what the server span holds and whether the client has its answer; `SpanInv` says that a
span ends with what `Told` knows at the end, and `RecordInv` that the records and lines there are
come from handlers that passed the step that writes them, in the order of the steps. `OutputInv` has
the types of what is written; that numbers stay in range is `AtoiInt`. `MainFrame` is the fact that
neither an export nor the end of the process changes what was ended.

**Gateway**, for any set of requests and of the six programs. `SamplingInv` follows a decision along
a call: what the backend records the gateway records; from the moment the backend has taken the call
of a recorded request it records it too, and each span it then has to end is among the ended ones.
Under `AlwaysSample`, where the backend asks nobody, this needs that the gateway has recorded every
request that was sent. `GwTreeInv` and `BeTreeInv` say, for each place of a handler on either side,
which spans of its request have ended; `HelloInv` says that only a call that was replied to leads to
an answer of 200, which is where the two sides meet, and that a reply is undelivered only when the
gateway is gone. `CleanupKeepsFinished` speaks of a process that is over. `CleanupInv` says what held
before: the provider is up until the shutdown, a reliable collector loses nothing up to then, the
shutdown leaves nothing queued, and what is lost after it belongs to requests that were not through.
The last clause survives the handlers that go on because one that is through has no step left to
end another span in.

**SingleProcess**, for any set of requests and of the four programs. `CleanupKeepsFinished` speaks
of a process that is over. `DrainInv` says what held before: a reliable collector loses nothing
before the shutdown, the shutdown leaves nothing queued, and what is lost after it belongs to other
requests than those that were through; `DoneInv` leaves a handler that is through no step to end
another span in. `FailedInv` says that a handler about to call `log.Fatal` has left its failed `get`
span and has not ended. `TreeOf` counts the child spans of a request by its steps: each step that is
over has left one, and that no step leaves a second one needs that the steps of a program have
different names. `JobInv` says that `main` of `batch` returns only from a job that is through.

**TailSampling**, for any number of traces, with the times of the configuration. `JudgedWhole` is an
invariant about time: `TimeInv` says that the collector has waited for a trace no longer than its
request is at work, and that even when the batches that hold its spans are due it will not have
waited longer than a request and a batch may take, which `decision_wait` exceeds. `ContentInv` says
that whatever failed or was slow has left a span that says so, in a batch or at the collector. The
proof covers traces that share the batches, where the run has one trace.

Only model-checked: the liveness properties (`ReceiveEnds`, both `SignalStops`, `RequestsEnd`,
`LeaversRelease`, `RunEnds`), since the prover does not deal with fairness, and what the violated
runs show, which is a behaviour and not a theorem. The fairness formulas are not part of the
specifications the theorems speak of, which makes the theorems hold of the fair ones too.

## Not modelled

* The OpenTelemetry SDK and Pub/Sub beyond what the programs rely on: the queue limit of a batch
  processor (2048 spans) is not reached by these programs, and their collector accepts or refuses
  whole batches.
* `worker`: the Nack branch, since `Handle` never returns an error; lease expiry, since a callback
  takes 30 ms; a provider or client that cannot be made, which ends the process before it has a span.
* `event-comparison`: attribute names and error texts; `app.db.duration_ms`.
* `signoz-wide-event`: the child spans of `validate` and `charge`, the startup log line, `Sync`.
* Gateway programs: `alive`, which only writes a constant; a connection that breaks between two live
  processes; what the backend exports, since its cleanup never runs and a backend that ends may lose
  whatever it has queued.
* `simple`, `bridge`, `multi-package`: the spans the Bigtable library adds for its own attempts;
  `Operation2` of `multi-package`, which nothing calls.
* `batch`: an error of `fetch` and an empty list of items, which cannot happen as it is written; the
  exporter to stdout, which is a collector that is there.
* `span-link` with `BATCH_SIZE` 0, where `Receive` waits for a message nobody publishes, or negative.
* Tail sampling: eviction beyond `num_traces`, a collector that is restarted, and the probabilistic
  policy, which may keep or drop what the others leave to it. Refinery's rules match fields that
  Refinery derives from the spans by a translation of its own, which the repository does not show.
* Generated protobuf code, k6 scripts, Docker files, Envoy configuration.

## Plan

1. Done: `SpanPipeline`, `SpanLink` with `BatchContract`, `FetchUser`, `Order`, `Gateway`, `Worker`
   with `AtLeastOnce`, `SingleProcess`, `TailSampling`; every invariant of their runs proved.
2. Consequences of the abstract specifications, proved once and carried over by the refinements: a
   settled message of `AtLeastOnce` was handled; a full batch of `BatchContract` has `BatchSize`
   messages.
3. What a step may never do, as action properties with their theorems: an exported span is never
   taken back, a decision of the collector stands, an answer is given once.
4. An abstract specification of a server with graceful shutdown that `Gateway` and `SingleProcess`
   both implement.
