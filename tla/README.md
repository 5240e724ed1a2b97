# A TLA+ verification of the Intel PT tracer

This directory specifies, model-checks and proves properties of the tracer in
`src/IntelPTDriver`: a Windows kernel driver that traces the processes named
`TracedApp.exe` with Intel Processor Trace, a user mode application that takes
the trace buffers from the driver and produces them to Kafka, and a Python
decoder that consumes them. Paths below are relative to `src/IntelPTDriver`,
with `KM` for the directory `IntelPTDriver` and `UM` for `IntelPTUserModeApp`.

1. [The system](#1-the-system)
2. [Modules](#2-modules)
3. [Runs](#3-runs)
4. [Proofs](#4-proofs)
5. [Disagreements found](#5-disagreements-found)
6. [What the models leave out](#6-what-the-models-leave-out)
7. [Plan](#7-plan)

## 1. The system

The path of a trace: a ToPA entry with the INT bit fills up, the processor
raises a performance monitoring interrupt (PMI), the PMI handler pauses the
trace and queues a DPC, the DPC unlinks the full buffer, stamps a packet
descriptor with sequence and packet ids, enqueues it, signals an event and
resumes the trace; a `GET_BUFFER` request waiting in the driver dequeues the
descriptor; the worker thread of the application wraps the packet and sends it
to Kafka; the decoder orders the packets and decodes their bytes.

### Components

| component | code | state | operations |
|---|---|---|---|
| packet queue and GET_BUFFER | `KM/DriverUtils.c`, `KM/ProcessorTraceWindowsCommands.c` | `gQueueHead`, `gPagesAvailableEvent`, requests in progress | enqueue, signal, dequeue, reset, wait, complete |
| per-processor broadcast | `KM/ProcessorTraceWindowsControl.c` 16-183 | a structure on the caller's stack with two counters, one KDPC per processor | insert the DPCs or send the IPI, count, spin |
| trace control | `KM/ProcessorTraceWindowsControl.c`, `KM/ProcessorTrace.c`, id counters of `KM/DriverUtils.c` | per processor: `TraceEn`, the ToPA reason, `RunningStatus`, `TopaMdl`, the DPC queue; global: `gProcessId`, `gThreadHoodked`, the callbacks registered, the id counters | image-load, thread and exit hooks; PMI handler; `IptDpc`; setup and disable DPCs |
| trace configuration and output registers | `KM/ProcessorTrace.c`, `KM/ProcessorTraceShared.h` | `gPtCapabilities`, `OutputOptions`, the ToPA table, the configuration and output MSRs | query the capabilities, build the table, validate, configure, rewind |
| driver life cycle and IOCTL dispatch | `KM/Driver.c`, `KM/Device.c`, `KM/ProcessorTraceWindowsCommunication.c`, `KM/ProcessorTraceWindowsCommands.c` | the progress of `DriverEntry`, requests being served, callbacks registered | `DriverEntry`, the requests QUERY and SETUP, unload |
| buffer allocation helpers | `KM/DriverUtils.c` | none | one kernel call each |
| user mode application | `UM/Commands.c`, `UM/KafkaUtils.c`, `UM/UserInterface.c`, `UM/Main.c`, `UM/Communication.c` | the driver handle, `KafkaHandler`, `gPollingThreadHandle`, worker threads | commands setup and exit; `ThreadProc`; `KafkaSendMessage`; polling thread |
| stream decoder | `TraceDecoder/TraceDecoder.py` | `PACKET_ORDER_LISTS`, one interpreter | `read_trace`, `parser` |
| packet interpreter | `TraceDecoder/PacketInterpreter` | candidates, accumulator, current packet, context | `process_byte` and the packet handlers |
| sample program, librdkafka | `TracedApp`, `packages` | | a workload; a vendored library |

### How they interact

The hooks run in the threads of the system that load images, create threads
and end processes. They share `gProcessId` and `gThreadHoodked` without a lock,
and reach the processors through broadcasts: each inserts one DPC per
processor and spins until all have counted themselves. A processor runs its
DPCs in the order of insertion; a PMI preempts them between any two
instructions and inserts a DPC of its own at the tail. `IptDpc`, the disable
DPC and the image-load hook are the producers of the packet queue, and they
read and write the id counters while doing so. The requests of the application
drain the queue. Application and decoder share nothing but the Kafka topic.

### What is hard, and what correct means

* Trace control: PMIs, DPCs of several processors, and callbacks of several
  processes interleave. Correct means that no configuration or output MSR is
  written under a running trace (a fault in kernel mode), that every full
  buffer is handed over once, in order, that a paused trace resumes (but for one
  window, see `PausedResumes`), that the two ids of a packet identify it, and
  that the callbacks return.
* Packet queue: requests race with producers and with each other, and a reset
  of the event can swallow a wake-up. Correct means a FIFO hand-off to one
  request each, and that packets do leave.
* Broadcast: the caller's stack frame must outlive its DPCs, and the caller
  waits for equality of a counter. Correct means once on every processor, and
  that the call returns.
* User mode application: a bounded queue in the producer with retries, a
  polling thread started by whoever sends first, and an exit command that
  races with all of them. Correct means no packet produced twice or lost
  without a failure, in order while there is one worker, and reported.
* Stream decoder: packets come in any order. Correct means each is decoded
  once, behind its predecessors.
* Output registers and life cycle: requests are served before the driver has
  initialised what they need, failures are logged and ignored, threads of a
  process are created in parallel, and the hardware goes on writing until the
  interrupt is served. Correct means that no call breaks the machine, that the
  trace that is on is the one asked for, and that nothing is overwritten.
* Packet interpreter: one state machine for all processors and sequences
  decides from single bytes where a packet begins. Correct means that each
  packet is handled once, with its own bytes, and that the decoder goes on.

`PROJECT.json` lists the single hazards with their lines and the properties
that watch them.

## 2. Modules

Actions carry the names of the functions they translate. An operator marked
"Faulty variant" is a plausible bug used to see that a property notices it; no
specification contains one.

**`PacketChannel`** is the abstract promise of the packet queue: an unbounded
FIFO from which each packet goes to at most one request (`Send`, `Receive`,
`Consume`).

**`PacketQueue`** is the queue in the code: `DuEnqueueElement` under the spin
lock, the separate `KeSetEvent` that the DPC routines call and the image-load
hook does not, and the loop of `PtwCommandGetBuffer` cut at each call that
another thread can come between (`DequeuePacket` or `DequeueNothing`,
`KeResetEvent`, `KeWaitForSingleObject`, `CompleteRequest`). `Channel` is the
refinement mapping to `PacketChannel`: the channel is the list, and what a
request has received is its descriptor. A descriptor is a value reused after
it was freed, so handing one out twice is visible.

**`PerCoreSync`** is `PtwExecuteAndWaitPerCore` for any number of threads, at
both execution levels. A KDPC allocation that fails in the middle of the loop
leaves DPCs with a pointer to a dead frame. What such a DPC finds there is a
choice: nothing of the driver's, or the structure of a later call of the same
thread, into which it counts.

**`CoreTrace`** holds the processors: hardware, PMI handler and the three DPC
routines, in steps cut at each shared read and write (`IptEnableTrace` is
three: write `TraceEn`, read it back, write `RunningStatus`). A buffer is the
number of its allocation on the processor, so `topaMdl[c]` is the buffer the
hardware fills. **`TraceControl`** adds the hooks, the id counters and the
broadcasts (`InsertDpc`, one processor per step, and `SpinUntilDone`) and
composes the whole: `Next` is a step of a processor or of a hook. `queue` keeps
every packet ever enqueued, because the properties speak of packets long gone.
`raced` and `live` are history variables: `raced` says that two traced
processes overlapped or that an `IptDpc` ran on a processor outside a session.
`MaxPmis` bounds the PMIs of a behaviour.

**`KafkaForwarder`** is the application: the command loop, one worker thread
per successful setup, the polling thread, and librdkafka as far as the
application can tell (a producer counts its messages until a poll has reported
them). The n-th producer belongs to the n-th setup. A worker that found no
handle creates the polling thread in one step and stores the handle, or the NULL
of a failed creation, in the next: the thread runs in between, and a second
worker or the exit command may come there. Packets carry the number
in which the driver hands them out, each to one request: this is what
`PacketChannel` promises and `PacketQueue` is proved to implement. The use of a
destroyed producer either ends the process or passes as a failed call.
`stored` and `exitEarly` are history: a handle has been stored at some time, and
an exit went past its wait before that.

**`StreamDecoder`** is `read_trace` and `parser` at the level of whole packets.
A cache is the set of its packet ids, since the code keeps its list sorted.
An exception ends the decoder; the bytes that cause one are a choice. `began`
is history: how many packets had been decoded when the FIRST packet of a
sequence came, which empties its list. The topic hands out each message once;
section 6 says what that leaves out.

**`IntelPacketDefinitions`** is the table of the packets: header patterns as
sets of bytes, lengths by the top bits of the last header byte.
**`PacketInterpreter`** is `process_byte` over that table, one action per byte
and per branch (`SkipUnused`, `PartialHeader`, `FullHeader`, `PayloadByte`),
with the handlers reduced to what they raise and what they leave in the context
(`disable_interpreting`, whether there is a `tsc`, whether there is a `LastIP`),
and `GetSuccession`, the loop of `read_trace` that takes the packets. The
processor emits whole packets (`Emit`); `CutIn` goes on inside another one,
which is what the shared interpreter sees when a buffer ends within a packet and
the next buffer is another processor's or sequence's.

**`OutputRegisters`** is `ProcessorTrace.c` on one processor, with the hardware:
its kind (what CPUID says), `gPtCapabilities` (`"null"`, `"garbage"` when it is
allocated and not filled, `"real"`, `"freed"`), the table built from it, the
process the configuration MSRs filter for, the region of the table the
hardware fills next, and the number of `IptDpc`s in the DPC queue: a PMI that
comes while the ToPA reason is set queues another one, and each resumes the
trace, behind a disable DPC too. What a garbage capability reads as is a choice.
**`DriverLifecycle`** puts the driver around it: `DriverEntry` call by call with
the failure of each, the QUERY request cut between its test, its allocation and
its copy, the SETUP request, the callbacks with several threads per process, and
the unload. A broadcast is one step here and the packets are left out, since
`TraceControl` has both; in exchange the state the driver is in when a callback
comes, the threads of a process and the registrations are free. `DriverUnload`
breaks into the debugger, which stops a machine without one, and leaves the
callbacks registered. `fault` is what the driver has broken first, and ends the
behaviour.

The theorems about a module `M` are in **`MProofs`**; those about the sessions
and the ids of `TraceControl` are in **`SessionProofs`**, which builds on
**`TraceControlProofs`**. The `MC*` modules extend what a configuration
instantiates.

## 3. Runs

| run | specification | what it checks | distinct states |
|---|---|---|---|
| `packet_queue` | `PacketQueue`, fair | `OnePlace`, refinement of `PacketChannel`, `SignalledPacketsLeave` | 1 899 |
| `percore_sync` | `PerCoreSync`, fair | `WildNeedsFailure`, `RanOnceEverywhere`, `CallsReturn` | 23 167 |
| `session` | `TraceControl`, fair | one traced process on two processors with two PMIs: ids, `PausedResumes`, `CallbacksReturn` | 86 929 |
| `sessions` | `TraceControl` | the safety of two processes on one processor with a PMI and a failed allocation | 1 112 310 |
| `data_after_last` | `TraceControl` | violated: `NoDataAfterLast` | |
| `forwarder` | `KafkaForwarder`, fair | order, loss, use of destroyed producers, progress of retries and reports | 153 604 |
| `exit_command` | `KafkaForwarder`, fair | violated: `ExitExits` | |
| `decoder` | `StreamDecoder` | `DecodedExactlyOnce`, `EmptyCacheMeansInOrder` | 68 512 |
| `decode_order` | `StreamDecoder` | violated: `DecodedInSequence` | |
| `interpreter` | `PacketInterpreter` | `FramingKept`, `SwallowsOnlyCutStart`, `SuccessionComplete`, `StopsOnlyForCause` | 686 525 |
| `driver` | `DriverLifecycle` | `OverwriteNeedsCause`, `FaultNeedsCause`, `CapabilitiesAreReal`, `TracesTheProcess`, `TraceIsServed`: two processes, no call fails | 1 506 977 |
| `driver_failures` | `DriverLifecycle` | `FaultNeedsCause` with up to two failing calls and a second SETUP, for one process | 352 307 |

Each passing run also checks the type invariant of its module, except `session`
(`sessions` checks it) and `driver` (`driver_failures` does). `OutputMsrSafe`,
`BuffersInOrder`, `NoBufferLost`, `FirstPacketLeads` and `BugCheckNeedsRace` are
checked in `sessions` only. Every invariant of the passing runs, and the
refinement, is a theorem as well (section 4); the liveness properties are not.

### What they show

* `OnePlace` and `ImplementsChannel`: two racing requests never get the same
  descriptor, and the queue neither reorders nor drops. `SignalledPacketsLeave`
  states the liveness the code does have: a lost wake-up is made good by the
  next signal. Without further signals a packet may stay for ever, and the
  property says so in its condition.
* `OutputMsrSafe`: the test of `RunningStatus` in `IptUnlinkFullTopaBuffers` is
  enough to keep `IptDpc` from rewinding the output MSRs under a running
  trace. It is subtle because status and register are written apart and a PMI
  may fall between them.
* `BuffersInOrder`, `NoBufferLost`: every buffer the hardware filled is handed
  over, in the order of filling, and never the one that is being filled.
* `PausedResumes`: a trace that a PMI paused is on again, or its session has
  ended, with one window excepted. `IptEnableTrace` writes `TraceEn`, reads it
  back, and then records `ENABLED`. A PMI between the last two stops the trace
  and records `PAUSED`; the record of `IptEnableTrace` overwrites that, `IptDpc`
  then finds `ENABLED` and refuses, and the trace stays off until the next
  setup. The property is about the trace itself (`TraceEn`) and
  leaves out exactly the PMIs of this window (`pc # "markEnabled"`).
* `IdsIdentifyPackets`, `FirstPacketLeads`, `BugCheckNeedsRace`: the protocol of
  ids and sessions works as long as `raced` is false, that is as long as traced
  processes do not overlap and no `IptDpc` is left over behind a disable. The
  condition is part of the result: `sessions` has states in which it fails and
  the ids collide or setup faults. `session` has two processors that draw their
  ids from the same counters, `sessions` the counters carried from one session
  into the next; that the two together do no harm either is proved (section 4).
* `WildNeedsFailure`, `RanOnceEverywhere`, `CallsReturn`: a broadcast is sound
  unless an allocation fails in the middle of it.
* `ProducedOnceInOrder`, `LossNeedsFailure`, `FullQueuePasses`,
  `PolledIsReported`: the retry on a full queue neither duplicates nor drops,
  and ends.
* `DestroyedInUseNeedsCause`: there are two ways to a destroyed producer in use,
  and the run has states of both. The exit command passes its wait before the
  handle of any polling thread is stored; the thread may be running by then.
  Or two workers both find no handle, one creates the polling thread, and the
  other fails to create its own and stores NULL over the handle of the first; an
  exit then does not wait for the thread that polls. The second way needs two
  workers and a failed call. The property would also notice what clearing `gRun`
  alone would do: the exit would return, and the workers would go on with the
  destroyed producer.
* `DecodedExactlyOnce`, `EmptyCacheMeansInOrder`: the cached copy of a packet is
  never decoded again, and a gap that opens behind the FIRST packet of a
  sequence leaves a packet in its cache for as long as the list lives. A gap
  before it is forgotten, because a FIRST packet starts a new list: of the
  arrivals 2, FIRST, 1 the decoder has decoded 2 and 1 and caches nothing.
* `FramingKept`: as long as no packet is shorter than the header of the next
  one, each is handled once, in order, with its own bytes. The condition is
  needed, because `process_byte` never resets the current packet: while the
  header of a longer packet is read, the accumulator reaches the length of the
  packet before it, which is handled once more. After a one-byte packet (a TNT
  packet, an IP packet without an address) every packet whose header starts with
  the byte 02 is cut up in this way, and a PSB is after every packet except
  another PSB. Behind a MODE packet the bytes of a PSB reach the MODE handler,
  which raises. The run has states of both kinds.
* `SwallowsOnlyCutStart`: after the first recognised packet the accumulator
  never grows past the length of the current one, so the interpreter finds
  back into the trace after bytes it cannot place. Before it, a trace that does
  not start with a packet is swallowed without an end.
* `SuccessionComplete`: what `read_trace` takes is exactly what was handled
  outside of PSB ... PSBEND, across every point at which it takes it.
* `StopsOnlyForCause`: an uncut trace stops the decoder only by a packet without
  a time, an address that needs a last one, or a lost framing. The first is no
  rare case: a placeholder packet (overflow, for example) outside of PSB ...
  PSBEND has no time, and comparing it ends the decoder.
* `OverwriteNeedsCause`: the INT bit on the last entry but one leaves the
  handler a whole page of time, and nothing is overwritten within it, unless the
  interrupt was late or erased, the buffer had been used by an earlier session,
  a call had failed, or the table was built from garbage.
* `FaultNeedsCause`: on a processor with every feature, and as long as every
  call succeeds, these break the machine and nothing else does:
  * a thread of a process that is created while `PtwInit` runs;
  * two threads of a process between the test and the setting of
    `gThreadHoodked`;
  * traced processes that overlap;
  * a ToPA interrupt or an `IptDpc` that outlasts its process. The interrupt may
    be served, and the `IptDpc` may run, behind the disable DPC; either resumes
    the trace of a process that has ended, and the setup of the next one writes
    the configuration MSRs under a running trace. The `IptDpc` may be the second
    of two queued for one interrupt, with the reason already reset;
  * capabilities that a QUERY left unfilled;
  * the unload: at once where there is no debugger, or later through the
    callbacks it leaves, once there was a SETUP.

  Of a processor that lacks the filters or the multi-entry table the property
  says nothing: faults are met there. A call that fails adds two causes, the
  cleanup of `InitDevice` and an `OutputOptions` that was never set;
  `driver_failures` has them, and a failing call together with any of the above.
* `CapabilitiesAreReal`, `TracesTheProcess`, `TraceIsServed`: without the causes
  they name, what the driver believes of the hardware is true, the trace that is
  on filters for the process the callbacks react to, and there is a handler for
  its interrupts. Where the processor has no filters, `IptSetup` refuses and the
  driver turns the trace on all the same: it is then configured for no process,
  which `TracesTheProcess` says of those processors.

### Bounds

| bound | value | why it is enough |
|---|---|---|
| `Packets`, `Requests`, `Dpcs`, `Hooks` | 3, 2, 1, 1 | two requests race; three descriptors fill the queue beyond both; one producer of each kind, since the list is locked and the event idempotent |
| `NumCpus` | 2 (1 in `sessions`) | the order of two processors in a broadcast and of their packets; the races inside one processor need one |
| `Procs` | 1 or 2 | one session complete, or two that follow each other or overlap |
| `MaxPmis` | 2 (`session`), 1 (`sessions`) | a PMI inside the handling of another; one stale `IptDpc` carried into the next session; what a stale `IptDpc` does on two processors is not run |
| `MaxFailures` | 0 or 1 | one failure at every place; properties about failures do not count them |
| `MaxCalls`, `Threads` | 2, 2 | a loose DPC of the first call meets the second call of its thread while another thread broadcasts |
| `MaxSetups`, `MaxPackets`, `QueueMax` | 2, 3, 1 | two workers on one producer and a second producer that nobody polls; a full queue from the second message on |
| `SequenceIds`, `MaxId` | 2, 3 | every order of arrival of two interleaved sequences |
| `Packets`, `MaxPackets`, `MaxCuts` (`interpreter`) | 11, 4, 1 | a packet of each length and kind of handler and a padding byte; PSB, its contents, PSBEND and a packet behind them; every pair and triple of packets, and a cut at every byte of each |
| `HardwareKinds`, `Procs`, `Threads` (`driver`) | 5, 2, 2 | a processor for each branch on the capabilities; a process after or beside another, with two threads each; processes and threads are symmetric |
| `DEFAULT_NUMBER_OF_TOPA_ENTRIES` | 3 | the INT entry, one before it and one behind it; more entries before it add regions that behave alike |
| `MaxDpcs` (`driver`, `driver_failures`) | 2 | one `IptDpc` resets the reason and the other runs behind the disable DPC; a third does what the second does |
| `MaxSetups`, `MaxFailures` (`driver`) | 1, 0 | one registration of the image-load hook; its properties that speak of failures exclude them |
| `MaxSetups`, `MaxFailures`, `Procs` (`driver_failures`) | 2, 2, 1 | two registrations, of which one can fail; each pair of calls of the initialisation or of a session fails |

Deadlock is not checked where the system may stop: processes are gone, the
user types nothing, the topic is at its end, every request sleeps. Each
configuration says which.

### Fairness

* `PacketQueue`: a DPC that has enqueued goes on to signal, and a request runs
  on; the worker threads of the application ask again at once. Producers owe
  nothing.
* `PerCoreSync` and `TraceControl`: weak fairness of each processor for its PMI
  and its DPCs, since Windows runs them before any thread of the processor,
  and of a callback that has begun. Images, threads and exits may come or not.
* `KafkaForwarder`: weak fairness of each thread, of the broker (a message is
  acknowledged or times out) and of the command loop once a command has begun.
  `FullQueuePasses` is stated for a lone worker: with several, the others may
  take each free place first, and weak fairness does not prevent it.
* `StreamDecoder`, `PacketInterpreter` and `DriverLifecycle` have no liveness
  property and no fairness.

## 4. Proofs

Every safety invariant of the passing runs, and the refinement, is a theorem.

### Assumptions

The theorems hold for every value of the constants that satisfies the named
assumptions of the modules, and whatever the bounds on PMIs, calls, cuts and
failures. TLC evaluates each assumption in the run of its module.

* Bounds are naturals; `NoProc` and `None` are outside the sets they stand
  beside; signalling and silent producers are disjoint; a broadcast has a
  processor to go to.
* `OutputRegistersAssumption`: a ToPA table has two entries or more (the driver
  asks for more), and CPUID never reports the multi-entry ToPA without the ToPA,
  or a ToPA or a filter without Intel PT, as the manual has it.
* `TableAssumption`, about the packet table: there is a definition; names,
  headers and lengths are of their types, no header or length is 0; a header
  holds no padding byte; two definitions differ in a byte that both headers
  have. These are facts of the table in `IntelPacketDefinitions`, so TLC
  computes them from it.
* `PacketsAssumption`, about what the processor emits: a padding byte, or a
  whole packet of the table, with its length, and a MODE that exists. The proofs
  do not depend on the eleven packets of the run.

The proofs use the safety specifications: none depends on fairness.

### Theorems

| theorem | statement | argument |
|---|---|---|
| `PacketQueueProofs!TypeCorrect` | `[]TypeOK` | inductive, one step per action |
| `PacketQueueProofs!NeverInTwoPlaces` | `[]OnePlace` | inductive with the types: an enqueued descriptor is nowhere else, a dequeued one leaves the list |
| `PacketQueueProofs!QueueImplementsChannel` | `Spec => ImplementsChannel` | step simulation: enqueue is `Send`, a successful dequeue `Receive`, completion `Consume`, all others stutter |
| `PerCoreSyncProofs!SyncInvariant` | `[]SyncInv` | inductive |
| `PerCoreSyncProofs!TypeCorrect`, `FramesOutliveDpcs`, `SuccessMeansRanOnce` | `[]TypeOK`, `[]WildNeedsFailure`, `[]RanOnceEverywhere` | conjuncts of `SyncInv` |
| `TraceControlProofs!TypeCorrect` | `[]TypeOK` | inductive; the parts `SchedTypeOK`, `DtoTypeOK`, `RegTypeOK` say which routine is under way and when a packet is in hand |
| `TraceControlProofs!StatusTellsTrace` | `[]MsrInv` | inductive |
| `TraceControlProofs!OutputMsrsNeverFault` | `[]OutputMsrSafe` | from `MsrInv` |
| `TraceControlProofs!BufferInHandIsNewest` | `[]BufferInv` | inductive with the types |
| `TraceControlProofs!BuffersLeaveInOrder` | `[]BuffersInOrder` | from `BufferInv` |
| `TraceControlProofs!NoBufferIsLost` | `[]NoBufferLost` | inductive with types and `BufferInv`: failures only grow, queued packets stay queued |
| `SessionProofs!SessionInvariant` | `[]SessionInv` | inductive with the types and `MsrInv` |
| `SessionProofs!SuccessiveSessionsAreSafe`, `IdsIdentify`, `FirstLeads` | `[]BugCheckNeedsRace`, `[]IdsIdentifyPackets`, `[]FirstPacketLeads` | from `SessionInv` |
| `KafkaForwarderProofs!ForwardInvariant` | `[]ForwardInv` | inductive |
| `KafkaForwarderProofs!TypeCorrect`, `ProducedOnce`, `FullQueueLosesNone`, `DestroyNeedsCause` | `[]TypeOK`, `[]ProducedOnceInOrder`, `[]LossNeedsFailure`, `[]DestroyedInUseNeedsCause` | from `ForwardInv` |
| `StreamDecoderProofs!TypeCorrect` | `[]TypeOK` | inductive |
| `StreamDecoderProofs!ArrivalsDecodedOnce` | `[]DecodedExactlyOnce` | inductive form `DecodedInv`: what was decoded has arrived |
| `StreamDecoderProofs!GapsNoticed` | `[]EmptyCacheMeansInOrder`: gaps behind the FIRST packet | from `OrderInv`, inductive with the types and `DecodedInv` |
| `PacketInterpreterProofs!TypeCorrect`, `SwallowBounded` | `[]TypeOK`, `[]SwallowsOnlyCutStart` | inductive with `Bounded`, the first part of `SwallowsOnlyCutStart`; its second part with `FrameInv` |
| `PacketInterpreterProofs!PacketsFramed` | `[]FramingKept` | from `FrameInv`, inductive with the types |
| `PacketInterpreterProofs!NothingLost` | `[]SuccessionComplete` | from `HistoryInv`, inductive with the types |
| `PacketInterpreterProofs!StopsForCause` | `[]StopsOnlyForCause` | inductive with `FrameInv` and `HistoryInv` |
| `DriverLifecycleProofs!DriverInvariant` | `[]DriverInv` | inductive |
| `DriverLifecycleProofs!TypeCorrect`, `CapabilitiesReal`, `TraceServed`, `TracesProcess`, `OverwriteCaused`, `FaultCaused` | `[]TypeOK`, `[]CapabilitiesAreReal`, `[]TraceIsServed`, `[]TracesTheProcess`, `[]OverwriteNeedsCause`, `[]FaultNeedsCause` | from `DriverInv` |

TLC finds the inductive invariants to hold on the constants of the runs, as
INVARIANTs of a configuration whose module extends the proof module; no run of
`PROJECT.json` repeats it, since they are proved.

### The inductive invariants

*Why `MsrInv`.* `OutputMsrSafe` speaks of the moment in which `IptDpc` starts
with a status other than `ENABLED`; that the trace is off then follows from no
single step. `MsrInv` relates register and status at all times: the trace is on
only while the status says `ENABLED`, or while `IptEnableTrace` is between its
two writes, and a PMI in that window turns the trace off before it overwrites
the status. Since DPCs of one processor do not interleave, an `IptDpc` at its
start cannot see the window.

*Why `BufferInv`.* Order in the queue is decided when the buffer is unlinked,
several steps before the enqueue. `BufferInv` carries it over these steps: the
buffer in hand is newer than all queued ones of the processor and older than
the one being filled.

*Why `SyncInv`.* The caller returns when a counter equals the number of
processors, and the property is about the DPCs that counted. The counter must be
known as a number of DPCs: it is the cardinality of the processors the loop has
passed and on which the DPC of this call is no longer queued. That needs one DPC
per call and processor, each with its frame alive, which holds because a caller
whose counter is below the number of processors has not returned. After a failed
allocation a loose DPC may count into a later call, so the part about the
counters is stated until a dead frame has been used (`wild`), and the part about
the frames until an allocation has failed.

*Why `SessionInv`.* The ids are two global counters that nobody locks, so they
identify packets only if the writers take turns. `BroadcastInv` and `HookInv`
hold always: a hook that spins waits for DPCs of its own, and each DPC is at a
step of its routine. The rest holds while `raced` is false. `LiveInv` ties a
processor with a session to the one process that has set it up and not yet
disabled it, `OneInv` says that there is one process at a time. A callback that
increases the sequence id therefore meets no DPC with a packet in hand. `IdInv`
then follows the counters through the steps of stamping: no queued packet of the
sequence has an id at or above the counter (`SeqInv`), what is in hand has one
of its own and above those of its processor (`HandInv`), and the FIRST packet is
queued before the callbacks that lead to any other are registered (`FirstInv`,
while no allocation fails). The absence of a bug check is part of it and not a
consequence: setup meets a running trace exactly if the processor has a session
already, which `LiveInv` excludes for each setup DPC in a queue.

*Why `ForwardInv`.* A packet is produced again only if two workers hold it or
the worker that produced it has not moved on. `PacketInv` says that neither is
so over all steps from the hand-out to the freeing, `LossInv` that a worker that
frees a packet has sent it. For the destroyed producers the exit command must be
traced back to the workers: `ExitInv` says that it goes past its wait only if no
handle has ever been stored or one has been erased, and `StoreInv` that a stored
handle stays unless it was erased by a worker that came to `StartKafkaPolling`
beside another one and failed there.

*Why `EmptyCacheMeansInOrder` needs `OrderInv`.* The decoder compares a packet
id with the last one of the list. That an id in order is new takes the relation
of arrived, decoded and cached packets (`DecodedInv`). That the packets since the
FIRST one are exactly those up to the last id takes, in addition, that a
sequence without a list has decoded nothing (`KnownInv`), and where in `decoded`
each of its packets stands.

*Why `FrameInv`.* `process_byte` keeps no record of where it stands. `FrameInv`
says it for an uncut trace without a stale pair: between two packets (`Boundary`)
or within the last one (`Within`), whose first bytes are the accumulator and
whose definition is the current packet or still a candidate. Between packets the
current packet is the one before (`CurrentIsLast`): this is where the length of
the next header comes in, since the accumulator must not reach the length of the
old packet before the header is complete. `UnknownFirst` covers the bytes before
the first packet is recognised, where the candidates may be used up.

*Why `HistoryInv`.* It holds of every trace, however it is cut. The context of
the handlers is a function of the calls so far (`ContextInv`), and entry number
n of what was taken and what is waiting is that of the n-th call outside of a
PSB group, as counted by cardinality (`InOrder`). `StopsOnlyForCause` needs it to
name the call that left an entry without a time, and `FrameInv` to say that a
handler that raises was given the bytes of its own packet.

*Why `DriverInv` is one invariant.* Its parts need each other. A fault is
excluded by what is known of the capabilities, of the output structure and of
the one thread that may set up the trace; these in turn are known only while
there is no fault, no earlier QUERY, no failed call and no overlap, each part
under its own conditions. `ClaimInv` counts an `IptDpc` in the queue as a trace
that is on, as it will turn it on: without it a setup could not know that the
registers stay quiet. `TraceInv` says the same of the handler and of the
configured process. `FillInv` is the count behind `OverwriteNeedsCause`:
how far the hardware is follows from how many regions it has filled since the
interrupt, for a table of any size.

### What is only model-checked

The liveness properties: `SignalledPacketsLeave`, `CallsReturn`,
`PausedResumes`, `CallbacksReturn`, `FullQueuePasses` and `PolledIsReported`.
Fairness and ENABLED are outside what the prover handles. What a recursive
definition computes for all inputs would be outside it too (it takes induction
over data); no module here has one. The positions of `SuccessionComplete` are
cardinalities for this reason: they are what a recursive filter would count.

The three disagreements below are counterexamples, and TLC's alone.

## 5. Disagreements found

* `NoDataAfterLast`. The header bit `LastPacket` and the message of the
  application (`UM/Commands.c:462`) say that the packet is the last of its
  sequence from that processor. A PMI taken after the insertion of the disable
  DPC and before its first instruction queues `IptDpc` behind it; that DPC sends
  a DATA packet of the same sequence and turns the trace on again.
* `ExitExits`. The help text says that `exit` "exits the application"
  (`UM/UserInterface.c:58`). The command waits for a thread that runs while
  `gRun` is set, and nothing clears `gRun`; before the first message it returns
  to a command loop without an end.
* `DecodedInSequence`. The decoder reports that it caches an out-of-order packet
  (`TraceDecoder/TraceDecoder.py:51`) and decodes it at once all the same.

Behaviour without a line that promises otherwise is not run as a disagreement:
the packet that is handled again while the next header is read, the interpreter
that swallows a trace which does not start with a packet, the requests served
before `PtwInit` has ended. Section 3 describes it under the properties that
name it, and `PROJECT.json` lists it under the hazards.

## 6. What the models leave out

In modelled components:

* The allocations of KDPCs in broadcasts and the registrations of callbacks
  succeed in `TraceControl`; `PerCoreSync` has the failing allocation.
* In `TraceControl`, SETUP reaches the driver once, its configuration is one the
  processor supports, and one thread of a traced process is created at a time.
  `DriverLifecycle` has the rest, on one processor and with a broadcast in one
  step. A second SETUP registers the image-load hook again (`MaxSetups`): each
  image then opens two sequences, of which the first never gets a packet but the
  FIRST one; nothing in the repository says otherwise.
* Operational errors of the trace hardware, so that `TriggerEn` equals
  `TraceEn`; spurious alerts of waits; the wrap-around of the ids (2^32 and
  2^64 packets).
* The PMI handler is one step, except for its test and reset of the reason,
  which the hardware can come between.
* The contents of buffers. `OutputRegisters` has which regions of the linked
  buffer are filled, not what is in them; the size in a packet
  (`ProcessorTrace.c:281`, too small by up to half) is left out because the
  application copies ten pages whatever it says.
* In `DriverLifecycle`: the options of the configuration other than the CR3 and
  range filters (the driver asks for none that every processor with Intel PT
  lacks), the address ranges themselves, GET_BUFFER and FREE_BUFFER (in
  `PacketQueue`; a queue that `DuQueueInit` did not create refuses them), the
  commands that change nothing, and the hardware after a fault or an unload.
* In `PacketInterpreter`: addresses, times and branch outcomes themselves. The
  outcomes of one TNT packet are one entry. The extended TNT packet yields no
  outcomes of its own payload, which the source has as a TODO.
* Duplicates in the topic. The producer is not configured as idempotent, so a
  retry inside librdkafka can put a message into the topic twice, or behind a
  later one. `StreamDecoder` has every order of arrival but delivers each
  message once; of a second copy nothing is claimed.
* In the application: failed waits on events, the commands that only print, and
  the reading of the configuration file. In the decoder: statistics and plots,
  except that they can raise.

Not modelled: `IptUninit`, `IptUninitOutputStructure`, `PtwHookImageLoadCodeBase`
and `DuEnqueueElements` (no caller); that `DuGetSequenceId` waits for a mutex in
a DPC (illegal at DISPATCH_LEVEL whatever the interleaving); the allocation
helpers (one kernel call each); the sample program; librdkafka beyond what
`KafkaForwarder` assumes of it.

## 7. Plan

Done: the core, in the order of importance for the driver (`TraceControl` with
`CoreTrace`, `PacketQueue`, `PerCoreSync`) and the two consumers at the level of
packets (`KafkaForwarder`, `StreamDecoder`); then the bytes of the trace
(`PacketInterpreter`) and the driver around the trace (`OutputRegisters`,
`DriverLifecycle`).

Done since: the proof of every safety invariant and of the refinement.

Next proofs: action properties from the inductive invariants at hand (the ids
and the capabilities never go back within a session, a packet that was handed
out is never touched again), and the steps towards the liveness properties that
are safety: that a processor which is paused has the DPC that resumes it in its
queue, and that a caller which spins waits for DPCs that are queued.

Next module: `TraceDriver`, `TraceControl` composed with `PacketQueue`, so that
the packets of the DPCs are the ones the requests get; then the queue of
`KafkaForwarder` as its reader.
