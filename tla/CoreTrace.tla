----------------------------- MODULE CoreTrace -----------------------------
(***************************************************************************)
(* Intel PT on each logical processor: the trace hardware as the driver    *)
(* sees it, the performance monitoring interrupt (PMI) and the deferred    *)
(* procedure calls (DPCs) that run on the processor.                       *)
(*                                                                         *)
(* A processor runs its DPCs one at a time, in the order of their          *)
(* insertion; the head of dpcQueue is the one that runs.  A PMI preempts a *)
(* DPC between any two steps and delays it while it runs.  Processors      *)
(* interleave freely.  A DPC step is a stretch of code without a shared    *)
(* read or write that another processor or a PMI can interleave with.      *)
(*                                                                         *)
(* A trace buffer (MDL) is named by its number in the order the processor  *)
(* allocated it: the hardware of c fills buffer topaMdl[c].  Operational   *)
(* errors of the trace hardware are not modelled, so TriggerEn = TraceEn.  *)
(***************************************************************************)
EXTENDS Naturals, Sequences

CONSTANTS NumCpus,      \* logical processors
          Procs,        \* traced processes, each with at most two broadcasts
          NoProc,       \* "no process"
          MaxPmis,      \* bound on the PMIs the hardware raises
          MaxFailures   \* bound on the allocations that fail

ASSUME CoreTraceAssumption ==
  /\ NumCpus \in Nat
  /\ NoProc \notin Procs
  /\ MaxPmis \in Nat /\ MaxFailures \in Nat

Cpus == 0..(NumCpus - 1)

VARIABLES
  traceEn,      \* IA32_RTIT_CTL.TraceEn of each processor
  topaPmi,      \* IA32_PERF_GLOBAL_STATUS.TopaPMI of each processor
  pmiPending,   \* a PMI waits to be delivered to the processor
  pmiPc,        \* where the processor's PMI handler is
  running,      \* CpuOptions->RunningStatus
  topaMdl,      \* CpuOptions->TopaMdl
  dpcQueue,     \* DPCs inserted for the processor, the running one first
  pc,           \* where the running DPC is
  dto,          \* packet the running DPC is making, or NoDto
  dpcCount,     \* DpcCounter of the broadcast of each process
  pmiHandler,   \* IptPmiHandler is installed in the HAL
  seqId,        \* gDriverData.SequenceIdCounter
  packetId,     \* gDriverData.PacketIdCounter
  queue,        \* every packet put into gQueueHead so far, in order
  bugCheck,     \* an MSR write with TraceEn set has faulted
  pmis,         \* PMIs raised so far
  failures,     \* allocations failed so far
  live,         \* history: set up and not disabled since
  raced         \* history: two traced processes overlapped, or IptDpc ran
                \* on a processor outside a setup-disable session

hwVars == <<traceEn, topaPmi, pmiPending, pmiPc, pmis>>
idVars == <<seqId, packetId>>
coreVars == <<traceEn, topaPmi, pmiPending, pmiPc, running, topaMdl, dpcQueue, pc, dto,
              dpcCount, pmiHandler, seqId, packetId, queue, bugCheck, pmis, failures,
              live, raced>>

Dpc(routine, owner) == [routine |-> routine, owner |-> owner]

Packet(kind, c, m) == [kind |-> kind, cpu |-> c, mdl |-> m, seq |-> 0, id |-> 0]

NoDto == Packet("none", 0, 0)

CoreInit ==
  /\ traceEn = [c \in Cpus |-> FALSE]
  /\ topaPmi = [c \in Cpus |-> FALSE]
  /\ pmiPending = [c \in Cpus |-> FALSE]
  /\ pmiPc = [c \in Cpus |-> "idle"]
  /\ running = [c \in Cpus |-> "INITIALIZED"]
  /\ topaMdl = [c \in Cpus |-> 0]
  /\ dpcQueue = [c \in Cpus |-> <<>>]
  /\ pc = [c \in Cpus |-> "idle"]
  /\ dto = [c \in Cpus |-> NoDto]
  /\ dpcCount = [p \in Procs |-> 0]
  /\ pmiHandler = FALSE
  /\ seqId = 0 /\ packetId = 0
  /\ queue = <<>>
  /\ bugCheck = FALSE
  /\ pmis = 0 /\ failures = 0
  /\ live = [c \in Cpus |-> FALSE]
  /\ raced = FALSE

-----------------------------------------------------------------------------
(* The hardware.                                                           *)

\* The ToPA entry with the INT bit fills up.
HwTopaInt(c) ==
  /\ traceEn[c] /\ pmis < MaxPmis
  /\ topaPmi' = [topaPmi EXCEPT ![c] = TRUE]
  /\ pmiPending' = [pmiPending EXCEPT ![c] = TRUE]
  /\ pmis' = pmis + 1
  /\ UNCHANGED <<traceEn, pmiPc, running, topaMdl, dpcQueue, pc, dto, dpcCount, pmiHandler,
                 seqId, packetId, queue, bugCheck, failures, live, raced>>

\* A performance counter overflows: a PMI with another reason.
HwOtherPmi(c) ==
  /\ pmis < MaxPmis
  /\ pmiPending' = [pmiPending EXCEPT ![c] = TRUE]
  /\ pmis' = pmis + 1
  /\ UNCHANGED <<traceEn, topaPmi, pmiPc, running, topaMdl, dpcQueue, pc, dto, dpcCount,
                 pmiHandler, seqId, packetId, queue, bugCheck, failures, live, raced>>

-----------------------------------------------------------------------------
(* The PMI handler.  It runs above DISPATCH_LEVEL: no DPC step of the      *)
(* processor falls into it.                                                *)

\* The HAL's own handler takes the interrupt while ours is not installed.
PmiDismissed(c) ==
  /\ pmiPending[c] /\ ~pmiHandler /\ pmiPc[c] = "idle"
  /\ pmiPending' = [pmiPending EXCEPT ![c] = FALSE]
  /\ UNCHANGED <<traceEn, topaPmi, pmiPc, running, topaMdl, dpcQueue, pc, dto, dpcCount,
                 pmiHandler, seqId, packetId, queue, bugCheck, pmis, failures, live, raced>>

\* IptTopaPmiReason is false ...
PmiForeign(c) ==
  /\ pmiPending[c] /\ pmiHandler /\ pmiPc[c] = "idle"
  /\ ~topaPmi[c]
  /\ pmiPending' = [pmiPending EXCEPT ![c] = FALSE]
  /\ pmiPc' = [pmiPc EXCEPT ![c] = "reset"]
  /\ UNCHANGED <<traceEn, topaPmi, running, topaMdl, dpcQueue, pc, dto, dpcCount,
                 pmiHandler, seqId, packetId, queue, bugCheck, pmis, failures, live, raced>>

\* ... and IptResetPmi clears the ToPA reason all the same.
PmiForeignReset(c) ==
  /\ pmiPc[c] = "reset"
  /\ topaPmi' = [topaPmi EXCEPT ![c] = FALSE]
  /\ pmiPc' = [pmiPc EXCEPT ![c] = "idle"]
  /\ UNCHANGED <<traceEn, pmiPending, running, topaMdl, dpcQueue, pc, dto, dpcCount,
                 pmiHandler, seqId, packetId, queue, bugCheck, pmis, failures, live, raced>>

\* Faulty variant: the trace is marked as paused but not stopped.
PauseWithoutStop(c) ==
  /\ pmiPending[c] /\ pmiHandler /\ pmiPc[c] = "idle"
  /\ topaPmi[c]
  /\ pmiPending' = [pmiPending EXCEPT ![c] = FALSE]
  /\ running' = [running EXCEPT ![c] = "PAUSED"]
  /\ dpcQueue' = [dpcQueue EXCEPT ![c] = Append(@, Dpc("IptDpc", NoProc))]
  /\ UNCHANGED <<traceEn, topaPmi, pmiPc, topaMdl, pc, dto, dpcCount, pmiHandler, seqId,
                 packetId, queue, bugCheck, pmis, failures, live, raced>>

\* The ToPA reason: pause the trace and queue IptDpc behind the DPCs the
\* processor already has; without a KDPC the trace stays paused.
PmiPause(c) ==
  /\ pmiPending[c] /\ pmiHandler /\ pmiPc[c] = "idle"
  /\ topaPmi[c]
  /\ pmiPending' = [pmiPending EXCEPT ![c] = FALSE]
  /\ traceEn' = [traceEn EXCEPT ![c] = FALSE]
  /\ running' = [running EXCEPT ![c] = "PAUSED"]
  /\ \/ /\ dpcQueue' = [dpcQueue EXCEPT ![c] = Append(@, Dpc("IptDpc", NoProc))]
        /\ UNCHANGED failures
     \/ /\ failures < MaxFailures
        /\ failures' = failures + 1
        /\ UNCHANGED dpcQueue
  /\ UNCHANGED <<topaPmi, pmiPc, topaMdl, pc, dto, dpcCount, pmiHandler, seqId, packetId,
                 queue, bugCheck, pmis, live, raced>>

IptPmiHandler(c) ==
  PmiDismissed(c) \/ PmiForeign(c) \/ PmiForeignReset(c) \/ PmiPause(c)

-----------------------------------------------------------------------------
(* Steps the DPC routines share.                                           *)

\* The DPC at the head of the processor's queue is at step l of its routine.
At(c, routine, l) ==
  /\ dpcQueue[c] # <<>> /\ Head(dpcQueue[c]).routine = routine
  /\ pc[c] = l
  /\ pmiPc[c] = "idle"

Goto(c, l) == pc' = [pc EXCEPT ![c] = l]

Continue(c, l) == Goto(c, l) /\ UNCHANGED <<dpcQueue, dpcCount>>

\* Faulty variant: the broadcast DPC is not counted.
ReturnUncounted(c) ==
  /\ Goto(c, "idle")
  /\ dpcQueue' = [dpcQueue EXCEPT ![c] = Tail(@)]
  /\ UNCHANGED dpcCount

\* The routine returns; IptGenericDpcFunction counts a broadcast one.
Return(c) ==
  LET owner == Head(dpcQueue[c]).owner IN
  /\ Goto(c, "idle")
  /\ dpcQueue' = [dpcQueue EXCEPT ![c] = Tail(@)]
  /\ dpcCount' = IF owner = NoProc THEN dpcCount
                 ELSE [dpcCount EXCEPT ![owner] = @ + 1]

\* An allocation fails.
Fail == failures < MaxFailures /\ failures' = failures + 1

\* DuGetSequenceId into the packet in hand.
StampSeq(c, routine, from, to) ==
  /\ At(c, routine, from)
  /\ dto' = [dto EXCEPT ![c].seq = seqId]
  /\ Continue(c, to)
  /\ UNCHANGED <<hwVars, idVars, running, topaMdl, pmiHandler, queue, bugCheck, failures,
                 live, raced>>

\* Faulty variant: an increment is lost.
StampSameId(c, routine, from, to) ==
  /\ At(c, routine, from)
  /\ dto' = [dto EXCEPT ![c].id = packetId]
  /\ Continue(c, to)
  /\ UNCHANGED <<hwVars, idVars, running, topaMdl, pmiHandler, queue, bugCheck, failures,
                 live, raced>>

\* DuGetPacketId (an interlocked increment) into the packet in hand.
StampId(c, routine, from, to) ==
  /\ At(c, routine, from)
  /\ dto' = [dto EXCEPT ![c].id = packetId]
  /\ packetId' = packetId + 1
  /\ Continue(c, to)
  /\ UNCHANGED <<hwVars, seqId, running, topaMdl, pmiHandler, queue, bugCheck, failures,
                 live, raced>>

\* DuEnqueueElement and, after it, KeSetEvent; the packet is lost when the
\* list element cannot be allocated.
EnqueueDto(c) ==
  /\ dto' = [dto EXCEPT ![c] = NoDto]
  /\ \/ queue' = Append(queue, dto[c]) /\ UNCHANGED failures
     \/ Fail /\ UNCHANGED queue

\* IptEnableTrace sets TraceEn ...
WriteEnable(c, routine) ==
  /\ At(c, routine, "writeEnable")
  /\ traceEn' = [traceEn EXCEPT ![c] = TRUE]
  /\ Continue(c, "checkEnable")
  /\ UNCHANGED <<idVars, topaPmi, pmiPending, pmiPc, pmis, running, topaMdl, dto, pmiHandler,
                 queue, bugCheck, failures, live, raced>>

\* ... reads back whether the trace is on, and gives up if it is not ...
CheckEnable(c, routine) ==
  /\ At(c, routine, "checkEnable")
  /\ IF traceEn[c] THEN Continue(c, "markEnabled") ELSE Return(c)
  /\ UNCHANGED <<hwVars, idVars, running, topaMdl, dto, pmiHandler, queue, bugCheck,
                 failures, live, raced>>

\* ... and records that it runs.
MarkEnabled(c, routine) ==
  /\ At(c, routine, "markEnabled")
  /\ running' = [running EXCEPT ![c] = "ENABLED"]
  /\ Return(c)
  /\ UNCHANGED <<hwVars, idVars, topaMdl, dto, pmiHandler, queue, bugCheck, failures,
                 live, raced>>

IptEnableTrace(c, routine) ==
  WriteEnable(c, routine) \/ CheckEnable(c, routine) \/ MarkEnabled(c, routine)

-----------------------------------------------------------------------------
(* PtwIpiPerCoreSetup: IptSetup, then IptEnableTrace.                      *)

\* The configuration MSRs may be written only while TraceEn is clear.  The
\* configuration the hook asks for is one the processor supports.
SetupConfigure(c) ==
  /\ At(c, "PtwIpiPerCoreSetup", "idle")
  /\ IF traceEn[c]
     THEN /\ bugCheck' = TRUE
          /\ UNCHANGED <<pc, dpcQueue, dpcCount, live>>
     ELSE /\ Continue(c, "writeEnable")
          /\ live' = [live EXCEPT ![c] = TRUE]
          /\ UNCHANGED bugCheck
  /\ UNCHANGED <<hwVars, idVars, running, topaMdl, dto, pmiHandler, queue, failures, raced>>

PtwIpiPerCoreSetup(c) ==
  SetupConfigure(c) \/ IptEnableTrace(c, "PtwIpiPerCoreSetup")

-----------------------------------------------------------------------------
(* IptDpc: unlink the full buffer, send it as a DATA packet, resume.       *)

\* IptUnlinkFullTopaBuffers refuses while the trace is marked as running.
DpcRefused(c) ==
  /\ At(c, "IptDpc", "idle")
  /\ running[c] = "ENABLED"
  /\ Return(c)
  /\ raced' = (raced \/ ~live[c])
  /\ UNCHANGED <<hwVars, idVars, running, topaMdl, dto, pmiHandler, queue, bugCheck,
                 failures, live>>

\* Faulty variant: AllocateNewTopa = FALSE, the full buffer stays linked.
UnlinkWithoutNew(c) ==
  /\ At(c, "IptDpc", "idle")
  /\ running[c] # "ENABLED"
  /\ raced' = (raced \/ ~live[c])
  /\ dto' = [dto EXCEPT ![c] = Packet("data", c, topaMdl[c])]
  /\ Continue(c, "dataSeq")
  /\ UNCHANGED <<hwVars, idVars, running, topaMdl, pmiHandler, queue, bugCheck, failures, live>>

\* Faulty variant: TopaMdl is read after the new buffer has replaced it.
UnlinkNewest(c) ==
  /\ At(c, "IptDpc", "idle")
  /\ running[c] # "ENABLED"
  /\ raced' = (raced \/ ~live[c])
  /\ topaMdl' = [topaMdl EXCEPT ![c] = @ + 1]
  /\ dto' = [dto EXCEPT ![c] = Packet("data", c, topaMdl[c] + 1)]
  /\ Continue(c, "dataSeq")
  /\ UNCHANGED <<hwVars, idVars, running, pmiHandler, queue, bugCheck, failures, live>>

\* A new buffer is linked in and the output MSRs are rewound, which faults
\* while TraceEn is set.  Without pages the old buffer stays and the routine
\* returns; without a descriptor the old buffer is forgotten.
DpcUnlink(c) ==
  /\ At(c, "IptDpc", "idle")
  /\ running[c] # "ENABLED"
  /\ raced' = (raced \/ ~live[c])
  /\ IF traceEn[c]
     THEN /\ bugCheck' = TRUE
          /\ UNCHANGED <<topaMdl, dto, pc, dpcQueue, dpcCount, failures>>
     ELSE /\ UNCHANGED bugCheck
          /\ \/ /\ topaMdl' = [topaMdl EXCEPT ![c] = @ + 1]
                /\ dto' = [dto EXCEPT ![c] = Packet("data", c, topaMdl[c])]
                /\ Continue(c, "dataSeq")
                /\ UNCHANGED failures
             \/ /\ topaMdl' = [topaMdl EXCEPT ![c] = @ + 1]
                /\ Fail
                /\ Return(c)
                /\ UNCHANGED dto
             \/ /\ Fail
                /\ Return(c)
                /\ UNCHANGED <<topaMdl, dto>>
  /\ UNCHANGED <<hwVars, idVars, running, pmiHandler, queue, live>>

DpcEnqueue(c) ==
  /\ At(c, "IptDpc", "dataEnqueue")
  /\ EnqueueDto(c)
  /\ Continue(c, "resetPmi")
  /\ UNCHANGED <<hwVars, idVars, running, topaMdl, pmiHandler, bugCheck, live, raced>>

\* Faulty variant: the trace is not resumed.
ResumeForgotten(c) ==
  /\ At(c, "IptDpc", "resetPmi")
  /\ topaPmi' = [topaPmi EXCEPT ![c] = FALSE]
  /\ Return(c)
  /\ UNCHANGED <<traceEn, pmiPending, pmiPc, pmis, idVars, running, topaMdl, dto,
                 pmiHandler, queue, bugCheck, failures, live, raced>>

\* IptResetPmi, and IptResumeTrace's test of the trace.
DpcResume(c) ==
  /\ At(c, "IptDpc", "resetPmi")
  /\ topaPmi' = [topaPmi EXCEPT ![c] = FALSE]
  /\ IF traceEn[c] THEN Return(c) ELSE Continue(c, "writeEnable")
  /\ UNCHANGED <<traceEn, pmiPending, pmiPc, pmis, idVars, running, topaMdl, dto,
                 pmiHandler, queue, bugCheck, failures, live, raced>>

IptDpc(c) ==
  \/ DpcRefused(c)
  \/ DpcUnlink(c)
  \/ StampSeq(c, "IptDpc", "dataSeq", "dataId")
  \/ StampId(c, "IptDpc", "dataId", "dataEnqueue")
  \/ DpcEnqueue(c)
  \/ DpcResume(c)
  \/ IptEnableTrace(c, "IptDpc")

-----------------------------------------------------------------------------
(* PtwDpcPerCoreDisable: IptDisableTrace, then send the buffer the         *)
(* hardware was filling as the LAST packet of the processor.               *)

\* Faulty variant: TraceEn stays set.
DisableWithoutClear(c) ==
  /\ At(c, "PtwDpcPerCoreDisable", "idle")
  /\ live' = [live EXCEPT ![c] = FALSE]
  /\ Continue(c, "collect")
  /\ UNCHANGED <<hwVars, idVars, running, topaMdl, dto, pmiHandler, queue, bugCheck,
                 failures, raced>>

DisableClear(c) ==
  /\ At(c, "PtwDpcPerCoreDisable", "idle")
  /\ traceEn' = [traceEn EXCEPT ![c] = FALSE]
  /\ live' = [live EXCEPT ![c] = FALSE]
  /\ Continue(c, "collect")
  /\ UNCHANGED <<idVars, topaPmi, pmiPending, pmiPc, pmis, running, topaMdl, dto,
                 pmiHandler, queue, bugCheck, failures, raced>>

\* The buffer is handed over and stays linked.
DisableCollect(c) ==
  /\ At(c, "PtwDpcPerCoreDisable", "collect")
  /\ running' = [running EXCEPT ![c] = "INITIALIZED"]
  /\ \/ /\ dto' = [dto EXCEPT ![c] = Packet("last", c, topaMdl[c])]
        /\ Continue(c, "lastId")
        /\ UNCHANGED failures
     \/ /\ Fail
        /\ Return(c)
        /\ UNCHANGED dto
  /\ UNCHANGED <<hwVars, idVars, topaMdl, pmiHandler, queue, bugCheck, live, raced>>

DisableEnqueue(c) ==
  /\ At(c, "PtwDpcPerCoreDisable", "lastEnqueue")
  /\ EnqueueDto(c)
  /\ Return(c)
  /\ UNCHANGED <<hwVars, idVars, running, topaMdl, pmiHandler, bugCheck, live, raced>>

PtwDpcPerCoreDisable(c) ==
  \/ DisableClear(c)
  \/ DisableCollect(c)
  \/ StampId(c, "PtwDpcPerCoreDisable", "lastId", "lastSeq")
  \/ StampSeq(c, "PtwDpcPerCoreDisable", "lastSeq", "lastEnqueue")
  \/ DisableEnqueue(c)

-----------------------------------------------------------------------------
RunDpc(c) == PtwIpiPerCoreSetup(c) \/ IptDpc(c) \/ PtwDpcPerCoreDisable(c)

CoreNext(c) == HwTopaInt(c) \/ HwOtherPmi(c) \/ IptPmiHandler(c) \/ RunDpc(c)
-----------------------------------------------------------------------------
PacketType == [kind : {"first", "data", "last"}, cpu : Nat, mdl : Nat, seq : Nat, id : Nat]

DpcType == [routine : {"PtwIpiPerCoreSetup", "IptDpc", "PtwDpcPerCoreDisable"},
            owner : Procs \cup {NoProc}]

DataSteps == {"dataSeq", "dataId", "dataEnqueue"}
LastSteps == {"lastId", "lastSeq", "lastEnqueue"}
PcLabels == {"idle", "writeEnable", "checkEnable", "markEnabled", "resetPmi", "collect"}
              \cup DataSteps \cup LastSteps

\* A routine is under way only while its DPC is at the head of the queue.
SchedTypeOK ==
  /\ dpcQueue \in [Cpus -> Seq(DpcType)]
  /\ pc \in [Cpus -> PcLabels]
  /\ \A c \in Cpus : pc[c] # "idle" => dpcQueue[c] # <<>>
  /\ dpcCount \in [Procs -> Nat]

\* A packet is in hand exactly between the allocation of the descriptor and
\* the enqueue, and fits the routine.
DtoTypeOK ==
  /\ dto \in [Cpus -> PacketType \cup {NoDto}]
  /\ \A c \in Cpus : /\ pc[c] \in DataSteps => dto[c].kind = "data"
                     /\ pc[c] \in LastSteps => dto[c].kind = "last"
                     /\ pc[c] \notin DataSteps \cup LastSteps => dto[c] = NoDto

\* The registers, counters and flags.
RegTypeOK ==
  /\ traceEn \in [Cpus -> BOOLEAN]
  /\ topaPmi \in [Cpus -> BOOLEAN]
  /\ pmiPending \in [Cpus -> BOOLEAN]
  /\ pmiPc \in [Cpus -> {"idle", "reset"}]
  /\ running \in [Cpus -> {"INITIALIZED", "PAUSED", "ENABLED"}]
  /\ topaMdl \in [Cpus -> Nat]
  /\ pmiHandler \in BOOLEAN
  /\ seqId \in Nat /\ packetId \in Nat
  /\ queue \in Seq(PacketType)
  /\ bugCheck \in BOOLEAN
  /\ pmis \in Nat /\ failures \in Nat
  /\ live \in [Cpus -> BOOLEAN]
  /\ raced \in BOOLEAN

CoreTypeOK == SchedTypeOK /\ DtoTypeOK /\ RegTypeOK
=============================================================================
