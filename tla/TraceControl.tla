---------------------------- MODULE TraceControl ----------------------------
(***************************************************************************)
(* The tracing life cycle of ProcessorTraceWindowsControl.c: the image-load, *)
(* thread-creation and process-exit callbacks that start and stop a trace, *)
(* over the per-processor work of CoreTrace.                               *)
(*                                                                         *)
(* A process of Procs runs TracedApp.exe.  Its image load opens a packet   *)
(* sequence, sends the FIRST packet and registers the other two callbacks; *)
(* the first thread it creates then broadcasts PtwIpiPerCoreSetup; its     *)
(* exit broadcasts PtwDpcPerCoreDisable.  The callbacks of one process     *)
(* follow each other, those of different processes interleave at every     *)
(* access to the global state.                                             *)
(***************************************************************************)
EXTENDS CoreTrace

VARIABLES
  hookPc,        \* where each process is in its callbacks
  hookDto,       \* sequence and packet id of the FIRST packet being made
  insertCpu,     \* next processor the broadcast of the process inserts a DPC for
  gProcessId,    \* the process the callbacks react to, or NoProc
  gThreadHoodked,  \* a thread of it has started the trace
  threadHooks,   \* registrations of PtwHookThreadCreation
  exitHook       \* PtwHookProcessExit is registered

hookVars == <<hookPc, hookDto, insertCpu, gProcessId, gThreadHoodked, threadHooks, exitHook>>
vars == <<coreVars, hookVars>>

HookGoto(p, l) == hookPc' = [hookPc EXCEPT ![p] = l]

Init ==
  /\ CoreInit
  /\ hookPc = [p \in Procs |-> "unloaded"]
  /\ hookDto = [p \in Procs |-> [seq |-> 0, id |-> 0]]
  /\ insertCpu = [p \in Procs |-> 0]
  /\ gProcessId = NoProc
  /\ gThreadHoodked = FALSE
  /\ threadHooks = 0
  /\ exitHook = FALSE

-----------------------------------------------------------------------------
(* PtwHookImageLoadCr3.                                                    *)

ImageLoad(p) ==
  /\ hookPc[p] = "unloaded"
  /\ gProcessId' = p
  /\ raced' = (raced \/ \E q \in Procs \ {p} : hookPc[q] \notin {"unloaded", "gone"})
  /\ HookGoto(p, "increase")
  /\ UNCHANGED <<hwVars, idVars, running, topaMdl, dpcQueue, pc, dto, dpcCount, pmiHandler,
                 queue, bugCheck, failures, live,
                 hookDto, insertCpu, gThreadHoodked, threadHooks, exitHook>>

\* DuIncreaseSequenceId.
IncreaseSequenceId(p) ==
  /\ hookPc[p] = "increase"
  /\ seqId' = seqId + 1
  /\ HookGoto(p, "reset")
  /\ UNCHANGED <<hwVars, packetId, running, topaMdl, dpcQueue, pc, dto, dpcCount, pmiHandler,
                 queue, bugCheck, failures, live, raced,
                 hookDto, insertCpu, gProcessId, gThreadHoodked, threadHooks, exitHook>>

\* Faulty variant: the packet ids of the previous sequence go on.
ResetForgotten(p) ==
  /\ hookPc[p] = "reset"
  /\ HookGoto(p, "stampSeq")
  /\ UNCHANGED <<coreVars, hookDto, insertCpu, gProcessId, gThreadHoodked, threadHooks,
                 exitHook>>

\* PacketIdCounter = 0, then the descriptor is allocated; without one the
\* callback returns and registers nothing.
ResetPacketId(p) ==
  /\ hookPc[p] = "reset"
  /\ packetId' = 0
  /\ \/ HookGoto(p, "stampSeq") /\ UNCHANGED failures
     \/ HookGoto(p, "loaded") /\ Fail
  /\ UNCHANGED <<hwVars, seqId, running, topaMdl, dpcQueue, pc, dto, dpcCount, pmiHandler,
                 queue, bugCheck, live, raced,
                 hookDto, insertCpu, gProcessId, gThreadHoodked, threadHooks, exitHook>>

FirstSeq(p) ==
  /\ hookPc[p] = "stampSeq"
  /\ hookDto' = [hookDto EXCEPT ![p].seq = seqId]
  /\ HookGoto(p, "stampId")
  /\ UNCHANGED <<coreVars, insertCpu, gProcessId, gThreadHoodked, threadHooks, exitHook>>

FirstId(p) ==
  /\ hookPc[p] = "stampId"
  /\ hookDto' = [hookDto EXCEPT ![p].id = packetId]
  /\ packetId' = packetId + 1
  /\ HookGoto(p, "enqueue")
  /\ UNCHANGED <<hwVars, seqId, running, topaMdl, dpcQueue, pc, dto, dpcCount, pmiHandler,
                 queue, bugCheck, failures, live, raced,
                 insertCpu, gProcessId, gThreadHoodked, threadHooks, exitHook>>

\* The FIRST packet is queued without a signal; a failure is ignored.
FirstEnqueue(p) ==
  /\ hookPc[p] = "enqueue"
  /\ \/ /\ queue' = Append(queue, [kind |-> "first", cpu |-> 0, mdl |-> 0,
                                   seq |-> hookDto[p].seq, id |-> hookDto[p].id])
        /\ UNCHANGED failures
     \/ Fail /\ UNCHANGED queue
  /\ HookGoto(p, "register")
  /\ UNCHANGED <<hwVars, idVars, running, topaMdl, dpcQueue, pc, dto, dpcCount, pmiHandler,
                 bugCheck, live, raced,
                 hookDto, insertCpu, gProcessId, gThreadHoodked, threadHooks, exitHook>>

\* The thread callback is registered once more, the exit callback once.
RegisterHooks(p) ==
  /\ hookPc[p] = "register"
  /\ threadHooks' = threadHooks + 1
  /\ exitHook' = TRUE
  /\ HookGoto(p, "loaded")
  /\ UNCHANGED <<coreVars, hookDto, insertCpu, gProcessId, gThreadHoodked>>

PtwHookImageLoadCr3(p) ==
  \/ ImageLoad(p) \/ IncreaseSequenceId(p) \/ ResetPacketId(p)
  \/ FirstSeq(p) \/ FirstId(p) \/ FirstEnqueue(p) \/ RegisterHooks(p)

-----------------------------------------------------------------------------
(* PtwExecuteAndWaitPerCore with its KDPCs allocated (PerCoreSync has the  *)
(* other case).  The IPI only counts at this execution level.              *)

\* Faulty variant: the loop runs once too often.
InsertOneTooMany(p, routine, from, to) ==
  /\ hookPc[p] = from
  /\ IF insertCpu[p] <= NumCpus
     THEN /\ dpcQueue' = [c \in Cpus |-> IF c = insertCpu[p]
                             THEN Append(dpcQueue[c], Dpc(routine, p)) ELSE dpcQueue[c]]
          /\ insertCpu' = [insertCpu EXCEPT ![p] = @ + 1]
          /\ UNCHANGED hookPc
     ELSE HookGoto(p, to) /\ UNCHANGED <<dpcQueue, insertCpu>>
  /\ UNCHANGED <<hwVars, idVars, running, topaMdl, pc, dto, dpcCount, pmiHandler, queue,
                 bugCheck, failures, live, raced,
                 hookDto, gProcessId, gThreadHoodked, threadHooks, exitHook>>

InsertDpc(p, routine, from, to) ==
  /\ hookPc[p] = from
  /\ IF insertCpu[p] < NumCpus
     THEN /\ dpcQueue' = [dpcQueue EXCEPT ![insertCpu[p]] = Append(@, Dpc(routine, p))]
          /\ insertCpu' = [insertCpu EXCEPT ![p] = @ + 1]
          /\ UNCHANGED hookPc
     ELSE HookGoto(p, to) /\ UNCHANGED <<dpcQueue, insertCpu>>
  /\ UNCHANGED <<hwVars, idVars, running, topaMdl, pc, dto, dpcCount, pmiHandler, queue,
                 bugCheck, failures, live, raced,
                 hookDto, gProcessId, gThreadHoodked, threadHooks, exitHook>>

SpinUntilDone(p, from, to) ==
  /\ hookPc[p] = from
  /\ dpcCount[p] = NumCpus
  /\ dpcCount' = [dpcCount EXCEPT ![p] = 0]
  /\ insertCpu' = [insertCpu EXCEPT ![p] = 0]
  /\ HookGoto(p, to)
  /\ UNCHANGED <<hwVars, idVars, running, topaMdl, dpcQueue, pc, dto, pmiHandler, queue,
                 bugCheck, failures, live, raced,
                 hookDto, gProcessId, gThreadHoodked, threadHooks, exitHook>>

-----------------------------------------------------------------------------
(* PtwHookThreadCreation and PtwSetup.                                     *)

\* The thread belongs to the traced process and no other one was first.
ThreadCreate(p) ==
  /\ hookPc[p] = "loaded"
  /\ threadHooks > 0
  /\ gProcessId = p
  /\ ~gThreadHoodked
  /\ HookGoto(p, "claim")
  /\ UNCHANGED <<coreVars, hookDto, insertCpu, gProcessId, gThreadHoodked, threadHooks,
                 exitHook>>

ClaimThread(p) ==
  /\ hookPc[p] = "claim"
  /\ gThreadHoodked' = TRUE
  /\ HookGoto(p, "install")
  /\ UNCHANGED <<coreVars, hookDto, insertCpu, gProcessId, threadHooks, exitHook>>

InstallPmiHandler(p) ==
  /\ hookPc[p] = "install"
  /\ pmiHandler' = TRUE
  /\ HookGoto(p, "insertSetup")
  /\ UNCHANGED <<hwVars, idVars, running, topaMdl, dpcQueue, pc, dto, dpcCount, queue,
                 bugCheck, failures, live, raced,
                 hookDto, insertCpu, gProcessId, gThreadHoodked, threadHooks, exitHook>>

PtwHookThreadCreation(p) ==
  \/ ThreadCreate(p) \/ ClaimThread(p) \/ InstallPmiHandler(p)
  \/ InsertDpc(p, "PtwIpiPerCoreSetup", "insertSetup", "spinSetup")
  \/ SpinUntilDone(p, "spinSetup", "traced")

-----------------------------------------------------------------------------
(* PtwHookProcessExit.                                                     *)

\* The exit of a process the callbacks no longer react to is ignored.
ExitIgnored(p) ==
  /\ hookPc[p] \in {"loaded", "traced"}
  /\ ~exitHook \/ gProcessId # p
  /\ HookGoto(p, "gone")
  /\ UNCHANGED <<coreVars, hookDto, insertCpu, gProcessId, gThreadHoodked, threadHooks,
                 exitHook>>

ProcessExit(p) ==
  /\ hookPc[p] \in {"loaded", "traced"}
  /\ exitHook /\ gProcessId = p
  /\ HookGoto(p, "insertDisable")
  /\ UNCHANGED <<coreVars, hookDto, insertCpu, gProcessId, gThreadHoodked, threadHooks,
                 exitHook>>

\* One registration of the thread callback is removed, if there is one.
RemoveThreadHook(p) ==
  /\ hookPc[p] = "unhook"
  /\ threadHooks' = IF threadHooks > 0 THEN threadHooks - 1 ELSE 0
  /\ HookGoto(p, "uninstall")
  /\ UNCHANGED <<coreVars, hookDto, insertCpu, gProcessId, gThreadHoodked, exitHook>>

UninstallPmiHandler(p) ==
  /\ hookPc[p] = "uninstall"
  /\ pmiHandler' = FALSE
  /\ HookGoto(p, "clearProcess")
  /\ UNCHANGED <<hwVars, idVars, running, topaMdl, dpcQueue, pc, dto, dpcCount, queue,
                 bugCheck, failures, live, raced,
                 hookDto, insertCpu, gProcessId, gThreadHoodked, threadHooks, exitHook>>

ClearProcessId(p) ==
  /\ hookPc[p] = "clearProcess"
  /\ gProcessId' = NoProc
  /\ HookGoto(p, "clearHooked")
  /\ UNCHANGED <<coreVars, hookDto, insertCpu, gThreadHoodked, threadHooks, exitHook>>

ClearThreadHoodked(p) ==
  /\ hookPc[p] = "clearHooked"
  /\ gThreadHoodked' = FALSE
  /\ HookGoto(p, "gone")
  /\ UNCHANGED <<coreVars, hookDto, insertCpu, gProcessId, threadHooks, exitHook>>

PtwHookProcessExit(p) ==
  \/ ExitIgnored(p) \/ ProcessExit(p)
  \/ InsertDpc(p, "PtwDpcPerCoreDisable", "insertDisable", "spinDisable")
  \/ SpinUntilDone(p, "spinDisable", "unhook")
  \/ RemoveThreadHook(p) \/ UninstallPmiHandler(p)
  \/ ClearProcessId(p) \/ ClearThreadHoodked(p)

-----------------------------------------------------------------------------
Hook(p) == PtwHookImageLoadCr3(p) \/ PtwHookThreadCreation(p) \/ PtwHookProcessExit(p)

\* A bug check stops the machine.
CoreStep(c) == ~bugCheck /\ CoreNext(c) /\ UNCHANGED hookVars

HookStep(p) == ~bugCheck /\ Hook(p)

Next ==
  \/ \E c \in Cpus : CoreStep(c)
  \/ \E p \in Procs : HookStep(p)

Spec == Init /\ [][Next]_vars

\* A processor delivers its pending PMIs and runs its DPCs, and a callback
\* that has begun goes on.  Images are loaded, threads created and processes
\* ended, or not.
Fairness ==
  /\ \A c \in Cpus : /\ WF_vars(CoreStep(c) /\ IptPmiHandler(c))
                     /\ WF_vars(CoreStep(c) /\ RunDpc(c))
  /\ \A p \in Procs : WF_vars(hookPc[p] \notin {"unloaded", "loaded", "traced"} /\ HookStep(p))

FairSpec == Spec /\ Fairness

-----------------------------------------------------------------------------
\* Type invariant.
TypeOK ==
  /\ CoreTypeOK
  /\ hookPc \in [Procs -> {"unloaded", "increase", "reset", "stampSeq", "stampId", "enqueue",
                           "register", "loaded", "claim", "install", "insertSetup", "spinSetup",
                           "traced", "insertDisable", "spinDisable", "unhook", "uninstall",
                           "clearProcess", "clearHooked", "gone"}]
  /\ hookDto \in [Procs -> [seq : Nat, id : Nat]]
  /\ insertCpu \in [Procs -> 0..NumCpus]
  /\ gProcessId \in Procs \cup {NoProc}
  /\ gThreadHoodked \in BOOLEAN
  /\ threadHooks \in Nat
  /\ exitHook \in BOOLEAN

Packets(kind, c) == {i \in 1..Len(queue) : queue[i].kind = kind /\ queue[i].cpu = c}

\* IptUnlinkFullTopaBuffers, once past its RunningStatus test, never rewrites
\* the output MSRs while the trace is on: the test alone protects against
\* the fault, across every order of PMIs, setups, disables and stale IptDpcs.
OutputMsrSafe ==
  \A c \in Cpus :
    At(c, "IptDpc", "idle") /\ running[c] # "ENABLED" => ~traceEn[c]

\* Inductive form of OutputMsrSafe: the trace is on only while the status says
\* so, or while IptEnableTrace is between its write of TraceEn and its write of
\* the status; and PtwDpcPerCoreDisable keeps it off until its own write.
MsrInv ==
  \A c \in Cpus :
    /\ traceEn[c] => running[c] = "ENABLED" \/ pc[c] \in {"checkEnable", "markEnabled"}
    /\ pc[c] = "collect" => ~traceEn[c]

\* The DATA buffers of a processor reach the queue in the order the hardware
\* filled them, each once, and never the one the hardware still fills
\* (IptDpc hands a buffer over only after a new one is linked in).
BuffersInOrder ==
  \A c \in Cpus :
    /\ \A i, j \in Packets("data", c) : i < j => queue[i].mdl < queue[j].mdl
    /\ \A i \in Packets("data", c) : queue[i].mdl < topaMdl[c]

\* Inductive form of BuffersInOrder: the buffer in the hands of an IptDpc is
\* newer than every queued one and older than the one being filled.
BufferInv ==
  /\ BuffersInOrder
  /\ \A c \in Cpus : dto[c].kind = "data" =>
       /\ dto[c].cpu = c
       /\ dto[c].mdl < topaMdl[c]
       /\ \A i \in Packets("data", c) : queue[i].mdl < dto[c].mdl

\* Unless an allocation has failed, every buffer a processor has given up is
\* in the queue or in the hands of the IptDpc that unlinked it.
NoBufferLost ==
  failures = 0 =>
    \A c \in Cpus : \A m \in 0..(topaMdl[c] - 1) :
      \/ \E i \in Packets("data", c) : queue[i].mdl = m
      \/ dto[c].kind = "data" /\ dto[c].mdl = m

\* As long as traced processes do not overlap and no IptDpc runs outside a
\* session, a packet is identified by its sequence and packet ids, although
\* IptDpc stamps them in one order, PtwDpcPerCoreDisable in the other and the
\* image-load hook resets one of the two counters; and the ids of the packets
\* of a processor increase within a sequence.
IdsIdentifyPackets ==
  ~raced => \A i, j \in 1..Len(queue) :
    i < j /\ queue[i].seq = queue[j].seq =>
      /\ queue[i].id # queue[j].id
      /\ "first" \notin {queue[i].kind, queue[j].kind} /\ queue[i].cpu = queue[j].cpu
           => queue[i].id < queue[j].id

\* Under the same condition, every sequence is opened by its FIRST packet, with
\* packet id 0 and before the packets of all processors (the consumer takes the
\* image and the TSC frequency from it).
FirstPacketLeads ==
  ~raced /\ failures = 0 => \A j \in 1..Len(queue) :
    \/ queue[j].kind = "first" /\ queue[j].id = 0
    \/ \E i \in 1..(j - 1) : queue[i].kind = "first" /\ queue[i].seq = queue[j].seq

\* Setup meets a trace that is still on, and faults, only after traced
\* processes overlapped or a stale IptDpc resumed the trace behind
\* PtwDpcPerCoreDisable: sessions that follow each other are safe.
BugCheckNeedsRace == bugCheck => raced

\* What LastPacket says: within a sequence, nothing of the processor follows its
\* LAST packet.  An IptDpc queued behind PtwDpcPerCoreDisable breaks it.
NoDataAfterLast ==
  \A i, j \in 1..Len(queue) :
    /\ i < j /\ queue[i].kind = "last" /\ queue[j].kind = "data"
    /\ queue[i].cpu = queue[j].cpu
    => queue[i].seq # queue[j].seq

\* A trace that a PMI paused is on again, turned on by IptDpc, or ended by
\* PtwDpcPerCoreDisable, unless an allocation fails.  The condition is what the
\* code needs: a PMI taken in IptEnableTrace after its check and before it
\* records that the trace runs stops the trace, and the record then makes IptDpc
\* refuse to resume it.
PausedResumes ==
  \A c \in Cpus :
    running[c] = "PAUSED" /\ pc[c] # "markEnabled" ~>
      traceEn[c] \/ running[c] = "INITIALIZED" \/ failures > 0 \/ bugCheck

\* The callbacks of a process come to an end: no broadcast waits for a DPC
\* for ever, although PMIs and their IptDpcs delay its DPCs.
CallbacksReturn ==
  \A p \in Procs :
    /\ hookPc[p] = "claim" ~> hookPc[p] = "traced" \/ bugCheck
    /\ hookPc[p] = "insertDisable" ~> hookPc[p] = "gone" \/ bugCheck
=============================================================================
