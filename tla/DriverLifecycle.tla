--------------------------- MODULE DriverLifecycle ---------------------------
(***************************************************************************)
(* The driver from DriverEntry to its unload: the order of initialisation, *)
(* the requests that are served as soon as the device is there, and the    *)
(* callbacks the requests install, over the processor of OutputRegisters.  *)
(*                                                                         *)
(* TraceControl has the callbacks step by step on several processors; here *)
(* a broadcast is one step, and what TraceControl takes for granted is     *)
(* free: the state the driver is in when a callback comes, calls that fail *)
(* and the threads of a process, which are created in parallel.            *)
(***************************************************************************)
EXTENDS OutputRegisters

CONSTANTS Threads,     \* threads of each traced process
          MaxSetups    \* bound: SETUP requests

ASSUME LifecycleAssumption == MaxSetups \in Nat

VARIABLES
  entry,           \* where DriverEntry is; "loaded", "failed" or "unloaded" after it
  query,           \* where the QUERY request is
  setups,          \* SETUP requests: each registers the load-image callback
  procState,       \* of each process: "none", "loaded" with its image, "gone"
  threadPc,        \* where the creation callback of each thread is
  gProcessId,      \* the process the callbacks react to, or NoProc
  gThreadHoodked,  \* a thread of it has started the trace
  threadHooks,     \* registrations of PtwHookThreadCreation
  exitHook,        \* PtwHookProcessExit is registered
  pmiHandler,      \* IptPmiHandler is installed in the HAL
  queryFirst,      \* history: a QUERY allocated the capabilities
  raced            \* history: two threads of a process started the trace, traced
                   \* processes overlapped, or one ended with a ToPA PMI or an
                   \* IptDpc outstanding

hookVars == <<procState, threadPc, gProcessId, gThreadHoodked, threadHooks, exitHook, pmiHandler,
              raced>>
requestVars == <<query, setups, queryFirst>>
vars == <<iptVars, hookVars, requestVars, entry>>

Init ==
  /\ IptInitial
  /\ entry = "WdfDriverCreate"
  /\ query = "idle" /\ setups = 0
  /\ procState = [p \in Procs |-> "none"]
  /\ threadPc = [p \in Procs |-> [t \in Threads |-> "none"]]
  /\ gProcessId = NoProc /\ gThreadHoodked = FALSE
  /\ threadHooks = 0 /\ exitHook = FALSE /\ pmiHandler = FALSE
  /\ queryFirst = FALSE /\ raced = FALSE

-----------------------------------------------------------------------------
(* DriverEntry.                                                            *)

\* A fault stops the machine.
Running == fault = "none"

EntryStep(from, to) ==
  Running /\ entry = from /\ entry' = to /\ UNCHANGED <<hookVars, requestVars>>

\* A call that fails before the device is served ends DriverEntry.
EntryFails(from) ==
  EntryStep(from, "failed") /\ Fail
  /\ UNCHANGED <<capVars, options, topaTable, hwVars, fault>>

WdfDriverCreate == EntryStep("WdfDriverCreate", "InitDeviceInit") /\ UNCHANGED iptVars

\* Without memory InitDeviceInit leaves the caller's pointer as it is, and the
\* cleanup of InitDevice frees that garbage if it is not zero.
InitDeviceInit ==
  \/ EntryStep("InitDeviceInit", "WdfDeviceCreate") /\ UNCHANGED iptVars
  \/ /\ EntryStep("InitDeviceInit", "failed") /\ Fail
     /\ Fault("deviceInit")
     /\ UNCHANGED <<capVars, options, topaTable, hwVars>>

WdfDeviceCreate == EntryStep("WdfDeviceCreate", "symbolic link") /\ UNCHANGED iptVars

\* WdfDeviceCreate has taken the DeviceInit over, but only the callee's copy of
\* the pointer is cleared: without a symbolic link it is freed once more.
WdfDeviceCreateSymbolicLink ==
  \/ EntryStep("symbolic link", "PtwCommunicationInit") /\ UNCHANGED iptVars
  \/ /\ EntryStep("symbolic link", "failed") /\ Fail
     /\ Fault("deviceInit")
     /\ UNCHANGED <<capVars, options, topaTable, hwVars>>

PtwCommunicationInit ==
  EntryStep("PtwCommunicationInit", "WdfControlFinishInitializing") /\ UNCHANGED iptVars

\* From here on requests are served.
WdfControlFinishInitializing ==
  EntryStep("WdfControlFinishInitializing", "PtwInit") /\ UNCHANGED iptVars

\* The per-processor structures; DriverEntry ignores the status of PtwInit.
PtwInit ==
  \/ EntryStep("PtwInit", "IptInit") /\ UNCHANGED iptVars
  \/ EntryStep("PtwInit", "loaded") /\ AllocationFails

\* Faulty variant: the capabilities are allocated and never filled.
IptInitUnqueried ==
  \/ /\ gPtCapabilities = "null"
     /\ \/ EntryStep("IptInit", "IptInitPerCore") /\ AllocateCapabilities
        \/ EntryStep("IptInit", "loaded") /\ AllocationFails
  \/ gPtCapabilities # "null" /\ EntryStep("IptInit", "IptInitPerCore") /\ UNCHANGED iptVars

\* Capabilities that are there already are taken to be filled.
IptInit ==
  \/ /\ gPtCapabilities = "null"
     /\ \/ EntryStep("IptInit", "IptQueryCapabilities") /\ AllocateCapabilities
        \/ EntryStep("IptInit", "loaded") /\ AllocationFails
  \/ gPtCapabilities # "null" /\ EntryStep("IptInit", "IptInitPerCore") /\ UNCHANGED iptVars
  \/ EntryStep("IptQueryCapabilities", "IptInitPerCore") /\ IptQueryCapabilities
  \/ /\ ~hardware.available
     /\ \/ EntryStep("IptQueryCapabilities", "clear") /\ FreeCapabilities
        \/ EntryStep("clear", "loaded") /\ ClearCapabilities

\* PtwIpiPerCoreInit only logs a failure.  What comes after it, DuQueueInit,
\* can fail too and changes nothing here.
PtwIpiPerCoreInit == EntryStep("IptInitPerCore", "loaded") /\ IptInitPerCore

FailingCalls == {"WdfDriverCreate", "InitDeviceInit", "WdfDeviceCreate", "PtwCommunicationInit"}

DriverEntry ==
  \/ \E call \in FailingCalls : EntryFails(call)
  \/ WdfDriverCreate \/ InitDeviceInit \/ WdfDeviceCreate \/ WdfDeviceCreateSymbolicLink
  \/ PtwCommunicationInit \/ WdfControlFinishInitializing
  \/ PtwInit \/ IptInit \/ PtwIpiPerCoreInit

-----------------------------------------------------------------------------
(* Requests.                                                               *)

\* The device is there, the per-processor structures are not.
Unprepared == entry \in {"PtwInit", "IptInit", "IptQueryCapabilities", "clear",
                        "IptInitPerCore"}

Served == Unprepared \/ entry = "loaded"

Request == Running /\ Served /\ UNCHANGED <<hookVars, entry>>

\* IptGetCapabilities: test, allocation and copy.  Once IptInit is done with
\* them, capabilities that are there stay there, and a QUERY changes nothing.
QueryTest ==
  /\ query = "idle" /\ Request
  /\ gPtCapabilities = "null" \/ Unprepared
  /\ query' = IF gPtCapabilities = "null" THEN "allocate" ELSE "copy"
  /\ UNCHANGED <<iptVars, setups, queryFirst>>

QueryAllocate ==
  /\ query = "allocate" /\ Request
  /\ \/ query' = "copy" /\ AllocateCapabilities /\ queryFirst' = TRUE
     \/ query' = "idle" /\ AllocationFails /\ UNCHANGED queryFirst
  /\ UNCHANGED setups

QueryCopy ==
  /\ query = "copy" /\ Request
  /\ query' = "idle"
  /\ CopyCapabilities
  /\ UNCHANGED <<setups, queryFirst>>

PtwCommandQueryCapabilities == QueryTest \/ QueryAllocate \/ QueryCopy

PtwCommandTraceProcess ==
  /\ setups < MaxSetups /\ Request
  /\ setups' = setups + 1
  /\ UNCHANGED <<iptVars, query, queryFirst>>

-----------------------------------------------------------------------------
(* Callbacks.                                                              *)

Callback == Running /\ Served /\ UNCHANGED <<requestVars, entry>>

\* PtwHookImageLoadCr3, once for each registration.  One whose allocation or
\* first registration fails registers nothing, or else no exit callback.
ImageLoad(p) ==
  /\ Callback /\ setups > 0 /\ procState[p] = "none"
  /\ procState' = [procState EXCEPT ![p] = "loaded"]
  /\ gProcessId' = p
  /\ \/ /\ threadHooks' = threadHooks + setups
        /\ exitHook' = TRUE
        /\ UNCHANGED iptVars
     \/ /\ \E registered \in {0, 1} : threadHooks' = threadHooks + setups - 1 + registered
        /\ exitHook' = (exitHook \/ setups > 1)
        /\ AllocationFails
  /\ raced' = (raced \/ \E q \in Procs : procState[q] = "loaded")
  /\ UNCHANGED <<threadPc, gThreadHoodked, pmiHandler>>

ThreadGoto(p, t, from, to) ==
  /\ Callback /\ threadPc[p][t] = from
  /\ threadPc' = [threadPc EXCEPT ![p][t] = to]

ThreadTest(p, t) ==
  /\ procState[p] = "loaded" /\ threadHooks > 0
  /\ ThreadGoto(p, t, "none",
                IF gProcessId = p /\ ~gThreadHoodked THEN "claim" ELSE "done")
  /\ UNCHANGED <<iptVars, procState, gProcessId, gThreadHoodked, threadHooks, exitHook, pmiHandler,
                 raced>>

ThreadClaim(p, t) ==
  /\ ThreadGoto(p, t, "claim", "install")
  /\ gThreadHoodked' = TRUE
  /\ raced' = (raced \/ gThreadHoodked)
  /\ UNCHANGED <<iptVars, procState, gProcessId, threadHooks, exitHook, pmiHandler>>

\* PtwSetup: a handler that cannot be installed is logged.
InstallPmiHandler(p, t) ==
  /\ ThreadGoto(p, t, "install", "setup")
  /\ \/ pmiHandler' = TRUE /\ UNCHANGED iptVars
     \/ UNCHANGED pmiHandler /\ AllocationFails
  /\ UNCHANGED <<procState, gProcessId, gThreadHoodked, threadHooks, exitHook, raced>>

PtwSetup(p, t) ==
  /\ ThreadGoto(p, t, "setup", "done")
  /\ PtwIpiPerCoreSetup(p)
  /\ UNCHANGED <<procState, gProcessId, gThreadHoodked, threadHooks, exitHook, pmiHandler, raced>>

PtwHookThreadCreation(p, t) ==
  ThreadTest(p, t) \/ ThreadClaim(p, t) \/ InstallPmiHandler(p, t) \/ PtwSetup(p, t)

\* A process ends when its threads have; the exit of one that is not the
\* traced one is ignored.  The IptDpcs still queued are those of PMIs taken
\* after the disable DPC was inserted: they run behind it.
Exits(p) ==
  /\ Callback /\ procState[p] = "loaded"
  /\ \A t \in Threads : threadPc[p][t] \in {"none", "done"}
  /\ procState' = [procState EXCEPT ![p] = "gone"]
  /\ UNCHANGED <<threadPc, exitHook>>

ExitIgnored(p) ==
  /\ Exits(p)
  /\ ~exitHook \/ gProcessId # p
  /\ UNCHANGED <<iptVars, gProcessId, gThreadHoodked, threadHooks, pmiHandler, raced>>

PtwHookProcessExit(p) ==
  /\ Exits(p)
  /\ exitHook /\ gProcessId = p
  /\ PtwDpcPerCoreDisable
  /\ threadHooks' = IF threadHooks > 0 THEN threadHooks - 1 ELSE 0
  /\ pmiHandler' = FALSE
  /\ gProcessId' = NoProc /\ gThreadHoodked' = FALSE
  /\ raced' = (raced \/ topaPmi \/ dpcs > 0)

Interrupt ==
  /\ Running
  /\ \/ pmiHandler /\ (PmiForeign \/ PmiPause)
     \/ PmiForeignReset
     \/ DpcRefused \/ IptDpc
  /\ UNCHANGED <<hookVars, requestVars, entry>>

Trace == Running /\ FillRegion /\ UNCHANGED <<hookVars, requestVars, entry>>

-----------------------------------------------------------------------------
(* DriverUnload breaks into the kernel debugger, or stops the machine where  *)
(* there is none.  It removes no callback: the next one runs freed code.   *)

InCallback == \E p \in Procs, t \in Threads : threadPc[p][t] \notin {"none", "done"}

DriverUnload ==
  /\ Running /\ entry = "loaded" /\ query = "idle" /\ ~InCallback
  /\ entry' = "unloaded"
  /\ \/ Fault("breakpoint")
     \/ IF setups > 0 THEN Fault("unloaded") ELSE UNCHANGED fault
  /\ UNCHANGED <<capVars, options, topaTable, hwVars, failures, hookVars, requestVars>>

-----------------------------------------------------------------------------
Next ==
  \/ DriverEntry
  \/ PtwCommandQueryCapabilities \/ PtwCommandTraceProcess
  \/ \E p \in Procs : \/ ImageLoad(p) \/ ExitIgnored(p) \/ PtwHookProcessExit(p)
                      \/ \E t \in Threads : PtwHookThreadCreation(p, t)
  \/ Interrupt \/ Trace
  \/ DriverUnload

Spec == Init /\ [][Next]_vars

-----------------------------------------------------------------------------
(* Correctness.                                                            *)

\* Type invariant.
TypeOK ==
  /\ IptTypeOK
  /\ entry \in FailingCalls \cup
       {"symbolic link", "WdfControlFinishInitializing", "PtwInit", "IptInit",
        "IptQueryCapabilities", "clear", "IptInitPerCore", "loaded", "failed", "unloaded"}
  /\ query \in {"idle", "allocate", "copy"} /\ setups \in 0..MaxSetups
  /\ procState \in [Procs -> {"none", "loaded", "gone"}]
  /\ threadPc \in [Procs -> [Threads -> {"none", "claim", "install", "setup", "done"}]]
  /\ gProcessId \in Procs \cup {NoProc}
  /\ gThreadHoodked \in BOOLEAN /\ exitHook \in BOOLEAN /\ pmiHandler \in BOOLEAN
  /\ threadHooks \in Nat
  /\ queryFirst \in BOOLEAN /\ raced \in BOOLEAN

\* The hardware fills a region again before it was handed over only if it got
\* past the end of the table since the INT entry (the interrupt was late or
\* erased), in a buffer a trace was set up in before, after a failed call, or
\* in a table built from garbage capabilities: the position of the INT entry
\* leaves the interrupt a page of time.
OverwriteNeedsCause ==
  overwritten => waiting = TooMany \/ reused \/ failures > 0 \/ queryFirst

\* Why the driver can break the machine.  A call that fails breaks it only in
\* the cleanup of InitDevice or by leaving OutputOptions unset, and never writes
\* a register of a running trace.  Otherwise, on a processor
\* that can do what the driver asks for, it breaks only in a thread that is
\* created during PtwInit, by two threads in the window of gThreadHoodked, by
\* traced processes that overlap, by a ToPA interrupt or IptDpc of a process
\* that outlasts it and resumes the trace, by garbage capabilities, or by an
\* unload: at once if there is no debugger, or by the callbacks it left.
FaultNeedsCause ==
  fault # "none" =>
    \/ failures > 0 /\ fault \in {"deviceInit", "options"}
    \/ raced \/ queryFirst
    \/ ~(hardware.multiple /\ hardware.filters)
    \/ Unprepared /\ setups > 0
    \/ entry = "unloaded" /\ (setups > 0 \/ fault = "breakpoint")

\* Once the driver is loaded, what it and its user believe about the hardware
\* is what CPUID says, unless a request for it came before IptInit had filled
\* it in: IptGetCapabilities then hands out memory nobody has written to, and
\* IptInit takes it for filled.
CapabilitiesAreReal ==
  entry = "loaded" /\ hardware.available /\ failures = 0 /\ ~queryFirst =>
    gPtCapabilities = "real"

\* A trace that is on is configured for the process the callbacks react to,
\* although one process follows another without the registers being reset.  On a
\* processor without the filters IptSetup refuses, which is ignored: the trace
\* that is turned on all the same was never configured for any process.
TracesTheProcess ==
  traceEn /\ fault = "none" /\ failures = 0 /\ ~raced /\ ~queryFirst =>
    config = IF hardware.filters THEN gProcessId ELSE NoProc

\* A trace that is on has someone to serve its interrupts, as long as traced
\* processes do not overlap and end with no interrupt unserved and no IptDpc
\* queued.
TraceIsServed ==
  traceEn /\ failures = 0 /\ ~raced => pmiHandler
=============================================================================
