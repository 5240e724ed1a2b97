---------------------------- MODULE PerCoreSync ----------------------------
(***************************************************************************)
(* PtwExecuteAndWaitPerCore: run a routine once on every processor, as a   *)
(* DPC or inside an inter-processor interrupt, and wait until all have.    *)
(*                                                                         *)
(* The counters and the routine live in a structure on the caller's stack  *)
(* that the DPCs reach through their context pointer.  When the allocation *)
(* of a KDPC fails in the middle of the loop the function returns at once, *)
(* and the DPCs already queued run with a pointer into a dead frame.  What *)
(* such a DPC finds there is open: nothing of ours, or the structure of a  *)
(* later call of the same thread.                                          *)
(***************************************************************************)
EXTENDS Naturals, Sequences

CONSTANTS Threads,      \* threads that call the function
          NumCpus,      \* active processors
          MaxCalls,     \* bound on the calls of each thread
          MaxFailures   \* bound on the failed KDPC allocations

ASSUME PerCoreSyncAssumption ==
  /\ NumCpus \in Nat \ {0}
  /\ MaxCalls \in Nat /\ MaxFailures \in Nat

Cpus == 0..(NumCpus - 1)

VARIABLES
  callPc,       \* where each thread is in the function
  level,        \* ExecutionLevel of its call
  call,         \* number of its current or last call
  nextCpu,      \* loop variable i
  ipiCounter,   \* IpiCounter
  dpcCounter,   \* DpcCounter
  status,       \* what the last call returned
  dpcQueue,     \* DPCs inserted for each processor, the running one first
  dpcPc,        \* the running DPC is at its function or at the increment
  ran,          \* history: runs of the routine of the current call per processor
  failures,     \* allocations failed so far
  wild          \* history: a DPC used a dead stack frame

vars == <<callPc, level, call, nextCpu, ipiCounter, dpcCounter, status, dpcQueue, dpcPc,
          ran, failures, wild>>

Nowhere == [c \in Cpus |-> 0]

Init ==
  /\ callPc = [t \in Threads |-> "idle"]
  /\ level = [t \in Threads |-> "Dpc"]
  /\ call = [t \in Threads |-> 0]
  /\ nextCpu = [t \in Threads |-> 0]
  /\ ipiCounter = [t \in Threads |-> 0]
  /\ dpcCounter = [t \in Threads |-> 0]
  /\ status = [t \in Threads |-> "none"]
  /\ dpcQueue = [c \in Cpus |-> <<>>]
  /\ dpcPc = [c \in Cpus |-> "function"]
  /\ ran = [t \in Threads |-> Nowhere]
  /\ failures = 0
  /\ wild = FALSE

Goto(t, l) == callPc' = [callPc EXCEPT ![t] = l]

-----------------------------------------------------------------------------
\* The function is entered: a fresh structure with both counters zero.
PtwExecuteAndWaitPerCore(t, l) ==
  /\ callPc[t] = "idle" /\ call[t] < MaxCalls
  /\ call' = [call EXCEPT ![t] = @ + 1]
  /\ level' = [level EXCEPT ![t] = l]
  /\ nextCpu' = [nextCpu EXCEPT ![t] = 0]
  /\ ipiCounter' = [ipiCounter EXCEPT ![t] = 0]
  /\ dpcCounter' = [dpcCounter EXCEPT ![t] = 0]
  /\ ran' = [ran EXCEPT ![t] = Nowhere]
  /\ Goto(t, IF l = "Dpc" THEN "insert" ELSE "ipi")
  /\ UNCHANGED <<status, dpcQueue, dpcPc, failures, wild>>

\* Faulty variant: the loop runs once too often.
InsertOneTooMany(t) ==
  /\ callPc[t] = "insert"
  /\ dpcQueue' = [c \in Cpus |-> IF c = nextCpu[t]
                    THEN Append(dpcQueue[c], [thread |-> t, call |-> call[t]])
                    ELSE dpcQueue[c]]
  /\ nextCpu' = [nextCpu EXCEPT ![t] = @ + 1]
  /\ Goto(t, IF nextCpu[t] = NumCpus THEN "ipi" ELSE "insert")
  /\ UNCHANGED <<level, call, ipiCounter, dpcCounter, status, dpcPc, ran, failures, wild>>

\* Faulty variant: every DPC stays targeted at the first processor.
InsertUntargeted(t) ==
  /\ callPc[t] = "insert"
  /\ dpcQueue' = [dpcQueue EXCEPT ![0] = Append(@, [thread |-> t, call |-> call[t]])]
  /\ nextCpu' = [nextCpu EXCEPT ![t] = @ + 1]
  /\ Goto(t, IF nextCpu[t] + 1 = NumCpus THEN "ipi" ELSE "insert")
  /\ UNCHANGED <<level, call, ipiCounter, dpcCounter, status, dpcPc, ran, failures, wild>>

\* One round of the loop: allocate a KDPC, target it, insert it.
InsertDpc(t) ==
  /\ callPc[t] = "insert"
  /\ dpcQueue' = [dpcQueue EXCEPT ![nextCpu[t]] = Append(@, [thread |-> t, call |-> call[t]])]
  /\ nextCpu' = [nextCpu EXCEPT ![t] = @ + 1]
  /\ Goto(t, IF nextCpu[t] + 1 = NumCpus THEN "ipi" ELSE "insert")
  /\ UNCHANGED <<level, call, ipiCounter, dpcCounter, status, dpcPc, ran, failures, wild>>

\* No memory for the KDPC: STATUS_INSUFFICIENT_RESOURCES at once.
AllocationFails(t) ==
  /\ callPc[t] = "insert" /\ failures < MaxFailures
  /\ failures' = failures + 1
  /\ status' = [status EXCEPT ![t] = "insufficient"]
  /\ Goto(t, "idle")
  /\ UNCHANGED <<level, call, nextCpu, ipiCounter, dpcCounter, dpcQueue, dpcPc, ran, wild>>

\* KeIpiGenericCall has all processors in PerCoreDispatcherRoutine together
\* and returns when every one has left it.
KeIpiGenericCall(t) ==
  /\ callPc[t] = "ipi"
  /\ ipiCounter' = [ipiCounter EXCEPT ![t] = @ + NumCpus]
  /\ ran' = IF level[t] = "Ipi"
            THEN [ran EXCEPT ![t] = [c \in Cpus |-> @[c] + 1]] ELSE ran
  /\ Goto(t, "spin")
  /\ UNCHANGED <<level, call, nextCpu, dpcCounter, status, dpcQueue, dpcPc, failures, wild>>

\* The loop on the counter of the level ends when it equals the number of
\* processors; the stack frame is gone.
SpinDone(t) ==
  /\ callPc[t] = "spin"
  /\ (IF level[t] = "Dpc" THEN dpcCounter[t] ELSE ipiCounter[t]) = NumCpus
  /\ status' = [status EXCEPT ![t] = "success"]
  /\ Goto(t, "idle")
  /\ UNCHANGED <<level, call, nextCpu, ipiCounter, dpcCounter, dpcQueue, dpcPc, ran,
                 failures, wild>>

-----------------------------------------------------------------------------
(* IptGenericDpcFunction on processor c.                                   *)

Current(c) == Head(dpcQueue[c])

\* The frame the DPC points to is that of the call that queued it.
FrameAlive(d) == callPc[d.thread] # "idle" /\ call[d.thread] = d.call

\* The memory the DPC takes for its structure is one in use.
SeesStructure(d) == callPc[d.thread] # "idle"

\* The DPC reads the level and runs the routine.
DpcFunction(c) ==
  /\ dpcQueue[c] # <<>> /\ dpcPc[c] = "function"
  /\ LET d == Current(c) IN
       /\ wild' = (wild \/ ~FrameAlive(d))
       /\ \/ /\ SeesStructure(d)
             /\ ran' = IF level[d.thread] = "Dpc"
                       THEN [ran EXCEPT ![d.thread][c] = @ + 1] ELSE ran
          \/ ~FrameAlive(d) /\ UNCHANGED ran
  /\ dpcPc' = [dpcPc EXCEPT ![c] = "count"]
  /\ UNCHANGED <<callPc, level, call, nextCpu, ipiCounter, dpcCounter, status, dpcQueue,
                 failures>>

\* Faulty variant: the counter is read, and the routine that counts on
\* another processor in between is forgotten.
CountNotInterlocked(c) ==
  /\ dpcQueue[c] # <<>> /\ dpcPc[c] = "count"
  /\ LET d == Current(c) IN
       \E seen \in 0..dpcCounter[d.thread] :
         dpcCounter' = [dpcCounter EXCEPT ![d.thread] = seen + 1]
  /\ dpcQueue' = [dpcQueue EXCEPT ![c] = Tail(@)]
  /\ dpcPc' = [dpcPc EXCEPT ![c] = "function"]
  /\ UNCHANGED <<callPc, level, call, nextCpu, ipiCounter, status, ran, failures, wild>>

\* Faulty variant: a count of two, as when the IPI routine counted too.
CountTwice(c) ==
  /\ dpcQueue[c] # <<>> /\ dpcPc[c] = "count"
  /\ dpcCounter' = [dpcCounter EXCEPT ![Current(c).thread] = @ + 2]
  /\ dpcQueue' = [dpcQueue EXCEPT ![c] = Tail(@)]
  /\ dpcPc' = [dpcPc EXCEPT ![c] = "function"]
  /\ UNCHANGED <<callPc, level, call, nextCpu, ipiCounter, status, ran, failures, wild>>

\* InterlockedIncrement16, the last use of the structure.
DpcCount(c) ==
  /\ dpcQueue[c] # <<>> /\ dpcPc[c] = "count"
  /\ LET d == Current(c) IN
       /\ wild' = (wild \/ ~FrameAlive(d))
       /\ \/ /\ SeesStructure(d)
             /\ dpcCounter' = [dpcCounter EXCEPT ![d.thread] = @ + 1]
          \/ ~FrameAlive(d) /\ UNCHANGED dpcCounter
  /\ dpcQueue' = [dpcQueue EXCEPT ![c] = Tail(@)]
  /\ dpcPc' = [dpcPc EXCEPT ![c] = "function"]
  /\ UNCHANGED <<callPc, level, call, nextCpu, ipiCounter, status, ran, failures>>

-----------------------------------------------------------------------------
Caller(t) == InsertDpc(t) \/ AllocationFails(t) \/ KeIpiGenericCall(t) \/ SpinDone(t)

IptGenericDpcFunction(c) == DpcFunction(c) \/ DpcCount(c)

Next ==
  \/ \E t \in Threads, l \in {"Ipi", "Dpc"} : PtwExecuteAndWaitPerCore(t, l)
  \/ \E t \in Threads : Caller(t)
  \/ \E c \in Cpus : IptGenericDpcFunction(c)

Spec == Init /\ [][Next]_vars

\* A caller runs on, and every processor runs its DPCs; both preempt the
\* spinning callers of the processor.
Fairness ==
  /\ \A t \in Threads : WF_vars(Caller(t))
  /\ \A c \in Cpus : WF_vars(IptGenericDpcFunction(c))

FairSpec == Spec /\ Fairness

-----------------------------------------------------------------------------
\* Type invariant.
TypeOK ==
  /\ callPc \in [Threads -> {"idle", "insert", "ipi", "spin"}]
  /\ level \in [Threads -> {"Ipi", "Dpc"}]
  /\ call \in [Threads -> 0..MaxCalls]
  /\ nextCpu \in [Threads -> 0..NumCpus]
  /\ \A t \in Threads : callPc[t] = "insert" => nextCpu[t] < NumCpus
  /\ ipiCounter \in [Threads -> Nat]
  /\ dpcCounter \in [Threads -> Nat]
  /\ status \in [Threads -> {"none", "success", "insufficient"}]
  /\ dpcQueue \in [Cpus -> Seq([thread : Threads, call : 1..MaxCalls])]
  /\ dpcPc \in [Cpus -> {"function", "count"}]
  /\ ran \in [Threads -> [Cpus -> Nat]]
  /\ failures \in 0..MaxFailures
  /\ wild \in BOOLEAN

\* A DPC uses a dead frame only after a KDPC allocation failed: in every other
\* call the wait outlives the last use of the structure by a DPC.
WildNeedsFailure == wild => failures > 0

\* When the function returns success, and no DPC of an abandoned call is
\* loose, the routine has run exactly once on every processor.
RanOnceEverywhere ==
  ~wild => \A t \in Threads :
    callPc[t] = "idle" /\ status[t] = "success" => ran[t] = [c \in Cpus |-> 1]

\* Every call returns as long as no allocation fails.  (A loose DPC may count
\* into a later call, step over the equality the loop waits for, and leave it
\* spinning for ever.)
CallsReturn ==
  \A t \in Threads : callPc[t] # "idle" ~> callPc[t] = "idle" \/ failures > 0
=============================================================================
