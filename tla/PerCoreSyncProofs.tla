------------------------- MODULE PerCoreSyncProofs -------------------------
(***************************************************************************)
(* Proofs about PerCoreSync for every number of processors, threads, calls *)
(* and failing allocations: the type invariant, that a DPC touches a dead  *)
(* stack frame only after a KDPC allocation has failed, and that a call    *)
(* which returns success has run its routine once on every processor.      *)
(***************************************************************************)
EXTENDS PerCoreSync, FiniteSets, FiniteSetTheorems, TLAPS

-----------------------------------------------------------------------------
(* The inductive invariant.                                                *)

\* The DPCs of a queue, and that none is in it twice.
Elements(s) == {s[i] : i \in 1..Len(s)}

Distinct(s) == \A i, j \in 1..Len(s) : s[i] = s[j] => i = j

\* The DPC of the current call of a thread, and where it still is.
Own(t) == [thread |-> t, call |-> call[t]]

InFlight(t) == {c \in Cpus : Own(t) \in Elements(dpcQueue[c])}

\* Processors the loop of the thread has passed; of these the ones whose DPC
\* has counted, and the ones on which it has run the routine.
Inserted(t) == {c \in Cpus : c < nextCpu[t]}

Counted(t) == Inserted(t) \ InFlight(t)

HasRun(t) ==
  {c \in Inserted(t) :
     c \notin InFlight(t) \/ (Current(c) = Own(t) /\ dpcPc[c] = "count")}

\* Where a call is tells its level and how far its loop has come.
ControlInv ==
  \A t \in Threads :
    /\ callPc[t] # "idle" => call[t] > 0
    /\ callPc[t] = "insert" => level[t] = "Dpc"
    /\ callPc[t] \in {"ipi", "spin"} /\ level[t] = "Dpc" => nextCpu[t] = NumCpus

\* A queued DPC is of a call its thread has made, it is the only one of that
\* call on its processor, and its frame is alive until an allocation fails.
FrameInv ==
  /\ WildNeedsFailure
  /\ \A c \in Cpus :
       /\ Distinct(dpcQueue[c])
       /\ dpcPc[c] = "count" => dpcQueue[c] # <<>>
       /\ \A d \in Elements(dpcQueue[c]) :
            /\ d.call <= call[d.thread]
            /\ d.call = call[d.thread] => c \in Inserted(d.thread) /\ level[d.thread] = "Dpc"
            /\ failures = 0 => FrameAlive(d)

\* The counter of a call is the number of its DPCs that are through, and its
\* routine has run once on each processor it has run on: true of the calls in
\* progress as long as no DPC has used a dead frame.
CallCounted(t) ==
  /\ level[t] = "Dpc" =>
       /\ dpcCounter[t] = Cardinality(Counted(t))
       /\ \A c \in Cpus : ran[t][c] = IF c \in HasRun(t) THEN 1 ELSE 0
  /\ level[t] = "Ipi" =>
       \A c \in Cpus : ran[t][c] = IF callPc[t] = "spin" THEN 1 ELSE 0

CountInv == ~wild => \A t \in Threads : callPc[t] # "idle" => CallCounted(t)

SyncInv == TypeOK /\ ControlInv /\ FrameInv /\ CountInv /\ RanOnceEverywhere

-----------------------------------------------------------------------------
(* Queues of DPCs.                                                         *)

\* KeInsertQueueDpc of a DPC that is not yet in the queue.
LEMMA AppendElements ==
  ASSUME NEW S, NEW s \in Seq(S), NEW e \in S
  PROVE  /\ Append(s, e) \in Seq(S)
         /\ Append(s, e) # <<>>
         /\ Elements(Append(s, e)) = Elements(s) \cup {e}
         /\ Head(Append(s, e)) = IF s = <<>> THEN e ELSE Head(s)
         /\ Distinct(s) /\ e \notin Elements(s) => Distinct(Append(s, e))
<1>1. /\ Append(s, e) \in Seq(S)
      /\ Len(Append(s, e)) = Len(s) + 1 /\ Len(s) \in Nat
      /\ \A i \in 1..Len(s) : Append(s, e)[i] = s[i]
      /\ Append(s, e)[Len(s) + 1] = e
  OBVIOUS
<1>2. Append(s, e) # <<>>
  BY <1>1
<1>3. Elements(Append(s, e)) = Elements(s) \cup {e}
  <2>1. \A i \in 1..Len(Append(s, e)) : i \in 1..Len(s) \/ i = Len(s) + 1
    BY <1>1
  <2>2. 1..Len(s) \subseteq 1..Len(Append(s, e)) /\ Len(s) + 1 \in 1..Len(Append(s, e))
    BY <1>1
  <2>3. ASSUME NEW x \in Elements(Append(s, e)) PROVE x \in Elements(s) \cup {e}
    BY <1>1, <2>1 DEF Elements
  <2>4. ASSUME NEW x \in Elements(s) PROVE x \in Elements(Append(s, e))
    BY <1>1, <2>2 DEF Elements
  <2>5. e \in Elements(Append(s, e))
    BY <1>1, <2>2 DEF Elements
  <2> QED BY <2>3, <2>4, <2>5
<1>4. Head(Append(s, e)) = IF s = <<>> THEN e ELSE Head(s)
  BY <1>1
<1>5. Distinct(s) /\ e \notin Elements(s) => Distinct(Append(s, e))
  <2>1. \A i \in 1..Len(Append(s, e)) : i \in 1..Len(s) \/ i = Len(s) + 1
    BY <1>1
  <2> QED BY <1>1, <2>1 DEF Distinct, Elements
<1> QED BY <1>1, <1>2, <1>3, <1>4, <1>5

\* The DPC at the head leaves its queue.
LEMMA TailElements ==
  ASSUME NEW S, NEW s \in Seq(S), s # <<>>, Distinct(s)
  PROVE  /\ Head(s) \in S /\ Head(s) \in Elements(s)
         /\ Tail(s) \in Seq(S)
         /\ Elements(Tail(s)) = Elements(s) \ {Head(s)}
         /\ Distinct(Tail(s))
<1>1. /\ Tail(s) \in Seq(S) /\ Head(s) \in S /\ Head(s) = s[1]
      /\ Len(s) \in Nat \ {0} /\ Len(Tail(s)) = Len(s) - 1
      /\ \A i \in 1..(Len(s) - 1) : Tail(s)[i] = s[i + 1]
  OBVIOUS
<1>2. 1 \in 1..Len(s)
  BY <1>1
<1>3. \A i \in 1..(Len(s) - 1) : i + 1 \in 1..Len(s) /\ i + 1 # 1
  BY <1>1
<1>4. \A j \in 1..Len(s) : j = 1 \/ (j - 1 \in 1..(Len(s) - 1) /\ (j - 1) + 1 = j)
  BY <1>1
<1>5. Head(s) \in Elements(s)
  BY <1>1, <1>2 DEF Elements
<1>6. ASSUME NEW x \in Elements(Tail(s)) PROVE x \in Elements(s) /\ x # Head(s)
  <2>1. PICK i \in 1..(Len(s) - 1) : x = s[i + 1]
    BY <1>1 DEF Elements
  <2> QED BY <1>1, <1>2, <1>3, <2>1 DEF Elements, Distinct
<1>7. ASSUME NEW x \in Elements(s), x # Head(s) PROVE x \in Elements(Tail(s))
  <2>1. PICK j \in 1..Len(s) : x = s[j]
    BY DEF Elements
  <2>2. j # 1
    BY <1>1, <1>7, <2>1
  <2>3. j - 1 \in 1..Len(Tail(s)) /\ Tail(s)[j - 1] = s[j]
    BY <1>1, <1>4, <2>2
  <2> QED BY <2>1, <2>3 DEF Elements
<1>8. Distinct(Tail(s))
  <2> SUFFICES ASSUME NEW i \in 1..Len(Tail(s)), NEW j \in 1..Len(Tail(s)),
                      Tail(s)[i] = Tail(s)[j]
               PROVE  i = j
    BY DEF Distinct
  <2>1. i + 1 = j + 1
    BY <1>1, <1>3 DEF Distinct
  <2> QED BY <2>1
<1> QED BY <1>1, <1>5, <1>6, <1>7, <1>8

-----------------------------------------------------------------------------
(* Types.                                                                  *)

\* There is a processor.
LEMMA NumCpusPositive == NumCpus \in Nat /\ NumCpus > 0
  BY PerCoreSyncAssumption

DpcType == [thread : Threads, call : 1..MaxCalls]

\* The steps of the caller.
LEMMA CallerKeepsType ==
  ASSUME TypeOK, ControlInv, NEW t \in Threads,
         \/ \E l \in {"Ipi", "Dpc"} : PtwExecuteAndWaitPerCore(t, l)
         \/ Caller(t)
  PROVE  TypeOK' /\ ControlInv'
<1> USE NumCpusPositive, PerCoreSyncAssumption DEF TypeOK, Goto
<1>1. ASSUME NEW l \in {"Ipi", "Dpc"}, PtwExecuteAndWaitPerCore(t, l)
      PROVE  TypeOK' /\ ControlInv'
  <2>1. TypeOK'
    <3>1. call' \in [Threads -> 0..MaxCalls]
      BY <1>1 DEF PtwExecuteAndWaitPerCore
    <3>2. Nowhere \in [Cpus -> Nat]
      BY DEF Nowhere
    <3>3. /\ callPc' \in [Threads -> {"idle", "insert", "ipi", "spin"}]
          /\ level' \in [Threads -> {"Ipi", "Dpc"}]
      BY <1>1 DEF PtwExecuteAndWaitPerCore
    <3>4. /\ nextCpu' \in [Threads -> 0..NumCpus]
          /\ \A u \in Threads : callPc'[u] = "insert" => nextCpu'[u] < NumCpus
      BY <1>1 DEF PtwExecuteAndWaitPerCore
    <3>5. /\ ipiCounter' \in [Threads -> Nat] /\ dpcCounter' \in [Threads -> Nat]
          /\ ran' \in [Threads -> [Cpus -> Nat]]
      BY <1>1, <3>2 DEF PtwExecuteAndWaitPerCore
    <3>6. UNCHANGED <<status, dpcQueue, dpcPc, failures, wild>>
      BY <1>1 DEF PtwExecuteAndWaitPerCore
    <3> QED BY <3>1, <3>3, <3>4, <3>5, <3>6
  <2>2. \A u \in Threads : u # t =>
          /\ callPc'[u] = callPc[u] /\ call'[u] = call[u]
          /\ level'[u] = level[u] /\ nextCpu'[u] = nextCpu[u]
    BY <1>1 DEF PtwExecuteAndWaitPerCore
  <2>3. /\ callPc'[t] = IF l = "Dpc" THEN "insert" ELSE "ipi"
        /\ call'[t] = call[t] + 1 /\ level'[t] = l
    BY <1>1 DEF PtwExecuteAndWaitPerCore
  <2>4. call'[t] > 0
    BY <2>3
  <2>5. ControlInv'
    BY <2>2, <2>3, <2>4 DEF ControlInv
  <2> QED BY <2>1, <2>5
<1>2. CASE InsertDpc(t)
  <2>1. nextCpu[t] \in Cpus /\ nextCpu[t] + 1 \in 0..NumCpus
    <3>1. nextCpu[t] \in 0..NumCpus /\ nextCpu[t] < NumCpus
      BY <1>2 DEF InsertDpc
    <3> QED BY <3>1 DEF Cpus
  <2>2. [thread |-> t, call |-> call[t]] \in [thread : Threads, call : 1..MaxCalls]
    <3>1. call[t] \in 0..MaxCalls /\ call[t] > 0
      BY <1>2 DEF InsertDpc, ControlInv
    <3>2. call[t] \in 1..MaxCalls
      BY <3>1
    <3> QED BY <3>2
  <2>3. dpcQueue' \in [Cpus -> Seq([thread : Threads, call : 1..MaxCalls])]
    BY <1>2, <2>1, <2>2, AppendElements DEF InsertDpc
  <2>4. nextCpu' \in [Threads -> 0..NumCpus]
    BY <1>2, <2>1 DEF InsertDpc
  <2>5. callPc' \in [Threads -> {"idle", "insert", "ipi", "spin"}]
    BY <1>2 DEF InsertDpc
  <2>6. \A u \in Threads : callPc'[u] = "insert" => nextCpu'[u] < NumCpus
    <3>1. /\ nextCpu'[t] = nextCpu[t] + 1
          /\ callPc'[t] = "insert" => nextCpu[t] + 1 # NumCpus
      BY <1>2 DEF InsertDpc
    <3>2. callPc'[t] = "insert" => nextCpu'[t] < NumCpus
      BY <2>1, <3>1
    <3>3. \A u \in Threads : u # t => callPc'[u] = callPc[u] /\ nextCpu'[u] = nextCpu[u]
      BY <1>2 DEF InsertDpc
    <3> QED BY <3>2, <3>3
  <2>7. ControlInv'
    BY <1>2, <2>1 DEF InsertDpc, ControlInv
  <2> QED BY <1>2, <2>3, <2>4, <2>5, <2>6, <2>7 DEF InsertDpc
<1>3. CASE AllocationFails(t)
  <2>1. failures' \in 0..MaxFailures
    BY <1>3 DEF AllocationFails
  <2>2. status' \in [Threads -> {"none", "success", "insufficient"}]
    BY <1>3 DEF AllocationFails
  <2>3. callPc' = [callPc EXCEPT ![t] = "idle"]
    BY <1>3 DEF AllocationFails
  <2>4. UNCHANGED <<level, call, nextCpu, ipiCounter, dpcCounter, dpcQueue, dpcPc, ran, wild>>
    BY <1>3 DEF AllocationFails
  <2>5. ControlInv'
    BY <2>3, <2>4 DEF ControlInv
  <2> QED BY <2>1, <2>2, <2>3, <2>4, <2>5
<1>4. CASE KeIpiGenericCall(t)
  <2>1. ipiCounter' \in [Threads -> Nat]
    BY <1>4 DEF KeIpiGenericCall
  <2>2. ran' \in [Threads -> [Cpus -> Nat]]
    <3>1. [c \in Cpus |-> ran[t][c] + 1] \in [Cpus -> Nat]
      OBVIOUS
    <3> QED BY <1>4, <3>1 DEF KeIpiGenericCall
  <2> QED BY <1>4, <2>1, <2>2 DEF KeIpiGenericCall, ControlInv
<1>5. CASE SpinDone(t)
  BY <1>5 DEF SpinDone, ControlInv
<1> QED BY <1>1, <1>2, <1>3, <1>4, <1>5 DEF Caller

\* The steps of a DPC.
LEMMA DpcKeepsType ==
  ASSUME TypeOK, ControlInv, FrameInv, NEW c \in Cpus, IptGenericDpcFunction(c)
  PROVE  TypeOK' /\ ControlInv'
<1>0. /\ dpcQueue[c] # <<>> /\ dpcQueue[c] \in Seq(DpcType)
      /\ Current(c) \in DpcType /\ Tail(dpcQueue[c]) \in Seq(DpcType)
      /\ Current(c).thread \in Threads
  <2>1. dpcQueue[c] # <<>> /\ dpcQueue[c] \in Seq(DpcType) /\ Distinct(dpcQueue[c])
    BY DEF IptGenericDpcFunction, DpcFunction, DpcCount, TypeOK, DpcType, FrameInv
  <2>2. Head(dpcQueue[c]) \in DpcType /\ Tail(dpcQueue[c]) \in Seq(DpcType)
    BY <2>1, TailElements
  <2> QED BY <2>1, <2>2 DEF Current, DpcType
<1>1. ControlInv'
  BY DEF IptGenericDpcFunction, DpcFunction, DpcCount, ControlInv
<1>2. wild' \in BOOLEAN
  BY DEF IptGenericDpcFunction, DpcFunction, DpcCount
<1>3. CASE DpcFunction(c)
  <2>1. ran' \in [Threads -> [Cpus -> Nat]]
    <3> DEFINE t == Current(c).thread
    <3>1. \/ ran' = ran
          \/ ran' = [ran EXCEPT ![t] = [ran[t] EXCEPT ![c] = ran[t][c] + 1]]
      BY <1>0, <1>3 DEF DpcFunction, TypeOK
    <3>2. [ran[t] EXCEPT ![c] = ran[t][c] + 1] \in [Cpus -> Nat]
      <4>1. ran[t] \in [Cpus -> Nat]
        BY <1>0 DEF TypeOK
      <4>2. ran[t][c] + 1 \in Nat
        BY <4>1
      <4> QED BY <4>1, <4>2
    <3> QED BY <1>0, <3>1, <3>2 DEF TypeOK
  <2> QED BY <1>1, <1>2, <1>3, <2>1 DEF DpcFunction, TypeOK
<1>4. CASE DpcCount(c)
  <2>1. dpcCounter' \in [Threads -> Nat]
    <3>1. dpcCounter \in [Threads -> Nat] /\ dpcCounter[Current(c).thread] + 1 \in Nat
      <4>1. dpcCounter \in [Threads -> Nat]
        BY DEF TypeOK
      <4>2. dpcCounter[Current(c).thread] \in Nat
        BY <1>0, <4>1
      <4> QED BY <4>1, <4>2
    <3>2. \/ dpcCounter' = dpcCounter
          \/ dpcCounter' = [dpcCounter EXCEPT ![Current(c).thread]
                              = dpcCounter[Current(c).thread] + 1]
      BY <1>4 DEF DpcCount
    <3> QED BY <3>1, <3>2
  <2>2. dpcQueue' \in [Cpus -> Seq(DpcType)]
    BY <1>0, <1>4 DEF DpcCount, TypeOK, DpcType
  <2> QED BY <1>1, <1>2, <1>4, <2>1, <2>2 DEF DpcCount, TypeOK, DpcType
<1> QED BY <1>3, <1>4 DEF IptGenericDpcFunction

-----------------------------------------------------------------------------
(* Frames, counters and runs.                                              *)

\* A queued DPC is of a thread, and it is the thread's own when its call is
\* the current one.
LEMMA QueuedDpc ==
  ASSUME TypeOK, NEW c \in Cpus, NEW d \in Elements(dpcQueue[c])
  PROVE  /\ d \in DpcType /\ d.thread \in Threads /\ d.call \in Nat
         /\ d.call = call[d.thread] => d = Own(d.thread)
<1>1. dpcQueue[c] \in Seq(DpcType)
  BY DEF TypeOK, DpcType
<1>2. d \in DpcType
  BY <1>1 DEF Elements
<1> QED BY <1>2, PerCoreSyncAssumption DEF DpcType, Own

\* The processors can be counted.
LEMMA CpusFinite == IsFiniteSet(Cpus) /\ Cardinality(Cpus) = NumCpus
  BY NumCpusPositive, FS_Interval DEF Cpus

\* A counter that has reached the number of processors has all of them.
LEMMA CountedFinite ==
  ASSUME NEW t
  PROVE  IsFiniteSet(Counted(t)) /\ (Cardinality(Counted(t)) = NumCpus => Counted(t) = Cpus)
<1>1. Counted(t) \in SUBSET Cpus
  BY DEF Counted, Inserted
<1> QED BY <1>1, CpusFinite, FS_Subset

\* PtwExecuteAndWaitPerCore is entered: no DPC is of the new call, and when
\* nothing has failed none is of an old one.
LEMMA EnterKeepsSync ==
  ASSUME SyncInv, NEW t \in Threads, NEW l \in {"Ipi", "Dpc"}, PtwExecuteAndWaitPerCore(t, l)
  PROVE  FrameInv' /\ CountInv' /\ RanOnceEverywhere'
<1> USE DEF PtwExecuteAndWaitPerCore, Goto
<1>0. /\ TypeOK /\ ControlInv /\ FrameInv /\ CountInv /\ RanOnceEverywhere
      /\ callPc[t] = "idle" /\ UNCHANGED <<dpcQueue, dpcPc, failures, wild, status>>
      /\ call \in [Threads -> Nat]
  <2>1. TypeOK /\ ControlInv /\ FrameInv /\ CountInv /\ RanOnceEverywhere
    BY DEF SyncInv
  <2>2. callPc[t] = "idle" /\ UNCHANGED <<dpcQueue, dpcPc, failures, wild, status>>
    OBVIOUS
  <2>3. call \in [Threads -> 0..MaxCalls] /\ MaxCalls \in Nat
    BY <2>1, PerCoreSyncAssumption DEF TypeOK
  <2>4. call \in [Threads -> Nat]
    BY <2>3
  <2> QED BY <2>1, <2>2, <2>4
<1>1. call' = [call EXCEPT ![t] = call[t] + 1]
  OBVIOUS
<1>2. ASSUME NEW u \in Threads, u # t
      PROVE  /\ callPc'[u] = callPc[u] /\ level'[u] = level[u] /\ call'[u] = call[u]
             /\ nextCpu'[u] = nextCpu[u] /\ dpcCounter'[u] = dpcCounter[u] /\ ran'[u] = ran[u]
             /\ Inserted(u)' = Inserted(u) /\ InFlight(u)' = InFlight(u)
             /\ Counted(u)' = Counted(u) /\ HasRun(u)' = HasRun(u)
  <2>1. /\ callPc'[u] = callPc[u] /\ level'[u] = level[u] /\ call'[u] = call[u]
        /\ nextCpu'[u] = nextCpu[u] /\ dpcCounter'[u] = dpcCounter[u] /\ ran'[u] = ran[u]
    BY <1>2 DEF SyncInv, TypeOK
  <2>2. Own(u)' = Own(u)
    BY <2>1 DEF Own
  <2>3. Inserted(u)' = Inserted(u) /\ InFlight(u)' = InFlight(u)
    BY <1>0, <2>1, <2>2 DEF Inserted, InFlight
  <2> QED BY <1>0, <2>1, <2>2, <2>3 DEF Counted, HasRun, Current
<1>3. /\ callPc'[t] # "idle" /\ callPc'[t] # "spin" /\ call'[t] = call[t] + 1
      /\ nextCpu'[t] = 0 /\ dpcCounter'[t] = 0 /\ ran'[t] = Nowhere
  BY DEF SyncInv, TypeOK
<1>4. FrameInv'
  <2>1. WildNeedsFailure'
    BY <1>0 DEF FrameInv, WildNeedsFailure
  <2>2. ASSUME NEW c \in Cpus, NEW d \in Elements(dpcQueue[c])
        PROVE  /\ d.call <= call'[d.thread]
               /\ d.call = call'[d.thread] =>
                    c \in Inserted(d.thread)' /\ level'[d.thread] = "Dpc"
               /\ failures = 0 => FrameAlive(d)'
    <3>1. d.thread \in Threads /\ d.call \in Nat /\ d.call <= call[d.thread]
      BY <1>0, QueuedDpc DEF FrameInv
    <3>2. CASE d.thread = t
      <4>1. ~FrameAlive(d)
        BY <1>0, <3>2 DEF FrameAlive
      <4>2. failures # 0
        BY <1>0, <4>1 DEF FrameInv
      <4>3. d.call < call'[t] /\ call'[t] \in Nat
        BY <1>0, <1>3, <3>1, <3>2
      <4> QED BY <3>1, <3>2, <4>2, <4>3
    <3>3. CASE d.thread # t
      BY <1>0, <1>2, <3>1, <3>3 DEF FrameInv, FrameAlive
    <3> QED BY <3>2, <3>3
  <2> QED BY <1>0, <2>1, <2>2 DEF FrameInv
<1>5. CountInv'
  <2> SUFFICES ASSUME ~wild, NEW u \in Threads, callPc'[u] # "idle"
               PROVE  CallCounted(u)'
    BY <1>0 DEF CountInv
  <2>1. CASE u # t
    BY <1>0, <1>2, <2>1 DEF CountInv, CallCounted
  <2>2. CASE u = t
    <3>1. Inserted(t)' = {}
      BY <1>3, NumCpusPositive DEF Inserted, Cpus
    <3>2. Counted(t)' = {} /\ HasRun(t)' = {}
      BY <3>1 DEF Counted, HasRun
    <3> QED BY <1>3, <2>2, <3>2, FS_EmptySet DEF Nowhere, CallCounted
  <2> QED BY <2>1, <2>2
<1>6. RanOnceEverywhere'
  BY <1>0, <1>2, <1>3 DEF RanOnceEverywhere
<1> QED BY <1>4, <1>5, <1>6

\* A call whose DPCs stay where they are is counted as before.
LEMMA CallUntouched ==
  ASSUME NEW u \in Threads, call'[u] = call[u], nextCpu'[u] = nextCpu[u],
         \A c \in Cpus : Own(u) \in Elements(dpcQueue'[c]) <=> Own(u) \in Elements(dpcQueue[c]),
         \A c \in Cpus : Own(u) \in Elements(dpcQueue[c]) =>
           (Head(dpcQueue'[c]) = Own(u) /\ dpcPc'[c] = "count"
              <=> Head(dpcQueue[c]) = Own(u) /\ dpcPc[c] = "count")
  PROVE  /\ Own(u)' = Own(u) /\ Inserted(u)' = Inserted(u) /\ InFlight(u)' = InFlight(u)
         /\ Counted(u)' = Counted(u) /\ HasRun(u)' = HasRun(u)
<1>1. Own(u)' = Own(u)
  BY DEF Own
<1>2. Inserted(u)' = Inserted(u) /\ InFlight(u)' = InFlight(u)
  BY <1>1 DEF Inserted, InFlight
<1>3. HasRun(u)' = HasRun(u)
  <2>1. \A c \in Inserted(u) : c \in HasRun(u)' <=> c \in HasRun(u)
    BY <1>1, <1>2 DEF HasRun, InFlight, Inserted, Current
  <2> QED BY <1>2, <2>1 DEF HasRun
<1> QED BY <1>1, <1>2, <1>3 DEF Counted

\* The loop inserts the DPC of its call on the next processor.
LEMMA InsertKeepsSync ==
  ASSUME SyncInv, NEW t \in Threads, InsertDpc(t)
  PROVE  FrameInv' /\ CountInv' /\ RanOnceEverywhere'
<1> DEFINE n == nextCpu[t]
<1>0. /\ TypeOK /\ ControlInv /\ FrameInv /\ CountInv /\ RanOnceEverywhere
      /\ callPc[t] = "insert" /\ level[t] = "Dpc" /\ n \in Cpus /\ n \in Nat
  <2>1. TypeOK /\ ControlInv /\ FrameInv /\ CountInv /\ RanOnceEverywhere
    BY DEF SyncInv
  <2>2. callPc[t] = "insert"
    BY DEF InsertDpc
  <2>3. level[t] = "Dpc"
    BY <2>1, <2>2 DEF ControlInv
  <2>4. n \in 0..NumCpus /\ n < NumCpus
    BY <2>1, <2>2 DEF TypeOK
  <2> QED BY <2>1, <2>2, <2>3, <2>4, NumCpusPositive DEF Cpus
<1>1. /\ UNCHANGED <<level, call, dpcCounter, status, dpcPc, ran, failures, wild>>
      /\ dpcQueue' = [dpcQueue EXCEPT ![n] = Append(dpcQueue[n], Own(t))]
      /\ nextCpu' = [nextCpu EXCEPT ![t] = n + 1]
      /\ \E l \in {"ipi", "insert"} : callPc' = [callPc EXCEPT ![t] = l]
  BY DEF InsertDpc, Goto, Own
<1>2. Own(t) \in DpcType /\ dpcQueue[n] \in Seq(DpcType)
  <2>1. call[t] \in 0..MaxCalls /\ call[t] > 0
    BY <1>0 DEF ControlInv, TypeOK
  <2>2. call[t] \in 1..MaxCalls
    BY <2>1
  <2> QED BY <1>0, <2>2 DEF TypeOK, DpcType, Own
<1>3. Own(t) \notin Elements(dpcQueue[n])
  <2>1. Own(t).thread = t /\ Own(t).call = call[t]
    BY DEF Own
  <2> QED BY <1>0, <2>1 DEF FrameInv, Inserted
<1>4. /\ dpcQueue'[n] # <<>>
      /\ Elements(dpcQueue'[n]) = Elements(dpcQueue[n]) \cup {Own(t)}
      /\ Head(dpcQueue'[n]) = IF dpcQueue[n] = <<>> THEN Own(t) ELSE Head(dpcQueue[n])
      /\ Distinct(dpcQueue'[n])
  <2>1. dpcQueue'[n] = Append(dpcQueue[n], Own(t))
    BY <1>0, <1>1 DEF TypeOK
  <2> QED BY <1>0, <1>2, <1>3, <2>1, AppendElements DEF FrameInv
<1>5. \A c \in Cpus : c # n => dpcQueue'[c] = dpcQueue[c]
  BY <1>0, <1>1 DEF TypeOK
<1>6. nextCpu'[t] = n + 1 /\ \A u \in Threads : u # t => nextCpu'[u] = nextCpu[u]
  BY <1>0, <1>1 DEF TypeOK
<1>7. /\ callPc'[t] \in {"ipi", "insert"}
      /\ \A u \in Threads : u # t => callPc'[u] = callPc[u]
      /\ \A u \in Threads : callPc'[u] # "idle" <=> callPc[u] # "idle"
  BY <1>0, <1>1 DEF TypeOK
<1>8. dpcQueue[n] = <<>> => Elements(dpcQueue[n]) = {} /\ dpcPc[n] # "count"
  BY <1>0 DEF Elements, FrameInv
<1> HIDE DEF n
<1>9. /\ Inserted(t)' = Inserted(t) \cup {n} /\ n \notin Inserted(t)
      /\ \A u \in Threads : Inserted(u) \subseteq Inserted(u)'
  <2>1. \A c \in Cpus : c < n + 1 <=> c < n \/ c = n
    BY <1>0, NumCpusPositive DEF Cpus
  <2> QED BY <1>0, <1>6, <2>1 DEF Inserted, n
<1>10. FrameInv'
  <2>1. ASSUME NEW c \in Cpus, NEW d \in Elements(dpcQueue'[c])
        PROVE  /\ d.call <= call[d.thread]
               /\ d.call = call[d.thread] =>
                    c \in Inserted(d.thread)' /\ level[d.thread] = "Dpc"
               /\ failures = 0 => FrameAlive(d)'
    <3>1. CASE d = Own(t) /\ c = n
      <4>1. d.thread = t /\ d.call = call[t] /\ call[t] \in Nat
        BY <1>0, <3>1, PerCoreSyncAssumption DEF Own, TypeOK
      <4> QED BY <1>0, <1>1, <1>7, <1>9, <3>1, <4>1 DEF FrameAlive
    <3>2. CASE d \in Elements(dpcQueue[c])
      <4>1. d.thread \in Threads
        BY <1>0, <3>2, QueuedDpc
      <4> QED BY <1>0, <1>1, <1>7, <1>9, <3>2, <4>1 DEF FrameInv, FrameAlive
    <3> QED BY <1>4, <1>5, <3>1, <3>2
  <2>2. \A c \in Cpus : Distinct(dpcQueue'[c]) /\ (dpcPc'[c] = "count" => dpcQueue'[c] # <<>>)
    BY <1>0, <1>1, <1>4, <1>5 DEF FrameInv
  <2>3. WildNeedsFailure'
    BY <1>0, <1>1 DEF FrameInv, WildNeedsFailure
  <2> QED BY <1>1, <2>1, <2>2, <2>3 DEF FrameInv
<1>11. CountInv'
  <2> SUFFICES ASSUME ~wild, NEW u \in Threads, callPc'[u] # "idle"
               PROVE  CallCounted(u)'
    BY <1>1 DEF CountInv
  <2>0. CallCounted(u)
    BY <1>0, <1>7 DEF CountInv
  <2>1. CASE u # t
    <3>1. Own(u) # Own(t)
      BY <2>1 DEF Own
    <3>2. /\ \A c \in Cpus : Own(u) \in Elements(dpcQueue'[c])
                               <=> Own(u) \in Elements(dpcQueue[c])
          /\ \A c \in Cpus : Own(u) \in Elements(dpcQueue[c]) =>
               Head(dpcQueue'[c]) = Head(dpcQueue[c])
      BY <1>4, <1>5, <1>8, <3>1
    <3>3. Counted(u)' = Counted(u) /\ HasRun(u)' = HasRun(u)
      BY <1>1, <1>6, <2>1, <3>2, CallUntouched
    <3> QED BY <1>1, <1>7, <2>0, <2>1, <3>3 DEF CallCounted
  <2>2. CASE u = t
    <3>1. Own(t)' = Own(t)
      BY <1>1 DEF Own
    <3>2. InFlight(t)' = InFlight(t) \cup {n} /\ n \notin InFlight(t)
      BY <1>0, <1>3, <1>4, <1>5, <3>1 DEF InFlight
    <3>3. Counted(t)' = Counted(t)
      BY <1>9, <3>2 DEF Counted
    <3>4. ~(Head(dpcQueue'[n]) = Own(t) /\ dpcPc[n] = "count")
      <4>1. CASE dpcQueue[n] = <<>>
        BY <1>8, <4>1
      <4>2. CASE dpcQueue[n] # <<>>
        <5>1. Head(dpcQueue[n]) \in Elements(dpcQueue[n])
          BY <1>0, <1>2, <4>2, TailElements DEF FrameInv
        <5> QED BY <1>3, <1>4, <4>2, <5>1
      <4> QED BY <4>1, <4>2
    <3>5. HasRun(t)' = HasRun(t)
      <4>1. \A c \in Inserted(t) : c # n /\ c \in Cpus
        BY <1>9 DEF Inserted
      <4>2. \A c \in Inserted(t) : c \in HasRun(t)' <=> c \in HasRun(t)
        BY <1>1, <1>5, <1>9, <3>1, <3>2, <4>1 DEF HasRun, Current
      <4>3. n \notin HasRun(t)'
        BY <1>1, <3>1, <3>2, <3>4 DEF HasRun, Current
      <4> QED BY <1>9, <4>2, <4>3 DEF HasRun
    <3> QED BY <1>0, <1>1, <2>0, <2>2, <3>3, <3>5 DEF CallCounted
  <2> QED BY <2>1, <2>2
<1>12. RanOnceEverywhere'
  <2>1. \A u \in Threads : callPc'[u] = "idle" => callPc[u] = "idle"
    BY <1>7
  <2> QED BY <1>0, <1>1, <2>1 DEF RanOnceEverywhere
<1> QED BY <1>10, <1>11, <1>12

\* A step of the caller that leaves its DPCs alone changes no one's counts.
LEMMA DpcsUntouched ==
  ASSUME UNCHANGED <<call, nextCpu, dpcQueue, dpcPc>>, NEW u \in Threads
  PROVE  Counted(u)' = Counted(u) /\ HasRun(u)' = HasRun(u) /\ Inserted(u)' = Inserted(u)
  BY CallUntouched

\* The allocation of a KDPC fails: the frames of the DPCs inserted are dead.
LEMMA FailureKeepsSync ==
  ASSUME SyncInv, NEW t \in Threads, AllocationFails(t)
  PROVE  FrameInv' /\ CountInv' /\ RanOnceEverywhere'
<1>0. TypeOK /\ FrameInv /\ CountInv /\ RanOnceEverywhere
  BY DEF SyncInv
<1>1. /\ UNCHANGED <<level, call, nextCpu, dpcCounter, dpcQueue, dpcPc, ran, wild>>
      /\ failures' = failures + 1 /\ failures' # 0 /\ failures' > 0
      /\ status' = [status EXCEPT ![t] = "insufficient"]
      /\ callPc' = [callPc EXCEPT ![t] = "idle"]
  <2>1. failures \in 0..MaxFailures /\ MaxFailures \in Nat
    BY <1>0, PerCoreSyncAssumption DEF TypeOK
  <2> QED BY <2>1 DEF AllocationFails, Goto
<1>2. FrameInv'
  <2>1. \A u \in Threads : Inserted(u)' = Inserted(u)
    BY <1>1, DpcsUntouched
  <2>2. \A c \in Cpus : \A d \in Elements(dpcQueue[c]) : d.thread \in Threads
    BY <1>0, QueuedDpc
  <2> QED BY <1>0, <1>1, <2>1, <2>2 DEF FrameInv, WildNeedsFailure
<1>3. CountInv'
  <2> SUFFICES ASSUME ~wild, NEW u \in Threads, callPc'[u] # "idle"
               PROVE  CallCounted(u)'
    BY <1>1 DEF CountInv
  <2>1. callPc'[u] = callPc[u]
    BY <1>0, <1>1 DEF TypeOK
  <2>2. CallCounted(u)
    BY <1>0, <2>1 DEF CountInv
  <2> QED BY <1>1, <2>1, <2>2, DpcsUntouched DEF CallCounted
<1>4. RanOnceEverywhere'
  BY <1>0, <1>1 DEF RanOnceEverywhere, TypeOK
<1> QED BY <1>2, <1>3, <1>4

\* The inter-processor interrupt: at its level it runs the routine everywhere.
LEMMA IpiKeepsSync ==
  ASSUME SyncInv, NEW t \in Threads, KeIpiGenericCall(t)
  PROVE  FrameInv' /\ CountInv' /\ RanOnceEverywhere'
<1>0. TypeOK /\ FrameInv /\ CountInv /\ RanOnceEverywhere
  BY DEF SyncInv
<1>1. /\ UNCHANGED <<level, call, nextCpu, dpcCounter, status, dpcQueue, dpcPc, failures, wild>>
      /\ callPc[t] = "ipi" /\ callPc' = [callPc EXCEPT ![t] = "spin"]
      /\ ran' = IF level[t] = "Ipi"
                THEN [ran EXCEPT ![t] = [c \in Cpus |-> ran[t][c] + 1]] ELSE ran
  BY DEF KeIpiGenericCall, Goto
<1>2. /\ callPc'[t] = "spin"
      /\ \A u \in Threads : u # t => callPc'[u] = callPc[u] /\ ran'[u] = ran[u]
      /\ \A u \in Threads : callPc'[u] # "idle" <=> callPc[u] # "idle"
      /\ level[t] = "Ipi" => ran'[t] = [c \in Cpus |-> ran[t][c] + 1]
      /\ level[t] = "Dpc" => ran'[t] = ran[t]
  BY <1>0, <1>1 DEF TypeOK
<1>3. FrameInv'
  <2>1. \A u \in Threads : Inserted(u)' = Inserted(u)
    BY <1>1, DpcsUntouched
  <2>2. ASSUME NEW c \in Cpus, NEW d \in Elements(dpcQueue[c])
        PROVE  d.thread \in Threads /\ (FrameAlive(d)' <=> FrameAlive(d))
    BY <1>0, <1>1, <1>2, QueuedDpc DEF FrameAlive
  <2> QED BY <1>0, <1>1, <2>1, <2>2 DEF FrameInv, WildNeedsFailure
<1>4. CountInv'
  <2> SUFFICES ASSUME ~wild, NEW u \in Threads, callPc'[u] # "idle"
               PROVE  CallCounted(u)'
    BY <1>1 DEF CountInv
  <2>1. CallCounted(u)
    BY <1>0, <1>2 DEF CountInv
  <2>2. Counted(u)' = Counted(u) /\ HasRun(u)' = HasRun(u)
    BY <1>1, DpcsUntouched
  <2>3. CASE u # t
    BY <1>1, <1>2, <2>1, <2>2, <2>3 DEF CallCounted
  <2>4. CASE u = t /\ level[t] = "Dpc"
    BY <1>1, <1>2, <2>1, <2>2, <2>4 DEF CallCounted
  <2>5. CASE u = t /\ level[t] = "Ipi"
    BY <1>1, <1>2, <2>1, <2>5 DEF CallCounted
  <2>6. level[u] \in {"Ipi", "Dpc"}
    BY <1>0 DEF TypeOK
  <2> QED BY <2>3, <2>4, <2>5, <2>6
<1>5. RanOnceEverywhere'
  <2>1. \A u \in Threads : callPc'[u] = "idle" => callPc[u] = "idle" /\ u # t
    BY <1>2
  <2> QED BY <1>0, <1>1, <1>2, <2>1 DEF RanOnceEverywhere
<1> QED BY <1>3, <1>4, <1>5

\* The wait ends: the DPCs of the call have all counted, and so are gone.
LEMMA SpinKeepsSync ==
  ASSUME SyncInv, NEW t \in Threads, SpinDone(t)
  PROVE  FrameInv' /\ CountInv' /\ RanOnceEverywhere'
<1>0. TypeOK /\ ControlInv /\ FrameInv /\ CountInv /\ RanOnceEverywhere
  BY DEF SyncInv
<1>1. /\ UNCHANGED <<level, call, nextCpu, dpcCounter, dpcQueue, dpcPc, ran, failures, wild>>
      /\ callPc[t] = "spin" /\ callPc' = [callPc EXCEPT ![t] = "idle"]
      /\ status' = [status EXCEPT ![t] = "success"]
      /\ level[t] = "Dpc" => dpcCounter[t] = NumCpus
  BY DEF SpinDone, Goto
<1>2. \A u \in Threads : u # t => callPc'[u] = callPc[u] /\ status'[u] = status[u]
  BY <1>0, <1>1 DEF TypeOK
<1>3. ~wild => /\ level[t] = "Dpc" => Inserted(t) \cap InFlight(t) = {}
               /\ \A c \in Cpus : ran[t][c] = 1
  <2> SUFFICES ASSUME ~wild
               PROVE  /\ level[t] = "Dpc" => Inserted(t) \cap InFlight(t) = {}
                      /\ \A c \in Cpus : ran[t][c] = 1
    OBVIOUS
  <2>1. CallCounted(t)
    BY <1>0, <1>1 DEF CountInv
  <2>2. CASE level[t] = "Dpc"
    <3>1. Counted(t) = Cpus
      BY <1>1, <2>1, <2>2, CountedFinite DEF CallCounted
    <3>2. HasRun(t) = Cpus
      BY <3>1 DEF Counted, HasRun, Inserted
    <3> QED BY <2>1, <2>2, <3>1, <3>2 DEF CallCounted, Counted, Inserted
  <2>3. CASE level[t] = "Ipi"
    BY <1>1, <2>1, <2>3 DEF CallCounted
  <2> QED BY <1>0, <2>2, <2>3 DEF TypeOK
<1>4. FrameInv'
  <2>1. \A u \in Threads : Inserted(u)' = Inserted(u)
    BY <1>1, DpcsUntouched
  <2>2. ASSUME NEW c \in Cpus, NEW d \in Elements(dpcQueue[c]), failures = 0
        PROVE  d.thread \in Threads /\ FrameAlive(d)'
    <3>1. d.thread \in Threads /\ d.call = call[d.thread] /\ callPc[d.thread] # "idle"
      BY <1>0, <2>2, QueuedDpc DEF FrameInv, FrameAlive
    <3>2. d = Own(d.thread) /\ c \in Inserted(d.thread) /\ level[d.thread] = "Dpc"
      BY <1>0, <3>1, QueuedDpc DEF FrameInv
    <3>3. ~wild
      BY <1>0, <2>2 DEF FrameInv, WildNeedsFailure, TypeOK
    <3>4. d.thread # t
      BY <1>3, <3>2, <3>3 DEF InFlight
    <3> QED BY <1>1, <1>2, <3>1, <3>4 DEF FrameAlive
  <2>3. \A c \in Cpus : \A d \in Elements(dpcQueue[c]) : d.thread \in Threads
    BY <1>0, QueuedDpc
  <2> QED BY <1>0, <1>1, <2>1, <2>2, <2>3 DEF FrameInv, WildNeedsFailure
<1>5. CountInv'
  <2> SUFFICES ASSUME ~wild, NEW u \in Threads, callPc'[u] # "idle"
               PROVE  CallCounted(u)'
    BY <1>1 DEF CountInv
  <2>1. callPc'[u] = callPc[u]
    BY <1>0, <1>1 DEF TypeOK
  <2>2. CallCounted(u)
    BY <1>0, <2>1 DEF CountInv
  <2> QED BY <1>1, <2>1, <2>2, DpcsUntouched DEF CallCounted
<1>6. RanOnceEverywhere'
  <2>1. ~wild => ran[t] = [c \in Cpus |-> 1]
    BY <1>0, <1>3 DEF TypeOK
  <2> QED BY <1>0, <1>1, <1>2, <2>1 DEF RanOnceEverywhere
<1> QED BY <1>4, <1>5, <1>6

\* IptGenericDpcFunction reads the level and runs the routine.
LEMMA FunctionKeepsSync ==
  ASSUME SyncInv, NEW c \in Cpus, DpcFunction(c)
  PROVE  FrameInv' /\ CountInv' /\ RanOnceEverywhere'
<1> SUFFICES ASSUME NEW d, d = Current(c), NEW t, t = d.thread
             PROVE  FrameInv' /\ CountInv' /\ RanOnceEverywhere'
  OBVIOUS
<1>0. TypeOK /\ FrameInv /\ CountInv /\ RanOnceEverywhere
  BY DEF SyncInv
<1>1. /\ UNCHANGED <<callPc, level, call, nextCpu, dpcCounter, status, dpcQueue, failures>>
      /\ dpcQueue[c] # <<>> /\ dpcPc[c] = "function"
      /\ dpcPc' = [dpcPc EXCEPT ![c] = "count"]
      /\ wild' = (wild \/ ~FrameAlive(d))
      /\ ~wild' => ran' = IF level[t] = "Dpc" THEN [ran EXCEPT ![t][c] = @ + 1] ELSE ran
  BY DEF DpcFunction
<1>2. d \in Elements(dpcQueue[c]) /\ d \in DpcType /\ t \in Threads
  <2>1. dpcQueue[c] \in Seq(DpcType) /\ Distinct(dpcQueue[c])
    BY <1>0 DEF TypeOK, DpcType, FrameInv
  <2>2. Head(dpcQueue[c]) \in DpcType /\ Head(dpcQueue[c]) \in Elements(dpcQueue[c])
    BY <1>1, <2>1, TailElements
  <2>3. d = Head(dpcQueue[c])
    BY DEF Current
  <2> QED BY <2>2, <2>3 DEF DpcType
<1>3. \A u \in Threads : /\ Own(u)' = Own(u) /\ Inserted(u)' = Inserted(u)
                          /\ InFlight(u)' = InFlight(u) /\ Counted(u)' = Counted(u)
  BY <1>1 DEF Own, Inserted, InFlight, Counted
<1>4. FrameInv'
  <2>1. wild' => failures > 0
    BY <1>0, <1>1, <1>2 DEF FrameInv, WildNeedsFailure, TypeOK
  <2>2. \A e \in Cpus : \A k \in Elements(dpcQueue[e]) : k.thread \in Threads
    BY <1>0, QueuedDpc
  <2>3. \A e \in Cpus : dpcPc'[e] = "count" => dpcQueue[e] # <<>>
    BY <1>0, <1>1 DEF FrameInv, TypeOK
  <2> QED BY <1>0, <1>1, <1>3, <2>1, <2>2, <2>3 DEF FrameInv, WildNeedsFailure, FrameAlive
<1>5. CASE wild'
  BY <1>4, <1>5 DEF CountInv, RanOnceEverywhere
<1>6. CASE ~wild'
  <2>1. /\ ~wild /\ FrameAlive(d) /\ callPc[t] # "idle" /\ d = Own(t)
        /\ c \in Inserted(t) /\ c \in InFlight(t) /\ level[t] = "Dpc"
    <3>1. ~wild /\ FrameAlive(d)
      BY <1>1, <1>6
    <3>2. callPc[t] # "idle" /\ call[t] = d.call
      BY <3>1 DEF FrameAlive
    <3>3. d = Own(t)
      BY <1>0, <1>2, <3>2, QueuedDpc
    <3> QED BY <1>0, <1>2, <3>1, <3>2, <3>3 DEF FrameInv, InFlight
  <2>2. ran' = [ran EXCEPT ![t] = [ran[t] EXCEPT ![c] = ran[t][c] + 1]]
    BY <1>0, <1>1, <1>2, <1>6, <2>1 DEF TypeOK
  <2>3. /\ \A u \in Threads : u # t => ran'[u] = ran[u]
        /\ ran'[t][c] = ran[t][c] + 1
        /\ \A e \in Cpus : e # c => ran'[t][e] = ran[t][e]
    BY <1>0, <1>2, <2>2 DEF TypeOK
  <2>4. \A e \in Cpus : e # c => dpcPc'[e] = dpcPc[e]
    BY <1>0, <1>1 DEF TypeOK
  <2>5. dpcPc'[c] = "count"
    BY <1>0, <1>1 DEF TypeOK
  <2>6. \A u \in Threads : u # t => Own(u) # d
    BY <1>2 DEF Own, DpcType
  <2>7. ASSUME NEW u \in Threads, u # t PROVE HasRun(u)' = HasRun(u)
    BY <1>1, <1>3, <2>4, <2>6, <2>7 DEF HasRun, Current
  <2>8. c \notin HasRun(t) /\ HasRun(t)' = HasRun(t) \cup {c}
    <3>1. c \notin HasRun(t)
      BY <1>1, <2>1 DEF HasRun
    <3>2. \A e \in Inserted(t) : e \in HasRun(t)' <=> e \in HasRun(t) \/ e = c
      BY <1>1, <1>2, <1>3, <2>1, <2>4, <2>5 DEF HasRun, Current, Inserted
    <3> QED BY <1>2, <1>3, <2>1, <3>1, <3>2 DEF HasRun
  <2>9. CountInv'
    <3> SUFFICES ASSUME NEW u \in Threads, callPc[u] # "idle" PROVE CallCounted(u)'
      BY <1>1 DEF CountInv
    <3>1. CallCounted(u)
      BY <1>0, <2>1 DEF CountInv
    <3>2. CASE u # t
      BY <1>1, <1>3, <2>3, <2>7, <3>1, <3>2 DEF CallCounted
    <3>3. CASE u = t
      <4>1. ran[t][c] = 0
        BY <2>1, <2>8, <3>1, <3>3 DEF CallCounted
      <4>2. ran'[t][c] = 1
        BY <2>3, <4>1
      <4>3. \A e \in Cpus : ran'[t][e] = IF e \in HasRun(t)' THEN 1 ELSE 0
        BY <2>1, <2>3, <2>8, <3>1, <3>3, <4>2 DEF CallCounted
      <4>4. dpcCounter'[t] = Cardinality(Counted(t)') /\ level'[t] = "Dpc"
        BY <1>1, <1>2, <1>3, <2>1, <3>1, <3>3 DEF CallCounted
      <4> QED BY <3>3, <4>3, <4>4 DEF CallCounted
    <3> QED BY <3>2, <3>3
  <2>10. RanOnceEverywhere'
    BY <1>0, <1>1, <2>1, <2>3 DEF RanOnceEverywhere
  <2> QED BY <1>4, <2>9, <2>10
<1> QED BY <1>5, <1>6

\* The interlocked increment, with which the DPC leaves its queue.
LEMMA CountKeepsSync ==
  ASSUME SyncInv, NEW c \in Cpus, DpcCount(c)
  PROVE  FrameInv' /\ CountInv' /\ RanOnceEverywhere'
<1> SUFFICES ASSUME NEW d, d = Current(c), NEW t, t = d.thread
             PROVE  FrameInv' /\ CountInv' /\ RanOnceEverywhere'
  OBVIOUS
<1>0. TypeOK /\ FrameInv /\ CountInv /\ RanOnceEverywhere
  BY DEF SyncInv
<1>1. /\ UNCHANGED <<callPc, level, call, nextCpu, status, ran, failures>>
      /\ dpcQueue[c] # <<>> /\ dpcPc[c] = "count"
      /\ dpcPc' = [dpcPc EXCEPT ![c] = "function"]
      /\ dpcQueue' = [dpcQueue EXCEPT ![c] = Tail(dpcQueue[c])]
      /\ wild' = (wild \/ ~FrameAlive(d))
      /\ ~wild' => dpcCounter' = [dpcCounter EXCEPT ![t] = dpcCounter[t] + 1]
  BY DEF DpcCount
<1>2. /\ d \in Elements(dpcQueue[c]) /\ d \in DpcType /\ t \in Threads
      /\ Elements(Tail(dpcQueue[c])) = Elements(dpcQueue[c]) \ {d}
      /\ Distinct(Tail(dpcQueue[c]))
  <2>1. dpcQueue[c] \in Seq(DpcType) /\ Distinct(dpcQueue[c])
    BY <1>0 DEF TypeOK, DpcType, FrameInv
  <2>2. /\ Head(dpcQueue[c]) \in DpcType /\ Head(dpcQueue[c]) \in Elements(dpcQueue[c])
        /\ Elements(Tail(dpcQueue[c])) = Elements(dpcQueue[c]) \ {Head(dpcQueue[c])}
        /\ Distinct(Tail(dpcQueue[c]))
    BY <1>1, <2>1, TailElements
  <2>3. d = Head(dpcQueue[c])
    BY DEF Current
  <2> QED BY <2>2, <2>3 DEF DpcType
<1>3. /\ dpcQueue'[c] = Tail(dpcQueue[c]) /\ dpcPc'[c] = "function"
      /\ \A e \in Cpus : e # c => dpcQueue'[e] = dpcQueue[e] /\ dpcPc'[e] = dpcPc[e]
  BY <1>0, <1>1 DEF TypeOK
<1>4. FrameInv'
  <2>1. wild' => failures > 0
    BY <1>0, <1>1, <1>2 DEF FrameInv, WildNeedsFailure, TypeOK
  <2>2. \A e \in Cpus : \A k \in Elements(dpcQueue'[e]) :
          k \in Elements(dpcQueue[e]) /\ k.thread \in Threads
    BY <1>0, <1>2, <1>3, QueuedDpc
  <2>3. \A e \in Cpus : /\ Distinct(dpcQueue'[e])
                        /\ dpcPc'[e] = "count" => dpcQueue'[e] # <<>>
    BY <1>0, <1>2, <1>3 DEF FrameInv
  <2>4. \A u \in Threads : Inserted(u)' = Inserted(u)
    BY <1>1 DEF Inserted
  <2> QED BY <1>0, <1>1, <2>1, <2>2, <2>3, <2>4 DEF FrameInv, WildNeedsFailure, FrameAlive
<1>5. CASE wild'
  BY <1>4, <1>5 DEF CountInv, RanOnceEverywhere
<1>6. CASE ~wild'
  <2>1. /\ ~wild /\ callPc[t] # "idle" /\ d = Own(t)
        /\ c \in Inserted(t) /\ c \in InFlight(t) /\ level[t] = "Dpc"
    <3>1. ~wild /\ FrameAlive(d)
      BY <1>1, <1>6
    <3>2. callPc[t] # "idle" /\ call[t] = d.call
      BY <3>1 DEF FrameAlive
    <3>3. d = Own(t)
      BY <1>0, <1>2, <3>2, QueuedDpc
    <3> QED BY <1>0, <1>2, <3>1, <3>2, <3>3 DEF FrameInv, InFlight
  <2>2. /\ dpcCounter'[t] = dpcCounter[t] + 1
        /\ \A u \in Threads : u # t => dpcCounter'[u] = dpcCounter[u]
    BY <1>0, <1>1, <1>2, <1>6 DEF TypeOK
  <2>3. \A u \in Threads : u # t => Own(u) # d
    BY <1>2 DEF Own, DpcType
  <2>4. Own(t)' = Own(t) /\ Inserted(t)' = Inserted(t)
    BY <1>1 DEF Own, Inserted
  <2>5. InFlight(t)' = InFlight(t) \ {c}
    <3>1. \A e \in Cpus : e \in InFlight(t)' <=> e \in InFlight(t) /\ e # c
      BY <1>2, <1>3, <2>1, <2>4 DEF InFlight
    <3> QED BY <3>1 DEF InFlight
  <2>6. c \notin Counted(t) /\ Counted(t)' = Counted(t) \cup {c}
    BY <2>1, <2>4, <2>5 DEF Counted
  <2>7. Cardinality(Counted(t)') = Cardinality(Counted(t)) + 1
    BY <2>6, CountedFinite, FS_AddElement
  <2>8. HasRun(t)' = HasRun(t)
    <3>1. \A e \in Inserted(t) : e \in HasRun(t)' <=> e \in HasRun(t)
      BY <1>1, <1>3, <2>1, <2>4, <2>5 DEF HasRun, Current
    <3> QED BY <2>4, <3>1 DEF HasRun
  <2>9. ASSUME NEW u \in Threads, u # t
        PROVE  Counted(u)' = Counted(u) /\ HasRun(u)' = HasRun(u)
    <3>1. call'[u] = call[u] /\ nextCpu'[u] = nextCpu[u] /\ Own(u)' = Own(u) /\ Own(u) # d
      BY <1>1, <2>3, <2>9 DEF Own
    <3>2. Inserted(u)' = Inserted(u) /\ InFlight(u)' = InFlight(u)
      BY <1>1, <1>2, <1>3, <3>1 DEF Inserted, InFlight
    <3>3. \A e \in Inserted(u) : e \in HasRun(u)' <=> e \in HasRun(u)
      BY <1>3, <3>1, <3>2 DEF HasRun, Current, Inserted
    <3> QED BY <3>2, <3>3 DEF Counted, HasRun
  <2>10. CountInv'
    <3> SUFFICES ASSUME NEW u \in Threads, callPc[u] # "idle" PROVE CallCounted(u)'
      BY <1>1 DEF CountInv
    <3>1. CallCounted(u)
      BY <1>0, <2>1 DEF CountInv
    <3>2. callPc' = callPc /\ level' = level /\ ran' = ran
      BY <1>1
    <3>3. CASE u # t
      <4>1. /\ Counted(u)' = Counted(u) /\ HasRun(u)' = HasRun(u)
            /\ dpcCounter'[u] = dpcCounter[u]
        BY <2>2, <2>9, <3>3
      <4> QED BY <3>1, <3>2, <4>1 DEF CallCounted
    <3>4. CASE u = t
      <4>1. dpcCounter'[t] = Cardinality(Counted(t)')
        BY <2>1, <2>2, <2>7, <3>1, <3>4 DEF CallCounted
      <4> QED BY <2>1, <2>8, <3>1, <3>2, <3>4, <4>1 DEF CallCounted
    <3> QED BY <3>3, <3>4
  <2>11. RanOnceEverywhere'
    BY <1>0, <1>1, <2>1 DEF RanOnceEverywhere
  <2> QED BY <1>4, <2>10, <2>11
<1> QED BY <1>5, <1>6

-----------------------------------------------------------------------------
\* Every reachable state is one of the inductive invariant: the counters and
\* the queued DPCs of a call agree, so the wait of PtwExecuteAndWaitPerCore
\* cannot end before its last DPC has counted.
THEOREM SyncInvariant == Spec => []SyncInv
<1>1. Init => SyncInv
  <2> SUFFICES ASSUME Init PROVE SyncInv
    OBVIOUS
  <2> USE DEF Init
  <2>1. TypeOK
    <3>1. /\ dpcQueue \in [Cpus -> Seq([thread : Threads, call : 1..MaxCalls])]
          /\ ran \in [Threads -> [Cpus -> Nat]]
      BY DEF Nowhere
    <3>2. /\ call \in [Threads -> 0..MaxCalls] /\ nextCpu \in [Threads -> 0..NumCpus]
          /\ failures \in 0..MaxFailures
      BY PerCoreSyncAssumption
    <3>3. /\ callPc \in [Threads -> {"idle", "insert", "ipi", "spin"}]
          /\ level \in [Threads -> {"Ipi", "Dpc"}]
          /\ status \in [Threads -> {"none", "success", "insufficient"}]
          /\ \A t \in Threads : callPc[t] = "insert" => nextCpu[t] < NumCpus
      OBVIOUS
    <3>4. /\ ipiCounter \in [Threads -> Nat] /\ dpcCounter \in [Threads -> Nat]
          /\ dpcPc \in [Cpus -> {"function", "count"}] /\ wild \in BOOLEAN
      OBVIOUS
    <3> QED BY <3>1, <3>2, <3>3, <3>4 DEF TypeOK
  <2>2. ControlInv
    BY DEF ControlInv
  <2>3. FrameInv
    <3>1. Distinct(<<>>) /\ Elements(<<>>) = {}
      BY DEF Distinct, Elements
    <3> QED BY <3>1 DEF FrameInv, WildNeedsFailure
  <2>4. CountInv /\ RanOnceEverywhere
    BY DEF CountInv, RanOnceEverywhere
  <2> QED BY <2>1, <2>2, <2>3, <2>4 DEF SyncInv
<1>2. SyncInv /\ [Next]_vars => SyncInv'
  <2> SUFFICES ASSUME SyncInv, [Next]_vars PROVE SyncInv'
    OBVIOUS
  <2>0. TypeOK /\ ControlInv /\ FrameInv
    BY DEF SyncInv
  <2>1. ASSUME NEW t \in Threads, NEW l \in {"Ipi", "Dpc"}, PtwExecuteAndWaitPerCore(t, l)
        PROVE  SyncInv'
    BY <2>0, <2>1, CallerKeepsType, EnterKeepsSync DEF SyncInv
  <2>2. ASSUME NEW t \in Threads, Caller(t) PROVE SyncInv'
    <3>1. TypeOK' /\ ControlInv'
      BY <2>0, <2>2, CallerKeepsType
    <3>2. FrameInv' /\ CountInv' /\ RanOnceEverywhere'
      BY <2>2, InsertKeepsSync, FailureKeepsSync, IpiKeepsSync, SpinKeepsSync DEF Caller
    <3> QED BY <3>1, <3>2 DEF SyncInv
  <2>3. ASSUME NEW c \in Cpus, IptGenericDpcFunction(c) PROVE SyncInv'
    <3>1. TypeOK' /\ ControlInv'
      BY <2>0, <2>3, DpcKeepsType
    <3>2. FrameInv' /\ CountInv' /\ RanOnceEverywhere'
      BY <2>3, FunctionKeepsSync, CountKeepsSync DEF IptGenericDpcFunction
    <3> QED BY <3>1, <3>2 DEF SyncInv
  <2>4. CASE UNCHANGED vars
    <3>1. TypeOK' /\ ControlInv'
      BY <2>0, <2>4 DEF vars, TypeOK, ControlInv
    <3>2. \A t \in Threads : Inserted(t)' = Inserted(t) /\ Counted(t)' = Counted(t)
                              /\ HasRun(t)' = HasRun(t)
      BY <2>4, DpcsUntouched DEF vars
    <3>3. FrameInv'
      <4>1. \A c \in Cpus : \A d \in Elements(dpcQueue[c]) : d.thread \in Threads
        BY <2>0, QueuedDpc
      <4> QED BY <2>0, <2>4, <3>2, <4>1 DEF vars, FrameInv, WildNeedsFailure, FrameAlive
    <3>4. CountInv' /\ RanOnceEverywhere'
      BY <2>4, <3>2 DEF vars, SyncInv, CountInv, CallCounted, RanOnceEverywhere
    <3> QED BY <3>1, <3>3, <3>4 DEF SyncInv
  <2> QED BY <2>1, <2>2, <2>3, <2>4 DEF Next
<1> QED BY <1>1, <1>2, PTL DEF Spec

\* Callers, counters and DPC queues have the declared types; in particular
\* the loop never inserts a DPC for a processor that does not exist.
THEOREM TypeCorrect == Spec => []TypeOK
<1>1. SyncInv => TypeOK
  BY DEF SyncInv
<1> QED BY <1>1, SyncInvariant, PTL

\* A DPC uses a dead stack frame only after the allocation of a KDPC failed.
THEOREM FramesOutliveDpcs == Spec => []WildNeedsFailure
<1>1. SyncInv => WildNeedsFailure
  BY DEF SyncInv, FrameInv
<1> QED BY <1>1, SyncInvariant, PTL

\* A call that returns success has run its routine exactly once on every
\* processor, at either level, unless a loose DPC of an abandoned call ran.
THEOREM SuccessMeansRanOnce == Spec => []RanOnceEverywhere
<1>1. SyncInv => RanOnceEverywhere
  BY DEF SyncInv
<1> QED BY <1>1, SyncInvariant, PTL
=============================================================================
