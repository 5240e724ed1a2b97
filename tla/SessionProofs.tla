---------------------------- MODULE SessionProofs ----------------------------
(***************************************************************************)
(* Proofs about the sessions of TraceControl for every number of           *)
(* processors and traced processes: while traced processes follow each     *)
(* other and no IptDpc runs outside a session, no setup meets a running    *)
(* trace, the ids identify the packets, and the FIRST packet of a sequence *)
(* leads it.  The three rest on one invariant: a processor that is set up  *)
(* belongs to the one process that is under way, and whatever a routine    *)
(* has in hand was stamped with the counters of its sequence.              *)
(***************************************************************************)
EXTENDS TraceControlProofs, FiniteSetTheorems

-----------------------------------------------------------------------------
(* The broadcasts.                                                         *)

Settingup == {"insertSetup", "spinSetup"}
Disabling == {"insertDisable", "spinDisable"}

\* Processors at which the DPC of process p is queued.
Queued(p) == {c \in Cpus : \E i \in 1..Len(dpcQueue[c]) : dpcQueue[c][i].owner = p}

\* A DPC is there for the callback that inserted it, one per processor.
OwnerInv ==
  \A c \in Cpus : \A i \in 1..Len(dpcQueue[c]) :
    /\ dpcQueue[c][i].routine = "IptDpc" <=> dpcQueue[c][i].owner = NoProc
    /\ dpcQueue[c][i].routine = "PtwIpiPerCoreSetup" => hookPc[dpcQueue[c][i].owner] \in Settingup
    /\ dpcQueue[c][i].routine = "PtwDpcPerCoreDisable" => hookPc[dpcQueue[c][i].owner] \in Disabling
    /\ \A j \in 1..Len(dpcQueue[c]) :
         dpcQueue[c][i].owner = dpcQueue[c][j].owner => i = j \/ dpcQueue[c][i].owner = NoProc

\* The counter of a broadcast counts the DPCs inserted and no longer queued.
CountInv ==
  \A p \in Procs :
    /\ hookPc[p] \notin Settingup \cup Disabling => insertCpu[p] = 0
    /\ hookPc[p] \in {"spinSetup", "spinDisable"} => insertCpu[p] = NumCpus
    /\ \A c \in Queued(p) : c < insertCpu[p]
    /\ dpcCount[p] + Cardinality(Queued(p)) = insertCpu[p]

\* The labels of a routine are its own.
RoutineInv ==
  \A c \in Cpus :
    /\ pc[c] \in DataSteps \cup {"resetPmi"} => Head(dpcQueue[c]).routine = "IptDpc"
    /\ pc[c] \in LastSteps \cup {"collect"} => Head(dpcQueue[c]).routine = "PtwDpcPerCoreDisable"
    /\ pc[c] \in {"writeEnable", "checkEnable", "markEnabled"} =>
         Head(dpcQueue[c]).routine # "PtwDpcPerCoreDisable"

BroadcastInv == OwnerInv /\ CountInv /\ RoutineInv

-----------------------------------------------------------------------------
(* The sessions.                                                           *)

Active(p) == hookPc[p] \notin {"unloaded", "gone"}

Opening == {"increase", "reset", "stampSeq", "stampId", "enqueue"}

\* Process p has set up processor c and has not yet disabled it.
Holds(p, c) ==
  \/ hookPc[p] \in Settingup /\ c < insertCpu[p]
  \/ hookPc[p] = "traced"
  \/ hookPc[p] = "insertDisable" /\ (c >= insertCpu[p] \/ c \in Queued(p))
  \/ hookPc[p] = "spinDisable" /\ c \in Queued(p)

\* Tracing needs a session, and the steps of IptDpc and IptEnableTrace fall
\* into it; a setup that has not begun finds the processor free.
LiveAt(c) ==
  /\ traceEn[c] => live[c]
  /\ pc[c] \in DataSteps \cup {"resetPmi", "writeEnable", "checkEnable", "markEnabled"} => live[c]
  /\ pc[c] \in LastSteps \cup {"collect"} => ~live[c]
  /\ live[c] => \E p \in Procs : Holds(p, c)
  /\ \A i \in 1..Len(dpcQueue[c]) :
       dpcQueue[c][i].routine = "PtwIpiPerCoreSetup" /\ (i > 1 \/ pc[c] = "idle") => ~live[c]

LiveInv == \A c \in Cpus : LiveAt(c)

\* One process at a time is under way, and the callbacks react to it.
OneInv ==
  /\ \A p, q \in Procs : Active(p) /\ Active(q) => p = q
  /\ \A p \in Procs : Active(p) /\ hookPc[p] # "clearHooked" => gProcessId = p

HookInv ==
  /\ threadHooks > 0 => exitHook
  /\ \A p \in Procs :
       hookPc[p] \in {"claim", "install", "insertSetup", "spinSetup", "traced"} => exitHook

-----------------------------------------------------------------------------
(* The ids.                                                                *)

Index == 1..Len(queue)

\* The packet in the hands of processor c has its id.
HasId(c) == pc[c] \in {"dataEnqueue", "lastSeq", "lastEnqueue"}
HasSeq(c) == pc[c] \in {"dataId", "dataEnqueue", "lastEnqueue"}

\* Packets of the sequence under way have ids below the counter; a sequence
\* that is being opened has none.
SeqInv ==
  /\ \A i \in Index : /\ queue[i].seq <= seqId
                      /\ queue[i].seq = seqId => queue[i].id < packetId
  /\ \A p \in Procs :
       /\ hookPc[p] \in Opening \ {"increase"} => \A i \in Index : queue[i].seq < seqId
       /\ hookPc[p] \in {"stampSeq", "stampId"} => packetId = 0
       /\ hookPc[p] \in {"stampId", "enqueue"} => hookDto[p].seq = seqId
       /\ hookPc[p] = "enqueue" => hookDto[p].id = 0 /\ packetId > 0

\* What is in hand belongs to the sequence under way, has an id of its own and
\* one above those of its processor.
HandAt(c) ==
  /\ pc[c] \in DataSteps \cup LastSteps => dto[c].cpu = c
  /\ HasSeq(c) => dto[c].seq = seqId
  /\ HasId(c) =>
       /\ dto[c].id < packetId
       /\ \A i \in Index : queue[i].seq = seqId =>
            /\ queue[i].id # dto[c].id
            /\ queue[i].kind # "first" /\ queue[i].cpu = c => queue[i].id < dto[c].id
       /\ \A d \in Cpus : HasId(d) /\ dto[d].id = dto[c].id => d = c

HandInv == \A c \in Cpus : HandAt(c)

IdsDiffer ==
  \A i, j \in Index :
    i < j /\ queue[i].seq = queue[j].seq =>
      /\ queue[i].id # queue[j].id
      /\ "first" \notin {queue[i].kind, queue[j].kind} /\ queue[i].cpu = queue[j].cpu
           => queue[i].id < queue[j].id

\* The sequence under way has its FIRST packet once the callbacks are registered.
Led(s) == \E i \in Index : queue[i].kind = "first" /\ queue[i].seq = s

LedAt(j) ==
  \/ queue[j].kind = "first" /\ queue[j].id = 0
  \/ \E i \in 1..(j - 1) : queue[i].kind = "first" /\ queue[i].seq = queue[j].seq

FirstInv ==
  failures = 0 =>
    /\ \A p \in Procs : Active(p) /\ hookPc[p] \notin Opening => Led(seqId)
    /\ \A j \in Index : LedAt(j)

IdInv == SeqInv /\ HandInv /\ IdsDiffer /\ FirstInv

SessionInv ==
  /\ BroadcastInv /\ HookInv
  /\ ~raced => ~bugCheck /\ LiveInv /\ OneInv /\ IdInv

-----------------------------------------------------------------------------
(* What the type invariant says of the variables below, and what the steps *)
(* do to the queue of a processor.                                         *)

\* The types of the queues, the labels and the broadcasts.
LEMMA SchedTypes ==
  ASSUME TypeOK
  PROVE  /\ dpcQueue \in [Cpus -> Seq(DpcType)] /\ pc \in [Cpus -> PcLabels]
         /\ dpcCount \in [Procs -> Nat]
         /\ hookPc \in [Procs -> HookLabels]
         /\ insertCpu \in [Procs -> 0..NumCpus] /\ NumCpus \in Nat
         /\ \A c \in Cpus : c \in Nat /\ (pc[c] # "idle" => dpcQueue[c] # <<>>)
  BY CoreTraceAssumption DEF TypeOK, CoreTypeOK, SchedTypeOK, HookLabels, Cpus

\* The types of the registers, the packets and the counters.
LEMMA RegTypes ==
  ASSUME TypeOK
  PROVE  /\ traceEn \in [Cpus -> BOOLEAN] /\ live \in [Cpus -> BOOLEAN]
         /\ dto \in [Cpus -> PacketType \cup {NoDto}] /\ queue \in Seq(PacketType)
         /\ seqId \in Nat /\ packetId \in Nat /\ failures \in Nat
         /\ hookDto \in [Procs -> [seq : Nat, id : Nat]]
         /\ topaMdl \in [Cpus -> Nat] /\ threadHooks \in Nat
  BY DEF TypeOK, CoreTypeOK, RegTypeOK, DtoTypeOK

\* The DPC that runs is the first of its queue.
LEMMA HeadIsFirst ==
  ASSUME TypeOK, NEW c \in Cpus, dpcQueue[c] # <<>>
  PROVE  /\ 1 \in 1..Len(dpcQueue[c]) /\ Head(dpcQueue[c]) = dpcQueue[c][1]
         /\ dpcQueue[c][1] \in DpcType /\ dpcQueue[c][1].owner \in Procs \cup {NoProc}
<1>1. dpcQueue[c] \in Seq(DpcType)
  BY SchedTypes
<1>2. 1 \in 1..Len(dpcQueue[c]) /\ Head(dpcQueue[c]) = dpcQueue[c][1]
  BY <1>1
<1>3. dpcQueue[c][1] \in DpcType
  BY <1>1, <1>2
<1> QED BY <1>2, <1>3 DEF DpcType

\* KeInsertQueueDpc puts a DPC behind those that wait.
LEMMA Inserted ==
  ASSUME TypeOK, NEW c \in Cpus, NEW x,
         dpcQueue' = [dpcQueue EXCEPT ![c] = Append(@, x)]
  PROVE  /\ \A d \in Cpus : d # c => dpcQueue'[d] = dpcQueue[d]
         /\ Len(dpcQueue[c]) \in Nat /\ Len(dpcQueue'[c]) = Len(dpcQueue[c]) + 1
         /\ \A i \in 1..Len(dpcQueue[c]) : dpcQueue'[c][i] = dpcQueue[c][i]
         /\ dpcQueue'[c][Len(dpcQueue[c]) + 1] = x
<1>1. dpcQueue[c] \in Seq(DpcType) /\ dpcQueue'[c] = Append(dpcQueue[c], x)
  BY SchedTypes
<1>2. \A d \in Cpus : d # c => dpcQueue'[d] = dpcQueue[d]
  BY SchedTypes
<1> QED BY <1>1, <1>2

\* The routine that returns leaves the queue.
LEMMA Returned ==
  ASSUME TypeOK, NEW c \in Cpus, dpcQueue[c] # <<>>, Return(c)
  PROVE  /\ \A d \in Cpus : d # c => dpcQueue'[d] = dpcQueue[d] /\ pc'[d] = pc[d]
         /\ pc'[c] = "idle"
         /\ Len(dpcQueue[c]) \in Nat /\ Len(dpcQueue'[c]) = Len(dpcQueue[c]) - 1
         /\ \A i \in 1..Len(dpcQueue'[c]) : /\ i + 1 \in 1..Len(dpcQueue[c])
                                           /\ dpcQueue'[c][i] = dpcQueue[c][i + 1]
         /\ \A i \in 1..Len(dpcQueue[c]) :
              i # 1 => i - 1 \in 1..Len(dpcQueue'[c]) /\ dpcQueue'[c][i - 1] = dpcQueue[c][i]
<1>1. dpcQueue[c] \in Seq(DpcType) /\ dpcQueue'[c] = Tail(dpcQueue[c])
  BY SchedTypes DEF Return
<1>2. \A d \in Cpus : d # c => dpcQueue'[d] = dpcQueue[d] /\ pc'[d] = pc[d]
  BY SchedTypes DEF Return, Goto
<1>3. pc'[c] = "idle"
  BY SchedTypes DEF Return, Goto
<1>4. Len(dpcQueue[c]) \in Nat /\ Len(dpcQueue'[c]) = Len(dpcQueue[c]) - 1
  BY <1>1
<1>5. \A i \in 1..Len(dpcQueue'[c]) : i + 1 \in 1..Len(dpcQueue[c])
                                      /\ dpcQueue'[c][i] = dpcQueue[c][i + 1]
  BY <1>1
<1>6. \A i \in 1..Len(dpcQueue[c]) : i # 1 => i - 1 \in 1..Len(dpcQueue'[c]) /\ (i - 1) + 1 = i
  BY <1>4
<1>7. \A i \in 1..Len(dpcQueue[c]) : i # 1 => dpcQueue'[c][i - 1] = dpcQueue[c][i]
  BY <1>5, <1>6
<1> QED BY <1>2, <1>3, <1>4, <1>5, <1>6, <1>7

-----------------------------------------------------------------------------
(* The broadcasts: the steps of a processor.                               *)

\* While the queues, the counters and the callbacks stay, so does what is
\* known of the broadcasts.
LEMMA QueuesKept ==
  ASSUME OwnerInv, CountInv, UNCHANGED <<dpcQueue, dpcCount, hookPc, insertCpu>>
  PROVE  OwnerInv' /\ CountInv'
  BY DEF OwnerInv, CountInv, Queued

\* A DPC of nobody waits behind the others (PmiPause).
LEMMA PauseKeepsBroadcasts ==
  ASSUME TypeOK, BroadcastInv, NEW c \in Cpus,
         dpcQueue' = [dpcQueue EXCEPT ![c] = Append(@, Dpc("IptDpc", NoProc))],
         UNCHANGED <<pc, dpcCount, hookPc, insertCpu>>
  PROVE  /\ BroadcastInv' /\ \A p \in Procs : Queued(p)' = Queued(p)
         /\ dpcQueue[c] # <<>> => Head(dpcQueue'[c]) = Head(dpcQueue[c])
<1>0. OwnerInv /\ CountInv /\ RoutineInv /\ NoProc \notin Procs
  BY CoreTraceAssumption DEF BroadcastInv
<1>1. Dpc("IptDpc", NoProc).owner = NoProc /\ Dpc("IptDpc", NoProc).routine = "IptDpc"
  BY DEF Dpc
<1>2. \A d \in Cpus : \A i \in 1..Len(dpcQueue'[d]) :
        \/ i \in 1..Len(dpcQueue[d]) /\ dpcQueue'[d][i] = dpcQueue[d][i]
        \/ dpcQueue'[d][i] = Dpc("IptDpc", NoProc)
  BY Inserted
<1>3. \A d \in Cpus : \A i \in 1..Len(dpcQueue[d]) :
        i \in 1..Len(dpcQueue'[d]) /\ dpcQueue'[d][i] = dpcQueue[d][i]
  BY Inserted
<1>4. OwnerInv'
  <2> SUFFICES ASSUME NEW d \in Cpus, NEW i \in 1..Len(dpcQueue'[d])
               PROVE  /\ dpcQueue'[d][i].routine = "IptDpc" <=> dpcQueue'[d][i].owner = NoProc
                      /\ dpcQueue'[d][i].routine = "PtwIpiPerCoreSetup"
                           => hookPc[dpcQueue'[d][i].owner] \in Settingup
                      /\ dpcQueue'[d][i].routine = "PtwDpcPerCoreDisable"
                           => hookPc[dpcQueue'[d][i].owner] \in Disabling
                      /\ \A j \in 1..Len(dpcQueue'[d]) :
                           dpcQueue'[d][i].owner = dpcQueue'[d][j].owner
                             => i = j \/ dpcQueue'[d][i].owner = NoProc
    BY DEF OwnerInv
  <2> QED BY <1>0, <1>1, <1>2 DEF OwnerInv
<1>5. \A p \in Procs : Queued(p)' = Queued(p)
  <2> SUFFICES ASSUME NEW p \in Procs, NEW d \in Cpus
               PROVE  (\E i \in 1..Len(dpcQueue'[d]) : dpcQueue'[d][i].owner = p)
                        <=> (\E i \in 1..Len(dpcQueue[d]) : dpcQueue[d][i].owner = p)
    BY DEF Queued
  <2> QED BY <1>0, <1>1, <1>2, <1>3
<1>6. CountInv'
  BY <1>0, <1>5 DEF CountInv
<1>7. \A d \in Cpus : dpcQueue[d] # <<>> => Head(dpcQueue'[d]) = Head(dpcQueue[d])
  <2> SUFFICES ASSUME NEW d \in Cpus, dpcQueue[d] # <<>>
               PROVE  Head(dpcQueue'[d]) = Head(dpcQueue[d])
    OBVIOUS
  <2>1. dpcQueue[d] \in Seq(DpcType)
    BY SchedTypes
  <2>2. dpcQueue'[d] = dpcQueue[d] \/ dpcQueue'[d] = Append(dpcQueue[d], Dpc("IptDpc", NoProc))
    BY SchedTypes
  <2>3. Dpc("IptDpc", NoProc) \in DpcType
    BY DEF Dpc, DpcType
  <2> QED BY <2>1, <2>2, <2>3
<1>8. RoutineInv'
  BY <1>0, <1>7, SchedTypes, Labels DEF RoutineInv
<1> QED BY <1>4, <1>5, <1>6, <1>7, <1>8 DEF BroadcastInv

\* The routine at the head of the queue goes on to a label of its own.
Fits(routine, l) ==
  /\ l \in DataSteps \cup {"resetPmi"} => routine = "IptDpc"
  /\ l \in LastSteps \cup {"collect"} => routine = "PtwDpcPerCoreDisable"
  /\ l \in {"writeEnable", "checkEnable", "markEnabled"} => routine # "PtwDpcPerCoreDisable"

\* A DPC that goes on to its next step stays the head of its queue.
LEMMA ContinueKeepsBroadcasts ==
  ASSUME TypeOK, BroadcastInv, NEW c \in Cpus, NEW l, Continue(c, l),
         Fits(Head(dpcQueue[c]).routine, l), UNCHANGED <<hookPc, insertCpu>>
  PROVE  BroadcastInv' /\ \A p \in Procs : Queued(p)' = Queued(p)
<1>1. UNCHANGED <<dpcQueue, dpcCount>> /\ pc' = [pc EXCEPT ![c] = l]
  BY DEF Continue, Goto
<1>2. RoutineInv'
  BY <1>1, SchedTypes DEF RoutineInv, BroadcastInv, Fits
<1> QED BY <1>1, <1>2, QueuesKept DEF BroadcastInv, Queued

\* The queued DPCs of a broadcast can be counted.
LEMMA QueuedFinite == ASSUME TypeOK, NEW p PROVE IsFiniteSet(Queued(p))
<1>1. IsFiniteSet(Cpus)
  BY SchedTypes, FS_Interval DEF Cpus
<1> QED BY <1>1, FS_Subset DEF Queued

\* The DPC of a broadcast is counted when it leaves the queue, and it is the
\* only one of its owner there.
LEMMA ReturnKeepsBroadcasts ==
  ASSUME TypeOK, BroadcastInv, NEW c \in Cpus, dpcQueue[c] # <<>>, Return(c),
         UNCHANGED <<hookPc, insertCpu>>
  PROVE  /\ BroadcastInv'
         /\ \A p \in Procs : Queued(p)' = IF p = Head(dpcQueue[c]).owner THEN Queued(p) \ {c}
                                          ELSE Queued(p)
<1> SUFFICES ASSUME NEW o, o = Head(dpcQueue[c]).owner
             PROVE  /\ BroadcastInv'
                    /\ \A p \in Procs : Queued(p)' = IF p = o THEN Queued(p) \ {c} ELSE Queued(p)
  OBVIOUS
<1>0. /\ OwnerInv /\ CountInv /\ RoutineInv /\ NoProc \notin Procs
      /\ 1 \in 1..Len(dpcQueue[c]) /\ dpcQueue[c][1].owner = o /\ o \in Procs \cup {NoProc}
  BY CoreTraceAssumption, HeadIsFirst DEF BroadcastInv
<1>1. OwnerInv'
  <2> SUFFICES ASSUME NEW d \in Cpus, NEW i \in 1..Len(dpcQueue'[d])
               PROVE  /\ dpcQueue'[d][i].routine = "IptDpc" <=> dpcQueue'[d][i].owner = NoProc
                      /\ dpcQueue'[d][i].routine = "PtwIpiPerCoreSetup"
                           => hookPc[dpcQueue'[d][i].owner] \in Settingup
                      /\ dpcQueue'[d][i].routine = "PtwDpcPerCoreDisable"
                           => hookPc[dpcQueue'[d][i].owner] \in Disabling
                      /\ \A j \in 1..Len(dpcQueue'[d]) :
                           dpcQueue'[d][i].owner = dpcQueue'[d][j].owner
                             => i = j \/ dpcQueue'[d][i].owner = NoProc
    BY DEF OwnerInv
  <2>1. \E n \in {0, 1} : \A j \in 1..Len(dpcQueue'[d]) :
          j + n \in 1..Len(dpcQueue[d]) /\ dpcQueue'[d][j] = dpcQueue[d][j + n]
    <3>1. CASE d # c
      <4>1. dpcQueue'[d] = dpcQueue[d]
        BY <3>1, Returned
      <4>2. \A j \in 1..Len(dpcQueue[d]) : j + 0 = j
        OBVIOUS
      <4> QED BY <4>1, <4>2
    <3>2. CASE d = c
      BY <3>2, Returned
    <3> QED BY <3>1, <3>2
  <2>2. PICK k \in 1..Len(dpcQueue[d]) :
          /\ dpcQueue'[d][i] = dpcQueue[d][k]
          /\ \A j \in 1..Len(dpcQueue'[d]) :
               \E m \in 1..Len(dpcQueue[d]) :
                 dpcQueue'[d][j] = dpcQueue[d][m] /\ (m = k => i = j)
    <3>1. \A j \in 1..Len(dpcQueue'[d]) : \A n \in {0, 1} : j + n = i + n => i = j
      OBVIOUS
    <3> QED BY <2>1, <3>1
  <2>3. /\ dpcQueue[d][k].routine = "IptDpc" <=> dpcQueue[d][k].owner = NoProc
        /\ dpcQueue[d][k].routine = "PtwIpiPerCoreSetup"
             => hookPc[dpcQueue[d][k].owner] \in Settingup
        /\ dpcQueue[d][k].routine = "PtwDpcPerCoreDisable"
             => hookPc[dpcQueue[d][k].owner] \in Disabling
        /\ \A m \in 1..Len(dpcQueue[d]) :
             dpcQueue[d][k].owner = dpcQueue[d][m].owner
               => k = m \/ dpcQueue[d][k].owner = NoProc
    BY <1>0 DEF OwnerInv
  <2> QED BY <2>2, <2>3
<1>2. ASSUME NEW p \in Procs
      PROVE  Queued(p)' = IF p = o THEN Queued(p) \ {c} ELSE Queued(p)
  <2>1. ASSUME NEW d \in Cpus, d # c PROVE d \in Queued(p)' <=> d \in Queued(p)
    BY <2>1, Returned DEF Queued
  <2>2. CASE p # o
    <3>1. ASSUME c \in Queued(p) PROVE c \in Queued(p)'
      <4>1. PICK i \in 1..Len(dpcQueue[c]) : dpcQueue[c][i].owner = p
        BY <3>1 DEF Queued
      <4>2. i # 1
        BY <1>0, <2>2, <4>1
      <4>3. i - 1 \in 1..Len(dpcQueue'[c]) /\ dpcQueue'[c][i - 1].owner = p
        BY <4>1, <4>2, Returned
      <4> QED BY <4>3 DEF Queued
    <3>2. ASSUME c \in Queued(p)' PROVE c \in Queued(p)
      BY <3>2, Returned DEF Queued
    <3>3. \A d \in Queued(p)' : d \in Queued(p)
      BY <2>1, <3>2 DEF Queued
    <3>4. \A d \in Queued(p) : d \in Queued(p)'
      BY <2>1, <3>1 DEF Queued
    <3> QED BY <2>2, <3>3, <3>4
  <2>3. CASE p = o
    <3>1. c \notin Queued(p)'
      <4> SUFFICES ASSUME NEW i \in 1..Len(dpcQueue'[c]), dpcQueue'[c][i].owner = p
                   PROVE  FALSE
        BY DEF Queued
      <4>1. i + 1 \in 1..Len(dpcQueue[c]) /\ dpcQueue[c][i + 1].owner = p /\ i + 1 # 1
        BY Returned
      <4> QED BY <1>0, <2>3, <4>1 DEF OwnerInv
    <3>2. \A d \in Queued(p)' : d \in Queued(p) \ {c}
      BY <2>1, <3>1 DEF Queued
    <3>3. \A d \in Queued(p) \ {c} : d \in Queued(p)'
      BY <2>1 DEF Queued
    <3> QED BY <2>3, <3>2, <3>3
  <2> QED BY <2>2, <2>3
<1>3. CountInv'
  <2>1. ASSUME NEW p \in Procs
        PROVE  dpcCount'[p] + Cardinality(Queued(p)') = dpcCount[p] + Cardinality(Queued(p))
    <3>1. CASE p # o
      <4>1. dpcCount'[p] = dpcCount[p]
        BY <3>1, SchedTypes DEF Return
      <4> QED BY <1>2, <3>1, <4>1
    <3>2. CASE p = o
      <4>1. dpcCount'[p] = dpcCount[p] + 1 /\ dpcCount[p] \in Nat
        BY <1>0, <3>2, SchedTypes DEF Return
      <4>2. c \in Queued(p) /\ IsFiniteSet(Queued(p))
        BY <1>0, <3>2, QueuedFinite DEF Queued
      <4>3. Cardinality(Queued(p)') = Cardinality(Queued(p)) - 1 /\ Cardinality(Queued(p)) \in Nat
        BY <1>2, <3>2, <4>2, FS_RemoveElement, FS_CardinalityType
      <4> QED BY <4>1, <4>3
    <3> QED BY <3>1, <3>2
  <2>2. \A p \in Procs : \A d \in Queued(p)' : d \in Queued(p)
    BY <1>2
  <2> QED BY <1>0, <2>1, <2>2 DEF CountInv
<1>4. RoutineInv'
  BY <1>0, Returned, Labels DEF RoutineInv
<1> QED BY <1>1, <1>2, <1>3, <1>4 DEF BroadcastInv

-----------------------------------------------------------------------------
(* The broadcasts: the steps of the callbacks.                             *)

\* A process without a DPC moves between its callbacks; one with all its DPCs
\* inserted begins to wait.
LEMMA MoveKeepsBroadcasts ==
  ASSUME TypeOK, BroadcastInv, NEW p \in Procs, NEW l \in HookLabels, HookGoto(p, l),
         UNCHANGED <<dpcQueue, pc, dpcCount, insertCpu>>,
         \/ hookPc[p] \notin Settingup \cup Disabling /\ l \notin {"spinSetup", "spinDisable"}
         \/ hookPc[p] = "insertSetup" /\ l = "spinSetup" /\ insertCpu[p] = NumCpus
         \/ hookPc[p] = "insertDisable" /\ l = "spinDisable" /\ insertCpu[p] = NumCpus
  PROVE  BroadcastInv'
<1>0. OwnerInv /\ CountInv /\ RoutineInv
  BY DEF BroadcastInv
<1>1. /\ \A q \in Procs : q # p => hookPc'[q] = hookPc[q]
      /\ hookPc'[p] = l
  BY SchedTypes DEF HookGoto
<1>2. \A q \in Procs : Queued(q)' = Queued(q)
  BY DEF Queued
<1>3. hookPc[p] \notin Settingup \cup Disabling => insertCpu[p] = 0 /\ Queued(p) = {}
  <2> SUFFICES ASSUME hookPc[p] \notin Settingup \cup Disabling
               PROVE  insertCpu[p] = 0 /\ Queued(p) = {}
    OBVIOUS
  <2>1. insertCpu[p] = 0
    BY <1>0 DEF CountInv
  <2>2. \A c \in Queued(p) : c < 0 /\ c \in Nat
    BY <1>0, <2>1, SchedTypes DEF CountInv, Queued
  <2>3. Queued(p) = {}
    BY <2>2
  <2> QED BY <2>1, <2>3
<1>4. \A c \in Cpus : \A i \in 1..Len(dpcQueue[c]) :
        dpcQueue[c][i].owner = p => hookPc[p] \in Settingup \cup Disabling
  BY <1>3 DEF Queued
<1>5. OwnerInv'
  <2> SUFFICES ASSUME NEW c \in Cpus, NEW i \in 1..Len(dpcQueue[c]), NEW o,
                      o = dpcQueue[c][i].owner
               PROVE  /\ dpcQueue[c][i].routine = "PtwIpiPerCoreSetup" => hookPc'[o] \in Settingup
                      /\ dpcQueue[c][i].routine = "PtwDpcPerCoreDisable" => hookPc'[o] \in Disabling
    BY <1>0 DEF OwnerInv
  <2>1. o \in Procs \cup {NoProc} /\ dpcQueue[c][i] \in DpcType
    <3>1. dpcQueue[c] \in Seq(DpcType)
      BY SchedTypes
    <3>2. dpcQueue[c][i] \in DpcType
      BY <3>1
    <3> QED BY <3>2 DEF DpcType
  <2>2. CASE o = p
    BY <1>0, <1>1, <1>4, <2>2 DEF OwnerInv, Settingup, Disabling
  <2>3. CASE o \in Procs /\ o # p
    BY <1>0, <1>1, <2>3 DEF OwnerInv
  <2>4. CASE o = NoProc
    BY <1>0, <2>4 DEF OwnerInv
  <2> QED BY <2>1, <2>2, <2>3, <2>4
<1>6. CountInv'
  <2> SUFFICES ASSUME NEW q \in Procs
               PROVE  /\ hookPc'[q] \notin Settingup \cup Disabling => insertCpu[q] = 0
                      /\ hookPc'[q] \in {"spinSetup", "spinDisable"} => insertCpu[q] = NumCpus
    BY <1>0, <1>2 DEF CountInv
  <2> QED BY <1>0, <1>1, <1>3 DEF CountInv, Settingup, Disabling
<1> QED BY <1>0, <1>5, <1>6 DEF BroadcastInv, RoutineInv

\* The routine a broadcast inserts.
Serves(routine, l) ==
  \/ routine = "PtwIpiPerCoreSetup" /\ l = "insertSetup"
  \/ routine = "PtwDpcPerCoreDisable" /\ l = "insertDisable"

\* The next processor has no DPC of the broadcast yet.
LEMMA InsertKeepsBroadcasts ==
  ASSUME TypeOK, BroadcastInv, NEW p \in Procs, NEW routine, Serves(routine, hookPc[p]),
         NEW c \in Cpus, c = insertCpu[p],
         dpcQueue' = [dpcQueue EXCEPT ![c] = Append(@, Dpc(routine, p))],
         insertCpu' = [insertCpu EXCEPT ![p] = @ + 1], UNCHANGED <<pc, dpcCount, hookPc>>
  PROVE  /\ BroadcastInv' /\ c \notin Queued(p) /\ Queued(p)' = Queued(p) \cup {c}
         /\ \A q \in Procs : q # p => Queued(q)' = Queued(q)
<1>0. /\ OwnerInv /\ CountInv /\ RoutineInv /\ p # NoProc
      /\ Dpc(routine, p).owner = p /\ Dpc(routine, p).routine = routine
  BY CoreTraceAssumption DEF BroadcastInv, Dpc
<1>a. /\ \A d \in Cpus : d # c => dpcQueue'[d] = dpcQueue[d]
      /\ Len(dpcQueue[c]) \in Nat /\ Len(dpcQueue'[c]) = Len(dpcQueue[c]) + 1
      /\ \A i \in 1..Len(dpcQueue[c]) : dpcQueue'[c][i] = dpcQueue[c][i]
      /\ dpcQueue'[c][Len(dpcQueue[c]) + 1] = Dpc(routine, p)
  <2> DEFINE x == Dpc(routine, p)
  <2>1. dpcQueue' = [dpcQueue EXCEPT ![c] = Append(@, x)]
    OBVIOUS
  <2> HIDE DEF x
  <2>2. /\ \A d \in Cpus : d # c => dpcQueue'[d] = dpcQueue[d]
        /\ Len(dpcQueue[c]) \in Nat /\ Len(dpcQueue'[c]) = Len(dpcQueue[c]) + 1
        /\ \A i \in 1..Len(dpcQueue[c]) : dpcQueue'[c][i] = dpcQueue[c][i]
        /\ dpcQueue'[c][Len(dpcQueue[c]) + 1] = x
    BY <2>1, Inserted
  <2> QED BY <2>2 DEF x
<1>1. c \notin Queued(p)
  BY <1>0, SchedTypes DEF CountInv
<1>2. \A d \in Cpus : \A i \in 1..Len(dpcQueue'[d]) :
        \/ i \in 1..Len(dpcQueue[d]) /\ dpcQueue'[d][i] = dpcQueue[d][i]
        \/ d = c /\ i = Len(dpcQueue[c]) + 1 /\ dpcQueue'[d][i] = Dpc(routine, p)
  <2>0. Len(dpcQueue[c]) \in Nat /\ Len(dpcQueue'[c]) = Len(dpcQueue[c]) + 1
    BY <1>a
  <2>1. \A i \in 1..Len(dpcQueue'[c]) : i \in 1..Len(dpcQueue[c]) \/ i = Len(dpcQueue[c]) + 1
    BY <2>0
  <2> QED BY <2>1, <1>a
<1>3. \A d \in Cpus : \A i \in 1..Len(dpcQueue[d]) :
        i \in 1..Len(dpcQueue'[d]) /\ dpcQueue'[d][i] = dpcQueue[d][i]
  BY Inserted
<1>4. Len(dpcQueue[c]) + 1 \in 1..Len(dpcQueue'[c])
      /\ dpcQueue'[c][Len(dpcQueue[c]) + 1] = Dpc(routine, p)
  BY <1>a
<1>5. \A i \in 1..Len(dpcQueue[c]) : dpcQueue[c][i].owner # p
  BY <1>1 DEF Queued
<1>6. OwnerInv'
  <2> SUFFICES ASSUME NEW d \in Cpus, NEW i \in 1..Len(dpcQueue'[d])
               PROVE  /\ dpcQueue'[d][i].routine = "IptDpc" <=> dpcQueue'[d][i].owner = NoProc
                      /\ dpcQueue'[d][i].routine = "PtwIpiPerCoreSetup"
                           => hookPc[dpcQueue'[d][i].owner] \in Settingup
                      /\ dpcQueue'[d][i].routine = "PtwDpcPerCoreDisable"
                           => hookPc[dpcQueue'[d][i].owner] \in Disabling
                      /\ \A j \in 1..Len(dpcQueue'[d]) :
                           dpcQueue'[d][i].owner = dpcQueue'[d][j].owner
                             => i = j \/ dpcQueue'[d][i].owner = NoProc
    BY DEF OwnerInv
  <2>1. CASE i \in 1..Len(dpcQueue[d]) /\ dpcQueue'[d][i] = dpcQueue[d][i]
    <3>1. /\ dpcQueue[d][i].routine = "IptDpc" <=> dpcQueue[d][i].owner = NoProc
          /\ dpcQueue[d][i].routine = "PtwIpiPerCoreSetup"
               => hookPc[dpcQueue[d][i].owner] \in Settingup
          /\ dpcQueue[d][i].routine = "PtwDpcPerCoreDisable"
               => hookPc[dpcQueue[d][i].owner] \in Disabling
          /\ \A j \in 1..Len(dpcQueue[d]) :
               dpcQueue[d][i].owner = dpcQueue[d][j].owner
                 => i = j \/ dpcQueue[d][i].owner = NoProc
      BY <1>0, <2>1 DEF OwnerInv
    <3> QED BY <1>0, <1>2, <1>5, <2>1, <3>1
  <2>2. CASE d = c /\ i = Len(dpcQueue[c]) + 1 /\ dpcQueue'[d][i] = Dpc(routine, p)
    <3>1. \A j \in 1..Len(dpcQueue'[c]) : dpcQueue'[c][j].owner = p => i = j
      BY <1>2, <1>5, <2>2
    <3> QED BY <1>0, <2>2, <3>1 DEF Serves, Settingup, Disabling
  <2> QED BY <1>2, <2>1, <2>2
<1>7. \A q \in Procs : q # p => Queued(q)' = Queued(q)
  <2> SUFFICES ASSUME NEW q \in Procs, q # p, NEW d \in Cpus
               PROVE  (\E i \in 1..Len(dpcQueue'[d]) : dpcQueue'[d][i].owner = q)
                        <=> (\E i \in 1..Len(dpcQueue[d]) : dpcQueue[d][i].owner = q)
    BY DEF Queued
  <2> QED BY <1>0, <1>2, <1>3
<1>8. Queued(p)' = Queued(p) \cup {c}
  <2>1. \A d \in Queued(p)' : d \in Queued(p) \cup {c}
    BY <1>2 DEF Queued
  <2>2. \A d \in Queued(p) : d \in Queued(p)'
    BY <1>3 DEF Queued
  <2>3. c \in Queued(p)'
    BY <1>0, <1>4 DEF Queued
  <2> QED BY <2>1, <2>2, <2>3
<1>9. CountInv'
  <2>1. \A q \in Procs : q # p => insertCpu'[q] = insertCpu[q]
    BY SchedTypes
  <2>2. insertCpu'[p] = insertCpu[p] + 1 /\ insertCpu[p] \in Nat /\ dpcCount[p] \in Nat
    BY SchedTypes
  <2>3. Cardinality(Queued(p)') = Cardinality(Queued(p)) + 1 /\ Cardinality(Queued(p)) \in Nat
    BY <1>1, <1>8, QueuedFinite, FS_AddElement, FS_CardinalityType
  <2>4. hookPc[p] \in {"insertSetup", "insertDisable"}
    BY DEF Serves
  <2>5. /\ hookPc[p] \notin Settingup \cup Disabling => insertCpu'[p] = 0
        /\ hookPc[p] \in {"spinSetup", "spinDisable"} => insertCpu'[p] = NumCpus
    BY <2>4 DEF Settingup, Disabling
  <2>6. \A d \in Queued(p)' : d < insertCpu'[p]
    <3>1. \A d \in Queued(p) : d < insertCpu[p] /\ d \in Nat
      BY <1>0, SchedTypes DEF CountInv, Queued
    <3> QED BY <1>8, <2>2, <3>1
  <2>7. dpcCount'[p] + Cardinality(Queued(p)') = insertCpu'[p]
    BY <1>0, <2>2, <2>3 DEF CountInv
  <2>8. ASSUME NEW q \in Procs
        PROVE  /\ hookPc'[q] \notin Settingup \cup Disabling => insertCpu'[q] = 0
               /\ hookPc'[q] \in {"spinSetup", "spinDisable"} => insertCpu'[q] = NumCpus
               /\ \A d \in Queued(q)' : d < insertCpu'[q]
               /\ dpcCount'[q] + Cardinality(Queued(q)') = insertCpu'[q]
    <3>1. CASE q = p
      BY <2>5, <2>6, <2>7, <3>1
    <3>2. CASE q # p
      BY <1>0, <1>7, <2>1, <3>2 DEF CountInv
    <3> QED BY <3>1, <3>2
  <2> QED BY <2>8 DEF CountInv
<1>10. RoutineInv'
  <2>1. \A d \in Cpus : dpcQueue[d] # <<>> => Head(dpcQueue'[d]) = Head(dpcQueue[d])
    <3> SUFFICES ASSUME NEW d \in Cpus, dpcQueue[d] # <<>>
                 PROVE  Head(dpcQueue'[d]) = Head(dpcQueue[d])
      OBVIOUS
    <3>1. dpcQueue[d] \in Seq(DpcType)
      BY SchedTypes
    <3>2. dpcQueue'[d] = dpcQueue[d] \/ dpcQueue'[d] = Append(dpcQueue[d], Dpc(routine, p))
      BY SchedTypes
    <3>3. Dpc(routine, p) \in DpcType
      BY DEF Dpc, DpcType, Serves
    <3> QED BY <3>1, <3>2, <3>3
  <2> QED BY <1>0, <2>1, SchedTypes, Labels DEF RoutineInv
<1> QED BY <1>1, <1>6, <1>7, <1>8, <1>9, <1>10 DEF BroadcastInv

\* The wait ends when no DPC of the broadcast is queued any more.
LEMMA SpinKeepsBroadcasts ==
  ASSUME TypeOK, BroadcastInv, NEW p \in Procs, NEW from \in {"spinSetup", "spinDisable"},
         NEW to \in HookLabels \ (Settingup \cup Disabling), SpinUntilDone(p, from, to)
  PROVE  BroadcastInv' /\ Queued(p) = {} /\ \A q \in Procs : Queued(q)' = Queued(q)
<1>0. OwnerInv /\ CountInv /\ RoutineInv
  BY DEF BroadcastInv
<1>1. /\ hookPc[p] = from /\ dpcCount[p] = NumCpus /\ UNCHANGED <<dpcQueue, pc>>
      /\ dpcCount' = [dpcCount EXCEPT ![p] = 0] /\ insertCpu' = [insertCpu EXCEPT ![p] = 0]
      /\ hookPc' = [hookPc EXCEPT ![p] = to]
  BY DEF SpinUntilDone, HookGoto
<1>2. Cardinality(Queued(p)) = 0
  <2>1. dpcCount[p] + Cardinality(Queued(p)) = NumCpus
    BY <1>0, <1>1 DEF CountInv
  <2> QED BY <1>1, <2>1, SchedTypes, QueuedFinite, FS_CardinalityType
<1>3. Queued(p) = {}
  BY <1>2, QueuedFinite, FS_EmptySet
<1>4. \A q \in Procs : Queued(q)' = Queued(q)
  BY <1>1 DEF Queued
<1>5. /\ \A q \in Procs : q # p => /\ hookPc'[q] = hookPc[q] /\ dpcCount'[q] = dpcCount[q]
                                  /\ insertCpu'[q] = insertCpu[q]
      /\ hookPc'[p] = to /\ dpcCount'[p] = 0 /\ insertCpu'[p] = 0
  BY <1>1, SchedTypes
<1>6. OwnerInv'
  <2> SUFFICES ASSUME NEW c \in Cpus, NEW i \in 1..Len(dpcQueue[c]), NEW o,
                      o = dpcQueue[c][i].owner
               PROVE  /\ dpcQueue[c][i].routine = "PtwIpiPerCoreSetup" => hookPc'[o] \in Settingup
                      /\ dpcQueue[c][i].routine = "PtwDpcPerCoreDisable" => hookPc'[o] \in Disabling
    BY <1>0, <1>1 DEF OwnerInv
  <2>1. o # p /\ o \in Procs \cup {NoProc} /\ dpcQueue[c][i] \in DpcType
    <3>1. dpcQueue[c] \in Seq(DpcType)
      BY SchedTypes
    <3>2. dpcQueue[c][i] \in DpcType
      BY <3>1
    <3> QED BY <1>3, <3>2 DEF DpcType, Queued
  <2>2. CASE o \in Procs
    BY <1>0, <1>5, <2>1, <2>2 DEF OwnerInv
  <2>3. CASE o = NoProc
    BY <1>0, <2>3 DEF OwnerInv
  <2> QED BY <2>1, <2>2, <2>3
<1>7. CountInv'
  <2> SUFFICES ASSUME NEW q \in Procs
               PROVE  /\ hookPc'[q] \notin Settingup \cup Disabling => insertCpu'[q] = 0
                      /\ hookPc'[q] \in {"spinSetup", "spinDisable"} => insertCpu'[q] = NumCpus
                      /\ \A d \in Queued(q) : d < insertCpu'[q]
                      /\ dpcCount'[q] + Cardinality(Queued(q)) = insertCpu'[q]
    BY <1>4 DEF CountInv
  <2>1. CASE q = p
    BY <1>2, <1>3, <1>5, <2>1 DEF Settingup, Disabling
  <2>2. CASE q # p
    BY <1>0, <1>5, <2>2 DEF CountInv
  <2> QED BY <2>1, <2>2
<1> QED BY <1>0, <1>1, <1>3, <1>4, <1>6, <1>7 DEF BroadcastInv, RoutineInv

-----------------------------------------------------------------------------
(* The sessions: the steps of a processor.                                 *)

\* A processor works on its own state.
LEMMA OthersKept ==
  ASSUME TypeOK, NEW c \in Cpus, CoreNext(c), NEW d \in Cpus, d # c
  PROVE  /\ traceEn'[d] = traceEn[d] /\ live'[d] = live[d] /\ pc'[d] = pc[d]
         /\ dpcQueue'[d] = dpcQueue[d] /\ dto'[d] = dto[d]
<1> DEFINE Same == /\ traceEn'[d] = traceEn[d] /\ live'[d] = live[d] /\ pc'[d] = pc[d]
                   /\ dpcQueue'[d] = dpcQueue[d] /\ dto'[d] = dto[d]
<1>0. /\ dpcQueue \in [Cpus -> Seq(DpcType)] /\ pc \in [Cpus -> PcLabels]
      /\ traceEn \in [Cpus -> BOOLEAN] /\ live \in [Cpus -> BOOLEAN]
      /\ dto \in [Cpus -> PacketType \cup {NoDto}]
  BY SchedTypes, RegTypes
<1>a. ASSUME NEW l, Continue(c, l) PROVE pc'[d] = pc[d] /\ dpcQueue'[d] = dpcQueue[d]
  BY <1>0, <1>a DEF Continue, Goto
<1>b. ASSUME Return(c) PROVE pc'[d] = pc[d] /\ dpcQueue'[d] = dpcQueue[d]
  BY <1>0, <1>b DEF Return, Goto
<1>1. CASE HwTopaInt(c) \/ HwOtherPmi(c) \/ IptPmiHandler(c)
  BY <1>0, <1>1 DEF HwTopaInt, HwOtherPmi, IptPmiHandler, PmiDismissed, PmiForeign,
                    PmiForeignReset, PmiPause
<1>2. ASSUME NEW routine, IptEnableTrace(c, routine) PROVE Same
  BY <1>0, <1>a, <1>b, <1>2 DEF IptEnableTrace, WriteEnable, CheckEnable, MarkEnabled, hwVars
<1>3. ASSUME NEW routine, NEW from, NEW to,
             StampSeq(c, routine, from, to) \/ StampId(c, routine, from, to)
      PROVE  Same
  BY <1>0, <1>a, <1>3 DEF StampSeq, StampId, hwVars
<1>4. CASE SetupConfigure(c)
  BY <1>0, <1>a, <1>4 DEF SetupConfigure, hwVars
<1>5. CASE DpcRefused(c) \/ DpcUnlink(c)
  BY <1>0, <1>a, <1>b, <1>5 DEF DpcRefused, DpcUnlink, hwVars
<1>6. CASE DpcEnqueue(c) \/ DpcResume(c)
  BY <1>0, <1>a, <1>b, <1>6 DEF DpcEnqueue, DpcResume, EnqueueDto, hwVars
<1>7. CASE DisableClear(c) \/ DisableCollect(c) \/ DisableEnqueue(c)
  BY <1>0, <1>a, <1>b, <1>7 DEF DisableClear, DisableCollect, DisableEnqueue, EnqueueDto, hwVars
<1> QED BY <1>1, <1>2, <1>3, <1>4, <1>5, <1>6, <1>7
        DEF CoreNext, RunDpc, PtwIpiPerCoreSetup, IptDpc, PtwDpcPerCoreDisable

\* Where nothing changes at a processor, its share of the sessions stays.
LEMMA LiveElsewhere ==
  ASSUME NEW d, LiveAt(d), traceEn'[d] = traceEn[d], live'[d] = live[d], pc'[d] = pc[d],
         dpcQueue'[d] = dpcQueue[d], UNCHANGED <<hookPc, insertCpu>>,
         \A p \in Procs : d \in Queued(p)' <=> d \in Queued(p)
  PROVE  LiveAt(d)'
  BY DEF LiveAt, Holds

\* The routine goes on.
LEMMA LiveContinues ==
  ASSUME TypeOK, LiveInv, NEW c \in Cpus, NEW l \in PcLabels \ {"idle"}, Continue(c, l),
         \A d \in Cpus : d # c => traceEn'[d] = traceEn[d] /\ live'[d] = live[d],
         UNCHANGED <<hookPc, insertCpu>>, \A p \in Procs : Queued(p)' = Queued(p),
         traceEn'[c] => live'[c],
         live'[c] => live[c] \/ \E p \in Procs : Holds(p, c),
         l \in LastSteps \cup {"collect"} => ~live'[c],
         l \notin LastSteps \cup {"collect"} => live'[c],
         \A i \in 1..Len(dpcQueue[c]) :
           i > 1 /\ dpcQueue[c][i].routine = "PtwIpiPerCoreSetup" => ~live'[c]
  PROVE  LiveInv'
<1>1. /\ dpcQueue' = dpcQueue /\ pc'[c] = l
      /\ \A d \in Cpus : d # c => pc'[d] = pc[d]
  BY SchedTypes DEF Continue, Goto
<1>2. ASSUME NEW d \in Cpus, d # c PROVE LiveAt(d)'
  BY <1>1, <1>2, LiveElsewhere DEF LiveInv
<1>3. LiveAt(c)'
  <2>1. live'[c] => \E p \in Procs : Holds(p, c)'
    BY DEF LiveInv, LiveAt, Holds
  <2> QED BY <1>1, <2>1, Labels DEF LiveAt
<1> QED BY <1>2, <1>3 DEF LiveInv

\* The routine returns; only that of PtwDpcPerCoreDisable ends the session.
LEMMA LiveReturns ==
  ASSUME TypeOK, BroadcastInv, LiveInv, NEW c \in Cpus, dpcQueue[c] # <<>>, Return(c),
         UNCHANGED <<hookPc, insertCpu, traceEn, live>>,
         live[c] => Head(dpcQueue[c]).routine # "PtwDpcPerCoreDisable"
  PROVE  LiveInv'
<1>1. \A p \in Procs : Queued(p)' = IF p = Head(dpcQueue[c]).owner THEN Queued(p) \ {c}
                                    ELSE Queued(p)
  BY ReturnKeepsBroadcasts
<1>2. ASSUME NEW d \in Cpus, d # c PROVE LiveAt(d)'
  <2>1. \A p \in Procs : d \in Queued(p)' <=> d \in Queued(p)
    BY <1>1, <1>2
  <2> QED BY <1>2, <2>1, Returned, LiveElsewhere DEF LiveInv
<1>3. LiveAt(c)'
  <2>1. ASSUME live[c] PROVE \E p \in Procs : Holds(p, c)'
    <3>1. PICK p \in Procs : Holds(p, c)
      BY <2>1 DEF LiveInv, LiveAt
    <3>2. CASE p # Head(dpcQueue[c]).owner
      BY <1>1, <3>1, <3>2 DEF Holds
    <3>3. CASE p = Head(dpcQueue[c]).owner
      <4>1. hookPc[p] \in Settingup
        BY <2>1, <3>3, HeadIsFirst, CoreTraceAssumption DEF BroadcastInv, OwnerInv, DpcType
      <4> QED BY <3>1, <4>1 DEF Holds, Settingup
    <3> QED BY <3>2, <3>3
  <2>2. \A i \in 1..Len(dpcQueue'[c]) : dpcQueue'[c][i].routine = "PtwIpiPerCoreSetup" => ~live[c]
    <3> SUFFICES ASSUME NEW i \in 1..Len(dpcQueue'[c]), dpcQueue'[c][i].routine = "PtwIpiPerCoreSetup"
                 PROVE  ~live[c]
      OBVIOUS
    <3>1. i + 1 \in 1..Len(dpcQueue[c]) /\ dpcQueue'[c][i] = dpcQueue[c][i + 1] /\ i + 1 > 1
      BY Returned
    <3> QED BY <3>1 DEF LiveInv, LiveAt
  <2>3. pc'[c] = "idle" /\ traceEn'[c] = traceEn[c] /\ live'[c] = live[c]
    BY Returned
  <2> QED BY <2>1, <2>2, <2>3, Labels DEF LiveInv, LiveAt
<1> QED BY <1>2, <1>3 DEF LiveInv

\* A step of a processor leaves its queue alone, lets a DPC wait, or takes the
\* routine at the head on, to a label of its own or to its end.
Advances(c) ==
  \/ dpcQueue[c] # <<>> /\ Return(c)
  \/ \E l \in PcLabels \ {"idle"} : Fits(Head(dpcQueue[c]).routine, l) /\ Continue(c, l)

Pauses(c) ==
  /\ dpcQueue' = [dpcQueue EXCEPT ![c] = Append(@, Dpc("IptDpc", NoProc))]
  /\ UNCHANGED <<pc, dpcCount>>

\* A step of a processor leaves its DPCs alone, inserts an IptDpc, or goes on
\* with the head of the queue.
LEMMA CoreShape ==
  ASSUME NEW c \in Cpus, CoreNext(c)
  PROVE  UNCHANGED <<pc, dpcQueue, dpcCount>> \/ Pauses(c) \/ Advances(c)
<1> USE Labels DEF Fits, Advances
<1>1. CASE HwTopaInt(c) \/ HwOtherPmi(c) \/ IptPmiHandler(c)
  BY <1>1 DEF HwTopaInt, HwOtherPmi, IptPmiHandler, PmiDismissed, PmiForeign,
              PmiForeignReset, PmiPause, Pauses
<1>2. ASSUME NEW routine \in {"PtwIpiPerCoreSetup", "IptDpc"}, IptEnableTrace(c, routine)
      PROVE  Advances(c)
  BY <1>2 DEF IptEnableTrace, WriteEnable, CheckEnable, MarkEnabled, At
<1>3. CASE StampSeq(c, "IptDpc", "dataSeq", "dataId") \/ StampId(c, "IptDpc", "dataId", "dataEnqueue")
  BY <1>3 DEF StampSeq, StampId, At
<1>4. CASE \/ StampId(c, "PtwDpcPerCoreDisable", "lastId", "lastSeq")
           \/ StampSeq(c, "PtwDpcPerCoreDisable", "lastSeq", "lastEnqueue")
  BY <1>4 DEF StampSeq, StampId, At
<1>5. CASE SetupConfigure(c)
  BY <1>5 DEF SetupConfigure, At
<1>6. CASE DpcRefused(c) \/ DpcUnlink(c)
  BY <1>6 DEF DpcRefused, DpcUnlink, At
<1>7. CASE DpcEnqueue(c) \/ DpcResume(c)
  BY <1>7 DEF DpcEnqueue, DpcResume, At
<1>8. CASE DisableClear(c) \/ DisableCollect(c) \/ DisableEnqueue(c)
  BY <1>8 DEF DisableClear, DisableCollect, DisableEnqueue, At
<1> QED BY <1>1, <1>2, <1>3, <1>4, <1>5, <1>6, <1>7, <1>8
        DEF CoreNext, RunDpc, PtwIpiPerCoreSetup, IptDpc, PtwDpcPerCoreDisable

\* Processors keep BroadcastInv: a DPC counts itself as it leaves the queue.
LEMMA CoreKeepsBroadcasts ==
  ASSUME TypeOK, BroadcastInv, NEW c \in Cpus, CoreNext(c), UNCHANGED hookVars
  PROVE  BroadcastInv'
<1> UNCHANGED <<hookPc, insertCpu>>
  BY DEF hookVars
<1>1. CASE UNCHANGED <<pc, dpcQueue, dpcCount>>
  BY <1>1, QueuesKept DEF BroadcastInv, RoutineInv
<1>2. CASE Pauses(c)
  BY <1>2, PauseKeepsBroadcasts DEF Pauses
<1>3. CASE Advances(c)
  BY <1>3, ContinueKeepsBroadcasts, ReturnKeepsBroadcasts DEF Advances
<1> QED BY <1>1, <1>2, <1>3, CoreShape

\* The head of a queue is the DPC of a process under way, or of nobody.
LEMMA HeadOwner ==
  ASSUME TypeOK, BroadcastInv, NEW c \in Cpus, dpcQueue[c] # <<>>,
         NEW r, r # "IptDpc", Head(dpcQueue[c]).routine = r
  PROVE  \E p \in Procs :
           /\ dpcQueue[c][1].owner = p /\ 1 \in 1..Len(dpcQueue[c])
           /\ dpcQueue[c][1].routine = r /\ c \in Queued(p)
           /\ r = "PtwIpiPerCoreSetup" => hookPc[p] \in Settingup
           /\ r = "PtwDpcPerCoreDisable" => hookPc[p] \in Disabling
<1>1. /\ 1 \in 1..Len(dpcQueue[c]) /\ Head(dpcQueue[c]) = dpcQueue[c][1]
      /\ dpcQueue[c][1].owner \in Procs \cup {NoProc}
  BY HeadIsFirst
<1>2. dpcQueue[c][1].owner # NoProc
  BY <1>1 DEF BroadcastInv, OwnerInv
<1> QED BY <1>1, <1>2 DEF BroadcastInv, OwnerInv, Queued

\* A setup finds the processor without a session and opens its own.
LEMMA SetupKeepsLive ==
  ASSUME TypeOK, BroadcastInv, LiveInv, OneInv, NEW c \in Cpus, SetupConfigure(c),
         ~traceEn[c], UNCHANGED hookVars
  PROVE  LiveInv'
<1>1. /\ Continue(c, "writeEnable") /\ live' = [live EXCEPT ![c] = TRUE]
      /\ traceEn' = traceEn /\ UNCHANGED <<hookPc, insertCpu>>
      /\ At(c, "PtwIpiPerCoreSetup", "idle")
  BY DEF SetupConfigure, hwVars, hookVars
<1>2. PICK p \in Procs :
        /\ dpcQueue[c][1].owner = p /\ 1 \in 1..Len(dpcQueue[c])
        /\ c \in Queued(p) /\ hookPc[p] \in Settingup
  BY <1>1, HeadOwner DEF At
<1>3. Holds(p, c)
  BY <1>2 DEF BroadcastInv, CountInv, Holds
<1>4. ASSUME NEW i \in 1..Len(dpcQueue[c]), i > 1, dpcQueue[c][i].routine = "PtwIpiPerCoreSetup"
      PROVE  FALSE
  <2>1. dpcQueue[c] \in Seq(DpcType)
    BY SchedTypes
  <2>2. dpcQueue[c][i] \in DpcType
    BY <2>1
  <2>3. dpcQueue[c][i].owner \in Procs /\ hookPc[dpcQueue[c][i].owner] \in Settingup
    BY <1>4, <2>2 DEF BroadcastInv, OwnerInv, DpcType
  <2>4. dpcQueue[c][i].owner = p
    BY <1>2, <2>3 DEF OneInv, Active, Settingup
  <2>5. i = 1 \/ p = NoProc
    BY <1>2, <2>4 DEF BroadcastInv, OwnerInv
  <2> QED BY <1>4, <2>5, CoreTraceAssumption
<1>5. \A q \in Procs : Queued(q)' = Queued(q)
  BY <1>1 DEF Continue, Queued
<1>6. live'[c] = TRUE /\ \A d \in Cpus : d # c => live'[d] = live[d]
  BY <1>1, RegTypes
<1> QED BY <1>1, <1>3, <1>4, <1>5, <1>6, LiveContinues, Labels

\* A PMI keeps LiveInv.
LEMMA PauseKeepsLive ==
  ASSUME TypeOK, BroadcastInv, LiveInv, NEW c \in Cpus, PmiPause(c), UNCHANGED hookVars
  PROVE  LiveInv'
<1>1. /\ traceEn' = [traceEn EXCEPT ![c] = FALSE] /\ live' = live /\ pc' = pc
      /\ UNCHANGED <<hookPc, insertCpu>>
      /\ dpcQueue' = dpcQueue \/ Pauses(c)
  BY DEF PmiPause, hookVars, Pauses
<1>2. \A p \in Procs : Queued(p)' = Queued(p)
  <2>1. CASE dpcQueue' = dpcQueue
    BY <2>1 DEF Queued
  <2>2. CASE Pauses(c)
    BY <1>1, <2>2, PauseKeepsBroadcasts DEF Pauses
  <2> QED BY <1>1, <2>1, <2>2
<1>3. \A d \in Cpus : \A i \in 1..Len(dpcQueue'[d]) :
        \/ i \in 1..Len(dpcQueue[d]) /\ dpcQueue'[d][i] = dpcQueue[d][i]
        \/ dpcQueue'[d][i].routine # "PtwIpiPerCoreSetup"
  <2>1. CASE dpcQueue' = dpcQueue
    BY <2>1
  <2>2. CASE Pauses(c)
    <3>1. Dpc("IptDpc", NoProc).routine = "IptDpc"
      BY DEF Dpc
    <3>2. \A d \in Cpus : \A i \in 1..Len(dpcQueue'[d]) :
            \/ i \in 1..Len(dpcQueue[d]) /\ dpcQueue'[d][i] = dpcQueue[d][i]
            \/ dpcQueue'[d][i] = Dpc("IptDpc", NoProc)
      BY <2>2, Inserted DEF Pauses
    <3> QED BY <3>1, <3>2
  <2> QED BY <1>1, <2>1, <2>2
<1>4. \A d \in Cpus : traceEn'[d] => traceEn[d]
  BY <1>1, RegTypes
<1>5. ASSUME NEW d \in Cpus PROVE LiveAt(d)'
  <2>1. \A p \in Procs : Holds(p, d)' <=> Holds(p, d)
    BY <1>1, <1>2 DEF Holds
  <2>2. LiveAt(d)
    BY DEF LiveInv
  <2> QED BY <1>1, <1>3, <1>4, <2>1, <2>2 DEF LiveAt
<1> QED BY <1>5 DEF LiveInv

\* The routine of a session in progress goes on to a label of the session, and
\* that of PtwDpcPerCoreDisable to one of its own.
LEMMA LiveMoves ==
  ASSUME TypeOK, BroadcastInv, LiveInv, NEW c \in Cpus, NEW l \in PcLabels \ {"idle"},
         Continue(c, l), UNCHANGED <<hookPc, insertCpu, live>>,
         \A d \in Cpus : d # c => traceEn'[d] = traceEn[d],
         traceEn'[c] => live[c],
         l \in LastSteps \cup {"collect"} <=> ~live[c]
  PROVE  LiveInv'
<1>1. \A p \in Procs : Queued(p)' = Queued(p)
  BY DEF Continue, Queued
<1>2. \A i \in 1..Len(dpcQueue[c]) :
        i > 1 /\ dpcQueue[c][i].routine = "PtwIpiPerCoreSetup" => ~live[c]
  BY DEF LiveInv, LiveAt
<1> QED BY <1>1, <1>2, LiveContinues

\* Processors keep LiveInv, and a setup finds no trace.
LEMMA CoreKeepsLive ==
  ASSUME TypeOK, BroadcastInv, LiveInv, OneInv, MsrInv, ~bugCheck, NEW c \in Cpus,
         CoreNext(c), UNCHANGED hookVars, ~raced'
  PROVE  LiveInv' /\ ~bugCheck'
<1> USE Labels
<1>0. /\ UNCHANGED <<hookPc, insertCpu>> /\ LiveAt(c) /\ RoutineInv
      /\ traceEn \in [Cpus -> BOOLEAN] /\ live \in [Cpus -> BOOLEAN]
  BY RegTypes DEF hookVars, LiveInv, BroadcastInv
<1>1. ASSUME UNCHANGED <<traceEn, live, pc, dpcQueue>> PROVE LiveInv'
  <2>1. \A p \in Procs : Queued(p)' = Queued(p)
    BY <1>1 DEF Queued
  <2> QED BY <1>0, <1>1, <2>1, LiveElsewhere DEF LiveInv
<1>2. CASE \/ HwTopaInt(c) \/ HwOtherPmi(c)
           \/ PmiDismissed(c) \/ PmiForeign(c) \/ PmiForeignReset(c)
  BY <1>1, <1>2 DEF HwTopaInt, HwOtherPmi, PmiDismissed, PmiForeign, PmiForeignReset
<1>3. CASE PmiPause(c)
  BY <1>3, PauseKeepsLive DEF PmiPause
<1>4. ASSUME NEW routine, IptEnableTrace(c, routine)
      PROVE  LiveInv' /\ bugCheck' = bugCheck
  <2>1. pc[c] \in {"writeEnable", "checkEnable", "markEnabled"} /\ live[c]
        /\ dpcQueue[c] # <<>> /\ Head(dpcQueue[c]).routine # "PtwDpcPerCoreDisable"
    BY <1>0, <1>4 DEF IptEnableTrace, WriteEnable, CheckEnable, MarkEnabled, At, LiveAt, RoutineInv
  <2>2. bugCheck' = bugCheck /\ live' = live
    BY <1>4 DEF IptEnableTrace, WriteEnable, CheckEnable, MarkEnabled
  <2>3. \A d \in Cpus : d # c => traceEn'[d] = traceEn[d]
    BY <1>0, <1>4 DEF IptEnableTrace, WriteEnable, CheckEnable, MarkEnabled, hwVars
  <2>4. \/ Return(c) /\ traceEn' = traceEn
        \/ \E l \in {"checkEnable", "markEnabled"} : Continue(c, l)
    BY <1>4 DEF IptEnableTrace, WriteEnable, CheckEnable, MarkEnabled, hwVars
  <2> QED BY <1>0, <2>1, <2>2, <2>3, <2>4, LiveReturns, LiveMoves
<1>5. CASE SetupConfigure(c)
  <2>1. PICK p \in Procs : dpcQueue[c][1].owner = p /\ 1 \in 1..Len(dpcQueue[c])
                          /\ dpcQueue[c][1].routine = "PtwIpiPerCoreSetup"
    BY <1>5, HeadOwner DEF SetupConfigure, At
  <2>2. ~live[c]
    BY <1>0, <1>5, <2>1 DEF LiveAt, SetupConfigure, At
  <2>3. ~traceEn[c]
    BY <1>0, <2>2 DEF LiveAt
  <2> QED BY <1>5, <2>3, SetupKeepsLive DEF SetupConfigure
<1>6. CASE DpcRefused(c)
  BY <1>0, <1>6, LiveReturns DEF DpcRefused, At, hwVars
<1>7. CASE DpcUnlink(c)
  <2>1. ~traceEn[c]
    BY <1>7 DEF DpcUnlink, At, MsrInv
  <2>2. live[c] /\ bugCheck' = bugCheck /\ UNCHANGED <<traceEn, live>>
        /\ dpcQueue[c] # <<>> /\ Head(dpcQueue[c]).routine = "IptDpc"
    BY <1>0, <1>7, <2>1 DEF DpcUnlink, At, hwVars
  <2>3. Continue(c, "dataSeq") \/ Return(c)
    BY <1>7, <2>1 DEF DpcUnlink
  <2> QED BY <1>0, <2>1, <2>2, <2>3, LiveReturns, LiveMoves
<1>8. CASE \/ StampSeq(c, "IptDpc", "dataSeq", "dataId")
           \/ StampId(c, "IptDpc", "dataId", "dataEnqueue")
           \/ DpcEnqueue(c) \/ DpcResume(c)
  <2>1. /\ pc[c] \in DataSteps \cup {"resetPmi"} /\ dpcQueue[c] # <<>>
        /\ Head(dpcQueue[c]).routine = "IptDpc"
    BY <1>8 DEF StampSeq, StampId, DpcEnqueue, DpcResume, At
  <2>2. bugCheck' = bugCheck /\ UNCHANGED <<traceEn, live>>
    BY <1>8 DEF StampSeq, StampId, DpcEnqueue, DpcResume, hwVars
  <2>3. \/ Return(c)
        \/ \E l \in {"dataId", "dataEnqueue", "resetPmi", "writeEnable"} : Continue(c, l)
    BY <1>8 DEF StampSeq, StampId, DpcEnqueue, DpcResume
  <2> QED BY <1>0, <2>1, <2>2, <2>3, LiveReturns, LiveMoves DEF LiveAt
<1>9. CASE DisableClear(c)
  <2>1. /\ traceEn' = [traceEn EXCEPT ![c] = FALSE] /\ live' = [live EXCEPT ![c] = FALSE]
        /\ Continue(c, "collect") /\ bugCheck' = bugCheck
    BY <1>9 DEF DisableClear
  <2>2. /\ ~traceEn'[c] /\ ~live'[c]
        /\ \A d \in Cpus : d # c => traceEn'[d] = traceEn[d] /\ live'[d] = live[d]
    BY <1>0, <2>1
  <2>3. \A p \in Procs : Queued(p)' = Queued(p)
    BY <2>1 DEF Continue, Queued
  <2> QED BY <1>0, <2>1, <2>2, <2>3, LiveContinues
<1>10. CASE \/ DisableCollect(c) \/ DisableEnqueue(c)
            \/ StampId(c, "PtwDpcPerCoreDisable", "lastId", "lastSeq")
            \/ StampSeq(c, "PtwDpcPerCoreDisable", "lastSeq", "lastEnqueue")
  <2>1. pc[c] \in LastSteps \cup {"collect"} /\ dpcQueue[c] # <<>>
    BY <1>10 DEF DisableCollect, DisableEnqueue, StampSeq, StampId, At
  <2>2. bugCheck' = bugCheck /\ UNCHANGED <<traceEn, live>>
    BY <1>10 DEF DisableCollect, DisableEnqueue, StampSeq, StampId, hwVars
  <2>3. Return(c) \/ \E l \in LastSteps : Continue(c, l)
    BY <1>10 DEF DisableCollect, DisableEnqueue, StampSeq, StampId
  <2> QED BY <1>0, <2>1, <2>2, <2>3, LiveReturns, LiveMoves DEF LiveAt
<1>11. CASE HwTopaInt(c) \/ HwOtherPmi(c) \/ IptPmiHandler(c)
  <2>1. bugCheck' = bugCheck
    BY <1>11 DEF HwTopaInt, HwOtherPmi, IptPmiHandler, PmiDismissed, PmiForeign,
                 PmiForeignReset, PmiPause
  <2> QED BY <1>2, <1>3, <1>11, <2>1 DEF IptPmiHandler
<1> QED BY <1>4, <1>5, <1>6, <1>7, <1>8, <1>9, <1>10, <1>11
        DEF CoreNext, RunDpc, PtwIpiPerCoreSetup, IptDpc, PtwDpcPerCoreDisable

-----------------------------------------------------------------------------
(* The ids: the steps of a processor.                                      *)

\* Whoever has a packet in hand works for a process that is under way and has
\* registered its callbacks, and no other process is.
LEMMA UnderWay ==
  ASSUME TypeOK, BroadcastInv, LiveInv, OneInv, NEW c \in Cpus, pc[c] \in DataSteps \cup LastSteps
  PROVE  /\ \E p \in Procs : Active(p) /\ hookPc[p] \notin Opening
         /\ \A p \in Procs : hookPc[p] \notin Opening
<1>1. \E p \in Procs : hookPc[p] \in Settingup \cup Disabling \cup {"traced"}
  <2>1. CASE pc[c] \in DataSteps
    BY <2>1 DEF LiveInv, LiveAt, Holds, Settingup, Disabling
  <2>2. CASE pc[c] \in LastSteps
    <3>1. dpcQueue[c] # <<>> /\ Head(dpcQueue[c]).routine = "PtwDpcPerCoreDisable"
      BY <2>2, SchedTypes, Labels DEF BroadcastInv, RoutineInv
    <3> QED BY <3>1, HeadOwner
  <2> QED BY <2>1, <2>2
<1>2. PICK p \in Procs : hookPc[p] \in Settingup \cup Disabling \cup {"traced"}
  BY <1>1
<1>3. Active(p) /\ hookPc[p] \notin Opening
  BY <1>2 DEF Active, Opening, Settingup, Disabling
<1>4. \A q \in Procs : hookPc[q] \in Opening => q = p
  BY <1>3 DEF OneInv, Active, Opening
<1> QED BY <1>3, <1>4

\* Steps that touch neither the counters, nor the queue, nor what is stamped.
LEMMA IdsQuiet ==
  ASSUME TypeOK, IdInv, NEW c \in Cpus, UNCHANGED <<queue, seqId, packetId, hookPc, hookDto>>,
         failures' = 0 => failures = 0,
         \A d \in Cpus : d # c => pc'[d] = pc[d] /\ dto'[d] = dto[d],
         \/ pc'[c] = pc[c] /\ dto'[c] = dto[c]
         \/ pc'[c] \notin DataSteps \cup LastSteps
         \/ pc'[c] \in {"dataSeq", "lastId"} /\ dto'[c].cpu = c
  PROVE  IdInv'
<1>1. SeqInv' /\ IdsDiffer'
  BY DEF IdInv, SeqInv, IdsDiffer, Index
<1>2. FirstInv'
  BY DEF IdInv, FirstInv, Led, LedAt, Index, Active
<1>3. HandAt(c)'
  <2>1. CASE pc'[c] = pc[c] /\ dto'[c] = dto[c]
    BY <2>1 DEF IdInv, HandInv, HandAt, HasId, HasSeq, Index
  <2>2. CASE pc'[c] \notin DataSteps \cup LastSteps \/ (pc'[c] \in {"dataSeq", "lastId"} /\ dto'[c].cpu = c)
    BY <2>2, Labels DEF HandAt, HasId, HasSeq
  <2> QED BY <2>1, <2>2
<1>4. ASSUME NEW d \in Cpus, d # c PROVE HandAt(d)'
  <2>1. HasId(c)' => HasId(c) /\ dto'[c] = dto[c]
    BY Labels DEF HasId
  <2> QED BY <1>4, <2>1 DEF IdInv, HandInv, HandAt, HasId, HasSeq, Index
<1> QED BY <1>1, <1>2, <1>3, <1>4 DEF IdInv, HandInv

\* DuGetSequenceId gives a packet the number of the sequence under way.
LEMMA StampSeqKeepsIds ==
  ASSUME TypeOK, IdInv, NEW c \in Cpus, UNCHANGED hookVars,
         NEW routine, NEW from, NEW to, StampSeq(c, routine, from, to),
         (from = "dataSeq" /\ to = "dataId") \/ (from = "lastSeq" /\ to = "lastEnqueue")
  PROVE  IdInv'
<1>1. /\ pc[c] = from /\ pc' = [pc EXCEPT ![c] = to] /\ dto' = [dto EXCEPT ![c].seq = seqId]
      /\ UNCHANGED <<queue, seqId, packetId, failures, hookPc, hookDto>>
  BY DEF StampSeq, At, Continue, Goto, idVars, hookVars
<1>2. /\ \A d \in Cpus : d # c => pc'[d] = pc[d] /\ dto'[d] = dto[d]
      /\ pc'[c] = to /\ dto'[c] = [dto[c] EXCEPT !.seq = seqId]
  BY <1>1, SchedTypes, RegTypes
<1>3. /\ dto[c] \in PacketType /\ dto'[c].cpu = dto[c].cpu /\ dto'[c].id = dto[c].id
      /\ dto'[c].seq = seqId
  <2>1. dto[c] \in PacketType
    BY <1>1, StampedPacket, Labels DEF TypeOK, CoreTypeOK, RegTypeOK
  <2> QED BY <1>2, <2>1 DEF PacketType
<1>4. SeqInv' /\ IdsDiffer'
  BY <1>1 DEF IdInv, SeqInv, IdsDiffer, Index
<1>5. FirstInv'
  BY <1>1 DEF IdInv, FirstInv, Led, LedAt, Index, Active
<1>6. \A d \in Cpus : HasId(d)' <=> HasId(d)
  BY <1>1, <1>2 DEF HasId
<1>7. \A d \in Cpus : dto'[d].id = dto[d].id
  BY <1>2, <1>3
<1>8. HandAt(c)'
  BY <1>1, <1>2, <1>3, <1>6, <1>7, Labels DEF IdInv, HandInv, HandAt, Index
<1>9. ASSUME NEW d \in Cpus, d # c PROVE HandAt(d)'
  <2>1. HasSeq(d)' <=> HasSeq(d)
    BY <1>2, <1>9 DEF HasSeq
  <2> QED BY <1>1, <1>2, <1>6, <1>7, <1>9, <2>1 DEF IdInv, HandInv, HandAt, Index
<1> QED BY <1>4, <1>5, <1>8, <1>9 DEF IdInv, HandInv

\* DuGetPacketId gives a packet an id above all those of the sequence.
LEMMA StampIdKeepsIds ==
  ASSUME TypeOK, BroadcastInv, LiveInv, OneInv, IdInv, NEW c \in Cpus, UNCHANGED hookVars,
         NEW routine, NEW from, NEW to, StampId(c, routine, from, to),
         (from = "dataId" /\ to = "dataEnqueue") \/ (from = "lastId" /\ to = "lastSeq")
  PROVE  IdInv'
<1>1. /\ pc[c] = from /\ pc' = [pc EXCEPT ![c] = to] /\ dto' = [dto EXCEPT ![c].id = packetId]
      /\ packetId' = packetId + 1 /\ packetId \in Nat
      /\ UNCHANGED <<queue, seqId, failures, hookPc, hookDto>>
  BY RegTypes DEF StampId, At, Continue, Goto, hookVars
<1>2. /\ \A d \in Cpus : d # c => pc'[d] = pc[d] /\ dto'[d] = dto[d]
      /\ pc'[c] = to /\ dto'[c] = [dto[c] EXCEPT !.id = packetId]
  BY <1>1, SchedTypes, RegTypes
<1>3. /\ dto[c] \in PacketType /\ dto'[c].cpu = dto[c].cpu /\ dto'[c].seq = dto[c].seq
      /\ dto'[c].id = packetId
  <2>1. dto[c] \in PacketType
    BY <1>1, StampedPacket, Labels DEF TypeOK, CoreTypeOK, RegTypeOK
  <2> QED BY <1>2, <2>1 DEF PacketType
<1>4. \A p \in Procs : hookPc[p] \notin Opening
  BY <1>1, UnderWay, Labels
<1>5. \A i \in Index : queue[i] \in PacketType /\ queue[i].id \in Nat
  <2>1. queue \in Seq(PacketType)
    BY RegTypes
  <2>2. \A i \in Index : queue[i] \in PacketType
    BY <2>1 DEF Index
  <2> QED BY <2>2 DEF PacketType
<1>6. SeqInv'
  <2>1. \A i \in Index : queue[i].seq <= seqId /\ (queue[i].seq = seqId => queue[i].id < packetId + 1)
    BY <1>1, <1>5 DEF IdInv, SeqInv
  <2> QED BY <1>1, <1>4, <2>1 DEF SeqInv, Index, Opening
<1>7. IdsDiffer'
  BY <1>1 DEF IdInv, IdsDiffer, Index
<1>8. FirstInv'
  BY <1>1 DEF IdInv, FirstInv, Led, LedAt, Index, Active
<1>9. ASSUME NEW d \in Cpus, HasId(d) PROVE dto[d].id < packetId /\ dto[d].id \in Nat
  <2>1. pc[d] \in DataSteps \cup LastSteps
    BY <1>9, Labels DEF HasId
  <2>2. dto[d] \in PacketType
    BY <2>1, StampedPacket DEF TypeOK, CoreTypeOK, RegTypeOK
  <2> QED BY <1>9, <2>2 DEF IdInv, HandInv, HandAt, PacketType
<1>10. HandAt(c)'
  <2>1. \A i \in Index : queue[i].seq = seqId => queue[i].id < packetId
    BY DEF IdInv, SeqInv
  <2>2. HasSeq(c)' => HasSeq(c)
    BY <1>1, <1>2 DEF HasSeq
  <2>3. \A d \in Cpus : HasId(d)' /\ dto'[d].id = packetId => d = c
    BY <1>2, <1>9 DEF HasId
  <2> QED BY <1>1, <1>2, <1>3, <1>5, <2>1, <2>2, <2>3, Labels DEF IdInv, HandInv, HandAt, Index
<1>11. ASSUME NEW d \in Cpus, d # c PROVE HandAt(d)'
  <2>1. (HasSeq(d)' <=> HasSeq(d)) /\ (HasId(d)' <=> HasId(d)) /\ dto'[d] = dto[d] /\ pc'[d] = pc[d]
    BY <1>2, <1>11 DEF HasSeq, HasId
  <2>2. HasId(d) => dto[d].id < packetId + 1
    BY <1>1, <1>9
  <2>3. HasId(d) => \A e \in Cpus : HasId(e)' /\ dto'[e].id = dto[d].id => e = d
    <3> SUFFICES ASSUME HasId(d), NEW e \in Cpus, HasId(e)', dto'[e].id = dto[d].id
                 PROVE  e = d
      OBVIOUS
    <3>1. e # c
      BY <1>1, <1>3, <1>9
    <3>2. HasId(e) /\ dto[e].id = dto[d].id
      BY <1>2, <3>1 DEF HasId
    <3> QED BY <3>2 DEF IdInv, HandInv, HandAt
  <2>4. HandAt(d)
    BY DEF IdInv, HandInv
  <2> QED BY <1>1, <2>1, <2>2, <2>3, <2>4 DEF HandAt, Index
<1> QED BY <1>6, <1>7, <1>8, <1>10, <1>11 DEF IdInv, HandInv

\* A packet joins the queue behind those of its sequence.
LEMMA AppendKeepsIds ==
  ASSUME TypeOK, BroadcastInv, LiveInv, OneInv, IdInv, NEW c \in Cpus,
         pc[c] \in {"dataEnqueue", "lastEnqueue"}, pc'[c] \notin DataSteps \cup LastSteps,
         \A d \in Cpus : d # c => pc'[d] = pc[d] /\ dto'[d] = dto[d],
         queue' = Append(queue, dto[c]),
         UNCHANGED <<seqId, packetId, failures, hookPc, hookDto>>
  PROVE  IdInv'
<1> SUFFICES ASSUME NEW n, n = Len(queue) + 1, NEW e, e = dto[c] PROVE IdInv'
  OBVIOUS
<1>1. /\ queue \in Seq(PacketType) /\ queue' = Append(queue, e) /\ e \in PacketType
      /\ e.kind \in {"data", "last"}
  BY RegTypes, StampedPacket, Labels DEF TypeOK, CoreTypeOK, DtoTypeOK, RegTypeOK
<1>2. /\ Len(queue) \in Nat /\ \A i \in Index : i \in Index' /\ queue'[i] = queue[i]
      /\ n \in Index' /\ queue'[n] = e
      /\ \A i \in Index' : i \in Index \/ i = n
      /\ \A i \in Index : i < n /\ i \in Nat
  BY <1>1 DEF Index
<1>3. HandAt(c) /\ HasSeq(c) /\ HasId(c)
  BY DEF IdInv, HandInv, HasSeq, HasId
<1>4. /\ e.seq = seqId /\ e.cpu = c /\ e.id < packetId
      /\ \A i \in Index : queue[i].seq = seqId =>
           /\ queue[i].id # e.id
           /\ queue[i].kind # "first" /\ queue[i].cpu = c => queue[i].id < e.id
      /\ \A d \in Cpus : HasId(d) /\ dto[d].id = e.id => d = c
  BY <1>3, Labels DEF HandAt
<1>5. (\E p \in Procs : Active(p) /\ hookPc[p] \notin Opening)
      /\ \A p \in Procs : hookPc[p] \notin Opening
  BY UnderWay, Labels
<1>6. SeqInv'
  <2>1. seqId <= seqId
    BY RegTypes
  <2>2. \A i \in Index' : /\ queue'[i].seq <= seqId
                          /\ queue'[i].seq = seqId => queue'[i].id < packetId
    BY <1>2, <1>4, <2>1 DEF IdInv, SeqInv
  <2> QED BY <1>5, <2>2 DEF SeqInv, Opening
<1>7. IdsDiffer'
  <2> SUFFICES ASSUME NEW i \in Index', NEW j \in Index', i < j, queue'[i].seq = queue'[j].seq
               PROVE  /\ queue'[i].id # queue'[j].id
                      /\ "first" \notin {queue'[i].kind, queue'[j].kind}
                           /\ queue'[i].cpu = queue'[j].cpu => queue'[i].id < queue'[j].id
    BY DEF IdsDiffer
  <2>1. i \in Index
    BY <1>2 DEF Index
  <2>2. CASE j \in Index
    <3>1. queue'[i] = queue[i] /\ queue'[j] = queue[j]
      BY <1>2, <2>1, <2>2
    <3>2. IdsDiffer
      BY DEF IdInv
    <3> QED BY <2>1, <2>2, <3>1, <3>2 DEF IdsDiffer
  <2>3. CASE j = n
    BY <1>2, <1>4, <2>1, <2>3
  <2> QED BY <1>2, <2>2, <2>3
<1>8. FirstInv'
  <2> SUFFICES ASSUME failures = 0
               PROVE  /\ \A p \in Procs : Active(p)' /\ hookPc[p] \notin Opening => Led(seqId)'
                      /\ \A j \in Index' : LedAt(j)'
    BY DEF FirstInv
  <2>1. Led(seqId) /\ \A j \in Index : LedAt(j)
    BY <1>5 DEF IdInv, FirstInv
  <2>2. PICK i \in Index : queue[i].kind = "first" /\ queue[i].seq = seqId
    BY <2>1 DEF Led
  <2>3. Led(seqId)'
    BY <1>2, <2>2 DEF Led
  <2>4. ASSUME NEW j \in Index PROVE LedAt(j)'
    <3>1. \A k \in 1..(j - 1) : k \in Index
      BY <1>2 DEF Index
    <3>2. queue'[j] = queue[j] /\ \A k \in 1..(j - 1) : queue'[k] = queue[k]
      BY <1>2, <3>1
    <3>3. LedAt(j)
      BY <2>1
    <3> QED BY <3>2, <3>3 DEF LedAt
  <2>5. LedAt(n)'
    <3>1. i \in 1..(n - 1)
      BY <1>2 DEF Index
    <3>2. queue'[i].kind = "first" /\ queue'[i].seq = queue'[n].seq
      BY <1>2, <1>4, <2>2
    <3> QED BY <3>1, <3>2 DEF LedAt
  <2> QED BY <1>2, <2>3, <2>4, <2>5
<1>9. HandAt(c)'
  BY Labels DEF HandAt, HasSeq, HasId
<1>10. ASSUME NEW d \in Cpus, d # c PROVE HandAt(d)'
  <2>1. HandAt(d) /\ (HasSeq(d)' <=> HasSeq(d)) /\ (HasId(d)' <=> HasId(d))
        /\ dto'[d] = dto[d] /\ pc'[d] = pc[d]
    BY <1>10 DEF IdInv, HandInv, HasSeq, HasId
  <2>2. HasId(d) => \A i \in Index' : queue'[i].seq = seqId =>
                      /\ queue'[i].id # dto[d].id
                      /\ queue'[i].kind # "first" /\ queue'[i].cpu = d => queue'[i].id < dto[d].id
    <3> SUFFICES ASSUME HasId(d), NEW i \in Index', queue'[i].seq = seqId
                 PROVE  /\ queue'[i].id # dto[d].id
                        /\ queue'[i].kind # "first" /\ queue'[i].cpu = d => queue'[i].id < dto[d].id
      OBVIOUS
    <3>1. CASE i \in Index
      BY <1>2, <2>1, <3>1 DEF HandAt
    <3>2. CASE i = n
      BY <1>2, <1>4, <1>10, <3>2
    <3> QED BY <1>2, <3>1, <3>2
  <2>3. \A f \in Cpus : HasId(f)' => HasId(f) /\ dto'[f] = dto[f]
    BY Labels DEF HasId
  <2>4. HasId(d) => \A f \in Cpus : HasId(f)' /\ dto'[f].id = dto[d].id => f = d
    BY <2>1, <2>3 DEF HandAt
  <2> QED BY <2>1, <2>2, <2>4 DEF HandAt
<1> QED BY <1>6, <1>7, <1>8, <1>9, <1>10 DEF IdInv, HandInv

\* A packet is enqueued with an id no other packet of its sequence has.
LEMMA EnqueueKeepsIds ==
  ASSUME TypeOK, BroadcastInv, LiveInv, OneInv, IdInv, NEW c \in Cpus, CoreNext(c),
         DpcEnqueue(c) \/ DisableEnqueue(c), UNCHANGED hookVars
  PROVE  IdInv'
<1>1. /\ pc[c] \in {"dataEnqueue", "lastEnqueue"} /\ EnqueueDto(c)
      /\ Continue(c, "resetPmi") \/ Return(c)
      /\ UNCHANGED <<seqId, packetId, hookPc, hookDto>>
  BY DEF DpcEnqueue, DisableEnqueue, At, idVars, hookVars
<1>2. pc'[c] \in {"resetPmi", "idle"} /\ \A d \in Cpus : d # c => pc'[d] = pc[d] /\ dto'[d] = dto[d]
  BY <1>1, OthersKept, SchedTypes DEF Continue, Return, Goto
<1>3. CASE queue' = Append(queue, dto[c]) /\ UNCHANGED failures
  BY <1>1, <1>2, <1>3, AppendKeepsIds, Labels
<1>4. CASE Fail /\ UNCHANGED queue
  <2>1. failures' # 0
    BY <1>4, RegTypes DEF Fail
  <2> QED BY <1>1, <1>2, <1>4, <2>1, IdsQuiet, Labels
<1> QED BY <1>1, <1>3, <1>4 DEF EnqueueDto

\* Processors keep IdInv.
LEMMA CoreKeepsIds ==
  ASSUME TypeOK, BroadcastInv, LiveInv, OneInv, IdInv, NEW c \in Cpus, CoreNext(c),
         UNCHANGED hookVars
  PROVE  IdInv'
<1>0. UNCHANGED <<hookPc, hookDto>> /\ (failures' = 0 => failures = 0)
  BY CoreFailuresGrow, RegTypes DEF hookVars
<1>1. \A d \in Cpus : d # c => pc'[d] = pc[d] /\ dto'[d] = dto[d]
  BY OthersKept
<1>a. ASSUME NEW l, Continue(c, l) PROVE pc'[c] = l
  BY <1>a, SchedTypes DEF Continue, Goto
<1>b. ASSUME Return(c) PROVE pc'[c] = "idle"
  BY <1>b, SchedTypes DEF Return, Goto
<1>2. ASSUME UNCHANGED <<queue, seqId, packetId, dto>>,
             pc' = pc \/ pc'[c] \notin DataSteps \cup LastSteps
      PROVE  IdInv'
  BY <1>0, <1>1, <1>2, IdsQuiet
<1>3. CASE HwTopaInt(c) \/ HwOtherPmi(c) \/ IptPmiHandler(c)
  BY <1>2, <1>3 DEF HwTopaInt, HwOtherPmi, IptPmiHandler, PmiDismissed, PmiForeign,
              PmiForeignReset, PmiPause
<1>4. ASSUME NEW routine, IptEnableTrace(c, routine) PROVE IdInv'
  BY <1>2, <1>4, <1>a, <1>b, Labels
     DEF IptEnableTrace, WriteEnable, CheckEnable, MarkEnabled, idVars
<1>5. CASE SetupConfigure(c) \/ DpcRefused(c) \/ DpcResume(c) \/ DisableClear(c)
  BY <1>2, <1>5, <1>a, <1>b, Labels DEF SetupConfigure, DpcRefused, DpcResume, DisableClear, idVars
<1>6. CASE DpcUnlink(c) \/ DisableCollect(c)
  <2>1. UNCHANGED <<queue, seqId, packetId>>
    BY <1>6 DEF DpcUnlink, DisableCollect, idVars
  <2>2. \/ dto' = dto /\ (pc' = pc \/ pc'[c] = "idle")
        \/ pc'[c] = "dataSeq" /\ dto' = [dto EXCEPT ![c] = Packet("data", c, topaMdl[c])]
        \/ pc'[c] = "lastId" /\ dto' = [dto EXCEPT ![c] = Packet("last", c, topaMdl[c])]
    BY <1>6, <1>a, <1>b DEF DpcUnlink, DisableCollect
  <2>3. CASE dto' = dto /\ (pc' = pc \/ pc'[c] = "idle")
    BY <1>2, <2>1, <2>3, Labels
  <2>4. CASE \/ pc'[c] = "dataSeq" /\ dto' = [dto EXCEPT ![c] = Packet("data", c, topaMdl[c])]
             \/ pc'[c] = "lastId" /\ dto' = [dto EXCEPT ![c] = Packet("last", c, topaMdl[c])]
    <3>1. Packet("data", c, topaMdl[c]).cpu = c /\ Packet("last", c, topaMdl[c]).cpu = c
      BY DEF Packet
    <3>2. dto'[c].cpu = c /\ pc'[c] \in {"dataSeq", "lastId"}
      BY <2>4, <3>1, RegTypes
    <3> QED BY <1>0, <1>1, <2>1, <3>2, IdsQuiet
  <2> QED BY <2>2, <2>3, <2>4
<1>7. CASE \/ StampSeq(c, "IptDpc", "dataSeq", "dataId")
           \/ StampSeq(c, "PtwDpcPerCoreDisable", "lastSeq", "lastEnqueue")
  <2>1. CASE StampSeq(c, "IptDpc", "dataSeq", "dataId")
    BY <2>1, StampSeqKeepsIds
  <2>2. CASE StampSeq(c, "PtwDpcPerCoreDisable", "lastSeq", "lastEnqueue")
    BY <2>2, StampSeqKeepsIds
  <2> QED BY <1>7, <2>1, <2>2
<1>8. CASE \/ StampId(c, "IptDpc", "dataId", "dataEnqueue")
           \/ StampId(c, "PtwDpcPerCoreDisable", "lastId", "lastSeq")
  <2>1. CASE StampId(c, "IptDpc", "dataId", "dataEnqueue")
    BY <2>1, StampIdKeepsIds
  <2>2. CASE StampId(c, "PtwDpcPerCoreDisable", "lastId", "lastSeq")
    BY <2>2, StampIdKeepsIds
  <2> QED BY <1>8, <2>1, <2>2
<1>9. CASE DpcEnqueue(c) \/ DisableEnqueue(c)
  BY <1>9, EnqueueKeepsIds
<1> QED BY <1>3, <1>4, <1>5, <1>6, <1>7, <1>8, <1>9
        DEF CoreNext, RunDpc, PtwIpiPerCoreSetup, IptDpc, PtwDpcPerCoreDisable


-----------------------------------------------------------------------------
(* The steps of the callbacks, by what they do to the broadcasts.          *)

\* A step outside the broadcasts moves the process on; it ends a trace by
\* its exit, or ignores the exit of a process the callbacks do not react to.
Moves(p) ==
  /\ hookPc[p] \notin Settingup \cup Disabling
  /\ \E l \in HookLabels \ {"spinSetup", "spinDisable"} :
       /\ HookGoto(p, l)
       /\ hookPc[p] = "traced" => \/ l = "insertDisable"
                                  \/ ~exitHook \/ gProcessId # p
  /\ UNCHANGED <<dpcQueue, dpcCount, insertCpu, pc, traceEn, live, dto, bugCheck>>

Inserts(p) ==
  \/ InsertDpc(p, "PtwIpiPerCoreSetup", "insertSetup", "spinSetup")
  \/ InsertDpc(p, "PtwDpcPerCoreDisable", "insertDisable", "spinDisable")

Spins(p) ==
  SpinUntilDone(p, "spinSetup", "traced") \/ SpinUntilDone(p, "spinDisable", "unhook")

\* A callback moves on, inserts DPCs or spins.
LEMMA HookShape ==
  ASSUME NEW p \in Procs, Hook(p)
  PROVE  Moves(p) \/ Inserts(p) \/ Spins(p)
<1> USE DEF Moves, HookGoto, HookLabels, Settingup, Disabling, coreVars, hwVars
<1>1. CASE ImageLoad(p) \/ IncreaseSequenceId(p)
  BY <1>1 DEF ImageLoad, IncreaseSequenceId
<1>2. CASE ResetPacketId(p)
  BY <1>2 DEF ResetPacketId
<1>3. CASE FirstSeq(p) \/ FirstId(p) \/ FirstEnqueue(p) \/ RegisterHooks(p)
  BY <1>3 DEF FirstSeq, FirstId, FirstEnqueue, RegisterHooks
<1>4. CASE ThreadCreate(p) \/ ClaimThread(p) \/ InstallPmiHandler(p)
  BY <1>4 DEF ThreadCreate, ClaimThread, InstallPmiHandler
<1>5. CASE ExitIgnored(p) \/ ProcessExit(p)
  BY <1>5 DEF ExitIgnored, ProcessExit
<1>6. CASE \/ RemoveThreadHook(p) \/ UninstallPmiHandler(p)
           \/ ClearProcessId(p) \/ ClearThreadHoodked(p)
  BY <1>6 DEF RemoveThreadHook, UninstallPmiHandler, ClearProcessId, ClearThreadHoodked
<1> QED BY <1>1, <1>2, <1>3, <1>4, <1>5, <1>6
        DEF Hook, PtwHookImageLoadCr3, PtwHookThreadCreation, PtwHookProcessExit, Inserts, Spins

\* A broadcast inserts the DPC of the next processor, or begins to wait.
InsertsNext(p) ==
  \E routine \in {"PtwIpiPerCoreSetup", "PtwDpcPerCoreDisable"} : \E c \in Cpus :
    /\ Serves(routine, hookPc[p]) /\ c = insertCpu[p]
    /\ dpcQueue' = [dpcQueue EXCEPT ![c] = Append(@, Dpc(routine, p))]
    /\ insertCpu' = [insertCpu EXCEPT ![p] = @ + 1]
    /\ UNCHANGED hookPc

BeginsToWait(p) ==
  \E l \in {"spinSetup", "spinDisable"} :
    /\ HookGoto(p, l) /\ insertCpu[p] = NumCpus /\ UNCHANGED <<dpcQueue, insertCpu>>
    /\ \/ hookPc[p] = "insertSetup" /\ l = "spinSetup"
       \/ hookPc[p] = "insertDisable" /\ l = "spinDisable"

\* The insertion goes to the next processor or ends in the wait.
LEMMA InsertShape ==
  ASSUME TypeOK, NEW p \in Procs, Inserts(p)
  PROVE  /\ UNCHANGED <<pc, dpcCount, traceEn, live, dto, bugCheck>>
         /\ InsertsNext(p) \/ BeginsToWait(p)
<1>1. UNCHANGED <<pc, dpcCount, traceEn, live, dto, bugCheck>>
  BY DEF Inserts, InsertDpc, hwVars
<1>2. insertCpu[p] \in 0..NumCpus /\ NumCpus \in Nat
  BY SchedTypes
<1>3. insertCpu[p] < NumCpus => insertCpu[p] \in Cpus
  BY <1>2 DEF Cpus
<1>4. ~(insertCpu[p] < NumCpus) => insertCpu[p] = NumCpus
  BY <1>2
<1>5. ASSUME InsertDpc(p, "PtwIpiPerCoreSetup", "insertSetup", "spinSetup")
      PROVE  InsertsNext(p) \/ BeginsToWait(p)
  BY <1>3, <1>4, <1>5 DEF InsertDpc, InsertsNext, BeginsToWait, Serves
<1>6. ASSUME InsertDpc(p, "PtwDpcPerCoreDisable", "insertDisable", "spinDisable")
      PROVE  InsertsNext(p) \/ BeginsToWait(p)
  BY <1>3, <1>4, <1>6 DEF InsertDpc, InsertsNext, BeginsToWait, Serves
<1> QED BY <1>1, <1>5, <1>6 DEF Inserts

\* Callbacks keep BroadcastInv: the wait ends when every DPC has counted.
LEMMA HooksKeepBroadcasts ==
  ASSUME TypeOK, BroadcastInv, NEW p \in Procs, Hook(p)
  PROVE  BroadcastInv'
<1>1. CASE Moves(p)
  BY <1>1, MoveKeepsBroadcasts DEF Moves
<1>2. CASE Inserts(p)
  <2>1. CASE InsertsNext(p)
    BY <1>2, <2>1, InsertShape, InsertKeepsBroadcasts DEF InsertsNext
  <2>2. CASE BeginsToWait(p)
    BY <1>2, <2>2, InsertShape, MoveKeepsBroadcasts DEF BeginsToWait, HookLabels
  <2> QED BY <1>2, <2>1, <2>2, InsertShape
<1>3. CASE Spins(p)
  <2>1. "traced" \in HookLabels \ (Settingup \cup Disabling)
        /\ "unhook" \in HookLabels \ (Settingup \cup Disabling)
    BY DEF HookLabels, Settingup, Disabling
  <2>2. CASE SpinUntilDone(p, "spinSetup", "traced")
    BY <2>1, <2>2, SpinKeepsBroadcasts
  <2>3. CASE SpinUntilDone(p, "spinDisable", "unhook")
    BY <2>1, <2>3, SpinKeepsBroadcasts
  <2> QED BY <1>3, <2>2, <2>3 DEF Spins
<1> QED BY <1>1, <1>2, <1>3, HookShape


-----------------------------------------------------------------------------
(* The sessions: the steps of the callbacks.                               *)

\* The exit callback is registered with the first thread callback and stays.
LEMMA HooksKeepHooks ==
  ASSUME TypeOK, HookInv, NEW p \in Procs, Hook(p)
  PROVE  HookInv'
<1> USE DEF HookInv, HookGoto, coreVars
<1>0. hookPc \in [Procs -> HookLabels] /\ threadHooks \in Nat
  BY SchedTypes, RegTypes
<1>1. CASE ImageLoad(p) \/ IncreaseSequenceId(p) \/ ResetPacketId(p)
  BY <1>0, <1>1 DEF ImageLoad, IncreaseSequenceId, ResetPacketId
<1>2. CASE FirstSeq(p) \/ FirstId(p) \/ FirstEnqueue(p) \/ RegisterHooks(p)
  BY <1>0, <1>2 DEF FirstSeq, FirstId, FirstEnqueue, RegisterHooks
<1>3. CASE ThreadCreate(p) \/ ClaimThread(p) \/ InstallPmiHandler(p)
  BY <1>0, <1>3 DEF ThreadCreate, ClaimThread, InstallPmiHandler
<1>4. CASE Inserts(p)
  <2>1. UNCHANGED <<threadHooks, exitHook>>
    BY <1>4 DEF Inserts, InsertDpc
  <2>2. hookPc' = hookPc \/ (hookPc[p] = "insertSetup" /\ hookPc' = [hookPc EXCEPT ![p] = "spinSetup"])
        \/ hookPc' = [hookPc EXCEPT ![p] = "spinDisable"]
    BY <1>4 DEF Inserts, InsertDpc
  <2> QED BY <1>0, <2>1, <2>2
<1>5. CASE Spins(p)
  BY <1>0, <1>5 DEF Spins, SpinUntilDone
<1>6. CASE ExitIgnored(p) \/ ProcessExit(p) \/ RemoveThreadHook(p)
  BY <1>0, <1>6 DEF ExitIgnored, ProcessExit, RemoveThreadHook
<1>7. CASE UninstallPmiHandler(p) \/ ClearProcessId(p) \/ ClearThreadHoodked(p)
  BY <1>0, <1>7 DEF UninstallPmiHandler, ClearProcessId, ClearThreadHoodked
<1> QED BY <1>1, <1>2, <1>3, <1>4, <1>5, <1>6, <1>7
        DEF Hook, PtwHookImageLoadCr3, PtwHookThreadCreation, PtwHookProcessExit, Inserts, Spins

\* A process that is under way goes on, and forgets itself only at its end.
GoesOn(p) ==
  /\ Active(p) /\ raced' = raced
  /\ \E l : /\ hookPc' = [hookPc EXCEPT ![p] = l]
            /\ l # "unloaded"
            /\ hookPc[p] = "clearHooked" => l = "gone"
            /\ l = "clearHooked" \/ gProcessId' = gProcessId

\* Callbacks other than the image load make no process active.
LEMMA HookGoesOn ==
  ASSUME TypeOK, NEW p \in Procs, Hook(p), ~ImageLoad(p)
  PROVE  GoesOn(p)
<1> USE DEF GoesOn, HookGoto, Active, coreVars
<1>0. hookPc = [hookPc EXCEPT ![p] = hookPc[p]]
  BY SchedTypes
<1>1. CASE IncreaseSequenceId(p) \/ ResetPacketId(p)
  BY <1>1 DEF IncreaseSequenceId, ResetPacketId
<1>2. CASE FirstSeq(p) \/ FirstId(p) \/ FirstEnqueue(p) \/ RegisterHooks(p)
  BY <1>2 DEF FirstSeq, FirstId, FirstEnqueue, RegisterHooks
<1>3. CASE ThreadCreate(p) \/ ClaimThread(p) \/ InstallPmiHandler(p)
  BY <1>3 DEF ThreadCreate, ClaimThread, InstallPmiHandler
<1>4. CASE Inserts(p)
  <2>1. /\ raced' = raced /\ gProcessId' = gProcessId
        /\ hookPc[p] \in {"insertSetup", "insertDisable"}
        /\ \E l \in {hookPc[p], "spinSetup", "spinDisable"} : hookPc' = [hookPc EXCEPT ![p] = l]
    BY <1>0, <1>4 DEF Inserts, InsertDpc
  <2> QED BY <2>1
<1>5. CASE Spins(p)
  BY <1>5 DEF Spins, SpinUntilDone
<1>6. CASE ExitIgnored(p) \/ ProcessExit(p) \/ RemoveThreadHook(p)
  BY <1>6 DEF ExitIgnored, ProcessExit, RemoveThreadHook
<1>7. CASE UninstallPmiHandler(p) \/ ClearProcessId(p) \/ ClearThreadHoodked(p)
  BY <1>7 DEF UninstallPmiHandler, ClearProcessId, ClearThreadHoodked
<1> QED BY <1>1, <1>2, <1>3, <1>4, <1>5, <1>6, <1>7
        DEF Hook, PtwHookImageLoadCr3, PtwHookThreadCreation, PtwHookProcessExit, Inserts, Spins

\* While no two traced processes overlap, one is under way.
LEMMA HooksKeepOne ==
  ASSUME TypeOK, ~raced => OneInv, NEW p \in Procs, Hook(p), ~raced'
  PROVE  ~raced /\ OneInv'
<1>0. hookPc \in [Procs -> HookLabels]
  BY SchedTypes
<1>1. CASE ImageLoad(p)
  <2>1. ~raced /\ gProcessId' = p /\ hookPc' = [hookPc EXCEPT ![p] = "increase"]
    BY <1>1 DEF ImageLoad, HookGoto
  <2>2. \A q \in Procs : q # p => ~Active(q)
    BY <1>1 DEF ImageLoad, Active
  <2>3. \A q \in Procs : q # p => hookPc'[q] = hookPc[q]
    BY <1>0, <2>1
  <2> QED BY <2>1, <2>2, <2>3 DEF OneInv, Active
<1>2. CASE GoesOn(p)
  <2>1. PICK l : /\ hookPc' = [hookPc EXCEPT ![p] = l]
                 /\ l # "unloaded"
                 /\ hookPc[p] = "clearHooked" => l = "gone"
                 /\ l = "clearHooked" \/ gProcessId' = gProcessId
    BY <1>2 DEF GoesOn
  <2>2. ~raced /\ Active(p) /\ OneInv
    BY <1>2 DEF GoesOn
  <2>3. \A q \in Procs : q # p => hookPc'[q] = hookPc[q] /\ ~Active(q)
    BY <1>0, <2>1, <2>2 DEF OneInv
  <2>4. hookPc'[p] = l
    BY <1>0, <2>1
  <2> QED BY <2>1, <2>2, <2>3, <2>4 DEF OneInv, Active
<1> QED BY <1>1, <1>2, HookGoesOn

\* What is live stays with the process that holds it.
LEMMA HoldsKept ==
  ASSUME LiveInv, UNCHANGED <<traceEn, live, pc, dpcQueue>>,
         \A c \in Cpus : \A q \in Procs : Holds(q, c) => Holds(q, c)'
  PROVE  LiveInv'
<1>1. ASSUME NEW c \in Cpus PROVE LiveAt(c)'
  <2>1. LiveAt(c)
    BY DEF LiveInv
  <2>2. live[c] => \E q \in Procs : Holds(q, c)'
    BY <2>1 DEF LiveAt
  <2> QED BY <2>1, <2>2 DEF LiveAt
<1> QED BY <1>1 DEF LiveInv

\* Callbacks outside of their broadcasts keep LiveInv.
LEMMA MovesKeepLive ==
  ASSUME TypeOK, BroadcastInv, HookInv, LiveInv, OneInv, NEW p \in Procs, Moves(p)
  PROVE  LiveInv'
<1>1. PICK l \in HookLabels \ {"spinSetup", "spinDisable"} :
        /\ hookPc' = [hookPc EXCEPT ![p] = l]
        /\ hookPc[p] = "traced" => l = "insertDisable" \/ ~exitHook \/ gProcessId # p
  BY DEF Moves, HookGoto
<1>2. UNCHANGED <<dpcQueue, insertCpu, pc, traceEn, live>> /\ hookPc[p] \notin Settingup \cup Disabling
  BY DEF Moves
<1>3. \A q \in Procs : q # p => hookPc'[q] = hookPc[q]
  BY <1>1, SchedTypes
<1>4. hookPc'[p] = l
  BY <1>1, SchedTypes
<1>5. \A q \in Procs : Queued(q)' = Queued(q)
  BY <1>2 DEF Queued
<1>6. ASSUME NEW c \in Cpus, NEW q \in Procs, Holds(q, c) PROVE Holds(q, c)'
  <2>1. CASE q # p
    BY <1>2, <1>3, <1>5, <1>6, <2>1 DEF Holds
  <2>2. CASE q = p
    <3>1. hookPc[p] = "traced"
      BY <1>2, <1>6, <2>2 DEF Holds, Settingup, Disabling
    <3>2. exitHook /\ gProcessId = p
      BY <3>1 DEF HookInv, OneInv, Active
    <3>3. hookPc'[p] = "insertDisable"
      BY <1>1, <1>4, <3>1, <3>2
    <3>4. insertCpu[p] = 0 /\ c \in Nat
      BY <3>1, SchedTypes DEF BroadcastInv, CountInv, Settingup, Disabling
    <3>5. insertCpu'[p] = 0 /\ c >= 0
      BY <1>2, <3>4
    <3> QED BY <2>2, <3>3, <3>5 DEF Holds
  <2> QED BY <2>1, <2>2
<1> QED BY <1>2, <1>6, HoldsKept

\* The insertion of a DPC keeps LiveInv.
LEMMA InsertsKeepLive ==
  ASSUME TypeOK, BroadcastInv, LiveInv, OneInv, NEW p \in Procs, Inserts(p)
  PROVE  LiveInv'
<1>0. UNCHANGED <<pc, dpcCount, traceEn, live>>
  BY InsertShape
<1>1. CASE BeginsToWait(p)
  <2>1. PICK l \in {"spinSetup", "spinDisable"} :
          /\ hookPc' = [hookPc EXCEPT ![p] = l] /\ insertCpu[p] = NumCpus
          /\ UNCHANGED <<dpcQueue, insertCpu>>
          /\ \/ hookPc[p] = "insertSetup" /\ l = "spinSetup"
             \/ hookPc[p] = "insertDisable" /\ l = "spinDisable"
    BY <1>1 DEF BeginsToWait, HookGoto
  <2>2. hookPc'[p] = l /\ \A q \in Procs : q # p => hookPc'[q] = hookPc[q]
    BY <2>1, SchedTypes
  <2>3. \A q \in Procs : Queued(q)' = Queued(q)
    BY <2>1 DEF Queued
  <2>4. ASSUME NEW c \in Cpus, NEW q \in Procs, Holds(q, c) PROVE Holds(q, c)'
    <3>1. ~(c >= NumCpus)
      BY SchedTypes DEF Cpus
    <3> QED BY <2>1, <2>2, <2>3, <2>4, <3>1 DEF Holds, Settingup
  <2> QED BY <1>0, <2>1, <2>4, HoldsKept
<1>2. CASE InsertsNext(p)
  <2>1. PICK routine \in {"PtwIpiPerCoreSetup", "PtwDpcPerCoreDisable"}, c \in Cpus :
          /\ Serves(routine, hookPc[p]) /\ c = insertCpu[p]
          /\ dpcQueue' = [dpcQueue EXCEPT ![c] = Append(@, Dpc(routine, p))]
          /\ insertCpu' = [insertCpu EXCEPT ![p] = @ + 1]
          /\ UNCHANGED hookPc
    BY <1>2 DEF InsertsNext
  <2>2. /\ c \notin Queued(p) /\ Queued(p)' = Queued(p) \cup {c}
        /\ \A q \in Procs : q # p => Queued(q)' = Queued(q)
    BY <1>0, <2>1, InsertKeepsBroadcasts
  <2>3. /\ insertCpu'[p] = c + 1 /\ c \in Nat /\ insertCpu[p] = c
        /\ \A q \in Procs : q # p => insertCpu'[q] = insertCpu[q]
    BY <2>1, SchedTypes
  <2>4. ASSUME NEW d \in Cpus, NEW q \in Procs, Holds(q, d) PROVE Holds(q, d)'
    <3>1. CASE q # p
      BY <2>1, <2>2, <2>3, <2>4, <3>1 DEF Holds
    <3>2. CASE q = p
      <4>0. d \in Nat
        BY SchedTypes
      <4>1. CASE routine = "PtwIpiPerCoreSetup"
        BY <2>1, <2>3, <2>4, <3>2, <4>0, <4>1 DEF Holds, Serves, Settingup
      <4>2. CASE routine = "PtwDpcPerCoreDisable"
        <5>1. hookPc[p] = "insertDisable" /\ hookPc'[p] = "insertDisable"
          BY <2>1, <4>2 DEF Serves
        <5>2. d >= c \/ d \in Queued(p)
          BY <2>3, <2>4, <3>2, <5>1 DEF Holds, Settingup
        <5>3. d >= c + 1 \/ d \in Queued(p) \cup {c}
          BY <2>3, <4>0, <5>2
        <5> QED BY <2>2, <2>3, <3>2, <5>1, <5>3 DEF Holds
      <4> QED BY <4>1, <4>2
    <3> QED BY <3>1, <3>2
  <2>5. ASSUME NEW d \in Cpus, NEW i \in 1..Len(dpcQueue'[d]),
               dpcQueue'[d][i].routine = "PtwIpiPerCoreSetup", i > 1 \/ pc[d] = "idle"
        PROVE  ~live[d]
    <3>1. \/ i \in 1..Len(dpcQueue[d]) /\ dpcQueue'[d][i] = dpcQueue[d][i]
          \/ d = c /\ dpcQueue'[d][i] = Dpc(routine, p)
      <4> DEFINE x == Dpc(routine, p)
      <4>1. dpcQueue' = [dpcQueue EXCEPT ![c] = Append(@, x)]
        BY <2>1
      <4> HIDE DEF x
      <4>2. \A k \in Cpus : k # c => dpcQueue'[k] = dpcQueue[k]
        BY <4>1, Inserted
      <4>3. /\ Len(dpcQueue[c]) \in Nat /\ Len(dpcQueue'[c]) = Len(dpcQueue[c]) + 1
            /\ \A k \in 1..Len(dpcQueue[c]) : dpcQueue'[c][k] = dpcQueue[c][k]
            /\ dpcQueue'[c][Len(dpcQueue[c]) + 1] = x
        BY <4>1, Inserted
      <4>4. CASE d = c
        <5>1. i \in 1..Len(dpcQueue[c]) \/ i = Len(dpcQueue[c]) + 1
          BY <4>3, <4>4
        <5> QED BY <4>3, <4>4, <5>1 DEF x
      <4>5. CASE d # c
        BY <4>2, <4>5
      <4> QED BY <4>4, <4>5
    <3>2. CASE i \in 1..Len(dpcQueue[d]) /\ dpcQueue'[d][i] = dpcQueue[d][i]
      BY <2>5, <3>2 DEF LiveInv, LiveAt
    <3>3. CASE d = c /\ dpcQueue'[d][i] = Dpc(routine, p)
      <4>1. hookPc[p] = "insertSetup"
        BY <2>1, <2>5, <3>3 DEF Dpc, Serves
      <4>2. ASSUME live[c] PROVE FALSE
        <5>1. PICK q \in Procs : Holds(q, c)
          BY <4>2 DEF LiveInv, LiveAt
        <5>2. q = p
          BY <4>1, <5>1 DEF OneInv, Active, Holds, Settingup
        <5>3. c < c
          BY <2>3, <4>1, <5>1, <5>2 DEF Holds
        <5> QED BY <2>3, <5>3
      <4> QED BY <3>3, <4>2
    <3> QED BY <3>1, <3>2, <3>3
  <2>6. ASSUME NEW d \in Cpus PROVE LiveAt(d)'
    <3>1. LiveAt(d)
      BY DEF LiveInv
    <3>2. live[d] => \E q \in Procs : Holds(q, d)'
      BY <2>4, <3>1 DEF LiveAt
    <3> QED BY <1>0, <2>5, <3>1, <3>2 DEF LiveAt
  <2> QED BY <2>6 DEF LiveInv
<1> QED BY <1>1, <1>2, InsertShape

\* The end of a wait keeps LiveInv: every processor was set up or disabled.
LEMMA SpinsKeepLive ==
  ASSUME TypeOK, BroadcastInv, LiveInv, NEW p \in Procs, Spins(p)
  PROVE  LiveInv'
<1>1. /\ UNCHANGED <<traceEn, live, pc, dpcQueue>>
      /\ insertCpu' = [insertCpu EXCEPT ![p] = 0]
      /\ \/ hookPc[p] = "spinSetup" /\ hookPc' = [hookPc EXCEPT ![p] = "traced"]
         \/ hookPc[p] = "spinDisable"
      /\ \E l : hookPc' = [hookPc EXCEPT ![p] = l]
  BY DEF Spins, SpinUntilDone, HookGoto, hwVars
<1>2. Queued(p) = {} /\ \A q \in Procs : Queued(q)' = Queued(q)
  <2>1. "traced" \in HookLabels \ (Settingup \cup Disabling)
        /\ "unhook" \in HookLabels \ (Settingup \cup Disabling)
    BY DEF HookLabels, Settingup, Disabling
  <2>2. CASE SpinUntilDone(p, "spinSetup", "traced")
    BY <2>1, <2>2, SpinKeepsBroadcasts
  <2>3. CASE SpinUntilDone(p, "spinDisable", "unhook")
    BY <2>1, <2>3, SpinKeepsBroadcasts
  <2> QED BY <2>2, <2>3 DEF Spins
<1>3. ASSUME NEW c \in Cpus, NEW q \in Procs, Holds(q, c) PROVE Holds(q, c)'
  <2>1. CASE q # p
    <3>1. hookPc'[q] = hookPc[q] /\ insertCpu'[q] = insertCpu[q]
      BY <1>1, <2>1, SchedTypes
    <3> QED BY <1>2, <1>3, <3>1 DEF Holds
  <2>2. CASE q = p
    <3>1. hookPc[p] # "spinDisable"
      BY <1>2, <1>3, <2>2 DEF Holds, Settingup
    <3>2. hookPc'[p] = "traced"
      BY <1>1, <3>1, SchedTypes
    <3> QED BY <2>2, <3>2 DEF Holds
  <2> QED BY <2>1, <2>2
<1> QED BY <1>1, <1>3, HoldsKept

\* Callbacks keep LiveInv.
LEMMA HooksKeepLive ==
  ASSUME TypeOK, BroadcastInv, HookInv, LiveInv, OneInv, NEW p \in Procs, Hook(p)
  PROVE  LiveInv' /\ bugCheck' = bugCheck
<1>1. Moves(p) \/ Inserts(p) \/ Spins(p)
  BY HookShape
<1>2. bugCheck' = bugCheck
  BY <1>1, InsertShape DEF Moves, Spins, SpinUntilDone
<1> QED BY <1>1, <1>2, MovesKeepLive, InsertsKeepLive, SpinsKeepLive


-----------------------------------------------------------------------------
(* The ids: the steps of the callbacks.                                    *)

\* While a process opens a sequence no other one is under way and no routine
\* has a packet in hand.
LEMMA OpeningAlone ==
  ASSUME TypeOK, BroadcastInv, LiveInv, OneInv, NEW p \in Procs, hookPc[p] \in Opening
  PROVE  /\ \A c \in Cpus : pc[c] \notin DataSteps \cup LastSteps
         /\ \A q \in Procs : q # p => ~Active(q)
<1>1. \A c \in Cpus : pc[c] \notin DataSteps \cup LastSteps
  BY UnderWay
<1>2. Active(p)
  BY DEF Active, Opening
<1> QED BY <1>1, <1>2 DEF OneInv

\* Where no processor has a packet in hand, HandInv holds of none.
LEMMA NoHands ==
  ASSUME \A c \in Cpus : pc[c] \notin DataSteps \cup LastSteps, pc' = pc
  PROVE  HandInv'
  BY Labels DEF HandInv, HandAt, HasId, HasSeq

\* A step of a process that neither opens a sequence, nor is about to.
HookQuiet(p) ==
  /\ UNCHANGED <<queue, seqId, packetId, hookDto, failures>>
  /\ \E l : /\ hookPc' = [hookPc EXCEPT ![p] = l]
            /\ \/ l = "increase"
               \/ l \notin Opening /\ Active(p) /\ hookPc[p] \notin Opening

\* Steps that neither stamp nor enqueue keep IdInv.
LEMMA QuietKeepsIds ==
  ASSUME TypeOK, IdInv, NEW p \in Procs, HookQuiet(p), UNCHANGED <<pc, dto>>
  PROVE  IdInv'
<1>1. /\ UNCHANGED <<queue, seqId, packetId, hookDto, failures>>
      /\ \A q \in Procs : q # p => hookPc'[q] = hookPc[q]
      /\ \/ hookPc'[p] = "increase"
         \/ hookPc'[p] \notin Opening /\ Active(p) /\ hookPc[p] \notin Opening
  BY SchedTypes DEF HookQuiet
<1>2. IdsDiffer' /\ HandInv'
  BY <1>1 DEF IdInv, IdsDiffer, HandInv, HandAt, HasId, HasSeq, Index
<1>3. SeqInv'
  <2>1. ASSUME NEW q \in Procs
        PROVE  /\ hookPc'[q] \in Opening \ {"increase"} => hookPc'[q] = hookPc[q]
               /\ hookPc'[q] \in {"stampSeq", "stampId", "enqueue"} => hookPc'[q] = hookPc[q]
    BY <1>1 DEF Opening
  <2> QED BY <1>1, <2>1 DEF IdInv, SeqInv, Index
<1>4. FirstInv'
  <2> SUFFICES ASSUME failures = 0
               PROVE  /\ \A q \in Procs : Active(q)' /\ hookPc'[q] \notin Opening => Led(seqId)'
                      /\ \A j \in Index' : LedAt(j)'
    BY <1>1 DEF FirstInv
  <2>1. \A j \in Index' : LedAt(j)'
    BY <1>1 DEF IdInv, FirstInv, LedAt, Index
  <2>2. ASSUME NEW q \in Procs, Active(q)', hookPc'[q] \notin Opening PROVE Led(seqId)
    <3>1. Active(q) /\ hookPc[q] \notin Opening
      BY <1>1, <2>2 DEF Active, Opening
    <3> QED BY <3>1 DEF IdInv, FirstInv
  <2> QED BY <1>1, <2>1, <2>2 DEF Led, Index
<1> QED BY <1>2, <1>3, <1>4 DEF IdInv

\* DuIncreaseSequenceId: every queued packet belongs to an earlier sequence.
LEMMA IncreaseKeepsIds ==
  ASSUME TypeOK, BroadcastInv, LiveInv, OneInv, IdInv, NEW p \in Procs, IncreaseSequenceId(p)
  PROVE  IdInv'
<1>1. /\ hookPc[p] = "increase" /\ hookPc' = [hookPc EXCEPT ![p] = "reset"]
      /\ seqId' = seqId + 1 /\ UNCHANGED <<queue, packetId, hookDto, failures, pc, dto>>
  BY DEF IncreaseSequenceId, HookGoto
<1>2. /\ \A c \in Cpus : pc[c] \notin DataSteps \cup LastSteps
      /\ \A q \in Procs : q # p => ~Active(q)
  BY <1>1, OpeningAlone DEF Opening
<1>3. hookPc'[p] = "reset" /\ \A q \in Procs : q # p => hookPc'[q] \in {"unloaded", "gone"}
  BY <1>1, <1>2, SchedTypes DEF Active
<1>4. \A i \in Index : queue[i].seq < seqId'
  <2>1. queue \in Seq(PacketType) /\ seqId \in Nat
    BY RegTypes
  <2>2. ASSUME NEW i \in Index PROVE queue[i].seq \in Nat /\ queue[i].seq <= seqId
    <3>1. queue[i] \in PacketType
      BY <2>1 DEF Index
    <3> QED BY <3>1 DEF PacketType, IdInv, SeqInv
  <2> QED BY <1>1, <2>1, <2>2
<1>5. SeqInv'
  <2>1. seqId' \in Nat /\ \A i \in Index : queue[i].seq <= seqId' /\ queue[i].seq # seqId'
    <3>1. seqId' \in Nat
      BY <1>1, RegTypes
    <3>2. ASSUME NEW i \in Index PROVE queue[i].seq \in Nat
      <4>1. queue \in Seq(PacketType)
        BY RegTypes
      <4>2. queue[i] \in PacketType
        BY <4>1 DEF Index
      <4> QED BY <4>2 DEF PacketType
    <3> QED BY <1>4, <3>1, <3>2
  <2> QED BY <1>1, <1>3, <1>4, <2>1 DEF SeqInv, Index, Opening
<1>6. IdsDiffer'
  BY <1>1 DEF IdInv, IdsDiffer, Index
<1>7. FirstInv'
  <2>1. \A q \in Procs : ~(Active(q)' /\ hookPc'[q] \notin Opening)
    BY <1>3 DEF Active, Opening
  <2> QED BY <1>1, <2>1 DEF IdInv, FirstInv, LedAt, Index
<1>8. HandInv'
  BY <1>1, <1>2, NoHands
<1> QED BY <1>5, <1>6, <1>7, <1>8 DEF IdInv

\* The packet ids of the sequence begin with 0; without a descriptor an
\* allocation has failed.
LEMMA ResetKeepsIds ==
  ASSUME TypeOK, BroadcastInv, LiveInv, OneInv, IdInv, NEW p \in Procs, ResetPacketId(p)
  PROVE  IdInv'
<1>1. /\ hookPc[p] = "reset" /\ packetId' = 0 /\ UNCHANGED <<queue, seqId, hookDto, pc, dto>>
      /\ \/ hookPc' = [hookPc EXCEPT ![p] = "stampSeq"] /\ failures' = failures
         \/ hookPc' = [hookPc EXCEPT ![p] = "loaded"] /\ failures' # 0
  <2>1. Fail => failures' # 0
    BY RegTypes DEF Fail
  <2> QED BY <2>1 DEF ResetPacketId, HookGoto
<1>2. /\ \A c \in Cpus : pc[c] \notin DataSteps \cup LastSteps
      /\ \A q \in Procs : q # p => ~Active(q)
  BY <1>1, OpeningAlone DEF Opening
<1>3. /\ \/ hookPc'[p] = "stampSeq" /\ failures' = failures
         \/ hookPc'[p] = "loaded" /\ failures' # 0
      /\ \A q \in Procs : q # p => hookPc'[q] \in {"unloaded", "gone"}
  BY <1>1, <1>2, SchedTypes DEF Active
<1>4. \A i \in Index : queue[i].seq < seqId /\ queue[i].seq \in Nat
  <2>1. \A i \in Index : queue[i].seq < seqId
    BY <1>1 DEF IdInv, SeqInv, Opening
  <2>2. ASSUME NEW i \in Index PROVE queue[i].seq \in Nat
    <3>1. queue \in Seq(PacketType)
      BY RegTypes
    <3>2. queue[i] \in PacketType
      BY <3>1 DEF Index
    <3> QED BY <3>2 DEF PacketType
  <2> QED BY <2>1, <2>2
<1>5. SeqInv'
  <2>1. \A i \in Index : queue[i].seq <= seqId /\ queue[i].seq # seqId
    BY <1>4, RegTypes
  <2> QED BY <1>1, <1>3, <1>4, <2>1 DEF SeqInv, Index, Opening
<1>6. IdsDiffer'
  BY <1>1 DEF IdInv, IdsDiffer, Index
<1>7. FirstInv'
  <2>1. CASE failures' # 0
    BY <2>1 DEF FirstInv
  <2>2. CASE hookPc'[p] = "stampSeq" /\ failures' = failures
    <3>1. \A q \in Procs : ~(Active(q)' /\ hookPc'[q] \notin Opening)
      BY <1>3, <2>2 DEF Active, Opening
    <3> QED BY <1>1, <2>2, <3>1 DEF IdInv, FirstInv, LedAt, Index
  <2> QED BY <1>3, <2>1, <2>2
<1>8. HandInv'
  BY <1>1, <1>2, NoHands
<1> QED BY <1>5, <1>6, <1>7, <1>8 DEF IdInv

\* The FIRST packet gets the number of its sequence and the packet id 0.
LEMMA FirstStampsKeepIds ==
  ASSUME TypeOK, BroadcastInv, LiveInv, OneInv, IdInv, NEW p \in Procs, FirstSeq(p) \/ FirstId(p)
  PROVE  IdInv'
<1>1. /\ UNCHANGED <<queue, seqId, failures, pc, dto>>
      /\ \/ /\ hookPc[p] = "stampSeq" /\ hookPc' = [hookPc EXCEPT ![p] = "stampId"]
            /\ hookDto' = [hookDto EXCEPT ![p].seq = seqId] /\ packetId' = packetId
         \/ /\ hookPc[p] = "stampId" /\ hookPc' = [hookPc EXCEPT ![p] = "enqueue"]
            /\ hookDto' = [hookDto EXCEPT ![p].id = packetId] /\ packetId' = packetId + 1
  BY DEF FirstSeq, FirstId, HookGoto, coreVars
<1>2. /\ \A c \in Cpus : pc[c] \notin DataSteps \cup LastSteps
      /\ \A q \in Procs : q # p => ~Active(q)
  BY <1>1, OpeningAlone DEF Opening
<1>3. /\ \A q \in Procs : q # p => hookPc'[q] \in {"unloaded", "gone"}
      /\ hookPc'[p] \in {"stampId", "enqueue"}
  BY <1>1, <1>2, SchedTypes DEF Active
<1>4. /\ packetId = 0
      /\ hookPc'[p] = "stampId" => packetId' = 0
      /\ hookDto'[p].seq = seqId
      /\ hookPc'[p] = "enqueue" => hookDto'[p].id = 0 /\ packetId' > 0
  <2>1. hookDto[p] \in [seq : Nat, id : Nat] /\ hookDto \in [Procs -> [seq : Nat, id : Nat]]
    BY RegTypes
  <2>2. packetId = 0 /\ (hookPc[p] = "stampId" => hookDto[p].seq = seqId)
    BY <1>1 DEF IdInv, SeqInv
  <2>3. hookPc \in [Procs -> HookLabels]
    BY SchedTypes
  <2> QED BY <1>1, <2>1, <2>2, <2>3
<1>5. \A i \in Index : queue[i].seq < seqId /\ queue[i].seq \in Nat
  <2>1. \A i \in Index : queue[i].seq < seqId
    BY <1>1 DEF IdInv, SeqInv, Opening
  <2>2. ASSUME NEW i \in Index PROVE queue[i].seq \in Nat
    <3>1. queue \in Seq(PacketType)
      BY RegTypes
    <3>2. queue[i] \in PacketType
      BY <3>1 DEF Index
    <3> QED BY <3>2 DEF PacketType
  <2> QED BY <2>1, <2>2
<1>6. SeqInv'
  <2>1. \A i \in Index : queue[i].seq <= seqId /\ queue[i].seq # seqId
    BY <1>5, RegTypes
  <2> QED BY <1>1, <1>3, <1>4, <1>5, <2>1 DEF SeqInv, Index, Opening
<1>7. IdsDiffer'
  BY <1>1 DEF IdInv, IdsDiffer, Index
<1>8. FirstInv'
  <2>1. \A q \in Procs : ~(Active(q)' /\ hookPc'[q] \notin Opening)
    BY <1>3 DEF Active, Opening
  <2> QED BY <1>1, <2>1 DEF IdInv, FirstInv, LedAt, Index
<1>9. HandInv'
  BY <1>1, <1>2, NoHands
<1> QED BY <1>6, <1>7, <1>8, <1>9 DEF IdInv

\* The FIRST packet opens its sequence in the queue, or is lost.
LEMMA FirstEnqueueKeepsIds ==
  ASSUME TypeOK, BroadcastInv, LiveInv, OneInv, IdInv, NEW p \in Procs, FirstEnqueue(p)
  PROVE  IdInv'
<1> SUFFICES ASSUME NEW n, n = Len(queue) + 1, NEW e,
                    e = [kind |-> "first", cpu |-> 0, mdl |-> 0,
                         seq |-> hookDto[p].seq, id |-> hookDto[p].id]
             PROVE  IdInv'
  OBVIOUS
<1>1. /\ hookPc[p] = "enqueue" /\ hookPc' = [hookPc EXCEPT ![p] = "register"]
      /\ UNCHANGED <<seqId, packetId, hookDto, pc, dto>>
      /\ \/ queue' = Append(queue, e) /\ failures' = failures
         \/ queue' = queue /\ failures' # 0
  <2>1. Fail => failures' # 0
    BY RegTypes DEF Fail
  <2> QED BY <2>1 DEF FirstEnqueue, HookGoto, idVars
<1>2. /\ \A c \in Cpus : pc[c] \notin DataSteps \cup LastSteps
      /\ \A q \in Procs : q # p => ~Active(q)
  BY <1>1, OpeningAlone DEF Opening
<1>3. /\ \A q \in Procs : q # p => hookPc'[q] \in {"unloaded", "gone"}
      /\ hookPc'[p] = "register"
  BY <1>1, <1>2, SchedTypes DEF Active
<1>4. /\ e.kind = "first" /\ e.seq = seqId /\ e.id = 0 /\ packetId > 0
  BY <1>1 DEF IdInv, SeqInv
<1>5. /\ \A i \in Index : queue[i].seq < seqId /\ queue[i].seq \in Nat
      /\ seqId \in Nat /\ queue \in Seq(PacketType)
  <2>1. \A i \in Index : queue[i].seq < seqId
    BY <1>1 DEF IdInv, SeqInv, Opening
  <2>2. queue \in Seq(PacketType) /\ seqId \in Nat
    BY RegTypes
  <2>3. ASSUME NEW i \in Index PROVE queue[i].seq \in Nat
    <3>1. queue[i] \in PacketType
      BY <2>2 DEF Index
    <3> QED BY <3>1 DEF PacketType
  <2> QED BY <2>1, <2>2, <2>3
<1>6. \A i \in Index : queue[i].seq <= seqId /\ queue[i].seq # seqId
  BY <1>5
<1>7. HandInv'
  BY <1>1, <1>2, NoHands
<1>8. CASE queue' = queue /\ failures' # 0
  <2>1. SeqInv'
    BY <1>1, <1>3, <1>6, <1>8 DEF SeqInv, Index, Opening
  <2>2. IdsDiffer'
    BY <1>8 DEF IdInv, IdsDiffer, Index
  <2>3. FirstInv'
    BY <1>8 DEF FirstInv
  <2> QED BY <1>7, <2>1, <2>2, <2>3 DEF IdInv
<1>9. CASE queue' = Append(queue, e) /\ failures' = failures
  <2>1. /\ Len(queue) \in Nat /\ \A i \in Index : i \in Index' /\ queue'[i] = queue[i]
        /\ n \in Index' /\ queue'[n] = e
        /\ \A i \in Index' : i \in Index \/ i = n
        /\ \A i \in Index : i < n /\ i \in Nat
    BY <1>5, <1>9 DEF Index
  <2>2. SeqInv'
    <3>1. \A i \in Index' : /\ queue'[i].seq <= seqId
                            /\ queue'[i].seq = seqId => queue'[i].id < packetId
      <4>1. seqId <= seqId /\ 0 < packetId
        BY <1>4, <1>5, RegTypes
      <4> QED BY <1>4, <1>6, <2>1, <4>1
    <3> QED BY <1>1, <1>3, <3>1 DEF SeqInv, Opening
  <2>3. IdsDiffer'
    <3> SUFFICES ASSUME NEW i \in Index', NEW j \in Index', i < j, queue'[i].seq = queue'[j].seq
                 PROVE  /\ queue'[i].id # queue'[j].id
                        /\ "first" \notin {queue'[i].kind, queue'[j].kind}
                             /\ queue'[i].cpu = queue'[j].cpu => queue'[i].id < queue'[j].id
      BY DEF IdsDiffer
    <3>1. i \in Index
      BY <2>1 DEF Index
    <3>2. CASE j \in Index
      <4>1. queue'[i] = queue[i] /\ queue'[j] = queue[j]
        BY <2>1, <3>1, <3>2
      <4>2. IdsDiffer
        BY DEF IdInv
      <4> QED BY <3>1, <3>2, <4>1, <4>2 DEF IdsDiffer
    <3>3. CASE j = n
      BY <1>4, <1>6, <2>1, <3>1, <3>3
    <3> QED BY <2>1, <3>2, <3>3
  <2>4. FirstInv'
    <3> SUFFICES ASSUME failures = 0
                 PROVE  Led(seqId)' /\ \A j \in Index' : LedAt(j)'
      BY <1>9 DEF FirstInv
    <3>1. Led(seqId)'
      BY <1>1, <1>4, <2>1 DEF Led
    <3>2. ASSUME NEW j \in Index PROVE LedAt(j)'
      <4>1. \A k \in 1..(j - 1) : k \in Index
        BY <2>1 DEF Index
      <4>2. LedAt(j)
        BY DEF IdInv, FirstInv
      <4> QED BY <2>1, <4>1, <4>2 DEF LedAt
    <3>3. LedAt(n)'
      BY <1>4, <2>1 DEF LedAt
    <3> QED BY <2>1, <3>1, <3>2, <3>3
  <2> QED BY <1>7, <2>2, <2>3, <2>4 DEF IdInv
<1> QED BY <1>1, <1>8, <1>9

\* Callbacks keep IdInv: a sequence is opened while no packet is in hand.
LEMMA HooksKeepIds ==
  ASSUME TypeOK, BroadcastInv, LiveInv, OneInv, IdInv, NEW p \in Procs, Hook(p)
  PROVE  IdInv'
<1> USE DEF HookQuiet, HookGoto, Active, Opening, coreVars, idVars
<1>0. UNCHANGED <<pc, dto>> /\ hookPc = [hookPc EXCEPT ![p] = hookPc[p]]
  BY HooksLeaveCores, SchedTypes
<1>1. CASE ImageLoad(p)
  BY <1>0, <1>1, QuietKeepsIds DEF ImageLoad
<1>2. CASE \/ IncreaseSequenceId(p) \/ ResetPacketId(p) \/ FirstSeq(p) \/ FirstId(p)
           \/ FirstEnqueue(p)
  BY <1>2, IncreaseKeepsIds, ResetKeepsIds, FirstStampsKeepIds, FirstEnqueueKeepsIds
<1>3. CASE RegisterHooks(p) \/ ThreadCreate(p) \/ ClaimThread(p) \/ InstallPmiHandler(p)
  <2>1. HookQuiet(p)
    BY <1>3 DEF RegisterHooks, ThreadCreate, ClaimThread, InstallPmiHandler
  <2> QED BY <1>0, <2>1, QuietKeepsIds
<1>4. CASE Inserts(p)
  <2>1. /\ UNCHANGED <<queue, seqId, packetId, hookDto, failures>>
        /\ hookPc[p] \in {"insertSetup", "insertDisable"}
        /\ \E l \in {hookPc[p], "spinSetup", "spinDisable"} : hookPc' = [hookPc EXCEPT ![p] = l]
    BY <1>0, <1>4 DEF Inserts, InsertDpc
  <2>2. HookQuiet(p)
    BY <2>1
  <2> QED BY <1>0, <2>2, QuietKeepsIds
<1>5. CASE Spins(p)
  <2>1. HookQuiet(p)
    BY <1>5 DEF Spins, SpinUntilDone
  <2> QED BY <1>0, <2>1, QuietKeepsIds
<1>6. CASE ExitIgnored(p) \/ ProcessExit(p) \/ RemoveThreadHook(p)
  <2>1. HookQuiet(p)
    BY <1>6 DEF ExitIgnored, ProcessExit, RemoveThreadHook
  <2> QED BY <1>0, <2>1, QuietKeepsIds
<1>7. CASE UninstallPmiHandler(p) \/ ClearProcessId(p) \/ ClearThreadHoodked(p)
  <2>1. HookQuiet(p)
    BY <1>7 DEF UninstallPmiHandler, ClearProcessId, ClearThreadHoodked
  <2> QED BY <1>0, <2>1, QuietKeepsIds
<1> QED BY <1>1, <1>2, <1>3, <1>4, <1>5, <1>6, <1>7
        DEF Hook, PtwHookImageLoadCr3, PtwHookThreadCreation, PtwHookProcessExit, Inserts, Spins

-----------------------------------------------------------------------------
(* The theorems.                                                           *)

\* A race of processors is not forgotten.
LEMMA CoreRacedStays ==
  ASSUME NEW c \in Cpus, CoreNext(c), raced
  PROVE  raced'
<1>1. CASE HwTopaInt(c) \/ HwOtherPmi(c) \/ IptPmiHandler(c)
  BY <1>1 DEF HwTopaInt, HwOtherPmi, IptPmiHandler, PmiDismissed, PmiForeign,
              PmiForeignReset, PmiPause
<1>2. ASSUME NEW routine, IptEnableTrace(c, routine) PROVE raced'
  BY <1>2 DEF IptEnableTrace, WriteEnable, CheckEnable, MarkEnabled
<1>3. ASSUME NEW routine, NEW from, NEW to,
             StampSeq(c, routine, from, to) \/ StampId(c, routine, from, to)
      PROVE  raced'
  BY <1>3 DEF StampSeq, StampId
<1>4. CASE SetupConfigure(c) \/ DpcRefused(c) \/ DpcUnlink(c) \/ DpcEnqueue(c) \/ DpcResume(c)
  BY <1>4 DEF SetupConfigure, DpcRefused, DpcUnlink, DpcEnqueue, DpcResume
<1>5. CASE DisableClear(c) \/ DisableCollect(c) \/ DisableEnqueue(c)
  BY <1>5 DEF DisableClear, DisableCollect, DisableEnqueue
<1> QED BY <1>1, <1>2, <1>3, <1>4, <1>5
        DEF CoreNext, RunDpc, PtwIpiPerCoreSetup, IptDpc, PtwDpcPerCoreDisable

\* Processors keep SessionInv.
LEMMA CoreKeepsSession ==
  ASSUME TypeOK, MsrInv, SessionInv, NEW c \in Cpus, CoreStep(c)
  PROVE  SessionInv'
<1>1. CoreNext(c) /\ UNCHANGED hookVars
  BY DEF CoreStep
<1>2. BroadcastInv'
  BY <1>1, CoreKeepsBroadcasts DEF SessionInv
<1>3. HookInv'
  BY <1>1 DEF SessionInv, HookInv, hookVars
<1>4. ASSUME ~raced' PROVE ~bugCheck' /\ LiveInv' /\ OneInv' /\ IdInv'
  <2>1. BroadcastInv /\ ~bugCheck /\ LiveInv /\ OneInv /\ IdInv
    BY <1>1, <1>4, CoreRacedStays DEF SessionInv
  <2>2. OneInv'
    BY <1>1, <2>1 DEF OneInv, Active, hookVars
  <2> QED BY <1>1, <1>4, <2>1, <2>2, CoreKeepsLive, CoreKeepsIds
<1> QED BY <1>2, <1>3, <1>4 DEF SessionInv

\* Callbacks keep SessionInv.
LEMMA HooksKeepSession ==
  ASSUME TypeOK, SessionInv, NEW p \in Procs, HookStep(p)
  PROVE  SessionInv'
<1>1. Hook(p)
  BY DEF HookStep
<1>2. BroadcastInv' /\ HookInv'
  BY <1>1, HooksKeepBroadcasts, HooksKeepHooks DEF SessionInv
<1>3. ASSUME ~raced' PROVE ~bugCheck' /\ LiveInv' /\ OneInv' /\ IdInv'
  <2>1. ~raced /\ OneInv'
    BY <1>1, <1>3, HooksKeepOne DEF SessionInv
  <2>2. BroadcastInv /\ HookInv /\ ~bugCheck /\ LiveInv /\ OneInv /\ IdInv
    BY <2>1 DEF SessionInv
  <2> QED BY <1>1, <2>1, <2>2, HooksKeepLive, HooksKeepIds
<1> QED BY <1>2, <1>3 DEF SessionInv

\* Before the first image load there is no session.
LEMMA InitSession == Init => SessionInv
<1> SUFFICES ASSUME Init PROVE SessionInv
  OBVIOUS
<1>1. /\ \A c \in Cpus : dpcQueue[c] = <<>> /\ pc[c] = "idle" /\ traceEn[c] = FALSE /\ live[c] = FALSE
      /\ \A p \in Procs : dpcCount[p] = 0 /\ hookPc[p] = "unloaded" /\ insertCpu[p] = 0
      /\ queue = <<>> /\ bugCheck = FALSE /\ threadHooks = 0
  BY DEF Init, CoreInit
<1>2. \A c \in Cpus : 1..Len(dpcQueue[c]) = {}
  BY <1>1
<1>3. Index = {}
  BY <1>1 DEF Index
<1>4. \A p \in Procs : Queued(p) = {}
  BY <1>2 DEF Queued
<1>5. OwnerInv
  BY <1>2 DEF OwnerInv
<1>6. CountInv
  <2>1. Cardinality({}) = 0
    BY FS_EmptySet
  <2>2. ASSUME NEW p \in Procs
        PROVE  /\ dpcCount[p] + Cardinality(Queued(p)) = insertCpu[p]
               /\ \A c \in Queued(p) : c < insertCpu[p]
    <3>1. Cardinality(Queued(p)) = 0
      BY <1>4, <2>1
    <3> QED BY <1>1, <1>4, <3>1
  <2> QED BY <1>1, <2>2 DEF CountInv
<1>7. RoutineInv
  BY <1>1, Labels DEF RoutineInv
<1>8. HookInv
  BY <1>1 DEF HookInv
<1>9. LiveInv
  BY <1>1, <1>2, Labels DEF LiveInv, LiveAt
<1>10. OneInv
  BY <1>1 DEF OneInv, Active
<1>11. SeqInv /\ IdsDiffer /\ FirstInv
  BY <1>1, <1>3 DEF SeqInv, IdsDiffer, FirstInv, Active, Opening
<1>12. HandInv
  BY <1>1, Labels DEF HandInv, HandAt, HasId, HasSeq
<1> QED BY <1>1, <1>5, <1>6, <1>7, <1>8, <1>9, <1>10, <1>11, <1>12
        DEF SessionInv, BroadcastInv, IdInv

\* Nothing changes when no variable does.
LEMMA StutterKeepsSession ==
  ASSUME SessionInv, UNCHANGED vars
  PROVE  SessionInv'
<1> USE DEF vars, coreVars, hookVars
<1>1. BroadcastInv'
  BY DEF SessionInv, BroadcastInv, OwnerInv, CountInv, RoutineInv, Queued
<1>2. HookInv'
  BY DEF SessionInv, HookInv
<1>3. LiveInv <=> LiveInv'
  BY DEF LiveInv, LiveAt, Holds, Queued
<1>4. OneInv <=> OneInv'
  <2>1. \A p \in Procs : Active(p)' <=> Active(p)
    BY DEF Active
  <2> QED BY <2>1 DEF OneInv
<1>5. SeqInv' = SeqInv /\ IdsDiffer' = IdsDiffer
  BY DEF SeqInv, IdsDiffer, Index
<1>6. FirstInv' = FirstInv
  BY DEF FirstInv, Active, Led, LedAt, Index
<1>7. HandInv' = HandInv
  BY DEF HandInv, HandAt, HasId, HasSeq, Index
<1> QED BY <1>1, <1>2, <1>3, <1>4, <1>5, <1>6, <1>7 DEF SessionInv, IdInv

\* The sessions of PtwHookImageLoadCr3, PtwHookThreadCreation and
\* PtwHookProcessExit: whatever DPCs and PMIs fall between their steps, each
\* broadcast counts its own DPCs, a processor that traces belongs to the one
\* process under way, and the packets in hand carry the counters of its sequence.
THEOREM SessionInvariant == Spec => []SessionInv
<1>1. Init => SessionInv
  BY InitSession
<1>2. TypeOK /\ MsrInv /\ SessionInv /\ [Next]_vars => SessionInv'
  <2> SUFFICES ASSUME TypeOK, MsrInv, SessionInv, [Next]_vars PROVE SessionInv'
    OBVIOUS
  <2>1. ASSUME NEW c \in Cpus, CoreStep(c) PROVE SessionInv'
    BY <2>1, CoreKeepsSession
  <2>2. ASSUME NEW p \in Procs, HookStep(p) PROVE SessionInv'
    BY <2>2, HooksKeepSession
  <2>3. CASE UNCHANGED vars
    BY <2>3, StutterKeepsSession
  <2> QED BY <2>1, <2>2, <2>3 DEF Next
<1> QED BY <1>1, <1>2, TypeCorrect, StatusTellsTrace, PTL DEF Spec

\* PtwSetup never finds IA32_RTIT_CTL.TraceEn set, and so never faults, unless
\* traced processes overlapped or an IptDpc resumed a trace that was disabled.
THEOREM SuccessiveSessionsAreSafe == Spec => []BugCheckNeedsRace
<1>1. SessionInv => BugCheckNeedsRace
  BY DEF SessionInv, BugCheckNeedsRace
<1> QED BY <1>1, SessionInvariant, PTL

\* Under the same condition DuGetSequenceId and DuGetPacketId number the packets
\* of all processors without a clash, and each processor's in order.
THEOREM IdsIdentify == Spec => []IdsIdentifyPackets
<1>1. SessionInv => IdsIdentifyPackets
  BY DEF SessionInv, IdInv, IdsDiffer, Index, IdsIdentifyPackets
<1> QED BY <1>1, SessionInvariant, PTL

\* Under the same condition, and while no allocation fails, the FIRST packet of
\* PtwHookImageLoadCr3 is in the queue before every packet of its sequence.
THEOREM FirstLeads == Spec => []FirstPacketLeads
<1>1. SessionInv => FirstPacketLeads
  BY DEF SessionInv, IdInv, FirstInv, LedAt, Index, FirstPacketLeads
<1> QED BY <1>1, SessionInvariant, PTL
=============================================================================
