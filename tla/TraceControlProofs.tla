------------------------- MODULE TraceControlProofs -------------------------
(***************************************************************************)
(* Proofs about TraceControl for every number of processors and traced     *)
(* processes, and for any number of PMIs and failures: the type invariant, *)
(* that the output MSRs are never rewound under a running trace, and that  *)
(* the trace buffers of a processor leave in order and none is lost.       *)
(***************************************************************************)
EXTENDS TraceControl, TLAPS

-----------------------------------------------------------------------------
(* What the shared steps do to the parts of the type invariant.            *)

\* Inserting a DPC at the tail (KeInsertQueueDpc).
LEMMA InsertKeepsSched ==
  ASSUME SchedTypeOK, NEW c \in Cpus, NEW d \in DpcType,
         dpcQueue' = [dpcQueue EXCEPT ![c] = Append(@, d)], UNCHANGED <<pc, dpcCount>>
  PROVE  SchedTypeOK'
<1>1. Append(dpcQueue[c], d) \in Seq(DpcType) /\ Append(dpcQueue[c], d) # <<>>
  BY DEF SchedTypeOK
<1> QED BY <1>1 DEF SchedTypeOK

\* A DPC that goes on to its next step keeps the types of the schedule.
LEMMA ContinueKeepsSched ==
  ASSUME SchedTypeOK, NEW c \in Cpus, dpcQueue[c] # <<>>, NEW l \in PcLabels, Continue(c, l)
  PROVE  SchedTypeOK'
  BY DEF Continue, Goto, SchedTypeOK

\* So does one that returns.
LEMMA ReturnKeepsSched ==
  ASSUME SchedTypeOK, NEW c \in Cpus, dpcQueue[c] # <<>>, Return(c)
  PROVE  SchedTypeOK'
<1>1. Head(dpcQueue[c]) \in DpcType /\ Tail(dpcQueue[c]) \in Seq(DpcType)
  BY DEF SchedTypeOK
<1>2. /\ pc' = [pc EXCEPT ![c] = "idle"]
      /\ dpcQueue' = [dpcQueue EXCEPT ![c] = Tail(dpcQueue[c])]
  BY DEF Return, Goto
<1>3. dpcCount' \in [Procs -> Nat]
  <2>1. Head(dpcQueue[c]).owner \in Procs \cup {NoProc}
    BY <1>1 DEF DpcType
  <2> QED BY <2>1 DEF Return, SchedTypeOK
<1> QED BY <1>1, <1>2, <1>3 DEF SchedTypeOK, PcLabels

\* A step between two labels at which no packet is in hand.
LEMMA NoDtoKept ==
  ASSUME DtoTypeOK, NEW c \in Cpus, NEW l, l \notin DataSteps \cup LastSteps,
         pc[c] \notin DataSteps \cup LastSteps,
         pc \in [Cpus -> PcLabels],
         pc' = [pc EXCEPT ![c] = l], UNCHANGED dto
  PROVE  DtoTypeOK'
  BY DEF DtoTypeOK

\* Putting a packet d into the hands of the DPC of c (or taking it away).
LEMMA DtoReplaced ==
  ASSUME DtoTypeOK, NEW c \in Cpus, NEW l, NEW d \in PacketType \cup {NoDto},
         pc \in [Cpus -> PcLabels],
         pc' = [pc EXCEPT ![c] = l], dto' = [dto EXCEPT ![c] = d],
         l \in DataSteps => d.kind = "data",
         l \in LastSteps => d.kind = "last",
         l \notin DataSteps \cup LastSteps => d = NoDto
  PROVE  DtoTypeOK'
  BY DEF DtoTypeOK

\* The labels of the routines.
LEMMA Labels ==
  /\ DataSteps = {"dataSeq", "dataId", "dataEnqueue"}
  /\ LastSteps = {"lastId", "lastSeq", "lastEnqueue"}
  /\ PcLabels = {"idle", "writeEnable", "checkEnable", "markEnabled", "resetPmi", "collect"}
                  \cup DataSteps \cup LastSteps
  BY DEF DataSteps, LastSteps, PcLabels

\* The packet in hand, stamped, is still one of the kind it was.
LEMMA StampedPacket ==
  ASSUME DtoTypeOK, NEW c \in Cpus, pc[c] \in DataSteps \cup LastSteps, NEW n \in Nat
  PROVE  /\ dto[c] \in PacketType
         /\ [dto[c] EXCEPT !.seq = n] \in PacketType
         /\ [dto[c] EXCEPT !.id = n] \in PacketType
         /\ [dto[c] EXCEPT !.seq = n].kind = dto[c].kind
         /\ [dto[c] EXCEPT !.id = n].kind = dto[c].kind
         /\ [dto[c] EXCEPT !.seq = n].cpu = dto[c].cpu
         /\ [dto[c] EXCEPT !.id = n].cpu = dto[c].cpu
         /\ [dto[c] EXCEPT !.seq = n].mdl = dto[c].mdl
         /\ [dto[c] EXCEPT !.id = n].mdl = dto[c].mdl
<1>1. dto[c].kind \in {"data", "last"}
  BY DEF DtoTypeOK
<1>2. dto[c] \in PacketType
  BY <1>1 DEF DtoTypeOK, NoDto, Packet
<1> QED BY <1>2 DEF PacketType

\* The fields of a packet descriptor.
LEMMA NewPacket ==
  ASSUME NEW kind \in {"data", "last"}, NEW c \in Cpus, NEW m \in Nat
  PROVE  /\ Packet(kind, c, m) \in PacketType
         /\ Packet(kind, c, m).kind = kind
         /\ Packet(kind, c, m).cpu = c
         /\ Packet(kind, c, m).mdl = m
<1>1. c \in Nat
  BY CoreTraceAssumption DEF Cpus
<1> QED BY <1>1 DEF Packet, PacketType

-----------------------------------------------------------------------------
(* The type invariant, part by part, over the steps of a processor.        *)

\* Appending a packet to the history of the queue.
LEMMA AppendTyped ==
  ASSUME NEW S, NEW s \in Seq(S), NEW e \in S
  PROVE  Append(s, e) \in Seq(S)
  OBVIOUS

\* A running routine has its DPC at the head of the queue.
LEMMA AtHead ==
  ASSUME NEW c \in Cpus, NEW routine, NEW l, At(c, routine, l)
  PROVE  dpcQueue[c] # <<>> /\ pc[c] = l
  BY DEF At

\* IptEnableTrace keeps the types.
LEMMA EnableKeepsType ==
  ASSUME CoreTypeOK, NEW c \in Cpus, NEW routine, IptEnableTrace(c, routine)
  PROVE  CoreTypeOK'
<1> USE Labels
<1>0. SchedTypeOK /\ DtoTypeOK /\ RegTypeOK /\ pc \in [Cpus -> PcLabels]
  BY DEF CoreTypeOK, SchedTypeOK
<1>1. CASE WriteEnable(c, routine)
  <2>1. SchedTypeOK'
    BY <1>0, <1>1, AtHead, ContinueKeepsSched DEF WriteEnable
  <2>2. DtoTypeOK'
    <3>1. pc[c] = "writeEnable" /\ pc' = [pc EXCEPT ![c] = "checkEnable"] /\ dto' = dto
      BY <1>1 DEF WriteEnable, At, Continue, Goto
    <3> QED BY <1>0, <3>1 DEF DtoTypeOK
  <2>3. RegTypeOK'
    BY <1>0, <1>1 DEF WriteEnable, RegTypeOK, idVars
  <2> QED BY <2>1, <2>2, <2>3 DEF CoreTypeOK
<1>2. CASE CheckEnable(c, routine)
  <2>1. SchedTypeOK'
    BY <1>0, <1>2, AtHead, ContinueKeepsSched, ReturnKeepsSched DEF CheckEnable
  <2>2. DtoTypeOK'
    BY <1>0, <1>2, AtHead, NoDtoKept DEF CheckEnable, Continue, Return, Goto
  <2>3. RegTypeOK'
    BY <1>0, <1>2 DEF CheckEnable, RegTypeOK, hwVars, idVars
  <2> QED BY <2>1, <2>2, <2>3 DEF CoreTypeOK
<1>3. CASE MarkEnabled(c, routine)
  <2>1. SchedTypeOK'
    BY <1>0, <1>3, AtHead, ReturnKeepsSched DEF MarkEnabled
  <2>2. DtoTypeOK'
    <3>1. pc[c] = "markEnabled" /\ pc' = [pc EXCEPT ![c] = "idle"] /\ dto' = dto
      BY <1>3 DEF MarkEnabled, At, Return, Goto
    <3> QED BY <1>0, <3>1 DEF DtoTypeOK
  <2>3. RegTypeOK'
    BY <1>0, <1>3 DEF MarkEnabled, RegTypeOK, hwVars, idVars
  <2> QED BY <2>1, <2>2, <2>3 DEF CoreTypeOK
<1> QED BY <1>1, <1>2, <1>3 DEF IptEnableTrace

\* DuGetSequenceId and DuGetPacketId keep a packet in hand of the same kind.
LEMMA StampKeepsType ==
  ASSUME CoreTypeOK, NEW c \in Cpus, NEW routine, NEW from, NEW to,
         \/ from \in DataSteps /\ to \in DataSteps
         \/ from \in LastSteps /\ to \in LastSteps,
         StampSeq(c, routine, from, to) \/ StampId(c, routine, from, to)
  PROVE  CoreTypeOK'
<1> USE Labels
<1>0. SchedTypeOK /\ DtoTypeOK /\ RegTypeOK /\ pc \in [Cpus -> PcLabels]
  BY DEF CoreTypeOK, SchedTypeOK
<1>1. pc[c] = from /\ dpcQueue[c] # <<>> /\ Continue(c, to)
  BY AtHead DEF StampSeq, StampId
<1>2. SchedTypeOK'
  BY <1>0, <1>1, ContinueKeepsSched
<1>3. \E n \in Nat : \/ dto' = [dto EXCEPT ![c] = [dto[c] EXCEPT !.seq = n]]
                     \/ dto' = [dto EXCEPT ![c] = [dto[c] EXCEPT !.id = n]]
  BY <1>0 DEF StampSeq, StampId, RegTypeOK, DtoTypeOK
<1>4. DtoTypeOK'
  <2>1. \E d \in PacketType : d.kind = dto[c].kind /\ dto' = [dto EXCEPT ![c] = d]
    BY <1>0, <1>1, <1>3, StampedPacket
  <2>2. dto[c].kind = IF from \in DataSteps THEN "data" ELSE "last"
    BY <1>0, <1>1 DEF DtoTypeOK
  <2> QED BY <1>0, <1>1, <2>1, <2>2, DtoReplaced DEF Continue, Goto
<1>5. RegTypeOK'
  BY <1>0 DEF StampSeq, StampId, RegTypeOK, hwVars, idVars
<1> QED BY <1>2, <1>4, <1>5 DEF CoreTypeOK

\* An enqueue appends the packet in hand, or loses it.
LEMMA EnqueueKeepsReg ==
  ASSUME RegTypeOK, DtoTypeOK, NEW c \in Cpus, pc[c] \in DataSteps \cup LastSteps,
         EnqueueDto(c)
  PROVE  queue' \in Seq(PacketType) /\ failures' \in Nat
<1>1. dto[c] \in PacketType
  BY StampedPacket
<1>2. Append(queue, dto[c]) \in Seq(PacketType)
  BY <1>1 DEF RegTypeOK
<1>3. failures \in Nat /\ failures + 1 \in Nat /\ queue \in Seq(PacketType)
  BY DEF RegTypeOK
<1> QED BY <1>2, <1>3 DEF EnqueueDto, Fail

\* The hardware raises PMIs and the handler takes them.
LEMMA PmiKeepsType ==
  ASSUME CoreTypeOK, NEW c \in Cpus,
         HwTopaInt(c) \/ HwOtherPmi(c) \/ IptPmiHandler(c)
  PROVE  CoreTypeOK'
<1>0. SchedTypeOK /\ DtoTypeOK /\ RegTypeOK
  BY DEF CoreTypeOK
<1>1. CASE HwTopaInt(c)
  BY <1>0, <1>1 DEF HwTopaInt, CoreTypeOK, SchedTypeOK, DtoTypeOK, RegTypeOK
<1>2. CASE HwOtherPmi(c)
  BY <1>0, <1>2 DEF HwOtherPmi, CoreTypeOK, SchedTypeOK, DtoTypeOK, RegTypeOK
<1>3. CASE PmiDismissed(c)
  BY <1>0, <1>3 DEF PmiDismissed, CoreTypeOK, SchedTypeOK, DtoTypeOK, RegTypeOK
<1>4. CASE PmiForeign(c)
  BY <1>0, <1>4 DEF PmiForeign, CoreTypeOK, SchedTypeOK, DtoTypeOK, RegTypeOK
<1>5. CASE PmiForeignReset(c)
  BY <1>0, <1>5 DEF PmiForeignReset, CoreTypeOK, SchedTypeOK, DtoTypeOK, RegTypeOK
<1>6. CASE PmiPause(c)
  <2>1. SchedTypeOK'
    <3>1. Dpc("IptDpc", NoProc) \in DpcType
      BY DEF Dpc, DpcType
    <3>2. CASE dpcQueue' = [dpcQueue EXCEPT ![c] = Append(@, Dpc("IptDpc", NoProc))]
      BY <1>0, <1>6, <3>1, <3>2, InsertKeepsSched DEF PmiPause
    <3>3. CASE UNCHANGED dpcQueue
      BY <1>0, <1>6, <3>3 DEF PmiPause, SchedTypeOK
    <3> QED BY <1>6, <3>2, <3>3 DEF PmiPause
  <2>2. DtoTypeOK'
    BY <1>0, <1>6 DEF PmiPause, DtoTypeOK
  <2>3. RegTypeOK'
    BY <1>0, <1>6 DEF PmiPause, RegTypeOK
  <2> QED BY <2>1, <2>2, <2>3 DEF CoreTypeOK
<1> QED BY <1>1, <1>2, <1>3, <1>4, <1>5, <1>6 DEF IptPmiHandler

\* PtwIpiPerCoreSetup.
LEMMA SetupKeepsType ==
  ASSUME CoreTypeOK, NEW c \in Cpus, PtwIpiPerCoreSetup(c)
  PROVE  CoreTypeOK'
<1> USE Labels
<1>0. SchedTypeOK /\ DtoTypeOK /\ RegTypeOK /\ pc \in [Cpus -> PcLabels]
  BY DEF CoreTypeOK, SchedTypeOK
<1>1. CASE SetupConfigure(c)
  <2>1. SchedTypeOK'
    BY <1>0, <1>1, AtHead, ContinueKeepsSched DEF SetupConfigure, SchedTypeOK
  <2>2. DtoTypeOK'
    BY <1>0, <1>1, AtHead DEF SetupConfigure, Continue, Goto, DtoTypeOK
  <2>3. RegTypeOK'
    BY <1>0, <1>1 DEF SetupConfigure, RegTypeOK, hwVars, idVars
  <2> QED BY <2>1, <2>2, <2>3 DEF CoreTypeOK
<1> QED BY <1>1, EnableKeepsType DEF PtwIpiPerCoreSetup

\* IptDpc.
LEMMA IptDpcKeepsType ==
  ASSUME CoreTypeOK, NEW c \in Cpus, IptDpc(c)
  PROVE  CoreTypeOK'
<1> USE Labels
<1>0. SchedTypeOK /\ DtoTypeOK /\ RegTypeOK /\ pc \in [Cpus -> PcLabels]
  BY DEF CoreTypeOK, SchedTypeOK
<1>1. CASE DpcRefused(c)
  <2>1. SchedTypeOK'
    BY <1>0, <1>1, AtHead, ReturnKeepsSched DEF DpcRefused
  <2>2. DtoTypeOK'
    BY <1>0, <1>1, AtHead DEF DpcRefused, Return, Goto, DtoTypeOK
  <2>3. RegTypeOK'
    BY <1>0, <1>1 DEF DpcRefused, RegTypeOK, hwVars, idVars
  <2> QED BY <2>1, <2>2, <2>3 DEF CoreTypeOK
<1>2. CASE DpcUnlink(c)
  <2>0. pc[c] = "idle" /\ dpcQueue[c] # <<>> /\ topaMdl[c] \in Nat
    BY <1>0, <1>2, AtHead DEF DpcUnlink, RegTypeOK
  <2>1. SchedTypeOK'
    <3>1. UNCHANGED <<pc, dpcQueue, dpcCount>> \/ Continue(c, "dataSeq") \/ Return(c)
      BY <1>2 DEF DpcUnlink
    <3> QED BY <1>0, <2>0, <3>1, ContinueKeepsSched, ReturnKeepsSched DEF SchedTypeOK
  <2>2. DtoTypeOK'
    <3>1. \/ UNCHANGED <<pc, dto>>
          \/ pc' = [pc EXCEPT ![c] = "idle"] /\ UNCHANGED dto
          \/ /\ pc' = [pc EXCEPT ![c] = "dataSeq"]
             /\ dto' = [dto EXCEPT ![c] = Packet("data", c, topaMdl[c])]
      BY <1>2 DEF DpcUnlink, Continue, Return, Goto
    <3>2. Packet("data", c, topaMdl[c]) \in PacketType /\ Packet("data", c, topaMdl[c]).kind = "data"
      BY <2>0, NewPacket
    <3> QED BY <1>0, <2>0, <3>1, <3>2 DEF DtoTypeOK
  <2>3. RegTypeOK'
    <3>1. topaMdl' \in [Cpus -> Nat]
      <4>1. topaMdl' = topaMdl \/ topaMdl' = [topaMdl EXCEPT ![c] = @ + 1]
        BY <1>2 DEF DpcUnlink
      <4> QED BY <1>0, <4>1 DEF RegTypeOK
    <3>2. failures' \in Nat
      BY <1>0, <1>2 DEF DpcUnlink, Fail, RegTypeOK
    <3>3. bugCheck' \in BOOLEAN /\ raced' \in BOOLEAN
      BY <1>0, <1>2 DEF DpcUnlink, RegTypeOK
    <3> QED BY <1>0, <1>2, <3>1, <3>2, <3>3 DEF DpcUnlink, RegTypeOK, hwVars, idVars
  <2> QED BY <2>1, <2>2, <2>3 DEF CoreTypeOK
<1>3. CASE DpcEnqueue(c)
  <2>1. SchedTypeOK'
    BY <1>0, <1>3, AtHead, ContinueKeepsSched DEF DpcEnqueue
  <2>2. DtoTypeOK'
    BY <1>0, <1>3, AtHead DEF DpcEnqueue, EnqueueDto, Continue, Goto, DtoTypeOK
  <2>3. RegTypeOK'
    BY <1>0, <1>3, AtHead, EnqueueKeepsReg DEF DpcEnqueue, RegTypeOK, hwVars, idVars
  <2> QED BY <2>1, <2>2, <2>3 DEF CoreTypeOK
<1>4. CASE DpcResume(c)
  <2>1. SchedTypeOK'
    BY <1>0, <1>4, AtHead, ContinueKeepsSched, ReturnKeepsSched DEF DpcResume
  <2>2. DtoTypeOK'
    BY <1>0, <1>4, AtHead DEF DpcResume, Return, Continue, Goto, DtoTypeOK
  <2>3. RegTypeOK'
    BY <1>0, <1>4 DEF DpcResume, RegTypeOK, idVars
  <2> QED BY <2>1, <2>2, <2>3 DEF CoreTypeOK
<1>5. CASE StampSeq(c, "IptDpc", "dataSeq", "dataId") \/ StampId(c, "IptDpc", "dataId", "dataEnqueue")
  BY <1>5, StampKeepsType
<1> QED BY <1>1, <1>2, <1>3, <1>4, <1>5, EnableKeepsType DEF IptDpc

\* PtwDpcPerCoreDisable.
LEMMA DisableKeepsType ==
  ASSUME CoreTypeOK, NEW c \in Cpus, PtwDpcPerCoreDisable(c)
  PROVE  CoreTypeOK'
<1> USE Labels
<1>0. SchedTypeOK /\ DtoTypeOK /\ RegTypeOK /\ pc \in [Cpus -> PcLabels]
  BY DEF CoreTypeOK, SchedTypeOK
<1>1. CASE DisableClear(c)
  <2>1. SchedTypeOK'
    BY <1>0, <1>1, AtHead, ContinueKeepsSched DEF DisableClear
  <2>2. DtoTypeOK'
    BY <1>0, <1>1, AtHead DEF DisableClear, Continue, Goto, DtoTypeOK
  <2>3. RegTypeOK'
    BY <1>0, <1>1 DEF DisableClear, RegTypeOK, idVars
  <2> QED BY <2>1, <2>2, <2>3 DEF CoreTypeOK
<1>2. CASE DisableCollect(c)
  <2>0. pc[c] = "collect" /\ dpcQueue[c] # <<>> /\ topaMdl[c] \in Nat
    BY <1>0, <1>2, AtHead DEF DisableCollect, RegTypeOK
  <2>1. SchedTypeOK'
    BY <1>0, <1>2, <2>0, ContinueKeepsSched, ReturnKeepsSched DEF DisableCollect
  <2>2. DtoTypeOK'
    <3>1. \/ pc' = [pc EXCEPT ![c] = "idle"] /\ UNCHANGED dto
          \/ /\ pc' = [pc EXCEPT ![c] = "lastId"]
             /\ dto' = [dto EXCEPT ![c] = Packet("last", c, topaMdl[c])]
      BY <1>2 DEF DisableCollect, Continue, Return, Goto
    <3>2. Packet("last", c, topaMdl[c]) \in PacketType /\ Packet("last", c, topaMdl[c]).kind = "last"
      BY <2>0, NewPacket
    <3> QED BY <1>0, <2>0, <3>1, <3>2 DEF DtoTypeOK
  <2>3. RegTypeOK'
    BY <1>0, <1>2 DEF DisableCollect, Fail, RegTypeOK, hwVars, idVars
  <2> QED BY <2>1, <2>2, <2>3 DEF CoreTypeOK
<1>3. CASE DisableEnqueue(c)
  <2>1. SchedTypeOK'
    BY <1>0, <1>3, AtHead, ReturnKeepsSched DEF DisableEnqueue
  <2>2. DtoTypeOK'
    BY <1>0, <1>3, AtHead DEF DisableEnqueue, EnqueueDto, Return, Goto, DtoTypeOK
  <2>3. RegTypeOK'
    BY <1>0, <1>3, AtHead, EnqueueKeepsReg DEF DisableEnqueue, RegTypeOK, hwVars, idVars
  <2> QED BY <2>1, <2>2, <2>3 DEF CoreTypeOK
<1>4. CASE \/ StampId(c, "PtwDpcPerCoreDisable", "lastId", "lastSeq")
           \/ StampSeq(c, "PtwDpcPerCoreDisable", "lastSeq", "lastEnqueue")
  BY <1>4, StampKeepsType
<1> QED BY <1>1, <1>2, <1>3, <1>4 DEF PtwDpcPerCoreDisable

-----------------------------------------------------------------------------
(* The callbacks.                                                          *)

HookLabels ==
  {"unloaded", "increase", "reset", "stampSeq", "stampId", "enqueue", "register", "loaded",
   "claim", "install", "insertSetup", "spinSetup", "traced", "insertDisable", "spinDisable",
   "unhook", "uninstall", "clearProcess", "clearHooked", "gone"}

\* What the image-load callback does to the counters and the queue.
LEMMA ImageLoadKeepsType ==
  ASSUME TypeOK, NEW p \in Procs, PtwHookImageLoadCr3(p)
  PROVE  TypeOK'
<1> USE DEF TypeOK, CoreTypeOK, SchedTypeOK, DtoTypeOK, RegTypeOK, HookGoto, coreVars, hwVars, idVars
<1>1. CASE ImageLoad(p)
  BY <1>1 DEF ImageLoad, Fail
<1>2. CASE IncreaseSequenceId(p)
  <2>1. seqId' \in Nat
    BY <1>2 DEF IncreaseSequenceId
  <2>2. hookPc' \in [Procs -> HookLabels]
    BY <1>2 DEF IncreaseSequenceId, HookLabels
  <2> QED BY <1>2, <2>1, <2>2 DEF IncreaseSequenceId, HookLabels
<1>3. CASE ResetPacketId(p)
  <2>1. failures' \in Nat
    BY <1>3 DEF ResetPacketId, Fail
  <2>2. hookPc' \in [Procs -> HookLabels]
    BY <1>3 DEF ResetPacketId, HookLabels
  <2> QED BY <1>3, <2>1, <2>2 DEF ResetPacketId, HookLabels
<1>4. CASE FirstSeq(p)
  BY <1>4 DEF FirstSeq, Fail
<1>5. CASE FirstId(p)
  <2>1. packetId + 1 \in Nat
    OBVIOUS
  <2>2. hookDto' \in [Procs -> [seq : Nat, id : Nat]]
    BY <1>5 DEF FirstId
  <2>3. hookPc' \in [Procs -> HookLabels]
    <3>1. hookPc \in [Procs -> HookLabels] /\ hookPc' = [hookPc EXCEPT ![p] = "enqueue"]
      BY <1>5 DEF FirstId, HookLabels
    <3> HIDE DEF TypeOK
    <3> QED BY <3>1 DEF HookLabels
  <2> QED BY <1>5, <2>1, <2>2, <2>3 DEF FirstId, HookLabels
<1>6. CASE FirstEnqueue(p)
  <2>1. [kind |-> "first", cpu |-> 0, mdl |-> 0, seq |-> hookDto[p].seq, id |-> hookDto[p].id]
          \in PacketType
    BY DEF PacketType
  <2>2. queue' \in Seq(PacketType)
    <3>1. queue \in Seq(PacketType)
      OBVIOUS
    <3>2. \/ queue' = queue
          \/ queue' = Append(queue, [kind |-> "first", cpu |-> 0, mdl |-> 0,
                                     seq |-> hookDto[p].seq, id |-> hookDto[p].id])
      BY <1>6 DEF FirstEnqueue
    <3> HIDE DEF TypeOK
    <3> QED BY <2>1, <3>1, <3>2, AppendTyped
  <2>3. failures' \in Nat
    BY <1>6 DEF FirstEnqueue, Fail
  <2> QED BY <1>6, <2>2, <2>3 DEF FirstEnqueue
<1>7. CASE RegisterHooks(p)
  BY <1>7 DEF RegisterHooks
<1> QED BY <1>1, <1>2, <1>3, <1>4, <1>5, <1>6, <1>7 DEF PtwHookImageLoadCr3

\* A broadcast inserts one DPC per processor and waits.
LEMMA BroadcastKeepsType ==
  ASSUME TypeOK, NEW p \in Procs, NEW from, NEW to \in HookLabels,
         \/ InsertDpc(p, "PtwIpiPerCoreSetup", from, to)
         \/ InsertDpc(p, "PtwDpcPerCoreDisable", from, to)
         \/ SpinUntilDone(p, from, to)
  PROVE  TypeOK'
<1>0. /\ CoreTypeOK /\ SchedTypeOK /\ DtoTypeOK /\ RegTypeOK
      /\ NumCpus \in Nat /\ insertCpu[p] \in 0..NumCpus
  BY CoreTraceAssumption DEF TypeOK, CoreTypeOK
<1>1. ASSUME NEW routine \in {"PtwIpiPerCoreSetup", "PtwDpcPerCoreDisable"},
             InsertDpc(p, routine, from, to)
      PROVE  TypeOK'
  <2>1. SchedTypeOK'
    <3>1. CASE insertCpu[p] < NumCpus
      <4>1. Dpc(routine, p) \in DpcType
        BY DEF Dpc, DpcType
      <4>2. insertCpu[p] \in Cpus
        BY <1>0, <3>1 DEF Cpus
      <4>3. /\ dpcQueue' = [dpcQueue EXCEPT ![insertCpu[p]] = Append(@, Dpc(routine, p))]
            /\ UNCHANGED <<pc, dpcCount>>
        BY <1>1, <3>1 DEF InsertDpc
      <4> QED BY <1>0, <4>1, <4>2, <4>3, InsertKeepsSched
    <3>2. CASE ~(insertCpu[p] < NumCpus)
      BY <1>0, <1>1, <3>2 DEF InsertDpc, SchedTypeOK
    <3> QED BY <3>1, <3>2
  <2>2. DtoTypeOK' /\ RegTypeOK'
    BY <1>0, <1>1 DEF InsertDpc, DtoTypeOK, RegTypeOK, hwVars, idVars
  <2>3. insertCpu' \in [Procs -> 0..NumCpus]
    <3>1. insertCpu \in [Procs -> 0..NumCpus]
      BY DEF TypeOK
    <3>2. insertCpu[p] < NumCpus => insertCpu[p] + 1 \in 0..NumCpus
      BY <1>0
    <3>3. \/ insertCpu[p] < NumCpus /\ insertCpu' = [insertCpu EXCEPT ![p] = insertCpu[p] + 1]
          \/ insertCpu' = insertCpu
      BY <1>1 DEF InsertDpc
    <3> QED BY <3>1, <3>2, <3>3
  <2> QED BY <1>1, <2>1, <2>2, <2>3 DEF InsertDpc, HookGoto, TypeOK, CoreTypeOK, HookLabels
<1>2. CASE SpinUntilDone(p, from, to)
  <2>1. SchedTypeOK' /\ DtoTypeOK' /\ RegTypeOK'
    BY <1>0, <1>2 DEF SpinUntilDone, SchedTypeOK, DtoTypeOK, RegTypeOK, hwVars, idVars
  <2> QED BY <1>0, <1>2, <2>1 DEF SpinUntilDone, HookGoto, TypeOK, CoreTypeOK, HookLabels
<1> QED BY <1>1, <1>2

\* The thread-creation callback.
LEMMA ThreadCreationKeepsType ==
  ASSUME TypeOK, NEW p \in Procs, PtwHookThreadCreation(p)
  PROVE  TypeOK'
<1>1. CASE ThreadCreate(p) \/ ClaimThread(p) \/ InstallPmiHandler(p)
  <2>1. hookPc' \in [Procs -> HookLabels]
    BY <1>1 DEF ThreadCreate, ClaimThread, InstallPmiHandler, TypeOK, HookGoto, HookLabels
  <2>2. gThreadHoodked' \in BOOLEAN /\ pmiHandler' \in BOOLEAN
    BY <1>1 DEF ThreadCreate, ClaimThread, InstallPmiHandler, TypeOK, CoreTypeOK, RegTypeOK,
                coreVars
  <2>3. CoreTypeOK'
    <3>1. UNCHANGED <<hwVars, idVars, running, topaMdl, dpcQueue, pc, dto, dpcCount, queue,
                      bugCheck, failures, live, raced>>
      BY <1>1 DEF ThreadCreate, ClaimThread, InstallPmiHandler, coreVars, hwVars, idVars
    <3> QED BY <2>2, <3>1 DEF TypeOK, CoreTypeOK, SchedTypeOK, DtoTypeOK, RegTypeOK, hwVars,
                              idVars
  <2>4. UNCHANGED <<hookDto, insertCpu, gProcessId, threadHooks, exitHook>>
    BY <1>1 DEF ThreadCreate, ClaimThread, InstallPmiHandler
  <2> QED BY <2>1, <2>2, <2>3, <2>4 DEF TypeOK, HookLabels
<1>2. "spinSetup" \in HookLabels /\ "traced" \in HookLabels
  BY DEF HookLabels
<1> QED BY <1>1, <1>2, BroadcastKeepsType DEF PtwHookThreadCreation

\* The process-exit callback.
LEMMA ProcessExitKeepsType ==
  ASSUME TypeOK, NEW p \in Procs, PtwHookProcessExit(p)
  PROVE  TypeOK'
<1>0. UNCHANGED coreVars => UNCHANGED CoreTypeOK
  BY DEF coreVars, CoreTypeOK, SchedTypeOK, DtoTypeOK, RegTypeOK
<1>1. CASE ExitIgnored(p) \/ ProcessExit(p) \/ ClearProcessId(p) \/ ClearThreadHoodked(p)
  BY <1>0, <1>1 DEF ExitIgnored, ProcessExit, ClearProcessId, ClearThreadHoodked, TypeOK,
                    HookGoto
<1>4. CASE RemoveThreadHook(p)
  <2>1. threadHooks' \in Nat
    BY <1>4 DEF RemoveThreadHook, TypeOK
  <2> QED BY <1>0, <1>4, <2>1 DEF RemoveThreadHook, TypeOK, HookGoto
<1>2. CASE UninstallPmiHandler(p)
  BY <1>2 DEF UninstallPmiHandler, TypeOK, CoreTypeOK, SchedTypeOK, DtoTypeOK, RegTypeOK,
              HookGoto, hwVars, idVars
<1>3. "spinDisable" \in HookLabels /\ "unhook" \in HookLabels
  BY DEF HookLabels
<1> QED BY <1>1, <1>2, <1>3, <1>4, BroadcastKeepsType DEF PtwHookProcessExit

-----------------------------------------------------------------------------
\* Every reachable state has the declared types: a routine is under way only
\* while its DPC heads the queue of its processor, with a packet in hand
\* exactly between its allocation and its enqueue.
THEOREM TypeCorrect == Spec => []TypeOK
<1>1. Init => TypeOK
  <2> SUFFICES ASSUME Init PROVE TypeOK
    OBVIOUS
  <2> USE DEF Init, CoreInit
  <2>1. SchedTypeOK
    BY DEF SchedTypeOK, PcLabels
  <2>2. DtoTypeOK
    BY DEF DtoTypeOK, DataSteps, LastSteps
  <2>3. RegTypeOK
    <3>1. queue \in Seq(PacketType)
      OBVIOUS
    <3> QED BY <3>1 DEF RegTypeOK
  <2>4. insertCpu \in [Procs -> 0..NumCpus] /\ hookDto \in [Procs -> [seq : Nat, id : Nat]]
    BY CoreTraceAssumption
  <2> QED BY <2>1, <2>2, <2>3, <2>4 DEF TypeOK, CoreTypeOK
<1>2. TypeOK /\ [Next]_vars => TypeOK'
  <2> SUFFICES ASSUME TypeOK, [Next]_vars PROVE TypeOK'
    OBVIOUS
  <2>1. ASSUME NEW c \in Cpus, CoreStep(c) PROVE TypeOK'
    <3>1. CoreTypeOK'
      BY <2>1, PmiKeepsType, SetupKeepsType, IptDpcKeepsType, DisableKeepsType
         DEF CoreStep, CoreNext, RunDpc, TypeOK
    <3> QED BY <2>1, <3>1 DEF CoreStep, hookVars, TypeOK
  <2>2. ASSUME NEW p \in Procs, HookStep(p) PROVE TypeOK'
    BY <2>2, ImageLoadKeepsType, ThreadCreationKeepsType, ProcessExitKeepsType
       DEF HookStep, Hook
  <2>3. CASE UNCHANGED vars
    BY <2>3 DEF vars, coreVars, hookVars, TypeOK, CoreTypeOK, SchedTypeOK, DtoTypeOK, RegTypeOK
  <2> QED BY <2>1, <2>2, <2>3 DEF Next
<1> QED BY <1>1, <1>2, PTL DEF Spec

-----------------------------------------------------------------------------
(* The output MSRs are safe.                                               *)

\* A step that touches neither the trace of a processor, nor its status, nor
\* its DPCs keeps the invariant.
LEMMA MsrUntouched ==
  ASSUME MsrInv, UNCHANGED <<traceEn, running, pc>> PROVE MsrInv'
  BY DEF MsrInv

\* So does one that only moves a DPC between labels at which nothing is said.
LEMMA MsrMoved ==
  ASSUME TypeOK, MsrInv, NEW c \in Cpus, NEW l, UNCHANGED <<traceEn, running>>,
         pc' = [pc EXCEPT ![c] = l], l # "collect",
         pc[c] \notin {"checkEnable", "markEnabled"} \/ l = "markEnabled" \/ ~traceEn[c]
  PROVE  MsrInv'
  BY DEF MsrInv, TypeOK, CoreTypeOK, SchedTypeOK

\* Processors keep MsrInv.
LEMMA CoreKeepsMsrInv ==
  ASSUME TypeOK, MsrInv, NEW c \in Cpus, CoreNext(c)
  PROVE  MsrInv'
<1>0. /\ pc \in [Cpus -> PcLabels]
      /\ traceEn \in [Cpus -> BOOLEAN]
      /\ running \in [Cpus -> {"INITIALIZED", "PAUSED", "ENABLED"}]
  BY DEF TypeOK, CoreTypeOK, SchedTypeOK, RegTypeOK
<1>1. CASE HwTopaInt(c) \/ HwOtherPmi(c) \/ PmiDismissed(c) \/ PmiForeign(c) \/ PmiForeignReset(c)
  BY <1>1, MsrUntouched DEF HwTopaInt, HwOtherPmi, PmiDismissed, PmiForeign, PmiForeignReset
<1>2. CASE PmiPause(c)
  BY <1>0, <1>2 DEF PmiPause, MsrInv
<1>3. ASSUME NEW routine, WriteEnable(c, routine) PROVE MsrInv'
  BY <1>0, <1>3 DEF WriteEnable, Continue, Goto, MsrInv
<1>4. ASSUME NEW routine, CheckEnable(c, routine) PROVE MsrInv'
  <2>1. UNCHANGED <<traceEn, running>> /\ pc[c] = "checkEnable"
    BY <1>4 DEF CheckEnable, At, hwVars
  <2>2. \/ pc' = [pc EXCEPT ![c] = "markEnabled"]
        \/ pc' = [pc EXCEPT ![c] = "idle"] /\ ~traceEn[c]
    BY <1>4 DEF CheckEnable, Continue, Return, Goto
  <2> QED BY <2>1, <2>2, MsrMoved
<1>5. ASSUME NEW routine, MarkEnabled(c, routine) PROVE MsrInv'
  BY <1>0, <1>5 DEF MarkEnabled, Return, Goto, MsrInv, hwVars
<1>6. CASE SetupConfigure(c)
  <2>1. UNCHANGED <<traceEn, running>> /\ pc[c] = "idle"
    BY <1>6 DEF SetupConfigure, At, hwVars
  <2>2. UNCHANGED pc \/ pc' = [pc EXCEPT ![c] = "writeEnable"]
    BY <1>6 DEF SetupConfigure, Continue, Goto
  <2> QED BY <2>1, <2>2, MsrUntouched, MsrMoved
<1>7. CASE DpcRefused(c) \/ DpcUnlink(c)
  <2>1. UNCHANGED <<traceEn, running>> /\ pc[c] = "idle"
    BY <1>7 DEF DpcRefused, DpcUnlink, At, hwVars
  <2>2. \/ UNCHANGED pc \/ pc' = [pc EXCEPT ![c] = "idle"]
        \/ pc' = [pc EXCEPT ![c] = "dataSeq"]
    BY <1>7 DEF DpcRefused, DpcUnlink, Continue, Return, Goto
  <2> QED BY <2>1, <2>2, MsrUntouched, MsrMoved
<1>8. ASSUME NEW routine, NEW from, NEW to, to # "collect",
             from \notin {"checkEnable", "markEnabled"},
             StampSeq(c, routine, from, to) \/ StampId(c, routine, from, to)
      PROVE  MsrInv'
  <2>1. UNCHANGED <<traceEn, running>> /\ pc[c] = from /\ pc' = [pc EXCEPT ![c] = to]
    BY <1>8 DEF StampSeq, StampId, At, Continue, Goto, hwVars
  <2> QED BY <1>8, <2>1, MsrMoved
<1>9. CASE DpcEnqueue(c) \/ DpcResume(c) \/ DisableEnqueue(c)
  <2>1. UNCHANGED <<traceEn, running>> /\ pc[c] \in {"dataEnqueue", "resetPmi", "lastEnqueue"}
    BY <1>9 DEF DpcEnqueue, DpcResume, DisableEnqueue, At, hwVars
  <2>2. \E l \in {"resetPmi", "writeEnable", "idle"} : pc' = [pc EXCEPT ![c] = l]
    BY <1>9 DEF DpcEnqueue, DpcResume, DisableEnqueue, Continue, Return, Goto
  <2> QED BY <2>1, <2>2, MsrMoved
<1>10. CASE DisableClear(c)
  BY <1>0, <1>10 DEF DisableClear, Continue, Goto, MsrInv
<1>11. CASE DisableCollect(c)
  <2>1. /\ UNCHANGED traceEn /\ ~traceEn[c]
        /\ running' = [running EXCEPT ![c] = "INITIALIZED"]
    BY <1>11 DEF DisableCollect, At, MsrInv, hwVars
  <2>2. \E l \in {"lastId", "idle"} : pc' = [pc EXCEPT ![c] = l]
    BY <1>11 DEF DisableCollect, Continue, Return, Goto
  <2> QED BY <1>0, <2>1, <2>2 DEF MsrInv
<1> QED BY <1>1, <1>2, <1>3, <1>4, <1>5, <1>6, <1>7, <1>8, <1>9, <1>10, <1>11
        DEF CoreNext, IptPmiHandler, RunDpc, PtwIpiPerCoreSetup, IptDpc, PtwDpcPerCoreDisable,
            IptEnableTrace

\* The callbacks reach the processors through the DPC queues only.
LEMMA HooksLeaveCores ==
  ASSUME NEW p \in Procs, Hook(p)
  PROVE  UNCHANGED <<traceEn, running, pc, topaMdl, dto>>
<1>1. CASE PtwHookImageLoadCr3(p)
  BY <1>1 DEF PtwHookImageLoadCr3, ImageLoad, IncreaseSequenceId, ResetPacketId, FirstSeq,
              FirstId, FirstEnqueue, RegisterHooks, coreVars, hwVars
<1>2. ASSUME NEW routine, NEW from, NEW to, InsertDpc(p, routine, from, to)
      PROVE  UNCHANGED <<traceEn, running, pc, topaMdl, dto>>
  BY <1>2 DEF InsertDpc, hwVars
<1>3. ASSUME NEW from, NEW to, SpinUntilDone(p, from, to)
      PROVE  UNCHANGED <<traceEn, running, pc, topaMdl, dto>>
  BY <1>3 DEF SpinUntilDone, hwVars
<1>4. CASE PtwHookThreadCreation(p)
  BY <1>2, <1>3, <1>4 DEF PtwHookThreadCreation, ThreadCreate, ClaimThread, InstallPmiHandler,
                          coreVars, hwVars
<1>5. CASE PtwHookProcessExit(p)
  BY <1>2, <1>3, <1>5 DEF PtwHookProcessExit, ExitIgnored, ProcessExit, RemoveThreadHook,
                          UninstallPmiHandler, ClearProcessId, ClearThreadHoodked, coreVars, hwVars
<1> QED BY <1>1, <1>4, <1>5 DEF Hook

\* The status of a processor tells the truth about its trace, up to the two
\* windows of IptEnableTrace.
THEOREM StatusTellsTrace == Spec => []MsrInv
<1>1. Init => MsrInv
  BY DEF Init, CoreInit, MsrInv
<1>2. TypeOK /\ MsrInv /\ [Next]_vars => MsrInv'
  <2> SUFFICES ASSUME TypeOK, MsrInv, [Next]_vars PROVE MsrInv'
    OBVIOUS
  <2>1. ASSUME NEW c \in Cpus, CoreStep(c) PROVE MsrInv'
    BY <2>1, CoreKeepsMsrInv DEF CoreStep
  <2>2. ASSUME NEW p \in Procs, HookStep(p) PROVE MsrInv'
    BY <2>2, HooksLeaveCores, MsrUntouched DEF HookStep
  <2>3. CASE UNCHANGED vars
    BY <2>3, MsrUntouched DEF vars, coreVars
  <2> QED BY <2>1, <2>2, <2>3 DEF Next
<1> QED BY <1>1, <1>2, TypeCorrect, PTL DEF Spec

\* The output MSRs are never rewound while the trace is on: the test of
\* RunningStatus at the top of IptUnlinkFullTopaBuffers is enough.
THEOREM OutputMsrsNeverFault == Spec => []OutputMsrSafe
<1>1. MsrInv => OutputMsrSafe
  BY DEF MsrInv, OutputMsrSafe, At
<1> QED BY <1>1, StatusTellsTrace, PTL

-----------------------------------------------------------------------------
(* The buffers are handed over in order, and none is lost.                 *)

\* No step but an unlink and an enqueue matters: the queue is the same, the
\* hardware has not gone back to an older buffer, and what is in hand was.
LEMMA BuffersKept ==
  ASSUME TypeOK, BufferInv, queue' = queue, topaMdl' = topaMdl,
         \A c \in Cpus : \/ dto'[c].kind # "data"
                         \/ /\ dto[c].kind = "data" /\ dto'[c].cpu = dto[c].cpu
                            /\ dto'[c].mdl = dto[c].mdl
  PROVE  BufferInv'
  BY DEF BufferInv, BuffersInOrder, Packets

\* An unlink: the hardware moves on to a new buffer, the old one is in hand or
\* forgotten.
LEMMA UnlinkKeepsBuffers ==
  ASSUME TypeOK, BufferInv, NEW c \in Cpus, queue' = queue,
         topaMdl' = [topaMdl EXCEPT ![c] = @ + 1],
         pc[c] = "idle",
         dto' = dto \/ dto' = [dto EXCEPT ![c] = Packet("data", c, topaMdl[c])]
  PROVE  BufferInv'
<1>1. topaMdl \in [Cpus -> Nat] /\ queue \in Seq(PacketType) /\ dto[c] = NoDto
  BY Labels DEF TypeOK, CoreTypeOK, RegTypeOK, DtoTypeOK
<1>2. \A i \in 1..Len(queue) : queue[i].mdl \in Nat
  <2>1. \A i \in 1..Len(queue) : queue[i] \in PacketType
    BY <1>1
  <2> QED BY <2>1 DEF PacketType
<1>3. BuffersInOrder'
  BY <1>1, <1>2 DEF BufferInv, BuffersInOrder, Packets
<1>4. ASSUME NEW d \in Cpus, dto'[d].kind = "data"
      PROVE  /\ dto'[d].cpu = d
             /\ dto'[d].mdl < topaMdl'[d]
             /\ \A i \in Packets("data", d)' : queue'[i].mdl < dto'[d].mdl
  <2>1. CASE d = c
    <3>1. dto'[c] = Packet("data", c, topaMdl[c])
      BY <1>1, <1>4, <2>1 DEF NoDto, Packet, TypeOK, CoreTypeOK, DtoTypeOK
    <3>2. dto'[c].cpu = c /\ dto'[c].mdl = topaMdl[c]
      BY <1>1, <3>1, NewPacket
    <3> QED BY <1>1, <2>1, <3>2 DEF BufferInv, BuffersInOrder, Packets
  <2>2. CASE d # c
    <3>1. dto'[d] = dto[d] /\ topaMdl'[d] = topaMdl[d]
      BY <1>1, <2>2 DEF TypeOK, CoreTypeOK, DtoTypeOK
    <3> QED BY <1>4, <3>1 DEF BufferInv, Packets
  <2> QED BY <2>1, <2>2
<1> QED BY <1>3, <1>4 DEF BufferInv

\* An enqueue of the packet in hand.
LEMMA EnqueueKeepsBuffers ==
  ASSUME TypeOK, BufferInv, NEW c \in Cpus, pc[c] \in DataSteps \cup LastSteps,
         topaMdl' = topaMdl, EnqueueDto(c)
  PROVE  BufferInv'
<1>1. /\ topaMdl \in [Cpus -> Nat] /\ queue \in Seq(PacketType) /\ dto[c] \in PacketType
      /\ dto \in [Cpus -> PacketType \cup {NoDto}]
  BY StampedPacket DEF TypeOK, CoreTypeOK, RegTypeOK, DtoTypeOK
<1>2. dto' = [dto EXCEPT ![c] = NoDto] /\ NoDto.kind = "none"
  BY DEF EnqueueDto, NoDto, Packet
<1>3. CASE queue' = queue
  BY <1>1, <1>2, <1>3, BuffersKept
<1>4. CASE queue' = Append(queue, dto[c])
  <2>1. /\ Len(queue') = Len(queue) + 1
        /\ \A i \in 1..Len(queue) : queue'[i] = queue[i]
        /\ queue'[Len(queue) + 1] = dto[c]
        /\ Len(queue) \in Nat
    BY <1>1, <1>4
  <2>2. ASSUME NEW d \in Cpus, NEW i \in Packets("data", d)'
        PROVE  \/ i \in Packets("data", d) /\ queue'[i] = queue[i]
               \/ /\ i = Len(queue) + 1 /\ queue'[i] = dto[c]
                  /\ dto[c].kind = "data" /\ dto[c].cpu = d
    BY <2>1, <2>2 DEF Packets
  <2>3. dto[c].kind = "data" => dto[c].cpu = c
    BY DEF BufferInv
  <2>4. ASSUME NEW d \in Cpus
        PROVE  /\ \A i, j \in Packets("data", d)' : i < j => queue'[i].mdl < queue'[j].mdl
               /\ \A i \in Packets("data", d)' : queue'[i].mdl < topaMdl'[d]
    <3>1. \A i \in Packets("data", d) : i \in 1..Len(queue)
      BY DEF Packets
    <3>2. \A i \in Packets("data", d)' : queue'[i].mdl < topaMdl'[d]
      BY <2>2, <2>3 DEF BufferInv, BuffersInOrder
    <3>3. \A i, j \in Packets("data", d)' : i < j => queue'[i].mdl < queue'[j].mdl
      <4> SUFFICES ASSUME NEW i \in Packets("data", d)', NEW j \in Packets("data", d)', i < j
                   PROVE  queue'[i].mdl < queue'[j].mdl
        OBVIOUS
      <4>1. i \in Packets("data", d) /\ queue'[i] = queue[i]
        BY <2>1, <2>2, <3>1 DEF Packets
      <4>2. CASE j \in Packets("data", d) /\ queue'[j] = queue[j]
        BY <4>1, <4>2 DEF BufferInv, BuffersInOrder
      <4>3. CASE queue'[j] = dto[c] /\ dto[c].kind = "data" /\ dto[c].cpu = d
        BY <2>3, <4>1, <4>3 DEF BufferInv
      <4> QED BY <2>2, <4>2, <4>3
    <3> QED BY <3>2, <3>3
  <2>5. ASSUME NEW d \in Cpus, dto'[d].kind = "data"
        PROVE  /\ dto'[d].cpu = d /\ dto'[d].mdl < topaMdl'[d]
               /\ \A i \in Packets("data", d)' : queue'[i].mdl < dto'[d].mdl
    <3>1. d # c /\ dto'[d] = dto[d]
      BY <1>1, <1>2, <2>5
    <3>2. \A i \in Packets("data", d)' : i \in Packets("data", d) /\ queue'[i] = queue[i]
      BY <2>2, <2>3, <3>1
    <3> QED BY <2>5, <3>1, <3>2 DEF BufferInv
  <2> QED BY <2>4, <2>5 DEF BufferInv, BuffersInOrder
<1> QED BY <1>3, <1>4 DEF EnqueueDto

\* The image-load callback adds FIRST packets only.
LEMMA FirstKeepsBuffers ==
  ASSUME TypeOK, BufferInv, NEW e, e.kind = "first", queue' = Append(queue, e),
         UNCHANGED <<topaMdl, dto>>
  PROVE  BufferInv'
<1>1. queue \in Seq(PacketType)
  BY DEF TypeOK, CoreTypeOK, RegTypeOK
<1>2. \A d : \A i \in Packets("data", d)' : i \in Packets("data", d) /\ queue'[i] = queue[i]
  BY <1>1 DEF Packets
<1>3. BuffersInOrder'
  <2> SUFFICES ASSUME NEW c \in Cpus, NEW i \in Packets("data", c)'
               PROVE  /\ \A j \in Packets("data", c)' : i < j => queue'[i].mdl < queue'[j].mdl
                      /\ queue'[i].mdl < topaMdl[c]
    BY DEF BuffersInOrder
  <2> QED BY <1>2 DEF BufferInv, BuffersInOrder
<1>4. ASSUME NEW c \in Cpus, dto[c].kind = "data"
      PROVE  \A i \in Packets("data", c)' : queue'[i].mdl < dto[c].mdl
  BY <1>2, <1>4 DEF BufferInv
<1> QED BY <1>3, <1>4 DEF BufferInv

\* Steps of a processor that leave queue, buffers and packets alone.
LEMMA QuietSteps ==
  ASSUME NEW c \in Cpus, NEW routine,
         \/ HwTopaInt(c) \/ HwOtherPmi(c) \/ IptPmiHandler(c)
         \/ SetupConfigure(c) \/ IptEnableTrace(c, routine)
         \/ DpcRefused(c) \/ DpcResume(c) \/ DisableClear(c)
  PROVE  UNCHANGED <<queue, topaMdl, dto>>
<1>1. CASE HwTopaInt(c) \/ HwOtherPmi(c) \/ IptPmiHandler(c)
  BY <1>1 DEF HwTopaInt, HwOtherPmi, IptPmiHandler, PmiDismissed, PmiForeign, PmiForeignReset,
              PmiPause
<1>2. CASE SetupConfigure(c) \/ IptEnableTrace(c, routine)
  BY <1>2 DEF SetupConfigure, IptEnableTrace, WriteEnable, CheckEnable, MarkEnabled
<1>3. CASE DpcRefused(c) \/ DpcResume(c) \/ DisableClear(c)
  BY <1>3 DEF DpcRefused, DpcResume, DisableClear
<1> QED BY <1>1, <1>2, <1>3

\* What each way out of IptUnlinkFullTopaBuffers does to the buffers.
LEMMA UnlinkCases ==
  ASSUME NEW c \in Cpus, DpcUnlink(c)
  PROVE  /\ queue' = queue /\ pc[c] = "idle"
         /\ \/ UNCHANGED <<topaMdl, dto>>
            \/ /\ topaMdl' = [topaMdl EXCEPT ![c] = @ + 1]
               /\ \/ dto' = [dto EXCEPT ![c] = Packet("data", c, topaMdl[c])]
                  \/ dto' = dto /\ failures' = failures + 1
  BY DEF DpcUnlink, At, Fail

\* Stamping changes neither the kind, nor the processor, nor the buffer.
LEMMA StampCases ==
  ASSUME TypeOK, NEW c \in Cpus, NEW routine, NEW from \in DataSteps \cup LastSteps, NEW to,
         StampSeq(c, routine, from, to) \/ StampId(c, routine, from, to)
  PROVE  /\ UNCHANGED <<queue, topaMdl, failures>>
         /\ \A d \in Cpus : /\ dto'[d].kind = dto[d].kind
                             /\ dto'[d].cpu = dto[d].cpu
                             /\ dto'[d].mdl = dto[d].mdl
<1>1. pc[c] \in DataSteps \cup LastSteps /\ seqId \in Nat /\ packetId \in Nat /\ DtoTypeOK
  BY DEF StampSeq, StampId, At, TypeOK, CoreTypeOK, RegTypeOK
<1>2. dto \in [Cpus -> PacketType \cup {NoDto}]
  BY <1>1 DEF DtoTypeOK
<1>3. \/ dto' = [dto EXCEPT ![c] = [dto[c] EXCEPT !.seq = seqId]]
      \/ dto' = [dto EXCEPT ![c] = [dto[c] EXCEPT !.id = packetId]]
  BY <1>2 DEF StampSeq, StampId
<1>4. \/ dto'[c] = [dto[c] EXCEPT !.seq = seqId]
      \/ dto'[c] = [dto[c] EXCEPT !.id = packetId]
  BY <1>2, <1>3
<1>5. dto[c] \in PacketType
  <2>1. dto[c].kind \in {"data", "last"}
    BY <1>1 DEF DtoTypeOK
  <2>2. NoDto.kind = "none"
    BY DEF NoDto, Packet
  <2> QED BY <1>2, <2>1, <2>2
<1>6. /\ dto'[c].kind = dto[c].kind
      /\ dto'[c].cpu = dto[c].cpu
      /\ dto'[c].mdl = dto[c].mdl
  BY <1>4, <1>5 DEF PacketType
<1>7. \A d \in Cpus : d # c => dto'[d] = dto[d]
  BY <1>2, <1>3
<1>8. UNCHANGED <<queue, topaMdl, failures>>
  BY DEF StampSeq, StampId
<1> QED BY <1>6, <1>7, <1>8

\* What the end of IptDisableTrace puts into the hands of the routine.
LEMMA CollectCases ==
  ASSUME TypeOK, NEW c \in Cpus, DisableCollect(c)
  PROVE  /\ UNCHANGED <<queue, topaMdl>>
         /\ dto[c] = NoDto
         /\ \A d \in Cpus : dto'[d] = dto[d] \/ (dto'[d].kind = "last" /\ d = c)
<1>1. /\ dto \in [Cpus -> PacketType \cup {NoDto}] /\ topaMdl[c] \in Nat /\ dto[c] = NoDto
  BY Labels DEF TypeOK, CoreTypeOK, RegTypeOK, DtoTypeOK, DisableCollect, At
<1>2. dto' = dto \/ dto' = [dto EXCEPT ![c] = Packet("last", c, topaMdl[c])]
  BY DEF DisableCollect
<1>3. Packet("last", c, topaMdl[c]).kind = "last"
  BY DEF Packet
<1>4. \A d \in Cpus : dto'[d] = dto[d] \/ (dto'[d].kind = "last" /\ d = c)
  BY <1>1, <1>2, <1>3
<1>5. UNCHANGED <<queue, topaMdl>>
  BY DEF DisableCollect
<1> QED BY <1>1, <1>4, <1>5

\* Processors keep BufferInv.
LEMMA CoreKeepsBuffers ==
  ASSUME TypeOK, BufferInv, NEW c \in Cpus, CoreNext(c)
  PROVE  BufferInv'
<1> USE Labels
<1>1. ASSUME UNCHANGED <<queue, topaMdl, dto>> PROVE BufferInv'
  BY <1>1, BuffersKept
<1>2. CASE DpcUnlink(c)
  BY <1>1, <1>2, UnlinkCases, UnlinkKeepsBuffers
<1>3. CASE DpcEnqueue(c) \/ DisableEnqueue(c)
  <2>1. /\ EnqueueDto(c) /\ topaMdl' = topaMdl
        /\ pc[c] \in {"dataEnqueue", "lastEnqueue"}
    BY <1>3 DEF DpcEnqueue, DisableEnqueue, At
  <2> QED BY <2>1, EnqueueKeepsBuffers
<1>4. ASSUME NEW routine, NEW from \in DataSteps \cup LastSteps, NEW to,
             StampSeq(c, routine, from, to) \/ StampId(c, routine, from, to)
      PROVE  BufferInv'
  BY <1>4, StampCases, BuffersKept
<1>5. CASE DisableCollect(c)
  BY <1>5, CollectCases, BuffersKept
<1>6. CASE PtwIpiPerCoreSetup(c)
  BY <1>1, <1>6, QuietSteps DEF PtwIpiPerCoreSetup
<1>7. CASE IptDpc(c)
  BY <1>1, <1>2, <1>3, <1>4, <1>7, QuietSteps DEF IptDpc
<1>8. CASE PtwDpcPerCoreDisable(c)
  BY <1>1, <1>3, <1>4, <1>5, <1>8, QuietSteps DEF PtwDpcPerCoreDisable
<1> QED BY <1>1, <1>6, <1>7, <1>8, QuietSteps DEF CoreNext, RunDpc

\* A callback adds at most a FIRST packet to the queue.
LEMMA HookQueue ==
  ASSUME NEW p \in Procs, Hook(p)
  PROVE  \/ queue' = queue
         \/ \E e : e.kind = "first" /\ queue' = Append(queue, e)
<1>1. CASE FirstEnqueue(p)
  <2> DEFINE e == [kind |-> "first", cpu |-> 0, mdl |-> 0,
                   seq |-> hookDto[p].seq, id |-> hookDto[p].id]
  <2>1. e.kind = "first" /\ (queue' = queue \/ queue' = Append(queue, e))
    BY <1>1 DEF FirstEnqueue
  <2> QED BY <2>1
<1>2. CASE PtwHookImageLoadCr3(p) /\ ~FirstEnqueue(p)
  BY <1>2 DEF PtwHookImageLoadCr3, ImageLoad, IncreaseSequenceId, ResetPacketId, FirstSeq,
              FirstId, RegisterHooks, coreVars
<1>3. CASE PtwHookThreadCreation(p)
  BY <1>3 DEF PtwHookThreadCreation, ThreadCreate, ClaimThread, InstallPmiHandler, InsertDpc,
              SpinUntilDone, coreVars
<1>4. CASE PtwHookProcessExit(p)
  BY <1>4 DEF PtwHookProcessExit, ExitIgnored, ProcessExit, RemoveThreadHook,
              UninstallPmiHandler, ClearProcessId, ClearThreadHoodked, InsertDpc,
              SpinUntilDone, coreVars
<1> QED BY <1>1, <1>2, <1>3, <1>4 DEF Hook

\* The inductive form: what an IptDpc has in hand is newer than what is queued.
THEOREM BufferInHandIsNewest == Spec => []BufferInv
<1>1. Init => BufferInv
  BY DEF Init, CoreInit, BufferInv, BuffersInOrder, Packets, NoDto, Packet
<1>2. TypeOK /\ BufferInv /\ [Next]_vars => BufferInv'
  <2> SUFFICES ASSUME TypeOK, BufferInv, [Next]_vars PROVE BufferInv'
    OBVIOUS
  <2>1. ASSUME NEW c \in Cpus, CoreStep(c) PROVE BufferInv'
    BY <2>1, CoreKeepsBuffers DEF CoreStep
  <2>2. ASSUME NEW p \in Procs, HookStep(p) PROVE BufferInv'
    BY <2>2, HooksLeaveCores, HookQueue, BuffersKept, FirstKeepsBuffers DEF HookStep
  <2>3. CASE UNCHANGED vars
    BY <2>3, BuffersKept DEF vars, coreVars
  <2> QED BY <2>1, <2>2, <2>3 DEF Next
<1> QED BY <1>1, <1>2, TypeCorrect, PTL DEF Spec

\* The DATA buffers of a processor are handed over in the order they were
\* filled, each once, and never the one the hardware writes to.
THEOREM BuffersLeaveInOrder == Spec => []BuffersInOrder
<1>1. BufferInv => BuffersInOrder
  BY DEF BufferInv
<1> QED BY <1>1, BufferInHandIsNewest, PTL

-----------------------------------------------------------------------------
(* No buffer is lost unless an allocation fails.                           *)

\* Failures are counted, never forgotten.
LEMMA CoreFailuresGrow ==
  ASSUME NEW c \in Cpus, CoreNext(c)
  PROVE  failures' = failures \/ failures' = failures + 1
<1>1. CASE HwTopaInt(c) \/ HwOtherPmi(c) \/ IptPmiHandler(c)
  BY <1>1 DEF HwTopaInt, HwOtherPmi, IptPmiHandler, PmiDismissed, PmiForeign, PmiForeignReset,
              PmiPause
<1>2. ASSUME NEW routine, IptEnableTrace(c, routine)
      PROVE  failures' = failures
  BY <1>2 DEF IptEnableTrace, WriteEnable, CheckEnable, MarkEnabled
<1>3. ASSUME NEW routine, NEW from, NEW to,
             StampSeq(c, routine, from, to) \/ StampId(c, routine, from, to)
      PROVE  failures' = failures
  BY <1>3 DEF StampSeq, StampId
<1>4. CASE PtwIpiPerCoreSetup(c)
  BY <1>2, <1>4 DEF PtwIpiPerCoreSetup, SetupConfigure
<1>5. CASE IptDpc(c)
  BY <1>2, <1>3, <1>5 DEF IptDpc, DpcRefused, DpcUnlink, DpcEnqueue, DpcResume, EnqueueDto, Fail
<1>6. CASE PtwDpcPerCoreDisable(c)
  BY <1>3, <1>6 DEF PtwDpcPerCoreDisable, DisableClear, DisableCollect, DisableEnqueue,
                    EnqueueDto, Fail
<1> QED BY <1>1, <1>4, <1>5, <1>6 DEF CoreNext, RunDpc

\* Callbacks take no failure back.
LEMMA HookFailuresGrow ==
  ASSUME NEW p \in Procs, Hook(p)
  PROVE  failures' = failures \/ failures' = failures + 1
<1>1. CASE PtwHookImageLoadCr3(p)
  BY <1>1 DEF PtwHookImageLoadCr3, ImageLoad, IncreaseSequenceId, ResetPacketId, FirstSeq,
              FirstId, FirstEnqueue, RegisterHooks, Fail, coreVars
<1>2. CASE PtwHookThreadCreation(p)
  BY <1>2 DEF PtwHookThreadCreation, ThreadCreate, ClaimThread, InstallPmiHandler, InsertDpc,
              SpinUntilDone, coreVars
<1>3. CASE PtwHookProcessExit(p)
  BY <1>3 DEF PtwHookProcessExit, ExitIgnored, ProcessExit, RemoveThreadHook,
              UninstallPmiHandler, ClearProcessId, ClearThreadHoodked, InsertDpc,
              SpinUntilDone, coreVars
<1> QED BY <1>1, <1>2, <1>3 DEF Hook

\* Buffer m of processor c has been queued as a DATA packet.
QueuedMdl(c, m) == \E i \in Packets("data", c) : queue[i].mdl = m

\* The queue only grows at its end.
LEMMA QueuedStaysQueued ==
  ASSUME queue \in Seq(PacketType), NEW c, NEW m, QueuedMdl(c, m),
         queue' = queue \/ (\E e : queue' = Append(queue, e))
  PROVE  QueuedMdl(c, m)'
<1>1. CASE queue' = queue
  BY <1>1 DEF QueuedMdl, Packets
<1>2. ASSUME NEW e, queue' = Append(queue, e)
      PROVE  QueuedMdl(c, m)'
  <2>1. PICK i \in Packets("data", c) : queue[i].mdl = m
    BY DEF QueuedMdl
  <2>2. i \in 1..Len(queue') /\ queue'[i] = queue[i]
    BY <1>2, <2>1 DEF Packets
  <2> QED BY <2>1, <2>2 DEF QueuedMdl, Packets
<1> QED BY <1>1, <1>2

\* A step that changes neither the buffer being filled nor what is in hand.
LEMMA NothingLost ==
  ASSUME TypeOK, NoBufferLost, failures' = 0 => failures = 0, topaMdl' = topaMdl,
         queue' = queue \/ (\E e : queue' = Append(queue, e)),
         \A c \in Cpus : dto[c].kind = "data" =>
            dto'[c].kind = "data" /\ dto'[c].mdl = dto[c].mdl
  PROVE  NoBufferLost'
<1>1. queue \in Seq(PacketType)
  BY DEF TypeOK, CoreTypeOK, RegTypeOK
<1> SUFFICES ASSUME failures = 0, NEW c \in Cpus, NEW m \in 0..(topaMdl[c] - 1)
             PROVE  QueuedMdl(c, m)' \/ (dto'[c].kind = "data" /\ dto'[c].mdl = m)
  BY DEF NoBufferLost, QueuedMdl
<1>2. QueuedMdl(c, m) \/ (dto[c].kind = "data" /\ dto[c].mdl = m)
  BY DEF NoBufferLost, QueuedMdl
<1> QED BY <1>1, <1>2, QueuedStaysQueued

\* The buffer an IptDpc gives up is the one it takes in hand.
LEMMA UnlinkLosesNone ==
  ASSUME TypeOK, NoBufferLost, NEW c \in Cpus, DpcUnlink(c), failures' = 0
  PROVE  NoBufferLost'
<1>1. /\ topaMdl \in [Cpus -> Nat] /\ failures \in Nat /\ dto[c] = NoDto
      /\ dto \in [Cpus -> PacketType \cup {NoDto}]
  BY UnlinkCases, Labels DEF TypeOK, CoreTypeOK, RegTypeOK, DtoTypeOK
<1>2. failures = 0 /\ queue' = queue
  BY <1>1, UnlinkCases DEF DpcUnlink, Fail
<1>3. CASE UNCHANGED <<topaMdl, dto>>
  BY <1>2, <1>3, NothingLost
<1>4. CASE /\ topaMdl' = [topaMdl EXCEPT ![c] = @ + 1]
           /\ dto' = [dto EXCEPT ![c] = Packet("data", c, topaMdl[c])]
  <2> SUFFICES ASSUME NEW d \in Cpus, NEW m \in 0..(topaMdl'[d] - 1)
               PROVE  QueuedMdl(d, m)' \/ (dto'[d].kind = "data" /\ dto'[d].mdl = m)
    BY DEF NoBufferLost, QueuedMdl
  <2>1. QueuedMdl(d, m) => QueuedMdl(d, m)'
    BY <1>2 DEF QueuedMdl, Packets
  <2>2. CASE d # c
    <3>1. topaMdl'[d] = topaMdl[d] /\ dto'[d] = dto[d]
      BY <1>1, <1>4, <2>2
    <3> QED BY <1>2, <2>1, <3>1 DEF NoBufferLost, QueuedMdl
  <2>3. CASE d = c
    <3>1. topaMdl'[c] = topaMdl[c] + 1 /\ dto'[c] = Packet("data", c, topaMdl[c])
      BY <1>1, <1>4
    <3>2. dto'[c].kind = "data" /\ dto'[c].mdl = topaMdl[c]
      BY <1>1, <3>1, NewPacket
    <3>3. CASE m = topaMdl[c]
      BY <2>3, <3>2, <3>3
    <3>4. CASE m # topaMdl[c]
      <4>1. m \in 0..(topaMdl[c] - 1)
        BY <1>1, <2>3, <3>1, <3>4
      <4>2. dto[c].kind # "data"
        BY <1>1 DEF NoDto, Packet
      <4> QED BY <1>2, <2>1, <2>3, <4>1, <4>2 DEF NoBufferLost, QueuedMdl
    <3> QED BY <3>3, <3>4
  <2> QED BY <2>2, <2>3
<1> QED BY <1>1, <1>2, <1>3, <1>4, UnlinkCases

\* Without a failure the enqueue puts what is in hand into the queue.
LEMMA EnqueueLosesNone ==
  ASSUME TypeOK, BufferInv, NoBufferLost, NEW c \in Cpus, pc[c] \in DataSteps \cup LastSteps,
         topaMdl' = topaMdl, EnqueueDto(c), failures' = 0
  PROVE  NoBufferLost'
<1>1. /\ queue \in Seq(PacketType) /\ failures \in Nat /\ dto[c] \in PacketType
      /\ dto \in [Cpus -> PacketType \cup {NoDto}]
  BY StampedPacket DEF TypeOK, CoreTypeOK, RegTypeOK, DtoTypeOK
<1>2. failures = 0 /\ queue' = Append(queue, dto[c])
  BY <1>1 DEF EnqueueDto, Fail
<1>3. \A d \in Cpus : d # c => dto'[d] = dto[d]
  BY <1>1 DEF EnqueueDto
<1> SUFFICES ASSUME NEW d \in Cpus, NEW m \in 0..(topaMdl[d] - 1)
             PROVE  QueuedMdl(d, m)' \/ (dto'[d].kind = "data" /\ dto'[d].mdl = m)
  BY DEF NoBufferLost, QueuedMdl
<1>4. QueuedMdl(d, m) \/ (dto[d].kind = "data" /\ dto[d].mdl = m)
  BY <1>2 DEF NoBufferLost, QueuedMdl
<1>5. CASE QueuedMdl(d, m)
  BY <1>1, <1>2, <1>5, QueuedStaysQueued
<1>6. CASE dto[d].kind = "data" /\ dto[d].mdl = m /\ d # c
  BY <1>3, <1>6
<1>7. CASE dto[c].kind = "data" /\ dto[c].mdl = m /\ d = c
  <2>1. dto[c].cpu = c
    BY <1>7 DEF BufferInv
  <2>2. Len(queue) + 1 \in 1..Len(queue') /\ queue'[Len(queue) + 1] = dto[c]
    BY <1>1, <1>2
  <2> QED BY <1>7, <2>1, <2>2 DEF QueuedMdl, Packets
<1> QED BY <1>4, <1>5, <1>6, <1>7

\* Processors lose no buffer while no allocation fails.
LEMMA CoreLosesNone ==
  ASSUME TypeOK, BufferInv, NoBufferLost, NEW c \in Cpus, CoreNext(c), failures' = 0
  PROVE  NoBufferLost'
<1> USE Labels
<1>0. failures \in Nat /\ failures = 0
  BY CoreFailuresGrow DEF TypeOK, CoreTypeOK, RegTypeOK
<1>1. ASSUME UNCHANGED <<queue, topaMdl, dto>> PROVE NoBufferLost'
  BY <1>0, <1>1, NothingLost
<1>2. CASE DpcUnlink(c)
  BY <1>2, UnlinkLosesNone
<1>3. CASE DpcEnqueue(c) \/ DisableEnqueue(c)
  <2>1. /\ EnqueueDto(c) /\ topaMdl' = topaMdl
        /\ pc[c] \in {"dataEnqueue", "lastEnqueue"}
    BY <1>3 DEF DpcEnqueue, DisableEnqueue, At
  <2> QED BY <2>1, EnqueueLosesNone
<1>4. ASSUME NEW routine, NEW from \in DataSteps \cup LastSteps, NEW to,
             StampSeq(c, routine, from, to) \/ StampId(c, routine, from, to)
      PROVE  NoBufferLost'
  BY <1>0, <1>4, StampCases, NothingLost
<1>5. CASE DisableCollect(c)
  <2>1. NoDto.kind # "data"
    BY DEF NoDto, Packet
  <2> QED BY <1>0, <1>5, <2>1, CollectCases, NothingLost
<1>6. CASE PtwIpiPerCoreSetup(c)
  BY <1>1, <1>6, QuietSteps DEF PtwIpiPerCoreSetup
<1>7. CASE IptDpc(c)
  BY <1>1, <1>2, <1>3, <1>4, <1>7, QuietSteps DEF IptDpc
<1>8. CASE PtwDpcPerCoreDisable(c)
  BY <1>1, <1>3, <1>4, <1>5, <1>8, QuietSteps DEF PtwDpcPerCoreDisable
<1> QED BY <1>1, <1>6, <1>7, <1>8, QuietSteps DEF CoreNext, RunDpc

\* As long as no allocation fails, every buffer a processor gives up is queued
\* or in the hands of the IptDpc that unlinked it, whatever PMIs, sessions and
\* disables it meets.
THEOREM NoBufferIsLost == Spec => []NoBufferLost
<1>1. Init => NoBufferLost
  BY DEF Init, CoreInit, NoBufferLost
<1>2. TypeOK /\ BufferInv /\ NoBufferLost /\ [Next]_vars => NoBufferLost'
  <2> SUFFICES ASSUME TypeOK, BufferInv, NoBufferLost, [Next]_vars PROVE NoBufferLost'
    OBVIOUS
  <2>1. ASSUME NEW c \in Cpus, CoreStep(c) PROVE NoBufferLost'
    <3>1. CASE failures' = 0
      BY <2>1, <3>1, CoreLosesNone DEF CoreStep
    <3>2. CASE failures' # 0
      BY <3>2 DEF NoBufferLost
    <3> QED BY <3>1, <3>2
  <2>2. ASSUME NEW p \in Procs, HookStep(p) PROVE NoBufferLost'
    <3>1. failures \in Nat
      BY DEF TypeOK, CoreTypeOK, RegTypeOK
    <3>2. failures' = 0 => failures = 0
      BY <2>2, <3>1, HookFailuresGrow DEF HookStep
    <3>3. queue' = queue \/ (\E e : queue' = Append(queue, e))
      BY <2>2, HookQueue DEF HookStep
    <3>4. UNCHANGED <<topaMdl, dto>>
      BY <2>2, HooksLeaveCores DEF HookStep
    <3> QED BY <3>2, <3>3, <3>4, NothingLost
  <2>3. CASE UNCHANGED vars
    BY <2>3, NothingLost DEF vars, coreVars
  <2> QED BY <2>1, <2>2, <2>3 DEF Next
<1> QED BY <1>1, <1>2, TypeCorrect, BufferInHandIsNewest, PTL DEF Spec
=============================================================================
