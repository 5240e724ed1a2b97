------------------------ MODULE KafkaForwarderProofs ------------------------
(***************************************************************************)
(* Proofs about KafkaForwarder for every number of producers, packets and  *)
(* failures and every queue length: the type invariant, that no packet is  *)
(* produced twice and a lone worker keeps their order, that a full queue   *)
(* loses none, and that a producer is destroyed under its users only when  *)
(* an exit came before a handle was stored or a failing CreateThread       *)
(* erased the handle of another worker's thread.                           *)
(***************************************************************************)
EXTENDS KafkaForwarder, FiniteSetTheorems, TLAPS

-----------------------------------------------------------------------------
(* The inductive invariant.                                                *)

\* Steps at which a worker holds a packet that no producer has accepted, and
\* the ones at which it has read KafkaHandler.
Unsent == {"build", "start", "create", "store", "produce", "full"}

Sending == {"start", "create", "store", "produce", "full"}

\* A worker belongs to a setup that was made, works with a producer that was
\* made, and is started once.
SetupInv ==
  /\ mainPc = "driver" => setups > 0 /\ workerPc[setups] = "none"
  /\ \A w \in Producers : workerPc[w] # "none" => w <= setups
  /\ \A w \in Producers : workerPc[w] \in Sending => target[w] \in 1..setups

Erased == failures > 0 /\ TwoWorkers

\* A handle that was stored stays unless a second worker erased it, and a
\* worker is about to store one after another only when there are two.
StoreInv ==
  /\ pollHandle => stored
  /\ stored => pollHandle \/ Erased
  /\ \A w \in Producers :
       stored /\ workerPc[w] \in {"start", "create", "store"} => \E v \in Started : v # w

\* The producer is destroyed only behind the wait that found no handle.
ExitInv == mainPc = "flush" \/ destroyed # {} => exitEarly \/ Erased

Lone == Cardinality(Started) = 1

Index == 1..Len(produced)

\* A packet is with one worker at most and is new to the producers until it is
\* sent; a lone worker holds none older than the last one produced.
PacketInv ==
  /\ \A w \in Producers : hand[w] <= taken
  /\ \A v, w \in Producers : hand[v] = hand[w] => v = w \/ hand[v] = 0
  /\ \A i \in Index : produced[i] <= taken
  /\ \A w \in Producers : workerPc[w] \in Unsent =>
       \A i \in Index : produced[i] # hand[w] /\ (Lone => produced[i] < hand[w])
  /\ Started = {} => produced = <<>>
  /\ ProducedOnceInOrder

Sent(k) == \E i \in Index : produced[i] = k

\* What a worker frees has been sent, unless something failed.
LossInv ==
  /\ LossNeedsFailure
  /\ failures = 0 /\ destroyed = {} =>
       \A w \in Producers : workerPc[w] = "free" => Sent(hand[w])

ForwardInv == TypeOK /\ SetupInv /\ StoreInv /\ ExitInv /\ PacketInv /\ LossInv

-----------------------------------------------------------------------------
(* Types.  TypeOK in three parts.                                          *)

WorkerType ==
  /\ workerPc \in [Producers -> WorkerPcs]
  /\ hand \in [Producers -> 0..MaxPackets]
  /\ target \in [Producers -> 0..MaxSetups]
  /\ \A w \in Producers : (hand[w] = 0) <=> (workerPc[w] \in {"none", "get", "ended"})

KafkaType ==
  /\ outq \in [Producers -> SUBSET Packets]
  /\ acked \subseteq UNION {outq[p] : p \in Producers}
  /\ produced \in Seq(Packets)

MainType ==
  /\ mainPc \in MainPcs
  /\ setups \in 0..MaxSetups
  /\ taken \in 0..MaxPackets
  /\ dropped \subseteq Packets
  /\ polled \subseteq Producers /\ destroyed \subseteq Producers
  /\ pollHandle \in BOOLEAN /\ stored \in BOOLEAN
  /\ exitEarly \in BOOLEAN /\ ended \in BOOLEAN
  /\ failures \in 0..MaxFailures

\* TypeOK in three parts.
LEMMA TypeParts == TypeOK <=> WorkerType /\ KafkaType /\ MainType
  BY DEF TypeOK, WorkerType, KafkaType, MainType

\* The same for the next state.
LEMMA TypePartsNext == WorkerType' /\ KafkaType' /\ MainType' => TypeOK'
  BY TypeParts, PTL

\* The bounds are naturals.
LEMMA Bounds == MaxSetups \in Nat /\ MaxPackets \in Nat /\ MaxFailures \in Nat
  BY KafkaForwarderAssumption

\* A worker moves to another step and keeps its packet.
LEMMA MoveKeepsWorkers ==
  ASSUME WorkerType, NEW w \in Producers, NEW pc \in WorkerPcs, Go(w, pc), hand' = hand,
         target' = target \/ \E n \in 0..MaxSetups : target' = [target EXCEPT ![w] = n],
         workerPc[w] \in {"none", "get", "ended"} <=> pc \in {"none", "get", "ended"}
  PROVE  WorkerType'
  BY DEF WorkerType, Go

\* A worker lets its packet go.
LEMMA ReleaseKeepsWorkers ==
  ASSUME WorkerType, NEW w \in Producers, NEW pc \in {"get", "ended"}, Go(w, pc),
         hand' = [hand EXCEPT ![w] = 0], target' = target
  PROVE  WorkerType'
<1>1. /\ \A v \in Producers : v # w => workerPc'[v] = workerPc[v] /\ hand'[v] = hand[v]
      /\ workerPc'[w] = pc /\ hand'[w] = 0
  BY DEF WorkerType, Go
<1>2. workerPc' \in [Producers -> WorkerPcs] /\ hand' \in [Producers -> 0..MaxPackets]
  BY Bounds DEF WorkerType, Go, WorkerPcs
<1> QED BY <1>1, <1>2 DEF WorkerType

\* A message in a queue is some producer's.
LEMMA QueuedMessage ==
  ASSUME KafkaType, NEW k \in acked
  PROVE  \E p \in Producers : k \in outq[p]
  BY DEF KafkaType

\* rd_kafka_poll reports messages of one producer.
LEMMA PollKeepsKafka ==
  ASSUME KafkaType, NEW p \in Producers, RdKafkaPoll(p)
  PROVE  KafkaType'
<1>1. outq' = [outq EXCEPT ![p] = outq[p] \ acked] /\ acked' = acked \ outq[p]
  BY DEF RdKafkaPoll
<1>2. ASSUME NEW k \in acked' PROVE \E q \in Producers : k \in outq'[q]
  <2>1. PICK q \in Producers : k \in outq[q]
    BY <1>1, QueuedMessage
  <2>2. q # p
    BY <1>1, <2>1
  <2> QED BY <1>1, <2>1, <2>2 DEF KafkaType
<1>3. outq' \in [Producers -> SUBSET Packets]
  BY <1>1 DEF KafkaType
<1> QED BY <1>2, <1>3 DEF KafkaType, RdKafkaPoll

\* rd_kafka_producev accepts the packet of a worker.
LEMMA AcceptKeepsKafka ==
  ASSUME KafkaType, NEW w \in Producers, target[w] \in Producers, hand[w] \in Packets, Accept(w)
  PROVE  KafkaType' /\ produced' = Append(produced, hand[w])
<1>1. /\ outq' = [outq EXCEPT ![target[w]] = outq[target[w]] \cup {hand[w]}]
      /\ produced' = Append(produced, hand[w]) /\ acked' = acked
  BY DEF Accept
<1>2. outq' \in [Producers -> SUBSET Packets]
  BY <1>1 DEF KafkaType
<1>3. \A q \in Producers : outq[q] \subseteq outq'[q]
  BY <1>1 DEF KafkaType
<1>4. acked' \subseteq UNION {outq'[q] : q \in Producers}
  BY <1>1, <1>3, QueuedMessage
<1>5. produced' \in Seq(Packets)
  BY <1>1 DEF KafkaType
<1> QED BY <1>1, <1>2, <1>4, <1>5 DEF KafkaType

\* The producer is destroyed with the messages it holds.
LEMMA DestroyKeepsKafka ==
  ASSUME KafkaType, NEW p \in Producers, acked' = acked \ outq[p],
         outq' = [outq EXCEPT ![p] = {}], UNCHANGED produced
  PROVE  KafkaType'
<1>1. ASSUME NEW k \in acked' PROVE \E q \in Producers : k \in outq'[q]
  <2>1. PICK q \in Producers : k \in outq[q]
    BY QueuedMessage
  <2> QED BY <2>1 DEF KafkaType
<1>2. outq' \in [Producers -> SUBSET Packets]
  BY DEF KafkaType
<1> QED BY <1>1, <1>2 DEF KafkaType

\* A failure is counted.
LEMMA FailsTyped ==
  ASSUME MainType, Fails
  PROVE  failures' \in 0..MaxFailures /\ failures' > 0
  BY Bounds DEF MainType, Fails

\* The command loop.
LEMMA CommandsKeepType ==
  ASSUME TypeOK, SetupInv, InputCommand
  PROVE  TypeOK' /\ SetupInv'
<1> USE Bounds
<1>0. WorkerType /\ KafkaType /\ MainType
  BY TypeParts
<1>1. UNCHANGED workerVars => WorkerType' 
  BY <1>0 DEF WorkerType, workerVars
<1>2. UNCHANGED kafkaVars => KafkaType'
  BY <1>0 DEF KafkaType, kafkaVars
<1>3. CASE KafkaInit
  <2>1. MainType'
    BY <1>0, <1>3 DEF KafkaInit, MainType, MainPcs, pollVars
  <2>2. SetupInv'
    <3>1. setups \in Nat /\ setups' = setups + 1 /\ setups' \in Producers
      BY <1>0, <1>3 DEF KafkaInit, MainType, Producers
    <3>2. workerPc' = workerPc /\ target' = target
      BY <1>3 DEF KafkaInit, workerVars
    <3>3. workerPc[setups'] = "none"
      BY <3>1 DEF SetupInv, Producers
    <3>4. \A w \in Producers : w <= setups => w <= setups'
      BY <3>1 DEF Producers
    <3>5. \A n \in 1..setups : n \in 1..setups'
      BY <3>1
    <3> QED BY <3>1, <3>2, <3>3, <3>4, <3>5 DEF SetupInv
  <2> QED BY <1>1, <1>2, <1>3, <2>1, <2>2, TypePartsNext DEF KafkaInit
<1>4. CASE CreateWorker
  <2>1. setups \in Producers /\ workerPc[setups] = "none"
    BY <1>0, <1>4 DEF CreateWorker, SetupInv, MainType, Producers
  <2>2. WorkerType'
    BY <1>0, <1>4, <2>1 DEF CreateWorker, Go, WorkerType, WorkerPcs
  <2>3. MainType'
    BY <1>0, <1>4 DEF CreateWorker, MainType, MainPcs, pollVars
  <2>4. SetupInv'
    BY <1>0, <1>4, <2>1 DEF CreateWorker, Go, SetupInv, WorkerType, Sending, Producers
  <2> QED BY <1>2, <1>4, <2>2, <2>3, <2>4, TypePartsNext DEF CreateWorker
<1>5. CASE SetupFails
  <2>1. MainType'
    BY <1>0, <1>5, FailsTyped DEF SetupFails, MainType, MainPcs, pollVars
  <2>2. SetupInv'
    BY <1>5 DEF SetupFails, SetupInv, workerVars
  <2> QED BY <1>1, <1>2, <1>5, <2>1, <2>2, TypePartsNext DEF SetupFails
<1>6. CASE CommandExit
  <2>1. MainType' /\ SetupInv'
    BY <1>0, <1>6 DEF CommandExit, MainType, MainPcs, pollVars, SetupInv, workerVars
  <2> QED BY <1>1, <1>2, <1>6, <2>1, TypePartsNext DEF CommandExit
<1>7. CASE StopKafkaPolling
  <2>1. exitEarly' \in BOOLEAN /\ mainPc' \in {"waiting", "flush"}
    BY <1>7 DEF StopKafkaPolling
  <2>2. UNCHANGED <<setups, destroyed, pollHandle, stored, polled, taken, dropped, ended, failures>>
    BY <1>7 DEF StopKafkaPolling, pollVars
  <2>3. MainType'
    BY <1>0, <2>1, <2>2 DEF MainType, MainPcs
  <2>4. SetupInv'
    BY <1>7, <2>1 DEF StopKafkaPolling, SetupInv, workerVars
  <2> QED BY <1>1, <1>2, <1>7, <2>3, <2>4, TypePartsNext DEF StopKafkaPolling
<1>8. CASE FlushPoll
  <2>1. setups \in Producers
    BY <1>0, <1>8 DEF FlushPoll, MainType, Producers
  <2>2. KafkaType'
    BY <1>0, <1>8, <2>1, PollKeepsKafka DEF FlushPoll
  <2>3. MainType' /\ SetupInv'
    BY <1>0, <1>8 DEF FlushPoll, MainType, mainVars, pollVars, SetupInv, workerVars
  <2> QED BY <1>1, <1>8, <2>2, <2>3, TypePartsNext DEF FlushPoll
<1>9. CASE FlushFaults
  <2>1. MainType' /\ SetupInv'
    BY <1>0, <1>9 DEF FlushFaults, AccessViolation, MainType, mainVars, pollVars, SetupInv,
                      workerVars
  <2> QED BY <1>1, <1>2, <1>9, <2>1, TypePartsNext DEF FlushFaults, AccessViolation
<1>10. CASE RdKafkaDestroy
  <2>1. setups \in Producers
    BY <1>0, <1>10 DEF RdKafkaDestroy, MainType, Producers
  <2>2. KafkaType'
    BY <1>0, <1>10, <2>1, DestroyKeepsKafka DEF RdKafkaDestroy
  <2>3. MainType' /\ SetupInv'
    BY <1>0, <1>10, <2>1 DEF RdKafkaDestroy, MainType, MainPcs, pollVars, SetupInv, workerVars
  <2> QED BY <1>1, <1>10, <2>2, <2>3, TypePartsNext DEF RdKafkaDestroy
<1> QED BY <1>3, <1>4, <1>5, <1>6, <1>7, <1>8, <1>9, <1>10
        DEF InputCommand, CommandSetupPt, KafkaUninit

\* The worker threads.
LEMMA WorkersKeepType ==
  ASSUME TypeOK, SetupInv, NEW w \in Producers, ThreadProc(w)
  PROVE  TypeOK' /\ SetupInv'
<1> USE Bounds
<1>0. WorkerType /\ KafkaType /\ MainType
  BY TypeParts
<1>1. UNCHANGED kafkaVars => KafkaType'
  BY <1>0 DEF KafkaType, kafkaVars
<1>2. ASSUME UNCHANGED <<mainVars, pollVars, taken, dropped, ended, failures>> PROVE MainType'
  BY <1>0, <1>2 DEF MainType, mainVars, pollVars
<1>3. ASSUME NEW pc, pc # "none", Go(w, pc), workerPc[w] # "none", UNCHANGED <<mainPc, setups>>,
             target' = target \/ target' = [target EXCEPT ![w] = setups],
             pc \in Sending => workerPc[w] \in Sending \/ target' = [target EXCEPT ![w] = setups]
      PROVE  SetupInv'
  <2>1. \A v \in Producers : /\ v # w => workerPc'[v] = workerPc[v] /\ target'[v] = target[v]
                             /\ workerPc'[w] = pc
    BY <1>0, <1>3 DEF Go, WorkerType
  <2>2. mainPc' = "driver" => setups' > 0 /\ workerPc'[setups'] = "none"
    BY <1>0, <1>3, <2>1 DEF SetupInv, MainType, Producers
  <2>3. \A v \in Producers : workerPc'[v] # "none" => v <= setups'
    BY <1>3, <2>1 DEF SetupInv
  <2>4. \A v \in Producers : workerPc'[v] \in Sending => target'[v] \in 1..setups'
    <3>1. setups \in 1..setups
      BY <1>0, <1>3 DEF SetupInv, MainType, Producers
    <3> QED BY <1>0, <1>3, <2>1, <3>1 DEF SetupInv, WorkerType
  <2> QED BY <2>2, <2>3, <2>4 DEF SetupInv
<1>4. workerPc[w] \in Sending => target[w] \in Producers
  BY <1>0 DEF SetupInv, MainType, Producers
<1>5. workerPc[w] \in Unsent \cup {"free"} => hand[w] \in Packets
  BY <1>0 DEF WorkerType, Unsent, Packets
<1>6. CASE CommandGetBuffer(w)
  <2>1. workerPc[w] = "get" /\ taken' = taken + 1 /\ taken' \in 1..MaxPackets
    BY <1>0, <1>6 DEF CommandGetBuffer, MainType
  <2>2. WorkerType'
    <3>1. /\ hand' = [hand EXCEPT ![w] = taken'] /\ workerPc' = [workerPc EXCEPT ![w] = "build"]
          /\ target' = target
      BY <1>6 DEF CommandGetBuffer, Go
    <3> QED BY <1>0, <2>1, <3>1 DEF WorkerType, WorkerPcs
  <2>3. MainType'
    BY <1>0, <1>6, <2>1 DEF CommandGetBuffer, MainType, mainVars, pollVars
  <2>4. SetupInv'
    BY <1>3, <1>6, <2>1 DEF CommandGetBuffer, mainVars, Sending
  <2> QED BY <1>1, <1>6, <2>2, <2>3, <2>4, TypePartsNext DEF CommandGetBuffer
<1>7. CASE AllocationFails(w)
  <2>1. WorkerType'
    BY <1>0, <1>7, ReleaseKeepsWorkers DEF AllocationFails
  <2>2. MainType'
    BY <1>0, <1>5, <1>7, FailsTyped DEF AllocationFails, MainType, mainVars, pollVars, Unsent
  <2>3. SetupInv'
    BY <1>3, <1>7 DEF AllocationFails, mainVars, Sending
  <2> QED BY <1>1, <1>7, <2>1, <2>2, <2>3, TypePartsNext DEF AllocationFails
<1>8. CASE KafkaSendMessage(w)
  <2>1. WorkerType'
    BY <1>0, <1>8, MoveKeepsWorkers DEF KafkaSendMessage, MainType, WorkerPcs
  <2>2. SetupInv'
    BY <1>3, <1>8 DEF KafkaSendMessage, mainVars
  <2> QED BY <1>1, <1>2, <1>8, <2>1, <2>2, TypePartsNext DEF KafkaSendMessage
<1>9. CASE StartKafkaPolling(w)
  <2>1. WorkerType'
    BY <1>0, <1>9, MoveKeepsWorkers DEF StartKafkaPolling, WorkerPcs
  <2>2. SetupInv'
    BY <1>3, <1>9 DEF StartKafkaPolling, mainVars, Sending
  <2> QED BY <1>1, <1>2, <1>9, <2>1, <2>2, TypePartsNext DEF StartKafkaPolling
<1>10. CASE CreatePollingThread(w)
  <2>1. WorkerType'
    BY <1>0, <1>10, MoveKeepsWorkers DEF CreatePollingThread, WorkerPcs
  <2>2. SetupInv'
    BY <1>3, <1>10 DEF CreatePollingThread, mainVars, Sending
  <2>3. MainType'
    BY <1>0, <1>4, <1>10 DEF CreatePollingThread, MainType, mainVars, Sending
  <2> QED BY <1>1, <1>10, <2>1, <2>2, <2>3, TypePartsNext DEF CreatePollingThread
<1>11. CASE CreatePollingFails(w)
  <2>1. WorkerType'
    BY <1>0, <1>11, MoveKeepsWorkers DEF CreatePollingFails, WorkerPcs
  <2>2. SetupInv'
    BY <1>3, <1>11 DEF CreatePollingFails, mainVars, Sending
  <2>3. MainType'
    BY <1>0, <1>11, FailsTyped DEF CreatePollingFails, MainType, mainVars
  <2> QED BY <1>1, <1>11, <2>1, <2>2, <2>3, TypePartsNext DEF CreatePollingFails
<1>18. CASE StoreHandle(w)
  <2>1. WorkerType'
    BY <1>0, <1>18, MoveKeepsWorkers DEF StoreHandle, WorkerPcs
  <2>2. SetupInv'
    BY <1>3, <1>18 DEF StoreHandle, mainVars, Sending
  <2>3. MainType'
    BY <1>0, <1>18 DEF StoreHandle, MainType, mainVars
  <2> QED BY <1>1, <1>18, <2>1, <2>2, <2>3, TypePartsNext DEF StoreHandle
<1>12. CASE Produce(w)
  <2>1. WorkerType'
    BY <1>0, <1>12, MoveKeepsWorkers DEF Produce, WorkerPcs
  <2>2. SetupInv'
    BY <1>3, <1>12 DEF Produce, mainVars, Sending
  <2>3. KafkaType'
    BY <1>0, <1>4, <1>5, <1>12, AcceptKeepsKafka DEF Produce, Sending, Unsent
  <2> QED BY <1>2, <1>12, <2>1, <2>2, <2>3, TypePartsNext DEF Produce
<1>13. CASE QueueFull(w)
  <2>1. WorkerType'
    BY <1>0, <1>13, MoveKeepsWorkers DEF QueueFull, WorkerPcs
  <2>2. SetupInv'
    BY <1>3, <1>13 DEF QueueFull, mainVars, Sending
  <2> QED BY <1>1, <1>2, <1>13, <2>1, <2>2, TypePartsNext DEF QueueFull
<1>14. CASE ProduceFails(w)
  <2>1. WorkerType'
    BY <1>0, <1>14, MoveKeepsWorkers DEF ProduceFails, WorkerPcs
  <2>2. SetupInv'
    BY <1>3, <1>14 DEF ProduceFails, mainVars, Sending
  <2>3. failures' \in 0..MaxFailures
    BY <1>0, <1>14, FailsTyped DEF ProduceFails, MainType
  <2>4. MainType'
    BY <1>0, <1>5, <1>14, <2>3 DEF ProduceFails, MainType, mainVars, pollVars, Unsent
  <2> QED BY <1>1, <1>14, <2>1, <2>2, <2>4, TypePartsNext DEF ProduceFails
<1>15. CASE ProduceFaults(w)
  <2>1. WorkerType' /\ MainType' /\ SetupInv'
    BY <1>0, <1>15 DEF ProduceFaults, AccessViolation, WorkerType, MainType, SetupInv,
                       workerVars, mainVars, pollVars
  <2> QED BY <1>1, <1>15, <2>1, TypePartsNext DEF ProduceFaults, AccessViolation
<1>16. CASE RetryPoll(w)
  <2>1. WorkerType'
    BY <1>0, <1>16, MoveKeepsWorkers DEF RetryPoll, WorkerPcs
  <2>2. SetupInv'
    BY <1>3, <1>16 DEF RetryPoll, mainVars, Sending
  <2>3. KafkaType'
    BY <1>0, <1>4, <1>16, PollKeepsKafka DEF RetryPoll, Sending
  <2> QED BY <1>2, <1>16, <2>1, <2>2, <2>3, TypePartsNext DEF RetryPoll
<1>17. CASE CommandFreeBuffer(w)
  <2>1. WorkerType'
    BY <1>0, <1>17, ReleaseKeepsWorkers DEF CommandFreeBuffer
  <2>2. SetupInv'
    BY <1>3, <1>17 DEF CommandFreeBuffer, mainVars, Sending
  <2> QED BY <1>1, <1>2, <1>17, <2>1, <2>2, TypePartsNext DEF CommandFreeBuffer
<1> QED BY <1>6, <1>7, <1>8, <1>9, <1>10, <1>11, <1>12, <1>13, <1>14, <1>15, <1>16, <1>17,
        <1>18 DEF ThreadProc

\* The polling threads and the broker.
LEMMA PollersKeepType ==
  ASSUME TypeOK, SetupInv, NEW p \in Producers,
         PollKafkaThread(p) \/ PollFaults(p) \/ Acknowledge(p)
  PROVE  TypeOK' /\ SetupInv'
<1>0. WorkerType /\ KafkaType /\ MainType
  BY TypeParts
<1>1. WorkerType' /\ SetupInv'
  BY <1>0 DEF PollKafkaThread, PollFaults, Acknowledge, AccessViolation, WorkerType, SetupInv,
              workerVars, mainVars
<1>2. MainType'
  BY <1>0 DEF PollKafkaThread, PollFaults, Acknowledge, AccessViolation, MainType, mainVars,
              pollVars
<1>3. KafkaType'
  <2>1. CASE PollKafkaThread(p)
    BY <1>0, <2>1, PollKeepsKafka DEF PollKafkaThread
  <2>2. CASE PollFaults(p)
    BY <1>0, <2>2 DEF PollFaults, AccessViolation, KafkaType, kafkaVars
  <2>3. CASE Acknowledge(p)
    <3>1. PICK k \in outq[p] : acked' = acked \cup {k} /\ UNCHANGED <<outq, produced>>
      BY <2>3 DEF Acknowledge
    <3> QED BY <1>0, <3>1 DEF KafkaType
  <2> QED BY <2>1, <2>2, <2>3
<1> QED BY <1>1, <1>2, <1>3, TypePartsNext

-----------------------------------------------------------------------------
(* What the steps leave alone.                                             *)

\* The worker threads, the polling threads and the brokers leave the command
\* loop alone.
LEMMA ThreadsKeepMain ==
  ASSUME NEW w, ThreadProc(w) \/ PollKafkaThread(w) \/ PollFaults(w) \/ Acknowledge(w)
  PROVE  UNCHANGED mainVars
  BY DEF ThreadProc, CommandGetBuffer, AllocationFails, KafkaSendMessage, StartKafkaPolling,
         CreatePollingThread, StoreHandle, CreatePollingFails, Produce, QueueFull, ProduceFails,
         ProduceFaults, RetryPoll, CommandFreeBuffer, PollKafkaThread, PollFaults,
         Acknowledge, AccessViolation

\* Apart from a new worker, the command loop and the polling threads leave
\* the workers and what was produced alone, and no failure is forgotten.
LEMMA ForwardingKept ==
  ASSUME TypeOK, NEW p,
         \/ KafkaInit \/ SetupFails \/ CommandExit \/ KafkaUninit
         \/ PollKafkaThread(p) \/ PollFaults(p) \/ Acknowledge(p) \/ ProduceFaults(p)
  PROVE  /\ UNCHANGED <<workerVars, taken, produced>>
         /\ destroyed \subseteq destroyed'
         /\ failures' = 0 => failures = 0
<1>1. failures \in Nat
  BY Bounds DEF TypeOK
<1> QED BY <1>1 DEF KafkaInit, SetupFails, CommandExit, KafkaUninit, StopKafkaPolling,
         FlushPoll, FlushFaults, RdKafkaDestroy, PollKafkaThread, PollFaults, Acknowledge,
         ProduceFaults, AccessViolation, RdKafkaPoll, Fails, mainVars, kafkaVars, workerVars

\* No started worker becomes unstarted.
LEMMA StartedGrows ==
  ASSUME TypeOK, SetupInv, Next
  PROVE  Started \subseteq Started'
<1>1. CASE InputCommand
  <2>1. CASE CreateWorker
    BY <2>1 DEF CreateWorker, Go, Started, TypeOK
  <2>2. CASE KafkaInit \/ SetupFails \/ CommandExit \/ KafkaUninit
    BY <2>2, ForwardingKept DEF Started, workerVars
  <2> QED BY <1>1, <2>1, <2>2 DEF InputCommand, CommandSetupPt
<1>2. ASSUME NEW w \in Producers, ThreadProc(w) PROVE Started \subseteq Started'
  <2>1. CASE ProduceFaults(w)
    BY <2>1, ForwardingKept DEF Started, workerVars
  <2>2. CASE ~ProduceFaults(w)
    <3>1. \E pc \in WorkerPcs \ {"none"} : Go(w, pc)
      BY <1>2, <2>2 DEF ThreadProc, CommandGetBuffer, AllocationFails, KafkaSendMessage,
         StartKafkaPolling, CreatePollingThread, StoreHandle, CreatePollingFails, Produce,
         QueueFull, ProduceFails, RetryPoll, CommandFreeBuffer, WorkerPcs
    <3> QED BY <3>1 DEF Go, Started, TypeOK
  <2> QED BY <2>1, <2>2
<1>3. ASSUME NEW p \in Producers, PollKafkaThread(p) \/ PollFaults(p) \/ Acknowledge(p)
      PROVE  Started \subseteq Started'
  BY <1>3, ForwardingKept DEF Started, workerVars
<1> QED BY <1>1, <1>2, <1>3 DEF Next

\* Failures are counted up.
LEMMA FailuresGrow ==
  ASSUME TypeOK, Next
  PROVE  failures > 0 => failures' > 0
<1>1. failures \in Nat
  BY Bounds DEF TypeOK
<1>2. CASE InputCommand
  BY <1>1, <1>2 DEF InputCommand, CommandSetupPt, KafkaInit, CreateWorker, SetupFails,
     CommandExit, KafkaUninit, StopKafkaPolling, FlushPoll, FlushFaults, RdKafkaDestroy,
     AccessViolation, Fails
<1>3. ASSUME NEW w \in Producers, ThreadProc(w) PROVE failures > 0 => failures' > 0
  BY <1>1, <1>3 DEF ThreadProc, CommandGetBuffer, AllocationFails, KafkaSendMessage,
     StartKafkaPolling, CreatePollingThread, StoreHandle, CreatePollingFails, Produce,
     QueueFull, ProduceFails, ProduceFaults, RetryPoll, CommandFreeBuffer, AccessViolation, Fails
<1>4. ASSUME NEW p \in Producers, PollKafkaThread(p) \/ PollFaults(p) \/ Acknowledge(p)
      PROVE  failures > 0 => failures' > 0
  BY <1>4 DEF PollKafkaThread, PollFaults, Acknowledge, AccessViolation
<1> QED BY <1>2, <1>3, <1>4 DEF Next

\* An erased handle stays a cause.
LEMMA ErasedStays ==
  ASSUME TypeOK, SetupInv, Next, Erased
  PROVE  Erased'
<1>1. Started \subseteq Started' /\ failures' > 0
  BY StartedGrows, FailuresGrow DEF Erased
<1>2. PICK v \in Started, w \in Started : v # w
  BY DEF Erased, TwoWorkers
<1> QED BY <1>1, <1>2 DEF Erased, TwoWorkers

\* Steps that store nothing, and after which a worker is about to store a
\* handle only if it was before, keep StoreInv.
LEMMA QuietStepKeepsStore ==
  ASSUME TypeOK, SetupInv, StoreInv, Next, UNCHANGED <<pollHandle, stored>>,
         \A w \in Producers : workerPc'[w] \in {"start", "create", "store"} =>
           workerPc[w] \in {"start", "create", "store"}
  PROVE  StoreInv'
<1>1. Started \subseteq Started'
  BY StartedGrows
<1>2. Erased => Erased'
  BY ErasedStays
<1>3. ASSUME NEW w \in Producers, stored', workerPc'[w] \in {"start", "create", "store"}
      PROVE  \E v \in Started' : v # w
  <2>1. stored /\ workerPc[w] \in {"start", "create", "store"}
    BY <1>3
  <2> QED BY <1>1, <2>1 DEF StoreInv
<1> QED BY <1>2, <1>3 DEF StoreInv

\* A handle is stored over another, or erased, by a second worker.
LEMMA StoreKept ==
  ASSUME TypeOK, SetupInv, StoreInv, Next
  PROVE  StoreInv'
<1>0. Started \subseteq Started'
  BY StartedGrows
<1>1. CASE InputCommand
  <2>1. UNCHANGED <<pollHandle, stored>>
    BY <1>1 DEF InputCommand, CommandSetupPt, KafkaInit, CreateWorker, SetupFails, CommandExit,
       KafkaUninit, StopKafkaPolling, FlushPoll, FlushFaults, RdKafkaDestroy, AccessViolation,
       pollVars
  <2>2. workerPc' = workerPc \/ workerPc' = [workerPc EXCEPT ![setups] = "get"]
    BY <1>1 DEF InputCommand, CommandSetupPt, KafkaInit, CreateWorker, SetupFails, CommandExit,
       KafkaUninit, StopKafkaPolling, FlushPoll, FlushFaults, RdKafkaDestroy, AccessViolation,
       workerVars, Go
  <2>3. \A w \in Producers : workerPc'[w] \in {"start", "create", "store"} =>
          workerPc[w] \in {"start", "create", "store"}
    BY <2>2 DEF TypeOK
  <2> QED BY <2>1, <2>3, QuietStepKeepsStore
<1>2. ASSUME NEW p \in Producers, PollKafkaThread(p) \/ PollFaults(p) \/ Acknowledge(p)
      PROVE  StoreInv'
  <2>1. UNCHANGED <<pollHandle, stored, workerPc>>
    BY <1>2 DEF PollKafkaThread, PollFaults, Acknowledge, AccessViolation, pollVars, workerVars
  <2> QED BY <2>1, QuietStepKeepsStore
<1>3. ASSUME NEW w \in Producers, ThreadProc(w) PROVE StoreInv'
  <2>1. CASE KafkaSendMessage(w)
    <3>1. /\ UNCHANGED <<pollHandle, stored>>
          /\ \A u \in Producers : u # w => workerPc'[u] = workerPc[u]
          /\ workerPc'[w] = "start" => ~pollHandle
      BY <2>1 DEF KafkaSendMessage, Go, pollVars, TypeOK
    <3>2. workerPc'[w] \in {"start", "create", "store"} => workerPc'[w] = "start"
      BY <2>1 DEF KafkaSendMessage, Go, TypeOK
    <3>3. ASSUME NEW u \in Producers, stored', workerPc'[u] \in {"start", "create", "store"}
          PROVE  \E v \in Started' : v # u
      <4>1. CASE u # w
        BY <1>0, <3>1, <3>3, <4>1 DEF StoreInv
      <4>2. CASE u = w
        <5>1. TwoWorkers
          BY <3>1, <3>2, <3>3, <4>2 DEF StoreInv, Erased
        <5> QED BY <1>0, <5>1 DEF TwoWorkers
      <4> QED BY <4>1, <4>2
    <3>4. Erased => Erased'
      BY ErasedStays
    <3> QED BY <3>1, <3>3, <3>4 DEF StoreInv
  <2>2. CASE StoreHandle(w)
    <3>1. w \in Started'
      BY <1>0, <2>2 DEF StoreHandle, Started
    <3>2. /\ pollHandle' /\ stored' /\ workerPc'[w] = "produce"
      BY <2>2 DEF StoreHandle, Go, TypeOK
    <3> QED BY <3>1, <3>2 DEF StoreInv
  <2>3. CASE CreatePollingFails(w)
    <3>1. /\ ~pollHandle' /\ stored' = stored /\ w \in Started /\ workerPc[w] = "create"
          /\ \A u \in Producers : u # w => workerPc'[u] = workerPc[u]
          /\ workerPc'[w] = "produce"
      BY <2>3 DEF CreatePollingFails, Go, TypeOK, Started
    <3>2. failures' > 0
      BY <2>3, Bounds DEF CreatePollingFails, Fails, TypeOK
    <3>3. stored => Erased'
      BY <1>0, <3>1, <3>2 DEF StoreInv, Erased, TwoWorkers
    <3>4. ASSUME NEW u \in Producers, stored', workerPc'[u] \in {"start", "create", "store"}
          PROVE  \E v \in Started' : v # u
      BY <1>0, <3>1, <3>4 DEF StoreInv
    <3> QED BY <3>1, <3>3, <3>4 DEF StoreInv
  <2>4. CASE StartKafkaPolling(w) \/ CreatePollingThread(w)
    <3>1. UNCHANGED <<pollHandle, stored>>
      BY <2>4 DEF StartKafkaPolling, CreatePollingThread, pollVars
    <3>2. \A u \in Producers : workerPc'[u] \in {"start", "create", "store"} =>
            workerPc[u] \in {"start", "create", "store"}
      BY <2>4 DEF StartKafkaPolling, CreatePollingThread, Go, TypeOK
    <3> QED BY <3>1, <3>2, QuietStepKeepsStore
  <2>5. CASE ProduceFaults(w)
    BY <2>5, QuietStepKeepsStore DEF ProduceFaults, AccessViolation, pollVars, workerVars
  <2>6. CASE \/ CommandGetBuffer(w) \/ AllocationFails(w) \/ Produce(w) \/ QueueFull(w)
             \/ ProduceFails(w) \/ RetryPoll(w) \/ CommandFreeBuffer(w)
    <3>1. /\ UNCHANGED <<pollHandle, stored>>
          /\ \E pc \in {"build", "produce", "full", "free", "get", "ended"} : Go(w, pc)
      BY <2>6 DEF CommandGetBuffer, AllocationFails, Produce, QueueFull, ProduceFails, RetryPoll,
         CommandFreeBuffer, pollVars
    <3>2. \A u \in Producers : workerPc'[u] \in {"start", "create", "store"} =>
            workerPc[u] \in {"start", "create", "store"}
      BY <3>1 DEF Go, TypeOK
    <3> QED BY <3>1, <3>2, QuietStepKeepsStore
  <2> QED BY <1>3, <2>1, <2>2, <2>3, <2>4, <2>5, <2>6 DEF ThreadProc
<1> QED BY <1>1, <1>2, <1>3 DEF Next

\* The wait lets an exit pass only where no handle was stored or one was erased,
\* and the flush comes before the end of a producer.
LEMMA ExitKept ==
  ASSUME TypeOK, SetupInv, StoreInv, ExitInv, Next
  PROVE  ExitInv'
<1>0. Erased => Erased'
  BY ErasedStays
<1>1. CASE InputCommand
  <2>1. CASE StopKafkaPolling
    <3>1. mainPc' = "flush" => ~pollHandle
      BY <2>1 DEF StopKafkaPolling
    <3>2. destroyed' = destroyed /\ exitEarly' = (exitEarly \/ ~stored)
      BY <2>1 DEF StopKafkaPolling
    <3> QED BY <1>0, <3>1, <3>2 DEF StoreInv, ExitInv
  <2>2. CASE RdKafkaDestroy
    BY <1>0, <2>2 DEF RdKafkaDestroy, ExitInv
  <2>3. CASE KafkaInit \/ CreateWorker \/ SetupFails \/ CommandExit
    BY <1>0, <2>3 DEF KafkaInit, CreateWorker, SetupFails, CommandExit, ExitInv
  <2>4. CASE FlushPoll \/ FlushFaults
    BY <1>0, <2>4 DEF FlushPoll, FlushFaults, AccessViolation, mainVars, ExitInv
  <2> QED BY <1>1, <2>1, <2>2, <2>3, <2>4 DEF InputCommand, CommandSetupPt, KafkaUninit
<1>2. CASE ~InputCommand
  BY <1>0, <1>2, ThreadsKeepMain DEF Next, ExitInv, mainVars
<1> QED BY <1>1, <1>2

-----------------------------------------------------------------------------
(* Packets.                                                                *)

\* A started worker stays started.
LEMMA StartedKept ==
  ASSUME TypeOK, NEW w \in Producers, workerPc[w] # "none", NEW pc, pc # "none", Go(w, pc)
  PROVE  Started' = Started
  BY DEF TypeOK, Go, Started

\* There are finitely many workers to count.
LEMMA StartedFinite == IsFiniteSet(Started)
<1>1. IsFiniteSet(Producers)
  BY Bounds, FS_Interval DEF Producers
<1> QED BY <1>1, FS_Subset DEF Started

\* The worker of a setup is a new one, and it is the lone one only when there
\* was none.
LEMMA WorkerAdded ==
  ASSUME TypeOK, SetupInv, CreateWorker
  PROVE  /\ setups \in Producers /\ setups \notin Started
         /\ Started' = Started \cup {setups}
         /\ Lone' => Started = {}
<1>1. setups \in Producers /\ workerPc[setups] = "none"
  BY Bounds DEF CreateWorker, SetupInv, TypeOK, Producers
<1>2. setups \notin Started
  BY <1>1 DEF Started
<1>3. Started' = Started \cup {setups}
  BY <1>1 DEF Started, CreateWorker, Go, TypeOK
<1>4. Cardinality(Started') = Cardinality(Started) + 1 /\ Cardinality(Started) \in Nat
  BY <1>2, <1>3, StartedFinite, FS_AddElement, FS_CardinalityType
<1>5. Lone' => Cardinality(Started) = 0
  BY <1>4 DEF Lone
<1> QED BY <1>1, <1>2, <1>3, <1>5, StartedFinite, FS_EmptySet

\* Two started workers are not lone.
LEMMA LoneIsAlone ==
  ASSUME Lone, NEW v \in Started, NEW w \in Started
  PROVE  v = w
<1>1. \E x : Started = {x}
  BY StartedFinite, FS_Singleton DEF Lone
<1> QED BY <1>1

\* A worker that keeps its packet and does not produce it, or lets it go.
LEMMA QuietWorkerKeepsPackets ==
  ASSUME TypeOK, PacketInv, NEW w \in Producers, NEW pc, Go(w, pc),
         workerPc[w] # "none", pc # "none", UNCHANGED <<taken, produced>>,
         \/ hand' = hand /\ (pc \in Unsent => workerPc[w] \in Unsent)
         \/ hand' = [hand EXCEPT ![w] = 0] /\ pc \notin Unsent
  PROVE  PacketInv'
<1>1. /\ \A v \in Producers : v # w => workerPc'[v] = workerPc[v]
      /\ workerPc'[w] = pc
  BY DEF Go, TypeOK
<1>2. \A v \in Producers : hand'[v] = hand[v] \/ (v = w /\ hand'[v] = 0 /\ pc \notin Unsent)
  BY DEF TypeOK
<1>3. Started' = Started /\ Lone' = Lone
  BY StartedKept DEF Lone
<1>4. (\A v \in Producers : hand[v] <= taken)'
  BY <1>2 DEF PacketInv, TypeOK
<1>5. (\A u, v \in Producers : hand[u] = hand[v] => u = v \/ hand[u] = 0)'
  BY <1>2 DEF PacketInv
<1>6. (\A v \in Producers : workerPc[v] \in Unsent =>
         \A i \in Index : produced[i] # hand[v] /\ (Lone => produced[i] < hand[v]))'
  <2>1. \A v \in Producers :
          workerPc'[v] \in Unsent => workerPc[v] \in Unsent /\ hand'[v] = hand[v]
    BY <1>1, <1>2
  <2> QED BY <1>3, <2>1 DEF PacketInv, Index
<1>7. ProducedOnceInOrder'
  BY <1>3 DEF PacketInv, ProducedOnceInOrder, Lone
<1> QED BY <1>3, <1>4, <1>5, <1>6, <1>7 DEF PacketInv, Index

\* What was produced are packets of the driver.
LEMMA ProducedArePackets ==
  ASSUME TypeOK
  PROVE  \A i \in Index : produced[i] \in Packets /\ produced[i] \in Nat
<1>1. produced \in Seq(Packets)
  BY DEF TypeOK
<1>2. \A i \in Index : produced[i] \in Packets
  BY <1>1 DEF Index
<1> QED BY <1>2 DEF Packets

\* The packet the driver hands out is newer than all before it.
LEMMA GetBufferKeepsPackets ==
  ASSUME TypeOK, PacketInv, NEW w \in Producers, CommandGetBuffer(w)
  PROVE  PacketInv'
<1>1. /\ taken \in Nat /\ taken' = taken + 1 /\ produced' = produced /\ workerPc[w] = "get"
      /\ workerPc' = [workerPc EXCEPT ![w] = "build"]
      /\ hand' = [hand EXCEPT ![w] = taken + 1]
  BY Bounds DEF CommandGetBuffer, TypeOK, Go, kafkaVars
<1>2. /\ \A v \in Producers : v # w => workerPc'[v] = workerPc[v] /\ hand'[v] = hand[v]
      /\ hand'[w] = taken + 1
  BY <1>1 DEF TypeOK
<1>3. Started' = Started /\ Lone' = Lone
  BY <1>1, StartedKept DEF Lone, Go
<1>4. \A v \in Producers : hand[v] \in Nat /\ hand[v] <= taken
  BY Bounds DEF TypeOK, PacketInv
<1>5. \A i \in Index : produced[i] \in Nat /\ produced[i] <= taken
  BY ProducedArePackets DEF PacketInv
<1>6. (\A v \in Producers : hand[v] <= taken)'
  BY <1>1, <1>2, <1>4
<1>7. (\A u, v \in Producers : hand[u] = hand[v] => u = v \/ hand[u] = 0)'
  BY <1>1, <1>2, <1>4 DEF PacketInv
<1>8. (\A i \in Index : produced[i] <= taken)'
  BY <1>1, <1>5 DEF Index
<1>9. (\A v \in Producers : workerPc[v] \in Unsent =>
         \A i \in Index : produced[i] # hand[v] /\ (Lone => produced[i] < hand[v]))'
  <2>1. \A i \in Index : produced[i] # taken + 1 /\ produced[i] < taken + 1
    BY <1>1, <1>5
  <2>2. ASSUME NEW v \in Producers, workerPc'[v] \in Unsent, NEW i \in Index
        PROVE  produced[i] # hand'[v] /\ (Lone => produced[i] < hand'[v])
    BY <1>2, <2>1, <2>2 DEF PacketInv
  <2> QED BY <1>1, <1>3, <2>2 DEF Index
<1>10. ProducedOnceInOrder'
  BY <1>1, <1>3 DEF PacketInv, ProducedOnceInOrder, Lone
<1> QED BY <1>1, <1>3, <1>6, <1>7, <1>8, <1>9, <1>10 DEF PacketInv

\* A producer accepts a packet that none has accepted before, after all those
\* of the only worker.
LEMMA ProduceKeepsPackets ==
  ASSUME TypeOK, PacketInv, NEW w \in Producers, Produce(w)
  PROVE  PacketInv'
<1>1. /\ UNCHANGED <<taken, hand>> /\ produced' = Append(produced, hand[w])
      /\ workerPc[w] = "produce" /\ workerPc' = [workerPc EXCEPT ![w] = "free"]
  BY DEF Produce, Accept, Go
<1>2. /\ \A v \in Producers : v # w => workerPc'[v] = workerPc[v]
      /\ workerPc'[w] = "free"
  BY <1>1 DEF TypeOK
<1>3. Started' = Started /\ Lone' = Lone
  BY <1>1, StartedKept DEF Lone, Go
<1>4. hand[w] \in Nat /\ hand[w] # 0 /\ hand[w] <= taken
  <2>1. hand[w] \in 0..MaxPackets /\ hand[w] # 0
    BY <1>1 DEF TypeOK
  <2> QED BY <2>1 DEF PacketInv
<1>5. /\ Len(produced) \in Nat /\ Len(produced') = Len(produced) + 1
      /\ \A i \in Index : produced'[i] = produced[i] /\ produced[i] \in Nat
      /\ produced'[Len(produced) + 1] = hand[w]
  <2>1. produced \in Seq(Packets) /\ \A i \in Index : produced[i] \in Nat
    BY ProducedArePackets DEF TypeOK
  <2> QED BY <1>1, <2>1 DEF Index
<1>6. \A i \in Index' : i \in Index \/ i = Len(produced) + 1
  BY <1>5 DEF Index
<1>7. \A i \in Index : produced[i] # hand[w] /\ (Lone => produced[i] < hand[w])
  BY <1>1 DEF PacketInv, Unsent
<1>8. (\A i \in Index : produced[i] <= taken)'
  BY <1>1, <1>4, <1>5, <1>6 DEF PacketInv
<1>9. (\A v \in Producers : workerPc[v] \in Unsent =>
         \A i \in Index : produced[i] # hand[v] /\ (Lone => produced[i] < hand[v]))'
  <2>1. SUFFICES ASSUME NEW v \in Producers, workerPc'[v] \in Unsent, NEW i \in Index'
                 PROVE  produced'[i] # hand[v] /\ (Lone => produced'[i] < hand[v])
    BY <1>1, <1>3
  <2>2. v # w /\ workerPc[v] \in Unsent
    BY <1>2, <2>1 DEF Unsent
  <2>3. ~Lone
    BY <1>1, <2>2, LoneIsAlone DEF Started, Unsent
  <2>4. hand[w] # hand[v]
    BY <1>4, <2>2 DEF PacketInv
  <2> QED BY <1>5, <1>6, <2>2, <2>3, <2>4 DEF PacketInv
<1>10. ProducedOnceInOrder'
  <2>1. SUFFICES ASSUME NEW i \in Index', NEW j \in Index', i < j
                 PROVE  produced'[i] # produced'[j] /\ (Lone => produced'[i] < produced'[j])
    BY <1>3 DEF ProducedOnceInOrder, Lone, Index
  <2>2. i \in Index
    BY <1>5, <1>6, <2>1 DEF Index
  <2>3. CASE j \in Index
    BY <1>5, <2>1, <2>2, <2>3 DEF PacketInv, ProducedOnceInOrder, Lone, Index
  <2>4. CASE j = Len(produced) + 1
    BY <1>5, <1>7, <2>2, <2>4
  <2> QED BY <1>6, <2>3, <2>4
<1>11. Started' # {}
  BY <1>1, <1>3 DEF Started
<1>12. (\A v \in Producers : hand[v] <= taken)'
  BY <1>1 DEF PacketInv
<1>13. (\A u, v \in Producers : hand[u] = hand[v] => u = v \/ hand[u] = 0)'
  BY <1>1 DEF PacketInv
<1> QED BY <1>8, <1>9, <1>10, <1>11, <1>12, <1>13 DEF PacketInv

\* A new worker is alone only while nothing has been produced.
LEMMA NewWorkerKeepsPackets ==
  ASSUME TypeOK, SetupInv, PacketInv, CreateWorker
  PROVE  PacketInv'
<1>1. /\ UNCHANGED <<hand, taken, produced>> /\ workerPc' = [workerPc EXCEPT ![setups] = "get"]
  BY DEF CreateWorker, Go, kafkaVars
<1>2. \A v \in Producers : workerPc'[v] \in Unsent => workerPc[v] \in Unsent
  BY <1>1 DEF TypeOK, Unsent
<1>3. Started' # {} /\ (Lone' => Index = {})
  BY WorkerAdded DEF PacketInv, Index
<1>4. (\A v \in Producers : workerPc[v] \in Unsent =>
         \A i \in Index : produced[i] # hand[v] /\ (Lone => produced[i] < hand[v]))'
  BY <1>1, <1>2, <1>3 DEF PacketInv, Index
<1>5. ProducedOnceInOrder'
  BY <1>1, <1>3 DEF PacketInv, ProducedOnceInOrder, Lone, Index
<1> QED BY <1>1, <1>3, <1>4, <1>5 DEF PacketInv, Index

\* Every step keeps PacketInv: a packet is produced by the worker that holds it,
\* which then holds it no longer as unsent.
LEMMA PacketsKept ==
  ASSUME TypeOK, SetupInv, PacketInv, Next
  PROVE  PacketInv'
<1>1. ASSUME UNCHANGED <<workerVars, taken, produced>> PROVE PacketInv'
  BY <1>1 DEF PacketInv, ProducedOnceInOrder, Lone, Started, Index, workerVars
<1>2. ASSUME NEW p \in Producers, PollKafkaThread(p) \/ PollFaults(p) \/ Acknowledge(p)
      PROVE  PacketInv'
  BY <1>1, <1>2, ForwardingKept
<1>3. CASE InputCommand
  <2>1. CASE CreateWorker
    BY <2>1, NewWorkerKeepsPackets
  <2>2. CASE KafkaInit \/ SetupFails \/ CommandExit \/ KafkaUninit
    BY <1>1, <2>2, ForwardingKept
  <2> QED BY <1>3, <2>1, <2>2 DEF InputCommand, CommandSetupPt
<1>4. ASSUME NEW w \in Producers, ThreadProc(w) PROVE PacketInv'
  <2>1. CASE CommandGetBuffer(w)
    BY <2>1, GetBufferKeepsPackets
  <2>2. CASE Produce(w)
    BY <2>2, ProduceKeepsPackets
  <2>3. CASE AllocationFails(w) \/ CommandFreeBuffer(w)
    BY <2>3, QuietWorkerKeepsPackets DEF AllocationFails, CommandFreeBuffer, kafkaVars, Unsent
  <2>4. CASE \/ KafkaSendMessage(w) \/ StartKafkaPolling(w) \/ CreatePollingThread(w)
             \/ StoreHandle(w) \/ CreatePollingFails(w) \/ QueueFull(w) \/ ProduceFails(w) \/ RetryPoll(w)
    <3>1. /\ workerPc[w] \in Unsent
          /\ UNCHANGED <<hand, taken, produced>>
          /\ \E pc \in WorkerPcs \ {"none"} : Go(w, pc)
      BY <2>4 DEF KafkaSendMessage, StartKafkaPolling, CreatePollingThread, StoreHandle,
            CreatePollingFails, QueueFull, ProduceFails, RetryPoll, RdKafkaPoll, kafkaVars, Unsent, WorkerPcs
    <3> QED BY <3>1, QuietWorkerKeepsPackets DEF Unsent
  <2>5. CASE ProduceFaults(w)
    BY <1>1, <2>5, ForwardingKept
  <2> QED BY <1>4, <2>1, <2>2, <2>3, <2>4, <2>5 DEF ThreadProc
<1> QED BY <1>2, <1>3, <1>4 DEF Next

-----------------------------------------------------------------------------
(* Losses.                                                                 *)

\* A packet stays sent.
LEMMA SentStays ==
  ASSUME TypeOK, NEW x, produced' = produced \/ produced' = Append(produced, x), NEW k, Sent(k)
  PROVE  Sent(k)'
<1>1. produced \in Seq(Packets)
  BY DEF TypeOK
<1>2. CASE produced' = produced
  BY <1>2 DEF Sent, Index
<1>3. CASE produced' = Append(produced, x)
  <2>1. PICK i \in Index : produced[i] = k
    BY DEF Sent
  <2>2. i \in Index' /\ produced'[i] = k
    BY <1>1, <1>3, <2>1 DEF Index
  <2> QED BY <2>2 DEF Sent
<1> QED BY <1>2, <1>3

\* Where nothing is taken or let go, and a worker comes to its free with a
\* packet that was sent, nothing is lost.
LEMMA HeldIsNotLost ==
  ASSUME TypeOK, LossInv, NEW x, produced' = produced \/ produced' = Append(produced, x),
         UNCHANGED <<hand, taken>>, destroyed \subseteq destroyed', failures' = 0 => failures = 0,
         \A w \in Producers :
           workerPc'[w] = "free" /\ failures' = 0 /\ destroyed' = {} =>
             workerPc[w] = "free" \/ Sent(hand[w])'
  PROVE  LossInv'
<1> SUFFICES ASSUME failures' = 0, destroyed' = {}
             PROVE  /\ \A k \in 1..taken : (\E w \in Producers : hand[w] = k) \/ Sent(k)'
                    /\ \A w \in Producers : workerPc'[w] = "free" => Sent(hand[w])'
  BY DEF LossInv, LossNeedsFailure, Sent, Index
<1>1. failures = 0 /\ destroyed = {}
  OBVIOUS
<1>2. \A k \in 1..taken : (\E w \in Producers : hand[w] = k) \/ Sent(k)
  BY <1>1 DEF LossInv, LossNeedsFailure, Sent, Index
<1>3. \A w \in Producers : workerPc[w] = "free" => Sent(hand[w])
  BY <1>1 DEF LossInv
<1> QED BY <1>2, <1>3, SentStays

\* Every step keeps LossInv: the retry of a full queue ends with a send or a
\* failure.
LEMMA LossKept ==
  ASSUME TypeOK, SetupInv, LossInv, Next
  PROVE  LossInv'
<1>1. ASSUME UNCHANGED <<workerVars, taken, produced>>, destroyed \subseteq destroyed',
             failures' = 0 => failures = 0
      PROVE  LossInv'
  BY <1>1, HeldIsNotLost DEF workerVars
<1>2. CASE InputCommand
  <2>1. CASE CreateWorker
    <3>1. /\ UNCHANGED <<hand, taken, produced, destroyed, failures>>
          /\ workerPc' = [workerPc EXCEPT ![setups] = "get"]
      BY <2>1 DEF CreateWorker, Go, kafkaVars
    <3> QED BY <3>1, HeldIsNotLost DEF TypeOK
  <2>2. CASE KafkaInit \/ SetupFails \/ CommandExit \/ KafkaUninit
    BY <1>1, <2>2, ForwardingKept
  <2> QED BY <1>2, <2>1, <2>2 DEF InputCommand, CommandSetupPt
<1>3. ASSUME NEW p \in Producers, PollKafkaThread(p) \/ PollFaults(p) \/ Acknowledge(p)
      PROVE  LossInv'
  BY <1>1, <1>3, ForwardingKept
<1>4. ASSUME NEW w \in Producers, ThreadProc(w) PROVE LossInv'
  <2> destroyed' = destroyed
    BY <1>4, ThreadsKeepMain DEF mainVars
  <2>1. CASE CommandGetBuffer(w)
    <3>1. /\ taken \in Nat /\ taken' = taken + 1 /\ UNCHANGED <<produced, failures>>
          /\ \A v \in Producers : v # w => hand'[v] = hand[v] /\ workerPc'[v] = workerPc[v]
          /\ hand'[w] = taken + 1 /\ workerPc'[w] = "build" /\ hand[w] = 0
      BY <2>1, Bounds DEF CommandGetBuffer, TypeOK, Go, kafkaVars
    <3>2. SUFFICES ASSUME failures = 0, destroyed = {}
                   PROVE  /\ \A k \in 1..taken' : (\E v \in Producers : hand'[v] = k) \/ Sent(k)
                          /\ \A v \in Producers : workerPc'[v] = "free" => Sent(hand'[v])
      BY <3>1 DEF LossInv, LossNeedsFailure, Sent, Index
    <3>3. \A k \in 1..taken : (\E v \in Producers : hand[v] = k) \/ Sent(k)
      BY <3>2 DEF LossInv, LossNeedsFailure, Sent, Index
    <3>4. \A k \in 1..taken' : k = taken + 1 \/ (k \in 1..taken /\ k # 0)
      BY <3>1
    <3>5. \A v \in Producers : workerPc'[v] = "free" => Sent(hand'[v])
      BY <3>1, <3>2 DEF LossInv
    <3> QED BY <3>1, <3>3, <3>4, <3>5
  <2>2. CASE Produce(w)
    <3>1. /\ UNCHANGED <<hand, taken, failures>> /\ produced' = Append(produced, hand[w])
          /\ \A v \in Producers : v # w => workerPc'[v] = workerPc[v]
      BY <2>2 DEF Produce, Accept, Go, TypeOK
    <3>2. Sent(hand[w])'
      <4>1. produced \in Seq(Packets)
        BY DEF TypeOK
      <4>2. Len(produced) + 1 \in 1..Len(produced') /\ produced'[Len(produced) + 1] = hand[w]
        BY <3>1, <4>1
      <4> QED BY <3>1, <4>2 DEF Sent, Index
    <3> QED BY <3>1, <3>2, HeldIsNotLost
  <2>3. CASE AllocationFails(w)
    <3>1. failures' # 0
      BY <2>3, Bounds DEF AllocationFails, Fails, TypeOK
    <3> QED BY <3>1 DEF LossInv, LossNeedsFailure
  <2>4. CASE CommandFreeBuffer(w)
    <3>1. /\ UNCHANGED <<taken, produced, failures>> /\ workerPc[w] = "free"
          /\ \A v \in Producers : v # w => hand'[v] = hand[v] /\ workerPc'[v] = workerPc[v]
          /\ workerPc'[w] = "get"
      BY <2>4 DEF CommandFreeBuffer, TypeOK, Go, kafkaVars
    <3>2. SUFFICES ASSUME failures = 0, destroyed = {}
                   PROVE  /\ \A k \in 1..taken : (\E v \in Producers : hand'[v] = k) \/ Sent(k)
                          /\ \A v \in Producers : workerPc'[v] = "free" => Sent(hand'[v])
      BY <3>1 DEF LossInv, LossNeedsFailure, Sent, Index
    <3>3. \A k \in 1..taken : (\E v \in Producers : hand[v] = k) \/ Sent(k)
      BY <3>2 DEF LossInv, LossNeedsFailure, Sent, Index
    <3>4. \A v \in Producers : workerPc[v] = "free" => Sent(hand[v])
      BY <3>2 DEF LossInv
    <3> QED BY <3>1, <3>3, <3>4
  <2>5. CASE ProduceFails(w)
    <3>1. failures \in Nat
      BY Bounds DEF TypeOK
    <3>2. failures' # 0 \/ destroyed' # {}
      BY <2>5, <3>1 DEF ProduceFails, Fails, Usable
    <3> QED BY <3>2 DEF LossInv, LossNeedsFailure
  <2>6. CASE \/ KafkaSendMessage(w) \/ StartKafkaPolling(w) \/ CreatePollingThread(w)
             \/ StoreHandle(w) \/ CreatePollingFails(w) \/ QueueFull(w) \/ RetryPoll(w)
    <3>1. /\ UNCHANGED <<hand, taken, produced>>
          /\ \E pc \in WorkerPcs \ {"free"} : Go(w, pc)
      BY <2>6 DEF KafkaSendMessage, StartKafkaPolling, CreatePollingThread, StoreHandle,
            CreatePollingFails, QueueFull, RetryPoll, RdKafkaPoll, kafkaVars, WorkerPcs
    <3>2. failures' = 0 => failures = 0
      BY <2>6, Bounds DEF KafkaSendMessage, StartKafkaPolling, CreatePollingThread,
            StoreHandle, CreatePollingFails, QueueFull, RetryPoll, Fails, TypeOK
    <3>3. \A v \in Producers : workerPc'[v] = "free" => workerPc[v] = "free"
      BY <3>1 DEF Go, TypeOK
    <3> QED BY <3>1, <3>2, <3>3, HeldIsNotLost
  <2>7. CASE ProduceFaults(w)
    BY <1>1, <2>7, ForwardingKept
  <2> QED BY <1>4, <2>1, <2>2, <2>3, <2>4, <2>5, <2>6, <2>7 DEF ThreadProc
<1> QED BY <1>2, <1>3, <1>4 DEF Next

-----------------------------------------------------------------------------
(* The theorems.                                                           *)

\* Before the first command no packet is anywhere.
LEMMA InitForward == Init => ForwardInv
<1> SUFFICES ASSUME Init PROVE ForwardInv
  OBVIOUS
<1>1. TypeOK
  <2>1. WorkerType
    BY Bounds DEF Init, WorkerType, WorkerPcs
  <2>2. KafkaType
    BY DEF Init, KafkaType
  <2>3. MainType
    <3>1. 0 \in 0..MaxSetups /\ 0 \in 0..MaxPackets /\ 0 \in 0..MaxFailures
      BY Bounds
    <3> QED BY <3>1 DEF Init, MainType, MainPcs
  <2> QED BY <2>1, <2>2, <2>3, TypeParts
<1>2. SetupInv /\ StoreInv /\ ExitInv
  BY DEF Init, SetupInv, StoreInv, ExitInv, Sending
<1>3. Started = {} /\ Index = {} /\ \A w \in Producers : workerPc[w] = "none" /\ hand[w] = 0
  BY DEF Init, Started, Index
<1>4. PacketInv
  BY <1>3 DEF Init, PacketInv, ProducedOnceInOrder, Index, Unsent
<1>5. LossInv
  BY <1>3 DEF Init, LossInv, LossNeedsFailure
<1> QED BY <1>1, <1>2, <1>4, <1>5 DEF ForwardInv

\* Every step keeps the inductive invariant.
LEMMA NextForward == ForwardInv /\ [Next]_vars => ForwardInv'
<1> SUFFICES ASSUME ForwardInv, [Next]_vars PROVE ForwardInv'
  OBVIOUS
<1>0. TypeOK /\ SetupInv /\ StoreInv /\ ExitInv /\ PacketInv /\ LossInv
  BY DEF ForwardInv
<1>1. CASE Next
  <2>1. TypeOK' /\ SetupInv'
    BY <1>0, <1>1, CommandsKeepType, WorkersKeepType, PollersKeepType DEF Next
  <2> QED BY <1>0, <1>1, <2>1, StoreKept, ExitKept, PacketsKept, LossKept DEF ForwardInv
<1>2. CASE UNCHANGED vars
  <2>1. /\ mainPc' = mainPc /\ setups' = setups /\ workerPc' = workerPc /\ hand' = hand
        /\ target' = target /\ taken' = taken /\ dropped' = dropped /\ outq' = outq
        /\ acked' = acked /\ produced' = produced /\ pollHandle' = pollHandle
        /\ stored' = stored /\ polled' = polled /\ destroyed' = destroyed /\ exitEarly' = exitEarly
        /\ ended' = ended /\ failures' = failures
    BY <1>2 DEF vars, mainVars, workerVars, kafkaVars, pollVars
  <2>2. TypeOK'
    BY <1>0, <2>1 DEF TypeOK
  <2>4. Index' = Index /\ Started' = Started
    BY <2>1 DEF Index, Started
  <2>3. SetupInv' /\ StoreInv' /\ ExitInv'
    BY <1>0, <2>1, <2>4 DEF SetupInv, StoreInv, ExitInv, Erased, TwoWorkers
  <2>5. Lone' <=> Lone
    BY <2>4 DEF Lone
  <2>6. ProducedOnceInOrder'
    <3>1. ProducedOnceInOrder
      BY <1>0 DEF PacketInv
    <3> QED BY <2>1, <2>4, <3>1 DEF ProducedOnceInOrder
  <2>7. PacketInv'
    BY <1>0, <2>1, <2>4, <2>5, <2>6 DEF PacketInv
  <2>8. LossInv'
    BY <1>0, <2>1, <2>4 DEF LossInv, LossNeedsFailure, Sent
  <2> QED BY <2>2, <2>3, <2>7, <2>8 DEF ForwardInv
<1> QED BY <1>1, <1>2

\* The inductive invariant: every packet is with one worker at most, comes from
\* the driver after all those already produced by a lone worker, and is freed
\* after it was sent or after something failed.
THEOREM ForwardInvariant == Spec => []ForwardInv
  BY InitForward, NextForward, PTL DEF Spec

\* The application keeps its types (ThreadProc, KafkaSendMessage).
THEOREM TypeCorrect == Spec => []TypeOK
<1>1. ForwardInv => TypeOK
  BY DEF ForwardInv
<1> QED BY ForwardInvariant, <1>1, PTL

\* No packet is produced twice, and a lone worker keeps the driver's order
\* (ThreadProc, the retry of KafkaSendMessage).
THEOREM ProducedOnce == Spec => []ProducedOnceInOrder
<1>1. ForwardInv => ProducedOnceInOrder
  BY DEF ForwardInv, PacketInv
<1> QED BY ForwardInvariant, <1>1, PTL

\* A full producer queue loses no packet (the retry of KafkaSendMessage).
THEOREM FullQueueLosesNone == Spec => []LossNeedsFailure
<1>1. ForwardInv => LossNeedsFailure
  BY DEF ForwardInv, LossInv
<1> QED BY ForwardInvariant, <1>1, PTL

\* A producer in use is destroyed only when an exit passed the wait before the
\* handle of a polling thread was stored, or when of two workers one stored the
\* NULL of a failing CreateThread over the other's handle: with one worker, or
\* where no call fails, the wait protects the producer from the first stored
\* handle on (StartKafkaPolling, StopKafkaPolling, KafkaUninit).
THEOREM DestroyNeedsCause == Spec => []DestroyedInUseNeedsCause
<1>1. ForwardInv => DestroyedInUseNeedsCause
  BY DEF ForwardInv, ExitInv, Erased, DestroyedInUseNeedsCause
<1> QED BY ForwardInvariant, <1>1, PTL
=============================================================================
