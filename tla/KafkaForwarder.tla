--------------------------- MODULE KafkaForwarder ---------------------------
(***************************************************************************)
(* The user mode application: the command loop (commands "setup" and       *)
(* "exit"), the worker threads that take packets from the driver and       *)
(* produce them to Kafka, and the thread that polls the Kafka producer.    *)
(*                                                                         *)
(* The n-th "setup" that passes KafkaInit creates producer n, stores it in *)
(* KafkaHandler (so KafkaHandler is the newest producer, 0 for NULL) and,  *)
(* if nothing fails, starts worker n.  Packets are numbered in the order   *)
(* in which the driver hands them out, each to one request, which is what  *)
(* PacketChannel promises.  librdkafka is external: a producer is the set  *)
(* of messages it still counts (outq), of which the acked ones wait for a  *)
(* poll to run their delivery callback.                                    *)
(*                                                                         *)
(* A destroyed producer is freed memory.  Its use either ends the process  *)
(* or goes by as a failed call.                                            *)
(***************************************************************************)
EXTENDS Naturals, Sequences, FiniteSets

CONSTANTS MaxSetups,    \* bound: producers created
          MaxPackets,   \* bound: packets the driver hands out
          QueueMax,     \* queue.buffering.max.messages of a producer
          MaxFailures   \* bound: failing allocations, threads and messages

ASSUME KafkaForwarderAssumption ==
  {MaxSetups, MaxPackets, QueueMax, MaxFailures} \subseteq Nat

VARIABLES mainPc,       \* where the command loop is
          setups,       \* producers created; the newest one is KafkaHandler
          workerPc,     \* where each ThreadProc is
          hand,         \* packet a worker forwards, or 0
          target,       \* producer passed to the worker's KafkaSendMessage
          taken,        \* packets the driver has handed out
          outq,         \* messages each producer counts
          acked,        \* messages delivered or failed, and not yet polled
          produced,     \* packets in the order producers accepted them
          dropped,      \* packets given up
          pollHandle,   \* gPollingThreadHandle is not NULL
          stored,       \* the handle of a polling thread has been stored
          polled,       \* producers a PollKafkaThread serves
          destroyed,    \* producers destroyed
          exitEarly,    \* an exit has passed its wait before a handle was stored
          ended,        \* the process has ended
          failures      \* failures so far

workerVars == <<workerPc, hand, target>>
kafkaVars == <<outq, acked, produced>>
pollVars == <<pollHandle, stored, polled>>
mainVars == <<mainPc, setups, destroyed, exitEarly>>
vars == <<mainVars, workerVars, kafkaVars, pollVars, taken, dropped, ended, failures>>

Producers == 1..MaxSetups       \* worker n belongs to producer n
Packets == 1..MaxPackets

Fails == failures < MaxFailures /\ failures' = failures + 1

Go(w, pc) == workerPc' = [workerPc EXCEPT ![w] = pc]

-----------------------------------------------------------------------------
Init ==
  /\ mainPc = "input"
  /\ setups = 0
  /\ workerPc = [w \in Producers |-> "none"]
  /\ hand = [w \in Producers |-> 0]
  /\ target = [w \in Producers |-> 0]
  /\ taken = 0
  /\ outq = [p \in Producers |-> {}]
  /\ acked = {}
  /\ produced = <<>>
  /\ dropped = {}
  /\ pollHandle = FALSE
  /\ stored = FALSE
  /\ polled = {}
  /\ destroyed = {}
  /\ exitEarly = FALSE
  /\ ended = FALSE
  /\ failures = 0

\* The use of a destroyed producer takes the process down.
AccessViolation ==
  /\ ended' = TRUE
  /\ UNCHANGED <<mainVars, workerVars, kafkaVars, pollVars, taken, dropped, failures>>

\* rd_kafka_poll runs the callbacks of the messages decided so far.
RdKafkaPoll(p) ==
  /\ outq' = [outq EXCEPT ![p] = @ \ acked]
  /\ acked' = acked \ outq[p]
  /\ UNCHANGED produced

-----------------------------------------------------------------------------
(* The command loop. *)

\* "setup": KafkaInit replaces the producer.  When it fails the command is
\* over and nothing has changed.
KafkaInit ==
  /\ mainPc = "input"
  /\ setups < MaxSetups
  /\ setups' = setups + 1
  /\ mainPc' = "driver"
  /\ UNCHANGED <<destroyed, exitEarly, workerVars, kafkaVars, pollVars,
                 taken, dropped, ended, failures>>

\* The SETUP request is sent and answered, and the worker thread created.
CreateWorker ==
  /\ mainPc = "driver"
  /\ Go(setups, "get")
  /\ mainPc' = "input"
  /\ UNCHANGED <<setups, destroyed, exitEarly, hand, target, kafkaVars, pollVars,
                 taken, dropped, ended, failures>>

\* The driver cannot be called, or the thread cannot be created: the command
\* is over and the new producer stays.
SetupFails ==
  /\ mainPc = "driver"
  /\ Fails
  /\ mainPc' = "input"
  /\ UNCHANGED <<setups, destroyed, exitEarly, workerVars, kafkaVars, pollVars,
                 taken, dropped, ended>>

CommandSetupPt == KafkaInit \/ CreateWorker \/ SetupFails

\* "exit": CommandExit enters KafkaUninit with the newest producer.
CommandExit ==
  /\ mainPc = "input"
  /\ mainPc' = "exit"
  /\ UNCHANGED <<setups, destroyed, exitEarly, workerVars, kafkaVars, pollVars,
                 taken, dropped, ended, failures>>

\* Faulty variant: gRun is cleared, so the polling thread ends and the wait
\* returns.
StopKafkaPollingAndRun ==
  /\ mainPc = "exit"
  /\ polled' = {}
  /\ exitEarly' = (exitEarly \/ ~stored)
  /\ mainPc' = "flush"
  /\ UNCHANGED <<setups, destroyed, workerVars, kafkaVars, pollHandle, stored,
                 taken, dropped, ended, failures>>

\* The wait for a NULL handle fails at once, and the one for the polling
\* thread never returns: that thread runs while gRun is set, and nothing
\* clears gRun.
StopKafkaPolling ==
  /\ mainPc = "exit"
  /\ exitEarly' = (exitEarly \/ ~stored)
  /\ mainPc' = IF pollHandle THEN "waiting" ELSE "flush"
  /\ UNCHANGED <<setups, destroyed, workerVars, kafkaVars, pollVars,
                 taken, dropped, ended, failures>>

\* rd_kafka_flush polls; it dereferences the producer.
FlushPoll ==
  /\ mainPc = "flush"
  /\ setups \notin destroyed \cup {0}
  /\ outq[setups] \cap acked # {}
  /\ RdKafkaPoll(setups)
  /\ UNCHANGED <<mainVars, workerVars, pollVars, taken, dropped, ended, failures>>

FlushFaults ==
  /\ mainPc = "flush"
  /\ setups \in destroyed \cup {0}
  /\ AccessViolation

\* The flush is over, with everything reported or after ten seconds, and
\* the producer is destroyed with what it still holds.  The command returns
\* to the command loop, which goes on.
RdKafkaDestroy ==
  /\ mainPc = "flush"
  /\ setups # 0
  /\ destroyed' = destroyed \cup {setups}
  /\ acked' = acked \ outq[setups]
  /\ outq' = [outq EXCEPT ![setups] = {}]
  /\ mainPc' = "input"
  /\ UNCHANGED <<setups, exitEarly, workerVars, produced, pollVars,
                 taken, dropped, ended, failures>>

KafkaUninit == StopKafkaPolling \/ FlushPoll \/ FlushFaults \/ RdKafkaDestroy

\* The loop of main: one command after the other.
InputCommand == CommandSetupPt \/ CommandExit \/ KafkaUninit

-----------------------------------------------------------------------------
(* ThreadProc. *)

\* GET_BUFFER is answered with the next packet; the request blocks while
\* there is none.  A request that fails is repeated.
CommandGetBuffer(w) ==
  /\ workerPc[w] = "get"
  /\ taken < MaxPackets
  /\ taken' = taken + 1
  /\ hand' = [hand EXCEPT ![w] = taken + 1]
  /\ Go(w, "build")
  /\ UNCHANGED <<mainVars, target, kafkaVars, pollVars, dropped, ended, failures>>

\* No memory for the Kafka packet: the thread returns, and the packet is gone.
AllocationFails(w) ==
  /\ workerPc[w] = "build"
  /\ Fails
  /\ dropped' = dropped \cup {hand[w]}
  /\ hand' = [hand EXCEPT ![w] = 0]
  /\ Go(w, "ended")
  /\ UNCHANGED <<mainVars, target, taken, kafkaVars, pollVars, ended>>

\* The Kafka packet is built and KafkaSendMessage called with the producer
\* that KafkaHandler holds; it looks at gPollingThreadHandle.
KafkaSendMessage(w) ==
  /\ workerPc[w] = "build"
  /\ target' = [target EXCEPT ![w] = setups]
  /\ Go(w, IF pollHandle THEN "produce" ELSE "start")
  /\ UNCHANGED <<mainVars, hand, taken, kafkaVars, pollVars, dropped, ended, failures>>

\* StartKafkaPolling looks at the handle again.
StartKafkaPolling(w) ==
  /\ workerPc[w] = "start"
  /\ Go(w, IF pollHandle THEN "produce" ELSE "create")
  /\ UNCHANGED <<mainVars, hand, target, taken, kafkaVars, pollVars, dropped, ended, failures>>

\* CreateThread starts the thread, which polls before its handle is stored.
\* Two workers may both have found no handle: then both create a thread.
CreatePollingThread(w) ==
  /\ workerPc[w] = "create"
  /\ polled' = polled \cup {target[w]}
  /\ Go(w, "store")
  /\ UNCHANGED <<mainVars, hand, target, taken, kafkaVars, pollHandle, stored,
                 dropped, ended, failures>>

StoreHandle(w) ==
  /\ workerPc[w] = "store"
  /\ pollHandle' = TRUE /\ stored' = TRUE
  /\ Go(w, "produce")
  /\ UNCHANGED <<mainVars, hand, target, taken, kafkaVars, polled, dropped, ended, failures>>

\* CreateThread fails: its NULL is stored, over the handle of another worker's
\* thread if there is one, and the message is sent all the same.
CreatePollingFails(w) ==
  /\ workerPc[w] = "create"
  /\ Fails
  /\ pollHandle' = FALSE
  /\ Go(w, "produce")
  /\ UNCHANGED <<mainVars, hand, target, stored, polled, taken, kafkaVars, dropped, ended>>

Usable(w) == target[w] \notin destroyed

Full(p) == Cardinality(outq[p]) >= QueueMax

Accept(w) ==
  /\ outq' = [outq EXCEPT ![target[w]] = @ \cup {hand[w]}]
  /\ produced' = Append(produced, hand[w])
  /\ UNCHANGED acked

\* Faulty variant: the retry is taken after a success as well.
ProduceAndRetry(w) ==
  /\ workerPc[w] = "produce"
  /\ Usable(w)
  /\ ~Full(target[w])
  /\ Accept(w)
  /\ \/ Go(w, "full")
     \/ Go(w, "free")
  /\ UNCHANGED <<mainVars, hand, target, taken, pollVars, dropped, ended, failures>>

\* rd_kafka_producev takes a copy of the packet.
Produce(w) ==
  /\ workerPc[w] = "produce"
  /\ Usable(w)
  /\ ~Full(target[w])
  /\ Accept(w)
  /\ Go(w, "free")
  /\ UNCHANGED <<mainVars, hand, target, taken, pollVars, dropped, ended, failures>>

\* Faulty variant: a full queue is an error like the others.
GiveUpWhenFull(w) ==
  /\ workerPc[w] = "produce"
  /\ Usable(w)
  /\ Full(target[w])
  /\ dropped' = dropped \cup {hand[w]}
  /\ Go(w, "free")
  /\ UNCHANGED <<mainVars, hand, target, taken, kafkaVars, pollVars, ended, failures>>

QueueFull(w) ==
  /\ workerPc[w] = "produce"
  /\ Usable(w)
  /\ Full(target[w])
  /\ Go(w, "full")
  /\ UNCHANGED <<mainVars, hand, target, taken, kafkaVars, pollVars, dropped, ended, failures>>

\* Any other error is printed, and KafkaSendMessage reports success.
ProduceFails(w) ==
  /\ workerPc[w] = "produce"
  /\ \/ Fails
     \/ ~Usable(w) /\ UNCHANGED failures
  /\ dropped' = dropped \cup {hand[w]}
  /\ Go(w, "free")
  /\ UNCHANGED <<mainVars, hand, target, taken, kafkaVars, pollVars, ended>>

ProduceFaults(w) ==
  /\ workerPc[w] = "produce"
  /\ ~Usable(w)
  /\ AccessViolation

\* Faulty variant: the retry does not poll.
RetryAtOnce(w) ==
  /\ workerPc[w] = "full"
  /\ Go(w, "produce")
  /\ UNCHANGED <<mainVars, hand, target, taken, kafkaVars, pollVars, dropped, ended, failures>>

\* The full queue is polled before the retry.
RetryPoll(w) ==
  /\ workerPc[w] = "full"
  /\ RdKafkaPoll(target[w])
  /\ Go(w, "produce")
  /\ UNCHANGED <<mainVars, hand, target, taken, pollVars, dropped, ended, failures>>

\* Faulty variant: the worker still refers to the packet.
FreeAndKeepPacket(w) ==
  /\ workerPc[w] = "free"
  /\ Go(w, "get")
  /\ UNCHANGED <<mainVars, hand, target, taken, kafkaVars, pollVars, dropped, ended, failures>>

\* FREE_BUFFER; its status is ignored and the thread takes the next packet.
CommandFreeBuffer(w) ==
  /\ workerPc[w] = "free"
  /\ hand' = [hand EXCEPT ![w] = 0]
  /\ Go(w, "get")
  /\ UNCHANGED <<mainVars, target, taken, kafkaVars, pollVars, dropped, ended, failures>>

ThreadProc(w) ==
  \/ CommandGetBuffer(w) \/ AllocationFails(w)
  \/ KafkaSendMessage(w)
  \/ StartKafkaPolling(w) \/ CreatePollingThread(w) \/ StoreHandle(w) \/ CreatePollingFails(w)
  \/ Produce(w) \/ QueueFull(w) \/ ProduceFails(w) \/ ProduceFaults(w) \/ RetryPoll(w)
  \/ CommandFreeBuffer(w)

-----------------------------------------------------------------------------
(* The polling thread and the threads of librdkafka. *)

\* Faulty variant: the loop of the thread ends after its first poll.
PollOnce(p) ==
  /\ p \in polled
  /\ polled' = polled \ {p}
  /\ RdKafkaPoll(p)
  /\ UNCHANGED <<mainVars, workerVars, pollHandle, stored, taken, dropped, ended, failures>>

PollKafkaThread(p) ==
  /\ p \in polled
  /\ outq[p] \cap acked # {}
  /\ RdKafkaPoll(p)
  /\ UNCHANGED <<mainVars, workerVars, pollVars, taken, dropped, ended, failures>>

PollFaults(p) ==
  /\ p \in polled \cap destroyed
  /\ AccessViolation

\* A broker acknowledges the message, or it times out.
Acknowledge(p) ==
  \E k \in outq[p] \ acked :
    /\ acked' = acked \cup {k}
    /\ UNCHANGED <<mainVars, workerVars, outq, produced, pollVars, taken, dropped,
                   ended, failures>>

-----------------------------------------------------------------------------
Next ==
  /\ ~ended
  /\ \/ InputCommand
     \/ \E w \in Producers : ThreadProc(w)
     \/ \E p \in Producers : PollKafkaThread(p) \/ PollFaults(p) \/ Acknowledge(p)

Spec == Init /\ [][Next]_vars

\* Threads that can run do run; the user may never type a command.
Fairness ==
  /\ WF_vars(~ended /\ (CreateWorker \/ SetupFails))
  /\ WF_vars(~ended /\ (StopKafkaPolling \/ FlushFaults \/ RdKafkaDestroy))
  /\ \A w \in Producers : WF_vars(~ended /\ ThreadProc(w))
  /\ \A p \in Producers : /\ WF_vars(~ended /\ PollKafkaThread(p))
                         /\ WF_vars(~ended /\ Acknowledge(p))

FairSpec == Spec /\ Fairness

-----------------------------------------------------------------------------
(* Properties. *)

MainPcs == {"input", "driver", "exit", "waiting", "flush"}

WorkerPcs == {"none", "get", "build", "start", "create", "store", "produce", "full", "free", "ended"}

\* The application is well typed, and a worker has a packet exactly between
\* GET_BUFFER and FREE_BUFFER.
TypeOK ==
  /\ mainPc \in MainPcs
  /\ setups \in 0..MaxSetups
  /\ workerPc \in [Producers -> WorkerPcs]
  /\ hand \in [Producers -> 0..MaxPackets]
  /\ target \in [Producers -> 0..MaxSetups]
  /\ taken \in 0..MaxPackets
  /\ outq \in [Producers -> SUBSET Packets]
  /\ acked \subseteq UNION {outq[p] : p \in Producers}
  /\ produced \in Seq(Packets)
  /\ dropped \subseteq Packets
  /\ polled \subseteq Producers /\ destroyed \subseteq Producers
  /\ {pollHandle, stored, exitEarly, ended} \subseteq BOOLEAN
  /\ failures \in 0..MaxFailures
  /\ \A w \in Producers : (hand[w] = 0) <=> (workerPc[w] \in {"none", "get", "ended"})

Started == {w \in Producers : workerPc[w] # "none"}

\* No packet is produced twice, whatever retries, failures and exits come in
\* between, and a single worker produces the packets in the order of the
\* driver (two workers need not: ThreadProc).
ProducedOnceInOrder ==
  \A i, j \in 1..Len(produced) :
    i < j => /\ produced[i] # produced[j]
             /\ Cardinality(Started) = 1 => produced[i] < produced[j]

\* A full queue alone loses no packet: every packet the driver has handed out
\* is with a worker or was accepted by a producer, unless an allocation or a
\* message failed or a producer was destroyed (KafkaSendMessage, retry).
LossNeedsFailure ==
  (failures = 0 /\ destroyed = {}) =>
    \A k \in 1..taken : \/ \E w \in Producers : hand[w] = k
                       \/ \E i \in 1..Len(produced) : produced[i] = k

TwoWorkers == \E v, w \in Started : v # w

\* A worker or a polling thread works on a destroyed producer in two cases
\* only.  Either an exit passed the wait of StopKafkaPolling before the handle
\* of any polling thread was stored (the thread itself may have been running),
\* or of two workers that both found no handle one failed to create its thread
\* and stored NULL over the handle of the other (StartKafkaPolling), so that a
\* later exit did not wait either.
DestroyedInUseNeedsCause ==
  (\/ polled \cap destroyed # {}
   \/ \E w \in Producers :
        /\ workerPc[w] \in {"start", "create", "store", "produce", "full"}
        /\ target[w] \in destroyed)
    => exitEarly \/ (failures > 0 /\ TwoWorkers)

\* A lone worker that meets a full queue gets through: the retry polls the
\* queue itself, also when no polling thread could be created.
FullQueuePasses ==
  \A w \in Producers :
    (workerPc[w] = "full") ~> (workerPc[w] = "free" \/ Started # {w} \/ ended)

\* A message accepted by a producer that is being polled is reported.  (The
\* producer of a second setup is not polled: gPollingThreadHandle is taken.)
PolledIsReported ==
  \A p \in Producers : \A k \in Packets :
    (k \in outq[p] /\ p \in polled) ~> (k \notin outq[p] \/ ended)

\* The exit command "exits the application" (UserInterface.c).
ExitExits == (mainPc = "exit") ~> ended
=============================================================================
