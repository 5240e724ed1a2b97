---------------------------- MODULE PacketQueue ----------------------------
(***************************************************************************)
(* The packet queue gQueueHead, the notification event                     *)
(* gPagesAvailableEvent and the GET_BUFFER requests that drain it.         *)
(*                                                                         *)
(* Producers are of two kinds.  The DPC routines IptDpc and                *)
(* PtwDpcPerCoreDisable enqueue and then signal the event; the image-load  *)
(* hook enqueues the FIRST packet and signals nothing.  A request          *)
(* dequeues; when the queue is empty it resets the event, waits for it and *)
(* dequeues again.  The event is a NotificationEvent: signalling it        *)
(* releases every waiter and leaves it signalled.  One action is one       *)
(* atomic call: the list operations hold the spin lock of the queue.       *)
(***************************************************************************)
EXTENDS Naturals, Sequences

CONSTANTS Packets,      \* packet descriptors, reused once freed
          Dpcs,         \* producers that signal after an enqueue
          Hooks,        \* producers that do not
          Requests,     \* concurrent GET_BUFFER requests
          None          \* "no packet"

ASSUME PacketQueueAssumption ==
  /\ None \notin Packets
  /\ Dpcs \cap Hooks = {}

VARIABLES queue,            \* gQueueHead, oldest first
          pagesAvailable,   \* gPagesAvailableEvent is signalled
          producerPc,       \* where each producer is
          requestPc,        \* where each request is in PtwCommandGetBuffer
          dto               \* packet a request has dequeued, or None

vars == <<queue, pagesAvailable, producerPc, requestPc, dto>>

Producers == Dpcs \cup Hooks

Queued(k) == \E i \in 1..Len(queue) : queue[i] = k

Held(k) == \E r \in Requests : dto[r] = k

-----------------------------------------------------------------------------
Init ==
  /\ queue = <<>>
  /\ pagesAvailable = FALSE
  /\ producerPc = [p \in Producers |-> "idle"]
  /\ requestPc = [r \in Requests |-> "idle"]
  /\ dto = [r \in Requests |-> None]

\* Faulty variant: the element is inserted at the head of the list.
EnqueueAtHead(p, k) ==
  /\ producerPc[p] = "idle"
  /\ ~Queued(k) /\ ~Held(k)
  /\ queue' = <<k>> \o queue
  /\ producerPc' = [producerPc EXCEPT ![p] = IF p \in Dpcs THEN "signal" ELSE "idle"]
  /\ UNCHANGED <<pagesAvailable, requestPc, dto>>

\* DuEnqueueElement with its list element allocated.  When the allocation
\* fails the call changes nothing and the producer does not signal: that is
\* a stuttering step here.
DuEnqueueElement(p, k) ==
  /\ producerPc[p] = "idle"
  /\ ~Queued(k) /\ ~Held(k)
  /\ queue' = Append(queue, k)
  /\ producerPc' = [producerPc EXCEPT ![p] = IF p \in Dpcs THEN "signal" ELSE "idle"]
  /\ UNCHANGED <<pagesAvailable, requestPc, dto>>

\* KeSetEvent: every request blocked on the event becomes runnable.
KeSetEvent(p) ==
  /\ producerPc[p] = "signal"
  /\ pagesAvailable' = TRUE
  /\ requestPc' = [r \in Requests |->
                     IF requestPc[r] = "waiting" THEN "dequeue" ELSE requestPc[r]]
  /\ producerPc' = [producerPc EXCEPT ![p] = "idle"]
  /\ UNCHANGED <<queue, dto>>

\* A GET_BUFFER request enters PtwCommandGetBuffer.
GetBuffer(r) ==
  /\ requestPc[r] = "idle"
  /\ requestPc' = [requestPc EXCEPT ![r] = "dequeue"]
  /\ UNCHANGED <<queue, pagesAvailable, producerPc, dto>>

\* Faulty variant: the element is read but not removed from the list.
DequeueByPeek(r) ==
  /\ requestPc[r] = "dequeue"
  /\ queue # <<>>
  /\ dto' = [dto EXCEPT ![r] = Head(queue)]
  /\ requestPc' = [requestPc EXCEPT ![r] = "copy"]
  /\ UNCHANGED <<queue, pagesAvailable, producerPc>>

\* Faulty variant: the newest element is removed.
DequeueNewest(r) ==
  /\ requestPc[r] = "dequeue"
  /\ queue # <<>>
  /\ dto' = [dto EXCEPT ![r] = queue[Len(queue)]]
  /\ queue' = SubSeq(queue, 1, Len(queue) - 1)
  /\ requestPc' = [requestPc EXCEPT ![r] = "copy"]
  /\ UNCHANGED <<pagesAvailable, producerPc>>

\* DuDequeueElement finds a packet.
DequeuePacket(r) ==
  /\ requestPc[r] = "dequeue"
  /\ queue # <<>>
  /\ dto' = [dto EXCEPT ![r] = Head(queue)]
  /\ queue' = Tail(queue)
  /\ requestPc' = [requestPc EXCEPT ![r] = "copy"]
  /\ UNCHANGED <<pagesAvailable, producerPc>>

\* DuDequeueElement returns STATUS_NO_MORE_ENTRIES.
DequeueNothing(r) ==
  /\ requestPc[r] = "dequeue"
  /\ queue = <<>>
  /\ requestPc' = [requestPc EXCEPT ![r] = "reset"]
  /\ UNCHANGED <<queue, pagesAvailable, producerPc, dto>>

KeResetEvent(r) ==
  /\ requestPc[r] = "reset"
  /\ pagesAvailable' = FALSE
  /\ requestPc' = [requestPc EXCEPT ![r] = "wait"]
  /\ UNCHANGED <<queue, producerPc, dto>>

\* KeWaitForSingleObject returns at once when the event is signalled and
\* blocks the request otherwise.
KeWaitForSingleObject(r) ==
  /\ requestPc[r] = "wait"
  /\ requestPc' = [requestPc EXCEPT ![r] =
                     IF pagesAvailable THEN "dequeue" ELSE "waiting"]
  /\ UNCHANGED <<queue, pagesAvailable, producerPc, dto>>

\* Faulty variant: the freed descriptor is still referenced.
CompleteAndKeepDto(r) ==
  /\ requestPc[r] = "copy"
  /\ requestPc' = [requestPc EXCEPT ![r] = "idle"]
  /\ UNCHANGED <<queue, pagesAvailable, producerPc, dto>>

\* The descriptor is copied to the output buffer, its pages are mapped for
\* the caller, the descriptor is freed and the request completes.
CompleteRequest(r) ==
  /\ requestPc[r] = "copy"
  /\ dto' = [dto EXCEPT ![r] = None]
  /\ requestPc' = [requestPc EXCEPT ![r] = "idle"]
  /\ UNCHANGED <<queue, pagesAvailable, producerPc>>

Produce(p) ==
  \/ \E k \in Packets : DuEnqueueElement(p, k)
  \/ KeSetEvent(p)

PtwCommandGetBuffer(r) ==
  \/ GetBuffer(r)
  \/ DequeuePacket(r)
  \/ DequeueNothing(r)
  \/ KeResetEvent(r)
  \/ KeWaitForSingleObject(r)
  \/ CompleteRequest(r)

Next ==
  \/ \E p \in Producers : Produce(p)
  \/ \E r \in Requests : PtwCommandGetBuffer(r)

Spec == Init /\ [][Next]_vars

\* A DPC that has enqueued goes on to signal, and the threads of the user
\* mode application issue the next GET_BUFFER as soon as one returns
\* (ThreadProc loops on the request).  Enqueueing itself is not fair.
Fairness ==
  /\ \A p \in Dpcs : WF_vars(KeSetEvent(p))
  /\ \A r \in Requests : WF_vars(PtwCommandGetBuffer(r))

FairSpec == Spec /\ Fairness

-----------------------------------------------------------------------------
\* Type invariant; a request holds a packet exactly while it copies it
\* (PtwCommandGetBuffer between the dequeue and the ExFreePoolWithTag).
TypeOK ==
  /\ queue \in Seq(Packets)
  /\ pagesAvailable \in BOOLEAN
  /\ producerPc \in [Producers -> {"idle", "signal"}]
  /\ requestPc \in [Requests -> {"idle", "dequeue", "reset", "wait", "waiting", "copy"}]
  /\ dto \in [Requests -> Packets \cup {None}]
  /\ \A r \in Requests : requestPc[r] = "copy" <=> dto[r] # None

\* No descriptor is in two places: it stands once in the queue, or one
\* request holds it and frees it.  A double hand-off would be a double free of
\* the descriptor by two racing PtwCommandGetBuffer calls.
OnePlace ==
  /\ \A i, j \in 1..Len(queue) : queue[i] = queue[j] => i = j
  /\ \A i \in 1..Len(queue), r \in Requests : queue[i] # dto[r]
  /\ \A r, s \in Requests : dto[r] = dto[s] => r = s \/ dto[r] = None

\* The queue and its requests implement the FIFO hand-off: the list under
\* its spin lock never reorders, drops or duplicates a packet, whatever the
\* event does.
Channel == INSTANCE PacketChannel WITH channel <- queue, received <- dto

ImplementsChannel == Channel!Spec

\* As long as DPCs keep signalling, no packet stays in the queue: a wake-up
\* that a reset swallowed (dequeue finds nothing, a packet arrives and the
\* event is set, the request resets it and waits) is made up for by the next
\* one, and the unsignalled FIRST packet leaves with it.
SignalledPacketsLeave ==
  ([]<>(\E p \in Dpcs : producerPc[p] = "signal"))
    => \A k \in Packets : Queued(k) ~> ~Queued(k)
=============================================================================
