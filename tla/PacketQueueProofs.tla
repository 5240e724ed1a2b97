------------------------- MODULE PacketQueueProofs -------------------------
(***************************************************************************)
(* Proofs about PacketQueue for every number of packets, producers and     *)
(* requests: the type invariant, that no packet descriptor is ever in two  *)
(* places, and that the queue implements the FIFO channel PacketChannel.   *)
(***************************************************************************)
EXTENDS PacketQueue, TLAPS

\* What removing the head of a sequence leaves (ExInterlockedRemoveHeadList).
LEMMA TailElements ==
  ASSUME NEW S, NEW s \in Seq(S), s # <<>>
  PROVE  /\ Head(s) \in S
         /\ Tail(s) \in Seq(S)
         /\ Len(Tail(s)) = Len(s) - 1
         /\ Head(s) = s[1]
         /\ 1 \in 1..Len(s)
         /\ \A i \in 1..Len(Tail(s)) : i + 1 \in 1..Len(s) /\ Tail(s)[i] = s[i + 1]
  OBVIOUS

\* What inserting at the tail adds (ExInterlockedInsertTailList).
LEMMA AppendElements ==
  ASSUME NEW S, NEW s \in Seq(S), NEW k \in S
  PROVE  /\ Append(s, k) \in Seq(S)
         /\ Len(Append(s, k)) = Len(s) + 1
         /\ \A i \in 1..Len(Append(s, k)) :
              Append(s, k)[i] = IF i = Len(s) + 1 THEN k ELSE s[i]
         /\ \A i \in 1..Len(Append(s, k)) : i # Len(s) + 1 => i \in 1..Len(s)
  OBVIOUS

-----------------------------------------------------------------------------
\* Every state the queue, its event and its requests reach has the declared
\* types, and a request holds a packet exactly while it copies it.
THEOREM TypeCorrect == Spec => []TypeOK
<1>1. Init => TypeOK
  <2>1. <<>> \in Seq(Packets)
    OBVIOUS
  <2>2. ASSUME Init PROVE /\ pagesAvailable \in BOOLEAN
                          /\ producerPc \in [Producers -> {"idle", "signal"}]
                          /\ requestPc \in [Requests -> {"idle"}]
                          /\ dto \in [Requests -> {None}]
    BY <2>2 DEF Init
  <2> QED BY <2>1, <2>2 DEF Init, TypeOK
<1>2. TypeOK /\ [Next]_vars => TypeOK'
  <2> SUFFICES ASSUME TypeOK, [Next]_vars PROVE TypeOK'
    OBVIOUS
  <2> USE PacketQueueAssumption DEF TypeOK
  <2>1. ASSUME NEW p \in Producers, NEW k \in Packets, DuEnqueueElement(p, k)
        PROVE  TypeOK'
    <3>1. queue' \in Seq(Packets)
      BY <2>1, AppendElements DEF DuEnqueueElement
    <3> QED BY <2>1, <3>1 DEF DuEnqueueElement
  <2>2. ASSUME NEW p \in Producers, KeSetEvent(p) PROVE TypeOK'
    BY <2>2 DEF KeSetEvent
  <2>3. ASSUME NEW r \in Requests, GetBuffer(r) PROVE TypeOK'
    BY <2>3 DEF GetBuffer
  <2>4. ASSUME NEW r \in Requests, DequeuePacket(r) PROVE TypeOK'
    <3>1. queue' \in Seq(Packets) /\ Head(queue) \in Packets
      BY <2>4, TailElements DEF DequeuePacket
    <3> QED BY <2>4, <3>1 DEF DequeuePacket
  <2>5. ASSUME NEW r \in Requests, DequeueNothing(r) PROVE TypeOK'
    BY <2>5 DEF DequeueNothing
  <2>6. ASSUME NEW r \in Requests, KeResetEvent(r) PROVE TypeOK'
    BY <2>6 DEF KeResetEvent
  <2>7. ASSUME NEW r \in Requests, KeWaitForSingleObject(r) PROVE TypeOK'
    BY <2>7 DEF KeWaitForSingleObject
  <2>8. ASSUME NEW r \in Requests, CompleteRequest(r) PROVE TypeOK'
    BY <2>8 DEF CompleteRequest
  <2>9. CASE UNCHANGED vars
    BY <2>9 DEF vars
  <2> QED BY <2>1, <2>2, <2>3, <2>4, <2>5, <2>6, <2>7, <2>8, <2>9
          DEF Next, Produce, PtwCommandGetBuffer
<1> QED BY <1>1, <1>2, PTL DEF Spec

-----------------------------------------------------------------------------
\* A step that leaves the list and the requests' packets alone keeps OnePlace.
LEMMA OnePlaceUntouched ==
  ASSUME OnePlace, UNCHANGED <<queue, dto>> PROVE OnePlace'
  BY DEF OnePlace

\* No packet descriptor is ever in two places (a second hand-off of one
\* would be freed twice by PtwCommandGetBuffer).
THEOREM NeverInTwoPlaces == Spec => []OnePlace
<1>1. Init => OnePlace
  BY DEF Init, OnePlace
<1>2. TypeOK /\ OnePlace /\ [Next]_vars => OnePlace'
  <2> SUFFICES ASSUME TypeOK, OnePlace, [Next]_vars PROVE OnePlace'
    OBVIOUS
  <2>1. ASSUME NEW p \in Producers, NEW k \in Packets, DuEnqueueElement(p, k)
        PROVE  OnePlace'
    <3>1. /\ queue' = Append(queue, k)
          /\ dto' = dto
          /\ \A i \in 1..Len(queue) : queue[i] # k
          /\ \A r \in Requests : dto[r] # k
      BY <2>1 DEF DuEnqueueElement, Queued, Held
    <3>2. /\ Len(queue') = Len(queue) + 1
          /\ \A i \in 1..Len(queue') : queue'[i] = IF i = Len(queue) + 1 THEN k ELSE queue[i]
          /\ \A i \in 1..Len(queue') : i # Len(queue) + 1 => i \in 1..Len(queue)
      BY <3>1, AppendElements DEF TypeOK
    <3> QED BY <3>1, <3>2 DEF OnePlace
  <2>2. ASSUME NEW r \in Requests, DequeuePacket(r) PROVE OnePlace'
    <3>1. /\ queue # <<>> /\ queue \in Seq(Packets)
          /\ queue' = Tail(queue)
          /\ dto' = [dto EXCEPT ![r] = Head(queue)]
          /\ dto \in [Requests -> Packets \cup {None}]
      BY <2>2 DEF DequeuePacket, TypeOK
    <3>2. /\ Head(queue) = queue[1] /\ 1 \in 1..Len(queue)
          /\ \A i \in 1..Len(queue') : i + 1 \in 1..Len(queue) /\ queue'[i] = queue[i + 1]
      BY <3>1, TailElements
    <3>3. \A i, j \in 1..Len(queue') : queue'[i] = queue'[j] => i = j
      <4> TAKE i \in 1..Len(queue'), j \in 1..Len(queue')
      <4> HAVE queue'[i] = queue'[j]
      <4>1. i + 1 = j + 1
        BY <3>2 DEF OnePlace
      <4> QED BY <4>1
    <3>4. \A i \in 1..Len(queue') : queue'[i] # queue[1]
      <4> TAKE i \in 1..Len(queue')
      <4>1. i + 1 # 1
        OBVIOUS
      <4> QED BY <3>2, <4>1 DEF OnePlace
    <3>5. \A i \in 1..Len(queue'), s \in Requests : queue'[i] # dto'[s]
      BY <3>1, <3>2, <3>4 DEF OnePlace
    <3>6. \A s, t \in Requests : dto'[s] = dto'[t] => s = t \/ dto'[s] = None
      BY <3>1, <3>2 DEF OnePlace
    <3> QED BY <3>3, <3>5, <3>6 DEF OnePlace
  <2>3. ASSUME NEW r \in Requests, CompleteRequest(r) PROVE OnePlace'
    <3>1. \A i \in 1..Len(queue) : queue[i] # None
      BY PacketQueueAssumption DEF TypeOK
    <3> QED BY <2>3, <3>1 DEF CompleteRequest, OnePlace, TypeOK
  <2>4. ASSUME NEW p \in Producers, KeSetEvent(p) PROVE OnePlace'
    BY <2>4, OnePlaceUntouched DEF KeSetEvent
  <2>5. ASSUME NEW r \in Requests, \/ GetBuffer(r) \/ DequeueNothing(r)
                                   \/ KeResetEvent(r) \/ KeWaitForSingleObject(r)
        PROVE  OnePlace'
    BY <2>5, OnePlaceUntouched
       DEF GetBuffer, DequeueNothing, KeResetEvent, KeWaitForSingleObject
  <2>6. CASE UNCHANGED vars
    BY <2>6, OnePlaceUntouched DEF vars
  <2> QED BY <2>1, <2>2, <2>3, <2>4, <2>5, <2>6 DEF Next, Produce, PtwCommandGetBuffer
<1> QED BY <1>1, <1>2, TypeCorrect, PTL DEF Spec

-----------------------------------------------------------------------------
\* The queue with its event and its requests implements the FIFO hand-off:
\* an enqueue is a send, a dequeue that finds a packet a receive, the
\* completion of a request a consume, and every other step a stutter.
THEOREM QueueImplementsChannel == Spec => ImplementsChannel
<1>1. Init => Channel!Init
  BY DEF Init, Channel!Init
<1>2. TypeOK /\ [Next]_vars => [Channel!Next]_(Channel!vars)
  <2> SUFFICES ASSUME TypeOK, [Next]_vars PROVE [Channel!Next]_(Channel!vars)
    OBVIOUS
  <2> USE DEF Channel!Next, Channel!vars
  <2>1. ASSUME NEW p \in Producers, NEW k \in Packets, DuEnqueueElement(p, k)
        PROVE  Channel!Send(k)
    BY <2>1 DEF DuEnqueueElement, Queued, Held, Channel!Send, Channel!InChannel, Channel!Held
  <2>2. ASSUME NEW r \in Requests, DequeuePacket(r) PROVE Channel!Receive(r)
    BY <2>2 DEF DequeuePacket, Channel!Receive, TypeOK
  <2>3. ASSUME NEW r \in Requests, CompleteRequest(r) PROVE Channel!Consume(r)
    BY <2>3 DEF CompleteRequest, Channel!Consume, TypeOK
  <2>4. ASSUME NEW p \in Producers, KeSetEvent(p) PROVE UNCHANGED Channel!vars
    BY <2>4 DEF KeSetEvent
  <2>5. ASSUME NEW r \in Requests, \/ GetBuffer(r) \/ DequeueNothing(r)
                                   \/ KeResetEvent(r) \/ KeWaitForSingleObject(r)
        PROVE  UNCHANGED Channel!vars
    BY <2>5 DEF GetBuffer, DequeueNothing, KeResetEvent, KeWaitForSingleObject
  <2>6. CASE UNCHANGED vars
    BY <2>6 DEF vars
  <2> QED BY <2>1, <2>2, <2>3, <2>4, <2>5, <2>6 DEF Next, Produce, PtwCommandGetBuffer
<1> QED BY <1>1, <1>2, TypeCorrect, PTL DEF Spec, ImplementsChannel, Channel!Spec
=============================================================================
