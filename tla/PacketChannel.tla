--------------------------- MODULE PacketChannel ---------------------------
(***************************************************************************)
(* What the packet queue between the tracing callbacks and the GET_BUFFER  *)
(* requests promises: an unbounded FIFO hand-off.  Every packet a producer *)
(* sends is received by at most one request, in the order of the sends.    *)
(* DuEnqueueElement and DuDequeueElement (DriverUtils.c) are the two ends; *)
(* PacketQueue is shown to implement this module.                          *)
(***************************************************************************)
EXTENDS Naturals, Sequences

CONSTANTS Packets,      \* packet descriptors (COMM_BUFFER_ADDRESS)
          Requests,     \* GET_BUFFER requests that may be served at once
          None          \* "no packet", not a packet

VARIABLES channel,      \* packets sent and not yet received, oldest first
          received      \* packet each request holds, or None

vars == <<channel, received>>

Held == {received[r] : r \in Requests}

InChannel(k) == \E i \in 1..Len(channel) : channel[i] = k

Init ==
  /\ channel = <<>>
  /\ received = [r \in Requests |-> None]

\* A packet that is nowhere else enters at the tail.
Send(k) ==
  /\ ~InChannel(k)
  /\ k \notin Held
  /\ channel' = Append(channel, k)
  /\ UNCHANGED received

\* A request takes the oldest packet.
Receive(r) ==
  /\ channel # <<>>
  /\ received[r] = None
  /\ received' = [received EXCEPT ![r] = Head(channel)]
  /\ channel' = Tail(channel)

\* The packet is copied out and its descriptor freed.
Consume(r) ==
  /\ received[r] # None
  /\ received' = [received EXCEPT ![r] = None]
  /\ UNCHANGED channel

Next ==
  \/ \E k \in Packets : Send(k)
  \/ \E r \in Requests : Receive(r) \/ Consume(r)

Spec == Init /\ [][Next]_vars
=============================================================================
