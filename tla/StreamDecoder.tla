---------------------------- MODULE StreamDecoder ----------------------------
(***************************************************************************)
(* The consumer of TraceDecoder.py: read_trace takes the messages from the *)
(* Kafka topic, and parser feeds the packets of a sequence to the          *)
(* interpreter and keeps the list of the ones that came out of order.  A   *)
(* message is a packet id of a sequence; id 0 is the FIRST packet (the     *)
(* driver numbers from 0).  Kafka delivers each message once and in any    *)
(* order: processors enqueue in another order than they number, worker     *)
(* threads overtake each other, and a topic may have several partitions.   *)
(*                                                                         *)
(* The cache of a sequence is a list sorted by packet id; it is the set of *)
(* its ids here, the head of the list being the least of them.             *)
(***************************************************************************)
EXTENDS Naturals, Sequences, FiniteSetsExt

CONSTANTS SequenceIds,
          MaxId         \* bound: largest packet id of a sequence

ASSUME StreamDecoderAssumption == MaxId \in Nat

VARIABLES arrived,      \* messages received
          orderLists,   \* PACKET_ORDER_LISTS: [last, cache] of each sequence seen
          decoded,      \* packets fed to the interpreter, oldest first
          began,        \* packets decoded when the FIRST packet of a sequence came
          frequency,    \* processor_frequency has a value
          running       \* read_trace has raised no exception

vars == <<arrived, orderLists, decoded, began, frequency, running>>

Ids == 1..MaxId
Packet(s, i) == [sequence |-> s, id |-> i]

NewList == [last |-> 0, cache |-> {}]

ListOf(s) == IF s \in DOMAIN orderLists THEN orderLists[s] ELSE NewList

Put(s, list) ==
  orderLists' = [t \in DOMAIN orderLists \cup {s} |-> IF t = s THEN list ELSE orderLists[t]]

Arrives(s, i) ==
  /\ running
  /\ Packet(s, i) \notin arrived
  /\ arrived' = arrived \cup {Packet(s, i)}

-----------------------------------------------------------------------------
Init ==
  /\ arrived = {}
  /\ orderLists = [s \in {} |-> NewList]
  /\ decoded = <<>>
  /\ began = [s \in SequenceIds |-> 0]
  /\ frequency = FALSE
  /\ running = TRUE

\* The FIRST packet resets the list of its sequence, also when it comes late:
\* then what was cached is forgotten.  The interpreter that is
\* created for the sequence is never used.
FirstPacket(s) ==
  /\ Arrives(s, 0)
  /\ Put(s, NewList)
  /\ began' = [began EXCEPT ![s] = Len(decoded)]
  /\ frequency' = TRUE
  /\ UNCHANGED <<decoded, running>>

OutOfOrder(s, i) == i # ListOf(s).last + 1

CacheWith(s, i) == ListOf(s).cache \cup (IF OutOfOrder(s, i) THEN {i} ELSE {})

\* The statistics of read_trace divide by processor_frequency after each
\* message: before the first FIRST packet that name has no value.  They also
\* raise when the bytes gave a packet without a TSC.
Statistics ==
  /\ running' \in {FALSE, frequency}
  /\ UNCHANGED <<began, frequency>>

\* Faulty variant: the cached packets up to the next id are drained.
ParseAndDrain(s, i) ==
  LET due == {k \in CacheWith(s, i) : k <= i + 1}
  IN /\ Arrives(s, i)
     /\ decoded' = Append(decoded, Packet(s, i)) \o
                     (IF due = {} THEN <<>> ELSE <<Packet(s, Min(due))>>)
     /\ Put(s, [last |-> i, cache |-> IF due = {} THEN CacheWith(s, i)
                                      ELSE CacheWith(s, i) \ {Min(due)}])
     /\ Statistics

\* Faulty variant: only a packet that comes late is out of order.
ParseLate(s, i) ==
  /\ Arrives(s, i)
  /\ decoded' = Append(decoded, Packet(s, i))
  /\ Put(s, [last |-> i, cache |-> IF i <= ListOf(s).last THEN CacheWith(s, i)
                                   ELSE ListOf(s).cache])
  /\ Statistics

\* Faulty variant: the id kept is the one expected next.
ParseNext(s, i) ==
  /\ Arrives(s, i)
  /\ decoded' = Append(decoded, Packet(s, i))
  /\ Put(s, [last |-> i + 1, cache |-> CacheWith(s, i)])
  /\ Statistics

\* A DATA or LAST packet.  An out-of-order packet is cached, and decoded at
\* once like any other.  The loop that would drain the cache compares the head
\* of the list, a tuple, with a number: it never runs.
Parser(s, i) ==
  /\ Arrives(s, i)
  /\ decoded' = Append(decoded, Packet(s, i))
  /\ Put(s, [last |-> i, cache |-> CacheWith(s, i)])
  /\ Statistics

\* A handler of the interpreter raises in the middle of the packet (an address
\* that refers to a missing LastIP): the packet was cached if out of order, and
\* the rest of parser does not happen.
ParserRaises(s, i) ==
  /\ Arrives(s, i)
  /\ Put(s, [last |-> ListOf(s).last, cache |-> CacheWith(s, i)])
  /\ running' = FALSE
  /\ UNCHANGED <<decoded, began, frequency>>

Next ==
  \/ \E s \in SequenceIds : FirstPacket(s)
  \/ \E s \in SequenceIds, i \in Ids : Parser(s, i) \/ ParserRaises(s, i)

Spec == Init /\ [][Next]_vars

-----------------------------------------------------------------------------
(* Properties. *)

\* The decoder is well typed, and its lists speak of packets that arrived.
TypeOK ==
  /\ arrived \subseteq {Packet(s, i) : s \in SequenceIds, i \in 0..MaxId}
  /\ DOMAIN orderLists \subseteq SequenceIds
  /\ \A s \in DOMAIN orderLists :
       /\ orderLists[s].last = 0 \/ Packet(s, orderLists[s].last) \in arrived
       /\ \A i \in orderLists[s].cache : i \in Ids /\ Packet(s, i) \in arrived
  /\ decoded \in Seq({Packet(s, i) : s \in SequenceIds, i \in Ids})
  /\ began \in [SequenceIds -> Nat] /\ \A s \in SequenceIds : began[s] <= Len(decoded)
  /\ frequency \in BOOLEAN
  /\ running \in BOOLEAN

\* No packet is decoded twice, and as long as the decoder runs every DATA
\* packet that arrived is decoded: caching an out-of-order packet neither
\* withholds it nor decodes it again (parser).
DecodedExactlyOnce ==
  /\ \A i, j \in 1..Len(decoded) : decoded[i] = decoded[j] => i = j
  /\ running => {decoded[i] : i \in 1..Len(decoded)} = {k \in arrived : k.id # 0}

SinceFirst(s) == {j \in 1..Len(decoded) : j > began[s] /\ decoded[j].sequence = s}

\* Since its FIRST packet the packets of a sequence were 1 to n, in order.
InOrderSinceFirst(s, n) ==
  /\ {decoded[j].id : j \in SinceFirst(s)} = 1..n
  /\ \A j, k \in SinceFirst(s) : j < k => decoded[j].id < decoded[k].id

\* While the cache of a sequence is empty, the packets decoded since its FIRST
\* packet are exactly 1 to last_packet_id, in order: a gap that opens behind
\* the FIRST packet is noticed.  One that opened before it is forgotten: of the
\* arrivals 2, FIRST, 1 nothing is cached in the end (read_trace, parser).
EmptyCacheMeansInOrder ==
  \A s \in DOMAIN orderLists :
    orderLists[s].cache = {} => InOrderSinceFirst(s, orderLists[s].last)

\* What "Out of order packet received ... Caching packet..." says: a packet is
\* decoded behind the packets of its sequence with smaller ids.
DecodedInSequence ==
  \A i, j \in 1..Len(decoded) :
    i < j /\ decoded[i].sequence = decoded[j].sequence => decoded[i].id < decoded[j].id
=============================================================================
