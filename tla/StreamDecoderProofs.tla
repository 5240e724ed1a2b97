------------------------ MODULE StreamDecoderProofs ------------------------
(***************************************************************************)
(* Proofs about StreamDecoder for every set of sequences and every number  *)
(* of packets: the type invariant, that no packet is decoded twice or      *)
(* withheld, whatever the order of arrival, and that a sequence without    *)
(* cached packets was decoded in order since its FIRST packet.             *)
(***************************************************************************)
EXTENDS StreamDecoder, TLAPS

Messages == {Packet(s, i) : s \in SequenceIds, i \in Ids}

\* What one more packet adds to the packets decoded so far.
LEMMA AppendDecoded ==
  ASSUME NEW S, NEW d \in Seq(S), NEW k \in S
  PROVE  /\ Append(d, k) \in Seq(S)
         /\ Len(Append(d, k)) = Len(d) + 1
         /\ \A i \in 1..Len(Append(d, k)) :
              Append(d, k)[i] = IF i = Len(d) + 1 THEN k ELSE d[i]
         /\ \A i \in 1..Len(Append(d, k)) : i # Len(d) + 1 => i \in 1..Len(d)
         /\ 1..Len(d) \subseteq 1..Len(Append(d, k))
         /\ Len(d) + 1 \in 1..Len(Append(d, k))
  OBVIOUS

\* Packets are told apart by their sequence and id.
LEMMA PacketFields ==
  ASSUME NEW s, NEW i
  PROVE  Packet(s, i).sequence = s /\ Packet(s, i).id = i
  BY DEF Packet

\* A list entry speaks of packets that arrived.
ListOK(s, list) ==
  /\ list.last = 0 \/ Packet(s, list.last) \in arrived
  /\ \A i \in list.cache : i \in Ids /\ Packet(s, i) \in arrived

ListsOK == \A s \in DOMAIN orderLists : ListOK(s, orderLists[s])

BeganOK == /\ began \in [SequenceIds -> Nat]
           /\ \A s \in SequenceIds : began[s] <= Len(decoded)

\* The flags after a message.
LEMMA StatisticsType ==
  ASSUME running \in BOOLEAN, frequency \in BOOLEAN, Statistics
  PROVE  running' \in BOOLEAN /\ frequency' \in BOOLEAN
<1>1. running' = FALSE \/ running' = frequency
  BY DEF Statistics
<1> QED BY <1>1 DEF Statistics

-----------------------------------------------------------------------------
\* Every state of the decoder is well typed, and the packets in its lists did
\* arrive.
THEOREM TypeCorrect == Spec => []TypeOK
<1>1. Init => TypeOK
  <2> SUFFICES ASSUME Init PROVE TypeOK
    OBVIOUS
  <2>1. decoded \in Seq({Packet(s, i) : s \in SequenceIds, i \in Ids})
    BY DEF Init
  <2>2. DOMAIN orderLists = {}
    BY DEF Init
  <2>3. arrived = {}
    BY DEF Init
  <2>4. frequency \in BOOLEAN /\ running \in BOOLEAN
    BY DEF Init
  <2>5. BeganOK
    BY DEF Init, BeganOK
  <2> QED BY <2>1, <2>2, <2>3, <2>4, <2>5 DEF TypeOK, BeganOK
<1>2. TypeOK /\ [Next]_vars => TypeOK'
  <2> SUFFICES ASSUME TypeOK, [Next]_vars PROVE TypeOK'
    OBVIOUS
  <2>0. ASSUME NEW s \in SequenceIds PROVE ListOK(s, ListOf(s))
    BY DEF TypeOK, ListOK, ListOf, NewList
  <2>1. ASSUME NEW s \in SequenceIds, NEW i \in 0..MaxId, Arrives(s, i)
        PROVE  /\ arrived' \subseteq {Packet(t, j) : t \in SequenceIds, j \in 0..MaxId}
               /\ arrived \subseteq arrived'
               /\ Packet(s, i) \in arrived'
    BY <2>1 DEF Arrives, TypeOK
  <2>2. ASSUME NEW s \in SequenceIds, NEW list, Put(s, list), arrived \subseteq arrived',
               list.last = 0 \/ Packet(s, list.last) \in arrived',
               \A i \in list.cache : i \in Ids /\ Packet(s, i) \in arrived'
        PROVE  DOMAIN orderLists' \subseteq SequenceIds /\ ListsOK'
    <3>1. DOMAIN orderLists' = DOMAIN orderLists \cup {s}
      BY <2>2 DEF Put
    <3>2. orderLists'[s] = list
      BY <2>2 DEF Put
    <3>3. \A t \in DOMAIN orderLists : t # s => orderLists'[t] = orderLists[t]
      BY <2>2 DEF Put
    <3> QED BY <2>2, <3>1, <3>2, <3>3 DEF TypeOK, ListOK, ListsOK
  <2>3. ASSUME NEW s \in SequenceIds, NEW i \in Ids, Arrives(s, i)
        PROVE  \A j \in CacheWith(s, i) : j \in Ids /\ Packet(s, j) \in arrived'
    BY <2>0, <2>1, <2>3, StreamDecoderAssumption DEF CacheWith, ListOK, Ids
  <2>4. ASSUME NEW s \in SequenceIds, FirstPacket(s) PROVE TypeOK'
    <3>1. 0 \in 0..MaxId
      BY StreamDecoderAssumption
    <3>2. NewList.last = 0 /\ NewList.cache = {}
      BY DEF NewList
    <3>3. DOMAIN orderLists' \subseteq SequenceIds /\ ListsOK'
      BY <2>1, <2>2, <2>4, <3>1, <3>2 DEF FirstPacket
    <3>4. BeganOK'
      <4>1. Len(decoded) \in Nat
        BY DEF TypeOK
      <4> QED BY <2>4, <4>1 DEF FirstPacket, TypeOK, BeganOK
    <3> QED BY <2>1, <2>4, <3>1, <3>3, <3>4 DEF FirstPacket, TypeOK, ListsOK, ListOK, BeganOK
  <2>5. ASSUME NEW s \in SequenceIds, NEW i \in Ids, Parser(s, i) PROVE TypeOK'
    <3>1. i \in 0..MaxId
      BY StreamDecoderAssumption DEF Ids
    <3>2. decoded' \in Seq({Packet(t, j) : t \in SequenceIds, j \in Ids})
      BY <2>5, AppendDecoded DEF Parser, TypeOK
    <3>3. DOMAIN orderLists' \subseteq SequenceIds /\ ListsOK'
      <4> DEFINE list == [last |-> i, cache |-> CacheWith(s, i)]
      <4>1. list.last = i /\ list.cache = CacheWith(s, i)
        OBVIOUS
      <4>2. Put(s, list)
        BY <2>5 DEF Parser
      <4> HIDE DEF list
      <4> QED BY <2>1, <2>2, <2>3, <2>5, <3>1, <4>1, <4>2 DEF Parser
    <3>4. running' \in BOOLEAN /\ frequency' \in BOOLEAN
      BY <2>5, StatisticsType DEF Parser, TypeOK
    <3>5. BeganOK'
      <4>1. decoded' = Append(decoded, Packet(s, i)) /\ UNCHANGED began
        BY <2>5 DEF Parser, Statistics
      <4>2. Len(decoded) \in Nat /\ Len(decoded') = Len(decoded) + 1
        BY <4>1 DEF TypeOK
      <4> QED BY <4>1, <4>2 DEF TypeOK, BeganOK
    <3> QED BY <2>1, <2>5, <3>1, <3>2, <3>3, <3>4, <3>5 DEF Parser, TypeOK, ListsOK, ListOK, BeganOK
  <2>6. ASSUME NEW s \in SequenceIds, NEW i \in Ids, ParserRaises(s, i) PROVE TypeOK'
    <3>1. i \in 0..MaxId
      BY StreamDecoderAssumption DEF Ids
    <3>2. DOMAIN orderLists' \subseteq SequenceIds /\ ListsOK'
      <4> DEFINE list == [last |-> ListOf(s).last, cache |-> CacheWith(s, i)]
      <4>1. list.last = ListOf(s).last /\ list.cache = CacheWith(s, i)
        OBVIOUS
      <4>2. Put(s, list)
        BY <2>6 DEF ParserRaises
      <4> HIDE DEF list
      <4> QED BY <2>0, <2>1, <2>2, <2>3, <2>6, <3>1, <4>1, <4>2 DEF ParserRaises, ListOK
    <3>3. arrived' \subseteq {Packet(t, j) : t \in SequenceIds, j \in 0..MaxId}
      BY <2>1, <2>6, <3>1 DEF ParserRaises
    <3>4. running' \in BOOLEAN /\ UNCHANGED <<decoded, began, frequency>>
      BY <2>6 DEF ParserRaises
    <3> QED BY <3>2, <3>3, <3>4 DEF TypeOK, ListsOK, ListOK
  <2>7. CASE UNCHANGED vars
    BY <2>7 DEF vars, TypeOK
  <2> QED BY <2>4, <2>5, <2>6, <2>7 DEF Next
<1> QED BY <1>1, <1>2, PTL DEF Spec

-----------------------------------------------------------------------------
Data == {k \in arrived : k.id # 0}

\* The inductive invariant: what was decoded did arrive, once each, and until
\* the decoder stops nothing that arrived is missing.
DecodedInv ==
  /\ decoded \in Seq(Messages)
  /\ \A i, j \in 1..Len(decoded) : decoded[i] = decoded[j] => i = j
  /\ \A i \in 1..Len(decoded) : decoded[i] \in Data
  /\ running => \A k \in Data : \E i \in 1..Len(decoded) : decoded[i] = k

\* A message that arrives leaves the data packets alone or adds itself.
LEMMA ArrivalAddsData ==
  ASSUME NEW s, NEW i, Arrives(s, i)
  PROVE  /\ running
         /\ Packet(s, i) \notin Data
         /\ Data' = Data \cup (IF i = 0 THEN {} ELSE {Packet(s, i)})
<1>1. Packet(s, i).id = i
  BY PacketFields
<1> QED BY <1>1 DEF Arrives, Data

\* The packets decoded are distinct packets that arrived.
LEMMA DecodedInvariant == Spec => []DecodedInv
<1>1. Init => DecodedInv
  BY DEF Init, DecodedInv, Data
<1>2. DecodedInv /\ [Next]_vars => DecodedInv'
  <2> SUFFICES ASSUME DecodedInv, [Next]_vars PROVE DecodedInv'
    OBVIOUS
  <2>1. ASSUME NEW s \in SequenceIds, FirstPacket(s) PROVE DecodedInv'
    <3>1. Data' = Data /\ UNCHANGED <<decoded, running>>
      BY <2>1, ArrivalAddsData DEF FirstPacket
    <3> QED BY <3>1 DEF DecodedInv, Messages
  <2>2. ASSUME NEW s \in SequenceIds, NEW i \in Ids, Parser(s, i) PROVE DecodedInv'
    <3> DEFINE k == Packet(s, i)
    <3>1. /\ decoded' = Append(decoded, k)
          /\ running /\ k \notin Data
          /\ Data' = Data \cup {k}
      BY <2>2, ArrivalAddsData, StreamDecoderAssumption DEF Parser, Ids
    <3>2. k \in Messages
      BY DEF Messages
    <3> HIDE DEF k
    <3>3. /\ decoded' \in Seq(Messages)
          /\ Len(decoded') = Len(decoded) + 1
          /\ \A j \in 1..Len(decoded') :
               decoded'[j] = IF j = Len(decoded) + 1 THEN k ELSE decoded[j]
          /\ \A j \in 1..Len(decoded') : j # Len(decoded) + 1 => j \in 1..Len(decoded)
          /\ 1..Len(decoded) \subseteq 1..Len(decoded')
          /\ Len(decoded) + 1 \in 1..Len(decoded')
      BY <3>1, <3>2, AppendDecoded DEF DecodedInv
    <3>4. \A j \in 1..Len(decoded) : j # Len(decoded) + 1 /\ decoded'[j] = decoded[j]
      BY <3>3 DEF DecodedInv
    <3>5. \A j, l \in 1..Len(decoded') : decoded'[j] = decoded'[l] => j = l
      BY <3>1, <3>3 DEF DecodedInv
    <3>6. \A j \in 1..Len(decoded') : decoded'[j] \in Data'
      BY <3>1, <3>3 DEF DecodedInv
    <3>7. \A m \in Data' : \E j \in 1..Len(decoded') : decoded'[j] = m
      BY <3>1, <3>3, <3>4 DEF DecodedInv
    <3>8. Messages' = Messages
      BY DEF Messages
    <3> QED BY <3>3, <3>5, <3>6, <3>7, <3>8 DEF DecodedInv
  <2>3. ASSUME NEW s \in SequenceIds, NEW i \in Ids, ParserRaises(s, i) PROVE DecodedInv'
    <3>1. Data \subseteq Data' /\ decoded' = decoded /\ ~running'
      BY <2>3, ArrivalAddsData DEF ParserRaises
    <3> QED BY <3>1 DEF DecodedInv, Messages
  <2>4. CASE UNCHANGED vars
    BY <2>4 DEF vars, DecodedInv, Data, Messages
  <2> QED BY <2>1, <2>2, <2>3, <2>4 DEF Next
<1> QED BY <1>1, <1>2, PTL DEF Spec

\* No packet is decoded twice, and while the decoder runs every DATA packet
\* that arrived is decoded (parser of TraceDecoder.py).
THEOREM ArrivalsDecodedOnce == Spec => []DecodedExactlyOnce
<1>1. DecodedInv => DecodedExactlyOnce
  BY DEF DecodedInv, DecodedExactlyOnce, Data
<1> QED BY <1>1, DecodedInvariant, PTL

-----------------------------------------------------------------------------
(* The order of a sequence.                                                *)

\* Packets are decoded into a sequence that has a list.
KnownInv == \A j \in 1..Len(decoded) : decoded[j].sequence \in DOMAIN orderLists

\* What a packet of sequence t adds to the positions of a sequence.
LEMMA PositionAdded ==
  ASSUME DecodedInv, BeganOK, NEW t \in SequenceIds, NEW i \in Ids, UNCHANGED began,
         decoded' = Append(decoded, Packet(t, i))
  PROVE  /\ Len(decoded) \in Nat /\ Len(decoded) + 1 \in 1..Len(decoded')
         /\ decoded'[Len(decoded) + 1] = Packet(t, i)
         /\ \A j \in 1..Len(decoded) : decoded'[j] = decoded[j]
         /\ \A s \in SequenceIds :
              SinceFirst(s)' = SinceFirst(s) \cup (IF s = t THEN {Len(decoded) + 1} ELSE {})
<1>1. Packet(t, i) \in Messages
  BY DEF Messages
<1>2. decoded \in Seq(Messages) /\ Len(decoded) \in Nat
  BY DEF DecodedInv
<1>3. /\ Len(decoded') = Len(decoded) + 1
      /\ decoded'[Len(decoded) + 1] = Packet(t, i)
      /\ \A j \in 1..Len(decoded) : decoded'[j] = decoded[j]
  BY <1>1, <1>2, AppendDecoded
<1>4. \A j : j \in 1..Len(decoded') <=> j \in 1..Len(decoded) \/ j = Len(decoded) + 1
  BY <1>2, <1>3
<1>5. ASSUME NEW s \in SequenceIds
      PROVE  SinceFirst(s)' = SinceFirst(s) \cup (IF s = t THEN {Len(decoded) + 1} ELSE {})
  <2>1. Len(decoded) + 1 > began[s]
    BY <1>2 DEF BeganOK
  <2>2. Packet(t, i).sequence = t
    BY PacketFields
  <2>3. ASSUME NEW j \in 1..Len(decoded)
        PROVE  j \in SinceFirst(s)' <=> j \in SinceFirst(s)
    BY <1>3, <1>4, <2>3 DEF SinceFirst
  <2>4. Len(decoded) + 1 \in SinceFirst(s)' <=> s = t
    BY <1>3, <1>4, <2>1, <2>2 DEF SinceFirst
  <2>5. \A j \in SinceFirst(s)' : j \in 1..Len(decoded')
    BY DEF SinceFirst
  <2>6. \A j \in SinceFirst(s) : j \in 1..Len(decoded)
    BY DEF SinceFirst
  <2> QED BY <1>4, <2>3, <2>4, <2>5, <2>6
<1> QED BY <1>2, <1>3, <1>4, <1>5

\* The packet that was expected carries the order on.
LEMMA NextInOrder ==
  ASSUME DecodedInv, BeganOK, NEW s \in SequenceIds, NEW n \in Nat, n + 1 \in Ids,
         InOrderSinceFirst(s, n), UNCHANGED began,
         decoded' = Append(decoded, Packet(s, n + 1))
  PROVE  InOrderSinceFirst(s, n + 1)'
<1> DEFINE new == Len(decoded) + 1
<1>1. /\ new \in Nat /\ decoded'[new].id = n + 1
      /\ \A j \in SinceFirst(s) : decoded'[j] = decoded[j] /\ j < new
      /\ SinceFirst(s)' = SinceFirst(s) \cup {new}
  <2>1. decoded'[new] = Packet(s, n + 1) /\ \A j \in 1..Len(decoded) : decoded'[j] = decoded[j]
    BY PositionAdded
  <2>2. SinceFirst(s)' = SinceFirst(s) \cup {new} /\ Len(decoded) \in Nat
    BY PositionAdded
  <2>3. \A j \in SinceFirst(s) : j \in 1..Len(decoded)
    BY DEF SinceFirst
  <2> QED BY <2>1, <2>2, <2>3, PacketFields
<1> HIDE DEF new
<1>2. \A j \in SinceFirst(s) : decoded[j].id \in 1..n
  BY DEF InOrderSinceFirst
<1>3. {decoded'[j].id : j \in SinceFirst(s)'} = 1..(n + 1)
  <2>1. 1..(n + 1) = 1..n \cup {n + 1}
    OBVIOUS
  <2>2. {decoded'[j].id : j \in SinceFirst(s)'} = {decoded[j].id : j \in SinceFirst(s)} \cup {n + 1}
    BY <1>1
  <2> QED BY <2>1, <2>2 DEF InOrderSinceFirst
<1>4. ASSUME NEW j \in SinceFirst(s)', NEW k \in SinceFirst(s)', j < k
      PROVE  decoded'[j].id < decoded'[k].id
  <2>1. j \in SinceFirst(s)
    <3>1. ASSUME j = new PROVE FALSE
      <4>1. k = new \/ k < new
        BY <1>1
      <4>2. k \in Nat
        BY <1>1 DEF SinceFirst
      <4> QED BY <1>1, <1>4, <3>1, <4>1, <4>2
    <3> QED BY <1>1, <3>1
  <2>2. CASE k = new
    <3>1. decoded'[j].id \in 1..n /\ decoded'[k].id = n + 1
      BY <1>1, <1>2, <2>1, <2>2
    <3>2. \A a \in 1..n : a < n + 1
      OBVIOUS
    <3> QED BY <3>1, <3>2
  <2>3. CASE k \in SinceFirst(s)
    BY <1>1, <1>4, <2>1, <2>3 DEF InOrderSinceFirst
  <2> QED BY <1>1, <2>2, <2>3
<1> QED BY <1>3, <1>4 DEF InOrderSinceFirst

\* A packet of another sequence changes nothing.
LEMMA OtherInOrder ==
  ASSUME DecodedInv, BeganOK, NEW s \in SequenceIds, NEW t \in SequenceIds, t # s,
         NEW i \in Ids, NEW n, InOrderSinceFirst(s, n), UNCHANGED began,
         decoded' = Append(decoded, Packet(t, i))
  PROVE  InOrderSinceFirst(s, n)'
<1>1. SinceFirst(s)' = SinceFirst(s) /\ \A j \in 1..Len(decoded) : decoded'[j] = decoded[j]
  BY PositionAdded
<1>2. \A j \in SinceFirst(s) : decoded'[j] = decoded[j]
  BY <1>1 DEF SinceFirst
<1>3. {decoded'[j].id : j \in SinceFirst(s)} = 1..n
  BY <1>2 DEF InOrderSinceFirst
<1>4. \A j, k \in SinceFirst(s) : j < k => decoded'[j].id < decoded'[k].id
  BY <1>2 DEF InOrderSinceFirst
<1> QED BY <1>1, <1>3, <1>4 DEF InOrderSinceFirst

\* Behind a FIRST packet nothing has been decoded yet.
LEMMA NoneSince ==
  ASSUME NEW s, SinceFirst(s) = {}
  PROVE  InOrderSinceFirst(s, 0)
  BY DEF InOrderSinceFirst

OrderInv == KnownInv /\ EmptyCacheMeansInOrder

\* A list is put down for a sequence whose packets since FIRST are in order if
\* its cache is empty, and the other sequences stay as they are.
LEMMA PutKeepsOrder ==
  ASSUME EmptyCacheMeansInOrder, NEW s \in SequenceIds, NEW list, Put(s, list),
         list.cache = {} => InOrderSinceFirst(s, list.last)',
         \A t \in DOMAIN orderLists : \A n :
           t # s /\ InOrderSinceFirst(t, n) => InOrderSinceFirst(t, n)'
  PROVE  EmptyCacheMeansInOrder'
<1>1. /\ DOMAIN orderLists' = DOMAIN orderLists \cup {s}
      /\ orderLists'[s] = list
      /\ \A t \in DOMAIN orderLists : t # s => orderLists'[t] = orderLists[t]
  BY DEF Put
<1> QED BY <1>1 DEF EmptyCacheMeansInOrder

\* The list of a sequence, also of one without packets.
LEMMA ListInOrder ==
  ASSUME OrderInv, NEW s \in SequenceIds, ListOf(s).cache = {}
  PROVE  InOrderSinceFirst(s, ListOf(s).last)
<1>1. CASE s \in DOMAIN orderLists
  BY <1>1 DEF OrderInv, EmptyCacheMeansInOrder, ListOf
<1>2. CASE s \notin DOMAIN orderLists
  <2>1. SinceFirst(s) = {}
    BY <1>2 DEF OrderInv, KnownInv, SinceFirst
  <2> QED BY <1>2, <2>1, NoneSince DEF ListOf, NewList
<1> QED BY <1>1, <1>2

\* FIRST empties the cache and begins anew.
LEMMA FirstKeepsOrder ==
  ASSUME TypeOK, OrderInv, NEW s \in SequenceIds, FirstPacket(s)
  PROVE  OrderInv'
<1>1. /\ UNCHANGED decoded /\ Put(s, NewList) /\ NewList.last = 0
      /\ began' = [began EXCEPT ![s] = Len(decoded)] /\ began \in [SequenceIds -> Nat]
  BY DEF FirstPacket, NewList, TypeOK
<1>2. SinceFirst(s)' = {}
  <2>1. Len(decoded) \in Nat
    BY DEF TypeOK
  <2> QED BY <1>1, <2>1 DEF SinceFirst
<1>3. \A t \in DOMAIN orderLists : \A n :
        t # s /\ InOrderSinceFirst(t, n) => InOrderSinceFirst(t, n)'
  <2>1. \A t \in SequenceIds : t # s => began'[t] = began[t]
    BY <1>1
  <2> QED BY <1>1, <2>1 DEF TypeOK, InOrderSinceFirst, SinceFirst
<1>4. InOrderSinceFirst(s, NewList.last)'
  BY <1>1, <1>2 DEF InOrderSinceFirst
<1>5. EmptyCacheMeansInOrder'
  BY <1>1, <1>3, <1>4, PutKeepsOrder DEF OrderInv
<1>6. KnownInv'
  BY <1>1 DEF OrderInv, KnownInv, Put
<1> QED BY <1>5, <1>6 DEF OrderInv

\* A packet is cached unless it carries the order on.
LEMMA ParserKeepsOrder ==
  ASSUME TypeOK, DecodedInv, OrderInv, NEW s \in SequenceIds, NEW i \in Ids, Parser(s, i)
  PROVE  OrderInv'
<1> SUFFICES ASSUME NEW list, list = [last |-> i, cache |-> CacheWith(s, i)]
             PROVE  OrderInv'
  OBVIOUS
<1>1. list.last = i /\ list.cache = CacheWith(s, i)
  OBVIOUS
<1>2. /\ Put(s, list) /\ decoded' = Append(decoded, Packet(s, i)) /\ UNCHANGED began
      /\ BeganOK
  BY DEF Parser, Statistics, TypeOK, BeganOK
<1>3. ASSUME list.cache = {}
      PROVE  InOrderSinceFirst(s, list.last)'
  <2> SUFFICES ASSUME NEW n, n = ListOf(s).last
               PROVE  InOrderSinceFirst(s, list.last)'
    OBVIOUS
  <2>1. ListOf(s).cache = {} /\ i = n + 1
    BY <1>1, <1>3 DEF CacheWith, OutOfOrder
  <2>2. n \in Nat
    <3>1. n = 0 \/ Packet(s, n) \in {Packet(t, j) : t \in SequenceIds, j \in 0..MaxId}
      BY DEF TypeOK, ListOf, NewList
    <3>2. \A t \in SequenceIds, j \in 0..MaxId : Packet(s, n) = Packet(t, j) => n = j
      BY DEF Packet
    <3> QED BY <3>1, <3>2
  <2>3. InOrderSinceFirst(s, n)
    BY <2>1, ListInOrder
  <2>4. InOrderSinceFirst(s, n + 1)'
    BY <1>2, <2>1, <2>2, <2>3, NextInOrder
  <2> QED BY <1>1, <2>1, <2>4
<1>4. ASSUME NEW t \in DOMAIN orderLists, NEW n, t # s, InOrderSinceFirst(t, n)
      PROVE  InOrderSinceFirst(t, n)'
  BY <1>2, <1>4, OtherInOrder DEF TypeOK
<1>5. EmptyCacheMeansInOrder'
  BY <1>2, <1>3, <1>4, PutKeepsOrder DEF OrderInv
<1>6. KnownInv'
  <2>1. DOMAIN orderLists' = DOMAIN orderLists \cup {s}
    BY <1>2 DEF Put
  <2>2. /\ \A j \in 1..Len(decoded) : decoded'[j] = decoded[j]
        /\ decoded'[Len(decoded) + 1].sequence = s
        /\ Len(decoded) \in Nat
    BY <1>2, PositionAdded, PacketFields
  <2>3. Len(decoded') = Len(decoded) + 1
    BY <1>2 DEF TypeOK
  <2>4. \A j \in 1..Len(decoded') : j \in 1..Len(decoded) \/ j = Len(decoded) + 1
    BY <2>2, <2>3
  <2> QED BY <2>1, <2>2, <2>4 DEF OrderInv, KnownInv
<1> QED BY <1>5, <1>6 DEF OrderInv

\* A packet that is not decoded is at most cached.
LEMMA RaiseKeepsOrder ==
  ASSUME TypeOK, OrderInv, NEW s \in SequenceIds, NEW i \in Ids, ParserRaises(s, i)
  PROVE  OrderInv'
<1> SUFFICES ASSUME NEW list, list = [last |-> ListOf(s).last, cache |-> CacheWith(s, i)]
             PROVE  OrderInv'
  OBVIOUS
<1>1. list.last = ListOf(s).last /\ list.cache = CacheWith(s, i)
  OBVIOUS
<1>2. Put(s, list) /\ UNCHANGED <<decoded, began>>
  BY DEF ParserRaises
<1>3. \A t, n : InOrderSinceFirst(t, n) => InOrderSinceFirst(t, n)'
  BY <1>2 DEF InOrderSinceFirst, SinceFirst
<1>4. list.cache = {} => InOrderSinceFirst(s, list.last)
  BY <1>1, ListInOrder DEF CacheWith
<1>5. EmptyCacheMeansInOrder'
  <2>1. list.cache = {} => InOrderSinceFirst(s, list.last)'
    BY <1>3, <1>4
  <2> QED BY <1>2, <1>3, <2>1, PutKeepsOrder DEF OrderInv
<1>6. KnownInv'
  BY <1>2 DEF OrderInv, KnownInv, Put
<1> QED BY <1>5, <1>6 DEF OrderInv

\* While the cache of a sequence is empty, what was decoded of it since its
\* FIRST packet is 1 to last_packet_id, in order: parser notices every gap that
\* opens behind the FIRST packet, and forgets the ones before a late one.
THEOREM GapsNoticed == Spec => []EmptyCacheMeansInOrder
<1>1. Init => OrderInv
  BY DEF Init, OrderInv, KnownInv, EmptyCacheMeansInOrder
<1>2. TypeOK /\ DecodedInv /\ OrderInv /\ [Next]_vars => OrderInv'
  <2> SUFFICES ASSUME TypeOK, DecodedInv, OrderInv, [Next]_vars PROVE OrderInv'
    OBVIOUS
  <2>1. CASE UNCHANGED vars
    BY <2>1 DEF vars, OrderInv, KnownInv, EmptyCacheMeansInOrder, InOrderSinceFirst, SinceFirst
  <2> QED BY <2>1, FirstKeepsOrder, ParserKeepsOrder, RaiseKeepsOrder DEF Next
<1>3. OrderInv => EmptyCacheMeansInOrder
  BY DEF OrderInv
<1> QED BY <1>1, <1>2, <1>3, TypeCorrect, DecodedInvariant, PTL DEF Spec
=============================================================================
