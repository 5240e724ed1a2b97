---------------------- MODULE PacketInterpreterProofs ----------------------
(***************************************************************************)
(* Proofs about PacketInterpreter for every set of packets, every bound    *)
(* and every point at which another buffer cuts in.  FrameInv says where   *)
(* in an uncut trace the interpreter stands: between two packets, or       *)
(* within the last one, of which the accumulator is the first part.        *)
(* HistoryInv says what the handlers' context and the entries tell of the  *)
(* calls so far, however the trace was cut.                                *)
(***************************************************************************)
EXTENDS PacketInterpreter, SequenceTheorems, FiniteSetTheorems, TLAPS

-----------------------------------------------------------------------------
(* The table and the packets.                                              *)

\* The definitions of the table have names and headers of a byte at least.
LEMMA TableFacts ==
  ASSUME NEW i \in AllCandidates
  PROVE  /\ i \in Nat /\ i # None
         /\ Name(i) \in STRING
         /\ Header(i) \in Seq(SUBSET Byte) /\ Len(Header(i)) \in Nat \ {0}
         /\ DOMAIN Header(i) = 1..Len(Header(i))
<1>1. Header(i) \in Seq(SUBSET Byte) \ {<<>>}
  BY TableAssumption
<1>2. Len(Header(i)) \in Nat /\ DOMAIN Header(i) = 1..Len(Header(i))
  BY <1>1
<1>3. Len(Header(i)) # 0
  BY <1>1
<1> QED BY <1>1, <1>2, <1>3, TableAssumption

\* A type that the table has a length for.
LEMMA LengthFacts ==
  ASSUME NEW i \in AllCandidates, NEW type \in DOMAIN Lengths(i)
  PROVE  Lengths(i)[type] \in Nat \ {0}
  BY TableAssumption

\* The definition of a packet is the only one whose header it begins with.
LEMMA PacketFacts ==
  ASSUME NEW p \in Packets, ~IsPad(p)
  PROVE  /\ DefinitionOf(p) \in AllCandidates
         /\ Begins(p, DefinitionOf(p)) /\ HasLength(p, DefinitionOf(p))
         /\ Name(DefinitionOf(p)) = "MODE" => ~ModeRaises(p)
         /\ \A i \in AllCandidates : Begins(p, i) => i = DefinitionOf(p)
<1>1. PICK i \in AllCandidates :
           Begins(p, i) /\ HasLength(p, i) /\ (Name(i) = "MODE" => ~ModeRaises(p))
  BY PacketsAssumption
<1>2. DefinitionOf(p) \in AllCandidates /\ Begins(p, DefinitionOf(p))
  BY <1>1 DEF DefinitionOf
<1>3. ASSUME NEW j \in AllCandidates, NEW k \in AllCandidates, Begins(p, j), Begins(p, k)
      PROVE  j = k
  <2>1. SUFFICES ASSUME j # k PROVE FALSE
    OBVIOUS
  <2>2. PICK b \in DOMAIN Header(j) \cap DOMAIN Header(k) : Header(j)[b] \cap Header(k)[b] = {}
    BY <2>1, TableAssumption
  <2>3. p[b] \in Header(j)[b] /\ p[b] \in Header(k)[b]
    BY <1>3, <2>2 DEF Begins
  <2> QED BY <2>2, <2>3
<1>4. DefinitionOf(p) = i
  BY <1>1, <1>2, <1>3
<1> QED BY <1>1, <1>2, <1>3, <1>4

\* Packets are bytes, and a padding packet is one byte.
LEMMA PacketBytes ==
  ASSUME NEW p \in Packets
  PROVE  /\ p \in Seq(Byte) /\ Len(p) \in Nat \ {0}
         /\ IsPad(p) => Len(p) = 1
<1>1. p \in Seq(Byte) \ {<<>>} /\ (IsPad(p) => Len(p) = 1)
  BY PacketsAssumption
<1>2. Len(p) \in Nat /\ (Len(p) = 0 => p = <<>>)
  BY <1>1
<1> QED BY <1>1, <1>2

\* The first definition of the table among some.
LEMMA FirstDefinition ==
  ASSUME NEW S, S \subseteq AllCandidates, S # {}
  PROVE  Min(S) \in S
<1>1. S \subseteq Nat
  BY TableAssumption
<1> DEFINE below == {ss \in Nat \X Nat : ss[1] < ss[2]}
<1>2. IsWellFoundedOn(below, Nat)
  BY NatLessThanWellFounded DEF OpToRel
<1>3. \A y, x \in Nat : y < x => <<y, x>> \in below
  OBVIOUS
<1> HIDE DEF below
<1>4. PICK x \in S : \A y \in S : ~(<<y, x>> \in below)
  BY <1>1, <1>2, WFMin
<1>5. ASSUME NEW y \in S PROVE x <= y
  <2>1. y \in Nat /\ x \in Nat
    BY <1>1
  <2>2. ~(y < x)
    BY <1>3, <1>4, <2>1, Zenon
  <2> QED BY <2>1, <2>2
<1> QED BY <1>5 DEF Min

-----------------------------------------------------------------------------
(* Types.                                                                  *)

StreamType ==
  /\ sent \in Seq(Packets) /\ whole \in Seq(Packets) /\ rest \in Seq(Byte)
  /\ cuts \in 0..MaxCuts

FramingType ==
  /\ accumulator \in Seq(Byte)
  /\ candidates \subseteq AllCandidates
  /\ header_index \in Nat
  /\ ~in_packet => /\ header_index = Len(accumulator)
                   /\ \A i \in candidates : header_index < Len(Header(i))
  /\ in_packet \in BOOLEAN
  /\ in_packet => current_packet # None
  /\ current_packet \in AllCandidates \cup {None} /\ current_length \in Nat

Entries == [name : STRING, stops : BOOLEAN]

OutputType ==
  /\ running \in BOOLEAN
  /\ context \in [disabled : BOOLEAN, timed : BOOLEAN, LastIP : BOOLEAN]
  /\ succession \in Seq(Entries) /\ delivered \in Seq(Entries)
  /\ handled \in Seq([name : STRING, data : Seq(Byte)])

\* What is accumulated is less than the length of the current packet.
Bounded == current_packet # None => Len(accumulator) < current_length

Typed == StreamType /\ FramingType /\ OutputType /\ Bounded

\* TypeOK in three parts.
LEMMA TypeParts == TypeOK <=> StreamType /\ FramingType /\ OutputType
  BY DEF TypeOK, StreamType, FramingType, OutputType, Entries

\* The types of __init__.
LEMMA InitTyped == Init => Typed
<1> SUFFICES ASSUME Init PROVE Typed
  OBVIOUS
<1> USE DEF Init
<1>1. StreamType
  BY TableAssumption DEF StreamType
<1>2. \A i \in AllCandidates : 0 < Len(Header(i))
  BY TableFacts
<1>3. FramingType
  <2>1. accumulator \in Seq(Byte) /\ header_index = Len(accumulator) /\ header_index \in Nat
    OBVIOUS
  <2>2. \A i \in candidates : header_index < Len(Header(i))
    BY <1>2
  <2> QED BY <2>1, <2>2 DEF FramingType
<1>4. OutputType
  BY DEF OutputType
<1>5. Bounded
  BY DEF Bounded
<1> QED BY <1>1, <1>3, <1>4, <1>5 DEF Typed

\* process_byte gets a byte.
LEMMA TakeByteTyped ==
  ASSUME StreamType, TakeByte
  PROVE  /\ StreamType'
         /\ DataByte \in Byte
<1>1. rest \in Seq(Byte) /\ rest # <<>>
  BY DEF StreamType, TakeByte
<1>2. Tail(rest) \in Seq(Byte) /\ Head(rest) \in Byte
  BY <1>1
<1> QED BY <1>2 DEF StreamType, TakeByte, DataByte

\* What the emitter does to the types.
LEMMA RecordTyped ==
  ASSUME StreamType, NEW p \in Packets, Record(p)
  PROVE  sent' \in Seq(Packets) /\ whole' \in Seq(Packets)
  BY DEF StreamType, Record

\* A packet that is emitted keeps the types.
LEMMA EmitTyped ==
  ASSUME Typed, NEW p \in Packets, Emit(p)
  PROVE  Typed'
<1>1. sent' \in Seq(Packets) /\ whole' \in Seq(Packets)
  BY RecordTyped DEF Typed, Emit
<1>2. rest' \in Seq(Byte)
  BY PacketBytes DEF Emit
<1>3. StreamType'
  BY <1>1, <1>2 DEF Typed, StreamType, Emit
<1>4. FramingType' /\ OutputType' /\ Bounded'
  BY DEF Typed, FramingType, OutputType, Bounded, Emit, framing, output
<1> QED BY <1>3, <1>4 DEF Typed

\* A buffer that cuts in keeps them.
LEMMA CutInTyped ==
  ASSUME Typed, NEW p \in Packets, NEW k \in 0..(Len(p) - 1), CutIn(p, k)
  PROVE  Typed'
<1>1. sent' \in Seq(Packets) /\ whole' \in Seq(Packets)
  BY RecordTyped DEF Typed, CutIn
<1>2. rest' \in Seq(Byte)
  <2>1. p \in Seq(Byte) /\ Len(p) \in Nat
    BY PacketBytes
  <2>2. SubSeq(p, k + 1, Len(p)) \in Seq(Byte)
    BY <2>1
  <2> QED BY <2>2 DEF CutIn
<1>3. cuts' \in 0..MaxCuts
  BY TableAssumption DEF Typed, StreamType, CutIn
<1>4. StreamType'
  BY <1>1, <1>2, <1>3 DEF StreamType
<1>5. FramingType' /\ OutputType' /\ Bounded'
  BY DEF Typed, FramingType, OutputType, Bounded, CutIn, framing, output
<1> QED BY <1>4, <1>5 DEF Typed

\* The handlers give entries.
LEMMA ResultTyped ==
  ASSUME OutputType, NEW name \in STRING, NEW data \in Seq(Byte)
  PROVE  Result(name, data) \in Seq(Entries)
<1>1. \A timed : Entry(name, data, timed) \in Entries
  <2>1. \A b : b \in BOOLEAN => [name |-> name, stops |-> b] \in Entries
    BY DEF Entries
  <2>2. \A timed : (/\ name \in TimeNames => ~timed
                    /\ ~(name \in IpNames /\ Type(data[1]) = 0)) \in BOOLEAN
    OBVIOUS
  <2> QED BY <2>1, <2>2, Zenon DEF Entry
<1> QED BY <1>1 DEF Result

\* The handlers leave a context.
LEMMA ContextTyped ==
  ASSUME NEW name, NEW data
  PROVE  HandleContext(name, data) \in [disabled : BOOLEAN, timed : BOOLEAN, LastIP : BOOLEAN]
  BY Zenon DEF HandleContext

\* The end of process_byte with a packet whose length the table gives.
LEMMA ProcessTyped ==
  ASSUME FramingType, OutputType, Bounded,
         NEW data \in Seq(Byte), NEW packet \in AllCandidates, NEW length \in Nat \ {0},
         Process(data, packet, length)
  PROVE  FramingType' /\ OutputType' /\ Bounded'
<1>1. CASE HandleRaises(Name(packet), data)
  BY <1>1 DEF Process, Raise, FramingType, OutputType, Bounded, framing, output
<1>2. CASE ~HandleRaises(Name(packet), data)
  <2>1. /\ accumulator' = <<>> /\ candidates' = AllCandidates /\ header_index' = 0
        /\ in_packet' = FALSE /\ current_packet' = packet /\ current_length' = length
        /\ context' = HandleContext(Name(packet), data)
        /\ handled' = Append(handled, [name |-> Name(packet), data |-> data])
        /\ UNCHANGED <<delivered, running>>
    BY <1>2, Zenon DEF Process, StartNext
  <2>2. succession' = succession \o IF context'.disabled THEN <<>> ELSE Result(Name(packet), data)
    BY <1>2, Zenon DEF Process
  <2>3. packet # None /\ Name(packet) \in STRING
    BY TableFacts
  <2>4. \A i \in AllCandidates : 0 < Len(Header(i))
    BY TableFacts
  <2>5. FramingType'
    <3>1. accumulator' \in Seq(Byte) /\ header_index' = Len(accumulator') /\ header_index' \in Nat
      BY <2>1
    <3>2. \A i \in candidates' : header_index' < Len(Header(i))
      BY <2>1, <2>4
    <3> QED BY <2>1, <2>3, <3>1, <3>2 DEF FramingType
  <2>6. Bounded'
    BY <2>1 DEF Bounded
  <2>7. Result(Name(packet), data) \in Seq(Entries)
    BY <2>3, ResultTyped
  <2>8. succession' \in Seq(Entries)
    BY <2>2, <2>7 DEF OutputType
  <2>9. context' \in [disabled : BOOLEAN, timed : BOOLEAN, LastIP : BOOLEAN]
    BY <2>1, ContextTyped
  <2>10. handled' \in Seq([name : STRING, data : Seq(Byte)])
    BY <2>1, <2>3 DEF OutputType
  <2>11. OutputType'
    BY <2>1, <2>8, <2>9, <2>10 DEF OutputType
  <2> QED BY <2>5, <2>6, <2>11
<1> QED BY <1>1, <1>2

\* A padding byte keeps the types.
LEMMA SkipUnusedTyped ==
  ASSUME Typed, SkipUnused
  PROVE  Typed'
<1>1. StreamType'
  BY TakeByteTyped DEF Typed, SkipUnused
<1>2. OutputType'
  BY DEF Typed, SkipUnused, OutputType, output
<1>3. \A i \in AllCandidates : 0 < Len(Header(i))
  BY TableFacts
<1>4. UNCHANGED <<in_packet, current_packet, current_length>>
  BY DEF SkipUnused
<1>5. CASE StartNext
  <2>1. FramingType'
    BY <1>3, <1>4, <1>5 DEF Typed, StartNext, FramingType
  <2>2. Bounded'
    BY <1>4, <1>5 DEF Typed, StartNext, FramingType, Bounded
  <2> QED BY <1>1, <1>2, <2>1, <2>2 DEF Typed
<1>6. CASE UNCHANGED <<accumulator, candidates, header_index>>
  BY <1>1, <1>2, <1>4, <1>6 DEF Typed, FramingType, Bounded
<1> QED BY <1>5, <1>6 DEF SkipUnused

\* A header byte leaves only candidates with longer headers.
LEMMA PartialHeaderTyped ==
  ASSUME Typed, PartialHeader
  PROVE  Typed'
<1> DEFINE data == Append(accumulator, DataByte)
<1>1. StreamType' /\ DataByte \in Byte
  BY TakeByteTyped DEF Typed, PartialHeader, HeaderByte
<1>2. data \in Seq(Byte) /\ Len(data) = Len(accumulator) + 1 /\ Len(accumulator) \in Nat
  BY <1>1 DEF Typed, FramingType
<1>3. ~in_packet /\ Complete = {}
  BY DEF PartialHeader, HeaderByte
<1>4. IF Buffered(data, current_packet, current_length)
        THEN Process(data, current_packet, current_length)
        ELSE /\ accumulator' = data
             /\ candidates' = Matching
             /\ header_index' = header_index + 1
             /\ UNCHANGED <<in_packet, current_packet, current_length, context, output, running>>
  BY DEF PartialHeader
<1> HIDE DEF data
<1>5. CASE Buffered(data, current_packet, current_length)
  <2>1. current_packet \in AllCandidates
    BY <1>5 DEF Buffered, Typed, FramingType
  <2>2. current_length \in Nat \ {0}
    BY <1>2, <1>5 DEF Buffered, Typed, FramingType, Bounded
  <2>3. FramingType' /\ OutputType' /\ Bounded'
    BY <1>2, <1>4, <1>5, <2>1, <2>2, ProcessTyped DEF Typed
  <2> QED BY <1>1, <2>3 DEF Typed
<1>6. CASE ~Buffered(data, current_packet, current_length)
  <2>1. /\ accumulator' = data
        /\ candidates' = Matching
        /\ header_index' = header_index + 1
        /\ UNCHANGED <<in_packet, current_packet, current_length, context, output, running>>
    BY <1>4, <1>6
  <2>2. header_index' = Len(accumulator') /\ header_index' \in Nat
    BY <1>2, <1>3, <2>1 DEF Typed, FramingType
  <2>3. Matching \subseteq candidates /\ candidates \subseteq AllCandidates
    BY DEF Matching, Typed, FramingType
  <2>4. ASSUME NEW i \in Matching PROVE header_index' < Len(Header(i))
    <3>1. header_index < Len(Header(i)) /\ header_index \in Nat
      BY <1>3, <2>3 DEF Typed, FramingType
    <3>2. Len(Header(i)) # header_index + 1
      BY <1>3 DEF Complete
    <3>3. Len(Header(i)) \in Nat
      BY <2>3, TableFacts
    <3> QED BY <2>1, <3>1, <3>2, <3>3
  <2>5. FramingType'
    BY <1>2, <2>1, <2>2, <2>3, <2>4 DEF Typed, FramingType
  <2>6. OutputType'
    BY <2>1 DEF Typed, OutputType, output
  <2>7. Bounded'
    BY <1>2, <1>6, <2>1 DEF Typed, FramingType, Bounded, Buffered
  <2> QED BY <1>1, <2>5, <2>6, <2>7 DEF Typed
<1> QED BY <1>5, <1>6

\* A full header sets a packet with a length above what is accumulated.
LEMMA FullHeaderTyped ==
  ASSUME Typed, FullHeader
  PROVE  Typed'
<1> DEFINE data   == Append(accumulator, DataByte)
           packet == Min(Complete)
           length == Lengths(packet)[Type(DataByte)]
<1>1. StreamType' /\ DataByte \in Byte
  BY TakeByteTyped DEF Typed, FullHeader, HeaderByte
<1>2. data \in Seq(Byte) /\ Len(data) = Len(accumulator) + 1 /\ Len(accumulator) \in Nat
  BY <1>1 DEF Typed, FramingType
<1>3. Complete \subseteq AllCandidates
  BY DEF Typed, FramingType, Complete, Matching
<1>4. packet \in AllCandidates /\ packet # None
  BY <1>3, FirstDefinition, TableFacts DEF FullHeader
<1>5. Type(DataByte) \in DOMAIN Lengths(packet) => length \in Nat \ {0}
  BY <1>4, LengthFacts
<1>6. IF Type(DataByte) \notin DOMAIN Lengths(packet) THEN Raise
      ELSE IF Buffered(data, packet, length) THEN Process(data, packet, length)
      ELSE /\ accumulator' = data
           /\ header_index' = 0
           /\ in_packet' = TRUE
           /\ current_packet' = packet /\ current_length' = length
           /\ UNCHANGED <<candidates, context, output, running>>
  BY DEF FullHeader
<1> HIDE DEF data, packet, length
<1>7. CASE Type(DataByte) \notin DOMAIN Lengths(packet)
  <2>1. Raise
    BY <1>6, <1>7
  <2>2. FramingType' /\ OutputType' /\ Bounded'
    BY <2>1 DEF Raise, Typed, FramingType, OutputType, Bounded, framing, output
  <2> QED BY <1>1, <2>2 DEF Typed
<1>8. CASE Type(DataByte) \in DOMAIN Lengths(packet) /\ Buffered(data, packet, length)
  <2>1. Process(data, packet, length)
    BY <1>6, <1>8
  <2>2. FramingType' /\ OutputType' /\ Bounded'
    BY <1>2, <1>4, <1>5, <1>8, <2>1, ProcessTyped DEF Typed
  <2> QED BY <1>1, <2>2 DEF Typed
<1>9. CASE Type(DataByte) \in DOMAIN Lengths(packet) /\ ~Buffered(data, packet, length)
  <2>1. /\ accumulator' = data
        /\ header_index' = 0
        /\ in_packet' = TRUE
        /\ current_packet' = packet /\ current_length' = length
        /\ UNCHANGED <<candidates, context, output, running>>
    BY <1>6, <1>9
  <2>2. FramingType'
    BY <1>2, <1>4, <1>5, <1>9, <2>1 DEF Typed, FramingType
  <2>3. OutputType'
    BY <2>1 DEF Typed, OutputType, output
  <2>4. Bounded'
    BY <1>2, <1>4, <1>5, <1>9, <2>1 DEF Bounded, Buffered
  <2> QED BY <1>1, <2>2, <2>3, <2>4 DEF Typed
<1> QED BY <1>7, <1>8, <1>9

\* A payload byte keeps the types.
LEMMA PayloadByteTyped ==
  ASSUME Typed, PayloadByte
  PROVE  Typed'
<1> DEFINE data == Append(accumulator, DataByte)
<1>1. StreamType' /\ DataByte \in Byte
  BY TakeByteTyped DEF Typed, PayloadByte
<1>2. data \in Seq(Byte) /\ Len(data) = Len(accumulator) + 1 /\ Len(accumulator) \in Nat
  BY <1>1 DEF Typed, FramingType
<1>3. current_packet \in AllCandidates /\ current_packet # None /\ in_packet
  BY DEF PayloadByte, Typed, FramingType
<1>4. current_length \in Nat \ {0}
  BY <1>2, <1>3 DEF Typed, FramingType, Bounded
<1>5. IF Buffered(data, current_packet, current_length)
        THEN Process(data, current_packet, current_length)
        ELSE /\ accumulator' = data
             /\ UNCHANGED <<candidates, header_index, in_packet, current_packet,
                            current_length, context, output, running>>
  BY DEF PayloadByte
<1> HIDE DEF data
<1>6. CASE Buffered(data, current_packet, current_length)
  <2>1. FramingType' /\ OutputType' /\ Bounded'
    BY <1>2, <1>3, <1>4, <1>5, <1>6, ProcessTyped DEF Typed
  <2> QED BY <1>1, <2>1 DEF Typed
<1>7. CASE ~Buffered(data, current_packet, current_length)
  <2>1. /\ accumulator' = data
        /\ UNCHANGED <<candidates, header_index, in_packet, current_packet,
                       current_length, context, output, running>>
    BY <1>5, <1>7
  <2>2. FramingType'
    BY <1>2, <1>3, <2>1 DEF Typed, FramingType
  <2>3. OutputType'
    BY <2>1 DEF Typed, OutputType, output
  <2>4. Bounded'
    BY <1>2, <1>4, <1>7, <2>1 DEF Bounded, Buffered
  <2> QED BY <1>1, <2>2, <2>3, <2>4 DEF Typed
<1> QED BY <1>6, <1>7

\* Taking the entries keeps the types.
LEMMA GetSuccessionTyped ==
  ASSUME Typed, GetSuccession
  PROVE  Typed'
<1>1. StreamType' /\ FramingType' /\ Bounded'
  BY DEF GetSuccession, Typed, StreamType, FramingType, Bounded, stream, framing
<1>2. delivered' \in Seq(Entries) /\ succession' \in Seq(Entries)
  BY DEF GetSuccession, Typed, OutputType
<1>3. running' \in BOOLEAN
  BY DEF GetSuccession
<1>4. OutputType'
  BY <1>2, <1>3 DEF GetSuccession, Typed, OutputType
<1> QED BY <1>1, <1>4 DEF Typed

\* Every step keeps the types and the bound of the accumulator.
LEMMA NextTyped == Typed /\ [Next]_vars => Typed'
<1> SUFFICES ASSUME Typed, [Next]_vars PROVE Typed'
  OBVIOUS
<1>1. ASSUME NEW p \in Packets, Emit(p) PROVE Typed'
  BY <1>1, EmitTyped
<1>2. ASSUME NEW p \in Packets, NEW k \in 0..(Len(p) - 1), CutIn(p, k) PROVE Typed'
  BY <1>2, CutInTyped
<1>3. CASE SkipUnused
  BY <1>3, SkipUnusedTyped
<1>4. CASE PartialHeader
  BY <1>4, PartialHeaderTyped
<1>5. CASE FullHeader
  BY <1>5, FullHeaderTyped
<1>6. CASE PayloadByte
  BY <1>6, PayloadByteTyped
<1>7. CASE GetSuccession
  BY <1>7, GetSuccessionTyped
<1>8. CASE UNCHANGED vars
  BY <1>8 DEF Typed, StreamType, FramingType, OutputType, Bounded, vars, stream, framing, output
<1> QED BY <1>1, <1>2, <1>3, <1>4, <1>5, <1>6, <1>7, <1>8 DEF Next

\* The types and the bound of the accumulator hold always.
LEMMA TypedInvariant == Spec => []Typed
<1> QED BY InitTyped, NextTyped, PTL DEF Spec

\* The state keeps its type: search_header never indexes a header beyond its
\* end, and byte and header index go together outside of a packet.
THEOREM TypeCorrect == Spec => []TypeOK
<1>1. Typed => TypeOK
  BY TypeParts DEF Typed
<1> QED BY <1>1, TypedInvariant, PTL

-----------------------------------------------------------------------------
(* Framing.  As long as no buffer cut in, no exception was raised and no   *)
(* packet was stale, the interpreter stands between two packets or within  *)
(* the last one, and the accumulator and the rest are the two parts of it. *)

Handling(p) == [name |-> Name(DefinitionOf(p)), data |-> p]

\* The packets before the one that is read were handled.
HandledWhole ==
  /\ Len(handled) <= Len(whole)
  /\ \A i \in 1..Len(handled) : handled[i] = Handling(whole[i])

\* Outside of a packet the current one is still the packet handled last.
CurrentIsLast ==
  IF handled = <<>> THEN current_packet = None
  ELSE current_packet # None /\ current_length = Len(whole[Len(handled)])

\* Between two packets: at most a padding byte is left.
Boundary ==
  /\ accumulator = <<>> /\ header_index = 0 /\ candidates = AllCandidates /\ ~in_packet
  /\ Len(handled) = Len(whole)
  /\ rest # <<>> => IsPad(Last(sent)) /\ Len(rest) = 1 /\ rest[1] \in unused_packet_bytes

\* The part of p that is accumulated, and the part that is left.
Parts(p) ==
  /\ Len(accumulator) < Len(p) /\ Len(rest) = Len(p) - Len(accumulator)
  /\ \A b \in 1..Len(accumulator) : accumulator[b] = p[b]
  /\ \A b \in 1..Len(rest) : rest[b] = p[Len(accumulator) + b]

\* The header of p is read, and its definition is still a candidate.
InHeader(p) ==
  /\ ~in_packet
  /\ header_index = Len(accumulator)
  /\ DefinitionOf(p) \in candidates
  /\ \A i \in candidates : \A b \in 1..header_index : p[b] \in Header(i)[b]

\* The header of p was recognised.
InPayload(p) ==
  in_packet /\ current_packet = DefinitionOf(p) /\ current_length = Len(p)

\* Within packet p.
Within(p) ==
  /\ p = Last(whole) /\ p = Last(sent) /\ ~IsPad(p)
  /\ Len(whole) = Len(handled) + 1
  /\ Parts(p)
  /\ IF Len(accumulator) < Len(Header(DefinitionOf(p))) THEN InHeader(p) ELSE InPayload(p)

Framed ==
  /\ HandledWhole
  /\ ~in_packet => CurrentIsLast
  /\ Boundary \/ \E p \in Packets : Within(p)

\* Before the first packet is recognised no second one is emitted.
UnknownFirst == cuts = 0 /\ running /\ current_packet = None => Len(whole) <= 1

FrameInv == (cuts = 0 /\ running /\ ~StalePair => Framed) /\ UnknownFirst

\* A stale pair stays one as packets are emitted.
LEMMA StaleStays ==
  ASSUME whole \in Seq(Packets), NEW p, whole' \in {whole, Append(whole, p)}, ~StalePair'
  PROVE  ~StalePair
<1>1. Len(whole) \in Nat /\ Len(whole) <= Len(whole')
  OBVIOUS
<1>2. \A i \in 1..Len(whole) : whole'[i] = whole[i]
  OBVIOUS
<1>3. ASSUME NEW i \in 1..(Len(whole) - 1),
             Len(whole[i]) < Len(Header(DefinitionOf(whole[i + 1])))
      PROVE  FALSE
  <2>1. whole'[i] = whole[i] /\ whole'[i + 1] = whole[i + 1] /\ i \in 1..(Len(whole') - 1)
    BY <1>1, <1>2
  <2>2. Len(whole'[i]) < Len(Header(DefinitionOf(whole'[i + 1])))
    BY <1>3, <2>1
  <2> QED BY <2>1, <2>2 DEF StalePair
<1> QED BY <1>3 DEF StalePair

\* The header bytes of a packet are no padding bytes.
LEMMA HeaderBytes ==
  ASSUME NEW p \in Packets, ~IsPad(p), NEW b \in 1..Len(Header(DefinitionOf(p)))
  PROVE  /\ b \in 1..Len(p)
         /\ p[b] \in Header(DefinitionOf(p))[b]
         /\ p[b] \notin unused_packet_bytes
<1> DEFINE i == DefinitionOf(p)
<1>1. i \in AllCandidates /\ Begins(p, i)
  BY PacketFacts
<1> HIDE DEF i
<1>2. DOMAIN Header(i) = 1..Len(Header(i)) /\ Len(Header(i)) \in Nat
  BY <1>1, TableFacts
<1>3. SUFFICES ASSUME b \in 1..Len(Header(i))
               PROVE  b \in 1..Len(p) /\ p[b] \in Header(i)[b] /\ p[b] \notin unused_packet_bytes
  BY DEF i
<1>4. b \in DOMAIN Header(i)
  BY <1>2, <1>3
<1>5. Header(i)[b] \cap unused_packet_bytes = {}
  BY <1>1, <1>4, TableAssumption
<1>6. p[b] \in Header(i)[b] /\ Len(Header(i)) <= Len(p)
  BY <1>1, <1>4 DEF Begins
<1>7. Len(p) \in Nat
  BY PacketBytes
<1> QED BY <1>2, <1>3, <1>5, <1>6, <1>7

\* The two parts of p once data is what it begins with.
PartsAfter(p, data) ==
  /\ data \in Seq(Byte) /\ Len(data) = Len(accumulator) + 1 /\ Len(data) <= Len(p)
  /\ DataByte = p[Len(data)]
  /\ \A b \in 1..Len(data) : data[b] = p[b]
  /\ Len(rest') = Len(p) - Len(data)
  /\ \A b \in 1..Len(rest') : rest'[b] = p[Len(data) + b]
  /\ Len(data) = Len(p) => data = p /\ rest' = <<>>

\* A byte of the rest goes to the accumulator.
LEMMA PartsStep ==
  ASSUME Typed, NEW p \in Packets, Parts(p), TakeByte,
         NEW data, data = Append(accumulator, DataByte)
  PROVE  PartsAfter(p, data)
<1>1. /\ accumulator \in Seq(Byte) /\ Len(accumulator) \in Nat
      /\ rest \in Seq(Byte) /\ Len(rest) \in Nat \ {0} /\ rest' = Tail(rest)
  BY DEF Typed, StreamType, FramingType, TakeByte
<1>2. DataByte \in Byte /\ DataByte = rest[1]
  BY <1>1 DEF DataByte
<1>3. p \in Seq(Byte) /\ Len(p) \in Nat
  BY PacketBytes
<1>4. data \in Seq(Byte) /\ Len(data) = Len(accumulator) + 1
  BY <1>1, <1>2
<1>5. rest[1] = p[Len(accumulator) + 1] /\ Len(accumulator) < Len(p)
      /\ Len(rest) = Len(p) - Len(accumulator)
  BY <1>1 DEF Parts
<1>6. Len(data) <= Len(p) /\ DataByte = p[Len(data)]
  BY <1>1, <1>2, <1>3, <1>4, <1>5
<1>7. ASSUME NEW b \in 1..Len(data) PROVE data[b] = p[b]
  <2>1. CASE b \in 1..Len(accumulator)
    <3>1. accumulator[b] = p[b]
      BY <2>1 DEF Parts
    <3>2. data[b] = accumulator[b]
      BY <1>1, <1>2, <2>1
    <3> QED BY <3>1, <3>2
  <2>2. CASE b = Len(accumulator) + 1
    <3>1. data[b] = DataByte
      BY <1>1, <1>2, <2>2
    <3> QED BY <1>4, <1>6, <2>2, <3>1
  <2> QED BY <1>1, <1>4, <2>1, <2>2
<1>8. rest' \in Seq(Byte) /\ Len(rest') = Len(rest) - 1
      /\ \A b \in 1..Len(rest') : rest'[b] = rest[b + 1]
  BY <1>1
<1>9. Len(rest') = Len(p) - Len(data)
  BY <1>1, <1>3, <1>4, <1>5, <1>8
<1>10. ASSUME NEW b \in 1..Len(rest') PROVE rest'[b] = p[Len(data) + b]
  <2>1. b + 1 \in 1..Len(rest)
    BY <1>1, <1>8
  <2>2. rest[b + 1] = p[Len(accumulator) + (b + 1)]
    BY <2>1 DEF Parts
  <2>3. Len(accumulator) + (b + 1) = Len(data) + b
    BY <1>1, <1>4
  <2> QED BY <1>8, <2>2, <2>3
<1>11. ASSUME Len(data) = Len(p) PROVE data = p /\ rest' = <<>>
  <2>1. data = p
    BY <1>3, <1>4, <1>7, <1>11
  <2>2. rest' = <<>>
    BY <1>3, <1>8, <1>9, <1>11
  <2> QED BY <2>1, <2>2
<1> QED BY <1>4, <1>6, <1>7, <1>9, <1>10, <1>11 DEF PartsAfter

\* The last byte of p calls the handler, with the bytes of p.
LastByte(p) ==
  /\ HandledWhole /\ p = Last(whole) /\ ~IsPad(p) /\ DefinitionOf(p) # None
  /\ Len(whole) = Len(handled) + 1
  /\ Process(p, DefinitionOf(p), Len(p))
  /\ rest' = <<>> /\ whole' = whole

\* The handler call of the last byte ends between two packets.
LEMMA ProcessFramed ==
  ASSUME Typed, NEW p \in Packets, LastByte(p), running'
  PROVE  Framed'
<1> USE DEF LastByte
<1>1. ~HandleRaises(Name(DefinitionOf(p)), p)
  BY DEF Process, Raise
<1>2. /\ accumulator' = <<>> /\ candidates' = AllCandidates /\ header_index' = 0
      /\ in_packet' = FALSE /\ current_packet' = DefinitionOf(p) /\ current_length' = Len(p)
      /\ handled' = Append(handled, [name |-> Name(DefinitionOf(p)), data |-> p])
  BY <1>1, Zenon DEF Process, StartNext
<1>3. handled' = Append(handled, Handling(p))
  BY <1>2 DEF Handling
<1>4. handled \in Seq([name : STRING, data : Seq(Byte)]) /\ whole \in Seq(Packets)
      /\ Len(handled) \in Nat
  BY DEF Typed, OutputType, StreamType
<1>5. /\ Len(handled') = Len(handled) + 1
      /\ \A i \in 1..Len(handled) : handled'[i] = handled[i]
      /\ handled'[Len(handled) + 1] = Handling(p)
  BY <1>3, <1>4
<1>6. whole[Len(handled) + 1] = p
  BY DEF Last
<1>7. HandledWhole'
  <2>1. ASSUME NEW i \in 1..Len(handled') PROVE handled'[i] = Handling(whole[i])
    <3>1. CASE i \in 1..Len(handled)
      BY <1>5, <3>1 DEF HandledWhole
    <3>2. CASE i = Len(handled) + 1
      BY <1>5, <1>6, <3>2
    <3> QED BY <1>4, <1>5, <3>1, <3>2
  <2>2. \A i \in 1..Len(handled') : handled'[i] = Handling(whole'[i])
    BY <2>1
  <2> QED BY <1>4, <1>5, <2>2 DEF HandledWhole, Handling
<1>8. CurrentIsLast'
  BY <1>2, <1>4, <1>5, <1>6 DEF CurrentIsLast
<1>9. Boundary'
  BY <1>2, <1>4, <1>5 DEF Boundary
<1> QED BY <1>7, <1>8, <1>9 DEF Framed

\* What stays when only the emitter or only the reader of the trace moves.
LEMMA SkipUnusedFramed ==
  ASSUME Typed, Framed, SkipUnused
  PROVE  Framed'
<1>1. /\ ~in_packet /\ DataByte \in unused_packet_bytes /\ DataByte = rest[1]
      /\ rest # <<>> /\ rest' = Tail(rest) /\ whole' = whole /\ sent' = sent
      /\ UNCHANGED <<in_packet, current_packet, current_length, handled>>
  BY DEF SkipUnused, TakeByte, DataByte, output, Typed, StreamType
<1>2. /\ rest \in Seq(Byte) /\ accumulator \in Seq(Byte)
  BY DEF Typed, StreamType, FramingType
<1>3. ASSUME NEW p \in Packets, Within(p) PROVE FALSE
  <2>1. InHeader(p) /\ Len(accumulator) < Len(Header(DefinitionOf(p))) /\ ~IsPad(p) /\ Parts(p)
    BY <1>1, <1>3 DEF Within, InPayload
  <2>2. Len(Header(DefinitionOf(p))) \in Nat
    BY <2>1, PacketFacts, TableFacts
  <2>3. p[Len(accumulator) + 1] \notin unused_packet_bytes
    BY <1>2, <2>1, <2>2, HeaderBytes
  <2>4. Len(rest) \in Nat /\ Len(rest) # 0
    BY <1>1, <1>2
  <2>5. rest[1] = p[Len(accumulator) + 1]
    BY <2>1, <2>4 DEF Parts
  <2> QED BY <1>1, <2>3, <2>5
<1>4. Boundary
  BY <1>3 DEF Framed
<1>5. UNCHANGED <<accumulator, candidates, header_index>>
  BY <1>4, Zenon DEF SkipUnused, Boundary
<1>6. rest' = <<>>
  BY <1>1, <1>2, <1>4 DEF Boundary
<1>7. Boundary'
  BY <1>1, <1>4, <1>5, <1>6 DEF Boundary
<1>8. HandledWhole' /\ CurrentIsLast'
  BY <1>1 DEF Framed, HandledWhole, CurrentIsLast, Handling
<1> QED BY <1>7, <1>8 DEF Framed

\* A header byte is never read between two packets.
LEMMA HeaderByteWithin ==
  ASSUME Typed, Framed, HeaderByte
  PROVE  \E p \in Packets : /\ Within(p) /\ InHeader(p) /\ Parts(p) /\ ~IsPad(p)
                            /\ Len(accumulator) < Len(Header(DefinitionOf(p)))
<1>1. ~in_packet /\ DataByte \notin unused_packet_bytes /\ DataByte = rest[1] /\ rest # <<>>
  BY DEF HeaderByte, TakeByte, DataByte, Typed, StreamType
<1>2. ~Boundary
  BY <1>1 DEF Boundary
<1>3. PICK p \in Packets : Within(p)
  BY <1>2 DEF Framed
<1> QED BY <1>1, <1>3 DEF Within, InPayload

\* The facts on a header byte of p: p's definition still matches, and every
\* definition that does begins like p.
LEMMA MatchingFacts ==
  ASSUME Typed, NEW p \in Packets, ~IsPad(p), Parts(p), InHeader(p), TakeByte,
         Len(accumulator) < Len(Header(DefinitionOf(p)))
  PROVE  /\ DefinitionOf(p) \in Matching
         /\ \A i \in Matching : /\ i \in AllCandidates
                                /\ \A b \in 1..(header_index + 1) : p[b] \in Header(i)[b]
<1> DEFINE k == Len(accumulator) + 1
<1>1. k = header_index + 1 /\ header_index \in Nat
  BY DEF InHeader, Typed, FramingType
<1>2. DataByte = p[k]
  <2>1. PartsAfter(p, Append(accumulator, DataByte))
    BY PartsStep
  <2> QED BY <2>1 DEF PartsAfter
<1>3. Len(Header(DefinitionOf(p))) \in Nat
  BY PacketFacts, TableFacts
<1>4. p[k] \in Header(DefinitionOf(p))[k]
  BY <1>1, <1>3, HeaderBytes
<1>5. DefinitionOf(p) \in Matching
  BY <1>1, <1>2, <1>4 DEF Matching, InHeader
<1>6. ASSUME NEW i \in Matching, NEW b \in 1..(header_index + 1) PROVE p[b] \in Header(i)[b]
  <2>1. CASE b = header_index + 1
    BY <1>1, <1>2, <2>1 DEF Matching
  <2>2. CASE b \in 1..header_index
    BY <2>2 DEF Matching, InHeader
  <2> QED BY <1>1, <2>1, <2>2
<1>7. Matching \subseteq AllCandidates
  BY DEF Matching, Typed, FramingType
<1> QED BY <1>5, <1>6, <1>7

\* A byte that completes no header calls no handler.
LEMMA PartialHeaderFramed ==
  ASSUME Typed, Framed, PartialHeader, ~StalePair
  PROVE  Framed' /\ running' = running
<1>1. HeaderByte /\ TakeByte /\ ~in_packet /\ Complete = {} /\ whole' = whole /\ sent' = sent
  BY DEF PartialHeader, HeaderByte, TakeByte
<1>2. PICK p \in Packets : /\ Within(p) /\ InHeader(p) /\ Parts(p) /\ ~IsPad(p)
                           /\ Len(accumulator) < Len(Header(DefinitionOf(p)))
  BY <1>1, HeaderByteWithin
<1>3. /\ DefinitionOf(p) \in Matching
      /\ \A i \in Matching : /\ i \in AllCandidates
                             /\ \A b \in 1..(header_index + 1) : p[b] \in Header(i)[b]
  BY <1>1, <1>2, MatchingFacts
<1> SUFFICES ASSUME NEW data, data = Append(accumulator, DataByte)
             PROVE  Framed' /\ running' = running
  OBVIOUS
<1>4. /\ data \in Seq(Byte) /\ Len(data) = Len(accumulator) + 1 /\ Len(data) <= Len(p)
      /\ DataByte = p[Len(data)]
      /\ \A b \in 1..Len(data) : data[b] = p[b]
      /\ Len(rest') = Len(p) - Len(data)
      /\ \A b \in 1..Len(rest') : rest'[b] = p[Len(data) + b]
  <2>1. PartsAfter(p, data)
    BY <1>1, <1>2, PartsStep
  <2> QED BY <2>1 DEF PartsAfter
<1>5. Len(Header(DefinitionOf(p))) \in Nat /\ Len(accumulator) \in Nat /\ header_index = Len(accumulator)
  BY <1>2, PacketFacts, TableFacts DEF Typed, FramingType, InHeader
<1>6. Len(data) < Len(Header(DefinitionOf(p)))
  <2>1. Len(Header(DefinitionOf(p))) # header_index + 1
    BY <1>1, <1>3 DEF Complete
  <2> QED BY <1>2, <1>4, <1>5, <2>1
<1>7. ~Buffered(data, current_packet, current_length)
  <2>1. SUFFICES ASSUME current_packet # None PROVE Len(data) < current_length
    BY <1>4, <1>5 DEF Buffered, Typed, FramingType
  <2>2. handled # <<>> /\ current_length = Len(whole[Len(handled)])
    BY <1>1, <2>1 DEF Framed, CurrentIsLast
  <2>3. Len(handled) \in Nat \ {0} /\ Len(whole) = Len(handled) + 1 /\ whole[Len(handled) + 1] = p
    <3>1. Len(handled) \in Nat \ {0}
      BY <2>2 DEF Typed, OutputType
    <3>2. Len(whole) = Len(handled) + 1 /\ p = whole[Len(whole)]
      BY <1>2 DEF Within, Last
    <3> QED BY <3>1, <3>2
  <2>4. Len(handled) \in 1..(Len(whole) - 1)
    BY <2>3
  <2>5. ~(current_length < Len(Header(DefinitionOf(p))))
    BY <2>2, <2>3, <2>4 DEF StalePair
  <2>6. current_length \in Nat
    BY DEF Typed, FramingType
  <2> QED BY <1>4, <1>5, <1>6, <2>5, <2>6
<1>8. /\ accumulator' = data /\ candidates' = Matching /\ header_index' = header_index + 1
      /\ UNCHANGED <<in_packet, current_packet, current_length, handled, running>>
  BY <1>4, <1>7 DEF PartialHeader, output
<1>9. Parts(p)'
  <2>1. Len(accumulator') < Len(p)
    BY <1>4, <1>5, <1>6, <1>8, HeaderBytes, PacketBytes, PacketFacts, <1>2 DEF Begins
  <2> QED BY <1>4, <1>8, <2>1 DEF Parts
<1>10. InHeader(p)'
  BY <1>1, <1>3, <1>4, <1>5, <1>8 DEF InHeader
<1>11. Within(p)'
  BY <1>1, <1>2, <1>4, <1>6, <1>8, <1>9, <1>10 DEF Within, Last
<1>12. HandledWhole' /\ CurrentIsLast'
  BY <1>1, <1>8 DEF Framed, HandledWhole, CurrentIsLast, Handling
<1> QED BY <1>8, <1>11, <1>12 DEF Framed

\* A header that is complete is the header of the packet.
LEMMA FullHeaderFramed ==
  ASSUME Typed, Framed, FullHeader
  PROVE  (Framed' /\ running') \/ \E p \in Packets : LastByte(p)
<1>1. /\ HeaderByte /\ TakeByte /\ ~in_packet /\ Complete # {} /\ running
      /\ whole' = whole /\ sent' = sent
  BY DEF FullHeader, HeaderByte, TakeByte
<1>2. PICK p \in Packets : /\ Within(p) /\ InHeader(p) /\ Parts(p) /\ ~IsPad(p)
                           /\ Len(accumulator) < Len(Header(DefinitionOf(p)))
  BY <1>1, HeaderByteWithin
<1>3. \A i \in Matching : /\ i \in AllCandidates
                          /\ \A b \in 1..(header_index + 1) : p[b] \in Header(i)[b]
  BY <1>1, <1>2, MatchingFacts
<1> SUFFICES ASSUME NEW data, data = Append(accumulator, DataByte)
             PROVE  (Framed' /\ running') \/ LastByte(p)
  OBVIOUS
<1>4. PartsAfter(p, data)
  BY <1>1, <1>2, PartsStep
<1>5. /\ Len(data) = Len(accumulator) + 1 /\ Len(data) <= Len(p)
      /\ DataByte = p[Len(data)]
      /\ Len(data) = Len(p) => data = p /\ rest' = <<>>
  BY <1>4 DEF PartsAfter
<1>6. Len(p) \in Nat /\ Len(accumulator) \in Nat /\ header_index = Len(accumulator)
  BY <1>2, PacketBytes DEF Typed, FramingType, InHeader
<1> SUFFICES ASSUME NEW packet, packet = Min(Complete)
             PROVE  (Framed' /\ running') \/ LastByte(p)
  OBVIOUS
<1>7. packet = DefinitionOf(p) /\ Len(Header(packet)) = Len(data)
  <2>1. Complete \subseteq AllCandidates
    BY <1>3 DEF Complete
  <2>2. packet \in Complete
    BY <1>1, <2>1, FirstDefinition
  <2>3. packet \in Matching /\ packet \in AllCandidates /\ Len(Header(packet)) = header_index + 1
    BY <1>3, <2>2 DEF Complete
  <2>4. DOMAIN Header(packet) = 1..(header_index + 1)
    BY <2>3, TableFacts
  <2>5. Begins(p, packet)
    BY <1>3, <1>5, <1>6, <2>3, <2>4 DEF Begins
  <2> QED BY <1>2, <1>5, <1>6, <2>3, <2>5, PacketFacts
<1>8. Type(DataByte) \in DOMAIN Lengths(packet) /\ Lengths(packet)[Type(DataByte)] = Len(p)
  <2>1. HasLength(p, packet)
    BY <1>2, <1>7, PacketFacts
  <2> QED BY <1>5, <1>7, <2>1 DEF HasLength
<1>9. packet # None /\ packet \in AllCandidates
  BY <1>2, <1>7, PacketFacts, TableFacts
<1>10. IF Buffered(data, packet, Len(p)) THEN Process(data, packet, Len(p))
       ELSE /\ accumulator' = data
            /\ header_index' = 0
            /\ in_packet' = TRUE
            /\ current_packet' = packet /\ current_length' = Len(p)
            /\ UNCHANGED <<candidates, context, output, running>>
  BY <1>8 DEF FullHeader
<1>11. HandledWhole /\ Len(whole) = Len(handled) + 1 /\ p = Last(whole) /\ p = Last(sent)
  BY <1>2 DEF Framed, Within
<1>12. CASE Buffered(data, packet, Len(p))
  <2>1. data = p /\ rest' = <<>>
    BY <1>5, <1>6, <1>12 DEF Buffered
  <2>2. Process(p, DefinitionOf(p), Len(p))
    BY <1>7, <1>10, <1>12, <2>1
  <2>3. DefinitionOf(p) # None
    BY <1>7, <1>9
  <2> QED BY <1>1, <1>2, <1>11, <2>1, <2>2, <2>3 DEF LastByte
<1>13. CASE ~Buffered(data, packet, Len(p))
  <2>1. /\ accumulator' = data /\ in_packet' = TRUE
        /\ current_packet' = DefinitionOf(p) /\ current_length' = Len(p)
        /\ UNCHANGED <<handled, running>>
    BY <1>7, <1>10, <1>13 DEF output
  <2>2. Len(data) < Len(p)
    BY <1>5, <1>6, <1>9, <1>13 DEF Buffered
  <2>3. Parts(p)'
    BY <1>4, <2>1, <2>2 DEF Parts, PartsAfter
  <2>4. ~(Len(accumulator') < Len(Header(DefinitionOf(p))))
    BY <1>5, <1>6, <1>7, <2>1
  <2>5. InPayload(p)'
    BY <2>1 DEF InPayload
  <2>6. Within(p)'
    BY <1>1, <1>2, <1>11, <2>1, <2>3, <2>4, <2>5 DEF Within, Last
  <2>7. HandledWhole'
    BY <1>1, <1>11, <2>1 DEF HandledWhole, Handling
  <2> QED BY <1>1, <2>1, <2>6, <2>7 DEF Framed
<1> QED BY <1>12, <1>13

\* A payload byte is one of the packet whose header was recognised.
LEMMA PayloadByteFramed ==
  ASSUME Typed, Framed, PayloadByte
  PROVE  (Framed' /\ running') \/ \E p \in Packets : LastByte(p)
<1>1. TakeByte /\ running /\ in_packet /\ whole' = whole /\ sent' = sent
  BY DEF PayloadByte, TakeByte
<1>2. ~Boundary
  BY <1>1 DEF Boundary
<1>3. PICK p \in Packets : Within(p)
  BY <1>2 DEF Framed
<1>4. /\ InPayload(p) /\ Parts(p) /\ ~IsPad(p)
      /\ ~(Len(accumulator) < Len(Header(DefinitionOf(p))))
  BY <1>1, <1>3 DEF Within, InHeader
<1> SUFFICES ASSUME NEW data, data = Append(accumulator, DataByte)
             PROVE  (Framed' /\ running') \/ LastByte(p)
  OBVIOUS
<1>5. PartsAfter(p, data)
  BY <1>1, <1>4, PartsStep
<1>6. /\ Len(data) = Len(accumulator) + 1 /\ Len(data) <= Len(p)
      /\ Len(data) = Len(p) => data = p /\ rest' = <<>>
  BY <1>5 DEF PartsAfter
<1>7. Len(p) \in Nat /\ Len(accumulator) \in Nat
  BY PacketBytes DEF Typed, FramingType
<1>8. current_packet = DefinitionOf(p) /\ current_length = Len(p) /\ DefinitionOf(p) # None
  BY <1>1, <1>4 DEF InPayload, Typed, FramingType
<1>9. IF Buffered(data, current_packet, current_length)
        THEN Process(data, current_packet, current_length)
        ELSE /\ accumulator' = data
             /\ UNCHANGED <<candidates, header_index, in_packet, current_packet,
                            current_length, context, output, running>>
  BY DEF PayloadByte
<1>10. HandledWhole /\ Len(whole) = Len(handled) + 1 /\ p = Last(whole) /\ p = Last(sent)
  BY <1>3 DEF Framed, Within
<1>11. CASE Buffered(data, current_packet, current_length)
  <2>1. data = p /\ rest' = <<>>
    BY <1>6, <1>7, <1>8, <1>11 DEF Buffered
  <2>2. Process(p, DefinitionOf(p), Len(p))
    BY <1>8, <1>9, <1>11, <2>1
  <2> QED BY <1>1, <1>4, <1>8, <1>10, <2>1, <2>2 DEF LastByte
<1>12. CASE ~Buffered(data, current_packet, current_length)
  <2>1. /\ accumulator' = data
        /\ UNCHANGED <<in_packet, current_packet, current_length, handled, running>>
    BY <1>9, <1>12 DEF output
  <2>2. Len(data) < Len(p)
    BY <1>6, <1>7, <1>8, <1>12 DEF Buffered
  <2>3. Parts(p)'
    BY <1>5, <2>1, <2>2 DEF Parts, PartsAfter
  <2>4. Len(Header(DefinitionOf(p))) \in Nat
    BY <1>4, PacketFacts, TableFacts
  <2>5. ~(Len(accumulator') < Len(Header(DefinitionOf(p))))
    BY <1>4, <1>6, <1>7, <2>1, <2>4
  <2>6. InPayload(p)'
    BY <1>4, <2>1 DEF InPayload
  <2>7. Within(p)'
    BY <1>1, <1>4, <1>10, <2>1, <2>3, <2>5, <2>6 DEF Within, Last
  <2>8. HandledWhole'
    BY <1>1, <1>10, <2>1 DEF HandledWhole, Handling
  <2> QED BY <1>1, <2>1, <2>7, <2>8 DEF Framed
<1> QED BY <1>11, <1>12

\* A packet is emitted when the one before it is through.
LEMMA EmitFramed ==
  ASSUME Typed, Framed, NEW p \in Packets, Emit(p)
  PROVE  Framed'
<1>1. /\ rest = <<>> /\ rest' = p /\ sent' = Append(sent, p)
      /\ whole' = IF IsPad(p) THEN whole ELSE Append(whole, p)
      /\ UNCHANGED <<accumulator, candidates, header_index, in_packet, current_packet,
                     current_length, handled>>
  BY DEF Emit, Record, framing, output
<1>2. /\ p \in Seq(Byte) /\ Len(p) \in Nat \ {0} /\ (IsPad(p) => Len(p) = 1)
      /\ sent \in Seq(Packets) /\ whole \in Seq(Packets) /\ Len(handled) \in Nat
  BY PacketBytes DEF Typed, StreamType, OutputType
<1>3. Boundary
  <2>1. ASSUME NEW q \in Packets, Within(q) PROVE FALSE
    <3>1. Len(accumulator) < Len(q) /\ Len(rest) = Len(q) - Len(accumulator)
      BY <2>1 DEF Within, Parts
    <3>2. Len(rest) = 0 /\ Len(q) \in Nat /\ Len(accumulator) \in Nat
      BY <1>1, PacketBytes DEF Typed, FramingType
    <3> QED BY <3>1, <3>2
  <2> QED BY <2>1 DEF Framed
<1>4. sent' \in Seq(Packets) /\ Last(sent') = p
  BY <1>1, <1>2 DEF Last
<1>5. HandledWhole'
  <2>1. Len(whole) <= Len(whole') /\ \A i \in 1..Len(whole) : whole'[i] = whole[i]
    BY <1>1, <1>2
  <2>2. \A i \in 1..Len(handled) : i \in 1..Len(whole) /\ handled[i] = Handling(whole[i])
    BY <1>2, <1>3 DEF Framed, HandledWhole, Boundary
  <2>3. \A i \in 1..Len(handled') : handled'[i] = Handling(whole'[i])
    BY <1>1, <2>1, <2>2
  <2>4. Len(handled') <= Len(whole')
    BY <1>1, <1>2, <1>3, <2>1 DEF Boundary
  <2> QED BY <2>3, <2>4 DEF HandledWhole, Handling
<1>6. CurrentIsLast'
  <2>1. CurrentIsLast
    BY <1>3 DEF Framed, Boundary
  <2>2. CASE handled = <<>>
    BY <1>1, <2>1, <2>2 DEF CurrentIsLast
  <2>3. CASE handled # <<>>
    <3>1. Len(handled) \in 1..Len(whole)
      BY <1>2, <1>3, <2>3 DEF Boundary, Typed, OutputType
    <3>2. whole'[Len(handled)] = whole[Len(handled)]
      BY <1>1, <1>2, <3>1
    <3> QED BY <1>1, <2>1, <2>3, <3>2 DEF CurrentIsLast
  <2> QED BY <2>2, <2>3
<1>7. CASE IsPad(p)
  <2>1. IsPad(p) /\ rest' = p /\ Len(rest') = 1 /\ rest'[1] \in unused_packet_bytes
    BY <1>1, <1>2, <1>7 DEF IsPad
  <2>2. IsPad(Last(sent))'
    BY <1>4, <1>7 DEF IsPad, Last
  <2>3. Boundary'
    BY <1>1, <1>3, <1>7, <2>1, <2>2 DEF Boundary
  <2> QED BY <1>5, <1>6, <2>3 DEF Framed
<1>8. CASE ~IsPad(p)
  <2>1. whole' = Append(whole, p)
    BY <1>1, <1>8
  <2>2. Last(whole') = p /\ Len(whole') = Len(whole) + 1
    BY <1>2, <2>1 DEF Last
  <2>3. Len(accumulator') = 0 /\ accumulator' = <<>>
    BY <1>1, <1>3 DEF Boundary
  <2>4. Parts(p)'
    BY <1>1, <1>2, <2>3 DEF Parts
  <2>5. DefinitionOf(p) \in AllCandidates /\ Len(Header(DefinitionOf(p))) \in Nat \ {0}
    BY <1>8, PacketFacts, TableFacts
  <2>6. InHeader(p)'
    BY <1>1, <1>3, <2>3, <2>5 DEF InHeader, Boundary
  <2>7. Len(accumulator') < Len(Header(DefinitionOf(p)))
    BY <2>3, <2>5
  <2>8. Len(whole') = Len(handled') + 1
    BY <1>1, <1>3, <2>2 DEF Boundary
  <2>9. Within(p)'
    BY <1>4, <1>8, <2>2, <2>4, <2>6, <2>7, <2>8 DEF Within
  <2> QED BY <1>5, <1>6, <2>9 DEF Framed
<1> QED BY <1>7, <1>8

\* The interpreter starts between two packets.
LEMMA InitFrame == Init => FrameInv
<1> SUFFICES ASSUME Init PROVE FrameInv
  OBVIOUS
<1> USE DEF Init
<1>1. Len(whole) = 0 /\ Len(handled) = 0
  OBVIOUS
<1>2. HandledWhole
  BY <1>1 DEF HandledWhole
<1>3. CurrentIsLast
  BY DEF CurrentIsLast
<1>4. Boundary
  BY <1>1 DEF Boundary
<1> QED BY <1>1, <1>2, <1>3, <1>4 DEF FrameInv, Framed, UnknownFirst

\* Steps that move neither the trace nor the framing.
LEMMA StillFramed ==
  ASSUME UNCHANGED <<stream, framing, handled>>
  PROVE  /\ Framed => Framed'
         /\ StalePair' <=> StalePair
<1>1. /\ UNCHANGED <<sent, whole, rest, accumulator, candidates, header_index, in_packet>>
      /\ UNCHANGED <<current_packet, current_length, handled>>
  BY DEF stream, framing
<1>2. HandledWhole => HandledWhole'
  BY <1>1 DEF HandledWhole, Handling
<1>3. CurrentIsLast => CurrentIsLast'
  BY <1>1 DEF CurrentIsLast
<1>4. Boundary => Boundary'
  BY <1>1 DEF Boundary, IsPad, Last
<1>5. ASSUME NEW p \in Packets, Within(p) PROVE Within(p)'
  <2>1. Parts(p)' /\ (InHeader(p) => InHeader(p)') /\ (InPayload(p) => InPayload(p)')
    BY <1>1, <1>5 DEF Within, Parts, InHeader, InPayload
  <2> QED BY <1>1, <1>5, <2>1 DEF Within, Last
<1>6. Framed => Framed'
  BY <1>1, <1>2, <1>3, <1>4, <1>5 DEF Framed
<1>7. StalePair' <=> StalePair
  BY <1>1 DEF StalePair
<1> QED BY <1>6, <1>7

\* A cut is counted.
LEMMA CutCounted ==
  ASSUME Typed, NEW p, NEW k, CutIn(p, k)
  PROVE  cuts' # 0
  BY DEF Typed, StreamType, CutIn

\* One step of the framing while the trace is uncut.
LEMMA StepFramed ==
  ASSUME Typed, Framed, ~StalePair, [Next]_vars, cuts' = 0, running'
  PROVE  Framed'
<1>1. ASSUME NEW p \in Packets, Emit(p) PROVE Framed'
  BY <1>1, EmitFramed
<1>2. ASSUME NEW p \in Packets, NEW k \in 0..(Len(p) - 1), CutIn(p, k) PROVE Framed'
  BY <1>2, CutCounted
<1>3. CASE SkipUnused
  BY <1>3, SkipUnusedFramed
<1>4. CASE PartialHeader
  BY <1>4, PartialHeaderFramed
<1>5. CASE FullHeader
  BY <1>5, FullHeaderFramed, ProcessFramed
<1>6. CASE PayloadByte
  BY <1>6, PayloadByteFramed, ProcessFramed
<1>7. CASE GetSuccession
  BY <1>7, StillFramed DEF GetSuccession
<1>8. CASE UNCHANGED vars
  BY <1>8, StillFramed DEF vars, output
<1> QED BY <1>1, <1>2, <1>3, <1>4, <1>5, <1>6, <1>7, <1>8 DEF Next

\* What the steps do to the emitted packets, to the count of cuts, to running
\* and to the current packet, which is never forgotten.
LEMMA StepHistory ==
  ASSUME Typed, [Next]_vars, cuts' = 0, running'
  PROVE  /\ cuts = 0 /\ running
         /\ whole' = whole \/ \E p \in Packets : Emit(p) /\ whole' = Append(whole, p)
         /\ current_packet' = None => current_packet = None
<1> DEFINE goal == /\ cuts = 0 /\ running
                   /\ whole' = whole \/ \E p \in Packets : Emit(p) /\ whole' = Append(whole, p)
                   /\ current_packet' = None => current_packet = None
<1>1. ASSUME NEW p \in Packets, Emit(p) PROVE goal
  <2>1. cuts = 0 /\ running /\ current_packet' = current_packet
    BY <1>1 DEF Emit, framing
  <2>2. whole' = whole \/ whole' = Append(whole, p)
    BY <1>1 DEF Emit, Record
  <2> QED BY <1>1, <2>1, <2>2
<1>2. ASSUME NEW p \in Packets, NEW k \in 0..(Len(p) - 1), CutIn(p, k) PROVE goal
  BY <1>2, CutCounted
<1>3. ASSUME NEW data, NEW packet, NEW length, packet # None,
             Process(data, packet, length)
      PROVE  current_packet' # None
  <2>1. CASE HandleRaises(Name(packet), data)
    <3>1. running' = FALSE
      BY <1>3, <2>1 DEF Process, Raise
    <3> QED BY <3>1
  <2>2. CASE ~HandleRaises(Name(packet), data)
    BY <1>3, <2>2, Zenon DEF Process
  <2> QED BY <2>1, <2>2
<1>4. CASE SkipUnused
  BY <1>4 DEF SkipUnused, TakeByte
<1>5. CASE PartialHeader
  <2>1. current_packet' = None => current_packet = None
    BY <1>3, <1>5 DEF PartialHeader, Buffered
  <2> QED BY <1>5, <2>1 DEF PartialHeader, HeaderByte, TakeByte
<1>6. CASE FullHeader
  <2>1. cuts = 0 /\ running /\ whole' = whole
    BY <1>6 DEF FullHeader, HeaderByte, TakeByte
  <2>2. Min(Complete) # None
    <3>1. Complete \subseteq AllCandidates /\ Complete # {}
      BY <1>6 DEF FullHeader, Complete, Matching, Typed, FramingType
    <3>2. Min(Complete) \in AllCandidates
      BY <3>1, FirstDefinition
    <3> QED BY <3>2, TableFacts
  <2> SUFFICES ASSUME NEW packet, packet = Min(Complete),
                      NEW length, length = Lengths(packet)[Type(DataByte)]
               PROVE  goal
    OBVIOUS
  <2>3. IF Type(DataByte) \notin DOMAIN Lengths(packet) THEN Raise
        ELSE IF Buffered(Append(accumulator, DataByte), packet, length)
               THEN Process(Append(accumulator, DataByte), packet, length)
        ELSE current_packet' = packet
    BY <1>6 DEF FullHeader
  <2>4. ~Raise
    BY DEF Raise
  <2>5. packet # None
    BY <2>2
  <2>6. current_packet' # None
    BY <1>3, <2>3, <2>4, <2>5
  <2> QED BY <2>1, <2>6
<1>7. CASE PayloadByte
  <2>1. current_packet' = None => current_packet = None
    BY <1>3, <1>7 DEF PayloadByte, Buffered
  <2> QED BY <1>7, <2>1 DEF PayloadByte, TakeByte
<1>8. CASE GetSuccession
  BY <1>8 DEF GetSuccession, stream, framing
<1>9. CASE UNCHANGED vars
  BY <1>9 DEF vars, stream, framing
<1> QED BY <1>1, <1>2, <1>4, <1>5, <1>6, <1>7, <1>8, <1>9 DEF Next

\* Every step keeps FrameInv.
LEMMA NextFrame == Typed /\ FrameInv /\ [Next]_vars => FrameInv'
<1> SUFFICES ASSUME Typed, FrameInv, [Next]_vars, cuts' = 0, running'
             PROVE  /\ ~StalePair' => Framed'
                    /\ current_packet' = None => Len(whole') <= 1
  BY DEF FrameInv, UnknownFirst
<1>1. /\ cuts = 0 /\ running
      /\ whole' = whole \/ \E p \in Packets : Emit(p) /\ whole' = Append(whole, p)
      /\ current_packet' = None => current_packet = None
  BY StepHistory
<1>2. whole \in Seq(Packets) /\ Len(whole) \in Nat
  BY DEF Typed, StreamType
<1>3. ASSUME ~StalePair' PROVE Framed'
  <2>1. \E p : whole' \in {whole, Append(whole, p)}
    BY <1>1
  <2>2. ~StalePair
    BY <1>2, <1>3, <2>1, StaleStays
  <2>3. Framed
    BY <1>1, <2>2 DEF FrameInv
  <2> QED BY <2>2, <2>3, StepFramed
<1>4. ASSUME current_packet' = None PROVE Len(whole') <= 1
  <2>1. current_packet = None /\ Len(whole) <= 1
    BY <1>1, <1>4 DEF FrameInv, UnknownFirst
  <2>2. CASE whole' = whole
    BY <2>1, <2>2
  <2>3. ASSUME NEW p \in Packets, Emit(p), whole' = Append(whole, p) PROVE Len(whole) = 0
    <3>1. ~StalePair
      BY <1>2, <2>1 DEF StalePair
    <3>2. Framed
      BY <1>1, <3>1 DEF FrameInv
    <3>3. rest = <<>>
      BY <2>3 DEF Emit
    <3>4. ~ \E q \in Packets : Within(q)
      <4>1. ASSUME NEW q \in Packets, Within(q) PROVE FALSE
        <5>1. Len(accumulator) < Len(q) /\ Len(rest) = Len(q) - Len(accumulator)
          BY <4>1 DEF Within, Parts
        <5>2. Len(rest) = 0 /\ Len(q) \in Nat /\ Len(accumulator) \in Nat
          BY <3>3, PacketBytes DEF Typed, FramingType
        <5> QED BY <5>1, <5>2
      <4> QED BY <4>1
    <3>5. Boundary
      BY <3>2, <3>4 DEF Framed
    <3>6. handled = <<>>
      BY <2>1, <3>2, <3>5 DEF Framed, Boundary, CurrentIsLast
    <3> QED BY <3>5, <3>6 DEF Boundary
  <2>4. \A p \in Packets : Len(Append(whole, p)) = Len(whole) + 1
    BY <1>2
  <2> QED BY <1>1, <2>2, <2>3, <2>4
<1> QED BY <1>3, <1>4

\* The framing invariant holds always.
LEMMA FrameInvariant == Spec => [](Typed /\ FrameInv)
<1>1. Init => Typed /\ FrameInv
  BY InitTyped, InitFrame
<1>2. Typed /\ FrameInv /\ [Next]_vars => (Typed /\ FrameInv)'
  BY NextTyped, NextFrame
<1> QED BY <1>1, <1>2, PTL DEF Spec

\* In an uncut trace without a stale pair process_byte handles every packet
\* that is through, once, in order, under its name and with its own bytes.
THEOREM PacketsFramed == Spec => []FramingKept
<1>1. Typed /\ FrameInv => FramingKept
  <2>1. SUFFICES ASSUME Typed, Framed
                 PROVE  handled = [i \in DOMAIN Past |-> [name |-> Name(DefinitionOf(Past[i])),
                                                          data |-> Past[i]]]
    BY DEF FrameInv, FramingKept
  <2>2. /\ whole \in Seq(Packets) /\ Len(whole) \in Nat
        /\ rest \in Seq(Byte) /\ accumulator \in Seq(Byte)
        /\ handled \in Seq([name : STRING, data : Seq(Byte)]) /\ Len(handled) \in Nat
    <3>1. whole \in Seq(Packets) /\ Len(whole) \in Nat /\ rest \in Seq(Byte)
      BY <2>1 DEF Typed, StreamType
    <3>2. accumulator \in Seq(Byte)
      BY <2>1 DEF Typed, FramingType
    <3>3. handled \in Seq([name : STRING, data : Seq(Byte)])
      BY <2>1 DEF Typed, OutputType
    <3> QED BY <3>1, <3>2, <3>3
  <2>3. DOMAIN Past = 1..Len(handled) /\ \A i \in 1..Len(handled) : Past[i] = whole[i]
    <3>1. CASE Boundary
      <4>1. Past = whole /\ Len(handled) = Len(whole)
        BY <3>1 DEF Boundary, Past
      <4> QED BY <2>2, <4>1
    <3>2. ASSUME NEW p \in Packets, Within(p)
          PROVE  DOMAIN Past = 1..Len(handled) /\ \A i \in 1..Len(handled) : Past[i] = whole[i]
      <4>1. Len(whole) = Len(handled) + 1 /\ p = Last(sent) /\ ~IsPad(p) /\ Parts(p)
        BY <3>2 DEF Within
      <4>2. rest # <<>>
        <5>1. Len(rest) = Len(p) - Len(accumulator) /\ Len(accumulator) < Len(p)
          BY <4>1 DEF Parts
        <5> QED BY <2>2, <5>1, PacketBytes
      <4>3. Past = SubSeq(whole, 1, Len(whole) - 1)
        BY <4>1, <4>2 DEF Past, Front
      <4> QED BY <2>2, <4>1, <4>3
    <3> QED BY <2>1, <3>1, <3>2 DEF Framed
  <2>4. \A i \in 1..Len(handled) : handled[i] = [name |-> Name(DefinitionOf(Past[i])), data |-> Past[i]]
    BY <2>1, <2>3 DEF Framed, HandledWhole, Handling
  <2>5. handled = [i \in 1..Len(handled) |-> handled[i]]
    BY <2>2
  <2> QED BY <2>3, <2>4, <2>5
<1> QED BY <1>1, FrameInvariant, PTL

\* The accumulator is bounded by the length of the current packet, and before
\* the first packet is recognised the candidates are only used up by a trace
\* that was cut (search_header with no candidate left).
THEOREM SwallowBounded == Spec => []SwallowsOnlyCutStart
<1>1. Typed /\ FrameInv => SwallowsOnlyCutStart
  <2>1. SUFFICES ASSUME Typed, FrameInv, current_packet = None, running, candidates = {}
                 PROVE  cuts > 0
    BY DEF SwallowsOnlyCutStart, Typed, Bounded
  <2>2. SUFFICES ASSUME cuts = 0 PROVE FALSE
    <3>1. cuts \in Nat
      BY <2>1, TableAssumption DEF Typed, StreamType
    <3> QED BY <3>1
  <2>3. whole \in Seq(Packets) /\ Len(whole) \in Nat /\ Len(whole) <= 1
    BY <2>1, <2>2 DEF FrameInv, UnknownFirst, Typed, StreamType
  <2>4. ~StalePair
    BY <2>3 DEF StalePair
  <2>5. Framed
    BY <2>1, <2>2, <2>4 DEF FrameInv
  <2>6. ~Boundary
    BY <2>1, TableAssumption DEF Boundary
  <2>7. PICK p \in Packets : Within(p)
    BY <2>5, <2>6 DEF Framed
  <2>8. InPayload(p) /\ ~IsPad(p)
    BY <2>1, <2>7 DEF Within, InHeader
  <2> QED BY <2>1, <2>8 DEF InPayload, Typed, FramingType
<1> QED BY <1>1, FrameInvariant, PTL

-----------------------------------------------------------------------------
(* What was handled, and what read_trace takes of it.                      *)

NamesIn(h) == [i \in DOMAIN h |-> h[i].name]

\* The handler calls that give read_trace an entry.
ShownIn(h) ==
  {i \in DOMAIN h : Shown(NamesIn(h), i) /\ HasResult(NamesIn(h)[i], h[i].data)}

PlaceIn(h, i) == Cardinality({j \in ShownIn(h) : j <= i})

Taken == delivered \o succession

\* The entries t are those of the handler calls h, in order.
InOrder(h, t) ==
  /\ Len(t) = Cardinality(ShownIn(h))
  /\ \A i \in ShownIn(h) : t[PlaceIn(h, i)].name = NamesIn(h)[i]

\* The handlers' context says what was handled.
ContextInv ==
  /\ context.disabled <=> ~Shown(NamesIn(handled), Len(handled))
  /\ context.timed <=> \E j \in DOMAIN handled : handled[j].name = "TSC"
  /\ context.LastIP <=> \E j \in DOMAIN handled : /\ handled[j].name \in IpNames
                                                  /\ Type(handled[j].data[1]) # 0

\* Handler call i gave an entry without a time.
UntimedIn(h, i) ==
  /\ Shown(NamesIn(h), i)
  /\ NamesIn(h)[i] \notin TimeNames \/ \A j \in 1..i : NamesIn(h)[j] # "TSC"

EntriesStop ==
  \A e \in DOMAIN succession : succession[e].stops => \E i \in DOMAIN handled : UntimedIn(handled, i)

HistoryInv == ContextInv /\ InOrder(handled, Taken) /\ EntriesStop

\* The last of some positions up to i.
LEMMA LastPosition ==
  ASSUME NEW i \in Nat, NEW S, S \subseteq 1..i, S # {}
  PROVE  Max(S) \in S /\ \A y \in S : y <= Max(S)
<1> DEFINE below == {ss \in Nat \X Nat : ss[1] < ss[2]}
           T == {i - y : y \in S}
<1>1. IsWellFoundedOn(below, Nat)
  BY NatLessThanWellFounded DEF OpToRel
<1>2. \A y, x \in Nat : y < x => <<y, x>> \in below
  OBVIOUS
<1>3. \A y \in S : y \in Nat /\ i - y \in Nat /\ i - y \in T
  OBVIOUS
<1>4. T \subseteq Nat /\ T # {}
  BY <1>3
<1> HIDE DEF below
<1>5. PICK t \in T : \A u \in T : ~(<<u, t>> \in below)
  BY <1>1, <1>4, WFMin
<1>6. PICK x \in S : t = i - x
  BY <1>5
<1> HIDE DEF T
<1>7. ASSUME NEW y \in S PROVE y <= x
  <2>1. i - y \in T /\ i - y \in Nat /\ t \in Nat
    BY <1>3, <1>4
  <2>2. ~(i - y < t)
    BY <1>2, <1>5, <2>1, Zenon
  <2> QED BY <1>3, <1>6, <2>2
<1>8. \A y \in S : x >= y
  BY <1>3, <1>7
<1>9. Max(S) \in S /\ \A y \in S : Max(S) >= y
  BY <1>8 DEF Max
<1> QED BY <1>3, <1>9

\* Whether a position lies outside of a PSB group depends on the names up to it.
LEMMA ShownSame ==
  ASSUME NEW i \in Nat, NEW f, NEW g, \A j \in 1..i : f[j] = g[j]
  PROVE  Shown(f, i) <=> Shown(g, i)
<1> DEFINE S == {j \in 1..i : f[j] \in {"PSB", "PSBEND"}}
<1>1. S = {j \in 1..i : g[j] \in {"PSB", "PSBEND"}}
  OBVIOUS
<1>2. S # {} => f[Max(S)] = g[Max(S)]
  <2>1. SUFFICES ASSUME S # {} PROVE Max(S) \in 1..i
    OBVIOUS
  <2>2. S \subseteq 1..i
    OBVIOUS
  <2> HIDE DEF S
  <2>3. Max(S) \in S
    BY <2>1, <2>2, LastPosition
  <2> QED BY <2>2, <2>3
<1>3. Shown(f, i) <=> (S # {} => f[Max(S)] = "PSBEND")
  BY DEF Shown
<1>4. Shown(g, i) <=> (S # {} => g[Max(S)] = "PSBEND")
  BY <1>1 DEF Shown
<1> QED BY <1>2, <1>3, <1>4

\* How a name moves in and out of a PSB group.
LEMMA ShownNext ==
  ASSUME NEW n \in Nat, NEW f
  PROVE  Shown(f, n + 1) <=> f[n + 1] # "PSB" /\ (f[n + 1] = "PSBEND" \/ Shown(f, n))
<1> DEFINE S == {j \in 1..n : f[j] \in {"PSB", "PSBEND"}}
           T == {j \in 1..(n + 1) : f[j] \in {"PSB", "PSBEND"}}
<1>1. Shown(f, n) <=> (S # {} => f[Max(S)] = "PSBEND")
  BY DEF Shown
<1>2. Shown(f, n + 1) <=> (T # {} => f[Max(T)] = "PSBEND")
  BY DEF Shown
<1>3. CASE f[n + 1] \in {"PSB", "PSBEND"}
  <2>1. n + 1 \in T /\ T \subseteq 1..(n + 1)
    BY <1>3
  <2> HIDE DEF T
  <2>2. Max(T) = n + 1
    <3>1. n + 1 \in Nat /\ T # {}
      BY <2>1
    <3>2. Max(T) \in T /\ \A y \in T : y <= Max(T)
      BY <2>1, <3>1, LastPosition
    <3>3. \A m \in T : n + 1 <= m => m = n + 1
      BY <2>1
    <3> QED BY <2>1, <3>2, <3>3
  <2> QED BY <1>2, <1>3, <2>1, <2>2
<1>4. CASE f[n + 1] \notin {"PSB", "PSBEND"}
  <2>1. S = T
    <3>1. \A j : j \in 1..(n + 1) <=> j \in 1..n \/ j = n + 1
      OBVIOUS
    <3> QED BY <1>4, <3>1
  <2> HIDE DEF S, T
  <2> QED BY <1>1, <1>2, <1>4, <2>1
<1> QED BY <1>3, <1>4

\* The handler calls g are the calls h and one more.
OneMore(h, r, g) ==
  /\ Len(h) \in Nat /\ DOMAIN h = 1..Len(h)
  /\ Len(g) = Len(h) + 1 /\ DOMAIN g = 1..(Len(h) + 1)
  /\ \A i \in 1..Len(h) : g[i] = h[i] /\ NamesIn(g)[i] = NamesIn(h)[i]
  /\ g[Len(h) + 1] = r /\ NamesIn(g)[Len(h) + 1] = r.name

\* Append makes one handler call more.
LEMMA NamesAppend ==
  ASSUME NEW R, NEW h \in Seq(R), NEW r \in R, NEW g, g = Append(h, r)
  PROVE  OneMore(h, r, g)
<1>1. /\ Len(h) \in Nat /\ DOMAIN h = 1..Len(h)
      /\ Len(g) = Len(h) + 1 /\ DOMAIN g = 1..(Len(h) + 1)
      /\ \A i \in 1..Len(h) : g[i] = h[i]
      /\ g[Len(h) + 1] = r
  OBVIOUS
<1>2. \A i \in DOMAIN g : NamesIn(g)[i] = g[i].name
  BY DEF NamesIn
<1>3. \A i \in DOMAIN h : NamesIn(h)[i] = h[i].name
  BY DEF NamesIn
<1> QED BY <1>1, <1>2, <1>3 DEF OneMore

\* What one more call changes in the PSB groups.
LEMMA ShownAppend ==
  ASSUME NEW h, NEW r, NEW g, OneMore(h, r, g)
  PROVE  /\ \A i \in 0..Len(h) : Shown(NamesIn(g), i) <=> Shown(NamesIn(h), i)
         /\ Shown(NamesIn(g), Len(h) + 1) <=>
              r.name # "PSB" /\ (r.name = "PSBEND" \/ Shown(NamesIn(h), Len(h)))
<1>1. /\ Len(h) \in Nat
      /\ \A i \in 1..Len(h) : NamesIn(g)[i] = NamesIn(h)[i]
      /\ NamesIn(g)[Len(h) + 1] = r.name
  BY DEF OneMore
<1>2. ASSUME NEW i \in 0..Len(h) PROVE Shown(NamesIn(g), i) <=> Shown(NamesIn(h), i)
  <2>1. i \in Nat /\ \A j \in 1..i : NamesIn(g)[j] = NamesIn(h)[j]
    BY <1>1
  <2> QED BY <2>1, ShownSame
<1>3. Shown(NamesIn(g), Len(h)) <=> Shown(NamesIn(h), Len(h))
  BY <1>1, <1>2
<1>4. Shown(NamesIn(g), Len(h) + 1) <=>
        /\ NamesIn(g)[Len(h) + 1] # "PSB"
        /\ NamesIn(g)[Len(h) + 1] = "PSBEND" \/ Shown(NamesIn(g), Len(h))
  BY <1>1, ShownNext
<1> QED BY <1>1, <1>2, <1>3, <1>4

\* What one more call adds to those that give an entry.
LEMMA ShownInAppend ==
  ASSUME NEW h, NEW r, NEW g, OneMore(h, r, g)
  PROVE  ShownIn(g) = ShownIn(h) \cup
           (IF Shown(NamesIn(g), Len(h) + 1) /\ HasResult(r.name, r.data) THEN {Len(h) + 1} ELSE {})
<1>1. /\ Len(h) \in Nat /\ DOMAIN h = 1..Len(h)
      /\ DOMAIN g = 1..(Len(h) + 1)
      /\ \A i \in 1..Len(h) : g[i] = h[i] /\ NamesIn(g)[i] = NamesIn(h)[i]
      /\ g[Len(h) + 1] = r /\ NamesIn(g)[Len(h) + 1] = r.name
  BY DEF OneMore
<1>2. \A i \in 0..Len(h) : Shown(NamesIn(g), i) <=> Shown(NamesIn(h), i)
  BY ShownAppend
<1>3. ASSUME NEW i \in 1..Len(h) PROVE i \in ShownIn(g) <=> i \in ShownIn(h)
  <2>1. Shown(NamesIn(g), i) <=> Shown(NamesIn(h), i)
    BY <1>1, <1>2
  <2>2. HasResult(NamesIn(g)[i], g[i].data) <=> HasResult(NamesIn(h)[i], h[i].data)
    BY <1>1
  <2>3. i \in DOMAIN g /\ i \in DOMAIN h
    BY <1>1
  <2> QED BY <2>1, <2>2, <2>3 DEF ShownIn
<1>4. Len(h) + 1 \in ShownIn(g) <=> Shown(NamesIn(g), Len(h) + 1) /\ HasResult(r.name, r.data)
  <2>1. Len(h) + 1 \in DOMAIN g
    BY <1>1
  <2> QED BY <1>1, <2>1 DEF ShownIn
<1>5. ShownIn(h) \subseteq 1..Len(h) /\ ShownIn(g) \subseteq 1..(Len(h) + 1)
  BY <1>1 DEF ShownIn
<1>6. \A i : i \in 1..(Len(h) + 1) <=> i \in 1..Len(h) \/ i = Len(h) + 1
  BY <1>1
<1>7. Len(h) + 1 \notin 1..Len(h)
  BY <1>1
<1> QED BY <1>3, <1>4, <1>5, <1>6, <1>7

\* The places of the entries as one more handler call comes.
LEMMA PlaceFacts ==
  ASSUME NEW h, NEW i \in ShownIn(h), IsFiniteSet(ShownIn(h)), ShownIn(h) \subseteq Nat
  PROVE  /\ PlaceIn(h, i) \in Nat \ {0}
         /\ PlaceIn(h, i) <= Cardinality(ShownIn(h))
<1> DEFINE S == ShownIn(h)
           P == {j \in S : j <= i}
<1>1. P \in SUBSET S /\ i \in P /\ IsFiniteSet(S)
  OBVIOUS
<1> HIDE DEF P, S
<1>2. IsFiniteSet(P) /\ Cardinality(P) <= Cardinality(S)
  BY <1>1, FS_Subset
<1>3. Cardinality(P) \in Nat
  BY <1>2, FS_CardinalityType
<1>4. Cardinality(P) # 0
  BY <1>1, <1>2, FS_EmptySet
<1> QED BY <1>2, <1>3, <1>4 DEF PlaceIn, P, S

\* The calls that give an entry can be counted.
LEMMA ShownInFinite ==
  ASSUME NEW R, NEW h \in Seq(R)
  PROVE  /\ ShownIn(h) \subseteq 1..Len(h)
         /\ IsFiniteSet(ShownIn(h))
<1>1. Len(h) \in Nat /\ DOMAIN h = 1..Len(h)
  OBVIOUS
<1>2. ShownIn(h) \in SUBSET (1..Len(h))
  BY <1>1 DEF ShownIn
<1>3. IsFiniteSet(1..Len(h))
  BY <1>1, FS_Interval
<1> QED BY <1>2, <1>3, FS_Subset

\* An entry more for a handler call that is shown, and none for one that is not.
LEMMA InOrderAppend ==
  ASSUME NEW R, NEW h \in Seq(R), NEW r, NEW g, OneMore(h, r, g),
         NEW E, NEW t \in Seq(E), InOrder(h, t), NEW e \in E, e.name = r.name,
         NEW u, u = IF Shown(NamesIn(g), Len(h) + 1) /\ HasResult(r.name, r.data)
                      THEN Append(t, e) ELSE t
  PROVE  InOrder(g, u)
<1> DEFINE n == Len(h) + 1
           S == ShownIn(h)
           T == ShownIn(g)
<1>1. /\ Len(h) \in Nat
      /\ \A i \in 1..Len(h) : NamesIn(g)[i] = NamesIn(h)[i]
      /\ NamesIn(g)[Len(h) + 1] = r.name
  BY DEF OneMore
<1>2. S \subseteq 1..Len(h) /\ IsFiniteSet(S)
  BY ShownInFinite
<1>3. T = S \cup (IF Shown(NamesIn(g), n) /\ HasResult(r.name, r.data) THEN {n} ELSE {})
  BY ShownInAppend
<1>4. Len(t) = Cardinality(S) /\ \A i \in S : t[PlaceIn(h, i)].name = NamesIn(h)[i]
  BY DEF InOrder
<1>5. ASSUME NEW i \in S
      PROVE  /\ PlaceIn(h, i) \in 1..Len(t) /\ PlaceIn(g, i) = PlaceIn(h, i)
             /\ NamesIn(g)[i] = NamesIn(h)[i]
  <2>1. S \subseteq Nat
    BY <1>1, <1>2
  <2>2. PlaceIn(h, i) \in Nat \ {0} /\ PlaceIn(h, i) <= Cardinality(S)
    BY <1>2, <2>1, PlaceFacts
  <2>3. ~(n <= i)
    BY <1>1, <1>2
  <2>4. {j \in T : j <= i} = {j \in S : j <= i}
    BY <1>3, <2>3
  <2>5. PlaceIn(g, i) = PlaceIn(h, i)
    BY <2>4 DEF PlaceIn
  <2>6. Len(t) \in Nat
    OBVIOUS
  <2> QED BY <1>1, <1>2, <1>4, <2>2, <2>5, <2>6
<1>6. CASE Shown(NamesIn(g), n) /\ HasResult(r.name, r.data)
  <2>1. T = S \cup {n} /\ u = Append(t, e)
    BY <1>3, <1>6
  <2>2. n \notin S
    BY <1>1, <1>2
  <2>3. Cardinality(T) = Cardinality(S) + 1
    BY <1>2, <2>1, <2>2, FS_AddElement
  <2>4. \A j \in T : j <= n
    BY <1>1, <1>2, <2>1
  <2>5. {j \in T : j <= n} = T
    BY <2>4
  <2>6. PlaceIn(g, n) = Cardinality(S) + 1
    BY <2>3, <2>5 DEF PlaceIn
  <2>7. Len(u) = Len(t) + 1 /\ u[Len(t) + 1] = e /\ \A b \in 1..Len(t) : u[b] = t[b]
    BY <2>1
  <2>8. \A i \in S : u[PlaceIn(g, i)].name = NamesIn(g)[i]
    BY <1>4, <1>5, <2>7
  <2>9. u[PlaceIn(g, n)].name = NamesIn(g)[n]
    BY <1>1, <1>4, <2>6, <2>7
  <2>10. Len(u) = Cardinality(T)
    BY <1>4, <2>3, <2>7
  <2> QED BY <2>1, <2>8, <2>9, <2>10 DEF InOrder
<1>7. CASE ~(Shown(NamesIn(g), n) /\ HasResult(r.name, r.data))
  <2>1. T = S /\ u = t
    BY <1>3, <1>7
  <2> QED BY <1>4, <1>5, <2>1 DEF InOrder
<1> QED BY <1>6, <1>7

\* An entry without a time stays one as more packets are handled.
LEMMA UntimedStays ==
  ASSUME NEW h, NEW r, NEW g, OneMore(h, r, g), NEW i \in DOMAIN h, UntimedIn(h, i)
  PROVE  i \in DOMAIN g /\ UntimedIn(g, i)
<1>1. i \in 1..Len(h) /\ i \in DOMAIN g /\ Len(h) \in Nat
  BY DEF OneMore
<1>2. \A j \in 1..i : NamesIn(g)[j] = NamesIn(h)[j]
  BY <1>1 DEF OneMore
<1>3. Shown(NamesIn(g), i) <=> Shown(NamesIn(h), i)
  BY <1>1, ShownAppend
<1>4. i \in 1..i
  BY <1>1
<1> QED BY <1>1, <1>2, <1>3, <1>4 DEF UntimedIn

\* What a handler call leaves in the context.
LEMMA ContextAfter ==
  ASSUME ContextInv, NEW r, NEW g, OneMore(handled, r, g),
         NEW c, c = HandleContext(r.name, r.data)
  PROVE  /\ c.disabled <=> ~Shown(NamesIn(g), Len(g))
         /\ c.timed <=> \E j \in DOMAIN g : g[j].name = "TSC"
         /\ c.LastIP <=> \E j \in DOMAIN g : g[j].name \in IpNames /\ Type(g[j].data[1]) # 0
<1>1. /\ Len(handled) \in Nat /\ DOMAIN handled = 1..Len(handled)
      /\ Len(g) = Len(handled) + 1 /\ DOMAIN g = 1..(Len(handled) + 1)
      /\ \A i \in 1..Len(handled) : g[i] = handled[i]
      /\ g[Len(handled) + 1] = r
  BY DEF OneMore
<1>2. c.disabled <=> (context.disabled \/ r.name = "PSB") /\ r.name # "PSBEND"
  BY DEF HandleContext
<1>3. Shown(NamesIn(g), Len(handled) + 1) <=>
        r.name # "PSB" /\ (r.name = "PSBEND" \/ Shown(NamesIn(handled), Len(handled)))
  BY ShownAppend
<1>4. context.disabled <=> ~Shown(NamesIn(handled), Len(handled))
  BY DEF ContextInv
<1>5. c.disabled <=> ~Shown(NamesIn(g), Len(g))
  BY <1>1, <1>2, <1>3, <1>4
<1>6. \A i : i \in DOMAIN g <=> i \in DOMAIN handled \/ i = Len(handled) + 1
  BY <1>1
<1>7. c.timed <=> context.timed \/ r.name = "TSC"
  BY DEF HandleContext
<1>8. c.timed <=> \E j \in DOMAIN g : g[j].name = "TSC"
  <2>1. context.timed <=> \E j \in DOMAIN handled : g[j].name = "TSC"
    BY <1>1 DEF ContextInv
  <2> QED BY <1>1, <1>6, <1>7, <2>1
<1>9. c.LastIP <=> context.LastIP \/ (r.name \in IpNames /\ Type(r.data[1]) # 0)
  BY DEF HandleContext
<1>10. c.LastIP <=> \E j \in DOMAIN g : g[j].name \in IpNames /\ Type(g[j].data[1]) # 0
  <2>1. context.LastIP <=> \E j \in DOMAIN handled : g[j].name \in IpNames /\ Type(g[j].data[1]) # 0
    BY <1>1 DEF ContextInv
  <2> QED BY <1>1, <1>6, <1>9, <2>1
<1> QED BY <1>5, <1>8, <1>10

\* A handler call keeps HistoryInv.
LEMMA ProcessHistory ==
  ASSUME Typed, HistoryInv, NEW data \in Seq(Byte), NEW packet \in AllCandidates, NEW length,
         Process(data, packet, length)
  PROVE  HistoryInv'
<1> DEFINE name == Name(packet)
<1>1. CASE HandleRaises(name, data)
  <2>1. UNCHANGED <<context, succession, handled, delivered>>
    BY <1>1 DEF Process, Raise, output
  <2> QED BY <2>1 DEF HistoryInv, ContextInv, EntriesStop, Taken
<1>2. CASE ~HandleRaises(name, data)
  <2>1. SUFFICES ASSUME NEW r, r = [name |-> name, data |-> data],
                        NEW g, g = handled',
                        NEW c, c = context'
                 PROVE  HistoryInv'
    OBVIOUS
  <2>2. /\ c = HandleContext(name, data)
        /\ g = Append(handled, r)
        /\ delivered' = delivered
        /\ succession' = succession \o IF c.disabled THEN <<>> ELSE Result(name, data)
    BY <1>2, <2>1, Zenon DEF Process
  <2>3. name \in STRING
    BY TableFacts
  <2> SUFFICES ASSUME NEW e, e = Entry(name, data, c.timed) PROVE HistoryInv'
    OBVIOUS
  <2>4. r \in [name : STRING, data : Seq(Byte)] /\ r.name = name /\ r.data = data
    BY <2>1, <2>3
  <2>5. /\ handled \in Seq([name : STRING, data : Seq(Byte)])
        /\ succession \in Seq(Entries) /\ delivered \in Seq(Entries)
    BY DEF Typed, OutputType
  <2>6. OneMore(handled, r, g)
    BY <2>2, <2>4, <2>5, NamesAppend
  <2>7. ContextInv /\ InOrder(handled, Taken) /\ EntriesStop
    BY DEF HistoryInv
  <2>8. /\ c.disabled <=> ~Shown(NamesIn(g), Len(g))
        /\ c.timed <=> \E j \in DOMAIN g : g[j].name = "TSC"
        /\ c.LastIP <=> \E j \in DOMAIN g : g[j].name \in IpNames /\ Type(g[j].data[1]) # 0
    BY <2>2, <2>4, <2>6, <2>7, ContextAfter
  <2>9. ContextInv'
    BY <2>1, <2>8 DEF ContextInv
  <2>10. e \in Entries /\ e.name = name
    <3>1. e.stops \in BOOLEAN /\ e = [name |-> name, stops |-> e.stops]
      BY Zenon DEF Entry
    <3> QED BY <2>3, <3>1 DEF Entries
  <2>11. Result(name, data) = IF HasResult(name, data) THEN <<e>> ELSE <<>>
    BY <2>2 DEF Result
  <2>12. Len(g) = Len(handled) + 1
    BY <2>6 DEF OneMore
  <2> DEFINE shown == Shown(NamesIn(g), Len(handled) + 1) /\ HasResult(r.name, r.data)
  <2>13. shown <=> ~c.disabled /\ HasResult(name, data)
    BY <2>4, <2>8, <2>12
  <2> HIDE DEF shown, name
  <2>14. succession' = succession \o IF shown THEN <<e>> ELSE <<>>
    <3>1. CASE c.disabled
      BY <2>2, <2>13, <3>1
    <3>2. CASE ~c.disabled
      BY <2>2, <2>11, <2>13, <3>2
    <3> QED BY <3>1, <3>2
  <2>15. succession' = IF shown THEN Append(succession, e) ELSE succession
    BY <2>5, <2>10, <2>14
  <2>16. Taken \in Seq(Entries)
    BY <2>5 DEF Taken
  <2>17. Taken' = IF shown THEN Append(Taken, e) ELSE Taken
    <3>1. CASE shown
      <4>1. Taken' = delivered \o (succession \o <<e>>)
        BY <2>2, <2>14, <3>1 DEF Taken
      <4>2. <<e>> \in Seq(Entries)
        BY <2>10
      <4>3. Taken' = Taken \o <<e>>
        BY <2>5, <4>1, <4>2, ConcatAssociative DEF Taken
      <4> QED BY <2>10, <2>16, <3>1, <4>3, AppendIsConcat
    <3>2. CASE ~shown
      BY <2>2, <2>15, <3>2 DEF Taken
    <3> QED BY <3>1, <3>2
  <2>18. InOrder(g, Taken')
    <3>1. SUFFICES ASSUME NEW t, t = Taken, NEW u, u = Taken' PROVE InOrder(g, u)
      OBVIOUS
    <3>2. u = IF Shown(NamesIn(g), Len(handled) + 1) /\ HasResult(r.name, r.data)
                THEN Append(t, e) ELSE t
      BY <2>17, <3>1 DEF shown
    <3>3. t \in Seq(Entries) /\ InOrder(handled, t) /\ e.name = r.name
      BY <2>4, <2>7, <2>10, <2>16, <3>1
    <3> QED BY <2>5, <2>6, <2>10, <3>2, <3>3, InOrderAppend
  <2>19. InOrder(handled, Taken)'
    BY <2>1, <2>18
  <2>20. EntriesStop'
    <3>1. ASSUME NEW b \in DOMAIN succession', succession'[b].stops
          PROVE  \E i \in DOMAIN g : UntimedIn(g, i)
      <4>1. CASE b \in DOMAIN succession /\ succession'[b] = succession[b]
        <5>1. PICK i \in DOMAIN handled : UntimedIn(handled, i)
          BY <2>7, <3>1, <4>1 DEF EntriesStop
        <5> QED BY <2>6, <5>1, UntimedStays
      <4>2. CASE shown /\ succession'[b] = e
        <5>1. name \in TimeNames => ~c.timed
          BY <3>1, <4>2 DEF Entry
        <5>2. Len(handled) + 1 \in DOMAIN g /\ NamesIn(g)[Len(handled) + 1] = name
          BY <2>4, <2>6 DEF OneMore
        <5>3. Shown(NamesIn(g), Len(handled) + 1)
          BY <4>2 DEF shown
        <5>4. ~c.timed => \A j \in 1..(Len(handled) + 1) : NamesIn(g)[j] # "TSC"
          <6>1. DOMAIN g = 1..(Len(handled) + 1)
            BY <2>6 DEF OneMore
          <6> QED BY <2>8, <6>1 DEF NamesIn
        <5>5. UntimedIn(g, Len(handled) + 1)
          BY <5>1, <5>2, <5>3, <5>4 DEF UntimedIn
        <5> QED BY <5>2, <5>5
      <4>3. \/ b \in DOMAIN succession /\ succession'[b] = succession[b]
            \/ shown /\ succession'[b] = e
        BY <2>5, <2>10, <2>15, <3>1
      <4> QED BY <4>1, <4>2, <4>3
    <3> QED BY <2>1, <3>1 DEF EntriesStop, UntimedIn, NamesIn
  <2> QED BY <2>9, <2>19, <2>20 DEF HistoryInv
<1> QED BY <1>1, <1>2

\* Steps that leave the handlers' state alone keep it.
LEMMA StillHistory ==
  ASSUME HistoryInv, UNCHANGED <<context, output>>
  PROVE  HistoryInv'
<1>1. UNCHANGED <<context, succession, handled, delivered>>
  BY DEF output
<1> QED BY <1>1 DEF HistoryInv, ContextInv, EntriesStop, Taken

\* What the byte actions do: nothing to the handlers' state, or one call.
LEMMA ByteHistory ==
  ASSUME Typed, HistoryInv, PartialHeader \/ FullHeader \/ PayloadByte
  PROVE  HistoryInv'
<1>1. TakeByte
  BY DEF PartialHeader, FullHeader, PayloadByte, HeaderByte
<1>2. Append(accumulator, DataByte) \in Seq(Byte)
  <2>1. DataByte \in Byte /\ accumulator \in Seq(Byte)
    BY <1>1, TakeByteTyped DEF Typed, FramingType
  <2> QED BY <2>1
<1> SUFFICES ASSUME NEW data \in Seq(Byte), data = Append(accumulator, DataByte) PROVE HistoryInv'
  BY <1>2
<1>3. CASE PartialHeader
  <2>1. CASE Buffered(data, current_packet, current_length)
    <3>1. current_packet \in AllCandidates
      BY <2>1 DEF Buffered, Typed, FramingType
    <3>2. Process(data, current_packet, current_length)
      BY <1>3, <2>1 DEF PartialHeader
    <3> QED BY <3>1, <3>2, ProcessHistory
  <2>2. CASE ~Buffered(data, current_packet, current_length)
    BY <1>3, <2>2, StillHistory DEF PartialHeader
  <2> QED BY <2>1, <2>2
<1>4. CASE FullHeader
  <2>1. Complete \subseteq AllCandidates /\ Complete # {}
    BY <1>4 DEF FullHeader, Complete, Matching, Typed, FramingType
  <2>2. Min(Complete) \in AllCandidates
    BY <2>1, FirstDefinition
  <2> SUFFICES ASSUME NEW packet \in AllCandidates, packet = Min(Complete),
                      NEW length, length = Lengths(packet)[Type(DataByte)]
               PROVE  HistoryInv'
    BY <2>2
  <2>3. \/ Raise
        \/ Process(data, packet, length)
        \/ UNCHANGED <<context, output>>
    BY <1>4 DEF FullHeader
  <2>4. Raise => UNCHANGED <<context, output>>
    BY DEF Raise
  <2> QED BY <2>3, <2>4, ProcessHistory, StillHistory
<1>5. CASE PayloadByte
  <2>1. CASE Buffered(data, current_packet, current_length)
    <3>1. current_packet \in AllCandidates
      BY <2>1 DEF Buffered, Typed, FramingType
    <3>2. Process(data, current_packet, current_length)
      BY <1>5, <2>1 DEF PayloadByte
    <3> QED BY <3>1, <3>2, ProcessHistory
  <2>2. CASE ~Buffered(data, current_packet, current_length)
    BY <1>5, <2>2, StillHistory DEF PayloadByte
  <2> QED BY <2>1, <2>2
<1> QED BY <1>3, <1>4, <1>5

\* At the end of a buffer the entries change hands.
LEMMA GetSuccessionHistory ==
  ASSUME Typed, HistoryInv, GetSuccession
  PROVE  HistoryInv'
<1>1. /\ succession' = <<>> /\ delivered' = delivered \o succession
      /\ handled' = handled /\ context' = context
  BY DEF GetSuccession
<1>2. Taken' = Taken
  <2>1. Taken \in Seq(Entries)
    BY DEF Typed, OutputType, Taken
  <2>2. Taken' = Taken \o <<>>
    BY <1>1 DEF Taken
  <2> QED BY <2>1, <2>2, ConcatEmptySeq
<1>3. ContextInv'
  BY <1>1 DEF HistoryInv, ContextInv
<1>4. InOrder(handled, Taken)'
  BY <1>1, <1>2 DEF HistoryInv
<1>5. EntriesStop'
  BY <1>1 DEF EntriesStop
<1> QED BY <1>3, <1>4, <1>5 DEF HistoryInv

\* Before the first call there is nothing to tell.
LEMMA InitHistory == Init => HistoryInv
<1> SUFFICES ASSUME Init PROVE HistoryInv
  OBVIOUS
<1> USE DEF Init
<1>1. Len(handled) = 0 /\ DOMAIN handled = {} /\ DOMAIN succession = {}
  OBVIOUS
<1>2. Shown(NamesIn(handled), 0)
  BY DEF Shown
<1>3. ContextInv
  BY <1>1, <1>2 DEF ContextInv
<1>4. ShownIn(handled) = {}
  BY <1>1 DEF ShownIn
<1>5. Len(Taken) = 0
  <2>1. Taken = <<>> \o <<>>
    BY DEF Taken
  <2> QED BY <2>1
<1>6. InOrder(handled, Taken)
  BY <1>4, <1>5, FS_EmptySet DEF InOrder
<1>7. EntriesStop
  BY <1>1 DEF EntriesStop
<1> QED BY <1>3, <1>6, <1>7 DEF HistoryInv

\* Every step keeps HistoryInv.
LEMMA NextHistory == Typed /\ HistoryInv /\ [Next]_vars => HistoryInv'
<1> SUFFICES ASSUME Typed, HistoryInv, [Next]_vars PROVE HistoryInv'
  OBVIOUS
<1>1. ASSUME NEW p \in Packets, Emit(p) PROVE HistoryInv'
  BY <1>1, StillHistory DEF Emit
<1>2. ASSUME NEW p \in Packets, NEW k \in 0..(Len(p) - 1), CutIn(p, k) PROVE HistoryInv'
  BY <1>2, StillHistory DEF CutIn
<1>3. CASE SkipUnused
  BY <1>3, StillHistory DEF SkipUnused
<1>4. CASE PartialHeader \/ FullHeader \/ PayloadByte
  BY <1>4, ByteHistory
<1>5. CASE GetSuccession
  BY <1>5, GetSuccessionHistory
<1>6. CASE UNCHANGED vars
  BY <1>6, StillHistory DEF vars
<1> QED BY <1>1, <1>2, <1>3, <1>4, <1>5, <1>6 DEF Next

\* The context and the entries always tell of the calls so far.
LEMMA HistoryInvariant == Spec => []HistoryInv
<1>1. Init => Typed /\ HistoryInv
  BY InitTyped, InitHistory
<1>2. Typed /\ HistoryInv /\ [Next]_vars => (Typed /\ HistoryInv)'
  BY NextTyped, NextHistory
<1> QED BY <1>1, <1>2, PTL DEF Spec

\* read_trace has taken or can take exactly the packets handled outside of the
\* PSB groups, in order (add_to_succession, get_succession), whatever cuts in.
THEOREM NothingLost == Spec => []SuccessionComplete
<1>1. InOrder(handled, Taken) => SuccessionComplete
  BY DEF InOrder, Taken, ShownIn, NamesIn, PlaceIn, SuccessionComplete
<1> QED BY <1>1, HistoryInvariant, PTL DEF HistoryInv

-----------------------------------------------------------------------------
(* Why the decoder stops.                                                  *)

Cause ==
  \/ cuts > 0
  \/ StalePair
  \/ \E i \in DOMAIN whole : Unresolved(i) \/ Untimed(i)

\* A cause stays while the trace does.
LEMMA CauseStays ==
  ASSUME Cause, UNCHANGED <<whole, cuts>>
  PROVE  Cause'
<1>1. CASE cuts > 0
  BY <1>1 DEF Cause
<1>2. CASE StalePair
  BY <1>2 DEF Cause, StalePair
<1>3. CASE \E i \in DOMAIN whole : Unresolved(i) \/ Untimed(i)
  BY <1>3 DEF Cause, Unresolved, Untimed, Names
<1> QED BY <1>1, <1>2, <1>3 DEF Cause

\* The packets handled have the names the table gives their bytes.
LEMMA NamesAgree ==
  ASSUME Typed, HandledWhole
  PROVE  /\ Len(handled) \in Nat /\ DOMAIN handled = 1..Len(handled)
         /\ \A j \in 1..Len(handled) : /\ j \in DOMAIN whole
                                       /\ handled[j] = Handling(whole[j])
                                       /\ NamesIn(handled)[j] = Names[j]
<1>1. /\ Len(handled) \in Nat /\ DOMAIN handled = 1..Len(handled)
      /\ Len(whole) \in Nat /\ DOMAIN whole = 1..Len(whole)
  BY DEF Typed, OutputType, StreamType
<1>2. ASSUME NEW j \in 1..Len(handled)
      PROVE  j \in DOMAIN whole /\ handled[j] = Handling(whole[j])
  BY <1>1, <1>2 DEF HandledWhole
<1>3. ASSUME NEW j \in 1..Len(handled) PROVE NamesIn(handled)[j] = Names[j]
  <2>1. NamesIn(handled)[j] = handled[j].name
    BY <1>1 DEF NamesIn
  <2>2. Names[j] = Name(DefinitionOf(whole[j]))
    BY <1>2 DEF Names
  <2>3. handled[j] = [name |-> Name(DefinitionOf(whole[j])), data |-> whole[j]]
    BY <1>2 DEF Handling
  <2> QED BY <2>1, <2>2, <2>3
<1> QED BY <1>1, <1>2, <1>3

\* A handler that raises was called with an address that cannot be resolved.
LEMMA RaiseCause ==
  ASSUME Typed, HistoryInv, NEW p \in Packets, LastByte(p), running, ~running'
  PROVE  Cause
<1> DEFINE name == Name(DefinitionOf(p))
           n    == Len(whole)
<1>1. /\ HandledWhole /\ p = whole[n] /\ ~IsPad(p)
      /\ n = Len(handled) + 1
  BY DEF LastByte, Last
<1>2. HandleRaises(name, p)
  <2>1. SUFFICES ASSUME ~HandleRaises(name, p) PROVE FALSE
    OBVIOUS
  <2>2. UNCHANGED running
    BY <2>1, Zenon DEF LastByte, Process
  <2> QED BY <2>2
<1>3. name \in IpNames /\ Type(p[1]) \in {1, 2, 4} /\ ~context.LastIP
  BY <1>1, <1>2, PacketFacts DEF HandleRaises, IpRaises
<1>4. /\ Len(handled) \in Nat /\ DOMAIN handled = 1..Len(handled)
      /\ \A j \in 1..Len(handled) : /\ j \in DOMAIN whole
                                    /\ handled[j] = Handling(whole[j])
                                    /\ NamesIn(handled)[j] = Names[j]
  BY <1>1, NamesAgree
<1>5. n \in DOMAIN whole
  BY <1>1, <1>4 DEF Typed, StreamType
<1>6. Names[n] = name
  BY <1>1, <1>5 DEF Names
<1>7. ASSUME NEW j \in 1..(n - 1), Names[j] \in IpNames PROVE Type(whole[j][1]) = 0
  <2>1. j \in DOMAIN handled
    BY <1>1, <1>4
  <2>2. ~(handled[j].name \in IpNames /\ Type(handled[j].data[1]) # 0)
    BY <1>3, <2>1 DEF HistoryInv, ContextInv
  <2>3. handled[j].name = Names[j]
    BY <1>4, <2>1 DEF NamesIn
  <2>4. handled[j].data = whole[j]
    BY <1>4, <2>1 DEF Handling
  <2> QED BY <1>7, <2>2, <2>3, <2>4
<1>8. Unresolved(n)
  BY <1>1, <1>3, <1>6, <1>7 DEF Unresolved
<1> QED BY <1>5, <1>8 DEF Cause

\* An entry that stops read_trace was made of a packet without a time.
LEMMA StopCause ==
  ASSUME Typed, HistoryInv, HandledWhole, GetSuccession, ~running'
  PROVE  Cause
<1>1. PICK e \in DOMAIN succession : succession[e].stops
  BY DEF GetSuccession
<1>2. PICK i \in DOMAIN handled : UntimedIn(handled, i)
  BY <1>1 DEF HistoryInv, EntriesStop
<1>3. /\ Len(handled) \in Nat /\ DOMAIN handled = 1..Len(handled)
      /\ \A j \in 1..Len(handled) : /\ j \in DOMAIN whole
                                    /\ NamesIn(handled)[j] = Names[j]
  BY NamesAgree
<1>4. i \in Nat /\ i \in 1..i /\ i \in DOMAIN whole
      /\ \A j \in 1..i : NamesIn(handled)[j] = Names[j]
  BY <1>2, <1>3
<1>5. Shown(NamesIn(handled), i) <=> Shown(Names, i)
  BY <1>4, ShownSame
<1>6. Untimed(i)
  BY <1>2, <1>4, <1>5 DEF UntimedIn, Untimed
<1> QED BY <1>4, <1>6 DEF Cause

\* The step that stops the decoder.
LEMMA StopStep ==
  ASSUME Typed, FrameInv, HistoryInv, [Next]_vars, running, ~running', cuts = 0, ~StalePair
  PROVE  Cause /\ UNCHANGED <<whole, cuts>>
<1>1. Framed /\ HandledWhole
  BY DEF FrameInv, Framed
<1>2. ASSUME NEW p \in Packets, Emit(p) PROVE FALSE
  BY <1>2 DEF Emit
<1>3. ASSUME NEW p \in Packets, NEW k \in 0..(Len(p) - 1), CutIn(p, k) PROVE FALSE
  BY <1>3 DEF CutIn
<1>4. CASE SkipUnused
  BY <1>4 DEF SkipUnused
<1>5. CASE PartialHeader
  BY <1>1, <1>5, PartialHeaderFramed
<1>6. CASE FullHeader
  <2>1. PICK p \in Packets : LastByte(p)
    BY <1>1, <1>6, FullHeaderFramed
  <2>2. UNCHANGED <<whole, cuts>>
    BY <1>6 DEF FullHeader, HeaderByte, TakeByte
  <2> QED BY <2>1, <2>2, RaiseCause
<1>7. CASE PayloadByte
  <2>1. PICK p \in Packets : LastByte(p)
    BY <1>1, <1>7, PayloadByteFramed
  <2>2. UNCHANGED <<whole, cuts>>
    BY <1>7 DEF PayloadByte, TakeByte
  <2> QED BY <2>1, <2>2, RaiseCause
<1>8. CASE GetSuccession
  BY <1>1, <1>8, StopCause DEF GetSuccession, stream
<1>9. CASE UNCHANGED vars
  BY <1>9 DEF vars
<1> QED BY <1>2, <1>3, <1>4, <1>5, <1>6, <1>7, <1>8, <1>9 DEF Next

\* A decoder that stopped takes no further step.
LEMMA Stopped ==
  ASSUME ~running, [Next]_vars
  PROVE  UNCHANGED <<whole, cuts>>
<1>1. ~Next
  BY DEF Next, Emit, CutIn, SkipUnused, PartialHeader, FullHeader, PayloadByte, HeaderByte,
         TakeByte, GetSuccession
<1> QED BY <1>1 DEF vars, stream

\* What a step does to the causes that the trace itself holds.
LEMMA CutsStay ==
  ASSUME Typed, [Next]_vars, cuts > 0 \/ StalePair, ~running'
  PROVE  cuts' > 0 \/ StalePair'
<1>1. cuts \in Nat
  BY TableAssumption DEF Typed, StreamType
<1>2. CASE running
  <2>1. UNCHANGED <<whole, cuts>>
    <3>1. ASSUME NEW p \in Packets, Emit(p) PROVE FALSE
      BY <1>2, <3>1 DEF Emit
    <3>2. ASSUME NEW p \in Packets, NEW k \in 0..(Len(p) - 1), CutIn(p, k) PROVE FALSE
      BY <1>2, <3>2 DEF CutIn
    <3> QED BY <3>1, <3>2 DEF Next, SkipUnused, PartialHeader, FullHeader, PayloadByte,
              HeaderByte, TakeByte, GetSuccession, vars, stream
  <2> QED BY <2>1 DEF StalePair
<1>3. CASE ~running
  BY <1>3, Stopped DEF StalePair
<1> QED BY <1>2, <1>3

\* Every step keeps StopsOnlyForCause.
LEMMA NextCause ==
  Typed /\ FrameInv /\ HistoryInv /\ StopsOnlyForCause /\ [Next]_vars => StopsOnlyForCause'
<1> SUFFICES ASSUME Typed, FrameInv, HistoryInv, StopsOnlyForCause, [Next]_vars, ~running'
             PROVE  Cause'
  BY DEF StopsOnlyForCause, Cause
<1>1. CASE cuts > 0 \/ StalePair
  BY <1>1, CutsStay DEF Cause
<1>2. CASE ~(cuts > 0) /\ ~StalePair /\ running
  <2>1. cuts = 0
    <3>1. cuts \in Nat
      BY TableAssumption DEF Typed, StreamType
    <3> QED BY <1>2, <3>1
  <2> QED BY <1>2, <2>1, StopStep, CauseStays
<1>3. CASE ~running
  <2>1. Cause
    BY <1>3 DEF StopsOnlyForCause, Cause
  <2> QED BY <1>3, <2>1, Stopped, CauseStays
<1> QED BY <1>1, <1>2, <1>3

\* The decoder only stops where a packet has no time, an address follows no
\* full one, the framing was lost to a stale pair, or the trace was cut: no
\* other exception leaves process_byte or read_trace.
THEOREM StopsForCause == Spec => []StopsOnlyForCause
<1> DEFINE Inv == Typed /\ FrameInv /\ HistoryInv /\ StopsOnlyForCause
<1>1. Init => Inv
  <2>1. Init => StopsOnlyForCause
    BY DEF Init, StopsOnlyForCause
  <2> QED BY <2>1, InitTyped, InitFrame, InitHistory
<1>2. Inv /\ [Next]_vars => Inv'
  BY NextTyped, NextFrame, NextHistory, NextCause
<1> QED BY <1>1, <1>2, PTL DEF Spec
=============================================================================
