-------------------------- MODULE PacketInterpreter --------------------------
(***************************************************************************)
(* The byte-wise state machine of PacketInterpreter.py with the handlers   *)
(* of PacketHandlers.py, between the processor that emits the trace and    *)
(* the loop of read_trace that takes the interpreted packets.              *)
(*                                                                         *)
(* There is one interpreter for all sequences and processors, so the bytes *)
(* of a packet may be followed by those of another buffer: CutIn.  What a  *)
(* packet says is abstracted to whether it carries a time.  The outcomes   *)
(* of a TNT packet are one entry, as they agree in all that is modelled.   *)
(***************************************************************************)
EXTENDS IntelPacketDefinitions, SequencesExt

CONSTANTS Packets,      \* the packets the processor emits, as bytes
          MaxPackets,   \* bound: packets emitted, a cut counting as one
          MaxCuts       \* bound: places where another buffer cuts in

None == 0
AllCandidates == DOMAIN packet_definitions

Header(i) == packet_definitions[i].packet_header
Name(i)   == packet_definitions[i].packet_name
Lengths(i) == packet_definitions[i].packet_length

\* The table: a packet has a byte at least, no header holds a padding byte, and
\* no header is the beginning of another one.
ASSUME TableAssumption ==
  /\ AllCandidates \subseteq Nat \ {None} /\ AllCandidates # {}
  /\ \A i \in AllCandidates :
        /\ Name(i) \in STRING
        /\ Header(i) \in Seq(SUBSET Byte) \ {<<>>}
        /\ \A k \in DOMAIN Header(i) : Header(i)[k] \cap unused_packet_bytes = {}
        /\ \A type \in DOMAIN Lengths(i) : type \in 0..7 /\ Lengths(i)[type] \in Nat \ {0}
        /\ \A j \in AllCandidates \ {i} :
             \E k \in DOMAIN Header(i) \cap DOMAIN Header(j) : Header(i)[k] \cap Header(j)[k] = {}
  /\ MaxPackets \in Nat /\ MaxCuts \in Nat

VARIABLES sent,            \* packets emitted, oldest first
          whole,           \* history: those that are not padding
          rest,            \* bytes of the last one still to be processed
          cuts,            \* how often another buffer cut in
          accumulator, candidates, header_index, in_packet,
          current_packet,  \* its definition's index, None before the first
          current_length,
          context,         \* of the handlers
          succession,      \* interpreted packets not taken yet
          handled,         \* history: name and bytes of each handler call
          delivered,       \* history: what read_trace took
          running          \* no exception was raised

stream  == <<sent, whole, rest, cuts>>
framing == <<accumulator, candidates, header_index, in_packet, current_packet, current_length>>
output  == <<succession, handled, delivered>>
vars    == <<stream, framing, context, output, running>>

\* The top three bits of a byte.
Type(byte) == byte \div 32

\* MODE knows the types Exec and TSX, and refuses CSD with CSL_LMA.
ModeRaises(data) ==
  \/ Type(data[2]) \notin {0, 1}
  \/ Type(data[2]) = 0 /\ data[2] % 4 = 3

\* A packet begins with a header of the table.
Begins(p, i) ==
  Len(Header(i)) <= Len(p) /\ \A k \in DOMAIN Header(i) : p[k] \in Header(i)[k]

\* The definition of a packet, by its bytes: what framing is to find.
DefinitionOf(p) == CHOOSE i \in AllCandidates : Begins(p, i)

IsPad(p) == p[1] \in unused_packet_bytes

\* The length the table gives a packet, by the last byte of its header.
HasLength(p, i) ==
  LET type == Type(p[Len(Header(i))])
  IN  type \in DOMAIN Lengths(i) /\ Len(p) = Lengths(i)[type]

\* The processor emits padding bytes and whole packets of the table; a MODE
\* packet has a mode that exists.
ASSUME PacketsAssumption ==
  \A p \in Packets :
    /\ p \in Seq(Byte) \ {<<>>}
    /\ IsPad(p) => Len(p) = 1
    /\ ~IsPad(p) =>
         \E i \in AllCandidates :
           Begins(p, i) /\ HasLength(p, i) /\ (Name(i) = "MODE" => ~ModeRaises(p))

-----------------------------------------------------------------------------
(* The handlers.                                                           *)

IpNames   == {"FUP", "TIP", "TIP PGE", "TIP PGD"}
TntNames  == {"TNT", "TNT Extended"}
TimeNames == IpNames \cup TntNames \cup {"TSC", "PSB", "PSBEND", "MODE", "CBR"}

\* Faulty variant: a full six-byte address needs the last one too.
IpRaisesOnFull(data) == Type(data[1]) \in {1, 2, 3, 4} /\ ~context.LastIP

\* A compressed address needs the last one.
IpRaises(data) == Type(data[1]) \in {1, 2, 4} /\ ~context.LastIP

HandleRaises(name, data) ==
  \/ name \in IpNames /\ IpRaises(data)
  \/ name = "MODE" /\ ModeRaises(data)

\* Faulty variant: PSBEND does not end the PSB group.
HandleContextNoEnd(name, data) ==
  [disabled |-> context.disabled \/ name = "PSB",
   timed    |-> context.timed \/ name = "TSC",
   LastIP   |-> context.LastIP \/ (name \in IpNames /\ Type(data[1]) # 0)]

HandleContext(name, data) ==
  [disabled |-> (context.disabled \/ name = "PSB") /\ name # "PSBEND",
   timed    |-> context.timed \/ name = "TSC",
   LastIP   |-> context.LastIP \/ (name \in IpNames /\ Type(data[1]) # 0)]

\* A TNT byte without a bit below its stop bit has no outcome; the handler
\* looks for them in the first byte of an extended packet too.
HasResult(name, data) == name \in TntNames => data[1] > 3

\* An entry stops read_trace if it has no time where it is compared with
\* first_tsc; an address packet without an address is skipped before that.
Entry(name, data, timed) ==
  [name  |-> name,
   stops |-> /\ name \in TimeNames => ~timed
             /\ ~(name \in IpNames /\ Type(data[1]) = 0)]

Result(name, data) ==
  IF HasResult(name, data)
    THEN <<Entry(name, data, HandleContext(name, data).timed)>>
    ELSE <<>>

-----------------------------------------------------------------------------
Init ==
  /\ sent = <<>> /\ whole = <<>> /\ rest = <<>> /\ cuts = 0
  /\ accumulator = <<>>
  /\ candidates = AllCandidates
  /\ header_index = 0
  /\ in_packet = FALSE
  /\ current_packet = None
  /\ current_length = 0
  /\ context = [disabled |-> FALSE, timed |-> FALSE, LastIP |-> FALSE]
  /\ succession = <<>> /\ handled = <<>> /\ delivered = <<>>
  /\ running = TRUE

Record(p) ==
  /\ sent' = Append(sent, p)
  /\ whole' = IF IsPad(p) THEN whole ELSE Append(whole, p)

\* The processor emits its next packet.
Emit(p) ==
  /\ running /\ rest = <<>> /\ Len(sent) + cuts < MaxPackets
  /\ Record(p)
  /\ rest' = p
  /\ UNCHANGED <<cuts, framing, context, output, running>>

\* The buffer ends, and the next one is of another processor or sequence, or
\* the one between them was lost: the bytes go on after the first k of p.
CutIn(p, k) ==
  /\ running /\ cuts < MaxCuts /\ Len(sent) + cuts + 1 < MaxPackets
  /\ rest # <<>> \/ k > 0
  /\ Record(p)
  /\ rest' = SubSeq(p, k + 1, Len(p))
  /\ cuts' = cuts + 1
  /\ UNCHANGED <<framing, context, output, running>>

DataByte == Head(rest)

TakeByte ==
  /\ running /\ rest # <<>>
  /\ rest' = Tail(rest)
  /\ UNCHANGED <<sent, whole, cuts>>

\* An exception leaves process_byte, and with it read_trace.
Raise ==
  /\ running' = FALSE
  /\ UNCHANGED <<framing, context, output>>

\* Faulty variant: the header index is not reset with the candidates.
StartNextHere ==
  /\ accumulator' = <<>>
  /\ candidates' = AllCandidates
  /\ UNCHANGED header_index

StartNext ==
  /\ accumulator' = <<>>
  /\ candidates' = AllCandidates
  /\ header_index' = 0

\* The end of process_byte: the handler is called once the current packet is
\* buffered.  current_packet and its length are never reset.
Process(data, packet, length) ==
  LET name == Name(packet) IN
  IF HandleRaises(name, data) THEN Raise
  ELSE /\ context' = HandleContext(name, data)
       /\ succession' = succession \o IF context'.disabled THEN <<>> ELSE Result(name, data)
       /\ handled' = Append(handled, [name |-> name, data |-> data])
       /\ in_packet' = FALSE
       /\ StartNext
       /\ current_packet' = packet /\ current_length' = length
       /\ UNCHANGED <<delivered, running>>

\* Faulty variant: a packet needs a byte more than its length.
BufferedLate(data, packet, length) == packet # None /\ Len(data) > length

\* Faulty variant: only the bytes behind a header complete a packet.
BufferedInPacket(data, packet, length) ==
  packet # None /\ in_packet /\ Len(data) >= length

Buffered(data, packet, length) == packet # None /\ Len(data) >= length

\* A byte that no packet starts with, outside of a packet: it is skipped,
\* and ends a header that was under way.
SkipUnused ==
  /\ TakeByte
  /\ ~in_packet /\ DataByte \in unused_packet_bytes
  /\ IF candidates \notin {AllCandidates, {}} THEN StartNext
     ELSE UNCHANGED <<accumulator, candidates, header_index>>
  /\ UNCHANGED <<in_packet, current_packet, current_length, context, output, running>>

HeaderByte == TakeByte /\ ~in_packet /\ DataByte \notin unused_packet_bytes

Matching == {i \in candidates : DataByte \in Header(i)[header_index + 1]}

Complete == {i \in Matching : Len(Header(i)) = header_index + 1}

\* The byte completes no header.  The packet of before may be called buffered.
PartialHeader ==
  LET data == Append(accumulator, DataByte) IN
  /\ HeaderByte
  /\ Complete = {}
  /\ IF Buffered(data, current_packet, current_length)
       THEN Process(data, current_packet, current_length)
       ELSE /\ accumulator' = data
            /\ candidates' = Matching
            /\ header_index' = header_index + 1
            /\ UNCHANGED <<in_packet, current_packet, current_length, context, output, running>>

\* The byte completes the header of a definition, the first in the table.
FullHeader ==
  LET data       == Append(accumulator, DataByte)
      packet     == Min(Complete)
      length     == Lengths(packet)[Type(DataByte)]
  IN
  /\ HeaderByte
  /\ Complete # {}
  /\ IF Type(DataByte) \notin DOMAIN Lengths(packet) THEN Raise
     ELSE IF Buffered(data, packet, length) THEN Process(data, packet, length)
     ELSE /\ accumulator' = data
          /\ header_index' = 0
          /\ in_packet' = TRUE
          /\ current_packet' = packet /\ current_length' = length
          /\ UNCHANGED <<candidates, context, output, running>>

PayloadByte ==
  LET data == Append(accumulator, DataByte) IN
  /\ TakeByte
  /\ in_packet
  /\ IF Buffered(data, current_packet, current_length)
       THEN Process(data, current_packet, current_length)
       ELSE /\ accumulator' = data
            /\ UNCHANGED <<candidates, header_index, in_packet, current_packet,
                           current_length, context, output, running>>

\* At the end of a buffer read_trace takes the succession; comparing a packet
\* without a time raises.
GetSuccession ==
  /\ running /\ succession # <<>>
  /\ succession' = <<>>
  /\ delivered' = delivered \o succession
  /\ running' = ~ \E i \in DOMAIN succession : succession[i].stops
  /\ UNCHANGED <<stream, framing, context, handled>>

Next ==
  \/ \E p \in Packets : Emit(p)
  \/ \E p \in Packets : \E k \in 0..(Len(p) - 1) : CutIn(p, k)
  \/ SkipUnused \/ PartialHeader \/ FullHeader \/ PayloadByte
  \/ GetSuccession

Spec == Init /\ [][Next]_vars

-----------------------------------------------------------------------------
(* Correctness.                                                            *)

\* The type of the state, with the header index within every candidate's
\* header and one byte accumulated for each header byte passed: the two
\* indexings of search_header that could raise.
TypeOK ==
  /\ sent \in Seq(Packets) /\ whole \in Seq(Packets) /\ rest \in Seq(Byte)
  /\ cuts \in 0..MaxCuts
  /\ accumulator \in Seq(Byte)
  /\ candidates \subseteq AllCandidates
  /\ header_index \in Nat
  /\ ~in_packet => /\ header_index = Len(accumulator)
                   /\ \A i \in candidates : header_index < Len(Header(i))
  /\ in_packet \in BOOLEAN /\ running \in BOOLEAN
  /\ in_packet => current_packet # None
  /\ current_packet \in AllCandidates \cup {None} /\ current_length \in Nat
  /\ context \in [disabled : BOOLEAN, timed : BOOLEAN, LastIP : BOOLEAN]
  /\ succession \in Seq([name : STRING, stops : BOOLEAN])
  /\ delivered \in Seq([name : STRING, stops : BOOLEAN])
  /\ handled \in Seq([name : STRING, data : Seq(Byte)])

\* The packets that are through.
Past == IF rest = <<>> \/ IsPad(Last(sent)) THEN whole ELSE Front(whole)

\* A packet with a longer header than the packet before it is long.  While its
\* header is read, the packet before it is called buffered once more.
StalePair ==
  \E i \in 1..(Len(whole) - 1) : Len(whole[i]) < Len(Header(DefinitionOf(whole[i + 1])))

\* In an uncut trace without a stale pair every packet is handled, once, in
\* order, under its name and with its own bytes (process_byte, search_header).
FramingKept ==
  cuts = 0 /\ running /\ ~StalePair =>
    handled = [i \in DOMAIN Past |-> [name |-> Name(DefinitionOf(Past[i])), data |-> Past[i]]]

\* The accumulator is bounded once a first header was recognised, whatever
\* bytes come: a byte that fits no header ends with the length of the last
\* packet.  Before that the interpreter can swallow the trace for ever, and
\* only if the trace does not start with a packet (PacketInterpreter.py:147).
SwallowsOnlyCutStart ==
  IF current_packet # None THEN Len(accumulator) < current_length
  ELSE running /\ candidates = {} => cuts > 0

\* The i-th of some packets lies outside of PSB ... PSBEND.
Shown(names, i) ==
  LET marks == {j \in 1..i : names[j] \in {"PSB", "PSBEND"}}
  IN  marks # {} => names[Max(marks)] = "PSBEND"

\* read_trace has taken or can take exactly the packets handled outside of the
\* PSB ... PSBEND groups, in order: none is lost or taken twice as the
\* succession is swapped at the end of a buffer (get_succession).
SuccessionComplete ==
  LET names == [i \in DOMAIN handled |-> handled[i].name]
      shown == {i \in DOMAIN handled : Shown(names, i) /\ HasResult(names[i], handled[i].data)}
      taken == delivered \o succession
      place(i) == Cardinality({j \in shown : j <= i})
  IN  Len(taken) = Cardinality(shown) /\ \A i \in shown : taken[place(i)].name = names[i]

Names == [i \in DOMAIN whole |-> Name(DefinitionOf(whole[i]))]

\* Packet i is a compressed address that follows no address.
Unresolved(i) ==
  /\ Names[i] \in IpNames /\ Type(whole[i][1]) \in {1, 2, 4}
  /\ \A j \in 1..(i - 1) : Names[j] \in IpNames => Type(whole[j][1]) = 0

\* Packet i is shown and has no time: it has no handler of its own or follows
\* no TSC.
Untimed(i) ==
  /\ Shown(Names, i)
  /\ Names[i] \notin TimeNames \/ \A j \in 1..i : Names[j] # "TSC"

\* The decoder only stops (an exception leaves process_byte or read_trace)
\* where a packet has no time, an address follows no full one, the framing was
\* lost to a stale pair, or the trace was cut (TraceDecoder.py:163).
StopsOnlyForCause ==
  ~running => \/ cuts > 0
              \/ StalePair
              \/ \E i \in DOMAIN whole : Unresolved(i) \/ Untimed(i)
=============================================================================
