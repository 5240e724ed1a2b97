----------------------- MODULE IntelPacketDefinitions -----------------------
(***************************************************************************)
(* The table of IntelPacketDefinitions.py.  A definition is the name of a  *)
(* packet, its header as the sequence of the bytes that match each header  *)
(* byte, and its length in bytes by the top three bits of the last header  *)
(* byte: a function with no value where the table says None.               *)
(***************************************************************************)
EXTENDS Naturals, Sequences

Byte == 0..255

unused_packet_bytes == {0, 255}

\* A bit pattern whose low bits are given and whose high bits are dots.
Low(n, bits) == {b \in Byte : b % n = bits}

\* The two-byte headers 02 xx.
Extended(second) == <<{2}, second>>

Fixed(n) == [type \in 0..7 |-> n]

ip_compression_packet_size ==
  [type \in {0, 1, 2, 3, 4, 6} |->
     CASE type = 0 -> 0 [] type = 1 -> 2 [] type = 2 -> 4 [] type \in {3, 4} -> 6 [] type = 6 -> 8]

ptw_packet_size == [type \in {0, 1} |-> IF type = 0 THEN 4 ELSE 8]

IpLength == [type \in DOMAIN ip_compression_packet_size |-> 1 + ip_compression_packet_size[type]]

PtwLength ==
  [type \in {t \in 0..7 : t % 4 \in DOMAIN ptw_packet_size} |-> 2 + ptw_packet_size[type % 4]]

Definition(name, header, length) ==
  [packet_name |-> name, packet_header |-> header, packet_length |-> length]

packet_definitions ==
  << Definition("TNT",          <<{b \in Byte : b % 2 = 0 /\ b > 2}>>, Fixed(1)),
     Definition("TNT Extended", Extended({163}),      Fixed(8)),
     Definition("TIP",          <<Low(32, 13)>>,      IpLength),
     Definition("TIP PGE",      <<Low(32, 17)>>,      IpLength),
     Definition("TIP PGD",      <<Low(32, 1)>>,       IpLength),
     Definition("FUP",          <<Low(32, 29)>>,      IpLength),
     Definition("PIP",          Extended({67}),       Fixed(8)),
     Definition("MODE",         <<{153}>>,            Fixed(2)),
     Definition("TRACE STOP",   Extended({131}),      Fixed(2)),
     Definition("CBR",          Extended({3}),        Fixed(4)),
     Definition("TSC",          <<{25}>>,             Fixed(8)),
     Definition("MTC",          <<{89}>>,             Fixed(2)),
     Definition("TMA",          Extended({115}),      Fixed(7)),
     Definition("VMCS",         Extended({200}),      Fixed(7)),
     Definition("OVF",          Extended({243}),      Fixed(2)),
     Definition("PSB",          [i \in 1..14 |-> IF i % 2 = 1 THEN {2} ELSE {130}], Fixed(16)),
     Definition("PSBEND",       Extended({35}),       Fixed(2)),
     Definition("MNT",          <<{2}, {195}, {136}>>, Fixed(11)),
     Definition("PTW",          Extended(Low(32, 18)), PtwLength),
     Definition("EXSTOP",       Extended(Low(128, 98)), Fixed(2)),
     Definition("MWAIT",        Extended({194}),      Fixed(10)),
     Definition("PWRE",         Extended({34}),       Fixed(4)),
     Definition("PWRX",         Extended({162}),      Fixed(7)),
     Definition("BBP",          Extended({99}),       Fixed(3)),
     Definition("BEP",          Extended(Low(128, 51)), Fixed(2)) >>
=============================================================================
