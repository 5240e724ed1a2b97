------------------------- MODULE MCPacketInterpreter -------------------------
EXTENDS PacketInterpreter

\* A padding byte, and packets of each length and kind of handler.
PAD    == <<0>>
TNT    == <<28>>
PGD    == <<1>>                                \* no address
TIP    == <<45, 16, 32>>                       \* compressed address
FUP    == <<125, 1, 2, 3, 4, 5, 6>>            \* full address
MODE   == <<153, 1>>
TSC    == <<25, 1, 2, 3, 4, 5, 6, 7>>
CBR    == <<2, 3, 34, 0>>
OVF    == <<2, 243>>
PSBEND == <<2, 35>>
PSB    == [i \in 1..16 |-> IF i % 2 = 1 THEN 2 ELSE 130]

MCPackets == {PAD, TNT, PGD, TIP, FUP, MODE, TSC, CBR, OVF, PSB, PSBEND}
=============================================================================
