----------------------------- MODULE ArqBandwidth -----------------------------
(***************************************************************************)
(* The bandwidth of a session and the data modes it allows (ext/ardop1):   *)
(* IRSNegotiateBW and GetDataModes of ARQ.c, the frame sizes of ARDOPC.c.  *)
(*                                                                         *)
(* A setting of ARQBW or CALLBW is a width in Hz and whether it is FORCED  *)
(* or MAX; each has a connect request of its own, 0x31 to 0x38.  A mode is *)
(* named as in strFrameType.                                               *)
(***************************************************************************)
EXTENDS Integers, Sequences

CONSTANTS
  FSKOnly,    \* FSKONLY: only modes that are FSK
  fastStart,  \* FASTSTART: a session begins in the middle of its modes
  ForFM       \* TUNINGRANGE is 0, or USE600MODES was given

ASSUME ArqBandwidthAssumption == {FSKOnly, fastStart, ForFM} \subseteq BOOLEAN

Widths == {200, 500, 1000, 2000}
Settings == [width : Widths, forced : BOOLEAN]
UpTo(w) == [width |-> w, forced |-> FALSE]
Forced(w) == [width |-> w, forced |-> TRUE]
UNDEFINED == UpTo(0)
ConRejBW == 0

\* EncodeARQConRequest: what the caller asks for.
Request(arqBW, callBW) == IF callBW = UNDEFINED THEN arqBW ELSE callBW

\* The case of B1000MAX has no break: a request for 2000FORCED goes on into B2000MAX.
RunsOn(own, request) == own = UpTo(1000) /\ request = Forced(2000)
Widest(own) == IF own = UpTo(1000) THEN 2000 ELSE own.width

\* Mutant of IRSNegotiateBW: one that forces its own width does not look at the request's.
OwnIfForced(own, request) ==
  IF own.forced THEN own.width
  ELSE IF request.width < own.width THEN request.width ELSE own.width

\* The width of the session that answers a request, or ConRejBW.
IRSNegotiateBW(own, request) ==
  IF own.forced
  THEN IF request = own \/ (~request.forced /\ request.width >= own.width) THEN own.width
       ELSE ConRejBW
  ELSE IF request.forced
  THEN IF request.width <= Widest(own) THEN request.width ELSE ConRejBW
  ELSE IF own.width < request.width THEN own.width ELSE request.width

\* A width that both settings allow.
Fits(width, setting) ==
  IF setting.forced THEN width = setting.width ELSE width <= setting.width

-------------------------------------------------------------------------------
\* FrameInfo: how many carriers a frame of each mode has, and how many bytes each carries.
OneCarrier ==
  [m4FSK200S |-> <<1, 16>>, m4PSK200S |-> <<1, 16>>, m4PSK200 |-> <<1, 64>>, m8PSK200 |-> <<1, 108>>,
   m16QAM200 |-> <<1, 128>>, m4FSK500S |-> <<1, 32>>, m4FSK500 |-> <<1, 64>>]
WiderModes ==
  [m4PSK500 |-> <<2, 64>>, m8PSK500 |-> <<2, 108>>, m16QAM500 |-> <<2, 128>>,
   m4PSK1000 |-> <<4, 64>>, m8PSK1000 |-> <<4, 108>>, m16QAM1000 |-> <<4, 128>>,
   m4PSK2000 |-> <<8, 64>>, m8PSK2000 |-> <<8, 108>>, m16QAM2000 |-> <<8, 128>>,
   m4FSK600S |-> <<1, 200>>, m4FSK600 |-> <<1, 600>>]
FrameInfo(mode) == IF mode \in DOMAIN OneCarrier THEN OneCarrier[mode] ELSE WiderModes[mode]
MaxLen(mode) == FrameInfo(mode)[1] * FrameInfo(mode)[2]

\* The table that Gearshift_9 looks at.
FrameSize ==
  [m4FSK200S |-> 16, m4PSK200S |-> 16, m4PSK200 |-> 64, m8PSK200 |-> 108, m16QAM200 |-> 128,
   m4FSK500S |-> 32, m4FSK500 |-> 64, m4PSK500 |-> 128, m8PSK500 |-> 216, m16QAM500 |-> 256,
   m4PSK1000 |-> 256, m8PSK1000 |-> 432, m16QAM1000 |-> 512,
   m4PSK2000 |-> 512, m8PSK2000 |-> 864, m16QAM2000 |-> 1024, m4FSK600S |-> 200, m4FSK600 |-> 600]
\* The width in the name of a mode (strFrameType).
ModeWidth(mode) ==
  CASE mode \in {"m4FSK200S", "m4PSK200S", "m4PSK200", "m8PSK200", "m16QAM200"} -> 200
    [] mode \in {"m4FSK500S", "m4FSK500", "m4PSK500", "m8PSK500", "m16QAM500"} -> 500
    [] mode \in {"m4PSK1000", "m8PSK1000", "m16QAM1000"} -> 1000
    [] mode \in {"m4PSK2000", "m8PSK2000", "m16QAM2000", "m4FSK600S", "m4FSK600"} -> 2000

\* GetDataModes: the modes of a width, the most robust first.
FSKModes(bw) ==
  IF bw \in {200, 500} THEN <<"m4FSK200S">>
  ELSE IF bw = 2000 /\ ForFM THEN <<"m4FSK500S", "m4FSK500", "m4FSK600S", "m4FSK600">>
  ELSE <<"m4FSK500S", "m4FSK500">>
AllModes(bw) ==
  CASE bw = 200 -> <<"m4FSK200S", "m4PSK200S", "m4PSK200", "m8PSK200", "m16QAM200">>
    [] bw = 500 -> <<"m4FSK200S", "m4PSK200S", "m4PSK200", "m4PSK500", "m8PSK500", "m16QAM500">>
    [] bw = 1000 -> <<"m4FSK500S", "m4FSK500", "m4PSK500", "m4PSK1000", "m8PSK1000", "m16QAM1000">>
    [] bw = 2000 /\ ForFM -> FSKModes(2000)
    [] bw = 2000 /\ ~ForFM ->
         <<"m4FSK500S", "m4FSK500", "m4PSK500", "m4PSK1000", "m4PSK2000", "m8PSK2000", "m16QAM2000">>
GetDataModes(bw) == IF FSKOnly THEN FSKModes(bw) ELSE AllModes(bw)

\* Where intFrameTypePtr begins, and where it ends.
StartMode(bw) == IF fastStart THEN Len(GetDataModes(bw)) \div 2 ELSE 0
LastMode(bw) == Len(GetDataModes(bw)) - 1
ModeOf(bw, pointer) == GetDataModes(bw)[pointer + 1]
===============================================================================
