-------------------------------- MODULE MCArq --------------------------------
\* Two stations, a and b: how much each is given, how often its host commands, and what
\* bandwidths the hosts have set.  FSKONLY leaves the 1000 and 2000 Hz sessions two modes,
\* of 32 and 64 bytes.
EXTENDS Arq, TLC

PerStation(m, n) == "a" :> m @@ "b" :> n
A2B1 == PerStation(2, 1)
A1B1 == PerStation(1, 1)
A1B0 == PerStation(1, 0)
A0B1 == PerStation(0, 1)

Own(setting) == <<setting, UNDEFINED>>
Widest2000 == {PerStation(Own(UpTo(2000)), Own(UpTo(2000)))}
\* Refused; agreed on less than the caller's CALLBW; and more than 1000MAX.
Mixed ==
  {PerStation(Own(Forced(500)), Own(Forced(1000))),
   PerStation(<<Forced(500), UpTo(2000)>>, Own(UpTo(1000))),
   PerStation(Own(Forced(2000)), Own(UpTo(1000)))}
===============================================================================
