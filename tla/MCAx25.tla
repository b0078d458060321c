-------------------------------- MODULE MCAx25 --------------------------------
\* Two stations, a and b: how much each is given, and how often it calls and closes.
EXTENDS Ax25, TLC

PerStation(m, n) == "a" :> m @@ "b" :> n
A1B0 == PerStation(1, 0)
A1B1 == PerStation(1, 1)
A3B1 == PerStation(3, 1)
===============================================================================
