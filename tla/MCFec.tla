-------------------------------- MODULE MCFec --------------------------------
\* The modulations of FEC mode with as many carriers as tell them apart.
EXTENDS Fec, TLC

OneFSK == [mod |-> FSK, cars |-> 1]
TwoPSK == [mod |-> PSK, cars |-> 2]
TwoQAM == [mod |-> QAM, cars |-> 2]
AllModes == {OneFSK, TwoPSK, TwoQAM}
===============================================================================
