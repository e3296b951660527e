-------------------------- MODULE MCClockDomainMgr --------------------------
(* A small instance of ClockDomainMgr: three clocks of three frequencies,  *)
(* two of which are harmonic, and two internal clocks.  The multiple of    *)
(* 100 and 133 fits RATIO_MOD, that of 133 and 200 does not.               *)
EXTENDS ClockDomainMgr

MCFreqs == {0, 100, 133, 200}
MCSkews == {0, 30}
MCDiffs == {1, 3}
=============================================================================
