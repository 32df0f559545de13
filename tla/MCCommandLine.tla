--------------------------- MODULE MCCommandLine ---------------------------
(* CommandLine for TLC: tables of two entries and lists that are one id too    *)
(* long, so that every limit is met and passed.  The masks have bits in, at    *)
(* the edge of and above the two bits of a mode, the eight of a selector and   *)
(* the fields of the fixed counters.                                           *)
EXTENDS CommandLine

MCMasks == {{}, {0}, {1, 8}, {4, 11}}
MCCpuMasks == {{}, {0, 1}}
=============================================================================
