----------------------------- MODULE MCSession -----------------------------
(* Session for TLC: two SIGINTs, the second of which ends a tool that waits for *)
(* a dead child, and energy enough for a register of two bits to wrap.           *)
EXTENDS Session
=============================================================================
