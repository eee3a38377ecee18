--------------------------- MODULE MCHandleRegistry ---------------------------
(* HandleRegistry with three concurrent calls and a 3-bit uintptr_t, whose *)
(* three ids are all used up.                                              *)
EXTENDS HandleRegistry

CONSTANTS t1, t2, t3

MCCalls == {t1, t2, t3}
=============================================================================
