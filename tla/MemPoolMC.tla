------------------------------ MODULE MemPoolMC ------------------------------
(* An instance of MemPool for TLC: three threads, an interrupt handler and *)
(* two blocks.                                                             *)
EXTENDS MemPool

CONSTANTS t1, t2, t3, isr, b1, b2

MCChain == <<b1, b2>>
==============================================================================
