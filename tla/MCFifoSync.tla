------------------------------ MODULE MCFifoSync ------------------------------
(* FifoSync for TLC.                                                       *)
EXTENDS FifoSync
===============================================================================
