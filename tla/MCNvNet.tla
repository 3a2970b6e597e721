------------------------------- MODULE MCNvNet -------------------------------
(* NvNet for TLC: a packet of two parts and one of one.                       *)
EXTENDS NvNet

MCLens == <<2, 1>>
================================================================================
