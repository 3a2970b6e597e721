----------------------------- MODULE MCSurfaceCache -----------------------------
(* SurfaceCache for TLC, with a guest that leaves the display to the renderer. *)
EXTENDS SurfaceCache

MCCells == 0 .. 4

ASSUME GuestAssumption == DisplayKept
================================================================================
