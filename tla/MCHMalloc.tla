------------------------------- MODULE MCHMalloc -------------------------------
(* HMalloc for TLC: a one-cell int, two-cell metadata, a heap of a few cells. *)
EXTENDS HMalloc
================================================================================
