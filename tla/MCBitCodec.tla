------------------------------- MODULE MCBitCodec -------------------------------
(* BitCodec for TLC, with the sizes of the program: bytes of eight bits, fields
   of three, a window of eight. *)
EXTENDS BitCodec
================================================================================
