---------------------------- MODULE MCChatMemory ----------------------------
(***************************************************************************)
(* ChatMemory for TLC: requests as symmetric model values.                 *)
(***************************************************************************)
EXTENDS ChatMemory, TLC

Interchangeable == Permutations(Req)

=============================================================================
