---------------------------- MODULE MCBootloader ----------------------------
(***************************************************************************)
(* A program of three bytes, one of them a byte of an opcode, and a loader *)
(* that lies above it or is hit by its last byte.                          *)
(***************************************************************************)
EXTENDS Bootloader

MCCode == <<136, 7, 119>>
MCCrc  == <<1, 2, 3, 4>>
MCBase == <<0, 128, 0, 0>>
=============================================================================
