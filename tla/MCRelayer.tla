----------------------------- MODULE MCRelayer ------------------------------
(***************************************************************************)
(* Small instances of the relayer for TLC.                                 *)
(***************************************************************************)
EXTENDS Relayer

CONSTANTS r1, r2, none
=============================================================================
