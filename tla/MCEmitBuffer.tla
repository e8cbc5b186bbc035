---------------------------- MODULE MCEmitBuffer ----------------------------
(***************************************************************************)
(* Instances of EmitBuffer: every function of five blocks, each with or    *)
(* without instructions, or six blocks of which one has instructions.      *)
(***************************************************************************)
EXTENDS EmitBuffer

AllBlocks == Blocks
OneBody == {1}
=============================================================================
