--------------------------- MODULE MCFlowProgress ---------------------------
(***************************************************************************)
(* FlowProgress on the programs of MCInstructionFlow.                      *)
(***************************************************************************)
EXTENDS FlowProgress, MCInstructionFlow
=============================================================================
