-------------------------- MODULE PipelineProgress --------------------------
(***************************************************************************)
(* The pipeline with the instruction that waits in ID, to check that it    *)
(* does not wait forever: the stalls of several units, the results that    *)
(* are held back and the requests that are made again must not keep one    *)
(* another waiting.                                                        *)
(***************************************************************************)
EXTENDS MCPipeline

VARIABLE id     \* the instruction in ID

progressVars == <<vars, id>>

\* Only some of the instructions: what splits, holds back, stalls and takes long.
SomeInstructions ==
    {Plain("alu", 1, 0), Plain("jalr", 1, 2), Plain("branch", 0, 1), Plain("mulh", 2, 0),
     Plain("div", 2, 0), Plain("csr", 1, 0), Apu(3, 1, 0), Apu(3, 2, 1), Apu(2, 1, 0), Apu(1, 2, 0)}
    \union {i \in LegalAccesses : i.kind = "load" /\ i.rd = 1 /\ i.rs = 2}

Now == Inputs({IF id.kind = "jalr" THEN id.rs ELSE NoJump})

Stalls(in) ==
    /\ \/ SecondHalf(in) \/ MulhStep(in) \/ Hold(in)
       \/ NoInstruction(in) /\ ~id_ready(in, id)
    /\ UNCHANGED id

Issues(in) == Issue(in, id) /\ id' \in Instructions

Cycle(in) == in.is_decoding /\ (Stalls(in) \/ Issues(in))

ProgressInit == Init /\ id \in Instructions
ProgressNext == \E in \in Now : Cycle(in)

\* The memory grants and answers, the FPU grants and answers, the divider counts down.
Fairness ==
    /\ WF_progressVars(\E in \in Now : in.gnt /\ Cycle(in))
    /\ WF_progressVars(\E in \in Now : in.rvalid /\ Cycle(in))
    /\ WF_progressVars(\E in \in Now : in.apu_gnt /\ Cycle(in))
    /\ WF_progressVars(\E in \in Now : in.apu_rvalid /\ Cycle(in))
    /\ WF_progressVars(\E in \in Now : in.cnt_zero /\ Cycle(in))
    /\ WF_progressVars(ProgressNext)

ProgressSpec == ProgressInit /\ [][ProgressNext]_progressVars /\ Fairness

\* Whatever is under way, the instruction in ID gets into the EX stage.
InstructionsKeepIssuing == []<><<\E in \in Now : Issues(in)>>_progressVars
=============================================================================
