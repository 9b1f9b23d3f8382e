---------------------------- MODULE FlowProgress ----------------------------
(***************************************************************************)
(* InstructionFlow with its fairness: the memory answers and the EX stage  *)
(* gets ready again and again, in whatever rhythm.                         *)
(***************************************************************************)
EXTENDS InstructionFlow

VARIABLE beat       \* flips in the cycles in which nobody keeps the core waiting

SwiftInputs == {in \in Inputs : in.id_ready /\ (in.arrives \/ waiting \/ ctrl_fsm_cs = "RESET")}
SwiftCycle ==
    \/ InReset(SwiftInputs, {TRUE}) \/ InBoot(SwiftInputs) \/ InWait(SwiftInputs) \/ InSleep(SwiftInputs)
    \/ InFirst(SwiftInputs) \/ InDecode(SwiftInputs) \/ InFlushEx(SwiftInputs, {TRUE})
    \/ InFlushWb(SwiftInputs) \/ InXret(SwiftInputs) \/ InDbgWait(SwiftInputs)
    \/ InDbgFlush(SwiftInputs) \/ InDbgId(SwiftInputs) \/ InDbgIf(SwiftInputs)

BeatInit == Init /\ beat = FALSE

BeatNext ==
    \/ SwiftCycle /\ beat' = ~beat
    \/ Next /\ UNCHANGED beat

LiveSpec == BeatInit /\ [][BeatNext]_<<vars, beat>> /\ WF_beat(beat' = ~beat)
-----------------------------------------------------------------------------
\* A request of the debugger is served, asleep or not, in a loop or in a trap.
DebuggerIsServed == debug_req_q ~> debug_mode_q

\* An enabled interrupt that stays is taken.
InterruptsAreTaken == []<>~irq_req_ctrl
=============================================================================
