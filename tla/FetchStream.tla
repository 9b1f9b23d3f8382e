---------------------------- MODULE FetchStream ----------------------------
(***************************************************************************)
(* What the prefetch buffer promises the IF stage: the words it hands over *)
(* are those of the instruction stream, in order, each exactly once.  The  *)
(* stream runs from the target of the last branch; a hardware-loop jump    *)
(* lets one more word through (the last instruction of the loop body) and  *)
(* goes on at the start of the loop.  Which of these a cycle is, and with  *)
(* which target, PrefetchBuffer says in DoesAsAsked.                       *)
(***************************************************************************)
EXTENDS Integers

CONSTANTS
    WORDS,          \* number of words of the address space
    COREV_PULP,     \* hardware loops are there
    BranchTargets,  \* where branches lead
    LoopStarts      \* where hardware loops start

VARIABLES
    next,       \* address of the next word to hand over
    after,      \* address of the one after it
    fetched     \* the last word handed over

streamVars == <<next, after, fetched>>

Succ(addr) == IF addr = WORDS - 1 THEN 0 ELSE addr + 1

StreamInit == next = Succ(0) /\ after = Succ(Succ(0)) /\ fetched = 0

Deliver ==
    /\ fetched' = next
    /\ next' = after
    /\ after' = Succ(after)

Branch(target) ==
    /\ next' = target
    /\ after' = Succ(target)
    /\ UNCHANGED fetched

HwlpJump(target) ==
    /\ COREV_PULP
    /\ after' = target
    /\ UNCHANGED <<next, fetched>>

\* The last instruction of the body is handed over in the cycle of the jump.
HwlpJumpDeliver(target) ==
    /\ COREV_PULP
    /\ fetched' = next
    /\ next' = target
    /\ after' = Succ(target)

StreamNext ==
    \/ Deliver
    \/ \E target \in BranchTargets : Branch(target)
    \/ \E target \in LoopStarts : HwlpJump(target) \/ HwlpJumpDeliver(target)

StreamSpec == StreamInit /\ [][StreamNext]_streamVars
=============================================================================
