-------------------------- MODULE InstructionFlow --------------------------
(***************************************************************************)
(* The way of instructions through the core: the IF stage with its         *)
(* aligner, the controller with the hardware loops, the branch in EX, the  *)
(* trap registers, interrupts and debug requests.  The prefetch buffer is  *)
(* FetchStream, EX and WB are a free id_ready: what they do to it is the   *)
(* subject of PrefetchBuffer, Pipeline and DataAccess.                     *)
(*                                                                         *)
(* Hart runs in lockstep: it takes a step when the core commits one, and   *)
(* the properties compare the two.                                         *)
(***************************************************************************)
EXTENDS Controller, Hart

CONSTANTS
    DEBUG_SETTINGS,     \* values of dcsr and of the trigger the debugger writes
    DEBUG_REQ           \* values debug_req_i takes: {FALSE} when nobody debugs

ASSUME FlowAssumption ==
    /\ DEBUG_SETTINGS # {} /\ DEBUG_SETTINGS \subseteq [step : BOOLEAN, ebreakm : BOOLEAN, trigger : Int]
    /\ DEBUG_REQ # {} /\ DEBUG_REQ \subseteq BOOLEAN

VARIABLE turned     \* history: the prefetch buffer was told to turn a loop in the last cycle

vars == <<alignerVars, hwloopVars, controllerVars, trapVars, ex, hartVars, turned>>

NoOp == [kind |-> "none", taken |-> FALSE, to |-> 0, value |-> 0]

\* The instruction in ID is executed: minstret counts it.
Issues(in, out) == out.decoding /\ instr_valid_id /\ ~out.halt_id /\ in.id_ready

\* ID_EX_PIPE_REGISTERS, as far as a later cycle depends on it: a branch and its
\* decision, the value a CSR instruction is about to write, or what an instruction is
\* about to compute.
IntoEx ==
    LET Op(value) == [NoOp EXCEPT !.kind = kind, !.value = value]
    IN  CASE illegal_insn -> {NoOp}
          [] ~illegal_insn /\ kind = "branch" ->
               {[NoOp EXCEPT !.kind = kind, !.taken = taken, !.to = Program[instr_id.lo].to] : taken \in BOOLEAN}
          [] ~illegal_insn /\ kind = "mie"  -> {Op(Program[instr_id.lo].value)}
          [] ~illegal_insn /\ kind = "skip" -> {Op(Following(mepc_q))}
          [] ~illegal_insn /\ kind = "dcsr" -> {Op(value) : value \in DEBUG_SETTINGS}
          [] kind \in {"plain", "csr"} /\ "effect" \in DOMAIN Program[instr_id.lo] -> {Op(Program[instr_id.lo].effect)}
          [] OTHER -> {NoOp}

\* A slip the runs must notice: lpstart and lpend are given each other's operand.
HwloopWrite_swapped(in, out) ==
    LET instr == Program[instr_id.lo]
    IN  IF out.decoding /\ kind = "hwloop" /\ in.id_ready
        THEN [fields |-> instr.fields, loop |-> instr.loop, start |-> instr.end,
              end |-> instr.start, count |-> instr.count]
        ELSE [fields |-> {}, loop |-> 0, start |-> 0, end |-> 0, count |-> 0]

\* hwlp_we_masked
HwloopWrite(in, out) ==
    LET instr == Program[instr_id.lo]
    IN  IF out.decoding /\ kind = "hwloop" /\ in.id_ready
        THEN [fields |-> instr.fields, loop |-> instr.loop, start |-> instr.start,
              end |-> instr.end, count |-> instr.count]
        ELSE [fields |-> {}, loop |-> 0, start |-> 0, end |-> 0, count |-> 0]

\* Hart takes the step the core has committed.
Commit(in, out, taken) ==
    CASE out.event = "interrupt" -> Interrupt
      [] out.event = "exception" -> Exception
      [] out.event = "halt"      -> Halt
      [] out.event = "none" /\ Issues(in, out) /\ ~illegal_insn /\ kind \notin {"ecall", "ebreak"} ->
           Retire(hwlp_start_q, hwlp_end_q, taken)
      [] OTHER -> UNCHANGED hartVars

\* Slips the runs must notice: the jump lasts as long as the instruction waits;
\* the address is always that of the instruction in ID.
hwlp_jump_level(out) == out.hwlp_end_4
exception_pc_id(out) == pc_id

\* The jump of a loop is a pulse.
hwlp_jump(out) == out.hwlp_end_4 /\ ~hwlp_end_4_id_q

exception_pc(out) == IF out.save = "if" THEN pc_q ELSE pc_id

\* One clock edge of the whole, with the outputs the controller has chosen.
Edge(in, out) ==
    LET fetch_valid == ~out.pc_set /\ (waiting \/ in.arrives)
        clear       == in.id_ready \/ out.halt_id \/ branch_taken_ex
    IN  \E into_ex \in IF Issues(in, out) THEN IntoEx ELSE {NoOp} :
          /\ FetchStageEdge([pc_set_i |-> out.pc_set, branch_addr_i |-> out.target,
                             hwlp_jump_i |-> hwlp_jump(out), hwlp_target_i |-> out.hwlp_target,
                             fetch_valid |-> fetch_valid,
                             if_valid |-> ~out.halt_if /\ fetch_valid /\ in.id_ready,
                             clear_instr_valid_i |-> clear])
          /\ HwloopEdge(HwloopWrite(in, out), out.dec, instr_valid_id /\ clear)
          /\ ControllerEdge(out, in.id_ready, in.debug_req)
          /\ TrapEdge(out.save, out.debug_save, out.debug_cause, exception_pc(out),
                      out.restore, ex, in.irq)
          /\ ex' = into_ex
          /\ turned' = hwlp_jump(out)
          /\ Commit(in, out, into_ex.taken)

\* The inputs of a cycle: ID can stall whatever is in EX (a branch there is done in
\* its cycle all the same), but not when the core wakes up (a_first_fetch_id_ready);
\* nothing arrives that was not requested.
Inputs ==
    {in \in [id_ready : BOOLEAN, arrives : BOOLEAN, irq : SUBSET IRQS, debug_req : DEBUG_REQ] :
        /\ ctrl_fsm_cs = "FIRST_FETCH" => in.id_ready
        /\ in.arrives => ~waiting /\ ctrl_fsm_cs # "RESET"}

\* jr_stall comes with a jalr only, and holds id_ready back.
Stalls(in) == IF kind = "jalr" /\ ~in.id_ready THEN BOOLEAN ELSE {FALSE}

\* One action for each state of the FSM.
InReset(inputs, enables) ==
    ctrl_fsm_cs = "RESET" /\ \E in \in inputs, enable \in enables : Edge(in, Reset(enable))
InBoot(inputs)  == ctrl_fsm_cs = "BOOT_SET" /\ \E in \in inputs : Edge(in, BootSet(in.debug_req))
InWait(inputs)  == ctrl_fsm_cs = "WAIT_SLEEP" /\ \E in \in inputs : Edge(in, WaitSleep)
InSleep(inputs) ==
    ctrl_fsm_cs = "SLEEP" /\ \E in \in inputs : Edge(in, Sleep(irq_wu_ctrl(in.irq), in.debug_req))
InFirst(inputs) ==
    ctrl_fsm_cs = "FIRST_FETCH" /\ \E in \in inputs : Edge(in, FirstFetch(irq_req_ctrl, in.debug_req))
InDecode(inputs) ==
    /\ ctrl_fsm_cs \in {"DECODE", "DECODE_HWLOOP"}
    /\ \E in \in inputs : \E jr_stall \in Stalls(in) :
         Edge(in, Decode(in.id_ready, jr_stall, irq_req_ctrl, in.debug_req))
InFlushEx(inputs, valids) ==
    ctrl_fsm_cs = "FLUSH_EX" /\ \E in \in inputs, ex_valid \in valids : Edge(in, FlushEx(ex_valid))
InFlushWb(inputs)  == ctrl_fsm_cs = "FLUSH_WB" /\ \E in \in inputs : Edge(in, FlushWb(in.debug_req))
InXret(inputs)     == ctrl_fsm_cs = "XRET_JUMP" /\ \E in \in inputs : Edge(in, XretJump)
InDbgWait(inputs)  == ctrl_fsm_cs = "DBG_WAIT_BRANCH" /\ \E in \in inputs : Edge(in, DbgWaitBranch)
InDbgFlush(inputs) == ctrl_fsm_cs = "DBG_FLUSH" /\ \E in \in inputs : Edge(in, DbgFlush)
InDbgId(inputs)    == ctrl_fsm_cs = "DBG_TAKEN_ID" /\ \E in \in inputs : Edge(in, DbgTakenId)
InDbgIf(inputs)    == ctrl_fsm_cs = "DBG_TAKEN_IF" /\ \E in \in inputs : Edge(in, DbgTakenIf)

Init ==
    /\ FetchStageInit /\ HwloopInit /\ ControllerInit /\ TrapInit /\ HartInit
    /\ ex = NoOp /\ turned = FALSE

Next ==
    \/ InReset(Inputs, BOOLEAN) \/ InBoot(Inputs) \/ InWait(Inputs) \/ InSleep(Inputs)
    \/ InFirst(Inputs) \/ InDecode(Inputs) \/ InFlushEx(Inputs, BOOLEAN) \/ InFlushWb(Inputs)
    \/ InXret(Inputs) \/ InDbgWait(Inputs) \/ InDbgFlush(Inputs) \/ InDbgId(Inputs) \/ InDbgIf(Inputs)

Spec == Init /\ [][Next]_vars

-----------------------------------------------------------------------------
(* Properties *)

FsmStates == {"RESET", "BOOT_SET", "WAIT_SLEEP", "SLEEP", "FIRST_FETCH", "DECODE", "DECODE_HWLOOP",
              "FLUSH_EX", "FLUSH_WB", "XRET_JUMP", "DBG_WAIT_BRANCH", "DBG_FLUSH",
              "DBG_TAKEN_ID", "DBG_TAKEN_IF"}

\* Every register stays in its range.
TypeOK ==
    /\ state \in {"ALIGNED32", "MISALIGNED32", "MISALIGNED16", "BRANCH_MISALIGNED"}
    /\ {r_instr_h, pc_q, hwlp_addr_q, pc_id, mepc_q, depc_q, hart.pc} \subseteq Addresses
    /\ {next, after} \subseteq 0 .. (HALFWORDS \div 2) - 1
    /\ hwlp_counter_q \in [Loops -> 0 .. COUNTS - 1]
    /\ ctrl_fsm_cs \in FsmStates
    /\ {hwlp_update_pc_q, aligner_ready_q, waiting, instr_valid_id, jump_done_q, debug_mode_q,
        illegal_insn_q, debug_req_entry_q, debug_force_wakeup_q, hwlp_end_4_id_q, debug_req_q,
        mie_q, mpie_q} \subseteq BOOLEAN
    /\ debug_fsm_cs \in {"HAVERESET", "RUNNING", "HALTED"}
    /\ irq_q \subseteq IRQS

\* The instruction the controller is looking at, whatever stalls, jumps, loop
\* turns, interrupts, sleeps and debug sessions came before, is the one the
\* architecture executes next, and is put together from its own halfwords.
DecodesTheNextInstruction ==
    /\ ctrl_fsm_cs \in {"DECODE", "DECODE_HWLOOP"} /\ instr_valid_id
    /\ ~(ctrl_fsm_cs = "DECODE" /\ branch_taken_ex)
    => /\ pc_id = hart.pc /\ instr_id.lo = pc_id
       /\ instr_id.wide = (pc_id \in Wide)
       /\ instr_id.wide => instr_id.hi = Plus(pc_id, 1)

\* Interrupts, exceptions and entries into debug mode save the address of the
\* first instruction that has not been executed: nothing is lost or run twice.
TrapsArePrecise ==
    /\ ex.kind # "skip" => mepc_q = hart.mepc
    /\ depc_q = hart.depc

\* The loop counters go down once for every round, however often a stall, an
\* interrupt or a debug session interrupts the last instruction of the body.
LoopsAreCounted == hwlp_counter_q = hart.lpcount

\* The core runs the program the way the architecture does, one instruction after the
\* other, although it fetches, decodes, flushes and turns loops ahead of them: pc, saved
\* addresses and loop counters are those of Hart in every cycle in which they count.
FollowsTheHart == DecodesTheNextInstruction /\ TrapsArePrecise /\ LoopsAreCounted

\* The prefetch buffer is told to turn a loop once, and while the last word of the
\* body is the next one it hands over: what PrefetchBuffer relies on.
LoopsTurnInTime ==
    [][turned' => next = (pc_id + 2) \div 2 /\ after = SuccWord(next)]_vars

\* Flags that one state sets for another are consumed there: what is left over
\* would turn a later flush into a trap, skip a jump or misstate a cause.
FlagsAreConsumed ==
    /\ illegal_insn_q => ctrl_fsm_cs \in {"DECODE", "FLUSH_EX", "FLUSH_WB"}
    /\ jump_done_q /\ instr_valid_id => kind \in {"jal", "jalr"} \/ \E k \in Loops : IsLast(k, pc_id)
    /\ debug_req_entry_q => ctrl_fsm_cs \in {"DBG_FLUSH", "DBG_TAKEN_ID"}
    /\ debug_force_wakeup_q <=> ctrl_fsm_cs = "DBG_TAKEN_IF" /\ ~debug_q.step

\* A single step runs one instruction, or the trap it takes instead.
StepsOneInstruction ==
    [][debug_mode_q' /\ ~debug_mode_q /\ debug_cause_q' = "step" => since_dret = 1]_vars

\* Debug mode is entered for the cause that dcsr names.
EntersDebugForItsCause ==
    [][debug_mode_q' /\ ~debug_mode_q =>
         CASE debug_cause_q' = "step"    -> debug_q.step
           [] debug_cause_q' = "haltreq" -> debug_req_q
           [] debug_cause_q' = "trigger" -> hart.pc = debug_q.trigger
           [] debug_cause_q' = "ebreak"  -> debug_q.ebreakm /\ Program[hart.pc].kind = "ebreak"]_vars

Active(k) == hwlp_counter_q[k] > 0

\* What may stand in the body of a loop, and at its even addresses only.
BodyIsLegal(k, pc) ==
    /\ pc % 2 = 0
    /\ \A addr \in hwlp_start_q[k] .. hwlp_end_q[k] - 1 : addr % 2 = 0 => addr \in Wide
    /\ Program[pc].kind \notin {"jal", "jalr", "branch", "fencei", "mret", "dret", "wfi"}
    /\ Program[pc].kind = "hwloop" => Program[pc].loop # k

\* One behind the other, or loop 0 within loop 1 with an instruction between their ends.
LoopsAreApart ==
    \/ hwlp_end_q[0] <= hwlp_start_q[1] \/ hwlp_end_q[1] <= hwlp_start_q[0]
    \/ hwlp_start_q[1] <= hwlp_start_q[0] /\ hwlp_end_q[0] + 4 <= hwlp_end_q[1]

\* An instruction that defines a loop stands outside its body.
DefinesAhead(pc) ==
    LET instr == Program[pc]
        From  == IF "start" \in instr.fields THEN 2 * (instr.start \div 2) ELSE hwlp_start_q[instr.loop]
        To    == IF "end" \in instr.fields THEN 2 * (instr.end \div 2) ELSE hwlp_end_q[instr.loop]
    IN  pc \notin From .. To - 1

\* The program keeps the constraints the core puts on hardware loops and does not check
\* (corev_hw_loop.rst:46-78), at the instruction that is executed next: three instructions
\* or more in a body, only wide ones, no jumps and no writes to its own loop.  Registers of
\* loops that have ended are compared as well, so the last instruction of a body must not
\* be the last but one of another that was left there, loop 1 must not end within the
\* addresses of loop 0, and a status CSR instruction ends a loop in use only, and is not
\* stepped there before the last round.
LoopsAreLegal ==
    LET pc == hart.pc
    IN  /\ \A k \in Loops : Active(k) =>
             /\ hwlp_start_q[k] + 6 <= hwlp_end_q[k]
             /\ pc + 2 < HALFWORDS
             /\ Within(k, pc) => BodyIsLegal(k, pc)
             /\ IsLast(k, pc) => \A j \in Loops : ~IsLastButOne(j, pc)
        /\ Active(0) /\ Active(1) => LoopsAreApart
        /\ Active(1) /\ IsLast(1, pc) => ~Within(0, pc)
        /\ Program[pc].kind = "hwloop" => DefinesAhead(pc)
        /\ Program[pc].kind \in {"csr", "mie", "skip", "dcsr"} =>
             \A k \in Loops : IsLast(k, pc) =>
               Active(k) /\ (debug_q.step /\ ~hart.debug => hwlp_counter_q[k] = 1)
=============================================================================
