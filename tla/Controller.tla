----------------------------- MODULE Controller -----------------------------
(***************************************************************************)
(* The FSM of cv32e40p_controller: what it decides in a cycle, given the   *)
(* instruction in ID, as a record of its outputs and of the next values of *)
(* its registers.  COREV_CLUSTER = 0 (no cv.elw), no PMP, no user mode.    *)
(***************************************************************************)
EXTENDS Aligner, HardwareLoops, TrapRegisters

VARIABLES
    ctrl_fsm_cs, jump_done_q, debug_mode_q, illegal_insn_q, debug_req_entry_q,
    debug_force_wakeup_q, hwlp_end_4_id_q, debug_req_q, debug_fsm_cs,
    ex                  \* what is in EX: a branch, a CSR write or nothing

controllerVars == <<ctrl_fsm_cs, jump_done_q, debug_mode_q, illegal_insn_q, debug_req_entry_q,
                    debug_force_wakeup_q, hwlp_end_4_id_q, debug_req_q, debug_fsm_cs>>

-----------------------------------------------------------------------------
(* The decoder's signals: they stay while the instruction stays in ID, valid *)
(* or not.                                                                   *)

kind == Program[instr_id.lo].kind

illegal_insn == kind = "illegal" \/ (kind \in {"dret", "dcsr"} /\ ~debug_mode_q)

\* csr_status: CSR instructions that flush the pipeline.
IsStatusCsr == kind \in {"csr", "mie", "skip", "dcsr"}

branch_taken_ex == ex.kind = "branch" /\ ex.taken

trigger_match == pc_id = debug_q.trigger

ebrk_force_debug_mode == debug_q.ebreakm

Pending(debug_req) == debug_req \/ debug_req_q

Stepping == debug_q.step /\ ~debug_mode_q

wfi_active(debug_req) ==
    kind = "wfi" /\ ~(debug_mode_q \/ Pending(debug_req) \/ debug_q.step \/ trigger_match)

-----------------------------------------------------------------------------
\* The outputs of a cycle in which the controller does nothing.
Idle ==
    [ns |-> ctrl_fsm_cs, halt_if |-> FALSE, halt_id |-> FALSE, decoding |-> FALSE,
     pc_set |-> FALSE, target |-> BOOT, jump_done |-> jump_done_q,
     hwlp_end_4 |-> FALSE, hwlp_target |-> hwlp_targ_addr(pc_id), dec |-> {},
     save |-> "none", debug_save |-> FALSE, debug_cause |-> "ebreak", restore |-> FALSE,
     debug_mode |-> debug_mode_q, illegal |-> illegal_insn_q, entry |-> debug_req_entry_q,
     wakeup |-> debug_force_wakeup_q, event |-> "none"]

Halted == [Idle EXCEPT !.halt_if = TRUE, !.halt_id = TRUE]

JumpTo(out, target) == [out EXCEPT !.pc_set = TRUE, !.target = target]

\* The interrupt's pc and its return address, one of pc_if and pc_id.
TakenIrq(from) ==
    [JumpTo(Halted, IRQ_VECTOR) EXCEPT !.ns = "DECODE", !.save = from, !.event = "interrupt"]

\* DBG_TAKEN_ID and DBG_TAKEN_IF: the jump to the debugger's code.
IntoDebug == [JumpTo(Idle, DM_HALT) EXCEPT !.ns = "DECODE", !.debug_mode = TRUE, !.event = "halt"]

Reset(fetch_enable) == [Idle EXCEPT !.ns = IF fetch_enable THEN "BOOT_SET" ELSE "RESET"]

BootSet(debug_req) ==
    IF Pending(debug_req)
    THEN [JumpTo(Idle, BOOT) EXCEPT !.ns = "DBG_TAKEN_IF", !.wakeup = TRUE]
    ELSE [JumpTo(Idle, BOOT) EXCEPT !.ns = "FIRST_FETCH"]

WaitSleep == [Halted EXCEPT !.ns = "SLEEP"]

\* A slip the runs must notice: the wake-up looks at the registered request only
\* when interrupts are there too.
Sleep_deaf(irq_wu, debug_req) ==
    IF irq_wu /\ ~Pending(debug_req) /\ debug_mode_q THEN [Halted EXCEPT !.ns = "FIRST_FETCH"] ELSE Halted

\* Woken by an enabled interrupt, before it is registered, or by the debugger.
Sleep(irq_wu, debug_req) ==
    CASE Pending(debug_req) -> [Halted EXCEPT !.ns = "DBG_TAKEN_IF", !.wakeup = TRUE]
      [] ~Pending(debug_req) /\ (irq_wu \/ debug_mode_q) -> [Halted EXCEPT !.ns = "FIRST_FETCH"]
      [] OTHER -> Halted

FirstFetch(irq_req, debug_req) ==
    IF irq_req /\ ~Pending(debug_req) /\ ~debug_mode_q
    THEN TakenIrq("if")
    ELSE [Idle EXCEPT !.ns = "DECODE"]

-----------------------------------------------------------------------------
(* DECODE and DECODE_HWLOOP with an instruction in ID. *)

InLoopState == ctrl_fsm_cs = "DECODE_HWLOOP"

\* In DECODE illegal_insn_n is reset.
Decoding == [Idle EXCEPT !.decoding = TRUE, !.illegal = InLoopState /\ illegal_insn_q]

\* The instruction goes on to EX, the one behind it waits for the flush.
FlushAfter(id_ready) ==
    [Decoding EXCEPT !.halt_if = TRUE, !.ns = IF id_ready THEN "FLUSH_EX" ELSE ctrl_fsm_cs]

Illegal(id_ready) ==
    IF InLoopState
    THEN [Decoding EXCEPT !.halt_if = TRUE, !.halt_id = TRUE, !.ns = "FLUSH_EX", !.illegal = TRUE]
    ELSE [FlushAfter(id_ready) EXCEPT !.illegal = TRUE]

Ebreak(id_ready) ==
    IF debug_mode_q \/ ebrk_force_debug_mode
    THEN [Decoding EXCEPT !.halt_if = TRUE, !.ns = "DBG_FLUSH"]
    ELSE FlushAfter(id_ready)

\* A jump is made at once, and once, even when the instruction itself must wait.
Jump(jr_stall) ==
    IF jr_stall \/ jump_done_q THEN Decoding
    ELSE [JumpTo(Decoding, Program[instr_id.lo].to) EXCEPT !.jump_done = TRUE]

StatusCsr(id_ready) ==
    [FlushAfter(id_ready) EXCEPT !.dec = IF id_ready THEN {k \in Loops : IsLast(k, pc_id)} ELSE {}]

\* DECODE: a loop is entered, or its last instruction is run after a trap.
PlainInDecode ==
    LET more == {k \in Loops : is_hwlp_body(pc_id) /\ IsLast(k, pc_id) /\ hwlp_counter_q[k] > 1}
        back == IF jump_done_q THEN {} ELSE more
        over == {k \in Loops : IsLast(k, pc_id) /\ hwlp_counter_q[k] = 1}
        out  == [Decoding EXCEPT
                   !.ns = IF is_hwlp_body(pc_id) /\ ~\E k \in Loops : IsLastButOne(k, pc_id)
                          THEN "DECODE_HWLOOP" ELSE "DECODE",
                   !.dec = back \cup over]
    IN  IF back = {} THEN out
        ELSE [JumpTo(out, hwlp_targ_addr(pc_id)) EXCEPT !.jump_done = TRUE]

\* A slip the runs must notice: the last round turns as well.
MoreRounds_late(k) == hwlp_counter_q[k] > 0

MoreRounds(k) == hwlp_counter_q[k] > 1

\* DECODE_HWLOOP: with the last instruction but one in ID the prefetcher is told
\* to go on at the start of the loop; loop 0 comes before loop 1.
PlainInLoop ==
    LET turning == {k \in Loops : IsLastButOne(k, pc_id)}
        k       == IF 0 \in turning THEN 0 ELSE 1
        turns   == {j \in turning : MoreRounds(j)}
        target  == IF 0 \in turns THEN hwlp_start_q[0]
                   ELSE IF 1 \in turns THEN hwlp_start_q[1] ELSE hwlp_targ_addr(pc_id)
        stays   == turning = {} \/ k \in turns \/ is_hwlp_body(pc_id)
    IN  [Decoding EXCEPT
           !.ns = IF stays THEN "DECODE_HWLOOP" ELSE "DECODE",
           !.hwlp_end_4 = turns # {}, !.hwlp_target = target,
           !.dec = {j \in Loops : IsLast(j, pc_id) /\ hwlp_counter_q[j] # 0}]

Plain == IF InLoopState THEN PlainInLoop ELSE PlainInDecode

Execute(id_ready, jr_stall, debug_req) ==
    CASE illegal_insn -> Illegal(id_ready)
      [] ~illegal_insn /\ ~InLoopState /\ kind \in {"jal", "jalr"} -> Jump(jr_stall)
      [] ~illegal_insn /\ kind = "ebreak" -> Ebreak(id_ready)
      [] ~illegal_insn /\ kind = "ecall" -> FlushAfter(id_ready)
      [] ~illegal_insn /\ ~InLoopState
           /\ (wfi_active(debug_req) \/ kind \in {"fencei", "mret", "dret"}) -> FlushAfter(id_ready)
      [] ~illegal_insn /\ IsStatusCsr -> StatusCsr(id_ready)
      [] OTHER -> Plain

\* A slip the runs must notice: the step is over while the instruction waits.
Step_early(out, id_ready) == [out EXCEPT !.halt_if = TRUE, !.ns = "DBG_FLUSH"]

\* Single-stepping: nothing follows the instruction, and debug mode is entered
\* once it has left ID; traps and returns first find out where they lead.
Step(out, id_ready) ==
    [out EXCEPT
       !.halt_if = TRUE,
       !.ns = CASE ~id_ready -> out.ns
                [] id_ready /\ (illegal_insn \/ kind \in {"ecall", "mret"}
                                \/ (kind = "ebreak" /\ ~ebrk_force_debug_mode)) -> "FLUSH_EX"
                [] id_ready /\ ~illegal_insn /\ kind = "branch" -> "DBG_WAIT_BRANCH"
                [] OTHER -> "DBG_FLUSH"]

Decode(id_ready, jr_stall, irq_req, debug_req) ==
    CASE ctrl_fsm_cs = "DECODE" /\ branch_taken_ex -> JumpTo(Idle, ex.to)
      [] ~(ctrl_fsm_cs = "DECODE" /\ branch_taken_ex) /\ ~instr_valid_id -> Idle
      [] OTHER ->
           CASE (Pending(debug_req) \/ trigger_match) /\ ~debug_mode_q ->
                  [Halted EXCEPT !.ns = "DBG_FLUSH", !.entry = TRUE, !.illegal = Decoding.illegal]
             [] irq_req /\ ~((Pending(debug_req) \/ trigger_match) /\ ~debug_mode_q) /\ ~debug_mode_q ->
                  [TakenIrq("id") EXCEPT !.illegal = Decoding.illegal]
             [] OTHER ->
                  LET out == Execute(id_ready, jr_stall, debug_req)
                  IN  IF Stepping THEN Step(out, id_ready) ELSE out

-----------------------------------------------------------------------------
(* Flushes, returns and the way into debug mode *)

\* EX is empty: an exception saves its pc, unless in debug mode.
FlushEx(ex_valid) ==
    LET traps == illegal_insn_q \/ kind \in {"ebreak", "ecall"}
        saves == (illegal_insn_q \/ kind = "ecall") => ~debug_mode_q
    IN  IF ~ex_valid THEN Halted
        ELSE [Halted EXCEPT !.ns = "FLUSH_WB",
                !.save = IF traps /\ saves THEN "id" ELSE "none",
                !.event = IF traps THEN "exception" ELSE "none"]

Trap == [JumpTo(Halted, IF debug_mode_q /\ (illegal_insn_q \/ kind # "ebreak")
                        THEN DM_EXCEPTION ELSE MTVEC)
           EXCEPT !.ns = IF Stepping THEN "DBG_TAKEN_IF" ELSE "DECODE", !.illegal = FALSE]

\* A status CSR instruction that ends a loop body turns the loop here.
AfterStatusCsr ==
    IF \E k \in Loops : IsLast(k, pc_id) /\ hwlp_counter_q[k] # 0
    THEN JumpTo([Halted EXCEPT !.ns = "DECODE"], hwlp_targ_addr(pc_id))
    ELSE [Halted EXCEPT !.ns = "DECODE"]

FlushWb(debug_req) ==
    CASE illegal_insn_q \/ kind \in {"ebreak", "ecall"} -> Trap
      [] ~illegal_insn_q /\ kind = "mret" ->
           [Halted EXCEPT !.ns = "XRET_JUMP", !.restore = ~debug_mode_q]
      [] ~illegal_insn_q /\ kind = "dret" -> [Halted EXCEPT !.ns = "XRET_JUMP"]
      [] ~illegal_insn_q /\ IsStatusCsr -> AfterStatusCsr
      [] ~illegal_insn_q /\ kind = "wfi" ->
           IF Pending(debug_req) THEN [Halted EXCEPT !.ns = "DBG_TAKEN_IF", !.wakeup = TRUE]
           ELSE [Halted EXCEPT !.ns = "WAIT_SLEEP"]
      [] ~illegal_insn_q /\ kind = "fencei" -> [JumpTo(Halted, Plus(pc_id, 2)) EXCEPT !.ns = "DECODE"]
      [] OTHER -> [Halted EXCEPT !.ns = "DECODE"]

XretJump ==
    LET out == [Idle EXCEPT !.ns = IF Stepping THEN "DBG_TAKEN_IF" ELSE "DECODE"]
    IN  CASE kind = "mret" -> JumpTo(out, IF debug_mode_q THEN DM_EXCEPTION ELSE mepc_q)
          [] kind = "dret" -> [JumpTo(out, depc_q) EXCEPT !.debug_mode = FALSE]

DbgWaitBranch ==
    LET out == [Idle EXCEPT !.halt_if = TRUE, !.ns = "DBG_FLUSH"]
    IN  IF branch_taken_ex THEN JumpTo(out, ex.to) ELSE out

DbgFlush ==
    [Halted EXCEPT
       !.ns = IF debug_mode_q \/ trigger_match \/ (ebrk_force_debug_mode /\ kind = "ebreak")
                 \/ debug_req_entry_q
              THEN "DBG_TAKEN_ID" ELSE "DBG_TAKEN_IF"]

\* A slip the runs must notice: a trigger is reported as a request.
debug_cause_request_first == IF debug_req_entry_q THEN "haltreq" ELSE "ebreak"

debug_cause ==
    CASE trigger_match -> "trigger"
      [] ~trigger_match /\ ebrk_force_debug_mode /\ kind = "ebreak" -> "ebreak"
      [] OTHER -> IF debug_req_entry_q THEN "haltreq" ELSE "ebreak"

\* An ebreak in debug mode starts the debugger's code over and saves nothing.
DbgTakenId ==
    [IntoDebug EXCEPT
       !.save = IF debug_mode_q THEN "none" ELSE "id", !.debug_save = ~debug_mode_q,
       !.debug_cause = debug_cause, !.entry = FALSE]

\* A slip the runs must notice: the reason is kept for the next time.
DbgTakenIf_kept ==
    [IntoDebug EXCEPT !.save = "if", !.debug_save = TRUE,
       !.debug_cause = IF debug_force_wakeup_q THEN "haltreq" ELSE "step"]

DbgTakenIf ==
    [IntoDebug EXCEPT
       !.save = "if", !.debug_save = TRUE, !.wakeup = FALSE,
       !.debug_cause = CASE debug_force_wakeup_q -> "haltreq"
                         [] ~debug_force_wakeup_q /\ debug_q.step -> "step"
                         [] OTHER -> "ebreak"]

\* The debug state FSM, from the controller's next state and debug mode.
next_debug_fsm(out) ==
    CASE out.debug_mode -> "HALTED"
      [] ~out.debug_mode /\ debug_fsm_cs = "HAVERESET" /\ out.ns # "FIRST_FETCH" -> "HAVERESET"
      [] OTHER -> "RUNNING"

\* UPDATE_REGS, the pulse register of hwlp_jump_o and the sticky debug request.
ControllerEdge(out, id_ready, debug_req) ==
    /\ ctrl_fsm_cs' = out.ns
    /\ jump_done_q' = (out.jump_done /\ ~id_ready)
    /\ debug_mode_q' = out.debug_mode
    /\ illegal_insn_q' = out.illegal
    /\ debug_req_entry_q' = out.entry
    /\ debug_force_wakeup_q' = out.wakeup
    /\ hwlp_end_4_id_q' = out.hwlp_end_4
    /\ debug_req_q' = (debug_req \/ (debug_req_q /\ ~debug_mode_q))
    /\ debug_fsm_cs' = next_debug_fsm(out)

ControllerInit ==
    /\ ctrl_fsm_cs = "RESET"
    /\ jump_done_q = FALSE /\ debug_mode_q = FALSE /\ illegal_insn_q = FALSE
    /\ debug_req_entry_q = FALSE /\ debug_force_wakeup_q = FALSE
    /\ hwlp_end_4_id_q = FALSE /\ debug_req_q = FALSE
    /\ debug_fsm_cs = "HAVERESET"
=============================================================================
