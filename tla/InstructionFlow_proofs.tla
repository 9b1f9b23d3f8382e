----------------------- MODULE InstructionFlow_proofs -----------------------
(***************************************************************************)
(* Theorems about InstructionFlow: what holds of every program (FlowInv),  *)
(* and that the core follows the hart while hardware loops are legal       *)
(* (HartInv).  Each invariant is kept by one lemma for each state of the   *)
(* FSM; DECODE and DECODE_HWLOOP are split by the kind of instruction.     *)
(*                                                                         *)
(* The outputs of the controller are described once (ExecSpec, FlushSpec,  *)
(* ...), and so is a clock edge with given outputs (EdgeSpec, EdgeFetch,   *)
(* EdgeSaves); the lemmas about states combine the two.                    *)
(***************************************************************************)
EXTENDS InstructionFlow, TLAPS

-----------------------------------------------------------------------------
(* Addresses *)

\* Memory has an even number of halfwords, and more than two words.
LEMMA Size == HALFWORDS \in Nat /\ HALFWORDS > 4 /\ HALFWORDS % 2 = 0 /\ HALFWORDS = 2 * (HALFWORDS \div 2)
BY SoftwareAssumption

\* An address a few halfwords on, which wraps around once at most.
LEMMA PlusIs ==
    ASSUME NEW addr \in Addresses, NEW n \in 0 .. 4
    PROVE  /\ Plus(addr, n) \in Addresses
           /\ Plus(addr, n) = IF addr + n < HALFWORDS THEN addr + n ELSE addr + n - HALFWORDS
BY Size DEF Plus, Addresses

\* A step of one or two words stays on the same half of a word.
LEMMA PlusEven ==
    ASSUME NEW addr \in Addresses, NEW n \in {2, 4}
    PROVE  Plus(addr, n) % 2 = addr % 2
<1> DEFINE half == HALFWORDS \div 2
<1>1. Plus(addr, n) = IF addr + n < HALFWORDS THEN addr + n ELSE addr + n - HALFWORDS
  BY PlusIs
<1>2. CASE addr + n < HALFWORDS
  BY <1>1, <1>2, Size DEF Addresses
<1>3. CASE ~(addr + n < HALFWORDS)
  <2>1. half \in Nat /\ Plus(addr, n) = addr + n - 2 * half
    BY <1>1, <1>3, Size
  <2> QED BY <2>1 DEF Addresses
<1> QED BY <1>2, <1>3

\* The words of the memory.
Words == 0 .. (HALFWORDS \div 2) - 1

\* The word behind a word.
LEMMA SuccIs ==
    ASSUME NEW word \in Words
    PROVE  /\ SuccWord(word) \in Words
           /\ SuccWord(word) = IF word + 1 < HALFWORDS \div 2 THEN word + 1 ELSE 0
<1> DEFINE half == HALFWORDS \div 2
<1>1. half \in Nat /\ half > 2
  BY Size
<1>2. word \in 0 .. half - 1
  BY DEF Words
<1>3. (word + 1) % half = IF word + 1 < half THEN word + 1 ELSE 0
  <2> HIDE DEF half
  <2> QED BY <1>1, <1>2
<1> QED BY <1>1, <1>2, <1>3 DEF SuccWord, Words

\* The two halves of a word are addresses of the memory.
LEMMA HalvesOfWord ==
    ASSUME NEW word \in Words
    PROVE  /\ 2 * word \in Addresses /\ 2 * word + 1 \in Addresses
           /\ (2 * word) % 2 = 0 /\ (2 * word + 1) % 2 = 1
           /\ (2 * word) \div 2 = word /\ (2 * word + 1) \div 2 = word
BY Size DEF Addresses, Words

\* From the halves of a word to those of the next one.
LEMMA HalvesFollow ==
    ASSUME NEW word \in Words
    PROVE  /\ Plus(2 * word, 1) = 2 * word + 1
           /\ Plus(2 * word, 2) = 2 * SuccWord(word)
           /\ Plus(2 * word + 1, 1) = 2 * SuccWord(word)
           /\ Plus(2 * word + 1, 2) = 2 * SuccWord(word) + 1
<1>1. /\ 2 * word \in Addresses /\ 2 * word + 1 \in Addresses
      /\ HALFWORDS \div 2 \in Nat /\ word \in 0 .. (HALFWORDS \div 2) - 1 /\ HALFWORDS = 2 * (HALFWORDS \div 2)
  BY HalvesOfWord, Size DEF Words
<1>2. /\ Plus(2 * word, 1) = IF 2 * word + 1 < HALFWORDS THEN 2 * word + 1 ELSE 2 * word + 1 - HALFWORDS
      /\ Plus(2 * word, 2) = IF 2 * word + 2 < HALFWORDS THEN 2 * word + 2 ELSE 2 * word + 2 - HALFWORDS
      /\ Plus(2 * word + 1, 1) = IF 2 * word + 1 + 1 < HALFWORDS THEN 2 * word + 1 + 1 ELSE 2 * word + 1 + 1 - HALFWORDS
      /\ Plus(2 * word + 1, 2) = IF 2 * word + 1 + 2 < HALFWORDS THEN 2 * word + 1 + 2 ELSE 2 * word + 1 + 2 - HALFWORDS
  BY <1>1, PlusIs
<1> QED BY <1>1, <1>2, SuccIs

\* The word a halfword lies in.
LEMMA WordOfHalf ==
    ASSUME NEW addr \in Addresses
    PROVE  /\ addr \div 2 \in Words
           /\ addr % 2 = 0 => addr = 2 * (addr \div 2)
           /\ addr % 2 = 1 => addr = 2 * (addr \div 2) + 1
           /\ addr % 2 \in {0, 1}
BY Size DEF Addresses, Words

-----------------------------------------------------------------------------
AlignerStates == {"ALIGNED32", "MISALIGNED32", "MISALIGNED16", "BRANCH_MISALIGNED"}
Instructions == [lo : Addresses, hi : Addresses, wide : BOOLEAN]

\* Types of the registers of the IF stage, and of what the prefetch buffer shows it.
FetchType ==
    /\ state \in AlignerStates
    /\ r_instr_h \in Addresses /\ pc_q \in Addresses /\ hwlp_addr_q \in Addresses /\ pc_id \in Addresses
    /\ next \in Words /\ after \in Words
    /\ hwlp_update_pc_q \in BOOLEAN /\ aligner_ready_q \in BOOLEAN
    /\ waiting \in BOOLEAN /\ instr_valid_id \in BOOLEAN
    /\ instr_id \in Instructions

\* What the rest of the core tells the IF stage in a cycle.
FetchInputs ==
    [pc_set_i : BOOLEAN, branch_addr_i : Addresses, hwlp_jump_i : BOOLEAN, hwlp_target_i : Addresses,
     fetch_valid : BOOLEAN, if_valid : BOOLEAN, clear_instr_valid_i : BOOLEAN]

\* What the aligner cuts is an instruction, whatever state it is in.
LEMMA CutType ==
    ASSUME FetchType, NEW fetch_valid \in BOOLEAN
    PROVE  Aligned(fetch_valid) \in
             [instr : Instructions, next_state : AlignerStates, pc_n : Addresses,
              valid : BOOLEAN, ready : BOOLEAN, go : BOOLEAN]
<1>1. first \in Addresses /\ second \in Addresses
  BY HalvesOfWord DEF FetchType, first, second
<1>2. Plus(pc_q, 1) \in Addresses /\ Plus(pc_q, 2) \in Addresses
  BY PlusIs DEF FetchType
<1> USE DEF FetchType, AlignerStates, Instructions
<1>3. CASE state = "ALIGNED32"
  BY <1>1, <1>2, <1>3 DEF Aligned
<1>4. CASE state = "MISALIGNED32"
  BY <1>1, <1>2, <1>4 DEF Aligned
<1>5. CASE state = "MISALIGNED16"
  BY <1>1, <1>2, <1>5 DEF Aligned
<1>6. CASE state = "BRANCH_MISALIGNED"
  BY <1>1, <1>2, <1>6 DEF Aligned
<1> QED BY <1>3, <1>4, <1>5, <1>6

\* The IF stage keeps its registers in their ranges.
LEMMA FetchStageType ==
    ASSUME FetchType, NEW in \in FetchInputs, FetchStageEdge(in)
    PROVE  FetchType'
<1> DEFINE cut == Aligned(in.fetch_valid)
<1>1. cut \in [instr : Instructions, next_state : AlignerStates, pc_n : Addresses,
               valid : BOOLEAN, ready : BOOLEAN, go : BOOLEAN]
  BY CutType DEF FetchInputs
<1>2. AlignerStep(in, cut) /\ StreamStep(in, ~in.pc_set_i /\ in.if_valid /\ cut.ready) /\ IfIdStep(in, cut)
  BY DEF FetchStageEdge
<1> HIDE DEF cut
<1>3. next_pc(in, cut) \in Addresses
  BY <1>1 DEF next_pc, FetchType, FetchInputs
<1>4. second \in Addresses
  BY HalvesOfWord DEF FetchType, second
<1>5. /\ state' \in AlignerStates /\ r_instr_h' \in Addresses /\ pc_q' \in Addresses
      /\ hwlp_addr_q' \in Addresses /\ hwlp_update_pc_q' \in BOOLEAN /\ aligner_ready_q' \in BOOLEAN
  BY <1>1, <1>2, <1>3, <1>4 DEF AlignerStep, FetchType, FetchInputs, AlignerStates
<1>6. next' \in Words /\ after' \in Words /\ waiting' \in BOOLEAN
  <2>1. in.branch_addr_i \div 2 \in Words /\ in.hwlp_target_i \div 2 \in Words
    BY WordOfHalf DEF FetchInputs
  <2> QED BY <1>2, <2>1, SuccIs DEF StreamStep, FetchType, FetchInputs
<1>7. instr_valid_id' \in BOOLEAN /\ instr_id' \in Instructions /\ pc_id' \in Addresses
  BY <1>1, <1>2 DEF IfIdStep, FetchType, FetchInputs
<1> QED BY <1>5, <1>6, <1>7 DEF FetchType

-----------------------------------------------------------------------------
(* What the controller chooses in a cycle *)

\* What an output of the controller may name.
Saves  == {"none", "if", "id"}
Causes == {"trigger", "ebreak", "haltreq", "step"}
Events == {"none", "interrupt", "exception", "halt"}

\* The outputs of the controller and the next values of its registers.
Outputs ==
    [ns : FsmStates, halt_if : BOOLEAN, halt_id : BOOLEAN, decoding : BOOLEAN,
     pc_set : BOOLEAN, target : Addresses, jump_done : BOOLEAN,
     hwlp_end_4 : BOOLEAN, hwlp_target : Addresses, dec : SUBSET Loops,
     save : Saves, debug_save : BOOLEAN,
     debug_cause : Causes, restore : BOOLEAN,
     debug_mode : BOOLEAN, illegal : BOOLEAN, entry : BOOLEAN, wakeup : BOOLEAN,
     event : Events]

\* lpstart and lpend have no bit 1, and a counter counts modulo COUNTS.
EvenAddresses == {addr \in Addresses : addr % 2 = 0}
Counts == 0 .. COUNTS - 1

\* Types of the loop registers.
LoopType ==
    /\ hwlp_start_q \in [Loops -> EvenAddresses] /\ hwlp_end_q \in [Loops -> EvenAddresses]
    /\ hwlp_counter_q \in [Loops -> Counts]

\* Types of the registers of the controller.
ControllerType ==
    /\ ctrl_fsm_cs \in FsmStates
    /\ jump_done_q \in BOOLEAN /\ debug_mode_q \in BOOLEAN /\ illegal_insn_q \in BOOLEAN
    /\ debug_req_entry_q \in BOOLEAN /\ debug_force_wakeup_q \in BOOLEAN
    /\ hwlp_end_4_id_q \in BOOLEAN /\ debug_req_q \in BOOLEAN
    /\ debug_fsm_cs \in {"HAVERESET", "RUNNING", "HALTED"}
    /\ ctrl_fsm_cs = "XRET_JUMP" => kind \in {"mret", "dret"}

\* What a debugger may write to dcsr and the trigger.
DebugSettings == [step : BOOLEAN, ebreakm : BOOLEAN, trigger : Int]

\* Types of mstatus, mepc, dpc, dcsr and the registered interrupts.
TrapType ==
    /\ mie_q \in BOOLEAN /\ mpie_q \in BOOLEAN
    /\ mepc_q \in Addresses /\ depc_q \in Addresses
    /\ debug_q \in DebugSettings
    /\ irq_q \subseteq IRQS

\* Types of what ID has handed to EX.
ExType ==
    /\ ex.kind = "branch" => ex.taken \in BOOLEAN /\ ex.to \in Addresses
    /\ ex.kind = "mie" => ex.value \in BOOLEAN
    /\ ex.kind = "skip" => ex.value \in Addresses
    /\ ex.kind = "dcsr" => ex.value \in DEBUG_SETTINGS

\* Types of the hart.
HartType ==
    /\ hart \in [pc : Addresses, lpcount : [Loops -> Counts], mepc : Addresses,
                 depc : Addresses, debug : BOOLEAN]
    /\ since_dret \in 0 .. 2

\* All types together; TypeOK is a part of them.
FlowType == FetchType /\ LoopType /\ ControllerType /\ TrapType /\ ExType /\ HartType

\* The entry addresses are in the memory.
LEMMA Vectors ==
    BOOT \in Addresses /\ MTVEC \in Addresses /\ IRQ_VECTOR \in Addresses
    /\ DM_HALT \in Addresses /\ DM_EXCEPTION \in Addresses
BY SoftwareAssumption

\* A loop jump leads to a word of the memory.
LEMMA TargetType ==
    ASSUME LoopType, NEW pc
    PROVE  hwlp_targ_addr(pc) \in Addresses /\ hwlp_targ_addr(pc) % 2 = 0
BY DEF LoopType, hwlp_targ_addr, EvenAddresses, Loops

\* States, registers to save, causes and events, each by name, are among those there are.
LEMMA Values ==
    /\ "RESET" \in FsmStates /\ "BOOT_SET" \in FsmStates /\ "WAIT_SLEEP" \in FsmStates
    /\ "SLEEP" \in FsmStates /\ "FIRST_FETCH" \in FsmStates /\ "DECODE" \in FsmStates
    /\ "DECODE_HWLOOP" \in FsmStates /\ "FLUSH_EX" \in FsmStates /\ "FLUSH_WB" \in FsmStates
    /\ "XRET_JUMP" \in FsmStates /\ "DBG_WAIT_BRANCH" \in FsmStates /\ "DBG_FLUSH" \in FsmStates
    /\ "DBG_TAKEN_ID" \in FsmStates /\ "DBG_TAKEN_IF" \in FsmStates
    /\ "none" \in Saves /\ "if" \in Saves /\ "id" \in Saves
    /\ "trigger" \in Causes /\ "ebreak" \in Causes /\ "haltreq" \in Causes /\ "step" \in Causes
    /\ "none" \in Events /\ "interrupt" \in Events /\ "exception" \in Events /\ "halt" \in Events
BY DEF FsmStates, Saves, Causes, Events

\* The controller gives outputs of the right type when it does nothing, or halts the front end.
LEMMA IdleType ==
    ASSUME FlowType
    PROVE  Idle \in Outputs /\ Halted \in Outputs
<1>1. hwlp_targ_addr(pc_id) \in Addresses /\ BOOT \in Addresses
  BY TargetType, Vectors, Values DEF FlowType
<1>2. Idle \in Outputs
  BY <1>1, Values DEF Idle, FlowType, ControllerType, Outputs
<1>3. Halted \in Outputs
  BY <1>2, Values DEF Halted, Outputs
<1> QED BY <1>2, <1>3

\* The target of a jump in ID is in the memory.
LEMMA JumpType ==
    ASSUME FlowType, kind \in {"jal", "jalr"}
    PROVE  Program[instr_id.lo].to \in Addresses
BY SoftwareAssumption, Values DEF FlowType, FetchType, Instructions, kind

\* Outputs DECODE starts from, with and without a flush, have the right type.
LEMMA DecodingType ==
    ASSUME FlowType, NEW id_ready \in BOOLEAN
    PROVE  Decoding \in Outputs /\ FlushAfter(id_ready) \in Outputs
<1>1. Decoding \in Outputs
  BY IdleType, Values DEF Decoding, InLoopState, Outputs, FlowType, ControllerType
<1>2. FlushAfter(id_ready) \in Outputs
  BY <1>1, Values DEF FlushAfter, Outputs, FlowType, ControllerType
<1> QED BY <1>1, <1>2

\* Outputs for an instruction without an effect on the controller, loops apart.
LEMMA PlainType ==
    ASSUME FlowType
    PROVE  Plain \in Outputs
<1>1. Decoding \in Outputs /\ hwlp_targ_addr(pc_id) \in Addresses
  BY DecodingType, TargetType, Values DEF FlowType
<1>2. PlainInDecode \in Outputs
  BY <1>1, Values DEF PlainInDecode, JumpTo, Outputs
<1>3. PlainInLoop \in Outputs
  <2>1. hwlp_start_q[0] \in Addresses /\ hwlp_start_q[1] \in Addresses
    BY Values DEF FlowType, LoopType, Loops, EvenAddresses
  <2> QED BY <1>1, <2>1, Values DEF PlainInLoop, Outputs
<1> QED BY <1>2, <1>3 DEF Plain

\* Outputs for any instruction in ID.
LEMMA ExecuteType ==
    ASSUME FlowType, NEW id_ready \in BOOLEAN, NEW jr_stall \in BOOLEAN, NEW debug_req \in BOOLEAN
    PROVE  Execute(id_ready, jr_stall, debug_req) \in Outputs
<1>1. Decoding \in Outputs /\ FlushAfter(id_ready) \in Outputs /\ Plain \in Outputs
  BY DecodingType, PlainType
<1>2. Illegal(id_ready) \in Outputs
  BY <1>1, Values DEF Illegal, Outputs
<1>3. Ebreak(id_ready) \in Outputs
  <2>1. [Decoding EXCEPT !.halt_if = TRUE, !.ns = "DBG_FLUSH"] \in Outputs
    BY <1>1, Values DEF Outputs
  <2> QED BY <1>1, <2>1 DEF Ebreak
<1>4. kind \in {"jal", "jalr"} => Jump(jr_stall) \in Outputs
  BY <1>1, JumpType, Values DEF Jump, JumpTo, Outputs
<1>5. StatusCsr(id_ready) \in Outputs
  BY <1>1, Values DEF StatusCsr, Outputs
<1> QED BY <1>1, <1>2, <1>3, <1>4, <1>5 DEF Execute

\* Outputs of DECODE and DECODE_HWLOOP.
LEMMA DecodeType ==
    ASSUME FlowType, NEW id_ready \in BOOLEAN, NEW jr_stall \in BOOLEAN, NEW irq_req \in BOOLEAN,
           NEW debug_req \in BOOLEAN
    PROVE  Decode(id_ready, jr_stall, irq_req, debug_req) \in Outputs
<1> DEFINE execute == Execute(id_ready, jr_stall, debug_req)
<1>1. execute \in Outputs /\ Idle \in Outputs /\ Halted \in Outputs /\ Decoding \in Outputs
  BY ExecuteType, IdleType, DecodingType
<1> HIDE DEF execute
<1>2. Step(execute, id_ready) \in Outputs
  BY <1>1, Values DEF Step, Outputs
<1>3. branch_taken_ex => JumpTo(Idle, ex.to) \in Outputs
  BY <1>1, Values DEF branch_taken_ex, JumpTo, Outputs, FlowType, ExType
<1>4. TakenIrq("id") \in Outputs
  BY <1>1, Vectors, Values DEF TakenIrq, JumpTo, Outputs
<1>5. Decoding.illegal \in BOOLEAN
  BY <1>1, Values DEF Outputs
<1>6. [TakenIrq("id") EXCEPT !.illegal = Decoding.illegal] \in Outputs
  BY <1>4, <1>5, Values DEF Outputs
<1>7. [Halted EXCEPT !.ns = "DBG_FLUSH", !.entry = TRUE, !.illegal = Decoding.illegal] \in Outputs
  BY <1>1, <1>5, Values DEF Outputs
<1> QED BY <1>1, <1>2, <1>3, <1>6, <1>7 DEF Decode, execute

\* Outputs of the states from reset to the first fetch.
LEMMA SleepyTypes ==
    ASSUME FlowType, NEW flag \in BOOLEAN, NEW debug_req \in BOOLEAN
    PROVE  /\ Reset(flag) \in Outputs /\ BootSet(debug_req) \in Outputs /\ WaitSleep \in Outputs
           /\ Sleep(flag, debug_req) \in Outputs /\ FirstFetch(flag, debug_req) \in Outputs
<1>1. Idle \in Outputs /\ Halted \in Outputs
  BY IdleType
<1> USE DEF Outputs, JumpTo
<1>2. Reset(flag) \in Outputs
  BY <1>1, Values DEF Reset
<1>3. BootSet(debug_req) \in Outputs
  BY <1>1, Vectors, Values DEF BootSet
<1>4. WaitSleep \in Outputs
  BY <1>1, Values DEF WaitSleep
<1>5. Sleep(flag, debug_req) \in Outputs
  BY <1>1, Values DEF Sleep
<1>6. FirstFetch(flag, debug_req) \in Outputs
  BY <1>1, Vectors, Values DEF FirstFetch, TakenIrq
<1> QED BY <1>2, <1>3, <1>4, <1>5, <1>6

\* Outputs of the flush.
LEMMA FlushTypes ==
    ASSUME FlowType, NEW flag \in BOOLEAN
    PROVE  FlushEx(flag) \in Outputs /\ FlushWb(flag) \in Outputs
<1>1. Idle \in Outputs /\ Halted \in Outputs
  BY IdleType
<1>t. hwlp_targ_addr(pc_id) \in Addresses /\ Plus(pc_id, 2) \in Addresses
  BY TargetType, PlusIs DEF FlowType, FetchType
<1> USE DEF Outputs, JumpTo
<1>2. FlushEx(flag) \in Outputs
  <2>1. \A save \in Saves, event \in Events :
          [Halted EXCEPT !.ns = "FLUSH_WB", !.save = save, !.event = event] \in Outputs
    BY <1>1, Values
  <2> HIDE DEF Outputs, JumpTo
  <2> QED BY <1>1, <2>1, Values DEF FlushEx
<1>3. Trap \in Outputs
  BY <1>1, Vectors, Values DEF Trap
<1>4. AfterStatusCsr \in Outputs
  BY <1>1, <1>t, Values DEF AfterStatusCsr
<1>5. FlushWb(flag) \in Outputs
  <2>1. \A ns \in FsmStates, flag_1 \in BOOLEAN :
          /\ [Halted EXCEPT !.ns = ns] \in Outputs
          /\ [Halted EXCEPT !.ns = ns, !.restore = flag_1] \in Outputs
          /\ [Halted EXCEPT !.ns = ns, !.wakeup = flag_1] \in Outputs
    BY <1>1
  <2>2. [JumpTo(Halted, Plus(pc_id, 2)) EXCEPT !.ns = "DECODE"] \in Outputs
    BY <1>1, <1>t, Values
  <2>3. (~debug_mode_q) \in BOOLEAN
    OBVIOUS
  <2> HIDE DEF Outputs, JumpTo
  <2> QED BY <1>3, <1>4, <2>1, <2>2, <2>3, Values DEF FlushWb
<1> QED BY <1>2, <1>5

\* Outputs of a return from a trap and of the states that lead into debug mode.
LEMMA DebugTypes ==
    ASSUME FlowType
    PROVE  /\ ctrl_fsm_cs = "XRET_JUMP" => XretJump \in Outputs
           /\ DbgWaitBranch \in Outputs /\ DbgFlush \in Outputs
           /\ DbgTakenId \in Outputs /\ DbgTakenIf \in Outputs
<1>1. Idle \in Outputs /\ Halted \in Outputs
  BY IdleType
<1>t. ex.kind = "branch" => ex.to \in Addresses
  BY Values DEF FlowType, ExType
<1> USE DEF Outputs, JumpTo
<1>2. ctrl_fsm_cs = "XRET_JUMP" => XretJump \in Outputs
  BY <1>1, Vectors, Values DEF XretJump, FlowType, ControllerType, TrapType
<1>3. DbgWaitBranch \in Outputs
  BY <1>1, <1>t, Values DEF DbgWaitBranch, branch_taken_ex
<1>4. DbgFlush \in Outputs
  BY <1>1, Values DEF DbgFlush
<1>5. IntoDebug \in Outputs
  BY <1>1, Vectors, Values DEF IntoDebug
<1>6. debug_cause \in Causes
  BY Values DEF debug_cause
<1>7. DbgTakenId \in Outputs
  BY <1>5, <1>6, Values DEF DbgTakenId, FlowType, ControllerType
<1>8. DbgTakenIf \in Outputs
  BY <1>5, Values DEF DbgTakenIf
<1> QED BY <1>2, <1>3, <1>4, <1>7, <1>8

-----------------------------------------------------------------------------
(* One clock edge keeps the registers in their ranges *)

\* The inputs of a cycle have their types.
LEMMA InputTypes ==
    ASSUME NEW in \in Inputs
    PROVE  /\ in.id_ready \in BOOLEAN /\ in.arrives \in BOOLEAN /\ in.debug_req \in BOOLEAN
           /\ in.irq \subseteq IRQS
           /\ ctrl_fsm_cs = "FIRST_FETCH" => in.id_ready
           /\ in.arrives => ~waiting /\ ctrl_fsm_cs # "RESET"
BY FlowAssumption DEF Inputs

\* The IF stage's inputs in a cycle with these outputs of the controller.
FetchIn(in, out) ==
    [pc_set_i |-> out.pc_set, branch_addr_i |-> out.target,
     hwlp_jump_i |-> hwlp_jump(out), hwlp_target_i |-> out.hwlp_target,
     fetch_valid |-> ~out.pc_set /\ (waiting \/ in.arrives),
     if_valid |-> ~out.halt_if /\ (~out.pc_set /\ (waiting \/ in.arrives)) /\ in.id_ready,
     clear_instr_valid_i |-> in.id_ready \/ out.halt_id \/ branch_taken_ex]

\* The IF stage is given inputs of the right type.
LEMMA FetchInType ==
    ASSUME FlowType, NEW in \in Inputs, NEW out \in Outputs
    PROVE  FetchIn(in, out) \in FetchInputs
<1>1. branch_taken_ex \in BOOLEAN /\ hwlp_jump(out) \in BOOLEAN
  BY DEF branch_taken_ex, hwlp_jump, FlowType, ExType
<1>2. /\ out.pc_set \in BOOLEAN /\ out.target \in Addresses /\ out.hwlp_target \in Addresses
      /\ out.halt_if \in BOOLEAN /\ out.halt_id \in BOOLEAN
  BY DEF Outputs
<1> QED BY <1>1, <1>2, InputTypes DEF FetchIn, FetchInputs, FlowType, FetchType

\* What Edge does, one part at a time, for the operation that goes into EX.
EdgeParts(in, out, into_ex) ==
    /\ into_ex \in IF Issues(in, out) THEN IntoEx ELSE {NoOp}
    /\ FetchStageEdge(FetchIn(in, out))
    /\ HwloopEdge(HwloopWrite(in, out), out.dec,
                  instr_valid_id /\ (in.id_ready \/ out.halt_id \/ branch_taken_ex))
    /\ ControllerEdge(out, in.id_ready, in.debug_req)
    /\ TrapEdge(out.save, out.debug_save, out.debug_cause, exception_pc(out), out.restore, ex, in.irq)
    /\ ex' = into_ex
    /\ turned' = hwlp_jump(out)
    /\ Commit(in, out, into_ex.taken)

\* Every edge has these parts.
LEMMA EdgeHasParts ==
    ASSUME NEW in, NEW out, Edge(in, out)
    PROVE  \E into_ex : EdgeParts(in, out, into_ex)
BY DEF Edge, EdgeParts, FetchIn

\* What goes into EX has its type.
LEMMA IntoExType ==
    ASSUME FlowType, NEW into_ex \in IntoEx \cup {NoOp}
    PROVE  /\ into_ex.kind = "branch" =>
                /\ ~illegal_insn /\ kind = "branch"
                /\ into_ex.taken \in BOOLEAN /\ into_ex.to = Program[instr_id.lo].to
                /\ into_ex.to \in Addresses
           /\ into_ex.kind = "mie"  => into_ex.value \in BOOLEAN
           /\ into_ex.kind = "skip" => into_ex.value = Following(mepc_q) /\ into_ex.value \in Addresses
           /\ into_ex.kind = "dcsr" => into_ex.value \in DEBUG_SETTINGS
           /\ into_ex.kind \in {"mie", "skip", "dcsr"} => kind = into_ex.kind /\ ~illegal_insn
           /\ into_ex.taken \in BOOLEAN /\ (into_ex.taken => into_ex.kind = "branch")
<1>0. /\ illegal_insn \in BOOLEAN
      /\ illegal_insn => IntoEx = {NoOp}
      /\ ~illegal_insn /\ kind \notin {"branch", "mie", "skip", "dcsr"} =>
           \/ IntoEx = {NoOp}
           \/ IntoEx = {[NoOp EXCEPT !.kind = kind, !.value = Program[instr_id.lo].effect]}
  BY DEF IntoEx, illegal_insn
<1>1. instr_id.lo \in Addresses /\ mepc_q \in Addresses
  BY DEF FlowType, FetchType, Instructions, TrapType
<1>2. /\ kind \in {"jal", "jalr", "branch"} => Program[instr_id.lo].to \in Addresses
      /\ kind = "mie" => Program[instr_id.lo].value \in BOOLEAN
  BY <1>1, SoftwareAssumption DEF kind
<1>3. Following(mepc_q) \in Addresses
  BY <1>1, PlusIs DEF Following
<1>4. CASE into_ex = NoOp
  BY <1>4 DEF NoOp
<1>5. CASE into_ex \in IntoEx /\ illegal_insn
  <2>1. into_ex = NoOp
    BY <1>0, <1>5
  <2> QED BY <2>1 DEF NoOp
<1>6. CASE into_ex \in IntoEx /\ ~illegal_insn /\ kind = "branch"
  BY <1>2, <1>6 DEF IntoEx, NoOp
<1>7. CASE into_ex \in IntoEx /\ ~illegal_insn /\ kind \in {"mie", "skip", "dcsr"}
  BY <1>2, <1>3, <1>7 DEF IntoEx, NoOp
<1>8. CASE into_ex \in IntoEx /\ ~illegal_insn /\ kind \notin {"branch", "mie", "skip", "dcsr"}
  <2>1. \/ into_ex = NoOp
        \/ into_ex = [NoOp EXCEPT !.kind = kind, !.value = Program[instr_id.lo].effect]
    BY <1>0, <1>8
  <2>2. CASE into_ex = NoOp
    BY <2>2 DEF NoOp
  <2>3. CASE into_ex = [NoOp EXCEPT !.kind = kind, !.value = Program[instr_id.lo].effect]
    <3>1. into_ex.kind = kind /\ into_ex.taken = FALSE
      BY <2>3 DEF NoOp
    <3> QED BY <1>8, <3>1
  <2> QED BY <2>1, <2>2, <2>3
<1> QED BY <1>4, <1>5, <1>6, <1>7, <1>8

\* The loop registers keep theirs.
LEMMA LoopEdgeType ==
    ASSUME FlowType, NEW in \in Inputs, NEW out \in Outputs, NEW valid,
           HwloopEdge(HwloopWrite(in, out), out.dec, valid)
    PROVE  LoopType'
<1> DEFINE write == HwloopWrite(in, out)
<1>1. /\ write.loop \in Loops /\ write.start \in Addresses /\ write.end \in Addresses
      /\ write.count \in Counts
  <2>1. instr_id.lo \in Addresses
    BY DEF FlowType, FetchType, Instructions
  <2>2. 0 \in Addresses /\ 0 \in Counts
    BY Size, CountsAssumption DEF Addresses, Counts
  <2> QED BY <2>1, <2>2, LoopFieldsAssumption DEF HwloopWrite, kind, Loops, Counts
<1> HIDE DEF write
<1>2. \A addr \in Addresses : 2 * (addr \div 2) \in EvenAddresses
  BY WordOfHalf, HalvesOfWord DEF EvenAddresses
<1>3. \A count \in Counts : (count - 1) % COUNTS \in Counts
  BY CountsAssumption DEF Counts
<1>4. hwlp_start_q' \in [Loops -> EvenAddresses]
  BY <1>1, <1>2 DEF HwloopEdge, write, FlowType, LoopType
<1>5. hwlp_end_q' \in [Loops -> EvenAddresses]
  BY <1>1, <1>2 DEF HwloopEdge, write, FlowType, LoopType
<1>6. hwlp_counter_q' \in [Loops -> Counts]
  BY <1>1, <1>3 DEF HwloopEdge, write, FlowType, LoopType
<1> QED BY <1>4, <1>5, <1>6 DEF LoopType

\* The hart goes on at an address of the memory.
LEMMA SuccessorType ==
    ASSUME FlowType, NEW taken \in BOOLEAN
    PROVE  Successor(hwlp_start_q, hwlp_end_q, taken) \in Addresses
<1> DEFINE back == {k \in Ending(hwlp_end_q, hart.pc) : hart.lpcount[k] > 1}
<1>1. back \subseteq Loops
  BY DEF Ending, Loops
<1>2. back # {} => (CHOOSE k \in back : \A j \in back : k <= j) \in Loops
  <2>1. ASSUME back # {} PROVE \E k \in back : \A j \in back : k <= j
    BY <1>1, <2>1 DEF Loops
  <2> QED BY <1>1, <2>1
<1>3. hart.pc \in Addresses /\ hart.mepc \in Addresses /\ hart.depc \in Addresses
  BY DEF FlowType, HartType
<1>4. /\ Program[hart.pc].kind \in {"jal", "jalr", "branch"} => Program[hart.pc].to \in Addresses
      /\ Following(hart.pc) \in Addresses /\ DM_EXCEPTION \in Addresses
  BY <1>3, PlusIs, Vectors, SoftwareAssumption DEF Following
<1>5. \A k \in Loops : hwlp_start_q[k] \in Addresses
  BY DEF FlowType, LoopType, EvenAddresses
<1> QED BY <1>2, <1>3, <1>4, <1>5 DEF Successor

\* The hart keeps its types whatever it commits.
LEMMA CommitType ==
    ASSUME FlowType, NEW in \in Inputs, NEW out \in Outputs, NEW taken \in BOOLEAN,
           Commit(in, out, taken)
    PROVE  HartType'
<1> DEFINE Harts == [pc : Addresses, lpcount : [Loops -> Counts], mepc : Addresses,
                     depc : Addresses, debug : BOOLEAN]
<1>1. hart \in Harts /\ since_dret \in 0 .. 2
  BY DEF FlowType, HartType
<1>2. CASE Interrupt
  BY <1>1, <1>2, Vectors DEF Interrupt, HartType
<1>3. CASE Exception
  <2>1. hart' \in Harts
    BY <1>1, <1>3, Vectors DEF Exception
  <2>2. since_dret' \in 0 .. 2
    BY <1>1, <1>3 DEF Exception
  <2> QED BY <2>1, <2>2 DEF HartType
<1>4. CASE Halt
  BY <1>1, <1>4, Vectors DEF Halt, HartType
<1>5. CASE Retire(hwlp_start_q, hwlp_end_q, taken)
  <2>1. Successor(hwlp_start_q, hwlp_end_q, taken) \in Addresses /\ Following(hart.mepc) \in Addresses
    BY <1>1, SuccessorType, PlusIs DEF Following
  <2>2. Program[hart.pc].kind = "hwloop" => Program[hart.pc].count \in Counts
    BY <1>1, LoopFieldsAssumption DEF Counts
  <2>3. \A k \in Ending(hwlp_end_q, hart.pc) : hart.lpcount[k] - 1 \in Counts
    BY <1>1, CountsAssumption DEF Counts, Ending, Loops
  <2>4. [k \in {0, 1} |->
            IF Program[hart.pc].kind = "hwloop" /\ Program[hart.pc].loop = k /\ "count" \in Program[hart.pc].fields
            THEN Program[hart.pc].count
            ELSE IF k \in Ending(hwlp_end_q, hart.pc) THEN hart.lpcount[k] - 1 ELSE hart.lpcount[k]]
          \in [Loops -> Counts]
    BY <1>1, <2>2, <2>3 DEF Loops
  <2>5. (hart.debug /\ Program[hart.pc].kind # "dret") \in BOOLEAN
    OBVIOUS
  <2>6. hart' \in Harts
    BY <1>1, <1>5, <2>1, <2>4, <2>5 DEF Retire
  <2>7. since_dret' \in 0 .. 2
    BY <1>1, <1>5 DEF Retire
  <2> QED BY <2>6, <2>7 DEF HartType
<1>6. CASE UNCHANGED hartVars
  BY <1>1, <1>6 DEF hartVars, HartType
<1> QED BY <1>2, <1>3, <1>4, <1>5, <1>6 DEF Commit

\* One clock edge keeps all types.
LEMMA EdgeType ==
    ASSUME FlowType, NEW in \in Inputs, NEW out \in Outputs, Edge(in, out),
           out.ns = "XRET_JUMP" => out.halt_if /\ kind \in {"mret", "dret"}
    PROVE  FlowType'
<1>1. PICK into_ex : EdgeParts(in, out, into_ex)
  BY EdgeHasParts
<1>2. FetchType'
  BY <1>1, FetchInType, FetchStageType DEF EdgeParts, FlowType
<1>3. LoopType'
  BY <1>1, LoopEdgeType DEF EdgeParts
<1>4. ControllerType'
  <2>1. out.ns = "XRET_JUMP" => instr_id' = instr_id
    BY <1>1 DEF EdgeParts, FetchIn, FetchStageEdge, IfIdStep
  <2>2. ControllerEdge(out, in.id_ready, in.debug_req)
    BY <1>1 DEF EdgeParts
  <2> QED BY <2>1, <2>2, InputTypes DEF ControllerEdge, FlowType, ControllerType, Outputs, next_debug_fsm, kind
<1>5. TrapType'
  <2>1. exception_pc(out) \in Addresses
    BY DEF exception_pc, FlowType, FetchType
  <2>2. DEBUG_SETTINGS \subseteq DebugSettings
    BY FlowAssumption DEF DebugSettings
  <2>3. TrapEdge(out.save, out.debug_save, out.debug_cause, exception_pc(out), out.restore, ex, in.irq)
    BY <1>1 DEF EdgeParts
  <2> QED BY <2>1, <2>2, <2>3, InputTypes DEF TrapEdge, FlowType, TrapType, ExType
<1>6. into_ex \in IntoEx \cup {NoOp} /\ ex' = into_ex /\ Commit(in, out, into_ex.taken)
  BY <1>1 DEF EdgeParts
<1>7. ExType'
  BY <1>6, IntoExType DEF ExType
<1>8. HartType'
  <2>1. into_ex.taken \in BOOLEAN
    BY <1>6, IntoExType
  <2> QED BY <1>6, <2>1, CommitType
<1> QED BY <1>2, <1>3, <1>4, <1>5, <1>7, <1>8 DEF FlowType

-----------------------------------------------------------------------------
(* The flags one state sets for another *)

\* Instructions the pipeline is flushed after.
Flushing == {"csr", "mie", "skip", "dcsr", "wfi", "fencei", "mret", "dret", "ecall", "ebreak"}

\* A reason to enter debug mode before the instruction in ID runs.
Called == trigger_match \/ (ebrk_force_debug_mode /\ kind = "ebreak") \/ debug_req_entry_q

\* Who has set a flag, and how long it lasts: each of them is read in one later state.  The
\* last lines say in which states debug mode, a step or a call by the debugger is possible.
FlagInv ==
    /\ illegal_insn_q => ctrl_fsm_cs \in {"DECODE", "FLUSH_EX", "FLUSH_WB"} /\ illegal_insn
    /\ illegal_insn_q /\ ctrl_fsm_cs = "DECODE" => instr_valid_id /\ ~branch_taken_ex
    /\ debug_req_entry_q => ctrl_fsm_cs \in {"DBG_FLUSH", "DBG_TAKEN_ID"} /\ ~debug_mode_q
    /\ debug_req_entry_q => debug_req_q \/ trigger_match
    /\ debug_force_wakeup_q <=> ctrl_fsm_cs = "DBG_TAKEN_IF" /\ ~debug_q.step
    /\ debug_force_wakeup_q => debug_req_q
    /\ instr_valid_id => ctrl_fsm_cs \in {"DECODE", "DECODE_HWLOOP", "DBG_FLUSH"}
    /\ jump_done_q /\ instr_valid_id => kind \in {"jal", "jalr"} \/ \E k \in Loops : IsLast(k, pc_id)
    /\ ctrl_fsm_cs = "RESET" => ~waiting
    /\ ctrl_fsm_cs \in {"RESET", "BOOT_SET", "WAIT_SLEEP", "SLEEP"} => ~debug_q.step /\ ~debug_mode_q
    /\ ctrl_fsm_cs \in {"FIRST_FETCH", "DBG_TAKEN_IF", "DBG_WAIT_BRANCH"} => ~debug_mode_q
    /\ ctrl_fsm_cs = "DBG_WAIT_BRANCH" => debug_q.step /\ kind = "branch" /\ ~trigger_match
    /\ ctrl_fsm_cs = "DBG_FLUSH" => debug_mode_q \/ Called \/ debug_q.step
    /\ ctrl_fsm_cs = "DBG_TAKEN_ID" => debug_mode_q \/ Called

\* A CSR instruction leaves EX in the flush it causes; a branch does in the cycle after.
ExInv ==
    /\ ex.kind \in {"mie", "skip", "dcsr"} =>
         ctrl_fsm_cs \in {"FLUSH_EX", "DBG_FLUSH"} /\ kind = ex.kind /\ ~illegal_insn
    /\ ex.kind = "branch" => ctrl_fsm_cs \in {"DECODE", "DECODE_HWLOOP", "DBG_WAIT_BRANCH"}

\* Which instruction the pipeline is flushed for.
FlushInv ==
    ctrl_fsm_cs \in {"FLUSH_EX", "FLUSH_WB"} =>
      /\ illegal_insn => illegal_insn_q
      /\ ~illegal_insn => kind \in Flushing
      /\ ~illegal_insn /\ kind = "ebreak" => ~debug_mode_q /\ ~ebrk_force_debug_mode
      /\ ~illegal_insn /\ kind \in {"csr", "mie", "skip", "dcsr", "wfi", "fencei"} => ~Stepping
      /\ ~illegal_insn /\ kind = "wfi" => ~debug_mode_q /\ ~debug_q.step

\* One clock edge, as far as the flags depend on it.
EdgeSpec(in, out) ==
    /\ ctrl_fsm_cs' = out.ns
    /\ jump_done_q' = (out.jump_done /\ ~in.id_ready)
    /\ debug_mode_q' = out.debug_mode /\ illegal_insn_q' = out.illegal
    /\ debug_req_entry_q' = out.entry /\ debug_force_wakeup_q' = out.wakeup
    /\ hwlp_end_4_id_q' = out.hwlp_end_4
    /\ debug_req_q' = (in.debug_req \/ (debug_req_q /\ ~debug_mode_q))
    /\ debug_q' = IF ex.kind = "dcsr" THEN ex.value ELSE debug_q
    /\ Issues(in, out) => ex' \in IntoEx
    /\ ~Issues(in, out) => ex' = NoOp
    /\ \/ /\ instr_id' = instr_id /\ pc_id' = pc_id
          /\ instr_valid_id' = (instr_valid_id /\ ~(in.id_ready \/ out.halt_id \/ branch_taken_ex))
       \/ instr_valid_id' = TRUE /\ in.id_ready /\ ~out.halt_if /\ ~out.pc_set /\ (waiting \/ in.arrives)
    /\ ~in.id_ready \/ kind # "hwloop" \/ ~out.decoding =>
          hwlp_end_q' = hwlp_end_q /\ hwlp_start_q' = hwlp_start_q
    /\ ~out.pc_set /\ ~waiting /\ ~in.arrives => ~waiting'

\* Every edge does this to the flags.
LEMMA EdgeFlags ==
    ASSUME FlowType, NEW in \in Inputs, NEW out \in Outputs, Edge(in, out)
    PROVE  EdgeSpec(in, out)
<1>1. PICK into_ex : EdgeParts(in, out, into_ex)
  BY EdgeHasParts
<1>2. /\ ControllerEdge(out, in.id_ready, in.debug_req)
      /\ TrapEdge(out.save, out.debug_save, out.debug_cause, exception_pc(out), out.restore, ex, in.irq)
      /\ into_ex \in (IF Issues(in, out) THEN IntoEx ELSE {NoOp}) /\ ex' = into_ex
  BY <1>1 DEF EdgeParts
<1>3. /\ \/ /\ instr_id' = instr_id /\ pc_id' = pc_id
            /\ instr_valid_id' = (instr_valid_id /\ ~(in.id_ready \/ out.halt_id \/ branch_taken_ex))
         \/ instr_valid_id' = TRUE /\ in.id_ready /\ ~out.halt_if /\ ~out.pc_set /\ (waiting \/ in.arrives)
      /\ ~out.pc_set /\ ~waiting /\ ~in.arrives => ~waiting'
  BY <1>1 DEF EdgeParts, FetchIn, FetchStageEdge, IfIdStep, StreamStep
<1>4. ~in.id_ready \/ kind # "hwloop" \/ ~out.decoding =>
        hwlp_end_q' = hwlp_end_q /\ hwlp_start_q' = hwlp_start_q
  BY <1>1 DEF EdgeParts, HwloopEdge, HwloopWrite
<1> QED BY <1>2, <1>3, <1>4 DEF ControllerEdge, TrapEdge, EdgeSpec

\* What Execute chooses, single-stepping apart.
ExecuteSpec(out, id_ready) ==
    /\ out.decoding = TRUE /\ out.debug_mode = debug_mode_q /\ out.wakeup = debug_force_wakeup_q
    /\ out.entry = debug_req_entry_q
    /\ out.jump_done => jump_done_q \/ kind \in {"jal", "jalr"} \/ \E k \in Loops : IsLast(k, pc_id)
    /\ illegal_insn => /\ out.illegal = TRUE /\ out.halt_if = TRUE
                       /\ \/ out.ns = "FLUSH_EX" /\ (id_ready \/ out.halt_id)
                          \/ ~id_ready /\ ~out.halt_id /\ out.ns = "DECODE" /\ ~InLoopState
    /\ ~illegal_insn =>
         /\ out.illegal = (InLoopState /\ illegal_insn_q) /\ out.halt_id = FALSE
         /\ out.ns \in {"DECODE", "DECODE_HWLOOP", "FLUSH_EX", "DBG_FLUSH"}
         /\ out.ns = "FLUSH_EX" =>
              /\ out.halt_if = TRUE /\ id_ready /\ kind \in Flushing
              /\ kind = "ebreak" => ~debug_mode_q /\ ~ebrk_force_debug_mode
              /\ kind = "wfi" => ~debug_mode_q /\ ~debug_q.step
         /\ out.ns = "DBG_FLUSH" =>
              out.halt_if = TRUE /\ kind = "ebreak" /\ (debug_mode_q \/ ebrk_force_debug_mode)
         /\ kind = "branch" => out.ns \in {"DECODE", "DECODE_HWLOOP"}
         /\ IsStatusCsr /\ id_ready => out.ns = "FLUSH_EX"

\* Execute chooses what ExecuteSpec says.
LEMMA ExecuteFlags ==
    ASSUME FlowType, ctrl_fsm_cs \in {"DECODE", "DECODE_HWLOOP"},
           NEW id_ready \in BOOLEAN, NEW jr_stall \in BOOLEAN, NEW debug_req \in BOOLEAN
    PROVE  ExecuteSpec(Execute(id_ready, jr_stall, debug_req), id_ready)
<1> DEFINE out == Execute(id_ready, jr_stall, debug_req)
<1> USE DEF Decoding, Idle, InLoopState, ExecuteSpec
<1>a. /\ debug_mode_q \in BOOLEAN /\ debug_q.ebreakm \in BOOLEAN /\ debug_q.step \in BOOLEAN
      /\ illegal_insn \in BOOLEAN
  BY DEF FlowType, ControllerType, TrapType, DebugSettings, illegal_insn
<1>1. CASE illegal_insn
  BY <1>1 DEF Execute, Illegal, FlushAfter
<1>2. CASE ~illegal_insn /\ ~InLoopState /\ kind \in {"jal", "jalr"}
  <2>0. ctrl_fsm_cs = "DECODE" /\ ~IsStatusCsr
    BY <1>2 DEF IsStatusCsr
  <2>1. out = Jump(jr_stall)
    <3> HIDE DEF Decoding, Idle, InLoopState
    <3> QED BY <1>a, <1>2 DEF Execute, IsStatusCsr, wfi_active
  <2>2. CASE jr_stall \/ jump_done_q
    BY <1>2, <2>0, <2>1, <2>2 DEF Jump
  <2>3. CASE ~(jr_stall \/ jump_done_q)
    BY <1>2, <2>0, <2>1, <2>3 DEF Jump, JumpTo
  <2> QED BY <2>2, <2>3
<1>3. CASE ~illegal_insn /\ kind = "ebreak"
  <2>0. ~IsStatusCsr
    BY <1>3 DEF IsStatusCsr
  <2>1. out = Ebreak(id_ready)
    <3> HIDE DEF Decoding, Idle, InLoopState
    <3> QED BY <1>a, <1>3 DEF Execute, IsStatusCsr, wfi_active
  <2>2. CASE debug_mode_q \/ ebrk_force_debug_mode
    BY <1>3, <2>0, <2>1, <2>2 DEF Ebreak
  <2>3. CASE ~(debug_mode_q \/ ebrk_force_debug_mode)
    BY <1>3, <2>0, <2>1, <2>3 DEF Ebreak, FlushAfter, Flushing
  <2> QED BY <2>2, <2>3
<1>4. CASE ~illegal_insn /\ kind = "ecall"
  BY <1>a, <1>4 DEF Execute, FlushAfter, IsStatusCsr, Flushing
<1>5. CASE ~illegal_insn /\ ~InLoopState /\ (wfi_active(debug_req) \/ kind \in {"fencei", "mret", "dret"})
  BY <1>a, <1>5 DEF Execute, FlushAfter, IsStatusCsr, Flushing, wfi_active
<1>6. CASE ~illegal_insn /\ IsStatusCsr
  BY <1>a, <1>6 DEF Execute, StatusCsr, FlushAfter, IsStatusCsr, Flushing, wfi_active
<1>7. CASE /\ ~illegal_insn /\ ~IsStatusCsr /\ kind \notin {"ebreak", "ecall"}
           /\ ~InLoopState => kind \notin {"jal", "jalr", "fencei", "mret", "dret"} /\ ~wfi_active(debug_req)
  <2>1. out = Plain
    BY <1>7 DEF Execute
  <2>2. CASE InLoopState
    <3>1. out = PlainInLoop
      BY <2>1, <2>2 DEF Plain
    <3>2. out.ns \in {"DECODE", "DECODE_HWLOOP"} /\ out.jump_done = jump_done_q
      BY <3>1 DEF PlainInLoop
    <3>3. /\ out.decoding = TRUE /\ out.debug_mode = debug_mode_q /\ out.wakeup = debug_force_wakeup_q
          /\ out.entry = debug_req_entry_q /\ out.halt_id = FALSE
          /\ out.illegal = (InLoopState /\ illegal_insn_q)
      BY <3>1 DEF PlainInLoop
    <3> QED BY <1>7, <3>2, <3>3
  <2>3. CASE ~InLoopState
    <3>1. out = PlainInDecode
      BY <2>1, <2>3 DEF Plain
    <3>2. out.ns \in {"DECODE", "DECODE_HWLOOP"}
      BY <3>1 DEF PlainInDecode, JumpTo
    <3>3. out.jump_done => jump_done_q \/ \E k \in Loops : IsLast(k, pc_id)
      BY <3>1 DEF PlainInDecode, JumpTo
    <3>4. /\ out.decoding = TRUE /\ out.debug_mode = debug_mode_q /\ out.wakeup = debug_force_wakeup_q
          /\ out.entry = debug_req_entry_q /\ out.halt_id = FALSE
          /\ out.illegal = (InLoopState /\ illegal_insn_q)
      BY <3>1 DEF PlainInDecode, JumpTo
    <3> QED BY <1>7, <3>2, <3>3, <3>4
  <2> QED BY <2>2, <2>3
<1> QED BY <1>1, <1>2, <1>3, <1>4, <1>5, <1>6, <1>7
\* The same with the step, the halts and the interrupts.
DecodeSpec(out, id_ready, debug_req) ==
    /\ out.debug_mode = debug_mode_q /\ out.wakeup = FALSE
    /\ out.ns \in {"DECODE", "DECODE_HWLOOP", "FLUSH_EX", "DBG_FLUSH", "DBG_WAIT_BRANCH"}
    /\ out.jump_done /\ instr_valid_id =>
         jump_done_q \/ kind \in {"jal", "jalr"} \/ \E k \in Loops : IsLast(k, pc_id)
    /\ out.entry \in BOOLEAN /\ out.illegal \in BOOLEAN
    /\ out.entry => /\ out.ns = "DBG_FLUSH" /\ ~debug_mode_q
                    /\ Pending(debug_req) \/ trigger_match
    /\ out.illegal => /\ illegal_insn /\ out.halt_if = TRUE
                      /\ \/ out.ns = "FLUSH_EX"
                         \/ out.ns = "DECODE" /\ ~id_ready /\ out.halt_id = FALSE
                            /\ instr_valid_id /\ ~branch_taken_ex
    /\ out.ns = "FLUSH_EX" =>
         /\ instr_valid_id /\ out.halt_if = TRUE /\ (id_ready \/ out.halt_id)
         /\ illegal_insn => out.illegal
         /\ ~illegal_insn => kind \in Flushing
         /\ ~illegal_insn /\ kind = "ebreak" => ~debug_mode_q /\ ~ebrk_force_debug_mode
         /\ ~illegal_insn /\ kind \in {"csr", "mie", "skip", "dcsr", "wfi", "fencei"} => ~Stepping
         /\ ~illegal_insn /\ kind = "wfi" => ~debug_mode_q /\ ~debug_q.step
    /\ out.ns = "DBG_FLUSH" =>
         /\ out.halt_if = TRUE
         /\ debug_mode_q \/ out.entry \/ (ebrk_force_debug_mode /\ kind = "ebreak") \/ debug_q.step
    /\ out.ns = "DBG_WAIT_BRANCH" => /\ out.halt_if = TRUE /\ id_ready /\ Stepping
                                     /\ kind = "branch" /\ ~trigger_match
    /\ out.decoding => /\ instr_valid_id
                       /\ id_ready /\ ~illegal_insn /\ IsStatusCsr => out.ns \in {"FLUSH_EX", "DBG_FLUSH"}
                       /\ ~illegal_insn /\ kind = "branch" =>
                            out.ns \in {"DECODE", "DECODE_HWLOOP", "DBG_WAIT_BRANCH"} \/ ~id_ready

\* Decode chooses what DecodeSpec says.
LEMMA DecodeFlags ==
    ASSUME FlowType, FlagInv, ctrl_fsm_cs \in {"DECODE", "DECODE_HWLOOP"},
           NEW id_ready \in BOOLEAN, NEW jr_stall \in BOOLEAN, NEW irq_req \in BOOLEAN,
           NEW debug_req \in BOOLEAN
    PROVE  DecodeSpec(Decode(id_ready, jr_stall, irq_req, debug_req), id_ready, debug_req)
<1> DEFINE out == Decode(id_ready, jr_stall, irq_req, debug_req)
<1> SUFFICES DecodeSpec(out, id_ready, debug_req)
  OBVIOUS
<1> USE DEF DecodeSpec
<1>a. /\ debug_mode_q \in BOOLEAN /\ debug_q.ebreakm \in BOOLEAN /\ debug_q.step \in BOOLEAN
      /\ illegal_insn \in BOOLEAN /\ illegal_insn_q \in BOOLEAN /\ debug_req_q \in BOOLEAN
      /\ Stepping = (debug_q.step /\ ~debug_mode_q) /\ instr_valid_id \in BOOLEAN
  BY DEF FlowType, ControllerType, TrapType, DebugSettings, illegal_insn, Stepping, FetchType
<1>b. /\ debug_force_wakeup_q = FALSE /\ debug_req_entry_q = FALSE
      /\ illegal_insn_q => ctrl_fsm_cs = "DECODE" /\ instr_valid_id /\ ~branch_taken_ex
  BY DEF FlagInv, FlowType, ControllerType
<1> DEFINE halted == (Pending(debug_req) \/ trigger_match) /\ ~debug_mode_q
           old    == ctrl_fsm_cs = "DECODE" /\ branch_taken_ex
           execute == Execute(id_ready, jr_stall, debug_req)
<1>1. CASE old
  <2>1. out = JumpTo(Idle, ex.to)
    BY <1>1 DEF Decode
  <2> QED BY <1>1, <1>a, <1>b, <2>1 DEF JumpTo, Idle
<1>2. CASE ~old /\ ~instr_valid_id
  <2>1. out = Idle
    BY <1>2 DEF Decode
  <2>2. /\ out.debug_mode = debug_mode_q /\ out.wakeup = debug_force_wakeup_q /\ out.ns = ctrl_fsm_cs
        /\ out.entry = debug_req_entry_q /\ out.illegal = illegal_insn_q /\ out.decoding = FALSE
    BY <2>1 DEF Idle
  <2> QED BY <1>2, <1>a, <1>b, <2>2
<1>3. CASE ~old /\ instr_valid_id /\ halted
  <2>1. out = [Halted EXCEPT !.ns = "DBG_FLUSH", !.entry = TRUE, !.illegal = Decoding.illegal]
    BY <1>3 DEF Decode
  <2>2. Decoding.illegal = FALSE
    BY <1>b DEF Decoding, Idle, InLoopState
  <2>3. /\ out.debug_mode = debug_mode_q /\ out.wakeup = debug_force_wakeup_q /\ out.ns = "DBG_FLUSH"
        /\ out.entry = TRUE /\ out.illegal = FALSE /\ out.decoding = FALSE
        /\ out.halt_if = TRUE /\ out.jump_done = jump_done_q
    BY <2>1, <2>2 DEF Halted, Idle
  <2> QED BY <1>3, <1>a, <1>b, <2>3
<1>4. CASE ~old /\ instr_valid_id /\ ~halted /\ irq_req /\ ~debug_mode_q
  <2>1. out = [TakenIrq("id") EXCEPT !.illegal = Decoding.illegal]
    BY <1>4 DEF Decode
  <2>2. Decoding.illegal = FALSE
    BY <1>b DEF Decoding, Idle, InLoopState
  <2>3. /\ out.debug_mode = debug_mode_q /\ out.wakeup = debug_force_wakeup_q /\ out.ns = "DECODE"
        /\ out.entry = debug_req_entry_q /\ out.illegal = FALSE /\ out.decoding = FALSE
        /\ out.jump_done = jump_done_q
    BY <2>1, <2>2 DEF TakenIrq, JumpTo, Halted, Idle
  <2> QED BY <1>4, <1>a, <1>b, <2>3
<1>5. CASE ~old /\ instr_valid_id /\ ~halted /\ ~(irq_req /\ ~debug_mode_q)
  <2> HIDE DEF execute
  <2>1. out = IF Stepping THEN Step(execute, id_ready) ELSE execute
    BY <1>5 DEF Decode, execute
  <2> HIDE DEF out
  <2>2. ExecuteSpec(execute, id_ready)
    BY ExecuteFlags DEF execute
  <2>3. execute.halt_id \in BOOLEAN /\ execute.halt_if \in BOOLEAN /\ execute.illegal \in BOOLEAN /\ execute \in Outputs
    BY ExecuteType DEF execute, Outputs
  <2>4. ~illegal_insn => execute.illegal = FALSE
    BY <1>b, <2>2 DEF ExecuteSpec, InLoopState
  <2>5. CASE ~Stepping
    <3>1. out = execute
      BY <2>1, <2>5
    <3> QED BY <1>5, <1>a, <1>b, <2>2, <2>3, <2>4, <2>5, <3>1 DEF ExecuteSpec, InLoopState
  <2>6. CASE Stepping
    <3>1. out = Step(execute, id_ready)
      BY <2>1, <2>6
    <3>2. /\ out.halt_if = TRUE /\ out.halt_id = execute.halt_id /\ out.decoding = execute.decoding
          /\ out.debug_mode = execute.debug_mode /\ out.wakeup = execute.wakeup
          /\ out.entry = execute.entry /\ out.jump_done = execute.jump_done /\ out.illegal = execute.illegal
      BY <2>3, <3>1 DEF Step, Outputs
    <3>3. /\ ~id_ready => out.ns = execute.ns
          /\ id_ready /\ (illegal_insn \/ kind \in {"ecall", "mret"} \/ (kind = "ebreak" /\ ~ebrk_force_debug_mode))
               => out.ns = "FLUSH_EX"
          /\ id_ready /\ ~illegal_insn /\ kind = "branch" => out.ns = "DBG_WAIT_BRANCH"
          /\ id_ready /\ ~illegal_insn /\ kind \notin {"branch", "ecall", "mret"}
               /\ ~(kind = "ebreak" /\ ~ebrk_force_debug_mode) => out.ns = "DBG_FLUSH"
      BY <2>3, <3>1 DEF Step, Outputs
    <3>4. /\ ~debug_mode_q /\ debug_q.step /\ ~trigger_match
          /\ instr_valid_id /\ (ctrl_fsm_cs = "DECODE" => ~branch_taken_ex)
      BY <1>5, <1>a, <2>6
    <3> HIDE DEF halted, old
    <3>5. CASE illegal_insn
      <4>1. out.illegal = TRUE /\ out.entry = FALSE /\ out.decoding = TRUE /\ out.wakeup = FALSE
            /\ out.debug_mode = debug_mode_q
        BY <1>b, <2>2, <3>2, <3>5 DEF ExecuteSpec
      <4>2. CASE out.ns = "FLUSH_EX" /\ (id_ready \/ out.halt_id)
        BY <1>5, <1>a, <1>b, <2>2, <2>3, <3>2, <3>4, <3>5, <4>1, <4>2 DEF ExecuteSpec
      <4>3. CASE ~id_ready /\ out.halt_id = FALSE /\ out.ns = "DECODE" /\ ctrl_fsm_cs = "DECODE"
        BY <1>5, <1>a, <1>b, <2>2, <2>3, <3>2, <3>4, <3>5, <4>1, <4>3 DEF ExecuteSpec
      <4> QED BY <2>2, <2>3, <3>2, <3>3, <3>5, <4>2, <4>3 DEF ExecuteSpec, InLoopState
    <3>6. CASE ~illegal_insn /\ ~id_ready
      BY <1>5, <1>a, <1>b, <2>2, <2>3, <2>4, <2>6, <3>2, <3>3, <3>4, <3>6 DEF ExecuteSpec, InLoopState
    <3>7. CASE ~illegal_insn /\ id_ready
      BY <1>5, <1>a, <1>b, <2>2, <2>3, <2>4, <2>6, <3>2, <3>3, <3>4, <3>7 DEF Flushing, IsStatusCsr, ExecuteSpec, InLoopState
    <3> QED BY <3>5, <3>6, <3>7
  <2> QED BY <2>5, <2>6
<1> QED BY <1>1, <1>2, <1>3, <1>4, <1>5

\* What holds of every program, legal loops or not.
FlowInv == FlowType /\ FlagInv /\ ExInv /\ FlushInv

\* DECODE and DECODE_HWLOOP keep the invariant.
LEMMA DecodeKeepsFlags ==
    ASSUME FlowInv, InDecode(Inputs)
    PROVE  FlowInv'
<1> USE DEF FlowInv
<1>1. /\ ctrl_fsm_cs \in {"DECODE", "DECODE_HWLOOP"}
      /\ \E in \in Inputs : \E jr_stall \in Stalls(in) :
           Edge(in, Decode(in.id_ready, jr_stall, irq_req_ctrl, in.debug_req))
  BY DEF InDecode
<1>2. PICK in \in Inputs : \E jr_stall \in Stalls(in) :
        Edge(in, Decode(in.id_ready, jr_stall, irq_req_ctrl, in.debug_req))
  BY <1>1
<1>3. PICK jr_stall \in BOOLEAN : Edge(in, Decode(in.id_ready, jr_stall, irq_req_ctrl, in.debug_req))
  BY <1>2 DEF Stalls
<1> DEFINE out == Decode(in.id_ready, jr_stall, irq_req_ctrl, in.debug_req)
<1>4. in.id_ready \in BOOLEAN /\ in.debug_req \in BOOLEAN /\ irq_req_ctrl \in BOOLEAN
  BY InputTypes DEF irq_req_ctrl
<1>5. out \in Outputs /\ DecodeSpec(out, in.id_ready, in.debug_req)
  BY <1>1, <1>4, DecodeType, DecodeFlags
<1> HIDE DEF out
<1>6. EdgeSpec(in, out) /\ FlowType'
  <2>1. Edge(in, out)
    BY <1>3 DEF out
  <2>2. out.ns # "XRET_JUMP"
    BY <1>5 DEF DecodeSpec
  <2> QED BY <1>5, <2>1, <2>2, EdgeFlags, EdgeType
<1>7. debug_q' = debug_q /\ debug_mode_q' = debug_mode_q /\ debug_force_wakeup_q' = FALSE
  BY <1>1, <1>5, <1>6 DEF EdgeSpec, DecodeSpec, ExInv
<1>8. \/ /\ instr_id' = instr_id /\ pc_id' = pc_id /\ kind' = kind /\ illegal_insn' = illegal_insn
         /\ instr_valid_id' = (instr_valid_id /\ ~(in.id_ready \/ out.halt_id \/ branch_taken_ex))
      \/ instr_valid_id' = TRUE /\ in.id_ready /\ ~out.halt_if /\ ~out.pc_set
  BY <1>6, <1>7 DEF EdgeSpec, kind, illegal_insn
<1>9. /\ trigger_match' = (pc_id' = debug_q.trigger) /\ ebrk_force_debug_mode' = ebrk_force_debug_mode
      /\ Stepping' = Stepping
  BY <1>7 DEF trigger_match, ebrk_force_debug_mode, Stepping
<1>10. FlagInv'
  <2>0. /\ ctrl_fsm_cs' = out.ns /\ illegal_insn_q' = out.illegal /\ debug_req_entry_q' = out.entry
        /\ jump_done_q' = (out.jump_done /\ ~in.id_ready)
    BY <1>6 DEF EdgeSpec
  <2>1. illegal_insn_q' => ctrl_fsm_cs' \in {"DECODE", "FLUSH_EX", "FLUSH_WB"} /\ illegal_insn'
    BY <1>5, <1>8, <2>0 DEF DecodeSpec
  <2>2. illegal_insn_q' /\ ctrl_fsm_cs' = "DECODE" => instr_valid_id' /\ ~branch_taken_ex'
    <3>1. ~in.id_ready => ex' = NoOp
      BY <1>6 DEF EdgeSpec, Issues
    <3>2. ex' = NoOp => ~branch_taken_ex'
      BY DEF branch_taken_ex, NoOp
    <3>3. illegal_insn_q' /\ ctrl_fsm_cs' = "DECODE" =>
            ~in.id_ready /\ out.halt_id = FALSE /\ instr_valid_id /\ ~branch_taken_ex
      BY <1>5, <2>0 DEF DecodeSpec
    <3> QED BY <1>8, <3>1, <3>2, <3>3
  <2>3. /\ debug_req_entry_q' => ctrl_fsm_cs' \in {"DBG_FLUSH", "DBG_TAKEN_ID"} /\ ~debug_mode_q'
        /\ debug_req_entry_q' => debug_req_q' \/ trigger_match'
    BY <1>5, <1>6, <1>7, <1>8, <1>9, <2>0 DEF DecodeSpec, EdgeSpec, Pending, trigger_match
  <2>4. ctrl_fsm_cs' \in {"DECODE", "DECODE_HWLOOP", "FLUSH_EX", "DBG_FLUSH", "DBG_WAIT_BRANCH"}
    BY <1>5, <2>0 DEF DecodeSpec
  <2>5. instr_valid_id' => ctrl_fsm_cs' \in {"DECODE", "DECODE_HWLOOP", "DBG_FLUSH"}
    BY <1>5, <1>8, <2>0, <2>4 DEF DecodeSpec
  <2>6. jump_done_q' /\ instr_valid_id' => kind' \in {"jal", "jalr"} \/ \E k \in Loops : IsLast(k, pc_id)'
    <3>1. ~in.id_ready => hwlp_end_q' = hwlp_end_q
      BY <1>6 DEF EdgeSpec
    <3>2. jump_done_q' /\ instr_valid_id' =>
            /\ kind' = kind /\ pc_id' = pc_id /\ hwlp_end_q' = hwlp_end_q
            /\ jump_done_q \/ kind \in {"jal", "jalr"} \/ \E k \in Loops : IsLast(k, pc_id)
            /\ instr_valid_id
      BY <1>5, <1>8, <2>0, <3>1 DEF DecodeSpec
    <3> QED BY <3>2 DEF FlagInv, IsLast
  <2>7. ctrl_fsm_cs' = "DBG_WAIT_BRANCH" => debug_q'.step /\ kind' = "branch" /\ ~trigger_match' /\ ~debug_mode_q'
    BY <1>5, <1>7, <1>8, <1>9, <2>0 DEF DecodeSpec, Stepping, trigger_match
  <2>8. ctrl_fsm_cs' = "DBG_FLUSH" => debug_mode_q' \/ Called' \/ debug_q'.step
    BY <1>5, <1>7, <1>8, <1>9, <2>0 DEF DecodeSpec, Called
  <2> QED BY <1>7, <2>1, <2>2, <2>3, <2>4, <2>5, <2>6, <2>7, <2>8 DEF FlagInv
<1>11. ExInv'
  <2>1. Issues(in, out) => ex' \in IntoEx /\ out.decoding /\ in.id_ready
    BY <1>6 DEF EdgeSpec, Issues
  <2>2. ex' \in IntoEx \cup {NoOp} /\ (ex' \in IntoEx \ {NoOp} => Issues(in, out))
    BY <1>6 DEF EdgeSpec
  <2>3. /\ ex'.kind \in {"mie", "skip", "dcsr"} => kind = ex'.kind /\ ~illegal_insn /\ Issues(in, out)
        /\ ex'.kind = "branch" => kind = "branch" /\ ~illegal_insn /\ Issues(in, out)
    BY <2>2, IntoExType DEF NoOp
  <2>4. ctrl_fsm_cs' = out.ns
    BY <1>6 DEF EdgeSpec
  <2>5. ex'.kind \in {"mie", "skip", "dcsr"} =>
          ctrl_fsm_cs' \in {"FLUSH_EX", "DBG_FLUSH"} /\ kind' = ex'.kind /\ ~illegal_insn'
    BY <1>5, <1>8, <2>1, <2>3, <2>4 DEF DecodeSpec, IsStatusCsr
  <2>6. ex'.kind = "branch" => ctrl_fsm_cs' \in {"DECODE", "DECODE_HWLOOP", "DBG_WAIT_BRANCH"}
    BY <1>5, <2>1, <2>3, <2>4 DEF DecodeSpec
  <2> QED BY <2>5, <2>6 DEF ExInv
<1>12. FlushInv'
  <2>1. ctrl_fsm_cs' = out.ns /\ illegal_insn_q' = out.illegal
    BY <1>6 DEF EdgeSpec
  <2> QED BY <1>5, <1>7, <1>8, <1>9, <2>1 DEF DecodeSpec, FlushInv
<1> QED BY <1>6, <1>10, <1>11, <1>12
\* A cycle in which nothing is executed and nothing new comes into ID.
Quiet(in, out) ==
    /\ EdgeSpec(in, out) /\ ex' = NoOp /\ ~branch_taken_ex' /\ ExInv'
    /\ instr_id' = instr_id /\ kind' = kind /\ pc_id' = pc_id
    /\ instr_valid_id' = (instr_valid_id /\ ~(in.id_ready \/ out.halt_id \/ branch_taken_ex))
    /\ jump_done_q' /\ instr_valid_id' => kind' \in {"jal", "jalr"} \/ \E k \in Loops : IsLast(k, pc_id)'

\* Such a cycle disturbs no part of the invariant but the flags of the state it goes to.
LEMMA QuietEdge ==
    ASSUME FlowInv, NEW in \in Inputs, NEW out \in Outputs, Edge(in, out),
           out.decoding = FALSE, out.jump_done = jump_done_q,
           out.halt_if = TRUE \/ out.pc_set = TRUE \/ (~waiting /\ ~in.arrives),
           out.ns = "XRET_JUMP" => out.halt_if /\ kind \in {"mret", "dret"}
    PROVE  Quiet(in, out) /\ FlowType'
<1>1. EdgeSpec(in, out) /\ FlowType'
  BY EdgeFlags, EdgeType DEF FlowInv
<1>2. ex' = NoOp
  BY <1>1 DEF EdgeSpec, Issues
<1>3. ~branch_taken_ex' /\ ExInv'
  BY <1>2 DEF branch_taken_ex, ExInv, NoOp
<1>4. /\ instr_id' = instr_id /\ kind' = kind /\ pc_id' = pc_id
      /\ instr_valid_id' = (instr_valid_id /\ ~(in.id_ready \/ out.halt_id \/ branch_taken_ex))
  BY <1>1 DEF EdgeSpec, kind
<1>5. jump_done_q' /\ instr_valid_id' => kind' \in {"jal", "jalr"} \/ \E k \in Loops : IsLast(k, pc_id)'
  <2>1. jump_done_q' /\ instr_valid_id' => jump_done_q /\ instr_valid_id /\ hwlp_end_q' = hwlp_end_q
    BY <1>1, <1>4 DEF EdgeSpec
  <2> QED BY <1>4, <2>1 DEF FlagInv, FlowInv, IsLast
<1> QED BY <1>1, <1>2, <1>3, <1>4, <1>5 DEF Quiet

\* One lemma for each state in which nothing is executed: it keeps the invariant.
LEMMA ResetKeepsFlags ==
    ASSUME FlowInv, InReset(Inputs, BOOLEAN)
    PROVE  FlowInv'
<1> USE DEF FlowInv
<1>1. PICK in \in Inputs, enable \in BOOLEAN : Edge(in, Reset(enable))
  BY DEF InReset
<1> DEFINE out == Reset(enable)
<1>2. out \in Outputs /\ Edge(in, out)
  BY <1>1, SleepyTypes
<1>3. /\ ctrl_fsm_cs = "RESET" /\ out.ns \in {"RESET", "BOOT_SET"} /\ out.pc_set = FALSE
      /\ out.decoding = FALSE /\ out.jump_done = jump_done_q /\ out.debug_mode = debug_mode_q
      /\ out.illegal = illegal_insn_q /\ out.entry = debug_req_entry_q /\ out.wakeup = debug_force_wakeup_q
  BY DEF InReset, Reset, Idle
<1> HIDE DEF out
<1>4. Quiet(in, out) /\ FlowType'
  BY <1>2, <1>3, QuietEdge, InputTypes DEF FlagInv
<1>5. FlagInv' /\ FlushInv'
  BY <1>3, <1>4, InputTypes DEF Quiet, EdgeSpec, FlagInv, FlushInv, ExInv, FlowType, ControllerType
<1> QED BY <1>4, <1>5 DEF Quiet

\* Out of BOOT_SET.
LEMMA BootKeepsFlags ==
    ASSUME FlowInv, InBoot(Inputs)
    PROVE  FlowInv'
<1> USE DEF FlowInv
<1>1. PICK in \in Inputs : Edge(in, BootSet(in.debug_req))
  BY DEF InBoot
<1> DEFINE out == BootSet(in.debug_req)
<1>2. out \in Outputs /\ Edge(in, out)
  BY <1>1, SleepyTypes, InputTypes
<1>3. /\ ctrl_fsm_cs = "BOOT_SET"
      /\ \/ out.ns = "FIRST_FETCH" /\ out.wakeup = debug_force_wakeup_q
         \/ out.ns = "DBG_TAKEN_IF" /\ out.wakeup = TRUE /\ Pending(in.debug_req)
      /\ out.decoding = FALSE /\ out.jump_done = jump_done_q /\ out.debug_mode = debug_mode_q
      /\ out.illegal = illegal_insn_q /\ out.entry = debug_req_entry_q /\ out.pc_set = TRUE
  BY DEF InBoot, BootSet, Idle, JumpTo
<1> HIDE DEF out
<1>4. Quiet(in, out) /\ FlowType'
  BY <1>2, <1>3, QuietEdge, InputTypes DEF FlagInv
<1>5. FlagInv' /\ FlushInv'
  BY <1>3, <1>4 DEF Quiet, EdgeSpec, FlagInv, FlushInv, ExInv, FlowType, ControllerType, Pending
<1> QED BY <1>4, <1>5 DEF Quiet

\* Out of WAIT_SLEEP.
LEMMA WaitKeepsFlags ==
    ASSUME FlowInv, InWait(Inputs)
    PROVE  FlowInv'
<1> USE DEF FlowInv
<1>1. PICK in \in Inputs : Edge(in, WaitSleep)
  BY DEF InWait
<1> DEFINE out == WaitSleep
<1>2. out \in Outputs /\ Edge(in, out)
  BY <1>1, SleepyTypes, InputTypes
<1>3. /\ ctrl_fsm_cs = "WAIT_SLEEP" /\ out.ns = "SLEEP" /\ out.halt_if = TRUE
      /\ out.decoding = FALSE /\ out.jump_done = jump_done_q /\ out.debug_mode = debug_mode_q
      /\ out.illegal = illegal_insn_q /\ out.entry = debug_req_entry_q /\ out.wakeup = debug_force_wakeup_q
  BY DEF InWait, WaitSleep, Halted, Idle
<1> HIDE DEF out
<1>4. Quiet(in, out) /\ FlowType'
  BY <1>2, <1>3, QuietEdge, InputTypes DEF FlagInv
<1>5. FlagInv' /\ FlushInv'
  BY <1>3, <1>4 DEF Quiet, EdgeSpec, FlagInv, FlushInv, ExInv, FlowType, ControllerType
<1> QED BY <1>4, <1>5 DEF Quiet

\* Out of SLEEP, or on with it.
LEMMA SleepKeepsFlags ==
    ASSUME FlowInv, InSleep(Inputs)
    PROVE  FlowInv'
<1> USE DEF FlowInv
<1>1. PICK in \in Inputs : Edge(in, Sleep(irq_wu_ctrl(in.irq), in.debug_req))
  BY DEF InSleep
<1> DEFINE out == Sleep(irq_wu_ctrl(in.irq), in.debug_req)
<1>2. out \in Outputs /\ Edge(in, out)
  BY <1>1, SleepyTypes, InputTypes DEF irq_wu_ctrl
<1>3. /\ ctrl_fsm_cs = "SLEEP"
      /\ \/ out.ns \in {"SLEEP", "FIRST_FETCH"} /\ out.wakeup = debug_force_wakeup_q
         \/ out.ns = "DBG_TAKEN_IF" /\ out.wakeup = TRUE /\ Pending(in.debug_req)
      /\ out.decoding = FALSE /\ out.jump_done = jump_done_q /\ out.debug_mode = debug_mode_q
      /\ out.illegal = illegal_insn_q /\ out.entry = debug_req_entry_q /\ out.halt_if = TRUE
  BY DEF InSleep, Sleep, Halted, Idle, irq_wu_ctrl, Pending
<1> HIDE DEF out
<1>4. Quiet(in, out) /\ FlowType'
  BY <1>2, <1>3, QuietEdge, InputTypes DEF FlagInv
<1>5. FlagInv' /\ FlushInv'
  BY <1>3, <1>4 DEF Quiet, EdgeSpec, FlagInv, FlushInv, ExInv, FlowType, ControllerType, Pending
<1> QED BY <1>4, <1>5 DEF Quiet

\* FLUSH_EX waits for EX.
LEMMA FlushExKeepsFlags ==
    ASSUME FlowInv, InFlushEx(Inputs, BOOLEAN)
    PROVE  FlowInv'
<1> USE DEF FlowInv
<1>1. PICK in \in Inputs, ex_valid \in BOOLEAN : Edge(in, FlushEx(ex_valid))
  BY DEF InFlushEx
<1> DEFINE out == FlushEx(ex_valid)
<1>2. out \in Outputs /\ Edge(in, out)
  BY <1>1, FlushTypes
<1>3. /\ ctrl_fsm_cs = "FLUSH_EX" /\ out.ns \in {"FLUSH_EX", "FLUSH_WB"}
      /\ out.decoding = FALSE /\ out.jump_done = jump_done_q /\ out.debug_mode = debug_mode_q
      /\ out.illegal = illegal_insn_q /\ out.entry = debug_req_entry_q /\ out.wakeup = debug_force_wakeup_q
      /\ out.halt_if = TRUE /\ out.halt_id = TRUE
  BY DEF InFlushEx, FlushEx, Halted, Idle
<1> HIDE DEF out
<1>4. Quiet(in, out) /\ FlowType'
  BY <1>2, <1>3, QuietEdge, InputTypes DEF FlagInv
<1>5. FlagInv' /\ FlushInv'
  <2>1. /\ debug_mode_q' = debug_mode_q /\ illegal_insn_q' = illegal_insn_q /\ instr_valid_id' = FALSE
        /\ debug_req_entry_q' = FALSE /\ debug_force_wakeup_q' = FALSE /\ illegal_insn' = illegal_insn
        /\ ctrl_fsm_cs' \in {"FLUSH_EX", "FLUSH_WB"} /\ kind' = kind
    BY <1>3, <1>4 DEF Quiet, EdgeSpec, FlagInv, FlowType, ControllerType, illegal_insn
  <2>2. ~illegal_insn /\ kind # "dcsr" => /\ Stepping' = Stepping /\ debug_q' = debug_q
                                         /\ ebrk_force_debug_mode' = ebrk_force_debug_mode
    BY <1>4, <2>1 DEF Quiet, EdgeSpec, ExInv, Stepping, ebrk_force_debug_mode
  <2>3. kind = "dcsr" /\ ~illegal_insn => debug_mode_q
    BY DEF illegal_insn
  <2>4. FlushInv'
    BY <1>3, <2>1, <2>2, <2>3 DEF FlushInv, Stepping
  <2>5. FlagInv'
    BY <1>3, <1>4, <2>1 DEF Quiet, EdgeSpec, FlagInv
  <2> QED BY <2>4, <2>5
<1> QED BY <1>4, <1>5 DEF Quiet

\* DBG_WAIT_BRANCH sees the branch out of EX.
LEMMA DbgWaitKeepsFlags ==
    ASSUME FlowInv, InDbgWait(Inputs)
    PROVE  FlowInv'
<1> USE DEF FlowInv
<1>1. PICK in \in Inputs : Edge(in, DbgWaitBranch)
  BY DEF InDbgWait
<1> DEFINE out == DbgWaitBranch
<1>2. out \in Outputs /\ Edge(in, out)
  BY <1>1, DebugTypes
<1>3. /\ ctrl_fsm_cs = "DBG_WAIT_BRANCH" /\ out.ns = "DBG_FLUSH" /\ out.halt_if = TRUE
      /\ out.decoding = FALSE /\ out.jump_done = jump_done_q /\ out.debug_mode = debug_mode_q
      /\ out.illegal = illegal_insn_q /\ out.entry = debug_req_entry_q /\ out.wakeup = debug_force_wakeup_q
  BY DEF InDbgWait, DbgWaitBranch, JumpTo, Idle
<1> HIDE DEF out
<1>4. Quiet(in, out) /\ FlowType'
  BY <1>2, <1>3, QuietEdge, InputTypes DEF FlagInv
<1>5. FlagInv' /\ FlushInv'
  BY <1>3, <1>4 DEF Quiet, EdgeSpec, FlagInv, FlushInv, ExInv, FlowType, ControllerType
<1> QED BY <1>4, <1>5 DEF Quiet

\* DBG_FLUSH goes to DBG_TAKEN_ID for a call by the debugger, to DBG_TAKEN_IF for a step.
LEMMA DbgFlushKeepsFlags ==
    ASSUME FlowInv, InDbgFlush(Inputs)
    PROVE  FlowInv'
<1> USE DEF FlowInv
<1>1. PICK in \in Inputs : Edge(in, DbgFlush)
  BY DEF InDbgFlush
<1> DEFINE out == DbgFlush
<1>2. out \in Outputs /\ Edge(in, out)
  BY <1>1, DebugTypes
<1>3. /\ ctrl_fsm_cs = "DBG_FLUSH" /\ out.halt_if = TRUE /\ out.halt_id = TRUE
      /\ out.ns = IF debug_mode_q \/ Called THEN "DBG_TAKEN_ID" ELSE "DBG_TAKEN_IF"
      /\ out.decoding = FALSE /\ out.jump_done = jump_done_q /\ out.debug_mode = debug_mode_q
      /\ out.illegal = illegal_insn_q /\ out.entry = debug_req_entry_q /\ out.wakeup = debug_force_wakeup_q
  BY DEF InDbgFlush, DbgFlush, Halted, Idle, Called
<1> HIDE DEF out
<1>4. Quiet(in, out) /\ FlowType'
  BY <1>2, <1>3, QuietEdge, InputTypes DEF FlagInv
<1>5. FlagInv' /\ FlushInv'
  <2>1. /\ debug_mode_q' = debug_mode_q /\ illegal_insn_q' = FALSE /\ instr_valid_id' = FALSE
        /\ debug_req_entry_q' = debug_req_entry_q /\ debug_force_wakeup_q' = FALSE
        /\ kind' = kind /\ pc_id' = pc_id
        /\ ctrl_fsm_cs' = IF debug_mode_q \/ Called THEN "DBG_TAKEN_ID" ELSE "DBG_TAKEN_IF"
    BY <1>3, <1>4 DEF Quiet, EdgeSpec, FlagInv, FlowType, ControllerType
  <2>2. ~debug_mode_q => debug_q' = debug_q
    BY <1>4 DEF Quiet, EdgeSpec, ExInv, illegal_insn
  <2>3. ~debug_mode_q => Called' = Called /\ trigger_match' = trigger_match
    BY <2>1, <2>2 DEF Called, trigger_match, ebrk_force_debug_mode
  <2>4. FlushInv'
    BY <2>1 DEF FlushInv
  <2>5. FlagInv'
    <3>1. debug_req_entry_q => Called
      BY DEF Called
    <3>2. debug_req_entry_q' => debug_req_q' \/ trigger_match'
      <4>1. debug_req_q' = (in.debug_req \/ (debug_req_q /\ ~debug_mode_q))
        BY <1>4 DEF Quiet, EdgeSpec
      <4>2. debug_req_entry_q => ~debug_mode_q /\ (debug_req_q \/ trigger_match)
        BY DEF FlagInv
      <4>3. ASSUME debug_req_entry_q' PROVE debug_req_q' \/ trigger_match'
        <5>1. debug_req_entry_q /\ ~debug_mode_q
          BY <2>1, <4>2, <4>3
        <5>2. CASE debug_req_q
          BY <4>1, <5>1, <5>2
        <5>3. CASE trigger_match
          BY <2>3, <5>1, <5>3
        <5> QED BY <4>2, <5>1, <5>2, <5>3
      <4> QED BY <4>3
    <3>3. debug_q'.step \/ debug_mode_q \/ Called
      BY <1>3, <2>2 DEF FlagInv
    <3> QED BY <1>4, <2>1, <2>2, <2>3, <3>1, <3>2, <3>3 DEF Quiet, FlagInv
  <2> QED BY <2>4, <2>5
<1> QED BY <1>4, <1>5 DEF Quiet

\* DBG_TAKEN_ID enters debug mode.
LEMMA DbgIdKeepsFlags ==
    ASSUME FlowInv, InDbgId(Inputs)
    PROVE  FlowInv'
<1> USE DEF FlowInv
<1>1. PICK in \in Inputs : Edge(in, DbgTakenId)
  BY DEF InDbgId
<1> DEFINE out == DbgTakenId
<1>2. out \in Outputs /\ Edge(in, out)
  BY <1>1, DebugTypes
<1>3. /\ ctrl_fsm_cs = "DBG_TAKEN_ID" /\ out.ns = "DECODE" /\ out.pc_set = TRUE
      /\ out.debug_mode = TRUE /\ out.illegal = illegal_insn_q /\ out.entry = FALSE
      /\ out.decoding = FALSE /\ out.jump_done = jump_done_q /\ out.wakeup = debug_force_wakeup_q
  BY DEF InDbgId, DbgTakenId, IntoDebug, JumpTo, Idle
<1> HIDE DEF out
<1>4. Quiet(in, out) /\ FlowType'
  BY <1>2, <1>3, QuietEdge, InputTypes DEF FlagInv
<1>5. FlagInv' /\ FlushInv'
  BY <1>3, <1>4 DEF Quiet, EdgeSpec, FlagInv, FlushInv, ExInv, FlowType, ControllerType
<1> QED BY <1>4, <1>5 DEF Quiet

\* DBG_TAKEN_IF enters debug mode.
LEMMA DbgIfKeepsFlags ==
    ASSUME FlowInv, InDbgIf(Inputs)
    PROVE  FlowInv'
<1> USE DEF FlowInv
<1>1. PICK in \in Inputs : Edge(in, DbgTakenIf)
  BY DEF InDbgIf
<1> DEFINE out == DbgTakenIf
<1>2. out \in Outputs /\ Edge(in, out)
  BY <1>1, DebugTypes
<1>3. /\ ctrl_fsm_cs = "DBG_TAKEN_IF" /\ out.ns = "DECODE" /\ out.pc_set = TRUE
      /\ out.debug_mode = TRUE /\ out.illegal = illegal_insn_q /\ out.entry = debug_req_entry_q
      /\ out.decoding = FALSE /\ out.jump_done = jump_done_q /\ out.wakeup = FALSE
  BY DEF InDbgIf, DbgTakenIf, IntoDebug, JumpTo, Idle
<1> HIDE DEF out
<1>4. Quiet(in, out) /\ FlowType'
  BY <1>2, <1>3, QuietEdge, InputTypes DEF FlagInv
<1>5. FlagInv' /\ FlushInv'
  BY <1>3, <1>4 DEF Quiet, EdgeSpec, FlagInv, FlushInv, ExInv, FlowType, ControllerType
<1> QED BY <1>4, <1>5 DEF Quiet

\* FIRST_FETCH goes on, takes the interrupt that has woken the core, or enters debug mode.
LEMMA FirstKeepsFlags ==
    ASSUME FlowInv, InFirst(Inputs)
    PROVE  FlowInv'
<1> USE DEF FlowInv
<1>1. PICK in \in Inputs : Edge(in, FirstFetch(irq_req_ctrl, in.debug_req))
  BY DEF InFirst
<1> DEFINE out == FirstFetch(irq_req_ctrl, in.debug_req)
<1>2. out \in Outputs /\ Edge(in, out)
  BY <1>1, SleepyTypes, InputTypes DEF irq_req_ctrl
<1>3. /\ ctrl_fsm_cs = "FIRST_FETCH" /\ out.ns = "DECODE"
      /\ out.decoding = FALSE /\ out.jump_done = jump_done_q /\ out.debug_mode = debug_mode_q
      /\ out.illegal = illegal_insn_q /\ out.entry = debug_req_entry_q /\ out.wakeup = debug_force_wakeup_q
  BY DEF InFirst, FirstFetch, TakenIrq, JumpTo, Halted, Idle
<1> HIDE DEF out
<1>4. EdgeSpec(in, out) /\ FlowType'
  BY <1>2, <1>3, EdgeFlags, EdgeType
<1>5. /\ ctrl_fsm_cs' = "DECODE" /\ ~jump_done_q' /\ debug_mode_q' = FALSE /\ illegal_insn_q' = FALSE
      /\ debug_req_entry_q' = FALSE /\ debug_force_wakeup_q' = FALSE /\ ex' = NoOp
  BY <1>3, <1>4, InputTypes DEF EdgeSpec, Issues, FlagInv, FlowType, ControllerType
<1>6. ExInv'
  BY <1>5 DEF ExInv, NoOp
<1> QED BY <1>4, <1>5, <1>6 DEF FlagInv, FlushInv

\* FLUSH_WB leaves for a trap, for a return or for the next instruction.
LEMMA FlushWbOutputs ==
    ASSUME FlowInv, ctrl_fsm_cs = "FLUSH_WB", NEW debug_req \in BOOLEAN
    PROVE  LET out == FlushWb(debug_req)
           IN  /\ out.decoding = FALSE /\ out.jump_done = jump_done_q /\ out.debug_mode = debug_mode_q
               /\ out.entry = debug_req_entry_q /\ out.illegal = FALSE
               /\ out.halt_if = TRUE /\ out.halt_id = TRUE
               /\ out.ns \in {"DBG_TAKEN_IF", "DECODE", "XRET_JUMP", "WAIT_SLEEP"}
               /\ out.ns = "XRET_JUMP" => kind \in {"mret", "dret"}
               /\ out.ns = "WAIT_SLEEP" => ~debug_mode_q /\ ~debug_q.step
               /\ out.ns = "DBG_TAKEN_IF" =>
                    \/ Stepping /\ out.wakeup = FALSE
                    \/ ~debug_mode_q /\ ~debug_q.step /\ out.wakeup = TRUE /\ Pending(debug_req)
               /\ out.ns # "DBG_TAKEN_IF" => out.wakeup = FALSE
<1> USE DEF FlowInv
<1> DEFINE out == FlushWb(debug_req)
<1>1. /\ debug_force_wakeup_q = FALSE /\ illegal_insn_q \in BOOLEAN
      /\ illegal_insn => illegal_insn_q
      /\ ~illegal_insn /\ kind = "wfi" => ~debug_mode_q /\ ~debug_q.step
  BY DEF FlagInv, FlushInv, FlowType, ControllerType
<1>2. CASE illegal_insn_q \/ kind \in {"ebreak", "ecall"}
  <2>1. out = Trap
    BY <1>2 DEF FlushWb, IsStatusCsr
  <2> QED BY <1>1, <2>1 DEF Trap, JumpTo, Halted, Idle
<1>3. CASE ~illegal_insn_q /\ kind = "mret"
  <2>1. out = [Halted EXCEPT !.ns = "XRET_JUMP", !.restore = ~debug_mode_q]
    BY <1>3 DEF FlushWb, IsStatusCsr
  <2> QED BY <1>1, <1>3, <2>1 DEF Halted, Idle
<1>4. CASE ~illegal_insn_q /\ kind = "dret"
  <2>1. out = [Halted EXCEPT !.ns = "XRET_JUMP"]
    BY <1>4 DEF FlushWb, IsStatusCsr
  <2> QED BY <1>1, <1>4, <2>1 DEF Halted, Idle
<1>5. CASE ~illegal_insn_q /\ IsStatusCsr
  <2>1. out = AfterStatusCsr
    BY <1>5 DEF FlushWb, IsStatusCsr
  <2> QED BY <1>1, <1>5, <2>1 DEF AfterStatusCsr, JumpTo, Halted, Idle
<1>6. CASE ~illegal_insn_q /\ kind = "wfi"
  <2>1. out = IF Pending(debug_req) THEN [Halted EXCEPT !.ns = "DBG_TAKEN_IF", !.wakeup = TRUE]
              ELSE [Halted EXCEPT !.ns = "WAIT_SLEEP"]
    BY <1>6 DEF FlushWb, IsStatusCsr
  <2> QED BY <1>1, <1>6, <2>1 DEF Halted, Idle
<1>7. CASE ~illegal_insn_q /\ kind = "fencei"
  <2>1. out = [JumpTo(Halted, Plus(pc_id, 2)) EXCEPT !.ns = "DECODE"]
    BY <1>7 DEF FlushWb, IsStatusCsr
  <2> QED BY <1>1, <1>7, <2>1 DEF JumpTo, Halted, Idle
<1>8. CASE ~illegal_insn_q /\ kind \notin {"ebreak", "ecall", "mret", "dret", "wfi", "fencei"} /\ ~IsStatusCsr
  <2>1. out = [Halted EXCEPT !.ns = "DECODE"]
    BY <1>8 DEF FlushWb, IsStatusCsr
  <2> QED BY <1>1, <1>8, <2>1 DEF Halted, Idle
<1> QED BY <1>2, <1>3, <1>4, <1>5, <1>6, <1>7, <1>8

\* FLUSH_WB keeps the invariant.
LEMMA FlushWbKeepsFlags ==
    ASSUME FlowInv, InFlushWb(Inputs)
    PROVE  FlowInv'
<1> USE DEF FlowInv
<1>1. PICK in \in Inputs : Edge(in, FlushWb(in.debug_req))
  BY DEF InFlushWb
<1> DEFINE out == FlushWb(in.debug_req)
<1>2. out \in Outputs /\ Edge(in, out) /\ ctrl_fsm_cs = "FLUSH_WB"
  BY <1>1, FlushTypes, InputTypes DEF InFlushWb
<1>3. /\ out.decoding = FALSE /\ out.jump_done = jump_done_q /\ out.debug_mode = debug_mode_q
      /\ out.entry = debug_req_entry_q /\ out.illegal = FALSE
      /\ out.halt_if = TRUE /\ out.halt_id = TRUE
      /\ out.ns \in {"DBG_TAKEN_IF", "DECODE", "XRET_JUMP", "WAIT_SLEEP"}
      /\ out.ns = "XRET_JUMP" => kind \in {"mret", "dret"}
      /\ out.ns = "WAIT_SLEEP" => ~debug_mode_q /\ ~debug_q.step
      /\ out.ns = "DBG_TAKEN_IF" =>
           \/ Stepping /\ out.wakeup = FALSE
           \/ ~debug_mode_q /\ ~debug_q.step /\ out.wakeup = TRUE /\ Pending(in.debug_req)
      /\ out.ns # "DBG_TAKEN_IF" => out.wakeup = FALSE
  BY <1>2, FlushWbOutputs, InputTypes
<1> HIDE DEF out
<1>4. Quiet(in, out) /\ FlowType'
  BY <1>2, <1>3, QuietEdge
<1>5. /\ ctrl_fsm_cs' = out.ns /\ debug_mode_q' = debug_mode_q /\ illegal_insn_q' = FALSE
      /\ debug_req_entry_q' = FALSE /\ debug_force_wakeup_q' = out.wakeup /\ instr_valid_id' = FALSE
      /\ debug_q' = debug_q /\ debug_req_q' = (in.debug_req \/ (debug_req_q /\ ~debug_mode_q))
  BY <1>2, <1>3, <1>4 DEF Quiet, EdgeSpec, FlagInv, ExInv, FlowType, ControllerType
<1>6. FlagInv'
  BY <1>3, <1>5 DEF FlagInv, Stepping, Pending
<1>7. FlushInv'
  BY <1>3, <1>5 DEF FlushInv
<1> QED BY <1>4, <1>6, <1>7 DEF Quiet

\* XRET_JUMP keeps it.
LEMMA XretKeepsFlags ==
    ASSUME FlowInv, InXret(Inputs)
    PROVE  FlowInv'
<1> USE DEF FlowInv
<1>1. PICK in \in Inputs : Edge(in, XretJump)
  BY DEF InXret
<1> DEFINE out == XretJump
<1>2. out \in Outputs /\ Edge(in, out) /\ ctrl_fsm_cs = "XRET_JUMP"
  BY <1>1, DebugTypes DEF InXret
<1>3. /\ out.decoding = FALSE /\ out.jump_done = jump_done_q
      /\ out.entry = debug_req_entry_q /\ out.illegal = illegal_insn_q /\ out.wakeup = debug_force_wakeup_q
      /\ out.pc_set = TRUE
      /\ out.ns = IF Stepping THEN "DBG_TAKEN_IF" ELSE "DECODE"
      /\ out.debug_mode = (debug_mode_q /\ kind = "mret")
  <2>1. kind \in {"mret", "dret"} /\ debug_mode_q \in BOOLEAN
    BY <1>2 DEF FlowType, ControllerType
  <2> QED BY <2>1 DEF XretJump, JumpTo, Idle
<1> HIDE DEF out
<1>4. Quiet(in, out) /\ FlowType'
  BY <1>2, <1>3, QuietEdge
<1>5. /\ ctrl_fsm_cs' = out.ns /\ debug_mode_q' = (debug_mode_q /\ kind = "mret") /\ illegal_insn_q' = FALSE
      /\ debug_req_entry_q' = FALSE /\ debug_force_wakeup_q' = FALSE /\ instr_valid_id' = FALSE
      /\ debug_q' = debug_q
  BY <1>2, <1>3, <1>4 DEF Quiet, EdgeSpec, FlagInv, ExInv, FlowType, ControllerType
<1>6. FlagInv'
  BY <1>3, <1>5 DEF FlagInv, Stepping
<1>7. FlushInv'
  BY <1>3, <1>5 DEF FlushInv
<1> QED BY <1>4, <1>6, <1>7 DEF Quiet

-----------------------------------------------------------------------------
(* What holds of every program *)

\* It holds after reset.
LEMMA InitFlags == Init => FlowInv
<1> SUFFICES ASSUME Init PROVE FlowInv
  OBVIOUS
<1> USE DEF Init
<1>1. 0 \in Addresses /\ 0 \in EvenAddresses /\ 0 \in Counts /\ 1 \in Words /\ 2 \in Words
  BY Size, CountsAssumption DEF Addresses, EvenAddresses, Counts, Words
<1>2. FetchType
  BY <1>1 DEF FetchStageInit, FetchType, AlignerStates, Instructions
<1>3. LoopType
  BY <1>1 DEF HwloopInit, LoopType
<1>4. ControllerType
  BY DEF ControllerInit, ControllerType, FsmStates
<1>5. TrapType
  <2>1. debug_q \in DebugSettings
    <3>1. debug_q = [step |-> FALSE, ebreakm |-> FALSE, trigger |-> -1] /\ -1 \in Int
      BY DEF TrapInit
    <3> QED BY <3>1 DEF DebugSettings
  <2> QED BY <1>1, <2>1 DEF TrapInit, TrapType
<1>6. ExType /\ ExInv
  BY DEF ExType, ExInv, NoOp
<1>7. HartType
  BY <1>1, Vectors DEF HartInit, HartType, Loops
<1>8. FlagInv
  BY DEF FlagInv, ControllerInit, TrapInit, FetchStageInit, Called
<1>9. FlushInv
  BY DEF FlushInv, ControllerInit
<1> QED BY <1>2, <1>3, <1>4, <1>5, <1>6, <1>7, <1>8, <1>9 DEF FlowInv, FlowType

\* Every step keeps it.
LEMMA NextKeepsFlags == FlowInv /\ [Next]_vars => FlowInv'
<1> SUFFICES ASSUME FlowInv, [Next]_vars PROVE FlowInv'
  OBVIOUS
<1>1. CASE Next
  BY <1>1, ResetKeepsFlags, BootKeepsFlags, WaitKeepsFlags, SleepKeepsFlags, FirstKeepsFlags,
     DecodeKeepsFlags, FlushExKeepsFlags, FlushWbKeepsFlags, XretKeepsFlags, DbgWaitKeepsFlags,
     DbgFlushKeepsFlags, DbgIdKeepsFlags, DbgIfKeepsFlags DEF Next
<1>2. CASE UNCHANGED vars
  <2> USE <1>2 DEF vars, alignerVars, hwloopVars, controllerVars, trapVars, hartVars
  <2>1. FlowType'
    BY DEF FlowInv, FlowType, FetchType, LoopType, ControllerType, TrapType, ExType, HartType, kind
  <2>2. ExInv' /\ FlushInv'
    BY DEF FlowInv, ExInv, FlushInv, kind, illegal_insn, ebrk_force_debug_mode, Stepping
  <2>3. FlagInv'
    BY DEF FlowInv, FlagInv, Called, trigger_match, ebrk_force_debug_mode, illegal_insn, kind, branch_taken_ex, IsLast
  <2> QED BY <2>1, <2>2, <2>3 DEF FlowInv
<1> QED BY <1>1, <1>2

\* In every reachable state of every program the registers have their types, flags are where
\* they belong, and the flush knows its instruction.
THEOREM FlowInvariant == Spec => []FlowInv
BY InitFlags, NextKeepsFlags, PTL DEF Spec

\* TypeOK: every register of the flow stays in its range, for every program.
THEOREM FlowTypes == Spec => []TypeOK
<1>1. FlowInv => TypeOK
  BY DEF FlowInv, FlowType, FetchType, LoopType, ControllerType, TrapType, HartType, TypeOK,
         AlignerStates, Words, Counts, Loops
<1> QED BY <1>1, FlowInvariant, PTL

\* FlagsAreConsumed: for every program, and whatever interrupts and the debugger do, no flag of
\* the FSM outlives the state it was set for.
THEOREM FlagsConsumed == Spec => []FlagsAreConsumed
<1>1. FlowInv => FlagsAreConsumed
  BY DEF FlowInv, FlagInv, FlagsAreConsumed
<1> QED BY <1>1, FlowInvariant, PTL

-----------------------------------------------------------------------------
(* The IF stage *)

\* The aligner is at pc_q: where the rest of the stream begins depends on its state.  A loop
\* target that waits for the last instruction of a body is the second word of the stream.
AlignerInv ==
    /\ CASE state = "ALIGNED32"         -> pc_q = 2 * next
         [] state = "MISALIGNED32"      -> r_instr_h = pc_q /\ Plus(pc_q, 1) = 2 * next
         [] state = "MISALIGNED16"      -> pc_q = 2 * next /\ pc_q = Plus(pc_id, 1) /\ pc_id \notin Wide
         [] state = "BRANCH_MISALIGNED" -> pc_q = 2 * next + 1
    /\ ~hwlp_update_pc_q => after = SuccWord(next)
    /\ hwlp_update_pc_q => /\ state = "ALIGNED32" /\ pc_q \in Wide
                           /\ after = hwlp_addr_q \div 2 /\ hwlp_addr_q % 2 = 0

\* The instruction in ID is cut from its own halfwords.
InstrInv ==
    /\ instr_id.lo = pc_id
    /\ instr_valid_id => /\ instr_id.wide = (pc_id \in Wide)
                         /\ instr_id.wide => instr_id.hi = Plus(pc_id, 1)

\* What a cycle does to pc_q and to the instruction in ID: a jump, nothing, or the next
\* instruction comes in.
Kept(in) ==
    /\ instr_id' = instr_id /\ pc_id' = pc_id
    /\ instr_valid_id' = (instr_valid_id /\ ~in.clear_instr_valid_i)

\* A jump; a stall; the next instruction.
Jumped(in) == in.pc_set_i /\ pc_q' = in.branch_addr_i /\ Kept(in) /\ ~hwlp_update_pc_q'

\* Nothing comes in: a loop jump has its target kept until something does.
Held(in) ==
    /\ ~in.pc_set_i /\ pc_q' = pc_q /\ Kept(in)
    /\ hwlp_update_pc_q' = (hwlp_update_pc_q \/ in.hwlp_jump_i)
    /\ hwlp_addr_q' = IF in.hwlp_jump_i THEN in.hwlp_target_i ELSE hwlp_addr_q

\* The next instruction comes in, and pc_q moves on.
Handed(in) ==
    /\ in.if_valid /\ ~hwlp_update_pc_q'
    /\ instr_valid_id' = TRUE /\ pc_id' = pc_q
    /\ pc_q' = CASE in.hwlp_jump_i -> in.hwlp_target_i
                 [] ~in.hwlp_jump_i /\ hwlp_update_pc_q -> hwlp_addr_q
                 [] OTHER -> Following(pc_q)

\* What the aligner cuts out of the words: the instruction at pc_q, unless its second half
\* is still to come.
CutSpec(cut) ==
    /\ cut.go = TRUE
    /\ state = "BRANCH_MISALIGNED" /\ second \in Wide =>
         /\ cut.valid = FALSE /\ cut.pc_n = pc_q
         /\ cut.next_state = "MISALIGNED32" /\ cut.ready = TRUE
    /\ ~(state = "BRANCH_MISALIGNED" /\ second \in Wide) =>
         /\ cut.valid = TRUE /\ cut.pc_n = Following(pc_q)
         /\ cut.instr.lo = pc_q /\ cut.instr.wide = (pc_q \in Wide)
         /\ cut.instr.wide => cut.instr.hi = Plus(pc_q, 1)
    /\ cut.ready = ~(state = "MISALIGNED32" /\ r_instr_h \notin Wide)
    /\ state = "ALIGNED32" =>
         cut.next_state = IF first \in Wide THEN "ALIGNED32" ELSE "MISALIGNED32"
    /\ state = "MISALIGNED32" =>
         cut.next_state = IF r_instr_h \in Wide THEN "MISALIGNED32" ELSE "MISALIGNED16"
    /\ state = "MISALIGNED16" =>
         cut.next_state = IF first \in Wide THEN "ALIGNED32" ELSE "MISALIGNED32"
    /\ state = "BRANCH_MISALIGNED" /\ second \notin Wide => cut.next_state = "ALIGNED32"

\* The aligner cuts that instruction, in each of its states.
LEMMA CutIsNext ==
    ASSUME FetchType, AlignerInv
    PROVE  CutSpec(Aligned(TRUE))
<1> DEFINE cut == Aligned(TRUE)
           Is(lo, hi, wide, to) ==
             /\ cut.instr.lo = lo /\ cut.instr.hi = hi /\ cut.instr.wide = wide /\ cut.next_state = to
             /\ cut.pc_n = Following(pc_q) /\ cut.go = TRUE
<1> SUFFICES CutSpec(cut)
  OBVIOUS
<1> USE DEF CutSpec
<1>1. /\ first = 2 * next /\ second = 2 * next + 1 /\ next \in Words /\ pc_q \in Addresses
      /\ Plus(2 * next, 1) = 2 * next + 1
  BY HalvesFollow DEF FetchType, first, second
<1>2. CASE state = "ALIGNED32"
  <2>1. pc_q = first
    BY <1>1, <1>2 DEF AlignerInv
  <2>2. CASE first \in Wide
    <3>1. Following(pc_q) = Plus(pc_q, 2)
      BY <2>1, <2>2 DEF Following
    <3>2. cut.valid = TRUE /\ cut.ready = TRUE /\ Is(first, second, TRUE, "ALIGNED32")
      BY <1>2, <2>1, <2>2, <3>1 DEF Aligned
    <3> HIDE DEF cut
    <3> QED BY <1>1, <1>2, <2>1, <2>2, <3>2
  <2>3. CASE first \notin Wide
    <3>1. Following(pc_q) = Plus(pc_q, 1)
      BY <2>1, <2>3 DEF Following
    <3>2. cut.valid = TRUE /\ cut.ready = TRUE /\ Is(first, second, FALSE, "MISALIGNED32")
      BY <1>2, <2>1, <2>3, <3>1 DEF Aligned
    <3>3. (pc_q \in Wide) = FALSE
      BY <2>1, <2>3
    <3> HIDE DEF cut
    <3> QED BY <1>1, <1>2, <2>1, <2>3, <3>2, <3>3
  <2> QED BY <2>2, <2>3
<1>3. CASE state = "MISALIGNED32"
  <2>1. pc_q = r_instr_h /\ Plus(pc_q, 1) = first
    BY <1>1, <1>3 DEF AlignerInv
  <2>2. CASE r_instr_h \in Wide
    <3>1. Following(pc_q) = Plus(pc_q, 2)
      BY <2>1, <2>2 DEF Following
    <3>2. cut.valid = TRUE /\ cut.ready = TRUE /\ Is(r_instr_h, first, TRUE, "MISALIGNED32")
      BY <1>3, <2>1, <2>2, <3>1 DEF Aligned
    <3> HIDE DEF cut
    <3> QED BY <1>1, <1>3, <2>1, <2>2, <3>2
  <2>3. CASE r_instr_h \notin Wide
    <3>1. Following(pc_q) = Plus(pc_q, 1)
      BY <2>1, <2>3 DEF Following
    <3>2. cut.valid = TRUE /\ cut.ready = FALSE /\ Is(r_instr_h, second, FALSE, "MISALIGNED16")
      BY <1>3, <2>1, <2>3, <3>1 DEF Aligned
    <3>3. (pc_q \in Wide) = FALSE
      BY <2>1, <2>3
    <3> HIDE DEF cut
    <3> QED BY <1>1, <1>3, <2>1, <2>3, <3>2, <3>3
  <2> QED BY <2>2, <2>3
<1>4. CASE state = "MISALIGNED16"
  <2>1. pc_q = first
    BY <1>1, <1>4 DEF AlignerInv
  <2>2. CASE first \in Wide
    <3>1. Following(pc_q) = Plus(pc_q, 2)
      BY <2>1, <2>2 DEF Following
    <3>2. cut.valid = TRUE /\ cut.ready = TRUE /\ Is(first, second, TRUE, "ALIGNED32")
      BY <1>4, <2>1, <2>2, <3>1 DEF Aligned
    <3> HIDE DEF cut
    <3> QED BY <1>1, <1>4, <2>1, <2>2, <3>2
  <2>3. CASE first \notin Wide
    <3>1. Following(pc_q) = Plus(pc_q, 1)
      BY <2>1, <2>3 DEF Following
    <3>2. cut.valid = TRUE /\ cut.ready = TRUE /\ Is(first, second, FALSE, "MISALIGNED32")
      BY <1>4, <2>1, <2>3, <3>1 DEF Aligned
    <3>3. (pc_q \in Wide) = FALSE
      BY <2>1, <2>3
    <3> HIDE DEF cut
    <3> QED BY <1>1, <1>4, <2>1, <2>3, <3>2, <3>3
  <2> QED BY <2>2, <2>3
<1>5. CASE state = "BRANCH_MISALIGNED"
  <2>1. pc_q = second
    BY <1>1, <1>5 DEF AlignerInv
  <2>2. CASE second \in Wide
    <3>1. Following(pc_q) = Plus(pc_q, 2)
      BY <2>1, <2>2 DEF Following
    <3>2. cut.valid = FALSE /\ cut.pc_n = pc_q /\ cut.next_state = "MISALIGNED32" /\ cut.ready = TRUE /\ cut.go = TRUE
      BY <1>5, <2>1, <2>2, <3>1 DEF Aligned
    <3> HIDE DEF cut
    <3> QED BY <1>1, <1>5, <2>1, <2>2, <3>2
  <2>3. CASE second \notin Wide
    <3>1. Following(pc_q) = Plus(pc_q, 1)
      BY <2>1, <2>3 DEF Following
    <3>2. cut.valid = TRUE /\ cut.ready = TRUE /\ Is(second, second, FALSE, "ALIGNED32")
      BY <1>5, <2>1, <2>3, <3>1 DEF Aligned
    <3>3. (pc_q \in Wide) = FALSE
      BY <2>1, <2>3
    <3> HIDE DEF cut
    <3> QED BY <1>1, <1>5, <2>1, <2>3, <3>2, <3>3
  <2> QED BY <2>2, <2>3
<1> QED BY <1>2, <1>3, <1>4, <1>5 DEF FetchType, AlignerStates

\* A jump is made at once, whatever the aligner was at: it starts over.
LEMMA FetchJump ==
    ASSUME FetchType, InstrInv, NEW in \in FetchInputs, FetchStageEdge(in), in.pc_set_i, ~in.if_valid
    PROVE  AlignerInv' /\ InstrInv' /\ Jumped(in)
<1> DEFINE cut == Aligned(in.fetch_valid)
<1>1. AlignerStep(in, cut) /\ StreamStep(in, ~in.pc_set_i /\ in.if_valid /\ cut.ready) /\ IfIdStep(in, cut)
  BY DEF FetchStageEdge
<1> HIDE DEF cut
<1>2. /\ in.branch_addr_i \in Addresses
      /\ in.branch_addr_i % 2 = 0 => in.branch_addr_i = 2 * (in.branch_addr_i \div 2)
      /\ in.branch_addr_i % 2 = 1 => in.branch_addr_i = 2 * (in.branch_addr_i \div 2) + 1
      /\ in.branch_addr_i % 2 \in {0, 1}
  BY WordOfHalf DEF FetchInputs
<1>3. /\ pc_q' = in.branch_addr_i /\ hwlp_update_pc_q' = FALSE
      /\ state' = IF in.branch_addr_i % 2 = 1 THEN "BRANCH_MISALIGNED" ELSE "ALIGNED32"
      /\ next' = in.branch_addr_i \div 2 /\ after' = SuccWord(next')
  BY <1>1 DEF AlignerStep, StreamStep
<1>4. Kept(in)
  BY <1>1 DEF IfIdStep, Kept
<1>5. AlignerInv'
  BY <1>2, <1>3 DEF AlignerInv
<1> QED BY <1>3, <1>4, <1>5 DEF Kept, Jumped, InstrInv

\* A stall keeps the aligner where it is.
LEMMA FetchHold ==
    ASSUME FetchType, AlignerInv, InstrInv, NEW in \in FetchInputs, FetchStageEdge(in),
           ~in.pc_set_i, ~in.if_valid,
           in.hwlp_jump_i => state = "ALIGNED32" /\ pc_q \in Wide /\ in.hwlp_target_i % 2 = 0
    PROVE  AlignerInv' /\ InstrInv' /\ Held(in)
<1> DEFINE cut == Aligned(in.fetch_valid)
<1>1. AlignerStep(in, cut) /\ StreamStep(in, ~in.pc_set_i /\ in.if_valid /\ cut.ready) /\ IfIdStep(in, cut)
  BY DEF FetchStageEdge
<1> HIDE DEF cut
<1>2. /\ state' = state /\ pc_q' = pc_q /\ r_instr_h' = r_instr_h
      /\ hwlp_update_pc_q' = (hwlp_update_pc_q \/ in.hwlp_jump_i)
      /\ hwlp_addr_q' = IF in.hwlp_jump_i THEN in.hwlp_target_i ELSE hwlp_addr_q
  BY <1>1 DEF AlignerStep
<1>3. next' = next /\ after' = IF in.hwlp_jump_i THEN in.hwlp_target_i \div 2 ELSE after
  BY <1>1 DEF StreamStep
<1>4. Kept(in)
  BY <1>1 DEF IfIdStep, Kept
<1>5. AlignerInv'
  <2>1. CASE in.hwlp_jump_i
    <3>1. hwlp_update_pc_q' /\ hwlp_addr_q' = in.hwlp_target_i /\ after' = in.hwlp_target_i \div 2
      BY <1>2, <1>3, <2>1
    <3>2. state' = "ALIGNED32" /\ pc_q' \in Wide /\ pc_q' = 2 * next' /\ hwlp_addr_q' % 2 = 0
      BY <1>2, <1>3, <2>1, <3>1 DEF AlignerInv
    <3> QED BY <3>1, <3>2 DEF AlignerInv
  <2>2. CASE ~in.hwlp_jump_i
    <3>1. /\ hwlp_update_pc_q' = hwlp_update_pc_q /\ hwlp_addr_q' = hwlp_addr_q /\ after' = after
          /\ pc_id' = pc_id
      BY <1>2, <1>3, <1>4, <2>2 DEF Kept, FetchType
    <3> QED BY <1>2, <1>3, <3>1 DEF AlignerInv
  <2> QED BY <2>1, <2>2
<1> QED BY <1>2, <1>4, <1>5 DEF Kept, Held, InstrInv

\* The second half of a branch's target has to be waited for: nothing is handed over.
LEMMA FetchSkip ==
    ASSUME FetchType, AlignerInv, InstrInv, NEW in \in FetchInputs, FetchStageEdge(in),
           ~in.pc_set_i, in.if_valid, in.fetch_valid,
           in.hwlp_jump_i => state = "ALIGNED32" /\ pc_q \in Wide /\ in.hwlp_target_i % 2 = 0,
           state = "BRANCH_MISALIGNED", second \in Wide
    PROVE  AlignerInv' /\ InstrInv' /\ Held(in)
<1> DEFINE cut == Aligned(TRUE)
<1>0. in.fetch_valid = TRUE /\ in.if_valid = TRUE /\ in.pc_set_i = FALSE /\ in.hwlp_jump_i = FALSE
  BY DEF FetchInputs
<1>1. AlignerStep(in, cut) /\ StreamStep(in, cut.ready) /\ IfIdStep(in, cut)
  <2>1. Aligned(in.fetch_valid) = cut
    BY <1>0
  <2>2. (~in.pc_set_i /\ in.if_valid /\ cut.ready) = cut.ready
    BY <1>0, CutType DEF Aligned
  <2> HIDE DEF cut
  <2> QED BY <2>1, <2>2 DEF FetchStageEdge
<1>2. /\ cut.go = TRUE /\ cut.valid = FALSE /\ cut.pc_n = pc_q
      /\ cut.next_state = "MISALIGNED32" /\ cut.ready = TRUE
  BY CutIsNext DEF CutSpec
<1> HIDE DEF cut
<1>3. hwlp_update_pc_q = FALSE /\ pc_q = 2 * next + 1 /\ after = SuccWord(next)
  BY DEF AlignerInv, FetchType
<1>4. /\ state' = "MISALIGNED32" /\ pc_q' = pc_q /\ r_instr_h' = second
      /\ hwlp_update_pc_q' = FALSE /\ hwlp_addr_q' = hwlp_addr_q
  BY <1>0, <1>1, <1>2 DEF AlignerStep, next_pc
<1>5. next' = after /\ after' = SuccWord(after)
  BY <1>0, <1>1, <1>2 DEF StreamStep
<1>6. Kept(in)
  BY <1>1, <1>2 DEF IfIdStep, Kept
<1>7. Plus(2 * next + 1, 1) = 2 * SuccWord(next)
  BY HalvesFollow DEF FetchType
<1>8. AlignerInv'
  BY <1>3, <1>4, <1>5, <1>7 DEF AlignerInv, second
<1> QED BY <1>0, <1>3, <1>4, <1>6, <1>8 DEF Kept, Held, InstrInv

\* An instruction that is handed over moves the aligner behind it.
LEMMA FetchHand ==
    ASSUME FetchType, AlignerInv, InstrInv, NEW in \in FetchInputs, FetchStageEdge(in),
           ~in.pc_set_i, in.if_valid, in.fetch_valid,
           in.hwlp_jump_i => state = "ALIGNED32" /\ pc_q \in Wide /\ in.hwlp_target_i % 2 = 0,
           ~(state = "BRANCH_MISALIGNED" /\ second \in Wide)
    PROVE  AlignerInv' /\ InstrInv' /\ Handed(in)
<1> DEFINE cut == Aligned(TRUE)
           then == IF in.hwlp_jump_i THEN in.hwlp_target_i \div 2 ELSE after
<1>0. in.fetch_valid = TRUE /\ in.if_valid = TRUE /\ in.pc_set_i = FALSE /\ in.hwlp_jump_i \in BOOLEAN
  BY DEF FetchInputs
<1>1. AlignerStep(in, cut) /\ StreamStep(in, cut.ready) /\ IfIdStep(in, cut)
  <2>1. Aligned(in.fetch_valid) = cut
    BY <1>0
  <2>2. (~in.pc_set_i /\ in.if_valid /\ cut.ready) = cut.ready
    BY <1>0, CutType DEF Aligned
  <2> HIDE DEF cut
  <2> QED BY <2>1, <2>2 DEF FetchStageEdge
<1>2. CutSpec(cut)
  BY CutIsNext
<1> HIDE DEF cut
<1>3. /\ cut.go = TRUE /\ cut.valid = TRUE /\ cut.pc_n = Following(pc_q)
      /\ cut.instr.lo = pc_q /\ cut.instr.wide = (pc_q \in Wide)
      /\ cut.instr.wide => cut.instr.hi = Plus(pc_q, 1)
      /\ cut.ready = ~(state = "MISALIGNED32" /\ r_instr_h \notin Wide)
  BY <1>2 DEF CutSpec
<1>4. /\ state' = cut.next_state /\ pc_q' = next_pc(in, cut) /\ r_instr_h' = second
      /\ hwlp_update_pc_q' = FALSE
  BY <1>0, <1>1, <1>3 DEF AlignerStep
<1>5. instr_valid_id' = TRUE /\ instr_id' = cut.instr /\ pc_id' = pc_q
  BY <1>0, <1>1, <1>3 DEF IfIdStep
<1>6. /\ next' = IF cut.ready THEN then ELSE next
      /\ after' = IF cut.ready THEN SuccWord(then) ELSE then
  BY <1>0, <1>1 DEF StreamStep
<1>7. InstrInv'
  BY <1>3, <1>5 DEF InstrInv
<1>8. first = 2 * next /\ second = 2 * next + 1 /\ next \in Words /\ after \in Words /\ then \in Words
  BY WordOfHalf DEF first, second, FetchType, FetchInputs
<1>9. CASE in.hwlp_jump_i
  <2>1. /\ state = "ALIGNED32" /\ pc_q = first /\ first \in Wide /\ in.hwlp_target_i = 2 * then
    BY <1>8, <1>9, WordOfHalf DEF AlignerInv, FetchInputs
  <2>2. pc_q' = in.hwlp_target_i /\ state' = "ALIGNED32" /\ next' = then /\ after' = SuccWord(next')
    BY <1>2, <1>3, <1>4, <1>6, <1>9, <2>1 DEF CutSpec, next_pc
  <2>3. AlignerInv'
    BY <1>4, <2>1, <2>2 DEF AlignerInv
  <2> QED BY <1>0, <1>4, <1>5, <1>7, <1>9, <2>2, <2>3 DEF Handed
<1>10. CASE ~in.hwlp_jump_i /\ hwlp_update_pc_q
  <2>1. /\ state = "ALIGNED32" /\ pc_q = first /\ first \in Wide /\ hwlp_addr_q = 2 * then
    BY <1>8, <1>10, WordOfHalf DEF AlignerInv, FetchType
  <2>2. pc_q' = hwlp_addr_q /\ state' = "ALIGNED32" /\ next' = then /\ after' = SuccWord(next')
    BY <1>2, <1>3, <1>4, <1>6, <1>10, <2>1 DEF CutSpec, next_pc
  <2>3. AlignerInv'
    BY <1>4, <2>1, <2>2 DEF AlignerInv
  <2> QED BY <1>0, <1>4, <1>5, <1>7, <1>10, <2>2, <2>3 DEF Handed
<1>11. CASE ~in.hwlp_jump_i /\ ~hwlp_update_pc_q
  <2>1. pc_q' = Following(pc_q)
    BY <1>3, <1>4, <1>11 DEF next_pc
  <2>2. then = SuccWord(next) /\ SuccWord(next) \in Words
    BY <1>8, <1>11, SuccIs DEF AlignerInv
  <2>3. /\ Plus(2 * next, 1) = 2 * next + 1 /\ Plus(2 * next, 2) = 2 * SuccWord(next)
        /\ Plus(2 * next + 1, 1) = 2 * SuccWord(next) /\ Plus(2 * next + 1, 2) = 2 * SuccWord(next) + 1
    BY <1>8, HalvesFollow
  <2>4. Plus(2 * SuccWord(next), 1) = 2 * SuccWord(next) + 1
    BY <2>2, HalvesFollow
  <2>5. AlignerInv'
    <3>1. CASE state = "ALIGNED32"
      <4>1. pc_q = 2 * next /\ cut.ready = TRUE /\ next' = SuccWord(next) /\ after' = SuccWord(next')
        BY <1>3, <1>6, <2>2, <3>1 DEF AlignerInv
      <4>2. state' = IF pc_q \in Wide THEN "ALIGNED32" ELSE "MISALIGNED32"
        BY <1>2, <1>4, <1>8, <3>1, <4>1 DEF CutSpec
      <4> QED BY <1>4, <1>8, <2>1, <2>3, <2>4, <4>1, <4>2 DEF AlignerInv, Following
    <3>2. CASE state = "MISALIGNED32" /\ r_instr_h \in Wide
      <4>1. pc_q = r_instr_h /\ Plus(pc_q, 1) = 2 * next /\ cut.ready = TRUE
            /\ next' = SuccWord(next) /\ after' = SuccWord(next')
        BY <1>3, <1>6, <2>2, <3>2 DEF AlignerInv
      <4>2. state' = "MISALIGNED32"
        BY <1>2, <1>4, <3>2 DEF CutSpec
      <4>3. Plus(pc_q, 2) = second
        <5>2. /\ Plus(pc_q, 1) = IF pc_q + 1 < HALFWORDS THEN pc_q + 1 ELSE pc_q + 1 - HALFWORDS
              /\ Plus(pc_q, 2) = IF pc_q + 2 < HALFWORDS THEN pc_q + 2 ELSE pc_q + 2 - HALFWORDS
          BY PlusIs DEF FetchType
        <5>3. 2 * next + 1 \in Addresses /\ next \in Nat
          BY <1>8, HalvesOfWord DEF Words
        <5>4. pc_q \in Nat /\ pc_q < HALFWORDS /\ 2 * next + 1 < HALFWORDS
          BY <5>3, Size DEF FetchType, Addresses
        <5> HIDE DEF first, second
        <5> QED BY <1>8, <4>1, <5>2, <5>3, <5>4, Size
      <4> QED BY <1>4, <1>8, <2>1, <2>3, <3>2, <4>1, <4>2, <4>3 DEF AlignerInv, Following
    <3>3. CASE state = "MISALIGNED32" /\ r_instr_h \notin Wide
      <4>1. pc_q = r_instr_h /\ Plus(pc_q, 1) = 2 * next /\ cut.ready = FALSE
            /\ next' = next /\ after' = SuccWord(next')
        BY <1>3, <1>6, <2>2, <3>3 DEF AlignerInv
      <4>2. state' = "MISALIGNED16"
        BY <1>2, <1>4, <3>3 DEF CutSpec
      <4> QED BY <1>4, <1>5, <1>8, <2>1, <2>3, <3>3, <4>1, <4>2 DEF AlignerInv, Following
    <3>4. CASE state = "MISALIGNED16"
      <4>1. pc_q = 2 * next /\ cut.ready = TRUE /\ next' = SuccWord(next) /\ after' = SuccWord(next')
        BY <1>3, <1>6, <2>2, <3>4 DEF AlignerInv
      <4>2. state' = IF pc_q \in Wide THEN "ALIGNED32" ELSE "MISALIGNED32"
        BY <1>2, <1>4, <1>8, <3>4, <4>1 DEF CutSpec
      <4> QED BY <1>4, <1>8, <2>1, <2>3, <2>4, <4>1, <4>2 DEF AlignerInv, Following
    <3>5. CASE state = "BRANCH_MISALIGNED"
      <4>1. pc_q = second /\ second \notin Wide /\ cut.ready = TRUE
            /\ next' = SuccWord(next) /\ after' = SuccWord(next')
        BY <1>3, <1>6, <1>8, <2>2, <3>5 DEF AlignerInv
      <4>2. state' = "ALIGNED32"
        BY <1>2, <1>4, <3>5, <4>1 DEF CutSpec
      <4> QED BY <1>4, <1>8, <2>1, <2>3, <4>1, <4>2 DEF AlignerInv, Following
    <3> QED BY <3>1, <3>2, <3>3, <3>4, <3>5 DEF FetchType, AlignerStates
  <2> QED BY <1>0, <1>4, <1>5, <1>7, <1>11, <2>1, <2>5 DEF Handed
<1> QED BY <1>0, <1>9, <1>10, <1>11

\* One clock edge of the IF stage cuts the stream at the next instruction, whether that
\* is the one behind it, the start of a loop or the target of a jump.
LEMMA FetchStage ==
    ASSUME FetchType, InstrInv, NEW in \in FetchInputs, FetchStageEdge(in),
           in.if_valid => in.fetch_valid /\ ~in.pc_set_i,
           ~in.pc_set_i => AlignerInv,
           in.hwlp_jump_i => /\ ~in.pc_set_i /\ state = "ALIGNED32" /\ pc_q \in Wide
                             /\ in.hwlp_target_i % 2 = 0
    PROVE  AlignerInv' /\ InstrInv' /\ (Jumped(in) \/ Held(in) \/ Handed(in))
BY FetchJump, FetchHold, FetchSkip, FetchHand
(* Where a legal loop has the instruction the hart runs next *)

\* The next instruction is in the body of a loop that has not ended.
InRound == \E k \in Loops : /\ Within(k, hart.pc) /\ Active(k)
                            /\ hwlp_counter_q[k] = 1 => ~IsLast(k, hart.pc)

\* It is the last one of a body that is run again.
Turns(k) == IsLast(k, hart.pc) /\ hwlp_counter_q[k] > 1
\* It is the last but one of such a body.
Ahead(k) == IsLastButOne(k, hart.pc) /\ hwlp_counter_q[k] > 1
\* It is the last one of a loop in use.
Ends(k)  == IsLast(k, hart.pc) /\ Active(k)

\* A loop that runs: its addresses do not wrap around.
RunsSpec(k) ==
    /\ hwlp_start_q[k] \in Nat /\ hwlp_end_q[k] \in Nat /\ hwlp_start_q[k] + 6 <= hwlp_end_q[k]
    /\ hwlp_start_q[k] % 2 = 0 /\ hwlp_end_q[k] % 2 = 0 /\ hwlp_end_q[k] < HALFWORDS
    /\ hart.pc \in Nat /\ hart.pc + 2 < HALFWORDS /\ Plus(hart.pc, 2) = hart.pc + 2
    /\ IsLast(k, hart.pc) <=> hwlp_end_q[k] = hart.pc + 2
    /\ IsLastButOne(k, hart.pc) <=> hwlp_end_q[k] = hart.pc + 4
    /\ Within(k, hart.pc) <=> hwlp_start_q[k] <= hart.pc /\ hart.pc + 2 <= hwlp_end_q[k]
    /\ IsLast(k, hart.pc) => \A j \in Loops : ~IsLastButOne(j, hart.pc)

\* A legal loop in use does not wrap around the memory.
LEMMA Runs ==
    ASSUME FlowType, LoopsAreLegal, NEW k \in Loops, Active(k)
    PROVE  RunsSpec(k)
<1>1. /\ hwlp_start_q[k] \in Nat /\ hwlp_end_q[k] \in Nat /\ hwlp_end_q[k] < HALFWORDS
      /\ hwlp_start_q[k] % 2 = 0 /\ hwlp_end_q[k] % 2 = 0
  BY Size DEF FlowType, LoopType, EvenAddresses, Addresses
<1>2. /\ hwlp_start_q[k] + 6 <= hwlp_end_q[k] /\ hart.pc + 2 < HALFWORDS
      /\ IsLast(k, hart.pc) => \A j \in Loops : ~IsLastButOne(j, hart.pc)
  BY DEF LoopsAreLegal
<1>3. hart.pc \in Addresses /\ hart.pc \in Nat
  BY DEF FlowType, HartType, Addresses
<1>4. /\ Plus(hart.pc, 2) = hart.pc + 2
      /\ Plus(hart.pc, 4) = IF hart.pc + 4 < HALFWORDS THEN hart.pc + 4 ELSE hart.pc + 4 - HALFWORDS
  BY <1>2, <1>3, PlusIs
<1>5. IsLastButOne(k, hart.pc) <=> hwlp_end_q[k] = hart.pc + 4
  BY <1>1, <1>2, <1>3, <1>4, Size DEF IsLastButOne
<1> QED BY <1>1, <1>2, <1>3, <1>4, <1>5 DEF RunsSpec, IsLast, Within

\* In the body of a loop instructions follow one another, two halfwords apart.
BodySpec(k) ==
    /\ hart.pc % 2 = 0 /\ hart.pc \in Wide /\ Following(hart.pc) = hart.pc + 2
    /\ \A addr \in hwlp_start_q[k] .. hwlp_end_q[k] - 1 : addr % 2 = 0 => addr \in Wide
    /\ Program[hart.pc].kind \notin {"jal", "jalr", "branch", "fencei", "mret", "dret", "wfi"}
    /\ Program[hart.pc].kind = "hwloop" => Program[hart.pc].loop # k
    /\ ~IsLast(k, hart.pc) => hart.pc + 4 <= hwlp_end_q[k] /\ hart.pc + 2 \in Wide

\* A legal body is wide, even and straight.
LEMMA Body ==
    ASSUME FlowType, LoopsAreLegal, NEW k \in Loops, Active(k), Within(k, hart.pc)
    PROVE  BodySpec(k)
<1>1. RunsSpec(k) /\ BodyIsLegal(k, hart.pc)
  BY Runs DEF LoopsAreLegal
<1>2. hwlp_start_q[k] <= hart.pc /\ hart.pc + 2 <= hwlp_end_q[k] /\ hart.pc % 2 = 0
  BY <1>1 DEF RunsSpec, BodyIsLegal
<1>3. hart.pc \in Wide
  BY <1>1, <1>2 DEF RunsSpec, BodyIsLegal
<1>4. Following(hart.pc) = hart.pc + 2
  BY <1>1, <1>3 DEF Following, RunsSpec
<1>5. ~IsLast(k, hart.pc) => hart.pc + 4 <= hwlp_end_q[k] /\ hart.pc + 2 \in Wide
  <2>1. ~IsLast(k, hart.pc) => hart.pc + 4 <= hwlp_end_q[k]
    BY <1>1, <1>2 DEF RunsSpec
  <2>2. (hart.pc + 2) % 2 = 0
    BY <1>1, <1>2 DEF RunsSpec
  <2> QED BY <1>1, <1>2, <2>1, <2>2 DEF RunsSpec, BodyIsLegal
<1> QED BY <1>1, <1>2, <1>3, <1>4, <1>5 DEF BodySpec, BodyIsLegal

\* The last instruction of a body is that of one loop only, and there the controller's
\* target is the start of this loop.
LEMMA LastOfOne ==
    ASSUME FlowType, LoopsAreLegal, NEW k \in Loops, Ends(k)
    PROVE  /\ Within(k, hart.pc) /\ hwlp_targ_addr(hart.pc) = hwlp_start_q[k]
           /\ \A j \in Loops : Ends(j) => j = k
           /\ \A j \in Loops : ~IsLastButOne(j, hart.pc)
<1>1. RunsSpec(k) /\ Within(k, hart.pc) /\ \A j \in Loops : ~IsLastButOne(j, hart.pc)
  BY Runs DEF Ends, RunsSpec
<1>2. ASSUME NEW j \in Loops, Ends(j), j # k PROVE FALSE
  <2>1. RunsSpec(0) /\ RunsSpec(1) /\ Ends(0) /\ Ends(1)
    BY <1>2, Runs DEF Ends, Loops
  <2>2. LoopsAreApart
    BY <2>1 DEF LoopsAreLegal, Ends
  <2> QED BY <2>1, <2>2 DEF RunsSpec, LoopsAreApart, Ends
<1>3. hwlp_targ_addr(hart.pc) = hwlp_start_q[k]
  <2>1. CASE k = 0
    BY <1>1, <2>1 DEF hwlp_targ_addr
  <2>2. CASE k = 1
    BY <1>1, <2>2 DEF hwlp_targ_addr, LoopsAreLegal, Ends
  <2> QED BY <2>1, <2>2 DEF Loops
<1> QED BY <1>1, <1>2, <1>3

\* The same for the last instruction but one.
LEMMA AheadOfOne ==
    ASSUME FlowType, LoopsAreLegal, NEW k \in Loops, Active(k), IsLastButOne(k, hart.pc)
    PROVE  /\ Within(k, hart.pc) /\ ~IsLast(k, hart.pc)
           /\ \A j \in Loops : Active(j) /\ IsLastButOne(j, hart.pc) => j = k
           /\ \A j \in Loops : ~Ends(j)
<1>1. RunsSpec(k) /\ Within(k, hart.pc) /\ ~IsLast(k, hart.pc)
  BY Runs DEF RunsSpec
<1>2. ASSUME NEW j \in Loops, Active(j), IsLastButOne(j, hart.pc), j # k PROVE FALSE
  <2>1. /\ RunsSpec(0) /\ RunsSpec(1) /\ Active(0) /\ Active(1)
        /\ IsLastButOne(0, hart.pc) /\ IsLastButOne(1, hart.pc)
    BY <1>2, Runs DEF Loops
  <2>2. LoopsAreApart
    BY <2>1 DEF LoopsAreLegal
  <2> QED BY <2>1, <2>2 DEF RunsSpec, LoopsAreApart
<1>3. \A j \in Loops : ~Ends(j)
  BY Runs DEF Ends, RunsSpec
<1> QED BY <1>1, <1>2, <1>3

\* The start of a loop is the last instruction of none.
LEMMA StartIsInside ==
    ASSUME FlowType, LoopsAreLegal, NEW k \in Loops, Active(k), hart.pc = hwlp_start_q[k]
    PROVE  Within(k, hart.pc) /\ ~IsLast(k, hart.pc) /\ \A j \in Loops : ~Ends(j)
<1>1. RunsSpec(k) /\ Within(k, hart.pc) /\ ~IsLast(k, hart.pc)
  BY Runs DEF RunsSpec
<1>2. ASSUME NEW j \in Loops, Ends(j) PROVE FALSE
  <2>0. j # k
    BY <1>1, <1>2 DEF Ends
  <2>1. RunsSpec(0) /\ RunsSpec(1) /\ LoopsAreApart
    BY <1>2, <2>0, Runs DEF LoopsAreLegal, Ends, Loops
  <2>2. hwlp_end_q[j] = hwlp_start_q[k] + 2
    BY <1>2, Runs DEF Ends, RunsSpec
  <2>3. CASE j = 0 /\ k = 1
    BY <2>1, <2>2, <2>3 DEF RunsSpec, LoopsAreApart
  <2>4. CASE j = 1 /\ k = 0
    BY <2>1, <2>2, <2>4 DEF RunsSpec, LoopsAreApart
  <2> QED BY <2>0, <2>3, <2>4 DEF Loops
<1> QED BY <1>1, <1>2

\* What the loops' constraints mean for the instruction the hart runs next.
LegalSpec ==
    \A k \in Loops :
      /\ Active(k) => RunsSpec(k)
      /\ Active(k) /\ Within(k, hart.pc) => BodySpec(k)
      /\ Ends(k) => /\ Within(k, hart.pc) /\ hwlp_targ_addr(hart.pc) = hwlp_start_q[k]
                    /\ \A j \in Loops : Ends(j) => j = k
                    /\ \A j \in Loops : ~IsLastButOne(j, hart.pc)
      /\ Active(k) /\ IsLastButOne(k, hart.pc) =>
           /\ Within(k, hart.pc) /\ ~IsLast(k, hart.pc)
           /\ \A j \in Loops : Active(j) /\ IsLastButOne(j, hart.pc) => j = k
           /\ \A j \in Loops : ~Ends(j)
      /\ Active(k) /\ hart.pc = hwlp_start_q[k] =>
           Within(k, hart.pc) /\ ~IsLast(k, hart.pc) /\ \A j \in Loops : ~Ends(j)

\* As a formula, so that it can be used of the next state as well.
LegalFact == FlowType /\ LoopsAreLegal => LegalSpec

\* It follows from LoopsAreLegal.
LEMMA Legal == LegalFact
<1> SUFFICES ASSUME FlowType, LoopsAreLegal, NEW k \in Loops
             PROVE  /\ Active(k) => RunsSpec(k)
                    /\ Active(k) /\ Within(k, hart.pc) => BodySpec(k)
                    /\ Ends(k) => /\ Within(k, hart.pc) /\ hwlp_targ_addr(hart.pc) = hwlp_start_q[k]
                                  /\ \A j \in Loops : Ends(j) => j = k
                                  /\ \A j \in Loops : ~IsLastButOne(j, hart.pc)
                    /\ Active(k) /\ IsLastButOne(k, hart.pc) =>
                         /\ Within(k, hart.pc) /\ ~IsLast(k, hart.pc)
                         /\ \A j \in Loops : Active(j) /\ IsLastButOne(j, hart.pc) => j = k
                         /\ \A j \in Loops : ~Ends(j)
                    /\ Active(k) /\ hart.pc = hwlp_start_q[k] =>
                         Within(k, hart.pc) /\ ~IsLast(k, hart.pc) /\ \A j \in Loops : ~Ends(j)
  BY DEF LegalFact, LegalSpec
<1>1. Active(k) => RunsSpec(k)
  BY Runs
<1>2. Active(k) /\ Within(k, hart.pc) => BodySpec(k)
  BY Body
<1>3. Ends(k) => /\ Within(k, hart.pc) /\ hwlp_targ_addr(hart.pc) = hwlp_start_q[k]
                 /\ \A j \in Loops : Ends(j) => j = k
                 /\ \A j \in Loops : ~IsLastButOne(j, hart.pc)
  BY LastOfOne
<1>4. Active(k) /\ IsLastButOne(k, hart.pc) =>
        /\ Within(k, hart.pc) /\ ~IsLast(k, hart.pc)
        /\ \A j \in Loops : Active(j) /\ IsLastButOne(j, hart.pc) => j = k
        /\ \A j \in Loops : ~Ends(j)
  BY AheadOfOne
<1>5. Active(k) /\ hart.pc = hwlp_start_q[k] =>
        Within(k, hart.pc) /\ ~IsLast(k, hart.pc) /\ \A j \in Loops : ~Ends(j)
  BY StartIsInside
<1> QED BY <1>1, <1>2, <1>3, <1>4, <1>5

\* Also after a step.
LEMMA LegalNext == LegalFact'
BY Legal, PTL

-----------------------------------------------------------------------------
(* An instruction in a body retires *)

\* The instruction writes registers of the loop.
Writes(k) == Program[hart.pc].kind = "hwloop" /\ Program[hart.pc].loop = k

\* The registers of a loop: a round less when the body ends; an instruction that writes
\* them leaves a body that does not hold it.
Counted(k) ==
    /\ ~Writes(k) =>
         /\ hwlp_start_q'[k] = hwlp_start_q[k] /\ hwlp_end_q'[k] = hwlp_end_q[k]
         /\ hwlp_counter_q'[k] = IF Ends(k) THEN hwlp_counter_q[k] - 1 ELSE hwlp_counter_q[k]
    /\ Writes(k) => ~(hwlp_start_q'[k] <= hart.pc /\ hart.pc < hwlp_end_q'[k])

\* Where the hart goes from there.
GoesOn ==
    /\ \A k \in Loops : Turns(k) => hart.pc' = hwlp_start_q[k]
    /\ (\A k \in Loops : ~Turns(k)) => hart.pc' = Following(hart.pc)

\* The round is not over after the instruction.
StaysInRound ==
    \/ \E k \in Loops : Turns(k)
    \/ \E k \in Loops : /\ Active(k) /\ Within(k, hart.pc) /\ ~IsLast(k, hart.pc)
                        /\ hwlp_counter_q[k] = 1 => ~IsLastButOne(k, hart.pc)

\* An instruction in a body leads to one that is in a body, or ends the loop.
RoundSpec ==
    /\ \A k \in Loops : Turns(k)' <=> Ahead(k)
    /\ \A k \in Loops : Ahead(k) => hwlp_start_q'[k] = hwlp_start_q[k]
    /\ StaysInRound => InRound'
    /\ (\E k \in Loops : Ahead(k)) => \A j \in Loops : ~IsLastButOne(j, hart.pc)'

\* When the hart retires an instruction of a legal body, the next one is where RoundSpec says.
LEMMA RoundStep ==
    ASSUME FlowType, FlowType', LoopsAreLegal, LoopsAreLegal', \A k \in Loops : Counted(k), GoesOn,
           NEW b \in Loops, Active(b), Within(b, hart.pc)
    PROVE  RoundSpec
<1>1. LegalSpec /\ LegalSpec'
  BY Legal, LegalNext DEF LegalFact
<1>2. /\ \A k \in Loops : hwlp_counter_q[k] \in Nat /\ hwlp_counter_q'[k] \in Nat
      /\ \A k \in Loops : hwlp_start_q'[k] \in Nat /\ hwlp_end_q'[k] \in Nat
  BY DEF FlowType, LoopType, Counts, EvenAddresses, Addresses
<1>3. hart.pc \in Nat /\ BodySpec(b)
  BY <1>1 DEF FlowType, HartType, Addresses, LegalSpec
<1>4. ASSUME NEW k \in Loops, Turns(k)
      PROVE  RoundSpec
  <2>1. Active(k) /\ Ends(k) /\ Within(k, hart.pc) /\ hart.pc' = hwlp_start_q[k]
    BY <1>1, <1>2, <1>4 DEF Turns, Ends, Active, LegalSpec, GoesOn
  <2>2. ~Writes(k)
    BY <1>1, <2>1 DEF LegalSpec, BodySpec, Writes
  <2>3. hwlp_start_q'[k] = hwlp_start_q[k] /\ hwlp_counter_q'[k] = hwlp_counter_q[k] - 1
    BY <2>1, <2>2 DEF Counted
  <2>4. Active(k)' /\ (hart.pc = hwlp_start_q[k])'
    BY <1>2, <1>4, <2>1, <2>3 DEF Active, Turns
  <2>5. Within(k, hart.pc)' /\ ~IsLast(k, hart.pc)' /\ \A j \in Loops : ~Ends(j)'
    BY <1>1, <2>4 DEF LegalSpec
  <2>6. \A j \in Loops : ~Ahead(j)
    BY <1>1, <2>1 DEF LegalSpec, Ahead
  <2>7. \A j \in Loops : ~Turns(j)'
    BY <1>2, <2>5 DEF Turns, Ends, Active
  <2>8. InRound'
    BY <2>4, <2>5 DEF InRound
  <2> QED BY <2>6, <2>7, <2>8 DEF RoundSpec
<1>5. ASSUME \A k \in Loops : ~Turns(k)
      PROVE  RoundSpec
  <2>1. hart.pc' = hart.pc + 2
    BY <1>3, <1>5 DEF GoesOn, BodySpec
  <2>2. \A k \in Loops : Ahead(k) => Active(k) /\ Within(k, hart.pc) /\ ~Writes(k) /\ ~Ends(k)
    BY <1>1, <1>2 DEF Ahead, Active, LegalSpec, BodySpec, Writes
  <2>3. ASSUME NEW k \in Loops PROVE Turns(k)' <=> Ahead(k)
    <3>1. CASE Writes(k)
      <4>1. ~Ahead(k)
        BY <2>2, <3>1
      <4>2. ASSUME Turns(k)' PROVE FALSE
        <5>1. Active(k)' /\ RunsSpec(k)'
          BY <1>1, <1>2, <4>2 DEF Turns, Active, LegalSpec
        <5>2. hwlp_end_q'[k] = hart.pc' + 2 /\ hwlp_start_q'[k] + 6 <= hwlp_end_q'[k]
          BY <4>2, <5>1 DEF RunsSpec, Turns
        <5> QED BY <1>2, <1>3, <2>1, <3>1, <5>2 DEF Counted
      <4> QED BY <4>1, <4>2
    <3>2. CASE ~Writes(k) /\ Ends(k)
      <4>1. ~Ahead(k)
        BY <2>2, <3>2
      <4>2. hwlp_counter_q[k] = 1
        BY <1>2, <1>5, <3>2 DEF Turns, Ends, Active
      <4> QED BY <3>2, <4>1, <4>2 DEF Counted, Turns
    <3>3. CASE ~Writes(k) /\ ~Ends(k)
      <4>1. hwlp_counter_q'[k] = hwlp_counter_q[k] /\ hwlp_end_q'[k] = hwlp_end_q[k]
        BY <3>3 DEF Counted
      <4>2. ASSUME hwlp_counter_q[k] > 1 PROVE Turns(k)' <=> Ahead(k)
        <5>1. RunsSpec(k) /\ RunsSpec(k)'
          BY <1>1, <1>2, <4>1, <4>2 DEF Active, LegalSpec
        <5> QED BY <1>3, <2>1, <4>1, <4>2, <5>1 DEF RunsSpec, Turns, Ahead
      <4> QED BY <4>1, <4>2 DEF Turns, Ahead
    <3> QED BY <3>1, <3>2, <3>3
  <2>4. \A k \in Loops : Ahead(k) => hwlp_start_q'[k] = hwlp_start_q[k]
    BY <2>2 DEF Counted
  <2>5. ASSUME StaysInRound PROVE InRound'
    <3>1. PICK k \in Loops : /\ Active(k) /\ Within(k, hart.pc) /\ ~IsLast(k, hart.pc)
                             /\ hwlp_counter_q[k] = 1 => ~IsLastButOne(k, hart.pc)
      BY <1>5, <2>5 DEF StaysInRound
    <3>2. RunsSpec(k) /\ BodySpec(k) /\ ~Writes(k) /\ ~Ends(k)
      BY <1>1, <3>1 DEF LegalSpec, BodySpec, Writes, Ends
    <3>3. /\ hwlp_start_q'[k] = hwlp_start_q[k] /\ hwlp_end_q'[k] = hwlp_end_q[k]
          /\ hwlp_counter_q'[k] = hwlp_counter_q[k]
      BY <3>2 DEF Counted
    <3>4. Active(k)' /\ RunsSpec(k)'
      BY <1>1, <3>1, <3>3 DEF Active, LegalSpec
    <3>5. Within(k, hart.pc)'
      BY <1>3, <2>1, <3>1, <3>2, <3>3, <3>4 DEF RunsSpec, BodySpec
    <3>6. hwlp_counter_q'[k] = 1 => ~IsLast(k, hart.pc)'
      BY <1>3, <2>1, <3>1, <3>2, <3>3, <3>4 DEF RunsSpec
    <3> QED BY <3>4, <3>5, <3>6 DEF InRound
  <2>6. (\E k \in Loops : Ahead(k)) => \A j \in Loops : ~IsLastButOne(j, hart.pc)'
    <3>1. ASSUME NEW k \in Loops, Ahead(k) PROVE \A j \in Loops : ~IsLastButOne(j, hart.pc)'
      <4>1. Ends(k)'
        BY <1>2, <2>3, <3>1 DEF Turns, Ends, Active
      <4> QED BY <1>1, <4>1 DEF LegalSpec
    <3> QED BY <3>1
  <2> QED BY <2>3, <2>4, <2>5, <2>6 DEF RoundSpec
<1> QED BY <1>4, <1>5

-----------------------------------------------------------------------------
(* What holds while the loops are legal *)

\* The flush ends in a trap.
Trapping == illegal_insn_q \/ kind \in {"ebreak", "ecall"}

\* The hart has left debug mode, the core is on its way.
Leaving == ~illegal_insn_q /\ kind = "dret" /\ ctrl_fsm_cs \in {"FLUSH_EX", "FLUSH_WB", "XRET_JUMP"}

\* Registers the hart has as well.  The value of mepc may still be in EX.
SavedInv ==
    /\ LoopsAreCounted
    /\ ex.kind # "skip" => mepc_q = hart.mepc
    /\ ex.kind = "skip" => ex.value = hart.mepc
    /\ depc_q = hart.depc
    /\ hart.debug = (debug_mode_q /\ ~Leaving)

\* No branch in a body of a loop.
BranchInv == ex.kind = "branch" => ctrl_fsm_cs \in {"DECODE", "DBG_WAIT_BRANCH"}

\* The target of a loop waits while the loop state lasts, or until the debugger has stopped it.
UpdateInv ==
    hwlp_update_pc_q => \/ ctrl_fsm_cs = "DECODE_HWLOOP"
                        \/ ctrl_fsm_cs \in {"DBG_FLUSH", "DBG_TAKEN_ID"} /\ debug_req_entry_q

\* DECODE: the next instruction is the one in ID, the target of the branch in EX, or at pc_q.
AtDecode ==
    /\ branch_taken_ex => ex.to = hart.pc
    /\ ~branch_taken_ex /\ ~instr_valid_id => pc_q = hart.pc
    /\ ~branch_taken_ex /\ instr_valid_id =>
         /\ pc_id = hart.pc
         /\ jump_done_q => kind \in {"jal", "jalr"} /\ pc_q = Program[pc_id].to
         /\ ~jump_done_q => pc_q = Following(pc_id)

\* DECODE_HWLOOP: it is in a body, in ID or at pc_q.  The aligner is sent to the start of the
\* body, at once by a jump or through hwlp_addr_q when the last instruction is still to come.
AtLoop ==
    /\ InRound
    /\ instr_valid_id =>
         /\ pc_id = hart.pc
         /\ \A k \in Loops : Turns(k) => pc_q = hwlp_start_q[k]
         /\ (\A k \in Loops : ~Turns(k)) => pc_q = Following(pc_id) /\ ~jump_done_q
         /\ hwlp_update_pc_q => ~illegal_insn /\ kind \in {"plain", "hwloop"}
         /\ hwlp_update_pc_q <=> hwlp_end_4_id_q /\ \E k \in Loops : Ahead(k)
         /\ \A k \in Loops : Ahead(k) /\ hwlp_update_pc_q => hwlp_addr_q = hwlp_start_q[k]
         /\ Stepping => \A k \in Loops : ~IsLastButOne(k, pc_id)
    /\ ~instr_valid_id =>
         /\ pc_q = hart.pc /\ ~Stepping
         /\ hwlp_update_pc_q <=> \E k \in Loops : Turns(k)
         /\ \A k \in Loops : Turns(k) => hwlp_addr_q = hwlp_start_q[k]

\* In a flush: where the core goes when it is over.
AtFlush ==
    /\ IsStatusCsr => IF \E k \in Loops : IsLast(k, pc_id) /\ hwlp_counter_q[k] # 0
                      THEN hart.pc = hwlp_targ_addr(pc_id) ELSE pc_q = hart.pc
    /\ kind = "wfi" => pc_q = hart.pc
    /\ kind = "fencei" => hart.pc = Plus(pc_id, 2)
    /\ kind = "mret" => hart.pc = IF debug_mode_q THEN DM_EXCEPTION ELSE hart.mepc
    /\ kind = "dret" => hart.pc = hart.depc

\* Where the hart is, in each state of the FSM.
PcInv ==
    /\ ctrl_fsm_cs \in {"RESET", "BOOT_SET"} => hart.pc = BOOT
    /\ ctrl_fsm_cs \in {"WAIT_SLEEP", "SLEEP", "FIRST_FETCH", "DBG_TAKEN_IF"} => pc_q = hart.pc
    /\ ctrl_fsm_cs = "DECODE" => AtDecode
    /\ ctrl_fsm_cs = "DECODE_HWLOOP" => AtLoop
    /\ ctrl_fsm_cs = "FLUSH_EX" => IF Trapping THEN pc_id = hart.pc ELSE AtFlush
    /\ ctrl_fsm_cs = "FLUSH_WB" =>
         IF Trapping THEN hart.pc = (IF debug_mode_q THEN DM_EXCEPTION ELSE MTVEC) ELSE AtFlush
    /\ ctrl_fsm_cs = "XRET_JUMP" => AtFlush
    /\ ctrl_fsm_cs = "DBG_WAIT_BRANCH" => IF branch_taken_ex THEN ex.to = hart.pc ELSE pc_q = hart.pc
    /\ ctrl_fsm_cs = "DBG_FLUSH" /\ ~debug_mode_q => IF Called THEN pc_id = hart.pc ELSE pc_q = hart.pc
    /\ ctrl_fsm_cs = "DBG_TAKEN_ID" /\ ~debug_mode_q => pc_id = hart.pc

\* A step has run no instruction before it issues one, and one afterwards.
StepInv ==
    /\ Stepping =>
         /\ ctrl_fsm_cs \in {"FIRST_FETCH", "DECODE", "DECODE_HWLOOP"} => since_dret = 0
         /\ ctrl_fsm_cs = "FLUSH_EX" => since_dret = IF Trapping THEN 0 ELSE 1
         /\ ctrl_fsm_cs \in {"FLUSH_WB", "XRET_JUMP", "DBG_WAIT_BRANCH", "DBG_TAKEN_IF"} => since_dret = 1
         /\ ctrl_fsm_cs = "DBG_FLUSH" => Called \/ since_dret = 1
    /\ Leaving => since_dret = 0

\* What holds while the loops are legal.
HartInv ==
    /\ ctrl_fsm_cs \notin {"RESET", "BOOT_SET"} => AlignerInv
    /\ InstrInv /\ SavedInv /\ BranchInv /\ UpdateInv /\ PcInv /\ StepInv

-----------------------------------------------------------------------------
(* One clock edge, as far as the hart can tell *)

\* The instruction in ID stays where it is, valid or not.
Stays(in, out) ==
    /\ instr_id' = instr_id /\ pc_id' = pc_id /\ kind' = kind
    /\ instr_valid_id' = (instr_valid_id /\ ~(in.id_ready \/ out.halt_id \/ branch_taken_ex))

\* The controller sends the fetch elsewhere.
Jumps(in, out) == out.pc_set /\ pc_q' = out.target /\ Stays(in, out) /\ ~hwlp_update_pc_q'

\* The fetch waits.
Waits(in, out) ==
    /\ ~out.pc_set /\ pc_q' = pc_q /\ Stays(in, out)
    /\ hwlp_update_pc_q' = (hwlp_update_pc_q \/ hwlp_jump(out))
    /\ hwlp_addr_q' = IF hwlp_jump(out) THEN out.hwlp_target ELSE hwlp_addr_q

\* The next instruction comes into ID.
HandsOver(in, out) ==
    /\ ~out.pc_set /\ ~out.halt_if /\ in.id_ready
    /\ instr_valid_id' = TRUE /\ pc_id' = pc_q /\ ~hwlp_update_pc_q'
    /\ hwlp_jump(out) => pc_q' = out.hwlp_target
    /\ ~hwlp_jump(out) /\ hwlp_update_pc_q => pc_q' = hwlp_addr_q
    /\ ~hwlp_jump(out) /\ ~hwlp_update_pc_q => pc_q' = Following(pc_q)

\* Every edge does one of the three, and keeps the aligner and ID in order.
LEMMA EdgeFetch ==
    ASSUME FlowType, InstrInv, NEW in \in Inputs, NEW out \in Outputs, Edge(in, out),
           ~out.pc_set => AlignerInv,
           hwlp_jump(out) => /\ ~out.pc_set /\ state = "ALIGNED32" /\ pc_q \in Wide
                             /\ out.hwlp_target % 2 = 0
    PROVE  /\ AlignerInv' /\ InstrInv'
           /\ Jumps(in, out) \/ Waits(in, out) \/ HandsOver(in, out)
<1> DEFINE fetch == FetchIn(in, out)
<1>1. FetchStageEdge(fetch) /\ fetch \in FetchInputs /\ FetchType
  BY EdgeHasParts, FetchInType DEF EdgeParts, FlowType
<1>2. /\ fetch.pc_set_i = out.pc_set /\ fetch.branch_addr_i = out.target
      /\ fetch.hwlp_jump_i = hwlp_jump(out) /\ fetch.hwlp_target_i = out.hwlp_target
      /\ fetch.fetch_valid = (~out.pc_set /\ (waiting \/ in.arrives))
      /\ fetch.if_valid = (~out.halt_if /\ (~out.pc_set /\ (waiting \/ in.arrives)) /\ in.id_ready)
      /\ fetch.clear_instr_valid_i = (in.id_ready \/ out.halt_id \/ branch_taken_ex)
  BY DEF FetchIn
<1> HIDE DEF fetch
<1>3. AlignerInv' /\ InstrInv' /\ (Jumped(fetch) \/ Held(fetch) \/ Handed(fetch))
  BY <1>1, <1>2, FetchStage
<1>4. Jumped(fetch) => Jumps(in, out)
  BY <1>2 DEF Jumped, Kept, Jumps, Stays, kind
<1>5. Held(fetch) => Waits(in, out)
  BY <1>2 DEF Held, Kept, Waits, Stays, kind
<1>6. Handed(fetch) => HandsOver(in, out)
  <2>1. hwlp_jump(out) \in BOOLEAN /\ hwlp_update_pc_q \in BOOLEAN
    BY <1>1, <1>2 DEF FetchType, FetchInputs
  <2>2. ASSUME Handed(fetch) PROVE ~fetch.pc_set_i
    BY <1>2, <2>2 DEF Handed
  <2> QED BY <1>2, <2>1, <2>2 DEF Handed, HandsOver
<1> QED BY <1>3, <1>4, <1>5, <1>6

\* The trap registers, and the step the hart takes.
SavesSpec(in, out) ==
    /\ mepc_q' = IF out.save # "none" /\ ~out.debug_save THEN exception_pc(out)
                 ELSE IF ex.kind = "skip" THEN ex.value ELSE mepc_q
    /\ depc_q' = IF out.save # "none" /\ out.debug_save THEN exception_pc(out) ELSE depc_q
    /\ debug_cause_q' = IF out.save # "none" /\ out.debug_save THEN out.debug_cause ELSE debug_cause_q
    /\ turned' = hwlp_jump(out)
    /\ out.event = "interrupt" => Interrupt
    /\ out.event = "exception" => Exception
    /\ out.event = "halt" => Halt
    /\ out.event = "none" =>
         IF Issues(in, out) /\ ~illegal_insn /\ kind \notin {"ecall", "ebreak"}
         THEN Retire(hwlp_start_q, hwlp_end_q, ex'.taken) ELSE hart' = hart /\ since_dret' = since_dret

\* Every edge does this to the trap registers and the hart.
LEMMA EdgeSaves ==
    ASSUME FlowType, NEW in \in Inputs, NEW out \in Outputs, Edge(in, out)
    PROVE  SavesSpec(in, out)
<1>1. PICK into_ex : EdgeParts(in, out, into_ex)
  BY EdgeHasParts
<1>2. TrapEdge(out.save, out.debug_save, out.debug_cause, exception_pc(out), out.restore, ex, in.irq)
  BY <1>1 DEF EdgeParts
<1>3. Commit(in, out, ex'.taken) /\ turned' = hwlp_jump(out)
  BY <1>1 DEF EdgeParts
<1>4. out.event \in Events /\ out.debug_save \in BOOLEAN
  BY DEF Outputs
<1>5. /\ out.event = "interrupt" => Interrupt
      /\ out.event = "exception" => Exception
      /\ out.event = "halt" => Halt
  BY <1>3 DEF Commit
<1>6. out.event = "none" =>
         IF Issues(in, out) /\ ~illegal_insn /\ kind \notin {"ecall", "ebreak"}
         THEN Retire(hwlp_start_q, hwlp_end_q, ex'.taken) ELSE hart' = hart /\ since_dret' = since_dret
  BY <1>3 DEF Commit, hartVars
<1> QED BY <1>2, <1>3, <1>4, <1>5, <1>6 DEF TrapEdge, SavesSpec

\* Nothing is executed: the loop registers stay.
LoopsStay == hwlp_start_q' = hwlp_start_q /\ hwlp_end_q' = hwlp_end_q /\ hwlp_counter_q' = hwlp_counter_q

\* Loop registers change only with an instruction that is executed.
LEMMA EdgeKeepsLoops ==
    ASSUME FlowType, NEW in \in Inputs, NEW out \in Outputs, Edge(in, out),
           out.decoding /\ kind = "hwloop" => ~in.id_ready,
           \/ out.dec = {}
           \/ ~(instr_valid_id /\ (in.id_ready \/ out.halt_id \/ branch_taken_ex))
    PROVE  LoopsStay
<1>1. PICK into_ex : EdgeParts(in, out, into_ex)
  BY EdgeHasParts
<1>2. HwloopEdge(HwloopWrite(in, out), out.dec,
                 instr_valid_id /\ (in.id_ready \/ out.halt_id \/ branch_taken_ex))
  BY <1>1 DEF EdgeParts
<1>3. HwloopWrite(in, out).fields = {}
  BY DEF HwloopWrite
<1>4. hwlp_counter_q = [k \in Loops |-> hwlp_counter_q[k]]
  BY DEF FlowType, LoopType
<1>5. hwlp_counter_q' = [k \in Loops |-> hwlp_counter_q[k]]
  BY <1>2, <1>3 DEF HwloopEdge
<1> QED BY <1>2, <1>3, <1>4, <1>5 DEF HwloopEdge, LoopsStay

-----------------------------------------------------------------------------
(* The states in which nothing is executed *)

\* The controller is silent towards EX and the loops.
Silent(out) ==
    /\ out.decoding = FALSE /\ out.dec = {} /\ out.hwlp_end_4 = FALSE /\ out.jump_done = jump_done_q
    /\ out.halt_if = TRUE \/ out.pc_set = TRUE
    /\ out.ns = "XRET_JUMP" => out.halt_if /\ kind \in {"mret", "dret"}

\* What such a cycle leaves alone.
SilentSpec(in, out) ==
    /\ EdgeSpec(in, out) /\ SavesSpec(in, out) /\ LoopsStay /\ AlignerInv' /\ InstrInv'
    /\ ~Issues(in, out) /\ ex' = NoOp /\ ~branch_taken_ex' /\ ex'.kind = "none"
    /\ kind' = kind /\ pc_id' = pc_id /\ instr_id' = instr_id
    /\ instr_valid_id' = (instr_valid_id /\ ~(in.id_ready \/ out.halt_id \/ branch_taken_ex))
    /\ pc_q' = IF out.pc_set THEN out.target ELSE pc_q
    /\ hwlp_update_pc_q' => hwlp_update_pc_q /\ ~out.pc_set

\* Every such edge leaves it alone.
LEMMA SilentEdge ==
    ASSUME FlowInv, HartInv, NEW in \in Inputs, NEW out \in Outputs, Edge(in, out), Silent(out),
           ctrl_fsm_cs \notin {"RESET", "BOOT_SET"} \/ out.pc_set
    PROVE  SilentSpec(in, out)
<1>1. Quiet(in, out)
  BY QuietEdge DEF Silent
<1>2. SavesSpec(in, out) /\ LoopsStay
  BY EdgeSaves, EdgeKeepsLoops DEF Silent, FlowInv
<1>3. ~hwlp_jump(out)
  BY DEF Silent, hwlp_jump
<1>4. /\ AlignerInv' /\ InstrInv'
      /\ Jumps(in, out) \/ Waits(in, out) \/ HandsOver(in, out)
  BY <1>3, EdgeFetch DEF FlowInv, HartInv
<1>5. ~HandsOver(in, out)
  BY DEF Silent, HandsOver
<1>6. pc_q' = (IF out.pc_set THEN out.target ELSE pc_q) /\ (hwlp_update_pc_q' => hwlp_update_pc_q /\ ~out.pc_set)
  BY <1>3, <1>4, <1>5 DEF Jumps, Waits
<1> QED BY <1>1, <1>2, <1>4, <1>6 DEF Quiet, SilentSpec, Silent, Issues, NoOp

\* An instruction is executed, and it is not one that traps.
Retires(in, out) == Issues(in, out) /\ ~illegal_insn /\ kind \notin {"ecall", "ebreak"}

\* No trap either: the hart stays.
LEMMA HartWaits ==
    ASSUME HartInv, NEW in, NEW out, SavesSpec(in, out), LoopsStay, ~Retires(in, out), ex'.kind = "none",
           out.save = "none", out.event = "none", hart.debug = (debug_mode_q' /\ ~Leaving')
    PROVE  SavedInv' /\ hart' = hart /\ since_dret' = since_dret
<1>1. hart' = hart /\ since_dret' = since_dret /\ depc_q' = depc_q
      /\ mepc_q' = IF ex.kind = "skip" THEN ex.value ELSE mepc_q
  BY DEF SavesSpec, Retires
<1>2. hwlp_counter_q' = hwlp_counter_q
  BY DEF LoopsStay
<1> QED BY <1>1, <1>2 DEF SavedInv, HartInv, LoopsAreCounted

\* The same for a cycle that issues nothing.
LEMMA HartStays ==
    ASSUME HartInv, NEW in, NEW out, SavesSpec(in, out), LoopsStay, ~Issues(in, out), ex'.kind = "none",
           out.save = "none", out.event = "none", hart.debug = (debug_mode_q' /\ ~Leaving')
    PROVE  SavedInv' /\ hart' = hart /\ since_dret' = since_dret
BY HartWaits DEF Retires

\* One lemma for each of these states: it keeps HartInv.
LEMMA ResetKeepsHart ==
    ASSUME FlowInv, HartInv, InReset(Inputs, BOOLEAN)
    PROVE  HartInv'
<1> USE DEF FlowInv
<1>1. PICK in \in Inputs, enable \in BOOLEAN : Edge(in, Reset(enable))
  BY DEF InReset
<1> DEFINE out == Reset(enable)
<1>2. out \in Outputs /\ Edge(in, out)
  BY <1>1, SleepyTypes
<1>3. /\ ctrl_fsm_cs = "RESET" /\ out.ns \in {"RESET", "BOOT_SET"} /\ out.pc_set = FALSE
      /\ out.decoding = FALSE /\ out.jump_done = jump_done_q /\ out.debug_mode = debug_mode_q
      /\ out.dec = {} /\ out.hwlp_end_4 = FALSE /\ out.save = "none" /\ out.event = "none"
      /\ out.halt_id = FALSE
  BY DEF InReset, Reset, Idle
<1> HIDE DEF out
<1>4. Quiet(in, out)
  BY <1>2, <1>3, QuietEdge, InputTypes DEF FlagInv
<1>5. SavesSpec(in, out) /\ LoopsStay
  BY <1>2, <1>3, EdgeSaves, EdgeKeepsLoops
<1>6. /\ hart' = hart /\ since_dret' = since_dret /\ ex'.kind = "none" /\ ~branch_taken_ex'
      /\ mepc_q' = mepc_q /\ depc_q' = depc_q /\ debug_mode_q' = FALSE /\ debug_q' = debug_q /\ debug_q.step = FALSE
      /\ ctrl_fsm_cs' \in {"RESET", "BOOT_SET"} /\ hwlp_counter_q' = hwlp_counter_q
  BY <1>3, <1>4, <1>5 DEF SavesSpec, Issues, Quiet, EdgeSpec, NoOp, FlagInv, ExInv, LoopsStay, FlowType, ControllerType, TrapType, DebugSettings
<1>7. hwlp_update_pc_q' = FALSE
  <2>1. FetchStageEdge(FetchIn(in, out))
    BY <1>2, EdgeHasParts DEF EdgeParts
  <2>2. ~waiting /\ ~in.arrives
    BY <1>3, InputTypes DEF FlagInv
  <2>3. hwlp_update_pc_q = FALSE /\ ~hwlp_jump(out)
    BY <1>3 DEF HartInv, UpdateInv, hwlp_jump, FlowType, FetchType
  <2> QED BY <1>3, <2>1, <2>2, <2>3 DEF FetchStageEdge, FetchIn, AlignerStep
<1>8. InstrInv'
  BY <1>4 DEF Quiet, HartInv, InstrInv
<1>9. SavedInv'
  <2>1. ex.kind # "skip" /\ ~Leaving' /\ hart.debug = FALSE
    BY <1>3, <1>6 DEF ExInv, Leaving, FlagInv, HartInv, SavedInv
  <2> QED BY <1>6, <2>1 DEF HartInv, SavedInv, LoopsAreCounted
<1>10. PcInv' /\ StepInv' /\ BranchInv' /\ UpdateInv'
  BY <1>3, <1>6, <1>7 DEF HartInv, PcInv, StepInv, BranchInv, UpdateInv, Stepping, Leaving
<1> QED BY <1>6, <1>8, <1>9, <1>10 DEF HartInv

\* BOOT_SET sends the fetch to BOOT.
LEMMA BootKeepsHart ==
    ASSUME FlowInv, HartInv, InBoot(Inputs)
    PROVE  HartInv'
<1> USE DEF FlowInv
<1>1. PICK in \in Inputs : Edge(in, BootSet(in.debug_req))
  BY DEF InBoot
<1> DEFINE out == BootSet(in.debug_req)
<1>2. out \in Outputs /\ Edge(in, out)
  BY <1>1, SleepyTypes, InputTypes
<1>3. /\ ctrl_fsm_cs = "BOOT_SET" /\ out.ns \in {"FIRST_FETCH", "DBG_TAKEN_IF"}
      /\ out.pc_set = TRUE /\ out.target = BOOT /\ out.debug_mode = debug_mode_q
      /\ out.save = "none" /\ out.event = "none" /\ Silent(out)
  BY DEF InBoot, BootSet, Idle, JumpTo, Silent
<1> HIDE DEF out
<1>4. SilentSpec(in, out)
  BY <1>2, <1>3, SilentEdge
<1>5. /\ ctrl_fsm_cs' = out.ns /\ debug_mode_q' = FALSE /\ debug_q' = debug_q /\ debug_q.step = FALSE
  BY <1>3, <1>4 DEF SilentSpec, EdgeSpec, FlagInv, ExInv, FlowType, ControllerType, TrapType, DebugSettings
<1>6. ~Leaving' /\ hart.debug = FALSE
  BY <1>3, <1>5 DEF Leaving, HartInv, SavedInv, FlagInv
<1>7. SavedInv' /\ hart' = hart /\ since_dret' = since_dret
  BY <1>3, <1>4, <1>5, <1>6, HartStays DEF SilentSpec
<1>8. PcInv' /\ StepInv' /\ BranchInv' /\ UpdateInv'
  BY <1>3, <1>4, <1>5, <1>6, <1>7 DEF SilentSpec, HartInv, PcInv, StepInv, BranchInv, UpdateInv, Stepping
<1> QED BY <1>4, <1>7, <1>8 DEF HartInv, SilentSpec

\* Asleep the core stays where it is.
LEMMA SleepsKeepHart ==
    ASSUME FlowInv, HartInv, InWait(Inputs) \/ InSleep(Inputs)
    PROVE  HartInv'
<1> USE DEF FlowInv
<1>1. PICK in \in Inputs : \/ ctrl_fsm_cs = "WAIT_SLEEP" /\ Edge(in, WaitSleep)
                           \/ ctrl_fsm_cs = "SLEEP" /\ Edge(in, Sleep(irq_wu_ctrl(in.irq), in.debug_req))
  BY DEF InWait, InSleep
<1>2. PICK out \in Outputs :
        /\ Edge(in, out) /\ out.ns \in {"SLEEP", "FIRST_FETCH", "DBG_TAKEN_IF"}
        /\ out.pc_set = FALSE /\ out.debug_mode = debug_mode_q
        /\ out.save = "none" /\ out.event = "none" /\ Silent(out)
  <2>1. CASE ctrl_fsm_cs = "WAIT_SLEEP" /\ Edge(in, WaitSleep)
    BY <2>1, SleepyTypes, InputTypes DEF WaitSleep, Halted, Idle, Silent
  <2>2. CASE ctrl_fsm_cs = "SLEEP" /\ Edge(in, Sleep(irq_wu_ctrl(in.irq), in.debug_req))
    <3> DEFINE out == Sleep(irq_wu_ctrl(in.irq), in.debug_req)
    <3>1. out \in Outputs
      BY SleepyTypes, InputTypes DEF irq_wu_ctrl
    <3>2. /\ out.ns \in {"SLEEP", "FIRST_FETCH", "DBG_TAKEN_IF"}
          /\ out.pc_set = FALSE /\ out.debug_mode = debug_mode_q
          /\ out.save = "none" /\ out.event = "none" /\ Silent(out)
      BY <2>2 DEF Sleep, Halted, Idle, Silent, irq_wu_ctrl, Pending
    <3> QED BY <2>2, <3>1, <3>2
  <2> QED BY <1>1, <2>1, <2>2
<1>4. SilentSpec(in, out)
  BY <1>1, <1>2, SilentEdge
<1>5. /\ ctrl_fsm_cs' = out.ns /\ debug_mode_q' = FALSE /\ debug_q' = debug_q /\ debug_q.step = FALSE
  BY <1>1, <1>2, <1>4 DEF SilentSpec, EdgeSpec, FlagInv, ExInv, FlowType, ControllerType, TrapType, DebugSettings
<1>6. ~Leaving' /\ hart.debug = FALSE
  BY <1>1, <1>2, <1>5 DEF Leaving, HartInv, SavedInv, FlagInv
<1>7. SavedInv' /\ hart' = hart /\ since_dret' = since_dret
  BY <1>2, <1>4, <1>5, <1>6, HartStays DEF SilentSpec
<1>8. PcInv' /\ StepInv' /\ BranchInv' /\ UpdateInv'
  BY <1>1, <1>2, <1>4, <1>5, <1>6, <1>7 DEF SilentSpec, HartInv, PcInv, StepInv, BranchInv, UpdateInv, Stepping
<1> QED BY <1>4, <1>7, <1>8 DEF HartInv, SilentSpec

\* FIRST_FETCH: an interrupt is taken or debug mode entered before the instruction at pc_q.
LEMMA FirstKeepsHart ==
    ASSUME FlowInv, HartInv, InFirst(Inputs)
    PROVE  HartInv'
<1> USE DEF FlowInv
<1>1. PICK in \in Inputs : Edge(in, FirstFetch(irq_req_ctrl, in.debug_req)) /\ ctrl_fsm_cs = "FIRST_FETCH"
  BY DEF InFirst
<1> DEFINE out == FirstFetch(irq_req_ctrl, in.debug_req)
           taken == irq_req_ctrl /\ ~Pending(in.debug_req) /\ ~debug_mode_q
<1>2. out \in Outputs /\ Edge(in, out)
  BY <1>1, SleepyTypes, InputTypes DEF irq_req_ctrl
<1>3. /\ debug_mode_q = FALSE /\ instr_valid_id = FALSE /\ hwlp_update_pc_q = FALSE
      /\ pc_q = hart.pc /\ hart.debug = FALSE /\ ex.kind # "skip" /\ AlignerInv
      /\ Stepping => since_dret = 0
  BY <1>1 DEF FlagInv, ExInv, HartInv, UpdateInv, PcInv, SavedInv, StepInv, FlowType, FetchType, ControllerType
<1>4. CASE taken
  <2>1. /\ out.ns = "DECODE" /\ out.pc_set = TRUE /\ out.target = IRQ_VECTOR /\ out.debug_mode = debug_mode_q
        /\ out.save = "if" /\ out.debug_save = FALSE /\ out.event = "interrupt" /\ Silent(out)
    BY <1>4 DEF FirstFetch, TakenIrq, JumpTo, Halted, Idle, Silent
  <2> HIDE DEF out, taken
  <2>2. SilentSpec(in, out)
    BY <1>1, <1>2, <2>1, SilentEdge
  <2>3. /\ ctrl_fsm_cs' = "DECODE" /\ ~debug_mode_q' /\ ~instr_valid_id'
        /\ pc_q' = IRQ_VECTOR /\ ~hwlp_update_pc_q' /\ debug_q' = debug_q
        /\ ex'.kind = "none" /\ ~branch_taken_ex'
    <3>1. ex.kind # "dcsr"
      BY <1>1 DEF ExInv
    <3> QED BY <1>3, <2>1, <2>2, <3>1 DEF SilentSpec, EdgeSpec
  <2>4. /\ hart' = [hart EXCEPT !.pc = IRQ_VECTOR, !.mepc = hart.pc] /\ since_dret' = since_dret
        /\ mepc_q' = pc_q /\ depc_q' = depc_q /\ hwlp_counter_q' = hwlp_counter_q
    BY <2>1, <2>2 DEF SilentSpec, SavesSpec, Interrupt, exception_pc, LoopsStay
  <2>5. /\ hart'.pc = IRQ_VECTOR /\ hart'.mepc = hart.pc /\ hart'.lpcount = hart.lpcount
        /\ hart'.depc = hart.depc /\ hart'.debug = FALSE
    BY <1>3, <2>4 DEF FlowType, HartType
  <2>6. SavedInv'
    BY <1>3, <2>3, <2>4, <2>5 DEF HartInv, SavedInv, LoopsAreCounted
  <2>7. PcInv' /\ StepInv' /\ BranchInv' /\ UpdateInv'
    BY <1>3, <2>3, <2>4, <2>5 DEF PcInv, AtDecode, StepInv, BranchInv, UpdateInv, Stepping, Leaving
  <2> QED BY <2>2, <2>6, <2>7 DEF HartInv, SilentSpec
<1>5. CASE ~taken
  <2>1. /\ out.ns = "DECODE" /\ out.pc_set = FALSE /\ out.debug_mode = debug_mode_q /\ out.dec = {}
        /\ out.save = "none" /\ out.event = "none" /\ out.decoding = FALSE /\ out.hwlp_end_4 = FALSE
    BY <1>5 DEF FirstFetch, Idle
  <2> HIDE DEF out, taken
  <2>2. /\ AlignerInv' /\ InstrInv'
        /\ Jumps(in, out) \/ Waits(in, out) \/ HandsOver(in, out)
    BY <1>2, <1>3, <2>1, EdgeFetch DEF HartInv, hwlp_jump
  <2>3. EdgeSpec(in, out) /\ SavesSpec(in, out) /\ LoopsStay /\ ~Issues(in, out) /\ in.id_ready
    BY <1>1, <1>2, <2>1, EdgeFlags, EdgeSaves, EdgeKeepsLoops, InputTypes DEF Issues
  <2>4. /\ ctrl_fsm_cs' = "DECODE" /\ ~debug_mode_q' /\ ~jump_done_q' /\ debug_q' = debug_q
        /\ ex'.kind = "none" /\ ~branch_taken_ex'
    <3>1. ex.kind # "dcsr" /\ ex' = NoOp
      BY <1>1, <2>3 DEF ExInv, EdgeSpec
    <3> QED BY <1>3, <2>1, <2>3, <3>1 DEF EdgeSpec, NoOp, branch_taken_ex
  <2>5. SavedInv' /\ hart' = hart /\ since_dret' = since_dret
    BY <1>3, <2>1, <2>3, <2>4, HartStays
  <2>6. /\ ~hwlp_update_pc_q'
        /\ instr_valid_id' => pc_id' = hart.pc /\ pc_q' = Following(pc_id')
        /\ ~instr_valid_id' => pc_q' = hart.pc
    BY <1>3, <2>1, <2>2 DEF Jumps, Waits, HandsOver, Stays, hwlp_jump
  <2>7. AtDecode' /\ StepInv' /\ BranchInv' /\ UpdateInv'
    BY <1>3, <2>4, <2>5, <2>6 DEF AtDecode, StepInv, BranchInv, UpdateInv, Stepping, Leaving
  <2> QED BY <2>2, <2>4, <2>5, <2>7 DEF HartInv, PcInv
<1> QED BY <1>4, <1>5

\* FLUSH_EX: a trap is committed when EX is empty.
LEMMA FlushExKeepsHart ==
    ASSUME FlowInv, HartInv, InFlushEx(Inputs, BOOLEAN)
    PROVE  HartInv'
<1> USE DEF FlowInv
<1>1. PICK in \in Inputs, ex_valid \in BOOLEAN : Edge(in, FlushEx(ex_valid)) /\ ctrl_fsm_cs = "FLUSH_EX"
  BY DEF InFlushEx
<1> DEFINE out == FlushEx(ex_valid)
<1>2. out \in Outputs /\ Edge(in, out)
  BY <1>1, FlushTypes
<1>3. /\ out.pc_set = FALSE /\ out.debug_mode = debug_mode_q /\ out.debug_save = FALSE
      /\ out.illegal = illegal_insn_q /\ out.halt_id = TRUE /\ Silent(out)
      /\ out.ns = IF ex_valid THEN "FLUSH_WB" ELSE "FLUSH_EX"
      /\ out.event = IF ex_valid /\ Trapping THEN "exception" ELSE "none"
      /\ out.save = IF ex_valid /\ Trapping /\ ((illegal_insn_q \/ kind = "ecall") => ~debug_mode_q)
                    THEN "id" ELSE "none"
  BY <1>1 DEF FlushEx, Halted, Idle, Silent, Trapping
<1> HIDE DEF out
<1>4. SilentSpec(in, out)
  BY <1>1, <1>2, <1>3, SilentEdge
<1>5. /\ ctrl_fsm_cs' = out.ns /\ debug_mode_q' = debug_mode_q /\ illegal_insn_q' = illegal_insn_q
      /\ kind' = kind /\ pc_id' = pc_id /\ pc_q' = pc_q /\ hwlp_update_pc_q' = FALSE
      /\ ex'.kind = "none" /\ ~branch_taken_ex' /\ instr_valid_id' = FALSE
  BY <1>1, <1>3, <1>4 DEF SilentSpec, EdgeSpec, HartInv, UpdateInv, FlagInv, FlowType, FetchType
<1>6. Trapping' = Trapping /\ IsStatusCsr' = IsStatusCsr
  BY <1>5 DEF Trapping, IsStatusCsr
<1>7. Leaving' = Leaving
  BY <1>1, <1>3, <1>5 DEF Leaving
<1>8. /\ ~debug_mode_q => debug_q' = debug_q /\ Stepping' = Stepping
      /\ debug_mode_q => ~Stepping'
  <2>1. ex.kind = "dcsr" => debug_mode_q
    BY DEF ExInv, illegal_insn
  <2> QED BY <1>4, <1>5, <2>1 DEF SilentSpec, EdgeSpec, Stepping
<1>9. BranchInv' /\ UpdateInv'
  BY <1>5 DEF BranchInv, UpdateInv
<1>10. IsLast(0, pc_id)' = IsLast(0, pc_id) /\ IsLast(1, pc_id)' = IsLast(1, pc_id)
       /\ hwlp_targ_addr(pc_id)' = hwlp_targ_addr(pc_id) /\ hwlp_counter_q' = hwlp_counter_q
  BY <1>4, <1>5 DEF SilentSpec, LoopsStay, IsLast, hwlp_targ_addr, Within
<1>11. CASE ex_valid /\ Trapping
  <2>1. Exception /\ pc_id = hart.pc /\ hart.debug = debug_mode_q /\ debug_mode_q \in BOOLEAN
    <3>1. ~Leaving
      BY <1>11 DEF Trapping, Leaving
    <3> QED BY <1>1, <1>3, <1>4, <1>11, <3>1 DEF SilentSpec, SavesSpec, HartInv, PcInv, SavedInv, FlowType, ControllerType
  <2>2. /\ hart'.pc = IF debug_mode_q THEN DM_EXCEPTION ELSE MTVEC
        /\ hart'.mepc = IF debug_mode_q THEN hart.mepc ELSE pc_id
        /\ hart'.lpcount = hart.lpcount /\ hart'.depc = hart.depc /\ hart'.debug = hart.debug
        /\ since_dret' = IF since_dret < 2 THEN since_dret + 1 ELSE since_dret
    BY <2>1 DEF Exception, FlowType, HartType
  <2>3. debug_mode_q => illegal_insn_q \/ kind = "ecall"
    BY <1>1, <1>11 DEF FlushInv, Trapping, FlagInv
  <2>4. ex.kind # "skip"
    <3>1. illegal_insn_q => illegal_insn
      BY DEF FlagInv
    <3> QED BY <1>11, <3>1 DEF ExInv, Trapping
  <2>5. mepc_q' = (IF debug_mode_q THEN mepc_q ELSE pc_id) /\ depc_q' = depc_q
    BY <1>3, <1>4, <1>11, <2>3, <2>4 DEF SilentSpec, SavesSpec, exception_pc
  <2>6. SavedInv'
    <3>1. ~Leaving'
      BY <1>6, <1>11 DEF Trapping, Leaving
    <3> QED BY <1>5, <1>10, <2>1, <2>2, <2>4, <2>5, <3>1 DEF SavedInv, HartInv, LoopsAreCounted
  <2>7. PcInv'
    BY <1>3, <1>5, <1>6, <1>11, <2>2 DEF PcInv
  <2>8. StepInv'
    <3>1. Stepping => since_dret = 0
      BY <1>1, <1>11 DEF HartInv, StepInv
    <3> QED BY <1>3, <1>5, <1>6, <1>8, <1>11, <2>2, <3>1 DEF StepInv, Leaving, Trapping, Stepping
  <2> QED BY <1>4, <1>9, <2>6, <2>7, <2>8 DEF HartInv, SilentSpec
<1>12. CASE ~(ex_valid /\ Trapping)
  <2>1. out.event = "none" /\ out.save = "none" /\ out.ns \in {"FLUSH_EX", "FLUSH_WB"}
    BY <1>3, <1>12
  <2>2. SavedInv' /\ hart' = hart /\ since_dret' = since_dret
    <3>1. hart.debug = (debug_mode_q' /\ ~Leaving')
      BY <1>5, <1>7 DEF HartInv, SavedInv
    <3> QED BY <1>4, <2>1, <3>1, HartStays DEF SilentSpec
  <2>3. Trapping => out.ns = "FLUSH_EX"
    BY <1>3, <1>12
  <2>4. PcInv'
    <3>1. AtFlush => AtFlush'
      BY <1>5, <1>6, <1>10, <2>2 DEF AtFlush, Loops
    <3> QED BY <1>1, <1>5, <1>6, <2>1, <2>2, <2>3, <3>1 DEF PcInv, HartInv
  <2>5. StepInv'
    BY <1>1, <1>5, <1>6, <1>7, <1>8, <2>1, <2>2, <2>3 DEF StepInv, HartInv, Stepping
  <2> QED BY <1>4, <1>9, <2>2, <2>4, <2>5 DEF HartInv, SilentSpec
<1> QED BY <1>11, <1>12

\* After the flush the fetch goes on where the hart is, unless a return is to be made.
FlushSpec(out) ==
    /\ Silent(out) /\ out.save = "none" /\ out.event = "none" /\ out.debug_mode = debug_mode_q
    /\ out.halt_id = TRUE
    /\ \/ /\ out.ns \in {"DECODE", "DBG_TAKEN_IF", "WAIT_SLEEP"} /\ ~Leaving
          /\ (IF out.pc_set THEN out.target ELSE pc_q) = hart.pc
          /\ out.ns # "DBG_TAKEN_IF" => ~Stepping
       \/ /\ out.ns = "XRET_JUMP" /\ kind \in {"mret", "dret"} /\ ~Trapping
          /\ out.illegal = illegal_insn_q

\* FLUSH_WB goes there.
LEMMA FlushOut ==
    ASSUME FlowInv, HartInv, ctrl_fsm_cs = "FLUSH_WB", NEW debug_req \in BOOLEAN
    PROVE  FlushSpec(FlushWb(debug_req))
<1> USE DEF FlowInv
<1>1. illegal_insn => illegal_insn_q
  BY DEF FlushInv
<1>2. illegal_insn_q \in BOOLEAN /\ debug_mode_q \in BOOLEAN /\ illegal_insn \in BOOLEAN /\ Stepping \in BOOLEAN
  BY DEF FlowType, ControllerType, TrapType, DebugSettings, illegal_insn, Stepping
<1>3. CASE Trapping
  <2>1. FlushWb(debug_req) = Trap
    BY <1>3 DEF FlushWb, Trapping, IsStatusCsr
  <2>2. /\ Trap.ns = IF Stepping THEN "DBG_TAKEN_IF" ELSE "DECODE"
        /\ Trap.pc_set = TRUE /\ Trap.save = "none" /\ Trap.event = "none" /\ Trap.halt_id = TRUE
        /\ Trap.debug_mode = debug_mode_q /\ Silent(Trap)
        /\ Trap.target = IF debug_mode_q /\ (illegal_insn_q \/ kind # "ebreak") THEN DM_EXCEPTION ELSE MTVEC
    BY DEF Trap, JumpTo, Halted, Idle, Silent
  <2>3. hart.pc = IF debug_mode_q THEN DM_EXCEPTION ELSE MTVEC
    BY <1>3 DEF HartInv, PcInv
  <2>4. debug_mode_q => illegal_insn_q \/ kind # "ebreak"
    BY <1>1 DEF FlushInv
  <2>5. ~Leaving
    BY <1>3 DEF Trapping, Leaving
  <2> QED BY <1>2, <2>1, <2>2, <2>3, <2>4, <2>5 DEF FlushSpec
<1>4. CASE ~Trapping
  <2>1. /\ illegal_insn_q = FALSE /\ illegal_insn = FALSE /\ AtFlush
        /\ kind \in {"csr", "mie", "skip", "dcsr", "wfi", "fencei", "mret", "dret"}
    BY <1>1, <1>2, <1>4 DEF Trapping, FlushInv, Flushing, HartInv, PcInv
  <2>2. kind # "mret" /\ kind # "dret" => ~Leaving /\ ~Stepping
    BY <2>1 DEF Leaving, FlushInv
  <2>3. CASE kind \in {"mret", "dret"}
    <3>1. kind = "mret" => FlushWb(debug_req) = [Halted EXCEPT !.ns = "XRET_JUMP", !.restore = ~debug_mode_q]
      BY <2>1 DEF FlushWb, IsStatusCsr
    <3>2. kind = "dret" => FlushWb(debug_req) = [Halted EXCEPT !.ns = "XRET_JUMP"]
      BY <2>1 DEF FlushWb, IsStatusCsr
    <3>3. /\ FlushWb(debug_req).ns = "XRET_JUMP" /\ FlushWb(debug_req).illegal = illegal_insn_q
          /\ FlushWb(debug_req).halt_id = TRUE /\ FlushWb(debug_req).halt_if = TRUE
          /\ FlushWb(debug_req).save = "none" /\ FlushWb(debug_req).event = "none"
          /\ FlushWb(debug_req).debug_mode = debug_mode_q
          /\ FlushWb(debug_req).decoding = FALSE /\ FlushWb(debug_req).dec = {}
          /\ FlushWb(debug_req).hwlp_end_4 = FALSE /\ FlushWb(debug_req).jump_done = jump_done_q
      <4>1. CASE kind = "mret"
        BY <1>2, <3>1, <4>1 DEF Halted, Idle
      <4>2. CASE kind = "dret"
        BY <3>2, <4>2 DEF Halted, Idle
      <4> QED BY <2>3, <4>1, <4>2
    <3> QED BY <1>4, <2>3, <3>3 DEF FlushSpec, Silent
  <2>4. CASE IsStatusCsr
    <3>1. FlushWb(debug_req) = AfterStatusCsr
      BY <2>1, <2>4 DEF FlushWb, IsStatusCsr
    <3>2. CASE \E k \in Loops : IsLast(k, pc_id) /\ hwlp_counter_q[k] # 0
      <4>1. AfterStatusCsr = JumpTo([Halted EXCEPT !.ns = "DECODE"], hwlp_targ_addr(pc_id))
        BY <3>2 DEF AfterStatusCsr
      <4>2. hart.pc = hwlp_targ_addr(pc_id)
        BY <2>1, <2>4, <3>2 DEF AtFlush
      <4>3. ~Leaving /\ ~Stepping
        BY <2>2, <2>4 DEF IsStatusCsr
      <4> QED BY <1>2, <3>1, <4>1, <4>2, <4>3 DEF JumpTo, Halted, Idle, Silent, FlushSpec
    <3>3. CASE ~ \E k \in Loops : IsLast(k, pc_id) /\ hwlp_counter_q[k] # 0
      <4>1. AfterStatusCsr = [Halted EXCEPT !.ns = "DECODE"]
        BY <3>3 DEF AfterStatusCsr
      <4>2. hart.pc = pc_q
        BY <2>1, <2>4, <3>3 DEF AtFlush
      <4>3. ~Leaving /\ ~Stepping
        BY <2>2, <2>4 DEF IsStatusCsr
      <4> QED BY <1>2, <3>1, <4>1, <4>2, <4>3 DEF Halted, Idle, Silent, FlushSpec
    <3> QED BY <3>2, <3>3
  <2>5. CASE kind = "wfi"
    <3>1. FlushWb(debug_req).ns \in {"DBG_TAKEN_IF", "WAIT_SLEEP"}
      BY <2>1, <2>5 DEF FlushWb, IsStatusCsr, Halted, Idle, Pending
    <3>2. /\ FlushWb(debug_req).pc_set = FALSE /\ FlushWb(debug_req).halt_id = TRUE
          /\ FlushWb(debug_req).save = "none" /\ FlushWb(debug_req).event = "none"
          /\ FlushWb(debug_req).debug_mode = debug_mode_q /\ Silent(FlushWb(debug_req))
      BY <2>1, <2>5 DEF FlushWb, IsStatusCsr, Halted, Idle, Silent, Pending
    <3> QED BY <2>1, <2>2, <2>5, <3>1, <3>2 DEF FlushSpec, AtFlush
  <2>6. CASE kind = "fencei"
    <3>1. FlushWb(debug_req) = [JumpTo(Halted, Plus(pc_id, 2)) EXCEPT !.ns = "DECODE"]
      BY <2>1, <2>6 DEF FlushWb, IsStatusCsr
    <3> QED BY <1>2, <2>1, <2>2, <2>6, <3>1 DEF FlushSpec, AtFlush, JumpTo, Halted, Idle, Silent
  <2> QED BY <2>1, <2>3, <2>4, <2>5, <2>6 DEF IsStatusCsr
<1> QED BY <1>3, <1>4

\* FLUSH_WB: the fetch is sent to the handler, behind the instruction or to the start of a loop.
LEMMA FlushWbKeepsHart ==
    ASSUME FlowInv, HartInv, InFlushWb(Inputs)
    PROVE  HartInv'
<1> USE DEF FlowInv
<1>1. PICK in \in Inputs : Edge(in, FlushWb(in.debug_req)) /\ ctrl_fsm_cs = "FLUSH_WB"
  BY DEF InFlushWb
<1> DEFINE out == FlushWb(in.debug_req)
<1>2. out \in Outputs /\ Edge(in, out) /\ FlushSpec(out)
  BY <1>1, FlushTypes, FlushOut, InputTypes
<1> HIDE DEF out
<1>3. SilentSpec(in, out)
  BY <1>1, <1>2, SilentEdge DEF FlushSpec
<1>4. ex.kind # "dcsr"
  BY <1>1 DEF ExInv
<1>5. /\ ctrl_fsm_cs' = out.ns /\ debug_mode_q' = debug_mode_q /\ illegal_insn_q' = out.illegal
      /\ kind' = kind /\ pc_id' = pc_id /\ pc_q' = (IF out.pc_set THEN out.target ELSE pc_q)
      /\ ex'.kind = "none" /\ ~branch_taken_ex' /\ ~instr_valid_id' /\ debug_q' = debug_q
  BY <1>2, <1>3, <1>4 DEF SilentSpec, EdgeSpec, FlushSpec
<1>6. ~hwlp_update_pc_q'
  BY <1>1, <1>3 DEF SilentSpec, HartInv, UpdateInv
<1>7. Leaving' = Leaving /\ Stepping' = Stepping
  BY <1>1, <1>2, <1>5 DEF FlushSpec, Leaving, Trapping, Stepping
<1>8. SavedInv' /\ hart' = hart /\ since_dret' = since_dret
  <2>1. hart.debug = (debug_mode_q' /\ ~Leaving')
    BY <1>5, <1>7 DEF HartInv, SavedInv
  <2> QED BY <1>2, <1>3, <2>1, HartStays DEF SilentSpec, FlushSpec
<1>9. StepInv' /\ BranchInv' /\ UpdateInv'
  BY <1>1, <1>2, <1>5, <1>6, <1>7, <1>8 DEF HartInv, StepInv, BranchInv, UpdateInv, FlushSpec
<1>10. PcInv'
  <2>1. CASE out.ns # "XRET_JUMP"
    BY <1>2, <1>5, <1>8, <2>1 DEF FlushSpec, PcInv, AtDecode
  <2>2. CASE out.ns = "XRET_JUMP"
    <3>1. AtFlush /\ kind \in {"mret", "dret"}
      BY <1>1, <1>2, <2>2 DEF FlushSpec, HartInv, PcInv
    <3>2. AtFlush'
      BY <1>5, <1>8, <3>1 DEF AtFlush, IsStatusCsr
    <3> QED BY <1>5, <2>2, <3>2 DEF PcInv
  <2> QED BY <2>1, <2>2
<1> QED BY <1>3, <1>8, <1>9, <1>10 DEF HartInv, SilentSpec

\* XRET_JUMP: the fetch is sent to mepc or dpc.
LEMMA XretKeepsHart ==
    ASSUME FlowInv, HartInv, InXret(Inputs)
    PROVE  HartInv'
<1> USE DEF FlowInv
<1>1. PICK in \in Inputs : Edge(in, XretJump) /\ ctrl_fsm_cs = "XRET_JUMP"
  BY DEF InXret
<1> DEFINE out == XretJump
<1>2. out \in Outputs /\ Edge(in, out)
  BY <1>1, DebugTypes
<1>3. /\ ~illegal_insn_q /\ kind \in {"mret", "dret"} /\ debug_mode_q \in BOOLEAN
      /\ ex.kind \notin {"dcsr", "skip"} /\ AtFlush /\ ~instr_valid_id
  BY <1>1 DEF FlagInv, ExInv, HartInv, PcInv, FlowType, ControllerType
<1>4. /\ out.ns = (IF Stepping THEN "DBG_TAKEN_IF" ELSE "DECODE")
      /\ out.pc_set = TRUE /\ out.save = "none" /\ out.event = "none" /\ Silent(out)
      /\ out.debug_mode = (debug_mode_q /\ kind = "mret") /\ out.illegal = illegal_insn_q
      /\ out.target = IF kind = "dret" THEN depc_q ELSE IF debug_mode_q THEN DM_EXCEPTION ELSE mepc_q
  BY <1>3 DEF XretJump, JumpTo, Idle, Silent
<1> HIDE DEF out
<1>5. SilentSpec(in, out)
  BY <1>1, <1>2, <1>4, SilentEdge
<1>6. /\ ctrl_fsm_cs' = out.ns /\ debug_mode_q' = (debug_mode_q /\ kind = "mret")
      /\ pc_q' = out.target /\ ex'.kind = "none" /\ ~branch_taken_ex' /\ debug_q' = debug_q
      /\ ~hwlp_update_pc_q' /\ ~instr_valid_id'
  BY <1>3, <1>4, <1>5 DEF SilentSpec, EdgeSpec
<1>7. out.target = hart.pc
  BY <1>3, <1>4 DEF AtFlush, HartInv, SavedInv
<1>8. SavedInv' /\ hart' = hart /\ since_dret' = since_dret
  <2>1. ~Leaving' /\ (Leaving <=> kind = "dret")
    BY <1>1, <1>3, <1>4, <1>6 DEF Leaving
  <2>2. hart.debug = (debug_mode_q' /\ ~Leaving')
    BY <1>3, <1>6, <2>1 DEF HartInv, SavedInv
  <2> QED BY <1>4, <1>5, <2>2, HartStays DEF SilentSpec
<1>9. BranchInv' /\ UpdateInv' /\ PcInv'
  BY <1>4, <1>6, <1>7, <1>8 DEF BranchInv, UpdateInv, PcInv, AtDecode
<1>10. StepInv'
  <2>1. CASE Stepping
    <3>1. since_dret = 1 /\ out.ns = "DBG_TAKEN_IF" /\ kind # "dret"
      <4>1. since_dret = 1
        BY <1>1, <2>1 DEF HartInv, StepInv
      <4>2. ~Leaving
        BY <2>1, <4>1 DEF HartInv, StepInv
      <4> QED BY <1>1, <1>3, <1>4, <2>1, <4>1, <4>2 DEF Leaving
    <3> QED BY <1>6, <1>8, <3>1 DEF StepInv, Leaving
  <2>2. CASE ~Stepping
    <3>1. Stepping' => kind = "dret" /\ since_dret = 0
      <4>1. Stepping' => kind = "dret"
        BY <1>3, <1>6, <2>2 DEF Stepping
      <4>2. kind = "dret" => Leaving
        BY <1>1, <1>3 DEF Leaving
      <4> QED BY <4>1, <4>2 DEF HartInv, StepInv
    <3> QED BY <1>4, <1>6, <1>8, <2>2, <3>1 DEF StepInv, Leaving
  <2> QED BY <2>1, <2>2
<1> QED BY <1>5, <1>8, <1>9, <1>10 DEF HartInv, SilentSpec

\* DBG_WAIT_BRANCH: the fetch is sent to the target of the branch if it is taken.
LEMMA DbgWaitKeepsHart ==
    ASSUME FlowInv, HartInv, InDbgWait(Inputs)
    PROVE  HartInv'
<1> USE DEF FlowInv
<1>1. PICK in \in Inputs : Edge(in, DbgWaitBranch) /\ ctrl_fsm_cs = "DBG_WAIT_BRANCH"
  BY DEF InDbgWait
<1> DEFINE out == DbgWaitBranch
<1>2. out \in Outputs /\ Edge(in, out)
  BY <1>1, DebugTypes
<1>3. /\ out.ns = "DBG_FLUSH" /\ out.save = "none" /\ out.event = "none" /\ Silent(out)
      /\ out.debug_mode = debug_mode_q /\ out.entry = debug_req_entry_q
  BY DEF DbgWaitBranch, JumpTo, Idle, Silent
<1>4. (IF out.pc_set THEN out.target ELSE pc_q) = hart.pc
  <2>1. IF branch_taken_ex THEN ex.to = hart.pc ELSE pc_q = hart.pc
    BY <1>1 DEF HartInv, PcInv
  <2> QED BY <2>1 DEF DbgWaitBranch, JumpTo, Idle
<1> HIDE DEF out
<1>5. SilentSpec(in, out)
  BY <1>1, <1>2, <1>3, SilentEdge
<1>6. /\ ~debug_mode_q /\ ~trigger_match /\ ~debug_req_entry_q /\ kind = "branch" /\ ex.kind # "dcsr"
      /\ ~hwlp_update_pc_q
  BY <1>1 DEF FlagInv, ExInv, HartInv, UpdateInv
<1>7. /\ ctrl_fsm_cs' = "DBG_FLUSH" /\ ~debug_mode_q' /\ debug_q' = debug_q /\ ~debug_req_entry_q'
      /\ kind' = kind /\ pc_id' = pc_id /\ pc_q' = hart.pc /\ ex'.kind = "none" /\ ~hwlp_update_pc_q'
  BY <1>3, <1>4, <1>5, <1>6 DEF SilentSpec, EdgeSpec
<1>8. ~Called' /\ Stepping' = Stepping /\ ~Leaving' /\ ~Leaving
  BY <1>1, <1>6, <1>7 DEF Called, trigger_match, ebrk_force_debug_mode, Stepping, Leaving
<1>9. SavedInv' /\ hart' = hart /\ since_dret' = since_dret
  <2>1. hart.debug = (debug_mode_q' /\ ~Leaving')
    BY <1>6, <1>7 DEF HartInv, SavedInv
  <2> QED BY <1>3, <1>5, <2>1, HartStays DEF SilentSpec
<1>10. PcInv' /\ StepInv' /\ BranchInv' /\ UpdateInv'
  BY <1>1, <1>7, <1>8, <1>9 DEF HartInv, PcInv, StepInv, BranchInv, UpdateInv
<1> QED BY <1>5, <1>9, <1>10 DEF HartInv, SilentSpec

\* DBG_FLUSH keeps pc_id and pc_q as they are.
LEMMA DbgFlushKeepsHart ==
    ASSUME FlowInv, HartInv, InDbgFlush(Inputs)
    PROVE  HartInv'
<1> USE DEF FlowInv
<1>1. PICK in \in Inputs : Edge(in, DbgFlush) /\ ctrl_fsm_cs = "DBG_FLUSH"
  BY DEF InDbgFlush
<1> DEFINE out == DbgFlush
<1>2. out \in Outputs /\ Edge(in, out)
  BY <1>1, DebugTypes
<1>3. /\ out.ns = (IF debug_mode_q \/ Called THEN "DBG_TAKEN_ID" ELSE "DBG_TAKEN_IF")
      /\ out.save = "none" /\ out.event = "none" /\ Silent(out) /\ out.pc_set = FALSE
      /\ out.halt_id = TRUE /\ out.debug_mode = debug_mode_q /\ out.entry = debug_req_entry_q
  BY DEF DbgFlush, Halted, Idle, Silent, Called
<1> HIDE DEF out
<1>4. SilentSpec(in, out)
  BY <1>1, <1>2, <1>3, SilentEdge
<1>5. /\ ctrl_fsm_cs' = out.ns /\ debug_mode_q' = debug_mode_q /\ debug_req_entry_q' = debug_req_entry_q
      /\ kind' = kind /\ pc_id' = pc_id /\ pc_q' = pc_q /\ ex'.kind = "none"
      /\ hwlp_update_pc_q' => hwlp_update_pc_q
      /\ ~debug_mode_q => debug_q' = debug_q
  <2>1. ex.kind = "dcsr" => debug_mode_q
    BY DEF ExInv, illegal_insn
  <2> QED BY <1>3, <1>4, <2>1 DEF SilentSpec, EdgeSpec
<1>6. ~Leaving' /\ ~Leaving /\ (~debug_mode_q => Stepping' = Stepping) /\ (debug_mode_q => ~Stepping')
  BY <1>1, <1>3, <1>5 DEF Leaving, Stepping
<1>7. SavedInv' /\ hart' = hart /\ since_dret' = since_dret
  <2>1. hart.debug = (debug_mode_q' /\ ~Leaving')
    BY <1>5, <1>6 DEF HartInv, SavedInv
  <2> QED BY <1>3, <1>4, <2>1, HartStays DEF SilentSpec
<1>8. UpdateInv' /\ BranchInv'
  <2>1. hwlp_update_pc_q' => debug_req_entry_q /\ Called
    BY <1>1, <1>5 DEF HartInv, UpdateInv, Called
  <2> QED BY <1>3, <1>5, <2>1 DEF UpdateInv, BranchInv
<1>9. PcInv' /\ StepInv'
  BY <1>1, <1>3, <1>5, <1>6, <1>7 DEF HartInv, PcInv, StepInv
<1> QED BY <1>4, <1>7, <1>8, <1>9 DEF HartInv, SilentSpec

\* The entry into debug mode.
LEMMA HaltKeepsHart ==
    ASSUME FlowInv, HartInv, ctrl_fsm_cs \in {"DBG_TAKEN_ID", "DBG_TAKEN_IF"},
           NEW in \in Inputs, NEW out \in Outputs, Edge(in, out), Silent(out),
           out.pc_set, out.target = DM_HALT, out.ns = "DECODE", out.debug_mode, out.event = "halt",
           out.save # "none" <=> ~debug_mode_q, ~debug_mode_q => out.debug_save,
           ~debug_mode_q => exception_pc(out) = hart.pc
    PROVE  HartInv'
<1> USE DEF FlowInv
<1>1. SilentSpec(in, out)
  BY SilentEdge
<1>2. /\ ~instr_valid_id /\ ex.kind # "skip" /\ hart.debug = debug_mode_q
      /\ debug_mode_q \in BOOLEAN /\ mepc_q = hart.mepc /\ depc_q = hart.depc
  <2>1. debug_mode_q \in BOOLEAN /\ ~Leaving
    BY DEF FlowType, ControllerType, Leaving
  <2> QED BY <2>1 DEF FlagInv, ExInv, HartInv, SavedInv
<1>3. /\ ctrl_fsm_cs' = "DECODE" /\ debug_mode_q' /\ ~branch_taken_ex' /\ ex'.kind = "none"
      /\ ~instr_valid_id' /\ pc_q' = DM_HALT /\ ~hwlp_update_pc_q'
  BY <1>1, <1>2 DEF SilentSpec, EdgeSpec
<1>4. /\ hart'.pc = DM_HALT /\ hart'.debug = TRUE /\ hart'.mepc = hart.mepc
      /\ hart'.depc = (IF hart.debug THEN hart.depc ELSE hart.pc) /\ hart'.lpcount = hart.lpcount
  <2>1. Halt
    BY <1>1 DEF SilentSpec, SavesSpec
  <2> QED BY <2>1 DEF Halt, FlowType, HartType
<1>5. /\ mepc_q' = mepc_q /\ depc_q' = IF debug_mode_q THEN depc_q ELSE hart.pc
      /\ hwlp_counter_q' = hwlp_counter_q
  BY <1>1, <1>2 DEF SilentSpec, SavesSpec, LoopsStay
<1>6. ~Leaving' /\ ~Stepping'
  BY <1>3 DEF Leaving, Stepping
<1>7. SavedInv'
  BY <1>2, <1>3, <1>4, <1>5, <1>6 DEF HartInv, SavedInv, LoopsAreCounted
<1>8. PcInv' /\ StepInv' /\ BranchInv' /\ UpdateInv'
  BY <1>3, <1>4, <1>6 DEF PcInv, AtDecode, StepInv, BranchInv, UpdateInv
<1> QED BY <1>1, <1>7, <1>8 DEF HartInv, SilentSpec

\* DBG_TAKEN_ID saves pc_id.
LEMMA DbgIdKeepsHart ==
    ASSUME FlowInv, HartInv, InDbgId(Inputs)
    PROVE  HartInv'
<1> USE DEF FlowInv
<1>1. PICK in \in Inputs : Edge(in, DbgTakenId) /\ ctrl_fsm_cs = "DBG_TAKEN_ID"
  BY DEF InDbgId
<1> DEFINE out == DbgTakenId
<1>2. out \in Outputs /\ Edge(in, out)
  BY <1>1, DebugTypes
<1>3. /\ out.ns = "DECODE" /\ out.pc_set = TRUE /\ out.target = DM_HALT /\ out.debug_mode = TRUE
      /\ out.event = "halt" /\ out.save = (IF debug_mode_q THEN "none" ELSE "id")
      /\ out.debug_save = ~debug_mode_q /\ Silent(out)
  BY DEF DbgTakenId, IntoDebug, JumpTo, Idle, Silent
<1> HIDE DEF out
<1>4. ~debug_mode_q => exception_pc(out) = hart.pc
  BY <1>1, <1>3 DEF exception_pc, HartInv, PcInv
<1> QED BY <1>1, <1>2, <1>3, <1>4, HaltKeepsHart

\* DBG_TAKEN_IF saves pc_q.
LEMMA DbgIfKeepsHart ==
    ASSUME FlowInv, HartInv, InDbgIf(Inputs)
    PROVE  HartInv'
<1> USE DEF FlowInv
<1>1. PICK in \in Inputs : Edge(in, DbgTakenIf) /\ ctrl_fsm_cs = "DBG_TAKEN_IF"
  BY DEF InDbgIf
<1> DEFINE out == DbgTakenIf
<1>2. out \in Outputs /\ Edge(in, out)
  BY <1>1, DebugTypes
<1>3. /\ out.ns = "DECODE" /\ out.pc_set = TRUE /\ out.target = DM_HALT /\ out.debug_mode = TRUE
      /\ out.event = "halt" /\ out.save = "if" /\ out.debug_save = TRUE /\ Silent(out)
  BY DEF DbgTakenIf, IntoDebug, JumpTo, Idle, Silent
<1> HIDE DEF out
<1>4. exception_pc(out) = hart.pc /\ ~debug_mode_q
  BY <1>1, <1>3 DEF exception_pc, HartInv, PcInv, FlagInv
<1> QED BY <1>1, <1>2, <1>3, <1>4, HaltKeepsHart

-----------------------------------------------------------------------------
(* An instruction is executed *)

\* The instruction leads to the one behind it, unless a loop turns there.
Straight == kind \notin {"jal", "jalr", "branch", "mret", "dret"}

\* The step the hart takes, as far as the core has to follow it.
RetireSpec ==
    /\ LoopsAreCounted' /\ \A k \in Loops : Counted(k)
    /\ hart'.depc = hart.depc
    /\ hart'.mepc = IF kind = "skip" THEN Following(hart.mepc) ELSE hart.mepc
    /\ hart'.debug = (hart.debug /\ kind # "dret")
    /\ since_dret' = IF kind = "dret" THEN 0 ELSE IF since_dret < 2 THEN since_dret + 1 ELSE since_dret
    /\ kind \in {"jal", "jalr"} => hart'.pc = Program[hart.pc].to
    /\ kind = "branch" => hart'.pc = IF ex'.taken THEN Program[hart.pc].to ELSE Following(hart.pc)
    /\ kind = "mret" => hart'.pc = IF hart.debug THEN DM_EXCEPTION ELSE hart.mepc
    /\ kind = "dret" => hart'.pc = hart.depc
    /\ Straight => GoesOn

\* Retiring counts the loops down that end there, as the core does.
LEMMA RetiredLoops ==
    ASSUME FlowType, LoopsAreCounted, LoopsAreLegal, NEW in \in Inputs, NEW out \in Outputs,
           Edge(in, out), Issues(in, out), out.dec = {k \in Loops : Ends(k)}, instr_id.lo = hart.pc
    PROVE  /\ \A k \in Loops : Counted(k)
           /\ hwlp_counter_q' =
                [k \in Loops |-> IF Writes(k) /\ "count" \in Program[hart.pc].fields THEN Program[hart.pc].count
                                 ELSE IF Ends(k) THEN hwlp_counter_q[k] - 1 ELSE hwlp_counter_q[k]]
<1> DEFINE instr == Program[hart.pc]
           write == HwloopWrite(in, out)
<1>1. LegalSpec
  BY Legal DEF LegalFact
<1>2. out.decoding /\ instr_valid_id /\ in.id_ready /\ kind = instr.kind
  BY DEF Issues, kind
<1>3. HwloopEdge(write, out.dec, instr_valid_id /\ (in.id_ready \/ out.halt_id \/ branch_taken_ex))
  <2>1. PICK into_ex : EdgeParts(in, out, into_ex)
    BY EdgeHasParts
  <2> QED BY <2>1 DEF EdgeParts
<1>4. /\ instr.kind = "hwloop" => /\ write.fields = instr.fields /\ write.loop = instr.loop
                                  /\ write.start = instr.start /\ write.end = instr.end
                                  /\ write.count = instr.count /\ instr.loop \in Loops
      /\ instr.kind # "hwloop" => write.fields = {}
  <2>1. instr.kind = "hwloop" => instr.loop \in Loops
    BY LoopFieldsAssumption DEF FlowType, HartType
  <2> QED BY <1>2, <2>1 DEF HwloopWrite
<1> HIDE DEF write
<1>5. \A k \in Loops : hwlp_counter_q[k] \in Nat /\ hwlp_counter_q[k] < COUNTS
                       /\ (Ends(k) => (hwlp_counter_q[k] - 1) % COUNTS = hwlp_counter_q[k] - 1)
  BY CountsAssumption DEF FlowType, LoopType, Counts, Ends, Active
<1>6. hwlp_counter_q' =
        [k \in Loops |-> IF Writes(k) /\ "count" \in instr.fields THEN instr.count
                         ELSE IF Ends(k) THEN hwlp_counter_q[k] - 1 ELSE hwlp_counter_q[k]]
  <2>1. hwlp_counter_q' =
          [k \in Loops |->
             IF "count" \in write.fields /\ k = write.loop THEN write.count
             ELSE IF k \in out.dec /\ (instr_valid_id /\ (in.id_ready \/ out.halt_id \/ branch_taken_ex))
                  THEN (hwlp_counter_q[k] - 1) % COUNTS ELSE hwlp_counter_q[k]]
    BY <1>3 DEF HwloopEdge
  <2>2. ASSUME NEW k \in Loops
        PROVE  (IF "count" \in write.fields /\ k = write.loop THEN write.count
                ELSE IF k \in out.dec /\ (instr_valid_id /\ (in.id_ready \/ out.halt_id \/ branch_taken_ex))
                     THEN (hwlp_counter_q[k] - 1) % COUNTS ELSE hwlp_counter_q[k])
               = IF Writes(k) /\ "count" \in instr.fields THEN instr.count
                 ELSE IF Ends(k) THEN hwlp_counter_q[k] - 1 ELSE hwlp_counter_q[k]
    BY <1>2, <1>4, <1>5 DEF Writes
  <2> QED BY <2>1, <2>2
<1>7. ASSUME NEW k \in Loops PROVE Counted(k)
  <2>1. hwlp_start_q \in [Loops -> EvenAddresses] /\ hwlp_end_q \in [Loops -> EvenAddresses]
    BY DEF FlowType, LoopType
  <2>2. /\ hwlp_start_q' = IF "start" \in write.fields
                           THEN [hwlp_start_q EXCEPT ![write.loop] = 2 * (write.start \div 2)] ELSE hwlp_start_q
        /\ hwlp_end_q' = IF "end" \in write.fields
                         THEN [hwlp_end_q EXCEPT ![write.loop] = 2 * (write.end \div 2)] ELSE hwlp_end_q
    BY <1>3 DEF HwloopEdge
  <2>3. CASE ~Writes(k)
    <3>1. hwlp_start_q'[k] = hwlp_start_q[k] /\ hwlp_end_q'[k] = hwlp_end_q[k]
      BY <1>4, <2>1, <2>2, <2>3 DEF Writes
    <3> QED BY <1>6, <2>3, <3>1 DEF Counted
  <2>4. CASE Writes(k)
    <3>1. instr.kind = "hwloop" /\ instr.loop = k
      BY <2>4 DEF Writes
    <3>2. hwlp_start_q'[k] = IF "start" \in instr.fields THEN 2 * (instr.start \div 2) ELSE hwlp_start_q[k]
      BY <1>4, <2>1, <2>2, <3>1
    <3>3. hwlp_end_q'[k] = IF "end" \in instr.fields THEN 2 * (instr.end \div 2) ELSE hwlp_end_q[k]
      BY <1>4, <2>1, <2>2, <3>1
    <3>4. DefinesAhead(hart.pc)
      BY <3>1 DEF LoopsAreLegal
    <3>5. hart.pc \notin hwlp_start_q'[k] .. hwlp_end_q'[k] - 1
      BY <3>1, <3>2, <3>3, <3>4 DEF DefinesAhead
    <3>6. hart.pc \in Int /\ hwlp_start_q'[k] \in Int /\ hwlp_end_q'[k] \in Int
      <4>1. instr.start \in Int /\ instr.end \in Int
        BY <3>1, LoopFieldsAssumption DEF FlowType, HartType, Addresses
      <4> QED BY <2>1, <3>2, <3>3, <4>1 DEF EvenAddresses, Addresses, FlowType, HartType
    <3> QED BY <2>4, <3>5, <3>6 DEF Counted
  <2> QED BY <2>3, <2>4
<1> QED BY <1>6, <1>7

\* The hart retires the instruction in ID.
LEMMA Retired ==
    ASSUME FlowType, LoopsAreCounted, LoopsAreLegal, NEW in \in Inputs, NEW out \in Outputs,
           Edge(in, out), Retires(in, out), out.event = "none", out.dec = {k \in Loops : Ends(k)},
           instr_id.lo = hart.pc
    PROVE  RetireSpec
<1> DEFINE instr == Program[hart.pc]
           pc    == hart.pc
           ends  == Ending(hwlp_end_q, pc)
           back  == {k \in ends : hart.lpcount[k] > 1}
<1>1. LegalSpec /\ SavesSpec(in, out) /\ kind = instr.kind
  BY Legal, EdgeSaves DEF LegalFact, kind
<1>2. Retire(hwlp_start_q, hwlp_end_q, ex'.taken)
  BY <1>1 DEF SavesSpec, Retires
<1>3. /\ \A k \in Loops : Counted(k)
      /\ hwlp_counter_q' =
           [k \in Loops |-> IF Writes(k) /\ "count" \in instr.fields THEN instr.count
                            ELSE IF Ends(k) THEN hwlp_counter_q[k] - 1 ELSE hwlp_counter_q[k]]
  BY RetiredLoops DEF Retires
<1>4. pc \in Nat /\ hart.lpcount = hwlp_counter_q /\ \A k \in Loops : hwlp_counter_q[k] \in Nat
  BY DEF LoopsAreCounted, FlowType, HartType, LoopType, Counts, Addresses
<1>5. /\ \A k \in Loops : k \in ends <=> Ends(k)
      /\ \A k \in Loops : k \in back <=> Turns(k)
      /\ ends \subseteq Loops
  <2>1. ASSUME NEW k \in Loops PROVE k \in ends <=> Ends(k)
    <3>1. Active(k) => pc + 2 = Plus(pc, 2)
      BY <1>1 DEF LegalSpec, RunsSpec
    <3> QED BY <1>4, <3>1 DEF Ending, Ends, IsLast, Active, Loops
  <2>2. ASSUME NEW k \in Loops PROVE k \in back <=> Turns(k)
    BY <1>4, <2>1 DEF Turns, Ends, Active
  <2> QED BY <2>1, <2>2 DEF Ending, Loops
<1>6. hart' = [hart EXCEPT !.pc = Successor(hwlp_start_q, hwlp_end_q, ex'.taken),
                 !.lpcount = [k \in {0, 1} |->
                    IF instr.kind = "hwloop" /\ instr.loop = k /\ "count" \in instr.fields THEN instr.count
                    ELSE IF k \in ends THEN hart.lpcount[k] - 1 ELSE hart.lpcount[k]],
                 !.mepc = IF instr.kind = "skip" THEN Following(@) ELSE @,
                 !.debug = @ /\ instr.kind # "dret"]
  BY <1>2 DEF Retire
<1>7. since_dret' = IF kind = "dret" THEN 0 ELSE IF since_dret < 2 THEN since_dret + 1 ELSE since_dret
  BY <1>1, <1>2 DEF Retire
<1> HIDE DEF ends, back
<1>8. /\ hart'.pc = Successor(hwlp_start_q, hwlp_end_q, ex'.taken)
      /\ hart'.lpcount = [k \in {0, 1} |->
            IF instr.kind = "hwloop" /\ instr.loop = k /\ "count" \in instr.fields THEN instr.count
            ELSE IF k \in ends THEN hart.lpcount[k] - 1 ELSE hart.lpcount[k]]
      /\ hart'.mepc = (IF instr.kind = "skip" THEN Following(hart.mepc) ELSE hart.mepc)
      /\ hart'.debug = (hart.debug /\ instr.kind # "dret")
      /\ hart'.depc = hart.depc
  BY <1>6 DEF FlowType, HartType
<1>9. LoopsAreCounted'
  <2>1. \A k \in {0, 1} : (IF instr.kind = "hwloop" /\ instr.loop = k /\ "count" \in instr.fields THEN instr.count
                           ELSE IF k \in ends THEN hart.lpcount[k] - 1 ELSE hart.lpcount[k])
          = IF Writes(k) /\ "count" \in instr.fields THEN instr.count
            ELSE IF Ends(k) THEN hwlp_counter_q[k] - 1 ELSE hwlp_counter_q[k]
    BY <1>4, <1>5 DEF Writes, Loops
  <2> QED BY <1>3, <1>8, <2>1 DEF LoopsAreCounted, Loops
<1>10. Successor(hwlp_start_q, hwlp_end_q, ex'.taken) =
         CASE instr.kind \in {"jal", "jalr"} \/ (instr.kind = "branch" /\ ex'.taken) -> instr.to
           [] instr.kind = "mret" -> IF hart.debug THEN DM_EXCEPTION ELSE hart.mepc
           [] instr.kind = "dret" -> hart.depc
           [] back # {} -> hwlp_start_q[CHOOSE k \in back : \A j \in back : k <= j]
           [] OTHER -> Following(pc)
  BY DEF Successor, back, ends
<1>11. kind \in {"jal", "jalr", "branch", "mret", "dret"} => back = {}
  <2>1. ASSUME NEW k \in back, kind \in {"jal", "jalr", "branch", "mret", "dret"} PROVE FALSE
    <3>1. k \in Loops
      BY <1>5 DEF back
    <3>2. Ends(k)
      BY <1>5, <3>1 DEF back
    <3>3. BodySpec(k)
      BY <1>1, <3>1, <3>2 DEF LegalSpec, Ends
    <3> QED BY <1>1, <2>1, <3>3 DEF BodySpec
  <2> QED BY <2>1
<1>12. Straight => GoesOn
  <2>1. ASSUME Straight, NEW k \in Loops, Turns(k) PROVE hart.pc' = hwlp_start_q[k]
    <3>1. back = {k}
      <4>1. \A j \in back : j \in Loops /\ Ends(j)
        BY <1>5 DEF back
      <4>2. k \in back
        BY <1>5, <2>1
      <4>3. Ends(k)
        BY <4>1, <4>2
      <4> QED BY <1>1, <4>1, <4>2, <4>3 DEF LegalSpec
    <3>2. (CHOOSE i \in back : \A j \in back : i <= j) = k
      <4>1. \A i \in back : i = k
        BY <3>1
      <4>2. k <= k
        BY DEF Loops
      <4>3. \E i \in back : \A j \in back : i <= j
        BY <3>1, <4>2
      <4> QED BY <4>1, <4>3
    <3> QED BY <1>1, <1>8, <1>10, <2>1, <3>1, <3>2 DEF Straight
  <2>2. ASSUME Straight, \A k \in Loops : ~Turns(k) PROVE hart.pc' = Following(hart.pc)
    <3>1. back = {}
      BY <1>5, <2>2 DEF back
    <3> QED BY <1>1, <1>8, <1>10, <2>2, <3>1 DEF Straight
  <2> QED BY <2>1, <2>2 DEF GoesOn
<1>13. /\ kind \in {"jal", "jalr"} => hart'.pc = instr.to
       /\ kind = "branch" => hart'.pc = IF ex'.taken THEN instr.to ELSE Following(pc)
       /\ kind = "mret" => hart'.pc = IF hart.debug THEN DM_EXCEPTION ELSE hart.mepc
       /\ kind = "dret" => hart'.pc = hart.depc
  BY <1>1, <1>8, <1>10, <1>11
<1> QED BY <1>1, <1>3, <1>7, <1>8, <1>9, <1>12, <1>13 DEF RetireSpec

-----------------------------------------------------------------------------
(* DECODE and DECODE_HWLOOP *)

\* With an instruction in ID.
ValidSpec ==
    /\ ctrl_fsm_cs \in {"DECODE", "DECODE_HWLOOP"} /\ instr_valid_id
    /\ pc_id = hart.pc /\ instr_id.lo = hart.pc /\ kind = Program[hart.pc].kind /\ ~branch_taken_ex
    /\ ex.kind \notin {"skip", "dcsr", "mie"} /\ (ctrl_fsm_cs = "DECODE_HWLOOP" => ex.kind # "branch")
    /\ hart.debug = debug_mode_q /\ mepc_q = hart.mepc /\ depc_q = hart.depc /\ LoopsAreCounted
    /\ Stepping => since_dret = 0
    /\ AlignerInv /\ InstrInv /\ ~debug_req_entry_q
    /\ ctrl_fsm_cs = "DECODE" => /\ ~hwlp_update_pc_q
                                 /\ jump_done_q => kind \in {"jal", "jalr"} /\ pc_q = Program[pc_id].to
                                 /\ ~jump_done_q => pc_q = Following(pc_id)
    /\ ctrl_fsm_cs = "DECODE_HWLOOP" => AtLoop /\ illegal_insn_q = FALSE

\* An instruction in ID that is looked at is the next one.
LEMMA Valid ==
    ASSUME FlowInv, HartInv, ctrl_fsm_cs \in {"DECODE", "DECODE_HWLOOP"}, instr_valid_id,
           ~(ctrl_fsm_cs = "DECODE" /\ branch_taken_ex)
    PROVE  ValidSpec
<1> USE DEF FlowInv
<1>1. ctrl_fsm_cs = "DECODE_HWLOOP" => ex.kind # "branch" /\ AtLoop /\ illegal_insn_q = FALSE
  BY DEF HartInv, BranchInv, PcInv, FlagInv, FlowType, ControllerType
<1>2. ~branch_taken_ex
  BY <1>1 DEF branch_taken_ex
<1>3. pc_id = hart.pc /\ (ctrl_fsm_cs = "DECODE" => AtDecode)
  BY <1>1, <1>2 DEF HartInv, PcInv, AtDecode, AtLoop
<1>4. instr_id.lo = hart.pc /\ kind = Program[hart.pc].kind /\ AlignerInv /\ InstrInv
  BY <1>3 DEF HartInv, InstrInv, kind
<1>5. ex.kind \notin {"skip", "dcsr", "mie"} /\ ~debug_req_entry_q /\ ~Leaving
      /\ (ctrl_fsm_cs = "DECODE" => ~hwlp_update_pc_q)
  BY DEF ExInv, FlagInv, Leaving, HartInv, UpdateInv
<1>6. debug_mode_q \in BOOLEAN
  BY DEF FlowType, ControllerType
<1>7. hart.debug = debug_mode_q /\ mepc_q = hart.mepc /\ depc_q = hart.depc /\ LoopsAreCounted
  BY <1>5, <1>6 DEF HartInv, SavedInv
<1>8. Stepping => since_dret = 0
  BY DEF HartInv, StepInv
<1>9. ctrl_fsm_cs = "DECODE" => /\ ~hwlp_update_pc_q
                                /\ jump_done_q => kind \in {"jal", "jalr"} /\ pc_q = Program[pc_id].to
                                /\ ~jump_done_q => pc_q = Following(pc_id)
  BY <1>2, <1>3, <1>5 DEF AtDecode
<1> QED BY <1>1, <1>2, <1>3, <1>4, <1>5, <1>7, <1>8, <1>9 DEF ValidSpec

\* The controller decodes it: no trap is taken in this cycle.
Executing(in, out) ==
    /\ Edge(in, out) /\ EdgeSpec(in, out) /\ SavesSpec(in, out) /\ ValidSpec
    /\ debug_mode_q' = debug_mode_q /\ debug_q' = debug_q /\ Stepping' = Stepping /\ ~debug_req_entry_q'
    /\ trigger_match => debug_mode_q
    /\ out.decoding /\ out.save = "none" /\ out.event = "none"
    /\ hwlp_jump(out) => /\ ~out.pc_set /\ ctrl_fsm_cs = "DECODE_HWLOOP"
                         /\ \E k \in Loops : Ahead(k) /\ out.hwlp_target = hwlp_start_q[k]

\* What the lemmas about an executed instruction assume.
Legally == FlowInv /\ FlowInv' /\ HartInv /\ LoopsAreLegal /\ LoopsAreLegal'

\* Where the last instruction but one of a body is in ID, the aligner is at the last one.
TimeSpec == state = "ALIGNED32" /\ pc_q \in Wide /\ pc_q = pc_id + 2 /\ pc_q = 2 * next

\* So it is when the controller tells the prefetcher of the loop.
LEMMA InTime ==
    ASSUME FlowInv, LoopsAreLegal, ValidSpec, ctrl_fsm_cs = "DECODE_HWLOOP", NEW k \in Loops, Ahead(k)
    PROVE  TimeSpec /\ ~jump_done_q /\ (~hwlp_end_4_id_q => ~hwlp_update_pc_q)
<1> USE DEF FlowInv
<1>1. LegalSpec /\ AtLoop /\ instr_valid_id /\ pc_id = hart.pc
  BY Legal DEF LegalFact, ValidSpec
<1>2. \A j \in Loops : hwlp_counter_q[j] \in Nat
  BY DEF FlowType, LoopType, Counts
<1>3. Active(k) /\ IsLastButOne(k, hart.pc)
  BY <1>2 DEF Ahead, Active
<1>4. Within(k, hart.pc) /\ ~IsLast(k, hart.pc) /\ \A j \in Loops : ~Ends(j)
  BY <1>1, <1>3 DEF LegalSpec
<1>5. BodySpec(k)
  BY <1>1, <1>3, <1>4 DEF LegalSpec
<1>6. \A j \in Loops : ~Turns(j)
  BY <1>2, <1>4 DEF Turns, Ends, Active
<1>7. pc_q = Following(pc_id) /\ ~jump_done_q /\ (hwlp_update_pc_q => hwlp_end_4_id_q)
  BY <1>1, <1>6 DEF AtLoop
<1>8. hart.pc \in Nat /\ next \in Nat /\ HALFWORDS \in Nat /\ HALFWORDS % 2 = 0 /\ pc_q \in Addresses
      /\ r_instr_h \in Addresses
  BY Size DEF FlowType, HartType, FetchType, Words, Addresses
<1>9. pc_q = hart.pc + 2 /\ pc_q % 2 = 0 /\ pc_q \in Wide /\ pc_id \in Wide
  BY <1>1, <1>4, <1>5, <1>7, <1>8 DEF BodySpec
<1>10. AlignerInv /\ state \in AlignerStates
  BY DEF ValidSpec, FlowType, FetchType
<1>11. state # "BRANCH_MISALIGNED"
  <2>1. state = "BRANCH_MISALIGNED" => pc_q = 2 * next + 1
    BY <1>10 DEF AlignerInv
  <2>2. (2 * next + 1) % 2 = 1
    BY <1>8
  <2> QED BY <1>9, <2>1, <2>2
<1>12. state # "MISALIGNED16"
  BY <1>9, <1>10 DEF AlignerInv
<1>13. state # "MISALIGNED32"
  <2>1. Plus(pc_q, 1) = IF pc_q + 1 < HALFWORDS THEN pc_q + 1 ELSE pc_q + 1 - HALFWORDS
    BY <1>8, PlusIs
  <2>2. pc_q \in Nat /\ pc_q < HALFWORDS /\ HALFWORDS = 2 * (HALFWORDS \div 2) /\ HALFWORDS \div 2 \in Nat
    BY <1>8, Size DEF Addresses
  <2>3. Plus(pc_q, 1) % 2 = 1
    BY <1>9, <2>1, <2>2
  <2>4. (2 * next) % 2 = 0
    BY <1>8
  <2>5. state = "MISALIGNED32" => Plus(pc_q, 1) = 2 * next
    BY <1>10 DEF AlignerInv
  <2> QED BY <2>3, <2>4, <2>5
<1>14. state = "ALIGNED32" /\ pc_q = 2 * next
  BY <1>10, <1>11, <1>12, <1>13 DEF AlignerInv, AlignerStates
<1> QED BY <1>1, <1>7, <1>9, <1>14 DEF TimeSpec

\* The fetch in such a cycle.
LEMMA Fetches ==
    ASSUME Legally, NEW in \in Inputs, NEW out \in Outputs, Executing(in, out)
    PROVE  /\ AlignerInv' /\ InstrInv'
           /\ Jumps(in, out) \/ Waits(in, out) \/ HandsOver(in, out)
<1> USE DEF Legally, FlowInv
<1>1. hwlp_jump(out) => /\ ~out.pc_set /\ state = "ALIGNED32" /\ pc_q \in Wide
                        /\ out.hwlp_target % 2 = 0
  <2>1. ASSUME hwlp_jump(out)
        PROVE  ~out.pc_set /\ state = "ALIGNED32" /\ pc_q \in Wide /\ out.hwlp_target % 2 = 0
    <3>1. PICK k \in Loops : Ahead(k) /\ out.hwlp_target = hwlp_start_q[k]
      BY <2>1 DEF Executing
    <3>2. TimeSpec
      BY <2>1, <3>1, InTime DEF Executing
    <3>3. hwlp_start_q[k] % 2 = 0
      BY DEF FlowType, LoopType, EvenAddresses
    <3> QED BY <2>1, <3>1, <3>2, <3>3 DEF Executing, TimeSpec
  <2> QED BY <2>1
<1>2. AlignerInv /\ InstrInv
  BY DEF Executing, ValidSpec
<1>3. Edge(in, out) /\ FlowType
  BY DEF Executing
<1> HIDE DEF Legally, FlowInv
<1> QED BY <1>1, <1>2, <1>3, EdgeFetch

\* A handler that skips the instruction it came from writes the address behind it.
LEMMA IntoSkip ==
    ASSUME ~illegal_insn, NEW into_ex \in IntoEx
    PROVE  /\ kind = "skip" => into_ex.kind = "skip" /\ into_ex.value = Following(mepc_q)
           /\ kind = "branch" => /\ into_ex.kind = "branch" /\ into_ex.taken \in BOOLEAN
                                 /\ into_ex.to = Program[instr_id.lo].to
<1>1. CASE kind = "skip"
  <2>1. into_ex = [NoOp EXCEPT !.kind = kind, !.value = Following(mepc_q)]
    BY <1>1 DEF IntoEx
  <2> QED BY <1>1, <2>1 DEF NoOp
<1>2. CASE kind = "branch"
  <2>1. PICK taken \in BOOLEAN : into_ex = [NoOp EXCEPT !.kind = kind, !.taken = taken, !.to = Program[instr_id.lo].to]
    BY <1>2 DEF IntoEx
  <2> QED BY <1>2, <2>1 DEF NoOp
<1> QED BY <1>1, <1>2

\* Counters, mepc and dpc are those of the hart after the cycle.
LEMMA SavedAfter ==
    ASSUME Legally, NEW in \in Inputs, NEW out \in Outputs, Executing(in, out), Retires(in, out),
           RetireSpec, Leaving' <=> kind = "dret"
    PROVE  SavedInv'
<1> USE DEF Legally, FlowInv
<1>1. ex' \in IntoEx /\ ~illegal_insn
  BY DEF Executing, EdgeSpec, Retires
<1>2. /\ ex'.kind = "skip" => kind = "skip" /\ ex'.value = Following(mepc_q)
      /\ kind = "skip" => ex'.kind = "skip"
  BY <1>1, IntoExType, IntoSkip
<1>3. mepc_q' = mepc_q /\ depc_q' = depc_q /\ mepc_q = hart.mepc /\ depc_q = hart.depc
  BY DEF Executing, SavesSpec, ValidSpec
<1>4. kind = "dret" => debug_mode_q
  BY <1>1 DEF illegal_insn
<1>5. hart'.debug = (debug_mode_q' /\ ~Leaving')
  <2>1. debug_mode_q' = debug_mode_q /\ hart.debug = debug_mode_q
    BY DEF Executing, ValidSpec
  <2> QED BY <1>4, <2>1 DEF RetireSpec
<1> QED BY <1>2, <1>3, <1>5 DEF RetireSpec, SavedInv

\* Where the fetch goes on.
Leads(out) == IF out.pc_set THEN out.target ELSE pc_q

\* The instruction waits in ID.
StallSpec(out) ==
    /\ ctrl_fsm_cs' = out.ns /\ SavedInv' /\ hart' = hart /\ since_dret' = since_dret /\ LoopsStay
    /\ AlignerInv' /\ InstrInv' /\ BranchInv' /\ ~branch_taken_ex'
    /\ instr_id' = instr_id /\ pc_id' = pc_id /\ kind' = kind /\ illegal_insn' = illegal_insn /\ instr_valid_id'
    /\ pc_q' = Leads(out)
    /\ out.pc_set => ~hwlp_update_pc_q'
    /\ ~out.pc_set => /\ hwlp_update_pc_q' = (hwlp_update_pc_q \/ hwlp_jump(out))
                      /\ hwlp_addr_q' = IF hwlp_jump(out) THEN out.hwlp_target ELSE hwlp_addr_q
    /\ jump_done_q' = out.jump_done /\ hwlp_end_4_id_q' = out.hwlp_end_4
    /\ ~Leaving'

\* Everything stays but the flags of a loop jump.
LEMMA Stall ==
    ASSUME Legally, NEW in \in Inputs, NEW out \in Outputs, Executing(in, out),
           out.ns \in {"DECODE", "DECODE_HWLOOP"}, ~in.id_ready, ~out.halt_id
    PROVE  StallSpec(out)
<1> USE DEF Legally, FlowInv
<1>1. /\ AlignerInv' /\ InstrInv' /\ Edge(in, out)
      /\ Jumps(in, out) \/ Waits(in, out)
  BY Fetches DEF HandsOver, Executing
<1>2. /\ instr_id' = instr_id /\ pc_id' = pc_id /\ kind' = kind /\ instr_valid_id' /\ illegal_insn' = illegal_insn
      /\ pc_q' = Leads(out)
      /\ out.pc_set => ~hwlp_update_pc_q'
      /\ ~out.pc_set => /\ hwlp_update_pc_q' = (hwlp_update_pc_q \/ hwlp_jump(out))
                        /\ hwlp_addr_q' = IF hwlp_jump(out) THEN out.hwlp_target ELSE hwlp_addr_q
  <2>1. instr_id' = instr_id /\ pc_id' = pc_id /\ kind' = kind /\ instr_valid_id' /\ debug_mode_q' = debug_mode_q
    BY <1>1 DEF Jumps, Waits, Stays, Executing, ValidSpec
  <2>2. illegal_insn' = illegal_insn
    BY <2>1 DEF illegal_insn
  <2> QED BY <1>1, <2>1, <2>2 DEF Jumps, Waits, Leads
<1>3. ~Issues(in, out) /\ ex' = NoOp
  BY DEF Issues, Executing, EdgeSpec
<1>4. ex'.kind = "none" /\ ~branch_taken_ex' /\ BranchInv'
  BY <1>3 DEF NoOp, branch_taken_ex, BranchInv
<1>5. LoopsStay
  BY <1>1, EdgeKeepsLoops DEF Executing, ValidSpec
<1>6. ctrl_fsm_cs' = out.ns /\ jump_done_q' = out.jump_done /\ hwlp_end_4_id_q' = out.hwlp_end_4
  <2>1. out.jump_done \in BOOLEAN
    BY DEF Outputs
  <2> QED BY <2>1 DEF Executing, EdgeSpec
<1>7. ~Leaving'
  BY <1>6 DEF Leaving
<1>8. SavedInv' /\ hart' = hart /\ since_dret' = since_dret
  <2>1. hart.debug = (debug_mode_q' /\ ~Leaving')
    BY <1>7 DEF Executing, ValidSpec, FlowType, ControllerType
  <2> QED BY <1>3, <1>4, <1>5, <2>1, HartStays DEF Executing
<1> QED BY <1>1, <1>2, <1>4, <1>5, <1>6, <1>7, <1>8 DEF StallSpec

\* A stall in DECODE keeps the invariant.
LEMMA StallInDecode ==
    ASSUME Legally, NEW in \in Inputs, NEW out \in Outputs, Executing(in, out),
           out.ns = "DECODE", ~in.id_ready, ~out.halt_id, ~hwlp_update_pc_q, ~hwlp_jump(out),
           out.jump_done => kind \in {"jal", "jalr"} /\ Leads(out) = Program[pc_id].to,
           ~out.jump_done => Leads(out) = Following(pc_id)
    PROVE  HartInv'
<1>1. StallSpec(out)
  BY Stall
<1>2. /\ ctrl_fsm_cs' = "DECODE" /\ ~hwlp_update_pc_q' /\ pc_id' = hart'.pc /\ ~branch_taken_ex'
  BY <1>1 DEF StallSpec, Executing, ValidSpec
<1>3. AtDecode'
  BY <1>1, <1>2 DEF StallSpec, AtDecode
<1>4. PcInv' /\ UpdateInv'
  BY <1>2, <1>3 DEF PcInv, UpdateInv
<1>5. StepInv'
  BY <1>1, <1>2 DEF StallSpec, StepInv, Executing, ValidSpec
<1> QED BY <1>1, <1>4, <1>5 DEF HartInv, StallSpec

\* A stall in DECODE_HWLOOP keeps it: the loop jump that was made is remembered.
LEMMA StallInLoop ==
    ASSUME Legally, NEW in \in Inputs, NEW out \in Outputs, Executing(in, out),
           out.ns = "DECODE_HWLOOP", ~in.id_ready, ~out.halt_id, InRound,
           \A k \in Loops : Turns(k) => Leads(out) = hwlp_start_q[k],
           (\A k \in Loops : ~Turns(k)) => Leads(out) = Following(pc_id) /\ ~out.jump_done,
           out.pc_set => ~out.hwlp_end_4,
           ~out.pc_set =>
             /\ hwlp_update_pc_q \/ hwlp_jump(out) => ~illegal_insn /\ kind \in {"plain", "hwloop"}
             /\ hwlp_update_pc_q \/ hwlp_jump(out) <=> out.hwlp_end_4 /\ \E k \in Loops : Ahead(k)
             /\ \A k \in Loops : Ahead(k) /\ (hwlp_update_pc_q \/ hwlp_jump(out)) =>
                  (IF hwlp_jump(out) THEN out.hwlp_target ELSE hwlp_addr_q) = hwlp_start_q[k],
           Stepping => \A k \in Loops : ~IsLastButOne(k, pc_id)
    PROVE  HartInv'
<1>1. StallSpec(out)
  BY Stall
<1>2. /\ ctrl_fsm_cs' = "DECODE_HWLOOP" /\ pc_id' = hart'.pc /\ hart' = hart /\ pc_id' = pc_id
      /\ hwlp_start_q' = hwlp_start_q /\ hwlp_end_q' = hwlp_end_q /\ hwlp_counter_q' = hwlp_counter_q
      /\ Stepping' = Stepping
  BY <1>1 DEF StallSpec, Executing, ValidSpec, LoopsStay
<1>3. /\ InRound' /\ \A k \in Loops : (Turns(k)' <=> Turns(k)) /\ (Ahead(k)' <=> Ahead(k))
      /\ \A k \in Loops : IsLastButOne(k, pc_id)' <=> IsLastButOne(k, pc_id)
  BY <1>2 DEF InRound, Within, IsLast, IsLastButOne, Turns, Ahead, Active
<1>4. /\ hwlp_update_pc_q' => ~illegal_insn' /\ kind' \in {"plain", "hwloop"}
      /\ hwlp_update_pc_q' <=> hwlp_end_4_id_q' /\ \E k \in Loops : Ahead(k)
      /\ \A k \in Loops : Ahead(k) /\ hwlp_update_pc_q' => hwlp_addr_q' = hwlp_start_q[k]
  BY <1>1 DEF StallSpec
<1>5. /\ \A k \in Loops : Turns(k) => pc_q' = hwlp_start_q[k]
      /\ (\A k \in Loops : ~Turns(k)) => pc_q' = Following(pc_id) /\ ~jump_done_q'
  BY <1>1 DEF StallSpec
<1>6. AtLoop'
  <2>1. instr_valid_id'
    BY <1>1 DEF StallSpec
  <2> QED BY <1>2, <1>3, <1>4, <1>5, <2>1 DEF AtLoop
<1>7. PcInv' /\ UpdateInv'
  BY <1>2, <1>6 DEF PcInv, UpdateInv
<1>8. StepInv'
  BY <1>1, <1>2 DEF StallSpec, StepInv, Executing, ValidSpec
<1> QED BY <1>1, <1>7, <1>8 DEF HartInv, StallSpec

\* An instruction that traps, or one that is not legal.
LEMMA Traps ==
    ASSUME Legally, NEW in \in Inputs, NEW out \in Outputs, Executing(in, out), ~Retires(in, out),
           ~out.pc_set, out.halt_if, out.dec = {}, ~out.hwlp_end_4, ~hwlp_update_pc_q,
           illegal_insn \/ kind \in {"ecall", "ebreak"},
           \/ out.ns = "FLUSH_EX" /\ (out.illegal \/ kind \in {"ecall", "ebreak"})
           \/ out.ns = "DBG_FLUSH" /\ kind = "ebreak" /\ (debug_mode_q \/ ebrk_force_debug_mode)
    PROVE  HartInv'
<1> USE DEF Legally, FlowInv
<1>1. /\ AlignerInv' /\ InstrInv' /\ Edge(in, out) /\ Waits(in, out) /\ ~hwlp_jump(out)
  BY Fetches DEF HandsOver, Jumps, Executing, hwlp_jump
<1>2. kind' = kind /\ pc_id' = pc_id /\ pc_q' = pc_q /\ ~hwlp_update_pc_q' /\ pc_id = hart.pc
  BY <1>1 DEF Waits, Stays, Executing, ValidSpec
<1>3. ex'.kind = "none" /\ ~branch_taken_ex'
  <2>1. ex' \in IntoEx \cup {NoOp}
    BY DEF Executing, EdgeSpec
  <2>2. IntoEx = {NoOp}
    <3>1. CASE illegal_insn
      BY <3>1 DEF IntoEx, illegal_insn
    <3>2. CASE ~illegal_insn
      BY <3>2 DEF IntoEx
    <3> QED BY <3>1, <3>2
  <2> QED BY <2>1, <2>2 DEF NoOp, branch_taken_ex
<1>4. LoopsStay
  <2>1. kind # "hwloop"
    BY DEF illegal_insn
  <2> QED BY <1>1, <2>1, EdgeKeepsLoops
<1>5. /\ ctrl_fsm_cs' = out.ns /\ illegal_insn_q' = out.illegal /\ debug_mode_q' = debug_mode_q
      /\ debug_q' = debug_q /\ Stepping' = Stepping
  BY DEF Executing, EdgeSpec
<1>6. ~Leaving' /\ (out.ns = "FLUSH_EX" => Trapping')
  BY <1>2, <1>5 DEF Leaving, Trapping
<1>7. SavedInv' /\ hart' = hart /\ since_dret' = since_dret
  <2>1. hart.debug = (debug_mode_q' /\ ~Leaving')
    BY <1>6 DEF Executing, ValidSpec, FlowType, ControllerType
  <2> QED BY <1>3, <1>4, <2>1, HartWaits DEF Executing
<1>8. out.ns = "DBG_FLUSH" /\ ~debug_mode_q => Called'
  BY <1>2, <1>5 DEF Called, ebrk_force_debug_mode
<1>9. BranchInv' /\ UpdateInv'
  BY <1>2, <1>3 DEF BranchInv, UpdateInv
<1>10. PcInv'
  BY <1>2, <1>5, <1>6, <1>7, <1>8 DEF PcInv
<1>11. StepInv'
  BY <1>5, <1>6, <1>7, <1>8 DEF StepInv, Executing, ValidSpec, Stepping
<1> QED BY <1>1, <1>7, <1>9, <1>10, <1>11 DEF HartInv

\* The instruction leaves ID and is executed.
IssueSpec(in, out) ==
    /\ RetireSpec /\ ctrl_fsm_cs' = out.ns /\ ~jump_done_q' /\ hwlp_end_4_id_q' = out.hwlp_end_4
    /\ AlignerInv' /\ InstrInv' /\ (Jumps(in, out) \/ Waits(in, out) \/ HandsOver(in, out))
    /\ in.id_ready
    /\ kind = "branch" => /\ ex'.kind = "branch" /\ ex'.to = Program[hart.pc].to
                          /\ ex'.taken \in BOOLEAN /\ branch_taken_ex' = ex'.taken
    /\ kind # "branch" => ex'.kind # "branch" /\ ~branch_taken_ex'
    /\ (Leaving' <=> kind = "dret") => SavedInv'

\* The edge of such a cycle.
Issued(in, out) ==
    /\ Executing(in, out) /\ Retires(in, out) /\ out.dec = {k \in Loops : Ends(k)}

\* The hart and ID after it.
LEMMA Issue ==
    ASSUME Legally, NEW in \in Inputs, NEW out \in Outputs, Issued(in, out)
    PROVE  IssueSpec(in, out)
<1> USE DEF Legally, FlowInv, Issued
<1>1. RetireSpec
  BY Retired DEF Executing, ValidSpec
<1>2. AlignerInv' /\ InstrInv' /\ (Jumps(in, out) \/ Waits(in, out) \/ HandsOver(in, out))
  BY Fetches
<1>3. in.id_ready /\ ~illegal_insn /\ ex' \in IntoEx
  BY DEF Retires, Issues, Executing, EdgeSpec
<1>4. ctrl_fsm_cs' = out.ns /\ ~jump_done_q' /\ hwlp_end_4_id_q' = out.hwlp_end_4
  BY <1>3 DEF Executing, EdgeSpec
<1>5. kind = "branch" => /\ ex'.kind = "branch" /\ ex'.to = Program[hart.pc].to
                         /\ ex'.taken \in BOOLEAN /\ branch_taken_ex' = ex'.taken
  <2>1. kind = "branch" => /\ ex'.kind = "branch" /\ ex'.taken \in BOOLEAN
                           /\ ex'.to = Program[instr_id.lo].to
    BY <1>3, IntoSkip
  <2> QED BY <2>1 DEF branch_taken_ex, Executing, ValidSpec
<1>6. kind # "branch" => ex'.kind # "branch" /\ ~branch_taken_ex'
  BY <1>3, IntoExType DEF branch_taken_ex
<1>7. (Leaving' <=> kind = "dret") => SavedInv'
  BY <1>1, SavedAfter
<1> QED BY <1>1, <1>2, <1>3, <1>4, <1>5, <1>6, <1>7 DEF IssueSpec

\* It is the last one before a flush.
LEMMA Flushes ==
    ASSUME Legally, NEW in \in Inputs, NEW out \in Outputs, Issued(in, out),
           out.ns = "FLUSH_EX", ~out.illegal, ~out.pc_set, out.halt_if, ~out.hwlp_end_4, ~hwlp_update_pc_q,
           kind \in {"csr", "mie", "skip", "dcsr", "wfi", "fencei", "mret", "dret"},
           kind = "wfi" => ctrl_fsm_cs = "DECODE" /\ pc_q = Following(pc_id),
           IsStatusCsr /\ (\A k \in Loops : ~Turns(k)) => pc_q = Following(pc_id),
           Stepping => kind = "mret"
    PROVE  HartInv'
<1> USE DEF Legally, FlowInv, Issued
<1>0. IssueSpec(in, out) /\ LegalSpec
  BY Issue, Legal DEF LegalFact
<1>1. Waits(in, out) /\ ~hwlp_jump(out)
  BY <1>0 DEF IssueSpec, HandsOver, Jumps, hwlp_jump
<1>2. kind' = kind /\ pc_id' = pc_id /\ pc_q' = pc_q /\ ~hwlp_update_pc_q' /\ pc_id = hart.pc
  BY <1>1 DEF Waits, Stays, Executing, ValidSpec
<1>3. /\ ctrl_fsm_cs' = "FLUSH_EX" /\ illegal_insn_q' = FALSE /\ debug_mode_q' = debug_mode_q
      /\ debug_q' = debug_q /\ Stepping' = Stepping
  <2>1. illegal_insn_q' = out.illegal /\ out.illegal \in BOOLEAN
    BY DEF Executing, EdgeSpec, Outputs
  <2> QED BY <2>1, <1>0 DEF Executing, IssueSpec
<1>4. ~Trapping' /\ (Leaving' <=> kind = "dret")
  BY <1>2, <1>3 DEF Leaving, Trapping
<1>5. SavedInv' /\ RetireSpec /\ ex'.kind # "branch"
  BY <1>0, <1>4 DEF IssueSpec
<1>6. hart.debug = debug_mode_q /\ kind = Program[hart.pc].kind
  BY DEF Executing, ValidSpec
<1>7. kind \in {"fencei", "wfi"} => hart.pc' = Following(hart.pc)
  <2>1. ASSUME NEW k \in Loops, Turns(k), kind \in {"fencei", "wfi"} PROVE FALSE
    <3>1. Ends(k) /\ Active(k)
      BY <2>1 DEF Turns, Ends, Active, FlowType, LoopType, Counts
    <3>2. BodySpec(k)
      BY <1>0, <3>1 DEF LegalSpec
    <3> QED BY <1>6, <2>1, <3>2 DEF BodySpec
  <2> QED BY <1>5, <2>1 DEF RetireSpec, GoesOn, Straight
<1>8. kind = "fencei" => Following(hart.pc) = Plus(hart.pc, 2)
  BY <1>6, SoftwareAssumption DEF Following, FlowType, HartType
<1>9. IsStatusCsr => IF \E k \in Loops : IsLast(k, pc_id)' /\ hwlp_counter_q'[k] # 0
                     THEN hart.pc' = hwlp_targ_addr(pc_id)' ELSE pc_q' = hart.pc'
  <2> SUFFICES ASSUME IsStatusCsr
               PROVE  IF \E k \in Loops : IsLast(k, pc_id)' /\ hwlp_counter_q'[k] # 0
                      THEN hart.pc' = hwlp_targ_addr(pc_id)' ELSE pc_q' = hart.pc'
    OBVIOUS
  <2>1. \A k \in Loops : ~Writes(k)
    BY <1>6 DEF Writes, IsStatusCsr
  <2>2. /\ \A k \in Loops : hwlp_start_q'[k] = hwlp_start_q[k] /\ hwlp_end_q'[k] = hwlp_end_q[k]
        /\ \A k \in Loops : hwlp_counter_q'[k] = IF Ends(k) THEN hwlp_counter_q[k] - 1 ELSE hwlp_counter_q[k]
    BY <1>5, <2>1 DEF RetireSpec, Counted
  <2>3. \A k \in Loops : IsLast(k, pc_id)' <=> IsLast(k, hart.pc)
    BY <1>2, <2>2 DEF IsLast
  <2>4. hwlp_targ_addr(pc_id)' = hwlp_targ_addr(hart.pc)
    BY <1>2, <2>2 DEF hwlp_targ_addr, Within, Loops
  <2>5. GoesOn
    BY <1>5 DEF RetireSpec, Straight, IsStatusCsr
  <2>6. \A k \in Loops : IsLast(k, hart.pc) => Active(k)
    BY <1>6 DEF LoopsAreLegal, IsStatusCsr
  <2>7. \A k \in Loops : hwlp_counter_q[k] \in Nat
    BY DEF FlowType, LoopType, Counts
  <2>8. CASE \E k \in Loops : Turns(k)
    <3>1. PICK k \in Loops : Turns(k)
      BY <2>8
    <3>2. Ends(k) /\ hwlp_counter_q[k] > 1 /\ IsLast(k, hart.pc)
      BY <2>7, <3>1 DEF Turns, Ends, Active
    <3>3. hwlp_targ_addr(hart.pc) = hwlp_start_q[k]
      BY <1>0, <3>2 DEF LegalSpec
    <3>4. IsLast(k, pc_id)' /\ hwlp_counter_q'[k] # 0
      BY <2>2, <2>3, <2>7, <3>2
    <3> QED BY <2>4, <2>5, <3>1, <3>3, <3>4 DEF GoesOn
  <2>9. CASE \A k \in Loops : ~Turns(k)
    <3>1. \A k \in Loops : IsLast(k, hart.pc) => Ends(k) /\ hwlp_counter_q[k] = 1
      BY <2>6, <2>7, <2>9 DEF Turns, Ends, Active
    <3>2. ~ \E k \in Loops : IsLast(k, pc_id)' /\ hwlp_counter_q'[k] # 0
      BY <2>2, <2>3, <3>1
    <3> QED BY <1>2, <2>5, <2>9, <3>2 DEF GoesOn
  <2> QED BY <2>8, <2>9
<1>10. AtFlush'
  <2>1. kind = "mret" => hart'.pc = (IF debug_mode_q THEN DM_EXCEPTION ELSE hart.mepc) /\ hart'.mepc = hart.mepc
    BY <1>5, <1>6 DEF RetireSpec
  <2>2. kind = "dret" => hart'.pc = hart'.depc
    BY <1>5 DEF RetireSpec
  <2>3. IsStatusCsr' = IsStatusCsr
    BY <1>2 DEF IsStatusCsr
  <2>4. kind = "wfi" => pc_q' = hart'.pc
    BY <1>2, <1>7
  <2>5. kind = "fencei" => hart'.pc = Plus(pc_id', 2)
    BY <1>2, <1>7, <1>8
  <2>6. IsStatusCsr' => IF \E k \in Loops : IsLast(k, pc_id)' /\ hwlp_counter_q'[k] # 0
                        THEN hart.pc' = hwlp_targ_addr(pc_id)' ELSE pc_q' = hart.pc'
    BY <1>9, <2>3
  <2> QED BY <1>2, <1>3, <2>1, <2>2, <2>4, <2>5, <2>6 DEF AtFlush
<1>11. PcInv' /\ BranchInv' /\ UpdateInv'
  BY <1>2, <1>3, <1>4, <1>5, <1>10 DEF PcInv, BranchInv, UpdateInv
<1>12. StepInv'
  <2>1. Stepping' => since_dret' = 1
    <3>1. Stepping => since_dret = 0 /\ kind # "dret"
      BY DEF Executing, ValidSpec
    <3> QED BY <1>3, <1>5, <3>1 DEF RetireSpec
  <2>2. Leaving' => since_dret' = 0
    BY <1>4, <1>5 DEF RetireSpec
  <2> QED BY <1>3, <1>4, <2>1, <2>2 DEF StepInv
<1> QED BY <1>0, <1>5, <1>11, <1>12 DEF HartInv, IssueSpec

\* The fetch goes where the instruction leads, a branch apart.
LeadsOn(out) ==
    /\ kind \in {"jal", "jalr"} => Leads(out) = Program[hart.pc].to
    /\ kind = "branch" => Leads(out) = Following(hart.pc)
    /\ Straight => /\ \A k \in Loops : Turns(k) => Leads(out) = hwlp_start_q[k]
                   /\ (\A k \in Loops : ~Turns(k)) => Leads(out) = Following(hart.pc)

\* Then pc_q or the branch in EX has the address of the hart.
LEMMA LeadsToHart ==
    ASSUME NEW out, LeadsOn(out), RetireSpec, kind \notin {"mret", "dret"}
    PROVE  hart'.pc = IF kind = "branch" /\ ex'.taken THEN Program[hart.pc].to ELSE Leads(out)
<1>1. CASE kind \in {"jal", "jalr"}
  BY <1>1 DEF LeadsOn, RetireSpec
<1>2. CASE kind = "branch"
  BY <1>2 DEF LeadsOn, RetireSpec
<1>3. CASE kind \notin {"jal", "jalr", "branch"}
  <2>1. Straight /\ GoesOn
    BY <1>3 DEF Straight, RetireSpec
  <2> QED BY <1>3, <2>1 DEF LeadsOn, GoesOn
<1> QED BY <1>1, <1>2, <1>3

\* It is the one that a step runs.
LEMMA Steps ==
    ASSUME Legally, NEW in \in Inputs, NEW out \in Outputs, Issued(in, out), Stepping, LeadsOn(out),
           out.halt_if, ~out.hwlp_end_4, ~hwlp_update_pc_q, kind # "mret",
           out.ns = IF kind = "branch" THEN "DBG_WAIT_BRANCH" ELSE "DBG_FLUSH"
    PROVE  HartInv'
<1> USE DEF Legally, FlowInv, Issued
<1>0. IssueSpec(in, out) /\ ~debug_mode_q /\ kind # "dret"
  BY Issue DEF Stepping, Retires, illegal_insn
<1>1. /\ (Waits(in, out) \/ Jumps(in, out)) /\ ~hwlp_jump(out)
  BY <1>0 DEF IssueSpec, HandsOver, hwlp_jump
<1>2. kind' = kind /\ pc_id' = pc_id /\ pc_q' = Leads(out) /\ ~hwlp_update_pc_q' /\ pc_id = hart.pc
  BY <1>1 DEF Waits, Jumps, Stays, Executing, ValidSpec, Leads
<1>3. /\ ctrl_fsm_cs' = out.ns /\ debug_mode_q' = debug_mode_q
      /\ debug_q' = debug_q /\ Stepping' /\ ~debug_req_entry_q'
  BY <1>0 DEF Executing, IssueSpec
<1>4. ~Called' /\ ~Leaving'
  BY <1>0, <1>2, <1>3 DEF Called, trigger_match, ebrk_force_debug_mode, Leaving, Executing, Retires
<1>5. SavedInv' /\ RetireSpec
  BY <1>0, <1>4 DEF IssueSpec
<1>6. hart'.pc = IF kind = "branch" /\ ex'.taken THEN Program[hart.pc].to ELSE Leads(out)
  BY <1>0, <1>5, LeadsToHart
<1>7. since_dret' = 1
  BY <1>0, <1>5 DEF RetireSpec, Executing, ValidSpec
<1>8. PcInv'
  BY <1>0, <1>2, <1>3, <1>4, <1>6 DEF PcInv, IssueSpec
<1>9. BranchInv' /\ UpdateInv' /\ StepInv'
  BY <1>0, <1>2, <1>3, <1>4, <1>7 DEF BranchInv, UpdateInv, StepInv, IssueSpec
<1> QED BY <1>0, <1>5, <1>8, <1>9 DEF HartInv, IssueSpec

\* The next one follows it in DECODE.
LEMMA GoesOnInDecode ==
    ASSUME Legally, NEW in \in Inputs, NEW out \in Outputs, Issued(in, out), ~Stepping, LeadsOn(out),
           ~out.hwlp_end_4, ~hwlp_update_pc_q, kind \notin {"mret", "dret"},
           out.ns = "DECODE"
    PROVE  HartInv'
<1> USE DEF Legally, FlowInv, Issued
<1>0. IssueSpec(in, out) /\ ~hwlp_jump(out)
  BY Issue DEF hwlp_jump
<1>1. /\ ctrl_fsm_cs' = "DECODE" /\ ~Stepping' /\ ~Leaving' /\ ~jump_done_q'
  BY <1>0 DEF Executing, IssueSpec, Leaving
<1>2. SavedInv' /\ RetireSpec
  BY <1>0, <1>1 DEF IssueSpec
<1>3. hart'.pc = IF kind = "branch" /\ ex'.taken THEN Program[hart.pc].to ELSE Leads(out)
  BY <1>2, LeadsToHart
<1>4. /\ branch_taken_ex' => ex'.to = hart'.pc
      /\ ~branch_taken_ex' => hart'.pc = Leads(out)
  BY <1>0, <1>3 DEF IssueSpec
<1>5. /\ ~hwlp_update_pc_q'
      /\ \/ ~instr_valid_id' /\ pc_q' = Leads(out)
         \/ instr_valid_id' /\ pc_id' = Leads(out) /\ pc_q' = Following(Leads(out))
  <2>1. CASE Jumps(in, out)
    BY <1>0, <2>1 DEF Jumps, Stays, Leads, IssueSpec
  <2>2. CASE Waits(in, out)
    BY <1>0, <2>2 DEF Waits, Stays, Leads, IssueSpec
  <2>3. CASE HandsOver(in, out)
    BY <1>0, <2>3 DEF HandsOver, Leads, IssueSpec
  <2> QED BY <1>0, <2>1, <2>2, <2>3 DEF IssueSpec
<1>6. AtDecode'
  BY <1>1, <1>4, <1>5 DEF AtDecode
<1>7. PcInv' /\ BranchInv' /\ UpdateInv' /\ StepInv'
  BY <1>1, <1>5, <1>6 DEF PcInv, BranchInv, UpdateInv, StepInv
<1> QED BY <1>0, <1>2, <1>7 DEF HartInv, IssueSpec

\* The next one is in the body of a loop as well.
LEMMA GoesOnInLoop ==
    ASSUME Legally, NEW in \in Inputs, NEW out \in Outputs, Issued(in, out), ~Stepping, LeadsOn(out),
           Straight, out.ns = "DECODE_HWLOOP", StaysInRound, NEW b \in Loops, Active(b), Within(b, hart.pc),
           out.hwlp_end_4 => ~out.pc_set /\ \E k \in Loops : Ahead(k),
           out.pc_set => \A k \in Loops : ~Ahead(k),
           ~out.pc_set =>
             /\ hwlp_update_pc_q \/ hwlp_jump(out) <=> \E k \in Loops : Ahead(k)
             /\ \A k \in Loops : Ahead(k) =>
                  (IF hwlp_jump(out) THEN out.hwlp_target ELSE hwlp_addr_q) = hwlp_start_q[k]
    PROVE  HartInv'
<1> USE DEF Legally, FlowInv, Issued
<1>0. IssueSpec(in, out)
  BY Issue
<1>1. /\ ctrl_fsm_cs' = "DECODE_HWLOOP" /\ ~Stepping' /\ ~Leaving' /\ ~jump_done_q'
      /\ hwlp_end_4_id_q' = out.hwlp_end_4 /\ in.id_ready
  BY <1>0 DEF Executing, IssueSpec, Leaving
<1>2. SavedInv' /\ RetireSpec /\ ex'.kind # "branch" /\ ~branch_taken_ex'
  BY <1>0, <1>1 DEF IssueSpec, Straight
<1>3. hart'.pc = Leads(out)
  BY <1>2, LeadsToHart DEF Straight
<1>4. RoundSpec
  BY <1>2, RoundStep DEF RetireSpec
<1>5. /\ \A k \in Loops : Turns(k)' <=> Ahead(k)
      /\ \A k \in Loops : Ahead(k) => hwlp_start_q'[k] = hwlp_start_q[k]
      /\ InRound'
      /\ (\E k \in Loops : Ahead(k)) => \A j \in Loops : ~Ahead(j)'
  BY <1>4 DEF RoundSpec, Ahead
<1>6. AtLoop'
  <2>1. CASE Jumps(in, out)
    <3>1. ~instr_valid_id' /\ pc_q' = Leads(out) /\ ~hwlp_update_pc_q' /\ \A k \in Loops : ~Ahead(k)
      BY <1>1, <2>1 DEF Jumps, Stays, Leads
    <3> QED BY <1>1, <1>3, <1>5, <3>1 DEF AtLoop
  <2>2. CASE Waits(in, out)
    <3>1. ~instr_valid_id' /\ pc_q' = Leads(out) /\ ~out.pc_set
          /\ hwlp_update_pc_q' = (hwlp_update_pc_q \/ hwlp_jump(out))
          /\ hwlp_addr_q' = IF hwlp_jump(out) THEN out.hwlp_target ELSE hwlp_addr_q
      BY <1>1, <2>2 DEF Waits, Stays, Leads
    <3>2. /\ hwlp_update_pc_q' <=> \E k \in Loops : Turns(k)'
          /\ \A k \in Loops : Turns(k)' => hwlp_addr_q' = hwlp_start_q'[k]
      BY <1>5, <3>1
    <3> QED BY <1>1, <1>3, <1>5, <3>1, <3>2 DEF AtLoop
  <2>3. CASE HandsOver(in, out)
    <3>1. /\ instr_valid_id' /\ pc_id' = Leads(out) /\ ~out.pc_set /\ ~hwlp_update_pc_q'
          /\ hwlp_jump(out) => pc_q' = out.hwlp_target
          /\ ~hwlp_jump(out) /\ hwlp_update_pc_q => pc_q' = hwlp_addr_q
          /\ ~hwlp_jump(out) /\ ~hwlp_update_pc_q => pc_q' = Following(Leads(out))
      BY <2>3 DEF HandsOver, Leads
    <3>2. /\ \A k \in Loops : Turns(k)' => pc_q' = hwlp_start_q'[k]
          /\ (\A k \in Loops : ~Turns(k)') => pc_q' = Following(pc_id')
      BY <1>5, <3>1
    <3>3. ~(hwlp_end_4_id_q' /\ \E k \in Loops : Ahead(k)')
      BY <1>1, <1>5
    <3> QED BY <1>1, <1>3, <1>5, <3>1, <3>2, <3>3 DEF AtLoop
  <2> QED BY <1>0, <2>1, <2>2, <2>3 DEF IssueSpec
<1>7. PcInv' /\ BranchInv' /\ UpdateInv' /\ StepInv'
  BY <1>1, <1>2, <1>6 DEF PcInv, BranchInv, UpdateInv, StepInv
<1> QED BY <1>0, <1>2, <1>7 DEF HartInv, IssueSpec

-----------------------------------------------------------------------------
(* DECODE and DECODE_HWLOOP without an instruction that is executed *)

\* The branch in EX is taken: the instruction in ID is not the next one.
LEMMA BranchKeepsHart ==
    ASSUME FlowInv, HartInv, NEW in \in Inputs, NEW out \in Outputs, Edge(in, out),
           ctrl_fsm_cs = "DECODE", branch_taken_ex, out = JumpTo(Idle, ex.to)
    PROVE  HartInv'
<1> USE DEF FlowInv
<1>1. /\ out.ns = "DECODE" /\ out.pc_set = TRUE /\ out.target = ex.to /\ out.debug_mode = debug_mode_q
      /\ out.save = "none" /\ out.event = "none" /\ Silent(out)
  BY DEF JumpTo, Idle, Silent
<1>2. SilentSpec(in, out)
  BY <1>1, SilentEdge
<1>3. /\ ctrl_fsm_cs' = "DECODE" /\ debug_mode_q' = debug_mode_q /\ debug_q' = debug_q
      /\ ~instr_valid_id' /\ ~branch_taken_ex' /\ pc_q' = hart.pc /\ ~hwlp_update_pc_q'
      /\ ex'.kind = "none"
  <2>1. ex.kind # "dcsr" /\ ex.to = hart.pc
    BY DEF branch_taken_ex, HartInv, PcInv, AtDecode
  <2> QED BY <1>1, <1>2, <2>1 DEF SilentSpec, EdgeSpec
<1>4. ~Leaving' /\ ~Leaving /\ Stepping' = Stepping
  BY <1>3 DEF Leaving, Stepping
<1>5. SavedInv' /\ hart' = hart /\ since_dret' = since_dret
  <2>1. hart.debug = (debug_mode_q' /\ ~Leaving')
    BY <1>3, <1>4 DEF HartInv, SavedInv
  <2> QED BY <1>1, <1>2, <1>3, <2>1, HartStays DEF SilentSpec
<1>6. PcInv' /\ StepInv' /\ BranchInv' /\ UpdateInv'
  BY <1>3, <1>4, <1>5 DEF PcInv, AtDecode, StepInv, BranchInv, UpdateInv, HartInv
<1> QED BY <1>2, <1>5, <1>6 DEF HartInv, SilentSpec

\* There is none: the next one may come in.
LEMMA EmptyKeepsHart ==
    ASSUME FlowInv, HartInv, NEW in \in Inputs, NEW out \in Outputs, Edge(in, out),
           ctrl_fsm_cs \in {"DECODE", "DECODE_HWLOOP"}, ~branch_taken_ex, ~instr_valid_id, out = Idle
    PROVE  HartInv'
<1> USE DEF FlowInv
<1>1. /\ out.ns = ctrl_fsm_cs /\ out.pc_set = FALSE /\ out.debug_mode = debug_mode_q /\ out.dec = {}
      /\ out.save = "none" /\ out.event = "none" /\ out.decoding = FALSE /\ out.hwlp_end_4 = FALSE
      /\ out.jump_done = jump_done_q
  BY DEF Idle
<1>2. /\ AlignerInv' /\ InstrInv'
      /\ Waits(in, out) \/ HandsOver(in, out)
  <2>1. ~hwlp_jump(out) /\ AlignerInv /\ InstrInv
    BY <1>1 DEF hwlp_jump, HartInv
  <2> QED BY <1>1, <2>1, EdgeFetch DEF Jumps
<1>3. EdgeSpec(in, out) /\ SavesSpec(in, out) /\ LoopsStay /\ ~Issues(in, out)
  BY <1>1, EdgeFlags, EdgeSaves, EdgeKeepsLoops DEF Issues
<1>4. /\ ctrl_fsm_cs' = ctrl_fsm_cs /\ debug_mode_q' = debug_mode_q /\ debug_q' = debug_q
      /\ ex'.kind = "none" /\ ~branch_taken_ex' /\ hwlp_end_4_id_q' = FALSE
      /\ in.id_ready => ~jump_done_q'
  <2>1. ex.kind # "dcsr" /\ ex' = NoOp
    BY <1>3 DEF ExInv, EdgeSpec
  <2> QED BY <1>1, <1>3, <2>1 DEF EdgeSpec, NoOp, branch_taken_ex
<1>5. ~Leaving' /\ ~Leaving /\ Stepping' = Stepping
  BY <1>4 DEF Leaving, Stepping
<1>6. SavedInv' /\ hart' = hart /\ since_dret' = since_dret
  <2>1. hart.debug = (debug_mode_q' /\ ~Leaving')
    BY <1>4, <1>5 DEF HartInv, SavedInv
  <2> QED BY <1>1, <1>3, <1>4, <2>1, HartStays
<1>7. /\ ~hwlp_jump(out)
      /\ \/ /\ ~instr_valid_id' /\ pc_q' = pc_q
            /\ hwlp_update_pc_q' = hwlp_update_pc_q /\ hwlp_addr_q' = hwlp_addr_q
         \/ /\ instr_valid_id' /\ pc_id' = pc_q /\ ~hwlp_update_pc_q' /\ ~jump_done_q'
            /\ hwlp_update_pc_q => pc_q' = hwlp_addr_q
            /\ ~hwlp_update_pc_q => pc_q' = Following(pc_q)
  <2>1. ~hwlp_jump(out) /\ hwlp_update_pc_q \in BOOLEAN
    BY <1>1 DEF hwlp_jump, FlowType, FetchType
  <2>2. CASE Waits(in, out)
    BY <2>1, <2>2 DEF Waits, Stays
  <2>3. CASE HandsOver(in, out)
    BY <1>4, <2>1, <2>3 DEF HandsOver
  <2> QED BY <1>2, <2>1, <2>2, <2>3
<1>8. ctrl_fsm_cs = "DECODE" => AtDecode' /\ UpdateInv'
  BY <1>4, <1>6, <1>7 DEF AtDecode, HartInv, PcInv, UpdateInv
<1>9. ctrl_fsm_cs = "DECODE_HWLOOP" => AtLoop' /\ UpdateInv'
  <2> SUFFICES ASSUME ctrl_fsm_cs = "DECODE_HWLOOP" PROVE AtLoop' /\ UpdateInv'
    OBVIOUS
  <2>1. AtLoop
    BY DEF HartInv, PcInv
  <2>2. InRound' /\ \A k \in Loops : (Turns(k)' <=> Turns(k)) /\ (Ahead(k)' <=> Ahead(k))
                                     /\ hwlp_start_q'[k] = hwlp_start_q[k]
    BY <1>3, <1>6, <2>1 DEF AtLoop, InRound, Within, IsLast, IsLastButOne, Turns, Ahead, Active, LoopsStay
  <2> QED BY <1>4, <1>5, <1>6, <1>7, <2>1, <2>2 DEF AtLoop, UpdateInv
<1>10. PcInv' /\ BranchInv' /\ UpdateInv' /\ StepInv'
  BY <1>4, <1>5, <1>6, <1>8, <1>9 DEF PcInv, BranchInv, StepInv, HartInv
<1> QED BY <1>2, <1>6, <1>10 DEF HartInv

\* The debugger stops the core before the instruction.
LEMMA CalledKeepsHart ==
    ASSUME FlowInv, HartInv, NEW in \in Inputs, NEW out \in Outputs, Edge(in, out), ValidSpec,
           ~debug_mode_q, out = [Halted EXCEPT !.ns = "DBG_FLUSH", !.entry = TRUE, !.illegal = Decoding.illegal]
    PROVE  HartInv'
<1> USE DEF FlowInv
<1>1. /\ out.ns = "DBG_FLUSH" /\ out.pc_set = FALSE /\ out.debug_mode = debug_mode_q /\ out.entry = TRUE
      /\ out.save = "none" /\ out.event = "none" /\ Silent(out)
  BY DEF Halted, Idle, Silent
<1>2. SilentSpec(in, out)
  BY <1>1, SilentEdge DEF ValidSpec
<1>3. /\ ctrl_fsm_cs' = "DBG_FLUSH" /\ ~debug_mode_q' /\ debug_req_entry_q' /\ pc_id' = pc_id
      /\ ~branch_taken_ex' /\ ex'.kind = "none"
  BY <1>1, <1>2 DEF SilentSpec, EdgeSpec
<1>4. ~Leaving' /\ Called'
  BY <1>3 DEF Leaving, Called
<1>5. SavedInv' /\ hart' = hart /\ since_dret' = since_dret
  <2>1. hart.debug = (debug_mode_q' /\ ~Leaving')
    BY <1>3 DEF ValidSpec, FlowType, ControllerType
  <2> QED BY <1>1, <1>2, <1>3, <2>1, HartStays DEF SilentSpec
<1>6. PcInv' /\ StepInv' /\ BranchInv' /\ UpdateInv'
  BY <1>3, <1>4, <1>5 DEF PcInv, StepInv, BranchInv, UpdateInv, ValidSpec, Stepping
<1> QED BY <1>2, <1>5, <1>6 DEF HartInv, SilentSpec

\* An interrupt is taken before it.
LEMMA IrqKeepsHart ==
    ASSUME FlowInv, HartInv, NEW in \in Inputs, NEW out \in Outputs, Edge(in, out), ValidSpec,
           ~debug_mode_q, out = [TakenIrq("id") EXCEPT !.illegal = Decoding.illegal]
    PROVE  HartInv'
<1> USE DEF FlowInv
<1>1. /\ out.ns = "DECODE" /\ out.pc_set = TRUE /\ out.target = IRQ_VECTOR /\ out.debug_mode = debug_mode_q
      /\ out.save = "id" /\ out.debug_save = FALSE /\ out.event = "interrupt" /\ Silent(out)
      /\ out.halt_id = TRUE
  BY DEF TakenIrq, JumpTo, Halted, Idle, Silent
<1>2. SilentSpec(in, out)
  BY <1>1, SilentEdge DEF ValidSpec
<1>3. /\ ctrl_fsm_cs' = "DECODE" /\ ~debug_mode_q' /\ ~instr_valid_id' /\ pc_q' = IRQ_VECTOR
      /\ ~hwlp_update_pc_q' /\ ~branch_taken_ex' /\ ex'.kind = "none" /\ debug_q' = debug_q
  BY <1>1, <1>2 DEF SilentSpec, EdgeSpec, ValidSpec
<1>4. /\ hart' = [hart EXCEPT !.pc = IRQ_VECTOR, !.mepc = hart.pc] /\ since_dret' = since_dret
      /\ mepc_q' = hart.pc /\ depc_q' = depc_q /\ hwlp_counter_q' = hwlp_counter_q
  BY <1>1, <1>2 DEF SilentSpec, SavesSpec, Interrupt, exception_pc, LoopsStay, ValidSpec
<1>5. /\ hart'.pc = IRQ_VECTOR /\ hart'.mepc = hart.pc /\ hart'.lpcount = hart.lpcount
      /\ hart'.depc = hart.depc /\ hart'.debug = hart.debug
  BY <1>4 DEF FlowType, HartType
<1>6. SavedInv'
  <2>1. ~Leaving' /\ hart.debug = FALSE
    BY <1>3 DEF Leaving, ValidSpec, FlowType, ControllerType
  <2> QED BY <1>3, <1>4, <1>5, <2>1 DEF ValidSpec, SavedInv, LoopsAreCounted
<1>7. PcInv' /\ StepInv' /\ BranchInv' /\ UpdateInv'
  BY <1>3, <1>4, <1>5 DEF PcInv, AtDecode, StepInv, BranchInv, UpdateInv, Stepping, Leaving, ValidSpec
<1> QED BY <1>2, <1>6, <1>7 DEF HartInv, SilentSpec

-----------------------------------------------------------------------------
(* An instruction is executed, or waits for it: one lemma for each kind *)

\* What single-stepping changes of the outputs.
WrapSpec(in, out, exec) ==
    /\ out.pc_set = exec.pc_set /\ out.target = exec.target /\ out.halt_id = exec.halt_id
    /\ out.decoding = exec.decoding /\ out.jump_done = exec.jump_done /\ out.dec = exec.dec
    /\ out.hwlp_end_4 = exec.hwlp_end_4 /\ out.hwlp_target = exec.hwlp_target
    /\ out.save = exec.save /\ out.event = exec.event /\ out.debug_mode = exec.debug_mode
    /\ out.illegal = exec.illegal /\ out.entry = exec.entry
    /\ ~Stepping => out.ns = exec.ns /\ out.halt_if = exec.halt_if
    /\ Stepping => /\ out.halt_if = TRUE
                   /\ ~in.id_ready => out.ns = exec.ns
                   /\ in.id_ready /\ illegal_insn => out.ns = "FLUSH_EX"
                   /\ in.id_ready /\ kind \in {"ecall", "mret"} => out.ns = "FLUSH_EX"
                   /\ in.id_ready /\ kind = "ebreak" /\ ~ebrk_force_debug_mode => out.ns = "FLUSH_EX"
                   /\ in.id_ready /\ ~illegal_insn /\ kind = "branch" => out.ns = "DBG_WAIT_BRANCH"
                   /\ in.id_ready /\ ~illegal_insn /\ kind \notin {"ecall", "mret", "ebreak", "branch"}
                        => out.ns = "DBG_FLUSH"
                   /\ in.id_ready /\ ~illegal_insn /\ kind = "ebreak" /\ ebrk_force_debug_mode
                        => out.ns = "DBG_FLUSH"

\* Single-stepping changes no more than that.
LEMMA Wrap ==
    ASSUME NEW in, NEW out, NEW exec \in Outputs,
           out = IF Stepping THEN Step(exec, in.id_ready) ELSE exec
    PROVE  WrapSpec(in, out, exec)
<1>1. CASE ~Stepping
  <2>1. out = exec
    BY <1>1
  <2> QED BY <1>1, <2>1 DEF WrapSpec
<1>2. CASE Stepping
  <2>1. out = Step(exec, in.id_ready)
    BY <1>2
  <2> DEFINE ns == CASE ~in.id_ready -> exec.ns
                     [] in.id_ready /\ (illegal_insn \/ kind \in {"ecall", "mret"}
                                        \/ (kind = "ebreak" /\ ~ebrk_force_debug_mode)) -> "FLUSH_EX"
                     [] in.id_ready /\ ~illegal_insn /\ kind = "branch" -> "DBG_WAIT_BRANCH"
                     [] OTHER -> "DBG_FLUSH"
  <2>2. /\ out.halt_if = TRUE /\ out.ns = ns
        /\ out.pc_set = exec.pc_set /\ out.target = exec.target /\ out.halt_id = exec.halt_id
        /\ out.decoding = exec.decoding /\ out.jump_done = exec.jump_done /\ out.dec = exec.dec
        /\ out.hwlp_end_4 = exec.hwlp_end_4 /\ out.hwlp_target = exec.hwlp_target
        /\ out.save = exec.save /\ out.event = exec.event /\ out.debug_mode = exec.debug_mode
        /\ out.illegal = exec.illegal /\ out.entry = exec.entry
    <3> HIDE DEF ns
    <3>1. out = [exec EXCEPT !.halt_if = TRUE, !.ns = ns]
      BY <2>1 DEF Step, ns
    <3> QED BY <3>1 DEF Outputs
  <2>3. /\ ~in.id_ready => ns = exec.ns
        /\ in.id_ready /\ illegal_insn => ns = "FLUSH_EX"
        /\ in.id_ready /\ kind \in {"ecall", "mret"} => ns = "FLUSH_EX"
        /\ in.id_ready /\ kind = "ebreak" /\ ~ebrk_force_debug_mode => ns = "FLUSH_EX"
    OBVIOUS
  <2>4. /\ in.id_ready /\ ~illegal_insn /\ kind = "branch" => ns = "DBG_WAIT_BRANCH"
        /\ in.id_ready /\ ~illegal_insn /\ kind \notin {"ecall", "mret", "ebreak", "branch"} => ns = "DBG_FLUSH"
        /\ in.id_ready /\ ~illegal_insn /\ kind = "ebreak" /\ ebrk_force_debug_mode => ns = "DBG_FLUSH"
    OBVIOUS
  <2> HIDE DEF ns
  <2> QED BY <1>2, <2>2, <2>3, <2>4 DEF WrapSpec
<1> QED BY <1>1, <1>2

\* The controller decodes the instruction in ID and chooses exec.
Chosen(in, out, exec) ==
    /\ exec \in Outputs /\ out \in Outputs /\ Edge(in, out) /\ ValidSpec /\ (trigger_match => debug_mode_q)
    /\ out = IF Stepping THEN Step(exec, in.id_ready) ELSE exec

\* What all of these outputs have in common.
CommonSpec(exec) ==
    /\ exec.decoding = TRUE /\ exec.debug_mode = debug_mode_q /\ exec.save = "none" /\ exec.event = "none"
    /\ exec.entry = debug_req_entry_q
    /\ ~illegal_insn => exec.halt_id = FALSE /\ exec.illegal = FALSE
    /\ hwlp_jump(exec) => /\ ~exec.pc_set /\ ctrl_fsm_cs = "DECODE_HWLOOP"
                          /\ \E k \in Loops : Ahead(k) /\ exec.hwlp_target = hwlp_start_q[k]

\* If the instruction issues, the hart retires it.
LEMMA Executes ==
    ASSUME Legally, NEW in \in Inputs, NEW out, NEW exec, Chosen(in, out, exec), CommonSpec(exec)
    PROVE  Executing(in, out) /\ WrapSpec(in, out, exec) /\ out \in Outputs
<1> USE DEF Legally, FlowInv
<1>1. WrapSpec(in, out, exec)
  BY Wrap DEF Chosen
<1>2. EdgeSpec(in, out) /\ SavesSpec(in, out) /\ out \in Outputs
  BY EdgeFlags, EdgeSaves DEF Chosen
<1>3. /\ debug_mode_q' = debug_mode_q /\ debug_q' = debug_q /\ ~debug_req_entry_q'
      /\ out.decoding /\ out.save = "none" /\ out.event = "none"
  BY <1>1, <1>2 DEF WrapSpec, CommonSpec, EdgeSpec, Chosen, ValidSpec
<1>4. hwlp_jump(out) => /\ ~out.pc_set /\ ctrl_fsm_cs = "DECODE_HWLOOP"
                        /\ \E k \in Loops : Ahead(k) /\ out.hwlp_target = hwlp_start_q[k]
  BY <1>1 DEF WrapSpec, CommonSpec, hwlp_jump
<1>5. Stepping' = Stepping
  BY <1>3 DEF Stepping
<1> QED BY <1>1, <1>2, <1>3, <1>4, <1>5 DEF Executing, Chosen

\* It waits, and the controller with it.
LEMMA Waiting ==
    ASSUME Legally, NEW in \in Inputs, NEW out \in Outputs, Executing(in, out), out.ns = ctrl_fsm_cs,
           ~in.id_ready, ~out.halt_id, ~out.pc_set, out.jump_done = jump_done_q, ~out.hwlp_end_4,
           ~hwlp_update_pc_q
    PROVE  HartInv'
<1>1. ~hwlp_jump(out) /\ Leads(out) = pc_q /\ ValidSpec
  BY DEF hwlp_jump, Leads, Executing
<1>2. CASE ctrl_fsm_cs = "DECODE"
  BY <1>1, <1>2, StallInDecode DEF ValidSpec
<1>3. CASE ctrl_fsm_cs = "DECODE_HWLOOP"
  <2>1. AtLoop /\ instr_valid_id
    BY <1>1, <1>3 DEF ValidSpec
  <2> QED BY <1>1, <1>3, <2>1, StallInLoop DEF AtLoop
<1> QED BY <1>1, <1>2, <1>3 DEF ValidSpec

\* The prefetcher has not been told of a loop while anything but a plain instruction is in ID.
LEMMA NotTold ==
    ASSUME ValidSpec, illegal_insn \/ kind \notin {"plain", "hwloop"}
    PROVE  ~hwlp_update_pc_q
BY DEF ValidSpec, AtLoop

\* Traps: an illegal instruction, an ecall or an ebreak.
TrapOut(exec, id_ready) ==
    /\ exec.pc_set = FALSE /\ exec.dec = {} /\ exec.hwlp_end_4 = FALSE /\ exec.halt_if = TRUE
    /\ exec.jump_done = jump_done_q
    /\ \/ exec.ns = "FLUSH_EX" /\ (exec.illegal \/ ~illegal_insn) /\ (illegal_insn \/ id_ready)
          /\ (~illegal_insn /\ kind = "ebreak" => ~debug_mode_q /\ ~ebrk_force_debug_mode)
       \/ exec.ns = "DBG_FLUSH" /\ ~illegal_insn /\ kind = "ebreak" /\ (debug_mode_q \/ ebrk_force_debug_mode)
       \/ exec.ns = ctrl_fsm_cs /\ ~id_ready /\ exec.halt_id = FALSE

\* The controller does that.
LEMMA TrapsAreOut ==
    ASSUME NEW id_ready \in BOOLEAN, debug_mode_q \in BOOLEAN, illegal_insn_q \in BOOLEAN, NEW exec,
           \/ illegal_insn /\ exec = Illegal(id_ready)
           \/ ~illegal_insn /\ kind = "ebreak" /\ exec = Ebreak(id_ready)
           \/ ~illegal_insn /\ kind = "ecall" /\ exec = FlushAfter(id_ready),
           ctrl_fsm_cs = "DECODE_HWLOOP" => illegal_insn_q = FALSE
    PROVE  TrapOut(exec, id_ready) /\ CommonSpec(exec)
<1>1. CASE illegal_insn /\ exec = Illegal(id_ready)
  <2>1. CASE InLoopState
    <3>1. exec = [Decoding EXCEPT !.halt_if = TRUE, !.halt_id = TRUE, !.ns = "FLUSH_EX", !.illegal = TRUE]
      BY <1>1, <2>1 DEF Illegal
    <3> QED BY <1>1, <3>1 DEF Decoding, Idle, TrapOut, CommonSpec, hwlp_jump
  <2>2. CASE ~InLoopState
    <3>1. exec = [Decoding EXCEPT !.halt_if = TRUE, !.ns = IF id_ready THEN "FLUSH_EX" ELSE ctrl_fsm_cs,
                                  !.illegal = TRUE]
      BY <1>1, <2>2 DEF Illegal, FlushAfter, Decoding, Idle
    <3> QED BY <1>1, <3>1 DEF Decoding, Idle, TrapOut, CommonSpec, hwlp_jump
  <2> QED BY <2>1, <2>2
<1>2. CASE ~illegal_insn /\ kind \in {"ebreak", "ecall"}
           /\ exec = [Decoding EXCEPT !.halt_if = TRUE, !.ns = IF id_ready THEN "FLUSH_EX" ELSE ctrl_fsm_cs]
           /\ (kind = "ebreak" => ~debug_mode_q /\ ~ebrk_force_debug_mode)
  BY <1>2 DEF Decoding, Idle, TrapOut, CommonSpec, hwlp_jump, InLoopState
<1>3. CASE ~illegal_insn /\ kind = "ebreak" /\ (debug_mode_q \/ ebrk_force_debug_mode)
           /\ exec = [Decoding EXCEPT !.halt_if = TRUE, !.ns = "DBG_FLUSH"]
  BY <1>3 DEF Decoding, Idle, TrapOut, CommonSpec, hwlp_jump, InLoopState
<1> QED BY <1>1, <1>2, <1>3 DEF Ebreak, FlushAfter

\* A trap keeps HartInv.
LEMMA TrapKeepsHart ==
    ASSUME Legally, NEW in \in Inputs, NEW out, NEW exec, Chosen(in, out, exec),
           illegal_insn \/ kind \in {"ecall", "ebreak"}, TrapOut(exec, in.id_ready), CommonSpec(exec)
    PROVE  HartInv'
<1>1. Executing(in, out) /\ WrapSpec(in, out, exec) /\ out \in Outputs /\ ~hwlp_update_pc_q
  BY Executes, NotTold DEF Chosen
<1>2. /\ out.pc_set = FALSE /\ out.dec = {} /\ out.hwlp_end_4 = FALSE /\ out.halt_if = TRUE
      /\ out.jump_done = jump_done_q /\ out.illegal = exec.illegal /\ out.halt_id = exec.halt_id
  BY <1>1 DEF WrapSpec, TrapOut
<1>3. ~Retires(in, out)
  BY DEF Retires
<1>4. CASE exec.ns = ctrl_fsm_cs /\ ~in.id_ready /\ exec.halt_id = FALSE
  <2>1. out.ns = ctrl_fsm_cs
    BY <1>1, <1>4 DEF WrapSpec
  <2> QED BY <1>1, <1>2, <1>4, <2>1, Waiting
<1>5. CASE /\ exec.ns = "FLUSH_EX" /\ (exec.illegal \/ ~illegal_insn) /\ (illegal_insn \/ in.id_ready)
           /\ (~illegal_insn /\ kind = "ebreak" => ~debug_mode_q /\ ~ebrk_force_debug_mode)
  <2>1. out.ns = "FLUSH_EX"
    BY <1>1, <1>5 DEF WrapSpec
  <2> QED BY <1>1, <1>2, <1>3, <1>5, <2>1, Traps
<1>6. CASE exec.ns = "DBG_FLUSH" /\ ~illegal_insn /\ kind = "ebreak" /\ (debug_mode_q \/ ebrk_force_debug_mode)
  <2>1. out.ns = "DBG_FLUSH"
    BY <1>1, <1>6 DEF WrapSpec, Stepping
  <2> QED BY <1>1, <1>2, <1>3, <1>6, <2>1, Traps
<1> QED BY <1>4, <1>5, <1>6 DEF TrapOut

\* No loop ends with an instruction that cannot stand in a body.
LEMMA EndsNone ==
    ASSUME Legally, ValidSpec, kind \in {"jal", "jalr", "branch", "fencei", "mret", "dret", "wfi"}
    PROVE  /\ \A k \in Loops : ~Ends(k) /\ ~Turns(k)
           /\ {k \in Loops : Ends(k)} = {}
           /\ \A k \in Loops : ~(Active(k) /\ Within(k, hart.pc))
<1> USE DEF Legally, FlowInv
<1>1. LegalSpec /\ kind = Program[hart.pc].kind
  BY Legal DEF LegalFact, ValidSpec
<1>2. ASSUME NEW k \in Loops PROVE ~Ends(k) /\ ~(Active(k) /\ Within(k, hart.pc))
  BY <1>1 DEF LegalSpec, BodySpec, Ends
<1>3. \A k \in Loops : Turns(k) => Ends(k)
  BY DEF FlowType, LoopType, Counts, Turns, Ends, Active
<1> QED BY <1>2, <1>3

\* jal and jalr in DECODE.
JumpOut(exec, jr_stall) ==
    /\ exec.ns = "DECODE" /\ exec.halt_if = FALSE /\ exec.dec = {} /\ exec.hwlp_end_4 = FALSE
    /\ exec.pc_set = (~jr_stall /\ ~jump_done_q)
    /\ exec.pc_set => exec.target = Program[instr_id.lo].to
    /\ exec.jump_done = (jump_done_q \/ ~jr_stall)

\* The controller does that.
LEMMA JumpsAreOut ==
    ASSUME NEW jr_stall \in BOOLEAN, jump_done_q \in BOOLEAN, NEW exec, ~illegal_insn,
           ctrl_fsm_cs = "DECODE", exec = Jump(jr_stall)
    PROVE  JumpOut(exec, jr_stall) /\ CommonSpec(exec)
<1>1. CASE jr_stall \/ jump_done_q
  <2>1. exec = Decoding
    BY <1>1 DEF Jump
  <2>2. /\ exec.ns = "DECODE" /\ exec.halt_if = FALSE /\ exec.halt_id = FALSE /\ exec.dec = {}
        /\ exec.hwlp_end_4 = FALSE /\ exec.pc_set = FALSE /\ exec.jump_done = jump_done_q
        /\ exec.decoding = TRUE /\ exec.debug_mode = debug_mode_q /\ exec.save = "none"
        /\ exec.event = "none" /\ exec.entry = debug_req_entry_q /\ exec.illegal = FALSE
    BY <2>1 DEF Decoding, Idle, InLoopState
  <2> QED BY <1>1, <2>2 DEF JumpOut, CommonSpec, hwlp_jump
<1>2. CASE ~(jr_stall \/ jump_done_q)
  <2>1. exec = [JumpTo(Decoding, Program[instr_id.lo].to) EXCEPT !.jump_done = TRUE]
    BY <1>2 DEF Jump
  <2>2. /\ exec.ns = "DECODE" /\ exec.halt_if = FALSE /\ exec.halt_id = FALSE /\ exec.dec = {}
        /\ exec.hwlp_end_4 = FALSE /\ exec.pc_set = TRUE /\ exec.jump_done = TRUE
        /\ exec.target = Program[instr_id.lo].to
        /\ exec.decoding = TRUE /\ exec.debug_mode = debug_mode_q /\ exec.save = "none"
        /\ exec.event = "none" /\ exec.entry = debug_req_entry_q /\ exec.illegal = FALSE
    BY <2>1 DEF JumpTo, Decoding, Idle, InLoopState
  <2> QED BY <1>2, <2>2 DEF JumpOut, CommonSpec, hwlp_jump
<1> QED BY <1>1, <1>2

\* A jump, which may be made before the instruction issues, keeps HartInv.
LEMMA JumpKeepsHart ==
    ASSUME Legally, NEW in \in Inputs, NEW out, NEW exec, Chosen(in, out, exec), NEW jr_stall \in BOOLEAN,
           in.id_ready => ~jr_stall, ~illegal_insn, ctrl_fsm_cs = "DECODE", kind \in {"jal", "jalr"},
           JumpOut(exec, jr_stall), CommonSpec(exec)
    PROVE  HartInv'
<1> USE DEF Legally, FlowInv
<1>1. Executing(in, out) /\ WrapSpec(in, out, exec) /\ out \in Outputs /\ ~hwlp_update_pc_q
  BY Executes, NotTold DEF Chosen
<1>2. /\ pc_id = hart.pc /\ instr_id.lo = hart.pc
      /\ jump_done_q => pc_q = Program[hart.pc].to
      /\ ~jump_done_q => pc_q = Following(hart.pc)
      /\ jump_done_q \in BOOLEAN /\ instr_valid_id
  BY DEF Chosen, ValidSpec, FlowType, ControllerType
<1>3. /\ out.dec = {} /\ out.hwlp_end_4 = FALSE /\ out.halt_id = FALSE /\ out.decoding = TRUE
      /\ out.jump_done = (jump_done_q \/ ~jr_stall)
      /\ jump_done_q \/ ~jr_stall => Leads(out) = Program[hart.pc].to
      /\ ~jump_done_q /\ jr_stall => Leads(out) = Following(hart.pc)
      /\ Stepping => out.halt_if = TRUE
  BY <1>1, <1>2 DEF WrapSpec, JumpOut, CommonSpec, Leads
<1>4. ~hwlp_jump(out)
  BY <1>3 DEF hwlp_jump
<1>5. CASE ~in.id_ready
  <2>1. out.ns = "DECODE"
    BY <1>1, <1>5 DEF WrapSpec, JumpOut
  <2> QED BY <1>1, <1>2, <1>3, <1>4, <1>5, <2>1, StallInDecode
<1>6. CASE in.id_ready
  <2>1. Issued(in, out)
    <3>1. Retires(in, out)
      BY <1>2, <1>3, <1>6 DEF Retires, Issues
    <3>2. {k \in Loops : Ends(k)} = {}
      BY EndsNone DEF Chosen
    <3> QED BY <1>1, <1>3, <3>1, <3>2 DEF Issued
  <2>2. LeadsOn(out)
    BY <1>3, <1>6 DEF LeadsOn, Straight
  <2>3. CASE ~Stepping
    <3>1. out.ns = "DECODE"
      BY <1>1, <2>3 DEF WrapSpec, JumpOut
    <3> QED BY <1>1, <1>3, <2>1, <2>2, <2>3, <3>1, GoesOnInDecode
  <2>4. CASE Stepping
    <3>1. out.ns = "DBG_FLUSH"
      BY <1>1, <1>6, <2>4 DEF WrapSpec
    <3> QED BY <1>1, <1>3, <2>1, <2>2, <2>4, <3>1, Steps
  <2> QED BY <2>3, <2>4
<1> QED BY <1>5, <1>6

\* An instruction that the pipeline is flushed after.
FlushingOut(exec, id_ready) ==
    /\ exec.ns = (IF id_ready THEN "FLUSH_EX" ELSE ctrl_fsm_cs) /\ exec.halt_if = TRUE
    /\ exec.hwlp_end_4 = FALSE /\ exec.pc_set = FALSE /\ exec.jump_done = jump_done_q

\* The controller does that.
LEMMA FlushesAreOut ==
    ASSUME NEW id_ready \in BOOLEAN, NEW exec, ~illegal_insn, illegal_insn_q \in BOOLEAN,
           ctrl_fsm_cs = "DECODE_HWLOOP" => illegal_insn_q = FALSE,
           exec = FlushAfter(id_ready) \/ exec = StatusCsr(id_ready)
    PROVE  /\ FlushingOut(exec, id_ready) /\ CommonSpec(exec)
           /\ exec = FlushAfter(id_ready) => exec.dec = {}
           /\ exec = StatusCsr(id_ready) =>
                exec.dec = IF id_ready THEN {k \in Loops : IsLast(k, pc_id)} ELSE {}
<1> DEFINE ns == IF id_ready THEN "FLUSH_EX" ELSE ctrl_fsm_cs
<1>1. CASE exec = FlushAfter(id_ready)
  <2>1. exec = [Decoding EXCEPT !.halt_if = TRUE, !.ns = ns]
    BY <1>1 DEF FlushAfter
  <2>2. exec.dec = {} /\ FlushingOut(exec, id_ready) /\ CommonSpec(exec)
    BY <2>1 DEF Decoding, Idle, FlushingOut, CommonSpec, hwlp_jump, InLoopState
  <2>3. exec = StatusCsr(id_ready) => exec.dec = IF id_ready THEN {k \in Loops : IsLast(k, pc_id)} ELSE {}
    BY DEF StatusCsr, FlushAfter, Decoding, Idle
  <2> QED BY <2>2, <2>3
<1>2. CASE exec = StatusCsr(id_ready)
  <2> DEFINE dec == IF id_ready THEN {k \in Loops : IsLast(k, pc_id)} ELSE {}
  <2>1. exec = [Decoding EXCEPT !.halt_if = TRUE, !.ns = ns, !.dec = dec]
    BY <1>2 DEF StatusCsr, FlushAfter, Decoding, Idle
  <2>2. exec.dec = dec /\ FlushingOut(exec, id_ready) /\ CommonSpec(exec)
    <3> HIDE DEF dec
    <3> QED BY <2>1 DEF Decoding, Idle, FlushingOut, CommonSpec, hwlp_jump, InLoopState
  <2>3. exec = FlushAfter(id_ready) => exec.dec = {}
    BY DEF FlushAfter, Decoding, Idle
  <2> QED BY <2>2, <2>3
<1> QED BY <1>1, <1>2

\* An instruction that is flushed after keeps HartInv.
LEMMA FlushKeepsHart ==
    ASSUME Legally, NEW in \in Inputs, NEW out, NEW exec, Chosen(in, out, exec), ~illegal_insn,
           kind \in {"csr", "mie", "skip", "dcsr", "wfi", "fencei", "mret", "dret"},
           IsStatusCsr \/ ctrl_fsm_cs = "DECODE",
           kind = "wfi" => ~debug_q.step,
           FlushingOut(exec, in.id_ready), CommonSpec(exec),
           in.id_ready => exec.dec = IF IsStatusCsr THEN {k \in Loops : IsLast(k, pc_id)} ELSE {}
    PROVE  HartInv'
<1> USE DEF Legally, FlowInv
<1>1. Executing(in, out) /\ WrapSpec(in, out, exec) /\ out \in Outputs /\ ~hwlp_update_pc_q
  BY Executes, NotTold DEF Chosen
<1>2. /\ out.pc_set = FALSE /\ out.hwlp_end_4 = FALSE /\ out.halt_if = TRUE /\ out.dec = exec.dec
      /\ out.jump_done = jump_done_q /\ out.illegal = FALSE /\ out.halt_id = FALSE /\ out.decoding = TRUE
  BY <1>1 DEF WrapSpec, FlushingOut, CommonSpec
<1>3. CASE ~in.id_ready
  <2>1. out.ns = ctrl_fsm_cs
    BY <1>1, <1>3 DEF WrapSpec, FlushingOut
  <2> QED BY <1>1, <1>2, <1>3, <2>1, Waiting
<1>4. CASE in.id_ready
  <2>0. /\ ValidSpec /\ pc_id = hart.pc /\ kind = Program[hart.pc].kind /\ hart.debug = debug_mode_q
        /\ \A k \in Loops : hwlp_counter_q[k] \in Nat
    BY DEF Chosen, ValidSpec, FlowType, LoopType, Counts
  <2>1. /\ out.dec = {k \in Loops : Ends(k)}
        /\ IsStatusCsr /\ Stepping => \A k \in Loops : ~Turns(k)
        /\ ~IsStatusCsr => \A k \in Loops : ~Turns(k)
    <3>1. CASE IsStatusCsr
      <4>1. \A k \in Loops : IsLast(k, hart.pc) =>
              Active(k) /\ (debug_q.step /\ ~hart.debug => hwlp_counter_q[k] = 1)
        BY <2>0, <3>1 DEF LoopsAreLegal, IsStatusCsr
      <4>2. {k \in Loops : IsLast(k, pc_id)} = {k \in Loops : Ends(k)}
        BY <2>0, <4>1 DEF Ends
      <4>3. Stepping => \A k \in Loops : ~Turns(k)
        BY <2>0, <4>1 DEF Turns, Stepping
      <4> QED BY <1>2, <1>4, <3>1, <4>2, <4>3
    <3>2. CASE ~IsStatusCsr
      <4>1. {k \in Loops : Ends(k)} = {} /\ \A k \in Loops : ~Turns(k)
        BY <2>0, <3>2, EndsNone DEF IsStatusCsr
      <4> QED BY <1>2, <1>4, <3>2, <4>1
    <3> QED BY <3>1, <3>2
  <2>2. Issued(in, out)
    BY <1>1, <1>2, <1>4, <2>0, <2>1 DEF Issued, Retires, Issues, ValidSpec
  <2>3. (\A k \in Loops : ~Turns(k)) => pc_q = Following(hart.pc)
    <3>1. CASE ctrl_fsm_cs = "DECODE"
      BY <2>0, <3>1 DEF ValidSpec
    <3>2. CASE ctrl_fsm_cs = "DECODE_HWLOOP"
      BY <2>0, <3>2 DEF ValidSpec, AtLoop
    <3> QED BY <2>0, <3>1, <3>2 DEF ValidSpec
  <2>4. CASE ~Stepping \/ kind = "mret"
    <3>1. out.ns = "FLUSH_EX"
      BY <1>1, <1>4, <2>4 DEF WrapSpec, FlushingOut
    <3>2. kind = "wfi" => ctrl_fsm_cs = "DECODE" /\ pc_q = Following(pc_id)
      BY <2>0, <2>1, <2>3 DEF IsStatusCsr
    <3> QED BY <1>1, <1>2, <2>0, <2>2, <2>3, <2>4, <3>1, <3>2, Flushes
  <2>5. CASE Stepping /\ kind # "mret"
    <3>1. out.ns = "DBG_FLUSH"
      BY <1>1, <1>4, <2>5 DEF WrapSpec
    <3>2. \A k \in Loops : ~Turns(k)
      BY <2>1, <2>5
    <3>3. kind # "dret"
      BY <2>5 DEF illegal_insn, Stepping
    <3>4. LeadsOn(out)
      BY <1>2, <2>3, <3>2 DEF LeadsOn, Leads
    <3> QED BY <1>1, <1>2, <2>2, <2>5, <3>1, <3>4, Steps
  <2> QED BY <2>4, <2>5
<1> QED BY <1>3, <1>4

\* An instruction in DECODE that neither jumps nor flushes: the body of a loop is entered,
\* or its last instruction turns the loop.
PlainDecodeOut(exec) ==
    /\ exec.halt_if = FALSE /\ exec.hwlp_end_4 = FALSE /\ exec.dec = {k \in Loops : Ends(k)}
    /\ exec.pc_set <=> \E k \in Loops : Turns(k)
    /\ \A k \in Loops : Turns(k) => exec.target = hwlp_start_q[k]
    /\ exec.jump_done = exec.pc_set
    /\ \/ /\ exec.ns = "DECODE_HWLOOP" /\ \A k \in Loops : ~IsLastButOne(k, hart.pc)
          /\ \E b \in Loops : Within(b, hart.pc) /\ hwlp_counter_q[b] > 1
       \/ exec.ns = "DECODE" /\ \A k \in Loops : ~Turns(k)

\* The controller does that.
LEMMA PlainDecodeIs ==
    ASSUME FlowInv, LoopsAreLegal, ValidSpec, ctrl_fsm_cs = "DECODE", ~illegal_insn,
           kind \notin {"jal", "jalr"}, NEW exec, exec = PlainInDecode
    PROVE  PlainDecodeOut(exec) /\ CommonSpec(exec)
<1> USE DEF FlowInv
<1>1. /\ LegalSpec /\ pc_id = hart.pc /\ jump_done_q = FALSE
      /\ \A k \in Loops : hwlp_counter_q[k] \in Nat
  BY Legal DEF LegalFact, ValidSpec, FlowType, ControllerType, LoopType, Counts
<1> DEFINE body == is_hwlp_body(hart.pc)
           more == {k \in Loops : body /\ IsLast(k, hart.pc) /\ hwlp_counter_q[k] > 1}
           dec  == more \cup {k \in Loops : IsLast(k, hart.pc) /\ hwlp_counter_q[k] = 1}
           ns   == IF body /\ ~\E k \in Loops : IsLastButOne(k, hart.pc) THEN "DECODE_HWLOOP" ELSE "DECODE"
           plain == [Decoding EXCEPT !.ns = ns, !.dec = dec]
<1>2. exec = IF more = {} THEN plain
             ELSE [JumpTo(plain, hwlp_targ_addr(hart.pc)) EXCEPT !.jump_done = TRUE]
  BY <1>1 DEF PlainInDecode
<1>3. \A k \in Loops : Turns(k) => Ends(k) /\ Active(k) /\ Within(k, hart.pc) /\ body
  BY <1>1 DEF Turns, Ends, Active, LegalSpec, is_hwlp_body
<1>4. \A k \in Loops : k \in more <=> Turns(k)
  BY <1>3 DEF Turns
<1>5. dec = {k \in Loops : Ends(k)}
  <2>1. \A k \in Loops : k \in dec <=> Ends(k)
    BY <1>1, <1>4 DEF Ends, Active, Turns
  <2> QED BY <2>1
<1>6. \/ /\ ns = "DECODE_HWLOOP" /\ \A k \in Loops : ~IsLastButOne(k, hart.pc)
         /\ \E b \in Loops : Within(b, hart.pc) /\ hwlp_counter_q[b] > 1
      \/ ns = "DECODE" /\ \A k \in Loops : ~Turns(k)
  <2>1. CASE ns = "DECODE_HWLOOP"
    BY <2>1 DEF is_hwlp_body
  <2>2. CASE ns = "DECODE"
    <3>1. ~body \/ \E k \in Loops : IsLastButOne(k, hart.pc)
      BY <2>2
    <3> QED BY <1>1, <1>3, <2>2, <3>1 DEF LegalSpec
  <2> QED BY <2>1, <2>2
<1>7. \A k \in Loops : Turns(k) => hwlp_targ_addr(hart.pc) = hwlp_start_q[k]
  BY <1>1, <1>3 DEF LegalSpec
<1>8. (\E k \in Loops : Turns(k)) <=> more # {}
  BY <1>4
<1> HIDE DEF ns, dec, more, body
<1>9. CASE more = {}
  <2>1. exec = [Decoding EXCEPT !.ns = ns, !.dec = dec]
    BY <1>2, <1>9
  <2>2. /\ exec.halt_if = FALSE /\ exec.hwlp_end_4 = FALSE /\ exec.dec = dec /\ exec.pc_set = FALSE
        /\ exec.jump_done = FALSE /\ exec.ns = ns
    BY <1>1, <2>1 DEF Decoding, Idle
  <2>3. CommonSpec(exec)
    BY <1>9, <2>1 DEF CommonSpec, Decoding, Idle, hwlp_jump, InLoopState
  <2> QED BY <1>5, <1>6, <1>8, <1>9, <2>2, <2>3 DEF PlainDecodeOut
<1>10. CASE more # {}
  <2>1. exec = [JumpTo([Decoding EXCEPT !.ns = ns, !.dec = dec], hwlp_targ_addr(hart.pc)) EXCEPT !.jump_done = TRUE]
    BY <1>2, <1>10
  <2>2. /\ exec.halt_if = FALSE /\ exec.hwlp_end_4 = FALSE /\ exec.dec = dec /\ exec.pc_set = TRUE
        /\ exec.jump_done = TRUE /\ exec.ns = ns /\ exec.target = hwlp_targ_addr(hart.pc)
    BY <1>1, <2>1 DEF Decoding, Idle, JumpTo
  <2>3. CommonSpec(exec)
    BY <1>10, <2>1 DEF CommonSpec, Decoding, Idle, JumpTo, hwlp_jump, InLoopState
  <2> QED BY <1>5, <1>6, <1>7, <1>8, <1>10, <2>2, <2>3 DEF PlainDecodeOut
<1> QED BY <1>9, <1>10

\* A plain instruction in DECODE keeps HartInv.
LEMMA PlainDecodeKeepsHart ==
    ASSUME Legally, NEW in \in Inputs, NEW out, NEW exec, Chosen(in, out, exec), ~illegal_insn,
           ctrl_fsm_cs = "DECODE", ~IsStatusCsr,
           kind \notin {"jal", "jalr", "ecall", "ebreak", "fencei", "mret", "dret"},
           PlainDecodeOut(exec), CommonSpec(exec)
    PROVE  HartInv'
<1> USE DEF Legally, FlowInv
<1>1. Executing(in, out) /\ WrapSpec(in, out, exec) /\ out \in Outputs
  BY Executes
<1>2. /\ ValidSpec /\ pc_id = hart.pc /\ instr_valid_id /\ pc_q = Following(hart.pc) /\ ~hwlp_update_pc_q
      /\ kind = Program[hart.pc].kind /\ LegalSpec /\ \A k \in Loops : hwlp_counter_q[k] \in Nat
  BY Legal DEF LegalFact, Chosen, ValidSpec, FlowType, LoopType, Counts
<1>3. /\ out.hwlp_end_4 = FALSE /\ out.dec = {k \in Loops : Ends(k)} /\ out.halt_id = FALSE
      /\ out.decoding = TRUE
      /\ out.pc_set <=> \E k \in Loops : Turns(k)
      /\ \A k \in Loops : Turns(k) => out.target = hwlp_start_q[k]
      /\ out.jump_done = out.pc_set
  BY <1>1 DEF WrapSpec, PlainDecodeOut, CommonSpec
<1>4. /\ \A k \in Loops : Turns(k) => Leads(out) = hwlp_start_q[k]
      /\ (\A k \in Loops : ~Turns(k)) => Leads(out) = Following(hart.pc)
      /\ ~hwlp_jump(out)
  BY <1>2, <1>3 DEF Leads, hwlp_jump
<1>5. LeadsOn(out)
  <2>1. kind = "branch" => \A k \in Loops : ~Turns(k)
    BY <1>2, EndsNone
  <2> QED BY <1>4, <2>1 DEF LeadsOn
<1>6. in.id_ready => Issued(in, out)
  BY <1>1, <1>2, <1>3 DEF Issued, Retires, Issues
<1>7. CASE in.id_ready /\ Stepping
  <2>1. out.ns = (IF kind = "branch" THEN "DBG_WAIT_BRANCH" ELSE "DBG_FLUSH") /\ out.halt_if = TRUE
    BY <1>1, <1>7 DEF WrapSpec
  <2> QED BY <1>1, <1>2, <1>3, <1>5, <1>6, <1>7, <2>1, Steps
<1>8. CASE ~(in.id_ready /\ Stepping)
  <2>1. out.ns = exec.ns
    BY <1>1, <1>8 DEF WrapSpec
  <2>2. CASE exec.ns = "DECODE" /\ \A k \in Loops : ~Turns(k)
    <3>1. CASE ~in.id_ready
      BY <1>1, <1>2, <1>3, <1>4, <2>1, <2>2, <3>1, StallInDecode
    <3>2. CASE in.id_ready
      BY <1>1, <1>2, <1>3, <1>5, <1>6, <1>8, <2>1, <2>2, <3>2, GoesOnInDecode
    <3> QED BY <3>1, <3>2
  <2>3. ASSUME exec.ns = "DECODE_HWLOOP", \A k \in Loops : ~IsLastButOne(k, hart.pc),
               NEW b \in Loops, Within(b, hart.pc), hwlp_counter_q[b] > 1
        PROVE  HartInv'
    <3>1. Active(b) /\ InRound
      BY <1>2, <2>3 DEF Active, InRound
    <3>2. StaysInRound
      BY <1>2, <2>3, <3>1 DEF StaysInRound, Turns
    <3>3. Straight
      BY <1>2, <2>3, <3>1, EndsNone DEF Straight
    <3>4. \A k \in Loops : ~Ahead(k)
      BY <2>3 DEF Ahead
    <3>5. CASE ~in.id_ready
      BY <1>1, <1>2, <1>3, <1>4, <2>1, <2>3, <3>1, <3>4, <3>5, StallInLoop
    <3>6. CASE in.id_ready
      BY <1>1, <1>2, <1>3, <1>4, <1>5, <1>6, <1>8, <2>1, <2>3, <3>1, <3>2, <3>3, <3>4, <3>6, GoesOnInLoop
    <3> QED BY <3>5, <3>6
  <2> QED BY <2>2, <2>3 DEF PlainDecodeOut
<1> QED BY <1>7, <1>8

\* An instruction in DECODE_HWLOOP: the prefetcher is told to turn while the last instruction
\* but one is in ID.
PlainLoopOut(exec) ==
    /\ exec.halt_if = FALSE /\ exec.pc_set = FALSE /\ exec.jump_done = jump_done_q
    /\ exec.dec = {k \in Loops : Ends(k)}
    /\ exec.hwlp_end_4 <=> \E k \in Loops : Ahead(k)
    /\ \A k \in Loops : Ahead(k) => exec.hwlp_target = hwlp_start_q[k]
    /\ \/ exec.ns = "DECODE_HWLOOP" /\ StaysInRound
       \/ exec.ns = "DECODE" /\ \A k \in Loops : ~Turns(k) /\ ~Ahead(k)

\* The controller does that.
LEMMA PlainLoopIs ==
    ASSUME FlowInv, LoopsAreLegal, ValidSpec, ctrl_fsm_cs = "DECODE_HWLOOP", ~illegal_insn,
           NEW exec, exec = PlainInLoop
    PROVE  PlainLoopOut(exec) /\ CommonSpec(exec)
<1> USE DEF FlowInv
<1>1. /\ LegalSpec /\ pc_id = hart.pc /\ AtLoop /\ illegal_insn_q = FALSE
      /\ \A k \in Loops : hwlp_counter_q[k] \in Nat
  BY Legal DEF LegalFact, ValidSpec, FlowType, LoopType, Counts
<1> DEFINE turning == {k \in Loops : IsLastButOne(k, hart.pc)}
           one     == IF 0 \in turning THEN 0 ELSE 1
           turns   == {j \in turning : MoreRounds(j)}
           target  == IF 0 \in turns THEN hwlp_start_q[0]
                      ELSE IF 1 \in turns THEN hwlp_start_q[1] ELSE hwlp_targ_addr(hart.pc)
           stays   == turning = {} \/ one \in turns \/ is_hwlp_body(hart.pc)
           ns      == IF stays THEN "DECODE_HWLOOP" ELSE "DECODE"
           dec     == {j \in Loops : IsLast(j, hart.pc) /\ hwlp_counter_q[j] # 0}
           told    == turns # {}
<1>2. exec = [Decoding EXCEPT !.ns = ns, !.hwlp_end_4 = told, !.hwlp_target = target, !.dec = dec]
  BY <1>1 DEF PlainInLoop
<1>3. \A k \in Loops : k \in turns <=> Ahead(k)
  BY DEF Ahead, MoreRounds
<1>4. \A k \in Loops : Ahead(k) => /\ Active(k) /\ Within(k, hart.pc) /\ ~IsLast(k, hart.pc)
                                   /\ is_hwlp_body(hart.pc) /\ \A j \in Loops : Ahead(j) => j = k
  BY <1>1 DEF Ahead, Active, LegalSpec, is_hwlp_body
<1>5. \A k \in Loops : Turns(k) => Active(k) /\ Within(k, hart.pc) /\ is_hwlp_body(hart.pc)
  BY <1>1 DEF Turns, Ends, Active, LegalSpec, is_hwlp_body
<1>6. dec = {k \in Loops : Ends(k)}
  BY <1>1 DEF Ends, Active
<1>7. told <=> \E k \in Loops : Ahead(k)
  BY <1>3
<1>8. ASSUME NEW k \in Loops, Ahead(k) PROVE target = hwlp_start_q[k]
  <2>1. \A j \in Loops : j \in turns <=> j = k
    BY <1>3, <1>4, <1>8
  <2> QED BY <2>1 DEF Loops
<1>9. \/ ns = "DECODE_HWLOOP" /\ StaysInRound
      \/ ns = "DECODE" /\ \A k \in Loops : ~Turns(k) /\ ~Ahead(k)
  <2>1. CASE ~stays
    BY <1>4, <1>5, <2>1
  <2>2. CASE is_hwlp_body(hart.pc)
    BY <1>1, <2>2 DEF is_hwlp_body, StaysInRound, Active, Turns
  <2>3. CASE one \in turns
    <3>1. one \in Loops
      BY DEF Loops
    <3> QED BY <1>3, <1>4, <2>2, <2>3, <3>1
  <2>4. CASE turning = {}
    <3>1. PICK k \in Loops : /\ Within(k, hart.pc) /\ Active(k)
                             /\ hwlp_counter_q[k] = 1 => ~IsLast(k, hart.pc)
      BY <1>1 DEF AtLoop, InRound
    <3> QED BY <1>1, <2>4, <3>1 DEF StaysInRound, Turns, Active
  <2> QED BY <2>1, <2>2, <2>3, <2>4
<1> HIDE DEF ns, told, target, dec
<1>10. /\ exec.halt_if = FALSE /\ exec.pc_set = FALSE /\ exec.jump_done = jump_done_q /\ exec.dec = dec
       /\ exec.hwlp_end_4 = told /\ exec.hwlp_target = target /\ exec.ns = ns
       /\ exec.decoding = TRUE /\ exec.debug_mode = debug_mode_q /\ exec.save = "none" /\ exec.event = "none"
       /\ exec.entry = debug_req_entry_q /\ exec.halt_id = FALSE /\ exec.illegal = FALSE
  <2>1. Decoding = [Idle EXCEPT !.decoding = TRUE, !.illegal = FALSE]
    BY <1>1 DEF Decoding
  <2> QED BY <1>2, <2>1 DEF Idle
<1>11. PlainLoopOut(exec)
  BY <1>6, <1>7, <1>8, <1>9, <1>10 DEF PlainLoopOut
<1>12. CommonSpec(exec)
  BY <1>7, <1>8, <1>10 DEF CommonSpec, hwlp_jump
<1> QED BY <1>11, <1>12

\* A plain instruction in DECODE_HWLOOP keeps HartInv.
LEMMA PlainLoopKeepsHart ==
    ASSUME Legally, NEW in \in Inputs, NEW out, NEW exec, Chosen(in, out, exec), ~illegal_insn,
           ctrl_fsm_cs = "DECODE_HWLOOP", ~IsStatusCsr, kind \notin {"ecall", "ebreak"},
           PlainLoopOut(exec), CommonSpec(exec)
    PROVE  HartInv'
<1> USE DEF Legally, FlowInv
<1>1. Executing(in, out) /\ WrapSpec(in, out, exec) /\ out \in Outputs
  BY Executes
<1>2. /\ ValidSpec /\ pc_id = hart.pc /\ instr_id.lo = hart.pc /\ instr_valid_id /\ AtLoop
      /\ kind = Program[hart.pc].kind /\ LegalSpec /\ \A k \in Loops : hwlp_counter_q[k] \in Nat
  BY Legal DEF LegalFact, Chosen, ValidSpec, FlowType, LoopType, Counts
<1>3. PICK b \in Loops : Within(b, hart.pc) /\ Active(b)
  BY <1>2 DEF AtLoop, InRound
<1>4. kind \in {"plain", "hwloop"} /\ Straight
  <2>1. BodySpec(b) /\ kind \in Kinds
    BY <1>2, <1>3, SoftwareAssumption DEF LegalSpec, FlowType, HartType
  <2>2. kind \notin {"csr", "mie", "skip", "dcsr", "illegal"}
    BY DEF IsStatusCsr, illegal_insn
  <2> QED BY <1>2, <2>1, <2>2 DEF BodySpec, Kinds, Straight
<1>5. /\ out.pc_set = FALSE /\ out.jump_done = jump_done_q /\ out.dec = {k \in Loops : Ends(k)}
      /\ out.halt_id = FALSE /\ out.decoding = TRUE
      /\ out.hwlp_end_4 <=> \E k \in Loops : Ahead(k)
      /\ \A k \in Loops : Ahead(k) => out.hwlp_target = hwlp_start_q[k]
      /\ Leads(out) = pc_q
  BY <1>1 DEF WrapSpec, PlainLoopOut, CommonSpec, Leads
<1>6. /\ \A k \in Loops : Turns(k) => pc_q = hwlp_start_q[k]
      /\ (\A k \in Loops : ~Turns(k)) => pc_q = Following(hart.pc) /\ ~jump_done_q
      /\ hwlp_update_pc_q <=> hwlp_end_4_id_q /\ \E k \in Loops : Ahead(k)
      /\ \A k \in Loops : Ahead(k) /\ hwlp_update_pc_q => hwlp_addr_q = hwlp_start_q[k]
      /\ Stepping => \A k \in Loops : ~IsLastButOne(k, hart.pc)
  BY <1>2 DEF AtLoop
<1>7. LeadsOn(out)
  BY <1>4, <1>5, <1>6 DEF LeadsOn
<1>8. in.id_ready => Issued(in, out)
  BY <1>1, <1>2, <1>5 DEF Issued, Retires, Issues
<1>9. /\ hwlp_update_pc_q \/ hwlp_jump(out) <=> \E k \in Loops : Ahead(k)
      /\ \A k \in Loops : Ahead(k) =>
           (IF hwlp_jump(out) THEN out.hwlp_target ELSE hwlp_addr_q) = hwlp_start_q[k]
  BY <1>5, <1>6 DEF hwlp_jump
<1>10. CASE in.id_ready /\ Stepping
  <2>1. out.ns = "DBG_FLUSH" /\ out.halt_if = TRUE
    BY <1>1, <1>4, <1>10 DEF WrapSpec
  <2>2. ~out.hwlp_end_4 /\ ~hwlp_update_pc_q
    BY <1>5, <1>6, <1>10 DEF Ahead
  <2> QED BY <1>1, <1>4, <1>7, <1>8, <1>10, <2>1, <2>2, Steps
<1>11. CASE ~(in.id_ready /\ Stepping)
  <2>1. out.ns = exec.ns
    BY <1>1, <1>11 DEF WrapSpec
  <2>2. CASE exec.ns = "DECODE" /\ \A k \in Loops : ~Turns(k) /\ ~Ahead(k)
    <3>1. ~hwlp_update_pc_q /\ ~hwlp_jump(out) /\ ~out.hwlp_end_4
      BY <1>5, <1>9, <2>2
    <3>2. CASE ~in.id_ready
      BY <1>1, <1>2, <1>5, <1>6, <2>1, <2>2, <3>1, <3>2, StallInDecode
    <3>3. CASE in.id_ready
      BY <1>1, <1>4, <1>7, <1>8, <1>11, <2>1, <2>2, <3>1, <3>3, GoesOnInDecode
    <3> QED BY <3>2, <3>3
  <2>3. CASE exec.ns = "DECODE_HWLOOP" /\ StaysInRound
    <3>1. CASE ~in.id_ready
      <4>1. InRound
        BY <1>2 DEF AtLoop
      <4> QED BY <1>1, <1>2, <1>4, <1>5, <1>6, <1>9, <2>1, <2>3, <3>1, <4>1, StallInLoop
    <3>2. CASE in.id_ready
      BY <1>1, <1>3, <1>4, <1>5, <1>7, <1>8, <1>9, <1>11, <2>1, <2>3, <3>2, GoesOnInLoop
    <3> QED BY <3>1, <3>2
  <2> QED BY <2>2, <2>3 DEF PlainLoopOut
<1> QED BY <1>10, <1>11

-----------------------------------------------------------------------------
(* DECODE and DECODE_HWLOOP as a whole *)

\* What the controller chooses for the instruction in ID.
ExecSpec(exec, id_ready, jr_stall) ==
    /\ CommonSpec(exec)
    /\ \/ (illegal_insn \/ kind \in {"ecall", "ebreak"}) /\ TrapOut(exec, id_ready)
       \/ /\ ~illegal_insn /\ ctrl_fsm_cs = "DECODE" /\ kind \in {"jal", "jalr"}
          /\ JumpOut(exec, jr_stall)
       \/ /\ ~illegal_insn /\ kind \in {"csr", "mie", "skip", "dcsr", "wfi", "fencei", "mret", "dret"}
          /\ IsStatusCsr \/ ctrl_fsm_cs = "DECODE"
          /\ kind = "wfi" => ~debug_q.step
          /\ FlushingOut(exec, id_ready)
          /\ id_ready => exec.dec = IF IsStatusCsr THEN {k \in Loops : IsLast(k, pc_id)} ELSE {}
       \/ /\ ~illegal_insn /\ ctrl_fsm_cs = "DECODE" /\ ~IsStatusCsr
          /\ kind \notin {"jal", "jalr", "ecall", "ebreak", "fencei", "mret", "dret"}
          /\ PlainDecodeOut(exec)
       \/ /\ ~illegal_insn /\ ctrl_fsm_cs = "DECODE_HWLOOP" /\ ~IsStatusCsr /\ kind \notin {"ecall", "ebreak"}
          /\ PlainLoopOut(exec)

\* Execute chooses what ExecSpec says.
LEMMA ExecuteIs ==
    ASSUME FlowInv, LoopsAreLegal, ValidSpec, NEW id_ready \in BOOLEAN, NEW jr_stall \in BOOLEAN,
           NEW debug_req
    PROVE  ExecSpec(Execute(id_ready, jr_stall, debug_req), id_ready, jr_stall)
<1> DEFINE exec == Execute(id_ready, jr_stall, debug_req)
<1> SUFFICES ExecSpec(exec, id_ready, jr_stall)
  OBVIOUS
<1>1. /\ debug_mode_q \in BOOLEAN /\ illegal_insn_q \in BOOLEAN /\ jump_done_q \in BOOLEAN
      /\ ctrl_fsm_cs = "DECODE_HWLOOP" => illegal_insn_q = FALSE
      /\ ctrl_fsm_cs \in {"DECODE", "DECODE_HWLOOP"}
      /\ InLoopState = (ctrl_fsm_cs = "DECODE_HWLOOP")
  BY DEF FlowInv, FlowType, ControllerType, ValidSpec, InLoopState
<1>2. CASE illegal_insn
  <2>1. exec = Illegal(id_ready)
    BY <1>2 DEF Execute
  <2> HIDE DEF exec
  <2> QED BY <1>1, <1>2, <2>1, TrapsAreOut DEF ExecSpec
<1>3. CASE ~illegal_insn /\ ~InLoopState /\ kind \in {"jal", "jalr"}
  <2>1. exec = Jump(jr_stall)
    BY <1>3 DEF Execute, wfi_active, IsStatusCsr
  <2> HIDE DEF exec
  <2> QED BY <1>1, <1>3, <2>1, JumpsAreOut DEF ExecSpec
<1>4. CASE ~illegal_insn /\ kind \in {"ebreak", "ecall"}
  <2>1. /\ kind = "ebreak" => exec = Ebreak(id_ready)
        /\ kind = "ecall" => exec = FlushAfter(id_ready)
    BY <1>4 DEF Execute, wfi_active, IsStatusCsr
  <2> HIDE DEF exec
  <2> QED BY <1>1, <1>4, <2>1, TrapsAreOut DEF ExecSpec
<1>5. CASE ~illegal_insn /\ ~InLoopState /\ (wfi_active(debug_req) \/ kind \in {"fencei", "mret", "dret"})
  <2>1. exec = FlushAfter(id_ready) /\ ~IsStatusCsr /\ (kind = "wfi" => ~debug_q.step)
        /\ kind \in {"csr", "mie", "skip", "dcsr", "wfi", "fencei", "mret", "dret"}
    BY <1>5 DEF Execute, wfi_active, IsStatusCsr
  <2>2. exec.dec = {} /\ FlushingOut(exec, id_ready) /\ CommonSpec(exec)
    <3> HIDE DEF exec
    <3> QED BY <1>1, <1>5, <2>1, FlushesAreOut
  <2> HIDE DEF exec
  <2> QED BY <1>1, <1>5, <2>1, <2>2 DEF ExecSpec
<1>6. CASE ~illegal_insn /\ IsStatusCsr
  <2>1. exec = StatusCsr(id_ready) /\ kind \in {"csr", "mie", "skip", "dcsr", "wfi", "fencei", "mret", "dret"}
        /\ kind # "wfi"
    BY <1>6 DEF Execute, wfi_active, IsStatusCsr
  <2>2. /\ FlushingOut(exec, id_ready) /\ CommonSpec(exec)
        /\ exec.dec = IF id_ready THEN {k \in Loops : IsLast(k, pc_id)} ELSE {}
    <3> HIDE DEF exec
    <3> QED BY <1>1, <1>6, <2>1, FlushesAreOut
  <2> HIDE DEF exec
  <2> QED BY <1>1, <1>6, <2>1, <2>2 DEF ExecSpec
<1>7. CASE /\ ~illegal_insn /\ ~InLoopState /\ ~IsStatusCsr /\ ~wfi_active(debug_req)
           /\ kind \notin {"jal", "jalr", "ecall", "ebreak", "fencei", "mret", "dret"}
  <2>1. exec = PlainInDecode
    BY <1>7 DEF Execute, Plain
  <2> HIDE DEF exec
  <2> QED BY <1>1, <1>7, <2>1, PlainDecodeIs DEF ExecSpec
<1>8. CASE ~illegal_insn /\ InLoopState /\ ~IsStatusCsr /\ kind \notin {"ecall", "ebreak"}
  <2>1. exec = PlainInLoop
    BY <1>8 DEF Execute, Plain
  <2> HIDE DEF exec
  <2> QED BY <1>1, <1>8, <2>1, PlainLoopIs DEF ExecSpec
<1> QED BY <1>2, <1>3, <1>4, <1>5, <1>6, <1>7, <1>8

\* No trap returns where an instruction is decoded.
LEMMA DecodeRestores ==
    ASSUME NEW id_ready, NEW jr_stall, NEW irq_req, NEW debug_req
    PROVE  Decode(id_ready, jr_stall, irq_req, debug_req).restore = FALSE
<1> DEFINE exec == Execute(id_ready, jr_stall, debug_req)
           out  == Decode(id_ready, jr_stall, irq_req, debug_req)
<1>1. Idle.restore = FALSE /\ Halted.restore = FALSE /\ Decoding.restore = FALSE
  BY DEF Idle, Halted, Decoding
<1>2. /\ JumpTo(Idle, ex.to).restore = FALSE
      /\ [Halted EXCEPT !.ns = "DBG_FLUSH", !.entry = TRUE, !.illegal = Decoding.illegal].restore = FALSE
      /\ [TakenIrq("id") EXCEPT !.illegal = Decoding.illegal].restore = FALSE
  BY DEF JumpTo, TakenIrq, Halted, Idle
<1>3. exec.restore = FALSE
  <2>1. /\ Illegal(id_ready).restore = FALSE /\ FlushAfter(id_ready).restore = FALSE
        /\ StatusCsr(id_ready).restore = FALSE
    BY DEF Illegal, FlushAfter, StatusCsr, Decoding, Idle
  <2>2. Jump(jr_stall).restore = FALSE /\ Ebreak(id_ready).restore = FALSE
    BY DEF Jump, Ebreak, FlushAfter, JumpTo, Decoding, Idle
  <2>3. Plain.restore = FALSE
    BY DEF Plain, PlainInDecode, PlainInLoop, JumpTo, Decoding, Idle
  <2> QED BY <2>1, <2>2, <2>3 DEF Execute
<1>4. Step(exec, id_ready).restore = exec.restore
  BY DEF Step
<1> HIDE DEF exec
<1>5. out \in {JumpTo(Idle, ex.to), Idle, exec, Step(exec, id_ready), [TakenIrq("id") EXCEPT !.illegal = Decoding.illegal],
               [Halted EXCEPT !.ns = "DBG_FLUSH", !.entry = TRUE, !.illegal = Decoding.illegal]}
  BY DEF Decode, exec
<1> QED BY <1>1, <1>2, <1>3, <1>4, <1>5

\* What the controller chooses in the state as a whole.
DecodeSplit(in, out) ==
    /\ out \in Outputs /\ Edge(in, out) /\ ctrl_fsm_cs \in {"DECODE", "DECODE_HWLOOP"} /\ out.restore = FALSE
    /\ \/ ctrl_fsm_cs = "DECODE" /\ branch_taken_ex /\ out = JumpTo(Idle, ex.to)
       \/ ~branch_taken_ex /\ ~instr_valid_id /\ out = Idle
       \/ /\ ValidSpec /\ ~debug_mode_q
          /\ out = [Halted EXCEPT !.ns = "DBG_FLUSH", !.entry = TRUE, !.illegal = Decoding.illegal]
       \/ ValidSpec /\ irq_req_ctrl /\ ~debug_mode_q /\ out = [TakenIrq("id") EXCEPT !.illegal = Decoding.illegal]
       \/ \E exec, jr_stall : /\ Chosen(in, out, exec) /\ jr_stall \in BOOLEAN /\ (in.id_ready => ~jr_stall)
                              /\ ExecSpec(exec, in.id_ready, jr_stall)

\* Every step of the two states is one of these.
LEMMA DecodeSplits ==
    ASSUME FlowInv, HartInv, LoopsAreLegal, InDecode(Inputs)
    PROVE  \E in \in Inputs, out \in Outputs : DecodeSplit(in, out)
<1> USE DEF FlowInv
<1>1. /\ ctrl_fsm_cs \in {"DECODE", "DECODE_HWLOOP"}
      /\ \E in \in Inputs : \E jr_stall \in Stalls(in) :
           Edge(in, Decode(in.id_ready, jr_stall, irq_req_ctrl, in.debug_req))
  BY DEF InDecode
<1>2. PICK in \in Inputs : \E jr_stall \in Stalls(in) :
        Edge(in, Decode(in.id_ready, jr_stall, irq_req_ctrl, in.debug_req))
  BY <1>1
<1>3. PICK jr_stall \in Stalls(in) : Edge(in, Decode(in.id_ready, jr_stall, irq_req_ctrl, in.debug_req))
  BY <1>2
<1>4. in.id_ready \in BOOLEAN /\ in.debug_req \in BOOLEAN /\ irq_req_ctrl \in BOOLEAN
      /\ jr_stall \in BOOLEAN /\ (in.id_ready => ~jr_stall)
  BY InputTypes DEF irq_req_ctrl, Stalls
<1> DEFINE out    == Decode(in.id_ready, jr_stall, irq_req_ctrl, in.debug_req)
           exec   == Execute(in.id_ready, jr_stall, in.debug_req)
           old    == ctrl_fsm_cs = "DECODE" /\ branch_taken_ex
           halted == (Pending(in.debug_req) \/ trigger_match) /\ ~debug_mode_q
<1> SUFFICES DecodeSplit(in, out)
  BY DEF DecodeSplit
<1>5. out \in Outputs /\ exec \in Outputs /\ Edge(in, out) /\ out.restore = FALSE
  <2>1. out.restore = FALSE
    BY DecodeRestores
  <2> QED BY <1>3, <1>4, <2>1, DecodeType, ExecuteType
<1>6. CASE old
  <2>1. out = JumpTo(Idle, ex.to)
    BY <1>6 DEF Decode
  <2> QED BY <1>1, <1>5, <1>6, <2>1 DEF DecodeSplit
<1>7. CASE ~old /\ ~instr_valid_id
  <2>1. out = Idle
    BY <1>7 DEF Decode
  <2>2. ~branch_taken_ex
    BY <1>1, <1>7 DEF branch_taken_ex, HartInv, BranchInv
  <2> QED BY <1>1, <1>5, <1>7, <2>1, <2>2 DEF DecodeSplit
<1>8. CASE ~old /\ instr_valid_id
  <2>1. ValidSpec
    BY <1>1, <1>8, Valid
  <2>2. CASE halted
    <3>1. out = [Halted EXCEPT !.ns = "DBG_FLUSH", !.entry = TRUE, !.illegal = Decoding.illegal]
      BY <1>8, <2>2 DEF Decode
    <3> QED BY <1>1, <1>5, <2>1, <2>2, <3>1 DEF DecodeSplit
  <2>3. CASE ~halted /\ irq_req_ctrl /\ ~debug_mode_q
    <3>1. out = [TakenIrq("id") EXCEPT !.illegal = Decoding.illegal]
      BY <1>8, <2>3 DEF Decode
    <3> QED BY <1>1, <1>5, <2>1, <2>3, <3>1 DEF DecodeSplit
  <2>4. CASE ~halted /\ ~(irq_req_ctrl /\ ~debug_mode_q)
    <3>1. out = IF Stepping THEN Step(exec, in.id_ready) ELSE exec
      BY <1>8, <2>4 DEF Decode
    <3>2. ExecSpec(exec, in.id_ready, jr_stall)
      BY <1>4, <2>1, ExecuteIs
    <3>3. trigger_match => debug_mode_q
      BY <2>4
    <3> HIDE DEF out, exec
    <3>4. Chosen(in, out, exec)
      BY <1>5, <2>1, <3>1, <3>3 DEF Chosen
    <3> QED BY <1>1, <1>4, <1>5, <3>2, <3>4 DEF DecodeSplit
  <2> QED BY <2>2, <2>3, <2>4
<1> QED BY <1>6, <1>7, <1>8

\* DECODE and DECODE_HWLOOP keep HartInv.
LEMMA DecodeKeepsHart ==
    ASSUME Legally, InDecode(Inputs)
    PROVE  HartInv'
<1>1. FlowInv /\ HartInv /\ LoopsAreLegal
  BY DEF Legally
<1>2. PICK in \in Inputs, out \in Outputs : DecodeSplit(in, out)
  BY <1>1, DecodeSplits
<1>3. out \in Outputs /\ Edge(in, out) /\ ctrl_fsm_cs \in {"DECODE", "DECODE_HWLOOP"}
  BY <1>2 DEF DecodeSplit
<1>4. ASSUME NEW exec, NEW jr_stall, Chosen(in, out, exec), jr_stall \in BOOLEAN,
             in.id_ready => ~jr_stall, ExecSpec(exec, in.id_ready, jr_stall)
      PROVE  HartInv'
  <2>1. CommonSpec(exec)
    BY <1>4 DEF ExecSpec
  <2>2. CASE (illegal_insn \/ kind \in {"ecall", "ebreak"}) /\ TrapOut(exec, in.id_ready)
    BY <1>4, <2>1, <2>2, TrapKeepsHart
  <2>3. CASE /\ ~illegal_insn /\ ctrl_fsm_cs = "DECODE" /\ kind \in {"jal", "jalr"}
             /\ JumpOut(exec, jr_stall)
    BY <1>4, <2>1, <2>3, JumpKeepsHart
  <2>4. CASE /\ ~illegal_insn /\ kind \in {"csr", "mie", "skip", "dcsr", "wfi", "fencei", "mret", "dret"}
             /\ IsStatusCsr \/ ctrl_fsm_cs = "DECODE"
             /\ kind = "wfi" => ~debug_q.step
             /\ FlushingOut(exec, in.id_ready)
             /\ in.id_ready => exec.dec = IF IsStatusCsr THEN {k \in Loops : IsLast(k, pc_id)} ELSE {}
    BY <1>4, <2>1, <2>4, FlushKeepsHart
  <2>5. CASE /\ ~illegal_insn /\ ctrl_fsm_cs = "DECODE" /\ ~IsStatusCsr
             /\ kind \notin {"jal", "jalr", "ecall", "ebreak", "fencei", "mret", "dret"}
             /\ PlainDecodeOut(exec)
    BY <1>4, <2>1, <2>5, PlainDecodeKeepsHart
  <2>6. CASE /\ ~illegal_insn /\ ctrl_fsm_cs = "DECODE_HWLOOP" /\ ~IsStatusCsr
             /\ kind \notin {"ecall", "ebreak"} /\ PlainLoopOut(exec)
    BY <1>4, <2>1, <2>6, PlainLoopKeepsHart
  <2> QED BY <1>4, <2>2, <2>3, <2>4, <2>5, <2>6 DEF ExecSpec
<1>5. CASE ctrl_fsm_cs = "DECODE" /\ branch_taken_ex /\ out = JumpTo(Idle, ex.to)
  BY <1>1, <1>3, <1>5, BranchKeepsHart
<1>6. CASE ~branch_taken_ex /\ ~instr_valid_id /\ out = Idle
  BY <1>1, <1>3, <1>6, EmptyKeepsHart
<1>7. CASE /\ ValidSpec /\ ~debug_mode_q
           /\ out = [Halted EXCEPT !.ns = "DBG_FLUSH", !.entry = TRUE, !.illegal = Decoding.illegal]
  BY <1>1, <1>3, <1>7, CalledKeepsHart
<1>8. CASE ValidSpec /\ irq_req_ctrl /\ ~debug_mode_q /\ out = [TakenIrq("id") EXCEPT !.illegal = Decoding.illegal]
  BY <1>1, <1>3, <1>8, IrqKeepsHart
<1> QED BY <1>2, <1>4, <1>5, <1>6, <1>7, <1>8 DEF DecodeSplit

-----------------------------------------------------------------------------
(* The invariant of programs whose loops are legal *)

\* HartInv holds after reset.
LEMMA InitHart == Init => HartInv
<1> SUFFICES ASSUME Init PROVE HartInv
  OBVIOUS
<1>1. /\ ctrl_fsm_cs = "RESET" /\ hart.pc = BOOT /\ hart.debug = FALSE /\ hart.mepc = 0 /\ hart.depc = 0
      /\ hart.lpcount = [k \in {0, 1} |-> 0] /\ ex.kind = "none" /\ debug_q.step = FALSE
      /\ debug_mode_q = FALSE /\ instr_valid_id = FALSE /\ hwlp_update_pc_q = FALSE
      /\ hwlp_counter_q = [k \in {0, 1} |-> 0] /\ mepc_q = 0 /\ depc_q = 0 /\ instr_id.lo = pc_id
  BY DEF Init, FetchStageInit, HwloopInit, ControllerInit, TrapInit, HartInit, NoOp, Loops
<1>2. InstrInv /\ BranchInv /\ UpdateInv /\ PcInv
  BY <1>1 DEF InstrInv, BranchInv, UpdateInv, PcInv
<1>3. SavedInv
  BY <1>1 DEF SavedInv, LoopsAreCounted
<1>4. StepInv
  BY <1>1 DEF StepInv, Stepping, Leaving
<1> QED BY <1>1, <1>2, <1>3, <1>4 DEF HartInv

\* It survives a stuttering step.
LEMMA UnchangedHart == HartInv /\ UNCHANGED vars => HartInv'
<1> SUFFICES ASSUME HartInv, UNCHANGED vars PROVE HartInv'
  OBVIOUS
<1> USE DEF vars, alignerVars, hwloopVars, controllerVars, trapVars, hartVars
<1>1. AlignerInv' = AlignerInv /\ InstrInv' = InstrInv
  BY DEF AlignerInv, InstrInv
<1>2. /\ kind' = kind /\ illegal_insn' = illegal_insn /\ branch_taken_ex' = branch_taken_ex
      /\ Stepping' = Stepping /\ IsStatusCsr' = IsStatusCsr /\ Trapping' = Trapping /\ Leaving' = Leaving
      /\ Called' = Called
  BY DEF kind, illegal_insn, branch_taken_ex, Stepping, IsStatusCsr, Trapping, Leaving, Called,
         trigger_match, ebrk_force_debug_mode
<1>3. SavedInv' /\ BranchInv' /\ UpdateInv' /\ StepInv'
  BY <1>2 DEF HartInv, SavedInv, LoopsAreCounted, BranchInv, UpdateInv, StepInv
<1>4. AtDecode' = AtDecode
  BY <1>2 DEF AtDecode
<1>5. AtLoop' = AtLoop
  BY <1>2 DEF AtLoop, InRound, Within, Active, IsLast, IsLastButOne, Turns, Ahead
<1>6. AtFlush' = AtFlush
  BY <1>2 DEF AtFlush, IsLast, hwlp_targ_addr, Within
<1>7. PcInv'
  BY <1>2, <1>4, <1>5, <1>6 DEF HartInv, PcInv
<1> QED BY <1>1, <1>3, <1>7 DEF HartInv

\* Every step between states with legal loops keeps it.
LEMMA NextKeepsHart ==
    FlowInv /\ FlowInv' /\ LoopsAreLegal /\ LoopsAreLegal' /\ HartInv /\ [Next]_vars => HartInv'
<1> SUFFICES ASSUME Legally, [Next]_vars PROVE HartInv'
  BY DEF Legally
<1>1. FlowInv /\ HartInv
  BY DEF Legally
<1>2. CASE Next
  BY <1>1, <1>2, ResetKeepsHart, BootKeepsHart, SleepsKeepHart, FirstKeepsHart, DecodeKeepsHart,
     FlushExKeepsHart, FlushWbKeepsHart, XretKeepsHart, DbgWaitKeepsHart, DbgFlushKeepsHart,
     DbgIdKeepsHart, DbgIfKeepsHart DEF Next
<1>3. CASE UNCHANGED vars
  BY <1>1, <1>3, UnchangedHart
<1> QED BY <1>2, <1>3

\* It always holds of a program whose loops are always legal.
LEMMA HartInvariant == Spec /\ []LoopsAreLegal => []HartInv
BY FlowInvariant, InitHart, NextKeepsHart, PTL DEF Spec

\* The core follows the hart where HartInv holds.
LEMMA HartInvFollows == FlowInv /\ HartInv => FollowsTheHart
<1> SUFFICES ASSUME FlowInv, HartInv PROVE FollowsTheHart
  OBVIOUS
<1>1. DecodesTheNextInstruction
  <2> SUFFICES ASSUME ctrl_fsm_cs \in {"DECODE", "DECODE_HWLOOP"}, instr_valid_id,
                      ~(ctrl_fsm_cs = "DECODE" /\ branch_taken_ex)
               PROVE  /\ pc_id = hart.pc /\ instr_id.lo = pc_id
                      /\ instr_id.wide = (pc_id \in Wide)
                      /\ instr_id.wide => instr_id.hi = Plus(pc_id, 1)
    BY DEF DecodesTheNextInstruction
  <2>1. ValidSpec
    BY Valid
  <2> QED BY <2>1 DEF ValidSpec, InstrInv
<1>2. TrapsArePrecise /\ LoopsAreCounted
  BY DEF HartInv, SavedInv, TrapsArePrecise
<1> QED BY <1>1, <1>2 DEF FollowsTheHart

\* FollowsTheHart: a program that keeps the constraints of hardware loops is run in order, one
\* instruction after the other, whatever stalls, interrupts and debug requests come between;
\* mepc, dpc and the loop counters are those of the architecture.
THEOREM HartIsFollowed == Spec /\ []LoopsAreLegal => []FollowsTheHart
BY FlowInvariant, HartInvariant, HartInvFollows, PTL

-----------------------------------------------------------------------------
(* Actions *)

\* A cycle in which debug mode is not entered and the prefetcher is told of no loop that
\* is not turned in time.
Ordinary == (debug_mode_q' => debug_mode_q)
            /\ (turned' => next = (pc_id + 2) \div 2 /\ after = SuccWord(next))

\* So is a cycle in which the controller does not ask for either.
LEMMA Plainly ==
    ASSUME FlowInv, NEW in \in Inputs, NEW out \in Outputs, Edge(in, out),
           out.debug_mode => debug_mode_q, ~out.hwlp_end_4
    PROVE  Ordinary
<1>1. EdgeSpec(in, out) /\ SavesSpec(in, out)
  BY EdgeFlags, EdgeSaves DEF FlowInv
<1> QED BY <1>1 DEF EdgeSpec, SavesSpec, hwlp_jump, Ordinary

\* The last word of the body is the next one in the prefetch buffer when the loop is turned.
LEMMA TurnsInTime ==
    ASSUME FlowInv, LoopsAreLegal, ValidSpec, ctrl_fsm_cs = "DECODE_HWLOOP", NEW k \in Loops, Ahead(k),
           ~hwlp_end_4_id_q
    PROVE  next = (pc_id + 2) \div 2 /\ after = SuccWord(next)
<1>1. TimeSpec /\ ~hwlp_update_pc_q
  BY InTime
<1>2. AlignerInv /\ next \in Words
  BY DEF ValidSpec, FlowInv, FlowType, FetchType
<1>3. (2 * next) \div 2 = next
  BY <1>2, HalvesOfWord
<1> QED BY <1>1, <1>2, <1>3 DEF AlignerInv, TimeSpec

\* DECODE and DECODE_HWLOOP turn loops in time.
LEMMA DecodeIsOrdinary ==
    ASSUME FlowInv, HartInv, LoopsAreLegal, InDecode(Inputs)
    PROVE  Ordinary
<1>1. PICK in \in Inputs, out \in Outputs : DecodeSplit(in, out)
  BY DecodeSplits
<1>2. out \in Outputs /\ Edge(in, out)
  BY <1>1 DEF DecodeSplit
<1>3. EdgeSpec(in, out) /\ SavesSpec(in, out)
  BY <1>2, EdgeFlags, EdgeSaves DEF FlowInv
<1>4. ASSUME NEW exec, Chosen(in, out, exec), CommonSpec(exec)
      PROVE  Ordinary
  <2>1. WrapSpec(in, out, exec) /\ ValidSpec
    BY <1>4, Wrap DEF Chosen
  <2>2. out.debug_mode = debug_mode_q /\ hwlp_jump(out) = hwlp_jump(exec)
    BY <1>4, <2>1 DEF WrapSpec, CommonSpec, hwlp_jump
  <2>3. CASE hwlp_jump(out)
    <3>1. PICK k \in Loops : Ahead(k)
      BY <1>4, <2>2, <2>3 DEF CommonSpec
    <3>2. ctrl_fsm_cs = "DECODE_HWLOOP" /\ ~hwlp_end_4_id_q
      BY <1>4, <2>2, <2>3 DEF CommonSpec, hwlp_jump
    <3>3. next = (pc_id + 2) \div 2 /\ after = SuccWord(next)
      BY <2>1, <3>1, <3>2, TurnsInTime
    <3> QED BY <1>3, <2>2, <3>3 DEF EdgeSpec, Ordinary
  <2>4. CASE ~hwlp_jump(out)
    BY <1>3, <2>2, <2>4 DEF EdgeSpec, SavesSpec, Ordinary
  <2> QED BY <2>3, <2>4
<1>5. CASE out.debug_mode = debug_mode_q /\ ~out.hwlp_end_4
  BY <1>2, <1>5, Plainly
<1>6. \/ out.debug_mode = debug_mode_q /\ ~out.hwlp_end_4
      \/ \E exec, jr_stall : Chosen(in, out, exec) /\ ExecSpec(exec, in.id_ready, jr_stall)
  <2>1. /\ JumpTo(Idle, ex.to).debug_mode = debug_mode_q /\ ~JumpTo(Idle, ex.to).hwlp_end_4
        /\ Idle.debug_mode = debug_mode_q /\ ~Idle.hwlp_end_4
    BY DEF JumpTo, Idle
  <2>2. ASSUME out = [Halted EXCEPT !.ns = "DBG_FLUSH", !.entry = TRUE, !.illegal = Decoding.illegal]
        PROVE  out.debug_mode = debug_mode_q /\ ~out.hwlp_end_4
    BY <2>2 DEF Halted, Idle
  <2>3. ASSUME out = [TakenIrq("id") EXCEPT !.illegal = Decoding.illegal]
        PROVE  out.debug_mode = debug_mode_q /\ ~out.hwlp_end_4
    BY <2>3 DEF TakenIrq, JumpTo, Halted, Idle
  <2> QED BY <1>1, <2>1, <2>2, <2>3 DEF DecodeSplit
<1> QED BY <1>4, <1>5, <1>6 DEF ExecSpec

\* In the states in which nothing is decoded.
Calm(in, out) ==
    /\ out \in Outputs /\ Edge(in, out) /\ (out.debug_mode => debug_mode_q)
    /\ ~out.hwlp_end_4 /\ out.dec = {}

\* They turn no loop and do not enter debug mode.
LEMMA OthersAreCalm ==
    ASSUME FlowInv,
           \/ InReset(Inputs, BOOLEAN) \/ InBoot(Inputs) \/ InWait(Inputs) \/ InSleep(Inputs)
           \/ InFirst(Inputs) \/ InFlushEx(Inputs, BOOLEAN) \/ InFlushWb(Inputs)
           \/ InXret(Inputs) \/ InDbgWait(Inputs) \/ InDbgFlush(Inputs)
    PROVE  \E in \in Inputs, out \in Outputs : Calm(in, out)
<1> USE DEF FlowInv
<1> USE DEF Calm
<1>0. irq_req_ctrl \in BOOLEAN /\ \A in \in Inputs : in.debug_req \in BOOLEAN /\ irq_wu_ctrl(in.irq) \in BOOLEAN
  BY InputTypes DEF irq_req_ctrl, irq_wu_ctrl
<1>1. ASSUME InReset(Inputs, BOOLEAN) PROVE \E in \in Inputs, out \in Outputs : Calm(in, out)
  <2>1. PICK in \in Inputs, enable \in BOOLEAN : Edge(in, Reset(enable))
    BY <1>1 DEF InReset
  <2>2. Calm(in, Reset(enable))
    BY <2>1, SleepyTypes DEF Reset, Idle
  <2> QED BY <2>2
<1>2. ASSUME InBoot(Inputs) PROVE \E in \in Inputs, out \in Outputs : Calm(in, out)
  <2>1. PICK in \in Inputs : Edge(in, BootSet(in.debug_req))
    BY <1>2 DEF InBoot
  <2>2. Calm(in, BootSet(in.debug_req))
    BY <1>0, <2>1, SleepyTypes DEF BootSet, JumpTo, Idle
  <2> QED BY <2>2
<1>3. ASSUME InWait(Inputs) \/ InSleep(Inputs) PROVE \E in \in Inputs, out \in Outputs : Calm(in, out)
  <2>1. PICK in \in Inputs : Edge(in, WaitSleep) \/ Edge(in, Sleep(irq_wu_ctrl(in.irq), in.debug_req))
    BY <1>3 DEF InWait, InSleep
  <2>2. CASE Edge(in, WaitSleep)
    <3>1. Calm(in, WaitSleep)
      BY <1>0, <2>2, SleepyTypes DEF WaitSleep, Halted, Idle
    <3> QED BY <3>1
  <2>3. CASE Edge(in, Sleep(irq_wu_ctrl(in.irq), in.debug_req))
    <3>1. Sleep(irq_wu_ctrl(in.irq), in.debug_req) \in Outputs
      BY <1>0, SleepyTypes
    <3>2. LET out == Sleep(irq_wu_ctrl(in.irq), in.debug_req)
          IN  out.debug_mode = debug_mode_q /\ ~out.hwlp_end_4 /\ out.dec = {}
      BY DEF Sleep, Halted, Idle
    <3> QED BY <2>3, <3>1, <3>2
  <2> QED BY <2>1, <2>2, <2>3
<1>4. ASSUME InFirst(Inputs) PROVE \E in \in Inputs, out \in Outputs : Calm(in, out)
  <2>1. PICK in \in Inputs : Edge(in, FirstFetch(irq_req_ctrl, in.debug_req))
    BY <1>4 DEF InFirst
  <2>2. Calm(in, FirstFetch(irq_req_ctrl, in.debug_req))
    BY <1>0, <2>1, SleepyTypes DEF FirstFetch, TakenIrq, JumpTo, Halted, Idle
  <2> QED BY <2>2
<1>5. ASSUME InFlushEx(Inputs, BOOLEAN) PROVE \E in \in Inputs, out \in Outputs : Calm(in, out)
  <2>1. PICK in \in Inputs, ex_valid \in BOOLEAN : Edge(in, FlushEx(ex_valid))
    BY <1>5 DEF InFlushEx
  <2>2. FlushEx(ex_valid).debug_mode = debug_mode_q /\ ~FlushEx(ex_valid).hwlp_end_4 /\ FlushEx(ex_valid).dec = {}
    BY DEF FlushEx, Halted, Idle
  <2>3. FlushEx(ex_valid) \in Outputs
    BY FlushTypes
  <2> QED BY <2>1, <2>2, <2>3
<1>6. ASSUME InFlushWb(Inputs) PROVE \E in \in Inputs, out \in Outputs : Calm(in, out)
  <2>1. PICK in \in Inputs : Edge(in, FlushWb(in.debug_req)) /\ ctrl_fsm_cs = "FLUSH_WB"
    BY <1>6 DEF InFlushWb
  <2> DEFINE out == FlushWb(in.debug_req)
  <2>2. out.debug_mode = debug_mode_q
    BY <1>0, <2>1, FlushWbOutputs
  <2>3. ~out.hwlp_end_4 /\ out.dec = {}
    BY DEF FlushWb, Trap, AfterStatusCsr, JumpTo, Halted, Idle
  <2>4. out \in Outputs
    BY <1>0, FlushTypes
  <2> HIDE DEF out
  <2>5. Edge(in, out)
    BY <2>1 DEF out
  <2> QED BY <2>2, <2>3, <2>4, <2>5
<1>7. ASSUME InXret(Inputs) PROVE \E in \in Inputs, out \in Outputs : Calm(in, out)
  <2>1. PICK in \in Inputs : Edge(in, XretJump) /\ ctrl_fsm_cs = "XRET_JUMP"
    BY <1>7 DEF InXret
  <2>2. XretJump \in Outputs /\ kind \in {"mret", "dret"}
    BY <2>1, DebugTypes DEF FlowType, ControllerType
  <2>3. (XretJump.debug_mode => debug_mode_q) /\ ~XretJump.hwlp_end_4 /\ XretJump.dec = {}
    BY <2>2 DEF XretJump, JumpTo, Idle
  <2> QED BY <2>1, <2>2, <2>3
<1>8. ASSUME InDbgWait(Inputs) PROVE \E in \in Inputs, out \in Outputs : Calm(in, out)
  <2>1. PICK in \in Inputs : Edge(in, DbgWaitBranch)
    BY <1>8 DEF InDbgWait
  <2>2. Calm(in, DbgWaitBranch)
    BY <2>1, DebugTypes DEF DbgWaitBranch, JumpTo, Idle
  <2> QED BY <2>2
<1>9. ASSUME InDbgFlush(Inputs) PROVE \E in \in Inputs, out \in Outputs : Calm(in, out)
  <2>1. PICK in \in Inputs : Edge(in, DbgFlush)
    BY <1>9 DEF InDbgFlush
  <2>2. Calm(in, DbgFlush)
    BY <2>1, DebugTypes DEF DbgFlush, Halted, Idle
  <2> QED BY <2>2
<1> QED BY <1>1, <1>2, <1>3, <1>4, <1>5, <1>6, <1>7, <1>8, <1>9

\* Debug mode is entered.
Entered ==
    /\ debug_mode_q' /\ ~debug_mode_q =>
         /\ debug_cause_q' = "step" => debug_q.step /\ since_dret = 1
         /\ debug_cause_q' = "haltreq" => debug_req_q
         /\ debug_cause_q' = "trigger" => hart.pc = debug_q.trigger
         /\ debug_cause_q' = "ebreak" => debug_q.ebreakm /\ Program[hart.pc].kind = "ebreak"
         /\ debug_cause_q' \in Causes
    /\ turned' => next = (pc_id + 2) \div 2 /\ after = SuccWord(next)

\* For a trigger, an ebreak or a request.
LEMMA DbgIdEnters ==
    ASSUME FlowInv, HartInv, InDbgId(Inputs)
    PROVE  Entered
<1> USE DEF FlowInv
<1>1. PICK in \in Inputs : Edge(in, DbgTakenId) /\ ctrl_fsm_cs = "DBG_TAKEN_ID"
  BY DEF InDbgId
<1> DEFINE out == DbgTakenId
<1>2. out \in Outputs /\ Edge(in, out)
  BY <1>1, DebugTypes
<1>3. /\ out.hwlp_end_4 = FALSE /\ out.debug_cause = debug_cause
      /\ ~debug_mode_q => out.save = "id" /\ out.debug_save = TRUE
  BY DEF DbgTakenId, IntoDebug, JumpTo, Idle
<1> HIDE DEF out
<1>4. SavesSpec(in, out)
  BY <1>2, EdgeSaves
<1>5. ~turned' /\ (~debug_mode_q => debug_cause_q' = debug_cause)
  BY <1>3, <1>4 DEF SavesSpec, hwlp_jump
<1>6. ~debug_mode_q => pc_id = hart.pc /\ instr_id.lo = hart.pc /\ Called /\ (debug_req_entry_q => debug_req_q \/ trigger_match)
  BY <1>1 DEF HartInv, PcInv, InstrInv, FlagInv
<1>7. ~debug_mode_q => /\ debug_cause \in Causes /\ debug_cause # "step"
                       /\ debug_cause = "haltreq" => debug_req_q
                       /\ debug_cause = "trigger" => hart.pc = debug_q.trigger
                       /\ debug_cause = "ebreak" => debug_q.ebreakm /\ Program[hart.pc].kind = "ebreak"
  <2>1. /\ trigger_match => debug_cause = "trigger"
        /\ ~trigger_match /\ ebrk_force_debug_mode /\ kind = "ebreak" => debug_cause = "ebreak"
        /\ ~trigger_match /\ ~(ebrk_force_debug_mode /\ kind = "ebreak") =>
             debug_cause = IF debug_req_entry_q THEN "haltreq" ELSE "ebreak"
    BY DEF debug_cause
  <2> QED BY <1>6, <2>1 DEF Called, trigger_match, ebrk_force_debug_mode, kind, Causes
<1> QED BY <1>5, <1>7 DEF Entered

\* For a step, or a request that has woken the core.
LEMMA DbgIfEnters ==
    ASSUME FlowInv, HartInv, InDbgIf(Inputs)
    PROVE  Entered
<1> USE DEF FlowInv
<1>1. PICK in \in Inputs : Edge(in, DbgTakenIf) /\ ctrl_fsm_cs = "DBG_TAKEN_IF"
  BY DEF InDbgIf
<1> DEFINE out == DbgTakenIf
<1>2. out \in Outputs /\ Edge(in, out)
  BY <1>1, DebugTypes
<1>3. debug_force_wakeup_q \in BOOLEAN /\ debug_q.step \in BOOLEAN /\ (debug_force_wakeup_q <=> ~debug_q.step)
  BY <1>1 DEF FlagInv, FlowType, ControllerType, TrapType, DebugSettings
<1>4. /\ out.hwlp_end_4 = FALSE /\ out.debug_cause = (IF debug_force_wakeup_q THEN "haltreq" ELSE "step")
      /\ out.save = "if" /\ out.debug_save = TRUE
  BY <1>3 DEF DbgTakenIf, IntoDebug, JumpTo, Idle
<1> HIDE DEF out
<1>5. SavesSpec(in, out)
  BY <1>2, EdgeSaves
<1>6. ~turned' /\ debug_cause_q' = IF debug_force_wakeup_q THEN "haltreq" ELSE "step"
  BY <1>4, <1>5 DEF SavesSpec, hwlp_jump
<1>7. /\ debug_force_wakeup_q => debug_req_q
      /\ ~debug_mode_q /\ debug_q.step => since_dret = 1
  BY <1>1 DEF FlagInv, HartInv, StepInv, Stepping
<1> QED BY <1>3, <1>6, <1>7 DEF Entered, Causes

\* Every step enters debug mode for the cause it notes.
LEMMA NextEnters ==
    ASSUME FlowInv, HartInv, LoopsAreLegal, Next
    PROVE  Entered
<1>1. Ordinary => Entered
  BY DEF Ordinary, Entered
<1>2. CASE InDecode(Inputs) \/ InDbgId(Inputs) \/ InDbgIf(Inputs)
  BY <1>1, <1>2, DecodeIsOrdinary, DbgIdEnters, DbgIfEnters
<1>3. CASE ~(InDecode(Inputs) \/ InDbgId(Inputs) \/ InDbgIf(Inputs))
  <2>1. PICK in \in Inputs, out \in Outputs : Calm(in, out)
    BY <1>3, OthersAreCalm DEF Next
  <2> QED BY <1>1, <2>1, Plainly DEF Calm
<1> QED BY <1>2, <1>3

\* EntersDebugForItsCause: dcsr.cause names a reason that holds of the instruction debug mode is
\* entered at, when several come together.
THEOREM DebugIsEnteredForItsCause == Spec /\ []LoopsAreLegal => EntersDebugForItsCause
<1>1. FlowInv /\ HartInv /\ LoopsAreLegal /\ [Next]_vars =>
        [debug_mode_q' /\ ~debug_mode_q =>
           CASE debug_cause_q' = "step"    -> debug_q.step
             [] debug_cause_q' = "haltreq" -> debug_req_q
             [] debug_cause_q' = "trigger" -> hart.pc = debug_q.trigger
             [] debug_cause_q' = "ebreak"  -> debug_q.ebreakm /\ Program[hart.pc].kind = "ebreak"]_vars
  BY NextEnters DEF Entered, Causes
<1> QED BY <1>1, FlowInvariant, HartInvariant, PTL DEF EntersDebugForItsCause, Spec

\* StepsOneInstruction: between dret and the next entry for a step the hart has run one
\* instruction, or taken one trap.
THEOREM OneInstructionAtATime == Spec /\ []LoopsAreLegal => StepsOneInstruction
<1>1. FlowInv /\ HartInv /\ LoopsAreLegal /\ [Next]_vars =>
        [debug_mode_q' /\ ~debug_mode_q /\ debug_cause_q' = "step" => since_dret = 1]_vars
  BY NextEnters DEF Entered
<1> QED BY <1>1, FlowInvariant, HartInvariant, PTL DEF StepsOneInstruction, Spec

\* LoopsTurnInTime: the prefetch buffer is told of a loop jump when the last word of the body is
\* the next one it hands over, as PrefetchBuffer requires of its inputs.
THEOREM LoopsAreTurnedInTime == Spec /\ []LoopsAreLegal => LoopsTurnInTime
<1>1. FlowInv /\ HartInv /\ LoopsAreLegal /\ [Next]_vars =>
        [turned' => next = (pc_id + 2) \div 2 /\ after = SuccWord(next)]_vars
  BY NextEnters DEF Entered
<1> QED BY <1>1, FlowInvariant, HartInvariant, PTL DEF LoopsTurnInTime, Spec

-----------------------------------------------------------------------------
(* Programs without hardware loops *)

\* The loop registers keep their reset values, and a status CSR instruction is not the
\* last one of a body that ends at address 0.
WithoutLoops ==
    /\ \A addr \in Addresses : Program[addr].kind # "hwloop"
    /\ Program[HALFWORDS - 2].kind \notin {"csr", "mie", "skip", "dcsr"}

\* Loop registers as they are after reset.
NoLoopRuns == \A k \in Loops : hwlp_end_q[k] = 0 /\ hwlp_counter_q[k] = 0

\* 0 is the address behind the last word.
LEMMA OnlyTheLastEnds ==
    ASSUME FlowType, NoLoopRuns, NEW k \in Loops, NEW pc \in Addresses, IsLast(k, pc)
    PROVE  pc = HALFWORDS - 2
<1>1. Plus(pc, 2) = IF pc + 2 < HALFWORDS THEN pc + 2 ELSE pc + 2 - HALFWORDS
  BY PlusIs
<1> QED BY <1>1, Size DEF NoLoopRuns, IsLast, Addresses

\* Then no constraint is at stake.
LEMMA NothingIsIllegal ==
    ASSUME WithoutLoops, FlowType, NoLoopRuns
    PROVE  LoopsAreLegal
<1>1. hart.pc \in Addresses /\ Program[hart.pc].kind # "hwloop"
  BY DEF WithoutLoops, FlowType, HartType
<1>2. \A k \in Loops : ~Active(k)
  BY DEF NoLoopRuns, Active
<1>3. Program[hart.pc].kind \in {"csr", "mie", "skip", "dcsr"} => \A k \in Loops : ~IsLast(k, hart.pc)
  BY <1>1, OnlyTheLastEnds DEF WithoutLoops
<1> QED BY <1>1, <1>2, <1>3 DEF LoopsAreLegal, Loops

\* As a formula, so that it can be used of the next state as well.
NoLoopsFact == WithoutLoops /\ FlowType /\ NoLoopRuns => LoopsAreLegal

\* In a state.
LEMMA NoLoopsNow == NoLoopsFact
BY NothingIsIllegal DEF NoLoopsFact

\* In the next one.
LEMMA NoLoopsNext == NoLoopsFact'
BY NoLoopsNow, PTL

\* No counter goes down.
CountsNone(in, out) ==
    out.dec = {} \/ ~(instr_valid_id /\ (in.id_ready \/ out.halt_id \/ branch_taken_ex))

\* No loop runs after an edge that counts none down.
LEMMA NoneIsStarted ==
    ASSUME WithoutLoops, FlowType, NoLoopRuns, NEW in \in Inputs, NEW out \in Outputs, Edge(in, out),
           CountsNone(in, out)
    PROVE  NoLoopRuns'
<1>1. kind # "hwloop"
  BY DEF kind, WithoutLoops, FlowType, FetchType, Instructions
<1>2. LoopsStay
  BY <1>1, EdgeKeepsLoops DEF CountsNone
<1> QED BY <1>2 DEF LoopsStay, NoLoopRuns

\* DECODE starts no loop: only a status CSR instruction asks for lpend without the count.
LEMMA DecodeStartsNone ==
    ASSUME WithoutLoops, FlowInv, HartInv, NoLoopRuns, InDecode(Inputs)
    PROVE  NoLoopRuns'
<1>1. FlowType /\ LoopsAreLegal
  BY NothingIsIllegal DEF FlowInv
<1>2. PICK in \in Inputs, out \in Outputs : DecodeSplit(in, out)
  BY <1>1, DecodeSplits
<1>3. out \in Outputs /\ Edge(in, out)
  BY <1>2 DEF DecodeSplit
<1>4. ASSUME NEW exec, NEW jr_stall, Chosen(in, out, exec), ExecSpec(exec, in.id_ready, jr_stall)
      PROVE  CountsNone(in, out)
  <2>1. out.dec = exec.dec /\ out.halt_id = exec.halt_id /\ ValidSpec /\ in.id_ready \in BOOLEAN /\ exec.dec \in SUBSET Loops
    BY <1>4, Wrap, InputTypes DEF Chosen, WrapSpec, Outputs
  <2>2. \A k \in Loops : ~Ends(k)
    BY DEF Ends, Active, NoLoopRuns
  <2>3. IsStatusCsr => \A k \in Loops : ~IsLast(k, pc_id)
    <3>1. pc_id \in Addresses /\ kind = Program[pc_id].kind
      BY <1>1, <2>1 DEF ValidSpec, FlowType, FetchType
    <3> QED BY <1>1, <3>1, OnlyTheLastEnds DEF WithoutLoops, IsStatusCsr
  <2>4. CASE FlushingOut(exec, in.id_ready) /\ ~illegal_insn
             /\ (in.id_ready => exec.dec = IF IsStatusCsr THEN {k \in Loops : IsLast(k, pc_id)} ELSE {})
    <3>1. CASE in.id_ready
      BY <2>1, <2>3, <2>4, <3>1 DEF CountsNone
    <3>2. CASE ~in.id_ready
      BY <1>4, <2>1, <2>4, <3>2 DEF CountsNone, ExecSpec, CommonSpec, ValidSpec
    <3> QED BY <3>1, <3>2
  <2> QED BY <1>4, <2>1, <2>2, <2>4 DEF ExecSpec, TrapOut, JumpOut, PlainDecodeOut, PlainLoopOut, CountsNone
<1>5. \/ CountsNone(in, out)
      \/ \E exec, jr_stall : Chosen(in, out, exec) /\ ExecSpec(exec, in.id_ready, jr_stall)
  <2>1. JumpTo(Idle, ex.to).dec = {} /\ Idle.dec = {}
    BY DEF JumpTo, Idle
  <2>2. [Halted EXCEPT !.ns = "DBG_FLUSH", !.entry = TRUE, !.illegal = Decoding.illegal].dec = {}
    BY DEF Halted, Idle
  <2>3. [TakenIrq("id") EXCEPT !.illegal = Decoding.illegal].dec = {}
    BY DEF TakenIrq, JumpTo, Halted, Idle
  <2> QED BY <1>2, <2>1, <2>2, <2>3 DEF DecodeSplit, CountsNone
<1> QED BY <1>1, <1>3, <1>4, <1>5, NoneIsStarted

\* No step starts one.
LEMMA NextStartsNone ==
    ASSUME WithoutLoops, FlowInv, HartInv, NoLoopRuns, [Next]_vars
    PROVE  NoLoopRuns'
<1>1. FlowType
  BY DEF FlowInv
<1>2. CASE InDecode(Inputs)
  BY <1>2, DecodeStartsNone
<1>3. CASE InDbgId(Inputs) \/ InDbgIf(Inputs)
  <2>1. PICK in \in Inputs : Edge(in, DbgTakenId) \/ Edge(in, DbgTakenIf)
    BY <1>3 DEF InDbgId, InDbgIf
  <2>2. DbgTakenId.dec = {} /\ DbgTakenIf.dec = {}
    BY DEF DbgTakenId, DbgTakenIf, IntoDebug, JumpTo, Idle
  <2> QED BY <1>1, <2>1, <2>2, DebugTypes, NoneIsStarted DEF CountsNone
<1>4. CASE Next /\ ~(InDecode(Inputs) \/ InDbgId(Inputs) \/ InDbgIf(Inputs))
  <2>1. PICK in \in Inputs, out \in Outputs : Calm(in, out)
    BY <1>4, OthersAreCalm DEF Next
  <2> QED BY <1>1, <2>1, NoneIsStarted DEF Calm, CountsNone
<1>5. CASE UNCHANGED vars
  BY <1>5 DEF vars, hwloopVars, NoLoopRuns
<1> QED BY <1>2, <1>3, <1>4, <1>5 DEF Next

\* A program without hardware loops keeps their constraints.  This is not a matter of course: the
\* loop registers hold their reset values, and a status CSR instruction counts a loop down that
\* is not in use (controller.sv:604).
THEOREM WithoutLoopsLegally == ASSUME WithoutLoops PROVE Spec => []LoopsAreLegal
<1> DEFINE Inv == FlowInv /\ HartInv /\ NoLoopRuns
<1>1. Init => Inv
  BY InitFlags, InitHart DEF Init, HwloopInit, NoLoopRuns
<1>2. Inv /\ [Next]_vars => Inv'
  <2> SUFFICES ASSUME Inv, [Next]_vars PROVE Inv'
    OBVIOUS
  <2>1. FlowInv' /\ NoLoopRuns' /\ LoopsAreLegal
    BY NextKeepsFlags, NextStartsNone, NothingIsIllegal DEF FlowInv
  <2>2. FlowType'
    BY <2>1 DEF FlowInv
  <2>3. LoopsAreLegal'
    BY <2>1, <2>2, NoLoopsNext DEF NoLoopsFact
  <2> QED BY <2>1, <2>3, NextKeepsHart
<1>3. Inv => LoopsAreLegal
  BY NothingIsIllegal DEF FlowInv
<1> HIDE DEF Inv
<1> QED BY <1>1, <1>2, <1>3, PTL DEF Spec

\* So for programs without hardware loops the order of instructions holds, and the debugger is
\* served as it should, without a condition on the states.
COROLLARY WithoutLoopsTheHartIsFollowed ==
    ASSUME WithoutLoops
    PROVE  Spec => []FollowsTheHart /\ EntersDebugForItsCause /\ StepsOneInstruction
BY WithoutLoopsLegally, HartIsFollowed, DebugIsEnteredForItsCause, OneInstructionAtATime, PTL
=============================================================================
