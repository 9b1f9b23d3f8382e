------------------------------ MODULE Pipeline ------------------------------
(***************************************************************************)
(* The way of values through the pipeline: operands from the register file *)
(* and the two forwarding paths into the EX stage, results from the ALU,   *)
(* the load-store unit and the FPU over the two write ports back into the  *)
(* register file, and the stalls that keep them in order.                  *)
(*                                                                         *)
(* A value is known by what it is worth: it is r when it is the newest     *)
(* value of register r in program order, Old when an instruction issued    *)
(* later writes r, or when it is no finished result at all.                *)
(***************************************************************************)
EXTENDS ApuDispatcher, MulDiv, FiniteSets, Sequences

CONSTANTS
    Instructions,   \* what the decoder may hand over
    Old,            \* a value that is no longer, or not yet, to be read
    NoJump          \* no jalr in ID

ASSUME PipelineAssumption ==
    /\ 0 \in Registers /\ NoAddr \notin Registers \union {Old}
    /\ \A i \in Instructions :
          /\ {i.rd, i.rs} \subseteq Registers
          /\ IF i.kind = "apu" THEN i.lat \in 1 .. 3 ELSE i.lat = 0
          /\ i.post_increment \in BOOLEAN
          /\ i.post_increment => i.kind \in {"load", "store"}

VARIABLES
    ex,             \* ID/EX pipeline register
    wb,             \* EX/WB pipeline register: regfile_we_lsu, regfile_waddr_lsu, the load's value
    cnt_q,          \* load-store unit: transactions under way
    apu_result_q,   \* apu_rvalid_q and apu_result_q: a result that has to wait, or NoAddr
    fpu,            \* FPU: operations under way, oldest first
    regfile,        \* register file
    target          \* value of the register of the last jalr when the jump was made

vars == <<dispatcherVars, mulDivVars, ex, wb, cnt_q, apu_result_q, fpu, regfile, target>>

Lsu == INSTANCE LoadStoreUnit WITH PULP_OBI <- FALSE, wb_ctrl_q <- 0, rdata_q <- 0

Values == Registers \union {Old}

\* Fresh values are worth the register they are for; nothing is kept for x0.
ValueFor(reg) == IF reg = 0 THEN Old ELSE reg
-----------------------------------------------------------------------------
(* What the decoder makes of an instruction *)

alu_we(i) == i.kind \in {"alu", "div", "mulh", "csr", "jalr"} \/ i.post_increment
alu_waddr(i) == IF i.post_increment THEN i.rs ELSE i.rd
mem_we(i) == i.kind = "load"
Written(i) ==
    {reg \in Registers : \/ alu_we(i) /\ reg = alu_waddr(i)
                         \/ (mem_we(i) \/ i.kind = "apu") /\ reg = i.rd}

Bubble(last) ==
    [last EXCEPT !.kind = "bubble", !.alu_we = FALSE, !.result = Old, !.load = Old,
                 !.req = FALSE, !.misaligned = FALSE, !.mem_we = FALSE,
                 !.apu_en = FALSE, !.operand = 0, !.rs = 0, !.addr = 0, !.post_increment = FALSE,
                 !.again = FALSE, !.alu_waddr = 0, !.apu_waddr = 0, !.apu_lat = 0]

\* regfile_waddr_ex_o only changes when a load enters.
IntoEx(i, last, value) ==
    [kind |-> i.kind, alu_we |-> alu_we(i), alu_waddr |-> alu_waddr(i),
     result |-> IF i.kind = "apu" THEN ValueFor(i.rd) ELSE ValueFor(alu_waddr(i)),
     req |-> i.kind \in {"load", "store"}, type |-> "word",
     addr |-> IF i.unaligned THEN 1 ELSE 0, misaligned |-> FALSE,
     mem_we |-> mem_we(i), waddr |-> IF mem_we(i) THEN i.rd ELSE last.waddr,
     load |-> IF mem_we(i) THEN ValueFor(i.rd) ELSE Old,
     apu_en |-> i.kind = "apu", apu_lat |-> i.lat, apu_waddr |-> i.rd,
     rs |-> i.rs, operand |-> value, post_increment |-> i.post_increment, again |-> FALSE]
-----------------------------------------------------------------------------
(* Signals of a cycle.  "in" holds its inputs: gnt and rvalid of the data  *)
(* memory, apu_gnt and apu_rvalid of the FPU, cnt_zero of the divider,     *)
(* jalr, the source of a jalr in ID or NoJump, and is_decoding.            *)

data_misaligned == Lsu!data_misaligned_o(ex)
wb_ready(in) == Lsu!lsu_ready_wb_o(in)

\* The FPU's answer: its oldest operation, or the operation of this cycle.
apu_result_i == IF fpu # <<>> THEN Head(fpu).value ELSE ex.result

\* A slip the runs must notice: whatever the EX stage holds, the result waits for the jalr.
HoldBackJalr_always(in) ==
    /\ in.jalr # NoJump
    /\ ~(in.is_decoding /\ read_dep_for_jalr_o(ex, in.jalr))

HoldBackJalr(in) ==
    /\ in.jalr # NoJump /\ ex.alu_we
    /\ ~(in.is_decoding /\ read_dep_for_jalr_o(ex, in.jalr))

\* Slips the runs must notice: a result of the FPU is taken over while an access
\* is split, while an access is accepted, or during MULH.
HoldBack_no_split(in) ==
    /\ apu_multicycle_o
    /\ \/ (ex.req \/ in.rvalid) /\ ex.alu_we
       \/ mulh_active_o
       \/ HoldBackJalr(in)

HoldBack_no_access(in) ==
    /\ apu_multicycle_o
    /\ data_misaligned \/ ex.misaligned \/ mulh_active_o \/ HoldBackJalr(in)

\* When a result of the FPU must not disturb the ALU write port.
HoldBack(in) ==
    /\ apu_multicycle_o
    /\ \/ data_misaligned \/ ex.misaligned
       \/ (ex.req \/ in.rvalid) /\ ex.alu_we
       \/ mulh_active_o
       \/ HoldBackJalr(in)

apu_valid(in) == ~HoldBack(in) /\ (in.apu_rvalid \/ apu_result_q # NoAddr)
apu_result == IF apu_result_q # NoAddr THEN apu_result_q ELSE apu_result_i
apu_waddr(in) == apu_waddr_o(ex, apu_valid(in))

\* Results of one and of many cycles go to the ALU port, of two to the LSU port.
apu_on_alu_port(in) == apu_valid(in) /\ (apu_singlecycle_o \/ apu_multicycle_o)
apu_on_lsu_port(in) == apu_valid(in) /\ ~apu_singlecycle_o /\ ~apu_multicycle_o

wb_contention(in) == apu_on_alu_port(in) /\ ex.alu_we

apu_stall(in) == stall_o(ex, in.apu_gnt)

units_ready(in) == alu_ready(ex) /\ mult_ready(ex) /\ Lsu!lsu_ready_ex_o(ex, in) /\ wb_ready(in)

ex_ready(in) ==
    \/ ~apu_stall(in) /\ units_ready(in) /\ ~wb_contention(in)
    \/ ex.kind = "branch"
-----------------------------------------------------------------------------
(* Write ports: enable, address and value, as forwarded and as written *)

alu_port(in) ==
    IF apu_on_alu_port(in)
    THEN [fw |-> TRUE, we |-> TRUE, waddr |-> apu_waddr(in), value |-> apu_result]
    ELSE [fw |-> ex.alu_we,
          we |-> ex.alu_we /\ mult_ready(ex) /\ alu_ready(ex) /\ Lsu!lsu_ready_ex_o(ex, in),
          waddr |-> ex.alu_waddr,
          value |-> IF mult_ready(ex) /\ alu_ready(ex) THEN ex.result ELSE Old]

lsu_port(in) ==
    IF wb.we
    THEN [fw |-> TRUE, we |-> ~ex.misaligned /\ wb_ready(in), waddr |-> wb.waddr,
          value |-> IF wb_ready(in) /\ ~ex.misaligned THEN wb.value ELSE Old]
    ELSE [fw |-> apu_on_lsu_port(in), we |-> apu_on_lsu_port(in),
          waddr |-> IF apu_on_lsu_port(in) THEN apu_waddr(in) ELSE 0,
          value |-> IF apu_on_lsu_port(in) THEN apu_result ELSE Old]

Hits(port, reg) == port.fw /\ port.waddr = reg /\ reg # 0

\* A slip the runs must notice: the older load is preferred.
operand_fw_wb_first(in, reg) ==
    CASE Hits(lsu_port(in), reg) -> lsu_port(in).value
      [] Hits(alu_port(in), reg) /\ ~Hits(lsu_port(in), reg) -> alu_port(in).value
      [] OTHER -> regfile[reg]

\* The operand of an instruction in ID: the EX path before the WB path.
operand_fw(in, reg) ==
    CASE Hits(alu_port(in), reg) -> alu_port(in).value
      [] Hits(lsu_port(in), reg) /\ ~Hits(alu_port(in), reg) -> lsu_port(in).value
      [] OTHER -> regfile[reg]

\* The register file: the ALU port wins, x0 is never written.
Write(in) ==
    [reg \in Registers |->
        CASE reg = 0 -> 0
          [] reg # 0 /\ alu_port(in).we /\ alu_port(in).waddr = reg -> alu_port(in).value
          [] reg # 0 /\ ~(alu_port(in).we /\ alu_port(in).waddr = reg)
             /\ lsu_port(in).we /\ lsu_port(in).waddr = reg -> lsu_port(in).value
          [] OTHER -> regfile[reg]]
-----------------------------------------------------------------------------
(* Stalls of the instruction i in ID *)

IsLoadDest(reg) == ex.waddr = reg /\ reg # 0

\* Slips the runs must notice: only the load in EX stalls; a later write may overtake.
load_stall_ex_only(in, i) ==
    /\ ex.req /\ ex.mem_we
    /\ IsLoadDest(i.rs) \/ (alu_we(i) /\ ~data_misaligned /\ ex.waddr = alu_waddr(i))

load_stall_no_waw(in, i) ==
    /\ (ex.req /\ ex.mem_we) \/ (~wb_ready(in) /\ lsu_port(in).fw)
    /\ IsLoadDest(i.rs)

load_stall(in, i) ==
    /\ (ex.req /\ ex.mem_we) \/ (~wb_ready(in) /\ lsu_port(in).fw)
    /\ IsLoadDest(i.rs) \/ (alu_we(i) /\ ~data_misaligned /\ ex.waddr = alu_waddr(i))

jr_stall(in, rs) ==
    \/ Hits(lsu_port(in), rs)
    \/ ex.mem_we /\ IsLoadDest(rs)
    \/ Hits(alu_port(in), rs)
    \/ in.is_decoding /\ read_dep_for_jalr_o(ex, rs)

\* A slip the runs must notice: a result under way may be overwritten.
apu_dep_stall_read(in, i) == dep(ex, apu_valid(in), i.rs)

apu_dep_stall(in, i) ==
    \/ dep(ex, apu_valid(in), i.rs)
    \/ /\ i.kind # "apu"
       /\ \/ alu_we(i) /\ dep(ex, apu_valid(in), alu_waddr(i))
          \/ mem_we(i) /\ dep(ex, apu_valid(in), i.rd)

\* A slip the runs must notice: a CSR access does not wait for the FPU's flags.
csr_apu_stall_none(i) == FALSE

csr_apu_stall(i) == i.kind = "csr" /\ ((ex.apu_en /\ ex.apu_lat \in {2, 3}) \/ active)

id_ready(in, i) ==
    /\ ~data_misaligned /\ ~load_stall(in, i) /\ ~apu_dep_stall(in, i) /\ ~csr_apu_stall(i)
    /\ i.kind = "jalr" => ~jr_stall(in, i.rs)
    /\ ex_ready(in)
-----------------------------------------------------------------------------
(* The clock edge *)

\* What an instruction that enters the EX stage makes old.
Aged(value, written) == IF value \in written THEN Old ELSE value

FpuEdge(in, written) ==
    LET accepted == valid_req(ex) /\ in.apu_gnt
        left     == IF in.apu_rvalid /\ fpu # <<>> THEN Tail(fpu) ELSE fpu
        all      == IF accepted /\ ~(ex.apu_lat = 1)
                    THEN Append(left, [value |-> ex.result, lat |-> ex.apu_lat]) ELSE left
    IN  fpu' = [k \in DOMAIN all |-> [all[k] EXCEPT !.value = Aged(@, written)]]

next_wb(in) ==
    CASE units_ready(in) -> [we |-> ex.mem_we, waddr |-> IF ex.mem_we THEN ex.waddr ELSE 0,
                             value |-> ex.load]
      [] ~units_ready(in) /\ wb_ready(in) -> [we |-> FALSE, waddr |-> 0, value |-> Old]
      [] OTHER -> wb

next_result_q(in) ==
    CASE in.apu_rvalid /\ HoldBack(in) -> apu_result_i
      [] ~HoldBack(in)                 -> NoAddr
      [] OTHER                         -> apu_result_q

\* All that happens at a clock edge but the ID/EX register.
RestOfEdge(in, written) ==
    /\ DispatcherEdge(ex, in.apu_gnt, apu_valid(in))
    /\ MulDivEdge(ex, ex_ready(in), in.cnt_zero)
    /\ FpuEdge(in, written)
    /\ cnt_q' = Lsu!next_cnt(ex, in)
    /\ wb' = [next_wb(in) EXCEPT !.value = Aged(@, written)]
    /\ apu_result_q' = Aged(next_result_q(in), written)
    /\ regfile' = [reg \in Registers |-> Aged(Write(in)[reg], written \ {0})]
    /\ target' = IF in.jalr # NoJump /\ in.is_decoding /\ ~jr_stall(in, in.jalr)
                 THEN [reg |-> in.jalr, value |-> regfile[in.jalr]] ELSE [reg |-> 0, value |-> 0]

\* The second half of a split access: the ALU adds 4 to the address it has just made,
\* which comes back over the forwarding path unless the base register is updated.
SecondHalf(in) ==
    /\ data_misaligned /\ ex_ready(in)
    /\ RestOfEdge(in, {})
    /\ ex' = [ex EXCEPT !.addr = 5, !.misaligned = TRUE, !.alu_we = FALSE,
                        !.operand = IF ~ex.post_increment /\ apu_on_alu_port(in) THEN Old ELSE @]

\* The partial product goes back to operand c over the forwarding path.
MulhStep(in) ==
    /\ multicycle_o
    /\ RestOfEdge(in, {})
    /\ ex' = [ex EXCEPT !.operand = IF apu_on_alu_port(in) THEN Old ELSE @]

\* "again" notes an access that the load-store unit lets go while the EX stage keeps it.
Hold(in) ==
    /\ ~multicycle_o /\ ~ex_ready(in)
    /\ RestOfEdge(in, {})
    /\ ex' = [ex EXCEPT !.alu_we = @ /\ ex.kind # "csr",
                        !.again = @ \/ (ex.req /\ Lsu!lsu_ready_ex_o(ex, in))]

\* Nothing valid comes from ID, or it stalls.
NoInstruction(in) ==
    /\ ~data_misaligned /\ ~multicycle_o /\ ex_ready(in)
    /\ RestOfEdge(in, {})
    /\ ex' = Bubble(ex)

Issue(in, i) ==
    /\ in.is_decoding /\ in.jalr = (IF i.kind = "jalr" THEN i.rs ELSE NoJump)
    /\ ~multicycle_o /\ id_ready(in, i)
    /\ RestOfEdge(in, Written(i))
    /\ ex' = IntoEx(i, ex, operand_fw(in, i.rs))

Init ==
    /\ DispatcherInit /\ MulDivInit
    /\ ex = [kind |-> "bubble", alu_we |-> FALSE, alu_waddr |-> 0, result |-> Old, req |-> FALSE,
             type |-> "word", addr |-> 0, misaligned |-> FALSE, mem_we |-> FALSE, waddr |-> 0,
             load |-> Old, apu_en |-> FALSE, apu_lat |-> 0, apu_waddr |-> 0, rs |-> 0,
             operand |-> 0, post_increment |-> FALSE, again |-> FALSE]
    /\ wb = [we |-> FALSE, waddr |-> 0, value |-> Old]
    /\ cnt_q = 0 /\ apu_result_q = NoAddr /\ fpu = <<>>
    /\ regfile = [reg \in Registers |-> reg]
    /\ target = [reg |-> 0, value |-> 0]

Choice(possible) == IF possible THEN BOOLEAN ELSE {FALSE}

\* The memory answers what it has granted; the FPU answers a class 1 request at once,
\* a class 2 request a cycle later, and others when it likes.
AnswersNow(apu_gnt) ==
    IF fpu = <<>> THEN {valid_req(ex) /\ apu_gnt /\ ex.apu_lat = 1}
    ELSE IF Head(fpu).lat = 2 THEN {TRUE} ELSE BOOLEAN

Inputs(jalr) ==
    UNION {[gnt : Choice(ex.req /\ cnt_q < 2), rvalid : Choice(cnt_q > 0), apu_gnt : {apu_gnt},
            apu_rvalid : AnswersNow(apu_gnt), cnt_zero : Choice(div_state = "DIVIDE"),
            jalr : jalr, is_decoding : BOOLEAN] : apu_gnt \in Choice(valid_req(ex))}

Jalrs == {NoJump} \union {i.rs : i \in {j \in Instructions : j.kind = "jalr"}}

Next ==
    \/ \E in \in Inputs(Jalrs) : SecondHalf(in) \/ MulhStep(in) \/ Hold(in) \/ NoInstruction(in)
    \/ \E i \in Instructions :
          \E in \in Inputs({IF i.kind = "jalr" THEN i.rs ELSE NoJump}) : Issue(in, i)

Spec == Init /\ [][Next]_vars
-----------------------------------------------------------------------------
(* Properties *)

\* Whatever is under way in the FPU, the memory and the multi-cycle units, an instruction
\* computes with the newest values of its registers and keeps them while it stalls, the
\* second half of a split access with the address of its first, and a jalr jumps to the
\* newest value of its register although it cannot use the forwarding paths.
OperandsAreNewest == ex.operand = ex.rs /\ target.value = target.reg

OnItsWay(reg) ==
    \/ ex.kind # "bubble" /\ (ex.alu_we \/ ex.apu_en) /\ ex.result = reg
    \/ ex.mem_we /\ ex.load = reg
    \/ wb.we /\ wb.value = reg
    \/ apu_result_q = reg
    \/ \E k \in DOMAIN fpu : fpu[k].value = reg

\* No result is lost, and none arrives late over a newer one: the newest value of a
\* register is in the register file or on its way there.
NothingIsLost == \A reg \in Registers : regfile[reg] = reg \/ OnItsWay(reg)

\* The dispatcher's list is the FPU's: every result finds the register it is for, and a
\* result that has to wait is not overwritten by the next.
SlotsMatchFpu ==
    LET slots == Cardinality({s \in {"inflight", "waiting"} :
                                 (IF s = "inflight" THEN inflight ELSE waiting) # NoAddr})
    IN  slots = Len(fpu) + (IF apu_result_q # NoAddr THEN 1 ELSE 0)

\* An access is requested once: the EX stage lets go of it in the cycle the load-store
\* unit does, although results of the FPU compete for its write port.
AccessesAreMadeOnce == ~ex.again

\* A CSR access sees the flags of every FPU operation before it and none after it.
CsrWaitsForFlags == ex.kind = "csr" => ~active /\ fpu = <<>> /\ apu_result_q = NoAddr
=============================================================================
