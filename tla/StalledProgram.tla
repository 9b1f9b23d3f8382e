--------------------------- MODULE StalledProgram ---------------------------
(***************************************************************************)
(* A program that activates the random stalls and then prints a text, as   *)
(* hello_world does, on a core whose two ports go through the testbench's  *)
(* stall generators.  Every step is a clock edge.  The core is reduced to  *)
(* its order of accesses: it fetches ahead, issues in order, keeps two     *)
(* data accesses under way and waits for a loaded word it stores.          *)
(***************************************************************************)
EXTENDS Integers, Sequences, SequencesExt

CONSTANTS
    TEXT,           \* the characters of the text
    MAX_STALLS,     \* rnd_stall_reg 4 and 5: 0x0a in mem_stall.c, 0x05 in custom_fp
    FIXED_STALLS    \* rnd_stall_reg 6 to 9: 0x00 in mem_stall.c, 0x05 in custom_fp

ASSUME StallAssumption ==
    /\ MAX_STALLS \in 0 .. 15 /\ FIXED_STALLS \in 0 .. 15
    /\ TEXT \in Seq(Nat \ {0})

VARIABLES
    fetch_pc, buffer,       \* the next instruction to request, 0 before the boot; those fetched
    loading, a0,            \* whether a load is under way; the word loaded last
    rnd_stall_regs,
    printed, exited,        \* what the testbench's peripherals have seen
    i_grant, i_cnt, i_fifo, i_rdata,
    d_grant, d_cnt, d_fifo, d_rdata

I == INSTANCE StallPort WITH grant <- i_grant, cnt <- i_cnt, fifo <- i_fifo, rdata <- i_rdata
D == INSTANCE StallPort WITH grant <- d_grant, cnt <- d_cnt, fifo <- d_fifo, rdata <- d_rdata

vars == <<fetch_pc, buffer, loading, a0, rnd_stall_regs, printed, exited, I!portVars, D!portVars>>

-----------------------------------------------------------------------------
(* The program: its accesses to data, one instruction each.                  *)

Store(to, value) == [op |-> "set", to |-> to, value |-> value]

activate_random_stall ==
    <<Store(1, 1), Store(0, 1),
      Store(5, MAX_STALLS), Store(7, FIXED_STALLS), Store(9, FIXED_STALLS),
      Store(4, MAX_STALLS), Store(6, FIXED_STALLS), Store(8, FIXED_STALLS),
      Store(3, D!RANDOM), Store(2, D!RANDOM)>>

\* The loop of _write loads every character and stores it to the standard output.
_write ==
    [n \in 1 .. 2 * Len(TEXT) |->
       IF n % 2 = 1 THEN [op |-> "load", to |-> 0, value |-> TEXT[(n + 1) \div 2]]
       ELSE [op |-> "print", to |-> 0, value |-> 0]]

_exit == <<[op |-> "exit", to |-> 0, value |-> 0]>>

Program == activate_random_stall \o _write \o _exit

-----------------------------------------------------------------------------
(* The core and the multiplexers of mm_ram.                                  *)

Instruction == Program[Head(buffer)]

\* A slip the runs must notice: the words under way are not counted.
i_req_eager == fetch_pc \in DOMAIN Program /\ Len(buffer) < 2

i_req == fetch_pc \in DOMAIN Program /\ Len(i_fifo) + Len(buffer) < 2

d_req ==
    /\ buffer # <<>> /\ Len(d_fifo) < 2
    /\ Instruction.op = "print" => ~loading

we == Instruction.op # "load"

i_gnt == IF rnd_stall_regs[0] # 0 THEN i_grant ELSE i_req

\* A slip the runs must notice: writes to the peripherals wait for the stall generator, too.
d_gnt_stalled == IF rnd_stall_regs[1] # 0 THEN d_grant ELSE d_req

\* perip_gnt: every store of this program goes to a peripheral, which never waits.
d_gnt == we \/ (IF rnd_stall_regs[1] # 0 THEN d_grant ELSE d_req)

InstrKnobs ==
    [en |-> rnd_stall_regs[0], mode |-> rnd_stall_regs[2], max |-> rnd_stall_regs[4],
     fixed |-> rnd_stall_regs[8]]
DataKnobs ==
    [en |-> rnd_stall_regs[1], mode |-> rnd_stall_regs[3], max |-> rnd_stall_regs[5],
     fixed |-> rnd_stall_regs[9]]

Init ==
    /\ fetch_pc = 0 /\ buffer = <<>> /\ loading = FALSE /\ a0 = 0
    /\ rnd_stall_regs = [r \in 0 .. 15 |-> 0]
    /\ printed = <<>> /\ exited = FALSE
    /\ I!PortInit /\ D!PortInit

InstrPort ==
    LET push == i_req /\ i_gnt
        answered == IF I!rvalid THEN Append(buffer, I!Answer) ELSE buffer
    IN  /\ fetch_pc' = IF push \/ fetch_pc = 0 THEN fetch_pc + 1 ELSE fetch_pc
        /\ buffer' = IF d_req /\ d_gnt THEN Tail(answered) ELSE answered
        /\ i_rdata' = IF i_req THEN fetch_pc ELSE i_rdata
        /\ I!AnswerEdge(push, FALSE, InstrKnobs)

\* The memory reads in every cycle of a request, granted or not.
DataPort ==
    LET push == d_req /\ d_gnt
        load == d_req /\ Instruction.op = "load"
    IN  /\ loading' = ((load /\ d_gnt) \/ (loading /\ ~(D!rvalid /\ ~Head(d_fifo).we)))
        /\ a0' = IF D!rvalid /\ ~Head(d_fifo).we THEN D!Answer ELSE a0
        /\ d_rdata' = IF load THEN Instruction.value ELSE 0
        /\ D!AnswerEdge(push, d_req /\ we, DataKnobs)

\* The peripherals act on a request and do not look at its grant.
Peripherals ==
    LET op == IF d_req THEN Instruction.op ELSE "none"
    IN  /\ rnd_stall_regs' = IF op = "set"
                             THEN [rnd_stall_regs EXCEPT ![Instruction.to] = Instruction.value]
                             ELSE rnd_stall_regs
        /\ printed' = IF op = "print" THEN Append(printed, a0) ELSE printed
        /\ exited' = (exited \/ op = "exit")

Next ==
    /\ InstrPort /\ DataPort /\ Peripherals
    /\ I!GrantEdge(i_req, i_req', InstrKnobs')
    /\ D!GrantEdge(d_req, d_req', DataKnobs')

Spec == Init /\ [][Next]_vars

\* The clock ticks.
FairSpec == Spec /\ WF_vars(Next)

-----------------------------------------------------------------------------
Entries(words) == [we : BOOLEAN, delay : 0 .. MAX_STALLS, data : words, fresh : BOOLEAN]

\* Every variable is in its range, and the answers fit in the FIFOs of riscv_rvalid_stall,
\* which do not look whether they are full.
TypeOK ==
    /\ fetch_pc \in 0 .. Len(Program) + 1
    /\ Len(buffer) <= 2 /\ Range(buffer) \subseteq 1 .. Len(Program)
    /\ loading \in BOOLEAN /\ a0 \in Range(TEXT) \union {0}
    /\ exited \in BOOLEAN
    /\ i_cnt \in 0 .. MAX_STALLS /\ d_cnt \in 0 .. MAX_STALLS
    /\ Len(i_fifo) <= 8 /\ Range(i_fifo) \subseteq Entries(0 .. Len(Program))
    /\ Len(d_fifo) <= 8 /\ Range(d_fifo) \subseteq Entries(Range(TEXT) \union {0})

\* A request that waits is counted down: the counter of riscv_gnt_stall never passes zero under
\* a request it has not granted, also when a peripheral took the request it was counting for.
CountdownIsAlive ==
    /\ i_req /\ ~i_grant /\ rnd_stall_regs[0] # 0 => i_cnt >= 1
    /\ d_req /\ ~d_grant /\ rnd_stall_regs[1] # 0 => d_cnt >= 1

\* The standard output gets every character once and in order, whatever the delays, and all of
\* them before the program exits.
TextIsPrinted ==
    /\ IsPrefix(printed, TEXT)
    /\ exited => printed = TEXT

\* The stalls delay the program and never stop it.
Exits == <>exited
=============================================================================
