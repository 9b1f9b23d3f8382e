--------------------------- MODULE InterruptLines ---------------------------
(***************************************************************************)
(* The interrupts of the example testbench: the registers of mm_ram that   *)
(* a program writes, the processes of the interrupt generator behind them, *)
(* and the core's registered interrupt inputs with their priorities.  Every *)
(* step is a clock edge; a word of lines is the set of the bits that are 1. *)
(***************************************************************************)
EXTENDS Integers, Sequences, SequencesExt

CONSTANTS
    WordBits,       \* the lines a random word is drawn from, 26 .. 31 in mm_ram
    MIN_CYCLES,     \* RND_IRQ_MIN_CYCLES, 100 in the program
    MAX_CYCLES      \* RND_IRQ_MAX_CYCLES, 200 in the program

ASSUME GeneratorAssumption ==
    /\ WordBits \subseteq 26 .. 31 /\ WordBits # {}
    /\ MIN_CYCLES \in Nat /\ MAX_CYCLES \in Nat /\ MIN_CYCLES <= MAX_CYCLES

VARIABLES
    mode, min_cycles, max_cycles, lines,    \* rnd_stall_regs 10, 11, 12 and 14
    irq_mode_q,
    sd_at, irq_sd_lines,                    \* the process of the software defined lines
    rnd_at, wait_cycles, irq_rnd_lines,     \* the process of the random lines
    irq_lines_q,                            \* what the generator drives
    irq_q                                   \* what the core has registered, and mip

rndStallRegs == <<mode, min_cycles, max_cycles, lines>>
generatorVars == <<irq_mode_q, sd_at, irq_sd_lines, rnd_at, wait_cycles, irq_rnd_lines,
                   irq_lines_q, irq_q>>

OFF == 0
STANDARD == 1
RANDOM == 2
SOFTWARE_DEFINED == 4

Bits == 0 .. 31
IRQ_MASK == {3, 7, 11} \union 16 .. 31

-----------------------------------------------------------------------------
(* The core's side.                                                          *)

\* A slip the runs must notice: the timer goes before the software interrupt.
IrqOrderTimerFirst ==
    [i \in 1 .. 16 |-> 32 - i] \o <<15, 14, 13, 12, 11, 7, 3, 10, 2, 6, 9, 1, 5, 8, 0, 4>>

\* The encoder, highest priority first.
IrqOrder == [i \in 1 .. 16 |-> 32 - i] \o <<15, 14, 13, 12, 11, 3, 7, 10, 2, 6, 9, 1, 5, 8, 0, 4>>

irq_id_ctrl(qualified) ==
    IrqOrder[CHOOSE i \in DOMAIN IrqOrder :
               /\ IrqOrder[i] \in qualified
               /\ \A j \in 1 .. i - 1 : IrqOrder[j] \notin qualified]

-----------------------------------------------------------------------------
(* The testbench's side.                                                     *)

\* irq_lines_n, for given words of the two processes.
Driven(sd, rnd) ==
    CASE irq_mode_q = RANDOM -> rnd
      [] irq_mode_q = SOFTWARE_DEFINED -> sd
      [] OTHER -> {}

GeneratorInit ==
    /\ mode = OFF /\ min_cycles = 0 /\ max_cycles = 0 /\ lines = {}
    /\ irq_mode_q = OFF
    /\ sd_at = "wait" /\ irq_sd_lines = {}
    /\ rnd_at = "start" /\ wait_cycles = 0 /\ irq_rnd_lines = {}
    /\ irq_lines_q = {} /\ irq_q = {}

\* Where the software defined process waits next, once the mode is right.
SdLoop(word) == IF word # {} THEN "sample" ELSE "pause"

\* wait(irq_mode_q == SOFTWARE_DEFINED) goes on as soon as the mode is there, without a clock.
SdWait == IF irq_mode_q' = SOFTWARE_DEFINED THEN SdLoop(lines') ELSE "wait"

SdEdge ==
    \/ /\ sd_at = "sample"
       /\ irq_sd_lines' = lines \intersect IRQ_MASK
       /\ sd_at' = SdLoop(lines)
    \/ /\ sd_at = "pause"
       /\ sd_at' = IF irq_mode_q = SOFTWARE_DEFINED THEN SdLoop(lines) ELSE SdWait
       /\ UNCHANGED irq_sd_lines
    \/ /\ sd_at = "wait"
       /\ sd_at' = SdWait
       /\ UNCHANGED irq_sd_lines

\* The random process waits for an edge, then for the mode RANDOM ("await"), draws the cycles,
\* counts them and one edge more, raises the lines and holds them until the mode is STANDARD.
RndWait ==
    /\ rnd_at \in {"start", "await"}
    /\ IF irq_mode_q' = RANDOM \/ (rnd_at = "start" /\ irq_mode_q = RANDOM)
       THEN rnd_at' = "count" /\ wait_cycles' \in min_cycles' + 1 .. max_cycles' + 1
       ELSE rnd_at' = "await" /\ UNCHANGED wait_cycles
    /\ UNCHANGED irq_rnd_lines

RndCount ==
    /\ rnd_at = "count" /\ wait_cycles > 1
    /\ wait_cycles' = wait_cycles - 1
    /\ UNCHANGED <<rnd_at, irq_rnd_lines>>

RndRaise(word) ==
    /\ rnd_at = "count" /\ wait_cycles = 1
    /\ wait_cycles' = 0
    /\ IF STANDARD \in {irq_mode_q, irq_mode_q'}
       THEN rnd_at' = "start" /\ irq_rnd_lines' = {}
       ELSE rnd_at' = "hold" /\ irq_rnd_lines' = word

RndHold ==
    /\ rnd_at = "hold"
    /\ IF irq_mode_q' = STANDARD
       THEN rnd_at' = "start" /\ irq_rnd_lines' = {}
       ELSE UNCHANGED <<rnd_at, irq_rnd_lines>>
    /\ UNCHANGED wait_cycles

\* The processes assign their words at the very edge that samples irq_lines_n: the simulator
\* decides whether the old or the new word gets there.
Sampled(rnd) == irq_lines_q' \in {Driven(irq_sd_lines, irq_rnd_lines), Driven(irq_sd_lines', rnd)}

GeneratorEdge ==
    /\ irq_mode_q' = mode
    /\ irq_q' = irq_lines_q
    /\ SdEdge
    /\ \/ (RndWait \/ RndCount \/ RndHold) /\ Sampled(irq_rnd_lines)
       \/ \E word \in SUBSET WordBits \ {{}} : RndRaise(word) /\ Sampled(word)

-----------------------------------------------------------------------------
GeneratorTypeOK ==
    /\ {mode, irq_mode_q} \subseteq {OFF, STANDARD, RANDOM, SOFTWARE_DEFINED}
    /\ min_cycles \in {0, MIN_CYCLES} /\ max_cycles \in {0, MAX_CYCLES}
    /\ lines \subseteq Bits
    /\ sd_at \in {"wait", "sample", "pause"}
    /\ rnd_at \in {"start", "await", "count", "hold"}
    /\ wait_cycles \in 0 .. MAX_CYCLES + 1
    /\ irq_rnd_lines \subseteq WordBits
    /\ irq_sd_lines \subseteq IRQ_MASK /\ irq_lines_q \subseteq IRQ_MASK /\ irq_q \subseteq IRQ_MASK
=============================================================================
