--------------------------- MODULE InterruptTest ---------------------------
(***************************************************************************)
(* The interrupt test program (example_tb/core/interrupt) on a core that   *)
(* takes interrupts between its instructions, with the testbench's         *)
(* interrupt generator.  Every step is a clock cycle in which the core     *)
(* stalls, enters a handler, or executes one statement of main or of the   *)
(* handler; a statement that shares data with the other side is split into *)
(* its instructions.                                                       *)
(***************************************************************************)
EXTENDS InterruptLines, Matrix

CONSTANTS
    RandomAnswers,  \* what the register behind random_num can answer: {0} in mm_ram
    MAX_STALL       \* cycles in a row in which the core waits for its memories

ASSUME ProgramAssumption ==
    RandomAnswers \subseteq Bits /\ RandomAnswers # {} /\ MAX_STALL \in Nat

VARIABLES
    main, i,                    \* statement of main, and its loop variable
    csr_step,                   \* the next instruction of mstatus_enable or mstatus_disable
    handler, vector, saved_a5,  \* statement of the handler or "none", its interrupt, its stack
    a5, mstatus, mie,           \* the core's registers: sets of the bits that are 1
    irq_id, irq_mode, mmstatus, irq_pending32_std,  \* variables main and the handlers share
    test,                       \* the variables of main
    res,                        \* the rows of the product
    stalled                     \* cycles the core has waited

mainVars == <<main, i, csr_step, test, res>>
handlerVars == <<handler, vector, saved_a5>>
csrVars == <<mstatus, mie>>
sharedVars == <<irq_id, irq_mode, mmstatus, irq_pending32_std>>
vars == <<mainVars, handlerVars, a5, csrVars, sharedVars, stalled, rndStallRegs, generatorVars>>

MSTATUS_MIE_BIT == 3
MSTATUS_MPIE_BIT == 7

STD_IRQ_MASK == {3, 7, 11} \union 16 .. 31

IRQ_NUM == 19
IRQ_ID_PRIORITY == [n \in 1 .. 16 |-> 32 - n] \o <<11, 3, 7>>

\* prev_irq_pending32_std, ie_mask32_std, first_irq_pending32_std and irq_to_test32_std; a
\* word that is not read any more is forgotten.
NoTest == [prev |-> {}, ie |-> {}, first |-> {}, to_test |-> {}]

Init ==
    /\ main = "1mie" /\ i = 1 /\ csr_step = "read"
    /\ handler = "none" /\ vector = 0 /\ saved_a5 = {}
    /\ a5 = {} /\ mstatus = {} /\ mie = {}
    /\ irq_id = 0 /\ irq_mode = OFF /\ mmstatus = {} /\ irq_pending32_std = {}
    /\ test = NoTest /\ res = <<>>
    /\ stalled = 0
    /\ GeneratorInit

-----------------------------------------------------------------------------
(* Instructions.                                                             *)

\* writew to a register of mm_ram, which takes the word at the next edge.
WriteMode(value) == mode' = value /\ UNCHANGED <<min_cycles, max_cycles, lines>>
WriteMin(value) == min_cycles' = value /\ UNCHANGED <<mode, max_cycles, lines>>
WriteMax(value) == max_cycles' = value /\ UNCHANGED <<mode, min_cycles, lines>>
WriteLines(word) == lines' = word /\ UNCHANGED <<mode, min_cycles, max_cycles>>

\* A slip the runs must notice: reserved bits can be written, too.
WriteMieUnmasked(word) == mie' = word /\ UNCHANGED mstatus

\* csrw mie keeps the implemented bits.
WriteMie(word) == mie' = word \intersect IRQ_MASK /\ UNCHANGED mstatus

\* random_num(31, 0), fifty times: any word of bits that can be answered.
RandomWords == SUBSET RandomAnswers \ {{}}

-----------------------------------------------------------------------------
(* The core.                                                                 *)

irq_req == irq_q \intersect mie # {} /\ MSTATUS_MIE_BIT \in mstatus

\* A slip the runs must notice: interrupts stay enabled in the handler.
TakeInterruptNested ==
    /\ irq_req
    /\ handler' = "prologue" /\ vector' = irq_id_ctrl(irq_q \intersect mie)
    /\ mstatus' = {MSTATUS_MIE_BIT, MSTATUS_MPIE_BIT}
    /\ UNCHANGED <<mainVars, saved_a5, a5, mie, sharedVars, rndStallRegs>>

\* The interrupt is taken instead of the next instruction; mstatus.MIE moves to MPIE.
TakeInterrupt ==
    /\ irq_req
    /\ handler' = "prologue" /\ vector' = irq_id_ctrl(irq_q \intersect mie)
    /\ mstatus' = {MSTATUS_MPIE_BIT}
    /\ UNCHANGED <<mainVars, saved_a5, a5, mie, sharedVars, rndStallRegs>>

Mret(status) ==
    {MSTATUS_MPIE_BIT} \union (IF MSTATUS_MPIE_BIT \in status THEN {MSTATUS_MIE_BIT} ELSE {})

-----------------------------------------------------------------------------
(* FAST_IRQ_GENERIC, in a function that saves the registers it uses because  *)
(* isr.h declares it with the attribute interrupt.                           *)

HandlerGo(from, to) == handler = from /\ handler' = to /\ UNCHANGED vector

Prologue ==
    /\ HandlerGo("prologue", "id")
    /\ saved_a5' = a5
    /\ UNCHANGED <<a5, csrVars, sharedVars, rndStallRegs>>

SetIrqId ==
    /\ HandlerGo("id", IF irq_mode = RANDOM THEN "mip" ELSE "clear")
    /\ irq_id' = vector
    /\ UNCHANGED <<saved_a5, a5, csrVars, irq_mode, mmstatus, irq_pending32_std, rndStallRegs>>

ReadMip ==
    /\ HandlerGo("mip", "clear")
    /\ a5' = irq_q
    /\ irq_pending32_std' = irq_q
    /\ UNCHANGED <<saved_a5, csrVars, irq_id, irq_mode, mmstatus, rndStallRegs>>

ClearPending ==
    /\ HandlerGo("clear", "lines")
    /\ irq_pending32_std' = irq_pending32_std \ {irq_id}
    /\ a5' = irq_pending32_std \ {irq_id}
    /\ UNCHANGED <<saved_a5, csrVars, irq_id, irq_mode, mmstatus, rndStallRegs>>

\* A slip the runs must notice: the handler writes the word from before it cleared its bit.
LowerLineLate ==
    /\ HandlerGo("lines", IF irq_mode = RANDOM THEN "std" ELSE "csrr")
    /\ a5' = irq_pending32_std
    /\ WriteLines(irq_pending32_std \union {irq_id})
    /\ UNCHANGED <<saved_a5, csrVars, sharedVars>>

LowerLine ==
    /\ HandlerGo("lines", IF irq_mode = RANDOM THEN "std" ELSE "csrr")
    /\ a5' = irq_pending32_std
    /\ WriteLines(irq_pending32_std)
    /\ UNCHANGED <<saved_a5, csrVars, sharedVars>>

\* A slip the runs must notice: the generator's mode is not changed, so it holds its lines.
SetIrqModeNot(from, to, value) ==
    /\ HandlerGo(from, to)
    /\ UNCHANGED <<saved_a5, a5, csrVars, sharedVars, rndStallRegs>>

\* irq_served only counts for the message at the end.
SetIrqMode(from, to, value) ==
    /\ HandlerGo(from, to)
    /\ irq_mode' = value
    /\ UNCHANGED <<saved_a5, a5, csrVars, irq_id, mmstatus, irq_pending32_std, rndStallRegs>>

WriteIrqMode(from, to) ==
    /\ HandlerGo(from, to)
    /\ WriteMode(irq_mode)
    /\ UNCHANGED <<saved_a5, a5, csrVars, sharedVars>>

\* The handlers of tests 2 and 3 return with interrupts disabled: they clear mstatus.MPIE.
ReadStatus ==
    /\ HandlerGo("csrr", "mask")
    /\ a5' = mstatus
    /\ mmstatus' = mstatus
    /\ UNCHANGED <<saved_a5, csrVars, irq_id, irq_mode, irq_pending32_std, rndStallRegs>>

ClearMpie ==
    /\ HandlerGo("mask", "csrw")
    /\ a5' = mmstatus \ {MSTATUS_MPIE_BIT}
    /\ mmstatus' = mmstatus \ {MSTATUS_MPIE_BIT}
    /\ UNCHANGED <<saved_a5, csrVars, irq_id, irq_mode, irq_pending32_std, rndStallRegs>>

WriteStatus ==
    /\ HandlerGo("csrw", "epilogue")
    /\ a5' = mmstatus
    /\ mstatus' = mmstatus
    /\ UNCHANGED <<saved_a5, mie, sharedVars, rndStallRegs>>

Epilogue ==
    /\ HandlerGo("epilogue", "mret")
    /\ a5' = saved_a5
    /\ UNCHANGED <<saved_a5, csrVars, sharedVars, rndStallRegs>>

Return ==
    /\ HandlerGo("mret", "none")
    /\ mstatus' = Mret(mstatus)
    /\ saved_a5' = {}
    /\ UNCHANGED <<a5, mie, sharedVars, rndStallRegs>>

HandlerStep ==
    /\ ~irq_req
    /\ \/ Prologue \/ SetIrqId \/ ReadMip \/ ClearPending \/ LowerLine
       \/ SetIrqMode("std", "std_write", STANDARD) \/ WriteIrqMode("std_write", "rnd")
       \/ SetIrqMode("rnd", "rnd_write", RANDOM) \/ WriteIrqMode("rnd_write", "epilogue")
       \/ ReadStatus \/ ClearMpie \/ WriteStatus \/ Epilogue \/ Return
    /\ UNCHANGED mainVars

-----------------------------------------------------------------------------
(* main: "2enable" is the statement of test 2 that calls mstatus_enable.     *)

Go(from, to) == main = from /\ main' = to /\ UNCHANGED csr_step

\* mstatus_enable and mstatus_disable work on the variable the handlers use, too.
StatusStep(from, to, set, clear) ==
    /\ main = from
    /\ \/ csr_step = "read" /\ a5' = mstatus /\ UNCHANGED <<mmstatus, mstatus>>
       \/ csr_step = "save" /\ mmstatus' = a5 /\ UNCHANGED <<a5, mstatus>>
       \/ csr_step = "load" /\ a5' = mmstatus /\ UNCHANGED <<mmstatus, mstatus>>
       \/ csr_step = "store" /\ mmstatus' = (a5 \union set) \ clear /\ UNCHANGED <<a5, mstatus>>
       \/ csr_step = "reload" /\ a5' = mmstatus /\ UNCHANGED <<mmstatus, mstatus>>
       \/ csr_step = "write" /\ mstatus' = a5 /\ UNCHANGED <<a5, mmstatus>>
    /\ csr_step' = [read |-> "save", save |-> "load", load |-> "store", store |-> "reload",
                    reload |-> "write", write |-> "read"][csr_step]
    /\ main' = IF csr_step = "write" THEN to ELSE from
    /\ UNCHANGED <<i, test, res, mie, irq_id, irq_mode, irq_pending32_std, rndStallRegs>>

mstatus_enable(from, to)  == StatusStep(from, to, {MSTATUS_MIE_BIT}, {})
mstatus_disable(from, to) == StatusStep(from, to, {}, {MSTATUS_MIE_BIT})

Test1 ==
    \/ /\ Go("1mie", "1mode")
       /\ WriteMie(Bits)
       /\ UNCHANGED <<i, test, res, a5, sharedVars, rndStallRegs>>
    \/ /\ Go("1mode", "1disable")
       /\ WriteMode(SOFTWARE_DEFINED)
       /\ UNCHANGED <<i, test, res, a5, csrVars, sharedVars>>
    \/ mstatus_disable("1disable", "2mie")

\* Tests 2 and 3 serve one interrupt at a time: sample the pending word, enable interrupts,
\* wait for a handler to change the word, and compare.
Sample(from, to) ==
    /\ Go(from, to)
    /\ test' = [test EXCEPT !.prev = irq_pending32_std]
    /\ UNCHANGED <<i, res, a5, csrVars, sharedVars, rndStallRegs>>

Wait(from, to) ==
    /\ Go(from, IF test.prev = irq_pending32_std THEN from ELSE to)
    /\ UNCHANGED <<i, test, res, a5, csrVars, sharedVars, rndStallRegs>>

Compare(from, next, end, error) ==
    /\ Go(from, IF IRQ_ID_PRIORITY[i] # irq_id THEN error ELSE IF i < IRQ_NUM THEN next ELSE end)
    /\ i' = IF i < IRQ_NUM THEN i + 1 ELSE 1
    /\ UNCHANGED <<test, res, a5, csrVars, sharedVars, rndStallRegs>>

Test2 ==
    \/ /\ Go("2mie", "2pending")
       /\ WriteMie(Bits)
       /\ UNCHANGED <<i, test, res, a5, sharedVars, rndStallRegs>>
    \/ /\ Go("2pending", "2disable")
       /\ irq_pending32_std' = Bits
       /\ UNCHANGED <<i, test, res, a5, csrVars, irq_id, irq_mode, mmstatus, rndStallRegs>>
    \/ mstatus_disable("2disable", "2write")
    \/ /\ Go("2write", "2sample")
       /\ WriteLines(irq_pending32_std)
       /\ UNCHANGED <<i, test, res, a5, csrVars, sharedVars>>
    \/ Sample("2sample", "2enable")
    \/ mstatus_enable("2enable", "2wait")
    \/ Wait("2wait", "2check")
    \/ Compare("2check", "2sample", "3mie", "err2")

Test3 ==
    \/ /\ Go("3mie", "3pending")
       /\ \E word \in RandomWords :
            /\ test' = [NoTest EXCEPT !.ie = word \intersect STD_IRQ_MASK]
            /\ WriteMie(word \intersect STD_IRQ_MASK)
       /\ irq_id' = 0 /\ irq_pending32_std' = {}
       /\ UNCHANGED <<i, res, a5, irq_mode, mmstatus, rndStallRegs>>
    \/ /\ Go("3pending", "3disable")
       /\ \E word \in RandomWords :
            LET pending == word \intersect STD_IRQ_MASK
            IN  /\ irq_pending32_std' = pending
                /\ test' = [test EXCEPT !.first = pending, !.to_test = pending \intersect test.ie]
       /\ UNCHANGED <<i, res, a5, csrVars, irq_id, irq_mode, mmstatus, rndStallRegs>>
    \/ mstatus_disable("3disable", "3write")
    \/ /\ Go("3write", "3next")
       /\ WriteLines(irq_pending32_std)
       /\ UNCHANGED <<i, test, res, a5, csrVars, sharedVars>>
    \/ /\ IRQ_ID_PRIORITY[i] \in test.to_test
       /\ Sample("3next", "3enable")
    \/ /\ IRQ_ID_PRIORITY[i] \notin test.to_test
       /\ Go("3next", IF i < IRQ_NUM THEN "3next" ELSE "3end")
       /\ i' = IF i < IRQ_NUM THEN i + 1 ELSE 1
       /\ UNCHANGED <<test, res, a5, csrVars, sharedVars, rndStallRegs>>
    \/ mstatus_enable("3enable", "3wait")
    \/ Wait("3wait", "3check")
    \/ Compare("3check", "3next", "3end", "err3")
    \/ /\ Go("3end", IF irq_pending32_std = test.first \ test.ie THEN "5disable" ELSE "err3")
       /\ test' = NoTest
       /\ UNCHANGED <<i, res, a5, csrVars, sharedVars, rndStallRegs>>

Test5 ==
    \/ mstatus_disable("5disable", "5mie")
    \/ /\ Go("5mie", "5min")
       /\ WriteMie(Bits)
       /\ UNCHANGED <<i, test, res, a5, sharedVars, rndStallRegs>>
    \/ /\ Go("5min", "5max")
       /\ WriteMin(MIN_CYCLES)
       /\ UNCHANGED <<i, test, res, a5, csrVars, sharedVars>>
    \/ /\ Go("5max", "5rnd")
       /\ WriteMax(MAX_CYCLES)
       /\ UNCHANGED <<i, test, res, a5, csrVars, sharedVars>>
    \/ /\ Go("5rnd", "5mode")
       /\ irq_mode' = RANDOM
       /\ UNCHANGED <<i, test, res, a5, csrVars, irq_id, mmstatus, irq_pending32_std, rndStallRegs>>
    \/ /\ Go("5mode", "5enable")
       /\ WriteMode(irq_mode)
       /\ UNCHANGED <<i, test, res, a5, csrVars, sharedVars>>
    \/ mstatus_enable("5enable", "5mult")
    \/ /\ Go("5mult", IF i < MAT_DIM THEN "5mult" ELSE "5end")
       /\ res' = Append(res, MultipliedRow(i))
       /\ i' = IF i < MAT_DIM THEN i + 1 ELSE 1
       /\ UNCHANGED <<test, a5, csrVars, sharedVars, rndStallRegs>>
    \/ mstatus_disable("5end", "5check")
    \/ /\ Go("5check", IF res = res_expected THEN "done" ELSE "err5")
       /\ UNCHANGED <<i, test, res, a5, csrVars, sharedVars, rndStallRegs>>

Ends == {"done", "err2", "err3", "err5"}

\* After the program crt0.S only waits.
Ended == main \in Ends /\ UNCHANGED <<mainVars, a5, csrVars, sharedVars, rndStallRegs>>

MainStep ==
    /\ ~irq_req /\ handler = "none"
    /\ Test1 \/ Test2 \/ Test3 \/ Test5 \/ Ended
    /\ UNCHANGED handlerVars

-----------------------------------------------------------------------------
Stall ==
    /\ stalled < MAX_STALL
    /\ stalled' = stalled + 1
    /\ UNCHANGED <<mainVars, handlerVars, a5, csrVars, sharedVars, rndStallRegs>>

Execute == stalled' = 0 /\ (TakeInterrupt \/ HandlerStep \/ MainStep)

Next == (Stall \/ Execute) /\ GeneratorEdge

Spec == Init /\ [][Next]_vars

\* The clock ticks; that the core does not stall for ever is MAX_STALL.
FairSpec == Spec /\ WF_vars(Next)

-----------------------------------------------------------------------------
\* Every variable is in its range.
TypeOK ==
    /\ i \in 1 .. IRQ_NUM
    /\ vector \in Bits /\ irq_id \in Bits
    /\ irq_mode \in {OFF, STANDARD, RANDOM}
    /\ {a5, saved_a5, irq_pending32_std} \subseteq SUBSET Bits
    /\ mie \subseteq IRQ_MASK
    /\ {mstatus, mmstatus} \subseteq SUBSET {MSTATUS_MIE_BIT, MSTATUS_MPIE_BIT}
    /\ test \in [{"prev", "ie", "first", "to_test"} -> SUBSET Bits]
    /\ Len(res) <= MAT_DIM
    /\ stalled \in 0 .. MAX_STALL
    /\ GeneratorTypeOK

\* The program succeeds: the core serves what is pending in the order the program expects,
\* each line once and no masked one.  That the product of test 5 is the expected one says
\* that the tables of matrix.h agree: no handler touches them.
NoTestFails == main \notin {"err2", "err3", "err5"}

\* A line that its handler has lowered is gone from mip before interrupts are enabled again:
\* the core only takes an interrupt that the program still counts as pending, or that the
\* generator still holds.
ServesWhatIsPending ==
    [][handler = "none" /\ handler' # "none" =>
         vector' \in (IF irq_mode = RANDOM THEN irq_rnd_lines ELSE irq_pending32_std)]_vars

\* main and the handlers share mmstatus without a lock: no handler that uses it, and no
\* second handler, runs while main changes mstatus through it.
StatusIsNotShared ==
    /\ handler # "none" => MSTATUS_MIE_BIT \notin mstatus
    /\ handler \in {"csrr", "mask", "csrw"} => csr_step = "read"

\* Every wait of the program for a handler ends, and the generator leaves main time to
\* finish: the program ends with success.
Succeeds == <>(main = "done")
=============================================================================
