------------------------------ MODULE HwlpTest ------------------------------
(***************************************************************************)
(* The hardware loop test programs (example_tb/core/hwlp_test): what each  *)
(* is made of and the result the header promises for it.  An instruction   *)
(* is its kind, as Software tells kinds apart, and its effect on "names",  *)
(* the registers and stack slots the programs use.                         *)
(***************************************************************************)
EXTENDS Integers, Sequences

CONSTANTS OUTER, INNER      \* the rounds of the loops: 10 .. 200 in the header

ASSUME RoundsAssumption == OUTER \in Nat \ {0} /\ INNER \in Nat \ {0}

Names == {"x0", "t0", "t1", "t2", "res", "mcycle", "sp_28", "sp_64", "sp_68", "sp_80", "sp_84", "word_24"}

\* The word at address 24, which some programs load, belongs to the boot code.
WORD == 5

NamesInit == [name \in Names |-> IF name = "word_24" THEN WORD ELSE 0]

-----------------------------------------------------------------------------
(* Instructions.                                                             *)

Compute(rd, do, a, b) == [kind |-> "plain", effect |-> [rd |-> rd, do |-> do, a |-> a, b |-> b]]

addi(rd, rs, imm) == Compute(rd, "addi", rs, imm)
add(rd, a, b)     == Compute(rd, "add", a, b)
mul(rd, a, b)     == Compute(rd, "mul", a, b)
div(rd, a, b)     == Compute(rd, "div", a, b)
lw(rd, slot)      == addi(rd, slot, 0)
sw(rs, slot)      == addi(slot, rs, 0)
mv(rd, rs)        == addi(rd, rs, 0)

\* mcountinhibit is set after reset: mcycle keeps what is written.
csrrw(rd, csr, rs) == [kind |-> "csr", effect |-> [rd |-> rd, do |-> "swap", a |-> csr, b |-> rs]]

ecall == [kind |-> "ecall"]
ebreak == [kind |-> "ebreak"]
fence_i == [kind |-> "fencei"]
dret == [kind |-> "illegal"]

\* uimmL is four times the number of instructions of the body.
lp_setupi(loop, count, uimmL) == [kind |-> "hwloop", loop |-> loop, count |-> count, size |-> uimmL \div 4]

\* What an instruction does; no value reaches 2^32 and none that is divided is negative.
Executed(names, effect) ==
    LET a == names[effect.a]
    IN  CASE effect.do = "addi" -> [names EXCEPT ![effect.rd] = a + effect.b]
          [] effect.do = "add"  -> [names EXCEPT ![effect.rd] = a + names[effect.b]]
          [] effect.do = "mul"  -> [names EXCEPT ![effect.rd] = a * names[effect.b]]
          [] effect.do = "div"  -> [names EXCEPT ![effect.rd] = a \div names[effect.b]]
          [] effect.do = "swap" -> [names EXCEPT ![effect.a] = names[effect.b], ![effect.rd] = a]

\* An instruction at addr: a loop begins behind lp.setupi.
Assembled(addr, instr) ==
    IF instr.kind # "hwloop" THEN instr
    ELSE [kind |-> "hwloop", fields |-> {"start", "end", "count"}, loop |-> instr.loop,
          start |-> addr + 2, end |-> addr + 2 + 2 * instr.size, count |-> instr.count]

-----------------------------------------------------------------------------
(* The programs.  TEST3 and TEST5 load from wherever the boot code happens   *)
(* to be and are left out.                                                   *)

HWLP_TEST0 ==
    <<lp_setupi(1, OUTER, 16), addi("t1", "t1", 1), addi("t1", "t1", 2), addi("t1", "t1", 3),
      addi("t2", "t2", 4), mul("t1", "t1", "t2")>>

\* TEST2 is the same with larger counts.
HWLP_TEST1 ==
    <<lp_setupi(1, OUTER, 44), addi("t1", "t1", 1), addi("t2", "t1", 2), addi("t1", "t2", 3),
      addi("t2", "t2", 4),
      lp_setupi(0, INNER, 12), addi("t1", "t1", 5), addi("t2", "t1", 6), addi("t1", "t2", 7),
      addi("t2", "t2", 8), addi("t2", "t2", 9), addi("t2", "t2", 10), mul("t2", "t1", "t1")>>

\* lp.setup takes its count from t0, which is 0: loop 1 is off.
HWLP_TEST4 ==
    <<addi("t0", "x0", 0), lp_setupi(1, 0, 24), lp_setupi(0, INNER, 12),
      addi("t2", "x0", 1), addi("t1", "x0", 2), lw("t2", "word_24"),
      add("t1", "x0", "t2"), sw("t1", "sp_28"), mul("t0", "t0", "t0")>>

HWLP_TEST6 ==
    <<addi("t0", "x0", 0), lp_setupi(1, OUTER, 24), lp_setupi(0, INNER, 12),
      addi("t2", "x0", 1381), addi("t1", "x0", 17), div("t2", "t2", "t1"),
      lw("t2", "word_24"), div("t1", "t1", "t2"), sw("t1", "sp_28"), mul("t0", "t0", "t0")>>

\* How the tests that are interrupted begin, and the two loops they are made of.
Begin == <<addi("t0", "x0", 6), sw("t0", "sp_64"), addi("t2", "x0", 53), sw("t2", "sp_68")>>

Nested(outer_uimmL, inner_uimmL, body) ==
    <<lp_setupi(1, OUTER, outer_uimmL), lp_setupi(0, INNER, inner_uimmL)>> \o body

AndAdd22 == <<addi("t2", "t2", 13), addi("t2", "t2", 9)>>
AndAdd15 == <<addi("t2", "t2", 15), sw("t2", "sp_80")>>

InMemory == Nested(24, 12, <<lw("t1", "sp_80"), addi("t2", "t1", 1), sw("t2", "sp_80")>> \o AndAdd15)

HWLP_TEST_INTERRUPT0 ==
    Begin \o Nested(24, 12, <<addi("t2", "t2", 1), addi("t2", "t2", 2), addi("t2", "t2", 3)>> \o AndAdd22)
    \o <<sw("t2", "sp_80")>> \o InMemory

\* CSR instructions in the last place but one and in the last place of a loop.
HWLP_TEST_INTERRUPT1 ==
    LET ThroughMcycle ==
            <<csrrw("t2", "mcycle", "t2"), addi("t1", "x0", 0), csrrw("t1", "mcycle", "t1"), mv("t2", "t1")>>
    IN  Begin \o <<addi("t0", "x0", 7)>>
        \o Nested(40, 28, <<addi("t2", "t2", 1), addi("t2", "t2", 2), addi("t2", "t2", 3)>>
                          \o ThroughMcycle \o AndAdd22)
        \o <<sw("t2", "sp_80")>>
        \o Nested(44, 32, <<lw("t1", "sp_80"), addi("t2", "t1", 1)>> \o ThroughMcycle
                          \o <<sw("t2", "sp_80"), csrrw("t1", "mcycle", "t1")>> \o AndAdd15)

\* An illegal instruction in the last place but one.
HWLP_TEST_INTERRUPT2 ==
    Begin \o <<addi("t1", "x0", 7)>>
    \o Nested(28, 16, <<addi("t2", "t2", 1), addi("t2", "t2", 2), dret, addi("t2", "t2", 3)>> \o AndAdd22)
    \o <<sw("t2", "sp_80")>> \o InMemory

\* An illegal instruction in the last place: the handler leads behind the loop.
HWLP_TEST_INTERRUPT3 ==
    Begin \o <<addi("t1", "x0", 7)>>
    \o Nested(28, 16, <<addi("t2", "t2", 1), addi("t2", "t2", 2), addi("t2", "t2", 3), dret>> \o AndAdd22)
    \o <<sw("t2", "sp_80")>> \o InMemory

\* Divisions stall the end of the loops.
HWLP_TEST_INTERRUPT4 ==
    LET DivBy5 ==
            <<addi("t1", "x0", 5), addi("t0", "t2", 41), addi("t2", "t0", 171), div("t2", "t2", "t1")>>
    IN  <<addi("t0", "x0", 3), sw("t0", "sp_80"), addi("t0", "x0", 85), sw("t0", "sp_84"),
          addi("t2", "x0", 53), sw("t2", "sp_68"), addi("t1", "x0", 3)>>
        \o Nested(40, 16, <<addi("t0", "t2", 21), addi("t0", "t0", 10), addi("t2", "t0", 75),
                            div("t2", "t2", "t1")>> \o DivBy5 \o <<addi("t1", "x0", 3)>>)
        \o Nested(44, 20, <<addi("t2", "t2", 21), lw("t1", "sp_84"), add("t2", "t1", "t1"),
                            lw("t1", "sp_80"), div("t2", "t2", "t1")>> \o DivBy5 \o <<lw("t1", "sp_80")>>)

-----------------------------------------------------------------------------
(* The results, as the header computes them; for the others, by counting     *)
(* what is added.                                                            *)

RES_EXPECTED0 == 53 + 6 * OUTER * INNER + 22 * OUTER + OUTER * INNER + 15 * OUTER
RES_EXPECTED1 == RES_EXPECTED0
RES_EXPECTED2 == RES_EXPECTED0
RES_EXPECTED4 == 53
AFTER_TEST_INTERRUPT3 == 53 + OUTER * (6 + 22) + OUTER * (INNER + 15)

AFTER_TEST0 == 24 * OUTER * OUTER
AFTER_TEST1 == AFTER_TEST0 + OUTER * (6 + 18 * INNER)
AFTER_TEST2 == AFTER_TEST1 + OUTER * (6 + 18 * INNER)

\* The tests for interrupts end with mv %0, t2, and so does every test here: what is handed
\* out is the result.
HandsOut(reg, result) == [kind |-> "plain", effect |-> mv("res", reg).effect, result |-> result]

\* main, and after it the tests for interrupts, each with the result to be found in a register.
Section(code, reg, result) == code \o <<HandsOut(reg, result)>>

Main ==
    Section(<<ecall>> \o HWLP_TEST0, "t1", AFTER_TEST0)
    \o Section(<<ebreak>> \o HWLP_TEST1, "t2", AFTER_TEST1 * AFTER_TEST1)
    \o Section(<<ecall>> \o HWLP_TEST1, "t2", AFTER_TEST2 * AFTER_TEST2)
    \o Section(<<ebreak, fence_i, ebreak, ecall, ecall>> \o HWLP_TEST4, "t1", WORD)
    \o Section(<<ecall, fence_i>> \o HWLP_TEST6, "sp_28", 17 \div WORD)
    \o Section(<<ecall>> \o HWLP_TEST_INTERRUPT0, "t2", RES_EXPECTED0)
    \o Section(<<ecall>> \o HWLP_TEST_INTERRUPT4, "t2", RES_EXPECTED4)
    \o Section(<<ecall>> \o HWLP_TEST_INTERRUPT1, "t2", RES_EXPECTED1)
    \o Section(<<ecall>> \o HWLP_TEST_INTERRUPT3, "t2", AFTER_TEST_INTERRUPT3)
    \o Section(<<ecall>> \o HWLP_TEST_INTERRUPT2, "t2", RES_EXPECTED2)
=============================================================================
