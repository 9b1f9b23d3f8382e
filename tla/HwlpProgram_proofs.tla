-------------------------- MODULE HwlpProgram_proofs --------------------------
(***************************************************************************)
(* The hardware loop tests leave the results their header promises.  The   *)
(* registers are followed from one instruction of main to the next, the    *)
(* software around the tests by what the layout says of it, and the core   *)
(* by the proofs of InstructionFlow.                                       *)
(***************************************************************************)
EXTENDS HwlpProgram, InstructionFlow_proofs

--------------------------------------------------------------------------------
\* The registers and the loops along the tests.

\* The address of the program at which it goes on.
Outer(pc) ==
    CASE pc = MTVEC -> Following(hart.mepc)
      [] pc \in {IRQ_VECTOR, Following(MTVEC)} -> hart.mepc
      [] OTHER -> pc

\* The address the program was left at where the debugger is in, and where it is otherwise.
Pc == IF hart.debug THEN hart.depc ELSE hart.pc

\* The address at which the program goes on once a handler or the debugger is through with it.
Resume == Outer(Pc)

\* The number of instructions of main.
Length == Len(Main)

\* An instruction that is not executed but refused, and which the handler skips.
IsTrap(instr) == instr.kind \in {"ecall", "ebreak", "illegal"}

\* Loop j ends behind the kth instruction of the tests.
EndsAt(j, k) == hwlp_end_q[j] = At(k + 1) /\ hart.lpcount[j] > 0

\* The registers the tests use, and the counts of the loops.
Shape == DOMAIN names = Names /\ hart.lpcount[0] \in Nat /\ hart.lpcount[1] \in Nat

\* The program goes on with the kth instruction of the tests.
OnTo(k) == Resume' = At(k)

\* Loop j stays as it is.
LoopKept(j) == hwlp_start_q'[j] = hwlp_start_q[j] /\ hwlp_end_q'[j] = hwlp_end_q[j] /\ hart'.lpcount[j] = hart.lpcount[j]

\* The kth instruction is followed by the next one, and no loop changes.
Passes(k) == OnTo(k + 1) /\ LoopKept(0) /\ LoopKept(1)

\* The kth instruction sets up loop j over the next size instructions for count rounds.
SetsUp(k, j, size, count) ==
    /\ OnTo(k + 1)
    /\ hwlp_start_q'[j] = At(k + 1) /\ hwlp_end_q'[j] = At(k + 1 + size)
    /\ hart'.lpcount[j] = count
    /\ LoopKept(1 - j)

\* The kth instruction is the last of a round of loop j.
TurnsBack(j, k) ==
    /\ hwlp_start_q'[j] = hwlp_start_q[j] /\ hwlp_end_q'[j] = hwlp_end_q[j]
    /\ hart'.lpcount[j] = hart.lpcount[j] - 1
    /\ LoopKept(1 - j)
    /\ IF hart.lpcount[j] > 1 THEN Resume' = hwlp_start_q[j] ELSE OnTo(k + 1)

\* The registers take the values an effect gives them.
Computes(effect) == \A x \in Names : names'[x] = Executed(names, effect)[x]

\* What the kth instruction of the tests does to the registers, the loops and the place in main.
TestStep(k) ==
    LET instr == Main[k]
    IN  /\ IF "effect" \in DOMAIN instr THEN Computes(instr.effect) ELSE names' = names
        /\ (~EndsAt(0, k) /\ ~EndsAt(1, k)) \/ IsTrap(instr) =>
             IF instr.kind = "hwloop" THEN SetsUp(k, instr.loop, instr.size, instr.count) ELSE Passes(k)
        /\ ~IsTrap(instr) /\ instr.kind # "hwloop" =>
             /\ EndsAt(0, k) /\ ~EndsAt(1, k) => TurnsBack(0, k)
             /\ EndsAt(1, k) /\ ~EndsAt(0, k) => TurnsBack(1, k)

\* What no test writes.
Frame == names["x0"] = 0 /\ names["word_24"] = WORD

\* Loop j is off, or in a round of n.
Off(j) == hart.lpcount[j] = 0

\* Loop j runs from the instruction from up to the one before behind and has one to n rounds left.
Loop(j, from, behind, n) ==
    /\ hwlp_start_q[j] = At(from) /\ hwlp_end_q[j] = At(behind) /\ hart.lpcount[j] \in 1 .. n

\* The code lies in main behind the bth instruction.
Placed(code, b) == b \in Nat /\ \A k \in 1 .. Len(code) : Main[b + k] = code[k]

\* A register takes a value and the others keep theirs.
Sets(rd, value) == names'[rd] = value /\ \A x \in Names \ {rd} : names'[x] = names[x]

\* The registers the tests compute with, by their names in hwlp.h.
t0 == names["t0"]
t1 == names["t1"]
t2 == names["t2"]

\* What the rounds of loop j that are over have added.
Done(n, c, each) == (n - c) * each

\* The address of the tests is a number.
LEMMA TestsInNat == TESTS \in Nat
BY LayoutAssumption

\* What addi, mul, and an instruction without an effect do to the registers.
LEMMA Addi ==
    ASSUME NEW k, NEW rd \in Names, NEW rs \in Names, NEW imm, TestStep(k), Main[k] = addi(rd, rs, imm), Shape
    PROVE  Sets(rd, names[rs] + imm)
BY DEF TestStep, addi, Compute, Sets, Computes, Executed, Shape

LEMMA Mul ==
    ASSUME NEW k, NEW rd \in Names, NEW a \in Names, NEW b \in Names, TestStep(k), Main[k] = mul(rd, a, b), Shape
    PROVE  Sets(rd, names[a] * names[b])
BY DEF TestStep, mul, Compute, Sets, Computes, Executed, Shape

LEMMA NamesKept ==
    ASSUME NEW k, TestStep(k), "effect" \notin DOMAIN Main[k]
    PROVE  names' = names
BY DEF TestStep

\* An instruction that sets no loop up and ends none is followed by the next.
LEMMA Passing ==
    ASSUME NEW k, TestStep(k), Main[k].kind # "hwloop", (~EndsAt(0, k) /\ ~EndsAt(1, k)) \/ IsTrap(Main[k])
    PROVE  Passes(k)
BY DEF TestStep

\* What lp.setupi does where no loop ends.
LEMMA SettingUp ==
    ASSUME NEW k, NEW j, NEW n, NEW u, TestStep(k), Main[k] = lp_setupi(j, n, u), ~EndsAt(0, k), ~EndsAt(1, k)
    PROVE  SetsUp(k, j, u \div 4, n)
BY DEF TestStep, lp_setupi

\* What the last instruction of a loop does to it.
LEMMA Turning ==
    ASSUME NEW k, NEW j \in Loops, TestStep(k), Main[k].kind # "hwloop", ~IsTrap(Main[k]), EndsAt(j, k), ~EndsAt(1 - j, k)
    PROVE  TurnsBack(j, k)
BY DEF TestStep, Loops

\* What the rounds of loop j that are over have added, over one instruction.
SumSpec(j, n, each) ==
    LET D == Done(n, hart.lpcount[j], each)
        N == Done(n, hart'.lpcount[j], each)
    IN
    /\ D \in Int
    /\ hart'.lpcount[j] = n => N = 0
    /\ hart'.lpcount[j] = hart.lpcount[j] => N = D
    /\ hart'.lpcount[j] = hart.lpcount[j] - 1 => N = D + each
    /\ hart.lpcount[j] = 1 => D + each = n * each

\* The sum grows by one round as the count goes down by one; with one round left it is one short of n rounds.
LEMMA Sums ==
    ASSUME NEW j \in {0, 1}, NEW n \in Nat, NEW each \in Nat, Shape
    PROVE  SumSpec(j, n, each)
<1>1. hart.lpcount[j] \in Nat
  BY DEF Shape
<1>2. hart'.lpcount[j] = hart.lpcount[j] - 1 => (n - hart'.lpcount[j]) * each = (n - hart.lpcount[j]) * each + each
  BY <1>1
<1>3. hart.lpcount[j] = 1 => (n - hart.lpcount[j]) * each + each = n * each
  BY <1>1
<1> QED
  BY <1>1, <1>2, <1>3 DEF Done, SumSpec

\* The words of the stack and the counter csr the tests use.
sp_28 == names["sp_28"]
sp_80 == names["sp_80"]
sp_84 == names["sp_84"]
mcycle == names["mcycle"]

\* Loop j does not end behind the kth instruction or a later one.
Past(j, k) == Off(j) \/ (hwlp_end_q[j] \in Nat /\ hwlp_end_q[j] <= At(k))

\* What csrrw does.
Swaps(rd, csr, rs) ==
    /\ names'[csr] = names[rs] /\ names'[rd] = names[csr]
    /\ \A x \in Names \ {rd, csr} : names'[x] = names[x]

\* Three of the tests up to InMemory.
First0 ==
    Begin \o Nested(24, 12, <<addi("t2", "t2", 1), addi("t2", "t2", 2), addi("t2", "t2", 3)>> \o AndAdd22)
    \o <<sw("t2", "sp_80")>>
First2 ==
    Begin \o <<addi("t1", "x0", 7)>>
    \o Nested(28, 16, <<addi("t2", "t2", 1), addi("t2", "t2", 2), dret, addi("t2", "t2", 3)>> \o AndAdd22)
    \o <<sw("t2", "sp_80")>>
First3 ==
    Begin \o <<addi("t1", "x0", 7)>>
    \o Nested(28, 16, <<addi("t2", "t2", 1), addi("t2", "t2", 2), addi("t2", "t2", 3), dret>> \o AndAdd22)
    \o <<sw("t2", "sp_80")>>

\* What add, div and csrrw do.
LEMMA Add ==
    ASSUME NEW k, NEW rd \in Names, NEW a \in Names, NEW b \in Names, TestStep(k), Main[k] = add(rd, a, b), Shape
    PROVE  Sets(rd, names[a] + names[b])
BY DEF TestStep, add, Compute, Sets, Computes, Executed, Shape

LEMMA Div ==
    ASSUME NEW k, NEW rd \in Names, NEW a \in Names, NEW b \in Names, TestStep(k), Main[k] = div(rd, a, b), Shape
    PROVE  Sets(rd, names[a] \div names[b])
BY DEF TestStep, div, Compute, Sets, Computes, Executed, Shape

LEMMA Csrrw ==
    ASSUME NEW k, NEW rd \in Names, NEW csr \in Names, NEW rs \in Names, rd # csr,
           TestStep(k), Main[k] = csrrw(rd, csr, rs), Shape
    PROVE  Swaps(rd, csr, rs)
BY DEF TestStep, csrrw, Compute, Swaps, Computes, Executed, Shape

\* HWLP_TEST0 behind the bth instruction, with its kth instruction next.
Test0(b, k) ==
    LET d == Done(OUTER, hart.lpcount[1], 6)
        e == Done(OUTER, hart.lpcount[1], 4)
    IN
    /\ Frame
    /\ k \in {1, 6, 7} => Off(1)
    /\ k \in 2 .. 5 => Loop(1, b + 2, b + 6, OUTER)
    /\ Off(0)
    /\ k = 1 => t1 = 0 /\ t2 = 0
    /\ k \in 2 .. 5 => t2 = e
    /\ k = 2 => t1 = d
    /\ k = 3 => t1 = d + 1
    /\ k = 4 => t1 = d + 3
    /\ k = 5 => t1 = d + 6
    /\ k = 6 => t1 = OUTER * 6 /\ t2 = OUTER * 4
    /\ k = 7 => t1 = AFTER_TEST0

\* Its instructions.
LEMMA Test0Code ==
    ASSUME NEW b, Placed(HWLP_TEST0, b)
    PROVE
        /\ Main[b + 1] = lp_setupi(1, OUTER, 16) /\ Main[b + 2] = addi("t1", "t1", 1)
        /\ Main[b + 3] = addi("t1", "t1", 2) /\ Main[b + 4] = addi("t1", "t1", 3)
        /\ Main[b + 5] = addi("t2", "t2", 4) /\ Main[b + 6] = mul("t1", "t1", "t2")
BY DEF Placed, HWLP_TEST0

\* Each of them leads from one of its claims to another, and the last one out of the test.
LEMMA Test0Step ==
    ASSUME NEW b, Placed(HWLP_TEST0, b),
           NEW k \in 1 .. 6, Test0(b, k), Shape, TestStep(b + k)
    PROVE  \E n \in 1 .. 7 : OnTo(b + n) /\ Test0(b, n)'
<1> USE TestsInNat, RoundsAssumption
<1>1. b \in Nat
  BY DEF Placed
<1>2. /\ Frame'
      /\ k = 1 => t1' = t1 /\ t2' = t2
      /\ k = 2 => t1' = t1 + 1 /\ t2' = t2
      /\ k = 3 => t1' = t1 + 2 /\ t2' = t2
      /\ k = 4 => t1' = t1 + 3 /\ t2' = t2
      /\ k = 5 => t1' = t1 /\ t2' = t2 + 4
      /\ k = 6 => t1' = t1 * t2 /\ t2' = t2
  <2>1. Frame
    BY DEF Test0
  <2>2. /\ k = 2 => Sets("t1", names["t1"] + 1)
        /\ k = 3 => Sets("t1", names["t1"] + 2)
        /\ k = 4 => Sets("t1", names["t1"] + 3)
        /\ k = 5 => Sets("t2", names["t2"] + 4)
    BY Test0Code, Addi, SMTT(30) DEF Names
  <2>3. /\ k = 1 => names' = names
    BY Test0Code, NamesKept DEF lp_setupi
  <2>4. /\ k = 6 => Sets("t1", names["t1"] * names["t2"])
    BY Test0Code, Mul DEF Names
  <2> QED
    BY <2>1, <2>2, <2>3, <2>4 DEF Sets, Frame, Names, t1, t2
<1>3. k \in (2 .. 4) \cup {6} => Passes(b + k)
  BY <1>1, Test0Code, Passing, SMTT(30) DEF Test0, Off, Loop, EndsAt, At, IsTrap, addi, mul, Compute
<1>4. k = 1 => ~EndsAt(0, b + k) /\ ~EndsAt(1, b + k)
  BY <1>1 DEF Test0, Off, Loop, EndsAt, At
<1>5. k = 1 => SetsUp(b + 1, 1, 16 \div 4, OUTER)
  BY <1>4, Test0Code, SettingUp
<1>6. k = 5 => TurnsBack(1, b + 5)
  BY <1>1, Test0Code, Turning, SMTT(30) DEF Test0, Off, Loop, EndsAt, At, IsTrap, Loops, addi, mul, Compute
<1>7. /\ SumSpec(1, OUTER, 6)
      /\ SumSpec(1, OUTER, 4)
  BY Sums
<1>8. (OUTER * 6) * (OUTER * 4) = AFTER_TEST0
  BY DEF AFTER_TEST0
<1>9. k \in (2 .. 4) \cup {6} => OnTo(b + (k + 1)) /\ Test0(b, k + 1)'
  BY <1>1, <1>2, <1>3, <1>7, <1>8 DEF Test0, Off, Loop, LoopKept, OnTo, At, SumSpec, Passes
<1>10. k = 1 => OnTo(b + (k + 1)) /\ Test0(b, k + 1)'
  BY <1>1, <1>2, <1>5, <1>7, <1>8 DEF Test0, Off, Loop, LoopKept, OnTo, At, SumSpec, SetsUp
<1>11. k = 5 => IF hart.lpcount[1] > 1 THEN OnTo(b + 2) /\ Test0(b, 2)'
              ELSE OnTo(b + 6) /\ Test0(b, 6)'
  BY <1>1, <1>2, <1>6, <1>7, <1>8 DEF Test0, Off, Loop, LoopKept, OnTo, At, SumSpec, TurnsBack
<1> QED
  <2>1. CASE k \in (2 .. 4) \cup {6}
    BY <1>9, <2>1
  <2>2. CASE k = 1
    BY <1>10, <2>2
  <2>3. CASE k = 5
    BY <1>11, <2>3
  <2> QED
    BY <2>1, <2>2, <2>3

\* HWLP_TEST1, which starts with a in t1.
Test1(b, a, k) ==
    LET d == Done(OUTER, hart.lpcount[1], 6 + 18 * INNER)
        e == Done(INNER, hart.lpcount[0], 18)
    IN
    /\ Frame
    /\ k \in {1, 13, 14} => Off(1)
    /\ k \in 2 .. 12 => Loop(1, b + 2, b + 13, OUTER)
    /\ k \in (1 .. 6) \cup (10 .. 14) => Off(0)
    /\ k \in 7 .. 9 => Loop(0, b + 7, b + 10, INNER)
    /\ k = 1 => t1 = a
    /\ k = 2 => t1 = a + d
    /\ k = 3 => t1 = a + d + 1
    /\ k = 4 => t2 = a + d + 3
    /\ k \in {5, 6} => t1 = a + d + 6
    /\ k = 7 => t1 = a + d + 6 + e
    /\ k = 8 => t1 = a + d + 6 + e + 5
    /\ k = 9 => t2 = a + d + 6 + e + 11
    /\ k \in 10 .. 12 => t1 = a + d + 6 + INNER * 18
    /\ k \in {13, 14} => t1 = a + OUTER * (6 + 18 * INNER)
    /\ k = 14 => t2 = t1 * t1

\* Its instructions.
LEMMA Test1Code ==
    ASSUME NEW b, Placed(HWLP_TEST1, b)
    PROVE
        /\ Main[b + 1] = lp_setupi(1, OUTER, 44) /\ Main[b + 2] = addi("t1", "t1", 1)
        /\ Main[b + 3] = addi("t2", "t1", 2) /\ Main[b + 4] = addi("t1", "t2", 3)
        /\ Main[b + 5] = addi("t2", "t2", 4) /\ Main[b + 6] = lp_setupi(0, INNER, 12)
        /\ Main[b + 7] = addi("t1", "t1", 5) /\ Main[b + 8] = addi("t2", "t1", 6)
        /\ Main[b + 9] = addi("t1", "t2", 7) /\ Main[b + 10] = addi("t2", "t2", 8)
        /\ Main[b + 11] = addi("t2", "t2", 9) /\ Main[b + 12] = addi("t2", "t2", 10)
        /\ Main[b + 13] = mul("t2", "t1", "t1")
BY DEF Placed, HWLP_TEST1

\* Each of them leads from one of its claims to another, and the last one out of the test.
LEMMA Test1Step ==
    ASSUME NEW b, Placed(HWLP_TEST1, b),
           NEW a \in Nat,
           NEW k \in 1 .. 13, Test1(b, a, k), Shape, TestStep(b + k)
    PROVE  \E n \in 1 .. 14 : OnTo(b + n) /\ Test1(b, a, n)'
<1> USE TestsInNat, RoundsAssumption
<1>1. b \in Nat
  BY DEF Placed
<1>2. /\ Frame'
      /\ k \in {1, 6} => t1' = t1 /\ t2' = t2
      /\ k = 2 => t1' = t1 + 1 /\ t2' = t2
      /\ k = 3 => t1' = t1 /\ t2' = t1 + 2
      /\ k = 4 => t1' = t2 + 3 /\ t2' = t2
      /\ k = 5 => t1' = t1 /\ t2' = t2 + 4
      /\ k = 7 => t1' = t1 + 5 /\ t2' = t2
      /\ k = 8 => t1' = t1 /\ t2' = t1 + 6
      /\ k = 9 => t1' = t2 + 7 /\ t2' = t2
      /\ k = 10 => t1' = t1 /\ t2' = t2 + 8
      /\ k = 11 => t1' = t1 /\ t2' = t2 + 9
      /\ k = 12 => t1' = t1 /\ t2' = t2 + 10
      /\ k = 13 => t1' = t1 /\ t2' = t1 * t1
  <2>1. Frame
    BY DEF Test1
  <2>2. /\ k = 2 => Sets("t1", names["t1"] + 1)
        /\ k = 3 => Sets("t2", names["t1"] + 2)
        /\ k = 4 => Sets("t1", names["t2"] + 3)
        /\ k = 5 => Sets("t2", names["t2"] + 4)
        /\ k = 7 => Sets("t1", names["t1"] + 5)
        /\ k = 8 => Sets("t2", names["t1"] + 6)
        /\ k = 9 => Sets("t1", names["t2"] + 7)
        /\ k = 10 => Sets("t2", names["t2"] + 8)
        /\ k = 11 => Sets("t2", names["t2"] + 9)
        /\ k = 12 => Sets("t2", names["t2"] + 10)
    BY Test1Code, Addi, SMTT(30) DEF Names
  <2>3. /\ k \in {1, 6} => names' = names
    BY Test1Code, NamesKept DEF lp_setupi
  <2>4. /\ k = 13 => Sets("t2", names["t1"] * names["t1"])
    BY Test1Code, Mul DEF Names
  <2> QED
    BY <2>1, <2>2, <2>3, <2>4 DEF Sets, Frame, Names, t1, t2
<1>3. k \in (2 .. 5) \cup {7, 8, 10, 11, 13} => Passes(b + k)
  BY <1>1, Test1Code, Passing, SMTT(30) DEF Test1, Off, Loop, EndsAt, At, IsTrap, addi, mul, Compute
<1>4. k \in {1, 6} => ~EndsAt(0, b + k) /\ ~EndsAt(1, b + k)
  BY <1>1 DEF Test1, Off, Loop, EndsAt, At
<1>5. /\ k = 1 => SetsUp(b + 1, 1, 44 \div 4, OUTER)
      /\ k = 6 => SetsUp(b + 6, 0, 12 \div 4, INNER)
  <2>1. k = 1 => SetsUp(b + 1, 1, 44 \div 4, OUTER)
    BY <1>4, Test1Code, SettingUp
  <2>2. k = 6 => SetsUp(b + 6, 0, 12 \div 4, INNER)
    BY <1>4, Test1Code, SettingUp
  <2> QED BY <2>1, <2>2
<1>6. /\ k = 9 => TurnsBack(0, b + 9)
      /\ k = 12 => TurnsBack(1, b + 12)
  BY <1>1, Test1Code, Turning, SMTT(30) DEF Test1, Off, Loop, EndsAt, At, IsTrap, Loops, addi, mul, Compute
<1>7. /\ SumSpec(1, OUTER, 6 + 18 * INNER)
      /\ SumSpec(0, INNER, 18)
  <2>1. 6 + 18 * INNER \in Nat
    OBVIOUS
  <2> QED
    BY <2>1, Sums
<1>8. k \in (2 .. 5) \cup {7, 8, 10, 11, 13} => OnTo(b + (k + 1)) /\ Test1(b, a, k + 1)'
  BY <1>1, <1>2, <1>3, <1>7 DEF Test1, Off, Loop, LoopKept, OnTo, At, SumSpec, Passes
<1>9. k \in {1, 6} => OnTo(b + (k + 1)) /\ Test1(b, a, k + 1)'
  BY <1>1, <1>2, <1>5, <1>7 DEF Test1, Off, Loop, LoopKept, OnTo, At, SumSpec, SetsUp
<1>10. k = 9 => IF hart.lpcount[0] > 1 THEN OnTo(b + 7) /\ Test1(b, a, 7)'
              ELSE OnTo(b + 10) /\ Test1(b, a, 10)'
  BY <1>1, <1>2, <1>6, <1>7 DEF Test1, Off, Loop, LoopKept, OnTo, At, SumSpec, TurnsBack
<1>11. k = 12 => IF hart.lpcount[1] > 1 THEN OnTo(b + 2) /\ Test1(b, a, 2)'
              ELSE OnTo(b + 13) /\ Test1(b, a, 13)'
  BY <1>1, <1>2, <1>6, <1>7 DEF Test1, Off, Loop, LoopKept, OnTo, At, SumSpec, TurnsBack
<1> QED
  <2>1. CASE k \in (2 .. 5) \cup {7, 8, 10, 11, 13}
    BY <1>8, <2>1
  <2>2. CASE k \in {1, 6}
    BY <1>9, <2>2
  <2>3. CASE k = 9
    BY <1>10, <2>3
  <2>4. CASE k = 12
    BY <1>11, <2>4
  <2> QED
    BY <2>1, <2>2, <2>3, <2>4

\* HWLP_TEST4: loop 1 is off.
Test4(b, k) ==
    /\ Frame
    /\ Off(1)
    /\ k \in (1 .. 3) \cup (7 .. 10) => Off(0)
    /\ k \in 4 .. 6 => Loop(0, b + 4, b + 7, INNER)
    /\ k = 7 => t2 = WORD
    /\ k \in 8 .. 10 => t1 = WORD

\* Its instructions.
LEMMA Test4Code ==
    ASSUME NEW b, Placed(HWLP_TEST4, b)
    PROVE
        /\ Main[b + 1] = addi("t0", "x0", 0) /\ Main[b + 2] = lp_setupi(1, 0, 24)
        /\ Main[b + 3] = lp_setupi(0, INNER, 12) /\ Main[b + 4] = addi("t2", "x0", 1)
        /\ Main[b + 5] = addi("t1", "x0", 2) /\ Main[b + 6] = lw("t2", "word_24")
        /\ Main[b + 7] = add("t1", "x0", "t2") /\ Main[b + 8] = sw("t1", "sp_28")
        /\ Main[b + 9] = mul("t0", "t0", "t0")
BY DEF Placed, HWLP_TEST4

\* Each of them leads from one of its claims to another, and the last one out of the test.
LEMMA Test4Step ==
    ASSUME NEW b, Placed(HWLP_TEST4, b),
           NEW k \in 1 .. 9, Test4(b, k), Shape, TestStep(b + k)
    PROVE  \E n \in 1 .. 10 : OnTo(b + n) /\ Test4(b, n)'
<1> USE TestsInNat, RoundsAssumption
<1>1. b \in Nat
  BY DEF Placed
<1>2. /\ Frame'
      /\ k \in {2, 3} => t1' = t1 /\ t2' = t2
      /\ k = 1 => t1' = t1 /\ t2' = t2
      /\ k = 4 => t1' = t1 /\ t2' = 0 + 1
      /\ k = 5 => t1' = 0 + 2 /\ t2' = t2
      /\ k = 6 => t1' = t1 /\ t2' = WORD + 0
      /\ k = 7 => t1' = 0 + t2 /\ t2' = t2
      /\ k = 8 => t1' = t1 /\ t2' = t2
      /\ k = 9 => t1' = t1 /\ t2' = t2
  <2>1. Frame
    BY DEF Test4
  <2>2. /\ k = 7 => Sets("t1", names["x0"] + names["t2"])
    BY Test4Code, Add, SMTT(60) DEF Names
  <2>3. /\ k = 1 => Sets("t0", names["x0"] + 0)
        /\ k = 4 => Sets("t2", names["x0"] + 1)
        /\ k = 5 => Sets("t1", names["x0"] + 2)
        /\ k = 6 => Sets("t2", names["word_24"] + 0)
        /\ k = 8 => Sets("sp_28", names["t1"] + 0)
    BY Test4Code, Addi, SMTT(30) DEF Names, lw, sw
  <2>4. /\ k \in {2, 3} => names' = names
    BY Test4Code, NamesKept DEF lp_setupi
  <2>5. /\ k = 9 => Sets("t0", names["t0"] * names["t0"])
    BY Test4Code, Mul DEF Names
  <2> QED
    BY <2>1, <2>2, <2>3, <2>4, <2>5 DEF Sets, Frame, Names, t1, t2
<1>3. k \in (7 .. 9) \cup {1, 4, 5} => Passes(b + k)
  BY <1>1, Test4Code, Passing, SMTT(30) DEF Test4, Off, Loop, EndsAt, At, IsTrap, addi, lw, sw, add, mul, Compute
<1>4. k \in {2, 3} => ~EndsAt(0, b + k) /\ ~EndsAt(1, b + k)
  BY <1>1 DEF Test4, Off, Loop, EndsAt, At
<1>5. /\ k = 2 => SetsUp(b + 2, 1, 24 \div 4, 0)
      /\ k = 3 => SetsUp(b + 3, 0, 12 \div 4, INNER)
  <2>1. k = 2 => SetsUp(b + 2, 1, 24 \div 4, 0)
    BY <1>4, Test4Code, SettingUp
  <2>2. k = 3 => SetsUp(b + 3, 0, 12 \div 4, INNER)
    BY <1>4, Test4Code, SettingUp
  <2> QED BY <2>1, <2>2
<1>6. k = 6 => TurnsBack(0, b + 6)
  BY <1>1, Test4Code, Turning, SMTT(30) DEF Test4, Off, Loop, EndsAt, At, IsTrap, Loops, addi, lw, sw, add, mul,
     Compute
<1>7. k \in (7 .. 9) \cup {1, 4, 5} => OnTo(b + (k + 1)) /\ Test4(b, k + 1)'
  BY <1>1, <1>2, <1>3 DEF Test4, Off, Loop, LoopKept, OnTo, At, WORD, Passes
<1>8. k \in {2, 3} => OnTo(b + (k + 1)) /\ Test4(b, k + 1)'
  BY <1>1, <1>2, <1>5 DEF Test4, Off, Loop, LoopKept, OnTo, At, WORD, SetsUp
<1>9. k = 6 => IF hart.lpcount[0] > 1 THEN OnTo(b + 4) /\ Test4(b, 4)'
              ELSE OnTo(b + 7) /\ Test4(b, 7)'
  BY <1>1, <1>2, <1>6 DEF Test4, Off, Loop, LoopKept, OnTo, At, WORD, TurnsBack
<1> QED
  <2>1. CASE k \in (7 .. 9) \cup {1, 4, 5}
    BY <1>7, <2>1
  <2>2. CASE k \in {2, 3}
    BY <1>8, <2>2
  <2>3. CASE k = 6
    BY <1>9, <2>3
  <2> QED
    BY <2>1, <2>2, <2>3

\* HWLP_TEST6.
Test6(b, k) ==
    /\ Frame
    /\ k \in (9 .. 11) \cup {1, 2} => Off(1)
    /\ k \in 3 .. 8 => Loop(1, b + 3, b + 9, OUTER)
    /\ k \in (1 .. 3) \cup (7 .. 11) => Off(0)
    /\ k \in 4 .. 6 => Loop(0, b + 4, b + 7, INNER)
    /\ k \in 6 .. 8 => t1 = 17
    /\ k = 8 => t2 = WORD
    /\ k = 9 => t1 = 17 \div WORD
    /\ k \in {10, 11} => sp_28 = 17 \div WORD

\* Its instructions.
LEMMA Test6Code ==
    ASSUME NEW b, Placed(HWLP_TEST6, b)
    PROVE
        /\ Main[b + 1] = addi("t0", "x0", 0) /\ Main[b + 2] = lp_setupi(1, OUTER, 24)
        /\ Main[b + 3] = lp_setupi(0, INNER, 12) /\ Main[b + 4] = addi("t2", "x0", 1381)
        /\ Main[b + 5] = addi("t1", "x0", 17) /\ Main[b + 6] = div("t2", "t2", "t1")
        /\ Main[b + 7] = lw("t2", "word_24") /\ Main[b + 8] = div("t1", "t1", "t2")
        /\ Main[b + 9] = sw("t1", "sp_28") /\ Main[b + 10] = mul("t0", "t0", "t0")
BY DEF Placed, HWLP_TEST6

\* Each of them leads from one of its claims to another, and the last one out of the test.
LEMMA Test6Step ==
    ASSUME NEW b, Placed(HWLP_TEST6, b),
           NEW k \in 1 .. 10, Test6(b, k), Shape, TestStep(b + k)
    PROVE  \E n \in 1 .. 11 : OnTo(b + n) /\ Test6(b, n)'
<1> USE TestsInNat, RoundsAssumption
<1>1. b \in Nat
  BY DEF Placed
<1>2. /\ Frame'
      /\ k \in {2, 3} => t1' = t1 /\ t2' = t2 /\ sp_28' = sp_28
      /\ k = 1 => t1' = t1 /\ t2' = t2 /\ sp_28' = sp_28
      /\ k = 4 => t1' = t1 /\ t2' = 0 + 1381 /\ sp_28' = sp_28
      /\ k = 5 => t1' = 0 + 17 /\ t2' = t2 /\ sp_28' = sp_28
      /\ k = 6 => t1' = t1 /\ t2' = t2 \div t1 /\ sp_28' = sp_28
      /\ k = 7 => t1' = t1 /\ t2' = WORD + 0 /\ sp_28' = sp_28
      /\ k = 8 => t1' = t1 \div t2 /\ t2' = t2 /\ sp_28' = sp_28
      /\ k = 9 => t1' = t1 /\ t2' = t2 /\ sp_28' = t1 + 0
      /\ k = 10 => t1' = t1 /\ t2' = t2 /\ sp_28' = sp_28
  <2>1. Frame
    BY DEF Test6
  <2>2. /\ k = 1 => Sets("t0", names["x0"] + 0)
        /\ k = 4 => Sets("t2", names["x0"] + 1381)
        /\ k = 5 => Sets("t1", names["x0"] + 17)
        /\ k = 7 => Sets("t2", names["word_24"] + 0)
        /\ k = 9 => Sets("sp_28", names["t1"] + 0)
    BY Test6Code, Addi, SMTT(30) DEF Names, lw, sw
  <2>3. /\ k = 6 => Sets("t2", names["t2"] \div names["t1"])
        /\ k = 8 => Sets("t1", names["t1"] \div names["t2"])
    <3>1. k = 6 => Sets("t2", names["t2"] \div names["t1"])
      <4>1. Main[b + 6] = div("t2", "t2", "t1")
        BY Test6Code
      <4> QED BY <4>1, Div DEF Names
    <3>2. k = 8 => Sets("t1", names["t1"] \div names["t2"])
      <4>1. Main[b + 8] = div("t1", "t1", "t2")
        BY Test6Code
      <4> QED BY <4>1, Div DEF Names
    <3> QED BY <3>1, <3>2
  <2>4. /\ k \in {2, 3} => names' = names
    BY Test6Code, NamesKept DEF lp_setupi
  <2>5. /\ k = 10 => Sets("t0", names["t0"] * names["t0"])
    BY Test6Code, Mul, SMTT(30) DEF Names
  <2> QED
    BY <2>1, <2>2, <2>3, <2>4, <2>5 DEF Sets, Frame, Names, t1, t2, sp_28
<1>3. k \in {1, 4, 5, 7, 9, 10} => Passes(b + k)
  BY <1>1, Test6Code, Passing, SMTT(30) DEF Test6, Off, Loop, EndsAt, At, IsTrap, addi, lw, sw, mul, div, Compute
<1>4. k \in {2, 3} => ~EndsAt(0, b + k) /\ ~EndsAt(1, b + k)
  BY <1>1 DEF Test6, Off, Loop, EndsAt, At
<1>5. /\ k = 2 => SetsUp(b + 2, 1, 24 \div 4, OUTER)
      /\ k = 3 => SetsUp(b + 3, 0, 12 \div 4, INNER)
  <2>1. k = 2 => SetsUp(b + 2, 1, 24 \div 4, OUTER)
    BY <1>4, Test6Code, SettingUp
  <2>2. k = 3 => SetsUp(b + 3, 0, 12 \div 4, INNER)
    BY <1>4, Test6Code, SettingUp
  <2> QED BY <2>1, <2>2
<1>6. /\ k = 6 => TurnsBack(0, b + 6)
      /\ k = 8 => TurnsBack(1, b + 8)
  BY <1>1, Test6Code, Turning, SMTT(30) DEF Test6, Off, Loop, EndsAt, At, IsTrap, Loops, addi, lw, sw, mul, div,
     Compute
<1>7. k \in {1, 4, 5, 7, 9, 10} => OnTo(b + (k + 1)) /\ Test6(b, k + 1)'
  BY <1>1, <1>2, <1>3 DEF Test6, Off, Loop, LoopKept, OnTo, At, WORD, Passes
<1>8. k \in {2, 3} => OnTo(b + (k + 1)) /\ Test6(b, k + 1)'
  BY <1>1, <1>2, <1>5 DEF Test6, Off, Loop, LoopKept, OnTo, At, WORD, SetsUp
<1>9. k = 6 => IF hart.lpcount[0] > 1 THEN OnTo(b + 4) /\ Test6(b, 4)'
              ELSE OnTo(b + 7) /\ Test6(b, 7)'
  BY <1>1, <1>2, <1>6 DEF Test6, Off, Loop, LoopKept, OnTo, At, WORD, TurnsBack
<1>10. k = 8 => IF hart.lpcount[1] > 1 THEN OnTo(b + 3) /\ Test6(b, 3)'
              ELSE OnTo(b + 9) /\ Test6(b, 9)'
  BY <1>1, <1>2, <1>6 DEF Test6, Off, Loop, LoopKept, OnTo, At, WORD, TurnsBack
<1> QED
  <2>1. CASE k \in {1, 4, 5, 7, 9, 10}
    BY <1>7, <2>1
  <2>2. CASE k \in {2, 3}
    BY <1>8, <2>2
  <2>3. CASE k = 6
    BY <1>9, <2>3
  <2>4. CASE k = 8
    BY <1>10, <2>4
  <2> QED
    BY <2>1, <2>2, <2>3, <2>4

\* InMemory, which starts with a on the stack.  Loop 0 may have been left without an end.
Memory(b, a, k) ==
    LET d == Done(OUTER, hart.lpcount[1], INNER + 15)
        e == Done(INNER, hart.lpcount[0], 1)
    IN
    /\ Frame
    /\ k \in {1, 8} => Off(1)
    /\ k \in 2 .. 7 => Loop(1, b + 2, b + 8, OUTER)
    /\ k \in 6 .. 8 => Off(0)
    /\ k \in {1, 2} => Past(0, b)
    /\ k \in 3 .. 5 => Loop(0, b + 3, b + 6, INNER)
    /\ k = 1 => sp_80 = a
    /\ k = 2 => sp_80 = a + d
    /\ k = 3 => sp_80 = a + d + e
    /\ k = 4 => t1 = a + d + e
    /\ k = 5 => t2 = a + d + e + 1
    /\ k = 6 => t2 = a + d + INNER * 1
    /\ k = 7 => t2 = a + d + INNER * 1 + 15
    /\ k = 8 => t2 = a + OUTER * (INNER + 15)

\* Its instructions.
LEMMA MemoryCode ==
    ASSUME NEW b, Placed(InMemory, b)
    PROVE
        /\ Main[b + 1] = lp_setupi(1, OUTER, 24) /\ Main[b + 2] = lp_setupi(0, INNER, 12)
        /\ Main[b + 3] = lw("t1", "sp_80") /\ Main[b + 4] = addi("t2", "t1", 1)
        /\ Main[b + 5] = sw("t2", "sp_80") /\ Main[b + 6] = addi("t2", "t2", 15)
        /\ Main[b + 7] = sw("t2", "sp_80")
BY DEF Placed, InMemory, Nested, AndAdd15

\* Each of them leads from one of its claims to another, and the last one out of the test.
LEMMA MemoryStep ==
    ASSUME NEW b, Placed(InMemory, b),
           NEW a \in Nat,
           NEW k \in 1 .. 7, Memory(b, a, k), Shape, TestStep(b + k)
    PROVE  \E n \in 1 .. 8 : OnTo(b + n) /\ Memory(b, a, n)'
<1> USE TestsInNat, RoundsAssumption
<1>1. b \in Nat
  BY DEF Placed
<1>2. /\ Frame'
      /\ k \in {1, 2} => t1' = t1 /\ t2' = t2 /\ sp_80' = sp_80
      /\ k = 3 => t1' = sp_80 + 0 /\ t2' = t2 /\ sp_80' = sp_80
      /\ k = 4 => t1' = t1 /\ t2' = t1 + 1 /\ sp_80' = sp_80
      /\ k = 5 => t1' = t1 /\ t2' = t2 /\ sp_80' = t2 + 0
      /\ k = 6 => t1' = t1 /\ t2' = t2 + 15 /\ sp_80' = sp_80
      /\ k = 7 => t1' = t1 /\ t2' = t2 /\ sp_80' = t2 + 0
  <2>1. Frame
    BY DEF Memory
  <2>2. /\ k = 3 => Sets("t1", names["sp_80"] + 0)
        /\ k = 4 => Sets("t2", names["t1"] + 1)
        /\ k = 5 => Sets("sp_80", names["t2"] + 0)
        /\ k = 6 => Sets("t2", names["t2"] + 15)
        /\ k = 7 => Sets("sp_80", names["t2"] + 0)
    BY MemoryCode, Addi, SMTT(30) DEF Names, lw, sw
  <2>3. /\ k \in {1, 2} => names' = names
    BY MemoryCode, NamesKept DEF lp_setupi
  <2> QED
    BY <2>1, <2>2, <2>3 DEF Sets, Frame, Names, t1, t2, sp_80
<1>3. k \in {3, 4, 6} => Passes(b + k)
  BY <1>1, MemoryCode, Passing, SMTT(30) DEF Memory, Off, Loop, EndsAt, At, Past, IsTrap, addi, lw, sw, Compute
<1>4. k \in {1, 2} => ~EndsAt(0, b + k) /\ ~EndsAt(1, b + k)
  BY <1>1 DEF Memory, Off, Loop, EndsAt, At, Past
<1>5. /\ k = 1 => SetsUp(b + 1, 1, 24 \div 4, OUTER)
      /\ k = 2 => SetsUp(b + 2, 0, 12 \div 4, INNER)
  <2>1. k = 1 => SetsUp(b + 1, 1, 24 \div 4, OUTER)
    BY <1>4, MemoryCode, SettingUp
  <2>2. k = 2 => SetsUp(b + 2, 0, 12 \div 4, INNER)
    BY <1>4, MemoryCode, SettingUp
  <2> QED BY <2>1, <2>2
<1>6. /\ k = 5 => TurnsBack(0, b + 5)
      /\ k = 7 => TurnsBack(1, b + 7)
  BY <1>1, MemoryCode, Turning, SMTT(30) DEF Memory, Off, Loop, EndsAt, At, Past, IsTrap, Loops, addi, lw, sw,
     Compute
<1>7. /\ SumSpec(1, OUTER, INNER + 15)
      /\ SumSpec(0, INNER, 1)
  <2>1. INNER + 15 \in Nat
    OBVIOUS
  <2> QED
    BY <2>1, Sums
<1>8. k \in {3, 4, 6} => OnTo(b + (k + 1)) /\ Memory(b, a, k + 1)'
  BY <1>1, <1>2, <1>3, <1>7 DEF Memory, Off, Loop, LoopKept, OnTo, At, SumSpec, Past, Passes
<1>9. k \in {1, 2} => OnTo(b + (k + 1)) /\ Memory(b, a, k + 1)'
  BY <1>1, <1>2, <1>5, <1>7 DEF Memory, Off, Loop, LoopKept, OnTo, At, SumSpec, Past, SetsUp
<1>10. k = 5 => IF hart.lpcount[0] > 1 THEN OnTo(b + 3) /\ Memory(b, a, 3)'
              ELSE OnTo(b + 6) /\ Memory(b, a, 6)'
  BY <1>1, <1>2, <1>6, <1>7 DEF Memory, Off, Loop, LoopKept, OnTo, At, SumSpec, Past, TurnsBack
<1>11. k = 7 => IF hart.lpcount[1] > 1 THEN OnTo(b + 2) /\ Memory(b, a, 2)'
              ELSE OnTo(b + 8) /\ Memory(b, a, 8)'
  BY <1>1, <1>2, <1>6, <1>7 DEF Memory, Off, Loop, LoopKept, OnTo, At, SumSpec, Past, TurnsBack
<1> QED
  <2>1. CASE k \in {3, 4, 6}
    BY <1>8, <2>1
  <2>2. CASE k \in {1, 2}
    BY <1>9, <2>2
  <2>3. CASE k = 5
    BY <1>10, <2>3
  <2>4. CASE k = 7
    BY <1>11, <2>4
  <2> QED
    BY <2>1, <2>2, <2>3, <2>4

\* HWLP_TEST_INTERRUPT0 up to InMemory.
Interrupt0(b, k) ==
    LET d == Done(OUTER, hart.lpcount[1], 6 * INNER + 22)
        e == Done(INNER, hart.lpcount[0], 6)
    IN
    /\ Frame
    /\ k \in (1 .. 5) \cup {12, 13} => Off(1)
    /\ k \in 6 .. 11 => Loop(1, b + 6, b + 12, OUTER)
    /\ k \in (1 .. 6) \cup (10 .. 13) => Off(0)
    /\ k \in 7 .. 9 => Loop(0, b + 7, b + 10, INNER)
    /\ k \in {4, 5} => t2 = 53
    /\ k = 6 => t2 = 53 + d
    /\ k = 7 => t2 = 53 + d + e
    /\ k = 8 => t2 = 53 + d + e + 1
    /\ k = 9 => t2 = 53 + d + e + 3
    /\ k = 10 => t2 = 53 + d + INNER * 6
    /\ k = 11 => t2 = 53 + d + INNER * 6 + 13
    /\ k = 12 => t2 = 53 + OUTER * (6 * INNER + 22)
    /\ k = 13 => sp_80 = 53 + OUTER * (6 * INNER + 22)

\* Its instructions.
LEMMA Interrupt0Code ==
    ASSUME NEW b, Placed(First0, b)
    PROVE
        /\ Main[b + 1] = addi("t0", "x0", 6) /\ Main[b + 2] = sw("t0", "sp_64")
        /\ Main[b + 3] = addi("t2", "x0", 53) /\ Main[b + 4] = sw("t2", "sp_68")
        /\ Main[b + 5] = lp_setupi(1, OUTER, 24) /\ Main[b + 6] = lp_setupi(0, INNER, 12)
        /\ Main[b + 7] = addi("t2", "t2", 1) /\ Main[b + 8] = addi("t2", "t2", 2)
        /\ Main[b + 9] = addi("t2", "t2", 3) /\ Main[b + 10] = addi("t2", "t2", 13)
        /\ Main[b + 11] = addi("t2", "t2", 9) /\ Main[b + 12] = sw("t2", "sp_80")
BY DEF Placed, First0, Begin, Nested, AndAdd22

\* Each of them leads from one of its claims to another, and the last one out of the test.
LEMMA Interrupt0Step ==
    ASSUME NEW b, Placed(First0, b),
           NEW k \in 1 .. 12, Interrupt0(b, k), Shape, TestStep(b + k)
    PROVE  \E n \in 1 .. 13 : OnTo(b + n) /\ Interrupt0(b, n)'
<1> USE TestsInNat, RoundsAssumption
<1>1. b \in Nat
  BY DEF Placed
<1>2. /\ Frame'
      /\ k \in {5, 6} => t2' = t2 /\ sp_80' = sp_80
      /\ k = 1 => t2' = t2 /\ sp_80' = sp_80
      /\ k = 2 => t2' = t2 /\ sp_80' = sp_80
      /\ k = 3 => t2' = 0 + 53 /\ sp_80' = sp_80
      /\ k = 4 => t2' = t2 /\ sp_80' = sp_80
      /\ k = 7 => t2' = t2 + 1 /\ sp_80' = sp_80
      /\ k = 8 => t2' = t2 + 2 /\ sp_80' = sp_80
      /\ k = 9 => t2' = t2 + 3 /\ sp_80' = sp_80
      /\ k = 10 => t2' = t2 + 13 /\ sp_80' = sp_80
      /\ k = 11 => t2' = t2 + 9 /\ sp_80' = sp_80
      /\ k = 12 => t2' = t2 /\ sp_80' = t2 + 0
  <2>1. Frame
    BY DEF Interrupt0
  <2>2. /\ k = 1 => Sets("t0", names["x0"] + 6)
        /\ k = 2 => Sets("sp_64", names["t0"] + 0)
        /\ k = 3 => Sets("t2", names["x0"] + 53)
        /\ k = 4 => Sets("sp_68", names["t2"] + 0)
        /\ k = 7 => Sets("t2", names["t2"] + 1)
        /\ k = 8 => Sets("t2", names["t2"] + 2)
        /\ k = 9 => Sets("t2", names["t2"] + 3)
        /\ k = 10 => Sets("t2", names["t2"] + 13)
        /\ k = 11 => Sets("t2", names["t2"] + 9)
        /\ k = 12 => Sets("sp_80", names["t2"] + 0)
    BY Interrupt0Code, Addi, SMTT(30) DEF Names, sw
  <2>3. /\ k \in {5, 6} => names' = names
    BY Interrupt0Code, NamesKept DEF lp_setupi
  <2> QED
    BY <2>1, <2>2, <2>3 DEF Sets, Frame, Names, t2, sp_80
<1>3. k \in (1 .. 4) \cup {7, 8, 10, 12} => Passes(b + k)
  BY <1>1, Interrupt0Code, Passing, SMTT(30) DEF Interrupt0, Off, Loop, EndsAt, At, IsTrap, addi, sw, Compute
<1>4. k \in {5, 6} => ~EndsAt(0, b + k) /\ ~EndsAt(1, b + k)
  BY <1>1 DEF Interrupt0, Off, Loop, EndsAt, At
<1>5. /\ k = 5 => SetsUp(b + 5, 1, 24 \div 4, OUTER)
      /\ k = 6 => SetsUp(b + 6, 0, 12 \div 4, INNER)
  <2>1. k = 5 => SetsUp(b + 5, 1, 24 \div 4, OUTER)
    BY <1>4, Interrupt0Code, SettingUp
  <2>2. k = 6 => SetsUp(b + 6, 0, 12 \div 4, INNER)
    BY <1>4, Interrupt0Code, SettingUp
  <2> QED BY <2>1, <2>2
<1>6. /\ k = 9 => TurnsBack(0, b + 9)
      /\ k = 11 => TurnsBack(1, b + 11)
  BY <1>1, Interrupt0Code, Turning, SMTT(30) DEF Interrupt0, Off, Loop, EndsAt, At, IsTrap, Loops, addi, sw,
     Compute
<1>7. /\ SumSpec(1, OUTER, 6 * INNER + 22)
      /\ SumSpec(0, INNER, 6)
  <2>1. 6 * INNER + 22 \in Nat
    OBVIOUS
  <2> QED
    BY <2>1, Sums
<1>8. k \in (1 .. 4) \cup {7, 8, 10, 12} => OnTo(b + (k + 1)) /\ Interrupt0(b, k + 1)'
  BY <1>1, <1>2, <1>3, <1>7 DEF Interrupt0, Off, Loop, LoopKept, OnTo, At, SumSpec, Passes
<1>9. k \in {5, 6} => OnTo(b + (k + 1)) /\ Interrupt0(b, k + 1)'
  BY <1>1, <1>2, <1>5, <1>7 DEF Interrupt0, Off, Loop, LoopKept, OnTo, At, SumSpec, SetsUp
<1>10. k = 9 => IF hart.lpcount[0] > 1 THEN OnTo(b + 7) /\ Interrupt0(b, 7)'
              ELSE OnTo(b + 10) /\ Interrupt0(b, 10)'
  BY <1>1, <1>2, <1>6, <1>7 DEF Interrupt0, Off, Loop, LoopKept, OnTo, At, SumSpec, TurnsBack
<1>11. k = 11 => IF hart.lpcount[1] > 1 THEN OnTo(b + 6) /\ Interrupt0(b, 6)'
              ELSE OnTo(b + 12) /\ Interrupt0(b, 12)'
  BY <1>1, <1>2, <1>6, <1>7 DEF Interrupt0, Off, Loop, LoopKept, OnTo, At, SumSpec, TurnsBack
<1> QED
  <2>1. CASE k \in (1 .. 4) \cup {7, 8, 10, 12}
    BY <1>8, <2>1
  <2>2. CASE k \in {5, 6}
    BY <1>9, <2>2
  <2>3. CASE k = 9
    BY <1>10, <2>3
  <2>4. CASE k = 11
    BY <1>11, <2>4
  <2> QED
    BY <2>1, <2>2, <2>3, <2>4

\* HWLP_TEST_INTERRUPT2 up to InMemory.
Interrupt2(b, k) ==
    LET d == Done(OUTER, hart.lpcount[1], 6 * INNER + 22)
        e == Done(INNER, hart.lpcount[0], 6)
    IN
    /\ Frame
    /\ k \in (1 .. 6) \cup {14, 15} => Off(1)
    /\ k \in 7 .. 13 => Loop(1, b + 7, b + 14, OUTER)
    /\ k \in (1 .. 7) \cup (12 .. 15) => Off(0)
    /\ k \in 8 .. 11 => Loop(0, b + 8, b + 12, INNER)
    /\ k \in 4 .. 6 => t2 = 53
    /\ k = 7 => t2 = 53 + d
    /\ k = 8 => t2 = 53 + d + e
    /\ k = 9 => t2 = 53 + d + e + 1
    /\ k \in {10, 11} => t2 = 53 + d + e + 3
    /\ k = 12 => t2 = 53 + d + INNER * 6
    /\ k = 13 => t2 = 53 + d + INNER * 6 + 13
    /\ k = 14 => t2 = 53 + OUTER * (6 * INNER + 22)
    /\ k = 15 => sp_80 = 53 + OUTER * (6 * INNER + 22)

\* Its instructions.
LEMMA Interrupt2Code ==
    ASSUME NEW b, Placed(First2, b)
    PROVE
        /\ Main[b + 1] = addi("t0", "x0", 6) /\ Main[b + 2] = sw("t0", "sp_64")
        /\ Main[b + 3] = addi("t2", "x0", 53) /\ Main[b + 4] = sw("t2", "sp_68")
        /\ Main[b + 5] = addi("t1", "x0", 7) /\ Main[b + 6] = lp_setupi(1, OUTER, 28)
        /\ Main[b + 7] = lp_setupi(0, INNER, 16) /\ Main[b + 8] = addi("t2", "t2", 1)
        /\ Main[b + 9] = addi("t2", "t2", 2) /\ Main[b + 10] = dret
        /\ Main[b + 11] = addi("t2", "t2", 3) /\ Main[b + 12] = addi("t2", "t2", 13)
        /\ Main[b + 13] = addi("t2", "t2", 9) /\ Main[b + 14] = sw("t2", "sp_80")
BY DEF Placed, First2, Begin, Nested, AndAdd22

\* Each of them leads from one of its claims to another, and the last one out of the test.
LEMMA Interrupt2Step ==
    ASSUME NEW b, Placed(First2, b),
           NEW k \in 1 .. 14, Interrupt2(b, k), Shape, TestStep(b + k)
    PROVE  \E n \in 1 .. 15 : OnTo(b + n) /\ Interrupt2(b, n)'
<1> USE TestsInNat, RoundsAssumption
<1>1. b \in Nat
  BY DEF Placed
<1>2. /\ Frame'
      /\ k \in {6, 7, 10} => t2' = t2 /\ sp_80' = sp_80
      /\ k = 1 => t2' = t2 /\ sp_80' = sp_80
      /\ k = 2 => t2' = t2 /\ sp_80' = sp_80
      /\ k = 3 => t2' = 0 + 53 /\ sp_80' = sp_80
      /\ k = 4 => t2' = t2 /\ sp_80' = sp_80
      /\ k = 5 => t2' = t2 /\ sp_80' = sp_80
      /\ k = 8 => t2' = t2 + 1 /\ sp_80' = sp_80
      /\ k = 9 => t2' = t2 + 2 /\ sp_80' = sp_80
      /\ k = 11 => t2' = t2 + 3 /\ sp_80' = sp_80
      /\ k = 12 => t2' = t2 + 13 /\ sp_80' = sp_80
      /\ k = 13 => t2' = t2 + 9 /\ sp_80' = sp_80
      /\ k = 14 => t2' = t2 /\ sp_80' = t2 + 0
  <2>1. Frame
    BY DEF Interrupt2
  <2>2. /\ k = 1 => Sets("t0", names["x0"] + 6)
        /\ k = 2 => Sets("sp_64", names["t0"] + 0)
        /\ k = 3 => Sets("t2", names["x0"] + 53)
        /\ k = 4 => Sets("sp_68", names["t2"] + 0)
        /\ k = 5 => Sets("t1", names["x0"] + 7)
        /\ k = 8 => Sets("t2", names["t2"] + 1)
        /\ k = 9 => Sets("t2", names["t2"] + 2)
        /\ k = 11 => Sets("t2", names["t2"] + 3)
        /\ k = 12 => Sets("t2", names["t2"] + 13)
        /\ k = 13 => Sets("t2", names["t2"] + 9)
        /\ k = 14 => Sets("sp_80", names["t2"] + 0)
    BY Interrupt2Code, Addi, SMTT(30) DEF Names, sw
  <2>3. /\ k \in {6, 7, 10} => names' = names
    BY Interrupt2Code, NamesKept DEF dret, lp_setupi
  <2> QED
    BY <2>1, <2>2, <2>3 DEF Sets, Frame, Names, t2, sp_80
<1>3. k \in (1 .. 5) \cup (8 .. 10) \cup {12, 14} => Passes(b + k)
  BY <1>1, Interrupt2Code, Passing, SMTT(30) DEF Interrupt2, Off, Loop, EndsAt, At, IsTrap, addi, sw, dret,
     Compute
<1>4. k \in {6, 7} => ~EndsAt(0, b + k) /\ ~EndsAt(1, b + k)
  BY <1>1 DEF Interrupt2, Off, Loop, EndsAt, At
<1>5. /\ k = 6 => SetsUp(b + 6, 1, 28 \div 4, OUTER)
      /\ k = 7 => SetsUp(b + 7, 0, 16 \div 4, INNER)
  <2>1. k = 6 => SetsUp(b + 6, 1, 28 \div 4, OUTER)
    BY <1>4, Interrupt2Code, SettingUp
  <2>2. k = 7 => SetsUp(b + 7, 0, 16 \div 4, INNER)
    BY <1>4, Interrupt2Code, SettingUp
  <2> QED BY <2>1, <2>2
<1>6. /\ k = 11 => TurnsBack(0, b + 11)
      /\ k = 13 => TurnsBack(1, b + 13)
  BY <1>1, Interrupt2Code, Turning, SMTT(30) DEF Interrupt2, Off, Loop, EndsAt, At, IsTrap, Loops, addi, sw,
     dret, Compute
<1>7. /\ SumSpec(1, OUTER, 6 * INNER + 22)
      /\ SumSpec(0, INNER, 6)
  <2>1. 6 * INNER + 22 \in Nat
    OBVIOUS
  <2> QED
    BY <2>1, Sums
<1>8. k \in (1 .. 5) \cup (8 .. 10) \cup {12, 14} => OnTo(b + (k + 1)) /\ Interrupt2(b, k + 1)'
  BY <1>1, <1>2, <1>3, <1>7 DEF Interrupt2, Off, Loop, LoopKept, OnTo, At, SumSpec, Passes
<1>9. k \in {6, 7} => OnTo(b + (k + 1)) /\ Interrupt2(b, k + 1)'
  BY <1>1, <1>2, <1>5, <1>7 DEF Interrupt2, Off, Loop, LoopKept, OnTo, At, SumSpec, SetsUp
<1>10. k = 11 => IF hart.lpcount[0] > 1 THEN OnTo(b + 8) /\ Interrupt2(b, 8)'
              ELSE OnTo(b + 12) /\ Interrupt2(b, 12)'
  BY <1>1, <1>2, <1>6, <1>7 DEF Interrupt2, Off, Loop, LoopKept, OnTo, At, SumSpec, TurnsBack
<1>11. k = 13 => IF hart.lpcount[1] > 1 THEN OnTo(b + 7) /\ Interrupt2(b, 7)'
              ELSE OnTo(b + 14) /\ Interrupt2(b, 14)'
  BY <1>1, <1>2, <1>6, <1>7 DEF Interrupt2, Off, Loop, LoopKept, OnTo, At, SumSpec, TurnsBack
<1> QED
  <2>1. CASE k \in (1 .. 5) \cup (8 .. 10) \cup {12, 14}
    BY <1>8, <2>1
  <2>2. CASE k \in {6, 7}
    BY <1>9, <2>2
  <2>3. CASE k = 11
    BY <1>10, <2>3
  <2>4. CASE k = 13
    BY <1>11, <2>4
  <2> QED
    BY <2>1, <2>2, <2>3, <2>4

\* HWLP_TEST_INTERRUPT3 up to InMemory: the trap in the last place of loop 0 leaves the loop on.
Interrupt3(b, k) ==
    LET d == Done(OUTER, hart.lpcount[1], 6 + 22)
    IN
    /\ Frame
    /\ k \in (1 .. 6) \cup {14, 15} => Off(1)
    /\ k \in 7 .. 13 => Loop(1, b + 7, b + 14, OUTER)
    /\ k \in 1 .. 6 => Off(0)
    /\ k = 7 => Off(0) \/ Loop(0, b + 8, b + 12, INNER)
    /\ k \in 8 .. 15 => Loop(0, b + 8, b + 12, INNER)
    /\ k \in 4 .. 6 => t2 = 53
    /\ k \in {7, 8} => t2 = 53 + d
    /\ k = 9 => t2 = 53 + d + 1
    /\ k = 10 => t2 = 53 + d + 3
    /\ k \in {11, 12} => t2 = 53 + d + 6
    /\ k = 13 => t2 = 53 + d + 19
    /\ k = 14 => t2 = 53 + OUTER * (6 + 22)
    /\ k = 15 => sp_80 = 53 + OUTER * (6 + 22)

\* Its instructions.
LEMMA Interrupt3Code ==
    ASSUME NEW b, Placed(First3, b)
    PROVE
        /\ Main[b + 1] = addi("t0", "x0", 6) /\ Main[b + 2] = sw("t0", "sp_64")
        /\ Main[b + 3] = addi("t2", "x0", 53) /\ Main[b + 4] = sw("t2", "sp_68")
        /\ Main[b + 5] = addi("t1", "x0", 7) /\ Main[b + 6] = lp_setupi(1, OUTER, 28)
        /\ Main[b + 7] = lp_setupi(0, INNER, 16) /\ Main[b + 8] = addi("t2", "t2", 1)
        /\ Main[b + 9] = addi("t2", "t2", 2) /\ Main[b + 10] = addi("t2", "t2", 3)
        /\ Main[b + 11] = dret /\ Main[b + 12] = addi("t2", "t2", 13)
        /\ Main[b + 13] = addi("t2", "t2", 9) /\ Main[b + 14] = sw("t2", "sp_80")
BY DEF Placed, First3, Begin, Nested, AndAdd22

\* Each of them leads from one of its claims to another, and the last one out of the test.
LEMMA Interrupt3Step ==
    ASSUME NEW b, Placed(First3, b),
           NEW k \in 1 .. 14, Interrupt3(b, k), Shape, TestStep(b + k)
    PROVE  \E n \in 1 .. 15 : OnTo(b + n) /\ Interrupt3(b, n)'
<1> USE TestsInNat, RoundsAssumption
<1>1. b \in Nat
  BY DEF Placed
<1>2. /\ Frame'
      /\ k \in {6, 7, 11} => t2' = t2 /\ sp_80' = sp_80
      /\ k = 1 => t2' = t2 /\ sp_80' = sp_80
      /\ k = 2 => t2' = t2 /\ sp_80' = sp_80
      /\ k = 3 => t2' = 0 + 53 /\ sp_80' = sp_80
      /\ k = 4 => t2' = t2 /\ sp_80' = sp_80
      /\ k = 5 => t2' = t2 /\ sp_80' = sp_80
      /\ k = 8 => t2' = t2 + 1 /\ sp_80' = sp_80
      /\ k = 9 => t2' = t2 + 2 /\ sp_80' = sp_80
      /\ k = 10 => t2' = t2 + 3 /\ sp_80' = sp_80
      /\ k = 12 => t2' = t2 + 13 /\ sp_80' = sp_80
      /\ k = 13 => t2' = t2 + 9 /\ sp_80' = sp_80
      /\ k = 14 => t2' = t2 /\ sp_80' = t2 + 0
  <2>1. Frame
    BY DEF Interrupt3
  <2>2. /\ k = 1 => Sets("t0", names["x0"] + 6)
        /\ k = 2 => Sets("sp_64", names["t0"] + 0)
        /\ k = 3 => Sets("t2", names["x0"] + 53)
        /\ k = 4 => Sets("sp_68", names["t2"] + 0)
        /\ k = 5 => Sets("t1", names["x0"] + 7)
        /\ k = 8 => Sets("t2", names["t2"] + 1)
        /\ k = 9 => Sets("t2", names["t2"] + 2)
        /\ k = 10 => Sets("t2", names["t2"] + 3)
        /\ k = 12 => Sets("t2", names["t2"] + 13)
        /\ k = 13 => Sets("t2", names["t2"] + 9)
        /\ k = 14 => Sets("sp_80", names["t2"] + 0)
    BY Interrupt3Code, Addi, SMTT(30) DEF Names, sw
  <2>3. /\ k \in {6, 7, 11} => names' = names
    BY Interrupt3Code, NamesKept DEF dret, lp_setupi
  <2> QED
    BY <2>1, <2>2, <2>3 DEF Sets, Frame, Names, t2, sp_80
<1>3. k \in (1 .. 5) \cup (8 .. 12) \cup {14} => Passes(b + k)
  BY <1>1, Interrupt3Code, Passing, SMTT(30) DEF Interrupt3, Off, Loop, EndsAt, At, IsTrap, addi, sw, dret,
     Compute
<1>4. k \in {6, 7} => ~EndsAt(0, b + k) /\ ~EndsAt(1, b + k)
  BY <1>1 DEF Interrupt3, Off, Loop, EndsAt, At
<1>5. /\ k = 6 => SetsUp(b + 6, 1, 28 \div 4, OUTER)
      /\ k = 7 => SetsUp(b + 7, 0, 16 \div 4, INNER)
  <2>1. k = 6 => SetsUp(b + 6, 1, 28 \div 4, OUTER)
    BY <1>4, Interrupt3Code, SettingUp
  <2>2. k = 7 => SetsUp(b + 7, 0, 16 \div 4, INNER)
    BY <1>4, Interrupt3Code, SettingUp
  <2> QED BY <2>1, <2>2
<1>6. k = 13 => TurnsBack(1, b + 13)
  BY <1>1, Interrupt3Code, Turning, SMTT(30) DEF Interrupt3, Off, Loop, EndsAt, At, IsTrap, Loops, addi, sw,
     dret, Compute
<1>7. /\ SumSpec(1, OUTER, 6 + 22)
  <2>1. 6 + 22 \in Nat
    OBVIOUS
  <2> QED
    BY <2>1, Sums
<1>8. k \in (1 .. 5) \cup (8 .. 12) \cup {14} => OnTo(b + (k + 1)) /\ Interrupt3(b, k + 1)'
  BY <1>1, <1>2, <1>3, <1>7 DEF Interrupt3, Off, Loop, LoopKept, OnTo, At, SumSpec, Passes
<1>9. k \in {6, 7} => OnTo(b + (k + 1)) /\ Interrupt3(b, k + 1)'
  BY <1>1, <1>2, <1>5, <1>7 DEF Interrupt3, Off, Loop, LoopKept, OnTo, At, SumSpec, SetsUp
<1>10. k = 13 => IF hart.lpcount[1] > 1 THEN OnTo(b + 7) /\ Interrupt3(b, 7)'
              ELSE OnTo(b + 14) /\ Interrupt3(b, 14)'
  BY <1>1, <1>2, <1>6, <1>7 DEF Interrupt3, Off, Loop, LoopKept, OnTo, At, SumSpec, TurnsBack
<1> QED
  <2>1. CASE k \in (1 .. 5) \cup (8 .. 12) \cup {14}
    BY <1>8, <2>1
  <2>2. CASE k \in {6, 7}
    BY <1>9, <2>2
  <2>3. CASE k = 13
    BY <1>10, <2>3
  <2> QED
    BY <2>1, <2>2, <2>3

\* HWLP_TEST_INTERRUPT1.
Interrupt1(b, k) ==
    LET d == Done(OUTER, hart.lpcount[1], 6 * INNER + 22)
        e == Done(INNER, hart.lpcount[0], 6)
        f == Done(OUTER, hart.lpcount[1], INNER + 15)
        g == Done(INNER, hart.lpcount[0], 1)
    IN
    /\ Frame
    /\ k \in (1 .. 6) \cup {17, 18, 30} => Off(1)
    /\ k \in 7 .. 16 => Loop(1, b + 7, b + 17, OUTER)
    /\ k \in 19 .. 29 => Loop(1, b + 19, b + 30, OUTER)
    /\ k \in (1 .. 7) \cup (15 .. 19) \cup (28 .. 30) => Off(0)
    /\ k \in 8 .. 14 => Loop(0, b + 8, b + 15, INNER)
    /\ k \in 20 .. 27 => Loop(0, b + 20, b + 28, INNER)
    /\ k \in 4 .. 6 => t2 = 53
    /\ k = 7 => t2 = 53 + d
    /\ k = 8 => t2 = 53 + d + e
    /\ k = 9 => t2 = 53 + d + e + 1
    /\ k = 10 => t2 = 53 + d + e + 3
    /\ k = 11 => t2 = 53 + d + e + 6
    /\ k \in {12, 13} => mcycle = 53 + d + e + 6
    /\ k = 14 => t1 = 53 + d + e + 6
    /\ k = 15 => t2 = 53 + d + INNER * 6
    /\ k = 16 => t2 = 53 + d + INNER * 6 + 13
    /\ k = 17 => t2 = 53 + OUTER * (6 * INNER + 22)
    /\ k = 18 => sp_80 = 53 + OUTER * (6 * INNER + 22)
    /\ k = 19 => sp_80 = 53 + OUTER * (6 * INNER + 22) + f
    /\ k = 20 => sp_80 = 53 + OUTER * (6 * INNER + 22) + f + g
    /\ k = 21 => t1 = 53 + OUTER * (6 * INNER + 22) + f + g
    /\ k = 22 => t2 = 53 + OUTER * (6 * INNER + 22) + f + g + 1
    /\ k \in {23, 24} => mcycle = 53 + OUTER * (6 * INNER + 22) + f + g + 1
    /\ k = 25 => t1 = 53 + OUTER * (6 * INNER + 22) + f + g + 1
    /\ k \in {26, 27} => t2 = 53 + OUTER * (6 * INNER + 22) + f + g + 1
    /\ k = 27 => sp_80 = t2
    /\ k = 28 => t2 = 53 + OUTER * (6 * INNER + 22) + f + INNER * 1
    /\ k = 29 => t2 = 53 + OUTER * (6 * INNER + 22) + f + INNER * 1 + 15
    /\ k = 30 => t2 = 53 + OUTER * (6 * INNER + 22) + OUTER * (INNER + 15)

\* Its instructions.
LEMMA Interrupt1Code ==
    ASSUME NEW b, Placed(HWLP_TEST_INTERRUPT1, b)
    PROVE
        /\ Main[b + 1] = addi("t0", "x0", 6) /\ Main[b + 2] = sw("t0", "sp_64")
        /\ Main[b + 3] = addi("t2", "x0", 53) /\ Main[b + 4] = sw("t2", "sp_68")
        /\ Main[b + 5] = addi("t0", "x0", 7) /\ Main[b + 6] = lp_setupi(1, OUTER, 40)
        /\ Main[b + 7] = lp_setupi(0, INNER, 28) /\ Main[b + 8] = addi("t2", "t2", 1)
        /\ Main[b + 9] = addi("t2", "t2", 2) /\ Main[b + 10] = addi("t2", "t2", 3)
        /\ Main[b + 11] = csrrw("t2", "mcycle", "t2") /\ Main[b + 12] = addi("t1", "x0", 0)
        /\ Main[b + 13] = csrrw("t1", "mcycle", "t1") /\ Main[b + 14] = mv("t2", "t1")
        /\ Main[b + 15] = addi("t2", "t2", 13) /\ Main[b + 16] = addi("t2", "t2", 9)
        /\ Main[b + 17] = sw("t2", "sp_80") /\ Main[b + 18] = lp_setupi(1, OUTER, 44)
        /\ Main[b + 19] = lp_setupi(0, INNER, 32) /\ Main[b + 20] = lw("t1", "sp_80")
        /\ Main[b + 21] = addi("t2", "t1", 1) /\ Main[b + 22] = csrrw("t2", "mcycle", "t2")
        /\ Main[b + 23] = addi("t1", "x0", 0) /\ Main[b + 24] = csrrw("t1", "mcycle", "t1")
        /\ Main[b + 25] = mv("t2", "t1") /\ Main[b + 26] = sw("t2", "sp_80")
        /\ Main[b + 27] = csrrw("t1", "mcycle", "t1") /\ Main[b + 28] = addi("t2", "t2", 15)
        /\ Main[b + 29] = sw("t2", "sp_80")
BY DEF Placed, HWLP_TEST_INTERRUPT1, Begin, Nested, AndAdd22, AndAdd15

\* Each of them leads from one of its claims to another, and the last one out of the test.
LEMMA Interrupt1Step ==
    ASSUME NEW b, Placed(HWLP_TEST_INTERRUPT1, b),
           NEW k \in 1 .. 29, Interrupt1(b, k), Shape, TestStep(b + k)
    PROVE  \E n \in 1 .. 30 : OnTo(b + n) /\ Interrupt1(b, n)'
<1> USE TestsInNat, RoundsAssumption
<1>1. b \in Nat
  BY DEF Placed
<1>2. /\ Frame'
      /\ k \in {6, 7, 18, 19} => t1' = t1 /\ t2' = t2 /\ mcycle' = mcycle /\ sp_80' = sp_80
      /\ k = 1 => t1' = t1 /\ t2' = t2 /\ mcycle' = mcycle /\ sp_80' = sp_80
      /\ k = 2 => t1' = t1 /\ t2' = t2 /\ mcycle' = mcycle /\ sp_80' = sp_80
      /\ k = 3 => t1' = t1 /\ t2' = 0 + 53 /\ mcycle' = mcycle /\ sp_80' = sp_80
      /\ k = 4 => t1' = t1 /\ t2' = t2 /\ mcycle' = mcycle /\ sp_80' = sp_80
      /\ k = 5 => t1' = t1 /\ t2' = t2 /\ mcycle' = mcycle /\ sp_80' = sp_80
      /\ k = 8 => t1' = t1 /\ t2' = t2 + 1 /\ mcycle' = mcycle /\ sp_80' = sp_80
      /\ k = 9 => t1' = t1 /\ t2' = t2 + 2 /\ mcycle' = mcycle /\ sp_80' = sp_80
      /\ k = 10 => t1' = t1 /\ t2' = t2 + 3 /\ mcycle' = mcycle /\ sp_80' = sp_80
      /\ k = 11 => t1' = t1 /\ t2' = mcycle /\ mcycle' = t2 /\ sp_80' = sp_80
      /\ k = 12 => t1' = 0 + 0 /\ t2' = t2 /\ mcycle' = mcycle /\ sp_80' = sp_80
      /\ k = 13 => t1' = mcycle /\ t2' = t2 /\ mcycle' = t1 /\ sp_80' = sp_80
      /\ k = 14 => t1' = t1 /\ t2' = t1 + 0 /\ mcycle' = mcycle /\ sp_80' = sp_80
      /\ k = 15 => t1' = t1 /\ t2' = t2 + 13 /\ mcycle' = mcycle /\ sp_80' = sp_80
      /\ k = 16 => t1' = t1 /\ t2' = t2 + 9 /\ mcycle' = mcycle /\ sp_80' = sp_80
      /\ k = 17 => t1' = t1 /\ t2' = t2 /\ mcycle' = mcycle /\ sp_80' = t2 + 0
      /\ k = 20 => t1' = sp_80 + 0 /\ t2' = t2 /\ mcycle' = mcycle /\ sp_80' = sp_80
      /\ k = 21 => t1' = t1 /\ t2' = t1 + 1 /\ mcycle' = mcycle /\ sp_80' = sp_80
      /\ k = 22 => t1' = t1 /\ t2' = mcycle /\ mcycle' = t2 /\ sp_80' = sp_80
      /\ k = 23 => t1' = 0 + 0 /\ t2' = t2 /\ mcycle' = mcycle /\ sp_80' = sp_80
      /\ k = 24 => t1' = mcycle /\ t2' = t2 /\ mcycle' = t1 /\ sp_80' = sp_80
      /\ k = 25 => t1' = t1 /\ t2' = t1 + 0 /\ mcycle' = mcycle /\ sp_80' = sp_80
      /\ k = 26 => t1' = t1 /\ t2' = t2 /\ mcycle' = mcycle /\ sp_80' = t2 + 0
      /\ k = 27 => t1' = mcycle /\ t2' = t2 /\ mcycle' = t1 /\ sp_80' = sp_80
      /\ k = 28 => t1' = t1 /\ t2' = t2 + 15 /\ mcycle' = mcycle /\ sp_80' = sp_80
      /\ k = 29 => t1' = t1 /\ t2' = t2 /\ mcycle' = mcycle /\ sp_80' = t2 + 0
  <2>1. Frame
    BY DEF Interrupt1
  <2>2. /\ k = 1 => Sets("t0", names["x0"] + 6)
        /\ k = 2 => Sets("sp_64", names["t0"] + 0)
        /\ k = 3 => Sets("t2", names["x0"] + 53)
        /\ k = 4 => Sets("sp_68", names["t2"] + 0)
        /\ k = 5 => Sets("t0", names["x0"] + 7)
        /\ k = 8 => Sets("t2", names["t2"] + 1)
        /\ k = 9 => Sets("t2", names["t2"] + 2)
        /\ k = 10 => Sets("t2", names["t2"] + 3)
        /\ k = 12 => Sets("t1", names["x0"] + 0)
        /\ k = 14 => Sets("t2", names["t1"] + 0)
        /\ k = 15 => Sets("t2", names["t2"] + 13)
        /\ k = 16 => Sets("t2", names["t2"] + 9)
        /\ k = 17 => Sets("sp_80", names["t2"] + 0)
        /\ k = 20 => Sets("t1", names["sp_80"] + 0)
        /\ k = 21 => Sets("t2", names["t1"] + 1)
        /\ k = 23 => Sets("t1", names["x0"] + 0)
        /\ k = 25 => Sets("t2", names["t1"] + 0)
        /\ k = 26 => Sets("sp_80", names["t2"] + 0)
        /\ k = 28 => Sets("t2", names["t2"] + 15)
        /\ k = 29 => Sets("sp_80", names["t2"] + 0)
    BY Interrupt1Code, Addi, SMTT(30) DEF Names, mv, lw, sw
  <2>3. /\ k = 11 => Swaps("t2", "mcycle", "t2")
        /\ k = 13 => Swaps("t1", "mcycle", "t1")
        /\ k = 22 => Swaps("t2", "mcycle", "t2")
        /\ k = 24 => Swaps("t1", "mcycle", "t1")
        /\ k = 27 => Swaps("t1", "mcycle", "t1")
    BY Interrupt1Code, Csrrw DEF Names
  <2>4. /\ k \in {6, 7, 18, 19} => names' = names
    BY Interrupt1Code, NamesKept DEF lp_setupi
  <2> QED
    BY <2>1, <2>2, <2>3, <2>4 DEF Sets, Swaps, Frame, Names, t1, t2, mcycle, sp_80
<1>3. k \in (1 .. 5) \cup (8 .. 13) \cup (20 .. 26) \cup {15, 17, 28} => Passes(b + k)
  BY <1>1, Interrupt1Code, Passing, SMTT(30) DEF Interrupt1, Off, Loop, EndsAt, At, IsTrap, addi, mv, lw, sw,
     csrrw, Compute
<1>4. k \in {6, 7, 18, 19} => ~EndsAt(0, b + k) /\ ~EndsAt(1, b + k)
  BY <1>1 DEF Interrupt1, Off, Loop, EndsAt, At
<1>5. /\ k = 6 => SetsUp(b + 6, 1, 40 \div 4, OUTER)
      /\ k = 7 => SetsUp(b + 7, 0, 28 \div 4, INNER)
      /\ k = 18 => SetsUp(b + 18, 1, 44 \div 4, OUTER)
      /\ k = 19 => SetsUp(b + 19, 0, 32 \div 4, INNER)
  <2>1. Main[b + 6] = lp_setupi(1, OUTER, 40)
    BY Interrupt1Code
  <2>2. k = 6 => SetsUp(b + 6, 1, 40 \div 4, OUTER)
    BY <1>4, <2>1, SettingUp
  <2>3. Main[b + 7] = lp_setupi(0, INNER, 28)
    BY Interrupt1Code
  <2>4. k = 7 => SetsUp(b + 7, 0, 28 \div 4, INNER)
    BY <1>4, <2>3, SettingUp
  <2>5. Main[b + 18] = lp_setupi(1, OUTER, 44)
    BY Interrupt1Code
  <2>6. k = 18 => SetsUp(b + 18, 1, 44 \div 4, OUTER)
    BY <1>4, <2>5, SettingUp
  <2>7. Main[b + 19] = lp_setupi(0, INNER, 32)
    BY Interrupt1Code
  <2>8. k = 19 => SetsUp(b + 19, 0, 32 \div 4, INNER)
    BY <1>4, <2>7, SettingUp
  <2> QED
    BY <2>2, <2>4, <2>6, <2>8
<1>6. /\ k = 14 => TurnsBack(0, b + 14)
      /\ k = 16 => TurnsBack(1, b + 16)
      /\ k = 27 => TurnsBack(0, b + 27)
      /\ k = 29 => TurnsBack(1, b + 29)
  <2>1. k = 14 => TurnsBack(0, b + 14)
    BY <1>1, Interrupt1Code, Turning, SMTT(30) DEF Interrupt1, Off, Loop, EndsAt, At, IsTrap, Loops, addi, mv,
       lw, sw, csrrw, Compute
  <2>2. k = 16 => TurnsBack(1, b + 16)
    BY <1>1, Interrupt1Code, Turning, SMTT(30) DEF Interrupt1, Off, Loop, EndsAt, At, IsTrap, Loops, addi, mv,
       lw, sw, csrrw, Compute
  <2>3. k = 27 => TurnsBack(0, b + 27)
    BY <1>1, Interrupt1Code, Turning, SMTT(30) DEF Interrupt1, Off, Loop, EndsAt, At, IsTrap, Loops, addi, mv,
       lw, sw, csrrw, Compute
  <2>4. k = 29 => TurnsBack(1, b + 29)
    BY <1>1, Interrupt1Code, Turning, SMTT(30) DEF Interrupt1, Off, Loop, EndsAt, At, IsTrap, Loops, addi, mv,
       lw, sw, csrrw, Compute
  <2> QED
    BY <2>1, <2>2, <2>3, <2>4
<1>7. /\ SumSpec(1, OUTER, 6 * INNER + 22)
      /\ SumSpec(0, INNER, 6)
      /\ SumSpec(1, OUTER, INNER + 15)
      /\ SumSpec(0, INNER, 1)
  <2>1. 6 * INNER + 22 \in Nat /\ INNER + 15 \in Nat
    OBVIOUS
  <2> QED
    BY <2>1, Sums
<1>8. k \in (1 .. 5) \cup (8 .. 13) \cup (20 .. 26) \cup {15, 17, 28} => OnTo(b + (k + 1)) /\ Interrupt1(b, k + 1)'
  BY <1>1, <1>2, <1>3, <1>7 DEF Interrupt1, Off, Loop, LoopKept, OnTo, At, SumSpec, Passes
<1>9. k \in {6, 7, 18, 19} => OnTo(b + (k + 1)) /\ Interrupt1(b, k + 1)'
  BY <1>1, <1>2, <1>5, <1>7 DEF Interrupt1, Off, Loop, LoopKept, OnTo, At, SumSpec, SetsUp
<1>10. k = 14 => IF hart.lpcount[0] > 1 THEN OnTo(b + 8) /\ Interrupt1(b, 8)'
              ELSE OnTo(b + 15) /\ Interrupt1(b, 15)'
  BY <1>1, <1>2, <1>6, <1>7 DEF Interrupt1, Off, Loop, LoopKept, OnTo, At, SumSpec, TurnsBack
<1>11. k = 16 => IF hart.lpcount[1] > 1 THEN OnTo(b + 7) /\ Interrupt1(b, 7)'
              ELSE OnTo(b + 17) /\ Interrupt1(b, 17)'
  BY <1>1, <1>2, <1>6, <1>7 DEF Interrupt1, Off, Loop, LoopKept, OnTo, At, SumSpec, TurnsBack
<1>12. k = 27 => IF hart.lpcount[0] > 1 THEN OnTo(b + 20) /\ Interrupt1(b, 20)'
              ELSE OnTo(b + 28) /\ Interrupt1(b, 28)'
  BY <1>1, <1>2, <1>6, <1>7 DEF Interrupt1, Off, Loop, LoopKept, OnTo, At, SumSpec, TurnsBack
<1>13. k = 29 => IF hart.lpcount[1] > 1 THEN OnTo(b + 19) /\ Interrupt1(b, 19)'
              ELSE OnTo(b + 30) /\ Interrupt1(b, 30)'
  BY <1>1, <1>2, <1>6, <1>7 DEF Interrupt1, Off, Loop, LoopKept, OnTo, At, SumSpec, TurnsBack
<1> QED
  <2>1. CASE k \in (1 .. 5) \cup (8 .. 13) \cup (20 .. 26) \cup {15, 17, 28}
    BY <1>8, <2>1
  <2>2. CASE k \in {6, 7, 18, 19}
    BY <1>9, <2>2
  <2>3. CASE k = 14
    BY <1>10, <2>3
  <2>4. CASE k = 16
    BY <1>11, <2>4
  <2>5. CASE k = 27
    BY <1>12, <2>5
  <2>6. CASE k = 29
    BY <1>13, <2>6
  <2> QED
    BY <2>1, <2>2, <2>3, <2>4, <2>5, <2>6

\* HWLP_TEST_INTERRUPT4: the divisions give 53 again.
Interrupt4(b, k) ==
    /\ Frame
    /\ k \in (1 .. 8) \cup {19, 31} => Off(1)
    /\ k \in 9 .. 18 => Loop(1, b + 9, b + 19, OUTER)
    /\ k \in 20 .. 30 => Loop(1, b + 20, b + 31, OUTER)
    /\ k \in (1 .. 9) \cup (14 .. 20) \cup (26 .. 31) => Off(0)
    /\ k \in 10 .. 13 => Loop(0, b + 10, b + 14, INNER)
    /\ k \in 21 .. 25 => Loop(0, b + 21, b + 26, INNER)
    /\ k = 2 => t0 = 3
    /\ k \in 3 .. 31 => sp_80 = 3
    /\ k = 4 => t0 = 85
    /\ k \in 5 .. 31 => sp_84 = 85
    /\ k \in 6 .. 10 => t2 = 53
    /\ k \in 8 .. 13 => t1 = 3
    /\ k = 11 => t0 = 74
    /\ k = 12 => t0 = 84
    /\ k = 13 => t2 = 159
    /\ k \in {14, 15} => t2 = 53
    /\ k = 16 => t0 = 94
    /\ k = 17 => t2 = 265
    /\ k \in 15 .. 17 => t1 = 5
    /\ k \in {18, 19} => t2 = 53
    /\ k = 23 => t1 = 85
    /\ k \in {24, 25} => t2 = 170
    /\ k = 25 => t1 = 3
    /\ k \in {26, 27} => t2 = 56
    /\ k \in 27 .. 29 => t1 = 5
    /\ k = 28 => t0 = 97
    /\ k = 29 => t2 = 268
    /\ k \in {30, 31} => t2 = 53

\* Its instructions.
LEMMA Interrupt4Code ==
    ASSUME NEW b, Placed(HWLP_TEST_INTERRUPT4, b)
    PROVE
        /\ Main[b + 1] = addi("t0", "x0", 3) /\ Main[b + 2] = sw("t0", "sp_80")
        /\ Main[b + 3] = addi("t0", "x0", 85) /\ Main[b + 4] = sw("t0", "sp_84")
        /\ Main[b + 5] = addi("t2", "x0", 53) /\ Main[b + 6] = sw("t2", "sp_68")
        /\ Main[b + 7] = addi("t1", "x0", 3) /\ Main[b + 8] = lp_setupi(1, OUTER, 40)
        /\ Main[b + 9] = lp_setupi(0, INNER, 16) /\ Main[b + 10] = addi("t0", "t2", 21)
        /\ Main[b + 11] = addi("t0", "t0", 10) /\ Main[b + 12] = addi("t2", "t0", 75)
        /\ Main[b + 13] = div("t2", "t2", "t1") /\ Main[b + 14] = addi("t1", "x0", 5)
        /\ Main[b + 15] = addi("t0", "t2", 41) /\ Main[b + 16] = addi("t2", "t0", 171)
        /\ Main[b + 17] = div("t2", "t2", "t1") /\ Main[b + 18] = addi("t1", "x0", 3)
        /\ Main[b + 19] = lp_setupi(1, OUTER, 44) /\ Main[b + 20] = lp_setupi(0, INNER, 20)
        /\ Main[b + 21] = addi("t2", "t2", 21) /\ Main[b + 22] = lw("t1", "sp_84")
        /\ Main[b + 23] = add("t2", "t1", "t1") /\ Main[b + 24] = lw("t1", "sp_80")
        /\ Main[b + 25] = div("t2", "t2", "t1") /\ Main[b + 26] = addi("t1", "x0", 5)
        /\ Main[b + 27] = addi("t0", "t2", 41) /\ Main[b + 28] = addi("t2", "t0", 171)
        /\ Main[b + 29] = div("t2", "t2", "t1") /\ Main[b + 30] = lw("t1", "sp_80")
BY SMTT(60) DEF Placed, HWLP_TEST_INTERRUPT4, Nested

\* Each of them leads from one of its claims to another, and the last one out of the test.
LEMMA Interrupt4Step ==
    ASSUME NEW b, Placed(HWLP_TEST_INTERRUPT4, b),
           NEW k \in 1 .. 30, Interrupt4(b, k), Shape, TestStep(b + k)
    PROVE  \E n \in 1 .. 31 : OnTo(b + n) /\ Interrupt4(b, n)'
<1> USE TestsInNat, RoundsAssumption
<1>1. b \in Nat
  BY DEF Placed
<1>2. /\ Frame'
      /\ k \in {8, 9, 19, 20} => t0' = t0 /\ t1' = t1 /\ t2' = t2 /\ sp_80' = sp_80 /\ sp_84' = sp_84
      /\ k = 1 => t0' = 0 + 3 /\ t1' = t1 /\ t2' = t2 /\ sp_80' = sp_80 /\ sp_84' = sp_84
      /\ k = 2 => t0' = t0 /\ t1' = t1 /\ t2' = t2 /\ sp_80' = t0 + 0 /\ sp_84' = sp_84
      /\ k = 3 => t0' = 0 + 85 /\ t1' = t1 /\ t2' = t2 /\ sp_80' = sp_80 /\ sp_84' = sp_84
      /\ k = 4 => t0' = t0 /\ t1' = t1 /\ t2' = t2 /\ sp_80' = sp_80 /\ sp_84' = t0 + 0
      /\ k = 5 => t0' = t0 /\ t1' = t1 /\ t2' = 0 + 53 /\ sp_80' = sp_80 /\ sp_84' = sp_84
      /\ k = 6 => t0' = t0 /\ t1' = t1 /\ t2' = t2 /\ sp_80' = sp_80 /\ sp_84' = sp_84
      /\ k = 7 => t0' = t0 /\ t1' = 0 + 3 /\ t2' = t2 /\ sp_80' = sp_80 /\ sp_84' = sp_84
      /\ k = 10 => t0' = t2 + 21 /\ t1' = t1 /\ t2' = t2 /\ sp_80' = sp_80 /\ sp_84' = sp_84
      /\ k = 11 => t0' = t0 + 10 /\ t1' = t1 /\ t2' = t2 /\ sp_80' = sp_80 /\ sp_84' = sp_84
      /\ k = 12 => t0' = t0 /\ t1' = t1 /\ t2' = t0 + 75 /\ sp_80' = sp_80 /\ sp_84' = sp_84
      /\ k = 13 => t0' = t0 /\ t1' = t1 /\ t2' = t2 \div t1 /\ sp_80' = sp_80 /\ sp_84' = sp_84
      /\ k = 14 => t0' = t0 /\ t1' = 0 + 5 /\ t2' = t2 /\ sp_80' = sp_80 /\ sp_84' = sp_84
      /\ k = 15 => t0' = t2 + 41 /\ t1' = t1 /\ t2' = t2 /\ sp_80' = sp_80 /\ sp_84' = sp_84
      /\ k = 16 => t0' = t0 /\ t1' = t1 /\ t2' = t0 + 171 /\ sp_80' = sp_80 /\ sp_84' = sp_84
      /\ k = 17 => t0' = t0 /\ t1' = t1 /\ t2' = t2 \div t1 /\ sp_80' = sp_80 /\ sp_84' = sp_84
      /\ k = 18 => t0' = t0 /\ t1' = 0 + 3 /\ t2' = t2 /\ sp_80' = sp_80 /\ sp_84' = sp_84
      /\ k = 21 => t0' = t0 /\ t1' = t1 /\ t2' = t2 + 21 /\ sp_80' = sp_80 /\ sp_84' = sp_84
      /\ k = 22 => t0' = t0 /\ t1' = sp_84 + 0 /\ t2' = t2 /\ sp_80' = sp_80 /\ sp_84' = sp_84
      /\ k = 23 => t0' = t0 /\ t1' = t1 /\ t2' = t1 + t1 /\ sp_80' = sp_80 /\ sp_84' = sp_84
      /\ k = 24 => t0' = t0 /\ t1' = sp_80 + 0 /\ t2' = t2 /\ sp_80' = sp_80 /\ sp_84' = sp_84
      /\ k = 25 => t0' = t0 /\ t1' = t1 /\ t2' = t2 \div t1 /\ sp_80' = sp_80 /\ sp_84' = sp_84
      /\ k = 26 => t0' = t0 /\ t1' = 0 + 5 /\ t2' = t2 /\ sp_80' = sp_80 /\ sp_84' = sp_84
      /\ k = 27 => t0' = t2 + 41 /\ t1' = t1 /\ t2' = t2 /\ sp_80' = sp_80 /\ sp_84' = sp_84
      /\ k = 28 => t0' = t0 /\ t1' = t1 /\ t2' = t0 + 171 /\ sp_80' = sp_80 /\ sp_84' = sp_84
      /\ k = 29 => t0' = t0 /\ t1' = t1 /\ t2' = t2 \div t1 /\ sp_80' = sp_80 /\ sp_84' = sp_84
      /\ k = 30 => t0' = t0 /\ t1' = sp_80 + 0 /\ t2' = t2 /\ sp_80' = sp_80 /\ sp_84' = sp_84
  <2>1. Frame
    BY DEF Interrupt4
  <2>2. /\ k = 23 => Sets("t2", names["t1"] + names["t1"])
    BY Interrupt4Code, Add, SMTT(30) DEF Names
  <2>3. /\ k = 1 => Sets("t0", names["x0"] + 3)
        /\ k = 2 => Sets("sp_80", names["t0"] + 0)
        /\ k = 3 => Sets("t0", names["x0"] + 85)
        /\ k = 4 => Sets("sp_84", names["t0"] + 0)
        /\ k = 5 => Sets("t2", names["x0"] + 53)
        /\ k = 6 => Sets("sp_68", names["t2"] + 0)
        /\ k = 7 => Sets("t1", names["x0"] + 3)
        /\ k = 10 => Sets("t0", names["t2"] + 21)
        /\ k = 11 => Sets("t0", names["t0"] + 10)
        /\ k = 12 => Sets("t2", names["t0"] + 75)
        /\ k = 14 => Sets("t1", names["x0"] + 5)
        /\ k = 15 => Sets("t0", names["t2"] + 41)
        /\ k = 16 => Sets("t2", names["t0"] + 171)
        /\ k = 18 => Sets("t1", names["x0"] + 3)
        /\ k = 21 => Sets("t2", names["t2"] + 21)
        /\ k = 22 => Sets("t1", names["sp_84"] + 0)
        /\ k = 24 => Sets("t1", names["sp_80"] + 0)
        /\ k = 26 => Sets("t1", names["x0"] + 5)
        /\ k = 27 => Sets("t0", names["t2"] + 41)
        /\ k = 28 => Sets("t2", names["t0"] + 171)
        /\ k = 30 => Sets("t1", names["sp_80"] + 0)
    BY Interrupt4Code, Addi, SMTT(30) DEF Names, lw, sw
  <2>4. /\ k = 13 => Sets("t2", names["t2"] \div names["t1"])
        /\ k = 17 => Sets("t2", names["t2"] \div names["t1"])
        /\ k = 25 => Sets("t2", names["t2"] \div names["t1"])
        /\ k = 29 => Sets("t2", names["t2"] \div names["t1"])
    <3>1. k = 13 => Sets("t2", names["t2"] \div names["t1"])
      <4>1. Main[b + 13] = div("t2", "t2", "t1")
        BY Interrupt4Code
      <4> QED BY <4>1, Div DEF Names
    <3>2. k = 17 => Sets("t2", names["t2"] \div names["t1"])
      <4>1. Main[b + 17] = div("t2", "t2", "t1")
        BY Interrupt4Code
      <4> QED BY <4>1, Div DEF Names
    <3>3. k = 25 => Sets("t2", names["t2"] \div names["t1"])
      <4>1. Main[b + 25] = div("t2", "t2", "t1")
        BY Interrupt4Code
      <4> QED BY <4>1, Div DEF Names
    <3>4. k = 29 => Sets("t2", names["t2"] \div names["t1"])
      <4>1. Main[b + 29] = div("t2", "t2", "t1")
        BY Interrupt4Code
      <4> QED BY <4>1, Div DEF Names
    <3> QED BY <3>1, <3>2, <3>3, <3>4
  <2>5. /\ k \in {8, 9, 19, 20} => names' = names
    BY Interrupt4Code, NamesKept DEF lp_setupi
  <2> QED
    BY <2>1, <2>2, <2>3, <2>4, <2>5 DEF Sets, Frame, Names, t0, t1, t2, sp_80, sp_84
<1>3. k \in (1 .. 7) \cup (10 .. 12) \cup (14 .. 17) \cup (21 .. 24) \cup (26 .. 29) => Passes(b + k)
  BY <1>1, Interrupt4Code, Passing, SMTT(30) DEF Interrupt4, Off, Loop, EndsAt, At, IsTrap, addi, lw, sw, add,
     div, Compute
<1>4. k \in {8, 9, 19, 20} => ~EndsAt(0, b + k) /\ ~EndsAt(1, b + k)
  BY <1>1 DEF Interrupt4, Off, Loop, EndsAt, At
<1>5. /\ k = 8 => SetsUp(b + 8, 1, 40 \div 4, OUTER)
      /\ k = 9 => SetsUp(b + 9, 0, 16 \div 4, INNER)
      /\ k = 19 => SetsUp(b + 19, 1, 44 \div 4, OUTER)
      /\ k = 20 => SetsUp(b + 20, 0, 20 \div 4, INNER)
  <2>1. Main[b + 8] = lp_setupi(1, OUTER, 40)
    BY Interrupt4Code
  <2>2. k = 8 => SetsUp(b + 8, 1, 40 \div 4, OUTER)
    BY <1>4, <2>1, SettingUp
  <2>3. Main[b + 9] = lp_setupi(0, INNER, 16)
    BY Interrupt4Code
  <2>4. k = 9 => SetsUp(b + 9, 0, 16 \div 4, INNER)
    BY <1>4, <2>3, SettingUp
  <2>5. Main[b + 19] = lp_setupi(1, OUTER, 44)
    BY Interrupt4Code
  <2>6. k = 19 => SetsUp(b + 19, 1, 44 \div 4, OUTER)
    BY <1>4, <2>5, SettingUp
  <2>7. Main[b + 20] = lp_setupi(0, INNER, 20)
    BY Interrupt4Code
  <2>8. k = 20 => SetsUp(b + 20, 0, 20 \div 4, INNER)
    BY <1>4, <2>7, SettingUp
  <2> QED
    BY <2>2, <2>4, <2>6, <2>8
<1>6. /\ k = 13 => TurnsBack(0, b + 13)
      /\ k = 18 => TurnsBack(1, b + 18)
      /\ k = 25 => TurnsBack(0, b + 25)
      /\ k = 30 => TurnsBack(1, b + 30)
  <2>1. k = 13 => TurnsBack(0, b + 13)
    BY <1>1, Interrupt4Code, Turning, SMTT(30) DEF Interrupt4, Off, Loop, EndsAt, At, IsTrap, Loops, addi, lw,
       sw, add, div, Compute
  <2>2. k = 18 => TurnsBack(1, b + 18)
    BY <1>1, Interrupt4Code, Turning, SMTT(30) DEF Interrupt4, Off, Loop, EndsAt, At, IsTrap, Loops, addi, lw,
       sw, add, div, Compute
  <2>3. k = 25 => TurnsBack(0, b + 25)
    BY <1>1, Interrupt4Code, Turning, SMTT(30) DEF Interrupt4, Off, Loop, EndsAt, At, IsTrap, Loops, addi, lw,
       sw, add, div, Compute
  <2>4. k = 30 => TurnsBack(1, b + 30)
    BY <1>1, Interrupt4Code, Turning, SMTT(30) DEF Interrupt4, Off, Loop, EndsAt, At, IsTrap, Loops, addi, lw,
       sw, add, div, Compute
  <2> QED
    BY <2>1, <2>2, <2>3, <2>4
<1>7. k \in (1 .. 7) \cup (10 .. 12) \cup (14 .. 17) \cup (21 .. 24) \cup (26 .. 29) => OnTo(b + (k + 1)) /\ Interrupt4(b, k + 1)'
  BY <1>1, <1>2, <1>3 DEF Interrupt4, Off, Loop, LoopKept, OnTo, At, Passes
<1>8. k \in {8, 9, 19, 20} => OnTo(b + (k + 1)) /\ Interrupt4(b, k + 1)'
  BY <1>1, <1>2, <1>5 DEF Interrupt4, Off, Loop, LoopKept, OnTo, At, SetsUp
<1>9. k = 13 => IF hart.lpcount[0] > 1 THEN OnTo(b + 10) /\ Interrupt4(b, 10)'
              ELSE OnTo(b + 14) /\ Interrupt4(b, 14)'
  BY <1>1, <1>2, <1>6 DEF Interrupt4, Off, Loop, LoopKept, OnTo, At, TurnsBack
<1>10. k = 18 => IF hart.lpcount[1] > 1 THEN OnTo(b + 9) /\ Interrupt4(b, 9)'
              ELSE OnTo(b + 19) /\ Interrupt4(b, 19)'
  BY <1>1, <1>2, <1>6 DEF Interrupt4, Off, Loop, LoopKept, OnTo, At, TurnsBack
<1>11. k = 25 => IF hart.lpcount[0] > 1 THEN OnTo(b + 21) /\ Interrupt4(b, 21)'
              ELSE OnTo(b + 26) /\ Interrupt4(b, 26)'
  BY <1>1, <1>2, <1>6 DEF Interrupt4, Off, Loop, LoopKept, OnTo, At, TurnsBack
<1>12. k = 30 => IF hart.lpcount[1] > 1 THEN OnTo(b + 20) /\ Interrupt4(b, 20)'
              ELSE OnTo(b + 31) /\ Interrupt4(b, 31)'
  BY <1>1, <1>2, <1>6 DEF Interrupt4, Off, Loop, LoopKept, OnTo, At, TurnsBack
<1> QED
  <2>1. CASE k \in (1 .. 7) \cup (10 .. 12) \cup (14 .. 17) \cup (21 .. 24) \cup (26 .. 29)
    BY <1>7, <2>1
  <2>2. CASE k \in {8, 9, 19, 20}
    BY <1>8, <2>2
  <2>3. CASE k = 13
    BY <1>9, <2>3
  <2>4. CASE k = 18
    BY <1>10, <2>4
  <2>5. CASE k = 25
    BY <1>11, <2>5
  <2>6. CASE k = 30
    BY <1>12, <2>6
  <2> QED
    BY <2>1, <2>2, <2>3, <2>4, <2>5, <2>6

--------------------------------------------------------------------------------
\* Main: the tests one after another.

\* Where the tests lie in main, and what comes between them.
LEMMA Parts ==
    /\ Length = 196
    /\ Main[1] = ecall /\ Main[9] = ebreak /\ Main[24] = ecall /\ Main[39] = ebreak
    /\ Main[40] = fence_i /\ Main[41] = ebreak /\ Main[42] = ecall /\ Main[43] = ecall
    /\ Main[54] = ecall /\ Main[55] = fence_i /\ Main[67] = ecall /\ Main[88] = ecall
    /\ Main[120] = ecall /\ Main[151] = ecall /\ Main[174] = ecall
    /\ Main[8] = HandsOut("t1", AFTER_TEST0) /\ Main[23] = HandsOut("t2", AFTER_TEST1 * AFTER_TEST1)
    /\ Main[38] = HandsOut("t2", AFTER_TEST2 * AFTER_TEST2) /\ Main[53] = HandsOut("t1", WORD)
    /\ Main[66] = HandsOut("sp_28", 17 \div WORD) /\ Main[87] = HandsOut("t2", RES_EXPECTED0)
    /\ Main[119] = HandsOut("t2", RES_EXPECTED4) /\ Main[150] = HandsOut("t2", RES_EXPECTED1)
    /\ Main[173] = HandsOut("t2", AFTER_TEST_INTERRUPT3)
    /\ Main[196] = HandsOut("t2", RES_EXPECTED2)
    /\ Placed(HWLP_TEST0, 1) /\ Placed(HWLP_TEST1, 9) /\ Placed(HWLP_TEST1, 24)
    /\ Placed(HWLP_TEST4, 43) /\ Placed(HWLP_TEST6, 55) /\ Placed(First0, 67)
    /\ Placed(InMemory, 79) /\ Placed(HWLP_TEST_INTERRUPT4, 88) /\ Placed(HWLP_TEST_INTERRUPT1, 120)
    /\ Placed(First3, 151) /\ Placed(InMemory, 165) /\ Placed(First2, 174) /\ Placed(InMemory, 188)
<1> USE DEF Length, Placed, Main, Section, HWLP_TEST0, HWLP_TEST1, HWLP_TEST4, HWLP_TEST6,
     HWLP_TEST_INTERRUPT0, HWLP_TEST_INTERRUPT1, HWLP_TEST_INTERRUPT2, HWLP_TEST_INTERRUPT3,
     HWLP_TEST_INTERRUPT4, First0, First2, First3, InMemory, Begin, Nested, AndAdd15, AndAdd22
<1>1. Length = 196
  OBVIOUS
<1>2. /\ Main[1] = ecall /\ Main[9] = ebreak /\ Main[24] = ecall /\ Main[39] = ebreak
      /\ Main[40] = fence_i /\ Main[41] = ebreak /\ Main[42] = ecall /\ Main[43] = ecall
      /\ Main[54] = ecall /\ Main[55] = fence_i /\ Main[67] = ecall /\ Main[88] = ecall
      /\ Main[120] = ecall /\ Main[151] = ecall /\ Main[174] = ecall
  OBVIOUS
<1>3. /\ Main[8] = HandsOut("t1", AFTER_TEST0)
      /\ Main[23] = HandsOut("t2", AFTER_TEST1 * AFTER_TEST1)
      /\ Main[38] = HandsOut("t2", AFTER_TEST2 * AFTER_TEST2) /\ Main[53] = HandsOut("t1", WORD)
      /\ Main[66] = HandsOut("sp_28", 17 \div WORD) /\ Main[87] = HandsOut("t2", RES_EXPECTED0)
      /\ Main[119] = HandsOut("t2", RES_EXPECTED4) /\ Main[150] = HandsOut("t2", RES_EXPECTED1)
      /\ Main[173] = HandsOut("t2", AFTER_TEST_INTERRUPT3)
      /\ Main[196] = HandsOut("t2", RES_EXPECTED2)
  OBVIOUS
<1>4. Placed(HWLP_TEST0, 1)
  OBVIOUS
<1>5. Placed(HWLP_TEST1, 9)
  OBVIOUS
<1>6. Placed(HWLP_TEST1, 24)
  OBVIOUS
<1>7. Placed(HWLP_TEST4, 43)
  OBVIOUS
<1>8. Placed(HWLP_TEST6, 55)
  OBVIOUS
<1>9. Placed(First0, 67)
  OBVIOUS
<1>10. Placed(InMemory, 79)
  OBVIOUS
<1>11. Placed(HWLP_TEST_INTERRUPT4, 88)
  OBVIOUS
<1>12. Placed(HWLP_TEST_INTERRUPT1, 120)
  OBVIOUS
<1>13. Placed(First3, 151)
  OBVIOUS
<1>14. Placed(InMemory, 165)
  OBVIOUS
<1>15. Placed(First2, 174)
  OBVIOUS
<1>16. Placed(InMemory, 188)
  OBVIOUS
<1> HIDE DEF Length, Placed, Main, Section, HWLP_TEST0, HWLP_TEST1, HWLP_TEST4, HWLP_TEST6,
     HWLP_TEST_INTERRUPT0, HWLP_TEST_INTERRUPT1, HWLP_TEST_INTERRUPT2, HWLP_TEST_INTERRUPT3,
     HWLP_TEST_INTERRUPT4, First0, First2, First3, InMemory, Begin, Nested, AndAdd15, AndAdd22
<1> QED
  BY <1>1, <1>2, <1>3, <1>4, <1>5, <1>6, <1>7, <1>8, <1>9, <1>10, <1>11, <1>12, <1>13, <1>14, <1>15, <1>16

\* The registers and the loops with the kth instruction of main next, between two tests and in
\* each of them.
Between(k) ==
    /\ k \in (39 .. 43) \cup {1, 9, 24, 54, 55, 67, 88, 120, 151, 174}
    /\ Frame /\ Off(0) /\ Off(1)
    /\ k = 1 => t1 = 0 /\ t2 = 0
    /\ k = 9 => t1 = AFTER_TEST0
    /\ k = 24 => t1 = AFTER_TEST1

\* What is known of the registers and the loops with the kth instruction of main next.
TestsClaim(k) ==
    \/ Between(k)
    \/ \E n \in 1 .. 7 : k = 1 + n /\ Test0(1, n)
    \/ \E n \in 1 .. 14 : k = 9 + n /\ Test1(9, AFTER_TEST0, n)
    \/ \E n \in 1 .. 14 : k = 24 + n /\ Test1(24, AFTER_TEST1, n)
    \/ \E n \in 1 .. 10 : k = 43 + n /\ Test4(43, n)
    \/ \E n \in 1 .. 11 : k = 55 + n /\ Test6(55, n)
    \/ \E n \in 1 .. 12 : k = 67 + n /\ Interrupt0(67, n)
    \/ \E n \in 1 .. 8 : k = 79 + n /\ Memory(79, 53 + OUTER * (6 * INNER + 22), n)
    \/ \E n \in 1 .. 31 : k = 88 + n /\ Interrupt4(88, n)
    \/ \E n \in 1 .. 30 : k = 120 + n /\ Interrupt1(120, n)
    \/ \E n \in 1 .. 14 : k = 151 + n /\ Interrupt3(151, n)
    \/ \E n \in 1 .. 8 : k = 165 + n /\ Memory(165, 53 + OUTER * (6 + 22), n)
    \/ \E n \in 1 .. 14 : k = 174 + n /\ Interrupt2(174, n)
    \/ \E n \in 1 .. 8 : k = 188 + n /\ Memory(188, 53 + OUTER * (6 * INNER + 22), n)

\* An instruction the tests are made of, and one that hands nothing out.
OfTheTests(instr) ==
    /\ instr.kind \in {"plain", "csr", "hwloop", "illegal", "ecall", "ebreak", "fencei"}
    /\ "effect" \in DOMAIN instr <=> instr.kind \in {"plain", "csr"}
    /\ "effect" \in DOMAIN instr => instr.effect.do \in {"addi", "add", "mul", "div", "swap"}
    /\ instr.kind = "hwloop" => instr.loop \in {0, 1} /\ instr.size \in 0 .. 11
HandsNothingOut(instr) == OfTheTests(instr) /\ "result" \notin DOMAIN instr

\* The instructions a test is written with are of this form.
LEMMA Computations ==
    ASSUME NEW rd, NEW a, NEW b
    PROVE  \A instr \in {addi(rd, a, b), add(rd, a, b), mul(rd, a, b), div(rd, a, b),
                          lw(rd, a), sw(rd, a), mv(rd, a), csrrw(rd, a, b)} : HandsNothingOut(instr)
BY DEF HandsNothingOut, OfTheTests, addi, add, mul, div, lw, sw, mv, csrrw, Compute

LEMMA Setups ==
    ASSUME NEW j \in {0, 1}, NEW count, NEW size \in 0 .. 44
    PROVE  HandsNothingOut(lp_setupi(j, count, size)) /\ HandsNothingOut(dret)
BY DEF HandsNothingOut, OfTheTests, lp_setupi, dret

\* So is every instruction of main, and ten of them hand a result out.
LEMMA TestInstructions ==
    ASSUME NEW k \in 1 .. 196
    PROVE  OfTheTests(Main[k]) /\ ("result" \in DOMAIN Main[k] => k \in {8, 23, 38, 53, 66, 87, 119, 150, 173, 196})
<1>1. k \in (39 .. 43) \cup {1, 9, 24, 54, 55, 67, 88, 120, 151, 174} => OfTheTests(Main[k]) /\ "result" \notin DOMAIN Main[k]
  BY Parts DEF OfTheTests, ecall, ebreak, fence_i
<1>2. k \in {8, 23, 38, 53, 66, 87, 119, 150, 173, 196} => OfTheTests(Main[k])
  BY Parts DEF OfTheTests, HandsOut, mv, addi, Compute
<1>3. k \in 2 .. 7 => HandsNothingOut(Main[k])
  <2>1. Placed(HWLP_TEST0, 1)
    BY Parts
  <2>2. \A i \in 1 .. 6 : HandsNothingOut(Main[1 + i])
    BY <2>1, Test0Code, Computations, Setups
  <2> QED
    BY <2>2
<1>4. k \in 10 .. 22 => HandsNothingOut(Main[k])
  <2>1. Placed(HWLP_TEST1, 9)
    BY Parts
  <2>2. \A i \in 1 .. 13 : HandsNothingOut(Main[9 + i])
    BY <2>1, Test1Code, Computations, Setups
  <2> QED
    BY <2>2
<1>5. k \in 25 .. 37 => HandsNothingOut(Main[k])
  <2>1. Placed(HWLP_TEST1, 24)
    BY Parts
  <2>2. \A i \in 1 .. 13 : HandsNothingOut(Main[24 + i])
    BY <2>1, Test1Code, Computations, Setups
  <2> QED
    BY <2>2
<1>6. k \in 44 .. 52 => HandsNothingOut(Main[k])
  <2>1. Placed(HWLP_TEST4, 43)
    BY Parts
  <2>2. \A i \in 1 .. 9 : HandsNothingOut(Main[43 + i])
    BY <2>1, Test4Code, Computations, Setups
  <2> QED
    BY <2>2
<1>7. k \in 56 .. 65 => HandsNothingOut(Main[k])
  <2>1. Placed(HWLP_TEST6, 55)
    BY Parts
  <2>2. \A i \in 1 .. 10 : HandsNothingOut(Main[55 + i])
    BY <2>1, Test6Code, Computations, Setups
  <2> QED
    BY <2>2
<1>8. k \in 68 .. 79 => HandsNothingOut(Main[k])
  <2>1. Placed(First0, 67)
    BY Parts
  <2>2. \A i \in 1 .. 12 : HandsNothingOut(Main[67 + i])
    BY <2>1, Interrupt0Code, Computations, Setups
  <2> QED
    BY <2>2
<1>9. k \in 80 .. 86 => HandsNothingOut(Main[k])
  <2>1. Placed(InMemory, 79)
    BY Parts
  <2>2. \A i \in 1 .. 7 : HandsNothingOut(Main[79 + i])
    BY <2>1, MemoryCode, Computations, Setups
  <2> QED
    BY <2>2
<1>10. k \in 89 .. 118 => HandsNothingOut(Main[k])
  <2>1. Placed(HWLP_TEST_INTERRUPT4, 88)
    BY Parts
  <2>2. \A i \in 1 .. 30 : HandsNothingOut(Main[88 + i])
    BY <2>1, Interrupt4Code, Computations, Setups
  <2> QED
    BY <2>2
<1>11. k \in 121 .. 149 => HandsNothingOut(Main[k])
  <2>1. Placed(HWLP_TEST_INTERRUPT1, 120)
    BY Parts
  <2>2. \A i \in 1 .. 29 : HandsNothingOut(Main[120 + i])
    BY <2>1, Interrupt1Code, Computations, Setups
  <2> QED
    BY <2>2
<1>12. k \in 152 .. 165 => HandsNothingOut(Main[k])
  <2>1. Placed(First3, 151)
    BY Parts
  <2>2. \A i \in 1 .. 14 : HandsNothingOut(Main[151 + i])
    BY <2>1, Interrupt3Code, Computations, Setups
  <2> QED
    BY <2>2
<1>13. k \in 166 .. 172 => HandsNothingOut(Main[k])
  <2>1. Placed(InMemory, 165)
    BY Parts
  <2>2. \A i \in 1 .. 7 : HandsNothingOut(Main[165 + i])
    BY <2>1, MemoryCode, Computations, Setups
  <2> QED
    BY <2>2
<1>14. k \in 175 .. 188 => HandsNothingOut(Main[k])
  <2>1. Placed(First2, 174)
    BY Parts
  <2>2. \A i \in 1 .. 14 : HandsNothingOut(Main[174 + i])
    BY <2>1, Interrupt2Code, Computations, Setups
  <2> QED
    BY <2>2
<1>15. k \in 189 .. 195 => HandsNothingOut(Main[k])
  <2>1. Placed(InMemory, 188)
    BY Parts
  <2>2. \A i \in 1 .. 7 : HandsNothingOut(Main[188 + i])
    BY <2>1, MemoryCode, Computations, Setups
  <2> QED
    BY <2>2
<1> QED
  BY <1>1, <1>2, <1>3, <1>4, <1>5, <1>6, <1>7, <1>8, <1>9, <1>10, <1>11, <1>12, <1>13, <1>14, <1>15 DEF HandsNothingOut

\* The body of a loop ends within the tests.
LEMMA BodiesEnd ==
    ASSUME NEW k \in 1 .. 196, Main[k].kind = "hwloop"
    PROVE  Main[k].size \in Nat /\ k + Main[k].size \in 1 .. 196
<1>1. Main[k].size \in 0 .. 11
  BY TestInstructions DEF OfTheTests
<1>2. k \notin 186 .. 188
  <2>1. Main[174 + 12].kind = "plain" /\ Main[174 + 13].kind = "plain" /\ Main[174 + 14].kind = "plain"
    BY Parts, Interrupt2Code DEF addi, sw, Compute
  <2> QED BY <2>1
<1>3. k \in 189 .. 196 => k + Main[k].size \in 1 .. 196
  <2>1. /\ Main[188 + 1] = lp_setupi(1, OUTER, 24) /\ Main[188 + 2] = lp_setupi(0, INNER, 12)
        /\ Main[188 + 3] = lw("t1", "sp_80") /\ Main[188 + 4] = addi("t2", "t1", 1)
        /\ Main[188 + 5] = sw("t2", "sp_80") /\ Main[188 + 6] = addi("t2", "t2", 15)
        /\ Main[188 + 7] = sw("t2", "sp_80") /\ Main[196] = HandsOut("t2", RES_EXPECTED2)
    BY Parts, MemoryCode
  <2>2. k \in {191, 192, 193, 194, 195, 196} => Main[k].kind = "plain"
    BY <2>1 DEF lw, sw, addi, Compute, HandsOut
  <2>3. k \in {189, 190} => Main[k].size \in {3, 6}
    BY <2>1 DEF lp_setupi
  <2> QED BY <2>2, <2>3
<1> QED BY <1>1, <1>2, <1>3

\* Where a result is handed out, what is known of the registers makes it the expected one.
LEMMA TestsResult ==
    ASSUME NEW k, TestsClaim(k), "result" \in DOMAIN Main[k]
    PROVE  names[Main[k].effect.a] = Main[k].result
<1> USE RoundsAssumption
<1>1. k \in {8, 23, 38, 53, 66, 87, 119, 150, 173, 196}
  <2>1. k \in 1 .. 196
    BY DEF TestsClaim, Between
  <2> QED
    BY <2>1, TestInstructions
<1>2. ASSUME k = 8 PROVE names[Main[k].effect.a] = Main[k].result
  <2>1. Main[k].effect.a = "t1" /\ Main[k].result = AFTER_TEST0
    BY <1>2, Parts DEF HandsOut, mv, addi, Compute
  <2>2. Test0(1, 7)
    BY <1>2 DEF TestsClaim, Between
  <2> QED
    BY <2>1, <2>2 DEF Test0, t1
<1>3. ASSUME k = 23 PROVE names[Main[k].effect.a] = Main[k].result
  <2>1. Main[k].effect.a = "t2" /\ Main[k].result = AFTER_TEST1 * AFTER_TEST1
    BY <1>3, Parts DEF HandsOut, mv, addi, Compute
  <2>2. Test1(9, AFTER_TEST0, 14)
    BY <1>3 DEF TestsClaim, Between
  <2> QED
    BY <2>1, <2>2 DEF Test1, t2, AFTER_TEST1, t1
<1>4. ASSUME k = 38 PROVE names[Main[k].effect.a] = Main[k].result
  <2>1. Main[k].effect.a = "t2" /\ Main[k].result = AFTER_TEST2 * AFTER_TEST2
    BY <1>4, Parts DEF HandsOut, mv, addi, Compute
  <2>2. Test1(24, AFTER_TEST1, 14)
    BY <1>4 DEF TestsClaim, Between
  <2> QED
    BY <2>1, <2>2 DEF Test1, t2, AFTER_TEST2, t1
<1>5. ASSUME k = 53 PROVE names[Main[k].effect.a] = Main[k].result
  <2>1. Main[k].effect.a = "t1" /\ Main[k].result = WORD
    BY <1>5, Parts DEF HandsOut, mv, addi, Compute
  <2>2. Test4(43, 10)
    BY <1>5 DEF TestsClaim, Between
  <2> QED
    BY <2>1, <2>2 DEF Test4, t1
<1>6. ASSUME k = 66 PROVE names[Main[k].effect.a] = Main[k].result
  <2>1. Main[k].effect.a = "sp_28" /\ Main[k].result = 17 \div WORD
    BY <1>6, Parts DEF HandsOut, mv, addi, Compute
  <2>2. Test6(55, 11)
    BY <1>6 DEF TestsClaim, Between
  <2> QED
    BY <2>1, <2>2 DEF Test6, sp_28
<1>7. ASSUME k = 87 PROVE names[Main[k].effect.a] = Main[k].result
  <2>1. Main[k].effect.a = "t2" /\ Main[k].result = RES_EXPECTED0
    BY <1>7, Parts DEF HandsOut, mv, addi, Compute
  <2>2. Memory(79, 53 + OUTER * (6 * INNER + 22), 8)
    BY <1>7 DEF TestsClaim, Between
  <2> QED
    <3>1. RES_EXPECTED0 = 53 + OUTER * (6 * INNER + 22) + OUTER * (INNER + 15)
      BY DEF RES_EXPECTED0
    <3> QED
      BY <2>1, <2>2, <3>1 DEF Memory, t2
<1>8. ASSUME k = 119 PROVE names[Main[k].effect.a] = Main[k].result
  <2>1. Main[k].effect.a = "t2" /\ Main[k].result = RES_EXPECTED4
    BY <1>8, Parts DEF HandsOut, mv, addi, Compute
  <2>2. Interrupt4(88, 31)
    BY <1>8 DEF TestsClaim, Between
  <2> QED
    BY <2>1, <2>2 DEF Interrupt4, t2, RES_EXPECTED4
<1>9. ASSUME k = 150 PROVE names[Main[k].effect.a] = Main[k].result
  <2>1. Main[k].effect.a = "t2" /\ Main[k].result = RES_EXPECTED1
    BY <1>9, Parts DEF HandsOut, mv, addi, Compute
  <2>2. Interrupt1(120, 30)
    BY <1>9 DEF TestsClaim, Between
  <2> QED
    <3>1. RES_EXPECTED1 = 53 + OUTER * (6 * INNER + 22) + OUTER * (INNER + 15)
      BY DEF RES_EXPECTED1, RES_EXPECTED0
    <3> QED
      BY <2>1, <2>2, <3>1 DEF Interrupt1, t2
<1>10. ASSUME k = 173 PROVE names[Main[k].effect.a] = Main[k].result
  <2>1. Main[k].effect.a = "t2" /\ Main[k].result = AFTER_TEST_INTERRUPT3
    BY <1>10, Parts DEF HandsOut, mv, addi, Compute
  <2>2. Memory(165, 53 + OUTER * (6 + 22), 8)
    BY <1>10 DEF TestsClaim, Between
  <2> QED
    BY <2>1, <2>2 DEF Memory, t2, AFTER_TEST_INTERRUPT3
<1>11. ASSUME k = 196 PROVE names[Main[k].effect.a] = Main[k].result
  <2>1. Main[k].effect.a = "t2" /\ Main[k].result = RES_EXPECTED2
    BY <1>11, Parts DEF HandsOut, mv, addi, Compute
  <2>2. Memory(188, 53 + OUTER * (6 * INNER + 22), 8)
    BY <1>11 DEF TestsClaim, Between
  <2> QED
    <3>1. RES_EXPECTED2 = 53 + OUTER * (6 * INNER + 22) + OUTER * (INNER + 15)
      BY DEF RES_EXPECTED2, RES_EXPECTED0
    <3> QED
      BY <2>1, <2>2, <3>1 DEF Memory, t2
<1> QED
  BY <1>1, <1>2, <1>3, <1>4, <1>5, <1>6, <1>7, <1>8, <1>9, <1>10, <1>11

\* The instruction that hands a result out writes no register of the tests.
LEMMA HandingOut ==
    ASSUME NEW k, NEW rd \in Names, NEW result, TestStep(k), Main[k] = HandsOut(rd, result), Shape, Off(0), Off(1)
    PROVE  Passes(k) /\ \A x \in Names \ {"res"} : names'[x] = names[x]
<1>1. Passes(k)
  BY Passing DEF HandsOut, mv, addi, Compute, Off, EndsAt, Shape
<1>2. \A x \in Names \ {"res"} : names'[x] = names[x]
  BY DEF TestStep, HandsOut, mv, addi, Compute, Computes, Executed, Names, Shape
<1> QED
  BY <1>1, <1>2

\* An instruction leads from one place of main to the next, or out of it.
LEMMA TestsStep ==
    ASSUME NEW k, TestsClaim(k), Shape, TestStep(k)
    PROVE  (\E n : OnTo(n) /\ TestsClaim(n)') \/ (OnTo(197) /\ Off(0)' /\ Off(1)')
<1> DEFINE Goes == (\E n : OnTo(n) /\ TestsClaim(n)') \/ (OnTo(197) /\ Off(0)' /\ Off(1)')
<1> HIDE DEF Goes
<1>1. ASSUME Between(k) PROVE Goes
  <2>1. Passes(k) /\ names' = names
    BY <1>1, Parts, Passing, NamesKept DEF Between, Off, EndsAt, Shape, ecall, ebreak, fence_i
  <2>2. OnTo(k + 1) /\ Frame' /\ Off(0)' /\ Off(1)' /\ t1' = t1 /\ t2' = t2
    BY <1>1, <2>1 DEF Between, Passes, LoopKept, Off, Frame, t1, t2
  <2>3. TestsClaim(k + 1)'
    <3>1. CASE k \in (39 .. 42) \cup {54}
      BY <2>2, <3>1 DEF TestsClaim, Between
    <3>2. CASE k = 1
      <4>1. Test0(1, 1)'
        BY <1>1, <2>2, <3>2 DEF Between, Test0, Off
      <4> QED
        BY <3>2, <4>1 DEF TestsClaim
    <3>3. CASE k = 9
      <4>1. Test1(9, AFTER_TEST0, 1)'
        BY <1>1, <2>2, <3>3 DEF Between, Test1, Off
      <4> QED
        BY <3>3, <4>1 DEF TestsClaim
    <3>4. CASE k = 24
      <4>1. Test1(24, AFTER_TEST1, 1)'
        BY <1>1, <2>2, <3>4 DEF Between, Test1, Off
      <4> QED
        BY <3>4, <4>1 DEF TestsClaim
    <3>5. CASE k = 43
      <4>1. Test4(43, 1)'
        BY <1>1, <2>2, <3>5 DEF Between, Test4, Off
      <4> QED
        BY <3>5, <4>1 DEF TestsClaim
    <3>6. CASE k = 55
      <4>1. Test6(55, 1)'
        BY <1>1, <2>2, <3>6 DEF Between, Test6, Off
      <4> QED
        BY <3>6, <4>1 DEF TestsClaim
    <3>7. CASE k = 67
      <4>1. Interrupt0(67, 1)'
        BY <1>1, <2>2, <3>7 DEF Between, Interrupt0, Off
      <4> QED
        BY <3>7, <4>1 DEF TestsClaim
    <3>8. CASE k = 88
      <4>1. Interrupt4(88, 1)'
        BY <1>1, <2>2, <3>8 DEF Between, Interrupt4, Off
      <4> QED
        BY <3>8, <4>1 DEF TestsClaim
    <3>9. CASE k = 120
      <4>1. Interrupt1(120, 1)'
        BY <1>1, <2>2, <3>9 DEF Between, Interrupt1, Off
      <4> QED
        BY <3>9, <4>1 DEF TestsClaim
    <3>10. CASE k = 151
      <4>1. Interrupt3(151, 1)'
        BY <1>1, <2>2, <3>10 DEF Between, Interrupt3, Off
      <4> QED
        BY <3>10, <4>1 DEF TestsClaim
    <3>11. CASE k = 174
      <4>1. Interrupt2(174, 1)'
        BY <1>1, <2>2, <3>11 DEF Between, Interrupt2, Off
      <4> QED
        BY <3>11, <4>1 DEF TestsClaim
    <3> QED
      BY <1>1, <3>1, <3>2, <3>3, <3>4, <3>5, <3>6, <3>7, <3>8, <3>9, <3>10, <3>11 DEF Between
  <2> QED
    BY <2>2, <2>3 DEF Goes
<1>2. ASSUME NEW n \in 1 .. 7, k = 1 + n, Test0(1, n) PROVE Goes
  <2>1. Placed(HWLP_TEST0, 1)
    BY Parts
  <2>2. CASE n \in 1 .. 6
    <3>3. PICK m \in 1 .. 7 : OnTo(1 + m) /\ Test0(1, m)'
      BY <1>2, <2>1, <2>2, Test0Step
    <3>4. TestsClaim(1 + m)'
      BY <3>3 DEF TestsClaim
    <3> QED
      BY <3>3, <3>4 DEF Goes
  <2>3. CASE n = 7
    <3>1. Off(0) /\ Off(1) /\ Frame
      BY <1>2, <2>3 DEF Test0
    <3>2. Passes(8) /\ \A x \in Names \ {"res"} : names'[x] = names[x]
      <4>1. Main[8] = HandsOut("t1", AFTER_TEST0) /\ TestStep(8)
        BY <1>2, <2>3, Parts
      <4> QED
        BY <3>1, <4>1, HandingOut DEF Names
    <3>3. OnTo(9) /\ Frame' /\ Off(0)' /\ Off(1)' /\ t1' = t1
      BY <3>1, <3>2 DEF Passes, LoopKept, Off, Frame, Names, t1
    <3>4. Between(9)'
      BY <1>2, <2>3, <3>3 DEF Between, Test0
    <3>5. TestsClaim(9)'
      BY <3>4 DEF TestsClaim
    <3> QED
      BY <3>3, <3>5 DEF Goes
  <2> QED
    BY <1>2, <2>2, <2>3
<1>3. ASSUME NEW n \in 1 .. 14, k = 9 + n, Test1(9, AFTER_TEST0, n) PROVE Goes
  <2>1. Placed(HWLP_TEST1, 9)
    BY Parts
  <2>2. CASE n \in 1 .. 13
    <3>2. AFTER_TEST0 \in Nat
      BY RoundsAssumption DEF AFTER_TEST0
    <3>3. PICK m \in 1 .. 14 : OnTo(9 + m) /\ Test1(9, AFTER_TEST0, m)'
      BY <1>3, <2>1, <2>2, Test1Step, <3>2
    <3>4. TestsClaim(9 + m)'
      BY <3>3 DEF TestsClaim
    <3> QED
      BY <3>3, <3>4 DEF Goes
  <2>3. CASE n = 14
    <3>1. Off(0) /\ Off(1) /\ Frame
      BY <1>3, <2>3 DEF Test1
    <3>2. Passes(23) /\ \A x \in Names \ {"res"} : names'[x] = names[x]
      <4>1. Main[23] = HandsOut("t2", AFTER_TEST1 * AFTER_TEST1) /\ TestStep(23)
        BY <1>3, <2>3, Parts
      <4> QED
        BY <3>1, <4>1, HandingOut DEF Names
    <3>3. OnTo(24) /\ Frame' /\ Off(0)' /\ Off(1)' /\ t1' = t1
      BY <3>1, <3>2 DEF Passes, LoopKept, Off, Frame, Names, t1
    <3>4. Between(24)'
      BY <1>3, <2>3, <3>3 DEF Between, Test1, AFTER_TEST1
    <3>5. TestsClaim(24)'
      BY <3>4 DEF TestsClaim
    <3> QED
      BY <3>3, <3>5 DEF Goes
  <2> QED
    BY <1>3, <2>2, <2>3
<1>4. ASSUME NEW n \in 1 .. 14, k = 24 + n, Test1(24, AFTER_TEST1, n) PROVE Goes
  <2>1. Placed(HWLP_TEST1, 24)
    BY Parts
  <2>2. CASE n \in 1 .. 13
    <3>2. AFTER_TEST1 \in Nat
      BY RoundsAssumption DEF AFTER_TEST1, AFTER_TEST0
    <3>3. PICK m \in 1 .. 14 : OnTo(24 + m) /\ Test1(24, AFTER_TEST1, m)'
      BY <1>4, <2>1, <2>2, Test1Step, <3>2
    <3>4. TestsClaim(24 + m)'
      BY <3>3 DEF TestsClaim
    <3> QED
      BY <3>3, <3>4 DEF Goes
  <2>3. CASE n = 14
    <3>1. Off(0) /\ Off(1) /\ Frame
      BY <1>4, <2>3 DEF Test1
    <3>2. Passes(38) /\ \A x \in Names \ {"res"} : names'[x] = names[x]
      <4>1. Main[38] = HandsOut("t2", AFTER_TEST2 * AFTER_TEST2) /\ TestStep(38)
        BY <1>4, <2>3, Parts
      <4> QED
        BY <3>1, <4>1, HandingOut DEF Names
    <3>3. OnTo(39) /\ Frame' /\ Off(0)' /\ Off(1)' /\ t1' = t1
      BY <3>1, <3>2 DEF Passes, LoopKept, Off, Frame, Names, t1
    <3>4. Between(39)'
      BY <1>4, <2>3, <3>3 DEF Between
    <3>5. TestsClaim(39)'
      BY <3>4 DEF TestsClaim
    <3> QED
      BY <3>3, <3>5 DEF Goes
  <2> QED
    BY <1>4, <2>2, <2>3
<1>5. ASSUME NEW n \in 1 .. 10, k = 43 + n, Test4(43, n) PROVE Goes
  <2>1. Placed(HWLP_TEST4, 43)
    BY Parts
  <2>2. CASE n \in 1 .. 9
    <3>3. PICK m \in 1 .. 10 : OnTo(43 + m) /\ Test4(43, m)'
      BY <1>5, <2>1, <2>2, Test4Step
    <3>4. TestsClaim(43 + m)'
      BY <3>3 DEF TestsClaim
    <3> QED
      BY <3>3, <3>4 DEF Goes
  <2>3. CASE n = 10
    <3>1. Off(0) /\ Off(1) /\ Frame
      BY <1>5, <2>3 DEF Test4
    <3>2. Passes(53) /\ \A x \in Names \ {"res"} : names'[x] = names[x]
      <4>1. Main[53] = HandsOut("t1", WORD) /\ TestStep(53)
        BY <1>5, <2>3, Parts
      <4> QED
        BY <3>1, <4>1, HandingOut DEF Names
    <3>3. OnTo(54) /\ Frame' /\ Off(0)' /\ Off(1)' /\ t1' = t1
      BY <3>1, <3>2 DEF Passes, LoopKept, Off, Frame, Names, t1
    <3>4. Between(54)'
      BY <1>5, <2>3, <3>3 DEF Between
    <3>5. TestsClaim(54)'
      BY <3>4 DEF TestsClaim
    <3> QED
      BY <3>3, <3>5 DEF Goes
  <2> QED
    BY <1>5, <2>2, <2>3
<1>6. ASSUME NEW n \in 1 .. 11, k = 55 + n, Test6(55, n) PROVE Goes
  <2>1. Placed(HWLP_TEST6, 55)
    BY Parts
  <2>2. CASE n \in 1 .. 10
    <3>3. PICK m \in 1 .. 11 : OnTo(55 + m) /\ Test6(55, m)'
      BY <1>6, <2>1, <2>2, Test6Step
    <3>4. TestsClaim(55 + m)'
      BY <3>3 DEF TestsClaim
    <3> QED
      BY <3>3, <3>4 DEF Goes
  <2>3. CASE n = 11
    <3>1. Off(0) /\ Off(1) /\ Frame
      BY <1>6, <2>3 DEF Test6
    <3>2. Passes(66) /\ \A x \in Names \ {"res"} : names'[x] = names[x]
      <4>1. Main[66] = HandsOut("sp_28", 17 \div WORD) /\ TestStep(66)
        BY <1>6, <2>3, Parts
      <4> QED
        BY <3>1, <4>1, HandingOut DEF Names
    <3>3. OnTo(67) /\ Frame' /\ Off(0)' /\ Off(1)' /\ t1' = t1
      BY <3>1, <3>2 DEF Passes, LoopKept, Off, Frame, Names, t1
    <3>4. Between(67)'
      BY <1>6, <2>3, <3>3 DEF Between
    <3>5. TestsClaim(67)'
      BY <3>4 DEF TestsClaim
    <3> QED
      BY <3>3, <3>5 DEF Goes
  <2> QED
    BY <1>6, <2>2, <2>3
<1>7. ASSUME NEW n \in 1 .. 12, k = 67 + n, Interrupt0(67, n) PROVE Goes
  <2>1. Placed(First0, 67)
    BY Parts
  <2>3. PICK m \in 1 .. 13 : OnTo(67 + m) /\ Interrupt0(67, m)'
    BY <1>7, <2>1, Interrupt0Step
  <2>4. CASE m = 13
    <3>1. Memory(79, 53 + OUTER * (6 * INNER + 22), 1)'
      BY <2>3, <2>4, TestsInNat DEF Interrupt0, Memory, Past, Off, Loop, At
    <3>2. TestsClaim(79 + 1)'
      BY <3>1 DEF TestsClaim
    <3> QED
      BY <2>3, <2>4, <3>2 DEF Goes
  <2>5. CASE m \in 1 .. 12
    <3>1. TestsClaim(67 + m)'
      BY <2>3, <2>5 DEF TestsClaim
    <3> QED
      BY <2>3, <3>1 DEF Goes
  <2> QED
    BY <2>3, <2>4, <2>5
<1>8. ASSUME NEW n \in 1 .. 8, k = 79 + n, Memory(79, 53 + OUTER * (6 * INNER + 22), n) PROVE Goes
  <2>1. Placed(InMemory, 79)
    BY Parts
  <2>2. CASE n \in 1 .. 7
    <3>2. 53 + OUTER * (6 * INNER + 22) \in Nat
      BY RoundsAssumption
    <3>3. PICK m \in 1 .. 8 : OnTo(79 + m) /\ Memory(79, 53 + OUTER * (6 * INNER + 22), m)'
      BY <1>8, <2>1, <2>2, MemoryStep, <3>2
    <3>4. TestsClaim(79 + m)'
      BY <3>3 DEF TestsClaim
    <3> QED
      BY <3>3, <3>4 DEF Goes
  <2>3. CASE n = 8
    <3>1. Off(0) /\ Off(1) /\ Frame
      BY <1>8, <2>3 DEF Memory
    <3>2. Passes(87) /\ \A x \in Names \ {"res"} : names'[x] = names[x]
      <4>1. Main[87] = HandsOut("t2", RES_EXPECTED0) /\ TestStep(87)
        BY <1>8, <2>3, Parts
      <4> QED
        BY <3>1, <4>1, HandingOut DEF Names
    <3>3. OnTo(88) /\ Frame' /\ Off(0)' /\ Off(1)' /\ t1' = t1
      BY <3>1, <3>2 DEF Passes, LoopKept, Off, Frame, Names, t1
    <3>4. Between(88)'
      BY <1>8, <2>3, <3>3 DEF Between
    <3>5. TestsClaim(88)'
      BY <3>4 DEF TestsClaim
    <3> QED
      BY <3>3, <3>5 DEF Goes
  <2> QED
    BY <1>8, <2>2, <2>3
<1>9. ASSUME NEW n \in 1 .. 31, k = 88 + n, Interrupt4(88, n) PROVE Goes
  <2>1. Placed(HWLP_TEST_INTERRUPT4, 88)
    BY Parts
  <2>2. CASE n \in 1 .. 30
    <3>3. PICK m \in 1 .. 31 : OnTo(88 + m) /\ Interrupt4(88, m)'
      BY <1>9, <2>1, <2>2, Interrupt4Step
    <3>4. TestsClaim(88 + m)'
      BY <3>3 DEF TestsClaim
    <3> QED
      BY <3>3, <3>4 DEF Goes
  <2>3. CASE n = 31
    <3>1. Off(0) /\ Off(1) /\ Frame
      BY <1>9, <2>3 DEF Interrupt4
    <3>2. Passes(119) /\ \A x \in Names \ {"res"} : names'[x] = names[x]
      <4>1. Main[119] = HandsOut("t2", RES_EXPECTED4) /\ TestStep(119)
        BY <1>9, <2>3, Parts
      <4> QED
        BY <3>1, <4>1, HandingOut DEF Names
    <3>3. OnTo(120) /\ Frame' /\ Off(0)' /\ Off(1)' /\ t1' = t1
      BY <3>1, <3>2 DEF Passes, LoopKept, Off, Frame, Names, t1
    <3>4. Between(120)'
      BY <1>9, <2>3, <3>3 DEF Between
    <3>5. TestsClaim(120)'
      BY <3>4 DEF TestsClaim
    <3> QED
      BY <3>3, <3>5 DEF Goes
  <2> QED
    BY <1>9, <2>2, <2>3
<1>10. ASSUME NEW n \in 1 .. 30, k = 120 + n, Interrupt1(120, n) PROVE Goes
  <2>1. Placed(HWLP_TEST_INTERRUPT1, 120)
    BY Parts
  <2>2. CASE n \in 1 .. 29
    <3>3. PICK m \in 1 .. 30 : OnTo(120 + m) /\ Interrupt1(120, m)'
      BY <1>10, <2>1, <2>2, Interrupt1Step
    <3>4. TestsClaim(120 + m)'
      BY <3>3 DEF TestsClaim
    <3> QED
      BY <3>3, <3>4 DEF Goes
  <2>3. CASE n = 30
    <3>1. Off(0) /\ Off(1) /\ Frame
      BY <1>10, <2>3 DEF Interrupt1
    <3>2. Passes(150) /\ \A x \in Names \ {"res"} : names'[x] = names[x]
      <4>1. Main[150] = HandsOut("t2", RES_EXPECTED1) /\ TestStep(150)
        BY <1>10, <2>3, Parts
      <4> QED
        BY <3>1, <4>1, HandingOut DEF Names
    <3>3. OnTo(151) /\ Frame' /\ Off(0)' /\ Off(1)' /\ t1' = t1
      BY <3>1, <3>2 DEF Passes, LoopKept, Off, Frame, Names, t1
    <3>4. Between(151)'
      BY <1>10, <2>3, <3>3 DEF Between
    <3>5. TestsClaim(151)'
      BY <3>4 DEF TestsClaim
    <3> QED
      BY <3>3, <3>5 DEF Goes
  <2> QED
    BY <1>10, <2>2, <2>3
<1>11. ASSUME NEW n \in 1 .. 14, k = 151 + n, Interrupt3(151, n) PROVE Goes
  <2>1. Placed(First3, 151)
    BY Parts
  <2>3. PICK m \in 1 .. 15 : OnTo(151 + m) /\ Interrupt3(151, m)'
    BY <1>11, <2>1, Interrupt3Step
  <2>4. CASE m = 15
    <3>1. Memory(165, 53 + OUTER * (6 + 22), 1)'
      BY <2>3, <2>4, TestsInNat DEF Interrupt3, Memory, Past, Off, Loop, At
    <3>2. TestsClaim(165 + 1)'
      BY <3>1 DEF TestsClaim
    <3> QED
      BY <2>3, <2>4, <3>2 DEF Goes
  <2>5. CASE m \in 1 .. 14
    <3>1. TestsClaim(151 + m)'
      BY <2>3, <2>5 DEF TestsClaim
    <3> QED
      BY <2>3, <3>1 DEF Goes
  <2> QED
    BY <2>3, <2>4, <2>5
<1>12. ASSUME NEW n \in 1 .. 8, k = 165 + n, Memory(165, 53 + OUTER * (6 + 22), n) PROVE Goes
  <2>1. Placed(InMemory, 165)
    BY Parts
  <2>2. CASE n \in 1 .. 7
    <3>2. 53 + OUTER * (6 + 22) \in Nat
      BY RoundsAssumption
    <3>3. PICK m \in 1 .. 8 : OnTo(165 + m) /\ Memory(165, 53 + OUTER * (6 + 22), m)'
      BY <1>12, <2>1, <2>2, MemoryStep, <3>2
    <3>4. TestsClaim(165 + m)'
      BY <3>3 DEF TestsClaim
    <3> QED
      BY <3>3, <3>4 DEF Goes
  <2>3. CASE n = 8
    <3>1. Off(0) /\ Off(1) /\ Frame
      BY <1>12, <2>3 DEF Memory
    <3>2. Passes(173) /\ \A x \in Names \ {"res"} : names'[x] = names[x]
      <4>1. Main[173] = HandsOut("t2", AFTER_TEST_INTERRUPT3) /\ TestStep(173)
        BY <1>12, <2>3, Parts
      <4> QED
        BY <3>1, <4>1, HandingOut DEF Names
    <3>3. OnTo(174) /\ Frame' /\ Off(0)' /\ Off(1)' /\ t1' = t1
      BY <3>1, <3>2 DEF Passes, LoopKept, Off, Frame, Names, t1
    <3>4. Between(174)'
      BY <1>12, <2>3, <3>3 DEF Between
    <3>5. TestsClaim(174)'
      BY <3>4 DEF TestsClaim
    <3> QED
      BY <3>3, <3>5 DEF Goes
  <2> QED
    BY <1>12, <2>2, <2>3
<1>13. ASSUME NEW n \in 1 .. 14, k = 174 + n, Interrupt2(174, n) PROVE Goes
  <2>1. Placed(First2, 174)
    BY Parts
  <2>3. PICK m \in 1 .. 15 : OnTo(174 + m) /\ Interrupt2(174, m)'
    BY <1>13, <2>1, Interrupt2Step
  <2>4. CASE m = 15
    <3>1. Memory(188, 53 + OUTER * (6 * INNER + 22), 1)'
      BY <2>3, <2>4, TestsInNat DEF Interrupt2, Memory, Past, Off, Loop, At
    <3>2. TestsClaim(188 + 1)'
      BY <3>1 DEF TestsClaim
    <3> QED
      BY <2>3, <2>4, <3>2 DEF Goes
  <2>5. CASE m \in 1 .. 14
    <3>1. TestsClaim(174 + m)'
      BY <2>3, <2>5 DEF TestsClaim
    <3> QED
      BY <2>3, <3>1 DEF Goes
  <2> QED
    BY <2>3, <2>4, <2>5
<1>14. ASSUME NEW n \in 1 .. 8, k = 188 + n, Memory(188, 53 + OUTER * (6 * INNER + 22), n) PROVE Goes
  <2>1. Placed(InMemory, 188)
    BY Parts
  <2>2. CASE n \in 1 .. 7
    <3>2. 53 + OUTER * (6 * INNER + 22) \in Nat
      BY RoundsAssumption
    <3>3. PICK m \in 1 .. 8 : OnTo(188 + m) /\ Memory(188, 53 + OUTER * (6 * INNER + 22), m)'
      BY <1>14, <2>1, <2>2, MemoryStep, <3>2
    <3>4. TestsClaim(188 + m)'
      BY <3>3 DEF TestsClaim
    <3> QED
      BY <3>3, <3>4 DEF Goes
  <2>3. CASE n = 8
    <3>1. Off(0) /\ Off(1) /\ Frame
      BY <1>14, <2>3 DEF Memory
    <3>2. Passes(196) /\ \A x \in Names \ {"res"} : names'[x] = names[x]
      <4>1. Main[196] = HandsOut("t2", RES_EXPECTED2) /\ TestStep(196)
        BY <1>14, <2>3, Parts
      <4> QED
        BY <3>1, <4>1, HandingOut DEF Names
    <3>3. OnTo(197) /\ Frame' /\ Off(0)' /\ Off(1)' /\ t1' = t1
      BY <3>1, <3>2 DEF Passes, LoopKept, Off, Frame, Names, t1
    <3> QED
      BY <3>3 DEF Goes
  <2> QED
    BY <1>14, <2>2, <2>3
<1>15. Goes
  BY <1>1, <1>2, <1>3, <1>4, <1>5, <1>6, <1>7, <1>8, <1>9, <1>10, <1>11, <1>12, <1>13, <1>14 DEF TestsClaim
<1> QED
  BY <1>15 DEF Goes

--------------------------------------------------------------------------------
\* What a cycle of the core is to the software.

\* The hart is at an instruction that is not executed.
Refused ==
    \/ Program[hart.pc].kind \in {"ecall", "ebreak", "illegal"}
    \/ Program[hart.pc].kind \in {"dret", "dcsr"} /\ ~hart.debug

\* What the instruction the hart is at writes to the loop registers, and what EX gets of it.
LoopsWritten ==
    LET instr == Program[hart.pc]
        Has(field) == instr.kind = "hwloop" /\ field \in instr.fields
    IN  /\ hwlp_start_q' = IF Has("start") THEN [hwlp_start_q EXCEPT ![instr.loop] = 2 * (instr.start \div 2)]
                           ELSE hwlp_start_q
        /\ hwlp_end_q' = IF Has("end") THEN [hwlp_end_q EXCEPT ![instr.loop] = 2 * (instr.end \div 2)]
                         ELSE hwlp_end_q
IntoEffect ==
    LET instr == Program[hart.pc]
    IN  /\ ex'.kind = "mie" => instr.kind = "mie"
        /\ ex'.kind \in {"plain", "csr"} <=> instr.kind \in {"plain", "csr"} /\ "effect" \in DOMAIN instr
        /\ ex'.kind \in {"plain", "csr"} => ex'.value = instr.effect

\* No instruction is executed.
NoneRuns == LoopsStay /\ ex' = NoOp

\* What a cycle is to the software.
Moves ==
    \/ NoneRuns /\ hart' = hart
    \/ NoneRuns /\ Interrupt /\ mie_q /\ ~mie_q' /\ ~hart.debug
    \/ NoneRuns /\ Exception /\ Refused /\ (~hart.debug => ~mie_q')
    \/ NoneRuns /\ Halt
    \/ Retire(hwlp_start_q, hwlp_end_q, ex'.taken) /\ LoopsAreCounted' /\ ~Refused /\ LoopsWritten /\ IntoEffect

\* Interrupts are enabled by a write from EX and by the return from a trap only.
Returning == ctrl_fsm_cs = "FLUSH_WB" /\ kind = "mret" /\ ~illegal_insn_q /\ ~debug_mode_q
Enables == mie_q' => mie_q \/ ex.kind = "mie" \/ Returning

\* The trap registers of an edge.
EnableSpec(out) ==
    /\ out.save # "none" /\ ~out.debug_save => ~mie_q'
    /\ mie_q' => mie_q \/ ex.kind = "mie" \/ out.restore

\* An edge enables interrupts in no other way.
LEMMA EdgeEnables ==
    ASSUME FlowType, NEW in, NEW out, Edge(in, out)
    PROVE  EnableSpec(out)
<1>1. PICK into_ex : EdgeParts(in, out, into_ex)
  BY EdgeHasParts
<1>2. TrapEdge(out.save, out.debug_save, out.debug_cause, exception_pc(out), out.restore, ex, in.irq)
  BY <1>1 DEF EdgeParts
<1> QED BY <1>2 DEF TrapEdge, EnableSpec

\* An edge that decodes nothing.
LEMMA NoneDecoded ==
    ASSUME FlowType, NEW in \in Inputs, NEW out \in Outputs, Edge(in, out), out.decoding = FALSE, out.dec = {}
    PROVE  NoneRuns /\ SavesSpec(in, out) /\ EnableSpec(out) /\ (out.event = "none" => hart' = hart)
<1>1. EdgeSpec(in, out) /\ SavesSpec(in, out) /\ LoopsStay /\ EnableSpec(out)
  BY EdgeFlags, EdgeSaves, EdgeKeepsLoops, EdgeEnables
<1>2. ~Issues(in, out)
  BY DEF Issues
<1> QED BY <1>1, <1>2 DEF EdgeSpec, SavesSpec, NoneRuns

\* The states in which nothing happens.
LEMMA RestMoves ==
    ASSUME FlowInv,
           \/ InReset(Inputs, BOOLEAN) \/ InBoot(Inputs) \/ InWait(Inputs) \/ InSleep(Inputs)
           \/ InFlushWb(Inputs) \/ InXret(Inputs) \/ InDbgWait(Inputs) \/ InDbgFlush(Inputs)
    PROVE  Moves /\ Enables
<1> USE DEF FlowInv
<1> DEFINE Rests(in, out) ==
             /\ Edge(in, out) /\ out \in Outputs /\ out.decoding = FALSE /\ out.dec = {} /\ out.event = "none"
             /\ out.restore => Returning
<1>1. SUFFICES \E in \in Inputs, out \in Outputs : Rests(in, out)
  <2>1. PICK in \in Inputs, out \in Outputs : Rests(in, out)
    BY <1>1
  <2>2. NoneRuns /\ EnableSpec(out) /\ hart' = hart
    BY <2>1, NoneDecoded
  <2> QED BY <2>1, <2>2 DEF EnableSpec, Moves, Enables
<1>2. irq_req_ctrl \in BOOLEAN /\ \A in \in Inputs : in.debug_req \in BOOLEAN /\ irq_wu_ctrl(in.irq) \in BOOLEAN
  BY InputTypes DEF irq_req_ctrl, irq_wu_ctrl
<1>3. ASSUME InReset(Inputs, BOOLEAN) PROVE \E in \in Inputs, out \in Outputs : Rests(in, out)
  <2>1. PICK in \in Inputs, enable \in BOOLEAN : Edge(in, Reset(enable))
    BY <1>3 DEF InReset
  <2>2. Rests(in, Reset(enable))
    BY <2>1, SleepyTypes DEF Reset, Idle
  <2> QED BY <2>2
<1>4. ASSUME InBoot(Inputs) PROVE \E in \in Inputs, out \in Outputs : Rests(in, out)
  <2>1. PICK in \in Inputs : Edge(in, BootSet(in.debug_req))
    BY <1>4 DEF InBoot
  <2>2. Rests(in, BootSet(in.debug_req))
    BY <1>2, <2>1, SleepyTypes DEF BootSet, JumpTo, Idle
  <2> QED BY <2>2
<1>5. ASSUME InWait(Inputs) PROVE \E in \in Inputs, out \in Outputs : Rests(in, out)
  <2>1. PICK in \in Inputs : Edge(in, WaitSleep)
    BY <1>5 DEF InWait
  <2>2. Rests(in, WaitSleep)
    BY <2>1, SleepyTypes DEF WaitSleep, Halted, Idle
  <2> QED BY <2>2
<1>6. ASSUME InSleep(Inputs) PROVE \E in \in Inputs, out \in Outputs : Rests(in, out)
  <2>1. PICK in \in Inputs : Edge(in, Sleep(irq_wu_ctrl(in.irq), in.debug_req))
    BY <1>6 DEF InSleep
  <2>2. Sleep(irq_wu_ctrl(in.irq), in.debug_req) \in Outputs
    BY <1>2, SleepyTypes
  <2>3. LET out == Sleep(irq_wu_ctrl(in.irq), in.debug_req)
        IN  out.decoding = FALSE /\ out.dec = {} /\ out.event = "none" /\ out.restore = FALSE
    BY DEF Sleep, Halted, Idle
  <2> QED BY <2>1, <2>2, <2>3
<1>7. ASSUME InFlushWb(Inputs) PROVE \E in \in Inputs, out \in Outputs : Rests(in, out)
  <2>1. PICK in \in Inputs : Edge(in, FlushWb(in.debug_req)) /\ ctrl_fsm_cs = "FLUSH_WB"
    BY <1>7 DEF InFlushWb
  <2> DEFINE out == FlushWb(in.debug_req)
             turn == [Halted EXCEPT !.ns = "XRET_JUMP", !.restore = ~debug_mode_q]
  <2>2. \/ out = turn /\ ~illegal_insn_q /\ kind = "mret"
       \/ (out.restore = FALSE /\ out.decoding = FALSE /\ out.dec = {} /\ out.event = "none")
    BY DEF FlushWb, Trap, AfterStatusCsr, JumpTo, Halted, Idle
  <2>3. turn.restore = ~debug_mode_q /\ turn.decoding = FALSE /\ turn.dec = {} /\ turn.event = "none"
    BY DEF Halted, Idle
  <2>4. out \in Outputs
    BY <1>2, FlushTypes
  <2> HIDE DEF out, turn
  <2>5. Edge(in, out)
    BY <2>1 DEF out
  <2>6. Rests(in, out)
    BY <2>1, <2>2, <2>3, <2>4, <2>5 DEF Returning
  <2> QED BY <2>4, <2>6
<1>8. ASSUME InXret(Inputs) PROVE \E in \in Inputs, out \in Outputs : Rests(in, out)
  <2>1. PICK in \in Inputs : Edge(in, XretJump) /\ ctrl_fsm_cs = "XRET_JUMP"
    BY <1>8 DEF InXret
  <2>2. XretJump \in Outputs /\ kind \in {"mret", "dret"}
    BY <2>1, DebugTypes DEF FlowType, ControllerType
  <2>3. XretJump.decoding = FALSE /\ XretJump.dec = {} /\ XretJump.event = "none" /\ XretJump.restore = FALSE
    BY <2>2 DEF XretJump, JumpTo, Idle
  <2> QED BY <2>1, <2>2, <2>3
<1>9. ASSUME InDbgWait(Inputs) PROVE \E in \in Inputs, out \in Outputs : Rests(in, out)
  <2>1. PICK in \in Inputs : Edge(in, DbgWaitBranch)
    BY <1>9 DEF InDbgWait
  <2>2. Rests(in, DbgWaitBranch)
    BY <2>1, DebugTypes DEF DbgWaitBranch, JumpTo, Idle
  <2> QED BY <2>2
<1>10. ASSUME InDbgFlush(Inputs) PROVE \E in \in Inputs, out \in Outputs : Rests(in, out)
  <2>1. PICK in \in Inputs : Edge(in, DbgFlush)
    BY <1>10 DEF InDbgFlush
  <2>2. Rests(in, DbgFlush)
    BY <2>1, DebugTypes DEF DbgFlush, Halted, Idle
  <2> QED BY <2>2
<1> QED BY <1>3, <1>4, <1>5, <1>6, <1>7, <1>8, <1>9, <1>10

\* FIRST_FETCH may take an interrupt.
LEMMA FirstMoves ==
    ASSUME FlowInv, HartInv, InFirst(Inputs)
    PROVE  Moves /\ Enables
<1> USE DEF FlowInv
<1>1. PICK in \in Inputs : Edge(in, FirstFetch(irq_req_ctrl, in.debug_req)) /\ ctrl_fsm_cs = "FIRST_FETCH"
  BY DEF InFirst
<1> DEFINE out == FirstFetch(irq_req_ctrl, in.debug_req)
           taken == irq_req_ctrl /\ ~Pending(in.debug_req) /\ ~debug_mode_q
<1>2. out \in Outputs /\ Edge(in, out)
  BY <1>1, SleepyTypes, InputTypes DEF irq_req_ctrl
<1>3. /\ out.decoding = FALSE /\ out.dec = {} /\ out.restore = FALSE
      /\ taken => out.save = "if" /\ out.debug_save = FALSE /\ out.event = "interrupt"
      /\ ~taken => out.event = "none"
  BY DEF FirstFetch, TakenIrq, JumpTo, Halted, Idle
<1>4. taken => mie_q /\ ~debug_mode_q
  BY DEF irq_req_ctrl, m_irq_enable
<1> HIDE DEF out, taken
<1>5. NoneRuns /\ SavesSpec(in, out) /\ EnableSpec(out) /\ (out.event = "none" => hart' = hart)
  BY <1>2, <1>3, NoneDecoded
<1>6. Enables
  BY <1>3, <1>5 DEF EnableSpec, Enables
<1>7. taken => Interrupt /\ mie_q /\ ~mie_q' /\ ~hart.debug
  BY <1>3, <1>4, <1>5 DEF SavesSpec, EnableSpec, HartInv, SavedInv
<1> QED BY <1>3, <1>5, <1>6, <1>7 DEF Moves

\* FLUSH_EX may take an exception.
LEMMA FlushExMoves ==
    ASSUME FlowInv, HartInv, InFlushEx(Inputs, BOOLEAN)
    PROVE  Moves /\ Enables
<1> USE DEF FlowInv
<1>1. PICK in \in Inputs, ex_valid \in BOOLEAN : Edge(in, FlushEx(ex_valid)) /\ ctrl_fsm_cs = "FLUSH_EX"
  BY DEF InFlushEx
<1> DEFINE out == FlushEx(ex_valid)
<1>2. out \in Outputs /\ Edge(in, out)
  BY <1>1, FlushTypes
<1>3. /\ out.decoding = FALSE /\ out.dec = {} /\ out.restore = FALSE /\ out.debug_save = FALSE
      /\ out.event = IF ex_valid /\ Trapping THEN "exception" ELSE "none"
      /\ out.save = IF ex_valid /\ Trapping /\ ((illegal_insn_q \/ kind = "ecall") => ~debug_mode_q)
                    THEN "id" ELSE "none"
  BY DEF FlushEx, Halted, Idle, Trapping
<1> HIDE DEF out
<1>4. NoneRuns /\ SavesSpec(in, out) /\ EnableSpec(out) /\ (out.event = "none" => hart' = hart)
  BY <1>2, <1>3, NoneDecoded
<1>5. Enables
  BY <1>3, <1>4 DEF EnableSpec, Enables
<1>6. CASE Trapping /\ ex_valid
  <2>1. Exception
    BY <1>3, <1>4, <1>6 DEF SavesSpec
  <2>2. hart.debug = debug_mode_q
    <3>1. ~Leaving /\ debug_mode_q \in BOOLEAN
      BY <1>6 DEF Trapping, Leaving, FlowType, ControllerType
    <3> QED BY <3>1 DEF HartInv, SavedInv
  <2>3. ~hart.debug => ~mie_q'
    BY <1>3, <1>4, <1>6, <2>2 DEF EnableSpec
  <2>4. kind = Program[hart.pc].kind
    BY <1>1, <1>6 DEF HartInv, PcInv, InstrInv, kind
  <2>5. illegal_insn_q => illegal_insn
    BY DEF FlagInv
  <2>6. Refused
    BY <1>6, <2>2, <2>4, <2>5 DEF Trapping, illegal_insn, Refused
  <2> QED BY <1>4, <1>5, <2>1, <2>3, <2>6 DEF Moves
<1>7. CASE ~(Trapping /\ ex_valid)
  BY <1>3, <1>4, <1>5, <1>7 DEF Moves
<1> QED BY <1>6, <1>7

\* DBG_TAKEN_ID and DBG_TAKEN_IF enter debug mode.
LEMMA HaltMoves ==
    ASSUME FlowInv, InDbgId(Inputs) \/ InDbgIf(Inputs)
    PROVE  Moves /\ Enables
<1> USE DEF FlowInv
<1>1. PICK in \in Inputs, out \in {DbgTakenId, DbgTakenIf} : Edge(in, out)
  BY DEF InDbgId, InDbgIf
<1>2. out \in Outputs /\ out.decoding = FALSE /\ out.dec = {} /\ out.event = "halt" /\ out.restore = FALSE
  <2>1. IntoDebug.decoding = FALSE /\ IntoDebug.dec = {} /\ IntoDebug.event = "halt" /\ IntoDebug.restore = FALSE
    BY DEF IntoDebug, JumpTo, Idle
  <2>2. ASSUME out = DbgTakenId PROVE out.decoding = FALSE /\ out.dec = {} /\ out.event = "halt" /\ out.restore = FALSE
    BY <2>1, <2>2 DEF DbgTakenId
  <2>3. ASSUME out = DbgTakenIf PROVE out.decoding = FALSE /\ out.dec = {} /\ out.event = "halt" /\ out.restore = FALSE
    BY <2>1, <2>3 DEF DbgTakenIf
  <2>4. DbgTakenId \in Outputs /\ DbgTakenIf \in Outputs
    BY DebugTypes
  <2> QED BY <1>1, <2>2, <2>3, <2>4
<1>3. NoneRuns /\ SavesSpec(in, out) /\ EnableSpec(out)
  BY <1>1, <1>2, NoneDecoded
<1> QED BY <1>2, <1>3 DEF EnableSpec, Enables, SavesSpec, Moves

\* No loop ends with a jump or with what the pipeline is flushed after, a CSR instruction apart.
LEMMA NoneEndsThere ==
    ASSUME FlowInv, LoopsAreLegal, Program[hart.pc].kind \in {"jal", "jalr", "branch", "fencei", "mret", "dret", "wfi"}
    PROVE  {k \in Loops : Ends(k)} = {}
<1> USE DEF FlowInv
<1>1. LegalSpec
  BY Legal DEF LegalFact
<1>2. ASSUME NEW k \in Loops PROVE ~Ends(k)
  BY <1>1 DEF LegalSpec, BodySpec, Ends
<1> QED BY <1>2

\* The loops of which an instruction that is executed is the last are counted down.
LEMMA EndingCounts ==
    ASSUME FlowInv, LoopsAreLegal, ValidSpec, NEW exec, NEW jr_stall, ExecSpec(exec, TRUE, jr_stall),
           ~illegal_insn, kind \notin {"ecall", "ebreak"}
    PROVE  exec.dec = {k \in Loops : Ends(k)}
<1>1. pc_id = hart.pc /\ kind = Program[hart.pc].kind
  BY DEF ValidSpec
<1>2. CASE kind \in {"jal", "jalr"} /\ JumpOut(exec, jr_stall)
  BY <1>1, <1>2, NoneEndsThere DEF JumpOut
<1>3. CASE kind \in {"csr", "mie", "skip", "dcsr", "wfi", "fencei", "mret", "dret"}
           /\ exec.dec = IF IsStatusCsr THEN {k \in Loops : IsLast(k, pc_id)} ELSE {}
  <2>1. CASE IsStatusCsr
    <3>1. \A k \in Loops : IsLast(k, hart.pc) => Active(k)
      BY <1>1, <2>1 DEF LoopsAreLegal, IsStatusCsr
    <3> QED BY <1>1, <1>3, <2>1, <3>1 DEF Ends
  <2>2. CASE ~IsStatusCsr
    BY <1>1, <1>3, <2>2, NoneEndsThere DEF IsStatusCsr
  <2> QED BY <2>1, <2>2
<1>4. CASE PlainDecodeOut(exec)
  BY <1>4 DEF PlainDecodeOut
<1>5. CASE PlainLoopOut(exec)
  BY <1>5 DEF PlainLoopOut
<1> QED BY <1>2, <1>3, <1>4, <1>5 DEF ExecSpec

\* An instruction that is decoded is executed or waits.
LEMMA ChosenMoves ==
    ASSUME FlowInv, HartInv, LoopsAreLegal, NEW in \in Inputs, NEW out, NEW exec, NEW jr_stall,
           Chosen(in, out, exec), ExecSpec(exec, in.id_ready, jr_stall)
    PROVE  Moves
<1> USE DEF FlowInv
<1>1. WrapSpec(in, out, exec) /\ out \in Outputs /\ Edge(in, out) /\ ValidSpec
  BY Wrap DEF Chosen
<1>2. /\ out.event = "none" /\ out.decoding = TRUE /\ (~illegal_insn => out.halt_id = FALSE)
      /\ illegal_insn \/ kind \in {"ecall", "ebreak"} => out.dec = {}
  BY <1>1 DEF WrapSpec, ExecSpec, CommonSpec, TrapOut
<1>3. EdgeSpec(in, out) /\ SavesSpec(in, out)
  BY <1>1, EdgeFlags, EdgeSaves
<1>4. instr_id.lo = hart.pc /\ kind = Program[hart.pc].kind /\ hart.debug = debug_mode_q /\ instr_valid_id /\ ~branch_taken_ex
  BY <1>1 DEF ValidSpec
<1>5. PICK into_ex : EdgeParts(in, out, into_ex)
  BY <1>1, EdgeHasParts
<1>6. /\ HwloopEdge(HwloopWrite(in, out), out.dec, instr_valid_id /\ (in.id_ready \/ out.halt_id \/ branch_taken_ex))
      /\ ex' = into_ex /\ (Issues(in, out) => into_ex \in IntoEx)
  BY <1>5 DEF EdgeParts
<1>7. CASE Retires(in, out)
  <2>1. Retire(hwlp_start_q, hwlp_end_q, ex'.taken)
    BY <1>2, <1>3, <1>7 DEF SavesSpec, Retires
  <2>2. ~Refused /\ in.id_ready
    BY <1>4, <1>7 DEF Refused, Retires, Issues, illegal_insn
  <2>3. LoopsWritten
    BY <1>2, <1>4, <1>6, <2>2 DEF LoopsWritten, HwloopEdge, HwloopWrite
  <2>4. IntoEffect
    <3>1. into_ex \in IntoEx /\ ~illegal_insn
      BY <1>6, <1>7 DEF Retires
    <3>2. CASE kind = "branch"
      BY <1>4, <1>6, <3>1, <3>2 DEF IntoEffect, IntoEx, NoOp
    <3>3. CASE kind \in {"mie", "skip", "dcsr"}
      BY <1>4, <1>6, <3>1, <3>3 DEF IntoEffect, IntoEx, NoOp
    <3>4. CASE kind \in {"plain", "csr"} /\ "effect" \in DOMAIN Program[instr_id.lo]
      <4>1. into_ex = [NoOp EXCEPT !.kind = kind, !.value = Program[instr_id.lo].effect]
        BY <3>1, <3>4 DEF IntoEx
      <4> QED BY <1>4, <1>6, <3>4, <4>1 DEF IntoEffect, NoOp
    <3>5. CASE /\ kind \notin {"branch", "mie", "skip", "dcsr"}
               /\ ~(kind \in {"plain", "csr"} /\ "effect" \in DOMAIN Program[instr_id.lo])
      <4>1. into_ex = NoOp
        BY <3>1, <3>5 DEF IntoEx
      <4> QED BY <1>4, <1>6, <3>5, <4>1 DEF IntoEffect, NoOp
    <3> QED BY <3>2, <3>3, <3>4, <3>5
  <2>5. LoopsAreCounted'
    <3>1. out.dec = {k \in Loops : Ends(k)}
      BY <1>1, <1>7, <2>2, EndingCounts DEF WrapSpec, Retires
    <3>2. LoopsAreCounted /\ FlowType
      BY <1>1 DEF ValidSpec
    <3>3. RetireSpec
      BY <1>1, <1>2, <1>4, <1>7, <3>1, <3>2, Retired
    <3> QED BY <3>3 DEF RetireSpec
  <2> QED BY <2>1, <2>2, <2>3, <2>4, <2>5 DEF Moves
<1>8. CASE ~Retires(in, out)
  <2>1. hart' = hart
    BY <1>2, <1>3, <1>8 DEF SavesSpec, Retires
  <2>2. ex' = NoOp
    <3>1. CASE Issues(in, out)
      <4>1. into_ex \in IntoEx /\ (illegal_insn \/ kind \in {"ecall", "ebreak"})
        BY <1>6, <1>8, <3>1 DEF Retires
      <4>2. CASE illegal_insn
        <5>1. kind \notin {"plain", "csr"}
          BY <4>2 DEF illegal_insn
        <5>2. into_ex = NoOp
          BY <4>1, <4>2, <5>1 DEF IntoEx
        <5> QED BY <1>6, <5>2
      <4>3. CASE ~illegal_insn /\ kind \in {"ecall", "ebreak"}
        <5>1. ~(kind \in {"plain", "csr"} /\ "effect" \in DOMAIN Program[instr_id.lo])
              /\ kind \notin {"branch", "mie", "skip", "dcsr"}
          BY <4>3
        <5>2. into_ex = NoOp
          BY <4>1, <4>3, <5>1 DEF IntoEx
        <5> QED BY <1>6, <5>2
      <4> QED BY <4>1, <4>2, <4>3
    <3>2. CASE ~Issues(in, out)
      BY <1>3, <3>2 DEF EdgeSpec
    <3> QED BY <3>1, <3>2
  <2>3. LoopsStay
    <3>1. kind = "hwloop" => ~illegal_insn
      BY DEF illegal_insn
    <3>2. ~illegal_insn /\ kind \notin {"ecall", "ebreak"} => ~in.id_ready /\ ~out.halt_id
      BY <1>2, <1>4, <1>8 DEF Retires, Issues
    <3> QED BY <1>1, <1>2, <1>4, <3>1, <3>2, EdgeKeepsLoops
  <2> QED BY <2>1, <2>2, <2>3 DEF Moves, NoneRuns
<1> QED BY <1>7, <1>8

\* DECODE and DECODE_HWLOOP.
LEMMA DecodeMoves ==
    ASSUME FlowInv, HartInv, LoopsAreLegal, InDecode(Inputs)
    PROVE  Moves /\ Enables
<1> USE DEF FlowInv
<1>1. PICK in \in Inputs, out \in Outputs : DecodeSplit(in, out)
  BY DecodeSplits
<1>2. Edge(in, out) /\ out.restore = FALSE
  BY <1>1 DEF DecodeSplit
<1>3. EnableSpec(out) /\ Enables
  <2>1. EnableSpec(out)
    BY <1>2, EdgeEnables
  <2> QED BY <1>2, <2>1 DEF EnableSpec, Enables
<1>4. ASSUME out.decoding = FALSE, out.dec = {}, out.event = "none" PROVE Moves
  BY <1>2, <1>4, NoneDecoded DEF Moves
<1>5. CASE out = JumpTo(Idle, ex.to)
  BY <1>3, <1>4, <1>5 DEF JumpTo, Idle
<1>6. CASE out = Idle
  BY <1>3, <1>4, <1>6 DEF Idle
<1>7. CASE out = [Halted EXCEPT !.ns = "DBG_FLUSH", !.entry = TRUE, !.illegal = Decoding.illegal]
  BY <1>3, <1>4, <1>7 DEF Halted, Idle
<1>8. CASE ValidSpec /\ irq_req_ctrl /\ ~debug_mode_q /\ out = [TakenIrq("id") EXCEPT !.illegal = Decoding.illegal]
  <2>1. /\ out.decoding = FALSE /\ out.dec = {} /\ out.event = "interrupt" /\ out.save = "id" /\ out.debug_save = FALSE
    BY <1>8 DEF TakenIrq, JumpTo, Halted, Idle
  <2>2. NoneRuns /\ Interrupt
    BY <1>2, <2>1, NoneDecoded DEF SavesSpec
  <2>3. mie_q /\ ~mie_q' /\ ~hart.debug
    BY <1>3, <1>8, <2>1 DEF irq_req_ctrl, m_irq_enable, EnableSpec, ValidSpec
  <2> QED BY <1>3, <2>2, <2>3 DEF Moves
<1>9. ASSUME NEW exec, NEW jr_stall, Chosen(in, out, exec), ExecSpec(exec, in.id_ready, jr_stall) PROVE Moves
  BY <1>9, ChosenMoves
<1> QED BY <1>1, <1>3, <1>5, <1>6, <1>7, <1>8, <1>9 DEF DecodeSplit

\* Every cycle.
LEMMA NextMoves ==
    ASSUME FlowInv, HartInv, LoopsAreLegal, Next
    PROVE  Moves /\ Enables
BY RestMoves, FirstMoves, FlushExMoves, HaltMoves, DecodeMoves DEF Next

\* Every cycle keeps the counters of the core those of the hart.
LEMMA MovesCount ==
    ASSUME FlowInv, HartInv, Moves
    PROVE  LoopsAreCounted'
<1>1. LoopsAreCounted
  BY DEF HartInv, SavedInv
<1>2. ASSUME NoneRuns, hart' = hart \/ Interrupt \/ Exception \/ Halt PROVE LoopsAreCounted'
  <2>1. hart'.lpcount = hart.lpcount
    BY <1>2 DEF Interrupt, Exception, Halt, FlowInv, FlowType, HartType
  <2> QED BY <1>1, <1>2, <2>1 DEF NoneRuns, LoopsStay, LoopsAreCounted
<1> QED BY <1>2 DEF Moves

--------------------------------------------------------------------------------
\* The bodies of the loops in main.

\* The loops the tests set up: the ith instruction of main sets up loop j over the n behind it.
IsBody(i, j, n) ==
    \/ j = 0 /\ n = 3 /\ i \in {15, 30, 46, 58, 73, 81, 167, 190}
    \/ j = 0 /\ n = 4 /\ i \in {97, 158, 181}
    \/ j = 0 /\ n = 5 /\ i = 108
    \/ j = 0 /\ n = 7 /\ i = 127
    \/ j = 0 /\ n = 8 /\ i = 139
    \/ j = 1 /\ n = 4 /\ i = 2
    \/ j = 1 /\ n = 6 /\ i \in {45, 57, 72, 80, 166, 189}
    \/ j = 1 /\ n = 7 /\ i \in {157, 180}
    \/ j = 1 /\ n = 10 /\ i \in {96, 126}
    \/ j = 1 /\ n = 11 /\ i \in {10, 25, 107, 138}

\* What those bodies are made of.
LEMMA BodyIs ==
    ASSUME NEW i, NEW j, NEW n, IsBody(i, j, n)
    PROVE  /\ j \in {0, 1} /\ i \in 1 .. 196 /\ n \in 3 .. 11 /\ i + n \in 1 .. 196
           /\ i + n < 40 \/ 55 < i \/ (40 < i /\ i + n < 55)
           /\ i + n \in {131, 133, 142, 144, 147} => i + n = 147 /\ j = 0 /\ i = 139
<1>1. CASE j = 0
  BY <1>1 DEF IsBody
<1>2. CASE j = 1
  BY <1>2 DEF IsBody
<1> QED BY <1>1, <1>2 DEF IsBody

\* Two bodies of a loop do not meet; one of loop 0 lies outside one of loop 1 or ends before it.
LEMMA BodiesApart ==
    ASSUME NEW i, NEW j, NEW n, IsBody(i, j, n), NEW m, NEW l, NEW p, IsBody(m, l, p)
    PROVE  /\ j = l => (m = i /\ p = n) \/ m + p < i \/ i + n < m
           /\ j = 0 /\ l = 1 => i + n < m \/ m + p < i \/ (m < i /\ i + n + 2 <= m + p)
           /\ i + n # m + p + 1
<1>1. CASE j = 0 /\ l = 0
  BY <1>1 DEF IsBody
<1>2. CASE j = 1 /\ l = 1
  BY <1>2 DEF IsBody
<1>3. CASE j = 0 /\ l = 1
  BY <1>3 DEF IsBody
<1>4. CASE j = 1 /\ l = 0
  BY <1>4 DEF IsBody
<1> QED BY <1>1, <1>2, <1>3, <1>4, BodyIs

\* What lp.setupi, fence.i and the CSR instructions of the tests are, and where.
SiteSpec(k) ==
    /\ Main[k].kind = "hwloop" => IsBody(k, Main[k].loop, Main[k].size)
    /\ Main[k].kind = "fencei" => k \in {40, 55}
    /\ Main[k].kind = "csr" => k \in {131, 133, 142, 144, 147}

\* The kinds of the instructions the tests are written with.
LEMMA KindsOfTests ==
    /\ \A rd, a, b : /\ addi(rd, a, b).kind = "plain" /\ add(rd, a, b).kind = "plain"
                     /\ mul(rd, a, b).kind = "plain" /\ div(rd, a, b).kind = "plain"
                     /\ lw(rd, a).kind = "plain" /\ sw(rd, a).kind = "plain" /\ mv(rd, a).kind = "plain"
                     /\ csrrw(rd, a, b).kind = "csr"
    /\ \A j, count, size : /\ lp_setupi(j, count, size).kind = "hwloop" /\ lp_setupi(j, count, size).loop = j
                           /\ lp_setupi(j, count, size).size = size \div 4
    /\ ecall.kind = "ecall" /\ ebreak.kind = "ebreak" /\ fence_i.kind = "fencei" /\ dret.kind = "illegal"
BY DEF addi, add, mul, div, lw, sw, mv, csrrw, lp_setupi, Compute, ecall, ebreak, fence_i, dret

\* It is so all over main.
LEMMA Sites ==
    ASSUME NEW k \in 1 .. 196
    PROVE  SiteSpec(k)
<1>1. k \in (39 .. 43) \cup {1, 9, 24, 54, 55, 67, 88, 120, 151, 174} => SiteSpec(k)
  BY Parts, KindsOfTests DEF SiteSpec
<1>2. k \in {8, 23, 38, 53, 66, 87, 119, 150, 173, 196} => SiteSpec(k)
  BY Parts DEF SiteSpec, HandsOut
<1>3. k \in 2 .. 7 => SiteSpec(k)
  <2>1. Placed(HWLP_TEST0, 1)
    BY Parts
  <2>2. \A i \in 1 .. 6 : SiteSpec(1 + i)
    BY <2>1, Test0Code, KindsOfTests DEF SiteSpec, IsBody
  <2> QED BY <2>2
<1>4. k \in 10 .. 22 => SiteSpec(k)
  <2>1. Placed(HWLP_TEST1, 9)
    BY Parts
  <2>2. \A i \in 1 .. 13 : SiteSpec(9 + i)
    BY <2>1, Test1Code, KindsOfTests DEF SiteSpec, IsBody
  <2> QED BY <2>2
<1>5. k \in 25 .. 37 => SiteSpec(k)
  <2>1. Placed(HWLP_TEST1, 24)
    BY Parts
  <2>2. \A i \in 1 .. 13 : SiteSpec(24 + i)
    BY <2>1, Test1Code, KindsOfTests DEF SiteSpec, IsBody
  <2> QED BY <2>2
<1>6. k \in 44 .. 52 => SiteSpec(k)
  <2>1. Placed(HWLP_TEST4, 43)
    BY Parts
  <2>2. \A i \in 1 .. 9 : SiteSpec(43 + i)
    BY <2>1, Test4Code, KindsOfTests DEF SiteSpec, IsBody
  <2> QED BY <2>2
<1>7. k \in 56 .. 65 => SiteSpec(k)
  <2>1. Placed(HWLP_TEST6, 55)
    BY Parts
  <2>2. \A i \in 1 .. 10 : SiteSpec(55 + i)
    BY <2>1, Test6Code, KindsOfTests DEF SiteSpec, IsBody
  <2> QED BY <2>2
<1>8. k \in 68 .. 79 => SiteSpec(k)
  <2>1. Placed(First0, 67)
    BY Parts
  <2>2. \A i \in 1 .. 12 : SiteSpec(67 + i)
    BY <2>1, Interrupt0Code, KindsOfTests DEF SiteSpec, IsBody
  <2> QED BY <2>2
<1>9. k \in 80 .. 86 => SiteSpec(k)
  <2>1. Placed(InMemory, 79)
    BY Parts
  <2>2. \A i \in 1 .. 7 : SiteSpec(79 + i)
    BY <2>1, MemoryCode, KindsOfTests DEF SiteSpec, IsBody
  <2> QED BY <2>2
<1>10. k \in 89 .. 118 => SiteSpec(k)
  <2>1. Placed(HWLP_TEST_INTERRUPT4, 88)
    BY Parts
  <2>2. \A i \in 1 .. 30 : SiteSpec(88 + i)
    BY <2>1, Interrupt4Code, KindsOfTests DEF SiteSpec, IsBody
  <2> QED BY <2>2
<1>11. k \in 121 .. 149 => SiteSpec(k)
  <2>1. Placed(HWLP_TEST_INTERRUPT1, 120)
    BY Parts
  <2>2. \A i \in 1 .. 29 : SiteSpec(120 + i)
    BY <2>1, Interrupt1Code, KindsOfTests DEF SiteSpec, IsBody
  <2> QED BY <2>2
<1>12. k \in 152 .. 165 => SiteSpec(k)
  <2>1. Placed(First3, 151)
    BY Parts
  <2>2. \A i \in 1 .. 14 : SiteSpec(151 + i)
    BY <2>1, Interrupt3Code, KindsOfTests DEF SiteSpec, IsBody
  <2> QED BY <2>2
<1>13. k \in 166 .. 172 => SiteSpec(k)
  <2>1. Placed(InMemory, 165)
    BY Parts
  <2>2. \A i \in 1 .. 7 : SiteSpec(165 + i)
    BY <2>1, MemoryCode, KindsOfTests DEF SiteSpec, IsBody
  <2> QED BY <2>2
<1>14. k \in 175 .. 188 => SiteSpec(k)
  <2>1. Placed(First2, 174)
    BY Parts
  <2>2. \A i \in 1 .. 14 : SiteSpec(174 + i)
    BY <2>1, Interrupt2Code, KindsOfTests DEF SiteSpec, IsBody
  <2> QED BY <2>2
<1>15. k \in 189 .. 195 => SiteSpec(k)
  <2>1. Placed(InMemory, 188)
    BY Parts
  <2>2. \A i \in 1 .. 7 : SiteSpec(188 + i)
    BY <2>1, MemoryCode, KindsOfTests DEF SiteSpec, IsBody
  <2> QED BY <2>2
<1> QED BY <1>1, <1>2, <1>3, <1>4, <1>5, <1>6, <1>7, <1>8, <1>9, <1>10, <1>11, <1>12, <1>13, <1>14, <1>15

--------------------------------------------------------------------------------
\* The layout of the software.

\* The places of the program itself: before, beside, in and behind the tests.
InProgram == {"before", "beside", "tests", "behind"}

\* The layout, as the proofs use it.
LEMMA Handlers ==
    /\ MTVEC \in Addresses /\ IRQ_VECTOR \in Addresses /\ Following(MTVEC) \in Addresses
    /\ MTVEC # IRQ_VECTOR /\ Following(MTVEC) # MTVEC /\ Following(MTVEC) # IRQ_VECTOR
    /\ \A addr \in Addresses : Place[addr] = "handler" <=> addr \in {MTVEC, IRQ_VECTOR, Following(MTVEC)}
    /\ \A addr \in Addresses : Place[addr] # "handler" => Outer(addr) = addr
    /\ Program[MTVEC] = [kind |-> "skip"]
    /\ Program[IRQ_VECTOR] = [kind |-> "mret"] /\ Program[Following(MTVEC)] = [kind |-> "mret"]
<1>1. MTVEC \in Addresses /\ IRQ_VECTOR \in Addresses
  BY Vectors
<1>2. Following(MTVEC) \in Addresses
  BY <1>1, PlusIs DEF Following
<1>3. {addr \in Addresses : Place[addr] = "handler"} = {IRQ_VECTOR, MTVEC, Following(MTVEC)}
  BY LayoutAssumption
<1>4. \A addr \in Addresses : Place[addr] = "handler" <=> addr \in {MTVEC, IRQ_VECTOR, Following(MTVEC)}
  BY <1>3
<1>5. \A addr \in Addresses : Place[addr] # "handler" => Outer(addr) = addr
  BY <1>4 DEF Outer
<1>6. MTVEC # IRQ_VECTOR /\ Following(MTVEC) # MTVEC /\ Following(MTVEC) # IRQ_VECTOR
  BY LayoutAssumption
<1> QED BY <1>1, <1>2, <1>4, <1>5, <1>6, LayoutAssumption

\* What the layout says of the instructions at each place.
BeforeSpec(addr) ==
    /\ IsApart(addr) /\ Program[addr].kind \notin {"hwloop", "mret", "skip"}
    /\ \A to \in LeadsTo(addr) : to = TESTS \/ Place[to] \in {"before", "beside"}
BesideSpec(addr) ==
    /\ IsApart(addr) /\ Program[addr].kind \notin {"mret", "skip"}
    /\ \A to \in LeadsTo(addr) : Place[to] = "beside"
    /\ Program[addr].kind = "hwloop" =>
         /\ "start" \in Program[addr].fields => Place[2 * (Program[addr].start \div 2)] = "beside"
         /\ "end" \in Program[addr].fields /\ Program[addr].end > 1 =>
              Place[2 * (Program[addr].end \div 2) - 2] = "beside"
BehindSpec(addr) ==
    /\ IsApart(addr) /\ Program[addr].kind \notin {"hwloop", "mret", "skip"}
    /\ \A to \in LeadsTo(addr) : Place[to] = "behind"
DebuggerSpec(addr) ==
    /\ IsApart(addr) /\ Program[addr].kind \notin {"hwloop", "skip", "mie"}
    /\ Program[addr].kind # "dret" => \A to \in LeadsTo(addr) : Place[to] = "debugger"

\* The layout says it of every address.
LEMMA Places ==
    ASSUME NEW addr \in Addresses
    PROVE  /\ Place[addr] = "before" => BeforeSpec(addr)
           /\ Place[addr] = "beside" => BesideSpec(addr)
           /\ Place[addr] = "behind" => BehindSpec(addr)
           /\ Place[addr] = "debugger" => DebuggerSpec(addr)
<1>1. Place[addr] = "before" => BeforeSpec(addr)
  BY LayoutAssumption DEF BeforeSpec
<1>2. Place[addr] = "beside" => BesideSpec(addr)
  BY LayoutAssumption DEF BesideSpec
<1>3. Place[addr] = "behind" => BehindSpec(addr)
  BY LayoutAssumption DEF BehindSpec
<1>4. Place[addr] = "debugger" => DebuggerSpec(addr)
  BY LayoutAssumption DEF DebuggerSpec
<1> QED BY <1>1, <1>2, <1>3, <1>4

\* The kth instruction of the tests in memory.
TestSpecAt(k) ==
    /\ At(k) \in Addresses /\ At(k) % 2 = 0 /\ At(k + 1) = At(k) + 2 /\ Following(At(k)) = At(k + 1)
    /\ Place[At(k)] = "tests" /\ Program[At(k)] = Assembled(At(k), Main[k])
    /\ OfTheTests(Main[k])

\* Main is where the layout puts it.
LEMMA TestPlaces ==
    /\ \A k \in 1 .. 196 : TestSpecAt(k)
    /\ \A addr \in Addresses : Place[addr] = "tests" <=> \E k \in 1 .. 196 : addr = At(k)
    /\ At(197) \in Addresses /\ Place[At(197)] = "behind"
    /\ TESTS = At(1) /\ TESTS \in Nat
<1>1. Len(Main) = 196
  BY Parts DEF Length
<1>2. /\ TESTS \in Nat /\ TESTS % 2 = 0 /\ At(198) < HALFWORDS
      /\ Place[At(197)] = "behind"
  BY <1>1, LayoutAssumption
<1>3. \A addr \in Addresses : Place[addr] = "tests" <=> \E k \in 1 .. 196 : addr = At(k)
  BY <1>1, LayoutAssumption
<1>4. \A k \in 1 .. 196 : At(k) \in Wide /\ Program[At(k)] = Assembled(At(k), Main[k])
  BY <1>1, LayoutAssumption
<1>5. At(197) \in Addresses /\ TESTS = At(1)
  BY <1>2, Size DEF At, Addresses
<1>6. ASSUME NEW k \in 1 .. 196 PROVE TestSpecAt(k)
  <2>1. At(k) \in Addresses /\ At(k) % 2 = 0 /\ At(k + 1) = At(k) + 2 /\ At(k) + 2 < HALFWORDS /\ At(k) \in Nat
    BY <1>2, Size DEF At, Addresses
  <2>2. Following(At(k)) = At(k + 1)
    BY <1>4, <2>1, Size DEF Following, Plus
  <2> QED BY <1>3, <1>4, <2>1, <2>2, TestInstructions DEF TestSpecAt
<1> QED BY <1>2, <1>3, <1>5, <1>6

--------------------------------------------------------------------------------
\* The invariant of the tests, and the cycles that leave them alone.

\* No loop ends with an instruction of a handler, the debugger, or what runs before or behind the tests.
LoopsApart ==
    \A j \in Loops :
      /\ Place[hwlp_start_q[j]] \in {"beside", "tests"}
      /\ hwlp_end_q[j] = 0 \/ Place[hwlp_end_q[j] - 2] \in {"beside", "tests"}

\* Loop j is still as it was reset, or lies over one of the bodies of the tests.
OverBody(j) ==
    \/ hwlp_start_q[j] = 0 /\ hwlp_end_q[j] = 0 /\ Off(j)
    \/ \E i, n : IsBody(i, j, n) /\ hwlp_start_q[j] = At(i + 1) /\ hwlp_end_q[j] = At(i + 1 + n)

\* Where the hart is.
HandlerInv ==
    /\ hart.debug => Place[hart.pc] = "debugger"
    /\ Place[Pc] \in InProgram \cup {"handler"}
    /\ Place[Pc] = "handler" => ~mie_q /\ ex.kind # "mie"

\* What runs before the tests may lead beside them.
MayGoBeside ==
    \E addr \in Addresses : Place[addr] = "before" /\ \E to \in LeadsTo(addr) : Place[to] = "beside"

\* Where the program goes on, and what holds there.
ResumeInv ==
    /\ Place[Resume] \in InProgram
    /\ Place[Resume] = "before" =>
         /\ names = NamesInit
         /\ \A j \in Loops : hwlp_start_q[j] = 0 /\ hwlp_end_q[j] = 0 /\ Off(j)
    /\ Place[Resume] = "beside" => MayGoBeside
    /\ Place[Resume] = "beside" => \A j \in Loops : Place[hwlp_start_q[j]] = "beside"
                                        /\ (hwlp_end_q[j] = 0 \/ Place[hwlp_end_q[j] - 2] = "beside")
    /\ Place[Resume] = "tests" => \E k : Resume = At(k) /\ TestsClaim(k)
    /\ Place[Resume] = "behind" => Off(0) /\ Off(1)
    /\ Place[Resume] # "beside" => \A j \in Loops : OverBody(j)

\* The inductive invariant of the tests and what surrounds them.
ProgramInv == Shape /\ LoopsApart /\ HandlerInv /\ ResumeInv

\* Neither a register of the program nor a loop changes.
Undisturbed ==
    /\ names' = names /\ hart'.lpcount = hart.lpcount
    /\ hwlp_start_q' = hwlp_start_q /\ hwlp_end_q' = hwlp_end_q

\* Then the loops lie where they lay.
LEMMA BodiesStay ==
    ASSUME Undisturbed, NEW j \in Loops, OverBody(j)
    PROVE  OverBody(j)'
BY DEF Undisturbed, OverBody, Off

\* Then what is known of the place in the tests stays known.
LEMMA ClaimStays ==
    ASSUME Undisturbed, NEW k, TestsClaim(k)
    PROVE  TestsClaim(k)'
<1> USE DEF Undisturbed, Frame, Off, Loop, Past, t0, t1, t2, sp_28, sp_80, sp_84, mcycle, Done
<1>1. Between(k) => Between(k)'
  BY DEF Between
<1>2. \A b, n : Test0(b, n) => Test0(b, n)'
  BY DEF Test0
<1>3. \A b, a, n : Test1(b, a, n) => Test1(b, a, n)'
  BY DEF Test1
<1>4. \A b, n : (Test4(b, n) => Test4(b, n)') /\ (Test6(b, n) => Test6(b, n)')
  BY DEF Test4, Test6
<1>5. \A b, a, n : Memory(b, a, n) => Memory(b, a, n)'
  BY DEF Memory
<1>6. \A b, n : Interrupt0(b, n) => Interrupt0(b, n)'
  BY DEF Interrupt0
<1>7. \A b, n : Interrupt4(b, n) => Interrupt4(b, n)'
  BY DEF Interrupt4
<1>8. \A b, n : Interrupt1(b, n) => Interrupt1(b, n)'
  BY DEF Interrupt1
<1>9. \A b, n : Interrupt2(b, n) => Interrupt2(b, n)'
  BY DEF Interrupt2
<1>10. \A b, n : Interrupt3(b, n) => Interrupt3(b, n)'
  BY DEF Interrupt3
<1> QED BY <1>1, <1>2, <1>3, <1>4, <1>5, <1>6, <1>7, <1>8, <1>9, <1>10 DEF TestsClaim

\* The program rests where it is.
LEMMA Rests ==
    ASSUME Shape, LoopsApart, ResumeInv, Undisturbed, Resume' = Resume
    PROVE  Shape' /\ LoopsApart' /\ ResumeInv'
<1>1. Shape' /\ LoopsApart'
  BY DEF Undisturbed, Shape, LoopsApart
<1>2. Place[Resume]' = "tests" => \E k : Resume' = At(k) /\ TestsClaim(k)'
  BY ClaimStays DEF ResumeInv
<1>3. (\E k : Resume' = At(k) /\ TestsClaim(k)') => (\E k : Resume = At(k) /\ TestsClaim(k))'
  OBVIOUS
<1>4. Place[Resume]' # "beside" => \A j \in Loops : OverBody(j)'
  BY BodiesStay DEF ResumeInv
<1> QED BY <1>1, <1>2, <1>3, <1>4 DEF ResumeInv, Undisturbed, Off

\* Addresses of the hart.
LEMMA HartFields ==
    ASSUME FlowType
    PROVE  /\ hart.pc \in Addresses /\ hart.mepc \in Addresses /\ hart.depc \in Addresses /\ hart.debug \in BOOLEAN
           /\ hart.lpcount \in [Loops -> Counts] /\ Pc \in Addresses /\ Resume \in Addresses
           /\ \A j \in Loops : hwlp_start_q[j] \in Addresses /\ hwlp_end_q[j] \in Addresses /\ hwlp_end_q[j] % 2 = 0
<1>1. /\ hart.pc \in Addresses /\ hart.mepc \in Addresses /\ hart.depc \in Addresses /\ hart.debug \in BOOLEAN
      /\ hart.lpcount \in [Loops -> Counts]
  BY DEF FlowType, HartType
<1>2. Following(hart.mepc) \in Addresses
  BY <1>1, PlusIs DEF Following
<1>3. Pc \in Addresses
  BY <1>1 DEF Pc
<1>4. Resume \in Addresses
  BY <1>1, <1>2, <1>3 DEF Resume, Outer
<1>5. \A j \in Loops : hwlp_start_q[j] \in Addresses /\ hwlp_end_q[j] \in Addresses /\ hwlp_end_q[j] % 2 = 0
  BY DEF FlowType, LoopType, EvenAddresses
<1> QED BY <1>1, <1>3, <1>4, <1>5

\* In the program the hart is at the place where it goes on.
LEMMA InProgramAt ==
    ASSUME FlowType, ResumeInv
    PROVE  /\ Place[Pc] \in InProgram => Resume = Pc
           /\ Place[Pc] = "handler" => Place[Resume] \in InProgram /\ hart.mepc # Pc
<1>1. Pc \in Addresses /\ hart.mepc \in Addresses
  BY HartFields
<1>2. Place[Pc] # "handler" => Resume = Pc
  BY <1>1, Handlers DEF Resume
<1>3. ASSUME Place[Pc] = "handler", hart.mepc = Pc PROVE FALSE
  <2>1. Pc \in {MTVEC, IRQ_VECTOR, Following(MTVEC)}
    BY <1>1, <1>3, Handlers
  <2>2. Resume \in {Pc, Following(MTVEC)}
    BY <1>3, <2>1, Handlers DEF Resume, Outer
  <2>3. Resume \in Addresses /\ Place[Resume] = "handler"
    BY <1>1, <2>1, <2>2, Handlers
  <2> QED BY <2>3 DEF ResumeInv, InProgram
<1> QED BY <1>2, <1>3 DEF ResumeInv, InProgram

\* No trap returns while the hart is in a handler: it has left the handler before.
LEMMA HandlerMasked ==
    ASSUME FlowInv, HartInv, HandlerInv, ResumeInv, Enables, Place[Pc] = "handler"
    PROVE  ~mie_q'
<1> USE DEF FlowInv
<1>1. ~mie_q /\ ex.kind # "mie"
  BY DEF HandlerInv
<1>2. ASSUME Returning PROVE FALSE
  <2>1. ~hart.debug
    BY <1>2 DEF Returning, HartInv, SavedInv
  <2>2. hart.pc = hart.mepc
    BY <1>2 DEF Returning, HartInv, PcInv, Trapping, AtFlush
  <2> QED BY <2>1, <2>2, InProgramAt DEF Pc
<1> QED BY <1>1, <1>2 DEF Enables

\* The registers of the program change with an instruction that has an effect.
LEMMA NothingComputed ==
    ASSUME NoneRuns, Effects
    PROVE  names' = names /\ ex'.kind = "none"
BY DEF NoneRuns, NoOp, Effects

\* A cycle in which no instruction is executed.
LEMMA CycleWithoutStep ==
    ASSUME FlowInv, HartInv, ProgramInv, Enables, Effects, NoneRuns, hart' = hart
    PROVE  ProgramInv'
<1> USE DEF FlowInv, ProgramInv
<1>1. names' = names /\ ex'.kind = "none"
  BY NothingComputed
<1>2. Resume' = Resume /\ Pc' = Pc
  BY DEF Resume, Outer, Pc
<1>3. Undisturbed
  BY <1>1 DEF Undisturbed, NoneRuns, LoopsStay
<1>4. Place[Pc] = "handler" => ~mie_q'
  BY HandlerMasked
<1>5. HandlerInv'
  BY <1>1, <1>2, <1>4 DEF HandlerInv
<1> QED BY <1>2, <1>3, <1>5, Rests

\* An interrupt comes in the program only, and leads back.
LEMMA InterruptStep ==
    ASSUME FlowInv, ProgramInv, Effects, NoneRuns, Interrupt, mie_q, ~mie_q', ~hart.debug
    PROVE  ProgramInv'
<1> USE DEF FlowInv, ProgramInv
<1>1. names' = names /\ ex'.kind = "none"
  BY NothingComputed
<1>2. /\ hart'.pc = IRQ_VECTOR /\ hart'.mepc = hart.pc /\ hart'.lpcount = hart.lpcount /\ hart'.debug = FALSE
  BY DEF Interrupt, FlowType, HartType
<1>3. Pc = hart.pc /\ Resume = hart.pc
  BY InProgramAt DEF HandlerInv, Pc
<1>4. Pc' = IRQ_VECTOR /\ Resume' = hart.pc
  BY <1>2, Handlers DEF Resume, Pc, Outer
<1>5. HandlerInv'
  BY <1>1, <1>2, <1>4, Handlers DEF HandlerInv
<1>6. Undisturbed
  BY <1>1, <1>2 DEF Undisturbed, NoneRuns, LoopsStay
<1> QED BY <1>3, <1>4, <1>5, <1>6, Rests

\* The debugger comes in anywhere, and keeps the place.
LEMMA HaltStep ==
    ASSUME FlowInv, HartInv, ProgramInv, Enables, Effects, NoneRuns, Halt
    PROVE  ProgramInv'
<1> USE DEF FlowInv, ProgramInv
<1>1. names' = names /\ ex'.kind = "none"
  BY NothingComputed
<1>2. /\ hart'.pc = DM_HALT /\ hart'.mepc = hart.mepc /\ hart'.lpcount = hart.lpcount /\ hart'.debug = TRUE
      /\ hart'.depc = Pc
  BY DEF Halt, FlowType, HartType, Pc
<1>3. Pc' = Pc /\ Resume' = Resume
  BY <1>2 DEF Resume, Pc, Outer
<1>4. Place[Pc] = "handler" => ~mie_q'
  BY HandlerMasked
<1>5. HandlerInv'
  BY <1>1, <1>2, <1>3, <1>4, LayoutAssumption DEF HandlerInv
<1>6. Undisturbed
  BY <1>1, <1>2 DEF Undisturbed, NoneRuns, LoopsStay
<1> QED BY <1>3, <1>5, <1>6, Rests

--------------------------------------------------------------------------------
\* Instructions of the debugger and the handlers.

\* What the hart does with an instruction it executes.
CountsDown(j) == hwlp_end_q[j] = hart.pc + 2 /\ hart.lpcount[j] > 0
Reloads(j) ==
    LET instr == Program[hart.pc] IN instr.kind = "hwloop" /\ instr.loop = j /\ "count" \in instr.fields
RetiredSpec(taken) ==
    LET instr == Program[hart.pc]
    IN  /\ hart'.pc = Successor(hwlp_start_q, hwlp_end_q, taken)
        /\ hart'.debug = (hart.debug /\ instr.kind # "dret") /\ hart'.depc = hart.depc
        /\ hart'.mepc = IF instr.kind = "skip" THEN Following(hart.mepc) ELSE hart.mepc
        /\ \A j \in Loops : hart'.lpcount[j] = IF Reloads(j) THEN instr.count
                                               ELSE IF CountsDown(j) THEN hart.lpcount[j] - 1 ELSE hart.lpcount[j]
        /\ hart'.lpcount \in [Loops -> {hart'.lpcount[0], hart'.lpcount[1]}]

\* Retire does just that.
LEMMA RetiredIs ==
    ASSUME FlowType, NEW taken, Retire(hwlp_start_q, hwlp_end_q, taken)
    PROVE  RetiredSpec(taken)
<1>1. \A j \in Loops : j \in Ending(hwlp_end_q, hart.pc) <=> CountsDown(j)
  BY DEF Ending, CountsDown, Loops
<1> DEFINE counts == [k \in {0, 1} |-> IF Reloads(k) THEN Program[hart.pc].count
                        ELSE IF k \in Ending(hwlp_end_q, hart.pc) THEN hart.lpcount[k] - 1 ELSE hart.lpcount[k]]
<1>2. hart' = [hart EXCEPT !.pc = Successor(hwlp_start_q, hwlp_end_q, taken), !.lpcount = counts,
                           !.mepc = IF Program[hart.pc].kind = "skip" THEN Following(@) ELSE @,
                           !.debug = @ /\ Program[hart.pc].kind # "dret"]
  BY DEF Retire, Reloads
<1>3. counts \in [Loops -> {counts[0], counts[1]}] /\ \A j \in Loops : counts[j] = IF Reloads(j) THEN Program[hart.pc].count
                        ELSE IF CountsDown(j) THEN hart.lpcount[j] - 1 ELSE hart.lpcount[j]
  BY <1>1 DEF Loops
<1> HIDE DEF counts
<1> QED BY <1>2, <1>3 DEF RetiredSpec, FlowType, HartType

\* Where it goes where no loop ends.
LEMMA Onwards ==
    ASSUME NEW taken, \A j \in Loops : ~CountsDown(j)
    PROVE  LET to   == Successor(hwlp_start_q, hwlp_end_q, taken)
               what == Program[hart.pc].kind
           IN  /\ what = "mret" => to = IF hart.debug THEN DM_EXCEPTION ELSE hart.mepc
               /\ what = "dret" => to = hart.depc
               /\ what \notin {"mret", "dret"} => to \in LeadsTo(hart.pc)
<1>1. {k \in Ending(hwlp_end_q, hart.pc) : hart.lpcount[k] > 1} = {}
  BY DEF Ending, CountsDown, Loops
<1> QED BY <1>1 DEF Successor, LeadsTo

\* No loop ends apart from the tests and what runs beside them.
LEMMA NoneEnds ==
    ASSUME FlowType, LoopsApart, Place[hart.pc] \notin {"beside", "tests"}
    PROVE  \A j \in Loops : ~CountsDown(j)
<1>1. hart.pc \in Nat
  BY HartFields DEF Addresses
<1> QED BY <1>1 DEF CountsDown, LoopsApart

\* An instruction that has nothing to do with the tests.
LEMMA ApartStep ==
    ASSUME Effects, IntoEffect, IsApart(hart.pc)
    PROVE  names' = names
BY DEF Effects, IntoEffect, IsApart

\* An instruction that sets no loop up, where no loop ends.
LEMMA LoopsUntouched ==
    ASSUME FlowType, NEW taken, RetiredSpec(taken), LoopsWritten, \A j \in Loops : ~CountsDown(j),
           Program[hart.pc].kind # "hwloop"
    PROVE  hwlp_start_q' = hwlp_start_q /\ hwlp_end_q' = hwlp_end_q /\ hart'.lpcount = hart.lpcount
<1>1. hart'.lpcount[0] = hart.lpcount[0] /\ hart'.lpcount[1] = hart.lpcount[1]
  BY DEF RetiredSpec, Reloads, Loops
<1>2. hart'.lpcount = hart.lpcount
  BY <1>1, HartFields DEF RetiredSpec, Loops
<1> QED BY <1>2 DEF LoopsWritten

\* The hart comes to a place of the program.
LEMMA Arrives ==
    ASSUME FlowType', hart'.debug = FALSE, Place[hart'.pc] \in InProgram
    PROVE  HandlerInv' /\ Resume' = hart'.pc
<1>1. hart'.pc \in Addresses
  BY DEF FlowType, HartType
<1>2. Pc' = hart'.pc
  BY DEF Pc
<1>3. hart'.pc \notin {MTVEC, IRQ_VECTOR, Following(MTVEC)}
  BY <1>1, Handlers DEF InProgram
<1>4. Resume' = hart'.pc
  BY <1>2, <1>3 DEF Resume, Outer
<1> QED BY <1>2, <1>4 DEF HandlerInv, InProgram

\* The debugger refuses an instruction and starts over.
LEMMA ExceptionInDebugger ==
    ASSUME FlowInv, HartInv, ProgramInv, Enables, Effects, NoneRuns, Exception, hart.debug
    PROVE  ProgramInv'
<1> USE DEF FlowInv, ProgramInv
<1>1. names' = names /\ ex'.kind = "none"
  BY NothingComputed
<1>2. /\ hart'.pc = DM_EXCEPTION /\ hart'.mepc = hart.mepc /\ hart'.lpcount = hart.lpcount
      /\ hart'.debug = hart.debug /\ hart'.depc = hart.depc
  BY DEF Exception, FlowType, HartType
<1>3. Pc' = Pc /\ Resume' = Resume
  BY <1>2 DEF Resume, Pc, Outer
<1>4. Place[Pc] = "handler" => ~mie_q'
  BY HandlerMasked
<1>5. Place[DM_EXCEPTION] = "debugger"
  BY LayoutAssumption
<1>6. HandlerInv'
  BY <1>1, <1>2, <1>3, <1>4, <1>5 DEF HandlerInv
<1>7. Undisturbed
  BY <1>1, <1>2 DEF Undisturbed, NoneRuns, LoopsStay
<1> QED BY <1>3, <1>6, <1>7, Rests

\* The debugger executes an instruction, the last one of which leads back.
LEMMA RetireInDebugger ==
    ASSUME FlowInv, HartInv, ProgramInv, Enables, Effects, hart.debug,
           Retire(hwlp_start_q, hwlp_end_q, ex'.taken), LoopsWritten, IntoEffect
    PROVE  ProgramInv'
<1> USE DEF FlowInv, ProgramInv
<1>1. /\ hart.pc \in Addresses /\ DebuggerSpec(hart.pc) /\ Place[hart.pc] = "debugger"
  BY HartFields, Places DEF HandlerInv
<1>2. PICK taken : taken = ex'.taken /\ Retire(hwlp_start_q, hwlp_end_q, taken)
  OBVIOUS
<1>3. RetiredSpec(taken)
  BY <1>2, RetiredIs
<1>4. \A j \in Loops : ~CountsDown(j)
  BY <1>1, NoneEnds
<1>5. Undisturbed
  BY <1>1, <1>3, <1>4, LoopsUntouched, ApartStep DEF Undisturbed, DebuggerSpec
<1>6. /\ hart'.mepc = hart.mepc /\ hart'.depc = hart.depc
      /\ hart'.debug = (Program[hart.pc].kind # "dret")
      /\ Program[hart.pc].kind # "dret" => Place[hart'.pc] = "debugger"
      /\ Program[hart.pc].kind = "dret" => hart'.pc = hart.depc
  <2>1. Place[DM_EXCEPTION] = "debugger"
    BY LayoutAssumption
  <2> QED BY <1>1, <1>3, <1>4, <2>1, Onwards DEF RetiredSpec, DebuggerSpec
<1>7. Pc' = Pc /\ Resume' = Resume
  BY <1>6 DEF Resume, Pc, Outer
<1>8. Place[Pc] = "handler" => ~mie_q'
  BY HandlerMasked
<1>9. ex'.kind # "mie"
  BY <1>1 DEF IntoEffect, DebuggerSpec
<1>10. HandlerInv'
  BY <1>6, <1>7, <1>8, <1>9 DEF HandlerInv
<1> QED BY <1>5, <1>7, <1>10, Rests

\* A handler runs and returns.
LEMMA RetireInHandler ==
    ASSUME FlowInv, FlowInv', HartInv, ProgramInv, Enables, Effects, ~hart.debug, Place[hart.pc] = "handler",
           Retire(hwlp_start_q, hwlp_end_q, ex'.taken), LoopsWritten, IntoEffect
    PROVE  ProgramInv'
<1> USE DEF FlowInv, ProgramInv
<1>1. /\ hart.pc \in {MTVEC, IRQ_VECTOR, Following(MTVEC)} /\ hart.pc = Pc /\ hart.pc \in Addresses
      /\ Program[hart.pc] = IF hart.pc = MTVEC THEN [kind |-> "skip"] ELSE [kind |-> "mret"]
  BY HartFields, Handlers DEF Pc
<1>2. PICK taken : taken = ex'.taken /\ Retire(hwlp_start_q, hwlp_end_q, taken)
  OBVIOUS
<1>3. RetiredSpec(taken)
  BY <1>2, RetiredIs
<1>4. \A j \in Loops : ~CountsDown(j)
  BY NoneEnds
<1>5. IsApart(hart.pc)
  BY <1>1 DEF IsApart
<1>6. Undisturbed
  BY <1>1, <1>3, <1>4, <1>5, LoopsUntouched, ApartStep DEF Undisturbed
<1>7. Place[Resume] \in InProgram
  BY DEF ResumeInv
<1>0. hart.debug = FALSE
  BY HartFields
<1>8. CASE hart.pc = MTVEC
  <2>0. Program[hart.pc].kind = "skip"
    BY <1>1, <1>8
  <2>1. hart'.debug = FALSE /\ hart'.mepc = Following(hart.mepc) /\ hart'.pc = Following(MTVEC)
    <3>1. LeadsTo(hart.pc) = {Following(MTVEC)}
      BY <1>8, <2>0 DEF LeadsTo
    <3>2. Successor(hwlp_start_q, hwlp_end_q, taken) = Following(MTVEC)
      BY <1>4, <2>0, <3>1, Onwards
    <3> QED BY <1>0, <1>3, <2>0, <3>2 DEF RetiredSpec
  <2>2. Resume = Following(hart.mepc)
    BY <1>1, <1>8, Handlers DEF Resume, Outer
  <2>3. Resume' = Resume /\ Pc' = Following(MTVEC)
    BY <2>1, <2>2, Handlers DEF Resume, Pc, Outer
  <2>4. HandlerInv'
    <3>1. ~mie_q' /\ ex'.kind # "mie"
      BY <1>1, <2>0, HandlerMasked DEF IntoEffect
    <3> QED BY <2>1, <2>3, <3>1, Handlers DEF HandlerInv
  <2> QED BY <1>6, <2>3, <2>4, Rests
<1>9. CASE hart.pc # MTVEC
  <2>1. hart'.debug = FALSE /\ hart'.pc = hart.mepc
    <3>1. Program[hart.pc].kind = "mret"
      BY <1>1, <1>9
    <3>2. Successor(hwlp_start_q, hwlp_end_q, taken) = hart.mepc
      BY <1>0, <1>4, <3>1, Onwards
    <3> QED BY <1>0, <1>3, <3>1, <3>2 DEF RetiredSpec
  <2>2. Resume = hart.mepc
    BY <1>1, <1>9 DEF Resume, Outer
  <2>3. HandlerInv' /\ Resume' = Resume
    BY <1>7, <2>1, <2>2, Arrives
  <2> QED BY <1>6, <2>3, Rests
<1> QED BY <1>8, <1>9

--------------------------------------------------------------------------------
\* Instructions before the tests, and their traps.

\* What runs before the tests leads to them or beside them.
LEMMA BeforeGoesOn ==
    ASSUME Shape, LoopsApart, ResumeInv, Undisturbed, Place[Resume] = "before",
           Resume' = TESTS \/ Place[Resume'] \in {"before", "beside"},
           Place[Resume'] = "beside" => MayGoBeside
    PROVE  Shape' /\ LoopsApart' /\ ResumeInv'
<1>1. Shape' /\ LoopsApart'
  BY DEF Undisturbed, Shape, LoopsApart
<1>2. /\ names' = NamesInit
      /\ \A j \in Loops : hwlp_start_q'[j] = 0 /\ hwlp_end_q'[j] = 0 /\ hart'.lpcount[j] = 0
  BY DEF ResumeInv, Undisturbed, Off
<1>5. \A j \in Loops : OverBody(j)'
  BY <1>2 DEF OverBody, Off
<1>3. CASE Place[Resume'] \in {"before", "beside"}
  <2>1. Place[0] = "beside"
    BY LayoutAssumption
  <2> QED BY <1>1, <1>2, <1>3, <1>5, <2>1 DEF ResumeInv, InProgram, Off
<1>4. CASE Resume' = TESTS
  <2>1. Between(1)'
    BY <1>2 DEF Between, NamesInit, Names, Frame, t1, t2, Off, Loops
  <2>2. Resume' = At(1) /\ TestsClaim(1)'
    BY <1>4, <2>1, TestPlaces DEF TestsClaim
  <2>3. Place[Resume'] = "tests"
    <3>1. 1 \in 1 .. 196
      OBVIOUS
    <3> QED BY <2>2, <3>1, TestPlaces DEF TestSpecAt
  <2>4. (\E k : Resume = At(k) /\ TestsClaim(k))'
    BY <2>2
  <2> QED BY <1>1, <1>5, <2>3, <2>4 DEF ResumeInv, InProgram
<1> QED BY <1>3, <1>4

\* The program goes on in the tests, or behind them.
LEMMA TestsGoOn ==
    ASSUME (\E n : OnTo(n) /\ TestsClaim(n)') \/ (OnTo(197) /\ Off(0)' /\ Off(1)'),
           \A j \in Loops : OverBody(j)'
    PROVE  Place[Resume'] \in {"tests", "behind"} /\ ResumeInv'
<1>1. CASE \E n : OnTo(n) /\ TestsClaim(n)'
  <2>1. PICK n : OnTo(n) /\ TestsClaim(n)'
    BY <1>1
  <2>2. n \in 1 .. 196
    BY <2>1 DEF TestsClaim, Between
  <2>3. TestSpecAt(n)
    BY <2>2, TestPlaces
  <2>4. Place[Resume'] = "tests"
    BY <2>1, <2>3 DEF OnTo, TestSpecAt
  <2>5. (\E k : Resume = At(k) /\ TestsClaim(k))'
    <3>1. Resume' = At(n) /\ TestsClaim(n)'
      BY <2>1 DEF OnTo
    <3> QED BY <3>1
  <2>6. ResumeInv'
    <3>1. /\ Place[Resume'] # "before" /\ Place[Resume'] # "beside" /\ Place[Resume'] # "behind"
          /\ Place[Resume'] \in InProgram
      BY <2>4 DEF InProgram
    <3> QED BY <2>5, <3>1 DEF ResumeInv
  <2> QED BY <2>4, <2>6
<1>2. CASE OnTo(197) /\ Off(0)' /\ Off(1)'
  <2>1. Place[Resume'] = "behind"
    BY <1>2, TestPlaces DEF OnTo
  <2> QED BY <1>2, <2>1 DEF ResumeInv, InProgram
<1> QED BY <1>1, <1>2

\* An instruction of the program that is refused is skipped.
LEMMA ExceptionInProgram ==
    ASSUME FlowInv, FlowInv', ProgramInv, Effects, NoneRuns, Exception, Refused, ~hart.debug, ~mie_q'
    PROVE  ProgramInv'
<1> USE DEF FlowInv, ProgramInv
<1>1. names' = names /\ ex'.kind = "none"
  BY NothingComputed
<1>2. /\ hart'.pc = MTVEC /\ hart'.mepc = hart.pc /\ hart'.lpcount = hart.lpcount /\ hart'.debug = FALSE
  BY DEF Exception, FlowType, HartType
<1>3. Pc = hart.pc /\ hart.pc \in Addresses
  BY HartFields DEF Pc
<1>4. Place[hart.pc] \in InProgram
  <2>1. Place[hart.pc] = "handler" => Program[hart.pc].kind \in {"skip", "mret"}
    BY <1>3, Handlers
  <2> QED BY <1>3, <2>1 DEF HandlerInv, Refused
<1>5. Resume = hart.pc
  BY <1>3, <1>4, InProgramAt
<1>6. Pc' = MTVEC /\ Resume' = Following(hart.pc)
  BY <1>2, Handlers DEF Resume, Pc, Outer
<1>7. HandlerInv'
  BY <1>1, <1>2, <1>6, Handlers DEF HandlerInv
<1>8. Undisturbed
  BY <1>1, <1>2 DEF Undisturbed, NoneRuns, LoopsStay
<1>9. Following(hart.pc) \in LeadsTo(hart.pc)
  BY DEF Refused, LeadsTo
<1>10. Shape' /\ LoopsApart'
  BY <1>8 DEF Undisturbed, Shape, LoopsApart
<1>11. CASE Place[hart.pc] = "before"
  <2>1. Resume' = TESTS \/ Place[Resume'] \in {"before", "beside"}
    BY <1>3, <1>6, <1>9, <1>11, Places DEF BeforeSpec
  <2>2. Place[Resume'] = "beside" => MayGoBeside
    BY <1>3, <1>6, <1>9, <1>11 DEF MayGoBeside
  <2> QED BY <1>5, <1>7, <1>8, <1>11, <2>1, <2>2, BeforeGoesOn
<1>12. CASE Place[hart.pc] = "beside"
  <2>1. Place[Resume'] = "beside"
    BY <1>3, <1>6, <1>9, <1>12, Places DEF BesideSpec
  <2> QED BY <1>5, <1>7, <1>8, <1>10, <1>12, <2>1 DEF ResumeInv, InProgram, Undisturbed
<1>13. CASE Place[hart.pc] = "behind"
  <2>1. Place[Resume'] = "behind"
    BY <1>3, <1>6, <1>9, <1>13, Places DEF BehindSpec
  <2>2. \A j \in Loops : OverBody(j)'
    BY <1>5, <1>8, <1>13, BodiesStay DEF ResumeInv
  <2> QED BY <1>5, <1>7, <1>8, <1>10, <1>13, <2>1, <2>2 DEF ResumeInv, InProgram, Undisturbed, Off
<1>14. CASE Place[hart.pc] = "tests"
  <2>1. PICK k : hart.pc = At(k) /\ TestsClaim(k)
    BY <1>5, <1>14 DEF ResumeInv
  <2>2. k \in 1 .. 196
    BY <2>1 DEF TestsClaim, Between
  <2>3. TestSpecAt(k)
    BY <2>2, TestPlaces
  <2>4. IsTrap(Main[k])
    BY <2>1, <2>3 DEF TestSpecAt, OfTheTests, IsTrap, Refused, Assembled
  <2>5. TestStep(k)
    <3>1. OnTo(k + 1)
      BY <1>6, <2>1, <2>3 DEF OnTo, TestSpecAt
    <3>2. Passes(k)
      BY <1>8, <3>1 DEF Undisturbed, Passes, LoopKept
    <3>3. "effect" \notin DOMAIN Main[k] /\ Main[k].kind # "hwloop"
      BY <2>3, <2>4 DEF TestSpecAt, OfTheTests, IsTrap
    <3> QED BY <1>1, <2>4, <3>2, <3>3 DEF TestStep
  <2>6. (\E n : OnTo(n) /\ TestsClaim(n)') \/ (OnTo(197) /\ Off(0)' /\ Off(1)')
    BY <2>1, <2>5, TestsStep
  <2>7. \A j \in Loops : OverBody(j)'
    BY <1>5, <1>8, <1>14, BodiesStay DEF ResumeInv
  <2> QED BY <1>7, <1>10, <2>6, <2>7, TestsGoOn
<1> QED BY <1>4, <1>11, <1>12, <1>13, <1>14 DEF InProgram

--------------------------------------------------------------------------------
\* Instructions beside and behind the tests.

\* Where an instruction that is no return leads.
SuccessorSpec(to) ==
    /\ to \in LeadsTo(hart.pc) \/ \E j \in Loops : CountsDown(j) /\ to = hwlp_start_q[j]
    /\ Program[hart.pc].kind \notin {"jal", "jalr", "branch"} =>
         /\ \A j \in Loops : CountsDown(j) /\ hart.lpcount[j] > 1 /\ ~CountsDown(1 - j) => to = hwlp_start_q[j]
         /\ (\A j \in Loops : CountsDown(j) => ~(hart.lpcount[j] > 1)) => to = Following(hart.pc)

\* The successor is such a place.
LEMMA GoesBack ==
    ASSUME NEW taken, Program[hart.pc].kind \notin {"mret", "dret"}
    PROVE  SuccessorSpec(Successor(hwlp_start_q, hwlp_end_q, taken))
<1> DEFINE back == {j \in Ending(hwlp_end_q, hart.pc) : hart.lpcount[j] > 1}
           nearest == CHOOSE j \in back : \A i \in back : j <= i
           to == Successor(hwlp_start_q, hwlp_end_q, taken)
<1>1. \A j : j \in back <=> j \in Loops /\ CountsDown(j) /\ hart.lpcount[j] > 1
  BY DEF Ending, CountsDown, Loops
<1>2. back # {} => nearest \in back
  <2> HIDE DEF back
  <2>1. back \subseteq {0, 1}
    BY <1>1 DEF Loops
  <2>2. 0 \in back => \A i \in back : 0 <= i
    BY <2>1
  <2>3. 0 \notin back => \A i \in back : i = 1
    BY <2>1
  <2>4. CASE 0 \in back
    BY <2>2, <2>4
  <2>5. CASE 0 \notin back /\ back # {}
    <3>1. PICK i : i \in back
      BY <2>5
    <3>2. i = 1
      BY <2>3, <2>5, <3>1
    <3>3. 1 \in back
      BY <3>1, <3>2
    <3>4. \A m \in back : 1 <= m
      BY <2>3, <2>5
    <3> QED BY <3>3, <3>4
  <2> QED BY <2>4, <2>5
<1>3. CASE Program[hart.pc].kind \in {"jal", "jalr"} \/ (Program[hart.pc].kind = "branch" /\ taken)
  <2>1. to = Program[hart.pc].to \/ (back # {} /\ to = hwlp_start_q[nearest])
    <3>1. CASE Program[hart.pc].kind \in {"jal", "jalr"}
      BY <3>1 DEF Successor
    <3>2. CASE Program[hart.pc].kind = "branch" /\ taken
      BY <3>2 DEF Successor
    <3> QED BY <1>3, <3>1, <3>2
  <2>2. Program[hart.pc].to \in LeadsTo(hart.pc)
    BY <1>3 DEF LeadsTo
  <2> HIDE DEF to, nearest, back
  <2>3. to \in LeadsTo(hart.pc) \/ \E j \in Loops : CountsDown(j) /\ to = hwlp_start_q[j]
    BY <1>1, <1>2, <2>1, <2>2
  <2>4. SuccessorSpec(to)
    BY <1>3, <2>3 DEF SuccessorSpec
  <2> QED BY <2>4 DEF to
<1>4. CASE ~(Program[hart.pc].kind \in {"jal", "jalr"} \/ (Program[hart.pc].kind = "branch" /\ taken))
  <2>1. to = IF back # {} THEN hwlp_start_q[nearest] ELSE Following(hart.pc)
    BY <1>4 DEF Successor
  <2>2. Following(hart.pc) \in LeadsTo(hart.pc)
    BY <1>4 DEF LeadsTo
  <2> HIDE DEF to, nearest, back
  <2>3. ASSUME NEW j \in Loops, CountsDown(j), hart.lpcount[j] > 1, ~CountsDown(1 - j) PROVE to = hwlp_start_q[j]
    BY <1>1, <1>2, <2>1, <2>3 DEF Loops
  <2>4. ASSUME \A j \in Loops : CountsDown(j) => ~(hart.lpcount[j] > 1) PROVE to = Following(hart.pc)
    BY <1>1, <2>1, <2>4
  <2>5. to \in LeadsTo(hart.pc) \/ \E j \in Loops : CountsDown(j) /\ to = hwlp_start_q[j]
    BY <1>1, <1>2, <2>1, <2>2
  <2>6. SuccessorSpec(to)
    BY <2>3, <2>4, <2>5 DEF SuccessorSpec
  <2> QED BY <2>6 DEF to
<1> QED BY <1>3, <1>4

\* An instruction before the tests, where no loop is in use.
LEMMA RetireBefore ==
    ASSUME FlowInv, FlowInv', ProgramInv, Effects, ~hart.debug, Place[hart.pc] = "before",
           Retire(hwlp_start_q, hwlp_end_q, ex'.taken), ~Refused, LoopsWritten, IntoEffect
    PROVE  ProgramInv'
<1> USE DEF FlowInv, ProgramInv
<1>1. /\ hart.pc \in Addresses /\ BeforeSpec(hart.pc) /\ Pc = hart.pc /\ Resume = hart.pc /\ hart.debug = FALSE
  BY HartFields, Places, InProgramAt DEF InProgram, Pc
<1>2. PICK taken : taken = ex'.taken /\ Retire(hwlp_start_q, hwlp_end_q, taken)
  OBVIOUS
<1>3. RetiredSpec(taken)
  BY <1>2, RetiredIs
<1>4. \A j \in Loops : ~CountsDown(j)
  BY NoneEnds
<1>5. Undisturbed
  BY <1>1, <1>3, <1>4, LoopsUntouched, ApartStep DEF Undisturbed, BeforeSpec
<1>6. hart'.debug = FALSE /\ hart'.pc \in LeadsTo(hart.pc)
  <2>1. Program[hart.pc].kind \notin {"mret", "dret"}
    BY <1>1 DEF BeforeSpec, Refused
  <2>2. Successor(hwlp_start_q, hwlp_end_q, taken) \in LeadsTo(hart.pc)
    BY <1>4, <2>1, Onwards
  <2> QED BY <1>1, <1>3, <2>2 DEF RetiredSpec
<1>7. hart'.pc = TESTS \/ Place[hart'.pc] \in {"before", "beside"}
  <2>1. PICK to \in LeadsTo(hart.pc) : to = hart'.pc
    BY <1>6
  <2>2. to = TESTS \/ Place[to] \in {"before", "beside"}
    BY <1>1 DEF BeforeSpec
  <2> QED BY <2>1, <2>2
<1>8. Place[hart'.pc] = "beside" => MayGoBeside
  <2>1. PICK to \in LeadsTo(hart.pc) : to = hart'.pc
    BY <1>6
  <2> QED BY <1>1, <2>1 DEF MayGoBeside
<1>9. Place[TESTS] = "tests"
  <2>1. 1 \in 1 .. 196
    OBVIOUS
  <2>2. TestSpecAt(1) /\ TESTS = At(1)
    BY <2>1, TestPlaces
  <2> QED BY <2>2 DEF TestSpecAt
<1>10. HandlerInv' /\ Resume' = hart'.pc
  BY <1>6, <1>7, <1>9, Arrives DEF InProgram
<1> QED BY <1>1, <1>5, <1>7, <1>8, <1>10, BeforeGoesOn

\* An instruction behind the tests, where no loop is in use any more.
LEMMA RetireBehind ==
    ASSUME FlowInv, FlowInv', ProgramInv, Effects, ~hart.debug, Place[hart.pc] = "behind",
           Retire(hwlp_start_q, hwlp_end_q, ex'.taken), ~Refused, LoopsWritten, IntoEffect
    PROVE  ProgramInv'
<1> USE DEF FlowInv, ProgramInv
<1>1. /\ hart.pc \in Addresses /\ BehindSpec(hart.pc) /\ Pc = hart.pc /\ Resume = hart.pc /\ hart.debug = FALSE
  BY HartFields, Places, InProgramAt DEF InProgram, Pc
<1>2. PICK taken : taken = ex'.taken /\ Retire(hwlp_start_q, hwlp_end_q, taken)
  OBVIOUS
<1>3. RetiredSpec(taken)
  BY <1>2, RetiredIs
<1>4. \A j \in Loops : ~CountsDown(j)
  BY NoneEnds
<1>5. Undisturbed
  BY <1>1, <1>3, <1>4, LoopsUntouched, ApartStep DEF Undisturbed, BehindSpec
<1>6. hart'.debug = FALSE /\ hart'.pc \in LeadsTo(hart.pc)
  <2>1. Program[hart.pc].kind \notin {"mret", "dret"}
    BY <1>1 DEF BehindSpec, Refused
  <2>2. Successor(hwlp_start_q, hwlp_end_q, taken) \in LeadsTo(hart.pc)
    BY <1>4, <2>1, Onwards
  <2> QED BY <1>1, <1>3, <2>2 DEF RetiredSpec
<1>7. Place[hart'.pc] = "behind"
  BY <1>1, <1>6 DEF BehindSpec
<1>8. HandlerInv' /\ Resume' = hart'.pc
  BY <1>6, <1>7, Arrives DEF InProgram
<1>9. Shape' /\ LoopsApart'
  BY <1>5 DEF Undisturbed, Shape, LoopsApart
<1>10. Off(0)' /\ Off(1)'
  BY <1>1, <1>5 DEF ResumeInv, Undisturbed, Off
<1>11. \A j \in Loops : OverBody(j)'
  BY <1>1, <1>5, BodiesStay DEF ResumeInv
<1>12. ResumeInv'
  BY <1>7, <1>8, <1>10, <1>11 DEF ResumeInv, InProgram
<1> QED BY <1>8, <1>9, <1>12

\* An instruction beside the tests, which may have loops of its own.
LEMMA RetireBeside ==
    ASSUME FlowInv, FlowInv', ProgramInv, Effects, ~hart.debug, Place[hart.pc] = "beside",
           Retire(hwlp_start_q, hwlp_end_q, ex'.taken), ~Refused, LoopsWritten, IntoEffect
    PROVE  ProgramInv'
<1> USE DEF FlowInv, ProgramInv
<1>1. /\ hart.pc \in Addresses /\ BesideSpec(hart.pc) /\ Pc = hart.pc /\ Resume = hart.pc /\ hart.debug = FALSE
  BY HartFields, Places, InProgramAt DEF InProgram, Pc
<1>2. PICK taken : taken = ex'.taken /\ Retire(hwlp_start_q, hwlp_end_q, taken)
  OBVIOUS
<1>3. RetiredSpec(taken)
  BY <1>2, RetiredIs
<1>4. \A j \in Loops : Place[hwlp_start_q[j]] = "beside" /\ (hwlp_end_q[j] = 0 \/ Place[hwlp_end_q[j] - 2] = "beside")
  BY <1>1 DEF ResumeInv
<1>5. names' = names
  BY <1>1, ApartStep DEF BesideSpec
<1>6. hart'.debug = FALSE /\ Place[hart'.pc] = "beside"
  <2>1. Program[hart.pc].kind \notin {"mret", "dret"}
    BY <1>1 DEF BesideSpec, Refused
  <2>2. SuccessorSpec(Successor(hwlp_start_q, hwlp_end_q, taken))
    BY <2>1, GoesBack
  <2>3. Place[Successor(hwlp_start_q, hwlp_end_q, taken)] = "beside"
    BY <1>1, <1>4, <2>2 DEF SuccessorSpec, BesideSpec
  <2> QED BY <1>1, <1>3, <2>3 DEF RetiredSpec
<1>7. HandlerInv' /\ Resume' = hart'.pc
  BY <1>6, Arrives DEF InProgram
<1>8. \A j \in Loops : Place[hwlp_start_q'[j]] = "beside" /\ (hwlp_end_q'[j] = 0 \/ Place[hwlp_end_q'[j] - 2] = "beside")
  <2>1. ASSUME NEW j \in Loops PROVE Place[hwlp_start_q'[j]] = "beside"
    <3>1. DOMAIN hwlp_start_q = Loops
      BY DEF FlowType, LoopType
    <3> QED BY <1>1, <1>4, <3>1 DEF LoopsWritten, BesideSpec
  <2>2. ASSUME NEW j \in Loops PROVE hwlp_end_q'[j] = 0 \/ Place[hwlp_end_q'[j] - 2] = "beside"
    <3> DEFINE end == Program[hart.pc].end
    <3>1. DOMAIN hwlp_end_q = Loops
      BY DEF FlowType, LoopType
    <3>2. Program[hart.pc].kind = "hwloop" /\ "end" \in Program[hart.pc].fields =>
            2 * (end \div 2) = 0 \/ Place[2 * (end \div 2) - 2] = "beside"
      <4>1. ASSUME Program[hart.pc].kind = "hwloop", "end" \in Program[hart.pc].fields PROVE end \in Nat
        BY <1>1, <4>1, SoftwareAssumption, LoopFieldsAssumption DEF Addresses
      <4>2. ASSUME end \in Nat, ~(end > 1) PROVE 2 * (end \div 2) = 0
        BY <4>2
      <4> QED BY <1>1, <4>1, <4>2 DEF BesideSpec
    <3> QED BY <1>4, <3>1, <3>2 DEF LoopsWritten
  <2> QED BY <2>1, <2>2
<1>9. Shape'
  <2>1. hart'.lpcount \in [Loops -> Counts]
    BY DEF FlowType, HartType
  <2> QED BY <1>5, <2>1 DEF Shape, Loops, Counts
<1>10. LoopsApart'
  BY <1>8 DEF LoopsApart
<1>11. ResumeInv'
  BY <1>1, <1>6, <1>7, <1>8 DEF ResumeInv, InProgram
<1> QED BY <1>7, <1>9, <1>10, <1>11

--------------------------------------------------------------------------------
\* Instructions of the tests.

\* The instruction the hart is at in the tests.
InstructionSpec(k) ==
    LET instr == Program[hart.pc]
    IN  /\ instr.kind = Main[k].kind
        /\ "effect" \in DOMAIN instr <=> "effect" \in DOMAIN Main[k]
        /\ "effect" \in DOMAIN Main[k] => instr.effect = Main[k].effect
        /\ "result" \in DOMAIN instr <=> "result" \in DOMAIN Main[k]
        /\ "result" \in DOMAIN Main[k] => instr = Main[k]
        /\ Main[k].kind = "hwloop" =>
             /\ instr.fields = {"start", "end", "count"} /\ instr.loop = Main[k].loop
             /\ instr.start = At(k) + 2 /\ instr.end = At(k) + 2 + 2 * Main[k].size
             /\ instr.count = Main[k].count

\* The program holds at the kth place the kth instruction of main, assembled.
LEMMA TestInstruction ==
    ASSUME NEW k \in 1 .. 196, hart.pc = At(k)
    PROVE  InstructionSpec(k)
<1>1. TestSpecAt(k) /\ ("result" \in DOMAIN Main[k] => Main[k].kind # "hwloop")
  <2>1. k \in {8, 23, 38, 53, 66, 87, 119, 150, 173, 196} => Main[k].kind # "hwloop"
    BY Parts DEF HandsOut
  <2> QED BY <2>1, TestPlaces, TestInstructions
<1>2. CASE Main[k].kind # "hwloop"
  BY <1>1, <1>2 DEF TestSpecAt, Assembled, InstructionSpec
<1>3. CASE Main[k].kind = "hwloop"
  <2>1. "effect" \notin DOMAIN Main[k] /\ "result" \notin DOMAIN Main[k]
    BY <1>1, <1>3 DEF TestSpecAt, OfTheTests
  <2>2. Program[hart.pc] = [kind |-> "hwloop", fields |-> {"start", "end", "count"}, loop |-> Main[k].loop,
                            start |-> At(k) + 2, end |-> At(k) + 2 + 2 * Main[k].size, count |-> Main[k].count]
    BY <1>1, <1>3 DEF TestSpecAt, Assembled
  <2> QED BY <1>3, <2>1, <2>2 DEF InstructionSpec
<1> QED BY <1>2, <1>3

\* What it does to the registers.
LEMMA EffectInTests ==
    ASSUME NEW k \in 1 .. 196, hart.pc = At(k), IntoEffect, Effects
    PROVE  IF "effect" \in DOMAIN Main[k] THEN names' = Executed(names, Main[k].effect) ELSE names' = names
<1>1. InstructionSpec(k) /\ OfTheTests(Main[k])
  BY TestInstruction, TestInstructions
<1>2. ex'.kind \in {"plain", "csr"} <=> "effect" \in DOMAIN Main[k]
  BY <1>1 DEF IntoEffect, InstructionSpec, OfTheTests
<1>3. "effect" \in DOMAIN Main[k] => ex'.value = Main[k].effect
  BY <1>1, <1>2 DEF IntoEffect, InstructionSpec
<1> QED BY <1>2, <1>3 DEF Effects

\* What it does to the loops.
LEMMA LoopsInTests ==
    ASSUME FlowType, NEW k \in 1 .. 196, hart.pc = At(k), LoopsWritten, NEW taken, RetiredSpec(taken)
    PROVE  \A j \in Loops :
             IF Main[k].kind = "hwloop" /\ Main[k].loop = j
             THEN hwlp_start_q'[j] = At(k + 1) /\ hwlp_end_q'[j] = At(k + 1 + Main[k].size)
                  /\ hart'.lpcount[j] = Main[k].count
             ELSE hwlp_start_q'[j] = hwlp_start_q[j] /\ hwlp_end_q'[j] = hwlp_end_q[j]
                  /\ hart'.lpcount[j] = IF EndsAt(j, k) THEN hart.lpcount[j] - 1 ELSE hart.lpcount[j]
<1>1. InstructionSpec(k) /\ TestSpecAt(k)
  BY TestInstruction, TestPlaces
<1>2. \A j \in Loops : CountsDown(j) <=> EndsAt(j, k)
  BY <1>1 DEF CountsDown, EndsAt, TestSpecAt
<1>3. DOMAIN hwlp_start_q = Loops /\ DOMAIN hwlp_end_q = Loops
  BY DEF FlowType, LoopType
<1>4. Main[k].kind = "hwloop" => 2 * ((At(k) + 2) \div 2) = At(k + 1)
                              /\ 2 * ((At(k) + 2 + 2 * Main[k].size) \div 2) = At(k + 1 + Main[k].size)
  <2>1. ASSUME Main[k].kind = "hwloop" PROVE Main[k].size \in Nat
    BY <2>1, BodiesEnd
  <2>2. TESTS \in Nat /\ TESTS = 2 * (TESTS \div 2)
    <3>1. TESTS \in Nat /\ TESTS % 2 = 0
      BY LayoutAssumption
    <3> QED BY <3>1
  <2>3. \A n \in Nat : 2 * ((At(k) + 2 + 2 * n) \div 2) = At(k) + 2 + 2 * n
    <3>1. ASSUME NEW n \in Nat PROVE 2 * ((At(k) + 2 + 2 * n) \div 2) = At(k) + 2 + 2 * n
      <4> DEFINE m == (TESTS \div 2) + (k - 1) + 1 + n
      <4>1. m \in Int /\ At(k) + 2 + 2 * n = 2 * m
        BY <2>2 DEF At
      <4> HIDE DEF m
      <4>2. (2 * m) \div 2 = m
        BY <4>1
      <4> QED BY <4>1, <4>2
    <3> QED BY <3>1
  <2>4. At(k) \in Nat /\ At(k) + 2 = At(k + 1) /\ \A n \in Nat : At(k) + 2 + 2 * n = At(k + 1 + n)
    BY <2>2 DEF At
  <2>5. 2 * ((At(k) + 2) \div 2) = At(k + 1)
    <3>1. At(k) + 2 + 2 * 0 = At(k) + 2
      BY <2>4
    <3> QED BY <2>3, <2>4, <3>1
  <2> QED BY <2>1, <2>3, <2>4, <2>5
<1>5. ASSUME NEW j \in Loops, Main[k].kind = "hwloop", Main[k].loop = j
      PROVE  hwlp_start_q'[j] = At(k + 1) /\ hwlp_end_q'[j] = At(k + 1 + Main[k].size) /\ hart'.lpcount[j] = Main[k].count
  <2>1. hart'.lpcount[j] = Main[k].count
    BY <1>1, <1>5 DEF InstructionSpec, RetiredSpec, Reloads
  <2> QED BY <1>1, <1>3, <1>4, <1>5, <2>1 DEF InstructionSpec, LoopsWritten
<1>6. ASSUME NEW j \in Loops, ~(Main[k].kind = "hwloop" /\ Main[k].loop = j)
      PROVE  hwlp_start_q'[j] = hwlp_start_q[j] /\ hwlp_end_q'[j] = hwlp_end_q[j]
             /\ hart'.lpcount[j] = IF EndsAt(j, k) THEN hart.lpcount[j] - 1 ELSE hart.lpcount[j]
  <2>1. hart'.lpcount[j] = IF EndsAt(j, k) THEN hart.lpcount[j] - 1 ELSE hart.lpcount[j]
    BY <1>1, <1>2, <1>6 DEF InstructionSpec, RetiredSpec, Reloads
  <2> QED BY <1>1, <1>3, <1>6, <2>1 DEF InstructionSpec, LoopsWritten
<1> QED BY <1>5, <1>6

\* A loop that is set up lies over one of the bodies of the tests.
LEMMA TestBodies ==
    ASSUME NEW k \in 1 .. 196, \A j \in Loops : OverBody(j),
           \A j \in Loops :
             IF Main[k].kind = "hwloop" /\ Main[k].loop = j
             THEN hwlp_start_q'[j] = At(k + 1) /\ hwlp_end_q'[j] = At(k + 1 + Main[k].size)
                  /\ hart'.lpcount[j] = Main[k].count
             ELSE hwlp_start_q'[j] = hwlp_start_q[j] /\ hwlp_end_q'[j] = hwlp_end_q[j]
                  /\ hart'.lpcount[j] = IF EndsAt(j, k) THEN hart.lpcount[j] - 1 ELSE hart.lpcount[j]
    PROVE  \A j \in Loops : OverBody(j)'
<1>1. ASSUME NEW j \in Loops PROVE OverBody(j)'
  <2>1. CASE Main[k].kind = "hwloop" /\ Main[k].loop = j
    <3>1. IsBody(k, j, Main[k].size)
      BY <2>1, Sites DEF SiteSpec
    <3>2. hwlp_start_q'[j] = At(k + 1) /\ hwlp_end_q'[j] = At(k + 1 + Main[k].size)
      BY <2>1
    <3>3. \E i, n : IsBody(i, j, n) /\ hwlp_start_q'[j] = At(i + 1) /\ hwlp_end_q'[j] = At(i + 1 + n)
      BY <3>1, <3>2
    <3> QED BY <3>3 DEF OverBody
  <2>2. CASE ~(Main[k].kind = "hwloop" /\ Main[k].loop = j)
    <3>1. hwlp_start_q'[j] = hwlp_start_q[j] /\ hwlp_end_q'[j] = hwlp_end_q[j]
      BY <2>2
    <3>2. Off(j) => Off(j)'
      <4>1. hart'.lpcount[j] = IF EndsAt(j, k) THEN hart.lpcount[j] - 1 ELSE hart.lpcount[j]
        BY <2>2
      <4> QED BY <4>1 DEF Off, EndsAt
    <3> QED BY <3>1, <3>2 DEF OverBody
  <2> QED BY <2>1, <2>2
<1> QED BY <1>1

\* Where it leads.
LEMMA PlaceInTests ==
    ASSUME NEW k \in 1 .. 196, hart.pc = At(k), ~Refused, ~hart.debug, NEW taken, RetiredSpec(taken)
    PROVE  /\ hart'.pc = At(k + 1) \/ \E j \in Loops : EndsAt(j, k) /\ hart'.pc = hwlp_start_q[j]
           /\ \A j \in Loops : EndsAt(j, k) /\ hart.lpcount[j] > 1 /\ ~EndsAt(1 - j, k) => hart'.pc = hwlp_start_q[j]
           /\ (\A j \in Loops : EndsAt(j, k) => ~(hart.lpcount[j] > 1)) => hart'.pc = At(k + 1)
           /\ ~IsTrap(Main[k])
<1>1. InstructionSpec(k) /\ TestSpecAt(k)
  BY TestInstruction, TestPlaces
<1>2. \A j \in Loops : (CountsDown(j) <=> EndsAt(j, k)) /\ (CountsDown(1 - j) <=> EndsAt(1 - j, k))
  BY <1>1 DEF CountsDown, EndsAt, TestSpecAt
<1>3. /\ Program[hart.pc].kind \notin {"jal", "jalr", "branch", "mret", "dret"}
      /\ LeadsTo(hart.pc) = {At(k + 1)}
  BY <1>1 DEF InstructionSpec, TestSpecAt, OfTheTests, LeadsTo
<1>4. SuccessorSpec(hart'.pc)
  <2>1. SuccessorSpec(Successor(hwlp_start_q, hwlp_end_q, taken))
    BY <1>3, GoesBack
  <2> QED BY <2>1 DEF RetiredSpec
<1>5. Following(hart.pc) = At(k + 1)
  BY <1>1 DEF TestSpecAt
<1> QED BY <1>1, <1>2, <1>3, <1>4, <1>5 DEF SuccessorSpec, Refused, IsTrap, InstructionSpec

\* An instruction of the tests.
LEMMA RetireInTests ==
    ASSUME FlowInv, FlowInv', ProgramInv, Effects, ~hart.debug, Place[hart.pc] = "tests",
           Retire(hwlp_start_q, hwlp_end_q, ex'.taken), ~Refused, LoopsWritten, IntoEffect
    PROVE  ProgramInv'
<1> USE DEF FlowInv, ProgramInv
<1>1. hart.pc \in Addresses /\ Pc = hart.pc /\ Resume = hart.pc /\ hart.debug = FALSE
  BY HartFields, InProgramAt DEF InProgram, Pc
<1>2. PICK k : hart.pc = At(k) /\ TestsClaim(k)
  BY <1>1 DEF ResumeInv
<1>3. k \in 1 .. 196
  BY <1>2 DEF TestsClaim, Between
<1>4. PICK taken : taken = ex'.taken /\ Retire(hwlp_start_q, hwlp_end_q, taken)
  OBVIOUS
<1>5. RetiredSpec(taken)
  BY <1>4, RetiredIs
<1>6. IF "effect" \in DOMAIN Main[k] THEN names' = Executed(names, Main[k].effect) ELSE names' = names
  BY <1>2, <1>3, EffectInTests
<1>7. \A j \in Loops :
        IF Main[k].kind = "hwloop" /\ Main[k].loop = j
        THEN hwlp_start_q'[j] = At(k + 1) /\ hwlp_end_q'[j] = At(k + 1 + Main[k].size)
             /\ hart'.lpcount[j] = Main[k].count
        ELSE hwlp_start_q'[j] = hwlp_start_q[j] /\ hwlp_end_q'[j] = hwlp_end_q[j]
             /\ hart'.lpcount[j] = IF EndsAt(j, k) THEN hart.lpcount[j] - 1 ELSE hart.lpcount[j]
  BY <1>2, <1>3, <1>5, LoopsInTests
<1>8. /\ hart'.pc = At(k + 1) \/ \E j \in Loops : EndsAt(j, k) /\ hart'.pc = hwlp_start_q[j]
      /\ \A j \in Loops : EndsAt(j, k) /\ hart.lpcount[j] > 1 /\ ~EndsAt(1 - j, k) => hart'.pc = hwlp_start_q[j]
      /\ (\A j \in Loops : EndsAt(j, k) => ~(hart.lpcount[j] > 1)) => hart'.pc = At(k + 1)
      /\ ~IsTrap(Main[k])
  BY <1>2, <1>3, <1>5, PlaceInTests
<1>9. Place[At(k + 1)] \in {"tests", "behind"}
  <2>1. k = 196 \/ k + 1 \in 1 .. 196
    BY <1>3
  <2>2. ASSUME k + 1 \in 1 .. 196 PROVE Place[At(k + 1)] = "tests"
    BY <2>2, TestPlaces DEF TestSpecAt
  <2>3. ASSUME k = 196 PROVE Place[At(k + 1)] = "behind"
    <3>1. k + 1 = 197
      BY <2>3
    <3> QED BY <3>1, TestPlaces
  <2> QED BY <2>1, <2>2, <2>3
<1>10. HandlerInv' /\ Resume' = hart'.pc
  <2>1. hart'.debug = FALSE
    BY <1>1, <1>5 DEF RetiredSpec
  <2>2. Place[hart'.pc] \in InProgram
    BY <1>8, <1>9 DEF LoopsApart, InProgram
  <2> QED BY <2>1, <2>2, Arrives
<1>11. OfTheTests(Main[k])
  BY <1>3, TestInstructions
<1>12. TestStep(k)
  <2>1. IF "effect" \in DOMAIN Main[k] THEN Computes(Main[k].effect) ELSE names' = names
    BY <1>6 DEF Computes
  <2>2. ASSUME ~EndsAt(0, k), ~EndsAt(1, k)
        PROVE  IF Main[k].kind = "hwloop" THEN SetsUp(k, Main[k].loop, Main[k].size, Main[k].count) ELSE Passes(k)
    <3>1. OnTo(k + 1)
      BY <1>8, <1>10, <2>2 DEF Loops, OnTo
    <3>2. CASE Main[k].kind # "hwloop"
      BY <1>7, <2>2, <3>1, <3>2 DEF Loops, Passes, LoopKept
    <3>3. CASE Main[k].kind = "hwloop"
      <4>1. Main[k].loop \in {0, 1}
        BY <1>11, <3>3 DEF OfTheTests
      <4>2. CASE Main[k].loop = 0
        BY <1>7, <2>2, <3>1, <3>3, <4>2 DEF Loops, SetsUp, LoopKept
      <4>3. CASE Main[k].loop = 1
        BY <1>7, <2>2, <3>1, <3>3, <4>3 DEF Loops, SetsUp, LoopKept
      <4> QED BY <4>1, <4>2, <4>3
    <3> QED BY <3>2, <3>3
  <2>3. ASSUME Main[k].kind # "hwloop", EndsAt(0, k), ~EndsAt(1, k) PROVE TurnsBack(0, k)
    <3>1. IF hart.lpcount[0] > 1 THEN Resume' = hwlp_start_q[0] ELSE OnTo(k + 1)
      BY <1>8, <1>10, <2>3 DEF Loops, OnTo
    <3> QED BY <1>7, <2>3, <3>1 DEF Loops, TurnsBack, LoopKept
  <2>4. ASSUME Main[k].kind # "hwloop", EndsAt(1, k), ~EndsAt(0, k) PROVE TurnsBack(1, k)
    <3>1. IF hart.lpcount[1] > 1 THEN Resume' = hwlp_start_q[1] ELSE OnTo(k + 1)
      BY <1>8, <1>10, <2>4 DEF Loops, OnTo
    <3> QED BY <1>7, <2>4, <3>1 DEF Loops, TurnsBack, LoopKept
  <2> QED BY <1>8, <2>1, <2>2, <2>3, <2>4 DEF TestStep
<1>13. (\E n : OnTo(n) /\ TestsClaim(n)') \/ (OnTo(197) /\ Off(0)' /\ Off(1)')
  BY <1>2, <1>12, TestsStep
<1>14. \A j \in Loops : OverBody(j)'
  BY <1>1, <1>2, <1>3, <1>7, TestBodies DEF ResumeInv
<1>15. ResumeInv'
  BY <1>13, <1>14, TestsGoOn
<1>16. Shape'
  <2>1. hart'.lpcount \in [Loops -> Counts]
    BY DEF FlowType, HartType
  <2>2. DOMAIN names' = Names
    <3>1. CASE "effect" \notin DOMAIN Main[k]
      BY <1>6, <3>1 DEF Shape
    <3>2. CASE "effect" \in DOMAIN Main[k]
      <4>1. Main[k].effect.do \in {"addi", "add", "mul", "div", "swap"}
        BY <1>11, <3>2 DEF OfTheTests
      <4>2. DOMAIN Executed(names, Main[k].effect) = Names
        BY <4>1 DEF Executed, Shape
      <4> QED BY <1>6, <3>2, <4>2
    <3> QED BY <3>1, <3>2
  <2> QED BY <2>1, <2>2 DEF Shape, Loops, Counts
<1>17. LoopsApart'
  <2>1. ASSUME NEW j \in Loops, Main[k].kind = "hwloop", Main[k].loop = j
        PROVE  Place[hwlp_start_q'[j]] \in {"beside", "tests"}
               /\ (hwlp_end_q'[j] = 0 \/ Place[hwlp_end_q'[j] - 2] \in {"beside", "tests"})
    <3>1. Main[k].size \in Nat /\ k + Main[k].size \in 1 .. 196 /\ k # 196
      <4>1. Main[196].kind # "hwloop"
        BY Parts DEF HandsOut
      <4> QED BY <1>3, <2>1, <4>1, BodiesEnd
    <3>2. At(k + 1 + Main[k].size) - 2 = At(k + Main[k].size)
      BY <1>3, <3>1, TestsInNat DEF At
    <3>3. k + 1 \in 1 .. 196
      BY <1>3, <3>1
    <3>4. Place[At(k + 1)] = "tests" /\ Place[At(k + Main[k].size)] = "tests"
      BY <3>1, <3>3, TestPlaces DEF TestSpecAt
    <3> QED BY <1>7, <2>1, <3>2, <3>4
  <2>2. ASSUME NEW j \in Loops, ~(Main[k].kind = "hwloop" /\ Main[k].loop = j)
        PROVE  Place[hwlp_start_q'[j]] \in {"beside", "tests"}
               /\ (hwlp_end_q'[j] = 0 \/ Place[hwlp_end_q'[j] - 2] \in {"beside", "tests"})
    BY <1>7, <2>2 DEF LoopsApart
  <2> QED BY <2>1, <2>2 DEF LoopsApart
<1> QED BY <1>10, <1>15, <1>16, <1>17

--------------------------------------------------------------------------------
\* The tests keep the constraints of hardware loops.

\* Loop j lies over the n instructions behind the ith.
LiesOver(j, i, n) == IsBody(i, j, n) /\ hwlp_start_q[j] = At(i + 1) /\ hwlp_end_q[j] = At(i + 1 + n)

\* The software beside the tests is legal, and the debugger does not step through a CSR
\* instruction at the end of a loop before its last round (cf. LoopsAreLegal).
KeepsToTheRules ==
    /\ Place[Resume] = "beside" => LoopsAreLegal
    /\ Place[hart.pc] = "tests" /\ Program[hart.pc].kind = "csr" /\ debug_q.step /\ ~hart.debug =>
         \A j \in Loops : IsLast(j, hart.pc) => hwlp_counter_q[j] = 1

\* What the invariants say of the loops in or apart from the tests.
LegalHere ==
    /\ FlowType /\ LoopsAreCounted /\ KeepsToTheRules
    /\ \A j \in Loops : OverBody(j)
    /\ Place[hart.pc] \in {"before", "tests", "behind", "handler", "debugger"}
    /\ Place[hart.pc] = "tests" => ~hart.debug /\ \E k : hart.pc = At(k) /\ TestsClaim(k)

\* What those invariants say gives it.
LEMMA IsLegalHere ==
    ASSUME FlowType, LoopsAreCounted, ProgramInv, KeepsToTheRules, Place[Resume] # "beside"
    PROVE  LegalHere
<1> USE DEF ProgramInv
<1>1. \A j \in Loops : OverBody(j)
  BY DEF ResumeInv
<1>2. CASE hart.debug
  BY <1>1, <1>2 DEF HandlerInv, LegalHere
<1>3. CASE ~hart.debug
  <2>1. Pc = hart.pc /\ Place[hart.pc] \in InProgram \cup {"handler"}
    BY <1>3 DEF HandlerInv, Pc
  <2>2. Place[hart.pc] \in InProgram => Resume = hart.pc
    BY <2>1, InProgramAt
  <2>3. Place[hart.pc] = "tests" => \E k : hart.pc = At(k) /\ TestsClaim(k)
    BY <2>2 DEF ResumeInv, InProgram
  <2> QED BY <1>1, <1>3, <2>1, <2>2, <2>3 DEF LegalHere, InProgram
<1> QED BY <1>2, <1>3

\* The end of the memory is far.
LEMMA FarFromTheEnd ==
    ASSUME LegalHere
    PROVE  /\ hart.pc \in Nat /\ hart.pc + 2 < HALFWORDS /\ Plus(hart.pc, 2) = hart.pc + 2
           /\ hart.pc + 4 < HALFWORDS => Plus(hart.pc, 4) = hart.pc + 4
           /\ Place[hart.pc] # "nothing"
<1>1. hart.pc \in 0 .. HALFWORDS - 1 /\ HALFWORDS \in Nat /\ HALFWORDS > 4
  BY HartFields, Size DEF LegalHere, Addresses
<1>2. hart.pc # HALFWORDS - 2 /\ hart.pc # HALFWORDS - 1
  BY LayoutAssumption DEF LegalHere
<1>3. hart.pc \in Nat /\ hart.pc + 2 < HALFWORDS
  BY <1>1, <1>2
<1> QED BY <1>1, <1>3 DEF Plus, LegalHere

\* Addresses in the tests.
LEMMA InTheTests ==
    /\ TESTS \in Nat /\ HALFWORDS \in Nat /\ At(198) < HALFWORDS
    /\ \A addr \in At(1) .. At(197) - 1 : addr % 2 = 0 => \E k \in 1 .. 196 : addr = At(k)
    /\ \A addr \in At(1) .. At(197) - 1 : addr % 2 = 1 => Place[addr] = "nothing"
    /\ \A k \in 1 .. 196 : At(k) \in Wide
<1>1. Len(Main) = 196
  BY Parts DEF Length
<1>2. TESTS \in Nat /\ TESTS % 2 = 0 /\ HALFWORDS \in Nat /\ At(198) < HALFWORDS
  BY <1>1, LayoutAssumption, Size
<1>3. \A k \in 1 .. 196 : At(k) \in Wide
  BY <1>1, LayoutAssumption
<1>4. \A addr \in TESTS .. At(197) : addr % 2 = 1 => Place[addr] = "nothing"
  BY <1>1, LayoutAssumption
<1>5. ASSUME NEW addr \in At(1) .. At(197) - 1, addr % 2 = 0 PROVE \E k \in 1 .. 196 : addr = At(k)
  <2> DEFINE t == TESTS \div 2
             a == addr \div 2
  <2>1. TESTS = 2 * t /\ addr = 2 * a /\ t \in Int /\ a \in Int
    BY <1>2, <1>5 DEF At
  <2>2. addr >= TESTS /\ addr < TESTS + 392
    BY <1>2, <1>5 DEF At
  <2> HIDE DEF t, a
  <2>3. a - t + 1 \in 1 .. 196 /\ addr = At(a - t + 1)
    BY <2>1, <2>2 DEF At
  <2> QED BY <2>3
<1> QED BY <1>2, <1>3, <1>4, <1>5 DEF At

\* The places of a loop and of the instruction the hart is at.
LEMMA LoopPlaces ==
    ASSUME LegalHere, NEW j \in Loops
    PROVE  /\ Active(j) => \E i, n : LiesOver(j, i, n)
           /\ IsLast(j, hart.pc) => \E i, n : LiesOver(j, i, n) /\ hart.pc = At(i + n)
           /\ Within(j, hart.pc) => \E i, n, k : LiesOver(j, i, n) /\ k \in i + 1 .. i + n /\ hart.pc = At(k)
<1>1. OverBody(j) /\ (Off(j) => ~Active(j))
  BY DEF LegalHere, LoopsAreCounted, Active, Off
<1>2. /\ hart.pc \in Nat /\ hart.pc + 2 < HALFWORDS /\ Plus(hart.pc, 2) = hart.pc + 2
      /\ Place[hart.pc] # "nothing"
  BY FarFromTheEnd
<1>3. CASE hwlp_start_q[j] = 0 /\ hwlp_end_q[j] = 0 /\ Off(j)
  BY <1>1, <1>2, <1>3 DEF IsLast, Within
<1>4. CASE \E i, n : LiesOver(j, i, n)
  <2>1. PICK i, n : LiesOver(j, i, n)
    BY <1>4
  <2>2. i \in 1 .. 196 /\ n \in 3 .. 11 /\ i + n \in 1 .. 196
    BY <2>1, BodyIs DEF LiesOver
  <2>3. IsLast(j, hart.pc) => hart.pc = At(i + n)
    BY <1>2, <2>1, <2>2, InTheTests DEF IsLast, LiesOver, At
  <2>4. ASSUME Within(j, hart.pc) PROVE \E k : k \in i + 1 .. i + n /\ hart.pc = At(k)
    <3>1. At(i + 1) <= hart.pc /\ hart.pc + 2 <= At(i + 1 + n)
      BY <1>2, <2>1, <2>4 DEF Within, LiesOver
    <3>2. hart.pc \in At(1) .. At(197) - 1
      BY <1>2, <2>2, <3>1, InTheTests DEF At
    <3>3. hart.pc % 2 = 0
      <4>1. hart.pc % 2 \in {0, 1}
        BY <1>2
      <4> QED BY <1>2, <3>2, <4>1, InTheTests
    <3>4. PICK k \in 1 .. 196 : hart.pc = At(k)
      BY <3>2, <3>3, InTheTests
    <3>5. k \in i + 1 .. i + n
      BY <2>2, <3>1, <3>4, InTheTests DEF At
    <3> QED BY <3>4, <3>5
  <2> QED BY <2>1, <2>3, <2>4
<1> QED BY <1>1, <1>3, <1>4 DEF OverBody, LiesOver

\* What stands in the body of a loop.
LEMMA BodyLegal ==
    ASSUME LegalHere, NEW j \in Loops, Within(j, hart.pc)
    PROVE  BodyIsLegal(j, hart.pc)
<1>1. PICK i, n, k : LiesOver(j, i, n) /\ k \in i + 1 .. i + n /\ hart.pc = At(k)
  BY LoopPlaces
<1>2. /\ i \in 1 .. 196 /\ n \in 3 .. 11 /\ i + n \in 1 .. 196 /\ k \in 1 .. 196 /\ k \notin {40, 55}
  BY <1>1, BodyIs DEF LiesOver
<1>3. /\ TestSpecAt(k) /\ InstructionSpec(k) /\ SiteSpec(k)
  BY <1>1, <1>2, TestPlaces, TestInstruction, Sites
<1>4. hart.pc % 2 = 0
  BY <1>1, <1>3 DEF TestSpecAt
<1>5. ASSUME NEW addr \in hwlp_start_q[j] .. hwlp_end_q[j] - 1, addr % 2 = 0 PROVE addr \in Wide
  <2>1. addr \in At(1) .. At(197) - 1
    BY <1>1, <1>2, InTheTests DEF LiesOver, At
  <2> QED BY <1>5, <2>1, InTheTests
<1>6. Program[hart.pc].kind \notin {"jal", "jalr", "branch", "fencei", "mret", "dret", "wfi"}
  BY <1>2, <1>3 DEF TestSpecAt, InstructionSpec, OfTheTests, SiteSpec
<1>7. ASSUME Program[hart.pc].kind = "hwloop", Program[hart.pc].loop = j PROVE FALSE
  <2>1. IsBody(k, j, Main[k].size)
    BY <1>3, <1>7 DEF InstructionSpec, SiteSpec
  <2>2. (k = i) \/ i + n < k \/ k + Main[k].size < i
    BY <1>1, <2>1, BodiesApart DEF LiesOver
  <2>3. Main[k].size \in 3 .. 11
    BY <2>1, BodyIs
  <2> QED BY <1>1, <1>2, <2>2, <2>3
<1> QED BY <1>4, <1>5, <1>6, <1>7 DEF BodyIsLegal

\* The CSR instruction at the end of a loop stands in a loop in use.
LEMMA CsrInUse ==
    ASSUME LegalHere, NEW j \in Loops, IsLast(j, hart.pc),
           Program[hart.pc].kind \in {"csr", "mie", "skip", "dcsr"}
    PROVE  Active(j) /\ (debug_q.step /\ ~hart.debug => hwlp_counter_q[j] = 1)
<1>1. PICK i, n : LiesOver(j, i, n) /\ hart.pc = At(i + n)
  BY LoopPlaces
<1>2. i + n \in 1 .. 196
  BY <1>1, BodyIs DEF LiesOver
<1>3. TestSpecAt(i + n) /\ InstructionSpec(i + n) /\ SiteSpec(i + n)
  BY <1>1, <1>2, TestPlaces, TestInstruction, Sites
<1>4. Place[hart.pc] = "tests" /\ Program[hart.pc].kind = "csr"
  BY <1>1, <1>3 DEF TestSpecAt, InstructionSpec, OfTheTests
<1>5. i + n = 147 /\ j = 0
  <2>1. i + n \in {131, 133, 142, 144, 147}
    BY <1>3, <1>4 DEF InstructionSpec, SiteSpec
  <2> QED BY <1>1, <2>1, BodyIs DEF LiesOver
<1>6. TestsClaim(147)
  <2>1. PICK k : hart.pc = At(k) /\ TestsClaim(k)
    BY <1>4 DEF LegalHere
  <2>2. k \in 1 .. 196
    BY <2>1 DEF TestsClaim, Between
  <2>3. k = 147
    BY <1>1, <1>5, <2>1, <2>2, InTheTests DEF At
  <2> QED BY <2>1, <2>3
<1>7. Interrupt1(120, 27)
  BY <1>6 DEF TestsClaim, Between
<1>8. hart.lpcount[0] > 0
  BY <1>7, RoundsAssumption DEF Interrupt1, Loop
<1> QED BY <1>4, <1>5, <1>8 DEF LegalHere, LoopsAreCounted, Active, KeepsToTheRules

\* Two loops.
LEMMA TwoLoops ==
    ASSUME LegalHere
    PROVE  /\ Active(0) /\ Active(1) => LoopsAreApart
           /\ Active(1) /\ IsLast(1, hart.pc) => ~Within(0, hart.pc)
           /\ \A k, j \in Loops : IsLast(k, hart.pc) => ~IsLastButOne(j, hart.pc)
<1>1. 0 \in Loops /\ 1 \in Loops /\ TESTS \in Nat /\ HALFWORDS \in Nat /\ At(198) < HALFWORDS
  BY InTheTests DEF Loops
<1>2. ASSUME Active(0), Active(1) PROVE LoopsAreApart
  <2>1. PICK i, n : LiesOver(0, i, n)
    BY <1>1, <1>2, LoopPlaces
  <2>2. PICK m, p : LiesOver(1, m, p)
    BY <1>1, <1>2, LoopPlaces
  <2>3. i + n < m \/ m + p < i \/ (m < i /\ i + n + 2 <= m + p)
    BY <2>1, <2>2, BodiesApart DEF LiesOver
  <2>4. i \in Nat /\ n \in Nat /\ m \in Nat /\ p \in Nat
    BY <2>1, <2>2, BodyIs DEF LiesOver
  <2> QED BY <1>1, <2>1, <2>2, <2>3, <2>4 DEF LoopsAreApart, LiesOver, At
<1>3. ASSUME IsLast(1, hart.pc), Within(0, hart.pc) PROVE FALSE
  <2>1. PICK i, n, k : LiesOver(0, i, n) /\ k \in i + 1 .. i + n /\ hart.pc = At(k)
    BY <1>1, <1>3, LoopPlaces
  <2>2. PICK m, p : LiesOver(1, m, p) /\ hart.pc = At(m + p)
    BY <1>1, <1>3, LoopPlaces
  <2>3. i + n < m \/ m + p < i \/ (m < i /\ i + n + 2 <= m + p)
    BY <2>1, <2>2, BodiesApart DEF LiesOver
  <2>4. i \in Nat /\ n \in Nat /\ m \in Nat /\ p \in Nat
    BY <2>1, <2>2, BodyIs DEF LiesOver
  <2>5. k = m + p
    BY <1>1, <2>1, <2>2, <2>4 DEF At
  <2> QED BY <2>1, <2>3, <2>4, <2>5
<1>4. ASSUME NEW k \in Loops, NEW j \in Loops, IsLast(k, hart.pc), IsLastButOne(j, hart.pc) PROVE FALSE
  <2>1. PICK m, p : LiesOver(k, m, p) /\ hart.pc = At(m + p)
    BY <1>4, LoopPlaces
  <2>2. m \in Nat /\ p \in Nat /\ m + p \in 1 .. 196
    BY <2>1, BodyIs DEF LiesOver
  <2>3. hart.pc + 4 < HALFWORDS
    BY <1>1, <2>1, <2>2 DEF At
  <2>4. hwlp_end_q[j] = At(m + p + 2) /\ hwlp_end_q[j] # 0
    BY <1>1, <1>4, <2>1, <2>2, <2>3, FarFromTheEnd DEF IsLastButOne, At
  <2>5. PICK i, n : LiesOver(j, i, n)
    BY <2>4 DEF LegalHere, OverBody, LiesOver
  <2>6. i \in Nat /\ n \in Nat
    BY <2>5, BodyIs DEF LiesOver
  <2>7. i + n = m + p + 1
    BY <1>1, <2>2, <2>4, <2>5, <2>6 DEF LiesOver, At
  <2> QED BY <2>1, <2>5, <2>7, BodiesApart DEF LiesOver
<1> QED BY <1>2, <1>3, <1>4

\* The tests set a loop up ahead of its body.
LEMMA SetUpAhead ==
    ASSUME LegalHere, Program[hart.pc].kind = "hwloop"
    PROVE  DefinesAhead(hart.pc)
<1>1. Place[hart.pc] = "tests"
  <2>1. hart.pc \in Addresses
    BY HartFields DEF LegalHere
  <2>2. Place[hart.pc] # "handler"
    <3>1. Place[hart.pc] = "handler" => Program[hart.pc] \in {[kind |-> "skip"], [kind |-> "mret"]}
      BY <2>1, Handlers
    <3> QED BY <3>1
  <2> QED BY <2>1, <2>2, Places DEF LegalHere, BeforeSpec, BehindSpec, DebuggerSpec
<1>2. PICK k : hart.pc = At(k) /\ TestsClaim(k)
  BY <1>1 DEF LegalHere
<1>3. k \in 1 .. 196
  BY <1>2 DEF TestsClaim, Between
<1>4. InstructionSpec(k) /\ Main[k].kind = "hwloop"
  BY <1>2, <1>3, TestInstruction DEF InstructionSpec
<1>5. "start" \in Program[hart.pc].fields /\ Program[hart.pc].start = hart.pc + 2
  BY <1>2, <1>4 DEF InstructionSpec
<1>6. hart.pc \in Nat
  BY FarFromTheEnd
<1>7. 2 * (Program[hart.pc].start \div 2) > hart.pc
  BY <1>5, <1>6
<1> HIDE DEF LegalHere
<1> QED BY <1>5, <1>6, <1>7 DEF DefinesAhead

\* LoopsAreLegal holds in the tests and what surrounds them.
LegalFactHere == FlowType /\ LoopsAreCounted /\ ProgramInv /\ KeepsToTheRules => LoopsAreLegal

\* It does.
LEMMA TestsAreLegal == LegalFactHere
<1> SUFFICES ASSUME FlowType, LoopsAreCounted, ProgramInv, KeepsToTheRules PROVE LoopsAreLegal
  BY DEF LegalFactHere
<1>1. CASE Place[Resume] = "beside"
  BY <1>1 DEF KeepsToTheRules
<1>2. CASE Place[Resume] # "beside"
  <2>1. LegalHere
    BY <1>2, IsLegalHere
  <2>2. ASSUME NEW k \in Loops, Active(k) PROVE hwlp_start_q[k] + 6 <= hwlp_end_q[k]
    <3>1. PICK i, n : LiesOver(k, i, n)
      BY <2>1, <2>2, LoopPlaces
    <3>2. i \in Nat /\ n \in 3 .. 11
      BY <3>1, BodyIs DEF LiesOver
    <3> QED BY <3>1, <3>2, InTheTests DEF LiesOver, At
  <2>3. hart.pc + 2 < HALFWORDS
    BY <2>1, FarFromTheEnd
  <2> QED BY <2>1, <2>2, <2>3, BodyLegal, CsrInUse, TwoLoops, SetUpAhead DEF LoopsAreLegal
<1> QED BY <1>1, <1>2

\* It does after a step.
LEMMA TestsAreLegalNext == LegalFactHere'
BY TestsAreLegal, PTL

--------------------------------------------------------------------------------
\* The tests leave the expected results.

\* An instruction of the program.
LEMMA RetireInProgram ==
    ASSUME FlowInv, FlowInv', HartInv, ProgramInv, Enables, Effects,
           Retire(hwlp_start_q, hwlp_end_q, ex'.taken), ~Refused, LoopsWritten, IntoEffect
    PROVE  ProgramInv'
<1>1. CASE hart.debug
  BY <1>1, RetireInDebugger
<1>2. CASE ~hart.debug
  <2>1. Place[hart.pc] \in InProgram \cup {"handler"}
    BY <1>2 DEF ProgramInv, HandlerInv, Pc
  <2> QED BY <1>2, <2>1, RetireInHandler, RetireBefore, RetireBeside, RetireInTests, RetireBehind DEF InProgram
<1> QED BY <1>1, <1>2

\* Every cycle keeps the invariant of the program.
LEMMA ProgramNext ==
    ASSUME FlowInv, FlowInv', HartInv, LoopsAreLegal, ProgramInv, Next, Effects
    PROVE  ProgramInv'
<1>1. Moves /\ Enables
  BY NextMoves
<1>2. CASE NoneRuns /\ hart' = hart
  BY <1>1, <1>2, CycleWithoutStep
<1>3. CASE NoneRuns /\ Interrupt /\ mie_q /\ ~mie_q' /\ ~hart.debug
  BY <1>3, InterruptStep
<1>4. CASE NoneRuns /\ Exception /\ Refused /\ (~hart.debug => ~mie_q')
  BY <1>1, <1>4, ExceptionInDebugger, ExceptionInProgram
<1>5. CASE NoneRuns /\ Halt
  BY <1>1, <1>5, HaltStep
<1>6. CASE Retire(hwlp_start_q, hwlp_end_q, ex'.taken) /\ LoopsAreCounted' /\ ~Refused /\ LoopsWritten /\ IntoEffect
  BY <1>1, <1>6, RetireInProgram
<1> QED BY <1>1, <1>2, <1>3, <1>4, <1>5, <1>6 DEF Moves

\* A cycle in which nothing keeps the core waiting is one of the flow.
LEMMA SwiftIsNext == SwiftCycle => Next
<1>1. SwiftInputs \subseteq Inputs
  BY DEF SwiftInputs
<1>2. /\ InReset(SwiftInputs, {TRUE}) => InReset(Inputs, BOOLEAN)
      /\ InBoot(SwiftInputs) => InBoot(Inputs)
      /\ InWait(SwiftInputs) => InWait(Inputs)
      /\ InSleep(SwiftInputs) => InSleep(Inputs)
      /\ InFirst(SwiftInputs) => InFirst(Inputs)
  BY <1>1 DEF InReset, InBoot, InWait, InSleep, InFirst
<1>3. /\ InDecode(SwiftInputs) => InDecode(Inputs)
      /\ InFlushEx(SwiftInputs, {TRUE}) => InFlushEx(Inputs, BOOLEAN)
      /\ InFlushWb(SwiftInputs) => InFlushWb(Inputs)
      /\ InXret(SwiftInputs) => InXret(Inputs)
  BY <1>1 DEF InDecode, InFlushEx, InFlushWb, InXret
<1>4. /\ InDbgWait(SwiftInputs) => InDbgWait(Inputs)
      /\ InDbgFlush(SwiftInputs) => InDbgFlush(Inputs)
      /\ InDbgId(SwiftInputs) => InDbgId(Inputs)
      /\ InDbgIf(SwiftInputs) => InDbgIf(Inputs)
  BY <1>1 DEF InDbgWait, InDbgFlush, InDbgId, InDbgIf
<1> QED BY <1>2, <1>3, <1>4 DEF SwiftCycle, Next

\* A cycle of the tests is one of the flow with the effects of its instructions.
LEMMA TestCycle == TestNext => Next /\ Effects
BY SwiftIsNext DEF TestNext, BeatNext

\* The tests are a run of the flow.
LEMMA TestsFlow == TestSpec => Spec
<1>1. TestInit => Init
  BY DEF TestInit, BeatInit
<1>2. [TestNext]_testVars => [Next]_vars
  BY TestCycle DEF testVars
<1> QED BY <1>1, <1>2, PTL DEF TestSpec, Spec

\* The core boots before the tests.
LEMMA TestsBegin == TestInit => ProgramInv
<1> SUFFICES ASSUME TestInit PROVE ProgramInv
  OBVIOUS
<1>1. /\ hart.pc = BOOT /\ hart.debug = FALSE /\ hart.lpcount = [k \in {0, 1} |-> 0] /\ names = NamesInit
      /\ \A j \in Loops : hwlp_start_q[j] = 0 /\ hwlp_end_q[j] = 0
  BY DEF TestInit, BeatInit, Init, HartInit, HwloopInit
<1>2. Place[BOOT] = "before" /\ Place[0] = "beside" /\ BOOT \in Addresses
  BY LayoutAssumption, Vectors
<1>3. Pc = BOOT /\ Resume = BOOT
  BY <1>1, <1>2, Handlers DEF Pc, Resume
<1>4. Shape
  BY <1>1 DEF Shape, NamesInit
<1>5. LoopsApart
  BY <1>1, <1>2 DEF LoopsApart
<1>6. HandlerInv
  BY <1>1, <1>2, <1>3 DEF HandlerInv, InProgram
<1>7. ResumeInv
  BY <1>1, <1>2, <1>3 DEF ResumeInv, InProgram, Off, Loops, OverBody
<1> QED BY <1>4, <1>5, <1>6, <1>7 DEF ProgramInv

\* What the invariant says of an instruction that hands a result out.
LEMMA ResultsAreRight == FlowInv /\ HartInv /\ ProgramInv => ResultIsExpected
<1> SUFFICES ASSUME FlowInv, HartInv, ProgramInv,
                    ctrl_fsm_cs \in {"DECODE", "DECODE_HWLOOP"}, instr_valid_id, ~branch_taken_ex,
                    "result" \in DOMAIN Program[pc_id]
             PROVE  names[Program[pc_id].effect.a] = Program[pc_id].result
  BY DEF ResultIsExpected
<1> USE DEF FlowInv, ProgramInv
<1>1. pc_id = hart.pc
  BY Valid DEF ValidSpec
<1>2. hart.pc \in Addresses /\ ~IsApart(hart.pc)
  BY <1>1, HartFields DEF IsApart
<1>3. ~hart.debug
  BY <1>2, Places DEF HandlerInv, DebuggerSpec
<1>4. Place[hart.pc] \in InProgram \cup {"handler"} /\ Pc = hart.pc
  BY <1>3 DEF HandlerInv, Pc
<1>5. Place[hart.pc] # "handler"
  <2>1. Place[hart.pc] = "handler" => Program[hart.pc] \in {[kind |-> "skip"], [kind |-> "mret"]}
    BY <1>2, Handlers
  <2> QED BY <1>2, <2>1 DEF IsApart
<1>6. Place[hart.pc] = "tests" /\ Resume = hart.pc
  BY <1>2, <1>4, <1>5, Places, InProgramAt DEF InProgram, BeforeSpec, BesideSpec, BehindSpec
<1>7. PICK k : hart.pc = At(k) /\ TestsClaim(k)
  BY <1>6 DEF ResumeInv
<1>8. k \in 1 .. 196
  BY <1>7 DEF TestsClaim, Between
<1>9. "result" \in DOMAIN Main[k] /\ Program[hart.pc] = Main[k]
  BY <1>1, <1>7, <1>8, TestInstruction DEF InstructionSpec
<1> QED BY <1>1, <1>7, <1>9, TestsResult

\* What holds of the tests in every state, and by which it holds in the next one.
TestsInv == ProgramInv /\ HartInv /\ LoopsAreLegal

\* Every step keeps what is known of the program.
LEMMA ProgramKept ==
    ASSUME FlowInv, FlowInv', TestsInv, [TestNext]_testVars
    PROVE  ProgramInv' /\ LoopsAreCounted'
<1> USE DEF TestsInv
<1>1. CASE TestNext
  <2>1. Next /\ Effects
    BY <1>1, TestCycle
  <2> QED BY <2>1, ProgramNext, NextMoves, MovesCount
<1>2. CASE UNCHANGED testVars
  <2>1. /\ names' = names /\ hart' = hart /\ hwlp_start_q' = hwlp_start_q /\ hwlp_end_q' = hwlp_end_q
        /\ hwlp_counter_q' = hwlp_counter_q /\ mie_q' = mie_q /\ ex' = ex
    BY <1>2 DEF testVars, vars, hartVars, hwloopVars, trapVars
  <2>2. Resume' = Resume /\ Pc' = Pc /\ Undisturbed
    BY <2>1 DEF Resume, Pc, Outer, Undisturbed
  <2>3. HandlerInv'
    BY <2>1, <2>2 DEF ProgramInv, HandlerInv
  <2>4. LoopsAreCounted'
    BY <2>1 DEF HartInv, SavedInv, LoopsAreCounted
  <2> QED BY <2>2, <2>3, <2>4, Rests DEF ProgramInv
<1> QED BY <1>1, <1>2

\* Every step keeps it, the constraints of hardware loops by what the step leads to.
LEMMA TestsInvNext ==
    ASSUME FlowInv, FlowInv', TestsInv, KeepsToTheRules', [TestNext]_testVars
    PROVE  TestsInv'
<1> USE DEF TestsInv
<1>1. ProgramInv' /\ LoopsAreCounted'
  BY ProgramKept
<1>2. LoopsAreLegal'
  <2>1. FlowType'
    BY DEF FlowInv
  <2> QED BY <1>1, <2>1, TestsAreLegalNext DEF LegalFactHere
<1>3. [Next]_vars
  BY TestCycle DEF testVars
<1> QED BY <1>1, <1>2, <1>3, NextKeepsHart

\* It holds throughout.
LEMMA TestsInvariant == TestSpec /\ []KeepsToTheRules => []FlowInv /\ []TestsInv
<1>1. TestInit /\ FlowInv /\ KeepsToTheRules => TestsInv
  <2> SUFFICES ASSUME TestInit, FlowInv, KeepsToTheRules PROVE TestsInv
    OBVIOUS
  <2>1. ProgramInv /\ HartInv
    BY TestsBegin, InitHart DEF TestInit, BeatInit
  <2>2. LoopsAreCounted /\ FlowType
    BY <2>1 DEF HartInv, SavedInv, FlowInv
  <2> QED BY <2>1, <2>2, TestsAreLegal DEF TestsInv, LegalFactHere
<1>2. FlowInv /\ FlowInv' /\ TestsInv /\ KeepsToTheRules' /\ [TestNext]_testVars => TestsInv'
  BY TestsInvNext
<1>3. TestSpec => []FlowInv
  BY TestsFlow, FlowInvariant, PTL
<1> QED BY <1>1, <1>2, <1>3, PTL DEF TestSpec

\* LoopsAreLegal: the tests keep every constraint of hardware loops, whatever interrupts, traps
\* and debug requests lead out of them and back, if the software beside them does and the
\* debugger leaves the one CSR instruction at the end of a loop alone.
THEOREM LoopTestsAreLegal == TestSpec /\ []KeepsToTheRules => []LoopsAreLegal
BY TestsInvariant, PTL DEF TestsInv

\* FollowsTheHart: the core runs the tests and what surrounds them in order.
THEOREM LoopTestsInOrder == TestSpec /\ []KeepsToTheRules => []FollowsTheHart
BY TestsFlow, LoopTestsAreLegal, HartIsFollowed, PTL

\* ResultIsExpected: whatever the rounds of the loops, the layout of the software around them, the
\* stalls, interrupts, traps and debug requests, every test leaves the result the header promises.
THEOREM LoopTestsSucceed == TestSpec /\ []KeepsToTheRules => []ResultIsExpected
<1>1. FlowInv /\ TestsInv => ResultIsExpected
  BY ResultsAreRight DEF TestsInv
<1> QED BY <1>1, TestsInvariant, PTL

--------------------------------------------------------------------------------
\* Where nothing but the tests runs.

\* Nothing but the tests runs, and the debugger does not step.
OnlyTests ==
    /\ \A addr \in Addresses : Place[addr] = "before" => \A to \in LeadsTo(addr) : Place[to] # "beside"
    /\ \A setting \in DEBUG_SETTINGS : ~setting.step

\* Then the rules are kept.
RulesFact == OnlyTests /\ ProgramInv /\ ~debug_q.step => KeepsToTheRules
\* They are, for loops stay off or over a body of the tests, and nobody steps.
LEMMA RulesAreKept == RulesFact
BY DEF RulesFact, OnlyTests, ProgramInv, ResumeInv, MayGoBeside, KeepsToTheRules

\* Also after a step.
LEMMA RulesAreKeptNext == RulesFact'
BY RulesAreKept, PTL

\* The settings of the debugger change by what it writes.
SettingsKept == debug_q' = IF ex.kind = "dcsr" THEN ex.value ELSE debug_q
\* Every edge leaves it at that.
LEMMA EdgeSettings ==
    ASSUME NEW in, NEW out, Edge(in, out)
    PROVE  SettingsKept
<1>1. PICK into_ex : EdgeParts(in, out, into_ex)
  BY EdgeHasParts
<1>2. TrapEdge(out.save, out.debug_save, out.debug_cause, exception_pc(out), out.restore, ex, in.irq)
  BY <1>1 DEF EdgeParts
<1> QED BY <1>2 DEF TrapEdge, SettingsKept

\* So it is in every cycle.
LEMMA NextSettings == Next => SettingsKept
<1>1. Next => \E in, out : Edge(in, out)
  <2>1. InReset(Inputs, BOOLEAN) \/ InBoot(Inputs) \/ InWait(Inputs) \/ InSleep(Inputs) \/ InFirst(Inputs)
          => \E in, out : Edge(in, out)
    BY DEF InReset, InBoot, InWait, InSleep, InFirst
  <2>2. InDecode(Inputs) => \E in, out : Edge(in, out)
    BY DEF InDecode
  <2>3. InFlushEx(Inputs, BOOLEAN) \/ InFlushWb(Inputs) \/ InXret(Inputs) => \E in, out : Edge(in, out)
    BY DEF InFlushEx, InFlushWb, InXret
  <2>4. InDbgWait(Inputs) \/ InDbgFlush(Inputs) \/ InDbgId(Inputs) \/ InDbgIf(Inputs) => \E in, out : Edge(in, out)
    BY DEF InDbgWait, InDbgFlush, InDbgId, InDbgIf
  <2> QED BY <2>1, <2>2, <2>3, <2>4 DEF Next
<1> QED BY <1>1, EdgeSettings

\* The debugger never steps.
LEMMA NeverSteps ==
    ASSUME OnlyTests, FlowType, ~debug_q.step, [TestNext]_testVars
    PROVE  ~debug_q'.step
<1>1. CASE TestNext
  <2>1. SettingsKept
    BY <1>1, TestCycle, NextSettings
  <2>2. ex.kind = "dcsr" => ex.value \in DEBUG_SETTINGS
    BY DEF FlowType, ExType
  <2> QED BY <2>1, <2>2 DEF SettingsKept, OnlyTests
<1>2. CASE UNCHANGED testVars
  BY <1>2 DEF testVars, vars, trapVars
<1> QED BY <1>1, <1>2

\* So where nothing but the tests runs the constraints of hardware loops hold, the core runs in
\* order, and the results are the expected ones, without a condition on the states.
COROLLARY OnlyTestsSucceed ==
    ASSUME OnlyTests
    PROVE  TestSpec => [](LoopsAreLegal /\ FollowsTheHart /\ ResultIsExpected)
<1> DEFINE Inv == TestsInv /\ ~debug_q.step
<1>1. TestInit /\ FlowInv => Inv
  <2> SUFFICES ASSUME TestInit, FlowInv PROVE Inv
    OBVIOUS
  <2>1. ProgramInv /\ HartInv
    BY TestsBegin, InitHart DEF TestInit, BeatInit
  <2>2. LoopsAreCounted /\ FlowType
    BY <2>1 DEF HartInv, SavedInv, FlowInv
  <2>3. ~debug_q.step
    BY DEF TestInit, BeatInit, Init, TrapInit
  <2>4. KeepsToTheRules
    BY <2>1, <2>3, RulesAreKept DEF RulesFact
  <2> QED BY <2>1, <2>2, <2>3, <2>4, TestsAreLegal DEF TestsInv, LegalFactHere
<1>2. FlowInv /\ FlowInv' /\ Inv /\ [TestNext]_testVars => Inv'
  <2> SUFFICES ASSUME FlowInv, FlowInv', Inv, [TestNext]_testVars PROVE Inv'
    OBVIOUS
  <2>1. ProgramInv' /\ ~debug_q'.step
    BY ProgramKept, NeverSteps DEF FlowInv
  <2>2. KeepsToTheRules'
    BY <2>1, RulesAreKeptNext DEF RulesFact
  <2> QED BY <2>1, <2>2, TestsInvNext
<1>3. TestSpec => []FlowInv
  BY TestsFlow, FlowInvariant, PTL
<1>4. FlowInv /\ Inv => KeepsToTheRules
  BY RulesAreKept DEF TestsInv, RulesFact
<1> HIDE DEF Inv
<1>5. TestSpec => []KeepsToTheRules
  BY <1>1, <1>2, <1>3, <1>4, PTL DEF TestSpec
<1> QED BY <1>5, LoopTestsAreLegal, LoopTestsInOrder, LoopTestsSucceed, PTL
================================================================================
