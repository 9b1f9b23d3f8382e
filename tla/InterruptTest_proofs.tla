------------------------ MODULE InterruptTest_proofs ------------------------
(***************************************************************************)
(* The interrupt test, for every set of random words, every number of      *)
(* cycles between interrupts and every stall: main and the handlers share  *)
(* mmstatus without a lock, and neither disturbs the other; every register *)
(* keeps its range; a line that was served is gone from mip before the     *)
(* core can take it again; and no comparison of the program fails.  The    *)
(* generator appears in the last two only, through what Cycle says of it.  *)
(***************************************************************************)
EXTENDS InterruptTest, TLAPS, WellFoundedInduction

Waiting  == {"2wait", "3wait"}
Enabling == {"2enable", "3enable"}
Disabling == {"1disable", "2disable", "3disable", "5disable"}
Calls == Enabling \union Disabling \union {"5enable", "5end"}
Bombing == {"5mode", "5enable", "5mult", "5end", "5check", "done", "err5"}

\* irq_mode tells the tests apart: it is 0 until test 5, RANDOM in it, and STANDARD only
\* while a handler of test 5 makes the generator lower its lines.
PhaseInv ==
    /\ irq_mode = OFF <=> main \notin Bombing
    /\ irq_mode \in {OFF, STANDARD, RANDOM}
    /\ irq_mode = STANDARD => handler \in {"std_write", "rnd"}
    /\ handler \in {"csrr", "mask", "csrw"} => irq_mode = OFF
    /\ handler \in {"mip", "std", "std_write", "rnd", "rnd_write"} => irq_mode # OFF

\* A handler runs with interrupts disabled, and those of tests 2 and 3 return that way.
MaskedInv ==
    /\ handler # "none" => MSTATUS_MIE_BIT \notin mstatus
    /\ handler \in {"mask", "csrw"} => MSTATUS_MIE_BIT \notin mmstatus
    /\ handler = "csrw" => MSTATUS_MPIE_BIT \notin mmstatus
    /\ handler \in {"epilogue", "mret"} /\ irq_mode = OFF => MSTATUS_MPIE_BIT \notin mstatus

\* test keeps the word that main samples.
TestInv == "prev" \in DOMAIN test

\* Before test 5 interrupts are only enabled while main waits for a handler that has not run.
EnabledInv ==
    /\ irq_mode = OFF /\ (handler # "none" \/ MSTATUS_MIE_BIT \in mstatus)
       => main \in Waiting /\ csr_step = "read"
    /\ irq_mode = OFF /\ handler = "none" /\ MSTATUS_MIE_BIT \in mstatus
       => test.prev = irq_pending32_std
    /\ main \in Enabling => test.prev = irq_pending32_std

\* mstatus_enable and mstatus_disable run to their ends, and the latter is about to write a
\* word without the bit.
CallInv == main \notin Calls => csr_step = "read"
DisableInv ==
    main \in Disabling =>
      /\ csr_step = "reload" => MSTATUS_MIE_BIT \notin mmstatus
      /\ csr_step = "write" => MSTATUS_MIE_BIT \notin a5

IInv == PhaseInv /\ MaskedInv /\ TestInv /\ EnabledInv /\ CallInv /\ DisableInv

-----------------------------------------------------------------------------
\* The program starts in test 1, with interrupts disabled and no handler running.
LEMMA InitInv == Init => IInv
  BY SMT DEF Init, IInv, PhaseInv, MaskedInv, TestInv, EnabledInv, CallInv, DisableInv, Waiting, Calls, Enabling, Disabling,
     Bombing, NoTest, OFF, STANDARD, RANDOM

\* Nothing the invariant is about changes while the core stalls.
LEMMA StallInv ==
  ASSUME IInv, UNCHANGED <<mainVars, handlerVars, a5, csrVars, sharedVars>>
  PROVE  IInv'
  BY SMT DEF IInv, PhaseInv, MaskedInv, TestInv, EnabledInv, CallInv, DisableInv, Waiting, Calls, Enabling, Disabling,
     Bombing, mainVars, handlerVars, csrVars, sharedVars

\* An interrupt is only taken when no handler runs, and before test 5 in a wait.
LEMMA TakeInterruptInv ==
  ASSUME IInv, TakeInterrupt
  PROVE  IInv'
  BY SMT DEF IInv, PhaseInv, MaskedInv, TestInv, EnabledInv, CallInv, DisableInv, Waiting, Calls, Enabling, Disabling,
     Bombing, mainVars, sharedVars, TakeInterrupt, irq_req, MSTATUS_MIE_BIT, MSTATUS_MPIE_BIT,
     OFF, STANDARD, RANDOM

\* The handler leaves main alone; what it does to mstatus goes through mmstatus.
LEMMA HandlerInv ==
  ASSUME IInv, HandlerStep
  PROVE  IInv'
  <1> USE DEF IInv, PhaseInv, MaskedInv, TestInv, EnabledInv, CallInv, DisableInv, Waiting, Calls, Enabling, Disabling,
      Bombing, HandlerGo, mainVars, csrVars, sharedVars, OFF, STANDARD, RANDOM
  <1>0. UNCHANGED mainVars
    BY DEF HandlerStep
  <1>1. CASE Prologue
    BY <1>0, <1>1 DEF Prologue
  <1>2. CASE SetIrqId
    BY <1>0, <1>2 DEF SetIrqId
  <1>3. CASE ReadMip
    BY <1>0, <1>3 DEF ReadMip
  <1>4. CASE ClearPending
    BY <1>0, <1>4 DEF ClearPending
  <1>5. CASE LowerLine
    BY <1>0, <1>5 DEF LowerLine
  <1>6. CASE SetIrqMode("std", "std_write", STANDARD)
    BY <1>0, <1>6 DEF SetIrqMode
  <1>7. CASE WriteIrqMode("std_write", "rnd")
    BY <1>0, <1>7 DEF WriteIrqMode
  <1>8. CASE SetIrqMode("rnd", "rnd_write", RANDOM)
    BY <1>0, <1>8 DEF SetIrqMode
  <1>9. CASE WriteIrqMode("rnd_write", "epilogue")
    BY <1>0, <1>9 DEF WriteIrqMode
  <1>10. CASE ReadStatus
    BY <1>0, <1>10 DEF ReadStatus
  <1>11. CASE ClearMpie
    BY <1>0, <1>11 DEF ClearMpie, MSTATUS_MIE_BIT, MSTATUS_MPIE_BIT
  <1>12. CASE WriteStatus
    BY <1>0, <1>12 DEF WriteStatus
  <1>13. CASE Epilogue
    BY <1>0, <1>13 DEF Epilogue
  <1>14. CASE Return
    BY <1>0, <1>14 DEF Return, Mret, MSTATUS_MIE_BIT, MSTATUS_MPIE_BIT
  <1> QED
    BY <1>1, <1>2, <1>3, <1>4, <1>5, <1>6, <1>7, <1>8, <1>9, <1>10, <1>11, <1>12, <1>13, <1>14
    DEF HandlerStep

-----------------------------------------------------------------------------
\* A step of mstatus_enable in front of a wait, of mstatus_disable in tests 1, 2 and 3, or of
\* either in test 5, where interrupts may come at any time.
LEMMA StatusStepInv ==
  ASSUME IInv, handler = "none", UNCHANGED handlerVars,
         NEW from, NEW to, NEW set, NEW clear, StatusStep(from, to, set, clear), from \in Calls,
         \/ from \in Enabling /\ to \in Waiting
         \/ from \in Disabling /\ to \notin Bombing \union Enabling \union Disabling
            /\ clear = {MSTATUS_MIE_BIT}
         \/ from \in Bombing /\ to \in Bombing
  PROVE  IInv'
  <1> USE DEF IInv, PhaseInv, MaskedInv, TestInv, EnabledInv, CallInv, DisableInv, Waiting, Calls, Enabling, Disabling,
      Bombing, handlerVars, StatusStep, OFF, STANDARD, RANDOM
  <1> QED OBVIOUS

\* What Sample remembers.
LEMMA SampledWord ==
  ASSUME TestInv, NEW word, test' = [test EXCEPT !.prev = word]
  PROVE  TestInv' /\ test'.prev = word
  BY SMT DEF TestInv

\* main samples while interrupts are disabled, so no handler changes the word behind its back.
LEMMA SampleInv ==
  ASSUME IInv, handler = "none", UNCHANGED handlerVars,
         NEW from, NEW to, Sample(from, to),
         from \notin Bombing \union Waiting, to \in Enabling
  PROVE  IInv'
  <1>1. TestInv' /\ test'.prev = irq_pending32_std
    BY SampledWord DEF IInv, Sample
  <1>2. PhaseInv' /\ MaskedInv' /\ CallInv' /\ DisableInv'
    BY DEF IInv, PhaseInv, MaskedInv, EnabledInv, CallInv, DisableInv, Waiting, Calls, Enabling,
       Disabling, Bombing, handlerVars, sharedVars, csrVars, Go, Sample, OFF, STANDARD, RANDOM
  <1>3. main \notin Waiting /\ irq_mode = OFF /\ UNCHANGED <<mstatus, irq_mode, irq_pending32_std>>
        /\ main' = to
    BY DEF IInv, PhaseInv, Waiting, Bombing, sharedVars, csrVars, Go, Sample
  <1>4. EnabledInv'
    BY <1>1, <1>3 DEF IInv, EnabledInv, handlerVars
  <1> QED
    BY <1>1, <1>2, <1>4 DEF IInv

\* main only ever changes words of test, or starts it anew.
LEMMA MainTestInv ==
  ASSUME TestInv, MainStep
  PROVE  TestInv'
  <1> USE DEF TestInv
  <1>1. ASSUME UNCHANGED test PROVE TestInv'
    BY <1>1
  <1>2. ASSUME NEW from, NEW to, Sample(from, to) PROVE TestInv'
    BY <1>2 DEF Sample
  <1>3. ASSUME NEW word, test' = [NoTest EXCEPT !.ie = word] PROVE TestInv'
    BY <1>3 DEF NoTest
  <1>4. ASSUME NEW word, NEW other, test' = [test EXCEPT !.first = word, !.to_test = other]
        PROVE  TestInv'
    BY <1>4
  <1>5. ASSUME test' = NoTest PROVE TestInv'
    BY <1>5 DEF NoTest
  <1> HIDE DEF TestInv
  <1>6. CASE Test1
    BY <1>1, <1>6 DEF Test1, mstatus_disable, StatusStep
  <1>7. CASE Test2
    BY <1>1, <1>2, <1>7 DEF Test2, mstatus_disable, mstatus_enable, StatusStep, Wait, Compare
  <1>8. CASE Test3
    BY <1>1, <1>2, <1>3, <1>4, <1>5, <1>8
    DEF Test3, mstatus_disable, mstatus_enable, StatusStep, Wait, Compare
  <1>9. CASE Test5
    BY <1>1, <1>9 DEF Test5, mstatus_disable, mstatus_enable, StatusStep
  <1>10. CASE Ended
    BY <1>1, <1>10 DEF Ended, mainVars
  <1> QED
    BY <1>6, <1>7, <1>8, <1>9, <1>10 DEF MainStep

\* main: the waits of tests 2 and 3 are the only places where interrupts are enabled.
LEMMA MainInv ==
  ASSUME IInv, MainStep
  PROVE  IInv'
  <1>t. TestInv'
    BY MainTestInv DEF IInv
  <1> USE DEF IInv, PhaseInv, MaskedInv, EnabledInv, CallInv, DisableInv, Waiting, Calls, Enabling, Disabling,
      Bombing, handlerVars, sharedVars, csrVars, Go, OFF, STANDARD, RANDOM
  <1>0. handler = "none" /\ UNCHANGED handlerVars
    BY DEF MainStep
  <1>1. CASE Test1
    BY <1>0, <1>t, <1>1, StatusStepInv DEF Test1, mstatus_disable, WriteMie, WriteMode
  <1>2. CASE Test2
    BY <1>0, <1>t, <1>2, StatusStepInv, SampleInv DEF Test2, mstatus_disable, mstatus_enable, WriteMie, WriteLines, Wait, Compare
  <1>3. CASE Test3
    BY <1>0, <1>t, <1>3, StatusStepInv, SampleInv DEF Test3, mstatus_disable, mstatus_enable, WriteMie, WriteLines, Wait, Compare
  <1>5. CASE Test5
    BY <1>0, <1>t, <1>5, StatusStepInv DEF Test5, mstatus_disable, mstatus_enable, WriteMie, WriteMin, WriteMax, WriteMode
  <1>6. CASE Ended
    BY <1>0, <1>t, <1>6 DEF Ended, mainVars
  <1> QED
    BY <1>1, <1>2, <1>3, <1>5, <1>6 DEF MainStep

-----------------------------------------------------------------------------
\* Every step, and every stutter, preserves the invariant.
LEMMA NextInv ==
  ASSUME IInv, [Next]_vars
  PROVE  IInv'
  <1>1. CASE Stall
    BY <1>1, StallInv DEF Stall
  <1>2. CASE TakeInterrupt
    BY <1>2, TakeInterruptInv
  <1>3. CASE HandlerStep
    BY <1>3, HandlerInv
  <1>4. CASE MainStep
    BY <1>4, MainInv
  <1>5. CASE UNCHANGED vars
    BY <1>5, StallInv DEF vars
  <1> QED
    BY <1>1, <1>2, <1>3, <1>4, <1>5 DEF Next, Execute

\* The invariant is the property and more.
LEMMA InvStatus == IInv => StatusIsNotShared
  BY SMT DEF IInv, PhaseInv, MaskedInv, EnabledInv, StatusIsNotShared, Waiting, OFF, STANDARD, RANDOM

\* No handler runs while main changes mstatus through the variable they share, and none is
\* interrupted: the save and restore of mstatus_enable, mstatus_disable and FAST_IRQ_GENERIC
\* need no lock, whatever the generator, the memories and the random words do.
THEOREM StatusNotShared == Spec => []StatusIsNotShared
  <1>1. Init => IInv
    BY InitInv
  <1>2. IInv /\ [Next]_vars => IInv'
    BY NextInv
  <1>3. IInv => StatusIsNotShared
    BY InvStatus
  <1> QED
    BY <1>1, <1>2, <1>3, PTL DEF Spec
-----------------------------------------------------------------------------
(* Types.                                                                    *)

\* The bits mstatus has, and the statements that count with i.
StatusBits == {MSTATUS_MIE_BIT, MSTATUS_MPIE_BIT}
Counting == {"2sample", "2enable", "2wait", "2check", "3next", "3enable", "3wait", "3check",
             "err2", "err3", "5mult"}
Multiplied == {"5mult", "5end", "5check", "done", "err5"}
Registers == {"id", "mip", "clear", "lines", "std", "std_write", "rnd", "rnd_write", "csrr", "mask",
              "csrw", "epilogue"}

\* The registers of mm_ram that the program writes.
RegsType ==
    /\ mode \in {OFF, STANDARD, RANDOM, SOFTWARE_DEFINED}
    /\ min_cycles \in {0, MIN_CYCLES} /\ max_cycles \in {0, MAX_CYCLES}
    /\ lines \subseteq Bits

\* TypeOK without the generator, the stalls and the length of res.
ProgramType ==
    /\ i \in 1 .. IRQ_NUM
    /\ vector \in Bits /\ irq_id \in Bits
    /\ irq_mode \in {OFF, STANDARD, RANDOM}
    /\ a5 \subseteq Bits /\ saved_a5 \subseteq Bits /\ irq_pending32_std \subseteq Bits
    /\ mie \subseteq IRQ_MASK
    /\ mstatus \subseteq StatusBits /\ mmstatus \subseteq StatusBits
    /\ test \in [{"prev", "ie", "first", "to_test"} -> SUBSET Bits]

\* mstatus_enable and mstatus_disable carry the bits of mstatus in a5, where a handler may come
\* in between and has to put them back.
CarriedInv ==
    csr_step \in {"save", "store", "write"} =>
      IF handler \in Registers THEN saved_a5 \subseteq StatusBits ELSE a5 \subseteq StatusBits

\* A row is added for every i, and i starts from 1 after every loop.
RowsInv ==
    /\ res \in Seq({MultipliedRow(n) : n \in 1 .. MAT_DIM})
    /\ Len(res) <= MAT_DIM
    /\ main \notin Multiplied => res = <<>>
    /\ main \notin Counting => i = 1
    /\ main = "5mult" => i <= MAT_DIM /\ Len(res) = i - 1

TypeInv == ProgramType /\ CarriedInv /\ RowsInv /\ GeneratorTypeOK /\ stalled \in 0 .. MAX_STALL

-----------------------------------------------------------------------------
\* A set of natural numbers that is not empty has a least one.
LEMMA LeastNumber ==
  ASSUME NEW S, S \subseteq Nat, S # {}
  PROVE  \E n \in S : \A m \in S : n <= m
  <1> DEFINE R == {ss \in Nat \X Nat : ss[1] < ss[2]}
  <1>1. IsWellFoundedOn(R, Nat)
    BY NatLessThanWellFounded DEF OpToRel
  <1>2. PICK n \in S : \A m \in S : ~(<<m, n>> \in R)
    BY <1>1, WFMin
  <1>3. ASSUME NEW m \in S PROVE n <= m
    <2>1. <<m, n>> \in Nat \X Nat /\ <<m, n>>[1] = m /\ <<m, n>>[2] = n
      OBVIOUS
    <2>2. m < n => <<m, n>> \in R
      BY <2>1
    <2>3. ~(m < n)
      BY <1>2, <2>2
    <2> QED
      BY <2>1, <2>3
  <1> QED
    BY <1>3

\* The encoder names every line once: the highest of those pending is one of them.
LEMMA EncoderNamesARequest ==
  ASSUME NEW q, q \subseteq IRQ_MASK, q # {}
  PROVE  irq_id_ctrl(q) \in q
  <1>1. DOMAIN IrqOrder = 1 .. 32
    BY DEF IrqOrder
  <1>2. \A n \in 16 .. 31 : IrqOrder[32 - n] = n
    BY DEF IrqOrder
  <1>3. IrqOrder[21] = 11 /\ IrqOrder[22] = 3 /\ IrqOrder[23] = 7
    BY DEF IrqOrder
  <1> DEFINE Pending == {n \in 1 .. 32 : IrqOrder[n] \in q}
             Highest(n) == IrqOrder[n] \in q /\ \A j \in 1 .. n - 1 : IrqOrder[j] \notin q
  <1>4. Pending # {}
    <2>1. PICK line \in q : line \in {3, 7, 11} \union 16 .. 31
      BY DEF IRQ_MASK
    <2>2. CASE line \in 16 .. 31
      BY <1>2, <2>1, <2>2
    <2>3. CASE line \in {3, 7, 11}
      BY <1>3, <2>1, <2>3
    <2> QED
      BY <2>1, <2>2, <2>3
  <1>5. PICK n \in Pending : \A m \in Pending : n <= m
    BY <1>4, LeastNumber, Pending \subseteq Nat
  <1>6. n \in DOMAIN IrqOrder /\ Highest(n)
    BY <1>1, <1>5
  <1> HIDE DEF Highest
  <1>7. Highest(CHOOSE k \in DOMAIN IrqOrder : Highest(k))
    BY <1>6
  <1> QED
    BY <1>7 DEF Highest, irq_id_ctrl

\* The generator keeps its ranges whatever the program writes into its registers.
LEMMA GeneratorKeepsTypes ==
  ASSUME GeneratorTypeOK, RegsType', GeneratorEdge
  PROVE  GeneratorTypeOK'
  <1> USE GeneratorAssumption
  <1> USE DEF GeneratorTypeOK, RegsType, OFF, STANDARD, RANDOM, SOFTWARE_DEFINED
  <1>1. irq_mode_q' \in {OFF, STANDARD, RANDOM, SOFTWARE_DEFINED} /\ irq_q' \subseteq IRQ_MASK
    BY DEF GeneratorEdge
  <1>2. sd_at' \in {"wait", "sample", "pause"} /\ irq_sd_lines' \subseteq IRQ_MASK
    BY DEF GeneratorEdge, SdEdge, SdWait, SdLoop
  <1>3. ASSUME NEW word \in SUBSET WordBits, Sampled(word)
        PROVE  irq_lines_q' \subseteq IRQ_MASK
    <2>1. WordBits \subseteq IRQ_MASK
      BY DEF IRQ_MASK
    <2>2. Driven(irq_sd_lines, irq_rnd_lines) \subseteq IRQ_MASK
      BY <2>1 DEF Driven
    <2>3. Driven(irq_sd_lines, word)' \subseteq IRQ_MASK
      BY <1>2, <1>3, <2>1 DEF Driven
    <2>4. irq_lines_q' \in {Driven(irq_sd_lines, irq_rnd_lines), Driven(irq_sd_lines', word)}
      BY <1>3 DEF Sampled
    <2> QED
      BY <1>2, <2>1, <2>2, <2>4 DEF Driven
  <1> DEFINE Random == /\ rnd_at' \in {"start", "await", "count", "hold"}
                       /\ wait_cycles' \in 0 .. MAX_CYCLES + 1
                       /\ irq_rnd_lines' \subseteq WordBits
  <1>4. ASSUME RndWait PROVE Random
    BY <1>4 DEF RndWait
  <1>5. ASSUME RndCount PROVE Random
    BY <1>5 DEF RndCount
  <1>6. ASSUME RndHold PROVE Random
    BY <1>6 DEF RndHold
  <1>7. ASSUME NEW word \in SUBSET WordBits, RndRaise(word) PROVE Random
    <2>1. wait_cycles' = 0 /\ rnd_at' \in {"start", "hold"}
      BY <1>7 DEF RndRaise
    <2>2. irq_rnd_lines' = {} \/ irq_rnd_lines' = word
      BY <1>7 DEF RndRaise
    <2>3. irq_rnd_lines' \subseteq WordBits
      BY <2>2
    <2> QED
      BY <2>1, <2>3
  <1>8. Random /\ irq_lines_q' \subseteq IRQ_MASK
    <2> HIDE DEF Random
    <2>1. CASE (RndWait \/ RndCount \/ RndHold) /\ Sampled(irq_rnd_lines)
      BY <1>3, <1>4, <1>5, <1>6, <2>1
    <2>2. CASE \E word \in SUBSET WordBits \ {{}} : RndRaise(word) /\ Sampled(word)
      BY <1>3, <1>7, <2>2
    <2> QED
      BY <2>1, <2>2 DEF GeneratorEdge
  <1> QED
    BY <1>1, <1>2, <1>8

-----------------------------------------------------------------------------
\* The program starts with everything in range.
LEMMA InitTypes == Init => TypeInv
  <1> SUFFICES ASSUME Init PROVE TypeInv
    OBVIOUS
  <1>1. ProgramType /\ CarriedInv
    BY DEF Init, ProgramType, CarriedInv, NoTest, IRQ_NUM, Bits, IRQ_MASK, OFF
  <1>2. RowsInv
    BY DEF Init, RowsInv, Multiplied, MAT_DIM
  <1>3. GeneratorTypeOK
    BY GeneratorAssumption DEF Init, GeneratorInit, GeneratorTypeOK, OFF
  <1>4. stalled \in 0 .. MAX_STALL
    BY ProgramAssumption DEF Init
  <1> QED
    BY <1>1, <1>2, <1>3, <1>4 DEF TypeInv

\* Nothing changes while the core stalls, and nothing in mm_ram's registers.
LEMMA StallTypes ==
  ASSUME TypeInv, UNCHANGED <<mainVars, handlerVars, a5, csrVars, sharedVars, rndStallRegs>>
  PROVE  ProgramType' /\ CarriedInv' /\ RowsInv' /\ RegsType'
  BY DEF TypeInv, ProgramType, CarriedInv, RowsInv, GeneratorTypeOK, RegsType, mainVars,
     handlerVars, csrVars, sharedVars, rndStallRegs

\* The core is interrupted by a line that is there.
LEMMA TakeInterruptTypes ==
  ASSUME TypeInv, handler = "none", TakeInterrupt
  PROVE  ProgramType' /\ CarriedInv' /\ RowsInv' /\ RegsType'
  <1>1. vector' \in Bits
    <2>1. irq_q \intersect mie \subseteq IRQ_MASK /\ irq_q \intersect mie # {}
      BY DEF TypeInv, ProgramType, TakeInterrupt, irq_req
    <2>2. irq_id_ctrl(irq_q \intersect mie) \in IRQ_MASK
      BY <2>1, EncoderNamesARequest
    <2> QED
      BY <2>2 DEF TakeInterrupt, IRQ_MASK, Bits
  <1>2. ProgramType' /\ RegsType'
    BY <1>1 DEF TypeInv, ProgramType, GeneratorTypeOK, RegsType, TakeInterrupt, StatusBits,
       mainVars, sharedVars, rndStallRegs
  <1>3. CarriedInv'
    BY DEF TypeInv, CarriedInv, TakeInterrupt, Registers, mainVars
  <1>4. RowsInv'
    BY DEF TypeInv, RowsInv, TakeInterrupt, mainVars
  <1> QED
    BY <1>2, <1>3, <1>4

\* The handler saves a5 before it uses it, and puts it back before it returns.
LEMMA HandlerTypes ==
  ASSUME TypeInv, HandlerStep
  PROVE  ProgramType' /\ CarriedInv' /\ RowsInv' /\ RegsType'
  <1>0. UNCHANGED mainVars /\ RowsInv'
    BY DEF TypeInv, RowsInv, HandlerStep, mainVars
  <1>t. ProgramType /\ CarriedInv /\ RegsType
    BY DEF TypeInv, GeneratorTypeOK, RegsType
  <1> USE DEF ProgramType, CarriedInv, RegsType, Registers, StatusBits, HandlerGo, mainVars, csrVars,
      sharedVars, rndStallRegs, OFF, STANDARD, RANDOM, SOFTWARE_DEFINED
  <1> DEFINE Typed == ProgramType' /\ CarriedInv' /\ RegsType'
  <1>1. CASE Prologue
    BY <1>0, <1>t, <1>1 DEF Prologue
  <1>2. CASE SetIrqId
    BY <1>0, <1>t, <1>2 DEF SetIrqId
  <1>3. CASE ReadMip
    BY <1>0, <1>t, <1>3, irq_q \subseteq Bits DEF ReadMip, TypeInv, GeneratorTypeOK, IRQ_MASK, Bits
  <1>4. CASE ClearPending
    BY <1>0, <1>t, <1>4 DEF ClearPending
  <1>5. CASE LowerLine
    BY <1>0, <1>t, <1>5 DEF LowerLine, WriteLines
  <1>6. CASE SetIrqMode("std", "std_write", STANDARD)
    BY <1>0, <1>t, <1>6 DEF SetIrqMode
  <1>7. CASE WriteIrqMode("std_write", "rnd")
    BY <1>0, <1>t, <1>7 DEF WriteIrqMode, WriteMode
  <1>8. CASE SetIrqMode("rnd", "rnd_write", RANDOM)
    BY <1>0, <1>t, <1>8 DEF SetIrqMode
  <1>9. CASE WriteIrqMode("rnd_write", "epilogue")
    BY <1>0, <1>t, <1>9 DEF WriteIrqMode, WriteMode
  <1>b. StatusBits \subseteq Bits
    BY DEF Bits, MSTATUS_MIE_BIT, MSTATUS_MPIE_BIT
  <1>10. CASE ReadStatus
    BY <1>0, <1>t, <1>b, <1>10 DEF ReadStatus
  <1>11. CASE ClearMpie
    BY <1>0, <1>t, <1>b, <1>11 DEF ClearMpie
  <1>12. CASE WriteStatus
    BY <1>0, <1>t, <1>b, <1>12 DEF WriteStatus
  <1>13. CASE Epilogue
    BY <1>0, <1>t, <1>13 DEF Epilogue
  <1>14. CASE Return
    BY <1>0, <1>t, <1>14 DEF Return, Mret
  <1> QED
    BY <1>0, <1>1, <1>2, <1>3, <1>4, <1>5, <1>6, <1>7, <1>8, <1>9, <1>10, <1>11, <1>12, <1>13, <1>14
    DEF HandlerStep

\* The instructions of mstatus_enable and mstatus_disable carry bits of mstatus.
LEMMA StatusStepTypes ==
  ASSUME ProgramType, CarriedInv, handler = "none", UNCHANGED handlerVars,
         NEW from, NEW to, NEW set, NEW clear, set \subseteq StatusBits, StatusStep(from, to, set, clear)
  PROVE  ProgramType' /\ CarriedInv'
  <1>1. StatusBits \subseteq Bits
    BY DEF StatusBits, Bits, MSTATUS_MIE_BIT, MSTATUS_MPIE_BIT
  <1>2. /\ csr_step' \in {"store", "save", "write"} <=> csr_step \in {"read", "load", "reload"}
        /\ csr_step \in {"read", "save", "load", "store", "reload", "write"}
    BY DEF StatusStep
  <1> QED
    BY <1>1, <1>2 DEF ProgramType, CarriedInv, StatusStep, handlerVars, Registers

\* main changes i, res and main's place together.
LEMMA MainRows ==
  ASSUME RowsInv, i \in 1 .. IRQ_NUM, MainStep
  PROVE  RowsInv' /\ i' \in 1 .. IRQ_NUM
  <1> DEFINE Rows == {MultipliedRow(n) : n \in 1 .. MAT_DIM}
  <1> USE DEF RowsInv, Counting, Multiplied, Go
  <1>1. CASE Test1
    BY <1>1 DEF Test1, mstatus_disable, StatusStep
  <1>2. CASE Test2
    BY <1>2 DEF Test2, mstatus_disable, mstatus_enable, StatusStep, Sample, Wait, Compare, IRQ_NUM
  <1>3. CASE Test3
    <2>1. UNCHANGED res
      BY <1>3 DEF Test3, mstatus_disable, mstatus_enable, StatusStep, Sample, Wait, Compare
    <2>2. main \notin Multiplied /\ main' \notin Multiplied \ {"err3"} /\ (main' = "err3" => main \in {"3check", "3end"})
      BY <1>3 DEF Test3, mstatus_disable, mstatus_enable, StatusStep, Sample, Wait, Compare
    <2>3. /\ i' \in 1 .. IRQ_NUM
          /\ main' \notin Counting => i' = 1
      <3>1. CASE UNCHANGED i /\ (main \in Counting => main' \in Counting)
        BY <1>3, <3>1 DEF Test3, mstatus_disable, mstatus_enable, StatusStep, Sample, Wait, Compare
      <3>2. CASE i' = (IF i < IRQ_NUM THEN i + 1 ELSE 1) /\ (i < IRQ_NUM => main' \in Counting)
        BY <3>2 DEF IRQ_NUM
      <3> QED
        BY <1>3, <3>1, <3>2 DEF Test3, mstatus_disable, mstatus_enable, StatusStep, Sample, Wait, Compare
    <2> QED
      BY <2>1, <2>2, <2>3
  <1>5. CASE Test5
    <2>1. CASE main # "5mult"
      BY <1>5, <2>1 DEF Test5, mstatus_disable, mstatus_enable, StatusStep, IRQ_NUM, MAT_DIM
    <2>2. CASE main = "5mult"
      <3>1. /\ main' = (IF i < MAT_DIM THEN "5mult" ELSE "5end")
            /\ res' = Append(res, MultipliedRow(i))
            /\ i' = IF i < MAT_DIM THEN i + 1 ELSE 1
        BY <1>5, <2>2 DEF Test5, mstatus_disable, mstatus_enable, StatusStep
      <3>2. res \in Seq(Rows) /\ MultipliedRow(i) \in Rows
        BY <2>2
      <3> HIDE DEF Rows
      <3>3. res' \in Seq(Rows) /\ Len(res') = Len(res) + 1
        BY <3>1, <3>2
      <3>4. Len(res) = i - 1 /\ i \in 1 .. MAT_DIM
        BY <2>2
      <3> QED
        BY <2>2, <3>1, <3>3, <3>4 DEF IRQ_NUM, MAT_DIM, Rows
    <2> QED
      BY <2>1, <2>2
  <1>6. CASE Ended
    BY <1>6 DEF Ended, mainVars
  <1> QED
    BY <1>1, <1>2, <1>3, <1>5, <1>6 DEF MainStep

\* Only the instructions of mstatus_enable and mstatus_disable use a5.
LEMMA MainTypes ==
  ASSUME TypeInv, CallInv, MainStep
  PROVE  ProgramType' /\ CarriedInv' /\ RowsInv' /\ RegsType'
  <1>0. handler = "none" /\ UNCHANGED handlerVars
    BY DEF MainStep
  <1>t. ProgramType /\ CarriedInv /\ RegsType
    BY DEF TypeInv, GeneratorTypeOK, RegsType
  <1>r. RowsInv' /\ i' \in 1 .. IRQ_NUM
    BY MainRows DEF TypeInv, ProgramType
  <1>w. RandomAnswers \subseteq Bits /\ STD_IRQ_MASK = IRQ_MASK /\ IRQ_MASK \subseteq Bits
    BY ProgramAssumption DEF STD_IRQ_MASK, IRQ_MASK, Bits
  <1> DEFINE Typed == ProgramType' /\ CarriedInv' /\ RegsType'
  <1>c. ASSUME NEW from, NEW to, mstatus_enable(from, to) \/ mstatus_disable(from, to) PROVE Typed
    <2>1. ProgramType' /\ CarriedInv'
      BY <1>0, <1>t, <1>c, StatusStepTypes DEF mstatus_enable, mstatus_disable, StatusBits
    <2>2. RegsType'
      BY <1>t, <1>c DEF mstatus_enable, mstatus_disable, StatusStep, RegsType, rndStallRegs
    <2> QED
      BY <2>1, <2>2
  <1> USE DEF ProgramType, CarriedInv, RegsType, handlerVars, csrVars, sharedVars, rndStallRegs, Go,
      OFF, STANDARD, RANDOM, SOFTWARE_DEFINED
  <1>s. ASSUME NEW from, NEW to, Sample(from, to) PROVE Typed
    BY <1>0, <1>t, <1>r, <1>s DEF Sample
  <1>v. ASSUME NEW from, NEW to, Wait(from, to) PROVE Typed
    BY <1>0, <1>t, <1>r, <1>v DEF Wait
  <1>p. ASSUME NEW from, NEW there, NEW end, NEW error, Compare(from, there, end, error) PROVE Typed
    BY <1>0, <1>t, <1>r, <1>p DEF Compare
  <1>1. CASE Test1
    BY <1>0, <1>t, <1>r, <1>w, <1>c, <1>1 DEF Test1, WriteMie, WriteMode
  <1>2. CASE Test2
    BY <1>0, <1>t, <1>r, <1>w, <1>c, <1>s, <1>v, <1>p, <1>2 DEF Test2, WriteMie, WriteLines
  <1>3. CASE Test3
    <2> DEFINE Words == [{"prev", "ie", "first", "to_test"} -> SUBSET Bits]
    <2>1. \A word \in RandomWords : word \subseteq Bits
      BY <1>w DEF RandomWords
    <2>2. /\ NoTest \in Words
          /\ \A word \in SUBSET Bits : [NoTest EXCEPT !.ie = word] \in Words
      BY DEF NoTest
    <2>3. \A word, other \in SUBSET Bits : [test EXCEPT !.first = word, !.to_test = other] \in Words
      BY <1>t
    <2>4. 0 \in Bits
      BY DEF Bits
    <2>5. CASE Go("3mie", "3pending")
      BY <1>0, <1>t, <1>r, <1>w, <2>1, <2>2, <2>4, <1>3, <2>5
      DEF Test3, WriteMie, mstatus_disable, mstatus_enable, StatusStep, Sample, Wait, Compare
    <2>6. CASE Go("3pending", "3disable")
      <3>1. PICK word \in RandomWords :
              /\ irq_pending32_std' = word \intersect STD_IRQ_MASK
              /\ test' = [test EXCEPT !.first = word \intersect STD_IRQ_MASK,
                                      !.to_test = (word \intersect STD_IRQ_MASK) \intersect test.ie]
        BY <1>3, <2>6 DEF Test3, mstatus_disable, mstatus_enable, StatusStep, Sample, Wait, Compare
      <3>2. UNCHANGED <<a5, csrVars, irq_id, irq_mode, mmstatus, rndStallRegs>>
        BY <1>3, <2>6 DEF Test3, mstatus_disable, mstatus_enable, StatusStep, Sample, Wait, Compare
      <3>3. word \intersect STD_IRQ_MASK \in SUBSET Bits
            /\ (word \intersect STD_IRQ_MASK) \intersect test.ie \in SUBSET Bits
        BY <2>1
      <3>4. test' \in Words
        BY <2>3, <3>1, <3>3
      <3> HIDE DEF Words
      <3>5. irq_pending32_std' \subseteq Bits /\ csr_step' = csr_step
        BY <2>6, <3>1, <3>3
      <3> QED
        BY <1>0, <1>t, <1>r, <3>2, <3>4, <3>5 DEF Words
    <2>7. CASE ~Go("3mie", "3pending") /\ ~Go("3pending", "3disable")
      BY <1>0, <1>t, <1>r, <1>c, <1>s, <1>v, <1>p, <2>2, <1>3, <2>7 DEF Test3, WriteLines
    <2> QED
      BY <2>5, <2>6, <2>7
  <1>5. CASE Test5
    BY <1>0, <1>t, <1>r, <1>w, <1>c, <1>5 DEF Test5, WriteMie, WriteMin, WriteMax, WriteMode
  <1>6. CASE Ended
    BY <1>0, <1>t, <1>r, <1>6 DEF Ended, mainVars
  <1> QED
    BY <1>r, <1>1, <1>2, <1>3, <1>5, <1>6 DEF MainStep

\* Every cycle keeps the types: the program's step writes words in range, and the generator's
\* processes keep theirs.
LEMMA NextTypes ==
  ASSUME TypeInv, IInv, [Next]_vars
  PROVE  TypeInv'
  <1>1. ASSUME Next PROVE TypeInv'
    <2>1. GeneratorEdge
      BY <1>1 DEF Next
    <2>2. stalled' \in 0 .. MAX_STALL
      BY <1>1, ProgramAssumption DEF Next, Stall, Execute, TypeInv
    <2>3. ProgramType' /\ CarriedInv' /\ RowsInv' /\ RegsType'
      <3>1. CASE Stall
        BY <3>1, StallTypes DEF Stall
      <3>2. CASE TakeInterrupt
        BY <3>2, TakeInterruptTypes DEF IInv, MaskedInv, TakeInterrupt, irq_req
      <3>3. CASE HandlerStep
        BY <3>3, HandlerTypes
      <3>4. CASE MainStep
        BY <3>4, MainTypes DEF IInv
      <3> QED
        BY <1>1, <3>1, <3>2, <3>3, <3>4 DEF Next, Execute
    <2>4. GeneratorTypeOK'
      BY <2>1, <2>3, GeneratorKeepsTypes DEF TypeInv
    <2> QED
      BY <2>2, <2>3, <2>4 DEF TypeInv
  <1>2. CASE UNCHANGED vars
    BY <1>2 DEF TypeInv, ProgramType, CarriedInv, RowsInv, GeneratorTypeOK, vars, mainVars,
       handlerVars, csrVars, sharedVars, rndStallRegs, generatorVars
  <1> QED
    BY <1>1, <1>2

\* Every variable keeps its range: the interrupt the core takes is one of the 32 lines, only the
\* bits of mstatus are written to it although they pass through a register that handlers save
\* and restore, the product has no row too many, and the generator's counter ends.
THEOREM TypesOfTheTest == Spec => []TypeOK
  <1>1. Init => TypeInv /\ IInv
    BY InitTypes, InitInv
  <1>2. TypeInv /\ IInv /\ [Next]_vars => TypeInv' /\ IInv'
    BY NextTypes, NextInv
  <1>3. TypeInv => TypeOK
    BY DEF TypeInv, ProgramType, RowsInv, TypeOK, StatusBits
  <1> QED
    BY <1>1, <1>2, <1>3, PTL DEF Spec

-----------------------------------------------------------------------------
(* What the core is asked for.                                               *)

\* How far a word that the program has written has come: at Level(k) the first k of
\* irq_sd_lines, irq_lines_q and irq_q behind lines have no line that is not pending any more.
\* A word goes through as a whole, so they hold it or, if it is their first, still nothing.
Level(k) ==
    LET Pending == irq_pending32_std \intersect IRQ_MASK
    IN  /\ lines \intersect IRQ_MASK = Pending
        /\ k >= 1 => irq_sd_lines \in {{}, Pending}
        /\ k >= 2 => irq_lines_q \in {{}, Pending}
        /\ k >= 3 => irq_q \in {{}, Pending}

\* In front of and behind the waits of tests 2 and 3, with interrupts disabled.
Between == {"2sample", "2check", "3next", "3check"}

\* In tests 2 and 3 a word needs three edges to mip, and the handler four statements from the
\* store to mret.
DefinedInv ==
    irq_mode = OFF =>
      /\ {mode, irq_mode_q} \subseteq {OFF, SOFTWARE_DEFINED}
      /\ handler = "csrr" => Level(0)
      /\ handler = "mask" => Level(1)
      /\ handler = "csrw" => Level(2)
      /\ handler \in {"epilogue", "mret"} => Level(3)
      /\ main \in Waiting /\ handler \in {"none", "prologue", "id", "clear"} => Level(3)
      /\ main \in Between => Level(0)
      /\ main \in Enabling =>
           /\ csr_step = "read" => Level(1)
           /\ csr_step = "save" => Level(2)
           /\ csr_step \notin {"read", "save"} => Level(3)

\* In test 5 the registers hold what the generator holds, but for the time in which a handler
\* makes it drop its lines.
HeldInv ==
    /\ irq_lines_q \subseteq irq_rnd_lines
    /\ irq_q \subseteq irq_rnd_lines

RandomInv ==
    /\ irq_mode = OFF => mode # STANDARD
    /\ handler = "std_write" => irq_mode = STANDARD
    /\ main = "5mode" => mode # STANDARD
    /\ main \in {"5mode", "5enable"} => handler = "none" /\ MSTATUS_MIE_BIT \notin mstatus
    /\ main = "5enable" =>
         /\ mode = RANDOM
         /\ csr_step # "read" => irq_mode_q = RANDOM
         /\ csr_step \notin {"read", "save"} => irq_lines_q \subseteq irq_rnd_lines
         /\ csr_step \notin {"read", "save", "load"} => HeldInv
    /\ main \in Bombing \ {"5mode", "5enable"} =>
         /\ handler \notin {"rnd", "rnd_write", "epilogue"} => mode = RANDOM /\ irq_mode_q = RANDOM /\ HeldInv
         /\ handler = "rnd" => mode = STANDARD
         /\ handler = "rnd_write" => mode = STANDARD /\ irq_mode_q = STANDARD /\ irq_rnd_lines = {}
         /\ handler = "epilogue" =>
              mode = RANDOM /\ irq_mode_q # SOFTWARE_DEFINED /\ irq_lines_q \subseteq irq_rnd_lines

\* A process that does not drive its word has it at zero.
IdleInv ==
    /\ sd_at # "sample" => irq_sd_lines = {}
    /\ rnd_at # "hold" => irq_rnd_lines = {}

ChainInv == DefinedInv /\ RandomInv /\ IdleInv

\* What the generator and the registers behind it do in a cycle.
Cycle ==
    /\ irq_mode_q' = mode
    /\ irq_q' = irq_lines_q
    /\ irq_sd_lines' \in {{}, lines \intersect IRQ_MASK}
    /\ irq_mode_q \in {OFF, SOFTWARE_DEFINED} => irq_lines_q' \in {{}, irq_sd_lines, irq_sd_lines'}
    /\ mode # STANDARD => irq_rnd_lines \subseteq irq_rnd_lines'
    /\ mode # STANDARD /\ irq_mode_q # SOFTWARE_DEFINED => irq_lines_q' \subseteq irq_rnd_lines'
    /\ mode = STANDARD => irq_rnd_lines' = {}
    /\ irq_mode_q = STANDARD => irq_lines_q' = {}

-----------------------------------------------------------------------------
\* The processes keep to it, however the simulator orders them at an edge.
LEMMA GeneratorCycle ==
  ASSUME IdleInv, GeneratorEdge
  PROVE  Cycle /\ IdleInv'
  <1> USE DEF OFF, STANDARD, RANDOM, SOFTWARE_DEFINED
  <1>1. irq_mode_q' = mode /\ irq_q' = irq_lines_q
    BY DEF GeneratorEdge
  <1>2. /\ irq_sd_lines' \in {{}, lines \intersect IRQ_MASK}
        /\ sd_at' # "sample" => irq_sd_lines' = {}
    BY DEF GeneratorEdge, SdEdge, SdWait, SdLoop, IdleInv
  <1>3. /\ rnd_at' # "hold" => irq_rnd_lines' = {}
        /\ mode # STANDARD => irq_rnd_lines \subseteq irq_rnd_lines'
        /\ mode = STANDARD => irq_rnd_lines' = {}
    <2>1. CASE RndWait \/ RndCount \/ RndHold
      BY <1>1, <2>1 DEF IdleInv, RndWait, RndCount, RndHold
    <2>2. CASE \E word : RndRaise(word)
      BY <1>1, <2>2 DEF IdleInv, RndRaise
    <2> QED
      BY <2>1, <2>2 DEF GeneratorEdge
  <1>4. ASSUME NEW word, Sampled(word), irq_mode_q \in {OFF, SOFTWARE_DEFINED}
        PROVE  irq_lines_q' \in {{}, irq_sd_lines, irq_sd_lines'}
    BY <1>4 DEF Sampled, Driven
  <1>5. ASSUME NEW word, Sampled(word), irq_mode_q # SOFTWARE_DEFINED
        PROVE  irq_lines_q' = {} \/ (irq_mode_q = RANDOM /\ irq_lines_q' \in {irq_rnd_lines, word})
    BY <1>5 DEF Sampled, Driven
  <1>6. ASSUME mode # STANDARD, irq_mode_q # SOFTWARE_DEFINED
        PROVE  irq_lines_q' \subseteq irq_rnd_lines'
    <2>1. CASE Sampled(irq_rnd_lines)
      BY <1>3, <1>5, <1>6, <2>1
    <2>2. ASSUME NEW word, RndRaise(word), Sampled(word)
          PROVE  irq_lines_q' \subseteq irq_rnd_lines'
      BY <1>1, <1>3, <1>5, <1>6, <2>2 DEF RndRaise
    <2> QED
      BY <2>1, <2>2 DEF GeneratorEdge
  <1>7. irq_mode_q \in {OFF, SOFTWARE_DEFINED} => irq_lines_q' \in {{}, irq_sd_lines, irq_sd_lines'}
    BY <1>4 DEF GeneratorEdge
  <1>8. irq_mode_q = STANDARD => irq_lines_q' = {}
    BY <1>5 DEF GeneratorEdge
  <1> QED
    BY <1>1, <1>2, <1>3, <1>6, <1>7, <1>8 DEF Cycle, IdleInv

\* A word moves one register on in every cycle in which the program writes nothing new.
LEMMA WordMovesOn ==
  ASSUME Cycle, irq_mode_q \in {OFF, SOFTWARE_DEFINED}, Level(0), UNCHANGED <<lines, irq_pending32_std>>
  PROVE  /\ Level(1)'
         /\ Level(1) => Level(2)'
         /\ Level(2) => Level(3)'
  BY DEF Cycle, Level

\* A later level is an earlier one, too.
LEMMA LevelsBelow == /\ Level(3) => Level(2)
                     /\ Level(2) => Level(1)
                     /\ Level(1) => Level(0)
  BY DEF Level

\* Where the chain stands depends on who may run, which IInv says.
ServeInv == IInv /\ ChainInv

\* A cycle in which the core stalls, or in which the program leaves these variables alone.
LEMMA StallServes ==
  ASSUME ServeInv, Cycle,
         UNCHANGED <<main, csr_step, handler, mstatus, irq_mode, irq_pending32_std, rndStallRegs>>
  PROVE  DefinedInv' /\ RandomInv'
  <1> USE DEF OFF, STANDARD, RANDOM, SOFTWARE_DEFINED
  <1>1. DefinedInv'
    <2>1. ASSUME irq_mode = OFF PROVE \A k \in 0 .. 3 : Level(k) => Level(k)'
      BY <2>1, WordMovesOn, LevelsBelow DEF ServeInv, ChainInv, DefinedInv, rndStallRegs, Level
    <2>2. ASSUME irq_mode = OFF PROVE {mode', irq_mode_q'} \subseteq {OFF, SOFTWARE_DEFINED}
      BY <2>2 DEF ServeInv, ChainInv, DefinedInv, Cycle, rndStallRegs
    <2> HIDE DEF OFF, STANDARD, RANDOM, SOFTWARE_DEFINED
    <2> QED
      BY <2>1, <2>2 DEF ServeInv, ChainInv, DefinedInv
  <1>2. RandomInv'
    BY DEF ServeInv, ChainInv, RandomInv, HeldInv, Cycle, rndStallRegs, Bombing
  <1> QED
    BY <1>1, <1>2

\* The interrupt that is taken finds main in a wait, or in test 5 behind mstatus_enable.
LEMMA TakeInterruptServes ==
  ASSUME ServeInv, Cycle, handler = "none", TakeInterrupt
  PROVE  DefinedInv' /\ RandomInv'
  <1> USE DEF OFF, STANDARD, RANDOM, SOFTWARE_DEFINED
  <1>1. /\ handler' = "prologue" /\ MSTATUS_MIE_BIT \in mstatus /\ MSTATUS_MIE_BIT \notin mstatus'
        /\ UNCHANGED <<main, csr_step, irq_mode, irq_pending32_std, rndStallRegs>>
    BY DEF TakeInterrupt, irq_req, MSTATUS_MIE_BIT, MSTATUS_MPIE_BIT, mainVars, sharedVars
  <1>2. DefinedInv'
    <2>1. SUFFICES ASSUME irq_mode = OFF PROVE DefinedInv'
      BY <1>1 DEF DefinedInv
    <2>2. main \in Waiting /\ Level(3)
      BY <1>1, <2>1 DEF ServeInv, IInv, EnabledInv, ChainInv, DefinedInv
    <2>3. Level(3)' /\ {mode', irq_mode_q'} \subseteq {OFF, SOFTWARE_DEFINED}
      BY <1>1, <2>1, <2>2, WordMovesOn, LevelsBelow DEF ServeInv, ChainInv, DefinedInv, Cycle, rndStallRegs
    <2> QED
      BY <1>1, <2>2, <2>3 DEF DefinedInv, Waiting, Enabling, Between
  <1>3. RandomInv'
    BY <1>1 DEF ServeInv, ChainInv, RandomInv, HeldInv, Cycle, rndStallRegs, Bombing
  <1> QED
    BY <1>2, <1>3

\* Tests 2 and 3: the word is in mip by the time the handler returns.
LEMMA HandlerKeepsDefined ==
  ASSUME ServeInv, Cycle, HandlerStep, irq_mode = OFF
  PROVE  DefinedInv'
  <1> USE DEF OFF, STANDARD, RANDOM, SOFTWARE_DEFINED
  <1>0. handler # "none" /\ UNCHANGED mainVars
    BY DEF HandlerStep, HandlerGo, Prologue, SetIrqId, ReadMip, ClearPending, LowerLine, SetIrqMode, WriteIrqMode,
       ReadStatus, ClearMpie, WriteStatus, Epilogue, Return
  <1>1. main \in Waiting /\ irq_mode_q \in {OFF, SOFTWARE_DEFINED} /\ mode \in {OFF, SOFTWARE_DEFINED}
    BY <1>0 DEF ServeInv, IInv, EnabledInv, ChainInv, DefinedInv
  <1>2. handler \in {"prologue", "id", "clear", "lines", "csrr", "mask", "csrw", "epilogue", "mret"}
    BY DEF ServeInv, IInv, PhaseInv, HandlerStep, HandlerGo, Prologue, SetIrqId, ReadMip, ClearPending, LowerLine,
       SetIrqMode, WriteIrqMode, ReadStatus, ClearMpie, WriteStatus, Epilogue, Return
  <1>3. UNCHANGED irq_mode /\ UNCHANGED mode
    BY <1>2 DEF HandlerStep, HandlerGo, Prologue, SetIrqId, ReadMip, ClearPending, LowerLine, SetIrqMode, WriteIrqMode,
       ReadStatus, ClearMpie, WriteStatus, Epilogue, Return, sharedVars, rndStallRegs, WriteLines
  <1>4. ASSUME UNCHANGED <<lines, irq_pending32_std>>
        PROVE  /\ Level(0) => Level(0)' /\ Level(1)'
               /\ Level(1) => Level(2)'
               /\ Level(2) => Level(3)'
               /\ Level(3) => Level(3)'
    BY <1>1, <1>4, WordMovesOn, LevelsBelow DEF Level
  <1> DEFINE Kept == UNCHANGED <<lines, irq_pending32_std>>
  <1>5. ASSUME handler \in {"prologue", "id"} PROVE Kept /\ handler' \in {"id", "clear"}
    BY <1>5 DEF HandlerStep, HandlerGo, Prologue, SetIrqId, ReadMip, ClearPending, LowerLine, SetIrqMode, WriteIrqMode,
       ReadStatus, ClearMpie, WriteStatus, Epilogue, Return, sharedVars, rndStallRegs
  <1>6. ASSUME handler = "clear" PROVE handler' = "lines"
    BY <1>6 DEF HandlerStep, HandlerGo, Prologue, SetIrqId, ReadMip, ClearPending, LowerLine, SetIrqMode, WriteIrqMode,
       ReadStatus, ClearMpie, WriteStatus, Epilogue, Return
  <1>7. ASSUME handler = "lines" PROVE handler' = "csrr" /\ Level(0)'
    <2>1. LowerLine
      BY <1>7 DEF HandlerStep, HandlerGo, Prologue, SetIrqId, ReadMip, ClearPending, LowerLine, SetIrqMode, WriteIrqMode,
         ReadStatus, ClearMpie, WriteStatus, Epilogue, Return
    <2> QED
      BY <2>1 DEF LowerLine, HandlerGo, WriteLines, sharedVars, Level
  <1>8. ASSUME handler \in {"csrr", "mask", "csrw", "epilogue", "mret"}
        PROVE  /\ Kept
               /\ handler' = [csrr |-> "mask", mask |-> "csrw", csrw |-> "epilogue",
                              epilogue |-> "mret", mret |-> "none"][handler]
    BY <1>8 DEF HandlerStep, HandlerGo, Prologue, SetIrqId, ReadMip, ClearPending, LowerLine, SetIrqMode, WriteIrqMode,
       ReadStatus, ClearMpie, WriteStatus, Epilogue, Return, sharedVars, rndStallRegs
  <1>9. /\ {mode', irq_mode_q'} \subseteq {OFF, SOFTWARE_DEFINED} /\ main' \in Waiting
    BY <1>0, <1>1, <1>3 DEF Cycle, mainVars
  <1>10. /\ handler' = "csrr" => Level(0)'
         /\ handler' = "mask" => Level(1)'
         /\ handler' = "csrw" => Level(2)'
         /\ handler' \in {"epilogue", "mret"} => Level(3)'
         /\ handler' \in {"none", "prologue", "id", "clear"} => Level(3)'
    BY <1>1, <1>2, <1>4, <1>5, <1>6, <1>7, <1>8 DEF ServeInv, ChainInv, DefinedInv
  <1> HIDE DEF OFF, STANDARD, RANDOM, SOFTWARE_DEFINED
  <1> QED
    BY <1>9, <1>10 DEF DefinedInv, Waiting, Enabling, Between

\* In test 5 STANDARD makes the generator drop its lines, and they are gone from mip by the time
\* the handler returns.
LEMMA HandlerKeepsRandom ==
  ASSUME ServeInv, Cycle, HandlerStep
  PROVE  RandomInv'
  <1> USE DEF OFF, STANDARD, RANDOM, SOFTWARE_DEFINED, ServeInv, IInv, ChainInv, RandomInv, HeldInv, PhaseInv,
      MaskedInv, EnabledInv, Bombing, Waiting, Cycle, HandlerGo, mainVars, csrVars, sharedVars, rndStallRegs
  <1>0. UNCHANGED mainVars
    BY DEF HandlerStep
  <1>1. CASE Prologue
    BY <1>0, <1>1 DEF Prologue
  <1>2. CASE SetIrqId
    BY <1>0, <1>2 DEF SetIrqId
  <1>3. CASE ReadMip
    BY <1>0, <1>3 DEF ReadMip
  <1>4. CASE ClearPending
    BY <1>0, <1>4 DEF ClearPending
  <1>5. CASE LowerLine
    BY <1>0, <1>5 DEF LowerLine, WriteLines
  <1>6. CASE SetIrqMode("std", "std_write", STANDARD)
    BY <1>0, <1>6 DEF SetIrqMode
  <1>7. CASE WriteIrqMode("std_write", "rnd")
    BY <1>0, <1>7 DEF WriteIrqMode, WriteMode
  <1>8. CASE SetIrqMode("rnd", "rnd_write", RANDOM)
    BY <1>0, <1>8 DEF SetIrqMode
  <1>9. CASE WriteIrqMode("rnd_write", "epilogue")
    BY <1>0, <1>9 DEF WriteIrqMode, WriteMode
  <1>10. CASE ReadStatus
    BY <1>0, <1>10 DEF ReadStatus
  <1>11. CASE ClearMpie
    BY <1>0, <1>11 DEF ClearMpie
  <1>12. CASE WriteStatus
    BY <1>0, <1>12 DEF WriteStatus
  <1>13. CASE Epilogue
    BY <1>0, <1>13 DEF Epilogue
  <1>14. CASE Return
    BY <1>0, <1>14 DEF Return
  <1> QED
    BY <1>1, <1>2, <1>3, <1>4, <1>5, <1>6, <1>7, <1>8, <1>9, <1>10, <1>11, <1>12, <1>13, <1>14
    DEF HandlerStep

\* Tests 2 and 3: main only gets to a wait through mstatus_enable, which takes long enough.
LEMMA MainKeepsDefined ==
  ASSUME ServeInv, Cycle, MainStep, irq_mode = OFF, irq_mode' = OFF
  PROVE  DefinedInv'
  <1> DEFINE Kept == UNCHANGED <<lines, irq_pending32_std>>
  <1> USE DEF OFF, STANDARD, RANDOM, SOFTWARE_DEFINED
  <1>0. handler = "none" /\ handler' = "none"
    BY DEF MainStep, handlerVars
  <1>1. /\ mode \in {OFF, SOFTWARE_DEFINED} /\ irq_mode_q \in {OFF, SOFTWARE_DEFINED}
        /\ main \notin Bombing /\ main' \notin Bombing
    BY MainInv DEF ServeInv, ChainInv, DefinedInv, IInv, PhaseInv
  <1>2. mode' \in {OFF, SOFTWARE_DEFINED}
    BY <1>1 DEF MainStep, Test1, Test2, Test3, Test5, Ended, Bombing, Go, Sample, Wait, Compare, mstatus_enable,
       mstatus_disable, StatusStep, WriteMode, WriteLines, WriteMin, WriteMax, rndStallRegs
  <1>3. ASSUME Kept
        PROVE  /\ Level(0) => Level(0)' /\ Level(1)'
               /\ Level(1) => Level(2)'
               /\ Level(2) => Level(3)'
               /\ Level(3) => Level(3)'
    BY <1>1, <1>3, WordMovesOn, LevelsBelow DEF Level
  <1>4. ASSUME main' \in Waiting PROVE Level(3)'
    <2>1. Kept /\ (main \in Waiting \/ (main \in Enabling /\ csr_step = "write"))
      <3> USE DEF Waiting, Enabling, Go, Sample, Wait, Compare, mstatus_enable, mstatus_disable, StatusStep,
          sharedVars, rndStallRegs, mainVars
      <3>1. CASE Test2
        BY <1>4, <3>1 DEF Test2
      <3>2. CASE Test3
        BY <1>4, <3>2 DEF Test3
      <3>3. CASE Test1 \/ Test5 \/ Ended
        BY <1>4, <3>3 DEF Test1, Test5, Ended
      <3> QED
        BY <3>1, <3>2, <3>3 DEF MainStep
    <2>2. Level(3)
      BY <1>0, <2>1 DEF ServeInv, ChainInv, DefinedInv
    <2> QED
      BY <1>3, <2>1, <2>2
  <1>5. ASSUME main' \in Between PROVE Level(0)'
    <2>1. \/ Kept /\ main \in Between \union Waiting
          \/ lines' = irq_pending32_std /\ UNCHANGED irq_pending32_std
      <3> USE DEF Waiting, Between, Go, Sample, Wait, Compare, mstatus_enable, mstatus_disable, StatusStep,
          WriteLines, sharedVars, rndStallRegs, mainVars
      <3>1. CASE Test2
        BY <1>5, <3>1 DEF Test2
      <3>2. CASE Test3
        BY <1>5, <3>2 DEF Test3
      <3>3. CASE Test1 \/ Test5 \/ Ended
        BY <1>5, <3>3 DEF Test1, Test5, Ended
      <3> QED
        BY <3>1, <3>2, <3>3 DEF MainStep
    <2>2. main \in Between \union Waiting => Level(0)
      BY <1>0, LevelsBelow DEF ServeInv, ChainInv, DefinedInv
    <2>3. lines' = irq_pending32_std /\ UNCHANGED irq_pending32_std => Level(0)'
      BY DEF Level
    <2> QED
      BY <1>3, <2>1, <2>2, <2>3
  <1>6. ASSUME main' \in Enabling
        PROVE  /\ csr_step' = "read" => Level(1)'
               /\ csr_step' = "save" => Level(2)'
               /\ csr_step' \notin {"read", "save"} => Level(3)'
    <2>1. /\ Kept
          /\ \/ main \in Between /\ UNCHANGED csr_step
             \/ main \in Enabling /\ csr_step = "read" /\ csr_step' = "save"
             \/ main \in Enabling /\ csr_step = "save" /\ csr_step' \notin {"read", "save"}
             \/ main \in Enabling /\ csr_step \in {"load", "store", "reload"} /\ csr_step' \notin {"read", "save"}
      <3> USE DEF Enabling, Between, Go, Sample, Wait, Compare, mstatus_enable, mstatus_disable, StatusStep,
          sharedVars, rndStallRegs, mainVars
      <3>1. CASE Test2
        BY <1>6, <3>1 DEF Test2
      <3>2. CASE Test3
        <4>1. Sample("3next", "3enable") \/ mstatus_enable("3enable", "3wait")
          BY <1>6, <3>2 DEF Test3
        <4> QED
          BY <1>6, <4>1
      <3>3. CASE Test1 \/ Test5 \/ Ended
        BY <1>6, <3>3 DEF Test1, Test5, Ended, Ends
      <3> QED
        BY <3>1, <3>2, <3>3 DEF MainStep
    <2>2. CASE main \in Between /\ UNCHANGED csr_step
      BY <1>3, <2>1, <2>2 DEF ServeInv, ChainInv, DefinedInv, IInv, CallInv, Calls, Enabling, Disabling, Between
    <2>3. CASE main \in Enabling
      BY <1>3, <2>1, <2>3 DEF ServeInv, ChainInv, DefinedInv, Enabling, Between
    <2> QED
      BY <2>1, <2>2, <2>3
  <1> QED
    BY <1>0, <1>1, <1>2, <1>4, <1>5, <1>6 DEF DefinedInv, Cycle

\* Test 5: the generator is in its mode, and its lines are in mip, before mstatus_enable ends.
LEMMA MainKeepsRandom ==
  ASSUME ServeInv, Cycle, MainStep
  PROVE  RandomInv'
  <1> USE DEF OFF, STANDARD, RANDOM, SOFTWARE_DEFINED
  <1>0. handler = "none" /\ UNCHANGED handlerVars /\ handler' = "none"
    BY DEF MainStep, handlerVars
  <1>t. RandomInv /\ IInv
    BY DEF ServeInv, ChainInv
  <1> USE DEF RandomInv, HeldInv, Bombing, Waiting, Cycle, Go, csrVars, sharedVars, rndStallRegs
  <1>c. ASSUME NEW from, NEW to, NEW set, NEW clear, StatusStep(from, to, set, clear),
               \/ from \notin Bombing /\ to \notin Bombing
               \/ from = "5enable" /\ to = "5mult"
               \/ from = "5end" /\ to = "5check"
        PROVE  RandomInv'
    BY <1>0, <1>t, <1>c DEF StatusStep
  <1>1. CASE Test1
    BY <1>0, <1>t, <1>c, <1>1 DEF Test1, mstatus_disable, WriteMie, WriteMode
  <1>2. CASE Test2
    BY <1>0, <1>t, <1>c, <1>2 DEF Test2, mstatus_disable, mstatus_enable, WriteMie, WriteLines, Sample, Wait, Compare
  <1>3. CASE Test3
    BY <1>0, <1>t, <1>c, <1>3 DEF Test3, mstatus_disable, mstatus_enable, WriteMie, WriteLines, Sample, Wait, Compare
  <1>5. CASE Test5
    BY <1>0, <1>t, <1>c, <1>5 DEF Test5, mstatus_disable, mstatus_enable, WriteMie, WriteMin, WriteMax, WriteMode,
       IInv, PhaseInv, EnabledInv, CallInv, Calls, Enabling, Disabling
  <1>6. CASE Ended
    BY <1>0, <1>t, <1>6 DEF Ended, mainVars
  <1> QED
    BY <1>1, <1>2, <1>3, <1>5, <1>6 DEF MainStep

\* Every cycle, and every stutter, preserves the chain.
LEMMA NextServes ==
  ASSUME ServeInv, [Next]_vars
  PROVE  ServeInv'
  <1>1. IInv'
    BY NextInv DEF ServeInv
  <1>2. ASSUME Next PROVE ChainInv'
    <2>1. Cycle /\ IdleInv'
      BY <1>2, GeneratorCycle DEF Next, ServeInv, ChainInv
    <2>2. CASE Stall
      BY <2>1, <2>2, StallServes DEF Stall, ChainInv, mainVars, handlerVars, csrVars, sharedVars
    <2>3. CASE TakeInterrupt
      <3>1. handler = "none"
        BY <2>3 DEF TakeInterrupt, irq_req, ServeInv, IInv, MaskedInv
      <3> QED
        BY <2>1, <2>3, <3>1, TakeInterruptServes DEF ChainInv
    <2>4. CASE HandlerStep
      <3>1. irq_mode # OFF => irq_mode' # OFF
        BY <2>4 DEF HandlerStep, HandlerGo, Prologue, SetIrqId, ReadMip, ClearPending, LowerLine, SetIrqMode,
           WriteIrqMode, ReadStatus, ClearMpie, WriteStatus, Epilogue, Return, sharedVars, OFF, STANDARD, RANDOM
      <3> QED
        BY <2>1, <2>4, <3>1, HandlerKeepsDefined, HandlerKeepsRandom DEF ChainInv, DefinedInv
    <2>5. CASE MainStep
      <3>1. irq_mode' \in {irq_mode, RANDOM}
        <4> USE DEF Sample, Wait, Compare, mstatus_enable, mstatus_disable, StatusStep, sharedVars
        <4>1. CASE Test1 \/ Test2 \/ Ended
          BY <4>1 DEF Test1, Test2, Ended
        <4>2. CASE Test3
          BY <4>2 DEF Test3
        <4>3. CASE Test5
          BY <4>3 DEF Test5
        <4> QED
          BY <2>5, <4>1, <4>2, <4>3 DEF MainStep
      <3>2. irq_mode # OFF => irq_mode' # OFF
        BY <3>1 DEF OFF, RANDOM
      <3> QED
        BY <2>1, <2>5, <3>2, MainKeepsDefined, MainKeepsRandom DEF ChainInv, DefinedInv
    <2> QED
      BY <1>2, <2>2, <2>3, <2>4, <2>5 DEF Next, Execute
  <1>3. ASSUME UNCHANGED vars PROVE ChainInv'
    BY <1>3 DEF ServeInv, ChainInv, DefinedInv, RandomInv, HeldInv, IdleInv, Level, vars, mainVars, handlerVars,
       csrVars, sharedVars, rndStallRegs, generatorVars
  <1> QED
    BY <1>1, <1>2, <1>3 DEF ServeInv

\* The registers are empty at the start.
LEMMA InitServes == Init => ServeInv
  <1> SUFFICES ASSUME Init PROVE ChainInv
    BY InitInv DEF ServeInv
  <1> QED
    BY DEF Init, GeneratorInit, ChainInv, DefinedInv, RandomInv, IdleInv, Waiting, Enabling, Between, Bombing, OFF,
       STANDARD, SOFTWARE_DEFINED

\* A step that enters a handler is TakeInterrupt, with interrupts enabled.
LEMMA EntryServesPending ==
  ASSUME ServeInv, TypeInv, Next, handler = "none", handler' # "none"
  PROVE  vector' \in (IF irq_mode = RANDOM THEN irq_rnd_lines ELSE irq_pending32_std)
  <1>1. TakeInterrupt
    BY DEF Next, Stall, Execute, HandlerStep, MainStep, handlerVars, HandlerGo, Prologue, SetIrqId, ReadMip,
       ClearPending, LowerLine, SetIrqMode, WriteIrqMode, ReadStatus, ClearMpie, WriteStatus, Epilogue, Return
  <1>2. vector' \in irq_q
    BY <1>1, EncoderNamesARequest DEF TakeInterrupt, irq_req, TypeInv, ProgramType
  <1>3. MSTATUS_MIE_BIT \in mstatus /\ irq_mode \in {OFF, RANDOM}
    BY <1>1 DEF TakeInterrupt, irq_req, ServeInv, IInv, PhaseInv
  <1>4. CASE irq_mode = OFF
    <2>1. Level(3)
      BY <1>3, <1>4 DEF ServeInv, IInv, EnabledInv, ChainInv, DefinedInv
    <2> QED
      BY <1>2, <1>4, <2>1 DEF Level, OFF, RANDOM
  <1>5. CASE irq_mode = RANDOM
    <2>1. HeldInv
      BY <1>3, <1>5 DEF ServeInv, IInv, PhaseInv, ChainInv, RandomInv, Bombing, OFF, RANDOM
    <2> QED
      BY <1>2, <1>5, <2>1 DEF HeldInv
  <1> QED
    BY <1>3, <1>4, <1>5

\* The core never takes an interrupt that the program has already served: a line that a handler
\* lowers is gone from mip, three registers further on, before interrupts are enabled again,
\* whatever the stalls of the memories, the random words and the order in which the simulator
\* runs the generator's processes.
THEOREM PendingIsServed == Spec => ServesWhatIsPending
  <1>1. Init => TypeInv /\ ServeInv
    BY InitTypes, InitServes
  <1>2. TypeInv /\ ServeInv /\ [Next]_vars => TypeInv' /\ ServeInv'
    BY NextTypes, NextServes DEF ServeInv
  <1>3. TypeInv /\ ServeInv /\ [Next]_vars
        => [handler = "none" /\ handler' # "none" =>
              vector' \in (IF irq_mode = RANDOM THEN irq_rnd_lines ELSE irq_pending32_std)]_vars
    BY EntryServesPending
  <1> QED
    BY <1>1, <1>2, <1>3, PTL DEF Spec, ServesWhatIsPending

-----------------------------------------------------------------------------
(* The order in which interrupts are served.                                 *)

InTwo == {"2sample", "2enable", "2wait", "2check"}
InThree == {"3next", "3enable", "3wait", "3check", "3end"}

\* Test 2 expects every line, test 3 those that were drawn and enabled.
Wanted(n) == main \in InTwo \/ IRQ_ID_PRIORITY[n] \in test.to_test

\* What is pending and enabled are the expected lines from the n-th on, by priority.
Left(k) ==
    \A n \in 1 .. IRQ_NUM :
      IRQ_ID_PRIORITY[n] \in irq_pending32_std \intersect mie <=> n >= k /\ Wanted(n)

\* Before and after the handler of the i-th line has cleared its bit.
Before == Left(i) /\ Wanted(i) /\ test.prev = irq_pending32_std
After == Left(i + 1) /\ irq_id = IRQ_ID_PRIORITY[i] /\ test.prev # irq_pending32_std

\* What main has set up for tests 2 and 3, and what it tells the handler.
SetUpInv ==
    /\ main \in {"2pending", "2disable", "2write"} \union InTwo => mie = IRQ_MASK
    /\ main \in {"2disable", "2write"} => irq_pending32_std = Bits
    /\ main \in {"3pending", "3disable", "3write"} \union InThree => mie = test.ie
    /\ main \in {"3disable", "3write"} \union InThree =>
         /\ test.to_test = test.first \intersect test.ie
         /\ irq_pending32_std \ test.ie = test.first \ test.ie
    /\ main \in {"3disable", "3write"} => irq_pending32_std = test.first

\* One round of the loop over the priorities serves one line.
OrderInv ==
    /\ main \in {"2sample", "3next"} => Left(i)
    /\ main \in Enabling => Before
    /\ main \in Waiting /\ handler = "none" => Before \/ After
    /\ main \in Waiting /\ handler \in {"prologue", "id", "clear"} =>
         Before /\ (IF handler = "clear" THEN irq_id ELSE vector) = IRQ_ID_PRIORITY[i]
    /\ main \in Waiting /\ handler \notin {"none", "prologue", "id", "clear"} => After
    /\ main \in {"2check", "3check"} => After
    /\ main = "3end" => Left(IRQ_NUM + 1)

\* The rows of the product are those main has multiplied.
ProductInv ==
    /\ \A n \in 1 .. Len(res) : res[n] = MultipliedRow(n)
    /\ main \in {"5end", "5check"} => Len(res) = MAT_DIM

\* The product is computed row by row, and the program serves one line after the other.
TestInvariant == TypeInv /\ ServeInv /\ SetUpInv /\ OrderInv /\ ProductInv

-----------------------------------------------------------------------------
\* IRQ_ID_PRIORITY names each implemented line once.
LEMMA PriorityNamesLines ==
  /\ \A n \in 1 .. IRQ_NUM : IRQ_ID_PRIORITY[n] \in IRQ_MASK
  /\ \A m, n \in 1 .. IRQ_NUM : IRQ_ID_PRIORITY[m] = IRQ_ID_PRIORITY[n] => m = n
  /\ \A line \in IRQ_MASK : \E n \in 1 .. IRQ_NUM : IRQ_ID_PRIORITY[n] = line
  <1>1. /\ \A n \in 1 .. 16 : IRQ_ID_PRIORITY[n] = 32 - n
        /\ IRQ_ID_PRIORITY[17] = 11 /\ IRQ_ID_PRIORITY[18] = 3 /\ IRQ_ID_PRIORITY[19] = 7
    BY DEF IRQ_ID_PRIORITY
  <1>2. \A n \in 1 .. IRQ_NUM : n \in 1 .. 16 \/ n = 17 \/ n = 18 \/ n = 19
    BY DEF IRQ_NUM
  <1>3. \A n \in 1 .. IRQ_NUM : IRQ_ID_PRIORITY[n] \in IRQ_MASK
    BY <1>1, <1>2 DEF IRQ_MASK
  <1>4. \A m, n \in 1 .. IRQ_NUM : IRQ_ID_PRIORITY[m] = IRQ_ID_PRIORITY[n] => m = n
    BY <1>1, <1>2
  <1>5. ASSUME NEW line \in IRQ_MASK PROVE \E n \in 1 .. IRQ_NUM : IRQ_ID_PRIORITY[n] = line
    <2>1. CASE line \in 16 .. 31
      <3>1. 32 - line \in 1 .. 16 /\ 32 - (32 - line) = line
        BY <2>1
      <3> QED
        BY <1>1, <3>1 DEF IRQ_NUM
    <2>2. CASE line \in {3, 7, 11}
      BY <1>1, <2>2 DEF IRQ_NUM
    <2> QED
      BY <2>1, <2>2 DEF IRQ_MASK
  <1> QED
    BY <1>3, <1>4, <1>5

\* The encoder of the core has the program's order: of the lines that are pending it names the
\* one that IRQ_ID_PRIORITY has first.
LEMMA EncoderKeepsPriority ==
  ASSUME NEW q, q \subseteq IRQ_MASK, NEW n \in 1 .. IRQ_NUM, IRQ_ID_PRIORITY[n] \in q,
         \A m \in 1 .. n - 1 : IRQ_ID_PRIORITY[m] \notin q
  PROVE  irq_id_ctrl(q) = IRQ_ID_PRIORITY[n]
  <1> DEFINE Place(m) == IF m <= 16 THEN m ELSE m + 4
             Highest(k) == IrqOrder[k] \in q /\ \A j \in 1 .. k - 1 : IrqOrder[j] \notin q
  <1>1. /\ DOMAIN IrqOrder = 1 .. 32
        /\ \A k \in 1 .. 16 : IrqOrder[k] = 32 - k
        /\ IrqOrder[17] = 15 /\ IrqOrder[18] = 14 /\ IrqOrder[19] = 13 /\ IrqOrder[20] = 12
        /\ IrqOrder[21] = 11 /\ IrqOrder[22] = 3 /\ IrqOrder[23] = 7
        /\ IrqOrder[24] = 10 /\ IrqOrder[25] = 2 /\ IrqOrder[26] = 6 /\ IrqOrder[27] = 9
        /\ IrqOrder[28] = 1 /\ IrqOrder[29] = 5 /\ IrqOrder[30] = 8 /\ IrqOrder[31] = 0 /\ IrqOrder[32] = 4
    BY DEF IrqOrder
  <1>2. /\ \A m \in 1 .. 16 : IRQ_ID_PRIORITY[m] = 32 - m
        /\ IRQ_ID_PRIORITY[17] = 11 /\ IRQ_ID_PRIORITY[18] = 3 /\ IRQ_ID_PRIORITY[19] = 7
    BY DEF IRQ_ID_PRIORITY
  <1>3. \A m \in 1 .. IRQ_NUM : Place(m) \in 1 .. 32 /\ IrqOrder[Place(m)] = IRQ_ID_PRIORITY[m]
    <2>1. ASSUME NEW m \in 1 .. 16 PROVE Place(m) \in 1 .. 32 /\ IrqOrder[Place(m)] = IRQ_ID_PRIORITY[m]
      BY <1>1, <1>2
    <2>2. ASSUME NEW m \in {17, 18, 19} PROVE Place(m) \in 1 .. 32 /\ IrqOrder[Place(m)] = IRQ_ID_PRIORITY[m]
      BY <1>1, <1>2
    <2> QED
      BY <2>1, <2>2 DEF IRQ_NUM
  <1>4. ASSUME NEW k \in 1 .. 32, IrqOrder[k] \in IRQ_MASK
        PROVE  \E m \in 1 .. IRQ_NUM : k = Place(m)
    <2>1. k \in 1 .. 16 \union 21 .. 23
      BY <1>1, <1>4 DEF IRQ_MASK
    <2>2. CASE k \in 1 .. 16
      BY <2>2 DEF IRQ_NUM
    <2>3. CASE k \in 21 .. 23
      <3>1. k - 4 \in 1 .. IRQ_NUM /\ k = Place(k - 4)
        BY <2>3 DEF IRQ_NUM
      <3> QED
        BY <3>1
    <2> QED
      BY <2>1, <2>2, <2>3
  <1>5. \A m \in 1 .. IRQ_NUM : Place(m) < Place(n) => m \in 1 .. n - 1
    BY DEF IRQ_NUM
  <1> HIDE DEF Place
  <1>6. Highest(Place(n))
    BY <1>3, <1>4, <1>5
  <1>7. \A k \in DOMAIN IrqOrder : Highest(k) => k = Place(n)
    BY <1>1, <1>3, <1>6
  <1>8. Place(n) \in DOMAIN IrqOrder
    BY <1>1, <1>3
  <1> HIDE DEF Highest
  <1>9. (CHOOSE k \in DOMAIN IrqOrder : Highest(k)) = Place(n)
    BY <1>6, <1>7, <1>8
  <1> QED
    BY <1>3, <1>9 DEF Highest, irq_id_ctrl

\* What is left when a line that is expected is cleared.
LEMMA ClearedLine ==
  ASSUME NEW k \in 1 .. IRQ_NUM, Left(k), Wanted(k), UNCHANGED <<main, test, mie>>,
         irq_pending32_std' = irq_pending32_std \ {IRQ_ID_PRIORITY[k]}
  PROVE  /\ Left(k + 1)'
         /\ IRQ_ID_PRIORITY[k] \in irq_pending32_std
  <1>1. ASSUME NEW n \in 1 .. IRQ_NUM
        PROVE  (IRQ_ID_PRIORITY[n] \in irq_pending32_std \intersect mie)' <=> n >= k + 1 /\ Wanted(n)'
    <2>1. Wanted(n)' <=> Wanted(n)
      BY DEF Wanted
    <2>2. IRQ_ID_PRIORITY[n] = IRQ_ID_PRIORITY[k] <=> n = k
      BY PriorityNamesLines
    <2>3. IRQ_ID_PRIORITY[n] \in irq_pending32_std \intersect mie <=> n >= k /\ Wanted(n)
      BY DEF Left
    <2>4. n >= k /\ n # k <=> n >= k + 1
      OBVIOUS
    <2> QED
      BY <2>1, <2>2, <2>3, <2>4
  <1>2. IRQ_ID_PRIORITY[k] \in irq_pending32_std
    BY DEF Left
  <1> QED
    BY <1>1, <1>2 DEF Left

-----------------------------------------------------------------------------
\* A stall, or a step of a handler that leaves what main looks at alone.
LEMMA StallKeepsOrder ==
  ASSUME SetUpInv, OrderInv, ProductInv,
         UNCHANGED <<main, i, test, res, mie, irq_id, irq_pending32_std, handler, vector>>
  PROVE  SetUpInv' /\ OrderInv' /\ ProductInv'
  <1>1. SetUpInv' /\ ProductInv'
    BY DEF SetUpInv, ProductInv
  <1>2. /\ Before <=> Before'
        /\ After <=> After'
        /\ Left(i) <=> Left(i)'
        /\ Left(IRQ_NUM + 1) <=> Left(IRQ_NUM + 1)'
    BY DEF Before, After, Left, Wanted
  <1> QED
    BY <1>1, <1>2 DEF OrderInv

\* The core takes the line that main waits for.
LEMMA TakeInterruptKeepsOrder ==
  ASSUME TestInvariant, handler = "none", TakeInterrupt
  PROVE  SetUpInv' /\ OrderInv' /\ ProductInv'
  <1>1. /\ handler' = "prologue" /\ MSTATUS_MIE_BIT \in mstatus /\ irq_q \intersect mie # {}
        /\ vector' = irq_id_ctrl(irq_q \intersect mie)
        /\ UNCHANGED <<main, i, test, res, mie, irq_id, irq_pending32_std>>
    BY DEF TakeInterrupt, irq_req, mainVars, sharedVars
  <1>2. SetUpInv' /\ ProductInv'
    BY <1>1 DEF TestInvariant, SetUpInv, ProductInv
  <1>3. ASSUME main \in Waiting PROVE Before /\ vector' = IRQ_ID_PRIORITY[i]
    <2>1. irq_mode = OFF
      BY <1>3 DEF TestInvariant, ServeInv, IInv, PhaseInv, Waiting, Bombing
    <2>2. test.prev = irq_pending32_std /\ Level(3)
      BY <1>1, <1>3, <2>1 DEF TestInvariant, ServeInv, IInv, EnabledInv, ChainInv, DefinedInv
    <2>3. Before
      BY <1>3, <2>2 DEF TestInvariant, OrderInv, After
    <2>4. irq_q \intersect mie = irq_pending32_std \intersect mie /\ mie \subseteq IRQ_MASK
      BY <1>1, <2>2 DEF Level, TestInvariant, TypeInv, ProgramType
    <2>5. i \in 1 .. IRQ_NUM
      BY DEF TestInvariant, TypeInv, ProgramType
    <2>6. /\ IRQ_ID_PRIORITY[i] \in irq_q \intersect mie
          /\ \A m \in 1 .. i - 1 : IRQ_ID_PRIORITY[m] \notin irq_q \intersect mie
      BY <2>3, <2>4, <2>5 DEF Before, Left, IRQ_NUM
    <2> QED
      BY <1>1, <2>3, <2>4, <2>5, <2>6, EncoderKeepsPriority
  <1>4. ASSUME main \notin Waiting PROVE OrderInv'
    <2>1. main \in Bombing
      BY <1>1, <1>4 DEF TestInvariant, ServeInv, IInv, PhaseInv, EnabledInv
    <2> QED
      BY <1>1, <2>1 DEF OrderInv, Bombing, Enabling, Waiting
  <1>5. CASE main \in Waiting
    <2>1. Before'
      BY <1>1, <1>3, <1>5 DEF Before, Left, Wanted
    <2> QED
      BY <1>1, <1>2, <1>3, <1>5, <2>1 DEF OrderInv, Waiting, Enabling
  <1> QED
    BY <1>2, <1>4, <1>5

\* The handler clears the bit of the line it was entered for.
LEMMA HandlerKeepsOrder ==
  ASSUME TestInvariant, HandlerStep
  PROVE  SetUpInv' /\ OrderInv' /\ ProductInv'
  <1> USE DEF HandlerGo, sharedVars, csrVars
  <1>0. handler # "none" /\ UNCHANGED <<main, i, test, res>> /\ UNCHANGED <<mie, vector>>
    BY DEF HandlerStep, mainVars, Prologue, SetIrqId, ReadMip, ClearPending, LowerLine, SetIrqMode, WriteIrqMode,
       ReadStatus, ClearMpie, WriteStatus, Epilogue, Return
  <1>1. ProductInv'
    BY <1>0 DEF TestInvariant, ProductInv
  <1>2. CASE irq_mode # OFF
    <2>1. main \in Bombing /\ main' \in Bombing
      BY <1>0, <1>2 DEF TestInvariant, ServeInv, IInv, PhaseInv
    <2> QED
      BY <1>1, <2>1 DEF SetUpInv, OrderInv, Bombing, InTwo, InThree, Enabling, Waiting
  <1>3. CASE irq_mode = OFF
    <2>0. main \in Waiting /\ main' \in Waiting
      BY <1>0, <1>3 DEF TestInvariant, ServeInv, IInv, EnabledInv
    <2>1. handler \in {"prologue", "id", "clear"} => Before
      BY <2>0 DEF TestInvariant, OrderInv
    <2>2. CASE SetIrqId
      <3>1. handler = "id" /\ handler' = "clear" /\ irq_id' = vector /\ UNCHANGED irq_pending32_std
        BY <1>3, <2>2 DEF SetIrqId, OFF, RANDOM
      <3>2. Before'
        BY <1>0, <2>1, <3>1 DEF Before, Left, Wanted
      <3>3. vector = IRQ_ID_PRIORITY[i]
        BY <2>0, <3>1 DEF TestInvariant, OrderInv
      <3>4. OrderInv'
        BY <1>0, <2>0, <3>1, <3>2, <3>3 DEF OrderInv, Waiting, Enabling
      <3>5. SetUpInv'
        BY <1>0, <3>1 DEF TestInvariant, SetUpInv
      <3> QED
        BY <1>1, <3>4, <3>5
    <2>3. CASE ClearPending
      <3>1. handler = "clear" /\ handler' = "lines" /\ UNCHANGED irq_id
            /\ irq_pending32_std' = irq_pending32_std \ {irq_id}
        BY <2>3 DEF ClearPending
      <3>2. Before /\ irq_id = IRQ_ID_PRIORITY[i] /\ i \in 1 .. IRQ_NUM
        BY <2>0, <2>1, <3>1 DEF TestInvariant, OrderInv, TypeInv, ProgramType
      <3>3. PICK k \in 1 .. IRQ_NUM : k = i
        BY <3>2
      <3>4. Left(k + 1)' /\ irq_id \in irq_pending32_std /\ irq_id \in mie
        <4>1. Left(k) /\ Wanted(k)
          BY <3>2, <3>3 DEF Before
        <4>2. IRQ_ID_PRIORITY[k] \in mie
          BY <4>1 DEF Left
        <4> QED
          BY <1>0, <3>1, <3>2, <3>3, <4>1, <4>2, ClearedLine
      <3>5. After'
        <4>1. Left(i + 1)'
          BY <1>0, <3>3, <3>4 DEF Left, Wanted
        <4>2. test.prev' # irq_pending32_std'
          BY <1>0, <3>1, <3>2, <3>4 DEF Before
        <4> QED
          BY <1>0, <3>1, <3>2, <4>1, <4>2 DEF After
      <3>6. OrderInv'
        BY <2>0, <3>1, <3>5 DEF OrderInv, Waiting, Enabling
      <3>7. SetUpInv'
        BY <1>0, <2>0, <3>1, <3>4 DEF TestInvariant, SetUpInv, Waiting, InTwo, InThree
      <3> QED
        BY <1>1, <3>6, <3>7
    <2>4. CASE ~SetIrqId /\ ~ClearPending
      <3>1. /\ UNCHANGED <<irq_id, irq_pending32_std>>
            /\ \/ handler = "prologue" /\ handler' = "id"
               \/ /\ handler \notin {"none", "prologue", "id", "clear"}
                  /\ handler' \notin {"prologue", "id", "clear"}
        <4>1. ~ReadMip
          BY <1>3 DEF ReadMip, TestInvariant, ServeInv, IInv, PhaseInv
        <4> QED
          BY <2>4, <4>1 DEF HandlerStep, Prologue, LowerLine, SetIrqMode, WriteIrqMode, ReadStatus, ClearMpie,
             WriteStatus, Epilogue, Return
      <3>2. (Before <=> Before') /\ (After <=> After')
        BY <1>0, <3>1 DEF Before, After, Left, Wanted
      <3>3. OrderInv'
        BY <1>0, <2>0, <3>1, <3>2 DEF TestInvariant, OrderInv, Waiting, Enabling
      <3>4. SetUpInv'
        BY <1>0, <3>1 DEF TestInvariant, SetUpInv
      <3> QED
        BY <1>1, <3>3, <3>4
    <2> QED
      BY <2>2, <2>3, <2>4
  <1> QED
    BY <1>2, <1>3

\* A row is multiplied for every i.
LEMMA MainKeepsProduct ==
  ASSUME TypeInv, ProductInv, MainStep
  PROVE  ProductInv'
  <1>1. CASE main = "5mult"
    <2>1. /\ res' = Append(res, MultipliedRow(i))
          /\ main' = IF i < MAT_DIM THEN "5mult" ELSE "5end"
      BY <1>1 DEF MainStep, Test1, Test2, Test3, Test5, Ended, Ends, Go, mstatus_disable, mstatus_enable, StatusStep,
         Sample, Wait, Compare
    <2>2. res \in Seq({MultipliedRow(n) : n \in 1 .. MAT_DIM}) /\ i \in 1 .. MAT_DIM /\ Len(res) = i - 1
      BY <1>1 DEF TypeInv, RowsInv, ProgramType, IRQ_NUM, MAT_DIM
    <2> DEFINE Rows == {MultipliedRow(n) : n \in 1 .. MAT_DIM}
    <2>3. MultipliedRow(i) \in Rows
      BY <2>2
    <2> HIDE DEF Rows
    <2>4. Len(res') = i /\ \A n \in 1 .. i : res'[n] = IF n < i THEN res[n] ELSE MultipliedRow(i)
      BY <2>1, <2>2, <2>3 DEF Rows
    <2>5. \A n \in 1 .. i - 1 : res[n] = MultipliedRow(n)
      BY <2>2 DEF ProductInv
    <2>6. \A n \in 1 .. Len(res') : res'[n] = MultipliedRow(n)
      <3> SUFFICES ASSUME NEW n \in 1 .. i PROVE res'[n] = MultipliedRow(n)
        BY <2>4
      <3>1. CASE n < i
        BY <2>2, <2>4, <2>5, <3>1
      <3>2. CASE n = i
        BY <2>2, <2>4, <3>2
      <3> QED
        BY <2>2, <3>1, <3>2
    <2>7. main' \in {"5end", "5check"} => Len(res') = MAT_DIM
      BY <2>1, <2>2, <2>4 DEF MAT_DIM
    <2> QED
      BY <2>6, <2>7 DEF ProductInv
  <1>2. CASE main # "5mult"
    <2> USE DEF Go, mstatus_disable, mstatus_enable, StatusStep, Sample, Wait, Compare
    <2>1. UNCHANGED res /\ (main' \in {"5end", "5check"} => main \in {"5end", "5check"})
      <3>1. CASE Test1 \/ Test2 \/ Ended
        BY <1>2, <3>1 DEF Test1, Test2, Ended, Ends, mainVars
      <3>2. CASE Test3
        BY <1>2, <3>2 DEF Test3
      <3>3. CASE Test5
        BY <1>2, <3>3 DEF Test5
      <3> QED
        BY <3>1, <3>2, <3>3 DEF MainStep
    <2> QED
      BY <2>1 DEF ProductInv
  <1> QED
    BY <1>1, <1>2

\* Test 2 enables every line and expects every one.
LEMMA Test2KeepsSetUp ==
  ASSUME TestInvariant, Test2, UNCHANGED handlerVars, handler = "none"
  PROVE  SetUpInv'
  <1>1. Bits \intersect IRQ_MASK = IRQ_MASK
    BY DEF Bits, IRQ_MASK
  <1> QED
    BY <1>1 DEF TestInvariant, SetUpInv, Test2, Go, mstatus_disable, mstatus_enable, StatusStep, Sample, Wait, Compare,
       WriteMie, WriteLines, sharedVars, csrVars, InTwo, InThree

\* Test 3 draws two words and expects what both have.
LEMMA Test3KeepsSetUp ==
  ASSUME TestInvariant, Test3, UNCHANGED handlerVars, handler = "none"
  PROVE  SetUpInv'
  <1> USE DEF Go, mstatus_disable, mstatus_enable, StatusStep, Wait, Compare, sharedVars, csrVars, InTwo, InThree
  <1>t. test \in [{"prev", "ie", "first", "to_test"} -> SUBSET Bits] /\ SetUpInv
    BY DEF TestInvariant, TypeInv, ProgramType
  <1>1. CASE Go("3mie", "3pending")
    <2>1. PICK word \in RandomWords : test' = [NoTest EXCEPT !.ie = word \intersect STD_IRQ_MASK]
                                      /\ WriteMie(word \intersect STD_IRQ_MASK)
      BY <1>1 DEF Test3, Sample
    <2>2. test'.ie = word \intersect STD_IRQ_MASK
      BY <2>1 DEF NoTest
    <2>3. mie' = word \intersect STD_IRQ_MASK
      BY <2>1 DEF WriteMie, STD_IRQ_MASK, IRQ_MASK
    <2> QED
      BY <1>1, <2>2, <2>3 DEF SetUpInv
  <1>2. CASE Go("3pending", "3disable")
    <2>1. PICK word \in RandomWords :
            /\ irq_pending32_std' = word \intersect STD_IRQ_MASK
            /\ test' = [test EXCEPT !.first = word \intersect STD_IRQ_MASK,
                                    !.to_test = (word \intersect STD_IRQ_MASK) \intersect test.ie]
      BY <1>2 DEF Test3, Sample
    <2>2. UNCHANGED mie
      BY <1>2 DEF Test3, Sample
    <2>3. /\ test'.first = word \intersect STD_IRQ_MASK
          /\ test'.to_test = (word \intersect STD_IRQ_MASK) \intersect test.ie
          /\ test'.ie = test.ie
      BY <1>t, <2>1
    <2> QED
      BY <1>2, <1>t, <2>1, <2>2, <2>3 DEF SetUpInv
  <1>3. ASSUME NEW from, NEW to, Sample(from, to), {from, to} \subseteq InThree
        PROVE  SetUpInv'
    <2>1. /\ test'.ie = test.ie /\ test'.first = test.first /\ test'.to_test = test.to_test
          /\ UNCHANGED <<mie, irq_pending32_std>> /\ main = from /\ main' = to
      BY <1>3, <1>t DEF Sample
    <2> QED
      BY <1>3, <1>t, <2>1 DEF SetUpInv
  <1>4. CASE main \notin {"3mie", "3pending"} /\ UNCHANGED <<test, mie, irq_pending32_std>>
    BY <1>4, <1>t DEF Test3, SetUpInv, Sample
  <1>5. CASE main' = "5disable" \/ main' = "err3"
    BY <1>5 DEF SetUpInv
  <1> QED
    BY <1>1, <1>2, <1>3, <1>4, <1>5 DEF Test3

\* Before the first round every expected line is pending and enabled, and no other.
LEMMA NothingIsServedYet ==
  ASSUME SetUpInv, main \in {"2write", "3write"}, main' \in {"2sample", "3next"},
         main = "2write" <=> main' = "2sample",
         UNCHANGED <<test, mie, irq_pending32_std>>, i = 1, i' = 1
  PROVE  Left(i)'
  <1>1. \A n \in 1 .. IRQ_NUM : IRQ_ID_PRIORITY[n] \in IRQ_MASK /\ n >= 1
    BY PriorityNamesLines
  <1>2. IRQ_MASK \subseteq Bits
    BY DEF IRQ_MASK, Bits
  <1>3. CASE main = "2write"
    BY <1>1, <1>2, <1>3 DEF SetUpInv, Left, Wanted, InTwo
  <1>4. CASE main = "3write"
    BY <1>1, <1>4 DEF SetUpInv, Left, Wanted, InTwo
  <1> QED
    BY <1>3, <1>4

\* One statement of a round: sample, enable, wait, compare.
LEMMA RoundKeepsOrder ==
  ASSUME TestInvariant, handler = "none", handler' = "none",
         NEW two \in BOOLEAN, (main \in InTwo <=> two) /\ (main' \in InTwo <=> two),
         UNCHANGED <<mie, irq_id, irq_pending32_std>>,
         \/ /\ main \in {"2sample", "3next"} /\ main' \in Enabling /\ UNCHANGED i
            /\ test' = [test EXCEPT !.prev = irq_pending32_std] /\ Wanted(i)
         \/ main \in Enabling /\ main' \in Enabling \union Waiting /\ UNCHANGED <<i, test>>
         \/ /\ main \in Waiting /\ UNCHANGED <<i, test>>
            /\ IF test.prev = irq_pending32_std THEN main' \in Waiting ELSE main' \in {"2check", "3check"}
         \/ /\ main \in {"2check", "3check"} \/ (main = "3next" /\ ~Wanted(i))
            /\ main' \in {"2sample", "3next"} /\ i < IRQ_NUM /\ i' = i + 1 /\ UNCHANGED test
         \/ /\ main = "3check" \/ (main = "3next" /\ ~Wanted(i))
            /\ main' = "3end" /\ i = IRQ_NUM /\ UNCHANGED test
  PROVE  OrderInv'
  <1>0. test \in [{"prev", "ie", "first", "to_test"} -> SUBSET Bits] /\ i \in 1 .. IRQ_NUM /\ OrderInv
    BY DEF TestInvariant, TypeInv, ProgramType
  <1>1. test'.to_test = test.to_test
    BY <1>0
  <1>2. \A n : Wanted(n) <=> Wanted(n)'
    BY <1>1 DEF Wanted
  <1>3. \A k \in 1 .. IRQ_NUM + 1 : Left(k) <=> Left(k)'
    BY <1>2 DEF Left
  <1>4. i + 1 \in 1 .. IRQ_NUM + 1 /\ IRQ_NUM + 1 \in 1 .. IRQ_NUM + 1 /\ IRQ_NUM \in Nat
    BY <1>0 DEF IRQ_NUM
  <1>5. CASE main \in {"2sample", "3next"} /\ main' \in Enabling
    <2>1. test'.prev = irq_pending32_std /\ UNCHANGED i /\ Wanted(i)
      BY <1>0, <1>5 DEF Enabling, Waiting
    <2>2. Left(i)
      BY <1>0, <1>5 DEF OrderInv
    <2>3. Before'
      <3>1. PICK k \in 1 .. IRQ_NUM + 1 : k = i
        BY <1>0, <1>4
      <3>2. Left(k)' /\ Wanted(k)' /\ i' = k
        BY <1>2, <1>3, <2>1, <2>2, <3>1
      <3> QED
        BY <2>1, <3>2 DEF Before, Left, Wanted
    <2> QED
      BY <1>5, <2>3 DEF OrderInv, Enabling, Waiting
  <1>6. CASE main \in Enabling
    <2>1. Before /\ UNCHANGED <<i, test>> /\ main' \in Enabling \union Waiting
      BY <1>0, <1>6 DEF OrderInv, Enabling, Waiting
    <2>2. Before'
      BY <1>2, <2>1 DEF Before, Left
    <2> QED
      BY <2>1, <2>2 DEF OrderInv, Enabling, Waiting
  <1>7. CASE main \in Waiting
    <2>1. /\ UNCHANGED <<i, test>> /\ (Before \/ After)
          /\ IF test.prev = irq_pending32_std THEN main' \in Waiting ELSE main' \in {"2check", "3check"}
      BY <1>0, <1>7 DEF OrderInv, Enabling, Waiting
    <2>2. (Before => Before') /\ (After => After')
      BY <1>2, <2>1 DEF Before, After, Left
    <2>3. test.prev # irq_pending32_std => After
      BY <2>1 DEF Before
    <2> QED
      BY <2>1, <2>2, <2>3 DEF OrderInv, Enabling, Waiting
  <1>8. CASE main \in {"2check", "3check", "3next"} /\ main' \in {"2sample", "3next", "3end"}
    <2>1. Left(i + 1)
      <3>1. CASE main \in {"2check", "3check"}
        BY <1>0, <3>1 DEF OrderInv, After
      <3>2. CASE main = "3next"
        <4>1. Left(i) /\ ~Wanted(i)
          BY <1>0, <1>8, <3>2 DEF OrderInv, Enabling, Waiting
        <4>2. \A n \in 1 .. IRQ_NUM : n >= i /\ Wanted(n) <=> n >= i + 1 /\ Wanted(n)
          BY <1>0, <4>1
        <4> QED
          BY <4>1, <4>2 DEF Left
      <3> QED
        BY <1>8, <3>1, <3>2
    <2>2. PICK k \in 1 .. IRQ_NUM + 1 : k = i + 1
      BY <1>4
    <2>3. Left(k)'
      BY <1>3, <2>1, <2>2
    <2>4. \/ main' \in {"2sample", "3next"} /\ i' = k
          \/ main' = "3end" /\ k = IRQ_NUM + 1
      BY <1>8, <2>2 DEF Enabling, Waiting
    <2> QED
      BY <2>3, <2>4 DEF OrderInv, Enabling, Waiting, Left
  <1> QED
    BY <1>5, <1>6, <1>7, <1>8

\* main serves the lines round by round; elsewhere it waits for none.
LEMMA MainKeepsOrder ==
  ASSUME TestInvariant, MainStep
  PROVE  OrderInv'
  <1>0. handler = "none" /\ handler' = "none"
    BY DEF MainStep, handlerVars
  <1>i. i \in 1 .. IRQ_NUM /\ (main \notin Counting => i = 1) /\ OrderInv
    BY DEF TestInvariant, TypeInv, ProgramType, RowsInv
  <1> DEFINE Ordered == {"2sample", "3next", "2check", "3check", "3end"} \union Enabling \union Waiting
  <1>1. ASSUME main' \notin Ordered PROVE OrderInv'
    BY <1>1 DEF OrderInv
  <1> USE DEF Go, sharedVars, csrVars
  <1>2. CASE Test2 /\ main' \in Ordered
    <2> USE DEF Enabling, Waiting, InTwo
    <2>1. CASE Go("2write", "2sample")
      <3>1. UNCHANGED <<i, test, mie, irq_pending32_std>>
        BY <1>2, <2>1 DEF Test2, mstatus_disable, mstatus_enable, StatusStep, Sample, Wait, Compare
      <3>2. Left(i)'
        BY <1>i, <2>1, <3>1, NothingIsServedYet DEF TestInvariant, Counting
      <3> QED
        BY <2>1, <3>2 DEF OrderInv
    <2>2. CASE Sample("2sample", "2enable")
      BY <1>0, <2>2, RoundKeepsOrder DEF Sample, Wanted
    <2>3. CASE mstatus_enable("2enable", "2wait")
      BY <1>0, <2>3, RoundKeepsOrder DEF mstatus_enable, StatusStep
    <2>4. CASE Wait("2wait", "2check")
      BY <1>0, <2>4, RoundKeepsOrder DEF Wait
    <2>5. CASE Compare("2check", "2sample", "3mie", "err2")
      <3>1. i < IRQ_NUM /\ main' = "2sample"
        BY <1>2, <2>5 DEF Compare
      <3> QED
        BY <1>0, <2>5, <3>1, RoundKeepsOrder DEF Compare
    <2> QED
      BY <1>2, <2>1, <2>2, <2>3, <2>4, <2>5 DEF Test2, mstatus_disable, StatusStep
  <1>3. CASE Test3 /\ main' \in Ordered
    <2> USE DEF Enabling, Waiting, InTwo
    <2>1. CASE Go("3write", "3next")
      <3>1. UNCHANGED <<i, test, mie, irq_pending32_std>>
        BY <1>3, <2>1 DEF Test3, mstatus_disable, mstatus_enable, StatusStep, Sample, Wait, Compare
      <3>2. Left(i)'
        BY <1>i, <2>1, <3>1, NothingIsServedYet DEF TestInvariant, Counting
      <3> QED
        BY <2>1, <3>2 DEF OrderInv
    <2>2. CASE IRQ_ID_PRIORITY[i] \in test.to_test /\ Sample("3next", "3enable")
      BY <1>0, <2>2, RoundKeepsOrder DEF Sample, Wanted
    <2>3. CASE /\ IRQ_ID_PRIORITY[i] \notin test.to_test
               /\ Go("3next", IF i < IRQ_NUM THEN "3next" ELSE "3end")
               /\ i' = IF i < IRQ_NUM THEN i + 1 ELSE 1
               /\ UNCHANGED <<test, res, a5, csrVars, sharedVars, rndStallRegs>>
      <3>1. ~Wanted(i) /\ (i < IRQ_NUM \/ i = IRQ_NUM)
        BY <1>i, <2>3 DEF Wanted, IRQ_NUM
      <3> QED
        BY <1>0, <2>3, <3>1, RoundKeepsOrder
    <2>4. CASE mstatus_enable("3enable", "3wait")
      BY <1>0, <2>4, RoundKeepsOrder DEF mstatus_enable, StatusStep
    <2>5. CASE Wait("3wait", "3check")
      BY <1>0, <2>5, RoundKeepsOrder DEF Wait
    <2>6. CASE Compare("3check", "3next", "3end", "err3")
      <3>1. \/ i < IRQ_NUM /\ main' = "3next"
            \/ i = IRQ_NUM /\ main' = "3end"
        BY <1>3, <1>i, <2>6 DEF Compare, IRQ_NUM
      <3> QED
        BY <1>0, <2>6, <3>1, RoundKeepsOrder DEF Compare
    <2> QED
      BY <1>3, <2>1, <2>2, <2>3, <2>4, <2>5, <2>6 DEF Test3, mstatus_disable, StatusStep
  <1>4. CASE (Test1 \/ Test5 \/ Ended) /\ main' \in Ordered
    BY <1>4 DEF Test1, Test5, Ended, Ends, mainVars, mstatus_disable, mstatus_enable, StatusStep, Enabling, Waiting
  <1> QED
    BY <1>1, <1>2, <1>3, <1>4 DEF MainStep

\* Every step, and every stutter, preserves the whole.
LEMMA NextKeepsTest ==
  ASSUME TestInvariant, [Next]_vars
  PROVE  TestInvariant'
  <1>1. TypeInv' /\ ServeInv'
    BY NextTypes, NextServes DEF TestInvariant, ServeInv
  <1>2. ASSUME UNCHANGED vars \/ Stall PROVE SetUpInv' /\ OrderInv' /\ ProductInv'
    BY <1>2, StallKeepsOrder DEF TestInvariant, Stall, vars, mainVars, handlerVars, csrVars, sharedVars
  <1>3. CASE TakeInterrupt
    <2>1. handler = "none"
      BY <1>3 DEF TakeInterrupt, irq_req, TestInvariant, ServeInv, IInv, MaskedInv
    <2> QED
      BY <1>1, <1>3, <2>1, TakeInterruptKeepsOrder DEF TestInvariant
  <1>4. CASE HandlerStep
    BY <1>1, <1>4, HandlerKeepsOrder DEF TestInvariant
  <1>5. CASE MainStep
    <2>1. handler = "none" /\ UNCHANGED handlerVars
      BY <1>5 DEF MainStep
    <2>2. SetUpInv'
      <3>1. CASE Test1 \/ Test5 \/ Ended
        BY <3>1 DEF TestInvariant, SetUpInv, Test1, Test5, Ended, Ends, mainVars, mstatus_disable, mstatus_enable,
           StatusStep, Go, InTwo, InThree
      <3> QED
        BY <1>5, <2>1, <3>1, Test2KeepsSetUp, Test3KeepsSetUp DEF MainStep
    <2> QED
      BY <1>1, <1>5, <2>2, MainKeepsOrder, MainKeepsProduct DEF TestInvariant
  <1> QED
    BY <1>1, <1>2, <1>3, <1>4, <1>5 DEF Next, Execute, TestInvariant

\* Nothing is expected and nothing multiplied at the start.
LEMMA InitTest == Init => TestInvariant
  <1> SUFFICES ASSUME Init PROVE SetUpInv /\ OrderInv /\ ProductInv
    BY InitTypes, InitServes DEF TestInvariant
  <1> QED
    BY DEF Init, SetUpInv, OrderInv, ProductInv, Waiting, Enabling, InTwo, InThree

\* Every comparison of main finds what it expects.
LEMMA ComparisonsSucceed ==
  ASSUME TestInvariant, NoTestFails, [Next]_vars
  PROVE  NoTestFails'
  <1>1. CASE UNCHANGED main
    BY <1>1 DEF NoTestFails
  <1> USE DEF NoTestFails, Go, mstatus_disable, mstatus_enable, StatusStep, Sample, Wait
  <1>2. CASE Test1
    BY <1>2 DEF Test1
  <1>3. ASSUME main \in {"2check", "3check"} PROVE IRQ_ID_PRIORITY[i] = irq_id
    BY <1>3 DEF TestInvariant, OrderInv, After
  <1>4. CASE Test2
    BY <1>3, <1>4 DEF Test2, Compare
  <1>5. ASSUME main = "3end" PROVE irq_pending32_std = test.first \ test.ie
    <2>1. Left(IRQ_NUM + 1) /\ mie = test.ie /\ irq_pending32_std \ test.ie = test.first \ test.ie
      BY <1>5 DEF TestInvariant, OrderInv, SetUpInv, InThree
    <2>2. \A n \in 1 .. IRQ_NUM : IRQ_ID_PRIORITY[n] \notin irq_pending32_std \intersect mie
      BY <2>1 DEF Left, IRQ_NUM
    <2>3. mie \subseteq IRQ_MASK
      BY DEF TestInvariant, TypeInv, ProgramType
    <2>4. irq_pending32_std \intersect mie = {}
      BY <2>2, <2>3, PriorityNamesLines
    <2> QED
      BY <2>1, <2>4
  <1>6. CASE Test3
    <2>1. main' = "err3" => main \in {"3check", "3end"}
      BY <1>6 DEF Test3, Compare
    <2>2. main = "3check" => main' # "err3"
      BY <1>3, <1>6 DEF Test3, Compare
    <2>3. main = "3end" => main' # "err3"
      BY <1>5, <1>6 DEF Test3, Compare
    <2>4. main' \notin {"err2", "err5"}
      BY <1>6 DEF Test3, Compare
    <2> QED
      BY <2>1, <2>2, <2>3, <2>4
  <1>7. ASSUME main = "5check" PROVE res = res_expected
    <2> DEFINE Rows == {MultipliedRow(n) : n \in 1 .. MAT_DIM}
    <2>1. res \in Seq(Rows) /\ Len(res) = MAT_DIM
      BY <1>7 DEF TestInvariant, TypeInv, RowsInv, ProductInv
    <2>2. \A n \in 1 .. MAT_DIM : res[n] = MultipliedRow(n)
      BY <2>1 DEF TestInvariant, ProductInv
    <2> HIDE DEF Rows
    <2>3. res = [n \in 1 .. Len(res) |-> res[n]]
      BY <2>1
    <2>4. res = [n \in 1 .. MAT_DIM |-> MultipliedRow(n)]
      BY <2>1, <2>2, <2>3
    <2> QED
      BY <2>4, ProductAssumption
  <1>8. CASE Test5
    BY <1>7, <1>8 DEF Test5
  <1>9. ASSUME MainStep PROVE NoTestFails'
    <2>1. Ended => UNCHANGED main
      BY DEF Ended, mainVars
    <2> QED
      BY <1>1, <1>2, <1>4, <1>6, <1>8, <1>9, <2>1 DEF MainStep
  <1>10. ASSUME TakeInterrupt \/ HandlerStep \/ Stall \/ UNCHANGED vars PROVE UNCHANGED main
    BY <1>10 DEF TakeInterrupt, HandlerStep, Stall, vars, mainVars
  <1> QED
    BY <1>1, <1>9, <1>10 DEF Next, Execute

\* The program never reports an error, whatever words are drawn, however long the memories stall
\* and whenever the generator raises its lines: the core serves the lines in the order the
\* program expects, each one once and no masked one; and the product of test 5 is the one
\* that matrix.h expects.
THEOREM TestsPass == Spec => []NoTestFails
  <1>1. Init => TestInvariant /\ NoTestFails
    BY InitTest DEF Init, NoTestFails
  <1>2. TestInvariant /\ NoTestFails /\ [Next]_vars => TestInvariant' /\ NoTestFails'
    BY NextKeepsTest, ComparisonsSucceed
  <1> QED
    BY <1>1, <1>2, PTL DEF Spec
=============================================================================
