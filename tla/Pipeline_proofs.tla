--------------------------- MODULE Pipeline_proofs ---------------------------
(***************************************************************************)
(* The dispatcher knows what the FPU is doing, and a CSR access sees the   *)
(* flags of every FPU operation before it.  Forwarding is right: an        *)
(* instruction computes with the newest values of its registers, and no    *)
(* result is lost or overtaken on its way to the register file.  All of it *)
(* for every set of registers and every set of instructions, whatever FPU, *)
(* memory and divider do.                                                  *)
(***************************************************************************)
EXTENDS Pipeline, SequenceTheorems, FiniteSetTheorems, TLAPS

Held(slot) == IF slot = NoAddr THEN 0 ELSE 1

Operations == [value : Values, lat : 1 .. 3]

\* What is in EX: an FPU operation uses neither the ALU's write port nor the memory.
ExInv ==
    /\ {"kind", "alu_we", "req", "misaligned", "result", "apu_en", "apu_lat", "apu_waddr",
        "again"} \subseteq DOMAIN ex
    /\ ex.result \in Values
    /\ ex.apu_en <=> ex.kind = "apu"
    /\ ex.kind = "apu" =>
         ~ex.alu_we /\ ~ex.req /\ ex.apu_lat \in 1 .. 3 /\ ex.apu_waddr \in Registers
    /\ ex.req => ex.kind \in {"load", "store"}
    /\ ex.misaligned => ex.req

\* The MULH sequence runs for the instruction in EX.
MulhInv ==
    /\ mulh_CS \in MulhStates
    /\ mulh_active_o => ex.kind = "mulh"

\* As many slots are taken as there are operations in the FPU and results held back; an
\* operation of many cycles is alone, and only its result can be held back.
SlotInv ==
    /\ fpu \in Seq(Operations)
    /\ apu_result_q \in Values \union {NoAddr}
    /\ Held(inflight) + Held(waiting) = Len(fpu) + Held(apu_result_q)
    /\ waiting # NoAddr => inflight # NoAddr
    /\ apu_lat = 3 => waiting = NoAddr
    /\ apu_result_q # NoAddr => apu_lat = 3

\* The divider works for the instruction in EX.
DivInv ==
    /\ div_state \in DivStates
    /\ div_state # "IDLE" => ex.kind = "div"

\* The FPU has one operation at a time: one of many cycles is alone, and one of two leaves as
\* the next comes.
LatencyInv ==
    /\ waiting = NoAddr
    /\ \A k \in 1 .. Len(fpu) : fpu[k].lat = apu_lat
    /\ fpu # <<>> => apu_lat \in {2, 3}

IInv ==
    ExInv /\ MulhInv /\ DivInv /\ SlotInv /\ LatencyInv /\ CsrWaitsForFlags /\ AccessesAreMadeOnce

-----------------------------------------------------------------------------
\* What the inputs of a cycle have in common: the FPU grants a request that is there, an FPU
\* with nothing under way answers a request of the same cycle, if it has one cycle, and an
\* operation of two cycles is answered in its second.
GoodInput(in) ==
    /\ in.apu_gnt \in BOOLEAN /\ in.apu_rvalid \in BOOLEAN
    /\ in.apu_gnt => valid_req(ex)
    /\ fpu = <<>> => in.apu_rvalid = (valid_req(ex) /\ in.apu_gnt /\ ex.apu_lat = 1)
    /\ fpu # <<>> /\ Head(fpu).lat = 2 => in.apu_rvalid

LEMMA InputsAreGood ==
  ASSUME NEW jalr, NEW in \in Inputs(jalr)
  PROVE  GoodInput(in)
  <1>1. PICK apu_gnt \in Choice(valid_req(ex)) :
           in \in [gnt : Choice(ex.req /\ cnt_q < 2), rvalid : Choice(cnt_q > 0),
                   apu_gnt : {apu_gnt}, apu_rvalid : AnswersNow(apu_gnt),
                   cnt_zero : Choice(div_state = "DIVIDE"), jalr : jalr, is_decoding : BOOLEAN]
    BY DEF Inputs
  <1>2. in.apu_gnt = apu_gnt /\ in.apu_rvalid \in AnswersNow(apu_gnt)
    BY <1>1
  <1>3. apu_gnt \in BOOLEAN /\ (apu_gnt => valid_req(ex))
    BY <1>1 DEF Choice
  <1>4. in.apu_rvalid \in BOOLEAN
    BY <1>2, <1>3 DEF AnswersNow, valid_req
  <1>5. fpu = <<>> => in.apu_rvalid = (valid_req(ex) /\ in.apu_gnt /\ ex.apu_lat = 1)
    BY <1>2 DEF AnswersNow
  <1>6. fpu # <<>> /\ Head(fpu).lat = 2 => in.apu_rvalid
    BY <1>2 DEF AnswersNow
  <1> QED
    BY <1>2, <1>3, <1>4, <1>5, <1>6 DEF GoodInput

\* A value stays a value as it ages, and nothing stays nothing.
LEMMA AgedValue ==
  ASSUME NEW written \in SUBSET Registers
  PROVE  /\ \A value \in Values : Aged(value, written) \in Values
         /\ Aged(NoAddr, written) = NoAddr
         /\ NoAddr \notin Values
  BY PipelineAssumption DEF Aged, Values

\* A result of the FPU is not held back while an FPU operation is in EX.
LEMMA HeldBackWithoutRequest ==
  ASSUME ExInv, MulhInv, NEW in, HoldBack(in)
  PROVE  ~valid_req(ex) /\ apu_lat = 3
  BY DEF HoldBack, ExInv, MulhInv, HoldBackJalr, valid_req, Lsu!data_misaligned_o, data_misaligned,
     apu_multicycle_o

\* The FPU's queue after a cycle.
LEMMA FpuStep ==
  ASSUME ExInv, SlotInv, NEW in, GoodInput(in), NEW written \in SUBSET Registers,
         FpuEdge(in, written)
  PROVE  /\ fpu' \in Seq(Operations)
         /\ Len(fpu') = Len(fpu) - (IF in.apu_rvalid /\ fpu # <<>> THEN 1 ELSE 0)
                          + (IF in.apu_gnt /\ ex.apu_lat # 1 THEN 1 ELSE 0)
         /\ in.apu_gnt /\ ex.apu_lat # 1 => fpu'[Len(fpu')].lat = ex.apu_lat
         /\ ~in.apu_rvalid /\ ~(in.apu_gnt /\ ex.apu_lat # 1) =>
              \A k \in 1 .. Len(fpu) : fpu'[k].lat = fpu[k].lat
  <1> DEFINE left == IF in.apu_rvalid /\ fpu # <<>> THEN Tail(fpu) ELSE fpu
             new == [value |-> ex.result, lat |-> ex.apu_lat]
             accepted == valid_req(ex) /\ in.apu_gnt
             all == IF accepted /\ ~(ex.apu_lat = 1) THEN Append(left, new) ELSE left
  <1>1. fpu \in Seq(Operations) /\ Len(fpu) \in Nat
    BY LenProperties DEF SlotInv
  <1>2. left \in Seq(Operations)
        /\ Len(left) = Len(fpu) - (IF in.apu_rvalid /\ fpu # <<>> THEN 1 ELSE 0)
    BY <1>1, HeadTailProperties
  <1>3. accepted <=> in.apu_gnt
    BY DEF GoodInput
  <1>4. accepted => new \in Operations
    BY DEF valid_req, ExInv, Operations
  <1>5. all \in Seq(Operations)
        /\ Len(all) = Len(left) + (IF in.apu_gnt /\ ex.apu_lat # 1 THEN 1 ELSE 0)
    <2>1. Len(left) \in Nat
      BY <1>2, LenProperties
    <2>2. accepted => Append(left, new) \in Seq(Operations) /\ Len(Append(left, new)) = Len(left) + 1
      BY <1>2, <1>4, AppendProperties
    <2>3. CASE in.apu_gnt /\ ex.apu_lat # 1
      BY <1>3, <2>2, <2>3
    <2>4. CASE ~(in.apu_gnt /\ ex.apu_lat # 1)
      <3>1. all = left
        BY <1>3, <2>4
      <3> HIDE DEF all, left
      <3> QED
        BY <1>2, <2>1, <2>4, <3>1
    <2> QED
      BY <2>3, <2>4
  <1>6. in.apu_gnt /\ ex.apu_lat # 1 => Len(all) > 0 /\ all[Len(all)] = new
    <2>1. ASSUME in.apu_gnt, ex.apu_lat # 1 PROVE Len(all) > 0 /\ all[Len(all)] = new
      <3>1. all = Append(left, new) /\ new \in Operations /\ left \in Seq(Operations)
        BY <1>2, <1>3, <1>4, <2>1
      <3>2. Len(left) \in Nat
        BY <3>1, LenProperties
      <3> HIDE DEF all, left, new
      <3>3. Len(Append(left, new)) = Len(left) + 1 /\ Append(left, new)[Len(left) + 1] = new
        BY <3>1, AppendProperties
      <3> QED
        BY <3>1, <3>2, <3>3
    <2> QED
      BY <2>1
  <1>7. /\ ~in.apu_rvalid /\ ~(in.apu_gnt /\ ex.apu_lat # 1) => all = fpu
        /\ new.lat = ex.apu_lat
    BY <1>3
  <1>8. fpu' = [k \in DOMAIN all |-> [all[k] EXCEPT !.value = Aged(@, written)]]
    BY DEF FpuEdge
  <1> HIDE DEF all, left, accepted, new
  <1>9. Len(all) \in Nat /\ DOMAIN all = 1 .. Len(all) /\ \A k \in 1 .. Len(all) : all[k] \in Operations
    BY <1>5, LenProperties
  <1>10. \A k \in 1 .. Len(all) : [all[k] EXCEPT !.value = Aged(@, written)] \in Operations
    BY <1>9, AgedValue DEF Operations
  <1>11. fpu' \in Seq(Operations) /\ Len(fpu') = Len(all)
    BY <1>8, <1>9, <1>10
  <1>12. \A k \in 1 .. Len(all) : fpu'[k].lat = all[k].lat
    BY <1>8, <1>9 DEF Operations
  <1>13. in.apu_gnt /\ ex.apu_lat # 1 => fpu'[Len(fpu')].lat = ex.apu_lat
    BY <1>6, <1>7, <1>9, <1>11, <1>12
  <1>14. ~in.apu_rvalid /\ ~(in.apu_gnt /\ ex.apu_lat # 1) =>
           \A k \in 1 .. Len(fpu) : fpu'[k].lat = fpu[k].lat
    BY <1>7, <1>12
  <1> QED
    BY <1>2, <1>5, <1>11, <1>13, <1>14

\* A request that may join others has two cycles, as they have.
LEMMA RequestAmongOthers ==
  ASSUME ExInv, active, valid_req(ex)
  PROVE  ~stall_full /\ ex.apu_lat = 2 /\ apu_lat # 3
  BY DEF valid_req, stall_type, ExInv

\* A slot is taken for every operation the FPU accepts and given up with its result.
LEMMA SlotStep ==
  ASSUME ExInv, MulhInv, SlotInv, NEW in, GoodInput(in), NEW written \in SUBSET Registers,
         RestOfEdge(in, written)
  PROVE  SlotInv'
  <1>1. /\ fpu' \in Seq(Operations)
        /\ Len(fpu') = Len(fpu) - (IF in.apu_rvalid /\ fpu # <<>> THEN 1 ELSE 0)
                         + (IF in.apu_gnt /\ ex.apu_lat # 1 THEN 1 ELSE 0)
    BY FpuStep DEF RestOfEdge
  <1>2. Len(fpu) \in Nat /\ (fpu = <<>> <=> Len(fpu) = 0)
    BY EmptySeq, LenProperties DEF SlotInv
  <1>3. DispatcherEdge(ex, in.apu_gnt, apu_valid(in))
    BY DEF RestOfEdge
  <1>4. apu_result_q' = Aged(next_result_q(in), written)
    BY DEF RestOfEdge
  <1>5. fpu # <<>> => apu_result_i \in Values
    <2>1. fpu # <<>> => Head(fpu) \in Operations
      BY HeadTailProperties DEF SlotInv
    <2> QED
      BY <2>1 DEF apu_result_i, Operations
  <1>6. NoAddr \notin Values /\ NoAddr \notin Registers
    BY PipelineAssumption DEF Values
  <1>7. valid_req(ex) => ex.apu_lat \in 1 .. 3 /\ ex.apu_waddr # NoAddr
    BY <1>6 DEF valid_req, ExInv
  <1>8. active /\ valid_req(ex) => ~stall_full /\ ex.apu_lat = 2 /\ apu_lat # 3
    BY RequestAmongOthers
  <1>9. CASE HoldBack(in)
    <2>1. ~valid_req(ex) /\ apu_lat = 3 /\ ~in.apu_gnt /\ waiting = NoAddr
      BY <1>9, HeldBackWithoutRequest DEF GoodInput, SlotInv
    <2>2. in.apu_rvalid => fpu # <<>>
      BY <2>1 DEF GoodInput
    <2>3. ~apu_valid(in)
      BY <1>9 DEF apu_valid
    <2>4. UNCHANGED <<inflight, waiting, apu_lat>>
      BY <1>3, <2>1, <2>3 DEF DispatcherEdge, returned_inflight, returned_waiting
    <2>5. CASE in.apu_rvalid
      <3>1. apu_result_q' \in Values
        BY <1>4, <1>5, <1>9, <2>2, <2>5, AgedValue DEF next_result_q
      <3>2. Held(apu_result_q) = 0 /\ Len(fpu') = Len(fpu) - 1 /\ Held(inflight) = 1 /\ Len(fpu) = 1
        BY <1>1, <1>2, <2>1, <2>2, <2>5 DEF SlotInv, Held
      <3> QED
        BY <1>1, <1>2, <1>6, <2>1, <2>4, <3>1, <3>2 DEF SlotInv, Held
    <2>6. CASE ~in.apu_rvalid
      <3>1. apu_result_q' = Aged(apu_result_q, written)
        BY <1>4, <1>9, <2>6 DEF next_result_q
      <3>2. apu_result_q' \in Values \union {NoAddr} /\ Held(apu_result_q') = Held(apu_result_q)
        BY <1>6, <3>1, AgedValue DEF SlotInv, Held
      <3>3. Len(fpu') = Len(fpu)
        BY <1>1, <1>2, <2>1, <2>6
      <3>4. apu_result_q' # NoAddr => apu_lat = 3
        BY <2>1
      <3> QED
        BY <1>1, <2>1, <2>4, <3>2, <3>3, <3>4 DEF SlotInv, Held
    <2> QED
      BY <2>5, <2>6 DEF GoodInput
  <1>10. CASE ~HoldBack(in)
    <2>1. apu_result_q' = NoAddr
      BY <1>4, <1>10, AgedValue DEF next_result_q
    <2>2. apu_valid(in) <=> in.apu_rvalid \/ apu_result_q # NoAddr
      BY <1>10 DEF apu_valid
    <2>3. CASE apu_result_q # NoAddr
      <3>1. apu_lat = 3 /\ waiting = NoAddr /\ inflight # NoAddr /\ Len(fpu) = 0 /\ active
        BY <1>2, <2>3 DEF SlotInv, Held, active
      <3>2. ~valid_req(ex) /\ ~in.apu_gnt /\ ~in.apu_rvalid
        BY <1>2, <1>8, <3>1 DEF GoodInput
      <3>3. inflight' = NoAddr /\ waiting' = NoAddr
        BY <1>3, <2>2, <2>3, <3>1, <3>2 DEF DispatcherEdge, returned_inflight, returned_waiting
      <3>4. Len(fpu') = 0
        BY <1>1, <3>1, <3>2
      <3> QED
        BY <1>1, <2>1, <3>3, <3>4 DEF SlotInv, Held
    <2>4. CASE apu_result_q = NoAddr /\ fpu = <<>>
      <3>1. inflight = NoAddr /\ waiting = NoAddr /\ ~active /\ Len(fpu) = 0
        BY <1>2, <2>4 DEF SlotInv, Held, active
      <3>2. in.apu_rvalid = (valid_req(ex) /\ in.apu_gnt /\ ex.apu_lat = 1)
        BY <2>4 DEF GoodInput
      <3>3. CASE in.apu_gnt /\ ex.apu_lat # 1
        <4>1. valid_req(ex) /\ ~apu_valid(in)
          BY <2>2, <2>4, <3>2, <3>3 DEF GoodInput
        <4>2. inflight' = ex.apu_waddr /\ waiting' = NoAddr
          BY <1>3, <3>1, <3>3, <4>1 DEF DispatcherEdge, returned_req, returned_waiting, returned_inflight
        <4>3. Len(fpu') = 1
          BY <1>1, <2>4, <3>1, <3>3
        <4> QED
          BY <1>1, <1>7, <2>1, <4>1, <4>2, <4>3 DEF SlotInv, Held
      <3>4. CASE ~(in.apu_gnt /\ ex.apu_lat # 1)
        <4>1. inflight' = NoAddr /\ waiting' = NoAddr
          BY <1>3, <2>2, <2>4, <3>1, <3>2, <3>4
             DEF DispatcherEdge, returned_req, returned_waiting, returned_inflight, GoodInput
        <4>2. Len(fpu') = 0
          BY <1>1, <2>4, <3>1, <3>4
        <4> QED
          BY <1>1, <2>1, <4>1, <4>2 DEF SlotInv, Held
      <3> QED
        BY <3>3, <3>4
    <2>5. CASE apu_result_q = NoAddr /\ fpu # <<>>
      <3>1. active /\ Held(inflight) + Held(waiting) = Len(fpu) /\ Len(fpu) > 0 /\ inflight # NoAddr
        BY <1>2, <2>5 DEF SlotInv, Held, active
      <3>2. in.apu_gnt => valid_req(ex) /\ ex.apu_lat = 2 /\ apu_lat # 3 /\ waiting = NoAddr
        BY <1>8, <3>1 DEF GoodInput, stall_full
      <3>3. apu_valid(in) <=> in.apu_rvalid
        BY <2>2, <2>5
      <3>4. apu_lat' = 3 => waiting = NoAddr /\ ~in.apu_gnt
        BY <1>3, <1>8, <3>1, <3>2 DEF DispatcherEdge, SlotInv
      <3>5. CASE in.apu_gnt
        <4>1. inflight' = ex.apu_waddr /\ waiting' = IF in.apu_rvalid THEN NoAddr ELSE inflight
          BY <1>3, <3>1, <3>2, <3>3, <3>5
             DEF DispatcherEdge, returned_req, returned_waiting, returned_inflight, GoodInput
        <4>2. Len(fpu') = IF in.apu_rvalid THEN Len(fpu) ELSE Len(fpu) + 1
          BY <1>1, <1>2, <2>5, <3>2, <3>5 DEF GoodInput
        <4>3. inflight' # NoAddr /\ Held(inflight') = 1 /\ Held(inflight) = 1 /\ Held(waiting) = 0
          BY <1>7, <3>1, <3>2, <3>5, <4>1 DEF Held
        <4>4. Held(inflight') + Held(waiting') = Len(fpu') + Held(apu_result_q')
          <5>1. Len(fpu) = 1 /\ Held(apu_result_q') = 0
            BY <1>2, <2>1, <3>1, <4>3 DEF Held
          <5>2. CASE in.apu_rvalid
            BY <4>1, <4>2, <4>3, <5>1, <5>2 DEF Held
          <5>3. CASE ~in.apu_rvalid
            BY <3>1, <4>1, <4>2, <4>3, <5>1, <5>3 DEF Held
          <5> QED
            BY <5>2, <5>3
        <4> QED
          BY <1>1, <2>1, <3>4, <3>5, <4>3, <4>4 DEF SlotInv
      <3>6. CASE ~in.apu_gnt
        <4>1. /\ inflight' = IF in.apu_rvalid /\ waiting = NoAddr THEN NoAddr ELSE inflight
              /\ waiting' = IF in.apu_rvalid THEN NoAddr ELSE waiting
          BY <1>3, <3>1, <3>3, <3>6 DEF DispatcherEdge, returned_inflight, GoodInput
        <4>2. Len(fpu') = IF in.apu_rvalid THEN Len(fpu) - 1 ELSE Len(fpu)
          BY <1>1, <1>2, <2>5, <3>6 DEF GoodInput
        <4> QED
          BY <1>1, <1>2, <2>1, <3>1, <3>4, <4>1, <4>2 DEF SlotInv, Held, GoodInput
      <3> QED
        BY <3>5, <3>6 DEF GoodInput
    <2> QED
      BY <2>3, <2>4, <2>5
  <1> QED
    BY <1>9, <1>10

-----------------------------------------------------------------------------
\* What ID hands over is what the decoder makes of an instruction.
LEMMA IssuedIsKnown ==
  ASSUME NEW i \in Instructions, NEW value, ex' = IntoEx(i, ex, value)
  PROVE  ExInv' /\ ex'.kind = i.kind
  <1>1. /\ i.rd \in Registers /\ i.rs \in Registers
        /\ i.kind = "apu" => i.lat \in 1 .. 3
        /\ i.post_increment \in BOOLEAN
        /\ i.post_increment => i.kind \in {"load", "store"}
    BY PipelineAssumption
  <1>2. alu_waddr(i) \in Registers
    BY <1>1 DEF alu_waddr
  <1>3. \A reg \in Registers : ValueFor(reg) \in Values
    BY DEF ValueFor, Values
  <1>4. /\ {"kind", "alu_we", "req", "misaligned", "result", "apu_en", "apu_lat", "apu_waddr",
            "again"} \subseteq DOMAIN ex'
        /\ ex'.kind = i.kind /\ ex'.apu_lat = i.lat /\ ex'.apu_waddr = i.rd /\ ex'.misaligned = FALSE
        /\ ex'.alu_we = alu_we(i) /\ ex'.apu_en = (i.kind = "apu")
        /\ ex'.req = (i.kind \in {"load", "store"})
    BY DEF IntoEx
  <1>5. ex'.result \in Values
    BY <1>1, <1>2, <1>3 DEF IntoEx
  <1>6. ex'.kind = "apu" => ~ex'.alu_we
    BY <1>1, <1>4 DEF alu_we
  <1>7. (ex'.apu_en <=> ex'.kind = "apu") /\ (ex'.req => ex'.kind \in {"load", "store"}) /\ ~ex'.misaligned
    BY <1>4
  <1>8. ex'.kind = "apu" => ~ex'.req /\ ex'.apu_lat \in 1 .. 3 /\ ex'.apu_waddr \in Registers
    BY <1>1, <1>4
  <1> QED
    BY <1>4, <1>5, <1>6, <1>7, <1>8 DEF ExInv

\* The ID/EX register only changes as the multi-cycle units and the FPU expect.
LEMMA ExStep ==
  ASSUME ExInv, NEW in,
         \/ SecondHalf(in) \/ MulhStep(in) \/ Hold(in) \/ NoInstruction(in)
         \/ \E i \in Instructions : Issue(in, i)
  PROVE  ExInv'
  <1>1. CASE SecondHalf(in)
    BY <1>1 DEF SecondHalf, ExInv, data_misaligned, Lsu!data_misaligned_o
  <1>2. CASE MulhStep(in)
    BY <1>2 DEF MulhStep, ExInv
  <1>3. CASE Hold(in)
    BY <1>3 DEF Hold, ExInv
  <1>4. CASE NoInstruction(in)
    BY <1>4 DEF NoInstruction, Bubble, ExInv, Values
  <1>5. ASSUME NEW i \in Instructions, Issue(in, i) PROVE ExInv'
    BY <1>5, IssuedIsKnown DEF Issue
  <1> QED
    BY <1>1, <1>2, <1>3, <1>4, <1>5

\* The instruction leaves EX only when the MULH sequence is over.
LEMMA MulhStepInv ==
  ASSUME ExInv, MulhInv, NEW in,
         \/ SecondHalf(in) \/ MulhStep(in) \/ Hold(in) \/ NoInstruction(in)
         \/ \E i \in Instructions : Issue(in, i)
  PROVE  MulhInv'
  <1>1. mulh_CS' = next_mulh(ex, ex_ready(in))
    BY DEF SecondHalf, MulhStep, Hold, NoInstruction, Issue, RestOfEdge, MulDivEdge
  <1>2. mulh_CS \in MulhStates /\ mulh_CS' \in MulhStates
    BY <1>1 DEF next_mulh, MulhInv, MulhStates
  <1>3. ex.kind = "mulh" /\ ex_ready(in) => mulh_CS = "FINISH"
    BY DEF ex_ready, units_ready, mult_ready
  <1>4. CASE SecondHalf(in)
    BY <1>1, <1>2, <1>4 DEF MulhInv, mulh_active_o, SecondHalf, data_misaligned, Lsu!data_misaligned_o,
       ExInv, next_mulh, MulhStates
  <1>5. CASE MulhStep(in)
    <2>1. ex'.kind = ex.kind
      BY <1>5 DEF MulhStep, ExInv
    <2>2. ex.kind = "mulh"
      BY <1>5 DEF MulhStep, multicycle_o, MulhInv, mulh_active_o
    <2> QED
      BY <1>2, <2>1, <2>2 DEF MulhInv
  <1>6. CASE Hold(in)
    <2>1. ex'.kind = ex.kind
      BY <1>6 DEF Hold, ExInv
    <2> QED
      BY <1>1, <1>2, <2>1 DEF MulhInv, mulh_active_o, next_mulh, MulhStates
  <1>7. ASSUME ~multicycle_o, ex_ready(in) PROVE mulh_CS' = "IDLE_MULT"
    BY <1>1, <1>2, <1>3, <1>7 DEF multicycle_o, next_mulh, MulhStates, MulhInv, mulh_active_o
  <1>8. CASE NoInstruction(in) \/ \E i \in Instructions : Issue(in, i)
    <2>1. ~multicycle_o /\ ex_ready(in)
      BY <1>8 DEF NoInstruction, Issue, id_ready
    <2> QED
      BY <1>2, <1>7, <2>1 DEF MulhInv, mulh_active_o
  <1> QED
    BY <1>4, <1>5, <1>6, <1>8

\* The same for the divider.
LEMMA DivStepInv ==
  ASSUME ExInv, MulhInv, DivInv, NEW in,
         \/ SecondHalf(in) \/ MulhStep(in) \/ Hold(in) \/ NoInstruction(in)
         \/ \E i \in Instructions : Issue(in, i)
  PROVE  DivInv'
  <1>1. div_state' = next_div(ex, ex_ready(in), in.cnt_zero)
    BY DEF SecondHalf, MulhStep, Hold, NoInstruction, Issue, RestOfEdge, MulDivEdge
  <1>2. div_state \in DivStates /\ div_state' \in DivStates
    BY <1>1 DEF next_div, DivInv, DivStates
  <1>3. ex.kind = "div" /\ ex_ready(in) => div_state = "FINISH"
    BY DEF ex_ready, units_ready, alu_ready
  <1>4. ex.kind # "div" => div_state' = "IDLE"
    BY <1>1, <1>2 DEF next_div, DivInv, DivStates
  <1>5. ex_ready(in) => div_state' = "IDLE"
    BY <1>1, <1>3, <1>4 DEF next_div
  <1>6. CASE MulhStep(in)
    BY <1>2, <1>4, <1>6 DEF MulhStep, multicycle_o, MulhInv, mulh_active_o, DivInv
  <1>7. CASE Hold(in)
    <2>1. ex'.kind = ex.kind
      BY <1>7 DEF Hold, ExInv
    <2> QED
      BY <1>2, <1>4, <2>1 DEF DivInv
  <1>8. CASE SecondHalf(in) \/ NoInstruction(in) \/ \E i \in Instructions : Issue(in, i)
    BY <1>2, <1>5, <1>8 DEF SecondHalf, NoInstruction, Issue, id_ready, DivInv
  <1> QED
    BY <1>6, <1>7, <1>8

\* The FPU never has two operations at the end of a cycle.
LEMMA LatencyStep ==
  ASSUME ExInv, MulhInv, SlotInv, LatencyInv, NEW in, GoodInput(in),
         NEW written \in SUBSET Registers, RestOfEdge(in, written)
  PROVE  LatencyInv'
  <1>1. /\ fpu' \in Seq(Operations)
        /\ Len(fpu') = Len(fpu) - (IF in.apu_rvalid /\ fpu # <<>> THEN 1 ELSE 0)
                         + (IF in.apu_gnt /\ ex.apu_lat # 1 THEN 1 ELSE 0)
        /\ in.apu_gnt /\ ex.apu_lat # 1 => fpu'[Len(fpu')].lat = ex.apu_lat
        /\ ~in.apu_rvalid /\ ~(in.apu_gnt /\ ex.apu_lat # 1) =>
             \A k \in 1 .. Len(fpu) : fpu'[k].lat = fpu[k].lat
    BY FpuStep DEF RestOfEdge
  <1>2. /\ fpu = <<>> => Len(fpu) = 0
        /\ fpu # <<>> => Len(fpu) = 1 /\ active /\ apu_result_q = NoAddr
    <2>1. Len(fpu) \in Nat /\ (fpu = <<>> <=> Len(fpu) = 0)
      BY EmptySeq, LenProperties DEF SlotInv
    <2>2. Len(fpu) + Held(apu_result_q) = Held(inflight)
      BY <2>1 DEF SlotInv, LatencyInv, Held
    <2>3. ASSUME fpu # <<>> PROVE Len(fpu) = 1 /\ active /\ apu_result_q = NoAddr
      <3>1. Len(fpu) \in Nat /\ Len(fpu) > 0
        BY <2>1, <2>3
      <3>2. apu_result_q = NoAddr
        BY <2>2, <3>1 DEF Held
      <3>3. inflight # NoAddr
        BY <2>2, <3>1, <3>2 DEF Held
      <3> QED
        BY <2>2, <3>1, <3>2, <3>3 DEF Held, active
    <2> QED
      BY <2>1, <2>3
  <1>3. fpu # <<>> => Head(fpu).lat = apu_lat
    BY <1>2 DEF LatencyInv
  <1>4. ASSUME active, valid_req(ex)
        PROVE  /\ fpu # <<>> /\ in.apu_rvalid /\ apu_valid(in)
               /\ ex.apu_lat = 2
    <2>1. ex.apu_lat = 2 /\ apu_lat # 3
      BY <1>4, RequestAmongOthers
    <2>2. apu_result_q = NoAddr
      BY <2>1 DEF SlotInv
    <2>3. fpu # <<>>
      BY <1>2, <1>4, <2>2 DEF SlotInv, Held, active
    <2>4. in.apu_rvalid
      BY <1>3, <2>1, <2>3 DEF LatencyInv, GoodInput
    <2>5. ~HoldBack(in)
      BY <1>4, HeldBackWithoutRequest
    <2> QED
      BY <2>1, <2>3, <2>4, <2>5 DEF apu_valid
  <1>5. /\ DispatcherEdge(ex, in.apu_gnt, apu_valid(in))
        /\ apu_lat' = IF valid_req(ex) THEN ex.apu_lat ELSE apu_lat
    BY DEF RestOfEdge, DispatcherEdge
  <1>6. waiting' = NoAddr
    BY <1>4, <1>5 DEF DispatcherEdge, LatencyInv, returned_inflight, returned_waiting, active
  <1>7. CASE in.apu_gnt /\ ex.apu_lat # 1
    <2>1. valid_req(ex) /\ apu_lat' = ex.apu_lat /\ ex.apu_lat \in {2, 3}
      BY <1>5, <1>7 DEF GoodInput, valid_req, ExInv
    <2>2. Len(fpu') = 1
      <3>1. CASE fpu = <<>>
        BY <1>1, <1>2, <1>7, <3>1
      <3>2. CASE fpu # <<>>
        <4>1. in.apu_rvalid
          BY <1>2, <1>4, <2>1, <3>2
        <4> QED
          BY <1>1, <1>2, <1>7, <3>2, <4>1
      <3> QED
        BY <3>1, <3>2
    <2> QED
      BY <1>1, <1>6, <1>7, <2>1, <2>2 DEF LatencyInv
  <1>8. CASE ~(in.apu_gnt /\ ex.apu_lat # 1)
    <2>1. CASE fpu = <<>> \/ in.apu_rvalid
      <3>1. Len(fpu') = 0
        BY <1>1, <1>2, <1>8, <2>1
      <3>2. fpu' = <<>>
        BY <1>1, <3>1, EmptySeq
      <3> QED
        BY <1>6, <3>1, <3>2 DEF LatencyInv
    <2>2. CASE fpu # <<>> /\ ~in.apu_rvalid
      <3>1. ~valid_req(ex) /\ apu_lat' = apu_lat
        BY <1>2, <1>4, <1>5, <2>2
      <3>2. Len(fpu') = 1 /\ Len(fpu) = 1 /\ fpu'[1].lat = fpu[1].lat
        BY <1>1, <1>2, <1>8, <2>2
      <3> QED
        BY <1>6, <2>2, <3>1, <3>2 DEF LatencyInv
    <2> QED
      BY <2>1, <2>2
  <1> QED
    BY <1>7, <1>8

\* When the load-store unit lets go of an access, nothing else keeps it in EX: the results of
\* the FPU that compete for its write port are held back.
LEMMA OnceStep ==
  ASSUME IInv, NEW in, GoodInput(in),
         \/ SecondHalf(in) \/ MulhStep(in) \/ Hold(in) \/ NoInstruction(in)
         \/ \E i \in Instructions : Issue(in, i)
  PROVE  AccessesAreMadeOnce'
  <1> USE DEF IInv
  <1>1. CASE SecondHalf(in) \/ MulhStep(in)
    BY <1>1 DEF SecondHalf, MulhStep, ExInv, AccessesAreMadeOnce
  <1>2. CASE NoInstruction(in)
    BY <1>2 DEF NoInstruction, Bubble, ExInv, AccessesAreMadeOnce
  <1>3. CASE \E i \in Instructions : Issue(in, i)
    BY <1>3 DEF Issue, IntoEx, AccessesAreMadeOnce
  <1>4. ASSUME ex.req, Lsu!lsu_ready_ex_o(ex, in) PROVE ex_ready(in)
    <2>1. ~ex.apu_en /\ ex.kind \in {"load", "store"}
      BY <1>4 DEF ExInv
    <2>2. ~apu_stall(in)
      BY <2>1 DEF apu_stall, stall_o, stall_full, stall_type, valid_req, LatencyInv
    <2>3. alu_ready(ex) /\ mult_ready(ex)
      BY <2>1 DEF alu_ready, mult_ready, MulhInv, DivInv, mulh_active_o
    <2>4. wb_ready(in)
      BY <1>4 DEF Lsu!lsu_ready_ex_o, wb_ready, Lsu!lsu_ready_wb_o, Lsu!LSU_DEPTH
    <2>5. ASSUME ex.alu_we, apu_on_alu_port(in) PROVE FALSE
      <3>1. apu_valid(in) /\ ~HoldBack(in)
        BY <2>5 DEF apu_on_alu_port, apu_valid
      <3>2. ~apu_multicycle_o
        BY <1>4, <2>5, <3>1 DEF HoldBack
      <3>3. inflight = NoAddr /\ waiting = NoAddr
        BY <2>5, <3>2 DEF apu_on_alu_port, apu_singlecycle_o, active
      <3>4. fpu = <<>> /\ apu_result_q = NoAddr
        BY <3>3, EmptySeq, LenProperties DEF SlotInv, Held
      <3>5. ~in.apu_rvalid
        BY <2>1, <3>4 DEF GoodInput, valid_req
      <3> QED
        BY <3>1, <3>4, <3>5 DEF apu_valid
    <2> QED
      BY <1>4, <2>2, <2>3, <2>4, <2>5 DEF ex_ready, units_ready, wb_contention
  <1>5. CASE Hold(in)
    BY <1>4, <1>5 DEF Hold, ExInv, AccessesAreMadeOnce
  <1> QED
    BY <1>1, <1>2, <1>3, <1>5

\* A CSR access enters EX when the FPU has nothing under way, and keeps it so.
LEMMA CsrStep ==
  ASSUME IInv, SlotInv', ExInv', NEW in, GoodInput(in),
         \/ SecondHalf(in) \/ MulhStep(in) \/ Hold(in) \/ NoInstruction(in)
         \/ \E i \in Instructions : Issue(in, i)
  PROVE  CsrWaitsForFlags'
  <1> SUFFICES ASSUME ex'.kind = "csr" PROVE ~active'
    <2>1. Len(fpu') \in Nat /\ (Len(fpu') = 0 => fpu' = <<>>)
      BY EmptySeq, LenProperties DEF SlotInv
    <2>2. ~active' => Len(fpu') = 0 /\ apu_result_q' = NoAddr
      BY <2>1 DEF SlotInv, Held, active
    <2> QED
      BY <2>1, <2>2 DEF CsrWaitsForFlags
  <1>1. DispatcherEdge(ex, in.apu_gnt, apu_valid(in))
    BY DEF SecondHalf, MulhStep, Hold, NoInstruction, Issue, RestOfEdge
  <1>2. CASE SecondHalf(in) \/ MulhStep(in) \/ Hold(in)
    <2>1. ex.kind = "csr"
      BY <1>2 DEF SecondHalf, MulhStep, Hold, IInv, ExInv
    <2>2. ~active /\ ~valid_req(ex)
      BY <2>1 DEF IInv, ExInv, CsrWaitsForFlags, valid_req
    <2> QED
      BY <1>1, <2>2 DEF DispatcherEdge, active, returned_inflight
  <1>3. CASE NoInstruction(in)
    BY <1>3 DEF NoInstruction, Bubble, IInv, ExInv
  <1>4. ASSUME NEW i \in Instructions, Issue(in, i) PROVE ~active'
    <2>1. i.kind = "csr"
      BY <1>4, IssuedIsKnown DEF Issue
    <2>2. ~active /\ (ex.apu_en => ex.apu_lat = 1)
      BY <1>4, <2>1 DEF Issue, id_ready, csr_apu_stall, IInv, ExInv
    <2>3. fpu = <<>>
      <3>1. Len(fpu) = 0
        BY <2>2, LenProperties DEF IInv, SlotInv, Held, active
      <3> QED
        BY <3>1, EmptySeq DEF IInv, SlotInv
    <2>4. CASE valid_req(ex) /\ in.apu_gnt
      <3>1. in.apu_rvalid
        BY <2>2, <2>3, <2>4 DEF GoodInput, valid_req
      <3>2. ~HoldBack(in)
        BY <2>4, HeldBackWithoutRequest DEF IInv
      <3>3. returned_req(ex, apu_valid(in))
        BY <2>2, <2>4, <3>1, <3>2 DEF returned_req, apu_valid
      <3> QED
        BY <1>1, <2>2, <3>3 DEF DispatcherEdge, active, returned_inflight
    <2>5. CASE ~(valid_req(ex) /\ in.apu_gnt)
      BY <1>1, <2>2, <2>5 DEF DispatcherEdge, active, returned_inflight
    <2> QED
      BY <2>4, <2>5
  <1> QED
    BY <1>2, <1>3, <1>4

-----------------------------------------------------------------------------
\* The pipeline starts empty.
LEMMA InitInv == Init => IInv
  <1> SUFFICES ASSUME Init PROVE IInv
    OBVIOUS
  <1>1. ExInv
    BY DEF Init, ExInv, Values
  <1>2. MulhInv
    BY DEF Init, MulDivInit, MulhInv, MulhStates, mulh_active_o
  <1>3. DivInv
    BY DEF Init, MulDivInit, DivInv, DivStates
  <1>4. SlotInv
    BY EmptySeq DEF Init, DispatcherInit, SlotInv, Held
  <1>5. LatencyInv
    BY EmptySeq DEF Init, DispatcherInit, LatencyInv
  <1>6. CsrWaitsForFlags /\ AccessesAreMadeOnce
    BY DEF Init, CsrWaitsForFlags, AccessesAreMadeOnce
  <1> QED
    BY <1>1, <1>2, <1>3, <1>4, <1>5, <1>6 DEF IInv

\* Every cycle keeps the invariant.
LEMMA NextInv == IInv /\ [Next]_vars => IInv'
  <1>1. ASSUME IInv, UNCHANGED vars PROVE IInv'
    BY <1>1 DEF vars, dispatcherVars, mulDivVars, IInv, ExInv, MulhInv, DivInv, SlotInv, LatencyInv,
       CsrWaitsForFlags, AccessesAreMadeOnce, mulh_active_o, active
  <1>2. ASSUME IInv, Next PROVE IInv'
    <2>1. PICK jalr : \E in \in Inputs(jalr) :
                         \/ SecondHalf(in) \/ MulhStep(in) \/ Hold(in) \/ NoInstruction(in)
                         \/ \E i \in Instructions : Issue(in, i)
      BY <1>2 DEF Next
    <2>2. PICK in \in Inputs(jalr) :
                 \/ SecondHalf(in) \/ MulhStep(in) \/ Hold(in) \/ NoInstruction(in)
                 \/ \E i \in Instructions : Issue(in, i)
      BY <2>1
    <2>3. GoodInput(in)
      BY InputsAreGood
    <2>4. PICK written \in SUBSET Registers : RestOfEdge(in, written)
      BY <2>2 DEF SecondHalf, MulhStep, Hold, NoInstruction, Issue, Written
    <2>5. ExInv'
      BY <1>2, <2>2, ExStep DEF IInv
    <2>6. MulhInv'
      BY <1>2, <2>2, MulhStepInv DEF IInv
    <2>7. SlotInv'
      BY <1>2, <2>3, <2>4, SlotStep DEF IInv
    <2>8. CsrWaitsForFlags'
      BY <1>2, <2>2, <2>3, <2>5, <2>7, CsrStep
    <2>9. AccessesAreMadeOnce'
      BY <1>2, <2>2, <2>3, OnceStep
    <2>10. DivInv'
      BY <1>2, <2>2, DivStepInv DEF IInv
    <2>11. LatencyInv'
      BY <1>2, <2>3, <2>4, LatencyStep DEF IInv
    <2> QED
      BY <2>5, <2>6, <2>7, <2>8, <2>9, <2>10, <2>11 DEF IInv
  <1> QED
    BY <1>1, <1>2

\* The number of slots taken is the number of operations under way.
LEMMA SlotsAreCounted ==
  SlotInv => SlotsMatchFpu
  <1> DEFINE slots == {s \in {"inflight", "waiting"} :
                         (IF s = "inflight" THEN inflight ELSE waiting) # NoAddr}
  <1>1. Cardinality(slots) = Held(inflight) + Held(waiting)
    <2>1. CASE inflight = NoAddr /\ waiting = NoAddr
      <3>1. slots = {}
        BY <2>1
      <3> QED
        BY <2>1, <3>1, FS_EmptySet DEF Held
    <2>2. CASE inflight # NoAddr /\ waiting = NoAddr
      <3>1. slots = {"inflight"}
        BY <2>2
      <3> QED
        BY <2>2, <3>1, FS_Singleton DEF Held
    <2>3. CASE inflight = NoAddr /\ waiting # NoAddr
      <3>1. slots = {"waiting"}
        BY <2>3
      <3> QED
        BY <2>3, <3>1, FS_Singleton DEF Held
    <2>4. CASE inflight # NoAddr /\ waiting # NoAddr
      <3>1. slots = {"inflight"} \union {"waiting"}
        BY <2>4
      <3>2. Cardinality({"inflight"} \union {"waiting"}) = 2
        <4>1. IsFiniteSet({"inflight"}) /\ Cardinality({"inflight"}) = 1
          BY FS_Singleton
        <4>2. "waiting" \notin {"inflight"}
          OBVIOUS
        <4> QED
          BY <4>1, <4>2, FS_AddElement
      <3> QED
        BY <2>4, <3>1, <3>2 DEF Held
    <2> QED
      BY <2>1, <2>2, <2>3, <2>4
  <1> HIDE DEF slots
  <1> QED
    BY <1>1 DEF SlotInv, SlotsMatchFpu, Held, slots

\* The dispatcher's slots are the operations the FPU has under way and the result that is
\* held back: every result finds the register it is for.
THEOREM SlotsCorrect == Spec => []SlotsMatchFpu
  <1>1. IInv => SlotsMatchFpu
    BY SlotsAreCounted DEF IInv
  <1> QED
    BY InitInv, NextInv, <1>1, PTL DEF Spec

\* A CSR access in EX finds no FPU operation under way.
THEOREM CsrSeesAllFlags == Spec => []CsrWaitsForFlags
  <1>1. IInv => CsrWaitsForFlags
    BY DEF IInv
  <1> QED
    BY InitInv, NextInv, <1>1, PTL DEF Spec

\* The EX stage keeps no access that the load-store unit has let go of: none is made twice.
THEOREM AccessesMadeOnce == Spec => []AccessesAreMadeOnce
  <1>1. IInv => AccessesAreMadeOnce
    BY DEF IInv
  <1> QED
    BY InitInv, NextInv, <1>1, PTL DEF Spec

-----------------------------------------------------------------------------
(* Where the values of the registers are.                                    *)

\* What the instruction in EX writes, and what it writes only after it has left EX.
ExWritesLate(reg) ==
    \/ ex.mem_we /\ ex.waddr = reg
    \/ ex.kind = "apu" /\ ex.apu_waddr = reg

ExWrites(reg) == (ex.alu_we /\ ex.alu_waddr = reg) \/ ExWritesLate(reg)

\* The instruction in EX is the youngest: what it makes is the newest value, and it computes
\* with the newest value of its register.
ExValues ==
    /\ {"alu_waddr", "waddr", "load", "mem_we", "rs", "operand", "addr", "post_increment"}
          \subseteq DOMAIN ex
    /\ {ex.alu_waddr, ex.apu_waddr, ex.waddr} \subseteq Registers
    /\ ex.result = ValueFor(IF ex.kind = "apu" THEN ex.apu_waddr ELSE ex.alu_waddr)
    /\ ex.mem_we \in BOOLEAN /\ ex.load \in Values
    /\ ex.mem_we => ex.req /\ ex.kind = "load" /\ ex.load = ValueFor(ex.waddr)
    /\ ex.alu_we => ex.kind \notin {"bubble", "branch", "apu"}
    /\ ex.operand = ex.rs

\* What a load in WB writes is the newest value, unless a load or an FPU operation follows it
\* that writes the same register.
WbValues ==
    /\ wb \in [we : BOOLEAN, waddr : Registers, value : Values]
    /\ wb.we => wb.value \in {ValueFor(wb.waddr), Old}
    /\ wb.we /\ wb.value # ValueFor(wb.waddr) => ExWritesLate(wb.waddr)
    /\ wb.we /\ (~ex.mem_we \/ ex.misaligned) => ex.waddr = wb.waddr
    /\ wb.we /\ ex.misaligned => ex.mem_we

\* What the FPU has under way is the newest value, unless another FPU operation follows it;
\* it can meet a load on the write port only while it is requested again.
FpuValues ==
    /\ inflight \in Registers \union {NoAddr}
    /\ active => apu_result \in {ValueFor(inflight), Old}
    /\ active /\ (apu_result # ValueFor(inflight) \/ (apu_lat # 3 /\ wb.we)) =>
         ex.kind = "apu" /\ ex.apu_waddr = inflight

\* Who has the newest value of a register that is not in the register file.
HeldFor(reg) ==
    \/ ExWrites(reg)
    \/ wb.we /\ wb.waddr = reg /\ wb.value = reg
    \/ inflight = reg /\ apu_result = reg

RegValues ==
    /\ regfile[0] = 0
    /\ \A reg \in Registers : regfile[reg] # reg => reg # 0 /\ regfile[reg] = Old /\ HeldFor(reg)

VInv == IInv /\ ExValues /\ WbValues /\ FpuValues /\ RegValues /\ target.value = target.reg

-----------------------------------------------------------------------------
(* The ports in one cycle *)

\* The FPU has one operation under way, or the result of one is held back.
LEMMA OneAtATime ==
  ASSUME IInv
  PROVE  /\ waiting = NoAddr
         /\ ~active => fpu = <<>> /\ apu_result_q = NoAddr
         /\ active => /\ inflight # NoAddr
                      /\ \/ /\ fpu # <<>> /\ Len(fpu) = 1 /\ apu_result_q = NoAddr
                            /\ Head(fpu).lat = apu_lat
                         \/ fpu = <<>> /\ apu_result_q # NoAddr /\ apu_lat = 3
  <1>1. waiting = NoAddr /\ Held(inflight) = Len(fpu) + Held(apu_result_q)
    <2>1. waiting = NoAddr /\ Len(fpu) \in Nat
      BY LenProperties DEF IInv, SlotInv, LatencyInv
    <2> QED
      BY <2>1 DEF IInv, SlotInv, Held
  <1>2. Len(fpu) \in Nat /\ (fpu = <<>> <=> Len(fpu) = 0)
    BY EmptySeq, LenProperties DEF IInv, SlotInv
  <1>3. ~active => fpu = <<>> /\ apu_result_q = NoAddr
    BY <1>1, <1>2 DEF active, Held
  <1>4. active => inflight # NoAddr
    BY <1>1 DEF active
  <1>5. ASSUME active, apu_result_q = NoAddr
        PROVE  fpu # <<>> /\ Len(fpu) = 1 /\ Head(fpu).lat = apu_lat
    <2>1. Len(fpu) = 1
      BY <1>1, <1>2, <1>4, <1>5 DEF Held
    <2>2. fpu # <<>> /\ fpu[1].lat = apu_lat
      BY <1>2, <2>1 DEF IInv, LatencyInv
    <2> QED
      BY <2>1, <2>2
  <1>6. ASSUME active, apu_result_q # NoAddr PROVE fpu = <<>> /\ apu_lat = 3
    BY <1>1, <1>2, <1>4, <1>6 DEF Held, IInv, SlotInv
  <1> QED
    BY <1>1, <1>3, <1>4, <1>5, <1>6

\* A request that is made while an operation is under way comes with its answer.
LEMMA RequestWithAnswer ==
  ASSUME IInv, NEW in, GoodInput(in), active, valid_req(ex)
  PROVE  ex.apu_lat = 2 /\ apu_lat # 3 /\ apu_valid(in)
  <1>1. ex.apu_lat = 2 /\ apu_lat # 3
    BY RequestAmongOthers DEF IInv
  <1>2. fpu # <<>> /\ Head(fpu).lat = apu_lat
    BY <1>1, OneAtATime
  <1>3. apu_lat = 2
    BY <1>1, <1>2 DEF IInv, LatencyInv
  <1>4. in.apu_rvalid
    BY <1>2, <1>3 DEF GoodInput
  <1>5. ~HoldBack(in)
    BY <1>1, HeldBackWithoutRequest DEF IInv
  <1> QED
    BY <1>1, <1>4, <1>5 DEF apu_valid

\* What the FPU puts on the ALU port: the operation of many cycles under way, or that of one
\* cycle in EX.
LEMMA FpuOnAluPort ==
  ASSUME IInv, NEW in, GoodInput(in), apu_on_alu_port(in)
  PROVE  \/ active /\ apu_lat = 3 /\ apu_waddr(in) = inflight
         \/ /\ ~active /\ valid_req(ex) /\ in.apu_gnt /\ ex.apu_lat = 1
            /\ apu_waddr(in) = ex.apu_waddr /\ apu_result = ex.result
  <1>1. apu_valid(in)
    BY DEF apu_on_alu_port
  <1>2. CASE active
    BY <1>1, <1>2, OneAtATime DEF apu_on_alu_port, apu_singlecycle_o, apu_multicycle_o, apu_waddr,
       apu_waddr_o, returned_waiting, returned_inflight
  <1>3. CASE ~active
    <2>1. fpu = <<>> /\ apu_result_q = NoAddr
      BY <1>3, OneAtATime
    <2>2. in.apu_rvalid
      BY <1>1, <2>1 DEF apu_valid
    <2> QED
      BY <1>3, <2>1, <2>2 DEF GoodInput, apu_waddr, apu_waddr_o, returned_waiting,
         returned_inflight, active, apu_result, apu_result_i
  <1> QED
    BY <1>2, <1>3

\* What it puts on the LSU port: the operation of two cycles under way.
LEMMA FpuOnLsuPort ==
  ASSUME IInv, NEW in, GoodInput(in), apu_on_lsu_port(in)
  PROVE  active /\ apu_lat # 3 /\ apu_waddr(in) = inflight
  BY OneAtATime DEF apu_on_lsu_port, apu_singlecycle_o, apu_multicycle_o, apu_waddr, apu_waddr_o,
     returned_waiting, returned_inflight

\* An FPU operation leaves EX when it has been accepted; one of a single cycle is on the ALU
\* port as it leaves.
LEMMA OperationLeaves ==
  ASSUME IInv, NEW in, GoodInput(in), ex.kind = "apu", ex_ready(in)
  PROVE  /\ valid_req(ex) /\ in.apu_gnt
         /\ active => ex.apu_lat = 2 /\ apu_lat # 3 /\ apu_valid(in)
         /\ ex.apu_lat = 1 =>
              ~active /\ apu_on_alu_port(in) /\ apu_waddr(in) = ex.apu_waddr /\ apu_result = ex.result
  <1>1. ex.apu_en /\ ~apu_stall(in)
    BY DEF IInv, ExInv, ex_ready
  <1>2. valid_req(ex) /\ in.apu_gnt
    BY <1>1 DEF apu_stall, stall_o, valid_req
  <1>3. active => ex.apu_lat = 2 /\ apu_lat # 3 /\ apu_valid(in)
    BY <1>2, RequestWithAnswer
  <1>4. ASSUME ex.apu_lat = 1
        PROVE  ~active /\ apu_on_alu_port(in) /\ apu_waddr(in) = ex.apu_waddr /\ apu_result = ex.result
    <2>1. ~active
      BY <1>3, <1>4
    <2>2. in.apu_rvalid
      BY <1>2, <1>4, <2>1, OneAtATime DEF GoodInput
    <2>3. ~HoldBack(in)
      BY <1>2, HeldBackWithoutRequest DEF IInv
    <2>4. apu_on_alu_port(in)
      BY <2>1, <2>2, <2>3 DEF apu_on_alu_port, apu_valid, apu_singlecycle_o
    <2> QED
      BY <2>1, <2>4, FpuOnAluPort
  <1> QED
    BY <1>2, <1>3, <1>4

\* The FPU's operation after a cycle: the one it has accepted, or the one it had, unless its
\* result has been taken over.
LEMMA OperationStep ==
  ASSUME IInv, IInv', NEW in, GoodInput(in), NEW written \in SUBSET Registers,
         RestOfEdge(in, written), active'
  PROVE  \/ /\ valid_req(ex) /\ in.apu_gnt /\ ex.apu_lat # 1 /\ ~returned_req(ex, apu_valid(in))
            /\ inflight' = ex.apu_waddr /\ apu_result' = Aged(ex.result, written)
         \/ /\ active /\ ~apu_valid(in) /\ ~valid_req(ex) /\ apu_lat' = apu_lat
            /\ inflight' = inflight /\ apu_result' = Aged(apu_result, written)
  <1> DEFINE accepted == valid_req(ex) /\ in.apu_gnt
             left == IF in.apu_rvalid /\ fpu # <<>> THEN Tail(fpu) ELSE fpu
             new == [value |-> ex.result, lat |-> ex.apu_lat]
             all == IF accepted /\ ~(ex.apu_lat = 1) THEN Append(left, new) ELSE left
  <1>1. /\ DispatcherEdge(ex, in.apu_gnt, apu_valid(in))
        /\ fpu' = [k \in DOMAIN all |-> [all[k] EXCEPT !.value = Aged(@, written)]]
        /\ apu_result_q' = Aged(next_result_q(in), written)
    BY DEF RestOfEdge, FpuEdge
  <1>2. fpu \in Seq(Operations) /\ Len(fpu) \in Nat
    BY LenProperties DEF IInv, SlotInv
  <1>3. inflight' # NoAddr /\ waiting' = NoAddr
        /\ \/ fpu' # <<>> /\ Len(fpu') = 1 /\ apu_result_q' = NoAddr
           \/ fpu' = <<>> /\ apu_result_q' # NoAddr
    <2>1. waiting = NoAddr /\ waiting' = NoAddr
      BY DEF IInv, LatencyInv
    <2>2. inflight' # NoAddr
      BY <2>1 DEF active
    <2>3. Len(fpu') \in Nat /\ (fpu' = <<>> <=> Len(fpu') = 0)
      BY EmptySeq, LenProperties DEF IInv, SlotInv
    <2>4. 1 = Len(fpu') + Held(apu_result_q')
      BY <2>1, <2>2, <2>3 DEF IInv, SlotInv, Held
    <2> QED
      BY <2>1, <2>2, <2>3, <2>4 DEF Held
  <1>4. CASE accepted /\ ex.apu_lat # 1
    <2>1. ~HoldBack(in)
      BY <1>4, HeldBackWithoutRequest DEF IInv
    <2>2. apu_result_q' = NoAddr
      BY <1>1, <2>1, AgedValue DEF next_result_q
    <2>3. fpu' # <<>> /\ Len(fpu') = 1
      BY <1>3, <2>2
    <2>4. ~returned_req(ex, apu_valid(in))
      BY <1>4, OneAtATime DEF returned_req, apu_valid, GoodInput
    <2>5. inflight' = ex.apu_waddr
      BY <1>1, <1>4, <2>4 DEF DispatcherEdge
    <2>6. new \in Operations
      BY <1>4 DEF IInv, ExInv, Operations, valid_req
    <2>7. left \in Seq(Operations) /\ Len(left) \in Nat
      BY <1>2, HeadTailProperties, LenProperties
    <2>8. all = Append(left, new)
      BY <1>4
    <2>9. Len(all) = Len(left) + 1 /\ all[Len(left) + 1] = new /\ DOMAIN all = 1 .. Len(left) + 1
          /\ all \in Seq(Operations)
      <3> HIDE DEF all, left, new
      <3> QED
        BY <2>6, <2>7, <2>8, AppendProperties, LenProperties
    <2>10. DOMAIN fpu' = 1 .. Len(left) + 1 /\ fpu'[Len(left) + 1].value = Aged(ex.result, written)
      <3> HIDE DEF all, left
      <3> QED
        BY <1>1, <2>6, <2>7, <2>9
    <2>11. fpu' \in Seq(Operations)
      BY DEF IInv, SlotInv
    <2>12. Len(left) + 1 = 1
      <3>1. DOMAIN fpu' = 1 .. 1
        BY <2>3, <2>11, LenProperties
      <3>2. 1 .. Len(left) + 1 = 1 .. 1
        BY <2>10, <3>1, Zenon
      <3>3. \A n \in Nat : 1 .. n + 1 = 1 .. 1 => n + 1 = 1
        <4> TAKE n \in Nat
        <4> HAVE 1 .. n + 1 = 1 .. 1
        <4>1. n + 1 \in 1 .. n + 1
          OBVIOUS
        <4>2. n + 1 \in 1 .. 1
          BY <4>1, Zenon
        <4> QED
          BY <4>2
      <3> QED
        BY <2>7, <3>2, <3>3, Zenon
    <2>13. apu_result' = Aged(ex.result, written)
      BY <2>2, <2>3, <2>10, <2>12 DEF apu_result, apu_result_i
    <2> QED
      BY <1>4, <2>4, <2>5, <2>13
  <1>5. CASE ~(accepted /\ ex.apu_lat # 1)
    <2>1. all = left /\ (accepted => returned_req(ex, apu_valid(in)) \/ active)
      <3>1. ASSUME accepted, ~active PROVE returned_req(ex, apu_valid(in))
        <4>1. in.apu_rvalid /\ ~HoldBack(in)
          BY <1>5, <3>1, OneAtATime, HeldBackWithoutRequest DEF GoodInput, IInv
        <4> QED
          BY <3>1, <4>1 DEF returned_req, apu_valid
      <3> QED
        BY <1>5, <3>1
    <2>2. accepted => ~active /\ returned_req(ex, apu_valid(in))
      BY <1>5, <2>1, RequestWithAnswer
    <2>3. inflight' = IF returned_inflight(apu_valid(in)) THEN NoAddr ELSE inflight
      BY <1>1, <2>2 DEF DispatcherEdge
    <2>4. inflight # NoAddr /\ active /\ inflight' = inflight /\ ~apu_valid(in)
      BY <1>3, <2>3, OneAtATime DEF returned_inflight, active
    <2>5. ~valid_req(ex)
      BY <2>4, RequestWithAnswer
    <2>6. apu_lat' = apu_lat
      BY <1>1, <2>5 DEF DispatcherEdge
    <2>7. CASE in.apu_rvalid
      <3>1. HoldBack(in) /\ apu_result_q' = Aged(apu_result_i, written)
        BY <1>1, <2>4, <2>7 DEF apu_valid, next_result_q
      <3>2. fpu # <<>> /\ apu_result_q = NoAddr
        BY <2>4, <2>5, <2>7, OneAtATime DEF GoodInput
      <3>3. apu_result_i \in Values
        <4>1. Head(fpu) \in Operations
          BY <1>2, <3>2, HeadTailProperties
        <4> QED
          BY <3>2, <4>1 DEF apu_result_i, Operations
      <3>4. apu_result_q' # NoAddr
        BY <3>1, <3>3, AgedValue
      <3> QED
        BY <2>4, <2>5, <2>6, <3>1, <3>2, <3>4 DEF apu_result
    <2>8. CASE ~in.apu_rvalid
      <3>1. all = fpu
        BY <2>1, <2>8
      <3>2. CASE apu_result_q = NoAddr
        <4>1. fpu # <<>> /\ Len(fpu) = 1
          BY <2>4, <3>2, OneAtATime
        <4>2. apu_result_q' = NoAddr
          BY <1>1, <2>8, <3>2, AgedValue DEF next_result_q
        <4>3. fpu[1] \in Operations /\ 1 \in DOMAIN fpu
          BY <1>2, <4>1
        <4>4. fpu' # <<>> /\ fpu'[1].value = Aged(fpu[1].value, written)
          <5> HIDE DEF all
          <5> QED
            BY <1>1, <1>3, <3>1, <4>2, <4>3 DEF Operations
        <4> QED
          BY <2>4, <2>5, <2>6, <3>2, <4>1, <4>2, <4>4 DEF apu_result, apu_result_i
      <3>3. CASE apu_result_q # NoAddr
        <4>1. HoldBack(in) /\ apu_result_q' = Aged(apu_result_q, written)
          BY <1>1, <2>4, <2>8, <3>3 DEF apu_valid, next_result_q
        <4>2. apu_result_q' # NoAddr
          BY <3>3, <4>1, AgedValue DEF IInv, SlotInv
        <4> QED
          BY <2>4, <2>5, <2>6, <3>3, <4>1, <4>2 DEF apu_result
      <3> QED
        BY <3>2, <3>3
    <2> QED
      BY <2>7, <2>8 DEF GoodInput
  <1> QED
    BY <1>4, <1>5

-----------------------------------------------------------------------------
(* Nothing is lost *)

\* Where the newest value of a register is when a cycle does not write it.
StaysInEx(in, reg) ==
    /\ ~ex_ready(in)
    /\ \/ ex.alu_we /\ ex.kind # "csr" /\ ex.alu_waddr = reg
       \/ ExWritesLate(reg)

MovesToWb(in, reg) == units_ready(in) /\ ex.mem_we /\ ex.waddr = reg

MovesToFpu(in, reg) ==
    ex.kind = "apu" /\ ex.apu_waddr = reg /\ valid_req(ex) /\ in.apu_gnt /\ ex.apu_lat # 1

StaysInWb(in, reg) ==
    wb.we /\ wb.waddr = reg /\ wb.value = reg /\ ~wb_ready(in)

StaysInFpu(in, reg) == inflight = reg /\ apu_result = reg /\ active /\ ~apu_valid(in)

\* A load or an FPU operation that leaves EX moves on to WB or into the FPU, unless the ALU
\* port writes its register.
LEMMA LateMovesOn ==
  ASSUME VInv, NEW in, GoodInput(in), NEW reg \in Registers, ExWritesLate(reg),
         ~(alu_port(in).we /\ alu_port(in).waddr = reg)
  PROVE  StaysInEx(in, reg) \/ MovesToWb(in, reg) \/ MovesToFpu(in, reg)
  <1> SUFFICES ASSUME ex_ready(in) PROVE MovesToWb(in, reg) \/ MovesToFpu(in, reg)
    BY DEF StaysInEx
  <1>1. CASE ex.mem_we /\ ex.waddr = reg
    BY <1>1 DEF MovesToWb, ex_ready, VInv, ExValues
  <1>2. CASE ex.kind = "apu" /\ ex.apu_waddr = reg
    <2>1. /\ valid_req(ex) /\ in.apu_gnt
          /\ ex.apu_lat = 1 => apu_on_alu_port(in) /\ apu_waddr(in) = ex.apu_waddr
      BY <1>2, OperationLeaves DEF VInv
    <2>2. ex.apu_lat # 1
      BY <1>2, <2>1 DEF alu_port
    <2> QED
      BY <1>2, <2>1, <2>2 DEF MovesToFpu
  <1> QED
    BY <1>1, <1>2 DEF ExWritesLate

\* A CSR access writes its register in its first cycle.
LEMMA CsrWritesAtOnce ==
  ASSUME VInv, NEW in, GoodInput(in), ex.kind = "csr"
  PROVE  /\ ~apu_on_alu_port(in)
         /\ mult_ready(ex) /\ alu_ready(ex) /\ Lsu!lsu_ready_ex_o(ex, in)
  <1>1. ~active /\ ~valid_req(ex) /\ ~ex.req
    BY DEF VInv, IInv, CsrWaitsForFlags, ExInv, valid_req
  <1>2. ~apu_on_alu_port(in)
    BY <1>1, FpuOnAluPort DEF VInv
  <1>3. mult_ready(ex) /\ alu_ready(ex)
    BY DEF VInv, IInv, MulhInv, DivInv, mulh_active_o, mult_ready, alu_ready
  <1> QED
    BY <1>1, <1>2, <1>3 DEF Lsu!lsu_ready_ex_o

\* A register that does not have its newest value after the writes of a cycle has it still to
\* come.
LEMMA NotYetWritten ==
  ASSUME VInv, NEW in, GoodInput(in), NEW reg \in Registers, reg # 0, Write(in)[reg] # reg
  PROVE  /\ Write(in)[reg] = Old
         /\ \/ StaysInEx(in, reg) \/ MovesToWb(in, reg) \/ MovesToFpu(in, reg)
            \/ StaysInWb(in, reg) \/ StaysInFpu(in, reg)
  <1> DEFINE holds == \/ StaysInEx(in, reg) \/ MovesToWb(in, reg) \/ MovesToFpu(in, reg)
                      \/ StaysInWb(in, reg) \/ StaysInFpu(in, reg)
             byAlu == alu_port(in).we /\ alu_port(in).waddr = reg
             byLsu == lsu_port(in).we /\ lsu_port(in).waddr = reg
  <1>1. ValueFor(reg) = reg /\ reg # NoAddr
    BY PipelineAssumption DEF ValueFor
  <1>2. ~byAlu /\ ExWritesLate(reg) => holds
    BY LateMovesOn
  <1>3. CASE byAlu
    <2>1. Write(in)[reg] = alu_port(in).value
      BY <1>3 DEF Write
    <2>2. CASE apu_on_alu_port(in)
      <3>1. alu_port(in).value = apu_result /\ apu_waddr(in) = reg
        BY <1>3, <2>2 DEF alu_port
      <3>2. active /\ apu_lat = 3 /\ inflight = reg
        BY <1>1, <2>1, <2>2, <3>1, FpuOnAluPort DEF VInv, ExValues, IInv, ExInv, valid_req
      <3>3. apu_result = Old /\ ex.kind = "apu" /\ ex.apu_waddr = reg
        BY <1>1, <2>1, <3>1, <3>2 DEF VInv, FpuValues
      <3>4. ~ex_ready(in)
        BY <3>2, <3>3, OperationLeaves DEF VInv
      <3> QED
        BY <2>1, <3>1, <3>3, <3>4 DEF StaysInEx, ExWritesLate
    <2>3. CASE ~apu_on_alu_port(in)
      <3>1. ex.alu_we /\ alu_port(in).value = ex.result /\ ex.alu_waddr = reg
        BY <1>3, <2>3 DEF alu_port
      <3> QED
        BY <1>1, <2>1, <3>1 DEF VInv, ExValues
    <2> QED
      BY <2>2, <2>3
  <1>4. CASE ~byAlu /\ byLsu
    <2>1. Write(in)[reg] = lsu_port(in).value
      BY <1>4 DEF Write
    <2>2. CASE wb.we
      <3>1. lsu_port(in).value = wb.value /\ wb.waddr = reg
        BY <1>4, <2>2 DEF lsu_port
      <3>2. wb.value = Old /\ ExWritesLate(reg)
        BY <1>1, <2>1, <2>2, <3>1 DEF VInv, WbValues
      <3> QED
        BY <1>2, <1>4, <2>1, <3>1, <3>2
    <2>3. CASE ~wb.we
      <3>1. apu_on_lsu_port(in) /\ lsu_port(in).value = apu_result /\ apu_waddr(in) = reg
        BY <1>4, <2>3 DEF lsu_port
      <3>2. active /\ inflight = reg
        BY <3>1, FpuOnLsuPort DEF VInv
      <3>3. apu_result = Old /\ ExWritesLate(reg)
        BY <1>1, <2>1, <3>1, <3>2 DEF VInv, FpuValues, ExWritesLate
      <3> QED
        BY <1>2, <1>4, <2>1, <3>1, <3>3
    <2> QED
      BY <2>2, <2>3
  <1>5. CASE ~byAlu /\ ~byLsu
    <2>1. Write(in)[reg] = regfile[reg]
      BY <1>5 DEF Write
    <2>2. regfile[reg] = Old /\ HeldFor(reg)
      BY <2>1 DEF VInv, RegValues
    <2>3. CASE ex.alu_we /\ ex.alu_waddr = reg
      <3>1. ex.kind # "branch" /\ ~ex.apu_en
        BY <2>3 DEF VInv, ExValues, IInv, ExInv
      <3>2. ~ex_ready(in)
        <4>1. CASE apu_on_alu_port(in)
          BY <2>3, <3>1, <4>1 DEF ex_ready, wb_contention
        <4>2. CASE ~apu_on_alu_port(in)
          BY <1>5, <2>3, <3>1, <4>2 DEF alu_port, ex_ready, units_ready
        <4> QED
          BY <4>1, <4>2
      <3>3. ex.kind # "csr"
        BY <1>5, <2>3, CsrWritesAtOnce DEF alu_port
      <3> QED
        BY <2>1, <2>2, <2>3, <3>2, <3>3 DEF StaysInEx
    <2>4. CASE ExWritesLate(reg)
      BY <1>2, <1>5, <2>1, <2>2, <2>4
    <2>5. CASE wb.we /\ wb.waddr = reg /\ wb.value = reg
      <3>1. CASE ~wb_ready(in)
        BY <2>1, <2>2, <2>5, <3>1 DEF StaysInWb
      <3>2. CASE wb_ready(in)
        <4>1. ex.misaligned
          BY <1>5, <2>5, <3>2 DEF lsu_port
        <4>2. ExWritesLate(reg)
          BY <2>5, <4>1 DEF VInv, WbValues, ExWritesLate
        <4> QED
          BY <1>2, <1>5, <2>1, <2>2, <4>2
      <3> QED
        BY <3>1, <3>2
    <2>6. CASE inflight = reg /\ apu_result = reg
      <3>1. active
        BY <1>1, <2>6 DEF active
      <3>2. CASE ~apu_valid(in)
        BY <2>1, <2>2, <2>6, <3>1, <3>2 DEF StaysInFpu
      <3>3. CASE apu_valid(in)
        <4>1. ~apu_on_alu_port(in)
          BY <1>5, <2>6, <3>1, FpuOnAluPort DEF alu_port, VInv
        <4>2. apu_on_lsu_port(in) /\ apu_lat # 3
          BY <3>1, <3>3, <4>1 DEF apu_on_lsu_port, apu_on_alu_port, apu_singlecycle_o, apu_multicycle_o
        <4>3. wb.we
          BY <1>5, <2>6, <4>2, FpuOnLsuPort DEF lsu_port, VInv
        <4>4. ExWritesLate(reg)
          BY <2>6, <3>1, <4>2, <4>3 DEF VInv, FpuValues, ExWritesLate
        <4> QED
          BY <1>2, <1>5, <2>1, <2>2, <4>4
      <3> QED
        BY <3>2, <3>3
    <2> QED
      BY <2>2, <2>3, <2>4, <2>5, <2>6 DEF HeldFor, ExWrites
  <1> QED
    BY <1>3, <1>4, <1>5

-----------------------------------------------------------------------------
(* What an instruction in ID waits for *)

\* Who may take a register over from an instruction under way: an instruction that writes it
\* late itself, and for the FPU only another FPU operation.
LEMMA IssueKeepsOrder ==
  ASSUME VInv, NEW in, NEW i \in Instructions, id_ready(in, i), NEW reg \in Written(i)
  PROVE  /\ reg \in Registers
         /\ ex.waddr = reg /\ (ex.mem_we \/ (wb.we /\ ~wb_ready(in))) =>
              (mem_we(i) \/ i.kind = "apu") /\ i.rd = reg
         /\ dep(ex, apu_valid(in), reg) => i.kind = "apu" /\ i.rd = reg
  <1>1. /\ reg \in Registers
        /\ \/ alu_we(i) /\ reg = alu_waddr(i)
           \/ (mem_we(i) \/ i.kind = "apu") /\ reg = i.rd
    BY DEF Written
  <1>2. ~data_misaligned /\ ~load_stall(in, i) /\ ~apu_dep_stall(in, i)
    BY DEF id_ready
  <1>3. i.kind = "apu" => ~alu_we(i)
    BY PipelineAssumption DEF alu_we
  <1>4. ASSUME ex.waddr = reg, ex.mem_we \/ (wb.we /\ ~wb_ready(in))
        PROVE  (mem_we(i) \/ i.kind = "apu") /\ i.rd = reg
    <2>1. (ex.req /\ ex.mem_we) \/ (~wb_ready(in) /\ lsu_port(in).fw)
      BY <1>4 DEF VInv, ExValues, lsu_port
    <2> QED
      BY <1>1, <1>2, <1>4, <2>1 DEF load_stall
  <1>5. ASSUME dep(ex, apu_valid(in), reg) PROVE i.kind = "apu" /\ i.rd = reg
    BY <1>1, <1>2, <1>3, <1>5 DEF apu_dep_stall
  <1> QED
    BY <1>1, <1>2, <1>4, <1>5

\* An instruction gets the newest value of its register, from the register file or over one
\* of the forwarding paths.
LEMMA OperandForwarded ==
  ASSUME VInv, NEW in, GoodInput(in), NEW i \in Instructions, id_ready(in, i)
  PROVE  operand_fw(in, i.rs) = i.rs
  <1> DEFINE reg == i.rs
             hitsAlu == Hits(alu_port(in), reg)
             hitsLsu == Hits(lsu_port(in), reg)
  <1>1. /\ reg \in Registers /\ reg # NoAddr
        /\ reg # 0 => ValueFor(reg) = reg
    BY PipelineAssumption DEF ValueFor
  <1>2. /\ ex_ready(in) /\ ~load_stall(in, i) /\ ~dep(ex, apu_valid(in), reg)
    BY DEF id_ready, apu_dep_stall
  <1>3. ASSUME reg # 0, ExWritesLate(reg) PROVE hitsAlu /\ apu_on_alu_port(in) /\ ~active
    <2>1. CASE ex.mem_we /\ ex.waddr = reg
      BY <1>2, <1>3, <2>1 DEF load_stall, IsLoadDest, VInv, ExValues
    <2>2. CASE ex.kind = "apu" /\ ex.apu_waddr = reg
      <3>1. valid_req(ex)
        BY <1>2, <2>2, OperationLeaves DEF VInv
      <3>2. returned_req(ex, apu_valid(in))
        BY <1>2, <2>2, <3>1 DEF dep
      <3>3. apu_on_alu_port(in) /\ ~active
        BY <3>2 DEF returned_req, apu_on_alu_port, apu_singlecycle_o
      <3>4. apu_waddr(in) = reg
        BY <2>2, <3>3, FpuOnAluPort DEF VInv
      <3> QED
        BY <1>3, <3>3, <3>4 DEF Hits, alu_port
    <2> QED
      BY <1>3, <2>1, <2>2 DEF ExWritesLate
  <1>4. ASSUME hitsAlu PROVE alu_port(in).value = reg
    <2>1. reg # 0 /\ alu_port(in).waddr = reg /\ alu_port(in).fw
      BY <1>4 DEF Hits
    <2>2. CASE apu_on_alu_port(in)
      <3>1. apu_waddr(in) = reg /\ alu_port(in).value = apu_result
        BY <2>1, <2>2 DEF alu_port
      <3>2. CASE active
        <4>1. inflight = reg
          BY <2>2, <3>1, <3>2, FpuOnAluPort DEF VInv
        <4>2. ~ExWritesLate(reg)
          BY <1>3, <2>1, <3>2
        <4> QED
          BY <1>1, <2>1, <3>1, <3>2, <4>1, <4>2 DEF VInv, FpuValues, ExWritesLate
      <3>3. CASE ~active
        <4>1. apu_result = ex.result /\ ex.apu_waddr = reg /\ ex.kind = "apu"
          BY <2>2, <3>1, <3>3, FpuOnAluPort DEF VInv, IInv, ExInv, valid_req
        <4> QED
          BY <1>1, <2>1, <3>1, <4>1 DEF VInv, ExValues
      <3> QED
        BY <3>2, <3>3
    <2>3. CASE ~apu_on_alu_port(in)
      <3>1. ex.alu_we /\ ex.alu_waddr = reg
        BY <2>1, <2>3 DEF alu_port
      <3>2. ex.result = reg /\ ex.kind # "branch"
        BY <1>1, <2>1, <3>1 DEF VInv, ExValues
      <3>3. mult_ready(ex) /\ alu_ready(ex)
        BY <1>2, <3>2 DEF ex_ready, units_ready
      <3> QED
        BY <2>3, <3>2, <3>3 DEF alu_port
    <2> QED
      BY <2>2, <2>3
  <1>5. ASSUME hitsLsu, ~hitsAlu PROVE lsu_port(in).value = reg
    <2>1. reg # 0 /\ lsu_port(in).waddr = reg /\ lsu_port(in).fw /\ ~ExWritesLate(reg)
      BY <1>3, <1>5 DEF Hits
    <2>2. CASE wb.we
      <3>1. wb.waddr = reg /\ wb.value = reg
        BY <1>1, <2>1, <2>2 DEF lsu_port, VInv, WbValues
      <3>2. ~ex.misaligned
        BY <2>1, <2>2, <3>1 DEF VInv, WbValues, ExWritesLate
      <3>3. ~ex.mem_we => ex.waddr = reg
        BY <2>2, <3>1 DEF VInv, WbValues
      <3>4. wb_ready(in)
        <4>1. SUFFICES ASSUME ~wb_ready(in) PROVE FALSE
          OBVIOUS
        <4>2. ex.kind = "branch"
          BY <1>2, <4>1 DEF ex_ready, units_ready
        <4>3. ex.waddr = reg
          BY <3>3, <4>2 DEF VInv, ExValues
        <4> QED
          BY <1>2, <2>1, <4>1, <4>3 DEF load_stall, IsLoadDest
      <3> QED
        BY <2>2, <3>1, <3>2, <3>4 DEF lsu_port
    <2>3. CASE ~wb.we
      <3>1. apu_on_lsu_port(in) /\ lsu_port(in).value = apu_result /\ apu_waddr(in) = reg
        BY <2>1, <2>3 DEF lsu_port
      <3>2. active /\ inflight = reg
        BY <3>1, FpuOnLsuPort DEF VInv
      <3> QED
        BY <1>1, <2>1, <3>1, <3>2 DEF VInv, FpuValues, ExWritesLate
    <2> QED
      BY <2>2, <2>3
  <1>6. ASSUME ~hitsLsu, ~hitsAlu PROVE regfile[reg] = reg
    <2> SUFFICES ASSUME regfile[reg] # reg PROVE FALSE
      OBVIOUS
    <2>1. reg # 0 /\ HeldFor(reg) /\ ~ExWritesLate(reg)
      BY <1>1, <1>3, <1>6 DEF VInv, RegValues
    <2>2. CASE ex.alu_we /\ ex.alu_waddr = reg
      <3>1. ~apu_on_alu_port(in)
        BY <1>2, <2>2 DEF ex_ready, wb_contention, VInv, ExValues
      <3> QED
        BY <1>6, <2>1, <2>2, <3>1 DEF Hits, alu_port
    <2>3. CASE wb.we /\ wb.waddr = reg
      BY <1>6, <2>1, <2>3 DEF Hits, lsu_port
    <2>4. CASE inflight = reg
      <3>1. active /\ apu_valid(in)
        BY <1>1, <1>2, <2>4 DEF active, dep, returned_inflight
      <3>2. ~apu_on_alu_port(in)
        BY <1>6, <2>1, <2>4, <3>1, FpuOnAluPort DEF Hits, alu_port, VInv
      <3>3. apu_on_lsu_port(in) /\ apu_lat # 3
        BY <3>1, <3>2 DEF apu_on_lsu_port, apu_on_alu_port, apu_singlecycle_o, apu_multicycle_o
      <3>4. ~wb.we
        BY <2>1, <2>4, <3>1, <3>3 DEF VInv, FpuValues, ExWritesLate
      <3> QED
        BY <1>6, <2>1, <2>4, <3>3, <3>4, FpuOnLsuPort DEF Hits, lsu_port, VInv
    <2> QED
      BY <2>1, <2>2, <2>3, <2>4 DEF HeldFor, ExWrites
  <1> QED
    BY <1>4, <1>5, <1>6 DEF operand_fw

\* A jalr that goes ahead finds the newest value of its register in the register file.
LEMMA JumpTarget ==
  ASSUME VInv, NEW in, GoodInput(in), in.jalr \in Registers, in.jalr # NoJump, in.is_decoding,
         ~jr_stall(in, in.jalr)
  PROVE  regfile[in.jalr] = in.jalr
  <1> DEFINE reg == in.jalr
  <1> SUFFICES ASSUME regfile[reg] # reg PROVE FALSE
    OBVIOUS
  <1>1. reg # 0 /\ HeldFor(reg)
    BY DEF VInv, RegValues
  <1>2. ~Hits(lsu_port(in), reg) /\ ~Hits(alu_port(in), reg) /\ ~read_dep_for_jalr_o(ex, reg)
        /\ ~(ex.mem_we /\ IsLoadDest(reg))
    BY DEF jr_stall
  <1>3. CASE ex.alu_we /\ ex.alu_waddr = reg
    <2>1. apu_on_alu_port(in)
      BY <1>1, <1>2, <1>3 DEF Hits, alu_port
    <2>2. active /\ apu_lat = 3
      BY <1>3, <2>1, FpuOnAluPort DEF VInv, ExValues, IInv, ExInv, valid_req
    <2>3. HoldBack(in)
      BY <1>2, <1>3, <2>2 DEF HoldBack, HoldBackJalr, apu_multicycle_o
    <2> QED
      BY <2>1, <2>3 DEF apu_on_alu_port, apu_valid
  <1>4. CASE ExWritesLate(reg)
    BY <1>1, <1>2, <1>4 DEF ExWritesLate, IsLoadDest, read_dep_for_jalr_o, VInv, IInv, ExInv
  <1>5. CASE wb.we /\ wb.waddr = reg
    BY <1>1, <1>2, <1>5 DEF Hits, lsu_port
  <1>6. CASE inflight = reg
    BY <1>2, <1>6 DEF read_dep_for_jalr_o
  <1> QED
    BY <1>1, <1>3, <1>4, <1>5, <1>6 DEF HeldFor, ExWrites

-----------------------------------------------------------------------------
(* One cycle *)

Cycle(in) ==
    \/ SecondHalf(in) \/ MulhStep(in) \/ Hold(in) \/ NoInstruction(in)
    \/ \E i \in Instructions : Issue(in, i)

\* The instruction in EX stays there: what it holds does not change, but for the ALU's write
\* enable, which it gives up when it has written.
Remains(in) ==
    /\ RestOfEdge(in, {})
    /\ DOMAIN ex' = DOMAIN ex
    /\ \A f \in {"kind", "result", "alu_waddr", "apu_waddr", "mem_we", "waddr", "load", "req", "rs"} :
          ex'[f] = ex[f]
    /\ ~ex_ready(in) /\ ex.kind # "csr" /\ ex.alu_we => ex'.alu_we
    /\ ex'.alu_we => ex.alu_we
    /\ ~(ex_ready(in) /\ ex.req) => ex'.misaligned = ex.misaligned
    /\ ex'.operand = ex.operand

Leaves(in) == ex_ready(in) /\ RestOfEdge(in, {}) /\ ex' = Bubble(ex)

\* The instruction in EX remains there, or leaves it, alone or for the next. The FPU does not
\* disturb the forwarding path while the ALU works for a split access or for MULH.
LEMMA CycleCases ==
  ASSUME VInv, NEW in, GoodInput(in), Cycle(in)
  PROVE  Remains(in) \/ Leaves(in) \/ \E i \in Instructions : Issue(in, i)
  <1> USE DEF VInv
  <1>1. CASE SecondHalf(in)
    <2>1. ex.req /\ ex.kind # "apu"
      BY <1>1 DEF SecondHalf, data_misaligned, Lsu!data_misaligned_o, IInv, ExInv
    <2>2. ~apu_on_alu_port(in)
      <3>1. SUFFICES ASSUME apu_on_alu_port(in) PROVE FALSE
        OBVIOUS
      <3>2. apu_lat = 3
        BY <2>1, <3>1, FpuOnAluPort DEF IInv, ExInv, valid_req
      <3> QED
        BY <1>1, <3>1, <3>2 DEF SecondHalf, HoldBack, apu_multicycle_o, apu_on_alu_port, apu_valid
    <2> QED
      BY <1>1, <2>1, <2>2 DEF SecondHalf, Remains, IInv, ExInv, ExValues
  <1>2. CASE MulhStep(in)
    <2>1. mulh_active_o /\ ex.kind = "mulh"
      BY <1>2 DEF MulhStep, multicycle_o, IInv, MulhInv, mulh_active_o
    <2>2. ~apu_on_alu_port(in)
      <3>1. SUFFICES ASSUME apu_on_alu_port(in) PROVE FALSE
        OBVIOUS
      <3>2. apu_lat = 3
        BY <2>1, <3>1, FpuOnAluPort DEF IInv, ExInv, valid_req
      <3> QED
        BY <2>1, <3>1, <3>2 DEF HoldBack, apu_multicycle_o, apu_on_alu_port, apu_valid
    <2> QED
      BY <1>2, <2>2 DEF MulhStep, Remains, IInv, ExInv, ExValues
  <1>3. CASE Hold(in)
    BY <1>3 DEF Hold, Remains, IInv, ExInv, ExValues
  <1>4. CASE NoInstruction(in)
    BY <1>4 DEF NoInstruction, Leaves
  <1> QED
    BY <1>1, <1>2, <1>3, <1>4 DEF Cycle

\* What the ID/EX register holds after an instruction has entered EX.
LEMMA Entered ==
  ASSUME NEW i \in Instructions, NEW value, ex' = IntoEx(i, ex, value), ex.waddr \in Registers
  PROVE  /\ {"alu_waddr", "waddr", "load", "mem_we", "rs", "operand", "addr", "post_increment"}
               \subseteq DOMAIN ex'
         /\ {ex'.alu_waddr, ex'.apu_waddr, ex'.waddr} \subseteq Registers
         /\ ex'.result = ValueFor(IF ex'.kind = "apu" THEN ex'.apu_waddr ELSE ex'.alu_waddr)
         /\ ex'.mem_we \in BOOLEAN /\ ex'.load \in Values /\ ~ex'.misaligned
         /\ ex'.rs = i.rs /\ ex'.operand = value
         /\ ex'.mem_we => ex'.req /\ ex'.kind = "load" /\ ex'.load = ValueFor(ex'.waddr)
         /\ ~ex'.mem_we => ex'.waddr = ex.waddr
         /\ ex'.alu_we => ex'.kind \notin {"bubble", "branch", "apu"}
         /\ \A reg \in Written(i) : ExWrites(reg)'
         /\ \A reg : (mem_we(i) \/ i.kind = "apu") /\ i.rd = reg => ExWritesLate(reg)'
         /\ i.kind = "apu" => ex'.kind = "apu" /\ ex'.apu_waddr = i.rd
  <1>1. /\ {i.rd, i.rs} \subseteq Registers
        /\ i.post_increment \in BOOLEAN /\ (i.post_increment => i.kind \in {"load", "store"})
    BY PipelineAssumption
  <1>2. alu_waddr(i) \in Registers /\ mem_we(i) \in BOOLEAN
    BY <1>1 DEF alu_waddr, mem_we
  <1>3. /\ ex'.kind = i.kind /\ ex'.alu_we = alu_we(i) /\ ex'.alu_waddr = alu_waddr(i)
        /\ ex'.result = (IF i.kind = "apu" THEN ValueFor(i.rd) ELSE ValueFor(alu_waddr(i)))
        /\ ex'.req = (i.kind \in {"load", "store"}) /\ ex'.misaligned = FALSE
        /\ ex'.mem_we = mem_we(i) /\ ex'.waddr = (IF mem_we(i) THEN i.rd ELSE ex.waddr)
        /\ ex'.load = (IF mem_we(i) THEN ValueFor(i.rd) ELSE Old)
        /\ ex'.apu_waddr = i.rd /\ ex'.rs = i.rs /\ ex'.operand = value
        /\ {"alu_waddr", "waddr", "load", "mem_we", "rs", "operand", "addr", "post_increment"}
               \subseteq DOMAIN ex'
    BY DEF IntoEx
  <1>4. \A reg : (mem_we(i) \/ i.kind = "apu") /\ i.rd = reg => ExWritesLate(reg)'
    BY <1>3 DEF ExWritesLate
  <1>5. \A reg \in Written(i) : ExWrites(reg)'
    BY <1>3, <1>4 DEF ExWrites, Written
  <1>6. ex'.alu_we => ex'.kind \notin {"bubble", "branch", "apu"}
    BY <1>1, <1>3 DEF alu_we
  <1>7. ex'.mem_we => ex'.req /\ ex'.kind = "load" /\ ex'.load = ValueFor(ex'.waddr)
    BY <1>3 DEF mem_we
  <1>8. ex'.load \in Values
    BY <1>1, <1>3 DEF ValueFor, Values
  <1> QED
    BY <1>1, <1>2, <1>3, <1>4, <1>5, <1>6, <1>7, <1>8

\* The instruction that enters EX writes the registers in "written": it leaves none of them
\* to a load or an FPU operation that would write it after its own write.
KeepsOrder(in, written) ==
    \A reg \in written :
        /\ ex_ready(in) /\ ExWrites(reg)'
        /\ ex.waddr = reg /\ (ex.mem_we \/ (wb.we /\ ~wb_ready(in))) => ExWritesLate(reg)'
        /\ dep(ex, apu_valid(in), reg) => ex'.kind = "apu" /\ ex'.apu_waddr = reg

\* What a cycle writes back or hands on, an instruction that enters EX makes old.
LEMMA CycleEdge ==
  ASSUME VInv, NEW in, GoodInput(in), Cycle(in)
  PROVE  \E written \in SUBSET Registers : RestOfEdge(in, written) /\ KeepsOrder(in, written)
  <1>1. CASE Remains(in) \/ Leaves(in)
    BY <1>1 DEF Remains, Leaves, KeepsOrder
  <1>2. ASSUME NEW i \in Instructions, Issue(in, i) PROVE KeepsOrder(in, Written(i))
    <2>1. id_ready(in, i) /\ ex_ready(in) /\ ex' = IntoEx(i, ex, operand_fw(in, i.rs))
      BY <1>2 DEF Issue, id_ready
    <2>2. ex.waddr \in Registers
      BY DEF VInv, ExValues
    <2> QED
      BY <2>1, <2>2, Entered, IssueKeepsOrder DEF KeepsOrder
  <1>3. \A i \in Instructions : Issue(in, i) => RestOfEdge(in, Written(i)) /\ Written(i) \in SUBSET Registers
    BY DEF Issue, Written
  <1> QED
    BY <1>1, <1>2, <1>3, CycleCases

\* The instruction in EX keeps what it is to write late, unless it leaves.
LEMMA LateStays ==
  ASSUME VInv, NEW in, GoodInput(in), Cycle(in), ~ex_ready(in)
  PROVE  /\ Remains(in) /\ ex'.misaligned = ex.misaligned
         /\ \A reg : ExWritesLate(reg) => ExWritesLate(reg)'
  <1>1. Remains(in)
    BY CycleCases DEF Leaves, Issue, id_ready
  <1> QED
    BY <1>1 DEF Remains, ExWritesLate

-----------------------------------------------------------------------------
(* Every part of the invariant is kept *)

\* The youngest instruction computes with, and makes, the newest values.
LEMMA ExValuesStep ==
  ASSUME VInv, NEW in, GoodInput(in), Cycle(in)
  PROVE  ExValues'
  <1>1. CASE Remains(in)
    BY <1>1 DEF Remains, VInv, ExValues
  <1>2. CASE Leaves(in)
    BY <1>2, PipelineAssumption DEF Leaves, Bubble, VInv, ExValues, IInv, ExInv, ValueFor, Values
  <1>3. ASSUME NEW i \in Instructions, Issue(in, i) PROVE ExValues'
    <2>1. id_ready(in, i) /\ ex' = IntoEx(i, ex, operand_fw(in, i.rs))
      BY <1>3 DEF Issue
    <2>2. operand_fw(in, i.rs) = i.rs
      BY <2>1, OperandForwarded
    <2>3. ex.waddr \in Registers
      BY DEF VInv, ExValues
    <2> QED
      BY <2>1, <2>2, <2>3, Entered DEF ExValues
  <1> QED
    BY <1>1, <1>2, <1>3, CycleCases

\* A load keeps its order on its way through WB.
LEMMA WbValuesStep ==
  ASSUME VInv, NEW in, GoodInput(in), Cycle(in), ExValues'
  PROVE  WbValues'
  <1> USE DEF KeepsOrder
  <1>1. PICK written \in SUBSET Registers : RestOfEdge(in, written) /\ KeepsOrder(in, written)
    BY CycleEdge
  <1>2. wb' = [next_wb(in) EXCEPT !.value = Aged(@, written)]
    BY <1>1 DEF RestOfEdge
  <1>3. \A reg \in Registers : ValueFor(reg) \in Values /\ Old \in Values
    BY DEF ValueFor, Values
  <1>4. \A value \in Values : Aged(value, written) \in {value, Old} /\ Aged(value, written) \in Values
    BY DEF Aged, Values
  <1>5. \A reg \in Registers : Aged(ValueFor(reg), written) # ValueFor(reg) => reg \in written
    BY DEF Aged, ValueFor
  <1>6. CASE units_ready(in)
    <2>1. /\ wb'.we = ex.mem_we /\ wb'.waddr = (IF ex.mem_we THEN ex.waddr ELSE 0)
          /\ wb'.value = Aged(ex.load, written)
          /\ wb' = [we |-> wb'.we, waddr |-> wb'.waddr, value |-> wb'.value]
      BY <1>2, <1>6 DEF next_wb
    <2>2. CASE ex.mem_we
      <3>1. /\ wb'.we /\ wb'.waddr = ex.waddr /\ wb'.value = Aged(ValueFor(ex.waddr), written)
            /\ ex.waddr \in Registers
        BY <2>1, <2>2 DEF VInv, ExValues
      <3>2. wb'.value # ValueFor(wb'.waddr) => ExWritesLate(wb.waddr)'
        BY <1>1, <1>5, <2>2, <3>1 DEF ExWritesLate
      <3>3. ~ex'.mem_we => ex'.waddr = ex.waddr
        <4>1. CASE Remains(in)
          BY <2>2, <4>1 DEF Remains
        <4>2. CASE Leaves(in)
          BY <4>2 DEF Leaves, Bubble, VInv, ExValues
        <4>3. ASSUME NEW i \in Instructions, Issue(in, i) PROVE ~ex'.mem_we => ex'.waddr = ex.waddr
          BY <3>1, <4>3, Entered DEF Issue
        <4> QED
          BY <4>1, <4>2, <4>3, CycleCases
      <3>4. ex'.misaligned => ex'.mem_we /\ ex'.waddr = ex.waddr
        <4>1. CASE Remains(in)
          BY <2>2, <4>1 DEF Remains
        <4>2. CASE Leaves(in)
          BY <4>2 DEF Leaves, Bubble, VInv, IInv, ExInv
        <4>3. ASSUME NEW i \in Instructions, Issue(in, i) PROVE ~ex'.misaligned
          BY <3>1, <4>3, Entered DEF Issue
        <4> QED
          BY <4>1, <4>2, <4>3, CycleCases
      <3>5. /\ wb'.value \in {ValueFor(wb'.waddr), Old}
            /\ wb' \in [we : BOOLEAN, waddr : Registers, value : Values]
        BY <1>3, <1>4, <2>1, <2>2, <3>1 DEF VInv, ExValues
      <3> QED
        BY <3>1, <3>2, <3>3, <3>4, <3>5 DEF WbValues
    <2>3. CASE ~ex.mem_we
      <3>1. ex.load \in Values
        BY DEF VInv, ExValues
      <3> QED
        BY <1>3, <1>4, <2>1, <2>3, <3>1, PipelineAssumption DEF WbValues, VInv, ExValues
    <2> QED
      BY <2>2, <2>3
  <1>7. CASE ~units_ready(in) /\ wb_ready(in)
    <2>1. wb' = [we |-> FALSE, waddr |-> 0, value |-> Aged(Old, written)]
      BY <1>2, <1>7 DEF next_wb
    <2> QED
      BY <1>3, <1>4, <2>1, PipelineAssumption DEF WbValues
  <1>8. CASE ~units_ready(in) /\ ~wb_ready(in)
    <2>1. wb' = [wb EXCEPT !.value = Aged(@, written)]
      BY <1>2, <1>8 DEF next_wb
    <2>2. /\ wb'.we = wb.we /\ wb'.waddr = wb.waddr /\ wb'.value = Aged(wb.value, written)
          /\ wb' \in [we : BOOLEAN, waddr : Registers, value : Values]
      BY <1>4, <2>1 DEF VInv, WbValues
    <2>3. CASE ~ex_ready(in)
      <3>1. written = {}
        BY <1>1, <2>3
      <3>2. wb'.value = wb.value
        BY <2>2, <3>1 DEF Aged
      <3>3. wb' = wb
        BY <2>2, <3>2 DEF VInv, WbValues
      <3>4. /\ ex'.misaligned = ex.misaligned /\ ex'.mem_we = ex.mem_we /\ ex'.waddr = ex.waddr
            /\ ExWritesLate(wb.waddr) => ExWritesLate(wb.waddr)'
        BY <2>3, <3>3, LateStays DEF Remains, ExWritesLate
      <3> QED
        BY <3>3, <3>4 DEF VInv, WbValues
    <2>4. CASE ex_ready(in)
      <3>1. ex.kind = "branch"
        BY <1>8, <2>4 DEF ex_ready
      <3>2. ~ex.mem_we /\ ~ex.req /\ ~ex.misaligned /\ \A reg : ~ExWritesLate(reg)
        BY <3>1 DEF VInv, ExValues, IInv, ExInv, ExWritesLate
      <3>3. wb.we => wb.value = ValueFor(wb.waddr) /\ wb.waddr = ex.waddr
        BY <3>2 DEF VInv, WbValues
      <3>4. wb'.we /\ wb'.value # ValueFor(wb'.waddr) => ExWritesLate(wb.waddr)'
        BY <1>1, <1>5, <1>8, <2>2, <3>3 DEF ExWritesLate
      <3>5. wb'.we => wb'.value \in {ValueFor(wb'.waddr), Old}
        BY <1>4, <2>2, <3>3 DEF VInv, WbValues
      <3>6. ~ex'.misaligned /\ (~ex'.mem_we => ex'.waddr = ex.waddr)
        <4>1. CASE Remains(in)
          BY <3>2, <4>1 DEF Remains
        <4>2. CASE Leaves(in)
          BY <4>2 DEF Leaves, Bubble, VInv, ExValues, IInv, ExInv
        <4>3. ASSUME NEW i \in Instructions, Issue(in, i)
              PROVE  ~ex'.misaligned /\ (~ex'.mem_we => ex'.waddr = ex.waddr)
          BY <4>3, Entered DEF Issue, VInv, ExValues
        <4> QED
          BY <4>1, <4>2, <4>3, CycleCases
      <3> QED
        BY <2>2, <3>3, <3>4, <3>5, <3>6 DEF WbValues
    <2> QED
      BY <2>3, <2>4
  <1> QED
    BY <1>6, <1>7, <1>8

\* An FPU operation keeps its order on its way through the FPU.
LEMMA FpuValuesStep ==
  ASSUME VInv, IInv', NEW in, GoodInput(in), Cycle(in)
  PROVE  FpuValues'
  <1> USE DEF KeepsOrder
  <1>1. PICK written \in SUBSET Registers : RestOfEdge(in, written) /\ KeepsOrder(in, written)
    BY CycleEdge
  <1>2. CASE ~active'
    BY <1>2 DEF active, FpuValues
  <1>3. ASSUME active', valid_req(ex), in.apu_gnt, ex.apu_lat # 1, ~returned_req(ex, apu_valid(in)),
               inflight' = ex.apu_waddr, apu_result' = Aged(ex.result, written)
        PROVE  FpuValues'
    <2>1. ex.kind = "apu" /\ ex.result = ValueFor(ex.apu_waddr) /\ ex.apu_waddr \in Registers
          /\ ~ex.mem_we
      BY <1>3 DEF VInv, ExValues, IInv, ExInv, valid_req
    <2>2. apu_result' \in {ValueFor(inflight'), Old}
      BY <1>3, <2>1 DEF Aged
    <2>3. ASSUME apu_result' # ValueFor(inflight') PROVE ex'.kind = "apu" /\ ex'.apu_waddr = inflight'
      <3>1. ex.apu_waddr \in written
        BY <1>3, <2>1, <2>3 DEF Aged, ValueFor
      <3>2. dep(ex, apu_valid(in), ex.apu_waddr)
        BY <1>3 DEF dep
      <3> QED
        BY <1>1, <1>3, <3>1, <3>2
    <2>4. ASSUME wb'.we PROVE ex'.kind = "apu" /\ ex'.apu_waddr = inflight'
      <3>1. ~units_ready(in)
        BY <1>1, <2>1, <2>4 DEF RestOfEdge, next_wb
      <3>2. ~ex_ready(in)
        BY <2>1, <3>1 DEF ex_ready
      <3> QED
        BY <1>3, <2>1, <3>2, LateStays DEF Remains
    <2> QED
      BY <1>3, <2>1, <2>2, <2>3, <2>4 DEF FpuValues
  <1>4. ASSUME active, ~apu_valid(in), ~valid_req(ex), apu_lat' = apu_lat, inflight' = inflight,
               apu_result' = Aged(apu_result, written)
        PROVE  FpuValues'
    <2>1. inflight \in Registers /\ apu_result \in {ValueFor(inflight), Old}
      BY <1>4, OneAtATime DEF VInv, FpuValues
    <2>2. apu_lat = 3
      <3>1. SUFFICES ASSUME apu_lat # 3 PROVE FALSE
        OBVIOUS
      <3>2. fpu # <<>> /\ Head(fpu).lat = apu_lat /\ Len(fpu) = 1
        BY <1>4, <3>1, OneAtATime DEF VInv
      <3>3. in.apu_rvalid
        BY <3>1, <3>2 DEF VInv, IInv, LatencyInv, GoodInput
      <3> QED
        BY <1>4, <3>1, <3>3 DEF apu_valid, HoldBack, apu_multicycle_o
    <2>3. apu_result' \in {ValueFor(inflight'), Old}
      BY <1>4, <2>1 DEF Aged
    <2>4. ASSUME apu_result' # ValueFor(inflight') PROVE ex'.kind = "apu" /\ ex'.apu_waddr = inflight'
      <3>1. CASE apu_result # ValueFor(inflight)
        <4>1. ex.kind = "apu" /\ ex.apu_waddr = inflight
          BY <1>4, <3>1 DEF VInv, FpuValues
        <4>2. ~ex_ready(in)
          BY <1>4, <4>1, OperationLeaves DEF VInv
        <4> QED
          BY <1>4, <4>1, <4>2, LateStays DEF Remains
      <3>2. CASE apu_result = ValueFor(inflight)
        <4>1. inflight \in written
          BY <1>4, <2>1, <2>4, <3>2 DEF Aged, ValueFor
        <4>2. dep(ex, apu_valid(in), inflight)
          BY <1>4 DEF dep, returned_inflight
        <4> QED
          BY <1>1, <1>4, <4>1, <4>2
      <3> QED
        BY <3>1, <3>2
    <2> QED
      BY <1>4, <2>1, <2>2, <2>3, <2>4 DEF FpuValues
  <1> QED
    BY <1>1, <1>2, <1>3, <1>4, OperationStep DEF VInv

\* The register file has the newest value of every register, or the value is to come.
LEMMA RegValuesStep ==
  ASSUME VInv, IInv', NEW in, GoodInput(in), Cycle(in)
  PROVE  RegValues'
  <1> USE DEF KeepsOrder
  <1>1. PICK written \in SUBSET Registers : RestOfEdge(in, written) /\ KeepsOrder(in, written)
    BY CycleEdge
  <1>2. regfile' = [reg \in Registers |-> Aged(Write(in)[reg], written \ {0})]
    BY <1>1 DEF RestOfEdge
  <1>3. regfile'[0] = 0
    BY <1>2, PipelineAssumption DEF Write, Aged
  <1>4. ASSUME NEW reg \in Registers, regfile'[reg] # reg
        PROVE  reg # 0 /\ regfile'[reg] = Old /\ HeldFor(reg)'
    <2>1. reg # 0 /\ reg # NoAddr
      BY <1>3, <1>4, PipelineAssumption
    <2>2. regfile'[reg] = Aged(Write(in)[reg], written \ {0})
      BY <1>2
    <2>3. CASE Write(in)[reg] = reg
      <3>1. reg \in written /\ regfile'[reg] = Old
        BY <1>4, <2>2, <2>3 DEF Aged
      <3> QED
        BY <1>1, <2>1, <3>1 DEF HeldFor
    <2>4. CASE Write(in)[reg] # reg
      <3>1. /\ Write(in)[reg] = Old
            /\ \/ StaysInEx(in, reg) \/ MovesToWb(in, reg) \/ MovesToFpu(in, reg)
               \/ StaysInWb(in, reg) \/ StaysInFpu(in, reg)
        BY <2>1, <2>4, NotYetWritten
      <3>2. regfile'[reg] = Old
        BY <2>2, <3>1 DEF Aged
      <3>3. CASE reg \in written
        BY <1>1, <2>1, <3>2, <3>3 DEF HeldFor
      <3>4. CASE reg \notin written
        <4>1. ValueFor(reg) = reg /\ Aged(reg, written) = reg
          BY <2>1, <3>4 DEF ValueFor, Aged
        <4>2. wb' = [next_wb(in) EXCEPT !.value = Aged(@, written)]
          BY <1>1 DEF RestOfEdge
        <4>3. CASE StaysInEx(in, reg)
          <5>1. Remains(in) /\ (ExWritesLate(reg) => ExWritesLate(reg)')
            BY <4>3, LateStays DEF StaysInEx
          <5>2. ExWrites(reg)'
            BY <4>3, <5>1 DEF StaysInEx, Remains, ExWrites
          <5> QED
            BY <2>1, <3>2, <5>2 DEF HeldFor
        <4>4. CASE MovesToWb(in, reg)
          <5>1. wb'.we /\ wb'.waddr = reg /\ wb'.value = reg
            BY <4>1, <4>2, <4>4 DEF MovesToWb, next_wb, VInv, ExValues
          <5> QED
            BY <2>1, <3>2, <5>1 DEF HeldFor
        <4>5. CASE MovesToFpu(in, reg)
          <5>1. ex.apu_waddr = reg /\ valid_req(ex) /\ in.apu_gnt /\ ex.apu_lat # 1
                /\ ex.result = reg
            BY <4>1, <4>5 DEF MovesToFpu, VInv, ExValues
          <5>2. ~returned_req(ex, apu_valid(in))
            BY <5>1, OneAtATime DEF returned_req, apu_valid, GoodInput, VInv
          <5>3. inflight' = reg
            BY <1>1, <5>1, <5>2 DEF RestOfEdge, DispatcherEdge
          <5>4. active'
            BY <2>1, <5>3 DEF active
          <5>5. apu_result' = reg
            BY <1>1, <4>1, <5>1, <5>4, OperationStep DEF VInv
          <5> QED
            BY <2>1, <3>2, <5>3, <5>5 DEF HeldFor
        <4>6. CASE StaysInWb(in, reg)
          <5>1. next_wb(in) = wb
            BY <4>6 DEF StaysInWb, next_wb, units_ready
          <5>2. wb'.we /\ wb'.waddr = reg /\ wb'.value = reg
            BY <4>1, <4>2, <4>6, <5>1 DEF StaysInWb, VInv, WbValues
          <5> QED
            BY <2>1, <3>2, <5>2 DEF HeldFor
        <4>7. CASE StaysInFpu(in, reg)
          <5>1. active /\ ~apu_valid(in) /\ ~valid_req(ex) /\ inflight = reg /\ apu_result = reg
            BY <4>7, RequestWithAnswer DEF StaysInFpu, VInv
          <5>2. inflight' = reg
            BY <1>1, <5>1 DEF RestOfEdge, DispatcherEdge, returned_inflight
          <5>3. active'
            BY <2>1, <5>2 DEF active
          <5>4. apu_result' = reg
            BY <1>1, <4>1, <5>1, <5>3, OperationStep DEF VInv
          <5> QED
            BY <2>1, <3>2, <5>2, <5>4 DEF HeldFor
        <4> QED
          BY <3>1, <4>3, <4>4, <4>5, <4>6, <4>7
      <3> QED
        BY <3>3, <3>4
    <2> QED
      BY <2>3, <2>4
  <1> QED
    BY <1>3, <1>4 DEF RegValues

\* The jalr in ID reads a register, or there is none.
LEMMA JalrReadsRegister ==
  ASSUME NEW jalr \in SUBSET (Registers \union {NoJump}), NEW in \in Inputs(jalr)
  PROVE  in.jalr \in Registers \union {NoJump}
  BY DEF Inputs

\* The inputs of a cycle, and what it does with them.
LEMMA NextIsCycle ==
  ASSUME Next
  PROVE  \E in : GoodInput(in) /\ in.jalr \in Registers \union {NoJump} /\ Cycle(in)
  <1>1. Jalrs \in SUBSET (Registers \union {NoJump})
    BY PipelineAssumption DEF Jalrs
  <1>2. ASSUME NEW in \in Inputs(Jalrs), SecondHalf(in) \/ MulhStep(in) \/ Hold(in) \/ NoInstruction(in)
        PROVE  GoodInput(in) /\ in.jalr \in Registers \union {NoJump} /\ Cycle(in)
    BY <1>1, <1>2, InputsAreGood, JalrReadsRegister DEF Cycle
  <1>3. ASSUME NEW i \in Instructions,
               NEW in \in Inputs({IF i.kind = "jalr" THEN i.rs ELSE NoJump}), Issue(in, i)
        PROVE  GoodInput(in) /\ in.jalr \in Registers \union {NoJump} /\ Cycle(in)
    <2>1. {IF i.kind = "jalr" THEN i.rs ELSE NoJump} \in SUBSET (Registers \union {NoJump})
      BY PipelineAssumption
    <2> QED
      BY <1>3, <2>1, InputsAreGood, JalrReadsRegister DEF Cycle
  <1> QED
    BY <1>2, <1>3 DEF Next

\* The pipeline starts with the newest values in the register file.
LEMMA InitValues == Init => VInv
  <1> SUFFICES ASSUME Init PROVE VInv
    OBVIOUS
  <1>1. IInv
    BY InitInv
  <1>2. ExValues
    BY PipelineAssumption DEF Init, ExValues, ValueFor, Values
  <1>3. WbValues
    BY PipelineAssumption DEF Init, WbValues, Values
  <1>4. FpuValues
    BY DEF Init, DispatcherInit, FpuValues, active
  <1>5. RegValues /\ target.value = target.reg
    BY PipelineAssumption DEF Init, RegValues
  <1> QED
    BY <1>1, <1>2, <1>3, <1>4, <1>5 DEF VInv

\* Every cycle keeps the invariant.
LEMMA NextValues == VInv /\ [Next]_vars => VInv'
  <1>1. ASSUME VInv, UNCHANGED vars PROVE VInv'
    <2>1. IInv'
      BY <1>1, NextInv DEF VInv
    <2>2. ExValues'
      BY <1>1 DEF vars, VInv, ExValues
    <2>3. WbValues'
      BY <1>1 DEF vars, VInv, WbValues, ExWritesLate
    <2>4. FpuValues'
      BY <1>1 DEF vars, dispatcherVars, VInv, FpuValues, active, apu_result, apu_result_i
    <2>5. RegValues' /\ target'.value = target'.reg
      BY <1>1 DEF vars, dispatcherVars, VInv, RegValues, HeldFor, ExWrites, ExWritesLate, apu_result,
         apu_result_i
    <2> QED
      BY <2>1, <2>2, <2>3, <2>4, <2>5 DEF VInv
  <1>2. ASSUME VInv, Next PROVE VInv'
    <2>1. PICK in : GoodInput(in) /\ in.jalr \in Registers \union {NoJump} /\ Cycle(in)
      BY <1>2, NextIsCycle
    <2>2. IInv'
      BY <1>2, NextInv DEF VInv
    <2>3. ExValues'
      BY <1>2, <2>1, ExValuesStep
    <2>4. WbValues'
      BY <1>2, <2>1, <2>3, WbValuesStep
    <2>5. FpuValues'
      BY <1>2, <2>1, <2>2, FpuValuesStep
    <2>6. RegValues'
      BY <1>2, <2>1, <2>2, RegValuesStep
    <2>7. target'.value = target'.reg
      <3>1. PICK written : RestOfEdge(in, written)
        BY <1>2, <2>1, CycleEdge
      <3>2. CASE in.jalr # NoJump /\ in.is_decoding /\ ~jr_stall(in, in.jalr)
        <4>1. target' = [reg |-> in.jalr, value |-> regfile[in.jalr]]
          BY <3>1, <3>2 DEF RestOfEdge
        <4> QED
          BY <1>2, <2>1, <3>2, <4>1, JumpTarget
      <3>3. CASE ~(in.jalr # NoJump /\ in.is_decoding /\ ~jr_stall(in, in.jalr))
        BY <3>1, <3>3 DEF RestOfEdge
      <3> QED
        BY <3>2, <3>3
    <2> QED
      BY <2>2, <2>3, <2>4, <2>5, <2>6, <2>7 DEF VInv
  <1> QED
    BY <1>1, <1>2

\* Whatever is under way in the FPU, the memory and the multi-cycle units, an instruction
\* computes with the newest values of its registers, and a jalr jumps to the newest value of
\* its register.
THEOREM OperandsAreForwarded == Spec => []OperandsAreNewest
  <1>1. VInv => OperandsAreNewest
    BY DEF VInv, ExValues, OperandsAreNewest
  <1> QED
    BY InitValues, NextValues, <1>1, PTL DEF Spec

\* The newest value of a register is in the register file or on its way there: no result is
\* lost, and none arrives late over a newer one.
THEOREM ResultsArrive == Spec => []NothingIsLost
  <1>1. ASSUME VInv, NEW reg \in Registers, regfile[reg] # reg PROVE OnItsWay(reg)
    <2>1. reg # 0 /\ HeldFor(reg) /\ reg # NoAddr
      BY <1>1, PipelineAssumption DEF VInv, RegValues
    <2>2. ValueFor(reg) = reg
      BY <2>1 DEF ValueFor
    <2>3. CASE ExWrites(reg)
      BY <1>1, <2>2, <2>3 DEF ExWrites, ExWritesLate, OnItsWay, VInv, ExValues, IInv, ExInv
    <2>4. CASE wb.we /\ wb.waddr = reg /\ wb.value = reg
      BY <2>4 DEF OnItsWay
    <2>5. CASE inflight = reg /\ apu_result = reg
      <3>1. active
        BY <2>1, <2>5 DEF active
      <3>2. CASE apu_result_q # NoAddr
        BY <2>5, <3>2 DEF apu_result, OnItsWay
      <3>3. CASE apu_result_q = NoAddr
        <4>1. fpu # <<>> /\ Len(fpu) = 1 /\ fpu \in Seq(Operations)
          BY <1>1, <3>1, <3>3, OneAtATime DEF VInv, IInv, SlotInv
        <4>2. 1 \in DOMAIN fpu /\ fpu[1].value = reg
          BY <2>5, <3>3, <4>1 DEF apu_result, apu_result_i
        <4> QED
          BY <4>2 DEF OnItsWay
      <3> QED
        BY <3>2, <3>3
    <2> QED
      BY <2>1, <2>3, <2>4, <2>5 DEF HeldFor
  <1>2. VInv => NothingIsLost
    BY <1>1 DEF NothingIsLost
  <1> QED
    BY InitValues, NextValues, <1>2, PTL DEF Spec
==============================================================================
