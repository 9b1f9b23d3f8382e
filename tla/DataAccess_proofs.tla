-------------------------- MODULE DataAccess_proofs --------------------------
(***************************************************************************)
(* The load-store unit counts the transactions under way, keeps a request  *)
(* stable until it is granted, tells the sleep unit when a cv.elw is under *)
(* way, and performs loads and stores in program order: for every size of  *)
(* the memory and every set of accesses, with and without PULP_OBI.        *)
(***************************************************************************)
EXTENDS DataAccess, SequenceTheorems, TLAPS

\* cnt_q counts the answers the memory owes.
CountInv ==
    /\ answers \in Seq({answers[k] : k \in 1 .. Len(answers)})
    /\ cnt_q = Len(answers)
    /\ cnt_q \in 0 .. LSU_DEPTH

\* A branch and an access are never in EX together.
BranchInv == branch_in_ex => ~ex.req

-----------------------------------------------------------------------------
\* A sequence is one of the elements it has.
LEMMA SeqOfItsRange ==
  ASSUME NEW S, NEW s \in Seq(S)
  PROVE  s \in Seq({s[k] : k \in 1 .. Len(s)})
  <1>1. Len(s) \in Nat /\ s = [k \in 1 .. Len(s) |-> s[k]]
    BY LenProperties
  <1>2. \A k \in 1 .. Len(s) : s[k] \in {s[j] : j \in 1 .. Len(s)}
    OBVIOUS
  <1> QED
    BY <1>1, <1>2, IsASeq

\* Every cycle moves the load-store unit and the memory together.
LEMMA CycleMovesBoth ==
  ASSUME NEW gnt \in BOOLEAN, NEW rvalid \in BOOLEAN, NEW other_ready \in BOOLEAN,
         Cycle(gnt, rvalid, other_ready)
  PROVE  /\ RestOfEdge(Bus(gnt, rvalid))
         /\ rvalid => answers # <<>>
         /\ ex.req => other_ready
  BY DEF Cycle, Stall, SecondHalf, Other, Issue

\* An accepted transaction adds an answer that is owed, an answer takes one away.
LEMMA CountStep ==
  ASSUME CountInv, NEW gnt \in BOOLEAN, NEW rvalid \in BOOLEAN,
         rvalid => answers # <<>>, RestOfEdge(Bus(gnt, rvalid))
  PROVE  CountInv'
  <1> DEFINE bus == Bus(gnt, rvalid)
             S == {answers[k] : k \in 1 .. Len(answers)}
             rest == IF rvalid THEN Tail(answers) ELSE answers
             word == [l \in Lanes |-> mem[Transaction(ex).addr - (Transaction(ex).addr % 4) + l]]
  <1>1. (bus.rvalid <=> rvalid) /\ (bus.gnt <=> gnt)
    BY DEF Bus
  <1>2. answers \in Seq(S) /\ Len(answers) = cnt_q /\ cnt_q \in 0 .. 2
    BY DEF CountInv, LSU_DEPTH
  <1>3. rest \in Seq(S) /\ Len(rest) = IF rvalid THEN cnt_q - 1 ELSE cnt_q
    <2>1. CASE rvalid
      <3>1. answers # <<>>
        BY <2>1
      <3>2. Tail(answers) \in Seq(S) /\ Len(Tail(answers)) = Len(answers) - 1
        BY <1>2, <3>1, HeadTailProperties
      <3> QED
        BY <1>2, <2>1, <3>2
    <2>2. CASE ~rvalid
      BY <1>2, <2>2
    <2> QED
      BY <2>1, <2>2
  <1>4. answers' = IF Accepted(ex, bus) THEN Append(rest, word) ELSE rest
    BY <1>1 DEF RestOfEdge, MemoryEdge
  <1>5. cnt_q' = CASE Accepted(ex, bus) /\ ~rvalid -> cnt_q + 1
                   [] ~Accepted(ex, bus) /\ rvalid -> cnt_q - 1
                   [] OTHER                        -> cnt_q
    BY <1>1 DEF RestOfEdge, LsuEdge, next_cnt
  <1>6. Accepted(ex, bus) => cnt_q < 2
    BY DEF Accepted, trans_valid, LSU_DEPTH
  <1>7. rvalid => cnt_q > 0
    BY <1>2, EmptySeq
  <1> HIDE DEF bus, S, rest, word
  <1>8. CASE Accepted(ex, bus)
    <2>1. answers' \in Seq(S \union {word}) /\ Len(answers') = Len(rest) + 1
      BY <1>3, <1>4, <1>8, AppendProperties
    <2>2. (answers \in Seq({answers[k] : k \in 1 .. Len(answers)}))'
      BY <2>1, SeqOfItsRange
    <2>3. cnt_q' = Len(answers') /\ cnt_q' \in 0 .. 2
      BY <1>2, <1>3, <1>5, <1>6, <1>7, <1>8, <2>1
    <2> QED
      BY <2>2, <2>3 DEF CountInv, LSU_DEPTH
  <1>9. CASE ~Accepted(ex, bus)
    <2>1. answers' \in Seq(S) /\ Len(answers') = Len(rest)
      BY <1>3, <1>4, <1>9
    <2>2. (answers \in Seq({answers[k] : k \in 1 .. Len(answers)}))'
      BY <2>1, SeqOfItsRange
    <2>3. cnt_q' = Len(answers') /\ cnt_q' \in 0 .. 2
      BY <1>2, <1>3, <1>5, <1>7, <1>9, <2>1
    <2> QED
      BY <2>2, <2>3 DEF CountInv, LSU_DEPTH
  <1> QED
    BY <1>8, <1>9

\* The count is right from the start and whatever happens in a cycle.
THEOREM CountCorrect == Spec => []CountIsOutstanding
  <1>1. Init => CountInv
    BY DEF Init, LsuInit, CountInv, LSU_DEPTH
  <1>2. CountInv /\ [Next]_vars => CountInv'
    <2>1. ASSUME CountInv, Next PROVE CountInv'
      BY <2>1, CycleMovesBoth, CountStep DEF Next
    <2>2. ASSUME CountInv, UNCHANGED vars PROVE CountInv'
      BY <2>2 DEF CountInv, vars, lsuVars
    <2> QED
      BY <2>1, <2>2
  <1>3. CountInv => CountIsOutstanding
    BY DEF CountInv, CountIsOutstanding
  <1> QED
    BY <1>1, <1>2, <1>3, PTL DEF Spec

-----------------------------------------------------------------------------
\* What a request that waits relies on.
StableInv == CountInv /\ BranchInv /\ RequestsAreStable

\* An access leaves EX only when it has been accepted.
LEMMA RefusedStays ==
  ASSUME CountInv, BranchInv, NEW gnt \in BOOLEAN, NEW rvalid \in BOOLEAN,
         NEW other_ready \in BOOLEAN, Cycle(gnt, rvalid, other_ready),
         ex.req, cnt_q < LSU_DEPTH, ~Accepted(ex, Bus(gnt, rvalid))
  PROVE  ex' = ex
  <1>1. ~lsu_ready_ex_o(ex, Bus(gnt, rvalid))
    BY DEF lsu_ready_ex_o, LSU_DEPTH
  <1>2. ~ex_ready(Bus(gnt, rvalid), other_ready)
    BY <1>1 DEF ex_ready, BranchInv
  <1> QED
    BY <1>2 DEF Cycle, Stall, SecondHalf, Other, Issue

LEMMA BranchStep ==
  ASSUME BranchInv, NEW gnt \in BOOLEAN, NEW rvalid \in BOOLEAN,
         NEW other_ready \in BOOLEAN, Cycle(gnt, rvalid, other_ready)
  PROVE  BranchInv'
  <1> DEFINE bus == Bus(gnt, rvalid)
  <1>1. CASE Stall(bus, other_ready)
    BY <1>1 DEF Stall, BranchInv
  <1>2. CASE SecondHalf(bus, other_ready)
    BY <1>2 DEF SecondHalf, BranchInv, data_misaligned_o
  <1>3. ASSUME NEW branch \in BOOLEAN, Other(bus, other_ready, branch) PROVE BranchInv'
    BY <1>3 DEF Other, BranchInv, NoAccess
  <1>4. ASSUME NEW access \in Accesses, Issue(bus, other_ready, access) PROVE BranchInv'
    BY <1>4 DEF Issue, BranchInv
  <1> QED
    BY <1>1, <1>2, <1>3, <1>4 DEF Cycle

LEMMA StableStep ==
  ASSUME StableInv, NEW gnt \in BOOLEAN, NEW rvalid \in BOOLEAN,
         NEW other_ready \in BOOLEAN, Cycle(gnt, rvalid, other_ready)
  PROVE  RequestsAreStable'
  <1> DEFINE bus == Bus(gnt, rvalid)
  <1>1. RestOfEdge(bus) /\ (rvalid => answers # <<>>) /\ (bus.gnt <=> gnt)
    BY CycleMovesBoth DEF Bus
  <1> SUFFICES ASSUME waiting' # NoTransaction
               PROVE  Requesting' /\ Transaction(ex)' = waiting'
    BY DEF RequestsAreStable
  <1>2. trans_valid(ex, bus) /\ ~gnt /\ waiting' = Transaction(ex)
    BY <1>1 DEF RestOfEdge, MemoryEdge, NoTransaction
  <1>3. ex.req /\ cnt_q < LSU_DEPTH /\ ~Accepted(ex, bus)
    BY <1>1, <1>2 DEF trans_valid, Accepted
  <1>4. ex' = ex
    BY <1>3, RefusedStays DEF StableInv
  <1>5. cnt_q' \in {cnt_q, cnt_q - 1}
    BY <1>1, <1>3 DEF RestOfEdge, LsuEdge, next_cnt
  <1>6. Requesting'
    BY <1>3, <1>4, <1>5 DEF Requesting, StableInv, CountInv, LSU_DEPTH
  <1>7. Transaction(ex)' = Transaction(ex)
    BY <1>4 DEF Transaction, trans_addr, data_be, data_wdata, Offset
  <1> QED
    BY <1>2, <1>6, <1>7

\* TRANS_STABLE = 1 in the load-store unit is justified: nothing the pipeline does withdraws or
\* changes a request that has not been granted.
THEOREM RequestsStable == Spec => []RequestsAreStable
  <1>1. Init => StableInv
    BY DEF Init, LsuInit, StableInv, CountInv, BranchInv, RequestsAreStable, LSU_DEPTH
  <1>2. StableInv /\ [Next]_vars => StableInv'
    <2>1. ASSUME StableInv, Next PROVE StableInv'
      BY <2>1, CycleMovesBoth, CountStep, BranchStep, StableStep DEF Next, StableInv
    <2>2. ASSUME StableInv, UNCHANGED vars PROVE StableInv'
      BY <2>2 DEF StableInv, CountInv, BranchInv, RequestsAreStable, Requesting, Transaction,
                  trans_addr, data_be, data_wdata, Offset, vars, lsuVars
    <2> QED
      BY <2>1, <2>2
  <1>3. StableInv => RequestsAreStable
    BY DEF StableInv
  <1> QED
    BY <1>1, <1>2, <1>3, PTL DEF Spec

-----------------------------------------------------------------------------
\* What is in EX: the second half of an access is an access, and a cv.elw is a load.
ExInv ==
    /\ {"req", "we", "load_event", "misaligned"} \subseteq DOMAIN ex
    /\ ex.misaligned => ex.req
    /\ ex.load_event => ~ex.we

\* A load in WB owes an answer; the access in WB that owes one and is a cv.elw is a load; two
\* answers are owed only while an access waits in EX.
WbInv ==
    /\ regfile_we_lsu => cnt_q > 0
    /\ cnt_q > 0 /\ wb_ctrl_q.load_event => regfile_we_lsu
    /\ cnt_q = LSU_DEPTH => ex.req

\* Behind a cv.elw in WB there is only its second half or a bubble.
AloneInv ==
    regfile_we_lsu /\ wb_ctrl_q.load_event =>
      /\ ~branch_in_ex
      /\ ex.req => ex.misaligned /\ ex.load_event

\* A cv.elw that was accepted early has started.
EarlyInv == cnt_q = LSU_DEPTH /\ ex.req /\ ex.load_event => p_elw_busy_q

ElwInv == CountInv /\ BranchInv /\ ExInv /\ WbInv /\ AloneInv /\ EarlyInv /\ ElwBusyWhileUnderWay

\* An access leaves EX for WB in one cycle or stays in EX.
LEMMA MovesOrStays ==
  ASSUME CountInv, BranchInv, NEW gnt \in BOOLEAN, NEW rvalid \in BOOLEAN,
         NEW other_ready \in BOOLEAN, Cycle(gnt, rvalid, other_ready), ex.req
  PROVE  IF lsu_ready_ex_o(ex, Bus(gnt, rvalid))
         THEN ex_ready(Bus(gnt, rvalid), other_ready)
         ELSE UNCHANGED <<ex, branch_in_ex>>
  <1> DEFINE bus == Bus(gnt, rvalid)
  <1>1. ~branch_in_ex /\ other_ready
    BY CycleMovesBoth DEF BranchInv
  <1>2. cnt_q \in 0 .. 2
    BY DEF CountInv, LSU_DEPTH
  <1>3. CASE lsu_ready_ex_o(ex, bus)
    <2>1. lsu_ready_wb_o(bus)
      BY <1>2, <1>3 DEF lsu_ready_ex_o, lsu_ready_wb_o, LSU_DEPTH
    <2> QED
      BY <1>1, <1>3, <2>1 DEF ex_ready
  <1>4. CASE ~lsu_ready_ex_o(ex, bus)
    <2>1. ~ex_ready(bus, other_ready)
      BY <1>1, <1>4 DEF ex_ready
    <2> QED
      BY <1>4, <2>1 DEF Cycle, Stall, SecondHalf, Other, Issue
  <1> QED
    BY <1>3, <1>4

LEMMA ExStep ==
  ASSUME ExInv, NEW gnt \in BOOLEAN, NEW rvalid \in BOOLEAN,
         NEW other_ready \in BOOLEAN, Cycle(gnt, rvalid, other_ready)
  PROVE  ExInv'
  <1> DEFINE bus == Bus(gnt, rvalid)
  <1>1. CASE Stall(bus, other_ready)
    BY <1>1 DEF Stall, ExInv
  <1>2. CASE SecondHalf(bus, other_ready)
    <2>1. ex' = [ex EXCEPT !.addr = (@ + 4) % BYTES, !.misaligned = TRUE] /\ ex.req
      BY <1>2 DEF SecondHalf, data_misaligned_o
    <2>2. DOMAIN ex' = DOMAIN ex
      BY <2>1
    <2>3. (ex'.req <=> ex.req) /\ (ex'.we <=> ex.we) /\ (ex'.load_event <=> ex.load_event)
      BY <2>1 DEF ExInv
    <2> QED
      BY <2>1, <2>2, <2>3 DEF ExInv
  <1>3. ASSUME NEW branch \in BOOLEAN, Other(bus, other_ready, branch) PROVE ExInv'
    BY <1>3 DEF Other, ExInv, NoAccess
  <1>4. ASSUME NEW access \in Accesses, Issue(bus, other_ready, access) PROVE ExInv'
    BY <1>4, DataAccessAssumption DEF Issue, InEx, ExInv
  <1> QED
    BY <1>1, <1>2, <1>3, <1>4 DEF Cycle

\* What the steps below look at: how the count moves when the access in EX goes to WB, when an
\* access in EX waits, and when there is none.
LEMMA Moves ==
  ASSUME ElwInv, NEW gnt \in BOOLEAN, NEW rvalid \in BOOLEAN,
         NEW other_ready \in BOOLEAN, Cycle(gnt, rvalid, other_ready)
  PROVE  LET bus == Bus(gnt, rvalid) IN
         /\ rvalid => cnt_q > 0
         /\ lsu_ready_wb_o(bus) <=> cnt_q = 0 \/ rvalid
         /\ cnt_q \in 0 .. 2 /\ cnt_q' \in 0 .. 2
         /\ ctrl_update(ex, bus) =>
              /\ ex.req /\ lsu_ready_wb_o(bus) /\ cnt_q' = 1
              /\ cnt_q < 2 => trans_valid(ex, bus)
              /\ ex_ready(bus, other_ready)
         /\ ~ctrl_update(ex, bus) /\ ex.req =>
              /\ UNCHANGED <<ex, branch_in_ex>>
              /\ cnt_q = 2 => ~rvalid /\ cnt_q' = 2
              /\ cnt_q = 1 /\ rvalid => cnt_q' = 0
              /\ cnt_q = 1 /\ ~rvalid => cnt_q' \in {1, 2}
              /\ cnt_q' = 2 /\ cnt_q = 1 => trans_valid(ex, bus)
              /\ cnt_q = 0 => cnt_q' = 0
         /\ ~ex.req =>
              /\ cnt_q < 2
              /\ cnt_q' = IF rvalid THEN 0 ELSE cnt_q
  <1> DEFINE bus == Bus(gnt, rvalid)
  <1>1. RestOfEdge(bus) /\ (bus.gnt <=> gnt) /\ (bus.rvalid <=> rvalid)
    BY CycleMovesBoth DEF Bus
  <1>2. CountInv /\ CountInv'
    BY <1>1, CycleMovesBoth, CountStep DEF ElwInv
  <1>3. cnt_q \in 0 .. 2 /\ cnt_q' \in 0 .. 2
    BY <1>2 DEF CountInv, LSU_DEPTH
  <1>4. rvalid => cnt_q > 0
    <2>1. answers \in Seq({answers[k] : k \in 1 .. Len(answers)}) /\ cnt_q = Len(answers)
      BY <1>2 DEF CountInv
    <2>2. rvalid => answers # <<>>
      BY CycleMovesBoth
    <2> QED
      BY <2>1, <2>2, EmptySeq
  <1>5. lsu_ready_wb_o(bus) <=> cnt_q = 0 \/ rvalid
    BY <1>1 DEF lsu_ready_wb_o
  <1>6. cnt_q' = CASE Accepted(ex, bus) /\ ~rvalid -> cnt_q + 1
                   [] ~Accepted(ex, bus) /\ rvalid -> cnt_q - 1
                   [] OTHER                        -> cnt_q
    BY <1>1 DEF RestOfEdge, LsuEdge, next_cnt
  <1>7. Accepted(ex, bus) => ex.req /\ cnt_q < 2 /\ trans_valid(ex, bus)
    BY DEF Accepted, trans_valid, LSU_DEPTH
  <1>8. lsu_ready_ex_o(ex, bus) <=>
          \/ ~ex.req
          \/ cnt_q = 0 /\ Accepted(ex, bus)
          \/ cnt_q = 1 /\ rvalid /\ Accepted(ex, bus)
          \/ cnt_q = 2 /\ rvalid
    BY <1>1 DEF lsu_ready_ex_o, LSU_DEPTH
  <1>9. ex.req => IF lsu_ready_ex_o(ex, bus) THEN ex_ready(bus, other_ready)
                  ELSE UNCHANGED <<ex, branch_in_ex>>
    BY MovesOrStays DEF ElwInv
  <1>10. cnt_q = 2 => ex.req
    BY DEF ElwInv, WbInv, LSU_DEPTH
  <1> HIDE DEF bus
  <1>11. ASSUME ctrl_update(ex, bus)
         PROVE  /\ ex.req /\ lsu_ready_wb_o(bus) /\ cnt_q' = 1
                /\ cnt_q < 2 => trans_valid(ex, bus)
                /\ ex_ready(bus, other_ready)
    <2>1. ex.req /\ lsu_ready_ex_o(ex, bus)
      BY <1>11 DEF ctrl_update
    <2>2. \/ cnt_q = 0 /\ Accepted(ex, bus)
          \/ cnt_q = 1 /\ rvalid /\ Accepted(ex, bus)
          \/ cnt_q = 2 /\ rvalid
      BY <1>8, <2>1
    <2>3. ex_ready(bus, other_ready)
      BY <1>9, <2>1
    <2>4. cnt_q' = 1
      BY <1>3, <1>4, <1>6, <1>7, <2>2
    <2> QED
      BY <1>5, <1>7, <2>1, <2>2, <2>3, <2>4
  <1>12. ASSUME ~ctrl_update(ex, bus), ex.req
         PROVE  /\ UNCHANGED <<ex, branch_in_ex>>
                /\ cnt_q = 2 => ~rvalid /\ cnt_q' = 2
                /\ cnt_q = 1 /\ rvalid => cnt_q' = 0
                /\ cnt_q = 1 /\ ~rvalid => cnt_q' \in {1, 2}
                /\ cnt_q' = 2 /\ cnt_q = 1 => trans_valid(ex, bus)
                /\ cnt_q = 0 => cnt_q' = 0
    <2>1. ~lsu_ready_ex_o(ex, bus)
      BY <1>12 DEF ctrl_update
    <2>2. UNCHANGED <<ex, branch_in_ex>>
      BY <1>9, <1>12, <2>1
    <2>3. cnt_q = 2 => ~rvalid /\ ~Accepted(ex, bus)
      BY <1>7, <1>8, <2>1
    <2>4. cnt_q = 1 => ~(rvalid /\ Accepted(ex, bus))
      BY <1>8, <2>1
    <2>5. cnt_q = 0 => ~rvalid /\ ~Accepted(ex, bus)
      <3>1. cnt_q = 0 => ~rvalid
        BY <1>3, <1>4
      <3>2. cnt_q = 0 => ~Accepted(ex, bus)
        BY <1>8, <2>1
      <3> QED
        BY <3>1, <3>2
    <2>6. cnt_q = 2 => cnt_q' = 2
      BY <1>6, <2>3
    <2>7. cnt_q = 1 /\ rvalid => cnt_q' = 0
      BY <1>6, <2>4
    <2>8. cnt_q = 1 /\ ~rvalid => cnt_q' \in {1, 2}
      BY <1>6
    <2>9. cnt_q' = 2 /\ cnt_q = 1 => trans_valid(ex, bus)
      BY <1>6, <1>7
    <2>10. cnt_q = 0 => cnt_q' = 0
      BY <1>6, <2>5
    <2> QED
      BY <2>2, <2>3, <2>6, <2>7, <2>8, <2>9, <2>10
  <1>13. ASSUME ~ex.req
         PROVE  cnt_q < 2 /\ cnt_q' = IF rvalid THEN 0 ELSE cnt_q
    BY <1>3, <1>4, <1>6, <1>7, <1>10, <1>13
  <1> QED
    BY <1>3, <1>4, <1>5, <1>11, <1>12, <1>13 DEF bus

\* What the registers behind EX and the sleep unit take over.
LEMMA Registers ==
  ASSUME NEW gnt \in BOOLEAN, NEW rvalid \in BOOLEAN, RestOfEdge(Bus(gnt, rvalid))
  PROVE  LET bus == Bus(gnt, rvalid) IN
         /\ regfile_we_lsu' <=> IF ctrl_update(ex, bus) THEN ~ex.we
                               ELSE regfile_we_lsu /\ ~lsu_ready_wb_o(bus)
         /\ wb_ctrl_q'.load_event <=> IF ctrl_update(ex, bus) THEN ex.load_event
                                     ELSE wb_ctrl_q.load_event
         /\ p_elw_busy_q' <=>
              \/ ex.req /\ ex.load_event /\ trans_valid(ex, bus)
              \/ p_elw_busy_q /\ ~(wb_ctrl_q.load_event /\ rvalid /\ ~ex.misaligned)
  <1> DEFINE bus == Bus(gnt, rvalid)
  <1>1. bus.rvalid <=> rvalid
    BY DEF Bus
  <1>2. regfile_we_lsu' <=> IF ctrl_update(ex, bus) THEN ~ex.we
                            ELSE regfile_we_lsu /\ ~lsu_ready_wb_o(bus)
    BY DEF RestOfEdge
  <1>3. wb_ctrl_q'.load_event <=> IF ctrl_update(ex, bus) THEN ex.load_event
                                  ELSE wb_ctrl_q.load_event
    BY DEF RestOfEdge, LsuEdge
  <1>4. p_elw_busy_q' <=>
          \/ ex.req /\ ex.load_event /\ trans_valid(ex, bus)
          \/ p_elw_busy_q /\ ~(wb_ctrl_q.load_event /\ rvalid /\ ~ex.misaligned)
    BY <1>1 DEF RestOfEdge, p_elw_start_o, p_elw_finish_o
  <1> QED
    BY <1>2, <1>3, <1>4

\* Only its second half or a bubble takes the place of a cv.elw in EX.
LEMMA ElwLeaves ==
  ASSUME ElwInv, NEW gnt \in BOOLEAN, NEW rvalid \in BOOLEAN, NEW other_ready \in BOOLEAN,
         Cycle(gnt, rvalid, other_ready), ctrl_update(ex, Bus(gnt, rvalid)), ex.load_event
  PROVE  ~branch_in_ex' /\ (ex'.req => ex'.misaligned /\ ex'.load_event)
  <1> DEFINE bus == Bus(gnt, rvalid)
  <1>1. ex_ready(bus, other_ready) /\ ex.req
    BY Moves
  <1>2. ~branch_in_ex /\ {"req", "load_event", "misaligned"} \subseteq DOMAIN ex
    BY <1>1 DEF ElwInv, BranchInv, ExInv
  <1>3. CASE Stall(bus, other_ready)
    BY <1>1, <1>3 DEF Stall
  <1>4. CASE SecondHalf(bus, other_ready)
    BY <1>2, <1>4 DEF SecondHalf
  <1>5. ASSUME NEW branch \in BOOLEAN, Other(bus, other_ready, branch)
        PROVE  ~branch_in_ex' /\ (ex'.req => ex'.misaligned /\ ex'.load_event)
    BY <1>1, <1>5 DEF Other, MayFollow, NoAccess
  <1>6. ASSUME NEW access \in Accesses, Issue(bus, other_ready, access) PROVE FALSE
    BY <1>1, <1>6 DEF Issue, MayFollow
  <1> QED
    BY <1>3, <1>4, <1>5, <1>6 DEF Cycle

\* A bubble stays in EX until WB is ready.
LEMMA BubbleStays ==
  ASSUME NEW gnt \in BOOLEAN, NEW rvalid \in BOOLEAN, NEW other_ready \in BOOLEAN,
         Cycle(gnt, rvalid, other_ready), ~branch_in_ex, ~lsu_ready_wb_o(Bus(gnt, rvalid))
  PROVE  UNCHANGED <<ex, branch_in_ex>>
  <1>1. ~ex_ready(Bus(gnt, rvalid), other_ready)
    BY DEF ex_ready
  <1> QED
    BY <1>1 DEF Cycle, Stall, SecondHalf, Other, Issue

LEMMA ElwStep ==
  ASSUME ElwInv, NEW gnt \in BOOLEAN, NEW rvalid \in BOOLEAN, NEW other_ready \in BOOLEAN,
         Cycle(gnt, rvalid, other_ready)
  PROVE  WbInv' /\ AloneInv' /\ EarlyInv' /\ ElwBusyWhileUnderWay'
  <1> DEFINE bus == Bus(gnt, rvalid)
             update == ctrl_update(ex, bus)
             ready_wb == lsu_ready_wb_o(bus)
             valid == trans_valid(ex, bus)
  <1>1. RestOfEdge(bus)
    BY CycleMovesBoth
  <1>2. regfile_we_lsu' <=> IF update THEN ~ex.we ELSE regfile_we_lsu /\ ~ready_wb
    BY <1>1, Registers
  <1>3. wb_ctrl_q'.load_event <=> IF update THEN ex.load_event ELSE wb_ctrl_q.load_event
    BY <1>1, Registers
  <1>4. p_elw_busy_q' <=>
          \/ ex.req /\ ex.load_event /\ valid
          \/ p_elw_busy_q /\ ~(wb_ctrl_q.load_event /\ rvalid /\ ~ex.misaligned)
    BY <1>1, Registers
  <1>5. /\ rvalid => cnt_q > 0
        /\ ready_wb <=> cnt_q = 0 \/ rvalid
        /\ cnt_q \in 0 .. 2 /\ cnt_q' \in 0 .. 2
    BY Moves
  <1>6. update => ex.req /\ ready_wb /\ cnt_q' = 1 /\ (cnt_q < 2 => valid)
    BY Moves
  <1>7. ~update /\ ex.req =>
          /\ UNCHANGED <<ex, branch_in_ex>>
          /\ cnt_q = 2 => ~rvalid /\ cnt_q' = 2
          /\ cnt_q = 1 /\ rvalid => cnt_q' = 0
          /\ cnt_q = 1 /\ ~rvalid => cnt_q' \in {1, 2}
          /\ cnt_q' = 2 /\ cnt_q = 1 => valid
          /\ cnt_q = 0 => cnt_q' = 0
    BY Moves
  <1>8. ~ex.req => cnt_q < 2 /\ cnt_q' = IF rvalid THEN 0 ELSE cnt_q
    BY Moves
  <1>9. update /\ ex.load_event => ~branch_in_ex' /\ (ex'.req => ex'.misaligned /\ ex'.load_event)
    BY ElwLeaves
  <1>10. ~branch_in_ex /\ ~ready_wb => UNCHANGED <<ex, branch_in_ex>>
    BY BubbleStays
  <1>11. /\ ex.misaligned => ex.req
         /\ ex.load_event => ~ex.we
         /\ regfile_we_lsu => cnt_q > 0
         /\ cnt_q > 0 /\ wb_ctrl_q.load_event => regfile_we_lsu
         /\ cnt_q = 2 => ex.req
    BY DEF ElwInv, ExInv, WbInv, LSU_DEPTH
  <1>12. AloneInv /\ EarlyInv /\ ElwBusyWhileUnderWay
    BY DEF ElwInv
  <1> HIDE DEF bus, update, ready_wb, valid
  <1>13. WbInv'
    <2>1. ASSUME regfile_we_lsu' PROVE cnt_q' > 0
      BY <2>1, <1>2, <1>5, <1>6, <1>7, <1>8, <1>11
    <2>2. ASSUME cnt_q' > 0, wb_ctrl_q'.load_event PROVE regfile_we_lsu'
      BY <2>2, <1>2, <1>3, <1>5, <1>6, <1>7, <1>8, <1>11
    <2>3. ASSUME cnt_q' = 2 PROVE ex'.req
      BY <2>3, <1>5, <1>6, <1>7, <1>8
    <2> QED
      BY <2>1, <2>2, <2>3 DEF WbInv, LSU_DEPTH
  <1>14. AloneInv'
    <2> SUFFICES ASSUME regfile_we_lsu', wb_ctrl_q'.load_event
                 PROVE  ~branch_in_ex' /\ (ex'.req => ex'.misaligned /\ ex'.load_event)
      BY DEF AloneInv
    <2>1. CASE update
      BY <2>1, <1>3, <1>9
    <2>2. CASE ~update
      <3>1. regfile_we_lsu /\ wb_ctrl_q.load_event /\ ~ready_wb
        BY <2>2, <1>2, <1>3
      <3>2. ~branch_in_ex /\ (ex.req => ex.misaligned /\ ex.load_event)
        BY <3>1, <1>12 DEF AloneInv
      <3> QED
        BY <3>1, <3>2, <1>10
    <2> QED
      BY <2>1, <2>2
  <1>15. EarlyInv'
    <2> SUFFICES ASSUME cnt_q' = 2, ex'.req, ex'.load_event
                 PROVE  p_elw_busy_q'
      BY DEF EarlyInv, LSU_DEPTH
    <2>1. ex.req /\ ~update
      BY <1>5, <1>6, <1>8
    <2>2. ex' = ex
      BY <2>1, <1>7
    <2>3. CASE valid
      BY <2>1, <2>2, <2>3, <1>4
    <2>4. CASE ~valid
      <3>1. cnt_q = 2 /\ ~rvalid
        BY <2>1, <2>4, <1>5, <1>7
      <3> QED
        BY <2>1, <2>2, <3>1, <1>4, <1>12 DEF EarlyInv, LSU_DEPTH
    <2> QED
      BY <2>3, <2>4
  <1>16. ASSUME regfile_we_lsu', wb_ctrl_q'.load_event PROVE p_elw_busy_q'
    <2>1. CASE update /\ valid
      BY <2>1, <1>3, <1>4, <1>6, <1>16
    <2>2. CASE update /\ ~valid
      <3>1. cnt_q = 2 /\ ex.req /\ ex.load_event
        BY <2>2, <1>3, <1>5, <1>6, <1>16
      <3>2. p_elw_busy_q
        BY <3>1, <1>12 DEF EarlyInv, LSU_DEPTH
      <3>3. wb_ctrl_q.load_event => ex.misaligned
        BY <3>1, <1>11, <1>12 DEF AloneInv
      <3> QED
        BY <3>2, <3>3, <1>4
    <2>3. CASE ~update
      <3>1. regfile_we_lsu /\ wb_ctrl_q.load_event /\ ~ready_wb
        BY <2>3, <1>2, <1>3, <1>16
      <3>2. p_elw_busy_q
        BY <3>1, <1>12 DEF ElwBusyWhileUnderWay
      <3>3. ~rvalid
        BY <3>1, <1>5
      <3> QED
        BY <3>2, <3>3, <1>4
    <2> QED
      BY <2>1, <2>2, <2>3
  <1>17. ASSUME p_elw_busy_q'
         PROVE  (ex'.req /\ ex'.load_event) \/ (regfile_we_lsu' /\ wb_ctrl_q'.load_event)
    <2>1. CASE ex.req /\ ex.load_event
      <3>1. CASE update
        BY <2>1, <3>1, <1>2, <1>3, <1>11
      <3>2. CASE ~update
        BY <2>1, <3>2, <1>7
      <3> QED
        BY <3>1, <3>2
    <2>2. CASE ~(ex.req /\ ex.load_event)
      <3>1. p_elw_busy_q /\ ~(wb_ctrl_q.load_event /\ rvalid /\ ~ex.misaligned)
        BY <2>2, <1>4, <1>17
      <3>2. regfile_we_lsu /\ wb_ctrl_q.load_event
        BY <2>2, <3>1, <1>12 DEF ElwBusyWhileUnderWay
      <3>3. ~ex.req
        BY <2>2, <3>2, <1>12 DEF AloneInv
      <3>4. ~rvalid /\ ~update
        BY <3>1, <3>2, <3>3, <1>6, <1>11
      <3>5. cnt_q > 0
        BY <3>2, <1>11
      <3>6. ~ready_wb
        BY <3>4, <3>5, <1>5
      <3> QED
        BY <3>2, <3>4, <3>6, <1>2, <1>3
    <2> QED
      BY <2>1, <2>2
  <1>18. ElwBusyWhileUnderWay'
    BY <1>16, <1>17 DEF ElwBusyWhileUnderWay
  <1> QED
    BY <1>13, <1>14, <1>15, <1>18

\* The sleep unit never takes a cv.elw for finished while an answer of it is owed, nor for
\* under way when it has its last: whatever other loads are answered in between.
THEOREM ElwBusy == Spec => []ElwBusyWhileUnderWay
  <1>1. Init => ElwInv
    BY DEF Init, LsuInit, NoAccess, ElwInv, CountInv, BranchInv, ExInv, WbInv, AloneInv, EarlyInv,
           ElwBusyWhileUnderWay, LSU_DEPTH
  <1>2. ElwInv /\ [Next]_vars => ElwInv'
    <2>1. ASSUME ElwInv, NEW gnt \in BOOLEAN, NEW rvalid \in BOOLEAN,
                 NEW other_ready \in BOOLEAN, Cycle(gnt, rvalid, other_ready)
          PROVE  ElwInv'
      <3>1. CountInv'
        BY <2>1, CycleMovesBoth, CountStep DEF ElwInv
      <3>2. BranchInv'
        BY <2>1, BranchStep DEF ElwInv
      <3>3. ExInv'
        BY <2>1, ExStep DEF ElwInv
      <3>4. WbInv' /\ AloneInv' /\ EarlyInv' /\ ElwBusyWhileUnderWay'
        BY <2>1, ElwStep
      <3> QED
        BY <3>1, <3>2, <3>3, <3>4 DEF ElwInv
    <2>2. ASSUME ElwInv, UNCHANGED vars PROVE ElwInv'
      BY <2>2 DEF ElwInv, CountInv, BranchInv, ExInv, WbInv, AloneInv, EarlyInv,
                  ElwBusyWhileUnderWay, vars, lsuVars
    <2> QED
      BY <2>1, <2>2 DEF Next
  <1>3. ElwInv => ElwBusyWhileUnderWay
    BY DEF ElwInv
  <1> QED
    BY <1>1, <1>2, <1>3, PTL DEF Spec
-----------------------------------------------------------------------------
(* The program order: the inductive invariant. *)

\* Where the access in EX starts, the word its transaction is about, and the word it starts in.
Start == IF ex.misaligned THEN (ex.addr - 4) % BYTES ELSE ex.addr
WordOf(addr) == addr - (addr % 4)
ReadWord(addr) == [l \in Lanes |-> mem[WordOf(addr) + l]]

InAccess(a) == (a - Start) % BYTES < Program!Size(ex.type)
InTransaction(a) == a - WordOf(ex.addr) \in data_be(ex)
Stored(a) == ex.wdata[(a - Start) % BYTES]

Crosses(type, offset) == (type = "word" /\ offset # 0) \/ (type = "half" /\ offset = 3)

\* What is in EX is an access; only one that crosses a word boundary has a second half.
AccessInv ==
    /\ ex \in [req : BOOLEAN, misaligned : BOOLEAN, we : BOOLEAN, type : {"word", "half", "byte"},
               sign : 0 .. 2, addr : 0 .. BYTES - 1, reg_offset : {0},
               wdata : {ZeroWord} \union {StoreWord(n) : n \in Nat}, load_event : BOOLEAN]
    /\ ex.misaligned => ex.req /\ Crosses(ex.type, Offset(ex))
    /\ stores \in Nat
    /\ mem = [a \in 0 .. BYTES - 1 |-> mem[a]]

\* A load is in WB exactly while WB owes the answer of one; behind a first half in WB there is
\* its second half in EX.
LoadInWbInv ==
    /\ regfile_we_lsu <=> cnt_q > 0 /\ ~wb_ctrl_q.we
    /\ ex.misaligned => (wb_ctrl_q.we <=> ex.we)

\* The bytes of a store in EX whose transaction is accepted are in memory.
StoreInv ==
    ex.req /\ ex.we =>
      \A a \in 0 .. BYTES - 1 :
        /\ InAccess(a)
        /\ \/ InTransaction(a) /\ cnt_q = LSU_DEPTH
           \/ ~InTransaction(a) /\ ex.misaligned
        => mem[a] = Stored(a)

\* The words of a load in EX that were read are on their way, or kept, as they are in memory.
LoadInv ==
    ex.req /\ ~ex.we =>
      /\ cnt_q = LSU_DEPTH => answers[2] = ReadWord(ex.addr)
      /\ ex.misaligned /\ cnt_q > 0 => answers[1] = ReadWord(Start)
      /\ ex.misaligned /\ cnt_q = 0 => rdata_q = ReadWord(Start)

ValueInWb == data_rdata_ext(answers[1])
ValueInEx == Program!ReadFrom(mem, [type |-> ex.type, sign |-> ex.sign, addr |-> Start])

\* The loads that are due are the one in WB and the one in EX, which reads memory as it is.
DueInv ==
    due = IF regfile_we_lsu /\ ~ex.misaligned
          THEN IF ex.req /\ ~ex.we THEN <<ValueInWb, ValueInEx>> ELSE <<ValueInWb>>
          ELSE IF ex.req /\ ~ex.we THEN <<ValueInEx>> ELSE <<>>

-----------------------------------------------------------------------------
(* Addresses: the address space has BYTES bytes, in words of four. *)

\* Back into the address space by at most one round.
Wrapped(x) == IF x < 0 THEN x + BYTES ELSE IF x < BYTES THEN x ELSE x - BYTES

\* A remainder by the size of the address space, for sums that leave it by at most one round.
LEMMA Wrap == \A x \in -BYTES .. 2 * BYTES - 1 : x % BYTES = Wrapped(x)
  <1> SUFFICES ASSUME NEW x \in -BYTES .. 2 * BYTES - 1
               PROVE  x % BYTES = Wrapped(x)
    OBVIOUS
  <1>1. BYTES \in Nat \ {0}
    BY DataAccessAssumption
  <1> DEFINE r == x % BYTES
             q == x \div BYTES
  <1>2. r \in 0 .. BYTES - 1 /\ q \in Int /\ x = BYTES * q + r
    BY <1>1
  <1> HIDE DEF r, q
  <1>3. q \in {-1, 0, 1}
    <2>1. q >= 2 => BYTES * q >= 2 * BYTES
      BY <1>1, <1>2
    <2>2. q <= -2 => BYTES * q <= -2 * BYTES
      BY <1>1, <1>2
    <2> QED
      BY <1>1, <1>2, <2>1, <2>2
  <1>4. q = -1 => x = r - BYTES
    BY <1>1, <1>2
  <1>5. q = 0 => x = r
    BY <1>1, <1>2
  <1>6. q = 1 => x = r + BYTES
    BY <1>1, <1>2
  <1>7. r = Wrapped(x)
    BY <1>1, <1>2, <1>3, <1>4, <1>5, <1>6 DEF Wrapped
  <1> QED
    BY <1>7 DEF r

\* The word an address is in, and the place in it.
LEMMA Words ==
  ASSUME NEW addr \in 0 .. BYTES - 1
  PROVE  /\ BYTES \in Nat /\ BYTES >= 4 /\ BYTES % 4 = 0
         /\ addr % 4 \in 0 .. 3
         /\ WordOf(addr) \in 0 .. BYTES - 4 /\ WordOf(addr) % 4 = 0
         /\ addr = WordOf(addr) + (addr % 4)
  <1>1. BYTES \in Nat \ {0} /\ BYTES % 4 = 0
    BY DataAccessAssumption
  <1>2. addr % 4 \in 0 .. 3 /\ (addr - (addr % 4)) % 4 = 0
    BY <1>1
  <1>3. addr - (addr % 4) <= BYTES - 4
    BY <1>1, <1>2
  <1> QED
    BY <1>1, <1>2, <1>3 DEF WordOf

\* The next word is at the same place in the next word, and the word before that is the first.
LEMMA NextWord ==
  ASSUME NEW addr \in 0 .. BYTES - 1
  PROVE  LET next == (addr + 4) % BYTES IN
         /\ next \in 0 .. BYTES - 1 /\ next % 4 = addr % 4
         /\ next = IF addr + 4 < BYTES THEN addr + 4 ELSE addr + 4 - BYTES
         /\ WordOf(next) = IF WordOf(addr) + 4 < BYTES THEN WordOf(addr) + 4 ELSE 0
         /\ (next - 4) % BYTES = addr
  <1> DEFINE next == (addr + 4) % BYTES
  <1>1. /\ BYTES \in Nat /\ BYTES >= 4 /\ BYTES % 4 = 0
        /\ addr % 4 \in 0 .. 3 /\ WordOf(addr) \in 0 .. BYTES - 4 /\ WordOf(addr) % 4 = 0
        /\ addr = WordOf(addr) + (addr % 4)
    BY Words
  <1>2. next = IF addr + 4 < BYTES THEN addr + 4 ELSE addr + 4 - BYTES
    <2>1. addr + 4 \in -BYTES .. 2 * BYTES - 1
      BY <1>1
    <2>2. next = Wrapped(addr + 4)
      BY <2>1, Wrap
    <2>3. Wrapped(addr + 4) = IF addr + 4 < BYTES THEN addr + 4 ELSE addr + 4 - BYTES
      BY <1>1 DEF Wrapped
    <2> QED
      BY <2>2, <2>3
  <1> HIDE DEF next
  <1>3. next \in 0 .. BYTES - 1 /\ next % 4 = addr % 4
    <2>1. CASE addr + 4 < BYTES
      BY <1>1, <1>2, <2>1
    <2>2. CASE ~(addr + 4 < BYTES)
      <3>1. next = addr + 4 - BYTES
        BY <1>2, <2>2
      <3>2. PICK words \in Int : BYTES = 4 * words
        BY <1>1
      <3>3. next \in 0 .. BYTES - 1
        BY <1>1, <2>2, <3>1
      <3>4. next = addr + 4 * (1 - words)
        BY <1>1, <3>1, <3>2
      <3> QED
        BY <1>1, <3>2, <3>3, <3>4
    <2> QED
      BY <2>1, <2>2
  <1>4. WordOf(next) = IF WordOf(addr) + 4 < BYTES THEN WordOf(addr) + 4 ELSE 0
    BY <1>1, <1>2, <1>3 DEF WordOf
  <1>5. (next - 4) % BYTES = addr
    <2>1. next - 4 \in -BYTES .. 2 * BYTES - 1
      BY <1>1, <1>3
    <2>2. (next - 4) % BYTES = Wrapped(next - 4)
      BY <2>1, Wrap
    <2>3. Wrapped(next - 4) = addr
      BY <1>1, <1>2, <1>3 DEF Wrapped
    <2> QED
      BY <2>2, <2>3
  <1> QED
    BY <1>2, <1>3, <1>4, <1>5 DEF next

\* Where the access in EX starts and where its transaction is: its second half is about the next word.
LEMMA Halves ==
  ASSUME AccessInv
  PROVE  /\ Start \in 0 .. BYTES - 1 /\ Start % 4 = Offset(ex) /\ Offset(ex) \in 0 .. 3
         /\ Start = WordOf(Start) + Offset(ex)
         /\ WordOf(Start) \in 0 .. BYTES - 4 /\ WordOf(Start) % 4 = 0
         /\ WordOf(ex.addr) = IF ~ex.misaligned THEN WordOf(Start)
                              ELSE IF WordOf(Start) + 4 < BYTES THEN WordOf(Start) + 4 ELSE 0
         /\ BYTES \in Nat /\ BYTES >= 4 /\ BYTES % 4 = 0
  <1>1. ex.addr \in 0 .. BYTES - 1
    BY DEF AccessInv
  <1>2. /\ BYTES \in Nat /\ BYTES >= 4 /\ BYTES % 4 = 0
        /\ ex.addr % 4 \in 0 .. 3
    BY <1>1, Words
  <1>3. CASE ~ex.misaligned
    <2>1. Start = ex.addr
      BY <1>3 DEF Start
    <2> QED
      BY <1>1, <1>2, <1>3, <2>1, Words DEF Offset
  <1>4. CASE ex.misaligned
    <2>1. ex.addr - 4 \in -BYTES .. 2 * BYTES - 1
      BY <1>1, <1>2
    <2>2. Start = Wrapped(ex.addr - 4)
      BY <1>4, <2>1, Wrap DEF Start
    <2>3. Start \in 0 .. BYTES - 1 /\ Start + 4 \in -BYTES .. 2 * BYTES - 1
      BY <1>1, <1>2, <2>2 DEF Wrapped
    <2>4. ex.addr = Wrapped(Start + 4)
      BY <1>1, <1>2, <2>2 DEF Wrapped
    <2>5. ex.addr = (Start + 4) % BYTES
      BY <2>3, <2>4, Wrap
    <2>6. /\ ex.addr % 4 = Start % 4
          /\ WordOf(ex.addr) = IF WordOf(Start) + 4 < BYTES THEN WordOf(Start) + 4 ELSE 0
      BY <2>3, <2>5, NextWord
    <2>7. /\ Start = WordOf(Start) + (Start % 4)
          /\ WordOf(Start) \in 0 .. BYTES - 4 /\ WordOf(Start) % 4 = 0
      BY <2>3, Words
    <2> QED
      BY <1>2, <1>4, <2>3, <2>6, <2>7 DEF Offset
  <1> QED
    BY <1>3, <1>4

\* The transaction stores bytes of the access at their place; all of them, when it is not split.
LEMMA Bytes ==
  ASSUME AccessInv, ex.req, NEW a \in 0 .. BYTES - 1
  PROVE  /\ InTransaction(a) => InAccess(a) /\ data_wdata(ex)[a - WordOf(ex.addr)] = Stored(a)
         /\ InAccess(a) /\ ~ex.misaligned /\ ~data_misaligned_o(ex) => InTransaction(a)
         /\ InAccess(a) /\ data_misaligned_o(ex) /\ ~InTransaction(a) =>
              a - (IF WordOf(Start) + 4 < BYTES THEN WordOf(Start) + 4 ELSE 0) \in
                IF ex.type = "word" THEN {k \in Lanes : k < Offset(ex)} ELSE {0}
  <1> DEFINE s == Start
             w == WordOf(Start)
             o == Offset(ex)
             d == (a - Start) % BYTES
             l == a - WordOf(ex.addr)
  <1>1. /\ s \in 0 .. BYTES - 1 /\ o \in 0 .. 3 /\ s = w + o
        /\ w \in 0 .. BYTES - 4 /\ w % 4 = 0
        /\ l = IF ~ex.misaligned THEN a - w ELSE IF w + 4 < BYTES THEN a - (w + 4) ELSE a
        /\ BYTES \in Nat /\ BYTES >= 4 /\ BYTES % 4 = 0
    BY Halves
  <1>2. d = IF a < s THEN a - s + BYTES ELSE a - s
    <2>1. s \in 0 .. BYTES - 1 /\ BYTES \in Nat
      BY <1>1
    <2>2. d = (a - s) % BYTES
      OBVIOUS
    <2> HIDE DEF s, w, o, d, l
    <2>3. a - s \in -BYTES .. 2 * BYTES - 1
      BY <2>1
    <2>4. d = Wrapped(a - s)
      BY <2>2, <2>3, Wrap
    <2> QED
      BY <2>1, <2>4 DEF Wrapped
  <1>3. /\ ex.type \in {"word", "half", "byte"} /\ ex.reg_offset = 0
        /\ ex.misaligned \in BOOLEAN
        /\ ex.misaligned => Crosses(ex.type, o)
    BY DEF AccessInv
  <1>4. InAccess(a) <=> d < Program!Size(ex.type)
    BY DEF InAccess
  <1>5. InTransaction(a) <=> l \in data_be(ex)
    BY DEF InTransaction
  <1>6. Stored(a) = ex.wdata[d]
    BY DEF Stored
  <1>7. l \in Lanes => data_wdata(ex)[l] = ex.wdata[(l - o) % 4]
    <2>1. (o - ex.reg_offset) % 4 = o
      BY <1>1, <1>3
    <2> QED
      BY <2>1 DEF data_wdata
  <1>8. data_misaligned_o(ex) <=> ~ex.misaligned /\ Crosses(ex.type, o)
    BY DEF data_misaligned_o, Crosses
  <1> HIDE DEF s, w, o, d, l
  <1>9. l \in data_be(ex) <=>
          /\ l \in 0 .. 3
          /\ \/ ex.type = "word" /\ ~ex.misaligned /\ l >= o
             \/ ex.type = "word" /\ ex.misaligned /\ l < o
             \/ ex.type = "half" /\ ~ex.misaligned /\ l \in {o, o + 1}
             \/ ex.type = "half" /\ ex.misaligned /\ l = 0
             \/ ex.type = "byte" /\ l = o
    <2>1. CASE ex.type = "word"
      BY <1>1, <1>3, <2>1 DEF data_be, Lanes, o
    <2>2. CASE ex.type = "half"
      <3>1. data_be(ex) = IF ex.misaligned THEN {0} ELSE {o, o + 1} \cap Lanes
        BY <1>3, <2>2 DEF data_be, o
      <3>2. CASE ex.misaligned
        <4>1. l \in data_be(ex) <=> l = 0
          BY <3>1, <3>2
        <4> QED
          BY <2>2, <3>2, <4>1
      <3>3. CASE ~ex.misaligned
        <4>1. l \in data_be(ex) <=> l \in {o, o + 1} /\ l \in 0 .. 3
          BY <3>1, <3>3 DEF Lanes
        <4> QED
          BY <2>2, <3>3, <4>1
      <3> QED
        BY <3>2, <3>3
    <2>3. CASE ex.type = "byte"
      BY <1>1, <1>3, <2>3 DEF data_be, Lanes, o
    <2> QED
      BY <1>3, <2>1, <2>2, <2>3
  <1>10. /\ ex.type = "word" => Program!Size(ex.type) = 4
         /\ ex.type = "half" => Program!Size(ex.type) = 2
         /\ ex.type = "byte" => Program!Size(ex.type) = 1
    BY DEF Program!Size
  <1>11. ASSUME l \in data_be(ex)
         PROVE  l \in 0 .. 3 /\ d = (l - o) % 4 /\ d < Program!Size(ex.type)
    <2>1. CASE ~ex.misaligned
      <3>1. d = a - s /\ l = a - w /\ l \in 0 .. 3 /\ l >= o /\ d = l - o
        BY <1>1, <1>2, <1>3, <1>9, <1>11, <2>1
      <3>2. (l - o) % 4 = l - o
        BY <1>1, <3>1
      <3>3. d < Program!Size(ex.type)
        BY <1>1, <1>3, <1>9, <1>10, <1>11, <2>1, <3>1
      <3> QED
        BY <3>1, <3>2, <3>3
    <2>2. CASE ex.misaligned
      <3>1. l \in 0 .. 3 /\ l < o /\ d = l + 4 - o
        BY <1>1, <1>2, <1>3, <1>9, <1>11, <2>2 DEF Crosses
      <3>2. (l - o) % 4 = l + 4 - o
        BY <1>1, <3>1
      <3>3. d < Program!Size(ex.type)
        BY <1>1, <1>3, <1>9, <1>10, <1>11, <2>2, <3>1 DEF Crosses
      <3> QED
        BY <3>1, <3>2, <3>3
    <2> QED
      BY <1>3, <2>1, <2>2
  <1>12. ASSUME d < Program!Size(ex.type), ~ex.misaligned, ~Crosses(ex.type, o)
         PROVE  l \in data_be(ex)
    <2>1. CASE ex.type = "word"
      BY <1>1, <1>2, <1>9, <1>10, <1>12, <2>1 DEF Crosses
    <2>2. CASE ex.type = "half"
      BY <1>1, <1>2, <1>9, <1>10, <1>12, <2>2 DEF Crosses
    <2>3. CASE ex.type = "byte"
      BY <1>1, <1>2, <1>9, <1>10, <1>12, <2>3
    <2> QED
      BY <1>3, <2>1, <2>2, <2>3
  <1>13. l \in data_be(ex) => data_wdata(ex)[l] = Stored(a) /\ InAccess(a)
    BY <1>4, <1>6, <1>7, <1>11 DEF Lanes
  <1>14. ASSUME d < Program!Size(ex.type), ~ex.misaligned, Crosses(ex.type, o), l \notin data_be(ex)
         PROVE  a - (IF w + 4 < BYTES THEN w + 4 ELSE 0) \in
                  IF ex.type = "word" THEN {k \in Lanes : k < o} ELSE {0}
    <2>1. CASE ex.type = "word"
      <3>1. ~(l \in 0 .. 3 /\ l >= o)
        BY <1>9, <1>14, <2>1
      <3>2. a - (IF w + 4 < BYTES THEN w + 4 ELSE 0) \in 0 .. 3
        BY <1>1, <1>2, <1>10, <1>14, <2>1, <3>1
      <3>3. a - (IF w + 4 < BYTES THEN w + 4 ELSE 0) < o
        BY <1>1, <1>2, <1>10, <1>14, <2>1, <3>1
      <3> QED
        BY <2>1, <3>2, <3>3 DEF Lanes
    <2>2. CASE ex.type = "half"
      <3>1. o = 3 /\ l # 3
        BY <1>9, <1>14, <2>2 DEF Crosses
      <3>2. a - (IF w + 4 < BYTES THEN w + 4 ELSE 0) = 0
        BY <1>1, <1>2, <1>10, <1>14, <2>2, <3>1
      <3> QED
        BY <2>2, <3>2
    <2> QED
      BY <1>14, <2>1, <2>2 DEF Crosses
  <1> QED
    BY <1>4, <1>5, <1>8, <1>12, <1>13, <1>14 DEF l, w, o

-----------------------------------------------------------------------------
(* The memory and its answers. *)

OrderInv == ElwInv /\ AccessInv /\ LoadInWbInv /\ StoreInv /\ LoadInv /\ DueInv

\* A granted transaction reads the word it is about and stores its bytes.
LEMMA MemoryMoves ==
  ASSUME AccessInv, NEW gnt \in BOOLEAN, NEW rvalid \in BOOLEAN, RestOfEdge(Bus(gnt, rvalid))
  PROVE  LET accepted == Accepted(ex, Bus(gnt, rvalid))
             rest     == IF rvalid THEN Tail(answers) ELSE answers
         IN  /\ answers' = IF accepted THEN Append(rest, ReadWord(ex.addr)) ELSE rest
             /\ mem' = IF accepted /\ ex.we
                       THEN [a \in 0 .. BYTES - 1 |->
                               IF InTransaction(a) THEN data_wdata(ex)[a - WordOf(ex.addr)] ELSE mem[a]]
                       ELSE mem
  <1> DEFINE bus == Bus(gnt, rvalid)
             t == Transaction(ex)
             base == t.addr - (t.addr % 4)
             accepted == Accepted(ex, Bus(gnt, rvalid))
             rest == IF rvalid THEN Tail(answers) ELSE answers
  <1>1. bus.rvalid <=> rvalid
    BY DEF Bus
  <1>2. base = WordOf(ex.addr)
    <2>1. ex.addr \in 0 .. BYTES - 1
      BY DEF AccessInv
    <2>2. WordOf(ex.addr) \in Int /\ WordOf(ex.addr) % 4 = 0
      <3>1. BYTES \in Nat /\ WordOf(ex.addr) \in 0 .. BYTES - 4 /\ WordOf(ex.addr) % 4 = 0
        BY <2>1, Words
      <3> QED
        BY <3>1
    <2>3. t.addr = IF ex.misaligned THEN ex.addr - (ex.addr % 4) ELSE ex.addr
      BY DEF Transaction, trans_addr, Offset
    <2>4. t.addr = IF ex.misaligned THEN WordOf(ex.addr) ELSE ex.addr
      BY <2>3 DEF WordOf
    <2> HIDE DEF t
    <2>5. CASE ex.misaligned
      BY <2>2, <2>4, <2>5
    <2>6. CASE ~ex.misaligned
      BY <2>4, <2>6 DEF WordOf
    <2> QED
      BY <2>5, <2>6
  <1>3. /\ answers' = IF accepted THEN Append(rest, [l \in Lanes |-> mem[base + l]]) ELSE rest
        /\ mem' = IF accepted /\ t.we
                  THEN [a \in 0 .. BYTES - 1 |-> IF a - base \in t.be THEN t.wdata[a - base] ELSE mem[a]]
                  ELSE mem
    BY <1>1 DEF RestOfEdge, MemoryEdge
  <1>4. t.we = ex.we /\ t.be = data_be(ex) /\ t.wdata = data_wdata(ex)
    BY DEF Transaction
  <1> HIDE DEF t, base, rest, accepted
  <1>5. answers' = IF accepted THEN Append(rest, ReadWord(ex.addr)) ELSE rest
    BY <1>2, <1>3 DEF ReadWord
  <1>6. mem' = IF accepted /\ ex.we
               THEN [a \in 0 .. BYTES - 1 |->
                       IF InTransaction(a) THEN data_wdata(ex)[a - WordOf(ex.addr)] ELSE mem[a]]
               ELSE mem
    BY <1>2, <1>3, <1>4 DEF InTransaction
  <1> QED
    BY <1>5, <1>6 DEF rest, accepted

\* What is appended comes last and moves nothing.
LEMMA AppendTo ==
  ASSUME NEW S, NEW s \in Seq(S), NEW e
  PROVE  /\ Len(Append(s, e)) = Len(s) + 1
         /\ \A k \in 1 .. Len(s) : Append(s, e)[k] = s[k]
         /\ Append(s, e)[Len(s) + 1] = e
  <1>1. s \in Seq(S \union {e}) /\ e \in S \union {e}
    OBVIOUS
  <1> QED
    BY <1>1, AppendProperties

\* The answers in their places: the first is for the access in WB, the second for the one in EX.
LEMMA AnswersMove ==
  ASSUME ElwInv, AccessInv, NEW gnt \in BOOLEAN, NEW rvalid \in BOOLEAN, NEW other_ready \in BOOLEAN,
         Cycle(gnt, rvalid, other_ready)
  PROVE  LET bus == Bus(gnt, rvalid) IN
         /\ rvalid => bus.rdata = answers[1]
         /\ ctrl_update(ex, bus) =>
              answers'[1] = IF cnt_q = 2 THEN answers[2] ELSE ReadWord(ex.addr)
         /\ ~ctrl_update(ex, bus) /\ cnt_q' > 0 =>
              cnt_q > 0 /\ ~rvalid /\ answers'[1] = answers[1]
         /\ cnt_q' = 2 =>
              answers'[2] = IF cnt_q = 2 THEN answers[2] ELSE ReadWord(ex.addr)
  <1> DEFINE bus == Bus(gnt, rvalid)
             S == {answers[k] : k \in 1 .. Len(answers)}
             rest == IF rvalid THEN Tail(answers) ELSE answers
             word == ReadWord(ex.addr)
             accepted == Accepted(ex, bus)
             update == ctrl_update(ex, bus)
  <1>1. /\ RestOfEdge(bus) /\ (bus.rvalid <=> rvalid)
        /\ rvalid => answers # <<>> /\ bus.rdata = Head(answers)
    BY CycleMovesBoth DEF Bus
  <1>2. answers \in Seq(S) /\ Len(answers) = cnt_q /\ cnt_q \in 0 .. 2
    BY DEF ElwInv, CountInv, LSU_DEPTH
  <1>3. answers' = IF accepted THEN Append(rest, word) ELSE rest
    BY <1>1, MemoryMoves
  <1>4. /\ rvalid => cnt_q > 0
        /\ cnt_q' \in 0 .. 2
        /\ update => ex.req /\ cnt_q' = 1
        /\ ~update /\ ex.req =>
             /\ cnt_q = 2 => ~rvalid
             /\ cnt_q = 1 /\ rvalid => cnt_q' = 0
             /\ cnt_q = 0 => cnt_q' = 0
        /\ ~ex.req => cnt_q < 2 /\ cnt_q' = IF rvalid THEN 0 ELSE cnt_q
    BY Moves
  <1>5. cnt_q' = CASE accepted /\ ~rvalid -> cnt_q + 1
                   [] ~accepted /\ rvalid -> cnt_q - 1
                   [] OTHER               -> cnt_q
    BY <1>1 DEF RestOfEdge, LsuEdge, next_cnt
  <1>6. /\ accepted => cnt_q < 2
        /\ update => cnt_q = 2 \/ (accepted /\ (cnt_q = 1 => rvalid))
    BY <1>1, <1>2 DEF Accepted, trans_valid, ctrl_update, lsu_ready_ex_o, LSU_DEPTH
  <1>7. /\ rvalid => Head(answers) = answers[1]
        /\ rest \in Seq(S) /\ Len(rest) = IF rvalid THEN cnt_q - 1 ELSE cnt_q
        /\ \A k \in 1 .. Len(rest) : rest[k] = IF rvalid THEN answers[k + 1] ELSE answers[k]
    <2>1. CASE rvalid
      <3>1. answers # <<>>
        BY <1>1, <2>1
      <3>2. /\ Head(answers) = answers[1]
            /\ Tail(answers) \in Seq(S) /\ Len(Tail(answers)) = Len(answers) - 1
            /\ \A k \in 1 .. Len(Tail(answers)) : Tail(answers)[k] = answers[k + 1]
        BY <1>2, <3>1, HeadTailProperties
      <3> QED
        BY <1>2, <2>1, <3>2
    <2>2. CASE ~rvalid
      BY <1>2, <2>2
    <2> QED
      BY <2>1, <2>2
  <1> HIDE DEF rest, S, word, accepted, update, bus
  <1>8. /\ accepted => /\ Len(answers') = Len(rest) + 1
                       /\ \A k \in 1 .. Len(rest) : answers'[k] = rest[k]
                       /\ answers'[Len(rest) + 1] = word
        /\ ~accepted => answers' = rest
    BY <1>3, <1>7, AppendTo
  <1>9. update => answers'[1] = IF cnt_q = 2 THEN answers[2] ELSE word
    <2> SUFFICES ASSUME update
                 PROVE  answers'[1] = IF cnt_q = 2 THEN answers[2] ELSE word
      OBVIOUS
    <2>1. CASE cnt_q = 2
      <3>1. ~accepted /\ rvalid /\ Len(rest) = 1
        BY <1>2, <1>4, <1>5, <1>6, <1>7, <2>1
      <3> QED
        BY <1>7, <1>8, <2>1, <3>1
    <2>2. CASE cnt_q # 2
      <3>1. accepted /\ Len(rest) = 0
        BY <1>2, <1>4, <1>5, <1>6, <1>7, <2>2
      <3> QED
        BY <1>8, <2>2, <3>1
    <2> QED
      BY <2>1, <2>2
  <1>10. ~update /\ cnt_q' > 0 => cnt_q > 0 /\ ~rvalid /\ answers'[1] = answers[1]
    <2> SUFFICES ASSUME ~update, cnt_q' > 0
                 PROVE  cnt_q > 0 /\ ~rvalid /\ answers'[1] = answers[1]
      OBVIOUS
    <2>1. cnt_q > 0 /\ ~rvalid
      BY <1>2, <1>4
    <2>2. Len(rest) = cnt_q /\ 1 \in 1 .. Len(rest) /\ rest[1] = answers[1]
      BY <1>2, <1>7, <2>1
    <2> QED
      BY <1>8, <2>1, <2>2
  <1>11. cnt_q' = 2 => answers'[2] = IF cnt_q = 2 THEN answers[2] ELSE word
    <2> SUFFICES ASSUME cnt_q' = 2
                 PROVE  answers'[2] = IF cnt_q = 2 THEN answers[2] ELSE word
      OBVIOUS
    <2>1. ~rvalid /\ ~update
      BY <1>2, <1>4, <1>5, <1>6
    <2>2. CASE cnt_q = 2
      <3>1. ~accepted /\ Len(rest) = 2
        BY <1>6, <1>7, <2>1, <2>2
      <3> QED
        BY <1>7, <1>8, <2>1, <2>2, <3>1
    <2>3. CASE cnt_q # 2
      <3>1. accepted /\ Len(rest) = 1
        BY <1>2, <1>5, <1>7, <2>1, <2>3
      <3> QED
        BY <1>8, <2>3, <3>1
    <2> QED
      BY <2>2, <2>3
  <1> QED
    BY <1>1, <1>7, <1>9, <1>10, <1>11 DEF word, update, bus

-----------------------------------------------------------------------------
(* What a cycle does to the access in EX. *)

\* Another access, or something else, takes the place in EX.
Enters(bus) ==
    \/ ex' = NoAccess /\ due' = StillDue(bus) /\ stores' = stores
    \/ \E access \in Accesses :
         /\ access.we => stores < MAX_STORES
         /\ ex' = InEx(access)
         /\ stores' = IF access.we THEN stores + 1 ELSE stores
         /\ due' = IF access.we THEN StillDue(bus)
                   ELSE Append(StillDue(bus), Program!ReadFrom(ArchMemory, access))

SecondStays(bus) ==
    /\ ex' = [ex EXCEPT !.addr = (@ + 4) % BYTES, !.misaligned = TRUE]
    /\ due' = StillDue(bus) /\ stores' = stores

\* An access waits in EX, or its first half makes room for the second, or it makes room.
LEMMA Shapes ==
  ASSUME ElwInv, NEW gnt \in BOOLEAN, NEW rvalid \in BOOLEAN, NEW other_ready \in BOOLEAN,
         Cycle(gnt, rvalid, other_ready)
  PROVE  LET bus == Bus(gnt, rvalid) IN
         \/ ~ctrl_update(ex, bus) /\ ex' = ex /\ due' = StillDue(bus) /\ stores' = stores
         \/ ctrl_update(ex, bus) /\ data_misaligned_o(ex) /\ SecondStays(bus)
         \/ (~ex.req \/ (ctrl_update(ex, bus) /\ ~data_misaligned_o(ex))) /\ Enters(bus)
  <1> DEFINE bus == Bus(gnt, rvalid)
  <1>1. ctrl_update(ex, bus) => ex_ready(bus, other_ready)
    BY Moves
  <1>2. ex.req /\ ex_ready(bus, other_ready) => ctrl_update(ex, bus)
    BY DEF ElwInv, BranchInv, ex_ready, ctrl_update
  <1>3. CASE Stall(bus, other_ready)
    BY <1>1, <1>3 DEF Stall
  <1>4. CASE SecondHalf(bus, other_ready)
    BY <1>2, <1>4 DEF SecondHalf, SecondStays, data_misaligned_o
  <1>5. ASSUME NEW branch \in BOOLEAN, Other(bus, other_ready, branch)
        PROVE  (~ex.req \/ (ctrl_update(ex, bus) /\ ~data_misaligned_o(ex))) /\ Enters(bus)
    BY <1>2, <1>5 DEF Other, Enters
  <1>6. ASSUME NEW access \in Accesses, Issue(bus, other_ready, access)
        PROVE  (~ex.req \/ (ctrl_update(ex, bus) /\ ~data_misaligned_o(ex))) /\ Enters(bus)
    BY <1>2, <1>6 DEF Issue, Enters
  <1> QED
    BY <1>3, <1>4, <1>5, <1>6 DEF Cycle

\* The second half is of the same access, one word further.
LEMMA Second ==
  ASSUME AccessInv, data_misaligned_o(ex),
         ex' = [ex EXCEPT !.addr = (@ + 4) % BYTES, !.misaligned = TRUE]
  PROVE  /\ Start' = Start /\ Offset(ex)' = Offset(ex)
         /\ WordOf(ex'.addr) = IF WordOf(Start) + 4 < BYTES THEN WordOf(Start) + 4 ELSE 0
         /\ ex'.addr \in 0 .. BYTES - 1
         /\ ex'.req /\ ex'.misaligned /\ ex'.we = ex.we /\ ex'.type = ex.type
         /\ ex'.sign = ex.sign /\ ex'.wdata = ex.wdata
  <1>1. /\ ex'.addr = (ex.addr + 4) % BYTES /\ ex'.misaligned
        /\ ex'.req = ex.req /\ ex'.we = ex.we /\ ex'.type = ex.type
        /\ ex'.sign = ex.sign /\ ex'.wdata = ex.wdata
    BY DEF AccessInv
  <1>2. ex.req /\ ~ex.misaligned /\ ex.addr \in 0 .. BYTES - 1
    BY DEF AccessInv, data_misaligned_o
  <1>3. Start = ex.addr
    BY <1>2 DEF Start
  <1>4. /\ ex'.addr \in 0 .. BYTES - 1 /\ ex'.addr % 4 = ex.addr % 4
        /\ WordOf(ex'.addr) = IF WordOf(ex.addr) + 4 < BYTES THEN WordOf(ex.addr) + 4 ELSE 0
        /\ (ex'.addr - 4) % BYTES = ex.addr
    BY <1>1, <1>2, NextWord
  <1>5. Start' = ex.addr
    BY <1>1, <1>4 DEF Start
  <1> QED
    BY <1>1, <1>2, <1>3, <1>4, <1>5 DEF Offset

\* What is in EX stays an access, and the memory a function on the addresses.
LEMMA AccessStep ==
  ASSUME ElwInv, AccessInv, NEW gnt \in BOOLEAN, NEW rvalid \in BOOLEAN, NEW other_ready \in BOOLEAN,
         Cycle(gnt, rvalid, other_ready)
  PROVE  AccessInv'
  <1> DEFINE bus == Bus(gnt, rvalid)
             StoreWords == {ZeroWord} \union {StoreWord(n) : n \in Nat}
             Shape == [req : BOOLEAN, misaligned : BOOLEAN, we : BOOLEAN, type : {"word", "half", "byte"},
                       sign : 0 .. 2, addr : 0 .. BYTES - 1, reg_offset : {0},
                       wdata : StoreWords, load_event : BOOLEAN]
  <1>1. ex \in Shape /\ stores \in Nat
    BY DEF AccessInv
  <1>2. mem' = [a \in 0 .. BYTES - 1 |-> mem'[a]]
    <2>1. \/ mem' = mem
          \/ mem' = [a \in 0 .. BYTES - 1 |->
                       IF InTransaction(a) THEN data_wdata(ex)[a - WordOf(ex.addr)] ELSE mem[a]]
      BY CycleMovesBoth, MemoryMoves
    <2> QED
      BY <2>1 DEF AccessInv
  <1>3. CASE ex' = ex /\ stores' = stores
    BY <1>2, <1>3 DEF AccessInv, Offset
  <1>4. CASE data_misaligned_o(ex) /\ SecondStays(bus)
    <2>1. ex' = [ex EXCEPT !.addr = (@ + 4) % BYTES, !.misaligned = TRUE] /\ stores' = stores
      BY <1>4 DEF SecondStays
    <2>2. /\ Offset(ex)' = Offset(ex) /\ ex'.addr \in 0 .. BYTES - 1 /\ ex'.req /\ ex'.type = ex.type
      BY <1>4, <2>1, Second
    <2>3. (ex.addr + 4) % BYTES \in 0 .. BYTES - 1
      BY <1>1, NextWord
    <2>4. ex' \in Shape
      BY <1>1, <2>1, <2>3
    <2>5. Crosses(ex'.type, Offset(ex)')
      BY <1>4, <2>2 DEF data_misaligned_o, Crosses
    <2> QED
      BY <1>1, <1>2, <2>1, <2>2, <2>4, <2>5 DEF AccessInv
  <1>5. CASE ex' = NoAccess /\ stores' = stores
    <2>1. NoAccess \in Shape /\ ~NoAccess.misaligned
      BY DataAccessAssumption DEF NoAccess
    <2> QED
      BY <1>1, <1>2, <1>5, <2>1 DEF AccessInv
  <1>6. ASSUME NEW access \in Accesses, ex' = InEx(access),
               stores' = IF access.we THEN stores + 1 ELSE stores
        PROVE  AccessInv'
    <2>1. InEx(access) \in Shape /\ ~InEx(access).misaligned
      <3>1. access \in [we : BOOLEAN, type : {"word", "half", "byte"}, sign : 0 .. 2,
                        addr : 0 .. BYTES - 1, load_event : BOOLEAN]
        BY DataAccessAssumption
      <3>2. (IF access.we THEN StoreWord(stores + 1) ELSE ZeroWord) \in StoreWords
        BY <1>1
      <3> HIDE DEF StoreWords
      <3> QED
        BY <3>1, <3>2 DEF InEx
    <2> QED
      BY <1>1, <1>2, <1>6, <2>1 DEF AccessInv
  <1> QED
    BY <1>3, <1>4, <1>5, <1>6, Shapes DEF Enters, SecondStays

-----------------------------------------------------------------------------
(* Stores: the memory the program sees. *)

\* The program sees the bytes of the store in EX, and memory elsewhere.
LEMMA Arch ==
  ArchMemory = [a \in 0 .. BYTES - 1 |-> IF ex.req /\ ex.we /\ InAccess(a) THEN Stored(a) ELSE mem[a]]
  BY DEF ArchMemory, InAccess, Stored, Start, Program!Size

\* Each byte of the memory after a cycle.
LEMMA ByteStep ==
  ASSUME AccessInv, NEW gnt \in BOOLEAN, NEW rvalid \in BOOLEAN, RestOfEdge(Bus(gnt, rvalid)),
         NEW a \in 0 .. BYTES - 1
  PROVE  mem'[a] = IF Accepted(ex, Bus(gnt, rvalid)) /\ ex.we /\ InTransaction(a) THEN Stored(a) ELSE mem[a]
  <1> DEFINE bus == Bus(gnt, rvalid)
  <1>1. mem' = IF Accepted(ex, bus) /\ ex.we
               THEN [b \in 0 .. BYTES - 1 |->
                       IF InTransaction(b) THEN data_wdata(ex)[b - WordOf(ex.addr)] ELSE mem[b]]
               ELSE mem
    BY MemoryMoves
  <1>2. Accepted(ex, bus) => ex.req
    BY DEF Accepted, trans_valid
  <1>3. ex.req /\ InTransaction(a) => data_wdata(ex)[a - WordOf(ex.addr)] = Stored(a)
    BY Bytes
  <1> QED
    BY <1>1, <1>2, <1>3

\* While the access waits in EX its bytes may reach the memory: the program sees no difference.
LEMMA StoreWaits ==
  ASSUME OrderInv, NEW gnt \in BOOLEAN, NEW rvalid \in BOOLEAN, NEW other_ready \in BOOLEAN,
         Cycle(gnt, rvalid, other_ready), ~ctrl_update(ex, Bus(gnt, rvalid)), ex' = ex
  PROVE  StoreInv' /\ ArchMemory' = ArchMemory
  <1> DEFINE bus == Bus(gnt, rvalid)
             accepted == Accepted(ex, bus)
  <1>1. AccessInv /\ StoreInv /\ ElwInv /\ RestOfEdge(bus)
    BY CycleMovesBoth DEF OrderInv
  <1>2. ASSUME NEW a \in 0 .. BYTES - 1
        PROVE  /\ mem'[a] = IF accepted /\ ex.we /\ InTransaction(a) THEN Stored(a) ELSE mem[a]
               /\ ex.req /\ InTransaction(a) => InAccess(a)
    BY <1>1, ByteStep, Bytes
  <1>3. /\ accepted => ex.req /\ cnt_q < 2
        /\ cnt_q' = 2 /\ ex.req => cnt_q = 2 \/ accepted
    <2>1. accepted => ex.req /\ cnt_q < 2
      BY DEF Accepted, trans_valid, LSU_DEPTH
    <2>2. cnt_q' \in {cnt_q, cnt_q - 1} \/ accepted
      BY <1>1 DEF RestOfEdge, LsuEdge, next_cnt
    <2>3. cnt_q \in 0 .. 2
      BY <1>1 DEF ElwInv, CountInv, LSU_DEPTH
    <2> QED
      BY <2>1, <2>2, <2>3
  <1>4. \A a : /\ InAccess(a)' = InAccess(a) /\ InTransaction(a)' = InTransaction(a)
               /\ Stored(a)' = Stored(a)
    BY DEF InAccess, InTransaction, Stored, Start, data_be, Offset
  <1> HIDE DEF accepted, bus
  <1>5. StoreInv'
    <2> SUFFICES ASSUME ex.req, ex.we, NEW a \in 0 .. BYTES - 1, InAccess(a),
                        \/ InTransaction(a) /\ cnt_q' = 2
                        \/ ~InTransaction(a) /\ ex.misaligned
                 PROVE  mem'[a] = Stored(a)
      BY <1>4 DEF StoreInv, LSU_DEPTH
    <2>1. CASE accepted /\ InTransaction(a)
      BY <1>2, <2>1
    <2>2. CASE ~(accepted /\ InTransaction(a))
      <3>1. mem[a] = Stored(a)
        BY <1>1, <1>3, <2>2 DEF StoreInv, LSU_DEPTH
      <3> QED
        BY <1>2, <2>2, <3>1
    <2> QED
      BY <2>1, <2>2
  <1>6. ArchMemory' = [a \in 0 .. BYTES - 1 |->
                         IF ex.req /\ ex.we /\ InAccess(a) THEN Stored(a) ELSE mem'[a]]
    <2>1. ArchMemory' = [a \in 0 .. BYTES - 1 |->
                           IF ex'.req /\ ex'.we /\ InAccess(a)' THEN Stored(a)' ELSE mem'[a]]
      BY DEF ArchMemory, InAccess, Stored, Start, Program!Size
    <2> QED
      BY <1>4, <2>1
  <1>7. \A a \in 0 .. BYTES - 1 :
          ~(ex.req /\ ex.we /\ InAccess(a)) => mem'[a] = mem[a]
    BY <1>2, <1>3
  <1> QED
    BY <1>5, <1>6, <1>7, Arch

\* The first half leaves EX when its bytes are in memory.
LEMMA StoreSplits ==
  ASSUME OrderInv, NEW gnt \in BOOLEAN, NEW rvalid \in BOOLEAN, NEW other_ready \in BOOLEAN,
         Cycle(gnt, rvalid, other_ready), ctrl_update(ex, Bus(gnt, rvalid)),
         data_misaligned_o(ex), SecondStays(Bus(gnt, rvalid))
  PROVE  StoreInv' /\ ArchMemory' = ArchMemory
  <1> DEFINE bus == Bus(gnt, rvalid)
             accepted == Accepted(ex, bus)
  <1>1. AccessInv /\ StoreInv /\ ElwInv /\ RestOfEdge(bus) /\ (bus.rvalid <=> rvalid)
    BY CycleMovesBoth DEF OrderInv, Bus
  <1>2. ASSUME NEW a \in 0 .. BYTES - 1
        PROVE  /\ mem'[a] = IF accepted /\ ex.we /\ InTransaction(a) THEN Stored(a) ELSE mem[a]
               /\ ex.req /\ InTransaction(a) => InAccess(a)
    BY <1>1, ByteStep, Bytes
  <1>3. ex.req /\ ~ex.misaligned /\ Crosses(ex.type, Offset(ex))
    BY DEF data_misaligned_o, Crosses
  <1>4. cnt_q' = 1 /\ (cnt_q = 2 \/ accepted)
    <2>1. cnt_q' = 1
      BY <1>1, Moves
    <2> QED
      BY <2>1, <1>1 DEF ctrl_update, lsu_ready_ex_o, LSU_DEPTH, data_misaligned_o
  <1>5. /\ Start' = Start /\ Offset(ex)' = Offset(ex)
        /\ WordOf(ex'.addr) = IF WordOf(Start) + 4 < BYTES THEN WordOf(Start) + 4 ELSE 0
        /\ ex'.req /\ ex'.misaligned /\ ex'.we = ex.we /\ ex'.type = ex.type /\ ex'.wdata = ex.wdata
    BY <1>1, Second DEF SecondStays
  <1>6. \A a : InAccess(a)' = InAccess(a) /\ Stored(a)' = Stored(a)
    BY <1>5 DEF InAccess, Stored
  <1>7. ASSUME NEW a \in 0 .. BYTES - 1, InAccess(a), ~InTransaction(a)
        PROVE  InTransaction(a)'
    <2>1. a - WordOf(ex'.addr) \in IF ex.type = "word" THEN {k \in Lanes : k < Offset(ex)} ELSE {0}
      BY <1>1, <1>3, <1>5, <1>7, Bytes
    <2>2. ex.type \in {"word", "half"}
      BY <1>3 DEF Crosses
    <2>3. data_be(ex)' = IF ex.type = "word" THEN {k \in Lanes : k < Offset(ex)} ELSE {0}
      <3>1. CASE ex.type = "word"
        BY <1>5, <3>1 DEF data_be
      <3>2. CASE ex.type = "half"
        BY <1>5, <3>2 DEF data_be
      <3> QED
        BY <2>2, <3>1, <3>2
    <2> QED
      BY <2>1, <2>3 DEF InTransaction, WordOf
  <1> HIDE DEF accepted, bus
  <1>8. StoreInv'
    <2> SUFFICES ASSUME ex.req, ex.we, NEW a \in 0 .. BYTES - 1, InAccess(a), ~InTransaction(a)'
                 PROVE  mem'[a] = Stored(a)
      BY <1>3, <1>4, <1>5, <1>6 DEF StoreInv, LSU_DEPTH
    <2>1. InTransaction(a)
      BY <1>7
    <2>2. CASE accepted
      BY <1>2, <2>1, <2>2
    <2>3. CASE ~accepted
      <3>1. mem[a] = Stored(a)
        BY <1>1, <1>4, <2>1, <2>3 DEF StoreInv, LSU_DEPTH
      <3> QED
        BY <1>2, <2>3, <3>1
    <2> QED
      BY <2>2, <2>3
  <1>9. ArchMemory' = [a \in 0 .. BYTES - 1 |->
                         IF ex.req /\ ex.we /\ InAccess(a) THEN Stored(a) ELSE mem'[a]]
    <2>1. ArchMemory' = [a \in 0 .. BYTES - 1 |->
                           IF ex'.req /\ ex'.we /\ InAccess(a)' THEN Stored(a)' ELSE mem'[a]]
      BY DEF ArchMemory, InAccess, Stored, Start, Program!Size
    <2> QED
      BY <1>3, <1>5, <1>6, <2>1
  <1>10. \A a \in 0 .. BYTES - 1 :
          ~(ex.req /\ ex.we /\ InAccess(a)) => mem'[a] = mem[a]
    BY <1>2, <1>3
  <1> QED
    BY <1>8, <1>9, <1>10, Arch

\* An access leaves EX when all its bytes are in memory.
LEMMA StoreLeaves ==
  ASSUME OrderInv, NEW gnt \in BOOLEAN, NEW rvalid \in BOOLEAN, NEW other_ready \in BOOLEAN,
         Cycle(gnt, rvalid, other_ready),
         ~ex.req \/ (ctrl_update(ex, Bus(gnt, rvalid)) /\ ~data_misaligned_o(ex))
  PROVE  mem' = ArchMemory /\ cnt_q' < 2
  <1> DEFINE bus == Bus(gnt, rvalid)
             accepted == Accepted(ex, bus)
  <1>1. AccessInv /\ StoreInv /\ ElwInv /\ RestOfEdge(bus) /\ (bus.rvalid <=> rvalid)
    BY CycleMovesBoth DEF OrderInv, Bus
  <1>2. ASSUME NEW a \in 0 .. BYTES - 1
        PROVE  /\ mem'[a] = IF accepted /\ ex.we /\ InTransaction(a) THEN Stored(a) ELSE mem[a]
               /\ ex.req /\ InTransaction(a) => InAccess(a)
               /\ ex.req /\ InAccess(a) /\ ~ex.misaligned /\ ~data_misaligned_o(ex) => InTransaction(a)
    BY <1>1, ByteStep, Bytes
  <1>3. cnt_q' < 2
    <2>1. ctrl_update(ex, bus) => cnt_q' = 1
      BY <1>1, Moves
    <2>2. ~ex.req => cnt_q < 2 /\ cnt_q \in 0 .. 2 /\ cnt_q' = IF rvalid THEN 0 ELSE cnt_q
      BY <1>1, Moves
    <2> QED
      BY <2>1, <2>2
  <1>4. /\ accepted => ex.req
        /\ ex.req => cnt_q = 2 \/ accepted
    <2>1. accepted => ex.req
      BY DEF Accepted, trans_valid
    <2>2. ctrl_update(ex, bus) => cnt_q = 2 \/ accepted
      BY DEF ctrl_update, lsu_ready_ex_o, LSU_DEPTH
    <2> QED
      BY <2>1, <2>2
  <1>5. ex.req => ~data_misaligned_o(ex)
    OBVIOUS
  <1>6. mem' = [a \in 0 .. BYTES - 1 |-> mem'[a]]
    BY <1>1, AccessStep DEF AccessInv
  <1> HIDE DEF accepted, bus
  <1>7. ASSUME NEW a \in 0 .. BYTES - 1
        PROVE  mem'[a] = IF ex.req /\ ex.we /\ InAccess(a) THEN Stored(a) ELSE mem[a]
    <2>1. CASE ex.req /\ ex.we /\ InAccess(a)
      <3>1. CASE accepted /\ InTransaction(a)
        BY <1>2, <2>1, <3>1
      <3>2. CASE ~(accepted /\ InTransaction(a))
        <4>1. mem[a] = Stored(a)
          BY <1>1, <1>2, <1>4, <1>5, <2>1, <3>2 DEF StoreInv, LSU_DEPTH
        <4> QED
          BY <1>2, <2>1, <3>2, <4>1
      <3> QED
        BY <3>1, <3>2
    <2>2. CASE ~(ex.req /\ ex.we /\ InAccess(a))
      BY <1>2, <1>4, <2>2
    <2> QED
      BY <2>1, <2>2
  <1> QED
    BY <1>3, <1>6, <1>7, Arch

-----------------------------------------------------------------------------
(* Loads: the value is put together from the words read. *)

\* The bytes of the access in EX are in the word it starts in and in the next one.
LEMMA BytesRead ==
  ASSUME AccessInv, NEW l \in Lanes
  PROVE  (Start + l) % BYTES =
           IF Offset(ex) + l < 4 THEN WordOf(Start) + (Offset(ex) + l)
           ELSE (IF WordOf(Start) + 4 < BYTES THEN WordOf(Start) + 4 ELSE 0) + (Offset(ex) + l - 4)
  <1> DEFINE s == Start
             w == WordOf(Start)
             o == Offset(ex)
  <1>1. /\ s \in 0 .. BYTES - 1 /\ o \in 0 .. 3 /\ s = w + o
        /\ w \in 0 .. BYTES - 4 /\ w % 4 = 0
        /\ BYTES \in Nat /\ BYTES >= 4 /\ BYTES % 4 = 0
    BY Halves
  <1>2. l \in 0 .. 3
    BY DEF Lanes
  <1> HIDE DEF s, w, o
  <1>3. s + l \in -BYTES .. 2 * BYTES - 1
    BY <1>1, <1>2
  <1>4. (s + l) % BYTES = Wrapped(s + l)
    BY <1>3, Wrap
  <1>5. w + 4 < BYTES \/ w + 4 = BYTES
    BY <1>1
  <1>6. Wrapped(s + l) = IF o + l < 4 THEN w + (o + l)
                         ELSE (IF w + 4 < BYTES THEN w + 4 ELSE 0) + (o + l - 4)
    BY <1>1, <1>2, <1>5 DEF Wrapped
  <1> QED
    BY <1>4, <1>6 DEF s, w, o

\* When all words of a load are read, what the unit puts together is what the program asked for.
LEMMA ValueMoves ==
  ASSUME AccessInv, ~data_misaligned_o(ex), ex.req,
         wb_ctrl_q'.type = ex.type, wb_ctrl_q'.offset = Offset(ex), wb_ctrl_q'.sign = ex.sign,
         answers'[1] = ReadWord(ex.addr),
         ex.misaligned => rdata_q' = ReadWord(Start)
  PROVE  ValueInWb' = ValueInEx
  <1> DEFINE o == Offset(ex)
             w == WordOf(Start)
             next == IF WordOf(Start) + 4 < BYTES THEN WordOf(Start) + 4 ELSE 0
             R == answers'[1]
             K == rdata_q'
             byte(l) == mem[(Start + l) % BYTES]
             n == Program!Size(ex.type)
             ext(b) == Program!Extension(ex.sign, b)
             fill(b) == CASE ex.sign = 0 -> Zeros [] ex.sign = 2 -> Ones [] OTHER -> SignOf(b)
  <1>1. /\ ex.type \in {"word", "half", "byte"} /\ ex.sign \in 0 .. 2
        /\ ex.misaligned \in BOOLEAN
        /\ ex.misaligned <=> Crosses(ex.type, o)
    BY DEF AccessInv, data_misaligned_o, Crosses
  <1>2. o \in 0 .. 3
    BY Halves
  <1>3. \A l \in Lanes : (Start + l) % BYTES = IF o + l < 4 THEN w + (o + l) ELSE next + (o + l - 4)
    BY BytesRead
  <1>4. WordOf(ex.addr) = IF ex.misaligned THEN next ELSE w
    BY Halves
  <1>5. R = [l \in Lanes |-> mem[WordOf(ex.addr) + l]]
    BY DEF ReadWord
  <1>6. ex.misaligned => K = [l \in Lanes |-> mem[w + l]]
    BY DEF ReadWord
  <1> HIDE DEF o, w, next, R, K, n
  <1>7. ASSUME NEW l \in Lanes
        PROVE  byte(l) = IF ex.misaligned
                         THEN IF o + l < 4 THEN K[o + l] ELSE R[o + l - 4]
                         ELSE IF o + l < 4 THEN R[o + l] ELSE byte(l)
    <2>1. l \in 0 .. 3 /\ (o + l < 4 => o + l \in Lanes) /\ (o + l >= 4 => o + l - 4 \in Lanes)
      BY <1>2 DEF Lanes
    <2>2. byte(l) = IF o + l < 4 THEN mem[w + (o + l)] ELSE mem[next + (o + l - 4)]
      BY <1>3
    <2> HIDE DEF byte
    <2>3. CASE ex.misaligned
      BY <1>2, <1>4, <1>5, <1>6, <2>1, <2>2, <2>3
    <2>4. CASE ~ex.misaligned
      BY <1>2, <1>4, <1>5, <2>1, <2>2, <2>4
    <2> QED
      BY <2>3, <2>4
  <1>8. ValueInEx = [l \in 0 .. 3 |-> IF l < n THEN byte(l) ELSE ext(byte(n - 1))]
    BY DEF ValueInEx, Program!ReadFrom, n
  <1>9. \A b : fill(b) = ext(b)
    BY <1>1 DEF Program!Extension, Zeros, Ones, SignOf
  <1> HIDE DEF byte, ext, fill
  <1>10. CASE ex.type = "word"
    <2>1. n = 4
      BY <1>10 DEF n, Program!Size
    <2>2. ValueInWb' = [l \in Lanes |-> IF o = 0 THEN R[l] ELSE IF l + o < 4 THEN K[l + o] ELSE R[l + o - 4]]
      BY <1>10 DEF ValueInWb, data_rdata_ext, rdata_w_ext, R, K, o
    <2>3. \A l \in Lanes : byte(l) = IF o = 0 THEN R[l] ELSE IF l + o < 4 THEN K[l + o] ELSE R[l + o - 4]
      <3> SUFFICES ASSUME NEW l \in Lanes
                   PROVE  byte(l) = IF o = 0 THEN R[l] ELSE IF l + o < 4 THEN K[l + o] ELSE R[l + o - 4]
        OBVIOUS
      <3>1. l \in 0 .. 3 /\ l + o = o + l
        BY <1>2 DEF Lanes
      <3>2. o = 0 <=> ~ex.misaligned
        BY <1>1, <1>10 DEF Crosses
      <3>3. CASE o = 0
        BY <1>7, <3>1, <3>2, <3>3
      <3>4. CASE o # 0
        BY <1>2, <1>7, <3>1, <3>2, <3>4
      <3> QED
        BY <3>3, <3>4
    <2> QED
      BY <1>8, <2>1, <2>2, <2>3 DEF Lanes
  <1>11. CASE ex.type = "half"
    <2> DEFINE low == IF o = 3 THEN K[3] ELSE R[o]
               high == R[(o + 1) % 4]
    <2>1. n = 2
      BY <1>11 DEF n, Program!Size
    <2>2. ValueInWb' = [l \in Lanes |-> CASE l = 0 -> low [] l = 1 -> high [] OTHER -> fill(high)]
      BY <1>11 DEF ValueInWb, data_rdata_ext, rdata_h_ext, Fill, fill, low, high, R, K, o
    <2>3. byte(0) = low /\ byte(1) = high
      <3>1. o = 3 <=> ex.misaligned
        BY <1>1, <1>11 DEF Crosses
      <3>2. 0 \in Lanes /\ 1 \in Lanes
        BY DEF Lanes
      <3>3. CASE o = 3
        <4>1. (o + 1) % 4 = 0 /\ o + 0 = 3 /\ o + 1 - 4 = 0
          BY <3>3
        <4> QED
          BY <1>7, <3>1, <3>2, <3>3, <4>1
      <3>4. CASE o # 3
        <4>1. (o + 1) % 4 = o + 1 /\ o + 0 = o /\ o + 1 < 4
          BY <1>2, <3>4
        <4>2. byte(0) = R[o + 0] /\ byte(1) = R[o + 1]
          BY <1>2, <1>7, <3>1, <3>2, <3>4
        <4> QED
          BY <3>4, <4>1, <4>2 DEF low, high
      <3> QED
        BY <3>3, <3>4
    <2> HIDE DEF low, high
    <2>4. ValueInWb' = [l \in Lanes |-> CASE l = 0 -> low [] l = 1 -> high [] OTHER -> ext(high)]
      BY <1>9, <2>2
    <2> QED
      BY <1>8, <2>1, <2>3, <2>4 DEF Lanes
  <1>12. CASE ex.type = "byte"
    <2>1. n = 1
      BY <1>12 DEF n, Program!Size
    <2>2. ValueInWb' = [l \in Lanes |-> IF l = 0 THEN R[o] ELSE fill(R[o])]
      BY <1>12 DEF ValueInWb, data_rdata_ext, rdata_b_ext, Fill, fill, R, o
    <2>3. byte(0) = R[o]
      <3>1. ~ex.misaligned /\ 0 \in Lanes /\ o + 0 = o /\ o < 4
        BY <1>1, <1>2, <1>12 DEF Crosses, Lanes
      <3> QED
        BY <1>7, <3>1
    <2>4. ValueInWb' = [l \in Lanes |-> IF l = 0 THEN R[o] ELSE ext(R[o])]
      BY <1>9, <2>2
    <2> QED
      BY <1>8, <2>1, <2>3, <2>4 DEF Lanes
  <1> QED
    BY <1>1, <1>10, <1>11, <1>12

\* What waits in WB for its answer does not change.
LEMMA ValueWaits ==
  ASSUME ElwInv, AccessInv, NEW gnt \in BOOLEAN, NEW rvalid \in BOOLEAN, NEW other_ready \in BOOLEAN,
         Cycle(gnt, rvalid, other_ready), ~ctrl_update(ex, Bus(gnt, rvalid)), cnt_q' > 0
  PROVE  ValueInWb' = ValueInWb
  <1> DEFINE bus == Bus(gnt, rvalid)
  <1>1. RestOfEdge(bus) /\ (bus.rvalid <=> rvalid)
    BY CycleMovesBoth DEF Bus
  <1>2. ~rvalid /\ answers'[1] = answers[1]
    BY AnswersMove
  <1>3. wb_ctrl_q' = wb_ctrl_q /\ rdata_q' = rdata_q
    BY <1>1, <1>2 DEF RestOfEdge, LsuEdge, next_rdata
  <1> QED
    BY <1>2, <1>3 DEF ValueInWb, data_rdata_ext, rdata_w_ext, rdata_h_ext, rdata_b_ext, Fill

\* The controls of the access that moves to WB.
LEMMA WbStep ==
  ASSUME OrderInv, NEW gnt \in BOOLEAN, NEW rvalid \in BOOLEAN, NEW other_ready \in BOOLEAN,
         Cycle(gnt, rvalid, other_ready)
  PROVE  LoadInWbInv'
  <1> DEFINE bus == Bus(gnt, rvalid)
             update == ctrl_update(ex, bus)
             ready_wb == lsu_ready_wb_o(bus)
  <1>1. RestOfEdge(bus) /\ ElwInv /\ AccessInv /\ LoadInWbInv
    BY CycleMovesBoth DEF OrderInv
  <1>2. regfile_we_lsu' <=> IF update THEN ~ex.we ELSE regfile_we_lsu /\ ~ready_wb
    BY <1>1, Registers
  <1>3. wb_ctrl_q'.we = IF update THEN ex.we ELSE wb_ctrl_q.we
    BY <1>1 DEF RestOfEdge, LsuEdge
  <1>4. /\ rvalid => cnt_q > 0
        /\ ready_wb <=> cnt_q = 0 \/ rvalid
        /\ cnt_q \in 0 .. 2 /\ cnt_q' \in 0 .. 2
        /\ update => cnt_q' = 1
        /\ ~update /\ ex.req => /\ cnt_q = 2 => ~rvalid /\ cnt_q' = 2
                                /\ cnt_q = 1 /\ rvalid => cnt_q' = 0
                                /\ cnt_q = 1 /\ ~rvalid => cnt_q' \in {1, 2}
                                /\ cnt_q = 0 => cnt_q' = 0
        /\ ~ex.req => cnt_q < 2 /\ cnt_q' = IF rvalid THEN 0 ELSE cnt_q
    BY <1>1, Moves
  <1>5. \/ ~update /\ ex' = ex
        \/ update /\ ex'.we = ex.we
        \/ ~ex'.misaligned
    <2>1. CASE ~update /\ ex' = ex
      BY <2>1
    <2>2. CASE update /\ data_misaligned_o(ex) /\ SecondStays(bus)
      BY <1>1, <2>2, Second DEF SecondStays
    <2>3. CASE Enters(bus)
      BY <2>3 DEF Enters, NoAccess, InEx
    <2> QED
      BY <1>1, <2>1, <2>2, <2>3, Shapes
  <1>6. /\ regfile_we_lsu <=> cnt_q > 0 /\ ~wb_ctrl_q.we
        /\ ex.misaligned => (wb_ctrl_q.we <=> ex.we)
    BY <1>1 DEF LoadInWbInv
  <1> HIDE DEF update, ready_wb, bus
  <1>7. regfile_we_lsu' <=> cnt_q' > 0 /\ ~wb_ctrl_q'.we
    <2>1. CASE update
      BY <1>2, <1>3, <1>4, <2>1
    <2>2. CASE ~update
      <3>1. cnt_q' > 0 <=> cnt_q > 0 /\ ~ready_wb
        BY <1>4, <2>2
      <3> QED
        BY <1>2, <1>3, <1>6, <2>2, <3>1
    <2> QED
      BY <2>1, <2>2
  <1>8. ex'.misaligned => (wb_ctrl_q'.we <=> ex'.we)
    BY <1>3, <1>5, <1>6
  <1> QED
    BY <1>7, <1>8 DEF LoadInWbInv

\* The words read for the access in EX stay what is in memory, which only stores change.
LEMMA LoadStep ==
  ASSUME OrderInv, NEW gnt \in BOOLEAN, NEW rvalid \in BOOLEAN, NEW other_ready \in BOOLEAN,
         Cycle(gnt, rvalid, other_ready)
  PROVE  LoadInv'
  <1> DEFINE bus == Bus(gnt, rvalid)
             update == ctrl_update(ex, bus)
  <1>1. RestOfEdge(bus) /\ ElwInv /\ AccessInv /\ LoadInWbInv /\ LoadInv /\ (bus.rvalid <=> rvalid)
    BY CycleMovesBoth DEF OrderInv, Bus
  <1>2. ~ex.we => mem' = mem
    BY <1>1, MemoryMoves
  <1>3. /\ rvalid => bus.rdata = answers[1]
        /\ update => answers'[1] = IF cnt_q = 2 THEN answers[2] ELSE ReadWord(ex.addr)
        /\ ~update /\ cnt_q' > 0 => cnt_q > 0 /\ ~rvalid /\ answers'[1] = answers[1]
        /\ cnt_q' = 2 => answers'[2] = IF cnt_q = 2 THEN answers[2] ELSE ReadWord(ex.addr)
    BY <1>1, AnswersMove
  <1>4. /\ rvalid => cnt_q > 0
        /\ cnt_q \in 0 .. 2 /\ cnt_q' \in 0 .. 2
        /\ update => cnt_q' = 1
        /\ ~update /\ ex.req => /\ cnt_q = 2 => ~rvalid /\ cnt_q' = 2
                                /\ cnt_q = 1 /\ ~rvalid => cnt_q' \in {1, 2}
    BY <1>1, Moves
  <1>5. CASE ~update /\ ex' = ex
    <2> SUFFICES ASSUME ex.req, ~ex.we
                 PROVE  /\ cnt_q' = 2 => answers'[2] = ReadWord(ex.addr)
                        /\ ex.misaligned /\ cnt_q' > 0 => answers'[1] = ReadWord(Start)
                        /\ ex.misaligned /\ cnt_q' = 0 => rdata_q' = ReadWord(Start)
      BY <1>2, <1>5 DEF LoadInv, LSU_DEPTH, ReadWord, Start, WordOf
    <2>1. /\ cnt_q = 2 => answers[2] = ReadWord(ex.addr)
          /\ ex.misaligned /\ cnt_q > 0 => answers[1] = ReadWord(Start)
          /\ ex.misaligned /\ cnt_q = 0 => rdata_q = ReadWord(Start)
      BY <1>1 DEF LoadInv, LSU_DEPTH
    <2>2. ASSUME ex.misaligned, cnt_q' = 0 PROVE rdata_q' = ReadWord(Start)
      <3>1. rdata_q' = IF rvalid THEN answers[1] ELSE rdata_q
        <4>1. ~wb_ctrl_q.we
          BY <1>1, <2>2 DEF LoadInWbInv
        <4> QED
          BY <1>1, <1>3, <2>2, <4>1 DEF RestOfEdge, LsuEdge, next_rdata
      <3>2. cnt_q > 0 <=> rvalid
        BY <1>4, <1>5, <2>2
      <3> QED
        BY <1>4, <2>1, <2>2, <3>1, <3>2
    <2> QED
      BY <1>3, <1>5, <2>1, <2>2
  <1>6. CASE update /\ data_misaligned_o(ex) /\ SecondStays(bus)
    <2>1. /\ Start' = Start /\ ex'.we = ex.we
      BY <1>1, <1>6, Second DEF SecondStays
    <2>2. Start = ex.addr
      BY <1>6 DEF data_misaligned_o, Start
    <2>3. ex.req
      BY <1>6 DEF data_misaligned_o
    <2> SUFFICES ASSUME ~ex.we PROVE answers'[1] = ReadWord(Start)'
      BY <1>4, <1>6, <2>1 DEF LoadInv, LSU_DEPTH
    <2>4. answers'[1] = ReadWord(Start)
      BY <1>1, <1>3, <1>6, <2>2, <2>3 DEF LoadInv, LSU_DEPTH
    <2> QED
      BY <1>2, <2>1, <2>4 DEF ReadWord, WordOf
  <1>7. CASE (~ex.req \/ (update /\ ~data_misaligned_o(ex))) /\ Enters(bus)
    <2>1. cnt_q' < 2
      BY <1>7, StoreLeaves
    <2>2. ~ex'.misaligned
      BY <1>7 DEF Enters, NoAccess, InEx
    <2> QED
      BY <2>1, <2>2 DEF LoadInv, LSU_DEPTH
  <1> QED
    BY <1>1, <1>5, <1>6, <1>7, Shapes

-----------------------------------------------------------------------------
(* The values that are due. *)

\* What is delivered is the oldest value that is due, and the others stay due.
LEMMA Delivery ==
  ASSUME OrderInv, NEW gnt \in BOOLEAN, NEW rvalid \in BOOLEAN, NEW other_ready \in BOOLEAN,
         Cycle(gnt, rvalid, other_ready)
  PROVE  LET bus == Bus(gnt, rvalid) IN
         /\ WritesBack(bus) => due # <<>> /\ loaded' = Head(due)
         /\ ~WritesBack(bus) => loaded' = loaded
         /\ StillDue(bus) =
              IF regfile_we_lsu /\ ~ex.misaligned /\ ~lsu_ready_wb_o(bus)
              THEN IF ex.req /\ ~ex.we THEN <<ValueInWb, ValueInEx>> ELSE <<ValueInWb>>
              ELSE IF ex.req /\ ~ex.we THEN <<ValueInEx>> ELSE <<>>
  <1> DEFINE bus == Bus(gnt, rvalid)
             ready_wb == lsu_ready_wb_o(bus)
             in_wb == regfile_we_lsu /\ ~ex.misaligned
             in_ex == ex.req /\ ~ex.we
             V == ValueInWb
             X == ValueInEx
  <1>1. RestOfEdge(bus) /\ ElwInv /\ AccessInv /\ DueInv /\ (bus.rvalid <=> rvalid)
    BY CycleMovesBoth DEF OrderInv, Bus
  <1>2. WritesBack(bus) <=> in_wb /\ ready_wb
    BY DEF WritesBack
  <1>3. due = IF in_wb THEN IF in_ex THEN <<V, X>> ELSE <<V>> ELSE IF in_ex THEN <<X>> ELSE <<>>
    BY <1>1 DEF DueInv
  <1>4. WritesBack(bus) => data_rdata_ex_o(bus) = V
    <2> SUFFICES ASSUME WritesBack(bus) PROVE data_rdata_ex_o(bus) = V
      OBVIOUS
    <2>1. cnt_q > 0
      BY <1>1, <1>2 DEF ElwInv, WbInv
    <2>2. rvalid
      BY <1>1, <1>2, <2>1, Moves
    <2>3. bus.rdata = answers[1]
      BY <1>1, <2>2, AnswersMove
    <2> HIDE DEF bus
    <2> QED
      BY <1>1, <2>2, <2>3 DEF data_rdata_ex_o, ValueInWb
  <1>5. loaded' = IF WritesBack(bus) THEN data_rdata_ex_o(bus) ELSE loaded
    BY <1>1 DEF RestOfEdge
  <1>6. StillDue(bus) = IF WritesBack(bus) THEN Tail(due) ELSE due
    BY DEF StillDue
  <1> HIDE DEF bus, ready_wb, in_wb, in_ex, V, X
  <1>7. CASE WritesBack(bus)
    <2>1. CASE in_ex
      <3>1. due = <<V, X>> /\ Tail(due) = <<X>> /\ Head(due) = V /\ due # <<>>
        BY <1>2, <1>3, <1>7, <2>1
      <3> QED
        BY <1>2, <1>4, <1>5, <1>6, <1>7, <2>1, <3>1 DEF bus, ready_wb, in_wb, in_ex, V, X
    <2>2. CASE ~in_ex
      <3>1. due = <<V>> /\ Tail(due) = <<>> /\ Head(due) = V /\ due # <<>>
        BY <1>2, <1>3, <1>7, <2>2
      <3> QED
        BY <1>2, <1>4, <1>5, <1>6, <1>7, <2>2, <3>1 DEF bus, ready_wb, in_wb, in_ex, V, X
    <2> QED
      BY <2>1, <2>2
  <1>8. CASE ~WritesBack(bus)
    BY <1>2, <1>3, <1>5, <1>6, <1>8 DEF bus, ready_wb, in_wb, in_ex, V, X
  <1> QED
    BY <1>7, <1>8 DEF bus

\* When EX is left, what is still due is due by the load that is then in WB.
LEMMA DueWhenLeft ==
  ASSUME OrderInv, NEW gnt \in BOOLEAN, NEW rvalid \in BOOLEAN, NEW other_ready \in BOOLEAN,
         Cycle(gnt, rvalid, other_ready),
         ~ex.req \/ (ctrl_update(ex, Bus(gnt, rvalid)) /\ ~data_misaligned_o(ex))
  PROVE  StillDue(Bus(gnt, rvalid)) = IF regfile_we_lsu' THEN <<ValueInWb'>> ELSE <<>>
  <1> DEFINE bus == Bus(gnt, rvalid)
             update == ctrl_update(ex, bus)
             ready_wb == lsu_ready_wb_o(bus)
  <1>1. RestOfEdge(bus) /\ ElwInv /\ AccessInv /\ LoadInWbInv /\ LoadInv /\ (bus.rvalid <=> rvalid)
    BY CycleMovesBoth DEF OrderInv, Bus
  <1>2. regfile_we_lsu' <=> IF update THEN ~ex.we ELSE regfile_we_lsu /\ ~ready_wb
    BY <1>1, Registers
  <1>3. StillDue(bus) =
          IF regfile_we_lsu /\ ~ex.misaligned /\ ~ready_wb
          THEN IF ex.req /\ ~ex.we THEN <<ValueInWb, ValueInEx>> ELSE <<ValueInWb>>
          ELSE IF ex.req /\ ~ex.we THEN <<ValueInEx>> ELSE <<>>
    BY Delivery
  <1>4. /\ rvalid => cnt_q > 0 /\ bus.rdata = answers[1]
        /\ update => ex.req /\ ready_wb /\ answers'[1] = IF cnt_q = 2 THEN answers[2] ELSE ReadWord(ex.addr)
        /\ ready_wb <=> cnt_q = 0 \/ rvalid
    BY <1>1, Moves, AnswersMove
  <1>5. CASE update
    <2>1. ASSUME ~ex.we PROVE ValueInWb' = ValueInEx
      <3>1. ex.req /\ ~data_misaligned_o(ex)
        BY <1>4, <1>5
      <3>2. /\ wb_ctrl_q'.type = ex.type /\ wb_ctrl_q'.offset = Offset(ex)
            /\ wb_ctrl_q'.sign = ex.sign
        BY <1>1, <1>5 DEF RestOfEdge, LsuEdge
      <3>3. answers'[1] = ReadWord(ex.addr)
        BY <1>1, <1>4, <1>5, <2>1, <3>1 DEF LoadInv, LSU_DEPTH
      <3>4. ASSUME ex.misaligned PROVE rdata_q' = ReadWord(Start)
        <4>1. ~wb_ctrl_q.we
          BY <1>1, <2>1, <3>4 DEF LoadInWbInv
        <4>2. rdata_q' = IF rvalid THEN answers[1] ELSE rdata_q
          BY <1>1, <1>4, <3>4, <4>1 DEF RestOfEdge, LsuEdge, next_rdata
        <4>3. /\ cnt_q > 0 => answers[1] = ReadWord(Start)
              /\ cnt_q = 0 => rdata_q = ReadWord(Start)
          BY <1>1, <2>1, <3>1, <3>4 DEF LoadInv
        <4> QED
          BY <1>4, <1>5, <4>2, <4>3
      <3> QED
        BY <1>1, <3>1, <3>2, <3>3, <3>4, ValueMoves
    <2> QED
      BY <1>2, <1>3, <1>4, <1>5, <2>1
  <1>6. CASE ~update
    <2>1. ~ex.req /\ ~ex.misaligned
      BY <1>1, <1>6 DEF AccessInv
    <2>2. ASSUME regfile_we_lsu' PROVE ValueInWb' = ValueInWb
      <3>1. cnt_q' > 0
        BY <2>2, WbStep DEF LoadInWbInv
      <3> QED
        BY <1>1, <1>6, <3>1, ValueWaits
    <2> QED
      BY <1>2, <1>3, <1>6, <2>1, <2>2
  <1> QED
    BY <1>5, <1>6

\* An access that enters EX finds the memory as the program left it.
LEMMA DueStep ==
  ASSUME OrderInv, NEW gnt \in BOOLEAN, NEW rvalid \in BOOLEAN, NEW other_ready \in BOOLEAN,
         Cycle(gnt, rvalid, other_ready)
  PROVE  DueInv'
  <1> DEFINE bus == Bus(gnt, rvalid)
             update == ctrl_update(ex, bus)
             ready_wb == lsu_ready_wb_o(bus)
  <1>1. RestOfEdge(bus) /\ ElwInv /\ AccessInv /\ LoadInWbInv
    BY CycleMovesBoth DEF OrderInv
  <1>2. regfile_we_lsu' <=> IF update THEN ~ex.we ELSE regfile_we_lsu /\ ~ready_wb
    BY <1>1, Registers
  <1>3. StillDue(bus) =
          IF regfile_we_lsu /\ ~ex.misaligned /\ ~ready_wb
          THEN IF ex.req /\ ~ex.we THEN <<ValueInWb, ValueInEx>> ELSE <<ValueInWb>>
          ELSE IF ex.req /\ ~ex.we THEN <<ValueInEx>> ELSE <<>>
    BY Delivery
  <1>4. ~ex.we => mem' = mem
    BY <1>1, MemoryMoves
  <1>5. CASE ~update /\ ex' = ex /\ due' = StillDue(bus)
    <2>1. ASSUME regfile_we_lsu' PROVE ValueInWb' = ValueInWb
      <3>1. cnt_q' > 0
        BY <2>1, WbStep DEF LoadInWbInv
      <3> QED
        BY <1>1, <1>5, <3>1, ValueWaits
    <2>2. ~ex.we => ValueInEx' = ValueInEx
      BY <1>4, <1>5 DEF ValueInEx, Program!ReadFrom, Start
    <2> HIDE DEF bus
    <2> QED
      BY <1>2, <1>3, <1>5, <2>1, <2>2 DEF DueInv
  <1>6. CASE update /\ data_misaligned_o(ex) /\ SecondStays(bus)
    <2>1. /\ Start' = Start /\ ex'.we = ex.we /\ ex'.type = ex.type /\ ex'.sign = ex.sign
          /\ ex'.misaligned /\ ex'.req /\ ex.req /\ due' = StillDue(bus)
      BY <1>1, <1>6, Second DEF SecondStays, data_misaligned_o
    <2>2. ready_wb
      BY <1>1, <1>6, Moves
    <2>3. ~ex.we => ValueInEx' = ValueInEx
      BY <1>4, <2>1 DEF ValueInEx, Program!ReadFrom
    <2> HIDE DEF bus
    <2> QED
      BY <1>3, <2>1, <2>2, <2>3 DEF DueInv
  <1>7. CASE (~ex.req \/ (update /\ ~data_misaligned_o(ex))) /\ Enters(bus)
    <2>1. StillDue(bus) = IF regfile_we_lsu' THEN <<ValueInWb'>> ELSE <<>>
      BY <1>7, DueWhenLeft
    <2>2. mem' = ArchMemory
      BY <1>7, StoreLeaves
    <2>3. CASE ex' = NoAccess /\ due' = StillDue(bus)
      BY <2>1, <2>3 DEF DueInv, NoAccess
    <2>4. ASSUME NEW access \in Accesses, ex' = InEx(access), access.we, due' = StillDue(bus)
          PROVE  DueInv'
      <3>1. ex'.we /\ ~ex'.misaligned
        BY <2>4 DEF InEx
      <3> QED
        BY <2>1, <2>4, <3>1 DEF DueInv
    <2>5. ASSUME NEW access \in Accesses, ex' = InEx(access), ~access.we,
                 due' = Append(StillDue(bus), Program!ReadFrom(ArchMemory, access))
          PROVE  DueInv'
      <3>1. /\ ex'.req /\ ~ex'.we /\ ~ex'.misaligned
            /\ ex'.type = access.type /\ ex'.sign = access.sign /\ ex'.addr = access.addr
        BY <2>5 DEF InEx
      <3>2. ValueInEx' = Program!ReadFrom(ArchMemory, access)
        BY <2>2, <3>1 DEF ValueInEx, Program!ReadFrom, Start
      <3>3. due' = IF regfile_we_lsu' THEN <<ValueInWb', ValueInEx'>> ELSE <<ValueInEx'>>
        BY <2>1, <2>5, <3>2
      <3> QED
        BY <3>1, <3>3 DEF DueInv
    <2> QED
      BY <1>7, <2>3, <2>4, <2>5 DEF Enters
  <1> QED
    BY <1>1, <1>5, <1>6, <1>7, Shapes DEF SecondStays

-----------------------------------------------------------------------------
(* Each cycle is a step of the program order, or none. *)

\* An access that enters EX is performed at once, on what the program sees.
LEMMA Performs ==
  ASSUME OrderInv, NEW gnt \in BOOLEAN, NEW rvalid \in BOOLEAN, NEW other_ready \in BOOLEAN,
         Cycle(gnt, rvalid, other_ready),
         ~ex.req \/ (ctrl_update(ex, Bus(gnt, rvalid)) /\ ~data_misaligned_o(ex)),
         NEW access \in Accesses,
         access.we => stores < MAX_STORES,
         ex' = InEx(access),
         due' = IF access.we THEN StillDue(Bus(gnt, rvalid))
                ELSE Append(StillDue(Bus(gnt, rvalid)), Program!ReadFrom(ArchMemory, access))
  PROVE  Program!Performed(access, StillDue(Bus(gnt, rvalid)))
  <1>1. mem' = ArchMemory
    BY StoreLeaves
  <1>2. /\ ex'.req /\ ex'.we = access.we /\ ~ex'.misaligned
        /\ ex'.type = access.type /\ ex'.addr = access.addr
        /\ access.we => ex'.wdata = StoreWord(stores + 1)
    BY DEF InEx
  <1>3. ArchMemory' = [a \in 0 .. BYTES - 1 |-> IF ex'.req /\ ex'.we /\ InAccess(a)' THEN Stored(a)' ELSE mem'[a]]
    BY DEF ArchMemory, InAccess, Stored, Start, Program!Size
  <1>4. Start' = access.addr
    BY <1>2 DEF Start
  <1>5. CASE access.we
    <2>1. StoreWord(stores + 1) \in {StoreWord(n) : n \in 1 .. MAX_STORES}
      BY <1>5, DataAccessAssumption DEF OrderInv, AccessInv
    <2>2. ArchMemory' = Program!WriteTo(ArchMemory, access, StoreWord(stores + 1))
      BY <1>1, <1>2, <1>3, <1>4, <1>5 DEF Program!WriteTo, InAccess, Stored
    <2> QED
      BY <1>5, <2>1, <2>2 DEF Program!Performed
  <1>6. CASE ~access.we
    <2>1. ArchMemory' = [a \in 0 .. BYTES - 1 |-> mem'[a]]
      BY <1>2, <1>3, <1>6
    <2>2. ArchMemory' = ArchMemory
      BY <1>1, <2>1, Arch
    <2> QED
      BY <1>6, <2>2 DEF Program!Performed
  <1> QED
    BY <1>5, <1>6

LEMMA OrderStep ==
  ASSUME OrderInv, NEW gnt \in BOOLEAN, NEW rvalid \in BOOLEAN, NEW other_ready \in BOOLEAN,
         Cycle(gnt, rvalid, other_ready)
  PROVE  OrderInv' /\ [Program!OrderNext]_(Program!orderVars)
  <1> DEFINE bus == Bus(gnt, rvalid)
  <1>1. ElwInv /\ AccessInv /\ RestOfEdge(bus)
    BY CycleMovesBoth DEF OrderInv
  <1>2. ElwInv'
    BY <1>1, CountStep, BranchStep, ExStep, ElwStep, CycleMovesBoth DEF ElwInv
  <1>3. AccessInv' /\ LoadInWbInv' /\ LoadInv' /\ DueInv'
    BY <1>1, AccessStep, WbStep, LoadStep, DueStep
  <1>4. /\ WritesBack(bus) => due # <<>> /\ loaded' = Head(due)
        /\ ~WritesBack(bus) => loaded' = loaded
        /\ StillDue(bus) = IF WritesBack(bus) THEN Tail(due) ELSE due
    BY Delivery DEF StillDue
  <1>5. ASSUME ArchMemory' = ArchMemory, due' = StillDue(bus)
        PROVE  [Program!OrderNext]_(Program!orderVars)
    BY <1>4, <1>5 DEF Program!OrderNext, Program!Deliver, Program!Delivered, Program!orderVars
  <1>6. CASE ~ctrl_update(ex, bus) /\ ex' = ex /\ due' = StillDue(bus)
    <2>1. StoreInv' /\ ArchMemory' = ArchMemory
      BY <1>6, StoreWaits
    <2> QED
      BY <1>2, <1>3, <1>5, <1>6, <2>1 DEF OrderInv
  <1>7. CASE ctrl_update(ex, bus) /\ data_misaligned_o(ex) /\ SecondStays(bus)
    <2>1. StoreInv' /\ ArchMemory' = ArchMemory
      BY <1>7, StoreSplits
    <2>2. due' = StillDue(bus)
      BY <1>7 DEF SecondStays
    <2> QED
      BY <1>2, <1>3, <1>5, <2>1, <2>2 DEF OrderInv
  <1>8. CASE (~ex.req \/ (ctrl_update(ex, bus) /\ ~data_misaligned_o(ex))) /\ Enters(bus)
    <2>1. mem' = ArchMemory /\ cnt_q' < 2
      BY <1>8, StoreLeaves
    <2>2. ~ex'.misaligned
      BY <1>8 DEF Enters, NoAccess, InEx
    <2>3. StoreInv'
      BY <2>1, <2>2 DEF StoreInv, LSU_DEPTH
    <2>4. ASSUME ex' = NoAccess, due' = StillDue(bus)
          PROVE  [Program!OrderNext]_(Program!orderVars)
      <3>1. ArchMemory' = [a \in 0 .. BYTES - 1 |->
                             IF ex'.req /\ ex'.we /\ InAccess(a)' THEN Stored(a)' ELSE mem'[a]]
        BY DEF ArchMemory, InAccess, Stored, Start, Program!Size
      <3>2. ~ex'.req
        BY <2>4 DEF NoAccess
      <3>3. ArchMemory' = [a \in 0 .. BYTES - 1 |-> mem'[a]]
        BY <3>1, <3>2
      <3>4. ArchMemory' = ArchMemory
        BY <2>1, <3>3, Arch
      <3> QED
        BY <1>5, <2>4, <3>4
    <2>5. ASSUME NEW access \in Accesses, access.we => stores < MAX_STORES, ex' = InEx(access),
                 due' = IF access.we THEN StillDue(bus)
                        ELSE Append(StillDue(bus), Program!ReadFrom(ArchMemory, access))
          PROVE  Program!OrderNext
      <3>1. Program!Performed(access, StillDue(bus))
        BY <1>8, <2>5, Performs
      <3> QED
        BY <1>4, <3>1 DEF Program!OrderNext, Program!Perform, Program!DeliverAndPerform, Program!Delivered
    <2>6. [Program!OrderNext]_(Program!orderVars)
      BY <1>8, <2>4, <2>5 DEF Enters
    <2> QED
      BY <1>2, <1>3, <2>3, <2>6 DEF OrderInv
  <1> QED
    BY <1>1, <1>6, <1>7, <1>8, Shapes DEF SecondStays

LEMMA InitOrderInv == Init => OrderInv /\ Program!OrderInit
  <1> SUFFICES ASSUME Init PROVE OrderInv /\ Program!OrderInit
    OBVIOUS
  <1>1. /\ ex = NoAccess /\ ~branch_in_ex /\ ~regfile_we_lsu /\ ~p_elw_busy_q
        /\ mem = InitialMemory /\ answers = <<>> /\ stores = 0 /\ due = <<>> /\ loaded = ZeroWord
        /\ cnt_q = 0 /\ waiting = NoTransaction
    BY DEF Init, LsuInit
  <1>2. ~NoAccess.req /\ ~NoAccess.misaligned /\ ~NoAccess.load_event
    BY DEF NoAccess
  <1>3. ElwInv
    BY DEF Init, LsuInit, NoAccess, ElwInv, CountInv, BranchInv, ExInv, WbInv, AloneInv, EarlyInv,
           ElwBusyWhileUnderWay, LSU_DEPTH
  <1>4. AccessInv
    BY <1>1, DataAccessAssumption DEF AccessInv, NoAccess, InitialMemory
  <1>5. LoadInWbInv /\ StoreInv /\ LoadInv /\ DueInv
    BY <1>1, <1>2 DEF LoadInWbInv, StoreInv, LoadInv, DueInv
  <1>6. ArchMemory = InitialMemory
    BY <1>1, <1>2, Arch DEF InitialMemory
  <1>7. ZeroWord = [l \in 0 .. 3 |-> <<0, 0, "zeros">>]
    BY DEF ZeroWord, Lanes, Zeros
  <1> QED
    BY <1>1, <1>3, <1>4, <1>5, <1>6, <1>7 DEF OrderInv, Program!OrderInit

\* The load-store unit implements the program order: with a memory that grants and answers when
\* it likes, with accesses that are split, overlap and wait, each load returns what the stores
\* before it left, whole and once, and nothing else is seen of the transactions.
THEOREM ProgramOrderKept == Spec => KeepsProgramOrder
  <1>1. Init => OrderInv /\ Program!OrderInit
    BY InitOrderInv
  <1>2. OrderInv /\ [Next]_vars => OrderInv' /\ [Program!OrderNext]_(Program!orderVars)
    <2>1. ASSUME OrderInv, Next PROVE OrderInv' /\ [Program!OrderNext]_(Program!orderVars)
      BY <2>1, OrderStep DEF Next
    <2>2. ASSUME OrderInv, UNCHANGED vars PROVE OrderInv' /\ UNCHANGED Program!orderVars
      <3>1. ElwInv'
        BY <2>2 DEF OrderInv, ElwInv, CountInv, BranchInv, ExInv, WbInv, AloneInv, EarlyInv,
                    ElwBusyWhileUnderWay, vars, lsuVars
      <3>2. AccessInv' /\ LoadInWbInv' /\ StoreInv'
        BY <2>2 DEF OrderInv, AccessInv, LoadInWbInv, StoreInv, InAccess, InTransaction, Stored, Start,
                    data_be, Offset, vars, lsuVars
      <3>3. LoadInv' /\ DueInv'
        BY <2>2 DEF OrderInv, LoadInv, DueInv, ValueInWb, ValueInEx, ReadWord, Start, data_rdata_ext,
                    rdata_w_ext, rdata_h_ext, rdata_b_ext, Fill, vars, lsuVars
      <3>4. UNCHANGED Program!orderVars
        BY <2>2 DEF Program!orderVars, ArchMemory, vars, lsuVars
      <3> QED
        BY <3>1, <3>2, <3>3, <3>4 DEF OrderInv
    <2> QED
      BY <2>1, <2>2
  <1> QED
    BY <1>1, <1>2, PTL DEF Spec, KeepsProgramOrder, Program!OrderSpec
=============================================================================
