------------------------ MODULE PrefetchBuffer_proofs ------------------------
(***************************************************************************)
(* For every depth greater than 1, both request rules, with and without    *)
(* hardware loops: the counters of the prefetch controller tell the truth, *)
(* and every answer that is still wanted has a place in the FIFO.          *)
(***************************************************************************)
EXTENDS PrefetchBuffer, TLAPS, SequenceTheorems

\* What the controller holds is what is under way.
CountInv == cnt_q = Len(outstanding) + (IF obi_state_q = "REGISTERED" THEN 1 ELSE 0)

\* A flush that waits for HWLP_END starts from an empty FIFO and spares that word.
DelayedFlushInv ==
    /\ hwlp_flush_after_resp =>
         /\ queue = <<>> /\ flush_cnt_q = 0 /\ lead = LOOP_LEAD
         /\ hwlp_flush_cnt_delayed_q < cnt_q
    /\ flush_cnt_q <= cnt_q

\* HWLP_END-4 cannot be in ID while answers are being thrown away or awaited for
\* a flush, and when it can be there, HWLP_END is under way.
LoopInv ==
    lead = 0 => /\ flush_cnt_q = 0
                /\ ~hwlp_flush_after_resp
                /\ cnt_q > 0 \/ queue # <<>>

IInv == TypeOK /\ CountInv /\ DelayedFlushInv /\ RoomForAnswers /\ LoopInv

\* What the inputs of a cycle have in common, whichever action takes place.
GoodInputs(in, gnt) ==
    /\ gnt \in BOOLEAN
    /\ in.req_i \in BOOLEAN /\ in.branch_i \in BOOLEAN /\ in.hwlp_jump_i \in BOOLEAN
    /\ in.resp_valid_i \in BOOLEAN /\ in.fetch_ready_i \in BOOLEAN
    /\ in.branch_addr_i \in Addr /\ in.hwlp_target_i \in Addr
    /\ in.trans_ready_i = (obi_state_q = "TRANSPARENT")
    /\ in.fifo_cnt_i = Len(queue)
    /\ in.resp_valid_i => outstanding # <<>>
    /\ in.fetch_ready_i => fetch_valid_o(in) /\ in.req_i
    /\ ~(in.branch_i /\ in.hwlp_jump_i)
    /\ in.branch_i \/ in.hwlp_jump_i => in.req_i
    /\ in.hwlp_jump_i => COREV_PULP

-----------------------------------------------------------------------------
(* One cycle of each part *)

LEMMA QueueStep ==
  ASSUME queue \in Seq(Addr),
         NEW flush \in BOOLEAN, NEW first \in BOOLEAN, NEW push \in BOOLEAN,
         NEW pop \in BOOLEAN, NEW data, push => data \in Addr,
         Fifo!QueueEdge(flush, first, push, data, pop)
  PROVE  /\ queue' \in Seq(Addr)
         /\ flush => queue' = <<>>
         /\ ~flush /\ first /\ queue # <<>> => Len(queue') = 1
         /\ ~flush /\ first /\ queue = <<>> => queue' = <<>>
         /\ ~flush /\ ~first =>
              Len(queue') = Len(queue)
                            - (IF pop /\ queue # <<>> THEN 1 ELSE 0)
                            + (IF push /\ Len(queue) # DEPTH THEN 1 ELSE 0)
<1>1. CASE flush
  BY <1>1, EmptySeq DEF Fifo!QueueEdge, Fifo!QueueAfter
<1>2. CASE ~flush /\ first
  <2>1. CASE queue = <<>>
    BY <1>2, <2>1, EmptySeq DEF Fifo!QueueEdge, Fifo!QueueAfter, Fifo!First
  <2>2. CASE queue # <<>>
    <3>1. queue' = <<Head(queue)>>
      BY <1>2, <2>2 DEF Fifo!QueueEdge, Fifo!QueueAfter, Fifo!First
    <3>2. Head(queue) \in Addr
      BY <2>2, HeadTailProperties
    <3> QED
      BY <1>2, <2>2, <3>1, <3>2
  <2> QED
    BY <2>1, <2>2
<1>3. CASE ~flush /\ ~first
  <2> DEFINE rest == IF pop /\ queue # <<>> THEN Tail(queue) ELSE queue
  <2>1. queue' = IF push /\ Len(queue) # DEPTH THEN Append(rest, data) ELSE rest
    BY <1>3 DEF Fifo!QueueEdge, Fifo!QueueAfter, Fifo!Moved, Fifo!QueueFull
  <2>2. rest \in Seq(Addr)
        /\ Len(rest) = Len(queue) - (IF pop /\ queue # <<>> THEN 1 ELSE 0)
    <3>1. CASE pop /\ queue # <<>>
      BY <3>1, HeadTailProperties
    <3>2. CASE ~(pop /\ queue # <<>>)
      BY <3>2
    <3> QED
      BY <3>1, <3>2
  <2> HIDE DEF rest
  <2>3. CASE push /\ Len(queue) # DEPTH
    <3>1. queue' = Append(rest, data) /\ data \in Addr
      BY <2>1, <2>3
    <3>2. queue' \in Seq(Addr) /\ Len(queue') = Len(rest) + 1
      BY <2>2, <3>1, AppendProperties
    <3> QED
      BY <1>3, <2>2, <2>3, <3>2
  <2>4. CASE ~(push /\ Len(queue) # DEPTH)
    <3>1. queue' = rest
      BY <2>1, <2>4
    <3>2. Len(queue') = Len(queue) - (IF pop /\ queue # <<>> THEN 1 ELSE 0)
      BY <2>2, <3>1
    <3>3. (IF push /\ Len(queue) # DEPTH THEN 1 ELSE 0) = 0
      BY <2>4
    <3> QED
      BY <1>3, <2>2, <3>1, <3>2, <3>3
  <2> QED
    BY <2>3, <2>4
<1> QED
  BY <1>1, <1>2, <1>3

LEMMA BusStep ==
  ASSUME outstanding \in Seq(Addr), obi_a_q \in Addr,
         obi_state_q \in {"TRANSPARENT", "REGISTERED"},
         NEW valid \in BOOLEAN, NEW addr \in Addr, NEW gnt \in BOOLEAN, NEW answered \in BOOLEAN,
         answered => outstanding # <<>>,
         Obi!ObiEdge(valid, addr, gnt),
         MemoryEdge(Obi!obi_req_o(valid) /\ gnt, Obi!obi_a_o(addr), answered)
  PROVE  /\ obi_state_q' \in {"TRANSPARENT", "REGISTERED"}
         /\ obi_a_q' \in Addr
         /\ outstanding' \in Seq(Addr)
         /\ Len(outstanding') + (IF obi_state_q' = "REGISTERED" THEN 1 ELSE 0)
            = Len(outstanding) + (IF obi_state_q = "REGISTERED" THEN 1 ELSE 0)
              + (IF valid /\ obi_state_q = "TRANSPARENT" THEN 1 ELSE 0)
              - (IF answered THEN 1 ELSE 0)
<1> DEFINE rest == IF answered THEN Tail(outstanding) ELSE outstanding
           granted == Obi!obi_req_o(valid) /\ gnt
<1>1. rest \in Seq(Addr) /\ Len(rest) = Len(outstanding) - (IF answered THEN 1 ELSE 0)
  BY HeadTailProperties
<1>2. Obi!obi_a_o(addr) \in Addr
  BY DEF Obi!obi_a_o
<1>3. outstanding' = IF granted THEN Append(rest, Obi!obi_a_o(addr)) ELSE rest
  BY DEF MemoryEdge
<1>4. /\ outstanding' \in Seq(Addr)
      /\ Len(outstanding') = Len(rest) + (IF granted THEN 1 ELSE 0)
  <2> HIDE DEF rest, granted
  <2>1. CASE granted
    BY <1>1, <1>2, <1>3, <2>1, AppendProperties
  <2>2. CASE ~granted
    BY <1>1, <1>3, <2>2
  <2> QED
    BY <2>1, <2>2
<1> HIDE DEF rest
<1>5. CASE Obi!Register(valid, addr, gnt)
  BY <1>1, <1>4, <1>5 DEF Obi!Register, Obi!obi_req_o
<1>6. CASE Obi!Release(gnt)
  BY <1>1, <1>4, <1>6 DEF Obi!Release, Obi!obi_req_o
<1>7. CASE Obi!ObiHold(valid, gnt)
  <2>1. obi_state_q' = obi_state_q /\ obi_a_q' = obi_a_q
    BY <1>7 DEF Obi!ObiHold, Obi!obiVars
  <2>2. granted <=> valid /\ obi_state_q = "TRANSPARENT"
    BY <1>7 DEF Obi!ObiHold, Obi!obi_req_o
  <2> HIDE DEF granted
  <2>3. CASE granted
    BY <1>1, <1>4, <2>1, <2>2, <2>3
  <2>4. CASE ~granted
    <3>1. (IF valid /\ obi_state_q = "TRANSPARENT" THEN 1 ELSE 0) = 0
      BY <2>2, <2>4
    <3>2. Len(outstanding') = Len(outstanding) - (IF answered THEN 1 ELSE 0)
      BY <1>1, <1>4, <2>4
    <3>3. Len(outstanding) \in Nat /\ Len(outstanding') \in Nat /\ outstanding' \in Seq(Addr)
      BY <1>4
    <3>4. obi_state_q' \in {"TRANSPARENT", "REGISTERED"} /\ obi_a_q' \in Addr
      BY <2>1
    <3>5. (IF obi_state_q' = "REGISTERED" THEN 1 ELSE 0) = (IF obi_state_q = "REGISTERED" THEN 1 ELSE 0)
      BY <2>1
    <3>6. CASE answered /\ obi_state_q = "REGISTERED"
      BY <3>1, <3>2, <3>3, <3>4, <3>5, <3>6
    <3>7. CASE ~answered /\ obi_state_q = "REGISTERED"
      BY <3>1, <3>2, <3>3, <3>4, <3>5, <3>7
    <3>8. CASE answered /\ obi_state_q # "REGISTERED"
      BY <3>1, <3>2, <3>3, <3>4, <3>5, <3>8
    <3>9. CASE ~answered /\ obi_state_q # "REGISTERED"
      BY <3>1, <3>2, <3>3, <3>4, <3>5, <3>9
    <3> QED
      BY <3>6, <3>7, <3>8, <3>9
  <2> QED
    BY <2>3, <2>4
<1> QED
  BY <1>5, <1>6, <1>7 DEF Obi!ObiEdge
-----------------------------------------------------------------------------
(* One cycle of the whole buffer *)

\* How the core's distance to HWLP_END-4 changes in a cycle.
LeadStep(in) ==
    /\ in.branch_i => lead' = 1
    /\ in.hwlp_jump_i => lead = 0 /\ lead' = IF in.fetch_ready_i THEN LOOP_LEAD - 1 ELSE LOOP_LEAD
    /\ ~Redirect(in) => lead' = IF in.req_i THEN Led(in.fetch_ready_i) ELSE Max1(lead)

LEMMA EmptyLen == \A s \in Seq(Addr) : Len(s) \in Nat /\ (s = <<>> <=> Len(s) = 0)
  BY EmptySeq

\* The registers and the lengths of the queues after a cycle.
LEMMA CycleFacts ==
  ASSUME IInv, NEW in, NEW gnt, GoodInputs(in, gnt), Edge(in, gnt)
  PROVE  /\ obi_state_q' \in {"TRANSPARENT", "REGISTERED"}
         /\ obi_a_q' \in Addr
         /\ outstanding' \in Seq(Addr)
         /\ queue' \in Seq(Addr)
         /\ fetched' \in Addr
         /\ state_q' \in {"IDLE", "BRANCH_WAIT"}
         /\ trans_addr_q' \in Addr
         /\ CountInv'
         /\ in.resp_valid_i => cnt_q > 0
         /\ cnt_q' = cnt_q + (IF count_up(in) THEN 1 ELSE 0)
                           - (IF in.resp_valid_i THEN 1 ELSE 0)
<1> USE DEF IInv, TypeOK, GoodInputs
<1>0. outstanding # <<>> => Head(outstanding) \in Addr
  BY HeadTailProperties
<1>1. /\ trans_valid_o(in) \in BOOLEAN /\ trans_addr_o(in) \in Addr
      /\ fifo_push_o(in) \in BOOLEAN /\ fifo_pop_o(in) \in BOOLEAN
      /\ fifo_flush_o(in) \in BOOLEAN /\ fifo_flush_but_first_o(in) \in BOOLEAN
  <2>1. trans_valid_o(in) \in BOOLEAN
    BY DEF trans_valid_o
  <2>2. fifo_push_o(in) \in BOOLEAN /\ fifo_pop_o(in) \in BOOLEAN
    BY DEF fifo_push_o, fifo_pop_o
  <2>3. fifo_flush_o(in) \in BOOLEAN /\ fifo_flush_but_first_o(in) \in BOOLEAN
    BY DEF fifo_flush_o, fifo_flush_but_first_o
  <2>4. Incr(trans_addr_q) \in Addr
    BY PrefetchAssumption DEF Addr, Incr
  <2>5. trans_addr_o(in) \in Addr
    BY <2>4 DEF trans_addr_o
  <2> QED
    BY <2>1, <2>2, <2>3, <2>5
<1>2. /\ obi_state_q' \in {"TRANSPARENT", "REGISTERED"}
      /\ obi_a_q' \in Addr
      /\ outstanding' \in Seq(Addr)
      /\ Len(outstanding') + (IF obi_state_q' = "REGISTERED" THEN 1 ELSE 0)
         = Len(outstanding) + (IF obi_state_q = "REGISTERED" THEN 1 ELSE 0)
           + (IF trans_valid_o(in) /\ obi_state_q = "TRANSPARENT" THEN 1 ELSE 0)
           - (IF in.resp_valid_i THEN 1 ELSE 0)
  <2>1. /\ Obi!ObiEdge(trans_valid_o(in), trans_addr_o(in), gnt)
        /\ MemoryEdge(Obi!obi_req_o(trans_valid_o(in)) /\ gnt,
                      Obi!obi_a_o(trans_addr_o(in)), in.resp_valid_i)
    BY DEF Edge
  <2> HIDE DEF IInv
  <2>2. /\ outstanding \in Seq(Addr) /\ obi_a_q \in Addr
        /\ obi_state_q \in {"TRANSPARENT", "REGISTERED"}
        /\ gnt \in BOOLEAN /\ in.resp_valid_i \in BOOLEAN
        /\ in.resp_valid_i => outstanding # <<>>
    BY DEF IInv
  <2> HIDE DEF GoodInputs, TypeOK
  <2> QED
    BY <1>1, <2>1, <2>2, BusStep, ZenonT(60)
<1>3. fifo_push_o(in) => Head(outstanding) \in Addr
  BY <1>0 DEF fifo_push_o
<1>4. queue' \in Seq(Addr)
  <2>1. Fifo!QueueEdge(fifo_flush_o(in), fifo_flush_but_first_o(in),
                       fifo_push_o(in), Head(outstanding), fifo_pop_o(in))
    BY DEF Edge
  <2>2. queue \in Seq(Addr)
    OBVIOUS
  <2> HIDE DEF IInv, GoodInputs, TypeOK
  <2> QED
    BY <1>1, <1>3, <2>1, <2>2, QueueStep
<1>5. fetched' \in Addr
  <2>1. CASE in.fetch_ready_i
    <3>1. CASE queue = <<>>
      BY <1>0, <2>1, <3>1 DEF Edge, fetch_rdata_o, fetch_valid_o, fifo_empty
    <3>2. CASE queue # <<>>
      BY <2>1, <3>2, HeadTailProperties DEF Edge, fetch_rdata_o
    <3> QED
      BY <3>1, <3>2
  <2>2. CASE ~in.fetch_ready_i
    BY <2>2 DEF Edge
  <2> QED
    BY <2>1, <2>2
<1>6. state_q' \in {"IDLE", "BRANCH_WAIT"} /\ trans_addr_q' \in Addr
  BY <1>1 DEF Edge, ControllerEdge, next_state
<1>7. in.resp_valid_i => cnt_q > 0
  <2>1. Len(outstanding) \in Nat /\ (outstanding # <<>> => Len(outstanding) > 0)
    BY EmptyLen
  <2> QED
    BY <2>1 DEF CountInv
<1>8. count_up(in) <=> trans_valid_o(in) /\ obi_state_q = "TRANSPARENT"
  BY DEF count_up
<1>9. cnt_q' = cnt_q + (IF count_up(in) THEN 1 ELSE 0) - (IF in.resp_valid_i THEN 1 ELSE 0)
  <2>1. cnt_q' = next_cnt(in)
    BY DEF Edge, ControllerEdge
  <2>2. CASE count_up(in)
    BY <2>1, <2>2 DEF next_cnt
  <2>3. CASE ~count_up(in)
    BY <2>1, <2>3 DEF next_cnt
  <2> QED
    BY <2>2, <2>3
<1>10. CountInv'
  <2>1. (IF count_up(in) THEN 1 ELSE 0)
        = (IF trans_valid_o(in) /\ obi_state_q = "TRANSPARENT" THEN 1 ELSE 0)
    BY <1>8
  <2>2. Len(outstanding) \in Int /\ Len(outstanding') \in Int
    BY <1>2
  <2>3. CASE count_up(in)
    BY <1>2, <1>9, <2>1, <2>2, <2>3 DEF CountInv
  <2>4. CASE ~count_up(in)
    BY <1>2, <1>9, <2>1, <2>2, <2>4 DEF CountInv
  <2> QED
    BY <2>3, <2>4
<1> QED
  BY <1>2, <1>4, <1>5, <1>6, <1>7, <1>9, <1>10

\* How many words there are in the FIFO after a cycle.
LEMMA QueueFacts ==
  ASSUME IInv, NEW in, NEW gnt, GoodInputs(in, gnt), Edge(in, gnt)
  PROVE  /\ in.branch_i => queue' = <<>>
         /\ in.hwlp_jump_i /\ queue # <<>> =>
              Len(queue') = IF in.fetch_ready_i THEN 0 ELSE 1
         /\ in.hwlp_jump_i /\ queue = <<>> =>
              Len(queue') = IF in.resp_valid_i /\ ~in.fetch_ready_i /\ flush_cnt_q = 0
                            THEN 1 ELSE 0
         /\ ~Redirect(in) =>
              Len(queue') = Len(queue)
                            - (IF in.fetch_ready_i /\ queue # <<>> THEN 1 ELSE 0)
                            + (IF fifo_push_o(in) /\ Len(queue) # DEPTH THEN 1 ELSE 0)
<1> USE DEF IInv, TypeOK, GoodInputs
<1>0. outstanding # <<>> => Head(outstanding) \in Addr
  BY HeadTailProperties
<1>1. /\ fifo_push_o(in) \in BOOLEAN /\ fifo_pop_o(in) \in BOOLEAN
      /\ fifo_flush_o(in) \in BOOLEAN /\ fifo_flush_but_first_o(in) \in BOOLEAN
      /\ fifo_push_o(in) => Head(outstanding) \in Addr
  BY <1>0 DEF fifo_push_o, fifo_pop_o, fifo_flush_o, fifo_flush_but_first_o
<1>2. Fifo!QueueEdge(fifo_flush_o(in), fifo_flush_but_first_o(in),
                     fifo_push_o(in), Head(outstanding), fifo_pop_o(in))
  BY DEF Edge
<1>3. queue \in Seq(Addr) /\ (queue = <<>> <=> Len(queue) = 0) /\ Len(queue) \in Nat
  BY EmptyLen
<1>4. /\ queue' \in Seq(Addr)
      /\ fifo_flush_o(in) => queue' = <<>>
      /\ ~fifo_flush_o(in) /\ fifo_flush_but_first_o(in) /\ queue # <<>> => Len(queue') = 1
      /\ ~fifo_flush_o(in) /\ fifo_flush_but_first_o(in) /\ queue = <<>> => queue' = <<>>
      /\ ~fifo_flush_o(in) /\ ~fifo_flush_but_first_o(in) =>
           Len(queue') = Len(queue)
                         - (IF fifo_pop_o(in) /\ queue # <<>> THEN 1 ELSE 0)
                         + (IF fifo_push_o(in) /\ Len(queue) # DEPTH THEN 1 ELSE 0)
  <2> HIDE DEF IInv, TypeOK, GoodInputs
  <2> QED
    BY <1>1, <1>2, <1>3, QueueStep
<1>5. CASE in.branch_i
  BY <1>4, <1>5 DEF fifo_flush_o, Redirect
<1>6. CASE in.hwlp_jump_i /\ queue # <<>>
  <2>1. fifo_empty(in) = FALSE
    BY <1>3, <1>6 DEF fifo_empty
  <2>2. fifo_pop_o(in) <=> in.fetch_ready_i
    BY <2>1 DEF fifo_pop_o
  <2>3. CASE in.fetch_ready_i
    BY <1>4, <1>6, <2>1, <2>2, <2>3, EmptyLen DEF fifo_flush_o, Redirect
  <2>4. CASE ~in.fetch_ready_i
    BY <1>4, <1>6, <2>1, <2>2, <2>4 DEF fifo_flush_o, fifo_flush_but_first_o, Redirect
  <2> QED
    BY <2>3, <2>4
<1>7. CASE in.hwlp_jump_i /\ queue = <<>>
  <2>1. fifo_empty(in) /\ Len(queue) = 0 /\ Len(queue) # DEPTH
    BY <1>3, <1>7, PrefetchAssumption DEF fifo_empty
  <2>2. ~fifo_flush_o(in) /\ ~fifo_flush_but_first_o(in) /\ ~fifo_pop_o(in)
    BY <1>7, <2>1 DEF fifo_flush_o, fifo_flush_but_first_o, fifo_pop_o
  <2>3. fifo_push_o(in) <=> in.resp_valid_i /\ ~in.fetch_ready_i /\ flush_cnt_q = 0
    BY <1>7, <2>1 DEF fifo_push_o, Discarding
  <2> QED
    BY <1>4, <1>7, <2>1, <2>2, <2>3 DEF Redirect
<1>8. CASE ~Redirect(in)
  <2>1. ~fifo_flush_o(in) /\ ~fifo_flush_but_first_o(in)
    BY <1>8 DEF fifo_flush_o, fifo_flush_but_first_o, Redirect
  <2>2. (fifo_pop_o(in) /\ queue # <<>>) <=> (in.fetch_ready_i /\ queue # <<>>)
    BY <1>3 DEF fifo_pop_o, fifo_empty
  <2> QED
    BY <1>4, <1>8, <2>1, <2>2 DEF Redirect
<1> QED
  BY <1>5, <1>6, <1>7, <1>8 DEF Redirect

LEMMA CycleInv ==
  ASSUME IInv, NEW in, NEW gnt, GoodInputs(in, gnt), Edge(in, gnt), LeadStep(in),
         booted' \in BOOLEAN
  PROVE  IInv'
<1> DEFINE up  == IF count_up(in) THEN 1 ELSE 0
           ans == IF in.resp_valid_i THEN 1 ELSE 0
           took == IF in.fetch_ready_i THEN 1 ELSE 0
           n   == Len(queue)
<1>1. /\ in.req_i \in BOOLEAN /\ in.branch_i \in BOOLEAN /\ in.hwlp_jump_i \in BOOLEAN
      /\ in.resp_valid_i \in BOOLEAN /\ in.fetch_ready_i \in BOOLEAN
      /\ ~(in.branch_i /\ in.hwlp_jump_i)
      /\ in.fetch_ready_i => in.req_i /\ ~in.branch_i /\ flush_cnt_q = 0
                             /\ (queue # <<>> \/ in.resp_valid_i)
  BY EmptyLen DEF GoodInputs, fetch_valid_o, Discarding, fifo_empty, IInv, TypeOK
<1>2. /\ cnt_q \in 0 .. DEPTH /\ flush_cnt_q \in 0 .. DEPTH
      /\ hwlp_flush_cnt_delayed_q \in 0 .. DEPTH /\ hwlp_flush_after_resp \in BOOLEAN
      /\ lead \in 0 .. LOOP_LEAD /\ n \in Nat /\ n <= DEPTH /\ DEPTH \in Nat /\ DEPTH > 1
      /\ queue = <<>> <=> n = 0
  BY EmptyLen, PrefetchAssumption DEF IInv, TypeOK
<1>3. /\ up \in {0, 1} /\ ans \in {0, 1} /\ took \in {0, 1}
      /\ up = 1 <=> count_up(in)
      /\ ans = 1 <=> in.resp_valid_i
      /\ took = 1 <=> in.fetch_ready_i
      /\ cnt_q' = cnt_q + up - ans
      /\ in.resp_valid_i => cnt_q > 0
      /\ Len(queue') \in Nat /\ (queue' = <<>> <=> Len(queue') = 0)
  BY CycleFacts, EmptyLen
<1>4. count_up(in) => (IF Redirect(in) THEN 0 ELSE n) + cnt_q < DEPTH
  BY DEF count_up, trans_valid_o, fifo_cnt_masked, GoodInputs
<1>5. /\ flush_cnt_q' = next_flush_cnt(in)
      /\ hwlp_flush_after_resp' = next_flush_after_resp(in)
      /\ hwlp_flush_cnt_delayed_q' = next_flush_cnt_delayed(in)
  BY DEF Edge, ControllerEdge
<1>6. fifo_empty(in) <=> n = 0
  BY DEF GoodInputs, fifo_empty
<1>7. /\ hwlp_flush_after_resp => n = 0 /\ flush_cnt_q = 0 /\ lead = LOOP_LEAD
                                  /\ hwlp_flush_cnt_delayed_q < cnt_q
      /\ flush_cnt_q <= cnt_q
      /\ n + cnt_q - ToFlush <= DEPTH
      /\ lead = 0 => /\ flush_cnt_q = 0 /\ ~hwlp_flush_after_resp
                     /\ cnt_q > 0 \/ n > 0
  BY <1>2 DEF IInv, DelayedFlushInv, RoomForAnswers, LoopInv
<1>8. hwlp_flush_after_resp' \in BOOLEAN
  BY <1>5 DEF next_flush_after_resp
<1> DEFINE InRange == /\ flush_cnt_q' \in 0 .. DEPTH
                      /\ hwlp_flush_cnt_delayed_q' \in 0 .. DEPTH
                      /\ lead' \in 0 .. LOOP_LEAD
           FewFlushes == flush_cnt_q' <= cnt_q'
           Delayed == hwlp_flush_after_resp' =>
                        /\ Len(queue') = 0 /\ flush_cnt_q' = 0 /\ lead' = LOOP_LEAD
                        /\ hwlp_flush_cnt_delayed_q' < cnt_q'
           Room == Len(queue') + cnt_q' - ToFlush' <= DEPTH
           Turn == lead' = 0 => /\ flush_cnt_q' = 0 /\ ~hwlp_flush_after_resp'
                                /\ cnt_q' > 0 \/ Len(queue') > 0
           Counters == InRange /\ FewFlushes /\ Delayed /\ Room /\ Turn
<1>nq. n = Len(queue)
  OBVIOUS
<1> HIDE DEF up, ans, took, n
<1> DEFINE m == Len(queue')
           c == cnt_q'
           f == ToFlush'
<1>i. /\ c \in Int /\ m \in Nat /\ DEPTH \in Int /\ DEPTH >= 2 /\ n \in Int
      /\ up \in Int /\ up >= 0 /\ up <= 1 /\ ans \in Int /\ ans >= 0 /\ ans <= 1
      /\ took \in Int /\ took >= 0 /\ took <= 1 /\ c = cnt_q + up - ans
  BY <1>2, <1>3
<1> HIDE DEF m, c, f
<1>b. ASSUME in.branch_i PROVE Counters
  <2>1. /\ flush_cnt_q' = cnt_q - ans
        /\ hwlp_flush_after_resp' = FALSE /\ hwlp_flush_cnt_delayed_q' = 0
    BY <1>3, <1>5, <1>b DEF next_flush_cnt, next_flush_after_resp, next_flush_cnt_delayed
  <2>2. Len(queue') = 0 /\ lead' = 1
    BY <1>3, <1>b, QueueFacts DEF LeadStep
  <2>3. ToFlush' = cnt_q - ans
    BY <2>1 DEF ToFlush
  <2>4. cnt_q' - ToFlush' = up /\ ToFlush' \in 0 .. DEPTH
    BY <1>2, <1>3, <2>3
  <2>5. InRange
    BY <1>2, <1>3, <2>1, <2>2 DEF LOOP_LEAD
  <2>6. FewFlushes
    BY <1>2, <1>3, <2>1
  <2>7. Room
    <3>1. m = 0 /\ c - f = up /\ f \in Int
      BY <2>2, <2>4 DEF m, c, f
    <3>2. m + c - f <= DEPTH
      BY <1>i, <3>1
    <3> QED
      BY <3>2 DEF m, c, f
  <2>8. Delayed /\ Turn
    BY <2>1, <2>2
  <2> QED
    BY <2>5, <2>6, <2>7, <2>8
<1>h. ASSUME in.hwlp_jump_i PROVE Counters
  <2>1. lead = 0 /\ lead' \in {LOOP_LEAD, LOOP_LEAD - 1} /\ COREV_PULP /\ ~in.branch_i
        /\ flush_cnt_q = 0 /\ ~hwlp_flush_after_resp /\ (cnt_q > 0 \/ n > 0)
        /\ Redirect(in)
    BY <1>1, <1>7, <1>h DEF LeadStep, GoodInputs, Redirect
  <2>2. CASE n = 0 /\ ~in.resp_valid_i
    <3>1. /\ hwlp_flush_after_resp' = TRUE /\ hwlp_flush_cnt_delayed_q' = cnt_q - 1
          /\ flush_cnt_q' = 0 /\ ~in.fetch_ready_i
      BY <1>1, <1>2, <1>5, <1>6, <1>h, <2>1, <2>2
         DEF next_flush_cnt, next_flush_after_resp, next_flush_cnt_delayed,
             hwlp_wait_resp_flush, hwlp_flush_resp, hwlp_flush_resp_delayed
    <3>2. Len(queue') = 0 /\ lead' = LOOP_LEAD
      BY <1>2, <1>nq, <1>h, <2>2, <3>1, QueueFacts DEF LeadStep
    <3>3. ToFlush' = cnt_q - 1
      BY <3>1 DEF ToFlush
    <3>4. InRange /\ FewFlushes
      BY <1>2, <1>3, <2>1, <2>2, <3>1, <3>2 DEF LOOP_LEAD
    <3>5. Delayed
      BY <1>2, <1>3, <2>1, <2>2, <3>1, <3>2
    <3>6. Room
      <4>1. m = 0 /\ c = cnt_q + up /\ f = cnt_q - 1 /\ cnt_q \in Int
        BY <1>2, <1>3, <2>2, <3>2, <3>3 DEF m, c, f
      <4>2. m + c - f <= DEPTH
        BY <1>i, <4>1
      <4> QED
        BY <4>2 DEF m, c, f
    <3>7. Turn
      BY <3>2 DEF LOOP_LEAD
    <3> QED
      BY <3>4, <3>5, <3>6, <3>7
  <2>3. CASE ~(n = 0 /\ ~in.resp_valid_i)
    <3>1. /\ hwlp_flush_after_resp' = FALSE
          /\ hwlp_flush_cnt_delayed_q' = hwlp_flush_cnt_delayed_q
          /\ flush_cnt_q' = cnt_q - ans
      BY <1>2, <1>3, <1>5, <1>6, <1>h, <2>1, <2>3
         DEF next_flush_cnt, next_flush_after_resp, next_flush_cnt_delayed,
             hwlp_wait_resp_flush, hwlp_flush_resp, hwlp_flush_resp_delayed
    <3>2. Len(queue') <= 1
      <4> HIDE DEF IInv
      <4>1. CASE queue = <<>>
        <5>1. Len(queue') = IF in.resp_valid_i /\ ~in.fetch_ready_i /\ flush_cnt_q = 0
                            THEN 1 ELSE 0
          BY <1>h, <4>1, QueueFacts
        <5> QED
          BY <5>1
      <4>2. CASE queue # <<>>
        <5>1. Len(queue') = IF in.fetch_ready_i THEN 0 ELSE 1
          BY <1>h, <4>2, QueueFacts
        <5> QED
          BY <5>1
      <4> QED
        BY <4>1, <4>2
    <3>3. ToFlush' = cnt_q - ans
      BY <3>1 DEF ToFlush
    <3>4. cnt_q' - ToFlush' = up /\ ToFlush' \in 0 .. DEPTH
      BY <1>2, <1>3, <3>3
    <3>5. lead' \in 0 .. LOOP_LEAD /\ lead' # 0
      BY <2>1 DEF LOOP_LEAD
    <3>6. InRange /\ FewFlushes
      BY <1>2, <1>3, <3>1, <3>5
    <3>7. Delayed /\ Turn
      BY <3>1, <3>5
    <3>8. Room
      <4>1. m <= 1 /\ c - f = up /\ f \in Int
        BY <3>2, <3>4 DEF m, c, f
      <4>2. m + c - f <= DEPTH
        BY <1>i, <4>1
      <4> QED
        BY <4>2 DEF m, c, f
    <3> QED
      BY <3>6, <3>7, <3>8
  <2> QED
    BY <2>2, <2>3
<1>s. ASSUME ~Redirect(in) PROVE Counters
  <2>1. ~in.branch_i /\ ~in.hwlp_jump_i
    BY <1>s DEF Redirect
  <2>2. /\ hwlp_flush_after_resp' = (hwlp_flush_after_resp /\ ~in.resp_valid_i)
        /\ hwlp_flush_cnt_delayed_q' = IF hwlp_flush_after_resp /\ in.resp_valid_i
                                       THEN 0 ELSE hwlp_flush_cnt_delayed_q
        /\ flush_cnt_q' = IF hwlp_flush_after_resp /\ in.resp_valid_i
                          THEN hwlp_flush_cnt_delayed_q
                          ELSE IF in.resp_valid_i /\ flush_cnt_q > 0
                          THEN flush_cnt_q - 1 ELSE flush_cnt_q
    BY <1>2, <1>5, <2>1
       DEF next_flush_cnt, next_flush_after_resp, next_flush_cnt_delayed,
           hwlp_wait_resp_flush, hwlp_flush_resp, hwlp_flush_resp_delayed
  <2>3. Len(queue') = n - (IF in.fetch_ready_i /\ n # 0 THEN 1 ELSE 0)
                        + (IF fifo_push_o(in) /\ n # DEPTH THEN 1 ELSE 0)
    BY <1>2, <1>nq, <1>s, QueueFacts
  <2>4. fifo_push_o(in) <=> /\ in.resp_valid_i /\ (n # 0 \/ ~in.fetch_ready_i)
                            /\ flush_cnt_q = 0
    BY <1>1, <1>2, <1>6, <2>1 DEF fifo_push_o, Discarding
  <2>5. lead' = IF in.req_i THEN Led(in.fetch_ready_i) ELSE Max1(lead)
    BY <1>s DEF LeadStep
  <2>6. lead' \in 0 .. LOOP_LEAD
    BY <1>2, <2>5 DEF Led, Max1, LOOP_LEAD
  <2>7. CASE hwlp_flush_after_resp
    <3>1. CASE in.resp_valid_i
      <4>1. /\ hwlp_flush_after_resp' = FALSE /\ hwlp_flush_cnt_delayed_q' = 0
            /\ flush_cnt_q' = hwlp_flush_cnt_delayed_q
            /\ ToFlush' = hwlp_flush_cnt_delayed_q
        BY <2>2, <2>7, <3>1 DEF ToFlush
      <4>2. Len(queue') <= 1 /\ lead' > 0
        BY <1>2, <1>7, <2>3, <2>5, <2>7 DEF Led, Max1, LOOP_LEAD
      <4>3. ToFlush = hwlp_flush_cnt_delayed_q
        BY <2>7 DEF ToFlush
      <4>4. up = 1 => cnt_q < DEPTH
        BY <1>2, <1>3, <1>4, <1>7, <1>s, <2>7
      <4>5. InRange
        BY <1>2, <2>6, <4>1
      <4>6. FewFlushes
        BY <1>2, <1>3, <1>7, <2>7, <4>1
      <4>7. Delayed /\ Turn
        BY <4>1, <4>2
      <4>8. Room
        <5> DEFINE d == hwlp_flush_cnt_delayed_q
        <5>1. /\ m <= 1 /\ c = cnt_q + up - 1 /\ f = d /\ cnt_q \in Int /\ d \in Nat
              /\ cnt_q <= DEPTH /\ cnt_q - d <= DEPTH
          BY <1>2, <1>3, <1>7, <2>7, <3>1, <4>1, <4>2, <4>3 DEF m, c, f
        <5> HIDE DEF d
        <5>2. m + c - f <= DEPTH
          BY <1>i, <4>4, <5>1
        <5> QED
          BY <5>2 DEF m, c, f
      <4> QED
        BY <4>5, <4>6, <4>7, <4>8
    <3>2. CASE ~in.resp_valid_i
      <4>1. /\ hwlp_flush_after_resp' = TRUE
            /\ hwlp_flush_cnt_delayed_q' = hwlp_flush_cnt_delayed_q
            /\ flush_cnt_q' = 0 /\ ToFlush' = hwlp_flush_cnt_delayed_q
        BY <1>7, <2>2, <2>7, <3>2 DEF ToFlush
      <4>2. Len(queue') = 0 /\ ~in.fetch_ready_i
        BY <1>1, <1>2, <1>7, <2>3, <2>4, <2>7, <3>2
      <4>3. lead' = LOOP_LEAD
        BY <1>7, <2>5, <2>7, <4>2 DEF Led, Max1, LOOP_LEAD
      <4>4. ToFlush = hwlp_flush_cnt_delayed_q
        BY <2>7 DEF ToFlush
      <4>5. up = 1 => cnt_q < DEPTH
        BY <1>2, <1>3, <1>4, <1>7, <1>s, <2>7
      <4>6. InRange /\ FewFlushes
        BY <1>2, <1>3, <1>7, <2>6, <2>7, <4>1
      <4>7. Delayed /\ Turn
        BY <1>2, <1>3, <1>7, <2>7, <3>2, <4>1, <4>2, <4>3 DEF LOOP_LEAD
      <4>8. Room
        BY <1>2, <1>3, <1>7, <2>7, <4>1, <4>2, <4>4, <4>5
      <4> QED
        BY <4>6, <4>7, <4>8
    <3> QED
      BY <3>1, <3>2
  <2>8. CASE ~hwlp_flush_after_resp
    <3>1. /\ hwlp_flush_after_resp' = FALSE
          /\ hwlp_flush_cnt_delayed_q' = hwlp_flush_cnt_delayed_q
          /\ flush_cnt_q' = IF in.resp_valid_i /\ flush_cnt_q > 0
                            THEN flush_cnt_q - 1 ELSE flush_cnt_q
          /\ ToFlush' = flush_cnt_q' /\ ToFlush = flush_cnt_q
      BY <2>2, <2>8 DEF ToFlush
    <3>2. count_up(in) => n + cnt_q < DEPTH
      BY <1>4, <1>s
    <3>3. CASE flush_cnt_q > 0
      <4>1. ~in.fetch_ready_i /\ ~fifo_push_o(in) /\ Len(queue') = n
        BY <1>1, <1>2, <2>3, <2>4, <3>3
      <4>2. lead' > 0
        BY <1>2, <1>7, <2>5, <3>3, <4>1 DEF Led, Max1, LOOP_LEAD
      <4>3. CASE in.resp_valid_i
        <5>1. /\ flush_cnt_q' = flush_cnt_q - 1 /\ ToFlush' = flush_cnt_q - 1
              /\ n + cnt_q - flush_cnt_q <= DEPTH /\ flush_cnt_q <= cnt_q
              /\ up = 1 => n + cnt_q < DEPTH
          BY <1>3, <1>7, <3>1, <3>2, <3>3, <4>3
        <5>2. InRange /\ FewFlushes /\ Room
          BY <1>2, <1>3, <2>6, <3>1, <3>3, <4>1, <4>3, <5>1
        <5> QED
          BY <3>1, <4>2, <5>2
      <4>4. CASE ~in.resp_valid_i
        <5>1. /\ flush_cnt_q' = flush_cnt_q /\ ToFlush' = flush_cnt_q
              /\ n + cnt_q - flush_cnt_q <= DEPTH /\ flush_cnt_q <= cnt_q
              /\ up = 1 => n + cnt_q < DEPTH
          BY <1>3, <1>7, <3>1, <3>2, <4>4
        <5>2. InRange /\ FewFlushes /\ Room
          BY <1>2, <1>3, <2>6, <3>1, <3>3, <4>1, <4>4, <5>1
        <5> QED
          BY <3>1, <4>2, <5>2
      <4> QED
        BY <4>3, <4>4
    <3>4. CASE flush_cnt_q = 0
      <4>1. n + cnt_q <= DEPTH /\ flush_cnt_q' = 0
        BY <1>2, <1>7, <3>1, <3>4
      <4>2. in.resp_valid_i => n # DEPTH
        BY <1>2, <1>3, <4>1
      <4>3. Len(queue') = n + ans - took
        <5>1. CASE in.fetch_ready_i /\ in.resp_valid_i
          BY <1>1, <1>2, <1>3, <2>3, <2>4, <3>4, <4>2, <5>1
        <5>2. CASE in.fetch_ready_i /\ ~in.resp_valid_i
          BY <1>1, <1>2, <1>3, <2>3, <2>4, <3>4, <4>2, <5>2
        <5>3. CASE ~in.fetch_ready_i /\ in.resp_valid_i
          BY <1>1, <1>2, <1>3, <2>3, <2>4, <3>4, <4>2, <5>3
        <5>4. CASE ~in.fetch_ready_i /\ ~in.resp_valid_i
          BY <1>1, <1>2, <1>3, <2>3, <2>4, <3>4, <4>2, <5>4
        <5> QED
          BY <1>1, <5>1, <5>2, <5>3, <5>4
      <4>4. Len(queue') + cnt_q' = n + cnt_q + up - took
        BY <1>2, <1>3, <4>3
      <4>5. Len(queue') + cnt_q' <= DEPTH
        BY <1>2, <1>3, <3>2, <4>1, <4>4
      <4>6. lead' = 0 => cnt_q' > 0 \/ Len(queue') > 0
        <5> SUFFICES ASSUME lead' = 0 PROVE Len(queue') + cnt_q' > 0
          BY <1>2, <1>3
        <5>1. in.req_i /\ (lead = 0 \/ in.fetch_ready_i)
          BY <1>1, <1>2, <2>5 DEF Led, Max1, LOOP_LEAD
        <5>2. n + cnt_q > 0
          BY <1>1, <1>2, <1>3, <1>7, <5>1
        <5>3. CASE ~in.fetch_ready_i \/ n + cnt_q > 1
          BY <1>2, <1>3, <4>4, <5>2, <5>3
        <5>4. CASE in.fetch_ready_i /\ n + cnt_q = 1
          <6>1. cnt_q # 0 => in.resp_valid_i
            BY <1>1, <1>2, <5>4
          <6>2. trans_valid_o(in)
            <7>1. fifo_cnt_masked(in) = n
              BY <1>nq, <1>s DEF fifo_cnt_masked, GoodInputs
            <7>2. n + cnt_q < DEPTH
              BY <1>2, <5>4
            <7> QED
              BY <5>1, <6>1, <7>1, <7>2 DEF trans_valid_o
          <6>3. obi_state_q = "TRANSPARENT"
            <7>1. outstanding \in Seq(Addr) /\ obi_state_q \in {"TRANSPARENT", "REGISTERED"}
              BY DEF IInv, TypeOK
            <7>2. Len(outstanding) \in Nat /\ (outstanding # <<>> => Len(outstanding) > 0)
              BY <7>1, EmptyLen
            <7>3. cnt_q # 0 => outstanding # <<>>
              BY <6>1 DEF GoodInputs
            <7> QED
              BY <1>2, <5>4, <7>1, <7>2, <7>3 DEF IInv, CountInv
          <6>4. up = 1
            <7>1. in.trans_ready_i
              BY <6>3 DEF GoodInputs
            <7> QED
              BY <1>3, <6>2, <7>1 DEF count_up
          <6> QED
            BY <1>2, <1>3, <4>4, <5>4, <6>4
        <5> QED
          BY <1>2, <5>2, <5>3, <5>4
      <4> QED
        BY <1>2, <1>3, <2>6, <3>1, <3>4, <4>1, <4>5, <4>6
    <3> QED
      BY <1>2, <3>3, <3>4
  <2> QED
    BY <2>7, <2>8
<1> HIDE DEF Counters
<1>9. Counters
  BY <1>b, <1>h, <1>s DEF Redirect
<1>10. cnt_q' \in 0 .. DEPTH
  BY <1>2, <1>3, <1>4 DEF Redirect
<1>11. Len(queue') <= DEPTH
  <2>1. CASE hwlp_flush_after_resp'
    BY <1>2, <1>9, <2>1 DEF Counters
  <2>2. CASE ~hwlp_flush_after_resp'
    <3>1. ToFlush' = flush_cnt_q'
      BY <2>2 DEF ToFlush
    <3> QED
      BY <1>2, <1>3, <1>9, <1>10, <3>1 DEF Counters
  <2> QED
    BY <2>1, <2>2
<1>12. TypeOK'
  BY <1>8, <1>9, <1>10, <1>11, CycleFacts DEF TypeOK, Counters
<1> QED
  BY <1>3, <1>9, <1>12, CycleFacts
     DEF IInv, DelayedFlushInv, RoomForAnswers, LoopInv, Counters

-----------------------------------------------------------------------------
(* The actions *)

LEMMA InitInv == Init => IInv
<1> SUFFICES ASSUME Init PROVE IInv
  OBVIOUS
<1>1. 0 \in Addr /\ DEPTH \in Nat /\ DEPTH > 1
  BY PrefetchAssumption DEF Addr
<1>2. Len(queue) = 0 /\ Len(outstanding) = 0 /\ queue \in Seq(Addr) /\ outstanding \in Seq(Addr)
  BY EmptySeq DEF Init, Fifo!QueueInit
<1>3. TypeOK
  <2>1. hwlp_flush_after_resp \in BOOLEAN /\ booted \in BOOLEAN
    BY DEF Init, ControllerInit
  <2>2. obi_a_q \in Addr /\ fetched \in Addr /\ trans_addr_q \in Addr
    BY <1>1 DEF Init, ControllerInit, Obi!ObiInit
  <2>3. /\ state_q \in {"IDLE", "BRANCH_WAIT"} /\ obi_state_q \in {"TRANSPARENT", "REGISTERED"}
        /\ cnt_q \in 0 .. DEPTH /\ flush_cnt_q \in 0 .. DEPTH
        /\ hwlp_flush_cnt_delayed_q \in 0 .. DEPTH /\ lead \in 0 .. LOOP_LEAD
    BY <1>1 DEF Init, ControllerInit, Obi!ObiInit, LOOP_LEAD
  <2> QED
    BY <1>1, <1>2, <2>1, <2>2, <2>3 DEF TypeOK
<1>4. CountInv /\ DelayedFlushInv /\ LoopInv
  BY <1>2 DEF Init, ControllerInit, Obi!ObiInit, CountInv, DelayedFlushInv, LoopInv
<1>5. ToFlush = 0
  BY DEF Init, ControllerInit, ToFlush
<1>6. RoomForAnswers
  BY <1>1, <1>2, <1>5 DEF Init, ControllerInit, RoomForAnswers
<1> QED
  BY <1>3, <1>4, <1>6 DEF IInv

LEMMA FetchInv ==
  ASSUME IInv, NEW req \in BOOLEAN, NEW rvalid \in BOOLEAN, NEW ready \in BOOLEAN,
         NEW gnt \in BOOLEAN, Fetch(req, rvalid, ready, gnt)
  PROVE  IInv'
<1> DEFINE in == Sequential(req, rvalid, ready)
<1>1. Edge(in, gnt) /\ booted' \in BOOLEAN
  BY DEF Fetch, IInv, TypeOK
<1>2. 0 \in Addr
  BY PrefetchAssumption DEF Addr
<1>3. GoodInputs(in, gnt)
  BY <1>2 DEF Fetch, GoodInputs, Sequential, MayAnswer, MayAccept, Obi!trans_ready_o
<1>4. LeadStep(in)
  BY DEF Fetch, LeadStep, Sequential, Redirect
<1> HIDE DEF in
<1> QED
  BY <1>1, <1>3, <1>4, CycleInv

LEMMA TakeBranchInv ==
  ASSUME IInv, NEW target \in BranchTargets, NEW rvalid \in BOOLEAN, NEW gnt \in BOOLEAN,
         TakeBranch(target, rvalid, gnt)
  PROVE  IInv'
<1> DEFINE in == Branching(target, rvalid)
<1>1. Edge(in, gnt) /\ booted' \in BOOLEAN
  BY DEF TakeBranch
<1>2. 0 \in Addr /\ target \in Addr
  BY PrefetchAssumption, TargetsAssumption DEF Addr
<1>3. GoodInputs(in, gnt)
  BY <1>2 DEF TakeBranch, GoodInputs, Branching, Sequential, MayAnswer, Obi!trans_ready_o
<1>4. LeadStep(in)
  BY DEF TakeBranch, LeadStep, Branching, Sequential, Redirect
<1> HIDE DEF in
<1> QED
  BY <1>1, <1>3, <1>4, CycleInv

LEMMA HwlpTurnInv ==
  ASSUME IInv, NEW target \in LoopStarts, NEW rvalid \in BOOLEAN, NEW ready \in BOOLEAN,
         NEW gnt \in BOOLEAN, HwlpTurn(target, rvalid, ready, gnt)
  PROVE  IInv'
<1> DEFINE in == Looping(target, rvalid, ready)
<1>1. Edge(in, gnt) /\ booted' \in BOOLEAN
  BY DEF HwlpTurn, IInv, TypeOK
<1>2. 0 \in Addr /\ target \in Addr
  BY PrefetchAssumption, TargetsAssumption DEF Addr
<1>3. GoodInputs(in, gnt)
  BY <1>2 DEF HwlpTurn, GoodInputs, Looping, Sequential, MayAnswer, MayAccept,
              Obi!trans_ready_o
<1>4. LeadStep(in)
  BY DEF HwlpTurn, LeadStep, Looping, Sequential, Redirect
<1> HIDE DEF in
<1> QED
  BY <1>1, <1>3, <1>4, CycleInv

LEMMA StutterInv == IInv /\ UNCHANGED vars => IInv'
<1> SUFFICES ASSUME IInv, UNCHANGED vars PROVE IInv'
  OBVIOUS
<1>1. ToFlush' = ToFlush
  BY DEF vars, controllerVars, ToFlush
<1> QED
  BY <1>1 DEF vars, controllerVars, IInv, TypeOK, CountInv, DelayedFlushInv,
              RoomForAnswers, LoopInv

\* The invariant of the prefetch buffer is inductive.
THEOREM InvariantHolds == Spec => []IInv
<1>1. IInv /\ [Next]_vars => IInv'
  <2> SUFFICES ASSUME IInv, [Next]_vars PROVE IInv'
    OBVIOUS
  <2>1. ASSUME NEW req \in BOOLEAN, NEW rvalid \in BOOLEAN, NEW ready \in BOOLEAN,
               NEW gnt \in BOOLEAN, Fetch(req, rvalid, ready, gnt)
        PROVE  IInv'
    BY <2>1, FetchInv
  <2>2. ASSUME NEW target \in BranchTargets, NEW rvalid \in BOOLEAN, NEW gnt \in BOOLEAN,
               TakeBranch(target, rvalid, gnt)
        PROVE  IInv'
    BY <2>2, TakeBranchInv
  <2>3. ASSUME NEW target \in LoopStarts, NEW rvalid \in BOOLEAN, NEW ready \in BOOLEAN,
               NEW gnt \in BOOLEAN, HwlpTurn(target, rvalid, ready, gnt)
        PROVE  IInv'
    BY <2>3, HwlpTurnInv
  <2>4. CASE UNCHANGED vars
    BY <2>4, StutterInv
  <2> QED
    BY <2>1, <2>2, <2>3, <2>4 DEF Next
<1> QED
  BY InitInv, <1>1, PTL DEF Spec

LEMMA InvImplies ==
  IInv => TypeOK /\ CountIsOutstanding /\ RoomForAnswers /\ NeverTooManyFlushes
          /\ HwlpEndIsRequested
<1> SUFFICES ASSUME IInv
             PROVE  TypeOK /\ CountIsOutstanding /\ RoomForAnswers /\ NeverTooManyFlushes
                    /\ HwlpEndIsRequested
  OBVIOUS
<1>1. TypeOK /\ RoomForAnswers
  BY DEF IInv
<1>2. CountIsOutstanding
  <2>1. outstanding \in Seq(Addr) /\ obi_a_q \in Addr
    BY DEF IInv, TypeOK
  <2>2. CASE obi_state_q = "REGISTERED"
    <3>1. Len(Accepted) = Len(outstanding) + 1
      BY <2>1, <2>2, AppendProperties DEF Accepted
    <3> QED
      BY <2>2, <3>1 DEF IInv, CountInv, CountIsOutstanding
  <2>3. CASE obi_state_q # "REGISTERED"
    <3>1. Len(Accepted) = Len(outstanding) /\ Len(outstanding) \in Nat
      BY <2>1, <2>3 DEF Accepted
    <3> QED
      BY <2>3, <3>1 DEF IInv, CountInv, CountIsOutstanding
  <2> QED
    BY <2>2, <2>3
<1>3. NeverTooManyFlushes
  <2>1. /\ cnt_q \in Int /\ hwlp_flush_cnt_delayed_q \in Int /\ flush_cnt_q <= cnt_q
        /\ hwlp_flush_after_resp => hwlp_flush_cnt_delayed_q < cnt_q
    BY DEF IInv, TypeOK, DelayedFlushInv
  <2> QED
    BY <2>1 DEF NeverTooManyFlushes, ToFlush
<1>4. HwlpEndIsRequested
  BY DEF IInv, LoopInv, HwlpEndIsRequested
<1> QED
  BY <1>1, <1>2, <1>3, <1>4

\* Every register of the prefetch buffer stays in its range; in particular no counter
\* of the controller passes DEPTH or goes below zero.
THEOREM TypeCorrect == Spec => []TypeOK
  BY InvariantHolds, InvImplies, PTL

\* The transaction counter of the controller is the number of transactions under way.
THEOREM CounterCorrect == Spec => []CountIsOutstanding
  BY InvariantHolds, InvImplies, PTL

\* Every wanted answer has a place in the FIFO, so the FIFO never loses one.
THEOREM AlwaysRoom == Spec => []RoomForAnswers
  BY InvariantHolds, InvImplies, PTL

\* A flush never waits for an answer that will not come.
THEOREM FlushesEnd == Spec => []NeverTooManyFlushes
  BY InvariantHolds, InvImplies, PTL

\* HWLP_END is under way whenever the loop may turn.
THEOREM LoopEndUnderWay == Spec => []HwlpEndIsRequested
  BY InvariantHolds, InvImplies, PTL

-----------------------------------------------------------------------------
(***************************************************************************)
(* The prefetch buffer hands over the stream of FetchStream: for every     *)
(* depth, every memory, all branch targets and loops, however grants,      *)
(* answers, stalls, branches and loop turns interleave.                    *)
(***************************************************************************)

\* The k-th transaction that is under way, and the k-th word that is still wanted.
AcceptedAt(k) == IF k <= Len(outstanding) THEN outstanding[k] ELSE obi_a_q

WantedAt(k) ==
    IF k <= Len(queue) THEN queue[k]
    ELSE IF hwlp_flush_after_resp /\ k = 1 THEN AcceptedAt(1)
    ELSE AcceptedAt(k - Len(queue) + ToFlush)

WantedLen == Len(queue) + cnt_q - ToFlush

\* Behind its second word the stream has no jump: one that is pending goes behind the first.
RunInv ==
    /\ \A k \in 2 .. WantedLen - 1 : WantedAt(k + 1) = Incr(WantedAt(k))
    /\ WantedLen >= 2 => ToRequest = Incr(WantedAt(WantedLen))

\* While a target waits to be requested, words are missing before the loop can turn.
TargetInv == state_q = "BRANCH_WAIT" => WantedLen <= 1 /\ lead > WantedLen

SInv == IInv /\ RunInv /\ TargetInv

-----------------------------------------------------------------------------
(* What is wanted, word by word *)

\* The numbers the words are counted with.
LEMMA Numbers ==
  ASSUME IInv
  PROVE  /\ Len(queue) \in Nat /\ cnt_q \in Nat /\ ToFlush \in Nat /\ WantedLen \in Nat
         /\ ToFlush <= cnt_q /\ DEPTH \in Nat
         /\ flush_cnt_q \in Nat /\ hwlp_flush_cnt_delayed_q \in Nat /\ lead \in Nat
         /\ queue = <<>> <=> Len(queue) = 0
         /\ hwlp_flush_after_resp =>
              /\ Len(queue) = 0 /\ flush_cnt_q = 0 /\ ToFlush = hwlp_flush_cnt_delayed_q
              /\ ToFlush < cnt_q
         /\ ~hwlp_flush_after_resp => ToFlush = flush_cnt_q
         /\ Len(queue) + cnt_q - ToFlush <= DEPTH
         /\ Len(outstanding) \in Nat
         /\ cnt_q = Len(outstanding) + (IF obi_state_q = "REGISTERED" THEN 1 ELSE 0)
<1>1. /\ Len(queue) \in Nat /\ (queue = <<>> <=> Len(queue) = 0) /\ Len(outstanding) \in Nat
      /\ cnt_q \in Nat /\ flush_cnt_q \in Nat /\ hwlp_flush_cnt_delayed_q \in Nat /\ lead \in Nat
      /\ DEPTH \in Nat /\ hwlp_flush_after_resp \in BOOLEAN
  BY EmptyLen, PrefetchAssumption DEF IInv, TypeOK
<1>2. /\ hwlp_flush_after_resp =>
           /\ Len(queue) = 0 /\ flush_cnt_q = 0 /\ ToFlush = hwlp_flush_cnt_delayed_q
           /\ ToFlush < cnt_q
      /\ ~hwlp_flush_after_resp => ToFlush = flush_cnt_q
      /\ ToFlush \in Nat /\ ToFlush <= cnt_q
  BY <1>1 DEF IInv, DelayedFlushInv, ToFlush
<1>3. Len(queue) + cnt_q - ToFlush <= DEPTH
  BY DEF IInv, RoomForAnswers
<1>4. cnt_q = Len(outstanding) + (IF obi_state_q = "REGISTERED" THEN 1 ELSE 0)
  BY DEF IInv, CountInv
<1>5. WantedLen \in Nat
  BY <1>1, <1>2 DEF WantedLen
<1> QED
  BY <1>1, <1>2, <1>3, <1>4, <1>5

LEMMA AcceptedIs ==
  IInv => /\ Accepted \in Seq(Addr) /\ Len(Accepted) = cnt_q
          /\ \A k \in 1 .. cnt_q : Accepted[k] = AcceptedAt(k) /\ AcceptedAt(k) \in Addr
<1> SUFFICES ASSUME IInv
             PROVE  /\ Accepted \in Seq(Addr) /\ Len(Accepted) = cnt_q
                    /\ \A k \in 1 .. cnt_q : Accepted[k] = AcceptedAt(k) /\ AcceptedAt(k) \in Addr
  OBVIOUS
<1>1. /\ outstanding \in Seq(Addr) /\ obi_a_q \in Addr /\ Len(outstanding) \in Nat
      /\ cnt_q = Len(outstanding) + (IF obi_state_q = "REGISTERED" THEN 1 ELSE 0)
  BY Numbers DEF IInv, TypeOK
<1>2. \A k \in 1 .. Len(outstanding) : outstanding[k] \in Addr
  BY <1>1, LenProperties
<1>3. CASE obi_state_q = "REGISTERED"
  <2>1. Accepted = Append(outstanding, obi_a_q)
    BY <1>3 DEF Accepted
  <2>2. /\ Accepted \in Seq(Addr) /\ Len(Accepted) = Len(outstanding) + 1
        /\ \A k \in 1 .. Len(outstanding) : Accepted[k] = outstanding[k]
        /\ Accepted[Len(outstanding) + 1] = obi_a_q
    BY <1>1, <2>1, AppendProperties
  <2> QED
    BY <1>1, <1>2, <1>3, <2>2 DEF AcceptedAt
<1>4. CASE obi_state_q # "REGISTERED"
  BY <1>1, <1>2, <1>4 DEF Accepted, AcceptedAt
<1> QED
  BY <1>3, <1>4

LEMMA WantedIs ==
  IInv => /\ Wanted \in Seq(Addr) /\ Len(Wanted) = WantedLen
          /\ \A k \in 1 .. WantedLen : Wanted[k] = WantedAt(k)
<1> SUFFICES ASSUME IInv
             PROVE  /\ Wanted \in Seq(Addr) /\ Len(Wanted) = WantedLen
                    /\ \A k \in 1 .. WantedLen : Wanted[k] = WantedAt(k)
  OBVIOUS
<1> DEFINE n == Len(queue)
           keep == IF hwlp_flush_after_resp THEN 1 ELSE 0
           first == SubSeq(Accepted, 1, keep)
           rest == SubSeq(Accepted, keep + ToFlush + 1, Len(Accepted))
<1>1. /\ n \in Nat /\ cnt_q \in Nat /\ ToFlush \in Nat /\ keep \in 0 .. 1
      /\ keep + ToFlush <= cnt_q /\ (keep = 1 => n = 0)
      /\ keep = 1 <=> hwlp_flush_after_resp
  BY Numbers
<1>2. /\ Len(Accepted) = cnt_q
      /\ \A k \in 1 .. cnt_q : Accepted[k] = AcceptedAt(k) /\ AcceptedAt(k) \in Addr
  BY AcceptedIs
<1>3. queue \in Seq(Addr)
  BY DEF IInv, TypeOK
<1>4. Wanted = (queue \o first) \o rest
  BY DEF Wanted
<1>5. n = Len(queue) /\ WantedLen = n + cnt_q - ToFlush
  BY DEF WantedLen
<1> HIDE DEF n, keep
<1>6. /\ first \in Seq(Addr) /\ Len(first) = keep
      /\ \A k \in 1 .. keep : first[k] = Accepted[k]
  <2>1. \A k \in 1 .. keep : Accepted[k] \in Addr
    BY <1>1, <1>2
  <2> HIDE DEF first
  <2>2. /\ first \in Seq(Addr) /\ Len(first) = IF 1 <= keep THEN keep - 1 + 1 ELSE 0
        /\ \A k \in 1 .. keep - 1 + 1 : first[k] = Accepted[1 + k - 1]
    BY <1>1, <2>1, SubSeqProperties DEF first
  <2> QED
    BY <1>1, <2>2
<1>7. /\ rest \in Seq(Addr) /\ Len(rest) = cnt_q - keep - ToFlush
      /\ \A k \in 1 .. cnt_q - keep - ToFlush : rest[k] = Accepted[keep + ToFlush + k]
  <2>1. \A k \in keep + ToFlush + 1 .. cnt_q : Accepted[k] \in Addr
    BY <1>1, <1>2
  <2>2. /\ rest \in Seq(Addr)
        /\ Len(rest) = IF keep + ToFlush + 1 <= cnt_q THEN cnt_q - (keep + ToFlush + 1) + 1 ELSE 0
        /\ \A k \in 1 .. cnt_q - (keep + ToFlush + 1) + 1 :
              rest[k] = Accepted[keep + ToFlush + 1 + k - 1]
    <3>1. keep + ToFlush + 1 \in Int /\ cnt_q \in Int
      BY <1>1
    <3> DEFINE from == keep + ToFlush + 1
    <3> HIDE DEF from
    <3>2. rest = SubSeq(Accepted, from, cnt_q)
      BY <1>2 DEF from
    <3>3. from \in Int /\ \A k \in from .. cnt_q : Accepted[k] \in Addr
      BY <2>1, <3>1 DEF from
    <3> HIDE DEF rest
    <3>4. /\ rest \in Seq(Addr)
          /\ Len(rest) = IF from <= cnt_q THEN cnt_q - from + 1 ELSE 0
          /\ \A k \in 1 .. cnt_q - from + 1 : rest[k] = Accepted[from + k - 1]
      BY <3>1, <3>2, <3>3, SubSeqProperties
    <3> QED
      BY <3>4 DEF from
  <2> HIDE DEF rest
  <2>3. Len(rest) = cnt_q - keep - ToFlush
    BY <1>1, <2>2
  <2>4. \A k \in 1 .. cnt_q - keep - ToFlush :
           k \in 1 .. cnt_q - (keep + ToFlush + 1) + 1 /\ keep + ToFlush + 1 + k - 1 = keep + ToFlush + k
    BY <1>1
  <2> QED
    BY <2>2, <2>3, <2>4
<1> HIDE DEF first, rest
<1>8. /\ queue \o first \in Seq(Addr) /\ Len(queue \o first) = n + keep
      /\ \A k \in 1 .. n + keep : (queue \o first)[k] = IF k <= n THEN queue[k] ELSE first[k - n]
  BY <1>3, <1>5, <1>6, ConcatProperties
<1> DEFINE begin == queue \o first
<1> HIDE DEF begin
<1>9. /\ begin \in Seq(Addr) /\ Len(begin) = n + keep
      /\ \A k \in 1 .. n + keep : begin[k] = IF k <= n THEN queue[k] ELSE first[k - n]
      /\ Wanted = begin \o rest
  BY <1>4, <1>8 DEF begin
<1>10. /\ Wanted \in Seq(Addr) /\ Len(Wanted) = n + keep + (cnt_q - keep - ToFlush)
       /\ \A k \in 1 .. n + keep + (cnt_q - keep - ToFlush) :
             Wanted[k] = IF k <= n + keep THEN begin[k] ELSE rest[k - (n + keep)]
  BY <1>7, <1>9, ConcatProperties
<1>11. Len(Wanted) = WantedLen
  BY <1>1, <1>5, <1>10
<1>12. ASSUME NEW k \in 1 .. WantedLen PROVE Wanted[k] = WantedAt(k)
  <2>1. CASE k <= n
    BY <1>1, <1>5, <1>9, <1>10, <2>1 DEF WantedAt
  <2>2. CASE k > n /\ k <= n + keep
    <3>1. k = 1 /\ n = 0 /\ keep = 1 /\ hwlp_flush_after_resp
      BY <1>1, <2>2
    <3>2. Wanted[k] = first[1] /\ first[1] = Accepted[1]
      BY <1>1, <1>6, <1>9, <1>10, <3>1, <1>5
    <3> QED
      BY <1>1, <1>2, <1>5, <3>1, <3>2 DEF WantedAt
  <2>3. CASE k > n + keep
    <3>1. Wanted[k] = rest[k - (n + keep)] /\ k - (n + keep) \in 1 .. cnt_q - keep - ToFlush
      BY <1>1, <1>5, <1>10, <2>3
    <3>2. Wanted[k] = Accepted[keep + ToFlush + (k - (n + keep))]
      BY <1>7, <3>1
    <3>3. keep + ToFlush + (k - (n + keep)) = k - n + ToFlush /\ k - n + ToFlush \in 1 .. cnt_q
      BY <1>1, <1>5, <2>3
    <3>4. ~(hwlp_flush_after_resp /\ k = 1)
      BY <1>1, <2>3
    <3> QED
      BY <1>1, <1>2, <1>5, <2>3, <3>2, <3>3, <3>4 DEF WantedAt
  <2> QED
    BY <1>1, <1>5, <2>1, <2>2, <2>3
<1> QED
  BY <1>10, <1>11, <1>12

\* The two words of the stream, in terms of the words that are wanted.
LEMMA NextAndAfter ==
  IInv => /\ NextWanted = IF WantedLen > 0 THEN WantedAt(1) ELSE ToRequest
          /\ WantedLen = 0 => AfterWanted = Incr(ToRequest)
          /\ WantedLen = 1 => AfterWanted = ToRequest
          /\ WantedLen > 1 => AfterWanted = WantedAt(2)
<1> SUFFICES ASSUME IInv
             PROVE  /\ NextWanted = IF WantedLen > 0 THEN WantedAt(1) ELSE ToRequest
                    /\ WantedLen = 0 => AfterWanted = Incr(ToRequest)
                    /\ WantedLen = 1 => AfterWanted = ToRequest
                    /\ WantedLen > 1 => AfterWanted = WantedAt(2)
  OBVIOUS
<1>1. WantedLen \in Nat /\ Len(Wanted) = WantedLen
      /\ \A k \in 1 .. WantedLen : Wanted[k] = WantedAt(k)
  BY Numbers, WantedIs
<1> QED
  BY <1>1 DEF NextWanted, AfterWanted
-----------------------------------------------------------------------------
(* One cycle, word by word *)

\* A transaction is accepted, an answer comes, a word is taken.
Up(in)   == IF count_up(in) THEN 1 ELSE 0
Ans(in)  == IF in.resp_valid_i THEN 1 ELSE 0
Took(in) == IF in.fetch_ready_i THEN 1 ELSE 0

\* The transactions under way: the oldest leaves, the new one comes last.
LEMMA AcceptedStep ==
  ASSUME IInv, NEW in, NEW gnt, GoodInputs(in, gnt), Edge(in, gnt)
  PROVE  /\ cnt_q' = cnt_q + Up(in) - Ans(in) /\ cnt_q - Ans(in) \in Nat
         /\ \A k \in 1 .. cnt_q - Ans(in) : AcceptedAt(k)' = AcceptedAt(k + Ans(in))
         /\ Up(in) = 1 => AcceptedAt(cnt_q)' = trans_addr_o(in)
         /\ in.resp_valid_i => Head(outstanding) = AcceptedAt(1)
<1> DEFINE rest == IF in.resp_valid_i THEN Tail(outstanding) ELSE outstanding
           addr == trans_addr_o(in)
           valid == trans_valid_o(in)
<1>1. /\ outstanding \in Seq(Addr) /\ obi_a_q \in Addr /\ Len(outstanding) \in Nat
      /\ obi_state_q \in {"TRANSPARENT", "REGISTERED"}
      /\ cnt_q = Len(outstanding) + (IF obi_state_q = "REGISTERED" THEN 1 ELSE 0)
  BY Numbers DEF IInv, TypeOK
<1>2. Ans(in) \in 0 .. 1 /\ Up(in) \in 0 .. 1 /\ (Ans(in) = 1 <=> in.resp_valid_i)
      /\ (Ans(in) = 1 => outstanding # <<>> /\ Len(outstanding) > 0)
  BY <1>1, EmptyLen DEF Ans, Up, GoodInputs
<1>3. /\ rest \in Seq(Addr) /\ Len(rest) = Len(outstanding) - Ans(in)
      /\ \A k \in 1 .. Len(rest) : rest[k] = outstanding[k + Ans(in)]
  <2>1. CASE in.resp_valid_i
    BY <1>1, <1>2, <2>1, HeadTailProperties DEF Ans
  <2>2. CASE ~in.resp_valid_i
    BY <1>1, <1>2, <2>2 DEF Ans
  <2> QED
    BY <2>1, <2>2
<1>4. cnt_q' = cnt_q + Up(in) - Ans(in)
  BY CycleFacts DEF Up, Ans
<1>5. Up(in) = 1 <=> valid /\ obi_state_q = "TRANSPARENT"
  <2>1. count_up(in) <=> valid /\ obi_state_q = "TRANSPARENT"
    BY DEF count_up, GoodInputs
  <2> QED
    BY <2>1 DEF Up
<1>6. in.resp_valid_i => Head(outstanding) = AcceptedAt(1)
  BY <1>1, <1>2 DEF AcceptedAt
<1>7. outstanding' = IF Obi!obi_req_o(valid) /\ gnt THEN Append(rest, Obi!obi_a_o(addr)) ELSE rest
  BY DEF Edge, MemoryEdge
<1>8. Obi!ObiEdge(valid, addr, gnt)
  BY DEF Edge
<1>9. addr \in Addr
  <2>1. Incr(trans_addr_q) \in Addr /\ trans_addr_q \in Addr /\ state_q \in {"IDLE", "BRANCH_WAIT"}
    BY PrefetchAssumption DEF Addr, Incr, IInv, TypeOK
  <2> QED
    BY <2>1 DEF trans_addr_o, GoodInputs
<1> HIDE DEF rest, addr, valid
<1>10. CASE obi_state_q = "REGISTERED"
  <2>1. Up(in) = 0 /\ cnt_q = Len(outstanding) + 1
    BY <1>1, <1>2, <1>5, <1>10
  <2>2. obi_a_q' = obi_a_q
    BY <1>8, <1>10 DEF Obi!ObiEdge, Obi!Register, Obi!Release, Obi!ObiHold, Obi!obiVars
  <2>3. \A k \in 1 .. Len(rest) : outstanding'[k] = rest[k]
    <3>1. CASE gnt
      BY <1>1, <1>3, <1>7, <1>10, <3>1, AppendProperties DEF Obi!obi_req_o, Obi!obi_a_o
    <3>2. CASE ~gnt
      BY <1>7, <3>2
    <3> QED
      BY <3>1, <3>2
  <2>4. Len(outstanding') = Len(rest) \/ (Len(outstanding') = Len(rest) + 1
                                         /\ outstanding'[Len(rest) + 1] = obi_a_q)
    <3>1. CASE gnt
      BY <1>1, <1>3, <1>7, <1>10, <3>1, AppendProperties DEF Obi!obi_req_o, Obi!obi_a_o
    <3>2. CASE ~gnt
      BY <1>7, <3>2
    <3> QED
      BY <3>1, <3>2
  <2>5. ASSUME NEW k \in 1 .. cnt_q - Ans(in) PROVE AcceptedAt(k)' = AcceptedAt(k + Ans(in))
    <3>1. CASE k <= Len(rest)
      BY <1>1, <1>2, <1>3, <2>1, <2>3, <2>4, <3>1 DEF AcceptedAt
    <3>2. CASE k = Len(rest) + 1
      BY <1>1, <1>2, <1>3, <2>1, <2>2, <2>4, <3>2 DEF AcceptedAt
    <3> QED
      BY <1>1, <1>2, <1>3, <2>1, <3>1, <3>2
  <2> QED
    BY <1>1, <1>2, <1>4, <1>6, <2>1, <2>5
<1>11. CASE obi_state_q = "TRANSPARENT"
  <2>1. cnt_q = Len(outstanding) /\ Len(rest) = cnt_q - Ans(in) /\ (Up(in) = 1 <=> valid)
    BY <1>1, <1>3, <1>5, <1>11
  <2>2. CASE valid /\ gnt
    <3>1. outstanding' = Append(rest, addr)
      BY <1>7, <1>11, <2>2 DEF Obi!obi_req_o, Obi!obi_a_o
    <3>2. /\ Len(outstanding') = Len(rest) + 1 /\ outstanding'[Len(rest) + 1] = addr
          /\ \A k \in 1 .. Len(rest) : outstanding'[k] = rest[k]
      BY <1>3, <1>9, <3>1, AppendProperties
    <3>3. Up(in) = 1 /\ cnt_q' = Len(rest) + 1
      BY <1>1, <1>2, <1>4, <2>1, <2>2
    <3>4. AcceptedAt(cnt_q)' = addr
      BY <1>1, <1>2, <1>3, <3>2, <3>3 DEF AcceptedAt
    <3>5. \A k \in 1 .. cnt_q - Ans(in) : AcceptedAt(k)' = AcceptedAt(k + Ans(in))
      BY <1>1, <1>2, <1>3, <2>1, <3>2 DEF AcceptedAt
    <3> QED
      BY <1>1, <1>2, <1>4, <1>6, <3>4, <3>5 DEF addr
  <2>3. CASE ~(valid /\ gnt)
    <3>1. outstanding' = rest
      BY <1>7, <1>11, <2>3 DEF Obi!obi_req_o
    <3>2. \A k \in 1 .. cnt_q - Ans(in) : AcceptedAt(k)' = AcceptedAt(k + Ans(in))
      BY <1>1, <1>2, <1>3, <2>1, <3>1 DEF AcceptedAt
    <3>3. Up(in) = 1 => AcceptedAt(cnt_q)' = addr
      <4> SUFFICES ASSUME Up(in) = 1 PROVE AcceptedAt(cnt_q)' = addr
        OBVIOUS
      <4>1. obi_a_q' = addr
        BY <1>8, <1>11, <2>1, <2>3 DEF Obi!ObiEdge, Obi!Register, Obi!Release, Obi!ObiHold
      <4>2. cnt_q' = Len(rest) + 1
        BY <1>1, <1>2, <1>4, <2>1
      <4> QED
        BY <1>1, <1>2, <1>3, <3>1, <4>1, <4>2 DEF AcceptedAt
    <3> QED
      BY <1>1, <1>2, <1>4, <1>6, <3>2, <3>3 DEF addr
  <2> QED
    BY <2>2, <2>3
<1> QED
  BY <1>1, <1>10, <1>11

\* The FIFO: what is popped leaves from the front, the answer goes to the back.
LEMMA QueueWords ==
  ASSUME IInv, NEW in, NEW gnt, GoodInputs(in, gnt), Edge(in, gnt)
  PROVE  /\ ~Redirect(in) /\ ~(in.fetch_ready_i /\ queue # <<>>) =>
              \A k \in 1 .. Len(queue) : queue'[k] = queue[k]
         /\ ~Redirect(in) /\ in.fetch_ready_i /\ queue # <<>> =>
              \A k \in 1 .. Len(queue) - 1 : queue'[k] = queue[k + 1]
         /\ ~Redirect(in) /\ fifo_push_o(in) /\ Len(queue) # DEPTH =>
              queue'[Len(queue')] = Head(outstanding)
         /\ in.hwlp_jump_i /\ queue # <<>> /\ ~in.fetch_ready_i => queue'[1] = queue[1]
         /\ in.hwlp_jump_i /\ queue = <<>> /\ fifo_push_o(in) => queue'[1] = Head(outstanding)
<1>1. Fifo!QueueEdge(fifo_flush_o(in), fifo_flush_but_first_o(in),
                     fifo_push_o(in), Head(outstanding), fifo_pop_o(in))
  BY DEF Edge
<1>2. /\ queue \in Seq(Addr) /\ (queue = <<>> <=> Len(queue) = 0) /\ Len(queue) \in Nat
      /\ DEPTH \in Nat /\ DEPTH > 1 /\ fifo_empty(in) = (queue = <<>>)
  BY EmptyLen, PrefetchAssumption DEF IInv, TypeOK, GoodInputs, fifo_empty
<1>3. fifo_pop_o(in) <=> in.fetch_ready_i /\ queue # <<>>
  BY <1>2 DEF fifo_pop_o, GoodInputs
<1>4. fifo_push_o(in) => Head(outstanding) \in Addr
  BY HeadTailProperties DEF fifo_push_o, GoodInputs, IInv, TypeOK
<1>5. ASSUME ~fifo_flush_o(in), ~fifo_flush_but_first_o(in)
      PROVE  /\ ~(in.fetch_ready_i /\ queue # <<>>) =>
                  \A k \in 1 .. Len(queue) : queue'[k] = queue[k]
             /\ in.fetch_ready_i /\ queue # <<>> =>
                  \A k \in 1 .. Len(queue) - 1 : queue'[k] = queue[k + 1]
             /\ fifo_push_o(in) /\ Len(queue) # DEPTH => queue'[Len(queue')] = Head(outstanding)
             /\ queue = <<>> /\ fifo_push_o(in) => queue'[1] = Head(outstanding)
  <2> DEFINE rest == IF fifo_pop_o(in) /\ queue # <<>> THEN Tail(queue) ELSE queue
             pop == IF fifo_pop_o(in) THEN 1 ELSE 0
  <2>1. queue' = IF fifo_push_o(in) /\ Len(queue) # DEPTH
                 THEN Append(rest, Head(outstanding)) ELSE rest
    BY <1>1, <1>5 DEF Fifo!QueueEdge, Fifo!QueueAfter, Fifo!Moved, Fifo!QueueFull
  <2>2. /\ rest \in Seq(Addr) /\ Len(rest) = Len(queue) - pop
        /\ \A k \in 1 .. Len(queue) - pop : rest[k] = queue[k + pop]
    <3>1. CASE fifo_pop_o(in)
      BY <1>2, <1>3, <3>1, HeadTailProperties
    <3>2. CASE ~fifo_pop_o(in)
      BY <1>2, <3>2
    <3> QED
      BY <3>1, <3>2
  <2>3. pop \in 0 .. 1 /\ (pop = 1 <=> in.fetch_ready_i /\ queue # <<>>)
    BY <1>3
  <2> HIDE DEF rest, pop
  <2>4. CASE fifo_push_o(in) /\ Len(queue) # DEPTH
    <3>1. queue' = Append(rest, Head(outstanding)) /\ Head(outstanding) \in Addr
      BY <1>4, <2>1, <2>4
    <3>2. /\ Len(queue') = Len(rest) + 1 /\ queue'[Len(rest) + 1] = Head(outstanding)
          /\ \A k \in 1 .. Len(rest) : queue'[k] = rest[k]
      BY <2>2, <3>1, AppendProperties
    <3>3. \A k \in 1 .. Len(queue) - pop : queue'[k] = queue[k + pop]
      BY <2>2, <3>2
    <3>4. queue = <<>> => Len(rest) = 0
      BY <1>2, <2>2, <2>3
    <3> QED
      BY <1>2, <2>3, <3>2, <3>3, <3>4
  <2>5. CASE ~(fifo_push_o(in) /\ Len(queue) # DEPTH)
    <3>1. \A k \in 1 .. Len(queue) - pop : queue'[k] = queue[k + pop]
      BY <2>1, <2>2, <2>5
    <3> QED
      BY <1>2, <2>3, <2>5, <3>1
  <2> QED
    BY <2>4, <2>5
<1>6. ~Redirect(in) => ~fifo_flush_o(in) /\ ~fifo_flush_but_first_o(in)
  BY DEF Redirect, fifo_flush_o, fifo_flush_but_first_o
<1>7. in.hwlp_jump_i /\ queue = <<>> => ~fifo_flush_o(in) /\ ~fifo_flush_but_first_o(in)
  BY <1>2 DEF fifo_flush_o, fifo_flush_but_first_o, GoodInputs
<1>8. ASSUME in.hwlp_jump_i, queue # <<>>, ~in.fetch_ready_i PROVE queue'[1] = queue[1]
  <2>1. ~fifo_flush_o(in) /\ fifo_flush_but_first_o(in)
    BY <1>2, <1>3, <1>8 DEF fifo_flush_o, fifo_flush_but_first_o, GoodInputs
  <2>2. queue' = <<Head(queue)>>
    BY <1>1, <1>8, <2>1 DEF Fifo!QueueEdge, Fifo!QueueAfter, Fifo!First
  <2> QED
    BY <1>2, <1>8, <2>2
<1> QED
  BY <1>5, <1>6, <1>7, <1>8

\* What the inputs of a cycle and the room in the FIFO say about each other.
LEMMA CycleNumbers ==
  ASSUME IInv, NEW in, NEW gnt, GoodInputs(in, gnt), Edge(in, gnt)
  PROVE  /\ Up(in) \in 0 .. 1 /\ Ans(in) \in 0 .. 1 /\ Took(in) \in 0 .. 1
         /\ Up(in) = 1 <=> count_up(in)
         /\ Ans(in) = 1 <=> in.resp_valid_i
         /\ Took(in) = 1 <=> in.fetch_ready_i
         /\ Took(in) = 1 => flush_cnt_q = 0 /\ ~in.branch_i /\ (Len(queue) > 0 \/ Ans(in) = 1)
         /\ Ans(in) = 1 => cnt_q > 0
         /\ Ans(in) = 1 /\ flush_cnt_q = 0 => Len(queue) # DEPTH
         /\ fetched' = IF Took(in) = 0 THEN fetched
                       ELSE IF Len(queue) > 0 THEN queue[1] ELSE AcceptedAt(1)
         /\ ~in.branch_i =>
              (fifo_push_o(in) <=> Ans(in) = 1 /\ flush_cnt_q = 0 /\ (Len(queue) > 0 \/ Took(in) = 0))
<1>1. /\ Up(in) \in 0 .. 1 /\ Ans(in) \in 0 .. 1 /\ Took(in) \in 0 .. 1
      /\ Up(in) = 1 <=> count_up(in)
      /\ Ans(in) = 1 <=> in.resp_valid_i
      /\ Took(in) = 1 <=> in.fetch_ready_i
  BY DEF Up, Ans, Took
<1>2. /\ Len(queue) \in Nat /\ flush_cnt_q \in Nat /\ queue \in Seq(Addr)
      /\ (queue = <<>> <=> Len(queue) = 0) /\ (fifo_empty(in) <=> Len(queue) = 0)
  BY Numbers DEF fifo_empty, GoodInputs, IInv, TypeOK
<1>3. Took(in) = 1 => flush_cnt_q = 0 /\ ~in.branch_i /\ (Len(queue) > 0 \/ Ans(in) = 1)
  BY <1>1, <1>2 DEF GoodInputs, fetch_valid_o, Discarding
<1>4. Ans(in) = 1 => cnt_q > 0 /\ Head(outstanding) = AcceptedAt(1)
  BY <1>1, CycleFacts, AcceptedStep
<1>5. Ans(in) = 1 /\ flush_cnt_q = 0 => Len(queue) # DEPTH
  BY <1>4, Numbers, PrefetchAssumption
<1>6. fetched' = IF Took(in) = 0 THEN fetched
                 ELSE IF Len(queue) > 0 THEN queue[1] ELSE AcceptedAt(1)
  <2>1. fetched' = IF in.fetch_ready_i THEN fetch_rdata_o(Head(outstanding)) ELSE fetched
    BY DEF Edge
  <2>2. CASE Took(in) = 1 /\ Len(queue) > 0
    BY <1>1, <1>2, <2>1, <2>2 DEF fetch_rdata_o
  <2>3. CASE Took(in) = 1 /\ Len(queue) = 0
    BY <1>1, <1>2, <1>3, <1>4, <2>1, <2>3 DEF fetch_rdata_o
  <2>4. CASE Took(in) = 0
    BY <1>1, <2>1, <2>4
  <2> QED
    BY <1>1, <1>2, <2>2, <2>3, <2>4
<1>7. ~in.branch_i =>
        (fifo_push_o(in) <=> Ans(in) = 1 /\ flush_cnt_q = 0 /\ (Len(queue) > 0 \/ Took(in) = 0))
  BY <1>1, <1>2 DEF fifo_push_o, Discarding
<1> QED
  BY <1>1, <1>3, <1>4, <1>5, <1>6, <1>7

\* Without a jump, the first of the wanted words leaves when it is taken, and the one that
\* is requested comes last.
LEMMA SequentialWords ==
  ASSUME IInv, NEW in, NEW gnt, GoodInputs(in, gnt), Edge(in, gnt), ~Redirect(in)
  PROVE  /\ WantedLen' = WantedLen - Took(in) + Up(in)
         /\ Took(in) = 1 => WantedLen >= 1 /\ fetched' = WantedAt(1)
         /\ Took(in) = 0 => fetched' = fetched
         /\ \A k \in 1 .. WantedLen - Took(in) : WantedAt(k)' = WantedAt(k + Took(in))
         /\ Up(in) = 1 => WantedAt(WantedLen)' = ToRequest
         /\ ToRequest' = IF Up(in) = 1 THEN Incr(ToRequest) ELSE ToRequest
         /\ state_q' = IF Up(in) = 1 THEN "IDLE" ELSE state_q
<1> DEFINE n == Len(queue)
           up == Up(in)
           ans == Ans(in)
           took == Took(in)
<1>1. /\ n \in Nat /\ cnt_q \in Nat /\ ToFlush \in Nat /\ ToFlush <= cnt_q /\ WantedLen \in Nat
      /\ flush_cnt_q \in Nat
      /\ hwlp_flush_after_resp => n = 0 /\ flush_cnt_q = 0 /\ ToFlush < cnt_q
                                  /\ ToFlush = hwlp_flush_cnt_delayed_q
      /\ ~hwlp_flush_after_resp => ToFlush = flush_cnt_q
      /\ queue = <<>> <=> n = 0
  BY Numbers
<1>2. /\ up \in 0 .. 1 /\ ans \in 0 .. 1 /\ took \in 0 .. 1
      /\ (up = 1 <=> count_up(in)) /\ (ans = 1 <=> in.resp_valid_i)
      /\ (took = 1 <=> in.fetch_ready_i)
      /\ took = 1 => flush_cnt_q = 0 /\ (n > 0 \/ ans = 1)
      /\ ans = 1 => cnt_q > 0
      /\ ans = 1 /\ flush_cnt_q = 0 => n # DEPTH
      /\ fetched' = IF took = 0 THEN fetched ELSE IF n > 0 THEN queue[1] ELSE AcceptedAt(1)
  BY CycleNumbers
<1>3. ~in.branch_i /\ ~in.hwlp_jump_i
  BY DEF Redirect
<1>4. fifo_push_o(in) <=> ans = 1 /\ flush_cnt_q = 0 /\ (n > 0 \/ took = 0)
  BY <1>3, CycleNumbers
<1>5. /\ cnt_q' = cnt_q + up - ans
      /\ \A k \in 1 .. cnt_q - ans : AcceptedAt(k)' = AcceptedAt(k + ans)
      /\ up = 1 => AcceptedAt(cnt_q)' = trans_addr_o(in)
      /\ ans = 1 => Head(outstanding) = AcceptedAt(1)
  BY <1>2, AcceptedStep
<1>6. /\ hwlp_flush_after_resp' <=> hwlp_flush_after_resp /\ ~in.resp_valid_i
      /\ hwlp_flush_cnt_delayed_q' = IF hwlp_flush_after_resp /\ in.resp_valid_i
                                     THEN 0 ELSE hwlp_flush_cnt_delayed_q
      /\ flush_cnt_q' = IF hwlp_flush_after_resp /\ in.resp_valid_i
                        THEN hwlp_flush_cnt_delayed_q
                        ELSE IF in.resp_valid_i /\ flush_cnt_q > 0
                        THEN flush_cnt_q - 1 ELSE flush_cnt_q
  <2>1. /\ flush_cnt_q' = next_flush_cnt(in)
        /\ hwlp_flush_after_resp' = next_flush_after_resp(in)
        /\ hwlp_flush_cnt_delayed_q' = next_flush_cnt_delayed(in)
    BY DEF Edge, ControllerEdge
  <2> QED
    BY <1>3, <2>1
       DEF next_flush_cnt, next_flush_after_resp, next_flush_cnt_delayed,
           hwlp_wait_resp_flush, hwlp_flush_resp, hwlp_flush_resp_delayed
<1>7. Len(queue') = n - (IF in.fetch_ready_i /\ queue # <<>> THEN 1 ELSE 0)
                      + (IF fifo_push_o(in) /\ n # DEPTH THEN 1 ELSE 0)
  BY QueueFacts
<1>8. /\ ~(in.fetch_ready_i /\ queue # <<>>) => \A k \in 1 .. n : queue'[k] = queue[k]
      /\ in.fetch_ready_i /\ queue # <<>> => \A k \in 1 .. n - 1 : queue'[k] = queue[k + 1]
      /\ fifo_push_o(in) /\ n # DEPTH => queue'[Len(queue')] = Head(outstanding)
  BY QueueWords
<1>9. /\ trans_addr_o(in) = ToRequest
      /\ ToRequest' = IF up = 1 THEN Incr(ToRequest) ELSE ToRequest
      /\ state_q' = IF up = 1 THEN "IDLE" ELSE state_q
  <2>1. state_q \in {"IDLE", "BRANCH_WAIT"}
    BY DEF IInv, TypeOK
  <2>2. trans_addr_o(in) = ToRequest
    BY <1>3, <2>1 DEF trans_addr_o, ToRequest
  <2>3. state_q' = IF count_up(in) THEN "IDLE" ELSE state_q
    BY DEF Edge, ControllerEdge, next_state
  <2>4. trans_addr_q' = IF count_up(in) THEN trans_addr_o(in) ELSE trans_addr_q
    BY DEF Edge, ControllerEdge
  <2>5. CASE count_up(in)
    BY <1>2, <2>2, <2>3, <2>4, <2>5 DEF ToRequest
  <2>6. CASE ~count_up(in)
    BY <1>2, <2>2, <2>3, <2>4, <2>6 DEF ToRequest
  <2> QED
    BY <2>2, <2>3, <2>5, <2>6, <1>2
<1> DEFINE Words == /\ WantedLen' = WantedLen - took + up
                    /\ took = 1 => WantedLen >= 1 /\ fetched' = WantedAt(1)
                    /\ \A k \in 1 .. WantedLen - took : WantedAt(k)' = WantedAt(k + took)
                    /\ up = 1 => WantedAt(WantedLen)' = trans_addr_o(in)
<1>n. n = Len(queue)
  OBVIOUS
<1> HIDE DEF n, up, ans, took
<1>10. ASSUME hwlp_flush_after_resp /\ ans = 1 PROVE Words
  <2>1. /\ n = 0 /\ ToFlush = hwlp_flush_cnt_delayed_q /\ ToFlush < cnt_q /\ n # DEPTH
        /\ ~hwlp_flush_after_resp' /\ ToFlush' = ToFlush
    BY <1>1, <1>2, <1>6, <1>10 DEF ToFlush
  <2>2. /\ Len(queue') = 1 - took
        /\ took = 0 => queue'[1] = AcceptedAt(1)
    BY <1>1, <1>2, <1>4, <1>5, <1>7, <1>8, <1>10, <2>1
  <2>3. WantedLen = cnt_q - ToFlush /\ WantedLen' = WantedLen - took + up
    BY <1>1, <1>2, <1>5, <1>10, <1>n, <2>1, <2>2 DEF WantedLen
  <2>4. took = 1 => WantedLen >= 1 /\ fetched' = WantedAt(1)
    BY <1>1, <1>2, <1>10, <1>n, <2>1, <2>3 DEF WantedAt
  <2>5. ASSUME NEW k \in 1 .. WantedLen - took PROVE WantedAt(k)' = WantedAt(k + took)
    <3>1. CASE took = 0 /\ k = 1
      BY <1>1, <1>10, <1>n, <2>1, <2>2, <3>1 DEF WantedAt
    <3>2. CASE took = 0 /\ k > 1
      <4>1. WantedAt(k)' = AcceptedAt(k - 1 + ToFlush)'
        BY <1>1, <2>1, <2>2, <3>2 DEF WantedAt
      <4>2. k - 1 + ToFlush \in 1 .. cnt_q - 1
        BY <1>1, <2>1, <2>3, <3>2
      <4>3. AcceptedAt(k - 1 + ToFlush)' = AcceptedAt(k + ToFlush)
        BY <1>1, <1>5, <1>10, <2>1, <4>2
      <4> QED
        BY <1>1, <1>n, <2>1, <3>2, <4>1, <4>3 DEF WantedAt
    <3>3. CASE took = 1
      <4>1. WantedAt(k)' = AcceptedAt(k + ToFlush)'
        BY <1>1, <2>1, <2>2, <3>3 DEF WantedAt
      <4>2. k + ToFlush \in 1 .. cnt_q - 1
        BY <1>1, <2>1, <2>3, <3>3
      <4>3. AcceptedAt(k + ToFlush)' = AcceptedAt(k + ToFlush + 1)
        BY <1>1, <1>5, <1>10, <2>1, <4>2
      <4> QED
        BY <1>1, <1>n, <2>1, <3>3, <4>1, <4>3 DEF WantedAt
    <3> QED
      BY <1>2, <3>1, <3>2, <3>3
  <2>6. up = 1 => WantedAt(WantedLen)' = trans_addr_o(in)
    <3> SUFFICES ASSUME up = 1 PROVE WantedAt(WantedLen)' = trans_addr_o(in)
      OBVIOUS
    <3>1. WantedLen' > Len(queue') /\ WantedLen' - Len(queue') + ToFlush' = cnt_q'
      BY <1>1, <1>2, <1>5, <1>10, <2>1, <2>2, <2>3
    <3>2. WantedAt(WantedLen)' = AcceptedAt(cnt_q)'
      BY <1>1, <1>2, <2>1, <2>2, <2>3, <3>1 DEF WantedAt
    <3> QED
      BY <1>5, <3>2
  <2> QED
    BY <2>3, <2>4, <2>5, <2>6
<1>11. ASSUME hwlp_flush_after_resp /\ ans = 0 PROVE Words
  <2>1. /\ n = 0 /\ ToFlush = hwlp_flush_cnt_delayed_q /\ ToFlush < cnt_q /\ took = 0
        /\ hwlp_flush_after_resp' /\ ToFlush' = ToFlush
    BY <1>1, <1>2, <1>6, <1>11 DEF ToFlush
  <2>2. Len(queue') = 0
    BY <1>1, <1>2, <1>4, <1>7, <1>11, <2>1
  <2>3. WantedLen = cnt_q - ToFlush /\ WantedLen' = WantedLen - took + up
    BY <1>1, <1>2, <1>5, <1>11, <1>n, <2>1, <2>2 DEF WantedLen
  <2>4. ASSUME NEW k \in 1 .. WantedLen - took PROVE WantedAt(k)' = WantedAt(k + took)
    <3>1. CASE k = 1
      <4>1. AcceptedAt(1)' = AcceptedAt(1 + 0)
        BY <1>1, <1>5, <1>11, <2>1
      <4> QED
        BY <1>1, <1>n, <1>11, <2>1, <2>2, <3>1, <4>1 DEF WantedAt
    <3>2. CASE k > 1
      <4>1. WantedAt(k)' = AcceptedAt(k + ToFlush)'
        BY <1>1, <2>1, <2>2, <3>2 DEF WantedAt
      <4>2. k + ToFlush \in 1 .. cnt_q
        BY <1>1, <2>1, <2>3, <3>2
      <4>3. AcceptedAt(k + ToFlush)' = AcceptedAt(k + ToFlush)
        BY <1>1, <1>5, <1>11, <2>1, <4>2
      <4> QED
        BY <1>1, <1>n, <2>1, <3>2, <4>1, <4>3 DEF WantedAt
    <3> QED
      BY <3>1, <3>2
  <2>5. up = 1 => WantedAt(WantedLen)' = trans_addr_o(in)
    <3> SUFFICES ASSUME up = 1 PROVE WantedAt(WantedLen)' = trans_addr_o(in)
      OBVIOUS
    <3>1. WantedLen' > 1 /\ WantedLen' - Len(queue') + ToFlush' = cnt_q'
      BY <1>1, <1>2, <1>5, <1>11, <2>1, <2>2, <2>3
    <3>2. WantedAt(WantedLen)' = AcceptedAt(cnt_q)'
      BY <1>1, <1>2, <2>1, <2>2, <2>3, <3>1 DEF WantedAt
    <3> QED
      BY <1>5, <3>2
  <2> QED
    BY <2>1, <2>3, <2>4, <2>5
<1>12. ASSUME ~hwlp_flush_after_resp /\ flush_cnt_q > 0 PROVE Words
  <2>1. took = 0 /\ ToFlush' = ToFlush - ans /\ ToFlush = flush_cnt_q /\ ~hwlp_flush_after_resp'
    BY <1>1, <1>2, <1>6, <1>12 DEF ToFlush
  <2>2. Len(queue') = n /\ \A k \in 1 .. n : queue'[k] = queue[k]
    BY <1>1, <1>2, <1>4, <1>7, <1>8, <2>1, <1>12
  <2>3. WantedLen = n + cnt_q - ToFlush /\ WantedLen' = WantedLen - took + up
    BY <1>1, <1>2, <1>5, <1>n, <2>1, <2>2 DEF WantedLen
  <2>4. ASSUME NEW k \in 1 .. WantedLen - took PROVE WantedAt(k)' = WantedAt(k + took)
    <3>1. CASE k <= n
      BY <1>1, <1>n, <2>1, <2>2, <3>1 DEF WantedAt
    <3>2. CASE k > n
      <4>1. PICK j \in 1 .. cnt_q - ans : j = k - n + ToFlush - ans
        <5>1. k - n + ToFlush - ans \in 1 .. cnt_q - ans
          BY <1>1, <1>2, <1>12, <2>1, <2>3, <3>2
        <5> QED
          BY <5>1
      <4>2. WantedAt(k)' = AcceptedAt(j)'
        BY <1>1, <1>2, <2>1, <2>2, <3>2, <4>1 DEF WantedAt
      <4>3. AcceptedAt(j)' = AcceptedAt(j + ans) /\ j + ans = k - n + ToFlush
        BY <1>1, <1>2, <1>5, <4>1
      <4> QED
        BY <1>1, <1>12, <1>n, <2>1, <3>2, <4>2, <4>3 DEF WantedAt
    <3> QED
      BY <1>1, <3>1, <3>2
  <2>5. up = 1 => WantedAt(WantedLen)' = trans_addr_o(in)
    <3> SUFFICES ASSUME up = 1 PROVE WantedAt(WantedLen)' = trans_addr_o(in)
      OBVIOUS
    <3>1. WantedLen' > Len(queue') /\ WantedLen' - Len(queue') + ToFlush' = cnt_q'
      BY <1>1, <1>2, <1>5, <2>1, <2>2, <2>3
    <3>2. WantedAt(WantedLen)' = AcceptedAt(cnt_q)'
      BY <1>1, <1>2, <2>1, <2>2, <2>3, <3>1 DEF WantedAt
    <3> QED
      BY <1>5, <3>2
  <2> QED
    BY <2>1, <2>3, <2>4, <2>5
<1>13. ASSUME ~hwlp_flush_after_resp /\ flush_cnt_q = 0 PROVE Words
  <2>1. ToFlush' = 0 /\ ToFlush = 0 /\ ~hwlp_flush_after_resp'
    BY <1>1, <1>6, <1>13 DEF ToFlush
  <2>2. Len(queue') = n + ans - took
    <3>1. CASE took = 1
      BY <1>1, <1>2, <1>4, <1>7, <1>13, <3>1
    <3>2. CASE took = 0
      BY <1>1, <1>2, <1>4, <1>7, <1>13, <3>2
    <3> QED
      BY <1>2, <3>1, <3>2
  <2>3. /\ \A k \in 1 .. n - took : queue'[k] = queue[k + took]
        /\ ans = 1 /\ n + ans - took > 0 => queue'[n + ans - took] = AcceptedAt(1)
    <3>1. \A k \in 1 .. n - took : queue'[k] = queue[k + took]
      <4>1. CASE took = 1 /\ n > 0
        BY <1>1, <1>2, <1>8, <4>1
      <4>2. CASE took = 0
        BY <1>1, <1>2, <1>8, <4>2
      <4>3. CASE took = 1 /\ n = 0
        BY <1>1, <4>3
      <4> QED
        BY <1>1, <1>2, <4>1, <4>2, <4>3
    <3>2. ans = 1 /\ n + ans - took > 0 => queue'[n + ans - took] = AcceptedAt(1)
      BY <1>1, <1>2, <1>4, <1>5, <1>8, <1>13, <2>2
    <3> QED
      BY <3>1, <3>2
  <2>4. WantedLen = n + cnt_q /\ WantedLen' = WantedLen - took + up
    BY <1>1, <1>2, <1>5, <1>n, <2>1, <2>2 DEF WantedLen
  <2>5. took = 1 => WantedLen >= 1 /\ fetched' = WantedAt(1)
    BY <1>1, <1>2, <1>13, <1>n, <2>1, <2>4 DEF WantedAt
  <2>6. \A k \in 1 .. WantedLen : WantedAt(k) = IF k <= n THEN queue[k] ELSE AcceptedAt(k - n)
    BY <1>1, <1>13, <1>n, <2>1, <2>4 DEF WantedAt
  <2>7. ASSUME NEW k \in 1 .. WantedLen - took PROVE WantedAt(k)' = WantedAt(k + took)
    <3>0. k + took \in 1 .. WantedLen
      BY <1>1, <1>2, <2>4
    <3>1. CASE k <= n - took
      BY <1>1, <1>2, <2>1, <2>2, <2>3, <2>6, <3>0, <3>1 DEF WantedAt
    <3>2. CASE k > n - took /\ k = n + ans - took
      <4>1. ans = 1 /\ k + took - n = 1 /\ k + took > n
        BY <1>1, <1>2, <3>2
      <4>2. WantedAt(k + took) = AcceptedAt(1)
        BY <1>1, <1>2, <2>6, <3>0, <4>1
      <4>3. WantedAt(k)' = AcceptedAt(1)
        BY <1>1, <1>2, <2>2, <2>3, <3>2, <4>1 DEF WantedAt
      <4> QED
        BY <4>2, <4>3
    <3>3. CASE k > n - took /\ k # n + ans - took
      <4>1. PICK j \in 1 .. cnt_q - ans : j = k - (n + ans - took)
        <5>1. k - (n + ans - took) \in 1 .. cnt_q - ans
          BY <1>1, <1>2, <2>4, <3>3
        <5> QED
          BY <5>1
      <4>2. k > n + ans - took
        BY <1>1, <1>2, <3>3
      <4>3. WantedAt(k)' = AcceptedAt(j)'
        BY <1>1, <1>2, <2>1, <2>2, <4>1, <4>2 DEF WantedAt
      <4>4. AcceptedAt(j)' = AcceptedAt(j + ans)
        BY <1>5, <4>1
      <4>5. j + ans = k + took - n /\ k + took > n
        BY <1>1, <1>2, <3>3, <4>1
      <4>6. WantedAt(k + took) = AcceptedAt(j + ans)
        BY <1>1, <1>2, <2>6, <3>0, <4>5
      <4> QED
        BY <4>3, <4>4, <4>6
    <3> QED
      BY <1>1, <1>2, <3>1, <3>2, <3>3
  <2>8. up = 1 => WantedAt(WantedLen)' = trans_addr_o(in)
    <3> SUFFICES ASSUME up = 1 PROVE WantedAt(WantedLen)' = trans_addr_o(in)
      OBVIOUS
    <3>1. WantedLen' > Len(queue') /\ WantedLen' - Len(queue') + ToFlush' = cnt_q'
      BY <1>1, <1>2, <1>5, <2>1, <2>2, <2>4
    <3>2. WantedAt(WantedLen)' = AcceptedAt(cnt_q)'
      BY <1>1, <1>2, <2>1, <2>2, <2>4, <3>1 DEF WantedAt
    <3> QED
      BY <1>5, <3>2
  <2> QED
    BY <2>4, <2>5, <2>7, <2>8
<1>14. Words
  BY <1>1, <1>2, <1>10, <1>11, <1>12, <1>13
<1> QED
  BY <1>2, <1>9, <1>14 DEF up, took

\* A jump moves the request to its target.
LEMMA Redirected ==
  ASSUME IInv, NEW in, NEW gnt, GoodInputs(in, gnt), Edge(in, gnt), Redirect(in),
         NEW target, trans_addr_o(in) = target
  PROVE  /\ state_q' = IF Up(in) = 1 THEN "IDLE" ELSE "BRANCH_WAIT"
         /\ ToRequest' = IF Up(in) = 1 THEN Incr(target) ELSE target
<1>1. Up(in) = 1 <=> count_up(in)
  BY DEF Up
<1>2. /\ state_q' = IF count_up(in) THEN "IDLE" ELSE "BRANCH_WAIT"
      /\ trans_addr_q' = target
  BY DEF Edge, ControllerEdge, next_state
<1>3. CASE count_up(in)
  BY <1>1, <1>2, <1>3 DEF ToRequest
<1>4. CASE ~count_up(in)
  BY <1>1, <1>2, <1>4 DEF ToRequest
<1> QED
  BY <1>1, <1>2, <1>3, <1>4

\* After a branch only its target is wanted.
LEMMA BranchWords ==
  ASSUME IInv, NEW in, NEW gnt, GoodInputs(in, gnt), Edge(in, gnt), in.branch_i
  PROVE  /\ WantedLen' = Up(in)
         /\ fetched' = fetched
         /\ Up(in) = 1 => WantedAt(1)' = in.branch_addr_i
         /\ ToRequest' = IF Up(in) = 1 THEN Incr(in.branch_addr_i) ELSE in.branch_addr_i
         /\ state_q' = IF Up(in) = 1 THEN "IDLE" ELSE "BRANCH_WAIT"
<1>1. /\ Up(in) \in 0 .. 1 /\ Ans(in) \in 0 .. 1 /\ Took(in) \in 0 .. 1
      /\ (Ans(in) = 1 <=> in.resp_valid_i)
      /\ Took(in) = 1 => ~in.branch_i
      /\ Ans(in) = 1 => cnt_q > 0
      /\ Took(in) = 0 => fetched' = fetched
  BY CycleNumbers
<1>2. trans_addr_o(in) = in.branch_addr_i /\ Redirect(in)
  BY DEF trans_addr_o, Redirect
<1>3. queue' = <<>> /\ Len(queue') = 0
  BY QueueFacts, EmptySeq
<1>4. /\ cnt_q' = cnt_q + Up(in) - Ans(in) /\ cnt_q \in Nat
      /\ Up(in) = 1 => AcceptedAt(cnt_q)' = in.branch_addr_i
  BY <1>2, AcceptedStep, Numbers
<1>5. ~hwlp_flush_after_resp' /\ flush_cnt_q' = cnt_q - Ans(in)
  BY <1>1, <1>4
     DEF Edge, ControllerEdge, next_flush_after_resp, next_flush_cnt
<1>6. ToFlush' = cnt_q - Ans(in)
  BY <1>5 DEF ToFlush
<1>7. WantedLen' = Up(in)
  BY <1>1, <1>3, <1>4, <1>6 DEF WantedLen
<1>8. ASSUME Up(in) = 1 PROVE WantedAt(1)' = in.branch_addr_i
  <2>1. 1 - Len(queue') + ToFlush' = cnt_q'
    BY <1>1, <1>3, <1>4, <1>6, <1>8
  <2>2. WantedAt(1)' = AcceptedAt(cnt_q)'
    BY <1>3, <1>5, <2>1 DEF WantedAt
  <2> QED
    BY <1>4, <1>8, <2>2
<1>9. fetched' = fetched
  BY <1>1
<1> QED
  BY <1>2, <1>7, <1>8, <1>9, Redirected

\* After a loop jump only HWLP_END, unless it is taken now, and the target are wanted.
LEMMA LoopWords ==
  ASSUME IInv, NEW in, NEW gnt, GoodInputs(in, gnt), Edge(in, gnt), in.hwlp_jump_i,
         lead = 0, state_q = "IDLE"
  PROVE  /\ WantedLen >= 1 /\ WantedLen' = 1 - Took(in) + Up(in)
         /\ Took(in) = 1 => fetched' = WantedAt(1)
         /\ Took(in) = 0 => fetched' = fetched /\ WantedAt(1)' = WantedAt(1)
         /\ Up(in) = 1 => WantedAt(WantedLen)' = in.hwlp_target_i
         /\ ToRequest' = IF Up(in) = 1 THEN Incr(in.hwlp_target_i) ELSE in.hwlp_target_i
         /\ state_q' = IF Up(in) = 1 THEN "IDLE" ELSE "BRANCH_WAIT"
<1> DEFINE n == Len(queue)
           up == Up(in)
           ans == Ans(in)
           took == Took(in)
<1>1. /\ n \in Nat /\ cnt_q \in Nat /\ ToFlush = 0 /\ flush_cnt_q = 0 /\ ~hwlp_flush_after_resp
      /\ cnt_q > 0 \/ n > 0
      /\ queue = <<>> <=> n = 0
  BY Numbers DEF IInv, LoopInv
<1>2. /\ up \in 0 .. 1 /\ ans \in 0 .. 1 /\ took \in 0 .. 1
      /\ (ans = 1 <=> in.resp_valid_i)
      /\ (took = 1 <=> in.fetch_ready_i)
      /\ took = 1 => n > 0 \/ ans = 1
      /\ ans = 1 => cnt_q > 0
      /\ fetched' = IF took = 0 THEN fetched ELSE IF n > 0 THEN queue[1] ELSE AcceptedAt(1)
  BY CycleNumbers
<1>3. COREV_PULP /\ ~in.branch_i /\ Redirect(in) /\ trans_addr_o(in) = in.hwlp_target_i
  BY DEF GoodInputs, Redirect, trans_addr_o
<1>4. fifo_push_o(in) <=> ans = 1 /\ (n > 0 \/ took = 0)
  BY <1>1, <1>3, CycleNumbers
<1>5. /\ cnt_q' = cnt_q + up - ans
      /\ \A k \in 1 .. cnt_q - ans : AcceptedAt(k)' = AcceptedAt(k + ans)
      /\ up = 1 => AcceptedAt(cnt_q)' = in.hwlp_target_i
      /\ ans = 1 => Head(outstanding) = AcceptedAt(1)
  BY <1>2, <1>3, AcceptedStep
<1>6. /\ flush_cnt_q' = next_flush_cnt(in)
      /\ hwlp_flush_after_resp' = next_flush_after_resp(in)
      /\ hwlp_flush_cnt_delayed_q' = next_flush_cnt_delayed(in)
  BY DEF Edge, ControllerEdge
<1>7. /\ queue # <<>> => Len(queue') = IF in.fetch_ready_i THEN 0 ELSE 1
      /\ queue = <<>> =>
           Len(queue') = IF in.resp_valid_i /\ ~in.fetch_ready_i /\ flush_cnt_q = 0 THEN 1 ELSE 0
  BY QueueFacts
<1>8. /\ queue # <<>> /\ ~in.fetch_ready_i => queue'[1] = queue[1]
      /\ queue = <<>> /\ fifo_push_o(in) => queue'[1] = Head(outstanding)
  BY QueueWords
<1>9. fifo_empty(in) <=> n = 0
  BY DEF GoodInputs, fifo_empty
<1>10. WantedLen = n + cnt_q /\ WantedLen >= 1
  BY <1>1 DEF WantedLen
<1>11. WantedAt(1) = IF n > 0 THEN queue[1] ELSE AcceptedAt(1)
  BY <1>1 DEF WantedAt
<1> DEFINE Words == /\ WantedLen' = 1 - took + up
                    /\ took = 0 => WantedAt(1)' = WantedAt(1)
                    /\ up = 1 => WantedAt(WantedLen)' = in.hwlp_target_i
<1> HIDE DEF n, up, ans, took
<1>12. ASSUME n = 0, ans = 0 PROVE Words
  <2>1. /\ hwlp_flush_after_resp' /\ hwlp_flush_cnt_delayed_q' = cnt_q - 1 /\ took = 0
    <3>1. took = 0 /\ fifo_empty(in) /\ ~in.resp_valid_i
      BY <1>1, <1>2, <1>9, <1>12
    <3>2. hwlp_wait_resp_flush(in)
      BY <1>3, <3>1 DEF hwlp_wait_resp_flush
    <3> QED
      BY <1>3, <1>6, <3>1, <3>2 DEF next_flush_after_resp, next_flush_cnt_delayed
  <2>2. Len(queue') = 0 /\ ToFlush' = cnt_q - 1 /\ cnt_q > 0
    BY <1>1, <1>2, <1>7, <1>12, <2>1 DEF ToFlush
  <2>3. WantedLen' = 1 + up
    BY <1>1, <1>2, <1>5, <1>12, <2>2 DEF WantedLen
  <2>4. AcceptedAt(1)' = AcceptedAt(1 + 0)
    BY <1>1, <1>5, <1>12, <2>2
  <2>5. WantedAt(1)' = WantedAt(1)
    BY <1>11, <1>12, <2>1, <2>2, <2>4 DEF WantedAt
  <2>6. ASSUME up = 1 PROVE WantedAt(WantedLen)' = in.hwlp_target_i
    <3>1. WantedLen' = 2 /\ WantedLen' - Len(queue') + ToFlush' = cnt_q'
      BY <1>1, <1>5, <1>12, <2>2, <2>3, <2>6
    <3>2. WantedAt(WantedLen)' = AcceptedAt(cnt_q)'
      BY <2>2, <3>1 DEF WantedAt
    <3> QED
      BY <1>5, <2>6, <3>2
  <2> QED
    BY <2>1, <2>3, <2>5, <2>6
<1>13. ASSUME ~(n = 0 /\ ans = 0) PROVE Words
  <2>1. ~hwlp_flush_after_resp' /\ flush_cnt_q' = cnt_q - ans
    <3>1. ~(fifo_empty(in) /\ ~in.resp_valid_i)
      BY <1>1, <1>2, <1>9, <1>13
    <3>2. ~hwlp_wait_resp_flush(in) /\ hwlp_flush_resp(in)
      BY <1>3, <3>1 DEF hwlp_wait_resp_flush, hwlp_flush_resp
    <3>3. ~hwlp_flush_after_resp'
      BY <1>1, <1>6, <3>2 DEF next_flush_after_resp
    <3>4. flush_cnt_q' = IF in.resp_valid_i /\ cnt_q > 0 THEN cnt_q - 1 ELSE cnt_q
      BY <1>6, <3>2 DEF next_flush_cnt
    <3> QED
      BY <1>1, <1>2, <3>3, <3>4
  <2>2. ToFlush' = cnt_q - ans
    BY <2>1 DEF ToFlush
  <2>3. /\ Len(queue') = 1 - took
        /\ took = 0 => queue'[1] = WantedAt(1)
    <3>1. CASE n > 0
      <4>1. queue # <<>>
        BY <1>1, <3>1
      <4>2. CASE took = 1
        BY <1>2, <1>7, <4>1, <4>2
      <4>3. CASE took = 0
        BY <1>2, <1>7, <1>8, <1>11, <3>1, <4>1, <4>3
      <4> QED
        BY <1>2, <4>2, <4>3
    <3>2. CASE n = 0
      <4>1. queue = <<>> /\ ans = 1 /\ in.resp_valid_i
        BY <1>1, <1>2, <1>13, <3>2
      <4>2. CASE took = 1
        BY <1>1, <1>2, <1>7, <4>1, <4>2
      <4>3. CASE took = 0
        BY <1>1, <1>2, <1>4, <1>5, <1>7, <1>8, <1>11, <3>2, <4>1, <4>3
      <4> QED
        BY <1>2, <4>2, <4>3
    <3> QED
      BY <1>1, <3>1, <3>2
  <2>4. WantedLen' = 1 - took + up
    BY <1>1, <1>2, <1>5, <2>2, <2>3 DEF WantedLen
  <2>5. took = 0 => WantedAt(1)' = WantedAt(1)
    BY <1>2, <2>3 DEF WantedAt
  <2>6. ASSUME up = 1 PROVE WantedAt(WantedLen)' = in.hwlp_target_i
    <3>1. WantedLen' > Len(queue') /\ WantedLen' - Len(queue') + ToFlush' = cnt_q'
      BY <1>1, <1>2, <1>5, <2>2, <2>3, <2>4, <2>6
    <3>2. WantedAt(WantedLen)' = AcceptedAt(cnt_q)'
      BY <1>1, <1>2, <2>1, <2>3, <2>4, <3>1 DEF WantedAt
    <3> QED
      BY <1>5, <2>6, <3>2
  <2> QED
    BY <2>4, <2>5, <2>6
<1>14. Words
  BY <1>2, <1>12, <1>13
<1>15. (took = 1 => fetched' = WantedAt(1)) /\ (took = 0 => fetched' = fetched)
  BY <1>2, <1>11
<1>16. /\ ToRequest' = IF Up(in) = 1 THEN Incr(in.hwlp_target_i) ELSE in.hwlp_target_i
       /\ state_q' = IF Up(in) = 1 THEN "IDLE" ELSE "BRANCH_WAIT"
  BY <1>3, Redirected
<1> QED
  BY <1>10, <1>14, <1>15, <1>16 DEF up, took
-----------------------------------------------------------------------------
(* Every cycle is a step of the stream *)

\* The stream in the next state, given that the invariant holds there.
LEMMA NextAndAfterPrimed ==
  IInv' => /\ NextWanted' = IF WantedLen' > 0 THEN WantedAt(1)' ELSE ToRequest'
           /\ WantedLen' = 0 => AfterWanted' = Incr(ToRequest)'
           /\ WantedLen' = 1 => AfterWanted' = ToRequest'
           /\ WantedLen' > 1 => AfterWanted' = WantedAt(2)'
           /\ WantedLen' \in Nat
<1>1. IInv => /\ NextWanted = IF WantedLen > 0 THEN WantedAt(1) ELSE ToRequest
              /\ WantedLen = 0 => AfterWanted = Incr(ToRequest)
              /\ WantedLen = 1 => AfterWanted = ToRequest
              /\ WantedLen > 1 => AfterWanted = WantedAt(2)
              /\ WantedLen \in Nat
  BY NextAndAfter, Numbers
<1>2. (IInv => /\ NextWanted = IF WantedLen > 0 THEN WantedAt(1) ELSE ToRequest
               /\ WantedLen = 0 => AfterWanted = Incr(ToRequest)
               /\ WantedLen = 1 => AfterWanted = ToRequest
               /\ WantedLen > 1 => AfterWanted = WantedAt(2)
               /\ WantedLen \in Nat)'
  BY <1>1, PTL
<1> QED
  BY <1>2

LEMMA SequentialCycle ==
  ASSUME SInv, IInv', NEW in, NEW gnt, GoodInputs(in, gnt), Edge(in, gnt), LeadStep(in),
         ~Redirect(in)
  PROVE  /\ RunInv' /\ TargetInv'
         /\ IF in.fetch_ready_i THEN Stream!Deliver ELSE UNCHANGED Stream!streamVars
<1> DEFINE up == Up(in)
           took == Took(in)
           len == WantedLen
           len1 == WantedLen'
<1>1. /\ up \in 0 .. 1 /\ took \in 0 .. 1 /\ len \in Nat /\ lead \in Nat
      /\ (took = 1 <=> in.fetch_ready_i)
  BY CycleNumbers, Numbers DEF SInv
<1>2. /\ len1 = len - took + up
      /\ took = 1 => len >= 1 /\ fetched' = WantedAt(1)
      /\ took = 0 => fetched' = fetched
      /\ \A k \in 1 .. len - took : WantedAt(k)' = WantedAt(k + took)
      /\ up = 1 => WantedAt(WantedLen)' = ToRequest
      /\ ToRequest' = IF up = 1 THEN Incr(ToRequest) ELSE ToRequest
      /\ state_q' = IF up = 1 THEN "IDLE" ELSE state_q
  BY SequentialWords DEF SInv
<1>3. /\ \A k \in 2 .. len - 1 : WantedAt(k + 1) = Incr(WantedAt(k))
      /\ len >= 2 => ToRequest = Incr(WantedAt(len))
      /\ state_q = "BRANCH_WAIT" => len <= 1 /\ lead > len
  BY DEF SInv, RunInv, TargetInv
<1>4. /\ NextWanted = IF len > 0 THEN WantedAt(1) ELSE ToRequest
      /\ len = 0 => AfterWanted = Incr(ToRequest)
      /\ len = 1 => AfterWanted = ToRequest
      /\ len > 1 => AfterWanted = WantedAt(2)
  BY NextAndAfter DEF SInv
<1>5. /\ NextWanted' = IF len1 > 0 THEN WantedAt(1)' ELSE ToRequest'
      /\ len1 = 0 => AfterWanted' = Incr(ToRequest)'
      /\ len1 = 1 => AfterWanted' = ToRequest'
      /\ len1 > 1 => AfterWanted' = WantedAt(2)'
  BY NextAndAfterPrimed
<1>6. up = 1 => \A k \in 1 .. len1 : k = len1 => WantedAt(k)' = ToRequest
  BY <1>2
<1> HIDE DEF up, took, len, len1
<1>7. \A k \in 2 .. len1 - 1 : WantedAt(k + 1)' = Incr(WantedAt(k))'
  <2> SUFFICES ASSUME NEW k \in 2 .. len1 - 1 PROVE WantedAt(k + 1)' = Incr(WantedAt(k))'
    OBVIOUS
  <2>1. WantedAt(k)' = WantedAt(k + took) /\ k + took \in 2 .. len
    BY <1>1, <1>2
  <2>2. CASE k + 1 <= len - took
    <3>1. WantedAt(k + 1)' = WantedAt(k + 1 + took) /\ k + 1 + took = k + took + 1
      BY <1>1, <1>2, <2>2
    <3>2. WantedAt(k + took + 1) = Incr(WantedAt(k + took))
      BY <1>1, <1>3, <2>1, <2>2
    <3> QED
      BY <2>1, <3>1, <3>2
  <2>3. CASE k + 1 > len - took
    <3>1. up = 1 /\ k + 1 = len1 /\ k + took = len
      BY <1>1, <1>2, <2>3
    <3>2. WantedAt(k + 1)' = ToRequest
      BY <1>1, <1>6, <3>1
    <3> QED
      BY <1>3, <2>1, <3>1, <3>2
  <2> QED
    BY <1>1, <2>2, <2>3
<1>8. len1 >= 2 => ToRequest' = Incr(WantedAt(WantedLen))'
  <2> SUFFICES ASSUME len1 >= 2 PROVE ToRequest' = Incr(WantedAt(WantedLen))'
    OBVIOUS
  <2>1. CASE up = 1
    BY <1>2, <2>1
  <2>2. CASE up = 0
    <3>1. PICK k \in 1 .. len - took : k = len1
      BY <1>1, <1>2, <2>2
    <3>2. WantedAt(k)' = WantedAt(len) /\ k + took = len
      BY <1>1, <1>2, <2>2, <3>1
    <3>3. WantedAt(WantedLen)' = WantedAt(k)'
      BY <3>1 DEF len1
    <3> QED
      BY <1>1, <1>2, <1>3, <2>2, <3>1, <3>2, <3>3
  <2> QED
    BY <1>1, <2>1, <2>2
<1>9. RunInv'
  BY <1>7, <1>8 DEF RunInv, len1
<1>10. TargetInv'
  <2>1. lead' = IF in.req_i THEN Led(in.fetch_ready_i) ELSE Max1(lead)
    BY DEF LeadStep
  <2>2. in.fetch_ready_i => in.req_i
    BY DEF GoodInputs
  <2>3. ASSUME state_q' = "BRANCH_WAIT" PROVE len1 <= 1 /\ lead' > len1
    BY <1>1, <1>2, <1>3, <2>1, <2>2, <2>3 DEF Led, Max1
  <2> QED
    BY <2>3 DEF TargetInv, len1
<1>11. CASE took = 1
  <2>1. fetched' = NextWanted
    BY <1>1, <1>2, <1>4, <1>11
  <2>2. NextWanted' = AfterWanted /\ AfterWanted' = Incr(AfterWanted)
    <3>1. CASE len = 1
      <4>1. AfterWanted = ToRequest /\ len1 = up
        BY <1>1, <1>2, <1>4, <1>11, <3>1
      <4>2. CASE up = 0
        BY <1>2, <1>5, <4>1, <4>2
      <4>3. CASE up = 1
        <5>1. WantedAt(1)' = ToRequest
          BY <1>6, <4>1, <4>3
        <5> QED
          BY <1>2, <1>5, <4>1, <4>3, <5>1
      <4> QED
        BY <1>1, <4>2, <4>3
    <3>2. CASE len = 2
      <4>1. AfterWanted = WantedAt(2) /\ len1 = 1 + up /\ WantedAt(1)' = WantedAt(2)
        BY <1>1, <1>2, <1>4, <1>11, <3>2
      <4>2. ToRequest = Incr(WantedAt(2))
        BY <1>3, <3>2
      <4>3. CASE up = 0
        BY <1>2, <1>5, <4>1, <4>2, <4>3
      <4>4. CASE up = 1
        <5>1. WantedAt(2)' = ToRequest
          BY <1>6, <4>1, <4>4
        <5> QED
          BY <1>2, <1>5, <4>1, <4>2, <4>4, <5>1
      <4> QED
        BY <1>1, <4>3, <4>4
    <3>3. CASE len > 2
      <4>1. AfterWanted = WantedAt(2) /\ len1 >= 2
        BY <1>1, <1>2, <1>4, <1>11, <3>3
      <4>2. WantedAt(1)' = WantedAt(2) /\ WantedAt(2)' = WantedAt(3)
        BY <1>1, <1>2, <1>11, <3>3
      <4>3. WantedAt(3) = Incr(WantedAt(2))
        <5>1. 2 \in 2 .. len - 1 /\ 2 + 1 = 3
          BY <1>1, <3>3
        <5> QED
          BY <1>3, <5>1
      <4> QED
        BY <1>1, <1>2, <1>5, <4>1, <4>2, <4>3
    <3> QED
      BY <1>1, <1>2, <1>11, <3>1, <3>2, <3>3
  <2>3. Stream!Deliver
    BY <2>1, <2>2 DEF Stream!Deliver, Stream!Succ, Incr
  <2> QED
    BY <1>1, <1>9, <1>10, <1>11, <2>3
<1>12. CASE took = 0
  <2>1. fetched' = fetched
    BY <1>2, <1>12
  <2>2. NextWanted' = NextWanted /\ AfterWanted' = AfterWanted
    <3>1. \A k \in 1 .. len : WantedAt(k)' = WantedAt(k)
      BY <1>1, <1>2, <1>12
    <3>2. CASE len = 0
      <4>1. len1 = up
        BY <1>1, <1>2, <1>12, <3>2
      <4>2. up = 1 => WantedAt(1)' = ToRequest
        BY <1>6, <4>1
      <4> QED
        BY <1>1, <1>2, <1>4, <1>5, <3>2, <4>1, <4>2
    <3>3. CASE len = 1
      <4>1. len1 = 1 + up
        BY <1>1, <1>2, <1>12, <3>3
      <4>2. up = 1 => WantedAt(2)' = ToRequest
        BY <1>6, <4>1
      <4> QED
        BY <1>1, <1>2, <1>4, <1>5, <3>1, <3>3, <4>1, <4>2
    <3>4. CASE len > 1
      <4>1. len1 > 1
        BY <1>1, <1>2, <1>12, <3>4
      <4> QED
        BY <1>1, <1>2, <1>4, <1>5, <3>1, <3>4, <4>1
    <3> QED
      BY <1>1, <3>2, <3>3, <3>4
  <2>3. UNCHANGED Stream!streamVars
    BY <2>1, <2>2 DEF Stream!streamVars
  <2> QED
    BY <1>1, <1>9, <1>10, <1>12, <2>3
<1> QED
  BY <1>1, <1>11, <1>12

LEMMA BranchCycle ==
  ASSUME SInv, IInv', NEW in, NEW gnt, GoodInputs(in, gnt), Edge(in, gnt), LeadStep(in),
         in.branch_i
  PROVE  RunInv' /\ TargetInv' /\ Stream!Branch(in.branch_addr_i)
<1>1. /\ WantedLen' = Up(in) /\ Up(in) \in 0 .. 1
      /\ fetched' = fetched
      /\ Up(in) = 1 => WantedAt(1)' = in.branch_addr_i
      /\ ToRequest' = IF Up(in) = 1 THEN Incr(in.branch_addr_i) ELSE in.branch_addr_i
      /\ state_q' = IF Up(in) = 1 THEN "IDLE" ELSE "BRANCH_WAIT"
      /\ lead' = 1
  BY BranchWords, CycleNumbers DEF SInv, LeadStep
<1>2. /\ NextWanted' = IF WantedLen' > 0 THEN WantedAt(1)' ELSE ToRequest'
      /\ WantedLen' = 0 => AfterWanted' = Incr(ToRequest)'
      /\ WantedLen' = 1 => AfterWanted' = ToRequest'
  BY NextAndAfterPrimed
<1>3. NextWanted' = in.branch_addr_i /\ AfterWanted' = Incr(in.branch_addr_i)
  <2>1. CASE Up(in) = 0
    BY <1>1, <1>2, <2>1
  <2>2. CASE Up(in) = 1
    BY <1>1, <1>2, <2>2
  <2> QED
    BY <1>1, <2>1, <2>2
<1>4. RunInv' /\ TargetInv'
  BY <1>1 DEF RunInv, TargetInv
<1> QED
  BY <1>1, <1>3, <1>4 DEF Stream!Branch, Stream!Succ, Incr

LEMMA LoopCycle ==
  ASSUME SInv, IInv', NEW in, NEW gnt, GoodInputs(in, gnt), Edge(in, gnt), LeadStep(in),
         in.hwlp_jump_i
  PROVE  /\ RunInv' /\ TargetInv'
         /\ IF in.fetch_ready_i THEN Stream!HwlpJumpDeliver(in.hwlp_target_i)
            ELSE Stream!HwlpJump(in.hwlp_target_i)
<1> DEFINE target == in.hwlp_target_i
<1>1. lead = 0 /\ state_q = "IDLE" /\ COREV_PULP
  BY Numbers DEF SInv, IInv, TypeOK, TargetInv, LeadStep, GoodInputs
<1>2. Up(in) \in 0 .. 1 /\ Took(in) \in 0 .. 1 /\ (Took(in) = 1 <=> in.fetch_ready_i)
  BY CycleNumbers DEF SInv
<1>3. /\ WantedLen >= 1 /\ WantedLen' = 1 - Took(in) + Up(in)
      /\ Took(in) = 1 => fetched' = WantedAt(1)
      /\ Took(in) = 0 => fetched' = fetched /\ WantedAt(1)' = WantedAt(1)
      /\ Up(in) = 1 => WantedAt(WantedLen)' = target
      /\ ToRequest' = IF Up(in) = 1 THEN Incr(target) ELSE target
      /\ state_q' = IF Up(in) = 1 THEN "IDLE" ELSE "BRANCH_WAIT"
  BY <1>1, LoopWords DEF SInv
<1>4. WantedLen \in Nat /\ NextWanted = WantedAt(1)
  BY <1>3, NextAndAfter, Numbers DEF SInv
<1>5. /\ NextWanted' = IF WantedLen' > 0 THEN WantedAt(1)' ELSE ToRequest'
      /\ WantedLen' = 0 => AfterWanted' = Incr(ToRequest)'
      /\ WantedLen' = 1 => AfterWanted' = ToRequest'
      /\ WantedLen' > 1 => AfterWanted' = WantedAt(2)'
  BY NextAndAfterPrimed
<1>6. Up(in) = 1 => \A k \in 1 .. 2 : k = WantedLen' => WantedAt(k)' = target
  BY <1>3
<1>7. lead' = IF in.fetch_ready_i THEN LOOP_LEAD - 1 ELSE LOOP_LEAD
  BY DEF LeadStep
<1> HIDE DEF target
<1>8. RunInv'
  BY <1>2, <1>3 DEF RunInv
<1>9. TargetInv'
  BY <1>2, <1>3, <1>7 DEF TargetInv, LOOP_LEAD
<1>10. CASE Took(in) = 0
  <2>1. NextWanted' = NextWanted /\ fetched' = fetched
    BY <1>2, <1>3, <1>4, <1>5, <1>10
  <2>2. AfterWanted' = target
    <3>1. CASE Up(in) = 0
      BY <1>3, <1>5, <1>10, <3>1
    <3>2. CASE Up(in) = 1
      <4>1. WantedLen' = 2 /\ WantedAt(2)' = target
        BY <1>3, <1>6, <1>10, <3>2
      <4> QED
        BY <1>5, <4>1
    <3> QED
      BY <1>2, <3>1, <3>2
  <2>3. Stream!HwlpJump(in.hwlp_target_i)
    BY <1>1, <2>1, <2>2 DEF Stream!HwlpJump, target
  <2> QED
    BY <1>2, <1>8, <1>9, <1>10, <2>3
<1>11. CASE Took(in) = 1
  <2>1. fetched' = NextWanted
    BY <1>3, <1>4, <1>11
  <2>2. NextWanted' = target /\ AfterWanted' = Incr(target)
    <3>1. CASE Up(in) = 0
      BY <1>3, <1>5, <1>11, <3>1
    <3>2. CASE Up(in) = 1
      <4>1. WantedLen' = 1 /\ WantedAt(1)' = target
        BY <1>3, <1>6, <1>11, <3>2
      <4> QED
        BY <1>3, <1>5, <3>2, <4>1
    <3> QED
      BY <1>2, <3>1, <3>2
  <2>3. Stream!HwlpJumpDeliver(in.hwlp_target_i)
    BY <1>1, <2>1, <2>2 DEF Stream!HwlpJumpDeliver, Stream!Succ, Incr, target
  <2> QED
    BY <1>2, <1>8, <1>9, <1>11, <2>3
<1> QED
  BY <1>2, <1>10, <1>11

\* A cycle in which the IF stage takes a word takes the next one of the stream.
LEMMA FetchDoesAsAsked ==
  ASSUME SInv, NEW req \in BOOLEAN, NEW rvalid \in BOOLEAN, NEW ready \in BOOLEAN,
         NEW gnt \in BOOLEAN, Fetch(req, rvalid, ready, gnt)
  PROVE  SInv' /\ IF ready THEN Stream!Deliver ELSE UNCHANGED Stream!streamVars
<1> DEFINE in == Sequential(req, rvalid, ready)
<1>0. 0 \in Addr
  BY PrefetchAssumption DEF Addr
<1>1. /\ Edge(in, gnt) /\ booted' \in BOOLEAN /\ ~in.branch_i /\ ~in.hwlp_jump_i
      /\ in.fetch_ready_i = ready
  BY DEF Fetch, Sequential, SInv, IInv, TypeOK
<1>2. GoodInputs(in, gnt)
  BY <1>0 DEF Fetch, GoodInputs, Sequential, MayAnswer, MayAccept, Obi!trans_ready_o
<1>3. LeadStep(in)
  BY DEF Fetch, LeadStep, Sequential, Redirect
<1> HIDE DEF in
<1>4. IInv'
  BY <1>1, <1>2, <1>3, CycleInv DEF SInv
<1>5. ~Redirect(in)
  BY <1>1 DEF Redirect
<1> QED
  BY <1>1, <1>2, <1>3, <1>4, <1>5, SequentialCycle DEF SInv

\* A branch leads to the target that is asked for.
LEMMA BranchDoesAsAsked ==
  ASSUME SInv, NEW target \in BranchTargets, NEW rvalid \in BOOLEAN, NEW gnt \in BOOLEAN,
         TakeBranch(target, rvalid, gnt)
  PROVE  SInv' /\ Stream!Branch(target)
<1> DEFINE in == Branching(target, rvalid)
<1>0. 0 \in Addr /\ target \in Addr
  BY PrefetchAssumption, TargetsAssumption DEF Addr
<1>1. /\ Edge(in, gnt) /\ booted' \in BOOLEAN /\ in.branch_i /\ ~in.hwlp_jump_i
      /\ in.branch_addr_i = target
  BY DEF TakeBranch, Branching, Sequential
<1>2. GoodInputs(in, gnt)
  BY <1>0 DEF TakeBranch, GoodInputs, Branching, Sequential, MayAnswer, Obi!trans_ready_o
<1>3. LeadStep(in)
  BY DEF TakeBranch, LeadStep, Branching, Sequential, Redirect
<1> HIDE DEF in
<1>4. IInv'
  BY <1>1, <1>2, <1>3, CycleInv DEF SInv
<1> QED
  BY <1>1, <1>2, <1>3, <1>4, BranchCycle DEF SInv

\* A turn of a hardware loop lets HWLP_END through and goes on where it is asked to.
LEMMA TurnDoesAsAsked ==
  ASSUME SInv, NEW target \in LoopStarts, NEW rvalid \in BOOLEAN, NEW ready \in BOOLEAN,
         NEW gnt \in BOOLEAN, HwlpTurn(target, rvalid, ready, gnt)
  PROVE  SInv' /\ IF ready THEN Stream!HwlpJumpDeliver(target) ELSE Stream!HwlpJump(target)
<1> DEFINE in == Looping(target, rvalid, ready)
<1>0. 0 \in Addr /\ target \in Addr
  BY PrefetchAssumption, TargetsAssumption DEF Addr
<1>1. /\ Edge(in, gnt) /\ booted' \in BOOLEAN /\ ~in.branch_i /\ in.hwlp_jump_i
      /\ in.hwlp_target_i = target /\ in.fetch_ready_i = ready
  BY DEF HwlpTurn, Looping, Sequential, SInv, IInv, TypeOK
<1>2. GoodInputs(in, gnt)
  BY <1>0 DEF HwlpTurn, GoodInputs, Looping, Sequential, MayAnswer, MayAccept,
              Obi!trans_ready_o
<1>3. LeadStep(in)
  BY DEF HwlpTurn, LeadStep, Looping, Sequential, Redirect
<1> HIDE DEF in
<1>4. IInv'
  BY <1>1, <1>2, <1>3, CycleInv DEF SInv
<1> QED
  BY <1>1, <1>2, <1>3, <1>4, LoopCycle DEF SInv

LEMMA InitSInv == Init => SInv /\ Stream!StreamInit
<1> SUFFICES ASSUME Init PROVE SInv /\ Stream!StreamInit
  OBVIOUS
<1>1. IInv
  BY InitInv
<1>2. /\ queue = <<>> /\ cnt_q = 0 /\ ~hwlp_flush_after_resp /\ flush_cnt_q = 0
      /\ state_q = "IDLE" /\ trans_addr_q = 0 /\ fetched = 0
  BY DEF Init, ControllerInit, Fifo!QueueInit
<1>3. WantedLen = 0 /\ ToRequest = Incr(0)
  BY <1>1, <1>2, Numbers DEF WantedLen, ToRequest
<1>4. NextWanted = Incr(0) /\ AfterWanted = Incr(Incr(0))
  BY <1>1, <1>3, NextAndAfter
<1> QED
  BY <1>1, <1>2, <1>3, <1>4 DEF SInv, RunInv, TargetInv, Stream!StreamInit, Stream!Succ, Incr

LEMMA StutterStream ==
  SInv /\ UNCHANGED vars => SInv' /\ UNCHANGED Stream!streamVars
<1> SUFFICES ASSUME SInv, UNCHANGED vars PROVE SInv' /\ UNCHANGED Stream!streamVars
  OBVIOUS
<1>1. IInv'
  BY StutterInv DEF SInv
<1>2. ToFlush' = ToFlush /\ WantedLen' = WantedLen /\ ToRequest' = ToRequest
      /\ fetched' = fetched /\ state_q' = state_q /\ lead' = lead
  BY DEF vars, controllerVars, ToFlush, WantedLen, ToRequest
<1>3. \A k \in Nat : WantedAt(k)' = WantedAt(k)
  BY DEF vars, controllerVars, WantedAt, AcceptedAt, ToFlush
<1>4. WantedLen \in Nat
  BY Numbers DEF SInv
<1>5. RunInv'
  BY <1>2, <1>3, <1>4 DEF SInv, RunInv
<1>6. TargetInv'
  BY <1>2 DEF SInv, TargetInv
<1>7. Wanted' = Wanted
  BY DEF vars, controllerVars, Wanted, Accepted, ToFlush
<1>8. NextWanted' = NextWanted /\ AfterWanted' = AfterWanted
  BY <1>2, <1>7 DEF NextWanted, AfterWanted
<1> QED
  BY <1>1, <1>2, <1>5, <1>6, <1>8 DEF SInv, Stream!streamVars

\* In every cycle, even in one that changes no register, the stream moves as asked.
LEMMA AlwaysAsAsked == SInv => DoesAsAsked
  BY FetchDoesAsAsked, BranchDoesAsAsked, TurnDoesAsAsked DEF DoesAsAsked

LEMMA NextStream ==
  SInv /\ [Next]_vars => SInv' /\ [Stream!StreamNext]_(Stream!streamVars)
<1> SUFFICES ASSUME SInv, [Next]_vars
             PROVE  SInv' /\ [Stream!StreamNext]_(Stream!streamVars)
  OBVIOUS
<1>1. ASSUME NEW req \in BOOLEAN, NEW rvalid \in BOOLEAN, NEW ready \in BOOLEAN,
             NEW gnt \in BOOLEAN, Fetch(req, rvalid, ready, gnt)
      PROVE  SInv' /\ [Stream!StreamNext]_(Stream!streamVars)
  BY <1>1, FetchDoesAsAsked DEF Stream!StreamNext
<1>2. ASSUME NEW target \in BranchTargets, NEW rvalid \in BOOLEAN, NEW gnt \in BOOLEAN,
             TakeBranch(target, rvalid, gnt)
      PROVE  SInv' /\ [Stream!StreamNext]_(Stream!streamVars)
  BY <1>2, BranchDoesAsAsked DEF Stream!StreamNext
<1>3. ASSUME NEW target \in LoopStarts, NEW rvalid \in BOOLEAN, NEW ready \in BOOLEAN,
             NEW gnt \in BOOLEAN, HwlpTurn(target, rvalid, ready, gnt)
      PROVE  SInv' /\ [Stream!StreamNext]_(Stream!streamVars)
  BY <1>3, TurnDoesAsAsked DEF Stream!StreamNext
<1>4. CASE UNCHANGED vars
  BY <1>4, StutterStream
<1> QED
  BY <1>1, <1>2, <1>3, <1>4 DEF Next

\* The prefetch buffer implements the stream, request for request: no word is skipped,
\* repeated, stale, or from beyond the end of a loop, and every branch and every turn of
\* a loop leads where the core asks, whatever memory and IF stage do.
THEOREM StreamImplemented == Spec => HandsOverTheStream
  BY InitSInv, NextStream, AlwaysAsAsked, PTL DEF Spec, HandsOverTheStream, Stream!StreamSpec
=============================================================================
