--------------------------- MODULE PrefetchBuffer ---------------------------
(***************************************************************************)
(* cv32e40p_prefetch_buffer: the prefetch controller, its FIFO and its OBI *)
(* interface, between the instruction memory (which grants and answers     *)
(* requests in order, when it likes) and the IF stage (which branches,     *)
(* takes words and stalls).  The word at an address is named by the        *)
(* address: the memory is only read.                                       *)
(***************************************************************************)
EXTENDS PrefetchController, Sequences, FiniteSets

CONSTANTS
    BranchTargets,  \* branch targets the IF stage may ask for
    LoopStarts      \* start addresses of hardware loops

ASSUME TargetsAssumption == BranchTargets \subseteq Addr /\ LoopStarts \subseteq Addr

VARIABLES
    queue,          \* the FIFO
    obi_state_q,    \* OBI interface
    obi_a_q,        \* address on the A channel in state REGISTERED
    outstanding,    \* memory: addresses granted and not yet answered, oldest first
    fetched,        \* the last word handed to the IF stage
    booted,         \* core: the first branch (to the boot address) has been taken
    lead            \* core: words to hand over before END-4 of a loop can be in ID

Fifo == INSTANCE Queue WITH FALL_THROUGH <- FALSE, Data <- Addr
Obi  == INSTANCE ObiInterface WITH TRANS_STABLE <- FALSE

vars == <<controllerVars, queue, obi_state_q, obi_a_q, outstanding, fetched, booted, lead>>

\* HWLP_END, the loop's first instruction and HWLP_END-4 at least are handed over
\* between two jumps of a loop: its body has three instructions or more.
LOOP_LEAD == 3

-----------------------------------------------------------------------------
fetch_rdata_o(rdata) == IF queue = <<>> THEN rdata ELSE Head(queue)

\* The instruction memory: a grant adds to the end, an answer takes the oldest.
MemoryEdge(granted, addr, answered) ==
    LET rest == IF answered THEN Tail(outstanding) ELSE outstanding
    IN  outstanding' = IF granted THEN Append(rest, addr) ELSE rest

\* One clock edge of the prefetch buffer and the memory.
Edge(in, gnt) ==
    /\ ControllerEdge(in)
    /\ Fifo!QueueEdge(fifo_flush_o(in), fifo_flush_but_first_o(in),
                      fifo_push_o(in), Head(outstanding), fifo_pop_o(in))
    /\ Obi!ObiEdge(trans_valid_o(in), trans_addr_o(in), gnt)
    /\ MemoryEdge(Obi!obi_req_o(trans_valid_o(in)) /\ gnt,
                  Obi!obi_a_o(trans_addr_o(in)), in.resp_valid_i)
    /\ fetched' = IF in.fetch_ready_i THEN fetch_rdata_o(Head(outstanding)) ELSE fetched
-----------------------------------------------------------------------------
(* The IF stage, the controller of the core and the memory choose the inputs. *)

\* A cycle without a jump: the fetch stage may or may not request and accept.
Sequential(req, rvalid, ready) ==
    [req_i |-> req, branch_i |-> FALSE, branch_addr_i |-> 0,
     hwlp_jump_i |-> FALSE, hwlp_target_i |-> 0,
     trans_ready_i |-> Obi!trans_ready_o(FALSE), resp_valid_i |-> rvalid,
     fetch_ready_i |-> ready, fifo_cnt_i |-> Len(queue)]

\* pc_set in the IF stage; nothing is accepted in that cycle.
Branching(target, rvalid) ==
    [Sequential(TRUE, rvalid, FALSE) EXCEPT !.branch_i = TRUE, !.branch_addr_i = target]

\* hwlp_jump_o of the controller: HWLP_END-4 is in ID.
Looping(target, rvalid, ready) ==
    [Sequential(TRUE, rvalid, ready) EXCEPT !.hwlp_jump_i = TRUE, !.hwlp_target_i = target]

\* An answer comes at the earliest one cycle after the grant.
MayAnswer(rvalid) == rvalid => outstanding # <<>>

\* fetch_ready of the IF stage implies fetch_valid and req.
MayAccept(in) == in.fetch_ready_i => fetch_valid_o(in) /\ in.req_i

Led(ready) == IF ready /\ lead > 0 THEN lead - 1 ELSE lead

Max1(n) == IF n = 0 THEN 1 ELSE n

\* The core asks for nothing while it sleeps; what is in ID then is a WFI, so
\* a further word has to come before HWLP_END-4 is there.
Fetch(req, rvalid, ready, gnt) ==
    LET in == Sequential(req, rvalid, ready)
    IN  /\ req => booted
        /\ MayAnswer(rvalid) /\ MayAccept(in)
        /\ Edge(in, gnt)
        /\ lead' = IF req THEN Led(ready) ELSE Max1(lead)
        /\ UNCHANGED booted

TakeBranch(target, rvalid, gnt) ==
    /\ MayAnswer(rvalid)
    /\ Edge(Branching(target, rvalid), gnt)
    /\ lead' = 1
    /\ booted' = TRUE

\* The instruction in ID is HWLP_END-4, the next word is HWLP_END.
HwlpTurn(target, rvalid, ready, gnt) ==
    LET in == Looping(target, rvalid, ready)
    IN  /\ COREV_PULP
        /\ booted /\ lead = 0
        /\ MayAnswer(rvalid) /\ MayAccept(in)
        /\ Edge(in, gnt)
        /\ lead' = IF ready THEN LOOP_LEAD - 1 ELSE LOOP_LEAD
        /\ UNCHANGED booted

Init ==
    /\ ControllerInit
    /\ Fifo!QueueInit
    /\ Obi!ObiInit(0)
    /\ outstanding = <<>>
    /\ fetched = 0
    /\ booted = FALSE
    /\ lead = 1

Next ==
    \E rvalid, gnt \in BOOLEAN :
        \/ \E req, ready \in BOOLEAN : Fetch(req, rvalid, ready, gnt)
        \/ \E target \in BranchTargets : TakeBranch(target, rvalid, gnt)
        \/ \E target \in LoopStarts, ready \in BOOLEAN : HwlpTurn(target, rvalid, ready, gnt)

Spec == Init /\ [][Next]_vars
-----------------------------------------------------------------------------
(* Properties *)

\* Transactions the controller has been told are accepted, oldest first: those
\* granted by the memory and the one the OBI interface still holds.
Accepted ==
    IF obi_state_q = "REGISTERED" THEN Append(outstanding, obi_a_q) ELSE outstanding

\* Every register and input stays in its range.
TypeOK ==
    /\ state_q \in {"IDLE", "BRANCH_WAIT"}
    /\ cnt_q \in 0 .. DEPTH
    /\ flush_cnt_q \in 0 .. DEPTH
    /\ trans_addr_q \in Addr
    /\ hwlp_flush_after_resp \in BOOLEAN
    /\ hwlp_flush_cnt_delayed_q \in 0 .. DEPTH
    /\ queue \in Seq(Addr) /\ Len(queue) <= DEPTH
    /\ obi_state_q \in {"TRANSPARENT", "REGISTERED"}
    /\ obi_a_q \in Addr
    /\ outstanding \in Seq(Addr)
    /\ fetched \in Addr
    /\ booted \in BOOLEAN
    /\ lead \in 0 .. LOOP_LEAD

\* The transaction counter, kept by the controller from the handshakes it sees,
\* is the number of transactions really under way, although a request may sit
\* unseen in the OBI interface for any number of cycles.
CountIsOutstanding == cnt_q = Len(Accepted)

\* How many of the accepted transactions are still wanted.
ToFlush == IF hwlp_flush_after_resp THEN hwlp_flush_cnt_delayed_q ELSE flush_cnt_q

\* Every wanted answer under way has a place in the FIFO waiting for it, whatever
\* the IF stage does: this is why no answer is ever dropped for lack of room.
RoomForAnswers == Len(queue) + cnt_q - ToFlush <= DEPTH

\* Assertion full_write of the FIFO and the absence of flushes that count more
\* answers than will come.
NeverTooManyFlushes == ToFlush <= cnt_q

\* p_hwlp_end_already_gnt_when_hwlp_branch: when a loop may turn, HWLP_END has
\* been accepted, is in the FIFO or arrives: otherwise the jump would overtake it.
HwlpEndIsRequested ==
    COREV_PULP /\ booted /\ lead = 0 => cnt_q > 0 \/ queue # <<>>
-----------------------------------------------------------------------------
(* The stream of words the prefetch buffer is committed to *)

\* The wanted words, in the FIFO or under way, oldest first.  While a flush waits
\* for HWLP_END, that word comes first and is followed by the answers to flush.
Wanted ==
    LET keep == IF hwlp_flush_after_resp THEN 1 ELSE 0
    IN  queue \o SubSeq(Accepted, 1, keep)
              \o SubSeq(Accepted, keep + ToFlush + 1, Len(Accepted))

\* The address of the first word that has not been requested yet.
ToRequest == IF state_q = "BRANCH_WAIT" THEN trans_addr_q ELSE Incr(trans_addr_q)

NextWanted == IF Len(Wanted) > 0 THEN Wanted[1] ELSE ToRequest

AfterWanted ==
    CASE Len(Wanted) > 1 -> Wanted[2]
      [] Len(Wanted) = 1 -> ToRequest
      [] OTHER           -> Incr(ToRequest)

Stream == INSTANCE FetchStream WITH next <- NextWanted, after <- AfterWanted

\* What the IF stage asks of a cycle is what happens to the stream, for the word it
\* takes, the very target it branches to and the very start its loop turns to.
DoesAsAsked ==
    \A rvalid, gnt \in BOOLEAN :
        /\ \A req, ready \in BOOLEAN : Fetch(req, rvalid, ready, gnt) =>
              IF ready THEN Stream!Deliver ELSE UNCHANGED Stream!streamVars
        /\ \A target \in BranchTargets : TakeBranch(target, rvalid, gnt) =>
              Stream!Branch(target)
        /\ \A target \in LoopStarts, ready \in BOOLEAN : HwlpTurn(target, rvalid, ready, gnt) =>
              IF ready THEN Stream!HwlpJumpDeliver(target) ELSE Stream!HwlpJump(target)

\* Whatever the interleaving of grants, answers, stalls, branches and loop turns,
\* the IF stage is handed the words of the instruction stream it asked for: none is
\* skipped, repeated, stale (requested before a branch) or from beyond the end of a
\* loop.
HandsOverTheStream == Stream!StreamSpec /\ [][DoesAsAsked]_vars
-----------------------------------------------------------------------------
(* Progress *)

Granted ==
    \E rvalid, ready \in BOOLEAN :
        /\ Obi!obi_req_o(trans_valid_o(Sequential(TRUE, rvalid, ready)))
        /\ Fetch(TRUE, rvalid, ready, TRUE)
Answered == \E req, ready, gnt \in BOOLEAN : Fetch(req, TRUE, ready, gnt)
Taken    == \E rvalid, gnt \in BOOLEAN : Fetch(TRUE, rvalid, TRUE, gnt)

\* The memory grants and answers what it is asked; a core that is awake and does
\* not branch for ever takes a word it can have.
Fairness == WF_vars(Granted) /\ WF_vars(Answered) /\ WF_vars(Taken)

FairSpec == Spec /\ Fairness

HandsOver ==
    \E rvalid, gnt \in BOOLEAN :
        \/ Fetch(TRUE, rvalid, TRUE, gnt)
        \/ \E target \in LoopStarts : HwlpTurn(target, rvalid, TRUE, gnt)

Branches ==
    \E rvalid, gnt \in BOOLEAN, target \in BranchTargets : TakeBranch(target, rvalid, gnt)

\* The prefetch buffer never gets stuck: once the core has booted, words keep
\* being handed over, unless branches keep throwing them away.
WordsKeepComing == <>booted => []<><<HandsOver \/ Branches>>_vars
=============================================================================
