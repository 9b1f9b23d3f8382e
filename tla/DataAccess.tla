----------------------------- MODULE DataAccess -----------------------------
(***************************************************************************)
(* Loads and stores from the ID/EX pipeline register to the register file: *)
(* the load-store unit between the pipeline, which issues accesses, runs   *)
(* other instructions in between and stalls, and the data memory, which    *)
(* grants and answers in order, when it likes.                             *)
(***************************************************************************)
EXTENDS LoadStoreUnit, Sequences

CONSTANTS
    BYTES,          \* size of the address space, a multiple of 4
    Accesses,       \* accesses the decoder may issue
    MAX_STORES      \* bound on the stores of a run

ASSUME DataAccessAssumption ==
    /\ PULP_OBI \in BOOLEAN
    /\ BYTES \in Nat \ {0} /\ BYTES % 4 = 0
    /\ MAX_STORES \in Nat
    /\ Accesses \subseteq [we : BOOLEAN, type : {"word", "half", "byte"}, sign : 0 .. 2,
                           addr : 0 .. BYTES - 1, load_event : BOOLEAN]
    /\ \A access \in Accesses : access.load_event => ~access.we

VARIABLES
    ex,             \* ID/EX pipeline register, access part
    branch_in_ex,   \* ID/EX: a conditional branch is in EX
    regfile_we_lsu, \* EX/WB pipeline register: a load is in WB
    p_elw_busy_q,   \* sleep unit: a cv.elw is under way
    mem,            \* the memory, byte by byte
    answers,        \* memory: words to answer, oldest first
    waiting,        \* bus: the transaction that was requested and not granted, if any
    stores,         \* number of stores issued: names the bytes of their data
    due, loaded     \* what the loads should return and have returned

vars == <<lsuVars, ex, branch_in_ex, regfile_we_lsu, p_elw_busy_q, mem, answers,
          waiting, stores, due, loaded>>

NoTransaction == [addr |-> 0, we |-> FALSE, be |-> {}, wdata |-> ZeroWord]
StoreWord(n) == [l \in Lanes |-> Byte(n, l)]
InitialMemory == [a \in 0 .. BYTES - 1 |-> Byte(0, a)]

NoAccess == [req |-> FALSE, misaligned |-> FALSE, we |-> FALSE, type |-> "word", sign |-> 0,
             addr |-> 0, reg_offset |-> 0, wdata |-> ZeroWord, load_event |-> FALSE]

\* The decoder only uses register offset 0.
InEx(access) ==
    [req |-> TRUE, misaligned |-> FALSE, we |-> access.we, type |-> access.type,
     sign |-> access.sign, addr |-> access.addr, reg_offset |-> 0,
     wdata |-> IF access.we THEN StoreWord(stores + 1) ELSE ZeroWord,
     load_event |-> access.load_event]

\* The memory the program sees: the store in EX counts as done.
ArchMemory ==
    LET start == IF ex.misaligned THEN (ex.addr - 4) % BYTES ELSE ex.addr
        size  == CASE ex.type = "word" -> 4 [] ex.type = "half" -> 2 [] ex.type = "byte" -> 1
    IN  [a \in 0 .. BYTES - 1 |->
            LET l == (a - start) % BYTES
            IN  IF ex.req /\ ex.we /\ l < size THEN ex.wdata[l] ELSE mem[a]]

Program == INSTANCE ProgramOrderMemory
           WITH memory <- ArchMemory, Initial <- InitialMemory,
                StoreData <- {StoreWord(n) : n \in 1 .. MAX_STORES}
-----------------------------------------------------------------------------
(* The data memory: a granted transaction is performed and its answer queued. *)

MemoryEdge(bus) ==
    LET t    == Transaction(ex)
        base == t.addr - (t.addr % 4)
        rest == IF bus.rvalid THEN Tail(answers) ELSE answers
    IN  /\ waiting' = IF trans_valid(ex, bus) /\ ~bus.gnt THEN t ELSE NoTransaction
        /\ IF Accepted(ex, bus)
           THEN /\ answers' = Append(rest, [l \in Lanes |-> mem[base + l]])
                /\ mem' = IF t.we
                          THEN [a \in 0 .. BYTES - 1 |->
                                  IF a - base \in t.be THEN t.wdata[a - base] ELSE mem[a]]
                          ELSE mem
           ELSE answers' = rest /\ UNCHANGED mem
-----------------------------------------------------------------------------
(* The pipeline around the unit *)

\* other_ready: no multi-cycle instruction keeps the EX stage.
ex_ready(bus, other_ready) ==
    (other_ready /\ lsu_ready_ex_o(ex, bus) /\ lsu_ready_wb_o(bus)) \/ branch_in_ex

\* The load in WB writes the register file.
WritesBack(bus) == regfile_we_lsu /\ lsu_ready_wb_o(bus) /\ ~ex.misaligned

\* All that happens at a clock edge but the ID/EX register.
RestOfEdge(bus) ==
    /\ LsuEdge(ex, bus)
    /\ MemoryEdge(bus)
    /\ regfile_we_lsu' = IF ctrl_update(ex, bus) THEN ~ex.we
                         ELSE regfile_we_lsu /\ ~lsu_ready_wb_o(bus)
    /\ p_elw_busy_q' = (p_elw_start_o(ex, bus) \/ (p_elw_busy_q /\ ~p_elw_finish_o(ex, bus)))
    /\ loaded' = IF WritesBack(bus) THEN data_rdata_ex_o(bus) ELSE loaded

StillDue(bus) == IF WritesBack(bus) THEN Tail(due) ELSE due

Stall(bus, other_ready) ==
    /\ ~ex_ready(bus, other_ready)
    /\ RestOfEdge(bus)
    /\ due' = StillDue(bus)
    /\ UNCHANGED <<ex, branch_in_ex, stores>>

\* A misaligned access stays in EX with the address of its next word.
SecondHalf(bus, other_ready) ==
    /\ data_misaligned_o(ex) /\ ex_ready(bus, other_ready)
    /\ RestOfEdge(bus)
    /\ ex' = [ex EXCEPT !.addr = (@ + 4) % BYTES, !.misaligned = TRUE]
    /\ due' = StillDue(bus)
    /\ UNCHANGED <<branch_in_ex, stores>>

\* The controller lets nothing but a bubble follow a cv.elw into EX (ELW_EXE).
MayFollow == ~(ex.req /\ ex.load_event)

\* Something else than an access enters EX: a branch, another instruction or a bubble.
Other(bus, other_ready, branch) ==
    /\ ~data_misaligned_o(ex) /\ ex_ready(bus, other_ready)
    /\ branch => MayFollow
    /\ RestOfEdge(bus)
    /\ ex' = NoAccess
    /\ branch_in_ex' = branch
    /\ due' = StillDue(bus)
    /\ UNCHANGED stores

Issue(bus, other_ready, access) ==
    /\ ~data_misaligned_o(ex) /\ ex_ready(bus, other_ready)
    /\ MayFollow
    /\ access.we => stores < MAX_STORES
    /\ RestOfEdge(bus)
    /\ ex' = InEx(access)
    /\ branch_in_ex' = FALSE
    /\ stores' = IF access.we THEN stores + 1 ELSE stores
    /\ due' = IF access.we THEN StillDue(bus)
              ELSE Append(StillDue(bus), Program!ReadFrom(ArchMemory, access))

Init ==
    /\ LsuInit
    /\ ex = NoAccess /\ branch_in_ex = FALSE
    /\ regfile_we_lsu = FALSE /\ p_elw_busy_q = FALSE
    /\ mem = InitialMemory /\ answers = <<>> /\ waiting = NoTransaction
    /\ stores = 0 /\ due = <<>> /\ loaded = ZeroWord

Bus(gnt, rvalid) ==
    [gnt |-> gnt, rvalid |-> rvalid, rdata |-> IF rvalid THEN Head(answers) ELSE ZeroWord]

\* An access is alone in EX: no other unit keeps it there.
Cycle(gnt, rvalid, other_ready) ==
    LET bus == Bus(gnt, rvalid)
    IN  /\ rvalid => answers # <<>>
        /\ ex.req => other_ready
        /\ \/ Stall(bus, other_ready)
           \/ SecondHalf(bus, other_ready)
           \/ \E branch \in BOOLEAN : Other(bus, other_ready, branch)
           \/ \E access \in Accesses : Issue(bus, other_ready, access)

Next == \E gnt, rvalid, other_ready \in BOOLEAN : Cycle(gnt, rvalid, other_ready)

Spec == Init /\ [][Next]_vars
-----------------------------------------------------------------------------
(* Properties *)

\* The transaction counter is the number of transactions under way, one for the access
\* in WB and one more only while the access in EX has been accepted and waits for WB.
CountIsOutstanding == cnt_q = Len(answers)

\* Loads return, and stores leave behind, what a program that runs one instruction at
\* a time would see, however transactions overlap, are split and are delayed.
KeepsProgramOrder == Program!OrderSpec

Requesting == ex.req /\ cnt_q < LSU_DEPTH

\* What TRANS_STABLE = 1 tells the OBI interface: a request that is not granted stays
\* up, unchanged, although answers arrive and the pipeline moves meanwhile.
RequestsAreStable ==
    waiting # NoTransaction => Requesting /\ Transaction(ex) = waiting

\* The sleep unit takes a cv.elw for finished exactly when its last answer has come,
\* although other loads may be answered while it waits for its grant.
ElwBusyWhileUnderWay ==
    /\ p_elw_busy_q => \/ ex.req /\ ex.load_event
                       \/ regfile_we_lsu /\ wb_ctrl_q.load_event
    /\ regfile_we_lsu /\ wb_ctrl_q.load_event => p_elw_busy_q
-----------------------------------------------------------------------------
(* Progress *)

\* The memory answers, and grants what is requested.
Fairness ==
    /\ WF_vars(\E gnt, other_ready \in BOOLEAN : Cycle(gnt, TRUE, other_ready))
    /\ WF_vars(Requesting /\ \E rvalid, other_ready \in BOOLEAN : Cycle(TRUE, rvalid, other_ready))

FairSpec == Spec /\ Fairness

Delivers ==
    \E gnt, rvalid \in BOOLEAN :
        /\ rvalid => answers # <<>>
        /\ WritesBack(Bus(gnt, rvalid)) /\ RestOfEdge(Bus(gnt, rvalid))

\* No load is forgotten: as long as loads are issued, values are delivered.
LoadsAreDelivered == []<><<Delivers>>_vars \/ <>[](due = <<>>)
=============================================================================
