--------------------------- MODULE ApuDispatcher ---------------------------
(***************************************************************************)
(* cv32e40p_apu_disp: remembers which registers the operations under way   *)
(* in the FPU will write, in order, and keeps apart what would overtake or *)
(* overwrite them.                                                         *)
(*                                                                         *)
(* "ex" is the ID/EX register: apu_en, apu_lat and apu_waddr; "valid" says *)
(* that a result is taken over in this cycle (apu_rvalid_i of the          *)
(* dispatcher, apu_valid of the EX stage).                                 *)
(***************************************************************************)
EXTENDS Integers

CONSTANTS
    Registers,      \* register addresses, x0 is 0
    NoAddr          \* an empty slot

VARIABLES
    inflight,       \* valid_inflight, addr_inflight: the last request
    waiting,        \* valid_waiting, addr_waiting: the one before
    apu_lat         \* latency class of the last request

dispatcherVars == <<inflight, waiting, apu_lat>>

DispatcherInit == inflight = NoAddr /\ waiting = NoAddr /\ apu_lat = 0

active == inflight # NoAddr \/ waiting # NoAddr
-----------------------------------------------------------------------------
(* The request.  Latency classes: 1 same cycle, 2 next cycle, 3 later. *)

stall_full == inflight # NoAddr /\ waiting # NoAddr

\* A slip the runs must notice: a short operation may overtake a long one.
stall_type_short(ex) == ex.apu_en /\ active /\ ex.apu_lat = 3

\* What could overtake the operation under way waits for it.
stall_type(ex) ==
    /\ ex.apu_en /\ active
    /\ \/ ex.apu_lat \in {1, 3}
       \/ ex.apu_lat = 2 /\ apu_lat = 3

valid_req(ex) == ex.apu_en /\ ~stall_full /\ ~stall_type(ex)

stall_o(ex, gnt) == stall_full \/ stall_type(ex) \/ (valid_req(ex) /\ ~gnt)
-----------------------------------------------------------------------------
(* The answer belongs to the oldest operation. *)

returned_req(ex, valid)  == valid_req(ex) /\ valid /\ ~active
returned_inflight(valid) == inflight # NoAddr /\ valid /\ waiting = NoAddr
returned_waiting(valid)  == waiting # NoAddr /\ valid

apu_waddr_o(ex, valid) ==
    CASE returned_waiting(valid)  -> waiting
      [] returned_inflight(valid) -> inflight
      [] OTHER                    -> ex.apu_waddr

apu_multicycle_o  == apu_lat = 3
apu_singlecycle_o == ~active
-----------------------------------------------------------------------------
(* Dependencies of the instruction in ID *)

\* A slip the runs must notice: the request of this very cycle is not looked at.
dep_slots(ex, valid, reg) ==
    \/ reg = inflight /\ ~returned_inflight(valid)
    \/ reg = waiting /\ ~returned_waiting(valid)

\* read_dep_o and write_dep_o: reg will be written by an operation that is still under way.
dep(ex, valid, reg) ==
    \/ valid_req(ex) /\ reg = ex.apu_waddr /\ ~returned_req(ex, valid)
    \/ reg = inflight /\ ~returned_inflight(valid)
    \/ reg = waiting /\ ~returned_waiting(valid)

read_dep_for_jalr_o(ex, reg) ==
    \/ ex.apu_en /\ reg = ex.apu_waddr
    \/ reg \in {inflight, waiting}
-----------------------------------------------------------------------------
DispatcherEdge(ex, gnt, valid) ==
    /\ IF valid_req(ex) /\ gnt /\ ~returned_req(ex, valid)
       THEN /\ inflight' = ex.apu_waddr
            /\ waiting' = IF \/ inflight # NoAddr /\ ~returned_inflight(valid)
                             \/ returned_waiting(valid)
                          THEN inflight ELSE waiting
       ELSE /\ inflight' = IF returned_inflight(valid) THEN NoAddr ELSE inflight
            /\ waiting' = IF valid THEN NoAddr ELSE waiting
    /\ apu_lat' = IF valid_req(ex) THEN ex.apu_lat ELSE apu_lat
=============================================================================
