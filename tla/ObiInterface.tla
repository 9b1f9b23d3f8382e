---------------------------- MODULE ObiInterface ----------------------------
(***************************************************************************)
(* cv32e40p_obi_interface: turns transactions that may change while they   *)
(* wait into OBI requests that may not.  A transaction is whatever travels *)
(* on the A channel (address, write enable, byte enables, data); the R     *)
(* channel is passed on as it comes and has no state.                      *)
(***************************************************************************)
CONSTANT TRANS_STABLE   \* parameter TRANS_STABLE: trans_* never changes while it waits

VARIABLES
    obi_state_q,        \* state_q: TRANSPARENT or REGISTERED
    obi_a_q             \* obi_addr_q, obi_we_q, ...: the A channel in state REGISTERED

obiVars == <<obi_state_q, obi_a_q>>

ObiInit(reset_a) == obi_state_q = "TRANSPARENT" /\ obi_a_q = reset_a

obi_req_o(trans_valid_i) == obi_state_q = "REGISTERED" \/ trans_valid_i

obi_a_o(trans_i) == IF obi_state_q = "REGISTERED" THEN obi_a_q ELSE trans_i

trans_ready_o(obi_gnt_i) ==
    IF TRANS_STABLE THEN obi_gnt_i ELSE obi_state_q = "TRANSPARENT"

\* A request that is not granted at once is registered.
Register(trans_valid_i, trans_i, obi_gnt_i) ==
    /\ ~TRANS_STABLE
    /\ obi_state_q = "TRANSPARENT" /\ trans_valid_i /\ ~obi_gnt_i
    /\ obi_state_q' = "REGISTERED"
    /\ obi_a_q' = trans_i

\* The registered request is granted.
Release(obi_gnt_i) ==
    /\ obi_state_q = "REGISTERED" /\ obi_gnt_i
    /\ obi_state_q' = "TRANSPARENT"
    /\ obi_a_q' = obi_a_q

ObiHold(trans_valid_i, obi_gnt_i) ==
    /\ IF obi_state_q = "REGISTERED" THEN ~obi_gnt_i
       ELSE TRANS_STABLE \/ ~trans_valid_i \/ obi_gnt_i
    /\ UNCHANGED obiVars

ObiEdge(trans_valid_i, trans_i, obi_gnt_i) ==
    \/ Register(trans_valid_i, trans_i, obi_gnt_i)
    \/ Release(obi_gnt_i)
    \/ ObiHold(trans_valid_i, obi_gnt_i)
=============================================================================
