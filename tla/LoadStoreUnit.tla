--------------------------- MODULE LoadStoreUnit ---------------------------
(***************************************************************************)
(* cv32e40p_load_store_unit: turns the access in the EX stage into one bus *)
(* transaction, or two when it crosses a word boundary, and puts the bytes *)
(* of the answers together.                                                *)
(*                                                                         *)
(* One step is one rising edge of clk.  "ex" is the access part of the     *)
(* ID/EX pipeline register; "bus" holds the inputs of the cycle: gnt,      *)
(* rvalid and rdata.  Bytes are opaque; a word is a function of its lanes. *)
(***************************************************************************)
EXTENDS Integers, FiniteSets

CONSTANT PULP_OBI       \* parameter PULP_OBI # 0

VARIABLES
    cnt_q,              \* transactions accepted and not yet answered
    wb_ctrl_q,          \* data_type_q, rdata_offset_q, data_sign_ext_q, data_we_q, data_load_event_q
    rdata_q             \* the last data read, raw when it is half of an access

lsuVars == <<cnt_q, wb_ctrl_q, rdata_q>>

\* localparam DEPTH
LSU_DEPTH == 2

Lanes == 0 .. 3

\* Bytes are triples: origin, position and whether all bits repeat its top bit.
Byte(origin, position) == <<origin, position, "byte">>
SignOf(byte) == <<byte[1], byte[2], "sign">>
Zeros == <<0, 0, "zeros">>
Ones  == <<0, 0, "ones">>
ZeroWord == [l \in Lanes |-> Zeros]

LsuInit ==
    /\ cnt_q = 0
    /\ wb_ctrl_q = [type |-> "word", offset |-> 0, sign |-> 0, we |-> FALSE, load_event |-> FALSE]
    /\ rdata_q = ZeroWord
-----------------------------------------------------------------------------
(* The request *)

Offset(ex) == ex.addr % 4

\* The access needs a second transaction and this is the first.
data_misaligned_o(ex) ==
    /\ ex.req /\ ~ex.misaligned
    /\ \/ ex.type = "word" /\ Offset(ex) # 0
       \/ ex.type = "half" /\ Offset(ex) = 3

\* The lanes of the word the transaction is about.
data_be(ex) ==
    CASE ex.type = "word" /\ ~ex.misaligned -> {l \in Lanes : l >= Offset(ex)}
      [] ex.type = "word" /\ ex.misaligned  -> {l \in Lanes : l < Offset(ex)}
      [] ex.type = "half" /\ ~ex.misaligned -> {Offset(ex), Offset(ex) + 1} \cap Lanes
      [] ex.type = "half" /\ ex.misaligned  -> {0}
      [] ex.type = "byte"                   -> {Offset(ex)}

\* The register rotated so that its first byte is in the lane of the address.
data_wdata(ex) ==
    LET wdata_offset == (Offset(ex) - ex.reg_offset) % 4
    IN  [l \in Lanes |-> ex.wdata[(l - wdata_offset) % 4]]

trans_addr(ex) == IF ex.misaligned THEN ex.addr - Offset(ex) ELSE ex.addr

trans_valid(ex, bus) ==
    /\ ex.req
    /\ cnt_q < LSU_DEPTH
    /\ (PULP_OBI /\ cnt_q # 0) => bus.rvalid

Transaction(ex) ==
    [addr |-> trans_addr(ex), we |-> ex.we, be |-> data_be(ex), wdata |-> data_wdata(ex)]

busy_o(ex, bus) == cnt_q # 0 \/ trans_valid(ex, bus)

\* The OBI interface is transparent here (TRANS_STABLE = 1): accepted is granted.
Accepted(ex, bus) == trans_valid(ex, bus) /\ bus.gnt
-----------------------------------------------------------------------------
(* Handshakes with the pipeline *)

lsu_ready_wb_o(bus) == cnt_q = 0 \/ bus.rvalid

\* Slips the runs must notice: an access that was accepted early waits to be accepted
\* again; EX moves on although its own request was not accepted.
lsu_ready_ex_o_stuck(ex, bus) ==
    \/ ~ex.req
    \/ cnt_q = 0 /\ Accepted(ex, bus)
    \/ cnt_q > 0 /\ bus.rvalid /\ Accepted(ex, bus)

lsu_ready_ex_o_lost(ex, bus) ==
    \/ ~ex.req
    \/ cnt_q = 0 /\ Accepted(ex, bus)
    \/ cnt_q > 0 /\ bus.rvalid

lsu_ready_ex_o(ex, bus) ==
    \/ ~ex.req
    \/ cnt_q = 0 /\ Accepted(ex, bus)
    \/ cnt_q = 1 /\ bus.rvalid /\ Accepted(ex, bus)
    \/ cnt_q = LSU_DEPTH /\ bus.rvalid

\* The access of the EX stage moves to WB.
ctrl_update(ex, bus) == ex.req /\ lsu_ready_ex_o(ex, bus)

\* cv.elw starts when it is requested and ends with its last answer.
p_elw_start_o(ex, bus) == ex.req /\ ex.load_event /\ trans_valid(ex, bus)

\* A slip the runs must notice: the first half of a misaligned cv.elw ends it.
p_elw_finish_o_early(ex, bus) == wb_ctrl_q.load_event /\ bus.rvalid

p_elw_finish_o(ex, bus) == wb_ctrl_q.load_event /\ bus.rvalid /\ ~ex.misaligned
-----------------------------------------------------------------------------
(* The data read *)

Fill(byte) ==
    CASE wb_ctrl_q.sign = 0 -> Zeros
      [] wb_ctrl_q.sign = 2 -> Ones
      [] OTHER              -> SignOf(byte)

\* An unaligned word: the end of the first answer, then the start of the second.
rdata_w_ext(resp) ==
    LET k == wb_ctrl_q.offset
    IN  [l \in Lanes |-> IF k = 0 THEN resp[l]
                         ELSE IF l + k < 4 THEN rdata_q[l + k] ELSE resp[l + k - 4]]

rdata_h_ext(resp) ==
    LET k    == wb_ctrl_q.offset
        low  == IF k = 3 THEN rdata_q[3] ELSE resp[k]
        high == resp[(k + 1) % 4]
    IN  [l \in Lanes |-> CASE l = 0 -> low [] l = 1 -> high [] OTHER -> Fill(high)]

rdata_b_ext(resp) ==
    LET b == resp[wb_ctrl_q.offset]
    IN  [l \in Lanes |-> IF l = 0 THEN b ELSE Fill(b)]

data_rdata_ext(resp) ==
    CASE wb_ctrl_q.type = "word" -> rdata_w_ext(resp)
      [] wb_ctrl_q.type = "half" -> rdata_h_ext(resp)
      [] wb_ctrl_q.type = "byte" -> rdata_b_ext(resp)

data_rdata_ex_o(bus) == IF bus.rvalid THEN data_rdata_ext(bus.rdata) ELSE rdata_q

\* A slip the runs must notice: the first half is not kept as it came.
next_rdata_extended(ex, bus) ==
    IF bus.rvalid /\ ~wb_ctrl_q.we THEN data_rdata_ext(bus.rdata) ELSE rdata_q

next_rdata(ex, bus) ==
    IF bus.rvalid /\ ~wb_ctrl_q.we
    THEN IF ex.misaligned \/ data_misaligned_o(ex)
         THEN bus.rdata ELSE data_rdata_ext(bus.rdata)
    ELSE rdata_q
-----------------------------------------------------------------------------
\* A slip the runs must notice: an answer in the cycle of a grant is not counted.
next_cnt_both(ex, bus) ==
    CASE Accepted(ex, bus)                -> cnt_q + 1
      [] ~Accepted(ex, bus) /\ bus.rvalid -> cnt_q - 1
      [] OTHER                            -> cnt_q

next_cnt(ex, bus) ==
    CASE Accepted(ex, bus) /\ ~bus.rvalid -> cnt_q + 1
      [] ~Accepted(ex, bus) /\ bus.rvalid -> cnt_q - 1
      [] OTHER                            -> cnt_q

LsuEdge(ex, bus) ==
    /\ cnt_q' = next_cnt(ex, bus)
    /\ rdata_q' = next_rdata(ex, bus)
    /\ wb_ctrl_q' = IF ctrl_update(ex, bus)
                    THEN [type |-> ex.type, offset |-> Offset(ex), sign |-> ex.sign,
                          we |-> ex.we, load_event |-> ex.load_event]
                    ELSE wb_ctrl_q
=============================================================================
