------------------------------- MODULE MulDiv -------------------------------
(***************************************************************************)
(* The two units of the EX stage that take several cycles and keep state   *)
(* of their own: the MULH sequence of cv32e40p_mult and the divider        *)
(* cv32e40p_alu_div.  Control only: "ex.kind" is what the EX stage holds.  *)
(***************************************************************************)
VARIABLES
    mulh_CS,        \* state of the MULH sequence
    div_state       \* State_SP of the divider

mulDivVars == <<mulh_CS, div_state>>

MulhStates == {"IDLE_MULT", "STEP0", "STEP1", "STEP2", "FINISH"}
DivStates  == {"IDLE", "DIVIDE", "FINISH"}

MulDivInit == mulh_CS = "IDLE_MULT" /\ div_state = "IDLE"

mulh_active_o == mulh_CS # "IDLE_MULT"
multicycle_o  == mulh_CS \in {"STEP0", "STEP1", "STEP2"}

mult_ready(ex) == mulh_CS = "FINISH" \/ (mulh_CS = "IDLE_MULT" /\ ex.kind # "mulh")

\* OutVld_SO
alu_ready(ex) == div_state = "FINISH" \/ (div_state = "IDLE" /\ ex.kind # "div")

\* A slip the runs must notice: the sequence starts anew while the EX stage stalls.
next_mulh_restart(ex, ex_ready) ==
    CASE mulh_CS = "IDLE_MULT" -> IF ex.kind = "mulh" THEN "STEP0" ELSE "IDLE_MULT"
      [] mulh_CS = "STEP0"     -> "STEP1"
      [] mulh_CS = "STEP1"     -> "STEP2"
      [] mulh_CS = "STEP2"     -> "FINISH"
      [] mulh_CS = "FINISH"    -> "STEP0"

next_mulh(ex, ex_ready) ==
    CASE mulh_CS = "IDLE_MULT" -> IF ex.kind = "mulh" THEN "STEP0" ELSE "IDLE_MULT"
      [] mulh_CS = "STEP0"     -> "STEP1"
      [] mulh_CS = "STEP1"     -> "STEP2"
      [] mulh_CS = "STEP2"     -> "FINISH"
      [] mulh_CS = "FINISH"    -> IF ex_ready THEN "IDLE_MULT" ELSE "FINISH"

\* The number of steps depends on the operands: cnt_zero is free.
next_div(ex, ex_ready, cnt_zero) ==
    CASE div_state = "IDLE"   -> IF ex.kind = "div" THEN "DIVIDE" ELSE "IDLE"
      [] div_state = "DIVIDE" -> IF cnt_zero THEN "FINISH" ELSE "DIVIDE"
      [] div_state = "FINISH" -> IF ex_ready THEN "IDLE" ELSE "FINISH"

MulDivEdge(ex, ex_ready, cnt_zero) ==
    /\ mulh_CS' = next_mulh(ex, ex_ready)
    /\ div_state' = next_div(ex, ex_ready, cnt_zero)
=============================================================================
