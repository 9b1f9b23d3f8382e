---------------------------- MODULE HwlpProgram ----------------------------
(***************************************************************************)
(* The hardware loop tests on the core: FlowProgress with the registers    *)
(* and stack slots of the programs, which change when the core hands an    *)
(* instruction over to EX.                                                 *)
(***************************************************************************)
EXTENDS FlowProgress, HwlpTest

CONSTANTS
    TESTS,      \* where the tests begin
    Place       \* the part of the software an address belongs to

\* The kth instruction of the tests, all of which take 32 bits.
At(k) == TESTS + 2 * (k - 1)

\* Where the instruction at addr leads without a trap, hardware loops apart.
LeadsTo(addr) ==
    CASE Program[addr].kind \in {"jal", "jalr"} -> {Program[addr].to}
      [] Program[addr].kind = "branch" -> {Program[addr].to, Following(addr)}
      [] OTHER -> {Following(addr)}

\* The instruction at addr has nothing to do with the tests.
IsApart(addr) == DOMAIN Program[addr] \cap {"effect", "result"} = {}

\* What the tests rely on: they lie in one piece with nothing between their instructions, what
\* runs before and behind them keeps away from their registers and loops and from the end of
\* the memory, a handler returns, behind the instruction if that trapped, and the debugger
\* leaves the program as it is.  What runs beside them has loops of its own.
ASSUME LayoutAssumption ==
    /\ TESTS \in Nat /\ TESTS % 2 = 0 /\ At(Len(Main) + 2) < HALFWORDS
    /\ DOMAIN Place = Addresses
    /\ Place[BOOT] = "before" /\ Place[0] = "beside" /\ Place[At(Len(Main) + 1)] = "behind"
    /\ \A addr \in Addresses : Place[addr] = "tests" <=> \E k \in 1 .. Len(Main) : addr = At(k)
    /\ \A addr \in TESTS .. At(Len(Main) + 1) : addr % 2 = 1 => Place[addr] = "nothing"
    /\ {Place[HALFWORDS - 2], Place[HALFWORDS - 1]} \subseteq {"beside", "nothing"}
    /\ \A k \in 1 .. Len(Main) : At(k) \in Wide /\ Program[At(k)] = Assembled(At(k), Main[k])
    /\ \A addr \in Addresses : Place[addr] = "before" =>
         /\ IsApart(addr) /\ Program[addr].kind \notin {"hwloop", "mret", "skip"}
         /\ \A to \in LeadsTo(addr) : to = TESTS \/ Place[to] \in {"before", "beside"}
    /\ \A addr \in Addresses : Place[addr] = "beside" =>
         /\ IsApart(addr) /\ Program[addr].kind \notin {"mret", "skip"}
         /\ \A to \in LeadsTo(addr) : Place[to] = "beside"
         /\ Program[addr].kind = "hwloop" =>
              /\ "start" \in Program[addr].fields => Place[2 * (Program[addr].start \div 2)] = "beside"
              /\ "end" \in Program[addr].fields /\ Program[addr].end > 1 =>
                   Place[2 * (Program[addr].end \div 2) - 2] = "beside"
    /\ \A addr \in Addresses : Place[addr] = "behind" =>
         /\ IsApart(addr) /\ Program[addr].kind \notin {"hwloop", "mret", "skip"}
         /\ \A to \in LeadsTo(addr) : Place[to] = "behind"
    /\ Place[DM_HALT] = "debugger" /\ Place[DM_EXCEPTION] = "debugger"
    /\ \A addr \in Addresses : Place[addr] = "debugger" =>
         /\ IsApart(addr) /\ Program[addr].kind \notin {"hwloop", "skip", "mie"}
         /\ Program[addr].kind # "dret" => \A to \in LeadsTo(addr) : Place[to] = "debugger"
    /\ {addr \in Addresses : Place[addr] = "handler"} = {IRQ_VECTOR, MTVEC, Following(MTVEC)}
    /\ MTVEC # IRQ_VECTOR /\ Following(MTVEC) \notin {IRQ_VECTOR, MTVEC}
    /\ Program[MTVEC] = [kind |-> "skip"]
    /\ Program[IRQ_VECTOR] = [kind |-> "mret"] /\ Program[Following(MTVEC)] = [kind |-> "mret"]

VARIABLE names      \* what the registers and stack slots hold

testVars == <<vars, beat, names>>

\* What has gone to EX in this cycle takes effect; a CSR instruction has one that EX holds until
\* it is done, like a load or a division: no other instruction sees the difference.
Effects == names' = IF ex'.kind \in {"plain", "csr"} THEN Executed(names, ex'.value) ELSE names

TestInit == BeatInit /\ names = NamesInit

\* The tests end by themselves: the beat is kept in what runs before and behind them and in
\* the handlers.
InTests == pc_id \in TESTS .. At(Len(Main) + 1)

TestNext ==
    /\ \/ ~InTests /\ BeatNext
       \/ InTests /\ Next /\ beat' = FALSE
    /\ Effects

TestSpec == TestInit /\ [][TestNext]_testVars /\ WF_beat(beat' = ~beat)
-----------------------------------------------------------------------------
\* Every test leaves the result the header promises, whatever stalls and traps hit its
\* loops: no round is lost or made twice, and no instruction of a body.
ResultIsExpected ==
    LET instr == Program[pc_id]
    IN  /\ ctrl_fsm_cs \in {"DECODE", "DECODE_HWLOOP"} /\ instr_valid_id /\ ~branch_taken_ex
        /\ "result" \in DOMAIN instr
        => names[instr.effect.a] = instr.result
============================================================================
