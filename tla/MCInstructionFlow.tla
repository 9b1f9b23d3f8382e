-------------------------- MODULE MCInstructionFlow --------------------------
(***************************************************************************)
(* Programs for InstructionFlow.  A listing names the instructions by the  *)
(* address of their first halfword; the rest of the memory is never run.   *)
(***************************************************************************)
EXTENDS InstructionFlow, TLC

Op(k)           == [kind |-> k]
Goto(k, addr)   == [kind |-> k, to |-> addr]
Mie(value)      == [kind |-> "mie", value |-> value]
Hwloop(k, fields, start, end, count) ==
    [kind |-> "hwloop", loop |-> k, fields |-> fields, start |-> start, end |-> end, count |-> count]

Memory(listing) == listing @@ [addr \in Addresses |-> Op("plain")]

Running  == [step |-> FALSE, ebreakm |-> FALSE, trigger |-> -1]
OnlyRunning == {Running}

\* Compressed and misaligned code, a branch that is taken or not, nested loops
\* with CSR instructions inside and at the end, wfi, and the handlers.
LoopWide == {1, 4} \cup {8 + 2 * n : n \in 0 .. 14}
LoopListing ==
    1 :> Mie(TRUE) @@ 3 :> Goto("branch", 7) @@ 4 :> Goto("jalr", 7) @@
    8 :> Hwloop(0, {"start"}, 16, 0, 0) @@ 10 :> Hwloop(0, {"end"}, 0, 22, 0) @@
    12 :> Hwloop(1, {"start", "end", "count"}, 14, 26, 2) @@
    14 :> Hwloop(0, {"count"}, 0, 0, 2) @@ 16 :> Op("csr") @@ 24 :> Op("csr") @@
    26 :> Op("wfi") @@ 28 :> Goto("jal", 0) @@
    32 :> Op("mret") @@
    34 :> Op("skip") @@ 36 :> Op("mret")

\* Exceptions, breakpoints and single steps, in and around nested loops.
DebugWide == {1, 5} \cup {8 + 2 * n : n \in 0 .. 17}
DebugProgram == Memory(
    3 :> Op("ebreak") @@ 4 :> Goto("branch", 7) @@ 5 :> Op("fencei") @@
    8 :> Hwloop(1, {"start", "end", "count"}, 10, 26, 2) @@
    10 :> Hwloop(0, {"start", "end", "count"}, 12, 20, 2) @@
    20 :> Op("illegal") @@ 22 :> Op("csr") @@ 26 :> Op("ecall") @@
    28 :> Op("wfi") @@ 30 :> Goto("jalr", 0) @@
    32 :> Op("mret") @@
    34 :> Op("skip") @@ 36 :> Op("mret") @@
    38 :> Op("dcsr") @@ 40 :> Op("dret") @@
    42 :> Op("ebreak"))

StepSettings == {Running, [Running EXCEPT !.step = TRUE]}

\* Interrupts and debug requests together, asleep, in a loop, at a branch and at a jump.
RaceWide == {2 * n : n \in 0 .. 4} \cup {10, 14, 16, 18}
RaceProgram == Memory(
    0 :> Mie(TRUE) @@ 2 :> Hwloop(0, {"start", "end", "count"}, 4, 10, 2) @@
    10 :> Op("wfi") @@ 12 :> Goto("branch", 13) @@ 13 :> Goto("jal", 13) @@
    14 :> Op("mret") @@ 16 :> Op("dcsr") @@ 18 :> Op("dret"))

DebugSettings == {[Running EXCEPT !.step = TRUE], [Running EXCEPT !.ebreakm = TRUE, !.trigger = 14]}

\* The body of a loop that is switched off, ended by a CSR instruction.
SmallWide == {2 * n : n \in 0 .. 8}
Handlers == 12 :> Op("mret") @@ 14 :> Op("dcsr") @@ 16 :> Op("dret")
EmptyLoopProgram == Memory(Handlers @@
    0 :> Hwloop(0, {"start"}, 4, 0, 0) @@ 2 :> Hwloop(0, {"end"}, 0, 10, 0) @@
    8 :> Op("csr") @@ 10 :> Goto("jal", 10))

\* A loop whose last instruction is a CSR instruction, to be single-stepped.
CsrLoopProgram == Memory(Handlers @@
    0 :> Hwloop(0, {"start", "end", "count"}, 2, 8, 2) @@
    6 :> Op("csr") @@ 8 :> Goto("jal", 8))
=============================================================================
