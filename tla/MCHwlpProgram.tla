--------------------------- MODULE MCHwlpProgram ---------------------------
(***************************************************************************)
(* HwlpProgram beside the endless program of LoopListing: a branch at 38,  *)
(* where the core boots, leads to the one or the other.                    *)
(***************************************************************************)
EXTENDS HwlpProgram, MCInstructionFlow

TestWide == LoopWide \cup {addr \in 38 .. HALFWORDS - 3 : addr % 2 = 0}

\* The tests, 32 bits each, and what is before and behind them.
Listing ==
    LET before ==
            LoopListing @@ 30 :> Op("dret") @@
            38 :> Goto("branch", TESTS) @@ 40 :> Goto("jal", 0) @@ 42 :> Goto("jal", 42) @@
            [addr \in 0 .. TESTS - 1 |-> Op("plain")]
        tests ==
            [n \in 1 .. 2 * Len(Main) |->
               IF n % 2 = 1 THEN Assembled(TESTS + n - 1, Main[(n + 1) \div 2]) ELSE Goto("jal", 42)]
    IN  [n \in 1 .. TESTS |-> before[n - 1]] \o tests
        \o [n \in 1 .. HALFWORDS - At(Len(Main) + 1) |-> Goto("jal", 42)]

TestProgram == LET listing == Listing IN [addr \in Addresses |-> listing[addr + 1]]

TestPlace ==
    [addr \in Addresses |->
       CASE addr \in {0, 1, 3, 4, 7} \cup {8 + 2 * n : n \in 0 .. 10} -> "beside"
         [] addr = 30 -> "debugger"
         [] addr \in {32, 34, 36} -> "handler"
         [] addr \in {38, 40} -> "before"
         [] addr \in {42, At(Len(Main) + 1)} -> "behind"
         [] addr \in {At(k) : k \in 1 .. Len(Main)} -> "tests"
         [] OTHER -> "nothing"]
=============================================================================
