----------------------------- MODULE MCPipeline -----------------------------
(* Instruction sets for model checking Pipeline: registers x0, 1 and 2. *)
EXTENDS Pipeline

MCRegisters == 0 .. 2
MCNoAddr == -1
MCOld == -2
MCNoJump == -3

Plain(kind, rd, rs) == [kind |-> kind, rd |-> rd, rs |-> rs, post_increment |-> FALSE,
                        unaligned |-> FALSE, lat |-> 0]
Apu(lat, rd, rs) == [Plain("apu", rd, rs) EXCEPT !.lat = lat]

Computations ==
    {Plain(kind, rd, rs) : kind \in {"alu", "div", "mulh", "csr", "jalr"},
                           rd \in MCRegisters, rs \in MCRegisters}
    \union {Plain("branch", 0, rs) : rs \in MCRegisters}

Accesses ==
    [kind : {"load"}, rd : MCRegisters, rs : MCRegisters, post_increment : BOOLEAN,
     unaligned : BOOLEAN, lat : {0}]
    \union [kind : {"store"}, rd : {0}, rs : MCRegisters, post_increment : BOOLEAN,
             unaligned : BOOLEAN, lat : {0}]

\* A load may not write the base register it increments.
LegalAccesses == {i \in Accesses : i.kind = "load" /\ i.post_increment => i.rd # i.rs}

Fpu(lats) == {Apu(lat, rd, rs) : lat \in lats, rd \in MCRegisters, rs \in MCRegisters}

\* FPU_OTHERS_LAT = 0, FPU_ADDMUL_LAT = 1, and divisions: operations of one cycle, of two
\* and of an unknown number.
EveryInstruction == Computations \union LegalAccesses \union Fpu({1, 2, 3})
=============================================================================
