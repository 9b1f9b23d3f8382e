------------------------------ MODULE Software ------------------------------
(***************************************************************************)
(* The memory the instruction flow is checked on: which halfwords begin a  *)
(* 32-bit instruction, what is at each address, and where traps and the    *)
(* debugger lead.  Addresses count halfwords.                              *)
(***************************************************************************)
EXTENDS Integers

CONSTANTS
    HALFWORDS,      \* size of the memory, in halfwords
    Wide,           \* halfwords whose two low bits are 11, a 32-bit instruction
    Program,        \* what is at each address: its kind and the fields it needs
    BOOT, MTVEC, IRQ_VECTOR, DM_HALT, DM_EXCEPTION  \* where the core jumps to

Addresses == 0 .. HALFWORDS - 1

Kinds == {"plain", "jal", "jalr", "branch", "hwloop", "csr", "mie", "skip", "dcsr",
          "mret", "dret", "ecall", "ebreak", "wfi", "fencei", "illegal"}

ASSUME SoftwareAssumption ==
    /\ HALFWORDS \in Nat /\ HALFWORDS > 4 /\ HALFWORDS % 2 = 0
    /\ Wide \subseteq Addresses
    /\ DOMAIN Program = Addresses
    /\ \A addr \in Addresses :
         LET instr == Program[addr]
         IN  /\ instr.kind \in Kinds
             /\ instr.kind \in {"jal", "jalr", "branch"} => instr.to \in Addresses
             /\ instr.kind = "mie" => instr.value \in BOOLEAN
             /\ instr.kind = "fencei" => addr \in Wide
    /\ {BOOT, MTVEC, IRQ_VECTOR, DM_HALT, DM_EXCEPTION} \subseteq Addresses

\* A slip the runs must notice: the address does not wrap around.
Plus_unwrapped(addr, n) == addr + n

Plus(addr, n) == (addr + n) % HALFWORDS

\* The instruction behind the one at addr.
Following(addr) == Plus(addr, IF addr \in Wide THEN 2 ELSE 1)
=============================================================================
