------------------------- MODULE ProgramOrderMemory -------------------------
(***************************************************************************)
(* What loads and stores promise the program: each takes effect at once    *)
(* and as a whole in program order, aligned or not, and the loaded values  *)
(* come back in that order, each once.                                     *)
(***************************************************************************)
EXTENDS Integers, Sequences

CONSTANTS
    BYTES,          \* size of the address space, which wraps around
    Accesses,       \* loads, and stores without their data
    StoreData,      \* words to store
    Initial         \* the memory at the start

VARIABLES
    memory,         \* byte by byte
    due,            \* values of the loads performed and not yet delivered, oldest first
    loaded          \* the last value delivered to the register file

orderVars == <<memory, due, loaded>>

Size(type) == CASE type = "word" -> 4 [] type = "half" -> 2 [] type = "byte" -> 1

Extension(sign, top) ==
    CASE sign = 0 -> <<0, 0, "zeros">>
      [] sign = 1 -> <<top[1], top[2], "sign">>
      [] sign = 2 -> <<0, 0, "ones">>

ReadFrom(m, access) ==
    LET n       == Size(access.type)
        byte(l) == m[(access.addr + l) % BYTES]
    IN  [l \in 0 .. 3 |-> IF l < n THEN byte(l) ELSE Extension(access.sign, byte(n - 1))]

WriteTo(m, access, data) ==
    [a \in 0 .. BYTES - 1 |->
        LET l == (a - access.addr) % BYTES
        IN  IF l < Size(access.type) THEN data[l] ELSE m[a]]

Performed(access, before) ==
    IF access.we
    THEN /\ \E data \in StoreData : memory' = WriteTo(memory, access, data)
         /\ due' = before
    ELSE /\ due' = Append(before, ReadFrom(memory, access))
         /\ UNCHANGED memory

Perform == \E access \in Accesses : Performed(access, due) /\ UNCHANGED loaded

Delivered == due # <<>> /\ loaded' = Head(due)

Deliver == Delivered /\ due' = Tail(due) /\ UNCHANGED memory

DeliverAndPerform == Delivered /\ \E access \in Accesses : Performed(access, Tail(due))

OrderNext == Perform \/ Deliver \/ DeliverAndPerform

OrderInit ==
    memory = Initial /\ due = <<>> /\ loaded = [l \in 0 .. 3 |-> <<0, 0, "zeros">>]

OrderSpec == OrderInit /\ [][OrderNext]_orderVars
=============================================================================
