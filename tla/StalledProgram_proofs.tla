------------------------ MODULE StalledProgram_proofs ------------------------
(***************************************************************************)
(* Whatever text is printed and whatever delays the stall generators draw: *)
(* a request that waits is counted down, the answers fit where they wait,  *)
(* and the standard output gets every character once and in order.         *)
(***************************************************************************)
EXTENDS StalledProgram, SequenceTheorems, TLAPS

\* The stores of activate_random_stall, then load and print in turns, then the exit.
SETS == 10
Length == SETS + 2 * Len(TEXT) + 1
Words == Range(TEXT) \union {0}
Characters == 1 .. Len(TEXT)

\* The instruction that is issued next.
Next_pc == fetch_pc - Len(buffer) - Len(i_fifo)

\* The registers of mm_ram that the program writes, each with its one value.
KnobValues(to) ==
    CASE to \in {0, 1} -> {0, 1}
      [] to \in {2, 3} -> {0, D!RANDOM}
      [] to \in {4, 5} -> {0, MAX_STALLS}
      [] OTHER -> Nat

KnobInv ==
    /\ rnd_stall_regs \in [0 .. 15 -> Nat]
    /\ \A r \in 0 .. 15 : rnd_stall_regs[r] \in KnobValues(r)

\* A request that is not granted is being counted down, whether the stalls are active or not.
CountInv ==
    /\ i_grant \in BOOLEAN /\ i_cnt \in 0 .. MAX_STALLS
    /\ d_grant \in BOOLEAN /\ d_cnt \in 0 .. MAX_STALLS
    /\ i_req /\ ~i_grant => i_cnt >= 1
    /\ d_req /\ ~d_grant => d_cnt >= 1

\* AnswerEdge for a FIFO q behind a memory that reads out r: whether the oldest answer goes out,
\* and what remains.
Gone(q) == IF q # <<>> /\ Head(q).delay = 0 THEN 1 ELSE 0
WordOf(entry, r) == IF entry.we THEN 0 ELSE IF entry.fresh THEN r ELSE entry.data
Rest(q, r) ==
    LET captured == [k \in DOMAIN q |-> [q[k] EXCEPT !.data = WordOf(q[k], r), !.fresh = FALSE]]
    IN  IF q # <<>> /\ Head(q).delay = 0 THEN Tail(captured)
        ELSE [k \in DOMAIN q |-> [captured[k] EXCEPT !.delay = IF k = 1 THEN @ - 1 ELSE @]]

\* An answer joins those that remain.
Joined(q, r, entry) == Append(Rest(q, r), entry)

\* Instructions come in order: those in the buffer, then those under way.
FetchInv ==
    /\ fetch_pc \in 0 .. Length + 1 /\ i_rdata \in 0 .. Length
    /\ buffer \in Seq(1 .. Length) /\ i_fifo \in Seq(Entries(0 .. Length))
    /\ Len(i_fifo) + Len(buffer) <= 2
    /\ fetch_pc = 0 => buffer = <<>> /\ i_fifo = <<>>
    /\ fetch_pc > 0 => Next_pc >= 1
    /\ \A k \in 1 .. Len(buffer) : buffer[k] = Next_pc + k - 1
    /\ \A k \in 1 .. Len(i_fifo) :
         ~i_fifo[k].we /\ WordOf(i_fifo[k], i_rdata) = Next_pc + Len(buffer) + k - 1

\* A loaded character is under way or in a0 until it is printed, and no other load with it.
LoadInv ==
    /\ a0 \in Words /\ d_rdata \in Words /\ loading \in BOOLEAN
    /\ d_fifo \in Seq(Entries(Words)) /\ Len(d_fifo) <= 2
    /\ loading => \E c \in Characters, k \in 1 .. Len(d_fifo) :
         /\ Next_pc = SETS + 2 * c
         /\ ~d_fifo[k].we /\ WordOf(d_fifo[k], d_rdata) = TEXT[c]
         /\ \A j \in 1 .. Len(d_fifo) : j # k => d_fifo[j].we
    /\ ~loading =>
         /\ \A k \in 1 .. Len(d_fifo) : d_fifo[k].we
         /\ \A c \in Characters : Next_pc = SETS + 2 * c => a0 = TEXT[c]

\* What has been printed is what has been loaded, in order.
PrintInv ==
    /\ printed \in Seq(Words) /\ exited \in BOOLEAN
    /\ Next_pc <= SETS => Len(printed) = 0
    /\ \A c \in Characters : Next_pc \in {SETS + 2 * c - 1, SETS + 2 * c} => Len(printed) = c - 1
    /\ Next_pc >= Length => Len(printed) = Len(TEXT)
    /\ \A k \in 1 .. Len(printed) : k \in Characters /\ printed[k] = TEXT[k]
    /\ exited => Next_pc > Length

SInv == KnobInv /\ CountInv /\ FetchInv /\ LoadInv /\ PrintInv

-----------------------------------------------------------------------------
(* The program.                                                              *)

Instructions == [op : {"set", "load", "print", "exit"}, to : 0 .. 15, value : Nat]

\* A function on 1 .. n is a sequence.
LEMMA FunctionIsSeq ==
  ASSUME NEW S, NEW n \in Nat, NEW f \in [1 .. n -> S]
  PROVE  f \in Seq(S) /\ Len(f) = n
  OBVIOUS

\* Where the elements of a concatenation are.
LEMMA ConcatAt ==
  ASSUME NEW S, NEW s \in Seq(S), NEW t \in Seq(S)
  PROVE  /\ s \o t \in Seq(S) /\ Len(s \o t) = Len(s) + Len(t)
         /\ \A n \in 1 .. Len(s) : (s \o t)[n] = s[n]
         /\ \A n \in 1 .. Len(t) : (s \o t)[Len(s) + n] = t[n]
  OBVIOUS

\* What every instruction is, by its place.
LEMMA ProgramAt ==
  /\ Program \in Seq(Instructions) /\ Len(Program) = Length /\ Length \in Nat
  /\ Len(TEXT) \in Nat
  /\ \A pc \in 1 .. SETS : Program[pc].op = "set" /\ Program[pc].value \in KnobValues(Program[pc].to)
  /\ \A c \in Characters :
       /\ Program[SETS + 2 * c - 1] = [op |-> "load", to |-> 0, value |-> TEXT[c]]
       /\ Program[SETS + 2 * c].op = "print"
  /\ Program[Length].op = "exit"
  <1> DEFINE First == activate_random_stall
  <1>1. First \in Seq(Instructions) /\ Len(First) = 10
    BY StallAssumption DEF activate_random_stall, Store, Instructions, D!RANDOM
  <1>2. \A pc \in 1 .. 10 : First[pc].op = "set" /\ First[pc].value \in KnobValues(First[pc].to)
    <2>1. /\ First[1] = Store(1, 1) /\ First[2] = Store(0, 1) /\ First[3] = Store(5, MAX_STALLS)
          /\ First[4] = Store(7, FIXED_STALLS) /\ First[5] = Store(9, FIXED_STALLS)
          /\ First[6] = Store(4, MAX_STALLS) /\ First[7] = Store(6, FIXED_STALLS)
          /\ First[8] = Store(8, FIXED_STALLS) /\ First[9] = Store(3, D!RANDOM)
          /\ First[10] = Store(2, D!RANDOM)
      BY DEF activate_random_stall
    <2>2. \A pc \in 1 .. 10 : pc \in {1, 2, 3, 4, 5, 6, 7, 8, 9, 10}
      OBVIOUS
    <2>3. ASSUME NEW to \in 0 .. 15, NEW value, value \in KnobValues(to)
          PROVE  Store(to, value).op = "set" /\ Store(to, value).value \in KnobValues(Store(to, value).to)
      BY <2>3 DEF Store
    <2>4. /\ 1 \in KnobValues(1) /\ 1 \in KnobValues(0)
          /\ MAX_STALLS \in KnobValues(5) /\ MAX_STALLS \in KnobValues(4)
          /\ D!RANDOM \in KnobValues(3) /\ D!RANDOM \in KnobValues(2)
          /\ \A to \in 6 .. 9 : FIXED_STALLS \in KnobValues(to)
      BY StallAssumption DEF KnobValues
    <2> QED
      BY <2>1, <2>2, <2>3, <2>4
  <1>3. Len(TEXT) \in Nat /\ \A k \in Characters : TEXT[k] \in Nat
    BY StallAssumption DEF Characters
  <1>4. /\ _write \in Seq(Instructions) /\ Len(_write) = 2 * Len(TEXT)
        /\ \A k \in Characters : /\ _write[2 * k - 1] = [op |-> "load", to |-> 0, value |-> TEXT[k]]
                                     /\ _write[2 * k].op = "print"
    <2>1. ASSUME NEW n \in 1 .. 2 * Len(TEXT) PROVE _write[n] \in Instructions
      <3>1. (n + 1) \div 2 \in Characters \/ n % 2 # 1
        BY <1>3 DEF Characters
      <3> QED
        BY <1>3, <3>1 DEF _write, Instructions
    <2>2. _write = [n \in 1 .. 2 * Len(TEXT) |-> _write[n]] /\ 2 * Len(TEXT) \in Nat
      BY <1>3 DEF _write
    <2>3. _write \in Seq(Instructions) /\ Len(_write) = 2 * Len(TEXT)
      <3> HIDE DEF _write
      <3>1. _write \in [1 .. 2 * Len(TEXT) -> Instructions]
        BY <2>1, <2>2
      <3> QED
        BY <2>2, <3>1, FunctionIsSeq
    <2>4. ASSUME NEW k \in Characters
          PROVE  /\ _write[2 * k - 1] = [op |-> "load", to |-> 0, value |-> TEXT[k]]
                 /\ _write[2 * k].op = "print"
      <3>1. /\ 2 * k - 1 \in 1 .. 2 * Len(TEXT) /\ 2 * k \in 1 .. 2 * Len(TEXT)
            /\ (2 * k - 1) % 2 = 1 /\ (2 * k) % 2 = 0 /\ (2 * k - 1 + 1) \div 2 = k
        BY <1>3 DEF Characters
      <3>2. _write[2 * k - 1] = [op |-> "load", to |-> 0, value |-> TEXT[(2 * k - 1 + 1) \div 2]]
        BY <3>1 DEF _write
      <3>3. _write[2 * k] = [op |-> "print", to |-> 0, value |-> 0]
        BY <3>1 DEF _write
      <3>4. TEXT[(2 * k - 1 + 1) \div 2] = TEXT[k]
        BY <3>1, Zenon
      <3> HIDE DEF _write
      <3> QED
        BY <3>2, <3>3, <3>4
    <2> QED
      BY <2>3, <2>4
  <1>5. _exit \in Seq(Instructions) /\ Len(_exit) = 1 /\ _exit[1].op = "exit"
    BY DEF _exit, Instructions
  <1> HIDE DEF First
  <1> DEFINE Body == First \o _write
  <1>6. /\ Body \in Seq(Instructions) /\ Len(Body) = 10 + 2 * Len(TEXT)
        /\ \A n \in 1 .. 10 : Body[n] = First[n]
        /\ \A n \in 1 .. 2 * Len(TEXT) : Body[10 + n] = _write[n]
    <2> HIDE DEF _write
    <2>0. First \in Seq(Instructions) /\ _write \in Seq(Instructions)
      BY <1>1, <1>4
    <2>1. /\ Body \in Seq(Instructions) /\ Len(Body) = Len(First) + Len(_write)
          /\ \A n \in 1 .. Len(First) : Body[n] = First[n]
          /\ \A n \in 1 .. Len(_write) : Body[Len(First) + n] = _write[n]
      BY <2>0, ConcatAt
    <2> QED
      BY <1>1, <1>4, <2>1
  <1> HIDE DEF Body
  <1>7. /\ Body \o _exit \in Seq(Instructions) /\ Len(Body \o _exit) = Length
        /\ \A n \in 1 .. 10 + 2 * Len(TEXT) : (Body \o _exit)[n] = Body[n]
        /\ (Body \o _exit)[Length] = _exit[1]
    <2>0. Body \in Seq(Instructions) /\ _exit \in Seq(Instructions)
      BY <1>5, <1>6
    <2>1. /\ Body \o _exit \in Seq(Instructions)
          /\ Len(Body \o _exit) = Len(Body) + Len(_exit)
          /\ \A n \in 1 .. Len(Body) : (Body \o _exit)[n] = Body[n]
          /\ \A n \in 1 .. Len(_exit) : (Body \o _exit)[Len(Body) + n] = _exit[n]
      BY <2>0, ConcatAt
    <2>2. (Body \o _exit)[Len(Body) + 1] = _exit[1]
      BY <1>5, <2>1
    <2>3. Len(Body) + 1 = Length
      BY <1>3, <1>6 DEF Length, SETS
    <2> QED
      BY <1>5, <1>6, <2>1, <2>2, <2>3
  <1>8. Program = Body \o _exit
    BY DEF Program, Body, First
  <1>9. ASSUME NEW k \in Characters
        PROVE  /\ Program[SETS + 2 * k - 1] = _write[2 * k - 1]
               /\ Program[SETS + 2 * k] = _write[2 * k]
    <2>1. /\ 2 * k - 1 \in 1 .. 2 * Len(TEXT) /\ 2 * k \in 1 .. 2 * Len(TEXT)
          /\ 10 + (2 * k - 1) \in 1 .. 10 + 2 * Len(TEXT) /\ 10 + 2 * k \in 1 .. 10 + 2 * Len(TEXT)
          /\ SETS + 2 * k - 1 = 10 + (2 * k - 1) /\ SETS + 2 * k = 10 + 2 * k
      BY <1>3 DEF SETS, Characters
    <2> QED
      BY <1>6, <1>7, <1>8, <2>1
  <1>10. \A pc \in 1 .. SETS : Program[pc] = First[pc]
    BY <1>3, <1>6, <1>7, <1>8 DEF SETS
  <1>11. Length \in Nat
    BY <1>3 DEF Length, SETS
  <1>12. \A pc \in 1 .. SETS : Program[pc].op = "set" /\ Program[pc].value \in KnobValues(Program[pc].to)
    BY <1>2, <1>10 DEF SETS
  <1> QED
    BY <1>3, <1>4, <1>5, <1>7, <1>8, <1>9, <1>11, <1>12

\* The same, by the instruction.
LEMMA PlaceOf ==
  ASSUME NEW pc \in 1 .. Length
  PROVE  /\ Program[pc] \in Instructions
         /\ Program[pc].op = "set" => pc <= SETS /\ Program[pc].value \in KnobValues(Program[pc].to)
         /\ Program[pc].op = "load" =>
              \E c \in Characters : pc = SETS + 2 * c - 1 /\ Program[pc].value = TEXT[c]
         /\ Program[pc].op = "print" => \E c \in Characters : pc = SETS + 2 * c
         /\ Program[pc].op = "exit" => pc = Length
  <1>1. Program[pc] \in Instructions
    BY ProgramAt
  <1>2. CASE pc \in 1 .. SETS
    BY <1>1, <1>2, ProgramAt DEF SETS
  <1>3. CASE pc = Length
    BY <1>1, <1>3, ProgramAt
  <1>4. CASE pc > SETS /\ pc < Length
    <2>1. PICK c \in Characters : pc = SETS + 2 * c - 1 \/ pc = SETS + 2 * c
      <3> DEFINE c == (pc - SETS + 1) \div 2
      <3>1. c \in Characters /\ (pc = SETS + 2 * c - 1 \/ pc = SETS + 2 * c)
        BY <1>4, ProgramAt DEF SETS, Length, Characters
      <3> QED
        BY <3>1
    <2>2. CASE pc = SETS + 2 * c - 1
      <3>1. Program[pc].op = "load" /\ Program[pc].value = TEXT[c]
        <4>1. Program[pc] = [op |-> "load", to |-> 0, value |-> TEXT[c]]
          BY <2>2, ProgramAt, Zenon
        <4> QED
          BY <4>1
      <3> QED
        BY <1>1, <2>2, <3>1
    <2>3. CASE pc = SETS + 2 * c
      <3>1. Program[pc].op = "print"
        BY <2>3, ProgramAt
      <3> QED
        BY <1>1, <2>3, <3>1
    <2> QED
      BY <2>1, <2>2, <2>3
  <1> QED
    BY <1>2, <1>3, <1>4, ProgramAt DEF SETS

-----------------------------------------------------------------------------
(* The answers under way.                                                    *)

\* What remains has its word, whatever the memory reads out from then on.
LEMMA RestKeepsWords ==
  ASSUME NEW W, 0 \in W, NEW r \in W, NEW q \in Seq(Entries(W))
  PROVE  /\ Rest(q, r) \in Seq(Entries(W))
         /\ Len(Rest(q, r)) = Len(q) - Gone(q)
         /\ \A k \in 1 .. Len(q) - Gone(q) :
              /\ ~Rest(q, r)[k].fresh
              /\ Rest(q, r)[k].we = q[k + Gone(q)].we
              /\ Rest(q, r)[k].data = WordOf(q[k + Gone(q)], r)
  <1> DEFINE captured == [k \in DOMAIN q |-> [q[k] EXCEPT !.data = WordOf(q[k], r), !.fresh = FALSE]]
  <1>0. MAX_STALLS \in Nat
    BY StallAssumption
  <1>1. ASSUME NEW k \in DOMAIN q
        PROVE  /\ q[k] \in Entries(W) /\ captured[k] \in Entries(W)
               /\ captured[k].we = q[k].we /\ captured[k].fresh = FALSE
               /\ captured[k].data = WordOf(q[k], r) /\ captured[k].delay = q[k].delay
    <2>1. q[k] \in Entries(W)
      OBVIOUS
    <2>2. WordOf(q[k], r) \in W
      BY <2>1 DEF WordOf, Entries
    <2> QED
      BY <2>1, <2>2 DEF Entries
  <1>2. captured \in Seq(Entries(W)) /\ Len(captured) = Len(q) /\ DOMAIN q = 1 .. Len(q)
    <2>1. DOMAIN q = 1 .. Len(q) /\ Len(q) \in Nat
      OBVIOUS
    <2>2. captured \in [1 .. Len(q) -> Entries(W)]
      BY <1>1, <2>1
    <2> HIDE DEF captured
    <2> QED
      BY <2>1, <2>2, FunctionIsSeq
  <1> HIDE DEF captured
  <1>4. CASE q # <<>> /\ Head(q).delay = 0
    <2>1. Rest(q, r) = Tail(captured) /\ Gone(q) = 1
      BY <1>4 DEF Rest, Gone, captured
    <2>2. /\ Tail(captured) \in Seq(Entries(W)) /\ Len(Tail(captured)) = Len(q) - 1
          /\ \A k \in 1 .. Len(q) - 1 : Tail(captured)[k] = captured[k + 1]
      BY <1>2, <1>4
    <2>3. \A k \in 1 .. Len(q) - 1 : k + 1 \in DOMAIN q
      BY <1>2
    <2> QED
      <3>1. ASSUME NEW k \in 1 .. Len(q) - 1
            PROVE  /\ ~Tail(captured)[k].fresh /\ Tail(captured)[k].we = q[k + 1].we
                   /\ Tail(captured)[k].data = WordOf(q[k + 1], r)
        BY <1>1, <2>2, <2>3
      <3> QED
        BY <2>1, <2>2, <3>1, Zenon
  <1>5. CASE ~(q # <<>> /\ Head(q).delay = 0)
    <2> DEFINE rest == [k \in DOMAIN q |-> [captured[k] EXCEPT !.delay = IF k = 1 THEN @ - 1 ELSE @]]
    <2>1. Rest(q, r) = rest /\ Gone(q) = 0
      BY <1>5 DEF Rest, Gone, captured
    <2>2. ASSUME NEW k \in DOMAIN q
          PROVE  /\ rest[k] \in Entries(W) /\ rest[k].we = q[k].we /\ rest[k].fresh = FALSE
                 /\ rest[k].data = WordOf(q[k], r)
      <3>1. k = 1 => captured[k].delay # 0
        <4>1. k = 1 => q # <<>> /\ Head(q) = q[k]
          BY <1>2
        <4> QED
          BY <1>1, <1>5, <4>1
      <3>2. captured[k].delay \in 0 .. MAX_STALLS
        BY <1>1 DEF Entries
      <3>3. rest[k] = [captured[k] EXCEPT
                           !.delay = IF k = 1 THEN captured[k].delay - 1 ELSE captured[k].delay]
        OBVIOUS
      <3>4. (IF k = 1 THEN captured[k].delay - 1 ELSE captured[k].delay) \in 0 .. MAX_STALLS
        BY <1>0, <3>1, <3>2
      <3> HIDE DEF rest
      <3> QED
        BY <1>1, <3>3, <3>4 DEF Entries
    <2>3. rest \in Seq(Entries(W)) /\ Len(rest) = Len(q)
      <3>1. rest = [k \in 1 .. Len(q) |-> rest[k]] /\ Len(q) \in Nat
        BY <1>2
      <3> HIDE DEF rest
      <3>2. rest \in [1 .. Len(q) -> Entries(W)]
        BY <1>2, <2>2, <3>1
      <3> QED
        BY <3>1, <3>2, FunctionIsSeq
    <2> HIDE DEF rest
    <2> QED
      <3>1. Len(q) - 0 = Len(q) /\ \A k \in 1 .. Len(q) : k + 0 = k /\ k \in DOMAIN q
        BY <1>2
      <3> QED
        BY <2>1, <2>2, <2>3, <3>1
  <1> QED
    BY <1>4, <1>5

\* A new answer comes after those that stay.
LEMMA AnswerJoins ==
  ASSUME NEW W, 0 \in W, NEW r \in W, NEW q \in Seq(Entries(W)), NEW entry \in Entries(W)
  PROVE  /\ Joined(q, r, entry) \in Seq(Entries(W))
         /\ Len(Joined(q, r, entry)) = Len(q) - Gone(q) + 1
         /\ \A k \in 1 .. Len(q) - Gone(q) :
              /\ ~Joined(q, r, entry)[k].fresh
              /\ Joined(q, r, entry)[k].we = q[k + Gone(q)].we
              /\ Joined(q, r, entry)[k].data = WordOf(q[k + Gone(q)], r)
         /\ Joined(q, r, entry)[Len(q) - Gone(q) + 1] = entry
  <1> DEFINE rest == Rest(q, r)
  <1>1. /\ rest \in Seq(Entries(W)) /\ Len(rest) = Len(q) - Gone(q)
        /\ \A k \in 1 .. Len(q) - Gone(q) : /\ ~rest[k].fresh /\ rest[k].we = q[k + Gone(q)].we
                                           /\ rest[k].data = WordOf(q[k + Gone(q)], r)
    BY RestKeepsWords
  <1> HIDE DEF rest, Joined
  <1>2. /\ Append(rest, entry) \in Seq(Entries(W)) /\ Len(Append(rest, entry)) = Len(rest) + 1
        /\ \A k \in 1 .. Len(rest) : Append(rest, entry)[k] = rest[k]
        /\ Append(rest, entry)[Len(rest) + 1] = entry
    BY <1>1, AppendProperties
  <1> QED
    BY <1>1, <1>2 DEF rest, Joined

-----------------------------------------------------------------------------
(* The registers of mm_ram and the counters.                                 *)

RandomKnobs == [en : {0, 1}, mode : {0, D!RANDOM}, max : {0, MAX_STALLS}, fixed : Nat]

\* No delay passes MAX_STALLS.
LEMMA DelaysFit ==
  ASSUME NEW knobs \in RandomKnobs
  PROVE  /\ I!Delays(knobs) \subseteq 0 .. MAX_STALLS
         /\ D!Delays(knobs) \subseteq 0 .. MAX_STALLS
  <1>1. /\ knobs.en \in {0, 1} /\ knobs.mode \in {0, 2} /\ knobs.max \in {0, MAX_STALLS}
        /\ MAX_STALLS \in Nat
    BY StallAssumption DEF RandomKnobs, D!RANDOM
  <1> QED
    BY <1>1 DEF I!Delays, D!Delays, I!STANDARD, I!RANDOM, D!STANDARD, D!RANDOM

\* No store of the program makes a port use its fixed delay.
LEMMA KnobsAreRandom ==
  /\ KnobInv => InstrKnobs \in RandomKnobs /\ DataKnobs \in RandomKnobs
  /\ KnobInv' => InstrKnobs' \in RandomKnobs /\ DataKnobs' \in RandomKnobs
  BY DEF KnobInv, KnobValues, InstrKnobs, DataKnobs, RandomKnobs

\* What is issued is the instruction at Next_pc.
LEMMA IssueInOrder ==
  ASSUME FetchInv, d_req
  PROVE  Next_pc \in 1 .. Length /\ Instruction = Program[Next_pc] /\ fetch_pc > 0
  <1>1. buffer \in Seq(1 .. Length) /\ buffer # <<>>
    BY DEF FetchInv, d_req
  <1>2. Head(buffer) = buffer[1] /\ 1 \in 1 .. Len(buffer) /\ buffer[1] \in 1 .. Length
    <2>1. Len(buffer) \in Nat \ {0} /\ Head(buffer) = buffer[1]
      BY <1>1, EmptySeq
    <2>2. 1 \in 1 .. Len(buffer)
      BY <2>1
    <2> QED
      BY <1>1, <2>1, <2>2, ElementOfSeq
  <1>3. fetch_pc \in Int /\ Len(buffer) \in Nat /\ Len(i_fifo) \in Nat
    BY ProgramAt DEF FetchInv
  <1>4. buffer[1] = Next_pc + 1 - 1 /\ Next_pc \in Int
    BY <1>2, <1>3 DEF FetchInv, Next_pc
  <1> QED
    BY <1>1, <1>2, <1>3, <1>4 DEF FetchInv, Instruction

\* Every register keeps its value or gets the one the program has for it.
LEMMA KnobStep ==
  ASSUME SInv, Next
  PROVE  KnobInv'
  <1>1. KnobInv /\ FetchInv
    BY DEF SInv
  <1>2. CASE d_req /\ Instruction.op = "set"
    <2>1. rnd_stall_regs' = [rnd_stall_regs EXCEPT ![Instruction.to] = Instruction.value]
      BY <1>2 DEF Next, Peripherals
    <2>2. /\ Instruction.to \in 0 .. 15 /\ Instruction.value \in Nat
          /\ Instruction.value \in KnobValues(Instruction.to)
      BY <1>1, <1>2, IssueInOrder, PlaceOf DEF Instructions
    <2> HIDE DEF Instruction
    <2> QED
      BY <1>1, <2>1, <2>2 DEF KnobInv
  <1>3. CASE ~(d_req /\ Instruction.op = "set")
    <2>1. rnd_stall_regs' = rnd_stall_regs
      BY <1>3 DEF Next, Peripherals
    <2> QED
      BY <1>1, <2>1 DEF KnobInv
  <1> QED
    BY <1>2, <1>3

\* A count starts with a delay that is not zero, or the request is granted at once; it ends
\* with the grant.
LEMMA CountStep ==
  ASSUME SInv, Next
  PROVE  CountInv'
  <1>1. CountInv /\ KnobInv' /\ MAX_STALLS \in Nat
    BY KnobStep, StallAssumption DEF SInv
  <1>2. /\ I!Delays(InstrKnobs') \subseteq 0 .. MAX_STALLS
        /\ D!Delays(DataKnobs') \subseteq 0 .. MAX_STALLS
    BY <1>1, KnobsAreRandom, DelaysFit
  <1>3. /\ i_grant' \in BOOLEAN /\ i_cnt' \in 0 .. MAX_STALLS
        /\ i_req' /\ ~i_grant' => i_cnt' >= 1
    <2>1. I!GrantEdge(i_req, i_req', InstrKnobs')
      BY DEF Next
    <2>2. /\ i_cnt \in 0 .. MAX_STALLS
          /\ i_req /\ ~i_grant => i_cnt >= 1
      BY <1>1 DEF CountInv
    <2> HIDE DEF i_req, InstrKnobs
    <2>3. CASE ~i_req' /\ i_grant' \in BOOLEAN /\ UNCHANGED i_cnt
      BY <2>2, <2>3
    <2>4. CASE i_req' /\ i_cnt' \in I!Delays(InstrKnobs') /\ i_grant' = (i_cnt' = 0)
      <3>1. i_cnt' \in 0 .. MAX_STALLS
        BY <1>2, <2>4
      <3>2. i_grant' \in BOOLEAN /\ (i_grant' <=> i_cnt' = 0)
        BY <2>4, Zenon
      <3>3. i_cnt' # 0 => i_cnt' >= 1
        BY <1>1, <3>1
      <3> QED
        BY <3>1, <3>2, <3>3, Zenon
    <2>5. CASE i_req /\ ~i_grant /\ i_cnt' = i_cnt - 1 /\ i_grant' = (i_cnt = 1)
      <3>1. i_cnt' \in 0 .. MAX_STALLS
        BY <1>1, <2>2, <2>5
      <3>2. i_grant' \in BOOLEAN /\ (i_grant' <=> i_cnt = 1)
        BY <2>5, Zenon
      <3>3. i_cnt # 1 => i_cnt' >= 1
        BY <1>1, <2>2, <2>5
      <3> QED
        BY <3>1, <3>2, <3>3, Zenon
    <2> QED
      BY <2>1, <2>3, <2>4, <2>5, Zenon DEF I!GrantEdge
  <1>4. /\ d_grant' \in BOOLEAN /\ d_cnt' \in 0 .. MAX_STALLS
        /\ d_req' /\ ~d_grant' => d_cnt' >= 1
    <2>1. D!GrantEdge(d_req, d_req', DataKnobs')
      BY DEF Next
    <2>2. /\ d_cnt \in 0 .. MAX_STALLS
          /\ d_req /\ ~d_grant => d_cnt >= 1
      BY <1>1 DEF CountInv
    <2> HIDE DEF d_req, DataKnobs
    <2>3. CASE ~d_req' /\ d_grant' \in BOOLEAN /\ UNCHANGED d_cnt
      BY <2>2, <2>3
    <2>4. CASE d_req' /\ d_cnt' \in D!Delays(DataKnobs') /\ d_grant' = (d_cnt' = 0)
      <3>1. d_cnt' \in 0 .. MAX_STALLS
        BY <1>2, <2>4
      <3>2. d_grant' \in BOOLEAN /\ (d_grant' <=> d_cnt' = 0)
        BY <2>4, Zenon
      <3>3. d_cnt' # 0 => d_cnt' >= 1
        BY <1>1, <3>1
      <3> QED
        BY <3>1, <3>2, <3>3, Zenon
    <2>5. CASE d_req /\ ~d_grant /\ d_cnt' = d_cnt - 1 /\ d_grant' = (d_cnt = 1)
      <3>1. d_cnt' \in 0 .. MAX_STALLS
        BY <1>1, <2>2, <2>5
      <3>2. d_grant' \in BOOLEAN /\ (d_grant' <=> d_cnt = 1)
        BY <2>5, Zenon
      <3>3. d_cnt # 1 => d_cnt' >= 1
        BY <1>1, <2>2, <2>5
      <3> QED
        BY <3>1, <3>2, <3>3, Zenon
    <2> QED
      BY <2>1, <2>3, <2>4, <2>5, Zenon DEF D!GrantEdge
  <1> QED
    BY <1>3, <1>4 DEF CountInv

-----------------------------------------------------------------------------
(* The ports.                                                                *)

\* A granted request joins the answers that stay; the memory has the word of the request in
\* the next cycle.
LEMMA PortStep ==
  ASSUME SInv, Next
  PROVE  /\ \E entry \in Entries(0 .. Length) :
              /\ ~entry.we /\ entry.fresh
              /\ i_fifo' = IF i_req /\ i_gnt THEN Joined(i_fifo, i_rdata, entry)
                           ELSE Rest(i_fifo, i_rdata)
         /\ \E entry \in Entries(Words) :
              /\ entry.we = (d_req /\ we) /\ entry.fresh
              /\ d_fifo' = IF d_req /\ d_gnt THEN Joined(d_fifo, d_rdata, entry)
                           ELSE Rest(d_fifo, d_rdata)
  <1>1. /\ I!Delays(InstrKnobs) \subseteq 0 .. MAX_STALLS
        /\ D!Delays(DataKnobs) \subseteq 0 .. MAX_STALLS
    BY KnobsAreRandom, DelaysFit DEF SInv
  <1>2. \A delay \in 0 .. MAX_STALLS : delay % 16 = delay
    BY StallAssumption
  <1>3. MAX_STALLS \in Nat /\ Length \in Nat /\ 0 \in Words
    BY StallAssumption, ProgramAt DEF Words
  <1> DEFINE New(w, delay) == [we |-> w, delay |-> delay, data |-> 0, fresh |-> TRUE]
  <1>4. ASSUME NEW w \in BOOLEAN, NEW delay \in 0 .. MAX_STALLS
        PROVE  /\ New(w, delay) \in Entries(0 .. Length) /\ New(w, delay) \in Entries(Words)
               /\ New(w, delay).we = w /\ New(w, delay).fresh
    BY <1>3 DEF Entries
  <1>5. \E entry \in Entries(0 .. Length) :
              /\ ~entry.we /\ entry.fresh
              /\ i_fifo' = IF i_req /\ i_gnt THEN Joined(i_fifo, i_rdata, entry)
                           ELSE Rest(i_fifo, i_rdata)
    <2>1. I!AnswerEdge(i_req /\ i_gnt, FALSE, InstrKnobs)
      BY DEF Next, InstrPort
    <2>2. CASE i_req /\ i_gnt
      <3>1. PICK delay \in I!Delays(InstrKnobs) :
              i_fifo' = Append(Rest(i_fifo, i_rdata),
                               [we |-> FALSE, delay |-> delay % 16, data |-> 0, fresh |-> TRUE])
        BY <2>1, <2>2, Zenon
           DEF I!AnswerEdge, I!Captured, I!Word, I!rvalid, I!DELAYS, Rest, WordOf
      <3>2. delay \in 0 .. MAX_STALLS /\ delay % 16 = delay
        BY <1>1, <1>2
      <3>3. i_fifo' = Joined(i_fifo, i_rdata, New(FALSE, delay))
        BY <3>1, <3>2 DEF Joined
      <3> HIDE DEF New
      <3> QED
        BY <1>4, <2>2, <3>2, <3>3
    <2>3. CASE ~(i_req /\ i_gnt)
      <3>1. i_fifo' = Rest(i_fifo, i_rdata)
        BY <2>1, <2>3, Zenon DEF I!AnswerEdge, I!Captured, I!Word, I!rvalid, Rest, WordOf
      <3>2. 0 \in 0 .. MAX_STALLS
        BY <1>3
      <3> HIDE DEF New
      <3> QED
        BY <1>4, <2>3, <3>1, <3>2
    <2> QED
      BY <2>2, <2>3
  <1>6. \E entry \in Entries(Words) :
              /\ entry.we = (d_req /\ we) /\ entry.fresh
              /\ d_fifo' = IF d_req /\ d_gnt THEN Joined(d_fifo, d_rdata, entry)
                           ELSE Rest(d_fifo, d_rdata)
    <2>1. D!AnswerEdge(d_req /\ d_gnt, d_req /\ we, DataKnobs)
      BY DEF Next, DataPort
    <2> DEFINE w == (d_req /\ we)
    <2>0. w \in BOOLEAN
      OBVIOUS
    <2>2. CASE d_req /\ d_gnt
      <3>1. PICK delay \in D!Delays(DataKnobs) :
              d_fifo' = Append(Rest(d_fifo, d_rdata),
                               [we |-> w, delay |-> delay % 16, data |-> 0, fresh |-> TRUE])
        BY <2>1, <2>2, Zenon
           DEF D!AnswerEdge, D!Captured, D!Word, D!rvalid, D!DELAYS, Rest, WordOf
      <3>2. delay \in 0 .. MAX_STALLS /\ delay % 16 = delay
        BY <1>1, <1>2
      <3> HIDE DEF w
      <3>3. d_fifo' = Joined(d_fifo, d_rdata, New(w, delay))
        BY <3>1, <3>2 DEF Joined
      <3> HIDE DEF New
      <3>4. /\ New(w, delay) \in Entries(Words) /\ New(w, delay).we = w /\ New(w, delay).fresh
        BY <1>4, <2>0, <3>2, Zenon
      <3> QED
        BY <2>2, <3>3, <3>4, Zenon DEF w
    <2>3. CASE ~(d_req /\ d_gnt)
      <3>1. d_fifo' = Rest(d_fifo, d_rdata)
        BY <2>1, <2>3, Zenon DEF D!AnswerEdge, D!Captured, D!Word, D!rvalid, Rest, WordOf
      <3>2. 0 \in 0 .. MAX_STALLS
        BY <1>3
      <3> HIDE DEF w, New
      <3>4. /\ New(w, 0) \in Entries(Words) /\ New(w, 0).we = w /\ New(w, 0).fresh
        BY <1>4, <2>0, <3>2, Zenon
      <3> QED
        BY <2>3, <3>1, <3>4, Zenon DEF w
    <2> QED
      BY <2>2, <2>3
  <1> QED
    BY <1>5, <1>6

\* An instruction moves from the memory to the buffer and to its issue in program order.
LEMMA FetchStep ==
  ASSUME SInv, Next
  PROVE  /\ FetchInv' /\ Next_pc \in Int /\ Next_pc' \in Int
         /\ d_req /\ d_gnt => Next_pc' = Next_pc + 1
         /\ ~(d_req /\ d_gnt) => Next_pc' = Next_pc \/ (Next_pc = 0 /\ Next_pc' = 1)
  <1> DEFINE n == Gone(i_fifo)
             push == (i_req /\ i_gnt)
             issued == IF d_req /\ d_gnt THEN 1 ELSE 0
             fetched == IF push THEN 1 ELSE 0
             L == Len(buffer)
             M == Len(i_fifo)
             answered == IF n = 1 THEN Append(buffer, WordOf(Head(i_fifo), i_rdata)) ELSE buffer
  <1>1. /\ Length \in Nat /\ fetch_pc \in 0 .. Length + 1 /\ i_rdata \in 0 .. Length
        /\ buffer \in Seq(1 .. Length) /\ i_fifo \in Seq(Entries(0 .. Length))
        /\ L \in Nat /\ M \in Nat /\ L + M <= 2 /\ Next_pc = fetch_pc - L - M /\ Next_pc \in Int
        /\ fetch_pc = 0 => L = 0 /\ M = 0
        /\ fetch_pc > 0 => Next_pc >= 1
        /\ \A k \in 1 .. L : buffer[k] = Next_pc + k - 1
        /\ \A k \in 1 .. M : ~i_fifo[k].we /\ WordOf(i_fifo[k], i_rdata) = Next_pc + L + k - 1
    BY ProgramAt, SMTT(60) DEF SInv, FetchInv, Next_pc
  <1>2. /\ fetch_pc' = IF push \/ fetch_pc = 0 THEN fetch_pc + 1 ELSE fetch_pc
        /\ buffer' = IF d_req /\ d_gnt THEN Tail(answered) ELSE answered
        /\ i_rdata' = IF i_req THEN fetch_pc ELSE i_rdata
    BY DEF Next, InstrPort, Gone, I!rvalid, I!Answer, I!Word, WordOf
  <1>3. /\ i_req => fetch_pc \in 1 .. Length /\ L + M < 2
        /\ d_req => L > 0
    <2>1. i_req => fetch_pc \in 1 .. Length /\ L + M < 2
      <3>1. DOMAIN Program = 1 .. Length
        BY ProgramAt
      <3> QED
        BY <1>1, <3>1 DEF i_req
    <2>2. d_req => L > 0
      BY <1>1, EmptySeq DEF d_req
    <2> QED
      BY <2>1, <2>2
  <1>4. PICK entry \in Entries(0 .. Length) :
              /\ ~entry.we /\ entry.fresh
              /\ i_fifo' = IF push THEN Joined(i_fifo, i_rdata, entry)
                           ELSE Rest(i_fifo, i_rdata)
    BY PortStep
  <1>5. /\ i_fifo' \in Seq(Entries(0 .. Length)) /\ n \in 0 .. 1 /\ n <= M
        /\ Len(i_fifo') = M - n + fetched
        /\ \A k \in 1 .. M - n :
              /\ i_fifo'[k].we = i_fifo[k + n].we
              /\ WordOf(i_fifo'[k], i_rdata') = WordOf(i_fifo[k + n], i_rdata)
        /\ push => i_fifo'[M - n + 1] = entry
    <2> DEFINE W == 0 .. Length
    <2>1. /\ 0 \in W /\ i_rdata \in W /\ i_fifo \in Seq(Entries(W)) /\ entry \in Entries(W)
          /\ fetched \in 0 .. 1 /\ (push <=> fetched = 1)
      BY <1>1, <1>4
    <2> HIDE DEF W, fetched, push, L, answered
    <2>2. n \in 0 .. 1 /\ n <= M
      BY <2>1 DEF Gone
    <2>3. /\ i_fifo' \in Seq(Entries(W)) /\ Len(i_fifo') = M - n + fetched
          /\ \A k \in 1 .. M - n :
                /\ ~i_fifo'[k].fresh /\ i_fifo'[k].we = i_fifo[k + n].we
                /\ i_fifo'[k].data = WordOf(i_fifo[k + n], i_rdata)
          /\ fetched = 1 => i_fifo'[M - n + 1] = entry
      <3>1. CASE fetched = 1
        <4> DEFINE joined == Joined(i_fifo, i_rdata, entry)
        <4>1. /\ joined \in Seq(Entries(W)) /\ Len(joined) = M - n + 1
              /\ \A k \in 1 .. M - n : /\ ~joined[k].fresh /\ joined[k].we = i_fifo[k + n].we
                                     /\ joined[k].data = WordOf(i_fifo[k + n], i_rdata)
              /\ joined[M - n + 1] = entry
          BY <2>1, AnswerJoins
        <4>2. i_fifo' = joined
          BY <1>4, <2>1, <3>1
        <4> HIDE DEF joined, n, M
        <4> QED
          BY <3>1, <4>1, <4>2
      <3>2. CASE fetched = 0
        <4> DEFINE rest == Rest(i_fifo, i_rdata)
        <4>1. /\ rest \in Seq(Entries(W)) /\ Len(rest) = M - n
              /\ \A k \in 1 .. M - n : /\ ~rest[k].fresh /\ rest[k].we = i_fifo[k + n].we
                                     /\ rest[k].data = WordOf(i_fifo[k + n], i_rdata)
          BY <2>1, RestKeepsWords
        <4>2. i_fifo' = rest
          BY <1>4, <2>1, <3>2
        <4>3. M - n + 0 = M - n
          BY <2>1, <2>2
        <4> HIDE DEF rest, n, M
        <4> QED
          BY <3>2, <4>1, <4>2, <4>3
      <3> QED
        BY <2>1, <3>1, <3>2
    <2> HIDE DEF M, n
    <2>4. ASSUME NEW k \in 1 .. M - n
          PROVE  WordOf(i_fifo'[k], i_rdata') = WordOf(i_fifo[k + n], i_rdata)
      BY <2>3 DEF WordOf
    <2> QED
      BY <2>1, <2>2, <2>3, <2>4 DEF W
  <1>6. /\ answered \in Seq(1 .. Length) /\ Len(answered) = L + n
        /\ \A k \in 1 .. L + n : answered[k] = Next_pc + k - 1
    <2>1. CASE n = 1
      <3>1. WordOf(Head(i_fifo), i_rdata) = Next_pc + L /\ Next_pc + L \in 1 .. Length
        <4>1. Head(i_fifo) = i_fifo[1] /\ 1 \in 1 .. M /\ M >= 1
          BY <1>1, <1>5, <2>1
        <4> QED
          BY <1>1, <4>1
      <3>2. /\ Append(buffer, Next_pc + L) \in Seq(1 .. Length)
            /\ Len(Append(buffer, Next_pc + L)) = L + 1
            /\ \A k \in 1 .. L : Append(buffer, Next_pc + L)[k] = buffer[k]
            /\ Append(buffer, Next_pc + L)[L + 1] = Next_pc + L
        BY <1>1, <3>1, AppendProperties
      <3>3. answered = Append(buffer, Next_pc + L)
        BY <2>1, <3>1
      <3> HIDE DEF answered, L, n
      <3>4. L \in Nat /\ L + n = L + 1 /\ Next_pc \in Int
        BY <1>1, <2>1
      <3>5. \A k \in 1 .. L : answered[k] = Next_pc + k - 1
        <4>1. \A k \in 1 .. L : buffer[k] = Next_pc + k - 1
          BY <1>1
        <4> QED
          BY <3>2, <3>3, <4>1
      <3>6. answered[L + 1] = Next_pc + (L + 1) - 1
        BY <3>2, <3>3, <3>4
      <3> QED
        BY <3>2, <3>3, <3>4, <3>5, <3>6
    <2>2. CASE n = 0
      BY <1>1, <2>2
    <2> QED
      BY <1>5, <2>1, <2>2
  <1>7. /\ buffer' \in Seq(1 .. Length) /\ Len(buffer') = L + n - issued
        /\ \A k \in 1 .. L + n - issued : buffer'[k] = Next_pc + issued + k - 1
    <2> HIDE DEF answered
    <2>1. CASE d_req /\ d_gnt
      <3>1. answered # <<>> /\ L + n > 0
        BY <1>1, <1>3, <1>5, <1>6, <2>1
      <3>2. /\ Tail(answered) \in Seq(1 .. Length) /\ Len(Tail(answered)) = L + n - 1
            /\ \A k \in 1 .. L + n - 1 : Tail(answered)[k] = answered[k + 1]
        <4>1. answered \in Seq(1 .. Length) /\ answered # <<>> /\ Len(answered) = L + n
          BY <1>6, <3>1
        <4> HIDE DEF answered, n, L
        <4>2. /\ Tail(answered) \in Seq(1 .. Length) /\ Len(Tail(answered)) = Len(answered) - 1
              /\ \A k \in 1 .. Len(Tail(answered)) : Tail(answered)[k] = answered[k + 1]
          BY <4>1, HeadTailProperties
        <4>3. Len(answered) - 1 = L + n - 1
          BY <1>1, <1>5, <4>1
        <4> QED
          BY <4>2, <4>3, Zenon
      <3>3. \A k \in 1 .. L + n - 1 : /\ k + 1 \in 1 .. L + n
                                       /\ Next_pc + (k + 1) - 1 = Next_pc + 1 + k - 1
        BY <1>1, <1>5
      <3> QED
        BY <1>2, <1>6, <2>1, <3>2, <3>3
    <2>2. CASE ~(d_req /\ d_gnt)
      <3>1. issued = 0 /\ buffer' = answered
        BY <1>2, <2>2
      <3>2. L + n - 0 = L + n /\ Next_pc + 0 = Next_pc
        BY <1>1, <1>5
      <3> HIDE DEF n, L, issued
      <3> QED
        BY <1>6, <3>1, <3>2
    <2> QED
      BY <2>1, <2>2
  <1>8. issued \in 0 .. 1 /\ fetched \in 0 .. 1 /\ (push <=> fetched = 1)
    OBVIOUS
  <1>9. Next_pc' = fetch_pc' - Len(buffer') - Len(i_fifo')
    BY DEF Next_pc
  <1>10. /\ fetch_pc' \in 0 .. Length + 1 /\ i_rdata' \in 0 .. Length
         /\ Len(i_fifo') + Len(buffer') <= 2 /\ fetch_pc' > 0
         /\ fetch_pc = 0 => Next_pc' = 1 /\ issued = 0 /\ Next_pc = 0
         /\ fetch_pc > 0 => Next_pc' = Next_pc + issued
    <2>1. push => i_req
      OBVIOUS
    <2>2. issued = 1 => L > 0
      BY <1>3
    <2> HIDE DEF n, push, issued, L, M, answered
    <2>3. /\ fetch_pc' = IF fetched = 1 \/ fetch_pc = 0 THEN fetch_pc + 1 ELSE fetch_pc
          /\ fetched = 1 => fetch_pc \in 1 .. Length /\ L + M < 2
          /\ i_rdata' \in 0 .. Length
      BY <1>1, <1>2, <1>3, <1>8, <2>1
    <2> HIDE DEF fetched
    <2>4. /\ Length \in Nat /\ L \in Nat /\ M \in Nat /\ n \in 0 .. 1 /\ issued \in 0 .. 1
          /\ fetched \in 0 .. 1 /\ fetch_pc \in 0 .. Length + 1 /\ n <= M /\ L + M <= 2
          /\ Len(i_fifo') = M - n + fetched /\ Len(buffer') = L + n - issued
          /\ Next_pc = fetch_pc - L - M /\ (fetch_pc = 0 => L = 0 /\ M = 0)
      BY <1>1, <1>5, <1>7, <1>8
    <2> HIDE DEF Next_pc
    <2>5. /\ fetch_pc' \in 0 .. Length + 1 /\ fetch_pc' > 0
          /\ Len(i_fifo') + Len(buffer') <= 2
      BY <2>3, <2>4
    <2>6. fetch_pc = 0 => Next_pc' = 1 /\ issued = 0 /\ Next_pc = 0
      <3> SUFFICES ASSUME fetch_pc = 0 PROVE Next_pc' = 1 /\ issued = 0 /\ Next_pc = 0
        OBVIOUS
      <3>1. L = 0 /\ M = 0 /\ n = 0 /\ fetched = 0
        BY <2>3, <2>4
      <3>2. issued = 0
        BY <2>2, <2>4, <3>1
      <3>3. fetch_pc' = 1 /\ Len(i_fifo') = 0 /\ Len(buffer') = 0
        BY <2>3, <2>4, <3>1, <3>2
      <3> QED
        BY <1>9, <2>4, <3>1, <3>2, <3>3
    <2>7. fetch_pc > 0 => Next_pc' = Next_pc + issued
      BY <1>9, <2>3, <2>4
    <2> QED
      BY <2>3, <2>5, <2>6, <2>7
  <1>11. ASSUME NEW k \in 1 .. Len(i_fifo')
         PROVE  ~i_fifo'[k].we /\ WordOf(i_fifo'[k], i_rdata') = Next_pc' + Len(buffer') + k - 1
    <2>1. fetch_pc > 0
      BY <1>1, <1>3, <1>5, <1>8
    <2>2. CASE k \in 1 .. M - n
      <3>1. k + n \in 1 .. M
        BY <1>1, <1>5, <2>2, SMTT(60)
      <3> HIDE DEF n, push, issued, L, M, answered, fetched
      <3>2. /\ ~i_fifo'[k].we
            /\ WordOf(i_fifo'[k], i_rdata') = Next_pc + L + (k + n) - 1
        BY <1>1, <1>5, <2>2, <3>1
      <3> QED
        BY <1>1, <1>5, <1>7, <1>8, <1>10, <2>1, <3>2
    <2>3. CASE k \notin 1 .. M - n
      <3>1. push /\ k = M - n + 1
        BY <1>1, <1>5, <1>8, <2>3, SMTT(60)
      <3>2. i_fifo'[k] = entry /\ i_rdata' = fetch_pc
        BY <1>2, <1>5, <3>1
      <3>3. ~i_fifo'[k].we /\ WordOf(i_fifo'[k], i_rdata') = fetch_pc
        BY <1>4, <3>2 DEF WordOf
      <3> HIDE DEF n, push, issued, L, M, answered, fetched
      <3> QED
        <4>1. /\ L \in Nat /\ M \in Nat /\ n \in 0 .. 1 /\ issued \in 0 .. 1 /\ fetch_pc \in Int
              /\ Len(buffer') = L + n - issued /\ Next_pc = fetch_pc - L - M
              /\ Next_pc' = Next_pc + issued
          BY <1>1, <1>5, <1>7, <1>8, <1>10, <2>1, SMTT(60)
        <4>2. Next_pc' + Len(buffer') + k - 1 = fetch_pc
          BY <3>1, <4>1
        <4> QED
          BY <3>3, <4>2, Zenon
    <2> QED
      BY <2>2, <2>3
  <1>12. /\ Len(buffer') = L + n - issued
         /\ \A k \in 1 .. Len(buffer') : buffer'[k] = Next_pc' + k - 1
    <2>1. fetch_pc = 0 => L + n - issued = 0
      BY <1>1, <1>5, <1>10
    <2> HIDE DEF n, push, issued, L, M, answered, fetched
    <2> QED
      BY <1>1, <1>5, <1>7, <1>8, <1>10, <2>1, SMTT(60)
  <1>13. fetch_pc' > 0 => Next_pc' >= 1
    BY <1>1, <1>8, <1>10
  <1> QED
    BY <1>1, <1>5, <1>7, <1>8, <1>10, <1>11, <1>12, <1>13, SMTT(60) DEF FetchInv

-----------------------------------------------------------------------------
(* The characters.                                                           *)

\* A character that is loaded is kept until it is printed: no load is issued before.
LEMMA LoadStep ==
  ASSUME SInv, Next
  PROVE  LoadInv'
  <1> DEFINE n == Gone(d_fifo)
             M == Len(d_fifo)
             load == (d_req /\ Instruction.op = "load")
             added == IF d_req /\ d_gnt THEN 1 ELSE 0
             comes == (n = 1 /\ ~Head(d_fifo).we)
  <1>1. /\ Length \in Nat /\ a0 \in Words /\ d_rdata \in Words /\ loading \in BOOLEAN
        /\ d_fifo \in Seq(Entries(Words)) /\ M \in Nat /\ M <= 2 /\ Len(TEXT) \in Nat
    BY ProgramAt DEF SInv, LoadInv
  <1>2. /\ loading' = ((load /\ d_gnt) \/ (loading /\ ~comes))
        /\ a0' = IF comes THEN WordOf(Head(d_fifo), d_rdata) ELSE a0
        /\ d_rdata' = IF load THEN Instruction.value ELSE 0
    BY DEF Next, DataPort, Gone, D!rvalid, D!Answer, D!Word, WordOf
  <1>3. /\ FetchInv /\ Next_pc \in Int /\ Next_pc' \in Int
        /\ d_req /\ d_gnt => Next_pc' = Next_pc + 1
        /\ ~(d_req /\ d_gnt) => Next_pc' = Next_pc \/ (Next_pc = 0 /\ Next_pc' = 1)
    BY FetchStep DEF SInv
  <1>4. PICK entry \in Entries(Words) :
              /\ entry.we = (d_req /\ we) /\ entry.fresh
              /\ d_fifo' = IF d_req /\ d_gnt THEN Joined(d_fifo, d_rdata, entry)
                           ELSE Rest(d_fifo, d_rdata)
    BY PortStep
  <1>5. /\ d_fifo' \in Seq(Entries(Words)) /\ n \in 0 .. 1 /\ n <= M
        /\ Len(d_fifo') = M - n + added
        /\ \A k \in 1 .. M - n :
              /\ d_fifo'[k].we = d_fifo[k + n].we
              /\ WordOf(d_fifo'[k], d_rdata') = WordOf(d_fifo[k + n], d_rdata)
        /\ added = 1 => d_fifo'[M - n + 1] = entry
    <2>1. /\ 0 \in Words /\ d_rdata \in Words /\ d_fifo \in Seq(Entries(Words))
          /\ entry \in Entries(Words) /\ added \in 0 .. 1 /\ (d_req /\ d_gnt <=> added = 1)
      BY <1>1, <1>4 DEF Words
    <2> HIDE DEF added, load, comes
    <2>2. n \in 0 .. 1 /\ n <= M
      BY <2>1 DEF Gone
    <2>3. /\ d_fifo' \in Seq(Entries(Words)) /\ Len(d_fifo') = M - n + added
          /\ \A k \in 1 .. M - n :
                /\ ~d_fifo'[k].fresh /\ d_fifo'[k].we = d_fifo[k + n].we
                /\ d_fifo'[k].data = WordOf(d_fifo[k + n], d_rdata)
          /\ added = 1 => d_fifo'[M - n + 1] = entry
      <3>1. CASE added = 1
        <4> DEFINE joined == Joined(d_fifo, d_rdata, entry)
        <4>1. /\ joined \in Seq(Entries(Words)) /\ Len(joined) = M - n + 1
              /\ \A k \in 1 .. M - n : /\ ~joined[k].fresh /\ joined[k].we = d_fifo[k + n].we
                                     /\ joined[k].data = WordOf(d_fifo[k + n], d_rdata)
              /\ joined[M - n + 1] = entry
          BY <2>1, AnswerJoins
        <4>2. d_fifo' = joined
          BY <1>4, <2>1, <3>1
        <4> HIDE DEF joined, n, M
        <4> QED
          BY <3>1, <4>1, <4>2
      <3>2. CASE added = 0
        <4> DEFINE rest == Rest(d_fifo, d_rdata)
        <4>1. /\ rest \in Seq(Entries(Words)) /\ Len(rest) = M - n
              /\ \A k \in 1 .. M - n : /\ ~rest[k].fresh /\ rest[k].we = d_fifo[k + n].we
                                     /\ rest[k].data = WordOf(d_fifo[k + n], d_rdata)
          BY <2>1, RestKeepsWords
        <4>2. d_fifo' = rest
          BY <1>4, <2>1, <3>2
        <4>3. M - n + 0 = M - n
          BY <2>1, <2>2
        <4> HIDE DEF rest, n, M
        <4> QED
          BY <3>2, <4>1, <4>2, <4>3
      <3> QED
        BY <2>1, <3>1, <3>2
    <2> HIDE DEF M, n
    <2>4. ASSUME NEW k \in 1 .. M - n
          PROVE  WordOf(d_fifo'[k], d_rdata') = WordOf(d_fifo[k + n], d_rdata)
      BY <2>3 DEF WordOf
    <2> QED
      BY <2>1, <2>2, <2>3, <2>4
  <1>6. n = 1 => Head(d_fifo) = d_fifo[1] /\ 1 \in 1 .. M
    BY <1>1, <1>5
  <1>7. d_req => /\ Next_pc \in 1 .. Length /\ Instruction = Program[Next_pc]
                 /\ load => \E c \in Characters : /\ Next_pc = SETS + 2 * c - 1
                                                  /\ Instruction.value = TEXT[c]
    BY <1>3, IssueInOrder, PlaceOf
  <1>8. a0' \in Words /\ d_rdata' \in Words
    <2>1. \A k \in 1 .. M : WordOf(d_fifo[k], d_rdata) \in Words
      <3>1. \A k \in 1 .. M : d_fifo[k] \in Entries(Words)
        BY <1>1
      <3> QED
        BY <1>1, <3>1 DEF WordOf, Entries, Words
    <2>2. load => Instruction.value \in Words
      <3>1. \A c \in Characters : TEXT[c] \in Words
        BY <1>1, StallAssumption DEF Characters, Words, Range
      <3> QED
        BY <1>7, <3>1
    <2>3. comes => a0' \in Words
      BY <1>2, <1>6, <2>1
    <2> QED
      BY <1>1, <1>2, <2>2, <2>3 DEF Words
  <1>9. Len(d_fifo') <= 2
    <2>1. d_req => M < 2
      BY DEF d_req
    <2> QED
      BY <1>1, <1>5, <2>1
  <1>10. CASE loading
    <2>1. PICK c \in Characters, k \in 1 .. M :
            /\ Next_pc = SETS + 2 * c
            /\ ~d_fifo[k].we /\ WordOf(d_fifo[k], d_rdata) = TEXT[c]
            /\ \A j \in 1 .. M : j # k => d_fifo[j].we
      BY <1>10 DEF SInv, LoadInv
    <2>2. ~d_req
      <3>1. Program[Next_pc].op = "print"
        BY <2>1, ProgramAt
      <3> QED
        BY <1>7, <1>10, <3>1 DEF d_req
    <2>3. Next_pc' = SETS + 2 * c /\ added = 0 /\ ~load
      BY <1>1, <1>3, <2>1, <2>2 DEF SETS, Characters
    <2>4. CASE n = 1 /\ k = 1
      <3>1. loading' = FALSE /\ a0' = TEXT[c]
        BY <1>2, <1>6, <2>1, <2>3, <2>4
      <3>2. ASSUME NEW j \in 1 .. Len(d_fifo') PROVE d_fifo'[j].we
        <4> HIDE DEF n, M, added
        <4>1. j \in 1 .. M - n /\ j + n \in 1 .. M /\ j + n # k
          BY <1>1, <1>5, <2>3, <2>4
        <4> QED
          BY <1>5, <2>1, <4>1
      <3>3. ASSUME NEW d \in Characters, Next_pc' = SETS + 2 * d PROVE a0' = TEXT[d]
        <4>1. d = c
          BY <1>1, <2>3, <3>3 DEF SETS, Characters
        <4> QED
          BY <3>1, <4>1
      <3> QED
        BY <1>5, <1>8, <1>9, <3>1, <3>2, <3>3 DEF LoadInv
    <2>5. CASE ~(n = 1 /\ k = 1)
      <3>1. loading' = TRUE
        BY <1>2, <1>6, <1>10, <2>1, <2>5
      <3>2. /\ k - n \in 1 .. Len(d_fifo') /\ k - n \in 1 .. M - n /\ k - n + n = k
        <4> HIDE DEF n, M, added
        <4> QED
          BY <1>1, <1>5, <2>3, <2>5
      <3>3. ~d_fifo'[k - n].we /\ WordOf(d_fifo'[k - n], d_rdata') = TEXT[c]
        <4> HIDE DEF n, M, added
        <4> QED
          BY <1>5, <2>1, <3>2
      <3>4. ASSUME NEW j \in 1 .. Len(d_fifo'), j # k - n PROVE d_fifo'[j].we
        <4> HIDE DEF n, M, added
        <4>1. j \in 1 .. M - n /\ j + n \in 1 .. M /\ j + n # k
          BY <1>1, <1>5, <2>1, <2>3, <3>2, <3>4
        <4> QED
          BY <1>5, <2>1, <4>1
      <3>5. \E d \in Characters, i \in 1 .. Len(d_fifo') :
              /\ Next_pc' = SETS + 2 * d
              /\ ~d_fifo'[i].we /\ WordOf(d_fifo'[i], d_rdata') = TEXT[d]
              /\ \A j \in 1 .. Len(d_fifo') : j # i => d_fifo'[j].we
        BY <2>3, <3>2, <3>3, <3>4
      <3> QED
        BY <1>5, <1>8, <1>9, <3>1, <3>5 DEF LoadInv
    <2> QED
      BY <2>4, <2>5
  <1>11. CASE ~loading
    <2>1. /\ \A k \in 1 .. M : d_fifo[k].we
          /\ \A c \in Characters : Next_pc = SETS + 2 * c => a0 = TEXT[c]
      BY <1>11 DEF SInv, LoadInv
    <2>2. ~comes
      BY <1>6, <2>1
    <2>3. ASSUME NEW k \in 1 .. M - n PROVE d_fifo'[k].we
      <3> HIDE DEF n, M
      <3>1. k + n \in 1 .. M
        BY <1>1, <1>5
      <3> QED
        BY <1>5, <2>1, <3>1
    <2>4. ASSUME NEW k \in 1 .. Len(d_fifo'), k \notin 1 .. M - n
          PROVE  added = 1 /\ k = M - n + 1 /\ d_fifo'[k] = entry
      <3>1. added \in 0 .. 1
        OBVIOUS
      <3> HIDE DEF n, M, added
      <3> QED
        BY <1>1, <1>5, <2>4, <3>1
    <2>5. CASE load /\ d_gnt
      <3>1. PICK c \in Characters : Next_pc = SETS + 2 * c - 1 /\ Instruction.value = TEXT[c]
        BY <1>7, <2>5
      <3>2. Next_pc' = SETS + 2 * c
        BY <1>1, <1>3, <2>5, <3>1 DEF SETS, Characters
      <3>3. ~entry.we /\ d_rdata' = TEXT[c] /\ loading' = TRUE
        BY <1>2, <1>4, <2>5, <3>1 DEF we
      <3>4. /\ M - n + 1 \in 1 .. Len(d_fifo') /\ d_fifo'[M - n + 1] = entry
        <4>1. added = 1
          BY <2>5
        <4> HIDE DEF n, M, added
        <4> QED
          BY <1>1, <1>5, <4>1
      <3>5. WordOf(entry, d_rdata') = TEXT[c]
        BY <1>4, <3>3 DEF WordOf
      <3>6. \A j \in 1 .. Len(d_fifo') : j # M - n + 1 => d_fifo'[j].we
        BY <2>3, <2>4
      <3>7. \E d \in Characters, i \in 1 .. Len(d_fifo') :
              /\ Next_pc' = SETS + 2 * d
              /\ ~d_fifo'[i].we /\ WordOf(d_fifo'[i], d_rdata') = TEXT[d]
              /\ \A j \in 1 .. Len(d_fifo') : j # i => d_fifo'[j].we
        <4> HIDE DEF n, M, added, load
        <4> QED
          BY <3>2, <3>3, <3>4, <3>5, <3>6
      <3> QED
        BY <1>5, <1>8, <1>9, <3>3, <3>7 DEF LoadInv
    <2>6. CASE ~(load /\ d_gnt)
      <3>1. loading' = FALSE /\ a0' = a0
        BY <1>2, <1>11, <2>2, <2>6
      <3>2. ASSUME NEW k \in 1 .. Len(d_fifo') PROVE d_fifo'[k].we
        <4>1. CASE k \in 1 .. M - n
          BY <2>3, <4>1
        <4>2. CASE k \notin 1 .. M - n
          <5>1. d_req /\ we
            BY <2>4, <2>6, <4>2 DEF we
          <5> QED
            BY <1>4, <2>4, <4>2, <5>1
        <4> QED
          BY <4>1, <4>2
      <3>3. ASSUME NEW c \in Characters, Next_pc' = SETS + 2 * c PROVE a0 = TEXT[c]
        <4>1. CASE d_req /\ d_gnt
          <5>1. Next_pc = SETS + 2 * c - 1
            BY <1>1, <1>3, <3>3, <4>1 DEF SETS, Characters
          <5>2. Program[Next_pc].op = "load"
            <6>1. Program[Next_pc] = [op |-> "load", to |-> 0, value |-> TEXT[c]]
              BY <5>1, ProgramAt, Zenon
            <6> QED
              BY <6>1
          <5> QED
            BY <1>7, <2>6, <4>1, <5>2
        <4>2. CASE ~(d_req /\ d_gnt)
          <5>1. Next_pc = SETS + 2 * c
            BY <1>1, <1>3, <3>3, <4>2 DEF SETS, Characters
          <5> QED
            BY <2>1, <5>1
        <4> QED
          BY <4>1, <4>2
      <3> QED
        BY <1>5, <1>8, <1>9, <3>1, <3>2, <3>3 DEF LoadInv
    <2> QED
      BY <2>5, <2>6
  <1> QED
    BY <1>10, <1>11

\* Every character is printed once, and all of them before the program exits.
LEMMA PrintStep ==
  ASSUME SInv, Next
  PROVE  PrintInv'
  <1>1. /\ Length = SETS + 2 * Len(TEXT) + 1 /\ SETS = 10 /\ Len(TEXT) \in Nat
        /\ Characters = 1 .. Len(TEXT)
    BY ProgramAt DEF Length, SETS, Characters
  <1>2. /\ FetchInv /\ Next_pc \in Int /\ Next_pc' \in Int
        /\ d_req /\ d_gnt => Next_pc' = Next_pc + 1
        /\ ~(d_req /\ d_gnt) => Next_pc' = Next_pc \/ (Next_pc = 0 /\ Next_pc' = 1)
    BY FetchStep DEF SInv
  <1>3. /\ printed \in Seq(Words) /\ exited \in BOOLEAN /\ Len(printed) \in Nat
        /\ Next_pc <= SETS => Len(printed) = 0
        /\ \A c \in Characters : Next_pc \in {SETS + 2 * c - 1, SETS + 2 * c} => Len(printed) = c - 1
        /\ Next_pc >= Length => Len(printed) = Len(TEXT)
        /\ \A k \in 1 .. Len(printed) : k \in Characters /\ printed[k] = TEXT[k]
        /\ exited => Next_pc > Length
        /\ a0 \in Words
        /\ ~loading => \A c \in Characters : Next_pc = SETS + 2 * c => a0 = TEXT[c]
    BY DEF SInv, PrintInv, LoadInv
  <1>4. d_req =>
          /\ Next_pc \in 1 .. Length /\ Instruction = Program[Next_pc]
          /\ Instruction.op \in {"set", "load", "print", "exit"}
          /\ Instruction.op = "set" => Next_pc <= SETS
          /\ Instruction.op = "load" => \E c \in Characters : Next_pc = SETS + 2 * c - 1
          /\ Instruction.op = "print" => \E c \in Characters : Next_pc = SETS + 2 * c
          /\ Instruction.op = "exit" => Next_pc = Length
    BY <1>2, IssueInOrder, PlaceOf DEF Instructions
  <1>5. d_req /\ Instruction.op # "load" => d_gnt
    BY DEF d_gnt, we
  <1>6. /\ printed' = IF d_req /\ Instruction.op = "print" THEN Append(printed, a0) ELSE printed
        /\ exited' = (exited \/ (d_req /\ Instruction.op = "exit"))
    BY DEF Next, Peripherals
  <1>7. exited' \in BOOLEAN /\ (exited' => Next_pc' > Length)
    <2>1. CASE d_req
      <3>1. ~exited /\ (Instruction.op = "exit" => Next_pc' > Length)
        BY <1>1, <1>2, <1>3, <1>4, <1>5, <2>1
      <3> QED
        BY <1>6, <2>1, <3>1
    <2>2. CASE ~d_req
      <3>1. exited => Next_pc' > Length
        BY <1>1, <1>2, <1>3, <2>2
      <3> QED
        BY <1>3, <1>6, <2>2, <3>1
    <2> QED
      BY <2>1, <2>2
  <1>8. CASE d_req /\ Instruction.op = "print"
    <2>1. PICK c \in Characters : Next_pc = SETS + 2 * c
      BY <1>4, <1>8
    <2>2. a0 = TEXT[c] /\ Len(printed) = c - 1 /\ Next_pc' = SETS + 2 * c + 1
      <3>1. ~loading
        BY <1>8 DEF d_req
      <3>2. Next_pc' = Next_pc + 1
        BY <1>2, <1>5, <1>8
      <3> QED
        BY <1>1, <1>3, <2>1, <3>1, <3>2
    <2>3. /\ printed' \in Seq(Words) /\ Len(printed') = c
          /\ \A k \in 1 .. c - 1 : printed'[k] = printed[k]
          /\ printed'[c] = TEXT[c]
      <3>1. printed' = Append(printed, a0)
        BY <1>6, <1>8
      <3>2. /\ Append(printed, a0) \in Seq(Words) /\ Len(Append(printed, a0)) = Len(printed) + 1
            /\ \A k \in 1 .. Len(printed) : Append(printed, a0)[k] = printed[k]
            /\ Append(printed, a0)[Len(printed) + 1] = a0
        BY <1>3, AppendProperties
      <3>3. Len(printed) + 1 = c
        BY <1>1, <2>2
      <3> QED
        BY <2>2, <3>1, <3>2, <3>3
    <2>4. ASSUME NEW k \in 1 .. Len(printed') PROVE k \in Characters /\ printed'[k] = TEXT[k]
      <3>1. k \in Characters /\ (k = c \/ k \in 1 .. c - 1)
        BY <1>1, <2>3
      <3> QED
        BY <1>3, <2>2, <2>3, <3>1
    <2>5. /\ ~(Next_pc' <= SETS)
          /\ \A d \in Characters : Next_pc' \in {SETS + 2 * d - 1, SETS + 2 * d} => c = d - 1
          /\ Next_pc' >= Length => c = Len(TEXT)
      BY <1>1, <2>2
    <2> QED
      BY <1>7, <2>3, <2>4, <2>5 DEF PrintInv
  <1>9. CASE ~(d_req /\ Instruction.op = "print")
    <2>1. printed' = printed
      BY <1>6, <1>9
    <2>2. /\ Next_pc' <= SETS => Len(printed) = 0
          /\ \A d \in Characters : Next_pc' \in {SETS + 2 * d - 1, SETS + 2 * d} => Len(printed) = d - 1
          /\ Next_pc' >= Length => Len(printed) = Len(TEXT)
      <3>1. CASE ~(d_req /\ d_gnt)
        BY <1>1, <1>2, <1>3, <3>1
      <3>2. CASE d_req /\ d_gnt /\ Instruction.op = "set"
        <4>1. Len(printed) = 0 /\ Next_pc' <= SETS + 1
          BY <1>1, <1>2, <1>3, <1>4, <3>2
        <4> QED
          BY <1>1, <1>2, <4>1
      <3>3. CASE d_req /\ d_gnt /\ Instruction.op = "load"
        <4>1. PICK c \in Characters : Next_pc = SETS + 2 * c - 1
          BY <1>4, <3>3
        <4>2. Len(printed) = c - 1 /\ Next_pc' = SETS + 2 * c
          BY <1>1, <1>2, <1>3, <3>3, <4>1
        <4> QED
          BY <1>1, <4>2
      <3>4. CASE d_req /\ d_gnt /\ Instruction.op = "exit"
        <4>1. Len(printed) = Len(TEXT) /\ Next_pc' = Length + 1
          BY <1>1, <1>2, <1>3, <1>4, <3>4
        <4> QED
          BY <1>1, <4>1
      <3> QED
        BY <1>4, <1>9, <3>1, <3>2, <3>3, <3>4
    <2> QED
      BY <1>3, <1>7, <2>1, <2>2 DEF PrintInv
  <1> QED
    BY <1>8, <1>9

-----------------------------------------------------------------------------
\* At the boot nothing is fetched and no stall is active.
LEMMA InitInv == Init => SInv
  <1> SUFFICES ASSUME Init PROVE SInv
    OBVIOUS
  <1>1. Length \in Nat /\ Len(TEXT) \in Nat /\ MAX_STALLS \in Nat /\ DOMAIN Program = 1 .. Length
    BY ProgramAt, StallAssumption
  <1>2. /\ fetch_pc = 0 /\ buffer = <<>> /\ loading = FALSE /\ a0 = 0
        /\ rnd_stall_regs = [r \in 0 .. 15 |-> 0] /\ printed = <<>> /\ exited = FALSE
        /\ i_grant = FALSE /\ i_cnt = 0 /\ i_fifo = <<>> /\ i_rdata = 0
        /\ d_grant = FALSE /\ d_cnt = 0 /\ d_fifo = <<>> /\ d_rdata = 0
    BY DEF Init, I!PortInit, D!PortInit
  <1>3. ~i_req /\ ~d_req
    BY <1>1, <1>2 DEF i_req, d_req
  <1>4. KnobInv
    BY <1>2, StallAssumption DEF KnobInv, KnobValues
  <1>5. CountInv
    <2>1. i_cnt \in 0 .. MAX_STALLS /\ d_cnt \in 0 .. MAX_STALLS
      BY <1>1, <1>2
    <2> QED
      BY <1>2, <1>3, <2>1, Zenon DEF CountInv
  <1>6. Len(buffer) = 0 /\ Len(i_fifo) = 0 /\ Len(d_fifo) = 0 /\ Len(printed) = 0 /\ Next_pc = 0
    <2>1. Len(<<>>) = 0
      BY EmptySeq
    <2>2. Len(buffer) = 0 /\ Len(i_fifo) = 0 /\ Len(d_fifo) = 0 /\ Len(printed) = 0
      BY <1>2, <2>1, Zenon
    <2> QED
      <3>1. fetch_pc = 0
        BY <1>2
      <3> QED
        BY <2>2, <3>1 DEF Next_pc
  <1>7. FetchInv
    BY <1>1, <1>2, <1>6, EmptySeq DEF FetchInv
  <1>8. LoadInv
    <2>1. \A c \in Characters : Next_pc # SETS + 2 * c
      BY <1>1, <1>6 DEF SETS, Characters
    <2> QED
      <3>1. a0 \in Words /\ d_rdata \in Words /\ d_fifo \in Seq(Entries(Words)) /\ ~loading
        BY <1>2, EmptySeq DEF Words
      <3>2. \A k \in 1 .. Len(d_fifo) : FALSE
        BY <1>6
      <3>3. Len(d_fifo) <= 2 /\ loading \in BOOLEAN
        <4>1. loading \in BOOLEAN
          BY <1>2, Zenon
        <4>2. Len(d_fifo) <= 2
          BY <1>6
        <4> QED
          BY <4>1, <4>2
      <3> QED
        BY <2>1, <3>1, <3>2, <3>3, Zenon DEF LoadInv
  <1>9. PrintInv
    <2>1. /\ \A c \in Characters : Next_pc \notin {SETS + 2 * c - 1, SETS + 2 * c}
          /\ ~(Next_pc >= Length)
      BY <1>1, <1>6 DEF SETS, Characters, Length
    <2> QED
      <3>1. printed \in Seq(Words) /\ exited \in BOOLEAN /\ ~exited
        BY <1>2, EmptySeq
      <3>2. \A k \in 1 .. Len(printed) : FALSE
        BY <1>6
      <3> QED
        BY <1>6, <2>1, <3>1, <3>2, Zenon DEF PrintInv
  <1> QED
    BY <1>4, <1>5, <1>7, <1>8, <1>9 DEF SInv

\* Every clock edge preserves the parts, each by its lemma.
LEMMA NextInv == SInv /\ [Next]_vars => SInv'
  <1> SUFFICES ASSUME SInv, [Next]_vars PROVE SInv'
    OBVIOUS
  <1>1. CASE Next
    BY <1>1, KnobStep, CountStep, FetchStep, LoadStep, PrintStep DEF SInv
  <1>2. CASE UNCHANGED vars
    BY <1>2 DEF vars, I!portVars, D!portVars, SInv, KnobInv, CountInv, FetchInv, LoadInv, PrintInv,
       i_req, d_req, Instruction, Next_pc
  <1> QED
    BY <1>1, <1>2

\* SInv is inductive.
LEMMA Invariant == Spec => []SInv
  BY InitInv, NextInv, PTL DEF Spec

\* Every variable is in its range, and the answers fit in the FIFOs of riscv_rvalid_stall, which
\* do not look whether they are full, whatever the text and the delays.
THEOREM AnswersFit == Spec => []TypeOK
  <1>1. SInv => TypeOK
    <2> SUFFICES ASSUME SInv PROVE TypeOK
      OBVIOUS
    <2>1. Len(Program) = Length /\ Length \in Nat
      BY ProgramAt
    <2>2. /\ \A S : \A s \in Seq(S) : Range(s) \subseteq S
      BY DEF Range
    <2>3. /\ Len(buffer) <= 2 /\ Len(i_fifo) <= 8 /\ Len(d_fifo) <= 8
      BY DEF SInv, FetchInv, LoadInv
    <2>4. /\ Range(buffer) \subseteq 1 .. Length /\ Range(i_fifo) \subseteq Entries(0 .. Length)
          /\ Range(d_fifo) \subseteq Entries(Words)
      BY <2>2 DEF SInv, FetchInv, LoadInv
    <2> QED
      BY <2>1, <2>3, <2>4 DEF SInv, CountInv, FetchInv, LoadInv, PrintInv, TypeOK, Words
  <1> QED
    BY Invariant, <1>1, PTL

\* The counter of riscv_gnt_stall never passes zero under a request it has not granted, whatever
\* delays it draws and whoever takes the request.
THEOREM CountdownGoesOn == Spec => []CountdownIsAlive
  <1>1. SInv => CountdownIsAlive
    BY DEF SInv, CountInv, CountdownIsAlive
  <1> QED
    BY Invariant, <1>1, PTL

\* The standard output gets every character of every text once and in order, and all of them
\* before the program exits.
THEOREM TextComesOut == Spec => []TextIsPrinted
  <1>1. SInv => TextIsPrinted
    <2> SUFFICES ASSUME SInv PROVE TextIsPrinted
      OBVIOUS
    <2>1. /\ printed \in Seq(Words) /\ Len(printed) \in Nat /\ Len(TEXT) \in Nat
          /\ \A k \in 1 .. Len(printed) : k \in 1 .. Len(TEXT) /\ printed[k] = TEXT[k]
          /\ exited => Len(printed) = Len(TEXT)
      <3>1. Next_pc \in Int /\ Length \in Nat
        BY ProgramAt, SMTT(60) DEF SInv, FetchInv, Next_pc
      <3> QED
        BY <3>1, ProgramAt DEF SInv, PrintInv, Characters
    <2>2. TEXT \in Seq(Words)
      BY StallAssumption DEF Words, Range
    <2>3. Len(printed) <= Len(TEXT)
      BY <2>1
    <2>4. SubSeq(printed, 1, Len(printed)) = SubSeq(TEXT, 1, Len(printed))
      <3>1. SubSeq(printed, 1, Len(printed)) = printed
        BY <2>1, SubSeqFull
      <3>2. /\ SubSeq(TEXT, 1, Len(printed)) \in Seq(Words)
            /\ Len(SubSeq(TEXT, 1, Len(printed))) = Len(printed)
            /\ \A k \in 1 .. Len(printed) : SubSeq(TEXT, 1, Len(printed))[k] = TEXT[k]
        BY <2>1, <2>2, <2>3
      <3> DEFINE front == SubSeq(TEXT, 1, Len(printed))
      <3> HIDE DEF front
      <3>3. printed = front
        BY <2>1, <3>2, SeqEqual DEF front
      <3> QED
        BY <3>1, <3>3 DEF front
    <2>5. exited => printed = TEXT
      BY <2>1, <2>2, SeqEqual
    <2> QED
      BY <2>3, <2>4, <2>5 DEF TextIsPrinted, IsPrefix
  <1> QED
    BY Invariant, <1>1, PTL
=============================================================================
