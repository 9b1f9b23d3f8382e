# A TLA+ model of CV32E40P

CV32E40P is a four-stage in-order RISC-V core written in SystemVerilog (`src/rtl`): it fetches
ahead of need, forwards results between stages, runs hardware loops, talks to an FPU of
configurable latency, and takes interrupts and debug requests in any cycle.  Around it the
repository has a testbench (`src/example_tb/core`): memories that stall at random, a generator of
interrupts, and C programs that test the core with them.  This project keeps TLA+ models of the
parts of the core and of the testbench that hold state across clock cycles and interact, and of
the test programs that run on them, checks them with TLC on small instances, and proves some of
their invariants for every instance with TLAPS.

One step of a model is one rising edge of `clk`.  The combinational signals of a cycle are
operators with the names of the RTL (`trans_valid_o`, `lsu_ready_ex_o`, `wb_contention`); the
registers are the variables; a test program adds the statement it is at and its variables; what comes from outside the modelled part (memories, FPU,
interrupt lines, the rest of the core) is chosen freely in each cycle, within the protocol
that part follows.

- [1. The system](#1-the-system): parts, state, operations, interactions, what is hard
- [2. The modules](#2-the-modules)
- [3. The runs](#3-the-runs): what each checks, bounds
- [4. Fairness](#4-fairness)
- [5. The proofs](#5-the-proofs)
- [6. Disagreements found](#6-disagreements-found)
- [7. What is not modelled, and the plan](#7-what-is-not-modelled-and-the-plan)

## 1. The system

```
 instruction memory                                             data memory
       |  OBI                                                        |  OBI
 +-----v-------- prefetch buffer ---------+                    +-----v------+
 | prefetch_controller  fifo  obi_interface|                    | load-store |
 +-----+----------------------------------+                    |    unit    |
       | words, branch, loop jump                              +--^------+--+
 +-----v---+  IF/ID  +----------+  ID/EX  +---------------+  EX/WB |      |
 | aligner |-------->| ID stage |-------->| ALU MUL DIV   |--------+      |
 +---------+         +----^-----+         | APU dispatcher|<-- FPU        |
                          |               +---------------+               |
                     +----v-------+   hwloop_regs   cs_registers          |
  irq, debug_req --->| controller |   int_controller  sleep_unit  register file
                     +------------+
```

| Part | State it keeps | Operations | Works with |
|---|---|---|---|
| `cv32e40p_fifo` | ring of words, two pointers, count | push, pop, flush, flush all but the first | prefetch controller |
| `cv32e40p_prefetch_controller` | transactions under way, answers to discard, next address, a flush that waits | request, branch, loop jump, take or discard an answer | FIFO, OBI interface, IF stage, controller |
| `cv32e40p_obi_interface` | a request shown and not granted | pass on, hold, release | memory, prefetch controller or load-store unit |
| `cv32e40p_aligner`, IF/ID register | the half word left over, its position, pc, a loop target that waits | cut the next instruction, branch, loop jump, stall | prefetch buffer, controller |
| `cv32e40p_load_store_unit` | transactions under way, control of the access in WB, the last word | request, split an access, take an answer, assemble data | ID/EX register, data memory, EX and WB |
| ID stage | ID/EX register | issue, stall, insert a bubble, second half of an access | all others |
| EX stage | EX/WB register, an FPU result that waits | compute, write over two ports, hold a result back | ALU, multiplier, divider, load-store unit, FPU, register file |
| `cv32e40p_apu_disp` | destinations of two FPU operations, latency class | request, result | EX stage, controller, FPU |
| `cv32e40p_mult`, `cv32e40p_alu_div` | sequence of MULH and its carry; remainder and step counter | start, step, finish | EX stage |
| `cv32e40p_controller` | FSM of 16 states, jump done, pending illegal instruction, reasons to enter debug mode, sticky debug request, debug FSM | one per FSM state | all |
| `cv32e40p_hwloop_regs` | start, end and count of two loops | write, count down | controller, ID stage |
| `cv32e40p_int_controller` | the interrupt lines, registered | request, wake up | controller, CSRs |
| `cv32e40p_cs_registers` | mstatus, mepc, dpc, dcsr, triggers, counters | CSR instruction, trap, return, debug entry | controller, EX stage |
| `cv32e40p_sleep_unit` | busy, fetch enable, cv.elw under way | gate the clock, wake up | clock gate, controller, load-store unit |

The testbench puts `mm_ram` between the two ports of the core and the memory, and drives the
interrupt lines:

```
              instruction port                         data port
                    |                                      |
     riscv_gnt_stall, riscv_rvalid_stall    riscv_gnt_stall, riscv_rvalid_stall
                    |                                      |
                    +------------- mm_ram -----------------+
                     RAM | standard output, exit | rnd_stall_regs
                                                      |
            irq lines <--- random interrupt generator-+
```

| Part | State it keeps | Operations | Works with |
|---|---|---|---|
| `riscv_gnt_stall` | a countdown | start it with a request, count down, grant | port of the core, `rnd_stall_regs` |
| `riscv_rvalid_stall` | a FIFO of answers, each with a delay | catch an answer, count its delay, hand it over | port of the core, memory |
| `mm_ram` | `rnd_stall_regs`, what was printed, exit | write a register, print, exit, multiplex grants | programs, generators |
| `cv32e40p_random_interrupt_generator` | mode, lines, the random and the software defined process | drive lines, lower what software lowered, draw the next interrupt | `rnd_stall_regs`, core |
| `interrupt/` | mmstatus, irq_id, irq_mode and the pending word, shared by main and nineteen handlers | five tests, entry and return of a handler, enabling and disabling | core, generator |
| `hwlp_test/` | registers and stack slots | test programs of nested loops, and their traps | core |
| `custom/hello_world.c`, `mem_stall/` | - | activate the stalls, print, exit | `_write`, `_exit` of `custom/syscalls.c` |

The core is one clock domain, so "concurrency" here means that several parts take their step
in the same cycle and that memory, FPU, interrupt lines and debugger choose their timing
independently.  The behaviours that are hard to test are combinations of these timings:

- **Prefetching.** Branches and loop jumps arrive while requests are under way whose answers
  cannot be refused.  Which answers are to be thrown away depends on how many there were at
  that moment, and for a loop jump on whether the last word of the body has arrived yet.
  *Correct when* the IF stage is handed exactly the instruction stream.
- **Cutting instructions.** 16- and 32-bit instructions, branches to odd half words and loop
  jumps that arrive during a stall.  *Correct when* each instruction consists of its own
  halves and has its own address.
- **Data accesses.** An access that crosses a word becomes two transactions, two transactions
  may be under way, the grant of one and the answer of another fall into the same cycle, WB
  may not be ready.  *Correct when* loads and stores act in program order.
- **Values.** Three producers (ALU, memory, FPU) share two write ports; operands come from the
  register file or one of two forwarding paths; an FPU result arrives when it likes.
  *Correct when* every instruction reads the newest values and no result is lost or comes late.
- **Order of execution.** In any cycle an instruction may stall, jump, trap, be the last of a
  loop body, meet an interrupt, a debug request, a trigger or a single step, or put the core to
  sleep.  *Correct when* instructions run in program order, once, and traps save the address of
  the first one that has not run.

- **Stalls of the testbench.** Peripherals act on a request and do not wait for a grant, while a
  countdown may be running for the same request; answers wait in a FIFO that nobody checks for
  room; a program changes the registers of the generators while its own accesses go through them.
  *Correct when* every access acts once, in order, and the program goes on.
- **Interrupts of the testbench.** The generator holds its lines until software tells it to lower
  them, through registers, in one of several modes; lines take two cycles to come up and to go
  away in `mip`.  A handler that returns too early meets its own line again; a handler that comes
  too often leaves no time to main; main and handlers change mstatus through one variable.
  *Correct when* each pending line is served once and by priority, and main ends with success.

`PROJECT.json` lists each of these hazards at the line where it bites, with the properties
that would notice.

## 2. The modules

| Module | Models | Correspondence |
|---|---|---|
| `Fifo` | `cv32e40p_fifo` | registers `read_pointer_q`, `write_pointer_q`, `status_cnt_q`, `mem_q`; `NextRing` is what a clock edge makes of them, `FifoEdge` the edge |
| `Queue` | abstract: what the FIFO promises | a sequence; `Fifo` implements it (`ImplementsQueue`) |
| `PrefetchController` | `cv32e40p_prefetch_controller` | all its registers; operators for its wires |
| `ObiInterface` | `cv32e40p_obi_interface` | its state and the A channel it holds |
| `PrefetchBuffer` | `cv32e40p_prefetch_buffer`, with memory and IF stage | actions `Fetch`, `TakeBranch`, `HwlpTurn` |
| `FetchStream` | abstract: what the prefetch buffer promises | next word, word after it; `PrefetchBuffer` implements it (`HandsOverTheStream`) |
| `LoadStoreUnit` | `cv32e40p_load_store_unit` | byte lanes, sign extension, handshakes |
| `DataAccess` | the unit between ID/EX register and memory | `Stall`, `SecondHalf`, `Other`, `Issue` |
| `ProgramOrderMemory` | abstract: loads and stores one at a time | `DataAccess` implements it (`KeepsProgramOrder`) |
| `ApuDispatcher`, `MulDiv` | `cv32e40p_apu_disp`; FSMs of multiplier and divider | registers and wires |
| `Pipeline` | operands, ID/EX, EX, EX/WB, write ports, register file, FPU | `Issue`, `NoInstruction`, `SecondHalf`, `MulhStep`, `Hold` |
| `PipelineProgress` | `Pipeline` with the instruction that waits in ID | liveness |
| `Software` | memory content and entry addresses a run is made on | constants |
| `Aligner` | `cv32e40p_aligner` and the IF/ID register | `FetchStageEdge` |
| `HardwareLoops` | `cv32e40p_hwloop_regs` and the comparisons of the controller | `HwloopEdge` |
| `TrapRegisters` | mstatus, mepc, dpc, dcsr, the registered interrupts | `TrapEdge` |
| `Controller` | the FSM of `cv32e40p_controller` | one operator per FSM state and per kind of instruction: a record of outputs and next register values; `ControllerEdge` |
| `Hart` | abstract: the order of instructions the architecture promises | `Retire`, `Interrupt`, `Exception`, `Halt` |
| `InstructionFlow` | the five above, the branch in EX and their inputs | one action for each FSM state |
| `FlowProgress` | `InstructionFlow` with fairness | liveness |
| `HwlpTest` | `hwlp.h`, `hwlp_test.c` | the programs as sequences of instructions with their kind and effect; their expected results |
| `HwlpProgram` | the tests on the core | `InstructionFlow` with the registers and stack slots the programs use; `Place` says what a linker put at each address (the tests, their handlers, other code) |
| `StallPort` | `riscv_gnt_stall`, `riscv_rvalid_stall` | `GrantEdge`, `AnswerEdge` for one port |
| `StalledProgram` | `hello_world.c`, `mem_stall.c`, `_write`, `_exit`, `mm_ram` between two `StallPort`s | `InstrPort`, `DataPort`, `Peripherals` in one clock edge |
| `InterruptLines` | the interrupt generator, its registers in `mm_ram`, `cv32e40p_int_controller` | `GeneratorEdge`; `irq_id_ctrl` is the priority encoder |
| `InterruptTest` | `interrupt.c`, `isr.h`, `vectors.S` | statements of main (`Test1`, `Test2`, `Test3`, `Test5`) and of the handlers, each a step of a clock cycle; statements on shared variables are split into instructions |
| `Matrix` | `matrix.h` and the product of test 5 | tables and `MultipliedRow` |

`MCDataAccess`, `MCPipeline`, `MCInstructionFlow`, `MCFlowProgress`, `MCHwlpProgram` and
`MCStalledProgram` hold the programs and sets of instructions of the runs; `Fifo_proofs`,
`PrefetchBuffer_proofs`, `DataAccess_proofs`, `Pipeline_proofs`, `InterruptTest_proofs`,
`StalledProgram_proofs`, `InstructionFlow_proofs` and `HwlpProgram_proofs` hold the theorems (5).

Two ways of abstraction recur.  *Words are named by address*: instruction memory is only read,
so the word at an address is the address, and a word that is skipped, repeated or out of date
shows.  *Values are named by what they are worth*: in `Pipeline` a value is `r` if it is the
newest value of register `r` in program order and `Old` otherwise, so that "reads the newest
value" is an equation between two registers, and the number of different values does not matter.

`InstructionFlow` does not contain the prefetch buffer and the data path again: the prefetch
buffer is `FetchStream`, which `PrefetchBuffer` is shown to implement, and EX is a signal
`id_ready` that may be false in any cycle, also with a branch in EX (ID has stalls of its own), except in
`FIRST_FETCH`, where the controller asserts it.  `InterruptTest` and `StalledProgram` in turn do not
contain `InstructionFlow`: they rely on instructions being executed in order and on interrupts
being taken between them, which `FollowsTheHart` checks of the core, and reduce the core to what
the generators can see of it - the cycle in which a statement takes effect, and its requests.  In the other direction `PrefetchBuffer` assumes
that a loop is turned only when `LOOP_LEAD` words have been handed over since the last turn and
`HWLP_END` is next; that assumption is checked of the controller and the aligner as
`LoopsTurnInTime`.

Definitions whose name ends in a description of a slip (`next_pc_live`, `Step_early`,
`full_o_late`, ...) are variants of the definition of the same name with a plausible mistake in
them.  No specification uses them; they serve to see that a property notices the mistake.

## 3. The runs

| Run | Question | Bounds |
|---|---|---|
| `fifo_ring` | Does the ring do and show, input for input, what the queue does and shows? | 4 words, 3 data values |
| `prefetch_obi` | Does the prefetch buffer hand over the stream, whatever grants, answers, stalls, branches and loop jumps do? Does it keep going? | FIFO of 2 words, as instantiated; 8 words of memory, 2 branch targets, 1 loop |
| `data_access` | Do overlapping, split and delayed accesses act in program order? Is every load delivered? | 8 bytes, 2 stores; words, halves, bytes, cv.elw at all alignments |
| `pipeline` | Does every instruction read the newest values and is no result lost? | x0 and 2 registers, every kind of instruction on all of them, every latency class |
| `pipeline_progress` | Does the instruction in ID get into EX? | a selection of what splits, stalls and holds back |
| `interrupted_loops` | Do the hardware loop tests compute what they should, and keep the constraints of loops? Are instructions in order, loops counted, and interrupts taken, with an interrupt line that comes and goes anywhere? | the test programs with 2 rounds per loop; a program of 44 half words with nested loops, 1 interrupt; counters modulo 4 |
| `debugged_program` | Are traps, steps and debug entries precise, in nested loops too, for the right cause, do they leave nothing behind, and is every request served? | 48 half words, 2 settings of dcsr and trigger |
| `interrupted_debug` | Is a step one instruction, with interrupts and debug requests together, asleep and awake? | 20 half words, 1 interrupt, 2 settings |
| `interrupt_test` | Does the interrupt test succeed, with every timing of stalls and interrupts? | 3 of 6 random lines, 6 to 9 cycles between interrupts, 4 random answers, stalls of up to 2 cycles |
| `stalled_program` | Does a program that stalls its own accesses print its text and exit? | delays of up to 3 cycles, 4 characters |
| `csr_at_unused_loop_end`, `csr_at_loop_end_stepped` | Two statements of the documentation that the code does not keep (see 6) | 18 half words |

Why these bounds are enough for the cases that matter:

- FIFO depth 2 and at most 2 transactions are what the core instantiates, not a bound of the
  model.  Eight words let a branch, a loop jump and three further requests have different
  addresses, with a wrap-around at the end of memory.
- Eight bytes let a split access wrap around; two stores and any number of loads overlap in every
  way the two transactions of the unit allow.
- Two registers besides x0 let a result be for the register an instruction reads, for another,
  and for none; at most two FPU operations are under way by construction of the dispatcher.
- The programs of the flow runs are written so that every FSM state, every kind of instruction
  and every alignment occurs, and so that the interesting neighbours occur: a CSR instruction
  in the middle and at the end of a loop, a loop inside a loop, a jump to the upper half of a
  word, an exception in a loop, wfi behind a loop.  They are written to respect the constraints
  `docs/source/corev_hw_loop.rst` lists for loops (`LoopsAreLegal`, checked of the test programs
  and of `LoopListing`).  Counters are kept modulo 4 in place of
  2^32: the loops run two or three times, and a count below 0 wraps as it does in 32 bits.
  In every cycle memory may answer or not, EX may be ready or not, and, where a run has them,
  an interrupt line and `debug_req_i` may be up or not.
- The debugger may write dcsr and the trigger to any of the settings of the run each time it is
  entered.
- The hardware loop tests run with `OUTER` and `INNER` at 2 in place of 10 to 200: a first and a
  last round of each loop, and an outer round that starts the inner loop anew.  They meet every
  stall and their own traps (ecall, ebreak, an illegal instruction), but no interrupt: with one in
  any cycle of programs this long the states are too many.  Interrupts hit `LoopListing` instead,
  in the same run, which has the same shapes of loops in fewer instructions; the proof (5) has them in the tests, too.
  The debugger of this run, which nothing calls, is a dret at one address (`DM_HALT`, `DM_EXCEPTION`).
- `MIN_CYCLES` and `MAX_CYCLES` are 6 and 9 in place of 100 and 200.  They have to exceed what is
  left of a handler after it has set the generator's mode, stalls included, or main would never
  get a cycle: a handler has two statements left there, and with 2 cycles between interrupts TLC
  shows main starving.  At 6 to 9 an interrupt hits every statement of main and of the product.
- `mm_ram` answers the register behind `random_num` with 0, so that both words of test 3 hold bit
  0 alone, which is no interrupt, and the test serves none.  The run lets it answer 0 and three
  more numbers, with which test 3 serves interrupts, masks some and leaves some pending.
- Delays of up to 3 cycles (`MAX_STALLS`) let an answer wait for two younger ones and a countdown
  outlast a change of its register; the FIFO of 8 answers is not a bound of the run.

`LegalAccesses` in `MCPipeline` leaves out post-increment loads whose destination is the base
register, and `Pipeline` takes `COREV_PULP = 1`.  The core fixes `PULP_OBI` at 0; the runs use that value,
the proofs of the prefetch buffer (5) hold for both.

What the properties mean:

- `HandsOverTheStream`, `KeepsProgramOrder`, `ImplementsQueue`: refinement of the abstract
  modules.  In the first and the last a step of the abstract module is not enough, since it chooses
  its own inputs: a ring that drops a word stutters, a prefetch buffer that goes to another
  target makes a legal branch.  So the inputs are coupled.  `SameAsQueue` compares, in every state and for
  all inputs, `full_o`, `empty_o`, `data_o` and the words left after the edge; it is a
  predicate on states, and so sees the push that changes nothing.  `DoesAsAsked` says of each action of
  `PrefetchBuffer`, with its arguments, what it does to the stream.  It is checked as
  `[][DoesAsAsked]_vars`, on every step that changes a variable; the proof (`AlwaysAsAsked`) has it
  for every cycle.
- `CountIsOutstanding`, `RoomForAnswers`, `NeverTooManyFlushes`, `HwlpEndIsRequested`: why the
  prefetch buffer keeps its promise; they are also proved (5).
- `RequestsAreStable`, `ElwBusyWhileUnderWay`: what the load-store unit owes its OBI interface
  (TRANS_STABLE) and the sleep unit.
- `OperandsAreNewest` (of every instruction, and of a jalr in ID), `NothingIsLost`,
  `SlotsMatchFpu`, `AccessesAreMadeOnce`, `CsrWaitsForFlags`: the pipeline's promises.  They
  hold although FPU operations do not take part in the load stall (`regfile_alu_we` is 0 for them):
  an FPU operation behind a load is requested again as long as WB is occupied, and a two-cycle
  result that loses the write port to a load is dropped and comes again for the same reason.
- `LoadsAreDelivered`: a load that has gone to memory is answered and leaves the unit.
- `FollowsTheHart`, in three parts, is the core's promise to software.
  `DecodesTheNextInstruction`: whenever the controller looks at a valid instruction, it is the
  one `Hart` runs next, put together from its own half words.  `Hart` takes its step in the
  cycle in which the core commits one (issues an instruction, takes an interrupt, an exception or
  enters debug mode), so the property relates the pc of the aligner, the IF/ID register, the FSM,
  loop registers and trap registers to the architecture over any number of cycles.
  `LoopsAreCounted`, `TrapsArePrecise`: loop counters, mepc and dpc are those of the
  architecture.
- `LoopsTurnInTime`: what `PrefetchBuffer` assumes of the controller.
- `LoopsAreLegal`: a property of the program, the one the theorems about the order of instructions
  assume (5).  It is stated of the instruction `Hart` runs next and of the loop registers, as
  `corev_hw_loop.rst:53` suggests it be checked: a running loop has three instructions or more, an instruction in its
  body is wide, at an even address, no jump, and writes no register of the loop; nested loops end
  an instruction apart; a loop is defined from outside its body.  Three conditions are not in the documentation and
  are needed because the controller compares the registers of loops that have ended, too: the
  last instruction of a running body is not the last but one of what the registers of the other loop
  say; loop 1 does not end within the addresses of loop 0; a status CSR instruction stands at
  `lpend - 4` of a loop in use only, and is not stepped there except in the last round.  The last of the three
  are the findings of 6.
- `ResultIsExpected`: behind each hardware loop test its register holds the value its header
  computes.
- `FlagsAreConsumed`: flags that one FSM state leaves for another are gone when it is over.
- `StepsOneInstruction`, `EntersDebugForItsCause`, `DebuggerIsServed`: what a debugger relies on.
- `NoTestFails`, `Succeeds`: the interrupt test ends, with success.  The first says which failure
  branch of the program would be taken, the second that every wait for a handler ends and that
  handlers leave main time for the product.
- `ServesWhatIsPending`: the core takes no interrupt whose line has just been lowered - a handler
  is not entered twice for one line because `mip` lags behind.
- `StatusIsNotShared`: main and the handlers change mstatus through one variable without a
  lock, and never at the same time.
- `CountdownIsAlive`: a countdown for a request that waits has not passed 0, also when a
  peripheral has taken the request it was started for.
- `TextIsPrinted`, `Exits`: each character once and in order, all of them before the exit, which
  comes.
- `TypeOK` of `StalledProgram` says also that the answers fit into the FIFOs.

## 4. Fairness

Fairness is assumed of the surroundings, never of the core itself, which takes a step in each
cycle.

- `PrefetchBuffer!Fairness`: the memory grants and answers (OBI), and a core that is awake takes
  a word it is offered.  Without branches for ever, words keep coming (`WordsKeepComing`).
- `DataAccess!Fairness`: the data memory grants and answers (OBI).
- `PipelineProgress!Fairness`: memory and FPU grant and answer, and a division ends
  (`cv32e40p_alu_div` counts its steps down).
- `FlowProgress!LiveSpec`: again and again there is a cycle in which the memory has answered and
  EX is ready - what the two items above give.  `beat` flips in such cycles and fairness asks
  that it keeps flipping; between two flips any number of slow cycles may pass.  It does not say
  which interrupt or debug inputs such a cycle has.  `HwlpProgram!TestSpec` takes the beat over
  and leaves it out while a test runs: the tests end by themselves, so an execution that stays in
  one for ever says nothing about `InterruptsAreTaken`, which is about `LoopListing`.
- `InterruptTest!FairSpec`, `StalledProgram!FairSpec`: the clock ticks (`WF_vars(Next)`).  Stalls
  end because they are bounded: `MAX_STALL` cycles in a row in the one, the countdowns that are
  modelled in the other.

`InterruptsAreTaken` says that an enabled interrupt does not stay requested for ever.
`DebuggerIsServed` says that a request as short as one cycle is answered; it is checked
without interrupts (`debugged_program`), which could otherwise follow each other for ever.

## 5. The proofs

`Fifo_proofs`, for every depth that is a power of two (`PTR_MOD = DEPTH`: pointers of
log2 DEPTH bits wrap at DEPTH):

- `PointersCorrect`: types, and the write pointer is `status_cnt_q` ahead of the read pointer.
- `RingIsQueue`: the ring implements `Queue`.  In every state the invariant allows, the same
  inputs leave the words in `NextRing` that they leave in the queue (`SameWordsAfter`), and the outputs are
  the same (`RingAgrees`); so an edge of the ring is the edge of the queue with these inputs
  (`EdgeIsQueueEdge`), which is what lets `PrefetchBuffer` use the queue.  The words are compared one by one
  (`SameWords`): popping moves the index by one, pushing adds the word at the write
  pointer, which the invariant places behind the last element.

Other depths, which the header of `cv32e40p_fifo` allows, are left out: `flush_but_first_i` sets the
write pointer to `read_pointer_q + 1` without wrapping it at DEPTH.  `cv32e40p_prefetch_buffer`
states the restriction and uses 2.

`PrefetchBuffer_proofs`, for every FIFO depth above 1, every memory size, every set of targets,
both request rules, with and without hardware loops: `TypeCorrect`, `CounterCorrect`,
`AlwaysRoom`, `FlushesEnd`, `LoopEndUnderWay`, all from `InvariantHolds`.  The invariant is

    IInv == TypeOK /\ CountInv /\ DelayedFlushInv /\ RoomForAnswers /\ LoopInv

None of the five properties is inductive alone.  `RoomForAnswers` counts the answers that will
be discarded; during a delayed flush these are `hwlp_flush_cnt_delayed_q`, and the property
survives the moment the delayed count becomes the current one only because the FIFO is empty
and nothing else is being discarded then (`DelayedFlushInv`).  That in turn needs that no second
loop jump arrives meanwhile, which `LoopInv` and `lead` provide: three words have to be handed over
between two jumps of a loop, and none is while the flush waits.  `CountInv` ties the counter to
the memory, so that "answer arrives" implies that the counter is not 0.  The step is proved once
for all inputs that satisfy `GoodInputs` (`CycleInv`), one conjunct at a time; `FetchInv`,
`TakeBranchInv` and `HwlpTurnInv` show that each action supplies such inputs.

The second part of the module, for the same constants: `StreamImplemented`, the refinement of `FetchStream`.
The words that are wanted are counted through (`WantedAt(k)`: the FIFO, then HWLP_END if a flush waits
for it, then the transactions behind those that will be discarded), so that a cycle is a shift of this
numbering by the word taken and an addition at its end (`SequentialWords`), or leaves HWLP_END at most
(`LoopWords`) or nothing (`BranchWords`).  The mapping takes two words of the stream from them; that the
third follows the second, and the request the last, is the invariant

    SInv == IInv /\ RunInv /\ TargetInv

`RunInv`: behind the second wanted word addresses run on, since a jump goes behind the first.
`TargetInv`: no second loop jump comes while the target of a branch or of a loop waits to be requested
- the controller would drop it, because in BRANCH_WAIT it requests the pending target.  From
`SInv` each action is shown to move the stream as it asks, a word taken (`FetchDoesAsAsked`), a branch to its
very target (`BranchDoesAsAsked`) or a turn to its very start (`TurnDoesAsAsked`).

`DataAccess_proofs`, for every size of the memory, every set of accesses, any number of stores, with
and without `PULP_OBI`:

- `CountCorrect`: `cnt_q` is the number of answers the memory owes (`CountInv`, which also says that
  they are at most two).
- `RequestsStable`: a request that is not granted stays as it is.  The data request depends on
  the access in EX and on nothing the rest of the pipeline changes, provided that the access
  cannot leave EX while it is refused (`RefusedStays`); that needs that no branch, which EX
  would let go of at once, shares EX with it (`BranchInv`).
- `ElwBusy`: `p_elw_busy_q` is true exactly while a cv.elw is under way.  The register is set and
  reset by single transactions, so the invariant has to say what may be under way together with
  a cv.elw: behind one in WB there is nothing but its own second half (`AloneInv`, because ID
  waits for it), a load in WB owes an answer and two answers are owed only while an access is in
  EX (`WbInv`), the second half of an access is an access (`ExInv`), and one whose first
  half was accepted has set the register already (`EarlyInv`).

`Pipeline_proofs`, for every set of registers and of instructions, whatever the memory, the
divider and an FPU of any latency do: `SlotsCorrect`, `CsrSeesAllFlags` and `AccessesMadeOnce`,
all from one invariant:

    IInv == ExInv /\ MulhInv /\ DivInv /\ SlotInv /\ LatencyInv
              /\ CsrWaitsForFlags /\ AccessesAreMadeOnce

- The slots of the dispatcher shift when a new operation is accepted, so `SlotsMatchFpu`
  depends on what the FPU may answer meanwhile.  `SlotInv` counts: the filled slots are the operations
  in the FPU and the result held back in `apu_result_q`.  A result is held back only with
  `apu_lat` 3, and such an operation is alone, so a second result never overwrites it.
- `LatencyInv`: two operations are under way at the end of a cycle only in the way that keeps the
  slot `waiting` empty, because a shorter operation is not dispatched behind a longer one.
- An instruction that stays in EX for several cycles must not be given to its unit twice:
  `MulhInv` and `DivInv` tie the units' states to the instruction in EX, and `HeldBackWithoutRequest`
  shows that a result is held back only when no FPU operation is in EX.
- `AccessesAreMadeOnce` needs that nothing but the load-store unit keeps an access in EX: the units
  are idle then, and a result that would take the write port from an access that updates its address is
  held back.
- `CsrWaitsForFlags`: a CSR instruction that reads flags enters EX only with nothing under way, and
  nothing is dispatched behind it before it leaves.

The second part of the module builds on it, for every set of registers and of instructions:
`OperandsAreForwarded` (`OperandsAreNewest`) and `ResultsArrive` (`NothingIsLost`).  Neither is
inductive: which value an operand gets depends on every place a value can wait in.

    VInv == IInv /\ ExValues /\ WbValues /\ FpuValues /\ RegValues
              /\ target.value = target.reg

- `ExValues`: the instruction in EX is the youngest, so what it makes is always newest.
- `WbValues`: a load in WB is newest, or a load or FPU operation in EX writes its register again.
  Anything else that writes it waits (`load_stall`, also for the write-after-write case).
  The stall compares with the address register of EX, which is the load's as long as no other load
  follows.  The first half of a split load is not written; its second half is in EX.
- `FpuValues`: an operation in the FPU is newest, or an FPU operation in EX follows it.  One of two
  cycles meets a load on the LSU port - which then has the port - only when WB is
  not ready, and then EX, which could not let go of it, requests it again.
- `RegValues`: a register that is out of date is held for in EX, WB or the FPU.

The argument goes in three lemmas about one cycle.  `NotYetWritten`: what is not in the register
file after the write ports have written stays where it is or moves one stage on.
`OperandForwarded`: with the stalls of ID passed, the value picked by `operand_fw` is newest
(EX path first, because a stale value on the LSU port always has its successor in EX).
`JumpTarget`: a jalr that is not stalled finds the register file up to date; this is where
`HoldBackJalr` is needed, since a result of the FPU on the ALU port would hide the one of the ALU
from `jr_stall`.

`InterruptTest_proofs`, for all random words, cycle counts, answers of `random_num` and stalls, proves the four
properties of the test that are not liveness.  `StatusNotShared` does not depend on what the generator does.
The property is not inductive: that no handler starts while main is in `mstatus_disable` holds
because interrupts are disabled by then, and those may only be enabled again in a wait.

    IInv == PhaseInv /\ MaskedInv /\ TestInv /\ EnabledInv /\ CallInv /\ DisableInv

`PhaseInv` tells test 5, where handlers do not touch mmstatus, from the others by `irq_mode`.
`MaskedInv`: a handler runs with interrupts disabled, and the handlers of tests 2 and 3 return with
interrupts disabled because they clear MPIE.  `EnabledInv`: before test 5, interrupts are enabled only
in the two waits, and there main leaves the wait only once a handler has changed the pending word it
sampled - hence interrupts are disabled again when it does.  `DisableInv`: what
`mstatus_disable` is about to write does not have the bit.

`TypesOfTheTest` needs `CarriedInv` besides the types: what `mstatus_enable` is about to write are bits of
mstatus, although a handler of test 5 may come in between and keeps the register on its stack
(in test 2 and 3 the word in question never meets a handler).  `EncoderNamesARequest` says that the encoder's
order has every implemented line; it takes the least place of a requested line, by the theorem of the library on
well-founded orders.

`PendingIsServed` follows a word along its registers.  `Cycle` is all it uses of the generator, proved once
(`GeneratorCycle`) for both orders in which a simulator may run the processes at an edge.

    ChainInv == DefinedInv /\ RandomInv /\ IdleInv

In tests 2 and 3, `Level(k)` says that the word in mm_ram and the first k registers behind it hold what is pending, or
still nothing.  Every cycle without a new word raises the level by one (`WordMovesOn`), and
`DefinedInv` has the statement of the handler, or the instruction of `mstatus_enable`, at which each level is reached: the
three between the store and mret are as many as are needed.  In test 5 `RandomInv` follows the mode instead: the handler
writes STANDARD and then RANDOM, and by mret the generator has seen the first, dropped its lines, and
mip has nothing that the generator does not hold.

`TestsPass` adds the program's bookkeeping to that.

    TestInvariant == TypeInv /\ ServeInv /\ SetUpInv /\ OrderInv /\ ProductInv

`Left(n)`: the lines that are pending and enabled are the expected ones from the n-th priority on.  `OrderInv` has `Left(i)`
before the handler of a round and `Left(i + 1)` with `irq_id = IRQ_ID_PRIORITY[i]` after it.  The handler is entered for that line because a
word goes through the registers as a whole (so mip is never a part of what is pending) and because
`IRQ_ID_PRIORITY` is the core's order without the lines that are not implemented (`EncoderKeepsPriority`).
`ProductInv`: the rows in `res` are those of the product.  That the product is `res_expected` is a fact about
constants, which TLC evaluates (`ProductAssumption`).

`StalledProgram_proofs`, for every text, every bound on the delays that fits the four bits of an answer's delay and
every delay drawn: `AnswersFit` (`TypeOK`), `CountdownGoesOn` (`CountdownIsAlive`) and
`TextComesOut` (`TextIsPrinted`), from

    SInv == KnobInv /\ CountInv /\ FetchInv /\ LoadInv /\ PrintInv

- `CountInv` leaves out whether the stalls are active: the grants are counted before that, too, so
  that a program may switch the stalls on in any cycle.  `KnobInv` bounds what is drawn: the
  program never leaves a port with a delay other than 0 or a random one up to `MAX_STALLS`.
- `FetchInv`: the instructions in the buffer and those under way follow each other without a gap, and each answer
  shows its instruction, also when the memory reads out the next one before it goes out.  So what is issued is the
  instruction at `Next_pc`, which advances by one with each issue.  `PlaceOf` says which instruction that is.
- `LoadInv`: between a load and its print the character is in one answer on the data port, which may wait
  behind the answers of stores, or in a0.  The print waits for it, and no other load is issued before the
  print.  `RestKeepsWords` is the lemma on riscv_rvalid_stall: an answer keeps its word however long it waits.
- `PrintInv` ties what was printed to `Next_pc`.

`InstructionFlow_proofs`, for every program, memory size, interrupt and debug setting, and every timing
of memory, EX, interrupts and debug requests.  The first part holds of every program:

    FlowInv == FlowType /\ FlagInv /\ ExInv /\ FlushInv

- `FlowTypes` (`TypeOK`) and `FlagsConsumed` (`FlagsAreConsumed`).  That a flag is consumed depends on
  who can have set it: `FlagInv` names for each flag the states in which it may be up and the reason
  why (`debug_req_entry_q` only outside debug mode and with a request or a trigger,
  `debug_force_wakeup_q` only in DBG_TAKEN_IF and without a step), and for each state whether it is reached in
  debug mode or with a step pending.  `FlushInv` says which instructions the pipeline is flushed for;
  FLUSH_WB decides by the instruction in ID again, a cycle or more after it was chosen.  `ExInv`: a CSR
  instruction that writes a trap register is in EX during a flush only, a branch only where the FSM waits for it.

The second part is about the order of instructions, under `[]LoopsAreLegal`: the core does not check
the constraints of hardware loops, and without them it does not keep the order.  For programs without loops and
for the hardware loop tests the condition is proved (below).

    HartInv == AlignerInv /\ InstrInv /\ SavedInv /\ BranchInv /\ UpdateInv /\ PcInv /\ StepInv

- `HartIsFollowed` (`FollowsTheHart`).  The property speaks of the cycles in which the controller looks
  at an instruction.  The invariant has to say in every other state where the next instruction is: in
  ID, at `pc_q` of the aligner, the target of the branch in EX, a return address, the start of a loop.  That is `PcInv`,
  one line for each FSM state; `AtDecode` and `AtLoop` say it for an instruction in ID that has not
  issued yet and may have jumped already (`jump_done_q`), `AtFlush` for the two or three cycles after it has.
  `AlignerInv` ties `pc_q` to the words the prefetch buffer offers in each state of the aligner, and a
  loop target that waits there (`hwlp_addr_q`) to the word behind the next; `UpdateInv` says when one
  may wait, so that no later jump finds it left over.  `BranchInv`: no branch is in EX while the FSM is in the loop
  state, where `branch_taken_ex_i` is not looked at.
- A body is followed by `RoundStep`: from an instruction in a running body the hart goes to another one in
  a running body, or ends the loop; the last instruction of a body is that of one loop only (`LastOfOne`), and
  `hwlp_targ_addr` then names that loop.  Each condition of `LoopsAreLegal` is used there or in `InTime`.
- `OneInstructionAtATime` (`StepsOneInstruction`) from `StepInv`, which counts what has been run since dret
  in each state; `DebugIsEnteredForItsCause` (`EntersDebugForItsCause`) from `FlagInv` and `PcInv`, since the
  cause is chosen in DBG_TAKEN_ID a cycle or more after the reason was seen; `LoopsAreTurnedInTime`
  (`LoopsTurnInTime`) from `AlignerInv` and `AtLoop`.
- `WithoutLoopsTheHartIsFollowed`: a program without instructions that write loop registers needs no
  condition on its states.  That the registers stay 0 is an invariant to be proved (`NextStartsNone`), because
  they are compared all the same; a status CSR instruction in the last word of the memory is excluded, since
  lpend after reset is 0, the address behind it.

The proof goes in two layers.  What the controller chooses is described per FSM state and kind of
instruction (`ExecSpec`, `WrapSpec` for stepping, `FlushSpec`), what a clock edge does with given outputs once for all
(`EdgeSpec`, `EdgeFetch`, `EdgeSaves`); one lemma for each state or kind of instruction puts the two together.

`HwlpProgram_proofs`: `LoopTestsSucceed` proves `ResultIsExpected` for any number of rounds `OUTER` and `INNER` and
wherever a linker puts the tests and the other programs (`LayoutAssumption`), with every timing of memory and EX, and with
interrupts, exceptions, single steps and debug requests in any cycle of the tests - the run leaves out interrupts there.
`LoopTestsInOrder` and `LoopTestsAreLegal` prove `FollowsTheHart` and `LoopsAreLegal` of the same specification.  Two
conditions on the states are left, `KeepsToTheRules`, which `LoopsAreLegal` (checked by the run) implies: programs beside the
tests, of which nothing is known, are legal, and the debugger does not step through a CSR instruction at the end of a
loop before its last round - the tests have such an instruction, and there the core does miss the end of the loop
(`csr_at_loop_end_stepped`).  `OnlyTestsSucceed` does without both where boot leads to the tests
only and the debugger writes no setting with dcsr.step.

    ProgramInv == Shape /\ LoopsApart /\ HandlerInv /\ ResumeInv

- `Resume` is the instruction of the programs at which the hart goes on once a handler (by mret, behind the instruction
  if that trapped) and the debugger (by dret) are through.  While it is the kth of main, `ResumeInv` has
  `TestsClaim(k)`: what is known of registers, stack slots and loops there, for each of the 196 instructions, in terms of the
  rounds that are over (`Done(n, c, each)`).  `HandlerInv`: in a handler interrupts
  are off, so that none is entered within one; `LoopsApart`: no loop, set up or not, has its registers in a handler.
- `Moves` is all these proofs know of the core: in a cycle the hart stays, takes an interrupt, an exception or a debug
  request, comes back, or retires one instruction, whose effect on the registers and loops is `TestStep(k)`.  It is
  proved from `HartInv` (`ChosenMoves`): what goes to EX is what the hart runs, once and in order.
- `TestInstructions` steps `TestsClaim` over each instruction, a section of main at a time.  A loop is
  counted exactly when its last instruction retires, so an instruction that is refused and skipped by the handler
  (ecall, ebreak, dret outside debug mode) in the last place does not end its round - the expected result of
  `HWLP_TEST_INTERRUPT3` relies on it.
- `IsBody` lists the 29 bodies of main, and `OverBody` in `ResumeInv` has each loop off, as after reset, or over one of
  them.  From it and `TestsClaim` the places of the hart and of both loops are known (`LoopPlaces`), and
  `LoopsAreLegal` follows (`TestsAreLegal`) from what stands in a body and how bodies lie to each other (`BodyLegal`,
  `BodiesApart`).  The registers of a loop that has ended count as well: the controller goes on comparing them.
  `ProgramInv` of the next state needs `LoopsAreLegal` of this one only, so `TestsInv`, the two and `HartInv`, is
  proved by one induction.

In the model it led to, compared with what only the runs had shown: the comparisons with lpend and the target of
fence.i wrap around as 32-bit sums do, and an illegal access to dcsr leaves nothing in EX.

Assumptions: `FifoAssumption`, `PrefetchAssumption`, `TargetsAssumption`, `DataAccessAssumption` (a
cv.elw is a load), `PipelineAssumption` (latencies 1 to 3, only accesses increment their address),
`SoftwareAssumption` (an even number of half words, more than four; entry addresses and targets of jumps are in
memory; fence.i is not compressed), `CountsAssumption` (a counter can hold 2), `LoopFieldsAssumption` and `FlowAssumption` (types of the operands of loop
instructions and of what a debugger writes), `RoundsAssumption` (one round at least), `LayoutAssumption` (the tests lie in one
piece, with nothing between their instructions; the programs before, behind and beside them keep away from their
registers and do not jump into them; those before and behind set up no
loops; only those beside reach the last word of the memory; a handler returns, the debugger leaves the programs as they are), `GeneratorAssumption`, `ProgramAssumption`, `ProductAssumption` and
`StallAssumption` (delays of four bits, a text without the character 0) in the modules that declare the
constants, evaluated by TLC in the runs.  The invariants were model-checked before they were proved.

Model-checked only: all liveness (fairness and ENABLED are out of the prover's reach); that
programs with hardware loops other than the tests keep `LoopsAreLegal` (`LoopListing` of the runs does).

## 6. Disagreements found

- `csr_at_unused_loop_end`: an instruction with `csr_status` at `lpend - 4` counts the loop down
  without asking whether it is in use.  From 0 the counter becomes 2^32 - 1, FLUSH_WB finds it not
  0 and jumps to lpstart.  The documentation says that a loop is enabled when lpcount > 0; the
  paths for other instructions test for it.
- `csr_at_loop_end_stepped`: when such an instruction is the last of a loop that is in use and is
  single-stepped, the loop is counted but the jump, which FLUSH_WB would make, is skipped because
  single-stepping replaces FLUSH_EX by DBG_FLUSH.  dpc is lpend instead of lpstart.

The passing runs keep clear of these two situations: `LoopListing` has CSR instructions at
the end of a loop in use but no debugger, and its instruction at lpend - 4 is not reached with
the count 0; `DebugProgram` has none at the end of a loop.

Observed while modelling, and no finding of a run:

- `hwlp.h` is written for an earlier meaning of lpend, the address of the last instruction of the
  body; in the RTL lpend is the address behind it.  Its immediates for lp.setupi (four times the
  number of instructions of the body) are therefore modelled by what the comments and expected
  results in the header say they enclose (`lp_setupi` in `HwlpTest`), not by the encoding.
- `mem_stall.c` calls registers 6 and 7 the delays of grants, but `mm_ram.sv` (653-689) connects
  the grants of both ports to registers 8 and 9.  The programs write the same value to all four.
- `_sbrk` (`syscalls.c`, 256-270) adds the increment to the heap's end before it compares and once
  more after it, and returns a block even when there is no room.  No program in the repository
  uses the heap in a way that would show it.

## 7. What is not modelled, and the plan

Not modelled, of the core: the values of the ALU, decoder tables (base and compressed), CSR reads and
performance counters, immediate generation, the latch register file (it depends on clock phases),
PMP and user mode (switched off by parameters in this core), atomics (`A_EXTENSION` is 0), the
vendored FPU (external, any latency), simulation and lint support.  cv.elw is in `DataAccess` but
not in `Controller` (`COREV_CLUSTER = 0`).  The clock is taken to run in SLEEP.

Not modelled, of the testbench and its programs:

- Test 4 of the interrupt test and the process `PC_TRIG` of the generator, which only it uses: the
  source has the test commented out.  Outputs of the generator that nobody connects.
- `irq_served` and other variables that are only printed; words of test 3 that are not read any
  more are forgotten (`NoTest`).
- `HWLP_TEST3` and `HWLP_TEST5`, whose results are what the boot code at the addresses they load
  happens to be.
- The RAM behind the ports, the timer, the signature and the atomics shim of `mm_ram`; of the system
  calls all but `_write` and `_exit`.
- `custom_fp`'s products (values of the FPU), `firmware` (sequential tests of the data path),
  `stats.c`, crt0, the tracer and the behavioural models.

What is left, in this order:

1. `SleepUnit`: clock gating with `core_busy_q`, the ungated registers and the registered
   interrupts, composed with the FSM's sleep states; no wake-up is lost, and the clock stops only
   when nothing is under way.  cv.elw in the controller (ELW_EXE, IRQ_FLUSH_ELW), with the last
   instruction of a loop body.
2. CSRs: the remaining registers, the bypass of mie, counters and their inhibition.
3. Algorithms as operators against their definitions: division (sign, zero, overflow, number of
   steps), MULH from partial products with its carry, find-first-one, population count, the
   ALU's shifter and bit operations, the compressed decoder's table.
4. Proofs: `LoopsAreLegal` from a condition on the program alone for any program with hardware loops (by now for
   programs without them and for the hardware loop tests).
