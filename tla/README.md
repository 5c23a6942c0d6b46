# AURORA-X: TLA+ models, model checking and proofs

This directory holds TLA+ specifications of the AURORA-X system: the RTL of the
multi-core SoC (`src/aurora-x-hardware`: memory system, peripherals, clocks, SMT core) and its
tools (`src/aurora-x-tools`: compiler, assembler, disassembler, emulator). The modules are translated
from the source; `PROJECT.json` maps each definition to the lines it stands for.

## 1. The system

### Components

| component | source | state | operations | what makes it correct |
|---|---|---|---|---|
| L1 data cache, one per core | `l1_cache.v` | `state` (IDLE/FETCH/WRITE), `cache_valid/tag/data` | load, store (write-through, no allocate), fill, snoop invalidate | a hit returns the current value of the word; a stall ends exactly when the access is done |
| L2, shared | `l2_cache.v` | the same | load, store, fill | agrees with memory except for the store under way |
| L3, shared, optional | `l3_cache.v` | the same | the same | the same |
| AX bus | `ax_bus_scalable.v` | `serving`, `current_master`, `last_granted_master` | round-robin grant, decode to five slaves, answer, snoop broadcast | one transaction at a time, bounded bypass, every other core hears of a store |
| main memory (testbench) | `tb_aurora_x_soc.v:65-88` | contents, latency counter, `mem_ready`, `mem_read_val` | answers after `LATENCY + 1` cycles with a one-cycle pulse | a store takes effect once |
| PMU | `ax_pmu.v` | `pmu_ctrl`, `div_counter`, `div_sel_sync`, `core_en_sync` | CSR write, divide, gate | core clocks change without breaking the protocols that cross them |
| core: SMT pipeline | `aurora_x_core.v`, `hazard_unit.v`, `forwarding_unit.v`, register files | five stages shared by two threads, two PCs | fetch alternates threads; stall, flush, forward | each thread executes its instructions in order, once |
| core: CSRs and traps | `aurora_x_core.v:139-265, 337-385` | `mstatus`, `mepc`, `mcause`, ... per thread | ECALL, faults, interrupts, EXRET, CSR writes | no trap, interrupt or CSR write is lost; the handler runs exactly when the CSRs say so |
| MMU | `mmu.v` | 32 TLB entries, replacement index | translate, refill by CSR | a mapping answers until as many others have come as there are entries, and no longer |
| branch predictor | `bpu.v` | BTB and counters, shared by threads | predict, update | a wrong prediction is always repaired |
| multiplier, divider, FPU, vector unit | `ax_multiplier.v`, `ax_divider.v`, `ax_fpu.v`, `vector_alu.v`, `alu.v` | busy/ready handshakes | start, finish | a result is taken exactly once |
| CLINT | `ax_clint.v` | `mtime`, `mtimecmp` and `msip` per core | bus reads and writes, count | an interrupt line follows the registers of its core |
| UART | `ax_uart.v` | transmitter and receiver with their clock and bit counters, `rx_valid` | bus reads and writes, a bit time of each engine | every byte is sent and received whole, in order, once |
| GPIO, SPI | `ax_gpio.v`, `ax_spi.v` | direction and output bits; control word, shift engine, chip selects | bus reads and writes, half a bit of a transfer | both ends of a transfer get the other's byte |
| legacy parts | `ax_bus.v`, `aurora_x_core_single.v` | | | not instantiated by the SoC |
| emulator | `ax-emu/src/*.rs` | registers, CSRs, memory, mode | one instruction per step, traps, paging | the privilege level never rises but through a trap |
| assembler | `ax-asm/src/*.rs` | symbol table, address, words | labels, parsing and encoding of a line, files written | branches reach their labels, decoders read what was written, nothing half written |
| compiler | `ax-cc/src/*.rs` | tokens left, registers of variables, labels, call sites | parse, generate | the program shows what its source means; calls come back |
| disassembler | `ax-disasm/src/main.rs` | none | decode and print a word | its listing assembles to the same words |

Test programs, demos, the LLVM target description and generated files (`*.vvp`, `*.vcd`,
logs) carry no logic of their own.

### How they interact

A core's MEM stage drives its L1 (`cpu_re`, `cpu_we`, address, data) and freezes the whole
pipeline while `stall` is high. An L1 that misses, or stores, raises a request on the bus.
The bus grants one master, connects it combinationally to L2, L2 to L3 and L3 to memory, and
hands back `ready` and the data along the same path in the same cycle; `ready` of memory is a
register and lasts one cycle. While the granted master stores, the bus drives `snoop_we` and
`snoop_addr` at all the other L1s. Bus, L2, L3, memory and peripherals run on `clk`; the
pipeline and the L1 (its snoop port included) of a core run on `clk_cores[c]`, which the PMU
divides and gates. Cores write the PMU's register with a CSR instruction; the CLINT
interrupts them. The bus decodes the granted master's address; the four peripherals answer from
a registered `ready` and `read_data` in the cycle after the request, and all accesses to them go
through the L1s like any other.

The tools hand on files: `ax-cc` turns a program into lines of assembly, `ax-asm` those into
words, `ax-emu` runs the words and `ax-disasm` prints them. Nothing but the numbers in the source
of each makes the assembler, the two decoders and the compiler's assumptions about registers agree.

### What is hard

* The three cache controllers are state machines in series with combinational paths through
  all of them, and only the order of updates keeps a value from being seen too early or too late.
* A store changes the L1, L2 and L3 copies in the first cycle and memory cycles later.
* Arbitration, snoops and fills of several cores interleave.
* Core clocks are divided and gated while a transaction is in progress: a one-cycle answer and
  a snoop can fall between two edges of the clock that should take them.
* A trap is taken in three stages (fetch, EX, MEM), for either thread, while other instructions
  of both are in the stages; a return takes two cycles, in which the handler goes on.
* In the core, two threads share flushes, stalls, the branch predictor and one CSR write port;
  two handshakes (cache and multiplier) stall the same registers.
* In the emulator, page tables are ordinary memory and code may rewrite itself, so any order of
  stores, CSR writes, traps and returns can happen; vector accesses are many accesses in one.
* Peripherals answer from a registered `ready` that outlives the request: the access is done in
  every cycle it is on the bus, and the next access of the same peripheral may find that `ready`.
* The serial line has a clock of its own; the SPI is busy while cores go on storing to it.
* The compiler has no return instruction, no frame pointer and no check of its registers: whether a
  value survives depends on which temporaries, calls and moves come between. The passes of the
  assembler, and the tools behind it, must agree about addresses and fields.

The full list, each at its line, is under `hazards` in `PROJECT.json`.

## 2. The modules

* **`CacheController`** - the controller that `l1_cache.v`, `l2_cache.v` and `l3_cache.v`
  share, as operators: each wire and each register's next value as a function of the state
  register, the lines, the request from above and the answer from below. A line array is a
  function from word addresses to data or `Invalid`; index and tag become a mapping from
  addresses to line numbers, and a fill empties what had the same index.
* **`SerialMemory`** - the abstract specification: one memory, each core with at most one access
  outstanding, loads return the current contents, a store takes effect once between issue and
  completion.
* **`SnoopMemory`** - cores' MEM stage, L1s, bus, L2, L3 and memory in lockstep on `clk`. One
  step is one clock cycle: `Granted` is the arbiter's combinational choice, `L3Request`,
  `MemRequest`, `L3Ready`, `L2Ready`, `BusReady`, `CoreReady` are the wires, and
  `CoreEdge`, `BusEdge`, `L2Edge`, `L3Edge`, `MemEdge` are the registers' `always @(posedge
  clk)` blocks. When an access completes, the next instruction in MEM is any (a load, a store
  or neither, to any address).
* **`ClockDomains`** - extends `SnoopMemory` with `ax_pmu.v`. A step is one edge of `clk`.
  On a rising edge the `clk` side moves, and with it the cores at full speed; on a falling edge
  the divider counter and the synchronised selections move, and the divided clocks that rise
  then clock their cores. Instructions that write CSR 0x800 take the place of an access in MEM.
* **`SnoopMemory_proof`**, **`ClockDomains_proof`** - the theorems about these two.
* **`SmtCore`** - the pipeline of `aurora_x_core.v`. A step is one edge of the core's clock:
  `Advance` when nothing stalls, `Hold` under `Stall_Pipeline`. `IF_ID`, `ID_EX`, `EX_MEM`,
  `MEM_WB` hold the thread and the PC of an instruction and whether it is live; `Stall_Pipeline`,
  `Branch_Taken_EX`, `Trap_Flush`, `Predicts`, ... are the wires of the same names, and
  `PcEdge`, `IfIdEdge`, `IdExEdge`, `BtbEdge`, `MuldivEdge`, `MulEdge`, `DivEdge`, `CsrEdge` are
  the registers. `wait` stands for the L1: the cycles until it lets the access in MEM go, a
  repeated store included. The program and the wires that may change beside it are chosen
  initially from `Scenarios`; results of EX are any of `Operands`.
* **`SmtCore_proof`** - the theorems about `SmtCore`.
* **`RefillWindow`** - abstract specification of a TLB that software refills: it answers from the last so
  many mappings. No slots, no index.
* **`Tlb`** - `mmu.v` with the CSRs of `aurora_x_core.v` that refill it. A step is one edge of the core's
  clock: `TlbEdge` with one of `WriteSatp`, `WriteVpn`, `WritePpn`, `WriteFlags`, `WriteElse`, in any
  order (the CSRs are shared by the threads, and a held write repeats). `Matches`, `hit_idx`, `tlb_miss`,
  `page_fault`, `pa` are the lookup for any page and kind of access. `i_mmu` and `d_mmu` get
  the same refills on the same edges, so their contents are one variable. **`Tlb_proof`** - the theorems.
* **`TrapMachine`** - abstract specification of privilege levels: what traps and returns promise
  to software, with nothing but PC, level, handler, interrupt enable and what a trap saves.
* **`Emulator`** - `ax-emu`: one step is one instruction, any one (`Execute`, an action per group of
  opcodes), or the end of the program (`Done`). `EnterTrap` is `enter_trap`, `Finish` the rest of the
  main loop after `execute` (`pc += 4`, the status CSR of `--test`, loop detection, and the panic of
  a debug build), `Fault`/`Translate` are `translate`.
* **`Emulator_proof`** - the theorems about `Emulator`.
* **`Uart`**, **`Spi`**, **`Clint`**, **`Gpio`** - the registers of one peripheral each, and its rising
  edge of `clk` as operators: `UartEdge(we, re, addr, data, line)` and so on. Bits of a byte, clocks
  per bit and the width of `mtime` are parameters.
* **`Peripherals`** - two or more cores with their L1s (`CacheController`), the bus (arbitration and
  requests of `SnoopMemory`, instantiated; decoding and answers here: `Selected`, `SlaveReady`,
  `SlaveData`) and the four peripherals. A step is one cycle of `clk`. What is connected to the
  pins is part of the model: a sender and a listener on the serial line (`PeerEdge`, `EarEdge`) whose
  clocks per bit may differ from the UART's, with noise between frames, a chip on the SPI
  (`ChipEdge`), a level on the GPIO pin. Each core runs any sequence of the instructions that
  `Programs` gives it, accesses and others; the one that uses the receiver is a driver that polls
  `STATUS` and then loads the byte (`Follows`). `due`, `polled`, `seen`, `landed`, `asked` and `odd`
  only record what has happened, for the properties.
* **`Peripherals_proof`** - the theorems about the answers of all peripherals and about the CLINT;
  **`Serial_proof`** - those about the UART and the SPI with what is connected to them.
* **`AsmText`** - lines of assembly as records; **`Encoding`** - the word of an instruction
  (`encoder.rs`) and its decoder (`ax-emu/src/decoder.rs`), in plain arithmetic.
* **`Assembler`** - `ax-asm`: one step per line of each pass (`main.rs`), `ParseLine` for `parser.rs`.
  **`Disassembler`** - the line that `ax-disasm` prints for a word. **`Assembler_proof`** - the
  theorems about these two and about `Encoding`.
* **`SourceProgram`** - what a program in the language of `ax-cc` means (an evaluator), and its text as
  tokens with as few parentheses as C needs. **`CParser`** and **`CodeGen`** - `ax-cc/src/parser.rs` and
  `codegen.rs`, as functions. **`PromisedOutput`** - abstract specification: a program shows the
  results that its source says, in order, and all of them.
* **`Toolchain`** - the tools in a row: `Parse`, `Compile` or `CompilerPanics`, the steps of `Assembler`,
  and then the instructions of the emulator that compiled programs consist of, with the values of
  registers (`Emulator` has everything else of it, but no values). `frames` records the calls.
  `Supported` says which programs are promised to show what they mean; each of its clauses is an
  assumption that the code generator makes and does not check (see *Disagreements*).
* **`MCSnoopMemory`, `MCClockDomains`, `MCSmtCore`, `MCEmulator`, `MCPeripherals`, `MCToolchain`, `MCTlb`** - values of
  the constants for TLC: also the programs, files and programs of instructions that the runs try.

Operators marked `mutant` are variants of the definition that follows them, with a mistake
that would be easy to make in the code. No specification uses them; `PROJECT.json` pairs each
property with a mutant that violates it.

What the models leave out. Memory system: addresses are words, values are opaque, all addresses of
`SnoopMemory` belong to memory (bus slave 0; the others are in `Peripherals`), instruction fetch has a memory of its own as in
the testbench, and accesses that a stall of EX repeats are in `SmtCore` only. `SnoopMemory` starts from empty L1 lines; `ClockDomains` does not need to (its
`PowerUpLines` are what the L1 arrays hold at power-up, because the synchronous reset of
`l1_cache.v:41-43` never sees a clock edge while `ax_pmu.v:74` holds the core clocks low), but
its runs take empty lines, since with others a first load may return anything.

Core: register contents, forwarding and the register files are abstract (an operand is any); a
load-use stall is taken as if the registers always matched, and the MMU is its two verdicts, which may
come at any time (`Tlb` has the MMU itself, and is not composed with the pipeline). The
core has the bus to itself, so an access takes the latency of memory.

Emulator: general registers and arithmetic are abstract, so base addresses, branch conditions and
stored words are arbitrary, and the decoder is a free choice of instruction. Memory is in words of
8 bytes and `vl` in whole words; code is in words of 4, and the handler and EPC are aligned to them.
Since any word may be fetched, code and data addresses need no relation. A word of memory is
represented by what it says as a page table entry. Addresses are small: the unchecked 64-bit sums
`page_table_base + vpn * 8` and `vaddr + i` do not overflow in the model.

Peripherals: the memory slave is idle (an idle L2 is ready), all cores run at full speed, and EX does
not stall, so no access is repeated by the core (`SmtCore` has that). The peripherals do not know each
other, so a behaviour keeps only those its program accesses. 32 GPIO pins are one.

Tool chain: a line of assembly is its mnemonic and its operands, a C program its tokens; how lexer
and parser cut up text is left out. Machine words have `WordSize` values instead of 2^64, a multiple
of 2^21 as the stack at 2^20 needs. The compiler's parser and generator have no state that outlives a
call and are recursive functions here, so `Toolchain` is model-checked only.

## 3. Runs

| run | question | bounds |
|---|---|---|
| `snoop_memory` | Do the copies of a word agree, and do the cores see one memory? | 2 cores, 2 addresses that share a line in L1 and L3 but not in L2, 2 values (symmetric), L3 on, latency 1 |
| `arbitration` | Is a waiting core overtaken a bounded number of times, and is every access answered? | 3 cores, 1 address, 1 value, L3 on, latency 3 as in the testbench |
| `clock_domains` | With any gating, waking and slowing down of a core, can a store be acknowledged early, memory be corrupted, or the full-speed core be locked up? | 2 cores, 1 address, 2 values, no L3, latency 1, PMU words: core 1 on at a quarter, core 1 off |
| `slow_loads` | (violated) Do loads return memory's contents with the default dividers, and beside a core that is switched off and on? | 2 cores, 2 addresses, L3 on, latency 3, PMU words: core 1 on, core 1 off |
| `peripherals` | Are accesses to the peripherals answered, by the right register and not before they are done; do bytes and interrupts get through? | 2 cores, 5 programs (sending, receiving, exchanging, timer, a shared GPIO), bytes of 2 bits, 8 clocks per bit at this end and 7 or 8 at the other, SPI at half speed, 2-bit `mtime` |
| `smt_core` | Do two threads stay in order, take the results of their own operands, and keep running? Are traps precise, and do returns get back after one more instruction? | 4 words of code, 53 programs with their events, 2 BTB entries, operands {0, 1}, latency 3, 4 divider steps |
| `program_order` | (violated) Does a thread that neither traps nor returns stay in order, after a wrong prediction and beside a trap of the other thread? | a loop of a branch and a jump; an interrupt wire that comes and goes |
| `trap_rules` | (violated) Do traps and returns keep to the rules of the ISA document? | a call; that wire; stores and fetches that fault, the latter beside a CSR write; an EXRET behind a load and one before a jump |
| `tlb` | Whatever the order of CSR writes: does the TLB answer from the last refills, as they were asked for? | 3 entries, 2 pages, 2 frames, 3 sets of permissions |
| `emulator` | Whatever the program: do levels and traps keep their promises, do stores stay in the mapping, do trapped vector accesses leave no trace? | 4 instruction words of which 3 are loaded, 2 RAM pages of 2 words, 3 virtual pages, vectors of 2 words, 2 page table entries, 6 CSR writes |
| `toolchain` | Do compiled programs show what their source means? Does the assembler put everything where it belongs, and do the decoders read it? | 12 x 12 pairs of binary operators nested on either side and below and above unary ones, 8 forms of arguments in every place, recursion, loops; all arrangements of 1 to 4 lines of 6 kinds; every mnemonic and form of operand; immediates at and beyond each limit; `WordSize` 2^30 |
| `compiled_expressions` | (violated) Does a C program always show what it means? | one program with `\|\|` and a sum of two calls |

Why the bounds are enough to be interesting: two conflicting addresses are what is needed for
a fill to evict a line and for a stale fill to be seen; two values tell old from new; two cores
are needed for every race between a store and a fill, three for unfair arbitration; latency 1
already has a cycle in which the controllers wait and one in which the answer passes, and
latency 3 is the testbench's. For `SnoopMemory` the proofs remove all of these bounds.

In `SmtCore`, 4 words of code let the PC wrap and let the two threads, which run the same program,
be at different places of a loop; with 2 BTB entries branches push each other out, and the tag
decides. `DivCycles` = 4 gives the divider a period of 7 cycles, which relates to the period 4 of a
repeated store as the real 67 does (both 3 modulo 4). The programs combine each pair of long
operations with branches and jumps in all positions, and separately calls, interrupts and page
faults. In `Emulator`, 2 words per page and per vector let a vector access straddle two pages; the
third virtual page has its entry in the second RAM page, and lies behind RAM when translation is
off; one entry maps a writeable page and one a read-only one; three loaded instructions are the
fewest with which a program goes on after a trap or return. The proofs remove the bounds of
`SmtCore`'s safety properties and of all of `Emulator`'s.

In `Tlb`, three entries have a first, a middle and a last slot, so that a page can be in two slots with
the newer mapping above or below the older; the proof is for any number of entries.

In `Peripherals`, bytes of two bits have a first and a last bit, so every branch of the shift engines
is taken; 8 is the least number of clocks per bit with a middle that tolerates noise of a cycle, and 7
at the other end is a drift of more than the real 868 would ever see. Two values are sent in each
direction. One core works with the peripheral and the other keeps taking the bus away from it (or
shares the GPIO with it, whose two registers are one entry of an L1). A two-bit `mtime` wraps around
many times. In `Toolchain`, four lines suffice for a label before, behind, next to and at the end of
the code, defined twice or never; the nested expressions reach the fifth of seven temporaries.

**What they show.**

* `TypeOK`, `L1Coherent`, `WriterExclusive`, `SharedCoherent`, `Handshake`: at full speed, every
  valid line holds memory's word or, for the store under way, the word being stored; during a
  store no other core has a copy; the controllers agree on what is under way when the answer
  comes.
* `OneMemory`: refinement of `SerialMemory`. The design is sequentially consistent for cores that
  access memory in order, stronger than the weak order that the ISA document asks for. `done`
  is mapped to the cycle of memory's answer to the store of the current master.
* `BoundedBypass`, `AccessCompletes`: round-robin order, and progress.
* `StoreDurable`, `MemoryFromStores`, `FullSpeedCompletes`: what survives any clocking of the
  other core.

* `StagesAlternate`, `ThreadsInOrder`, `ResultOfOperands`, `ThreadsRun`: neighbouring stages never
  hold instructions of one thread, which is what makes one flushed slot per branch and no real
  load-use stall enough; each thread's instructions pass EX in program order whatever the other
  does; EX takes the product or quotient of the operands it shows; and without further traps both
  threads run on. `ThreadsInOrder` exempts three situations: any trap (`Trap_Flush`), a branch
  wrongly predicted taken (`WronglyTaken`), and an EXRET with the instruction behind it (`Returning`,
  which still executes). Without the first two it is `ProgramOrder`, which is violated. `ThreadsRun`
  depends on the latency of memory: a store in MEM that is answered while EX multiplies is issued again, and a product that
  is ready while the store stalls is started again. With the testbench's 3 the two meet; with 4
  they need not (the property then fails).
* `TrapsPrecise`, `ReturnsAfterSlot`: a fault of a fetch, or an interrupt in the turn of its thread, saves as
  EPC the place at which the thread would have gone on, although instructions of it are still in the
  pipeline, and the handler comes next; the other thread's CSRs stay. `ReturnsAfterSlot` is
  what remains of the rule `ReturnsAtOnce`, which is violated (below): the instruction that was fetched
  behind an EXRET still executes, but it is only one, and the thread then goes on at the EPC that the
  EXRET read, however long either of them waits. A core that flushed the slot would satisfy it as well.
  It exempts edges with a trap (`Trap_Flush`), and a taken branch in the slot, which leads elsewhere. Exempt from
  `TrapsPrecise`: an edge at which something else takes the CSR write port (`PortTaken`: then nothing is saved of
  this trap, though the flush and the redirection happen), a branch in EX that fetch did not follow
  as it turns out (`Mispredicted`: EPC is then on the wrong path), and an EXRET in EX (`Returning`).
  ECALL, data faults, and interrupts in the other thread's turn are for `trap_rules`.
* `AnswersFromWindow`: the TLB is a refinement of `RefillWindow`. Software that refills a page finds it
  until as many other refills have come as there are entries, and an old mapping of the page may answer
  instead of the new one for just as long (there is no invalidation, and the highest slot wins); a CSR
  write right behind the one that asks for the refill does not get into it; a refill disturbs
  no page but its own and that of the mapping it replaces.
* `LoadsCurrent`, `StoresLand`: a load that a peripheral answers returns what its register held during
  the access, and a store is acknowledged only once it has been carried out. Both are about answers to
  the access itself. An access in whose first cycle on the bus its peripheral already shows a `ready`,
  which can only be left over from an access before, is exempt (`LeftOver`; `asked` is the core that
  asked for the same in the cycle before). Without the exemption TLC finds: a core that waits in
  `FETCH` is handed the data of another core's load, even of another register; a store to `TX_DATA`
  behind a load of `STATUS` is acknowledged while the transmitter is busy, and its byte is lost.
* `HeardInOrder`, `BytesAreSent`, `ByteWaits`, `ByteReadOnce`: what is stored to the UART is heard at the
  other end, in order, once and in the end; what was sent to it waits until it is read, and a polling
  driver reads it once. The sender waits for its byte to be read (the UART has no buffer; a byte that
  ends on the first edge of a read would be lost), and a sender that drifts does not start while the
  receiver is busy with noise. Since loads are cached, the driver first pushes `STATUS` and `RX_DATA`
  out of its L1 with a load of the same index (`Evictor`); without that it polls its first value for ever.
* `WholeExchange`, `OwnInterrupts`, `AccessCompletes` (of `Peripherals`): an SPI transfer is whole whatever
  is stored meanwhile; a software interrupt of a core changes only by a store to a byte of that core's
  `msip`, and a pending timer interrupt goes away only by one to its `mtimecmp`, to `mtime`, or when
  `mtime` wraps around; every access is answered.
* `BranchesReach`, `InstructionsSurvive`, `NothingHalfWritten`, `ListingReassembles` of the assembler:
  a branch to a label leads to its last definition, from both passes' counting; the decoder reads
  every field of every mnemonic as written; a file with a bad line is not written; the disassembler's
  line for a word assembles to that word.
* `ParsesBack`, `CallsReturn`, `ProgramMeaning` of the compiler: the parser reads a program as C's
  precedences and associativity say; each return leads to the innermost open call, with its stack
  pointer; and a supported program refines `PromisedOutput`: what it shows is what its source means.
* `Confined`, `UserKeepsMapping`, `EffectOrTrap`, `PrivilegeLevels` of the emulator: stores of
  any level change only pages mapped as writeable; a program at level 0 whose table does not map
  itself as writeable never changes its translation; an instruction that traps has changed neither
  memory nor a vector register; and the emulator implements `TrapMachine`.

**Disagreements between documents and code** (the four violated runs). L2 and L3 fill under
the address that is on the bus at the end of the answer cycle, which a half-speed core has
already changed. `README.md:18` and `docs/Hardware_Architecture.md:75,92` promise otherwise, and
half speed is the default of the E-core (`aurora_config.vh:34`). And a core that is switched off misses
snoops (`l1_cache.v:49`), so it later loads from lines that were overwritten. `slow_loads` stops at the
first of these; with `PmuWords <- Silent` it shows the fills alone, and with `ResetDiv <- FullSpeed`
the missed snoops (in 25 states, after some minutes). The same model shows, with other
constants, that a half-speed core's store may
miss the one-cycle answer for ever (`l1_cache.v:120`); this is not kept as a run.

Nor is this one, which the attempt to prove `StoreDurable` with an L3 led to. With the default
configuration (L3 on, `aurora_config.vh:47`; the E-core at half speed) a store can be acknowledged and
never reach memory, in spite of "Write-Through policy" (`l2_cache.v:80`, `l3_cache.v:93`). L2 fetches
a word that L3 has; the half-speed core takes the answer at the fall of `clk`, with L2 still in `FETCH`,
and moves on to a store; L2 therefore asks L3 for the store's address, L3 misses and fetches it, and
memory's answer to that fetch ends the store. TLC shows it in 18 states with 3 addresses that conflict
in L1 and L2 but not in L3, latency 1, no PMU words and `StoreDurable` as the property. This is why
`clock_domains` runs without L3, and why `StoresLast` (below) asks what it asks.

In the core, `Branch_Mispredict_EX` drives nothing, so a branch predicted taken that falls through
goes on at its target (`docs/Hardware_Architecture.md:54` has the pipeline flushed); `Trap_Flush`
empties two stages whatever thread is in them (`README.md:21` speaks of selective flushes); and the
next-PC logic does not look at ECALL, so a system call saves its state and goes on behind the call
(`docs/ISA_Specification.md:131`).

Five more are about traps and returns (`docs/ISA_Specification.md:129-132`). An interrupt is entered in the CSRs at once,
but fetch is redirected only if it is the thread's turn in that cycle; if not, MIE is off by then,
and the handler never runs. A data fault saves the address of the data as EPC, from which EXRET
goes on, although the PC of the instruction is there (`EX_MEM_pc`). The CSRs have one write port, and a CSR
instruction in MEM, usually the other thread's, comes before a trap: fetch goes to the handler, but nothing
of the trap is saved. ECALL and EXRET change the CSRs in every cycle that they wait in EX, so the second time from what
the first has left: a return to machine mode becomes one to user mode, with interrupts on. And EXRET
flushes nothing: the instruction behind it executes, in the mode returned to, and when it is a taken jump
the thread never gets to EPC. `AURORA-X-Tests/test_exceptions.s:32` has just that jump there, marked
"Fail if EXRET did not return to 64".

`program_order` and `trap_rules` stop at the first of their counterexamples. Each of the others is found when
`Scenarios` is one of `JustBranches`, `JustSwitches` (for `program_order`), `JustCalls`, `JustSwitches`,
`JustStores`, `JustWrites`, `JustReturns` and `JustSlots` (for `trap_rules`), of which the runs' scenarios are
the unions. Each of those for `trap_rules` violates one of the six rules and keeps the others.

Two things that may surprise, with no document to contradict: the data MMU translates the ALU result of
every instruction in MEM, access or not (`aurora_x_core.v:848`), so an ADD can fault; and the two threads
share the CSRs of the MMU (`aurora_x_core.v:117-121`), so one may write its page between the
other's page and flags. A label that no line defines is a branch distance of 0 (`ax-asm/src/parser.rs:357`).

In the compiler, the result of `||` is set before its left operand is tested, in the same register;
and the temporaries in use are not saved across a call, so the second of two calls in a sum overwrites
the result of the first (`README.md:52`, `docs/Software_Toolchain.md:34` promise both). `Supported`
also excludes, without a document to contradict: arguments whose register is the source of a later
one; the sixth temporary, which is the link register; division of negative numbers, which is unsigned;
calls and prints on the right of `&&` and `||`, which are always evaluated; a `return` of `main` that is
not its last statement; a function that ends without one; names that are declared twice.

**Fairness.** `FairSpec` and `FairClockSpec` ask for weak fairness of the next-state action as a
whole: the clock keeps ticking. Which core is granted, which one moves and when a divided clock
rises are all determined by the state, so no other fairness is assumed; a core's choice of its
next instruction is left completely free. In `Peripherals` the same is said by `odd`, which every cycle flips:
`[]<>odd /\ []<>~odd` (TLC checks this form much faster than weak fairness of `Next`). In addition, no
core stays for ever in instructions that ask the bus for nothing but leave a peripheral's address on
the address lines, as any loop with a branch in it does not. This is needed: a store that finds a
left-over `ready` is over at once, and yet sets `serving` (`ax_bus_scalable.v:108-111`); the bus then
waits for an answer of whatever address the core shows, and a core that goes on with cached loads of
a peripheral keeps all others waiting.

`Spec` of `Toolchain` lets a tool that has started run to its end and starts the next (weak fairness of
`Assemble`, `Start`, `Execute`; the compiler, a function, is not for ever at work); these are processes
that nothing blocks.

The same holds for `FairSpec` of `SmtCore`: one of
`Advance` and `Hold` is always possible, and which one is determined by the state. `Emulator` has no
liveness property: the process ends when the program does, which is why its run does not check
for deadlock.

## 4. Proofs

`SnoopMemory_proof` is checked by TLAPS for every number of cores, every set of addresses and
values, all index mappings, any latency of at least 1, with or without L3, from the
assumptions named in `CacheController` and `SnoopMemory` (`Invalid` is not a value, `NumCores`
and `LATENCY` are positive naturals, `EnableL3` is a Boolean).

None of the coherence invariants is inductive alone: that a fill brings memory's value needs
that the answer belongs to this access (`Handshake`), which needs that only the granted core
can be served (`WriterExclusive` and the shape of `l2st` and `l1st[current]`), and a store's
completion turns "the word being stored" into "memory's word" only because memory's answer
carries it. `IInv` is their conjunction with `TypeOK`. The lemmas follow the wires:
`RequestFields`, `PortFacts`, `PathFacts` and `AnswerFacts` say what the combinational path
carries in a state of `IInv`; `LineOrigin` says where the contents of a line can come from; then
there is one lemma per conjunct (`CycleTypeOK`, `CycleHandshake`, `CycleWriterExclusive`,
`CycleL1Coherent`, `CycleSharedCoherent`) and `NextIInv` joins them.

Theorems: `Invariance`, `TypeCorrect`, `Coherence`, `Exclusion`, `SharedCopies`, `InStep` (safety), `Bypass` (the action
property `BoundedBypass`), and `Refinement` (`Spec => OneMemory`, from `InitOneMemory`,
`CompletionFacts` and `CycleOneMemory`: each cycle is a step of `SerialMemory` in which the
accesses that complete are those of `Moving` and the store that takes effect is the one memory
answers next).

`SmtCore_proof` holds for all programs and events, any number of words, BTB entries and
operands, any latency and any length of a division (`CoreAssumption`). `IInv` is the conjunction of
`TypeOK`, `StagesAlternate` and what `ThreadsInOrder` and `ResultOfOperands` need in addition.
Order: the PC of a thread is the successor of its youngest instruction as fetch expected it
(`FetchFollows`), and only branches and jumps are ever expected to go elsewhere
(`OnlyBranchesTaken`), because the predictor holds nothing else (`BtbHoldsBranches`); that is why
nothing needs to repair an ALU instruction. Results: at most one operation is in the multiplier or
divider and its operand is the one in EX (`MulInFlight`, `DivInFlight`, `OpInAlu`), although a
stalled pipeline repeats it. Lemma `NoLoadUse` shows that the load-use stall never happens; `Moves` and
`PcMoves` say what an advance does to slots and PCs, case by case of flush and prediction.
Traps and returns add one conjunct, `InTurn` (the thread whose turn it is has nothing live in
IF/ID, so its youngest instruction is in ID/EX; and a dead slot of it there has its PC): the EPC of an
interrupt in the turn of its thread is therefore the PC, and by `FetchFollows` this PC is the successor
of what is in EX as fetch expected it, which is right unless fetch followed a branch the wrong way
(`FetchedNext`). `TrapStep` and `ReturnStep` are the two action properties for one edge. Theorems: `Invariance`, `TypeCorrect`, `Alternation`, `InOrder`,
`Results`, `PreciseTraps` (`TrapsPrecise`), `Returns` (`ReturnsAfterSlot`, with its exemptions).

`Tlb_proof` holds for any number of entries, pages, frames and permissions (`TlbAssumption`). The invariant
is `TypeOK` with `FilledInOrder`: entries are valid before the index and nowhere else, until all are. So the
ring read backwards from the index has all valid entries, each once, newest first (`RingBack`), and
that is the window of `RefillWindow` (`WindowEntries`). `RecentStep`: a refill puts one mapping in front and
moves every other back by one. `OthersKept`: the slot that it overwrites held the oldest mapping, so
the matches of any other page are what they were. `LastSlot`, that the highest match exists, is from
the well-foundedness of the naturals, as in `Emulator_proof`. Theorems: `TlbInvariance`, `TlbTypeCorrect`,
`TlbRefinement` (`AnswersFromWindow`).

`Emulator_proof` holds for any sizes of code, RAM, pages and vectors, any words and CSR writes
(`EmulatorAssumption`), so also for 512 words per page and 32 per vector register. `TypeOK` is
inductive by itself; lemma `Shape` sorts the instructions by what they come to (`Quiet`, `Trapping`,
`Storing`, `VLoading`, `VStoring`, `VectorOp`, `Writing`, `Returning`), and the properties follow case
by case. That a vector store types correctly when two of its elements land on one word needs a
last element of a nonempty set (`LastIn`, from the well-foundedness of the naturals).
`UserCorrect` uses `ConfinedStep`: a table page that changed would have been mapped as writeable.
Theorems: `TypeCorrect`, `EffectCorrect`, `ConfinedCorrect`, `UserCorrect`, `LevelsCorrect` (the
refinement of `TrapMachine`).

`Assembler_proof` begins with words: `DecodeEncode` holds for every variant, all registers and all immediates that have
room (`Fits`): the decoder finds in the encoded word the opcode, the function code, each register and
the signed immediate. The layouts are sums of multiples of powers of two, so the proof is about
quotients and remainders (`Digits`, `Shifts`), masks and signs (`Extend`), the four layouts
(`FieldsR`, `FieldsI`, `FieldsJ`, `FieldsC`) and the variants of each (`RegCodes`, `ImmCodes`).

`ClockDomains_proof` holds for every number of cores, addresses, values, latency, set of PMU words and
divider settings, and for L1s that power up with anything in their lines. One hypothesis is stated in
the theorems: `CleanPowerUp`, that no L1 powers up in the state `WRITE` (the arrays and the state are
undefined then, see above; an L1 that does puts a store on the bus that no instruction made). The inductive invariant
`CInv` has, beside the types: an L1 in `WRITE` has a store in its MEM stage, and one in `FETCH` has none
(`L1Waits`); a core that no CSR word and no divider ever slows down keeps its clock (`FullStaysFull`);
L2, L3 and memory agree on what is under way (`LevelsAgree`); and the granted core still asks
for it, unless the answer is there and the core's clock may have risen since (`WriteWaits`, and for the
cores of `TrustedStores` `FetchWaits`). What holds at
full speed, that the controllers wait for the *granted* core, does not hold here: a slow core can leave
L2 in the middle of a transaction it no longer takes part in. The invariant says what remains.
Theorems: `ClockInvariance`, `ClockTypeCorrect`, `FromStores` (`MemoryFromStores`: memory holds what it
held or what some core stores, whatever the clocks do), `TrustedStores` (`TrustedDurable`: without L3
every core, and with L3 every core that always runs at full speed, is told of a store only when memory
has it, whatever clocks the other cores have) and its consequence `StoresLast` (`StoreDurable` when all
cores are such; the hypothesis is needed, see *Disagreements*).

`Assembler_proof` holds for all files (`FilesAssumption`), so for any number of lines, labels and
operands. `AInv` relates the position in a pass to what has been done: the symbol table holds for each
label the address of its last definition so far (`LabelsUpTo`), the current address is four times the
number of lines of code before this line (`LineAddress`), no line before it had an error
(`ParsedUpTo`), and so many words have been written. None of it follows from the types, and each pass
needs the part of the other: a branch in pass two is right because pass one counted in the same way.
That `LineAddress` goes up by four per line of code is a fact about cardinalities
(`FS_AddElement`). The words are read back by `DecodeEncode` and its lemmas, after a case
per operand format of `ParseLine`. For `ListingReassembles` each form of line that the disassembler
prints is parsed again (`Printed`). Theorems: `AsmInvariance`, `AsmTypeCorrect`, `WholeFiles`
(`NothingHalfWritten`), `LinesSurvive` (`InstructionsSurvive`), `LabelsReached` (`BranchesReach`),
`ListingsReassemble` (`ListingReassembles`).

`Peripherals_proof` holds for any number of cores, any programs that access nothing but peripherals
(`ProgramsAssumption`; the memory slave is idle in this model), any width of `mtime`, any clocks per
bit at either end of the serial line. `PInv` says that a core's L1 waits for what the core asks for
(`CoresInv`) and that whatever the addressed slave shows a core that also asked in the last cycle is the
answer to *this* access: the data is one that the register had while the core was waiting, and `ready`
for a store means that the store was done (`AnswersInv`). It relates `Port`, `seen` and `landed` through
`asked`, which is what the bus, having no tags, leaves to timing. Interrupts need that only one core is
granted (`OneGrant`), that the address ranges pick the right register (`RegisterOwner`), and the case
analysis of a CLINT cycle (`ClintStep`). Theorems: `PortInvariance`, `CurrentLoads` (`LoadsCurrent`),
`LandedStores` (`StoresLand`), `InterruptsOwned` (`OwnInterrupts`).

`Serial_proof` goes on from there, with the same assumptions and these: the other ends send bytes
(`SentAssumption`); powers of two up to that of the width of a byte are what they are (the last conjuncts of
`UartAssumption` and `SpiAssumption`: the provers know no powers with a variable exponent, TLC evaluates the
facts); the clocks at the two ends of the line are close enough that the middle of every bit of one falls
into the same bit of the other (`PacesAssumption`: a faster sender may be over with its stop bit; for 8 data
bits and 868 clocks per bit that is a drift of about one clock in twenty); and a program that receives has
its UART accesses on one core (`DriverAssumption`: a second reader could be handed the first one's byte,
see `LeftOver`). Three inductive invariants:

* `SpiInv`: which half of which bit the master is in, where the chip is then, and that each has of the
  other's byte the bits from the top down to that one (`Exchanging`). A bit more is `NextDigit`, a bit
  replaced in a register that still holds an older byte `SetDigit`. Theorem `WholeTransfers`
  (`WholeExchange`).
* `TxInv`: the transmitter is in cycle `FrameTime` of a frame and the line, being a register, shows the cycle
  before (`TxFrame`, preserved by `FrameStep`); the listener is in the same cycle by its own count and has
  as many low bits as it has passed middles (`EarInv`, `Known`, `Listened`); a listener that is idle does
  not take data for a start bit, as it is done only in the stop bit. What is `due` is exactly the byte in
  the frame until it has been heard, and a store that was taken but not acknowledged is still on the bus
  with the transmitter in its first cycle, so that it is not taken again (`DueInv`). Theorems
  `TxInvariance`, `BytesInOrder` (`HeardInOrder`).
* `RxInv`. `FrameAligned`: while the receiver is busy with a frame, its count of cycles (`RxTime`) is ahead of
  the sender's by no more than noise can have put it there (`Early`), and its shift register has the low
  bits of the byte; when it is idle again the frame on the line is in its stop bit. `InTheBit` turns this
  into the bit that is sampled. `ByteInv`: a byte that was sent and not read is in flight (`InFlight`), or in
  `rx_data_reg` and either valid or being read. `DriverInv`: a load of `RX_DATA` is on its way only when the
  driver was told of a byte, it misses in the L1, and a `ready` it finds is its own, since nobody else uses
  the UART; so the read that clears `rx_valid` is the one that is answered, though it lasts two cycles.
  Theorems `RxInvariance`, `BytesWait` (`ByteWaits`), `BytesReadOnce` (`ByteReadOnce`).

The type invariant (`PeripheralTypes`) closes the list, because it is no simple one: that an end of the line
counts no further than a frame, and that no more than one byte is due, follow only from the invariants above.
What they leave open is `WordsInv`: the words in L1 lines and in `read_data`. For it, `Vals` must have all
words that a register can show (`ValsAssumption`) and that a program stores, and a store to the GPIO is a
bit, as one pin stands for all (`ProgramsAssumption`).

Only model-checked:

* Liveness (`AccessCompletes`, `FullSpeedCompletes`, `ThreadsRun`, `BytesAreSent`, `ProgramMeaning`), which
  under fairness is outside what TLAPS proves here.
* `ParsesBack` and `CallsReturn`: the modules of `Toolchain` contain or reach recursive operators.

The types of `ClockDomains`, `Emulator`, `Assembler` and `Tlb` are proved, for all values of the constants, and
no run repeats them.

## 5. Plan

Done: memory system, clocks, core with traps, MMU, emulator, peripherals, tool chain, and the proofs
above. What would come next, in order of what matters most:

1. `Tlb` and `SmtCore` in one model: faults that come from the page tables of a program, with a handler that
   refills, and the question whether every access gets through in the end.
2. Memory and peripherals on one bus, and the peripherals under divided core clocks.
3. An abstract trap unit like `TrapMachine` for the core, once the disagreements about traps are settled:
   until then most of what it would promise is violated.

### Not modelled

* Page offsets and the unused high bits of virtual addresses (`mmu.v:43-44`); which instructions MEM
  translates (all of them, `aurora_x_core.v:848`) matters only to a program, see the plan.
* Arithmetic of the hardware (ALU, FPU, vector unit, the digits of multiplier and divider), register
  files and forwarding: data that the properties do not tell apart.
* Control signals and immediates of `decoder.v`, beyond the kinds of instructions in `SmtCore`.
* Text: the lexer of the compiler, the splitting of lines by the assembler (one known oddity: `VLOAD` and
  `VSTORE` join all words behind the first operand, so `VLOAD V1, R1, 2` is taken for `[R12]` and
  `VSTORE V1, R2, -8` for `[R2-8]`, where the model's `VLoad` and `VStore` reject the line), hexadecimal jumps above
  0x7fffffff and `.word` of 2^31 and more; the layout of listings and messages.
* `ax_bus.v`, `aurora_x_core_single.v`: not instantiated. Test programs, demos, LLVM description.
* Memory and peripherals on the bus at once, and peripherals under divided core clocks.
