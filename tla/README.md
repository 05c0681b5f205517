# A verification project for LLM4COTS

LLM4COTS finds rarely toggling nets of a processor core, names the architectural
event behind each of them, and lets a language model write C programs until a
simulation shows the net toggling. The repository holds the script that drives
this (a LangGraph workflow around an assistant service), the script that measures
rare nets in waveform dumps, the programs that came out, and the Verilog of the
core under test, the mor1kx "cappuccino" pipeline (OpenRISC 1000).

This directory models the parts of it whose behaviour over time is hard to test,
checks them with TLC on small instances, and proves the central invariants with
TLAPS for every value of the constants. `PROJECT.json` maps every definition to
the source lines it stands for and lists runs, mutants, hazards and theorems.

## Inventory

### Software

| Component | Source | State | Operations | Status |
|---|---|---|---|---|
| Agent workflow | `agent_sharlock_v0.4_may20.py` | `AgentState`: verdict, error text, retry counter, programs, feedback, thread id; trace files on disk | the graph's nodes and routers, compile / simulate / export / measure, the outer loop over events | partly: `AgentWorkflow` (all that can be reached) |
| Assistant threads and runs | `openAI_assistant_may20.py` | `threads_db` shelf, threads and runs at the service | create, store, retrieve, post, run, poll, read, delete | partly: `AgentWorkflow` (all that is called) |
| Generated programs | `architectural_events/` | the words a program touches | loads, stores and exceptions, in the order of main | partly: `EventPrograms`, `ProgramMachine` (all of `lsu_events`) |
| Rare net statistics | `rare_event_generator.py` | none (files in, CSV out) | dense series, bit probabilities, toggles, selection | not modelled |
| Notebook, event lists | `framework_initial_may20.ipynb`, `event_detail_files/` | data | - | not modelled |

The workflow calls the assistant service over the network, `or1k-elf-gcc`,
`fusesoc` and VCD tools as subprocesses, and shares with its own earlier runs two
things that survive a crash: the shelf of thread ids and the trace files. What is
hard: every call can raise and nothing catches it; the script may die between any
two calls; ids are drawn at random against a shelf that is never cleaned; trace
files of an earlier program lie where the next one is expected; and the thread is
deleted in two places under two separate limits. It is correct when the answer it
records follows the trace it measured and that trace is the program's own, when the
retry loop ends, and when every conversation it opens is closed exactly once.

### Hardware

| Component | Source (`mor1kx_verilogs/`) | State | Status |
|---|---|---|---|
| Store buffer and its RAM | `mor1kx_store_buffer.v`, `mor1kx_simple_dpram_sclk.v` | two pointers, RAM, read port with bypass | modelled: `StoreBuffer` |
| Load store unit | `mor1kx_lsu_cappuccino.v` | bus machine, status flags, link of l.lwa/l.swa, pending write | partly: `LoadStore` (no MMU) |
| Data cache | `mor1kx_dcache.v` | state machine, pending write, refill bits, tag and way memories, snoop registers | modelled: `DataCache` |
| Replacement history | `mor1kx_cache_lru.v` | one bit per pair of ways, kept in the tag memory | modelled: `CacheLru` |
| Instruction cache | `mor1kx_icache.v` | state machine, refill bits, tag and way memories | partly: `InstructionCache` (one way), `CacheLru` (the history of several) |
| Fetch stage | `mor1kx_fetch_cappuccino.v` | PC, flush, misprediction, bus machine | partly: `Core` |
| Decode, branch prediction, execute and control registers | `mor1kx_decode*.v`, `mor1kx_branch_*.v`, `mor1kx_execute_ctrl_cappuccino.v` | pipeline registers | partly: `Core`, `LoadStore` |
| Control unit | `mor1kx_ctrl_cappuccino.v` | advance, exceptions, EPCR, ESR, SR, SPR writes, delay slots | partly: `Core`, `LoadStore` |
| Tick timer | `mor1kx_ticktimer.v` | TTMR, TTCR | modelled: `TickTimer` |
| Interrupt controller | `mor1kx_pic.v` | PICMR, PICSR, line history | modelled: `Pic` |
| MMUs | `mor1kx_dmmu.v`, `mor1kx_immu.v` | TLBs, reload machine | not modelled |
| ALU, register file, top level, constants | `mor1kx_execute_alu.v`, `mor1kx_rf_cappuccino.v`, `mor1kx_cpu_cappuccino.v`, ... | data path, wiring | not modelled |

The units run in lockstep on one clock and talk by wires: the fetch stage hands
instructions down the pipeline, the control stage offers an access, the load store
unit stalls it until the cache or the bus has done it or the store buffer has
accepted it, the bus answers in its own time, and the control unit may flush the
stages in any cycle. What is hard: an event that matters in exactly one cycle meets
another in the same cycle (a flush and a buffer write, an acknowledge and a new
entry, a snoop and the setting of a link, an interrupt and a branch); values are read
cycles after they were sampled (the PC of a failed store, the link of a buffered
l.swa, the hit of a line that is being refilled, the delay slot of a flushed branch);
and an error ends a burst with stores still behind it. The core is correct when the
program sees one instruction after the other and one sequential memory, stores reach
the bus in order and once, an l.swa writes only through an unbroken link, every
interrupt is taken once, and no access stalls for ever.

## Modules

| Module | Stands for |
|---|---|
| `AgentWorkflow` | the workflow with the service, the shelf and the trace files |
| `RepairLoop` | what the workflow promises: bounded attempts in one conversation, closed once |
| `StoreBuffer` | the buffer, one step per clock cycle |
| `Fifo` | what the buffer promises |
| `DataCache` | the data cache with its memories |
| `LoadStore` (extends `StoreBuffer`, `DataCache`) | the load store unit with buffer, cache, control stage, exception sequence, bus and memory |
| `SequentialMemory` | what the unit promises to the program |
| `EventPrograms` | the generated programs of `lsu_events`, as the accesses they make |
| `ProgramMachine` (extends `LoadStore`) | one of these programs on the unit |
| `CacheLru` | the replacement history of one set and the accesses the cache makes |
| `TickTimer`, `Pic`, `InstructionCache` | the three units, as the next values of their registers |
| `Core` (extends these three) | the pipeline and the control unit |
| `SequentialCore` | what the pipeline promises to the program: one instruction after the other |
| `*_proofs` | theorems and proofs about the module they extend |
| `MC*` | values for TLC that a configuration file cannot write |

### AgentWorkflow

`pc` names the node or service call about to run; one action is one node, or one
call that can fail on its own inside a node (`program_generator` is six actions,
`event_triggered` thirteen: one per handler of its `try` blocks). A program is
named by script start, question and attempt; a trace by its program and by how it
compares, for the net of each question, with the reference trace: more toggles,
equal toggles over more cycles, equal, or fewer. `stage_vcd` and `stage_txt` are the
exported files that the next program finds. Every question is a `graph.invoke` under
a thread id of its own, so it starts with an empty `AgentState` (`FreshState`); what one
question leaves to the next is the shelf and the files. `Crash` is an uncaught exception at any
call; `Restart` starts the script again with only shelf, service and files left.
`RunEnds` is the service. Left out: the retrieval nodes no router reaches, prompts,
documents and program text. `DeleteCounter` is the literal 3 of `generate_response`
and `LlmIteration` is the workflow's limit, which happens to be 3 too;
`LimitsAssumption` says that they agree, as they do in the code.

### StoreBuffer

Pointers with a lap bit, the RAM and its bypassed read port, as registers. The
buffer has no guards of its own: `Contract` is what the unit must keep, and
`KeepsContract` in `LoadStore` checks that it does. The RAM is not reset, so its
first contents are arbitrary. `accepted` is a history variable, the entry written
last; without it nothing would tie what comes out to what went in.

### LoadStore and DataCache

One step is one clock edge: every `always` block is an operator that gives the next
value of its registers from the present ones and the inputs `i` of the cycle, and
`Edge` is their conjunction. Wires are operators of the same name. Inputs are bus
acknowledge or error, the address another master writes, whether the execute stage
has an instruction and which, a pending exception of another unit, and whether the
fetch stage takes an exception. A word of memory is named by the instruction that
wrote it, so the value also identifies the store, and its number is its PC.

`DataCache` is composed in the same way: its inputs are the record `d`, which
`LoadStore` fills as the instance in the source is wired (`Inputs`). The refill goes
word by word and wraps, the tag memory is written for hits, refills, snoops and
invalidations, and both memories have read ports that are a cycle late. Its LRU module
is commented out in this copy of the source (704-754); `lru_wired` says whether it is
there. Undriven, no way is chosen for a refill, and what a load reads after it is
`Undefined`; with one way the history is not used at all. SR[DCE] is a register that
`dce_on` and `dce_off` write, and `dc_enable_r` follows it.

Not in the model: the data MMU with the state TLB_RELOAD, byte lanes, l.rfe, the debug
unit and the EPCR rules of exceptions that do not come from the unit. Several foreign
exceptions are one input, `trap`. `log` holds what the properties remember. Its field
`unseen` names the cases in which the code itself gives the cache no chance, and
`ImplementsMemory`, `LinesCurrent` and `SwaIsAtomic` promise nothing after them: a store to
a held line while the cache is off, a write of another master to a word of a line that is
being refilled, a bus error of a store, and a bus error of a refill that drops the next
access without an exception. They are listed under the observations below.

### EventPrograms and ProgramMachine

Each of the 82 programs of `lsu_events` is the sequence of loads, stores and other
instructions of its `main`, with loops run `MaxPasses` times and arrays cut to the words
that share a set of the cache; what a compiler keeps in a register is no access.
`ProgramMachine` runs one program from its first instruction to its end or its first
exception. The start-up code (which invalidates and enables the cache) and the exception
handlers are external. `atomic_addr`, which the source does not reset, starts at 0
here, where no program has a variable.
`StopsAsListed` says for each program which exception ends it. Whether a program
provokes the event in its file's name is not modelled: the event lists bind each event to
a net, many of them nets of other units or of the data path, and the workflow
compares how often that net toggles with a reference trace, which is data.

### CacheLru

The flat vector is a function on pairs of ways, the one-hot vectors are sets. The
instruction cache invalidates a set to all zeros, and writes `update` back on a hit
and at the end of a refill; that the history it reads next is the one it wrote last
is assumed here. The example in the source's comment (lines 147-160) calls access
`4'b0010` "way 2" although bit 1 is way 1; the algorithm follows the bits, and so does
the model.

### Core

One step is one clock cycle, one operator per `always` block, as in `LoadStore`. A
program is fixed, so a pipeline register holds the address of its instruction instead of
its bits; the instructions are those that the control tells apart: computations, the
compare, branches to an immediate, loads, l.mtspr to the registers modelled, l.rfe,
l.sys, and illegal ones. Values of registers are not modelled, so a compare sets the flag to
either value, except that a use of a load's result must wait for it. `TickTimer` and
`Pic` are in lockstep with the pipeline; the device holds its line until the
handler reads it. `SequentialCore` is the abstract machine: it executes one
instruction, or takes one exception, between any two cycles, and the mapping is `pc`,
`npc`, `slot`, `branch`, `executed` and the registers of the control unit.
Supervisor mode, no MMU, no stores, no debug unit. Programs that jump to where
nothing is mapped run without the instruction cache; why, the observations say.

`ProgramsAssumption` is what the architecture asks of a program: no branch and no l.rfe in
a delay slot, and l.mtspr writes values the register can hold. The core has no guard
against an interrupt handler that gives way to the next interrupt too early; what it must
keep to is `HandlerOrder`, a condition on software. The run checks it of the handlers it
has, and `TakenOnce` below has it as a hypothesis.

## What is checked

Runs that pass:

| Run | Instance | Shows |
|---|---|---|
| `agent_safety` | 2 questions, 3 attempts, 2 ids, 3 threads, one crash and restart, runs that may fail | every conversation closed exactly once and leaked only by crashes (`ThreadReleased`, `DeleteNeverFails`, `LeaksOnlyByCrash`); the answer follows the last trace measured for the question's net, and is no only after every attempt (`AnswerFollowsTrace`); that trace is the latest program's if its export worked (`MeasuresOwnTrace`); no program with diagnostics or a timeout is told that it compiled (`ReasonThreeMeansRan`); one program per attempt |
| `agent_loop` | 2 questions, 3 attempts, fair | every question ends; the workflow implements `RepairLoop` |
| `ls_errors` | 1 slot, a cache of one line of 2 words, on or off, 3 loads and stores also misaligned, 1 bus error, 1 foreign exception, fair (104 234 states) | stores in order and once (`StoreOrder`), none skipped (`StoreNotSkipped`), none taken that is interrupted or not there (`AcceptsItsStore`), the buffer's contract (`KeepsContract`), valid lines hold what the program wrote (`LinesCurrent`), a load takes the bus's answer to its own request (`TakesOwnAnswer`), the program sees `SequentialMemory`, no access stalls for ever (`LsuCompletes`) |
| `ls_atomic` | 1 slot, the same cache with snooping, 3 of store, l.lwa, l.swa, l.msync, invalidation, cache on, cache off, 1 foreign write, 1 foreign exception (156 565 states) | an l.swa that writes follows no other write (`SwaIsAtomic`), one that leaves with its flag set was written, and to the linked address (`SuccessMeansWritten`), a snooped line is not read again (`LinesCurrent`, `ImplementsMemory`) |
| `programs` | 82 programs, each with and without the LRU module, 2 slots, 2 ways, 2 sets, lines of 8 words, every timing of the bus up to 3 cycles (40 102 states) | which exception ends each program (`StopsAsListed`); the program sees one memory (`ProgramMemory`), no line is in two ways (`LineInOneWay`), no stall outlasts the bus (`StallIsShort`), exact flags (`FlagsExact`), and the buffer implements `Fifo` |
| `lru_order` | 4 ways, 6 accesses and invalidations | the bits are the order of use (`OrderOfUse`), the victim is the oldest way (`VictimIsOldest`) |
| `interrupts` | 18 looping programs, 3 builds of the interrupt controller, 3 modes of the timer, instruction cache on and off, every timing of both buses up to 2 cycles (304 994 states) | the pipeline implements `SequentialCore` (`ImplementsCore`), every instruction goes through it with its own address (`OwnInstruction`), nothing takes effect between an exception or l.rfe and where it leads (`NothingBetween`), no interrupt is lost or taken twice (`InterruptOnce`) by handlers that keep to `HandlerOrder`, the pipeline never stands still longer than the buses explain (`PipelineRuns`) |

Why the bounds are enough. Two questions are the fewest of which one can see the
leftovers of another, three attempts the fewest with a first, a middle and a last.
One slot makes the buffer full after one store and both pointers wrap after two;
two slots, in `programs`, let a store on the bus, one fetched and one buffered exist
together, which is the longest chain the unit tells apart. Three accesses let a
store on the bus meet a buffered store and a load, or an l.lwa, a store between and an
l.swa meet. Two words in one line tell the same address from another and the first word
of a refill from the last; the programs use lines of 8 words, three lines per set
(`MaxTags`), one more than there are ways, and two passes of each loop (`MaxPasses`), a
miss and a hit. `MaxOps` in `programs` is beyond the longest program. In `Core`, `MaxWait` 2
lets either bus be faster or slower than the other; the timer's period of 16 cycles lets
a handler end before the next tick, and its phase shifts against the loop, so that it
strikes in every cycle of it.

Three accesses are a real limit of `ls_atomic`: `MsyncDrains` holds for all
programs of three instructions of its kinds and fails for one of six, which is why
`ls_msync` exists. On one word, `LinesCurrent` and `ImplementsMemory` were found
to hold for all programs of the six instructions of `ls_msync` too.

Every property has a mutant in `PROJECT.json`: a definition changed the way a
plausible mistake would, with which the run fails. Mutant definitions stand next to
the one they change, marked as such.

Fairness. In `AgentWorkflow` the interpreter keeps running the script and the
service ends its runs (`WF` on `Step` and `RunEnds`); crashes and restarts are not
owed. In `LoadStore` the clock runs while an access waits, the bus answers a request in
the end, and the fetch stage takes an exception in the end (`WF` on `Ticks`, `Answered`
and `Taken`); these are what the bus protocol and the fetch stage promise to the unit, and
neither instructions nor exceptions are owed. `EveryQuestionEnds` is checked for runs
that complete: the code polls until the status is `completed` and has no exit for another
final status, so with a failed run it polls for ever. `StallIsShort` and
`PipelineRuns` bound the wait instead, where the bus's wait is bounded: they are
invariants and need no fairness.

Runs that show a disagreement of the code with its own text:

| Run | What happens |
|---|---|
| `agent_reason_one` | `compilation_error` is never cleared: after one build failure, a program that built and ran is sent back as a build failure with no compiler output |
| `ls_link` | an l.swa that enters the control stage in the cycle in which an earlier store's `write_done` is high is acknowledged while it is still buffered; a later l.lwa sets the link again and the buffered l.swa, whose link was broken, writes |
| `ls_msync` | l.msync leaves with a store still in the buffer. A load that begins its read of the bus in the cycle in which `dc_enable_r` rises hits the cache in the next one; the store after it waits in the buffer while the bus machine is in READ, and l.msync waits only in WRITE. By the same race, if the cache is switched off again before that read is answered, the next load takes its answer, though it is of another address |
| `ls_error_pc` | the PC saved for a failed buffered store is that of the store fetched after it |
| `core_delay_slot` | after an interrupt of a branch the first instruction of the handler is taken for one in a delay slot: if it fails, EPCR is the address before the vector |

Other observations, not runs:

- Workflow: the branch for a timeout in `add_compiled_log` stands behind a test that
  a timeout already passed, so reason code 2 is never sent and a timeout is told as a
  build failure. A build that fails with nothing on stderr is told "Program compiled
  successfully!", because the text is all that is tested (1036). The thread is deleted after
  the fourth run although the comment says three. The handler of a failed export sets
  the verdict to "no" (876) and does not return: the trace of an earlier program is
  measured, and its verdict can be recorded for this one (974).
- Store buffer and bus errors: `write_done` is raised by a bus error also when the
  buffer is not empty, against its comment. After a bus error of a store the
  entry already fetched never reaches the bus, and an l.msync that waits for
  it leaves with a store still in the buffer. A flush in the cycle of a write error clears the
  error unseen. An l.swa to another address than the linked one writes and reports failure;
  one behind another store can be acknowledged by that store's `write_done`, and then leaves
  with no report, or with a failure while its own store is still in the buffer.
  `SuccessMeansWritten` is the direction that holds, in a run without bus errors: an error
  raises `write_done` too, and the flag of an l.swa that failed on the bus is set.
- Data cache: without snooping the tag memory has no bypass (760), so the tag read in the
  cycle that invalidates a set is the old one. A store that enters the control stage in
  that cycle hits it and writes it back (600-617): the line is valid again. The store behind
  it finds the cleared tag and misses, and the next load of its word returns the older
  one, although "a data cache write operation will update cached way data" (19). In `ls_errors`
  nothing is invalidated, and `ls_atomic` has snooping, which brings the bypass. A bus error
  in a refill whose load has already gone on with its word can be lost: if a bubble is in
  the control stage, it clears `except_dbus` as it advances (lsu 271), hides the exception
  (ctrl 355-356) and lets the next load or store in, which `ctrl_except_dbus` removes
  (execute_ctrl 327). The store behind a store removed this way is forgotten by the
  cache (429-432), and its line keeps the old word. It takes four instructions to see it;
  with the three of `ls_errors` nothing is behind the removed one. TLC found it when the
  proof asked what bus errors may do. A write of another master to a line that is being refilled is not
  seen, and the line keeps the old word. A store made while the cache is off does not
  update a line it holds, which is read again when it is switched on. With two ways and
  the LRU module commented out, a load that was refilled returns an undefined word.
- Core: a bus error in the instruction cache's refill restarts the burst, which
  can fail again at the handler; a write by l.mtspr is repeated in every cycle the
  control stage stalls, so that an edge which arrives meanwhile is cleared unseen; a write of TTMR in the
  cycle of the match drops the tick; `~doing_rfe` in the interrupt's condition
  changes nothing. A conditional branch directly behind an l.mtspr that changes the flag
  in SR is compared with the old flag and can follow it: `ctrl_flag_o` looks ahead only at the result
  of a comparison (ctrl 477-481), and the register is written as the branch leaves. An
  interrupt leaves the result of a comparison it flushed in `ctrl_flag_set_o` and
  `ctrl_flag_clear_o`, which only an advancing stage rewrites (execute_ctrl, around 220): if the
  handler begins with a conditional branch, this result can decide where the fetch
  goes on. Neither happens in the programs of `interrupts`; TLC found both with others, when
  the proof of `ImplementsCore` asked which programs it holds for.

## What is proved

TLAPS checks every theorem for all values of the constants, under the named
assumptions of the modules: `LimitsAssumption` and `NoneAssumption` (workflow),
`DepthAssumption` and `EntryAssumption` (buffer), `WaysAssumption` and
`MaxAccessesAssumption` (history), `BoundsAssumption`, `ConfigAssumption`,
`OpsAssumption` (unit), `LinesAssumption` (whole lines of memory), `SizesAssumption`
(sets and words per line of the instruction cache), `ProgramsAssumption` and
`VectorAssumption` (programs of the core and addresses of the handlers).

`AgentWorkflow_proofs`. The properties are not inductive: that a thread is deleted
once depends on where in the workflow the retry counter stands. `IInv` adds, per
program counter, the relation of programs to attempts (`CountsInv`), the state of the
question's thread (`ThreadInv`: open until the verdict or the last run), which fields
of the entry are set and that the verdict is that of the text trace (`VerdictInv`) and whose trace each file holds (`TraceInv`). Each
conjunct has its own step lemma with one step per action. From `Invariance` follow
`TypeCorrect`, `ThreadsReleased`, `NoDoubleDelete`, `ProgramsCounted`,
`AnswerCorrect`, `TraceCorrect` and `ReasonThreeCorrect`; `Refinement` maps every
step to a step or stutter of `RepairLoop`. `LeaksBounded` counts: `LeakInv` says that
there are never more live threads than lives of the script, and fewer where no
program is being made; creating a thread is the only step that adds one and happens
only from such a place, so each crash accounts for at most one.

`StoreBuffer_proofs`. `IInv` says that the pointers are at most one lap apart. The
lemmas say how the count of entries and the slots of the entries move when a pointer
wraps, and how the sequence of contents changes in a cycle; `NoOverrun`, `ExactFlags`
and `Refinement` (the buffer implements `Fifo`) follow for every depth.

`CacheLru_proofs`. `IInv` says that every bit agrees with the stamps of last use and
that no stamp lies in the future. `OlderAfter` is the algebra of the matrix
after one access; `HistoryIsOrderOfUse` and `VictimCorrect` follow for any number of
ways and accesses.

`LoadStore_proofs`. For every depth of the buffer, every geometry of the cache, and
programs, errors, exceptions and other masters of any number. `LsInv` adds to `TypeOK`
that the pointers are in a lap, how many foreign writes there were, and that without a
cache nothing is refilled; from it follow `LoadStoreTyped`, `ContractKept` and, with
the theorems of the buffer, `BufferIsFifo`. `StageInv` says
how exceptions empty the control stage, `PendingInv` who waits for room in the
buffer, `AcceptInv` what has been accepted; they give `StoresNotSkipped` and
`StoresAccepted`. `OrderInv` relates `last_write`, `dbus_req` and the buffer's flags to the
list of stores that are on their way (`Bound`, `Behind`, `OnItsWay`, `IsFetched`) and
gives `StoresOrdered`. The last three are for programs without l.swa: an l.swa can
leave the control stage on an earlier store's `write_done` (381-386) before the
buffer has it, so that the chain from stage to buffer breaks; `ls_link` shows it.

`LoadMemory_proofs`. `AnswersAreOwn`: a load that takes an answer of the bus takes that
to a request for its own address. `AnswerInv` says why: while the machine is in READ, and
in the cycle of its answer, the load in the control stage is the one on the bus, and
nothing is under way that could take it out of the stage (`Reading`). For that, every
error must still be known to one register or another until its instruction is taken out
(`ErrorInv`), and an exception of another unit must find the stage stalled. `NoSwitch`
excludes programs that switch the cache: for them the property is false (see `ls_msync`),
and the three instructions of the runs are too few to show it.

`MemoryView_proofs`. `OneMemory`: buffer, bus and memory are one sequential memory. The
refinement maps the abstract memory to `View`, the memory behind the stores on
their way (`Pending`: on the bus, fetched, in the buffer), so the proof is about how that
list moves in a cycle. `PendingMoves` says it: the list gains the store that the buffer
accepts at its end, and loses its head when the bus has written it. `MachineInv` ties
the state of the bus machine to the list; its core is that outside of WRITE the buffer is
empty, so that a load that reads the bus finds nothing on its way. `PlainInv` says that
no store on its way is atomic. `ViewAppend` and `ViewWritten` are the two facts about
such memories that make both moves correct. `PromiseKept` gives the step of the abstract
memory from what a cached load returns.

The theorem holds without l.swa (for the reason above) and when loads go to the bus
(`LoadsOnBus`: the build has no cache or the program leaves it off). Other masters, bus
errors and exceptions are unlimited. Like the property it promises nothing after a bus
error of a store, which drops stores of the program without undoing them.

`CachedMemory_proofs`. `LinesAreCurrent` and `OneCachedMemory`: the same for loads the
cache answers, for every number of sets, length of a line, depth of the buffer and set of
addresses, with exceptions of other units and misaligned accesses in any cycle.
`CacheInv` has six parts, each with its step lemma, over lemmas about what a cycle does to
tags, words, state and view (`TagMoves`, `WordMoves`, `OnStates`, `ViewMoves`):

- `LineInv`: a word in a valid line is the word of `View`, unless an aligned store to it has
  been in the control stage for a cycle. The exception is needed because cache and buffer
  take a store in different cycles, in either order.
- `StoredInv`: when the cache owes nothing to the store in the stage, its line has the new
  word; when the store is done, the view has it. So the two agree when it leaves.
- `BusyInv`: in which states of the cache a store can be in the stage, and that one which
  came during a refill is remembered (`write_pending`) and cannot be done before the cache
  has taken it, because `dc_refill_r` keeps it out of the buffer for one more cycle.
- `PortInv`: a hit counts only when the read port of the tag memory, a cycle late, shows the
  set of the access in the stage.
- `BurstInv`: the words a refill has brought are consecutive in the wrapping order
  (`Between`), so that the refill ends exactly when the line is complete; until the first
  of them is counted, the load that missed waits in the stage.
- `RefillInv`: the set is invalid from the first word on, and each word that has come is the
  word of memory, behind which no store waits.

`QuietInv` says that without errors only a misaligned access is taken out of the stage
after its first cycle, and `OffInv` that a cache that is off stays empty. The hypotheses
are `OneWay` (with more ways the undriven `current_lru` chooses none, see above) and `Quiet`.
`Quiet` has no l.swa; no switching of the cache, no other masters and no bus errors, each of
which can lead to a case in which the code breaks the promise (`unseen`); and invalidation only
with snooping, because of the missing bypass (760). The runs have more ways, bus errors,
switching and another master.

`Core_proofs`. For every program of `ProgramsAssumption`, with and without the instruction
cache, whatever its number of sets and length of a line, and every timing of both buses. The
invariants below rest on each other and each part has a step lemma of its own, over lemmas about the wires
(`LoadWires`, `ExceptionWires`, `ErrorWires`).

- `Typed` adds to `CoreTypeOK` that every word that reaches the pipeline is one of the program
  or no instruction; `CoreTyped` follows.
- `Control` says how exceptions, l.rfe and loads exclude one another. One set of registers
  serves all three: `decode_execute_halt` is up only while one of the first two is under way, and
  never both are (`HaltInv`); an l.rfe comes to the control stage as a bubble and stays for one
  cycle (`RfeInv`, `BubbleInv`); a load that waits is in the control stage with nothing pending
  (`LoadInv`); and the execute stage does not catch up with a load that has no answer
  (`WaitInv`). `BusErrorInv` and `RfeErrorInv` are the hard ones: an error of a load is marked
  a cycle late, and an l.rfe behind it must not go on in that cycle. The step of each needs
  others. With `RedirectInv`, that the fetch stage went to the handler or back, they give
  `NothingComesBetween`.
- `OwedInv`: while an interrupt is owed its line is up and, in the build EDGE, its edge still to
  come or kept; while a line or status is left of one that was taken, interrupts are disabled.
  `TakenOnce` follows for handlers that keep to `HandlerOrder`. Without it the property is
  false: a handler that enables interrupts with the line still up is interrupted again.
- `Own` is for `OwnInstructions`. The word that decode takes is stored with the program counter
  of that cycle, though it was asked for cycles ago. Without the cache, `Uncached` says why they
  agree: a read under way is of `pc_fetch` or is dropped (`ReadInv`), because the fetch stage
  goes on while one is under way only to the target of a mispredicted branch that is already on
  the bus (`MispredictInv`); that rests on when the bus is used at all (`BusInv`,
  `FetchedInv`), on how a branch and its delay slot follow each other (`SlotInv`, the place of
  `SlotsAreFree`), and on an empty execute stage at a redirection (`DrainInv`). With the cache,
  `Cached` says that the outputs, a cycle late, are those of `pc_fetch` (`OutputsInv`), that a
  line with a valid tag is all there (`LinesInv`), and which words a refill has brought, in the
  order in which the burst wraps (`RefillInv`, `Between`, `BurstInv`).

Only model-checked:

- Liveness (`EveryQuestionEnds`, `LsuCompletes`), which is beyond the prover.
- `LinesCurrent`, and `ImplementsMemory` for loads that the cache answers, with several
  ways, bus errors, other masters or switching: the invariant would also have to follow an
  error from the bus to the exception, and a snooped address through the second port.
- `SwaIsAtomic` and `SuccessMeansWritten`: with an l.swa the chain from control stage to buffer
  breaks, and that is what the other invariants rest on.
- `StopsAsListed`, `LineInOneWay` and `StallIsShort` of `ProgramMachine`, whose programs
  are data.
- `ImplementsCore` and `PipelineRuns` of `Core`. The first is false for some programs: one whose
  handler fails at its first instruction (see `core_delay_slot`), one that jumps to unreadable
  addresses with the cache on, one that writes the flag by l.mtspr directly before a conditional
  branch, or one whose handler begins with such a branch (see the observations). The second bounds a wait by the sum of those of
  both buses, and what it counts is liveness in disguise.

## Not modelled

- **MMUs and TLB_RELOAD.** No program, nor the start-up they are linked with, switches
  them on; a model of their composition would rest on our own programs. Two deadlocks that
  can be read off the code are named in the list of hazards.
- **ALU, register file, decoding tables, top level.** Data path and wiring, which a unit
  test reaches entirely; the pipeline control around them is in `Core`.
- **Debug unit, performance counters, FPU, l.jr, l.jalr, saturation counter and gshare
  predictors, several ways of the instruction cache in the pipeline, stores in `Core`.**
  Parts of modelled components that are left out; stores and their exceptions are
  in `LoadStore`.
- **Rare net statistics.** Functions of a file's text without state or concurrency.
- **Other directories of `architectural_events`, event lists, notebook.** The programs
  there stress units whose events are of the data path or are not modelled; the lists
  and the notebook are data and an earlier form of the script.
- **Retrieval path of the workflow, run-id helpers of the assistant script.** No router
  reaches the first, nothing calls the second.
