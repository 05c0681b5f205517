------------------------------ MODULE LoadStore -----------------------------
(***************************************************************************)
(* The load store unit, mor1kx_lsu_cappuccino.v, with its store buffer and *)
(* its data cache, the registers of the control stage that feed it         *)
(* (mor1kx_execute_ctrl_cappuccino.v), the exception sequencing that       *)
(* flushes it (mor1kx_ctrl_cappuccino.v), the data bus and the memory.     *)
(*                                                                         *)
(* Store buffer and atomics are built in, the data cache if DCACHE; there  *)
(* is no data MMU.  Every register is a variable of the register's name; a *)
(* step is a clock cycle; the record i holds the inputs of the cycle and   *)
(* the wires are operators on i.  A word is a model of its writer: the     *)
(* value stored is the number of the instruction that stores it, which is  *)
(* also its PC.                                                            *)
(***************************************************************************)
EXTENDS StoreBuffer, DataCache

CONSTANTS Adr,           \* word addresses, 0 among them
          DCACHE,        \* FEATURE_DATACACHE # "NONE"
          Enabled,       \* values of SR[DCE] to begin with
          Ops,           \* kinds of instruction the program uses
          Alignments,    \* {FALSE}, or also TRUE for misaligned accesses
          MaxOps,        \* bound: instructions
          MaxErrors,     \* bound: bus errors
          MaxTraps,      \* bound: exceptions that do not come from this unit
          MaxOthers      \* bound: writes of other bus masters

ASSUME BoundsAssumption == /\ MaxOps \in Nat /\ MaxErrors \in Nat
                           /\ MaxTraps \in Nat /\ MaxOthers \in Nat
ASSUME ConfigAssumption == /\ Adr \subseteq Nat /\ 0 \in Adr
                           /\ SNOOP \in BOOLEAN /\ DCACHE \in BOOLEAN
                           /\ Enabled \subseteq BOOLEAN /\ Alignments \subseteq BOOLEAN

\* "dce_on" and "dce_off" write SR[DCE], "invalidate" writes DCBIR or DCBFR for
\* the set of an address, "illegal" raises an exception of the decoder.
LsuKinds == {"load", "store", "lwa", "swa"}
Kinds    == LsuKinds \cup {"other", "msync", "dce_on", "dce_off",
                         "invalidate", "illegal"}

ASSUME OpsAssumption == Ops \subseteq Kinds

Id  == 0 .. MaxOps              \* instruction numbers, 0 before the first
Val == -MaxOthers .. MaxOps     \* words: a negative one is another master's

Store == [adr : Adr, id : Id, atomic : BOOLEAN]   \* Entry of the buffer

ASSUME EntryAssumption == Entry = Store
\* The memory consists of whole lines.
ASSUME LinesAssumption == DCACHE => \A a \in Adr : NextInLine(a) \in Adr

VARIABLES
  state, dbus_req, dbus_we, dbus_adr, dbus_dat, dbus_atomic,   \* bus machine
  last_write, write_done, dbus_ack, dbus_err,
  access_done, except_dbus, store_buffer_err, store_buffer_write_pending,
  atomic_reserve, atomic_addr, atomic_flag_set, atomic_flag_clear,
  dc_enable, dc_enable_r, dc_refill_r,   \* SR[DCE] and the unit's copies
  ctrl,                    \* the instruction in the control stage
  padv_ctrl, ctrl_except_dbus, ctrl_except_align, ctrl_stage_exceptions,
  exception_r, exception_taken, decode_execute_halt, spr_epcr,
  mem,                     \* the memory behind the bus
  traps, errors, others,   \* how often the bounded inputs came
  log                      \* what happened, for the properties

machine  == <<state, dbus_req, dbus_we, dbus_adr, dbus_dat, dbus_atomic,
              last_write, write_done, dbus_ack, dbus_err>>
status   == <<access_done, except_dbus, store_buffer_err,
              store_buffer_write_pending>>
atomics  == <<atomic_reserve, atomic_addr, atomic_flag_set, atomic_flag_clear>>
caching  == <<dc_enable, dc_enable_r, dc_refill_r, dc_vars>>
pipeline == <<ctrl, padv_ctrl, ctrl_except_dbus, ctrl_except_align,
              ctrl_stage_exceptions, exception_r, exception_taken,
              decode_execute_halt, spr_epcr>>
bus      == <<mem, traps, errors, others>>
vars     == <<sb_vars, machine, status, atomics, caching, pipeline, bus, log>>

\* The instruction in the control stage: its kind, its word address, whether
\* the address is misaligned, the address it writes to an SPR, its PC, and whether it is
\* only a bubble.
Instruction == [op : Kinds, adr : Adr, misaligned : BOOLEAN, spr : Adr,
                id : Id, bubble : BOOLEAN]

ctrl_op_lsu_load   == ctrl.op \in {"load", "lwa"}
ctrl_op_lsu_store  == ctrl.op \in {"store", "swa"}
ctrl_op_lsu_atomic == ctrl.op \in {"lwa", "swa"}
ctrl_op_lsu        == ctrl_op_lsu_load \/ ctrl_op_lsu_store
ctrl_op_msync      == ctrl.op = "msync"
-----------------------------------------------------------------------------
(***************************************************************************)
(* Wires.  The inputs of a cycle: ack and err of the bus, the address      *)
(* another master writes and the instruction the execute stage has ready   *)
(* (snoop and next, sets of at most one element), trap (an exception of    *)
(* another unit is pending) and taken (the fetch stage has taken the       *)
(* exception).  The record i has them all, and the wires most blocks read: *)
(* flush, write (store_buffer_write) and advance (padv_execute).           *)
(***************************************************************************)
\* Mutant: only stores must be aligned.
except_align_Stores == ctrl_op_lsu_store /\ ctrl.misaligned
except_align == ctrl_op_lsu /\ ctrl.misaligned

exception_pending(trap) == \/ ctrl_except_dbus \/ ctrl_except_align
                           \/ trap \/ ctrl.op = "illegal"

exception(trap) == /\ exception_pending(trap)
                   /\ (padv_ctrl /\ ~ctrl.bubble) \/ ctrl_stage_exceptions

exception_re(trap) == exception(trap) /\ ~exception_r /\ ~exception_taken

dbus_stall(flush) == except_align \/ except_dbus \/ flush

\* The cache has the bus, or invalidates what another master wrote.
dc_busy == refill \/ dc_refill_r \/ snoop_hit

\* Mutant: the store is not held back while an exception flushes it.
store_buffer_write_Flushed(flush) ==
    /\ (ctrl_op_lsu_store /\ padv_ctrl) \/ store_buffer_write_pending
    /\ ~full /\ ~dc_busy /\ ~except_align /\ ~except_dbus

store_buffer_write(flush) ==
    /\ (ctrl_op_lsu_store /\ padv_ctrl) \/ store_buffer_write_pending
    /\ ~full /\ ~dc_busy
    /\ ~dbus_stall(flush)

\* Mutant: the entry written while the last one is on the bus is not fetched.
store_buffer_read_NotLate(i) ==
    \/ state = "IDLE" /\ (i.write \/ ~empty)
    \/ /\ state = "WRITE" /\ ~last_write
       /\ i.ack \/ ~dbus_req
       /\ ~empty \/ i.write

\* Mutant: the next entry is fetched whether or not there is one.
store_buffer_read_Empty(i) ==
    \/ state = "IDLE" /\ (i.write \/ ~empty)
    \/ state = "WRITE" /\ ~last_write /\ (i.ack \/ ~dbus_req)
    \/ state = "WRITE" /\ last_write /\ i.write

store_buffer_read(i) ==
    \/ state = "IDLE" /\ (i.write \/ ~empty)
    \/ /\ state = "WRITE" /\ ~last_write
       /\ i.ack \/ ~dbus_req
       /\ ~empty \/ i.write
    \/ state = "WRITE" /\ last_write /\ i.write

dbus_we_o == dbus_we /\ (~dbus_atomic \/ atomic_reserve)

\* The unit does not snoop its own accesses.
\* Mutant: it does not snoop the address on its bus at all.
snoop_valid_NotOfBus(i, a) == SNOOP /\ a \in i.snoop /\ a # dbus_adr
snoop_valid(i, a) == SNOOP /\ a \in i.snoop /\ ~(a = dbus_adr /\ i.ack)

\* The lookup of the access in the control stage.
dc_access   == DCACHE /\ (ctrl_op_lsu_store \/ dc_enable_r)
dbus_access == \/ (~dc_access \/ ctrl_op_lsu_store) /\ state # "DC_REFILL"
               \/ state = "WRITE"

dc_req(flush)   == /\ ctrl_op_lsu /\ dc_access /\ ~access_done /\ ~dbus_stall(flush)
                   /\ ~(dbus_atomic /\ dbus_we /\ ~atomic_reserve)
Lookup(flush)   == [req |-> dc_req(flush), match |-> ctrl.adr, fadr |-> dbus_adr]

\* Stores are acknowledged by the buffer, atomic ones by its emptying, loads
\* by the bus or the cache.
\* Mutant: room in the buffer acknowledges a store, accepted or not.
lsu_ack_NotFull(flush) == IF ctrl_op_lsu_store \/ state = "WRITE"
                          THEN IF ctrl_op_lsu_atomic THEN write_done ELSE ~full
                          ELSE IF dbus_access THEN dbus_ack ELSE cpu_ack(Lookup(flush))
lsu_ack(flush) == IF ctrl_op_lsu_store \/ state = "WRITE"
                  THEN IF ctrl_op_lsu_atomic THEN write_done ELSE store_buffer_write(flush)
                  ELSE IF dbus_access THEN dbus_ack ELSE cpu_ack(Lookup(flush))

lsu_valid(flush) == (lsu_ack(flush) \/ access_done) /\ ~snoop_hit

msync_stall == ctrl_op_msync /\ state = "WRITE"

\* The address whose set is invalidated, while the write of the SPR lasts.
invalidate == IF DCACHE /\ ctrl.op = "invalidate" THEN {Index(ctrl.spr)} ELSE {}

ctrl_stall(flush) == \/ ctrl_op_lsu /\ ~lsu_valid(flush)
                     \/ msync_stall
                     \/ invalidate # {} /\ ~invalidate_ack

padv_execute(flush, next) == next # {} /\ ~ctrl_stall(flush) /\ ~decode_execute_halt /\ ~flush

\* The upcoming store, or the atomic one on the bus, and the upcoming address.
dc_we(i)  == \/ i.advance /\ \E n \in i.next : n.op = "store"
             \/ dbus_atomic /\ dbus_we_o /\ ~write_done
dc_adr(i) == IF i.advance /\ \E n \in i.next : n.op \in LsuKinds
             THEN (CHOOSE n \in i.next : TRUE).adr ELSE ctrl.adr

dc_refill_allowed(i) == /\ ~(ctrl_op_lsu_store \/ state = "WRITE")
                        /\ ~snoop_hit /\ ~\E a \in i.snoop : snoop_valid(i, a)

Inputs(i) == [req |-> dc_req(i.flush), match |-> ctrl.adr, fadr |-> dbus_adr,
              access |-> dc_access, enable |-> dc_enable_r,
              we |-> dc_we(i), adr |-> dc_adr(i), dat |-> ctrl.id,
              allowed |-> dc_refill_allowed(i), fill |-> i.ack,
              fdat |-> mem[dbus_adr], err |-> dbus_err,
              snoop |-> {a \in i.snoop : snoop_valid(i, a)},
              invalidate |-> invalidate]

\* Mutant: whether the link still stands is not asked.
swa_success_AnyLink == ctrl.op = "swa" /\ dbus_adr = atomic_addr
swa_success == /\ ctrl.op = "swa" /\ atomic_reserve
               /\ dbus_adr = atomic_addr
-----------------------------------------------------------------------------
(***************************************************************************)
(* The bus machine: one operator per state, each the whole branch of the   *)
(* case statement.  A read that is not acknowledged leaves dbus_dat        *)
(* undefined and unused; it is left as it was.                             *)
(***************************************************************************)
IdleDefaults == /\ dbus_we' = FALSE
                /\ dbus_atomic' = FALSE
                /\ last_write' = FALSE
                /\ write_done' = FALSE
                /\ dbus_ack' = FALSE
                /\ dbus_dat' = dbus_dat

\* Mutant: a load that is flushed in its first cycle goes to the bus all the same.
StartsAccess_Flushed(i) ==
    /\ ctrl_op_lsu /\ dbus_access /\ ~refill /\ ~dbus_ack
    /\ ~except_dbus /\ ~access_done /\ ~except_align
StartsAccess(i) ==
    /\ ctrl_op_lsu /\ dbus_access /\ ~refill /\ ~dbus_ack
    /\ ~except_dbus /\ ~access_done /\ ~i.flush /\ ~except_align

\* What IDLE does next; an earlier line of the chain shadows the later ones.
IdleNext(i) ==
    CASE i.err \/ dbus_err       -> "error"
      [] ~(i.err \/ dbus_err) /\ (i.write \/ ~empty) -> "write"
      [] OTHER -> IF refill_req(Inputs(i)) THEN "refill"
                  ELSE IF StartsAccess(i) THEN "access" ELSE "wait"

IDLE(i) ==
    LET next == IdleNext(i)
    IN  /\ state = "IDLE"
        /\ IdleDefaults
        /\ dbus_adr' = IF next \in {"refill", "access"} THEN ctrl.adr ELSE 0
        /\ dbus_req' = (next = "refill" \/ (next = "access" /\ ctrl_op_lsu_load))
        /\ state' = CASE next = "write" -> "WRITE"
                      [] next = "refill" -> "DC_REFILL"
                      [] OTHER -> IF dbus_req' THEN "READ" ELSE "IDLE"

\* A line is read word by word, beginning with the one that is waited for.
RefillDone    == refill_done([fadr |-> dbus_adr])
EndsRefill(i) == (i.ack /\ RefillDone) \/ i.err \/ snoop_hit

DC_REFILL(i) == /\ state = "DC_REFILL"
                /\ dbus_adr' = IF i.ack THEN NextInLine(dbus_adr) ELSE dbus_adr
                /\ dbus_req' = ~EndsRefill(i)
                /\ state' = IF EndsRefill(i) THEN "IDLE" ELSE "DC_REFILL"
                /\ dbus_ack' = FALSE /\ write_done' = FALSE
                /\ UNCHANGED <<dbus_we, dbus_dat, dbus_atomic, last_write>>

READ(i) == /\ state = "READ"
           /\ dbus_ack' = i.ack
           /\ dbus_dat' = IF i.ack THEN mem[dbus_adr] ELSE dbus_dat
           /\ dbus_req' = (dbus_req /\ ~(i.ack \/ i.err))
           /\ state' = IF i.ack \/ i.err THEN "IDLE" ELSE "READ"
           /\ write_done' = FALSE
           /\ UNCHANGED <<dbus_we, dbus_adr, dbus_atomic, last_write>>

\* The next entry goes to the bus when the bus is free for it.
LoadsEntry(i) == ~dbus_req \/ (i.ack /\ ~last_write)

\* Mutant: a store accepted while the last one is on the bus is overlooked.
LastWrite_Stale(i) == IF LoadsEntry(i) THEN empty ELSE last_write
LastWrite(i) == IF i.write THEN FALSE
                ELSE IF LoadsEntry(i) THEN empty ELSE last_write

Finishes(i) == (last_write /\ i.ack) \/ i.err

WRITE(i) == /\ state = "WRITE"
            /\ dbus_adr' = IF LoadsEntry(i) THEN fifo_dout.adr ELSE dbus_adr
            /\ dbus_dat' = IF LoadsEntry(i) THEN fifo_dout.id ELSE dbus_dat
            /\ dbus_atomic' = IF LoadsEntry(i) THEN fifo_dout.atomic ELSE dbus_atomic
            /\ last_write' = LastWrite(i)
            /\ dbus_req' = ~Finishes(i)
            /\ dbus_we' = ~Finishes(i)
            /\ write_done' = (Finishes(i) /\ ~i.write)
            /\ state' = IF write_done' THEN "IDLE" ELSE "WRITE"
            /\ dbus_ack' = FALSE

BusMachine(i) == (IDLE(i) \/ DC_REFILL(i) \/ READ(i) \/ WRITE(i)) /\ dbus_err' = i.err
-----------------------------------------------------------------------------
(***************************************************************************)
(* The other registers of the unit, one operator per always block.         *)
(***************************************************************************)
AccessDone(i) == access_done' = IF i.advance THEN FALSE
                                ELSE lsu_ack(i.flush) \/ access_done

ExceptDbus(i) == except_dbus' = IF i.err THEN TRUE
                                ELSE IF i.advance \/ i.flush THEN FALSE
                                ELSE except_dbus

StoreBufferErr(i) == store_buffer_err' = IF i.flush THEN FALSE
                                         ELSE store_buffer_err \/ (i.err /\ dbus_we_o)

\* Mutant: a store that finds the buffer full is forgotten.
WritePending_Never(i) == store_buffer_write_pending' = FALSE
WritePending(i) ==
    store_buffer_write_pending' =
        IF i.write \/ i.flush THEN FALSE
        ELSE \/ store_buffer_write_pending
             \/ (ctrl_op_lsu_store /\ padv_ctrl /\ ~dbus_stall(i.flush)
                /\ (full \/ dc_busy))

LinkSet == ctrl.op = "lwa" /\ padv_ctrl

\* Mutant: the unit's own stores do not break the link.
LinkBroken_NotByOwn(i) ==
    \/ ctrl.op = "swa" /\ write_done
    \/ snoop_valid(i, atomic_addr)
LinkBroken(i) ==
    \/ ctrl.op = "swa" /\ write_done
    \/ ~ctrl_op_lsu_atomic /\ i.write /\ ctrl.adr = atomic_addr
    \/ snoop_valid(i, atomic_addr)

Atomics(i) ==
    /\ atomic_reserve' = IF i.flush \/ LinkBroken(i) THEN FALSE
                         ELSE IF LinkSet THEN ~snoop_valid(i, ctrl.adr)
                         ELSE atomic_reserve
    /\ atomic_addr' = IF LinkSet THEN ctrl.adr ELSE atomic_addr
    /\ atomic_flag_set' = IF padv_ctrl THEN FALSE
                          ELSE IF write_done THEN swa_success /\ lsu_valid(i.flush)
                          ELSE atomic_flag_set
    /\ atomic_flag_clear' = IF padv_ctrl THEN FALSE
                            ELSE IF write_done
                            THEN ~swa_success /\ lsu_valid(i.flush) /\ ctrl.op = "swa"
                            ELSE atomic_flag_clear

\* The cache is switched on when the bus is free and off when no line is being
\* refilled.
Caching(i) ==
    /\ dc_enable' = IF padv_ctrl /\ ctrl.op \in {"dce_on", "dce_off"}
                    THEN ctrl.op = "dce_on" ELSE dc_enable
    /\ dc_enable_r' = IF dc_enable /\ ~dbus_req THEN TRUE
                      ELSE IF ~dc_enable /\ ~refill THEN FALSE ELSE dc_enable_r
    /\ dc_refill_r' = refill
    /\ IF DCACHE THEN DcCycle(Inputs(i)) ELSE UNCHANGED dc_vars

Buffer(i) == Cycle(i.write, store_buffer_read(i),
                   [adr |-> ctrl.adr, id |-> ctrl.id, atomic |-> ctrl_op_lsu_atomic])
-----------------------------------------------------------------------------
(***************************************************************************)
(* The control stage.  A load or store leaves it early when an exception   *)
(* of the unit is registered; otherwise the stage takes the next           *)
(* instruction or is flushed.                                              *)
(***************************************************************************)
ControlStage(i) ==
    LET advance == i.advance
        next    == IF advance THEN CHOOSE n \in i.next : TRUE ELSE ctrl
        failed  == ctrl_except_align \/ ctrl_except_dbus
        arrives == IF i.flush /\ ~advance THEN "other" ELSE next.op
        lsu(op) == op \in LsuKinds
    IN  ctrl' = [next EXCEPT
                   !.op = IF failed /\ lsu(arrives) THEN "other" ELSE arrives,
                   !.adr = IF lsu(next.op) THEN @ ELSE ctrl.adr,
                   !.misaligned = IF lsu(next.op) THEN @ ELSE ctrl.misaligned]

PadvCtrl(i) == padv_ctrl' = i.advance

CtrlExceptions(i) ==
    /\ ctrl_except_dbus' = (~i.flush /\ (except_dbus \/ store_buffer_err))
    /\ ctrl_except_align' = (~i.flush /\ except_align)

CtrlStageExceptions ==
    ctrl_stage_exceptions' = (ctrl_except_align \/ ctrl_except_dbus)

\* An exception is raised, taken by the fetch stage, and over.
ExceptionSequence(i) ==
    /\ exception_r' = IF exception_taken THEN FALSE ELSE exception_r \/ exception(i.trap)
    /\ exception_taken' = (~exception_taken /\ exception_r /\ i.taken)
    /\ decode_execute_halt' = IF decode_execute_halt THEN ~i.taken
                              ELSE exception(i.trap) /\ ~exception_taken

ExceptionPc(i) ==
    spr_epcr' = IF i.flush
                THEN IF store_buffer_err THEN fifo_dout.id ELSE ctrl.id
                ELSE spr_epcr
-----------------------------------------------------------------------------
(***************************************************************************)
(* The memory behind the bus, and the inputs.  The bus answers a request   *)
(* with one ack or err; another master writes only in a cycle that does    *)
(* not answer this one.  What the unit itself writes it sees on its snoop  *)
(* port too.  A write of SR[DCE] changes it; a line is invalidated by the   *)
(* address of its first word.                                              *)
(***************************************************************************)
Bubble == [op |-> "other", adr |-> 0, misaligned |-> FALSE,
           spr |-> 0, id |-> ctrl.id, bubble |-> TRUE]
Following(o, a, m, x) == [op |-> o, adr |-> a, misaligned |-> m,
                          spr |-> x, id |-> ctrl.id + 1, bubble |-> FALSE]
LineStarts    == {a \in Adr : a % LINE = 0}
Accesses      == {Following(o, a, m, 0) :
                     o \in Ops \cap LsuKinds, a \in Adr, m \in Alignments}
Invalidations == IF "invalidate" \in Ops
                 THEN {Following("invalidate", 0, FALSE, a) : a \in LineStarts} ELSE {}
NoChange      == IF dc_enable THEN "dce_on" ELSE "dce_off"
Remaining     == {Following(o, 0, FALSE, 0) :
                     o \in Ops \ (LsuKinds \cup {"invalidate", NoChange})}

NextInstructions ==
    {Bubble} \cup IF ctrl.id = MaxOps THEN {} ELSE Accesses \cup Invalidations \cup Remaining

Answers == {"none"} \cup (IF dbus_req THEN {"ack"} ELSE {})
                    \cup (IF dbus_req /\ errors < MaxErrors THEN {"err"} ELSE {})

Snoops(answer) == IF answer = "ack"
                  THEN IF dbus_we_o THEN {{dbus_adr}} ELSE {{}}
                  ELSE {{}} \cup IF others < MaxOthers THEN {{a} : a \in Adr} ELSE {}

Traps == {FALSE} \cup {traps < MaxTraps}

Memory(i) ==
    /\ mem' = IF i.ack /\ dbus_we_o THEN [mem EXCEPT ![dbus_adr] = dbus_dat]
              ELSE [a \in Adr |-> IF a \in i.snoop THEN -(others + 1) ELSE mem[a]]
    /\ others' = IF ~i.ack /\ i.snoop # {} THEN others + 1 ELSE others
    /\ errors' = IF i.err THEN errors + 1 ELSE errors
    /\ traps' = IF i.trap /\ i.flush THEN traps + 1 ELSE traps

(***************************************************************************)
(* What the properties remember: the store that counted last (a plain one  *)
(* when the buffer accepts it, an atomic one when it is written), the      *)
(* store the bus wrote last and the one it failed last, the instruction an *)
(* exception of another unit interrupted last, the load that returned      *)
(* last, what the last l.lwa read, whether the link broke since the last   *)
(* store was accepted, what became on the bus of the l.swa accepted last,  *)
(* and whether a word was written in a way the cache does not see, or a    *)
(* bus error kept it from being written or dropped an access unnoticed.    *)
(***************************************************************************)
\* A word of the line that is being refilled is written after it was read.
OvertakesRefill(a) == /\ refill /\ Line(a) = Line(dbus_adr)
                      /\ a % LINE \in refill_valid

\* A store goes to a line the cache holds while the cache is switched off.
StoreWhileOff == /\ ctrl_op_lsu_store /\ padv_ctrl /\ ~dc_enable_r
                 /\ \E w \in Ways : tag_ram[Index(ctrl.adr)].way[w] = Tag(ctrl.adr)

SwaOnBus == state = "WRITE" /\ dbus_req /\ dbus_atomic

\* A load or store is dropped by a bus error of a refill whose load has left the
\* control stage: a bubble has hidden the exception.
DropsAccess(i) == DCACHE /\ dc_enable_r /\ ctrl_except_dbus /\ i.advance
                  /\ \E n \in i.next : n.op \in LsuKinds

Log(i) ==
    LET writes == i.ack /\ dbus_we_o
        cached == ctrl_op_lsu_load /\ ~dbus_access /\ cpu_ack(Lookup(i.flush))
        reads  == i.ack /\ state = "READ" /\ ctrl_op_lsu_load /\ dbus_access /\ ~access_done
        val    == IF cached THEN cpu_dat(Lookup(i.flush)) ELSE mem[dbus_adr]
    IN  log' = [stored      |-> IF i.write /\ ~ctrl_op_lsu_atomic
                                THEN [adr |-> ctrl.adr, val |-> ctrl.id]
                                ELSE IF SwaOnBus /\ writes
                                THEN [adr |-> dbus_adr, val |-> dbus_dat] ELSE log.stored,
                written     |-> IF writes THEN dbus_dat ELSE log.written,
                failed      |-> IF i.err /\ dbus_we_o THEN dbus_dat ELSE log.failed,
                interrupted |-> IF i.flush /\ ~store_buffer_err
                                THEN ctrl.id ELSE log.interrupted,
                result      |-> IF reads \/ cached
                                THEN [adr |-> ctrl.adr, val |-> val]
                                ELSE log.result,
                link        |-> IF (reads \/ cached) /\ ctrl.op = "lwa" THEN val
                                ELSE log.link,
                broken      |-> IF i.write THEN FALSE
                                ELSE log.broken \/ ~atomic_reserve,
                swa         |-> IF SwaOnBus /\ i.ack
                                THEN IF dbus_we_o THEN "written" ELSE "discarded"
                                ELSE IF i.write THEN "none" ELSE log.swa,
                unseen      |-> \/ log.unseen \/ StoreWhileOff \/ (i.err /\ dbus_we_o)
                                \/ DropsAccess(i)
                                \/ \E a \in i.snoop : OvertakesRefill(a)]

\* What the buffer's RAM holds at power-up is never used (StoreBuffer_proofs
\* has it arbitrary); here it is one value.
NoStore == [adr |-> 0, id |-> 0, atomic |-> FALSE]

Init ==
    /\ write_pointer = 0 /\ read_pointer = 0
    /\ fifo_ram = [s \in 0 .. DEPTH - 1 |-> NoStore] /\ fifo_dout = NoStore
    /\ accepted = NoStore
    /\ state = "IDLE" /\ dbus_req = FALSE /\ dbus_we = FALSE /\ dbus_adr = 0
    /\ dbus_dat = 0 /\ dbus_atomic = FALSE /\ last_write = FALSE
    /\ write_done = FALSE /\ dbus_ack = FALSE /\ dbus_err = FALSE
    /\ access_done = FALSE /\ except_dbus = FALSE /\ store_buffer_err = FALSE
    /\ store_buffer_write_pending = FALSE
    /\ atomic_reserve = FALSE /\ atomic_addr \in Adr
    /\ atomic_flag_set = FALSE /\ atomic_flag_clear = FALSE
    /\ dc_enable \in Enabled /\ dc_enable_r = dc_enable /\ dc_refill_r = FALSE /\ DcInit
    /\ ctrl = [op |-> "other", adr |-> 0, misaligned |-> FALSE, spr |-> 0, id |-> 0,
               bubble |-> FALSE]
    /\ padv_ctrl = FALSE /\ ctrl_except_dbus = FALSE /\ ctrl_except_align = FALSE
    /\ ctrl_stage_exceptions = FALSE /\ exception_r = FALSE
    /\ exception_taken = FALSE /\ decode_execute_halt = FALSE /\ spr_epcr = 0
    /\ mem = [a \in Adr |-> 0] /\ traps = 0 /\ errors = 0 /\ others = 0
    /\ log = [stored |-> [adr |-> 0, val |-> 0], written |-> 0, failed |-> 0, interrupted |-> 0,
              result |-> [adr |-> 0, val |-> 0], link |-> 0,
              broken |-> FALSE, swa |-> "none", unseen |-> FALSE]

\* A clock edge: every block reads the old registers and the same inputs.
Edge(i) == /\ BusMachine(i) /\ Buffer(i)
           /\ Caching(i) /\ AccessDone(i) /\ ExceptDbus(i) /\ StoreBufferErr(i) /\ WritePending(i)
           /\ Atomics(i) /\ ControlStage(i) /\ PadvCtrl(i)
           /\ CtrlExceptions(i) /\ CtrlStageExceptions
           /\ ExceptionSequence(i) /\ ExceptionPc(i)
           /\ Memory(i) /\ Log(i)

Given(answer, snoop, next, trap, taken) ==
    LET flush == exception_re(trap)
    IN  [ack |-> answer = "ack", err |-> answer = "err", snoop |-> snoop,
         next |-> next, trap |-> trap, taken |-> taken, flush |-> flush,
         write |-> store_buffer_write(flush), advance |-> padv_execute(flush, next)]

Clock(answers, takes, nexts) ==
    \E answer \in answers, trap \in Traps, taken \in takes :
       \E snoop \in Snoops(answer), next \in nexts :
          Edge(Given(answer, snoop, next, trap, taken))

Takes == {FALSE} \cup {exception_r}
Nexts == {{}} \cup {{n} : n \in NextInstructions}

Next == Clock(Answers, Takes, Nexts)

(***************************************************************************)
(* Fairness: the clock runs while the control stage waits for this unit, a *)
(* bus that is asked answers in the end, and the fetch stage in the end    *)
(* takes an exception.                                                     *)
(***************************************************************************)
Waiting  == ctrl_op_lsu /\ ~access_done /\ ~padv_ctrl
Ticks    == Waiting /\ Next
Answered == dbus_req /\ Clock(Answers \ {"none"}, Takes, Nexts)
Taken    == exception_r /\ ~exception_taken /\ Clock(Answers, {TRUE}, Nexts)

Spec     == Init /\ [][Next]_vars
FairSpec == Spec /\ WF_vars(Ticks) /\ WF_vars(Answered) /\ WF_vars(Taken)
-----------------------------------------------------------------------------
(***************************************************************************)
(* The stores that are on their way to the memory: the one on the bus, the *)
(* one the buffer has already given out, and those still in it.            *)
(***************************************************************************)
OnBus   == IF state = "WRITE" /\ dbus_req
           THEN <<[adr |-> dbus_adr, id |-> dbus_dat, atomic |-> dbus_atomic]>>
           ELSE <<>>
Fetched == IF state = "WRITE" /\ (~dbus_req \/ ~last_write)
           THEN <<fifo_dout>> ELSE <<>>
Pending == OnBus \o Fetched \o Contents

\* The memory as the program sees it: an atomic store counts when it is done.
View == LET pending == Pending
            mine(a) == {k \in DOMAIN pending : pending[k].adr = a /\ ~pending[k].atomic}
        IN  [a \in Adr |-> IF mine(a) = {} THEN mem[a]
                           ELSE pending[CHOOSE k \in mine(a) : \A j \in mine(a) : j <= k].id]

\* Types of the registers that carry data.
TypeOK ==
    /\ SBTypeOK
    /\ state \in {"IDLE", "DC_REFILL", "READ", "WRITE"}
    /\ dbus_adr \in Adr /\ dbus_dat \in Val /\ atomic_addr \in Adr
    /\ ctrl \in Instruction /\ spr_epcr \in Id
    /\ mem \in [Adr -> Val]

(***************************************************************************)
(* Stores reach the bus in program order and at most once, whatever bus    *)
(* errors and exceptions come between: "Write must be higher priority for  *)
(* store order".                                                           *)
(***************************************************************************)
StoreOrder ==
    LET ids == <<log.written>> \o [k \in DOMAIN Pending |-> Pending[k].id]
    IN  \A j, k \in DOMAIN ids : j < k => ids[j] < ids[k]

(***************************************************************************)
(* A store leaves the control stage only after the buffer has accepted it, *)
(* also when the buffer was full.                                          *)
(***************************************************************************)
StoreNotSkipped == [][padv_ctrl' /\ ctrl_op_lsu_store => accepted'.id = ctrl.id]_vars

(***************************************************************************)
(* The buffer takes nothing but the aligned store that is in the control   *)
(* stage, and not one that an exception of another unit interrupts: that   *)
(* one is executed again.  A pending request does not outlive its store.   *)
(***************************************************************************)
AcceptsItsStore ==
    [][accepted' # accepted
         => /\ ctrl_op_lsu_store /\ ~ctrl.misaligned
            /\ log'.interrupted # ctrl.id]_vars

(***************************************************************************)
(* A load that takes the answer of the bus takes the one to its own        *)
(* request, never the late one to a load that an exception of another unit *)
(* or an error of the unit took out of the control stage.                  *)
(***************************************************************************)
TakesOwnAnswer ==
    dbus_ack /\ dbus_access /\ ctrl_op_lsu_load /\ ~access_done /\ state # "WRITE"
      => dbus_adr = ctrl.adr /\ log.result = [adr |-> ctrl.adr, val |-> dbus_dat]

(***************************************************************************)
(* "Stall until the store buffer is empty": l.msync leaves the control     *)
(* stage only when every earlier store is in the memory.                   *)
(***************************************************************************)
MsyncDrains == [][padv_ctrl' /\ ctrl_op_msync => Pending = <<>>]_vars

(***************************************************************************)
(* An l.swa that the control stage waits for and that writes the linked    *)
(* address finds there what the l.lwa read: nobody wrote in between.       *)
(***************************************************************************)
SwaIsAtomic ==
    [][swa_success /\ SwaOnBus /\ log'.swa = "written" /\ log.swa = "none" /\ ~log'.unseen
         => mem[dbus_adr] = log.link]_vars

(***************************************************************************)
(* An l.swa that leaves the control stage with its flag set was accepted,  *)
(* was written on the bus, and to the linked address: a program that is    *)
(* told it succeeded may rely on it.  The converse does not hold: an l.swa *)
(* may write and report a failure, or leave with no report at all.         *)
(***************************************************************************)
SuccessMeansWritten ==
    [][padv_ctrl' /\ ctrl.op = "swa" /\ atomic_flag_set'
         => /\ accepted'.id = ctrl.id /\ log'.swa = "written"
            /\ ctrl.adr = atomic_addr]_vars

(***************************************************************************)
(* "If ... the link has been broken while it was waiting there, the bus    *)
(* access is still performed as a (discarded) read": an l.swa whose link   *)
(* was broken at any time in the buffer does not write.                    *)
(***************************************************************************)
BrokenLinkDiscards == [][log'.swa = "written" /\ log.swa = "none" => ~log.broken]_vars

\* The unit never writes a full buffer nor reads an empty one.
KeepsContract == SBSpec

(***************************************************************************)
(* To the program, buffer, cache, bus and memory are one sequential        *)
(* memory, as long as log.unseen is FALSE.                                 *)
(***************************************************************************)
Memory_ == INSTANCE SequentialMemory WITH
             SHARED <- MaxOthers > 0, view <- View, stored <- log.stored,
             result <- log.result, void <- log.unseen
ImplementsMemory == Memory_!MemSpec

(***************************************************************************)
(* A word in a valid line of the cache is the word that the program would  *)
(* read from memory behind the store buffer, unless the store to it is     *)
(* just being executed: also when a line is replaced, when a refill is     *)
(* interrupted, and when the cache was off for a while.                    *)
(***************************************************************************)
AddressOf(w, s, o) == (tag_ram[s].way[w] * SETS + s) * LINE + o
LinesCurrent ==
    LET view == View
    IN  \A w \in Ways, s \in Sets, o \in Offset :
           LET a == AddressOf(w, s, o)
           IN  \/ tag_ram[s].way[w] = Invalid \/ snoop_hit \/ log.unseen
               \/ ctrl_op_lsu_store /\ a = ctrl.adr
               \/ way_ram[w][<<s, o>>] = view[a]

(***************************************************************************)
(* A load or store that enters the control stage is done or flushed in the *)
(* end, whatever the buffer holds, the cache refills or the bus fails: the *)
(* stage never waits for ever without a done access or a new instruction.  *)
(***************************************************************************)
LsuCompletes == []<>~Waiting

(***************************************************************************)
(* "The exception PC as it has went through the store buffer": the PC that *)
(* is saved for a bus error of a buffered store is the PC of that store.   *)
(***************************************************************************)
ErrorPcIsOfStore ==
    [][log'.interrupted = log.interrupted /\ spr_epcr' # spr_epcr
         => spr_epcr' = log.failed]_vars
=============================================================================
