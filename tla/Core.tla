-------------------------------- MODULE Core --------------------------------
(***************************************************************************)
(* The pipeline: fetch stage with its bus machine and instruction cache,   *)
(* decode and execute registers, control stage and control unit with its   *)
(* exception sequence, tick timer and interrupt controller.  One step is   *)
(* one clock cycle.  The program is a choice of Programs and does not      *)
(* change; a pipeline register holds the address of its instruction, or    *)
(* NOP.  Addresses count words.                                            *)
(*                                                                         *)
(* An instruction has an op: "nop" (any that only computes), "sf" (sets    *)
(* the flag), "bf", "bnf", "j", "mem" (a load), "mtspr", "rfe", "sys" or   *)
(* "illegal"; and where it matters a target to, the register spr and the   *)
(* value val that it writes, and whether it uses what the load before it   *)
(* reads.  The program runs in supervisor mode without MMUs, with loads    *)
(* that bypass the data cache.                                             *)
(***************************************************************************)
EXTENDS Integers, TickTimer, Pic, InstructionCache

CONSTANTS Programs,   \* records of code, PIC trigger, and SR[ICE]
          Vector,     \* exception vectors, by cause
          MaxWait,    \* cycles that a bus takes to answer, at most
          MaxStall    \* cycles that the pipeline may stand still

VARIABLES
    code, cached,
    \* fetch stage
    pc_fetch, flush, fetching_brcond, fetching_mispredicted_branch,
    ctrl_branch_exception_r, fetch_exception_taken, fetch_valid, decode_insn,
    pc_decode, decode_except_ibus_err, nop_ack, imem_err,
    state, ibus_req, ibus_adr, ibus_ack,
    \* execute stage
    decode_valid, execute_insn, pc_execute, execute_excepts, execute_rfe,
    execute_bubble, execute_mispredict_target, execute_predicted_flag,
    \* control stage and load store unit
    ctrl_insn, pc_ctrl, ctrl_excepts, ctrl_rfe, ctrl_bubble, flag_result,
    lsu_state, dbus_ack, access_done, except_dbus,
    \* control unit
    padv_ctrl, execute_waiting_r, waiting_for_fetch, decode_execute_halt,
    exception_r, exception_taken, doing_rfe_r, ctrl_stage_exceptions,
    exception_pc_addr, last_branch_insn_pc, execute_delay_slot, ctrl_delay_slot,
    sr, esr, epcr,
    \* cycles that the buses have been waited for
    ibus_wait, dbus_wait,
    \* what the properties remember: the program counter, the one after it and
    \* the last branch of SequentialCore, the last instruction that took effect,
    \* interrupts raised and not yet taken, cycles since the pipeline advanced
    pc, npc, slot, branch, executed, owed, stalled

fetch_vars == <<pc_fetch, flush, fetching_brcond, fetching_mispredicted_branch,
                ctrl_branch_exception_r, fetch_exception_taken, fetch_valid, decode_insn,
                pc_decode, decode_except_ibus_err, nop_ack, imem_err,
                state, ibus_req, ibus_adr, ibus_ack>>
execute_vars == <<decode_valid, execute_insn, pc_execute, execute_excepts, execute_rfe,
                  execute_bubble, execute_mispredict_target, execute_predicted_flag>>
ctrl_vars == <<ctrl_insn, pc_ctrl, ctrl_excepts, ctrl_rfe, ctrl_bubble, flag_result,
               lsu_state, dbus_ack, access_done, except_dbus>>
unit_vars == <<padv_ctrl, execute_waiting_r, waiting_for_fetch, decode_execute_halt,
               exception_r, exception_taken, doing_rfe_r, ctrl_stage_exceptions,
               exception_pc_addr, last_branch_insn_pc, execute_delay_slot,
               ctrl_delay_slot, sr, esr, epcr>>
history_vars == <<pc, npc, slot, branch, executed, owed, stalled>>
vars == <<code, cached, fetch_vars, execute_vars, ctrl_vars, unit_vars, history_vars,
          ibus_wait, dbus_wait, tt_vars, pic_vars, ic_vars>>

Ideal == INSTANCE SequentialCore WITH
           pending <- (IF spr_picsr # {} THEN {"pic"} ELSE {})
                      \cup (IF spr_ttmr.ip THEN {"tick"} ELSE {})

NOP      == -1
Op(w)    == IF w \in DOMAIN code THEN code[w].op ELSE "nop"
Brcond   == {"bf", "bnf"}
Branches == Brcond \cup {"j"}

\* What is written to a register is one of its values; a branch is not followed,
\* in its delay slot, by another one or by l.rfe, which the architecture forbids.
SrValues  == [f : BOOLEAN, iee : BOOLEAN, tee : BOOLEAN]
IsInsn(n) == /\ n.to \in Int
             /\ n.spr \in {"SR", "ESR"} => n.val \in SrValues
             /\ n.spr = "EPCR" => n.val \in Int

SlotsAreFree(c) == \A a \in DOMAIN c : c[a].op \in Branches /\ a + 1 \in DOMAIN c
                                        => c[a + 1].op \notin Branches \cup {"rfe"}

ASSUME ProgramsAssumption ==
    \A p \in Programs : /\ DOMAIN p.code \subseteq Nat
                        /\ \A a \in DOMAIN p.code : IsInsn(p.code[a])
                        /\ SlotsAreFree(p.code)
                        /\ p.trigger \in {"LEVEL", "EDGE", "LATCHED_LEVEL"}

ASSUME VectorAssumption ==
    \A c \in {"ibus", "illegal", "sys", "dbus", "pic", "tick"} : Vector[c] \in Int
-----------------------------------------------------------------------------
(***************************************************************************)
(* Wires.  Those of the control unit.                                      *)
(***************************************************************************)
lsu_valid       == dbus_ack \/ access_done
execute_waiting == Op(ctrl_insn) = "mem" /\ ~lsu_valid

doing_rfe == /\ (padv_ctrl /\ ctrl_rfe) \/ doing_rfe_r
             /\ ~(fetch_exception_taken /\ doing_rfe_r)

except_pic == /\ spr_picsr # {} /\ sr.iee
              /\ Op(ctrl_insn) # "mtspr" /\ ~doing_rfe
except_ticktimer == /\ spr_ttmr.ip /\ sr.tee
                    /\ Op(ctrl_insn) # "mtspr" /\ ~doing_rfe

exception_pending == ctrl_excepts \cup (IF except_pic THEN {"pic"} ELSE {})
                                  \cup (IF except_ticktimer THEN {"tick"} ELSE {})

exception == /\ exception_pending # {}
             /\ (padv_ctrl /\ ~ctrl_bubble) \/ ctrl_stage_exceptions

exception_re == exception /\ ~exception_r /\ ~exception_taken

\* The cause that counts is the first of the list.
Priority == <<"ibus", "illegal", "sys", "dbus", "pic", "tick">>
Cause == LET first == CHOOSE k \in DOMAIN Priority :
                         /\ Priority[k] \in exception_pending
                         /\ \A j \in 1 .. k - 1 : Priority[j] \notin exception_pending
         IN  Priority[first]

pipeline_flush == (padv_ctrl /\ ctrl_rfe) \/ exception_re

ctrl_branch_exception == (exception_r \/ ctrl_rfe \/ doing_rfe) /\ ~exception_taken

\* Mutant: l.rfe goes to where it returns only in its first cycle.
ctrl_branch_except_pc_Once == IF ctrl_rfe THEN epcr ELSE exception_pc_addr
ctrl_branch_except_pc == IF ctrl_rfe \/ doing_rfe THEN epcr ELSE exception_pc_addr

ctrl_flag == flag_result = "set" \/ (flag_result = "none" /\ sr.f)

padv_decode == fetch_valid /\ ~execute_waiting /\ ~decode_execute_halt

\* An instruction waits in decode for what the load before it reads; l.rfe
\* holds the fetch stage until it has reached the control stage.
decode_bubble == /\ padv_decode
                 /\ \/ /\ Op(execute_insn) = "mem"
                       /\ decode_insn # NOP /\ code[decode_insn].uses
                    \/ Op(decode_insn) = "rfe"

padv_fetch == ~execute_waiting /\ ~decode_bubble

padv_execute ==
    /\ \/ decode_valid /\ ~execute_waiting /\ ~(exception_r /\ fetch_exception_taken)
       \/ ~execute_waiting /\ execute_waiting_r /\ fetch_valid
       \/ waiting_for_fetch /\ fetch_valid
    /\ ~decode_execute_halt /\ ~exception_re /\ ~ctrl_rfe

epcr_of_ctrl == IF ctrl_delay_slot THEN pc_ctrl - 1 ELSE pc_ctrl

\* The register that the control stage writes.
SprWrite == IF Op(ctrl_insn) = "mtspr"
            THEN [spr |-> code[ctrl_insn].spr, val |-> code[ctrl_insn].val] ELSE NoWrite
-----------------------------------------------------------------------------
(***************************************************************************)
(* Those of decode and of the fetch stage.                                 *)
(***************************************************************************)
\* Backward branches are predicted as taken.
Backward       == code[decode_insn].to < pc_decode
predicted_flag == (Op(decode_insn) = "bf") = Backward

decode_branch == /\ Op(decode_insn) = "j" \/ (Op(decode_insn) \in Brcond /\ Backward)
                 /\ ~pipeline_flush

decode_mispredict_target      == IF Backward THEN pc_decode + 2 ELSE code[decode_insn].to

branch_mispredict == Op(execute_insn) \in Brcond /\ ctrl_flag # execute_predicted_flag

mispredict_stall == fetching_mispredicted_branch \/ (branch_mispredict /\ fetching_brcond)

ctrl_branch_exception_edge == ctrl_branch_exception /\ ~ctrl_branch_exception_r

imem_ack        == IF cached THEN cpu_ack(pc_fetch, ibus_adr) ELSE ibus_ack
bus_access_done == imem_ack \/ imem_err \/ nop_ack
addr_valid      == (bus_access_done /\ padv_fetch) \/ doing_rfe

\* Mutant: what a flush finds on the bus is not dropped.
flushing_Now == pipeline_flush \/ ctrl_branch_exception_edge
flushing     == pipeline_flush \/ ctrl_branch_exception_edge \/ flush

pc_addr == IF ctrl_branch_exception /\ ~fetch_exception_taken THEN ctrl_branch_except_pc
           ELSE IF branch_mispredict \/ fetching_mispredicted_branch
                THEN execute_mispredict_target
                ELSE IF decode_branch THEN code[decode_insn].to ELSE pc_fetch + 1

ic_req == /\ padv_fetch /\ ~decode_except_ibus_err
          /\ \/ ~ctrl_branch_exception /\ ~pipeline_flush /\ ~mispredict_stall
             \/ doing_rfe

\* Mutant: the nop that stands in for an answer is not told apart from one.
imem_dat_NoNop == IF cached THEN way_dout ELSE ibus_adr
\* The word on the bus in READ is that of ibus_adr, which stays until the next.
imem_dat == IF nop_ack THEN NOP ELSE IF cached THEN way_dout ELSE ibus_adr
-----------------------------------------------------------------------------
(***************************************************************************)
(* The fetch stage, one operator per always block or group of them.  ack   *)
(* and err are the answers of the instruction bus.                         *)
(***************************************************************************)
FetchPc == /\ pc_fetch' = IF addr_valid THEN pc_addr ELSE pc_fetch
           /\ ctrl_branch_exception_r' = ctrl_branch_exception
           /\ fetch_exception_taken' = /\ ~fetch_exception_taken /\ ctrl_branch_exception
                                       /\ bus_access_done /\ padv_fetch

FetchFlush ==
    /\ flush' = IF bus_access_done /\ padv_fetch THEN FALSE ELSE flush \/ pipeline_flush
    /\ fetching_brcond' =
           IF pipeline_flush THEN FALSE
           ELSE IF Op(decode_insn) \in Brcond /\ addr_valid THEN TRUE
           ELSE fetching_brcond /\ ~(bus_access_done /\ padv_fetch)
    /\ fetching_mispredicted_branch' =
           IF pipeline_flush \/ (bus_access_done /\ padv_fetch) THEN FALSE
           ELSE \/ fetching_mispredicted_branch
                \/ (fetching_brcond /\ branch_mispredict /\ padv_fetch)

FetchDecode ==
    LET arrives == bus_access_done /\ padv_fetch /\ ~mispredict_stall
    IN  /\ fetch_valid' = (~pipeline_flush /\ (arrives \/ (~padv_fetch /\ fetch_valid)))
        /\ decode_insn' = IF imem_err \/ flushing THEN NOP
                          ELSE IF arrives THEN imem_dat ELSE decode_insn
        /\ pc_decode' = IF arrives THEN pc_fetch ELSE pc_decode
        /\ decode_except_ibus_err' = \/ imem_err
                                     \/ decode_except_ibus_err /\ ~ctrl_branch_exception

\* A nop stands in for the answer when there is no request that it could be to.
NopAck == nop_ack' = /\ padv_fetch /\ ~bus_access_done /\ ~(ibus_req /\ ~cached)
                     /\ ctrl_branch_exception_edge \/ mispredict_stall

StartsRead == /\ padv_fetch /\ ~cached /\ ~ibus_ack /\ ~imem_err /\ ~nop_ack
StartsBurst == cached /\ refill_req(pc_fetch, ic_req)

InstructionBus(ack, err) ==
    /\ imem_err' = err
    /\ ibus_ack' = (state = "READ" /\ ack)
    /\ CASE state = "IDLE" ->
              LET next == IF StartsRead
                          THEN IF ~ctrl_branch_exception \/ doing_rfe THEN "READ" ELSE "IDLE"
                          ELSE IF StartsBurst THEN "IC_REFILL" ELSE "IDLE"
              IN  /\ state' = next /\ ibus_req' = (next # "IDLE")
                  /\ ibus_adr' = IF next = "IDLE" THEN ibus_adr ELSE pc_fetch
         [] state = "READ" ->
              /\ state' = IF ack \/ err THEN "IDLE" ELSE "READ"
              /\ ibus_req' = (ibus_req /\ ~ack /\ ~err)
              /\ UNCHANGED ibus_adr
         [] state = "IC_REFILL" ->
              LET ends == (ack /\ refill_done(ibus_adr)) \/ err
              IN  /\ state' = IF ends THEN "IDLE" ELSE "IC_REFILL"
                  /\ ibus_req' = ~ends
                  /\ ibus_adr' = IF ack THEN NextInLine(ibus_adr) ELSE ibus_adr

Cache(ack) == IF cached
              THEN IcCycle(pc_fetch, IF addr_valid THEN pc_addr ELSE pc_fetch,
                           ic_req, ibus_adr, ack, imem_err)
              ELSE UNCHANGED ic_vars
-----------------------------------------------------------------------------
(***************************************************************************)
(* The registers between decode and execute.  The marks of an exception    *)
(* pass a flush and a bubble; l.mtspr passes a flush.                      *)
(***************************************************************************)
ExecuteStage ==
    LET pass(here, there) == IF padv_decode THEN there ELSE here
        brcond == padv_decode /\ Op(decode_insn) \in Brcond
    IN  /\ decode_valid' = padv_decode
        /\ execute_insn' = IF pipeline_flush
                           THEN IF Op(execute_insn) = "mtspr" THEN execute_insn ELSE NOP
                           ELSE pass(execute_insn, IF decode_bubble THEN NOP ELSE decode_insn)
        /\ execute_rfe' = (~pipeline_flush /\ pass(execute_rfe, Op(decode_insn) = "rfe"))
        /\ execute_bubble' = (~pipeline_flush /\ pass(execute_bubble, decode_bubble))
        /\ pc_execute' = pass(pc_execute, pc_decode)
        /\ execute_excepts' = pass(execute_excepts,
                                   ({Op(decode_insn)} \cap {"sys", "illegal"})
                                   \cup (IF decode_except_ibus_err THEN {"ibus"} ELSE {}))
        /\ execute_mispredict_target' = IF brcond THEN decode_mispredict_target
                                        ELSE execute_mispredict_target
        /\ execute_predicted_flag' = IF brcond THEN predicted_flag ELSE execute_predicted_flag

(***************************************************************************)
(* Those between execute and control; flag is the result of a comparison.  *)
(***************************************************************************)
ControlStage(flag) ==
    LET arrives == IF padv_execute THEN execute_insn
                   ELSE IF pipeline_flush THEN NOP ELSE ctrl_insn
    IN  /\ ctrl_insn' = IF "dbus" \in ctrl_excepts /\ Op(arrives) = "mem" THEN NOP ELSE arrives
        /\ ctrl_rfe' = IF padv_execute THEN execute_rfe ELSE ctrl_rfe /\ ~pipeline_flush
        /\ ctrl_excepts' =
               IF pipeline_flush THEN {}
               ELSE (IF padv_execute THEN execute_excepts ELSE ctrl_excepts \ {"dbus"})
                    \cup (IF except_dbus THEN {"dbus"} ELSE {})
        /\ pc_ctrl' = IF padv_execute /\ ~execute_bubble THEN pc_execute ELSE pc_ctrl
        /\ ctrl_bubble' = IF padv_execute THEN execute_bubble ELSE ctrl_bubble
        /\ flag_result' = IF ~padv_execute THEN flag_result
                          ELSE IF Op(execute_insn) # "sf" THEN "none"
                          ELSE IF flag THEN "set" ELSE "clear"

\* A load with the data cache off; ack and err are the answers of the bus.
LoadStoreUnit(ack, err) ==
    LET starts == /\ Op(ctrl_insn) = "mem" /\ ~dbus_ack /\ ~except_dbus
                  /\ ~access_done /\ ~pipeline_flush
    IN  /\ lsu_state' = IF lsu_state = "IDLE" THEN IF starts THEN "READ" ELSE "IDLE"
                        ELSE IF ack \/ err THEN "IDLE" ELSE "READ"
        /\ dbus_ack' = ack
        /\ access_done' = IF padv_execute THEN FALSE ELSE dbus_ack \/ access_done
        /\ except_dbus' = IF err THEN TRUE
                          ELSE except_dbus /\ ~padv_execute /\ ~pipeline_flush
-----------------------------------------------------------------------------
(***************************************************************************)
(* The control unit.                                                       *)
(***************************************************************************)
Advance ==
    /\ padv_ctrl' = padv_execute
    /\ execute_waiting_r' = (execute_waiting /\ (decode_valid \/ execute_waiting_r))
    /\ waiting_for_fetch' = IF fetch_valid THEN FALSE
                            ELSE waiting_for_fetch \/ (~execute_waiting /\ execute_waiting_r)

\* Mutant: the halt is not lifted by the l.rfe that the fetch stage took.
Halt_OnlyException == IF decode_execute_halt
                      THEN ~(fetch_exception_taken /\ exception_r)
                      ELSE (ctrl_rfe \/ exception) /\ ~exception_taken
Halt == IF decode_execute_halt THEN ~fetch_exception_taken
        ELSE (ctrl_rfe \/ exception) /\ ~exception_taken

ExceptionSequence ==
    /\ decode_execute_halt' = Halt
    /\ exception_r' = (~exception_taken /\ (exception_r \/ exception))
    /\ exception_taken' = (~exception_taken /\ exception_r /\ fetch_exception_taken)
    /\ doing_rfe_r' = IF fetch_exception_taken /\ doing_rfe_r THEN FALSE
                      ELSE IF padv_ctrl THEN ctrl_rfe ELSE doing_rfe_r
    /\ ctrl_stage_exceptions' = ("dbus" \in ctrl_excepts)
    /\ exception_pc_addr' = IF exception /\ ~exception_r THEN Vector[Cause]
                            ELSE exception_pc_addr

DelaySlots ==
    /\ last_branch_insn_pc' = IF padv_execute /\ Op(execute_insn) \in Branches
                              THEN pc_execute ELSE last_branch_insn_pc
    /\ execute_delay_slot' = IF padv_execute THEN Op(execute_insn) \in Branches
                             ELSE execute_delay_slot
    /\ ctrl_delay_slot' = IF padv_execute THEN execute_delay_slot ELSE ctrl_delay_slot

\* Mutant: an exception leaves interrupts enabled.
NextSr_KeepsEnabled == IF ~padv_ctrl \/ exception_re THEN sr
                       ELSE IF SprWrite.spr = "SR" THEN SprWrite.val
                       ELSE IF ctrl_rfe THEN esr ELSE [sr EXCEPT !.f = ctrl_flag]
NextSr == IF exception_re THEN [sr EXCEPT !.iee = FALSE, !.tee = FALSE]
          ELSE IF ~padv_ctrl THEN sr
          ELSE IF SprWrite.spr = "SR" THEN SprWrite.val
          ELSE IF ctrl_rfe THEN esr ELSE [sr EXCEPT !.f = ctrl_flag]

SavedRegisters ==
    /\ sr' = NextSr
    /\ esr' = IF exception_re THEN sr
              ELSE IF SprWrite.spr = "ESR" THEN SprWrite.val ELSE esr
    /\ epcr' = IF exception_re
               THEN IF "ibus" \in ctrl_excepts THEN last_branch_insn_pc
                    ELSE IF "sys" \in ctrl_excepts /\ ~ctrl_delay_slot THEN pc_ctrl + 1
                    ELSE epcr_of_ctrl
               ELSE IF SprWrite.spr = "EPCR" THEN SprWrite.val ELSE epcr
-----------------------------------------------------------------------------
(***************************************************************************)
(* The buses, and a device that raises its interrupt when its line is low  *)
(* and lowers it when it is read.  The instruction bus fails at addresses  *)
(* the program does not have.                                              *)
(***************************************************************************)
BusAnswers ==
    IF ~ibus_req THEN {"none"}
    ELSE {IF ibus_adr \in DOMAIN code THEN "ack" ELSE "err"}
         \cup (IF ibus_wait < MaxWait THEN {"none"} ELSE {})

DataAnswers ==
    IF lsu_state = "IDLE" THEN {"none"}
    ELSE (IF code[ctrl_insn].fails THEN {"ack", "err"} ELSE {"ack"})
         \cup (IF dbus_wait < MaxWait THEN {"none"} ELSE {})

Flags == IF Op(execute_insn) = "sf" /\ padv_execute THEN BOOLEAN ELSE {FALSE}

Raises == IF irq = {} THEN {{}} \cup {{l} : l \in Lines} ELSE {{}}

Environment(i) ==
    /\ irq' = IF i.dbus = "ack" /\ code[ctrl_insn].device THEN {} ELSE irq \cup i.raise
    /\ ibus_wait' = IF ibus_req /\ i.ibus = "none" THEN ibus_wait + 1 ELSE 0
    /\ dbus_wait' = IF lsu_state = "READ" /\ i.dbus = "none" THEN dbus_wait + 1 ELSE 0

(***************************************************************************)
(* An instruction takes effect when it advances in the control stage, a    *)
(* load when its word has come; an interrupt is taken when the pipeline is *)
(* flushed for it.                                                         *)
(***************************************************************************)
Commits == IF Op(ctrl_insn) = "mem" THEN dbus_ack
           ELSE /\ padv_ctrl /\ ~exception_re
                /\ ctrl_rfe \/ (ctrl_insn # NOP /\ ~ctrl_bubble)

History(i) ==
    /\ executed' = IF ~Commits THEN executed ELSE IF ctrl_rfe THEN pc ELSE ctrl_insn
    /\ branch' = IF Commits THEN Ideal!NextBranch ELSE branch
    /\ slot' = IF Commits THEN Op(pc) \in Branches ELSE slot /\ ~exception_re
    /\ pc' = IF exception_re THEN exception_pc_addr' ELSE IF Commits THEN Ideal!NextPc ELSE pc
    /\ npc' = IF exception_re THEN exception_pc_addr' + 1
              ELSE IF Commits THEN Ideal!NextNpc ELSE npc
    /\ owed' = owed + (IF i.raise # {} THEN 1 ELSE 0)
                    - (IF exception_re /\ Cause = "pic" THEN 1 ELSE 0)
    /\ stalled' = IF padv_ctrl THEN 0 ELSE stalled + 1

Cycle(i) ==
    /\ FetchPc /\ FetchFlush /\ FetchDecode /\ NopAck
    /\ InstructionBus(i.ibus = "ack", i.ibus = "err") /\ Cache(i.ibus = "ack")
    /\ ExecuteStage /\ ControlStage(i.flag)
    /\ LoadStoreUnit(i.dbus = "ack", i.dbus = "err")
    /\ Advance /\ ExceptionSequence /\ DelaySlots /\ SavedRegisters
    /\ TimerCycle(SprWrite) /\ PicCycle(SprWrite)
    /\ Environment(i) /\ History(i)
    /\ UNCHANGED <<code, cached>>

Next == \E ib \in BusAnswers, db \in DataAnswers, f \in Flags, r \in Raises :
            Cycle([ibus |-> ib, dbus |-> db, flag |-> f, raise |-> r])

Init ==
    /\ \E p \in Programs : code = p.code /\ cached = p.cached /\ trigger = p.trigger
    /\ TimerInit /\ PicInit /\ IcInit
    /\ pc_fetch = 0 /\ pc_decode = 0 /\ pc_execute = 0 /\ pc_ctrl = 0
    /\ decode_insn = NOP /\ execute_insn = NOP /\ ctrl_insn = NOP
    /\ flush = FALSE /\ fetching_brcond = FALSE /\ fetching_mispredicted_branch = FALSE
    /\ ctrl_branch_exception_r = FALSE /\ fetch_exception_taken = FALSE
    /\ fetch_valid = FALSE /\ decode_except_ibus_err = FALSE /\ nop_ack = FALSE
    /\ imem_err = FALSE /\ state = "IDLE" /\ ibus_req = FALSE /\ ibus_adr = 0
    /\ ibus_ack = FALSE /\ decode_valid = FALSE /\ execute_excepts = {}
    /\ execute_rfe = FALSE /\ execute_bubble = FALSE
    /\ execute_mispredict_target = 0 /\ execute_predicted_flag = FALSE
    /\ ctrl_excepts = {} /\ ctrl_rfe = FALSE /\ ctrl_bubble = FALSE /\ flag_result = "none"
    /\ lsu_state = "IDLE" /\ dbus_ack = FALSE /\ access_done = FALSE /\ except_dbus = FALSE
    /\ padv_ctrl = FALSE /\ execute_waiting_r = FALSE /\ waiting_for_fetch = FALSE
    /\ decode_execute_halt = FALSE /\ exception_r = FALSE /\ exception_taken = FALSE
    /\ doing_rfe_r = FALSE /\ ctrl_stage_exceptions = FALSE /\ exception_pc_addr = 0
    /\ last_branch_insn_pc = 0 /\ execute_delay_slot = FALSE /\ ctrl_delay_slot = FALSE
    /\ sr = [f |-> FALSE, iee |-> FALSE, tee |-> FALSE] /\ esr = sr /\ epcr = 0
    /\ ibus_wait = 0 /\ dbus_wait = 0
    /\ pc = 0 /\ npc = 1 /\ slot = FALSE /\ branch = 0 /\ executed = NOP
    /\ owed = 0 /\ stalled = 0

Spec == Init /\ [][Next]_vars
-----------------------------------------------------------------------------
\* The machines are in one of their states, and what the pipeline registers hold
\* is of the program, whatever is read from the bus and the cache.
CoreTypeOK ==
    /\ state \in {"IDLE", "READ", "IC_REFILL"} /\ ic_state \in {"IDLE", "READ", "REFILL"}
    /\ \A w \in {decode_insn, execute_insn, ctrl_insn} : w = NOP \/ w \in DOMAIN code
    /\ ctrl_excepts \subseteq {"ibus", "illegal", "sys", "dbus"}

\* An instruction goes through the pipeline with its own address: the word that
\* arrives in decode is that of the program counter it is stored with, however
\* flushes, mispredicted branches, nops for missing answers, hits and refills fall
\* together (mor1kx_fetch_cappuccino.v:154-289).  l.mtspr passes a flush and the
\* program counter does not.
OwnInstruction ==
    /\ decode_insn # NOP => decode_insn = pc_decode
    /\ execute_insn # NOP /\ Op(execute_insn) # "mtspr" => execute_insn = pc_execute
    /\ ctrl_insn # NOP /\ Op(ctrl_insn) # "mtspr" => ctrl_insn = pc_ctrl

\* Between an exception or l.rfe and the first instruction of where it leads to,
\* no instruction takes effect, the two are never under way at once, and the fetch
\* stage goes to the handler or back; no load is under way when an exception is
\* taken (mor1kx_ctrl_cappuccino.v:345-368, 501-571, mor1kx_lsu_cappuccino.v:257-273).
NothingBetween ==
    /\ ~(exception_r /\ doing_rfe_r)
    /\ (exception_r /\ ~exception_taken) \/ doing_rfe_r => ~Commits
    /\ fetch_exception_taken => pc_fetch = IF exception_r THEN exception_pc_addr ELSE epcr
    /\ lsu_state = "READ" => ~exception_re
    /\ dbus_ack => Op(ctrl_insn) = "mem"

\* Instructions take effect as in SequentialCore, whatever the buses, the cache,
\* branches, exceptions and interrupts do to the pipeline; SR, ESR and EPCR are
\* what it says (mor1kx_ctrl_cappuccino.v:336-366, 440-560, 656-828).
ImplementsCore == Ideal!CoreSpec

\* What the handler of an interrupt keeps to: it reads the device, and clears a
\* bit of the controller, with the interrupt disabled; an edge is cleared before
\* the device may raise the next one, and interrupts are enabled again when none is
\* requested but one that was raised anew (mor1kx_pic.v:67-127,
\* mor1kx_ctrl_cappuccino.v:655-738).
HandlerOrder ==
    /\ lsu_state = "READ" /\ code[ctrl_insn].device => owed = 0 /\ irq # {}
    /\ SprWrite.spr = "PICSR" => ~sr.iee /\ (trigger = "EDGE" => owed = 0)
    /\ /\ padv_ctrl /\ ~sr.iee
       /\ (SprWrite.spr = "SR" /\ SprWrite.val.iee) \/ (ctrl_rfe /\ esr.iee)
       => owed = 1 \/ (irq = {} /\ spr_picsr = {})

\* An interrupt that was raised and not yet taken is requested, or will be when
\* its line is unmasked, and it is taken once, whatever is written to the
\* controller and whenever the pipeline is flushed (mor1kx_pic.v:67-127,
\* mor1kx_ctrl_cappuccino.v:1105).
InterruptOnce ==
    /\ owed \in {0, 1}
    /\ owed = 1 => \/ spr_picsr # {}
                   \/ (IF trigger = "EDGE" THEN irq \ irq_unmasked_r ELSE irq) # {}

\* The pipeline never stands still for longer than its buses make it
\* (mor1kx_ctrl_cappuccino.v:437-460, 480-556).
PipelineRuns == stalled <= MaxStall

\* The unit knows whether the instruction that reaches the control stage is in
\* a delay slot (mor1kx_ctrl_cappuccino.v:868).
DelaySlotExact == padv_ctrl /\ ~ctrl_bubble /\ ctrl_insn # NOP => ctrl_delay_slot = slot
=============================================================================
