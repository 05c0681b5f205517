----------------------------- MODULE Core_proofs -----------------------------
(***************************************************************************)
(* Proofs about Core for every program without branches in delay slots,    *)
(* every size of the instruction cache and every timing of the buses: what *)
(* the pipeline holds is of the program, an instruction goes through it    *)
(* with its own address, nothing takes effect between an exception and its *)
(* handler, and the interrupt of a program whose handler keeps to its      *)
(* order is taken once.                                                    *)
(***************************************************************************)
EXTENDS Core, TLAPS

(***************************************************************************)
(* The inputs of a cycle.                                                  *)
(***************************************************************************)
InputOK(i) == /\ i.ibus \in BusAnswers /\ i.dbus \in DataAnswers
              /\ i.flag \in Flags /\ i.raise \in Raises

LEMMA NextCycle == Next => \E i : InputOK(i) /\ Cycle(i)
<1> SUFFICES ASSUME Next PROVE \E i : InputOK(i) /\ Cycle(i)
  OBVIOUS
<1>1. PICK ib \in BusAnswers, db \in DataAnswers, f \in Flags, r \in Raises :
           Cycle([ibus |-> ib, dbus |-> db, flag |-> f, raise |-> r])
  BY DEF Next
<1>2. InputOK([ibus |-> ib, dbus |-> db, flag |-> f, raise |-> r])
  BY DEF InputOK
<1> QED BY <1>1, <1>2
-----------------------------------------------------------------------------
(***************************************************************************)
(* CoreTypeOK is not inductive: what decode takes from the bus and from    *)
(* the cache has to be of the program, and the addresses are integers.     *)
(***************************************************************************)
ProgramOK == /\ DOMAIN code \subseteq Nat
             /\ \A a \in DOMAIN code : IsInsn(code[a])
             /\ SlotsAreFree(code)
             /\ trigger \in {"LEVEL", "EDGE", "LATCHED_LEVEL"}

Word == DOMAIN code \cup {NOP}

BusWords == /\ ibus_ack => ibus_adr \in DOMAIN code
            /\ way_dout \in Word
            /\ way_ram \in [0 .. SETS * LINE - 1 -> Word]

StageTypes == /\ {decode_insn, execute_insn, ctrl_insn} \subseteq Word
              /\ execute_excepts \subseteq {"ibus", "illegal", "sys"}
              /\ ctrl_excepts \subseteq {"ibus", "illegal", "sys", "dbus"}

MachineTypes == /\ state \in {"IDLE", "READ", "IC_REFILL"}
                /\ ic_state \in {"IDLE", "READ", "REFILL"}
                /\ lsu_state \in {"IDLE", "READ"}

AddressTypes == {pc_fetch, ibus_adr, pc_decode, pc_execute, pc_ctrl,
                 execute_mispredict_target, exception_pc_addr, last_branch_insn_pc,
                 epcr} \subseteq Int

StatusTypes == sr \in SrValues /\ esr \in SrValues

Typed == ProgramOK /\ BusWords /\ StageTypes /\ MachineTypes /\ AddressTypes /\ StatusTypes

LEMMA TypedImpliesTypeOK == Typed => CoreTypeOK
BY DEF Typed, StageTypes, MachineTypes, Word, CoreTypeOK

LEMMA TypedInit == Init => Typed
<1> SUFFICES ASSUME Init PROVE Typed
  OBVIOUS
<1>1. PICK p \in Programs : code = p.code /\ cached = p.cached /\ trigger = p.trigger
  BY DEF Init
<1>2. ProgramOK
  BY <1>1, ProgramsAssumption DEF ProgramOK
<1>3. BusWords
  BY DEF Init, IcInit, BusWords, Word, NOP, Invalid
<1>4. StageTypes /\ MachineTypes
  BY DEF Init, IcInit, StageTypes, MachineTypes, Word
<1>5. AddressTypes /\ StatusTypes
  BY DEF Init, AddressTypes, StatusTypes, SrValues
<1> QED BY <1>2, <1>3, <1>4, <1>5 DEF Typed

\* The program does not change.
LEMMA ProgramStays == ASSUME NEW i, Cycle(i)
  PROVE  /\ code' = code /\ cached' = cached /\ Word' = Word
         /\ trigger' = trigger /\ ProgramOK' = ProgramOK
         /\ \A w : Op(w)' = Op(w)
<1>1. code' = code /\ cached' = cached /\ trigger' = trigger
  BY DEF Cycle, PicCycle
<1> QED BY <1>1 DEF ProgramOK, Word, Op

\* An address has a place in the cache.
LEMMA PlaceInCache == \A a \in Int : Place(a) \in 0 .. SETS * LINE - 1
<1>1. ASSUME NEW m \in Nat \ {0}, NEW n \in Nat \ {0} PROVE m * n \in Nat \ {0}
  OBVIOUS
<1>2. SETS * LINE \in Nat \ {0}
  BY <1>1, SizesAssumption
<1>3. ASSUME NEW a \in Int, NEW n \in Nat \ {0} PROVE a % n \in 0 .. n - 1
  OBVIOUS
<1> QED BY <1>2, <1>3 DEF Place

\* The cause of an exception is one of the pending ones, and no other pending one
\* comes before it.
LEMMA CauseIsPending ==
  ASSUME StageTypes, exception_pending # {}
  PROVE  /\ Cause \in exception_pending
         /\ Cause \in {"ibus", "illegal", "sys", "dbus", "pic", "tick"}
<1> DEFINE IsFirst(k) == /\ Priority[k] \in exception_pending
                         /\ \A j \in 1 .. k - 1 : Priority[j] \notin exception_pending
<1>1. exception_pending \subseteq {"ibus", "illegal", "sys", "dbus", "pic", "tick"}
  BY DEF StageTypes, exception_pending
<1>2. /\ DOMAIN Priority = 1 .. 6
      /\ Priority[1] = "ibus" /\ Priority[2] = "illegal" /\ Priority[3] = "sys"
      /\ Priority[4] = "dbus" /\ Priority[5] = "pic" /\ Priority[6] = "tick"
  BY DEF Priority
<1>3. \E k \in 1 .. 6 : IsFirst(k)
  <2> SUFFICES ASSUME \A k \in 1 .. 6 : ~IsFirst(k) PROVE FALSE
    OBVIOUS
  <2>1. Priority[1] \notin exception_pending
    BY <1>2
  <2>2. Priority[2] \notin exception_pending
    BY <2>1, <1>2
  <2>3. Priority[3] \notin exception_pending
    BY <2>1, <2>2, <1>2
  <2>4. Priority[4] \notin exception_pending
    BY <2>1, <2>2, <2>3, <1>2
  <2>5. Priority[5] \notin exception_pending
    BY <2>1, <2>2, <2>3, <2>4, <1>2
  <2>6. Priority[6] \notin exception_pending
    BY <2>1, <2>2, <2>3, <2>4, <2>5, <1>2
  <2> QED BY <2>1, <2>2, <2>3, <2>4, <2>5, <2>6, <1>1, <1>2
<1>4. Cause = Priority[CHOOSE k \in DOMAIN Priority : IsFirst(k)]
  BY DEF Cause
<1> QED BY <1>1, <1>2, <1>3, <1>4

\* What l.mtspr writes is a value of the register it writes to.
LEMMA SprWriteTyped ==
  ASSUME Typed
  PROVE  /\ SprWrite.spr \in {"SR", "ESR"} => SprWrite.val \in SrValues
         /\ SprWrite.spr = "EPCR" => SprWrite.val \in Int
         /\ Op(ctrl_insn) # "mtspr" => SprWrite.spr = "none"
<1>1. Op(ctrl_insn) = "mtspr" => ctrl_insn \in DOMAIN code
  BY DEF Op
<1> QED BY <1>1 DEF SprWrite, NoWrite, Typed, ProgramOK, IsInsn

LEMMA NextInLineTyped == \A a \in Int : NextInLine(a) \in Int
<1>1. ASSUME NEW a \in Int, NEW n \in Nat \ {0} PROVE a \div n \in Int /\ (a + 1) % n \in Int
  OBVIOUS
<1>2. ASSUME NEW a \in Int, NEW n \in Int, NEW b \in Int PROVE a * n + b \in Int
  OBVIOUS
<1> QED BY <1>1, <1>2, SizesAssumption DEF NextInLine, Line

LEMMA AddressStep == ASSUME Typed, NEW i, Cycle(i) PROVE AddressTypes'
<1>1. /\ FetchPc /\ InstructionBus(i.ibus = "ack", i.ibus = "err") /\ FetchDecode /\ ExecuteStage
      /\ ControlStage(i.flag) /\ ExceptionSequence /\ DelaySlots /\ SavedRegisters
  BY DEF Cycle
<1>2. \A w \in DOMAIN code : code[w].to \in Int
  BY DEF Typed, ProgramOK, IsInsn
<1>3. pc_addr \in Int
  BY <1>2 DEF pc_addr, ctrl_branch_except_pc, decode_branch, Brcond, Op, Typed, AddressTypes
<1>4. pc_fetch' \in Int
  BY <1>1, <1>3 DEF FetchPc, Typed, AddressTypes
<1>5. pc_decode' \in Int /\ pc_execute' \in Int /\ pc_ctrl' \in Int
  BY <1>1 DEF FetchDecode, ExecuteStage, ControlStage, Typed, AddressTypes
<1>6. exception_pc_addr' \in Int
  BY <1>1, CauseIsPending, VectorAssumption DEF ExceptionSequence, Typed, AddressTypes, exception
<1>7. last_branch_insn_pc' \in Int
  BY <1>1 DEF DelaySlots, Typed, AddressTypes
<1>8. epcr' \in Int
  BY <1>1, SprWriteTyped DEF SavedRegisters, Typed, AddressTypes, epcr_of_ctrl
<1>9. execute_mispredict_target' \in Int
  BY <1>1, <1>2 DEF ExecuteStage, Typed, AddressTypes, decode_mispredict_target, Op, Brcond
<1>10. ibus_adr' \in Int
  BY <1>1, NextInLineTyped DEF InstructionBus, Typed, AddressTypes, MachineTypes
<1> QED BY <1>4, <1>5, <1>6, <1>7, <1>8, <1>9, <1>10 DEF AddressTypes

LEMMA StatusStep == ASSUME Typed, NEW i, Cycle(i) PROVE StatusTypes'
<1>1. SavedRegisters
  BY DEF Cycle
<1>2. sr' \in SrValues
  BY <1>1, SprWriteTyped DEF SavedRegisters, NextSr, Typed, StatusTypes, SrValues, ctrl_flag
<1>3. esr' \in SrValues
  BY <1>1, SprWriteTyped DEF SavedRegisters, Typed, StatusTypes
<1> QED BY <1>2, <1>3 DEF StatusTypes

\* What is read from the bus or the cache is of the program, and so is what is
\* written to the cache.
LEMMA BusWordsStep == ASSUME Typed, NEW i, InputOK(i), Cycle(i) PROVE BusWords'
<1>1. /\ InstructionBus(i.ibus = "ack", i.ibus = "err") /\ Cache(i.ibus = "ack") /\ FetchPc
      /\ Word' = Word /\ code' = code
  BY ProgramStays DEF Cycle
<1>2. i.ibus = "ack" => ibus_adr \in DOMAIN code
  BY DEF InputOK, BusAnswers
<1>3. (ibus_ack => ibus_adr \in DOMAIN code)'
  BY <1>1, <1>2 DEF InstructionBus
<1>4. CASE ~cached
  BY <1>1, <1>3, <1>4 DEF Cache, ic_vars, Typed, BusWords
<1>5. CASE cached
  <2>1. Memories(pc_fetch, pc_fetch', ibus_adr, i.ibus = "ack")
    BY <1>1, <1>5 DEF Cache, IcCycle, FetchPc
  <2>2. pc_fetch' \in Int
    BY AddressStep DEF AddressTypes
  <2>3. (way_ram \in [0 .. SETS * LINE - 1 -> Word])'
    BY <2>1, <1>1, <1>2 DEF Memories, Typed, BusWords, Word
  <2>4. (way_dout \in Word)'
    BY <2>1, <2>2, <1>1, PlaceInCache DEF Memories, Typed, BusWords
  <2> QED BY <1>3, <2>3, <2>4 DEF BusWords
<1> QED BY <1>4, <1>5

LEMMA StageStep == ASSUME Typed, NEW i, InputOK(i), Cycle(i) PROVE StageTypes'
<1>1. /\ FetchDecode /\ ExecuteStage /\ ControlStage(i.flag) /\ Word' = Word
  BY ProgramStays DEF Cycle
<1>2. bus_access_done /\ ~imem_err => imem_dat \in Word
  BY DEF bus_access_done, imem_ack, imem_dat, Typed, BusWords, Word
<1>3. decode_insn' \in Word
  BY <1>1, <1>2 DEF FetchDecode, Typed, StageTypes, Word
<1>4. execute_insn' \in Word
  BY <1>1 DEF ExecuteStage, Typed, StageTypes, Word
<1>5. ctrl_insn' \in Word
  BY <1>1 DEF ControlStage, Typed, StageTypes, Word
<1>6. (execute_excepts \subseteq {"ibus", "illegal", "sys"})'
  BY <1>1 DEF ExecuteStage, Typed, StageTypes
<1>7. (ctrl_excepts \subseteq {"ibus", "illegal", "sys", "dbus"})'
  BY <1>1 DEF ControlStage, Typed, StageTypes
<1> QED BY <1>1, <1>3, <1>4, <1>5, <1>6, <1>7 DEF StageTypes

LEMMA MachineStep == ASSUME Typed, NEW i, Cycle(i) PROVE MachineTypes'
<1>1. (state \in {"IDLE", "READ", "IC_REFILL"})'
  BY DEF Cycle, InstructionBus, Typed, MachineTypes
<1>2. (ic_state \in {"IDLE", "READ", "REFILL"})'
  BY DEF Cycle, Cache, ic_vars, IcCycle, IcState, Typed, MachineTypes
<1>3. (lsu_state \in {"IDLE", "READ"})'
  BY DEF Cycle, LoadStoreUnit
<1> QED BY <1>1, <1>2, <1>3 DEF MachineTypes

LEMMA TypedStep == ASSUME Typed, [Next]_vars PROVE Typed'
<1>1. CASE Next
  <2>1. PICK i : InputOK(i) /\ Cycle(i)
    BY <1>1, NextCycle
  <2>2. ProgramOK'
    BY <2>1, ProgramStays DEF Typed
  <2> QED BY <2>1, <2>2, BusWordsStep, StageStep, MachineStep, AddressStep, StatusStep DEF Typed
<1>2. CASE UNCHANGED vars
  BY <1>2 DEF vars, fetch_vars, execute_vars, ctrl_vars, unit_vars, pic_vars, ic_vars,
              Typed, ProgramOK, BusWords, Word, StageTypes, MachineTypes, AddressTypes, StatusTypes
<1> QED BY <1>1, <1>2

\* Whatever the bus and the cache answer, the pipeline registers hold
\* instructions of the program or none, and every machine is in one of its states
\* (mor1kx_fetch_cappuccino.v:255-289, mor1kx_execute_ctrl_cappuccino.v:163-340).
THEOREM CoreTyped == Spec => []CoreTypeOK
<1>1. Spec => []Typed
  BY TypedInit, TypedStep, PTL DEF Spec
<1> QED BY <1>1, TypedImpliesTypeOK, PTL
-----------------------------------------------------------------------------
(***************************************************************************)
(* How exceptions, l.rfe and loads exclude one another.  The unit has one  *)
(* register, decode_execute_halt, for both an exception and l.rfe; that    *)
(* the halt comes with exactly one of them, that nothing is in the control *)
(* stage during it, and that a load is over before it, depend on each      *)
(* other and are one invariant, of seven parts.                            *)
(***************************************************************************)
Loading     == lsu_state = "READ"
Mem(w)      == Op(w) = "mem"
Raised      == exception_r /\ ~exception_taken
BusError    == "dbus" \in ctrl_excepts
WillAdvance == waiting_for_fetch /\ fetch_valid

\* The halt is that of an exception on its way to the handler or of l.rfe.
HaltInv ==
    /\ decode_execute_halt => Raised \/ doing_rfe_r
    /\ Raised => decode_execute_halt
    /\ doing_rfe_r => decode_execute_halt /\ ~exception_r
    /\ exception_taken => exception_r
    /\ exception_r => ~padv_ctrl

\* l.rfe comes to the control stage as a bubble, and stays there for one cycle.
RfeInv ==
    /\ execute_bubble => execute_insn = NOP
    /\ execute_rfe => execute_bubble
    /\ ctrl_rfe => ctrl_bubble /\ padv_ctrl /\ ctrl_insn = NOP
    /\ doing_rfe_r => ctrl_insn = NOP /\ ~padv_ctrl

\* A bubble in the execute stage is one for the instruction that decode holds.
BubbleInv ==
    /\ execute_bubble /\ exception_r => decode_valid
    /\ fetch_valid /\ exception_r => exception_taken \/ fetch_exception_taken
    /\ decode_valid /\ execute_bubble => fetch_valid /\ ~fetch_exception_taken

\* A load is in the control stage until it has its answer.
LoadInv ==
    /\ Loading => /\ Mem(ctrl_insn) /\ ~padv_ctrl /\ ~ctrl_stage_exceptions
                  /\ ~dbus_ack /\ ~access_done /\ ~except_dbus
    /\ except_dbus => ~dbus_ack /\ ~access_done
    /\ dbus_ack => Mem(ctrl_insn)
    /\ exception_r => ~Loading /\ ~Mem(ctrl_insn)

\* The two ways for the execute stage to catch up with a stall exclude the first.
WaitInv ==
    /\ decode_valid => ~execute_waiting_r /\ ~waiting_for_fetch
    /\ WillAdvance /\ Mem(ctrl_insn) => access_done

\* A bus error goes from the load store unit to the marks, and a cycle later to
\* the exception; the load has left the control stage by then.
BusErrorInv ==
    /\ BusError /\ Mem(ctrl_insn) => except_dbus
    /\ BusError /\ decode_valid => ctrl_stage_exceptions
    /\ except_dbus /\ ~Mem(ctrl_insn) => BusError /\ ctrl_stage_exceptions
    /\ doing_rfe_r => ~ctrl_stage_exceptions /\ ~BusError

\* l.rfe never reaches the control stage with a bus error still to be taken.
RfeErrorInv ==
    /\ ctrl_rfe /\ ~exception_r => ~ctrl_stage_exceptions /\ ~BusError
    /\ execute_rfe /\ BusError => ~exception_taken /\ ~WillAdvance
    /\ execute_rfe /\ execute_waiting_r => ctrl_stage_exceptions \/ ctrl_rfe \/ Mem(ctrl_insn)

Control == /\ HaltInv /\ RfeInv /\ BubbleInv /\ LoadInv
           /\ WaitInv /\ BusErrorInv /\ RfeErrorInv

\* NOP is no instruction of the program.
LEMMA NoInsn == Typed => Op(NOP) = "nop" /\ ~Mem(NOP)
BY DEF Typed, ProgramOK, Op, NOP, Mem

LEMMA MemStays == ASSUME NEW i, Cycle(i) PROVE \A w : Mem(w)' = Mem(w)
BY ProgramStays DEF Mem

\* What comes to the control stage, and that the mark of a bus error comes a cycle
\* after the error.
LEMMA CtrlInsn ==
  ASSUME Typed, Control, NEW i, Cycle(i)
  PROVE  /\ padv_execute /\ ~(BusError /\ Mem(execute_insn)) => ctrl_insn' = execute_insn
         /\ ~padv_execute /\ pipeline_flush => ctrl_insn' = NOP
         /\ ~padv_execute /\ ~pipeline_flush /\ ~(BusError /\ Mem(ctrl_insn))
                => ctrl_insn' = ctrl_insn
         /\ BusError => ~Mem(ctrl_insn')
         /\ BusError' <=> except_dbus /\ ~pipeline_flush
<1>1. ControlStage(i.flag)
  BY DEF Cycle
<1>2. ctrl_insn' = LET arrives == IF padv_execute THEN execute_insn
                                 ELSE IF pipeline_flush THEN NOP ELSE ctrl_insn
                  IN  IF BusError /\ Op(arrives) = "mem" THEN NOP ELSE arrives
  BY <1>1 DEF ControlStage, BusError
<1>3. BusError' <=> except_dbus /\ ~pipeline_flush
  BY <1>1 DEF ControlStage, Typed, StageTypes, BusError
<1> QED BY <1>2, <1>3, NoInsn DEF Mem

\* While a load is under way the stages wait, and nothing is flushed.
LEMMA LoadWires ==
  ASSUME Typed, Control
  PROVE  /\ Loading => execute_waiting /\ ~padv_execute /\ ~pipeline_flush /\ ~BusError
         /\ except_dbus /\ Mem(ctrl_insn) => execute_waiting
<1>1. Loading => execute_waiting
  BY DEF Loading, Control, LoadInv, execute_waiting, Mem, lsu_valid
<1>2. Loading => ~padv_execute
  BY <1>1 DEF Control, LoadInv, WaitInv, WillAdvance, padv_execute
<1>3. Loading => ~pipeline_flush
  BY DEF Control, LoadInv, Loading, pipeline_flush, exception_re, exception
<1>4. Loading => ~BusError
  BY DEF Control, LoadInv, BusErrorInv
<1> QED BY <1>1, <1>2, <1>3, <1>4 DEF Loading, Control, LoadInv, execute_waiting, Mem, lsu_valid

\* An exception or l.rfe that has begun lets no other one begin.
LEMMA ExceptionWires ==
  ASSUME Typed, Control
  PROVE  /\ Raised => ~padv_execute /\ ~pipeline_flush /\ ctrl_branch_exception /\ ~padv_decode
         /\ doing_rfe_r => ~exception /\ ~padv_execute
         /\ ctrl_rfe => ~exception /\ pipeline_flush /\ ~padv_execute /\ ~exception_r
         /\ exception /\ ~exception_r => exception_re /\ pipeline_flush /\ ~padv_execute
<1>1. ctrl_rfe => ~exception_r
  BY DEF Control, HaltInv, RfeInv
<1>2. ctrl_rfe => ~exception
  BY <1>1 DEF Control, RfeInv, RfeErrorInv, exception
<1>3. doing_rfe_r => ~exception
  BY DEF Control, RfeInv, BusErrorInv, exception
<1>4. Raised => ~padv_execute /\ ~pipeline_flush /\ ctrl_branch_exception /\ ~padv_decode
  BY DEF Raised, Control, HaltInv, RfeInv, padv_execute, padv_decode, pipeline_flush,
         exception_re, ctrl_branch_exception
<1> QED BY <1>1, <1>2, <1>3, <1>4
        DEF Control, RfeInv, HaltInv, pipeline_flush, exception_re, padv_execute

\* exception_r is set when the pipeline is flushed for an exception, which no load and
\* no instruction that goes on to the control stage survives.
LEMMA Sequence ==
  ASSUME Typed, Control, NEW i, Cycle(i)
  PROVE  exception_r' => ~padv_execute /\ (Raised \/ pipeline_flush) /\ (Raised => ~Mem(ctrl_insn))
<1>1. exception_r' = (~exception_taken /\ (exception_r \/ exception))
  BY DEF Cycle, ExceptionSequence
<1> QED BY <1>1, ExceptionWires DEF Raised, Control, LoadInv

\* A failed load waits for its mark; with the mark the exception is there.
LEMMA ErrorWires ==
  ASSUME Typed, Control
  PROVE  /\ except_dbus /\ Mem(ctrl_insn) => execute_waiting /\ ~padv_execute
         /\ BusError /\ ctrl_stage_exceptions => exception
<1>1. BusError => exception_pending # {}
  BY DEF BusError, exception_pending
<1> QED BY <1>1, LoadWires DEF exception, Control, LoadInv, WaitInv, padv_execute, WillAdvance

\* Each part of the invariant is preserved.
LEMMA LoadStep ==
  ASSUME Typed, Control, NEW i, InputOK(i), Cycle(i)
  PROVE  LoadInv'
<1>1. LoadStoreUnit(i.dbus = "ack", i.dbus = "err") /\ Advance /\ ctrl_stage_exceptions' = BusError
  BY DEF Cycle, ExceptionSequence, BusError
<1>2. ~Loading => i.dbus = "none"
  BY DEF InputOK, DataAnswers, Typed, MachineTypes, Loading
<1>3. dbus_ack' => Loading
  BY <1>1, <1>2 DEF LoadStoreUnit
<1>4. Loading' => Mem(ctrl_insn) /\ ~BusError /\ ~padv_execute /\ ~pipeline_flush
  BY <1>1, LoadWires DEF LoadStoreUnit, Loading, Typed, MachineTypes, Control, LoadInv,
     BusErrorInv, Mem, WaitInv, WillAdvance, padv_execute, execute_waiting, lsu_valid
<1>5. Loading' => Mem(ctrl_insn')
  BY <1>4, CtrlInsn
<1>6. dbus_ack' => Mem(ctrl_insn')
  BY <1>3, LoadWires, CtrlInsn DEF Control, LoadInv
<1>7. Loading' => ~dbus_ack' /\ ~access_done' /\ ~except_dbus'
  BY <1>1, <1>2 DEF LoadStoreUnit, Loading, Typed, MachineTypes, Control, LoadInv
<1>8. except_dbus' => ~dbus_ack' /\ ~access_done'
  BY <1>1, <1>2 DEF LoadStoreUnit, Loading, Typed, MachineTypes, Control, LoadInv, InputOK, DataAnswers
<1>9. exception_r' => ~Loading' /\ ~Mem(ctrl_insn')
  BY <1>4, Sequence, CtrlInsn, NoInsn DEF Control, LoadInv
<1> QED BY <1>1, <1>3, <1>4, <1>5, <1>6, <1>7, <1>8, <1>9, MemStays
        DEF LoadInv, Loading, BusError, Advance

LEMMA HaltStep ==
  ASSUME Typed, Control, NEW i, Cycle(i)
  PROVE  HaltInv'
<1>1. ExceptionSequence /\ padv_ctrl' = padv_execute
  BY DEF Cycle, Advance
<1>3. (decode_execute_halt => Raised \/ doing_rfe_r)'
  BY <1>1, ExceptionWires DEF ExceptionSequence, Raised, Halt, Control, HaltInv, RfeInv
<1>4. (Raised => decode_execute_halt)'
  BY <1>1, ExceptionWires DEF ExceptionSequence, Raised, Halt, Control, HaltInv, RfeInv
<1>5. (doing_rfe_r => decode_execute_halt /\ ~exception_r)'
  BY <1>1, ExceptionWires DEF ExceptionSequence, Raised, Halt, Control, HaltInv, RfeInv
<1>6. (exception_taken => exception_r)'
  BY <1>1 DEF ExceptionSequence
<1>7. (exception_r => ~padv_ctrl)'
  BY <1>1, Sequence
<1> QED BY <1>3, <1>4, <1>5, <1>6, <1>7 DEF HaltInv

LEMMA RfeStep ==
  ASSUME Typed, Control, NEW i, Cycle(i)
  PROVE  RfeInv'
<1>1. ExecuteStage /\ ControlStage(i.flag) /\ padv_ctrl' = padv_execute /\ ExceptionSequence
  BY DEF Cycle, Advance
<1>2. (execute_bubble => execute_insn = NOP)'
  BY <1>1 DEF ExecuteStage, Control, RfeInv
<1>3. (execute_rfe => execute_bubble)'
  BY <1>1 DEF ExecuteStage, Control, RfeInv, decode_bubble
<1>4. ctrl_rfe' => padv_execute /\ execute_rfe
  BY <1>1 DEF ControlStage, Control, RfeInv, pipeline_flush
<1>5. (ctrl_rfe => ctrl_bubble /\ padv_ctrl /\ ctrl_insn = NOP)'
  BY <1>4, <1>1, CtrlInsn, NoInsn DEF ControlStage, Control, RfeInv
<1>6. (doing_rfe_r => ctrl_insn = NOP /\ ~padv_ctrl)'
  BY <1>1, ExceptionWires, CtrlInsn, NoInsn DEF ExceptionSequence, Control, RfeInv, HaltInv
<1> QED BY <1>2, <1>3, <1>5, <1>6 DEF RfeInv

LEMMA BubbleStep ==
  ASSUME Typed, Control, NEW i, Cycle(i)
  PROVE  BubbleInv'
<1>1. ExecuteStage /\ FetchPc /\ FetchDecode /\ ExceptionSequence
  BY DEF Cycle
<1>2. (decode_valid /\ execute_bubble => fetch_valid /\ ~fetch_exception_taken)'
  BY <1>1 DEF ExecuteStage, FetchDecode, FetchPc, decode_bubble, padv_fetch, padv_decode
<1>3. ASSUME exception_r', ~pipeline_flush PROVE Raised /\ ctrl_branch_exception /\ ~padv_decode
  BY <1>1, <1>3, ExceptionWires, Sequence DEF Control, HaltInv, padv_decode
<1>4. (execute_bubble /\ exception_r => decode_valid)'
  BY <1>1, <1>3 DEF ExecuteStage, Control, BubbleInv, Raised
<1>5. (fetch_valid /\ exception_r => exception_taken \/ fetch_exception_taken)'
  BY <1>1, <1>3 DEF FetchDecode, FetchPc, ExceptionSequence, Control, BubbleInv, Raised
<1> QED BY <1>2, <1>4, <1>5 DEF BubbleInv

LEMMA WaitStep ==
  ASSUME Typed, Control, NEW i, Cycle(i)
  PROVE  WaitInv'
<1>1. Advance /\ ExecuteStage /\ FetchDecode /\ LoadStoreUnit(i.dbus = "ack", i.dbus = "err")
  BY DEF Cycle
<1>2. (decode_valid => ~execute_waiting_r /\ ~waiting_for_fetch)'
  BY <1>1 DEF ExecuteStage, Advance, padv_decode
<1>3. ASSUME waiting_for_fetch', fetch_valid' PROVE ~padv_execute /\ ~execute_waiting
  BY <1>1, <1>3 DEF Advance, FetchDecode, padv_fetch, padv_execute, Control, WaitInv
<1>4. ASSUME WillAdvance', Mem(ctrl_insn') PROVE access_done'
  BY <1>1, <1>3, <1>4, CtrlInsn, NoInsn
     DEF LoadStoreUnit, execute_waiting, lsu_valid, WillAdvance, Mem
<1> QED BY <1>2, <1>4, MemStays DEF WaitInv

LEMMA BusErrorStep ==
  ASSUME Typed, Control, NEW i, InputOK(i), Cycle(i)
  PROVE  BusErrorInv'
<1>1. /\ ExecuteStage /\ LoadStoreUnit(i.dbus = "ack", i.dbus = "err")
      /\ ctrl_stage_exceptions' = BusError
      /\ doing_rfe_r' = IF fetch_exception_taken /\ doing_rfe_r THEN FALSE
                         ELSE IF padv_ctrl THEN ctrl_rfe ELSE doing_rfe_r
  BY DEF Cycle, ExceptionSequence, BusError
<1>2. BusError' <=> except_dbus /\ ~pipeline_flush
  BY CtrlInsn
<1>3. (BusError /\ Mem(ctrl_insn) => except_dbus)'
  BY <1>1, <1>2, ErrorWires, CtrlInsn, MemStays DEF LoadStoreUnit, Control, BusErrorInv
<1>4. (BusError /\ decode_valid => ctrl_stage_exceptions)'
  BY <1>1, <1>2, ErrorWires DEF ExecuteStage, padv_decode, Control, BusErrorInv
<1>5. i.dbus = "err" => Loading
  BY DEF InputOK, DataAnswers, Typed, MachineTypes, Loading
<1>6. (except_dbus /\ ~Mem(ctrl_insn) => BusError /\ ctrl_stage_exceptions)'
  BY <1>1, <1>2, <1>5, LoadWires, CtrlInsn, MemStays
     DEF LoadStoreUnit, Control, BusErrorInv, LoadInv
<1>7. (doing_rfe_r => ~ctrl_stage_exceptions /\ ~BusError)'
  BY <1>1, <1>2, ExceptionWires, NoInsn
     DEF Control, RfeInv, BusErrorInv, RfeErrorInv, HaltInv
<1> QED BY <1>3, <1>4, <1>6, <1>7 DEF BusErrorInv

LEMMA RfeErrorStep ==
  ASSUME Typed, Control, NEW i, InputOK(i), Cycle(i)
  PROVE  RfeErrorInv'
<1>1. /\ ExecuteStage /\ FetchDecode /\ FetchPc /\ Advance /\ ExceptionSequence
      /\ ctrl_stage_exceptions' <=> BusError
      /\ ctrl_rfe' => padv_execute /\ execute_rfe
      /\ padv_execute /\ execute_rfe => ctrl_rfe'
  BY DEF Cycle, ExceptionSequence, BusError, ControlStage, Control, RfeInv, pipeline_flush
<1>2. BusError' <=> except_dbus /\ ~pipeline_flush
  BY CtrlInsn
<1>3. ASSUME execute_rfe, padv_execute, BusError PROVE exception_r'
  BY <1>1, <1>3, ErrorWires
     DEF ExceptionSequence, padv_execute, Control, RfeErrorInv, BusErrorInv, WillAdvance
<1>4. (ctrl_rfe /\ ~exception_r => ~ctrl_stage_exceptions /\ ~BusError)'
  BY <1>1, <1>2, <1>3, ErrorWires DEF Control, BusErrorInv
<1>5. (execute_rfe /\ BusError => ~exception_taken)'
  BY <1>1, <1>2, ExceptionWires
     DEF ExceptionSequence, ExecuteStage, Control, HaltInv, RfeInv, BubbleInv, Raised, padv_decode
<1>6. ASSUME execute_rfe', BusError', waiting_for_fetch', fetch_valid' PROVE FALSE
   <2>1. execute_rfe /\ except_dbus /\ ~pipeline_flush /\ ~execute_waiting /\ ~fetch_valid
    BY <1>1, <1>2, <1>6 DEF Advance, FetchDecode, padv_fetch, ExecuteStage, padv_decode
   <2>2. BusError /\ ctrl_stage_exceptions
    BY <2>1, ErrorWires DEF Control, BusErrorInv
   <2>3. exception_r /\ ~exception_taken
    BY <2>1, <2>2, ErrorWires, ExceptionWires DEF Control, RfeErrorInv
   <2> QED BY <2>1, <2>3 DEF Control, RfeInv, BubbleInv
<1>7. (execute_rfe /\ execute_waiting_r => ctrl_stage_exceptions \/ ctrl_rfe \/ Mem(ctrl_insn))'
   <2>1. execute_waiting => Mem(ctrl_insn) /\ ~padv_decode
    BY DEF execute_waiting, Mem, padv_decode
   <2>2. ASSUME execute_rfe', execute_waiting_r'
         PROVE  execute_waiting /\ ~pipeline_flush /\ execute_rfe
    BY <1>1, <2>1, <2>2 DEF Advance, ExecuteStage
   <2>3. ASSUME execute_rfe', execute_waiting_r', ~BusError, ~padv_execute
         PROVE  Mem(ctrl_insn)'
    BY <2>1, <2>2, <2>3, CtrlInsn, MemStays
   <2> QED BY <1>1, <2>2, <2>3
<1> QED BY <1>4, <1>5, <1>6, <1>7 DEF RfeErrorInv, WillAdvance

LEMMA ControlInit == Init => Control
<1> SUFFICES ASSUME Init PROVE Control
  OBVIOUS
<1>1. ctrl_insn = NOP /\ execute_insn = NOP /\ Typed
  BY TypedInit DEF Init
<1> QED BY <1>1, NoInsn DEF Init, Control, HaltInv, RfeInv, BubbleInv, LoadInv, WaitInv,
             BusErrorInv, RfeErrorInv, Loading, Raised, BusError, WillAdvance

LEMMA ControlStep == ASSUME Typed, Control, [Next]_vars PROVE Control'
<1>1. CASE Next
  <2>1. PICK i : InputOK(i) /\ Cycle(i)
    BY <1>1, NextCycle
  <2> QED BY <2>1, HaltStep, RfeStep, BubbleStep, LoadStep, WaitStep, BusErrorStep, RfeErrorStep
          DEF Control
<1>2. CASE UNCHANGED vars
  BY <1>2 DEF vars, fetch_vars, execute_vars, ctrl_vars, unit_vars, Control, HaltInv, RfeInv,
              BubbleInv, LoadInv, WaitInv, BusErrorInv, RfeErrorInv, Loading, Raised, BusError,
              WillAdvance, Mem, Op
<1> QED BY <1>1, <1>2

LEMMA ControlAlways == Spec => [](Typed /\ Control)
<1>1. Init => Typed /\ Control
  BY TypedInit, ControlInit
<1>2. Typed /\ Control /\ [Next]_vars => (Typed /\ Control)'
  BY TypedStep, ControlStep
<1> QED BY <1>1, <1>2, PTL DEF Spec
-----------------------------------------------------------------------------
(***************************************************************************)
(* The fetch stage has taken the redirection: where to is kept in epcr by  *)
(* l.rfe, which lets no l.mtspr be in the control stage, and in            *)
(* exception_pc_addr by the exception, which lets no other one begin.      *)
(***************************************************************************)
RedirectInv ==
    fetch_exception_taken => pc_fetch = IF exception_r THEN exception_pc_addr ELSE epcr

LEMMA RedirectStep == ASSUME Typed, Control, NEW i, Cycle(i) PROVE RedirectInv'
<1> SUFFICES ASSUME fetch_exception_taken'
             PROVE  pc_fetch' = IF exception_r' THEN exception_pc_addr' ELSE epcr'
  BY DEF RedirectInv
<1>1. FetchPc /\ ExceptionSequence /\ SavedRegisters
  BY DEF Cycle
<1>2. ~fetch_exception_taken /\ ctrl_branch_exception /\ pc_fetch' = ctrl_branch_except_pc
  BY <1>1 DEF FetchPc, addr_valid, pc_addr
<1>3. ~exception_taken /\ (exception_r \/ ctrl_rfe \/ doing_rfe)
  BY <1>2 DEF ctrl_branch_exception
<1>4. CASE exception_r
  <2>1. ~ctrl_rfe /\ ~doing_rfe
    BY <1>4, ExceptionWires DEF doing_rfe, Control, HaltInv
  <2>2. exception_r' /\ exception_pc_addr' = exception_pc_addr
    BY <1>1, <1>3, <1>4 DEF ExceptionSequence
  <2> QED BY <1>2, <2>1, <2>2 DEF ctrl_branch_except_pc
<1>5. CASE ~exception_r
  <2>1. (ctrl_rfe \/ doing_rfe) /\ ~exception /\ ctrl_insn = NOP
    BY <1>3, <1>5, ExceptionWires DEF doing_rfe, Control, RfeInv
  <2>2. ~exception_r'
    BY <1>1, <1>5, <2>1 DEF ExceptionSequence
  <2>3. SprWrite.spr = "none"
    BY <2>1, NoInsn, SprWriteTyped
  <2>4. epcr' = epcr
    BY <1>1, <2>1, <2>3 DEF SavedRegisters, exception_re
  <2> QED BY <1>2, <2>1, <2>2, <2>4 DEF ctrl_branch_except_pc
<1> QED BY <1>4, <1>5

LEMMA RedirectAlways == Spec => [](Typed /\ Control /\ RedirectInv)
<1>1. Init => RedirectInv
  BY DEF Init, RedirectInv
<1>2. Typed /\ Control /\ RedirectInv /\ [Next]_vars => RedirectInv'
  <2> SUFFICES ASSUME Typed, Control, RedirectInv, [Next]_vars PROVE RedirectInv'
    OBVIOUS
  <2>1. CASE Next
    BY <2>1, NextCycle, RedirectStep
  <2>2. CASE UNCHANGED vars
    BY <2>2 DEF vars, fetch_vars, unit_vars, RedirectInv
  <2> QED BY <2>1, <2>2
<1> QED BY <1>1, <1>2, ControlAlways, PTL DEF Spec

\* No exception is begun, and nothing takes effect, while another one is on its
\* way to its handler or l.rfe to where it returns, and the fetch stage goes
\* there (mor1kx_ctrl_cappuccino.v:345-368, 501-571).
THEOREM NothingComesBetween == Spec => []NothingBetween
<1>1. Typed /\ Control /\ RedirectInv => NothingBetween
  <2> SUFFICES ASSUME Typed, Control, RedirectInv PROVE NothingBetween
    OBVIOUS
  <2>1. ~(exception_r /\ doing_rfe_r)
    BY DEF Control, HaltInv
  <2>2. (exception_r /\ ~exception_taken) \/ doing_rfe_r => ~Commits
    BY NoInsn DEF Control, HaltInv, RfeInv, LoadInv, Commits, Mem
  <2>3. lsu_state = "READ" => ~exception_re
    BY DEF Control, LoadInv, Loading, exception_re, exception
  <2>4. dbus_ack => Op(ctrl_insn) = "mem"
    BY DEF Control, LoadInv, Mem
  <2> QED BY <2>1, <2>2, <2>3, <2>4 DEF NothingBetween, RedirectInv
<1> QED BY <1>1, RedirectAlways, PTL
-----------------------------------------------------------------------------
(***************************************************************************)
(* An interrupt is taken once.  What keeps it from being lost is that its  *)
(* line stays high, or its edge is kept, while it is owed; what keeps it   *)
(* from being taken twice is that interrupts are disabled while the line   *)
(* or the status of one that was taken is still there.                     *)
(***************************************************************************)
OwedInv ==
    /\ owed \in {0, 1}
    /\ owed = 1 => irq # {} /\ (trigger = "EDGE" => picsr_r # {} \/ irq \ irq_unmasked_r # {})
    /\ owed = 0 /\ (irq # {} \/ spr_picsr # {}) => ~sr.iee

LEMMA OwedImpliesOnce == ProgramOK /\ OwedInv => InterruptOnce
BY DEF ProgramOK, OwedInv, InterruptOnce, spr_picsr

\* An interrupt is raised only when its line is low, and taken only when one is owed.
LEMMA OwedWires ==
  ASSUME Typed, OwedInv, NEW i, InputOK(i)
  PROVE  /\ i.raise # {} => irq = {} /\ owed = 0
         /\ exception_re /\ Cause = "pic" => owed = 1
<1>1. i.raise # {} => irq = {}
  BY DEF InputOK, Raises
<1>2. ASSUME exception_re, Cause = "pic" PROVE spr_picsr # {} /\ sr.iee
  <2>1. "pic" \in exception_pending
    BY <1>2, CauseIsPending DEF exception_re, exception, Typed
  <2> QED BY <2>1 DEF exception_pending, except_pic, except_ticktimer, Typed, StageTypes
<1> QED BY <1>1, <1>2 DEF OwedInv

LEMMA OwedStep ==
  ASSUME Typed, Control, OwedInv, HandlerOrder, NEW i, InputOK(i), Cycle(i)
  PROVE  OwedInv'
<1>1. /\ Environment(i) /\ PicCycle(SprWrite) /\ sr' = NextSr /\ trigger' = trigger
      /\ owed' = owed + (IF i.raise # {} THEN 1 ELSE 0)
                      - (IF exception_re /\ Cause = "pic" THEN 1 ELSE 0)
  BY DEF Cycle, History, SavedRegisters, PicCycle
<1>2. owed' = IF i.raise # {} THEN 1 ELSE IF exception_re /\ Cause = "pic" THEN 0 ELSE owed
  BY <1>1, OwedWires DEF OwedInv
<1>3. i.dbus = "ack" /\ code[ctrl_insn].device => owed = 0 /\ irq # {}
  BY DEF InputOK, DataAnswers, Typed, MachineTypes, HandlerOrder
<1>4. (owed \in {0, 1})'
  BY <1>2 DEF OwedInv
<1>5. ASSUME owed' = 1 PROVE irq' # {}
  BY <1>1, <1>2, <1>3, <1>5, OwedWires DEF Environment, OwedInv
<1>6. ASSUME owed' = 1, trigger = "EDGE" PROVE picsr_r' # {} \/ irq' \ irq_unmasked_r' # {}
  <2>1. picsr_r' = (picsr_r \ (IF SprWrite.spr = "PICSR" THEN SprWrite.val ELSE {}))
                    \cup ((spr_picmr \cap irq) \ irq_unmasked_r)
    BY <1>1, <1>6 DEF PicCycle, PicStatus, irq_unmasked_edge, irq_unmasked
  <2>2. irq_unmasked_r' = spr_picmr \cap irq /\ irq \subseteq irq'
    BY <1>1, <1>2, <1>3, <1>6, OwedWires DEF PicCycle, LastLevel, irq_unmasked, Environment, OwedInv
  <2>3. CASE i.raise # {}
    BY <2>2, <2>3, <1>5, <1>6, OwedWires
  <2>4. CASE i.raise = {}
    <3>1. owed = 1 /\ SprWrite.spr # "PICSR"
      BY <2>4, <1>2, <1>6 DEF OwedInv, HandlerOrder
    <3>2. picsr_r # {} \/ irq \ irq_unmasked_r # {}
      BY <3>1, <1>6 DEF OwedInv
    <3> QED BY <3>1, <3>2, <2>1, <2>2
  <2> QED BY <2>3, <2>4
<1>7. ASSUME owed' = 0, sr'.iee PROVE irq' = {} /\ spr_picsr' = {}
  <2>1. ~exception_re
    BY <1>1, <1>7 DEF NextSr, Typed, StatusTypes, SrValues
  <2>2. owed = 0 /\ i.raise = {}
    BY <2>1, <1>2, <1>7
  <2>3. irq = {} /\ spr_picsr = {}
    <3>1. CASE sr.iee
      BY <3>1, <2>2 DEF OwedInv
    <3>2. CASE ~sr.iee
      <4>1. /\ padv_ctrl
            /\ (SprWrite.spr = "SR" /\ SprWrite.val.iee) \/ (ctrl_rfe /\ esr.iee)
        BY <3>2, <2>1, <1>1, <1>7 DEF NextSr, Typed, StatusTypes, SrValues
      <4> QED BY <4>1, <3>2, <2>2 DEF HandlerOrder
    <3> QED BY <3>1, <3>2
  <2>4. SprWrite.spr # "PICSR"
    <3> SUFFICES ASSUME SprWrite.spr = "PICSR" PROVE FALSE
      OBVIOUS
    <3>1. ~sr.iee
      BY DEF HandlerOrder
    <3>2. ~ctrl_rfe
      BY NoInsn, SprWriteTyped DEF Control, RfeInv
    <3> QED BY <3>1, <3>2, <2>1, <1>1, <1>7 DEF NextSr, Typed, StatusTypes, SrValues
  <2>5. irq' = {}
    BY <2>2, <2>3, <1>1 DEF Environment
  <2>6. spr_picsr' = {}
    BY <2>3, <2>4, <2>5, <1>1 DEF spr_picsr, irq_unmasked, irq_unmasked_edge, PicCycle, PicStatus
  <2> QED BY <2>5, <2>6
<1> QED BY <1>1, <1>4, <1>5, <1>6, <1>7 DEF OwedInv

\* An interrupt that is raised is taken, and taken once, by a program whose handler
\* keeps to the order that HandlerOrder states, in each of the three builds of the
\* controller, whatever is masked and whenever the pipeline is flushed
\* (mor1kx_pic.v:67-127, mor1kx_ctrl_cappuccino.v:1105).
THEOREM TakenOnce == Spec /\ []HandlerOrder => []InterruptOnce
<1>1. Init => OwedInv
  BY DEF Init, PicInit, OwedInv, spr_picsr, irq_unmasked
<1>2. Typed /\ Control /\ OwedInv /\ HandlerOrder /\ [Next]_vars => OwedInv'
  <2> SUFFICES ASSUME Typed, Control, OwedInv, HandlerOrder, [Next]_vars PROVE OwedInv'
    OBVIOUS
  <2>1. CASE Next
    BY <2>1, NextCycle, OwedStep
  <2>2. CASE UNCHANGED vars
    BY <2>2 DEF vars, unit_vars, history_vars, pic_vars, OwedInv, spr_picsr, irq_unmasked
  <2> QED BY <2>1, <2>2
<1>3. Typed /\ OwedInv => InterruptOnce
  BY OwedImpliesOnce DEF Typed
<1> QED BY <1>1, <1>2, <1>3, ControlAlways, PTL DEF Spec
-----------------------------------------------------------------------------
(***************************************************************************)
(* An instruction goes with its own address: without the instruction       *)
(* cache.  The word on the bus is that of pc_fetch or will be dropped; it  *)
(* is enough for this that the fetch stage never goes on to another        *)
(* address while a read is under way, except to the target of a            *)
(* mispredicted branch when it is that which is being read.                *)
(***************************************************************************)
\* The bus machine answers in its idle state, and has only one kind of request.
BusInv ==
    /\ ibus_ack \/ imem_err => state = "IDLE"
    /\ ibus_req <=> state = "READ"
    /\ state # "IC_REFILL"

\* While decode holds an instruction the bus is not used: the stages behind never
\* wait for the fetch stage.
FetchedInv ==
    /\ fetch_valid => state = "IDLE" /\ ~ibus_ack /\ ~imem_err /\ ~nop_ack
    /\ decode_valid => ~ibus_ack /\ ~imem_err /\ (nop_ack => state = "READ")
    /\ decode_valid /\ fetch_valid => execute_bubble /\ execute_insn = NOP
    /\ decode_valid => ~execute_waiting
    /\ ~execute_waiting_r /\ ~waiting_for_fetch
    /\ execute_waiting => Mem(execute_insn) /\ ~fetch_valid

\* What is being read is the word of pc_fetch, or it is dropped.
ReadInv ==
    /\ state = "READ" \/ ibus_ack => ibus_adr = pc_fetch \/ flush
    /\ flush => decode_insn = NOP
    /\ Raised /\ ~fetch_exception_taken /\ (state = "READ" \/ ibus_ack) => flush
    /\ doing_rfe_r => /\ flush \/ fetch_exception_taken
                      /\ decode_insn = NOP /\ ctrl_branch_exception_r
    /\ decode_insn # NOP => decode_insn = pc_decode

\* A nop stands in for the delay slot only when the target is already on the bus.
MispredictInv ==
    /\ nop_ack /\ state = "READ" =>
           /\ fetching_mispredicted_branch /\ ibus_adr = pc_fetch
           /\ execute_mispredict_target = pc_fetch
           /\ ~ctrl_branch_exception /\ padv_fetch /\ ~padv_ctrl
           /\ ~ctrl_stage_exceptions /\ ~BusError /\ ~except_dbus
    /\ fetching_mispredicted_branch => nop_ack /\ state = "READ"
    /\ fetching_brcond /\ branch_mispredict /\ ~fetching_mispredicted_branch
           => execute_mispredict_target = pc_fetch

\* A branch and its delay slot follow each other through decode and execute.
SlotInv ==
    /\ fetching_brcond /\ fetch_valid => ~padv_ctrl
    /\ fetching_brcond \/ fetching_mispredicted_branch
           => Op(decode_insn) \notin Branches \cup {"rfe"}
    /\ Op(decode_insn) \in Branches => pc_fetch = pc_decode + 1
    /\ Op(execute_insn) \in Brcond /\ ~fetch_valid => Op(decode_insn) \in Brcond
    /\ padv_ctrl /\ ~decode_valid => ctrl_insn = execute_insn

\* The execute stage is empty, but for l.mtspr, when the fetch stage is redirected.
DrainInv ==
    /\ execute_rfe \/ ctrl_rfe => Op(decode_insn) = "rfe" /\ fetch_valid
    /\ exception_r \/ doing_rfe_r => execute_insn = NOP \/ Op(execute_insn) = "mtspr"
    /\ exception_r => ~BusError /\ ~except_dbus
    /\ BusError /\ ~ctrl_stage_exceptions => execute_waiting
    /\ BusError \/ ctrl_stage_exceptions \/ except_dbus => ~fetch_valid

Uncached == BusInv /\ FetchedInv /\ ReadInv /\ MispredictInv /\ SlotInv /\ DrainInv

LEMMA UncachedInit == Init => Uncached
<1> SUFFICES ASSUME Init PROVE Uncached
  OBVIOUS
<1>1. /\ ctrl_insn = NOP /\ execute_insn = NOP /\ decode_insn = NOP /\ Typed
  BY TypedInit DEF Init
<1> QED BY <1>1, NoInsn DEF Init, Uncached, BusInv, FetchedInv, ReadInv, MispredictInv, SlotInv,
             DrainInv, Raised, BusError, Mem, Branches, Brcond, execute_waiting

\* A branch that was mispredicted while its delay slot was fetched: the slot is in
\* decode, and nothing else is under way.
Mispredicted == branch_mispredict /\ fetching_brcond

LEMMA UncachedWires ==
  ASSUME Typed, Control, Uncached
  PROVE  /\ padv_execute => decode_valid /\ ~execute_waiting /\ ~ctrl_rfe /\ ~exception_re
         /\ execute_waiting => ~padv_fetch /\ ~padv_decode
         /\ Op(execute_insn) \in Brcond => ~exception_r /\ ~doing_rfe_r /\ ~decode_execute_halt
         /\ exception_r \/ doing_rfe_r => ~padv_decode \/ exception_taken
         /\ decode_insn # NOP => ~doing_rfe_r
         /\ Mispredicted => /\ fetch_valid /\ padv_decode /\ ~decode_valid /\ ~padv_ctrl
                            /\ ~exception /\ ~ctrl_branch_exception /\ ~doing_rfe
                            /\ ~BusError /\ ~except_dbus /\ ~ctrl_stage_exceptions
<1>1. padv_execute => decode_valid /\ ~execute_waiting /\ ~ctrl_rfe /\ ~exception_re
  BY DEF padv_execute, Uncached, FetchedInv
<1>2. execute_waiting => ~padv_fetch /\ ~padv_decode
  BY DEF padv_fetch, padv_decode
<1>3. Op(execute_insn) \in Brcond => ~exception_r /\ ~doing_rfe_r /\ ~decode_execute_halt
  BY NoInsn DEF Uncached, DrainInv, Control, HaltInv, Raised, Brcond
<1>4. exception_r \/ doing_rfe_r => ~padv_decode \/ exception_taken
  BY DEF padv_decode, Control, HaltInv, Raised
<1>5. decode_insn # NOP => ~doing_rfe_r
  BY DEF Uncached, ReadInv
<1>6. ASSUME Mispredicted
      PROVE  /\ fetch_valid /\ padv_decode /\ ~decode_valid /\ ~padv_ctrl
             /\ ~exception /\ ~ctrl_branch_exception /\ ~doing_rfe
             /\ ~BusError /\ ~except_dbus /\ ~ctrl_stage_exceptions
  <2>1. Op(execute_insn) \in Brcond /\ fetching_brcond /\ execute_insn # NOP
    BY <1>6, NoInsn DEF Mispredicted, branch_mispredict, Brcond
  <2>2. fetch_valid /\ Op(decode_insn) # "rfe"
    BY <2>1 DEF Uncached, SlotInv, Branches
  <2>3. ~execute_waiting
    BY <2>2 DEF Uncached, FetchedInv
  <2>4. padv_decode /\ ~decode_valid /\ ~padv_ctrl
    BY <2>1, <2>2, <2>3, <1>3 DEF padv_decode, Uncached, FetchedInv, SlotInv
  <2>5. ~BusError /\ ~except_dbus /\ ~ctrl_stage_exceptions
    BY <2>2 DEF Uncached, DrainInv
  <2>6. ~exception /\ ~ctrl_rfe /\ ~exception_r /\ ~doing_rfe
    BY <2>1, <2>2, <2>4, <2>5, <1>3 DEF exception, doing_rfe, Uncached, DrainInv
  <2> QED BY <2>2, <2>4, <2>5, <2>6 DEF ctrl_branch_exception
<1> QED BY <1>1, <1>2, <1>3, <1>4, <1>5, <1>6

LEMMA BusStep == ASSUME Typed, Uncached, ~cached, NEW i, InputOK(i), Cycle(i) PROVE BusInv'
<1>1. /\ InstructionBus(i.ibus = "ack", i.ibus = "err")
      /\ i.ibus # "none" => state = "READ"
  BY DEF Cycle, InputOK, BusAnswers, Uncached, BusInv
<1>2. ~StartsBurst
  BY DEF StartsBurst
<1> QED BY <1>1, <1>2 DEF InstructionBus, Uncached, BusInv, Typed, MachineTypes

\* When a nop stands in while a read begins, a branch has just been mispredicted.
LEMMA NopWithRead ==
  ASSUME Typed, Control, Uncached, ~cached, NEW i, InputOK(i), Cycle(i),
         nop_ack', state' = "READ"
  PROVE  /\ Mispredicted /\ padv_fetch /\ ~bus_access_done /\ state = "IDLE"
         /\ ibus_adr' = pc_fetch /\ pc_fetch' = pc_fetch
<1>1. InstructionBus(i.ibus = "ack", i.ibus = "err") /\ NopAck /\ FetchPc
  BY DEF Cycle
<1>2. /\ padv_fetch /\ ~bus_access_done /\ state = "IDLE"
      /\ ctrl_branch_exception_edge \/ mispredict_stall
  BY <1>1 DEF NopAck, Uncached, BusInv, Typed, MachineTypes
<1>3. ibus_adr' = pc_fetch /\ (~ctrl_branch_exception \/ doing_rfe)
  BY <1>1, <1>2 DEF InstructionBus, StartsBurst
<1>4. ~fetching_mispredicted_branch
  BY <1>2 DEF bus_access_done, Uncached, MispredictInv
<1>5. ~(padv_ctrl /\ ctrl_rfe)
  <2> SUFFICES ASSUME padv_ctrl, ctrl_rfe PROVE FALSE
    OBVIOUS
  <2>1. fetch_valid /\ Op(decode_insn) = "rfe" /\ ~execute_waiting /\ ~decode_execute_halt
    BY NoInsn DEF Uncached, DrainInv, execute_waiting, Mem, Control, HaltInv, RfeInv, Raised
  <2> QED BY <1>2, <2>1 DEF padv_fetch, decode_bubble, padv_decode
<1>6. Mispredicted
  BY <1>2, <1>3, <1>4, <1>5, UncachedWires
     DEF ctrl_branch_exception_edge, ctrl_branch_exception, doing_rfe, mispredict_stall,
         Mispredicted, Uncached, ReadInv, branch_mispredict
<1>7. pc_fetch' = pc_fetch
  BY <1>1, <1>2, <1>6, UncachedWires DEF FetchPc, addr_valid
<1> QED BY <1>2, <1>3, <1>6, <1>7

\* What the execute stage waits for in the next cycle: the load that comes to the
\* control stage, or the one that is there and has no answer.
LEMMA WaitingNext ==
  ASSUME Typed, Control, NEW i, Cycle(i), execute_waiting'
  PROVE  ~pipeline_flush /\ IF padv_execute THEN Mem(execute_insn) ELSE execute_waiting
<1>1. LoadStoreUnit(i.dbus = "ack", i.dbus = "err")
  BY DEF Cycle
<1>2. Mem(ctrl_insn)' /\ ~dbus_ack' /\ ~access_done'
  BY DEF execute_waiting, lsu_valid, Mem
<1>3. Mem(ctrl_insn')
  BY <1>2, MemStays
<1>4. padv_execute => ~pipeline_flush /\ Mem(execute_insn)
  BY <1>3, CtrlInsn, NoInsn, ExceptionWires DEF pipeline_flush, padv_execute
<1>5. ~padv_execute => ~pipeline_flush /\ Mem(ctrl_insn)
  BY <1>3, CtrlInsn, NoInsn
<1>6. ~padv_execute => ~dbus_ack /\ ~access_done
  BY <1>1, <1>2 DEF LoadStoreUnit
<1> QED BY <1>4, <1>5, <1>6 DEF execute_waiting, lsu_valid, Mem

LEMMA FetchedStep ==
  ASSUME Typed, Control, Uncached, ~cached, NEW i, InputOK(i), Cycle(i) PROVE FetchedInv'
<1>1. /\ InstructionBus(i.ibus = "ack", i.ibus = "err") /\ NopAck /\ FetchDecode /\ ExecuteStage
      /\ Advance /\ LoadStoreUnit(i.dbus = "ack", i.dbus = "err")
      /\ i.ibus # "none" => state = "READ"
  BY DEF Cycle, InputOK, BusAnswers, Uncached, BusInv
<1>2. ~StartsBurst
  BY DEF StartsBurst
<1>3. fetch_valid' => state = "IDLE" /\ ~StartsRead /\ (bus_access_done \/ ~padv_fetch)
  BY <1>1 DEF FetchDecode, bus_access_done, imem_ack, mispredict_stall, StartsRead,
              Uncached, BusInv, FetchedInv, MispredictInv, Typed, MachineTypes
<1>4. (fetch_valid => state = "IDLE" /\ ~ibus_ack /\ ~imem_err /\ ~nop_ack)'
  BY <1>1, <1>2, <1>3 DEF InstructionBus, NopAck, StartsRead, Uncached, BusInv
<1>5. (decode_valid => ~ibus_ack /\ ~imem_err /\ (nop_ack => state = "READ"))'
  <2> SUFFICES ASSUME padv_decode
               PROVE  ~ibus_ack' /\ ~imem_err' /\ (nop_ack' => state' = "READ")
    BY <1>1 DEF ExecuteStage
  <2>1. fetch_valid /\ state = "IDLE"
    BY DEF padv_decode, Uncached, FetchedInv
  <2>2. ctrl_branch_exception => doing_rfe
    BY DEF padv_decode, ctrl_branch_exception, doing_rfe, Control, HaltInv, RfeInv, Raised
  <2>3. padv_fetch /\ ~bus_access_done => StartsRead
    BY DEF StartsRead, bus_access_done, imem_ack
  <2> QED BY <1>1, <1>2, <2>1, <2>2, <2>3 DEF InstructionBus, NopAck
<1>6. (decode_valid /\ fetch_valid => execute_bubble /\ execute_insn = NOP)'
  BY <1>1 DEF FetchDecode, ExecuteStage, bus_access_done, imem_ack, padv_fetch, padv_decode,
              Uncached, FetchedInv
<1>7. (~execute_waiting_r /\ ~waiting_for_fetch)'
  BY <1>1 DEF Advance, Uncached, FetchedInv
<1>8. (decode_valid => ~execute_waiting)'
  <2> SUFFICES ASSUME padv_decode PROVE ~execute_waiting'
    BY <1>1 DEF ExecuteStage
  <2>1. fetch_valid /\ ~execute_waiting
    BY DEF padv_decode
  <2>2. padv_execute => ~Mem(execute_insn)
    BY <2>1, NoInsn, UncachedWires DEF Uncached, FetchedInv
  <2> QED BY <2>1, <2>2, WaitingNext
<1>9. (execute_waiting => Mem(execute_insn) /\ ~fetch_valid)'
  <2> SUFFICES ASSUME execute_waiting' PROVE Mem(execute_insn)' /\ ~fetch_valid'
    OBVIOUS
  <2>1. /\ ~pipeline_flush /\ Mem(execute_insn) /\ ~padv_decode /\ ~fetch_valid
        /\ padv_execute \/ execute_waiting
    BY WaitingNext, UncachedWires, NoInsn DEF Uncached, FetchedInv, padv_decode
  <2>2. execute_insn' = execute_insn
    BY <1>1, <2>1 DEF ExecuteStage
  <2>3. ~fetch_valid'
    BY <1>1, <2>1, UncachedWires DEF FetchDecode, bus_access_done, imem_ack, mispredict_stall,
       Uncached, FetchedInv, MispredictInv
  <2> QED BY <2>1, <2>2, <2>3, MemStays
<1> QED BY <1>4, <1>5, <1>6, <1>7, <1>8, <1>9 DEF FetchedInv

\* What arrives in decode is the instruction at pc_fetch.
LEMMA UncachedOwn ==
  ASSUME Typed, Control, Uncached, ~cached, NEW i, Cycle(i), decode_insn' # NOP
  PROVE  /\ ~imem_err /\ ~flushing
         /\ \/ /\ bus_access_done /\ padv_fetch /\ ~mispredict_stall
               /\ ibus_ack /\ ~nop_ack
               /\ decode_insn' = pc_fetch /\ pc_decode' = pc_fetch
            \/ /\ ~(bus_access_done /\ padv_fetch /\ ~mispredict_stall)
               /\ decode_insn' = decode_insn /\ pc_decode' = pc_decode
<1>1. FetchDecode
  BY DEF Cycle
<1>2. ~imem_err /\ ~flushing
  BY <1>1 DEF FetchDecode
<1>3. CASE bus_access_done /\ padv_fetch /\ ~mispredict_stall
  <2>1. decode_insn' = imem_dat /\ pc_decode' = pc_fetch
    BY <1>1, <1>2, <1>3 DEF FetchDecode
  <2>2. ibus_ack /\ ~nop_ack
    BY <2>1, <1>2, <1>3 DEF imem_dat, bus_access_done, imem_ack
  <2>3. ibus_adr = pc_fetch
    BY <2>2, <1>2 DEF flushing, Uncached, ReadInv
  <2> QED BY <2>1, <2>2, <2>3, <1>2, <1>3 DEF imem_dat
<1>4. CASE ~(bus_access_done /\ padv_fetch /\ ~mispredict_stall)
  BY <1>1, <1>2, <1>4 DEF FetchDecode
<1> QED BY <1>2, <1>3, <1>4

LEMMA ReadStep ==
  ASSUME Typed, Control, Uncached, ~cached, NEW i, InputOK(i), Cycle(i) PROVE ReadInv'
<1>1. /\ InstructionBus(i.ibus = "ack", i.ibus = "err") /\ FetchPc /\ FetchFlush /\ FetchDecode
      /\ ExceptionSequence /\ ~StartsBurst
  BY DEF Cycle, StartsBurst
<1>2. bus_access_done /\ state = "READ" => nop_ack
  BY DEF bus_access_done, imem_ack, Uncached, BusInv
<1>3. doing_rfe => pipeline_flush \/ (doing_rfe_r /\ ~fetch_exception_taken /\ flush)
  BY DEF doing_rfe, pipeline_flush, Uncached, ReadInv
<1>4. (state = "READ" \/ ibus_ack)' => \/ state = "READ" /\ ibus_adr' = ibus_adr
                                       \/ state = "IDLE" /\ ~bus_access_done /\ ibus_adr' = pc_fetch
  BY <1>1 DEF InstructionBus, StartsRead, bus_access_done, imem_ack, Typed, MachineTypes,
              Uncached, BusInv
<1>5. (state = "READ" \/ ibus_ack => ibus_adr = pc_fetch \/ flush)'
  <2> SUFFICES ASSUME (state = "READ" \/ ibus_ack)', ~flush' PROVE ibus_adr' = pc_fetch'
    OBVIOUS
  <2>1. CASE bus_access_done /\ padv_fetch
    <3>1. state = "READ" /\ nop_ack /\ ibus_adr' = ibus_adr
      BY <2>1, <1>2, <1>4
    <3>2. pc_fetch' = execute_mispredict_target
      BY <1>1, <2>1, <3>1 DEF FetchPc, addr_valid, pc_addr, Uncached, MispredictInv
    <3> QED BY <3>1, <3>2 DEF Uncached, MispredictInv
  <2>2. CASE ~(bus_access_done /\ padv_fetch)
    <3>1. ~flush /\ ~pipeline_flush
      BY <1>1, <2>2 DEF FetchFlush
    <3>2. pc_fetch' = pc_fetch
      BY <1>1, <1>3, <2>2, <3>1 DEF FetchPc, addr_valid
    <3> QED BY <1>4, <3>1, <3>2 DEF Uncached, ReadInv
  <2> QED BY <2>1, <2>2
<1>6. (flush => decode_insn = NOP)'
  BY <1>1 DEF FetchFlush, FetchDecode, flushing
<1>7. (Raised /\ ~fetch_exception_taken /\ (state = "READ" \/ ibus_ack) => flush)'
  <2> SUFFICES ASSUME Raised', ~fetch_exception_taken', (state = "READ" \/ ibus_ack)'
               PROVE  flush'
    OBVIOUS
  <2>1. CASE Raised
    <3>1. ctrl_branch_exception /\ ~doing_rfe /\ ~fetch_exception_taken
      BY <1>1, <2>1, ExceptionWires DEF ExceptionSequence, doing_rfe, Raised, Control, HaltInv
    <3>2. ~(bus_access_done /\ padv_fetch)
      BY <1>1, <3>1 DEF FetchPc
    <3>3. state = "READ" \/ ibus_ack
      BY <1>1, <3>1 DEF InstructionBus, Typed, MachineTypes, Uncached, BusInv
    <3> QED BY <1>1, <2>1, <3>1, <3>2, <3>3 DEF FetchFlush, Uncached, ReadInv
  <2>2. CASE ~Raised
    <3>1. exception /\ pipeline_flush
      BY <1>1, <2>2, Sequence DEF ExceptionSequence, Raised
    <3>2. ~bus_access_done
      BY <1>2, <1>4, <3>1 DEF exception, Uncached, MispredictInv
    <3> QED BY <1>1, <3>1, <3>2 DEF FetchFlush
  <2> QED BY <2>1, <2>2
<1>8. (doing_rfe_r => flush \/ fetch_exception_taken)'
  <2> SUFFICES ASSUME doing_rfe_r', ~fetch_exception_taken' PROVE flush'
    OBVIOUS
  <2>1. CASE ctrl_rfe
    <3>1. pipeline_flush /\ ~exception_r /\ padv_ctrl /\ ~execute_waiting
      BY <2>1, ExceptionWires, NoInsn DEF execute_waiting, Mem, Control, RfeInv
    <3>2. ~bus_access_done
      BY <2>1 DEF bus_access_done, imem_ack, Uncached, DrainInv, FetchedInv
    <3> QED BY <1>1, <3>1, <3>2 DEF FetchFlush
  <2>2. CASE ~ctrl_rfe
    <3>1. doing_rfe_r /\ ~fetch_exception_taken /\ ~padv_ctrl
      BY <1>1, <2>2 DEF ExceptionSequence
    <3>2. ctrl_branch_exception /\ flush
      BY <3>1 DEF ctrl_branch_exception, doing_rfe, Control, HaltInv, Uncached, ReadInv
    <3>3. ~(bus_access_done /\ padv_fetch)
      BY <1>1, <3>1, <3>2 DEF FetchPc
    <3> QED BY <1>1, <3>2, <3>3 DEF FetchFlush
  <2> QED BY <2>1, <2>2
<1>9. (doing_rfe_r => decode_insn = NOP /\ ctrl_branch_exception_r)'
  <2> SUFFICES ASSUME doing_rfe_r' PROVE flushing /\ ctrl_branch_exception
    BY <1>1 DEF FetchDecode, FetchPc
  <2>1. CASE ctrl_rfe
    BY <2>1, ExceptionWires DEF flushing, ctrl_branch_exception, Control, HaltInv
  <2>2. CASE ~ctrl_rfe
    <3>1. doing_rfe_r /\ ~fetch_exception_taken /\ ~exception_taken
      BY <1>1, <2>2 DEF ExceptionSequence, Control, HaltInv, RfeInv
    <3> QED BY <3>1 DEF flushing, ctrl_branch_exception, doing_rfe, Uncached, ReadInv
  <2> QED BY <2>1, <2>2
<1>10. (decode_insn # NOP => decode_insn = pc_decode)'
  BY UncachedOwn DEF Uncached, ReadInv
<1> QED BY <1>5, <1>6, <1>7, <1>8, <1>9, <1>10 DEF ReadInv

\* The flag that a branch sees does not change while nothing comes to the control
\* stage and no l.mtspr leaves it.
LEMMA FlagStays ==
  ASSUME Typed, NEW i, Cycle(i), ~padv_execute, ~pipeline_flush,
         padv_ctrl => Op(ctrl_insn) # "mtspr"
  PROVE  ctrl_flag' = ctrl_flag
<1>1. flag_result' = flag_result /\ sr' = NextSr
  BY DEF Cycle, ControlStage, SavedRegisters
<1>2. sr'.f = IF padv_ctrl THEN ctrl_flag ELSE sr.f
  BY <1>1, SprWriteTyped DEF NextSr, pipeline_flush, Typed, StatusTypes, SrValues
<1> QED BY <1>1, <1>2 DEF ctrl_flag, Typed, StatusTypes, SrValues

\* A cycle in which a branch is in decode and the next word arrives.
LEMMA BranchArrives ==
  ASSUME Typed, Control, Uncached, ~cached, ~pipeline_flush,
         Op(decode_insn) \in Branches, addr_valid
  PROVE  /\ bus_access_done /\ padv_fetch /\ ~mispredict_stall /\ ~fetch_valid
         /\ ~padv_execute /\ ~padv_decode /\ ~doing_rfe /\ ~decode_valid
<1>1. ~fetching_brcond /\ ~fetching_mispredicted_branch
  BY DEF Uncached, SlotInv
<1>2. ~doing_rfe
  BY NoInsn DEF doing_rfe, pipeline_flush, Branches, Brcond, Uncached, ReadInv
<1>3. bus_access_done /\ padv_fetch
  BY <1>2 DEF addr_valid
<1>4. ~fetch_valid /\ ~decode_valid
  BY <1>1, <1>3 DEF bus_access_done, imem_ack, Uncached, FetchedInv, MispredictInv
<1> QED BY <1>1, <1>2, <1>3, <1>4, UncachedWires DEF mispredict_stall, padv_decode

\* A branch in the execute stage whose delay slot has not come is in decode too;
\* nothing redirects the fetch stage while a branch is in the execute stage.
LEMMA BranchWires ==
  ASSUME Typed, Control, Uncached, Op(execute_insn) \in Brcond, ~pipeline_flush
  PROVE  /\ ~ctrl_branch_exception /\ ~doing_rfe
         /\ fetch_valid => padv_decode
<1>1. ~exception_r /\ ~doing_rfe_r /\ ~decode_execute_halt /\ ~ctrl_rfe
  BY UncachedWires, ExceptionWires
<1>2. fetch_valid => ~execute_waiting
  BY DEF Uncached, FetchedInv
<1> QED BY <1>1, <1>2 DEF ctrl_branch_exception, doing_rfe, padv_decode

LEMMA MispredictStep ==
  ASSUME Typed, Control, Uncached, ~cached, NEW i, InputOK(i), Cycle(i) PROVE MispredictInv'
<1>1. /\ InstructionBus(i.ibus = "ack", i.ibus = "err") /\ FetchPc /\ FetchFlush /\ FetchDecode
      /\ NopAck /\ ExceptionSequence /\ ExecuteStage /\ Advance
      /\ LoadStoreUnit(i.dbus = "ack", i.dbus = "err")
  BY DEF Cycle
<1>2. ASSUME nop_ack', state' = "READ"
      PROVE  /\ fetching_mispredicted_branch' /\ ibus_adr' = pc_fetch'
             /\ execute_mispredict_target' = pc_fetch'
             /\ ~ctrl_branch_exception' /\ padv_fetch' /\ ~padv_ctrl'
             /\ ~ctrl_stage_exceptions' /\ ~BusError' /\ ~except_dbus'
  <2>1. /\ Mispredicted /\ padv_fetch /\ ~bus_access_done /\ state = "IDLE"
        /\ ibus_adr' = pc_fetch /\ pc_fetch' = pc_fetch
    BY <1>2, NopWithRead
  <2>2. /\ fetch_valid /\ padv_decode /\ ~decode_valid /\ ~padv_ctrl
        /\ ~exception /\ ~ctrl_branch_exception /\ ~doing_rfe
        /\ ~BusError /\ ~except_dbus /\ ~ctrl_stage_exceptions
    BY <2>1, UncachedWires
  <2>3. ~padv_execute /\ ~pipeline_flush /\ ~execute_waiting
    BY <2>1, <2>2, UncachedWires DEF pipeline_flush, exception_re
  <2>4. fetching_mispredicted_branch'
    BY <1>1, <2>1, <2>3 DEF FetchFlush, Mispredicted
  <2>5. execute_mispredict_target = pc_fetch
    BY <2>1 DEF Mispredicted, bus_access_done, Uncached, MispredictInv
  <2>6. execute_mispredict_target' = pc_fetch'
    BY <1>1, <2>1, <2>5 DEF ExecuteStage, Mispredicted, Uncached, SlotInv, Branches
  <2>7. ~exception_r' /\ ~doing_rfe_r' /\ ~ctrl_rfe'
    <3>1. ~exception_r /\ ~doing_rfe_r /\ ~ctrl_rfe
      BY <2>1, <2>2, UncachedWires DEF Mispredicted, branch_mispredict, Control, RfeInv
    <3> QED BY <1>1, <2>2, <2>3, <3>1 DEF ExceptionSequence, Cycle, ControlStage
  <2>8. ~ctrl_branch_exception'
    BY <2>7 DEF ctrl_branch_exception, doing_rfe
  <2>9. ~fetch_valid'
    BY <1>1, <2>1 DEF FetchDecode
  <2>10. padv_fetch'
    BY <2>3, <2>9, WaitingNext DEF padv_fetch, decode_bubble, padv_decode
  <2>11. ~padv_ctrl' /\ ~ctrl_stage_exceptions'
    BY <1>1, <2>2, <2>3 DEF Advance, ExceptionSequence, BusError
  <2>12. ~BusError'
    BY <2>2, CtrlInsn
  <2>13. ~except_dbus'
    BY <1>1, <2>2, <2>3, LoadWires DEF LoadStoreUnit, InputOK, DataAnswers, Typed, MachineTypes, Loading
  <2> QED BY <2>1, <2>4, <2>6, <2>8, <2>10, <2>11, <2>12, <2>13
<1>3. (fetching_mispredicted_branch => nop_ack /\ state = "READ")'
  <2> SUFFICES ASSUME fetching_mispredicted_branch' PROVE nop_ack' /\ state' = "READ"
    OBVIOUS
  <2>1. Mispredicted /\ padv_fetch /\ ~bus_access_done
    BY <1>1 DEF FetchFlush, Mispredicted, bus_access_done, Uncached, MispredictInv
  <2>2. state = "IDLE" /\ ~ctrl_branch_exception /\ ~ibus_req
    BY <2>1, UncachedWires DEF Uncached, FetchedInv, BusInv
  <2>3. StartsRead
    BY <2>1 DEF StartsRead, bus_access_done, imem_ack
  <2> QED BY <1>1, <2>1, <2>2, <2>3 DEF InstructionBus, NopAck, Mispredicted, mispredict_stall
<1>4. (fetching_brcond /\ branch_mispredict /\ ~fetching_mispredicted_branch
           => execute_mispredict_target = pc_fetch)'
  <2> SUFFICES ASSUME fetching_brcond', branch_mispredict'
               PROVE  execute_mispredict_target' = pc_fetch'
    OBVIOUS
  <2>1. /\ ~pipeline_flush
        /\ \/ Op(decode_insn) \in Brcond /\ addr_valid
           \/ fetching_brcond /\ ~(bus_access_done /\ padv_fetch)
    BY <1>1 DEF FetchFlush
  <2>2. ~padv_decode
    <3> SUFFICES ASSUME padv_decode PROVE FALSE
      OBVIOUS
    <3>1. execute_insn' = decode_insn \/ execute_insn' = NOP
      BY <1>1, <2>1 DEF ExecuteStage
    <3>2. Op(execute_insn') \in Brcond
      BY ProgramStays DEF branch_mispredict
    <3>3. Op(decode_insn) \in Brcond
      BY <3>1, <3>2, NoInsn DEF Brcond
    <3>4. addr_valid
      BY <2>1, <3>3 DEF Uncached, SlotInv, Branches
    <3> QED BY <2>1, <3>3, <3>4, BranchArrives DEF Branches
  <2>3. /\ execute_insn' = execute_insn /\ execute_mispredict_target' = execute_mispredict_target
        /\ execute_predicted_flag' = execute_predicted_flag
    BY <1>1, <2>1, <2>2 DEF ExecuteStage
  <2>4. Op(execute_insn) \in Brcond /\ ctrl_flag' # execute_predicted_flag
    BY <2>3, ProgramStays DEF branch_mispredict
  <2>5. ~ctrl_branch_exception /\ ~doing_rfe /\ ~fetch_valid
    BY <2>1, <2>2, <2>4, BranchWires
  <2>6. Op(decode_insn) \in Brcond /\ addr_valid
    BY <2>1, <2>4, <2>5 DEF Uncached, SlotInv, Branches
  <2>7. ~padv_execute /\ ~decode_valid
    BY <2>1, <2>6, BranchArrives DEF Branches
  <2>8. padv_ctrl => Op(ctrl_insn) # "mtspr"
    BY <2>4, <2>7 DEF Uncached, SlotInv, Brcond
  <2>9. branch_mispredict
    BY <2>1, <2>4, <2>7, <2>8, FlagStays DEF branch_mispredict
  <2> QED BY <1>1, <2>3, <2>5, <2>6, <2>9 DEF FetchPc, pc_addr
<1> QED BY <1>2, <1>3, <1>4 DEF MispredictInv

\* The instruction after a branch is neither a branch nor l.rfe.
LEMMA SlotIsFree ==
  ASSUME Typed, Op(decode_insn) \in Branches, decode_insn + 1 \in DOMAIN code
  PROVE  Op(decode_insn + 1) \notin Branches \cup {"rfe"}
BY DEF Typed, ProgramOK, SlotsAreFree, Op, Branches, Brcond

LEMMA SlotStep ==
  ASSUME Typed, Control, Uncached, ~cached, NEW i, InputOK(i), Cycle(i) PROVE SlotInv'
<1>1. /\ FetchPc /\ FetchFlush /\ FetchDecode /\ ExecuteStage /\ padv_ctrl' = padv_execute
  BY DEF Cycle, Advance
<1> DEFINE Arrives == bus_access_done /\ padv_fetch /\ ~mispredict_stall
\* What arrives behind a branch is its delay slot.
<1>2. ASSUME Op(decode_insn) \in Branches, Arrives, decode_insn' # NOP
      PROVE  Op(decode_insn') \notin Branches \cup {"rfe"}
  <2>1. decode_insn' = pc_fetch
    BY <1>2, UncachedOwn
  <2>2. pc_fetch = decode_insn + 1
    BY <1>2, NoInsn DEF Uncached, SlotInv, ReadInv, Branches, Brcond
  <2>3. decode_insn' \in DOMAIN code
    BY <1>2, StageStep, ProgramStays DEF StageTypes, Word
  <2> QED BY <2>1, <2>2, <2>3, <1>2, SlotIsFree
<1>3. ~flushing => ~pipeline_flush /\ ~doing_rfe
  BY DEF flushing, doing_rfe, pipeline_flush, Uncached, ReadInv
<1>4. (fetching_brcond /\ fetch_valid => ~padv_ctrl)'
  <2> SUFFICES ASSUME fetching_brcond', fetch_valid', padv_execute PROVE FALSE
    BY <1>1
  <2>1. ~pipeline_flush /\ decode_valid
    BY <1>1, UncachedWires DEF FetchDecode
  <2>2. ~(Op(decode_insn) \in Brcond /\ addr_valid)
    BY <2>1, BranchArrives DEF Branches
  <2>3. fetching_brcond /\ ~(bus_access_done /\ padv_fetch) /\ ~padv_fetch /\ fetch_valid
    BY <1>1, <2>2 DEF FetchFlush, FetchDecode
  <2>4. ~execute_waiting /\ Op(execute_insn) # "mem"
    BY <2>1, <2>3, NoInsn DEF Uncached, FetchedInv, Mem
  <2> QED BY <2>3, <2>4 DEF padv_fetch, decode_bubble, Uncached, SlotInv
<1>5. ASSUME (fetching_brcond \/ fetching_mispredicted_branch)', decode_insn' # NOP
      PROVE  Op(decode_insn') \notin Branches \cup {"rfe"}
  <2>1. ~flushing
    BY <1>5, UncachedOwn
  <2>2. CASE Arrives
    <3>1. Op(decode_insn) \in Branches
      BY <1>1, <1>5, <2>2 DEF FetchFlush, Branches
    <3> QED BY <1>2, <1>5, <2>2, <3>1
  <2>3. CASE ~Arrives
    <3>1. decode_insn' = decode_insn
      BY <1>5, <2>3, UncachedOwn
    <3>2. ~(Op(decode_insn) \in Brcond /\ addr_valid)
      BY <1>3, <2>1, <2>3, BranchArrives DEF Branches
    <3>3. fetching_brcond \/ fetching_mispredicted_branch
      BY <1>1, <1>5, <3>2 DEF FetchFlush
    <3> QED BY <3>1, <3>3 DEF Uncached, SlotInv
  <2> QED BY <2>2, <2>3
<1>6. ASSUME Op(decode_insn') \in Branches, decode_insn' # NOP PROVE pc_fetch' = pc_decode' + 1
  <2>1. ~flushing
    BY <1>6, UncachedOwn
  <2>2. CASE Arrives
    <3>1. ibus_ack /\ ~fetch_valid /\ pc_decode' = pc_fetch /\ Op(decode_insn) \notin Branches
      BY <1>2, <1>6, <2>2, UncachedOwn DEF Uncached, FetchedInv
    <3>2. ~branch_mispredict /\ ~fetching_mispredicted_branch /\ ~decode_branch
      BY <2>2, <3>1 DEF branch_mispredict, decode_branch, mispredict_stall, Uncached, SlotInv,
                        Branches
    <3>3. ~(ctrl_branch_exception /\ ~fetch_exception_taken)
      BY <1>3, <2>1, <3>1, ExceptionWires
         DEF ctrl_branch_exception, flushing, Raised, Uncached, ReadInv
    <3>4. pc_fetch' = pc_fetch + 1
      BY <1>1, <2>2, <3>2, <3>3 DEF FetchPc, addr_valid, pc_addr
    <3> QED BY <3>1, <3>4
  <2>3. CASE ~Arrives
    <3>1. decode_insn' = decode_insn /\ pc_decode' = pc_decode
      BY <1>6, <2>3, UncachedOwn
    <3>2. ~addr_valid
      BY <1>3, <1>6, <2>1, <2>3, <3>1, BranchArrives
    <3> QED BY <1>1, <1>6, <3>1, <3>2 DEF FetchPc, Uncached, SlotInv
  <2> QED BY <2>2, <2>3
<1>7. ASSUME Op(execute_insn') \in Brcond, ~fetch_valid' PROVE Op(decode_insn') \in Brcond
  <2>1. ~pipeline_flush
    BY <1>1, <1>7, NoInsn DEF ExecuteStage, Brcond
  <2>2. CASE padv_decode
    <3>1. fetch_valid /\ Op(decode_insn) \in Brcond /\ ~bus_access_done
      BY <1>1, <1>7, <2>1, <2>2, NoInsn
         DEF ExecuteStage, Brcond, padv_decode, bus_access_done, imem_ack, Uncached, FetchedInv
    <3>2. ~ctrl_branch_exception /\ ~flush
      BY <2>1, <2>2, <3>1, NoInsn, ExceptionWires
         DEF ctrl_branch_exception, doing_rfe, padv_decode, Control, HaltInv, Raised,
             Uncached, ReadInv, Brcond
    <3> QED BY <1>1, <2>1, <3>1, <3>2
            DEF FetchDecode, flushing, ctrl_branch_exception_edge, bus_access_done
  <2>3. CASE ~padv_decode
    <3>1. execute_insn' = execute_insn
      BY <1>1, <2>1, <2>3 DEF ExecuteStage
    <3>2. ~ctrl_branch_exception /\ ~fetch_valid
      BY <1>7, <2>1, <2>3, <3>1, BranchWires
    <3>3. Op(decode_insn) \in Brcond
      BY <1>7, <3>1, <3>2 DEF Uncached, SlotInv
    <3>4. padv_fetch /\ ~mispredict_stall /\ ~flush
      BY <1>7, <2>3, <3>1, <3>3, NoInsn
         DEF padv_fetch, decode_bubble, mispredict_stall, Uncached, FetchedInv, SlotInv, ReadInv,
             Mem, Brcond, Branches
    <3>5. ~bus_access_done
      BY <1>1, <1>7, <2>1, <3>4 DEF FetchDecode
    <3> QED BY <1>1, <2>1, <3>2, <3>3, <3>4, <3>5
            DEF FetchDecode, flushing, ctrl_branch_exception_edge, bus_access_done
  <2> QED BY <2>2, <2>3
<1>8. (padv_ctrl /\ ~decode_valid => ctrl_insn = execute_insn)'
  <2> SUFFICES ASSUME padv_execute, ~padv_decode PROVE ctrl_insn' = execute_insn'
    BY <1>1 DEF ExecuteStage
  <2>1. decode_valid /\ ~ctrl_rfe /\ ~exception_re
    BY UncachedWires
  <2>2. ~(BusError /\ Mem(execute_insn))
    BY <2>1, ErrorWires DEF exception_re, Control, HaltInv, BusErrorInv, Uncached, DrainInv
  <2> QED BY <1>1, <2>1, <2>2, CtrlInsn DEF ExecuteStage, pipeline_flush
<1>9. \A w : Op(w)' = Op(w)
  BY ProgramStays
<1>10. Op(NOP) = "nop"
  BY NoInsn
<1> QED BY <1>4, <1>5, <1>6, <1>7, <1>8, <1>9, <1>10 DEF SlotInv, Branches, Brcond

LEMMA DrainStep ==
  ASSUME Typed, Control, Uncached, ~cached, NEW i, InputOK(i), Cycle(i) PROVE DrainInv'
<1>1. /\ FetchDecode /\ ExecuteStage /\ ExceptionSequence
      /\ LoadStoreUnit(i.dbus = "ack", i.dbus = "err")
      /\ ctrl_rfe' => padv_execute /\ execute_rfe
  BY DEF Cycle, ControlStage, Control, RfeInv, pipeline_flush
<1>2. BusError' <=> except_dbus /\ ~pipeline_flush
  BY CtrlInsn
<1>3. i.dbus # "none" => Loading
  BY DEF InputOK, DataAnswers, Typed, MachineTypes, Loading
<1>4. ASSUME execute_rfe' \/ ctrl_rfe' PROVE Op(decode_insn') = "rfe" /\ fetch_valid'
  <2>1. ~pipeline_flush
    BY <1>1, <1>4, UncachedWires DEF ExecuteStage, pipeline_flush
  <2>2. Op(decode_insn) = "rfe" /\ fetch_valid
    BY <1>1, <1>4 DEF ExecuteStage, padv_decode, Uncached, DrainInv
  <2>3. padv_decode
    <3> SUFFICES ASSUME ~padv_decode PROVE FALSE
      OBVIOUS
    <3>1. execute_rfe
      BY <1>1, <1>4 DEF ExecuteStage
    <3>2. ~Raised
      BY <3>1 DEF Raised, Control, RfeInv, BubbleInv
    <3>3. ~doing_rfe_r /\ ~execute_waiting
      BY <2>2, NoInsn DEF Uncached, ReadInv, FetchedInv
    <3> QED BY <2>2, <3>2, <3>3 DEF padv_decode, Control, HaltInv
  <2>4. ~padv_fetch /\ ~bus_access_done
    BY <2>2, <2>3 DEF padv_fetch, decode_bubble, bus_access_done, imem_ack, Uncached, FetchedInv
  <2>5. ~ctrl_branch_exception /\ ~flush
    BY <2>1, <2>2, <2>3, NoInsn, ExceptionWires
       DEF ctrl_branch_exception, doing_rfe, padv_decode, Control, HaltInv, Raised,
           Uncached, ReadInv
  <2> QED BY <1>1, <2>1, <2>2, <2>4, <2>5
          DEF FetchDecode, flushing, ctrl_branch_exception_edge, bus_access_done
<1>5. ASSUME exception_r' \/ doing_rfe_r'
      PROVE  execute_insn' = NOP \/ Op(execute_insn') = "mtspr"
  <2>1. CASE pipeline_flush
    BY <1>1, <2>1 DEF ExecuteStage
  <2>2. CASE ~pipeline_flush
    <3>1. ~padv_decode /\ (exception_r \/ doing_rfe_r)
      BY <1>1, <1>5, <2>2, Sequence, ExceptionWires
         DEF ExceptionSequence, Raised, padv_decode, Control, HaltInv
    <3> QED BY <1>1, <2>2, <3>1 DEF ExecuteStage, Uncached, DrainInv
  <2> QED BY <2>1, <2>2
<1>6. (exception_r => ~BusError /\ ~except_dbus)'
  BY <1>1, <1>2, <1>3, Sequence, LoadWires
     DEF LoadStoreUnit, Raised, Uncached, DrainInv, Control, LoadInv
<1>7. (BusError /\ ~ctrl_stage_exceptions => execute_waiting)'
  <2> SUFFICES ASSUME BusError', ~BusError PROVE execute_waiting'
    BY <1>1 DEF ExceptionSequence, BusError
  <2>1. except_dbus /\ Mem(ctrl_insn) /\ ~pipeline_flush
    BY <1>2 DEF Control, BusErrorInv
  <2>2. Mem(ctrl_insn)'
    BY <2>1, ErrorWires, CtrlInsn, MemStays
  <2>3. ~dbus_ack' /\ ~access_done'
    BY <1>1, <1>3, <2>1 DEF LoadStoreUnit, Control, LoadInv
  <2> QED BY <2>2, <2>3 DEF execute_waiting, lsu_valid, Mem
<1>8. (BusError \/ ctrl_stage_exceptions \/ except_dbus => ~fetch_valid)'
  <2> SUFFICES ASSUME (BusError \/ ctrl_stage_exceptions \/ except_dbus)', fetch_valid'
               PROVE  FALSE
    OBVIOUS
  <2>1. BusError \/ except_dbus \/ Loading
    BY <1>1, <1>2, <1>3 DEF ExceptionSequence, LoadStoreUnit, BusError
  <2>2. BusError => execute_waiting \/ pipeline_flush
    BY ErrorWires, ExceptionWires DEF Uncached, DrainInv
  <2>3. execute_waiting \/ pipeline_flush
    BY <2>1, <2>2, LoadWires, ErrorWires DEF Control, BusErrorInv
  <2>4. ~fetch_valid
    BY <2>1, LoadWires DEF Uncached, DrainInv, FetchedInv
  <2> QED BY <1>1, <2>3, <2>4, UncachedWires DEF FetchDecode
<1>9. \A w : Op(w)' = Op(w)
  BY ProgramStays
<1> QED BY <1>4, <1>5, <1>6, <1>7, <1>8, <1>9 DEF DrainInv

LEMMA UncachedStep ==
  ASSUME Typed, Control, Uncached, ~cached, NEW i, InputOK(i), Cycle(i) PROVE Uncached'
BY BusStep, FetchedStep, ReadStep, MispredictStep, SlotStep, DrainStep DEF Uncached
-----------------------------------------------------------------------------
(***************************************************************************)
(* The same with the instruction cache: a word that the cache answers with *)
(* is the one at the address it is asked for, whatever is being refilled.  *)
(* First the arithmetic of its addresses.                                  *)
(***************************************************************************)
LEMMA DivisionUnique ==
  ASSUME NEW n \in Nat \ {0}, NEW q \in Int, NEW r \in 0 .. n - 1
  PROVE  /\ (q * n + r) \div n = q /\ (q * n + r) % n = r
OBVIOUS

LEMMA Division ==
  ASSUME NEW a \in Int, NEW n \in Nat \ {0}
  PROVE  /\ a \div n \in Int /\ a % n \in 0 .. n - 1
         /\ a = (a \div n) * n + (a % n)
<1>1. a % n \in 0 .. n - 1
  OBVIOUS
<1>2. a = n * (a \div n) + (a % n)
  OBVIOUS
<1>3. a \div n \in Int
  OBVIOUS
<1>4. n * (a \div n) = (a \div n) * n
  BY <1>3
<1> QED BY <1>1, <1>2, <1>3, <1>4

Offset == 0 .. LINE - 1

\* An address is made of its line and its place in the line, a line of its tag and
\* its index.
LEMMA AddressParts ==
  ASSUME NEW a \in Int
  PROVE  /\ a % LINE \in Offset /\ Line(a) \in Int /\ a = Line(a) * LINE + (a % LINE)
         /\ Index(a) \in 0 .. SETS - 1 /\ Tag(a) \in Int /\ Line(a) = Tag(a) * SETS + Index(a)
<1>1. /\ a % LINE \in Offset /\ Line(a) \in Int /\ a = Line(a) * LINE + (a % LINE)
  BY Division, SizesAssumption DEF Offset, Line
<1>2. /\ Index(a) \in 0 .. SETS - 1 /\ Tag(a) \in Int /\ Line(a) = Tag(a) * SETS + Index(a)
  BY <1>1, Division, SizesAssumption DEF Index, Tag
<1> QED BY <1>1, <1>2

LEMMA SameWord ==
  ASSUME NEW a \in Int, NEW b \in Int, Line(a) = Line(b), a % LINE = b % LINE
  PROVE  a = b
BY AddressParts

LEMMA SameLine ==
  ASSUME NEW a \in Int, NEW b \in Int, Index(a) = Index(b), Tag(a) = Tag(b)
  PROVE  Line(a) = Line(b)
BY AddressParts

\* Two addresses share a word of the cache only with their index and their place in
\* the line.
LEMMA PlaceParts ==
  ASSUME NEW a \in Int
  PROVE  Place(a) = Index(a) * LINE + (a % LINE)
<1> DEFINE t == Tag(a)
           s == Index(a)
           o == a % LINE
<1>1. /\ t \in Int /\ s \in 0 .. SETS - 1 /\ o \in 0 .. LINE - 1 /\ a = (t * SETS + s) * LINE + o
  BY AddressParts DEF Offset
<1> HIDE DEF t, s, o
<1>2. ASSUME NEW m \in Nat \ {0}, NEW n \in Nat \ {0}, NEW x \in 0 .. m - 1, NEW y \in 0 .. n - 1
      PROVE  m * n \in Nat \ {0} /\ x * n + y \in 0 .. m * n - 1
  <2>1. m * n \in Nat \ {0} /\ x * n \in Nat
    OBVIOUS
  <2>2. x <= m - 1
    OBVIOUS
  <2>3. x * n <= (m - 1) * n
    BY <2>2
  <2>4. (m - 1) * n = m * n - n
    OBVIOUS
  <2> QED BY <2>1, <2>3, <2>4
<1>3. SETS * LINE \in Nat \ {0} /\ s * LINE + o \in 0 .. SETS * LINE - 1
  BY <1>1, <1>2, SizesAssumption
<1>4. (t * SETS + s) * LINE + o = t * (SETS * LINE) + (s * LINE + o)
  <2>1. ASSUME NEW u \in Int, NEW m \in Int, NEW n \in Int, NEW x \in Int, NEW y \in Int
        PROVE  (u * m + x) * n + y = u * (m * n) + (x * n + y)
    OBVIOUS
  <2> QED BY <1>1, <2>1, SizesAssumption
<1>5. (t * (SETS * LINE) + (s * LINE + o)) % (SETS * LINE) = s * LINE + o
  BY <1>1, <1>3, DivisionUnique
<1>6. Place(a) = s * LINE + o
  BY <1>1, <1>4, <1>5 DEF Place
<1> QED BY <1>6 DEF s, o

LEMMA SamePlace ==
  ASSUME NEW a \in Int, NEW b \in Int, Place(a) = Place(b)
  PROVE  Index(a) = Index(b) /\ a % LINE = b % LINE
<1>1. Index(a) * LINE + (a % LINE) = Index(b) * LINE + (b % LINE)
  BY PlaceParts
<1>2. /\ Index(a) \in Int /\ a % LINE \in 0 .. LINE - 1
      /\ Index(b) \in Int /\ b % LINE \in 0 .. LINE - 1
  BY AddressParts DEF Offset
<1>3. ASSUME NEW x \in Int, NEW y \in Int, NEW o \in 0 .. LINE - 1, NEW p \in 0 .. LINE - 1,
             x * LINE + o = y * LINE + p
      PROVE  x = y /\ o = p
  BY <1>3, DivisionUnique, SizesAssumption
<1> QED BY <1>1, <1>2, <1>3

\* The word behind c in a line.
Succ(c) == IF c = LINE - 1 THEN 0 ELSE c + 1

LEMMA NextParts ==
  ASSUME NEW a \in Int
  PROVE  /\ NextInLine(a) \in Int /\ Line(NextInLine(a)) = Line(a)
         /\ Index(NextInLine(a)) = Index(a)
         /\ NextInLine(a) % LINE = Succ(a % LINE) /\ Succ(a % LINE) \in Offset
<1> DEFINE l == Line(a)
           o == a % LINE
<1>1. l \in Int /\ o \in 0 .. LINE - 1 /\ a = l * LINE + o
  BY AddressParts DEF Offset
<1>2. Succ(o) \in 0 .. LINE - 1
  BY <1>1, SizesAssumption DEF Succ
<1>3. (a + 1) % LINE = Succ(o)
  <2> HIDE DEF l, o
  <2>1. CASE o = LINE - 1
    <3>1. a + 1 = (l + 1) * LINE + 0
      BY <1>1, <2>1, SizesAssumption
    <3>2. ((l + 1) * LINE + 0) % LINE = 0
      BY <1>1, DivisionUnique, SizesAssumption
    <3> QED BY <2>1, <3>1, <3>2 DEF Succ
  <2>2. CASE o # LINE - 1
    <3>1. a + 1 = l * LINE + (o + 1) /\ o + 1 \in 0 .. LINE - 1
      BY <1>1, <2>2, SizesAssumption
    <3>2. (l * LINE + (o + 1)) % LINE = o + 1
      BY <1>1, <3>1, DivisionUnique, SizesAssumption
    <3> QED BY <2>2, <3>1, <3>2 DEF Succ
  <2> QED BY <2>1, <2>2
<1>4. NextInLine(a) = l * LINE + Succ(o)
  BY <1>3 DEF NextInLine
<1> HIDE DEF l, o
<1>5. /\ l * LINE + Succ(o) \in Int
      /\ (l * LINE + Succ(o)) \div LINE = l /\ (l * LINE + Succ(o)) % LINE = Succ(o)
  <2>1. ASSUME NEW x \in 0 .. LINE - 1
        PROVE  l * LINE + x \in Int /\ (l * LINE + x) \div LINE = l /\ (l * LINE + x) % LINE = x
    BY <1>1, DivisionUnique, SizesAssumption
  <2> QED BY <1>2, <2>1
<1>6. Line(NextInLine(a)) = l
  BY <1>4, <1>5 DEF Line
<1> QED BY <1>2, <1>4, <1>5, <1>6 DEF l, o, Offset, Index

(***************************************************************************)
(* A refill reads the words of a line in the order of a wrapping burst:    *)
(* these are f .. c - 1.                                                   *)
(***************************************************************************)
Between(f, c, o) == IF f <= c THEN f <= o /\ o < c ELSE f <= o \/ o < c

LEMMA BetweenStep ==
  ASSUME NEW f \in Offset, NEW c \in Offset
  PROVE  /\ ~Between(f, c, Succ(c)) =>
              \A o \in Offset : Between(f, Succ(c), o) <=> Between(f, c, o) \/ o = c
         /\ Between(f, c, Succ(c)) => \A o \in Offset : Between(f, c, o) \/ o = c
         /\ \A o \in Offset : ~Between(c, c, o)
BY SizesAssumption DEF Succ, Between, Offset
-----------------------------------------------------------------------------
(***************************************************************************)
(* What the memories hold.                                                 *)
(***************************************************************************)
CacheTypes == /\ tag_ram \in [0 .. SETS - 1 -> Int]
              /\ refill_valid \subseteq Offset

\* In READ the outputs are those of the address that is fetched.
OutputsInv == ic_state = "READ" => /\ tag_dout = tag_ram[Index(pc_fetch)]
                                   /\ way_dout = way_ram[Place(pc_fetch)]

\* A line whose tag is valid is all there.
LinesInv == \A a \in Int : tag_ram[Index(a)] # Invalid /\ tag_ram[Index(a)] = Tag(a)
                              => way_ram[Place(a)] = a

\* The words of a refill that are there are of the line that the bus reads, whose
\* place has no valid tag; refill_valid_r marks those that way_dout can show.
Filled == \A a \in Int : Line(a) = Line(ibus_adr) /\ a % LINE \in refill_valid
                            => way_ram[Place(a)] = a

InOrder == \E f \in Offset : \A o \in Offset :
              o \in refill_valid <=> Between(f, ibus_adr % LINE, o)

RefillInv ==
    ic_refill => /\ Filled /\ InOrder
                 /\ refill_valid # {} => tag_ram[Index(ibus_adr)] = Invalid
                 /\ Line(pc_fetch) = Line(ibus_adr) /\ pc_fetch % LINE \in refill_valid_r
                       => way_dout = pc_fetch
                 /\ state = "IDLE" /\ ~imem_err => refill_valid = {}

\* The bus is used for refills only.
BurstInv == ibus_req => state = "IC_REFILL"

Cached == CacheTypes /\ OutputsInv /\ LinesInv /\ RefillInv /\ state # "READ" /\ BurstInv

LEMMA CachedInit == Init => Cached
<1> SUFFICES ASSUME Init PROVE Cached
  OBVIOUS
<1>1. tag_ram = [s \in 0 .. SETS - 1 |-> Invalid]
  BY DEF Init, IcInit
<1>2. \A a \in Int : tag_ram[Index(a)] = Invalid
  BY <1>1, AddressParts
<1>3. CacheTypes
  BY <1>1 DEF Init, IcInit, CacheTypes, Invalid
<1>4. LinesInv
  BY <1>2 DEF LinesInv
<1>5. OutputsInv /\ RefillInv /\ state # "READ" /\ BurstInv
  BY DEF Init, IcInit, OutputsInv, RefillInv, BurstInv, ic_refill
<1> QED BY <1>3, <1>4, <1>5 DEF Cached

\* The cycle of the cache, with the address of the next fetch.
LEMMA CacheCycle ==
  ASSUME Typed, cached, BurstInv, NEW i, InputOK(i), Cycle(i)
  PROVE  /\ IcState(pc_fetch, ic_req, ibus_adr, i.ibus = "ack", imem_err)
         /\ RefillBits(pc_fetch, ic_req, ibus_adr, i.ibus = "ack")
         /\ Memories(pc_fetch, pc_fetch', ibus_adr, i.ibus = "ack")
         /\ pc_fetch \in Int /\ pc_fetch' \in Int /\ ibus_adr \in Int
         /\ ~StartsRead
         /\ i.ibus # "none" => state = "IC_REFILL"
<1>1. Cache(i.ibus = "ack") /\ FetchPc
  BY DEF Cycle
<1>2. pc_fetch \in Int /\ pc_fetch' \in Int /\ ibus_adr \in Int
  BY AddressStep DEF Typed, AddressTypes
<1> QED BY <1>1, <1>2 DEF Cache, IcCycle, FetchPc, StartsRead, InputOK, BusAnswers, BurstInv

\* A write of the tags changes them only with a word of a refill: a hit writes back
\* what it has read.
LEMMA TagsStay ==
  ASSUME Typed, cached, Cached, NEW i, InputOK(i), Cycle(i), ~(ic_refill /\ i.ibus = "ack")
  PROVE  tag_ram' = tag_ram /\ way_ram' = way_ram
<1>1. Memories(pc_fetch, pc_fetch', ibus_adr, i.ibus = "ack") /\ pc_fetch \in Int
  BY CacheCycle DEF Cached
<1>2. Index(pc_fetch) \in 0 .. SETS - 1
  BY <1>1, AddressParts
<1>3. [tag_ram EXCEPT ![Index(pc_fetch)] = tag_ram[Index(pc_fetch)]] = tag_ram
  BY <1>2 DEF Cached, CacheTypes
<1> QED BY <1>1, <1>3 DEF Memories, TagWrite, Cached, OutputsInv

\* What a word of a refill does to the memories.
LEMMA WordArrives ==
  ASSUME Typed, cached, Cached, NEW i, InputOK(i), Cycle(i), ic_refill, i.ibus = "ack",
         NEW a \in Int
  PROVE  /\ tag_ram'[Index(a)] = IF Index(a) = Index(ibus_adr) THEN NewTag(ibus_adr)
                                 ELSE tag_ram[Index(a)]
         /\ way_ram'[Place(a)] = IF Place(a) = Place(ibus_adr) THEN ibus_adr
                                 ELSE way_ram[Place(a)]
<1>1. Memories(pc_fetch, pc_fetch', ibus_adr, TRUE) /\ ibus_adr \in Int
  BY CacheCycle DEF Cached
<1>2. /\ tag_ram' = [tag_ram EXCEPT ![Index(ibus_adr)] = NewTag(ibus_adr)]
      /\ way_ram' = [way_ram EXCEPT ![Place(ibus_adr)] = ibus_adr]
  BY <1>1 DEF Memories, TagWrite, ic_refill
<1>3. Index(a) \in 0 .. SETS - 1 /\ Place(a) \in 0 .. SETS * LINE - 1
  BY AddressParts, PlaceInCache
<1> QED BY <1>2, <1>3 DEF Cached, CacheTypes, Typed, BusWords

\* With the last word of a refill all of its line is there.
LEMMA LineComplete ==
  ASSUME InOrder, refill_done(ibus_adr), ibus_adr \in Int
  PROVE  \A o \in Offset : o \in refill_valid \/ o = ibus_adr % LINE
<1>1. /\ ibus_adr % LINE \in Offset /\ Succ(ibus_adr % LINE) \in Offset
      /\ Succ(ibus_adr % LINE) \in refill_valid
  BY AddressParts, NextParts DEF refill_done
<1> QED BY <1>1, BetweenStep DEF InOrder

LEMMA LinesStep ==
  ASSUME Typed, cached, Cached, NEW i, InputOK(i), Cycle(i) PROVE LinesInv'
<1> SUFFICES ASSUME NEW a \in Int, tag_ram'[Index(a)] # Invalid, tag_ram'[Index(a)] = Tag(a)
             PROVE  way_ram'[Place(a)] = a
  BY DEF LinesInv
<1>1. CASE ~(ic_refill /\ i.ibus = "ack")
  BY <1>1, TagsStay DEF Cached, LinesInv
<1>2. CASE ic_refill /\ i.ibus = "ack"
  <2> DEFINE w == ibus_adr
  <2>1. w \in Int
    BY CacheCycle DEF Cached
  <2>2. CASE Index(a) # Index(w)
    <3>1. Place(a) # Place(w)
      BY <2>1, <2>2, SamePlace
    <3> QED BY <1>2, <2>2, <3>1, WordArrives DEF Cached, LinesInv
  <2>3. CASE Index(a) = Index(w)
    <3>1. NewTag(w) # Invalid /\ NewTag(w) = Tag(a)
      BY <1>2, <2>3, WordArrives
    <3>2. refill_done(w) /\ Tag(a) = Tag(w)
      BY <1>2, <3>1 DEF NewTag, Cached, RefillInv
    <3>3. Line(a) = Line(w)
      BY <2>1, <2>3, <3>2, SameLine
    <3>4. CASE a % LINE = w % LINE
      BY <1>2, <2>1, <3>3, <3>4, SameWord, WordArrives
    <3>5. CASE a % LINE # w % LINE
      <4>1. a % LINE \in refill_valid
        BY <1>2, <2>1, <3>2, <3>5, LineComplete, AddressParts DEF Cached, RefillInv
      <4>2. way_ram[Place(a)] = a
        BY <1>2, <3>3, <4>1 DEF Cached, RefillInv, Filled
      <4>3. Place(a) # Place(w)
        BY <2>1, <3>5, SamePlace
      <4> QED BY <1>2, <4>2, <4>3, WordArrives
    <3> QED BY <3>4, <3>5
  <2> QED BY <2>2, <2>3
<1> QED BY <1>1, <1>2

LEMMA OutputsStep ==
  ASSUME Typed, cached, Cached, NEW i, InputOK(i), Cycle(i) PROVE OutputsInv'
<1> SUFFICES ASSUME ic_state' = "READ"
             PROVE  /\ tag_dout' = tag_ram'[Index(pc_fetch')]
                    /\ way_dout' = way_ram'[Place(pc_fetch')]
  BY DEF OutputsInv, Index, Place, Line
<1>1. /\ IcState(pc_fetch, ic_req, ibus_adr, i.ibus = "ack", imem_err)
      /\ Memories(pc_fetch, pc_fetch', ibus_adr, i.ibus = "ack")
  BY CacheCycle DEF Cached
<1>2. ~ic_refill
  BY <1>1 DEF IcState, ic_refill
<1> QED BY <1>1, <1>2, TagsStay DEF Memories

LEMMA RefillStep ==
  ASSUME Typed, cached, Cached, NEW i, InputOK(i), Cycle(i) PROVE RefillInv'
<1>1. /\ IcState(pc_fetch, ic_req, ibus_adr, i.ibus = "ack", imem_err)
      /\ RefillBits(pc_fetch, ic_req, ibus_adr, i.ibus = "ack")
      /\ Memories(pc_fetch, pc_fetch', ibus_adr, i.ibus = "ack")
      /\ pc_fetch \in Int /\ pc_fetch' \in Int /\ ibus_adr \in Int
      /\ ~StartsRead
      /\ i.ibus # "none" => state = "IC_REFILL"
  BY CacheCycle DEF Cached
<1>2. InstructionBus(i.ibus = "ack", i.ibus = "err")
  BY DEF Cycle
<1>3. ibus_adr' \in Int
  BY AddressStep DEF AddressTypes
<1> SUFFICES ASSUME ic_state' = "REFILL"
             PROVE  /\ Filled' /\ InOrder'
                    /\ refill_valid' # {} => tag_ram'[Index(ibus_adr')] = Invalid
                    /\ /\ Line(pc_fetch') = Line(ibus_adr')
                       /\ pc_fetch' % LINE \in refill_valid_r'
                       => way_dout' = pc_fetch'
                    /\ state' = "IDLE" /\ ~imem_err' => refill_valid' = {}
  BY DEF RefillInv, ic_refill, Line, Index
\* No word of the line is there.
<1>4. ASSUME refill_valid' = {}
      PROVE  Filled' /\ InOrder'
  <2>1. ibus_adr' % LINE \in Offset /\ \A o \in Offset : ~Between(ibus_adr' % LINE, ibus_adr' % LINE, o)
    BY <1>3, AddressParts, BetweenStep
  <2> QED BY <1>4, <2>1 DEF Filled, InOrder, Offset, Between
<1>5. CASE ~ic_refill
  <2>1. refill_valid' = {} /\ refill_valid_r' = {}
    BY <1>1, <1>5 DEF IcState, RefillBits, ic_refill, Cached, Typed, MachineTypes
  <2> QED BY <1>4, <2>1
<1>6. CASE ic_refill
  <2>1. ~imem_err /\ ~(i.ibus = "ack" /\ refill_done(ibus_adr)) /\ refill_valid_r' = refill_valid
    BY <1>1, <1>6 DEF IcState, RefillBits, ic_refill, StartsRefill
  <2>2. CASE refill_valid = {} /\ i.ibus # "ack"
    <3>1. refill_valid' = {}
      BY <1>1, <1>6, <2>2 DEF RefillBits, ic_refill, StartsRefill
    <3> QED BY <1>4, <2>1, <2>2, <3>1
  <2>3. CASE refill_valid # {} /\ i.ibus # "ack"
    <3>1. state = "IC_REFILL"
      BY <1>6, <2>1, <2>3 DEF Cached, RefillInv, Typed, MachineTypes
    <3>2. /\ refill_valid' = refill_valid /\ ibus_adr' = ibus_adr
          /\ ~(state' = "IDLE" /\ ~imem_err')
      BY <1>1, <1>2, <1>6, <2>3, <3>1 DEF RefillBits, ic_refill, StartsRefill, InstructionBus
    <3>3. tag_ram' = tag_ram /\ way_ram' = way_ram /\ way_dout' = way_ram[Place(pc_fetch')]
      BY <1>1, <2>3, TagsStay DEF Memories
    <3>4. Filled' /\ InOrder'
      BY <1>6, <3>2, <3>3 DEF Cached, RefillInv, Filled, InOrder, Line, Place, Between, Offset
    <3>5. refill_valid' # {} => tag_ram'[Index(ibus_adr')] = Invalid
      BY <1>6, <2>3, <3>2, <3>3 DEF Cached, RefillInv
    <3>6. /\ Line(pc_fetch') = Line(ibus_adr') /\ pc_fetch' % LINE \in refill_valid_r'
          => way_dout' = pc_fetch'
      BY <1>1, <1>6, <2>1, <3>2, <3>3 DEF Cached, RefillInv, Filled
    <3> QED BY <3>2, <3>4, <3>5, <3>6
  <2>4. CASE i.ibus = "ack"
    <3> DEFINE c == ibus_adr % LINE
    <3>1. state = "IC_REFILL" /\ ibus_adr' = NextInLine(ibus_adr)
      BY <1>1, <1>2, <2>4 DEF InstructionBus
    <3>2. refill_valid' = refill_valid \cup {c} /\ ~(state' = "IDLE" /\ ~imem_err')
      BY <1>1, <1>2, <1>6, <2>1, <2>4, <3>1
         DEF RefillBits, ic_refill, StartsRefill, InstructionBus
    <3>3. /\ Line(ibus_adr') = Line(ibus_adr) /\ Index(ibus_adr') = Index(ibus_adr)
          /\ ibus_adr' % LINE = Succ(c) /\ c \in Offset /\ Succ(c) \in Offset
      BY <1>1, <3>1, NextParts, AddressParts
    <3>4. \A a \in Int : Line(a) = Line(ibus_adr') /\ a % LINE \in refill_valid'
                            => way_ram'[Place(a)] = a
      <4> SUFFICES ASSUME NEW a \in Int, Line(a) = Line(ibus_adr), a % LINE \in refill_valid \cup {c}
                   PROVE  way_ram'[Place(a)] = a
        BY <3>2, <3>3
      <4>1. CASE a % LINE = c
        BY <1>1, <1>6, <2>4, <4>1, SameWord, WordArrives
      <4>2. CASE a % LINE # c
        <5>1. way_ram[Place(a)] = a
          BY <1>6, <4>2 DEF Cached, RefillInv, Filled
        <5>2. Place(a) # Place(ibus_adr)
          BY <1>1, <4>2, SamePlace
        <5> QED BY <1>6, <2>4, <5>1, <5>2, WordArrives
      <4> QED BY <4>1, <4>2
    <3>5. Filled'
      BY <3>4 DEF Filled, Line, Place
    <3>6. InOrder'
      <4>1. PICK f \in Offset : \A o \in Offset : o \in refill_valid <=> Between(f, c, o)
        BY <1>6 DEF Cached, RefillInv, InOrder
      <4>2. ~Between(f, c, Succ(c))
        BY <1>1, <2>1, <2>4, <3>3, <4>1, NextParts DEF refill_done
      <4>3. \A o \in Offset : o \in refill_valid' <=> Between(f, Succ(c), o)
        BY <3>2, <3>3, <4>1, <4>2, BetweenStep
      <4>4. \A o \in Offset : o \in refill_valid' <=> Between(f, ibus_adr' % LINE, o)
        BY <3>3, <4>3
      <4> QED BY <4>4 DEF InOrder, Offset, Between
    <3>7. tag_ram'[Index(ibus_adr')] = Invalid
      BY <1>1, <1>3, <1>6, <2>1, <2>4, <3>3, WordArrives DEF NewTag, Cached, RefillInv
    <3>8. /\ Line(pc_fetch') = Line(ibus_adr') /\ pc_fetch' % LINE \in refill_valid_r'
          => way_dout' = pc_fetch'
      BY <1>1, <1>6, <2>1, <3>3 DEF Memories, Cached, RefillInv, Filled
    <3> QED BY <3>2, <3>5, <3>6, <3>7, <3>8
  <2> QED BY <2>2, <2>3, <2>4
<1> QED BY <1>5, <1>6

LEMMA CachedStep ==
  ASSUME Typed, cached, Cached, NEW i, InputOK(i), Cycle(i) PROVE Cached'
<1>1. /\ IcState(pc_fetch, ic_req, ibus_adr, i.ibus = "ack", imem_err)
      /\ RefillBits(pc_fetch, ic_req, ibus_adr, i.ibus = "ack")
      /\ Memories(pc_fetch, pc_fetch', ibus_adr, i.ibus = "ack")
      /\ ibus_adr \in Int /\ pc_fetch \in Int /\ ~StartsRead
      /\ InstructionBus(i.ibus = "ack", i.ibus = "err")
  BY CacheCycle DEF Cached, Cycle
<1>2. ibus_adr % LINE \in Offset /\ Tag(ibus_adr) \in Int
  BY <1>1, AddressParts
<1>3. (refill_valid \subseteq Offset)'
  BY <1>1, <1>2 DEF RefillBits, Cached, CacheTypes, Offset
<1>4. NewTag(ibus_adr) \in Int
  <2>1. Index(ibus_adr) \in 0 .. SETS - 1
    BY <1>1, AddressParts
  <2> QED BY <1>2, <2>1 DEF NewTag, Cached, CacheTypes, Invalid
<1>5. (tag_ram \in [0 .. SETS - 1 -> Int])'
  BY <1>1, <1>4, TagsStay DEF Memories, TagWrite, ic_refill, Cached, CacheTypes
<1>6. (state # "READ" /\ BurstInv)'
  BY <1>1 DEF InstructionBus, Cached, BurstInv, Typed, MachineTypes
<1> QED BY <1>3, <1>5, <1>6, LinesStep, OutputsStep, RefillStep DEF Cached, CacheTypes

\* What the cache answers with is the word at pc_fetch.
LEMMA CachedOwn ==
  ASSUME Typed, cached, Cached, NEW i, Cycle(i), decode_insn = NOP \/ decode_insn = pc_decode
  PROVE  (decode_insn = NOP \/ decode_insn = pc_decode)'
<1>1. FetchDecode /\ pc_fetch \in Int
  BY DEF Cycle, Typed, AddressTypes
<1>2. ASSUME imem_ack PROVE way_dout = pc_fetch
  <2>1. CASE ic_state = "READ" /\ hit(pc_fetch)
    BY <1>1, <2>1 DEF hit, Cached, OutputsInv, LinesInv
  <2>2. CASE refill_hit(pc_fetch, ibus_adr)
    BY <2>2 DEF refill_hit, Cached, RefillInv
  <2> QED BY <1>2, <2>1, <2>2 DEF imem_ack, cpu_ack
<1> QED BY <1>1, <1>2 DEF FetchDecode, bus_access_done, imem_dat
-----------------------------------------------------------------------------
(***************************************************************************)
(* Both together, and the way through the pipeline.                        *)
(***************************************************************************)
DecodeOwn == decode_insn = NOP \/ decode_insn = pc_decode
LaterOwn  == /\ execute_insn # NOP /\ Op(execute_insn) # "mtspr" => execute_insn = pc_execute
             /\ ctrl_insn # NOP /\ Op(ctrl_insn) # "mtspr" => ctrl_insn = pc_ctrl

Own == DecodeOwn /\ LaterOwn /\ (cached => Cached) /\ (~cached => Uncached)

LEMMA LaterStep ==
  ASSUME Typed, Control, DecodeOwn, LaterOwn, NEW i, Cycle(i) PROVE LaterOwn'
<1>1. ExecuteStage /\ ControlStage(i.flag)
  BY DEF Cycle
<1>2. execute_insn' # NOP /\ Op(execute_insn') # "mtspr" => execute_insn' = pc_execute'
  BY <1>1 DEF ExecuteStage, DecodeOwn, LaterOwn
<1>3. ctrl_insn' # NOP /\ Op(ctrl_insn') # "mtspr" => ctrl_insn' = pc_ctrl'
  BY <1>1 DEF ControlStage, LaterOwn, Control, RfeInv
<1>4. \A w : Op(w)' = Op(w)
  BY ProgramStays
<1> QED BY <1>2, <1>3, <1>4 DEF LaterOwn

LEMMA OwnStep == ASSUME Typed, Control, Own, [Next]_vars PROVE Own'
<1>1. CASE Next
  <2>1. PICK i : InputOK(i) /\ Cycle(i)
    BY <1>1, NextCycle
  <2>2. cached' = cached /\ LaterOwn'
    BY <2>1, ProgramStays, LaterStep DEF Own
  <2>3. CASE cached
    BY <2>1, <2>2, <2>3, CachedStep, CachedOwn DEF Own, DecodeOwn
  <2>4. CASE ~cached
    <3>1. Uncached'
      BY <2>1, <2>4, UncachedStep DEF Own
    <3> QED BY <2>2, <2>4, <3>1 DEF Own, DecodeOwn, Uncached, ReadInv
  <2> QED BY <2>3, <2>4
<1>2. CASE UNCHANGED vars
  <2>1. Cached' <=> Cached
    BY <1>2 DEF vars, fetch_vars, ic_vars, Cached, CacheTypes, OutputsInv, LinesInv, RefillInv,
                Filled, InOrder, BurstInv, ic_refill
  <2>2. Uncached' <=> Uncached
    BY <1>2 DEF vars, fetch_vars, execute_vars, ctrl_vars, unit_vars, Uncached, BusInv, FetchedInv,
                ReadInv, MispredictInv, SlotInv, DrainInv, Raised, BusError, Mem, Op,
                execute_waiting, lsu_valid, branch_mispredict, ctrl_flag, padv_fetch,
                decode_bubble, padv_decode, ctrl_branch_exception, doing_rfe
  <2> QED BY <1>2, <2>1, <2>2 DEF vars, fetch_vars, execute_vars, ctrl_vars, Own, DecodeOwn, LaterOwn, Op
<1> QED BY <1>1, <1>2

\* An instruction goes through the pipeline with its own address, with and without
\* the instruction cache: no flush, mispredicted branch, exception, l.rfe or refill
\* makes decode take the word of another address (mor1kx_fetch_cappuccino.v:154-289,
\* mor1kx_icache.v:174-240).
THEOREM OwnInstructions == Spec => []OwnInstruction
<1>1. Init => Own
  <2> SUFFICES ASSUME Init PROVE Own
    OBVIOUS
  <2>1. decode_insn = NOP /\ execute_insn = NOP /\ ctrl_insn = NOP
    BY DEF Init
  <2> QED BY <2>1, CachedInit, UncachedInit DEF Own, DecodeOwn, LaterOwn
<1>2. Typed /\ Control /\ Own /\ [Next]_vars => Own'
  BY OwnStep
<1>3. Own => OwnInstruction
  BY DEF Own, DecodeOwn, LaterOwn, OwnInstruction
<1> QED BY <1>1, <1>2, <1>3, ControlAlways, PTL DEF Spec
=============================================================================
