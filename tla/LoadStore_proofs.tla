--------------------------- MODULE LoadStore_proofs --------------------------
(***************************************************************************)
(* Proofs about LoadStore for every depth of the buffer, every geometry of *)
(* the cache and every set of addresses: its registers keep their types,   *)
(* the unit uses the store buffer as the buffer demands, and the stores of *)
(* a program without l.swa are accepted once each and written in order.    *)
(***************************************************************************)
EXTENDS LoadStore, StoreBuffer_proofs

(***************************************************************************)
(* TypeOK is not inductive.  A burst may only be refilling a line of the   *)
(* memory, which needs the cache to be there; another master's word is     *)
(* numbered by how many came before it.                                    *)
(***************************************************************************)
LsInv == /\ TypeOK
         /\ PointersInLap
         /\ others \in 0 .. MaxOthers
         /\ ~DCACHE => dc_state = "IDLE" /\ state # "DC_REFILL"

(***************************************************************************)
(* What the inputs of a cycle are restricted to.                           *)
(***************************************************************************)
InputOK(i) == /\ i.snoop \subseteq Adr
              /\ i.next \subseteq NextInstructions
              /\ i.taken => exception_r
              /\ i.flush = exception_re(i.trap)
              /\ i.write = store_buffer_write(i.flush)
              /\ i.advance = padv_execute(i.flush, i.next)
              /\ ~(i.ack /\ dbus_we_o) /\ i.snoop # {} => others < MaxOthers
              /\ i.ack \/ i.err => dbus_req
              /\ ~(i.ack /\ i.err)
              /\ \E x \in Adr : i.snoop \subseteq {x}
              /\ i.ack => i.snoop = IF dbus_we_o THEN {dbus_adr} ELSE {}
              /\ i.err => errors < MaxErrors
              /\ \E n : i.next \subseteq {n}

LEMMA NextInstructionsTyped == LsInv => NextInstructions \subseteq Instruction
<1> SUFFICES ASSUME LsInv, NEW n \in NextInstructions PROVE n \in Instruction
  OBVIOUS
<1>1. /\ MaxOps \in Nat /\ 0 \in Adr
      /\ ctrl.id \in 0 .. MaxOps
  BY BoundsAssumption, ConfigAssumption DEF LsInv, TypeOK, Instruction, Id
<1>2. ctrl.id # MaxOps => ctrl.id + 1 \in 0 .. MaxOps
  BY <1>1
<1>3. /\ Ops \subseteq Kinds /\ LsuKinds \subseteq Kinds /\ "other" \in Kinds
      /\ Alignments \subseteq BOOLEAN
  BY OpsAssumption, ConfigAssumption DEF Kinds, LsuKinds
<1>4. ASSUME ctrl.id # MaxOps,
             NEW o \in Kinds, NEW a \in Adr, NEW m \in BOOLEAN, NEW x \in Adr
      PROVE  Following(o, a, m, x) \in Instruction
  BY <1>2, <1>4 DEF Instruction, Id, Following
<1>5. Bubble \in Instruction
  BY <1>1, <1>3 DEF Instruction, Id, Bubble
<1>6. LineStarts \subseteq Adr
  BY Zenon DEF LineStarts
<1>7. n = Bubble \/ (ctrl.id # MaxOps /\ n \in Accesses \cup Invalidations \cup Remaining)
  BY DEF NextInstructions
<1>8. CASE ctrl.id # MaxOps /\ n \in Accesses
  BY <1>1, <1>3, <1>4, <1>8 DEF Accesses
<1>9. CASE ctrl.id # MaxOps /\ n \in Invalidations
  <2>1. "invalidate" \in Kinds /\ \E a \in LineStarts : n = Following("invalidate", 0, FALSE, a)
    BY <1>3, <1>9 DEF Invalidations
  <2> QED BY <1>1, <1>4, <1>6, <1>9, <2>1
<1>10. CASE ctrl.id # MaxOps /\ n \in Remaining
  <2>1. \E o \in Kinds : n = Following(o, 0, FALSE, 0)
    BY <1>3, <1>10 DEF Remaining
  <2> QED BY <1>1, <1>4, <1>10, <2>1
<1> QED BY <1>5, <1>7, <1>8, <1>9, <1>10

LEMMA InputsTyped ==
  ASSUME LsInv, NEW answer \in Answers, NEW trap \in Traps, NEW taken \in Takes,
         NEW snoop \in Snoops(answer), NEW next \in Nexts
  PROVE  InputOK(Given(answer, snoop, next, trap, taken))
<1>1. snoop \subseteq Adr
  BY DEF Snoops, LsInv, TypeOK
<1>2. next \subseteq NextInstructions
  BY DEF Nexts
<1>3. ~(answer = "ack" /\ dbus_we_o) /\ snoop # {} => others < MaxOthers
  BY DEF Snoops
<1>4. taken => exception_r
  BY DEF Takes
<1>5. answer \in {"ack", "err"} => dbus_req
  BY DEF Answers
<1>6. \E x \in Adr : snoop \subseteq {x}
  <2>1. snoop = {} \/ \E x \in Adr : snoop = {x}
    BY DEF Snoops, LsInv, TypeOK
  <2> QED BY <2>1, ConfigAssumption
<1>7. answer = "ack" => snoop = IF dbus_we_o THEN {dbus_adr} ELSE {}
  BY DEF Snoops
<1>8. answer = "err" => errors < MaxErrors
  BY DEF Answers
<1>9. \E n : next \subseteq {n}
  BY DEF Nexts
<1> QED BY <1>1, <1>2, <1>3, <1>4, <1>5, <1>6, <1>7, <1>8, <1>9 DEF InputOK, Given

(***************************************************************************)
(* The buffer: the unit never writes it when it is full and never reads it *)
(* when it is empty and stays so, and it writes entries.                   *)
(***************************************************************************)
LEMMA BufferStep ==
  ASSUME LsInv, NEW i, InputOK(i), Buffer(i)
  PROVE  SBNext /\ IInv'
<1> DEFINE din == [adr |-> ctrl.adr, id |-> ctrl.id, atomic |-> ctrl_op_lsu_atomic]
<1>1. din \in Entry
  <2>1. ctrl_op_lsu_atomic \in BOOLEAN
    BY DEF ctrl_op_lsu_atomic
  <2>2. ctrl.adr \in Adr /\ ctrl.id \in Id
    BY DEF LsInv, TypeOK, Instruction
  <2> QED BY <2>1, <2>2, EntryAssumption DEF Store
<1>2. i.write \in BOOLEAN /\ (i.write => ~full)
  BY DEF InputOK, store_buffer_write
<1>3. store_buffer_read(i) \in BOOLEAN /\ (store_buffer_read(i) => ~empty \/ i.write)
  BY DEF store_buffer_read
<1>4. Contract(i.write, store_buffer_read(i)) /\ Cycle(i.write, store_buffer_read(i), din)
  BY <1>2, <1>3 DEF Contract, Buffer
<1>5. SBNext
  BY <1>1, <1>2, <1>3, <1>4 DEF SBNext
<1>6. IInv
  BY DEF LsInv, TypeOK, IInv
<1> QED BY <1>5, <1>6, NextIInv

(***************************************************************************)
(* The control stage holds an instruction of the program or what is left   *)
(* of one.                                                                 *)
(***************************************************************************)
LEMMA ControlStep ==
  ASSUME LsInv, NEW i, InputOK(i), ControlStage(i)
  PROVE  ctrl' \in Instruction
<1> DEFINE next    == IF i.advance THEN CHOOSE n \in i.next : TRUE ELSE ctrl
           failed  == ctrl_except_align \/ ctrl_except_dbus
           arrives == IF i.flush /\ ~i.advance THEN "other" ELSE next.op
           op      == IF failed /\ arrives \in LsuKinds THEN "other" ELSE arrives
           adr     == IF next.op \in LsuKinds THEN next.adr ELSE ctrl.adr
           misaligned == IF next.op \in LsuKinds THEN next.misaligned ELSE ctrl.misaligned
<1>1. ctrl \in Instruction
  BY DEF LsInv, TypeOK
<1>2. next \in Instruction
  BY <1>1, NextInstructionsTyped DEF InputOK, padv_execute
<1>3. ctrl' = [next EXCEPT !.op = op, !.adr = adr, !.misaligned = misaligned]
  BY Zenon DEF ControlStage
<1> HIDE DEF next
<1>4. op \in Kinds /\ adr \in Adr /\ misaligned \in BOOLEAN
  BY <1>1, <1>2 DEF Instruction, Kinds
<1> HIDE DEF op, adr, misaligned
<1> QED BY <1>2, <1>3, <1>4 DEF Instruction

(***************************************************************************)
(* The bus machine: addresses stay in the memory, also when a burst wraps, *)
(* and without a cache nothing is refilled.                                *)
(***************************************************************************)
LEMMA ValuesTyped == LsInv => /\ Id \subseteq Val
                              /\ ctrl.id \in Id /\ ctrl.adr \in Adr
                              /\ fifo_dout.adr \in Adr /\ fifo_dout.id \in Id
                              /\ mem[dbus_adr] \in Val
<1> SUFFICES ASSUME LsInv PROVE /\ Id \subseteq Val
                                /\ ctrl.id \in Id /\ ctrl.adr \in Adr
                                /\ fifo_dout.adr \in Adr /\ fifo_dout.id \in Id
                                /\ mem[dbus_adr] \in Val
  OBVIOUS
<1>1. Id \subseteq Val
  BY BoundsAssumption DEF Id, Val
<1>2. ctrl.id \in Id /\ ctrl.adr \in Adr
  BY DEF LsInv, TypeOK, Instruction
<1>3. fifo_dout \in Store
  BY EntryAssumption DEF LsInv, TypeOK, SBTypeOK
<1>4. mem[dbus_adr] \in Val
  BY DEF LsInv, TypeOK
<1> QED BY <1>1, <1>2, <1>3, <1>4 DEF Store

LEMMA BusStep ==
  ASSUME LsInv, NEW i, InputOK(i), BusMachine(i), Caching(i)
  PROVE  /\ state' \in {"IDLE", "DC_REFILL", "READ", "WRITE"}
         /\ dbus_adr' \in Adr /\ dbus_dat' \in Val
         /\ ~DCACHE => dc_state' = "IDLE" /\ state' # "DC_REFILL"
<1>1. /\ dbus_adr \in Adr /\ dbus_dat \in Val
      /\ ~DCACHE => dc_state = "IDLE" /\ state # "DC_REFILL"
  BY DEF LsInv, TypeOK
<1>2. ~DCACHE => dc_state' = "IDLE"
  BY <1>1 DEF Caching, dc_vars
<1>3. CASE IDLE(i)
  <2>1. ~DCACHE => ~refill_req(Inputs(i))
    BY <1>1 DEF refill_req, refill
  <2>2. ~DCACHE => IdleNext(i) # "refill"
    BY <2>1 DEF IdleNext
  <2>3. dbus_adr' \in {ctrl.adr, 0} /\ dbus_dat' = dbus_dat
    BY <1>3 DEF IDLE, IdleDefaults
  <2>4. /\ state' \in {"IDLE", "DC_REFILL", "READ", "WRITE"}
        /\ state' = "DC_REFILL" => IdleNext(i) = "refill"
    BY <1>3 DEF IDLE
  <2> QED BY <1>1, <1>2, <2>2, <2>3, <2>4, ValuesTyped, ConfigAssumption
<1>4. CASE DC_REFILL(i)
  <2>1. DCACHE
    BY <1>1, <1>4, ConfigAssumption DEF DC_REFILL
  <2>2. NextInLine(dbus_adr) \in Adr
    BY <1>1, <2>1, LinesAssumption
  <2> QED BY <1>1, <1>4, <2>1, <2>2 DEF DC_REFILL
<1>5. CASE READ(i)
  BY <1>1, <1>2, <1>5, ValuesTyped DEF READ
<1>6. CASE WRITE(i)
  BY <1>1, <1>2, <1>6, ValuesTyped DEF WRITE
<1> QED BY <1>3, <1>4, <1>5, <1>6 DEF BusMachine

(***************************************************************************)
(* The memory, and the registers that keep an address or a PC.             *)
(***************************************************************************)
LEMMA MemoryStep ==
  ASSUME LsInv, NEW i, InputOK(i), Memory(i)
  PROVE  mem' \in [Adr -> Val] /\ others' \in 0 .. MaxOthers
<1>1. MaxOthers \in Nat /\ MaxOps \in Nat /\ others \in 0 .. MaxOthers
  BY BoundsAssumption DEF LsInv
<1>2. mem \in [Adr -> Val] /\ dbus_adr \in Adr /\ dbus_dat \in Val
  BY DEF LsInv, TypeOK
<1>3. ~(i.ack /\ dbus_we_o) /\ i.snoop # {} => others < MaxOthers
  BY DEF InputOK
<1>4. others' \in 0 .. MaxOthers
  BY <1>1, <1>3 DEF Memory
<1>5. CASE i.ack /\ dbus_we_o
  BY <1>2, <1>4, <1>5 DEF Memory
<1>6. CASE ~(i.ack /\ dbus_we_o)
  <2>1. i.snoop = {} \/ -(others + 1) \in Val
    BY <1>1, <1>3, <1>6 DEF Val
  <2> QED BY <1>2, <1>4, <1>6, <2>1 DEF Memory
<1> QED BY <1>5, <1>6
-----------------------------------------------------------------------------
(***************************************************************************)
(* The invariant, and what follows from it.                                *)
(***************************************************************************)
LEMMA EdgeKeeps ==
  ASSUME LsInv, NEW i, InputOK(i), Edge(i)
  PROVE  SBNext /\ LsInv'
<1>1. SBNext /\ IInv'
  BY BufferStep DEF Edge
<1>2. ctrl' \in Instruction
  BY ControlStep DEF Edge
<1>3. /\ state' \in {"IDLE", "DC_REFILL", "READ", "WRITE"}
      /\ dbus_adr' \in Adr /\ dbus_dat' \in Val
      /\ ~DCACHE => dc_state' = "IDLE" /\ state' # "DC_REFILL"
  BY BusStep DEF Edge
<1>4. mem' \in [Adr -> Val] /\ others' \in 0 .. MaxOthers
  BY MemoryStep DEF Edge
<1>5. atomic_addr' \in Adr
  BY ValuesTyped DEF Edge, Atomics, LsInv, TypeOK
<1>6. spr_epcr' \in Id
  BY ValuesTyped DEF Edge, ExceptionPc, LsInv, TypeOK
<1> QED BY <1>1, <1>2, <1>3, <1>4, <1>5, <1>6 DEF LsInv, TypeOK, IInv

LEMMA NextKeeps == LsInv /\ [Next]_vars => LsInv' /\ [SBNext]_sb_vars
<1>1. ASSUME LsInv, Next PROVE LsInv' /\ SBNext
  <2>1. PICK answer \in Answers, trap \in Traps, taken \in Takes :
           \E snoop \in Snoops(answer), next \in Nexts :
              Edge(Given(answer, snoop, next, trap, taken))
    BY <1>1 DEF Next, Clock
  <2>2. PICK snoop \in Snoops(answer), next \in Nexts :
           Edge(Given(answer, snoop, next, trap, taken))
    BY <2>1
  <2>3. InputOK(Given(answer, snoop, next, trap, taken))
    BY <1>1, InputsTyped
  <2> QED BY <1>1, <2>2, <2>3, EdgeKeeps
<1>2. ASSUME LsInv, UNCHANGED vars PROVE LsInv' /\ UNCHANGED sb_vars
  BY <1>2 DEF LsInv, TypeOK, SBTypeOK, PointersInLap, Count, vars, sb_vars, machine, status, atomics,
              caching, dc_vars, pipeline, bus
<1> QED BY <1>1, <1>2

LEMMA InitKeeps == Init => LsInv /\ SBInit
<1> SUFFICES ASSUME Init PROVE LsInv /\ SBInit
  OBVIOUS
<1>1. NoStore \in Entry
  <2>1. 0 \in Adr /\ 0 \in Id
    BY ConfigAssumption, BoundsAssumption DEF Id
  <2> QED BY <2>1, EntryAssumption DEF NoStore, Store
<1>2. SBInit
  BY <1>1, DepthAssumption DEF Init, SBInit
<1>3. IInv
  BY <1>2, InitIInv
<1>4. ctrl \in Instruction /\ spr_epcr \in Id
  BY ConfigAssumption, BoundsAssumption DEF Init, Instruction, Kinds, Id
<1>5. /\ dbus_adr \in Adr /\ dbus_dat \in Val /\ atomic_addr \in Adr
      /\ mem \in [Adr -> Val] /\ others \in 0 .. MaxOthers
  BY ConfigAssumption, BoundsAssumption DEF Init, Val
<1>6. state = "IDLE" /\ dc_state = "IDLE"
  BY DEF Init, DcInit
<1> QED BY <1>2, <1>3, <1>4, <1>5, <1>6 DEF LsInv, TypeOK, IInv

\* The inductive invariant of the load store unit.
THEOREM LoadStoreInvariance == Spec => []LsInv
  BY InitKeeps, NextKeeps, PTL DEF Spec

\* The registers of the unit keep their types, for every cache and memory.
THEOREM LoadStoreTyped == Spec => []TypeOK
<1>1. LsInv => TypeOK
  BY DEF LsInv
<1> QED BY <1>1, LoadStoreInvariance, PTL

\* The unit keeps the contract of its buffer: it never writes it when it is
\* full and never reads it when it is empty (mor1kx_lsu_cappuccino.v:605-622).
THEOREM ContractKept == Spec => KeepsContract
  BY InitKeeps, NextKeeps, LoadStoreInvariance, PTL DEF Spec, KeepsContract, SBSpec

\* So the buffer is a first in first out queue also where the unit drives it.
THEOREM BufferIsFifo == Spec => ImplementsFifo
<1>1. KeepsContract => ImplementsFifo
  BY Refinement DEF KeepsContract
<1> QED BY <1>1, ContractKept, PTL
-----------------------------------------------------------------------------
(***************************************************************************)
(* The control stage.  An exception empties it and keeps it empty until it *)
(* is taken.                                                               *)
(***************************************************************************)
StageInv ==
    /\ exception_taken => exception_r
    /\ exception_r => ctrl.op \notin LsuKinds
    /\ exception_r /\ ~exception_taken => decode_execute_halt
    /\ ctrl.op \in Ops \cup {"other"}
    /\ ctrl.op \in LsuKinds => ~ctrl.bubble
    /\ padv_ctrl => ~access_done
    /\ ctrl_except_dbus /\ ~padv_ctrl => except_dbus \/ store_buffer_err
    /\ ctrl_except_align /\ ~padv_ctrl => ctrl.misaligned

LEMMA FollowingInstructions ==
  ASSUME NEW n \in NextInstructions
  PROVE  /\ n.op \in Ops \cup {"other"}
         /\ n.op \in LsuKinds => ~n.bubble /\ n.id = ctrl.id + 1
         /\ n.id = ctrl.id \/ n.id = ctrl.id + 1
<1>1. n = Bubble \/ n \in Accesses \cup Invalidations \cup Remaining
  BY DEF NextInstructions
<1>2. CASE n = Bubble
  BY <1>2 DEF Bubble, LsuKinds
<1>3. ASSUME NEW o \in Ops, NEW a, NEW m, NEW x, n = Following(o, a, m, x)
      PROVE  n.op \in Ops /\ ~n.bubble /\ n.id = ctrl.id + 1
  BY <1>3 DEF Following
<1>4. CASE n \in Accesses
  BY <1>3, <1>4 DEF Accesses
<1>5. CASE n \in Invalidations
  BY <1>3, <1>5 DEF Invalidations
<1>6. CASE n \in Remaining
  BY <1>3, <1>6 DEF Remaining
<1> QED BY <1>1, <1>2, <1>3, <1>4, <1>5, <1>6

(***************************************************************************)
(* How the control stage moves: on to the next instruction, or on the spot *)
(* when it only loses what an exception took.                              *)
(***************************************************************************)
LEMMA ControlMoves ==
  ASSUME LsInv, NEW i, InputOK(i), ControlStage(i)
  PROVE  /\ i.advance => /\ ctrl'.op \in Ops \cup {"other"}
                         /\ ctrl'.id = ctrl.id \/ ctrl'.id = ctrl.id + 1
                         /\ ctrl'.op \in LsuKinds => ctrl'.id = ctrl.id + 1 /\ ~ctrl'.bubble
         /\ ~i.advance => /\ ctrl'.id = ctrl.id /\ ctrl'.bubble = ctrl.bubble
                          /\ ctrl'.op \in LsuKinds => ctrl'.adr = ctrl.adr
                          /\ ctrl'.misaligned = ctrl.misaligned
                          /\ ctrl'.op = ctrl.op \/ ctrl'.op = "other"
                          /\ i.flush => ctrl'.op = "other"
                          /\ ctrl'.op # ctrl.op =>
                                i.flush \/ ctrl_except_align \/ ctrl_except_dbus
<1> DEFINE next    == IF i.advance THEN CHOOSE n \in i.next : TRUE ELSE ctrl
           failed  == ctrl_except_align \/ ctrl_except_dbus
           arrives == IF i.flush /\ ~i.advance THEN "other" ELSE next.op
           op      == IF failed /\ arrives \in LsuKinds THEN "other" ELSE arrives
           adr     == IF next.op \in LsuKinds THEN next.adr ELSE ctrl.adr
           misaligned == IF next.op \in LsuKinds THEN next.misaligned ELSE ctrl.misaligned
<1>1. ctrl \in Instruction
  BY DEF LsInv, TypeOK
<1>2. next \in Instruction
  BY <1>1, NextInstructionsTyped DEF InputOK, padv_execute
<1>3. ctrl' = [next EXCEPT !.op = op, !.adr = adr, !.misaligned = misaligned]
  BY Zenon DEF ControlStage
<1>4. i.advance => next \in NextInstructions
  BY DEF InputOK, padv_execute
<1>5. ~i.advance => next = ctrl
  OBVIOUS
<1> HIDE DEF next
<1>6. /\ ctrl'.op = op /\ ctrl'.misaligned = misaligned /\ ctrl'.adr = adr
      /\ ctrl'.id = next.id /\ ctrl'.bubble = next.bubble
  BY <1>2, <1>3 DEF Instruction
<1>7. "other" \notin LsuKinds
  BY DEF LsuKinds
<1>8. CASE i.advance
  BY <1>4, <1>6, <1>7, <1>8, FollowingInstructions
<1>9. CASE ~i.advance
  BY <1>5, <1>6, <1>9
<1> QED BY <1>8, <1>9

LEMMA StageStep ==
  ASSUME LsInv, StageInv, NEW i, InputOK(i), Edge(i)
  PROVE  StageInv'
<1>1. i.advance => ~i.flush /\ ~decode_execute_halt
  BY DEF InputOK, padv_execute
<1>2. i.flush = (exception(i.trap) /\ ~exception_r /\ ~exception_taken)
  BY DEF InputOK, exception_re
<1>3. /\ exception_r' = IF exception_taken THEN FALSE ELSE exception_r \/ exception(i.trap)
      /\ exception_taken' = (~exception_taken /\ exception_r /\ i.taken)
      /\ decode_execute_halt' = IF decode_execute_halt THEN ~i.taken
                                ELSE exception(i.trap) /\ ~exception_taken
  BY DEF Edge, ExceptionSequence
<1>4. i.taken => exception_r
  BY DEF InputOK
<1>5. /\ padv_ctrl' = i.advance
      /\ ctrl_except_dbus' = (~i.flush /\ (except_dbus \/ store_buffer_err))
      /\ ctrl_except_align' = (~i.flush /\ except_align)
  BY DEF Edge, PadvCtrl, CtrlExceptions
<1>6. /\ access_done' = IF i.advance THEN FALSE ELSE lsu_ack(i.flush) \/ access_done
      /\ except_dbus' = IF i.err THEN TRUE ELSE IF i.advance \/ i.flush THEN FALSE
                        ELSE except_dbus
      /\ store_buffer_err' = IF i.flush THEN FALSE
                             ELSE store_buffer_err \/ (i.err /\ dbus_we_o)
  BY DEF Edge, AccessDone, ExceptDbus, StoreBufferErr
<1>7. /\ i.advance => /\ ctrl'.op \in Ops \cup {"other"}
                      /\ ctrl'.op \in LsuKinds => ~ctrl'.bubble
      /\ ~i.advance => /\ ctrl'.bubble = ctrl.bubble /\ ctrl'.misaligned = ctrl.misaligned
                       /\ ctrl'.op = ctrl.op \/ ctrl'.op = "other"
                       /\ i.flush => ctrl'.op = "other"
  BY ControlMoves DEF Edge
<1>8. "other" \notin LsuKinds
  BY DEF LsuKinds
<1>9. exception_taken' => exception_r'
  BY <1>3
<1>10. exception_r' => ctrl'.op \notin LsuKinds
  BY <1>1, <1>2, <1>3, <1>7, <1>8 DEF StageInv
<1>11. exception_r' /\ ~exception_taken' => decode_execute_halt'
  BY <1>3, <1>4 DEF StageInv
<1>12. ctrl'.op \in Ops \cup {"other"} /\ (ctrl'.op \in LsuKinds => ~ctrl'.bubble)
  BY <1>7, <1>8 DEF StageInv
<1>13. padv_ctrl' => ~access_done'
  BY <1>5, <1>6
<1>14. ctrl_except_dbus' /\ ~padv_ctrl' => except_dbus' \/ store_buffer_err'
  BY <1>5, <1>6
<1>15. ctrl_except_align' /\ ~padv_ctrl' => ctrl'.misaligned
  BY <1>5, <1>7 DEF except_align
<1> QED BY <1>9, <1>10, <1>11, <1>12, <1>13, <1>14, <1>15 DEF StageInv

-----------------------------------------------------------------------------
(***************************************************************************)
(* Stores of programs without l.swa.  (An l.swa can leave the control      *)
(* stage by the write_done of a store before it, mor1kx_lsu_cappuccino.v:  *)
(* 381-386, while it still waits for room in the buffer.)                  *)
(*                                                                         *)
(* A store that waits for room is still in the stage, or the stage is      *)
(* flushed in this cycle.                                                  *)
(***************************************************************************)
PendingInv ==
    store_buffer_write_pending =>
        /\ ~padv_ctrl /\ ~access_done /\ ~ctrl.misaligned
        /\ \/ ctrl.op = "store"
           \/ /\ ctrl_stage_exceptions /\ ~exception_r
              /\ ctrl_except_dbus \/ ctrl_except_align

\* The instruction interrupted last is not the one in the stage; a store that is
\* done has been accepted.
AcceptInv ==
    /\ log.interrupted \in Int /\ log.interrupted <= ctrl.id
    /\ ctrl.op \in LsuKinds => log.interrupted < ctrl.id
    /\ access_done /\ ctrl.op = "store" => accepted.id = ctrl.id

(***************************************************************************)
(* What an acknowledge of the store in the stage means: the buffer takes   *)
(* it, now or before.                                                      *)
(***************************************************************************)
LEMMA StoreAcknowledged ==
  ASSUME StageInv, NEW i, InputOK(i), Edge(i), ctrl.op = "store"
  PROVE  /\ lsu_ack(i.flush) = i.write
         /\ i.advance => i.write \/ access_done
         /\ i.write => accepted'.id = ctrl.id
<1>1. ctrl_op_lsu_store /\ ~ctrl_op_lsu_atomic /\ ctrl_op_lsu
  BY DEF ctrl_op_lsu_store, ctrl_op_lsu_atomic, ctrl_op_lsu
<1>2. lsu_ack(i.flush) = i.write
  BY <1>1 DEF lsu_ack, InputOK
<1>3. i.advance => lsu_valid(i.flush)
  BY <1>1 DEF InputOK, padv_execute, ctrl_stall
<1>4. i.write => accepted'.id = ctrl.id
  BY DEF Edge, Buffer, Cycle
<1> QED BY <1>2, <1>3, <1>4 DEF lsu_valid

LEMMA PendingStep ==
  ASSUME "swa" \notin Ops, LsInv, StageInv, PendingInv, NEW i, InputOK(i), Edge(i)
  PROVE  PendingInv'
<1> SUFFICES ASSUME store_buffer_write_pending'
             PROVE  /\ ~padv_ctrl' /\ ~access_done' /\ ~ctrl'.misaligned
                    /\ \/ ctrl'.op = "store"
                       \/ /\ ctrl_stage_exceptions' /\ ~exception_r'
                          /\ ctrl_except_dbus' \/ ctrl_except_align'
  BY DEF PendingInv
<1>1. /\ ~i.write /\ ~i.flush
      /\ \/ store_buffer_write_pending
         \/ ctrl_op_lsu_store /\ padv_ctrl /\ ~dbus_stall(i.flush)
  BY DEF Edge, WritePending
<1>2. i.flush = (exception(i.trap) /\ ~exception_r /\ ~exception_taken)
  BY DEF InputOK, exception_re
\* If the stage had lost the store it would be flushed now.
<1>3. ctrl.op = "store" /\ ~ctrl.misaligned /\ ~access_done
  <2>1. CASE store_buffer_write_pending
    <3>1. ctrl_stage_exceptions /\ (ctrl_except_dbus \/ ctrl_except_align)
            => exception(i.trap)
      BY DEF exception, exception_pending
    <3> QED BY <1>1, <1>2, <2>1, <3>1 DEF PendingInv, StageInv
  <2>2. CASE ctrl_op_lsu_store /\ padv_ctrl /\ ~dbus_stall(i.flush)
    BY <2>2 DEF ctrl_op_lsu_store, ctrl_op_lsu, dbus_stall, except_align, StageInv, LsuKinds
  <2> QED BY <1>1, <2>1, <2>2
<1>4. ~exception_r /\ ~exception_taken /\ ~ctrl.bubble /\ ~exception(i.trap)
  BY <1>1, <1>2, <1>3 DEF StageInv, LsuKinds
<1>5. ~i.advance
  BY <1>1, <1>3, StoreAcknowledged
<1>6. ~padv_ctrl' /\ ~access_done' /\ ~exception_r'
  BY <1>1, <1>3, <1>4, <1>5, StoreAcknowledged
  DEF Edge, PadvCtrl, AccessDone, ExceptionSequence
<1>7. /\ ctrl'.misaligned = ctrl.misaligned
      /\ ctrl'.op = ctrl.op \/ ctrl_except_align \/ ctrl_except_dbus
  BY <1>1, <1>5, ControlMoves DEF Edge
\* An exception of the unit that does not flush the stage is not of the cycle in
\* which the store came, so its cause is still there.
<1>8. CASE ctrl_except_align \/ ctrl_except_dbus
  <2>1. ~padv_ctrl
    BY <1>4, <1>8 DEF exception, exception_pending
  <2>2. except_dbus \/ store_buffer_err
    BY <1>3, <1>8, <2>1 DEF StageInv
  <2>3. ctrl_stage_exceptions' /\ ctrl_except_dbus'
    BY <1>1, <1>8, <2>2 DEF Edge, CtrlStageExceptions, CtrlExceptions
  <2> QED BY <1>3, <1>6, <1>7, <2>3
<1>9. CASE ~(ctrl_except_align \/ ctrl_except_dbus)
  BY <1>3, <1>6, <1>7, <1>9
<1> QED BY <1>8, <1>9

LEMMA AcceptStep ==
  ASSUME "swa" \notin Ops, LsInv, StageInv, AcceptInv, NEW i, InputOK(i), Edge(i)
  PROVE  AcceptInv'
<1>1. log'.interrupted = IF i.flush /\ ~store_buffer_err THEN ctrl.id ELSE log.interrupted
  BY DEF Edge, Log
<1>2. i.advance => ~i.flush
  BY DEF InputOK, padv_execute
<1>3. /\ i.advance => /\ ctrl'.id = ctrl.id \/ ctrl'.id = ctrl.id + 1
                      /\ ctrl'.op \in LsuKinds => ctrl'.id = ctrl.id + 1
      /\ ~i.advance => /\ ctrl'.id = ctrl.id
                       /\ ctrl'.op = ctrl.op \/ ctrl'.op = "other"
                       /\ i.flush => ctrl'.op = "other"
  BY ControlMoves DEF Edge
<1>4. ctrl.id \in Int
  BY ValuesTyped, BoundsAssumption DEF Id
<1>5. "other" \notin LsuKinds
  BY DEF LsuKinds
<1>6. log'.interrupted \in Int /\ log'.interrupted <= ctrl'.id
  BY <1>1, <1>2, <1>3, <1>4 DEF AcceptInv
<1>7. ctrl'.op \in LsuKinds => log'.interrupted < ctrl'.id
  BY <1>1, <1>2, <1>3, <1>4, <1>5 DEF AcceptInv
<1>8. ASSUME access_done', ctrl'.op = "store" PROVE accepted'.id = ctrl'.id
  <2>1. ~i.advance /\ (lsu_ack(i.flush) \/ access_done)
    BY <1>8 DEF Edge, AccessDone
  <2>2. ctrl.op = "store" /\ ctrl'.id = ctrl.id
    BY <1>3, <1>8, <2>1
  <2>3. ~i.write => accepted' = accepted
    BY DEF Edge, Buffer, Cycle
  <2> QED BY <2>1, <2>2, <2>3, StoreAcknowledged DEF AcceptInv
<1> QED BY <1>6, <1>7, <1>8 DEF AcceptInv

(***************************************************************************)
(* The invariant of the stores, and the two properties it is for.          *)
(***************************************************************************)
StoreInv == LsInv /\ StageInv /\ PendingInv /\ AcceptInv

LEMMA InitStores == Init => StoreInv
<1>1. Init => LsInv
  BY InitKeeps
<1>2. Init => StageInv /\ PendingInv
  BY DEF Init, StageInv, PendingInv, LsuKinds
<1>3. Init => AcceptInv
  BY DEF Init, AcceptInv, LsuKinds
<1> QED BY <1>1, <1>2, <1>3 DEF StoreInv

LEMMA StepOfNext ==
  ASSUME LsInv, Next
  PROVE  \E answer \in Answers, trap \in Traps, taken \in Takes :
            \E snoop \in Snoops(answer), next \in Nexts :
               LET i == Given(answer, snoop, next, trap, taken)
               IN  InputOK(i) /\ Edge(i)
BY InputsTyped DEF Next, Clock

LEMMA StoresKept ==
  ASSUME "swa" \notin Ops, StoreInv, [Next]_vars
  PROVE  StoreInv'
<1>1. CASE Next
  <2>1. PICK answer \in Answers, trap \in Traps, taken \in Takes :
           \E snoop \in Snoops(answer), next \in Nexts :
              LET i == Given(answer, snoop, next, trap, taken)
              IN  InputOK(i) /\ Edge(i)
    BY <1>1, StepOfNext DEF StoreInv
  <2>2. PICK snoop \in Snoops(answer), next \in Nexts :
           LET i == Given(answer, snoop, next, trap, taken)
           IN  InputOK(i) /\ Edge(i)
    BY <2>1
  <2> QED BY <2>2, EdgeKeeps, StageStep, PendingStep, AcceptStep DEF StoreInv
<1>2. CASE UNCHANGED vars
  <2>1. LsInv'
    BY <1>2, NextKeeps DEF StoreInv
  <2> QED BY <1>2, <2>1 DEF StoreInv, StageInv, PendingInv, AcceptInv, vars, sb_vars, machine,
                            status, atomics, caching, pipeline, bus
<1> QED BY <1>1, <1>2

LEMMA StepAccepts ==
  ASSUME "swa" \notin Ops, StoreInv, NEW i, InputOK(i), Edge(i)
  PROVE  /\ padv_ctrl' /\ ctrl_op_lsu_store => accepted'.id = ctrl.id
         /\ accepted' # accepted => /\ ctrl_op_lsu_store /\ ~ctrl.misaligned
                                    /\ log'.interrupted # ctrl.id
<1>1. StageInv /\ PendingInv /\ AcceptInv
  BY DEF StoreInv
<1>2. ctrl_op_lsu_store <=> ctrl.op = "store"
  BY <1>1 DEF ctrl_op_lsu_store, StageInv, LsuKinds
<1>3. ASSUME padv_ctrl', ctrl.op = "store" PROVE accepted'.id = ctrl.id
  <2>1. i.advance /\ (~i.write => accepted' = accepted)
    BY <1>3 DEF Edge, PadvCtrl, Buffer, Cycle
  <2> QED BY <1>1, <1>3, <2>1, StoreAcknowledged DEF AcceptInv
<1>4. ASSUME accepted' # accepted
      PROVE  ctrl.op = "store" /\ ~ctrl.misaligned /\ log'.interrupted # ctrl.id
  <2>1. i.write
    BY <1>4 DEF Edge, Buffer, Cycle
  <2>2. /\ (ctrl_op_lsu_store /\ padv_ctrl) \/ store_buffer_write_pending
        /\ ~except_align /\ ~i.flush
    BY <2>1 DEF InputOK, store_buffer_write, dbus_stall
  <2>3. i.flush = (exception(i.trap) /\ ~exception_r /\ ~exception_taken)
    BY DEF InputOK, exception_re
  <2>4. ctrl.op = "store"
    BY <1>1, <1>2, <2>2, <2>3
    DEF PendingInv, StageInv, exception, exception_pending
  <2>5. ~ctrl.misaligned
    BY <2>2, <2>4 DEF except_align, ctrl_op_lsu, ctrl_op_lsu_store
  <2>6. log'.interrupted = log.interrupted
    BY <2>2 DEF Edge, Log
  <2> QED BY <1>1, <2>4, <2>5, <2>6, ValuesTyped, BoundsAssumption
          DEF AcceptInv, LsuKinds, StoreInv, Id
<1> QED BY <1>2, <1>3, <1>4
LEMMA StepKeepsPromises ==
  ASSUME "swa" \notin Ops, StoreInv, [Next]_vars
  PROVE  /\ [padv_ctrl' /\ ctrl_op_lsu_store => accepted'.id = ctrl.id]_vars
         /\ [accepted' # accepted => /\ ctrl_op_lsu_store /\ ~ctrl.misaligned
                                     /\ log'.interrupted # ctrl.id]_vars
<1>1. CASE Next
  <2>1. PICK answer \in Answers, trap \in Traps, taken \in Takes :
           \E snoop \in Snoops(answer), next \in Nexts :
              LET i == Given(answer, snoop, next, trap, taken)
              IN  InputOK(i) /\ Edge(i)
    BY <1>1, StepOfNext DEF StoreInv
  <2>2. PICK snoop \in Snoops(answer), next \in Nexts :
           LET i == Given(answer, snoop, next, trap, taken)
           IN  InputOK(i) /\ Edge(i)
    BY <2>1
  <2> QED BY <2>2, StepAccepts
<1>2. CASE UNCHANGED vars
  BY <1>2
<1> QED BY <1>1, <1>2

\* The invariant of the stores.
THEOREM StoreInvariance == ASSUME "swa" \notin Ops
                           PROVE  Spec => []StoreInv
  BY InitStores, StoresKept, PTL DEF Spec

\* A store leaves the control stage only after the buffer has accepted it, for
\* every depth of the buffer, whatever fails or interrupts it (:381-386, 600).
THEOREM StoresNotSkipped == ASSUME "swa" \notin Ops
                            PROVE  Spec => StoreNotSkipped
  BY StoreInvariance, StepKeepsPromises, PTL DEF Spec, StoreNotSkipped

\* The buffer takes only the aligned store in the control stage, and not one that
\* an exception interrupts and that is executed again (:577-600).
THEOREM StoresAccepted == ASSUME "swa" \notin Ops
                          PROVE  Spec => AcceptsItsStore
  BY StoreInvariance, StepKeepsPromises, PTL DEF Spec, AcceptsItsStore
-----------------------------------------------------------------------------
(***************************************************************************)
(* The order of the stores.  Ascending sequences of stores, and what goes  *)
(* in at the end and comes out at the front.                               *)
(***************************************************************************)
Ascending(s) == \A j, k \in 1 .. Len(s) : j < k => s[j].id < s[k].id
Above(x, s)  == \A k \in 1 .. Len(s) : x < s[k].id
UpTo(s, n)   == \A k \in 1 .. Len(s) : s[k].id <= n

LEMMA StoreIds == \A e \in Store : e.id \in Int
  BY BoundsAssumption DEF Store, Id

LEMMA TailOrder ==
  ASSUME NEW q \in Seq(Store), q # <<>>, Ascending(q)
  PROVE  /\ Head(q) \in Store
         /\ Ascending(Tail(q)) /\ Above(Head(q).id, Tail(q))
         /\ \A x \in Int : Above(x, q) => x < Head(q).id /\ Above(x, Tail(q))
         /\ \A n \in Int : UpTo(q, n) => Head(q).id <= n /\ UpTo(Tail(q), n)
<1>1. /\ Len(q) \in Nat /\ Len(q) > 0
      /\ Head(q) = q[1] /\ Head(q) \in Store
      /\ Len(Tail(q)) = Len(q) - 1
      /\ \A k \in 1 .. Len(q) - 1 : Tail(q)[k] = q[k + 1]
  BY HeadTailProperties
<1>2. /\ 1 \in 1 .. Len(q)
      /\ \A k \in 1 .. Len(q) - 1 : k + 1 \in 1 .. Len(q) /\ 1 < k + 1
  BY <1>1
<1>3. Ascending(Tail(q)) /\ Above(Head(q).id, Tail(q))
  BY <1>1, <1>2 DEF Ascending, Above
<1> QED BY <1>1, <1>2, <1>3 DEF Above, UpTo

LEMMA AppendOrder ==
  ASSUME NEW s \in Seq(Store), NEW e \in Store, NEW b \in Int,
         Ascending(s), UpTo(s, b), b < e.id
  PROVE  /\ Ascending(Append(s, e)) /\ UpTo(Append(s, e), e.id)
         /\ \A x \in Int : x <= b /\ Above(x, s) => Above(x, Append(s, e))
<1> DEFINE q == Append(s, e)
<1>1. /\ Len(s) \in Nat /\ Len(q) = Len(s) + 1
      /\ \A k \in 1 .. Len(s) : q[k] = s[k] /\ s[k].id \in Int /\ s[k].id < e.id
      /\ q[Len(s) + 1] = e /\ e.id \in Int
  BY AppendProperties, StoreIds DEF UpTo
<1> HIDE DEF q
<1>2. \A k \in 1 .. Len(q) : k \in 1 .. Len(s) \/ k = Len(s) + 1
  BY <1>1
<1>3. Ascending(q)
  BY <1>1, <1>2 DEF Ascending
<1>4. UpTo(q, e.id)
  BY <1>1, <1>2 DEF UpTo
<1>5. ASSUME NEW x \in Int, x <= b, Above(x, s) PROVE Above(x, q)
  BY <1>1, <1>2, <1>5 DEF Above
<1> QED BY <1>3, <1>4, <1>5 DEF q

(***************************************************************************)
(* Bound is the last instruction whose store can be on its way already:    *)
(* the one in the control stage, unless its store still waits.  The stores *)
(* in the buffer ascend up to it; the store written last, the one on the   *)
(* bus and the one fetched for it are behind them, in this order.          *)
(***************************************************************************)
Waits == (ctrl_op_lsu_store /\ padv_ctrl) \/ store_buffer_write_pending
Bound == IF Waits THEN ctrl.id - 1 ELSE ctrl.id

Behind(x, n, s) == x \in Int /\ x <= n /\ Above(x, s)

OnItsWay == state = "WRITE" /\ dbus_req
IsFetched == state = "WRITE" /\ (~dbus_req \/ ~last_write)

QueueOrder == /\ Ascending(Contents) /\ UpTo(Contents, Bound)
              /\ Behind(log.written, Bound, Contents)
BusOrder ==
    /\ dbus_we => OnItsWay
    /\ state = "WRITE" /\ last_write => dbus_req /\ Contents = <<>>
    /\ OnItsWay => Behind(dbus_dat, Bound, Contents) /\ log.written < dbus_dat
    /\ IsFetched => Behind(fifo_dout.id, Bound, Contents) /\ log.written < fifo_dout.id
    /\ OnItsWay /\ IsFetched => dbus_dat < fifo_dout.id

OrderInv == QueueOrder /\ BusOrder

LEMMA BoundStep ==
  ASSUME "swa" \notin Ops, StoreInv, NEW i, InputOK(i), Edge(i)
  PROVE  /\ Bound \in Int /\ Bound' \in Int /\ ctrl.id \in Int /\ Bound <= Bound'
         /\ i.write => Bound < ctrl.id /\ ctrl.id <= Bound'
<1>1. ctrl.id \in Int
  BY ValuesTyped, BoundsAssumption DEF Id, StoreInv
<1>2. /\ i.advance => /\ ctrl'.id = ctrl.id \/ ctrl'.id = ctrl.id + 1
                      /\ ctrl'.op \in LsuKinds => ctrl'.id = ctrl.id + 1
      /\ ~i.advance => ctrl'.id = ctrl.id
  BY ControlMoves DEF Edge, StoreInv
<1>3. PendingInv'
  BY PendingStep DEF StoreInv
<1>4. i.write => Waits
  BY DEF InputOK, store_buffer_write, Waits
<1>5. /\ store_buffer_write_pending' => Waits /\ ~i.write /\ ~padv_ctrl'
      /\ padv_ctrl' = i.advance
  BY <1>3 DEF Edge, WritePending, Waits, PendingInv, PadvCtrl
<1>6. ctrl_op_lsu_store' => ctrl'.op \in LsuKinds
  BY DEF ctrl_op_lsu_store, LsuKinds
<1>7. Waits' => (ctrl_op_lsu_store' /\ padv_ctrl') \/ store_buffer_write_pending'
  BY DEF Waits
<1>8. Bound' = IF Waits' THEN ctrl'.id - 1 ELSE ctrl'.id
  BY DEF Bound
<1> QED BY <1>1, <1>2, <1>4, <1>5, <1>6, <1>7, <1>8 DEF Bound

LEMMA QueueStep ==
  ASSUME "swa" \notin Ops, StoreInv, QueueOrder, NEW i, InputOK(i), Edge(i)
  PROVE  /\ Ascending(Contents') /\ UpTo(Contents', Bound')
         /\ \A x : Behind(x, Bound, Contents) => Behind(x, Bound', Contents')
         /\ store_buffer_read(i) =>
               /\ Behind(fifo_dout'.id, Bound', Contents')
               /\ \A x : Behind(x, Bound, Contents) => x < fifo_dout'.id
         /\ ~store_buffer_read(i) => /\ fifo_dout' = fifo_dout
                                     /\ ~i.write => Contents' = Contents
         /\ store_buffer_read(i) /\ Contents = <<>> => Contents' = <<>>
         /\ empty <=> Contents = <<>>
<1> DEFINE din == [adr |-> ctrl.adr, id |-> ctrl.id, atomic |-> ctrl_op_lsu_atomic]
           q   == IF i.write THEN Append(Contents, din) ELSE Contents
<1>1. IInv
  BY DEF StoreInv, LsInv, TypeOK, IInv
<1>2. din \in Store /\ din.id = ctrl.id
  <2>1. ctrl_op_lsu_atomic \in BOOLEAN
    BY DEF ctrl_op_lsu_atomic
  <2>2. ctrl.adr \in Adr /\ ctrl.id \in Id
    BY ValuesTyped DEF StoreInv
  <2> QED BY <2>1, <2>2 DEF Store
<1>3. i.write \in BOOLEAN /\ (i.write => ~full)
  BY DEF InputOK, store_buffer_write
<1>4. store_buffer_read(i) \in BOOLEAN /\ (store_buffer_read(i) => ~empty \/ i.write)
  BY DEF store_buffer_read
<1>5. Contract(i.write, store_buffer_read(i)) /\ Cycle(i.write, store_buffer_read(i), din)
  BY <1>3, <1>4 DEF Contract, Buffer, Edge
<1>6. /\ Contents \in Seq(Store) /\ q \in Seq(Store)
      /\ store_buffer_read(i) => q # <<>> /\ fifo_dout' = Head(q) /\ Contents' = Tail(q)
      /\ ~store_buffer_read(i) => Contents' = q /\ fifo_dout' = fifo_dout
  <2>1. din \in Entry /\ Contents \in Seq(Entry)
    BY <1>1, <1>2, EntryAssumption, ContentsIsSequence DEF ContentsFacts
  <2>2. ~store_buffer_read(i) => fifo_dout' = fifo_dout
    BY <1>5 DEF Cycle
  <2> QED BY <1>1, <1>3, <1>4, <1>5, <2>1, <2>2, EntryAssumption, ContentsAfter
<1>7. empty <=> Contents = <<>>
  <2>1. Contents \in Seq(Store) /\ Len(Contents) = Count
    BY <1>1, <1>6, ContentsIsSequence DEF ContentsFacts
  <2> QED BY <1>1, <2>1, Flags, EmptySeq
<1>8. /\ Bound \in Int /\ Bound' \in Int /\ ctrl.id \in Int /\ Bound <= Bound'
      /\ i.write => Bound < ctrl.id /\ ctrl.id <= Bound'
  BY BoundStep
<1>9. Contents = <<>> /\ i.write => Tail(q) = <<>>
  BY <1>2
<1>10. Ascending(Contents) /\ UpTo(Contents, Bound)
  BY DEF QueueOrder
<1> HIDE DEF din
<1>11. /\ Ascending(q) /\ UpTo(q, Bound')
       /\ \A x \in Int : x <= Bound /\ Above(x, Contents) => Above(x, q)
  <2>1. CASE i.write
    <3>1. /\ Ascending(q) /\ UpTo(q, din.id)
          /\ \A x \in Int : x <= Bound /\ Above(x, Contents) => Above(x, q)
      BY <1>2, <1>6, <1>8, <1>10, <2>1, AppendOrder
    <3>2. UpTo(q, Bound')
      <4>1. \A k \in 1 .. Len(q) : q[k].id \in Int
        BY <1>6, StoreIds, ElementOfSeq
      <4> HIDE DEF q
      <4> QED BY <1>2, <1>8, <2>1, <3>1, <4>1 DEF UpTo
    <3> QED BY <3>1, <3>2
  <2>2. CASE ~i.write
    <3>1. q = Contents
      BY <2>2
    <3>2. \A k \in 1 .. Len(Contents) : Contents[k].id \in Int
      BY <1>6, StoreIds, ElementOfSeq
    <3>3. UpTo(Contents, Bound')
      BY <1>8, <1>10, <3>2 DEF UpTo
    <3> QED BY <1>10, <3>1, <3>3
  <2> QED BY <2>1, <2>2
<1>12. store_buffer_read(i) =>
         /\ Head(q) \in Store /\ Head(q).id \in Int
         /\ Ascending(Tail(q)) /\ Above(Head(q).id, Tail(q))
         /\ Head(q).id <= Bound' /\ UpTo(Tail(q), Bound')
         /\ \A x \in Int : Above(x, q) => x < Head(q).id /\ Above(x, Tail(q))
  BY <1>6, <1>8, <1>11, TailOrder, StoreIds
<1>13. ~i.write => q = Contents
  OBVIOUS
<1>14. q # <<>> /\ Contents = <<>> => i.write
  OBVIOUS
<1> HIDE DEF q
<1>15. CASE store_buffer_read(i)
  <2> DEFINE head == Head(q)  tail == Tail(q)
  <2>1. fifo_dout' = head /\ Contents' = tail
    BY <1>6, <1>15
  <2>2. Contents = <<>> => Contents' = <<>>
    BY <1>6, <1>9, <1>14, <1>15
  <2>3. /\ head.id \in Int /\ head.id <= Bound' /\ Above(head.id, tail)
        /\ Ascending(tail) /\ UpTo(tail, Bound')
    BY <1>12, <1>15
  <2>4. ASSUME NEW x, Behind(x, Bound, Contents)
        PROVE  x < head.id /\ Behind(x, Bound', tail)
    <3>1. x \in Int /\ x <= Bound' /\ Above(x, q)
      BY <1>8, <1>11, <2>4 DEF Behind
    <3> QED BY <1>12, <1>15, <3>1 DEF Behind
  <2> HIDE DEF head, tail
  <2>5. Behind(fifo_dout'.id, Bound', Contents')
    BY <2>1, <2>3 DEF Behind
  <2> QED BY <1>7, <1>15, <2>1, <2>2, <2>3, <2>4, <2>5
<1>16. CASE ~store_buffer_read(i)
  BY <1>6, <1>7, <1>8, <1>11, <1>13, <1>16 DEF Behind
<1> QED BY <1>15, <1>16

LEMMA LogStep ==
  ASSUME BusOrder, NEW i, InputOK(i), Edge(i)
  PROVE  /\ log'.written = log.written \/ (i.ack /\ OnItsWay /\ log'.written = dbus_dat)
BY DEF Edge, Log, BusOrder, dbus_we_o, BusMachine, IDLE, DC_REFILL, READ, WRITE

(***************************************************************************)
(* The bus machine keeps the order.  Outside WRITE nothing is on its way;  *)
(* in WRITE the entry fetched goes to the bus when the bus is free, and an *)
(* error drops both.                                                       *)
(***************************************************************************)
LEMMA OrderStep ==
  ASSUME "swa" \notin Ops, StoreInv, OrderInv, NEW i, InputOK(i), Edge(i)
  PROVE  OrderInv'
<1> DEFINE B(x) == Behind(x, Bound, Contents)
           A(x) == Behind(x, Bound', Contents')
           read == store_buffer_read(i)
<1>1. /\ Ascending(Contents') /\ UpTo(Contents', Bound')
      /\ \A x : B(x) => A(x)
      /\ read => A(fifo_dout'.id) /\ \A x : B(x) => x < fifo_dout'.id
      /\ ~read => fifo_dout' = fifo_dout /\ (~i.write => Contents' = Contents)
      /\ read /\ Contents = <<>> => Contents' = <<>>
      /\ empty <=> Contents = <<>>
  BY QueueStep DEF OrderInv
<1>2. /\ B(log.written)
      /\ dbus_we => OnItsWay
      /\ state = "WRITE" /\ last_write => dbus_req /\ Contents = <<>>
      /\ OnItsWay => B(dbus_dat) /\ log.written < dbus_dat
      /\ IsFetched => B(fifo_dout.id) /\ log.written < fifo_dout.id
      /\ OnItsWay /\ IsFetched => dbus_dat < fifo_dout.id
  BY DEF OrderInv, QueueOrder, BusOrder
<1>3. log'.written = log.written \/ (i.ack /\ OnItsWay /\ log'.written = dbus_dat)
  BY LogStep DEF OrderInv
<1>4. (i.ack \/ i.err => dbus_req) /\ ~(i.ack /\ i.err)
  BY DEF InputOK
<1> HIDE DEF A, B
<1>5. A(log'.written)
  BY <1>1, <1>2, <1>3
<1>6. SUFFICES /\ dbus_we' => OnItsWay'
               /\ state' = "WRITE" /\ last_write' => dbus_req' /\ Contents' = <<>>
               /\ OnItsWay' => A(dbus_dat') /\ log'.written < dbus_dat'
               /\ IsFetched' => A(fifo_dout'.id) /\ log'.written < fifo_dout'.id
               /\ OnItsWay' /\ IsFetched' => dbus_dat' < fifo_dout'.id
  BY <1>1, <1>5 DEF OrderInv, QueueOrder, BusOrder, A
<1>7. CASE IDLE(i)
  <2>1. /\ ~dbus_we' /\ ~last_write' /\ state = "IDLE"
        /\ state' = "WRITE" => IdleNext(i) = "write" /\ ~dbus_req'
    BY <1>7 DEF IDLE, IdleDefaults
  <2>2. IdleNext(i) = "write" => read
    BY <2>1 DEF IdleNext, store_buffer_read
  <2>3. log'.written = log.written
    BY <1>3, <2>1 DEF OnItsWay
  <2> HIDE DEF read
  <2>4. state' = "WRITE" => A(fifo_dout'.id) /\ log'.written < fifo_dout'.id
    BY <1>1, <1>2, <2>1, <2>2, <2>3
  <2> QED BY <2>1, <2>4 DEF OnItsWay, IsFetched
<1>8. CASE DC_REFILL(i) \/ READ(i)
  <2>1. state # "WRITE" /\ state' # "WRITE" /\ dbus_we' = dbus_we
    BY <1>8 DEF DC_REFILL, READ
  <2> QED BY <1>2, <2>1 DEF OnItsWay, IsFetched
<1>9. CASE WRITE(i)
  <2>1. /\ state = "WRITE"
        /\ read <=> \/ ~last_write /\ (i.ack \/ ~dbus_req) /\ (~empty \/ i.write)
                    \/ last_write /\ i.write
    BY <1>9 DEF WRITE, store_buffer_read
  <2>2. /\ dbus_dat' = IF LoadsEntry(i) THEN fifo_dout.id ELSE dbus_dat
        /\ last_write' = LastWrite(i)
        /\ dbus_req' = ~Finishes(i) /\ dbus_we' = dbus_req'
        /\ state' = IF Finishes(i) /\ ~i.write THEN "IDLE" ELSE "WRITE"
    BY <1>9 DEF WRITE
  <2>3. /\ OnItsWay <=> dbus_req
        /\ IsFetched <=> ~dbus_req \/ ~last_write
        /\ OnItsWay' <=> state' = "WRITE" /\ dbus_req'
        /\ IsFetched' <=> state' = "WRITE" /\ (~dbus_req' \/ ~last_write')
    BY <2>1 DEF OnItsWay, IsFetched
  <2> HIDE DEF read
  \* The fetched entry goes to the bus.
  <2>4. CASE LoadsEntry(i)
    <3>1. /\ ~last_write /\ IsFetched /\ ~Finishes(i)
          /\ log'.written < fifo_dout.id /\ dbus_dat' = fifo_dout.id
          /\ B(fifo_dout.id)
      BY <1>2, <1>3, <1>4, <2>1, <2>2, <2>3, <2>4 DEF LoadsEntry, Finishes
    <3>2. state' = "WRITE" /\ dbus_req' /\ A(dbus_dat')
      BY <1>1, <2>2, <3>1
    <3>3. CASE read
      <4>1. ~last_write'
        BY <2>1, <2>2, <2>4, <3>1, <3>3 DEF LastWrite
      <4>2. A(fifo_dout'.id) /\ fifo_dout.id < fifo_dout'.id
        BY <1>1, <3>1, <3>3
      <4>3. log'.written < fifo_dout'.id
        BY <1>1, <1>2, <1>3, <3>3
      <4> QED BY <2>3, <3>1, <3>2, <4>1, <4>2, <4>3
    <3>4. CASE ~read
      <4>1. ~i.write /\ empty /\ last_write'
        BY <2>1, <2>2, <2>4, <3>1, <3>4 DEF LoadsEntry, LastWrite
      <4> QED BY <1>1, <2>2, <2>3, <3>1, <3>2, <3>4, <4>1
    <3> QED BY <3>3, <3>4
  \* The entry on the bus stays there, is done or fails.
  <2>5. CASE ~LoadsEntry(i)
    <3>1. /\ dbus_req /\ (i.ack => last_write)
          /\ dbus_dat' = dbus_dat /\ (last_write' <=> ~i.write /\ last_write)
      BY <1>2, <2>1, <2>2, <2>5 DEF LoadsEntry, LastWrite
    <3>2. /\ B(dbus_dat) /\ log.written < dbus_dat /\ A(dbus_dat')
          /\ dbus_req' <=> ~i.ack /\ ~i.err
      BY <1>1, <1>2, <2>2, <2>3, <3>1 DEF Finishes
    <3>3. CASE last_write
      <4>1. (read <=> i.write) /\ Contents = <<>>
        BY <1>2, <2>1, <3>3
      <4>2. i.write => A(fifo_dout'.id) /\ log'.written < fifo_dout'.id /\ dbus_dat < fifo_dout'.id
        BY <1>1, <1>2, <1>3, <3>2, <4>1
      <4>3. ~i.write => Contents' = <<>>
        BY <1>1, <4>1
      <4> QED BY <1>3, <2>2, <2>3, <3>1, <3>2, <3>3, <4>2, <4>3 DEF Finishes
    <3>4. CASE ~last_write
      <4>1. ~read /\ ~i.ack /\ fifo_dout' = fifo_dout /\ log'.written = log.written
        BY <1>1, <1>3, <2>1, <3>1, <3>4
      <4>2. A(fifo_dout'.id) /\ log'.written < fifo_dout'.id /\ dbus_dat' < fifo_dout'.id
        BY <1>1, <1>2, <2>3, <3>1, <3>4, <4>1
      <4> QED BY <2>2, <2>3, <3>1, <3>2, <3>4, <4>1, <4>2
    <3> QED BY <3>3, <3>4
  <2> QED BY <2>4, <2>5
<1> QED BY <1>7, <1>8, <1>9 DEF Edge, BusMachine

(***************************************************************************)
(* What the invariant says of the sequence of all stores on their way.     *)
(***************************************************************************)
LEMMA PrependOrder ==
  ASSUME NEW S, \A e \in S : e.id \in Int, NEW s \in Seq(S), NEW e \in S,
         Ascending(s), Above(e.id, s)
  PROVE  /\ <<e>> \o s \in Seq(S) /\ Ascending(<<e>> \o s)
         /\ \A x \in Int : x < e.id /\ Above(x, s) => Above(x, <<e>> \o s)
<1> DEFINE q == <<e>> \o s
<1>1. /\ q \in Seq(S) /\ Len(s) \in Nat /\ Len(q) = Len(s) + 1
      /\ q[1] = e /\ \A k \in 1 .. Len(s) : q[k + 1] = s[k]
  <2>1. <<e>> \in Seq(S) /\ Len(<<e>>) = 1 /\ <<e>>[1] = e
    OBVIOUS
  <2>2. /\ q \in Seq(S) /\ Len(q) = 1 + Len(s) /\ Len(s) \in Nat
        /\ \A k \in 1 .. 1 + Len(s) : q[k] = IF k <= 1 THEN <<e>>[k] ELSE s[k - 1]
    BY <2>1, ConcatProperties, LenProperties
  <2> HIDE DEF q
  <2> QED BY <2>1, <2>2
<1>2. \A k \in 1 .. Len(s) : s[k].id \in Int
  BY ElementOfSeq
<1> HIDE DEF q
<1>3. \A k \in 1 .. Len(q) : k = 1 \/ (k - 1 \in 1 .. Len(s) /\ q[k] = s[k - 1])
  BY <1>1
<1>4. Ascending(q)
  <2> SUFFICES ASSUME NEW j \in 1 .. Len(q), NEW k \in 1 .. Len(q), j < k
               PROVE  q[j].id < q[k].id
    BY DEF Ascending
  <2>1. k - 1 \in 1 .. Len(s) /\ q[k] = s[k - 1]
    BY <1>1, <1>3
  <2>2. CASE j = 1
    BY <1>1, <2>1, <2>2 DEF Above
  <2>3. CASE j # 1
    <3>1. j - 1 \in 1 .. Len(s) /\ q[j] = s[j - 1] /\ j - 1 < k - 1
      BY <1>1, <1>3, <2>3
    <3> QED BY <2>1, <3>1 DEF Ascending
  <2> QED BY <2>2, <2>3
<1>5. ASSUME NEW x \in Int, x < e.id, Above(x, s) PROVE Above(x, q)
  BY <1>1, <1>3, <1>5 DEF Above
<1> QED BY <1>1, <1>4, <1>5 DEF q

LEMMA PendingOrder ==
  ASSUME LsInv, OrderInv
  PROVE  \E S : /\ \A e \in S : e.id \in Int
                /\ Pending \in Seq(S) /\ Ascending(Pending) /\ Above(log.written, Pending)
<1> DEFINE b == [adr |-> dbus_adr, id |-> dbus_dat, atomic |-> dbus_atomic]
           S == Store \cup {b}
           t == Fetched \o Contents
<1>1. fifo_dout \in S /\ Contents \in Seq(S) /\ b \in S /\ b.id = dbus_dat
  <2>1. IInv
    BY DEF LsInv, TypeOK, IInv
  <2>2. fifo_dout \in Store /\ Contents \in Seq(Store)
    BY <2>1, EntryAssumption, ContentsIsSequence DEF ContentsFacts, IInv, SBTypeOK
  <2> QED BY <2>2, SeqMonotonic
<1>2. \A e \in S : e.id \in Int
  <2>1. dbus_dat \in Int
    BY BoundsAssumption DEF LsInv, TypeOK, Val
  <2> QED BY <1>1, <2>1, StoreIds
<1>3. /\ Ascending(Contents) /\ Above(log.written, Contents) /\ log.written \in Int
      /\ OnItsWay => Above(dbus_dat, Contents) /\ log.written < dbus_dat /\ dbus_dat \in Int
      /\ IsFetched => /\ Above(fifo_dout.id, Contents) /\ log.written < fifo_dout.id
      /\ OnItsWay /\ IsFetched => dbus_dat < fifo_dout.id
  BY DEF OrderInv, QueueOrder, BusOrder, Behind
<1>4. /\ OnBus = IF OnItsWay THEN <<b>> ELSE <<>>
      /\ Fetched = IF IsFetched THEN <<fifo_dout>> ELSE <<>>
  BY DEF OnBus, Fetched, OnItsWay, IsFetched
<1> HIDE DEF b, S
<1>5. /\ t \in Seq(S) /\ Ascending(t) /\ Above(log.written, t)
      /\ OnItsWay => Above(dbus_dat, t)
  <2>1. CASE IsFetched
    <3>1. t = <<fifo_dout>> \o Contents
      BY <1>4, <2>1
    <3> HIDE DEF t
    <3> QED BY <1>1, <1>2, <1>3, <2>1, <3>1, PrependOrder
  <2>2. CASE ~IsFetched
    <3>1. t = Contents
      BY <1>1, <1>4, <2>2, ConcatEmptySeq
    <3> HIDE DEF t
    <3> QED BY <1>1, <1>3, <3>1
  <2> QED BY <2>1, <2>2
<1>6. Pending = OnBus \o t
  <2>1. OnBus \in Seq(S) /\ Fetched \in Seq(S)
    BY <1>1, <1>4
  <2> QED BY <1>1, <2>1, ConcatAssociative DEF Pending
<1> HIDE DEF t
<1>7. Pending \in Seq(S) /\ Ascending(Pending) /\ Above(log.written, Pending)
  <2>1. CASE OnItsWay
    BY <1>1, <1>2, <1>3, <1>4, <1>5, <1>6, <2>1, PrependOrder
  <2>2. CASE ~OnItsWay
    BY <1>4, <1>5, <1>6, <2>2, ConcatEmptySeq
  <2> QED BY <2>1, <2>2
<1> QED BY <1>2, <1>7

LEMMA OrderImplies == LsInv /\ OrderInv => StoreOrder
<1> SUFFICES ASSUME LsInv, OrderInv PROVE StoreOrder
  OBVIOUS
<1> DEFINE rest == [k \in DOMAIN Pending |-> Pending[k].id]
           ids  == <<log.written>> \o rest
<1>1. PICK S : /\ \A e \in S : e.id \in Int
               /\ Pending \in Seq(S) /\ Ascending(Pending) /\ Above(log.written, Pending)
  BY PendingOrder
<1>2. log.written \in Int
  BY DEF OrderInv, QueueOrder, Behind
<1> DEFINE n == Len(Pending)
<1>3. /\ n \in Nat /\ DOMAIN Pending = 1 .. n
      /\ \A k \in 1 .. n : Pending[k].id \in Int
  BY <1>1, LenProperties, ElementOfSeq
<1>4. rest \in Seq(Int) /\ Len(rest) = n /\ \A k \in 1 .. n : rest[k] = Pending[k].id
  <2>1. rest \in [1 .. n -> Int]
    BY <1>3
  <2> QED BY <1>3, <2>1
<1>5. /\ ids \in Seq(Int) /\ Len(ids) = n + 1
      /\ ids[1] = log.written /\ \A k \in 1 .. n : ids[k + 1] = rest[k]
  <2> HIDE DEF rest, n
  <2>1. <<log.written>> \in Seq(Int) /\ Len(<<log.written>>) = 1
    BY <1>2
  <2>2. /\ ids \in Seq(Int) /\ Len(ids) = 1 + n
        /\ \A k \in 1 .. 1 + n :
              ids[k] = IF k <= 1 THEN <<log.written>>[k] ELSE rest[k - 1]
    BY <1>4, <2>1, ConcatProperties
  <2> HIDE DEF ids
  <2> QED BY <1>3, <2>2
<1>6. DOMAIN ids = 1 .. n + 1
  BY <1>5, LenProperties
<1>7. ASSUME NEW j \in 1 .. n + 1, NEW k \in 1 .. n + 1, j < k
      PROVE  ids[j] < ids[k]
  <2> HIDE DEF ids, rest, n
  <2>1. k - 1 \in 1 .. n /\ ids[k] = Pending[k - 1].id
    BY <1>3, <1>4, <1>5, <1>7
  <2>2. CASE j = 1
    BY <1>1, <1>5, <2>1, <2>2 DEF Above, n
  <2>3. CASE j # 1
    <3>1. j - 1 \in 1 .. n /\ ids[j] = Pending[j - 1].id /\ j - 1 < k - 1
      BY <1>3, <1>4, <1>5, <1>7, <2>3
    <3> QED BY <1>1, <2>1, <3>1 DEF Ascending, n
  <2> QED BY <2>2, <2>3
<1> HIDE DEF n
<1> QED BY <1>6, <1>7 DEF StoreOrder

LEMMA InitOrder == Init => OrderInv
<1> SUFFICES ASSUME Init PROVE OrderInv
  OBVIOUS
<1>1. Contents = <<>>
  <2>1. IInv /\ Count = 0
    BY InitKeeps, InitIInv DEF SBInit, Count
  <2>2. Contents \in Seq(Entry) /\ Len(Contents) = 0
    BY <2>1, ContentsIsSequence DEF ContentsFacts
  <2> QED BY <2>2, EmptySeq
<1>2. Bound = 0 /\ log.written = 0
  BY DEF Init, Bound, Waits, ctrl_op_lsu_store
<1>3. Ascending(<<>>) /\ UpTo(<<>>, 0) /\ Above(0, <<>>)
  BY DEF Ascending, UpTo, Above
<1>4. state = "IDLE" /\ ~dbus_we
  BY DEF Init
<1> QED BY <1>1, <1>2, <1>3, <1>4
        DEF OrderInv, QueueOrder, BusOrder, Behind, OnItsWay, IsFetched

LEMMA OrderKept ==
  ASSUME "swa" \notin Ops, StoreInv, OrderInv, [Next]_vars
  PROVE  OrderInv'
<1>1. CASE Next
  <2>1. PICK answer \in Answers, trap \in Traps, taken \in Takes :
           \E snoop \in Snoops(answer), next \in Nexts :
              LET i == Given(answer, snoop, next, trap, taken)
              IN  InputOK(i) /\ Edge(i)
    BY <1>1, StepOfNext DEF StoreInv
  <2>2. PICK snoop \in Snoops(answer), next \in Nexts :
           LET i == Given(answer, snoop, next, trap, taken)
           IN  InputOK(i) /\ Edge(i)
    BY <2>1
  <2> QED BY <2>2, OrderStep
<1>2. CASE UNCHANGED vars
  <2>1. UNCHANGED <<sb_vars, machine, ctrl, padv_ctrl, store_buffer_write_pending, log>>
    BY <1>2 DEF vars, status, pipeline
  <2>2. Contents' = Contents
    BY <2>1 DEF sb_vars, Contents, Count, SlotOf
  <2>3. Bound' = Bound
    BY <2>1 DEF Bound, Waits, ctrl_op_lsu_store
  <2>4. UNCHANGED <<OnItsWay, IsFetched, dbus_we, dbus_dat, fifo_dout, state, last_write, dbus_req>>
    BY <2>1 DEF OnItsWay, IsFetched, machine, sb_vars
  <2> QED BY <2>1, <2>2, <2>3, <2>4 DEF OrderInv, QueueOrder, BusOrder
<1> QED BY <1>1, <1>2

\* Stores reach the bus in program order and at most once, for every depth of the
\* buffer and whatever bus errors and exceptions come between (:311-495).
THEOREM StoresOrdered == ASSUME "swa" \notin Ops
                         PROVE  Spec => []StoreOrder
<1>1. StoreInv => LsInv
  BY DEF StoreInv
<1> QED BY <1>1, StoreInvariance, InitOrder, OrderKept, OrderImplies, PTL DEF Spec
=============================================================================
