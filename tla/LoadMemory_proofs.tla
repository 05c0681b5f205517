--------------------------- MODULE LoadMemory_proofs --------------------------
(***************************************************************************)
(* Proofs about what loads return, for every depth of the buffer, every    *)
(* set of addresses and every geometry of the cache.                       *)
(*                                                                         *)
(* A load that goes to the bus stays in the control stage until it has its *)
(* answer.  This needs that SR[DCE] does not change: dc_enable_r may follow *)
(* it while a load is on the bus, which then is no load of the bus any     *)
(* more (mor1kx_lsu_cappuccino.v:680-686).                                 *)
(***************************************************************************)
EXTENDS LoadStore_proofs

SwitchFixed == dc_enable \in BOOLEAN /\ dc_enable_r = dc_enable

\* Without flush or advance an error is known in one register or the other
\* until the instruction in the stage is taken out.
ErrorInv ==
    /\ store_buffer_err /\ ~ctrl_except_dbus => except_dbus
    /\ store_buffer_err /\ ctrl_except_dbus /\ ~ctrl_stage_exceptions /\ ~padv_ctrl
         => except_dbus

\* The load in the control stage is the one that is on the bus, and nothing is
\* under way that could take it out of the stage.
Reading == /\ ctrl_op_lsu_load /\ ~dc_access /\ dbus_adr = ctrl.adr
           /\ ~padv_ctrl /\ ~access_done /\ ~ctrl.misaligned
           /\ ~except_dbus /\ ~store_buffer_err
           /\ ~ctrl_except_dbus /\ ~ctrl_except_align /\ ~ctrl_stage_exceptions

AnswerInv ==
    /\ dbus_we => state = "WRITE"
    /\ dbus_ack => state = "IDLE"
    /\ state = "READ" \/ dbus_ack => Reading
    /\ dbus_ack => log.result = [adr |-> ctrl.adr, val |-> dbus_dat]

(***************************************************************************)
(* No instruction switches the cache, or there is none to switch.          *)
(***************************************************************************)
LEMMA SwitchStep ==
  ASSUME {"dce_on", "dce_off"} \cap Ops = {}, StageInv, SwitchFixed,
         NEW i, InputOK(i), Edge(i)
  PROVE  SwitchFixed' /\ dc_enable' = dc_enable
<1>1. ctrl.op \notin {"dce_on", "dce_off"}
  BY DEF StageInv
<1>2. dc_enable' = dc_enable
  BY <1>1 DEF Edge, Caching
<1>3. dc_enable_r' = IF dc_enable /\ ~dbus_req THEN TRUE
                     ELSE IF ~dc_enable /\ ~refill THEN FALSE ELSE dc_enable_r
  BY DEF Edge, Caching
<1> QED BY <1>2, <1>3 DEF SwitchFixed

LEMMA ErrorStep ==
  ASSUME ErrorInv, NEW i, InputOK(i), Edge(i)
  PROVE  ErrorInv'
<1>1. /\ store_buffer_err' = IF i.flush THEN FALSE
                             ELSE store_buffer_err \/ (i.err /\ dbus_we_o)
      /\ except_dbus' = IF i.err THEN TRUE ELSE IF i.advance \/ i.flush THEN FALSE
                        ELSE except_dbus
      /\ ctrl_except_dbus' = (~i.flush /\ (except_dbus \/ store_buffer_err))
      /\ ctrl_stage_exceptions' = (ctrl_except_align \/ ctrl_except_dbus)
      /\ padv_ctrl' = i.advance
  BY DEF Edge, ExceptDbus, StoreBufferErr, CtrlExceptions, CtrlStageExceptions, PadvCtrl
<1> QED BY <1>1 DEF ErrorInv

\* A load for which a bus access starts is not taken out of the stage.
LEMMA StartsReading ==
  ASSUME StageInv, ErrorInv, AnswerInv, NEW i, InputOK(i), state = "IDLE",
         StartsAccess(i), ctrl_op_lsu_load
  PROVE  /\ ~dc_access /\ ~access_done /\ ~ctrl.misaligned
         /\ ~except_dbus /\ ~store_buffer_err /\ ~ctrl_except_dbus /\ ~ctrl_except_align
         /\ ~i.flush /\ ~i.advance
<1>1. /\ ctrl_op_lsu /\ dbus_access /\ ~refill /\ ~dbus_ack
      /\ ~except_dbus /\ ~access_done /\ ~i.flush /\ ~except_align
  BY DEF StartsAccess
<1>2. ctrl.op \in {"load", "lwa"} /\ ctrl.op \in LsuKinds /\ ~ctrl_op_lsu_store
  BY DEF ctrl_op_lsu_load, ctrl_op_lsu_store, LsuKinds
<1>3. ~dc_access
  BY <1>1, <1>2 DEF dbus_access
<1>4. ~ctrl.misaligned
  BY <1>1 DEF except_align
<1>5. ~exception(i.trap) /\ ~ctrl.bubble
  BY <1>1, <1>2 DEF InputOK, exception_re, StageInv
<1>6. ~ctrl_except_dbus
  BY <1>1, <1>5 DEF exception, exception_pending, ErrorInv, StageInv
<1>7. ~store_buffer_err
  BY <1>1, <1>6 DEF ErrorInv
<1>8. ~ctrl_except_align
  BY <1>4, <1>5 DEF exception, exception_pending, StageInv
<1>9. ~i.advance
  <2>1. ~lsu_ack(i.flush)
    BY <1>1, <1>2 DEF lsu_ack
  <2> QED BY <1>1, <2>1 DEF InputOK, padv_execute, ctrl_stall, lsu_valid
<1> QED BY <1>1, <1>3, <1>4, <1>6, <1>7, <1>8, <1>9

\* While it is on the bus it is neither flushed nor done.
LEMMA KeepsReading ==
  ASSUME LsInv, StageInv, AnswerInv, NEW i, InputOK(i), state = "READ"
  PROVE  ~i.flush /\ ~i.advance /\ ~lsu_ack(i.flush) /\ ~dbus_we
<1>1. Reading /\ ~dbus_ack /\ ~dbus_we
  BY DEF AnswerInv
<1>2. ~exception(i.trap)
  BY <1>1 DEF Reading, exception
<1>3. ~i.flush
  BY <1>2 DEF InputOK, exception_re
<1>4. ~ctrl_op_lsu_store /\ ctrl_op_lsu /\ dbus_access
  BY <1>1 DEF Reading, ctrl_op_lsu_load, ctrl_op_lsu_store, ctrl_op_lsu, dbus_access
<1>5. ~lsu_ack(i.flush)
  BY <1>1, <1>4 DEF lsu_ack
<1>6. ~i.advance
  BY <1>1, <1>4, <1>5 DEF InputOK, padv_execute, ctrl_stall, lsu_valid, Reading
<1> QED BY <1>1, <1>3, <1>5, <1>6

\* What Reading becomes when the stage stands still and nothing fails.
LEMMA ReadingStep ==
  ASSUME LsInv, StageInv, NEW i, InputOK(i), Edge(i),
         DCACHE => SwitchFixed /\ SwitchFixed' /\ dc_enable' = dc_enable,
         ctrl_op_lsu_load, ~dc_access, ~access_done, ~lsu_ack(i.flush), ~ctrl.misaligned,
         ~except_dbus, ~store_buffer_err, ~ctrl_except_dbus, ~ctrl_except_align,
         ~i.flush, ~i.advance, ~i.err, dbus_adr' = ctrl.adr
  PROVE  Reading'
<1>1. ctrl.op \in {"load", "lwa"} /\ "load" # "other" /\ "lwa" # "other"
  BY DEF ctrl_op_lsu_load
<1>2. /\ ctrl'.op = ctrl.op /\ ctrl'.misaligned = ctrl.misaligned
      /\ ctrl'.op \in LsuKinds => ctrl'.adr = ctrl.adr
  BY ControlMoves DEF Edge
<1>3. ctrl_op_lsu_load' /\ ~ctrl_op_lsu_store' /\ ~ctrl_op_lsu_store
  BY <1>1, <1>2 DEF ctrl_op_lsu_load, ctrl_op_lsu_store
<1>4. ~dc_access'
  BY <1>3 DEF dc_access, SwitchFixed
<1>5. ctrl'.adr = ctrl.adr
  BY <1>1, <1>2 DEF LsuKinds
<1>6. ~padv_ctrl' /\ ~access_done' /\ ~except_dbus' /\ ~store_buffer_err'
  BY DEF Edge, PadvCtrl, AccessDone, ExceptDbus, StoreBufferErr
<1>7. ~except_align
  BY DEF except_align
<1>8. ~ctrl_except_dbus' /\ ~ctrl_except_align' /\ ~ctrl_stage_exceptions'
  BY <1>7 DEF Edge, CtrlExceptions, CtrlStageExceptions
<1> QED BY <1>2, <1>3, <1>4, <1>5, <1>6, <1>8 DEF Reading

LEMMA AnswerStep ==
  ASSUME LsInv, StageInv, ErrorInv, AnswerInv, NEW i, InputOK(i), Edge(i),
         DCACHE => SwitchFixed /\ SwitchFixed' /\ dc_enable' = dc_enable
  PROVE  AnswerInv'
<1>1. (i.ack \/ i.err => dbus_req) /\ ~(i.ack /\ i.err)
  BY DEF InputOK
<1>2. CASE IDLE(i)
  <2>1. state = "IDLE" /\ ~dbus_we' /\ ~dbus_ack'
    BY <1>2 DEF IDLE, IdleDefaults
  <2>2. ASSUME state' = "READ" PROVE Reading'
    <3>1. /\ IdleNext(i) = "access" /\ ctrl_op_lsu_load
          /\ dbus_adr' = ctrl.adr
      BY <1>2, <2>2 DEF IDLE
    <3>2. StartsAccess(i) /\ ~i.err
      BY <3>1 DEF IdleNext
    <3>3. ~lsu_ack(i.flush)
      BY <2>1, <3>1, <3>2 DEF StartsAccess, lsu_ack, ctrl_op_lsu_load, ctrl_op_lsu_store
    <3> QED BY <2>1, <3>1, <3>2, <3>3, StartsReading, ReadingStep
  <2> QED BY <2>1, <2>2 DEF AnswerInv
<1>3. CASE DC_REFILL(i)
  <2>1. state' # "READ" /\ ~dbus_ack' /\ ~dbus_we'
    BY <1>3 DEF DC_REFILL, AnswerInv
  <2> QED BY <2>1 DEF AnswerInv
<1>4. CASE READ(i)
  <2>1. /\ state = "READ" /\ ~dbus_we' /\ dbus_adr' = dbus_adr
        /\ dbus_ack' = i.ack /\ dbus_dat' = IF i.ack THEN mem[dbus_adr] ELSE dbus_dat
        /\ state' = IF i.ack \/ i.err THEN "IDLE" ELSE "READ"
    BY <1>4 DEF READ, AnswerInv
  <2>2. Reading
    BY <2>1 DEF AnswerInv
  <2>3. ~i.flush /\ ~i.advance /\ ~lsu_ack(i.flush)
    BY <2>1, KeepsReading
  <2>4. CASE i.err
    BY <1>1, <2>1, <2>4 DEF AnswerInv
  <2>5. CASE ~i.err
    <3>1. Reading'
      BY <2>1, <2>2, <2>3, <2>5, ReadingStep DEF Reading
    <3>2. ASSUME i.ack PROVE log'.result = [adr |-> ctrl'.adr, val |-> dbus_dat']
      <4>1. dbus_access /\ ctrl_op_lsu_load /\ ~access_done
        BY <2>1, <2>2 DEF Reading, dbus_access
      <4>2. log'.result = [adr |-> ctrl.adr, val |-> mem[dbus_adr]]
        BY <2>1, <3>2, <4>1 DEF Edge, Log
      <4>3. ctrl'.adr = ctrl.adr
        BY <2>1, <2>2, <3>1 DEF Reading
      <4> QED BY <2>1, <3>2, <4>2, <4>3
    <3> QED BY <2>1, <2>5, <3>1, <3>2 DEF AnswerInv
  <2> QED BY <2>4, <2>5
<1>5. CASE WRITE(i)
  <2>1. /\ state' = IF write_done' THEN "IDLE" ELSE "WRITE"
        /\ write_done' = (Finishes(i) /\ ~i.write)
        /\ dbus_we' = ~Finishes(i) /\ ~dbus_ack'
    BY <1>5 DEF WRITE
  <2> QED BY <2>1 DEF AnswerInv
<1> QED BY <1>2, <1>3, <1>4, <1>5 DEF Edge, BusMachine

(***************************************************************************)
(* The invariant of the loads on the bus.                                  *)
(***************************************************************************)
NoSwitch == DCACHE => {"dce_on", "dce_off"} \cap Ops = {}

LoadInv == /\ LsInv /\ StageInv /\ ErrorInv /\ AnswerInv
           /\ DCACHE => SwitchFixed

LEMMA InitLoads == Init => LoadInv
<1>1. Init => LsInv
  BY InitKeeps
<1>2. Init => StageInv /\ ErrorInv /\ AnswerInv
  BY DEF Init, StageInv, ErrorInv, AnswerInv, LsuKinds
<1>3. Init => SwitchFixed
  BY ConfigAssumption DEF Init, SwitchFixed
<1> QED BY <1>1, <1>2, <1>3 DEF LoadInv

LEMMA LoadsKept == NoSwitch /\ LoadInv /\ [Next]_vars => LoadInv'
<1> SUFFICES ASSUME NoSwitch, LoadInv, [Next]_vars PROVE LoadInv'
  OBVIOUS
<1>1. CASE Next
  <2>1. PICK answer \in Answers, trap \in Traps, taken \in Takes :
           \E snoop \in Snoops(answer), next \in Nexts :
              LET i == Given(answer, snoop, next, trap, taken)
              IN  InputOK(i) /\ Edge(i)
    BY <1>1, StepOfNext DEF LoadInv
  <2>2. PICK snoop \in Snoops(answer), next \in Nexts :
           LET i == Given(answer, snoop, next, trap, taken)
           IN  InputOK(i) /\ Edge(i)
    BY <2>1
  <2>3. DCACHE => SwitchFixed /\ SwitchFixed' /\ dc_enable' = dc_enable
    BY <2>2, SwitchStep DEF LoadInv, NoSwitch
  <2> QED BY <2>2, <2>3, EdgeKeeps, StageStep, ErrorStep, AnswerStep DEF LoadInv
<1>2. CASE UNCHANGED vars
  <2>1. LsInv'
    BY <1>2, NextKeeps DEF LoadInv
  <2> QED BY <1>2, <2>1 DEF LoadInv, StageInv, ErrorInv, AnswerInv, Reading, SwitchFixed,
                            ctrl_op_lsu_load, ctrl_op_lsu_store, dc_access,
                            vars, machine, status, atomics, caching, pipeline, bus
<1> QED BY <1>1, <1>2

\* The invariant of the loads on the bus.
THEOREM LoadInvariance == ASSUME NoSwitch PROVE Spec => []LoadInv
  BY InitLoads, LoadsKept, PTL DEF Spec

\* A load that takes the answer of the bus takes the one to its own request,
\* whatever exceptions and bus errors come between (:311-495, 577-600).
THEOREM AnswersAreOwn == ASSUME NoSwitch PROVE Spec => []TakesOwnAnswer
<1>1. LoadInv => TakesOwnAnswer
  BY DEF LoadInv, AnswerInv, Reading, TakesOwnAnswer
<1> QED BY <1>1, LoadInvariance, PTL
=============================================================================
