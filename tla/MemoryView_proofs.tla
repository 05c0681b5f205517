-------------------------- MODULE MemoryView_proofs ---------------------------
(***************************************************************************)
(* Proofs that buffer, bus and memory are one sequential memory to a       *)
(* program without l.swa, for every depth of the buffer and every set of   *)
(* addresses, with exceptions, bus errors and other masters: what a store  *)
(* writes, every later load reads, although the store still waits in the   *)
(* buffer, is fetched or is on the bus.                                    *)
(***************************************************************************)
EXTENDS LoadMemory_proofs, WellFoundedInduction

(***************************************************************************)
(* The memory m behind the pending stores p, which are not atomic.  View   *)
(* is ViewOf(mem, Pending).                                                *)
(***************************************************************************)
Plain == [adr : Adr, id : Val, atomic : {FALSE}]

ViewOf(m, p) ==
    LET mine(a) == {k \in DOMAIN p : p[k].adr = a /\ ~p[k].atomic}
    IN  [a \in Adr |-> IF mine(a) = {} THEN m[a]
                       ELSE p[CHOOSE k \in mine(a) : \A j \in mine(a) : j <= k].id]

\* k is the place of the last store to a.
LastTo(p, a, k) == /\ k \in 1 .. Len(p) /\ p[k].adr = a
                   /\ \A j \in 1 .. Len(p) : p[j].adr = a => j <= k

LEMMA ViewIsViewOf == View = ViewOf(mem, Pending)
  BY DEF View, ViewOf

LEMMA PlainIsPlain == ASSUME NEW p \in Seq(Plain)
                      PROVE  /\ DOMAIN p = 1 .. Len(p) /\ Len(p) \in Nat
                             /\ \A k \in 1 .. Len(p) : /\ p[k] \in Plain /\ ~p[k].atomic
                                                       /\ p[k].adr \in Adr /\ p[k].id \in Val
<1>1. DOMAIN p = 1 .. Len(p) /\ Len(p) \in Nat
  BY LenProperties
<1>2. \A k \in 1 .. Len(p) : p[k] \in Plain
  BY ElementOfSeq
<1> QED BY <1>1, <1>2 DEF Plain

LEMMA ViewAt ==
  ASSUME NEW m, NEW p \in Seq(Plain), NEW a \in Adr
  PROVE  /\ (\A k \in 1 .. Len(p) : p[k].adr # a) => ViewOf(m, p)[a] = m[a]
         /\ \A k : LastTo(p, a, k) => ViewOf(m, p)[a] = p[k].id
<1> DEFINE mine == {k \in DOMAIN p : p[k].adr = a /\ ~p[k].atomic}
<1>1. mine = {k \in 1 .. Len(p) : p[k].adr = a}
  BY PlainIsPlain
<1>2. ViewOf(m, p)[a] = IF mine = {} THEN m[a]
                        ELSE p[CHOOSE k \in mine : \A j \in mine : j <= k].id
  BY DEF ViewOf
<1> HIDE DEF mine
<1>3. (\A k \in 1 .. Len(p) : p[k].adr # a) => mine = {}
  BY <1>1
<1>4. ASSUME NEW k, LastTo(p, a, k)
      PROVE  mine # {} /\ k = CHOOSE x \in mine : \A j \in mine : j <= x
  <2>1. k \in mine /\ \A j \in mine : j <= k
    BY <1>1, <1>4 DEF LastTo
  <2>2. \A x \in mine : (\A j \in mine : j <= x) => x = k
    <3>1. mine \subseteq Int
      BY <1>1, PlainIsPlain
    <3> QED BY <2>1, <3>1
  <2> QED BY <2>1, <2>2
<1> QED BY <1>2, <1>3, <1>4

LEMMA LastExists ==
  ASSUME NEW p \in Seq(Plain), NEW a, NEW k0 \in 1 .. Len(p), p[k0].adr = a
  PROVE  \E k : LastTo(p, a, k)
<1> DEFINE T == {n \in Nat : \E k \in 1 .. Len(p) : p[k].adr = a /\ n = Len(p) - k}
<1>1. Len(p) \in Nat
  BY PlainIsPlain
<1>2. Len(p) - k0 \in T
  BY <1>1
<1>3. T \subseteq Nat /\ T # {}
  BY <1>2
<1> HIDE DEF T
<1>4. PICK x \in T : \A y \in T : ~(<<y, x>> \in OpToRel(<, Nat))
  BY <1>3, NatLessThanWellFounded, WFMin, Zenon
<1>5. \A y \in T : ~(y < x)
  BY <1>3, <1>4 DEF OpToRel
<1>6. PICK k \in 1 .. Len(p) : p[k].adr = a /\ x = Len(p) - k
  BY DEF T
<1>7. ASSUME NEW j \in 1 .. Len(p), p[j].adr = a PROVE j <= k
  <2>1. Len(p) - j \in T
    BY <1>1, <1>7 DEF T
  <2>2. ~(Len(p) - j < Len(p) - k)
    BY <1>5, <1>6, <2>1
  <2> QED BY <1>1, <2>2
<1> QED BY <1>6, <1>7 DEF LastTo

(***************************************************************************)
(* A store that joins the pending ones changes the view at its address.    *)
(***************************************************************************)
LEMMA ViewAppend ==
  ASSUME NEW m \in [Adr -> Val], NEW p \in Seq(Plain), NEW e \in Plain
  PROVE  /\ ViewOf(m, Append(p, e))[e.adr] = e.id
         /\ \A a \in Adr \ {e.adr} : ViewOf(m, Append(p, e))[a] = ViewOf(m, p)[a]
<1> DEFINE q == Append(p, e)
<1>1. /\ q \in Seq(Plain) /\ Len(q) = Len(p) + 1 /\ Len(p) \in Nat
      /\ \A k \in 1 .. Len(p) : q[k] = p[k]
      /\ q[Len(p) + 1] = e
  BY AppendProperties, PlainIsPlain
<1>2. e.adr \in Adr
  BY DEF Plain
<1> HIDE DEF q
<1>3. \A k \in 1 .. Len(q) : k \in 1 .. Len(p) \/ k = Len(p) + 1
  BY <1>1
<1>4. ViewOf(m, q)[e.adr] = e.id
  <2>1. LastTo(q, e.adr, Len(p) + 1)
    BY <1>1 DEF LastTo
  <2> QED BY <1>1, <1>2, <2>1, ViewAt
<1>5. ASSUME NEW a \in Adr \ {e.adr} PROVE ViewOf(m, q)[a] = ViewOf(m, p)[a]
  <2>1. CASE \A k \in 1 .. Len(p) : p[k].adr # a
    <3>1. \A k \in 1 .. Len(q) : q[k].adr # a
      BY <1>1, <1>3, <2>1
    <3> QED BY <1>1, <2>1, <3>1, ViewAt
  <2>2. CASE \E k \in 1 .. Len(p) : p[k].adr = a
    <3>1. PICK k : LastTo(p, a, k)
      BY <2>2, LastExists
    <3>2. LastTo(q, a, k) /\ q[k] = p[k]
      BY <1>1, <1>3, <3>1 DEF LastTo
    <3> QED BY <1>1, <3>1, <3>2, ViewAt
  <2> QED BY <2>1, <2>2
<1> QED BY <1>4, <1>5 DEF q

(***************************************************************************)
(* The oldest store reaches the memory without changing the view.          *)
(***************************************************************************)
LEMMA ViewWritten ==
  ASSUME NEW m \in [Adr -> Val], NEW q \in Seq(Plain), q # <<>>
  PROVE  ViewOf([m EXCEPT ![Head(q).adr] = Head(q).id], Tail(q)) = ViewOf(m, q)
<1> DEFINE h == Head(q)
           t == Tail(q)
           n == [m EXCEPT ![h.adr] = h.id]
<1>1. /\ Len(q) \in Nat /\ Len(q) > 0 /\ h = q[1]
      /\ t \in Seq(Plain) /\ Len(t) = Len(q) - 1
      /\ \A k \in 1 .. Len(q) - 1 : t[k] = q[k + 1]
  BY HeadTailProperties, PlainIsPlain
<1>2. h.adr \in Adr
  BY <1>1, PlainIsPlain
<1>3. \A a \in Adr : n[a] = IF a = h.adr THEN h.id ELSE m[a]
  BY <1>2
<1> HIDE DEF h, t, n
<1>4. \A k \in 1 .. Len(q) : k = 1 \/ (k - 1 \in 1 .. Len(t) /\ q[k] = t[k - 1])
  BY <1>1
<1>5. \A k \in 1 .. Len(t) : k + 1 \in 1 .. Len(q) /\ t[k] = q[k + 1]
  BY <1>1
<1>6. ASSUME NEW a \in Adr PROVE ViewOf(n, t)[a] = ViewOf(m, q)[a]
  <2>1. CASE \A k \in 1 .. Len(t) : t[k].adr # a
    <3>1. ViewOf(n, t)[a] = n[a]
      BY <1>1, <2>1, ViewAt
    <3>2. CASE h.adr = a
      <4>1. LastTo(q, a, 1)
        BY <1>1, <1>4, <2>1, <3>2 DEF LastTo
      <4> QED BY <1>1, <1>3, <3>1, <3>2, <4>1, ViewAt
    <3>3. CASE h.adr # a
      <4>1. \A k \in 1 .. Len(q) : q[k].adr # a
        BY <1>1, <1>4, <2>1, <3>3
      <4> QED BY <1>3, <3>1, <3>3, <4>1, ViewAt
    <3> QED BY <3>2, <3>3
  <2>2. CASE \E k \in 1 .. Len(t) : t[k].adr = a
    <3>1. PICK k : LastTo(t, a, k)
      BY <1>1, <2>2, LastExists
    <3>2. k + 1 \in 1 .. Len(q) /\ q[k + 1] = t[k] /\ q[k + 1].adr = a /\ k \in Nat
      BY <1>1, <1>5, <3>1 DEF LastTo
    <3>3. ASSUME NEW j \in 1 .. Len(q), q[j].adr = a PROVE j <= k + 1
      BY <1>1, <1>4, <3>1, <3>2, <3>3 DEF LastTo
    <3>4. LastTo(q, a, k + 1)
      BY <3>2, <3>3 DEF LastTo
    <3> QED BY <1>1, <3>1, <3>2, <3>4, ViewAt
  <2> QED BY <2>1, <2>2
<1>7. ViewOf(n, t) = ViewOf(m, q)
  <2>1. /\ DOMAIN ViewOf(n, t) = Adr /\ DOMAIN ViewOf(m, q) = Adr
        /\ ViewOf(n, t) = [a \in Adr |-> ViewOf(n, t)[a]]
        /\ ViewOf(m, q) = [a \in Adr |-> ViewOf(m, q)[a]]
    BY DEF ViewOf
  <2> QED BY <1>6, <2>1
<1> QED BY <1>7 DEF h, t, n

\* A write to one word of the memory changes the view nowhere else.
LEMMA ViewMemory ==
  ASSUME NEW m, NEW n, NEW p \in Seq(Plain), NEW a \in Adr, n[a] = m[a]
  PROVE  ViewOf(n, p)[a] = ViewOf(m, p)[a]
  BY DEF ViewOf

LEMMA ViewTyped ==
  ASSUME NEW m \in [Adr -> Val], NEW p \in Seq(Plain)
  PROVE  ViewOf(m, p) \in [Adr -> Val] /\ ViewOf(m, <<>>) = m
<1>1. ASSUME NEW a \in Adr PROVE ViewOf(m, p)[a] \in Val
  <2>1. CASE \A k \in 1 .. Len(p) : p[k].adr # a
    BY <2>1, ViewAt
  <2>2. CASE \E k \in 1 .. Len(p) : p[k].adr = a
    <3>1. PICK k : LastTo(p, a, k)
      BY <2>2, LastExists
    <3> QED BY <3>1, ViewAt, PlainIsPlain DEF LastTo
  <2> QED BY <2>1, <2>2
<1>2. ViewOf(m, p) \in [Adr -> Val]
  <2>1. ViewOf(m, p) = [a \in Adr |-> ViewOf(m, p)[a]]
    BY DEF ViewOf
  <2> QED BY <1>1, <2>1
<1>3. ViewOf(m, <<>>) = m
  BY DEF ViewOf
<1> QED BY <1>2, <1>3
-----------------------------------------------------------------------------
(***************************************************************************)
(* The pending stores of a program without l.swa are plain.                *)
(***************************************************************************)
PlainInv == /\ dbus_atomic = FALSE /\ ~fifo_dout.atomic
            /\ \A s \in 0 .. DEPTH - 1 : ~fifo_ram[s].atomic

\* The entry the buffer is offered, and the one on the bus.
Offered == [adr |-> ctrl.adr, id |-> ctrl.id, atomic |-> FALSE]
BusWord == [adr |-> dbus_adr, id |-> dbus_dat, atomic |-> FALSE]

LEMMA PendingPlain ==
  ASSUME LsInv, PlainInv
  PROVE  /\ Offered \in Plain /\ BusWord \in Plain /\ fifo_dout \in Plain
         /\ Contents \in Seq(Plain) /\ Len(Contents) = Count /\ Count \in Nat
         /\ OnBus \in Seq(Plain) /\ Fetched \in Seq(Plain) /\ Pending \in Seq(Plain)
         /\ OnBus = IF OnItsWay THEN <<BusWord>> ELSE <<>>
         /\ Fetched = IF IsFetched THEN <<fifo_dout>> ELSE <<>>
         /\ Pending = OnBus \o (Fetched \o Contents)
<1>1. /\ ctrl.adr \in Adr /\ ctrl.id \in Val /\ dbus_adr \in Adr /\ dbus_dat \in Val
      /\ Id \subseteq Val
  BY ValuesTyped DEF LsInv, TypeOK
<1>2. Offered \in Plain /\ BusWord \in Plain
  BY <1>1 DEF Offered, BusWord, Plain
<1>3. IInv
  BY DEF LsInv, TypeOK, IInv
<1>4. \A e \in Store : ~e.atomic => e \in Plain
  BY <1>1 DEF Store, Plain
<1>5. fifo_dout \in Store /\ \A s \in 0 .. DEPTH - 1 : fifo_ram[s] \in Store
  BY <1>3, EntryAssumption DEF IInv, SBTypeOK
<1>6. fifo_dout \in Plain /\ \A s \in 0 .. DEPTH - 1 : fifo_ram[s] \in Plain
  BY <1>4, <1>5 DEF PlainInv
<1>7. Contents \in Seq(Plain) /\ Len(Contents) = Count /\ Count \in Nat
  <2>1. Count \in 0 .. DEPTH /\ DEPTH \in Nat
    BY <1>3, Flags, DepthAssumption
  <2>2. \A k \in 1 .. Count : fifo_ram[SlotOf(k)] \in Plain
    BY <1>3, <1>6, <2>1, SlotsOfEntries
  <2>3. Contents \in [1 .. Count -> Plain]
    BY <2>2 DEF Contents
  <2> QED BY <2>1, <2>3
<1>8. /\ OnBus = IF OnItsWay THEN <<BusWord>> ELSE <<>>
      /\ Fetched = IF IsFetched THEN <<fifo_dout>> ELSE <<>>
  BY DEF OnBus, Fetched, OnItsWay, IsFetched, BusWord, PlainInv
<1>9. OnBus \in Seq(Plain) /\ Fetched \in Seq(Plain)
  BY <1>2, <1>6, <1>8
<1>10. Pending = OnBus \o (Fetched \o Contents)
  <2>1. OnBus \in Seq(Plain) /\ Fetched \in Seq(Plain) /\ Contents \in Seq(Plain)
    BY <1>7, <1>9
  <2> QED BY <2>1, ConcatAssociative DEF Pending
<1>11. Pending \in Seq(Plain)
  <2> HIDE DEF Plain
  <2>1. Fetched \o Contents \in Seq(Plain)
    BY <1>7, <1>9, ConcatProperties
  <2> QED BY <1>9, <1>10, <2>1, ConcatProperties
<1> QED BY <1>2, <1>6, <1>7, <1>8, <1>9, <1>10, <1>11

\* What the buffer takes is the aligned store in the control stage.
LEMMA WritesStore ==
  ASSUME "swa" \notin Ops, StoreInv, NEW i, InputOK(i), i.write
  PROVE  /\ ctrl.op = "store" /\ ~ctrl.misaligned /\ ctrl_op_lsu_store /\ ~ctrl_op_lsu_load
         /\ ~ctrl_op_lsu_atomic /\ ~i.flush /\ ~except_dbus /\ ~refill /\ ~full
<1>1. /\ (ctrl_op_lsu_store /\ padv_ctrl) \/ store_buffer_write_pending
      /\ ~except_align /\ ~except_dbus /\ ~i.flush /\ ~refill /\ ~full
  BY DEF InputOK, store_buffer_write, dbus_stall, dc_busy
<1>2. i.flush = (exception(i.trap) /\ ~exception_r /\ ~exception_taken)
  BY DEF InputOK, exception_re
<1>3. ctrl.op = "store"
  BY <1>1, <1>2
  DEF StoreInv, PendingInv, StageInv, exception, exception_pending, ctrl_op_lsu_store, LsuKinds
<1> QED BY <1>1, <1>3 DEF except_align, ctrl_op_lsu, ctrl_op_lsu_store, ctrl_op_lsu_load,
                          ctrl_op_lsu_atomic

\* A cycle of the buffer as the unit drives it.
LEMMA UnitCycle ==
  ASSUME "swa" \notin Ops, StoreInv, NEW i, InputOK(i), Edge(i)
  PROVE  /\ Cycle(i.write, store_buffer_read(i), Offered)
         /\ Contract(i.write, store_buffer_read(i))
         /\ i.write \in BOOLEAN /\ store_buffer_read(i) \in BOOLEAN
<1>1. i.write \in BOOLEAN /\ (i.write => ~full)
  BY DEF InputOK, store_buffer_write
<1>2. store_buffer_read(i) \in BOOLEAN /\ (store_buffer_read(i) => ~empty \/ i.write)
  BY DEF store_buffer_read
<1>3. Cycle(i.write, store_buffer_read(i),
            [adr |-> ctrl.adr, id |-> ctrl.id, atomic |-> ctrl_op_lsu_atomic])
  BY DEF Edge, Buffer
<1>4. CASE i.write
  <2>1. ~ctrl_op_lsu_atomic
    BY <1>4, WritesStore
  <2>2. ctrl_op_lsu_atomic = FALSE
    BY <2>1 DEF ctrl_op_lsu_atomic
  <2> QED BY <1>1, <1>2, <1>3, <2>2 DEF Offered, Contract
<1>5. CASE ~i.write
  <2>1. Cycle(i.write, store_buffer_read(i), Offered)
    BY <1>1, <1>3, <1>5 DEF Cycle, ReadPort
  <2> QED BY <1>1, <1>2, <2>1 DEF Contract
<1> QED BY <1>4, <1>5

LEMMA PlainStep ==
  ASSUME "swa" \notin Ops, StoreInv, PlainInv, NEW i, InputOK(i), Edge(i)
  PROVE  PlainInv'
<1>1. Cycle(i.write, store_buffer_read(i), Offered) /\ ~Offered.atomic
  BY UnitCycle DEF Offered
<1>2. /\ Slot(write_pointer) \in 0 .. DEPTH - 1 /\ Slot(read_pointer) \in 0 .. DEPTH - 1
      /\ fifo_ram \in [0 .. DEPTH - 1 -> Entry]
  BY DepthAssumption DEF StoreInv, LsInv, TypeOK, SBTypeOK, Pointer, Slot
<1> HIDE DEF Offered
<1>3. \A s \in 0 .. DEPTH - 1 : ~fifo_ram'[s].atomic
  BY <1>1, <1>2 DEF Cycle, PlainInv
<1>4. ~fifo_dout'.atomic
  BY <1>1, <1>2 DEF Cycle, ReadPort, PlainInv
<1>5. dbus_atomic' = FALSE
  BY DEF Edge, BusMachine, IDLE, IdleDefaults, DC_REFILL, READ, WRITE, PlainInv
<1> QED BY <1>3, <1>4, <1>5 DEF PlainInv

(***************************************************************************)
(* The bus machine.  Outside WRITE the buffer is empty until a write fails *)
(* (log.unseen: nothing is promised from then on), and DC_REFILL is where  *)
(* the cache refills.                                                      *)
(***************************************************************************)
DcStates == {"IDLE", "READ", "REFILL", "WRITE", "INVALIDATE"}

MachineInv ==
    /\ log.unseen \in BOOLEAN
    /\ dc_state \in DcStates
    /\ state = "IDLE" => ~dbus_req
    /\ state \in {"READ", "DC_REFILL"} => ~dbus_err
    /\ state = "WRITE" => dbus_we = dbus_req
    /\ dbus_err => except_dbus
    /\ ~log.unseen => /\ state # "WRITE" => Contents = <<>>
                      /\ state = "DC_REFILL" => refill
                      /\ refill => state = "DC_REFILL" \/ dbus_err

ViewInv == LoadInv /\ StoreInv /\ OrderInv /\ PlainInv /\ MachineInv

\* What goes in and comes out of the buffer in a cycle.
LEMMA BufferMoves ==
  ASSUME "swa" \notin Ops, ViewInv, NEW i, InputOK(i), Edge(i)
  PROVE  LET q == IF i.write THEN Append(Contents, Offered) ELSE Contents
         IN  /\ q \in Seq(Plain) /\ Contents' \in Seq(Plain) /\ fifo_dout' \in Plain
             /\ store_buffer_read(i) => q # <<>> /\ fifo_dout' = Head(q) /\ Contents' = Tail(q)
             /\ ~store_buffer_read(i) => Contents' = q /\ fifo_dout' = fifo_dout
             /\ empty <=> Contents = <<>>
<1> DEFINE q == IF i.write THEN Append(Contents, Offered) ELSE Contents
<1>1. IInv /\ LsInv /\ PlainInv
  BY DEF ViewInv, StoreInv, LsInv, TypeOK, IInv
<1>2. /\ Cycle(i.write, store_buffer_read(i), Offered)
      /\ Contract(i.write, store_buffer_read(i))
      /\ i.write \in BOOLEAN /\ store_buffer_read(i) \in BOOLEAN
  BY UnitCycle DEF ViewInv
<1>3. /\ Offered \in Plain /\ fifo_dout \in Plain /\ Contents \in Seq(Plain)
      /\ Len(Contents) = Count /\ Count \in Nat
  BY <1>1, PendingPlain
<1>4. Offered \in Entry
  <2>1. ctrl.adr \in Adr /\ ctrl.id \in Id
    BY <1>1, ValuesTyped
  <2> QED BY <2>1, EntryAssumption DEF Offered, Store
<1> HIDE DEF Offered
<1>5. /\ store_buffer_read(i) => q # <<>> /\ fifo_dout' = Head(q) /\ Contents' = Tail(q)
      /\ ~store_buffer_read(i) => Contents' = q
  BY <1>1, <1>2, <1>4, ContentsAfter
<1>6. ~store_buffer_read(i) => fifo_dout' = fifo_dout
  BY <1>2 DEF Cycle
<1>7. empty <=> Contents = <<>>
  BY <1>1, <1>3, Flags, EmptySeq
<1>8. q \in Seq(Plain)
  BY <1>3, AppendProperties
<1> HIDE DEF q
<1>9. Contents' \in Seq(Plain) /\ fifo_dout' \in Plain
  BY <1>3, <1>5, <1>6, <1>8, HeadTailProperties
<1> QED BY <1>5, <1>6, <1>7, <1>8, <1>9 DEF q

\* A load that misses the cache waits, and it starts a refill.
LEMMA MissWaits ==
  ASSUME "swa" \notin Ops, ViewInv, NEW i, InputOK(i), Edge(i),
         dc_state = "READ", dc_req(i.flush), dc_refill_allowed(i), ~hit(Inputs(i))
  PROVE  /\ ctrl_op_lsu_load /\ ~ctrl_op_lsu_store /\ dc_access /\ DCACHE
         /\ ~i.flush /\ ~i.advance /\ ~dc_we(i) /\ ~except_dbus /\ ~access_done
         /\ ~ctrl.misaligned /\ state # "WRITE" /\ ~refill
<1>1. /\ ctrl_op_lsu /\ dc_access /\ ~access_done /\ ~except_align /\ ~except_dbus /\ ~i.flush
      /\ ~ctrl_op_lsu_store /\ state # "WRITE"
  BY DEF dc_req, dbus_stall, dc_refill_allowed
<1>2. ctrl_op_lsu_load /\ ~ctrl.misaligned
  BY <1>1 DEF ctrl_op_lsu, except_align
<1>3. ~cpu_ack(Lookup(i.flush))
  BY DEF cpu_ack, hit, way_hit, Lookup, Inputs, refill_hit, refill
<1>4. state # "DC_REFILL" => ~lsu_ack(i.flush)
  BY <1>1, <1>3 DEF lsu_ack, dbus_access
<1>5. state = "DC_REFILL" => ~lsu_ack(i.flush)
  <2>1. dbus_ack => state = "IDLE"
    BY DEF ViewInv, LoadInv, AnswerInv
  <2> QED BY <1>1, <1>3, <2>1 DEF lsu_ack
<1>6. ~i.advance
  BY <1>1, <1>4, <1>5 DEF InputOK, padv_execute, ctrl_stall, lsu_valid
<1>7. ~dc_we(i)
  BY <1>6 DEF dc_we, ViewInv, PlainInv
<1> QED BY <1>1, <1>2, <1>6, <1>7 DEF dc_access, refill

LEMMA RefillStarts ==
  ASSUME "swa" \notin Ops, ViewInv, NEW i, InputOK(i), Edge(i), ~log.unseen,
         StartsRefill(Inputs(i))
  PROVE  state = "IDLE" /\ IdleNext(i) = "refill" /\ ~i.err /\ dc_state' = "REFILL"
<1> USE DEF ViewInv
<1>1. /\ dc_state = "READ" /\ dc_req(i.flush) /\ dc_refill_allowed(i)
      /\ ~write_pending /\ ~hit(Inputs(i)) /\ ~dc_we(i)
  BY DEF StartsRefill, Inputs
<1>2. ctrl_op_lsu_load /\ dc_access /\ ~ctrl_op_lsu_store /\ ~except_dbus /\ state # "WRITE" /\ ~refill
      /\ DCACHE
  BY <1>1, MissWaits
<1>3. state = "IDLE"
  BY <1>2 DEF LoadInv, AnswerInv, Reading, StoreInv, LsInv, TypeOK, MachineInv
<1>4. ~i.write
  BY <1>2, WritesStore
<1>5. ~dbus_err /\ empty /\ ~dbus_req
  BY <1>2, <1>3, BufferMoves DEF MachineInv
<1>6. refill_req(Inputs(i))
  BY <1>1 DEF refill_req, Inputs
<1>7. IdleNext(i) = "refill" /\ ~i.err
  BY <1>4, <1>5, <1>6 DEF IdleNext, InputOK
<1>8. dc_state' = "REFILL"
  BY <1>1, <1>2, <1>5, Zenon
  DEF Edge, Caching, DcCycle, StateMachine, FromRead, Inputs, StartsRefill
<1> QED BY <1>3, <1>7, <1>8

LEMMA RefillMeets ==
  ASSUME "swa" \notin Ops, ViewInv, NEW i, InputOK(i), Edge(i), ~log.unseen,
         state = "IDLE", IdleNext(i) = "refill"
  PROVE  StartsRefill(Inputs(i))
<1>1. refill_req(Inputs(i)) /\ ~dbus_err
  BY DEF IdleNext
<1>2. ~refill
  BY <1>1 DEF ViewInv, MachineInv
<1>3. /\ dc_state = "READ" /\ dc_req(i.flush) /\ dc_refill_allowed(i)
      /\ ~write_pending /\ ~hit(Inputs(i))
  BY <1>1, <1>2 DEF refill_req, Inputs
<1>4. ~dc_we(i) /\ dc_access
  BY <1>3, MissWaits
<1> QED BY <1>3, <1>4 DEF StartsRefill, Inputs

\* The states of the cache; only a miss leads to REFILL.
LEMMA CacheStates ==
  ASSUME dc_state \in DcStates, NEW d, DcCycle(d)
  PROVE  /\ dc_state' \in DcStates
         /\ dc_state' = "REFILL" => dc_state = "REFILL" \/ StartsRefill(d)
         /\ d.err => dc_state' = "IDLE"
<1>1. d.err => dc_state' = "IDLE"
  BY DEF DcCycle, StateMachine
<1>2. /\ FromIdle(d) \in DcStates \ {"REFILL"}
      /\ FromRead(d) \in DcStates /\ (FromRead(d) = "REFILL" => StartsRefill(d))
      /\ FromRefill(d) \in DcStates
      /\ FromInvalidate(d) \in DcStates \ {"REFILL"}
  BY DEF FromIdle, FromRead, FromRefill, FromInvalidate, DcStates
<1>3. ASSUME ~d.err, dc_state = "IDLE" PROVE dc_state' = FromIdle(d)
  BY <1>3 DEF DcCycle, StateMachine
<1>4. ASSUME ~d.err, dc_state = "READ" PROVE dc_state' = FromRead(d)
  BY <1>4 DEF DcCycle, StateMachine
<1>5. ASSUME ~d.err, dc_state = "REFILL" PROVE dc_state' = FromRefill(d)
  BY <1>5 DEF DcCycle, StateMachine
<1>6. ASSUME ~d.err, dc_state = "WRITE" PROVE dc_state' \in {"IDLE", "WRITE"}
  BY <1>6 DEF DcCycle, StateMachine
<1>7. ASSUME ~d.err, dc_state = "INVALIDATE" PROVE dc_state' = FromInvalidate(d)
  BY <1>7 DEF DcCycle, StateMachine
<1>8. CASE d.err
  BY <1>1, <1>8 DEF DcStates
<1>9. CASE ~d.err
  BY <1>2, <1>3, <1>4, <1>5, <1>6, <1>7, <1>9 DEF DcStates
<1> QED BY <1>1, <1>8, <1>9

\* The cache leaves REFILL when the bus machine leaves DC_REFILL.
LEMMA RefillStep ==
  ASSUME "swa" \notin Ops, ViewInv, NEW i, InputOK(i), Edge(i), ~log.unseen
  PROVE  /\ state' = "DC_REFILL" => refill'
         /\ refill' => state' = "DC_REFILL" \/ dbus_err'
<1>1. CASE ~DCACHE
  <2>1. LsInv'
    BY EdgeKeeps DEF ViewInv, LoadInv
  <2> QED BY <1>1, <2>1 DEF LsInv, refill
<1>2. CASE DCACHE
  <2>1. DcCycle(Inputs(i)) /\ dbus_err' = i.err
    BY <1>2 DEF Edge, Caching, BusMachine
  <2>2. /\ state = "DC_REFILL" => refill /\ ~dbus_err
        /\ refill => state = "DC_REFILL" \/ dbus_err
    BY DEF ViewInv, MachineInv
  <2>3. /\ dbus_err => dc_state' = "IDLE"
        /\ ~refill /\ dc_state' = "REFILL" => StartsRefill(Inputs(i))
    BY <2>1, CacheStates DEF Inputs, refill, ViewInv, MachineInv
  <2>4. refill /\ ~dbus_err =>
          dc_state' = IF snoop_hit \/ (i.ack /\ RefillDone) THEN "IDLE" ELSE "REFILL"
    BY <2>1 DEF DcCycle, StateMachine, FromRefill, Inputs, refill, refill_done, RefillDone
  <2>5. CASE state = "DC_REFILL"
    <3>1. DC_REFILL(i)
      BY <2>5 DEF Edge, BusMachine, IDLE, READ, WRITE
    <3>2. state' = IF (i.ack /\ RefillDone) \/ i.err \/ snoop_hit THEN "IDLE" ELSE "DC_REFILL"
      BY <3>1 DEF DC_REFILL, EndsRefill
    <3> QED BY <2>1, <2>2, <2>4, <2>5, <3>2 DEF refill
  <2>6. CASE state # "DC_REFILL"
    <3>1. state' = "DC_REFILL" => state = "IDLE" /\ IdleNext(i) = "refill"
      <4>1. IDLE(i) /\ state' = "DC_REFILL" => state = "IDLE" /\ IdleNext(i) = "refill"
        BY DEF IDLE
      <4>2. (READ(i) \/ WRITE(i)) => state' # "DC_REFILL"
        BY DEF READ, WRITE
      <4> QED BY <2>6, <4>1, <4>2 DEF Edge, BusMachine, DC_REFILL
    <3>2. state' = "DC_REFILL" => refill'
      BY <3>1, RefillMeets, RefillStarts DEF refill
    <3>3. ASSUME refill' PROVE state' = "DC_REFILL"
      <4>1. ~refill /\ StartsRefill(Inputs(i))
        BY <2>2, <2>3, <2>6, <3>3 DEF refill
      <4>2. state = "IDLE" /\ IdleNext(i) = "refill"
        BY <4>1, RefillStarts
      <4>3. IDLE(i)
        BY <4>2 DEF Edge, BusMachine, DC_REFILL, READ, WRITE
      <4> QED BY <4>2, <4>3 DEF IDLE
    <3> QED BY <3>2, <3>3
  <2> QED BY <2>5, <2>6
<1> QED BY <1>1, <1>2, ConfigAssumption

\* A write that fails ends the promise, and an error is known to the stage.
LEMMA PromiseLasts ==
  ASSUME "swa" \notin Ops, ViewInv, NEW i, InputOK(i), Edge(i)
  PROVE  /\ log'.unseen \in BOOLEAN /\ (log.unseen => log'.unseen)
         /\ dbus_we_o <=> dbus_we
         /\ i.err /\ dbus_we => log'.unseen
<1>1. log'.unseen = (\/ log.unseen \/ StoreWhileOff \/ (i.err /\ dbus_we_o)
                     \/ DropsAccess(i)
                     \/ \E a \in i.snoop : OvertakesRefill(a))
  BY DEF Edge, Log
<1>2. dbus_we_o <=> dbus_we
  BY DEF dbus_we_o, ViewInv, PlainInv
<1>3. log.unseen \in BOOLEAN
  BY DEF ViewInv, MachineInv
<1> QED BY <1>1, <1>2, <1>3

LEMMA MachineStep ==
  ASSUME "swa" \notin Ops, ViewInv, NEW i, InputOK(i), Edge(i)
  PROVE  MachineInv'
<1>1. /\ log'.unseen \in BOOLEAN /\ (log.unseen => log'.unseen)
      /\ i.err /\ dbus_we => log'.unseen
  BY PromiseLasts
<1>2. dc_state' \in DcStates
  <2>1. CASE DCACHE
    BY <2>1, CacheStates DEF Edge, Caching, ViewInv, MachineInv
  <2>2. CASE ~DCACHE
    BY <2>2 DEF Edge, Caching, dc_vars, ViewInv, MachineInv
  <2> QED BY <2>1, <2>2, ConfigAssumption
<1>3. /\ i.ack \/ i.err => dbus_req
      /\ state = "IDLE" => ~dbus_req
      /\ dbus_err' = i.err
      /\ dbus_err' => except_dbus'
  BY DEF InputOK, ViewInv, MachineInv, Edge, BusMachine, ExceptDbus
<1>4. /\ ~store_buffer_read(i) /\ ~i.write => Contents' = Contents
      /\ empty <=> Contents = <<>>
  BY BufferMoves
<1>5. ~log.unseen => /\ state # "WRITE" => Contents = <<>>
                     /\ state = "DC_REFILL" => refill
  BY DEF ViewInv, MachineInv
<1>6. SUFFICES /\ state' = "IDLE" => ~dbus_req'
               /\ state' \in {"READ", "DC_REFILL"} => ~i.err
               /\ state' = "WRITE" => dbus_we' = dbus_req'
               /\ ~log'.unseen => (state' # "WRITE" => Contents' = <<>>)
  BY <1>1, <1>2, <1>3, RefillStep DEF MachineInv
<1>7. CASE IDLE(i)
  <2>1. /\ state = "IDLE" /\ dbus_we' = FALSE
        /\ dbus_req' = (IdleNext(i) = "refill" \/ (IdleNext(i) = "access" /\ ctrl_op_lsu_load))
        /\ state' = CASE IdleNext(i) = "write" -> "WRITE"
                     [] IdleNext(i) = "refill" -> "DC_REFILL"
                     [] OTHER -> IF dbus_req' THEN "READ" ELSE "IDLE"
    BY <1>7 DEF IDLE, IdleDefaults
  <2>2. ASSUME state' # "WRITE", ~log'.unseen PROVE Contents' = <<>>
    <3>1. Contents = <<>> /\ empty
      BY <1>1, <1>4, <1>5, <2>1, <2>2
    <3>2. ~i.write
      <4>1. IdleNext(i) # "write"
        BY <2>1, <2>2
      <4>2. dbus_err => ~i.write
        BY WritesStore DEF ViewInv, MachineInv
      <4> QED BY <1>3, <2>1, <4>1, <4>2 DEF IdleNext
    <3>3. ~store_buffer_read(i)
      BY <2>1, <3>1, <3>2 DEF store_buffer_read
    <3> QED BY <1>4, <3>1, <3>2, <3>3
  <2>3. ~i.err
    BY <1>3, <2>1
  <2> QED BY <2>1, <2>2, <2>3
<1>8. CASE DC_REFILL(i)
  <2>1. /\ state = "DC_REFILL" /\ dbus_req' = ~EndsRefill(i)
        /\ state' = IF EndsRefill(i) THEN "IDLE" ELSE "DC_REFILL"
        /\ i.err => EndsRefill(i)
    BY <1>8 DEF DC_REFILL, EndsRefill
  <2>2. ~log'.unseen => refill /\ Contents = <<>>
    BY <1>1, <1>5, <2>1
  <2>3. refill => ~i.write
    BY WritesStore DEF ViewInv
  <2>4. ~store_buffer_read(i)
    BY <2>1 DEF store_buffer_read
  <2> QED BY <1>4, <2>1, <2>2, <2>3, <2>4
<1>9. CASE READ(i)
  <2>1. /\ state = "READ" /\ dbus_req' = (dbus_req /\ ~(i.ack \/ i.err))
        /\ state' = IF i.ack \/ i.err THEN "IDLE" ELSE "READ"
    BY <1>9 DEF READ
  <2>2. ~i.write
    <3>1. ctrl_op_lsu_load
      BY <2>1 DEF ViewInv, LoadInv, AnswerInv, Reading
    <3> QED BY <3>1, WritesStore DEF ViewInv
  <2>3. ~store_buffer_read(i)
    BY <2>1 DEF store_buffer_read
  <2> QED BY <1>1, <1>4, <1>5, <2>1, <2>2, <2>3
<1>10. CASE WRITE(i)
  <2>1. /\ state = "WRITE" /\ dbus_req' = ~Finishes(i) /\ dbus_we' = dbus_req'
        /\ state' = IF Finishes(i) /\ ~i.write THEN "IDLE" ELSE "WRITE"
    BY <1>10 DEF WRITE
  <2>2. ASSUME state' # "WRITE", ~log'.unseen PROVE Contents' = <<>>
    <3>1. Finishes(i) /\ ~i.write
      BY <2>1, <2>2
    <3>2. ~i.err
      BY <1>1, <1>3, <2>1, <2>2 DEF ViewInv, MachineInv
    <3>3. last_write
      BY <3>1, <3>2 DEF Finishes
    <3>4. Contents = <<>> /\ ~store_buffer_read(i)
      BY <2>1, <3>1, <3>3 DEF store_buffer_read, ViewInv, OrderInv, BusOrder
    <3> QED BY <1>4, <3>1, <3>4
  <2> QED BY <2>1, <2>2
<1> QED BY <1>7, <1>8, <1>9, <1>10 DEF Edge, BusMachine
-----------------------------------------------------------------------------
(***************************************************************************)
(* The pending stores of a cycle: the accepted one joins them, the written *)
(* one leaves them.                                                        *)
(***************************************************************************)
LEMMA ConsParts ==
  ASSUME NEW S, NEW e \in S, NEW s \in Seq(S)
  PROVE  /\ <<e>> \o s \in Seq(S) /\ <<e>> \o s # <<>>
         /\ Head(<<e>> \o s) = e /\ Tail(<<e>> \o s) = s
<1> DEFINE q == <<e>> \o s
<1>1. <<e>> \in Seq(S) /\ Len(<<e>>) = 1 /\ <<e>>[1] = e
  OBVIOUS
<1>2. /\ q \in Seq(S) /\ Len(q) = 1 + Len(s) /\ Len(s) \in Nat
      /\ \A k \in 1 .. 1 + Len(s) : q[k] = IF k <= 1 THEN <<e>>[k] ELSE s[k - 1]
  BY <1>1, ConcatProperties, LenProperties
<1> HIDE DEF q
<1>3. /\ q[1] = e /\ \A k \in 1 .. Len(s) : q[k + 1] = s[k]
      /\ q # <<>> /\ q \in Seq(S) /\ Len(q) = Len(s) + 1
  BY <1>1, <1>2
<1>4. /\ Head(q) = q[1] /\ Tail(q) \in Seq(S) /\ Len(Tail(q)) = Len(s)
      /\ \A k \in 1 .. Len(s) : Tail(q)[k] = q[k + 1]
  BY <1>2, <1>3, HeadTailProperties
<1>5. Tail(q) = s
  <2>1. \A k \in 1 .. Len(s) : Tail(q)[k] = s[k]
    BY <1>3, <1>4
  <2> QED BY <1>4, <2>1, SeqEqual
<1> QED BY <1>3, <1>4, <1>5 DEF q

LEMMA HeadCons ==
  ASSUME NEW S, NEW s \in Seq(S), s # <<>>
  PROVE  <<Head(s)>> \o Tail(s) = s
<1> DEFINE q == <<Head(s)>> \o Tail(s)
<1>1. /\ Head(s) \in S /\ Tail(s) \in Seq(S) /\ Len(Tail(s)) = Len(s) - 1
      /\ \A k \in 1 .. Len(Tail(s)) : Tail(s)[k] = s[k + 1]
      /\ Len(s) \in Nat /\ Head(s) = s[1]
  BY HeadTailProperties, LenProperties
<1>2. <<Head(s)>> \in Seq(S) /\ Len(<<Head(s)>>) = 1 /\ <<Head(s)>>[1] = Head(s)
  BY <1>1
<1>3. /\ q \in Seq(S) /\ Len(q) = 1 + Len(Tail(s))
      /\ \A k \in 1 .. 1 + Len(Tail(s)) :
            q[k] = IF k <= 1 THEN <<Head(s)>>[k] ELSE Tail(s)[k - 1]
  BY <1>1, <1>2, ConcatProperties
<1> HIDE DEF q
<1>4. Len(q) = Len(s) /\ \A k \in 1 .. Len(s) : q[k] = s[k]
  BY <1>1, <1>2, <1>3
<1> QED BY <1>3, <1>4, SeqEqual DEF q

LEMMA AppendBehind ==
  ASSUME NEW S, NEW s \in Seq(S), NEW t \in Seq(S), NEW e \in S
  PROVE  /\ Append(t, e) \in Seq(S)
         /\ Append(s \o t, e) = s \o Append(t, e)
<1>1. <<e>> \in Seq(S)
  OBVIOUS
<1>2. s \o t \in Seq(S)
  BY ConcatProperties
<1>3. Append(t, e) = t \o <<e>> /\ Append(s \o t, e) = (s \o t) \o <<e>>
  BY <1>2, AppendIsConcat
<1>4. (s \o t) \o <<e>> = s \o (t \o <<e>>)
  BY <1>1, ConcatAssociative
<1>5. t \o <<e>> \in Seq(S)
  BY <1>1, ConcatProperties
<1> QED BY <1>3, <1>4, <1>5

LEMMA PendingMoves ==
  ASSUME "swa" \notin Ops, ViewInv, NEW i, InputOK(i), Edge(i), ~log'.unseen
  PROVE  LET q == IF i.write THEN Append(Pending, Offered) ELSE Pending
         IN  /\ q \in Seq(Plain)
             /\ i.ack /\ OnItsWay => q # <<>> /\ Head(q) = BusWord /\ Pending' = Tail(q)
             /\ ~(i.ack /\ OnItsWay) => Pending' = q
<1> DEFINE q == IF i.write THEN Append(Pending, Offered) ELSE Pending
           c == IF i.write THEN Append(Contents, Offered) ELSE Contents
           r == Fetched \o c
           read == store_buffer_read(i)
<1>1. /\ Offered \in Plain /\ BusWord \in Plain /\ fifo_dout \in Plain
      /\ Contents \in Seq(Plain)
      /\ OnBus \in Seq(Plain) /\ Fetched \in Seq(Plain) /\ Pending \in Seq(Plain)
      /\ OnBus = IF OnItsWay THEN <<BusWord>> ELSE <<>>
      /\ Fetched = IF IsFetched THEN <<fifo_dout>> ELSE <<>>
      /\ Pending = OnBus \o (Fetched \o Contents)
  BY PendingPlain DEF ViewInv, StoreInv
<1>2. /\ c \in Seq(Plain) /\ Contents' \in Seq(Plain) /\ fifo_dout' \in Plain
      /\ read => c # <<>> /\ fifo_dout' = Head(c) /\ Contents' = Tail(c)
      /\ ~read => Contents' = c /\ fifo_dout' = fifo_dout
      /\ empty <=> Contents = <<>>
  BY BufferMoves
<1>3. read => <<fifo_dout'>> \o Contents' = c
  <2> HIDE DEF c, read, Plain
  <2> QED BY <1>2, HeadCons
<1>4. r \in Seq(Plain) /\ q \in Seq(Plain) /\ q = OnBus \o r
  <2> HIDE DEF Plain, Offered
  <2>1. r \in Seq(Plain) /\ Fetched \o Contents \in Seq(Plain)
    <3> HIDE DEF c
    <3> QED BY <1>1, <1>2, ConcatProperties
  <2>2. CASE i.write
    <3>1. Append(Fetched \o Contents, Offered) = Fetched \o Append(Contents, Offered)
      BY <1>1, AppendBehind
    <3>2. Append(Pending, Offered) = OnBus \o Append(Fetched \o Contents, Offered)
      <4> DEFINE t == Fetched \o Contents
      <4>1. t \in Seq(Plain) /\ Pending = OnBus \o t
        BY <1>1, <2>1
      <4> HIDE DEF t
      <4>2. Append(OnBus \o t, Offered) = OnBus \o Append(t, Offered)
        BY <1>1, <4>1, AppendBehind
      <4> QED BY <4>1, <4>2 DEF t
    <3>3. Append(Pending, Offered) \in Seq(Plain)
      BY <1>1, AppendProperties
    <3> QED BY <2>1, <2>2, <3>1, <3>2, <3>3
  <2>3. CASE ~i.write
    BY <1>1, <2>1, <2>3
  <2> QED BY <2>1, <2>2, <2>3
<1>5. LsInv' /\ PlainInv' /\ MachineInv'
  BY EdgeKeeps, PlainStep, MachineStep DEF ViewInv, LoadInv
<1>6. /\ BusWord' \in Plain
      /\ OnBus' = IF state' = "WRITE" /\ dbus_req' THEN <<BusWord'>> ELSE <<>>
      /\ Fetched' = IF state' = "WRITE" /\ (~dbus_req' \/ ~last_write')
                    THEN <<fifo_dout'>> ELSE <<>>
  BY <1>5 DEF LsInv, TypeOK, BusWord, Plain, OnBus, Fetched, PlainInv
<1>7. Pending' = OnBus' \o (Fetched' \o Contents')
  <2> HIDE DEF Plain
  <2>1. OnBus' \in Seq(Plain) /\ Fetched' \in Seq(Plain) /\ Contents' \in Seq(Plain)
    BY <1>2, <1>6
  <2>2. Pending' = (OnBus' \o Fetched') \o Contents'
    BY DEF Pending
  <2> QED BY <2>1, <2>2, ConcatAssociative
<1>8. SUFFICES Pending' = IF i.ack /\ OnItsWay THEN r ELSE OnBus \o r
  <2> HIDE DEF r, q, Plain
  <2>1. OnItsWay => q # <<>> /\ Head(q) = BusWord /\ Tail(q) = r
    BY <1>1, <1>4, ConsParts
  <2> QED BY <1>4, <2>1 DEF q
<1> HIDE DEF q, c, r, read, Plain
<1>9. <<>> \o c = c /\ <<>> \o r = r /\ <<>> \o Contents' = Contents'
  BY <1>2, <1>4, ConcatEmptySeq
<1>10. /\ OnItsWay <=> state = "WRITE" /\ dbus_req
       /\ IsFetched <=> state = "WRITE" /\ (~dbus_req \/ ~last_write)
  BY DEF OnItsWay, IsFetched
<1>11. /\ state' # "WRITE" => Contents' = <<>>
       /\ state # "WRITE" => Contents = <<>>
       /\ i.err => ~dbus_we
       /\ state = "WRITE" => dbus_we = dbus_req
       /\ state = "WRITE" /\ last_write => dbus_req /\ Contents = <<>>
       /\ i.ack \/ i.err => dbus_req
  BY <1>5, PromiseLasts DEF MachineInv, ViewInv, OrderInv, BusOrder, InputOK
<1>12. CASE state # "WRITE"
  <2>1. r = c /\ OnBus = <<>> /\ ~OnItsWay
    BY <1>1, <1>9, <1>10, <1>12 DEF r
  <2>2. Pending' = c
    <3>1. CASE read
      <4>1. state = "IDLE"
        BY <1>12, <3>1 DEF read, store_buffer_read
      <4>2. IDLE(i)
        BY <4>1 DEF Edge, BusMachine, DC_REFILL, READ, WRITE
      <4>3. IdleNext(i) = "write"
        <5>1. i.write \/ ~empty
          BY <1>12, <3>1 DEF read, store_buffer_read
        <5>2. i.write
          BY <1>2, <1>11, <1>12, <5>1
        <5>3. ~dbus_err /\ ~i.err
          BY <1>11, <4>1, <5>2, WritesStore DEF ViewInv, MachineInv
        <5> QED BY <5>2, <5>3 DEF IdleNext
      <4>4. state' = "WRITE" /\ dbus_req' = FALSE
        BY <4>2, <4>3 DEF IDLE
      <4> QED BY <1>2, <1>3, <1>6, <1>7, <1>9, <3>1, <4>4
    <3>2. CASE ~read
      <4>1. state' # "WRITE"
        <5>1. ASSUME IDLE(i), state' = "WRITE" PROVE FALSE
          <6>1. IdleNext(i) = "write"
            BY <5>1 DEF IDLE
          <6> QED BY <3>2, <5>1, <6>1 DEF IDLE, IdleNext, read, store_buffer_read
        <5>2. DC_REFILL(i) \/ READ(i) => state' # "WRITE"
          BY DEF DC_REFILL, READ
        <5> QED BY <1>12, <5>1, <5>2 DEF Edge, BusMachine, WRITE
      <4> QED BY <1>2, <1>6, <1>7, <1>9, <3>2, <4>1
    <3> QED BY <3>1, <3>2
  <2> QED BY <1>9, <2>1, <2>2
<1>13. CASE state = "WRITE"
  <2>1. WRITE(i)
    BY <1>13 DEF Edge, BusMachine, IDLE, DC_REFILL, READ
  <2>2. ~i.err /\ (Finishes(i) <=> last_write /\ i.ack)
    BY <1>11, <1>13 DEF Finishes
  <2>3. /\ dbus_adr' = IF LoadsEntry(i) THEN fifo_dout.adr ELSE dbus_adr
        /\ dbus_dat' = IF LoadsEntry(i) THEN fifo_dout.id ELSE dbus_dat
        /\ last_write' = LastWrite(i)
        /\ dbus_req' = ~Finishes(i)
        /\ state' = IF Finishes(i) /\ ~i.write THEN "IDLE" ELSE "WRITE"
        /\ LoadsEntry(i) <=> ~dbus_req \/ (i.ack /\ ~last_write)
    BY <2>1 DEF WRITE, LoadsEntry
  <2>4. read <=> \/ ~last_write /\ (i.ack \/ ~dbus_req) /\ (~empty \/ i.write)
                 \/ last_write /\ i.write
    BY <1>13 DEF read, store_buffer_read
  \* The fetched entry goes to the bus.
  <2>5. CASE LoadsEntry(i)
    <3>1. /\ ~last_write /\ ~Finishes(i) /\ state' = "WRITE" /\ dbus_req'
          /\ Fetched = <<fifo_dout>> /\ BusWord' = fifo_dout
      <4>1. ~last_write /\ ~Finishes(i) /\ IsFetched
        BY <1>10, <1>11, <1>13, <2>2, <2>3, <2>5
      <4>2. BusWord' = fifo_dout
        BY <1>1, <2>3, <2>5 DEF BusWord, Plain
      <4> QED BY <1>1, <2>3, <4>1, <4>2
    <3>2. OnBus' = <<fifo_dout>>
      BY <1>6, <3>1
    <3>3. Fetched' \o Contents' = c
      <4>1. CASE read
        <5>1. last_write' = FALSE
          BY <2>3, <2>4, <2>5, <3>1, <4>1 DEF LastWrite
        <5> QED BY <1>3, <1>6, <3>1, <4>1, <5>1
      <4>2. CASE ~read
        <5>1. last_write' = TRUE
          BY <2>3, <2>4, <2>5, <3>1, <4>2 DEF LastWrite, empty
        <5> QED BY <1>2, <1>6, <1>9, <3>1, <4>2, <5>1
      <4> QED BY <4>1, <4>2
    <3>4. Pending' = r
      BY <1>7, <3>1, <3>2, <3>3 DEF r
    <3>5. ~(i.ack /\ OnItsWay) => OnBus = <<>>
      BY <1>1, <1>10, <2>3, <2>5
    <3> QED BY <1>9, <3>4, <3>5
  \* The last entry is written.
  <2>6. CASE ~LoadsEntry(i) /\ i.ack
    <3>1. /\ last_write /\ Fetched = <<>> /\ ~dbus_req' /\ OnItsWay
          /\ read <=> i.write
          /\ state' = IF i.write THEN "WRITE" ELSE "IDLE"
      BY <1>1, <1>10, <1>11, <1>13, <2>2, <2>3, <2>4, <2>6
    <3>2. r = c /\ OnBus' = <<>>
      BY <1>6, <1>9, <3>1 DEF r
    <3>3. Fetched' \o Contents' = c
      BY <1>2, <1>3, <1>6, <1>9, <3>1
    <3>4. c \in Seq(Plain) /\ <<>> \o c = c
      BY <1>2, <1>9
    <3> QED BY <1>7, <2>6, <3>1, <3>2, <3>3, <3>4
  \* The entry on the bus stays there.
  <2>7. CASE ~LoadsEntry(i) /\ ~i.ack
    <3>1. /\ dbus_req /\ ~Finishes(i) /\ dbus_req' /\ state' = "WRITE"
          /\ OnBus = <<BusWord>> /\ BusWord' = BusWord
          /\ last_write' = IF i.write THEN FALSE ELSE last_write
      BY <1>1, <1>10, <1>13, <2>2, <2>3, <2>7 DEF BusWord, LastWrite
    <3>2. OnBus' = OnBus
      BY <1>6, <3>1
    <3>3. Fetched' \o Contents' = r
      <4>1. CASE last_write /\ i.write
        <5>1. Fetched = <<>> /\ read /\ ~last_write'
          BY <1>1, <1>10, <2>4, <3>1, <4>1
        <5> QED BY <1>3, <1>6, <1>9, <3>1, <5>1 DEF r
      <4>2. CASE last_write /\ ~i.write
        <5>1. Fetched = <<>> /\ ~read /\ last_write'
          BY <1>1, <1>10, <2>4, <3>1, <4>2
        <5> QED BY <1>2, <1>6, <1>9, <3>1, <5>1 DEF r
      <4>3. CASE ~last_write
        <5>1. Fetched = <<fifo_dout>> /\ ~read /\ ~last_write'
          BY <1>1, <1>10, <1>13, <2>4, <2>7, <3>1, <4>3
        <5> QED BY <1>2, <1>6, <3>1, <5>1 DEF r
      <4> QED BY <4>1, <4>2, <4>3
    <3> QED BY <1>7, <2>7, <3>2, <3>3
  <2> QED BY <2>5, <2>6, <2>7
<1> QED BY <1>12, <1>13
-----------------------------------------------------------------------------
(***************************************************************************)
(* What a cycle does to the view: the accepted store changes it at its     *)
(* address, the write of another master at one more.                       *)
(***************************************************************************)
LEMMA WordsWritten ==
  ASSUME "swa" \notin Ops, ViewInv, NEW i, InputOK(i), Edge(i), ~log'.unseen
  PROVE  /\ i.ack /\ OnItsWay => mem' = [mem EXCEPT ![dbus_adr] = dbus_dat]
         /\ ~(i.ack /\ OnItsWay) =>
              /\ \A a \in Adr \ i.snoop : mem'[a] = mem[a]
              /\ MaxOthers = 0 => i.snoop = {}
<1>1. dbus_we_o <=> dbus_we
  BY PromiseLasts
<1>2. /\ dbus_we => OnItsWay
      /\ OnItsWay /\ i.ack => dbus_we
  BY DEF ViewInv, OrderInv, BusOrder, MachineInv, OnItsWay
<1>3. mem' = IF i.ack /\ dbus_we_o THEN [mem EXCEPT ![dbus_adr] = dbus_dat]
             ELSE [a \in Adr |-> IF a \in i.snoop THEN -(others + 1) ELSE mem[a]]
  BY DEF Edge, Memory
<1>4. MaxOthers = 0 /\ ~(i.ack /\ dbus_we_o) => i.snoop = {}
  BY DEF InputOK, ViewInv, LoadInv, LsInv
<1> QED BY <1>1, <1>2, <1>3, <1>4

LEMMA ViewStep ==
  ASSUME "swa" \notin Ops, ViewInv, NEW i, InputOK(i), Edge(i), ~log'.unseen
  PROVE  /\ View \in [Adr -> Val] /\ View' \in [Adr -> Val]
         /\ i.write => View'[ctrl.adr] = ctrl.id
         /\ \E x \in Adr : \A a \in Adr :
              (a # x \/ MaxOthers = 0) /\ ~(i.write /\ a = ctrl.adr) => View'[a] = View[a]
<1> DEFINE q == IF i.write THEN Append(Pending, Offered) ELSE Pending
<1>1. /\ mem \in [Adr -> Val] /\ mem' \in [Adr -> Val]
      /\ Pending \in Seq(Plain) /\ Offered \in Plain /\ BusWord \in Plain
  BY EdgeKeeps, PendingPlain DEF ViewInv, LoadInv, LsInv, TypeOK
<1>2. /\ q \in Seq(Plain)
      /\ i.ack /\ OnItsWay => q # <<>> /\ Head(q) = BusWord /\ Pending' = Tail(q)
      /\ ~(i.ack /\ OnItsWay) => Pending' = q
  BY PendingMoves
<1>3. /\ i.ack /\ OnItsWay => mem' = [mem EXCEPT ![dbus_adr] = dbus_dat]
      /\ ~(i.ack /\ OnItsWay) => /\ \A a \in Adr \ i.snoop : mem'[a] = mem[a]
                                 /\ MaxOthers = 0 => i.snoop = {}
  BY WordsWritten
<1>4. View = ViewOf(mem, Pending) /\ View' = ViewOf(mem', Pending')
  BY ViewIsViewOf DEF View, ViewOf
<1>5. Offered.adr = ctrl.adr /\ Offered.id = ctrl.id
      /\ BusWord.adr = dbus_adr /\ BusWord.id = dbus_dat
  BY DEF Offered, BusWord
<1> HIDE DEF Plain, Offered, BusWord
<1>6. ASSUME NEW m \in [Adr -> Val]
      PROVE  /\ i.write => ViewOf(m, q)[ctrl.adr] = ctrl.id
             /\ \A a \in Adr : ~(i.write /\ a = ctrl.adr) => ViewOf(m, q)[a] = ViewOf(m, Pending)[a]
  BY <1>1, <1>5, ViewAppend
<1> HIDE DEF q
<1>7. View \in [Adr -> Val]
  BY <1>1, <1>4, ViewTyped
<1>8. PICK x \in Adr : i.snoop \subseteq {x}
  BY DEF InputOK
<1>9. CASE i.ack /\ OnItsWay
  <2>1. View' = ViewOf(mem, q)
    <3>1. q \in Seq(Plain) /\ q # <<>> /\ Pending' = Tail(q)
      BY <1>2, <1>9
    <3>2. ViewOf([mem EXCEPT ![Head(q).adr] = Head(q).id], Tail(q)) = ViewOf(mem, q)
      BY <1>1, <3>1, ViewWritten
    <3>3. Head(q).adr = dbus_adr /\ Head(q).id = dbus_dat
      BY <1>2, <1>5, <1>9
    <3>4. mem' = [mem EXCEPT ![Head(q).adr] = Head(q).id]
      BY <1>3, <1>9, <3>3
    <3> QED BY <1>4, <3>1, <3>2, <3>4
  <2>2. View' \in [Adr -> Val]
    BY <1>1, <1>2, <2>1, ViewTyped
  <2>3. /\ i.write => View'[ctrl.adr] = ctrl.id
        /\ \A a \in Adr : ~(i.write /\ a = ctrl.adr) => View'[a] = View[a]
    BY <1>1, <1>4, <1>6, <2>1
  <2> QED BY <1>7, <2>2, <2>3
<1>10. CASE ~(i.ack /\ OnItsWay)
  <2>1. View' = ViewOf(mem', q)
    BY <1>2, <1>4, <1>10
  <2>2. ASSUME NEW a \in Adr, a # x \/ MaxOthers = 0, ~(i.write /\ a = ctrl.adr)
        PROVE  View'[a] = View[a]
    <3>1. mem'[a] = mem[a]
      BY <1>3, <1>8, <1>10, <2>2
    <3>2. ViewOf(mem', Pending)[a] = ViewOf(mem, Pending)[a]
      BY <1>1, <3>1, ViewMemory
    <3> QED BY <1>1, <1>4, <1>6, <2>1, <2>2, <3>2
  <2> QED BY <1>1, <1>2, <1>6, <1>7, <2>1, <2>2, ViewTyped
<1> QED BY <1>9, <1>10
-----------------------------------------------------------------------------
(***************************************************************************)
(* A cycle keeps the promise of SequentialMemory if a load the cache       *)
(* answers gets the word of the view; a load the bus answers does.         *)
(***************************************************************************)
CachedLoad(i) == ctrl_op_lsu_load /\ ~dbus_access /\ cpu_ack(Lookup(i.flush))

LEMMA LoadStep ==
  ASSUME "swa" \notin Ops, ViewInv, NEW i, InputOK(i), Edge(i), ~log'.unseen,
         CachedLoad(i) => cpu_dat(Lookup(i.flush)) = View[ctrl.adr]
  PROVE  \/ log'.result = log.result
         \/ /\ log'.result \in [adr : Adr, val : Val]
            /\ log'.result.val = View[log'.result.adr]
<1> DEFINE reads == i.ack /\ state = "READ" /\ ctrl_op_lsu_load /\ dbus_access /\ ~access_done
           val   == IF CachedLoad(i) THEN cpu_dat(Lookup(i.flush)) ELSE mem[dbus_adr]
<1>1. log'.result = IF reads \/ CachedLoad(i) THEN [adr |-> ctrl.adr, val |-> val]
                    ELSE log.result
  BY DEF Edge, Log, CachedLoad
<1>2. reads => dbus_adr = ctrl.adr /\ View = mem
  <2> SUFFICES ASSUME reads PROVE dbus_adr = ctrl.adr /\ View = mem
    OBVIOUS
  <2>1. dbus_adr = ctrl.adr
    BY DEF ViewInv, LoadInv, AnswerInv, Reading
  <2>2. ~log.unseen /\ Contents = <<>>
    BY PromiseLasts DEF ViewInv, MachineInv
  <2>3. Pending = <<>>
    BY <2>2, ConcatEmptySeq DEF Pending, OnBus, Fetched
  <2>4. View = mem
    BY <2>3, ViewIsViewOf, ViewTyped, EmptySeq DEF ViewInv, LoadInv, LsInv, TypeOK
  <2> QED BY <2>1, <2>4
<1>3. reads => ~CachedLoad(i)
  BY DEF CachedLoad
<1>4. View \in [Adr -> Val] /\ ctrl.adr \in Adr
  BY ViewStep, ValuesTyped DEF ViewInv, LoadInv
<1> HIDE DEF reads, CachedLoad
<1> QED BY <1>1, <1>2, <1>3, <1>4

LEMMA StoreStep ==
  ASSUME "swa" \notin Ops, ViewInv, NEW i, InputOK(i), Edge(i)
  PROVE  log'.stored = IF i.write THEN [adr |-> ctrl.adr, val |-> ctrl.id] ELSE log.stored
<1>1. ~SwaOnBus
  BY DEF SwaOnBus, ViewInv, PlainInv
<1>2. i.write => ~ctrl_op_lsu_atomic
  BY WritesStore DEF ViewInv
<1> QED BY <1>1, <1>2 DEF Edge, Log

LEMMA PromiseKept ==
  ASSUME "swa" \notin Ops, ViewInv, NEW i, InputOK(i), Edge(i),
         ~log'.unseen /\ CachedLoad(i) => cpu_dat(Lookup(i.flush)) = View[ctrl.adr]
  PROVE  Memory_!MemNext
<1>1. CASE log'.unseen
  BY <1>1 DEF Memory_!MemNext
<1>2. CASE ~log'.unseen
  <2>1. log'.unseen = log.unseen
    BY <1>2, PromiseLasts DEF ViewInv, MachineInv
  <2>2. Memory_!NoLoad \/ Memory_!Load
    BY <1>2, LoadStep DEF Memory_!NoLoad, Memory_!Load, Memory_!Access
  <2>3. /\ View' \in [Adr -> Val]
        /\ i.write => View'[ctrl.adr] = ctrl.id
    BY <1>2, ViewStep
  <2>4. PICK x \in Adr : \A a \in Adr :
           (a # x \/ MaxOthers = 0) /\ ~(i.write /\ a = ctrl.adr) => View'[a] = View[a]
    BY <1>2, ViewStep
  <2>5. ASSUME NEW own, i.write => own = {ctrl.adr}
        PROVE  Memory_!OtherWrites(own)
    <3>1. MaxOthers > 0 \/ MaxOthers = 0
      BY BoundsAssumption
    <3>2. \A a \in Adr \ own : View'[a] # View[a] => MaxOthers > 0 /\ a = x
      BY <2>4, <2>5, <3>1
    <3> QED BY <2>3, <3>2 DEF Memory_!OtherWrites
  <2>6. CASE i.write
    <3>1. log'.stored = [adr |-> ctrl.adr, val |-> ctrl.id]
      BY <2>6, StoreStep
    <3>2. log'.stored \in Memory_!Access
      BY <3>1, ValuesTyped DEF Memory_!Access, ViewInv, LoadInv
    <3>3. Memory_!OtherWrites({log'.stored.adr})
      BY <2>5, <3>1
    <3>4. Memory_!Store
      BY <2>3, <2>6, <3>1, <3>2, <3>3 DEF Memory_!Store
    <3> QED BY <2>1, <2>2, <3>4 DEF Memory_!MemNext, Memory_!Promised
  <2>7. CASE ~i.write
    <3>1. log'.stored = log.stored
      BY <2>7, StoreStep
    <3>2. Memory_!OtherWrites({})
      BY <2>5, <2>7
    <3>3. Memory_!NoStore
      BY <3>1, <3>2 DEF Memory_!NoStore
    <3> QED BY <2>1, <2>2, <3>3 DEF Memory_!MemNext, Memory_!Promised
  <2> QED BY <2>6, <2>7
<1> QED BY <1>1, <1>2
-----------------------------------------------------------------------------
(***************************************************************************)
(* The invariant, and the refinement.                                      *)
(***************************************************************************)
LEMMA InitView == Init => ViewInv /\ Memory_!MemInit
<1> SUFFICES ASSUME Init PROVE ViewInv /\ Memory_!MemInit
  OBVIOUS
<1>1. LoadInv /\ StoreInv /\ OrderInv
  BY InitLoads, InitStores, InitOrder
<1>2. PlainInv
  BY DepthAssumption DEF Init, PlainInv, NoStore
<1>3. Contents = <<>>
  <2>1. IInv /\ Count = 0
    BY InitKeeps, InitIInv DEF SBInit, Count
  <2>2. Contents \in Seq(Entry) /\ Len(Contents) = 0
    BY <2>1, ContentsIsSequence DEF ContentsFacts
  <2> QED BY <2>2, EmptySeq
<1>4. MachineInv
  BY <1>3 DEF Init, DcInit, MachineInv, DcStates, refill
<1>5. Pending = <<>>
  BY <1>3, ConcatEmptySeq DEF Init, Pending, OnBus, Fetched
<1>6. View \in [Adr -> Val]
  BY <1>1, <1>5, ViewIsViewOf, ViewTyped, EmptySeq DEF LoadInv, LsInv, TypeOK
<1>7. /\ log.unseen \in BOOLEAN
      /\ log.stored \in [adr : Adr, val : Val] /\ log.result \in [adr : Adr, val : Val]
  BY ConfigAssumption, BoundsAssumption DEF Init, Val
<1> QED BY <1>1, <1>2, <1>4, <1>6, <1>7 DEF ViewInv, Memory_!MemInit, Memory_!Access

LEMMA ViewStutters ==
  ASSUME UNCHANGED vars
  PROVE  /\ UNCHANGED <<View, log.stored, log.result, log.unseen>>
         /\ PlainInv /\ MachineInv => PlainInv' /\ MachineInv'
<1>1. UNCHANGED <<sb_vars, machine, status, caching, log, mem>>
  BY DEF vars, bus
<1>2. Contents' = Contents
  BY <1>1 DEF sb_vars, Contents, Count, SlotOf
<1>3. Pending' = Pending
  BY <1>1, <1>2 DEF Pending, OnBus, Fetched, machine, sb_vars
<1>4. View' = View
  BY <1>1, <1>3 DEF View
<1>5. PlainInv /\ MachineInv => PlainInv' /\ MachineInv'
  BY <1>1, <1>2
  DEF PlainInv, MachineInv, refill, machine, sb_vars, status, caching, dc_vars
<1> QED BY <1>1, <1>4, <1>5

LEMMA ViewKept ==
  ASSUME "swa" \notin Ops, NoSwitch, ViewInv, [Next]_vars
  PROVE  ViewInv'
<1>1. LoadInv' /\ StoreInv' /\ OrderInv'
  BY LoadsKept, StoresKept, OrderKept DEF ViewInv
<1>2. CASE Next
  <2>1. PICK answer \in Answers, trap \in Traps, taken \in Takes :
           \E snoop \in Snoops(answer), next \in Nexts :
              LET i == Given(answer, snoop, next, trap, taken)
              IN  InputOK(i) /\ Edge(i)
    BY <1>2, StepOfNext DEF ViewInv, StoreInv
  <2>2. PICK snoop \in Snoops(answer), next \in Nexts :
           LET i == Given(answer, snoop, next, trap, taken)
           IN  InputOK(i) /\ Edge(i)
    BY <2>1
  <2>3. PlainInv' /\ MachineInv'
    BY <2>2, PlainStep, MachineStep DEF ViewInv
  <2> QED BY <1>1, <2>3 DEF ViewInv
<1>3. CASE UNCHANGED vars
  BY <1>1, <1>3, ViewStutters DEF ViewInv
<1> QED BY <1>2, <1>3

\* The invariant of the memory view.
THEOREM ViewInvariance == ASSUME "swa" \notin Ops, NoSwitch
                          PROVE  Spec => []ViewInv
  BY InitView, ViewKept, PTL DEF Spec

(***************************************************************************)
(* Every load goes to the bus: there is no cache, or it is never on.       *)
(***************************************************************************)
LoadsOnBus == DCACHE => Enabled = {FALSE} /\ {"dce_on", "dce_off"} \cap Ops = {}
CacheOff   == DCACHE => dc_enable = FALSE

LEMMA OffKept ==
  ASSUME LoadsOnBus, LoadInv, CacheOff, [Next]_vars
  PROVE  CacheOff'
<1>1. CASE Next
  <2>1. PICK answer \in Answers, trap \in Traps, taken \in Takes :
           \E snoop \in Snoops(answer), next \in Nexts :
              LET i == Given(answer, snoop, next, trap, taken)
              IN  InputOK(i) /\ Edge(i)
    BY <1>1, StepOfNext DEF LoadInv
  <2>2. PICK snoop \in Snoops(answer), next \in Nexts :
           LET i == Given(answer, snoop, next, trap, taken)
           IN  InputOK(i) /\ Edge(i)
    BY <2>1
  <2>3. DCACHE => dc_enable' = dc_enable
    BY <2>2, SwitchStep DEF LoadInv, LoadsOnBus
  <2> QED BY <2>3 DEF CacheOff
<1>2. CASE UNCHANGED vars
  BY <1>2 DEF vars, caching, CacheOff
<1> QED BY <1>1, <1>2

LEMMA BusStepIsMemoryStep ==
  ASSUME "swa" \notin Ops, LoadsOnBus, ViewInv, CacheOff, [Next]_vars
  PROVE  [Memory_!MemNext]_<<View, log.stored, log.result, log.unseen>>
<1>1. CASE Next
  <2>1. PICK answer \in Answers, trap \in Traps, taken \in Takes :
           \E snoop \in Snoops(answer), next \in Nexts :
              LET i == Given(answer, snoop, next, trap, taken)
              IN  InputOK(i) /\ Edge(i)
    BY <1>1, StepOfNext DEF ViewInv, StoreInv
  <2>2. PICK snoop \in Snoops(answer), next \in Nexts :
           LET i == Given(answer, snoop, next, trap, taken)
           IN  InputOK(i) /\ Edge(i)
    BY <2>1
  <2>3. ASSUME NEW i PROVE ~CachedLoad(i)
    <3>1. ctrl_op_lsu_load => ~dc_access
      BY DEF dc_access, ctrl_op_lsu_load, ctrl_op_lsu_store, CacheOff, ViewInv, LoadInv,
             SwitchFixed
    <3>2. cpu_ack(Lookup(i.flush)) => dc_access
      BY DEF cpu_ack, Lookup, dc_req
    <3> QED BY <3>1, <3>2 DEF CachedLoad
  <2> QED BY <2>2, <2>3, PromiseKept
<1>2. CASE UNCHANGED vars
  BY <1>2, ViewStutters
<1> QED BY <1>1, <1>2

\* Without the cache, buffer, bus and memory are one sequential memory to a
\* program without l.swa: a load reads what the program stored last or another
\* master wrote since, whatever exceptions, errors of reads and further masters
\* there are, until a write fails on the bus (:311-495, 577-664).
THEOREM OneMemory == ASSUME "swa" \notin Ops, LoadsOnBus
                     PROVE  Spec => ImplementsMemory
<1>1. NoSwitch
  BY DEF LoadsOnBus, NoSwitch
<1>2. Init => CacheOff
  BY DEF Init, CacheOff, LoadsOnBus
<1>3. ViewInv => LoadInv
  BY DEF ViewInv
<1>4. Init => Memory_!MemInit
  BY InitView
<1>5. Spec => []ViewInv
  BY <1>1, ViewInvariance
<1>6. ViewInv /\ CacheOff /\ [Next]_vars => CacheOff'
  BY <1>3, OffKept
<1>7. ViewInv /\ CacheOff /\ [Next]_vars
        => [Memory_!MemNext]_<<View, log.stored, log.result, log.unseen>>
  BY BusStepIsMemoryStep
<1> QED BY <1>2, <1>4, <1>5, <1>6, <1>7, PTL DEF Spec, ImplementsMemory, Memory_!MemSpec
=============================================================================
