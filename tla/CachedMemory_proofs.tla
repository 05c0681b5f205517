------------------------- MODULE CachedMemory_proofs --------------------------
(***************************************************************************)
(* Proofs that a data cache of one way holds what the program would read   *)
(* from memory behind the store buffer, and that buffer, cache, bus and    *)
(* memory are one sequential memory also for the loads the cache answers:  *)
(* for every number of sets and length of a line, every depth of the       *)
(* buffer and every set of addresses, with exceptions in any cycle.        *)
(***************************************************************************)
EXTENDS MemoryView_proofs

(***************************************************************************)
(* Division.                                                               *)
(***************************************************************************)
LEMMA DivModUnique ==
  ASSUME NEW n \in Nat \ {0}, NEW q \in Nat, NEW r \in 0 .. n - 1
  PROVE  /\ (q * n + r) \div n = q /\ (q * n + r) % n = r
  OBVIOUS

LEMMA DivModFacts ==
  ASSUME NEW a \in Nat, NEW n \in Nat \ {0}
  PROVE  /\ a \div n \in Nat /\ a % n \in 0 .. n - 1
         /\ a = (a \div n) * n + (a % n)
<1>1. a % n \in 0 .. n - 1
  OBVIOUS
<1>2. a = n * (a \div n)  + (a % n)
  OBVIOUS
<1>3. a \div n \in Int
  OBVIOUS
<1>4. a \div n >= 0
  BY <1>3, <1>1, <1>2
<1>5. n * (a \div n) = (a \div n) * n
  BY <1>3
<1> QED BY <1>1, <1>2, <1>3, <1>4, <1>5

\* The word behind c in a line of n words.
Succ(c, n) == IF c = n - 1 THEN 0 ELSE c + 1

LEMMA SuccMod ==
  ASSUME NEW n \in Nat \ {0, 1}, NEW a \in Nat
  PROVE  (a + 1) % n = Succ(a % n, n)
<1> DEFINE q == a \div n
           r == a % n
<1>1. q \in Nat /\ r \in 0 .. n - 1 /\ a = q * n + r
  BY DivModFacts
<1> HIDE DEF q, r
<1>2. CASE r = n - 1
  <2>1. a + 1 = (q + 1) * n + 0
    BY <1>1, <1>2
  <2>2. q + 1 \in Nat /\ 0 \in 0 .. n - 1
    BY <1>1
  <2>3. ((q + 1) * n + 0) % n = 0
    BY <2>2, DivModUnique
  <2> QED BY <1>2, <2>1, <2>3 DEF r, Succ
<1>3. CASE r # n - 1
  <2>1. a + 1 = q * n + (r + 1)
    BY <1>1, <1>3
  <2>2. r + 1 \in 0 .. n - 1
    BY <1>1, <1>3
  <2>3. (q * n + (r + 1)) % n = r + 1
    BY <1>1, <2>2, DivModUnique
  <2> QED BY <1>3, <2>1, <2>3 DEF r, Succ
<1> QED BY <1>2, <1>3

(***************************************************************************)
(* A refill reads the words of a line in the order of a wrapping burst:    *)
(* these are f .. c - 1.                                                   *)
(***************************************************************************)
Between(f, c, o) == IF f <= c THEN f <= o /\ o < c ELSE f <= o \/ o < c

LEMMA BetweenStep ==
  ASSUME NEW n \in Nat \ {0, 1}, NEW f \in 0 .. n - 1, NEW c \in 0 .. n - 1
  PROVE  /\ ~Between(f, c, Succ(c, n)) =>
              \A o \in 0 .. n - 1 : Between(f, Succ(c, n), o) <=> Between(f, c, o) \/ o = c
         /\ Between(f, c, Succ(c, n)) =>
              \A o \in 0 .. n - 1 : Between(f, c, o) \/ o = c
         /\ ~Between(f, f, Succ(c, n))
         /\ Succ(c, n) \in 0 .. n - 1
  BY DEF Succ, Between
-----------------------------------------------------------------------------
(***************************************************************************)
(* The hypotheses.  With more ways than one nothing chooses the way of a   *)
(* refill (mor1kx_dcache.v:707-754), and lines of one word do not exist.   *)
(* Bus errors, other masters, l.swa and switching the cache make the code  *)
(* break the promise or rest on log.unseen; without snooping, so does an   *)
(* invalidation (mor1kx_dcache.v:760).                                     *)
(***************************************************************************)
OneWay == WAYS = 1 /\ SETS \in Nat \ {0} /\ LINE \in Nat \ {0, 1}

Quiet == /\ MaxErrors = 0 /\ MaxOthers = 0
         /\ "swa" \notin Ops /\ NoSwitch
         /\ ("invalidate" \in Ops => SNOOP)

On == DCACHE /\ dc_enable

TagAt(s)       == tag_ram[s].way[0]
WordAt(s, o)   == way_ram[0][<<s, o>>]
TagRead        == tag_dout.way[0]
AdrOf(t, s, o) == (t * SETS + s) * LINE + o

LEMMA AddressParts ==
  ASSUME OneWay, NEW a \in Nat
  PROVE  /\ Line(a) \in Nat /\ Index(a) \in Sets /\ Tag(a) \in Nat /\ a % LINE \in Offset
         /\ AdrOf(Tag(a), Index(a), a % LINE) = a
         /\ Line(a) * LINE + (a % LINE) = a
         /\ \A o : AdrOf(Tag(a), Index(a), o) = Line(a) * LINE + o
<1>1. /\ Line(a) \in Nat /\ a % LINE \in Offset /\ Line(a) * LINE + (a % LINE) = a
  BY DivModFacts DEF OneWay, Line, Offset
<1>2. /\ Index(a) \in Sets /\ Tag(a) \in Nat /\ Tag(a) * SETS + Index(a) = Line(a)
  BY <1>1, DivModFacts DEF OneWay, Index, Tag, Sets
<1> QED BY <1>1, <1>2 DEF AdrOf

LEMMA AddressUnique ==
  ASSUME OneWay, NEW t \in Nat, NEW s \in Sets, NEW o \in Offset
  PROVE  /\ AdrOf(t, s, o) \in Nat
         /\ Tag(AdrOf(t, s, o)) = t /\ Index(AdrOf(t, s, o)) = s
         /\ AdrOf(t, s, o) % LINE = o
<1> DEFINE l == t * SETS + s
<1>1. l \in Nat /\ l \div SETS = t /\ l % SETS = s
  BY DivModUnique DEF OneWay, Sets
<1> HIDE DEF l
<1>2. l * LINE + o \in Nat /\ (l * LINE + o) \div LINE = l /\ (l * LINE + o) % LINE = o
  BY <1>1, DivModUnique DEF OneWay, Offset
<1>3. AdrOf(t, s, o) = l * LINE + o
  BY DEF AdrOf, l
<1> QED BY <1>1, <1>2, <1>3 DEF Tag, Index, Line

LEMMA NextParts ==
  ASSUME OneWay, NEW a \in Nat
  PROVE  /\ NextInLine(a) \in Nat /\ Line(NextInLine(a)) = Line(a)
         /\ NextInLine(a) % LINE = Succ(a % LINE, LINE)
         /\ NextInLine(a) % LINE \in Offset
<1> DEFINE c == Succ(a % LINE, LINE)
           l == Line(a)
<1>1. l \in Nat /\ a % LINE \in 0 .. LINE - 1
  BY AddressParts DEF Offset
<1>2. c = (a + 1) % LINE
  BY SuccMod DEF OneWay
<1>3. c \in 0 .. LINE - 1
  BY <1>1 DEF OneWay, Succ
<1>4. NextInLine(a) = l * LINE + c
  BY <1>2 DEF NextInLine
<1> HIDE DEF c, l
<1>5. l * LINE + c \in Nat /\ (l * LINE + c) \div LINE = l /\ (l * LINE + c) % LINE = c
  BY <1>1, <1>3, DivModUnique DEF OneWay
<1> QED BY <1>3, <1>4, <1>5 DEF Line, l, c, Offset
-----------------------------------------------------------------------------
(***************************************************************************)
(* The memories of a cache of one way in a cycle without error or snoop.   *)
(***************************************************************************)
LEMMA HitsOneWay ==
  ASSUME OneWay, NEW d
  PROVE  /\ hit(d) <=> TagRead = Tag(d.match)
         /\ hit(d) => way_hit(d) = {0}
         /\ Ways = {0}
<1>1. Ways = {0}
  BY DEF OneWay, Ways
<1> QED BY <1>1 DEF hit, way_hit, TagRead

TagOf(x) == x.entry.way[0]

LEMMA TagsAfter ==
  ASSUME OneWay, NEW d, DcCycle(d), NEW s \in Sets
  PROVE  /\ TagWrite(d) = {} => TagAt(s)' = TagAt(s)
         /\ \A x : TagWrite(d) = {x} => TagAt(s)' = IF x.index = s THEN TagOf(x) ELSE TagAt(s)
         /\ TagRead' = IF SNOOP THEN tag_ram'[Index(d.adr)].way[0] ELSE TagAt(Index(d.adr))
<1> DEFINE writes == TagWrite(d)
           tags == [r \in Sets |-> IF \E x \in writes : x.index = r
                                  THEN (CHOOSE x \in writes : TRUE).entry ELSE tag_ram[r]]
<1>1. tag_ram' = tags /\ tag_dout' = IF SNOOP THEN tags[Index(d.adr)] ELSE tag_ram[Index(d.adr)]
  BY DEF DcCycle, Memories
<1> HIDE DEF writes
<1>2. tag_ram'[s] = IF \E x \in writes : x.index = s
                    THEN (CHOOSE x \in writes : TRUE).entry ELSE tag_ram[s]
  BY <1>1
<1>3. ASSUME NEW x, writes = {x} PROVE TagAt(s)' = IF x.index = s THEN TagOf(x) ELSE TagAt(s)
  BY <1>2, <1>3 DEF TagAt, TagOf
<1>4. writes = {} => TagAt(s)' = TagAt(s)
  BY <1>2 DEF TagAt
<1>5. TagRead' = IF SNOOP THEN tag_ram'[Index(d.adr)].way[0] ELSE TagAt(Index(d.adr))
  BY <1>1 DEF TagRead, TagAt
<1> QED BY <1>3, <1>4, <1>5 DEF writes

LEMMA TagsKept ==
  ASSUME OneWay, ~snoop_hit, NEW d, DcCycle(d), NEW s \in Sets
  PROVE  /\ dc_state = "IDLE" => TagAt(s)' = TagAt(s)
         /\ dc_state \in {"READ", "WRITE"} =>
              TagAt(s)' = IF hit(d) /\ d.req /\ s = Index(d.match) THEN TagRead ELSE TagAt(s)
         /\ dc_state = "INVALIDATE" => TagAt(s)' = IF s = invalidate_adr THEN Invalid ELSE TagAt(s)
<1>1. CASE dc_state = "IDLE"
  <2>1. TagWrite(d) = {}
    BY <1>1 DEF TagWrite, refill
  <2> QED BY <1>1, <2>1, TagsAfter
<1>2. CASE dc_state \in {"READ", "WRITE"}
  <2>1. CASE hit(d) /\ d.req
    <3>1. PICK h : TagWrite(d) = {[index |-> Index(d.match),
                                   entry |-> [way |-> tag_dout.way, lru |-> h]]}
      BY <1>2, <2>1 DEF TagWrite, refill
    <3> DEFINE x == [index |-> Index(d.match), entry |-> [way |-> tag_dout.way, lru |-> h]]
    <3>2. x.index = Index(d.match) /\ TagOf(x) = TagRead
      BY DEF TagOf, TagRead
    <3> HIDE DEF x
    <3>3. TagAt(s)' = IF x.index = s THEN TagOf(x) ELSE TagAt(s)
      BY <3>1, TagsAfter DEF x
    <3> QED BY <1>2, <2>1, <3>2, <3>3
  <2>2. CASE ~(hit(d) /\ d.req)
    <3>1. TagWrite(d) = {}
      BY <1>2, <2>2 DEF TagWrite, refill
    <3> QED BY <1>2, <2>2, <3>1, TagsAfter
  <2> QED BY <2>1, <2>2
<1>3. CASE dc_state = "INVALIDATE"
  <2>1. TagWrite(d) = {[index |-> invalidate_adr, entry |-> Empty]}
    BY <1>3 DEF TagWrite, refill
  <2> DEFINE x == [index |-> invalidate_adr, entry |-> Empty]
  <2>2. x.index = invalidate_adr /\ TagOf(x) = Invalid
    BY HitsOneWay DEF Empty, TagOf
  <2> HIDE DEF x
  <2>3. TagAt(s)' = IF x.index = s THEN TagOf(x) ELSE TagAt(s)
    BY <2>1, TagsAfter DEF x
  <2> QED BY <1>3, <2>2, <2>3
<1> QED BY <1>1, <1>2, <1>3

LEMMA TagsRefilled ==
  ASSUME OneWay, ~snoop_hit, NEW d, DcCycle(d), NEW s \in Sets, refill, tag_save_lru = {0}
  PROVE  TagAt(s)' = IF d.fill /\ s = Index(d.fadr) /\ refill_done(d) THEN Tag(d.fadr)
                     ELSE IF d.fill /\ s = Index(d.fadr) /\ refill_valid = {} THEN Invalid
                     ELSE TagAt(s)
<1>1. TagWrite(d) = IF d.fill THEN RefillTag(d) ELSE {}
  BY DEF TagWrite, refill
<1>2. \A ways, tag : Victims(ways, tag)[0] = tag
  BY HitsOneWay DEF Victims
<1>3. CASE ~d.fill
  BY <1>1, <1>3, TagsAfter
<1>4. CASE d.fill /\ refill_done(d)
  <2>1. PICK h, w : TagWrite(d) = {[index |-> Index(d.fadr),
                                     entry |-> [way |-> Victims(w, Tag(d.fadr)), lru |-> h]]}
    BY <1>1, <1>4 DEF RefillTag
  <2> DEFINE x == [index |-> Index(d.fadr), entry |-> [way |-> Victims(w, Tag(d.fadr)), lru |-> h]]
  <2>2. x.index = Index(d.fadr) /\ TagOf(x) = Tag(d.fadr)
    BY <1>2 DEF TagOf
  <2> HIDE DEF x
  <2>3. TagAt(s)' = IF x.index = s THEN TagOf(x) ELSE TagAt(s)
    BY <2>1, TagsAfter DEF x
  <2> QED BY <1>4, <2>2, <2>3
<1>5. CASE d.fill /\ ~refill_done(d) /\ refill_valid = {}
  <2>1. PICK h, w : TagWrite(d) = {[index |-> Index(d.fadr),
                                     entry |-> [way |-> Victims(w, Invalid), lru |-> h]]}
    BY <1>1, <1>5 DEF RefillTag
  <2> DEFINE x == [index |-> Index(d.fadr), entry |-> [way |-> Victims(w, Invalid), lru |-> h]]
  <2>2. x.index = Index(d.fadr) /\ TagOf(x) = Invalid
    BY <1>2 DEF TagOf
  <2> HIDE DEF x
  <2>3. TagAt(s)' = IF x.index = s THEN TagOf(x) ELSE TagAt(s)
    BY <2>1, TagsAfter DEF x
  <2> QED BY <1>5, <2>2, <2>3
<1>6. CASE d.fill /\ ~refill_done(d) /\ refill_valid # {}
  <2>1. TagWrite(d) = {}
    BY <1>1, <1>6 DEF RefillTag
  <2> QED BY <1>6, <2>1, TagsAfter
<1> QED BY <1>3, <1>4, <1>5, <1>6

Words == [Sets \X Offset -> Val \cup {Undefined}]

LEMMA WordsAfter ==
  ASSUME OneWay, ~snoop_hit, NEW d, DcCycle(d), way_ram[0] \in Words,
         refill => tag_save_lru = {0},
         d.match \in Nat, d.fadr \in Nat, d.dat \in Val, d.fdat \in Val, d.adr \in Nat
  PROVE  LET stores == dc_state = "WRITE" /\ d.req /\ hit(d)
             fills  == refill /\ d.fill
         IN  /\ way_ram'[0] \in Words
             /\ way_dout'[0] = way_ram'[0][<<Index(d.adr), d.adr % LINE>>]
             /\ \A s \in Sets, o \in Offset :
                  /\ stores => WordAt(s, o)' = IF s = Index(d.match) /\ o = d.match % LINE
                                               THEN d.dat ELSE WordAt(s, o)
                  /\ fills => WordAt(s, o)' = IF s = Index(d.fadr) /\ o = d.fadr % LINE
                                              THEN d.fdat ELSE WordAt(s, o)
                  /\ ~stores /\ ~fills => WordAt(s, o)' = WordAt(s, o)
<1> DEFINE stores == dc_state = "WRITE" /\ d.req /\ hit(d)
           fills  == refill /\ d.fill
           waddr  == IF dc_state = "WRITE" THEN d.match ELSE d.fadr
           wdat   == IF dc_state = "WRITE" THEN d.dat ELSE d.fdat
           ways   == [w \in Ways |-> IF w \in WaysWritten(d)
                                  THEN [way_ram[w] EXCEPT ![<<Index(waddr), waddr % LINE>>] = wdat]
                                  ELSE way_ram[w]]
<1>1. way_ram' = ways /\ way_dout' = [w \in Ways |-> ways[w][<<Index(d.adr), d.adr % LINE>>]]
  BY DEF DcCycle, Memories
<1>2. Ways = {0} /\ (hit(d) <=> way_hit(d) # {}) /\ (hit(d) => way_hit(d) = {0})
  BY HitsOneWay DEF hit
<1>3. 0 \in WaysWritten(d) <=> stores \/ fills
  BY <1>2 DEF WaysWritten, refill
<1>4. Index(waddr) \in Sets /\ waddr % LINE \in Offset /\ wdat \in Val
  BY AddressParts
<1>5. ~(stores /\ fills)
  BY DEF refill
<1>6. /\ stores => waddr = d.match /\ wdat = d.dat
      /\ fills => waddr = d.fadr /\ wdat = d.fdat
  BY DEF refill
<1> HIDE DEF stores, fills, waddr, wdat
<1>7. way_ram'[0] = IF stores \/ fills
                    THEN [way_ram[0] EXCEPT ![<<Index(waddr), waddr % LINE>>] = wdat]
                    ELSE way_ram[0]
  BY <1>1, <1>2, <1>3
<1>8. way_ram'[0] \in Words
  BY <1>4, <1>7 DEF Words
<1>9. way_dout'[0] = way_ram'[0][<<Index(d.adr), d.adr % LINE>>]
  BY <1>1, <1>2
<1>10. ASSUME NEW s \in Sets, NEW o \in Offset
       PROVE  WordAt(s, o)' = IF (stores \/ fills) /\ s = Index(waddr) /\ o = waddr % LINE
                              THEN wdat ELSE WordAt(s, o)
  <2>1. <<s, o>> \in Sets \X Offset
    OBVIOUS
  <2>2. <<s, o>> = <<Index(waddr), waddr % LINE>> <=> s = Index(waddr) /\ o = waddr % LINE
    OBVIOUS
  <2> QED BY <1>4, <1>7, <2>1, <2>2 DEF Words, WordAt
<1> QED BY <1>5, <1>6, <1>8, <1>9, <1>10 DEF stores, fills
-----------------------------------------------------------------------------
(***************************************************************************)
(* The control stage when nothing fails on the bus: only a misaligned      *)
(* access is taken out of it after its first cycle.                        *)
(***************************************************************************)
QuietInv ==
    /\ errors = 0 /\ ~dbus_err /\ ~except_dbus /\ ~store_buffer_err /\ ~ctrl_except_dbus
    /\ ~snoop_check
    /\ write_done => state = "IDLE"
    /\ except_align => ~access_done
    /\ ctrl_except_align => /\ ~padv_ctrl /\ ~exception_r /\ ctrl.misaligned
                            /\ ctrl_op_lsu \/ ctrl_stage_exceptions
    /\ ctrl_stage_exceptions => ~padv_ctrl /\ ctrl.misaligned

\* The instruction that enters the stage, and what stays of the one in it.
LEMMA StageTakes ==
  ASSUME LsInv, NEW i, InputOK(i), ControlStage(i)
  PROVE  /\ i.advance => \E n \in NextInstructions :
              /\ i.next = {n}
              /\ n.op \in LsuKinds => ctrl'.adr = n.adr /\ ctrl'.misaligned = n.misaligned
              /\ n.op \notin LsuKinds => ctrl'.adr = ctrl.adr /\ ctrl'.misaligned = ctrl.misaligned
              /\ ~ctrl_except_align /\ ~ctrl_except_dbus => ctrl'.op = n.op
         /\ ~i.advance => /\ ctrl'.adr = ctrl.adr /\ ctrl'.misaligned = ctrl.misaligned
                          /\ ctrl'.id = ctrl.id
                          /\ ctrl'.op = ctrl.op \/ ctrl'.op = "other"
                          /\ i.flush => ctrl'.op = "other"
                          /\ ~i.flush /\ ~ctrl_except_align /\ ~ctrl_except_dbus
                               => ctrl'.op = ctrl.op
<1> DEFINE next    == IF i.advance THEN CHOOSE n \in i.next : TRUE ELSE ctrl
           failed  == ctrl_except_align \/ ctrl_except_dbus
           arrives == IF i.flush /\ ~i.advance THEN "other" ELSE next.op
           op      == IF failed /\ arrives \in LsuKinds THEN "other" ELSE arrives
           adr     == IF next.op \in LsuKinds THEN next.adr ELSE ctrl.adr
           misaligned == IF next.op \in LsuKinds THEN next.misaligned ELSE ctrl.misaligned
<1>1. ctrl \in Instruction
  BY DEF LsInv, TypeOK
<1>2. next \in Instruction
  BY <1>1, NextInstructionsTyped DEF InputOK, padv_execute
<1>3. ctrl' = [next EXCEPT !.op = op, !.adr = adr, !.misaligned = misaligned]
  BY Zenon DEF ControlStage
<1>4. i.advance => next \in NextInstructions /\ i.next = {next}
  BY DEF InputOK, padv_execute
<1>5. ~i.advance => next = ctrl
  OBVIOUS
<1> HIDE DEF next
<1>6. /\ ctrl'.op = op /\ ctrl'.misaligned = misaligned /\ ctrl'.adr = adr
      /\ ctrl'.id = next.id
  BY <1>2, <1>3 DEF Instruction
<1>7. CASE i.advance
  BY <1>4, <1>6, <1>7
<1>8. CASE ~i.advance
  BY <1>5, <1>6, <1>8
<1> QED BY <1>7, <1>8

LEMMA StageQuiet ==
  ASSUME Quiet, ViewInv, QuietInv, NEW i, InputOK(i), Edge(i)
  PROVE  /\ ~i.err /\ ~snoop_hit /\ \A a : ~snoop_valid(i, a)
         /\ except_align => ~lsu_ack(i.flush) /\ ~i.advance
         /\ ctrl_except_align => ~i.advance
         /\ ctrl_op_lsu /\ ~ctrl.misaligned => ~ctrl_except_align /\ (i.flush => padv_ctrl)
<1> USE DEF ViewInv
<1>1. ~i.err /\ ~snoop_hit
  BY DEF Quiet, QuietInv, InputOK, snoop_hit
<1>2. ASSUME NEW a PROVE ~snoop_valid(i, a)
  <2>1. ~(i.ack /\ dbus_we_o) => i.snoop = {}
    BY DEF Quiet, InputOK, LoadInv, LsInv
  <2>2. i.ack /\ dbus_we_o => i.snoop = {dbus_adr}
    BY DEF InputOK
  <2> QED BY <2>1, <2>2 DEF snoop_valid
<1>3. i.flush = (exception(i.trap) /\ ~exception_r /\ ~exception_taken)
  BY DEF InputOK, exception_re
<1>4. ASSUME except_align PROVE ~lsu_ack(i.flush) /\ ~i.advance
  <2>1. ctrl_op_lsu /\ ctrl.misaligned
    BY <1>4 DEF except_align
  <2>2. ~store_buffer_write(i.flush) /\ ~dc_req(i.flush)
    BY <1>4 DEF store_buffer_write, dc_req, dbus_stall
  <2>3. ~cpu_ack(Lookup(i.flush))
    BY <2>2 DEF cpu_ack, Lookup
  <2>4. ~dbus_ack
    BY <2>1 DEF LoadInv, AnswerInv, Reading
  <2>5. ctrl_op_lsu_store => ~ctrl_op_lsu_atomic
    BY DEF ctrl_op_lsu_store, ctrl_op_lsu_atomic, StoreInv, StageInv, Quiet
  <2>6. state = "WRITE" => ~write_done
    BY DEF QuietInv
  <2>7. ~lsu_ack(i.flush)
    BY <2>2, <2>3, <2>4, <2>5, <2>6 DEF lsu_ack
  <2>8. ~access_done
    BY <1>4 DEF QuietInv
  <2> QED BY <2>1, <2>7, <2>8 DEF InputOK, padv_execute, ctrl_stall, lsu_valid
<1>5. ASSUME ctrl_except_align PROVE ~i.advance
  <2>1. CASE ctrl_stage_exceptions
    <3>1. exception(i.trap) /\ ~exception_r /\ ~exception_taken
      BY <1>5, <2>1 DEF exception, exception_pending, QuietInv, StoreInv, StageInv
    <3> QED BY <1>3, <3>1 DEF InputOK, padv_execute
  <2>2. CASE ctrl_op_lsu
    <3>1. except_align
      BY <1>5, <2>2 DEF QuietInv, except_align
    <3> QED BY <1>4, <3>1
  <2> QED BY <1>5, <2>1, <2>2 DEF QuietInv
<1>6. ASSUME ctrl_op_lsu, ~ctrl.misaligned PROVE ~ctrl_except_align /\ (i.flush => padv_ctrl)
  BY <1>3, <1>6 DEF QuietInv, exception
<1> QED BY <1>1, <1>2, <1>4, <1>5, <1>6

LEMMA QuietStep ==
  ASSUME Quiet, ViewInv, QuietInv, NEW i, InputOK(i), Edge(i)
  PROVE  QuietInv'
<1> USE DEF ViewInv
<1>1. /\ ~i.err /\ \A a : ~snoop_valid(i, a)
      /\ except_align => ~lsu_ack(i.flush) /\ ~i.advance
      /\ ctrl_except_align => ~i.advance
  BY StageQuiet
<1>2. /\ ~i.advance => /\ ctrl'.misaligned = ctrl.misaligned
                       /\ ctrl'.op = ctrl.op \/ ctrl'.op = "other"
                       /\ i.flush => ctrl'.op = "other"
                       /\ ~i.flush /\ ~ctrl_except_align /\ ~ctrl_except_dbus
                            => ctrl'.op = ctrl.op
      /\ padv_ctrl' = i.advance
  BY StageTakes DEF Edge, LoadInv, PadvCtrl
<1>3. /\ errors' = 0 /\ ~dbus_err' /\ ~except_dbus' /\ ~store_buffer_err' /\ ~ctrl_except_dbus'
  BY <1>1 DEF Edge, Memory, BusMachine, ExceptDbus, StoreBufferErr, CtrlExceptions, QuietInv
<1>4. ~snoop_check'
  <2>1. CASE DCACHE
    <3>1. DcCycle(Inputs(i)) /\ Inputs(i).snoop = {}
      BY <1>1, <2>1 DEF Edge, Caching, Inputs
    <3> QED BY <3>1 DEF DcCycle, SnoopRegisters, QuietInv
  <2>2. CASE ~DCACHE
    BY <2>2 DEF Edge, Caching, dc_vars, QuietInv
  <2> QED BY <2>1, <2>2, ConfigAssumption
<1>5. write_done' => state' = "IDLE"
  <2>1. IDLE(i) \/ DC_REFILL(i) \/ READ(i) \/ WRITE(i)
    BY DEF Edge, BusMachine
  <2> QED BY <2>1 DEF IDLE, IdleDefaults, DC_REFILL, READ, WRITE
<1>6. ASSUME except_align', access_done' PROVE FALSE
  <2>1. ~i.advance /\ (lsu_ack(i.flush) \/ access_done)
    BY <1>6 DEF Edge, AccessDone
  <2>2. except_align
    BY <1>2, <1>6, <2>1 DEF except_align, ctrl_op_lsu, ctrl_op_lsu_load, ctrl_op_lsu_store
  <2> QED BY <1>1, <2>1, <2>2 DEF QuietInv
<1>7. ctrl_except_align' = (~i.flush /\ except_align)
      /\ ctrl_stage_exceptions' = (ctrl_except_align \/ ctrl_except_dbus)
  BY DEF Edge, CtrlExceptions, CtrlStageExceptions
<1>8. ASSUME ctrl_except_align'
      PROVE  /\ ~padv_ctrl' /\ ~exception_r' /\ ctrl'.misaligned
             /\ ctrl_op_lsu' \/ ctrl_stage_exceptions'
  <2>1. ~i.flush /\ except_align /\ ctrl_op_lsu /\ ctrl.misaligned /\ ~i.advance
    BY <1>1, <1>7, <1>8 DEF except_align
  <2>2. ctrl.op \in LsuKinds
    BY <2>1 DEF ctrl_op_lsu, ctrl_op_lsu_load, ctrl_op_lsu_store, LsuKinds
  <2>3. ~exception_r /\ ~exception_taken
    BY <2>2 DEF StoreInv, StageInv
  <2>4. ~exception_r'
    BY <2>1, <2>3 DEF InputOK, exception_re, Edge, ExceptionSequence
  <2>5. ctrl'.op = ctrl.op => ctrl_op_lsu'
    BY <2>1 DEF ctrl_op_lsu, ctrl_op_lsu_load, ctrl_op_lsu_store
  <2> QED BY <1>2, <1>7, <2>1, <2>4, <2>5 DEF QuietInv
<1>9. ctrl_stage_exceptions' => ~padv_ctrl' /\ ctrl'.misaligned
  BY <1>1, <1>2, <1>7 DEF QuietInv
<1> QED BY <1>3, <1>4, <1>5, <1>6, <1>8, <1>9 DEF QuietInv
-----------------------------------------------------------------------------
(***************************************************************************)
(* The inputs of the cache and its state machine when the cache is on.     *)
(***************************************************************************)
LEMMA SwitchKept ==
  ASSUME Quiet, ViewInv, NEW i, InputOK(i), Edge(i), DCACHE
  PROVE  dc_enable \in BOOLEAN /\ dc_enable_r = dc_enable /\ dc_enable' = dc_enable
  BY SwitchStep DEF Quiet, NoSwitch, ViewInv, LoadInv, SwitchFixed

LEMMA NextStore ==
  ASSUME Quiet, ViewInv, QuietInv, NEW i, InputOK(i), Edge(i)
  PROVE  /\ dc_we(i) <=> i.advance /\ ctrl_op_lsu_store'
         /\ dc_adr(i) = ctrl'.adr
<1> USE DEF ViewInv
<1>1. ~dbus_atomic
  BY DEF PlainInv
<1>2. i.advance => ~ctrl_except_align /\ ~ctrl_except_dbus
  BY StageQuiet DEF QuietInv
<1>3. CASE i.advance
  <2>1. PICK n \in NextInstructions :
           /\ i.next = {n} /\ ctrl'.op = n.op
           /\ n.op \in LsuKinds => ctrl'.adr = n.adr
           /\ n.op \notin LsuKinds => ctrl'.adr = ctrl.adr
    BY <1>2, <1>3, StageTakes DEF Edge, LoadInv
  <2>2. n.op # "swa"
    BY FollowingInstructions DEF Quiet
  <2>3. (CHOOSE x \in i.next : TRUE) = n
    BY <2>1
  <2>4. dc_we(i) <=> n.op = "store"
    BY <1>1, <1>3, <2>1 DEF dc_we
  <2>5. dc_adr(i) = ctrl'.adr
    BY <1>3, <2>1, <2>3 DEF dc_adr
  <2> QED BY <1>3, <2>1, <2>2, <2>4, <2>5 DEF ctrl_op_lsu_store
<1>4. CASE ~i.advance
  <2>1. ctrl'.adr = ctrl.adr
    BY <1>4, StageTakes DEF Edge, LoadInv
  <2> QED BY <1>1, <1>4, <2>1 DEF dc_we, dc_adr
<1> QED BY <1>3, <1>4

\* The address whose set is invalidated keeps the stage until it is.
LEMMA InvalidateWaits ==
  ASSUME Quiet, ViewInv, QuietInv, NEW i, InputOK(i), Edge(i), invalidate # {}
  PROVE  /\ ctrl.op = "invalidate" /\ SNOOP /\ ~ctrl_op_lsu
         /\ dc_state # "INVALIDATE" => ~i.advance
<1>1. ctrl.op = "invalidate"
  BY DEF invalidate
<1>2. SNOOP
  BY <1>1 DEF ViewInv, LoadInv, StageInv, Quiet
<1>3. dc_state # "INVALIDATE" => ~i.advance
  BY DEF InputOK, padv_execute, ctrl_stall, invalidate_ack
<1> QED BY <1>1, <1>2, <1>3 DEF ctrl_op_lsu, ctrl_op_lsu_load, ctrl_op_lsu_store

Requests(i) == ctrl_op_lsu /\ ~access_done /\ ~except_align /\ ~i.flush

LEMMA OnInputs ==
  ASSUME Quiet, ViewInv, QuietInv, NEW i, InputOK(i), Edge(i), On
  PROVE  LET d == Inputs(i)
         IN  /\ DcCycle(d) /\ On' /\ dc_access
             /\ d.access /\ d.enable /\ ~d.err /\ d.snoop = {}
             /\ d.req <=> Requests(i)
             /\ d.we <=> i.advance /\ ctrl_op_lsu_store'
             /\ d.adr = ctrl'.adr
<1>1. dc_enable /\ dc_enable_r /\ dc_enable' /\ DCACHE
  BY SwitchKept DEF On
<1>2. ~dbus_atomic /\ ~except_dbus /\ ~dbus_err /\ \A a : ~snoop_valid(i, a)
  BY StageQuiet DEF ViewInv, PlainInv, QuietInv
<1>3. DcCycle(Inputs(i))
  BY <1>1 DEF Edge, Caching
<1>4. dc_access
  BY <1>1 DEF dc_access
<1>5. dc_req(i.flush) <=> Requests(i)
  BY <1>2, <1>4 DEF dc_req, dbus_stall, Requests
<1>6. (dc_we(i) <=> i.advance /\ ctrl_op_lsu_store') /\ dc_adr(i) = ctrl'.adr
  BY NextStore
<1> QED BY <1>1, <1>2, <1>3, <1>4, <1>5, <1>6 DEF Inputs, On

Enters(i) == i.advance /\ ctrl_op_lsu_store'

LEMMA OnStates ==
  ASSUME Quiet, ViewInv, QuietInv, NEW i, InputOK(i), Edge(i), On
  PROVE  /\ dc_state = "IDLE" =>
              dc_state' = IF invalidate # {} THEN "INVALIDATE"
                          ELSE IF Enters(i) \/ write_pending THEN "WRITE"
                          ELSE IF Requests(i) THEN "READ" ELSE "IDLE"
         /\ dc_state = "READ" =>
              dc_state' = IF Enters(i) \/ write_pending THEN "WRITE"
                          ELSE IF StartsRefill(Inputs(i)) THEN "REFILL"
                          ELSE IF invalidate # {} THEN "IDLE" ELSE "READ"
         /\ dc_state = "REFILL" =>
              dc_state' = IF i.ack /\ RefillDone THEN "IDLE" ELSE "REFILL"
         /\ dc_state = "WRITE" =>
              dc_state' = IF Requests(i) /\ Enters(i) THEN "WRITE" ELSE "IDLE"
         /\ dc_state = "INVALIDATE" =>
              dc_state' = IF Enters(i) THEN "WRITE"
                          ELSE IF invalidate # {} THEN "INVALIDATE" ELSE "IDLE"
         /\ write_pending' <=> /\ dc_state = "WRITE" => Requests(i) /\ Enters(i)
                               /\ Enters(i) \/ (Requests(i) /\ write_pending)
         /\ dc_refill_r' = refill
<1> DEFINE d == Inputs(i)
<1>1. /\ DcCycle(d) /\ d.access /\ d.enable /\ ~d.err
      /\ d.req <=> Requests(i)
      /\ d.we <=> Enters(i)
  BY OnInputs DEF Enters
<1>2. ~snoop_hit
  BY StageQuiet
<1>3. d.invalidate = invalidate /\ d.fill = i.ack /\ (refill_done(d) <=> RefillDone)
  BY DEF Inputs, refill_done, RefillDone
<1>4. dc_refill_r' = refill
  BY DEF Edge, Caching
<1> HIDE DEF d
<1>5. LeavesWrite(d) <=> ~(Requests(i) /\ Enters(i))
  BY <1>1, <1>2 DEF LeavesWrite
<1>6. write_pending' <=> /\ dc_state = "WRITE" => Requests(i) /\ Enters(i)
                         /\ Enters(i) \/ (Requests(i) /\ write_pending)
  BY <1>1, <1>5 DEF DcCycle, PendingWrite
<1>7. dc_state = "IDLE" => dc_state' = FromIdle(d)
  BY <1>1 DEF DcCycle, StateMachine
<1>8. dc_state = "READ" => dc_state' = FromRead(d)
  BY <1>1 DEF DcCycle, StateMachine
<1>9. dc_state = "REFILL" => dc_state' = FromRefill(d)
  BY <1>1 DEF DcCycle, StateMachine
<1>10. dc_state = "WRITE" => dc_state' = IF LeavesWrite(d) THEN "IDLE" ELSE "WRITE"
  BY <1>1 DEF DcCycle, StateMachine
<1>11. dc_state = "INVALIDATE" => dc_state' = FromInvalidate(d)
  BY <1>1 DEF DcCycle, StateMachine
<1>12. FromIdle(d) = IF invalidate # {} THEN "INVALIDATE"
                     ELSE IF Enters(i) \/ write_pending THEN "WRITE"
                     ELSE IF Requests(i) THEN "READ" ELSE "IDLE"
  BY <1>1, <1>3 DEF FromIdle
<1>13. FromRead(d) = IF Enters(i) \/ write_pending THEN "WRITE"
                     ELSE IF StartsRefill(d) THEN "REFILL"
                     ELSE IF invalidate # {} THEN "IDLE" ELSE "READ"
  BY <1>1, <1>3 DEF FromRead
<1>14. FromRefill(d) = IF i.ack /\ RefillDone THEN "IDLE" ELSE "REFILL"
  BY <1>2, <1>3 DEF FromRefill
<1>15. FromInvalidate(d) = IF Enters(i) THEN "WRITE"
                           ELSE IF invalidate # {} THEN "INVALIDATE" ELSE "IDLE"
  BY <1>1, <1>3 DEF FromInvalidate
<1> QED BY <1>4, <1>5, <1>6, <1>7, <1>8, <1>9, <1>10, <1>11, <1>12, <1>13, <1>14, <1>15 DEF d
-----------------------------------------------------------------------------
(***************************************************************************)
(* The store in the stage and the cache: one that comes while the cache    *)
(* refills is remembered, and it is not done before the cache has seen it. *)
(***************************************************************************)
AlignedStore == ctrl_op_lsu_store /\ ~ctrl.misaligned

BusyInv ==
    /\ write_pending /\ dc_state # "WRITE" =>
          /\ dc_state \in {"IDLE", "REFILL"}
          /\ ctrl_op_lsu_store /\ ~access_done /\ ~ctrl_except_align
          /\ dc_state = "IDLE" => dc_refill_r
    /\ dc_state = "WRITE" => \/ ctrl_op_lsu_store /\ ~access_done
                             \/ ~ctrl_op_lsu /\ decode_execute_halt
    /\ dc_state = "INVALIDATE" => ~ctrl_op_lsu_store /\ SNOOP
    /\ AlignedStore /\ refill => write_pending

LEMMA StoreMoves ==
  ASSUME Quiet, ViewInv, QuietInv, NEW i, InputOK(i), Edge(i)
  PROVE  /\ ctrl_op_lsu_store => /\ ctrl.op = "store" /\ ctrl_op_lsu
                                 /\ i.advance => i.write \/ access_done
                                 /\ access_done' => ~i.advance /\ (i.write \/ access_done)
         /\ dc_busy => ~i.write
         /\ i.advance => ~i.flush /\ ~except_align /\ ~access_done' /\ ~ctrl_except_align'
                         /\ ~decode_execute_halt
         /\ ~i.advance /\ ctrl_op_lsu_store' => /\ ctrl_op_lsu_store /\ ~i.flush
                                                /\ ctrl'.adr = ctrl.adr /\ ctrl'.id = ctrl.id
                                                /\ ctrl'.misaligned = ctrl.misaligned
         /\ ~i.advance /\ ~i.flush /\ ~ctrl_except_align => ctrl'.op = ctrl.op
         /\ ~i.advance /\ i.flush => ctrl'.op = "other"
<1>1. /\ i.advance => ~i.flush /\ ~decode_execute_halt
      /\ i.write = store_buffer_write(i.flush)
  BY DEF InputOK, padv_execute
<1>2. except_align => ~i.advance
  BY StageQuiet
<1>3. /\ access_done' = IF i.advance THEN FALSE ELSE lsu_ack(i.flush) \/ access_done
      /\ ctrl_except_align' = (~i.flush /\ except_align)
  BY DEF Edge, AccessDone, CtrlExceptions
<1>4. ASSUME ctrl_op_lsu_store
      PROVE  /\ ctrl.op = "store" /\ ctrl_op_lsu /\ lsu_ack(i.flush) = i.write
             /\ i.advance => i.write \/ access_done
  <2>1. ctrl.op = "store" /\ ctrl_op_lsu
    BY <1>4 DEF ctrl_op_lsu_store, ctrl_op_lsu, ViewInv, LoadInv, StageInv, Quiet
  <2> QED BY <2>1, StoreAcknowledged DEF ViewInv, LoadInv
<1>5. dc_busy => ~i.write
  BY <1>1 DEF store_buffer_write
<1>6. ~i.advance => /\ ctrl'.adr = ctrl.adr /\ ctrl'.misaligned = ctrl.misaligned
                    /\ ctrl'.id = ctrl.id
                    /\ ctrl'.op = ctrl.op \/ ctrl'.op = "other"
                    /\ i.flush => ctrl'.op = "other"
                    /\ ~i.flush /\ ~ctrl_except_align => ctrl'.op = ctrl.op
  BY StageTakes DEF Edge, ViewInv, LoadInv, QuietInv
<1>7. ~i.advance /\ ctrl_op_lsu_store' => /\ ctrl_op_lsu_store /\ ~i.flush
                                          /\ ctrl'.adr = ctrl.adr /\ ctrl'.id = ctrl.id
                                          /\ ctrl'.misaligned = ctrl.misaligned
  BY <1>6 DEF ctrl_op_lsu_store
<1> QED BY <1>1, <1>2, <1>3, <1>4, <1>5, <1>6, <1>7

LEMMA BusyStep ==
  ASSUME Quiet, On, ViewInv, QuietInv, BusyInv, NEW i, InputOK(i), Edge(i)
  PROVE  BusyInv'
<1>1. /\ write_pending' <=> /\ dc_state = "WRITE" => Requests(i) /\ Enters(i)
                            /\ Enters(i) \/ (Requests(i) /\ write_pending)
      /\ dc_refill_r' = refill
  BY OnStates
<1>2. /\ ctrl_op_lsu_store => /\ ctrl.op = "store" /\ ctrl_op_lsu
                              /\ i.advance => i.write \/ access_done
                              /\ access_done' => ~i.advance /\ (i.write \/ access_done)
      /\ dc_busy => ~i.write
      /\ i.advance => ~i.flush /\ ~except_align /\ ~access_done' /\ ~ctrl_except_align'
                      /\ ~decode_execute_halt
      /\ ~i.advance /\ ctrl_op_lsu_store' => ctrl_op_lsu_store /\ ~i.flush
                                             /\ ctrl'.misaligned = ctrl.misaligned
      /\ ~i.advance /\ ~i.flush /\ ~ctrl_except_align => ctrl'.op = ctrl.op
      /\ ~i.advance /\ i.flush => ctrl'.op = "other"
  BY StoreMoves
<1>3. Enters(i) => /\ ctrl_op_lsu_store' /\ ~access_done' /\ ~ctrl_except_align'
                   /\ invalidate # {} => dc_state = "INVALIDATE"
                   /\ dc_state \in DcStates
  BY <1>2, InvalidateWaits DEF Enters, ViewInv, MachineInv
\* A remembered store stays, or it is flushed.
<1>4. ASSUME write_pending, dc_state # "WRITE"
      PROVE  /\ ~i.advance /\ invalidate = {} /\ ctrl_op_lsu_store
             /\ ~i.flush => /\ ctrl_op_lsu_store' /\ ~access_done'
                            /\ ~except_align => ~ctrl_except_align'
             /\ i.flush => ~ctrl_op_lsu' /\ decode_execute_halt'
  <2>1. /\ ctrl_op_lsu_store /\ ~access_done /\ ~ctrl_except_align
        /\ dc_state = "REFILL" \/ dc_refill_r
    BY <1>4 DEF BusyInv
  <2>2. ~i.write /\ ~i.advance
    BY <1>2, <2>1 DEF dc_busy, refill
  <2>3. invalidate = {}
    BY <1>2, <2>1, InvalidateWaits
  <2>4. ~i.flush => ctrl_op_lsu_store' /\ ~access_done'
    BY <1>2, <2>1, <2>2 DEF ctrl_op_lsu_store
  <2>5. ctrl_except_align' = (~i.flush /\ except_align)
    BY DEF Edge, CtrlExceptions
  <2>6. ASSUME i.flush PROVE ~ctrl_op_lsu' /\ decode_execute_halt'
    <3>1. exception(i.trap) /\ ~exception_r /\ ~exception_taken /\ ~i.taken
      BY <2>6 DEF InputOK, exception_re
    <3>2. decode_execute_halt'
      BY <3>1 DEF Edge, ExceptionSequence
    <3>3. ctrl'.op = "other"
      BY <1>2, <2>2, <2>6
    <3> QED BY <3>2, <3>3 DEF ctrl_op_lsu, ctrl_op_lsu_load, ctrl_op_lsu_store
  <2> QED BY <2>1, <2>2, <2>3, <2>4, <2>5, <2>6
<1>5. ASSUME write_pending', dc_state' # "WRITE"
      PROVE  /\ dc_state' \in {"IDLE", "REFILL"}
             /\ ctrl_op_lsu_store' /\ ~access_done' /\ ~ctrl_except_align'
             /\ dc_state' = "IDLE" => dc_refill_r'
  <2>1. CASE Enters(i)
    <3>1. dc_state = "REFILL"
      BY <1>1, <1>3, <1>5, <2>1, OnStates DEF DcStates
    <3>2. dc_state' \in {"IDLE", "REFILL"}
      BY <3>1, OnStates
    <3> QED BY <1>1, <1>3, <2>1, <3>1, <3>2 DEF refill
  <2>2. CASE ~Enters(i)
    <3>1. write_pending /\ dc_state # "WRITE" /\ ~i.flush /\ ~except_align
      BY <1>1, <1>5, <2>2 DEF Requests
    <3>2. dc_state = "REFILL"
      <4>1. dc_state = "IDLE" => dc_state' = "WRITE"
        BY <1>4, <3>1, OnStates
      <4> QED BY <1>5, <3>1, <4>1 DEF BusyInv
    <3>3. dc_state' \in {"IDLE", "REFILL"}
      BY <3>2, OnStates
    <3> QED BY <1>1, <1>4, <3>1, <3>2, <3>3 DEF refill
  <2> QED BY <2>1, <2>2
<1>6. ASSUME dc_state' = "WRITE"
      PROVE  \/ ctrl_op_lsu_store' /\ ~access_done'
             \/ ~ctrl_op_lsu' /\ decode_execute_halt'
  <2>1. CASE Enters(i)
    BY <1>3, <2>1
  <2>2. CASE ~Enters(i)
    <3>1. write_pending /\ dc_state # "WRITE"
      <4>1. dc_state \in {"IDLE", "READ", "REFILL", "WRITE", "INVALIDATE"}
        BY DEF ViewInv, MachineInv, DcStates
      <4> QED BY <1>6, <2>2, <4>1, OnStates
    <3> QED BY <1>4, <3>1
  <2> QED BY <2>1, <2>2
<1>7. ASSUME dc_state' = "INVALIDATE" PROVE ~ctrl_op_lsu_store' /\ SNOOP
  <2>1. /\ invalidate # {} /\ ~Enters(i)
        /\ dc_state = "IDLE" \/ dc_state = "INVALIDATE"
    <3>1. dc_state \in {"IDLE", "READ", "REFILL", "WRITE", "INVALIDATE"}
      BY DEF ViewInv, MachineInv, DcStates
    <3> QED BY <1>3, <1>7, <3>1, OnStates
  <2>2. SNOOP /\ ~ctrl_op_lsu
    BY <2>1, InvalidateWaits
  <2>3. ~ctrl_op_lsu_store
    BY <2>2 DEF ctrl_op_lsu
  <2> QED BY <1>2, <2>1, <2>2, <2>3 DEF Enters
<1>8. ASSUME AlignedStore', refill' PROVE write_pending'
  <2>1. CASE i.advance
    <3>1. Enters(i)
      BY <1>8, <2>1 DEF Enters, AlignedStore
    <3>2. dc_state # "WRITE"
      BY <1>8, OnStates DEF refill
    <3> QED BY <1>1, <3>1, <3>2
  <2>2. CASE ~i.advance
    <3>1. AlignedStore /\ ~i.flush
      BY <1>2, <1>8, <2>2 DEF AlignedStore
    <3>2. refill
      <4>1. ~StartsRefill(Inputs(i))
        BY <3>1 DEF StartsRefill, Inputs, dc_refill_allowed, AlignedStore
      <4>2. dc_state \in {"IDLE", "READ", "REFILL", "WRITE", "INVALIDATE"}
        BY DEF ViewInv, MachineInv, DcStates
      <4> QED BY <1>8, <4>1, <4>2, OnStates DEF refill
    <3>3. write_pending /\ ~access_done
      BY <3>1, <3>2 DEF BusyInv, refill
    <3>4. Requests(i)
      BY <1>2, <3>1, <3>3 DEF Requests, AlignedStore, except_align
    <3> QED BY <1>1, <3>2, <3>3, <3>4 DEF refill
  <2> QED BY <2>1, <2>2
<1> QED BY <1>5, <1>6, <1>7, <1>8 DEF BusyInv
-----------------------------------------------------------------------------
(***************************************************************************)
(* What the cache holds.  The port of the tag memory shows the tag of the  *)
(* set of the instruction in the stage whenever a hit counts.              *)
(***************************************************************************)
PortInv ==
    /\ way_ram[0] \in Words
    /\ way_dout[0] = WordAt(Index(ctrl.adr), ctrl.adr % LINE)
    /\ SNOOP \/ dc_state \in {"READ", "WRITE"} => TagRead = TagAt(Index(ctrl.adr))

\* A word in a valid line is the word the program would read, unless a store to it
\* is in the stage and has been there for a cycle.
LineInv ==
    \A s \in Sets, o \in Offset :
       TagAt(s) # Invalid =>
          LET a == AdrOf(TagAt(s), s, o)
          IN  /\ TagAt(s) \in Nat /\ a \in Adr
              /\ \/ WordAt(s, o) = View[a]
                 \/ AlignedStore /\ ~padv_ctrl /\ a = ctrl.adr

\* The store in the stage is in its line when the cache has no more to do for it,
\* and a store that is done is in the view.
StoredInv ==
    /\ ctrl_op_lsu_store /\ access_done => View[ctrl.adr] = ctrl.id
    /\ AlignedStore /\ dc_state \in {"IDLE", "READ"} /\ ~write_pending
       /\ TagAt(Index(ctrl.adr)) = Tag(ctrl.adr)
         => WordAt(Index(ctrl.adr), ctrl.adr % LINE) = ctrl.id

\* The load that missed waits in the stage until its word has come.
Missed == /\ ctrl_op_lsu_load /\ Line(ctrl.adr) = Line(dbus_adr)
          /\ ~padv_ctrl /\ ~access_done /\ ~ctrl.misaligned
          /\ TagRead # Tag(ctrl.adr)

BurstInv ==
    refill => /\ tag_save_lru = {0}
              /\ refill_valid \subseteq Offset /\ refill_valid_r \subseteq refill_valid
              /\ \E f \in Offset : \A o \in Offset :
                    o \in refill_valid <=> Between(f, dbus_adr % LINE, o)
              /\ refill_valid_r = {} => Missed
              /\ refill_valid_r # {} => TagRead = TagAt(Index(ctrl.adr))

\* The line that is being refilled is not valid from its first word on.
RefillInv ==
    refill => /\ refill_valid # {} => TagAt(Index(dbus_adr)) = Invalid
              /\ refill_valid = {} => TagAt(Index(dbus_adr)) # Tag(dbus_adr)
              /\ \A o \in refill_valid :
                    LET a == Line(dbus_adr) * LINE + o
                    IN  a \in Adr /\ WordAt(Index(dbus_adr), o) = View[a]

OnInv  == BusyInv /\ PortInv /\ LineInv /\ StoredInv /\ BurstInv /\ RefillInv
OffInv == /\ TagRead = Invalid /\ \A s \in Sets : TagAt(s) = Invalid
          /\ ~refill

CacheInv == /\ QuietInv /\ ~log.unseen
            /\ On => OnInv
            /\ ~On => OffInv

LEMMA NatAddresses ==
  ASSUME ViewInv
  PROVE  ctrl.adr \in Adr /\ ctrl.adr \in Nat /\ dbus_adr \in Adr /\ dbus_adr \in Nat
         /\ ctrl.id \in Val /\ mem \in [Adr -> Val]
  BY ValuesTyped, ConfigAssumption DEF ViewInv, LoadInv, LsInv, TypeOK

\* Nothing is written behind the back of the cache.
LEMMA PromiseHolds ==
  ASSUME OneWay, Quiet, ViewInv, CacheInv, NEW i, InputOK(i), Edge(i)
  PROVE  ~log'.unseen
<1>1. log'.unseen = (\/ log.unseen \/ StoreWhileOff \/ (i.err /\ dbus_we_o)
                     \/ DropsAccess(i)
                     \/ \E a \in i.snoop : OvertakesRefill(a))
  BY DEF Edge, Log
<1>2. ~log.unseen /\ QuietInv
  BY DEF CacheInv
<1>3. ~i.err /\ \A a : ~snoop_valid(i, a)
  BY <1>2, StageQuiet
<1>4. ~StoreWhileOff
  <2>1. CASE On
    <3>1. dc_enable_r
      BY <2>1, SwitchKept DEF On
    <3> QED BY <3>1 DEF StoreWhileOff
  <2>2. CASE ~On
    <3>1. Tag(ctrl.adr) \in Nat /\ Index(ctrl.adr) \in Sets
      BY NatAddresses, AddressParts
    <3>2. TagAt(Index(ctrl.adr)) = Invalid
      BY <2>2, <3>1 DEF CacheInv, OffInv
    <3>3. Ways = {0}
      BY HitsOneWay
    <3> QED BY <3>1, <3>2, <3>3 DEF StoreWhileOff, TagAt, Invalid
  <2> QED BY <2>1, <2>2
<1>5. ASSUME NEW a \in i.snoop PROVE ~OvertakesRefill(a)
  <2>1. i.ack /\ dbus_we_o
    BY DEF InputOK, Quiet, ViewInv, LoadInv, LsInv
  <2>2. state = "WRITE"
    BY <2>1 DEF dbus_we_o, ViewInv, LoadInv, AnswerInv
  <2>3. ~refill
    BY <1>2, <2>2 DEF ViewInv, MachineInv, QuietInv
  <2> QED BY <2>3 DEF OvertakesRefill
<1>6. ~DropsAccess(i)
  BY <1>2 DEF DropsAccess, QuietInv
<1> QED BY <1>1, <1>2, <1>3, <1>4, <1>5, <1>6

LEMMA ViewMoves ==
  ASSUME OneWay, Quiet, ViewInv, CacheInv, NEW i, InputOK(i), Edge(i)
  PROVE  /\ i.write => View'[ctrl.adr] = ctrl.id /\ ctrl_op_lsu_store /\ ~refill
         /\ \A a \in Adr : ~(i.write /\ a = ctrl.adr) => View'[a] = View[a]
         /\ refill => View = mem /\ state = "DC_REFILL"
<1>1. ~log'.unseen /\ ~log.unseen /\ ~dbus_err
  BY PromiseHolds DEF CacheInv, QuietInv
<1>2. /\ i.write => View'[ctrl.adr] = ctrl.id
      /\ \A a \in Adr : ~(i.write /\ a = ctrl.adr) => View'[a] = View[a]
  BY <1>1, ViewStep DEF Quiet
<1>3. i.write => ctrl_op_lsu_store /\ ~refill
  BY WritesStore DEF Quiet, ViewInv
<1>4. ASSUME refill PROVE View = mem /\ state = "DC_REFILL"
  <2>1. state = "DC_REFILL" /\ Contents = <<>>
    BY <1>1, <1>4 DEF ViewInv, MachineInv
  <2>2. Pending = <<>>
    BY <2>1, ConcatEmptySeq DEF Pending, OnBus, Fetched
  <2> QED BY <2>1, <2>2, ViewIsViewOf, ViewTyped, EmptySeq, NatAddresses
<1> QED BY <1>2, <1>3, <1>4

LEMMA TagMoves ==
  ASSUME OneWay, Quiet, On, ViewInv, CacheInv, NEW i, InputOK(i), Edge(i), NEW s \in Sets
  PROVE  /\ refill => TagAt(s)' = IF i.ack /\ s = Index(dbus_adr) /\ RefillDone
                                  THEN Tag(dbus_adr)
                                  ELSE IF i.ack /\ s = Index(dbus_adr) /\ refill_valid = {}
                                  THEN Invalid ELSE TagAt(s)
         /\ ~refill => \/ TagAt(s)' = TagAt(s)
                       \/ TagAt(s)' = Invalid /\ dc_state = "INVALIDATE"
         /\ s = Index(ctrl'.adr) => TagRead' = IF SNOOP THEN TagAt(s)' ELSE TagAt(s)
<1> DEFINE d == Inputs(i)
<1>1. QuietInv /\ OnInv
  BY DEF CacheInv
<1>2. DcCycle(d) /\ d.adr = ctrl'.adr
  BY <1>1, OnInputs
<1>3. ~snoop_hit
  BY <1>1, StageQuiet
<1>4. /\ d.fill = i.ack /\ d.fadr = dbus_adr /\ d.match = ctrl.adr
      /\ (refill_done(d) <=> RefillDone)
  BY DEF Inputs, refill_done, RefillDone
<1> HIDE DEF d
<1>5. refill => TagAt(s)' = IF i.ack /\ s = Index(dbus_adr) /\ RefillDone
                            THEN Tag(dbus_adr)
                            ELSE IF i.ack /\ s = Index(dbus_adr) /\ refill_valid = {}
                            THEN Invalid ELSE TagAt(s)
  BY <1>1, <1>2, <1>3, <1>4, TagsRefilled DEF OnInv, BurstInv
<1>6. ASSUME ~refill PROVE \/ TagAt(s)' = TagAt(s)
                           \/ TagAt(s)' = Invalid /\ dc_state = "INVALIDATE"
  <2>1. dc_state \in {"IDLE", "READ", "WRITE", "INVALIDATE"}
    BY <1>6 DEF ViewInv, MachineInv, DcStates, refill
  <2>2. dc_state \in {"READ", "WRITE"} => TagRead = TagAt(Index(ctrl.adr))
    BY <1>1 DEF OnInv, PortInv
  <2> QED BY <1>2, <1>3, <1>4, <2>1, <2>2, TagsKept
<1>7. s = Index(ctrl'.adr) => TagRead' = IF SNOOP THEN TagAt(s)' ELSE TagAt(s)
  <2>1. TagRead' = IF SNOOP THEN tag_ram'[Index(d.adr)].way[0] ELSE TagAt(Index(d.adr))
    BY <1>2, TagsAfter
  <2> QED BY <1>2, <2>1 DEF TagAt
<1> QED BY <1>5, <1>6, <1>7

LEMMA WordMoves ==
  ASSUME OneWay, Quiet, On, ViewInv, CacheInv, NEW i, InputOK(i), Edge(i)
  PROVE  LET stores == dc_state = "WRITE" /\ Requests(i) /\ TagRead = Tag(ctrl.adr)
             fills  == refill /\ i.ack
         IN  /\ way_ram'[0] \in Words
             /\ \A s \in Sets, o \in Offset :
                  /\ s = Index(ctrl'.adr) /\ o = ctrl'.adr % LINE => way_dout'[0] = WordAt(s, o)'
                  /\ stores => WordAt(s, o)' = IF s = Index(ctrl.adr) /\ o = ctrl.adr % LINE
                                               THEN ctrl.id ELSE WordAt(s, o)
                  /\ fills => WordAt(s, o)' = IF s = Index(dbus_adr) /\ o = dbus_adr % LINE
                                              THEN mem[dbus_adr] ELSE WordAt(s, o)
                  /\ ~stores /\ ~fills => WordAt(s, o)' = WordAt(s, o)
<1> DEFINE d == Inputs(i)
<1>1. QuietInv /\ OnInv
  BY DEF CacheInv
<1>2. DcCycle(d) /\ d.adr = ctrl'.adr /\ (d.req <=> Requests(i))
  BY <1>1, OnInputs
<1>3. ~snoop_hit
  BY <1>1, StageQuiet
<1>4. /\ d.fill = i.ack /\ d.fadr = dbus_adr /\ d.match = ctrl.adr
      /\ d.dat = ctrl.id /\ d.fdat = mem[dbus_adr]
  BY DEF Inputs
<1>5. /\ d.match \in Nat /\ d.fadr \in Nat /\ d.dat \in Val /\ d.fdat \in Val
  BY <1>4, NatAddresses
<1>6. d.adr \in Nat
  <2>1. LsInv'
    BY EdgeKeeps DEF ViewInv, LoadInv
  <2>2. ctrl'.adr \in Adr
    BY <2>1 DEF LsInv, TypeOK, Instruction
  <2> QED BY <1>2, <2>2, ConfigAssumption
<1> HIDE DEF d
<1>7. way_ram[0] \in Words /\ (refill => tag_save_lru = {0})
  BY <1>1 DEF OnInv, PortInv, BurstInv
<1>8. hit(d) <=> TagRead = Tag(ctrl.adr)
  BY <1>4, HitsOneWay
<1>9. /\ way_ram'[0] \in Words
      /\ way_dout'[0] = way_ram'[0][<<Index(d.adr), d.adr % LINE>>]
      /\ \A s \in Sets, o \in Offset :
           /\ dc_state = "WRITE" /\ d.req /\ hit(d)
                => WordAt(s, o)' = IF s = Index(d.match) /\ o = d.match % LINE
                                   THEN d.dat ELSE WordAt(s, o)
           /\ refill /\ d.fill
                => WordAt(s, o)' = IF s = Index(d.fadr) /\ o = d.fadr % LINE
                                   THEN d.fdat ELSE WordAt(s, o)
           /\ ~(dc_state = "WRITE" /\ d.req /\ hit(d)) /\ ~(refill /\ d.fill)
                => WordAt(s, o)' = WordAt(s, o)
  BY <1>2, <1>3, <1>5, <1>6, <1>7, WordsAfter
<1>10. \A s, o : s = Index(ctrl'.adr) /\ o = ctrl'.adr % LINE => way_dout'[0] = WordAt(s, o)'
  BY <1>2, <1>9 DEF WordAt
<1> QED BY <1>2, <1>4, <1>8, <1>9, <1>10
-----------------------------------------------------------------------------
(***************************************************************************)
(* A cycle of the cache keeps the invariant, part by part.                 *)
(***************************************************************************)
LEMMA NextAddress ==
  ASSUME OneWay, ViewInv, NEW i, InputOK(i), Edge(i)
  PROVE  /\ ctrl'.adr \in Adr /\ ctrl'.adr \in Nat
         /\ Index(ctrl'.adr) \in Sets /\ ctrl'.adr % LINE \in Offset
<1>1. LsInv'
  BY EdgeKeeps DEF ViewInv, LoadInv
<1>2. ctrl'.adr \in Adr
  BY <1>1 DEF LsInv, TypeOK, Instruction
<1> QED BY <1>2, ConfigAssumption, AddressParts

LEMMA PortStep ==
  ASSUME OneWay, Quiet, On, ViewInv, CacheInv, NEW i, InputOK(i), Edge(i)
  PROVE  PortInv'
<1> DEFINE s == Index(ctrl'.adr)
           o == ctrl'.adr % LINE
<1>1. QuietInv /\ OnInv
  BY DEF CacheInv
<1>2. s \in Sets /\ o \in Offset
  BY NextAddress
<1>3. way_ram'[0] \in Words
  BY WordMoves
<1>4. way_dout'[0] = way_ram'[0][<<s, o>>]
  BY <1>2, WordMoves DEF WordAt
<1>5. ASSUME SNOOP \/ dc_state' \in {"READ", "WRITE"}
      PROVE  TagRead' = tag_ram'[s].way[0]
  <2>1. TagRead' = IF SNOOP THEN tag_ram'[s].way[0] ELSE TagAt(s)
    BY <1>2, TagMoves DEF TagAt
  <2>2. ASSUME ~SNOOP PROVE tag_ram'[s].way[0] = TagAt(s)
    <3>1. ~refill
      BY <1>1, <1>5, <2>2, OnStates DEF refill
    <3>2. dc_state # "INVALIDATE"
      BY <1>1, <2>2 DEF OnInv, BusyInv
    <3> QED BY <1>2, <3>1, <3>2, TagMoves DEF TagAt
  <2> QED BY <2>1, <2>2
<1> QED BY <1>3, <1>4, <1>5 DEF PortInv, WordAt, TagAt

\* A load that misses stays as it is.
LEMMA LoadWaits ==
  ASSUME OneWay, Quiet, On, ViewInv, CacheInv, NEW i, InputOK(i), Edge(i),
         ctrl_op_lsu_load, ~ctrl.misaligned, ~access_done, ~i.flush, state # "WRITE",
         TagRead # Tag(ctrl.adr), refill => refill_valid_r = {}
  PROVE  /\ ctrl_op_lsu_load' /\ ctrl'.adr = ctrl.adr /\ ~ctrl'.misaligned
         /\ ~padv_ctrl' /\ ~access_done' /\ ~i.advance
<1>1. QuietInv
  BY DEF CacheInv
<1>2. dc_access /\ ~ctrl_op_lsu_store /\ ctrl_op_lsu /\ ~ctrl_except_align
  BY <1>1, OnInputs, StageQuiet DEF ctrl_op_lsu, ctrl_op_lsu_load, ctrl_op_lsu_store
<1>3. ~cpu_ack(Lookup(i.flush))
  <2>1. ~hit(Lookup(i.flush))
    BY HitsOneWay DEF Lookup
  <2>2. ~refill_hit(Lookup(i.flush))
    BY DEF refill_hit
  <2> QED BY <2>1, <2>2 DEF cpu_ack
<1>4. ~lsu_ack(i.flush)
  BY <1>2, <1>3 DEF lsu_ack, dbus_access
<1>5. ~i.advance
  BY <1>2, <1>4 DEF InputOK, padv_execute, ctrl_stall, lsu_valid
<1>6. ~padv_ctrl' /\ ~access_done'
  BY <1>4, <1>5 DEF Edge, PadvCtrl, AccessDone
<1>7. ctrl'.op = ctrl.op /\ ctrl'.adr = ctrl.adr /\ ctrl'.misaligned = ctrl.misaligned
  BY <1>1, <1>2, <1>5, StageTakes DEF Edge, ViewInv, LoadInv, QuietInv
<1> QED BY <1>5, <1>6, <1>7 DEF ctrl_op_lsu_load

LEMMA BurstBegins ==
  ASSUME OneWay, Quiet, On, ViewInv, CacheInv, NEW i, InputOK(i), Edge(i),
         refill', ~refill
  PROVE  /\ dc_state = "READ" /\ TagRead # Tag(ctrl.adr)
         /\ dbus_adr' = ctrl.adr /\ ctrl'.adr = ctrl.adr
         /\ refill_valid' = {} /\ refill_valid_r' = {} /\ tag_save_lru' = {0}
         /\ ctrl_op_lsu_load' /\ ~padv_ctrl' /\ ~access_done' /\ ~ctrl'.misaligned
<1> DEFINE d == Inputs(i)
<1>1. QuietInv /\ ~log.unseen
  BY DEF CacheInv
<1>2. DcCycle(d) /\ ~d.err /\ (d.req <=> Requests(i)) /\ d.match = ctrl.adr
  BY <1>1, OnInputs DEF Inputs
<1>3. StartsRefill(d) /\ dc_state = "READ"
  <2>1. dc_state \in {"IDLE", "READ", "REFILL", "WRITE", "INVALIDATE"}
    BY DEF ViewInv, MachineInv, DcStates
  <2> QED BY <1>1, <2>1, OnStates DEF refill
<1>4. state = "IDLE" /\ IdleNext(i) = "refill"
  BY <1>1, <1>3, RefillStarts DEF Quiet
<1>5. dbus_adr' = ctrl.adr
  <2>1. IDLE(i)
    BY <1>4 DEF Edge, BusMachine, DC_REFILL, READ, WRITE
  <2> QED BY <1>4, <2>1 DEF IDLE
<1>6. dc_req(i.flush) /\ dc_refill_allowed(i) /\ ~hit(d)
  BY <1>3 DEF StartsRefill, Inputs
<1>7. ctrl_op_lsu_load /\ ~i.flush /\ ~access_done /\ ~ctrl.misaligned
  BY <1>3, <1>6, MissWaits DEF Quiet
<1>8. TagRead # Tag(ctrl.adr)
  BY <1>2, <1>6, HitsOneWay
<1>9. /\ ctrl_op_lsu_load' /\ ctrl'.adr = ctrl.adr /\ ~ctrl'.misaligned
      /\ ~padv_ctrl' /\ ~access_done'
  BY <1>4, <1>7, <1>8, LoadWaits
<1> HIDE DEF d
<1>10. refill_valid' = {} /\ refill_valid_r' = {} /\ tag_save_lru' = {0}
  BY <1>2, <1>3 DEF DcCycle, RefillBits, OneWay
<1> QED BY <1>3, <1>5, <1>8, <1>9, <1>10

LEMMA BurstGoesOn ==
  ASSUME OneWay, Quiet, On, ViewInv, CacheInv, NEW i, InputOK(i), Edge(i),
         refill', refill
  PROVE  /\ ~(i.ack /\ RefillDone)
         /\ dbus_adr' = IF i.ack THEN NextInLine(dbus_adr) ELSE dbus_adr
         /\ refill_valid' = IF i.ack THEN refill_valid \cup {dbus_adr % LINE} ELSE refill_valid
         /\ refill_valid_r' = refill_valid /\ tag_save_lru' = tag_save_lru
<1> DEFINE d == Inputs(i)
<1>1. QuietInv
  BY DEF CacheInv
<1>2. DcCycle(d) /\ ~d.err /\ d.fill = i.ack /\ d.fadr = dbus_adr
  BY <1>1, OnInputs DEF Inputs
<1>3. ~snoop_hit
  BY <1>1, StageQuiet
<1>4. ~(i.ack /\ RefillDone)
  BY <1>1, OnStates DEF refill
<1>5. DC_REFILL(i)
  <2>1. state = "DC_REFILL"
    BY ViewMoves
  <2> QED BY <2>1 DEF Edge, BusMachine, IDLE, READ, WRITE
<1>6. dbus_adr' = IF i.ack THEN NextInLine(dbus_adr) ELSE dbus_adr
  BY <1>5 DEF DC_REFILL
<1> HIDE DEF d
<1>7. ~StartsRefill(d)
  BY DEF StartsRefill, refill
<1>8. /\ refill_valid' = refill_valid \cup (IF d.fill THEN {d.fadr % LINE} ELSE {})
      /\ refill_valid_r' = refill_valid /\ tag_save_lru' = tag_save_lru
  BY <1>2, <1>3, <1>7 DEF DcCycle, RefillBits
<1> QED BY <1>2, <1>4, <1>6, <1>8

\* The words that have come are the first ones of the burst.
LEMMA BurstOrder ==
  ASSUME OneWay, Quiet, On, ViewInv, CacheInv, refill
  PROVE  /\ RefillDone => \A o \in Offset : o \in refill_valid \/ o = dbus_adr % LINE
         /\ ~RefillDone => \E f \in Offset : \A o \in Offset :
               o \in refill_valid \cup {dbus_adr % LINE}
                 <=> Between(f, NextInLine(dbus_adr) % LINE, o)
         /\ refill_valid = {} => ~RefillDone
<1> DEFINE c == dbus_adr % LINE
           x == Succ(c, LINE)
<1>1. /\ c \in 0 .. LINE - 1 /\ Offset = 0 .. LINE - 1
      /\ NextInLine(dbus_adr) % LINE = x
  BY NatAddresses, AddressParts, NextParts DEF Offset
<1>2. RefillDone <=> x \in refill_valid
  BY <1>1 DEF RefillDone, refill_done
<1>3. PICK f \in Offset : \A o \in Offset : o \in refill_valid <=> Between(f, c, o)
  BY DEF CacheInv, OnInv, BurstInv
<1> HIDE DEF c, x
<1>4. /\ x \in 0 .. LINE - 1
      /\ ~Between(f, c, x) => \A o \in 0 .. LINE - 1 : Between(f, x, o) <=> Between(f, c, o) \/ o = c
      /\ Between(f, c, x) => \A o \in 0 .. LINE - 1 : Between(f, c, o) \/ o = c
  BY <1>1, <1>3, BetweenStep DEF OneWay, x
<1> QED BY <1>1, <1>2, <1>3, <1>4 DEF c

LEMMA BurstStep ==
  ASSUME OneWay, Quiet, On, ViewInv, CacheInv, NEW i, InputOK(i), Edge(i)
  PROVE  BurstInv'
<1> SUFFICES ASSUME refill' PROVE BurstInv'
  BY DEF BurstInv
<1> DEFINE s == Index(ctrl'.adr)
<1>1. QuietInv /\ OnInv
  BY DEF CacheInv
<1>2. s \in Sets
  BY NextAddress
<1>3. TagRead' = IF SNOOP THEN tag_ram'[s].way[0] ELSE TagAt(s)
  BY <1>2, TagMoves DEF TagAt
<1>4. CASE ~refill
  <2>1. /\ dc_state = "READ" /\ TagRead # Tag(ctrl.adr)
        /\ dbus_adr' = ctrl.adr /\ ctrl'.adr = ctrl.adr
        /\ refill_valid' = {} /\ refill_valid_r' = {} /\ tag_save_lru' = {0}
        /\ ctrl_op_lsu_load' /\ ~padv_ctrl' /\ ~access_done' /\ ~ctrl'.misaligned
    BY <1>4, BurstBegins
  <2>2. TagRead = TagAt(s)
    BY <1>1, <2>1 DEF OnInv, PortInv
  <2>3. tag_ram'[s].way[0] = TagAt(s)
    BY <1>2, <1>4, <2>1, TagMoves DEF TagAt
  <2>4. Missed'
    BY <1>3, <2>1, <2>2, <2>3 DEF Missed
  <2>5. \E f \in Offset : \A o \in Offset : o \in refill_valid' <=> Between(f, dbus_adr' % LINE, o)
    <3> DEFINE f == dbus_adr' % LINE
    <3>1. f \in Offset /\ Offset \subseteq Int
      BY <2>1, NatAddresses, AddressParts DEF Offset
    <3> HIDE DEF f
    <3>2. \A o \in Offset : ~Between(f, f, o)
      BY <3>1 DEF Between
    <3> QED BY <2>1, <3>1, <3>2 DEF f
  <2> QED BY <2>1, <2>4, <2>5 DEF BurstInv
<1>5. CASE refill
  <2>1. /\ ~(i.ack /\ RefillDone)
        /\ dbus_adr' = IF i.ack THEN NextInLine(dbus_adr) ELSE dbus_adr
        /\ refill_valid' = IF i.ack THEN refill_valid \cup {dbus_adr % LINE} ELSE refill_valid
        /\ refill_valid_r' = refill_valid /\ tag_save_lru' = tag_save_lru
    BY <1>5, BurstGoesOn
  <2>2. BurstInv /\ RefillInv
    BY <1>1 DEF OnInv
  <2>3. /\ dbus_adr \in Nat /\ dbus_adr % LINE \in Offset /\ Index(dbus_adr) \in Sets
        /\ Line(NextInLine(dbus_adr)) = Line(dbus_adr)
    BY NatAddresses, AddressParts, NextParts
  <2>4. refill_valid' \subseteq Offset /\ refill_valid_r' \subseteq refill_valid'
        /\ tag_save_lru' = {0}
    BY <1>5, <2>1, <2>2, <2>3 DEF BurstInv
  <2>5. \E f \in Offset : \A o \in Offset : o \in refill_valid' <=> Between(f, dbus_adr' % LINE, o)
    BY <1>5, <2>1, <2>2, BurstOrder DEF BurstInv
  \* Until the first word has come and been counted, the load waits.
  <2>6. ASSUME refill_valid_r = {}
        PROVE  /\ ctrl_op_lsu_load' /\ ctrl'.adr = ctrl.adr /\ ~ctrl'.misaligned
               /\ ~padv_ctrl' /\ ~access_done'
               /\ Line(ctrl.adr) = Line(dbus_adr) /\ s = Index(dbus_adr)
               /\ Tag(ctrl.adr) = Tag(dbus_adr)
    <3>1. Missed
      BY <1>5, <2>2, <2>6 DEF BurstInv
    <3>2. ~i.flush
      BY <1>1, <3>1, StageQuiet DEF Missed, ctrl_op_lsu
    <3>3. state # "WRITE"
      BY <1>5, ViewMoves
    <3>4. /\ ctrl_op_lsu_load' /\ ctrl'.adr = ctrl.adr /\ ~ctrl'.misaligned
          /\ ~padv_ctrl' /\ ~access_done'
      BY <2>6, <3>1, <3>2, <3>3, LoadWaits DEF Missed
    <3> QED BY <3>1, <3>4 DEF Missed, Index, Tag
  <2>7. ASSUME refill_valid_r' = {} PROVE Missed'
    <3>1. refill_valid = {} /\ refill_valid_r = {}
      BY <1>5, <2>1, <2>2, <2>7 DEF BurstInv
    <3>2. TagAt(s) # Tag(dbus_adr) /\ s = Index(dbus_adr) /\ Tag(ctrl.adr) = Tag(dbus_adr)
      BY <1>5, <2>2, <2>6, <3>1 DEF RefillInv
    <3>3. tag_ram'[s].way[0] = IF i.ack THEN Invalid ELSE TagAt(s)
      BY <1>2, <1>5, <2>1, <3>1, <3>2, TagMoves DEF TagAt
    <3>4. Tag(dbus_adr) # Invalid
      BY <2>3, AddressParts DEF Invalid
    <3>5. TagRead' # Tag(ctrl'.adr)
      BY <1>3, <2>6, <3>1, <3>2, <3>3, <3>4
    <3> QED BY <2>1, <2>3, <2>6, <3>1, <3>5 DEF Missed
  <2>8. ASSUME refill_valid_r' # {} PROVE TagRead' = tag_ram'[s].way[0]
    <3>1. refill_valid # {}
      BY <2>1, <2>8
    <3>2. tag_ram'[s].way[0] = TagAt(s)
      BY <1>2, <1>5, <2>1, <3>1, TagMoves DEF TagAt
    <3> QED BY <1>3, <3>2
  <2> QED BY <2>4, <2>5, <2>7, <2>8 DEF BurstInv, TagAt
<1> QED BY <1>4, <1>5

LEMMA RefillKept ==
  ASSUME OneWay, Quiet, On, ViewInv, CacheInv, NEW i, InputOK(i), Edge(i)
  PROVE  RefillInv'
<1> SUFFICES ASSUME refill' PROVE RefillInv'
  BY DEF RefillInv
<1>1. QuietInv /\ OnInv
  BY DEF CacheInv
<1>2. CASE ~refill
  <2>1. /\ dc_state = "READ" /\ TagRead # Tag(ctrl.adr)
        /\ dbus_adr' = ctrl.adr /\ refill_valid' = {}
    BY <1>2, BurstBegins
  <2>2. Index(ctrl.adr) \in Sets
    BY NatAddresses, AddressParts
  <2>3. TagAt(Index(ctrl.adr)) = TagRead
    BY <1>1, <2>1 DEF OnInv, PortInv
  <2>4. tag_ram'[Index(ctrl.adr)].way[0] = TagAt(Index(ctrl.adr))
    BY <1>2, <2>1, <2>2, TagMoves DEF TagAt
  <2> QED BY <2>1, <2>3, <2>4 DEF RefillInv, TagAt
<1>3. CASE refill
  <2> DEFINE s == Index(dbus_adr)
             c == dbus_adr % LINE
             word(o) == Line(dbus_adr) * LINE + o
  <2>1. /\ ~(i.ack /\ RefillDone)
        /\ dbus_adr' = IF i.ack THEN NextInLine(dbus_adr) ELSE dbus_adr
        /\ refill_valid' = IF i.ack THEN refill_valid \cup {c} ELSE refill_valid
    BY <1>3, BurstGoesOn
  <2>2. RefillInv /\ refill_valid \subseteq Offset
    BY <1>1, <1>3 DEF OnInv, BurstInv
  <2>3. /\ dbus_adr \in Adr /\ c \in Offset /\ s \in Sets /\ word(c) = dbus_adr
        /\ Line(NextInLine(dbus_adr)) = Line(dbus_adr)
    BY NatAddresses, AddressParts, NextParts
  <2>4. Line(dbus_adr)' = Line(dbus_adr) /\ Index(dbus_adr)' = s /\ Tag(dbus_adr)' = Tag(dbus_adr)
    BY <2>1, <2>3 DEF Index, Tag, Line
  <2>5. tag_ram'[s].way[0] = IF i.ack /\ refill_valid = {} THEN Invalid ELSE TagAt(s)
    BY <1>3, <2>1, <2>3, TagMoves DEF TagAt
  <2>6. /\ refill_valid' # {} => tag_ram'[s].way[0] = Invalid
        /\ refill_valid' = {} => tag_ram'[s].way[0] # Tag(dbus_adr)
    BY <1>3, <2>1, <2>2, <2>5 DEF RefillInv
  <2>7. View = mem /\ \A a \in Adr : View'[a] = View[a]
    BY <1>3, ViewMoves
  <2>8. ASSUME NEW o \in refill_valid'
        PROVE  word(o) \in Adr /\ way_ram'[0][<<s, o>>] = View'[word(o)]
    <3>1. o \in Offset
      BY <2>1, <2>2, <2>3
    <3>2. way_ram'[0][<<s, o>>] = IF i.ack /\ o = c THEN mem[dbus_adr] ELSE WordAt(s, o)
      BY <1>3, <2>3, <3>1, WordMoves DEF WordAt, refill
    <3>3. CASE i.ack /\ o = c
      BY <2>3, <2>7, <3>2, <3>3
    <3>4. CASE ~(i.ack /\ o = c)
      <4>1. o \in refill_valid
        BY <2>1, <3>4
      <4>2. word(o) \in Adr /\ WordAt(s, o) = View[word(o)]
        BY <1>3, <2>2, <4>1 DEF RefillInv
      <4> QED BY <2>7, <3>2, <3>4, <4>2
    <3> QED BY <3>3, <3>4
  <2> HIDE DEF s, c
  <2> QED BY <2>4, <2>6, <2>8 DEF RefillInv, TagAt, WordAt
<1> QED BY <1>2, <1>3

\* A store that leaves the stage is in the view, and in its line.
LEMMA StoreInLine ==
  ASSUME OneWay, Quiet, On, ViewInv, CacheInv, NEW i, InputOK(i), Edge(i),
         AlignedStore, i.advance
  PROVE  /\ View'[ctrl.adr] = ctrl.id
         /\ \A s \in Sets, o \in Offset :
              s = Index(ctrl.adr) /\ o = ctrl.adr % LINE /\ TagAt(s) = Tag(ctrl.adr)
                => WordAt(s, o)' = ctrl.id
<1>1. QuietInv /\ BusyInv /\ PortInv /\ StoredInv
  BY DEF CacheInv, OnInv
<1>2. /\ ctrl_op_lsu_store /\ ctrl_op_lsu /\ ~i.flush /\ ~except_align
      /\ i.write \/ access_done
      /\ dc_busy => ~i.write
      /\ ~decode_execute_halt
  BY <1>1, StoreMoves DEF AlignedStore
<1>3. View'[ctrl.adr] = ctrl.id
  <2>1. CASE i.write
    BY <2>1, ViewMoves
  <2>2. CASE ~i.write
    BY <1>1, <1>2, <2>2, ViewMoves, NatAddresses DEF StoredInv
  <2> QED BY <2>1, <2>2
<1>4. dc_state \in {"IDLE", "READ", "REFILL", "WRITE", "INVALIDATE"}
  BY DEF ViewInv, MachineInv, DcStates
<1>5. \/ dc_state = "WRITE" /\ Requests(i) /\ TagRead = TagAt(Index(ctrl.adr))
      \/ dc_state \in {"IDLE", "READ"} /\ ~write_pending
  <2>1. dc_state # "INVALIDATE"
    BY <1>1, <1>2 DEF BusyInv
  <2>2. dc_state = "WRITE" => Requests(i) /\ TagRead = TagAt(Index(ctrl.adr))
    BY <1>1, <1>2 DEF BusyInv, Requests, PortInv
  <2>3. dc_state # "WRITE" => ~write_pending
    <3> SUFFICES ASSUME dc_state # "WRITE", write_pending PROVE FALSE
      OBVIOUS
    <3>1. ~access_done /\ (dc_refill_r \/ refill)
      BY <1>1 DEF BusyInv, refill
    <3> QED BY <1>2, <3>1 DEF dc_busy
  <2>4. dc_state # "REFILL"
    BY <1>1, <2>3 DEF BusyInv, refill
  <2> QED BY <1>4, <2>1, <2>2, <2>3, <2>4
<1>6. ASSUME NEW s \in Sets, NEW o \in Offset,
             s = Index(ctrl.adr), o = ctrl.adr % LINE, TagAt(s) = Tag(ctrl.adr)
      PROVE  WordAt(s, o)' = ctrl.id
  <2>1. CASE dc_state = "WRITE" /\ Requests(i) /\ TagRead = TagAt(Index(ctrl.adr))
    BY <1>6, <2>1, WordMoves
  <2>2. CASE dc_state \in {"IDLE", "READ"} /\ ~write_pending
    <3>1. WordAt(s, o)' = WordAt(s, o)
      BY <2>2, WordMoves DEF refill
    <3> QED BY <1>1, <1>6, <2>2, <3>1 DEF StoredInv
  <2> QED BY <1>5, <2>1, <2>2
<1> QED BY <1>3, <1>6

LEMMA LineStep ==
  ASSUME OneWay, Quiet, On, ViewInv, CacheInv, NEW i, InputOK(i), Edge(i)
  PROVE  LineInv'
<1>1. QuietInv /\ BusyInv /\ PortInv /\ LineInv /\ BurstInv /\ RefillInv
  BY DEF CacheInv, OnInv
<1>2. /\ ctrl.adr \in Nat /\ Index(ctrl.adr) \in Sets /\ ctrl.adr % LINE \in Offset
      /\ AdrOf(Tag(ctrl.adr), Index(ctrl.adr), ctrl.adr % LINE) = ctrl.adr
  BY NatAddresses, AddressParts
<1>3. /\ dbus_adr \in Adr /\ Index(dbus_adr) \in Sets /\ dbus_adr % LINE \in Offset
      /\ Tag(dbus_adr) \in Nat
      /\ Line(dbus_adr) * LINE + (dbus_adr % LINE) = dbus_adr
      /\ \A o : AdrOf(Tag(dbus_adr), Index(dbus_adr), o) = Line(dbus_adr) * LINE + o
  BY NatAddresses, AddressParts
<1>4. SUFFICES ASSUME NEW s \in Sets, NEW o \in Offset, TagAt(s)' # Invalid
               PROVE  LET a == AdrOf(TagAt(s)', s, o)
                      IN  /\ TagAt(s)' \in Nat /\ a \in Adr
                          /\ \/ WordAt(s, o)' = View'[a]
                             \/ AlignedStore' /\ ~padv_ctrl' /\ a = ctrl'.adr
  BY DEF LineInv, AdrOf
\* The refill is complete.
<1>5. CASE refill /\ i.ack /\ RefillDone /\ s = Index(dbus_adr)
  <2>1. TagAt(s)' = Tag(dbus_adr)
    BY <1>5, TagMoves
  <2> DEFINE a == Line(dbus_adr) * LINE + o
  <2>2. AdrOf(TagAt(s)', s, o) = a
    BY <1>3, <1>5, <2>1
  <2>3. o \in refill_valid \/ o = dbus_adr % LINE
    BY <1>5, BurstOrder
  <2>4. View = mem /\ \A x \in Adr : View'[x] = View[x]
    BY <1>5, ViewMoves
  <2>5. WordAt(s, o)' = IF o = dbus_adr % LINE THEN mem[dbus_adr] ELSE WordAt(s, o)
    BY <1>5, WordMoves
  <2>6. CASE o = dbus_adr % LINE
    BY <1>3, <2>1, <2>2, <2>4, <2>5, <2>6
  <2>7. CASE o # dbus_adr % LINE
    <3>1. a \in Adr /\ WordAt(s, o) = View[a]
      BY <1>1, <1>5, <2>3, <2>7 DEF RefillInv
    <3> QED BY <1>3, <2>1, <2>2, <2>4, <2>5, <2>7, <3>1
  <2> QED BY <2>6, <2>7
\* The line was valid before.
<1>6. CASE ~(refill /\ i.ack /\ RefillDone /\ s = Index(dbus_adr))
  <2> DEFINE t == TagAt(s)
             a == AdrOf(t, s, o)
  <2>1. /\ TagAt(s)' = t /\ t # Invalid
        /\ refill /\ i.ack => s # Index(dbus_adr)
    <3>1. CASE refill /\ i.ack /\ s = Index(dbus_adr)
      BY <1>1, <1>4, <1>6, <3>1, TagMoves DEF RefillInv
    <3>2. CASE ~(refill /\ i.ack /\ s = Index(dbus_adr))
      <4>1. TagAt(s)' = t
        BY <1>4, <3>2, TagMoves
      <4> QED BY <1>4, <3>2, <4>1
    <3> QED BY <3>1, <3>2
  <2>2. /\ t \in Nat /\ a \in Adr
        /\ \/ WordAt(s, o) = View[a]
           \/ AlignedStore /\ ~padv_ctrl /\ a = ctrl.adr
    BY <1>1, <2>1 DEF LineInv
  <2>3. Tag(a) = t /\ Index(a) = s /\ a % LINE = o
    BY <2>2, AddressUnique
  <2>4. SUFFICES \/ WordAt(s, o)' = View'[a]
                 \/ AlignedStore' /\ ~padv_ctrl' /\ a = ctrl'.adr
    BY <2>1, <2>2
  <2> HIDE DEF a, t
  \* Only a store to the word itself changes it.
  <2>5. dc_state = "WRITE" /\ Requests(i) => AlignedStore /\ ~i.flush
    BY <1>1 DEF BusyInv, Requests, AlignedStore, except_align
  <2>6. ~(AlignedStore /\ ~i.flush /\ a = ctrl.adr) => WordAt(s, o)' = WordAt(s, o)
    <3>1. CASE refill /\ i.ack
      BY <2>1, <3>1, WordMoves
    <3>2. CASE dc_state = "WRITE" /\ Requests(i) /\ TagRead = Tag(ctrl.adr)
      <4>1. s = Index(ctrl.adr) /\ o = ctrl.adr % LINE => a = ctrl.adr
        BY <1>1, <1>2, <3>2 DEF PortInv, a, t
      <4> QED BY <2>5, <3>2, <4>1, WordMoves
    <3>3. CASE ~(refill /\ i.ack) /\ ~(dc_state = "WRITE" /\ Requests(i) /\ TagRead = Tag(ctrl.adr))
      BY <3>3, WordMoves
    <3> QED BY <3>1, <3>2, <3>3
  <2>7. i.write => AlignedStore /\ ~i.flush
    BY WritesStore DEF Quiet, ViewInv, AlignedStore
  <2>8. CASE AlignedStore /\ ~i.flush /\ a = ctrl.adr
    <3>1. CASE i.advance
      BY <2>3, <2>8, <3>1, StoreInLine DEF t
    <3>2. CASE ~i.advance
      <4>1. ~ctrl_except_align
        BY <1>1, <2>8, StageQuiet DEF AlignedStore, ctrl_op_lsu
      <4>2. ctrl'.op = ctrl.op /\ ctrl'.adr = ctrl.adr /\ ctrl'.misaligned = ctrl.misaligned
        BY <1>1, <2>8, <3>2, <4>1, StageTakes DEF Edge, ViewInv, LoadInv, QuietInv
      <4>3. ~padv_ctrl'
        BY <3>2 DEF Edge, PadvCtrl
      <4> QED BY <2>8, <4>2, <4>3 DEF AlignedStore, ctrl_op_lsu_store
    <3> QED BY <3>1, <3>2
  <2>9. CASE ~(AlignedStore /\ ~i.flush /\ a = ctrl.adr)
    <3>1. WordAt(s, o) = View[a]
      <4>1. AlignedStore /\ i.flush => padv_ctrl
        BY <1>1, StageQuiet DEF AlignedStore, ctrl_op_lsu
      <4> QED BY <2>2, <2>9, <4>1
    <3>2. View'[a] = View[a]
      BY <2>2, <2>7, <2>9, ViewMoves
    <3> QED BY <2>6, <2>9, <3>1, <3>2
  <2> QED BY <2>8, <2>9
<1> QED BY <1>5, <1>6
-----------------------------------------------------------------------------
LEMMA StoredStep ==
  ASSUME OneWay, Quiet, On, ViewInv, CacheInv, NEW i, InputOK(i), Edge(i)
  PROVE  StoredInv'
<1> DEFINE s == Index(ctrl'.adr)
           o == ctrl'.adr % LINE
<1>1. QuietInv /\ BusyInv /\ PortInv /\ StoredInv
  BY DEF CacheInv, OnInv
<1>2. /\ ctrl_op_lsu_store => /\ ctrl_op_lsu
                              /\ access_done' => ~i.advance /\ (i.write \/ access_done)
      /\ i.advance => ~access_done'
      /\ ~i.advance /\ ctrl_op_lsu_store' => /\ ctrl_op_lsu_store /\ ~i.flush
                                             /\ ctrl'.adr = ctrl.adr /\ ctrl'.id = ctrl.id
                                             /\ ctrl'.misaligned = ctrl.misaligned
  BY <1>1, StoreMoves
<1>3. s \in Sets /\ o \in Offset
  BY NextAddress
<1>4. ASSUME ctrl_op_lsu_store', access_done' PROVE View'[ctrl'.adr] = ctrl'.id
  <2>1. /\ ctrl_op_lsu_store /\ ctrl'.adr = ctrl.adr /\ ctrl'.id = ctrl.id
        /\ i.write \/ access_done
    BY <1>2, <1>4
  <2>2. CASE i.write
    BY <2>1, <2>2, ViewMoves
  <2>3. CASE ~i.write
    <3>1. View[ctrl.adr] = ctrl.id
      BY <1>1, <2>1, <2>3 DEF StoredInv
    <3> QED BY <2>1, <2>3, <3>1, ViewMoves, NatAddresses
  <2> QED BY <2>2, <2>3
<1>5. ASSUME AlignedStore', dc_state' \in {"IDLE", "READ"}, ~write_pending',
             tag_ram'[s].way[0] = Tag(ctrl'.adr)
      PROVE  way_ram'[0][<<s, o>>] = ctrl'.id
  <2>1. dc_state \in {"IDLE", "READ", "REFILL", "WRITE", "INVALIDATE"}
    BY DEF ViewInv, MachineInv, DcStates
  \* It has not entered in this cycle: the cache would write it or remember it.
  <2>2. ~i.advance
    <3> SUFFICES ASSUME i.advance PROVE FALSE
      OBVIOUS
    <3>1. Enters(i)
      BY <1>5 DEF Enters, AlignedStore
    <3>2. dc_state # "WRITE" => write_pending'
      BY <1>1, <3>1, OnStates
    <3>3. dc_state = "WRITE" /\ ~Requests(i)
      BY <1>1, <1>5, <3>1, <3>2, OnStates
    <3>4. (~ctrl_op_lsu /\ decode_execute_halt) \/ except_align
      <4>1. ~i.flush
        BY <1>1, StoreMoves
      <4> QED BY <1>1, <3>3, <4>1 DEF BusyInv, Requests, ctrl_op_lsu
    <3> QED BY <1>1, <3>4, StoreMoves
  <2>3. /\ AlignedStore /\ ctrl'.adr = ctrl.adr /\ ctrl'.id = ctrl.id
        /\ ~i.flush /\ ctrl_op_lsu /\ ~Enters(i) /\ ~except_align
    BY <1>2, <1>5, <2>2 DEF AlignedStore, Enters, except_align
  <2>4. CASE dc_state = "WRITE"
    <3>1. Requests(i) /\ TagRead = TagAt(s)
      BY <1>1, <2>3, <2>4 DEF BusyInv, Requests, PortInv
    <3>2. tag_ram'[s].way[0] = TagAt(s)
      BY <1>3, <2>4, TagMoves DEF TagAt, refill
    <3> QED BY <1>3, <1>5, <2>3, <2>4, <3>1, <3>2, WordMoves DEF WordAt
  <2>5. CASE dc_state \in {"IDLE", "READ"} /\ ~write_pending
    <3>1. TagAt(s) = Tag(ctrl.adr)
      <4>1. tag_ram'[s].way[0] = TagAt(s)
        BY <1>3, <2>5, TagMoves DEF TagAt, refill
      <4> QED BY <1>5, <2>3, <4>1
    <3>2. WordAt(s, o) = ctrl.id
      BY <1>1, <2>3, <2>5, <3>1 DEF StoredInv
    <3>3. way_ram'[0][<<s, o>>] = WordAt(s, o)
      BY <1>3, <2>5, WordMoves DEF WordAt, refill
    <3> QED BY <2>3, <3>2, <3>3
  <2>6. CASE dc_state \in {"IDLE", "READ"} /\ write_pending
    <3>1. dc_state = "IDLE" /\ invalidate = {}
      BY <1>1, <2>3, <2>6, InvalidateWaits DEF BusyInv
    <3>2. dc_state' = "WRITE"
      BY <1>1, <2>6, <3>1, OnStates
    <3> QED BY <1>5, <3>2
  <2>7. CASE dc_state = "REFILL"
    <3>1. write_pending /\ ~access_done
      BY <1>1, <2>3, <2>7 DEF BusyInv, refill
    <3>2. Requests(i)
      BY <2>3, <3>1 DEF Requests
    <3> QED BY <1>1, <1>5, <2>7, <3>1, <3>2, OnStates
  <2>8. CASE dc_state = "INVALIDATE"
    BY <1>1, <2>3, <2>8 DEF BusyInv, AlignedStore
  <2> QED BY <2>1, <2>4, <2>5, <2>6, <2>7, <2>8
<1> QED BY <1>4, <1>5 DEF StoredInv, TagAt, WordAt

\* A cache that is off stays empty.
LEMMA OffStep ==
  ASSUME OneWay, Quiet, ~On, ViewInv, CacheInv, NEW i, InputOK(i), Edge(i)
  PROVE  ~On' /\ OffInv'
<1>1. QuietInv /\ OffInv
  BY DEF CacheInv
<1>2. CASE ~DCACHE
  <2>1. UNCHANGED dc_vars
    BY <1>2 DEF Edge, Caching
  <2>2. UNCHANGED <<tag_ram, tag_dout, dc_state>>
    BY <2>1 DEF dc_vars
  <2>3. OffInv'
    BY <1>1, <2>2 DEF OffInv, TagRead, TagAt, refill
  <2> QED BY <1>2, <2>3 DEF On
<1>3. CASE DCACHE
  <2> DEFINE d == Inputs(i)
  <2>1. ~dc_enable /\ ~dc_enable_r /\ ~dc_enable'
    BY <1>3, SwitchKept DEF On
  <2>2. DcCycle(d) /\ d.adr = ctrl'.adr /\ d.match = ctrl.adr
    BY <1>1, <1>3, NextStore DEF Edge, Caching, Inputs
  <2>3. ~snoop_hit
    BY <1>1, StageQuiet
  <2>4. ~hit(d)
    <3>1. Tag(ctrl.adr) # Invalid
      BY NatAddresses, AddressParts DEF Invalid
    <3> QED BY <1>1, <2>2, <3>1, HitsOneWay DEF OffInv
  <2>5. ~StartsRefill(d)
    <3> SUFFICES ASSUME StartsRefill(d) PROVE FALSE
      OBVIOUS
    <3>1. ctrl_op_lsu_load /\ ~ctrl_op_lsu_store /\ dc_access
      <4>1. dc_state = "READ" /\ dc_req(i.flush) /\ dc_refill_allowed(i)
        BY DEF StartsRefill, Inputs
      <4> QED BY <2>4, <4>1, MissWaits DEF Quiet
    <3> QED BY <2>1, <3>1 DEF dc_access
  <2> HIDE DEF d
  <2>6. dc_state \in DcStates /\ dc_state # "REFILL"
    BY <1>1 DEF OffInv, refill, ViewInv, MachineInv
  <2>7. ~refill'
    BY <2>2, <2>5, <2>6, CacheStates DEF refill
  <2>8. ASSUME NEW s \in Sets PROVE tag_ram'[s].way[0] = Invalid
    BY <1>1, <2>2, <2>3, <2>4, <2>6, TagsKept DEF OffInv, DcStates, TagAt
  <2>9. TagRead' = Invalid
    <3>1. Index(d.adr) \in Sets
      BY <2>2, NextAddress
    <3>2. TagRead' = IF SNOOP THEN tag_ram'[Index(d.adr)].way[0] ELSE TagAt(Index(d.adr))
      BY <2>2, <3>1, TagsAfter
    <3> QED BY <1>1, <2>8, <3>1, <3>2 DEF OffInv
  <2>10. OffInv'
    BY <2>7, <2>8, <2>9 DEF OffInv, TagAt
  <2> QED BY <2>1, <2>10 DEF On
<1> QED BY <1>2, <1>3, ConfigAssumption

\* A load that hits, or whose word the refill has brought, gets the word of the view.
LEMMA CachedWord ==
  ASSUME OneWay, Quiet, ViewInv, CacheInv, NEW i, InputOK(i), Edge(i), CachedLoad(i)
  PROVE  cpu_dat(Lookup(i.flush)) = View[ctrl.adr]
<1> DEFINE d == Lookup(i.flush)
           s == Index(ctrl.adr)
           o == ctrl.adr % LINE
<1>1. /\ ctrl_op_lsu_load /\ dc_access /\ ~ctrl_op_lsu_store /\ DCACHE
      /\ dc_req(i.flush)
  BY DEF CachedLoad, cpu_ack, Lookup, dc_req, dc_access, ctrl_op_lsu_load, ctrl_op_lsu_store
<1>2. On
  BY <1>1, SwitchKept DEF On, dc_access
<1>3. PortInv /\ LineInv /\ BurstInv /\ RefillInv
  BY <1>2 DEF CacheInv, OnInv
<1>4. /\ s \in Sets /\ o \in Offset /\ Tag(ctrl.adr) \in Nat
      /\ AdrOf(Tag(ctrl.adr), s, o) = ctrl.adr
      /\ Line(ctrl.adr) * LINE + o = ctrl.adr
  BY NatAddresses, AddressParts
<1>5. hit(d) <=> TagRead = Tag(ctrl.adr)
  BY HitsOneWay DEF Lookup
<1>6. WordAt(s, o) = View[ctrl.adr]
  <2>1. CASE refill_hit(d)
    <3>1. refill /\ o \in refill_valid_r /\ Line(ctrl.adr) = Line(dbus_adr)
      BY <2>1 DEF refill_hit, Lookup
    <3>2. o \in refill_valid /\ s = Index(dbus_adr)
      BY <1>3, <3>1 DEF BurstInv, Index
    <3>3. WordAt(Index(dbus_adr), o) = View[Line(dbus_adr) * LINE + o]
      BY <1>3, <3>1, <3>2 DEF RefillInv
    <3> QED BY <1>4, <3>1, <3>2, <3>3
  <2>2. CASE ~refill_hit(d)
    <3>1. dc_state \in {"READ", "REFILL"} /\ hit(d)
      BY <2>2 DEF CachedLoad, cpu_ack
    <3>2. TagRead = TagAt(s)
      <4>1. CASE dc_state = "READ"
        BY <1>3, <4>1 DEF PortInv
      <4>2. CASE dc_state = "REFILL"
        BY <1>3, <1>5, <3>1, <4>2 DEF BurstInv, refill, Missed
      <4> QED BY <3>1, <4>1, <4>2
    <3>3. TagAt(s) = Tag(ctrl.adr) /\ TagAt(s) # Invalid
      BY <1>4, <1>5, <3>1, <3>2 DEF Invalid
    <3>4. ~AlignedStore
      BY <1>1 DEF AlignedStore
    <3> QED BY <1>3, <1>4, <3>3, <3>4 DEF LineInv
  <2> QED BY <2>1, <2>2
<1>7. cpu_dat(d) = way_dout[0]
  <2> DEFINE drives == way_hit(d) \cup (IF refill_hit(d) THEN tag_save_lru ELSE {})
  <2>1. hit(d) \/ refill_hit(d)
    BY DEF CachedLoad, cpu_ack
  <2>2. way_hit(d) = IF hit(d) THEN {0} ELSE {}
    BY HitsOneWay DEF hit
  <2>3. refill_hit(d) => tag_save_lru = {0}
    BY <1>3 DEF refill_hit, BurstInv
  <2>4. drives = {0}
    BY <2>1, <2>2, <2>3
  <2>5. (CHOOSE w \in drives : \A v \in drives : v <= w) = 0
    BY <2>4
  <2> QED BY <2>4, <2>5 DEF cpu_dat
<1> QED BY <1>3, <1>6, <1>7 DEF PortInv
-----------------------------------------------------------------------------
(***************************************************************************)
(* The invariant, and the refinement.                                      *)
(***************************************************************************)
LEMMA InitCache == ASSUME OneWay, Init PROVE CacheInv
<1>1. Ways = {0}
  BY HitsOneWay
<1>2. /\ tag_dout = Empty /\ tag_ram = [s \in Sets |-> Empty]
      /\ way_ram = [w \in Ways |-> [x \in Sets \X Offset |-> Undefined]]
      /\ way_dout = [w \in Ways |-> Undefined]
      /\ dc_state = "IDLE" /\ ~write_pending
  BY DEF Init, DcInit
<1>3. Empty.way[0] = Invalid
  BY <1>1 DEF Empty
<1>4. TagRead = Invalid /\ \A s \in Sets : TagAt(s) = Invalid
  BY <1>2, <1>3 DEF TagRead, TagAt
<1>5. /\ way_ram[0] = [x \in Sets \X Offset |-> Undefined] /\ way_dout[0] = Undefined
  BY <1>1, <1>2
<1>6. ctrl.adr = 0 /\ ctrl.op = "other"
  BY DEF Init
<1>7. 0 \in Nat /\ Index(ctrl.adr) \in Sets /\ ctrl.adr % LINE \in Offset /\ Tag(ctrl.adr) \in Nat
  BY <1>6, AddressParts
<1>8. PortInv
  <2>1. way_ram[0] \in Words
    BY <1>5 DEF Words
  <2>2. <<Index(ctrl.adr), ctrl.adr % LINE>> \in Sets \X Offset
    BY <1>7
  <2>3. WordAt(Index(ctrl.adr), ctrl.adr % LINE) = Undefined
    BY <1>5, <2>2 DEF WordAt
  <2> QED BY <1>4, <1>5, <1>7, <2>1, <2>3 DEF PortInv
<1>9. LineInv
  BY <1>4 DEF LineInv
<1>10. ~ctrl_op_lsu_store /\ ~refill
  BY <1>2, <1>6 DEF ctrl_op_lsu_store, refill
<1>11. StoredInv /\ BusyInv /\ BurstInv /\ RefillInv
  BY <1>2, <1>10 DEF StoredInv, BusyInv, BurstInv, RefillInv, AlignedStore
<1>12. OffInv
  BY <1>4, <1>10 DEF OffInv
<1>13. QuietInv /\ ~log.unseen
  BY DEF Init, DcInit, QuietInv
<1> QED BY <1>8, <1>9, <1>11, <1>12, <1>13 DEF CacheInv, OnInv

LEMMA CacheStutters ==
  ASSUME CacheInv, UNCHANGED vars
  PROVE  CacheInv'
<1>1. UNCHANGED <<machine, status, dc_enable, dc_vars, pipeline, errors, log>>
  BY DEF vars, caching, bus
<1>2. View' = View
  BY ViewStutters
<1>3. UNCHANGED <<dc_state, write_pending, refill_valid, refill_valid_r, tag_save_lru,
                  snoop_check, tag_ram, tag_dout, way_ram, way_dout>>
  BY <1>1 DEF dc_vars
<1>4. UNCHANGED <<state, dbus_adr, write_done, dbus_err, access_done, except_dbus,
                  store_buffer_err, ctrl, padv_ctrl, ctrl_except_dbus, ctrl_except_align,
                  ctrl_stage_exceptions, exception_r, decode_execute_halt>>
  BY <1>1 DEF machine, status, pipeline
<1>5. UNCHANGED dc_refill_r
  BY DEF vars, caching
<1>6. QuietInv => QuietInv'
  BY <1>1, <1>3, <1>4 DEF QuietInv, except_align, ctrl_op_lsu, ctrl_op_lsu_load, ctrl_op_lsu_store
<1>7. BusyInv => BusyInv'
  BY <1>3, <1>4, <1>5 DEF BusyInv, AlignedStore, ctrl_op_lsu, ctrl_op_lsu_load, ctrl_op_lsu_store, refill
<1>8. PortInv => PortInv'
  BY <1>3, <1>4 DEF PortInv, WordAt, TagRead, TagAt
<1>9. LineInv => LineInv'
  BY <1>2, <1>3, <1>4 DEF LineInv, WordAt, TagAt, AdrOf, AlignedStore, ctrl_op_lsu_store
<1>10. StoredInv => StoredInv'
  BY <1>2, <1>3, <1>4 DEF StoredInv, WordAt, TagAt, AlignedStore, ctrl_op_lsu_store
<1>11. BurstInv => BurstInv'
  BY <1>3, <1>4 DEF BurstInv, Missed, TagRead, TagAt, refill, ctrl_op_lsu_load
<1>12. RefillInv => RefillInv'
  BY <1>2, <1>3, <1>4 DEF RefillInv, WordAt, TagAt, refill
<1>13. OffInv => OffInv'
  BY <1>3 DEF OffInv, TagRead, TagAt, refill
<1> QED BY <1>1, <1>6, <1>7, <1>8, <1>9, <1>10, <1>11, <1>12, <1>13 DEF CacheInv, OnInv, On

LEMMA CacheKept ==
  ASSUME OneWay, Quiet, ViewInv, CacheInv, [Next]_vars
  PROVE  CacheInv'
<1>1. CASE Next
  <2>1. PICK answer \in Answers, trap \in Traps, taken \in Takes :
           \E snoop \in Snoops(answer), next \in Nexts :
              LET i == Given(answer, snoop, next, trap, taken)
              IN  InputOK(i) /\ Edge(i)
    BY <1>1, StepOfNext DEF ViewInv, StoreInv
  <2>2. PICK snoop \in Snoops(answer), next \in Nexts :
           LET i == Given(answer, snoop, next, trap, taken)
           IN  InputOK(i) /\ Edge(i)
    BY <2>1
  <2>3. QuietInv' /\ ~log'.unseen
    BY <2>2, QuietStep, PromiseHolds DEF CacheInv
  <2>4. On => OnInv'
    BY <2>2, BusyStep, PortStep, LineStep, StoredStep, BurstStep, RefillKept
    DEF CacheInv, OnInv
  <2>5. On => On'
    BY <2>2, OnInputs DEF CacheInv
  <2>6. ~On => ~On' /\ OffInv'
    BY <2>2, OffStep
  <2> QED BY <2>3, <2>4, <2>5, <2>6 DEF CacheInv
<1>2. CASE UNCHANGED vars
  BY <1>2, CacheStutters
<1> QED BY <1>1, <1>2

LEMMA CachedStepIsMemoryStep ==
  ASSUME OneWay, Quiet, ViewInv, CacheInv, [Next]_vars
  PROVE  [Memory_!MemNext]_<<View, log.stored, log.result, log.unseen>>
<1>1. CASE Next
  <2>1. PICK answer \in Answers, trap \in Traps, taken \in Takes :
           \E snoop \in Snoops(answer), next \in Nexts :
              LET i == Given(answer, snoop, next, trap, taken)
              IN  InputOK(i) /\ Edge(i)
    BY <1>1, StepOfNext DEF ViewInv, StoreInv
  <2>2. PICK snoop \in Snoops(answer), next \in Nexts :
           LET i == Given(answer, snoop, next, trap, taken)
           IN  InputOK(i) /\ Edge(i)
    BY <2>1
  <2> QED BY <2>2, CachedWord, PromiseKept DEF Quiet
<1>2. CASE UNCHANGED vars
  BY <1>2, ViewStutters
<1> QED BY <1>1, <1>2

\* The invariant of the cache: what it holds, how a refill goes on, and which of
\* its states the store in the control stage can meet (mor1kx_dcache.v:288-436).
THEOREM CacheInvariance == ASSUME OneWay, Quiet
                           PROVE  Spec => []CacheInv
<1>1. Spec => []ViewInv
  BY ViewInvariance DEF Quiet
<1>2. Init => CacheInv
  BY InitCache
<1>3. ViewInv /\ CacheInv /\ [Next]_vars => CacheInv'
  BY CacheKept
<1> QED BY <1>1, <1>2, <1>3, PTL DEF Spec

\* A word in a valid line of the cache is the word that the program would read
\* from memory behind the store buffer, whatever line a refill replaces and whatever
\* exceptions flush the loads and stores that started it.
THEOREM LinesAreCurrent == ASSUME OneWay, Quiet
                           PROVE  Spec => []LinesCurrent
<1>1. CacheInv => LinesCurrent
  <2> SUFFICES ASSUME CacheInv, NEW w \in Ways, NEW s \in Sets, NEW o \in Offset,
                      tag_ram[s].way[w] # Invalid
               PROVE  \/ ctrl_op_lsu_store /\ AddressOf(w, s, o) = ctrl.adr
                      \/ way_ram[w][<<s, o>>] = View[AddressOf(w, s, o)]
    BY DEF LinesCurrent
  <2>1. w = 0
    BY HitsOneWay
  <2>2. TagAt(s) # Invalid /\ AddressOf(w, s, o) = AdrOf(TagAt(s), s, o)
    BY <2>1 DEF TagAt, AddressOf, AdrOf
  <2>3. On /\ LineInv
    BY <2>2 DEF CacheInv, OffInv, OnInv
  <2> QED BY <2>1, <2>2, <2>3 DEF LineInv, WordAt, AlignedStore
<1> QED BY <1>1, CacheInvariance, PTL

\* With the cache, too, the program has one sequential memory: a load that the
\* cache answers, from a line or from the refill that is still under way, reads what
\* the program stored last (:311-495, 577-664; mor1kx_dcache.v:151-436).
THEOREM OneCachedMemory == ASSUME OneWay, Quiet
                           PROVE  Spec => ImplementsMemory
<1>1. Spec => []ViewInv
  BY ViewInvariance DEF Quiet
<1>2. Spec => []CacheInv
  BY CacheInvariance
<1>3. Init => Memory_!MemInit
  BY InitView
<1>4. ViewInv /\ CacheInv /\ [Next]_vars
        => [Memory_!MemNext]_<<View, log.stored, log.result, log.unseen>>
  BY CachedStepIsMemoryStep
<1> QED BY <1>1, <1>2, <1>3, <1>4, PTL DEF Spec, ImplementsMemory, Memory_!MemSpec
=============================================================================
