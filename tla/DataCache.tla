------------------------------ MODULE DataCache -----------------------------
(***************************************************************************)
(* The data cache, mor1kx_dcache.v, with its tag and way memories.  One    *)
(* step is one clock cycle; the record d holds its inputs:                 *)
(*                                                                         *)
(*   access, enable   the load store unit uses the cache; SR[DCE]          *)
(*   req, we          cpu_req_i (for the instruction in the control stage) *)
(*                    and cpu_we_i (a store that is about to enter it)     *)
(*   adr, match       cpu_adr_i and cpu_adr_match_i                        *)
(*   dat              the word a store writes                              *)
(*   allowed, fill    refill_allowed_i, refill_we_i                        *)
(*   fadr, fdat       refill_adr_i and refill_dat_i                        *)
(*   err, snoop       dc_dbus_err_i; the address another master writes     *)
(*   invalidate       a write to DCBFR or DCBIR (sets of at most one)      *)
(*                                                                         *)
(* Addresses are word addresses.  A way entry of the tag memory is the tag *)
(* it holds or Invalid, a one-hot vector of ways is a set of ways.         *)
(***************************************************************************)
LOCAL INSTANCE Integers

CONSTANTS WAYS, SETS, LINE,  \* ways, sets, words in a line (8 or 4)
          SNOOP,             \* OPTION_DCACHE_SNOOP # "NONE"
          WiredLru           \* see lru_wired

VARIABLES
  lru_wired,   \* whether the instance of the LRU module is there: it is
               \* commented out (lines 707-754) and its outputs are undriven
  dc_state, write_pending, refill_valid, refill_valid_r,
  tag_save_lru, tag_way_save, invalidate_adr,
  snoop_check, snoop_windex, snoop_tag,
  tag_ram, tag_dout, snoop_dout,   \* tag memory and its two read ports
  way_ram, way_dout                \* way memories and their read ports

dc_vars == <<lru_wired, dc_state, write_pending, refill_valid, refill_valid_r,
             tag_save_lru, tag_way_save, invalidate_adr, snoop_check,
             snoop_windex, snoop_tag, tag_ram, tag_dout, snoop_dout,
             way_ram, way_dout>>

Ways    == 0 .. WAYS - 1
Sets    == 0 .. SETS - 1
Offset  == 0 .. LINE - 1
Invalid == -1

Line(a)  == a \div LINE
Index(a) == Line(a) % SETS
Tag(a)   == Line(a) \div SETS

\* Bursts wrap within the line.
NextInLine(a) == Line(a) * LINE + ((a + 1) % LINE)

\* What a wire carries that nothing drives, and a word no one can rely on.
Undefined == -99

Lru(h) == INSTANCE CacheLru WITH NUMWAYS <- WAYS, MaxAccesses <- 0,
             history <- h, stamp <- [w \in 0 .. WAYS - 1 |-> 0], accesses <- 0

NoHistory == [p \in {q \in Ways \X Ways : q[1] < q[2]} |-> FALSE]
Empty     == [way |-> [w \in Ways |-> Invalid], lru |-> NoHistory]
-----------------------------------------------------------------------------
(***************************************************************************)
(* Wires.                                                                  *)
(***************************************************************************)
way_hit(d) == {w \in Ways : tag_dout.way[w] = Tag(d.match)}
hit(d)     == way_hit(d) # {}

snoop_way_hit == {w \in Ways : snoop_dout.way[w] = snoop_tag}
snoop_hit     == SNOOP /\ snoop_check /\ snoop_way_hit # {}

refill      == dc_state = "REFILL"
refill_done(d) == NextInLine(d.fadr) % LINE \in refill_valid

refill_hit(d) == /\ d.match % LINE \in refill_valid_r
                 /\ Line(d.match) = Line(d.fadr)
                 /\ refill /\ ~write_pending

cpu_ack(d) == /\ \/ dc_state \in {"READ", "REFILL"} /\ hit(d) /\ ~write_pending
                 \/ refill_hit(d)
              /\ d.req /\ ~snoop_hit

\* The last way that hits or is being refilled drives the port.
cpu_dat(d) == LET drives == way_hit(d) \cup (IF refill_hit(d) THEN tag_save_lru ELSE {})
              IN  IF drives = {} THEN Undefined
                  ELSE way_dout[CHOOSE w \in drives : \A v \in drives : v <= w]

refill_req(d) == \/ dc_state = "READ" /\ d.req /\ ~hit(d) /\ ~write_pending /\ d.allowed
                 \/ refill

\* The way to replace.  An undriven vector selects none.
current_lru == IF lru_wired THEN Lru(tag_dout.lru)!lru_pre ELSE {}
next_lru_history(access) == IF lru_wired THEN Lru(tag_dout.lru)!update(access)
                            ELSE tag_dout.lru
-----------------------------------------------------------------------------
(***************************************************************************)
(* The state machine.  An error of the bus, one cycle old, comes first and *)
(* freezes the registers of the block.                                     *)
(***************************************************************************)
\* Mutant: also when the line is there.
StartsRefill_OnHit(d) == /\ dc_state = "READ" /\ d.access
                         /\ ~d.we /\ ~write_pending /\ d.req /\ d.allowed
StartsRefill(d) == /\ dc_state = "READ"
                   /\ d.access \/ (d.we /\ d.enable)
                   /\ ~d.we /\ ~write_pending
                   /\ ~hit(d) /\ d.req /\ d.allowed

FromIdle(d) == IF d.invalidate # {} THEN "INVALIDATE"
               ELSE IF d.we \/ write_pending THEN "WRITE"
               ELSE IF d.req THEN "READ" ELSE "IDLE"

FromRead(d) == IF d.access \/ (d.we /\ d.enable)
               THEN IF d.we \/ write_pending THEN "WRITE"
                    ELSE IF StartsRefill(d) THEN "REFILL"
                    ELSE IF d.invalidate # {} THEN "IDLE" ELSE "READ"
               ELSE IF ~d.enable \/ d.invalidate # {} THEN "IDLE" ELSE "READ"

FromRefill(d) == IF snoop_hit \/ (d.fill /\ refill_done(d)) THEN "IDLE" ELSE "REFILL"

LeavesWrite(d) == (~d.access \/ ~d.req \/ ~d.we) /\ ~snoop_hit

FromInvalidate(d) == IF d.we THEN "WRITE"
                     ELSE IF d.invalidate # {} THEN "INVALIDATE" ELSE "IDLE"

StateMachine(d) ==
    dc_state' = IF d.err THEN "IDLE"
                ELSE CASE dc_state = "IDLE"       -> FromIdle(d)
                       [] dc_state = "READ"       -> FromRead(d)
                       [] dc_state = "REFILL"     -> FromRefill(d)
                       [] dc_state = "WRITE"      -> IF LeavesWrite(d) THEN "IDLE" ELSE "WRITE"
                       [] dc_state = "INVALIDATE" -> FromInvalidate(d)

\* A store that comes while the cache is busy is remembered.
\* Mutant: it is not.
PendingWrite_Forgets(d) == write_pending' = FALSE
PendingWrite(d) ==
    write_pending' = IF d.err \/ (dc_state = "WRITE" /\ LeavesWrite(d)) THEN FALSE
                     ELSE d.we \/ (d.req /\ write_pending)

RefillBits(d) ==
    LET restarts == StartsRefill(d) \/ (refill /\ snoop_hit)
    IN  /\ refill_valid' = IF d.err THEN refill_valid
                           ELSE IF restarts THEN {}
                           ELSE refill_valid \cup
                                (IF refill /\ d.fill THEN {d.fadr % LINE} ELSE {})
        /\ refill_valid_r' = IF d.err THEN refill_valid_r
                             ELSE IF restarts THEN {} ELSE refill_valid
        /\ tag_save_lru' = IF StartsRefill(d) /\ ~d.err
                           THEN IF WAYS = 1 THEN {0} ELSE current_lru
                           ELSE tag_save_lru
        /\ tag_way_save' = IF StartsRefill(d) /\ ~d.err THEN tag_dout.way
                           ELSE tag_way_save

InvalidateAddress(d) ==
    invalidate_adr' = IF ~d.err /\ dc_state \in {"IDLE", "INVALIDATE"} /\ d.invalidate # {}
                         /\ ~(dc_state = "INVALIDATE" /\ d.we)
                      THEN CHOOSE s \in d.invalidate : TRUE ELSE invalidate_adr

SnoopRegisters(d) ==
    LET a == CHOOSE x \in d.snoop : TRUE
    IN  IF d.err THEN UNCHANGED <<snoop_check, snoop_windex, snoop_tag>>
        ELSE /\ snoop_check' = (d.snoop # {})
             /\ snoop_windex' = IF d.snoop # {} THEN Index(a) ELSE snoop_windex
             /\ snoop_tag' = IF d.snoop # {} THEN Tag(a) ELSE snoop_tag
-----------------------------------------------------------------------------
(***************************************************************************)
(* The memories.  TagWrite is the set of at most one write of a cycle: a   *)
(* snoop hit has precedence over what the state would write.               *)
(***************************************************************************)
Victims(ways, tag) == [w \in Ways |-> IF w \in tag_save_lru THEN tag ELSE ways[w]]

RefillTag(d) ==
    IF refill_done(d)
    THEN {[index |-> Index(d.fadr),
           entry |-> [way |-> Victims(tag_way_save, Tag(d.fadr)),
                      lru |-> next_lru_history(tag_save_lru)]]}
    ELSE IF refill_valid = {}
    THEN {[index |-> Index(d.fadr),
           entry |-> [way |-> Victims(tag_dout.way, Invalid), lru |-> tag_dout.lru]]}
    ELSE {}

TagWrite(d) ==
    CASE snoop_hit ->
           {[index |-> snoop_windex,
             entry |-> [way |-> [w \in Ways |-> IF w \in snoop_way_hit THEN Invalid
                                                ELSE snoop_dout.way[w]],
                        lru |-> tag_dout.lru]]}
      [] ~snoop_hit /\ dc_state = "READ" /\ hit(d) /\ d.req ->
           {[index |-> Index(d.match),
             entry |-> [way |-> tag_dout.way, lru |-> next_lru_history(way_hit(d))]]}
      [] ~snoop_hit /\ dc_state = "WRITE" /\ hit(d) /\ d.req ->
           {[index |-> Index(d.match),
             entry |-> [way |-> tag_dout.way, lru |-> next_lru_history({})]]}
      [] ~snoop_hit /\ refill /\ d.fill -> RefillTag(d)
      [] ~snoop_hit /\ dc_state = "INVALIDATE" ->
           {[index |-> invalidate_adr, entry |-> Empty]}
      [] OTHER -> {}

invalidate_ack == dc_state = "INVALIDATE" /\ ~snoop_hit

\* Mutant: a store that hits does not reach the cache.
WaysWritten_Around(d) == IF ~snoop_hit /\ refill /\ d.fill THEN tag_save_lru ELSE {}
WaysWritten(d) == CASE snoop_hit -> {}
                    [] ~snoop_hit /\ dc_state = "WRITE" /\ d.req -> way_hit(d)
                    [] ~snoop_hit /\ refill /\ d.fill -> tag_save_lru
                    [] OTHER -> {}

Memories(d) ==
    LET writes == TagWrite(d)
        tags   == [s \in Sets |-> IF \E x \in writes : x.index = s
                                  THEN (CHOOSE x \in writes : TRUE).entry ELSE tag_ram[s]]
        waddr  == IF dc_state = "WRITE" THEN d.match ELSE d.fadr
        wdat   == IF dc_state = "WRITE" THEN d.dat ELSE d.fdat
        ways   == [w \in Ways |-> IF w \in WaysWritten(d)
                                  THEN [way_ram[w] EXCEPT ![<<Index(waddr), waddr % LINE>>] = wdat]
                                  ELSE way_ram[w]]
    IN  /\ tag_ram' = tags
        /\ tag_dout' = IF SNOOP THEN tags[Index(d.adr)] ELSE tag_ram[Index(d.adr)]
        /\ snoop_dout' = IF d.snoop = {} THEN snoop_dout
                         ELSE tags[Index(CHOOSE a \in d.snoop : TRUE)]
        /\ way_ram' = ways
        /\ way_dout' = [w \in Ways |-> ways[w][<<Index(d.adr), d.adr % LINE>>]]

\* The boot code has invalidated every set (mor1kx_dcache.v does not reset
\* its memories).
DcInit == /\ lru_wired \in WiredLru
          /\ dc_state = "IDLE" /\ write_pending = FALSE
          /\ refill_valid = {} /\ refill_valid_r = {} /\ tag_save_lru = {}
          /\ tag_way_save = Empty.way /\ invalidate_adr = 0
          /\ snoop_check = FALSE /\ snoop_windex = 0 /\ snoop_tag = Invalid
          /\ tag_ram = [s \in Sets |-> Empty] /\ tag_dout = Empty /\ snoop_dout = Empty
          /\ way_ram = [w \in Ways |-> [x \in Sets \X Offset |-> Undefined]]
          /\ way_dout = [w \in Ways |-> Undefined]

DcCycle(d) == /\ StateMachine(d) /\ PendingWrite(d) /\ RefillBits(d)
              /\ InvalidateAddress(d) /\ SnoopRegisters(d) /\ Memories(d)
              /\ UNCHANGED lru_wired
=============================================================================
