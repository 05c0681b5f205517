-------------------------- MODULE InstructionCache --------------------------
(***************************************************************************)
(* The instruction cache, mor1kx_icache.v, with one way and without        *)
(* invalidation by software; CacheLru has the history that several ways    *)
(* need.  One step is one clock cycle.  A word is the address it was read  *)
(* from, a tag is Invalid or the tag of a line.  The parameters are the    *)
(* ports:                                                                  *)
(*                                                                         *)
(*   match       cpu_adr_match_i, the address that is fetched              *)
(*   adr         cpu_adr_i, the address that is fetched next               *)
(*   req         cpu_req_i                                                 *)
(*   wradr, we   the address on the bus, and whether its word has come     *)
(*   err         ic_imem_err_i                                             *)
(***************************************************************************)
LOCAL INSTANCE Integers

CONSTANTS SETS, LINE   \* sets, words in a line

ASSUME SizesAssumption == SETS \in Nat \ {0} /\ LINE \in Nat \ {0, 1}

VARIABLES ic_state, refill_valid, refill_valid_r, tag_ram, way_ram, tag_dout, way_dout

ic_vars == <<ic_state, refill_valid, refill_valid_r, tag_ram, way_ram, tag_dout, way_dout>>

Line(a)  == a \div LINE
Index(a) == Line(a) % SETS
Tag(a)   == Line(a) \div SETS
Place(a) == a % (SETS * LINE)
Invalid  == -1

\* Bursts wrap within the line.
NextInLine(a) == Line(a) * LINE + ((a + 1) % LINE)
-----------------------------------------------------------------------------
hit(match)         == tag_dout # Invalid /\ tag_dout = Tag(match)
ic_refill          == ic_state = "REFILL"
refill_done(wradr) == NextInLine(wradr) % LINE \in refill_valid

\* A word of the line that is being refilled may be used as soon as it is there.
\* Mutant: a word of the same place in another line is taken for it.
refill_hit_AnyLine(match, wradr) == ic_refill /\ match % LINE \in refill_valid_r
refill_hit(match, wradr) == /\ ic_refill /\ match % LINE \in refill_valid_r
                            /\ Line(match) = Line(wradr)

cpu_ack(match, wradr)  == (ic_state = "READ" /\ hit(match)) \/ refill_hit(match, wradr)
StartsRefill(match, req) == ic_state = "READ" /\ req /\ ~hit(match)
refill_req(match, req) == StartsRefill(match, req) \/ ic_refill

IcInit == /\ ic_state = "IDLE" /\ refill_valid = {} /\ refill_valid_r = {}
          /\ tag_ram = [s \in 0 .. SETS - 1 |-> Invalid] /\ tag_dout = Invalid
          /\ way_ram = [p \in 0 .. SETS * LINE - 1 |-> Invalid] /\ way_dout = Invalid

IcState(match, req, wradr, we, err) ==
    ic_state' = IF err THEN "IDLE"
                ELSE CASE ic_state = "IDLE" -> IF req THEN "READ" ELSE "IDLE"
                       [] ic_state = "READ" -> IF StartsRefill(match, req)
                                               THEN "REFILL" ELSE "READ"
                       [] ic_state = "REFILL" -> IF we /\ refill_done(wradr)
                                                 THEN "IDLE" ELSE "REFILL"

RefillBits(match, req, wradr, we) ==
    /\ refill_valid' =
           IF StartsRefill(match, req) THEN {}
           ELSE refill_valid \cup (IF ic_refill /\ we THEN {wradr % LINE} ELSE {})
    /\ refill_valid_r' = IF StartsRefill(match, req) THEN {} ELSE refill_valid

\* The first word of a refill invalidates the line it replaces, the last one
\* makes the new one valid.
NewTag(wradr) == IF refill_done(wradr) THEN Tag(wradr)
                 ELSE IF refill_valid = {} THEN Invalid ELSE tag_ram[Index(wradr)]

\* A hit writes back what was read for it, with the history.
TagWrite(match, wradr, we) ==
    IF ic_state = "READ" /\ hit(match) THEN [tag_ram EXCEPT ![Index(match)] = tag_dout]
    ELSE IF ic_refill /\ we THEN [tag_ram EXCEPT ![Index(wradr)] = NewTag(wradr)]
    ELSE tag_ram

Memories(match, adr, wradr, we) ==
    /\ tag_ram' = TagWrite(match, wradr, we)
    /\ way_ram' = IF ic_refill /\ we THEN [way_ram EXCEPT ![Place(wradr)] = wradr]
                  ELSE way_ram
    /\ tag_dout' = tag_ram[Index(adr)]
    /\ way_dout' = way_ram[Place(adr)]

IcCycle(match, adr, req, wradr, we, err) ==
    /\ IcState(match, req, wradr, we, err)
    /\ RefillBits(match, req, wradr, we)
    /\ Memories(match, adr, wradr, we)
=============================================================================
