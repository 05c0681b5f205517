------------------------------ MODULE TickTimer ------------------------------
(***************************************************************************)
(* The tick timer, mor1kx_ticktimer.v.  One step is one clock cycle; write *)
(* is the SPR that the control stage writes in it, or NoWrite.             *)
(***************************************************************************)
LOCAL INSTANCE Integers

CONSTANTS WRAP,    \* values of the counter TTCR, 2^32 in the code
          PERIOD   \* values of the period TP it is compared with, 2^28

ASSUME TimerAssumption == WRAP \in Nat \ {0} /\ PERIOD \in 1 .. WRAP

VARIABLES spr_ttmr,   \* mode, tp, ie and ip: bits 31-30, 27-0, 29 and 28
          spr_ttcr

tt_vars == <<spr_ttmr, spr_ttcr>>

NoWrite == [spr |-> "none"]

ttcr_match == spr_ttcr % PERIOD = spr_ttmr.tp

\* Modes 0 to 3: off, restarts on a match, stops at a match, runs on.
ttcr_clear == spr_ttmr.mode = 1 /\ ttcr_match
ttcr_run   == (spr_ttmr.mode # 0 /\ ~ttcr_match) \/ spr_ttmr.mode = 3

TimerInit == /\ spr_ttmr = [mode |-> 0, tp |-> 0, ie |-> FALSE, ip |-> FALSE]
             /\ spr_ttcr = 0

\* A write comes before the match.
TimerCycle(write) ==
    /\ spr_ttmr' = IF write.spr = "TTMR" THEN write.val
                   ELSE [spr_ttmr EXCEPT !.ip = @ \/ (ttcr_match /\ spr_ttmr.ie)]
    /\ spr_ttcr' = IF write.spr = "TTCR" THEN write.val
                   ELSE IF ttcr_clear THEN 0
                   ELSE IF ttcr_run THEN (spr_ttcr + 1) % WRAP ELSE spr_ttcr
=============================================================================
