---------------------------- MODULE RepairLoop -----------------------------
(***************************************************************************)
(* What the test-generation agent promises of one question after another:  *)
(* a conversation with the assistant is opened before the first attempt;   *)
(* at most MaxAttempts programs are asked for; an attempt is made only in  *)
(* an open conversation and only while no earlier one triggered the event; *)
(* and the conversation is closed, exactly once, before the question ends. *)
(* Only a crash abandons a conversation.                                   *)
(***************************************************************************)
EXTENDS Naturals

CONSTANT MaxAttempts

VARIABLES phase, attempts, open, verdict

loop == <<phase, attempts, open, verdict>>

LoopTypeOK ==
  /\ phase \in {"idle", "active", "down"}
  /\ attempts \in 0 .. MaxAttempts
  /\ open \in BOOLEAN
  /\ verdict \in {"no", "yes"}

AtRest(p) == phase' = p /\ attempts' = 0 /\ open' = FALSE /\ verdict' = "no"

LoopInit == phase = "idle" /\ attempts = 0 /\ open = FALSE /\ verdict = "no"

Begin ==
  /\ phase = "idle" /\ phase' = "active"
  /\ UNCHANGED <<attempts, open, verdict>>

Open ==
  /\ phase = "active" /\ ~open /\ attempts = 0
  /\ open' = TRUE
  /\ UNCHANGED <<phase, attempts, verdict>>

\* The last attempt closes the conversation.
Attempt ==
  /\ phase = "active" /\ open /\ verdict = "no"
  /\ attempts < MaxAttempts
  /\ attempts' = attempts + 1
  /\ open' = (attempts' < MaxAttempts)
  /\ UNCHANGED <<phase, verdict>>

Succeed ==
  /\ phase = "active" /\ attempts > 0 /\ verdict = "no"
  /\ verdict' = "yes" /\ open' = FALSE
  /\ UNCHANGED <<phase, attempts>>

End ==
  /\ phase = "active" /\ ~open
  /\ verdict = "yes" \/ attempts \in {0, MaxAttempts}
  /\ AtRest("idle")

Abort == phase = "active" /\ AtRest("down")

\* A process that died before its first step restarts from rest.
Revive == phase # "active" /\ phase' \in {"idle", "down"}
          /\ UNCHANGED <<attempts, open, verdict>>

LoopNext == Begin \/ Open \/ Attempt \/ Succeed \/ End \/ Abort \/ Revive

LoopSpec == LoopInit /\ [][LoopNext]_loop
=============================================================================
