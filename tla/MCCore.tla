------------------------------- MODULE MCCore -------------------------------
(***************************************************************************)
(* Programs for Core.  Every program sets its masks and its timer, enables *)
(* interrupts and goes on with a main part; the handlers are at the        *)
(* vectors.  The handler of l.sys enables interrupts and returns.          *)
(***************************************************************************)
EXTENDS Core, Sequences, TLC

Insn(op) == [op |-> op, to |-> 0, spr |-> "none", val |-> 0,
             uses |-> FALSE, fails |-> FALSE, device |-> FALSE]
To(op, a)       == [Insn(op) EXCEPT !.to = a]
Mtspr(spr, val) == [Insn("mtspr") EXCEPT !.spr = spr, !.val = val]
Nop             == Insn("nop")
Uses            == [Nop EXCEPT !.uses = TRUE]
Load            == Insn("mem")
Fails           == [Load EXCEPT !.fails = TRUE]
ReadDevice      == [Load EXCEPT !.device = TRUE]

At(a, insns) == [k \in a .. a + Len(insns) - 1 |-> insns[k - a + 1]]

MCVector == [sys |-> 14, illegal |-> 16, dbus |-> 18, ibus |-> 18, pic |-> 22, tick |-> 26]

Ttmr(mode) == [mode |-> mode, tp |-> 11, ie |-> TRUE, ip |-> FALSE]
Sr(ints)   == [f |-> FALSE, iee |-> "pic" \in ints, tee |-> "tick" \in ints]

\* A comparison, branches forwards and backwards, a load and its use, and a
\* system call, in a loop.
Loop == <<Insn("sf"), To("bf", 7), Load, Uses, To("bnf", 3), Nop, Insn("sys"),
          To("j", 3), Uses, Nop, Nop>>

\* A failing load in a delay slot and outside, an illegal instruction, and a
\* jump, which may be to where nothing is.
Faulty(a) == <<Insn("sf"), To("bf", 7), Fails, Insn("illegal"), Fails, Load,
            To("j", a), Nop, Nop, Nop, Nop>>

\* An edge is cleared before the device may raise the next one, a latched level
\* after the device has lowered its line.
ClearFirst == At(22, <<Mtspr("PICSR", Lines), ReadDevice, Insn("rfe"), Nop>>)
ReadFirst  == At(22, <<ReadDevice, Mtspr("PICSR", {}), Insn("rfe"), Nop>>)

Tick(mode) == At(26, <<Mtspr("TTCR", 0), Mtspr("TTMR", Ttmr(mode)), Insn("rfe"), Nop>>)

\* The main part starts anew after a failure.
Recover == At(16, <<Mtspr("EPCR", 3), Insn("rfe"), Mtspr("EPCR", 3), Insn("rfe")>>)

Program(ints, mode, main, handlers, c, t) ==
    [code |-> At(0, <<Mtspr("PICMR", IF "pic" \in ints THEN Lines ELSE {}),
                      Mtspr("TTMR", Ttmr(mode)), Mtspr("SR", Sr(ints))>>)
              @@ At(3, main) @@ At(14, <<Mtspr("SR", Sr(ints)), Insn("rfe")>>) @@ handlers,
     cached |-> c, trigger |-> t]

MCPrograms ==
    {Program({"pic"}, 0, Loop, IF t = "EDGE" THEN ClearFirst ELSE ReadFirst, c, t) :
        c \in BOOLEAN, t \in {"LEVEL", "EDGE", "LATCHED_LEVEL"}}
    \cup {Program({"tick"}, mode, Loop, Tick(mode), c, "LEVEL") : c \in BOOLEAN, mode \in 1 .. 3}
    \cup {Program({"pic", "tick"}, 2, Loop, ReadFirst @@ Tick(2), c, "LEVEL") : c \in BOOLEAN}
    \cup {Program({"pic"}, 0, Faulty(IF c THEN 3 ELSE 40), ReadFirst @@ Recover, c, "LEVEL") :
            c \in BOOLEAN}
    \cup {Program({"tick"}, 1, Faulty(IF c THEN 3 ELSE 40), Tick(1) @@ Recover, c, "LEVEL") :
            c \in BOOLEAN}
=============================================================================
