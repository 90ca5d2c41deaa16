---------------------------- MODULE MCCardControl ----------------------------
(* Two ADC cards, two high voltage generators; t1 is the main thread of    *)
(* the GUI, t2 (and t3) measurement threads or other programs.             *)
EXTENDS CardControl, TLC

CONSTANTS a1, a2, t1, t2, t3

MCAddress == <<a1, a2>>
MCHVs     == {"hv1", "hv2"}

Call(o, b, h) == [op |-> o, on |-> b, hv |-> h]

Switch(ops) == {Call(o, b, "hv1") : o \in ops, b \in BOOLEAN}
Sync        == {Call("syncADC", TRUE, "hv1")}

(* The operations that share a register with another thread are locked.    *)
MCLocked ==
  t1 :> Switch({"setDualSATA"})
          \cup {Call("switchHV", TRUE, "hv1"), Call("switchHV", FALSE, "hv2"),
                Call("setAnalogPower", TRUE, "hv1")}
    @@ t2 :> {Call("setADCDualSATA", TRUE, "hv1")} \cup Sync

(* Every operation on the ADC cards in every thread.                       *)
MCMixed == [t \in {t1, t2, t3} |->
  Switch({"setADCDualSATA", "setInternalTriggerADC", "setTrigger"}) \cup Sync]

(* The settings window and a measurement being started.                    *)
MCGui == t1 :> Switch({"setDualSATA"}) @@ t2 :> Switch({"setTrigger"}) \cup Sync

MCSymmetry == Permutations(Thread)
=============================================================================
