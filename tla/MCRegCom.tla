------------------------------ MODULE MCRegCom ------------------------------
(* Two threads. The registers r1 and r2 have the same byte count, r3 has   *)
(* another one, cc is the settings block of the control card.              *)
EXTENDS RegCom, TLC

CONSTANTS r1, r2, r3, cc, t1, t2

MCReg   == {r1, r2, r3}
MCShape == r1 :> 1 @@ r2 :> 1 @@ r3 :> 2
MCVal   == {0, 1}

C(o, r, v) == [op |-> o, regs |-> r, vals |-> v]

(* The two registers of equal byte count are written and read together,    *)
(* with the other one between them, while commands are sent to it.         *)
MCCalls ==
  {C("readPDI", <<r1, r3, r2>>, <<>>),
   C("writePDI", <<r1, r2>>, <<0, 1>>), C("writePDI_noReadBack", <<r2>>, <<0>>),
   C("sendCommand", <<r3>>, <<1>>), C("loadTimerSetup", <<r3, r3>>, <<0, 1>>)}

(* For the run with every fault: each kind of critical section, and a      *)
(* command sent without the lock held.                                     *)
MCFewRegs  == {r1, cc}
MCFewShape == r1 :> 1 @@ cc :> 0
MCFewCalls ==
  {C("readCCdata", <<cc>>, <<>>), C("writePDI", <<r1>>, <<1>>),
   C("sendCommand", <<r1>>, <<0>>)}

MCSymmetry == Permutations({t1, t2})
=============================================================================
