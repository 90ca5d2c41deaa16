---------------------------- MODULE CardControl ----------------------------
(***************************************************************************)
(* The operations of APDCAM10G_regCom that read a control register, change *)
(* some of its bits and write it back: setADCDualSATA and syncADC, which   *)
(* hold the lock, setDualSATA and setTrigger, which send a command first,  *)
(* setInternalTriggerADC, HVOn, HVOff and setAnalogPower, run by several   *)
(* threads.                                                                *)
(*                                                                         *)
(* One call of readPDI or writePDI is one step here: that is what RegFile  *)
(* promises of them. setADCDualSATA and syncADC hold the lock from their   *)
(* first step to their last; the others let other threads in between       *)
(* their steps.                                                            *)
(***************************************************************************)
EXTENDS Integers, Sequences, FiniteSets

CONSTANTS
  Thread,
  NoThread,     \* the owner of a free lock
  ADC_address,  \* the addresses of the ADC cards, in order
  HVON, POWER,  \* PC_REG_HVON and PC_IRQ_POWER_PID_ENABLE
  HVs,          \* the high voltage generators
  Calls,        \* the calls each thread makes
  Faults        \* what may go wrong, see below

(***************************************************************************)
(* readFails   readPDI returns an error text                               *)
(* writeFails  writePDI returns an error text, whatever it has written     *)
(* sendFails   sendCommand returns an error text                           *)
(* sendLost    a command reaches nobody, and nobody notices                *)
(***************************************************************************)
AllFaults == {"readFails", "writeFails", "sendFails", "sendLost"}

Adc  == {ADC_address[i] : i \in DOMAIN ADC_address}
Cell == Adc \cup {HVON, POWER}          \* a control register
Bit  == {"sata", "dual", "sync", "trig", "power"} \cup HVs

DualOps    == {"setDualSATA", "setADCDualSATA"}
TriggerOps == {"setTrigger", "setInternalTriggerADC"}
LockedOps  == DualOps \cup {"syncADC"}
PCOps      == {"switchHV", "setAnalogPower"}

CallType == [op : LockedOps \cup TriggerOps \cup PCOps,
             on : BOOLEAN, hv : HVs]

ASSUME CardAssumption ==
  /\ NoThread \notin Thread
  /\ ADC_address \in Seq(Adc) /\ Len(ADC_address) > 0
  /\ \A i, j \in DOMAIN ADC_address : ADC_address[i] = ADC_address[j] => i = j
  /\ HVON \notin Adc /\ POWER \notin Adc /\ HVON # POWER
  /\ HVs \cap {"sata", "dual", "sync", "trig", "power"} = {}
  /\ HVs # {} /\ Calls \in [Thread -> SUBSET CallType]
  /\ Faults \subseteq AllFaults

VARIABLES
  lock,     \* the owner of the RLock between two steps
  bits,     \* the bits set in each control register
  ccSata,   \* the dual SATA setting of the control card
  pc, call,
  card,     \* setADCDualSATA: which ADC card it is at
  copy,     \* data: the register values read
  err

locals == <<call, card, copy, err>>
vars   == <<lock, bits, ccSata, pc, locals>>

AnyCall   == CHOOSE c \in CallType : TRUE
EmptyCopy == [c \in Cell |-> {}]

PC == {"idle", "command", "acquire", "read", "reread", "write", "clear", "verify",
       "release", "return", "dead"}

(* Every variable keeps its type; setADCDualSATA never leaves ADC_address. *)
TypeOK ==
  /\ lock \in Thread \cup {NoThread}
  /\ bits \in [Cell -> SUBSET Bit]
  /\ ccSata \in BOOLEAN
  /\ pc \in [Thread -> PC]
  /\ call \in [Thread -> CallType]
  /\ card \in [Thread -> DOMAIN ADC_address]
  /\ copy \in [Thread -> [Cell -> SUBSET Bit]]
  /\ err \in [Thread -> {"ok", "error"}]

Init ==
  /\ lock = NoThread
  /\ bits = EmptyCopy
  /\ ccSata = FALSE
  /\ pc = [t \in Thread |-> "idle"]
  /\ call = [t \in Thread |-> AnyCall]
  /\ card = [t \in Thread |-> 1]
  /\ copy = [t \in Thread |-> EmptyCopy]
  /\ err = [t \in Thread |-> "ok"]

-----------------------------------------------------------------------------
(* The registers an operation works on and the bits it sets and clears.    *)

Cells(t) ==
  CASE call[t].op \in DualOps                    -> {ADC_address[card[t]]}
    [] call[t].op \in TriggerOps \cup {"syncADC"} -> Adc
    [] call[t].op = "switchHV"                   -> {HVON}
    [] call[t].op = "setAnalogPower"             -> {POWER}
    [] OTHER                                     -> {}

(* Bits 0 and 1 are set for dual SATA, only bit 1 is cleared again.        *)
SetBits(c) ==
  CASE c.op \in DualOps /\ c.on         -> {"sata", "dual"}
    [] c.op = "syncADC"                 -> {"sync"}
    [] c.op \in TriggerOps /\ c.on      -> {"trig"}
    [] c.op = "switchHV" /\ c.on        -> {c.hv}
    [] c.op = "setAnalogPower" /\ c.on  -> {"power"}
    [] OTHER                            -> {}

ClearBits(c) ==
  CASE c.op \in DualOps /\ ~c.on        -> {"dual"}
    [] c.op \in TriggerOps /\ ~c.on     -> {"trig"}
    [] c.op = "switchHV" /\ ~c.on       -> {c.hv}
    [] c.op = "setAnalogPower" /\ ~c.on -> {"power"}
    [] OTHER                            -> {}

OwnBits(c) == SetBits(c) \cup ClearBits(c)

(* Mutant: readPDI and writePDI take no lock.                              *)
Available_Always(t) == t \in Thread

(* readPDI, writePDI and sendCommand acquire the RLock for themselves.     *)
Available(t) == lock \in {NoThread, t}

Goto(t, label) == pc' = [pc EXCEPT ![t] = label]

SetErr(t, e) == err' = [err EXCEPT ![t] = e]

-----------------------------------------------------------------------------
Begin(t, c) ==
  /\ pc[t] = "idle"
  /\ call' = [call EXCEPT ![t] = c]
  /\ Goto(t, CASE c.op \in {"setDualSATA", "setTrigger"} -> "command"
               [] c.op \in {"setADCDualSATA", "syncADC"} -> "acquire"
               [] OTHER                                  -> "read")
  /\ UNCHANGED <<lock, bits, ccSata, card, copy, err>>

Return(t) ==
  /\ pc[t] = "return"
  /\ Goto(t, "idle")
  /\ call' = [call EXCEPT ![t] = AnyCall]
  /\ card' = [card EXCEPT ![t] = 1]
  /\ copy' = [copy EXCEPT ![t] = EmptyCopy]
  /\ SetErr(t, "ok")
  /\ UNCHANGED <<lock, bits, ccSata>>

(* OP_SETSATACONTROL of setDualSATA, OP_SETTRIGGER of setTrigger: the      *)
(* camera does not confirm them.                                           *)
Command(t) ==
  /\ pc[t] = "command"
  /\ Available(t)
  /\ \/ /\ IF call[t].op = "setDualSATA"
           THEN ccSata' \in {call[t].on} \cup (IF "sendLost" \in Faults THEN {ccSata} ELSE {})
           ELSE ccSata' = ccSata
        /\ Goto(t, IF call[t].op = "setDualSATA" THEN "acquire" ELSE "read")
        /\ UNCHANGED err
     \/ /\ "sendFails" \in Faults
        /\ SetErr(t, "error")
        /\ Goto(t, "return")
        /\ UNCHANGED ccSata
  /\ UNCHANGED <<lock, bits, call, card, copy>>

(* Mutant: the lock is not taken for the whole operation.                  *)
Acquire_Not(t) ==
  /\ pc[t] = "acquire"
  /\ lock = NoThread
  /\ Goto(t, "read")
  /\ UNCHANGED <<lock, bits, ccSata, locals>>

Acquire(t) ==
  /\ pc[t] = "acquire"
  /\ lock = NoThread
  /\ lock' = t
  /\ Goto(t, "read")
  /\ UNCHANGED <<bits, ccSata, locals>>

Release(t) ==
  /\ pc[t] = "release"
  /\ lock' = NoThread
  /\ Goto(t, "return")
  /\ UNCHANGED <<bits, ccSata, locals>>

-----------------------------------------------------------------------------
(* Reading. syncADC reads twice and uses the second copy.                  *)

Read(t) ==
  /\ pc[t] \in {"read", "reread"}
  /\ Available(t)
  /\ copy' = [copy EXCEPT ![t] = [c \in Cell |-> IF c \in Cells(t) THEN bits[c] ELSE {}]]
  /\ Goto(t, IF pc[t] = "read" /\ call[t].op = "syncADC" THEN "reread" ELSE "write")
  /\ UNCHANGED <<lock, bits, ccSata, call, card, err>>

(* What follows an error of readPDI. setADCDualSATA takes data[0] before   *)
(* it looks at err, and ends with an exception while it holds the lock.    *)
(* setInternalTriggerADC takes len(ret), an exception when ret is None;    *)
(* when it is a list that is too short writePDI refuses it.                *)
ReadError(t) ==
  /\ pc[t] \in {"read", "reread"}
  /\ Available(t)
  /\ "readFails" \in Faults
  /\ \/ call[t].op = "syncADC" /\ Goto(t, "release")
     \/ call[t].op \in DualOps \cup TriggerOps /\ Goto(t, "dead")
     \/ call[t].op \in TriggerOps \cup PCOps /\ Goto(t, "return")
  /\ SetErr(t, "error")
  /\ UNCHANGED <<lock, bits, ccSata, call, card, copy>>

-----------------------------------------------------------------------------
(* Writing back.                                                           *)

(* Mutant: the other bits of the register are not kept.                    *)
Changed_Fresh(t) == [c \in Cell |-> SetBits(call[t])]

Changed(t) == [c \in Cell |-> (copy[t][c] \cup SetBits(call[t])) \ ClearBits(call[t])]

(* writePDI writes the values given for the registers in cells.            *)
Written(values, cells) == bits' = [c \in Cell |-> IF c \in cells THEN values[c] ELSE bits[c]]

(* Mutant: the loop over the ADC cards leaves out the last one.            *)
LastCard_OneLess(t) == card[t] + 1 >= Len(ADC_address)

LastCard(t) == card[t] = Len(ADC_address)

(* Mutant: the next card is taken after the last one too.                  *)
Write_NoEnd(t) ==
  /\ pc[t] = "write"
  /\ Available(t)
  /\ Written(Changed(t), Cells(t))
  /\ card' = [card EXCEPT ![t] = @ + 1]
  /\ Goto(t, IF call[t].op \in DualOps THEN "read" ELSE "release")
  /\ UNCHANGED <<err, lock, ccSata, call, copy>>

Write(t) ==
  /\ pc[t] = "write"
  /\ Available(t)
  /\ Written(Changed(t), Cells(t))
  /\ \/ call[t].op = "syncADC" /\ Goto(t, "clear") /\ UNCHANGED card
     \/ call[t].op \in DualOps /\ LastCard(t) /\ Goto(t, "release") /\ UNCHANGED card
     \/ /\ call[t].op \in DualOps /\ ~LastCard(t) /\ Goto(t, "read")
        /\ card' = [card EXCEPT ![t] = @ + 1]
     \/ call[t].op \in TriggerOps \cup PCOps /\ Goto(t, "return") /\ UNCHANGED card
  /\ SetErr(t, "ok")
  /\ UNCHANGED <<lock, ccSata, call, copy>>

(* Mutant: the error path returns from inside the loop.                    *)
WriteError_Returns(t) ==
  /\ pc[t] = "write"
  /\ Available(t)
  /\ "writeFails" \in Faults
  /\ \E done \in SUBSET Cells(t) : Written(Changed(t), done)
  /\ Goto(t, "return")
  /\ SetErr(t, "error")
  /\ UNCHANGED <<lock, ccSata, call, card, copy>>

(* Some of the registers may have been written.                            *)
WriteError(t) ==
  /\ pc[t] = "write"
  /\ Available(t)
  /\ "writeFails" \in Faults
  /\ \E done \in SUBSET Cells(t) : Written(Changed(t), done)
  /\ Goto(t, IF call[t].op \in LockedOps THEN "release" ELSE "return")
  /\ SetErr(t, "error")
  /\ UNCHANGED <<lock, ccSata, call, card, copy>>

(* Mutant: the sync bit is not cleared again.                              *)
SyncClear_Skipped(t) ==
  /\ pc[t] = "clear"
  /\ Available(t)
  /\ Goto(t, "verify")
  /\ UNCHANGED <<lock, bits, ccSata, locals>>

Cleared(t) == [c \in Cell |-> copy[t][c] \ SetBits(call[t])]

(* syncADC writes the sync bit back to 0; err of this write is overwritten *)
(* by the read that follows.                                               *)
SyncClear(t) ==
  /\ pc[t] = "clear"
  /\ Available(t)
  /\ \/ Written(Cleared(t), Cells(t))
     \/ "writeFails" \in Faults /\ (\E done \in SUBSET Cells(t) : Written(Cleared(t), done))
  /\ Goto(t, "verify")
  /\ UNCHANGED <<lock, ccSata, locals>>

SyncVerify(t) ==
  /\ pc[t] = "verify"
  /\ Available(t)
  /\ \/ SetErr(t, "ok")
     \/ "readFails" \in Faults /\ SetErr(t, "error")
  /\ Goto(t, "release")
  /\ UNCHANGED <<lock, bits, ccSata, call, card, copy>>

InCall(t) ==
  \/ Command(t) \/ Release(t) \/ Return(t)
  \/ Read(t) \/ ReadError(t) \/ Write(t) \/ WriteError(t)
  \/ SyncClear(t) \/ SyncVerify(t)

Next == \E t \in Thread : InCall(t) \/ Acquire(t) \/ \E c \in Calls[t] : Begin(t, c)

Spec == Init /\ [][Next]_vars

FairSpec == Spec /\ \A t \in Thread : WF_vars(InCall(t))

-----------------------------------------------------------------------------
(* Properties.                                                             *)

Inside(t) == call[t].op \in LockedOps /\
             pc[t] \in {"read", "reread", "write", "clear", "verify", "release", "dead"}

(* An operation changes only the bits it is about: what it writes back to  *)
(* the other bits of a register is what they are, whatever other threads   *)
(* have done since it read them.                                           *)
OnlyOwnBits ==
  [][\A c \in Cell : \A b \in Bit :
       (b \in bits[c]) # (b \in bits'[c]) =>
         \E t \in Thread : pc[t] \in {"write", "clear"} /\ c \in Cells(t) /\ b \in OwnBits(call[t])]_vars

(* Between its read and its last write the copy of a locked operation is   *)
(* what the registers hold, up to the bits the operation has written.      *)
CopyIsCurrent ==
  \A t \in Thread :
    Inside(t) /\ pc[t] \in {"reread", "write", "clear"} =>
      \A c \in Cells(t) : bits[c] \ OwnBits(call[t]) = copy[t][c] \ OwnBits(call[t])

(* syncADC leaves no ADC card in the synchronising state.                  *)
SyncIsPulse == lock = NoThread => \A c \in Adc : "sync" \notin bits[c]

(* setDualSATA without an error: the control card and every ADC card have  *)
(* the setting asked for.                                                  *)
SataConsistent ==
  \A t \in Thread :
    pc[t] = "release" /\ call[t].op \in DualOps /\ err[t] = "ok" =>
      /\ \A c \in Adc : ("dual" \in bits[c]) = call[t].on
      /\ call[t].op = "setDualSATA" => ccSata = call[t].on

(* An operation that has got the lock gives it back.                       *)
LockGivenBack == \A t \in Thread : lock = t ~> lock # t
=============================================================================
