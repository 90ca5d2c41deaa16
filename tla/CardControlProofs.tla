------------------------- MODULE CardControlProofs -------------------------
(***************************************************************************)
(* Proofs about CardControl. The lock is owned exactly by a thread inside  *)
(* a locked operation, so nobody else writes a register between the read   *)
(* and the last write of one; from this follow that copies stay current,   *)
(* that the synchronisation is a pulse, and that locked operations change  *)
(* only their own bits.                                                    *)
(***************************************************************************)
EXTENDS CardControl, TLAPS

LockInv == \A t \in Thread : lock = t <=> Inside(t)

(* The operation a thread at a label is in.                                *)
LabelInv ==
  \A t \in Thread :
    /\ pc[t] = "command" => call[t].op \in {"setDualSATA", "setTrigger"}
    /\ pc[t] \in {"acquire", "release"} => call[t].op \in LockedOps
    /\ pc[t] \in {"reread", "clear", "verify"} => call[t].op = "syncADC"
    /\ pc[t] \in {"read", "write"} => call[t].op \in LockedOps \cup TriggerOps \cup PCOps
    /\ pc[t] # "idle" => call[t] \in Calls[t]

IInv == TypeOK /\ LockInv /\ LabelInv /\ CopyIsCurrent

-----------------------------------------------------------------------------
LEMMA CellsInCell == ASSUME TypeOK, NEW t \in Thread PROVE Cells(t) \subseteq Cell
  BY DEF Cells, Cell, Adc, TypeOK

LEMMA CallIsCall == ASSUME TypeOK, NEW t \in Thread PROVE call[t] \in CallType
  BY DEF TypeOK

LEMMA OwnBitsAreBits ==
  ASSUME NEW c \in CallType
  PROVE  SetBits(c) \subseteq Bit /\ ClearBits(c) \subseteq Bit
  BY DEF SetBits, ClearBits, Bit, CallType

LEMMA CopyTypes ==
  ASSUME TypeOK, NEW t \in Thread
  PROVE  Changed(t) \in [Cell -> SUBSET Bit] /\ Cleared(t) \in [Cell -> SUBSET Bit]
  BY CallIsCall, OwnBitsAreBits DEF Changed, Cleared, TypeOK

LEMMA WrittenType ==
  ASSUME TypeOK, NEW v \in [Cell -> SUBSET Bit], NEW cells, Written(v, cells)
  PROVE  bits' \in [Cell -> SUBSET Bit]
  BY DEF Written, TypeOK

LEMMA AnyCallIsCall == AnyCall \in CallType
  <1>1. PICK h \in HVs : TRUE
    BY CardAssumption
  <1>2. [op |-> "syncADC", on |-> TRUE, hv |-> h] \in CallType
    BY DEF CallType, LockedOps
  <1>3. QED
    BY <1>2 DEF AnyCall

LEMMA FirstCard == 1 \in DOMAIN ADC_address
  BY CardAssumption DEF Adc

LEMMA TypeInit == Init => TypeOK
  <1> SUFFICES ASSUME Init PROVE TypeOK
    OBVIOUS
  <1>1. EmptyCopy \in [Cell -> SUBSET Bit]
    BY DEF EmptyCopy
  <1>2. /\ bits \in [Cell -> SUBSET Bit]
        /\ copy \in [Thread -> [Cell -> SUBSET Bit]]
    BY <1>1 DEF Init
  <1>3. /\ call \in [Thread -> CallType]
        /\ card \in [Thread -> DOMAIN ADC_address]
    BY AnyCallIsCall, FirstCard DEF Init
  <1>4. pc \in [Thread -> PC]
    BY DEF Init, PC
  <1>5. QED
    BY <1>2, <1>3, <1>4 DEF Init, TypeOK

LEMMA TypeStep == TypeOK /\ LabelInv /\ [Next]_vars => TypeOK'
  <1> SUFFICES ASSUME TypeOK, LabelInv, [Next]_vars PROVE TypeOK'
    OBVIOUS
  <1>1. ASSUME NEW t \in Thread, NEW c \in Calls[t], Begin(t, c) PROVE TypeOK'
    BY <1>1, CardAssumption DEF Begin, TypeOK, Goto, PC
  <1>2. ASSUME NEW t \in Thread, Return(t) PROVE TypeOK'
    BY <1>2, AnyCallIsCall, FirstCard DEF Return, TypeOK, Goto, SetErr, PC, EmptyCopy
  <1>3. ASSUME NEW t \in Thread, Command(t) PROVE TypeOK'
    <2>1. ccSata' \in BOOLEAN
      BY <1>3, CallIsCall DEF Command, TypeOK, CallType
    <2>2. QED
      BY <1>3, <2>1 DEF Command, TypeOK, Goto, SetErr, PC
  <1>4. ASSUME NEW t \in Thread, Acquire(t) \/ Release(t) PROVE TypeOK'
    BY <1>4 DEF Acquire, Release, TypeOK, Goto, PC, locals
  <1>5. ASSUME NEW t \in Thread, Read(t) PROVE TypeOK'
    <2>1. [c \in Cell |-> IF c \in Cells(t) THEN bits[c] ELSE {}] \in [Cell -> SUBSET Bit]
      BY DEF TypeOK
    <2>2. QED
      BY <1>5, <2>1 DEF Read, TypeOK, Goto, PC
  <1>6. ASSUME NEW t \in Thread, ReadError(t) PROVE TypeOK'
    BY <1>6 DEF ReadError, TypeOK, Goto, SetErr, PC
  <1>7. ASSUME NEW t \in Thread, Write(t) PROVE TypeOK'
    <2>1. bits' \in [Cell -> SUBSET Bit]
      BY <1>7, CopyTypes, WrittenType DEF Write
    <2>2. card' \in [Thread -> DOMAIN ADC_address]
      BY <1>7, CardAssumption DEF Write, LastCard, TypeOK
    <2>3. pc' \in [Thread -> PC]
      BY <1>7 DEF Write, TypeOK, Goto, PC
    <2>4. QED
      BY <1>7, <2>1, <2>2, <2>3 DEF Write, TypeOK, SetErr
  <1>8. ASSUME NEW t \in Thread, WriteError(t) PROVE TypeOK'
    <2>1. bits' \in [Cell -> SUBSET Bit]
      BY <1>8, CopyTypes, WrittenType DEF WriteError
    <2>2. QED
      BY <1>8, <2>1 DEF WriteError, TypeOK, SetErr, Goto, PC
  <1>9. ASSUME NEW t \in Thread, SyncClear(t) PROVE TypeOK'
    <2>1. bits' \in [Cell -> SUBSET Bit]
      BY <1>9, CopyTypes, WrittenType DEF SyncClear
    <2>2. QED
      BY <1>9, <2>1 DEF SyncClear, TypeOK, Goto, PC, locals
  <1>10. ASSUME NEW t \in Thread, SyncVerify(t) PROVE TypeOK'
    BY <1>10 DEF SyncVerify, TypeOK, Goto, SetErr, PC
  <1>12. CASE UNCHANGED vars
    BY <1>12 DEF TypeOK, vars, locals
  <1>13. QED
    BY <1>1, <1>2, <1>3, <1>4, <1>5, <1>6, <1>7, <1>8, <1>9, <1>10, <1>12
       DEF Next, InCall

-----------------------------------------------------------------------------
(* The lock and the labels.                                                *)

LEMMA LockInit == Init => LockInv /\ LabelInv /\ CopyIsCurrent
  BY CardAssumption DEF Init, LockInv, LabelInv, CopyIsCurrent, Inside

LEMMA LockStep ==
  TypeOK /\ LockInv /\ LabelInv /\ [Next]_vars => LockInv' /\ LabelInv'
  <1> SUFFICES ASSUME TypeOK, LockInv, LabelInv, [Next]_vars PROVE LockInv' /\ LabelInv'
    OBVIOUS
  <1> USE CardAssumption DEF TypeOK, LockInv, LabelInv, Inside, Goto
  <1>1. ASSUME NEW t \in Thread, NEW c \in Calls[t], Begin(t, c) PROVE LockInv' /\ LabelInv'
    BY <1>1 DEF Begin, CallType, LockedOps, DualOps, TriggerOps, PCOps
  <1>2. ASSUME NEW t \in Thread, Return(t) PROVE LockInv' /\ LabelInv'
    BY <1>2 DEF Return
  <1>3. ASSUME NEW t \in Thread, Command(t) PROVE LockInv' /\ LabelInv'
    BY <1>3 DEF Command, LockedOps, DualOps, TriggerOps
  <1>4. ASSUME NEW t \in Thread, Acquire(t) PROVE LockInv' /\ LabelInv'
    BY <1>4 DEF Acquire, locals
  <1>5. ASSUME NEW t \in Thread, Release(t) PROVE LockInv' /\ LabelInv'
    BY <1>5 DEF Release, locals
  <1>6. ASSUME NEW t \in Thread, Read(t) PROVE LockInv' /\ LabelInv'
    BY <1>6 DEF Read, LockedOps
  <1>7. ASSUME NEW t \in Thread, ReadError(t) PROVE LockInv' /\ LabelInv'
    BY <1>7 DEF ReadError, LockedOps, DualOps, TriggerOps, PCOps
  <1>8. ASSUME NEW t \in Thread, Write(t) PROVE LockInv' /\ LabelInv'
    BY <1>8 DEF Write, LockedOps, DualOps, TriggerOps, PCOps
  <1>9. ASSUME NEW t \in Thread, WriteError(t) PROVE LockInv' /\ LabelInv'
    BY <1>9 DEF WriteError
  <1>10. ASSUME NEW t \in Thread, SyncClear(t) \/ SyncVerify(t) PROVE LockInv' /\ LabelInv'
    BY <1>10 DEF SyncClear, SyncVerify, locals, LockedOps
  <1>12. CASE UNCHANGED vars
    BY <1>12 DEF vars, locals
  <1>13. QED
    BY <1>1, <1>2, <1>3, <1>4, <1>5, <1>6, <1>7, <1>8, <1>9, <1>10, <1>12
       DEF Next, InCall

(* Who may read or write while another thread is inside a locked operation.*)
LEMMA OthersWait ==
  ASSUME LockInv, NEW t \in Thread, NEW u \in Thread, Available(u), Inside(t)
  PROVE  u = t
  BY CardAssumption DEF LockInv, Available

-----------------------------------------------------------------------------
(* The copies.                                                             *)

LEMMA CopyStep ==
  TypeOK /\ LockInv /\ LabelInv /\ CopyIsCurrent /\ [Next]_vars => CopyIsCurrent'
  <1> SUFFICES ASSUME TypeOK, LockInv, LabelInv, CopyIsCurrent, [Next]_vars,
                      NEW t \in Thread, Inside(t)', pc'[t] \in {"reread", "write", "clear"},
                      NEW c \in Cells(t)'
               PROVE  bits'[c] \ OwnBits(call'[t]) = copy'[t][c] \ OwnBits(call'[t])
    BY DEF CopyIsCurrent
  <1> DEFINE Goal == bits'[c] \ OwnBits(call'[t]) = copy'[t][c] \ OwnBits(call'[t])
             Same == /\ bits' = bits /\ copy'[t] = copy[t] /\ call'[t] = call[t]
                     /\ card'[t] = card[t] /\ pc'[t] = pc[t]
  <1>0. ASSUME Same PROVE Goal
    <2>1. Inside(t) /\ pc[t] \in {"reread", "write", "clear"} /\ c \in Cells(t)
      BY <1>0 DEF Inside, Cells
    <2>2. QED
      BY <1>0, <2>1 DEF CopyIsCurrent
  <1>1. ASSUME NEW u \in Thread, InCall(u) \/ Acquire(u) \/ \E d \in Calls[u] : Begin(u, d), u # t
        PROVE  Goal
    <2>1. /\ copy'[t] = copy[t] /\ call'[t] = call[t]
          /\ card'[t] = card[t] /\ pc'[t] = pc[t]
      BY <1>1 DEF InCall, Acquire, Begin, Command, Release, Return, Read, ReadError, Write,
         WriteError, SyncClear, SyncVerify, Goto, SetErr, locals, TypeOK
    <2>2. Inside(t)
      BY <2>1 DEF Inside
    <2>3. bits' = bits
      BY <1>1, <2>2, OthersWait DEF InCall, Acquire, Begin, Command, Release, Return, Read,
         ReadError, Write, WriteError, SyncClear, SyncVerify
    <2>4. QED
      BY <1>0, <2>1, <2>3
  <1>2. CASE Read(t)
    <2>1. bits' = bits /\ call' = call /\ card' = card
      BY <1>2 DEF Read
    <2>2. copy'[t] = [d \in Cell |-> IF d \in Cells(t) THEN bits[d] ELSE {}]
      BY <1>2 DEF Read, TypeOK
    <2>3. c \in Cells(t) /\ c \in Cell
      BY <2>1, CellsInCell DEF Cells
    <2>4. QED
      BY <2>1, <2>2, <2>3
  <1>3. CASE Write(t)
    <2>1. call[t].op = "syncADC" /\ call' = call /\ copy' = copy /\ card' = card
      BY <1>3 DEF Write, Goto, TypeOK, Inside
    <2>2. c \in Cells(t) /\ c \in Cell /\ pc[t] = "write" /\ Inside(t)
      BY <1>3, <2>1, CellsInCell DEF Cells, Write, Inside
    <2>3. bits'[c] = (copy[t][c] \cup SetBits(call[t])) \ ClearBits(call[t])
      BY <1>3, <2>2 DEF Write, Written, Changed
    <2>4. QED
      BY <2>1, <2>3 DEF OwnBits
  <1>4. CASE \/ Command(t) \/ Release(t) \/ Return(t) \/ ReadError(t) \/ WriteError(t)
             \/ SyncClear(t) \/ SyncVerify(t)
             \/ Acquire(t) \/ \E d \in Calls[t] : Begin(t, d)
    <2>1. pc'[t] \notin {"reread", "write", "clear"}
      BY <1>4 DEF Command, Release, Return, ReadError, WriteError, SyncClear, SyncVerify,
         Acquire, Begin, Goto, TypeOK
    <2>2. QED
      BY <2>1
  <1>5. CASE UNCHANGED vars
    BY <1>0, <1>5 DEF vars, locals
  <1>6. QED
    BY <1>1, <1>2, <1>3, <1>4, <1>5 DEF Next, InCall

LEMMA Inductive == Spec => []IInv
  <1>1. Init => IInv
    BY TypeInit, LockInit DEF IInv
  <1>2. IInv /\ [Next]_vars => IInv'
    BY TypeStep, LockStep, CopyStep DEF IInv
  <1>3. QED
    BY <1>1, <1>2, PTL DEF Spec

(* Types, for every number of threads and cards; the loop over the ADC     *)
(* cards stays in the list of addresses.                                   *)
THEOREM TypeCorrect == Spec => []TypeOK
  <1>1. IInv => TypeOK
    BY DEF IInv
  <1>2. QED
    BY <1>1, Inductive, PTL

(* The data read by a locked operation stay current until they are         *)
(* written back, whatever the unlocked operations of other threads do and  *)
(* whatever fails.                                                         *)
THEOREM CopiesStayCurrent == Spec => []CopyIsCurrent
  <1>1. IInv => CopyIsCurrent
    BY DEF IInv
  <1>2. QED
    BY <1>1, Inductive, PTL

-----------------------------------------------------------------------------
(* Only locked operations: no update is lost.                              *)

OnlyLockedOps == \A t \in Thread : \A c \in Calls[t] : c.op \in LockedOps

LEMMA WrittenBack ==
  ASSUME NEW b, NEW old, NEW copied, NEW on, NEW off, b \notin on \cup off,
         old \ (on \cup off) = copied \ (on \cup off)
  PROVE  (b \in old) = (b \in (copied \cup on) \ off) /\ (b \in old) = (b \in copied \ on)
  OBVIOUS

LEMMA OwnBitsStep ==
  ASSUME OnlyLockedOps, IInv, [Next]_vars,
         NEW c \in Cell, NEW b \in Bit, (b \in bits[c]) # (b \in bits'[c])
  PROVE  \E t \in Thread : pc[t] \in {"write", "clear"} /\ c \in Cells(t) /\ b \in OwnBits(call[t])
  <1>1. PICK t \in Thread : Write(t) \/ WriteError(t) \/ SyncClear(t)
    BY DEF Next, InCall, vars, Acquire, Begin, Command, Release, Return, Read, ReadError,
       SyncVerify
  <1>2. pc[t] \in {"write", "clear"} /\ c \in Cells(t)
    BY <1>1 DEF Write, WriteError, SyncClear, Written
  <1>3. call[t].op \in LockedOps
    BY <1>2, CallIsCall DEF OnlyLockedOps, IInv, LabelInv, LockedOps, TriggerOps, PCOps, DualOps
  <1>4. bits[c] \ OwnBits(call[t]) = copy[t][c] \ OwnBits(call[t])
    BY <1>2, <1>3 DEF IInv, CopyIsCurrent, Inside
  <1>5. bits'[c] \in {bits[c], Changed(t)[c], Cleared(t)[c]}
    BY <1>1 DEF Write, WriteError, SyncClear, Written
  <1>6. ASSUME b \notin OwnBits(call[t]) PROVE FALSE
    BY <1>4, <1>5, <1>6, WrittenBack DEF Changed, Cleared, OwnBits
  <1>7. QED
    BY <1>2, <1>6

(* With the locked operations alone no write of one thread undoes that of  *)
(* another.                                                                *)
THEOREM NoLostUpdate == ASSUME OnlyLockedOps PROVE Spec => OnlyOwnBits
  <1>1. IInv /\ [Next]_vars =>
          [\A c \in Cell : \A b \in Bit :
             (b \in bits[c]) # (b \in bits'[c]) =>
               \E t \in Thread : pc[t] \in {"write", "clear"} /\ c \in Cells(t) /\ b \in OwnBits(call[t])]_vars
    BY OwnBitsStep
  <1>2. QED
    BY <1>1, Inductive, PTL DEF Spec, OnlyOwnBits

-----------------------------------------------------------------------------
(* As long as writePDI succeeds the synchronisation is a pulse.            *)

NoSync(values) == \A c \in Adc : "sync" \notin values[c]

SyncInv ==
  /\ \A t \in Thread : NoSync(copy[t])
  /\ (\A t \in Thread : lock = t => pc[t] # "clear") => NoSync(bits)

LEMMA SyncOfOps ==
  ASSUME NEW c \in CallType
  PROVE  "sync" \in SetBits(c) => c.op = "syncADC"
  BY CardAssumption DEF SetBits, CallType, DualOps, TriggerOps

LEMMA SyncStep == "writeFails" \notin Faults /\ IInv /\ SyncInv /\ [Next]_vars => SyncInv'
  <1> SUFFICES ASSUME "writeFails" \notin Faults, IInv, SyncInv, [Next]_vars PROVE SyncInv'
    OBVIOUS
  <1>0. TypeOK /\ LockInv /\ LabelInv /\ Adc \subseteq Cell
    BY DEF IInv, Cell
  <1>1. CASE UNCHANGED vars
    BY <1>1 DEF SyncInv, NoSync, vars, locals
  <1>2. ASSUME NEW t \in Thread, Read(t) PROVE SyncInv'
    <2>1. Inside(t) => pc[t] # "clear"
      BY <1>2 DEF Read
    <2>2. \A u \in Thread : lock = u => pc[u] # "clear"
      BY <1>0, <1>2, CardAssumption DEF Read, Available
    <2>3. NoSync(bits) /\ bits' = bits /\ lock' = lock
      BY <1>2, <2>2 DEF SyncInv, Read
    <2>4. NoSync([c \in Cell |-> IF c \in Cells(t) THEN bits[c] ELSE {}])
      BY <1>0, <2>3 DEF NoSync
    <2>5. QED
      BY <1>0, <1>2, <2>3, <2>4 DEF SyncInv, NoSync, Read, TypeOK
  <1>3. ASSUME NEW t \in Thread, Write(t) PROVE SyncInv'
    <2>1. copy' = copy /\ lock' = lock
      BY <1>3 DEF Write
    <2>2. CASE call[t].op = "syncADC"
      <3>1. lock = t /\ pc'[t] = "clear"
        BY <1>0, <1>3, <2>2 DEF LockInv, Inside, LockedOps, Write, Goto, TypeOK, DualOps, PCOps, TriggerOps
      <3>2. QED
        BY <2>1, <3>1 DEF SyncInv
    <2>3. CASE call[t].op # "syncADC"
      <3>1. "sync" \notin SetBits(call[t])
        BY <1>0, <2>3, SyncOfOps, CallIsCall
      <3>2. \A u \in Thread : lock = u => pc[u] # "clear"
        BY <1>0, <1>3, CardAssumption DEF Write, Available
      <3>3. NoSync(bits) /\ NoSync(copy[t])
        BY <3>2 DEF SyncInv
      <3>4. NoSync(bits')
        BY <1>0, <1>3, <3>1, <3>3 DEF NoSync, Write, Written, Changed
      <3>5. QED
        BY <2>1, <3>4 DEF SyncInv, NoSync
    <2>4. QED
      BY <2>2, <2>3
  <1>4. ASSUME NEW t \in Thread, SyncClear(t) PROVE SyncInv'
    <2>1. copy' = copy /\ lock' = lock /\ NoSync(copy[t]) /\ Written(Cleared(t), Cells(t))
      BY <1>4 DEF SyncClear, locals, SyncInv
    <2>2. Cells(t) = Adc
      BY <1>0, <1>4 DEF SyncClear, LabelInv, Cells, DualOps
    <2>3. NoSync(bits')
      BY <1>0, <2>1, <2>2 DEF NoSync, Written, Cleared
    <2>4. QED
      BY <2>1, <2>3 DEF SyncInv, NoSync
  <1>5. ASSUME NEW t \in Thread, NEW c \in Calls[t], Begin(t, c) PROVE SyncInv'
    BY <1>0, <1>5 DEF Begin, SyncInv, NoSync, Goto, TypeOK
  <1>6. ASSUME NEW t \in Thread, Return(t) PROVE SyncInv'
    BY <1>0, <1>6 DEF Return, SyncInv, NoSync, Goto, TypeOK, EmptyCopy
  <1>7. ASSUME NEW t \in Thread, Acquire(t) \/ Release(t) PROVE SyncInv'
    <2>1. copy' = copy /\ bits' = bits
      BY <1>7 DEF Acquire, Release, locals
    <2>2. pc[t] # "clear" /\ lock \in {NoThread, t}
      BY <1>0, <1>7 DEF Acquire, Release, LockInv, LabelInv, Inside
    <2>3. \A u \in Thread : lock = u => pc[u] # "clear"
      BY <2>2, CardAssumption
    <2>4. QED
      BY <2>1, <2>3 DEF SyncInv, NoSync
  <1>8. ASSUME NEW t \in Thread,
               Command(t) \/ ReadError(t) \/ SyncVerify(t)
        PROVE  SyncInv'
    <2>1. copy' = copy /\ lock' = lock /\ bits' = bits /\ pc[t] # "clear"
          /\ \A u \in Thread \ {t} : pc'[u] = pc[u]
      BY <1>0, <1>8 DEF Command, ReadError, SyncVerify, Goto, locals, TypeOK
    <2>2. QED
      BY <2>1 DEF SyncInv, NoSync
  <1>9. QED
    BY <1>1, <1>2, <1>3, <1>4, <1>5, <1>6, <1>7, <1>8 DEF Next, InCall, WriteError

(* If no writePDI fails, a free lock means that no ADC card is left in the *)
(* synchronising state, in spite of the unlocked setInternalTriggerADC,    *)
(* which writes the same registers from an older copy.                     *)
THEOREM SyncEnds == ASSUME "writeFails" \notin Faults PROVE Spec => []SyncIsPulse
  <1>1. Init => SyncInv
    BY DEF Init, SyncInv, NoSync, EmptyCopy, Cell
  <1>2. IInv /\ SyncInv /\ [Next]_vars => SyncInv'
    BY SyncStep
  <1>3. SyncInv => SyncIsPulse
    BY CardAssumption DEF SyncInv, SyncIsPulse, NoSync
  <1>4. QED
    BY <1>1, <1>2, <1>3, Inductive, PTL DEF Spec

-----------------------------------------------------------------------------
(* What setDualSATA leaves behind.                                         *)

(* setDualSATA sends its command before it takes the lock, so two threads  *)
(* in it may leave the control card with the setting of one and the ADC    *)
(* cards with that of the other. The callers are all in the main thread.   *)
OneSetter ==
  \A t, u \in Thread : \A c \in Calls[t], d \in Calls[u] :
    c.op = "setDualSATA" /\ d.op = "setDualSATA" => t = u

SataSet(t, i) == ("dual" \in bits[ADC_address[i]]) = call[t].on

(* The cards that the loop of a thread has passed have its setting, and    *)
(* after the command so has the control card.                              *)
LoopInv(t) ==
  /\ pc[t] \in {"idle", "command", "acquire"} => card[t] = 1
  /\ call[t].op \in DualOps /\ Inside(t) =>
       \A i \in DOMAIN ADC_address :
         i < card[t] \/ (pc[t] = "release" /\ err[t] = "ok") => SataSet(t, i)
  /\ call[t].op = "setDualSATA" /\ pc[t] \in {"acquire", "read", "write", "release"} =>
       ccSata = call[t].on

SataInv == \A t \in Thread : LoopInv(t)

LEMMA OnlyOneSets ==
  ASSUME OneSetter, TypeOK, LabelInv, NEW t \in Thread, NEW u \in Thread,
         call[t].op = "setDualSATA", pc[t] # "idle",
         call[u].op = "setDualSATA", pc[u] # "idle"
  PROVE  t = u
  BY DEF OneSetter, LabelInv

(* While a thread is inside a locked operation the others leave the        *)
(* registers alone; after the command of a setter only a setter sends one. *)
LEMMA OthersLeaveLoop ==
  ASSUME OneSetter, TypeOK, LockInv, LabelInv, SataInv, NEW t \in Thread, NEW u \in Thread, u # t,
         InCall(u) \/ Acquire(u) \/ \E d \in Calls[u] : Begin(u, d)
  PROVE  LoopInv(t)'
  <1>1. /\ card'[t] = card[t] /\ call'[t] = call[t]
        /\ pc'[t] = pc[t] /\ err'[t] = err[t]
    BY DEF InCall, Acquire, Begin, Command, Release, Return, Read, ReadError, Write,
       WriteError, SyncClear, SyncVerify, Goto, SetErr, locals, TypeOK
  <1>2. Inside(t)' = Inside(t)
    BY <1>1 DEF Inside
  <1>3. Inside(t) => bits' = bits
    BY OthersWait DEF InCall, Acquire, Begin, Command, Release, Return, Read,
       ReadError, Write, WriteError, SyncClear, SyncVerify
  <1>4. ASSUME call[t].op = "setDualSATA", pc[t] \in {"acquire", "read", "write", "release"}
        PROVE  ccSata' = ccSata
    <2>1. ~(pc[u] = "command" /\ call[u].op = "setDualSATA")
      BY <1>4, OnlyOneSets
    <2>2. QED
      BY <2>1 DEF InCall, Acquire, Begin, Command, Release, Return, Read,
         ReadError, Write, WriteError, SyncClear, SyncVerify
  <1>5. LoopInv(t)
    BY DEF SataInv
  <1>6. QED
    BY <1>1, <1>2, <1>3, <1>4, <1>5 DEF LoopInv, SataSet

(* The next card, or the last one.                                         *)
LEMMA WriteLoop ==
  ASSUME TypeOK, LabelInv, NEW t \in Thread, LoopInv(t), Write(t), call[t].op \in DualOps
  PROVE  LoopInv(t)'
  <1>1. pc[t] = "write" /\ call' = call /\ ccSata' = ccSata /\ Inside(t)
    BY DEF Write, Inside, LockedOps
  <1>2. PICK k \in DOMAIN ADC_address : k = card[t]
    BY DEF TypeOK
  <1>3. /\ Cells(t) = {ADC_address[k]}
        /\ \A i \in DOMAIN ADC_address : ADC_address[i] \in Cell
    BY <1>2 DEF Cells, Cell, Adc, DualOps, TriggerOps
  <1>4. call[t].on \in BOOLEAN
    BY CallIsCall DEF CallType
  <1>5. ("dual" \in Changed(t)[ADC_address[k]]) = call[t].on
    BY <1>3, <1>4, CardAssumption DEF Changed, SetBits, ClearBits, DualOps, TriggerOps, PCOps
  <1>6. SataSet(t, k)'
    BY <1>1, <1>3, <1>5 DEF SataSet, Write, Written
  <1>7. ASSUME NEW i \in DOMAIN ADC_address, i < k PROVE SataSet(t, i)'
    <2>1. ADC_address[i] # ADC_address[k]
      BY <1>7, CardAssumption
    <2>2. bits'[ADC_address[i]] = bits[ADC_address[i]]
      BY <1>3, <2>1 DEF Write, Written
    <2>3. SataSet(t, i)
      BY <1>1, <1>2, <1>7 DEF LoopInv
    <2>4. QED
      BY <1>1, <2>2, <2>3 DEF SataSet
  <1>8. DOMAIN ADC_address = 1..Len(ADC_address) /\ Len(ADC_address) \in Nat
    BY CardAssumption
  <1>9. CASE LastCard(t)
    <2>1. pc'[t] = "release" /\ card' = card /\ \A i \in DOMAIN ADC_address : i <= k
      BY <1>2, <1>8, <1>9 DEF Write, Goto, TypeOK, LastCard, TriggerOps, PCOps, DualOps
    <2>2. \A i \in DOMAIN ADC_address : SataSet(t, i)'
      BY <1>2, <1>6, <1>7, <1>8, <2>1
    <2>3. QED
      BY <1>1, <2>1, <2>2 DEF LoopInv
  <1>10. CASE ~LastCard(t)
    <2>1. pc'[t] = "read" /\ card'[t] = k + 1
      BY <1>2, <1>10 DEF Write, Goto, TypeOK, TriggerOps, PCOps, DualOps
    <2>2. \A i \in DOMAIN ADC_address : i < card'[t] => SataSet(t, i)'
      BY <1>6, <1>7, <1>8, <2>1
    <2>3. QED
      BY <1>1, <2>1, <2>2 DEF LoopInv
  <1>11. QED
    BY <1>9, <1>10

(* A thread's own steps.                                                   *)
LEMMA OwnLoop ==
  ASSUME "sendLost" \notin Faults, TypeOK, LockInv, LabelInv, NEW t \in Thread, LoopInv(t),
         InCall(t) \/ Acquire(t) \/ \E d \in Calls[t] : Begin(t, d)
  PROVE  LoopInv(t)'
  <1> USE DEF LoopInv, Goto, TypeOK, Inside
  <1>1. ASSUME NEW d \in Calls[t], Begin(t, d) PROVE LoopInv(t)'
    <2>1. call'[t] = d /\ card' = card /\ pc[t] = "idle"
      BY <1>1 DEF Begin
    <2>2. /\ pc'[t] \in {"command", "acquire", "read"}
          /\ pc'[t] = "acquire" => d.op # "setDualSATA"
          /\ pc'[t] = "read" => d.op \notin DualOps
      BY <1>1 DEF Begin, DualOps
    <2>3. QED
      BY <2>1, <2>2 DEF DualOps
  <1>2. CASE Return(t)
    BY <1>2 DEF Return
  <1>3. CASE Command(t)
    <2>1. ASSUME call[t].op = "setDualSATA", pc'[t] = "acquire" PROVE ccSata' = call[t].on
      BY <1>3, <2>1 DEF Command
    <2>2. pc'[t] \in {"acquire", "read", "return"}
          /\ (pc'[t] = "read" => call[t].op \notin DualOps)
          /\ card' = card /\ call' = call
      BY <1>3, CallIsCall DEF Command, LabelInv, DualOps
    <2>3. QED
      BY <1>3, <2>1, <2>2 DEF Command, DualOps
  <1>4. CASE Acquire(t)
    <2>1. card[t] = 1 /\ pc'[t] = "read" /\ UNCHANGED <<bits, ccSata, locals>> /\ pc[t] = "acquire"
      BY <1>4 DEF Acquire
    <2>2. \A i \in DOMAIN ADC_address : ~(i < 1)
      BY CardAssumption
    <2>3. QED
      BY <2>1, <2>2 DEF locals
  <1>5. CASE Release(t)
    BY <1>5 DEF Release, locals
  <1>6. CASE Read(t)
    <2>1. UNCHANGED <<bits, ccSata, call, card, err>> /\ pc[t] \in {"read", "reread"}
      BY <1>6 DEF Read
    <2>2. call[t].op \in DualOps => pc[t] = "read" /\ pc'[t] = "write"
      BY <1>6 DEF Read, LabelInv, DualOps
    <2>3. pc'[t] \in {"write", "reread"}
      BY <1>6 DEF Read
    <2>4. QED
      BY <2>1, <2>2, <2>3 DEF SataSet, DualOps
  <1>7. CASE ReadError(t)
    <2>1. UNCHANGED <<bits, ccSata, call, card>> /\ pc[t] \in {"read", "reread"}
      BY <1>7 DEF ReadError
    <2>2. pc'[t] \in {"release", "dead", "return"} /\ err'[t] = "error"
          /\ (call[t].op \in DualOps => pc'[t] = "dead" /\ pc[t] = "read")
      BY <1>7 DEF ReadError, SetErr, LabelInv, DualOps, TriggerOps, PCOps
    <2>3. QED
      BY <2>1, <2>2 DEF SataSet, DualOps
  <1>8. CASE Write(t)
    <2>1. CASE call[t].op \in DualOps
      BY <1>8, <2>1, WriteLoop
    <2>2. CASE call[t].op \notin DualOps
      <3>1. pc'[t] \in {"clear", "return"} /\ call' = call
        BY <1>8, <2>2 DEF Write
      <3>2. QED
        BY <2>2, <3>1 DEF DualOps
    <2>3. QED
      BY <2>1, <2>2
  <1>9. CASE WriteError(t)
    <2>1. pc[t] = "write" /\ UNCHANGED <<ccSata, call, card>>
          /\ pc'[t] \in {"release", "return"} /\ err'[t] = "error"
      BY <1>9 DEF WriteError, SetErr
    <2>2. ASSUME call[t].op \in DualOps, NEW i \in DOMAIN ADC_address, i < card[t]
          PROVE  SataSet(t, i)'
      <3>1. SataSet(t, i)
        BY <2>1, <2>2 DEF LockedOps
      <3>2. ADC_address[i] \notin Cells(t) /\ ADC_address[i] \in Cell
        <4>1. ADC_address[i] # ADC_address[card[t]] /\ card[t] \in DOMAIN ADC_address
          BY <2>2, CardAssumption
        <4>2. QED
          BY <2>2, <4>1 DEF Cells, Cell, Adc, DualOps, TriggerOps
      <3>3. bits'[ADC_address[i]] = bits[ADC_address[i]]
        BY <1>9, <3>2 DEF WriteError, Written
      <3>4. QED
        BY <2>1, <3>1, <3>3 DEF SataSet
    <2>3. QED
      BY <2>1, <2>2
  <1>10. CASE SyncClear(t) \/ SyncVerify(t)
    <2>1. call[t].op = "syncADC" /\ call' = call /\ pc'[t] \in {"verify", "release"}
      BY <1>10 DEF SyncClear, SyncVerify, LabelInv, locals
    <2>2. QED
      BY <2>1 DEF DualOps
  <1>11. QED
    BY <1>1, <1>2, <1>3, <1>4, <1>5, <1>6, <1>7, <1>8, <1>9, <1>10 DEF InCall

LEMMA SataStep ==
  ASSUME OneSetter, "sendLost" \notin Faults
  PROVE  IInv /\ SataInv /\ [Next]_vars => SataInv'
  <1> SUFFICES ASSUME IInv, SataInv, [Next]_vars, NEW t \in Thread PROVE LoopInv(t)'
    BY DEF SataInv
  <1>1. TypeOK /\ LockInv /\ LabelInv /\ LoopInv(t)
    BY DEF IInv, SataInv
  <1>2. CASE UNCHANGED vars
    BY <1>1, <1>2 DEF vars, locals, LoopInv, SataSet, Inside
  <1>3. ASSUME NEW u \in Thread, InCall(u) \/ Acquire(u) \/ \E d \in Calls[u] : Begin(u, d)
        PROVE  LoopInv(t)'
    BY <1>1, <1>3, OwnLoop, OthersLeaveLoop
  <1>4. QED
    BY <1>2, <1>3 DEF Next

(* When setDualSATA ends without an error, and no command is lost on its   *)
(* way, the control card and every ADC card have the setting asked for,    *)
(* whatever other threads do to the same registers.                        *)
THEOREM SataAgrees ==
  ASSUME OneSetter, "sendLost" \notin Faults PROVE Spec => []SataConsistent
  <1>1. Init => SataInv
    BY DEF Init, SataInv, LoopInv, Inside
  <1>2. IInv /\ SataInv /\ [Next]_vars => SataInv'
    BY SataStep
  <1>3. IInv /\ SataInv => SataConsistent
    BY DEF IInv, SataInv, LoopInv, SataConsistent, SataSet, Inside, Adc, LockedOps
  <1>4. QED
    BY <1>1, <1>2, <1>3, Inductive, PTL DEF Spec
=============================================================================
