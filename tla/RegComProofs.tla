---------------------------- MODULE RegComProofs ----------------------------
(***************************************************************************)
(* Proofs about RegCom: types and lock discipline, whatever the faults;    *)
(* then what reads and checked writes return, and what they leave behind,  *)
(* and that they implement the register file RegFile, as long as packets   *)
(* and answers are at worst lost.                                          *)
(***************************************************************************)
EXTENDS RegComRefines, SequenceTheorems, WellFoundedInduction, TLAPS

LEMMA AnyCallType == AnyCall \in Calls
  BY RegComAssumption DEF AnyCall

LEMMA CallType ==
  ASSUME NEW c \in Calls
  PROVE  /\ c.op \in ReadOps \cup WriteOps \cup SendOps
         /\ c.regs \in Seq(Reg) /\ Len(c.regs) \in Nat /\ Len(c.regs) > 0
         /\ c.vals \in Seq(Val)
         /\ c.op \notin ReadOps => Len(c.vals) = Len(c.regs)
  BY RegComAssumption DEF CallOK

(* The packets a call builds are sequences of commands.                    *)
LEMMA ReadCmdsType ==
  ASSUME NEW c \in Calls
  PROVE  /\ ReadCmds(c) \in Seq(ReadCmd \cup WriteCmd)
         /\ Len(ReadCmds(c)) = Len(c.regs)
         /\ \A i \in 1..Len(c.regs) :
              ReadCmds(c)[i].op = "read" /\ ReadCmds(c)[i].reg = c.regs[i]
  BY CallType DEF ReadCmds, ReadCmd

LEMMA WriteCmdsType ==
  ASSUME NEW c \in Calls, c.op \notin ReadOps
  PROVE  /\ WriteCmds(c) \in Seq(ReadCmd \cup WriteCmd)
         /\ Len(WriteCmds(c)) = Len(c.regs)
         /\ \A i \in 1..Len(c.regs) :
              /\ WriteCmds(c)[i].op = IF c.op = "writePDI" THEN "write" ELSE "send"
              /\ WriteCmds(c)[i] \in WriteCmd
  <1>1. \A i \in 1..Len(c.regs) : c.regs[i] \in Reg /\ c.vals[i] \in Val
    BY CallType
  <1>2. QED BY <1>1, CallType DEF WriteCmds, WriteCmd

-----------------------------------------------------------------------------
(* Type correctness needs to know which methods a thread can be in, and    *)
(* that the repetition loops have repetitions left.                        *)

OpInv ==
  \A t \in Thread :
    /\ pc[t] = "acquire" => call[t].op \in ReadOps \cup WriteOps
    /\ pc[t] \in {"append", "flush"} => call[t].op \in SendOps
    /\ pc[t] \in ReadPC => call[t].op \in ReadOps \cup {"writePDI"}
    /\ pc[t] \in WritePC => call[t].op \in WriteOps

LoopInv ==
  \A t \in Thread :
    /\ pc[t] \in {"idle", "acquire", "append", "flush"} => rep[t] = 0 /\ wrep[t] = 0
    /\ pc[t] \in {"rsend", "recv", "clear"} => rep[t] < RepeatNumber
    /\ pc[t] \in {"wsend", "wclear"} => wrep[t] < RepeatNumber
    /\ pc[t] \in ReadPC => wrep[t] < RepeatNumber

TypeInv == TypeOK /\ OpInv /\ LoopInv

LEMMA TypeInit == Init => TypeInv
  <1> SUFFICES ASSUME Init PROVE TypeInv
    OBVIOUS
  <1> USE DEF Init
  <1>1. LockType
    BY DEF LockType
  <1>2. WireType
    BY DEF WireType
  <1>3. ThreadType
    BY AnyCallType, RegComAssumption DEF ThreadType, PC
  <1>4. OpInv /\ LoopInv
    BY RegComAssumption DEF OpInv, LoopInv, ReadPC, WritePC
  <1>5. QED
    BY <1>1, <1>2, <1>3, <1>4 DEF TypeInv, TypeOK

(* Sending keeps the types of the wire, the lock operations that of lock.  *)
LEMMA SendTypes ==
  ASSUME WireType, NEW packet \in Seq(ReadCmd \cup WriteCmd), Sent(packet) \/ SendFails(packet)
  PROVE  WireType'
  <1> DEFINE S == ReadCmd \cup WriteCmd
  <1>1. toCam \in Seq(S) /\ packet \in Seq(S)
    BY DEF WireType
  <1>2. toCam \o packet \in Seq(S) /\ <<>> \in Seq(S)
    BY <1>1
  <1>3. CASE Sent(packet)
    BY <1>1, <1>2, <1>3 DEF WireType, Sent
  <1>4. CASE SendFails(packet)
    BY <1>1, <1>2, <1>4 DEF WireType, SendFails
  <1>5. QED
    BY <1>3, <1>4

(* A repetition is only counted when there is one left.                    *)
LEMMA CountType ==
  ASSUME NEW f \in [Thread -> 0..RepeatNumber], NEW t \in Thread, f[t] < RepeatNumber
  PROVE  [f EXCEPT ![t] = f[t] + 1] \in [Thread -> 0..RepeatNumber]
  <1>1. f[t] + 1 \in 0..RepeatNumber
    BY RegComAssumption
  <1>2. QED
    BY <1>1

LEMMA UnlockType ==
  ASSUME LockType, NEW t \in Thread, Unlock(t)
  PROVE  lock' \in [owner : Thread \cup {NoThread}, depth : Int]
  BY DEF LockType, Unlock, Unlocked

LEMMA LockTaken ==
  ASSUME LockType, NEW t \in Thread, Lock(t)
  PROVE  /\ lock' \in [owner : Thread \cup {NoThread}, depth : Int]
         /\ lock'.owner = t /\ lock'.depth = lock.depth + 1
  BY DEF LockType, Lock

LEMMA TypeStep == TypeInv /\ [Next]_vars => TypeInv'
  <1> SUFFICES ASSUME TypeInv, [Next]_vars PROVE TypeInv'
    OBVIOUS
  <1> DEFINE S == ReadCmd \cup WriteCmd
  <1>0. LockType /\ WireType /\ ThreadType /\ OpInv /\ LoopInv
    BY DEF TypeInv, TypeOK
  <1> HIDE DEF S
  <1>1. ASSUME NEW t \in Thread, NEW c \in Calls, Begin(t, c) PROVE TypeInv'
    <2>1. LockType'
      BY <1>0, <1>1 DEF Begin, LockType
    <2>2. WireType'
      BY <1>0, <1>1 DEF Begin, WireType, wire
    <2>3. ThreadType'
      BY <1>0, <1>1, RegComAssumption, CallType DEF Begin, ThreadType, LoopInv, PC, ReadPC, WritePC, locals
    <2>4. OpInv'
      BY <1>0, <1>1, CallType DEF Begin, ThreadType, OpInv, PC, ReadPC, WritePC, ReadOps, WriteOps, SendOps, locals
    <2>5. LoopInv'
      BY <1>0, <1>1, RegComAssumption DEF Begin, ThreadType, LoopInv, PC, ReadPC, WritePC, locals
    <2>6. QED
      BY <2>1, <2>2, <2>3, <2>4, <2>5 DEF TypeInv, TypeOK
  <1>2. ASSUME NEW t \in Thread, Return(t) PROVE TypeInv'
    <2>1. LockType'
      BY <1>0, <1>2 DEF Return, LockType
    <2>2. WireType'
      BY <1>0, <1>2 DEF Return, WireType, wire
    <2>3. ThreadType'
      BY <1>0, <1>2, RegComAssumption, AnyCallType DEF Return, ThreadType, LoopInv, PC, ReadPC, WritePC, locals
    <2>4. OpInv'
      BY <1>0, <1>2, AnyCallType DEF Return, ThreadType, OpInv, PC, ReadPC, WritePC, ReadOps, WriteOps, SendOps, locals
    <2>5. LoopInv'
      BY <1>0, <1>2, RegComAssumption DEF Return, ThreadType, LoopInv, PC, ReadPC, WritePC, locals
    <2>6. QED
      BY <2>1, <2>2, <2>3, <2>4, <2>5 DEF TypeInv, TypeOK
  <1>3. ASSUME NEW t \in Thread, Acquire(t) PROVE TypeInv'
    <2>1. LockType'
      BY <1>0, <1>3, LockTaken DEF Acquire, LockType
    <2>2. WireType'
      BY <1>0, <1>3 DEF Acquire, WireType, wire
    <2>3. ThreadType'
      BY <1>0, <1>3, RegComAssumption DEF Acquire, ThreadType, LoopInv, PC, ReadPC, WritePC, locals
    <2>4. OpInv'
      BY <1>0, <1>3 DEF Acquire, ThreadType, OpInv, PC, ReadPC, WritePC, ReadOps, WriteOps, SendOps, locals
    <2>5. LoopInv'
      BY <1>0, <1>3, RegComAssumption DEF Acquire, ThreadType, LoopInv, PC, ReadPC, WritePC, locals
    <2>6. QED
      BY <2>1, <2>2, <2>3, <2>4, <2>5 DEF TypeInv, TypeOK
  <1>4. ASSUME NEW t \in Thread, AppendCommand(t) PROVE TypeInv'
    <2>0. UDP_data' \in Seq(S)
      <3>1. call[t] \in Calls /\ call[t].op \in SendOps
        BY <1>0, <1>4 DEF AppendCommand, ThreadType, OpInv
      <3>2. ASSUME pos[t] < Len(call[t].regs)
            PROVE  WriteCmds(call[t])[pos[t] + 1] \in S
        <4>1. call[t].op \notin ReadOps /\ pos[t] \in Nat
          BY <1>0, <3>1 DEF ThreadType, SendOps, ReadOps
        <4>2. pos[t] + 1 \in 1..Len(call[t].regs)
          BY <3>1, <3>2, <4>1, CallType
        <4>3. QED
          BY <3>1, <4>1, <4>2, WriteCmdsType DEF S
      <3>3. UDP_data \in Seq(S)
        BY <1>0 DEF WireType, S
      <3>4. QED
        BY <1>4, <3>2, <3>3 DEF AppendCommand
    <2>1. LockType'
      BY <1>0, <1>4 DEF AppendCommand, LockType
    <2>2. WireType'
      BY <1>0, <1>4, <2>0 DEF AppendCommand, WireType, S
    <2>3. ThreadType'
      <3>1. pc' \in [Thread -> PC] /\ call' \in [Thread -> Calls]
        BY <1>0, <1>4 DEF AppendCommand, ThreadType, PC
      <3>2. rep' \in [Thread -> 0..RepeatNumber]
        <4>1. rep \in [Thread -> 0..RepeatNumber]
          BY <1>0 DEF ThreadType
        <4>2. \/ rep' = rep \/ rep' = [rep EXCEPT ![t] = 0]
              \/ rep[t] < RepeatNumber /\ rep' = [rep EXCEPT ![t] = rep[t] + 1]
          BY <1>0, <1>4 DEF AppendCommand, LoopInv, ReadPC, WritePC
        <4>3. QED
          BY <4>1, <4>2, CountType, RegComAssumption
      <3>3. wrep' \in [Thread -> 0..RepeatNumber]
        <4>1. wrep \in [Thread -> 0..RepeatNumber]
          BY <1>0 DEF ThreadType
        <4>2. \/ wrep' = wrep \/ wrep' = [wrep EXCEPT ![t] = 0]
              \/ wrep[t] < RepeatNumber /\ wrep' = [wrep EXCEPT ![t] = wrep[t] + 1]
          BY <1>0, <1>4 DEF AppendCommand, LoopInv, ReadPC, WritePC
        <4>3. QED
          BY <4>1, <4>2, CountType, RegComAssumption
      <3>4. pos' \in [Thread -> Nat] /\ err' \in [Thread -> {"ok", "error"}]
        <4>1. pos \in [Thread -> Nat] /\ err \in [Thread -> {"ok", "error"}]
          BY <1>0 DEF ThreadType
        <4>2. pos' = pos \/ pos' = [pos EXCEPT ![t] = pos[t] + 1]
          BY <1>4 DEF AppendCommand
        <4>3. err' = err \/ err' = [err EXCEPT ![t] = "error"]
          BY <1>4 DEF AppendCommand
        <4>4. QED
          BY <4>1, <4>2, <4>3
      <3>5. data' \in [Thread -> Seq(Val)]
        BY <1>0, <1>4 DEF AppendCommand, ThreadType
      <3>6. QED
        BY <3>1, <3>2, <3>3, <3>4, <3>5 DEF ThreadType
    <2>4. OpInv'
      BY <1>0, <1>4 DEF AppendCommand, ThreadType, OpInv, PC, ReadPC, WritePC, ReadOps, WriteOps, SendOps, locals
    <2>5. LoopInv'
      BY <1>0, <1>4, RegComAssumption DEF AppendCommand, ThreadType, LoopInv, PC, ReadPC, WritePC, locals
    <2>6. QED
      BY <2>1, <2>2, <2>3, <2>4, <2>5 DEF TypeInv, TypeOK
  <1>5. ASSUME NEW t \in Thread, Flush(t) PROVE TypeInv'
    <2>0. FlushPacket(t) \in Seq(S)
      <3>1. call[t] \in Calls /\ call[t].op \in SendOps
        BY <1>0, <1>5 DEF Flush, ThreadType, OpInv
      <3>2. WriteCmds(call[t]) \in Seq(S) /\ UDP_data \in Seq(S)
        BY <1>0, <3>1, WriteCmdsType DEF SendOps, ReadOps, S, WireType
      <3>3. QED
        BY <3>2 DEF FlushPacket
    <2>1. LockType'
      BY <1>0, <1>5 DEF Flush, LockType
    <2>2. WireType'
      BY <1>0, <1>5, <2>0, SendTypes DEF Flush, S
    <2>3. ThreadType'
      BY <1>0, <1>5, RegComAssumption DEF Flush, ThreadType, LoopInv, PC, ReadPC, WritePC, locals
    <2>4. OpInv'
      BY <1>0, <1>5 DEF Flush, ThreadType, OpInv, PC, ReadPC, WritePC, ReadOps, WriteOps, SendOps, locals
    <2>5. LoopInv'
      BY <1>0, <1>5, RegComAssumption DEF Flush, ThreadType, LoopInv, PC, ReadPC, WritePC, locals
    <2>6. QED
      BY <2>1, <2>2, <2>3, <2>4, <2>5 DEF TypeInv, TypeOK
  <1>6. ASSUME NEW t \in Thread, ReadSend(t) PROVE TypeInv'
    <2>0. UDP_data \o ReadCmds(call[t]) \in Seq(S)
      <3>1. ReadCmds(call[t]) \in Seq(S) /\ UDP_data \in Seq(S)
        BY <1>0, ReadCmdsType DEF ThreadType, WireType, S
      <3>2. QED
        BY <3>1
    <2>1. LockType'
      BY <1>0, <1>6 DEF ReadSend, NextRead, LockType
    <2>2. WireType'
      BY <1>0, <1>6, <2>0, SendTypes DEF ReadSend, S
    <2>3. ThreadType'
      <3>1. pc' \in [Thread -> PC] /\ call' \in [Thread -> Calls]
        BY <1>0, <1>6 DEF ReadSend, NextRead, ThreadType, PC
      <3>2. rep' \in [Thread -> 0..RepeatNumber]
        <4>1. rep \in [Thread -> 0..RepeatNumber]
          BY <1>0 DEF ThreadType
        <4>2. \/ rep' = rep \/ rep' = [rep EXCEPT ![t] = 0]
              \/ rep[t] < RepeatNumber /\ rep' = [rep EXCEPT ![t] = rep[t] + 1]
          BY <1>0, <1>6 DEF ReadSend, NextRead, LoopInv, ReadPC, WritePC
        <4>3. QED
          BY <4>1, <4>2, CountType, RegComAssumption
      <3>3. wrep' \in [Thread -> 0..RepeatNumber]
        <4>1. wrep \in [Thread -> 0..RepeatNumber]
          BY <1>0 DEF ThreadType
        <4>2. \/ wrep' = wrep \/ wrep' = [wrep EXCEPT ![t] = 0]
              \/ wrep[t] < RepeatNumber /\ wrep' = [wrep EXCEPT ![t] = wrep[t] + 1]
          BY <1>0, <1>6 DEF ReadSend, NextRead, LoopInv, ReadPC, WritePC
        <4>3. QED
          BY <4>1, <4>2, CountType, RegComAssumption
      <3>4. pos' \in [Thread -> Nat] /\ err' \in [Thread -> {"ok", "error"}]
        BY <1>0, <1>6 DEF ReadSend, NextRead, ThreadType
      <3>5. data' \in [Thread -> Seq(Val)]
        <4>1. data \in [Thread -> Seq(Val)]
          BY <1>0 DEF ThreadType
        <4>2. <<>> \in Seq(Val)
          BY <4>1
        <4>3. data' = data \/ data' = [data EXCEPT ![t] = <<>>]
          BY <1>6 DEF ReadSend, NextRead
        <4>4. QED
          BY <4>1, <4>2, <4>3
      <3>6. QED
        BY <3>1, <3>2, <3>3, <3>4, <3>5 DEF ThreadType
    <2>4. OpInv'
      BY <1>0, <1>6 DEF ReadSend, NextRead, ThreadType, OpInv, PC, ReadPC, WritePC, ReadOps, WriteOps, SendOps, locals
    <2>5. LoopInv'
      BY <1>0, <1>6, RegComAssumption DEF ReadSend, NextRead, ThreadType, LoopInv, PC, ReadPC, WritePC, locals
    <2>6. QED
      BY <2>1, <2>2, <2>3, <2>4, <2>5 DEF TypeInv, TypeOK
  <1>7. ASSUME NEW t \in Thread, Recv(t) PROVE TypeInv'
    <2>0. Head(rxq).val \in Val /\ Tail(rxq) \in Seq(Answer)
      <3>1. rxq \in Seq(Answer) /\ rxq # <<>>
        BY <1>0, <1>7 DEF Recv, WireType
      <3>2. Head(rxq) \in Answer /\ Tail(rxq) \in Seq(Answer)
        BY <3>1
      <3>3. QED
        BY <3>2 DEF Answer
    <2>1. LockType'
      BY <1>0, <1>7 DEF Recv, LockType
    <2>2. WireType'
      BY <1>0, <1>7, <2>0 DEF Recv, WireType
    <2>3. ThreadType'
      <3>1. pc' \in [Thread -> PC] /\ call' \in [Thread -> Calls]
        BY <1>0, <1>7 DEF Recv, ThreadType, PC
      <3>2. rep' \in [Thread -> 0..RepeatNumber]
        <4>1. rep \in [Thread -> 0..RepeatNumber]
          BY <1>0 DEF ThreadType
        <4>2. \/ rep' = rep \/ rep' = [rep EXCEPT ![t] = 0]
              \/ rep[t] < RepeatNumber /\ rep' = [rep EXCEPT ![t] = rep[t] + 1]
          BY <1>0, <1>7 DEF Recv, LoopInv, ReadPC, WritePC
        <4>3. QED
          BY <4>1, <4>2, CountType, RegComAssumption
      <3>3. wrep' \in [Thread -> 0..RepeatNumber]
        <4>1. wrep \in [Thread -> 0..RepeatNumber]
          BY <1>0 DEF ThreadType
        <4>2. \/ wrep' = wrep \/ wrep' = [wrep EXCEPT ![t] = 0]
              \/ wrep[t] < RepeatNumber /\ wrep' = [wrep EXCEPT ![t] = wrep[t] + 1]
          BY <1>0, <1>7 DEF Recv, LoopInv, ReadPC, WritePC
        <4>3. QED
          BY <4>1, <4>2, CountType, RegComAssumption
      <3>4. pos' \in [Thread -> Nat] /\ err' \in [Thread -> {"ok", "error"}]
        BY <1>0, <1>7 DEF Recv, ThreadType
      <3>5. data' \in [Thread -> Seq(Val)]
        <4>1. data \in [Thread -> Seq(Val)]
          BY <1>0 DEF ThreadType
        <4>2. Append(data[t], Head(rxq).val) \in Seq(Val)
          BY <4>1, <2>0
        <4>3. data' = data \/ data' = [data EXCEPT ![t] = Append(data[t], Head(rxq).val)]
          BY <1>7 DEF Recv
        <4>4. QED
          BY <4>1, <4>2, <4>3
      <3>6. QED
        BY <3>1, <3>2, <3>3, <3>4, <3>5 DEF ThreadType
    <2>4. OpInv'
      BY <1>0, <1>7, <2>0 DEF Recv, ThreadType, OpInv, PC, ReadPC, WritePC, ReadOps, WriteOps, SendOps, locals
    <2>5. LoopInv'
      BY <1>0, <1>7, RegComAssumption DEF Recv, ThreadType, LoopInv, PC, ReadPC, WritePC, locals
    <2>6. QED
      BY <2>1, <2>2, <2>3, <2>4, <2>5 DEF TypeInv, TypeOK
  <1>8. ASSUME NEW t \in Thread, RecvNothing(t) PROVE TypeInv'
    <2>1. LockType'
      BY <1>0, <1>8 DEF RecvNothing, LockType
    <2>2. WireType'
      BY <1>0, <1>8 DEF RecvNothing, WireType, wire
    <2>3. ThreadType'
      BY <1>0, <1>8, RegComAssumption DEF RecvNothing, ThreadType, LoopInv, PC, ReadPC, WritePC, locals
    <2>4. OpInv'
      BY <1>0, <1>8 DEF RecvNothing, ThreadType, OpInv, PC, ReadPC, WritePC, ReadOps, WriteOps, SendOps, locals
    <2>5. LoopInv'
      BY <1>0, <1>8, RegComAssumption DEF RecvNothing, ThreadType, LoopInv, PC, ReadPC, WritePC, locals
    <2>6. QED
      BY <2>1, <2>2, <2>3, <2>4, <2>5 DEF TypeInv, TypeOK
  <1>9. ASSUME NEW t \in Thread, ReadDone(t) PROVE TypeInv'
    <2>1. LockType'
      BY <1>0, <1>9, UnlockType DEF ReadDone, LockType
    <2>2. WireType'
      BY <1>0, <1>9 DEF ReadDone, NextWrite, WireType, wire
    <2>3. ThreadType'
      <3>1. pc' \in [Thread -> PC] /\ call' \in [Thread -> Calls]
        BY <1>0, <1>9 DEF ReadDone, NextWrite, ThreadType, PC
      <3>2. rep' \in [Thread -> 0..RepeatNumber]
        <4>1. rep \in [Thread -> 0..RepeatNumber]
          BY <1>0 DEF ThreadType
        <4>2. \/ rep' = rep \/ rep' = [rep EXCEPT ![t] = 0]
              \/ rep[t] < RepeatNumber /\ rep' = [rep EXCEPT ![t] = rep[t] + 1]
          BY <1>0, <1>9 DEF ReadDone, NextWrite, LoopInv, ReadPC, WritePC
        <4>3. QED
          BY <4>1, <4>2, CountType, RegComAssumption
      <3>3. wrep' \in [Thread -> 0..RepeatNumber]
        <4>1. wrep \in [Thread -> 0..RepeatNumber]
          BY <1>0 DEF ThreadType
        <4>2. \/ wrep' = wrep \/ wrep' = [wrep EXCEPT ![t] = 0]
              \/ wrep[t] < RepeatNumber /\ wrep' = [wrep EXCEPT ![t] = wrep[t] + 1]
          BY <1>0, <1>9 DEF ReadDone, NextWrite, LoopInv, ReadPC, WritePC
        <4>3. QED
          BY <4>1, <4>2, CountType, RegComAssumption
      <3>4. pos' \in [Thread -> Nat] /\ err' \in [Thread -> {"ok", "error"}]
        BY <1>0, <1>9 DEF ReadDone, NextWrite, ThreadType
      <3>5. data' \in [Thread -> Seq(Val)]
        BY <1>0, <1>9 DEF ReadDone, NextWrite, ThreadType
      <3>6. QED
        BY <3>1, <3>2, <3>3, <3>4, <3>5 DEF ThreadType
    <2>4. OpInv'
      BY <1>0, <1>9 DEF ReadDone, NextWrite, ThreadType, OpInv, PC, ReadPC, WritePC, ReadOps, WriteOps, SendOps, locals
    <2>5. LoopInv'
      BY <1>0, <1>9, RegComAssumption DEF ReadDone, NextWrite, ThreadType, LoopInv, PC, ReadPC, WritePC, locals
    <2>6. QED
      BY <2>1, <2>2, <2>3, <2>4, <2>5 DEF TypeInv, TypeOK
  <1>10. ASSUME NEW t \in Thread, WriteSend(t) PROVE TypeInv'
    <2>0. UDP_data \o WriteCmds(call[t]) \in Seq(S)
      <3>1. call[t] \in Calls /\ call[t].op \in WriteOps
        BY <1>0, <1>10 DEF WriteSend, ThreadType, OpInv, WritePC
      <3>2. WriteCmds(call[t]) \in Seq(S) /\ UDP_data \in Seq(S)
        BY <1>0, <3>1, WriteCmdsType DEF WriteOps, ReadOps, WireType, S
      <3>3. QED
        BY <3>2
    <2>1. LockType'
      BY <1>0, <1>10, LockTaken DEF WriteSend, LockType
    <2>2. WireType'
      BY <1>0, <1>10, <2>0, SendTypes DEF WriteSend, S
    <2>3. ThreadType'
      <3>1. pc' \in [Thread -> PC] /\ call' \in [Thread -> Calls]
        BY <1>0, <1>10 DEF WriteSend, NextWrite, ThreadType, PC
      <3>2. rep' \in [Thread -> 0..RepeatNumber]
        <4>1. rep \in [Thread -> 0..RepeatNumber]
          BY <1>0 DEF ThreadType
        <4>2. \/ rep' = rep \/ rep' = [rep EXCEPT ![t] = 0]
              \/ rep[t] < RepeatNumber /\ rep' = [rep EXCEPT ![t] = rep[t] + 1]
          BY <1>0, <1>10 DEF WriteSend, NextWrite, LoopInv, ReadPC, WritePC
        <4>3. QED
          BY <4>1, <4>2, CountType, RegComAssumption
      <3>3. wrep' \in [Thread -> 0..RepeatNumber]
        <4>1. wrep \in [Thread -> 0..RepeatNumber]
          BY <1>0 DEF ThreadType
        <4>2. \/ wrep' = wrep \/ wrep' = [wrep EXCEPT ![t] = 0]
              \/ wrep[t] < RepeatNumber /\ wrep' = [wrep EXCEPT ![t] = wrep[t] + 1]
          BY <1>0, <1>10 DEF WriteSend, NextWrite, LoopInv, ReadPC, WritePC
        <4>3. QED
          BY <4>1, <4>2, CountType, RegComAssumption
      <3>4. pos' \in [Thread -> Nat] /\ err' \in [Thread -> {"ok", "error"}]
        BY <1>0, <1>10 DEF WriteSend, NextWrite, ThreadType
      <3>5. data' \in [Thread -> Seq(Val)]
        <4>1. data \in [Thread -> Seq(Val)]
          BY <1>0 DEF ThreadType
        <4>2. <<>> \in Seq(Val)
          BY <4>1
        <4>3. data' = data \/ data' = [data EXCEPT ![t] = <<>>]
          BY <1>10 DEF WriteSend, NextWrite
        <4>4. QED
          BY <4>1, <4>2, <4>3
      <3>6. QED
        BY <3>1, <3>2, <3>3, <3>4, <3>5 DEF ThreadType
    <2>4. OpInv'
      BY <1>0, <1>10 DEF WriteSend, NextWrite, ThreadType, OpInv, PC, ReadPC, WritePC, ReadOps, WriteOps, SendOps, locals
    <2>5. LoopInv'
      BY <1>0, <1>10, RegComAssumption DEF WriteSend, NextWrite, ThreadType, LoopInv, PC, ReadPC, WritePC, locals
    <2>6. QED
      BY <2>1, <2>2, <2>3, <2>4, <2>5 DEF TypeInv, TypeOK
  <1>11. ASSUME NEW t \in Thread, WriteDone(t) PROVE TypeInv'
    <2>1. LockType'
      BY <1>0, <1>11, UnlockType DEF WriteDone, LockType
    <2>2. WireType'
      BY <1>0, <1>11 DEF WriteDone, WireType, wire
    <2>3. ThreadType'
      BY <1>0, <1>11, RegComAssumption DEF WriteDone, ThreadType, LoopInv, PC, ReadPC, WritePC, locals
    <2>4. OpInv'
      BY <1>0, <1>11 DEF WriteDone, ThreadType, OpInv, PC, ReadPC, WritePC, ReadOps, WriteOps, SendOps, locals
    <2>5. LoopInv'
      BY <1>0, <1>11, RegComAssumption DEF WriteDone, ThreadType, LoopInv, PC, ReadPC, WritePC, locals
    <2>6. QED
      BY <2>1, <2>2, <2>3, <2>4, <2>5 DEF TypeInv, TypeOK
  <1>12. ASSUME NEW t \in Thread, ClearOne(t) PROVE TypeInv'
    <2>1. LockType'
      BY <1>0, <1>12 DEF ClearOne, LockType
    <2>2. WireType'
      BY <1>0, <1>12 DEF ClearOne, WireType, wire
    <2>3. ThreadType'
      BY <1>0, <1>12, RegComAssumption DEF ClearOne, ThreadType, LoopInv, PC, ReadPC, WritePC, locals
    <2>4. OpInv'
      BY <1>0, <1>12 DEF ClearOne, ThreadType, OpInv, PC, ReadPC, WritePC, ReadOps, WriteOps, SendOps, locals
    <2>5. LoopInv'
      BY <1>0, <1>12, RegComAssumption DEF ClearOne, ThreadType, LoopInv, PC, ReadPC, WritePC, locals
    <2>6. QED
      BY <2>1, <2>2, <2>3, <2>4, <2>5 DEF TypeInv, TypeOK
  <1>13. ASSUME NEW t \in Thread, ClearDone(t) PROVE TypeInv'
    <2>1. LockType'
      BY <1>0, <1>13 DEF ClearDone, NextRead, NextWrite, LockType
    <2>2. WireType'
      BY <1>0, <1>13 DEF ClearDone, NextRead, NextWrite, WireType, wire
    <2>3. ThreadType'
      <3>1. pc' \in [Thread -> PC] /\ call' \in [Thread -> Calls]
        BY <1>0, <1>13 DEF ClearDone, NextRead, NextWrite, ThreadType, PC
      <3>2. rep' \in [Thread -> 0..RepeatNumber]
        <4>1. rep \in [Thread -> 0..RepeatNumber]
          BY <1>0 DEF ThreadType
        <4>2. \/ rep' = rep \/ rep' = [rep EXCEPT ![t] = 0]
              \/ rep[t] < RepeatNumber /\ rep' = [rep EXCEPT ![t] = rep[t] + 1]
          BY <1>0, <1>13 DEF ClearDone, NextRead, NextWrite, LoopInv, ReadPC, WritePC
        <4>3. QED
          BY <4>1, <4>2, CountType, RegComAssumption
      <3>3. wrep' \in [Thread -> 0..RepeatNumber]
        <4>1. wrep \in [Thread -> 0..RepeatNumber]
          BY <1>0 DEF ThreadType
        <4>2. \/ wrep' = wrep \/ wrep' = [wrep EXCEPT ![t] = 0]
              \/ wrep[t] < RepeatNumber /\ wrep' = [wrep EXCEPT ![t] = wrep[t] + 1]
          BY <1>0, <1>13 DEF ClearDone, NextRead, NextWrite, LoopInv, ReadPC, WritePC
        <4>3. QED
          BY <4>1, <4>2, CountType, RegComAssumption
      <3>4. pos' \in [Thread -> Nat] /\ err' \in [Thread -> {"ok", "error"}]
        BY <1>0, <1>13 DEF ClearDone, NextRead, NextWrite, ThreadType
      <3>5. data' \in [Thread -> Seq(Val)]
        BY <1>0, <1>13 DEF ClearDone, NextRead, NextWrite, ThreadType
      <3>6. QED
        BY <3>1, <3>2, <3>3, <3>4, <3>5 DEF ThreadType
    <2>4. OpInv'
      BY <1>0, <1>13 DEF ClearDone, NextRead, NextWrite, ThreadType, OpInv, PC, ReadPC, WritePC, ReadOps, WriteOps, SendOps, locals
    <2>5. LoopInv'
      BY <1>0, <1>13, RegComAssumption DEF ClearDone, NextRead, NextWrite, ThreadType, LoopInv, PC, ReadPC, WritePC, locals
    <2>6. QED
      BY <2>1, <2>2, <2>3, <2>4, <2>5 DEF TypeInv, TypeOK
  <1>14. ASSUME NEW t \in Thread, Raise(t) PROVE TypeInv'
    <2>0. UDP_data' \in Seq(S)
      <3>1. call[t] \in Calls /\ UDP_data \in Seq(S)
        BY <1>0 DEF ThreadType, WireType, S
      <3>2. ASSUME pc[t] \in {"wsend", "flush"} PROVE WriteCmds(call[t]) \in Seq(S)
        BY <1>0, <3>1, <3>2, WriteCmdsType DEF OpInv, WritePC, WriteOps, SendOps, ReadOps, S
      <3>3. ReadCmds(call[t]) \in Seq(S)
        BY <3>1, ReadCmdsType DEF S
      <3>4. CASE pc[t] = "rsend"
        BY <1>14, <3>1, <3>3, <3>4 DEF Raise
      <3>5. CASE pc[t] = "wsend"
        BY <1>14, <3>1, <3>2, <3>5 DEF Raise
      <3>6. CASE pc[t] = "flush"
        BY <1>14, <3>1, <3>2, <3>6 DEF Raise, FlushPacket
      <3>7. QED
        BY <1>14, <3>4, <3>5, <3>6 DEF Raise
    <2>1. LockType'
      BY <1>0, <1>14, LockTaken DEF Raise, LockType
    <2>2. WireType'
      BY <1>0, <1>14, <2>0 DEF Raise, WireType, S
    <2>3. ThreadType'
      BY <1>0, <1>14, RegComAssumption DEF Raise, ThreadType, LoopInv, PC, ReadPC, WritePC, locals
    <2>4. OpInv'
      BY <1>0, <1>14 DEF Raise, ThreadType, OpInv, PC, ReadPC, WritePC, ReadOps, WriteOps, SendOps, locals
    <2>5. LoopInv'
      BY <1>0, <1>14, RegComAssumption DEF Raise, ThreadType, LoopInv, PC, ReadPC, WritePC, locals
    <2>6. QED
      BY <2>1, <2>2, <2>3, <2>4, <2>5 DEF TypeInv, TypeOK
  <1>15. ASSUME Camera PROVE TypeInv'
    <2>0. WireType'
      <3>1. Head(toCam) \in S /\ Tail(toCam) \in Seq(S)
        BY <1>0, <1>15 DEF Camera, WireType, S
      <3>2. reg' \in [Reg -> Val]
        BY <1>0, <1>15, <3>1 DEF Camera, WireType, ReadCmd, WriteCmd, S
      <3>3. ASSUME Head(toCam).op = "read"
            PROVE  [reg |-> Head(toCam).reg, val |-> reg[Head(toCam).reg]] \in Answer
        BY <1>0, <3>1, <3>3 DEF WireType, ReadCmd, WriteCmd, Answer, S
      <3>4. rxq' \in Seq(Answer)
        <4>1. rxq \in Seq(Answer)
          BY <1>0 DEF WireType
        <4>2. \A a \in Answer : Append(rxq, a) \in Seq(Answer)
          BY <4>1
        <4>3. QED
          BY <1>15, <3>3, <4>1, <4>2 DEF Camera
      <3>5. QED
        BY <1>0, <1>15, <3>1, <3>2, <3>4 DEF Camera, WireType, S
    <2>1. LockType'
      BY <1>0, <1>15 DEF Camera, LockType
    <2>2. WireType'
      BY <2>0
    <2>3. ThreadType'
      BY <1>0, <1>15, RegComAssumption DEF Camera, ThreadType, LoopInv, PC, ReadPC, WritePC, locals
    <2>4. OpInv'
      BY <1>0, <1>15 DEF Camera, ThreadType, OpInv, PC, ReadPC, WritePC, ReadOps, WriteOps, SendOps, locals
    <2>5. LoopInv'
      BY <1>0, <1>15, RegComAssumption DEF Camera, ThreadType, LoopInv, PC, ReadPC, WritePC, locals
    <2>6. QED
      BY <2>1, <2>2, <2>3, <2>4, <2>5 DEF TypeInv, TypeOK
  <1>16. ASSUME Close PROVE TypeInv'
    <2>1. LockType'
      BY <1>0, <1>16 DEF Close, LockType
    <2>2. WireType'
      BY <1>0, <1>16 DEF Close, WireType, wire
    <2>3. ThreadType'
      BY <1>0, <1>16, RegComAssumption DEF Close, ThreadType, LoopInv, PC, ReadPC, WritePC, locals
    <2>4. OpInv'
      BY <1>0, <1>16 DEF Close, ThreadType, OpInv, PC, ReadPC, WritePC, ReadOps, WriteOps, SendOps, locals
    <2>5. LoopInv'
      BY <1>0, <1>16, RegComAssumption DEF Close, ThreadType, LoopInv, PC, ReadPC, WritePC, locals
    <2>6. QED
      BY <2>1, <2>2, <2>3, <2>4, <2>5 DEF TypeInv, TypeOK
  <1>17. ASSUME Reopen PROVE TypeInv'
    <2>1. LockType'
      BY <1>0, <1>17 DEF Reopen, LockType
    <2>2. WireType'
      BY <1>0, <1>17 DEF Reopen, WireType, wire
    <2>3. ThreadType'
      BY <1>0, <1>17, RegComAssumption DEF Reopen, ThreadType, LoopInv, PC, ReadPC, WritePC, locals
    <2>4. OpInv'
      BY <1>0, <1>17 DEF Reopen, ThreadType, OpInv, PC, ReadPC, WritePC, ReadOps, WriteOps, SendOps, locals
    <2>5. LoopInv'
      BY <1>0, <1>17, RegComAssumption DEF Reopen, ThreadType, LoopInv, PC, ReadPC, WritePC, locals
    <2>6. QED
      BY <2>1, <2>2, <2>3, <2>4, <2>5 DEF TypeInv, TypeOK
  <1>18. ASSUME UNCHANGED vars PROVE TypeInv'
    <2>1. LockType'
      BY <1>0, <1>18 DEF vars, LockType
    <2>2. WireType'
      BY <1>0, <1>18 DEF vars, WireType, wire
    <2>3. ThreadType'
      BY <1>0, <1>18, RegComAssumption DEF vars, ThreadType, LoopInv, PC, ReadPC, WritePC, locals
    <2>4. OpInv'
      BY <1>0, <1>18 DEF vars, ThreadType, OpInv, PC, ReadPC, WritePC, ReadOps, WriteOps, SendOps, locals
    <2>5. LoopInv'
      BY <1>0, <1>18, RegComAssumption DEF vars, ThreadType, LoopInv, PC, ReadPC, WritePC, locals
    <2>6. QED
      BY <2>1, <2>2, <2>3, <2>4, <2>5 DEF TypeInv, TypeOK
  <1>19. QED
    BY <1>1, <1>2, <1>3, <1>4, <1>5, <1>6, <1>7, <1>8, <1>9, <1>10, <1>11, <1>12,
       <1>13, <1>14, <1>15, <1>16, <1>17, <1>18
    DEF Next, InCall

(* Every variable keeps its type and no repetition loop runs over, for any *)
(* threads, registers, calls, repeat number and faults.                    *)
THEOREM TypeCorrect == Spec => []TypeOK
  <1>1. Spec => []TypeInv
    BY TypeInit, TypeStep, PTL DEF Spec
  <1>2. TypeInv => TypeOK
    BY DEF TypeInv
  <1>3. QED
    BY <1>1, <1>2, PTL

-----------------------------------------------------------------------------
(* The lock.                                                               *)

Held == ReadPC \cup WritePC \cup {"dead"}

LEMMA LockInit == Init => LockDiscipline
  BY RegComAssumption DEF Init, LockDiscipline, Free, ReadPC, WritePC

(* A step of the owner that stays inside its methods with the lock as it   *)
(* is, and a step of a thread that neither had nor gets the lock.          *)
LEMMA LockKept ==
  ASSUME TypeInv, LockDiscipline, NEW t \in Thread, lock' = lock,
         \A u \in Thread \ {t} : pc'[u] = pc[u] /\ call'[u] = call[u],
         \/ pc[t] \notin Held /\ pc'[t] \notin Held
         \/ /\ pc[t] \in Held \ {"dead"} /\ pc'[t] \in Held \ {"dead"}
            /\ Depth(t)' = Depth(t)
  PROVE  LockDiscipline'
  <1>1. ASSUME NEW u \in Thread \ {t}
        PROVE  Depth(u)' = Depth(u)
    BY DEF Depth
  <1>2. \A u \in Thread : (lock'.owner = u) <=> (pc'[u] \in Held)
    BY DEF LockDiscipline, Held
  <1>3. \A u \in Thread : lock'.owner = u /\ pc'[u] # "dead" => lock'.depth = Depth(u)'
    BY <1>1, <1>2 DEF LockDiscipline, Held
  <1>4. QED
    BY <1>2, <1>3 DEF LockDiscipline, Held, Free

(* A step that changes the lock: after it the owner, if there is one, is   *)
(* the thread that made the step.                                          *)
LEMMA LockChanged ==
  ASSUME TypeInv, LockDiscipline, NEW t \in Thread,
         lock.owner = t \/ Free,
         \A u \in Thread \ {t} : pc'[u] = pc[u] /\ call'[u] = call[u],
         \/ lock' = Unlocked /\ pc'[t] \notin Held
         \/ /\ lock'.owner = t /\ pc'[t] \in Held
            /\ pc'[t] = "dead" \/ lock'.depth = Depth(t)'
  PROVE  LockDiscipline'
  <1>1. \A u \in Thread \ {t} : pc[u] \notin Held
    BY RegComAssumption DEF LockDiscipline, Held, Free
  <1>2. CASE lock' = Unlocked /\ pc'[t] \notin Held
    BY <1>1, <1>2, RegComAssumption DEF LockDiscipline, Held, Free, Unlocked
  <1>3. CASE /\ lock'.owner = t /\ pc'[t] \in Held
             /\ pc'[t] = "dead" \/ lock'.depth = Depth(t)'
    BY <1>1, <1>3, RegComAssumption DEF LockDiscipline, Held, Free
  <1>4. QED
    BY <1>2, <1>3

LEMMA LockStep == TypeInv /\ LockDiscipline /\ [Next]_vars => LockDiscipline'
  <1> SUFFICES ASSUME TypeInv, LockDiscipline, [Next]_vars PROVE LockDiscipline'
    OBVIOUS
  <1>0. LockType /\ ThreadType /\ OpInv
    BY DEF TypeInv, TypeOK
  <1>1. ASSUME NEW t \in Thread, NEW c \in Calls, Begin(t, c) PROVE LockDiscipline'
    BY <1>0, <1>1, LockKept DEF Begin, ThreadType, Held, ReadPC, WritePC
  <1>2. ASSUME NEW t \in Thread, Return(t) PROVE LockDiscipline'
    BY <1>0, <1>2, LockKept DEF Return, ThreadType, Held, ReadPC, WritePC
  <1>3. ASSUME NEW t \in Thread, Acquire(t) PROVE LockDiscipline'
    <2>1. lock.depth = 0 /\ lock'.owner = t /\ lock'.depth = 1
      BY <1>0, <1>3, LockTaken DEF Acquire, LockDiscipline
    <2>2. pc'[t] \in Held /\ Depth(t)' = 1
      BY <1>0, <1>3 DEF Acquire, ThreadType, Held, ReadPC, WritePC, Depth, OpInv,
                        ReadOps, WriteOps, locals
    <2>3. \A u \in Thread \ {t} : pc'[u] = pc[u] /\ call'[u] = call[u]
      BY <1>0, <1>3 DEF Acquire, ThreadType, locals
    <2>4. QED
      BY <1>3, <2>1, <2>2, <2>3, LockChanged DEF Acquire
  <1>4. ASSUME NEW t \in Thread, AppendCommand(t) PROVE LockDiscipline'
    BY <1>0, <1>4, LockKept DEF AppendCommand, ThreadType, Held, ReadPC, WritePC
  <1>5. ASSUME NEW t \in Thread, Flush(t) PROVE LockDiscipline'
    BY <1>0, <1>5, LockKept DEF Flush, ThreadType, Held, ReadPC, WritePC
  <1>6. ASSUME NEW t \in Thread, ReadSend(t) PROVE LockDiscipline'
    <2>1. pc'[t] \in ReadPC /\ pc[t] \in ReadPC /\ call' = call /\ lock' = lock
      BY <1>0, <1>6 DEF ReadSend, NextRead, ThreadType, ReadPC
    <2>2. \A u \in Thread \ {t} : pc'[u] = pc[u]
      BY <1>0, <1>6 DEF ReadSend, NextRead, ThreadType
    <2>3. QED
      BY <2>1, <2>2, LockKept DEF Depth, Held, ReadPC
  <1>7. ASSUME NEW t \in Thread, Recv(t) PROVE LockDiscipline'
    <2>1. pc'[t] \in ReadPC /\ pc[t] \in ReadPC /\ call' = call /\ lock' = lock
      BY <1>0, <1>7 DEF Recv, ThreadType, ReadPC
    <2>2. \A u \in Thread \ {t} : pc'[u] = pc[u]
      BY <1>0, <1>7 DEF Recv, ThreadType
    <2>3. QED
      BY <2>1, <2>2, LockKept DEF Depth, Held, ReadPC
  <1>8. ASSUME NEW t \in Thread, RecvNothing(t) PROVE LockDiscipline'
    <2>1. pc'[t] \in ReadPC /\ pc[t] \in ReadPC /\ call' = call /\ lock' = lock
      BY <1>0, <1>8 DEF RecvNothing, ThreadType, ReadPC
    <2>2. \A u \in Thread \ {t} : pc'[u] = pc[u]
      BY <1>0, <1>8 DEF RecvNothing, ThreadType
    <2>3. QED
      BY <2>1, <2>2, LockKept DEF Depth, Held, ReadPC
  <1>9. ASSUME NEW t \in Thread, ReadDone(t) PROVE LockDiscipline'
    <2>1. lock.owner = t /\ lock.depth = Depth(t) /\ call' = call
      BY <1>9 DEF ReadDone, LockDiscipline, ReadPC
    <2>2. \A u \in Thread \ {t} : pc'[u] = pc[u]
      BY <1>0, <1>9 DEF ReadDone, NextWrite, ThreadType
    <2>3. CASE call[t].op \in ReadOps
      <3>1. lock.depth = 1 /\ lock' = Unlocked
        BY <1>9, <2>1, <2>3 DEF ReadDone, Depth, ReadPC, ReadOps, WriteOps, Unlock
      <3>2. pc'[t] \notin Held
        BY <1>0, <1>9, <2>3 DEF ReadDone, ThreadType, Held, ReadPC, WritePC, ReadOps, WriteOps
      <3>3. QED
        BY <2>1, <2>2, <3>1, <3>2, LockChanged
    <2>4. CASE call[t].op \in WriteOps
      <3>1. lock.depth = 2
        BY <1>9, <2>1, <2>4 DEF ReadDone, Depth, ReadPC, ReadOps, WriteOps
      <3>2. lock'.owner = t /\ lock'.depth = 1
        BY <1>0, <1>9, <2>1, <3>1 DEF ReadDone, Unlock, LockType
      <3>3. pc'[t] \in WritePC
        BY <1>0, <1>9, <2>4 DEF ReadDone, NextWrite, ThreadType, WritePC, ReadOps, WriteOps
      <3>4. pc'[t] \in Held /\ Depth(t)' = 1
        BY <3>3 DEF Held, Depth, ReadPC, WritePC
      <3>5. QED
        BY <2>1, <2>2, <3>2, <3>4, LockChanged
    <2>5. QED
      BY <1>0, <1>9, <2>3, <2>4 DEF ReadDone
  <1>10. ASSUME NEW t \in Thread, WriteSend(t) PROVE LockDiscipline'
    <2>1. lock.owner = t /\ lock.depth = 1 /\ call' = call /\ call[t].op \in WriteOps
      BY <1>0, <1>10 DEF WriteSend, LockDiscipline, Depth, ReadPC, WritePC, OpInv
    <2>2. \A u \in Thread \ {t} : pc'[u] = pc[u]
      BY <1>0, <1>10 DEF WriteSend, NextWrite, ThreadType
    <2>3. CASE pc'[t] = "rsend"
      <3>1. Lock(t)
        BY <1>0, <1>10, <2>3 DEF WriteSend, NextWrite, ThreadType
      <3>2. lock'.owner = t /\ lock'.depth = 2
        BY <1>0, <2>1, <3>1, LockTaken
      <3>3. pc'[t] \in Held /\ Depth(t)' = 2
        BY <2>1, <2>3 DEF Held, Depth, ReadPC, ReadOps, WriteOps
      <3>4. QED
        BY <2>1, <2>2, <3>2, <3>3, LockChanged
    <2>4. CASE pc'[t] # "rsend"
      <3>1. lock' = lock /\ pc'[t] \in WritePC /\ pc[t] \in WritePC
        BY <1>0, <1>10, <2>4 DEF WriteSend, NextWrite, ThreadType, WritePC
      <3>2. QED
        BY <2>1, <2>2, <3>1, LockKept DEF Depth, Held, ReadPC, WritePC
    <2>5. QED
      BY <2>3, <2>4
  <1>11. ASSUME NEW t \in Thread, WriteDone(t) PROVE LockDiscipline'
    <2>1. lock.owner = t /\ lock.depth = 1
      BY <1>11 DEF WriteDone, LockDiscipline, Depth, ReadPC, WritePC
    <2>2. lock' = Unlocked /\ pc'[t] \notin Held
      BY <1>0, <1>11, <2>1 DEF WriteDone, Unlock, ThreadType, Held, ReadPC, WritePC
    <2>3. \A u \in Thread \ {t} : pc'[u] = pc[u] /\ call'[u] = call[u]
      BY <1>0, <1>11 DEF WriteDone, ThreadType, locals
    <2>4. QED
      BY <2>1, <2>2, <2>3, LockChanged
  <1>12. ASSUME NEW t \in Thread, ClearOne(t) PROVE LockDiscipline'
    BY <1>12 DEF ClearOne, LockDiscipline, Depth, Free, locals
  <1>13. ASSUME NEW t \in Thread, ClearDone(t) PROVE LockDiscipline'
    <2>1. call' = call /\ lock' = lock
      BY <1>13 DEF ClearDone
    <2>2. \A u \in Thread \ {t} : pc'[u] = pc[u]
      BY <1>0, <1>13 DEF ClearDone, NextRead, NextWrite, ThreadType
    <2>3. \/ pc[t] \in ReadPC /\ pc'[t] \in ReadPC
          \/ pc[t] \in WritePC /\ pc'[t] \in WritePC
      BY <1>0, <1>13 DEF ClearDone, NextRead, NextWrite, ThreadType, ReadPC, WritePC
    <2>4. QED
      BY <2>1, <2>2, <2>3, LockKept DEF Depth, Held, ReadPC, WritePC
  <1>14. ASSUME NEW t \in Thread, Raise(t) PROVE LockDiscipline'
    <2>1. lock.owner = t \/ Free
      BY <1>14 DEF Raise, LockDiscipline, ReadPC, WritePC
    <2>2. lock'.owner = t /\ pc'[t] = "dead"
      BY <1>0, <1>14, LockTaken DEF Raise, ThreadType
    <2>3. \A u \in Thread \ {t} : pc'[u] = pc[u] /\ call'[u] = call[u]
      BY <1>0, <1>14 DEF Raise, ThreadType, locals
    <2>4. QED
      BY <2>1, <2>2, <2>3, LockChanged DEF Held
  <1>15. CASE Camera \/ Close \/ Reopen \/ UNCHANGED vars
    <2>1. lock' = lock /\ pc' = pc /\ call' = call
      BY <1>15 DEF Camera, Close, Reopen, vars, locals
    <2>2. QED
      BY <2>1 DEF LockDiscipline, Depth, Free
  <1>16. QED
    BY <1>1, <1>2, <1>3, <1>4, <1>5, <1>6, <1>7, <1>8, <1>9, <1>10, <1>11, <1>12,
       <1>13, <1>14, <1>15
    DEF Next, InCall

(* Whatever the network does, and even when another thread closes the      *)
(* socket, the RLock is owned exactly by the thread inside readPDI,        *)
(* readCCdata or writePDI (or killed in sendCommand) with the right number *)
(* of acquisitions.                                                        *)
THEOREM LockCorrect == Spec => []LockDiscipline
  <1>1. Spec => [](TypeInv /\ LockDiscipline)
    <2>1. TypeInv /\ LockDiscipline /\ [Next]_vars => (TypeInv /\ LockDiscipline)'
      BY TypeStep, LockStep
    <2>2. QED
      BY TypeInit, LockInit, <2>1, PTL DEF Spec
  <1>2. QED
    BY <1>1, PTL

-----------------------------------------------------------------------------
(* Reads and writes.  The invariant accounts for the answers of the current*)
(* read: what has been accepted, what waits in the socket and what the     *)
(* camera still has to execute add up to at most the number of registers   *)
(* asked for. When they add up to exactly that number nothing was lost and *)
(* everything is in its place; when to less, the read cannot complete.     *)
NoReads(q) == \A i \in DOMAIN q : q[i].op # "read"

Quiet == rxq = <<>> /\ OnlySends(toCam)

(* r: registers asked for, d: values accepted, x: answers waiting, c:      *)
(* commands on their way, the first w of them writes, g: the registers.    *)
InPlace(r, d, x, c, w, g) ==
  /\ \A j \in 1..Len(d) : d[j] = g[r[j]]
  /\ \A j \in 1..Len(x) : x[j].reg = r[Len(d) + j] /\ x[j].val = g[r[Len(d) + j]]
  /\ \A j \in w+1..Len(c) : c[j].reg = r[Len(d) + Len(x) + (j - w)]

Accounted(r, d, x, c, w, g) ==
  /\ \A j \in 1..w : c[j].op # "read"
  /\ \A j \in w+1..Len(c) : c[j].op = "read"
  /\ Len(d) + Len(x) > 0 => w = 0
  /\ Len(d) < Len(r)
  /\ Len(d) + Len(x) + (Len(c) - w) <= Len(r)
  /\ Len(d) + Len(x) + (Len(c) - w) = Len(r) => InPlace(r, d, x, c, w, g)

Values(r, g) == [i \in 1..Len(r) |-> g[r[i]]]

Current(t) == toCam = <<>> /\ data[t] = Values(call[t].regs, reg)

Written(t) ==
  /\ toCam = <<>>
  /\ \A i \in 1..Len(call[t].regs) : reg[call[t].regs[i]] = call[t].vals[i]

PcInv(t) ==
  /\ pc[t] = "wsend" => Quiet
  /\ pc[t] \in {"rsend", "rdone"} =>
       /\ rxq = <<>> /\ NoReads(toCam)
       /\ call[t].op \in ReadOps => OnlySends(toCam)
  /\ pc[t] = "recv" =>
       /\ err[t] = "ok"
       /\ \E w \in 0..Len(toCam) : Accounted(call[t].regs, data[t], rxq, toCam, w, reg)
  /\ pc[t] \in {"clear", "wclear"} => err[t] = "error"
  /\ pc[t] = "rdone" /\ err[t] = "ok" => Current(t)
  /\ pc[t] = "wdone" =>
       /\ Quiet
       /\ err[t] = "ok" /\ call[t].op = "writePDI" => Written(t)

SafeInv ==
  /\ commSocket = "open"
  /\ OnlySends(UDP_data)
  /\ Free => Quiet
  /\ \A t \in Thread : PcInv(t)

(* What the theorems of this module assume of the network.                 *)
OnlyLoss == Faults \subseteq {"loss", "shortSend"}

-----------------------------------------------------------------------------
(* Sequences of commands.                                                  *)

Cmd == ReadCmd \cup WriteCmd

LEMMA SendsConcat ==
  ASSUME NEW p \in Seq(Cmd), NEW q \in Seq(Cmd)
  PROVE  /\ OnlySends(p) /\ OnlySends(q) => OnlySends(p \o q)
         /\ NoReads(p) /\ NoReads(q) => NoReads(p \o q)
         /\ OnlySends(p) => NoReads(p)
  BY DEF OnlySends, NoReads

LEMMA CmdsAssociate ==
  ASSUME NEW p \in Seq(Cmd), NEW q \in Seq(Cmd), NEW r \in Seq(Cmd)
  PROVE  p \o q \in Seq(Cmd) /\ p \o (q \o r) = (p \o q) \o r
  OBVIOUS

LEMMA SendsTail ==
  ASSUME NEW q \in Seq(Cmd), q # <<>>
  PROVE  /\ OnlySends(q) => OnlySends(Tail(q)) /\ Head(q).op = "send"
         /\ NoReads(q) => NoReads(Tail(q)) /\ Head(q).op # "read"
  BY DEF OnlySends, NoReads

LEMMA SendsAppend ==
  ASSUME NEW q \in Seq(Cmd), NEW c \in Cmd, OnlySends(q), c.op = "send"
  PROVE  OnlySends(Append(q, c))
  BY DEF OnlySends

LEMMA WriteCmdsOps ==
  ASSUME NEW c \in Calls, c.op \notin ReadOps
  PROVE  /\ WriteCmds(c) \in Seq(Cmd)
         /\ NoReads(WriteCmds(c))
         /\ c.op # "writePDI" => OnlySends(WriteCmds(c))
  BY WriteCmdsType, CallType DEF NoReads, OnlySends, Cmd

LEMMA SafeInit == Init => SafeInv
  BY DEF Init, SafeInv, PcInv, Quiet, OnlySends

(* Only the thread that makes the step matters: nobody else has the lock.  *)
LEMMA SafeByOne ==
  ASSUME LockDiscipline, NEW t \in Thread, lock.owner = t \/ Free,
         \A u \in Thread \ {t} : pc'[u] = pc[u],
         commSocket' = "open", OnlySends(UDP_data)', Free' => Quiet', PcInv(t)'
  PROVE  SafeInv'
  <1>1. \A u \in Thread \ {t} : pc[u] \notin Held
    BY RegComAssumption DEF LockDiscipline, Held, Free
  <1>2. \A u \in Thread \ {t} : PcInv(u)'
    BY <1>1 DEF PcInv, Held, ReadPC, WritePC
  <1>3. QED
    BY <1>2 DEF SafeInv

(* A packet of reads, sent behind commands that are none.                  *)
LEMMA ReadSent ==
  ASSUME NEW r \in Seq(Reg), Len(r) > 0, NEW g,
         NEW p \in Seq(Cmd), NoReads(p), NEW R \in Seq(Cmd), Len(R) = Len(r),
         \A i \in 1..Len(r) : R[i].op = "read" /\ R[i].reg = r[i]
  PROVE  /\ Accounted(r, <<>>, <<>>, p, Len(p), g)
         /\ Accounted(r, <<>>, <<>>, p \o R, Len(p), g)
  <1>1. Accounted(r, <<>>, <<>>, p, Len(p), g)
    BY DEF Accounted, NoReads
  <1>2. Accounted(r, <<>>, <<>>, p \o R, Len(p), g)
    <2>0. p \o R \in Seq(Cmd) /\ Len(p \o R) = Len(p) + Len(R)
      OBVIOUS
    <2>1. Len(p) \in Nat /\ Len(r) \in Nat /\ Len(p \o R) = Len(p) + Len(r)
      BY <2>0
    <2>2. \A j \in 1..Len(p) : (p \o R)[j].op # "read"
      BY DEF NoReads
    <2>3. ASSUME NEW j \in Len(p)+1..Len(p \o R)
          PROVE  (p \o R)[j].op = "read" /\ (p \o R)[j].reg = r[j - Len(p)]
      <3>1. (p \o R)[j] = R[j - Len(p)] /\ j - Len(p) \in 1..Len(r)
        BY <2>1
      <3>2. QED
        BY <3>1
    <2>4. InPlace(r, <<>>, <<>>, p \o R, Len(p), g)
      BY <2>1, <2>3 DEF InPlace
    <2>5. QED
      BY <2>1, <2>2, <2>3, <2>4 DEF Accounted
  <1>3. QED
    BY <1>1, <1>2

(* One more answer is accepted.                                            *)
LEMMA ReadAccepted ==
  ASSUME NEW r \in Seq(Reg), NEW d \in Seq(Val), NEW x \in Seq(Answer), x # <<>>,
         NEW c \in Seq(Cmd), NEW g, NEW w \in 0..Len(c), Accounted(r, d, x, c, w, g)
  PROVE  /\ Len(d) + 1 < Len(r) => Accounted(r, Append(d, Head(x).val), Tail(x), c, 0, g)
         /\ Len(d) + 1 = Len(r) => /\ c = <<>> /\ Tail(x) = <<>>
                                   /\ Append(d, Head(x).val) = Values(r, g)
  <1> DEFINE e == Append(d, Head(x).val)
  <1>0. e \in Seq(Val)
    <2>1. Head(x).val \in Val
      <3>1. Head(x) \in Answer
        OBVIOUS
      <3>2. QED
        BY <3>1 DEF Answer
    <2>2. QED
      BY <2>1
  <1>1. /\ Len(r) \in Nat /\ Len(d) \in Nat /\ Len(c) \in Nat
        /\ Len(x) \in Nat /\ Len(x) > 0
    OBVIOUS
  <1>2. w = 0
    BY <1>1 DEF Accounted
  <1>3. /\ Len(e) = Len(d) + 1 /\ Len(Tail(x)) = Len(x) - 1
        /\ \A j \in 1..Len(d) : e[j] = d[j]
        /\ e[Len(d) + 1] = x[1].val
        /\ \A j \in 1..Len(x)-1 : Tail(x)[j] = x[j + 1]
    BY <1>0, <1>1
  <1> HIDE DEF e
  <1>4. ASSUME Len(d) + Len(x) + Len(c) = Len(r) PROVE InPlace(r, e, Tail(x), c, 0, g)
    <2>1. InPlace(r, d, x, c, 0, g)
      BY <1>1, <1>2, <1>4 DEF Accounted
    <2>2. \A j \in 1..Len(e) : e[j] = g[r[j]]
      <3>1. x[1].val = g[r[Len(d) + 1]]
        BY <1>1, <2>1 DEF InPlace
      <3>2. \A j \in 1..Len(d) : e[j] = g[r[j]]
        BY <1>3, <2>1 DEF InPlace
      <3>3. \A j \in 1..Len(e) : j \in 1..Len(d) \/ j = Len(d) + 1
        BY <1>1, <1>3
      <3>4. QED
        BY <1>3, <3>1, <3>2, <3>3
    <2>3. ASSUME NEW j \in 1..Len(Tail(x))
          PROVE  Tail(x)[j].reg = r[Len(e) + j] /\ Tail(x)[j].val = g[r[Len(e) + j]]
      <3>1. /\ j + 1 \in 1..Len(x) /\ Len(d) + (j + 1) = Len(e) + j
            /\ Tail(x)[j] = x[j + 1]
        BY <1>1, <1>3
      <3>2. x[j + 1].reg = r[Len(d) + (j + 1)] /\ x[j + 1].val = g[r[Len(d) + (j + 1)]]
        BY <2>1, <3>1 DEF InPlace
      <3>3. QED
        BY <3>1, <3>2
    <2>4. ASSUME NEW j \in 0+1..Len(c)
          PROVE  c[j].reg = r[Len(e) + Len(Tail(x)) + (j - 0)]
      <3>1. c[j].reg = r[Len(d) + Len(x) + (j - 0)]
        BY <2>1 DEF InPlace
      <3>2. Len(d) + Len(x) = Len(e) + Len(Tail(x))
        BY <1>1, <1>3
      <3>3. QED
        BY <3>1, <3>2
    <2>5. QED
      BY <2>2, <2>3, <2>4 DEF InPlace
  <1>5. ASSUME Len(e) < Len(r) PROVE Accounted(r, e, Tail(x), c, 0, g)
    <2>1. Len(e) + Len(Tail(x)) + (Len(c) - 0) = Len(d) + Len(x) + Len(c)
      BY <1>1, <1>3
    <2>2. QED
      BY <1>1, <1>2, <1>4, <1>5, <2>1 DEF Accounted
  <1>6. ASSUME Len(e) = Len(r)
        PROVE  c = <<>> /\ Tail(x) = <<>> /\ e = Values(r, g)
    <2>1. Len(x) = 1 /\ Len(c) = 0
      BY <1>1, <1>2, <1>3, <1>6 DEF Accounted
    <2>2. c = <<>> /\ Tail(x) = <<>>
      <3>1. c = <<>>
        BY <2>1
      <3>2. Tail(x) \in Seq(Answer) /\ Len(Tail(x)) = 0
        BY <1>3, <2>1
      <3>3. ASSUME NEW q \in Seq(Answer), Len(q) = 0 PROVE q = <<>>
        BY <3>3
      <3>4. QED
        BY <3>1, <3>2, <3>3
    <2>3. \A j \in 1..Len(r) : e[j] = g[r[j]]
      BY <1>1, <1>3, <1>4, <1>6, <2>1 DEF InPlace
    <2>4. e = [i \in 1..Len(e) |-> e[i]]
      BY <1>0
    <2>5. QED
      BY <1>6, <2>2, <2>3, <2>4 DEF Values
  <1>7. QED
    BY <1>3, <1>5, <1>6 DEF e

(* The camera executes a command that is no read.                          *)
LEMMA WriteExecuted ==
  ASSUME NEW r \in Seq(Reg), NEW d \in Seq(Val), NEW x \in Seq(Answer),
         NEW c \in Seq(Cmd), c # <<>>, NEW g, NEW h, NEW w \in 0..Len(c),
         Accounted(r, d, x, c, w, g), Head(c).op # "read"
  PROVE  w - 1 \in 0..Len(Tail(c)) /\ Accounted(r, d, x, Tail(c), w - 1, h)
  <1>1. /\ Len(r) \in Nat /\ Len(d) \in Nat /\ Len(x) \in Nat
        /\ Len(c) \in Nat /\ Len(c) > 0
    OBVIOUS
  <1>2. /\ Len(Tail(c)) = Len(c) - 1 /\ Head(c) = c[1]
        /\ \A j \in 1..Len(c)-1 : Tail(c)[j] = c[j + 1]
    BY <1>1
  <1>3. w > 0 /\ Len(d) = 0 /\ Len(x) = 0
    BY <1>1, <1>2 DEF Accounted
  <1>4. \A j \in 1..w-1 : Tail(c)[j].op # "read"
    BY <1>1, <1>2 DEF Accounted
  <1>5. ASSUME NEW j \in (w-1)+1..Len(Tail(c))
        PROVE  /\ Tail(c)[j] = c[j + 1] /\ j + 1 \in w+1..Len(c)
               /\ j - (w - 1) = (j + 1) - w
    BY <1>1, <1>2, <1>3
  <1>6. \A j \in (w-1)+1..Len(Tail(c)) : Tail(c)[j].op = "read"
    BY <1>5 DEF Accounted
  <1>7. ASSUME Len(d) + Len(x) + (Len(c) - w) = Len(r)
        PROVE  InPlace(r, d, x, Tail(c), w - 1, h)
    <2>1. \A j \in w+1..Len(c) : c[j].reg = r[Len(d) + Len(x) + (j - w)]
      BY <1>7 DEF Accounted, InPlace
    <2>2. \A j \in (w-1)+1..Len(Tail(c)) :
            Tail(c)[j].reg = r[Len(d) + Len(x) + (j - (w - 1))]
      BY <1>5, <2>1
    <2>3. QED
      BY <1>3, <2>2 DEF InPlace
  <1>8. /\ Len(d) + Len(x) + (Len(Tail(c)) - (w - 1)) = Len(d) + Len(x) + (Len(c) - w)
        /\ ~ (Len(d) + Len(x) > 0)
    BY <1>1, <1>2, <1>3
  <1>9. w - 1 \in 0..Len(Tail(c))
    BY <1>1, <1>2, <1>3
  <1>10. /\ Len(d) < Len(r)
         /\ Len(d) + Len(x) + (Len(c) - w) <= Len(r)
    BY DEF Accounted
  <1>11. Accounted(r, d, x, Tail(c), w - 1, h)
    BY <1>4, <1>6, <1>7, <1>8, <1>10 DEF Accounted
  <1>12. QED
    BY <1>9, <1>11

(* The camera executes a read; its answer arrives, or is lost.             *)
LEMMA ReadExecuted ==
  ASSUME NEW r \in Seq(Reg), NEW d \in Seq(Val), NEW x \in Seq(Answer),
         NEW c \in Seq(Cmd), c # <<>>, NEW g, NEW w \in 0..Len(c),
         Accounted(r, d, x, c, w, g), Head(c).op = "read",
         NEW a \in Answer, a.reg = Head(c).reg, a.val = g[Head(c).reg]
  PROVE  /\ Accounted(r, d, x, Tail(c), 0, g)
         /\ Accounted(r, d, Append(x, a), Tail(c), 0, g)
  <1>1. /\ Len(r) \in Nat /\ Len(d) \in Nat /\ Len(x) \in Nat
        /\ Len(c) \in Nat /\ Len(c) > 0
    OBVIOUS
  <1>2. /\ Len(Tail(c)) = Len(c) - 1 /\ Head(c) = c[1]
        /\ \A j \in 1..Len(c)-1 : Tail(c)[j] = c[j + 1]
    BY <1>1
  <1>3. w = 0
    BY <1>1, <1>2 DEF Accounted
  <1>4. \A j \in 1..Len(Tail(c)) : Tail(c)[j].op = "read"
    BY <1>1, <1>2, <1>3 DEF Accounted
  <1>5. Accounted(r, d, x, Tail(c), 0, g)
    BY <1>1, <1>2, <1>3, <1>4 DEF Accounted
  <1>6. /\ Len(Append(x, a)) = Len(x) + 1 /\ Append(x, a)[Len(x) + 1] = a
        /\ \A j \in 1..Len(x) : Append(x, a)[j] = x[j]
    BY <1>1
  <1>7. ASSUME Len(d) + Len(x) + Len(c) = Len(r)
        PROVE  InPlace(r, d, Append(x, a), Tail(c), 0, g)
    <2>1. InPlace(r, d, x, c, 0, g)
      BY <1>1, <1>3, <1>7 DEF Accounted
    <2>2. a.reg = r[Len(d) + (Len(x) + 1)] /\ a.val = g[r[Len(d) + (Len(x) + 1)]]
      <3>1. c[1].reg = r[Len(d) + Len(x) + (1 - 0)]
        BY <1>1, <2>1 DEF InPlace
      <3>2. Len(d) + Len(x) + (1 - 0) = Len(d) + (Len(x) + 1)
        BY <1>1
      <3>3. QED
        BY <1>2, <3>1, <3>2
    <2>3. ASSUME NEW j \in 1..Len(Append(x, a))
          PROVE  /\ Append(x, a)[j].reg = r[Len(d) + j]
                 /\ Append(x, a)[j].val = g[r[Len(d) + j]]
      <3>1. CASE j \in 1..Len(x)
        BY <1>6, <2>1, <3>1 DEF InPlace
      <3>2. CASE j = Len(x) + 1
        BY <1>6, <2>2, <3>2
      <3>3. QED
        BY <1>1, <1>6, <3>1, <3>2
    <2>4. ASSUME NEW j \in 0+1..Len(Tail(c))
          PROVE  Tail(c)[j].reg = r[Len(d) + Len(Append(x, a)) + (j - 0)]
      <3>1. /\ j + 1 \in 0+1..Len(c) /\ Tail(c)[j] = c[j + 1]
            /\ Len(d) + Len(Append(x, a)) + (j - 0) = Len(d) + Len(x) + ((j + 1) - 0)
        BY <1>1, <1>2, <1>6
      <3>2. c[j + 1].reg = r[Len(d) + Len(x) + ((j + 1) - 0)]
        BY <2>1, <3>1 DEF InPlace
      <3>3. QED
        BY <3>1, <3>2
    <2>5. QED
      BY <2>1, <2>3, <2>4 DEF InPlace
  <1>8. Len(d) + Len(Append(x, a)) + (Len(Tail(c)) - 0) = Len(d) + Len(x) + Len(c)
    BY <1>1, <1>2, <1>6
  <1>9. Accounted(r, d, Append(x, a), Tail(c), 0, g)
    BY <1>1, <1>3, <1>4, <1>7, <1>8 DEF Accounted
  <1>10. QED
    BY <1>5, <1>9

-----------------------------------------------------------------------------
(* The steps.                                                              *)

(* The wire as Sent and SendFails leave it when packets are at worst lost. *)
LEMMA SentSafe ==
  ASSUME OnlyLoss, TypeInv, OnlySends(UDP_data), NEW packet, Sent(packet)
  PROVE  /\ commSocket = "open" /\ UDP_data' = <<>> /\ OnlySends(UDP_data)'
         /\ rxq' = rxq /\ reg' = reg
         /\ toCam' = toCam \/ toCam' = toCam \o packet
  BY DEF Sent, OnlySends

LEMMA SendFailsSafe ==
  ASSUME OnlyLoss, TypeInv, OnlySends(UDP_data), NEW packet, SendFails(packet)
  PROVE  /\ commSocket = "open" /\ OnlySends(UDP_data)'
         /\ rxq' = rxq /\ reg' = reg /\ toCam' = toCam
  BY DEF SendFails, OnlySends, OnlyLoss

LEMMA NoAnswerSafe ==
  ASSUME OnlyLoss, SafeInv, NoAnswer
  PROVE  rxq = <<>> /\ toCam = <<>>
  BY DEF NoAnswer, OnlyLoss, SafeInv

LEMMA SafeStep ==
  ASSUME OnlyLoss, TypeInv, LockDiscipline, SafeInv, [Next]_vars
  PROVE  SafeInv'
  <1>0. /\ LockType /\ WireType /\ ThreadType /\ OpInv
        /\ commSocket = "open" /\ OnlySends(UDP_data) /\ (Free => Quiet)
        /\ \A t \in Thread : PcInv(t)
    BY DEF TypeInv, TypeOK, SafeInv
  <1>00. ASSUME NEW t \in Thread, pc[t] \in Held PROVE lock.owner = t /\ ~Free
    BY <1>00, RegComAssumption DEF LockDiscipline, Held, Free
  <1>1. ASSUME NEW t \in Thread, NEW c \in Calls, Begin(t, c) PROVE SafeInv'
    <2>1. \A u \in Thread \ {t} : pc'[u] = pc[u]
      BY <1>0, <1>1 DEF Begin, ThreadType
    <2>2. UNCHANGED <<lock, UDP_data, commSocket, toCam, rxq, reg, data, err>>
      BY <1>1 DEF Begin, wire
    <2>3. pc'[t] \notin Held
      BY <1>0, <1>1 DEF Begin, ThreadType, Held, ReadPC, WritePC
    <2>4. \A u \in Thread \ {t} : call'[u] = call[u]
      BY <1>0, <1>1 DEF Begin, ThreadType
    <2>5. PcInv(t)'
      BY <2>3 DEF PcInv, Held, ReadPC, WritePC
    <2>6. ASSUME NEW u \in Thread \ {t} PROVE PcInv(u)'
      <3>1. PcInv(u) /\ pc'[u] = pc[u] /\ call'[u] = call[u]
        BY <1>0, <2>1, <2>4
      <3>2. QED
        BY <2>2, <3>1 DEF PcInv, Quiet, NoReads, OnlySends, Current, Written
    <2>7. QED
      BY <1>0, <2>2, <2>5, <2>6 DEF SafeInv, Free, Quiet, OnlySends
  <1>2. ASSUME NEW t \in Thread, Return(t) PROVE SafeInv'
    <2>1. \A u \in Thread \ {t} : pc'[u] = pc[u]
      BY <1>0, <1>2 DEF Return, ThreadType
    <2>2. UNCHANGED <<lock, UDP_data, commSocket, toCam, rxq, reg>>
      BY <1>2 DEF Return, wire
    <2>3. pc'[t] \notin Held
      BY <1>0, <1>2 DEF Return, ThreadType, Held, ReadPC, WritePC
    <2>4. \A u \in Thread \ {t} : call'[u] = call[u] /\ data'[u] = data[u] /\ err'[u] = err[u]
      BY <1>0, <1>2 DEF Return, ThreadType
    <2>5. PcInv(t)'
      BY <2>3 DEF PcInv, Held, ReadPC, WritePC
    <2>6. ASSUME NEW u \in Thread \ {t} PROVE PcInv(u)'
      <3>1. PcInv(u) /\ pc'[u] = pc[u] /\ call'[u] = call[u] /\ data'[u] = data[u] /\ err'[u] = err[u]
        BY <1>0, <2>1, <2>4
      <3>2. QED
        BY <2>2, <3>1 DEF PcInv, Quiet, NoReads, OnlySends, Current, Written
    <2>7. QED
      BY <1>0, <2>2, <2>5, <2>6 DEF SafeInv, Free, Quiet, OnlySends
  <1>3. ASSUME NEW t \in Thread, Acquire(t) PROVE SafeInv'
    <2>1. Free /\ Quiet /\ UNCHANGED <<UDP_data, commSocket, toCam, rxq, reg, call>>
      BY <1>0, <1>3 DEF Acquire, wire, locals
    <2>2. \A u \in Thread \ {t} : pc'[u] = pc[u]
      BY <1>0, <1>3 DEF Acquire, ThreadType
    <2>3. pc'[t] \in {"rsend", "wsend"} /\ NoReads(toCam)
      BY <1>0, <1>3, <2>1, SendsConcat DEF Acquire, ThreadType, WireType, Cmd, Quiet
    <2>4. PcInv(t)' /\ Quiet'
      BY <2>1, <2>3 DEF PcInv, Quiet, NoReads, OnlySends
    <2>5. QED
      BY <1>0, <2>1, <2>2, <2>4, SafeByOne DEF OnlySends
  <1>4. ASSUME NEW t \in Thread, AppendCommand(t) PROVE SafeInv'
    <2>1. Free /\ Quiet /\ UNCHANGED <<lock, commSocket, toCam, rxq, reg, call>>
      BY <1>0, <1>4 DEF AppendCommand
    <2>2. \A u \in Thread \ {t} : pc'[u] = pc[u]
      BY <1>0, <1>4 DEF AppendCommand, ThreadType
    <2>3. PcInv(t)'
      BY <1>0, <1>4 DEF AppendCommand, ThreadType, PcInv
    <2>4. OnlySends(UDP_data')
      <3>1. call[t] \in Calls /\ call[t].op \in SendOps /\ pos[t] \in Nat
            /\ UDP_data \in Seq(Cmd)
        BY <1>0, <1>4 DEF AppendCommand, ThreadType, OpInv, WireType, Cmd
      <3>2. ASSUME pos[t] < Len(call[t].regs)
            PROVE  /\ WriteCmds(call[t])[pos[t] + 1] \in Cmd
                   /\ WriteCmds(call[t])[pos[t] + 1].op = "send"
        <4>1. pos[t] + 1 \in 1..Len(call[t].regs)
          BY <3>1, <3>2, CallType
        <4>2. call[t].op \notin ReadOps /\ call[t].op # "writePDI"
          BY <3>1 DEF SendOps, ReadOps
        <4>3. QED
          BY <3>1, <4>1, <4>2, WriteCmdsType DEF Cmd
      <3>3. QED
        BY <1>0, <1>4, <3>1, <3>2, SendsAppend DEF AppendCommand
    <2>5. QED
      BY <1>0, <2>1, <2>2, <2>3, <2>4, SafeByOne DEF OnlySends, Quiet
  <1>5. ASSUME NEW t \in Thread, Flush(t) PROVE SafeInv'
    <2>1. Free /\ Quiet /\ UNCHANGED <<lock, commSocket, call>>
      BY <1>0, <1>5 DEF Flush
    <2>2. \A u \in Thread \ {t} : pc'[u] = pc[u]
      BY <1>0, <1>5 DEF Flush, ThreadType
    <2>3. PcInv(t)'
      BY <1>0, <1>5 DEF Flush, ThreadType, PcInv
    <2>4. FlushPacket(t) \in Seq(Cmd) /\ OnlySends(FlushPacket(t))
      <3>1. call[t] \in Calls /\ call[t].op \notin ReadOps /\ call[t].op # "writePDI"
        BY <1>0, <1>5 DEF Flush, ThreadType, OpInv, SendOps, ReadOps
      <3>2. WriteCmds(call[t]) \in Seq(Cmd) /\ OnlySends(WriteCmds(call[t]))
        BY <3>1, WriteCmdsOps
      <3>3. <<>> \in Seq(Cmd) /\ OnlySends(<<>>) /\ UDP_data \in Seq(Cmd)
        BY <1>0 DEF OnlySends, WireType, Cmd
      <3>4. UDP_data \o WriteCmds(call[t]) \in Seq(Cmd) /\ UDP_data \o <<>> \in Seq(Cmd)
        BY <3>2, <3>3
      <3>5. OnlySends(UDP_data \o WriteCmds(call[t])) /\ OnlySends(UDP_data \o <<>>)
        BY <1>0, <3>2, <3>3, SendsConcat
      <3>6. QED
        BY <3>4, <3>5 DEF FlushPacket
    <2>5. CASE Sent(FlushPacket(t))
      <3>1. OnlySends(UDP_data)' /\ rxq' = rxq
            /\ (toCam' = toCam \/ toCam' = toCam \o FlushPacket(t))
        BY <1>0, <2>5, SentSafe
      <3>2. toCam \in Seq(Cmd)
        BY <1>0 DEF WireType, Cmd
      <3>3. OnlySends(toCam')
        BY <2>1, <2>4, <3>1, <3>2, SendsConcat DEF Quiet
      <3>4. QED
        BY <1>0, <2>1, <2>2, <2>3, <3>1, <3>3, SafeByOne DEF OnlySends, Quiet
    <2>6. CASE SendFails(FlushPacket(t))
      <3>1. OnlySends(UDP_data)' /\ rxq' = rxq /\ toCam' = toCam
        BY <1>0, <2>6, SendFailsSafe
      <3>2. QED
        BY <1>0, <2>1, <2>2, <2>3, <3>1, SafeByOne DEF OnlySends, Quiet
    <2>7. QED
      BY <1>5, <2>5, <2>6 DEF Flush
  <1>6. ASSUME NEW t \in Thread, ReadSend(t) PROVE SafeInv'
    <2> DEFINE R == ReadCmds(call[t])
               r == call[t].regs
    <2>1. /\ lock.owner = t /\ ~Free /\ lock' = lock /\ call' = call /\ commSocket' = commSocket
          /\ rxq = <<>> /\ NoReads(toCam) /\ (call[t].op \in ReadOps => OnlySends(toCam))
      BY <1>0, <1>00, <1>6 DEF ReadSend, PcInv, Held, ReadPC
    <2>2. \A u \in Thread \ {t} : pc'[u] = pc[u]
      BY <1>0, <1>6 DEF ReadSend, NextRead, ThreadType
    <2>3. /\ call[t] \in Calls /\ r \in Seq(Reg) /\ Len(r) > 0
          /\ R \in Seq(Cmd) /\ Len(R) = Len(r)
          /\ \A i \in 1..Len(r) : R[i].op = "read" /\ R[i].reg = r[i]
          /\ UDP_data \in Seq(Cmd) /\ toCam \in Seq(Cmd) /\ NoReads(UDP_data)
      BY <1>0, CallType, ReadCmdsType, SendsConcat DEF ThreadType, WireType, Cmd
    <2>4. CASE Sent(UDP_data \o R) /\ pc' = [pc EXCEPT ![t] = "recv"]
      <3>1. /\ OnlySends(UDP_data)' /\ rxq' = <<>> /\ reg' = reg
            /\ toCam' = toCam \/ toCam' = toCam \o (UDP_data \o R)
        BY <1>0, <2>1, <2>4, SentSafe
      <3>2. data'[t] = <<>> /\ err'[t] = "ok" /\ pc'[t] = "recv"
        BY <1>0, <1>6, <2>4 DEF ReadSend, NextRead, ThreadType
      <3>3. \E w \in 0..Len(toCam') : Accounted(r, <<>>, <<>>, toCam', w, reg)
        <4>1. CASE toCam' = toCam
          <5>1. Accounted(r, <<>>, <<>>, toCam, Len(toCam), reg)
            BY <2>1, <2>3, ReadSent
          <5>2. Len(toCam) \in 0..Len(toCam')
            BY <2>3, <4>1
          <5>3. QED
            BY <4>1, <5>1, <5>2
        <4>2. CASE toCam' = toCam \o (UDP_data \o R)
          <5>0. /\ toCam \o UDP_data \in Seq(Cmd)
                /\ toCam \o (UDP_data \o R) = (toCam \o UDP_data) \o R
            BY <2>3, CmdsAssociate
          <5>1. /\ NoReads(toCam \o UDP_data)
                /\ toCam' = (toCam \o UDP_data) \o R
            BY <2>1, <2>3, <4>2, <5>0, SendsConcat
          <5>2. Accounted(r, <<>>, <<>>, toCam', Len(toCam \o UDP_data), reg)
            BY <2>3, <5>0, <5>1, ReadSent
          <5>3. Len(toCam \o UDP_data) \in 0..Len(toCam')
            BY <2>3, <5>0, <5>1
          <5>4. QED
            BY <5>2, <5>3
        <4>3. QED
          BY <3>1, <4>1, <4>2
      <3>4. PcInv(t)'
        BY <2>1, <3>1, <3>2, <3>3 DEF PcInv
      <3>5. QED
        BY <1>0, <2>1, <2>2, <3>1, <3>4, SafeByOne DEF Free
    <2>5. CASE SendFails(UDP_data \o R) /\ NextRead(t)
      <3>1. OnlySends(UDP_data)' /\ rxq' = rxq /\ toCam' = toCam
        BY <1>0, <2>5, SendFailsSafe
      <3>2. err'[t] = "error" /\ pc'[t] \in {"rsend", "rdone"}
        <4>1. pc'[t] \in {"rsend", "rdone"}
          BY <1>0, <2>5 DEF NextRead, ThreadType
        <4>2. QED
          BY <1>0, <1>6, <4>1 DEF ReadSend, ThreadType
      <3>3. PcInv(t)'
        BY <2>1, <3>1, <3>2 DEF PcInv, NoReads, OnlySends
      <3>4. QED
        BY <1>0, <2>1, <2>2, <3>1, <3>3, SafeByOne DEF Free
    <2>6. QED
      BY <1>6, <2>4, <2>5 DEF ReadSend
  <1>7. ASSUME NEW t \in Thread, Recv(t) PROVE SafeInv'
    <2> DEFINE r == call[t].regs
    <2>1. /\ lock.owner = t /\ ~Free
          /\ UNCHANGED <<lock, call, commSocket, UDP_data, toCam, reg>>
          /\ rxq # <<>> /\ rxq' = Tail(rxq) /\ pc[t] = "recv"
      BY <1>00, <1>7 DEF Recv, Held, ReadPC
    <2>2. \A u \in Thread \ {t} : pc'[u] = pc[u]
      BY <1>0, <1>7 DEF Recv, ThreadType
    <2>3. err[t] = "ok" /\ \E w \in 0..Len(toCam) : Accounted(r, data[t], rxq, toCam, w, reg)
      BY <1>0, <2>1 DEF PcInv
    <2>4. PICK w \in 0..Len(toCam) : Accounted(r, data[t], rxq, toCam, w, reg)
      BY <2>3
    <2>5. CASE Accepted(t)
      <3>1. r \in Seq(Reg) /\ data[t] \in Seq(Val) /\ rxq \in Seq(Answer) /\ toCam \in Seq(Cmd)
        BY <1>0, CallType DEF ThreadType, WireType, Cmd
      <3>2. data'[t] = Append(data[t], Head(rxq).val) /\ err'[t] = "ok"
        BY <1>0, <1>7, <2>3, <2>5 DEF Recv, ThreadType
      <3>3. data'[t] \in Seq(Val) /\ Len(data'[t]) = Len(data[t]) + 1
        <4>1. Head(rxq) \in Answer
          BY <2>1, <3>1
        <4>2. Head(rxq).val \in Val
          BY <4>1 DEF Answer
        <4>3. QED
          BY <3>1, <3>2, <4>2
      <3>4. /\ Len(data'[t]) < Len(r) => Accounted(r, data'[t], rxq', toCam, 0, reg)
            /\ Len(data'[t]) = Len(r) => /\ toCam = <<>> /\ rxq' = <<>>
                                         /\ data'[t] = Values(r, reg)
        <4>1. Len(data[t]) + 1 < Len(r) =>
                Accounted(r, Append(data[t], Head(rxq).val), Tail(rxq), toCam, 0, reg)
          BY <2>1, <2>4, <3>1, ReadAccepted
        <4>2. Len(data[t]) + 1 = Len(r) => toCam = <<>> /\ Tail(rxq) = <<>>
          BY <2>1, <2>4, <3>1, ReadAccepted
        <4>3. Len(data[t]) + 1 = Len(r) => Append(data[t], Head(rxq).val) = Values(r, reg)
          <5> HIDE DEF r
          <5>1. rxq # <<>> /\ Accounted(r, data[t], rxq, toCam, w, reg)
            BY <2>1, <2>4 DEF r
          <5>2. QED
            BY <3>1, <5>1, ReadAccepted
        <4>4. QED
          BY <2>1, <3>2, <3>3, <4>1, <4>2, <4>3
      <3>5. PcInv(t)'
        <4>1. CASE Len(data'[t]) = Len(r)
          <5>1. pc'[t] = "rdone"
            BY <1>0, <1>7, <2>5, <3>3, <4>1 DEF Recv, ThreadType
          <5>2. Current(t)' /\ rxq' = <<>> /\ toCam' = <<>>
            BY <2>1, <3>4, <4>1 DEF Current
          <5>3. QED
            BY <5>1, <5>2 DEF PcInv, NoReads, OnlySends
        <4>2. CASE Len(data'[t]) # Len(r)
          <5>1. pc'[t] = "recv"
            BY <1>0, <1>7, <2>1, <2>5, <3>3, <4>2 DEF Recv, ThreadType
          <5>2. Len(data[t]) < Len(r)
            BY <2>4 DEF Accounted
          <5>3. Len(data'[t]) < Len(r)
            BY <3>1, <3>3, <4>2, <5>2
          <5>4. 0 \in 0..Len(toCam') /\ Accounted(r, data'[t], rxq', toCam', 0, reg')
            BY <2>1, <3>1, <3>4, <5>3
          <5>5. QED
            BY <2>1, <3>2, <5>1, <5>4 DEF PcInv
        <4>3. QED
          BY <4>1, <4>2
      <3>6. QED
        BY <1>0, <2>1, <2>2, <3>5, SafeByOne DEF Free
    <2>6. CASE ~Accepted(t)
      <3>1. pc'[t] = "clear" /\ err'[t] = "error"
        BY <1>0, <1>7, <2>6 DEF Recv, ThreadType
      <3>2. QED
        BY <1>0, <2>1, <2>2, <3>1, SafeByOne DEF Free, PcInv
    <2>7. QED
      BY <2>5, <2>6
  <1>8. ASSUME NEW t \in Thread, RecvNothing(t) PROVE SafeInv'
    <2>1. lock.owner = t /\ ~Free /\ UNCHANGED <<lock, commSocket, UDP_data>>
      BY <1>00, <1>8 DEF RecvNothing, Held, ReadPC, wire
    <2>2. (\A u \in Thread \ {t} : pc'[u] = pc[u]) /\ pc'[t] = "clear" /\ err'[t] = "error"
      BY <1>0, <1>8 DEF RecvNothing, ThreadType
    <2>3. QED
      BY <1>0, <2>1, <2>2, SafeByOne DEF Free, PcInv
  <1>9. ASSUME NEW t \in Thread, ReadDone(t) PROVE SafeInv'
    <2>1. /\ lock.owner = t /\ UNCHANGED <<call, data, commSocket, UDP_data, toCam, rxq, reg>>
          /\ rxq = <<>> /\ NoReads(toCam) /\ (call[t].op \in ReadOps => OnlySends(toCam))
          /\ err[t] = "ok" => Current(t)
      BY <1>0, <1>00, <1>9 DEF ReadDone, PcInv, Held, ReadPC, wire
    <2>2. \A u \in Thread \ {t} : pc'[u] = pc[u]
      BY <1>0, <1>9 DEF ReadDone, NextWrite, ThreadType
    <2>3. CASE call[t].op \in ReadOps
      <3>1. pc'[t] = "return"
        BY <1>0, <1>9, <2>3 DEF ReadDone, ThreadType, ReadOps, WriteOps
      <3>2. Quiet' /\ PcInv(t)'
        BY <2>1, <2>3, <3>1 DEF Quiet, PcInv, OnlySends
      <3>3. QED
        BY <1>0, <2>1, <2>2, <3>2, SafeByOne
    <2>4. CASE call[t].op \in WriteOps
      <3>1. ~Free'
        <4>1. lock.depth = 2
          BY <1>9, <2>1, <2>4 DEF ReadDone, LockDiscipline, Depth, ReadPC
        <4>2. QED
          BY <1>0, <1>9, <2>1, <4>1, RegComAssumption DEF ReadDone, Unlock, LockType, Free
      <3>2. CASE pc'[t] = "wclear"
        <4>1. err'[t] = "error"
          BY <1>0, <1>9, <2>4, <3>2 DEF ReadDone, NextWrite, ThreadType, ReadOps, WriteOps
        <4>2. QED
          BY <1>0, <2>1, <2>2, <3>1, <3>2, <4>1, SafeByOne DEF PcInv
      <3>3. CASE pc'[t] # "wclear"
        <4>1. err[t] = "ok" /\ pc'[t] \in {"wsend", "wdone"}
          BY <1>0, <1>9, <2>4, <3>3 DEF ReadDone, NextWrite, ThreadType, ReadOps, WriteOps
        <4>2. Current(t) /\ Quiet
          BY <2>1, <4>1 DEF Current, Quiet, OnlySends
        <4>3. ASSUME pc'[t] = "wdone", err'[t] = "ok" PROVE Written(t)'
          <5>1. data[t] = call[t].vals
            BY <1>0, <1>9, <2>4, <3>3, <4>1, <4>3 DEF ReadDone, NextWrite, ThreadType, ReadOps, WriteOps
          <5>2. QED
            BY <2>1, <4>2, <5>1, CallType DEF Current, Values, Written
        <4>4. PcInv(t)'
          BY <2>1, <4>1, <4>2, <4>3 DEF PcInv, Quiet, OnlySends
        <4>5. QED
          BY <1>0, <2>1, <2>2, <3>1, <4>4, SafeByOne
      <3>4. QED
        BY <3>2, <3>3
    <2>5. QED
      BY <1>9, <2>3, <2>4 DEF ReadDone
  <1>10. ASSUME NEW t \in Thread, WriteSend(t) PROVE SafeInv'
    <2> DEFINE W == WriteCmds(call[t])
    <2>1. /\ lock.owner = t /\ ~Free /\ call' = call /\ commSocket' = commSocket
          /\ rxq = <<>> /\ OnlySends(toCam)
      BY <1>0, <1>00, <1>10 DEF WriteSend, PcInv, Held, WritePC, Quiet
    <2>2. \A u \in Thread \ {t} : pc'[u] = pc[u]
      BY <1>0, <1>10 DEF WriteSend, NextWrite, ThreadType
    <2>3. ~Free'
      BY <1>0, <1>10, <2>1, LockTaken, RegComAssumption DEF WriteSend, Free
    <2>4. /\ call[t] \in Calls /\ call[t].op \in WriteOps
          /\ UDP_data \in Seq(Cmd) /\ toCam \in Seq(Cmd) /\ NoReads(UDP_data) /\ NoReads(toCam)
      BY <1>0, <1>10, <2>1, SendsConcat DEF WriteSend, ThreadType, WireType, OpInv, WritePC, Cmd
    <2>5. /\ W \in Seq(Cmd) /\ NoReads(W) /\ (call[t].op # "writePDI" => OnlySends(W))
      BY <2>4, WriteCmdsOps DEF WriteOps, ReadOps
    <2>6. CASE Sent(UDP_data \o W) /\ err'[t] = "ok" /\ pc'[t] \in {"rsend", "wdone"}
      <3>1. /\ OnlySends(UDP_data)' /\ rxq' = <<>>
            /\ toCam' = toCam \/ toCam' = toCam \o (UDP_data \o W)
        BY <1>0, <2>1, <2>6, SentSafe
      <3>2. UDP_data \o W \in Seq(Cmd) /\ NoReads(UDP_data \o W)
            /\ (call[t].op # "writePDI" => OnlySends(UDP_data \o W))
        BY <1>0, <2>4, <2>5, SendsConcat
      <3>3. NoReads(toCam') /\ (call[t].op # "writePDI" => OnlySends(toCam'))
        BY <2>1, <2>4, <3>1, <3>2, SendsConcat
      <3>4. CASE pc'[t] = "rsend"
        <4>1. PcInv(t)'
          BY <2>1, <2>4, <3>1, <3>3, <3>4 DEF PcInv, NoReads, WriteOps, ReadOps
        <4>2. QED
          BY <1>0, <2>1, <2>2, <2>3, <3>1, <4>1, SafeByOne
      <3>5. CASE pc'[t] = "wdone"
        <4>1. call[t].op = "writePDI_noReadBack"
          BY <1>0, <1>10, <2>4, <2>6, <3>5 DEF WriteSend, ThreadType
        <4>2. PcInv(t)'
          BY <2>1, <3>1, <3>3, <3>5, <4>1 DEF PcInv, Quiet, OnlySends
        <4>3. QED
          BY <1>0, <2>1, <2>2, <2>3, <3>1, <4>2, SafeByOne
      <3>6. QED
        BY <2>6, <3>4, <3>5
    <2>7. CASE SendFails(UDP_data \o W) /\ err'[t] = "error" /\ pc'[t] \in {"wsend", "wdone"}
      <3>1. OnlySends(UDP_data)' /\ rxq' = rxq /\ toCam' = toCam
        BY <1>0, <2>7, SendFailsSafe
      <3>2. PcInv(t)'
        BY <2>1, <2>7, <3>1 DEF PcInv, Quiet, OnlySends
      <3>3. QED
        BY <1>0, <2>1, <2>2, <2>3, <3>1, <3>2, SafeByOne
    <2>8. QED
      <3>1. CASE /\ Sent(UDP_data \o W) /\ err' = [err EXCEPT ![t] = "ok"]
                /\ pc' = [pc EXCEPT ![t] = "wdone"]
        BY <1>0, <2>6, <3>1 DEF ThreadType
      <3>2. CASE /\ Sent(UDP_data \o W) /\ err' = [err EXCEPT ![t] = "ok"]
                /\ pc' = [pc EXCEPT ![t] = "rsend"]
        BY <1>0, <2>6, <3>2 DEF ThreadType
      <3>3. CASE SendFails(UDP_data \o W) /\ NextWrite(t) /\ err' = [err EXCEPT ![t] = "error"]
        BY <1>0, <2>7, <3>3 DEF ThreadType, NextWrite
      <3>4. QED
        BY <1>10, <3>1, <3>2, <3>3 DEF WriteSend
  <1>11. ASSUME NEW t \in Thread, WriteDone(t) PROVE SafeInv'
    <2>1. lock.owner = t /\ Quiet /\ UNCHANGED <<commSocket, UDP_data, toCam, rxq>>
      BY <1>0, <1>00, <1>11 DEF WriteDone, PcInv, Held, WritePC, wire
    <2>2. (\A u \in Thread \ {t} : pc'[u] = pc[u]) /\ pc'[t] = "return"
      BY <1>0, <1>11 DEF WriteDone, ThreadType
    <2>3. Quiet' /\ PcInv(t)'
      BY <2>1, <2>2 DEF Quiet, PcInv, OnlySends
    <2>4. QED
      BY <1>0, <2>1, <2>2, <2>3, SafeByOne
  <1>12. ASSUME NEW t \in Thread, ClearOne(t) PROVE SafeInv'
    <2>1. lock.owner = t /\ ~Free /\ UNCHANGED <<lock, commSocket, UDP_data, pc>>
      BY <1>00, <1>12 DEF ClearOne, Held, ReadPC, WritePC
    <2>2. pc'[t] \in {"clear", "wclear"} /\ err'[t] = "error"
      BY <1>0, <1>12 DEF ClearOne, PcInv, locals
    <2>3. QED
      BY <1>0, <2>1, <2>2, SafeByOne DEF Free, PcInv
  <1>13. ASSUME NEW t \in Thread, ClearDone(t) PROVE SafeInv'
    <2>1. /\ lock.owner = t /\ ~Free /\ UNCHANGED <<lock, commSocket, UDP_data, toCam, rxq, err>>
          /\ rxq = <<>> /\ toCam = <<>> /\ Quiet /\ NoReads(toCam)
      BY <1>0, <1>00, <1>13, NoAnswerSafe
      DEF ClearDone, Held, ReadPC, WritePC, wire, Quiet, OnlySends, NoReads
    <2>2. \A u \in Thread \ {t} : pc'[u] = pc[u]
      BY <1>0, <1>13 DEF ClearDone, NextRead, NextWrite, ThreadType
    <2>3. pc'[t] \in {"rsend", "rdone", "wsend", "wdone"} /\ err[t] = "error"
      BY <1>0, <1>13 DEF ClearDone, NextRead, NextWrite, ThreadType, PcInv
    <2>4. PcInv(t)'
      BY <2>1, <2>3 DEF PcInv, Quiet, OnlySends, NoReads
    <2>5. QED
      BY <1>0, <2>1, <2>2, <2>4, SafeByOne DEF Free
  <1>14. ASSUME NEW t \in Thread, Raise(t) PROVE SafeInv'
    BY <1>0, <1>14 DEF Raise
  <1>15. ASSUME Camera PROVE SafeInv'
    <2>1. /\ toCam # <<>> /\ toCam \in Seq(Cmd) /\ toCam' = Tail(toCam)
          /\ UNCHANGED <<lock, commSocket, UDP_data, pc, call, data, err>>
      BY <1>0, <1>15 DEF Camera, WireType, locals, Cmd
    <2>2. ASSUME Quiet PROVE Quiet'
      BY <1>15, <2>1, <2>2, SendsTail DEF Quiet, Camera
    <2>3. ASSUME NEW t \in Thread PROVE PcInv(t)'
      <3>1. CASE pc[t] = "recv"
        <4>1. call[t].regs \in Seq(Reg) /\ data[t] \in Seq(Val) /\ rxq \in Seq(Answer)
          BY <1>0, CallType DEF ThreadType, WireType
        <4>2. PICK w \in 0..Len(toCam) : Accounted(call[t].regs, data[t], rxq, toCam, w, reg)
          BY <1>0, <3>1 DEF PcInv
        <4>3. CASE Head(toCam).op = "read"
          <5> DEFINE a == [reg |-> Head(toCam).reg, val |-> reg[Head(toCam).reg]]
          <5>1. a \in Answer
            BY <1>0, <2>1, <4>3 DEF Cmd, ReadCmd, WriteCmd, Answer, WireType
          <5>2. /\ Accounted(call[t].regs, data[t], rxq, Tail(toCam), 0, reg)
                /\ Accounted(call[t].regs, data[t], Append(rxq, a), Tail(toCam), 0, reg)
            BY <2>1, <4>1, <4>2, <4>3, <5>1, ReadExecuted
          <5>3. reg' = reg /\ (rxq' = rxq \/ rxq' = Append(rxq, a))
            BY <1>15, <4>3 DEF Camera
          <5>4. 0 \in 0..Len(Tail(toCam))
            BY <2>1
          <5>5. QED
            BY <1>0, <2>1, <3>1, <5>2, <5>3, <5>4 DEF PcInv
        <4>4. CASE Head(toCam).op # "read"
          <5>1. rxq' = rxq
            BY <1>15, <4>4 DEF Camera
          <5>2. /\ w - 1 \in 0..Len(Tail(toCam))
                /\ Accounted(call[t].regs, data[t], rxq, Tail(toCam), w - 1, reg')
            BY <2>1, <4>1, <4>2, <4>4, WriteExecuted
          <5>3. QED
            BY <1>0, <2>1, <3>1, <5>1, <5>2 DEF PcInv
        <4>5. QED
          BY <4>3, <4>4
      <3>2. CASE pc[t] \in {"rsend", "rdone"}
        <4>1. rxq = <<>> /\ NoReads(toCam) /\ (call[t].op \in ReadOps => OnlySends(toCam))
              /\ (pc[t] = "rdone" => err[t] # "ok")
          BY <1>0, <2>1, <3>2 DEF PcInv, Current
        <4>2. rxq' = <<>> /\ NoReads(toCam') /\ (call[t].op \in ReadOps => OnlySends(toCam'))
          BY <1>15, <2>1, <4>1, SendsTail DEF Camera
        <4>3. QED
          BY <2>1, <3>2, <4>1, <4>2 DEF PcInv, NoReads, OnlySends
      <3>3. CASE pc[t] \in {"wsend", "wdone"}
        <4>1. Quiet /\ (pc[t] = "wdone" => ~ (err[t] = "ok" /\ call[t].op = "writePDI"))
          BY <1>0, <2>1, <3>3 DEF PcInv, Written
        <4>2. QED
          BY <2>1, <2>2, <3>3, <4>1 DEF PcInv
      <3>4. CASE pc[t] \notin {"recv", "rsend", "rdone", "wsend", "wdone"}
        BY <1>0, <2>1, <3>4 DEF PcInv
      <3>5. QED
        BY <3>1, <3>2, <3>3, <3>4
    <2>4. QED
      BY <1>0, <2>1, <2>2, <2>3 DEF SafeInv, Free, OnlySends
  <1>16. CASE Close \/ Reopen
    BY <1>0, <1>16 DEF Close, Reopen, OnlyLoss
  <1>17. CASE UNCHANGED vars
    BY <1>0, <1>17 DEF vars, wire, locals, SafeInv, Free, Quiet, PcInv, Current, Written, OnlySends, NoReads
  <1>18. QED
    BY <1>1, <1>2, <1>3, <1>4, <1>5, <1>6, <1>7, <1>8, <1>9, <1>10, <1>11, <1>12,
       <1>13, <1>14, <1>15, <1>16, <1>17
    DEF Next, InCall

LEMMA SafeAlways == ASSUME OnlyLoss PROVE Spec => []SafeInv
  <1>1. TypeInv /\ LockDiscipline /\ SafeInv /\ [Next]_vars
          => (TypeInv /\ LockDiscipline /\ SafeInv)'
    BY TypeStep, LockStep, SafeStep
  <1>2. QED
    BY TypeInit, LockInit, SafeInit, <1>1, PTL DEF Spec

(* When the network at worst loses packets and answers (no answer comes    *)
(* after its reader gave up, sendto does not raise, nobody closes the      *)
(* socket), a read that succeeds returns the registers asked for as they   *)
(* are at that moment, for any number of threads, registers and repeats.   *)
THEOREM ReadCorrect == ASSUME OnlyLoss PROVE Spec => []ReadIsCurrent
  <1>1. SafeInv => ReadIsCurrent
    BY DEF SafeInv, PcInv, Current, Values, ReadIsCurrent
  <1>2. QED
    BY SafeAlways, <1>1, PTL

(* Under the same assumption writePDI that succeeds has written.           *)
THEOREM WriteCorrect == ASSUME OnlyLoss PROVE Spec => []WriteVerified
  <1>1. SafeInv => WriteVerified
    BY DEF SafeInv, PcInv, Written, WriteVerified
  <1>2. QED
    BY SafeAlways, <1>1, PTL

(* Under the same assumption nothing of a finished read or checked write   *)
(* is left when the lock is free: the next one starts on a clean wire.     *)
THEOREM WireClean == ASSUME OnlyLoss PROVE Spec => []QuietWhenFree
  <1>1. SafeInv => QuietWhenFree
    BY DEF SafeInv, Quiet, QuietWhenFree
  <1>2. QED
    BY SafeAlways, <1>1, PTL

-----------------------------------------------------------------------------
(* The refinement of the register file. First what a packet has in it of   *)
(* the commands that are only sent: SendsIn is a recursive function, so    *)
(* each fact about it is a least-counterexample argument (UpTo).           *)
LEMMA Least ==
  ASSUME NEW S \in SUBSET Nat, S # {}
  PROVE  \E m \in S : \A k \in S : m <= k
  <1> DEFINE R == OpToRel(<, Nat)
  <1>1. PICK m \in S : \A k \in S : <<k, m>> \notin R
    BY NatLessThanWellFounded, WFMin
  <1>2. \A k \in S : ~(k < m)
    BY <1>1 DEF OpToRel
  <1>3. QED
    BY <1>2

Step(q, f, n) == IF q[n].op = "send" THEN Append(f[n - 1], Effect(q[n])) ELSE f[n - 1]

LEMMA FilterDef ==
  ASSUME NEW q \in Seq(Cmd)
  PROVE  SendsUpTo(q) = [n \in 0..Len(q) |-> IF n = 0 THEN <<>> ELSE Step(q, SendsUpTo(q), n)]
  <1> DEFINE Rec(f, m) == f = [n \in 0..m |-> IF n = 0 THEN <<>> ELSE Step(q, f, n)]
             S == {m \in Nat : ~ \E f : Rec(f, m)}
  <1>1. SendsUpTo(q) = CHOOSE f : Rec(f, Len(q))
    BY DEF SendsUpTo, Step
  <1>2. S = {}
    <2>1. SUFFICES ASSUME S # {} PROVE FALSE
      OBVIOUS
    <2>2. PICK m \in S : \A k \in S : m <= k
      BY <2>1, Least
    <2>3. m # 0
      <3>1. Rec([n \in 0..0 |-> <<>>], 0)
        OBVIOUS
      <3>2. QED
        BY <3>1
    <2>4. PICK f : Rec(f, m - 1)
      BY <2>2, <2>3
    <2> DEFINE g == [n \in 0..m |-> IF n = m THEN Step(q, f, m) ELSE f[n]]
    <2>5. ASSUME NEW n \in 0..m
          PROVE  g[n] = IF n = 0 THEN <<>> ELSE Step(q, g, n)
      <3>1. CASE n = m
        <4>1. g[n - 1] = f[n - 1]
          BY <2>2, <2>3, <3>1
        <4>2. QED
          BY <2>2, <2>3, <3>1, <4>1 DEF Step
      <3>2. CASE n # m
        <4>1. g[n] = f[n] /\ n \in 0..(m - 1) /\ n \in Nat
          BY <2>2, <2>3, <3>2
        <4>2. n # 0 => g[n - 1] = f[n - 1]
          BY <2>2, <2>3, <3>2, <4>1
        <4>3. f[n] = IF n = 0 THEN <<>> ELSE Step(q, f, n)
          BY <2>4, <4>1
        <4>4. QED
          BY <4>1, <4>2, <4>3 DEF Step
      <3>3. QED
        BY <3>1, <3>2
    <2>7. Rec(g, m)
      <3>1. g = [n \in 0..m |-> g[n]]
        OBVIOUS
      <3>2. QED
        BY <2>5, <3>1
    <2>6. QED
      BY <2>2, <2>7
  <1>3. Len(q) \in Nat
    BY LenProperties
  <1>4. \E f : Rec(f, Len(q))
    BY <1>2, <1>3
  <1> HIDE DEF Rec
  <1>5. Rec(SendsUpTo(q), Len(q))
    BY <1>1, <1>4
  <1>6. QED
    BY <1>5 DEF Rec

LEMMA UpTo ==
  ASSUME NEW N \in Nat, NEW S \in SUBSET (0..N), 0 \in S, \A n \in 1..N : n - 1 \in S => n \in S
  PROVE  S = 0..N
  <1> SUFFICES ASSUME (0..N) \ S # {} PROVE FALSE
    OBVIOUS
  <1>1. PICK m \in (0..N) \ S : \A k \in (0..N) \ S : m <= k
    <2>1. (0..N) \ S \in SUBSET Nat
      OBVIOUS
    <2>2. QED
      BY <2>1, Least
  <1>2. m \in 1..N
    BY <1>1
  <1>3. m - 1 \in 0..N /\ ~(m <= m - 1)
    BY <1>2
  <1>4. m - 1 \in S
    BY <1>1, <1>3
  <1>5. QED
    BY <1>1, <1>2, <1>4

Setting == [reg : Reg, val : Val]

LEMMA EffectType ==
  ASSUME NEW c \in Cmd, c.op = "send"
  PROVE  Effect(c) \in Setting
  BY DEF Cmd, ReadCmd, WriteCmd, Effect, Setting

LEMMA SendsStep ==
  ASSUME NEW q \in Seq(Cmd)
  PROVE  /\ SendsUpTo(q)[0] = <<>>
         /\ \A n \in 1..Len(q) : SendsUpTo(q)[n] = Step(q, SendsUpTo(q), n)
         /\ \A n \in 0..Len(q) : SendsUpTo(q)[n] \in Seq(Setting)
  <1> DEFINE F == SendsUpTo(q)
             S == {n \in 0..Len(q) : F[n] \in Seq(Setting)}
  <1>1. Len(q) \in Nat
    BY LenProperties
  <1>2. F = [n \in 0..Len(q) |-> IF n = 0 THEN <<>> ELSE Step(q, F, n)]
    BY FilterDef
  <1> HIDE DEF F
  <1>3. F[0] = <<>>
    BY <1>1, <1>2
  <1>4. \A n \in 1..Len(q) : F[n] = Step(q, F, n)
    BY <1>1, <1>2
  <1>5. S = 0..Len(q)
    <2>1. 0 \in S
      <3>1. <<>> \in Seq(Setting) /\ 0 \in 0..Len(q)
        BY <1>1, EmptySeq
      <3>2. QED
        BY <1>3, <3>1
    <2>2. ASSUME NEW n \in 1..Len(q), n - 1 \in S PROVE n \in S
      <3>1. F[n - 1] \in Seq(Setting) /\ q[n] \in Cmd /\ n \in 0..Len(q)
        BY <1>1, <2>2, ElementOfSeq
      <3>2. Step(q, F, n) \in Seq(Setting)
        BY <3>1, EffectType, AppendProperties DEF Step
      <3>3. QED
        BY <1>4, <2>2, <3>1, <3>2
    <2> HIDE DEF S
    <2>3. S \in SUBSET (0..Len(q))
      BY DEF S
    <2>4. QED
      BY <1>1, <2>1, <2>2, <2>3, UpTo
  <1>6. \A n \in 0..Len(q) : F[n] \in Seq(Setting)
    BY <1>5
  <1>7. QED
    BY <1>3, <1>4, <1>6 DEF F

LEMMA SendsType ==
  ASSUME NEW q \in Seq(Cmd)
  PROVE  SendsIn(q) \in Seq(Setting)
  <1>1. Len(q) \in 0..Len(q)
    BY LenProperties
  <1>2. QED
    BY <1>1, SendsStep DEF SendsIn

LEMMA AppendConcat ==
  ASSUME NEW a \in Seq(Setting), NEW b \in Seq(Setting), NEW x \in Setting
  PROVE  Append(a \o b, x) = a \o Append(b, x)
  OBVIOUS

(* What two packets have in them.                                          *)
LEMMA SendsOfBoth ==
  ASSUME NEW p \in Seq(Cmd), NEW q \in Seq(Cmd)
  PROVE  SendsIn(p \o q) = SendsIn(p) \o SendsIn(q)
  <1> DEFINE r == p \o q
             F == SendsUpTo(r)
             P == SendsUpTo(p)
             Q == SendsUpTo(q)
             m == Len(p)
             k == Len(q)
  <1>1. /\ r \in Seq(Cmd) /\ m \in Nat /\ k \in Nat /\ Len(r) = m + k
        /\ \A n \in 1..m : r[n] = p[n]
        /\ \A n \in 1..k : r[m + n] = q[n]
    BY ConcatProperties, LenProperties
  <1>2. /\ F[0] = <<>> /\ \A n \in 1..(m + k) : F[n] = Step(r, F, n)
    BY <1>1, SendsStep
  <1>3. /\ P[0] = <<>> /\ (\A n \in 1..m : P[n] = Step(p, P, n)) /\ \A n \in 0..m : P[n] \in Seq(Setting)
    BY SendsStep
  <1>4. /\ Q[0] = <<>> /\ (\A n \in 1..k : Q[n] = Step(q, Q, n)) /\ \A n \in 0..k : Q[n] \in Seq(Setting)
    BY SendsStep
  <1> HIDE DEF r, F, P, Q, m, k
  <1>5. F[m] = P[m]
    <2> DEFINE S == {n \in 0..m : F[n] = P[n]}
    <2>1. 0 \in S
      BY <1>1, <1>2, <1>3
    <2>2. ASSUME NEW n \in 1..m, n - 1 \in S PROVE n \in S
      <3>1. n \in 1..(m + k) /\ n \in 0..m /\ r[n] = p[n] /\ F[n - 1] = P[n - 1]
        BY <1>1, <2>2
      <3>2. F[n] = Step(r, F, n) /\ P[n] = Step(p, P, n)
        BY <1>2, <1>3, <3>1
      <3>3. QED
        BY <3>1, <3>2 DEF Step
    <2>3. S \in SUBSET (0..m)
      OBVIOUS
    <2> HIDE DEF S
    <2>4. S = 0..m
      BY <1>1, <2>1, <2>2, <2>3, UpTo
    <2>5. QED
      BY <1>1, <2>4 DEF S
  <1>6. F[m + k] = P[m] \o Q[k]
    <2> DEFINE S == {n \in 0..k : F[m + n] = P[m] \o Q[n]}
    <2>0. P[m] \in Seq(Setting)
      BY <1>1, <1>3
    <2>1. 0 \in S
      <3>1. P[m] \o <<>> = P[m]
        BY <2>0
      <3>2. m + 0 = m /\ 0 \in 0..k
        BY <1>1
      <3>3. F[m + 0] = P[m] \o Q[0]
        BY <1>4, <1>5, <3>1, <3>2
      <3>4. QED
        BY <3>2, <3>3
    <2>2. ASSUME NEW n \in 1..k, n - 1 \in S PROVE n \in S
      <3>1. /\ m + n \in 1..(m + k) /\ n \in 0..k /\ n - 1 \in 0..k /\ (m + n) - 1 = m + (n - 1)
            /\ r[m + n] = q[n] /\ q[n] \in Cmd
        BY <1>1, ElementOfSeq DEF k
      <3>2. F[m + (n - 1)] = P[m] \o Q[n - 1] /\ Q[n - 1] \in Seq(Setting)
        BY <1>4, <2>2, <3>1
      <3>3. F[m + n] = Step(r, F, m + n) /\ Q[n] = Step(q, Q, n)
        BY <1>2, <1>4, <3>1
      <3>4. CASE q[n].op = "send"
        <4>1. F[m + n] = Append(P[m] \o Q[n - 1], Effect(q[n])) /\ Q[n] = Append(Q[n - 1], Effect(q[n]))
          BY <3>1, <3>2, <3>3, <3>4 DEF Step
        <4>2. QED
          BY <2>0, <3>1, <3>2, <3>4, <4>1, EffectType, AppendConcat
      <3>5. CASE q[n].op # "send"
        BY <3>1, <3>2, <3>3, <3>5 DEF Step
      <3>6. QED
        BY <3>4, <3>5
    <2>3. S \in SUBSET (0..k)
      OBVIOUS
    <2> HIDE DEF S
    <2>4. S = 0..k
      BY <1>1, <2>1, <2>2, <2>3, UpTo
    <2>5. k \in S
      BY <1>1, <2>4
    <2>6. QED
      BY <2>5 DEF S
  <1>7. QED
    BY <1>1, <1>6 DEF SendsIn, r, F, P, Q, m, k

LEMMA SendsOfOne ==
  ASSUME NEW c \in Cmd
  PROVE  SendsIn(<<c>>) = IF c.op = "send" THEN <<Effect(c)>> ELSE <<>>
  <1>1. <<c>> \in Seq(Cmd) /\ Len(<<c>>) = 1 /\ <<c>>[1] = c
    OBVIOUS
  <1> DEFINE q == <<c>>
  <1> HIDE DEF q
  <1>5. q \in Seq(Cmd) /\ Len(q) = 1 /\ q[1] = c /\ 1 \in 1..1
    BY <1>1 DEF q
  <1>2. SendsUpTo(q)[1] = Step(q, SendsUpTo(q), 1) /\ SendsUpTo(q)[0] = <<>>
    BY <1>5, SendsStep
  <1>3. 1 - 1 = 0 /\ Append(<<>>, Effect(c)) = <<Effect(c)>>
    OBVIOUS
  <1>4. QED
    BY <1>2, <1>3, <1>5 DEF SendsIn, Step, q

LEMMA SendsOfNone ==
  ASSUME NEW q \in Seq(Cmd), \A i \in 1..Len(q) : q[i].op # "send"
  PROVE  SendsIn(q) = <<>>
  <1> DEFINE F == SendsUpTo(q)
             S == {n \in 0..Len(q) : F[n] = <<>>}
  <1>1. Len(q) \in Nat
    BY LenProperties
  <1>2. F[0] = <<>> /\ \A n \in 1..Len(q) : F[n] = Step(q, F, n)
    BY SendsStep
  <1> HIDE DEF F
  <1>3. 0 \in S
    BY <1>1, <1>2
  <1>4. ASSUME NEW n \in 1..Len(q), n - 1 \in S PROVE n \in S
    BY <1>1, <1>2, <1>4 DEF Step
  <1>5. S \in SUBSET (0..Len(q))
    OBVIOUS
  <1> HIDE DEF S
  <1>6. S = 0..Len(q)
    BY <1>1, <1>3, <1>4, <1>5, UpTo
  <1>7. QED
    BY <1>1, <1>6 DEF SendsIn, S, F

LEMMA SendsOfAll ==
  ASSUME NEW q \in Seq(Cmd), \A i \in 1..Len(q) : q[i].op = "send"
  PROVE  SendsIn(q) = [i \in 1..Len(q) |-> Effect(q[i])]
  <1> DEFINE F == SendsUpTo(q)
             S == {n \in 0..Len(q) : F[n] = [i \in 1..n |-> Effect(q[i])]}
  <1>1. Len(q) \in Nat
    BY LenProperties
  <1>2. F[0] = <<>> /\ (\A n \in 1..Len(q) : F[n] = Step(q, F, n)) /\ \A n \in 0..Len(q) : F[n] \in Seq(Setting)
    BY SendsStep
  <1> HIDE DEF F
  <1>3. 0 \in S
    <2>1. <<>> = [i \in 1..0 |-> Effect(q[i])]
      OBVIOUS
    <2>2. QED
      BY <1>1, <1>2, <2>1
  <1>4. ASSUME NEW n \in 1..Len(q), n - 1 \in S PROVE n \in S
    <2> DEFINE a == F[n - 1]
    <2>1. n \in Nat /\ n >= 1 /\ n \in 0..Len(q) /\ n - 1 \in 0..Len(q) /\ n - 1 \in Nat
      BY <1>1
    <2>2. a \in Seq(Setting) /\ a = [i \in 1..(n - 1) |-> Effect(q[i])]
      BY <1>2, <1>4, <2>1
    <2>3. Len(a) = n - 1
      BY <2>1, <2>2
    <2>4. F[n] = Append(a, Effect(q[n])) /\ Effect(q[n]) \in Setting
      BY <1>1, <1>2, <2>1, EffectType, ElementOfSeq DEF Step
    <2> HIDE DEF a
    <2>5. /\ F[n] \in Seq(Setting) /\ Len(F[n]) = (n - 1) + 1
          /\ \A i \in 1..(n - 1) : F[n][i] = a[i]
          /\ F[n][(n - 1) + 1] = Effect(q[n])
      BY <2>2, <2>3, <2>4, AppendProperties
    <2>6. (n - 1) + 1 = n /\ \A i \in 1..n : i \in 1..(n - 1) \/ i = n
      BY <2>1
    <2>7. \A i \in 1..n : F[n][i] = Effect(q[i])
      BY <2>2, <2>5, <2>6
    <2>8. DOMAIN F[n] = 1..n /\ F[n] = [i \in DOMAIN F[n] |-> F[n][i]]
      BY <2>5, <2>6, LenProperties
    <2>9. F[n] = [i \in 1..n |-> Effect(q[i])]
      BY <2>7, <2>8
    <2>10. QED
      BY <2>1, <2>9
  <1>5. S \in SUBSET (0..Len(q))
    OBVIOUS
  <1> HIDE DEF S
  <1>6. S = 0..Len(q)
    BY <1>1, <1>3, <1>4, <1>5, UpTo
  <1>7. QED
    BY <1>1, <1>6 DEF SendsIn, S, F

-----------------------------------------------------------------------------
(* RegCom implements RegFile.                                              *)

(* The error text of a call that has not used the network yet is empty, and *)
(* the checked writes on their way to the camera are of the call that      *)
(* holds the lock (o: the owner, f: the calls).                            *)
Owned(q, o, f) ==
  \A i \in 1..Len(q) : q[i].op = "write" =>
    \E t \in Thread : /\ o = t /\ f[t].op = "writePDI"
                      /\ \E k \in 1..Len(f[t].regs) :
                           q[i].reg = f[t].regs[k] /\ q[i].val = f[t].vals[k]

ErrInv ==
  \A t \in Thread : pc[t] \in {"idle", "acquire", "append", "flush"} => err[t] = "ok"

FileInv == ErrInv /\ Owned(toCam, lock.owner, call)

LEMMA FileTypes ==
  ASSUME TypeInv
  PROVE  /\ toCam \in Seq(Cmd) /\ UDP_data \in Seq(Cmd)
         /\ SendsIn(toCam) \in Seq(Setting) /\ SendsIn(UDP_data) \in Seq(Setting)
         /\ FileSends = SendsIn(toCam) \o SendsIn(UDP_data) /\ FileSends \in Seq(Setting)
         /\ <<>> \in Seq(Cmd) /\ <<>> \in Seq(Setting) /\ SendsIn(<<>>) = <<>>
  <1>1. toCam \in Seq(Cmd) /\ UDP_data \in Seq(Cmd) /\ <<>> \in Seq(Cmd) /\ <<>> \in Seq(Setting)
    BY DEF TypeInv, TypeOK, WireType, Cmd
  <1>2. SendsIn(toCam) \in Seq(Setting) /\ SendsIn(UDP_data) \in Seq(Setting)
    BY <1>1, SendsType
  <1>3. FileSends = SendsIn(toCam) \o SendsIn(UDP_data)
    BY <1>1, SendsOfBoth DEF FileSends
  <1>4. FileSends \in Seq(Setting)
    BY <1>2, <1>3, ConcatProperties
  <1>5. SendsIn(<<>>) = <<>>
    <2>1. \A i \in 1..Len(<<>>) : FALSE
      OBVIOUS
    <2>2. QED
      BY <1>1, <2>1, SendsOfNone
  <1>6. QED
    BY <1>1, <1>2, <1>3, <1>4, <1>5

LEMMA FrontOf ==
  ASSUME NEW a \in Seq(Setting), NEW b \in Seq(Setting)
  PROVE  Len(a) \in 0..Len(a \o b) /\ SubSeq(a \o b, 1, Len(a)) = a
  <1>1. /\ a \o b \in Seq(Setting) /\ Len(a \o b) = Len(a) + Len(b)
        /\ \A i \in 1..Len(a) : (a \o b)[i] = a[i]
        /\ Len(a) \in Nat /\ Len(b) \in Nat
    BY ConcatProperties, LenProperties
  <1>2. Len(a) \in 0..Len(a \o b)
    BY <1>1
  <1>3. SubSeq(a \o b, 1, Len(a)) = a
    OBVIOUS
  <1>4. QED
    BY <1>2, <1>3

(* The commands without effect grow, or lose those that have not left yet. *)
LEMMA PostedWhole ==
  ASSUME TypeInv, NEW items \in Seq(Setting), FileSends' = FileSends \o items
  PROVE  File!Posted(items)
  <1>1. FileSends \in Seq(Setting)
    BY FileTypes
  <1> DEFINE a == FileSends \o items
  <1>2. a \in Seq(Setting) /\ <<>> \in Seq(Setting) /\ a \o <<>> = a
    BY <1>1
  <1> HIDE DEF a
  <1>3. Len(a) \in 0..Len(a) /\ SubSeq(a, 1, Len(a)) = a
    BY <1>2, FrontOf
  <1>4. QED
    BY <1>3 DEF File!Posted, a

LEMMA PostedFront ==
  ASSUME TypeInv, NEW items \in Seq(Setting), FileSends' = SendsIn(toCam)
  PROVE  File!Posted(items)
  <1> DEFINE a == SendsIn(toCam)
             b == SendsIn(UDP_data) \o items
  <1>1. a \in Seq(Setting) /\ SendsIn(UDP_data) \in Seq(Setting) /\ FileSends = a \o SendsIn(UDP_data)
    BY FileTypes
  <1>2. b \in Seq(Setting) /\ FileSends \o items = a \o b
    BY <1>1
  <1> HIDE DEF a, b
  <1>3. Len(a) \in 0..Len(a \o b) /\ SubSeq(a \o b, 1, Len(a)) = a
    BY <1>1, <1>2, FrontOf
  <1>4. QED
    BY <1>2, <1>3 DEF File!Posted, a

LEMMA SentPosted ==
  ASSUME TypeInv, NEW w \in Seq(Cmd), Sent(UDP_data \o w)
  PROVE  File!Posted(SendsIn(w))
  <1>1. /\ toCam \in Seq(Cmd) /\ UDP_data \in Seq(Cmd) /\ <<>> \in Seq(Cmd)
        /\ FileSends = SendsIn(toCam) \o SendsIn(UDP_data)
        /\ SendsIn(toCam) \in Seq(Setting) /\ SendsIn(UDP_data) \in Seq(Setting) /\ SendsIn(w) \in Seq(Setting)
    BY FileTypes, SendsType
  <1>2. UDP_data' = <<>> /\ (toCam' = toCam \/ toCam' = toCam \o (UDP_data \o w))
    BY DEF Sent
  <1>3. UDP_data \o w \in Seq(Cmd) /\ toCam \o (UDP_data \o w) \in Seq(Cmd)
    BY <1>1, ConcatProperties
  <1>4. toCam' \in Seq(Cmd) /\ FileSends' = SendsIn(toCam')
    <2>1. toCam' \in Seq(Cmd)
      BY <1>1, <1>2, <1>3
    <2>2. toCam' \o <<>> = toCam'
      BY <2>1
    <2>3. QED
      BY <1>2, <2>1, <2>2 DEF FileSends
  <1>5. CASE toCam' = toCam
    BY <1>1, <1>4, <1>5, PostedFront
  <1>6. CASE toCam' = toCam \o (UDP_data \o w)
    <2>1. SendsIn(toCam') = SendsIn(toCam) \o (SendsIn(UDP_data) \o SendsIn(w))
      BY <1>1, <1>3, <1>6, SendsOfBoth
    <2>2. \A a, b, c \in Seq(Setting) : a \o (b \o c) = (a \o b) \o c
      OBVIOUS
    <2>3. FileSends' = FileSends \o SendsIn(w)
      BY <1>1, <1>4, <2>1, <2>2
    <2>4. QED
      BY <1>1, <2>3, PostedWhole
  <1>7. QED
    BY <1>2, <1>5, <1>6

LEMMA FailsPosted ==
  ASSUME OnlyLoss, TypeInv, NEW packet, SendFails(packet)
  PROVE  File!Posted(<<>>)
  <1>1. UDP_data' = <<>> /\ toCam' = toCam
    BY DEF SendFails, OnlyLoss
  <1>2. toCam \o <<>> = toCam /\ <<>> \in Seq(Setting)
    BY FileTypes
  <1>3. FileSends' = SendsIn(toCam)
    BY <1>1, <1>2 DEF FileSends
  <1>4. QED
    BY <1>2, <1>3, PostedFront

LEMMA NothingPosted ==
  ASSUME TypeInv, UNCHANGED <<toCam, UDP_data>>
  PROVE  FileSends' = FileSends /\ File!Posted(<<>>)
  <1>1. FileSends' = FileSends
    BY DEF FileSends
  <1>2. FileSends \in Seq(Setting) /\ <<>> \in Seq(Setting)
    BY FileTypes
  <1>3. FileSends \o <<>> = FileSends
    BY <1>2
  <1>4. QED
    BY <1>1, <1>2, <1>3, PostedWhole

(* Only one thread makes a step.                                           *)
LEMMA OnlyOne ==
  ASSUME NEW t \in Thread,
         \A u \in Thread \ {t} : pc'[u] = pc[u] /\ call'[u] = call[u] /\ data'[u] = data[u] /\ err'[u] = err[u]
  PROVE  /\ FileStage[t] = StageOf(t) /\ FileReply[t] = ReplyOf(t)
         /\ FileStage' = [FileStage EXCEPT ![t] = StageOf(t)']
         /\ FileReply' = [FileReply EXCEPT ![t] = ReplyOf(t)']
  <1>1. \A u \in Thread \ {t} : StageOf(u)' = StageOf(u) /\ ReplyOf(u)' = ReplyOf(u)
    BY DEF StageOf, ReplyOf
  <1>2. FileStage' = [u \in Thread |-> StageOf(u)'] /\ FileReply' = [u \in Thread |-> ReplyOf(u)']
    BY DEF FileStage, FileReply
  <1> HIDE DEF StageOf, ReplyOf
  <1>3. QED
    BY <1>1, <1>2 DEF FileStage, FileReply

LEMMA SameStage ==
  ASSUME NEW t \in Thread, StageOf(t)' = StageOf(t), ReplyOf(t)' = ReplyOf(t),
         \A u \in Thread \ {t} : pc'[u] = pc[u] /\ call'[u] = call[u] /\ data'[u] = data[u] /\ err'[u] = err[u]
  PROVE  FileStage' = FileStage /\ FileReply' = FileReply
  <1>1. \A u \in Thread : StageOf(u)' = StageOf(u) /\ ReplyOf(u)' = ReplyOf(u)
    BY DEF StageOf, ReplyOf
  <1>2. FileStage' = [u \in Thread |-> StageOf(u)'] /\ FileReply' = [u \in Thread |-> ReplyOf(u)']
    BY DEF FileStage, FileReply
  <1> HIDE DEF StageOf, ReplyOf
  <1>3. QED
    BY <1>1, <1>2 DEF FileStage, FileReply

NoAnswerYet == [err |-> "ok", data |-> <<>>]

LEMMA Stages ==
  ASSUME NEW t \in Thread
  PROVE  /\ pc[t] = "idle" => StageOf(t) = "idle"
         /\ pc[t] \in {"acquire", "append", "flush"} => StageOf(t) = "asked"
         /\ pc[t] = "return" => StageOf(t) = "answered"
         /\ pc[t] \in Held => StageOf(t) = "busy"
         /\ pc[t] # "return" => ReplyOf(t) = NoAnswerYet
  BY DEF StageOf, ReplyOf, Held, ReadPC, WritePC, NoAnswerYet

(* A thread inside its methods stays there: the registers it promises to   *)
(* read or write are untouched.                                            *)
LEMMA Within ==
  ASSUME NEW t \in Thread, pc[t] \in Held, pc'[t] \in Held,
         \A u \in Thread \ {t} : pc'[u] = pc[u] /\ data'[u] = data[u] /\ err'[u] = err[u],
         lock'.owner = lock.owner, call' = call, reg' = reg,
         FileSends' = FileSends \/ File!Posted(<<>>)
  PROVE  File!Next \/ UNCHANGED File!vars
  <1>1. "return" \notin Held
    BY DEF Held, ReadPC, WritePC
  <1>2. StageOf(t) = "busy" /\ ReplyOf(t) = NoAnswerYet
    BY <1>1, Stages
  <1>3. StageOf(t)' = "busy" /\ ReplyOf(t)' = NoAnswerYet
    BY <1>1 DEF StageOf, ReplyOf, Held, ReadPC, WritePC, NoAnswerYet
  <1>4. FileStage' = FileStage /\ FileReply' = FileReply
    BY <1>2, <1>3, SameStage
  <1>5. QED
    BY <1>4 DEF File!Next, File!Lose, File!vars

LEMMA FileInvInit == Init => FileInv
  BY DEF Init, FileInv, ErrInv, Owned

LEMMA OwnedPart ==
  ASSUME NEW q \in Seq(Cmd), NEW p \in Seq(Cmd), NEW o, NEW f, NEW g,
         Owned(q, o, f), \A t \in Thread : o = t => g[t] = f[t],
         p = q \/ (q # <<>> /\ p = Tail(q))
  PROVE  Owned(p, o, g)
  <1>1. \A i \in 1..Len(p) : \E j \in 1..Len(q) : p[i] = q[j]
    <2>1. CASE p = q
      BY <2>1
    <2>2. CASE q # <<>> /\ p = Tail(q)
      <3>1. Len(q) \in Nat /\ Len(p) = Len(q) - 1
        BY <2>2
      <3>2. \A i \in 1..Len(p) : p[i] = q[i + 1]
        BY <2>2, HeadTailProperties
      <3>3. \A i \in 1..Len(p) : i + 1 \in 1..Len(q)
        BY <3>1
      <3>4. QED
        BY <3>2, <3>3
    <2>3. QED
      BY <2>1, <2>2
  <1>2. SUFFICES ASSUME NEW i \in 1..Len(p), p[i].op = "write"
                 PROVE  \E t \in Thread :
                          /\ o = t /\ g[t].op = "writePDI"
                          /\ \E k \in 1..Len(g[t].regs) :
                               p[i].reg = g[t].regs[k] /\ p[i].val = g[t].vals[k]
    BY DEF Owned
  <1>3. PICK j \in 1..Len(q) : p[i] = q[j]
    BY <1>1
  <1>4. QED
    BY <1>2, <1>3 DEF Owned

LEMMA OwnedBoth ==
  ASSUME NEW q \in Seq(Cmd), NEW p \in Seq(Cmd), NEW o, NEW f, Owned(q, o, f), Owned(p, o, f)
  PROVE  Owned(q \o p, o, f)
  <1>1. /\ Len(q) \in Nat /\ Len(p) \in Nat /\ Len(q \o p) = Len(q) + Len(p)
        /\ \A n \in 1..Len(q) : (q \o p)[n] = q[n]
        /\ \A n \in 1..Len(p) : (q \o p)[Len(q) + n] = p[n]
    BY ConcatProperties, LenProperties
  <1>2. \A i \in 1..Len(q \o p) : \/ i \in 1..Len(q)
                                  \/ i - Len(q) \in 1..Len(p) /\ i = Len(q) + (i - Len(q))
    BY <1>1
  <1>3. \A i \in 1..Len(q \o p) : \/ \E j \in 1..Len(q) : (q \o p)[i] = q[j]
                                  \/ \E j \in 1..Len(p) : (q \o p)[i] = p[j]
    BY <1>1, <1>2
  <1> DEFINE r == q \o p
  <1> HIDE DEF r
  <1>4. \A i \in 1..Len(r) : \/ \E j \in 1..Len(q) : r[i] = q[j]
                             \/ \E j \in 1..Len(p) : r[i] = p[j]
    BY <1>3 DEF r
  <1>5. Owned(r, o, f)
    <2>1. SUFFICES ASSUME NEW i \in 1..Len(r), r[i].op = "write"
                   PROVE  \E t \in Thread :
                            /\ o = t /\ f[t].op = "writePDI"
                            /\ \E k \in 1..Len(f[t].regs) :
                                 r[i].reg = f[t].regs[k] /\ r[i].val = f[t].vals[k]
      BY DEF Owned
    <2>2. CASE \E j \in 1..Len(q) : r[i] = q[j]
      <3>1. PICK j \in 1..Len(q) : r[i] = q[j]
        BY <2>2
      <3>2. QED
        <4>1. q[j].op = "write"
          BY <2>1, <3>1
        <4>2. PICK t \in Thread : /\ o = t /\ f[t].op = "writePDI"
                                  /\ \E k \in 1..Len(f[t].regs) :
                                       q[j].reg = f[t].regs[k] /\ q[j].val = f[t].vals[k]
          BY <4>1 DEF Owned
        <4>3. QED
          BY <3>1, <4>2
    <2>3. CASE \E j \in 1..Len(p) : r[i] = p[j]
      <3>1. PICK j \in 1..Len(p) : r[i] = p[j]
        BY <2>3
      <3>2. QED
        <4>1. p[j].op = "write"
          BY <2>1, <3>1
        <4>2. PICK t \in Thread : /\ o = t /\ f[t].op = "writePDI"
                                  /\ \E k \in 1..Len(f[t].regs) :
                                       p[j].reg = f[t].regs[k] /\ p[j].val = f[t].vals[k]
          BY <4>1 DEF Owned
        <4>3. QED
          BY <3>1, <4>2
    <2>4. QED
      BY <1>4, <2>2, <2>3
  <1>6. QED
    BY <1>5 DEF r

LEMMA OwnedNone ==
  ASSUME NEW q, OnlySends(q) \/ \A i \in 1..Len(q) : q[i].op = "read", q \in Seq(Cmd), NEW o, NEW f
  PROVE  Owned(q, o, f)
  <1>1. DOMAIN q = 1..Len(q)
    OBVIOUS
  <1>2. QED
    BY <1>1 DEF Owned, OnlySends


(* A packet of reads, and one of writes behind what was left in UDP_data.  *)
LEMMA ReadPacket ==
  ASSUME TypeInv, SafeInv, NEW t \in Thread
  PROVE  /\ ReadCmds(call[t]) \in Seq(Cmd) /\ SendsIn(ReadCmds(call[t])) = <<>>
         /\ UDP_data \o ReadCmds(call[t]) \in Seq(Cmd)
         /\ \A o, f : Owned(UDP_data \o ReadCmds(call[t]), o, f)
  <1> DEFINE R == ReadCmds(call[t])
  <1>1. call[t] \in Calls
    BY DEF TypeInv, TypeOK, ThreadType
  <1>2. R \in Seq(Cmd) /\ \A i \in 1..Len(R) : R[i].op = "read"
    BY <1>1, ReadCmdsType DEF Cmd
  <1>3. UDP_data \in Seq(Cmd) /\ OnlySends(UDP_data)
    BY FileTypes DEF SafeInv
  <1> HIDE DEF R
  <1>4. SendsIn(R) = <<>>
    BY <1>2, SendsOfNone
  <1>5. \A o, f : Owned(R, o, f) /\ Owned(UDP_data, o, f)
    BY <1>2, <1>3, OwnedNone
  <1>6. QED
    BY <1>2, <1>3, <1>4, <1>5, OwnedBoth, ConcatProperties DEF R

LEMMA WritePacket ==
  ASSUME TypeInv, SafeInv, NEW t \in Thread, call[t].op \in WriteOps, lock.owner = t
  PROVE  /\ WriteCmds(call[t]) \in Seq(Cmd)
         /\ UDP_data \o WriteCmds(call[t]) \in Seq(Cmd)
         /\ Owned(UDP_data \o WriteCmds(call[t]), lock.owner, call)
  <1> DEFINE W == WriteCmds(call[t])
  <1>1. call[t] \in Calls /\ call[t].op \notin ReadOps
    BY DEF TypeInv, TypeOK, ThreadType, WriteOps, ReadOps
  <1>2. W \in Seq(Cmd) /\ Len(W) = Len(call[t].regs)
    BY <1>1, WriteCmdsType DEF Cmd
  <1>3. \A i \in 1..Len(W) : W[i].reg = call[t].regs[i] /\ W[i].val = call[t].vals[i]
                             /\ W[i].op = IF call[t].op = "writePDI" THEN "write" ELSE "send"
    BY <1>1, <1>2 DEF WriteCmds
  <1>4. UDP_data \in Seq(Cmd) /\ OnlySends(UDP_data)
    BY FileTypes DEF SafeInv
  <1> HIDE DEF W
  <1>5. Owned(W, lock.owner, call)
    BY <1>2, <1>3 DEF Owned
  <1>6. Owned(UDP_data, lock.owner, call)
    BY <1>4, OwnedNone
  <1>7. QED
    BY <1>2, <1>4, <1>5, <1>6, OwnedBoth, ConcatProperties DEF W

LEMMA ErrStep ==
  ASSUME TypeInv, ErrInv, [Next]_vars
  PROVE  ErrInv'
  <1>0. ThreadType
    BY DEF TypeInv, TypeOK
  <1>1. ASSUME NEW t \in Thread, NEW c \in Calls, Begin(t, c) PROVE ErrInv'
    BY <1>0, <1>1 DEF Begin, ThreadType, ErrInv
  <1>2. ASSUME NEW t \in Thread, Return(t) PROVE ErrInv'
    BY <1>0, <1>2 DEF Return, ThreadType, ErrInv
  <1>3. ASSUME NEW t \in Thread, Acquire(t) PROVE ErrInv'
    BY <1>0, <1>3 DEF Acquire, ThreadType, ErrInv, locals
  <1>4. ASSUME NEW t \in Thread, AppendCommand(t) PROVE ErrInv'
    BY <1>0, <1>4 DEF AppendCommand, ThreadType, ErrInv
  <1>5. ASSUME NEW t \in Thread, Flush(t) PROVE ErrInv'
    BY <1>0, <1>5 DEF Flush, ThreadType, ErrInv
  <1>6. ASSUME NEW t \in Thread, ReadSend(t) PROVE ErrInv'
    BY <1>0, <1>6 DEF ReadSend, NextRead, ThreadType, ErrInv
  <1>7. ASSUME NEW t \in Thread, Recv(t) PROVE ErrInv'
    BY <1>0, <1>7 DEF Recv, ThreadType, ErrInv
  <1>8. ASSUME NEW t \in Thread, RecvNothing(t) PROVE ErrInv'
    BY <1>0, <1>8 DEF RecvNothing, ThreadType, ErrInv
  <1>9. ASSUME NEW t \in Thread, ReadDone(t) PROVE ErrInv'
    BY <1>0, <1>9 DEF ReadDone, NextWrite, ThreadType, ErrInv
  <1>10. ASSUME NEW t \in Thread, WriteSend(t) PROVE ErrInv'
    BY <1>0, <1>10 DEF WriteSend, NextWrite, ThreadType, ErrInv
  <1>11. ASSUME NEW t \in Thread, WriteDone(t) PROVE ErrInv'
    BY <1>0, <1>11 DEF WriteDone, ThreadType, ErrInv, locals
  <1>12. ASSUME NEW t \in Thread, ClearOne(t) PROVE ErrInv'
    BY <1>0, <1>12 DEF ClearOne, ThreadType, ErrInv, locals
  <1>13. ASSUME NEW t \in Thread, ClearDone(t) PROVE ErrInv'
    BY <1>0, <1>13 DEF ClearDone, NextRead, NextWrite, ThreadType, ErrInv
  <1>14. ASSUME NEW t \in Thread, Raise(t) PROVE ErrInv'
    BY <1>0, <1>14 DEF Raise, ThreadType, ErrInv, locals
  <1>15. CASE Camera \/ Close \/ Reopen \/ UNCHANGED vars
    BY <1>15 DEF Camera, Close, Reopen, ErrInv, vars, locals
  <1>16. QED
    BY <1>1, <1>2, <1>3, <1>4, <1>5, <1>6, <1>7, <1>8, <1>9, <1>10, <1>11, <1>12,
       <1>13, <1>14, <1>15
    DEF Next, InCall

(* Whoever may have the lock, nothing changes for the writes on their way  *)
(* when the owner and its call stay and nothing but sent commands, reads   *)
(* or writes of the owner are added.                                       *)
LEMMA OwnedKept ==
  ASSUME TypeInv, FileInv, lock'.owner = lock.owner,
         \A t \in Thread : lock.owner = t => call'[t] = call[t],
         toCam' = toCam \/ (toCam # <<>> /\ toCam' = Tail(toCam))
  PROVE  Owned(toCam, lock.owner, call)'
  <1>1. toCam \in Seq(Cmd)
    BY FileTypes
  <1>2. toCam' \in Seq(Cmd)
    BY <1>1
  <1>3. Owned(toCam, lock.owner, call)
    BY DEF FileInv
  <1>4. Owned(toCam', lock.owner, call')
    BY <1>1, <1>2, <1>3, OwnedPart
  <1>5. QED
    BY <1>4 DEF Owned

LEMMA OwnedGrows ==
  ASSUME TypeInv, FileInv, lock'.owner = lock.owner, call' = call,
         NEW packet \in Seq(Cmd), Owned(packet, lock.owner, call), Sent(packet) \/ SendFails(packet)
  PROVE  Owned(toCam, lock.owner, call)'
  <1>1. toCam \in Seq(Cmd) /\ Owned(toCam, lock.owner, call)
    BY FileTypes DEF FileInv
  <1>2. toCam' = toCam \/ toCam' = toCam \o packet
    BY DEF Sent, SendFails
  <1>3. Owned(toCam \o packet, lock.owner, call)
    BY <1>1, OwnedBoth
  <1>4. Owned(toCam', lock.owner, call)
    BY <1>1, <1>2, <1>3
  <1>5. Owned(toCam', lock'.owner, call')
    BY <1>4
  <1>6. QED
    BY <1>5 DEF Owned

LEMMA FileStep ==
  ASSUME OnlyLoss, TypeInv, LockDiscipline, SafeInv, FileInv, [Next]_vars, TypeInv', SafeInv'
  PROVE  FileInv'
  <1>0. /\ LockType /\ ThreadType /\ OpInv /\ commSocket = "open"
        /\ toCam \in Seq(Cmd) /\ Owned(toCam, lock.owner, call)
    BY FileTypes DEF TypeInv, TypeOK, SafeInv, FileInv
  <1>00. \A t \in Thread : lock.owner = t <=> pc[t] \in Held
    BY DEF LockDiscipline, Held
  <1>000. ASSUME Free' PROVE Owned(toCam, lock.owner, call)'
    <2>1. Quiet' /\ toCam' \in Seq(Cmd)
      BY <1>000 DEF SafeInv, TypeInv, TypeOK, WireType, Cmd
    <2>2. OnlySends(toCam')
      BY <2>1 DEF Quiet, OnlySends
    <2>3. Owned(toCam', lock'.owner, call')
      BY <2>1, <2>2, OwnedNone
    <2>4. QED
      BY <2>3 DEF Owned
  <1> DEFINE Goal == Owned(toCam, lock.owner, call)'
  <1> HIDE DEF Goal
  <1>1. ASSUME NEW t \in Thread, NEW c \in Calls, Begin(t, c) PROVE Goal
    <2>1. lock' = lock /\ toCam' = toCam /\ pc[t] \notin Held
      BY <1>1 DEF Begin, wire, Held, ReadPC, WritePC
    <2>2. \A u \in Thread : u # t => call'[u] = call[u]
      BY <1>0, <1>1 DEF Begin, ThreadType
    <2>3. QED
      BY <1>00, <2>1, <2>2, OwnedKept DEF Goal
  <1>2. ASSUME NEW t \in Thread, Return(t) PROVE Goal
    <2>1. lock' = lock /\ toCam' = toCam /\ pc[t] \notin Held
      BY <1>2 DEF Return, wire, Held, ReadPC, WritePC
    <2>2. \A u \in Thread : u # t => call'[u] = call[u]
      BY <1>0, <1>2 DEF Return, ThreadType
    <2>3. QED
      BY <1>00, <2>1, <2>2, OwnedKept DEF Goal
  <1>3. ASSUME NEW t \in Thread, Acquire(t) PROVE Goal
    <2>1. Quiet /\ toCam' = toCam
      BY <1>3 DEF Acquire, SafeInv, wire
    <2>2. Owned(toCam, lock'.owner, call')
      BY <1>0, <2>1, OwnedNone DEF Quiet
    <2>3. QED
      BY <2>1, <2>2 DEF Goal, Owned
  <1>4. ASSUME NEW t \in Thread, AppendCommand(t) PROVE Goal
    BY <1>4, OwnedKept DEF AppendCommand, Goal
  <1>5. ASSUME NEW t \in Thread, Flush(t) PROVE Goal
    BY <1>5, <1>000 DEF Flush, Free, Goal
  <1>6. ASSUME NEW t \in Thread, ReadSend(t) PROVE Goal
    <2>1. lock' = lock /\ call' = call
          /\ (Sent(UDP_data \o ReadCmds(call[t])) \/ SendFails(UDP_data \o ReadCmds(call[t])))
      BY <1>6 DEF ReadSend
    <2>2. QED
      BY <2>1, ReadPacket, OwnedGrows DEF Goal
  <1>7. ASSUME NEW t \in Thread, Recv(t) PROVE Goal
    BY <1>7, OwnedKept DEF Recv, Goal
  <1>8. ASSUME NEW t \in Thread, RecvNothing(t) PROVE Goal
    BY <1>8, OwnedKept DEF RecvNothing, wire, Goal
  <1>9. ASSUME NEW t \in Thread, ReadDone(t) PROVE Goal
    <2>1. lock'.owner = lock.owner \/ Free'
      BY <1>0, <1>9 DEF ReadDone, Unlock, Unlocked, Free, LockType
    <2>2. toCam' = toCam /\ call' = call
      BY <1>9 DEF ReadDone, wire
    <2>3. QED
      BY <1>000, <2>1, <2>2, OwnedKept DEF Goal
  <1>10. ASSUME NEW t \in Thread, WriteSend(t) PROVE Goal
    <2>1. lock.owner = t /\ call[t].op \in WriteOps
      BY <1>0, <1>00, <1>10 DEF WriteSend, OpInv, Held, WritePC
    <2>2. lock'.owner = lock.owner /\ call' = call
          /\ (Sent(UDP_data \o WriteCmds(call[t])) \/ SendFails(UDP_data \o WriteCmds(call[t])))
      BY <1>0, <1>10, <2>1, LockTaken DEF WriteSend
    <2>3. QED
      BY <2>1, <2>2, WritePacket, OwnedGrows DEF Goal
  <1>11. ASSUME NEW t \in Thread, WriteDone(t) PROVE Goal
    <2>1. lock'.owner = lock.owner \/ Free'
      BY <1>0, <1>11 DEF WriteDone, Unlock, Unlocked, Free, LockType
    <2>2. toCam' = toCam /\ call' = call
      BY <1>11 DEF WriteDone, wire, locals
    <2>3. QED
      BY <1>000, <2>1, <2>2, OwnedKept DEF Goal
  <1>12. ASSUME NEW t \in Thread, ClearOne(t) PROVE Goal
    BY <1>12, OwnedKept DEF ClearOne, locals, Goal
  <1>13. ASSUME NEW t \in Thread, ClearDone(t) PROVE Goal
    BY <1>13, OwnedKept DEF ClearDone, wire, Goal
  <1>14. ASSUME NEW t \in Thread, Raise(t) PROVE Goal
    BY <1>0, <1>14 DEF Raise
  <1>15. CASE Camera \/ Close \/ Reopen \/ UNCHANGED vars
    <2>1. lock' = lock /\ call' = call /\ (toCam' = toCam \/ (toCam # <<>> /\ toCam' = Tail(toCam)))
      BY <1>15 DEF Camera, Close, Reopen, vars, wire, locals
    <2>2. Goal
      BY <2>1, OwnedKept DEF Goal
    <2>3. ErrInv'
      BY ErrStep DEF FileInv
    <2>4. QED
      BY <2>2, <2>3 DEF Goal, FileInv
  <1>16. Goal \/ FileInv'
    BY <1>1, <1>2, <1>3, <1>4, <1>5, <1>6, <1>7, <1>8, <1>9, <1>10, <1>11, <1>12,
       <1>13, <1>14, <1>15
    DEF Next, InCall
  <1>17. ErrInv'
    BY ErrStep DEF FileInv
  <1>18. QED
    BY <1>16, <1>17 DEF Goal, FileInv

-----------------------------------------------------------------------------
(* The steps that begin and end a call, and the commands sent without the  *)
(* lock.                                                                   *)
LEMMA AskStep ==
  ASSUME TypeInv, NEW t \in Thread, NEW c \in Calls, Begin(t, c)
  PROVE  File!Next
  <1>0. ThreadType
    BY DEF TypeInv, TypeOK
  <1>1. /\ \A u \in Thread \ {t} : pc'[u] = pc[u] /\ call'[u] = call[u] /\ data'[u] = data[u] /\ err'[u] = err[u]
        /\ lock' = lock /\ toCam' = toCam /\ UDP_data' = UDP_data /\ reg' = reg
        /\ call' = [call EXCEPT ![t] = c]
    BY <1>0 DEF Begin, ThreadType, wire
  <1>2. pc[t] = "idle" /\ pc'[t] \in {"acquire", "append", "flush"}
    BY <1>0 DEF Begin, ThreadType
  <1>3. StageOf(t) = "idle" /\ StageOf(t)' = "asked" /\ ReplyOf(t)' = ReplyOf(t)
    BY <1>2 DEF StageOf, ReplyOf
  <1>4. FileSends' = FileSends
    BY <1>1, NothingPosted
  <1>5. /\ FileStage[t] = "idle" /\ FileStage' = [FileStage EXCEPT ![t] = "asked"]
        /\ FileReply' = FileReply
    BY <1>1, <1>3, OnlyOne DEF FileReply
  <1>6. File!Ask(t, c)
    BY <1>1, <1>4, <1>5 DEF File!Ask, File!Goes
  <1>7. QED
    BY <1>6 DEF File!Next

LEMMA ReturnStep ==
  ASSUME TypeInv, NEW t \in Thread, Return(t)
  PROVE  File!Next
  <1>0. ThreadType
    BY DEF TypeInv, TypeOK
  <1>1. /\ \A u \in Thread \ {t} : pc'[u] = pc[u] /\ call'[u] = call[u] /\ data'[u] = data[u] /\ err'[u] = err[u]
        /\ lock' = lock /\ toCam' = toCam /\ UDP_data' = UDP_data /\ reg' = reg
        /\ call' = [call EXCEPT ![t] = AnyCall]
    BY <1>0 DEF Return, ThreadType, wire
  <1>2. pc[t] = "return" /\ pc'[t] = "idle"
    BY <1>0 DEF Return, ThreadType
  <1>3. StageOf(t) = "answered" /\ StageOf(t)' = "idle" /\ ReplyOf(t)' = NoAnswerYet
    BY <1>2 DEF StageOf, ReplyOf, NoAnswerYet
  <1>4. FileSends' = FileSends
    BY <1>1, NothingPosted
  <1>5. /\ FileStage[t] = "answered" /\ FileStage' = [FileStage EXCEPT ![t] = "idle"]
        /\ FileReply' = [FileReply EXCEPT ![t] = NoAnswerYet]
    BY <1>1, <1>3, OnlyOne
  <1>6. File!Return(t)
    BY <1>1, <1>4, <1>5 DEF File!Return, File!Goes, File!NoCall, File!NoReply, AnyCall, NoAnswerYet
  <1>7. QED
    BY <1>6 DEF File!Next

LEMMA GrantStep ==
  ASSUME TypeInv, NEW t \in Thread, Acquire(t)
  PROVE  File!Next
  <1>0. ThreadType /\ LockType
    BY DEF TypeInv, TypeOK
  <1>1. /\ \A u \in Thread \ {t} : pc'[u] = pc[u] /\ call'[u] = call[u] /\ data'[u] = data[u] /\ err'[u] = err[u]
        /\ toCam' = toCam /\ UDP_data' = UDP_data /\ reg' = reg /\ call' = call
    BY <1>0 DEF Acquire, ThreadType, wire, locals
  <1>2. pc[t] = "acquire" /\ pc'[t] \in {"rsend", "wsend"}
    BY <1>0 DEF Acquire, ThreadType
  <1>3. StageOf(t) = "asked" /\ StageOf(t)' = "busy" /\ ReplyOf(t)' = ReplyOf(t)
    BY <1>2 DEF StageOf, ReplyOf
  <1>4. FileSends' = FileSends
    BY <1>1, NothingPosted
  <1>5. /\ FileStage[t] = "asked" /\ FileStage' = [FileStage EXCEPT ![t] = "busy"]
        /\ FileReply' = FileReply
    BY <1>1, <1>3, OnlyOne DEF FileReply
  <1>6. lock.owner = NoThread /\ lock'.owner = t
    BY <1>0, LockTaken DEF Acquire, Free
  <1>7. File!Grant(t)
    BY <1>1, <1>4, <1>5, <1>6 DEF File!Grant, File!Goes
  <1>8. QED
    BY <1>7 DEF File!Next

(* The items a call posts: some of its registers, from i to j.             *)
Items(c, i, j) == [k \in 1..(j - i + 1) |-> [reg |-> c.regs[i + k - 1], val |-> c.vals[i + k - 1]]]

LEMMA ItemsOfOne ==
  ASSUME NEW c \in Calls, c.op \in {"sendCommand", "loadTimerSetup", "writePDI_noReadBack"},
         NEW i \in 1..Len(c.regs)
  PROVE  /\ WriteCmds(c)[i] \in Cmd
         /\ SendsIn(<<WriteCmds(c)[i]>>) = Items(c, i, i)
  <1> DEFINE w == WriteCmds(c)[i]
  <1>1. w = [op |-> "send", reg |-> c.regs[i], val |-> c.vals[i]]
    BY DEF WriteCmds
  <1>2. w \in Cmd
    <2>1. c.op \notin ReadOps
      BY DEF ReadOps
    <2>2. QED
      BY <2>1, WriteCmdsType DEF Cmd
  <1> HIDE DEF w
  <1>3. SendsIn(<<w>>) = <<[reg |-> c.regs[i], val |-> c.vals[i]]>>
    BY <1>1, <1>2, SendsOfOne DEF Effect
  <1>4. i \in Int /\ i - i + 1 = 1 /\ i + 1 - 1 = i
    OBVIOUS
  <1>5. Items(c, i, i) = [k \in 1..1 |-> [reg |-> c.regs[i], val |-> c.vals[i]]]
    BY <1>4 DEF Items
  <1>6. \A x : <<x>> = [k \in 1..1 |-> x]
    OBVIOUS
  <1>7. QED
    BY <1>2, <1>3, <1>5, <1>6 DEF w

LEMMA ItemsOfAll ==
  ASSUME NEW c \in Calls, c.op \in {"sendCommand", "loadTimerSetup", "writePDI_noReadBack"}
  PROVE  /\ WriteCmds(c) \in Seq(Cmd)
         /\ 1 \in 1..Len(c.regs) /\ Len(c.regs) \in 1..Len(c.regs) /\ 1 <= Len(c.regs)
         /\ SendsIn(WriteCmds(c)) = Items(c, 1, Len(c.regs))
  <1> DEFINE W == WriteCmds(c)
             n == Len(c.regs)
  <1>1. c.op \notin ReadOps /\ c.op # "writePDI"
    BY DEF ReadOps
  <1>2. W \in Seq(Cmd) /\ Len(W) = n /\ n \in Nat /\ n > 0
    BY <1>1, WriteCmdsType, CallType DEF Cmd
  <1>3. \A i \in 1..n : W[i] = [op |-> "send", reg |-> c.regs[i], val |-> c.vals[i]]
    BY <1>1 DEF WriteCmds
  <1> HIDE DEF W, n
  <1>4. SendsIn(W) = [i \in 1..n |-> Effect(W[i])]
    BY <1>2, <1>3, SendsOfAll
  <1>5. ASSUME NEW i \in 1..n PROVE Effect(W[i]) = [reg |-> c.regs[i], val |-> c.vals[i]]
    <2>0. W[i] = [op |-> "send", reg |-> c.regs[i], val |-> c.vals[i]]
      BY <1>3, <1>5
    <2>1. W[i].reg = c.regs[i] /\ W[i].val = c.vals[i]
      BY <2>0
    <2>2. QED
      BY <2>1 DEF Effect
  <1>6. n - 1 + 1 = n /\ \A k \in 1..n : 1 + k - 1 = k
    BY <1>2
  <1>7. Items(c, 1, n) = [k \in 1..n |-> [reg |-> c.regs[k], val |-> c.vals[k]]]
    BY <1>6 DEF Items
  <1>8. QED
    BY <1>2, <1>4, <1>5, <1>7 DEF W, n

LEMMA Quieter ==
  ASSUME TypeInv, LockDiscipline, NEW t \in Thread, pc[t] \in {"append", "flush"}
  PROVE  /\ call[t] \in Calls /\ call[t].op \in SendOps
         /\ call[t].op \in {"sendCommand", "loadTimerSetup", "writePDI_noReadBack"}
         /\ lock.owner # t
  BY DEF TypeInv, TypeOK, ThreadType, OpInv, SendOps, LockDiscipline, ReadPC, WritePC

LEMMA AppendStep ==
  ASSUME OnlyLoss, TypeInv, LockDiscipline, NEW t \in Thread, AppendCommand(t)
  PROVE  File!Next \/ UNCHANGED File!vars
  <1>0. ThreadType
    BY DEF TypeInv, TypeOK
  <1>1. /\ \A u \in Thread \ {t} : pc'[u] = pc[u] /\ call'[u] = call[u] /\ data'[u] = data[u] /\ err'[u] = err[u]
        /\ lock' = lock /\ toCam' = toCam /\ reg' = reg /\ call' = call /\ Free
    BY <1>0 DEF AppendCommand, ThreadType
  <1>2. call[t] \in Calls /\ call[t].op \in SendOps /\ StageOf(t) = "asked" /\ ReplyOf(t) = NoAnswerYet
    BY Quieter DEF AppendCommand, StageOf, ReplyOf, NoAnswerYet
  <1>3. ASSUME pos[t] < Len(call[t].regs),
               UDP_data' = Append(UDP_data, WriteCmds(call[t])[pos[t] + 1]), UNCHANGED <<pc, err>>
        PROVE  File!Next
    <2> DEFINE i == pos[t] + 1
               w == WriteCmds(call[t])[i]
    <2>1. i \in 1..Len(call[t].regs)
      BY <1>0, <1>2, <1>3, CallType DEF ThreadType
    <2> HIDE DEF i
    <2>2. w \in Cmd /\ SendsIn(<<w>>) = Items(call[t], i, i)
      <3>1. call[t].op \in {"sendCommand", "loadTimerSetup", "writePDI_noReadBack"}
        BY <1>2 DEF SendOps
      <3>2. QED
        BY <1>2, <2>1, <3>1, ItemsOfOne
    <2>3. FileSends' = FileSends \o SendsIn(<<w>>)
      <3> HIDE DEF w
      <3>1. /\ toCam \in Seq(Cmd) /\ UDP_data \in Seq(Cmd) /\ <<w>> \in Seq(Cmd)
            /\ toCam \o UDP_data \in Seq(Cmd)
        BY FileTypes, <2>2, ConcatProperties
      <3>2. UDP_data' = UDP_data \o <<w>>
        BY <1>3, <2>2, <3>1 DEF w, i
      <3>3. toCam \o (UDP_data \o <<w>>) = (toCam \o UDP_data) \o <<w>>
        BY <3>1, CmdsAssociate
      <3>4. QED
        BY <1>1, <3>1, <3>2, <3>3, SendsOfBoth DEF FileSends
    <2>4. Items(call[t], i, i) \in Seq(Setting)
      <3> HIDE DEF w
      <3>1. <<w>> \in Seq(Cmd)
        BY <2>2
      <3>2. QED
        BY <2>2, <3>1, SendsType
    <2> HIDE DEF w
    <2>5. File!Posted(Items(call[t], i, i))
      BY <2>2, <2>3, <2>4, PostedWhole
    <2>6. FileStage' = FileStage /\ FileReply' = FileReply
      <3>1. StageOf(t)' = StageOf(t) /\ ReplyOf(t)' = ReplyOf(t)
        BY <1>1, <1>2, <1>3 DEF AppendCommand, StageOf, ReplyOf
      <3>2. QED
        BY <1>1, <3>1, SameStage
    <2>7. FileStage[t] = "asked" /\ lock.owner = NoThread /\ File!Posts(call[t])
      BY <1>1, <1>2, OnlyOne DEF FileStage, Free, File!Posts, SendOps
    <2>8. i \in DOMAIN call[t].regs /\ i <= i
      <3>1. call[t].regs \in Seq(Reg)
        BY <1>2, CallType
      <3>2. QED
        BY <2>1, <3>1
    <2>9. File!Post(t)
      BY <1>1, <2>5, <2>6, <2>7, <2>8 DEF File!Post, File!Item, Items
    <2>10. QED
      BY <2>9 DEF File!Next
  <1>4. ASSUME pc' = [pc EXCEPT ![t] = "flush"], UNCHANGED <<UDP_data, pos, err>>
        PROVE  UNCHANGED File!vars
    <2>1. StageOf(t)' = StageOf(t) /\ ReplyOf(t)' = ReplyOf(t)
      BY <1>0, <1>1, <1>4 DEF AppendCommand, StageOf, ReplyOf, ThreadType
    <2>2. QED
      BY <1>1, <1>4, <2>1, SameStage, NothingPosted DEF File!vars
  <1>5. ASSUME pc' = [pc EXCEPT ![t] = "return"], err' = [err EXCEPT ![t] = "error"], UNCHANGED UDP_data
        PROVE  File!Next
    <2>1. /\ pc[t] = "append" /\ pc'[t] = "return" /\ err'[t] = "error"
      BY <1>0, <1>5 DEF AppendCommand, ThreadType
    <2>2. StageOf(t)' = "answered" /\ ReplyOf(t)' = [NoAnswerYet EXCEPT !.err = "error"]
      BY <2>1 DEF StageOf, ReplyOf, NoAnswerYet
    <2>3. /\ FileStage[t] = "asked" /\ FileStage' = [FileStage EXCEPT ![t] = "answered"]
          /\ FileReply[t] = NoAnswerYet
          /\ FileReply' = [FileReply EXCEPT ![t] = [NoAnswerYet EXCEPT !.err = "error"]]
      BY <1>1, <1>2, <2>2, OnlyOne
    <2>4. FileReply' = [FileReply EXCEPT ![t].err = "error"]
      BY <2>3
    <2>5. File!Posted(<<>>)
      BY <1>1, <1>5, NothingPosted
    <2>6. lock.owner = NoThread /\ File!Posts(call[t])
      BY <1>1, <1>2 DEF Free, File!Posts, SendOps
    <2>7. File!Answer(t)
      BY <1>1, <2>3, <2>4, <2>5, <2>6 DEF File!Answer, File!Goes
    <2>8. QED
      BY <2>7 DEF File!Next
  <1>6. QED
    BY <1>3, <1>4, <1>5 DEF AppendCommand

LEMMA FlushStep ==
  ASSUME OnlyLoss, TypeInv, LockDiscipline, FileInv, NEW t \in Thread, Flush(t)
  PROVE  File!Next
  <1>0. ThreadType
    BY DEF TypeInv, TypeOK
  <1>1. /\ \A u \in Thread \ {t} : pc'[u] = pc[u] /\ call'[u] = call[u] /\ data'[u] = data[u] /\ err'[u] = err[u]
        /\ lock' = lock /\ call' = call /\ reg' = reg /\ lock.owner = NoThread
    BY <1>0 DEF Flush, ThreadType, Sent, SendFails, Free
  <1>2. /\ call[t] \in Calls /\ call[t].op \in SendOps /\ err[t] = "ok"
        /\ call[t].op \in {"sendCommand", "loadTimerSetup", "writePDI_noReadBack"}
        /\ pc[t] = "flush" /\ pc'[t] = "return"
    BY <1>0, Quieter DEF Flush, FileInv, ErrInv, ThreadType
  <1>3. /\ StageOf(t) = "asked" /\ StageOf(t)' = "answered" /\ ReplyOf(t) = NoAnswerYet
        /\ ReplyOf(t)' = [NoAnswerYet EXCEPT !.err = err'[t]]
    <2>1. call'[t].op \notin ReadOps
      BY <1>1, <1>2 DEF SendOps, ReadOps
    <2>2. QED
      BY <1>2, <2>1 DEF StageOf, ReplyOf, NoAnswerYet
  <1>4. /\ FileStage[t] = "asked" /\ FileStage' = [FileStage EXCEPT ![t] = "answered"]
        /\ FileReply[t] = NoAnswerYet
        /\ FileReply' = [FileReply EXCEPT ![t] = [NoAnswerYet EXCEPT !.err = err'[t]]]
    BY <1>1, <1>3, OnlyOne
  <1>5. File!Posts(call[t]) /\ File!Goes(t, "asked", "answered") /\ ~File!Reads(call[t]) /\ ~File!Checks(call[t])
    BY <1>2, <1>4 DEF File!Posts, File!Goes, File!Reads, File!Checks, SendOps
  <1>6. /\ FileReply[t].err = "ok" /\ FileReply[t].data = <<>>
        /\ FileReply' = [FileReply EXCEPT ![t].err = err'[t]]
    BY <1>4 DEF NoAnswerYet
  <1>7. ASSUME err'[t] = "ok" PROVE FileReply' = FileReply /\ FileReply' = [FileReply EXCEPT ![t].data = <<>>]
    <2>1. [NoAnswerYet EXCEPT !.err = "ok"] = NoAnswerYet /\ [NoAnswerYet EXCEPT !.data = <<>>] = NoAnswerYet
      BY DEF NoAnswerYet
    <2>2. FileReply' = [FileReply EXCEPT ![t] = NoAnswerYet]
      BY <1>4, <1>7, <2>1
    <2>3. FileReply = [u \in Thread |-> FileReply[u]]
      BY DEF FileReply
    <2>4. FileReply' = FileReply
      BY <1>4, <2>2, <2>3
    <2>5. [FileReply EXCEPT ![t].data = <<>>] = [FileReply EXCEPT ![t] = NoAnswerYet]
      BY <1>4, <2>1
    <2>6. QED
      BY <2>2, <2>4, <2>5
  <1>8. ASSUME Sent(FlushPacket(t)), UNCHANGED err, call[t].op = "sendCommand" PROVE File!Post(t)
    <2> DEFINE n == Len(call[t].regs)
    <2>1. FlushPacket(t) = UDP_data \o WriteCmds(call[t])
      BY <1>8 DEF FlushPacket
    <2>2. /\ WriteCmds(call[t]) \in Seq(Cmd) /\ SendsIn(WriteCmds(call[t])) = Items(call[t], 1, n)
          /\ 1 \in 1..n /\ n \in 1..n /\ 1 <= n
      BY <1>2, ItemsOfAll
    <2>3. File!Posted(Items(call[t], 1, n))
      BY <1>8, <2>1, <2>2, SentPosted
    <2>4. DOMAIN call[t].regs = 1..n
      BY <1>2, CallType
    <2>5. FileReply' = FileReply
      BY <1>2, <1>7, <1>8
    <2> HIDE DEF n
    <2>6. QED
      BY <1>1, <1>4, <1>5, <2>2, <2>3, <2>4, <2>5 DEF File!Post, File!Item, Items
  <1>9. ASSUME Sent(FlushPacket(t)), UNCHANGED err, call[t].op # "sendCommand" PROVE File!Answer(t)
    <2>1. <<>> \in Seq(Cmd) /\ FlushPacket(t) = UDP_data \o <<>> /\ SendsIn(<<>>) = <<>>
      BY <1>9, FileTypes DEF FlushPacket
    <2>2. File!Posted(<<>>)
      BY <1>9, <2>1, SentPosted
    <2>3. FileReply' = [FileReply EXCEPT ![t].data = <<>>]
      BY <1>2, <1>7, <1>9
    <2>4. QED
      BY <1>1, <1>5, <2>2, <2>3 DEF File!Answer
  <1>10. ASSUME SendFails(FlushPacket(t)), err' = [err EXCEPT ![t] = "error"] PROVE File!Answer(t)
    <2>1. File!Posted(<<>>)
      BY <1>10, FailsPosted
    <2>2. err'[t] = "error"
      BY <1>0, <1>10 DEF ThreadType
    <2>3. FileReply' = [FileReply EXCEPT ![t].err = "error"]
      BY <1>6, <2>2
    <2>4. QED
      BY <1>1, <1>5, <2>1, <2>3 DEF File!Answer
  <1>11. File!Post(t) \/ File!Answer(t)
    BY <1>8, <1>9, <1>10 DEF Flush
  <1>12. QED
    BY <1>11 DEF File!Next

-----------------------------------------------------------------------------
(* The steps inside readPDI, readCCdata and writePDI.                      *)
LEMMA ReadSendStep ==
  ASSUME OnlyLoss, TypeInv, SafeInv, NEW t \in Thread, ReadSend(t)
  PROVE  File!Next \/ UNCHANGED File!vars
  <1>0. ThreadType
    BY DEF TypeInv, TypeOK
  <1>1. /\ \A u \in Thread \ {t} : pc'[u] = pc[u] /\ data'[u] = data[u] /\ err'[u] = err[u]
        /\ lock' = lock /\ reg' = reg /\ call' = call
    BY <1>0 DEF ReadSend, NextRead, ThreadType, Sent, SendFails
  <1>2. pc[t] \in Held /\ pc'[t] \in Held
    BY <1>0 DEF ReadSend, NextRead, ThreadType, Held, ReadPC
  <1>3. ReadCmds(call[t]) \in Seq(Cmd) /\ SendsIn(ReadCmds(call[t])) = <<>>
    BY ReadPacket
  <1>4. File!Posted(<<>>)
    <2>1. CASE Sent(UDP_data \o ReadCmds(call[t]))
      BY <1>3, <2>1, SentPosted
    <2>2. CASE SendFails(UDP_data \o ReadCmds(call[t]))
      BY <2>2, FailsPosted
    <2>3. QED
      BY <2>1, <2>2 DEF ReadSend
  <1>5. QED
    BY <1>1, <1>2, <1>4, Within

LEMMA RecvStep ==
  ASSUME TypeInv, NEW t \in Thread, Recv(t) \/ RecvNothing(t) \/ ClearOne(t) \/ ClearDone(t)
  PROVE  File!Next \/ UNCHANGED File!vars
  <1>0. ThreadType
    BY DEF TypeInv, TypeOK
  <1>1. /\ \A u \in Thread \ {t} : pc'[u] = pc[u] /\ data'[u] = data[u] /\ err'[u] = err[u]
        /\ lock' = lock /\ reg' = reg /\ call' = call /\ UNCHANGED <<toCam, UDP_data>>
    <2>1. CASE Recv(t) \/ RecvNothing(t)
      BY <1>0, <2>1 DEF Recv, RecvNothing, ThreadType, wire
    <2>2. CASE ClearOne(t) \/ ClearDone(t)
      BY <1>0, <2>2 DEF ClearOne, ClearDone, NextRead, NextWrite, ThreadType, wire, locals
    <2>3. QED
      BY <2>1, <2>2
  <1>2. pc[t] \in Held /\ pc'[t] \in Held
    <2>1. CASE Recv(t) \/ RecvNothing(t)
      BY <1>0, <2>1 DEF Recv, RecvNothing, ThreadType, Held, ReadPC
    <2>2. CASE ClearOne(t) \/ ClearDone(t)
      BY <1>0, <2>2 DEF ClearOne, ClearDone, NextRead, NextWrite, ThreadType, Held, ReadPC, WritePC
    <2>3. QED
      BY <2>1, <2>2
  <1>3. FileSends' = FileSends
    BY <1>1, NothingPosted
  <1>4. QED
    BY <1>1, <1>2, <1>3, Within

LEMMA WriteSendStep ==
  ASSUME OnlyLoss, TypeInv, LockDiscipline, SafeInv, NEW t \in Thread, WriteSend(t)
  PROVE  File!Next \/ UNCHANGED File!vars
  <1>0. ThreadType /\ LockType /\ OpInv
    BY DEF TypeInv, TypeOK
  <1>1. /\ \A u \in Thread \ {t} : pc'[u] = pc[u] /\ data'[u] = data[u] /\ err'[u] = err[u]
        /\ reg' = reg /\ call' = call
    BY <1>0 DEF WriteSend, NextWrite, ThreadType, Sent, SendFails
  <1>2. pc[t] \in Held /\ pc'[t] \in Held
    BY <1>0 DEF WriteSend, NextWrite, ThreadType, Held, ReadPC, WritePC
  <1>3. lock.owner = t /\ call[t].op \in WriteOps
    BY <1>0 DEF WriteSend, LockDiscipline, OpInv, WritePC
  <1>4. lock'.owner = lock.owner
    BY <1>0, <1>3, LockTaken DEF WriteSend
  <1>5. WriteCmds(call[t]) \in Seq(Cmd)
    BY <1>3, WritePacket
  <1>6. call[t] \in Calls
    BY <1>0 DEF ThreadType
  <1>7. CASE Sent(UDP_data \o WriteCmds(call[t])) /\ call[t].op = "writePDI"
    <2>1. Len(WriteCmds(call[t])) = Len(call[t].regs)
      BY <1>6, <1>7, WriteCmdsType DEF ReadOps
    <2>2. \A i \in 1..Len(WriteCmds(call[t])) : WriteCmds(call[t])[i].op # "send"
      BY <1>7, <2>1 DEF WriteCmds
    <2>3. SendsIn(WriteCmds(call[t])) = <<>>
      BY <1>5, <2>2, SendsOfNone
    <2>4. File!Posted(<<>>)
      BY <1>5, <1>7, <2>3, SentPosted
    <2>5. QED
      BY <1>1, <1>2, <1>4, <2>4, Within
  <1>8. CASE Sent(UDP_data \o WriteCmds(call[t])) /\ call[t].op = "writePDI_noReadBack"
    <2> DEFINE n == Len(call[t].regs)
    <2>1. /\ SendsIn(WriteCmds(call[t])) = Items(call[t], 1, n)
          /\ 1 \in 1..n /\ n \in 1..n /\ 1 <= n
      BY <1>6, <1>8, ItemsOfAll
    <2>2. File!Posted(Items(call[t], 1, n))
      BY <1>5, <1>8, <2>1, SentPosted
    <2>3. DOMAIN call[t].regs = 1..n
      BY <1>6, CallType
    <2>4. StageOf(t) = "busy" /\ StageOf(t)' = "busy" /\ ReplyOf(t)' = ReplyOf(t)
      BY <1>2 DEF StageOf, ReplyOf, Held, ReadPC, WritePC
    <2>5. /\ \A u \in Thread \ {t} : pc'[u] = pc[u] /\ call'[u] = call[u] /\ data'[u] = data[u] /\ err'[u] = err[u]
      BY <1>1
    <2>6. FileStage' = FileStage /\ FileReply' = FileReply /\ FileStage[t] = "busy"
      BY <2>4, <2>5, SameStage DEF FileStage
    <2> HIDE DEF n
    <2>7. File!Post(t)
      BY <1>1, <1>4, <1>8, <2>1, <2>2, <2>3, <2>6 DEF File!Post, File!Item, Items
    <2>8. QED
      BY <2>7 DEF File!Next
  <1>9. CASE SendFails(UDP_data \o WriteCmds(call[t]))
    <2>1. File!Posted(<<>>)
      BY <1>9, FailsPosted
    <2>2. QED
      BY <1>1, <1>2, <1>4, <2>1, Within
  <1>10. QED
    BY <1>3, <1>7, <1>8, <1>9 DEF WriteSend, WriteOps

(* The step that gives the lock back and returns is the answer.            *)
LEMMA AnswerStep ==
  ASSUME TypeInv, LockDiscipline, NEW t \in Thread, pc[t] \in {"rdone", "wdone"}, pc'[t] = "return",
         \A u \in Thread \ {t} : pc'[u] = pc[u],
         lock' = Unlocked, UNCHANGED <<wire, call, data, err>>,
         err[t] = "ok" => /\ File!Checks(call[t]) => File!Now(call[t]) = call[t].vals
                          /\ File!Reads(call[t]) => File!Now(call[t]) = data[t]
  PROVE  File!Next
  <1>0. ThreadType
    BY DEF TypeInv, TypeOK
  <1>1. /\ lock.owner = t /\ lock'.owner = NoThread /\ reg' = reg /\ call' = call
        /\ UNCHANGED <<toCam, UDP_data>>
        /\ \A u \in Thread \ {t} : pc'[u] = pc[u] /\ call'[u] = call[u] /\ data'[u] = data[u] /\ err'[u] = err[u]
    BY DEF LockDiscipline, ReadPC, WritePC, Unlocked, wire
  <1>2. File!Posted(<<>>)
    BY <1>1, NothingPosted
  <1>3. StageOf(t) = "busy" /\ StageOf(t)' = "answered" /\ ReplyOf(t) = NoAnswerYet
    BY DEF StageOf, ReplyOf, NoAnswerYet
  <1>4. /\ FileStage[t] = "busy" /\ FileStage' = [FileStage EXCEPT ![t] = "answered"]
        /\ FileReply[t] = NoAnswerYet /\ FileReply' = [FileReply EXCEPT ![t] = ReplyOf(t)']
    BY <1>1, <1>3, OnlyOne
  <1>5. File!Goes(t, "busy", "answered")
    BY <1>4 DEF File!Goes
  <1>6. File!Reads(call[t]) <=> call[t].op \in ReadOps
    BY DEF File!Reads, ReadOps
  <1>7. CASE err[t] = "ok"
    <2> DEFINE d == IF File!Reads(call[t]) THEN File!Now(call[t]) ELSE <<>>
    <2>1. ReplyOf(t)' = [err |-> "ok", data |-> d]
      BY <1>1, <1>6, <1>7 DEF ReplyOf
    <2> HIDE DEF d
    <2>2. FileReply' = [FileReply EXCEPT ![t].data = d]
      <3>1. [NoAnswerYet EXCEPT !.data = d] = [err |-> "ok", data |-> d]
        BY DEF NoAnswerYet
      <3>2. [FileReply EXCEPT ![t].data = d] = [FileReply EXCEPT ![t] = [NoAnswerYet EXCEPT !.data = d]]
        BY <1>4
      <3>3. QED
        BY <1>4, <2>1, <3>1, <3>2
    <2>3. File!Answer(t)
      BY <1>1, <1>2, <1>5, <1>7, <2>2 DEF File!Answer, d
    <2>4. QED
      BY <2>3 DEF File!Next
  <1>8. CASE err[t] # "ok"
    <2>1. err[t] = "error"
      BY <1>0, <1>8 DEF ThreadType
    <2>2. ReplyOf(t)' = [err |-> "error", data |-> <<>>]
      BY <2>1 DEF ReplyOf
    <2>3. FileReply' = [FileReply EXCEPT ![t].err = "error"]
      <3>1. [NoAnswerYet EXCEPT !.err = "error"] = [err |-> "error", data |-> <<>>]
        BY DEF NoAnswerYet
      <3>2. [FileReply EXCEPT ![t].err = "error"] = [FileReply EXCEPT ![t] = [NoAnswerYet EXCEPT !.err = "error"]]
        BY <1>4
      <3>3. QED
        BY <1>4, <2>2, <3>1, <3>2
    <2>4. File!Answer(t)
      BY <1>1, <1>2, <1>5, <2>3 DEF File!Answer
    <2>5. QED
      BY <2>4 DEF File!Next
  <1>9. QED
    BY <1>7, <1>8

LEMMA ReadDoneStep ==
  ASSUME TypeInv, LockDiscipline, SafeInv, NEW t \in Thread, ReadDone(t)
  PROVE  File!Next \/ UNCHANGED File!vars
  <1>0. ThreadType /\ LockType /\ OpInv /\ PcInv(t)
    BY DEF TypeInv, TypeOK, SafeInv
  <1>1. lock.owner = t /\ lock.depth = Depth(t) /\ call[t] \in Calls
    BY <1>0 DEF ReadDone, LockDiscipline, ReadPC, ThreadType
  <1>2. CASE call[t].op \in ReadOps
    <2>1. /\ pc[t] = "rdone" /\ pc'[t] = "return" /\ \A u \in Thread \ {t} : pc'[u] = pc[u]
          /\ UNCHANGED <<wire, call, data, err>>
      BY <1>0, <1>2 DEF ReadDone, ThreadType, ReadOps, WriteOps
    <2>2. lock' = Unlocked
      BY <1>1, <1>2, <2>1 DEF ReadDone, Depth, ReadPC, WritePC, ReadOps, WriteOps, Unlock
    <2>3. ASSUME err[t] = "ok" PROVE File!Now(call[t]) = data[t]
      <3>1. data[t] = Values(call[t].regs, reg)
        BY <1>0, <2>1, <2>3 DEF PcInv, Current
      <3>2. DOMAIN call[t].regs = 1..Len(call[t].regs)
        BY <1>1, CallType
      <3>3. QED
        BY <3>1, <3>2 DEF Values, File!Now
    <2>4. ~File!Checks(call[t])
      BY <1>2 DEF File!Checks, ReadOps
    <2>5. QED
      BY <2>1, <2>2, <2>3, <2>4, AnswerStep
  <1>3. CASE call[t].op \in WriteOps
    <2>1. /\ \A u \in Thread \ {t} : pc'[u] = pc[u] /\ data'[u] = data[u] /\ err'[u] = err[u]
          /\ UNCHANGED <<toCam, UDP_data>> /\ reg' = reg /\ call' = call
      BY <1>0 DEF ReadDone, NextWrite, ThreadType, wire
    <2>2. pc[t] \in Held /\ pc'[t] \in Held
      BY <1>0, <1>3 DEF ReadDone, NextWrite, ThreadType, Held, ReadPC, WritePC, ReadOps, WriteOps
    <2>3. lock.depth = 2
      BY <1>1, <1>3 DEF ReadDone, Depth, ReadPC
    <2>4. lock'.owner = lock.owner
      BY <1>0, <2>3 DEF ReadDone, Unlock, LockType
    <2>5. FileSends' = FileSends
      BY <2>1, NothingPosted
    <2>6. QED
      BY <2>1, <2>2, <2>4, <2>5, Within
  <1>4. QED
    BY <1>0, <1>2, <1>3 DEF ReadDone

LEMMA WriteDoneStep ==
  ASSUME TypeInv, LockDiscipline, SafeInv, NEW t \in Thread, WriteDone(t)
  PROVE  File!Next
  <1>0. ThreadType /\ LockType /\ OpInv /\ PcInv(t)
    BY DEF TypeInv, TypeOK, SafeInv
  <1>1. lock.owner = t /\ lock.depth = 1 /\ call[t] \in Calls /\ call[t].op \in WriteOps
    BY <1>0 DEF WriteDone, LockDiscipline, ReadPC, WritePC, ThreadType, OpInv, Depth
  <1>2. /\ pc[t] = "wdone" /\ pc'[t] = "return" /\ \A u \in Thread \ {t} : pc'[u] = pc[u]
        /\ UNCHANGED <<wire, call, data, err>> /\ lock' = Unlocked
    BY <1>0, <1>1 DEF WriteDone, ThreadType, Unlock, locals
  <1>3. ~File!Reads(call[t])
    BY <1>1 DEF File!Reads, WriteOps
  <1>4. ASSUME err[t] = "ok", File!Checks(call[t]) PROVE File!Now(call[t]) = call[t].vals
    <2>1. Written(t)
      BY <1>0, <1>2, <1>4 DEF PcInv, File!Checks
    <2>2. /\ DOMAIN call[t].regs = 1..Len(call[t].regs) /\ DOMAIN call[t].vals = 1..Len(call[t].regs)
          /\ call[t].vals = [i \in 1..Len(call[t].regs) |-> call[t].vals[i]]
      <3>1. call[t].vals \in Seq(Val) /\ call[t].regs \in Seq(Reg) /\ Len(call[t].vals) = Len(call[t].regs)
        BY <1>1, CallType DEF WriteOps, ReadOps
      <3>2. QED
        BY <3>1
    <2>3. QED
      BY <2>1, <2>2 DEF Written, File!Now
  <1>5. QED
    BY <1>2, <1>3, <1>4, AnswerStep

-----------------------------------------------------------------------------
(* The camera: a read changes nothing, a command that was only sent takes  *)
(* effect, a checked write overwrites a register of its call.              *)
LEMMA CameraStep ==
  ASSUME TypeInv, FileInv, Camera
  PROVE  File!Next \/ UNCHANGED File!vars
  <1> DEFINE c == Head(toCam)
             rest == Tail(toCam)
  <1>1. /\ lock' = lock /\ pc' = pc /\ call' = call /\ data' = data /\ err' = err
        /\ UDP_data' = UDP_data /\ toCam' = rest /\ toCam # <<>>
    BY DEF Camera, locals
  <1>2. /\ toCam \in Seq(Cmd) /\ UDP_data \in Seq(Cmd)
        /\ FileSends = SendsIn(toCam) \o SendsIn(UDP_data)
        /\ c \in Cmd /\ rest \in Seq(Cmd) /\ 1 \in 1..Len(toCam) /\ toCam[1] = c
    <2>1. toCam \in Seq(Cmd) /\ toCam # <<>>
      BY <1>1, FileTypes
    <2>2. c \in Cmd /\ rest \in Seq(Cmd) /\ 1 \in 1..Len(toCam) /\ toCam[1] = c
      BY <2>1
    <2>3. QED
      BY <2>1, <2>2, FileTypes
  <1>3. toCam = <<c>> \o rest
    BY <1>1, <1>2
  <1>4. reg' = IF c.op = "read" THEN reg ELSE [reg EXCEPT ![c.reg] = c.val]
    BY DEF Camera
  <1> HIDE DEF c, rest
  <1>5. <<c>> \in Seq(Cmd)
    BY <1>2
  <1>6. SendsIn(toCam) = SendsIn(<<c>>) \o SendsIn(rest)
    BY <1>2, <1>3, <1>5, SendsOfBoth
  <1>7. /\ SendsIn(rest) \in Seq(Setting) /\ SendsIn(UDP_data) \in Seq(Setting)
        /\ FileSends' = SendsIn(rest) \o SendsIn(UDP_data)
    <2>1. SendsIn(rest) \in Seq(Setting) /\ SendsIn(UDP_data) \in Seq(Setting)
      BY <1>2, SendsType
    <2>2. FileSends' = SendsIn(rest \o UDP_data)
      BY <1>1 DEF FileSends
    <2>3. QED
      BY <1>2, <2>1, <2>2, SendsOfBoth
  <1>8. FileStage' = FileStage /\ FileReply' = FileReply
    BY <1>1 DEF FileStage, FileReply, StageOf, ReplyOf
  <1>9. CASE c.op # "send"
    <2>1. SendsIn(<<c>>) = <<>>
      BY <1>2, <1>9, SendsOfOne
    <2>2. FileSends' = FileSends
      <3>1. <<>> \o SendsIn(rest) = SendsIn(rest)
        BY <1>7
      <3>2. QED
        BY <1>2, <1>6, <1>7, <2>1, <3>1
    <2>3. CASE c.op = "read"
      BY <1>1, <1>4, <1>8, <2>2, <2>3 DEF File!vars
    <2>4. CASE c.op = "write"
      <3>1. Owned(toCam, lock.owner, call)
        BY DEF FileInv
      <3>2. PICK t \in Thread : /\ lock.owner = t /\ call[t].op = "writePDI"
                                /\ \E k \in 1..Len(call[t].regs) :
                                     c.reg = call[t].regs[k] /\ c.val = call[t].vals[k]
        BY <1>2, <2>4, <3>1 DEF Owned
      <3>3. PICK k \in 1..Len(call[t].regs) : c.reg = call[t].regs[k] /\ c.val = call[t].vals[k]
        BY <3>2
      <3>4. k \in DOMAIN call[t].regs
        <4>1. call[t].regs \in Seq(Reg)
          BY CallType DEF TypeInv, TypeOK, ThreadType
        <4>2. QED
          BY <3>3, <4>1
      <3>5. reg' = [reg EXCEPT ![call[t].regs[k]] = call[t].vals[k]]
        BY <1>4, <2>4, <3>3
      <3>6. File!Overwrite(t)
        BY <1>1, <1>8, <2>2, <3>2, <3>4, <3>5 DEF File!Overwrite, File!Checks
      <3>7. QED
        BY <3>6 DEF File!Next
    <2>5. QED
      BY <1>2, <1>9, <2>3, <2>4 DEF Cmd, ReadCmd, WriteCmd
  <1>10. CASE c.op = "send"
    <2>1. SendsIn(<<c>>) = <<Effect(c)>> /\ Effect(c) \in Setting
      BY <1>2, <1>10, SendsOfOne, EffectType
    <2> DEFINE e == Effect(c)
               s == SendsIn(rest) \o SendsIn(UDP_data)
    <2>2. s \in Seq(Setting) /\ FileSends = <<e>> \o s
      <3>1. \A a, b \in Seq(Setting) : \A x \in Setting : (<<x>> \o a) \o b = <<x>> \o (a \o b)
        OBVIOUS
      <3>2. s \in Seq(Setting)
        BY <1>7, ConcatProperties
      <3>3. FileSends = (<<e>> \o SendsIn(rest)) \o SendsIn(UDP_data)
        BY <1>2, <1>6, <2>1
      <3>4. (<<e>> \o SendsIn(rest)) \o SendsIn(UDP_data) = <<e>> \o s
        <4>1. e \in Setting
          BY <2>1
        <4> HIDE DEF e
        <4>2. QED
          BY <1>7, <3>1, <4>1
      <3>5. QED
        BY <3>2, <3>3, <3>4
    <2>3. e.reg = c.reg /\ e.val = c.val /\ e \in Setting
      BY <2>1 DEF Effect
    <2>4. FileSends' = s
      BY <1>7
    <2> HIDE DEF e, s
    <2>5. FileSends # <<>> /\ Head(FileSends) = e /\ Tail(FileSends) = s
      BY <2>2, <2>3
    <2>6. File!TakeEffect
      BY <1>1, <1>4, <1>8, <1>10, <2>3, <2>4, <2>5 DEF File!TakeEffect
    <2>7. QED
      BY <2>6 DEF File!Next
  <1>11. QED
    BY <1>9, <1>10

LEMMA RefineInit == Init => File!Init
  <1> SUFFICES ASSUME Init PROVE File!Init
    OBVIOUS
  <1>1. <<>> \in Seq(Cmd) /\ SendsIn(<<>>) = <<>>
    <2>1. <<>> \in Seq(Cmd) /\ \A i \in 1..Len(<<>>) : FALSE
      OBVIOUS
    <2>2. QED
      BY <2>1, SendsOfNone
  <1>2. FileSends = <<>>
    <2>1. <<>> \o <<>> = <<>> /\ toCam = <<>> /\ UDP_data = <<>>
      BY <1>1 DEF Init
    <2>2. QED
      BY <1>1, <2>1 DEF FileSends
  <1>3. FileStage = [t \in Thread |-> "idle"]
    BY DEF Init, FileStage, StageOf
  <1>4. FileReply = [t \in Thread |-> File!NoReply]
    BY DEF Init, FileReply, ReplyOf, File!NoReply
  <1>5. QED
    BY <1>2, <1>3, <1>4 DEF Init, File!Init, File!NoCall, AnyCall

LEMMA RefineStep ==
  ASSUME OnlyLoss, TypeInv, LockDiscipline, SafeInv, FileInv, [Next]_vars
  PROVE  [File!Next]_File!vars
  <1>0. commSocket = "open"
    BY DEF SafeInv
  <1>1. ASSUME NEW t \in Thread, NEW c \in Calls, Begin(t, c) PROVE File!Next
    BY <1>1, AskStep
  <1>2. ASSUME NEW t \in Thread, Acquire(t) \/ Return(t) \/ Flush(t) \/ WriteDone(t) PROVE File!Next
    BY <1>2, GrantStep, ReturnStep, FlushStep, WriteDoneStep
  <1>3. ASSUME NEW t \in Thread, AppendCommand(t) \/ ReadSend(t) \/ WriteSend(t) \/ ReadDone(t)
        PROVE  File!Next \/ UNCHANGED File!vars
    BY <1>3, AppendStep, ReadSendStep, WriteSendStep, ReadDoneStep
  <1>4. ASSUME NEW t \in Thread, Recv(t) \/ RecvNothing(t) \/ ClearOne(t) \/ ClearDone(t)
        PROVE  File!Next \/ UNCHANGED File!vars
    BY <1>4, RecvStep
  <1>5. \A t \in Thread : ~Raise(t)
    BY <1>0 DEF Raise
  <1>6. CASE Camera
    BY <1>6, CameraStep
  <1>7. ~Close /\ ~Reopen
    BY <1>0 DEF Close, Reopen, OnlyLoss
  <1>8. CASE UNCHANGED vars
    BY <1>8 DEF vars, wire, locals, File!vars, FileStage, FileReply, FileSends, StageOf, ReplyOf
  <1>9. QED
    BY <1>1, <1>2, <1>3, <1>4, <1>5, <1>6, <1>7, <1>8 DEF Next, InCall

(* As long as packets and answers are at worst lost, register access over  *)
(* UDP implements the register file: for any threads, registers and calls  *)
(* readPDI, readCCdata and writePDI look atomic to their callers, and      *)
(* commands that are only sent take effect later, in order, or never.      *)
THEOREM Refines == ASSUME OnlyLoss PROVE Spec => IsRegFile
  <1>1. TypeInv /\ LockDiscipline /\ SafeInv /\ FileInv /\ [Next]_vars
          => (TypeInv /\ LockDiscipline /\ SafeInv /\ FileInv)'
    BY TypeStep, LockStep, SafeStep, FileStep
  <1>2. TypeInv /\ LockDiscipline /\ SafeInv /\ FileInv /\ [Next]_vars => [File!Next]_File!vars
    BY RefineStep
  <1>3. QED
    BY TypeInit, LockInit, SafeInit, FileInvInit, RefineInit, <1>1, <1>2, PTL DEF Spec, IsRegFile, File!Spec
=============================================================================
