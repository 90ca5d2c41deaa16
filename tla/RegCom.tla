------------------------------- MODULE RegCom -------------------------------
(***************************************************************************)
(* Register access over UDP by APDCAM10G_regCom (APDCAM10G_control.py):    *)
(* sendCommand, getAnswer, clearAnswerQueue, readPDI, readCCdata, writePDI *)
(* and the unlocked packet building of loadTimerSetup, run by the threads  *)
(* of the control program over one socket guarded by one RLock.            *)
(*                                                                         *)
(* A register range of a card, with its byte count, is a member of Reg;    *)
(* the settings and variables blocks of the control card are members too.  *)
(* Shape[r] is what the reader compares in an answer before it accepts it: *)
(* the byte count of a PDI register, the block code of a control card      *)
(* block. Nothing else identifies an answer.                               *)
(***************************************************************************)
EXTENDS Integers, Sequences

CONSTANTS
  Thread,        \* threads of the control program that use one regCom object
  NoThread,      \* the owner of a free lock
  Reg,           \* register ranges and control card blocks
  Val,           \* their values
  Shape,         \* Shape[r]: what is checked in an answer for r
  Calls,         \* the calls the threads make
  RepeatNumber,  \* self.repeatNumber
  Faults,        \* what the network and the other threads may do, see below
  MaxBacklog,    \* bound: no call begins with more messages outstanding
  MaxPacket      \* bound: or with more commands left in UDP_data

(***************************************************************************)
(* loss      a packet to the camera, or one answer, disappears             *)
(* shortSend sendto sends fewer bytes than the packet has                  *)
(* sendError sendto raises socket.error                                    *)
(* late      recv times out although an answer is still to come            *)
(* recvError recv raises a socket.error other than the timeout             *)
(* close     another thread closes the socket, and may open it again       *)
(***************************************************************************)
AllFaults == {"loss", "shortSend", "sendError", "late", "recvError", "close"}

ReadOps  == {"readPDI", "readCCdata"}
WriteOps == {"writePDI", "writePDI_noReadBack"}
SendOps  == {"sendCommand", "loadTimerSetup"}

CallOK(c) ==
  /\ c \in [op : ReadOps \cup WriteOps \cup SendOps, regs : Seq(Reg), vals : Seq(Val)]
  /\ Len(c.regs) > 0
  /\ c.op \notin ReadOps => Len(c.vals) = Len(c.regs)
  /\ c.op = "readCCdata" => Len(c.regs) = 1

ASSUME RegComAssumption ==
  /\ NoThread \notin Thread
  /\ Calls # {} /\ \A c \in Calls : CallOK(c)
  /\ RepeatNumber \in Nat \ {0}
  /\ MaxBacklog \in Nat /\ MaxPacket \in Nat
  /\ Faults \subseteq AllFaults

VARIABLES
  lock,        \* the RLock: its owner and its acquisition count
  UDP_data,    \* commands collected for the next packet; <<>> stands for None
  commSocket,  \* "open", or "none" after close()
  toCam,       \* commands on their way to the camera, in the order sent
  rxq,         \* answers received by the socket and not yet read
  reg,         \* the camera's registers
  pc,          \* where each thread is
  call,        \* the call it makes
  rep,         \* the repetition loop of readPDI or readCCdata
  wrep,        \* the repetition loop of writePDI
  pos,         \* commands loadTimerSetup has appended
  data,        \* answers accepted in this repetition
  err          \* the error text: "ok" (the empty one) or "error"

locals == <<call, rep, wrep, pos, data, err>>
wire   == <<UDP_data, toCam, rxq, reg>>
vars   == <<lock, wire, commSocket, pc, locals>>

ReadCmd  == [op : {"read"}, reg : Reg]
WriteCmd == [op : {"write", "send"}, reg : Reg, val : Val]
Answer   == [reg : Reg, val : Val]

PC == {"idle", "acquire", "append", "flush", "wsend", "rsend", "recv", "clear",
       "rdone", "wclear", "wdone", "return", "dead"}

LockType ==
  /\ lock \in [owner : Thread \cup {NoThread}, depth : Int]
  /\ commSocket \in {"open", "none"}

WireType ==
  /\ UDP_data \in Seq(ReadCmd \cup WriteCmd)
  /\ toCam \in Seq(ReadCmd \cup WriteCmd)
  /\ rxq \in Seq(Answer)
  /\ reg \in [Reg -> Val]

ThreadType ==
  /\ pc \in [Thread -> PC]
  /\ call \in [Thread -> Calls]
  /\ rep \in [Thread -> 0..RepeatNumber]
  /\ wrep \in [Thread -> 0..RepeatNumber]
  /\ pos \in [Thread -> Nat]
  /\ data \in [Thread -> Seq(Val)]
  /\ err \in [Thread -> {"ok", "error"}]

(* Every variable keeps its type; the loop counters of readPDI, readCCdata *)
(* and writePDI never pass repeatNumber.                                   *)
TypeOK == LockType /\ WireType /\ ThreadType

AnyCall == CHOOSE c \in Calls : TRUE  \* of a thread that is idle

Init ==
  /\ lock = [owner |-> NoThread, depth |-> 0]
  /\ UDP_data = <<>> /\ toCam = <<>> /\ rxq = <<>>
  /\ commSocket = "open"
  /\ reg \in [Reg -> Val]
  /\ pc = [t \in Thread |-> "idle"]
  /\ call = [t \in Thread |-> AnyCall]
  /\ rep = [t \in Thread |-> 0] /\ wrep = [t \in Thread |-> 0]
  /\ pos = [t \in Thread |-> 0]
  /\ data = [t \in Thread |-> <<>>]
  /\ err = [t \in Thread |-> "ok"]

-----------------------------------------------------------------------------
(* The lock.                                                               *)

Free == lock.owner = NoThread

Unlocked == [owner |-> NoThread, depth |-> 0]

Lock(t) == lock' = [owner |-> t, depth |-> lock.depth + 1]

(* Mutant: the error path forgets one of its releases.                     *)
Unlock_OnSuccessOnly(t) == lock' = IF err[t] # "ok" THEN lock
                                   ELSE IF lock.depth = 1 THEN Unlocked
                                   ELSE [lock EXCEPT !.depth = @ - 1]

Unlock(t) == lock' = IF lock.depth = 1 THEN Unlocked
                     ELSE [lock EXCEPT !.depth = @ - 1]

-----------------------------------------------------------------------------
(* The packets a call builds: checked writes are told apart from commands  *)
(* whose effect nobody reads back.                                         *)

ReadCmds(c) == [i \in 1..Len(c.regs) |-> [op |-> "read", reg |-> c.regs[i]]]

WriteCmds(c) ==
  [i \in 1..Len(c.regs) |->
     [op  |-> IF c.op = "writePDI" THEN "write" ELSE "send",
      reg |-> c.regs[i], val |-> c.vals[i]]]

(* sendCommand(..., sendImmediately=True) gets its packet out, or it stays *)
(* without effect and returns an error text.                               *)
Sent(packet) ==
  /\ commSocket = "open"
  /\ UDP_data' = <<>>
  /\ \/ toCam' = toCam \o packet
     \/ "loss" \in Faults /\ toCam' = toCam
  /\ UNCHANGED <<rxq, reg>>

(* Mutant: the packet survives the short send as well.                     *)
SendFails_KeepsPacket(packet) ==
  /\ commSocket = "open"
  /\ \/ "sendError" \in Faults /\ UDP_data' = packet
     \/ "shortSend" \in Faults /\ UDP_data' = packet
  /\ UNCHANGED <<toCam, rxq, reg>>

(* Only a short send throws the packet away: after a socket.error it stays *)
(* in UDP_data.                                                            *)
SendFails(packet) ==
  /\ commSocket = "open"
  /\ \/ "sendError" \in Faults /\ UDP_data' = packet
     \/ "shortSend" \in Faults /\ UDP_data' = <<>>
  /\ UNCHANGED <<toCam, rxq, reg>>

(* getAnswer returns ("", None), or an error text.                         *)
NoAnswer ==
  \/ commSocket = "open" /\ rxq = <<>> /\ (toCam = <<>> \/ "late" \in Faults)
  \/ commSocket = "open" /\ "recvError" \in Faults
  \/ commSocket = "none"

-----------------------------------------------------------------------------
(* A thread begins and ends a call.                                        *)

Begin(t, c) ==
  /\ pc[t] = "idle"
  /\ Len(toCam) + Len(rxq) <= MaxBacklog
  /\ Len(UDP_data) <= IF c.op = "loadTimerSetup" THEN MaxBacklog ELSE MaxPacket
  /\ call' = [call EXCEPT ![t] = c]
  /\ pc' = [pc EXCEPT ![t] = CASE c.op = "sendCommand"    -> "flush"
                               [] c.op = "loadTimerSetup" -> "append"
                               [] OTHER                   -> "acquire"]
  /\ UNCHANGED <<lock, wire, commSocket, rep, wrep, pos, data, err>>

Return(t) ==
  /\ pc[t] = "return"
  /\ pc' = [pc EXCEPT ![t] = "idle"]
  /\ call' = [call EXCEPT ![t] = AnyCall]
  /\ rep' = [rep EXCEPT ![t] = 0] /\ wrep' = [wrep EXCEPT ![t] = 0]
  /\ pos' = [pos EXCEPT ![t] = 0]
  /\ data' = [data EXCEPT ![t] = <<>>]
  /\ err' = [err EXCEPT ![t] = "ok"]
  /\ UNCHANGED <<lock, wire, commSocket>>

Acquire(t) ==
  /\ pc[t] = "acquire"
  /\ Free
  /\ Lock(t)
  /\ pc' = [pc EXCEPT ![t] = IF call[t].op \in ReadOps THEN "rsend" ELSE "wsend"]
  /\ UNCHANGED <<wire, commSocket, locals>>

(* loadTimerSetup appends its commands one by one; the lock is free        *)
(* between them. A value out of range ends it in the middle.               *)
AppendCommand(t) ==
  /\ pc[t] = "append"
  /\ Free
  /\ \/ /\ pos[t] < Len(call[t].regs)
        /\ UDP_data' = Append(UDP_data, WriteCmds(call[t])[pos[t] + 1])
        /\ pos' = [pos EXCEPT ![t] = @ + 1]
        /\ UNCHANGED <<pc, err>>
     \/ /\ pos[t] = Len(call[t].regs)
        /\ pc' = [pc EXCEPT ![t] = "flush"]
        /\ UNCHANGED <<UDP_data, pos, err>>
     \/ /\ pos[t] > 0
        /\ pc' = [pc EXCEPT ![t] = "return"]
        /\ err' = [err EXCEPT ![t] = "error"]
        /\ UNCHANGED <<UDP_data, pos>>
  /\ UNCHANGED <<lock, toCam, rxq, reg, commSocket, call, rep, wrep, data>>

(* sendCommand sending immediately, outside any longer critical section.   *)
FlushPacket(t) ==
  UDP_data \o (IF call[t].op = "sendCommand" THEN WriteCmds(call[t]) ELSE <<>>)

Flush(t) ==
  /\ pc[t] = "flush"
  /\ Free
  /\ \/ Sent(FlushPacket(t)) /\ UNCHANGED err
     \/ SendFails(FlushPacket(t)) /\ err' = [err EXCEPT ![t] = "error"]
  /\ pc' = [pc EXCEPT ![t] = "return"]
  /\ UNCHANGED <<lock, commSocket, call, rep, wrep, pos, data>>

-----------------------------------------------------------------------------
(* readPDI and readCCdata.                                                 *)

(* Mutant: one repetition too many.                                        *)
NextRead_OneMore(t) ==
  /\ rep' = [rep EXCEPT ![t] = @ + 1]
  /\ pc' = [pc EXCEPT ![t] = IF rep[t] < RepeatNumber THEN "rsend" ELSE "rdone"]

(* Mutant: the repetition is not counted.                                  *)
NextRead_Forever(t) ==
  /\ pc' = [pc EXCEPT ![t] = "rsend"]
  /\ UNCHANGED rep

NextRead(t) ==
  /\ rep' = [rep EXCEPT ![t] = @ + 1]
  /\ pc' = [pc EXCEPT ![t] = IF rep[t] + 1 < RepeatNumber THEN "rsend" ELSE "rdone"]

ReadSend(t) ==
  LET packet == UDP_data \o ReadCmds(call[t]) IN
  /\ pc[t] = "rsend"
  /\ \/ /\ Sent(packet)
        /\ pc' = [pc EXCEPT ![t] = "recv"]
        /\ data' = [data EXCEPT ![t] = <<>>]
        /\ err' = [err EXCEPT ![t] = "ok"]
        /\ UNCHANGED rep
     \/ /\ SendFails(packet)
        /\ NextRead(t)
        /\ err' = [err EXCEPT ![t] = "error"]
        /\ UNCHANGED data
  /\ UNCHANGED <<lock, commSocket, call, wrep, pos>>

(* The answer is accepted when its code and byte count, or its block code, *)
(* are the expected ones.                                                  *)
Accepted(t) == Shape[Head(rxq).reg] = Shape[call[t].regs[Len(data[t]) + 1]]

Recv(t) ==
  /\ pc[t] = "recv"
  /\ commSocket = "open"
  /\ rxq # <<>>
  /\ rxq' = Tail(rxq)
  /\ IF Accepted(t)
     THEN /\ data' = [data EXCEPT ![t] = Append(@, Head(rxq).val)]
          /\ pc' = IF Len(data[t]) + 1 = Len(call[t].regs)
                   THEN [pc EXCEPT ![t] = "rdone"] ELSE pc
          /\ UNCHANGED err
     ELSE /\ err' = [err EXCEPT ![t] = "error"]
          /\ pc' = [pc EXCEPT ![t] = "clear"]
          /\ UNCHANGED data
  /\ UNCHANGED <<lock, UDP_data, toCam, reg, commSocket, call, rep, wrep, pos>>

RecvNothing(t) ==
  /\ pc[t] = "recv"
  /\ NoAnswer
  /\ err' = [err EXCEPT ![t] = "error"]
  /\ pc' = [pc EXCEPT ![t] = "clear"]
  /\ UNCHANGED <<lock, wire, commSocket, call, rep, wrep, pos, data>>

-----------------------------------------------------------------------------
(* writePDI: the repetition loop around a write and its read back.         *)

NextWrite(t) ==
  /\ wrep' = [wrep EXCEPT ![t] = @ + 1]
  /\ pc' = [pc EXCEPT ![t] = IF wrep[t] + 1 < RepeatNumber THEN "wsend" ELSE "wdone"]

WriteSend(t) ==
  LET packet == UDP_data \o WriteCmds(call[t]) IN
  /\ pc[t] = "wsend"
  /\ \/ /\ Sent(packet)
        /\ err' = [err EXCEPT ![t] = "ok"]
        /\ IF call[t].op = "writePDI_noReadBack"
           THEN /\ pc' = [pc EXCEPT ![t] = "wdone"]
                /\ UNCHANGED <<lock, rep, data>>
           ELSE /\ Lock(t)                       \* readPDI acquires it again
                /\ pc' = [pc EXCEPT ![t] = "rsend"]
                /\ rep' = [rep EXCEPT ![t] = 0]
                /\ data' = [data EXCEPT ![t] = <<>>]
        /\ UNCHANGED wrep
     \/ /\ SendFails(packet)
        /\ NextWrite(t)
        /\ err' = [err EXCEPT ![t] = "error"]
        /\ UNCHANGED <<lock, rep, data>>
  /\ UNCHANGED <<commSocket, call, pos>>

(* Mutant: the value read back is not compared.                            *)
ReadDone_NoCompare(t) ==
  /\ pc[t] = "rdone"
  /\ Unlock(t)
  /\ \/ /\ call[t].op \in ReadOps
        /\ pc' = [pc EXCEPT ![t] = "return"]
        /\ UNCHANGED <<wrep, err>>
     \/ /\ call[t].op \in WriteOps /\ err[t] # "ok"
        /\ pc' = [pc EXCEPT ![t] = "wclear"]
        /\ UNCHANGED <<wrep, err>>
     \/ /\ call[t].op \in WriteOps /\ err[t] = "ok"
        /\ pc' = [pc EXCEPT ![t] = "wdone"]
        /\ UNCHANGED <<wrep, err>>
  /\ UNCHANGED <<wire, commSocket, call, rep, pos, data>>

(* readPDI releases the lock and returns, to its caller or into writePDI.  *)
ReadDone(t) ==
  /\ pc[t] = "rdone"
  /\ Unlock(t)
  /\ \/ /\ call[t].op \in ReadOps
        /\ pc' = [pc EXCEPT ![t] = "return"]
        /\ UNCHANGED <<wrep, err>>
     \/ /\ call[t].op \in WriteOps /\ err[t] # "ok"
        /\ pc' = [pc EXCEPT ![t] = "wclear"]
        /\ UNCHANGED <<wrep, err>>
     \/ /\ call[t].op \in WriteOps /\ err[t] = "ok" /\ data[t] # call[t].vals
        /\ NextWrite(t)
        /\ err' = [err EXCEPT ![t] = "error"]
     \/ /\ call[t].op \in WriteOps /\ err[t] = "ok" /\ data[t] = call[t].vals
        /\ pc' = [pc EXCEPT ![t] = "wdone"]
        /\ UNCHANGED <<wrep, err>>
  /\ UNCHANGED <<wire, commSocket, call, rep, pos, data>>

WriteDone(t) ==
  /\ pc[t] = "wdone"
  /\ Unlock(t)
  /\ pc' = [pc EXCEPT ![t] = "return"]
  /\ UNCHANGED <<wire, commSocket, locals>>

(* clearAnswerQueue, called by the read loop and by the write loop: it     *)
(* reads until nothing comes, or recv fails.                               *)
ClearOne(t) ==
  /\ pc[t] \in {"clear", "wclear"}
  /\ commSocket = "open"
  /\ rxq # <<>>
  /\ rxq' = Tail(rxq)
  /\ UNCHANGED <<lock, UDP_data, toCam, reg, commSocket, pc, locals>>

(* Mutant: clearAnswerQueue is not called.                                 *)
ClearDone_AtOnce(t) ==
  /\ \/ pc[t] = "clear"  /\ NextRead(t)  /\ UNCHANGED wrep
     \/ pc[t] = "wclear" /\ NextWrite(t) /\ UNCHANGED rep
  /\ UNCHANGED <<lock, wire, commSocket, call, pos, data, err>>

ClearDone(t) ==
  /\ NoAnswer
  /\ \/ pc[t] = "clear"  /\ NextRead(t)  /\ UNCHANGED wrep
     \/ pc[t] = "wclear" /\ NextWrite(t) /\ UNCHANGED rep
  /\ UNCHANGED <<lock, wire, commSocket, call, pos, data, err>>

-----------------------------------------------------------------------------
(* close() and startReceiveAnswer() take no lock. With commSocket None     *)
(* sendCommand raises AttributeError after it acquired the lock.           *)

Close ==
  /\ "close" \in Faults
  /\ commSocket = "open"
  /\ commSocket' = "none"
  /\ rxq' = <<>>
  /\ UNCHANGED <<lock, UDP_data, toCam, reg, pc, locals>>

Reopen ==
  /\ commSocket = "none"
  /\ commSocket' = "open"
  /\ UNCHANGED <<lock, wire, pc, locals>>

Raise(t) ==
  /\ commSocket = "none"
  /\ \/ pc[t] \in {"rsend", "wsend"}
     \/ pc[t] = "flush" /\ Free
  /\ Lock(t)
  /\ UDP_data' = CASE pc[t] = "rsend" -> UDP_data \o ReadCmds(call[t])
                   [] pc[t] = "wsend" -> UDP_data \o WriteCmds(call[t])
                   [] pc[t] = "flush" -> FlushPacket(t)
  /\ pc' = [pc EXCEPT ![t] = "dead"]
  /\ UNCHANGED <<toCam, rxq, reg, commSocket, locals>>

-----------------------------------------------------------------------------
(* The camera executes commands in the order they were sent and answers    *)
(* only the reads.                                                         *)

Camera ==
  /\ toCam # <<>>
  /\ toCam' = Tail(toCam)
  /\ LET c == Head(toCam) IN
     IF c.op = "read"
     THEN /\ \/ /\ commSocket = "open"
                /\ rxq' = Append(rxq, [reg |-> c.reg, val |-> reg[c.reg]])
             \/ /\ "loss" \in Faults \/ commSocket = "none"
                /\ rxq' = rxq
          /\ reg' = reg
     ELSE reg' = [reg EXCEPT ![c.reg] = c.val] /\ rxq' = rxq
  /\ UNCHANGED <<lock, UDP_data, commSocket, pc, locals>>

InCall(t) ==
  \/ Return(t) \/ AppendCommand(t) \/ Flush(t)
  \/ ReadSend(t) \/ Recv(t) \/ RecvNothing(t) \/ ReadDone(t)
  \/ WriteSend(t) \/ WriteDone(t) \/ ClearOne(t) \/ ClearDone(t)
  \/ Raise(t)

Next ==
  \/ \E t \in Thread : Acquire(t) \/ InCall(t) \/ \E c \in Calls : Begin(t, c)
  \/ Camera \/ Close \/ Reopen

Spec == Init /\ [][Next]_vars

(* A running thread is scheduled and the camera works through what it got; *)
(* who gets the lock next is not fair.                                     *)
Fairness == WF_vars(Camera) /\ \A t \in Thread : WF_vars(InCall(t))

FairSpec == Spec /\ Fairness

-----------------------------------------------------------------------------
(* Properties.                                                             *)

ReadPC  == {"rsend", "recv", "clear", "rdone"}
WritePC == {"wsend", "wclear", "wdone"}

(* The acquisitions open in the methods a thread is in.                    *)
Depth(t) == IF pc[t] \in ReadPC /\ call[t].op \in WriteOps THEN 2
            ELSE IF pc[t] \in ReadPC \cup WritePC THEN 1 ELSE 0

(* A thread owns the RLock exactly when it is inside readPDI, readCCdata   *)
(* or writePDI, or died in sendCommand; the acquisitions it has open are   *)
(* those of the methods it is in (writePDI holds the lock once, the read   *)
(* back inside it twice), so no return path forgets a release.             *)
LockDiscipline ==
  /\ \A t \in Thread : (lock.owner = t) <=> (pc[t] \in ReadPC \cup WritePC \cup {"dead"})
  /\ \A t \in Thread : lock.owner = t /\ pc[t] # "dead" => lock.depth = Depth(t)
  /\ Free => lock.depth = 0

(* A read that ends without an error returns, in every position, the       *)
(* current value of the register asked for in that position, although      *)
(* an answer says nothing about the register it belongs to.                *)
ReadIsCurrent ==
  \A t \in Thread :
    pc[t] = "rdone" /\ err[t] = "ok" =>
      data[t] = [i \in 1..Len(call[t].regs) |-> reg[call[t].regs[i]]]

(* writePDI with read back ends without an error only when every register  *)
(* holds the value to be written.                                          *)
WriteVerified ==
  \A t \in Thread :
    pc[t] = "wdone" /\ err[t] = "ok" /\ call[t].op = "writePDI" =>
      \A i \in 1..Len(call[t].regs) : reg[call[t].regs[i]] = call[t].vals[i]

OnlySends(q) == \A i \in DOMAIN q : q[i].op = "send"

(* When nobody owns the lock nothing of a finished read or checked write   *)
(* is left: no answer is waiting or still to come, no checked write can    *)
(* take effect later and no command of it waits in UDP_data.               *)
QuietWhenFree == Free => rxq = <<>> /\ OnlySends(toCam) /\ OnlySends(UDP_data)

(* Whoever holds the lock gives it back, unless an exception has ended the *)
(* thread: the repetitions are bounded and clearAnswerQueue ends.          *)
LockIsReleased ==
  \A t \in Thread : lock.owner = t ~> lock.owner # t \/ pc[t] = "dead"
=============================================================================
