------------------------------ MODULE RegFile ------------------------------
(***************************************************************************)
(* What register access promises to the rest of the control program: the   *)
(* calls of the threads are made one at a time on a file of registers. A   *)
(* read answers with values that all hold at one moment, a checked write   *)
(* that answers "ok" has been done, and a failed call may have done some   *)
(* of its writes. Commands that are only sent take effect later, in the    *)
(* order sent, or never.                                                   *)
(***************************************************************************)
EXTENDS Integers, Sequences

CONSTANTS Thread, NoThread, Reg, Val, Calls

VARIABLES
  reg,      \* the registers
  holder,   \* the thread whose call is being made, or NoThread
  stage,    \* of each thread: "idle", "asked", "busy" or "answered"
  request,  \* the call it makes
  reply,    \* what the call returned: the error text and, of a read, values
  sends     \* commands sent and still without effect

vars == <<reg, holder, stage, request, reply, sends>>

NoCall  == CHOOSE c \in Calls : TRUE
NoReply == [err |-> "ok", data |-> <<>>]

Init ==
  /\ reg \in [Reg -> Val]
  /\ holder = NoThread
  /\ stage = [t \in Thread |-> "idle"]
  /\ request = [t \in Thread |-> NoCall]
  /\ reply = [t \in Thread |-> NoReply]
  /\ sends = <<>>

Reads(c)  == c.op \in {"readPDI", "readCCdata"}
Checks(c) == c.op = "writePDI"
Posts(c)  == c.op \in {"sendCommand", "loadTimerSetup"}

Goes(t, from, to) ==
  /\ stage[t] = from
  /\ stage' = [stage EXCEPT ![t] = to]

Ask(t, c) ==
  /\ Goes(t, "idle", "asked")
  /\ request' = [request EXCEPT ![t] = c]
  /\ UNCHANGED <<reg, holder, reply, sends>>

Grant(t) ==
  /\ Goes(t, "asked", "busy")
  /\ holder = NoThread /\ holder' = t
  /\ UNCHANGED <<reg, request, reply, sends>>

(* A checked write in progress: one of its registers gets its value.       *)
Overwrite(t) ==
  /\ holder = t /\ Checks(request[t])
  /\ \E i \in DOMAIN request[t].regs :
       reg' = [reg EXCEPT ![request[t].regs[i]] = request[t].vals[i]]
  /\ UNCHANGED <<holder, stage, request, reply, sends>>

(* One register of a command that is only sent.                            *)
Item(c, i) == [reg |-> c.regs[i], val |-> c.vals[i]]

(* Commands are added to those without effect, or lost together with       *)
(* others that have not left either.                                       *)
Posted(items) ==
  \E n \in 0..Len(sends \o items) : sends' = SubSeq(sends \o items, 1, n)

(* A command that takes no lock may end with its last posting.             *)
Post(t) ==
  /\ \/ stage[t] = "busy" /\ request[t].op = "writePDI_noReadBack" /\ stage' = stage
     \/ /\ stage[t] = "asked" /\ Posts(request[t]) /\ holder = NoThread
        /\ stage' = stage \/ Goes(t, "asked", "answered")
  /\ \E i, j \in DOMAIN request[t].regs :
       i <= j /\ Posted([k \in 1..(j - i + 1) |-> Item(request[t], i + k - 1)])
  /\ UNCHANGED <<reg, holder, request, reply>>

Lose == Posted(<<>>) /\ UNCHANGED <<reg, holder, stage, request, reply>>

TakeEffect ==
  /\ sends # <<>>
  /\ sends' = Tail(sends)
  /\ reg' = [reg EXCEPT ![Head(sends).reg] = Head(sends).val]
  /\ UNCHANGED <<holder, stage, request, reply>>

(* The values a read may return, and what a checked write must have done.  *)
Now(c) == [i \in DOMAIN c.regs |-> reg[c.regs[i]]]

Answer(t) ==
  /\ \/ holder = t /\ holder' = NoThread /\ Goes(t, "busy", "answered")
     \/ holder = NoThread /\ Posts(request[t]) /\ Goes(t, "asked", "answered") /\ UNCHANGED holder
  /\ LET c == request[t] IN
     \/ /\ Checks(c) => Now(c) = c.vals
        /\ reply' = [reply EXCEPT ![t].data = IF Reads(c) THEN Now(c) ELSE <<>>]
     \/ reply' = [reply EXCEPT ![t].err = "error"]
  /\ Posted(<<>>)
  /\ UNCHANGED <<reg, request>>

Return(t) ==
  /\ Goes(t, "answered", "idle")
  /\ request' = [request EXCEPT ![t] = NoCall]
  /\ reply' = [reply EXCEPT ![t] = NoReply]
  /\ UNCHANGED <<reg, holder, sends>>

Next ==
  \/ \E t \in Thread : Grant(t) \/ Overwrite(t) \/ Post(t) \/ Answer(t) \/ Return(t)
  \/ \E t \in Thread : \E c \in Calls : Ask(t, c)
  \/ Lose \/ TakeEffect

Spec == Init /\ [][Next]_vars
=============================================================================
