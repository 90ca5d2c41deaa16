--------------------------- MODULE RegComRefines ---------------------------
(* Register access over UDP implements the register file: the locks, the   *)
(* packets, the answers and the repetitions disappear behind calls that    *)
(* are made one at a time.                                                 *)
EXTENDS RegCom

StageOf(t) ==
  CASE pc[t] = "idle"                          -> "idle"
    [] pc[t] \in {"acquire", "append", "flush"} -> "asked"
    [] pc[t] = "return"                        -> "answered"
    [] OTHER                                   -> "busy"

ReplyOf(t) ==
  [err  |-> IF pc[t] = "return" THEN err[t] ELSE "ok",
   data |-> IF pc[t] = "return" /\ err[t] = "ok" /\ call[t].op \in ReadOps
            THEN data[t] ELSE <<>>]

FileStage == [t \in Thread |-> StageOf(t)]
FileReply == [t \in Thread |-> ReplyOf(t)]

(* The commands of a packet, or of several, that are only sent.            *)
Effect(c) == [reg |-> c.reg, val |-> c.val]

SendsUpTo(q) ==
  LET sends[n \in 0..Len(q)] ==
        IF n = 0 THEN <<>>
        ELSE IF q[n].op = "send" THEN Append(sends[n - 1], Effect(q[n])) ELSE sends[n - 1]
  IN  sends

SendsIn(q) == SendsUpTo(q)[Len(q)]

FileSends == SendsIn(toCam \o UDP_data)

File == INSTANCE RegFile WITH
  holder  <- lock.owner,
  stage   <- FileStage,
  request <- call,
  reply   <- FileReply,
  sends   <- FileSends

(* Every behaviour of the threads, the socket and the camera, with packets *)
(* and answers lost and repeated, is one of the register file: readPDI,    *)
(* readCCdata and writePDI with read back look atomic to their callers.    *)
IsRegFile == File!Spec
=============================================================================
