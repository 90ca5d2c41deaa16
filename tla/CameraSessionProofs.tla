------------------------ MODULE CameraSessionProofs ------------------------
(***************************************************************************)
(* Proofs about CameraSession, for any cameras, timers, faults and         *)
(* accesses of other threads: a connection that is open is identified, a   *)
(* setup that was loaded is the one in memory, and changing the timer mode *)
(* leaves the rest of the camera alone.                                    *)
(***************************************************************************)
EXTENDS CameraSession, TLAPS

Timers == {"timerIdle", "timerArm", "timerRun"}

(* The call a stage belongs to.                                            *)
StageInv ==
  /\ pc \in {"open", "identify", "boards", "interface"} => op = "connect"
  /\ pc = "getDualSATA" => op \in {"connect", "FactoryReset"}
  /\ pc \in {"reset", "resetCC"} => op = "FactoryReset"
  /\ pc \in {"sata", "adcs"} => op \in {"FactoryReset", "setDualSATA"}
  /\ pc = "append" => op = "loadTimerSetup"
  /\ pc \in {"mode1", "mode2"} => op \in Timers

(* What is known of the camera in the course of connect.                   *)
KindInv ==
  /\ pc = "boards" => /\ kind[ip] # "unknown"
                      /\ version = IF kind[ip] = "v2" THEN "v2" ELSE "v1"
  /\ pc \notin {"open", "identify", "boards"} /\ sock /\ ~moved => kind[ip] = version
  /\ Returned("connect") => sock /\ UDP_data = Empty /\ dualSATA = setup[ip][SATA]

(* Once it has been sent, the dual SATA command is not in the packet any   *)
(* more; the camera has the setting, or the command was lost.              *)
SataSent == UDP_data[SATA] = NoCommand /\ (SATA \in gone \/ setup[ip][SATA] = saved)

SataInv ==
  pc = "adcs" \/ Returned("FactoryReset") \/ Returned("setDualSATA") => SataSent

(* A timer that is not used is a fresh object.                             *)
UnusedInv == \A t \in Timer \ used : mem[t] = Unused

(* While a setup is collected, each of its commands is in the packet, has  *)
(* been sent by another thread, or has been lost with its packet; at the   *)
(* end nothing is left in the packet.                                      *)
Loads == {r \in Reg : CONTROL <= r}

LoadInv ==
  /\ pc = "append" =>
       CONTROL <= at /\ \A r \in Loads : r < at =>
         \/ UDP_data[r] = Packed(r)
         \/ UDP_data[r] = NoCommand /\ (r \in gone \/ setup[ip][r] = Packed(r))
  /\ Returned("loadTimerSetup") =>
       /\ UDP_data = Empty
       /\ \A r \in Loads : r \in gone \/ setup[ip][r] = Packed(r)

(* The mode that is written back is still that of the camera.              *)
ModeInv ==
  pc \in {"mode1", "mode2"} => UDP_data = Empty /\ mode.mode = setup[ip][CONTROL].mode

-----------------------------------------------------------------------------
(* Types.                                                                  *)

Commands(c)  == DOMAIN c = Reg /\ \A r \in Reg : c[r] \in Value(r) \cup {NoCommand}
Registers(s) == DOMAIN s = Reg /\ \A r \in Reg : s[r] \in Value(r)

LEMMA Regs ==
  /\ SATA \in Reg /\ CONTROL \in Reg /\ OUTPUT \in Reg /\ CLKDIV \in Reg /\ Timer \subseteq Reg
  /\ SATA \notin Timer /\ CONTROL \notin Timer /\ OUTPUT \notin Timer /\ CLKDIV \notin Timer
  /\ \A r \in Reg : r \in {SATA, CONTROL, OUTPUT, CLKDIV} \cup Timer
  /\ 1 \in Timer /\ CONTROL # CLKDIV /\ SATA # CONTROL /\ SATA # OUTPUT /\ SATA # CLKDIV
  /\ Loads = {CONTROL, OUTPUT, CLKDIV} \cup Timer
  BY SessionAssumption DEF Reg, Timer, Loads, SATA, CONTROL, OUTPUT, CLKDIV

LEMMA Bounds == MaxCalls \in Nat /\ NTimers \in Nat /\ NTimers # 0
  BY SessionAssumption

LEMMA RegsAreInts == Reg \subseteq Int /\ \A r \in Reg : r <= NTimers
  BY Bounds DEF Reg, SATA

LEMMA FreshControl == \A m \in Mode : [mode |-> m, run |-> 0] \in Control
  BY DEF Control

LEMMA Values ==
  /\ Value(SATA) = BOOLEAN /\ Value(CONTROL) = Control /\ Value(OUTPUT) = Nat /\ Value(CLKDIV) = Nat
  /\ \A t \in Timer : Value(t) = onetimer
  BY SessionAssumption DEF Value, Reg, Timer, SATA, CONTROL, OUTPUT, CLKDIV

LEMMA Blanks == Blank \in onetimer /\ Unused \in onetimer /\ [mode |-> "none", run |-> 0] \in Control
  BY SessionAssumption DEF Blank, Unused, onetimer, Control, NoChannels

(* What a camera and the memory begin with.                                *)
LEMMA Zeros ==
  /\ \A r \in Reg : Zero(r) \in Value(r) /\ Fresh(r) \in Value(r)
  /\ \A t \in Timer : Fresh(t) = Unused
  /\ Zero(CONTROL) = [mode |-> "none", run |-> 0]
  <1>0. /\ SATA # CONTROL /\ SATA # OUTPUT /\ SATA # CLKDIV
        /\ CONTROL # OUTPUT /\ CONTROL # CLKDIV /\ OUTPUT # CLKDIV
    BY DEF SATA, CONTROL, OUTPUT, CLKDIV
  <1>1. \A r \in Reg : Zero(r) \in Value(r)
    <2>1. Zero(SATA) = FALSE /\ Zero(CONTROL) = [mode |-> "none", run |-> 0]
          /\ Zero(OUTPUT) = 0 /\ Zero(CLKDIV) = 0
      BY <1>0 DEF Zero
    <2>2. ASSUME NEW t \in Timer PROVE Zero(t) = Blank
      <3>1. t # SATA /\ t # CONTROL /\ t # OUTPUT /\ t # CLKDIV
        BY Regs
      <3>2. QED
        BY <3>1 DEF Zero
    <2>3. Zero(SATA) \in Value(SATA)
      BY <2>1, Values
    <2>4. \A t \in {CONTROL, OUTPUT, CLKDIV} \cup Timer : Zero(t) \in Value(t)
      BY <2>1, <2>2, Blanks, Values
    <2>5. QED
      BY <2>3, <2>4, Regs
  <1>2. \A t \in Timer : Fresh(t) = Unused /\ Fresh(t) \in Value(t)
    BY Blanks, Values DEF Fresh
  <1>3. \A r \in Reg : Fresh(r) \in Value(r)
    BY <1>1, <1>2 DEF Fresh
  <1>4. Zero(CONTROL) = [mode |-> "none", run |-> 0]
    BY <1>0 DEF Zero
  <1>5. QED
    BY <1>1, <1>2, <1>3, <1>4

LEMMA NoCommandIsNone == \A r \in Reg : NoCommand \notin Value(r)
  BY SessionAssumption, Regs, Values

LEMMA EmptyType == Commands(Empty)
  BY DEF Commands, Empty

LEMMA PutCommands ==
  ASSUME NEW c, Commands(c), NEW r \in Reg, NEW v \in Value(r)
  PROVE  Commands(Put(c, r, v))
  BY DEF Commands, Put

LEMMA PutRegisters ==
  ASSUME NEW s, Registers(s), NEW r \in Reg, NEW v \in Value(r)
  PROVE  Registers(Put(s, r, v))
  BY DEF Registers, Put

LEMMA TypeParts ==
  TypeOK => Commands(UDP_data) /\ Registers(mem) /\ \A c \in Camera : Registers(setup[c])
  BY DEF TypeOK, Commands, Registers

LEMMA PackedType == ASSUME TypeOK, NEW r \in Reg PROVE Packed(r) \in Value(r)
  <1>1. mem[r] \in Value(r) /\ used \subseteq Timer
    BY DEF TypeOK
  <1>2. CASE r \in used
    <2>1. r \in Timer /\ mem[r] \in onetimer
      BY <1>1, <1>2, Values
    <2>2. mem[r].numberOfPulses % TwoTo28 \in Nat
      BY <2>1 DEF onetimer, TwoTo28
    <2>3. [mem[r] EXCEPT !.numberOfPulses = @ % TwoTo28] \in onetimer
      BY <2>1, <2>2 DEF onetimer
    <2>4. Packed(r) = [mem[r] EXCEPT !.numberOfPulses = @ % TwoTo28]
      BY <1>2 DEF Packed
    <2>5. QED
      BY <2>1, <2>3, <2>4, Values
  <1>3. CASE r \in Timer \ used
    BY <1>3, Blanks, Values DEF Packed
  <1>4. CASE r \notin Timer
    BY <1>1, <1>4 DEF Packed
  <1>5. QED
    BY <1>2, <1>3, <1>4

(* The cameras and the packet keep their types.                            *)
WireTypes ==
  /\ Commands(UDP_data')
  /\ DOMAIN setup' = Camera /\ \A c \in Camera : Registers(setup'[c])
  /\ gone' \subseteq Reg

(* What sending a packet does to the cameras.                              *)
LEMMA ExecuteType ==
  ASSUME TypeOK, NEW c, Commands(c), Execute(c) \/ Lose(c)
  PROVE  DOMAIN setup' = Camera /\ (\A d \in Camera : Registers(setup'[d])) /\ gone' \subseteq Reg
  <1>0. gone \subseteq Reg /\ DOMAIN setup = Camera
    BY DEF TypeOK
  <1>1. CASE Lose(c)
    BY <1>0, <1>1, TypeParts DEF Lose
  <1>2. CASE Execute(c)
    <2>1. DOMAIN setup' = Camera /\ gone' \subseteq Reg
      BY <1>0, <1>2 DEF Execute
    <2>2. ASSUME NEW d \in Camera PROVE Registers(setup'[d])
      <3>1. CASE d = ip
        <4>1. setup'[d] = [r \in Reg |-> IF c[r] = NoCommand THEN setup[ip][r] ELSE c[r]]
          BY <1>0, <1>2, <3>1 DEF Execute
        <4>2. QED
          BY <3>1, <4>1 DEF Registers, Commands, TypeOK
      <3>2. CASE d # ip
        BY <1>0, <1>2, <3>2, TypeParts DEF Execute
      <3>3. QED
        BY <3>1, <3>2
    <2>3. QED
      BY <2>1, <2>2
  <1>3. QED
    BY <1>1, <1>2

LEMMA WireTypesKept ==
  ASSUME TypeOK, UNCHANGED <<UDP_data, setup>>, gone' = gone \/ gone' = {} PROVE WireTypes
  BY TypeParts DEF WireTypes, TypeOK

LEMMA SendType ==
  ASSUME TypeOK, NEW c, Commands(c), Send(c) \/ SendFails(c)
  PROVE  WireTypes
  <1>1. CASE Send(c)
    BY <1>1, ExecuteType, EmptyType DEF Send, WireTypes
  <1>2. CASE UDP_data' = c /\ UNCHANGED <<setup, gone>>
    BY <1>2, TypeParts DEF WireTypes, TypeOK
  <1>3. CASE UDP_data' = Empty /\ Lose(c)
    BY <1>3, ExecuteType, EmptyType DEF WireTypes
  <1>4. QED
    BY <1>1, <1>2, <1>3 DEF SendFails

LEMMA ReadType == ASSUME TypeOK, readCCdata \/ ReadFails PROVE WireTypes
  BY SendType, TypeParts DEF readCCdata, ReadFails

(* The types of the variables that are not on the wire.                    *)
RestTypes ==
  /\ sock \in BOOLEAN /\ ip \in Camera /\ dualSATA \in BOOLEAN
  /\ version \in {"v1", "v2", "unknown"}
  /\ kind \in [Camera -> Kind] /\ moved \in BOOLEAN
  /\ Registers(mem)
  /\ used \subseteq Timer /\ shared \subseteq Timer
  /\ calls \in 0..MaxCalls /\ pc \in Stage /\ op \in Op /\ res \in {"", "error", "exception", "dropped"}
  /\ at \in Reg /\ mode \in Control /\ saved \in BOOLEAN

LEMMA TypeFromParts == WireTypes /\ RestTypes' => TypeOK'
  BY DEF WireTypes, RestTypes, TypeOK, Commands, Registers

LEMMA TypeInit == Init => TypeOK
  <1> SUFFICES ASSUME Init PROVE TypeOK
    OBVIOUS
  <1>1. ip \in Camera
    BY SessionAssumption DEF Init
  <1>2. kind \in [Camera -> Kind]
    BY SessionAssumption DEF Init
  <1>3. mode \in Control /\ at \in Reg
    BY Regs, Zeros, Values DEF Init
  <1>4. Commands(UDP_data) /\ Registers(mem) /\ DOMAIN setup = Camera
        /\ \A c \in Camera : Registers(setup[c])
    <2>1. Commands(UDP_data) /\ Registers(mem)
      BY Zeros, EmptyType DEF Init, Registers
    <2>2. PICK sata \in Satas :
            setup = [c \in Camera |-> [r \in Reg |-> IF r = SATA THEN sata[c] ELSE Zero(r)]]
      BY DEF Init
    <2>3. \A c \in Camera : sata[c] \in BOOLEAN
      BY SessionAssumption
    <2>4. QED
      BY <2>1, <2>2, <2>3, Zeros, Values DEF Registers
  <1>5. calls \in 0..MaxCalls
    <2>1. calls = 0
      BY DEF Init
    <2>2. QED
      BY <2>1, Bounds
  <1>6. pc \in Stage /\ op \in Op /\ used \subseteq Timer /\ shared \subseteq Timer
    BY DEF Init, Stage, Op
  <1>7. QED
    BY <1>1, <1>2, <1>3, <1>4, <1>5, <1>6
       DEF Init, TypeOK, Commands, Registers

(* One call may be made only when none is.                                 *)
LEMMA BeginType ==
  ASSUME TypeOK, NEW o \in Op, NEW b \in BOOLEAN, Begin(o, b)
  PROVE  calls' \in 0..MaxCalls /\ op' \in Op /\ saved' \in BOOLEAN /\ pc \in Stage
  <1>1. calls \in 0..MaxCalls /\ pc \in Stage
    BY DEF TypeOK
  <1>2. calls' \in 0..MaxCalls
    BY <1>1, Bounds DEF Begin
  <1>3. QED
    BY <1>1, <1>2 DEF Begin

LEMMA ConnectingType == ASSUME TypeOK, Connecting PROVE TypeOK'
  <1> USE TypeParts DEF RestTypes, TypeOK, Stage, client, wire, memory, locals, Goto, Return
  <1>1. CASE startReceiveAnswer
    BY <1>1, WireTypesKept, TypeFromParts DEF startReceiveAnswer
  <1>2. CASE Identify
    <2>1. WireTypes
      BY <1>2, ReadType DEF Identify
    <2>2. QED
      BY <1>2, <2>1, TypeFromParts DEF Identify
  <1>3. CASE FindBoards
    <2>1. WireTypes
      BY <1>3, SendType, ReadType DEF FindBoards
    <2>2. QED
      BY <1>3, <2>1, TypeFromParts DEF FindBoards
  <1>4. CASE getInterface
    BY <1>4, WireTypesKept, TypeFromParts DEF getInterface
  <1>5. CASE getDualSATA
    <2>1. WireTypes
      BY <1>5, ReadType, WireTypesKept DEF getDualSATA
    <2>2. setup'[ip][SATA] \in BOOLEAN
      BY <2>1, Values, Regs DEF WireTypes, Registers
    <2>3. dualSATA' \in BOOLEAN /\ saved' \in BOOLEAN /\ pc' \in Stage
          /\ res' \in {"", "error", "exception", "dropped"} /\ op' = op /\ calls' = calls
      BY <1>5, <2>2 DEF getDualSATA
    <2>4. QED
      BY <1>5, <2>1, <2>3, TypeFromParts DEF getDualSATA
  <1>6. QED
    BY <1>1, <1>2, <1>3, <1>4, <1>5 DEF Connecting

(* OP_RESET and the dual SATA command fit in a packet.                     *)
LEMMA ResetCommands ==
  TypeOK => Commands(OP_RESET) /\ Commands(Put(UDP_data, SATA, saved))
  <1>1. Commands(OP_RESET)
    BY Zeros DEF Commands, OP_RESET
  <1>2. TypeOK => saved \in Value(SATA)
    BY Values DEF TypeOK
  <1>3. QED
    BY <1>1, <1>2, PutCommands, TypeParts, Regs

LEMMA ResettingType == ASSUME TypeOK, Resetting PROVE TypeOK'
  <1> USE TypeParts DEF RestTypes, TypeOK, Stage, client, wire, memory, locals, Goto, Return, Failure
  <1>1. CASE ResetBoards
    BY <1>1, SendType, TypeFromParts DEF ResetBoards
  <1>2. CASE ResetCard
    BY <1>2, SendType, ResetCommands, TypeFromParts DEF ResetCard
  <1>3. CASE SetSata
    BY <1>3, SendType, ResetCommands, TypeFromParts DEF SetSata, SataError
  <1>4. CASE SetAdcs
    BY <1>4, SendType, ReadType, TypeFromParts DEF SetAdcs, SataError
  <1>5. QED
    BY <1>1, <1>2, <1>3, <1>4 DEF Resetting

(* The mode that timerIdle, timerArm and timerRun write.                   *)
ModeBits == [mode EXCEPT !.run = IF pc = "mode1" THEN FirstBits ELSE 3]

LEMMA ModeBitsType ==
  ASSUME TypeOK PROVE ModeBits \in Control /\ ModeBits.mode = mode.mode
  <1>1. mode \in [mode : Mode, run : 0..3]
    BY DEF TypeOK, Control
  <1>2. mode.run \in 0..3 /\ mode.run % 2 \in 0..3
    BY <1>1
  <1>3. FirstBits \in 0..3
    BY <1>2 DEF FirstBits
  <1>4. QED
    BY <1>1, <1>3 DEF ModeBits, Control

LEMMA LoadingType == ASSUME TypeOK, Loading PROVE TypeOK'
  <1> USE TypeParts, SessionAssumption
      DEF RestTypes, TypeOK, Stage, client, wire, memory, locals, Goto, Return, Failure
  <1>1. ASSUME pc = "append" PROVE Commands(Put(UDP_data, at, Packed(at)))
    BY PackedType, PutCommands
  <1>2. CASE AppendCommand
    <2>1. WireTypes
      BY <1>1, <1>2 DEF AppendCommand, WireTypes
    <2>2. at + 1 \in Reg
      <3>1. at \in SATA..NTimers /\ at < NTimers
        BY <1>2 DEF AppendCommand, Reg
      <3>2. at + 1 \in SATA..NTimers
        BY ONLY <3>1, Bounds DEF SATA
      <3>3. QED
        BY <3>2 DEF Reg
    <2>3. QED
      BY <1>2, <2>1, <2>2, TypeFromParts DEF AppendCommand
  <1>3. CASE RangeError
    BY <1>3, WireTypesKept, TypeFromParts, Regs DEF RangeError
  <1>4. CASE SendSetup
    <2>1. WireTypes
      BY <1>1, <1>4, SendType DEF SendSetup
    <2>2. QED
      BY <1>4, <2>1, TypeFromParts, Regs DEF SendSetup
  <1>5. CASE ModeCommand
    <2>1. ModeBits \in Value(CONTROL)
      BY ModeBitsType, Values
    <2>2. Zero(CONTROL) \in Control
      BY Zeros, Regs, Values
    <2>3. WireTypes
      BY <1>5, <2>1, PutCommands, SendType, Regs DEF ModeCommand, ModeBits
    <2>4. mode' \in Control
      BY <1>5, <2>2 DEF ModeCommand
    <2>5. QED
      BY <1>5, <2>3, <2>4, TypeFromParts DEF ModeCommand
  <1>6. QED
    BY <1>2, <1>3, <1>4, <1>5 DEF Loading

(* The calls that are one step or the first of several.                    *)
CallStep ==
  \/ close \/ FactoryReset \/ readStatus
  \/ \E c \in Camera : connect(c) \/ setIP(c)
  \/ \E b \in BOOLEAN : setDualSATA(b)
  \/ \E o \in Timers : TimerMode(o)
  \/ loadTimerSetup \/ setTimerOutput

EditStep ==
  \/ SetAttribute \/ clearAllTimers
  \/ \E t \in Timer : clearOneTimer(t)
  \/ \E s \in Setting : allocateTimer(s)

LEMMA CallType == ASSUME TypeOK, CallStep PROVE TypeOK'
  <1> USE TypeParts, BeginType DEF RestTypes, TypeOK, Op, client, wire, memory, locals, Call
  <1>1. CASE close
    BY <1>1, WireTypesKept, TypeFromParts DEF close
  <1>2. CASE FactoryReset
    BY <1>2, WireTypesKept, TypeFromParts DEF FactoryReset, Stage
  <1>3. CASE readStatus
    <2>1. WireTypes
      BY <1>3, ReadType DEF readStatus
    <2>2. QED
      BY <1>3, <2>1, TypeFromParts DEF readStatus
  <1>4. ASSUME NEW c \in Camera, connect(c) PROVE TypeOK'
    BY <1>4, WireTypesKept, TypeFromParts DEF connect, Stage
  <1>5. ASSUME NEW b \in BOOLEAN, setDualSATA(b) PROVE TypeOK'
    BY <1>5, WireTypesKept, TypeFromParts DEF setDualSATA, Stage
  <1>10. ASSUME NEW c \in Camera, setIP(c) PROVE TypeOK'
    BY <1>10, WireTypesKept, TypeFromParts DEF setIP
  <1>6. ASSUME NEW o \in Timers, TimerMode(o) PROVE TypeOK'
    <2>1. WireTypes
      BY <1>6, ReadType DEF TimerMode
    <2>2. setup'[ip][CONTROL] \in Control
      BY <2>1, Values, Regs DEF WireTypes, Registers
    <2>4. mode' \in Control
      BY <1>6, <2>2 DEF TimerMode
    <2>5. o \in Op
      BY DEF Timers
    <2>6. calls' \in 0..MaxCalls /\ op' \in Op /\ saved' \in BOOLEAN /\ pc \in Stage
      BY <1>6, <2>5 DEF TimerMode
    <2>7. pc' \in Stage /\ res' \in {"", "error", "exception", "dropped"}
      BY <1>6, <2>6 DEF TimerMode, Stage, Failure
    <2>3. QED
      BY <1>6, <2>1, <2>4, <2>6, <2>7, TypeFromParts DEF TimerMode
  <1>7. CASE loadTimerSetup
    BY <1>7, WireTypesKept, TypeFromParts, Regs DEF loadTimerSetup, Stage
  <1>8. CASE setTimerOutput
    <2>1. Commands(Put(UDP_data, OUTPUT, mem[OUTPUT]))
      BY PutCommands, Regs
    <2>2. WireTypes
      BY <1>8, <2>1 DEF setTimerOutput, WireTypes
    <2>3. QED
      BY <1>8, <2>2, TypeFromParts DEF setTimerOutput
  <1>9. QED
    BY <1>1, <1>2, <1>3, <1>4, <1>5, <1>6, <1>7, <1>8, <1>10 DEF CallStep

LEMMA EditType == ASSUME TypeOK, EditStep PROVE TypeOK'
  <1> USE TypeParts, BeginType, WireTypesKept, TypeFromParts, PutRegisters, Regs, Values, SessionAssumption
      DEF RestTypes, TypeOK, Op, client, wire, memory, locals, Call, Edit
  <1>1. CASE SetAttribute
    <2>1. ASSUME NEW m \in Mode, mem' = Put(mem, CONTROL, [mode |-> m, run |-> 0])
          PROVE  Registers(mem')
      BY <2>1, FreshControl
    <2>2. ASSUME NEW w \in Word, mem' = Put(mem, CLKDIV, w) PROVE Registers(mem')
      BY <2>2
    <2>4. Registers(mem')
      BY <1>1, <2>1, <2>2 DEF SetAttribute
    <2>3. QED
      BY <1>1, <2>4 DEF SetAttribute
  <1>2. CASE clearAllTimers
    <2>1. Registers(mem')
      BY <1>2, Zeros DEF clearAllTimers, Registers
    <2>2. QED
      BY <1>2, <2>1 DEF clearAllTimers
  <1>3. ASSUME NEW t \in Timer, clearOneTimer(t) PROVE TypeOK'
    <2>2. Registers(mem')
      BY <1>3, Blanks DEF clearOneTimer
    <2>3. QED
      BY <1>3, <2>2 DEF clearOneTimer
  <1>4. ASSUME NEW s \in Setting, allocateTimer(s) PROVE TypeOK'
    <2>1. PICK t \in Timer \ used :
            mem' = Put(mem, t, s) /\ used' = used \cup {t} /\ shared' = shared \ {t}
      BY <1>4 DEF allocateTimer
    <2>2. t \in Reg /\ s \in Value(t)
      BY Values, Regs, SessionAssumption
    <2>3. Registers(mem')
      BY <2>1, <2>2
    <2>4. QED
      BY <1>4, <2>1, <2>3 DEF allocateTimer
  <1>5. QED
    BY <1>1, <1>2, <1>3, <1>4 DEF EditStep

LEMMA OtherType == ASSUME TypeOK, OtherAccess PROVE TypeOK'
  <1>1. WireTypes
    BY SendType, TypeParts DEF OtherAccess
  <1>2. QED
    BY <1>1, TypeFromParts, TypeParts DEF OtherAccess, RestTypes, TypeOK, client, memory, locals

LEMMA NextSteps ==
  Next <=> Connecting \/ Resetting \/ Loading \/ CallStep \/ EditStep \/ OtherAccess
  BY DEF Next, CallStep, EditStep, Timers

LEMMA TypeStep == TypeOK /\ [Next]_vars => TypeOK'
  <1>1. TypeOK /\ UNCHANGED vars => TypeOK'
    BY DEF TypeOK, vars, client, wire, memory, locals
  <1>2. QED
    BY <1>1, NextSteps, ConnectingType, ResettingType, LoadingType, CallType, EditType, OtherType

(* For any cameras, timers and faults every variable keeps its type.       *)
THEOREM TypeCorrect == Spec => []TypeOK
  BY TypeInit, TypeStep, PTL DEF Spec

-----------------------------------------------------------------------------
(* Connecting and resetting.                                               *)

(* A packet reaches the registers of the camera it goes to, or is lost.    *)
LEMMA Reached ==
  ASSUME TypeOK, NEW c, Commands(c), Send(c)
  PROVE  /\ UDP_data' = Empty
         /\ \A r \in Reg : IF c[r] = NoCommand
                           THEN setup'[ip][r] = setup[ip][r] /\ (r \in gone => r \in gone')
                           ELSE r \in gone' \/ setup'[ip][r] = c[r]
         /\ \A d \in Camera : d # ip => setup'[d] = setup[d]
  <1>1. CASE Execute(c)
    BY <1>1 DEF Send, Execute, TypeOK
  <1>2. CASE Lose(c)
    BY <1>2 DEF Send, Lose
  <1>3. QED
    BY <1>1, <1>2 DEF Send

LEMMA EmptySend ==
  ASSUME TypeOK, UDP_data = Empty, Send(UDP_data)
  PROVE  /\ UDP_data' = Empty
         /\ \A r \in Reg : setup'[ip][r] = setup[ip][r] /\ (r \in gone => r \in gone')
  <1>1. \A r \in Reg : UDP_data[r] = NoCommand
    BY DEF Empty
  <1>2. QED
    BY <1>1, Reached, TypeParts

ConnectInv == StageInv /\ KindInv

LEMMA ConnectInit == Init => ConnectInv
  BY DEF Init, ConnectInv, StageInv, KindInv, Returned

LEMMA ConnectStep == TypeOK /\ ConnectInv /\ [Next]_vars => ConnectInv'
  <1> SUFFICES ASSUME TypeOK, ConnectInv, [Next]_vars PROVE ConnectInv'
    OBVIOUS
  <1> USE DEF ConnectInv, StageInv, KindInv, Returned, Timers,
              client, wire, memory, locals, Goto, Return, Call, Begin, Failure
  <1>1. CASE Connecting
    <2>1. CASE startReceiveAnswer
      BY <2>1 DEF startReceiveAnswer
    <2>2. CASE Identify
      BY <2>2 DEF Identify
    <2>3. CASE FindBoards
      <3>1. kind[ip] \in Kind
        BY DEF TypeOK
      <3>2. QED
        BY <2>3, <3>1 DEF FindBoards, Kind
    <2>4. CASE getInterface
      BY <2>4 DEF getInterface
    <2>5. CASE getDualSATA
      BY <2>5 DEF getDualSATA, readCCdata, Send
    <2>6. QED
      BY <1>1, <2>1, <2>2, <2>3, <2>4, <2>5 DEF Connecting
  <1>2. CASE Resetting
    <2>1. CASE ResetBoards
      BY <2>1 DEF ResetBoards
    <2>2. CASE ResetCard
      BY <2>2 DEF ResetCard
    <2>3. CASE SetSata
      BY <2>3 DEF SetSata, SataError
    <2>4. CASE SetAdcs
      BY <2>4 DEF SetAdcs, SataError
    <2>5. QED
      BY <1>2, <2>1, <2>2, <2>3, <2>4 DEF Resetting
  <1>3. CASE Loading
    <2>1. CASE AppendCommand
      BY <2>1 DEF AppendCommand
    <2>2. CASE RangeError
      BY <2>2 DEF RangeError
    <2>3. CASE SendSetup
      BY <2>3 DEF SendSetup
    <2>4. CASE ModeCommand
      BY <2>4 DEF ModeCommand
    <2>5. QED
      BY <1>3, <2>1, <2>2, <2>3, <2>4 DEF Loading
  <1>4. CASE CallStep
    <2>1. CASE close
      BY <2>1 DEF close
    <2>2. CASE FactoryReset
      BY <2>2 DEF FactoryReset
    <2>3. CASE readStatus
      BY <2>3 DEF readStatus
    <2>4. ASSUME NEW c \in Camera, connect(c) \/ setIP(c) PROVE ConnectInv'
      BY <2>4 DEF connect, setIP
    <2>5. ASSUME NEW b \in BOOLEAN, setDualSATA(b) PROVE ConnectInv'
      BY <2>5 DEF setDualSATA
    <2>6. ASSUME NEW o \in Timers, TimerMode(o) PROVE ConnectInv'
      BY <2>6 DEF TimerMode
    <2>7. CASE loadTimerSetup
      BY <2>7 DEF loadTimerSetup
    <2>8. CASE setTimerOutput
      BY <2>8 DEF setTimerOutput
    <2>9. QED
      BY <1>4, <2>1, <2>2, <2>3, <2>4, <2>5, <2>6, <2>7, <2>8 DEF CallStep
  <1>5. CASE EditStep
    <2>1. Edit
      BY <1>5 DEF EditStep, SetAttribute, clearAllTimers, clearOneTimer, allocateTimer
    <2>2. QED
      BY <2>1 DEF Edit
  <1>6. CASE OtherAccess
    <2>1. UDP_data = Empty => UDP_data' = Empty /\ setup'[ip][SATA] = setup[ip][SATA]
      BY <1>6, EmptySend, Regs DEF OtherAccess
    <2>2. QED
      BY <1>6, <2>1 DEF OtherAccess
  <1>7. CASE UNCHANGED vars
    BY <1>7 DEF vars
  <1>8. QED
    BY <1>1, <1>2, <1>3, <1>4, <1>5, <1>6, <1>7, NextSteps

LEMMA SataInit == Init => SataInv
  BY DEF Init, SataInv, Returned

(* A packet without a dual SATA command changes nothing about it.          *)
LEMMA SataKept ==
  ASSUME TypeOK, SataSent, Send(UDP_data), ip' = ip, saved' = saved PROVE SataSent'
  <1>1. UDP_data' = Empty /\ setup'[ip][SATA] = setup[ip][SATA] /\ (SATA \in gone => SATA \in gone')
    BY Reached, TypeParts, Regs DEF SataSent
  <1>2. QED
    BY <1>1, Regs DEF SataSent, Empty

LEMMA SataStep == TypeOK /\ StageInv /\ SataInv /\ [Next]_vars => SataInv'
  <1> SUFFICES ASSUME TypeOK, StageInv, SataInv, [Next]_vars PROVE SataInv'
    OBVIOUS
  <1> DEFINE Done == pc = "adcs" \/ Returned("FactoryReset") \/ Returned("setDualSATA")
  <1>0. ASSUME ~Done' PROVE SataInv'
    BY <1>0 DEF SataInv, Returned
  <1> USE DEF Returned, Goto, Return, Call, Begin
  <1>1. CASE Connecting
    BY <1>0, <1>1 DEF Connecting, startReceiveAnswer, Identify, FindBoards, getInterface, getDualSATA, StageInv
  <1>2. CASE Resetting
    <2>1. CASE ResetBoards
      BY <1>0, <2>1 DEF ResetBoards, Failure
    <2>2. CASE ResetCard
      BY <1>0, <2>2 DEF ResetCard, Failure
    <2>3. CASE SetSata
      <3>1. CASE Send(Put(UDP_data, SATA, saved))
        <4>1. saved \in Value(SATA) /\ saved # NoCommand /\ DOMAIN UDP_data = Reg
          BY Values, Regs, NoCommandIsNone DEF TypeOK
        <4>2. Put(UDP_data, SATA, saved)[SATA] = saved
          BY <4>1, Regs DEF Put
        <4>3. UDP_data' = Empty /\ (SATA \in gone' \/ setup'[ip][SATA] = saved)
          BY <3>1, <4>1, <4>2, Reached, ResetCommands, Regs
        <4>4. ip' = ip /\ saved' = saved
          BY <2>3 DEF SetSata, client, locals
        <4>5. SataSent'
          BY <4>3, <4>4, Regs DEF SataSent, Empty
        <4>6. QED
          BY <4>5 DEF SataInv
      <3>2. CASE Return(SataError)
        BY <1>0, <3>2 DEF SataError, Failure
      <3>3. QED
        BY <2>3, <3>1, <3>2 DEF SetSata
    <2>4. CASE SetAdcs
      <3>1. CASE Send(UDP_data) /\ Return("")
        BY <2>4, <3>1, SataKept DEF SetAdcs, SataInv, client, locals
      <3>2. CASE Return("exception") \/ Return(SataError)
        BY <1>0, <3>2 DEF SataError, Failure
      <3>3. QED
        BY <2>4, <3>1, <3>2 DEF SetAdcs
    <2>5. QED
      BY <1>2, <2>1, <2>2, <2>3, <2>4 DEF Resetting
  <1>3. CASE Loading
    BY <1>0, <1>3 DEF Loading, AppendCommand, RangeError, SendSetup, ModeCommand, StageInv, Timers
  <1>4. CASE CallStep
    BY <1>0, <1>4 DEF CallStep, close, FactoryReset, readStatus, connect, setIP, setDualSATA, TimerMode,
       loadTimerSetup, setTimerOutput, Timers
  <1>5. CASE EditStep
    <2>1. Edit
      BY <1>5 DEF EditStep, SetAttribute, clearAllTimers, clearOneTimer, allocateTimer
    <2>2. QED
      BY <1>0, <2>1 DEF Edit
  <1>6. CASE OtherAccess
    BY <1>6, SataKept DEF OtherAccess, SataInv, client, locals
  <1>7. CASE UNCHANGED vars
    BY <1>7 DEF SataInv, SataSent, vars, client, wire, locals
  <1>8. QED
    BY <1>1, <1>2, <1>3, <1>4, <1>5, <1>6, <1>7, NextSteps

LEMMA IdentifiedFromInv == ConnectInv => OpenIsIdentified
  BY DEF ConnectInv, KindInv, OpenIsIdentified

(* With any cameras and any failure, a program at rest with an open socket *)
(* uses the code table of the camera at its other end, unless setIP has    *)
(* turned it away, and connect reports the dual SATA setting of the camera.*)
THEOREM Identified == Spec => []OpenIsIdentified
  <1>1. Init => TypeOK /\ ConnectInv
    BY TypeInit, ConnectInit
  <1>2. TypeOK /\ ConnectInv /\ [Next]_vars => (TypeOK /\ ConnectInv)'
    BY TypeStep, ConnectStep
  <1>3. QED
    BY <1>1, <1>2, IdentifiedFromInv, PTL DEF Spec

(* With any failure and any accesses of other threads, after setDualSATA   *)
(* the camera has the setting asked for, and after a factory reset the one *)
(* it had, unless the packet with the command was lost or the error of the *)
(* reset dropped.                                                          *)
THEOREM ResetKeepsSata == Spec => []SataRestored
  <1>1. Init => TypeOK /\ ConnectInv /\ SataInv
    BY TypeInit, ConnectInit, SataInit
  <1>2. TypeOK /\ ConnectInv /\ SataInv /\ [Next]_vars => (TypeOK /\ ConnectInv /\ SataInv)'
    BY TypeStep, ConnectStep, SataStep DEF ConnectInv
  <1>3. SataInv => SataRestored
    BY DEF SataInv, SataSent, SataRestored
  <1>4. QED
    BY <1>1, <1>2, <1>3, PTL DEF Spec

-----------------------------------------------------------------------------
(* The setup in memory.                                                    *)

MemoryInv == UnusedInv /\ SharedIsUnused

LEMMA MemoryInit == Init => MemoryInv
  <1>1. ASSUME Init PROVE \A t \in Timer : mem[t] = Unused
    BY <1>1, Zeros, Regs DEF Init
  <1>2. QED
    BY <1>1 DEF Init, MemoryInv, UnusedInv, SharedIsUnused

(* Only editing changes the memory.                                        *)
LEMMA MemoryFrame ==
  ASSUME [Next]_vars, ~EditStep PROVE UNCHANGED memory
  <1>1. Connecting => UNCHANGED memory
    BY DEF Connecting, startReceiveAnswer, Identify, FindBoards, getInterface, getDualSATA
  <1>2. Resetting \/ Loading => UNCHANGED memory
    BY DEF Resetting, ResetBoards, ResetCard, SetSata, SetAdcs, Loading, AppendCommand, RangeError, SendSetup, ModeCommand
  <1>3. CallStep => UNCHANGED memory
    BY DEF CallStep, close, FactoryReset, readStatus, connect, setIP, setDualSATA, TimerMode, loadTimerSetup,
           setTimerOutput
  <1>4. OtherAccess \/ UNCHANGED vars => UNCHANGED memory
    BY DEF OtherAccess, vars
  <1>5. QED
    BY <1>1, <1>2, <1>3, <1>4, NextSteps

LEMMA MemoryStep == TypeOK /\ MemoryInv /\ [Next]_vars => MemoryInv'
  <1> SUFFICES ASSUME TypeOK, MemoryInv, [Next]_vars PROVE MemoryInv'
    OBVIOUS
  <1>0. Timer \subseteq DOMAIN mem /\ CONTROL \notin Timer /\ CLKDIV \notin Timer
    BY Regs DEF TypeOK
  <1> USE DEF MemoryInv, UnusedInv, SharedIsUnused
  <1>1. CASE ~EditStep
    BY <1>1, MemoryFrame DEF memory
  <1>2. CASE SetAttribute
    <2>1. \A r \in {CONTROL, CLKDIV} : \A v : mem' = Put(mem, r, v) => \A t \in Timer : mem'[t] = mem[t]
      BY <1>0 DEF Put
    <2>2. \A t \in Timer : mem'[t] = mem[t]
      BY <1>2, <2>1 DEF SetAttribute
    <2>3. used' = used /\ shared' = shared /\ shared \subseteq Timer
      BY <1>2 DEF SetAttribute, TypeOK
    <2>4. QED
      BY <2>2, <2>3
  <1>3. CASE clearAllTimers
    <2>1. \A t \in Timer : mem'[t] = Unused
      BY <1>3, Zeros, Regs DEF clearAllTimers
    <2>2. QED
      BY <1>3, <2>1 DEF clearAllTimers
  <1>4. ASSUME NEW t \in Timer, clearOneTimer(t) PROVE MemoryInv'
    BY <1>0, <1>4 DEF clearOneTimer, Put
  <1>5. ASSUME NEW s \in Setting, allocateTimer(s) PROVE MemoryInv'
    BY <1>0, <1>5 DEF allocateTimer, Put
  <1>6. QED
    BY <1>1, <1>2, <1>3, <1>4, <1>5 DEF EditStep

(* For any number of timers and any order of clearing and allocating, the  *)
(* timers that are one object are all unused.                              *)
THEOREM SharingIsHarmless == Spec => []SharedIsUnused
  <1>1. Init => TypeOK /\ MemoryInv
    BY TypeInit, MemoryInit
  <1>2. TypeOK /\ MemoryInv /\ [Next]_vars => (TypeOK /\ MemoryInv)'
    BY TypeStep, MemoryStep
  <1>3. MemoryInv => SharedIsUnused
    BY DEF MemoryInv
  <1>4. QED
    BY <1>1, <1>2, <1>3, PTL DEF Spec

-----------------------------------------------------------------------------
(* Loading it.                                                             *)

LEMMA PackedKept ==
  ASSUME UNCHANGED memory PROVE \A r : Packed(r)' = Packed(r)
  BY DEF memory, Packed

LEMMA LoadInit == Init => LoadInv
  BY DEF Init, LoadInv, Returned

(* Collecting a command keeps those collected before.                      *)
LEMMA AppendLoads == ASSUME TypeOK, LoadInv, AppendCommand PROVE LoadInv'
  <1>1. \A r \in Reg : Packed(r)' = Packed(r)
    BY PackedKept DEF AppendCommand
  <1>0. at \in Int /\ CONTROL <= at /\ at' = at + 1
    BY RegsAreInts DEF AppendCommand, LoadInv, TypeOK
  <1>2. ASSUME NEW r \in Loads, r < at'
        PROVE  \/ UDP_data'[r] = Packed(r)
               \/ UDP_data'[r] = NoCommand /\ (r \in gone' \/ setup'[ip'][r] = Packed(r))
    <2>0. at \in Int /\ r \in Int /\ DOMAIN UDP_data = Reg /\ at \in Reg /\ r \in Reg
      BY RegsAreInts DEF TypeOK, Loads
    <2>1. CASE r = at
      BY <2>0, <2>1 DEF AppendCommand, Put
    <2>2. CASE r # at
      <3>1. r < at
        BY <1>2, <2>0, <2>2 DEF AppendCommand
      <3>2. UDP_data'[r] = UDP_data[r]
        BY <2>0, <2>2 DEF AppendCommand, Put
      <3>3. QED
        BY <3>1, <3>2 DEF AppendCommand, LoadInv, client
    <2>3. QED
      BY <2>1, <2>2
  <1>3. pc' = "append"
    BY DEF AppendCommand
  <1>5. CONTROL <= at' /\ \A r \in Loads : Packed(r)' = Packed(r)
    BY <1>0, <1>1 DEF CONTROL, Loads
  <1>4. QED
    BY <1>2, <1>3, <1>5 DEF LoadInv, Returned, Loads

(* The last command and what has been collected before make up the setup.  *)
LEMMA SendLoads == ASSUME TypeOK, LoadInv, SendSetup PROVE LoadInv'
  <1>1. \A r \in Reg : Packed(r)' = Packed(r)
    BY PackedKept DEF SendSetup
  <1>2. pc = "append" /\ pc' = "idle" /\ ip' = ip /\ at = NTimers
    BY DEF SendSetup, Return, client
  <1>3. DEFINE c == Put(UDP_data, at, Packed(at))
  <1>4. CASE Send(c) /\ Return("")
    <2>1. Commands(c)
      BY PackedType, PutCommands, TypeParts DEF TypeOK
    <2>2. ASSUME NEW r \in Loads PROVE r \in gone' \/ setup'[ip][r] = Packed(r)
      <3>0. at \in Int /\ r \in Int /\ r <= at /\ DOMAIN UDP_data = Reg /\ at \in Reg /\ r \in Reg
        BY <1>2, RegsAreInts DEF TypeOK, Loads
      <3>1. IF c[r] = NoCommand THEN setup'[ip][r] = setup[ip][r] /\ (r \in gone => r \in gone')
                                ELSE r \in gone' \/ setup'[ip][r] = c[r]
        BY <1>4, <2>1, <3>0, Reached
      <3>2. Packed(r) # NoCommand
        BY <3>0, PackedType, NoCommandIsNone
      <3>3. CASE r = at
        BY <3>0, <3>1, <3>2, <3>3 DEF Put
      <3>4. CASE r # at
        <4>1. r < at
          BY <3>0, <3>4
        <4>2. c[r] = UDP_data[r]
          BY <3>0, <3>4 DEF Put
        <4>3. QED
          BY <1>2, <3>1, <3>2, <4>1, <4>2 DEF LoadInv
      <3>5. QED
        BY <3>3, <3>4
    <2>3. UDP_data' = Empty
      BY <1>4 DEF Send
    <2>4. QED
      BY <1>1, <1>2, <2>2, <2>3 DEF LoadInv, Returned, Loads
  <1>5. CASE SendFails(c) /\ Return(Failure)
    BY <1>2, <1>5 DEF LoadInv, Returned, Return, Failure
  <1>6. QED
    BY <1>4, <1>5 DEF SendSetup

(* An access of another thread sends what has been collected.              *)
LEMMA OtherLoads == ASSUME TypeOK, LoadInv, OtherAccess PROVE LoadInv'
  <1>1. \A r \in Reg : Packed(r)' = Packed(r)
    BY PackedKept DEF OtherAccess
  <1>2. ip' = ip /\ pc' = pc /\ op' = op /\ res' = res /\ at' = at
    BY DEF OtherAccess, client, locals
  <1>3. UDP_data' = Empty /\ \A r \in Reg : UDP_data'[r] = NoCommand
    BY DEF OtherAccess, Send, Empty
  <1>4. \A r \in Reg : IF UDP_data[r] = NoCommand
                      THEN setup'[ip][r] = setup[ip][r] /\ (r \in gone => r \in gone')
                      ELSE r \in gone' \/ setup'[ip][r] = UDP_data[r]
    BY Reached, TypeParts DEF OtherAccess
  <1>5. Loads \subseteq Reg /\ \A r \in Reg : Packed(r) # NoCommand
    BY PackedType, NoCommandIsNone DEF Loads
  <1>6. CASE pc = "append"
    <2>1. ASSUME NEW r \in Loads, r < at PROVE r \in gone' \/ setup'[ip][r] = Packed(r)
      BY <1>4, <1>5, <1>6, <2>1 DEF LoadInv
    <2>2. \A r \in Loads : r < at => UDP_data'[r] = NoCommand /\ (r \in gone' \/ setup'[ip'][r] = Packed(r)')
      BY <1>1, <1>2, <1>3, <1>5, <2>1
    <2>4. CONTROL <= at
      BY <1>6 DEF LoadInv
    <2>3. QED
      BY <1>2, <1>6, <2>2, <2>4 DEF LoadInv, Returned, Loads
  <1>7. CASE Returned("loadTimerSetup")
    <2>1. \A r \in Reg : setup'[ip][r] = setup[ip][r] /\ (r \in gone => r \in gone')
      BY <1>7, EmptySend DEF LoadInv, OtherAccess
    <2>2. \A r \in Loads : r \in gone' \/ setup'[ip'][r] = Packed(r)'
      BY <1>1, <1>2, <1>5, <1>7, <2>1 DEF LoadInv
    <2>3. QED
      BY <1>2, <1>3, <1>7, <2>2 DEF LoadInv, Returned, Loads
  <1>8. CASE pc # "append" /\ ~Returned("loadTimerSetup")
    BY <1>2, <1>8 DEF LoadInv, Returned
  <1>9. QED
    BY <1>6, <1>7, <1>8

LEMMA LoadStep == TypeOK /\ StageInv /\ LoadInv /\ [Next]_vars => LoadInv'
  <1> SUFFICES ASSUME TypeOK, StageInv, LoadInv, [Next]_vars PROVE LoadInv'
    OBVIOUS
  <1>0. ASSUME pc' # "append", ~Returned("loadTimerSetup")' PROVE LoadInv'
    BY <1>0 DEF LoadInv
  <1>1. CASE Connecting
    BY <1>0, <1>1 DEF Connecting, startReceiveAnswer, Identify, FindBoards, getInterface, getDualSATA,
       Goto, Return, Returned, StageInv
  <1>2. CASE Resetting
    BY <1>0, <1>2 DEF Resetting, ResetBoards, ResetCard, SetSata, SetAdcs, Goto, Return, Returned, StageInv
  <1>3. CASE Loading
    <2>1. CASE RangeError
      BY <1>0, <2>1 DEF RangeError, Return, Returned
    <2>2. CASE ModeCommand
      BY <1>0, <2>2 DEF ModeCommand, Goto, Return, Returned, StageInv, Timers
    <2>3. QED
      BY <1>3, <2>1, <2>2, AppendLoads, SendLoads DEF Loading
  <1>4. CASE CallStep
    <2>1. CASE loadTimerSetup
      <3>1. pc' = "append" /\ at' = CONTROL
        BY <2>1 DEF loadTimerSetup
      <3>2. CONTROL <= at' /\ \A r \in Loads : ~(r < at')
        BY <3>1, RegsAreInts DEF Loads, CONTROL
      <3>3. QED
        BY <3>1, <3>2 DEF LoadInv, Returned
    <2>2. CASE close \/ FactoryReset \/ readStatus \/ setTimerOutput
      BY <1>0, <2>2 DEF close, FactoryReset, readStatus, setTimerOutput, Edit, Call, Begin, Returned
    <2>3. ASSUME NEW c \in Camera, connect(c) \/ setIP(c) PROVE LoadInv'
      BY <1>0, <2>3 DEF connect, setIP, Call, Begin, Returned
    <2>4. ASSUME NEW b \in BOOLEAN, setDualSATA(b) PROVE LoadInv'
      BY <1>0, <2>4 DEF setDualSATA, Call, Begin, Returned
    <2>5. ASSUME NEW o \in Timers, TimerMode(o) PROVE LoadInv'
      BY <1>0, <2>5 DEF TimerMode, Begin, Returned, Timers
    <2>6. QED
      BY <1>4, <2>1, <2>2, <2>3, <2>4, <2>5 DEF CallStep
  <1>5. CASE EditStep
    <2>1. Edit
      BY <1>5 DEF EditStep, SetAttribute, clearAllTimers, clearOneTimer, allocateTimer
    <2>2. QED
      BY <1>0, <2>1 DEF Edit, Call, Begin, Returned
  <1>6. CASE OtherAccess
    BY <1>6, OtherLoads
  <1>7. CASE UNCHANGED vars
    <2>1. \A r \in Loads : Packed(r)' = Packed(r)
      BY <1>7, PackedKept DEF vars, Loads
    <2>2. QED
      BY <1>7, <2>1 DEF LoadInv, Returned, Loads, vars, client, wire, locals
  <1>8. QED
    BY <1>1, <1>2, <1>3, <1>4, <1>5, <1>6, <1>7, NextSteps

LEMMA LoadedFromInv == TypeOK /\ LoadInv => LoadedIsMemory
  <1> SUFFICES ASSUME TypeOK, LoadInv, Returned("loadTimerSetup")
               PROVE  /\ \A r \in {CONTROL, OUTPUT, CLKDIV} \ gone : setup[ip][r] = mem[r]
                      /\ \A t \in (Timer \ used) \ gone : setup[ip][t] = Blank
                      /\ \A t \in used \ gone :
                           mem[t].numberOfPulses < TwoTo28 => setup[ip][t] = mem[t]
    BY DEF LoadedIsMemory
  <1>1. \A r \in ({CONTROL, OUTPUT, CLKDIV} \cup Timer) \ gone : setup[ip][r] = Packed(r)
    BY Regs DEF LoadInv
  <1>2. \A r \in {CONTROL, OUTPUT, CLKDIV} : Packed(r) = mem[r]
    BY Regs DEF Packed, TypeOK
  <1>3. \A t \in Timer \ used : Packed(t) = Blank
    BY DEF Packed
  <1>4. used \subseteq Timer
    BY DEF TypeOK
  <1>5. ASSUME NEW t \in used, mem[t].numberOfPulses < TwoTo28 PROVE Packed(t) = mem[t]
    <2>0. t \in Timer /\ mem[t] \in Value(t)
      BY <1>4, Regs DEF TypeOK
    <2>1. mem[t] \in onetimer
      BY <2>0, Values
    <2>2. mem[t].numberOfPulses % TwoTo28 = mem[t].numberOfPulses
      BY <1>5, <2>1 DEF onetimer, TwoTo28
    <2>3. QED
      BY <2>1, <2>2 DEF Packed, onetimer
  <1>6. QED
    BY <1>1, <1>2, <1>3, <1>4, <1>5

(* For any number of timers and any settings: after a successful load the  *)
(* camera has the setup of the memory, whatever was in the packet before   *)
(* and whatever other threads have sent of it meanwhile, except for what   *)
(* went out with a packet that was lost.                                   *)
THEOREM LoadCorrect == Spec => []LoadedIsMemory
  <1>1. Init => TypeOK /\ ConnectInv /\ LoadInv
    BY TypeInit, ConnectInit, LoadInit
  <1>2. TypeOK /\ ConnectInv /\ LoadInv /\ [Next]_vars
          => (TypeOK /\ ConnectInv /\ LoadInv)'
    BY TypeStep, ConnectStep, LoadStep DEF ConnectInv
  <1>3. QED
    BY <1>1, <1>2, LoadedFromInv, PTL DEF Spec

-----------------------------------------------------------------------------
(* The timer mode.                                                         *)

LEMMA ModeInit == Init => ModeInv
  BY DEF Init, ModeInv

(* A read has sent the packet, so that the mode it returns is the one that *)
(* counts.                                                                 *)
LEMMA ReadMode ==
  ASSUME TypeOK, NEW o \in Timers, TimerMode(o) PROVE ModeInv'
  <1>1. ip' = ip
    BY DEF TimerMode, client
  <1>2. CASE readCCdata /\ mode' = setup'[ip][CONTROL]
    BY <1>1, <1>2 DEF readCCdata, Send, ModeInv
  <1>3. CASE UNCHANGED <<mode, pc>>
    BY <1>3 DEF TimerMode, Begin, ModeInv
  <1>4. QED
    BY <1>2, <1>3 DEF TimerMode

(* A mode command writes the mode that was read, with other run bits, and  *)
(* nothing else.                                                           *)
LEMMA ModeSent ==
  ASSUME TypeOK, ModeInv, pc \in {"mode1", "mode2"}, Send(Put(UDP_data, CONTROL, ModeBits))
  PROVE  /\ setup'[ip][CONTROL].mode = mode.mode
         /\ \A r \in Reg : r # CONTROL => setup'[ip][r] = setup[ip][r]
         /\ UDP_data' = Empty
  <1> DEFINE c == Put(UDP_data, CONTROL, ModeBits)
  <1>1. ModeBits \in Value(CONTROL) /\ ModeBits.mode = mode.mode /\ ModeBits # NoCommand
    BY ModeBitsType, Values, NoCommandIsNone, Regs
  <1>2. Commands(c)
    BY <1>1, PutCommands, TypeParts, Regs
  <1>3. \A r \in Reg : c[r] = IF r = CONTROL THEN ModeBits ELSE NoCommand
    BY Regs DEF ModeInv, Put, Empty
  <1>4. ip \in Camera /\ DOMAIN setup = Camera /\ setup[ip][CONTROL].mode = mode.mode
    BY DEF TypeOK, ModeInv
  <1>5. CASE Lose(c)
    BY <1>4, <1>5 DEF Send, Lose
  <1>6. CASE Execute(c)
    <2>1. \A r \in Reg : setup'[ip][r] = IF c[r] = NoCommand THEN setup[ip][r] ELSE c[r]
      BY <1>4, <1>6 DEF Execute
    <2>2. QED
      BY <1>1, <1>3, <2>1, Regs DEF Send
  <1>7. QED
    BY <1>5, <1>6 DEF Send

LEMMA ModeCommandStep ==
  ASSUME TypeOK, ModeInv, ModeCommand
  PROVE  /\ ModeInv'
         /\ setup'[ip][CONTROL].mode = setup[ip][CONTROL].mode
         /\ \A r \in Reg : r # CONTROL => setup'[ip][r] = setup[ip][r]
         /\ \A c \in Camera : c # ip => setup'[c] = setup[c]
  <1>1. pc \in {"mode1", "mode2"} /\ ip' = ip
    BY DEF ModeCommand, client
  <1>2. CASE Send(Put(UDP_data, CONTROL, ModeBits))
    <2>1. setup'[ip][CONTROL].mode = mode.mode /\ UDP_data' = Empty
          /\ \A r \in Reg : r # CONTROL => setup'[ip][r] = setup[ip][r]
      BY <1>1, <1>2, ModeSent
    <2>2. \A c \in Camera : c # ip => setup'[c] = setup[c]
      BY <1>2 DEF Send, Execute, Lose, TypeOK
    <2>3. mode' = mode \/ pc' = "idle"
      BY DEF ModeCommand, Goto, Return, SendFails
    <2>4. QED
      BY <1>1, <2>1, <2>2, <2>3 DEF ModeInv
  <1>3. CASE SendFails(Put(UDP_data, CONTROL, ModeBits)) /\ Return(Failure)
    <2>1. setup' = setup
      BY <1>3 DEF SendFails, Lose
    <2>2. QED
      BY <1>1, <1>3, <2>1 DEF Return, ModeInv
  <1>4. QED
    BY <1>2, <1>3 DEF ModeCommand, ModeBits

(* In front of a mode command nothing is left for another thread to send.  *)
LEMMA OtherKeepsSetup ==
  ASSUME TypeOK, ModeInv, OtherAccess, pc \in {"mode1", "mode2"}
  PROVE  ModeInv' /\ \A c \in Camera, r \in Reg : setup'[c][r] = setup[c][r]
  <1>1. UDP_data = Empty
    BY DEF ModeInv
  <1>2. UDP_data' = Empty /\ \A r \in Reg : setup'[ip][r] = setup[ip][r]
    BY <1>1, EmptySend DEF OtherAccess
  <1>3. \A c \in Camera : c # ip => setup'[c] = setup[c]
    BY DEF OtherAccess, Send, Execute, Lose, TypeOK
  <1>4. ip' = ip /\ pc' = pc /\ mode' = mode
    BY DEF OtherAccess, client, locals
  <1>5. QED
    BY <1>2, <1>3, <1>4, Regs DEF ModeInv

LEMMA ModeStep == TypeOK /\ ModeInv /\ [Next]_vars => ModeInv'
  <1> SUFFICES ASSUME TypeOK, ModeInv, [Next]_vars PROVE ModeInv'
    OBVIOUS
  <1>0. ASSUME pc' \notin {"mode1", "mode2"} PROVE ModeInv'
    BY <1>0 DEF ModeInv
  <1>1. CASE Connecting
    BY <1>0, <1>1 DEF Connecting, startReceiveAnswer, Identify, FindBoards, getInterface, getDualSATA,
       Goto, Return
  <1>2. CASE Resetting
    BY <1>0, <1>2 DEF Resetting, ResetBoards, ResetCard, SetSata, SetAdcs, Goto, Return
  <1>3. CASE Loading
    BY <1>0, <1>3, ModeCommandStep DEF Loading, AppendCommand, RangeError, SendSetup, Return
  <1>4. CASE CallStep
    <2>1. ASSUME NEW o \in Timers, TimerMode(o) PROVE ModeInv'
      BY <2>1, ReadMode
    <2>2. QED
      BY <1>0, <1>4, <2>1 DEF CallStep, close, FactoryReset, readStatus, connect, setIP, setDualSATA,
         loadTimerSetup, setTimerOutput, Call, Begin
  <1>5. CASE EditStep
    <2>1. Edit
      BY <1>5 DEF EditStep, SetAttribute, clearAllTimers, clearOneTimer, allocateTimer
    <2>2. QED
      BY <1>0, <2>1 DEF Edit, Call, Begin
  <1>6. CASE OtherAccess
    <2>1. CASE pc \in {"mode1", "mode2"}
      BY <1>6, <2>1, OtherKeepsSetup
    <2>2. QED
      BY <1>0, <1>6, <2>1 DEF OtherAccess
  <1>7. CASE UNCHANGED vars
    BY <1>7 DEF ModeInv, vars, client, wire, locals
  <1>8. QED
    BY <1>1, <1>2, <1>3, <1>4, <1>5, <1>6, <1>7, NextSteps

(* Only mode commands and accesses of others are possible there.           *)
LEMMA ModeSteps ==
  ASSUME [Next]_vars, pc \in {"mode1", "mode2"}
  PROVE  ModeCommand \/ OtherAccess \/ UNCHANGED vars
  <1>1. ~Connecting
    BY DEF Connecting, startReceiveAnswer, Identify, FindBoards, getInterface, getDualSATA
  <1>2. ~Resetting
    BY DEF Resetting, ResetBoards, ResetCard, SetSata, SetAdcs
  <1>3. Loading => ModeCommand
    BY DEF Loading, AppendCommand, RangeError, SendSetup
  <1>4. ~CallStep
    BY DEF CallStep, close, FactoryReset, readStatus, connect, setIP, setDualSATA, TimerMode, loadTimerSetup,
           setTimerOutput, Call, Edit, Begin
  <1>5. ~EditStep
    BY DEF EditStep, SetAttribute, clearAllTimers, clearOneTimer, allocateTimer, Edit, Call, Begin
  <1>6. QED
    BY <1>1, <1>2, <1>3, <1>4, <1>5, NextSteps

(* For any cameras, faults and accesses of other threads: timerIdle,       *)
(* timerArm and timerRun change nothing but the run bits.                  *)
THEOREM ModeChangesRunOnly == Spec => ModeKeepsSetup
  <1>1. Init => TypeOK /\ ModeInv
    BY TypeInit, ModeInit
  <1>2. TypeOK /\ ModeInv /\ [Next]_vars => (TypeOK /\ ModeInv)'
    BY TypeStep, ModeStep
  <1> DEFINE A == (pc \in {"mode1", "mode2"}) =>
                    \A c \in Camera, r \in Reg :
                      IF r = CONTROL THEN setup'[c][r].mode = setup[c][r].mode
                                     ELSE setup'[c][r] = setup[c][r]
  <1>3. TypeOK /\ ModeInv /\ [Next]_vars => [A]_vars
    <2> SUFFICES ASSUME TypeOK, ModeInv, [Next]_vars, pc \in {"mode1", "mode2"},
                        NEW c \in Camera, NEW r \in Reg
                 PROVE  IF r = CONTROL THEN setup'[c][r].mode = setup[c][r].mode
                                       ELSE setup'[c][r] = setup[c][r]
      OBVIOUS
    <2>1. CASE ModeCommand
      BY <2>1, ModeCommandStep
    <2>2. CASE OtherAccess
      BY <2>2, OtherKeepsSetup
    <2>3. CASE UNCHANGED vars
      BY <2>3 DEF vars, wire
    <2>4. QED
      BY <2>1, <2>2, <2>3, ModeSteps
  <1>4. QED
    BY <1>1, <1>2, <1>3, PTL DEF Spec, ModeKeepsSetup
=============================================================================
