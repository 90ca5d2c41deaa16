--------------------------- MODULE CameraSession ---------------------------
(***************************************************************************)
(* One program that uses an APDCAM10G_regCom object: connecting to a       *)
(* camera, its identification, the factory reset, and the CAMTIMER, whose  *)
(* setup is edited in memory and loaded with commands that are collected   *)
(* in UDP_data.  The object may be used for several cameras, one after     *)
(* the other.  A register access is one step here (RegFile); the other     *)
(* threads of the program make accesses of their own in between.  A        *)
(* command that is only sent may be lost with its packet, and nobody says  *)
(* so; one whose packet could not be sent goes out with the next access.   *)
(***************************************************************************)
EXTENDS Integers

CONSTANTS
  Camera,
  Kinds,       \* what the cameras may be
  Satas,       \* the dual SATA settings they may begin with
  NTimers,     \* 10 in the code
  Setting,     \* the APDCAM_onetimer settings the program uses
  Mode,        \* mode and trigger bits of the timer control register
  Word,        \* values for the clock divider
  NoCommand,
  Faults,      \* what may go wrong
  MaxCalls     \* bound: calls of the program

(***************************************************************************)
(* openFails   the socket cannot be made or bound                          *)
(* noAnswer    a register access fails                                     *)
(* sendError   sendCommand returns the text of a socket.error              *)
(* loss        a packet is sent and lost, or sent short                    *)
(* noInterface the network interface is not found                          *)
(***************************************************************************)
AllFaults == {"openFails", "noAnswer", "sendError", "loss", "noInterface"}

(* The commands that are only sent, each of which writes one register of   *)
(* the camera: dual SATA, and the timer setup in the order of              *)
(* loadTimerSetup.                                                         *)
SATA    == -3
CONTROL == -2
OUTPUT  == -1
CLKDIV  == 0
Timer   == 1..NTimers
Reg     == SATA..NTimers

(* APDCAM_onetimer. Negative numbers are refused like those that are too   *)
(* large, fractions are rounded in memory first.  NoChannels is what is    *)
(* not a number of four bits: it begins as bytes([0]).                     *)
NoChannels == 16
onetimer == [delay : Nat, pulseOn : Nat, pulseOff : Nat, numberOfPulses : Nat,
             channelEnable : 0..NoChannels]
Blank    == [delay |-> 0, pulseOn |-> 0, pulseOff |-> 0, numberOfPulses |-> 0, channelEnable |-> 0]
Unused   == [Blank EXCEPT !.channelEnable = NoChannels]
Control  == [mode : Mode, run : 0..3]   \* run: the two low bits

(* The firmware before 105 and from 105; a camera in which no board        *)
(* answers; something else.                                                *)
Kind == {"v1", "v2", "noBoards", "unknown"}

ASSUME SessionAssumption ==
  /\ Camera # {} /\ Kinds \subseteq [Camera -> Kind] /\ Satas \subseteq [Camera -> BOOLEAN]
  /\ NTimers \in Nat \ {0}
  /\ Setting \subseteq onetimer /\ Word \subseteq Nat
  /\ MaxCalls \in Nat /\ "none" \in Mode /\ Faults \subseteq AllFaults
  /\ NoCommand \notin BOOLEAN \cup Control \cup Nat \cup onetimer

(* What a command may carry, and what a camera begins with.                *)
Value(r) == CASE r = SATA    -> BOOLEAN
              [] r = CONTROL -> Control
              [] r = OUTPUT  -> Nat
              [] r = CLKDIV  -> Nat
              [] OTHER       -> onetimer
Zero(r)  == CASE r = SATA    -> FALSE
              [] r = CONTROL -> [mode |-> "none", run |-> 0]
              [] r = OUTPUT  -> 0
              [] r = CLKDIV  -> 0
              [] OTHER       -> Blank
Fresh(r) == IF r \in Timer THEN Unused ELSE Zero(r)   \* in memory

VARIABLES
  sock,        \* commSocket is open
  ip,          \* APDCAM_IP, the camera the packets go to
  version,     \* versionCode
  dualSATA,    \* attribute set by connect
  UDP_data,    \* the commands collected and not sent yet
  setup,       \* the cameras: dual SATA and timer registers
  kind,        \* the cameras: what they are
  mem,         \* CAMTIMER: the setup in memory
  used,        \* the timers whose flag used is set
  shared,      \* the timers that are one and the same object
  calls,       \* how many calls have been made
  pc, op, res, \* the call being made, or the last one and its result
  at,          \* connect: sock is open for it;  loadTimerSetup: next command
  mode,        \* timerArm, ...: local variable
  saved,       \* FactoryReset, setDualSATA: dual_SATA_state
  moved,       \* setIP was called since the last connect
  gone         \* registers whose last command was lost; a new call forgets them

client  == <<sock, ip, version, dualSATA, moved>>
wire    == <<UDP_data, setup, gone>>
memory  == <<mem, used, shared>>
locals  == <<at, mode, saved>>
vars    == <<client, wire, kind, memory, calls, pc, op, res, locals>>

Stage == {"idle", "open", "identify", "boards", "interface", "getDualSATA",
          "append", "mode1", "mode2", "reset", "resetCC", "sata", "adcs"}
Op    == {"none", "connect", "close", "setIP", "FactoryReset", "setDualSATA", "readStatus",
          "timerIdle", "timerArm", "timerRun", "loadTimerSetup", "edit"}

Empty == [r \in Reg |-> NoCommand]

(* Every variable keeps its type.                                          *)
TypeOK ==
  /\ sock \in BOOLEAN /\ ip \in Camera /\ dualSATA \in BOOLEAN
  /\ version \in {"v1", "v2", "unknown"}
  /\ DOMAIN UDP_data = Reg /\ \A r \in Reg : UDP_data[r] \in Value(r) \cup {NoCommand}
  /\ DOMAIN setup = Camera /\ kind \in [Camera -> Kind]
  /\ \A c \in Camera : DOMAIN setup[c] = Reg /\ \A r \in Reg : setup[c][r] \in Value(r)
  /\ DOMAIN mem = Reg /\ \A r \in Reg : mem[r] \in Value(r)
  /\ used \subseteq Timer /\ shared \subseteq Timer
  /\ calls \in 0..MaxCalls /\ pc \in Stage /\ op \in Op /\ res \in {"", "error", "exception", "dropped"}
  /\ at \in Reg /\ mode \in Control /\ saved \in BOOLEAN
  /\ moved \in BOOLEAN /\ gone \subseteq Reg

Init ==
  /\ sock = FALSE /\ ip = (CHOOSE c \in Camera : TRUE) /\ version = "unknown" /\ dualSATA = FALSE
  /\ UDP_data = Empty /\ gone = {} /\ moved = FALSE
  /\ kind \in Kinds
  /\ \E sata \in Satas :
       setup = [c \in Camera |-> [r \in Reg |-> IF r = SATA THEN sata[c] ELSE Zero(r)]]
  /\ mem = [r \in Reg |-> Fresh(r)] /\ used = {} /\ shared = Timer
  /\ pc = "idle" /\ op = "none" /\ res = "" /\ calls = 0
  /\ at = CONTROL /\ mode = Zero(CONTROL) /\ saved = FALSE

-----------------------------------------------------------------------------
(* Sending.                                                                *)

(* The codes of firmware 105 and up have no register addresses of the      *)
(* control card.                                                           *)
HasRegisters == version = "v1"

Put(commands, r, v) == [commands EXCEPT ![r] = v]

(* The camera executes the commands of a packet in order; the last one for *)
(* a register counts.                                                      *)
Execute(commands) ==
  /\ setup' = [setup EXCEPT ![ip] = [r \in Reg |->
                 IF commands[r] = NoCommand THEN setup[ip][r] ELSE commands[r]]]
  /\ gone' = {r \in gone : commands[r] = NoCommand}

Lose(commands) ==
  /\ "loss" \in Faults
  /\ gone' = gone \cup {r \in Reg : commands[r] # NoCommand}
  /\ UNCHANGED setup

(* sendCommand with sendImmediately: all that has been collected goes out. *)
Send(commands) ==
  /\ sock /\ UDP_data' = Empty
  /\ Execute(commands) \/ Lose(commands)

(* A socket.error, or no socket at all (an exception), keeps the packet;   *)
(* one sent short is dropped.                                              *)
SendFails(commands) ==
  \/ /\ ~sock \/ "sendError" \in Faults
     /\ UDP_data' = commands /\ UNCHANGED <<setup, gone>>
  \/ sock /\ UDP_data' = Empty /\ Lose(commands)

(* A read sends its own command after those collected, and repeats that    *)
(* one only: it succeeds, or fails, whether they have been executed or     *)
(* lost.                                                                   *)
readCCdata == Send(UDP_data)

ReadFails ==
  \/ SendFails(UDP_data)
  \/ "noAnswer" \in Faults /\ Send(UDP_data)

(* What a failed call gives: without a socket sendCommand raises           *)
(* AttributeError.                                                         *)
Failure == IF sock THEN "error" ELSE "exception"

Begin(o, b) == pc = "idle" /\ calls < MaxCalls /\ calls' = calls + 1 /\ op' = o /\ saved' = b
Call(o)   == Begin(o, FALSE) /\ res' = "" /\ gone' = {}
Goto(l)   == pc' = l /\ UNCHANGED <<calls, op, res>>
Return(r) == pc' = "idle" /\ res' = r /\ UNCHANGED <<calls, op>>

(* Any access of another thread sends what is in UDP_data, or drops it.    *)
OtherAccess ==
  /\ Send(UDP_data)
  /\ UNCHANGED <<client, kind, memory, calls, pc, op, res, locals>>

-----------------------------------------------------------------------------
(* Connecting.                                                             *)

connect(c) ==
  /\ Call("connect")
  /\ pc' = "open" /\ ip' = c /\ moved' = FALSE
  /\ UNCHANGED <<sock, version, dualSATA, UDP_data, setup, kind, memory, at, mode>>

(* A socket that is there already is used again.                           *)
startReceiveAnswer ==
  /\ pc = "open"
  /\ \/ sock' = TRUE /\ Goto("identify")
     \/ "openFails" \in Faults /\ ~sock /\ sock' = FALSE /\ Return("error")
  /\ UNCHANGED <<ip, version, dualSATA, moved, wire, kind, memory, locals>>

close ==
  /\ Call("close")
  /\ sock' = FALSE
  /\ UNCHANGED <<pc, ip, version, dualSATA, moved, UDP_data, setup, kind, memory, at, mode>>

(* The packets go to another camera, whatever is known of it; nothing in   *)
(* the repository calls it.                                                *)
setIP(c) ==
  /\ Call("setIP")
  /\ ip' = c /\ moved' = TRUE
  /\ UNCHANGED <<pc, sock, version, dualSATA, UDP_data, setup, kind, memory, at, mode>>

(* readStatus(dataOnly) and the firmware in it; an error closes.           *)
Identify ==
  /\ pc = "identify"
  /\ \/ /\ readCCdata
        /\ kind[ip] # "unknown"
        /\ version' = IF kind[ip] = "v2" THEN "v2" ELSE "v1"
        /\ Goto("boards")
        /\ UNCHANGED sock
     \/ readCCdata /\ kind[ip] = "unknown" /\ sock' = FALSE /\ Return("error") /\ UNCHANGED version
     \/ ReadFails /\ sock' = FALSE /\ Return("error") /\ UNCHANGED version
  /\ UNCHANGED <<ip, dualSATA, moved, kind, memory, locals>>

(* Mutant: the paths without boards return without closing.                *)
FindBoards_Open ==
  /\ pc = "boards"
  /\ \/ Send(UDP_data) /\ kind[ip] # "noBoards" /\ Goto("interface")
     \/ ((Send(UDP_data) /\ kind[ip] = "noBoards") \/ ReadFails) /\ Return("error")
  /\ UNCHANGED <<client, kind, memory, locals>>

(* The ADC boards, the control board and the synchronisation.              *)
FindBoards ==
  /\ pc = "boards"
  /\ \/ Send(UDP_data) /\ kind[ip] # "noBoards" /\ Goto("interface") /\ UNCHANGED sock
     \/ ((Send(UDP_data) /\ kind[ip] = "noBoards") \/ ReadFails) /\ sock' = FALSE /\ Return("error")
  /\ UNCHANGED <<ip, version, dualSATA, moved, kind, memory, locals>>

(* From here on an error of connect leaves the socket open.                *)
getInterface ==
  /\ pc = "interface"
  /\ \/ Goto("getDualSATA")
     \/ "noInterface" \in Faults /\ Return("error")
  /\ UNCHANGED <<client, wire, kind, memory, locals>>

(* For connect and for FactoryReset. The codes of the newer firmware have  *)
(* no CC_DATATYPE_SATACONTROL: an exception, before anything is sent.      *)
getDualSATA ==
  /\ pc = "getDualSATA"
  /\ \/ /\ ~HasRegisters
        /\ Return("exception")
        /\ UNCHANGED <<dualSATA, wire, saved>>
     \/ /\ HasRegisters
        /\ readCCdata
        /\ IF op = "connect" THEN dualSATA' = setup'[ip][SATA] /\ Return("") /\ UNCHANGED saved
           ELSE saved' = setup'[ip][SATA] /\ Goto("reset") /\ UNCHANGED dualSATA
     \/ /\ HasRegisters /\ ReadFails /\ Return("error")
        /\ UNCHANGED <<dualSATA, saved>>
  /\ UNCHANGED <<sock, ip, version, moved, kind, memory, at, mode>>

(* All of it, or the two blocks; the full one needs register addresses.    *)
readStatus ==
  /\ Begin("readStatus", FALSE) /\ sock
  /\ \/ readCCdata /\ res' = IF HasRegisters THEN "" ELSE "exception"
     \/ ReadFails /\ res' = "error"
  /\ UNCHANGED <<pc, client, kind, memory, at, mode>>

-----------------------------------------------------------------------------
(* Factory reset and dual SATA.                                            *)

FactoryReset ==
  /\ Call("FactoryReset")
  /\ sock /\ pc' = "getDualSATA"
  /\ UNCHANGED <<client, UDP_data, setup, kind, memory, at, mode>>

(* The ADC boards and the control board, which keep none of the registers  *)
(* here; nothing of it is read back.                                       *)
ResetBoards ==
  /\ pc = "reset"
  /\ \/ Send(UDP_data) /\ Goto("resetCC")
     \/ SendFails(UDP_data) /\ Return(Failure)
  /\ UNCHANGED <<client, kind, memory, locals>>

(* OP_RESET writes all registers, so that those before it in a packet do   *)
(* not count.                                                              *)
OP_RESET == [r \in Reg |-> Zero(r)]

ResetCard ==
  /\ pc = "resetCC"
  /\ \/ Send(OP_RESET) /\ Goto("sata")
     \/ SendFails(OP_RESET) /\ Return(Failure)
  /\ UNCHANGED <<client, kind, memory, locals>>

(* The attribute dualSATA is not changed by it.                            *)
setDualSATA(b) ==
  /\ Begin("setDualSATA", b) /\ res' = "" /\ gone' = {}
  /\ sock /\ pc' = "sata"
  /\ UNCHANGED <<client, UDP_data, setup, kind, memory, at, mode>>

(* FactoryReset makes an error text when setDualSATA has failed, and       *)
(* returns "" all the same: "dropped" here.                                *)
SataError == IF op = "FactoryReset" THEN "dropped" ELSE Failure

(* Mutant: the attribute of the object is restored, not what was read.     *)
SetSata_Attribute ==
  /\ pc = "sata"
  /\ Send(Put(UDP_data, SATA, dualSATA)) /\ Goto("adcs")
  /\ UNCHANGED <<client, kind, memory, locals>>

(* The control card: sent, and not read back.                              *)
SetSata ==
  /\ pc = "sata"
  /\ LET commands == Put(UDP_data, SATA, saved)
     IN \/ Send(commands) /\ Goto("adcs")
        \/ SendFails(commands) /\ Return(SataError)
  /\ UNCHANGED <<client, kind, memory, locals>>

(* setADCDualSATA, of which CardControl has the steps: a read that fails   *)
(* ends in an exception, a write in an error.                              *)
SetAdcs ==
  /\ pc = "adcs"
  /\ \/ Send(UDP_data) /\ Return("")
     \/ ReadFails /\ (Return("exception") \/ Return(SataError))
  /\ UNCHANGED <<client, kind, memory, locals>>

-----------------------------------------------------------------------------
(* The CAMTIMER: the setup in memory.                                      *)

Edit ==
  /\ Call("edit")
  /\ UNCHANGED <<pc, client, UDP_data, setup, kind, at, mode>>

(* Attributes of CAMTIMER are set by the program itself.                   *)
SetAttribute ==
  /\ Edit
  /\ \/ \E m \in Mode : mem' = Put(mem, CONTROL, [mode |-> m, run |-> 0])
     \/ \E w \in Word : mem' = Put(mem, CLKDIV, w)
  /\ UNCHANGED <<used, shared>>

(* The ten entries of a new APDCAM_timer are the same APDCAM_onetimer.     *)
clearAllTimers ==
  /\ Edit
  /\ mem' = [r \in Reg |-> Fresh(r)] /\ used' = {} /\ shared' = Timer

clearOneTimer(t) ==
  /\ Edit
  /\ mem' = Put(mem, t, Unused) /\ used' = used \ {t} /\ shared' = shared \ {t}

(* Mutant: the flag is set before the entry is replaced by a copy.         *)
allocateTimer_InPlace(s) ==
  /\ Edit
  /\ \E t \in Timer \ used :
       /\ \A u \in Timer \ used : t <= u
       /\ mem' = Put(mem, t, s)
       /\ used' = used \cup (IF t \in shared THEN shared ELSE {t})
       /\ shared' = shared \ {t}

(* The first timer that is not used gets a copy of the settings.           *)
allocateTimer(s) ==
  /\ Edit
  /\ \E t \in Timer \ used :
       /\ \A u \in Timer \ used : t <= u
       /\ mem' = Put(mem, t, s)
       /\ used' = used \cup {t}
       /\ shared' = shared \ {t}

-----------------------------------------------------------------------------
(* Loading it. The commands are collected without holding the lock.        *)

TwoTo28 == 268435456

(* The checks of loadTimerSetup; then to_bytes for the clock divider, and  *)
(* the four bits of the channels in one byte, raise an exception.          *)
Checked(r) ==
  r \in used =>
    /\ mem[r].delay <= TwoTo28 /\ mem[r].numberOfPulses <= TwoTo28
    /\ mem[r].pulseOn <= 65535 /\ mem[r].pulseOff <= 65535

InRange(r) ==
  /\ Checked(r)
  /\ r \in used => mem[r].channelEnable < NoChannels
  /\ r = CLKDIV => mem[r] <= 65535

(* The upper four bits of the number of pulses are the channels. Of a      *)
(* timer that is not used only the number is sent.                         *)
Packed(r) == CASE r \in used         -> [mem[r] EXCEPT !.numberOfPulses = @ % TwoTo28]
               [] r \in Timer \ used -> Blank
               [] OTHER              -> mem[r]

loadTimerSetup ==
  /\ Call("loadTimerSetup")
  /\ pc' = "append" /\ at' = CONTROL
  /\ UNCHANGED <<client, UDP_data, setup, kind, memory, mode>>

(* Mutant: one timer too many.                                             *)
Append_TooFar ==
  /\ pc = "append"
  /\ InRange(at)
  /\ UDP_data' = Put(UDP_data, at, Packed(at))
  /\ at' = at + 1
  /\ UNCHANGED <<client, setup, gone, kind, memory, calls, pc, op, res, mode, saved>>

(* Mutant: a timer that is not used is left out of the packet.             *)
Append_OnlyUsed ==
  /\ pc = "append" /\ at < NTimers
  /\ UDP_data' = IF at \in Timer \ used THEN UDP_data ELSE Put(UDP_data, at, Packed(at))
  /\ at' = at + 1
  /\ UNCHANGED <<client, setup, gone, kind, memory, calls, pc, op, res, mode, saved>>

AppendCommand ==
  /\ pc = "append" /\ at < NTimers
  /\ InRange(at)
  /\ UDP_data' = Put(UDP_data, at, Packed(at))
  /\ at' = at + 1
  /\ UNCHANGED <<client, setup, gone, kind, memory, calls, pc, op, res, mode, saved>>

(* What has been collected so far stays in UDP_data.                       *)
RangeError ==
  /\ pc = "append"
  /\ ~InRange(at)
  /\ Return(IF Checked(at) THEN "exception" ELSE "error")
  /\ at' = CONTROL
  /\ UNCHANGED <<client, wire, kind, memory, mode, saved>>

(* The last timer and the sending call.                                    *)
SendSetup ==
  /\ pc = "append" /\ at = NTimers
  /\ InRange(at)
  /\ LET commands == Put(UDP_data, at, Packed(at))
     IN \/ Send(commands) /\ Return("")
        \/ SendFails(commands) /\ Return(Failure)
  /\ at' = CONTROL
  /\ UNCHANGED <<client, kind, memory, mode, saved>>

(* The command is collected and never sent by this method.                 *)
setTimerOutput ==
  /\ Call("edit")
  /\ UDP_data' = Put(UDP_data, OUTPUT, mem[OUTPUT])
  /\ UNCHANGED <<pc, client, setup, kind, memory, at, mode>>

-----------------------------------------------------------------------------
(* timerIdle, timerArm and timerRun: the control register is read and      *)
(* written back once or twice.                                             *)

TimerMode(o) ==
  /\ Begin(o, FALSE)
  /\ \/ readCCdata /\ mode' = setup'[ip][CONTROL] /\ pc' = "mode1" /\ res' = ""
     \/ /\ ReadFails
        /\ res' = Failure
        /\ UNCHANGED <<mode, pc>>
  /\ UNCHANGED <<client, kind, memory, at>>

(* The low bits of the first command; the second one sets both.            *)
FirstBits ==
  CASE op = "timerIdle" -> 0
    [] op = "timerArm"  -> 2
    [] OTHER            -> mode.run % 2

(* Mutant: the other bits are taken from memory.                           *)
ModeCommand_Memory ==
  /\ pc \in {"mode1", "mode2"}
  /\ Send(Put(UDP_data, CONTROL, [mem[CONTROL] EXCEPT !.run = 3]))
  /\ Return("")
  /\ UNCHANGED <<client, kind, memory, locals>>

ModeCommand ==
  /\ pc \in {"mode1", "mode2"}
  /\ LET commands == Put(UDP_data, CONTROL,
                         [mode EXCEPT !.run = IF pc = "mode1" THEN FirstBits ELSE 3])
     IN \/ /\ Send(commands)
           /\ IF pc = "mode1" /\ op # "timerIdle" THEN Goto("mode2") /\ UNCHANGED mode
              ELSE Return("") /\ mode' = Zero(CONTROL)
        \/ SendFails(commands) /\ Return(Failure) /\ mode' = Zero(CONTROL)
  /\ UNCHANGED <<client, kind, memory, at, saved>>

-----------------------------------------------------------------------------
Connecting == startReceiveAnswer \/ Identify \/ FindBoards \/ getInterface \/ getDualSATA
Resetting  == ResetBoards \/ ResetCard \/ SetSata \/ SetAdcs
Loading    == AppendCommand \/ RangeError \/ SendSetup \/ ModeCommand

Next ==
  \/ Connecting \/ Resetting \/ Loading \/ OtherAccess
  \/ close \/ FactoryReset \/ readStatus
  \/ \E c \in Camera : connect(c) \/ setIP(c)
  \/ \E b \in BOOLEAN : setDualSATA(b)
  \/ \E o \in {"timerIdle", "timerArm", "timerRun"} : TimerMode(o)
  \/ SetAttribute \/ clearAllTimers \/ loadTimerSetup \/ setTimerOutput
  \/ \E t \in Timer : clearOneTimer(t)
  \/ \E s \in Setting : allocateTimer(s)

Spec == Init /\ [][Next]_vars

-----------------------------------------------------------------------------
(* Properties.                                                             *)

Returned(o) == pc = "idle" /\ op = o /\ res = ""

(* A program that is at rest with an open socket uses the code table of    *)
(* the firmware at the other end, as long as setIP does not turn it to     *)
(* another camera; what connect() reports in dualSATA is the setting of    *)
(* the camera.                                                             *)
OpenIsIdentified ==
  /\ pc = "idle" /\ sock /\ ~moved => kind[ip] = version
  /\ Returned("connect") => sock /\ dualSATA = setup[ip][SATA]

(* After setDualSATA the camera has the setting asked for, and after a     *)
(* factory reset the one it had before, whatever commands that could not   *)
(* be sent, a reset among them, have gone out with these: unless the       *)
(* packet with the very command was lost, which nobody notices, or         *)
(* FactoryReset has dropped its error.                                     *)
SataRestored ==
  Returned("FactoryReset") \/ Returned("setDualSATA") =>
    SATA \in gone \/ setup[ip][SATA] = saved

(* After a successful loadTimerSetup the camera has the whole setup of the *)
(* memory, whatever an earlier, refused setup or a reset that failed has   *)
(* left in the packet and whatever part of it another thread has sent      *)
(* already: a register is missing only if the packet its command went out  *)
(* with was lost.  A timer with exactly 2^28 pulses is accepted and loaded *)
(* with none.                                                              *)
LoadedIsMemory ==
  Returned("loadTimerSetup") =>
    /\ \A r \in {CONTROL, OUTPUT, CLKDIV} \ gone : setup[ip][r] = mem[r]
    /\ \A t \in (Timer \ used) \ gone : setup[ip][t] = Blank
    /\ \A t \in used \ gone : mem[t].numberOfPulses < TwoTo28 => setup[ip][t] = mem[t]

(* The commands of timerIdle, timerArm and timerRun change the run bits    *)
(* only, whatever a refused setup has left in the packet: it goes out with *)
(* the read they begin with, and the mode they write back is read after    *)
(* it.                                                                     *)
ModeKeepsSetup ==
  [][(pc \in {"mode1", "mode2"}) =>
       \A c \in Camera, r \in Reg :
         IF r = CONTROL THEN setup'[c][r].mode = setup[c][r].mode
                        ELSE setup'[c][r] = setup[c][r] ]_vars

(* Entries that are one object are all unused, so that no setting of one   *)
(* timer appears in another.                                               *)
SharedIsUnused == \A t \in shared : t \notin used /\ mem[t] = Unused
=============================================================================
