--------------------------- MODULE NativeReceiver ---------------------------
(***************************************************************************)
(* measure() with data_receiver='Python': APDCAM10G_data opens a UDP       *)
(* socket for every stream, starts the streams of the camera, and reads    *)
(* until every stream has delivered its packets or has been silent for a   *)
(* second.  The streams are limited by the sample counter of the camera    *)
(* only; neither the serial numbers nor the measurement a packet belongs   *)
(* to are looked at.  A packet that arrives while no socket is open is     *)
(* dropped by the host, so that none is older than the sockets.  A command *)
(* that could not be sent stays in UDP_data and goes out with the next     *)
(* one, or with the readStatus the next measurement begins with.           *)
(***************************************************************************)
EXTENDS Integers, Sequences, FiniteSetsExt

CONSTANTS
  AdcCounts,      \* how many ADC boards the camera may have
  Requests,       \* channel masks and bits the program asks for
  sample_number,
  MTUs,           \* of the host's interface
  DefaultOctets,  \* of a stream nobody has set up
  Faults,
  MaxMeasure,     \* bound: measurements
  Endless         \* bound: packets of a stream without sample count

(***************************************************************************)
(* noNetwork    the parameters of the network are not found                *)
(* v2           the camera has the code table without OP_SETSAMPLECOUNT    *)
(* sendError    sendCommand returns an error: of a socket.error, or of a   *)
(*              packet sent short                                          *)
(* commandLost  a packet does not reach the camera and nobody says so      *)
(* portInUse    a socket cannot be bound                                   *)
(* loss         a data packet is lost                                      *)
(* noTrigger    the camera waits for a trigger for more than a second      *)
(***************************************************************************)
AllFaults == {"noNetwork", "v2", "sendError", "commandLost", "portInUse", "loss", "noTrigger"}

Stream == 0..3
Chip   == 0..3

(* Channels of the four chips of each ADC board, and the resolution.       *)
Adc == 0..3
Request == [mask : [Adc -> [Chip -> SUBSET (0..7)]], bits : {8, 12, 14}]

ASSUME NativeAssumption ==
  /\ AdcCounts \subseteq 1..4 /\ Requests \subseteq Request /\ Requests # {}
  /\ sample_number \in Nat \ {0} /\ MTUs \subseteq Nat /\ MTUs # {} /\ Faults \subseteq AllFaults
  /\ DefaultOctets \in Nat \ {0} /\ MaxMeasure \in Nat /\ Endless \in Nat \ {0}

VARIABLES
  adcs,         \* len(status.ADC_address)
  dualSATA,     \* attribute of the connection
  sata, samples, octets,   \* camera: SATA setting, sample count, octets of the streams
  on, left, started,       \* those switched on, packets to come, the measurement they are of
  UDP_data,     \* the commands that could not be sent
  MTU, req,     \* the measurement: the host's MTU, what is asked for
  sockets,      \* receiveSockets that are open
  buffer,       \* their packets that have not been read
  got,          \* the packets read; their number is packet_counter
  running,      \* getData: stream_running
  cur,          \* startReceive, getData: loop variable
  measured, res, pc,   \* measurements begun, the last result, place in measure()
  fault,        \* a setting, START, a trigger or data got lost in this measurement
  stopped,      \* no stream has been started, or is to be, since the last STOP
  clean         \* so it was when this measurement began to open its sockets

camera  == <<samples, octets, sata, on, left, started>>
command == <<camera, UDP_data, stopped>>
asked   == <<adcs, dualSATA, MTU, req, measured>>
host    == <<sockets, buffer, got, running, cur>>
vars    == <<command, asked, host, res, pc, fault, clean>>

Packet == [meas : 0..MaxMeasure, adc : 0..3]
Place  == {"idle", "setup", "network", "allocate", "arrays", "receive", "stop", "start",
           "data", "stopStream", "stopReceive"}

(* The commands of a packet, in the order they are collected in: sample    *)
(* count, octets of the streams, STOP, the START of a measurement, dual    *)
(* SATA.                                                                   *)
Commands == [count : BOOLEAN, octets : [Stream -> Nat], stop : BOOLEAN,
             start : 0..MaxMeasure, sata : SUBSET BOOLEAN]

Empty == [count |-> FALSE, octets |-> [s \in Stream |-> 0], stop |-> FALSE,
          start |-> 0, sata |-> {}]

(* Every variable keeps its type.                                          *)
TypeOK ==
  /\ adcs \in 1..4 /\ dualSATA \in BOOLEAN /\ sata \in BOOLEAN
  /\ samples \in {0, sample_number} /\ on \subseteq Stream
  /\ octets \in [Stream -> Nat] /\ left \in [Stream -> Nat]
  /\ started \in 0..MaxMeasure /\ UDP_data \in Commands /\ MTU \in Nat /\ req \in Request
  /\ sockets \subseteq Stream
  /\ buffer \in [Stream -> Seq(Packet)] /\ got \in [Stream -> Seq(Packet)]
  /\ running \subseteq Stream /\ cur \in 0..4 /\ measured \in 0..MaxMeasure
  /\ res \in {"", "error", "exception"} /\ pc \in Place
  /\ fault \in BOOLEAN /\ stopped \in BOOLEAN /\ clean \in BOOLEAN

Nothing == [s \in Stream |-> <<>>]

Init ==
  /\ adcs \in AdcCounts /\ dualSATA \in BOOLEAN /\ sata = dualSATA
  /\ samples = 0 /\ octets = [s \in Stream |-> DefaultOctets] /\ on = {} /\ left = [s \in Stream |-> 0] /\ started = 0
  /\ UDP_data = Empty /\ stopped = TRUE /\ clean = TRUE
  /\ MTU = (CHOOSE m \in MTUs : TRUE) /\ req = (CHOOSE q \in Requests : TRUE)
  /\ sockets = {} /\ buffer = Nothing /\ got = Nothing /\ running = {} /\ cur = 0
  /\ measured = 0 /\ res = "" /\ pc = "idle" /\ fault = FALSE

-----------------------------------------------------------------------------
(* How much data there will be.                                            *)

CeilDiv(a, b) == (a + b - 1) \div b

(* bit_length() of a chip's mask, where the camera sends the channels that *)
(* are set.                                                                *)
bit_length(m) == IF m = {} THEN 0 ELSE Max(m) + 1
Expected(a)   == [c \in Chip |-> bit_length(req.mask[a][c])]
Sent(a)       == [c \in Chip |-> Cardinality(req.mask[a][c])]

SampleBytes(channels) ==
  LET bytes(c) == CeilDiv(req.bits * channels[c], 8)
  IN bytes(0) + bytes(1) + bytes(2) + bytes(3)

RoundUp(n) == 4 * CeilDiv(n, 4)

(* The rounding is a division of floats, and then so is the number of      *)
(* packets, which cannot be the size of an array.                          *)
Float(a) == SampleBytes(Expected(a)) % 4 # 0

octet == (MTU - 50) \div 8

(* The incomplete packet at the end is not counted in either branch.       *)
packets_per_adc(a) == (RoundUp(SampleBytes(Expected(a))) * sample_number) \div (octet * 8)

-----------------------------------------------------------------------------
(* Which ADC a stream belongs to: for the receiver by its attribute        *)
(* dualSATA, in the camera by its setting.                                 *)

StreamsOf(dual) == IF dual THEN {2 * i : i \in 0..(adcs - 1)} ELSE 0..(adcs - 1)
AdcOf(s, dual)  == IF dual THEN s \div 2 ELSE s

stream_list == StreamsOf(dualSATA)
stream_adc(s) == AdcOf(s, dualSATA)

(* The array of a stream is made for packets_per_adc[stream_adc[i*2]], in  *)
(* both cases: a TypeError without dual SATA and with a second ADC, and an *)
(* IndexError with dual SATA and more than two.                            *)
ArrayError ==
  \/ \E s \in stream_list : Float(stream_adc(s))
  \/ IF dualSATA THEN adcs > 2 ELSE adcs > 1

-----------------------------------------------------------------------------
(* The camera.                                                             *)

(* The camera fills its packets, the last one as far as there is data.     *)
(* The streams without an ADC send nothing.                                *)
CameraPackets(s, dual, count, size) ==
  IF s \notin StreamsOf(dual) THEN 0 ELSE
  IF count = 0 THEN Endless
  ELSE CeilDiv(RoundUp(SampleBytes(Sent(AdcOf(s, dual)))) * count, size * 8)

Emit(s) ==
  /\ s \in on /\ left[s] > 0
  /\ left' = [left EXCEPT ![s] = @ - 1]
  /\ \/ /\ buffer' = IF s \in sockets
                     THEN [buffer EXCEPT ![s] = Append(@, [meas |-> started, adc |-> AdcOf(s, sata)])]
                     ELSE buffer
        /\ UNCHANGED fault
     \/ "loss" \in Faults /\ UNCHANGED buffer /\ fault' = TRUE
  /\ UNCHANGED <<samples, octets, sata, on, started, UDP_data, stopped, asked, sockets, got, running, cur,
                 res, pc, clean>>

(* What the camera does with the commands of a packet.                     *)
Execute(u) ==
  /\ samples' = IF u.count THEN sample_number ELSE samples
  /\ octets' = [s \in Stream |-> IF u.octets[s] = 0 THEN octets[s] ELSE u.octets[s]]
  /\ sata' \in IF u.sata = {} THEN {sata} ELSE u.sata
  /\ \/ /\ u.start > 0
        /\ on' = Stream /\ started' = u.start /\ stopped' = FALSE
        /\ left' = [s \in Stream |-> CameraPackets(s, sata', samples', octets'[s])]
     \/ /\ u.start = 0 /\ u.stop
        /\ on' = {} /\ left' = [s \in Stream |-> 0] /\ stopped' = TRUE
        /\ UNCHANGED started
     \/ u.start = 0 /\ ~u.stop /\ UNCHANGED <<on, left, started, stopped>>

-----------------------------------------------------------------------------
(* sendCommand: the packet arrives, is lost, or is refused.  A socket.error*)
(* keeps what has been collected, a packet sent short is dropped.          *)
Arrives(u) == Execute(u) /\ UDP_data' = Empty
Lost       == "commandLost" \in Faults /\ UDP_data' = Empty /\ UNCHANGED <<camera, stopped>>
Refused(u) ==
  /\ "sendError" \in Faults
  /\ UDP_data' \in {u, Empty}
  /\ stopped' = (stopped /\ UDP_data'.start = 0)
  /\ UNCHANGED camera

-----------------------------------------------------------------------------
(* measure().                                                              *)

Goto(l) == pc' = l /\ UNCHANGED res

(* The sockets are closed by the destructor of the receiver object.        *)
Return(r) == pc' = "idle" /\ res' = r /\ sockets' = {} /\ buffer' = Nothing

measure(r, mtu) ==
  /\ pc = "idle" /\ measured < MaxMeasure
  /\ measured' = measured + 1 /\ req' = r /\ MTU' = mtu
  /\ got' = Nothing /\ fault' = FALSE /\ running' = {} /\ cur' = 0
  /\ Goto("setup")
  /\ UNCHANGED <<adcs, dualSATA, command, sockets, buffer, clean>>

(* Between measurements; the attribute keeps its value.                    *)
setDualSATA(b) ==
  /\ pc = "idle"
  /\ LET u == [UDP_data EXCEPT !.sata = {b}] IN Arrives(u) \/ Lost \/ Refused(u)
  /\ UNCHANGED <<asked, host, res, pc, fault, clean>>

(* readStatus, whose result is not looked at; then sample divider,         *)
(* resolution, trigger and synchronisation of the ADCs. The first packet   *)
(* that can be sent takes with it what the last measurement has left.      *)
SetUp ==
  /\ pc = "setup"
  /\ \/ /\ Arrives(UDP_data) \/ Lost
        /\ Goto("network") /\ UNCHANGED <<sockets, buffer>>
     \/ /\ "sendError" \in Faults
        /\ Arrives(UDP_data) \/ Lost \/ Refused(UDP_data)
        /\ Return("error")
  /\ UNCHANGED <<asked, got, running, cur, fault, clean>>

(* What ip says is thrown away, ifconfig is asked. The result of setOctet  *)
(* is not looked at.                                                       *)
getNetParameters ==
  /\ pc = "network"
  /\ \/ Goto("allocate") /\ UNCHANGED <<sockets, buffer>>
     \/ "noNetwork" \in Faults /\ Return("error")
  /\ UNCHANGED <<command, asked, got, running, cur, fault, clean>>

(* Without room for an octet the size of a packet is 0. The result of      *)
(* setSampleNumber is not looked at.                                       *)
allocate ==
  /\ pc = "allocate"
  /\ \/ /\ octet < 1 \/ "v2" \in Faults
        /\ Return("exception") /\ UNCHANGED <<command, fault>>
     \/ /\ octet >= 1
        /\ Goto("arrays")
        /\ LET u == [UDP_data EXCEPT !.count = TRUE]
           IN \/ Arrives(u) /\ UNCHANGED fault
              \/ Lost /\ fault' = TRUE
              \/ Refused(u) /\ fault' = (fault \/ UDP_data' = Empty)
        /\ UNCHANGED <<sockets, buffer>>
  /\ UNCHANGED <<asked, got, running, cur, clean>>

startReceive ==
  /\ pc = "arrays"
  /\ \/ ArrayError /\ Return("exception") /\ UNCHANGED clean
     \/ ~ArrayError /\ Goto("receive") /\ clean' = stopped /\ UNCHANGED <<sockets, buffer>>
  /\ UNCHANGED <<command, asked, got, running, cur, fault>>

(* One turn of its loop: socket, and destination in the camera.            *)
OpenStream ==
  /\ pc = "receive" /\ cur \in stream_list
  /\ LET u == [UDP_data EXCEPT !.octets[cur] = octet]
     IN \/ /\ (Arrives(u) /\ UNCHANGED fault) \/ (Lost /\ fault' = TRUE)
           /\ sockets' = sockets \cup {cur} /\ cur' = cur + 1
           /\ Goto("receive") /\ UNCHANGED buffer
        \/ /\ ("portInUse" \in Faults /\ UNCHANGED command) \/ Refused(u)
           /\ Return("error") /\ UNCHANGED <<cur, fault>>
  /\ UNCHANGED <<asked, got, running, clean>>

OpenNext ==
  /\ pc = "receive" /\ cur < 4 /\ cur \notin stream_list
  /\ cur' = cur + 1
  /\ UNCHANGED <<command, asked, sockets, buffer, got, running, res, pc, fault, clean>>

OpenDone ==
  /\ pc = "receive" /\ cur = 4
  /\ cur' = 0 /\ Goto("stop")
  /\ UNCHANGED <<command, asked, sockets, buffer, got, running, fault, clean>>

(* Mutant: only the first stream is stopped.                               *)
stopStream_OneOnly ==
  /\ on' = on \ {0} /\ left' = [s \in Stream |-> IF s = 0 THEN 0 ELSE left[s]]
  /\ UDP_data' = Empty /\ stopped' = TRUE
  /\ UNCHANGED <<samples, octets, sata, started>>

(* Nobody looks at its result.                                             *)
stopStream ==
  LET u == [UDP_data EXCEPT !.stop = TRUE] IN Arrives(u) \/ Lost \/ Refused(u)

StopFirst ==
  /\ pc = "stop" /\ stopStream /\ Goto("start")
  /\ UNCHANGED <<asked, host, fault, clean>>

(* All four streams are switched on, whatever the list says.               *)
startStream ==
  /\ pc = "start"
  /\ LET u == [UDP_data EXCEPT !.start = measured]
     IN \/ /\ (Arrives(u) /\ UNCHANGED fault) \/ (Lost /\ fault' = TRUE)
           /\ running' = Stream /\ Goto("data") /\ UNCHANGED <<sockets, buffer>>
        \/ Refused(u) /\ Return("error") /\ UNCHANGED <<running, fault>>
  /\ UNCHANGED <<asked, got, cur, clean>>

-----------------------------------------------------------------------------
(* getData: the four streams in turn; one that has timed out once is over. *)

(* Mutant: the streams are not begun again.                                *)
Next4_Once == cur' = cur + 1

Next4 == cur' = (cur + 1) % 4

InTurn == pc = "data" /\ (cur = 0 => running # {})

Readable(s) ==
  s \in stream_list /\ s \in running /\ Len(got[s]) < packets_per_adc(stream_adc(s))

Recv ==
  /\ InTurn /\ Readable(cur) /\ buffer[cur] # <<>>
  /\ got' = [got EXCEPT ![cur] = Append(@, Head(buffer[cur]))]
  /\ buffer' = [buffer EXCEPT ![cur] = Tail(@)]
  /\ Next4
  /\ UNCHANGED <<command, asked, sockets, running, res, pc, fault, clean>>

(* A second without a packet: the camera has nothing to send, or waits.    *)
Silent(s) == s \notin on \/ left[s] = 0 \/ "noTrigger" \in Faults

(* Mutant: the next packet is waited for again.                            *)
TimeOut_Again ==
  /\ InTurn /\ Readable(cur) /\ buffer[cur] = <<>> /\ Silent(cur)
  /\ Next4
  /\ UNCHANGED <<command, asked, sockets, buffer, got, running, res, pc, fault, clean>>

TimeOut ==
  /\ InTurn /\ Readable(cur) /\ buffer[cur] = <<>> /\ Silent(cur)
  /\ running' = running \ {cur}
  /\ fault' = (fault \/ (cur \in on /\ left[cur] > 0))
  /\ Next4
  /\ UNCHANGED <<command, asked, sockets, buffer, got, res, pc, clean>>

Skip ==
  /\ InTurn /\ ~Readable(cur)
  /\ running' = running \ {cur}
  /\ Next4
  /\ UNCHANGED <<command, asked, sockets, buffer, got, res, pc, fault, clean>>

(* Mutant: the loop runs while all streams do.                             *)
DataDone_First ==
  /\ pc = "data" /\ cur = 0 /\ running # Stream
  /\ Goto("stopStream")
  /\ UNCHANGED <<command, asked, host, fault, clean>>

DataDone ==
  /\ pc = "data" /\ cur = 0 /\ running = {}
  /\ Goto("stopStream")
  /\ UNCHANGED <<command, asked, host, fault, clean>>

StopAfter ==
  /\ pc = "stopStream" /\ stopStream /\ Goto("stopReceive")
  /\ UNCHANGED <<asked, host, fault, clean>>

(* measure() returns no error, whatever has been received.                 *)
stopReceive ==
  /\ pc = "stopReceive" /\ Return("")
  /\ UNCHANGED <<command, asked, got, running, cur, fault, clean>>

-----------------------------------------------------------------------------
Receiver ==
  \/ SetUp \/ getNetParameters \/ allocate \/ startReceive \/ OpenStream \/ OpenNext \/ OpenDone
  \/ StopFirst \/ startStream \/ Recv \/ TimeOut \/ Skip \/ DataDone \/ StopAfter \/ stopReceive

Next ==
  \/ Receiver
  \/ \E b \in BOOLEAN : setDualSATA(b)
  \/ \E s \in Stream : Emit(s)
  \/ \E r \in Requests, mtu \in MTUs : measure(r, mtu)

Fairness == WF_vars(Receiver) /\ \A s \in Stream : WF_vars(Emit(s))

Spec == Init /\ [][Next]_vars /\ Fairness
-----------------------------------------------------------------------------
(* Properties.                                                             *)

(* What is read belongs to this measurement, and to the ADC it is written  *)
(* to the file of as long as the attribute dualSATA is the setting of the  *)
(* camera, although nothing in a packet is looked at: unless, when the     *)
(* sockets were opened, a START had not been followed by a STOP, as the    *)
(* STOP at the end of a measurement was lost or refused, or a START that   *)
(* was refused has gone out with this measurement's first access.          *)
FreshData ==
  clean =>
    \A s \in Stream : \A k \in DOMAIN got[s] :
      /\ got[s][k].meas = measured
      /\ pc # "idle" /\ sata = dualSATA => got[s][k].adc = stream_adc(s)

(* Bytes the camera sends of the samples asked for and that have not been  *)
(* read.                                                                   *)
Missing(s) ==
  RoundUp(SampleBytes(Sent(stream_adc(s)))) * sample_number - Len(got[s]) * (octet * 8)

(* When measure() stops to read, and neither a setting, the START, the     *)
(* trigger nor data got lost, less than one packet of each ADC is missing: *)
(* the last one, if it is not full.  Masks with holes, for which it waits  *)
(* for more than the camera sends, make no difference.  It comes this far  *)
(* with one ADC, or with up to two in dual SATA mode (ArrayError).         *)
Complete ==
  pc \in {"stopStream", "stopReceive"} /\ ~fault /\ clean /\ sata = dualSATA =>
    \A s \in stream_list : Missing(s) < octet * 8

(* measure() returns, also when streams deliver nothing.                   *)
MeasurementEnds == pc = "setup" ~> pc = "idle"
=============================================================================
