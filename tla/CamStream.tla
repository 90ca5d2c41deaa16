----------------------------- MODULE CamStream -----------------------------
(***************************************************************************)
(* One sample stream of a measurement in the C++ programs: the receiver    *)
(* thread (CUDPServer::Handler, CCamServer::OnRead) writes packets into a  *)
(* ring, the evaluation thread (CDataEvaluation) takes the samples out of  *)
(* them, and the caller stops both (APDCAM_Wait, APDCAM_Stop).             *)
(*                                                                         *)
(* The octets of the stream (CC_OCTET_SIZE bytes each, the unit of packets *)
(* and of padded sample blocks) are numbered from 1. An octet that lies in *)
(* a buffer is this number, or 0 for the zeros put in for a lost packet.   *)
(***************************************************************************)
EXTENDS Integers, Sequences, FiniteSets

CONSTANTS
  MaxPacketNo,      \* packets the ring holds
  signalFrequency,  \* argument of APDCAM_ARM
  MinFrequency,     \* 100 in APDCAM_ARM
  PacketOctets,     \* m_ADCPacketSize, the data of a packet
  BlockOctets,      \* m_PaddedBlockSize, one sample of all channels
  StopAt,           \* one-shot mode: samples asked for
  UserSamples,      \* m_UserBufferSizeInSample
  UIntOctets,       \* octets an unsigned int can count the bytes of, 2^29
  MAX_PACKET_LOSS,
  LastPacket,       \* bound: packets the camera sends in cyclic mode
  MaxStrays,        \* bound: packets that come twice, late or from elsewhere
  FaultSets         \* what may go wrong together, see below

(***************************************************************************)
(* loss      a packet does not arrive                                      *)
(* disorder  a packet arrives again, or after later ones                   *)
(* foreign   a packet with another serial number arrives                   *)
(* test      the camera marks packets with UDP_Test_Mode                   *)
(* overrun   the receiver overwrites packets that were not evaluated yet,  *)
(*           though not the one just being evaluated                       *)
(***************************************************************************)
AllFaults == {"loss", "disorder", "foreign", "test", "overrun"}

ASSUME StreamAssumption ==
  /\ MaxPacketNo \in Nat \ {0} /\ signalFrequency \in Nat /\ MinFrequency \in Nat \ {0}
  /\ PacketOctets \in Nat \ {0} /\ BlockOctets \in Nat \ {0}
  /\ StopAt \in Nat \ {0} /\ UserSamples \in Nat /\ StopAt <= UserSamples
  /\ UIntOctets \in Nat \ {0} /\ MAX_PACKET_LOSS \in Nat /\ LastPacket \in Nat /\ MaxStrays \in Nat
  /\ FaultSets \subseteq SUBSET AllFaults

Lesser(a, b)  == IF a <= b THEN a ELSE b
Greater(a, b) == IF a <= b THEN b ELSE a

(* APDCAM_ARM asks for at least 100 packets between two signals,           *)
(* SetSignalFrequency allows half a ring.                                  *)
SignalFrequency ==
  Lesser(Greater(Lesser(signalFrequency, MaxPacketNo \div 4), MinFrequency),
         MaxPacketNo \div 2)

(* SetNotification takes an unsigned int: what is left of a longer         *)
(* measurement is the remainder.                                           *)
RequestedData == (StopAt * BlockOctets) % UIntOctets
DataFits == StopAt * BlockOctets < UIntOctets

(* The camera sends as many packets as hold the samples asked for.         *)
Sends(type) == IF type = "cyclic" THEN LastPacket
               ELSE (StopAt * BlockOctets + PacketOctets - 1) \div PacketOctets

VARIABLES
  faults, type,      \* chosen for the whole behaviour
  session,           \* the caller: what APDCAM_Start and APDCAM_Stop have done
  next,              \* counter of the camera's next packet
  lost,              \* packets that arrived out of order, too late for the ring, or never
  strays,
  ring,              \* m_pBuffer: slot -> packet
  spc,               \* the receiver thread
  PacketCounter, UserData,
  signals,           \* bytes in the pipe of the event dataNotification
  epc,               \* the evaluation thread
  m_PacketNo, packetNo, header,
  ExpectedPacketCounter,
  work,              \* octets in m_WorkBuffer
  Running, SampleCount, SampleIndex,
  user,              \* m_UserBuffer: index -> the octets of a sample
  userNotified       \* the event userNotification

network  == <<faults, type, next, lost, strays>>
receiver == <<ring, spc, PacketCounter, UserData>>
samples  == <<work, Running, SampleCount, SampleIndex, user, userNotified>>
eval     == <<epc, m_PacketNo, packetNo, header, ExpectedPacketCounter>>
vars     == <<network, session, receiver, signals, eval, samples>>

Packet == [own : BOOLEAN, counter : Nat, test : BOOLEAN]
Junk   == [own |-> FALSE, counter |-> 0, test |-> FALSE]   \* memory, or another stream's packet

Slot == 0..(MaxPacketNo - 1)

(* Every variable keeps its type; the work buffer never holds a whole      *)
(* block after a frame was processed.                                      *)
TypeOK ==
  /\ faults \in FaultSets /\ type \in {"one_shot", "cyclic"}
  /\ session \in {"measure", "stopServer", "stopEval", "standby"}
  /\ next \in 1..(Sends(type) + 1) /\ lost \subseteq 1..Sends(type)
  /\ strays \in 0..MaxStrays
  /\ ring \in [Slot -> Packet]
  /\ spc \in {"wait", "read", "exited", "crash"}
  /\ PacketCounter \in Nat /\ UserData \in Nat /\ signals \in Nat
  /\ epc \in {"wait", "process", "header", "fill", "frame", "exited", "abort"}
  /\ m_PacketNo \in Nat /\ packetNo \in Nat /\ header \in Nat
  /\ ExpectedPacketCounter \in Nat
  /\ work \in Seq(Nat) /\ Len(work) < BlockOctets
  /\ Running \in BOOLEAN /\ userNotified \in BOOLEAN
  /\ SampleCount \in Nat /\ SampleIndex \in 0..(UserSamples - 1)
  /\ user \in [0..(UserSamples - 1) -> Seq(Nat)]

(* APDCAM_ARM and APDCAM_Start have been called.                           *)
Init ==
  /\ faults \in FaultSets /\ type \in {"one_shot", "cyclic"}
  /\ session = "measure"
  /\ next = 1 /\ lost = {} /\ strays = 0
  /\ ring = [s \in Slot |-> Junk] /\ spc = "wait"
  /\ PacketCounter = 0 /\ UserData = 0 /\ signals = 0
  /\ epc = "wait" /\ m_PacketNo = 0 /\ packetNo = 0 /\ header = 0
  /\ ExpectedPacketCounter = 1
  /\ work = <<>> /\ Running = TRUE
  /\ SampleCount = 0 /\ SampleIndex = 0
  /\ user = [i \in 0..(UserSamples - 1) |-> <<>>]
  /\ userNotified = FALSE

(* The process ends with exit(1) of the evaluation thread or on a signal.  *)
Alive == epc # "abort" /\ spc # "crash"

-----------------------------------------------------------------------------
(* The network.                                                            *)

Lose ==
  /\ Alive
  /\ "loss" \in faults
  /\ next <= Sends(type)
  /\ lost' = lost \cup {next}
  /\ next' = next + 1
  /\ UNCHANGED <<faults, type, strays, session, receiver, signals, eval, samples>>

WriteSlot == PacketCounter % MaxPacketNo

(* The slot that is written next holds nothing the evaluation still needs. *)
Room == PacketCounter - m_PacketNo < MaxPacketNo

MayWrite ==
  \/ Room
  \/ "overrun" \in faults /\ ~(epc \in {"fill", "frame"} /\ m_PacketNo % MaxPacketNo = WriteSlot)

(* ReadData writes the packet into the ring before anything is known of it.*)
Receive(p) ==
  /\ Alive
  /\ spc = "wait"
  /\ session \in {"measure", "stopServer"}
  /\ MayWrite
  /\ ring' = [ring EXCEPT ![WriteSlot] = p]
  /\ spc' = "read"
  /\ UNCHANGED <<session, PacketCounter, UserData, signals, eval, samples>>

(* What is overwritten before it was evaluated counts as lost.             *)
Overwritten == IF Room \/ ~ring[WriteSlot].own THEN {} ELSE {ring[WriteSlot].counter}

ReceiveNext ==
  /\ next <= Sends(type)
  /\ \E t \in {FALSE} \cup (IF "test" \in faults THEN {TRUE} ELSE {}) :
       Receive([own |-> TRUE, counter |-> next, test |-> t])
  /\ next' = next + 1
  /\ lost' = lost \cup Overwritten
  /\ UNCHANGED <<faults, type, strays>>

ReceiveStray ==
  /\ strays < MaxStrays
  /\ strays' = strays + 1
  /\ \/ /\ "disorder" \in faults
        /\ \E c \in 1..(next - 1) : Receive([own |-> TRUE, counter |-> c, test |-> FALSE])
     \/ "foreign" \in faults /\ Receive(Junk)
  /\ lost' = lost \cup Overwritten
  /\ UNCHANGED <<faults, type, next>>

-----------------------------------------------------------------------------
(* OnRead after ReadData.                                                  *)

Received == ring[WriteSlot]

Signalling == (PacketCounter + 1) % SignalFrequency = 0

Reject ==
  /\ Alive /\ spc = "read"
  /\ ~Received.own
  /\ spc' = "wait"
  /\ UNCHANGED <<network, session, ring, PacketCounter, UserData, signals, eval, samples>>

CountTest ==
  /\ Alive /\ spc = "read"
  /\ Received.own /\ Received.test
  /\ PacketCounter' = PacketCounter + 1
  /\ spc' = "wait"
  /\ UNCHANGED <<network, session, ring, UserData, signals, eval, samples>>

(* Mutant: the end of the requested data is not signalled.                 *)
CountOneShot_NoEnd ==
  /\ Alive /\ spc = "read"
  /\ Received.own /\ ~Received.test /\ type = "one_shot"
  /\ IF UserData >= RequestedData
     THEN UNCHANGED <<PacketCounter, UserData, signals>>
     ELSE /\ PacketCounter' = PacketCounter + 1
          /\ UserData' = UserData + PacketOctets
          /\ signals' = IF Signalling THEN signals + 1 ELSE signals
  /\ spc' = "wait"
  /\ UNCHANGED <<network, session, ring, eval, samples>>

CountOneShot ==
  /\ Alive /\ spc = "read"
  /\ Received.own /\ ~Received.test /\ type = "one_shot"
  /\ IF UserData >= RequestedData
     THEN UNCHANGED <<PacketCounter, UserData, signals>> /\ spc' = "wait"
     ELSE /\ PacketCounter' = PacketCounter + 1
          /\ UserData' = UserData + PacketOctets
          /\ \/ /\ UserData' >= RequestedData
                /\ signals' = signals + 1 /\ spc' = "wait"
             \/ /\ UserData' < RequestedData /\ SignalFrequency > 0
                /\ signals' = (IF Signalling THEN signals + 1 ELSE signals) /\ spc' = "wait"
             \/ /\ UserData' < RequestedData /\ SignalFrequency = 0  \* division by zero
                /\ signals' = signals /\ spc' = "crash"
  /\ UNCHANGED <<network, session, ring, eval, samples>>

CountCyclic ==
  /\ Alive /\ spc = "read"
  /\ Received.own /\ ~Received.test /\ type = "cyclic"
  /\ PacketCounter' = PacketCounter + 1
  /\ UserData' = UserData + PacketOctets
  /\ IF SignalFrequency = 0
     THEN signals' = signals /\ spc' = "crash"
     ELSE signals' = (IF Signalling THEN signals + 1 ELSE signals) /\ spc' = "wait"
  /\ UNCHANGED <<network, session, ring, eval, samples>>

(* The close request; OnStop signals what is left in the ring.             *)
ServerExit ==
  /\ Alive /\ spc = "wait"
  /\ session = "stopServer"
  /\ spc' = "exited"
  /\ signals' = signals + 1
  /\ session' = "stopEval"
  /\ UNCHANGED <<network, ring, PacketCounter, UserData, eval, samples>>

-----------------------------------------------------------------------------
(* The evaluation thread.                                                  *)

(* Mutant: the event is not reset.                                         *)
Wake_NoReset ==
  /\ Alive /\ epc = "wait"
  /\ signals > 0
  /\ epc' = "process"
  /\ UNCHANGED <<network, session, receiver, signals, m_PacketNo, packetNo, header,
                 ExpectedPacketCounter, samples>>

(* The data signal comes before the exit signal in WaitAny.                *)
Wake ==
  /\ Alive /\ epc = "wait"
  /\ signals > 0
  /\ signals' = signals - 1
  /\ epc' = "process"
  /\ UNCHANGED <<network, session, receiver, m_PacketNo, packetNo, header,
                 ExpectedPacketCounter, samples>>

(* Mutant: the exit signal comes first.                                    *)
EvalExit_Now ==
  /\ Alive /\ epc = "wait"
  /\ session = "stopEval"
  /\ epc' = "exited"
  /\ session' = "standby"
  /\ UNCHANGED <<network, receiver, signals, m_PacketNo, packetNo, header,
                 ExpectedPacketCounter, samples>>

EvalExit ==
  /\ Alive /\ epc = "wait"
  /\ session = "stopEval" /\ signals = 0
  /\ epc' = "exited"
  /\ session' = "standby"
  /\ UNCHANGED <<network, receiver, signals, m_PacketNo, packetNo, header,
                 ExpectedPacketCounter, samples>>

ProcessData ==
  /\ Alive /\ epc = "process"
  /\ packetNo' = PacketCounter
  /\ IF m_PacketNo = 0 /\ PacketCounter > 0
     THEN /\ epc' = IF ring[0].own THEN "header" ELSE "wait"
          /\ ExpectedPacketCounter' = IF ring[0].own THEN 1 ELSE ExpectedPacketCounter
     ELSE epc' = "header" /\ UNCHANGED ExpectedPacketCounter
  /\ UNCHANGED <<network, session, receiver, signals, m_PacketNo, header, samples>>

(* The packet expected, or one after a gap that may be filled with zeros.  *)
InOrder(counter) ==
  /\ counter >= ExpectedPacketCounter
  /\ counter - ExpectedPacketCounter - 1 <= MAX_PACKET_LOSS

Packet0 == ring[m_PacketNo % MaxPacketNo]

ReadHeader ==
  /\ Alive /\ epc = "header"
  /\ header' = Packet0.counter
  /\ \/ /\ m_PacketNo >= packetNo
        /\ epc' = "wait" /\ UNCHANGED <<m_PacketNo, work>>
     \/ /\ m_PacketNo < packetNo /\ ~Packet0.own     \* another serial number
        /\ epc' = "wait" /\ work' = <<>> /\ UNCHANGED m_PacketNo
     \/ /\ m_PacketNo < packetNo /\ Packet0.own
        /\ ~InOrder(Packet0.counter)
        /\ m_PacketNo' = m_PacketNo + 1
        /\ epc' = "abort" /\ work' = <<>>            \* m_ContinuityError, exit(1)
     \/ /\ m_PacketNo < packetNo /\ Packet0.own
        /\ InOrder(Packet0.counter)
        /\ epc' = "fill" /\ UNCHANGED <<m_PacketNo, work>>
  /\ UNCHANGED <<network, session, receiver, signals, packetNo, ExpectedPacketCounter,
                 Running, SampleCount, SampleIndex, user, userNotified>>

(* Mutant: the ring of samples has no end.                                 *)
IndexAfter_NoWrap(n) == SampleIndex + n

IndexAfter(n) == (SampleIndex + n) % UserSamples

(* ProcessFrame and, for every block it completes, ProcessBlock: blocks    *)
(* are counted on after the last one asked for, but no longer stored.      *)
ProcessFrame(octets) ==
  IF ~Running THEN UNCHANGED samples
  ELSE LET data   == work \o octets
           blocks == Len(data) \div BlockOctets
           stored == IF type = "one_shot" THEN Lesser(blocks, StopAt - SampleCount) ELSE blocks
           Block(b) == SubSeq(data, (b - 1) * BlockOctets + 1, b * BlockOctets)
       IN  /\ work' = SubSeq(data, blocks * BlockOctets + 1, Len(data))
           /\ SampleCount' = SampleCount + blocks
           /\ SampleIndex' = IndexAfter(stored)
           /\ user' = [i \in DOMAIN user |->
                LET b == stored - ((SampleIndex + stored - 1 - i) % UserSamples)   \* the last one there
                IN  IF b >= 1 THEN Block(b) ELSE user[i]]
           /\ Running' = (type = "cyclic" \/ SampleCount + blocks < StopAt)
           /\ userNotified' = (userNotified \/ ~Running')

Zeros == [i \in 1..PacketOctets |-> 0]

(* Mutant: the zeros are put in without counting the packets.              *)
Fill_OnePacket ==
  /\ Alive /\ epc = "fill"
  /\ IF ExpectedPacketCounter < header
     THEN /\ ProcessFrame(Zeros)
          /\ ExpectedPacketCounter' = header
          /\ UNCHANGED epc
     ELSE epc' = "frame" /\ UNCHANGED <<ExpectedPacketCounter, samples>>
  /\ UNCHANGED <<network, session, receiver, signals, m_PacketNo, packetNo, header>>

Fill ==
  /\ Alive /\ epc = "fill"
  /\ IF ExpectedPacketCounter < header
     THEN /\ ProcessFrame(Zeros)
          /\ ExpectedPacketCounter' = ExpectedPacketCounter + 1
          /\ UNCHANGED epc
     ELSE epc' = "frame" /\ UNCHANGED <<ExpectedPacketCounter, samples>>
  /\ UNCHANGED <<network, session, receiver, signals, m_PacketNo, packetNo, header>>

(* The octets in the slot now.                                             *)
Payload == [i \in 1..PacketOctets |-> (Packet0.counter - 1) * PacketOctets + i]

Frame ==
  /\ Alive /\ epc = "frame"
  /\ ProcessFrame(Payload)
  /\ m_PacketNo' = m_PacketNo + 1
  /\ ExpectedPacketCounter' = ExpectedPacketCounter + 1
  /\ epc' = "header"
  /\ UNCHANGED <<network, session, receiver, signals, packetNo, header>>

-----------------------------------------------------------------------------
(* APDCAM_Wait returns, with the notification or without it; APDCAM_Stop.  *)
Stop ==
  /\ Alive
  /\ session = "measure"
  /\ session' = "stopServer"
  /\ UNCHANGED <<network, receiver, signals, eval, samples>>

OnRead == Reject \/ CountTest \/ CountOneShot \/ CountCyclic

Evaluate == Wake \/ ProcessData \/ ReadHeader \/ Fill \/ Frame \/ EvalExit

Next ==
  \/ Lose \/ ReceiveNext \/ ReceiveStray \/ OnRead \/ ServerExit
  \/ Evaluate \/ Stop

Spec == Init /\ [][Next]_vars

(* The threads are scheduled; a packet in the socket's queue is not        *)
(* overtaken for ever.                                                     *)
FairSpec ==
  /\ Spec
  /\ WF_vars(OnRead) /\ WF_vars(ServerExit) /\ WF_vars(Evaluate)
  /\ SF_vars(ReceiveNext)

-----------------------------------------------------------------------------
(* Properties.                                                             *)

Stored == IF type = "one_shot" THEN Lesser(SampleCount, StopAt) ELSE SampleCount

PacketOf(octet) == (octet - 1) \div PacketOctets + 1

(* The samples in the user buffer are in the camera's order, each octet in *)
(* its place, and only octets of packets that were lost are zero, although *)
(* blocks span packets, packets are lost, come twice, late or from another *)
(* stream, and are overwritten in the ring; as long as the bytes asked for *)
(* fit into an unsigned int (DataFits).                                    *)
StoredInOrder ==
  \A j \in Greater(1, Stored - UserSamples + 1)..Stored :
    LET block == user[(j - 1) % UserSamples] IN
    /\ Len(block) = BlockOctets
    /\ \A k \in 1..BlockOctets :
         LET octet == (j - 1) * BlockOctets + k IN
         block[k] = octet \/ (block[k] = 0 /\ PacketOf(octet) \in lost)

(* While the evaluation sleeps with no signal for it, fewer packets wait   *)
(* in the ring than lie between two signals, and none when a one-shot      *)
(* measurement has all its data. Test packets are not signalled.           *)
NoLostWakeup ==
  Alive /\ epc = "wait" /\ signals = 0 /\ "test" \notin faults =>
    /\ PacketCounter - m_PacketNo < SignalFrequency
    /\ type = "one_shot" /\ UserData >= RequestedData => m_PacketNo = PacketCounter

(* After APDCAM_Stop every packet the receiver has counted was evaluated.  *)
NothingLeft == session = "standby" => m_PacketNo = PacketCounter

(* A one-shot measurement in which every packet arrives, once, tells the   *)
(* caller that it has all its samples, if their number of bytes fits into  *)
(* an unsigned int.                                                        *)
MeasurementEnds ==
  (session = "measure" /\ type = "one_shot" /\ faults = {} /\ DataFits)
    ~> (userNotified \/ session # "measure")

(* APDCAM_Stop returns, unless the process has ended.                      *)
StopReturns == session = "stopServer" ~> (session = "standby" \/ ~Alive)
=============================================================================
