------------------------ MODULE NativeReceiverProofs ------------------------
(***************************************************************************)
(* Proofs about NativeReceiver: types; that what is read belongs to the    *)
(* measurement and to its ADC; and that without an incident less than a    *)
(* packet of an ADC's data is missing.                                     *)
(***************************************************************************)
EXTENDS NativeReceiver, FiniteSetTheorems, TLAPS

(* Places of measure() by what has been done before them.                  *)
Prepared == {"arrays", "receive", "stop", "start", "data", "stopStream", "stopReceive"}
Closed   == {"idle", "setup", "network", "allocate", "arrays"}
Unread   == {"setup", "network", "allocate", "arrays", "receive", "stop", "start"}
Opened   == {"stop", "start", "data", "stopStream", "stopReceive"}

(* The packets of the camera have room for an octet at least: the size is  *)
(* looked at before it is sent to the camera.  Sockets are opened where    *)
(* arrays could be made.                                                   *)
RoomInv ==
  /\ pc \in Prepared => octet >= 1
  /\ pc \in Opened \cup {"receive"} => ~ArrayError
  /\ \A s \in Stream : octets[s] >= 1

TypeInv == TypeOK /\ RoomInv

-----------------------------------------------------------------------------
(* Arithmetic.                                                             *)

LEMMA Quotient ==
  ASSUME NEW a \in Nat, NEW b \in Nat \ {0}
  PROVE  a \div b \in Nat /\ CeilDiv(a, b) \in Nat
  BY DEF CeilDiv

(* What is missing of a when the full parts of b are there, or all parts.  *)
LEMMA Rest ==
  ASSUME NEW a \in Nat, NEW c \in Nat, NEW b \in Nat \ {0}, NEW n \in Nat, a <= c,
         n >= c \div b \/ n >= CeilDiv(a, b)
  PROVE  a - n * b < b
  <1>1. CASE n >= c \div b
    <2> DEFINE q == c \div b
    <2>1. q \in Nat /\ c < q * b + b
      OBVIOUS
    <2>2. n * b >= q * b
      <3>1. (n - q) \in Nat
        BY <1>1, <2>1
      <3>2. (n - q) * b \in Nat /\ (n - q) * b = n * b - q * b
        BY <2>1, <3>1
      <3>3. n * b \in Nat /\ q * b \in Nat
        BY <2>1
      <3>4. QED
        BY <3>2, <3>3
    <2>3. n * b \in Nat /\ q * b \in Nat
      BY <2>1
    <2>4. QED
      BY <2>1, <2>2, <2>3
  <1>2. CASE n >= CeilDiv(a, b)
    <2> DEFINE q == (a + b - 1) \div b
    <2>1. q \in Nat /\ a + b - 1 < q * b + b
      OBVIOUS
    <2>2. n * b >= q * b
      <3>1. (n - q) \in Nat
        BY <1>2, <2>1 DEF CeilDiv
      <3>2. (n - q) * b \in Nat /\ (n - q) * b = n * b - q * b
        BY <2>1, <3>1
      <3>3. n * b \in Nat /\ q * b \in Nat
        BY <2>1
      <3>4. QED
        BY <3>2, <3>3
    <2>3. n * b \in Nat /\ q * b \in Nat
      BY <2>1
    <2>4. QED
      BY <2>1, <2>2, <2>3
  <1>3. QED
    BY <1>1, <1>2

LEMMA Products ==
  ASSUME NEW a \in Nat, NEW b \in Nat
  PROVE  a * b \in Nat /\ (b # 0 => b * 8 \in Nat \ {0})
  OBVIOUS

LEMMA Multiples ==
  ASSUME NEW a \in Nat, NEW b \in Nat, NEW n \in Nat, a <= b
  PROVE  a * n <= b * n
  <1>1. (b - a) \in Nat
    OBVIOUS
  <1>2. (b - a) * n \in Nat /\ (b - a) * n = b * n - a * n
    BY <1>1
  <1>3. a * n \in Nat /\ b * n \in Nat
    OBVIOUS
  <1>4. QED
    BY <1>2, <1>3

LEMMA RoundUpRises ==
  ASSUME NEW m \in Nat, NEW n \in Nat, m <= n
  PROVE  RoundUp(m) \in Nat /\ RoundUp(n) \in Nat /\ RoundUp(m) <= RoundUp(n)
  BY DEF RoundUp, CeilDiv

LEMMA BytesRise ==
  ASSUME req \in Request, NEW f \in [Chip -> Nat], NEW g \in [Chip -> Nat], \A c \in Chip : f[c] <= g[c]
  PROVE  /\ RoundUp(SampleBytes(f)) \in Nat
         /\ RoundUp(SampleBytes(g)) \in Nat
         /\ RoundUp(SampleBytes(f)) <= RoundUp(SampleBytes(g))
  <1> DEFINE F(c) == CeilDiv(req.bits * f[c], 8)
             G(c) == CeilDiv(req.bits * g[c], 8)
  <1>1. ASSUME NEW c \in Chip PROVE F(c) \in Nat /\ G(c) \in Nat /\ F(c) <= G(c)
    <2>1. f[c] \in Nat /\ g[c] \in Nat /\ f[c] <= g[c]
      OBVIOUS
    <2>2. req.bits \in {8, 12, 14}
      BY DEF Request
    <2>3. CASE req.bits = 8
      BY <2>1, <2>3 DEF CeilDiv
    <2>4. CASE req.bits = 12
      BY <2>1, <2>4 DEF CeilDiv
    <2>5. CASE req.bits = 14
      BY <2>1, <2>5 DEF CeilDiv
    <2>6. QED
      BY <2>2, <2>3, <2>4, <2>5
  <1>2. SampleBytes(f) = F(0) + F(1) + F(2) + F(3) /\ SampleBytes(g) = G(0) + G(1) + G(2) + G(3)
    BY DEF SampleBytes
  <1> HIDE DEF F, G
  <1>3. 0 \in Chip /\ 1 \in Chip /\ 2 \in Chip /\ 3 \in Chip
    BY DEF Chip
  <1>4. SampleBytes(f) \in Nat /\ SampleBytes(g) \in Nat /\ SampleBytes(f) <= SampleBytes(g)
    BY <1>1, <1>2, <1>3
  <1>5. QED
    BY <1>4, RoundUpRises

(* A mask has no more channels than its highest one says.                  *)
LEMMA MaskBits ==
  ASSUME NEW m \in SUBSET (0..7)
  PROVE  Cardinality(m) \in Nat /\ bit_length(m) \in Nat /\ Cardinality(m) <= bit_length(m)
  <1>1. CASE m = {}
    BY <1>1, FS_EmptySet DEF bit_length
  <1>2. CASE m # {}
    <2>1. \E x \in m : \A y \in m : x >= y
      <3>1. ASSUME NEW h \in 0..7, h \in m, \A y \in m : y <= h PROVE \E x \in m : \A y \in m : x >= y
        BY <3>1
      <3>2. CASE \E h \in 0..7 : h \in m /\ \A y \in m : y <= h
        BY <3>1, <3>2
      <3>3. CASE ~\E h \in 0..7 : h \in m /\ \A y \in m : y <= h
        <4>1. 7 \notin m
          BY <3>3
        <4>2. 6 \notin m
          BY <3>3, <4>1
        <4>3. 5 \notin m
          BY <3>3, <4>1, <4>2
        <4>4. 4 \notin m
          BY <3>3, <4>1, <4>2, <4>3
        <4>5. 3 \notin m
          BY <3>3, <4>1, <4>2, <4>3, <4>4
        <4>6. 2 \notin m
          BY <3>3, <4>1, <4>2, <4>3, <4>4, <4>5
        <4>7. 1 \notin m
          BY <3>3, <4>1, <4>2, <4>3, <4>4, <4>5, <4>6
        <4>8. 0 \notin m
          BY <3>3, <4>1, <4>2, <4>3, <4>4, <4>5, <4>6, <4>7
        <4>9. \A y \in 0..7 : y \notin m
          <5>1. \A y \in 0..7 : y \in {0, 1, 2, 3, 4, 5, 6, 7}
            OBVIOUS
          <5>2. QED
            BY <4>1, <4>2, <4>3, <4>4, <4>5, <4>6, <4>7, <4>8, <5>1
        <4>10. QED
          BY <1>2, <4>9
      <3>4. QED
        BY <3>2, <3>3
    <2>2. Max(m) \in m /\ \A y \in m : Max(m) >= y
      BY <2>1 DEF Max
    <2>3. Max(m) \in Nat /\ m \subseteq 0..Max(m)
      <3>1. Max(m) \in 0..7 /\ \A y \in m : y \in 0..7 /\ Max(m) >= y
        BY <2>2
      <3> DEFINE h == Max(m)
      <3>2. h \in 0..7 /\ \A y \in m : y \in 0..7 /\ h >= y
        BY <3>1
      <3> HIDE DEF h
      <3>3. h \in Nat /\ m \subseteq 0..h
        BY <3>2
      <3>4. QED
        BY <3>3 DEF h
    <2>4. IsFiniteSet(0..Max(m)) /\ Cardinality(0..Max(m)) = Max(m) + 1
      <3>1. 0 \in Int /\ Max(m) \in Int /\ ~(0 > Max(m))
        BY <2>3
      <3>2. Cardinality(0..Max(m)) = Max(m) - 0 + 1 /\ IsFiniteSet(0..Max(m))
        BY <3>1, FS_Interval
      <3>3. QED
        BY <2>3, <3>2
    <2>5. IsFiniteSet(m) /\ Cardinality(m) <= Cardinality(0..Max(m))
      BY <2>3, <2>4, FS_Subset
    <2>6. QED
      BY <1>2, <2>3, <2>4, <2>5, FS_CardinalityType DEF bit_length
  <1>3. QED
    BY <1>1, <1>2

(* The camera sends no more of a sample than is waited for.                *)
LEMMA SampleSizes ==
  ASSUME req \in Request, NEW a \in Adc
  PROVE  /\ RoundUp(SampleBytes(Sent(a))) \in Nat
         /\ RoundUp(SampleBytes(Expected(a))) \in Nat
         /\ RoundUp(SampleBytes(Sent(a))) <= RoundUp(SampleBytes(Expected(a)))
  <1>1. \A c \in Chip : req.mask[a][c] \in SUBSET (0..7)
    BY DEF Request
  <1>2. /\ Sent(a) \in [Chip -> Nat] /\ Expected(a) \in [Chip -> Nat]
        /\ \A c \in Chip : Sent(a)[c] <= Expected(a)[c]
    BY <1>1, MaskBits DEF Sent, Expected
  <1>3. QED
    BY <1>2, BytesRise

LEMMA AdcIsAdc == ASSUME NEW s \in Stream, NEW dual \in BOOLEAN PROVE AdcOf(s, dual) \in Adc
  BY DEF AdcOf, Stream, Adc

LEMMA PacketsAreNat ==
  ASSUME req \in Request, NEW s \in Stream, NEW dual \in BOOLEAN, NEW count \in Nat, NEW size \in Nat \ {0}
  PROVE  CameraPackets(s, dual, count, size) \in Nat
  <1>1. RoundUp(SampleBytes(Sent(AdcOf(s, dual)))) \in Nat
    BY AdcIsAdc, SampleSizes
  <1>2. RoundUp(SampleBytes(Sent(AdcOf(s, dual)))) * count \in Nat /\ size * 8 \in Nat \ {0}
    BY <1>1, Products
  <1>3. CeilDiv(RoundUp(SampleBytes(Sent(AdcOf(s, dual)))) * count, size * 8) \in Nat
    BY <1>2, Quotient
  <1>4. QED
    BY <1>3, NativeAssumption DEF CameraPackets

-----------------------------------------------------------------------------
(* Commands.                                                               *)

Sends(u) == Arrives(u) \/ Lost \/ Refused(u)

LEMMA EmptyIsCommands == Empty \in Commands
  BY NativeAssumption DEF Empty, Commands

LEMMA RoomIsInt == ASSUME TypeInv PROVE octet \in Int
  <1>1. MTU \in Nat
    BY DEF TypeInv, TypeOK
  <1>2. QED
    BY <1>1 DEF octet

(* What is sent is a packet, whatever has been collected in it.            *)
LEMMA Collected ==
  ASSUME TypeInv
  PROVE  /\ UDP_data \in Commands
         /\ [UDP_data EXCEPT !.count = TRUE] \in Commands
         /\ [UDP_data EXCEPT !.stop = TRUE] \in Commands
         /\ [UDP_data EXCEPT !.start = measured] \in Commands
         /\ \A b \in BOOLEAN : [UDP_data EXCEPT !.sata = {b}] \in Commands
         /\ cur \in Stream /\ octet >= 1 => [UDP_data EXCEPT !.octets[cur] = octet] \in Commands
  <1>1. UDP_data \in Commands /\ measured \in 0..MaxMeasure
    BY DEF TypeInv, TypeOK
  <1>2. cur \in Stream /\ octet >= 1 => [UDP_data EXCEPT !.octets[cur] = octet] \in Commands
    <2>1. SUFFICES ASSUME cur \in Stream, octet >= 1
                   PROVE  [UDP_data EXCEPT !.octets[cur] = octet] \in Commands
      OBVIOUS
    <2>2. octet \in Nat
      BY <2>1, RoomIsInt
    <2>3. [UDP_data.octets EXCEPT ![cur] = octet] \in [Stream -> Nat]
      BY <1>1, <2>2 DEF Commands
    <2>4. QED
      BY <1>1, <2>3 DEF Commands
  <1>3. \A b \in BOOLEAN : [UDP_data EXCEPT !.sata = {b}] \in Commands
    BY <1>1 DEF Commands
  <1>4. QED
    BY <1>1, <1>2, <1>3 DEF Commands

LEMMA Zeros == 0 \in 0..4 /\ [s \in Stream |-> 0] \in [Stream -> Nat]
  OBVIOUS

(* The types of what a packet changes, and of what remains to be sent.     *)
LEMMA SendTypes ==
  ASSUME TypeInv, NEW u \in Commands, Sends(u)
  PROVE  /\ sata' \in BOOLEAN /\ samples' \in {0, sample_number} /\ on' \subseteq Stream
         /\ octets' \in [Stream -> Nat] /\ (\A s \in Stream : octets'[s] >= 1)
         /\ left' \in [Stream -> Nat] /\ started' \in 0..MaxMeasure
         /\ UDP_data' \in Commands /\ stopped' \in BOOLEAN
  <1>0. /\ sata \in BOOLEAN /\ samples \in {0, sample_number} /\ on \subseteq Stream
        /\ octets \in [Stream -> Nat] /\ (\A s \in Stream : octets[s] >= 1)
        /\ left \in [Stream -> Nat] /\ started \in 0..MaxMeasure /\ stopped \in BOOLEAN
    BY DEF TypeInv, TypeOK, RoomInv
  <1>1. CASE Execute(u) /\ UDP_data' = Empty
    <2>1. /\ u.count \in BOOLEAN /\ u.octets \in [Stream -> Nat] /\ u.stop \in BOOLEAN
          /\ u.start \in 0..MaxMeasure /\ u.sata \in SUBSET BOOLEAN
      BY DEF Commands
    <2>2. samples' \in {0, sample_number} /\ sata' \in BOOLEAN
      <3>1. samples' = sample_number \/ samples' = samples
        BY <1>1 DEF Execute
      <3>2. sata' \in BOOLEAN
        BY <1>0, <1>1, <2>1 DEF Execute
      <3>3. samples' \in {0, sample_number}
        BY <1>0, <3>1
      <3>4. QED
        BY <3>2, <3>3
    <2>3. octets' \in [Stream -> Nat] /\ (\A s \in Stream : octets'[s] >= 1)
      <3>1. octets' = [s \in Stream |-> IF u.octets[s] = 0 THEN octets[s] ELSE u.octets[s]]
        BY <1>1 DEF Execute
      <3>2. ASSUME NEW s \in Stream PROVE octets'[s] \in Nat /\ octets'[s] >= 1
        <4>1. u.octets[s] \in Nat /\ octets[s] \in Nat /\ octets[s] >= 1
          BY <1>0, <2>1
        <4>2. QED
          BY <3>1, <4>1
      <3>3. QED
        BY <3>1, <3>2
    <2>4. ASSUME NEW s \in Stream PROVE CameraPackets(s, sata', samples', octets'[s]) \in Nat
      <3>1. samples' \in Nat /\ octets'[s] \in Nat \ {0}
        BY <2>2, <2>3, NativeAssumption
      <3>2. req \in Request
        BY DEF TypeInv, TypeOK
      <3>3. QED
        BY <2>2, <3>1, <3>2, PacketsAreNat
    <2>5. left' \in [Stream -> Nat]
      <3>1. \/ left' = [s \in Stream |-> CameraPackets(s, sata', samples', octets'[s])]
            \/ left' = [s \in Stream |-> 0] \/ left' = left
        BY <1>1 DEF Execute
      <3>2. CASE left' = [s \in Stream |-> CameraPackets(s, sata', samples', octets'[s])]
        BY <2>4, <3>2
      <3>3. QED
        BY <1>0, <3>1, <3>2, Zeros
    <2>6. on' \subseteq Stream /\ started' \in 0..MaxMeasure /\ stopped' \in BOOLEAN
      BY <1>0, <1>1, <2>1 DEF Execute
    <2>7. QED
      BY <1>1, <2>2, <2>3, <2>5, <2>6, EmptyIsCommands
  <1>2. CASE Lost
    BY <1>0, <1>2, EmptyIsCommands DEF Lost, camera
  <1>3. CASE Refused(u)
    <2>1. UDP_data' \in {u, Empty} /\ stopped' \in BOOLEAN /\ UNCHANGED camera
      BY <1>0, <1>3 DEF Refused
    <2>2. QED
      BY <1>0, <2>1, EmptyIsCommands DEF camera
  <1>4. QED
    BY <1>1, <1>2, <1>3 DEF Sends, Arrives

-----------------------------------------------------------------------------
(* Types.                                                                  *)

LEMMA TypeNothing == Nothing \in [Stream -> Seq(Packet)]
  BY DEF Nothing

LEMMA TypeInit == Init => TypeInv
  <1> SUFFICES ASSUME Init PROVE TypeInv
    OBVIOUS
  <1>1. MTU \in Nat /\ req \in Request
    BY NativeAssumption DEF Init
  <1>2. octets \in [Stream -> Nat] /\ \A s \in Stream : octets[s] >= 1
    <2>1. DefaultOctets \in Nat /\ DefaultOctets >= 1
      BY NativeAssumption
    <2>2. QED
      BY <2>1 DEF Init
  <1>3. 0 \in 0..MaxMeasure
    BY NativeAssumption
  <1>4. adcs \in 1..4 /\ sata \in BOOLEAN
    BY NativeAssumption DEF Init
  <1>5. left \in [Stream -> Nat] /\ cur \in 0..4 /\ samples \in {0, sample_number}
    <2>1. left = [s \in Stream |-> 0] /\ cur = 0 /\ samples = 0
      BY DEF Init
    <2>2. QED
      BY <2>1
  <1>6. TypeOK
    BY <1>1, <1>2, <1>3, <1>4, <1>5, TypeNothing, EmptyIsCommands DEF Init, TypeOK, Place
  <1>7. QED
    BY <1>2, <1>6 DEF Init, TypeInv, RoomInv, Prepared, Opened

(* What follows from what the measurement is about.                        *)
LEMMA SameAsked ==
  ASSUME UNCHANGED asked
  PROVE  /\ octet' = octet /\ stream_list' = stream_list
         /\ \A s \in Stream : stream_adc(s)' = stream_adc(s)
         /\ \A a : packets_per_adc(a)' = packets_per_adc(a)
         /\ \A s, d, n, k : CameraPackets(s, d, n, k)' = CameraPackets(s, d, n, k)
         /\ ArrayError' <=> ArrayError
  <1> USE DEF asked
  <1>1. octet' = octet /\ stream_list' = stream_list /\ \A s \in Stream : stream_adc(s)' = stream_adc(s)
    BY DEF octet, stream_list, StreamsOf, stream_adc, AdcOf
  <1>2. ASSUME NEW f PROVE SampleBytes(f)' = SampleBytes(f)
    BY DEF SampleBytes
  <1>3. \A a : Expected(a)' = Expected(a) /\ Sent(a)' = Sent(a)
    BY DEF Expected, Sent
  <1>4. ASSUME NEW a PROVE SampleBytes(Expected(a))' = SampleBytes(Expected(a))
    BY <1>3 DEF SampleBytes
  <1>5. ASSUME NEW a PROVE SampleBytes(Sent(a))' = SampleBytes(Sent(a))
    BY <1>3 DEF SampleBytes
  <1>6. \A a : packets_per_adc(a)' = packets_per_adc(a)
    BY <1>1, <1>4 DEF packets_per_adc, RoundUp
  <1>7. ASSUME NEW s, NEW d, NEW n, NEW k PROVE CameraPackets(s, d, n, k)' = CameraPackets(s, d, n, k)
    BY <1>5 DEF CameraPackets, StreamsOf, AdcOf, RoundUp
  <1>8. ArrayError' <=> ArrayError
    BY <1>4 DEF ArrayError, Float, stream_list, stream_adc, StreamsOf, AdcOf
  <1>9. QED
    BY <1>1, <1>6, <1>7, <1>8

LEMMA TypeEmit == ASSUME TypeInv, NEW s \in Stream, Emit(s) PROVE TypeInv'
  <1>1. left' \in [Stream -> Nat]
    <2>1. left \in [Stream -> Nat]
      BY DEF TypeInv, TypeOK
    <2>2. left[s] - 1 \in Nat /\ left' = [left EXCEPT ![s] = left[s] - 1]
      BY <2>1 DEF Emit
    <2>3. QED
      BY <2>1, <2>2
  <1>2. [meas |-> started, adc |-> AdcOf(s, sata)] \in Packet
    <2>1. AdcOf(s, sata) \in 0..3
      BY DEF AdcOf, Stream
    <2>2. QED
      BY <2>1 DEF TypeInv, TypeOK, Packet
  <1>3. buffer' \in [Stream -> Seq(Packet)]
    <2>1. buffer \in [Stream -> Seq(Packet)]
      BY DEF TypeInv, TypeOK
    <2>2. Append(buffer[s], [meas |-> started, adc |-> AdcOf(s, sata)]) \in Seq(Packet)
      BY <1>2, <2>1
    <2>3. QED
      BY <2>1, <2>2 DEF Emit
  <1>4. fault' \in BOOLEAN
    BY DEF Emit, TypeInv, TypeOK
  <1>5. octet' = octet /\ (ArrayError' <=> ArrayError)
    BY SameAsked DEF Emit
  <1>6. QED
    BY <1>1, <1>3, <1>4, <1>5 DEF Emit, asked, TypeInv, TypeOK, RoomInv

LEMMA Turn ==
  ASSUME TypeInv
  PROVE  /\ Next4 => cur' \in 0..4
         /\ cur < 4 => cur \in Stream /\ cur + 1 \in 0..4
  <1>1. cur \in 0..4
    BY DEF TypeInv, TypeOK
  <1>2. (cur + 1) % 4 \in 0..3
    BY <1>1
  <1>3. QED
    BY <1>1, <1>2 DEF Next4, Stream

(* The arrays can be made for few ADCs only.                               *)
LEMMA ListIsStreams == ASSUME TypeInv, ~ArrayError PROVE stream_list \subseteq Stream
  <1>1. adcs \in 1..4
    BY DEF TypeInv, TypeOK
  <1>2. CASE dualSATA
    <2>1. ~(adcs > 2)
      BY <1>2 DEF ArrayError
    <2>2. QED
      BY <1>1, <1>2, <2>1 DEF stream_list, StreamsOf, Stream
  <1>3. CASE ~dualSATA
    BY <1>1, <1>3 DEF stream_list, StreamsOf, Stream
  <1>4. QED
    BY <1>2, <1>3

(* A packet is read.                                                       *)
LEMMA ReadOne ==
  ASSUME TypeInv, Recv
  PROVE  /\ cur \in Stream /\ cur \in stream_list /\ cur \in running
         /\ Head(buffer[cur]) \in Packet /\ Tail(buffer[cur]) \in Seq(Packet)
         /\ buffer[cur] \in Seq(Packet) /\ buffer[cur] # <<>>
         /\ got[cur] \in Seq(Packet)
         /\ got' = [got EXCEPT ![cur] = Append(got[cur], Head(buffer[cur]))]
         /\ buffer' = [buffer EXCEPT ![cur] = Tail(buffer[cur])]
  <1>1. cur \in running /\ cur \in stream_list /\ buffer[cur] # <<>>
    BY DEF Recv, Readable
  <1>2. cur \in Stream
    BY <1>1 DEF TypeInv, TypeOK
  <1>3. buffer[cur] \in Seq(Packet) /\ got[cur] \in Seq(Packet)
    BY <1>2 DEF TypeInv, TypeOK
  <1>4. Head(buffer[cur]) \in Packet /\ Tail(buffer[cur]) \in Seq(Packet)
    BY <1>1, <1>3
  <1>5. QED
    BY <1>1, <1>2, <1>3, <1>4 DEF Recv

LEMMA ReadTypes ==
  ASSUME TypeInv, Recv
  PROVE  got' \in [Stream -> Seq(Packet)] /\ buffer' \in [Stream -> Seq(Packet)]
  <1>1. got \in [Stream -> Seq(Packet)] /\ buffer \in [Stream -> Seq(Packet)]
    BY DEF TypeInv, TypeOK
  <1>2. Append(got[cur], Head(buffer[cur])) \in Seq(Packet)
    BY ReadOne
  <1>3. QED
    BY <1>1, <1>2, ReadOne

(* The end of a call to measure().                                         *)
LEMMA TypeReturn ==
  ASSUME TypeInv, NEW r \in {"", "error", "exception"}, Return(r)
  PROVE  /\ pc' \in Place /\ pc' \notin Prepared /\ res' \in {"", "error", "exception"}
         /\ sockets' \subseteq Stream /\ buffer' \in [Stream -> Seq(Packet)]
  BY TypeNothing DEF Return, Place, Prepared

(* A step that tells the camera something and is otherwise within its types*)
LEMMA TypeSend ==
  ASSUME TypeInv, UNCHANGED asked, (\E u \in Commands : Sends(u)) \/ UNCHANGED command,
         sockets' \subseteq Stream, buffer' \in [Stream -> Seq(Packet)], UNCHANGED got,
         running' \subseteq Stream, cur' \in 0..4, res' \in {"", "error", "exception"}, pc' \in Place,
         fault' \in BOOLEAN, clean' \in BOOLEAN, pc' \in Prepared => octet >= 1,
         pc' \in Opened \cup {"receive"} => ~ArrayError
  PROVE  TypeInv'
  <1>1. octet' = octet /\ (ArrayError' <=> ArrayError)
    BY SameAsked
  <1>2. /\ sata' \in BOOLEAN /\ samples' \in {0, sample_number} /\ on' \subseteq Stream
        /\ octets' \in [Stream -> Nat] /\ (\A s \in Stream : octets'[s] >= 1)
        /\ left' \in [Stream -> Nat] /\ started' \in 0..MaxMeasure
        /\ UDP_data' \in Commands /\ stopped' \in BOOLEAN
    <2>1. CASE \E u \in Commands : Sends(u)
      BY <2>1, SendTypes
    <2>2. CASE UNCHANGED command
      BY <2>2 DEF command, camera, TypeInv, TypeOK, RoomInv
    <2>3. QED
      BY <2>1, <2>2
  <1>3. /\ adcs' \in 1..4 /\ dualSATA' \in BOOLEAN /\ MTU' \in Nat /\ req' \in Request
        /\ measured' \in 0..MaxMeasure /\ got' \in [Stream -> Seq(Packet)]
    BY DEF asked, TypeInv, TypeOK
  <1>4. QED
    BY <1>1, <1>2, <1>3 DEF TypeInv, TypeOK, RoomInv

LEMMA TypeReceiver == TypeInv /\ Receiver => TypeInv'
  <1> SUFFICES ASSUME TypeInv, Receiver PROVE TypeInv'
    OBVIOUS
  <1> USE DEF host, Goto
  <1>0. /\ sockets \subseteq Stream /\ buffer \in [Stream -> Seq(Packet)] /\ got \in [Stream -> Seq(Packet)]
        /\ running \subseteq Stream /\ cur \in 0..4 /\ res \in {"", "error", "exception"}
        /\ fault \in BOOLEAN /\ clean \in BOOLEAN /\ stopped \in BOOLEAN
        /\ (pc \in Prepared => octet >= 1) /\ (pc \in Opened \cup {"receive"} => ~ArrayError)
    BY DEF TypeInv, TypeOK, RoomInv
  <1>1. CASE SetUp
    <2>1. \E u \in Commands : Sends(u)
      BY <1>1, Collected DEF SetUp, Sends
    <2>2. /\ pc' \in Place /\ pc' \notin Prepared /\ res' \in {"", "error", "exception"}
          /\ sockets' \subseteq Stream /\ buffer' \in [Stream -> Seq(Packet)]
      BY <1>0, <1>1, TypeReturn DEF SetUp, Place, Prepared
    <2>3. QED
      BY <1>0, <1>1, <2>1, <2>2, TypeSend DEF SetUp, Prepared, Opened
  <1>2. CASE getNetParameters \/ startReceive
    <2>1. /\ pc' \in Place /\ (pc' \in Prepared => pc \in Prepared) /\ res' \in {"", "error", "exception"}
          /\ (pc' \in Opened \cup {"receive"} => ~ArrayError)
          /\ sockets' \subseteq Stream /\ buffer' \in [Stream -> Seq(Packet)]
      BY <1>0, <1>2, TypeReturn DEF getNetParameters, startReceive, Place, Prepared, Opened
    <2>2. clean' \in BOOLEAN
      BY <1>0, <1>2 DEF getNetParameters, startReceive
    <2>3. QED
      BY <1>0, <1>2, <2>1, <2>2, TypeSend DEF getNetParameters, startReceive
  <1>3. CASE allocate
    <2>1. (\E u \in Commands : Sends(u)) \/ UNCHANGED command
      BY <1>3, Collected DEF allocate, Sends
    <2>2. /\ pc' \in Place /\ (pc' \in Prepared => octet >= 1) /\ res' \in {"", "error", "exception"}
          /\ pc' \notin Opened \cup {"receive"}
          /\ sockets' \subseteq Stream /\ buffer' \in [Stream -> Seq(Packet)]
      BY <1>0, <1>3, TypeReturn DEF allocate, Place, Prepared, Opened
    <2>3. fault' \in BOOLEAN
      BY <1>0, <1>3 DEF allocate
    <2>4. QED
      BY <1>0, <1>3, <2>1, <2>2, <2>3, TypeSend DEF allocate
  <1>4. CASE OpenStream
    <2>1. cur \in Stream /\ cur + 1 \in 0..4 /\ octet >= 1 /\ ~ArrayError
      <3>1. pc = "receive" /\ cur \in stream_list
        BY <1>4 DEF OpenStream
      <3>2. octet >= 1 /\ ~ArrayError
        BY <1>0, <3>1 DEF Prepared
      <3>3. cur \in Stream
        BY <3>1, <3>2, ListIsStreams
      <3>4. cur + 1 \in 0..4
        BY <3>3 DEF Stream
      <3>5. QED
        BY <3>2, <3>3, <3>4
    <2>2. (\E u \in Commands : Sends(u)) \/ UNCHANGED command
      BY <1>4, <2>1, Collected DEF OpenStream, Sends
    <2>3. /\ pc' \in Place /\ res' \in {"", "error", "exception"}
          /\ sockets' \subseteq Stream /\ buffer' \in [Stream -> Seq(Packet)] /\ cur' \in 0..4
      BY <1>0, <1>4, <2>1, TypeReturn DEF OpenStream, Place
    <2>4. fault' \in BOOLEAN
      BY <1>0, <1>4 DEF OpenStream
    <2>5. QED
      BY <1>0, <1>4, <2>1, <2>2, <2>3, <2>4, TypeSend DEF OpenStream
  <1>5. CASE OpenNext \/ OpenDone \/ DataDone
    <2>1. pc' \in Place /\ pc \in Prepared /\ cur' \in 0..4 /\ pc \in Opened \cup {"receive"}
      BY <1>0, <1>5, Turn, Zeros DEF OpenNext, OpenDone, DataDone, Place, Prepared, Opened
    <2>2. QED
      BY <1>0, <1>5, <2>1, TypeSend DEF OpenNext, OpenDone, DataDone
  <1>6. CASE StopFirst \/ StopAfter
    <2>1. \E u \in Commands : Sends(u)
      BY <1>6, Collected DEF StopFirst, StopAfter, stopStream, Sends
    <2>2. pc' \in Place /\ pc \in Prepared /\ pc \in Opened
      BY <1>6 DEF StopFirst, StopAfter, Place, Prepared, Opened
    <2>3. QED
      BY <1>0, <1>6, <2>1, <2>2, TypeSend DEF StopFirst, StopAfter
  <1>7. CASE startStream
    <2>1. \E u \in Commands : Sends(u)
      BY <1>7, Collected DEF startStream, Sends
    <2>2. /\ pc' \in Place /\ pc \in Prepared /\ pc \in Opened /\ res' \in {"", "error", "exception"}
          /\ sockets' \subseteq Stream /\ buffer' \in [Stream -> Seq(Packet)]
      BY <1>0, <1>7, TypeReturn DEF startStream, Place, Prepared, Opened
    <2>3. running' \subseteq Stream /\ fault' \in BOOLEAN
      BY <1>0, <1>7 DEF startStream
    <2>4. QED
      BY <1>0, <1>7, <2>1, <2>2, <2>3, TypeSend DEF startStream
  <1>8. CASE Recv
    <2>1. cur' \in 0..4 /\ octet' = octet /\ (ArrayError' <=> ArrayError)
      BY <1>8, Turn, SameAsked DEF Recv
    <2>2. got' \in [Stream -> Seq(Packet)] /\ buffer' \in [Stream -> Seq(Packet)]
      BY <1>8, ReadTypes
    <2>3. QED
      BY <1>8, <2>1, <2>2 DEF Recv, TypeInv, TypeOK, RoomInv, asked, command, camera
  <1>9. CASE TimeOut \/ Skip
    <2>1. cur' \in 0..4 /\ running' \subseteq Stream /\ fault' \in BOOLEAN
      BY <1>0, <1>9, Turn DEF TimeOut, Skip
    <2>2. QED
      BY <1>0, <1>9, <2>1, TypeSend DEF TimeOut, Skip, InTurn, TypeInv, TypeOK
  <1>10. CASE stopReceive
    <2>1. /\ pc' \in Place /\ pc' \notin Prepared /\ res' \in {"", "error", "exception"}
          /\ sockets' \subseteq Stream /\ buffer' \in [Stream -> Seq(Packet)]
      BY <1>10, TypeReturn DEF stopReceive
    <2>2. QED
      BY <1>0, <1>10, <2>1, TypeSend DEF stopReceive, Prepared, Opened
  <1>11. QED
    BY <1>1, <1>2, <1>3, <1>4, <1>5, <1>6, <1>7, <1>8, <1>9, <1>10 DEF Receiver

LEMMA TypeMeasure ==
  ASSUME TypeInv, NEW r \in Requests, NEW mtu \in MTUs, measure(r, mtu)
  PROVE  TypeInv'
  <1>1. MTU' \in Nat /\ req' \in Request
    BY NativeAssumption DEF measure
  <1>2. measured' \in 0..MaxMeasure
    <2>1. measured \in 0..MaxMeasure /\ MaxMeasure \in Nat
      BY NativeAssumption DEF TypeInv, TypeOK
    <2>2. measured < MaxMeasure /\ measured' = measured + 1
      BY DEF measure
    <2>3. QED
      BY <2>1, <2>2
  <1>3. cur' \in 0..4 /\ pc' \in Place /\ pc' \notin Prepared /\ pc' \notin Opened \cup {"receive"}
    <2>1. cur' = 0 /\ pc' = "setup"
      BY DEF measure, Goto
    <2>2. QED
      BY <2>1 DEF Place, Prepared, Opened
  <1>4. got' \in [Stream -> Seq(Packet)]
    BY TypeNothing DEF measure
  <1>5. QED
    BY <1>1, <1>2, <1>3, <1>4 DEF measure, Goto, command, camera, TypeInv, TypeOK, RoomInv

LEMMA TypeStep == TypeInv /\ [Next]_vars => TypeInv'
  <1> SUFFICES ASSUME TypeInv, [Next]_vars PROVE TypeInv'
    OBVIOUS
  <1>1. ASSUME NEW b \in BOOLEAN, setDualSATA(b) PROVE TypeInv'
    <2>1. \E u \in Commands : Sends(u)
      BY <1>1, Collected DEF setDualSATA, Sends
    <2>2. QED
      BY <1>1, <2>1, TypeSend DEF setDualSATA, host, TypeInv, TypeOK, Prepared, Opened
  <1>2. CASE UNCHANGED vars
    BY <1>2, TypeSend DEF vars, host, TypeInv, TypeOK, RoomInv
  <1>3. QED
    BY <1>1, <1>2, TypeMeasure, TypeEmit, TypeReceiver DEF Next

(* Every variable keeps its type, for any number of samples and any size   *)
(* of the packets, whatever is lost or kept to be sent later; in particular*)
(* the number of packets is never the result of a division by 0.           *)
THEOREM TypeCorrect == Spec => []TypeOK
  <1>1. Spec => []TypeInv
    BY TypeInit, TypeStep, PTL DEF Spec
  <1>2. TypeInv => TypeOK
    BY DEF TypeInv
  <1>3. QED
    BY <1>1, <1>2, PTL

-----------------------------------------------------------------------------
(* What is read.                                                           *)

(* Only what the next step sends anyway can wait within a measurement: what*)
(* has been left from the last one goes out, or gets lost, before.         *)
WaitingInv ==
  /\ pc \notin {"idle", "setup"} =>
       UDP_data.start = 0 /\ UDP_data.sata = {} /\ \A s \in Stream : UDP_data.octets[s] = 0
  /\ pc \in Opened \/ (pc = "receive" /\ cur # 0) => ~UDP_data.count

(* Where the streams have been stopped they are silent until they are      *)
(* started again; sockets are open within measure() only.                  *)
StreamsInv ==
  /\ pc \in Closed => sockets = {} /\ buffer = Nothing
  /\ pc \in Unread => got = Nothing
  /\ pc \in {"setup", "network", "allocate", "arrays"} => cur = 0
  /\ stopped => on = {} /\ UDP_data.start = 0
  /\ clean /\ pc \in {"receive", "stop", "start"} => stopped
  /\ clean /\ pc \in {"data", "stopStream", "stopReceive"} /\ on # {} => started = measured

Right(s, p) ==
  /\ clean => p.meas = measured
  /\ pc # "idle" /\ sata = dualSATA => p.adc = stream_adc(s)

Held(s, p) ==
  \/ \E k \in DOMAIN got[s] : got[s][k] = p
  \/ \E k \in DOMAIN buffer[s] : buffer[s][k] = p

PacketsInv == \A s \in Stream, p \in Packet : Held(s, p) => Right(s, p)

(* A measurement has a number.                                             *)
BegunInv == pc # "idle" => measured # 0

FreshInv == TypeInv /\ BegunInv /\ WaitingInv /\ StreamsInv /\ PacketsInv

LEMMA EmptyFields ==
  /\ Empty.start = 0 /\ Empty.sata = {} /\ ~Empty.count /\ ~Empty.stop
  /\ \A s \in Stream : Empty.octets[s] = 0
  BY DEF Empty

(* What a packet changes, and what remains to be sent.                     *)
LEMMA SendEffect ==
  ASSUME NEW u \in Commands, Sends(u), stopped => on = {}
  PROVE  /\ stopped' => on' = {} /\ UDP_data'.start = 0
         /\ u.start = 0 => /\ on' \subseteq on /\ started' = started
                           /\ stopped => stopped'
         /\ u.sata = {} => sata' = sata
         /\ ~u.count => samples' = samples
         /\ UDP_data' \in {u, Empty}
  <1>1. CASE Execute(u) /\ UDP_data' = Empty
    <2>1. u.start \in 0..MaxMeasure
      BY DEF Commands
    <2>2. QED
      BY <1>1, <2>1, EmptyFields DEF Execute
  <1>2. CASE Lost
    BY <1>2, EmptyFields DEF Lost, camera
  <1>3. CASE Refused(u)
    BY <1>3, EmptyFields DEF Refused, camera
  <1>4. QED
    BY <1>1, <1>2, <1>3 DEF Sends, Arrives

(* The fields of what is sent.                                             *)
LEMMA CollectedFields ==
  ASSUME TypeInv
  PROVE  /\ \A u : u = [UDP_data EXCEPT !.count = TRUE] =>
              u.octets = UDP_data.octets /\ u.start = UDP_data.start /\ u.sata = UDP_data.sata
              /\ u.count = TRUE
         /\ \A u : u = [UDP_data EXCEPT !.stop = TRUE] =>
              u.octets = UDP_data.octets /\ u.start = UDP_data.start /\ u.sata = UDP_data.sata
              /\ u.count = UDP_data.count
         /\ \A u : u = [UDP_data EXCEPT !.start = measured] =>
              u.octets = UDP_data.octets /\ u.start = measured /\ u.sata = UDP_data.sata
              /\ u.count = UDP_data.count
         /\ \A u : cur \in Stream /\ u = [UDP_data EXCEPT !.octets[cur] = octet] =>
              /\ u.start = UDP_data.start /\ u.sata = UDP_data.sata /\ u.count = UDP_data.count
              /\ u.octets[cur] = octet
              /\ \A s \in Stream \ {cur} : u.octets[s] = UDP_data.octets[s]
  <1>1. UDP_data \in Commands
    BY DEF TypeInv, TypeOK
  <1>2. QED
    BY <1>1 DEF Commands

LEMMA FreshInit == Init => FreshInv
  <1> SUFFICES ASSUME Init PROVE WaitingInv /\ StreamsInv /\ PacketsInv
    BY TypeInit DEF FreshInv, BegunInv, Init
  <1>1. WaitingInv /\ StreamsInv
    BY EmptyFields DEF Init, WaitingInv, StreamsInv, Opened, Unread
  <1>2. \A s \in Stream : got[s] = <<>> /\ buffer[s] = <<>>
    BY DEF Init, Nothing
  <1>3. QED
    BY <1>1, <1>2 DEF PacketsInv, Held

(* The stream that is opened, in the list and among the streams.           *)
LEMMA Opening ==
  ASSUME TypeInv, OpenStream
  PROVE  cur \in Stream /\ cur \in stream_list /\ octet >= 1 /\ ~ArrayError
         /\ [UDP_data EXCEPT !.octets[cur] = octet] \in Commands
  <1>1. pc = "receive" /\ cur \in stream_list
    BY DEF OpenStream
  <1>2. octet >= 1 /\ ~ArrayError
    BY <1>1 DEF Prepared, TypeInv, RoomInv
  <1>3. cur \in Stream
    BY <1>1, <1>2, ListIsStreams
  <1>4. QED
    BY <1>1, <1>2, <1>3, Collected

(* Stream 0 is in every list, so that the sample count is sent with its    *)
(* parameters at the latest.                                               *)
LEMMA ZeroIsListed == ASSUME TypeInv PROVE 0 \in stream_list
  <1>1. adcs \in 1..4
    BY DEF TypeInv, TypeOK
  <1>2. 0 \in 0..(adcs - 1) /\ 2 * 0 = 0
    BY <1>1
  <1>3. QED
    BY <1>2 DEF stream_list, StreamsOf

LEMMA WaitingReceiver == FreshInv /\ Receiver => WaitingInv'
  <1> SUFFICES ASSUME TypeInv, WaitingInv, StreamsInv, Receiver PROVE WaitingInv'
    BY DEF FreshInv
  <1> USE DEF Goto, Return
  <1>1. CASE pc' = "idle"
    BY <1>1 DEF WaitingInv, Opened
  <1>2. CASE SetUp
    BY <1>1, <1>2, EmptyFields DEF SetUp, Arrives, Lost, WaitingInv, Opened
  <1>3. CASE getNetParameters \/ startReceive
    BY <1>1, <1>3 DEF getNetParameters, startReceive, command, host, StreamsInv, WaitingInv, Opened
  <1>4. CASE allocate
    <2>1. SUFFICES ASSUME pc' # "idle" PROVE WaitingInv'
      BY <1>1
    <2> DEFINE u == [UDP_data EXCEPT !.count = TRUE]
    <2>2. Sends(u) /\ pc' = "arrays" /\ pc = "allocate"
      BY <1>4, <2>1 DEF allocate, Sends
    <2>3. UDP_data' \in {u, Empty}
      BY <2>2, Collected, SendEffect DEF StreamsInv
    <2>4. u.octets = UDP_data.octets /\ u.start = UDP_data.start /\ u.sata = UDP_data.sata
      BY CollectedFields
    <2>5. QED
      BY <2>2, <2>3, <2>4, EmptyFields DEF WaitingInv, Opened
  <1>5. CASE OpenStream
    <2>1. pc' # "idle" => UDP_data' = Empty /\ pc' = "receive"
      BY <1>5 DEF OpenStream, Arrives, Lost
    <2>2. QED
      BY <1>1, <2>1, EmptyFields DEF WaitingInv, Opened
  <1>6. CASE OpenNext \/ OpenDone \/ DataDone
    <2>1. UDP_data' = UDP_data /\ pc \notin {"idle", "setup"} /\ pc' \notin {"idle", "setup"}
      BY <1>6 DEF OpenNext, OpenDone, DataDone, command
    <2>2. pc \in Opened \/ (pc = "receive" /\ cur # 0)
      BY <1>6, ZeroIsListed DEF OpenNext, OpenDone, DataDone, Opened
    <2>3. QED
      BY <2>1, <2>2 DEF WaitingInv
  <1>7. CASE StopFirst \/ StopAfter
    <2> DEFINE u == [UDP_data EXCEPT !.stop = TRUE]
    <2>1. Sends(u) /\ pc \in Opened /\ pc \notin {"idle", "setup"}
      BY <1>7 DEF StopFirst, StopAfter, stopStream, Sends, Opened
    <2>2. UDP_data' \in {u, Empty}
      BY <2>1, Collected, SendEffect DEF StreamsInv
    <2>3. /\ u.octets = UDP_data.octets /\ u.start = UDP_data.start /\ u.sata = UDP_data.sata
          /\ u.count = UDP_data.count
      BY CollectedFields
    <2>4. QED
      BY <2>1, <2>2, <2>3, EmptyFields DEF WaitingInv
  <1>8. CASE startStream
    <2>1. pc' # "idle" => UDP_data' = Empty
      BY <1>8 DEF startStream, Arrives, Lost
    <2>2. QED
      BY <1>1, <2>1, EmptyFields DEF WaitingInv
  <1>9. CASE Recv \/ TimeOut \/ Skip
    <2>1. UDP_data' = UDP_data /\ pc = "data" /\ pc' = "data"
      BY <1>9 DEF Recv, TimeOut, Skip, InTurn, command
    <2>2. QED
      BY <2>1 DEF WaitingInv, Opened
  <1>10. CASE stopReceive
    BY <1>1, <1>10 DEF stopReceive
  <1>11. QED
    BY <1>2, <1>3, <1>4, <1>5, <1>6, <1>7, <1>8, <1>9, <1>10 DEF Receiver

LEMMA BegunStep == FreshInv /\ [Next]_vars => BegunInv'
  <1> SUFFICES ASSUME TypeInv, BegunInv, [Next]_vars PROVE BegunInv'
    BY DEF FreshInv
  <1>0. measured \in Nat
    <2>1. measured \in 0..MaxMeasure
      BY DEF TypeInv, TypeOK
    <2>2. QED
      BY <2>1
  <1>1. ASSUME NEW r \in Requests, NEW mtu \in MTUs, measure(r, mtu) PROVE BegunInv'
    BY <1>0, <1>1 DEF measure, BegunInv
  <1>2. ASSUME NEW b \in BOOLEAN, setDualSATA(b) PROVE BegunInv'
    BY <1>2 DEF setDualSATA, BegunInv
  <1>3. ASSUME NEW s \in Stream, Emit(s) PROVE BegunInv'
    BY <1>3 DEF Emit, asked, BegunInv
  <1>4. CASE UNCHANGED vars
    BY <1>4 DEF vars, asked, BegunInv
  <1>5. CASE Receiver
    <2> USE DEF asked, BegunInv
    <2>1. CASE SetUp \/ getNetParameters \/ allocate \/ startReceive \/ OpenStream \/ OpenNext \/ OpenDone
      BY <2>1 DEF SetUp, getNetParameters, allocate, startReceive, OpenStream, OpenNext, OpenDone
    <2>2. CASE StopFirst \/ startStream \/ Recv \/ TimeOut \/ Skip
      BY <2>2 DEF StopFirst, startStream, Recv, TimeOut, Skip, InTurn
    <2>3. CASE DataDone \/ StopAfter \/ stopReceive
      BY <2>3 DEF DataDone, StopAfter, stopReceive
    <2>4. QED
      BY <1>5, <2>1, <2>2, <2>3 DEF Receiver
  <1>6. QED
    BY <1>1, <1>2, <1>3, <1>4, <1>5 DEF Next

LEMMA WaitingStep == FreshInv /\ [Next]_vars => WaitingInv'
  <1> SUFFICES ASSUME FreshInv, [Next]_vars PROVE WaitingInv'
    OBVIOUS
  <1>1. ASSUME NEW r \in Requests, NEW mtu \in MTUs, measure(r, mtu) PROVE WaitingInv'
    BY <1>1 DEF measure, Goto, WaitingInv, Opened
  <1>2. ASSUME NEW b \in BOOLEAN, setDualSATA(b) PROVE WaitingInv'
    BY <1>2 DEF setDualSATA, WaitingInv, Opened
  <1>3. ASSUME NEW s \in Stream, Emit(s) PROVE WaitingInv'
    BY <1>3 DEF Emit, FreshInv, WaitingInv
  <1>4. CASE UNCHANGED vars
    BY <1>4 DEF vars, command, host, FreshInv, WaitingInv
  <1>5. QED
    BY <1>1, <1>2, <1>3, <1>4, WaitingReceiver DEF Next

(* What the receiver does with the streams.                                *)
LEMMA StreamsReceiver == FreshInv /\ Receiver => StreamsInv'
  <1> SUFFICES ASSUME TypeInv, WaitingInv, StreamsInv, Receiver PROVE StreamsInv'
    BY DEF FreshInv
  <1> USE DEF Goto, Closed, Unread
  <1>0. stopped => on = {}
    BY DEF StreamsInv
  <1>1. CASE SetUp
    <2>1. Sends(UDP_data) /\ UDP_data \in Commands
      BY <1>1, Collected DEF SetUp, Sends
    <2>2. stopped' => on' = {} /\ UDP_data'.start = 0
      BY <1>0, <2>1, SendEffect
    <2>3. pc = "setup" /\ pc' \in {"idle", "network"} /\ UNCHANGED <<got, cur>>
          /\ sockets' = {} /\ buffer' = Nothing
      BY <1>1 DEF SetUp, Return, StreamsInv
    <2>4. QED
      BY <2>2, <2>3 DEF StreamsInv
  <1>2. CASE getNetParameters \/ startReceive
    BY <1>2 DEF getNetParameters, startReceive, Return, command, camera, StreamsInv
  <1>3. CASE allocate
    <2> DEFINE u == [UDP_data EXCEPT !.count = TRUE]
    <2>1. Sends(u) \/ UNCHANGED command
      BY <1>3 DEF allocate, Sends
    <2>2. stopped' => on' = {} /\ UDP_data'.start = 0
      <3>1. CASE Sends(u)
        BY <1>0, <3>1, Collected, SendEffect
      <3>2. CASE UNCHANGED command
        BY <3>2 DEF command, camera, StreamsInv
      <3>3. QED
        BY <2>1, <3>1, <3>2
    <2>3. pc = "allocate" /\ pc' \in {"idle", "arrays"} /\ UNCHANGED <<got, cur>>
          /\ sockets' = {} /\ buffer' = Nothing
      BY <1>3 DEF allocate, Return, StreamsInv
    <2>4. QED
      BY <2>2, <2>3 DEF StreamsInv
  <1>4. CASE OpenStream
    <2> DEFINE u == [UDP_data EXCEPT !.octets[cur] = octet]
    <2>1. Sends(u) \/ UNCHANGED command
      BY <1>4 DEF OpenStream, Sends
    <2>2. (stopped' => on' = {} /\ UDP_data'.start = 0) /\ (stopped => stopped')
      <3>1. CASE Sends(u)
        <4>1. u \in Commands /\ u.start = UDP_data.start
          BY <1>4, Opening, CollectedFields
        <4>2. u.start = 0
          BY <1>4, <4>1 DEF OpenStream, WaitingInv
        <4>3. QED
          BY <1>0, <3>1, <4>1, <4>2, SendEffect
      <3>2. CASE UNCHANGED command
        BY <3>2 DEF command, camera, StreamsInv
      <3>3. QED
        BY <2>1, <3>1, <3>2
    <2>3. pc = "receive" /\ got' = got /\ clean' = clean
          /\ (pc' = "receive" \/ (pc' = "idle" /\ sockets' = {} /\ buffer' = Nothing))
      BY <1>4 DEF OpenStream, Return
    <2>4. QED
      BY <2>2, <2>3 DEF StreamsInv
  <1>5. CASE OpenNext \/ OpenDone \/ DataDone
    BY <1>5 DEF OpenNext, OpenDone, DataDone, command, camera, asked, host, StreamsInv
  <1>6. CASE StopFirst \/ StopAfter
    <2> DEFINE u == [UDP_data EXCEPT !.stop = TRUE]
    <2>1. Sends(u) /\ u \in Commands /\ u.start = UDP_data.start
      BY <1>6, Collected, CollectedFields DEF StopFirst, StopAfter, stopStream, Sends
    <2>2. u.start = 0
      BY <1>6, <2>1 DEF StopFirst, StopAfter, WaitingInv
    <2>3. (stopped' => on' = {} /\ UDP_data'.start = 0) /\ (stopped => stopped')
          /\ on' \subseteq on /\ started' = started
      BY <1>0, <2>1, <2>2, SendEffect
    <2>4. /\ UNCHANGED <<measured, got, cur, sockets, buffer, clean>>
          /\ \/ pc = "stop" /\ pc' = "start"
             \/ pc = "stopStream" /\ pc' = "stopReceive"
      BY <1>6 DEF StopFirst, StopAfter, asked, host
    <2>5. QED
      BY <2>3, <2>4 DEF StreamsInv
  <1>7. CASE startStream
    <2> DEFINE u == [UDP_data EXCEPT !.start = measured]
    <2>1. Sends(u) /\ u \in Commands /\ u.start = measured
      BY <1>7, Collected, CollectedFields DEF startStream, Sends
    <2>2. stopped' => on' = {} /\ UDP_data'.start = 0
      BY <1>0, <2>1, SendEffect
    <2>3. /\ pc = "start" /\ UNCHANGED <<measured, got, clean>>
          /\ \/ pc' = "idle" /\ sockets' = {} /\ buffer' = Nothing
             \/ pc' = "data" /\ UNCHANGED <<sockets, buffer>> /\ (Arrives(u) \/ Lost)
      BY <1>7 DEF startStream, Return, asked
    <2>4. pc' = "data" /\ clean /\ on' # {} => started' = measured
      <3>1. SUFFICES ASSUME pc' = "data", clean, on' # {} PROVE started' = measured
        OBVIOUS
      <3>2. stopped /\ on = {}
        BY <1>0, <2>3, <3>1 DEF StreamsInv
      <3>3. Arrives(u)
        BY <2>3, <3>1, <3>2 DEF Lost, camera
      <3>4. u.start > 0 \/ u.start = 0
        <4>1. measured \in 0..MaxMeasure
          BY DEF TypeInv, TypeOK
        <4>2. QED
          BY <2>1, <4>1
      <3>5. QED
        BY <2>1, <3>1, <3>2, <3>3, <3>4 DEF Arrives, Execute
    <2>5. QED
      BY <2>2, <2>3, <2>4 DEF StreamsInv
  <1>8. CASE Recv \/ TimeOut \/ Skip
    <2>1. pc = "data" /\ pc' = "data" /\ UNCHANGED <<on, started, measured, clean, stopped, UDP_data>>
      BY <1>8 DEF Recv, TimeOut, Skip, InTurn, command, camera, asked
    <2>2. QED
      BY <2>1 DEF StreamsInv
  <1>9. CASE stopReceive
    BY <1>9 DEF stopReceive, Return, command, camera, StreamsInv
  <1>10. QED
    BY <1>1, <1>2, <1>3, <1>4, <1>5, <1>6, <1>7, <1>8, <1>9 DEF Receiver

LEMMA StreamsStep == FreshInv /\ [Next]_vars => StreamsInv'
  <1> SUFFICES ASSUME FreshInv, [Next]_vars PROVE StreamsInv'
    OBVIOUS
  <1> USE DEF Closed, Unread
  <1>1. ASSUME NEW r \in Requests, NEW mtu \in MTUs, measure(r, mtu) PROVE StreamsInv'
    BY <1>1 DEF measure, Goto, command, camera, FreshInv, StreamsInv
  <1>2. ASSUME NEW b \in BOOLEAN, setDualSATA(b) PROVE StreamsInv'
    <2> DEFINE u == [UDP_data EXCEPT !.sata = {b}]
    <2>1. Sends(u) /\ u \in Commands /\ (stopped => on = {})
      BY <1>2, Collected DEF setDualSATA, Sends, FreshInv, StreamsInv
    <2>2. stopped' => on' = {} /\ UDP_data'.start = 0
      BY <2>1, SendEffect
    <2>3. pc = "idle" /\ pc' = "idle" /\ UNCHANGED <<sockets, buffer>>
      BY <1>2 DEF setDualSATA, host
    <2>4. QED
      BY <2>2, <2>3 DEF FreshInv, StreamsInv
  <1>3. ASSUME NEW s \in Stream, Emit(s) PROVE StreamsInv'
    <2>1. pc \in Closed => buffer' = buffer
      BY <1>3 DEF Emit, FreshInv, StreamsInv
    <2>2. UNCHANGED <<sockets, got, cur, on, UDP_data, stopped, clean, started, measured, pc>>
      BY <1>3 DEF Emit, asked
    <2>3. QED
      BY <2>1, <2>2 DEF FreshInv, StreamsInv
  <1>4. CASE UNCHANGED vars
    BY <1>4 DEF vars, command, camera, asked, host, FreshInv, StreamsInv
  <1>5. QED
    BY <1>1, <1>2, <1>3, <1>4, StreamsReceiver DEF Next

(* A packet that was right is right as long as nothing is forgotten and    *)
(* the setting of the camera stays, unless measure() returns.              *)
LEMMA RightKept ==
  ASSUME NEW s \in Stream, NEW p, Right(s, p), UNCHANGED <<measured, dualSATA>>,
         clean' => clean, pc' # "idle" => pc # "idle" /\ sata' = sata
  PROVE  Right(s, p)'
  BY DEF Right, stream_adc, AdcOf

(* As long as nothing is read and no packet comes.                         *)
LEMMA PacketsKept ==
  ASSUME PacketsInv, UNCHANGED <<measured, dualSATA, got>>,
         clean' => clean, pc' # "idle" => pc # "idle" /\ sata' = sata,
         buffer' = buffer \/ buffer' = Nothing
  PROVE  PacketsInv'
  <1>1. ASSUME NEW s \in Stream, NEW p, Held(s, p)' PROVE Held(s, p)
    BY <1>1 DEF Nothing, Held
  <1>2. QED
    BY <1>1, RightKept DEF PacketsInv

LEMMA NothingHeld == ASSUME got' = Nothing, buffer' = Nothing PROVE PacketsInv'
  BY DEF PacketsInv, Held, Nothing

LEMMA PacketsRecv == FreshInv /\ Recv => PacketsInv'
  <1> SUFFICES ASSUME FreshInv, Recv, NEW s \in Stream, NEW p, Held(s, p)' PROVE Held(s, p)
    <2>1. Recv => UNCHANGED <<measured, sata, dualSATA, clean, pc>>
      BY DEF Recv, command, camera, asked
    <2>2. Recv => \A s \in Stream : \A p : Right(s, p) => Right(s, p)'
      BY <2>1, RightKept
    <2>3. QED
      BY <2>2 DEF FreshInv, PacketsInv
  <1>1. CASE s # cur
    <2>1. got'[s] = got[s] /\ buffer'[s] = buffer[s]
      BY <1>1, ReadOne DEF FreshInv, TypeInv, TypeOK
    <2>2. QED
      BY <2>1 DEF Held
  <1>2. CASE s = cur
    <2>1. got'[s] = Append(got[s], Head(buffer[s])) /\ buffer'[s] = Tail(buffer[s])
      BY <1>2, ReadOne DEF FreshInv, TypeInv, TypeOK
    <2>2. got[s] \in Seq(Packet) /\ buffer[s] \in Seq(Packet) /\ buffer[s] # <<>>
      BY <1>2, ReadOne DEF FreshInv
    <2>3. 1 \in DOMAIN buffer[s] /\ Head(buffer[s]) = buffer[s][1]
      BY <2>2
    <2>4. ASSUME NEW k \in DOMAIN got'[s] PROVE Held(s, got'[s][k])
      <3>1. \/ k \in DOMAIN got[s] /\ got'[s][k] = got[s][k]
            \/ got'[s][k] = Head(buffer[s])
        BY <2>1, <2>2
      <3>2. QED
        BY <2>3, <3>1 DEF Held
    <2>5. ASSUME NEW k \in DOMAIN buffer'[s] PROVE Held(s, buffer'[s][k])
      <3>1. k + 1 \in DOMAIN buffer[s] /\ buffer'[s][k] = buffer[s][k + 1]
        BY <2>1, <2>2
      <3>2. QED
        BY <3>1 DEF Held
    <2>6. QED
      BY <2>4, <2>5 DEF Held
  <1>3. QED
    BY <1>1, <1>2

(* A packet comes only while a socket is open, and then, if the streams    *)
(* had been stopped before, this measurement has started them.             *)
LEMMA PacketsEmit ==
  ASSUME FreshInv, NEW t \in Stream, Emit(t)
  PROVE  PacketsInv'
  <1> DEFINE new == [meas |-> started, adc |-> AdcOf(t, sata)]
  <1>1. UNCHANGED <<measured, sata, dualSATA, got, clean, pc>>
    BY DEF Emit, asked
  <1>2. CASE buffer' = buffer
    BY <1>1, <1>2, PacketsKept DEF FreshInv
  <1>3. CASE buffer' # buffer
    <2>1. t \in sockets /\ t \in on /\ buffer' = [buffer EXCEPT ![t] = Append(buffer[t], new)]
      BY <1>3 DEF Emit
    <2>2. Right(t, new)
      <3>1. pc \notin Closed /\ pc \in Place
        BY <2>1 DEF FreshInv, StreamsInv, TypeInv, TypeOK
      <3>2. pc \in {"receive", "stop", "start", "data", "stopStream", "stopReceive"}
        BY <3>1 DEF Closed, Place
      <3>3. clean => started = measured
        BY <2>1, <3>2 DEF FreshInv, StreamsInv
      <3>4. QED
        BY <3>3 DEF Right, stream_adc
    <2>3. got' = got /\ PacketsInv
      BY <1>1 DEF FreshInv
    <2>4. buffer \in [Stream -> Seq(Packet)]
      BY DEF FreshInv, TypeInv, TypeOK
    <2>5. ASSUME NEW s \in Stream, NEW p \in Packet, Held(s, p)' PROVE Held(s, p) \/ (s = t /\ p = new)
      <3>1. CASE s # t
        <4>1. buffer'[s] = buffer[s]
          BY <2>1, <2>4, <3>1
        <4>2. QED
          BY <2>3, <2>5, <4>1 DEF Held
      <3>2. CASE s = t
        <4>1. buffer'[s] = Append(buffer[s], new) /\ buffer[s] \in Seq(Packet)
          BY <2>1, <2>4, <3>2
        <4>2. ASSUME NEW k \in DOMAIN buffer'[s]
              PROVE  (k \in DOMAIN buffer[s] /\ buffer'[s][k] = buffer[s][k]) \/ buffer'[s][k] = new
          BY <4>1
        <4>3. QED
          BY <2>3, <2>5, <3>2, <4>2 DEF Held
      <3>3. QED
        BY <3>1, <3>2
    <2>6. \A s \in Stream : \A p : Right(s, p) => Right(s, p)'
      BY <1>1, RightKept
    <2>7. QED
      BY <2>2, <2>3, <2>5, <2>6 DEF PacketsInv
  <1>4. QED
    BY <1>2, <1>3

(* Within a measurement the SATA setting of the camera stays, as none is   *)
(* left to be sent.                                                        *)
LEMMA SataStays ==
  ASSUME TypeInv, WaitingInv, StreamsInv, Receiver, ~SetUp
  PROVE  sata' = sata /\ pc # "idle"
  <1>0. stopped => on = {}
    BY DEF StreamsInv
  <1>1. ASSUME NEW u \in Commands, Sends(u), u.sata = UDP_data.sata, pc \notin {"idle", "setup"}
        PROVE  sata' = sata
    <2>1. u.sata = {}
      BY <1>1 DEF WaitingInv
    <2>2. QED
      BY <1>0, <1>1, <2>1, SendEffect
  <1>2. CASE UNCHANGED command /\ pc # "idle"
    BY <1>2 DEF command, camera
  <1>3. CASE allocate
    BY <1>1, <1>2, <1>3, Collected, CollectedFields DEF allocate, Sends
  <1>4. CASE OpenStream
    BY <1>1, <1>2, <1>4, Opening, CollectedFields DEF OpenStream, Sends
  <1>5. CASE StopFirst \/ StopAfter
    BY <1>1, <1>5, Collected, CollectedFields DEF StopFirst, StopAfter, stopStream, Sends
  <1>6. CASE startStream
    BY <1>1, <1>6, Collected, CollectedFields DEF startStream, Sends
  <1>7. CASE getNetParameters \/ startReceive \/ OpenNext \/ OpenDone \/ DataDone \/ stopReceive
    BY <1>2, <1>7 DEF getNetParameters, startReceive, OpenNext, OpenDone, DataDone, stopReceive
  <1>8. CASE Recv \/ TimeOut \/ Skip
    BY <1>2, <1>8 DEF Recv, TimeOut, Skip, InTurn
  <1>9. QED
    BY <1>3, <1>4, <1>5, <1>6, <1>7, <1>8 DEF Receiver

LEMMA PacketsReceiver == FreshInv /\ Receiver => PacketsInv'
  <1> SUFFICES ASSUME FreshInv, Receiver, ~Recv PROVE PacketsInv'
    BY PacketsRecv
  <1> USE DEF asked, host, Return
  <1>1. CASE SetUp
    <2>1. got = Nothing /\ buffer = Nothing
      BY <1>1 DEF SetUp, FreshInv, StreamsInv, Closed, Unread
    <2>2. got' = Nothing /\ buffer' = Nothing
      BY <1>1, <2>1 DEF SetUp
    <2>3. QED
      BY <2>2, NothingHeld
  <1>2. CASE startReceive
    <2>1. got = Nothing /\ buffer = Nothing
      BY <1>2 DEF startReceive, FreshInv, StreamsInv, Closed, Unread
    <2>2. got' = Nothing /\ buffer' = Nothing
      BY <1>2, <2>1 DEF startReceive
    <2>3. QED
      BY <2>2, NothingHeld
  <1>3. CASE ~SetUp /\ ~startReceive
    <2>1. sata' = sata /\ pc # "idle"
      BY <1>3, SataStays DEF FreshInv
    <2>2. UNCHANGED <<measured, dualSATA, got, clean>> /\ (buffer' = buffer \/ buffer' = Nothing)
      <3>1. CASE getNetParameters \/ allocate \/ OpenStream \/ OpenNext \/ OpenDone
        BY <3>1 DEF getNetParameters, allocate, OpenStream, OpenNext, OpenDone
      <3>2. CASE StopFirst \/ startStream \/ StopAfter \/ stopReceive
        BY <3>2 DEF StopFirst, startStream, StopAfter, stopReceive
      <3>3. CASE TimeOut \/ Skip \/ DataDone
        BY <3>3 DEF TimeOut, Skip, DataDone
      <3>4. QED
        BY <1>3, <3>1, <3>2, <3>3 DEF Receiver
    <2>3. QED
      BY <2>1, <2>2, PacketsKept DEF FreshInv
  <1>4. QED
    BY <1>1, <1>2, <1>3

LEMMA FreshStep == FreshInv /\ [Next]_vars => FreshInv'
  <1> SUFFICES ASSUME FreshInv, [Next]_vars PROVE PacketsInv'
    BY TypeStep, BegunStep, WaitingStep, StreamsStep DEF FreshInv
  <1>2. ASSUME NEW r \in Requests, NEW mtu \in MTUs, measure(r, mtu) PROVE PacketsInv'
    <2>1. got' = Nothing /\ buffer' = Nothing
      BY <1>2 DEF measure, FreshInv, StreamsInv, Closed
    <2>2. QED
      BY <2>1, NothingHeld
  <1>3. ASSUME NEW b \in BOOLEAN, setDualSATA(b) PROVE PacketsInv'
    <2>1. UNCHANGED <<measured, dualSATA, got, buffer, clean>> /\ pc' = "idle"
      BY <1>3 DEF setDualSATA, asked, host
    <2>2. QED
      BY <2>1, PacketsKept DEF FreshInv
  <1>4. CASE UNCHANGED vars
    <2>1. UNCHANGED <<measured, sata, dualSATA, got, clean, buffer, pc>>
      BY <1>4 DEF vars, asked, command, camera, host
    <2>2. QED
      BY <2>1, PacketsKept DEF FreshInv
  <1>5. QED
    BY <1>2, <1>3, <1>4, PacketsEmit, PacketsReceiver DEF Next

(* What has been read belongs to this measurement, and to the ADC it is    *)
(* written to the file of where the attribute dualSATA is the camera's     *)
(* setting, although nothing in a packet is looked at, for every order of  *)
(* packets, losses, lost commands and commands that are sent later: unless,*)
(* when the sockets were opened, a START had not been followed by an       *)
(* executed STOP, or was still to be sent.                                 *)
THEOREM DataIsFresh == Spec => []FreshData
  <1>1. Spec => []FreshInv
    BY FreshInit, FreshStep, PTL DEF Spec
  <1>2. FreshInv => FreshData
    <2> SUFFICES ASSUME FreshInv, NEW s \in Stream, NEW k \in DOMAIN got[s] PROVE Right(s, got[s][k])
      BY DEF Right, FreshData
    <2>1. got[s] \in Seq(Packet)
      BY DEF FreshInv, TypeInv, TypeOK
    <2>2. got[s][k] \in Packet
      BY <2>1
    <2>3. QED
      BY <2>2 DEF FreshInv, PacketsInv, Held
  <1>3. QED
    BY <1>1, <1>2, PTL

-----------------------------------------------------------------------------
(* Without an incident everything is read but for a part of a packet.      *)

Undisturbed == ~fault /\ clean /\ sata = dualSATA

(* What has been prepared for the streams of this measurement.             *)
SetUpInv ==
  /\ pc \in Prepared /\ ~fault => samples = sample_number \/ UDP_data.count
  /\ ~fault => \A s \in stream_list :
       pc \in Opened \/ (pc = "receive" /\ s < cur) => s \in sockets /\ octets[s] = octet

(* The packets the camera sends on a stream; what is enough of them.       *)
total(s) == CameraPackets(s, dualSATA, sample_number, octet)

Enough(s) == Len(got[s]) >= packets_per_adc(stream_adc(s)) \/ Len(got[s]) >= total(s)

(* Everything has been read, waits in a socket or is still to come; of a   *)
(* stream that is over enough has been read.                               *)
StreamGood(s) ==
  /\ s \in on
  /\ Len(got[s]) + Len(buffer[s]) + left[s] >= total(s)
  /\ s \notin running => Enough(s)

DataInv == pc = "data" /\ Undisturbed => \A s \in stream_list : StreamGood(s)
DoneInv == pc \in {"stopStream", "stopReceive"} /\ Undisturbed => \A s \in stream_list : Enough(s)

CompleteInv == FreshInv /\ SetUpInv /\ DataInv /\ DoneInv

(* A step within a measurement: what it is about remains, and an incident  *)
(* is not forgotten.                                                       *)
Steady == UNCHANGED asked /\ (fault => fault')

LEMMA SteadyMeans ==
  ASSUME TypeInv, Steady
  PROVE  /\ octet' = octet /\ stream_list' = stream_list /\ (ArrayError' <=> ArrayError)
         /\ \A s \in Stream : total(s)' = total(s)
         /\ \A s \in Stream : packets_per_adc(stream_adc(s))' = packets_per_adc(stream_adc(s))
  <1>1. /\ octet' = octet /\ stream_list' = stream_list /\ (ArrayError' <=> ArrayError)
        /\ \A s \in Stream : stream_adc(s)' = stream_adc(s)
    BY SameAsked DEF Steady
  <1>2. \A s \in Stream : total(s)' = total(s)
    <2>1. ASSUME NEW f PROVE SampleBytes(f)' = SampleBytes(f)
      BY DEF SampleBytes, Steady, asked
    <2>2. \A a : Sent(a)' = Sent(a)
      BY DEF Sent, Steady, asked
    <2>3. ASSUME NEW a PROVE SampleBytes(Sent(a))' = SampleBytes(Sent(a))
      BY <2>2 DEF SampleBytes, Steady, asked
    <2>4. QED
      BY <1>1, <2>3 DEF total, CameraPackets, StreamsOf, AdcOf, RoundUp, Steady, asked
  <1>3. \A s \in Stream : packets_per_adc(stream_adc(s))' = packets_per_adc(stream_adc(s))
    <2>1. \A a : Expected(a)' = Expected(a)
      BY DEF Expected, Steady, asked
    <2>2. ASSUME NEW s \in Stream
          PROVE  SampleBytes(Expected(stream_adc(s)))' = SampleBytes(Expected(stream_adc(s)))
      BY <1>1, <2>1 DEF SampleBytes, Steady, asked, Expected
    <2>3. QED
      BY <1>1, <2>2 DEF packets_per_adc, RoundUp
  <1>4. QED
    BY <1>1, <1>2, <1>3

LEMMA SteadyReceiver == FreshInv /\ Receiver => Steady
  <1> SUFFICES ASSUME FreshInv, Receiver PROVE Steady
    OBVIOUS
  <1>1. UNCHANGED asked
    <2>1. CASE SetUp \/ getNetParameters \/ allocate \/ startReceive \/ OpenStream \/ OpenNext \/ OpenDone
      BY <2>1 DEF SetUp, getNetParameters, allocate, startReceive, OpenStream, OpenNext, OpenDone
    <2>2. CASE StopFirst \/ startStream \/ Recv \/ TimeOut \/ Skip
      BY <2>2 DEF StopFirst, startStream, Recv, TimeOut, Skip
    <2>3. CASE DataDone \/ StopAfter \/ stopReceive
      BY <2>3 DEF DataDone, StopAfter, stopReceive
    <2>4. QED
      BY <2>1, <2>2, <2>3 DEF Receiver
  <1>2. fault => fault'
    <2>1. CASE SetUp \/ getNetParameters \/ startReceive \/ OpenNext \/ OpenDone
      BY <2>1 DEF SetUp, getNetParameters, startReceive, OpenNext, OpenDone
    <2>2. CASE allocate \/ OpenStream \/ startStream \/ TimeOut
      BY <2>2 DEF allocate, OpenStream, startStream, TimeOut
    <2>3. CASE StopFirst \/ Recv \/ Skip \/ DataDone \/ StopAfter \/ stopReceive
      BY <2>3 DEF StopFirst, Recv, Skip, DataDone, StopAfter, stopReceive
    <2>4. QED
      BY <2>1, <2>2, <2>3 DEF Receiver
  <1>3. QED
    BY <1>1, <1>2 DEF Steady

LEMMA SteadyEmit == ASSUME NEW s \in Stream, Emit(s) PROVE Steady
  BY DEF Emit, Steady

(* Nothing that is undisturbed has been disturbed before, once the sockets *)
(* are being opened.                                                       *)
LEMMA UndisturbedBefore ==
  ASSUME FreshInv, Receiver, ~SetUp, ~startReceive, Undisturbed'
  PROVE  Undisturbed
  <1>1. sata' = sata /\ UNCHANGED asked /\ ~fault
    BY SataStays, SteadyReceiver DEF FreshInv, Steady, Undisturbed
  <1>2. clean' = clean
    <2>1. CASE getNetParameters \/ allocate \/ OpenStream \/ OpenNext \/ OpenDone
      BY <2>1 DEF getNetParameters, allocate, OpenStream, OpenNext, OpenDone
    <2>2. CASE StopFirst \/ startStream \/ Recv \/ TimeOut \/ Skip
      BY <2>2 DEF StopFirst, startStream, Recv, TimeOut, Skip
    <2>3. CASE DataDone \/ StopAfter \/ stopReceive
      BY <2>3 DEF DataDone, StopAfter, stopReceive
    <2>4. QED
      BY <2>1, <2>2, <2>3 DEF Receiver
  <1>3. QED
    BY <1>1, <1>2 DEF Undisturbed, asked

(* A stream in the list is one of the four.                                *)
LEMMA Listed ==
  ASSUME FreshInv, pc \in Opened \cup {"receive"}
  PROVE  stream_list \subseteq Stream /\ ~ArrayError /\ octet \in Nat \ {0}
  <1>1. ~ArrayError /\ octet >= 1
    BY DEF FreshInv, TypeInv, RoomInv, Opened, Prepared
  <1>2. octet \in Int
    BY RoomIsInt DEF FreshInv
  <1>3. QED
    BY <1>1, <1>2, ListIsStreams DEF FreshInv

LEMMA CompleteInit == Init => CompleteInv
  <1> SUFFICES ASSUME Init PROVE SetUpInv /\ DataInv /\ DoneInv
    BY FreshInit DEF CompleteInv
  <1>1. pc = "idle"
    BY DEF Init
  <1>2. QED
    BY <1>1 DEF SetUpInv, DataInv, DoneInv, Prepared, Opened

-----------------------------------------------------------------------------
(* The preparations.                                                       *)

(* What a packet without parameters of streams leaves of them.             *)
LEMMA OctetsKept ==
  ASSUME FreshInv, NEW u \in Commands, Sends(u), NEW s \in Stream, u.octets[s] = 0
  PROVE  octets'[s] = octets[s]
  BY DEF Sends, Arrives, Execute, Lost, Refused, camera

LEMMA SetUpOpen == CompleteInv /\ OpenStream => SetUpInv'
  <1> SUFFICES ASSUME CompleteInv, OpenStream, Steady, pc' # "idle" PROVE SetUpInv'
    BY SteadyReceiver DEF Receiver, CompleteInv, SetUpInv, Prepared, Opened
  <1> DEFINE u == [UDP_data EXCEPT !.octets[cur] = octet]
  <1>1. /\ pc = "receive" /\ pc' = "receive" /\ cur' = cur + 1 /\ sockets' = sockets \cup {cur}
        /\ (Arrives(u) /\ UNCHANGED fault) \/ (Lost /\ fault' = TRUE)
    BY DEF OpenStream, Goto, Return
  <1>2. SUFFICES ASSUME ~fault' PROVE SetUpInv'
    BY DEF SetUpInv
  <1>3. Arrives(u) /\ ~fault /\ Execute(u) /\ UDP_data' = Empty
    BY <1>1, <1>2 DEF Steady, Arrives
  <1>4. cur \in Stream /\ u \in Commands /\ octet >= 1 /\ stream_list \subseteq Stream
    BY <1>1, Opening, Listed DEF CompleteInv, FreshInv
  <1>5. u.count = UDP_data.count /\ u.octets[cur] = octet
        /\ \A s \in Stream \ {cur} : u.octets[s] = UDP_data.octets[s]
    BY <1>4, CollectedFields DEF CompleteInv, FreshInv
  <1>6. samples' = sample_number
    BY <1>1, <1>3, <1>5 DEF Execute, CompleteInv, SetUpInv, Prepared
  <1>7. ASSUME NEW s \in stream_list, s < cur' PROVE s \in sockets' /\ octets'[s] = octet
    <2>1. s \in Stream /\ (s < cur \/ s = cur)
      BY <1>1, <1>4, <1>7 DEF Stream
    <2>2. CASE s = cur
      BY <1>1, <1>3, <1>4, <1>5, <2>2 DEF Execute
    <2>3. CASE s < cur
      <3>1. s # cur /\ u.octets[s] = UDP_data.octets[s]
        BY <1>4, <1>5, <2>1, <2>3 DEF Stream
      <3>2. u.octets[s] = 0
        BY <1>1, <2>1, <3>1 DEF CompleteInv, FreshInv, WaitingInv
      <3>3. octets'[s] = octets[s]
        BY <1>3, <1>4, <2>1, <3>2, OctetsKept DEF Sends, CompleteInv
      <3>4. QED
        BY <1>1, <1>3, <2>3, <3>3 DEF CompleteInv, SetUpInv
    <2>4. QED
      BY <2>1, <2>2, <2>3
  <1>8. QED
    BY <1>1, <1>6, <1>7, SteadyMeans DEF SetUpInv, Opened, CompleteInv, FreshInv

(* What is sent once the sockets are open leaves the preparations alone.   *)
LEMMA SetUpKept ==
  ASSUME CompleteInv, Steady, pc \in Opened, pc' \in Opened, sockets' = sockets,
         UNCHANGED command
         \/ \E u \in Commands : Sends(u) /\ u.octets = UDP_data.octets /\ u.count = UDP_data.count
  PROVE  SetUpInv'
  <1>1. stream_list' = stream_list /\ octet' = octet /\ stream_list \subseteq Stream
    BY SteadyMeans, Listed DEF CompleteInv, FreshInv
  <1>2. ~UDP_data.count /\ \A s \in Stream : UDP_data.octets[s] = 0
    BY DEF CompleteInv, FreshInv, WaitingInv, Opened
  <1>3. samples' = samples /\ \A s \in Stream : octets'[s] = octets[s]
    <2>1. CASE UNCHANGED command
      BY <2>1 DEF command, camera
    <2>2. ASSUME NEW u \in Commands, Sends(u), u.octets = UDP_data.octets, u.count = UDP_data.count
          PROVE  samples' = samples /\ \A s \in Stream : octets'[s] = octets[s]
      <3>1. ~u.count /\ \A s \in Stream : u.octets[s] = 0
        BY <1>2, <2>2
      <3>2. QED
        BY <2>2, <3>1, SendEffect, OctetsKept DEF CompleteInv, FreshInv, StreamsInv
    <2>3. QED
      BY <2>1, <2>2
  <1>4. QED
    BY <1>1, <1>2, <1>3 DEF CompleteInv, SetUpInv, Steady, Prepared, Opened

LEMMA SetUpReceiver == CompleteInv /\ Receiver => SetUpInv'
  <1> SUFFICES ASSUME CompleteInv, Receiver, Steady PROVE SetUpInv'
    BY SteadyReceiver DEF CompleteInv
  <1>0. /\ octet' = octet /\ stream_list' = stream_list /\ SetUpInv /\ (fault => fault')
        /\ TypeInv /\ WaitingInv /\ StreamsInv
    BY SteadyMeans DEF CompleteInv, FreshInv, Steady
  <1> USE DEF Goto, Return
  <1>1. CASE pc' = "idle"
    BY <1>1 DEF SetUpInv, Prepared, Opened
  <1>2. CASE SetUp \/ getNetParameters
    BY <1>1, <1>2 DEF SetUp, getNetParameters, SetUpInv, Prepared, Opened
  <1>3. CASE allocate
    <2>1. SUFFICES ASSUME pc' # "idle", ~fault' PROVE samples' = sample_number \/ UDP_data'.count
      <3>1. pc' # "idle" => pc' = "arrays"
        BY <1>3 DEF allocate
      <3>2. QED
        BY <1>1, <2>1, <3>1 DEF SetUpInv, Opened
    <2> DEFINE u == [UDP_data EXCEPT !.count = TRUE]
    <2>2. u.count = TRUE
      BY <1>0, CollectedFields
    <2>3. Arrives(u) \/ (Refused(u) /\ ~(UDP_data' = Empty))
      BY <1>3, <2>1 DEF allocate
    <2>4. QED
      BY <2>2, <2>3 DEF Arrives, Execute, Refused
  <1>4. CASE startReceive
    <2>1. SUFFICES ASSUME pc' # "idle" PROVE SetUpInv'
      BY <1>1
    <2>2. pc = "arrays" /\ pc' = "receive" /\ cur' = cur /\ cur = 0 /\ ~ArrayError
          /\ UNCHANGED <<samples, UDP_data, fault>>
      BY <1>0, <1>4, <2>1 DEF startReceive, command, camera, StreamsInv
    <2>3. \A s \in stream_list : ~(s < 0)
      BY <1>0, <2>2, ListIsStreams DEF Stream
    <2>4. QED
      BY <1>0, <2>2, <2>3 DEF SetUpInv, Prepared, Opened
  <1>5. CASE OpenStream
    BY <1>5, SetUpOpen
  <1>6. CASE OpenNext \/ OpenDone
    <2>1. /\ pc = "receive" /\ UNCHANGED <<samples, octets, UDP_data, sockets, fault>>
          /\ \/ pc' = "receive" /\ cur \notin stream_list /\ cur' = cur + 1
             \/ pc' = "stop" /\ cur = 4
      BY <1>6 DEF OpenNext, OpenDone, command, camera
    <2>2. stream_list \subseteq 0..3 /\ cur \in 0..4
      BY <1>0, <2>1, Listed DEF CompleteInv, Stream, TypeInv, TypeOK
    <2>3. \A s \in stream_list : pc' \in Opened \/ (pc' = "receive" /\ s < cur') => s < cur
      BY <2>1, <2>2 DEF Opened
    <2>4. QED
      BY <1>0, <2>1, <2>3 DEF SetUpInv, Prepared, Opened
  <1>7. CASE StopFirst \/ StopAfter
    BY <1>0, <1>7, Collected, CollectedFields, SetUpKept DEF StopFirst, StopAfter, stopStream, Sends, host, Opened
  <1>8. CASE startStream
    <2>1. pc' # "idle" => pc = "start" /\ pc' = "data" /\ sockets' = sockets
      BY <1>8 DEF startStream
    <2>2. QED
      BY <1>0, <1>1, <1>8, <2>1, Collected, CollectedFields, SetUpKept DEF startStream, Sends, Opened
  <1>9. CASE Recv \/ TimeOut \/ Skip \/ DataDone
    <2>1. pc = "data" /\ pc' \in Opened /\ sockets' = sockets /\ UNCHANGED command
      BY <1>9 DEF Recv, TimeOut, Skip, DataDone, InTurn, host, Opened
    <2>2. QED
      BY <2>1, SetUpKept DEF Opened
  <1>10. CASE stopReceive
    BY <1>1, <1>10 DEF stopReceive
  <1>11. QED
    BY <1>2, <1>3, <1>4, <1>5, <1>6, <1>7, <1>8, <1>9, <1>10 DEF Receiver

LEMMA SetUpStep == CompleteInv /\ [Next]_vars => SetUpInv'
  <1> SUFFICES ASSUME CompleteInv, [Next]_vars PROVE SetUpInv'
    OBVIOUS
  <1>1. ASSUME NEW r \in Requests, NEW mtu \in MTUs, measure(r, mtu) PROVE SetUpInv'
    BY <1>1 DEF measure, Goto, SetUpInv, Prepared, Opened
  <1>2. ASSUME NEW b \in BOOLEAN, setDualSATA(b) PROVE SetUpInv'
    BY <1>2 DEF setDualSATA, SetUpInv, Prepared, Opened
  <1>3. ASSUME NEW s \in Stream, Emit(s) PROVE SetUpInv'
    <2>1. UNCHANGED <<pc, cur, samples, octets, sockets, UDP_data>> /\ Steady
      BY <1>3, SteadyEmit DEF Emit
    <2>2. QED
      BY <2>1, SteadyMeans DEF CompleteInv, FreshInv, SetUpInv, Steady
  <1>4. CASE UNCHANGED vars
    <2>1. UNCHANGED <<pc, cur, samples, octets, sockets, UDP_data>> /\ Steady
      BY <1>4 DEF vars, command, camera, host, Steady
    <2>2. QED
      BY <2>1, SteadyMeans DEF CompleteInv, FreshInv, SetUpInv, Steady
  <1>5. QED
    BY <1>1, <1>2, <1>3, <1>4, SetUpReceiver DEF Next

-----------------------------------------------------------------------------
(* The data.                                                               *)

(* The streams are started: the camera has everything to send.             *)
LEMMA DataStarted ==
  ASSUME CompleteInv, startStream, pc' = "data", Undisturbed'
  PROVE  \A s \in stream_list : StreamGood(s)'
  <1> DEFINE u == [UDP_data EXCEPT !.start = measured]
  <1>1. Undisturbed /\ Steady
    BY UndisturbedBefore, SteadyReceiver DEF Receiver, SetUp, startReceive, startStream, CompleteInv
  <1>2. /\ pc = "start" /\ running' = Stream /\ got' = got /\ buffer' = buffer
        /\ (Arrives(u) /\ UNCHANGED fault) \/ (Lost /\ fault' = TRUE)
    BY DEF startStream, Return
  <1>3. Arrives(u) /\ Execute(u)
    BY <1>2 DEF Undisturbed, Arrives
  <1>4. /\ u.start = measured /\ u.sata = {} /\ ~u.count
        /\ u.octets = UDP_data.octets /\ \A s \in Stream : u.octets[s] = 0
    BY <1>2, CollectedFields DEF CompleteInv, FreshInv, WaitingInv, Opened
  <1>5. sata' = sata /\ samples' = samples /\ samples = sample_number /\ sata = dualSATA
    BY <1>1, <1>2, <1>3, <1>4 DEF Execute, CompleteInv, FreshInv, SetUpInv, WaitingInv, Undisturbed,
                                   Prepared, Opened
  <1>6. u.start > 0
    <2>1. measured \in 0..MaxMeasure
      BY DEF CompleteInv, FreshInv, TypeInv, TypeOK
    <2>2. measured # 0
      BY <1>2 DEF CompleteInv, FreshInv, BegunInv
    <2>3. QED
      BY <1>4, <2>1, <2>2
  <1>7. on' = Stream /\ left' = [s \in Stream |-> CameraPackets(s, sata', samples', octets'[s])]
    BY <1>3, <1>6 DEF Execute
  <1> SUFFICES ASSUME NEW s \in stream_list PROVE StreamGood(s)'
    OBVIOUS
  <1>8. s \in Stream /\ octets[s] = octet
    BY <1>1, <1>2, Listed DEF Undisturbed, CompleteInv, SetUpInv, Opened
  <1>9. octets'[s] = octet
    BY <1>3, <1>4, <1>8 DEF Execute
  <1>10. left'[s] = total(s)
    BY <1>5, <1>7, <1>8, <1>9 DEF total
  <1>11. total(s) \in Nat
    <2>1. octet \in Nat \ {0} /\ sample_number \in Nat /\ req \in Request /\ dualSATA \in BOOLEAN
      BY <1>2, Listed, NativeAssumption DEF Opened, CompleteInv, FreshInv, TypeInv, TypeOK
    <2>2. QED
      BY <1>8, <2>1, PacketsAreNat DEF total
  <1>12. Len(got'[s]) \in Nat /\ Len(buffer'[s]) \in Nat
    <2>1. buffer[s] \in Seq(Packet) /\ got[s] \in Seq(Packet)
      BY <1>8 DEF CompleteInv, FreshInv, TypeInv, TypeOK
    <2>2. QED
      BY <1>2, <2>1
  <1>13. total(s)' = total(s)
    BY <1>1, <1>8, SteadyMeans DEF CompleteInv, FreshInv
  <1>14. Len(got'[s]) + Len(buffer'[s]) + left'[s] >= total(s)
    <2> DEFINE g == Len(got'[s])
               b == Len(buffer'[s])
               l == left'[s]
               t == total(s)
    <2>1. g \in Nat /\ b \in Nat /\ t \in Nat /\ l = t
      BY <1>10, <1>11, <1>12
    <2> HIDE DEF g, b, l, t
    <2>2. g + b + l >= t
      BY <2>1
    <2>3. QED
      BY <2>2, Zenon DEF g, b, l, t
  <1>15. s \in on' /\ s \in running'
    BY <1>2, <1>7, <1>8
  <1>16. QED
    BY <1>13, <1>14, <1>15 DEF StreamGood

(* What is known while the data are read.                                  *)
LEMMA Reading ==
  ASSUME CompleteInv, pc = "data", Undisturbed, NEW s \in stream_list
  PROVE  /\ StreamGood(s) /\ s \in Stream /\ s \in sockets
         /\ total(s) \in Nat /\ left \in [Stream -> Nat] /\ left[s] \in Nat
         /\ got \in [Stream -> Seq(Packet)] /\ Len(got[s]) \in Nat
         /\ buffer \in [Stream -> Seq(Packet)] /\ Len(buffer[s]) \in Nat
  <1>1. StreamGood(s)
    BY DEF CompleteInv, DataInv
  <1>2. s \in sockets
    BY DEF CompleteInv, SetUpInv, Opened, Undisturbed
  <1>3. s \in Stream /\ octet \in Nat \ {0}
    BY Listed DEF CompleteInv, Opened
  <1>4. total(s) \in Nat
    BY <1>3, PacketsAreNat, NativeAssumption DEF total, CompleteInv, FreshInv, TypeInv, TypeOK
  <1>5. left \in [Stream -> Nat] /\ got \in [Stream -> Seq(Packet)] /\ buffer \in [Stream -> Seq(Packet)]
    BY DEF CompleteInv, FreshInv, TypeInv, TypeOK
  <1>6. left[s] \in Nat /\ got[s] \in Seq(Packet) /\ buffer[s] \in Seq(Packet)
    BY <1>3, <1>5
  <1>7. QED
    BY <1>1, <1>2, <1>3, <1>4, <1>5, <1>6

(* Enough remains enough as long as what is read grows.                    *)
LEMMA EnoughKept ==
  ASSUME CompleteInv, Steady, NEW s \in Stream, got'[s] = got[s], Enough(s)
  PROVE  Enough(s)'
  BY SteadyMeans DEF CompleteInv, FreshInv, Enough

LEMMA SizesAreInt ==
  ASSUME FreshInv, pc \in Opened, NEW s \in stream_list
  PROVE  packets_per_adc(stream_adc(s)) \in Int
  <1>1. s \in Stream /\ octet \in Nat \ {0}
    BY Listed
  <1>2. RoundUp(SampleBytes(Expected(stream_adc(s)))) \in Nat
    BY <1>1, AdcIsAdc, SampleSizes DEF stream_adc, FreshInv, TypeInv, TypeOK
  <1>3. RoundUp(SampleBytes(Expected(stream_adc(s)))) * sample_number \in Nat /\ octet * 8 \in Nat \ {0}
    BY <1>1, <1>2, Products, NativeAssumption
  <1>4. QED
    BY <1>3, Quotient DEF packets_per_adc

LEMMA DataEmit ==
  ASSUME CompleteInv, NEW t \in Stream, Emit(t), pc = "data", Undisturbed', NEW s \in stream_list
  PROVE  StreamGood(s)'
  <1>1. Undisturbed /\ Steady /\ ~fault'
    BY SteadyEmit DEF Undisturbed, Steady, Emit, asked
  <1>2. /\ s \in on /\ s \in Stream /\ Len(got[s]) \in Nat /\ Len(buffer[s]) \in Nat /\ left[s] \in Nat
        /\ total(s) \in Nat /\ total(s)' = total(s)
        /\ Len(got[s]) + Len(buffer[s]) + left[s] >= total(s)
        /\ s \notin running => Enough(s)
    BY <1>1, Reading, SteadyMeans DEF StreamGood, CompleteInv, FreshInv
  <1>3. got' = got /\ on' = on /\ running' = running
    BY DEF Emit
  <1>4. CASE s # t
    <2>1. left'[s] = left[s] /\ buffer'[s] = buffer[s]
      BY <1>1, <1>4, Reading DEF Emit
    <2>2. QED
      BY <1>1, <1>2, <1>3, <2>1, EnoughKept DEF StreamGood
  <1>5. CASE s = t
    <2>1. left'[s] = left[s] - 1
      BY <1>1, <1>5, Reading DEF Emit
    <2>2. PICK p : buffer'[s] = Append(buffer[s], p)
      BY <1>1, <1>5, Reading DEF Emit
    <2>3. buffer[s] \in Seq(Packet)
      BY <1>1, Reading
    <2>4. Len(buffer'[s]) = Len(buffer[s]) + 1
      BY <2>2, <2>3
    <2>5. Len(got'[s]) + Len(buffer'[s]) + left'[s] = Len(got[s]) + Len(buffer[s]) + left[s]
      <3> DEFINE g  == Len(got[s])
                 b  == Len(buffer[s])
                 l  == left[s]
                 g2 == Len(got'[s])
                 b2 == Len(buffer'[s])
                 l2 == left'[s]
      <3>1. g \in Nat /\ b \in Nat /\ l \in Nat /\ g2 = g /\ b2 = b + 1 /\ l2 = l - 1
        BY <1>2, <1>3, <2>1, <2>4
      <3> HIDE DEF g, b, l, g2, b2, l2
      <3>2. g2 + b2 + l2 = g + b + l
        BY <3>1
      <3>3. QED
        BY <3>2, Zenon DEF g, b, l, g2, b2, l2
    <2>6. QED
      BY <1>1, <1>2, <1>3, <2>5, EnoughKept DEF StreamGood
  <1>6. QED
    BY <1>4, <1>5

LEMMA DataRead ==
  ASSUME CompleteInv, Recv \/ TimeOut \/ Skip, Undisturbed', NEW s \in stream_list
  PROVE  StreamGood(s)'
  <1>0. pc = "data" /\ on' = on /\ left' = left
    BY DEF Recv, TimeOut, Skip, InTurn, command, camera
  <1>1. Undisturbed /\ Steady /\ ~fault'
    <2>1. Receiver /\ ~SetUp /\ ~startReceive
      BY <1>0 DEF Receiver, SetUp, startReceive
    <2>2. QED
      BY <2>1, UndisturbedBefore, SteadyReceiver DEF CompleteInv, Undisturbed
  <1>2. /\ s \in on /\ s \in Stream /\ Len(got[s]) \in Nat /\ Len(buffer[s]) \in Nat /\ left[s] \in Nat
        /\ total(s) \in Nat /\ total(s)' = total(s)
        /\ Len(got[s]) + Len(buffer[s]) + left[s] >= total(s)
        /\ s \notin running => Enough(s)
    BY <1>0, <1>1, Reading, SteadyMeans DEF StreamGood, CompleteInv, FreshInv
  <1>3. CASE s # cur
    <2>1. got'[s] = got[s] /\ buffer'[s] = buffer[s] /\ (s \notin running' => s \notin running)
      <3>1. CASE Recv
        BY <1>0, <1>1, <1>3, <3>1, ReadOne, Reading DEF Recv, CompleteInv, FreshInv
      <3>2. CASE TimeOut \/ Skip
        BY <1>3, <3>2 DEF TimeOut, Skip
      <3>3. QED
        BY <3>1, <3>2
    <2>2. QED
      BY <1>0, <1>1, <1>2, <2>1, EnoughKept DEF StreamGood
  <1>4. CASE s = cur /\ Recv
    <2>1. /\ got'[s] = Append(got[s], Head(buffer[s])) /\ buffer'[s] = Tail(buffer[s])
          /\ buffer[s] # <<>> /\ s \in running'
      BY <1>0, <1>1, <1>4, ReadOne, Reading DEF Recv, CompleteInv, FreshInv
    <2>2. Len(got'[s]) = Len(got[s]) + 1 /\ Len(buffer'[s]) = Len(buffer[s]) - 1
      <3>1. got[s] \in Seq(Packet) /\ buffer[s] \in Seq(Packet)
        BY <1>0, <1>1, Reading
      <3>2. QED
        BY <2>1, <3>1
    <2>3. Len(got'[s]) + Len(buffer'[s]) + left'[s] = Len(got[s]) + Len(buffer[s]) + left[s]
      <3> DEFINE g  == Len(got[s])
                 b  == Len(buffer[s])
                 l  == left[s]
                 g2 == Len(got'[s])
                 b2 == Len(buffer'[s])
                 l2 == left'[s]
      <3>1. g \in Nat /\ b \in Nat /\ l \in Nat /\ g2 = g + 1 /\ b2 = b - 1 /\ l2 = l
        BY <1>0, <1>2, <2>2
      <3> HIDE DEF g, b, l, g2, b2, l2
      <3>2. g2 + b2 + l2 = g + b + l
        BY <3>1
      <3>3. QED
        BY <3>2, Zenon DEF g, b, l, g2, b2, l2
    <2>4. QED
      BY <1>0, <1>2, <2>1, <2>3 DEF StreamGood
  <1>5. CASE s = cur /\ TimeOut
    <2>1. s \in running /\ buffer[s] = <<>> /\ got' = got /\ buffer' = buffer
      BY <1>5 DEF TimeOut, Readable
    <2>2. left[s] = 0
      <3>1. ~(s \in on /\ left[s] > 0)
        BY <1>1, <1>5, Zenon DEF TimeOut
      <3>2. QED
        BY <1>2, <3>1
    <2>3. Enough(s)
      BY <1>2, <2>1, <2>2 DEF Enough
    <2>4. QED
      BY <1>0, <1>1, <1>2, <2>1, <2>3, EnoughKept DEF StreamGood
  <1>6. CASE s = cur /\ Skip
    <2>1. got' = got /\ buffer' = buffer
          /\ (s \notin running \/ ~(Len(got[s]) < packets_per_adc(stream_adc(s))))
      BY <1>6 DEF Skip, Readable
    <2>2. Enough(s)
      <3>1. CASE s \notin running
        BY <1>2, <3>1
      <3>2. CASE ~(Len(got[s]) < packets_per_adc(stream_adc(s)))
        BY <1>0, <1>2, <3>2, SizesAreInt DEF Enough, CompleteInv, Opened
      <3>3. QED
        BY <2>1, <3>1, <3>2
    <2>3. QED
      BY <1>0, <1>1, <1>2, <2>1, <2>2, EnoughKept DEF StreamGood
  <1>7. QED
    BY <1>3, <1>4, <1>5, <1>6

LEMMA DataReceiver == CompleteInv /\ Receiver => DataInv'
  <1> SUFFICES ASSUME CompleteInv, Receiver, Steady, pc' = "data", Undisturbed',
                      NEW s \in stream_list
               PROVE  StreamGood(s)'
    BY SteadyReceiver, SteadyMeans DEF DataInv, CompleteInv, FreshInv
  <1>1. startStream \/ Recv \/ TimeOut \/ Skip
    BY DEF Receiver, SetUp, getNetParameters, allocate, startReceive, OpenStream, OpenNext, OpenDone,
           StopFirst, DataDone, StopAfter, stopReceive, Goto, Return
  <1>2. QED
    BY <1>1, DataStarted, DataRead

LEMMA DataStep == CompleteInv /\ [Next]_vars => DataInv'
  <1> SUFFICES ASSUME CompleteInv, [Next]_vars PROVE DataInv'
    OBVIOUS
  <1>1. ASSUME NEW r \in Requests, NEW mtu \in MTUs, measure(r, mtu) PROVE DataInv'
    BY <1>1 DEF measure, Goto, DataInv
  <1>2. ASSUME NEW b \in BOOLEAN, setDualSATA(b) PROVE DataInv'
    BY <1>2 DEF setDualSATA, DataInv
  <1>3. ASSUME NEW t \in Stream, Emit(t) PROVE DataInv'
    <2>1. pc' = pc /\ stream_list' = stream_list
      BY <1>3, SteadyEmit, SteadyMeans DEF Emit, CompleteInv, FreshInv
    <2>2. QED
      BY <1>3, <2>1, DataEmit DEF DataInv
  <1>4. CASE UNCHANGED vars
    <2>1. UNCHANGED <<pc, on, got, buffer, left, running, clean, sata, fault, dualSATA>> /\ Steady
      BY <1>4 DEF vars, command, camera, asked, host, Steady
    <2>2. SUFFICES ASSUME pc = "data", Undisturbed, NEW s \in stream_list PROVE StreamGood(s)'
      BY <2>1, SteadyMeans DEF DataInv, Undisturbed, CompleteInv, FreshInv
    <2>3. StreamGood(s) /\ s \in Stream
      BY <2>2, Reading
    <2>4. QED
      BY <2>1, <2>3, SteadyMeans, EnoughKept DEF StreamGood, CompleteInv, FreshInv
  <1>5. QED
    BY <1>1, <1>2, <1>3, <1>4, DataReceiver DEF Next

-----------------------------------------------------------------------------
(* The end.                                                                *)

LEMMA DoneReceiver == CompleteInv /\ Receiver => DoneInv'
  <1> SUFFICES ASSUME CompleteInv, Receiver, Steady, pc' \in {"stopStream", "stopReceive"}, Undisturbed',
                      NEW s \in stream_list
               PROVE  Enough(s)'
    BY SteadyReceiver, SteadyMeans DEF DoneInv, CompleteInv, FreshInv
  <1>1. DataDone \/ StopAfter
    BY DEF Receiver, SetUp, getNetParameters, allocate, startReceive, OpenStream, OpenNext, OpenDone,
           StopFirst, startStream, Recv, TimeOut, Skip, InTurn, stopReceive, Goto, Return
  <1>2. Undisturbed /\ got' = got
    BY <1>1, UndisturbedBefore DEF CompleteInv, DataDone, StopAfter, SetUp, startReceive, host
  <1>3. Enough(s) /\ s \in Stream
    <2>1. CASE DataDone
      BY <1>2, <2>1, Reading DEF DataDone, StreamGood
    <2>2. CASE StopAfter
      BY <1>2, <2>2, Listed DEF StopAfter, CompleteInv, DoneInv, Opened
    <2>3. QED
      BY <1>1, <2>1, <2>2
  <1>4. QED
    BY <1>2, <1>3, EnoughKept

LEMMA DoneStep == CompleteInv /\ [Next]_vars => DoneInv'
  <1> SUFFICES ASSUME CompleteInv, [Next]_vars PROVE DoneInv'
    OBVIOUS
  <1>1. ASSUME NEW r \in Requests, NEW mtu \in MTUs, measure(r, mtu) PROVE DoneInv'
    BY <1>1 DEF measure, Goto, DoneInv
  <1>2. ASSUME NEW b \in BOOLEAN, setDualSATA(b) PROVE DoneInv'
    BY <1>2 DEF setDualSATA, DoneInv
  <1>3. ASSUME UNCHANGED <<pc, got, clean, sata>>, Steady PROVE DoneInv'
    <2>1. SUFFICES ASSUME pc \in {"stopStream", "stopReceive"}, Undisturbed, NEW s \in stream_list
                   PROVE  Enough(s)'
      BY <1>3, SteadyMeans DEF DoneInv, Undisturbed, Steady, asked, CompleteInv, FreshInv
    <2>2. Enough(s) /\ s \in Stream
      BY <2>1, Listed DEF CompleteInv, DoneInv, Opened
    <2>3. QED
      BY <1>3, <2>2, EnoughKept
  <1>4. ASSUME NEW t \in Stream, Emit(t) PROVE DoneInv'
    BY <1>3, <1>4, SteadyEmit DEF Emit
  <1>5. CASE UNCHANGED vars
    BY <1>3, <1>5 DEF vars, command, camera, host, Steady
  <1>6. QED
    BY <1>1, <1>2, <1>4, <1>5, DoneReceiver DEF Next

(* Enough packets leave less than one of them missing.                     *)
LEMMA EnoughIsComplete ==
  ASSUME CompleteInv, pc \in Opened, NEW s \in stream_list, Enough(s)
  PROVE  Missing(s) < octet * 8
  <1>1. s \in Stream /\ octet \in Nat \ {0}
    BY Listed DEF CompleteInv
  <1> DEFINE m == RoundUp(SampleBytes(Sent(stream_adc(s))))
             e == RoundUp(SampleBytes(Expected(stream_adc(s))))
             n == Len(got[s])
             size == octet * 8
  <1>2. m \in Nat /\ e \in Nat /\ m <= e
    BY <1>1, AdcIsAdc, SampleSizes DEF stream_adc, CompleteInv, FreshInv, TypeInv, TypeOK
  <1>3. n \in Nat
    <2>1. got[s] \in Seq(Packet)
      BY <1>1 DEF CompleteInv, FreshInv, TypeInv, TypeOK
    <2>2. QED
      BY <2>1
  <1>4. size \in Nat \ {0} /\ sample_number \in Nat \ {0}
    BY <1>1, Products, NativeAssumption
  <1>5. m * sample_number \in Nat /\ e * sample_number \in Nat /\ m * sample_number <= e * sample_number
    BY <1>2, <1>4, Products, Multiples
  <1>6. n >= (e * sample_number) \div size \/ n >= CeilDiv(m * sample_number, size)
    <2>1. packets_per_adc(stream_adc(s)) = (e * sample_number) \div size
      BY DEF packets_per_adc
    <2>2. s \in StreamsOf(dualSATA) /\ sample_number # 0
      BY <1>4 DEF stream_list
    <2>3. total(s) = CeilDiv(m * sample_number, size)
      BY <2>2 DEF total, CameraPackets, stream_adc
    <2>4. QED
      BY <2>1, <2>3 DEF Enough
  <1>7. Missing(s) = m * sample_number - n * size
    BY DEF Missing
  <1> HIDE DEF m, e, n, size
  <1>8. m * sample_number - n * size < size
    BY <1>3, <1>4, <1>5, <1>6, Rest
  <1>9. QED
    BY <1>7, <1>8 DEF size

(* When the receiver stops to read in a measurement in which nothing got   *)
(* lost and no stream was running before, less than a packet of each ADC   *)
(* is missing, for any sample number, masks and size of the packets: the   *)
(* receiver, which counts full packets only, waits for channels that do not*)
(* exist and gives up a stream after a silent second, misses nothing else. *)
THEOREM MeasurementIsComplete == Spec => []Complete
  <1>1. CompleteInv /\ [Next]_vars => CompleteInv'
    BY FreshStep, SetUpStep, DataStep, DoneStep DEF CompleteInv
  <1>2. CompleteInv => Complete
    BY EnoughIsComplete DEF CompleteInv, DoneInv, Undisturbed, Opened, Complete
  <1>3. QED
    BY CompleteInit, <1>1, <1>2, PTL DEF Spec
=============================================================================
