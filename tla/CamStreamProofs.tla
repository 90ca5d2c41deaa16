--------------------------- MODULE CamStreamProofs ---------------------------
(***************************************************************************)
(* Proofs about CamStream: types; that no wakeup is lost and nothing is    *)
(* left in the ring; and that the samples are stored in order.             *)
(***************************************************************************)
EXTENDS CamStream, SequenceTheorems, TLAPS

-----------------------------------------------------------------------------
(* Division.                                                               *)

LEMMA QuotientType == ASSUME NEW a \in Int, NEW b \in Nat \ {0} PROVE a \div b \in Int
  OBVIOUS

LEMMA RemainderType == ASSUME NEW a \in Int, NEW b \in Nat \ {0} PROVE a % b \in 0..(b - 1)
  OBVIOUS

LEMMA Division == ASSUME NEW a \in Int, NEW b \in Nat \ {0} PROVE a = b * (a \div b) + (a % b)
  OBVIOUS

LEMMA Multiple ==
  ASSUME NEW b \in Nat \ {0}, NEW q \in Int, q >= 1
  PROVE  b * q \in Int /\ b * q >= b
  OBVIOUS

LEMMA DivisionUnique ==
  ASSUME NEW a \in Int, NEW b \in Nat \ {0}, NEW q \in Int, NEW r \in 0..(b - 1), a = b * q + r
  PROVE  a \div b = q /\ a % b = r
  <1> DEFINE p == a \div b
             s == a % b
             d == p - q
  <1>1. p \in Int /\ s \in 0..(b - 1) /\ a = b * p + s
    BY QuotientType, RemainderType, Division
  <1> HIDE DEF p, s
  <1>2. d \in Int /\ b * d = r - s
    <2>1. b * (p - q) = b * p - b * q
      BY <1>1
    <2>2. b * p \in Int /\ b * q \in Int
      BY <1>1
    <2>3. QED
      BY <1>1, <2>1, <2>2
  <1>3. ~(d >= 1)
    <2>1. d >= 1 => b * d >= b
      BY <1>2, Multiple
    <2>2. QED
      BY <1>1, <1>2, <2>1
  <1>4. ~(-d >= 1)
    <2>1. -d >= 1 => b * (-d) >= b
      BY <1>2, Multiple
    <2>2. b * (-d) = -(b * d)
      BY <1>2
    <2>3. QED
      BY <1>1, <1>2, <2>1, <2>2
  <1>5. d = 0
    BY <1>2, <1>3, <1>4
  <1>6. p = q /\ s = r
    BY <1>1, <1>2, <1>5
  <1>7. QED
    BY <1>6 DEF p, s

(* Numbers that are less than b apart have different remainders.           *)
LEMMA RemaindersDiffer ==
  ASSUME NEW b \in Nat \ {0}, NEW k \in Int, NEW n \in Int, k < n, n - k < b
  PROVE  k % b # n % b
  <1> SUFFICES ASSUME k % b = n % b PROVE FALSE
    OBVIOUS
  <1> DEFINE p == k \div b
             q == n \div b
             r == k % b
  <1>1. p \in Int /\ q \in Int /\ r \in 0..(b - 1)
    BY QuotientType, RemainderType
  <1>2. k = b * p + r /\ n = b * q + r
    <2>1. n = b * q + (n % b)
      BY Division
    <2>2. k = b * p + r
      BY Division
    <2>3. QED
      BY <2>1, <2>2
  <1> HIDE DEF p, q, r
  <1>3. b * p \in Int /\ b * q \in Int /\ b * (q - p) = b * q - b * p
    BY <1>1
  <1>4. b * (q - p) = n - k
    BY <1>1, <1>2, <1>3
  <1>5. q - p >= 1
    <2>1. q - p <= 0 => b * (q - p) <= 0
      BY <1>1
    <2>2. QED
      BY <1>1, <1>4, <2>1
  <1>6. QED
    BY <1>1, <1>4, <1>5, Multiple

LEMMA OneRound == ASSUME NEW b \in Nat \ {0}, NEW k \in Int PROVE (k + b) % b = k % b
  <1> DEFINE p == k \div b
             r == k % b
  <1>1. p \in Int /\ r \in 0..(b - 1) /\ k = b * p + r
    BY QuotientType, RemainderType, Division
  <1> HIDE DEF p, r
  <1>2. b * (p + 1) = b * p + b /\ b * p \in Int /\ p + 1 \in Int
    BY <1>1
  <1>3. k + b = b * (p + 1) + r
    BY <1>1, <1>2
  <1>4. (k + b) % b = r
    <2>1. k + b \in Int
      OBVIOUS
    <2>2. QED
      BY <1>1, <1>2, <1>3, <2>1, DivisionUnique
  <1>5. QED
    BY <1>4 DEF r

(* Between two multiples of b the last one remains the same.               *)
LEMMA SameMultiple ==
  ASSUME NEW b \in Nat \ {0}, NEW n \in Nat, (n + 1) % b # 0
  PROVE  (n + 1) - ((n + 1) % b) = n - (n % b)
  <1> DEFINE q == n \div b
             r == n % b
  <1>1. q \in Int /\ r \in 0..(b - 1) /\ n = b * q + r
    BY QuotientType, RemainderType, Division
  <1> HIDE DEF q, r
  <1>2. b * q \in Int /\ b * (q + 1) = b * q + b /\ n + 1 \in Int
    BY <1>1
  <1>3. r + 1 < b
    <2> SUFFICES ASSUME r = b - 1 PROVE FALSE
      BY <1>1
    <2>1. n + 1 = b * (q + 1) + 0
      BY <1>1, <1>2
    <2>2. q + 1 \in Int /\ 0 \in 0..(b - 1)
      BY <1>1
    <2>3. QED
      BY <1>2, <2>1, <2>2, DivisionUnique
  <1>4. n + 1 = b * q + (r + 1) /\ r + 1 \in 0..(b - 1)
    BY <1>1, <1>2, <1>3
  <1>5. (n + 1) % b = r + 1
    BY <1>1, <1>2, <1>4, DivisionUnique
  <1>6. (n + 1) - (r + 1) = n - r
    BY <1>1
  <1>7. QED
    BY <1>5, <1>6 DEF r

LEMMA QuotientIsNat == ASSUME NEW a \in Nat, NEW b \in Nat \ {0} PROVE a \div b \in Nat
  OBVIOUS

-----------------------------------------------------------------------------
(* What ProcessFrame does: the data in the work buffer, the blocks they    *)
(* hold and those that are stored.                                         *)

Data(octets)    == work \o octets
Blocks(octets)  == Len(Data(octets)) \div BlockOctets
StoredOf(octets) == IF type = "one_shot" THEN Lesser(Blocks(octets), StopAt - SampleCount)
                                         ELSE Blocks(octets)
Block(octets, b) == SubSeq(Data(octets), (b - 1) * BlockOctets + 1, b * BlockOctets)

(* The last block that is stored at an index, if it is one of this frame.  *)
LastAt(octets, i) == StoredOf(octets) - ((SampleIndex + StoredOf(octets) - 1 - i) % UserSamples)

LEMMA Sizes ==
  /\ BlockOctets \in Nat \ {0} /\ PacketOctets \in Nat \ {0} /\ MaxPacketNo \in Nat \ {0}
  /\ UserSamples \in Nat \ {0} /\ StopAt \in Nat \ {0} /\ UIntOctets \in Nat \ {0}
  BY StreamAssumption

(* The number of octets that the receiver waits for.                       *)
LEMMA RequestedType == RequestedData \in Nat
  <1>1. StopAt * BlockOctets \in Nat
    BY Sizes
  <1>2. QED
    BY <1>1, Sizes, RemainderType DEF RequestedData

LEMMA DataAsked == ASSUME DataFits PROVE RequestedData = StopAt * BlockOctets
  <1>1. StopAt * BlockOctets \in Nat
    BY Sizes
  <1>2. QED
    BY <1>1, Sizes DEF RequestedData, DataFits

LEMMA FrameData ==
  ASSUME TypeOK, NEW octets \in Seq(Nat)
  PROVE  /\ Data(octets) \in Seq(Nat) /\ Len(Data(octets)) \in Nat
         /\ Blocks(octets) \in Nat /\ StoredOf(octets) \in Int /\ StoredOf(octets) <= Blocks(octets)
         /\ Blocks(octets) * BlockOctets \in Nat
         /\ Len(Data(octets)) - Blocks(octets) * BlockOctets \in 0..(BlockOctets - 1)
  <1> DEFINE n == Len(Data(octets))
             b == Blocks(octets)
  <1>1. Data(octets) \in Seq(Nat) /\ n \in Nat
    <2>1. work \in Seq(Nat)
      BY DEF TypeOK
    <2>2. QED
      BY <2>1 DEF Data
  <1>2. b \in Nat
    BY <1>1, Sizes, QuotientIsNat DEF Blocks
  <1>3. n = BlockOctets * b + (n % BlockOctets) /\ n % BlockOctets \in 0..(BlockOctets - 1)
    <2>1. n \in Int /\ BlockOctets \in Nat \ {0}
      BY <1>1, Sizes
    <2>2. QED
      BY <2>1, Division, RemainderType DEF Blocks
  <1>4. StoredOf(octets) \in Int /\ StoredOf(octets) <= b
    <2>1. StopAt - SampleCount \in Int
      BY Sizes DEF TypeOK
    <2>2. QED
      BY <1>2, <2>1 DEF StoredOf, Lesser
  <1> HIDE DEF n, b
  <1>5. BlockOctets * b = b * BlockOctets /\ b * BlockOctets \in Nat
    BY <1>2, Sizes
  <1>6. n - b * BlockOctets \in 0..(BlockOctets - 1)
    BY <1>1, <1>3, <1>5, Sizes
  <1>7. QED
    BY <1>1, <1>2, <1>4, <1>5, <1>6 DEF n, b

LEMMA BlockData ==
  ASSUME TypeOK, NEW octets \in Seq(Nat), NEW b \in Nat, b >= 1, b <= Blocks(octets)
  PROVE  /\ Block(octets, b) \in Seq(Nat) /\ Len(Block(octets, b)) = BlockOctets
         /\ \A k \in 1..BlockOctets :
              /\ Block(octets, b)[k] = Data(octets)[(b - 1) * BlockOctets + k]
              /\ (b - 1) * BlockOctets + k \in 1..Len(Data(octets))
  <1> DEFINE low  == (b - 1) * BlockOctets
             high == b * BlockOctets
             n    == Len(Data(octets))
             all  == Blocks(octets) * BlockOctets
  <1>1. /\ low \in Nat /\ high \in Nat /\ high = low + BlockOctets
        /\ n \in Nat /\ all \in Nat /\ all <= n /\ high <= all
    <2>1. BlockOctets \in Nat /\ Blocks(octets) \in Nat /\ b - 1 \in Nat
      BY Sizes, FrameData
    <2>2. low \in Nat /\ high \in Nat /\ high = low + BlockOctets
      BY <2>1
    <2>3. n \in Nat /\ all \in Nat /\ all <= n
      BY <2>1, FrameData
    <2>4. high <= all
      <3>1. (Blocks(octets) - b) * BlockOctets \in Nat
            /\ (Blocks(octets) - b) * BlockOctets = Blocks(octets) * BlockOctets - b * BlockOctets
        BY <2>1
      <3>2. QED
        BY <2>2, <2>3, <3>1
    <2>5. QED
      BY <2>2, <2>3, <2>4
  <1>2. Data(octets) \in Seq(Nat)
    BY FrameData
  <1>3. Block(octets, b) = SubSeq(Data(octets), low + 1, high)
    BY DEF Block
  <1> HIDE DEF low, high, n, all
  <1>4. \A i \in (low + 1)..high : i \in 1..n
    BY <1>1
  <1>5. \A i \in (low + 1)..high : Data(octets)[i] \in Nat
    BY <1>2, <1>4, ElementOfSeq DEF n
  <1>6. low + 1 \in Int /\ high \in Int /\ low + 1 <= high /\ high - (low + 1) + 1 = BlockOctets
    BY <1>1, Sizes
  <1>7. /\ Block(octets, b) \in Seq(Nat) /\ Len(Block(octets, b)) = BlockOctets
        /\ \A k \in 1..BlockOctets : Block(octets, b)[k] = Data(octets)[low + 1 + k - 1]
    BY <1>3, <1>5, <1>6, SubSeqProperties
  <1>8. \A k \in 1..BlockOctets : low + 1 + k - 1 = low + k /\ low + k \in 1..n
    BY <1>1, Sizes
  <1>9. QED
    BY <1>7, <1>8 DEF low, n

LEMMA RestData ==
  ASSUME TypeOK, NEW octets \in Seq(Nat)
  PROVE  LET rest == SubSeq(Data(octets), Blocks(octets) * BlockOctets + 1, Len(Data(octets))) IN
         /\ rest \in Seq(Nat) /\ Len(rest) < BlockOctets
         /\ Len(Data(octets)) = Blocks(octets) * BlockOctets + Len(rest)
         /\ \A i \in 1..Len(rest) :
              /\ rest[i] = Data(octets)[Blocks(octets) * BlockOctets + i]
              /\ Blocks(octets) * BlockOctets + i \in 1..Len(Data(octets))
  <1> DEFINE low == Blocks(octets) * BlockOctets
             n   == Len(Data(octets))
             rest == SubSeq(Data(octets), low + 1, n)
  <1>1. low \in Nat /\ n \in Nat /\ n - low \in 0..(BlockOctets - 1) /\ Data(octets) \in Seq(Nat)
    BY FrameData
  <1>2. \A i \in 1..n : Data(octets)[i] \in Nat
    BY <1>1, ElementOfSeq
  <1> HIDE DEF low, n
  <1>3. \A i \in (low + 1)..n : Data(octets)[i] \in Nat
    BY <1>1, <1>2
  <1>4. low + 1 \in Int /\ n \in Int /\ n - (low + 1) + 1 = n - low
        /\ (IF low + 1 <= n THEN n - (low + 1) + 1 ELSE 0) = n - low
    BY <1>1
  <1>5. /\ rest \in Seq(Nat) /\ Len(rest) = n - low
        /\ \A i \in 1..(n - low) : rest[i] = Data(octets)[low + 1 + i - 1]
    BY <1>3, <1>4, SubSeqProperties
  <1>6. BlockOctets \in Nat
    BY Sizes
  <1>7. n - low < BlockOctets /\ n = low + (n - low)
    BY <1>1, <1>6
  <1>8. \A i \in 1..(n - low) : low + 1 + i - 1 = low + i /\ low + i \in 1..n
    BY <1>1, <1>6
  <1>9. QED
    BY <1>5, <1>7, <1>8 DEF low, n

LEMMA FrameDone ==
  ASSUME NEW octets, Running, ProcessFrame(octets)
  PROVE  /\ work' = SubSeq(Data(octets), Blocks(octets) * BlockOctets + 1, Len(Data(octets)))
         /\ SampleCount' = SampleCount + Blocks(octets)
         /\ SampleIndex' = (SampleIndex + StoredOf(octets)) % UserSamples
         /\ user' = [i \in DOMAIN user |-> IF LastAt(octets, i) >= 1 THEN Block(octets, LastAt(octets, i))
                                           ELSE user[i]]
         /\ Running' = (type = "cyclic" \/ SampleCount + Blocks(octets) < StopAt)
         /\ userNotified' = (userNotified \/ ~Running')
  BY DEF ProcessFrame, Data, Blocks, StoredOf, Block, LastAt, IndexAfter

(* The index of a block is one of the frame, or of an earlier one.         *)
LEMMA LastAtType ==
  ASSUME TypeOK, NEW octets \in Seq(Nat), NEW i \in 0..(UserSamples - 1)
  PROVE  /\ LastAt(octets, i) \in Int
         /\ LastAt(octets, i) >= 1 => LastAt(octets, i) \in Nat /\ LastAt(octets, i) <= Blocks(octets)
  <1>1. StoredOf(octets) \in Int /\ StoredOf(octets) <= Blocks(octets) /\ Blocks(octets) \in Nat
    BY FrameData
  <1>2. SampleIndex + StoredOf(octets) - 1 - i \in Int
    BY <1>1 DEF TypeOK
  <1>3. (SampleIndex + StoredOf(octets) - 1 - i) % UserSamples \in 0..(UserSamples - 1)
    BY <1>2, Sizes, RemainderType
  <1>4. QED
    BY <1>1, <1>3, Sizes DEF LastAt

LEMMA FrameTypes ==
  ASSUME TypeOK, NEW octets \in Seq(Nat), ProcessFrame(octets)
  PROVE  /\ work' \in Seq(Nat) /\ Len(work') < BlockOctets
         /\ Running' \in BOOLEAN /\ userNotified' \in BOOLEAN
         /\ SampleCount' \in Nat /\ SampleIndex' \in 0..(UserSamples - 1)
         /\ user' \in [0..(UserSamples - 1) -> Seq(Nat)]
  <1>1. CASE ~Running
    BY <1>1 DEF ProcessFrame, samples, TypeOK
  <1>2. CASE Running
    <2>1. work' \in Seq(Nat) /\ Len(work') < BlockOctets
      BY <1>2, FrameDone, RestData
    <2>2. Running' \in BOOLEAN /\ userNotified' \in BOOLEAN
      BY <1>2, FrameDone
    <2>3. SampleCount' \in Nat
      BY <1>2, FrameDone, FrameData DEF TypeOK
    <2>4. SampleIndex' \in 0..(UserSamples - 1)
      <3>1. SampleIndex + StoredOf(octets) \in Int
        BY FrameData DEF TypeOK
      <3>2. QED
        BY <1>2, <3>1, FrameDone, Sizes, RemainderType
    <2>5. user' \in [0..(UserSamples - 1) -> Seq(Nat)]
      <3>1. user \in [0..(UserSamples - 1) -> Seq(Nat)]
        BY DEF TypeOK
      <3>2. ASSUME NEW i \in 0..(UserSamples - 1), LastAt(octets, i) >= 1
            PROVE  Block(octets, LastAt(octets, i)) \in Seq(Nat)
        BY <3>2, LastAtType, BlockData
      <3>3. QED
        BY <1>2, <3>1, <3>2, FrameDone
    <2>6. QED
      BY <2>1, <2>2, <2>3, <2>4, <2>5
  <1>3. QED
    BY <1>1, <1>2

-----------------------------------------------------------------------------
(* Types.                                                                  *)

LEMMA SendsIsNat == ASSUME type \in {"one_shot", "cyclic"} PROVE Sends(type) \in Nat
  <1>1. CASE type = "cyclic"
    BY <1>1, StreamAssumption DEF Sends
  <1>2. CASE type = "one_shot"
    <2>1. StopAt * BlockOctets \in Nat
      BY Sizes
    <2>2. StopAt * BlockOctets + PacketOctets - 1 \in Nat
      BY <2>1, Sizes
    <2>3. QED
      BY <1>2, <2>2, Sizes, QuotientIsNat DEF Sends
  <1>3. QED
    BY <1>1, <1>2

LEMMA SlotType == ASSUME NEW k \in Nat PROVE k % MaxPacketNo \in Slot
  BY Sizes, RemainderType DEF Slot

LEMMA OctetTypes ==
  ASSUME TypeOK
  PROVE  /\ Packet0 \in Packet /\ Received \in Packet
         /\ Zeros \in Seq(Nat) /\ Len(Zeros) = PacketOctets
         /\ Packet0.own /\ Packet0.counter >= 1 => Payload \in Seq(Nat) /\ Len(Payload) = PacketOctets
  <1>1. Packet0 \in Packet /\ Received \in Packet
    <2>1. ring \in [Slot -> Packet] /\ m_PacketNo \in Nat /\ PacketCounter \in Nat
      BY DEF TypeOK
    <2>2. QED
      BY <2>1, SlotType DEF Packet0, Received, WriteSlot
  <1>2. Zeros \in Seq(Nat) /\ Len(Zeros) = PacketOctets
    BY Sizes DEF Zeros
  <1>3. ASSUME Packet0.counter >= 1 PROVE Payload \in Seq(Nat) /\ Len(Payload) = PacketOctets
    <2>1. Packet0.counter - 1 \in Nat
      BY <1>1, <1>3 DEF Packet
    <2>2. (Packet0.counter - 1) * PacketOctets \in Nat
      BY <2>1, Sizes
    <2>3. QED
      BY <2>2, Sizes DEF Payload
  <1>4. QED
    BY <1>1, <1>2, <1>3

(* The packets in the ring have been sent; the packet being evaluated is   *)
(* one that was counted, and stays in its slot, also when the receiver     *)
(* overtakes the evaluation.                                               *)
RingInv == \A s \in Slot : ring[s].own => ring[s].counter \in 1..(next - 1)

PlaceInv ==
  /\ m_PacketNo <= PacketCounter /\ packetNo <= PacketCounter
  /\ epc \in {"fill", "frame"} => m_PacketNo < packetNo /\ Packet0.own /\ Packet0.counter = header

TypeInv == TypeOK /\ RingInv /\ PlaceInv

LEMMA TypeInit == Init => TypeInv
  <1> SUFFICES ASSUME Init PROVE TypeInv
    OBVIOUS
  <1>1. Junk \in Packet /\ ~Junk.own
    BY DEF Junk, Packet
  <1>2. Sends(type) \in Nat
    BY SendsIsNat DEF Init
  <1>3. next \in 1..(Sends(type) + 1)
    <2>1. next = 1
      BY DEF Init
    <2>2. QED
      BY <1>2, <2>1
  <1>4. strays \in 0..MaxStrays /\ ExpectedPacketCounter \in Nat
    <2>1. strays = 0 /\ ExpectedPacketCounter = 1 /\ MaxStrays \in Nat
      BY StreamAssumption DEF Init
    <2>2. QED
      BY <2>1
  <1>5. work \in Seq(Nat) /\ Len(work) < BlockOctets
    <2>1. work = <<>>
      BY DEF Init
    <2>2. QED
      BY <2>1, Sizes
  <1>6. SampleIndex \in 0..(UserSamples - 1) /\ user \in [0..(UserSamples - 1) -> Seq(Nat)]
    <2>1. SampleIndex = 0 /\ user = [i \in 0..(UserSamples - 1) |-> <<>>]
      BY DEF Init
    <2>2. QED
      BY <2>1, Sizes
  <1>7. ring \in [Slot -> Packet] /\ \A s \in Slot : ~ring[s].own
    BY <1>1 DEF Init
  <1>8. TypeOK
    BY <1>3, <1>4, <1>5, <1>6, <1>7 DEF Init, TypeOK
  <1>9. QED
    BY <1>7, <1>8 DEF Init, TypeInv, RingInv, PlaceInv

(* A packet is written to another slot than the one being evaluated.       *)
LEMMA OtherSlot ==
  ASSUME TypeInv, MayWrite, epc \in {"fill", "frame"}
  PROVE  m_PacketNo % MaxPacketNo # WriteSlot
  <1>1. m_PacketNo \in Nat /\ PacketCounter \in Nat /\ m_PacketNo < PacketCounter
    BY DEF TypeInv, TypeOK, PlaceInv
  <1>2. CASE Room
    <2>1. PacketCounter - m_PacketNo < MaxPacketNo
      BY <1>2 DEF Room
    <2>2. m_PacketNo \in Int /\ PacketCounter \in Int /\ MaxPacketNo \in Nat \ {0}
      BY <1>1, Sizes
    <2>3. m_PacketNo % MaxPacketNo # PacketCounter % MaxPacketNo
      BY <1>1, <2>1, <2>2, RemaindersDiffer
    <2>4. QED
      BY <2>3 DEF WriteSlot
  <1>3. QED
    BY <1>2 DEF MayWrite

LEMMA TypeReceive ==
  ASSUME TypeInv, NEW p \in Packet, Receive(p), p.own => p.counter \in 1..(next' - 1),
         next' \in 1..(Sends(type) + 1), next' >= next, lost' = lost \cup Overwritten,
         strays' \in 0..MaxStrays, UNCHANGED <<faults, type>>
  PROVE  TypeInv'
  <1>1. WriteSlot \in Slot /\ ring \in [Slot -> Packet] /\ ring' = [ring EXCEPT ![WriteSlot] = p]
    BY SlotType DEF TypeInv, TypeOK, WriteSlot, Receive
  <1>2. ring' \in [Slot -> Packet]
    BY <1>1
  <1>3. next \in Int /\ next' \in Int
    <2>1. Sends(type) \in Nat
      BY SendsIsNat DEF TypeInv, TypeOK
    <2>2. QED
      BY <2>1 DEF TypeInv, TypeOK
  <1>4. RingInv'
    <2> SUFFICES ASSUME NEW s \in Slot, ring'[s].own PROVE ring'[s].counter \in 1..(next' - 1)
      BY DEF RingInv
    <2>1. CASE s = WriteSlot
      BY <1>1, <2>1
    <2>2. CASE s # WriteSlot
      <3>1. ring[s].own /\ ring'[s] = ring[s]
        BY <1>1, <2>2
      <3>2. ring[s].counter \in 1..(next - 1)
        BY <3>1 DEF TypeInv, RingInv
      <3>3. QED
        BY <1>3, <3>1, <3>2
    <2>3. QED
      BY <2>1, <2>2
  <1>5. lost' \subseteq 1..Sends(type)
    <2>1. ring[WriteSlot].own => ring[WriteSlot].counter \in 1..(next - 1)
      BY <1>1 DEF TypeInv, RingInv
    <2>2. next - 1 <= Sends(type) /\ Sends(type) \in Nat
      BY SendsIsNat DEF TypeInv, TypeOK
    <2>3. Overwritten \subseteq 1..(next - 1)
      BY <2>1 DEF Overwritten
    <2>4. 1..(next - 1) \subseteq 1..Sends(type)
      BY <1>3, <2>2
    <2>5. QED
      BY <2>3, <2>4 DEF TypeInv, TypeOK
  <1>6. epc \in {"fill", "frame"} => Packet0' = Packet0
    <2>1. m_PacketNo % MaxPacketNo \in Slot
      BY SlotType DEF TypeInv, TypeOK
    <2>2. MayWrite /\ m_PacketNo' = m_PacketNo
      BY DEF Receive, eval
    <2>3. QED
      BY <1>1, <2>1, <2>2, OtherSlot DEF Packet0
  <1>7. PlaceInv'
    BY <1>6 DEF TypeInv, PlaceInv, Receive, eval
  <1>8. Sends(type)' = Sends(type)
    BY DEF Sends
  <1>9. TypeOK'
    BY <1>2, <1>5, <1>8 DEF TypeInv, TypeOK, Receive, eval, samples
  <1>10. QED
    BY <1>4, <1>7, <1>9 DEF TypeInv

LEMMA TypeNetwork == TypeInv /\ (Lose \/ ReceiveNext \/ ReceiveStray) => TypeInv'
  <1> SUFFICES ASSUME TypeInv, Lose \/ ReceiveNext \/ ReceiveStray PROVE TypeInv'
    OBVIOUS
  <1>1. Sends(type) \in Nat /\ next \in 1..(Sends(type) + 1)
    BY SendsIsNat DEF TypeInv, TypeOK
  <1>2. next \in Nat /\ (next <= Sends(type) => next + 1 \in 1..(Sends(type) + 1) /\ next \in 1..(next + 1 - 1)
                                               /\ next \in 1..Sends(type))
    BY <1>1
  <1>3. CASE Lose
    <2>1. next' = next + 1 /\ lost' = lost \cup {next} /\ next <= Sends(type)
      BY <1>3 DEF Lose
    <2>2. \A c \in 1..(next - 1) : c \in 1..(next' - 1)
      BY <1>2, <2>1
    <2>3. RingInv'
      BY <1>3, <2>2 DEF Lose, receiver, TypeInv, RingInv
    <2>4. Sends(type)' = Sends(type) /\ Packet0' = Packet0
      BY <1>3 DEF Lose, Sends, Packet0, receiver, eval
    <2>5. lost' \subseteq 1..Sends(type)
      BY <1>2, <2>1 DEF TypeInv, TypeOK
    <2>6. TypeOK'
      BY <1>2, <1>3, <2>1, <2>4, <2>5 DEF Lose, TypeInv, TypeOK, receiver, eval, samples
    <2>7. PlaceInv'
      BY <1>3, <2>4 DEF Lose, TypeInv, PlaceInv, receiver, eval
    <2>8. QED
      BY <2>3, <2>6, <2>7 DEF TypeInv
  <1>4. CASE ReceiveNext
    <2>1. PICK t \in BOOLEAN : Receive([own |-> TRUE, counter |-> next, test |-> t])
      BY <1>4 DEF ReceiveNext
    <2>2. next' = next + 1 /\ next <= Sends(type) /\ lost' = lost \cup Overwritten
          /\ UNCHANGED <<faults, type, strays>>
      BY <1>4 DEF ReceiveNext
    <2>3. [own |-> TRUE, counter |-> next, test |-> t] \in Packet
      BY <1>2 DEF Packet
    <2>4. next' >= next /\ next' \in 1..(Sends(type) + 1) /\ next \in 1..(next' - 1)
      BY <1>2, <2>2
    <2>5. strays' \in 0..MaxStrays
      BY <2>2 DEF TypeInv, TypeOK
    <2>6. QED
      BY <2>1, <2>2, <2>3, <2>4, <2>5, TypeReceive
  <1>5. CASE ReceiveStray
    <2>1. PICK p : /\ Receive(p)
                   /\ p = Junk \/ \E c \in 1..(next - 1) : p = [own |-> TRUE, counter |-> c, test |-> FALSE]
      BY <1>5 DEF ReceiveStray
    <2>2. p \in Packet /\ (p.own => p.counter \in 1..(next - 1))
      <3>1. CASE p = Junk
        BY <3>1 DEF Packet, Junk
      <3>2. CASE p # Junk
        <4>1. PICK c \in 1..(next - 1) : p = [own |-> TRUE, counter |-> c, test |-> FALSE]
          BY <2>1, <3>2
        <4>2. c \in Nat
          BY <1>2, <4>1
        <4>3. QED
          BY <4>1, <4>2 DEF Packet
      <3>3. QED
        BY <3>1, <3>2
    <2>3. next' = next /\ lost' = lost \cup Overwritten /\ UNCHANGED <<faults, type>>
          /\ strays' = strays + 1 /\ strays < MaxStrays
      BY <1>5 DEF ReceiveStray
    <2>4. strays' \in 0..MaxStrays
      <3>1. strays \in 0..MaxStrays /\ MaxStrays \in Nat
        BY StreamAssumption DEF TypeInv, TypeOK
      <3>2. QED
        BY <2>3, <3>1
    <2>5. next' >= next /\ next' \in 1..(Sends(type) + 1)
      BY <1>1, <1>2, <2>3
    <2>6. QED
      BY <2>1, <2>2, <2>3, <2>4, <2>5, TypeReceive
  <1>6. QED
    BY <1>3, <1>4, <1>5

LEMMA TypeOnRead == TypeInv /\ OnRead => TypeInv'
  <1> SUFFICES ASSUME TypeInv, OnRead PROVE TypeInv'
    OBVIOUS
  <1>1. /\ UNCHANGED <<network, session, ring, eval, samples>>
        /\ spc' \in {"wait", "crash"}
        /\ PacketCounter' \in {PacketCounter, PacketCounter + 1}
        /\ UserData' \in {UserData, UserData + PacketOctets}
        /\ signals' \in {signals, signals + 1}
    <2>1. CASE Reject \/ CountTest
      BY <2>1 DEF Reject, CountTest
    <2>2. CASE CountOneShot
      BY <2>2 DEF CountOneShot
    <2>3. CASE CountCyclic
      BY <2>3 DEF CountCyclic
    <2>4. QED
      BY <2>1, <2>2, <2>3 DEF OnRead
  <1>2. PacketCounter' \in Nat /\ UserData' \in Nat /\ signals' \in Nat /\ PacketCounter' >= PacketCounter
    <2>1. PacketCounter \in Nat /\ UserData \in Nat /\ signals \in Nat
      BY DEF TypeInv, TypeOK
    <2>2. QED
      BY <1>1, <2>1, Sizes
  <1>3. TypeOK'
    BY <1>1, <1>2 DEF TypeInv, TypeOK, network, eval, samples, Sends
  <1>4. PlaceInv'
    <2>1. Packet0' = Packet0
      BY <1>1 DEF Packet0, eval
    <2>2. m_PacketNo \in Nat /\ packetNo \in Nat /\ PacketCounter \in Nat
      BY DEF TypeInv, TypeOK
    <2>3. m_PacketNo <= PacketCounter' /\ packetNo <= PacketCounter'
      BY <1>2, <2>2 DEF TypeInv, PlaceInv
    <2>4. QED
      BY <1>1, <2>1, <2>3 DEF TypeInv, PlaceInv, eval
  <1>5. RingInv'
    BY <1>1 DEF TypeInv, RingInv, network
  <1>6. QED
    BY <1>3, <1>4, <1>5 DEF TypeInv

(* The threads, apart from what happens to the packets.                    *)
LEMMA TypeThreads ==
  TypeInv /\ (ServerExit \/ Wake \/ EvalExit \/ ProcessData \/ Stop) => TypeInv'
  <1> SUFFICES ASSUME TypeInv, ServerExit \/ Wake \/ EvalExit \/ ProcessData \/ Stop PROVE TypeInv'
    OBVIOUS
  <1>1. UNCHANGED <<network, ring, PacketCounter, UserData, m_PacketNo, header, samples>>
    BY DEF ServerExit, Wake, EvalExit, ProcessData, Stop, receiver, eval
  <1>2. signals' \in Nat
    <2>1. signals \in Nat
      BY DEF TypeInv, TypeOK
    <2>2. signals' \in {signals, signals + 1} \/ (signals > 0 /\ signals' = signals - 1)
      <3>1. CASE Wake
        BY <3>1 DEF Wake
      <3>2. CASE ~Wake
        BY <3>2 DEF ServerExit, EvalExit, ProcessData, Stop
      <3>3. QED
        BY <3>1, <3>2
    <2>3. QED
      BY <2>1, <2>2
  <1>3. spc' \in {"wait", "read", "exited", "crash"}
        /\ session' \in {"measure", "stopServer", "stopEval", "standby"}
    BY DEF TypeInv, TypeOK, ServerExit, Wake, EvalExit, ProcessData, Stop, receiver
  <1>4. epc' \in {"wait", "process", "header", "fill", "frame", "exited", "abort"}
        /\ (epc' \in {"fill", "frame"} => epc' = epc /\ packetNo' = packetNo)
    BY DEF TypeInv, TypeOK, ServerExit, Wake, EvalExit, ProcessData, Stop, eval
  <1>5. packetNo' \in {packetNo, PacketCounter} /\ ExpectedPacketCounter' \in {ExpectedPacketCounter, 1}
    BY DEF ServerExit, Wake, EvalExit, ProcessData, Stop, eval
  <1>6. TypeOK'
    BY <1>1, <1>2, <1>3, <1>4, <1>5 DEF TypeInv, TypeOK, network, samples, Sends
  <1>7. RingInv'
    BY <1>1 DEF TypeInv, RingInv, network
  <1>8. PlaceInv'
    <2>1. Packet0' = Packet0 /\ PacketCounter <= PacketCounter
      BY <1>1 DEF Packet0, TypeInv, TypeOK
    <2>2. QED
      BY <1>1, <1>4, <1>5, <2>1 DEF TypeInv, PlaceInv
  <1>9. QED
    BY <1>6, <1>7, <1>8 DEF TypeInv

(* The evaluation of a packet.                                             *)
LEMMA TypeEvaluation == TypeInv /\ (ReadHeader \/ Fill \/ Frame) => TypeInv'
  <1> SUFFICES ASSUME TypeInv, ReadHeader \/ Fill \/ Frame PROVE TypeInv'
    OBVIOUS
  <1>1. UNCHANGED <<network, session, receiver, signals, packetNo>>
    BY DEF ReadHeader, Fill, Frame
  <1>2. m_PacketNo' \in Nat /\ m_PacketNo' <= PacketCounter
    <2>1. m_PacketNo' = m_PacketNo \/ (m_PacketNo' = m_PacketNo + 1 /\ m_PacketNo < packetNo)
      <3>1. CASE ReadHeader
        BY <3>1 DEF ReadHeader
      <3>2. CASE Fill
        BY <3>2 DEF Fill
      <3>3. CASE Frame
        BY <3>3 DEF Frame, TypeInv, PlaceInv
      <3>4. QED
        BY <3>1, <3>2, <3>3
    <2>2. m_PacketNo \in Nat /\ packetNo \in Nat /\ PacketCounter \in Nat /\ packetNo <= PacketCounter
          /\ m_PacketNo <= PacketCounter
      BY DEF TypeInv, TypeOK, PlaceInv
    <2>3. QED
      BY <2>1, <2>2
  <1>3. ExpectedPacketCounter' \in Nat /\ header' \in Nat
    <2>1. ExpectedPacketCounter' \in {ExpectedPacketCounter, ExpectedPacketCounter + 1}
          /\ header' \in {header, Packet0.counter}
      BY DEF ReadHeader, Fill, Frame
    <2>2. ExpectedPacketCounter \in Nat /\ header \in Nat
      BY DEF TypeInv, TypeOK
    <2>3. Packet0.counter \in Nat
      BY OctetTypes DEF TypeInv, Packet
    <2>4. QED
      BY <2>1, <2>2, <2>3
  <1>4. epc' \in {"wait", "process", "header", "fill", "frame", "exited", "abort"}
    BY DEF ReadHeader, Fill, Frame, TypeInv, TypeOK
  <1>5. /\ work' \in Seq(Nat) /\ Len(work') < BlockOctets
        /\ Running' \in BOOLEAN /\ userNotified' \in BOOLEAN
        /\ SampleCount' \in Nat /\ SampleIndex' \in 0..(UserSamples - 1)
        /\ user' \in [0..(UserSamples - 1) -> Seq(Nat)]
    <2>1. CASE UNCHANGED samples
      BY <2>1 DEF samples, TypeInv, TypeOK
    <2>2. CASE ReadHeader /\ work' = <<>>
      <3>1. work' \in Seq(Nat) /\ Len(work') < BlockOctets
        BY <2>2, Sizes
      <3>2. QED
        BY <2>2, <3>1 DEF ReadHeader, TypeInv, TypeOK
    <2>3. CASE Fill /\ ProcessFrame(Zeros)
      BY <2>3, FrameTypes, OctetTypes DEF TypeInv
    <2>4. CASE Frame
      <3>1. Packet0.own /\ Packet0.counter >= 1
        <4>1. Packet0.own /\ m_PacketNo % MaxPacketNo \in Slot
          BY <2>4, SlotType DEF Frame, TypeInv, TypeOK, PlaceInv
        <4>2. Packet0.counter \in 1..(next - 1)
          BY <4>1 DEF Packet0, TypeInv, RingInv
        <4>3. QED
          BY <4>1, <4>2
      <3>2. QED
        BY <2>4, <3>1, FrameTypes, OctetTypes DEF Frame, TypeInv
    <2>5. QED
      BY <2>1, <2>2, <2>3, <2>4 DEF ReadHeader, Fill, samples
  <1>6. TypeOK'
    BY <1>1, <1>2, <1>3, <1>4, <1>5 DEF TypeInv, TypeOK, network, receiver, Sends
  <1>7. RingInv'
    BY <1>1 DEF TypeInv, RingInv, network, receiver
  <1>8. PlaceInv'
    <2>1. epc' \in {"fill", "frame"} =>
            m_PacketNo' = m_PacketNo /\ m_PacketNo < packetNo /\ Packet0.own /\ header' = Packet0.counter
      BY DEF ReadHeader, Fill, Frame, TypeInv, PlaceInv
    <2>2. m_PacketNo' = m_PacketNo => Packet0' = Packet0
      BY <1>1 DEF Packet0, receiver
    <2>3. QED
      BY <1>1, <1>2, <2>1, <2>2 DEF TypeInv, PlaceInv, receiver
  <1>9. QED
    BY <1>6, <1>7, <1>8 DEF TypeInv

LEMMA TypeStep == TypeInv /\ [Next]_vars => TypeInv'
  <1> SUFFICES ASSUME TypeInv, [Next]_vars PROVE TypeInv'
    OBVIOUS
  <1>1. CASE UNCHANGED vars
    BY <1>1 DEF vars, network, receiver, eval, samples, TypeInv, TypeOK, RingInv, PlaceInv, Packet0, Sends
  <1>2. QED
    BY <1>1, TypeNetwork, TypeOnRead, TypeThreads, TypeEvaluation DEF Next, Evaluate

(* Every variable keeps its type, for any size of the packets, the blocks  *)
(* and the buffers and whatever goes wrong: in particular the work buffer  *)
(* never holds a block when a frame has been processed, and the index of   *)
(* the next sample lies in the user buffer.                                *)
THEOREM TypeCorrect == Spec => []TypeOK
  <1>1. TypeInv => TypeOK
    BY DEF TypeInv
  <1>2. QED
    BY <1>1, TypeInit, TypeStep, PTL DEF Spec

-----------------------------------------------------------------------------
(* The signals between the threads.                                        *)

(* A packet with another serial number makes the evaluation go to sleep    *)
(* although packets are waiting. It never lies among the packets that were *)
(* counted, unless the receiver overwrites those with what it then rejects.*)
OwnPackets == \A F \in FaultSets : ~({"overrun", "foreign"} \subseteq F)

At(k) == ring[k % MaxPacketNo]

OwnInv ==
  /\ \A k \in m_PacketNo..(PacketCounter - 1) : At(k).own
  /\ \A s \in Slot : ring[s].test => "test" \in faults

(* The calls of APDCAM_Stop come one after the other.                      *)
StopInv ==
  /\ spc = "exited" <=> session \in {"stopEval", "standby"}
  /\ epc = "exited" <=> session = "standby"

Evaluating == epc \in {"header", "fill", "frame"}

(* The packets before the n-th are all that there are signals for.         *)
Covered(n) ==
  /\ n >= PacketCounter - (PacketCounter % SignalFrequency)
  /\ type = "one_shot" /\ UserData >= RequestedData => n >= PacketCounter

(* There is a signal for what is not covered by the packets evaluated, or  *)
(* by those the evaluation is about to look at.                            *)
WakeInv ==
  "test" \notin faults /\ Alive =>
    \/ signals > 0 \/ epc = "process"
    \/ Evaluating /\ Covered(packetNo)
    \/ epc \in {"wait", "exited"} /\ Covered(m_PacketNo)

(* After the last signal of the receiver nothing is counted any more.      *)
LastInv ==
  session \in {"stopEval", "standby"} =>
    \/ epc = "abort"
    \/ session = "stopEval" /\ (signals > 0 \/ epc = "process")
    \/ session = "stopEval" /\ Evaluating /\ packetNo = PacketCounter
    \/ epc \in {"wait", "exited"} /\ m_PacketNo = PacketCounter

SignalInv == TypeInv /\ OwnInv /\ StopInv /\ LastInv

LEMMA OwnInit == Init => OwnInv /\ StopInv /\ LastInv
  <1> SUFFICES ASSUME Init PROVE OwnInv /\ StopInv /\ LastInv
    OBVIOUS
  <1>1. OwnInv
    BY DEF Init, OwnInv, Junk
  <1>2. QED
    BY <1>1 DEF Init, StopInv, LastInv

(* What is written into the ring, while there is room, is not among the    *)
(* packets that were counted.                                              *)
LEMMA OwnReceive ==
  ASSUME TypeInv, OwnInv, NEW p \in Packet, Receive(p), p.test => "test" \in faults, faults' = faults,
         Room \/ p.own
  PROVE  OwnInv'
  <1>1. /\ WriteSlot \in Slot /\ ring \in [Slot -> Packet] /\ ring' = [ring EXCEPT ![WriteSlot] = p]
        /\ m_PacketNo \in Nat /\ PacketCounter \in Nat
        /\ m_PacketNo' = m_PacketNo /\ PacketCounter' = PacketCounter
    BY SlotType DEF TypeInv, TypeOK, WriteSlot, Receive, eval
  <1>2. \A s \in Slot : ring'[s].test => "test" \in faults'
    BY <1>1 DEF OwnInv
  <1>3. ASSUME NEW k \in m_PacketNo..(PacketCounter - 1) PROVE At(k)'.own
    <2>1. k \in Nat /\ k % MaxPacketNo \in Slot /\ At(k).own /\ At(k)' = ring'[k % MaxPacketNo]
      BY <1>1, SlotType DEF OwnInv, At
    <2>2. CASE p.own
      BY <1>1, <2>1, <2>2 DEF At
    <2>3. CASE Room
      <3>1. k < PacketCounter /\ PacketCounter - k < MaxPacketNo /\ k \in Int /\ PacketCounter \in Int
        BY <1>1, <2>3, Sizes DEF Room
      <3>2. k % MaxPacketNo # WriteSlot
        BY <3>1, Sizes, RemaindersDiffer DEF WriteSlot
      <3>3. QED
        BY <1>1, <2>1, <3>2 DEF At
    <2>4. QED
      BY <2>2, <2>3
  <1>4. QED
    BY <1>1, <1>2, <1>3 DEF OwnInv

LEMMA OwnNetwork ==
  ASSUME OwnPackets, TypeInv, OwnInv, Lose \/ ReceiveNext \/ ReceiveStray
  PROVE  OwnInv'
  <1>1. CASE Lose
    BY <1>1 DEF Lose, OwnInv, At, receiver, eval
  <1>2. CASE ReceiveNext
    <2>1. PICK t \in {FALSE} \cup (IF "test" \in faults THEN {TRUE} ELSE {}) :
            Receive([own |-> TRUE, counter |-> next, test |-> t])
      BY <1>2 DEF ReceiveNext
    <2>2. next \in Nat
      <3>1. Sends(type) \in Nat /\ next \in 1..(Sends(type) + 1)
        BY SendsIsNat DEF TypeInv, TypeOK
      <3>2. QED
        BY <3>1
    <2>3. [own |-> TRUE, counter |-> next, test |-> t] \in Packet /\ (t => "test" \in faults) /\ faults' = faults
      BY <1>2, <2>1, <2>2 DEF Packet, ReceiveNext
    <2>4. QED
      BY <2>1, <2>3, OwnReceive
  <1>3. CASE ReceiveStray
    <2>1. PICK p : /\ Receive(p)
                   /\ \/ p = Junk /\ "foreign" \in faults
                      \/ \E c \in 1..(next - 1) : p = [own |-> TRUE, counter |-> c, test |-> FALSE]
      BY <1>3 DEF ReceiveStray
    <2>2. CASE p = Junk /\ "foreign" \in faults
      <3>1. "overrun" \notin faults
        BY <2>2 DEF OwnPackets, TypeInv, TypeOK
      <3>2. Room
        BY <2>1, <3>1 DEF Receive, MayWrite
      <3>3. p \in Packet /\ ~p.test /\ faults' = faults
        BY <1>3, <2>2 DEF Junk, Packet, ReceiveStray
      <3>4. QED
        BY <2>1, <3>2, <3>3, OwnReceive
    <2>3. CASE \E c \in 1..(next - 1) : p = [own |-> TRUE, counter |-> c, test |-> FALSE]
      <3>1. PICK c \in 1..(next - 1) : p = [own |-> TRUE, counter |-> c, test |-> FALSE]
        BY <2>3
      <3>2. c \in Nat
        <4>1. Sends(type) \in Nat /\ next \in 1..(Sends(type) + 1)
          BY SendsIsNat DEF TypeInv, TypeOK
        <4>2. QED
          BY <4>1
      <3>3. p \in Packet /\ ~p.test /\ p.own /\ faults' = faults
        BY <1>3, <3>1, <3>2 DEF Packet, ReceiveStray
      <3>4. QED
        BY <2>1, <3>3, OwnReceive
    <2>4. QED
      BY <2>1, <2>2, <2>3
  <1>4. QED
    BY <1>1, <1>2, <1>3

LEMMA OwnStep == ASSUME OwnPackets, TypeInv, OwnInv, [Next]_vars PROVE OwnInv'
  <1>0. m_PacketNo \in Nat /\ PacketCounter \in Nat
    BY DEF TypeInv, TypeOK
  <1>1. CASE OnRead
    <2>1. /\ UNCHANGED <<ring, m_PacketNo, faults>>
          /\ \/ PacketCounter' = PacketCounter
             \/ PacketCounter' = PacketCounter + 1 /\ Received.own
      <3>1. CASE Reject \/ CountTest \/ CountCyclic
        BY <3>1 DEF Reject, CountTest, CountCyclic, network, eval
      <3>2. CASE CountOneShot
        BY <3>2 DEF CountOneShot, network, eval
      <3>3. QED
        BY <1>1, <3>1, <3>2 DEF OnRead
    <2>2. \A k : At(k)' = At(k)
      BY <2>1 DEF At
    <2>3. CASE PacketCounter' = PacketCounter
      BY <2>1, <2>2, <2>3 DEF OwnInv
    <2>4. CASE PacketCounter' = PacketCounter + 1 /\ Received.own
      <3>1. \A k \in m_PacketNo..(PacketCounter' - 1) : k \in m_PacketNo..(PacketCounter - 1) \/ k = PacketCounter
        BY <1>0, <2>4
      <3>2. At(PacketCounter).own
        BY <2>4 DEF At, Received, WriteSlot
      <3>3. QED
        BY <2>1, <2>2, <3>1, <3>2 DEF OwnInv
    <2>5. QED
      BY <2>1, <2>3, <2>4
  <1>2. CASE Evaluate \/ ServerExit \/ Stop \/ UNCHANGED vars
    <2>1. UNCHANGED <<ring, PacketCounter, faults>>
      BY <1>2 DEF Evaluate, Wake, ProcessData, ReadHeader, Fill, Frame, EvalExit, ServerExit, Stop,
                  network, receiver, vars
    <2>2. m_PacketNo' \in {m_PacketNo, m_PacketNo + 1}
      BY <1>2 DEF Evaluate, Wake, ProcessData, ReadHeader, Fill, Frame, EvalExit, ServerExit, Stop, eval, vars
    <2>3. \A k \in m_PacketNo'..(PacketCounter - 1) : k \in m_PacketNo..(PacketCounter - 1)
      BY <1>0, <2>2
    <2>4. QED
      BY <2>1, <2>3 DEF OwnInv, At
  <1>3. QED
    BY <1>1, <1>2, OwnNetwork DEF Next

(* The evaluation goes to sleep when it has looked at the packets it was   *)
(* told of, and not earlier.                                               *)
LEMMA Asleep ==
  ASSUME TypeInv, OwnInv, ProcessData \/ ReadHeader, epc' = "wait"
  PROVE  ReadHeader /\ m_PacketNo' = m_PacketNo /\ m_PacketNo >= packetNo
  <1>1. m_PacketNo \in Nat /\ PacketCounter \in Nat /\ packetNo <= PacketCounter /\ packetNo \in Nat
    BY DEF TypeInv, TypeOK, PlaceInv
  <1>2. CASE ProcessData
    <2>1. m_PacketNo = 0 /\ PacketCounter > 0 /\ ~ring[0].own
      BY <1>2 DEF ProcessData
    <2>2. 0 \in m_PacketNo..(PacketCounter - 1) /\ 0 % MaxPacketNo = 0
      <3>1. 0 \in Int /\ 0 \in 0..(MaxPacketNo - 1) /\ 0 = MaxPacketNo * 0 + 0
        BY Sizes
      <3>2. 0 % MaxPacketNo = 0
        BY <3>1, Sizes, DivisionUnique
      <3>3. QED
        BY <1>1, <2>1, <3>2
    <2>3. QED
      BY <2>1, <2>2 DEF OwnInv, At
  <1>3. CASE ReadHeader
    <2>1. m_PacketNo' = m_PacketNo /\ (m_PacketNo >= packetNo \/ (m_PacketNo < packetNo /\ ~Packet0.own))
      BY <1>3 DEF ReadHeader
    <2>2. m_PacketNo < packetNo => Packet0.own
      BY <1>1 DEF OwnInv, At, Packet0
    <2>3. QED
      BY <1>3, <2>1, <2>2
  <1>4. QED
    BY <1>2, <1>3

LEMMA StopStep == ASSUME TypeInv, StopInv, [Next]_vars PROVE StopInv'
  <1>1. CASE Lose \/ ReceiveNext \/ ReceiveStray \/ OnRead \/ UNCHANGED vars
    BY <1>1 DEF Lose, ReceiveNext, ReceiveStray, Receive, OnRead, Reject, CountTest, CountOneShot, CountCyclic,
                receiver, eval, vars, StopInv
  <1>2. CASE Evaluate \/ ServerExit \/ Stop
    BY <1>2 DEF Evaluate, Wake, ProcessData, ReadHeader, Fill, Frame, EvalExit, ServerExit, Stop,
                receiver, eval, StopInv
  <1>3. QED
    BY <1>1, <1>2 DEF Next

LEMMA LastStep == ASSUME TypeInv, OwnInv, StopInv, LastInv, [Next]_vars PROVE LastInv'
  <1>0. m_PacketNo \in Nat /\ PacketCounter \in Nat /\ packetNo \in Nat /\ signals \in Nat
        /\ m_PacketNo <= PacketCounter
    BY DEF TypeInv, TypeOK, PlaceInv
  <1>1. CASE Lose \/ UNCHANGED vars
    BY <1>1 DEF Lose, receiver, eval, vars, LastInv, Evaluating
  <1>2. CASE ReceiveNext \/ ReceiveStray \/ OnRead
    <2>1. spc # "exited" /\ session' = session
      BY <1>2 DEF ReceiveNext, ReceiveStray, Receive, OnRead, Reject, CountTest, CountOneShot, CountCyclic
    <2>2. QED
      BY <2>1 DEF StopInv, LastInv
  <1>3. CASE ServerExit
    <2>1. signals' > 0 /\ session' = "stopEval"
      BY <1>0, <1>3 DEF ServerExit
    <2>2. QED
      BY <2>1 DEF LastInv
  <1>4. CASE Stop
    BY <1>4 DEF Stop, LastInv
  <1>5. CASE Wake
    BY <1>5 DEF Wake, LastInv, StopInv
  <1>6. CASE EvalExit
    BY <1>0, <1>6 DEF EvalExit, LastInv, receiver, Evaluating
  <1>7. CASE ProcessData \/ ReadHeader
    <2>1. session' = session /\ PacketCounter' = PacketCounter /\ signals' = signals
      BY <1>7 DEF ProcessData, ReadHeader, receiver
    <2>2. CASE epc' = "wait"
      <3>1. ReadHeader /\ m_PacketNo' = m_PacketNo /\ m_PacketNo >= packetNo /\ epc = "header"
        BY <1>7, <2>2, Asleep DEF ReadHeader
      <3>2. packetNo = PacketCounter => m_PacketNo = PacketCounter
        BY <1>0, <3>1
      <3>3. QED
        BY <2>1, <2>2, <3>1, <3>2 DEF LastInv, Evaluating
    <2>3. CASE epc' # "wait"
      BY <1>7, <2>1, <2>3 DEF ProcessData, ReadHeader, LastInv, Evaluating, StopInv
    <2>4. QED
      BY <2>2, <2>3
  <1>8. CASE Fill \/ Frame
    BY <1>8 DEF Fill, Frame, LastInv, Evaluating, receiver
  <1>9. QED
    BY <1>1, <1>2, <1>3, <1>4, <1>5, <1>6, <1>7, <1>8 DEF Next, Evaluate

(* After APDCAM_Stop every packet that the receiver has counted has been   *)
(* evaluated, wherever the two threads were when it was called, unless the *)
(* packet error of the evaluation has ended the program.                   *)
THEOREM StopLeavesNothing ==
  ASSUME OwnPackets
  PROVE  Spec => []NothingLeft
  <1>1. Init => SignalInv
    BY TypeInit, OwnInit DEF SignalInv
  <1>2. SignalInv /\ [Next]_vars => SignalInv'
    BY TypeStep, OwnStep, StopStep, LastStep DEF SignalInv
  <1>3. SignalInv => NothingLeft
    BY DEF SignalInv, StopInv, LastInv, NothingLeft, Evaluating
  <1>4. QED
    BY <1>1, <1>2, <1>3, PTL DEF Spec

-----------------------------------------------------------------------------
(* No wakeup is lost. With a ring of one packet the signal frequency is 0, *)
(* by which the receiver divides.                                          *)

LEMMA FrequencyType == ASSUME MaxPacketNo > 1 PROVE SignalFrequency \in Nat \ {0}
  <1>1. MaxPacketNo \div 2 \in Nat \ {0}
    BY Sizes
  <1>2. MaxPacketNo \div 4 \in Nat
    BY Sizes
  <1>3. Greater(Lesser(signalFrequency, MaxPacketNo \div 4), MinFrequency) \in Nat \ {0}
    BY <1>2, StreamAssumption DEF Greater, Lesser
  <1>4. QED
    BY <1>1, <1>3 DEF SignalFrequency, Lesser

LEMMA CoversMore ==
  ASSUME NEW m \in Nat, NEW n \in Nat, m <= n, Covered(m), TypeInv, MaxPacketNo > 1
  PROVE  Covered(n)
  <1>1. PacketCounter \in Nat
    BY DEF TypeInv, TypeOK
  <1>2. PacketCounter % SignalFrequency \in Int
    BY <1>1, FrequencyType, RemainderType
  <1>3. QED
    BY <1>1, <1>2 DEF Covered

(* What is covered stays so unless the receiver signals.                   *)
LEMMA CoversCount ==
  ASSUME TypeInv, OwnInv, MaxPacketNo > 1, OnRead, "test" \notin faults, Alive', ~(signals' > 0),
         NEW n \in Nat, Covered(n)
  PROVE  Covered(n)'
  <1>1. PacketCounter \in Nat /\ signals \in Nat /\ WriteSlot \in Slot
    BY SlotType DEF TypeInv, TypeOK, WriteSlot
  <1>2. ~Received.test /\ type' = type
    BY <1>1 DEF OwnInv, Received, OnRead, Reject, CountTest, CountOneShot, CountCyclic, network
  <1>3. CASE UNCHANGED <<PacketCounter, UserData>>
    BY <1>2, <1>3 DEF Covered
  <1>4. CASE ~UNCHANGED <<PacketCounter, UserData>>
    <2>1. /\ PacketCounter' = PacketCounter + 1
          /\ ~Signalling
          /\ type = "one_shot" => UserData' < RequestedData
      <3>1. CASE CountOneShot
        BY <1>1, <1>4, <3>1 DEF CountOneShot, Alive
      <3>2. CASE CountCyclic
        BY <1>1, <1>4, <3>2 DEF CountCyclic, Alive
      <3>3. QED
        BY <1>2, <1>4, <3>1, <3>2 DEF OnRead, Reject, CountTest
    <2>2. (PacketCounter + 1) - ((PacketCounter + 1) % SignalFrequency)
            = PacketCounter - (PacketCounter % SignalFrequency)
      BY <1>1, <2>1, FrequencyType, SameMultiple DEF Signalling
    <2>3. type = "one_shot" => ~(UserData' >= RequestedData)
      <3>1. UserData' \in Nat /\ RequestedData \in Nat
        BY <2>1, TypeOnRead, RequestedType DEF TypeInv, TypeOK
      <3>2. QED
        BY <2>1, <3>1
    <2>4. QED
      BY <1>2, <2>1, <2>2, <2>3 DEF Covered
  <1>5. QED
    BY <1>3, <1>4

LEMMA WakeStep ==
  ASSUME MaxPacketNo > 1, SignalInv, WakeInv, [Next]_vars
  PROVE  WakeInv'
  <1> SUFFICES ASSUME "test" \notin faults', Alive'
               PROVE  \/ signals' > 0 \/ epc' = "process"
                      \/ Evaluating' /\ Covered(packetNo)'
                      \/ epc' \in {"wait", "exited"} /\ Covered(m_PacketNo)'
    BY DEF WakeInv
  <1>0. /\ m_PacketNo \in Nat /\ PacketCounter \in Nat /\ packetNo \in Nat /\ signals \in Nat
        /\ TypeInv /\ OwnInv
    BY DEF SignalInv, TypeInv, TypeOK
  <1>1. Alive /\ "test" \notin faults
    BY DEF Next, Lose, ReceiveNext, ReceiveStray, Receive, OnRead, Reject, CountTest, CountOneShot, CountCyclic,
           ServerExit, Evaluate, Wake, ProcessData, ReadHeader, Fill, Frame, EvalExit, Stop,
           network, receiver, eval, vars, Alive
  <1>2. CASE Lose \/ ReceiveNext \/ ReceiveStray \/ Stop \/ UNCHANGED vars
    <2>1. UNCHANGED <<PacketCounter, UserData, type, signals, epc, m_PacketNo, packetNo>>
      BY <1>2 DEF Lose, ReceiveNext, ReceiveStray, Receive, Stop, network, receiver, eval, vars
    <2>2. QED
      BY <1>1, <2>1 DEF WakeInv, Covered, Evaluating
  <1>3. CASE OnRead
    <2>1. UNCHANGED <<epc, m_PacketNo, packetNo>> /\ (signals > 0 => signals' > 0)
      <3>1. CASE Reject \/ CountTest \/ CountCyclic
        BY <1>0, <3>1 DEF Reject, CountTest, CountCyclic, eval
      <3>2. CASE CountOneShot
        BY <1>0, <3>2 DEF CountOneShot, eval
      <3>3. QED
        BY <1>3, <3>1, <3>2 DEF OnRead
    <2>2. ASSUME ~(signals' > 0), NEW n \in Nat, Covered(n) PROVE Covered(n)'
      BY <1>0, <1>1, <1>3, <2>2, CoversCount
    <2>3. CASE signals' > 0
      BY <2>3
    <2>4. CASE ~(signals' > 0)
      <3>1. Covered(packetNo) => Covered(packetNo)'
        BY <1>0, <2>1, <2>2, <2>4 DEF Covered
      <3>2. Covered(m_PacketNo) => Covered(m_PacketNo)'
        BY <1>0, <2>1, <2>2, <2>4 DEF Covered
      <3>3. QED
        BY <1>1, <2>1, <2>4, <3>1, <3>2 DEF WakeInv, Evaluating
    <2>5. QED
      BY <2>3, <2>4
  <1>4. CASE ServerExit
    BY <1>0, <1>4 DEF ServerExit
  <1>5. CASE Wake
    BY <1>5 DEF Wake
  <1>6. CASE EvalExit
    BY <1>0, <1>1, <1>6 DEF EvalExit, receiver, network, WakeInv, Covered, Evaluating
  <1>7. CASE ProcessData
    <2>1. epc' # "wait" /\ packetNo' = PacketCounter /\ UNCHANGED <<PacketCounter, UserData, type>>
      BY <1>0, <1>7, Asleep DEF ProcessData, ReadHeader, receiver, network
    <2>2. PacketCounter % SignalFrequency \in Nat
      <3>1. PacketCounter \in Int /\ SignalFrequency \in Nat \ {0}
        BY <1>0, FrequencyType
      <3>2. PacketCounter % SignalFrequency \in 0..(SignalFrequency - 1)
        BY <3>1, RemainderType
      <3>3. QED
        BY <3>1, <3>2
    <2>3. Covered(packetNo)'
      BY <1>0, <2>1, <2>2 DEF Covered
    <2>4. QED
      BY <1>7, <2>1, <2>3 DEF ProcessData, Evaluating
  <1>8. CASE ReadHeader
    <2>1. UNCHANGED <<PacketCounter, UserData, type, signals, packetNo>> /\ epc = "header"
      BY <1>8 DEF ReadHeader, receiver, network
    <2>2. signals > 0 \/ Covered(packetNo)
      BY <1>1, <2>1 DEF WakeInv
    <2>3. CASE epc' = "wait"
      <3>1. m_PacketNo' = m_PacketNo /\ m_PacketNo >= packetNo
        BY <1>0, <1>8, <2>3, Asleep
      <3>2. Covered(packetNo) => Covered(m_PacketNo)
        BY <1>0, <3>1, CoversMore
      <3>3. QED
        BY <2>1, <2>2, <2>3, <3>1, <3>2 DEF Covered
    <2>4. CASE epc' # "wait"
      BY <1>8, <2>1, <2>2, <2>4 DEF ReadHeader, Evaluating, Covered, Alive
    <2>5. QED
      BY <2>3, <2>4
  <1>9. CASE Fill \/ Frame
    BY <1>1, <1>9 DEF Fill, Frame, receiver, network, WakeInv, Covered, Evaluating
  <1>10. QED
    BY <1>2, <1>3, <1>4, <1>5, <1>6, <1>7, <1>8, <1>9 DEF Next, Evaluate

(* While the evaluation sleeps and there is no signal for it, fewer        *)
(* packets are waiting than lie between two signals, and none when a       *)
(* one-shot measurement is complete, for every interleaving of the two     *)
(* threads and every size of the ring.                                     *)
THEOREM WakeupIsNotLost ==
  ASSUME OwnPackets, MaxPacketNo > 1
  PROVE  Spec => []NoLostWakeup
  <1>1. Init => SignalInv /\ WakeInv
    <2> SUFFICES ASSUME Init PROVE WakeInv
      BY TypeInit, OwnInit DEF SignalInv
    <2>1. PacketCounter = 0 /\ m_PacketNo = 0 /\ epc = "wait"
      BY DEF Init
    <2>2. 0 % SignalFrequency \in Nat
      BY FrequencyType, RemainderType
    <2>3. QED
      BY <2>1, <2>2 DEF WakeInv, Covered
  <1>2. SignalInv /\ WakeInv /\ [Next]_vars => (SignalInv /\ WakeInv)'
    BY TypeStep, OwnStep, StopStep, LastStep, WakeStep DEF SignalInv
  <1>3. SignalInv /\ WakeInv => NoLostWakeup
    <2> SUFFICES ASSUME SignalInv, WakeInv, Alive, epc = "wait", signals = 0, "test" \notin faults
                 PROVE  /\ PacketCounter - m_PacketNo < SignalFrequency
                        /\ type = "one_shot" /\ UserData >= RequestedData => m_PacketNo = PacketCounter
      BY DEF NoLostWakeup
    <2>1. PacketCounter \in Nat /\ m_PacketNo \in Nat /\ m_PacketNo <= PacketCounter
      BY DEF SignalInv, TypeInv, TypeOK, PlaceInv
    <2>2. PacketCounter % SignalFrequency \in 0..(SignalFrequency - 1) /\ SignalFrequency \in Nat
      BY <2>1, FrequencyType, RemainderType
    <2>3. Covered(m_PacketNo)
      BY DEF WakeInv, Evaluating
    <2>4. QED
      BY <2>1, <2>2, <2>3 DEF Covered
  <1>4. QED
    BY <1>1, <1>2, <1>3, PTL DEF Spec

-----------------------------------------------------------------------------
(* The samples.                                                            *)

LEMMA RemainderOfSum ==
  ASSUME NEW b \in Nat \ {0}, NEW x \in Int, NEW y \in Int, NEW z \in Int
  PROVE  ((x % b) + y - (z % b)) % b = (x + y - z) % b
  <1> DEFINE p == x \div b
             r == x % b
             q == z \div b
             s == z % b
             u == (x + y - z) \div b
             v == (x + y - z) % b
  <1>1. p \in Int /\ r \in 0..(b - 1) /\ x = b * p + r
    BY QuotientType, RemainderType, Division
  <1>2. q \in Int /\ s \in 0..(b - 1) /\ z = b * q + s
    BY QuotientType, RemainderType, Division
  <1>3. u \in Int /\ v \in 0..(b - 1) /\ x + y - z = b * u + v
    <2>1. x + y - z \in Int
      OBVIOUS
    <2>2. QED
      BY <2>1, QuotientType, RemainderType, Division
  <1> HIDE DEF p, r, q, s, u, v
  <1>4. u - p + q \in Int /\ b * (u - p + q) = b * u - b * p + b * q
        /\ b * u \in Int /\ b * p \in Int /\ b * q \in Int
    BY <1>1, <1>2, <1>3
  <1>5. r + y - s = b * (u - p + q) + v /\ r + y - s \in Int
    BY <1>1, <1>2, <1>3, <1>4
  <1>6. (r + y - s) % b = v
    BY <1>3, <1>4, <1>5, DivisionUnique
  <1>7. QED
    BY <1>6 DEF r, s, v

LEMMA RemainderOfNext ==
  ASSUME NEW b \in Nat \ {0}, NEW x \in Int, NEW y \in Int
  PROVE  ((x % b) + y) % b = (x + y) % b
  <1>1. 0 % b = 0
    <2>1. 0 \in Int /\ 0 \in 0..(b - 1) /\ 0 = b * 0 + 0
      OBVIOUS
    <2>2. QED
      BY <2>1, DivisionUnique
  <1>2. ((x % b) + y - (0 % b)) % b = (x + y - 0) % b
    <2>1. 0 \in Int
      OBVIOUS
    <2>2. QED
      BY <2>1, RemainderOfSum
  <1>3. (x % b) \in Int
    BY RemainderType
  <1>4. (x % b) + y - 0 = (x % b) + y /\ x + y - 0 = x + y
    BY <1>3
  <1>5. QED
    BY <1>1, <1>2, <1>4

(* An octet of a packet.                                                   *)
LEMMA OctetOfPacket ==
  ASSUME NEW e \in Int, NEW i \in 1..PacketOctets
  PROVE  PacketOf((e - 1) * PacketOctets + i) = e
  <1>1. (e - 1) * PacketOctets \in Int /\ (e - 1) * PacketOctets = PacketOctets * (e - 1) /\ e - 1 \in Int
    BY Sizes
  <1>2. i - 1 \in 0..(PacketOctets - 1)
    BY Sizes
  <1>3. ((e - 1) * PacketOctets + i) - 1 = PacketOctets * (e - 1) + (i - 1)
        /\ ((e - 1) * PacketOctets + i) - 1 \in Int
    BY <1>1, <1>2
  <1>4. (((e - 1) * PacketOctets + i) - 1) \div PacketOctets = e - 1
    BY <1>1, <1>2, <1>3, Sizes, DivisionUnique
  <1>5. QED
    BY <1>4 DEF PacketOf

(* A value in the place of an octet.                                       *)
Good(v, octet) == v = octet \/ (v = 0 /\ PacketOf(octet) \in lost)

(* The octets before the next packet are those of the samples counted and  *)
(* the work buffer, and the latter holds them in order.                    *)
WorkInv ==
  Running /\ epc # "abort" =>
    /\ SampleIndex = SampleCount % UserSamples
    /\ type = "one_shot" => SampleCount < StopAt
    /\ (ExpectedPacketCounter - 1) * PacketOctets = SampleCount * BlockOctets + Len(work)
    /\ \A i \in 1..Len(work) : Good(work[i], SampleCount * BlockOctets + i)

LEMMA FrameOctets ==
  ASSUME TypeOK, WorkInv, Running, epc # "abort", NEW octets \in Seq(Nat), Len(octets) = PacketOctets,
         \A i \in 1..PacketOctets : Good(octets[i], (ExpectedPacketCounter - 1) * PacketOctets + i)
  PROVE  /\ Len(Data(octets)) = Len(work) + PacketOctets
         /\ \A n \in 1..Len(Data(octets)) : Good(Data(octets)[n], SampleCount * BlockOctets + n)
  <1> DEFINE w == Len(work)
             c == SampleCount * BlockOctets
             e == (ExpectedPacketCounter - 1) * PacketOctets
  <1>1. work \in Seq(Nat) /\ w \in Nat
    BY DEF TypeOK
  <1>2. /\ Len(Data(octets)) = w + PacketOctets
        /\ \A n \in 1..w + PacketOctets : Data(octets)[n] = IF n <= w THEN work[n] ELSE octets[n - w]
    BY <1>1 DEF Data
  <1>3. c \in Nat /\ e = c + w
    <2>1. c \in Nat
      BY Sizes DEF TypeOK
    <2>2. QED
      BY <2>1 DEF WorkInv
  <1>4. \A i \in 1..w : Good(work[i], c + i)
    BY DEF WorkInv
  <1>5. \A i \in 1..PacketOctets : Good(octets[i], e + i)
    OBVIOUS
  <1> HIDE DEF w, c, e
  <1>6. ASSUME NEW n \in 1..(w + PacketOctets) PROVE Good(Data(octets)[n], c + n)
    <2>1. CASE n <= w
      BY <1>1, <1>2, <1>4, <2>1
    <2>2. CASE ~(n <= w)
      <3>1. n - w \in 1..PacketOctets /\ e + (n - w) = c + n
        BY <1>1, <1>3, <2>2, Sizes
      <3>2. Good(octets[n - w], c + n)
        BY <1>5, <3>1
      <3>3. QED
        BY <1>2, <2>2, <3>2
    <2>3. QED
      BY <2>1, <2>2
  <1>7. QED
    BY <1>2, <1>6 DEF w, c

LEMMA StoredType ==
  ASSUME TypeOK, NEW octets \in Seq(Nat), type = "one_shot" => SampleCount < StopAt
  PROVE  /\ StoredOf(octets) \in Nat
         /\ Stored = SampleCount
         /\ (type = "one_shot" => SampleCount + Blocks(octets) < StopAt) => StoredOf(octets) = Blocks(octets)
         /\ (IF type = "one_shot" THEN Lesser(SampleCount + Blocks(octets), StopAt)
             ELSE SampleCount + Blocks(octets)) = SampleCount + StoredOf(octets)
  <1>1. Blocks(octets) \in Nat /\ SampleCount \in Nat /\ StopAt \in Nat
    BY FrameData, Sizes DEF TypeOK
  <1>2. CASE type = "one_shot"
    BY <1>1, <1>2 DEF StoredOf, Stored, Lesser
  <1>3. CASE type # "one_shot"
    BY <1>1, <1>3 DEF StoredOf, Stored
  <1>4. QED
    BY <1>2, <1>3

(* A frame, which is the next packet or zeros in its place, is put behind  *)
(* the octets in the work buffer.                                          *)
LEMMA FrameWork ==
  ASSUME TypeOK, WorkInv, Running, epc # "abort", NEW octets \in Seq(Nat), Len(octets) = PacketOctets,
         \A i \in 1..PacketOctets : Good(octets[i], (ExpectedPacketCounter - 1) * PacketOctets + i),
         ProcessFrame(octets), ExpectedPacketCounter' = ExpectedPacketCounter + 1,
         type' = type, lost' = lost
  PROVE  WorkInv'
  <1> SUFFICES ASSUME Running'
               PROVE  /\ SampleIndex' = SampleCount' % UserSamples
                      /\ type = "one_shot" => SampleCount' < StopAt
                      /\ (ExpectedPacketCounter' - 1) * PacketOctets = SampleCount' * BlockOctets + Len(work')
                      /\ \A i \in 1..Len(work') : Good(work'[i], SampleCount' * BlockOctets + i)
    BY DEF WorkInv, Good, PacketOf
  <1> DEFINE n    == Len(Data(octets))
             b    == Blocks(octets)
             rest == SubSeq(Data(octets), b * BlockOctets + 1, n)
  <1>1. /\ SampleCount \in Nat /\ ExpectedPacketCounter \in Nat /\ b \in Nat /\ n \in Nat /\ Len(work) \in Nat
        /\ type \in {"one_shot", "cyclic"}
    BY FrameData DEF TypeOK
  <1>2. /\ type = "one_shot" => SampleCount < StopAt
        /\ (ExpectedPacketCounter - 1) * PacketOctets = SampleCount * BlockOctets + Len(work)
        /\ SampleIndex = SampleCount % UserSamples
    BY DEF WorkInv
  <1>3. work' = rest /\ SampleCount' = SampleCount + b /\ SampleIndex' = (SampleIndex + StoredOf(octets)) % UserSamples
        /\ Running' = (type = "cyclic" \/ SampleCount + b < StopAt)
    BY FrameDone
  <1>4. n = Len(work) + PacketOctets /\ \A i \in 1..n : Good(Data(octets)[i], SampleCount * BlockOctets + i)
    BY FrameOctets
  <1>5. /\ rest \in Seq(Nat) /\ n = b * BlockOctets + Len(rest)
        /\ \A i \in 1..Len(rest) : /\ rest[i] = Data(octets)[b * BlockOctets + i]
                                   /\ b * BlockOctets + i \in 1..n
    BY RestData
  <1>6. SampleIndex' = SampleCount' % UserSamples
    <2>1. StoredOf(octets) = b
      BY <1>1, <1>2, <1>3, StoredType
    <2>2. ((SampleCount % UserSamples) + b) % UserSamples = (SampleCount + b) % UserSamples
      <3>1. SampleCount \in Int /\ b \in Int /\ UserSamples \in Nat \ {0}
        BY <1>1, Sizes
      <3> HIDE DEF b
      <3>2. QED
        BY <3>1, RemainderOfNext
    <2>3. QED
      BY <1>2, <1>3, <2>1, <2>2
  <1>7. type = "one_shot" => SampleCount' < StopAt
    BY <1>1, <1>3
  <1>8. SampleCount' * BlockOctets = SampleCount * BlockOctets + b * BlockOctets
        /\ SampleCount * BlockOctets \in Nat /\ b * BlockOctets \in Nat
    <2>1. SampleCount \in Nat /\ b \in Nat /\ BlockOctets \in Nat /\ SampleCount' = SampleCount + b
      BY <1>1, <1>3, Sizes
    <2> HIDE DEF b
    <2>2. QED
      BY <2>1
  <1>9. (ExpectedPacketCounter' - 1) * PacketOctets = (ExpectedPacketCounter - 1) * PacketOctets + PacketOctets
    BY <1>1, Sizes
  <1>10. (ExpectedPacketCounter - 1) * PacketOctets \in Int /\ Len(rest) \in Nat
    <2>1. Len(rest) \in Nat
      BY <1>5, LenProperties
    <2>2. (ExpectedPacketCounter - 1) * PacketOctets \in Int
      BY <1>1, Sizes
    <2>3. QED
      BY <2>1, <2>2
  <1> HIDE DEF n, b, rest
  <1>11. (ExpectedPacketCounter' - 1) * PacketOctets = SampleCount' * BlockOctets + Len(work')
    <2>1. (ExpectedPacketCounter' - 1) * PacketOctets = SampleCount * BlockOctets + n
      <3>1. PacketOctets \in Nat /\ Len(work) \in Nat /\ SampleCount * BlockOctets \in Nat
        BY <1>1, <1>8, Sizes
      <3>2. n = Len(work) + PacketOctets
        BY <1>4
      <3>3. (ExpectedPacketCounter' - 1) * PacketOctets = (SampleCount * BlockOctets + Len(work)) + PacketOctets
        BY <1>2, <1>9
      <3>4. QED
        BY <3>1, <3>2, <3>3
    <2>2. n = b * BlockOctets + Len(work')
      BY <1>3, <1>5
    <2>3. Len(work') \in Nat
      BY <1>3, <1>10
    <2>4. QED
      BY <1>8, <2>1, <2>2, <2>3
  <1>12. ASSUME NEW i \in 1..Len(work') PROVE Good(work'[i], SampleCount' * BlockOctets + i)
    <2>1. work'[i] = Data(octets)[b * BlockOctets + i] /\ b * BlockOctets + i \in 1..n
      BY <1>3, <1>5
    <2>2. SampleCount' * BlockOctets + i = SampleCount * BlockOctets + (b * BlockOctets + i)
      <3>1. i \in Int
        BY <1>3, <1>10
      <3>2. QED
        BY <1>8, <3>1
    <2>3. QED
      BY <1>4, <2>1, <2>2
  <1>13. QED
    BY <1>6, <1>7, <1>11, <1>12

(* The last block of a frame at the index of the j-th sample is the j-th   *)
(* sample, or none if that one was stored before.                          *)
LEMMA SampleAt ==
  ASSUME TypeOK, NEW octets \in Seq(Nat), SampleIndex = SampleCount % UserSamples, StoredOf(octets) \in Nat,
         NEW j \in Nat, j >= 1, j <= SampleCount + StoredOf(octets), j > SampleCount + StoredOf(octets) - UserSamples
  PROVE  (j - 1) % UserSamples \in 0..(UserSamples - 1) /\ LastAt(octets, (j - 1) % UserSamples) = j - SampleCount
  <1> DEFINE s == StoredOf(octets)
             i == (j - 1) % UserSamples
             d == SampleCount + s - j
  <1>1. SampleCount \in Nat /\ s \in Nat /\ UserSamples \in Nat \ {0} /\ j - 1 \in Int /\ s - 1 \in Int
    BY Sizes DEF TypeOK
  <1>2. i \in 0..(UserSamples - 1)
    BY <1>1, RemainderType
  <1>3. ((SampleCount % UserSamples) + (s - 1) - i) % UserSamples = (SampleCount + (s - 1) - (j - 1)) % UserSamples
    <2>1. SampleCount \in Int /\ s - 1 \in Int /\ j - 1 \in Int /\ UserSamples \in Nat \ {0}
      BY <1>1
    <2> HIDE DEF s
    <2>2. QED
      BY <2>1, RemainderOfSum
  <1>4. SampleCount + (s - 1) - (j - 1) = d /\ d \in 0..(UserSamples - 1) /\ d \in Int
    BY <1>1
  <1>5. d % UserSamples = d
    <2>1. 0 \in Int /\ d = UserSamples * 0 + d
      BY <1>1, <1>4
    <2>2. QED
      BY <1>1, <1>4, <2>1, DivisionUnique
  <1>6. SampleIndex \in Int /\ SampleIndex + s - 1 - i = (SampleCount % UserSamples) + (s - 1) - i
    <2>1. SampleIndex \in Int
      BY DEF TypeOK
    <2> HIDE DEF i, s
    <2>2. QED
      BY <1>1, <1>2, <2>1
  <1>7. LastAt(octets, i) = s - d
    BY <1>3, <1>4, <1>5, <1>6 DEF LastAt
  <1>8. s - d = j - SampleCount
    BY <1>1
  <1>9. QED
    BY <1>2, <1>7, <1>8

(* What is required of the j-th sample.                                    *)
InPlace(block, j) ==
  /\ Len(block) = BlockOctets
  /\ \A k \in 1..BlockOctets : Good(block[k], (j - 1) * BlockOctets + k)

LEMMA InOrderByPlace ==
  StoredInOrder <=>
    \A j \in Greater(1, Stored - UserSamples + 1)..Stored : InPlace(user[(j - 1) % UserSamples], j)
  BY DEF StoredInOrder, InPlace, Good

LEMMA FrameSamples ==
  ASSUME TypeOK, WorkInv, StoredInOrder, Running, epc # "abort",
         NEW octets \in Seq(Nat), Len(octets) = PacketOctets,
         \A i \in 1..PacketOctets : Good(octets[i], (ExpectedPacketCounter - 1) * PacketOctets + i),
         ProcessFrame(octets), type' = type, lost' = lost
  PROVE  StoredInOrder'
  <1> DEFINE s == StoredOf(octets)
             c == SampleCount
  <1>1. /\ c \in Nat /\ s \in Nat /\ UserSamples \in Nat \ {0} /\ Blocks(octets) \in Nat /\ s <= Blocks(octets)
        /\ Stored = c /\ Stored' = c + s
    <2>1. type = "one_shot" => SampleCount < StopAt
      BY DEF WorkInv
    <2>2. SampleCount' = SampleCount + Blocks(octets)
      BY FrameDone
    <2>3. Stored' = IF type = "one_shot" THEN Lesser(SampleCount + Blocks(octets), StopAt)
                    ELSE SampleCount + Blocks(octets)
      BY <2>2 DEF Stored
    <2>4. c \in Nat /\ s \in Nat /\ Stored = c /\ Stored' = c + s
      BY <2>1, <2>3, StoredType DEF TypeOK
    <2>5. QED
      BY <2>4, FrameData, Sizes
  <1>2. SampleIndex = SampleCount % UserSamples /\ DOMAIN user = 0..(UserSamples - 1)
    BY DEF WorkInv, TypeOK
  <1>3. \A n \in 1..Len(Data(octets)) : Good(Data(octets)[n], c * BlockOctets + n)
    BY FrameOctets
  <1>4. \A v, n : Good(v, n)' = Good(v, n)
    BY DEF Good, PacketOf
  <1>5. SUFFICES ASSUME NEW j \in Greater(1, (c + s) - UserSamples + 1)..(c + s)
                 PROVE  InPlace(user'[(j - 1) % UserSamples], j)
    <2>1. (\A j \in Greater(1, (c + s) - UserSamples + 1)..(c + s) : InPlace(user'[(j - 1) % UserSamples], j))
            => StoredInOrder'
      BY <1>1, <1>4, InOrderByPlace DEF StoredInOrder, InPlace, Good, PacketOf
    <2>2. QED
      BY <2>1
  <1> DEFINE i == (j - 1) % UserSamples
             b == j - c
  <1>6. j \in Nat /\ j >= 1 /\ j <= c + s /\ j > c + s - UserSamples
    BY <1>1 DEF Greater
  <1>7. i \in 0..(UserSamples - 1) /\ LastAt(octets, i) = b
    BY <1>1, <1>2, <1>6, SampleAt
  <1>8. user'[i] = IF b >= 1 THEN Block(octets, b) ELSE user[i]
    <2>1. user' = [m \in DOMAIN user |-> IF LastAt(octets, m) >= 1 THEN Block(octets, LastAt(octets, m)) ELSE user[m]]
      BY FrameDone
    <2> HIDE DEF i, b
    <2>2. QED
      BY <1>2, <1>7, <2>1
  <1>9. CASE b >= 1
    <2>1. b \in Nat /\ b <= Blocks(octets)
      BY <1>1, <1>6, <1>9
    <2>2. /\ Len(Block(octets, b)) = BlockOctets
          /\ \A k \in 1..BlockOctets : /\ Block(octets, b)[k] = Data(octets)[(b - 1) * BlockOctets + k]
                                       /\ (b - 1) * BlockOctets + k \in 1..Len(Data(octets))
      BY <1>9, <2>1, BlockData
    <2>3. ASSUME NEW k \in 1..BlockOctets PROVE Good(Block(octets, b)[k], (j - 1) * BlockOctets + k)
      <3>1. Good(Data(octets)[(b - 1) * BlockOctets + k], c * BlockOctets + ((b - 1) * BlockOctets + k))
        BY <1>3, <2>2
      <3>2. c * BlockOctets + ((b - 1) * BlockOctets + k) = (j - 1) * BlockOctets + k
        <4>1. BlockOctets \in Nat /\ c \in Nat /\ j \in Nat /\ k \in Nat /\ b = j - c
          BY <1>1, <1>6, Sizes
        <4> HIDE DEF b, c
        <4>2. (b - 1) * BlockOctets = (j - 1) * BlockOctets - c * BlockOctets
              /\ (j - 1) * BlockOctets \in Int /\ c * BlockOctets \in Int
          BY <4>1
        <4>3. QED
          BY <4>1, <4>2
      <3>3. QED
        BY <2>2, <3>1, <3>2
    <2>4. QED
      BY <1>8, <1>9, <2>2, <2>3 DEF InPlace
  <1>10. CASE ~(b >= 1)
    <2>1. j \in Greater(1, Stored - UserSamples + 1)..Stored
      BY <1>1, <1>6, <1>10 DEF Greater
    <2>2. InPlace(user[i], j)
      BY <2>1, InOrderByPlace
    <2>3. QED
      BY <1>8, <1>10, <2>2
  <1>11. QED
    BY <1>9, <1>10

-----------------------------------------------------------------------------
(* The packets in the ring.                                                *)

(* When the receiver may overtake the evaluation, the packets come in the  *)
(* order in which they were sent, and a gap of a whole ring is an error.   *)
OverrunAlone ==
  \A F \in FaultSets : "overrun" \in F =>
    "disorder" \notin F /\ "foreign" \notin F /\ MAX_PACKET_LOSS < MaxPacketNo - 1

(* The packets before the n-th have been written.                          *)
Written == IF spc = "read" THEN PacketCounter + 1 ELSE PacketCounter

(* The packets that wait before the k-th come before packet c.             *)
Before(k, c) == \A j \in m_PacketNo..(k - 1) : At(j).counter < c

(* Packet c waits behind earlier ones.                                     *)
Kept(c) ==
  \E k \in m_PacketNo..(Written - 1) : At(k).own /\ At(k).counter = c /\ Before(k, c)

(* Packet c was not counted, as there were enough octets before it.        *)
Dropped(c) ==
  /\ type = "one_shot"
  /\ \E d \in 0..PacketCounter : d * PacketOctets >= RequestedData /\ Before(d, c)

(* The packet to be evaluated next has been overwritten: there is a gap    *)
(* that ends the program.                                                  *)
Doomed ==
  /\ "overrun" \in faults
  /\ epc \in {"wait", "process", "header"}
  /\ m_PacketNo < PacketCounter
  /\ Packet0.own /\ Packet0.counter >= ExpectedPacketCounter + MaxPacketNo

(* The packets that wait are as many as the ring holds, and every packet   *)
(* since the one expected waits, was lost or was not counted.              *)
Healthy ==
  /\ Written - m_PacketNo <= MaxPacketNo
  /\ \A c \in ExpectedPacketCounter..(next - 1) : c \in lost \/ Kept(c) \/ Dropped(c)
  /\ "overrun" \in faults =>
       /\ \A k \in m_PacketNo..(Written - 1) : next >= At(k).counter + (Written - k)
       /\ epc \notin {"fill", "frame"} => next >= ExpectedPacketCounter + (Written - m_PacketNo)

KeepInv == Alive => Doomed \/ Healthy

(* The packets for which zeros are put in are lost; the number of the      *)
(* packet expected is that of a packet evaluated later.                    *)
HeaderInv ==
  /\ epc \in {"fill", "frame"} =>
       /\ ExpectedPacketCounter <= header
       /\ \A c \in ExpectedPacketCounter..(header - 1) : c \in lost \/ ~Running
  /\ epc = "frame" => ExpectedPacketCounter = header
  /\ m_PacketNo = 0 /\ epc \notin {"fill", "frame"} => ExpectedPacketCounter = 1
  /\ epc # "abort" => ExpectedPacketCounter > m_PacketNo

(* Only packets that are counted count as data.                            *)
DataInv == UserData <= PacketCounter * PacketOctets

CyclicInv == type = "cyclic" => Running

LEMMA PlaceTypes ==
  ASSUME TypeInv
  PROVE  /\ m_PacketNo \in Nat /\ PacketCounter \in Nat /\ packetNo \in Nat /\ header \in Nat
         /\ ExpectedPacketCounter \in Nat /\ next \in Nat /\ UserData \in Nat
         /\ Written \in Nat /\ Written \in {PacketCounter, PacketCounter + 1}
         /\ m_PacketNo <= PacketCounter
         /\ \A k \in Nat : At(k).counter \in Nat /\ (At(k).own => At(k).counter \in 1..(next - 1))
  <1>1. Sends(type) \in Nat /\ next \in 1..(Sends(type) + 1)
    BY SendsIsNat DEF TypeInv, TypeOK
  <1>2. next \in Nat
    BY <1>1
  <1>3. ASSUME NEW k \in Nat
        PROVE  At(k).counter \in Nat /\ (At(k).own => At(k).counter \in 1..(next - 1))
    <2>1. k % MaxPacketNo \in Slot /\ ring \in [Slot -> Packet]
      BY SlotType DEF TypeInv, TypeOK
    <2>2. ring[k % MaxPacketNo] \in Packet
      BY <2>1
    <2>3. QED
      BY <2>1, <2>2 DEF At, Packet, TypeInv, RingInv
  <1>4. QED
    BY <1>2, <1>3 DEF TypeInv, TypeOK, PlaceInv, Written

OrderInv ==
  /\ SignalInv
  /\ KeepInv /\ HeaderInv /\ DataInv /\ CyclicInv
  /\ WorkInv /\ StoredInOrder

LEMMA OrderInit == Init => OrderInv
  <1> SUFFICES ASSUME Init PROVE OrderInv
    OBVIOUS
  <1>1. SignalInv
    BY TypeInit, OwnInit DEF SignalInv
  <1>2. PacketCounter = 0 /\ m_PacketNo = 0 /\ next = 1 /\ ExpectedPacketCounter = 1 /\ Written = 0
    BY DEF Init, Written
  <1>3. KeepInv
    <2>1. Healthy
      BY <1>2, Sizes DEF Healthy
    <2>2. QED
      BY <2>1 DEF KeepInv
  <1>4. HeaderInv
    BY <1>2 DEF Init, HeaderInv
  <1>5. DataInv
    BY Sizes DEF Init, DataInv
  <1>6. SampleCount = 0 /\ SampleIndex = 0 /\ work = <<>> /\ Running
    BY DEF Init
  <1>7. WorkInv
    <2>1. 0 % UserSamples = 0
      <3>1. 0 \in Int /\ 0 \in 0..(UserSamples - 1) /\ 0 = UserSamples * 0 + 0
        BY Sizes
      <3>2. QED
        BY <3>1, Sizes, DivisionUnique
    <2>2. Len(work) = 0
      BY <1>6
    <2>3. 0 * PacketOctets = 0 /\ 0 * BlockOctets = 0
      BY Sizes
    <2>4. QED
      BY <1>2, <1>6, <2>1, <2>2, <2>3, Sizes DEF WorkInv
  <1>8. StoredInOrder
    <2>1. Stored = 0
      BY <1>6, Sizes DEF Stored, Lesser
    <2>2. Greater(1, Stored - UserSamples + 1) >= 1
      BY <2>1, Sizes DEF Greater
    <2>3. \A j \in Greater(1, Stored - UserSamples + 1)..Stored : FALSE
      <3>1. Greater(1, Stored - UserSamples + 1) \in Int
        BY <2>1, Sizes DEF Greater
      <3>2. QED
        BY <2>1, <2>2, <3>1
    <2>4. QED
      BY <2>3 DEF StoredInOrder
  <1>9. QED
    BY <1>1, <1>3, <1>4, <1>5, <1>6, <1>7, <1>8 DEF OrderInv, CyclicInv

LEMMA OverrunIsOwn == ASSUME OverrunAlone PROVE OwnPackets
  BY DEF OverrunAlone, OwnPackets

LEMMA DataStep == ASSUME TypeInv, DataInv, [Next]_vars PROVE DataInv'
  <1>1. PacketCounter \in Nat /\ UserData \in Nat /\ PacketOctets \in Nat /\ PacketCounter * PacketOctets \in Nat
        /\ (PacketCounter + 1) * PacketOctets = PacketCounter * PacketOctets + PacketOctets
    BY PlaceTypes, Sizes
  <1>2. \/ PacketCounter' = PacketCounter /\ UserData' = UserData
        \/ PacketCounter' = PacketCounter + 1 /\ UserData' \in {UserData, UserData + PacketOctets}
    <2>1. CASE Reject \/ CountTest \/ CountCyclic
      BY <2>1 DEF Reject, CountTest, CountCyclic
    <2>2. CASE CountOneShot
      BY <2>2 DEF CountOneShot
    <2>3. CASE ~OnRead
      BY <2>3 DEF Next, Lose, ReceiveNext, ReceiveStray, Receive, ServerExit, Stop, Evaluate,
                  Wake, ProcessData, ReadHeader, Fill, Frame, EvalExit, receiver, vars
    <2>4. QED
      BY <2>1, <2>2, <2>3 DEF OnRead
  <1>3. QED
    BY <1>1, <1>2 DEF DataInv

LEMMA FrameRuns ==
  ASSUME NEW octets, ProcessFrame(octets), Running \in BOOLEAN, Running'
  PROVE  Running
  BY DEF ProcessFrame, samples

(* A one-shot measurement that was complete is not resumed, and a cyclic   *)
(* one has no end.                                                         *)
LEMMA RunningStep ==
  ASSUME TypeInv, CyclicInv, [Next]_vars
  PROVE  CyclicInv' /\ (Running' => Running) /\ type' = type /\ lost \subseteq lost'
  <1>1. CASE Fill \/ Frame
    <2>1. type' = type /\ lost' = lost
      BY <1>1 DEF Fill, Frame, network
    <2>2. UNCHANGED samples \/ ProcessFrame(Zeros) \/ ProcessFrame(Payload)
      BY <1>1 DEF Fill, Frame, samples
    <2>3. Running \in BOOLEAN
      BY DEF TypeInv, TypeOK
    <2>4. Running' => Running
      BY <2>2, <2>3, FrameRuns DEF samples
    <2>5. type = "cyclic" => Running'
      <3>1. Running' = Running \/ Running' = (type = "cyclic" \/ SampleCount + Blocks(Zeros) < StopAt)
            \/ Running' = (type = "cyclic" \/ SampleCount + Blocks(Payload) < StopAt)
        BY <2>2, FrameDone DEF samples, ProcessFrame
      <3>2. QED
        BY <3>1 DEF CyclicInv
    <2>6. QED
      BY <2>1, <2>4, <2>5 DEF CyclicInv
  <1>2. CASE ~(Fill \/ Frame)
    <2>1. Running' = Running
      BY <1>2 DEF Next, Lose, ReceiveNext, ReceiveStray, Receive, OnRead, Reject, CountTest, CountOneShot,
                  CountCyclic, ServerExit, Stop, Evaluate, Wake, ProcessData, ReadHeader, EvalExit, samples, vars
    <2>2. type' = type /\ lost \subseteq lost'
      BY <1>2 DEF Next, Lose, ReceiveNext, ReceiveStray, OnRead, Reject, CountTest, CountOneShot,
                  CountCyclic, ServerExit, Stop, Evaluate, Wake, ProcessData, ReadHeader, EvalExit, network, vars
    <2>3. QED
      BY <2>1, <2>2 DEF CyclicInv
  <1>3. QED
    BY <1>1, <1>2

(* What the other actions leave as it is.                                  *)
LEMMA EvalKept ==
  ASSUME [Next]_vars, ~(ProcessData \/ ReadHeader \/ Fill \/ Frame)
  PROVE  /\ UNCHANGED <<m_PacketNo, header, ExpectedPacketCounter, samples>>
         /\ epc' = epc \/ (Wake /\ epc = "wait" /\ epc' = "process")
                       \/ (EvalExit /\ epc = "wait" /\ epc' = "exited")
  BY DEF Next, Lose, ReceiveNext, ReceiveStray, Receive, OnRead, Reject, CountTest, CountOneShot,
         CountCyclic, ServerExit, Stop, Evaluate, Wake, EvalExit, eval, vars

(* The first packet is looked for as packet 1 from the beginning.          *)
LEMMA ProcessKeeps ==
  ASSUME HeaderInv, ProcessData
  PROVE  /\ UNCHANGED <<m_PacketNo, header, ExpectedPacketCounter, samples, network, receiver>>
         /\ epc = "process" /\ epc' \in {"wait", "header"}
  <1>1. epc = "process" /\ UNCHANGED <<m_PacketNo, header, samples, network, receiver>> /\ epc' \in {"wait", "header"}
    BY DEF ProcessData
  <1>2. ExpectedPacketCounter' = ExpectedPacketCounter
    BY <1>1 DEF ProcessData, HeaderInv
  <1>3. QED
    BY <1>1, <1>2

LEMMA HeaderStep ==
  ASSUME DataFits, OverrunAlone, OrderInv, [Next]_vars,
         ReadHeader /\ epc' = "fill" =>
           /\ ExpectedPacketCounter <= Packet0.counter
           /\ \A c \in ExpectedPacketCounter..(Packet0.counter - 1) : c \in lost \/ ~Running
  PROVE  HeaderInv'
  <1>0. /\ m_PacketNo \in Nat /\ ExpectedPacketCounter \in Nat /\ header \in Nat /\ TypeInv
        /\ HeaderInv /\ CyclicInv
    BY PlaceTypes DEF OrderInv, SignalInv
  <1>1. (Running' => Running) /\ lost \subseteq lost'
    BY <1>0, RunningStep
  <1>2. CASE ~(ProcessData \/ ReadHeader \/ Fill \/ Frame)
    BY <1>0, <1>1, <1>2, EvalKept DEF HeaderInv
  <1>3. CASE ProcessData
    BY <1>0, <1>1, <1>3, ProcessKeeps DEF HeaderInv
  <1>4. CASE ReadHeader
    <2>1. /\ epc = "header" /\ epc' \in {"wait", "abort", "fill"} /\ header' = Packet0.counter
          /\ ExpectedPacketCounter' = ExpectedPacketCounter
          /\ m_PacketNo' = m_PacketNo \/ (m_PacketNo' = m_PacketNo + 1 /\ epc' = "abort")
      BY <1>4 DEF ReadHeader
    <2>2. QED
      BY <1>0, <1>1, <1>4, <2>1 DEF HeaderInv
  <1>5. CASE Fill
    <2>1. epc = "fill" /\ UNCHANGED <<m_PacketNo, header>>
      BY <1>5 DEF Fill
    <2>2. CASE ExpectedPacketCounter < header
      <3>1. ExpectedPacketCounter' = ExpectedPacketCounter + 1 /\ epc' = "fill"
        BY <1>5, <2>1, <2>2 DEF Fill
      <3>2. \A c \in (ExpectedPacketCounter + 1)..(header - 1) : c \in ExpectedPacketCounter..(header - 1)
        BY <1>0
      <3>3. QED
        BY <1>0, <1>1, <2>1, <2>2, <3>1, <3>2 DEF HeaderInv
    <2>3. CASE ~(ExpectedPacketCounter < header)
      <3>1. ExpectedPacketCounter' = ExpectedPacketCounter /\ epc' = "frame"
        BY <1>5, <2>1, <2>3 DEF Fill
      <3>2. QED
        BY <1>0, <1>1, <2>1, <2>3, <3>1 DEF HeaderInv
    <2>4. QED
      BY <2>2, <2>3
  <1>6. CASE Frame
    <2>1. epc' = "header" /\ m_PacketNo' = m_PacketNo + 1 /\ ExpectedPacketCounter' = ExpectedPacketCounter + 1
          /\ epc = "frame"
      BY <1>6 DEF Frame
    <2>2. QED
      BY <1>0, <2>1 DEF HeaderInv
  <1>7. QED
    BY <1>2, <1>3, <1>4, <1>5, <1>6

(* A measurement that is not complete still expects a packet with the data *)
(* asked for.                                                              *)
LEMMA StillExpected ==
  ASSUME DataFits, TypeInv, WorkInv, HeaderInv, Running, epc # "abort", type = "one_shot",
         NEW d \in Nat, d * PacketOctets >= RequestedData
  PROVE  m_PacketNo < d
  <1> DEFINE e == ExpectedPacketCounter - 1
             o == SampleCount * BlockOctets
  <1>1. e \in Nat /\ m_PacketNo \in Nat /\ m_PacketNo <= e
    BY PlaceTypes DEF HeaderInv
  <1>2. e * PacketOctets = o + Len(work) /\ SampleCount < StopAt
    BY DEF WorkInv
  <1>3. o \in Nat /\ o + BlockOctets <= RequestedData /\ RequestedData \in Nat
    <2>1. SampleCount \in Nat /\ StopAt \in Nat /\ BlockOctets \in Nat /\ SampleCount + 1 <= StopAt
      BY <1>2, Sizes DEF TypeInv, TypeOK
    <2>2. (StopAt - (SampleCount + 1)) * BlockOctets \in Nat
          /\ (StopAt - (SampleCount + 1)) * BlockOctets = StopAt * BlockOctets - (o + BlockOctets)
          /\ StopAt * BlockOctets \in Nat /\ o \in Nat
      BY <2>1
    <2>3. RequestedData = StopAt * BlockOctets
      BY <2>2, DataAsked
    <2>4. QED
      BY <2>1, <2>2, <2>3
  <1>4. Len(work) \in Nat /\ Len(work) < BlockOctets
    BY DEF TypeInv, TypeOK
  <1> HIDE DEF e, o
  <1>5. e * PacketOctets < RequestedData
    <2>1. BlockOctets \in Nat
      BY Sizes
    <2>2. QED
      BY <1>2, <1>3, <1>4, <2>1
  <1>6. SUFFICES ASSUME d <= m_PacketNo PROVE FALSE
    BY <1>1
  <1>7. (e - d) * PacketOctets \in Nat /\ (e - d) * PacketOctets = e * PacketOctets - d * PacketOctets
        /\ e * PacketOctets \in Nat /\ d * PacketOctets \in Nat
    <2>1. e - d \in Nat /\ PacketOctets \in Nat
      BY <1>1, <1>6, Sizes
    <2>2. QED
      BY <1>1, <2>1
  <1>8. QED
    BY <1>3, <1>5, <1>7

(* The evaluation does not go on with a packet that was overwritten.       *)
LEMMA HeaderHealthy ==
  ASSUME DataFits, OverrunAlone, OrderInv, ReadHeader, epc' = "fill"
  PROVE  /\ Healthy
         /\ m_PacketNo < packetNo /\ Packet0.own /\ ExpectedPacketCounter <= Packet0.counter
  <1>1. m_PacketNo < packetNo /\ Packet0.own /\ InOrder(Packet0.counter) /\ Alive
    BY DEF ReadHeader
  <1>2. ExpectedPacketCounter \in Nat /\ Packet0.counter \in Nat /\ m_PacketNo \in Nat
    <2>1. TypeInv
      BY DEF OrderInv, SignalInv
    <2>2. QED
      BY <2>1, PlaceTypes DEF At, Packet0
  <1>3. ~Doomed
    <2> SUFFICES ASSUME "overrun" \in faults, Packet0.counter >= ExpectedPacketCounter + MaxPacketNo
                 PROVE  FALSE
      BY DEF Doomed
    <2>1. faults \in FaultSets
      BY DEF OrderInv, SignalInv, TypeInv, TypeOK
    <2>2. MAX_PACKET_LOSS < MaxPacketNo - 1
      BY <2>1 DEF OverrunAlone
    <2>3. MAX_PACKET_LOSS \in Nat /\ MaxPacketNo \in Nat
      BY StreamAssumption
    <2>4. QED
      BY <1>1, <1>2, <2>2, <2>3 DEF InOrder
  <1>4. QED
    BY <1>1, <1>3 DEF OrderInv, KeepInv, InOrder

LEMMA HeaderFound ==
  ASSUME DataFits, OverrunAlone, OrderInv, ReadHeader, epc' = "fill"
  PROVE  /\ ExpectedPacketCounter <= Packet0.counter
         /\ \A c \in ExpectedPacketCounter..(Packet0.counter - 1) : c \in lost \/ ~Running
  <1>0. TypeInv /\ WorkInv /\ HeaderInv
    BY DEF OrderInv, SignalInv
  <1>1. Healthy /\ m_PacketNo < packetNo /\ Packet0.own /\ ExpectedPacketCounter <= Packet0.counter
    BY HeaderHealthy
  <1>2. /\ m_PacketNo \in Nat /\ ExpectedPacketCounter \in Nat /\ Packet0 = At(m_PacketNo)
        /\ Packet0.counter \in 1..(next - 1) /\ next \in Nat /\ PacketCounter \in Nat /\ Written \in Nat
    BY <1>0, <1>1, PlaceTypes DEF At, Packet0
  <1>3. SUFFICES ASSUME NEW c \in ExpectedPacketCounter..(Packet0.counter - 1), c \notin lost, Running PROVE FALSE
    BY <1>1
  <1>4. c \in Int /\ c < Packet0.counter
    BY <1>2
  <1>5. ASSUME NEW k \in Nat, k > m_PacketNo PROVE ~Before(k, c)
    <2>1. m_PacketNo \in m_PacketNo..(k - 1)
      BY <1>2, <1>5
    <2>2. QED
      BY <1>2, <1>4, <2>1 DEF Before
  <1>6. ~Kept(c)
    <2> SUFFICES ASSUME NEW k \in m_PacketNo..(Written - 1), At(k).counter = c, Before(k, c) PROVE FALSE
      BY DEF Kept
    <2>1. k \in Nat /\ (k = m_PacketNo \/ k > m_PacketNo)
      BY <1>2
    <2>2. QED
      BY <1>2, <1>4, <1>5, <2>1
  <1>7. ~Dropped(c)
    <2> SUFFICES ASSUME type = "one_shot", NEW d \in 0..PacketCounter, d * PacketOctets >= RequestedData, Before(d, c)
                 PROVE  FALSE
      BY DEF Dropped
    <2>1. d \in Nat
      BY <1>2
    <2>2. m_PacketNo < d
      BY <1>0, <1>3, <2>1, StillExpected DEF ReadHeader
    <2>3. QED
      BY <1>2, <1>5, <2>1, <2>2
  <1>8. c \in lost \/ Kept(c) \/ Dropped(c)
    <2>1. c \in ExpectedPacketCounter..(next - 1)
      BY <1>2
    <2>2. QED
      BY <1>1, <2>1 DEF Healthy
  <1>9. QED
    BY <1>3, <1>6, <1>7, <1>8

(* The samples are filled in order.                                        *)
LEMMA SampleStep == ASSUME DataFits, OverrunAlone, OrderInv, [Next]_vars PROVE WorkInv' /\ StoredInOrder'
  <1>0. TypeInv /\ TypeOK /\ WorkInv /\ HeaderInv /\ CyclicInv /\ OwnInv /\ StoredInOrder /\ PlaceInv
    BY DEF OrderInv, SignalInv, TypeInv
  <1>1. (Running' => Running) /\ lost \subseteq lost' /\ type' = type
    BY <1>0, RunningStep
  <1>2. \A v, n : Good(v, n) => Good(v, n)'
    BY <1>1 DEF Good, PacketOf
  <1>3. CASE UNCHANGED <<SampleCount, SampleIndex, user, Running>>
             /\ (epc' # "abort" => UNCHANGED <<work, ExpectedPacketCounter>> /\ epc # "abort")
    <2>1. WorkInv'
      BY <1>0, <1>1, <1>2, <1>3 DEF WorkInv
    <2>2. StoredInOrder'
      <3>1. Stored' = Stored
        BY <1>1, <1>3 DEF Stored
      <3>2. QED
        BY <1>0, <1>1, <1>3, <3>1 DEF StoredInOrder, PacketOf
    <2>3. QED
      BY <2>1, <2>2
  <1>4. CASE ~(Fill \/ Frame)
    <2>1. CASE ~(ProcessData \/ ReadHeader)
      BY <1>3, <1>4, <2>1, EvalKept DEF samples
    <2>2. CASE ProcessData
      BY <1>0, <1>3, <2>2, ProcessKeeps DEF samples
    <2>3. CASE ReadHeader
      <3>1. m_PacketNo < packetNo => Packet0.own
        <4>1. m_PacketNo \in Nat /\ packetNo \in Nat /\ PacketCounter \in Nat /\ packetNo <= PacketCounter
          BY <1>0, PlaceTypes DEF PlaceInv
        <4>2. QED
          BY <1>0, <4>1 DEF OwnInv, At, Packet0
      <3>2. QED
        BY <1>3, <2>3, <3>1 DEF ReadHeader
    <2>4. QED
      BY <2>1, <2>2, <2>3
  <1>5. ASSUME NEW octets \in Seq(Nat), Len(octets) = PacketOctets, ProcessFrame(octets),
               epc # "abort", lost' = lost, ExpectedPacketCounter' = ExpectedPacketCounter + 1,
               Running => \A i \in 1..PacketOctets : Good(octets[i], (ExpectedPacketCounter - 1) * PacketOctets + i)
        PROVE  WorkInv' /\ StoredInOrder'
    <2>1. CASE Running
      BY <1>0, <1>1, <1>5, <2>1, FrameWork, FrameSamples
    <2>2. CASE ~Running
      <3>1. UNCHANGED samples /\ ~Running'
        BY <1>5, <2>2 DEF ProcessFrame, samples
      <3>2. WorkInv'
        BY <3>1 DEF WorkInv
      <3>3. Stored' = Stored /\ user' = user /\ lost' = lost
        BY <1>1, <1>5, <3>1 DEF Stored, samples
      <3>4. StoredInOrder'
        BY <1>0, <3>3 DEF StoredInOrder, PacketOf
      <3>5. QED
        BY <3>2, <3>4
    <2>3. QED
      BY <2>1, <2>2
  <1>6. ExpectedPacketCounter \in Nat /\ header \in Nat
    BY <1>0, PlaceTypes
  <1>7. CASE Fill
    <2>1. CASE ExpectedPacketCounter < header
      <3>1. ProcessFrame(Zeros) /\ ExpectedPacketCounter' = ExpectedPacketCounter + 1 /\ epc = "fill" /\ lost' = lost
        BY <1>7, <2>1 DEF Fill, network
      <3>2. Zeros \in Seq(Nat) /\ Len(Zeros) = PacketOctets
        BY <1>0, OctetTypes
      <3>3. Running => ExpectedPacketCounter \in lost
        <4>1. ExpectedPacketCounter \in ExpectedPacketCounter..(header - 1)
          BY <1>6, <2>1
        <4>2. QED
          BY <1>0, <3>1, <4>1 DEF HeaderInv
      <3>4. ASSUME Running, NEW i \in 1..PacketOctets
            PROVE  Good(Zeros[i], (ExpectedPacketCounter - 1) * PacketOctets + i)
        BY <1>6, <3>3, <3>4, OctetOfPacket DEF Good, Zeros
      <3>5. QED
        BY <1>5, <3>1, <3>2, <3>4
    <2>2. CASE ~(ExpectedPacketCounter < header)
      BY <1>3, <1>7, <2>2 DEF Fill, samples
    <2>3. QED
      BY <2>1, <2>2
  <1>8. CASE Frame
    <2>1. ProcessFrame(Payload) /\ ExpectedPacketCounter' = ExpectedPacketCounter + 1 /\ epc = "frame" /\ lost' = lost
      BY <1>8 DEF Frame, network
    <2>2. Packet0.own /\ Packet0.counter = ExpectedPacketCounter
      BY <1>0, <2>1 DEF PlaceInv, HeaderInv
    <2>3. Packet0.counter >= 1
      <3>1. ExpectedPacketCounter > m_PacketNo /\ m_PacketNo \in Nat
        BY <1>0, <2>1, PlaceTypes DEF HeaderInv
      <3>2. QED
        BY <1>6, <2>2, <3>1
    <2>4. Payload \in Seq(Nat) /\ Len(Payload) = PacketOctets
      BY <1>0, <2>2, <2>3, OctetTypes
    <2>5. \A i \in 1..PacketOctets : Good(Payload[i], (ExpectedPacketCounter - 1) * PacketOctets + i)
      BY <2>2 DEF Payload, Good
    <2>6. QED
      BY <1>5, <2>1, <2>4, <2>5
  <1>9. QED
    BY <1>4, <1>7, <1>8

-----------------------------------------------------------------------------
(* No packet that was sent is forgotten.                                   *)

(* The steps that change neither the ring nor what is expected.            *)
LEMMA KeepSame ==
  ASSUME UNCHANGED <<network, ring, PacketCounter, m_PacketNo, ExpectedPacketCounter>>,
         Written' = Written
  PROVE  /\ Healthy /\ (epc \in {"fill", "frame"} => epc' \in {"fill", "frame"}) => Healthy'
         /\ Doomed /\ epc' \in {"wait", "process", "header"} => Doomed'
  <1>1. \A k : At(k)' = At(k)
    BY DEF At
  <1>2. \A k, c : Before(k, c)' = Before(k, c)
    BY <1>1 DEF Before
  <1>3. \A c : Kept(c)' = Kept(c) /\ Dropped(c)' = Dropped(c)
    BY <1>1, <1>2 DEF Kept, Dropped, network
  <1>4. Packet0' = Packet0
    BY DEF Packet0
  <1>5. Doomed /\ epc' \in {"wait", "process", "header"} => Doomed'
    BY <1>4 DEF Doomed, network
  <1>6. ASSUME Healthy, epc \in {"fill", "frame"} => epc' \in {"fill", "frame"}
        PROVE  Healthy'
    BY <1>1, <1>3, <1>6 DEF Healthy, network
  <1>7. QED
    BY <1>5, <1>6

LEMMA KeepThreads ==
  ASSUME OrderInv, ServerExit \/ Stop \/ Wake \/ EvalExit \/ ProcessData
  PROVE  KeepInv'
  <1>1. Alive /\ (Doomed \/ Healthy) /\ HeaderInv /\ StopInv /\ LastInv /\ TypeInv
    BY DEF OrderInv, SignalInv, KeepInv, ServerExit, Stop, Wake, EvalExit, ProcessData
  <1>2. UNCHANGED <<network, ring, PacketCounter, m_PacketNo, ExpectedPacketCounter>>
    <2>1. CASE ProcessData
      BY <1>1, <2>1, ProcessKeeps DEF receiver
    <2>2. CASE ~ProcessData
      BY <2>2 DEF ServerExit, Stop, Wake, EvalExit, receiver, eval
    <2>3. QED
      BY <2>1, <2>2
  <1>3. Written' = Written
    BY <1>2 DEF ServerExit, Stop, Wake, EvalExit, ProcessData, receiver, Written
  <1>4. epc \in {"fill", "frame"} => epc' \in {"fill", "frame"}
    BY DEF ServerExit, Stop, Wake, EvalExit, ProcessData, eval
  <1>5. Doomed => epc' \in {"wait", "process", "header"}
    <2>1. CASE EvalExit
      <3>1. m_PacketNo = PacketCounter
        <4>1. signals \in Nat
          BY <1>1 DEF TypeInv, TypeOK
        <4>2. QED
          BY <1>1, <2>1, <4>1 DEF EvalExit, LastInv, Evaluating
      <3>2. ~Doomed
        BY <1>1, <3>1, PlaceTypes DEF Doomed
      <3>3. QED
        BY <3>2
    <2>2. CASE ~EvalExit
      BY <2>2 DEF ServerExit, Stop, Wake, ProcessData, eval, Doomed
    <2>3. QED
      BY <2>1, <2>2
  <1>6. Doomed' \/ Healthy'
    BY <1>1, <1>2, <1>3, <1>4, <1>5, KeepSame
  <1>7. QED
    BY <1>6 DEF KeepInv

LEMMA KeepHeader == ASSUME DataFits, OverrunAlone, OrderInv, ReadHeader PROVE KeepInv'
  <1>1. Alive /\ (Doomed \/ Healthy) /\ epc = "header" /\ UNCHANGED <<network, receiver, ExpectedPacketCounter>>
        /\ epc' \in {"wait", "abort", "fill"} /\ (epc' # "abort" => m_PacketNo' = m_PacketNo)
    BY DEF OrderInv, KeepInv, ReadHeader
  <1>2. CASE epc' = "abort"
    BY <1>2 DEF KeepInv, Alive
  <1>3. CASE epc' # "abort"
    <2>1. UNCHANGED <<network, ring, PacketCounter, m_PacketNo, ExpectedPacketCounter>> /\ Written' = Written
      BY <1>1, <1>3 DEF receiver, Written
    <2>2. epc' = "fill" => Healthy
      BY HeaderHealthy
    <2>3. Doomed' \/ Healthy'
      BY <1>1, <1>3, <2>1, <2>2, KeepSame
    <2>4. QED
      BY <2>3 DEF KeepInv
  <1>4. QED
    BY <1>2, <1>3

LEMMA KeepFill == ASSUME OrderInv, Fill PROVE KeepInv'
  <1>0. ExpectedPacketCounter \in Nat /\ next \in Nat
    BY PlaceTypes DEF OrderInv, SignalInv
  <1>1. Healthy /\ epc = "fill" /\ UNCHANGED <<network, receiver, m_PacketNo>>
        /\ epc' \in {"fill", "frame"}
        /\ ExpectedPacketCounter' \in {ExpectedPacketCounter, ExpectedPacketCounter + 1}
    BY DEF OrderInv, KeepInv, Fill, Doomed
  <1>2. \A c \in ExpectedPacketCounter'..(next - 1) : c \in ExpectedPacketCounter..(next - 1)
    BY <1>0, <1>1
  <1>3. /\ UNCHANGED <<ring, spc, PacketCounter, next, lost, type, faults, m_PacketNo>>
        /\ Written' = Written
    BY <1>1 DEF network, receiver, Written
  <1>4. \A k : At(k)' = At(k)
    BY <1>3 DEF At
  <1>5. \A k, c : Before(k, c)' = Before(k, c)
    BY <1>3, <1>4 DEF Before
  <1>6. \A c : Kept(c)' = Kept(c) /\ Dropped(c)' = Dropped(c)
    BY <1>3, <1>4, <1>5 DEF Kept, Dropped
  <1>7. Healthy'
    BY <1>1, <1>2, <1>3, <1>4, <1>6 DEF Healthy
  <1>8. QED
    BY <1>7 DEF KeepInv

LEMMA KeepFrame == ASSUME OrderInv, Frame PROVE KeepInv'
  <1>0. /\ m_PacketNo \in Nat /\ PacketCounter \in Nat /\ packetNo \in Nat /\ header \in Nat
        /\ ExpectedPacketCounter \in Nat /\ next \in Nat /\ Written \in Nat
        /\ m_PacketNo < packetNo /\ packetNo <= PacketCounter /\ PacketCounter <= Written
        /\ At(m_PacketNo).counter = header /\ ExpectedPacketCounter = header
    <2>1. TypeInv /\ HeaderInv /\ PlaceInv /\ epc = "frame"
      BY DEF OrderInv, SignalInv, TypeInv, Frame
    <2>2. PacketCounter <= Written
      BY <2>1, PlaceTypes DEF Written
    <2>3. QED
      BY <2>1, <2>2, PlaceTypes DEF PlaceInv, HeaderInv, Packet0, At
  <1>1. Healthy /\ UNCHANGED <<network, receiver>> /\ epc' = "header" /\ m_PacketNo' = m_PacketNo + 1
        /\ ExpectedPacketCounter' = ExpectedPacketCounter + 1
    BY DEF OrderInv, KeepInv, Frame, Doomed
  <1>2. /\ UNCHANGED <<ring, spc, PacketCounter, next, lost, type, faults>> /\ Written' = Written
    BY <1>1 DEF network, receiver, Written
  <1>3. \A k : At(k)' = At(k)
    BY <1>2 DEF At
  <1>4. \A k, c : Before(k, c) => Before(k, c)'
    <2>1. \A k : \A j \in (m_PacketNo + 1)..(k - 1) : j \in m_PacketNo..(k - 1)
      BY <1>0
    <2>2. QED
      BY <1>1, <1>3, <2>1 DEF Before
  <1>5. ASSUME NEW c \in (header + 1)..(next - 1)
        PROVE  c \in lost' \/ Kept(c)' \/ Dropped(c)'
    <2>1. c \in ExpectedPacketCounter..(next - 1) /\ c # header
      BY <1>0
    <2>2. Kept(c) => Kept(c)'
      <3> SUFFICES ASSUME NEW k \in m_PacketNo..(Written - 1), At(k).own, At(k).counter = c, Before(k, c)
                   PROVE  Kept(c)'
        BY DEF Kept
      <3>1. k # m_PacketNo
        BY <1>0, <2>1
      <3>2. k \in (m_PacketNo + 1)..(Written - 1)
        BY <1>0, <3>1
      <3>3. QED
        BY <1>1, <1>2, <1>3, <1>4, <3>2 DEF Kept
    <2>3. Dropped(c) => Dropped(c)'
      BY <1>2, <1>4 DEF Dropped
    <2>4. QED
      BY <1>1, <1>2, <2>1, <2>2, <2>3 DEF Healthy
  <1>6. Written - m_PacketNo <= MaxPacketNo
        /\ ("overrun" \in faults => \A k \in m_PacketNo..(Written - 1) : next >= At(k).counter + (Written - k))
    BY <1>1 DEF Healthy
  <1>7. Written' - m_PacketNo' <= MaxPacketNo
    BY <1>0, <1>1, <1>2, <1>6, Sizes
  <1>8. ASSUME "overrun" \in faults
        PROVE  /\ \A k \in (m_PacketNo + 1)..(Written - 1) : next >= At(k).counter + (Written - k)
               /\ next >= (header + 1) + (Written - (m_PacketNo + 1))
    <2>1. m_PacketNo \in m_PacketNo..(Written - 1)
      BY <1>0
    <2>2. next >= header + (Written - m_PacketNo)
      BY <1>0, <1>6, <1>8, <2>1
    <2>3. \A k \in (m_PacketNo + 1)..(Written - 1) : k \in m_PacketNo..(Written - 1)
      BY <1>0
    <2>4. QED
      BY <1>0, <1>6, <1>8, <2>2, <2>3
  <1>9. Healthy'
    BY <1>0, <1>1, <1>2, <1>3, <1>5, <1>7, <1>8 DEF Healthy
  <1>10. QED
    BY <1>9 DEF KeepInv

LEMMA KeepLose == ASSUME OrderInv, Lose PROVE KeepInv'
  <1>0. /\ next \in Nat /\ Written \in Nat /\ m_PacketNo \in Nat /\ ExpectedPacketCounter \in Nat
        /\ \A k \in Nat : At(k).counter \in Nat
    BY PlaceTypes DEF OrderInv, SignalInv
  <1>1. /\ Doomed \/ Healthy
        /\ UNCHANGED <<ring, spc, PacketCounter, type, faults, m_PacketNo, ExpectedPacketCounter, epc>>
        /\ next' = next + 1 /\ lost' = lost \cup {next}
    BY DEF OrderInv, KeepInv, Lose, receiver, eval
  <1>2. Written' = Written /\ Packet0' = Packet0 /\ (\A k : At(k)' = At(k))
    BY <1>1 DEF Written, Packet0, At
  <1>3. \A k, c : Before(k, c)' = Before(k, c)
    BY <1>1, <1>2 DEF Before
  <1>4. \A c : Kept(c)' = Kept(c) /\ Dropped(c)' = Dropped(c)
    BY <1>1, <1>2, <1>3 DEF Kept, Dropped
  <1>5. Doomed => Doomed'
    BY <1>1, <1>2 DEF Doomed
  <1>6. ASSUME Healthy PROVE Healthy'
    <2>1. \A c \in ExpectedPacketCounter..(next' - 1) : c \in ExpectedPacketCounter..(next - 1) \/ c = next
      BY <1>0, <1>1
    <2>2. \A c \in ExpectedPacketCounter..(next' - 1) : c \in lost' \/ Kept(c)' \/ Dropped(c)'
      BY <1>1, <1>4, <1>6, <2>1 DEF Healthy
    <2>3. ASSUME "overrun" \in faults
          PROVE  /\ \A k \in m_PacketNo..(Written - 1) : next' >= At(k).counter + (Written - k)
                 /\ epc \notin {"fill", "frame"} => next' >= ExpectedPacketCounter + (Written - m_PacketNo)
      <3>1. ASSUME NEW k \in m_PacketNo..(Written - 1) PROVE next' >= At(k).counter + (Written - k)
        <4>1. next >= At(k).counter + (Written - k)
          BY <1>6, <2>3 DEF Healthy
        <4>2. k \in Nat /\ At(k).counter \in Nat
          BY <1>0
        <4>3. QED
          BY <1>0, <1>1, <4>1, <4>2
      <3>2. epc \notin {"fill", "frame"} => next' >= ExpectedPacketCounter + (Written - m_PacketNo)
        BY <1>0, <1>1, <1>6, <2>3 DEF Healthy
      <3>3. QED
        BY <3>1, <3>2
    <2>4. QED
      BY <1>1, <1>2, <1>6, <2>2, <2>3 DEF Healthy
  <1>7. QED
    BY <1>1, <1>5, <1>6 DEF KeepInv

(* A packet that is received while there is room comes behind those that   *)
(* wait.                                                                   *)
LEMMA KeepRoom ==
  ASSUME OrderInv, Healthy, Room, NEW p \in Packet, Receive(p), lost \subseteq lost', UNCHANGED <<type, faults>>,
         \/ next' = next + 1 /\ p.own /\ p.counter = next
         \/ next' = next /\ "overrun" \notin faults
  PROVE  Healthy'
  <1>0. /\ next \in Nat /\ m_PacketNo \in Nat /\ ExpectedPacketCounter \in Nat /\ PacketCounter \in Nat
        /\ m_PacketNo <= PacketCounter
        /\ \A k \in Nat : At(k).counter \in Nat /\ (At(k).own => At(k).counter \in 1..(next - 1))
    BY PlaceTypes DEF OrderInv, SignalInv
  <1>1. /\ WriteSlot \in Slot /\ ring \in [Slot -> Packet] /\ ring' = [ring EXCEPT ![WriteSlot] = p]
        /\ UNCHANGED <<PacketCounter, m_PacketNo, ExpectedPacketCounter, epc>>
        /\ Written = PacketCounter /\ Written' = PacketCounter + 1
    BY <1>0, SlotType DEF OrderInv, SignalInv, TypeInv, TypeOK, WriteSlot, Receive, eval, Written
  <1>2. ASSUME NEW k \in m_PacketNo..(PacketCounter - 1) PROVE At(k)' = At(k)
    <2>1. k \in Int /\ PacketCounter \in Int /\ k < PacketCounter /\ PacketCounter - k < MaxPacketNo
      BY <1>0, Sizes DEF Room
    <2>2. k % MaxPacketNo # WriteSlot
      BY <2>1, Sizes, RemaindersDiffer DEF WriteSlot
    <2>3. QED
      BY <1>1, <2>2 DEF At
  <1>3. At(PacketCounter)' = p
    BY <1>1 DEF At, WriteSlot
  <1>4. ASSUME NEW k \in 0..PacketCounter, NEW c PROVE Before(k, c)' = Before(k, c)
    <2>1. \A j \in m_PacketNo..(k - 1) : j \in m_PacketNo..(PacketCounter - 1)
      BY <1>0
    <2>2. QED
      BY <1>1, <1>2, <2>1 DEF Before
  <1>5. ASSUME NEW c, Kept(c) PROVE Kept(c)'
    <2>1. PICK k \in m_PacketNo..(PacketCounter - 1) : At(k).own /\ At(k).counter = c /\ Before(k, c)
      BY <1>1, <1>5 DEF Kept
    <2>2. k \in 0..PacketCounter /\ k \in m_PacketNo..(Written' - 1)
      BY <1>0, <1>1
    <2>3. At(k)'.own /\ At(k)'.counter = c /\ Before(k, c)'
      BY <1>2, <1>4, <2>1, <2>2
    <2>4. QED
      BY <1>1, <2>2, <2>3 DEF Kept
  <1>6. ASSUME NEW c, Dropped(c) PROVE Dropped(c)'
    BY <1>1, <1>4, <1>6 DEF Dropped
  <1>7. CASE next' = next + 1 /\ p.own /\ p.counter = next
    <2>1. Before(PacketCounter, next)
      <3>1. \A j \in m_PacketNo..(PacketCounter - 1) : At(j).own
        BY DEF OrderInv, SignalInv, OwnInv
      <3>2. \A j \in m_PacketNo..(PacketCounter - 1) : j \in Nat
        BY <1>0
      <3>3. QED
        BY <1>0, <3>1, <3>2 DEF Before
    <2>2. ASSUME NEW c, c = next PROVE Kept(c)'
      <3>1. PICK n : n = PacketCounter
        OBVIOUS
      <3>2. n \in 0..PacketCounter /\ n \in m_PacketNo'..(Written' - 1)
        BY <1>0, <1>1, <3>1
      <3>3. Before(n, c)'
        BY <1>4, <2>1, <2>2, <3>1, <3>2
      <3>4. At(n)' = p
        BY <1>3, <1>1, <3>1 DEF At
      <3>5. QED
        BY <1>7, <2>2, <3>2, <3>3, <3>4 DEF Kept
    <2>3. \A c \in ExpectedPacketCounter..(next' - 1) : c \in ExpectedPacketCounter..(next - 1) \/ c = next
      BY <1>0, <1>7
    <2>4. \A c \in ExpectedPacketCounter..(next' - 1) : c \in lost' \/ Kept(c)' \/ Dropped(c)'
      BY <1>5, <1>6, <2>2, <2>3 DEF Healthy
    <2>5. ASSUME "overrun" \in faults, NEW k \in m_PacketNo..(Written' - 1)
          PROVE  next' >= At(k)'.counter + (Written' - k)
      <3>1. CASE k = PacketCounter
        <4>1. At(k)' = p
          BY <1>1, <1>3, <3>1 DEF At
        <4>2. QED
          BY <1>0, <1>1, <1>7, <3>1, <4>1
      <3>2. CASE k # PacketCounter
        <4>1. k \in m_PacketNo..(PacketCounter - 1) /\ k \in Nat
          BY <1>0, <1>1, <3>2
        <4>2. next >= At(k).counter + (PacketCounter - k)
          BY <1>1, <2>5, <4>1 DEF Healthy
        <4>3. At(k)' = At(k) /\ At(k).counter \in Nat
          BY <1>0, <1>2, <4>1
        <4>4. QED
          BY <1>0, <1>1, <1>7, <4>1, <4>2, <4>3
      <3>3. QED
        BY <3>1, <3>2
    <2>6. ASSUME "overrun" \in faults, epc \notin {"fill", "frame"}
          PROVE  next' >= ExpectedPacketCounter + (Written' - m_PacketNo)
      <3>1. next >= ExpectedPacketCounter + (PacketCounter - m_PacketNo)
        BY <1>1, <2>6 DEF Healthy
      <3>2. QED
        BY <1>0, <1>1, <1>7, <3>1
    <2>7. Written' - m_PacketNo <= MaxPacketNo
      BY <1>0, <1>1, Sizes DEF Room
    <2>8. QED
      BY <1>1, <2>4, <2>5, <2>6, <2>7 DEF Healthy
  <1>8. CASE next' = next /\ "overrun" \notin faults
    <2>1. \A c \in ExpectedPacketCounter..(next' - 1) : c \in lost' \/ Kept(c)' \/ Dropped(c)'
      BY <1>5, <1>6, <1>8 DEF Healthy
    <2>2. Written' - m_PacketNo <= MaxPacketNo
      BY <1>0, <1>1, Sizes DEF Room
    <2>3. QED
      BY <1>1, <1>8, <2>1, <2>2 DEF Healthy
  <1>9. QED
    BY <1>7, <1>8

(* A packet that overwrites the next one to be evaluated ends the program  *)
(* when the evaluation comes to it.                                        *)
LEMMA KeepOverrun ==
  ASSUME OrderInv, Doomed \/ ~Room, NEW p \in Packet, Receive(p), UNCHANGED <<type, faults>>,
         p.own, p.counter = next
  PROVE  Doomed'
  <1>0. /\ next \in Nat /\ m_PacketNo \in Nat /\ ExpectedPacketCounter \in Nat /\ PacketCounter \in Nat
        /\ MaxPacketNo \in Nat \ {0} /\ Written = PacketCounter
        /\ Packet0 = At(m_PacketNo) /\ (Packet0.own => Packet0.counter \in 1..(next - 1))
    BY PlaceTypes, Sizes DEF OrderInv, SignalInv, At, Packet0, Written, Receive
  <1>1. /\ WriteSlot \in Slot /\ ring \in [Slot -> Packet] /\ ring' = [ring EXCEPT ![WriteSlot] = p]
        /\ UNCHANGED <<PacketCounter, m_PacketNo, ExpectedPacketCounter, epc>> /\ MayWrite /\ Alive
        /\ session \in {"measure", "stopServer"}
    BY <1>0, SlotType DEF OrderInv, SignalInv, TypeInv, TypeOK, WriteSlot, Receive, eval
  <1>2. CASE Doomed
    <2>1. Packet0' = p \/ Packet0' = Packet0
      <3>1. m_PacketNo % MaxPacketNo \in Slot
        BY <1>0, SlotType
      <3>2. QED
        BY <1>1, <3>1 DEF Packet0
    <2>2. Packet0'.own /\ Packet0'.counter >= ExpectedPacketCounter + MaxPacketNo
      BY <1>0, <1>2, <2>1 DEF Doomed
    <2>3. QED
      BY <1>1, <1>2, <2>2 DEF Doomed
  <1>3. CASE ~Doomed
    <2>1. ~Room /\ "overrun" \in faults /\ Healthy
      BY <1>1, <1>3 DEF MayWrite, OrderInv, KeepInv
    <2>2. PacketCounter = m_PacketNo + MaxPacketNo
      <3>1. PacketCounter - m_PacketNo >= MaxPacketNo
        BY <1>0, <2>1 DEF Room
      <3>2. PacketCounter - m_PacketNo <= MaxPacketNo
        BY <1>0, <2>1 DEF Healthy
      <3>3. QED
        BY <1>0, <3>1, <3>2
    <2>3. m_PacketNo % MaxPacketNo = WriteSlot
      <3>1. m_PacketNo \in Int
        BY <1>0
      <3>2. (m_PacketNo + MaxPacketNo) % MaxPacketNo = m_PacketNo % MaxPacketNo
        BY <1>0, <3>1, OneRound
      <3>3. QED
        BY <2>2, <3>2 DEF WriteSlot
    <2>4. epc \notin {"fill", "frame"}
      BY <1>1, <2>1, <2>3 DEF MayWrite
    <2>5. epc \in {"wait", "process", "header"}
      BY <1>1, <2>4 DEF OrderInv, SignalInv, StopInv, TypeInv, TypeOK, Alive
    <2>6. next >= ExpectedPacketCounter + MaxPacketNo
      <3>1. next >= ExpectedPacketCounter + (PacketCounter - m_PacketNo)
        BY <1>0, <2>1, <2>4 DEF Healthy
      <3>2. QED
        BY <1>0, <2>2, <3>1
    <2>7. Packet0' = p
      BY <1>1, <2>3 DEF Packet0
    <2>8. m_PacketNo < PacketCounter
      BY <1>0, <2>2
    <2>9. QED
      BY <1>1, <2>1, <2>5, <2>6, <2>7, <2>8 DEF Doomed
  <1>4. QED
    BY <1>2, <1>3

LEMMA KeepReceive == ASSUME DataFits, OverrunAlone, OrderInv, ReceiveNext \/ ReceiveStray PROVE KeepInv'
  <1>0. next \in Nat
    BY PlaceTypes DEF OrderInv, SignalInv
  <1>1. PICK p \in Packet :
          /\ Receive(p)
          /\ \/ next' = next + 1 /\ p.own /\ p.counter = next
             \/ next' = next /\ faults \cap {"disorder", "foreign"} # {}
    <2>1. CASE ReceiveNext
      <3>1. PICK t \in BOOLEAN : Receive([own |-> TRUE, counter |-> next, test |-> t])
        BY <2>1 DEF ReceiveNext
      <3>2. [own |-> TRUE, counter |-> next, test |-> t] \in Packet
        BY <1>0 DEF Packet
      <3>3. QED
        BY <2>1, <3>1, <3>2 DEF ReceiveNext
    <2>2. CASE ReceiveStray /\ "disorder" \in faults
                 /\ \E c \in 1..(next - 1) : Receive([own |-> TRUE, counter |-> c, test |-> FALSE])
      <3>1. PICK c \in 1..(next - 1) : Receive([own |-> TRUE, counter |-> c, test |-> FALSE])
        BY <2>2
      <3>2. c \in Nat
        BY <1>0, <3>1
      <3>3. [own |-> TRUE, counter |-> c, test |-> FALSE] \in Packet
        BY <3>2 DEF Packet
      <3>4. next' = next /\ faults \cap {"disorder", "foreign"} # {}
        BY <2>2 DEF ReceiveStray
      <3>5. QED
        BY <3>1, <3>3, <3>4
    <2>3. CASE ReceiveStray /\ "foreign" \in faults /\ Receive(Junk)
      <3>1. Junk \in Packet
        BY DEF Junk, Packet
      <3>2. next' = next /\ faults \cap {"disorder", "foreign"} # {}
        BY <2>3 DEF ReceiveStray
      <3>3. QED
        BY <2>3, <3>1, <3>2
    <2>4. QED
      BY <2>1, <2>2, <2>3 DEF ReceiveStray
  <1>2. lost \subseteq lost' /\ UNCHANGED <<type, faults>> /\ Alive /\ spc = "wait"
    BY <1>1 DEF ReceiveNext, ReceiveStray, Receive
  <1>3. faults \cap {"disorder", "foreign"} # {} => "overrun" \notin faults
    <2>1. faults \in FaultSets
      BY DEF OrderInv, SignalInv, TypeInv, TypeOK
    <2>2. QED
      BY <2>1 DEF OverrunAlone
  <1>4. Doomed \/ Healthy
    BY <1>2 DEF OrderInv, KeepInv
  <1>5. CASE "overrun" \notin faults
    <2>1. Room /\ Healthy
      BY <1>1, <1>4, <1>5 DEF Receive, MayWrite, Doomed
    <2>2. Healthy'
      BY <1>1, <1>2, <1>5, <2>1, KeepRoom
    <2>3. QED
      BY <2>2 DEF KeepInv
  <1>6. CASE "overrun" \in faults
    <2>1. next' = next + 1 /\ p.own /\ p.counter = next
      BY <1>1, <1>3, <1>6
    <2>2. CASE Doomed \/ ~Room
      <3>1. Doomed'
        BY <1>1, <1>2, <2>1, <2>2, KeepOverrun
      <3>2. QED
        BY <3>1 DEF KeepInv
    <2>3. CASE ~Doomed /\ Room
      <3>1. Healthy'
        BY <1>1, <1>2, <1>4, <2>1, <2>3, KeepRoom
      <3>2. QED
        BY <3>1 DEF KeepInv
    <2>4. QED
      BY <2>2, <2>3
  <1>7. QED
    BY <1>5, <1>6

(* A packet that is not counted is not one that is waited for, or comes    *)
(* behind all the data asked for.                                          *)
LEMMA KeepOnRead == ASSUME OrderInv, OnRead PROVE KeepInv'
  <1>0. /\ next \in Nat /\ m_PacketNo \in Nat /\ ExpectedPacketCounter \in Nat /\ PacketCounter \in Nat
        /\ m_PacketNo <= PacketCounter /\ Alive /\ spc = "read" /\ Written = PacketCounter + 1
    <2>1. Alive /\ spc = "read"
      BY DEF OnRead, Reject, CountTest, CountOneShot, CountCyclic
    <2>2. QED
      BY <2>1, PlaceTypes DEF OrderInv, SignalInv, Written
  <1>1. /\ UNCHANGED <<ring, next, lost, type, faults, m_PacketNo, ExpectedPacketCounter, epc>>
        /\ spc' \in {"wait", "crash"}
        /\ \/ PacketCounter' = PacketCounter + 1
           \/ PacketCounter' = PacketCounter /\ ~Received.own
           \/ PacketCounter' = PacketCounter /\ type = "one_shot" /\ UserData >= RequestedData
    <2>1. CASE Reject \/ CountTest
      BY <2>1 DEF Reject, CountTest, network, eval
    <2>2. CASE CountOneShot
      BY <2>2 DEF CountOneShot, network, eval
    <2>3. CASE CountCyclic
      BY <2>3 DEF CountCyclic, network, eval
    <2>4. QED
      BY <2>1, <2>2, <2>3 DEF OnRead
  <1>2. CASE spc' = "crash"
    BY <1>2 DEF KeepInv, Alive
  <1>3. CASE spc' = "wait"
    <2>1. Written' = PacketCounter' /\ PacketCounter' \in {PacketCounter, PacketCounter + 1}
      BY <1>1, <1>3 DEF Written
    <2>2. Packet0' = Packet0 /\ \A k : At(k)' = At(k)
      BY <1>1 DEF Packet0, At
    <2>3. \A k, c : Before(k, c)' = Before(k, c)
      BY <1>1, <2>2 DEF Before
    <2>4. CASE Doomed
      <3>1. m_PacketNo < PacketCounter'
        BY <1>0, <2>1, <2>4 DEF Doomed
      <3>2. Doomed'
        BY <1>1, <2>2, <2>4, <3>1 DEF Doomed
      <3>3. QED
        BY <3>2 DEF KeepInv
    <2>5. CASE Healthy
      <3>1. ASSUME NEW c, Dropped(c) PROVE Dropped(c)'
        <4>1. 0..PacketCounter \subseteq 0..PacketCounter'
          BY <1>0, <2>1
        <4>2. QED
          BY <1>1, <2>3, <3>1, <4>1 DEF Dropped
      <3>2. ASSUME NEW c, Kept(c) PROVE Kept(c)' \/ Dropped(c)'
        <4>1. PICK k \in m_PacketNo..PacketCounter : At(k).own /\ At(k).counter = c /\ Before(k, c)
          <5>1. (PacketCounter + 1) - 1 = PacketCounter
            BY <1>0
          <5>2. QED
            BY <1>0, <3>2, <5>1 DEF Kept
        <4>2. CASE k \in m_PacketNo..(Written' - 1)
          BY <1>1, <2>2, <2>3, <4>1, <4>2 DEF Kept
        <4>3. CASE k \notin m_PacketNo..(Written' - 1)
          <5>1. k = PacketCounter /\ PacketCounter' = PacketCounter
            <6>1. k \in Int /\ m_PacketNo <= k /\ k <= PacketCounter
              BY <1>0, <4>1
            <6>2. PacketCounter \in Nat /\ PacketCounter' \in Nat /\ PacketCounter' >= PacketCounter
              BY <1>0, <2>1
            <6>3. \A n \in Nat : n >= PacketCounter /\ k \notin m_PacketNo..(n - 1) => k = n /\ n = PacketCounter
              BY <6>1, <6>2
            <6>4. QED
              BY <2>1, <4>3, <6>2, <6>3
          <5>2. type = "one_shot" /\ UserData >= RequestedData
            BY <1>0, <1>1, <4>1, <5>1 DEF At, Received, WriteSlot
          <5>3. PacketCounter * PacketOctets >= RequestedData
            <6>1. UserData <= PacketCounter * PacketOctets
              BY DEF OrderInv, DataInv
            <6>2. UserData \in Nat /\ PacketCounter * PacketOctets \in Nat /\ RequestedData \in Nat
              BY <1>0, PlaceTypes, Sizes, RequestedType DEF OrderInv, SignalInv
            <6>3. QED
              BY <5>2, <6>1, <6>2
          <5>4. k \in 0..PacketCounter' /\ k * PacketOctets >= RequestedData /\ Before(k, c)'
            BY <1>0, <2>3, <4>1, <5>1, <5>3
          <5>5. QED
            BY <1>1, <5>2, <5>4 DEF Dropped
        <4>4. QED
          BY <4>2, <4>3
      <3>3. \A c \in ExpectedPacketCounter..(next - 1) : c \in lost' \/ Kept(c)' \/ Dropped(c)'
        BY <1>1, <2>5, <3>1, <3>2 DEF Healthy
      <3>4. Written' \in Nat /\ Written' <= PacketCounter + 1 /\ Written' - m_PacketNo <= MaxPacketNo
        <4>1. Written' \in Nat /\ Written' <= PacketCounter + 1
          BY <1>0, <2>1
        <4>2. (PacketCounter + 1) - m_PacketNo <= MaxPacketNo /\ MaxPacketNo \in Nat
          BY <1>0, <2>5, Sizes DEF Healthy
        <4>3. m_PacketNo \in Nat /\ PacketCounter \in Nat
          BY <1>0
        <4>4. \A w \in Nat : w <= PacketCounter + 1 => w - m_PacketNo <= MaxPacketNo
          BY <4>2, <4>3
        <4>5. QED
          BY <4>1, <4>4
      <3>5. ASSUME "overrun" \in faults
            PROVE  /\ \A k \in m_PacketNo..(Written' - 1) : next >= At(k).counter + (Written' - k)
                   /\ epc \notin {"fill", "frame"} => next >= ExpectedPacketCounter + (Written' - m_PacketNo)
        <4>1. ASSUME NEW k \in m_PacketNo..(Written' - 1) PROVE next >= At(k).counter + (Written' - k)
          <5>1. k \in m_PacketNo..((PacketCounter + 1) - 1) /\ k \in Nat
            <6>1. m_PacketNo \in Nat /\ PacketCounter \in Nat
              BY <1>0
            <6>2. \A w \in Nat : w <= PacketCounter + 1 =>
                    \A j \in m_PacketNo..(w - 1) : j \in m_PacketNo..((PacketCounter + 1) - 1) /\ j \in Nat
              BY <6>1
            <6>3. QED
              BY <3>4, <6>2
          <5>2. next >= At(k).counter + ((PacketCounter + 1) - k) /\ At(k).counter \in Nat
            BY <1>0, <2>5, <3>5, <5>1, PlaceTypes DEF Healthy, OrderInv, SignalInv
          <5>3. QED
            BY <1>0, <3>4, <5>1, <5>2
        <4>2. epc \notin {"fill", "frame"} => next >= ExpectedPacketCounter + (Written' - m_PacketNo)
          <5>1. epc \notin {"fill", "frame"} =>
                  next >= ExpectedPacketCounter + ((PacketCounter + 1) - m_PacketNo)
            BY <1>0, <2>5, <3>5 DEF Healthy
          <5>2. /\ m_PacketNo \in Nat /\ PacketCounter \in Nat /\ ExpectedPacketCounter \in Nat
                /\ next \in Nat
            BY <1>0
          <5>3. \A w \in Nat : w <= PacketCounter + 1 /\ epc \notin {"fill", "frame"} =>
                  next >= ExpectedPacketCounter + (w - m_PacketNo)
            BY <5>1, <5>2
          <5>4. QED
            BY <3>4, <5>3
        <4>3. QED
          BY <4>1, <4>2
      <3>6. Healthy'
        BY <1>1, <2>2, <3>3, <3>4, <3>5 DEF Healthy
      <3>7. QED
        BY <3>6 DEF KeepInv
    <2>6. QED
      BY <1>0, <2>4, <2>5 DEF OrderInv, KeepInv
  <1>4. QED
    BY <1>1, <1>2, <1>3

LEMMA KeepStep == ASSUME DataFits, OverrunAlone, OrderInv, [Next]_vars PROVE KeepInv'
  <1>1. CASE UNCHANGED vars
    <2>1. UNCHANGED <<network, ring, PacketCounter, m_PacketNo, ExpectedPacketCounter, epc, spc>>
      BY <1>1 DEF vars, receiver, eval
    <2>2. Written' = Written /\ Alive' = Alive
      BY <2>1 DEF Written, Alive
    <2>3. Doomed => epc \in {"wait", "process", "header"}
      BY DEF Doomed
    <2>4. QED
      BY <2>1, <2>2, <2>3, KeepSame DEF OrderInv, KeepInv
  <1>2. QED
    BY <1>1, KeepLose, KeepReceive, KeepOnRead, KeepThreads, KeepHeader, KeepFill, KeepFrame DEF Next, Evaluate

(* The samples in the user's buffer are in the camera's order, each octet  *)
(* in its place and zero only where its packet was lost, for every size of *)
(* packets, blocks and buffers and every interleaving of the two threads:  *)
(* also when packets come twice or late or from another camera, or when    *)
(* the receiver overtakes the evaluation.  The number of bytes asked for   *)
(* has to fit into an unsigned int.                                        *)
THEOREM SamplesInOrder ==
  ASSUME DataFits, OverrunAlone
  PROVE  Spec => []StoredInOrder
  <1>1. Init => OrderInv
    BY OrderInit
  <1>2. OrderInv /\ [Next]_vars => OrderInv'
    <2> SUFFICES ASSUME OrderInv, [Next]_vars PROVE OrderInv'
      OBVIOUS
    <2>1. TypeInv /\ OwnInv /\ StopInv /\ LastInv /\ CyclicInv /\ DataInv
      BY DEF OrderInv, SignalInv
    <2>2. SignalInv'
      BY <2>1, TypeStep, OwnStep, StopStep, LastStep, OverrunIsOwn DEF SignalInv
    <2>3. KeepInv' /\ DataInv' /\ CyclicInv'
      BY <2>1, KeepStep, DataStep, RunningStep
    <2>4. HeaderInv'
      BY HeaderStep, HeaderFound
    <2>5. WorkInv' /\ StoredInOrder'
      BY SampleStep
    <2>6. QED
      BY <2>2, <2>3, <2>4, <2>5 DEF OrderInv
  <1>3. OrderInv => StoredInOrder
    BY DEF OrderInv
  <1>4. QED
    BY <1>1, <1>2, <1>3, PTL DEF Spec
=============================================================================
