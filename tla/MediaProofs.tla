---------------------------- MODULE MediaProofs ----------------------------
(***************************************************************************)
(* What TLAPS proves of MediaFlow, for every buffer, picture rate, jitter  *)
(* of the input, delay of the codecs and limit of the muxer.               *)
(***************************************************************************)
EXTENDS MediaFlow, NumberLemmas, FiniteSetTheorems, SequenceTheorems

-----------------------------------------------------------------------------
(***************************************************************************)
(* av_packet_rescale_ts: rounds to the nearest, keeps the order, and steps *)
(* by at least the whole part of the ratio.                                *)
(***************************************************************************)

(* For a time that is not negative, rounding is a division; for one that is *)
(* it mirrors that of its opposite.                                         *)
LEMMA RescaleOfNat ==
  ASSUME NEW t \in Nat, NEW num \in Nat \ {0}, NEW den \in Nat \ {0}
  PROVE  /\ Rescale(t, num, den) \in Nat
         /\ 2 * den * Rescale(t, num, den) <= 2 * t * num + den
         /\ 2 * t * num + den < 2 * den * Rescale(t, num, den) + 2 * den
<1> DEFINE a == 2 * t * num + den
           b == 2 * den
<1>1. a \in Nat /\ b \in Nat /\ b > 0
  OBVIOUS
<1>2. Rescale(t, num, den) = a \div b
  BY DEF Rescale
<1> HIDE DEF a, b
<1>3. a \div b \in Int /\ b * (a \div b) <= a /\ a < b * (a \div b) + b /\ 0 <= a \div b
  BY <1>1, Quotient, QuotientAtLeast
<1> QED
  BY <1>2, <1>3 DEF a, b

LEMMA RescaleOfNegative ==
  ASSUME NEW t \in Int, t < 0, NEW num \in Nat \ {0}, NEW den \in Nat \ {0}
  PROVE  Rescale(t, num, den) = -Rescale(-t, num, den) /\ -t \in Nat
<1>1. -t \in Nat /\ -t >= 0
  OBVIOUS
<1>2. -2 * t * num = 2 * (-t) * num
  OBVIOUS
<1> QED
  BY <1>1, <1>2 DEF Rescale

(* The error is half a unit of the result, at most.                         *)
LEMMA RescaleIsNear ==
  ASSUME NEW t \in Int, NEW num \in Nat \ {0}, NEW den \in Nat \ {0}
  PROVE  /\ Rescale(t, num, den) \in Int
         /\ 2 * den * Rescale(t, num, den) - 2 * t * num \in -den..den
<1>1. CASE t >= 0
  <2>1. t \in Nat
    BY <1>1
  <2> DEFINE q == Rescale(t, num, den)
             r == 2 * den * q
             x == 2 * t * num
  <2>4. q \in Nat /\ r <= x + den /\ x + den < r + 2 * den
    BY <2>1, RescaleOfNat
  <2> HIDE DEF q
  <2>2. r \in Int /\ x \in Int /\ r <= x + den /\ x + den < r + 2 * den
    BY <2>4
  <2> HIDE DEF r, x
  <2>3. r - x \in -den..den
    BY <2>2
  <2> QED
    BY <2>3, <2>4 DEF q, r, x
<1>2. CASE t < 0
  <2> DEFINE u == -t
             q == Rescale(u, num, den)
             r == 2 * den * q
             x == 2 * u * num
  <2>1. u \in Nat /\ Rescale(t, num, den) = -q
    BY <1>2, RescaleOfNegative
  <2> HIDE DEF u
  <2>7. q \in Nat /\ r <= x + den /\ x + den < r + 2 * den
    BY <2>1, RescaleOfNat
  <2> HIDE DEF q
  <2>2. r \in Int /\ x \in Int /\ r <= x + den /\ x + den < r + 2 * den
    BY <2>1, <2>7
  <2>3. t = -u
    BY <2>1 DEF u
  <2>4. 2 * den * Rescale(t, num, den) = -r
    BY <2>1, <2>7
  <2>5. 2 * t * num = -x
    BY <2>1, <2>3
  <2> HIDE DEF r, x
  <2>6. -r - (-x) \in -den..den
    BY <2>2
  <2> QED
    BY <2>1, <2>4, <2>5, <2>6, <2>7
<1> QED
  BY <1>1, <1>2

LEMMA RescaleOfNatGrows ==
  ASSUME NEW t \in Nat, NEW u \in Nat, t <= u, NEW num \in Nat \ {0}, NEW den \in Nat \ {0}
  PROVE  Rescale(t, num, den) <= Rescale(u, num, den)
<1> DEFINE a == 2 * t * num + den
           c == 2 * u * num + den
           b == 2 * den
<1>1. num * t <= num * u
  BY ProductGrows
<1>2. a \in Int /\ c \in Int /\ b \in Nat /\ b > 0 /\ a <= c
  BY <1>1
<1>3. Rescale(t, num, den) = a \div b /\ Rescale(u, num, den) = c \div b
  BY DEF Rescale
<1> HIDE DEF a, b, c
<1> DEFINE q == a \div b
<1>4. q \in Int /\ b * q <= a
  BY <1>2, Quotient
<1> HIDE DEF q
<1>5. b * q <= c
  <2> DEFINE r == b * q
  <2>1. r \in Int /\ r <= a
    BY <1>2, <1>4
  <2> HIDE DEF r
  <2>2. r <= c
    BY <1>2, <2>1
  <2> QED
    BY <2>2 DEF r
<1>6. q <= c \div b
  BY <1>2, <1>4, <1>5, QuotientAtLeast
<1> QED
  BY <1>3, <1>6 DEF q

(* Rescaling keeps the order of times.                                      *)
LEMMA RescaleGrows ==
  ASSUME NEW t \in Int, NEW u \in Int, t <= u, NEW num \in Nat \ {0}, NEW den \in Nat \ {0}
  PROVE  Rescale(t, num, den) <= Rescale(u, num, den)
<1>1. CASE t >= 0
  BY <1>1, RescaleOfNatGrows
<1>2. CASE t < 0 /\ u >= 0
  <2>1. -t \in Nat /\ Rescale(t, num, den) = -Rescale(-t, num, den)
    BY <1>2, RescaleOfNegative
  <2>2. Rescale(-t, num, den) \in Nat
    BY <2>1, RescaleOfNat
  <2>3. Rescale(u, num, den) \in Nat
    BY <1>2, RescaleOfNat
  <2> QED
    BY <2>1, <2>2, <2>3
<1>3. CASE u < 0
  <2>1. -t \in Nat /\ -u \in Nat /\ -u <= -t
    BY <1>3
  <2>2. Rescale(-u, num, den) <= Rescale(-t, num, den)
    BY <2>1, RescaleOfNatGrows
  <2>3. Rescale(-u, num, den) \in Nat /\ Rescale(-t, num, den) \in Nat
    BY <2>1, RescaleOfNat
  <2>4. Rescale(t, num, den) = -Rescale(-t, num, den) /\ Rescale(u, num, den) = -Rescale(-u, num, den)
    BY <1>3, RescaleOfNegative
  <2> QED
    BY <2>2, <2>3, <2>4
<1> QED
  BY <1>1, <1>2, <1>3

(* From one unit to the next it steps by the whole part of the ratio.       *)
LEMMA RescaleSteps ==
  ASSUME NEW t \in Nat, NEW num \in Nat \ {0}, NEW den \in Nat \ {0}
  PROVE  /\ num \div den \in Nat
         /\ Rescale(t, num, den) + num \div den <= Rescale(t + 1, num, den)
<1> DEFINE k == num \div den
           a == 2 * t * num + den
           b == 2 * num
           d == 2 * den
<1>1. k \in Int /\ den * k <= num /\ 0 <= k
  BY Quotient, QuotientAtLeast
<1>2. a \in Int /\ b \in Int /\ d \in Nat /\ d > 0
  OBVIOUS
<1>3. k * d <= b
  <2> HIDE DEF k
  <2>1. k * d = 2 * (den * k)
    BY <1>1
  <2> DEFINE p == den * k
  <2>2. p \in Int /\ p <= num
    BY <1>1
  <2> HIDE DEF p
  <2>3. 2 * p <= 2 * num
    BY <2>2
  <2> QED
    BY <2>1, <2>3 DEF p
<1>4. 2 * (t + 1) * num + den = a + b
  OBVIOUS
<1>5. Rescale(t, num, den) = a \div d /\ Rescale(t + 1, num, den) = (a + b) \div d
  BY <1>4 DEF Rescale
<1> HIDE DEF k, a, b, d
<1>6. (a \div d) + k <= (a + b) \div d
  BY <1>1, <1>2, <1>3, QuotientGrows
<1> QED
  BY <1>1, <1>5, <1>6 DEF k

-----------------------------------------------------------------------------
(***************************************************************************)
(* Pictures and packets as the Video object makes them: a picture has the  *)
(* frame nearest to its time, a packet the stamp nearest to its picture's  *)
(* frame, whichever stream it is written to.                               *)
(***************************************************************************)
Aligned == {[frame |-> FrameOf(t), due |-> t] : t \in Int}

VideoPackets == {PacketOf(picture, i) : picture \in Aligned, i \in OutIndices}

LEMMA RescaledIsInt ==
  ASSUME NEW t \in Int
  PROVE  StampOf(t) \in Int /\ FrameOf(t) \in Int
BY RescaleIsNear, PictureAssumption DEF StampOf, FrameOf

LEMMA AlignedFields ==
  ASSUME NEW picture \in Aligned
  PROVE  /\ picture \in Picture /\ picture.due \in Int /\ picture.frame \in Int
         /\ picture.frame = FrameOf(picture.due)
         /\ StampOf(picture.frame) \in Int
BY RescaledIsInt DEF Aligned, Picture

LEMMA VideoPacketFields ==
  ASSUME NEW p \in VideoPackets
  PROVE  /\ p.from = "video" /\ p.index \in OutIndices /\ p.stamp \in Int /\ p.due \in Int
         /\ p.stamp = StampOf(FrameOf(p.due))
<1>1. PICK picture \in Aligned, i \in OutIndices : p = PacketOf(picture, i)
  BY DEF VideoPackets
<1> QED
  BY <1>1, AlignedFields DEF PacketOf, Packet

(* The bound of VideoAligned, for one packet.                               *)
LEMMA StampIsNear ==
  ASSUME NEW t \in Int
  PROVE  LET off == StampOf(FrameOf(t)) - t
         IN  2 * Den * (IF off < 0 THEN -off ELSE off) <= Num + Den
<1> DEFINE f == FrameOf(t)
           s == StampOf(f)
           x == 2 * Den * t
           y == 2 * Num * f
           z == 2 * Den * s
<1>1. Num \in Nat \ {0} /\ Den \in Nat \ {0}
  BY PictureAssumption
<1>2. f \in Int /\ 2 * Num * f - 2 * t * Den \in -Num..Num
  BY <1>1, RescaleIsNear DEF FrameOf
<1> HIDE DEF f
<1>3. s \in Int /\ 2 * Den * s - 2 * f * Num \in -Den..Den
  BY <1>1, <1>2, RescaleIsNear DEF StampOf
<1> HIDE DEF s
<1>4. x \in Int /\ y \in Int /\ z \in Int /\ 2 * t * Den = x /\ 2 * f * Num = y
  BY <1>1, <1>2, <1>3
<1>5. y - x \in -Num..Num /\ z - y \in -Den..Den
  BY <1>2, <1>3, <1>4
<1>6. 2 * Den * (s - t) = z - x /\ 2 * Den * (-(s - t)) = x - z
  BY <1>1, <1>3
<1> HIDE DEF x, y, z
<1>7. z - x <= Num + Den /\ x - z <= Num + Den
  BY <1>1, <1>4, <1>5
<1> QED
  BY <1>6, <1>7 DEF s, f

-----------------------------------------------------------------------------
(***************************************************************************)
(* The muxer's queue, over packets of any set.                             *)
(***************************************************************************)
Stamped(S) == \A p \in S : p.stamp \in Int

(* There is a place for every packet.                                       *)
LEMMA PlaceIsFirst ==
  ASSUME NEW S, Stamped(S), queue \in Seq(S), NEW p \in S
  PROVE  /\ Place(p) \in 1..(Len(queue) + 1)
         /\ \A m \in 1..(Place(p) - 1) : queue[m].stamp <= p.stamp
         /\ Place(p) <= Len(queue) => queue[Place(p)].stamp > p.stamp
<1> DEFINE T == {n \in 1..(Len(queue) + 1) : n <= Len(queue) => queue[n].stamp > p.stamp}
<1>1. Len(queue) \in Nat
  OBVIOUS
<1>2. Len(queue) + 1 \in T /\ T \in SUBSET Nat
  BY <1>1
<1>3. PICK n \in T : \A m \in T : n <= m
  BY <1>2, LeastNat
<1>4. \A m \in 1..(n - 1) : queue[m].stamp <= p.stamp
  <2> SUFFICES ASSUME NEW m \in 1..(n - 1) PROVE queue[m].stamp <= p.stamp
    OBVIOUS
  <2>1. m \in 1..Len(queue) /\ m \notin T
    BY <1>1, <1>3
  <2>2. queue[m].stamp \in Int /\ p.stamp \in Int
    BY <2>1 DEF Stamped
  <2> QED
    BY <1>1, <2>1, <2>2
<1>5. \E k \in 1..(Len(queue) + 1) :
         /\ \A m \in 1..(k - 1) : queue[m].stamp <= p.stamp
         /\ k <= Len(queue) => queue[k].stamp > p.stamp
  BY <1>3, <1>4
<1> QED
  BY <1>5 DEF Place

LEMMA EnqueueAdds ==
  ASSUME NEW S, Stamped(S), queue \in Seq(S), NEW p \in S
  PROVE  /\ Enqueue(p) \in Seq(S)
         /\ Len(Enqueue(p)) = Len(queue) + 1
<1> DEFINE k == Place(p)
           head == SubSeq(queue, 1, k - 1)
           tail == SubSeq(queue, k, Len(queue))
<1>1. k \in 1..(Len(queue) + 1) /\ Len(queue) \in Nat
  BY PlaceIsFirst
<1> HIDE DEF k
<1>2. \A i \in 1..Len(queue) : queue[i] \in S
  BY ElementOfSeq
<1>3. head \in Seq(S) /\ Len(head) = k - 1
  BY <1>1, <1>2, SubSeqProperties
<1>4. tail \in Seq(S) /\ Len(tail) = Len(queue) - k + 1
  BY <1>1, <1>2, SubSeqProperties
<1> HIDE DEF head, tail
<1>5. <<p>> \in Seq(S) /\ Len(<<p>>) = 1
  OBVIOUS
<1>6. head \o <<p>> \in Seq(S) /\ Len(head \o <<p>>) = k
  BY <1>1, <1>3, <1>5, ConcatProperties
<1>7. /\ (head \o <<p>>) \o tail \in Seq(S)
      /\ Len((head \o <<p>>) \o tail) = k + (Len(queue) - k + 1)
  <2> DEFINE front == head \o <<p>>
  <2>1. front \in Seq(S) /\ Len(front) = k
    BY <1>6
  <2> HIDE DEF front
  <2>2. front \o tail \in Seq(S) /\ Len(front \o tail) = Len(front) + Len(tail)
    BY <1>4, <2>1, ConcatProperties
  <2> QED
    BY <1>4, <2>1, <2>2 DEF front
<1>8. k + (Len(queue) - k + 1) = Len(queue) + 1
  BY <1>1
<1> QED
  BY <1>7, <1>8 DEF Enqueue, k, head, tail

(* A packet that is not earlier than the others goes to the end.            *)
LEMMA EnqueueLast ==
  ASSUME NEW S, Stamped(S), queue \in Seq(S), NEW p \in S,
         \A n \in 1..Len(queue) : queue[n].stamp <= p.stamp
  PROVE  Enqueue(p) = Append(queue, p)
<1>1. /\ Place(p) \in 1..(Len(queue) + 1) /\ Len(queue) \in Nat
      /\ Place(p) <= Len(queue) => queue[Place(p)].stamp > p.stamp
  BY PlaceIsFirst
<1>2. Place(p) = Len(queue) + 1
  <2> SUFFICES ASSUME Place(p) <= Len(queue) PROVE FALSE
    BY <1>1
  <2>1. Place(p) \in 1..Len(queue)
    BY <1>1
  <2>2. queue[Place(p)].stamp \in Int /\ p.stamp \in Int
    BY <2>1, ElementOfSeq DEF Stamped
  <2> QED
    BY <1>1, <2>1, <2>2
<1>3. SubSeq(queue, 1, Place(p) - 1) = queue
  BY <1>1, <1>2, SubSeqFull
<1>4. SubSeq(queue, Place(p), Len(queue)) = <<>>
  BY <1>1, <1>2, SubSeqEmpty
<1>5. queue \o <<p>> = Append(queue, p) /\ Append(queue, p) \in Seq(S)
  BY AppendIsConcat, AppendProperties
<1>6. Append(queue, p) \o <<>> = Append(queue, p)
  BY <1>5, ConcatEmptySeq
<1> QED
  BY <1>3, <1>4, <1>5, <1>6 DEF Enqueue

(* What is released is a part of the queue, and the rest may wait.          *)
LEMMA ReleasedLeavesWaiting ==
  ASSUME NEW S, NEW q \in Seq(S)
  PROVE  /\ Released(q) \in 0..Len(q)
         /\ Waits(SubSeq(q, Released(q) + 1, Len(q)))
<1> DEFINE T == {n \in 0..Len(q) : Waits(SubSeq(q, n + 1, Len(q)))}
<1>1. Len(q) \in Nat
  OBVIOUS
<1>2. SubSeq(q, Len(q) + 1, Len(q)) = <<>>
  BY <1>1, SubSeqEmpty
<1>3. Len(q) \in T
  BY <1>1, <1>2 DEF Waits
<1>4. T \in SUBSET Nat
  BY <1>1
<1>5. PICK n \in T : \A m \in T : n <= m
  BY <1>3, <1>4, LeastNat
<1>6. \A m \in 0..(n - 1) : ~Waits(SubSeq(q, m + 1, Len(q)))
  <2> SUFFICES ASSUME NEW m \in 0..(n - 1), Waits(SubSeq(q, m + 1, Len(q))) PROVE FALSE
    OBVIOUS
  <2>1. m \in T /\ m < n
    BY <1>1, <1>5
  <2> QED
    BY <1>4, <1>5, <2>1
<1>7. \E k \in 0..Len(q) :
        /\ Waits(SubSeq(q, k + 1, Len(q)))
        /\ \A m \in 0..(k - 1) : ~Waits(SubSeq(q, m + 1, Len(q)))
  BY <1>5, <1>6
<1> QED
  BY <1>7 DEF Released

(* The part of the queue that leaves it and the part that stays.            *)
LEMMA SplitQueue ==
  ASSUME NEW S, NEW q \in Seq(S), NEW k \in 0..Len(q)
  PROVE  /\ SubSeq(q, 1, k) \in Seq(S) /\ Len(SubSeq(q, 1, k)) = k
         /\ \A n \in 1..k : SubSeq(q, 1, k)[n] = q[n]
         /\ SubSeq(q, k + 1, Len(q)) \in Seq(S) /\ Len(SubSeq(q, k + 1, Len(q))) = Len(q) - k
         /\ \A n \in 1..(Len(q) - k) : SubSeq(q, k + 1, Len(q))[n] = q[n + k]
         /\ SubSeq(q, 1, k) \o SubSeq(q, k + 1, Len(q)) = q
<1>1. Len(q) \in Nat /\ k \in Nat /\ \A i \in 1..Len(q) : q[i] \in S
  BY ElementOfSeq
<1>2. \A i \in 1..k : q[i] \in S
  BY <1>1
<1>3. \A i \in (k + 1)..Len(q) : q[i] \in S
  BY <1>1
<1>4. /\ SubSeq(q, 1, k) \in Seq(S) /\ Len(SubSeq(q, 1, k)) = k
      /\ \A n \in 1..k : SubSeq(q, 1, k)[n] = q[n]
  <2>1. /\ SubSeq(q, 1, k) \in Seq(S)
        /\ Len(SubSeq(q, 1, k)) = IF 1 <= k THEN k - 1 + 1 ELSE 0
        /\ \A n \in 1..(k - 1 + 1) : SubSeq(q, 1, k)[n] = q[1 + n - 1]
    BY <1>1, <1>2, SubSeqProperties
  <2> QED
    BY <1>1, <2>1
<1>5. /\ SubSeq(q, k + 1, Len(q)) \in Seq(S) /\ Len(SubSeq(q, k + 1, Len(q))) = Len(q) - k
      /\ \A n \in 1..(Len(q) - k) : SubSeq(q, k + 1, Len(q))[n] = q[n + k]
  <2>1. /\ SubSeq(q, k + 1, Len(q)) \in Seq(S)
        /\ Len(SubSeq(q, k + 1, Len(q))) = IF k + 1 <= Len(q) THEN Len(q) - (k + 1) + 1 ELSE 0
        /\ \A n \in 1..(Len(q) - (k + 1) + 1) : SubSeq(q, k + 1, Len(q))[n] = q[k + 1 + n - 1]
    BY <1>1, <1>3, SubSeqProperties
  <2> QED
    BY <1>1, <2>1
<1>6. SubSeq(q, 1, k) \o SubSeq(q, k + 1, Len(q)) = q
  <2>1. SubSeq(q, 1, k) \o SubSeq(q, k + 1, Len(q)) = SubSeq(q, 1, Len(q))
    <3>1. 1 \in 1..(Len(q) + 1) /\ k \in (1 - 1)..Len(q) /\ Len(q) \in k..Len(q)
      BY <1>1
    <3> QED
      BY <3>1, ConcatAdjacentSubSeq
  <2> QED
    BY <2>1, SubSeqFull
<1> QED
  BY <1>4, <1>5, <1>6

-----------------------------------------------------------------------------
(***************************************************************************)
(* The types of muxer and video, and the stamp of every picture.           *)
(***************************************************************************)
AudioPackets == [index : OutIndices, stamp : Int, from : {"audio"}, due : Int]

MuxerInv ==
  /\ latest \in [OutIndices -> Int]
  /\ queue \in Seq(VideoPackets)
  /\ file \in Seq(VideoPackets \cup AudioPackets)
  /\ Waits(queue)

PipeInv ==
  /\ video_index \in OutIndices
  /\ stage \in {"packets", "flush", "done"}
  /\ pictures \in Nat /\ troubles \in Nat
  /\ decoding \in Seq(Aligned) /\ Len(decoding) <= DecoderHolds
  /\ encoding \in Seq(Aligned) /\ Len(encoding) <= EncoderHolds

LEMMA PacketsAreStamped == Stamped(VideoPackets) /\ Stamped(VideoPackets \cup AudioPackets)
BY VideoPacketFields DEF Stamped, AudioPackets

(* A packet goes through the queue: the queue with it is cut in two.        *)
LEMMA InterleavedMoves ==
  ASSUME MuxerInv, NEW p \in VideoPackets, WriteInterleaved(p)
  PROVE  /\ MuxerInv'
         /\ Enqueue(p) \in Seq(VideoPackets) /\ Len(Enqueue(p)) = Len(queue) + 1
         /\ \E k \in 0..Len(Enqueue(p)) :
              /\ file' = file \o SubSeq(Enqueue(p), 1, k)
              /\ queue' = SubSeq(Enqueue(p), k + 1, Len(Enqueue(p)))
<1> DEFINE q == Enqueue(p)
           k == Released(q)
<1>1. q \in Seq(VideoPackets) /\ Len(q) = Len(queue) + 1
  BY EnqueueAdds, PacketsAreStamped DEF MuxerInv
<1>2. /\ latest' = [latest EXCEPT ![p.index] = p.stamp]
      /\ file' = file \o SubSeq(q, 1, k)
      /\ queue' = SubSeq(q, k + 1, Len(q))
  BY DEF WriteInterleaved
<1> HIDE DEF q
<1>3. k \in 0..Len(q) /\ Waits(SubSeq(q, k + 1, Len(q)))
  BY <1>1, ReleasedLeavesWaiting
<1> HIDE DEF k
<1>4. SubSeq(q, 1, k) \in Seq(VideoPackets) /\ queue' \in Seq(VideoPackets)
  BY <1>1, <1>2, <1>3, SplitQueue
<1>5. file' \in Seq(VideoPackets \cup AudioPackets)
  <2>1. SubSeq(q, 1, k) \in Seq(VideoPackets \cup AudioPackets)
    BY <1>4, SeqMonotonic
  <2> QED
    BY <1>2, <2>1, ConcatProperties DEF MuxerInv
<1>6. latest' \in [OutIndices -> Int]
  BY <1>2, VideoPacketFields DEF MuxerInv
<1>7. Waits(queue)'
  <2>1. Waits(queue)' <=> Waits(queue')
    BY DEF Waits
  <2> QED
    BY <1>2, <1>3, <2>1
<1> QED
  BY <1>1, <1>2, <1>3, <1>4, <1>5, <1>6, <1>7 DEF MuxerInv, q

LEMMA ArrivalIsAligned ==
  ASSUME PipeInv, NEW j \in Jitters
  PROVE  Arrival(j) \in Aligned
<1>1. StampOf(pictures) + j \in Int
  BY RescaledIsInt, JittersAssumption DEF PipeInv
<1> QED
  BY <1>1 DEF Arrival, Aligned

(* What enters a codec that holds as much as it may pushes something out.   *)
LEMMA PushAndPop ==
  ASSUME NEW S, NEW s \in Seq(S), NEW x \in S
  PROVE  /\ Append(s, x) \in Seq(S) /\ Append(s, x) # <<>> /\ Len(Append(s, x)) = Len(s) + 1
         /\ Head(Append(s, x)) \in S
         /\ Tail(Append(s, x)) \in Seq(S) /\ Len(Tail(Append(s, x))) = Len(s)
         /\ Len(s) \in Nat
<1> DEFINE t == Append(s, x)
<1>1. t \in Seq(S) /\ t # <<>> /\ Len(t) = Len(s) + 1 /\ Len(s) \in Nat
  BY AppendProperties
<1> HIDE DEF t
<1>2. Head(t) \in S /\ Tail(t) \in Seq(S) /\ Len(Tail(t)) = Len(t) - 1
  BY <1>1, HeadTailProperties
<1> QED
  BY <1>1, <1>2 DEF t

(* Flow: how a picture goes through decoder, encoder and muxer.             *)
LEMMA FlowMoves ==
  ASSUME PipeInv, NEW j \in Jitters, Flow(j)
  PROVE  /\ stage = "packets" /\ UNCHANGED <<video_index, stage>>
         /\ pictures' = pictures + 1 /\ troubles' \in Nat
         /\ pictures = 0 => j = 0
         /\ Decoded(j) \in Aligned /\ Head(Append(encoding, Decoded(j))) \in Aligned
         /\ \/ UNCHANGED <<decoding, encoding, muxerVars>>
            \/ /\ decoding' = Append(decoding, Arrival(j))
               /\ Len(decoding) < DecoderHolds
               /\ UNCHANGED <<encoding, muxerVars>>
            \/ /\ decoding' = Tail(Append(decoding, Arrival(j)))
               /\ \/ UNCHANGED <<encoding, muxerVars>>
                  \/ /\ encoding' = Append(encoding, Decoded(j))
                     /\ Len(encoding) < EncoderHolds
                     /\ UNCHANGED muxerVars
                  \/ /\ encoding' = Tail(Append(encoding, Decoded(j)))
                     /\ UNCHANGED muxerVars \/ WriteInterleaved(Encoded(j))
<1>1. Arrival(j) \in Aligned
  BY ArrivalIsAligned
<1>2. Decoded(j) \in Aligned
  BY <1>1, PushAndPop DEF PipeInv, Decoded
<1>3. Head(Append(encoding, Decoded(j))) \in Aligned
  BY <1>2, PushAndPop DEF PipeInv
<1>4. ASSUME NEW wrong \in {0, 1}, Takes(j, wrong)
      PROVE  /\ stage = "packets" /\ UNCHANGED <<video_index, stage>>
             /\ pictures' = pictures + 1 /\ troubles' \in Nat
             /\ pictures = 0 => j = 0
  BY <1>4 DEF Takes, PipeInv
<1>5. \E wrong \in {0, 1} : Takes(j, wrong)
  BY DEF Flow, DecodeFails, DecoderDelays, EncodeFails, EncoderDelays, PictureWritten, PictureRefused
<1>6. \/ UNCHANGED <<decoding, encoding, muxerVars>>
      \/ /\ decoding' = Append(decoding, Arrival(j))
         /\ Len(decoding) < DecoderHolds
         /\ UNCHANGED <<encoding, muxerVars>>
      \/ /\ decoding' = Tail(Append(decoding, Arrival(j)))
         /\ \/ UNCHANGED <<encoding, muxerVars>>
            \/ /\ encoding' = Append(encoding, Decoded(j))
               /\ Len(encoding) < EncoderHolds
               /\ UNCHANGED muxerVars
            \/ /\ encoding' = Tail(Append(encoding, Decoded(j)))
               /\ UNCHANGED muxerVars \/ WriteInterleaved(Encoded(j))
  <2>1. CASE DecodeFails(j)
    BY <2>1 DEF DecodeFails, Takes
  <2>2. CASE DecoderDelays(j)
    BY <2>2 DEF DecoderDelays
  <2>3. CASE EncodeFails(j)
    BY <2>3 DEF EncodeFails, Decodes
  <2>4. CASE EncoderDelays(j)
    BY <2>4 DEF EncoderDelays, Decodes
  <2>5. CASE PictureWritten(j)
    BY <2>5 DEF PictureWritten, Encodes, Decodes
  <2>6. CASE PictureRefused(j)
    BY <2>6 DEF PictureRefused, Encodes, Decodes
  <2> QED
    BY <2>1, <2>2, <2>3, <2>4, <2>5, <2>6 DEF Flow
<1> QED
  BY <1>2, <1>3, <1>4, <1>5, <1>6

-----------------------------------------------------------------------------
(***************************************************************************)
(* The audio object of a call is an Audio object of AudioFlow: whatever     *)
(* the thread does, it makes the object take a step of its own or none.    *)
(* So all that is proved of AudioFlow holds here.                          *)
(***************************************************************************)
AudioFacts == INSTANCE AudioFlowProofs

LEMMA AudioConstants ==
  /\ Formats \subseteq AudioFacts!Format /\ Delay \in Nat
  /\ Mishaps \subseteq AudioFacts!AllMishaps /\ MaxPackets \in Nat
BY AudioAssumption DEF Audio!Format, AudioFacts!Format, Audio!AllMishaps, AudioFacts!AllMishaps

LEMMA SameSpec == Audio!Init = AudioFacts!Init /\ Audio!Next = AudioFacts!Next
BY DEF
   Audio!Next, AudioFacts!Next, Audio!InitalTool, AudioFacts!InitalTool,
   Audio!BrokenPacket, AudioFacts!BrokenPacket, Audio!ReadUnstamped,
   AudioFacts!ReadUnstamped, Audio!ReadPacket, AudioFacts!ReadPacket, Audio!DivideByZero,
   AudioFacts!DivideByZero, Audio!LosePacket, AudioFacts!LosePacket, Audio!AudioDecode,
   AudioFacts!AudioDecode, Audio!AudioDecodeFails, AudioFacts!AudioDecodeFails,
   Audio!LoadDelayed, AudioFacts!LoadDelayed, Audio!LoadWrites, AudioFacts!LoadWrites,
   Audio!LoadFails, AudioFacts!LoadFails, Audio!LoadCrashes, AudioFacts!LoadCrashes,
   Audio!EndOfInput, AudioFacts!EndOfInput, Audio!FlushWrites, AudioFacts!FlushWrites,
   Audio!FlushFails, AudioFacts!FlushFails, Audio!FlushEnds, AudioFacts!FlushEnds,
   Audio!Init, AudioFacts!Init, Audio!May, AudioFacts!May, Audio!NowPts, AudioFacts!NowPts,
   Audio!Whole, AudioFacts!Whole, Audio!Due, AudioFacts!Due, Audio!Ticks, AudioFacts!Ticks,
   Audio!In, AudioFacts!In, Audio!Out, AudioFacts!Out, Audio!_packet_duration,
   AudioFacts!_packet_duration, Audio!Far, AudioFacts!Far, Audio!Rest, AudioFacts!Rest,
   Audio!Load, AudioFacts!Load, Audio!Taken, AudioFacts!Taken, Audio!Continue,
   AudioFacts!Continue, Audio!GiveUp, AudioFacts!GiveUp, Audio!NoStamp, AudioFacts!NoStamp

LEMMA SameInvariants ==
  /\ Audio!AudioTypeOK = AudioFacts!AudioTypeOK
  /\ Audio!SamplesAccounted = AudioFacts!SamplesAccounted
BY DEF Audio!AudioTypeOK, AudioFacts!AudioTypeOK, Audio!AllMishaps, AudioFacts!AllMishaps,
   Audio!SamplesAccounted, AudioFacts!SamplesAccounted, Audio!Refused, AudioFacts!Refused,
   Audio!Refusals, AudioFacts!Refusals, Audio!Out, AudioFacts!Out

LEMMA MediaStepsAudio ==
  ASSUME [MediaNext]_mediaVars
  PROVE  [Audio!Next]_(Audio!vars)
<1> USE DEF Audio!vars, audioVars
<1>1. CASE InitTools
  BY <1>1 DEF InitTools, Audio!Next
<1>2. CASE Loop \/ StopProcess \/ CallWriteEnd \/ Drained \/ Finish \/ read_packet
  BY <1>2 DEF Loop, StopProcess, CallWriteEnd, Drained, Finish, read_packet, sinkVars
<1>3. CASE VideoPacket
  BY <1>3 DEF VideoPacket
<1>4. CASE AudioPacket
  BY <1>4 DEF AudioPacket, Audio!Next
<1>5. CASE AudioStep
  BY <1>5 DEF AudioStep, Audio!Next
<1>6. CASE LoopEnds
  BY <1>6 DEF LoopEnds, Audio!Next
<1>7. CASE FlushVideo
  BY <1>7 DEF FlushVideo
<1>8. CASE FlushAudio
  BY <1>8 DEF FlushAudio, Audio!Next
<1>9. CASE WriteEnd
  BY <1>9 DEF WriteEnd
<1>10. CASE UNCHANGED mediaVars
  BY <1>10 DEF mediaVars, sinkVars
<1> QED
  BY <1>1, <1>2, <1>3, <1>4, <1>5, <1>6, <1>7, <1>8, <1>9, <1>10 DEF MediaNext, ProcessNext

(* The loop of Process drives the audio object as AudioFlow says it may be  *)
(* driven: every step of the flow is one of its steps, or leaves it alone.  *)
THEOREM MediaDrivesAudio == MediaSpec => Audio!Spec
<1>1. MediaInit => Audio!Init
  BY DEF MediaInit
<1> QED
  BY <1>1, MediaStepsAudio, PTL DEF MediaSpec, Audio!Spec

LEMMA AudioInvariant == MediaSpec => [](Audio!AudioTypeOK /\ Audio!SamplesAccounted)
<1>1. AudioFacts!Spec => [](AudioFacts!AudioTypeOK /\ AudioFacts!SamplesAccounted)
  BY AudioFacts!AudioAccounted, AudioConstants
<1>2. Audio!Init => AudioFacts!Init
  BY SameSpec
<1>3. [Audio!Next]_(Audio!vars) => [AudioFacts!Next]_(AudioFacts!vars)
  BY SameSpec DEF Audio!vars, AudioFacts!vars
<1>4. AudioFacts!AudioTypeOK /\ AudioFacts!SamplesAccounted => Audio!AudioTypeOK /\ Audio!SamplesAccounted
  BY SameInvariants
<1> QED
  BY <1>1, <1>2, <1>3, <1>4, MediaDrivesAudio, PTL DEF Audio!Spec, AudioFacts!Spec

-----------------------------------------------------------------------------
(***************************************************************************)
(* The invariant: muxer and video as above, the thread's place with the    *)
(* objects' stages, and what is left of the input.                         *)
(***************************************************************************)
Phase ==
  /\ pc \in {"prc_init", "prc_loop", "prc_read", "prc_drain", "prc_finish", "idle", "end_write"}
  /\ pc = "prc_init" => at = "init" /\ stage = "packets"
  /\ pc = "prc_loop" => at \in {"between", "broken"} /\ stage = "packets"
  /\ pc = "prc_read" => at \in {"between", "broken", "flow", "dead"} /\ stage = "packets"
  /\ pc = "prc_drain" => at \in {"flush", "done"} /\ stage \in {"flush", "done"}
  /\ pc \in {"prc_finish", "idle", "end_write"} => at = "done" /\ stage = "done"
  /\ trailer \in BOOLEAN /\ (trailer => pc = "idle")
  /\ turnoff \in BOOLEAN
  /\ starved \in BOOLEAN /\ (starved => stage # "packets")

InputInv ==
  /\ buffer \in Inputs /\ first \in {"video", "audio"}
  /\ ptr \in Nat /\ size \in Nat /\ ptr + size = Len(buffer)
  /\ ahead \in Seq({"video", "audio"}) /\ Len(ahead) <= BufSize

MediaInv == MuxerInv /\ PipeInv /\ Phase /\ InputInv

LEMMA InputFacts ==
  ASSUME buffer \in Inputs
  PROVE  buffer \in Seq({"video", "audio"}) /\ Len(buffer) \in Nat /\ BufSize \in Nat /\ BufSize > 0
BY InputsAssumption, BufSizeAssumption

LEMMA IndexFacts ==
  ASSUME video_index \in OutIndices
  PROVE  0 \in OutIndices /\ audio_index \in OutIndices /\ audio_index # video_index
<1>1. \E i \in OutIndices : i # video_index
  BY TwoStreams
<1> QED
  BY <1>1, TwoStreams DEF audio_index

LEMMA MuxerStays ==
  ASSUME MuxerInv, latest' \in [OutIndices -> Int], queue' = queue,
         file' \in Seq(VideoPackets \cup AudioPackets)
  PROVE  MuxerInv'
<1>1. Waits(queue)' <=> Waits(queue')
  BY DEF Waits
<1>2. Waits(queue')
  BY DEF MuxerInv
<1> QED
  BY <1>1, <1>2 DEF MuxerInv

LEMMA FlowInv ==
  ASSUME MuxerInv, PipeInv, NEW j \in Jitters, Flow(j)
  PROVE  MuxerInv' /\ PipeInv'
<1>1. Arrival(j) \in Aligned
  BY ArrivalIsAligned
<1>2. /\ Append(decoding, Arrival(j)) \in Seq(Aligned)
      /\ Len(Append(decoding, Arrival(j))) = Len(decoding) + 1
      /\ Tail(Append(decoding, Arrival(j))) \in Seq(Aligned)
      /\ Len(Tail(Append(decoding, Arrival(j)))) = Len(decoding) /\ Len(decoding) \in Nat
  BY <1>1, PushAndPop DEF PipeInv
<1>3. Decoded(j) \in Aligned
  BY FlowMoves
<1>4. /\ Append(encoding, Decoded(j)) \in Seq(Aligned)
      /\ Len(Append(encoding, Decoded(j))) = Len(encoding) + 1
      /\ Tail(Append(encoding, Decoded(j))) \in Seq(Aligned)
      /\ Len(Tail(Append(encoding, Decoded(j)))) = Len(encoding) /\ Len(encoding) \in Nat
  BY <1>3, PushAndPop DEF PipeInv
<1>5. PipeInv'
  <2>1. /\ video_index' \in OutIndices /\ stage' \in {"packets", "flush", "done"}
        /\ pictures' \in Nat /\ troubles' \in Nat
    BY FlowMoves DEF PipeInv
  <2>2. decoding' \in Seq(Aligned) /\ Len(decoding') <= DecoderHolds
    <3>1. \/ decoding' = decoding
          \/ decoding' = Append(decoding, Arrival(j)) /\ Len(decoding) < DecoderHolds
          \/ decoding' = Tail(Append(decoding, Arrival(j)))
      BY FlowMoves
    <3> DEFINE longer == Append(decoding, Arrival(j))
               passed == Tail(longer)
    <3>2. /\ longer \in Seq(Aligned) /\ Len(longer) = Len(decoding) + 1
          /\ passed \in Seq(Aligned) /\ Len(passed) = Len(decoding) /\ Len(decoding) \in Nat
          /\ decoding \in Seq(Aligned) /\ Len(decoding) <= DecoderHolds
      BY <1>2 DEF PipeInv
    <3>3. \/ decoding' = decoding
          \/ decoding' = longer /\ Len(decoding) < DecoderHolds
          \/ decoding' = passed
      BY <3>1
    <3> HIDE DEF longer, passed
    <3> QED
      BY <3>2, <3>3, HoldsAssumption
  <2>3. encoding' \in Seq(Aligned) /\ Len(encoding') <= EncoderHolds
    <3>1. \/ encoding' = encoding
          \/ encoding' = Append(encoding, Decoded(j)) /\ Len(encoding) < EncoderHolds
          \/ encoding' = Tail(Append(encoding, Decoded(j)))
      BY FlowMoves
    <3> DEFINE longer == Append(encoding, Decoded(j))
               passed == Tail(longer)
    <3>2. /\ longer \in Seq(Aligned) /\ Len(longer) = Len(encoding) + 1
          /\ passed \in Seq(Aligned) /\ Len(passed) = Len(encoding) /\ Len(encoding) \in Nat
          /\ encoding \in Seq(Aligned) /\ Len(encoding) <= EncoderHolds
      BY <1>4 DEF PipeInv
    <3>3. \/ encoding' = encoding
          \/ encoding' = longer /\ Len(encoding) < EncoderHolds
          \/ encoding' = passed
      BY <3>1
    <3> HIDE DEF longer, passed
    <3> QED
      BY <3>2, <3>3, HoldsAssumption
  <2> QED
    BY <2>1, <2>2, <2>3 DEF PipeInv
<1>6. CASE UNCHANGED muxerVars
  BY <1>5, <1>6, MuxerStays DEF muxerVars, MuxerInv
<1>7. CASE WriteInterleaved(Encoded(j))
  <2>1. Encoded(j) \in VideoPackets
    BY FlowMoves DEF Encoded, VideoPackets, PipeInv
  <2>2. PICK p \in VideoPackets : p = Encoded(j)
    BY <2>1
  <2>3. WriteInterleaved(p)
    BY <1>7, <2>2
  <2> QED
    BY <1>5, <2>3, InterleavedMoves
<1> QED
  BY <1>5, <1>6, <1>7, FlowMoves

(* FlushEncoder: the encoder's pictures go to stream 0, or are dropped.     *)
LEMMA FlushMoves ==
  ASSUME PipeInv, VideoFlush
  PROVE  /\ stage = "flush" /\ UNCHANGED <<video_index, pictures, decoding>> /\ troubles' \in Nat
         /\ \/ /\ encoding # <<>> /\ encoding' = Tail(encoding) /\ stage' = stage
               /\ Head(encoding) \in Aligned /\ Flushed \in VideoPackets
               /\ UNCHANGED muxerVars \/ WriteInterleaved(Flushed)
            \/ stage' = "done" /\ encoding' = encoding /\ UNCHANGED muxerVars
<1>1. ASSUME encoding # <<>>
      PROVE  Head(encoding) \in Aligned /\ Flushed \in VideoPackets
  <2>1. Head(encoding) \in Aligned
    BY <1>1, HeadTailProperties DEF PipeInv
  <2> QED
    BY <2>1, IndexFacts DEF Flushed, VideoPackets, PipeInv
<1>2. CASE PictureFlushed
  BY <1>1, <1>2 DEF PictureFlushed, PipeInv
<1>3. CASE VideoFlushFails
  BY <1>3 DEF VideoFlushFails, PipeInv
<1>4. CASE VideoFlushEnds
  BY <1>4 DEF VideoFlushEnds, PipeInv
<1> QED
  BY <1>2, <1>3, <1>4 DEF VideoFlush

LEMMA VideoFlushInv ==
  ASSUME MuxerInv, PipeInv, VideoFlush
  PROVE  MuxerInv' /\ PipeInv'
<1>1. PipeInv'
  <2>1. /\ video_index' \in OutIndices /\ stage' \in {"packets", "flush", "done"}
        /\ pictures' \in Nat /\ troubles' \in Nat /\ decoding' = decoding
    BY FlushMoves DEF PipeInv
  <2>2. encoding' \in Seq(Aligned) /\ Len(encoding') <= EncoderHolds
    <3>1. encoding # <<>> => Tail(encoding) \in Seq(Aligned) /\ Len(Tail(encoding)) = Len(encoding) - 1
      BY HeadTailProperties DEF PipeInv
    <3>2. encoding' = encoding \/ (encoding # <<>> /\ encoding' = Tail(encoding))
      BY FlushMoves
    <3>3. Len(encoding) \in Nat
      BY DEF PipeInv
    <3> QED
      BY <3>1, <3>2, <3>3, HoldsAssumption DEF PipeInv
  <2> QED
    BY <2>1, <2>2 DEF PipeInv
<1>2. CASE UNCHANGED muxerVars
  BY <1>1, <1>2, MuxerStays DEF muxerVars, MuxerInv
<1>3. CASE Flushed \in VideoPackets /\ WriteInterleaved(Flushed)
  <2>1. PICK p \in VideoPackets : p = Flushed
    BY <1>3
  <2>2. WriteInterleaved(p)
    BY <1>3, <2>1
  <2> QED
    BY <1>1, <2>2, InterleavedMoves
<1> QED
  BY <1>1, <1>2, <1>3, FlushMoves

LEMMA WritesAudioInv ==
  ASSUME MuxerInv, PipeInv, NEW stamp \in Int, WritesAudio(stamp)
  PROVE  /\ MuxerInv' /\ queue' = queue
         /\ file' = file \/ \E p \in AudioPackets : file' = Append(file, p)
<1> DEFINE p == Packet(audio_index, stamp, "audio", stamp)
<1>1. p \in AudioPackets
  BY IndexFacts DEF PipeInv, Packet, AudioPackets
<1>2. CASE UNCHANGED muxerVars
  BY <1>2, MuxerStays DEF muxerVars, MuxerInv
<1>3. CASE WriteDirectly(p)
  <2> HIDE DEF p
  <2>1. p.stamp \in Int
    BY <1>1 DEF AudioPackets
  <2>2. latest' \in [OutIndices -> Int] /\ queue' = queue /\ file' = Append(file, p)
    BY <1>3, <2>1 DEF WriteDirectly, MuxerInv
  <2>3. file' \in Seq(VideoPackets \cup AudioPackets)
    BY <1>1, <2>2, AppendProperties DEF MuxerInv
  <2> QED
    BY <1>1, <2>2, <2>3, MuxerStays
<1> QED
  BY <1>1, <1>2, <1>3 DEF WritesAudio

LEMMA MediaInitInv == MediaInit => MediaInv
<1> SUFFICES ASSUME MediaInit PROVE MediaInv
  OBVIOUS
<1>1. MuxerInv
  BY DEF MediaInit, MuxerInit, MuxerInv, Waits
<1>2. PipeInv
  BY HoldsAssumption DEF MediaInit, VideoInit, PipeInv
<1>3. Phase
  BY DEF MediaInit, VideoInit, Audio!Init, Phase
<1>4. InputInv
  BY InputFacts DEF MediaInit, InputInv
<1> QED
  BY <1>1, <1>2, <1>3, <1>4 DEF MediaInv

(* What the steps of the audio object do to its place.                      *)
LEMMA AudioMoves ==
  /\ Audio!InitalTool => at' \in {"between", "broken"}
  /\ Audio!ReadPacket \/ Audio!ReadUnstamped => at' = "flow"
  /\ Audio!DivideByZero => at' = "dead"
  /\ Audio!BrokenPacket => at' \in {"dead", "broken"}
  /\ Audio!AudioDecode \/ Audio!AudioDecodeFails \/ Audio!LoadDelayed \/ Audio!LoadWrites
       \/ Audio!LoadFails \/ Audio!LoadCrashes => at = "flow" /\ at' \in {"between", "flow", "dead"}
  /\ Audio!EndOfInput => at' = "flush"
  /\ Audio!FlushWrites \/ Audio!FlushFails \/ Audio!FlushEnds
       => at = "flush" /\ at' \in {"flush", "done"}
<1>1. Audio!Continue \/ Audio!GiveUp => at' \in {"between", "flow"}
  BY DEF Audio!Continue, Audio!GiveUp, Audio!Rest
<1>2. ASSUME NEW after, Audio!Load(after)
      PROVE  at = "flow"
  BY <1>2 DEF Audio!Load
<1>3. Audio!AudioDecode \/ Audio!AudioDecodeFails \/ Audio!LoadDelayed \/ Audio!LoadWrites
        \/ Audio!LoadFails \/ Audio!LoadCrashes => at = "flow" /\ at' \in {"between", "flow", "dead"}
  BY <1>1, <1>2 DEF Audio!AudioDecode, Audio!AudioDecodeFails, Audio!LoadDelayed, Audio!LoadWrites,
     Audio!LoadFails, Audio!LoadCrashes, Audio!Rest
<1>4. /\ Audio!InitalTool => at' \in {"between", "broken"}
      /\ Audio!ReadPacket \/ Audio!ReadUnstamped => at' = "flow"
      /\ Audio!DivideByZero => at' = "dead"
      /\ Audio!BrokenPacket => at' \in {"dead", "broken"}
  BY DEF Audio!InitalTool, Audio!ReadPacket, Audio!ReadUnstamped, Audio!DivideByZero, Audio!BrokenPacket
<1>5. /\ Audio!EndOfInput => at' = "flush"
      /\ Audio!FlushWrites \/ Audio!FlushFails \/ Audio!FlushEnds
           => at = "flush" /\ at' \in {"flush", "done"}
  BY DEF Audio!EndOfInput, Audio!FlushWrites, Audio!FlushFails, Audio!FlushEnds
<1> QED
  BY <1>3, <1>4, <1>5

LEMMA DeliversInv ==
  ASSUME InputInv, NEW stream, Delivers(stream)
  PROVE  InputInv'
<1>1. ahead # <<>> /\ ahead' = Tail(ahead) /\ UNCHANGED <<buffer, ptr, size, first>>
  BY DEF Delivers
<1>2. ahead' \in Seq({"video", "audio"}) /\ Len(ahead') <= BufSize
  <2>1. Tail(ahead) \in Seq({"video", "audio"}) /\ Len(Tail(ahead)) = Len(ahead) - 1
        /\ Len(ahead) \in Nat
    BY <1>1, HeadTailProperties DEF InputInv
  <2> QED
    BY <1>1, <2>1, InputFacts DEF InputInv
<1> QED
  BY <1>1, <1>2 DEF InputInv

(* read_packet copies the next packets of the buffer.                       *)
LEMMA ReadPacketCopies ==
  ASSUME InputInv, read_packet
  PROVE  /\ InputInv' /\ ptr' \in ptr..Len(buffer)
         /\ ahead = <<>> /\ ahead' = SubSeq(buffer, ptr + 1, ptr')
<1>1. /\ ahead = <<>> /\ ahead' = SubSeq(buffer, ptr + 1, ptr + Count) /\ Count > 0
      /\ ptr' = ptr + Count /\ size' = size - Count /\ UNCHANGED <<buffer, first>>
  BY DEF read_packet
<1>2. /\ ptr \in Nat /\ size \in Nat /\ ptr + size = Len(buffer) /\ BufSize \in Nat
      /\ buffer \in Seq({"video", "audio"}) /\ Len(buffer) \in Nat
  BY InputFacts DEF InputInv
<1>3. Count \in Nat /\ Count <= size /\ Count <= BufSize
  BY <1>2 DEF Count
<1>4. \A i \in (ptr + 1)..(ptr + Count) : buffer[i] \in {"video", "audio"}
  BY <1>2, <1>3, ElementOfSeq
<1>5. /\ SubSeq(buffer, ptr + 1, ptr + Count) \in Seq({"video", "audio"})
      /\ Len(SubSeq(buffer, ptr + 1, ptr + Count)) = Count
  <2> DEFINE s == SubSeq(buffer, ptr + 1, ptr + Count)
  <2>1. /\ s \in Seq({"video", "audio"})
        /\ Len(s) = IF ptr + 1 <= ptr + Count THEN ptr + Count - (ptr + 1) + 1 ELSE 0
    BY <1>2, <1>3, <1>4, SubSeqProperties
  <2> HIDE DEF s
  <2>2. Len(s) = Count
    BY <1>2, <1>3, <2>1
  <2> QED
    BY <2>1, <2>2 DEF s
<1>6. ptr' \in ptr..Len(buffer) /\ size' \in Nat /\ ptr' \in Nat /\ ptr' + size' = Len(buffer)
  BY <1>1, <1>2, <1>3
<1>7. ahead' \in Seq({"video", "audio"}) /\ Len(ahead') <= BufSize
  BY <1>1, <1>3, <1>5
<1> QED
  BY <1>1, <1>6, <1>7 DEF InputInv

(* The audio object writes past the queue, or not at all.                   *)
LEMMA AudioIsWritten ==
  ASSUME MediaInv, Audio!AudioTypeOK, Audio!AudioTypeOK', AudioStep \/ FlushAudio
  PROVE  /\ MuxerInv' /\ queue' = queue
         /\ file' = file \/ \E p \in AudioPackets : file' = Append(file, p)
<1> USE DEF MediaInv
<1>1. CASE AudioStep
  <2>1. last'.stamp \in Int
    BY DEF Audio!AudioTypeOK
  <2>2. PICK stamp \in Int : stamp = last'.stamp
    BY <2>1
  <2> QED
    BY <1>1, <2>2, WritesAudioInv DEF AudioStep
<1>2. CASE FlushAudio
  <2>1. Audio!_packet_duration \in Int
    <3>1. /\ fmt.out \in Nat /\ fmt.num \in Nat /\ fmt.den \in Nat /\ fmt.den > 0
      <4>1. fmt \in Audio!Format
        BY AudioAssumption DEF Audio!AudioTypeOK
      <4> QED
        BY <4>1 DEF Audio!Format
    <3>2. fmt.out * fmt.num \in Int
      BY <3>1
    <3> QED
      BY <3>1, <3>2, Quotient DEF Audio!_packet_duration, Audio!Ticks, Audio!Out
  <2>2. latest[audio_index] \in Int
    BY IndexFacts DEF MuxerInv, PipeInv
  <2>3. PICK stamp \in Int : stamp = latest[audio_index] + Audio!_packet_duration
    BY <2>1, <2>2
  <2> QED
    BY <1>2, <2>3, WritesAudioInv DEF FlushAudio
<1> QED
  BY <1>1, <1>2

LEMMA MediaNextInv ==
  ASSUME MediaInv, Audio!AudioTypeOK, Audio!AudioTypeOK', [MediaNext]_mediaVars
  PROVE  MediaInv'
<1> USE DEF MediaInv
<1>1. UNCHANGED muxerVars => MuxerInv'
  BY MuxerStays DEF muxerVars, MuxerInv
<1>2. UNCHANGED videoVars => PipeInv'
  BY DEF videoVars, PipeInv
<1>3. UNCHANGED <<inputVars, first>> => InputInv'
  BY DEF inputVars, InputInv
<1>4. CASE InitTools
  <2>1. Phase'
    BY <1>4, AudioMoves DEF InitTools, Goto, Phase, inputVars, videoVars
  <2> QED
    BY <1>1, <1>2, <1>3, <1>4, <2>1 DEF InitTools
<1>5. CASE Loop \/ StopProcess \/ CallWriteEnd \/ Drained \/ Finish
  <2>1. UNCHANGED <<inputVars, first, sinkVars>>
    BY <1>5 DEF Loop, StopProcess, CallWriteEnd, Drained, Finish
  <2>2. Phase'
    <3> USE DEF Goto, Phase, inputVars, sinkVars, videoVars, audioVars
    <3>1. CASE Loop
      BY <3>1 DEF Loop
    <3>2. CASE StopProcess
      BY <3>2 DEF StopProcess
    <3>3. CASE CallWriteEnd
      BY <3>3 DEF CallWriteEnd
    <3>4. CASE Drained
      BY <3>4 DEF Drained
    <3>5. CASE Finish
      BY <3>5 DEF Finish
    <3> QED
      BY <1>5, <3>1, <3>2, <3>3, <3>4, <3>5
  <2> QED
    BY <1>1, <1>2, <1>3, <2>1, <2>2 DEF sinkVars
<1>6. CASE read_packet
  <2>1. Phase'
    BY <1>6 DEF read_packet, Phase, sinkVars, videoVars, audioVars
  <2> QED
    BY <1>1, <1>2, <1>6, <2>1, ReadPacketCopies DEF read_packet, sinkVars
<1>7. CASE VideoPacket
  <2>1. PICK j \in Jitters : Flow(j)
    BY <1>7 DEF VideoPacket
  <2>2. MuxerInv' /\ PipeInv' /\ stage' = stage /\ stage = "packets"
    BY <2>1, FlowInv, FlowMoves
  <2>3. Delivers("video") /\ InputInv'
    BY <1>7, DeliversInv DEF VideoPacket
  <2>4. Phase'
    BY <1>7, <2>2, <2>3 DEF VideoPacket, Delivers, Reading, Phase, audioVars
  <2> QED
    BY <2>2, <2>3, <2>4
<1>8. CASE AudioPacket
  <2>1. Delivers("audio") /\ InputInv'
    BY <1>8, DeliversInv DEF AudioPacket
  <2>2. Phase'
    BY <1>8, <2>1, AudioMoves DEF AudioPacket, Delivers, Reading, Returns, Phase, videoVars
  <2> QED
    BY <1>1, <1>2, <1>8, <2>1, <2>2 DEF AudioPacket
<1>9. CASE AudioStep
  <2>3. MuxerInv'
    BY <1>9, AudioIsWritten
  <2>4. Phase'
    BY <1>9, AudioMoves DEF AudioStep, Returns, Phase, inputVars, videoVars
  <2> QED
    BY <1>2, <1>3, <1>9, <2>3, <2>4 DEF AudioStep
<1>10. CASE LoopEnds
  <2>1. MuxerInv' /\ PipeInv' /\ stage = "packets" /\ stage' = "flush" /\ at' = "flush"
    BY <1>1, <1>10, AudioMoves DEF LoopEnds, VideoEnds, PipeInv
  <2>2. Phase'
    BY <1>10, <2>1 DEF LoopEnds, Goto, Phase
  <2> QED
    BY <1>10, <2>1, <2>2 DEF LoopEnds, InputInv
<1>11. CASE FlushVideo
  <2>1. MuxerInv' /\ PipeInv' /\ stage = "flush" /\ stage' \in {"flush", "done"}
    BY <1>11, VideoFlushInv, FlushMoves DEF FlushVideo
  <2>2. Phase'
    BY <1>11, <2>1 DEF FlushVideo, VideoTurn, Phase, inputVars, audioVars
  <2> QED
    BY <1>3, <1>11, <2>1, <2>2 DEF FlushVideo
<1>12. CASE FlushAudio
  <2>2. MuxerInv'
    BY <1>12, AudioIsWritten
  <2>3. Phase'
    BY <1>12, AudioMoves DEF FlushAudio, AudioTurn, Phase, inputVars, videoVars
  <2> QED
    BY <1>2, <1>3, <1>12, <2>2, <2>3 DEF FlushAudio
<1>13. CASE WriteEnd
  <2>1. latest' = latest /\ queue' = <<>> /\ file' = file \o queue
    BY <1>13 DEF WriteEnd, WriteTrailer
  <2>4. queue \in Seq(VideoPackets \cup AudioPackets)
    BY SeqMonotonic DEF MuxerInv
  <2>5. file' \in Seq(VideoPackets \cup AudioPackets)
    BY <2>1, <2>4, ConcatProperties DEF MuxerInv
  <2>6. Waits(queue)' <=> Waits(queue')
    BY DEF Waits
  <2>7. Waits(queue')
    BY <2>1 DEF Waits
  <2>2. MuxerInv'
    BY <2>1, <2>5, <2>6, <2>7 DEF MuxerInv
  <2>3. Phase'
    BY <1>13 DEF WriteEnd, Goto, Phase, inputVars, videoVars, audioVars
  <2> QED
    BY <1>2, <1>3, <1>13, <2>2, <2>3 DEF WriteEnd
<1>14. CASE UNCHANGED mediaVars
  <2>1. Phase'
    BY <1>14 DEF mediaVars, inputVars, sinkVars, videoVars, audioVars, Phase
  <2> QED
    BY <1>1, <1>2, <1>3, <1>14, <2>1 DEF mediaVars, sinkVars
<1> QED
  BY <1>4, <1>5, <1>6, <1>7, <1>8, <1>9, <1>10, <1>11, <1>12, <1>13, <1>14 DEF MediaNext, ProcessNext

LEMMA MediaInvariant == MediaSpec => [](MediaInv /\ Audio!AudioTypeOK /\ Audio!SamplesAccounted)
<1>1. MediaInit => MediaInv
  BY MediaInitInv
<1>2. MediaInv /\ Audio!AudioTypeOK /\ Audio!AudioTypeOK' /\ [MediaNext]_mediaVars => MediaInv'
  BY MediaNextInv
<1> QED
  BY <1>1, <1>2, AudioInvariant, PTL DEF MediaSpec

(* The types of thread, input, muxer and of both stream objects.            *)
THEOREM MediaTypes == MediaSpec => []MediaTypeOK
<1>1. MediaInv /\ Audio!AudioTypeOK => MediaTypeOK
  <2> SUFFICES ASSUME MediaInv, Audio!AudioTypeOK PROVE MediaTypeOK
    OBVIOUS
  <2>1. Aligned \subseteq Picture
    BY AlignedFields
  <2>2. decoding \in Seq(Picture) /\ encoding \in Seq(Picture)
    BY <2>1, SeqMonotonic DEF MediaInv, PipeInv
  <2>3. VideoTypeOK
    BY <2>2 DEF MediaInv, PipeInv, VideoTypeOK
  <2> QED
    BY <2>3 DEF MediaInv, Phase, InputInv, MediaTypeOK
<1> QED
  BY <1>1, MediaInvariant, PTL

(* Every packet of the video, in the queue or in the file, has the stamp    *)
(* that is nearest to the frame nearest to its picture's time: however long *)
(* the stream, it is off by half a picture and half a tick at most.         *)
THEOREM VideoStaysAligned == MediaSpec => []VideoAligned
<1>1. MediaInv => VideoAligned
  <2> SUFFICES ASSUME MediaInv, NEW n \in Shown
               PROVE  LET off == Sent[n].stamp - Sent[n].due
                      IN  2 * Den * (IF off < 0 THEN -off ELSE off) <= Num + Den
    BY DEF VideoAligned
  <2>1. Sent \in Seq(VideoPackets \cup AudioPackets)
    <3>1. queue \in Seq(VideoPackets \cup AudioPackets)
      BY SeqMonotonic DEF MediaInv, MuxerInv
    <3> QED
      BY <3>1, ConcatProperties DEF Sent, MediaInv, MuxerInv
  <2>2. n \in DOMAIN Sent /\ Sent[n].from = "video"
    BY DEF Shown
  <2> HIDE DEF Sent
  <2>3. Sent[n] \in VideoPackets
    BY <2>1, <2>2 DEF AudioPackets
  <2> DEFINE t == Sent[n].due
  <2>4. t \in Int /\ Sent[n].stamp = StampOf(FrameOf(t))
    BY <2>3, VideoPacketFields
  <2> HIDE DEF t
  <2>5. LET off == StampOf(FrameOf(t)) - t
        IN  2 * Den * (IF off < 0 THEN -off ELSE off) <= Num + Den
    BY <2>4, StampIsNear
  <2> QED
    BY <2>4, <2>5 DEF t
<1> QED
  BY <1>1, MediaInvariant, PTL

-----------------------------------------------------------------------------
(***************************************************************************)
(* How many elements of a sequence are of a kind.                          *)
(***************************************************************************)
Places(C, s) == {n \in DOMAIN s : s[n] \in C}
Among(C, s)  == Cardinality(Places(C, s))

LEMMA AmongIsNat ==
  ASSUME NEW S, NEW s \in Seq(S), NEW C
  PROVE  /\ Places(C, s) \subseteq 1..Len(s) /\ IsFiniteSet(Places(C, s))
         /\ Among(C, s) \in Nat /\ Among(C, s) <= Len(s) /\ Len(s) \in Nat
<1>1. Len(s) \in Nat /\ Places(C, s) \subseteq 1..Len(s)
  BY LenProperties DEF Places
<1>2. IsFiniteSet(1..Len(s)) /\ Cardinality(1..Len(s)) = Len(s)
  <2>1. IsFiniteSet(1..Len(s)) /\ Cardinality(1..Len(s)) = IF 1 > Len(s) THEN 0 ELSE Len(s) - 1 + 1
    BY <1>1, FS_Interval
  <2> QED
    BY <1>1, <2>1
<1>3. IsFiniteSet(Places(C, s)) /\ Among(C, s) <= Len(s)
  BY <1>1, <1>2, FS_Subset DEF Among
<1> QED
  BY <1>1, <1>3, FS_CardinalityType DEF Among

LEMMA AmongConcat ==
  ASSUME NEW S, NEW s \in Seq(S), NEW t \in Seq(S), NEW C
  PROVE  Among(C, s \o t) = Among(C, s) + Among(C, t)
<1> DEFINE A == Places(C, s)
           B == Places(C, t)
           f == [n \in B |-> n + Len(s)]
           D == {n + Len(s) : n \in B}
<1>1. /\ A \subseteq 1..Len(s) /\ IsFiniteSet(A) /\ Cardinality(A) \in Nat /\ Len(s) \in Nat
      /\ B \subseteq 1..Len(t) /\ IsFiniteSet(B) /\ Cardinality(B) \in Nat /\ Len(t) \in Nat
  BY AmongIsNat DEF Among
<1>2. /\ s \o t \in Seq(S) /\ Len(s \o t) = Len(s) + Len(t)
      /\ \A i \in 1..(Len(s) + Len(t)) :
           (s \o t)[i] = IF i <= Len(s) THEN s[i] ELSE t[i - Len(s)]
  BY ConcatProperties
<1>3. Places(C, s \o t) = A \cup D
  <2>0. DOMAIN s = 1..Len(s) /\ DOMAIN t = 1..Len(t)
    BY LenProperties
  <2>1. DOMAIN (s \o t) = 1..(Len(s) + Len(t))
    BY <1>2, LenProperties
  <2>2. ASSUME NEW n \in Places(C, s \o t) PROVE n \in A \cup D
    <3>1. n \in 1..(Len(s) + Len(t)) /\ (s \o t)[n] \in C
      BY <2>1 DEF Places
    <3>2. CASE n <= Len(s)
      BY <1>1, <1>2, <2>0, <3>1, <3>2 DEF Places
    <3>3. CASE n > Len(s)
      <4>1. n - Len(s) \in 1..Len(t) /\ t[n - Len(s)] \in C /\ n = (n - Len(s)) + Len(s)
        BY <1>1, <1>2, <3>1, <3>3
      <4>2. n - Len(s) \in B
        BY <2>0, <4>1 DEF Places
      <4> QED
        BY <4>1, <4>2
    <3> QED
      BY <1>1, <3>1, <3>2, <3>3
  <2>3. ASSUME NEW n \in A PROVE n \in Places(C, s \o t)
    <3>1. n \in 1..Len(s) /\ s[n] \in C
      BY <2>0 DEF Places
    <3>2. n \in 1..(Len(s) + Len(t)) /\ (s \o t)[n] = s[n]
      BY <1>1, <1>2, <3>1
    <3> QED
      BY <2>1, <3>1, <3>2 DEF Places
  <2>4. ASSUME NEW m \in B PROVE m + Len(s) \in Places(C, s \o t)
    <3>1. m \in 1..Len(t) /\ t[m] \in C
      BY <2>0 DEF Places
    <3>2. m + Len(s) \in 1..(Len(s) + Len(t)) /\ (m + Len(s)) - Len(s) = m /\ ~(m + Len(s) <= Len(s))
      BY <1>1, <3>1
    <3>3. (s \o t)[m + Len(s)] = t[m]
      BY <1>2, <3>2
    <3> QED
      BY <2>1, <3>1, <3>2, <3>3 DEF Places
  <2> QED
    BY <2>2, <2>3, <2>4
<1> HIDE DEF A, B
<1>4. IsFiniteSet(D) /\ Cardinality(D) = Cardinality(B)
  <2>1. f \in [B -> D] /\ (\A a, b \in B : f[a] = f[b] => a = b) /\ \A d \in D : \E b \in B : f[b] = d
    BY <1>1
  <2>2. f \in Bijection(B, D)
    BY <2>1 DEF Bijection, Injection, IsInjective, Surjection
  <2>3. ExistsBijection(B, D)
    BY <2>2 DEF ExistsBijection
  <2> HIDE DEF D
  <2> QED
    BY <1>1, <2>3, FS_Bijection
<1>5. A \cap D = {}
  BY <1>1
<1> HIDE DEF D
<1>6. Cardinality(A \cup D) = Cardinality(A) + Cardinality(D) - Cardinality(A \cap D)
  BY <1>1, <1>4, FS_Union
<1>7. Cardinality(A \cap D) = 0
  BY <1>5, FS_EmptySet
<1> QED
  BY <1>1, <1>3, <1>4, <1>6, <1>7 DEF Among, A, B

LEMMA AmongNone ==
  ASSUME NEW C
  PROVE  Among(C, <<>>) = 0
<1>1. Places(C, <<>>) = {}
  BY DEF Places
<1> QED
  BY <1>1, FS_EmptySet DEF Among

LEMMA AmongOne ==
  ASSUME NEW C, NEW x
  PROVE  Among(C, <<x>>) = IF x \in C THEN 1 ELSE 0
<1>1. Places(C, <<x>>) = IF x \in C THEN {1} ELSE {}
  BY DEF Places
<1> QED
  BY <1>1, FS_EmptySet, FS_Singleton DEF Among

LEMMA AmongAppend ==
  ASSUME NEW S, NEW s \in Seq(S), NEW x \in S, NEW C
  PROVE  Among(C, Append(s, x)) = Among(C, s) + IF x \in C THEN 1 ELSE 0
<1>1. Append(s, x) = s \o <<x>> /\ <<x>> \in Seq(S)
  BY AppendIsConcat
<1>2. Among(C, s \o <<x>>) = Among(C, s) + Among(C, <<x>>)
  BY <1>1, AmongConcat
<1> QED
  BY <1>1, <1>2, AmongOne, Zenon

-----------------------------------------------------------------------------
(***************************************************************************)
(* The packets delivered are the first of the buffer, and the demuxer      *)
(* holds the next.                                                         *)
(***************************************************************************)
Handed(n, C) == Among(C, SubSeq(buffer, 1, n))

DeliveredInv ==
  /\ pictures + packets <= ptr
  /\ ahead = SubSeq(buffer, pictures + packets + 1, ptr)
  /\ pictures = Handed(pictures + packets, {"video"})
  /\ packets = Handed(pictures + packets, {"audio"})
  /\ starved => ahead = <<>> /\ size = 0

(* The audio object counts the packets it is given, and no others.          *)
LEMMA AudioCounts ==
  /\ Audio!ReadPacket \/ Audio!ReadUnstamped \/ Audio!DivideByZero \/ Audio!BrokenPacket
       => packets' = packets + 1
  /\ Audio!InitalTool \/ Audio!EndOfInput \/ Audio!FlushWrites \/ Audio!FlushFails \/ Audio!FlushEnds
       => packets' = packets
  /\ Audio!AudioDecode \/ Audio!AudioDecodeFails \/ Audio!LoadDelayed \/ Audio!LoadWrites
       \/ Audio!LoadFails \/ Audio!LoadCrashes => packets' = packets
BY DEF Audio!ReadPacket, Audio!ReadUnstamped, Audio!DivideByZero, Audio!BrokenPacket,
   Audio!InitalTool, Audio!EndOfInput, Audio!FlushWrites, Audio!FlushFails, Audio!FlushEnds,
   Audio!AudioDecode, Audio!AudioDecodeFails, Audio!LoadDelayed, Audio!LoadWrites, Audio!LoadFails,
   Audio!LoadCrashes, Audio!Load

(* What the demuxer has read beyond n packets is empty only at ptr.         *)
LEMMA RestOfBuffer ==
  ASSUME InputInv, NEW n \in Nat, n <= ptr
  PROVE  SubSeq(buffer, n + 1, ptr) = <<>> <=> n = ptr
<1>1. /\ ptr \in Nat /\ Len(buffer) \in Nat /\ ptr <= Len(buffer)
      /\ buffer \in Seq({"video", "audio"})
  BY InputFacts DEF InputInv
<1>2. CASE n = ptr
  BY <1>1, <1>2, SubSeqEmpty
<1>3. CASE n < ptr
  <2> DEFINE rest == SubSeq(buffer, n + 1, ptr)
  <2>1. \A i \in (n + 1)..ptr : buffer[i] \in {"video", "audio"}
    BY <1>1, ElementOfSeq
  <2>2. Len(rest) = IF n + 1 <= ptr THEN ptr - (n + 1) + 1 ELSE 0
    BY <1>1, <2>1, SubSeqProperties
  <2> HIDE DEF rest
  <2>3. Len(rest) # 0 /\ n # ptr
    BY <1>1, <1>3, <2>2
  <2>4. rest # <<>>
    BY <2>3
  <2> QED
    BY <2>3, <2>4, Zenon DEF rest
<1> QED
  BY <1>1, <1>2, <1>3

(* The packet that follows the first n.                                     *)
LEMMA NextOfBuffer ==
  ASSUME InputInv, NEW n \in Nat, n <= ptr, ahead = SubSeq(buffer, n + 1, ptr), ahead # <<>>, NEW C
  PROVE  /\ n + 1 <= ptr /\ Tail(ahead) = SubSeq(buffer, n + 1 + 1, ptr)
         /\ Handed(n + 1, C) = Handed(n, C) + IF Head(ahead) \in C THEN 1 ELSE 0
<1> DEFINE S == {"video", "audio"}
<1>1. /\ ptr \in Nat /\ Len(buffer) \in Nat /\ ptr <= Len(buffer)
      /\ buffer \in Seq(S) /\ \A i \in 1..Len(buffer) : buffer[i] \in S
  BY InputFacts, ElementOfSeq DEF InputInv
<1>2. n + 1 \in 1..Len(buffer) /\ ptr \in (n + 1)..Len(buffer) /\ n + 1 <= ptr
  BY <1>1, RestOfBuffer
<1>3. Head(ahead) = buffer[n + 1] /\ Tail(ahead) = SubSeq(buffer, n + 1 + 1, ptr)
  BY <1>1, <1>2, HeadTailOfSubSeq
<1>4. PICK k \in 1..Len(buffer) : k = n + 1
  BY <1>2
<1>5. SubSeq(buffer, 1, k) = SubSeq(buffer, 1, k - 1) \o <<buffer[k]>>
  <2>1. 1 \in 1..Len(buffer) /\ k \in 1..Len(buffer)
    BY <1>1, <1>4
  <2> QED
    BY <1>1, <2>1, SubSeqRecursiveSecond
<1>6. SubSeq(buffer, 1, n) \in Seq(S) /\ <<buffer[k]>> \in Seq(S)
  <2>1. \A i \in 1..n : buffer[i] \in S
    BY <1>1, <1>2
  <2>2. SubSeq(buffer, 1, n) \in Seq(S)
    BY <2>1, SubSeqProperties
  <2> QED
    BY <1>1, <1>4, <2>2
<1>7. Among(C, SubSeq(buffer, 1, n) \o <<buffer[k]>>)
        = Among(C, SubSeq(buffer, 1, n)) + Among(C, <<buffer[k]>>)
  BY <1>6, AmongConcat
<1>8. k - 1 = n
  BY <1>4
<1>9. Among(C, <<buffer[k]>>) = IF buffer[k] \in C THEN 1 ELSE 0
  BY AmongOne
<1> QED
  BY <1>2, <1>3, <1>4, <1>5, <1>7, <1>8, <1>9, Zenon DEF Handed

LEMMA DeliveredNext ==
  ASSUME MediaInv, Audio!AudioTypeOK, DeliveredInv, [MediaNext]_mediaVars
  PROVE  DeliveredInv'
<1> DEFINE n == pictures + packets
<1>1. pictures \in Nat /\ packets \in Nat /\ n \in Nat
  <2>1. packets \in Nat
    BY AudioAssumption DEF Audio!AudioTypeOK
  <2> QED
    BY <2>1 DEF MediaInv, PipeInv
<1>2. CASE UNCHANGED <<pictures, packets, buffer, ptr, size, ahead, starved>>
  BY <1>2 DEF DeliveredInv, Handed
<1>3. CASE read_packet
  <2>1. ahead = <<>> /\ UNCHANGED <<pictures, packets, buffer, starved>> /\ pc = "prc_read"
    BY <1>3, ReadPacketCopies DEF MediaInv, read_packet, Reading, sinkVars, videoVars, audioVars
  <2>2. ~starved
    BY <2>1 DEF MediaInv, Phase
  <2>3. ptr' \in ptr..Len(buffer) /\ ahead' = SubSeq(buffer, ptr + 1, ptr')
    BY <1>3, ReadPacketCopies DEF MediaInv
  <2>4. n = ptr
    BY <1>1, <2>1, RestOfBuffer DEF DeliveredInv, MediaInv
  <2>5. pictures' + packets' <= ptr' /\ ahead' = SubSeq(buffer, pictures' + packets' + 1, ptr')
    BY <1>1, <2>1, <2>3, <2>4
  <2> QED
    BY <2>1, <2>2, <2>5 DEF DeliveredInv, Handed
<1>4. ASSUME NEW stream, Delivers(stream), NEW C
      PROVE  /\ n + 1 <= ptr' /\ ahead' = SubSeq(buffer', n + 1 + 1, ptr')
             /\ Handed(n + 1, C) = Handed(n, C) + IF stream \in C THEN 1 ELSE 0
             /\ ~starved' /\ UNCHANGED buffer
  <2>1. ahead # <<>> /\ Head(ahead) = stream /\ ahead' = Tail(ahead) /\ UNCHANGED <<buffer, ptr, starved>>
    BY <1>4 DEF Delivers
  <2>2. ~starved
    BY <1>4 DEF MediaInv, Phase, Delivers, Reading
  <2>3. n <= ptr /\ ahead = SubSeq(buffer, n + 1, ptr) /\ InputInv
    BY DEF DeliveredInv, MediaInv
  <2> HIDE DEF n
  <2>4. /\ n + 1 <= ptr /\ Tail(ahead) = SubSeq(buffer, n + 1 + 1, ptr)
        /\ Handed(n + 1, C) = Handed(n, C) + IF stream \in C THEN 1 ELSE 0
    BY <1>1, <2>1, <2>3, NextOfBuffer
  <2> QED
    BY <2>1, <2>2, <2>4
<1>5. CASE VideoPacket
  <2>1. Delivers("video") /\ packets' = packets /\ pictures' = pictures + 1
    <3>1. PICK j \in Jitters : Flow(j)
      BY <1>5 DEF VideoPacket
    <3> QED
      BY <1>5, <3>1, FlowMoves DEF VideoPacket, MediaInv, audioVars
  <2>2. /\ pictures' + packets' = n + 1
        /\ Handed(n + 1, {"video"}) = pictures + 1 /\ Handed(n + 1, {"audio"}) = packets
    BY <1>1, <1>4, <2>1 DEF DeliveredInv
  <2>3. /\ n + 1 <= ptr' /\ ahead' = SubSeq(buffer', n + 1 + 1, ptr')
        /\ ~starved' /\ UNCHANGED buffer
    BY <1>4, <2>1
  <2> HIDE DEF n
  <2> QED
    BY <2>1, <2>2, <2>3 DEF DeliveredInv, Handed
<1>6. CASE AudioPacket
  <2>1. Delivers("audio") /\ packets' = packets + 1 /\ pictures' = pictures
    BY <1>6, AudioCounts DEF AudioPacket, videoVars
  <2>2. /\ pictures' + packets' = n + 1
        /\ Handed(n + 1, {"video"}) = pictures /\ Handed(n + 1, {"audio"}) = packets + 1
    BY <1>1, <1>4, <2>1 DEF DeliveredInv
  <2>3. /\ n + 1 <= ptr' /\ ahead' = SubSeq(buffer', n + 1 + 1, ptr')
        /\ ~starved' /\ UNCHANGED buffer
    BY <1>4, <2>1
  <2> HIDE DEF n
  <2> QED
    BY <2>1, <2>2, <2>3 DEF DeliveredInv, Handed
<1>7. CASE LoopEnds
  <2>1. UNCHANGED <<buffer, ptr, size, ahead, pictures, packets>>
    BY <1>7, AudioCounts DEF LoopEnds, VideoEnds
  <2>2. starved' => ahead = <<>> /\ size = 0
    BY <1>7 DEF LoopEnds, DeliveredInv
  <2> QED
    BY <2>1, <2>2 DEF DeliveredInv, Handed
<1>8. CASE InitTools \/ AudioStep \/ FlushAudio
  <2>1. UNCHANGED <<pictures, packets, inputVars>>
    BY <1>8, AudioCounts DEF InitTools, AudioStep, FlushAudio, videoVars
  <2> QED
    BY <1>2, <2>1 DEF inputVars
<1>9. CASE FlushVideo
  <2>1. UNCHANGED <<pictures, packets, inputVars>>
    BY <1>9, FlushMoves DEF FlushVideo, audioVars, MediaInv
  <2> QED
    BY <1>2, <2>1 DEF inputVars
<1>10. CASE Loop \/ StopProcess \/ CallWriteEnd \/ Drained \/ Finish
  <2>1. UNCHANGED <<inputVars, sinkVars>>
    BY <1>10 DEF Loop, StopProcess, CallWriteEnd, Drained, Finish
  <2> QED
    BY <1>2, <2>1 DEF inputVars, sinkVars, videoVars, audioVars
<1>11. CASE WriteEnd \/ UNCHANGED mediaVars
  BY <1>2, <1>11 DEF WriteEnd, mediaVars, inputVars, sinkVars, videoVars, audioVars
<1> QED
  BY <1>3, <1>5, <1>6, <1>7, <1>8, <1>9, <1>10, <1>11 DEF MediaNext, ProcessNext

(* The packets of a memory input reach the stream objects in the order of   *)
(* the buffer, none skipped and none twice, whatever the sizes that         *)
(* read_packet is asked for; when the loop ends for want of input, all of   *)
(* the buffer has been delivered.                                           *)
THEOREM InputIsDelivered == MediaSpec => []InputDelivered
<1>1. MediaInit => DeliveredInv
  <2> SUFFICES ASSUME MediaInit PROVE DeliveredInv
    OBVIOUS
  <2>1. ptr = 0 /\ ahead = <<>> /\ ~starved /\ pictures = 0 /\ packets = 0
    BY DEF MediaInit, VideoInit, Audio!Init
  <2>2. SubSeq(buffer, 1, 0) = <<>>
    BY SubSeqEmpty
  <2>3. Handed(0, {"video"}) = 0 /\ Handed(0, {"audio"}) = 0
    BY <2>2, AmongNone, Zenon DEF Handed
  <2> QED
    BY <2>1, <2>2, <2>3 DEF DeliveredInv
<1>2. MediaInv /\ Audio!AudioTypeOK /\ DeliveredInv /\ [MediaNext]_mediaVars => DeliveredInv'
  BY DeliveredNext
<1>3. MediaInv /\ Audio!AudioTypeOK /\ DeliveredInv => InputDelivered
  <2> SUFFICES ASSUME MediaInv, Audio!AudioTypeOK, DeliveredInv PROVE InputDelivered
    OBVIOUS
  <2>1. ASSUME NEW stream, NEW s PROVE Of(stream, s) = Among({stream}, s)
    <3>1. {n \in DOMAIN s : s[n] = stream} = {n \in DOMAIN s : s[n] \in {stream}}
      OBVIOUS
    <3> QED
      BY <3>1 DEF Of, Among, Places
  <2>2. ASSUME starved PROVE pictures + packets = Len(buffer)
    <3>1. pictures + packets \in Nat /\ ptr = Len(buffer) /\ ahead = <<>>
      <4>1. packets \in Nat
        BY AudioAssumption DEF Audio!AudioTypeOK
      <4>2. size = 0 /\ ahead = <<>>
        BY <2>2 DEF DeliveredInv
      <4>3. ptr \in Nat /\ ptr + size = Len(buffer) /\ pictures \in Nat
        BY DEF MediaInv, InputInv, PipeInv
      <4> QED
        BY <4>1, <4>2, <4>3
    <3>2. SubSeq(buffer, pictures + packets + 1, ptr) = <<>> /\ pictures + packets <= ptr /\ InputInv
      BY <3>1 DEF DeliveredInv, MediaInv
    <3> QED
      BY <3>1, <3>2, RestOfBuffer
  <2> QED
    BY <2>1, <2>2, Zenon DEF InputDelivered, DeliveredInv, Handed
<1> QED
  BY <1>1, <1>2, <1>3, MediaInvariant, PTL DEF MediaSpec

-----------------------------------------------------------------------------
(***************************************************************************)
(* Pictures in line: those that are in the file, in the queue, in the      *)
(* encoder and in the decoder are due in this order, and a picture that     *)
(* moves on, or is dropped, leaves the line in order.                      *)
(***************************************************************************)
Dues(s)       == {s[n].due : n \in DOMAIN s}
Sorted(s)     == \A m, n \in DOMAIN s : m <= n => s[m].due <= s[n].due
Precede(V, W) == \A v \in V, w \in W : v <= w

InLine(V, q, e, d) ==
  /\ Sorted(q) /\ Sorted(e) /\ Sorted(d)
  /\ Precede(V, Dues(q)) /\ Precede(V, Dues(e)) /\ Precede(V, Dues(d))
  /\ Precede(Dues(q), Dues(e)) /\ Precede(Dues(q), Dues(d))
  /\ Precede(Dues(e), Dues(d))

Dated(S) == \A x \in S : x.due \in Int

(* What a picture at the end of a sequence does to it.                      *)
AtEnd(s, x) ==
  /\ Dues(Append(s, x)) = Dues(s) \cup {x.due}
  /\ Sorted(s) /\ Precede(Dues(s), {x.due}) => Sorted(Append(s, x))
  /\ Dues(s) \subseteq Int

LEMMA DuesAppend ==
  ASSUME NEW S, Dated(S), NEW s \in Seq(S), NEW x \in S
  PROVE  AtEnd(s, x)
<1> DEFINE t == Append(s, x)
<1>1. /\ DOMAIN s = 1..Len(s) /\ Len(s) \in Nat /\ DOMAIN t = 1..(Len(s) + 1)
      /\ \A i \in 1..Len(s) : t[i] = s[i] /\ s[i] \in S
      /\ t[Len(s) + 1] = x
  BY AppendProperties, LenProperties, ElementOfSeq
<1> HIDE DEF t
<1>2. Dues(t) = Dues(s) \cup {x.due}
  <2>1. ASSUME NEW n \in DOMAIN t PROVE t[n].due \in Dues(s) \cup {x.due}
    <3>1. CASE n \in 1..Len(s)
      BY <1>1, <3>1 DEF Dues
    <3>2. CASE n = Len(s) + 1
      BY <1>1, <3>2
    <3> QED
      BY <1>1, <3>1, <3>2
  <2>2. ASSUME NEW n \in DOMAIN s PROVE s[n].due \in Dues(t)
    <3>1. n \in DOMAIN t /\ t[n] = s[n]
      BY <1>1
    <3> QED
      BY <3>1 DEF Dues
  <2>3. x.due \in Dues(t)
    <3>1. Len(s) + 1 \in DOMAIN t
      BY <1>1
    <3> QED
      BY <1>1, <3>1 DEF Dues
  <2> QED
    BY <2>1, <2>2, <2>3 DEF Dues
<1>3. ASSUME Sorted(s), Precede(Dues(s), {x.due}) PROVE Sorted(t)
  <2> SUFFICES ASSUME NEW m \in DOMAIN t, NEW n \in DOMAIN t, m <= n PROVE t[m].due <= t[n].due
    BY DEF Sorted
  <2>1. CASE n \in 1..Len(s)
    <3>1. m \in 1..Len(s)
      BY <1>1, <2>1
    <3> QED
      BY <1>1, <1>3, <2>1, <3>1 DEF Sorted
  <2>2. CASE n = Len(s) + 1
    <3>1. CASE m = n
      BY <1>1, <2>2, <3>1 DEF Dated
    <3>2. CASE m # n
      <4>1. m \in 1..Len(s)
        BY <1>1, <2>2, <3>2
      <4>2. s[m].due \in Dues(s)
        BY <1>1, <4>1 DEF Dues
      <4> QED
        BY <1>1, <1>3, <2>2, <4>1, <4>2 DEF Precede
    <3> QED
      BY <3>1, <3>2
  <2> QED
    BY <1>1, <2>1, <2>2
<1>4. Dues(s) \subseteq Int
  BY <1>1 DEF Dues, Dated
<1> QED
  BY <1>2, <1>3, <1>4 DEF t, AtEnd

LEMMA DuesTail ==
  ASSUME NEW S, Dated(S), NEW s \in Seq(S), s # <<>>, Sorted(s)
  PROVE  /\ Dues(Tail(s)) \subseteq Dues(s) /\ Head(s).due \in Dues(s)
         /\ Sorted(Tail(s)) /\ Precede({Head(s).due}, Dues(Tail(s)))
<1>1. /\ DOMAIN s = 1..Len(s) /\ Len(s) \in Nat /\ Len(s) > 0 /\ Head(s) = s[1]
      /\ DOMAIN Tail(s) = 1..(Len(s) - 1)
      /\ \A i \in 1..(Len(s) - 1) : Tail(s)[i] = s[i + 1]
  <2>1. Len(s) \in Nat /\ Len(s) > 0
    BY EmptySeq
  <2>2. Tail(s) \in Seq(S) /\ Len(Tail(s)) = Len(s) - 1
        /\ \A i \in 1..Len(Tail(s)) : Tail(s)[i] = s[i + 1]
    BY HeadTailProperties
  <2> QED
    BY <2>1, <2>2, LenProperties
<1> DEFINE t == Tail(s)
<1> HIDE DEF t
<1>2. ASSUME NEW n \in DOMAIN t
      PROVE  n + 1 \in DOMAIN s /\ 1 \in DOMAIN s /\ t[n] = s[n + 1] /\ n \in Nat
  BY <1>1 DEF t
<1>3. Dues(t) \subseteq Dues(s)
  BY <1>2 DEF Dues
<1>4. Head(s).due \in Dues(s)
  BY <1>1 DEF Dues
<1>5. Sorted(t)
  <2> SUFFICES ASSUME NEW m \in DOMAIN t, NEW n \in DOMAIN t, m <= n PROVE t[m].due <= t[n].due
    BY DEF Sorted
  <2>1. m + 1 <= n + 1
    BY <1>2
  <2> QED
    BY <1>2, <2>1 DEF Sorted
<1>6. Precede({Head(s).due}, Dues(t))
  <2> SUFFICES ASSUME NEW n \in DOMAIN t PROVE s[1].due <= t[n].due
    BY <1>1 DEF Precede, Dues
  <2>1. 1 <= n + 1
    BY <1>2
  <2> QED
    BY <1>2, <2>1 DEF Sorted
<1> QED
  BY <1>3, <1>4, <1>5, <1>6 DEF t

(* The front of a queue leaves it.                                          *)
LEMMA DuesSplit ==
  ASSUME NEW S, NEW s \in Seq(S), NEW k \in 0..Len(s), Sorted(s)
  PROVE  LET front == SubSeq(s, 1, k)
             rest  == SubSeq(s, k + 1, Len(s))
         IN  /\ Dues(front) \subseteq Dues(s) /\ Dues(rest) \subseteq Dues(s)
             /\ Sorted(rest) /\ Precede(Dues(front), Dues(rest))
<1> DEFINE front == SubSeq(s, 1, k)
           rest  == SubSeq(s, k + 1, Len(s))
<1>1. /\ DOMAIN s = 1..Len(s) /\ Len(s) \in Nat
      /\ DOMAIN front = 1..k /\ \A n \in 1..k : front[n] = s[n]
      /\ DOMAIN rest = 1..(Len(s) - k) /\ \A n \in 1..(Len(s) - k) : rest[n] = s[n + k]
  BY SplitQueue, LenProperties
<1> HIDE DEF front, rest
<1>2. ASSUME NEW n \in DOMAIN front PROVE n \in DOMAIN s /\ front[n] = s[n] /\ n <= k /\ n \in Nat
  BY <1>1
<1>3. ASSUME NEW n \in DOMAIN rest PROVE n + k \in DOMAIN s /\ rest[n] = s[n + k] /\ n \in Nat /\ n >= 1
  BY <1>1
<1>4. Dues(front) \subseteq Dues(s) /\ Dues(rest) \subseteq Dues(s)
  BY <1>2, <1>3 DEF Dues
<1>5. Sorted(rest)
  <2> SUFFICES ASSUME NEW m \in DOMAIN rest, NEW n \in DOMAIN rest, m <= n
               PROVE  rest[m].due <= rest[n].due
    BY DEF Sorted
  <2>1. m + k <= n + k
    BY <1>3
  <2> QED
    BY <1>3, <2>1 DEF Sorted
<1>6. Precede(Dues(front), Dues(rest))
  <2> SUFFICES ASSUME NEW m \in DOMAIN front, NEW n \in DOMAIN rest
               PROVE  front[m].due <= rest[n].due
    BY DEF Precede, Dues
  <2>1. m <= n + k
    BY <1>2, <1>3
  <2> QED
    BY <1>2, <1>3, <2>1 DEF Sorted
<1> QED
  BY <1>4, <1>5, <1>6 DEF front, rest
-----------------------------------------------------------------------------
(* All the dues of a line.                                                  *)
Line(V, q, e, d) == V \cup Dues(q) \cup Dues(e) \cup Dues(d)

LEMMA LineArrives ==
  ASSUME NEW S, Dated(S), NEW q, NEW e, NEW d \in Seq(S), NEW x \in S, NEW V,
         InLine(V, q, e, d), Precede(Line(V, q, e, d), {x.due})
  PROVE  /\ InLine(V, q, e, Append(d, x))
         /\ Line(V, q, e, Append(d, x)) = Line(V, q, e, d) \cup {x.due}
<1> DEFINE t == Append(d, x)
<1> HIDE DEF t
<1>0. AtEnd(d, x)
  BY DuesAppend
<1>1. Dues(t) = Dues(d) \cup {x.due}
  BY <1>0 DEF AtEnd, t
<1>2. Precede(V, {x.due}) /\ Precede(Dues(q), {x.due}) /\ Precede(Dues(e), {x.due}) /\ Precede(Dues(d), {x.due})
  BY DEF Precede, Line
<1>3. Sorted(t)
  <2>1. Sorted(d)
    BY DEF InLine
  <2> QED
    BY <1>0, <1>2, <2>1 DEF AtEnd, t
<1>4. Precede(V, Dues(t)) /\ Precede(Dues(q), Dues(t)) /\ Precede(Dues(e), Dues(t))
  BY <1>1, <1>2 DEF InLine, Precede
<1>5. InLine(V, q, e, t)
  BY <1>3, <1>4 DEF InLine
<1>6. Line(V, q, e, t) = Line(V, q, e, d) \cup {x.due}
  BY <1>1 DEF Line
<1> QED
  BY <1>5, <1>6 DEF t

(* The first picture of the decoder goes to the encoder, or is dropped.     *)
LEMMA LineDecodes ==
  ASSUME NEW S, Dated(S), NEW q, NEW e \in Seq(S), NEW d \in Seq(S), d # <<>>, NEW V,
         InLine(V, q, e, d)
  PROVE  /\ InLine(V, q, e, Tail(d)) /\ InLine(V, q, Append(e, Head(d)), Tail(d))
         /\ Line(V, q, e, Tail(d)) \subseteq Line(V, q, e, d)
         /\ Line(V, q, Append(e, Head(d)), Tail(d)) \subseteq Line(V, q, e, d)
<1> DEFINE x == Head(d)
           t == Tail(d)
           u == Append(e, x)
<1>1. x \in S
  BY HeadTailProperties
<1>2. Dues(t) \subseteq Dues(d) /\ x.due \in Dues(d) /\ Sorted(t) /\ Precede({x.due}, Dues(t))
  BY DuesTail DEF InLine
<1> HIDE DEF x, t, u
<1>3. Dues(u) = Dues(e) \cup {x.due} /\ (Precede(Dues(e), {x.due}) => Sorted(u))
  <2>1. Sorted(e)
    BY DEF InLine
  <2>2. AtEnd(e, x)
    BY <1>1, DuesAppend
  <2> QED
    BY <2>1, <2>2 DEF AtEnd, u
<1>4. Precede(V, {x.due}) /\ Precede(Dues(q), {x.due}) /\ Precede(Dues(e), {x.due})
  BY <1>2 DEF InLine, Precede
<1>5. Precede(V, Dues(t)) /\ Precede(Dues(q), Dues(t)) /\ Precede(Dues(e), Dues(t))
  BY <1>2 DEF InLine, Precede
<1>6. InLine(V, q, e, t)
  BY <1>2, <1>5 DEF InLine
<1>7. Precede(V, Dues(u)) /\ Precede(Dues(q), Dues(u)) /\ Precede(Dues(u), Dues(t))
  BY <1>2, <1>3, <1>4, <1>5 DEF InLine, Precede
<1>8. InLine(V, q, u, t)
  BY <1>3, <1>4, <1>6, <1>7 DEF InLine
<1>9. Line(V, q, e, t) \subseteq Line(V, q, e, d) /\ Line(V, q, u, t) \subseteq Line(V, q, e, d)
  BY <1>2, <1>3 DEF Line
<1> QED
  BY <1>6, <1>8, <1>9 DEF x, t, u

(* The packet of the encoder's first picture goes to the queue, or is       *)
(* dropped.                                                                 *)
LEMMA LineEncodes ==
  ASSUME NEW S, Dated(S), NEW q \in Seq(S), NEW e \in Seq(S), e # <<>>, NEW d, NEW V,
         NEW p \in S, p.due = Head(e).due, InLine(V, q, e, d)
  PROVE  /\ InLine(V, q, Tail(e), d) /\ InLine(V, Append(q, p), Tail(e), d)
         /\ Line(V, q, Tail(e), d) \subseteq Line(V, q, e, d)
         /\ Line(V, Append(q, p), Tail(e), d) \subseteq Line(V, q, e, d)
         /\ Precede(Dues(q), {p.due}) /\ Precede(V, {p.due})
<1> DEFINE t == Tail(e)
           u == Append(q, p)
<1>2. Dues(t) \subseteq Dues(e) /\ p.due \in Dues(e) /\ Sorted(t) /\ Precede({p.due}, Dues(t))
  BY DuesTail DEF InLine
<1> HIDE DEF t, u
<1>3. Dues(u) = Dues(q) \cup {p.due} /\ (Precede(Dues(q), {p.due}) => Sorted(u))
  <2>1. Sorted(q)
    BY DEF InLine
  <2>2. AtEnd(q, p)
    BY DuesAppend
  <2> QED
    BY <2>1, <2>2 DEF AtEnd, u
<1>4. Precede(V, {p.due}) /\ Precede(Dues(q), {p.due}) /\ Precede({p.due}, Dues(d))
  BY <1>2 DEF InLine, Precede
<1>5. Precede(V, Dues(t)) /\ Precede(Dues(q), Dues(t)) /\ Precede(Dues(t), Dues(d))
  BY <1>2 DEF InLine, Precede
<1>6. InLine(V, q, t, d)
  BY <1>2, <1>5 DEF InLine
<1>7. Precede(V, Dues(u)) /\ Precede(Dues(u), Dues(t)) /\ Precede(Dues(u), Dues(d))
  BY <1>2, <1>3, <1>4, <1>5 DEF InLine, Precede
<1>8. InLine(V, u, t, d)
  BY <1>3, <1>4, <1>6, <1>7 DEF InLine
<1>9. Line(V, q, t, d) \subseteq Line(V, q, e, d) /\ Line(V, u, t, d) \subseteq Line(V, q, e, d)
  BY <1>2, <1>3 DEF Line
<1> QED
  BY <1>4, <1>6, <1>8, <1>9 DEF t, u

(* The front of the queue goes to the file.                                 *)
LEMMA LineReleases ==
  ASSUME NEW S, Dated(S), NEW q \in Seq(S), NEW k \in 0..Len(q), NEW e, NEW d, NEW V,
         InLine(V, q, e, d)
  PROVE  LET front == SubSeq(q, 1, k)
             rest  == SubSeq(q, k + 1, Len(q))
         IN  /\ InLine(V \cup Dues(front), rest, e, d)
             /\ Line(V \cup Dues(front), rest, e, d) \subseteq Line(V, q, e, d)
<1> DEFINE front == SubSeq(q, 1, k)
           rest  == SubSeq(q, k + 1, Len(q))
<1>1. /\ Dues(front) \subseteq Dues(q) /\ Dues(rest) \subseteq Dues(q)
      /\ Sorted(rest) /\ Precede(Dues(front), Dues(rest))
  BY DuesSplit DEF InLine
<1> HIDE DEF front, rest
<1>2. /\ Precede(V \cup Dues(front), Dues(rest)) /\ Precede(V \cup Dues(front), Dues(e))
      /\ Precede(V \cup Dues(front), Dues(d))
      /\ Precede(Dues(rest), Dues(e)) /\ Precede(Dues(rest), Dues(d))
  BY <1>1 DEF InLine, Precede
<1>3. InLine(V \cup Dues(front), rest, e, d)
  BY <1>1, <1>2 DEF InLine
<1>4. Line(V \cup Dues(front), rest, e, d) \subseteq Line(V, q, e, d)
  BY <1>1 DEF Line
<1> QED
  BY <1>3, <1>4 DEF front, rest
-----------------------------------------------------------------------------
(***************************************************************************)
(* What the muxer has been given: the packets in the queue and in the file.*)
(***************************************************************************)
Items(s) == {s[n] : n \in DOMAIN s}
Written  == Items(queue) \cup Items(file)
Filed    == {p.due : p \in {r \in Items(file) : r.from = "video"}}

LEMMA ItemsConcat ==
  ASSUME NEW S, NEW s \in Seq(S), NEW t \in Seq(S)
  PROVE  Items(s \o t) = Items(s) \cup Items(t) /\ Items(s) \subseteq S
<1>1. /\ s \o t \in Seq(S) /\ DOMAIN (s \o t) = 1..(Len(s) + Len(t))
      /\ \A i \in 1..(Len(s) + Len(t)) : (s \o t)[i] = IF i <= Len(s) THEN s[i] ELSE t[i - Len(s)]
      /\ DOMAIN s = 1..Len(s) /\ DOMAIN t = 1..Len(t) /\ Len(s) \in Nat /\ Len(t) \in Nat
  BY ConcatProperties, LenProperties
<1> DEFINE u == s \o t
<1> HIDE DEF u
<1>2. ASSUME NEW i \in DOMAIN u PROVE u[i] \in Items(s) \cup Items(t)
  <2>1. CASE i <= Len(s)
    <3>1. i \in DOMAIN s /\ u[i] = s[i]
      BY <1>1, <1>2, <2>1 DEF u
    <3> QED
      BY <3>1 DEF Items
  <2>2. CASE ~(i <= Len(s))
    <3>1. i - Len(s) \in DOMAIN t /\ u[i] = t[i - Len(s)]
      BY <1>1, <1>2, <2>2 DEF u
    <3> QED
      BY <3>1 DEF Items
  <2> QED
    BY <2>1, <2>2
<1>3. ASSUME NEW i \in DOMAIN s PROVE s[i] \in Items(u)
  <2>1. i \in DOMAIN u /\ u[i] = s[i]
    BY <1>1, <1>3 DEF u
  <2> QED
    BY <2>1 DEF Items
<1>4. ASSUME NEW i \in DOMAIN t PROVE t[i] \in Items(u)
  <2>1. i + Len(s) \in DOMAIN u /\ ~(i + Len(s) <= Len(s)) /\ (i + Len(s)) - Len(s) = i
    BY <1>1, <1>4 DEF u
  <2>2. u[i + Len(s)] = t[i]
    BY <1>1, <2>1 DEF u
  <2> QED
    BY <2>1, <2>2 DEF Items
<1>5. Items(s) \subseteq S
  BY ElementOfSeq, <1>1 DEF Items
<1> QED
  BY <1>2, <1>3, <1>4, <1>5 DEF Items, u

LEMMA ItemsAppend ==
  ASSUME NEW S, NEW s \in Seq(S), NEW x \in S
  PROVE  Items(Append(s, x)) = Items(s) \cup {x}
<1> DEFINE t == <<x>>
<1>1. Append(s, x) = s \o t /\ t \in Seq(S)
  BY AppendIsConcat
<1>2. Items(t) = {x}
  BY DEF Items
<1> HIDE DEF t
<1>3. Items(s \o t) = Items(s) \cup Items(t)
  BY <1>1, ItemsConcat
<1> QED
  BY <1>1, <1>2, <1>3, Zenon

LEMMA ItemsDues ==
  ASSUME NEW s
  PROVE  Dues(s) = {x.due : x \in Items(s)}
BY DEF Dues, Items

(* A part of a queue is written with what was before it.                    *)
LEMMA NoneAmong ==
  ASSUME NEW s, NEW C, Items(s) \cap C = {}
  PROVE  Among(C, s) = 0
<1>1. Places(C, s) = {}
  BY DEF Places, Items
<1> QED
  BY <1>1, FS_EmptySet DEF Among

LEMMA FiledGrows ==
  ASSUME MuxerInv, NEW front \in Seq(VideoPackets), file' = file \o front
  PROVE  Filed' = Filed \cup Dues(front)
<1>1. front \in Seq(VideoPackets \cup AudioPackets)
  BY SeqMonotonic
<1>2. Items(file)' = Items(file) \cup Items(front)
  <2>1. Items(file \o front) = Items(file) \cup Items(front)
    BY <1>1, ItemsConcat DEF MuxerInv
  <2>2. Items(file)' = Items(file')
    BY DEF Items
  <2> QED
    BY <2>1, <2>2
<1>3. \A p \in Items(front) : p.from = "video"
  <2>1. Items(front) \subseteq VideoPackets
    BY ItemsConcat
  <2> QED
    BY <2>1, VideoPacketFields
<1>4. Dues(front) = {p.due : p \in Items(front)}
  BY ItemsDues
<1> QED
  BY <1>2, <1>3, <1>4 DEF Filed

(* A packet that is due not before those in the queue is its last.          *)
LEMMA StampGrows ==
  ASSUME NEW p \in VideoPackets, NEW r \in VideoPackets, p.due <= r.due
  PROVE  p.stamp <= r.stamp
<1>1. /\ p.due \in Int /\ p.stamp = StampOf(FrameOf(p.due))
      /\ r.due \in Int /\ r.stamp = StampOf(FrameOf(r.due))
  BY VideoPacketFields
<1>2. FrameOf(p.due) <= FrameOf(r.due) /\ FrameOf(p.due) \in Int /\ FrameOf(r.due) \in Int
  BY <1>1, RescaleGrows, RescaledIsInt, PictureAssumption DEF FrameOf
<1>3. StampOf(FrameOf(p.due)) <= StampOf(FrameOf(r.due))
  BY <1>2, RescaleGrows, PictureAssumption DEF StampOf
<1> QED
  BY <1>1, <1>3

LEMMA VideoWritten ==
  ASSUME MuxerInv, NEW p \in VideoPackets, WriteInterleaved(p), Precede(Dues(queue), {p.due})
  PROVE  LET q == Append(queue, p)
         IN  /\ q \in Seq(VideoPackets)
             /\ \E k \in 0..Len(q) : /\ queue' = SubSeq(q, k + 1, Len(q))
                                     /\ Filed' = Filed \cup Dues(SubSeq(q, 1, k))
             /\ Written' = Written \cup {p}
             /\ \A C : Among(C, queue') + Among(C, file')
                         = Among(C, queue) + Among(C, file) + IF p \in C THEN 1 ELSE 0
<1> DEFINE S == VideoPackets \cup AudioPackets
           q == Append(queue, p)
<1>1. queue \in Seq(VideoPackets) /\ file \in Seq(S)
  BY DEF MuxerInv
<1>2. \A n \in 1..Len(queue) : queue[n].stamp <= p.stamp
  <2> SUFFICES ASSUME NEW n \in 1..Len(queue) PROVE queue[n].stamp <= p.stamp
    OBVIOUS
  <2>1. queue[n] \in VideoPackets /\ n \in DOMAIN queue
    BY <1>1, ElementOfSeq, LenProperties
  <2>2. queue[n].due <= p.due
    BY <2>1 DEF Precede, Dues
  <2> QED
    BY <2>1, <2>2, StampGrows
<1>3. Enqueue(p) = q
  BY <1>1, <1>2, PacketsAreStamped, EnqueueLast
<1>4. q \in Seq(VideoPackets) /\ Items(q) = Items(queue) \cup {p}
  BY <1>1, AppendProperties, ItemsAppend
<1>5. PICK k \in 0..Len(Enqueue(p)) :
        /\ file' = file \o SubSeq(Enqueue(p), 1, k)
        /\ queue' = SubSeq(Enqueue(p), k + 1, Len(Enqueue(p)))
  BY InterleavedMoves
<1>12. ASSUME NEW C PROVE Among(C, q) = Among(C, queue) + IF p \in C THEN 1 ELSE 0
  BY <1>1, AmongAppend
<1> HIDE DEF q
<1> DEFINE front == SubSeq(q, 1, k)
           rest  == SubSeq(q, k + 1, Len(q))
<1>6. k \in 0..Len(q) /\ file' = file \o front /\ queue' = rest
  BY <1>3, <1>5
<1>7. front \in Seq(VideoPackets) /\ rest \in Seq(VideoPackets) /\ front \o rest = q
  BY <1>4, <1>6, SplitQueue
<1> HIDE DEF front, rest
<1>8. front \in Seq(S) /\ rest \in Seq(S)
  BY <1>7, SeqMonotonic
<1>9. Filed' = Filed \cup Dues(front)
  BY <1>6, <1>7, FiledGrows
<1>10. Written' = Written \cup {p}
  <2>6. front \in Seq(VideoPackets) /\ rest \in Seq(VideoPackets)
    BY <1>7
  <2>5. Items(front \o rest) = Items(front) \cup Items(rest)
    BY <2>6, ItemsConcat
  <2>1. Items(q) = Items(front) \cup Items(rest)
    BY <1>7, <2>5, Zenon
  <2>2. Items(file \o front) = Items(file) \cup Items(front)
    BY <1>1, <1>8, ItemsConcat
  <2>3. Written' = Items(queue') \cup Items(file')
    BY DEF Written, Items
  <2>4. Items(queue') = Items(rest) /\ Items(file') = Items(file) \cup Items(front)
    BY <1>6, <2>2, Zenon
  <2> QED
    BY <1>4, <2>1, <2>3, <2>4 DEF Written
<1>11. ASSUME NEW C
       PROVE  Among(C, queue') + Among(C, file')
                = Among(C, queue) + Among(C, file) + IF p \in C THEN 1 ELSE 0
  <2>1. Among(C, front \o rest) = Among(C, front) + Among(C, rest)
    BY <1>7, AmongConcat
  <2>2. Among(C, file \o front) = Among(C, file) + Among(C, front)
    BY <1>1, <1>8, AmongConcat
  <2>3. /\ Among(C, front) \in Nat /\ Among(C, rest) \in Nat
        /\ Among(C, file) \in Nat /\ Among(C, queue) \in Nat
    BY <1>1, <1>7, AmongIsNat
  <2>4. Among(C, queue') = Among(C, rest) /\ Among(C, file') = Among(C, file \o front)
    BY <1>6, Zenon
  <2>5. Among(C, q) = Among(C, front) + Among(C, rest)
    BY <1>7, <2>1, Zenon
  <2>6. Among(C, q) = Among(C, queue) + IF p \in C THEN 1 ELSE 0
    BY <1>12
  <2> QED
    BY <2>2, <2>3, <2>4, <2>5, <2>6
<1>13. \E i \in 0..Len(q) : /\ queue' = SubSeq(q, i + 1, Len(q))
                            /\ Filed' = Filed \cup Dues(SubSeq(q, 1, i))
  BY <1>6, <1>9 DEF front, rest
<1> QED
  BY <1>4, <1>10, <1>11, <1>13 DEF q

LEMMA AudioWritten ==
  ASSUME MuxerInv, NEW p \in AudioPackets, file' = Append(file, p), queue' = queue
  PROVE  /\ Filed' = Filed /\ Written' = Written \cup {p}
         /\ \A C : C \cap AudioPackets = {} => Among(C, file') = Among(C, file)
<1> DEFINE S == VideoPackets \cup AudioPackets
           new == Append(file, p)
<1>1. p \in S /\ file \in Seq(S)
  BY DEF MuxerInv
<1>2. Items(new) = Items(file) \cup {p}
  BY <1>1, ItemsAppend
<1>3. ASSUME NEW C, C \cap AudioPackets = {} PROVE Among(C, new) = Among(C, file)
  <2>1. Among(C, new) = Among(C, file) + IF p \in C THEN 1 ELSE 0
    BY <1>1, AmongAppend
  <2>2. p \notin C /\ Among(C, file) \in Nat
    BY <1>1, <1>3, AmongIsNat
  <2> QED
    BY <2>1, <2>2
<1> HIDE DEF new
<1>4. Items(file)' = Items(file) \cup {p} /\ Items(queue)' = Items(queue)
  <2>1. Items(file') = Items(new)
    BY DEF new
  <2>2. Items(file)' = Items(file') /\ Items(queue)' = Items(queue')
    BY DEF Items
  <2> QED
    BY <1>2, <2>1, <2>2
<1>5. Written' = Written \cup {p}
  BY <1>4 DEF Written
<1>6. p.from # "video"
  BY DEF AudioPackets
<1>7. Filed' = Filed
  BY <1>4, <1>6 DEF Filed
<1>8. file' = new
  BY DEF new
<1> QED
  BY <1>3, <1>5, <1>7, <1>8
(* The trailer: all of the queue is written.                                *)
LEMMA TrailerWritten ==
  ASSUME MuxerInv, WriteTrailer
  PROVE  /\ queue' = <<>> /\ Filed' = Filed \cup Dues(queue) /\ Written' = Written
         /\ \A C : Among(C, queue') + Among(C, file') = Among(C, queue) + Among(C, file)
<1> DEFINE S == VideoPackets \cup AudioPackets
<1>1. queue' = <<>> /\ file' = file \o queue
  BY DEF WriteTrailer
<1>2. queue \in Seq(VideoPackets) /\ queue \in Seq(S) /\ file \in Seq(S)
  BY SeqMonotonic DEF MuxerInv
<1>3. PICK q \in Seq(VideoPackets) : q = queue
  BY <1>2
<1>4. Filed' = Filed \cup Dues(q)
  BY <1>1, <1>3, FiledGrows
<1>5. Written' = Written
  <2>1. Items(file \o queue) = Items(file) \cup Items(queue)
    BY <1>2, ItemsConcat
  <2>2. Written' = Items(queue') \cup Items(file')
    BY DEF Written, Items
  <2>3. Items(<<>>) = {}
    BY DEF Items
  <2>4. Items(queue') = {} /\ Items(file') = Items(file \o queue)
    BY <1>1, <2>3, Zenon
  <2> QED
    BY <2>1, <2>2, <2>4 DEF Written
<1>6. ASSUME NEW C
      PROVE  Among(C, queue') + Among(C, file') = Among(C, queue) + Among(C, file)
  <2>1. Among(C, file \o queue) = Among(C, file) + Among(C, queue)
    BY <1>2, AmongConcat
  <2>2. Among(C, queue') = Among(C, <<>>) /\ Among(C, file') = Among(C, file \o queue)
    BY <1>1, Zenon
  <2>3. Among(C, <<>>) = 0
    BY AmongNone
  <2>4. Among(C, file) \in Nat /\ Among(C, queue) \in Nat
    BY <1>2, AmongIsNat
  <2> QED
    BY <2>1, <2>2, <2>3, <2>4
<1> QED
  BY <1>1, <1>3, <1>4, <1>5, <1>6

-----------------------------------------------------------------------------
(***************************************************************************)
(* The order of pictures, for an input whose packets come in the order of  *)
(* their stamps.                                                           *)
(***************************************************************************)
Strayed == {p \in VideoPackets : p.index # video_index}

(* Every picture that comes is due not before those that came, ...          *)
LineInv ==
  /\ InLine(Filed, queue, encoding, decoding)
  /\ stage = "packets" =>
       \A j \in Jitters, v \in Line(Filed, queue, encoding, decoding) : v <= StampOf(pictures) + j

(* ... and those the encoder gives up in the flush are the last, and no     *)
(* more than it holds.                                                      *)
StrayInv ==
  /\ stage = "packets" \/ video_index = 0
       => \A p \in Written : p.from = "video" => p.index = video_index
  /\ \A p, s \in Written :
       p.from = "video" /\ p.index = video_index /\ s \in Strayed => p.due <= s.due
  /\ stage # "packets" /\ video_index # 0
       => Among(Strayed, queue) + Among(Strayed, file) + Len(encoding) <= EncoderHolds

TrailerInv == trailer => queue = <<>>

Pictures == Aligned \cup VideoPackets

LEMMA PicturesAreDated ==
  /\ Dated(Pictures)
  /\ Seq(Aligned) \subseteq Seq(Pictures) /\ Seq(VideoPackets) \subseteq Seq(Pictures)
<1>1. Aligned \subseteq Pictures /\ VideoPackets \subseteq Pictures
  BY DEF Pictures
<1>2. Dated(Pictures)
  BY AlignedFields, VideoPacketFields DEF Dated, Pictures
<1> QED
  BY <1>1, <1>2, SeqMonotonic

LEMMA WrittenFacts ==
  ASSUME MuxerInv
  PROVE  /\ Written \subseteq VideoPackets \cup AudioPackets
         /\ Filed \subseteq Int /\ Dues(queue) \subseteq Int
         /\ \A p \in Written : p.from = "video" => p \in VideoPackets /\ p.due \in Filed \cup Dues(queue)
<1> DEFINE S == VideoPackets \cup AudioPackets
<1>1. queue \in Seq(VideoPackets) /\ file \in Seq(S)
  BY DEF MuxerInv
<1>2. Items(queue) \subseteq VideoPackets /\ Items(file) \subseteq S
  BY <1>1, ItemsConcat
<1>3. \A p \in S : p.due \in Int /\ (p.from = "video" => p \in VideoPackets)
  BY VideoPacketFields DEF AudioPackets
<1>4. Dues(queue) = {p.due : p \in Items(queue)}
  BY ItemsDues
<1> QED
  BY <1>2, <1>3, <1>4 DEF Written, Filed

LEMMA NoStrays ==
  ASSUME MuxerInv, \A p \in Written : p.from = "video" => p.index = video_index
  PROVE  Among(Strayed, queue) = 0 /\ Among(Strayed, file) = 0 /\ Written \cap Strayed = {}
<1>1. Written \cap Strayed = {}
  BY VideoPacketFields DEF Strayed
<1>2. Items(queue) \cap Strayed = {} /\ Items(file) \cap Strayed = {}
  BY <1>1 DEF Written
<1> QED
  BY <1>1, <1>2, NoneAmong

(* The encoder's first picture is written, and leaves the line.             *)
LEMMA FirstIsWritten ==
  ASSUME MuxerInv, NEW e \in Seq(Aligned), e # <<>>, NEW d,
         NEW p \in VideoPackets, p.due = Head(e).due,
         InLine(Filed, queue, e, d), WriteInterleaved(p)
  PROVE  /\ InLine(Filed', queue', Tail(e), d)
         /\ Line(Filed', queue', Tail(e), d) \subseteq Line(Filed, queue, e, d)
         /\ Precede(Filed \cup Dues(queue), {p.due})
         /\ Written' = Written \cup {p}
         /\ \A C : Among(C, queue') + Among(C, file')
                     = Among(C, queue) + Among(C, file) + IF p \in C THEN 1 ELSE 0
<1>1. /\ Dated(Pictures) /\ e \in Seq(Pictures) /\ queue \in Seq(Pictures) /\ p \in Pictures
      /\ queue \in Seq(VideoPackets)
  BY PicturesAreDated DEF Pictures, MuxerInv
<1> DEFINE t == Tail(e)
           q == Append(queue, p)
<1>2. /\ InLine(Filed, q, t, d) /\ Line(Filed, q, t, d) \subseteq Line(Filed, queue, e, d)
      /\ Precede(Dues(queue), {p.due}) /\ Precede(Filed, {p.due})
  BY <1>1, LineEncodes
<1>3. /\ q \in Seq(VideoPackets)
      /\ \E k \in 0..Len(q) : /\ queue' = SubSeq(q, k + 1, Len(q))
                              /\ Filed' = Filed \cup Dues(SubSeq(q, 1, k))
      /\ Written' = Written \cup {p}
      /\ \A C : Among(C, queue') + Among(C, file')
                  = Among(C, queue) + Among(C, file) + IF p \in C THEN 1 ELSE 0
  BY <1>2, VideoWritten
<1> HIDE DEF t, q
<1>4. PICK k \in 0..Len(q) : /\ queue' = SubSeq(q, k + 1, Len(q))
                             /\ Filed' = Filed \cup Dues(SubSeq(q, 1, k))
  BY <1>3
<1>5. q \in Seq(Pictures)
  BY <1>3, PicturesAreDated
<1>6. /\ InLine(Filed \cup Dues(SubSeq(q, 1, k)), SubSeq(q, k + 1, Len(q)), t, d)
      /\ Line(Filed \cup Dues(SubSeq(q, 1, k)), SubSeq(q, k + 1, Len(q)), t, d) \subseteq Line(Filed, q, t, d)
  BY <1>1, <1>2, <1>5, LineReleases
<1>7. InLine(Filed', queue', t, d) /\ Line(Filed', queue', t, d) \subseteq Line(Filed, q, t, d)
  BY <1>4, <1>6, Zenon
<1>8. Precede(Filed \cup Dues(queue), {p.due})
  BY <1>2 DEF Precede
<1> QED
  BY <1>2, <1>3, <1>7, <1>8 DEF t
(* The next packet is due not before the others, and the one after it not   *)
(* before any of them.                                                      *)
LEMMA ArrivesLast ==
  ASSUME Orderly, PipeInv, NEW j \in Jitters, NEW L, L \subseteq Int,
         \A i \in Jitters, v \in L : v <= StampOf(pictures) + i
  PROVE  /\ Precede(L, {Arrival(j).due})
         /\ \A i \in Jitters, v \in L \cup {Arrival(j).due} : v <= StampOf(pictures + 1) + i
<1>1. Arrival(j).due = StampOf(pictures) + j
  BY DEF Arrival
<1>2. /\ Num \div Den \in Nat
      /\ StampOf(pictures) + Num \div Den <= StampOf(pictures + 1)
      /\ StampOf(pictures) \in Int /\ StampOf(pictures + 1) \in Int
  <2>1. pictures \in Nat /\ pictures \in Int /\ pictures + 1 \in Int
    BY DEF PipeInv
  <2>2. /\ Num \div Den \in Nat
        /\ StampOf(pictures) + Num \div Den <= StampOf(pictures + 1)
    BY <2>1, RescaleSteps, PictureAssumption DEF StampOf
  <2> QED
    BY <2>1, <2>2, RescaledIsInt
<1>3. ASSUME NEW i \in Jitters PROVE i \in Int /\ j \in Int /\ j - i <= Num \div Den
  BY JittersAssumption DEF Orderly
<1> DEFINE a == StampOf(pictures)
           b == StampOf(pictures + 1)
           k == Num \div Den
<1>4. /\ k \in Nat /\ a \in Int /\ b \in Int /\ a + k <= b /\ Arrival(j).due = a + j
      /\ \A i \in Jitters : i \in Int /\ j - i <= k
      /\ \A i \in Jitters, v \in L : v <= a + i
  BY <1>1, <1>2, <1>3
<1> HIDE DEF a, b, k
<1>5. Precede(L, {Arrival(j).due})
  BY <1>4 DEF Precede
<1>6. ASSUME NEW i \in Jitters, NEW v \in L \cup {a + j} PROVE v <= b + i
  <2>1. CASE v \in L
    BY <1>4, <2>1
  <2>2. CASE v = a + j
    BY <1>4, <2>2
  <2> QED
    BY <2>1, <2>2
<1> QED
  BY <1>4, <1>5, <1>6 DEF b

LEMMA LineIsInt ==
  ASSUME MuxerInv, PipeInv
  PROVE  Line(Filed, queue, encoding, decoding) \subseteq Int
<1>1. \A p \in Aligned : p.due \in Int
  BY AlignedFields
<1>2. Items(encoding) \subseteq Aligned /\ Items(decoding) \subseteq Aligned
  BY ItemsConcat DEF PipeInv
<1>3. Dues(encoding) \subseteq Int /\ Dues(decoding) \subseteq Int
  BY <1>1, <1>2, ItemsDues
<1> QED
  BY <1>3, WrittenFacts DEF Line

LEMMA MuxerUnchanged ==
  ASSUME UNCHANGED <<queue, file>>
  PROVE  Filed' = Filed /\ Written' = Written
BY DEF Filed, Written, Items

(* Flow keeps the pictures in line.                                         *)
LEMMA FlowInLine ==
  ASSUME Orderly, MuxerInv, PipeInv, LineInv, StrayInv, NEW j \in Jitters, Flow(j)
  PROVE  LineInv' /\ StrayInv'
<1> DEFINE x == Arrival(j)
           L == Line(Filed, queue, encoding, decoding)
           M == L \cup {x.due}
<1>1. x \in Aligned /\ Decoded(j) \in Aligned /\ stage = "packets" /\ UNCHANGED <<video_index, stage>>
      /\ pictures' = pictures + 1
  BY ArrivalIsAligned, FlowMoves
<1>2. /\ Precede(L, {x.due}) /\ \A i \in Jitters, v \in M : v <= StampOf(pictures + 1) + i
      /\ InLine(Filed, queue, encoding, decoding)
  BY <1>1, ArrivesLast, LineIsInt DEF LineInv
<1>3. ASSUME NEW N \in SUBSET M, N = Line(Filed', queue', encoding', decoding'),
             InLine(Filed', queue', encoding', decoding')
      PROVE  LineInv'
  <2>1. LineInv' <=> /\ InLine(Filed', queue', encoding', decoding')
                     /\ stage' = "packets" =>
                          \A i \in Jitters, v \in Line(Filed', queue', encoding', decoding') :
                            v <= StampOf(pictures') + i
    BY DEF LineInv, InLine, Sorted, Precede, Line, Dues, Filed, Items, StampOf, Rescale
  <2>2. \A i \in Jitters, v \in N : v <= StampOf(pictures') + i
    BY <1>1, <1>2
  <2> QED
    BY <1>3, <2>1, <2>2
<1>4. StrayInv /\ (\A p \in Written : p.from = "video" => p.index = video_index)
  BY <1>1 DEF StrayInv
<1>5. ASSUME \A p \in Written' : p.from = "video" => p.index = video_index
      PROVE  StrayInv'
  <2>1. \A s \in Strayed' : s.from = "video" /\ s.index # video_index
    BY <1>1, VideoPacketFields DEF Strayed
  <2> QED
    BY <1>1, <1>5, <2>1 DEF StrayInv
<1>6. PICK D \in Seq(Aligned) : D = Append(decoding, x)
  BY <1>1, AppendProperties DEF PipeInv
<1>7. /\ encoding \in Seq(Pictures) /\ decoding \in Seq(Pictures) /\ x \in Pictures
      /\ Dated(Pictures) /\ D \in Seq(Pictures) /\ D # <<>> /\ Decoded(j) = Head(D)
  <2>1. Append(decoding, x) # <<>>
    BY <1>1, AppendProperties DEF PipeInv
  <2> QED
    BY <1>1, <1>6, <2>1, PicturesAreDated DEF PipeInv, Pictures, Decoded
<1> DEFINE F == Filed
           q == queue
           e == encoding
<1>8. InLine(F, q, e, D) /\ Line(F, q, e, D) = M
  BY <1>2, <1>6, <1>7, LineArrives
<1>9. PICK t \in Seq(Aligned), u \in Seq(Aligned) :
        t = Tail(D) /\ u = Append(encoding, Decoded(j)) /\ u # <<>>
  <2>1. Tail(D) \in Seq(Aligned)
    BY <1>7, HeadTailProperties
  <2>2. Append(encoding, Decoded(j)) \in Seq(Aligned) /\ Append(encoding, Decoded(j)) # <<>>
    BY <1>1, AppendProperties DEF PipeInv
  <2> QED
    BY <2>1, <2>2
<1>10. /\ InLine(F, q, e, t) /\ Line(F, q, e, t) \subseteq M
       /\ InLine(F, q, u, t) /\ Line(F, q, u, t) \subseteq M
  BY <1>7, <1>8, <1>9, LineDecodes
<1>11. Encoded(j) \in VideoPackets /\ Encoded(j).due = Head(u).due /\ Encoded(j).index = video_index
  <2>1. Encoded(j) = PacketOf(Head(u), video_index)
    BY <1>9 DEF Encoded
  <2>2. Head(u) \in Aligned
    BY <1>9, HeadTailProperties
  <2> QED
    BY <2>1, <2>2 DEF PacketOf, Packet, VideoPackets, PipeInv
<1>12. PICK p \in VideoPackets : p = Encoded(j)
  BY <1>11
<1>13. /\ InLine(F, q, Tail(u), t) /\ Line(F, q, Tail(u), t) \subseteq M
  <2>1. u \in Seq(Pictures) /\ q \in Seq(Pictures) /\ p \in Pictures /\ p.due = Head(u).due
    BY <1>11, <1>12, PicturesAreDated DEF Pictures, MuxerInv
  <2>2. InLine(F, q, Tail(u), t) /\ Line(F, q, Tail(u), t) \subseteq Line(F, q, u, t)
    BY <1>7, <1>9, <1>10, <2>1, LineEncodes
  <2> QED
    BY <1>10, <2>2
<1>14. CASE UNCHANGED <<decoding, encoding, muxerVars>>
  <2>1. UNCHANGED <<Filed, Written, queue>>
    BY <1>14, MuxerUnchanged DEF muxerVars
  <2>2. LineInv'
    BY <1>2, <1>3, <1>14, <2>1
  <2> QED
    BY <1>4, <1>5, <2>1, <2>2
<1>15. CASE decoding' = D /\ UNCHANGED <<encoding, muxerVars>>
  <2>1. UNCHANGED <<Filed, Written, queue>>
    BY <1>15, MuxerUnchanged DEF muxerVars
  <2>2. LineInv'
    BY <1>3, <1>8, <1>15, <2>1
  <2> QED
    BY <1>4, <1>5, <2>1, <2>2
<1>16. CASE decoding' = t /\ (encoding' = encoding \/ encoding' = u \/ encoding' = Tail(u))
            /\ UNCHANGED muxerVars
  <2>1. UNCHANGED <<Filed, Written, queue>>
    BY <1>16, MuxerUnchanged DEF muxerVars
  <2>2. LineInv'
    BY <1>3, <1>10, <1>13, <1>16, <2>1
  <2> QED
    BY <1>4, <1>5, <2>1, <2>2
<1>17. CASE decoding' = t /\ encoding' = Tail(u) /\ WriteInterleaved(Encoded(j))
  <2>1. WriteInterleaved(p) /\ p.due = Head(u).due /\ p.index = video_index
    BY <1>11, <1>12, <1>17
  <2>2. /\ InLine(Filed', queue', Tail(u), t)
        /\ Line(Filed', queue', Tail(u), t) \subseteq Line(Filed, queue, u, t)
        /\ Written' = Written \cup {p}
    BY <1>9, <1>10, <2>1, FirstIsWritten
  <2>3. LineInv'
    BY <1>3, <1>10, <1>17, <2>2
  <2> QED
    BY <1>4, <1>5, <2>1, <2>2, <2>3
<1> HIDE DEF F, q, e, L, M
<1>18. \/ UNCHANGED <<decoding, encoding, muxerVars>>
       \/ decoding' = D /\ UNCHANGED <<encoding, muxerVars>>
       \/ decoding' = t /\ (encoding' = encoding \/ encoding' = u \/ encoding' = Tail(u))
            /\ UNCHANGED muxerVars
       \/ decoding' = t /\ encoding' = Tail(u) /\ WriteInterleaved(Encoded(j))
  BY <1>6, <1>9, FlowMoves
<1> QED
  BY <1>14, <1>15, <1>16, <1>17, <1>18
(* So does the flush, which gives the pictures of a video that is not       *)
(* stream 0 the wrong index.                                                *)
LEMMA FlushInLine ==
  ASSUME MuxerInv, PipeInv, LineInv, StrayInv, VideoFlush
  PROVE  LineInv' /\ StrayInv'
<1>1. /\ stage = "flush" /\ stage' # "packets" /\ UNCHANGED <<video_index, decoding>>
      /\ \/ /\ encoding # <<>> /\ encoding' = Tail(encoding) /\ Flushed \in VideoPackets
            /\ UNCHANGED muxerVars \/ WriteInterleaved(Flushed)
         \/ encoding' = encoding /\ UNCHANGED muxerVars
  BY FlushMoves
<1>2. ASSUME InLine(Filed', queue', encoding', decoding) PROVE LineInv'
  <2>1. InLine(Filed, queue, encoding, decoding)' <=> InLine(Filed', queue', encoding', decoding')
    BY DEF InLine, Sorted, Precede, Dues, Filed, Items
  <2> QED
    BY <1>1, <1>2, <2>1 DEF LineInv
<1>3. Strayed' = Strayed
  BY <1>1 DEF Strayed, VideoPackets, Aligned, PacketOf, Packet, FrameOf, StampOf, Rescale
<1>4. InLine(Filed, queue, encoding, decoding)
  BY DEF LineInv
<1>5. Len(encoding) \in Nat /\ (encoding # <<>> => Len(Tail(encoding)) = Len(encoding) - 1)
  BY HeadTailProperties DEF PipeInv
<1>6. Among(Strayed, queue) \in Nat /\ Among(Strayed, file) \in Nat /\ EncoderHolds \in Nat
  BY AmongIsNat, HoldsAssumption DEF MuxerInv
<1>7. CASE encoding' = encoding /\ UNCHANGED muxerVars
  <2>1. Written' = Written /\ Filed' = Filed /\ UNCHANGED <<queue, file>>
    BY <1>7, MuxerUnchanged DEF muxerVars
  <2>2. Among(Strayed', queue') = Among(Strayed, queue) /\ Among(Strayed', file') = Among(Strayed, file)
    BY <1>3, <2>1
  <2>3. StrayInv'
    BY <1>1, <1>3, <1>7, <2>1, <2>2 DEF StrayInv, Among, Places
  <2> QED
    BY <1>2, <1>4, <1>7, <2>1, <2>3
<1>8. CASE /\ encoding # <<>> /\ encoding' = Tail(encoding) /\ Flushed \in VideoPackets
           /\ UNCHANGED muxerVars \/ WriteInterleaved(Flushed)
  <2>1. PICK p \in VideoPackets : p = Flushed
    BY <1>8
  <2>2. p.due = Head(encoding).due /\ p.index = 0 /\ p.from = "video"
    BY <2>1 DEF Flushed, PacketOf, Packet
  <2>3. CASE UNCHANGED muxerVars
    <3>1. Written' = Written /\ Filed' = Filed /\ UNCHANGED <<queue, file>>
      BY <2>3, MuxerUnchanged DEF muxerVars
    <3>2. /\ Dated(Pictures) /\ encoding \in Seq(Pictures) /\ queue \in Seq(Pictures) /\ p \in Pictures
      BY PicturesAreDated DEF Pictures, MuxerInv, PipeInv
    <3>3. InLine(Filed, queue, Tail(encoding), decoding)
      BY <1>4, <1>8, <2>2, <3>2, LineEncodes
    <3>4. LineInv'
      BY <1>2, <1>8, <3>1, <3>3
    <3>5. Among(Strayed', queue') = Among(Strayed, queue) /\ Among(Strayed', file') = Among(Strayed, file)
      BY <1>3, <3>1
    <3>6. stage' # "packets" /\ video_index' # 0
            => Among(Strayed', queue') + Among(Strayed', file') + Len(encoding') <= EncoderHolds
      BY <1>1, <1>5, <1>6, <1>8, <3>5 DEF StrayInv
    <3>7. StrayInv'
      BY <1>1, <1>3, <3>1, <3>6 DEF StrayInv, Among, Places
    <3> QED
      BY <3>4, <3>7
  <2>4. CASE WriteInterleaved(Flushed)
    <3>1. WriteInterleaved(p) /\ encoding \in Seq(Aligned)
      BY <2>1, <2>4 DEF PipeInv
    <3>2. PICK d : d = decoding
      OBVIOUS
    <3>3. InLine(Filed, queue, encoding, d)
      BY <1>4, <3>2
    <3>4. PICK e \in Seq(Aligned) : e = encoding
      BY <3>1
    <3>5. /\ InLine(Filed', queue', Tail(e), d)
          /\ Precede(Filed \cup Dues(queue), {p.due})
          /\ Written' = Written \cup {p}
          /\ \A C : Among(C, queue') + Among(C, file')
                      = Among(C, queue) + Among(C, file) + IF p \in C THEN 1 ELSE 0
      BY <1>8, <2>2, <3>1, <3>3, <3>4, FirstIsWritten
    <3>6. LineInv'
      BY <1>2, <1>8, <3>2, <3>4, <3>5
    <3>7. CASE video_index = 0
      <4>1. \A r \in Written' : r.from = "video" => r.index = video_index
        BY <2>2, <3>5, <3>7 DEF StrayInv
      <4>2. \A s \in Strayed : s.from = "video" /\ s.index # video_index
        BY VideoPacketFields DEF Strayed
      <4>3. StrayInv'
        BY <1>1, <1>3, <3>7, <4>1, <4>2 DEF StrayInv
      <4> QED
        BY <3>6, <4>3
    <3>8. CASE video_index # 0
      <4>1. p \in Strayed /\ p.index # video_index
        BY <2>2, <3>8 DEF Strayed
      <4>2. \A r \in Written : r.from = "video" => r.due <= p.due
        BY <3>5, WrittenFacts DEF Precede
      <4>3. \A r, s \in Written' :
              r.from = "video" /\ r.index = video_index /\ s \in Strayed => r.due <= s.due
        BY <3>5, <4>1, <4>2 DEF StrayInv
      <4>4. Among(Strayed, queue') + Among(Strayed, file') = Among(Strayed, queue) + Among(Strayed, file) + 1
        BY <3>5, <4>1
      <4>5. /\ Among(Strayed, queue) + Among(Strayed, file) + Len(encoding) <= EncoderHolds
            /\ Len(encoding') = Len(encoding) - 1
        BY <1>1, <1>5, <1>8, <3>8 DEF StrayInv
      <4>6. Among(Strayed, queue') + Among(Strayed, file') + Len(encoding') <= EncoderHolds
        BY <1>5, <1>6, <4>4, <4>5
      <4>7. StrayInv'
        BY <1>1, <1>3, <3>8, <4>3, <4>6 DEF StrayInv, Among, Places
      <4> QED
        BY <3>6, <4>7
    <3> QED
      BY <3>7, <3>8
  <2> QED
    BY <1>8, <2>3, <2>4
<1> QED
  BY <1>1, <1>7, <1>8

(* Audio is written past the queue, and changes nothing of this.            *)
LEMMA AudioInLine ==
  ASSUME MuxerInv, LineInv, StrayInv, UNCHANGED videoVars, queue' = queue,
         file' = file \/ \E p \in AudioPackets : file' = Append(file, p)
  PROVE  LineInv' /\ StrayInv'
<1>1. Filed' = Filed /\ Strayed' = Strayed
      /\ (\A r \in Written' : r.from = "video" => r \in Written)
      /\ Among(Strayed, file') = Among(Strayed, file)
  <2>1. Strayed' = Strayed /\ Strayed \cap AudioPackets = {}
    <3>1. Strayed' = Strayed
      BY DEF videoVars, Strayed, VideoPackets, Aligned, PacketOf, Packet, FrameOf, StampOf, Rescale
    <3> QED
      BY <3>1, VideoPacketFields DEF Strayed, AudioPackets
  <2>2. CASE file' = file
    BY <2>1, <2>2, MuxerUnchanged
  <2>3. ASSUME NEW p \in AudioPackets, file' = Append(file, p)
        PROVE  Filed' = Filed
               /\ (\A r \in Written' : r.from = "video" => r \in Written)
               /\ Among(Strayed, file') = Among(Strayed, file)
    <3>1. /\ Filed' = Filed /\ Written' = Written \cup {p} /\ p.from # "video"
          /\ Among(Strayed, file') = Among(Strayed, file)
      BY <2>1, <2>3, AudioWritten DEF AudioPackets
    <3> QED
      BY <3>1
  <2> QED
    BY <2>1, <2>2, <2>3
<1>2. LineInv'
  <2>1. InLine(Filed, queue, encoding, decoding)' <=> InLine(Filed', queue', encoding', decoding')
    BY DEF InLine, Sorted, Precede, Dues, Filed, Items
  <2> QED
    BY <1>1 DEF LineInv, videoVars, InLine, Line, Sorted, Precede, Dues
<1>3. StrayInv'
  <2>1. \A s \in Strayed : s.from = "video"
    BY VideoPacketFields DEF Strayed
  <2>2. \A r, s \in Written' :
          r.from = "video" /\ r.index = video_index /\ s \in Strayed => r.due <= s.due
    BY <1>1, <2>1 DEF StrayInv
  <2>3. stage = "packets" \/ video_index = 0
          => \A r \in Written' : r.from = "video" => r.index = video_index
    BY <1>1 DEF StrayInv
  <2>4. stage # "packets" /\ video_index # 0
          => Among(Strayed, queue') + Among(Strayed, file') + Len(encoding) <= EncoderHolds
    BY <1>1 DEF StrayInv
  <2> QED
    BY <1>1, <2>2, <2>3, <2>4 DEF StrayInv, videoVars, Among, Places
<1> QED
  BY <1>2, <1>3
LEMMA InLineNext ==
  ASSUME Orderly, MediaInv, Audio!AudioTypeOK, Audio!AudioTypeOK',
         LineInv, StrayInv, TrailerInv, [MediaNext]_mediaVars
  PROVE  LineInv' /\ StrayInv' /\ TrailerInv'
<1> USE DEF MediaInv
<1>1. ASSUME UNCHANGED <<muxerVars, videoVars>>
      PROVE  LineInv' /\ StrayInv'
  BY <1>1, AudioInLine DEF muxerVars
<1>2. ASSUME pc # "idle" \/ UNCHANGED queue, UNCHANGED trailer
      PROVE  TrailerInv'
  BY <1>2 DEF TrailerInv, Phase
<1>3. CASE InitTools \/ AudioPacket
  BY <1>1, <1>2, <1>3 DEF InitTools, AudioPacket, Delivers, Reading, Goto
<1>4. CASE Loop \/ StopProcess \/ CallWriteEnd \/ Drained \/ Finish \/ read_packet
  <2>1. UNCHANGED <<muxerVars, videoVars, trailer>>
    BY <1>4 DEF Loop, StopProcess, CallWriteEnd, Drained, Finish, read_packet, sinkVars
  <2> QED
    BY <1>1, <1>2, <2>1 DEF muxerVars
<1>5. CASE VideoPacket
  <2>1. PICK j \in Jitters : Flow(j)
    BY <1>5 DEF VideoPacket
  <2>2. LineInv' /\ StrayInv'
    BY <2>1, FlowInLine
  <2> QED
    BY <1>2, <1>5, <2>2 DEF VideoPacket, Delivers, Reading
<1>6. CASE AudioStep \/ FlushAudio
  <2>1. UNCHANGED <<videoVars, trailer>>
    BY <1>6 DEF AudioStep, FlushAudio
  <2>2. queue' = queue /\ (file' = file \/ \E p \in AudioPackets : file' = Append(file, p))
    BY <1>6, AudioIsWritten
  <2> QED
    BY <1>2, <2>1, <2>2, AudioInLine
<1>7. CASE LoopEnds
  <2>1. /\ stage = "packets" /\ stage' = "flush" /\ UNCHANGED <<video_index, decoding, encoding, muxerVars, trailer>>
        /\ pc # "idle"
    BY <1>7 DEF LoopEnds, VideoEnds, Goto
  <2>2. Filed' = Filed /\ Written' = Written /\ UNCHANGED <<queue, file>>
    BY <2>1, MuxerUnchanged DEF muxerVars
  <2>3. InLine(Filed, queue, encoding, decoding)' <=> InLine(Filed', queue', encoding', decoding')
    BY DEF InLine, Sorted, Precede, Dues, Filed, Items
  <2>4. LineInv'
    BY <2>1, <2>2, <2>3 DEF LineInv
  <2>5. Among(Strayed, queue) = 0 /\ Among(Strayed, file) = 0 /\ Len(encoding) <= EncoderHolds
        /\ Len(encoding) \in Nat
    BY <2>1, NoStrays DEF StrayInv, PipeInv
  <2>6. Strayed' = Strayed
    BY <2>1 DEF Strayed, VideoPackets, Aligned, PacketOf, Packet, FrameOf, StampOf, Rescale
  <2>7. Among(Strayed', queue') + Among(Strayed', file') + Len(encoding') <= EncoderHolds
    <3>1. Among(Strayed', queue') = 0 /\ Among(Strayed', file') = 0 /\ encoding' = encoding
      BY <2>1, <2>2, <2>5, <2>6
    <3> QED
      BY <2>5, <3>1
  <2>8. StrayInv'
    BY <2>1, <2>2, <2>6, <2>7 DEF StrayInv, Among, Places
  <2> QED
    BY <1>2, <2>1, <2>4, <2>8
<1>8. CASE FlushVideo
  BY <1>2, <1>8, FlushInLine DEF FlushVideo, VideoTurn
<1>9. CASE WriteEnd
  <2>1. /\ queue' = <<>> /\ Filed' = Filed \cup Dues(queue) /\ Written' = Written
        /\ \A C : Among(C, queue') + Among(C, file') = Among(C, queue) + Among(C, file)
    BY <1>9, TrailerWritten DEF WriteEnd
  <2>2. UNCHANGED videoVars /\ stage # "packets"
    BY <1>9 DEF WriteEnd, Goto, Phase
  <2>3. LineInv'
    <3>1. InLine(Filed', queue', encoding, decoding)
      <4>1. Dues(queue') = {} /\ Sorted(queue')
        BY <2>1 DEF Dues, Sorted
      <4> QED
        BY <2>1, <4>1 DEF LineInv, InLine, Precede
    <3>2. InLine(Filed, queue, encoding, decoding)' <=> InLine(Filed', queue', encoding', decoding')
      BY DEF InLine, Sorted, Precede, Dues, Filed, Items
    <3> QED
      BY <2>2, <3>1, <3>2 DEF LineInv, videoVars
  <2>4. StrayInv'
    <3>1. Strayed' = Strayed
      BY <2>2 DEF videoVars, Strayed, VideoPackets, Aligned, PacketOf, Packet, FrameOf, StampOf, Rescale
    <3>2. Among(Strayed, queue') + Among(Strayed, file') = Among(Strayed, queue) + Among(Strayed, file)
      BY <2>1
    <3>3. video_index # 0
            => Among(Strayed, queue') + Among(Strayed, file') + Len(encoding) <= EncoderHolds
      BY <2>2, <3>2 DEF StrayInv
    <3> QED
      BY <2>1, <2>2, <3>1, <3>3 DEF StrayInv, videoVars, Among, Places
  <2>5. TrailerInv'
    BY <2>1 DEF TrailerInv
  <2> QED
    BY <2>3, <2>4, <2>5
<1>10. CASE UNCHANGED mediaVars
  BY <1>1, <1>2, <1>10 DEF mediaVars, sinkVars, muxerVars
<1> QED
  BY <1>3, <1>4, <1>5, <1>6, <1>7, <1>8, <1>9, <1>10 DEF MediaNext, ProcessNext

LEMMA InLineInvariant ==
  ASSUME Orderly
  PROVE  MediaSpec => [](MediaInv /\ LineInv /\ StrayInv /\ TrailerInv)
<1>1. MediaInit => LineInv /\ StrayInv /\ TrailerInv
  <2> SUFFICES ASSUME MediaInit PROVE LineInv /\ StrayInv /\ TrailerInv
    OBVIOUS
  <2>1. /\ queue = <<>> /\ file = <<>> /\ encoding = <<>> /\ decoding = <<>>
        /\ stage = "packets" /\ ~trailer
    BY DEF MediaInit, MuxerInit, VideoInit
  <2>2. Filed = {} /\ Written = {} /\ Dues(<<>>) = {} /\ Sorted(<<>>)
    BY <2>1 DEF Filed, Written, Items, Dues, Sorted
  <2>3. LineInv
    BY <2>1, <2>2 DEF LineInv, InLine, Line, Precede
  <2> QED
    BY <2>1, <2>2, <2>3 DEF StrayInv, TrailerInv
<1>2. MediaInv /\ Audio!AudioTypeOK /\ Audio!AudioTypeOK' /\ LineInv /\ StrayInv /\ TrailerInv
      /\ [MediaNext]_mediaVars => LineInv' /\ StrayInv' /\ TrailerInv'
  BY InLineNext
<1> QED
  BY <1>1, <1>2, MediaInvariant, PTL DEF MediaSpec

(* A file without its trailer lacks the end of the video, and nothing else: *)
(* what waits in the queue is not before any video in the file, and spans   *)
(* the muxer's limit at most; the trailer leaves nothing in the queue.      *)
THEOREM OnlyTailMissing == Orderly => (MediaSpec => []MissingTail)
<1> SUFFICES ASSUME Orderly PROVE MediaSpec => []MissingTail
  OBVIOUS
<1>1. MediaInv /\ LineInv /\ TrailerInv => MissingTail
  <2> SUFFICES ASSUME MediaInv, LineInv, TrailerInv PROVE MissingTail
    OBVIOUS
  <2>1. queue \in Seq(VideoPackets) /\ file \in Seq(VideoPackets \cup AudioPackets) /\ Waits(queue)
    BY DEF MediaInv, MuxerInv
  <2>2. ASSUME NEW n \in DOMAIN queue
        PROVE  /\ queue[n].from = "video"
               /\ \A m \in DOMAIN file : file[m].from = "video" => file[m].stamp <= queue[n].stamp
    <3>1. queue[n] \in VideoPackets /\ queue[n].from = "video" /\ queue[n].due \in Dues(queue)
      BY <2>1, VideoPacketFields DEF Dues
    <3>2. ASSUME NEW m \in DOMAIN file, file[m].from = "video"
          PROVE  file[m].stamp <= queue[n].stamp
      <4>1. file[m] \in VideoPackets /\ file[m].due \in Filed
        BY <2>1, <3>2 DEF AudioPackets, Filed, Items
      <4>2. file[m].due <= queue[n].due
        BY <3>1, <4>1 DEF LineInv, InLine, Precede
      <4> QED
        BY <3>1, <4>1, <4>2, StampGrows
    <3> QED
      BY <3>1, <3>2
  <2> QED
    BY <2>1, <2>2 DEF Waits, TrailerInv, MissingTail
<1> QED
  BY <1>1, InLineInvariant, PTL

(* FlushEncoder gives the packets that the encoder still holds the index 0: *)
(* they are the only ones in a wrong stream, no more than the encoder holds,*)
(* and the last of the video.                                               *)
THEOREM OnlyDelayedStray == Orderly => (MediaSpec => []StraysAreDelayed)
<1> SUFFICES ASSUME Orderly PROVE MediaSpec => []StraysAreDelayed
  OBVIOUS
<1>1. MediaInv /\ StrayInv => StraysAreDelayed
  <2> SUFFICES ASSUME MediaInv, StrayInv PROVE StraysAreDelayed
    OBVIOUS
  <2> DEFINE S == VideoPackets \cup AudioPackets
  <2>1. queue \in Seq(S) /\ file \in Seq(S) /\ MuxerInv
    BY SeqMonotonic DEF MediaInv, MuxerInv
  <2>2. Sent \in Seq(S) /\ Items(Sent) = Written
        /\ Among(Strayed, Sent) = Among(Strayed, queue) + Among(Strayed, file)
    BY <2>1, ConcatProperties, ItemsConcat, AmongConcat DEF Sent, Written
  <2>3. \A n \in Shown : Sent[n] \in Written /\ Sent[n].from = "video" /\ Sent[n] \in VideoPackets
    <3>1. \A n \in Shown : Sent[n] \in Items(Sent) /\ Sent[n].from = "video"
      BY DEF Shown, Items
    <3> QED
      BY <2>1, <2>2, <3>1, WrittenFacts
  <2>4. Strays = Places(Strayed, Sent)
    BY <2>3, VideoPacketFields DEF Strays, Shown, Strayed, Places
  <2>5. Cardinality(Strays) = Among(Strayed, queue) + Among(Strayed, file)
    BY <2>2, <2>4 DEF Among
  <2>6. stage = "packets" \/ video_index = 0 => Strays = {} /\ Cardinality(Strays) = 0
    BY <2>3, FS_EmptySet DEF StrayInv, Strays
  <2>7. Cardinality(Strays) <= EncoderHolds
    <3>1. CASE stage = "packets" \/ video_index = 0
      BY <2>6, <3>1, HoldsAssumption
    <3>2. CASE stage # "packets" /\ video_index # 0
      <4>1. /\ Among(Strayed, queue) \in Nat /\ Among(Strayed, file) \in Nat
            /\ Len(encoding) \in Nat /\ EncoderHolds \in Nat
        BY <2>1, AmongIsNat, HoldsAssumption DEF MediaInv, PipeInv
      <4> QED
        BY <2>5, <3>2, <4>1 DEF StrayInv
    <3> QED
      BY <3>1, <3>2
  <2>8. ASSUME NEW s \in Strays, NEW n \in Shown \ Strays
        PROVE  Sent[n].stamp <= Sent[s].stamp
    <3>1. /\ Sent[n] \in Written /\ Sent[n].from = "video" /\ Sent[n].index = video_index
          /\ Sent[s] \in Written /\ Sent[s] \in Strayed
          /\ Sent[n] \in VideoPackets /\ Sent[s] \in VideoPackets
      BY <2>3 DEF Strays, Strayed
    <3>2. Sent[n].due <= Sent[s].due
      BY <3>1 DEF StrayInv
    <3> QED
      BY <3>1, <3>2, StampGrows
  <2> QED
    BY <2>6, <2>7, <2>8 DEF StraysAreDelayed
<1> QED
  BY <1>1, InLineInvariant, PTL
-----------------------------------------------------------------------------
(***************************************************************************)
(* Stamps as accounts: of the pictures in the codecs those with a stamp    *)
(* that the muxer has not passed are still to come, one for each stamp.    *)
(***************************************************************************)
Beyond(B, l) == {t \in B : t > l}

LEMMA BeyondIsFinite ==
  ASSUME NEW B, IsFiniteSet(B), NEW l
  PROVE  /\ IsFiniteSet(Beyond(B, l)) /\ Cardinality(Beyond(B, l)) \in Nat
         /\ Cardinality(B) \in Nat /\ Cardinality(Beyond(B, l)) <= Cardinality(B)
<1>1. Beyond(B, l) \subseteq B
  BY DEF Beyond
<1>2. IsFiniteSet(Beyond(B, l)) /\ Cardinality(Beyond(B, l)) <= Cardinality(B)
  BY <1>1, FS_Subset
<1> QED
  BY <1>2, FS_CardinalityType

(* A stamp is added: there is one more, if it is new and not passed.        *)
LEMMA BeyondAdds ==
  ASSUME NEW B \in SUBSET Int, IsFiniteSet(B), NEW l \in Int, NEW s \in Int
  PROVE  /\ IsFiniteSet(B \cup {s})
         /\ Beyond(B \cup {s}, l) \subseteq Beyond(B, l) \cup {s}
         /\ s > l /\ s \notin B => Cardinality(Beyond(B \cup {s}, l)) = Cardinality(Beyond(B, l)) + 1
         /\ ~(s > l /\ s \notin B) => Beyond(B \cup {s}, l) = Beyond(B, l)
<1>1. IsFiniteSet(B \cup {s})
  BY FS_AddElement
<1>2. ASSUME s > l, s \notin B
      PROVE  Cardinality(Beyond(B \cup {s}, l)) = Cardinality(Beyond(B, l)) + 1
  <2>1. Beyond(B \cup {s}, l) = Beyond(B, l) \cup {s} /\ s \notin Beyond(B, l)
    BY <1>2 DEF Beyond
  <2> QED
    BY <2>1, BeyondIsFinite, FS_AddElement
<1>3. ~(s > l /\ s \notin B) => Beyond(B \cup {s}, l) = Beyond(B, l)
  BY DEF Beyond
<1> QED
  BY <1>1, <1>2, <1>3 DEF Beyond

(* A stamp is given up: there is one less at most, ...                      *)
LEMMA OneLess ==
  ASSUME NEW F, NEW D, IsFiniteSet(F), IsFiniteSet(D), NEW y, F \subseteq D \cup {y}
  PROVE  Cardinality(F) <= Cardinality(D) + 1
<1>1. Cardinality(D) \in Nat /\ Cardinality(F) \in Nat
  BY FS_CardinalityType
<1>2. IsFiniteSet(D \cup {y}) /\ Cardinality(D \cup {y}) <= Cardinality(D) + 1
  <2>1. IsFiniteSet(D \cup {y})
        /\ Cardinality(D \cup {y}) = IF y \in D THEN Cardinality(D) ELSE Cardinality(D) + 1
    BY FS_AddElement
  <2> QED
    BY <1>1, <2>1
<1>3. Cardinality(F) <= Cardinality(D \cup {y}) /\ Cardinality(D \cup {y}) \in Nat
  BY <1>2, FS_Subset, FS_CardinalityType
<1> QED
  BY <1>1, <1>2, <1>3

LEMMA BeyondLoses ==
  ASSUME NEW B \in SUBSET Int, IsFiniteSet(B), NEW l \in Int, NEW y \in Int,
         NEW C \in SUBSET B, B \ {y} \subseteq C
  PROVE  /\ IsFiniteSet(C) /\ Beyond(C, l) \subseteq Beyond(B, l)
         /\ Cardinality(Beyond(B, l)) <= Cardinality(Beyond(C, l)) + 1
<1>1. IsFiniteSet(C)
  BY FS_Subset
<1>2. Beyond(C, l) \subseteq Beyond(B, l) /\ Beyond(B, l) \subseteq Beyond(C, l) \cup {y}
  BY DEF Beyond
<1>3. Cardinality(Beyond(B, l)) <= Cardinality(Beyond(C, l)) + 1
  BY <1>1, <1>2, BeyondIsFinite, OneLess
<1> QED
  BY <1>1, <1>2, <1>3

(* ... none less when it has been passed; ...                               *)
LEMMA BeyondKeeps ==
  ASSUME NEW B \in SUBSET Int, NEW l \in Int, NEW y \in Int, y <= l,
         NEW C \in SUBSET B, B \ {y} \subseteq C
  PROVE  Beyond(C, l) = Beyond(B, l)
<1>1. ASSUME NEW t \in Beyond(B, l) PROVE t \in Beyond(C, l)
  <2>1. t \in Int /\ t \in B /\ t > l /\ t # y
    BY DEF Beyond
  <2> QED
    BY <2>1 DEF Beyond
<1> QED
  BY <1>1 DEF Beyond

(* ... and if it is the first of those to come, and passed by being         *)
(* written, the others have not been passed.                                *)
LEMMA BeyondLosesFirst ==
  ASSUME NEW B \in SUBSET Int, IsFiniteSet(B), NEW l \in Int, NEW y \in Int,
         NEW C \in SUBSET B, B \ {y} \subseteq C,
         y \in B, y > l, \A t \in B : y <= t
  PROVE  /\ IsFiniteSet(C) /\ Beyond(C, y) \cup {y} \subseteq Beyond(B, l)
         /\ Cardinality(Beyond(B, l)) <= Cardinality(Beyond(C, y)) + 1
<1>1. IsFiniteSet(C)
  BY FS_Subset
<1>2. Beyond(C, y) \cup {y} \subseteq Beyond(B, l) /\ Beyond(B, l) \subseteq Beyond(C, y) \cup {y}
  <2>1. ASSUME NEW t \in Beyond(C, y) PROVE t \in Beyond(B, l)
    <3>1. t \in Int /\ t \in B /\ t > l
      BY DEF Beyond
    <3> QED
      BY <3>1 DEF Beyond
  <2>2. ASSUME NEW t \in Beyond(B, l), t # y PROVE t \in Beyond(C, y)
    <3>1. t \in Int /\ t \in C /\ t > y
      BY <2>2 DEF Beyond
    <3> QED
      BY <3>1 DEF Beyond
  <2>3. y \in Beyond(B, l)
    BY DEF Beyond
  <2> QED
    BY <2>1, <2>2, <2>3
<1>3. Cardinality(Beyond(B, l)) <= Cardinality(Beyond(C, y)) + 1
  BY <1>1, <1>2, BeyondIsFinite, OneLess
<1> QED
  BY <1>1, <1>2, <1>3

(* The stamps of the pictures in the codecs.                                *)
Coming(e, d) == {StampOf(x.frame) : x \in Items(e) \cup Items(d)}

LEMMA ItemsTail ==
  ASSUME NEW S, NEW s \in Seq(S), s # <<>>
  PROVE  Items(s) = Items(Tail(s)) \cup {Head(s)}
<1>1. Len(s) \in Nat /\ Len(s) > 0
  BY EmptySeq
<1>2. SubSeq(s, 1, Len(s)) = <<s[1]>> \o SubSeq(s, 1 + 1, Len(s))
  BY <1>1, SubSeqRecursiveFirst
<1>3. Tail(s) = SubSeq(s, 2, Len(s)) /\ Tail(s) \in Seq(S)
  BY TailIsSubSeq, HeadTailProperties
<1>4. Head(s) = s[1] /\ Head(s) \in S
  BY <1>1, HeadTailProperties
<1> DEFINE h == <<Head(s)>>
<1>5. s = h \o Tail(s) /\ h \in Seq(S)
  BY <1>2, <1>3, <1>4, SubSeqFull
<1>6. Items(h) = {Head(s)}
  BY DEF Items
<1> HIDE DEF h
<1>7. Items(h \o Tail(s)) = Items(h) \cup Items(Tail(s))
  <2>1. \A t \in Seq(S) : Items(h \o t) = Items(h) \cup Items(t)
    BY <1>5, ItemsConcat
  <2> QED
    BY <1>3, <2>1
<1> QED
  BY <1>5, <1>6, <1>7, Zenon

LEMMA ItemsAreFinite ==
  ASSUME NEW S, NEW s \in Seq(S)
  PROVE  IsFiniteSet(Items(s)) /\ Cardinality(Items(s)) \in Nat /\ Cardinality(Items(s)) <= Len(s)
         /\ Len(s) \in Nat
<1>1. Len(s) \in Nat /\ DOMAIN s = 1..Len(s)
  BY LenProperties
<1>2. IsFiniteSet(1..Len(s)) /\ Cardinality(1..Len(s)) = Len(s)
  <2>1. IsFiniteSet(1..Len(s)) /\ Cardinality(1..Len(s)) = IF 1 > Len(s) THEN 0 ELSE Len(s) - 1 + 1
    BY <1>1, FS_Interval
  <2> QED
    BY <1>1, <2>1
<1>3. s \in Surjection(1..Len(s), Items(s))
  <2>1. s = [n \in 1..Len(s) |-> s[n]]
    BY <1>1, SeqDef
  <2>2. \A n \in 1..Len(s) : s[n] \in Items(s)
    BY <1>1 DEF Items
  <2>3. s \in [1..Len(s) -> Items(s)]
    BY <2>1, <2>2
  <2>4. \A x \in Items(s) : \E n \in 1..Len(s) : s[n] = x
    BY <1>1 DEF Items
  <2> QED
    BY <2>3, <2>4 DEF Surjection
<1>4. IsFiniteSet(Items(s)) /\ Cardinality(Items(s)) <= Len(s)
  BY <1>2, <1>3, FS_Surjection
<1> QED
  BY <1>1, <1>4, FS_CardinalityType

LEMMA ComingIsFinite ==
  ASSUME NEW e \in Seq(Aligned), NEW d \in Seq(Aligned)
  PROVE  /\ Coming(e, d) \in SUBSET Int /\ IsFiniteSet(Coming(e, d))
         /\ Cardinality(Coming(e, d)) \in Nat /\ Cardinality(Coming(e, d)) <= Len(e) + Len(d)
<1> DEFINE A == Items(e)
           B == Items(d)
           X == A \cup B
           f == [x \in X |-> StampOf(x.frame)]
<1>1. /\ IsFiniteSet(A) /\ Cardinality(A) \in Nat /\ Cardinality(A) <= Len(e) /\ Len(e) \in Nat
      /\ IsFiniteSet(B) /\ Cardinality(B) \in Nat /\ Cardinality(B) <= Len(d) /\ Len(d) \in Nat
  BY ItemsAreFinite
<1>2. A \subseteq Aligned /\ B \subseteq Aligned
  BY ItemsConcat
<1>3. Coming(e, d) = {f[x] : x \in X}
  BY DEF Coming
<1>4. Coming(e, d) \in SUBSET Int
  BY <1>2, AlignedFields DEF Coming
<1> HIDE DEF A, B
<1>5. IsFiniteSet(X) /\ Cardinality(X) = Cardinality(A) + Cardinality(B) - Cardinality(A \cap B)
  BY <1>1, FS_Union
<1>6. Cardinality(A \cap B) \in Nat
  <2>1. IsFiniteSet(A \cap B)
    BY <1>1, FS_Intersection
  <2> QED
    BY <2>1, FS_CardinalityType
<1>7. f \in Surjection(X, Coming(e, d))
  BY <1>3 DEF Surjection
<1> HIDE DEF X, f
<1>8. IsFiniteSet(Coming(e, d)) /\ Cardinality(Coming(e, d)) <= Cardinality(X)
  BY <1>5, <1>7, FS_Surjection
<1>9. Cardinality(Coming(e, d)) \in Nat /\ Cardinality(X) \in Nat
  BY <1>5, <1>8, FS_CardinalityType
<1> QED
  BY <1>1, <1>4, <1>5, <1>6, <1>8, <1>9

(* A picture's stamp comes with it,                                         *)
LEMMA ComingArrives ==
  ASSUME NEW e \in Seq(Aligned), NEW d \in Seq(Aligned), NEW x \in Aligned
  PROVE  Coming(e, Append(d, x)) = Coming(e, d) \cup {StampOf(x.frame)}
<1>1. Items(Append(d, x)) = Items(d) \cup {x}
  BY ItemsAppend
<1> QED
  BY <1>1 DEF Coming

(* stays when it is decoded, and goes when it is dropped,                   *)
LEMMA ComingDecodes ==
  ASSUME NEW e \in Seq(Aligned), NEW d \in Seq(Aligned), d # <<>>
  PROVE  /\ Coming(Append(e, Head(d)), Tail(d)) = Coming(e, d)
         /\ Coming(e, Tail(d)) \subseteq Coming(e, d)
         /\ Coming(e, d) \ {StampOf(Head(d).frame)} \subseteq Coming(e, Tail(d))
<1>1. Items(d) = Items(Tail(d)) \cup {Head(d)}
  BY ItemsTail
<1>2. Head(d) \in Aligned
  BY HeadTailProperties
<1>3. Items(Append(e, Head(d))) = Items(e) \cup {Head(d)}
  BY <1>2, ItemsAppend
<1> QED
  BY <1>1, <1>3 DEF Coming

(* or when it is encoded.                                                   *)
LEMMA ComingEncodes ==
  ASSUME NEW e \in Seq(Aligned), NEW d \in Seq(Aligned), e # <<>>
  PROVE  /\ StampOf(Head(e).frame) \in Coming(e, d)
         /\ Coming(Tail(e), d) \subseteq Coming(e, d)
         /\ Coming(e, d) \ {StampOf(Head(e).frame)} \subseteq Coming(Tail(e), d)
<1>1. Items(e) = Items(Tail(e)) \cup {Head(e)}
  BY ItemsTail
<1> QED
  BY <1>1 DEF Coming

-----------------------------------------------------------------------------
(***************************************************************************)
(* The account of pictures.  A picture is held when the muxer has been     *)
(* given it, or when its stamp is still to come; or it is owed to one of   *)
(* the troubles, or to the codec that is left behind in the flush.  While  *)
(* packets come, a place whose stamp is taken already is owed beforehand.  *)
(***************************************************************************)
Given == Among(VideoPackets, queue) + Among(VideoPackets, file)
Fresh == Beyond(Coming(encoding, decoding), latest[video_index])

Overtaken(n, F, l) == \E t \in F \cup {l} : StampOf(n) <= t
Owed(n, F, l)      == n + IF Overtaken(n, F, l) THEN 1 ELSE 0

Slack == IF video_index = 0 THEN 0 ELSE EncoderHolds - Len(encoding)

AccountInv ==
  /\ Len(encoding) + Len(decoding) + Given <= pictures
  /\ stage = "packets" =>
       /\ Owed(pictures, Fresh, latest[video_index]) <= Given + Cardinality(Fresh) + troubles
       /\ \/ latest[video_index] = -1
          \/ \E v \in Filed \cup Dues(queue) : latest[video_index] = StampOf(FrameOf(v))
  /\ stage # "packets" => pictures <= Given + Cardinality(Fresh) + troubles + Slack
  /\ stage = "done" /\ troubles = 0 => encoding = <<>>

LEMMA AccountNextIs ==
  /\ Given' = Among(VideoPackets, queue') + Among(VideoPackets, file')
  /\ Fresh' = Beyond(Coming(encoding', decoding'), latest'[video_index'])
  /\ Slack' = IF video_index' = 0 THEN 0 ELSE EncoderHolds - Len(encoding')
  /\ AccountInv' <=>
       /\ Len(encoding') + Len(decoding') + Given' <= pictures'
       /\ stage' = "packets" =>
            /\ Owed(pictures', Fresh', latest'[video_index']) <= Given' + Cardinality(Fresh') + troubles'
            /\ \/ latest'[video_index'] = -1
               \/ \E v \in Filed' \cup Dues(queue') : latest'[video_index'] = StampOf(FrameOf(v))
       /\ stage' # "packets" => pictures' <= Given' + Cardinality(Fresh') + troubles' + Slack'
       /\ stage' = "done" /\ troubles' = 0 => encoding' = <<>>
<1>1. Given' = Among(VideoPackets, queue') + Among(VideoPackets, file')
  BY DEF Given, Among, Places
<1>2. Fresh' = Beyond(Coming(encoding', decoding'), latest'[video_index'])
  BY DEF Fresh, Beyond, Coming, Items, StampOf, Rescale
<1>3. Slack' = IF video_index' = 0 THEN 0 ELSE EncoderHolds - Len(encoding')
  BY DEF Slack
<1>4. AccountInv' <=>
        /\ Len(encoding') + Len(decoding') + Given' <= pictures'
        /\ stage' = "packets" =>
             /\ Owed(pictures', Fresh', latest'[video_index']) <= Given' + Cardinality(Fresh') + troubles'
             /\ \/ latest'[video_index'] = -1
                \/ \E v \in Filed' \cup Dues(queue') : latest'[video_index'] = StampOf(FrameOf(v))
        /\ stage' # "packets" => pictures' <= Given' + Cardinality(Fresh') + troubles' + Slack'
        /\ stage' = "done" /\ troubles' = 0 => encoding' = <<>>
  BY DEF AccountInv, Owed, Overtaken, Dues, StampOf, FrameOf, Rescale
<1> QED
  BY <1>1, <1>2, <1>3, <1>4

LEMMA AccountTypes ==
  ASSUME MuxerInv, PipeInv
  PROVE  /\ Given \in Nat /\ pictures \in Nat /\ troubles \in Nat /\ latest[video_index] \in Int
         /\ Coming(encoding, decoding) \in SUBSET Int /\ IsFiniteSet(Coming(encoding, decoding))
         /\ IsFiniteSet(Fresh) /\ Cardinality(Fresh) \in Nat
         /\ Cardinality(Fresh) <= Len(encoding) + Len(decoding)
         /\ Len(encoding) \in Nat /\ Len(decoding) \in Nat /\ EncoderHolds \in Nat /\ DecoderHolds \in Nat
<1>1. Given \in Nat
  <2>1. Among(VideoPackets, queue) \in Nat /\ Among(VideoPackets, file) \in Nat
    BY AmongIsNat DEF MuxerInv
  <2> QED
    BY <2>1 DEF Given
<1>2. /\ Coming(encoding, decoding) \in SUBSET Int /\ IsFiniteSet(Coming(encoding, decoding))
      /\ Cardinality(Coming(encoding, decoding)) <= Len(encoding) + Len(decoding)
  BY ComingIsFinite DEF PipeInv
<1>3. /\ IsFiniteSet(Fresh) /\ Cardinality(Fresh) \in Nat /\ Cardinality(Coming(encoding, decoding)) \in Nat
      /\ Cardinality(Fresh) <= Cardinality(Coming(encoding, decoding))
  BY <1>2, BeyondIsFinite DEF Fresh
<1>4. Len(encoding) \in Nat /\ Len(decoding) \in Nat
  BY DEF PipeInv
<1> QED
  BY <1>1, <1>2, <1>3, <1>4, HoldsAssumption DEF PipeInv, MuxerInv

LEMMA OwedShrinks ==
  ASSUME NEW n \in Nat, NEW F, NEW l, NEW G, NEW k, G \cup {k} \subseteq F \cup {l}
  PROVE  Owed(n, G, k) \in Nat /\ Owed(n, F, l) \in Nat /\ Owed(n, G, k) <= Owed(n, F, l)
<1>1. Overtaken(n, G, k) => Overtaken(n, F, l)
  BY DEF Overtaken
<1> QED
  BY <1>1 DEF Owed

(* The stamp of a place is before that of the next.                         *)
LEMMA PlacesTick ==
  ASSUME Ticking, NEW n \in Nat
  PROVE  StampOf(n) \in Nat /\ StampOf(n + 1) \in Nat /\ StampOf(n) < StampOf(n + 1)
<1>1. StampOf(n) \in Nat /\ StampOf(n + 1) \in Nat
  <2>1. \A m \in Nat : StampOf(m) \in Nat
    BY RescaleOfNat, PictureAssumption DEF StampOf
  <2>2. n + 1 \in Nat
    OBVIOUS
  <2> QED
    BY <2>1, <2>2
<1>2. 1 <= Num \div Den
  BY QuotientAtLeast, PictureAssumption DEF Ticking
<1>3. Num \div Den \in Nat /\ StampOf(n) + Num \div Den <= StampOf(n + 1)
  BY RescaleSteps, PictureAssumption DEF StampOf
<1> QED
  BY <1>1, <1>2, <1>3

(* A picture that is due not before another has not an earlier stamp.       *)
LEMMA StampsInLine ==
  ASSUME NEW t \in Int, NEW u \in Int, t <= u
  PROVE  StampOf(FrameOf(t)) <= StampOf(FrameOf(u))
<1>1. FrameOf(t) <= FrameOf(u) /\ FrameOf(t) \in Int /\ FrameOf(u) \in Int
  BY RescaleGrows, RescaledIsInt, PictureAssumption DEF FrameOf
<1> QED
  BY <1>1, RescaleGrows, PictureAssumption DEF StampOf

LEMMA ComingInLine ==
  ASSUME NEW e \in Seq(Aligned), NEW d \in Seq(Aligned), NEW t \in Coming(e, d)
  PROVE  \E v \in Dues(e) \cup Dues(d) : v \in Int /\ t = StampOf(FrameOf(v))
<1>1. PICK x \in Items(e) \cup Items(d) : t = StampOf(x.frame)
  BY DEF Coming
<1>2. x \in Aligned
  BY <1>1, ItemsConcat
<1>3. x.due \in Dues(e) \cup Dues(d)
  BY <1>1, ItemsDues
<1>4. x.due \in Int /\ t = StampOf(FrameOf(x.due))
  BY <1>1, <1>2, AlignedFields
<1> QED
  BY <1>3, <1>4

(* The next packet: a picture in its place has a stamp that is new, or was  *)
(* owed; one that counts as another picture is one of the troubles.         *)
LEMMA ArrivalIsOwed ==
  ASSUME Orderly, Ticking, MuxerInv, PipeInv, LineInv, AccountInv, stage = "packets", NEW j \in Jitters
  PROVE  LET B == Coming(encoding, Append(decoding, Arrival(j)))
             l == latest[video_index]
         IN  /\ B \in SUBSET Int /\ IsFiniteSet(B) /\ StampOf(Arrival(j).frame) \in Int
             /\ Coming(encoding, decoding) \subseteq B
             /\ B \ {StampOf(Arrival(j).frame)} \subseteq Coming(encoding, decoding)
             /\ Owed(pictures + 1, Beyond(B, l), l)
                  <= Given + Cardinality(Beyond(B, l)) + troubles + IF Rough(j) THEN 1 ELSE 0
<1> DEFINE x == Arrival(j)
           s == StampOf(x.frame)
           l == latest[video_index]
           A == Coming(encoding, decoding)
           B == Coming(encoding, Append(decoding, x))
           F == Beyond(A, l)
           G == Beyond(B, l)
           c == Cardinality(F)
           g == Cardinality(G)
           N == Given + troubles
<1>1. x \in Aligned /\ s \in Int /\ x.due \in Int /\ x.frame = FrameOf(x.due)
  BY ArrivalIsAligned, AlignedFields
<1>2. encoding \in Seq(Aligned) /\ decoding \in Seq(Aligned) /\ B = A \cup {s}
  <2>1. encoding \in Seq(Aligned) /\ decoding \in Seq(Aligned) /\ x \in Aligned
    BY <1>1 DEF PipeInv
  <2> HIDE DEF x
  <2>2. B = A \cup {s}
    BY <2>1, ComingArrives
  <2> QED
    BY <2>1, <2>2
<1>3. A \in SUBSET Int /\ IsFiniteSet(A) /\ l \in Int /\ c \in Nat /\ N \in Nat /\ F = Fresh
  BY AccountTypes DEF Fresh
<1>4. /\ IsFiniteSet(B) /\ G \subseteq F \cup {s}
      /\ s > l /\ s \notin A => g = c + 1
      /\ ~(s > l /\ s \notin A) => G = F
  <2> HIDE DEF s, l, A
  <2>1. A \in SUBSET Int /\ IsFiniteSet(A) /\ l \in Int /\ s \in Int /\ B = A \cup {s}
    BY <1>1, <1>2, <1>3
  <2> HIDE DEF B
  <2> QED
    BY <2>1, BeyondAdds
<1>5. Owed(pictures, F, l) <= N + c /\ pictures \in Nat
  <2>1. Owed(pictures, F, l) <= Given + c + troubles /\ pictures \in Nat
    BY <1>3 DEF AccountInv, PipeInv
  <2>2. Given \in Nat /\ troubles \in Nat
    BY AccountTypes
  <2> QED
    BY <1>3, <2>1, <2>2
<1>6. /\ StampOf(pictures) \in Nat /\ StampOf(pictures + 1) \in Nat
      /\ StampOf(pictures) < StampOf(pictures + 1)
  BY <1>5, PlacesTick
<1>7. ASSUME NEW t \in F \cup {l} PROVE t \in Int /\ (~Rough(j) => t <= s)
  <2>1. t \in Int
    BY <1>3 DEF Beyond
  <2>2. ASSUME ~Rough(j), t = -1 PROVE t <= s
    <3>1. s = StampOf(pictures)
      BY <2>2 DEF Rough
    <3> QED
      BY <1>6, <2>2, <3>1
  <2>3. ASSUME NEW v \in Line(Filed, queue, encoding, decoding), t = StampOf(FrameOf(v))
        PROVE  t <= s
    <3>1. v \in Int /\ v <= x.due
      <4>1. Precede(Line(Filed, queue, encoding, decoding), {x.due})
        BY ArrivesLast, LineIsInt DEF LineInv
      <4> QED
        BY <4>1, LineIsInt DEF Precede
    <3> QED
      BY <1>1, <2>3, <3>1, StampsInLine
  <2>4. t = -1 \/ \E v \in Line(Filed, queue, encoding, decoding) : t = StampOf(FrameOf(v))
    <3>1. CASE t \in F
      <4>1. t \in A
        BY <3>1 DEF Beyond
      <4> QED
        BY <1>2, <4>1, ComingInLine DEF Line
    <3>2. CASE t = l
      BY <3>2 DEF AccountInv, Line
    <3> QED
      BY <3>1, <3>2
  <2> QED
    BY <2>1, <2>2, <2>3, <2>4
<1> DEFINE n == pictures
           r == IF Rough(j) THEN 1 ELSE 0
<1>8. Owed(n + 1, G, l) <= N + g + r
  <2>1. g \in Nat /\ n \in Nat
    BY <1>4, <1>5, BeyondIsFinite
  <2>2. /\ Owed(n, F, l) = n + (IF Overtaken(n, F, l) THEN 1 ELSE 0)
        /\ Owed(n + 1, G, l) = (n + 1) + (IF Overtaken(n + 1, G, l) THEN 1 ELSE 0)
    BY DEF Owed
  <2>3. CASE Rough(j)
    <3>1. CASE s > l /\ s \notin A
      BY <1>3, <1>4, <1>5, <2>1, <2>2, <2>3, <3>1
    <3>2. CASE ~(s > l /\ s \notin A)
      <4>1. G = F /\ g = c
        BY <1>4, <3>2
      <4>2. Overtaken(n + 1, G, l) => Overtaken(n, F, l)
        <5> SUFFICES ASSUME NEW t \in F \cup {l}, StampOf(n + 1) <= t PROVE StampOf(n) <= t
          BY <4>1 DEF Overtaken
        <5> QED
          BY <1>6, <1>7
      <4> QED
        BY <1>3, <1>5, <2>1, <2>2, <2>3, <4>1, <4>2
    <3> QED
      BY <3>1, <3>2
  <2>4. CASE ~Rough(j)
    <3>1. s = StampOf(n)
      BY <2>4 DEF Rough
    <3>2. ~Overtaken(n + 1, G, l)
      <4>1. ASSUME NEW t \in G \cup {l}, StampOf(n + 1) <= t PROVE FALSE
        <5>1. t \in F \cup {l} \/ t = s
          BY <1>4
        <5>2. t \in Int /\ t <= s
          BY <1>1, <1>7, <2>4, <5>1
        <5> QED
          BY <1>6, <3>1, <4>1, <5>2
      <4> QED
        BY <4>1 DEF Overtaken
    <3>3. CASE Overtaken(n, F, l)
      <4>1. g >= c
        BY <1>3, <1>4
      <4> QED
        BY <1>3, <1>5, <2>1, <2>2, <2>4, <3>2, <3>3, <4>1
    <3>4. CASE ~Overtaken(n, F, l)
      <4>1. \A t \in F \cup {l} : ~(s <= t)
        BY <3>1, <3>4 DEF Overtaken
      <4>2. s > l
        <5>1. ~(s <= l)
          BY <4>1
        <5> HIDE DEF s, l
        <5> QED
          BY <1>1, <1>3, <5>1
      <4>3. s \notin A
        <5>1. s \in A => s \in F
          BY <4>2 DEF Beyond
        <5> QED
          BY <1>1, <4>1, <5>1
      <4>4. g = c + 1
        BY <1>4, <4>2, <4>3
      <4> QED
        BY <1>3, <1>5, <2>1, <2>2, <2>4, <3>2, <3>4, <4>4
    <3> QED
      BY <3>3, <3>4
  <2> QED
    BY <2>3, <2>4
<1>9. N + g + r = Given + g + troubles + r
  <2>1. Given \in Nat /\ troubles \in Nat /\ g \in Nat
    BY <1>4, BeyondIsFinite, AccountTypes
  <2> QED
    BY <2>1
<1>10. B \in SUBSET Int /\ A \subseteq B /\ B \ {s} \subseteq A
  BY <1>1, <1>2, <1>3
<1> HIDE DEF s, N
<1> QED
  BY <1>1, <1>4, <1>8, <1>9, <1>10 DEF s

(* What Flow costs: a trouble for a picture that is lost, none for one that *)
(* stays, is written, or is refused for its stamp.                          *)
LEMMA FlowCosts ==
  ASSUME PipeInv, NEW j \in Jitters, Flow(j)
  PROVE  LET more == IF Rough(j) THEN 1 ELSE 0
             D == Append(decoding, Arrival(j))
             u == Append(encoding, Decoded(j))
         IN  \/ /\ UNCHANGED <<decoding, encoding, muxerVars>> /\ troubles' = troubles + 1 + more
             \/ /\ decoding' = D
                /\ UNCHANGED <<encoding, muxerVars>> /\ troubles' = troubles + more
             \/ /\ decoding' = Tail(D)
                /\ \/ UNCHANGED <<encoding, muxerVars>> /\ troubles' = troubles + 1 + more
                   \/ encoding' = u /\ UNCHANGED muxerVars /\ troubles' = troubles + more
                   \/ /\ encoding' = Tail(u)
                      /\ \/ UNCHANGED muxerVars /\ troubles' = troubles + 1 + more
                         \/ ~Accepts(Encoded(j)) /\ UNCHANGED muxerVars /\ troubles' = troubles + more
                         \/ WriteInterleaved(Encoded(j)) /\ troubles' = troubles + more
<1> DEFINE more == IF Rough(j) THEN 1 ELSE 0
<1>1. more \in Nat /\ troubles \in Nat
  BY DEF PipeInv
<1>2. /\ Takes(j, 1) => troubles' = troubles + 1 + more
      /\ Takes(j, 0) => troubles' = troubles + more
  <2>1. Takes(j, 0) => troubles' = troubles + 0 + more
    BY DEF Takes
  <2>2. Takes(j, 1) => troubles' = troubles + 1 + more
    BY DEF Takes
  <2> HIDE DEF more
  <2> QED
    BY <1>1, <2>1, <2>2
<1> HIDE DEF more
<1>3. CASE DecodeFails(j)
  BY <1>2, <1>3 DEF DecodeFails, more
<1>4. CASE DecoderDelays(j)
  BY <1>2, <1>4 DEF DecoderDelays, more
<1>5. CASE EncodeFails(j)
  BY <1>2, <1>5 DEF EncodeFails, Decodes, more
<1>6. CASE EncoderDelays(j)
  BY <1>2, <1>6 DEF EncoderDelays, Decodes, more
<1>7. CASE PictureWritten(j)
  BY <1>2, <1>7 DEF PictureWritten, Encodes, Decodes, more
<1>8. CASE PictureRefused(j)
  BY <1>2, <1>8 DEF PictureRefused, Encodes, Decodes, more
<1> QED
  BY <1>3, <1>4, <1>5, <1>6, <1>7, <1>8 DEF Flow

(* The encoder's first picture has the first stamp of those to come, ...    *)
LEMMA HeadIsFirst ==
  ASSUME NEW e \in Seq(Aligned), e # <<>>, NEW d \in Seq(Aligned), NEW V, NEW q, InLine(V, q, e, d)
  PROVE  /\ StampOf(Head(e).frame) \in Int /\ Head(e) \in Aligned
         /\ \A t \in Coming(e, d) : StampOf(Head(e).frame) <= t
<1>1. /\ Head(e) \in Aligned /\ Head(e).due \in Int
      /\ StampOf(Head(e).frame) \in Int /\ Head(e).frame = FrameOf(Head(e).due)
  <2>1. Head(e) \in Aligned
    BY HeadTailProperties
  <2> QED
    BY <2>1, AlignedFields
<1>2. \A v \in Dues(e) \cup Dues(d) : Head(e).due <= v
  <2>1. 1 \in DOMAIN e /\ Head(e) = e[1] /\ \A n \in DOMAIN e : 1 <= n
    <3>1. Len(e) \in Nat /\ Len(e) > 0 /\ DOMAIN e = 1..Len(e)
      BY EmptySeq, LenProperties
    <3> QED
      BY <3>1, HeadTailProperties
  <2>2. \A v \in Dues(e) : Head(e).due <= v
    BY <2>1 DEF InLine, Sorted, Dues
  <2>3. \A v \in Dues(d) : Head(e).due <= v
    BY <2>1 DEF InLine, Precede, Dues
  <2> QED
    BY <2>2, <2>3
<1>3. ASSUME NEW t \in Coming(e, d) PROVE StampOf(Head(e).frame) <= t
  <2>1. PICK v \in Dues(e) \cup Dues(d) : v \in Int /\ t = StampOf(FrameOf(v))
    BY ComingInLine
  <2> QED
    BY <1>1, <1>2, <2>1, StampsInLine
<1> QED
  BY <1>1, <1>3

(* ... and when it is written there is one more picture, and the muxer is   *)
(* at its stamp.                                                            *)
LEMMA PictureIsGiven ==
  ASSUME MuxerInv, NEW e \in Seq(Aligned), e # <<>>, NEW d, NEW i \in OutIndices,
         InLine(Filed, queue, e, d), WriteInterleaved(PacketOf(Head(e), i))
  PROVE  LET y == StampOf(Head(e).frame)
         IN  /\ Given' = Given + 1
             /\ latest' = [latest EXCEPT ![i] = y] /\ y > latest[i]
             /\ \E v \in Filed' \cup Dues(queue') : y = StampOf(FrameOf(v))
<1> DEFINE y == StampOf(Head(e).frame)
<1>1. Head(e) \in Aligned /\ Head(e).frame = FrameOf(Head(e).due)
  <2>1. Head(e) \in Aligned
    BY HeadTailProperties
  <2> QED
    BY <2>1, AlignedFields
<1>2. PICK p \in VideoPackets : p = PacketOf(Head(e), i)
  BY <1>1 DEF VideoPackets
<1>3. p.due = Head(e).due /\ p.stamp = y /\ p.index = i /\ p.from = "video" /\ WriteInterleaved(p)
  BY <1>2 DEF PacketOf, Packet
<1>4. /\ Written' = Written \cup {p}
      /\ \A C : Among(C, queue') + Among(C, file')
                  = Among(C, queue) + Among(C, file) + IF p \in C THEN 1 ELSE 0
  BY <1>3, FirstIsWritten
<1>5. Given' = Given + 1
  <2>1. Among(VideoPackets, queue') + Among(VideoPackets, file')
          = Among(VideoPackets, queue) + Among(VideoPackets, file) + 1
    BY <1>4
  <2> QED
    BY <2>1, AccountNextIs DEF Given
<1>6. latest' = [latest EXCEPT ![i] = y] /\ y > latest[i]
  BY <1>3 DEF WriteInterleaved, Accepts
<1>7. p.due \in Filed' \cup Dues(queue')
  <2>1. p \in Items(queue') \/ p \in Items(file')
    <3>1. Written' = Items(queue') \cup Items(file')
      BY DEF Written, Items
    <3> QED
      BY <1>4, <3>1
  <2>2. p \in Items(queue') => p.due \in Dues(queue')
    BY ItemsDues
  <2>3. p \in Items(file') => p.due \in Filed'
    <3>1. Filed' = {r.due : r \in {r \in Items(file') : r.from = "video"}}
      BY DEF Filed, Items
    <3> QED
      BY <1>3, <3>1
  <2> QED
    BY <2>1, <2>2, <2>3
<1>8. \E v \in Filed' \cup Dues(queue') : y = StampOf(FrameOf(v))
  BY <1>1, <1>3, <1>7
<1> QED
  BY <1>5, <1>6, <1>8

(* Flow keeps the account.                                                  *)
LEMMA FlowAccounts ==
  ASSUME Orderly, Ticking, MuxerInv, PipeInv, LineInv, AccountInv, NEW j \in Jitters, Flow(j)
  PROVE  AccountInv'
<1> DEFINE x == Arrival(j)
           s == StampOf(x.frame)
           l == latest[video_index]
           r == IF Rough(j) THEN 1 ELSE 0
<1>1. /\ x \in Aligned /\ Decoded(j) \in Aligned /\ stage = "packets"
      /\ stage' = stage /\ video_index' = video_index
      /\ pictures' = pictures + 1 /\ pictures \in Nat /\ video_index \in OutIndices
  BY ArrivalIsAligned, FlowMoves DEF PipeInv
<1>2. PICK D \in Seq(Aligned) : D = Append(decoding, x) /\ D # <<>>
  BY <1>1, AppendProperties DEF PipeInv
<1>3. Decoded(j) = Head(D)
  BY <1>2 DEF Decoded
<1>4. PICK t \in Seq(Aligned), u \in Seq(Aligned) :
        t = Tail(D) /\ u = Append(encoding, Head(D)) /\ u # <<>>
  <2>1. Tail(D) \in Seq(Aligned)
    BY <1>2, HeadTailProperties
  <2>2. Append(encoding, Decoded(j)) \in Seq(Aligned) /\ Append(encoding, Decoded(j)) # <<>>
    BY <1>1, AppendProperties DEF PipeInv
  <2> QED
    BY <1>3, <2>1, <2>2
<1>5. PICK e \in Seq(Aligned) : e = encoding
  BY DEF PipeInv
<1>6. PICK w \in Seq(Aligned) : w = Tail(u)
  BY <1>4, HeadTailProperties
<1>7. /\ Len(D) = Len(decoding) + 1 /\ Len(t) = Len(decoding)
      /\ Len(u) = Len(e) + 1 /\ Len(w) = Len(e) /\ Len(e) \in Nat /\ Len(decoding) \in Nat
  <2>1. Len(D) = Len(decoding) + 1 /\ Len(Tail(D)) = Len(decoding) /\ Len(decoding) \in Nat
    BY <1>1, <1>2, PushAndPop DEF PipeInv
  <2>2. Len(u) = Len(e) + 1 /\ Len(Tail(u)) = Len(e) /\ Len(e) \in Nat
    BY <1>1, <1>3, <1>4, <1>5, PushAndPop
  <2> QED
    BY <1>4, <1>6, <2>1, <2>2
<1> DEFINE A == Coming(e, decoding)
           B == Coming(e, D)
           F == Beyond(B, l)
           f == Cardinality(F)
           n == pictures + 1
<1>8. /\ B \in SUBSET Int /\ IsFiniteSet(B) /\ s \in Int /\ A \subseteq B /\ B \ {s} \subseteq A
      /\ Owed(n, F, l) <= Given + f + troubles + r
  <2> HIDE DEF r
  <2> QED
    BY <1>1, <1>2, <1>5, ArrivalIsOwed DEF r
<1>9. /\ l \in Int /\ Given \in Nat /\ troubles \in Nat /\ r \in Nat /\ f \in Nat
      /\ Len(e) + Len(decoding) + Given <= pictures
      /\ l = -1 \/ \E v \in Filed \cup Dues(queue) : l = StampOf(FrameOf(v))
  <2>1. f \in Nat
    BY <1>8, BeyondIsFinite
  <2> QED
    BY <1>1, <1>5, <2>1, AccountTypes DEF AccountInv
<1>10. InLine(Filed, queue, u, t)
  <2>1. Precede(Line(Filed, queue, encoding, decoding), {x.due}) /\ InLine(Filed, queue, encoding, decoding)
    BY <1>1, ArrivesLast, LineIsInt DEF LineInv
  <2>2. /\ Dated(Pictures) /\ e \in Seq(Pictures) /\ decoding \in Seq(Pictures) /\ D \in Seq(Pictures)
        /\ x \in Pictures
    BY <1>1, PicturesAreDated DEF Pictures, PipeInv
  <2>3. InLine(Filed, queue, e, D)
    BY <1>2, <1>5, <2>1, <2>2, LineArrives
  <2> QED
    BY <1>2, <1>4, <1>5, <2>2, <2>3, LineDecodes
<1>11. /\ Coming(u, t) = B
       /\ Coming(e, t) \in SUBSET B /\ B \ {StampOf(Head(D).frame)} \subseteq Coming(e, t)
       /\ StampOf(Head(u).frame) \in B
       /\ Coming(w, t) \in SUBSET B /\ B \ {StampOf(Head(u).frame)} \subseteq Coming(w, t)
  <2>1. /\ Coming(u, t) = B
        /\ Coming(e, t) \in SUBSET B /\ B \ {StampOf(Head(D).frame)} \subseteq Coming(e, t)
    <3>1. /\ Coming(Append(e, Head(D)), Tail(D)) = B
          /\ Coming(e, Tail(D)) \subseteq B
          /\ B \ {StampOf(Head(D).frame)} \subseteq Coming(e, Tail(D))
      BY <1>1, <1>2, ComingDecodes
    <3> HIDE DEF B
    <3> QED
      BY <1>4, <1>5, <3>1
  <2>2. /\ StampOf(Head(u).frame) \in Coming(u, t) /\ Coming(w, t) \in SUBSET Coming(u, t)
        /\ Coming(u, t) \ {StampOf(Head(u).frame)} \subseteq Coming(w, t)
    BY <1>1, <1>4, <1>6, ComingEncodes
  <2> QED
    BY <2>1, <2>2
<1>12. /\ StampOf(Head(u).frame) \in Int /\ Head(u) \in Aligned
       /\ \A c \in B : StampOf(Head(u).frame) <= c
  BY <1>4, <1>10, <1>11, HeadIsFirst
<1>13. StampOf(Head(D).frame) \in Int
  BY <1>1, <1>3, AlignedFields
<1> HIDE DEF A, B, f, r, s, x
<1> DEFINE k == latest'[video_index]
           g == Cardinality(Fresh')
(* It is enough that the new stamps are among the old, that what is lost    *)
(* has its trouble or its packet, and that the muxer is at a picture.       *)
<1>14. ASSUME /\ Fresh' \cup {k} \subseteq F \cup {l}
              /\ Given \in Nat /\ Given' \in Nat /\ troubles' \in Nat /\ g \in Nat
              /\ f + Given + troubles + r <= g + Given' + troubles'
              /\ Len(encoding') + Len(decoding') + Given' <= n
              /\ k = -1 \/ \E v \in Filed' \cup Dues(queue') : k = StampOf(FrameOf(v))
       PROVE  AccountInv'
  <2>1. n \in Nat
    BY <1>1
  <2>2. Owed(n, Fresh', k) \in Nat /\ Owed(n, F, l) \in Nat /\ Owed(n, Fresh', k) <= Owed(n, F, l)
    BY <1>14, <2>1, OwedShrinks
  <2> HIDE DEF F, k, g, n
  <2>3. Owed(n, Fresh', k) <= Given' + g + troubles'
    <3> DEFINE after == Owed(n, Fresh', k)
               before == Owed(n, F, l)
    <3>1. after \in Nat /\ before \in Nat /\ after <= before /\ before <= Given + f + troubles + r
      BY <1>8, <2>2
    <3> HIDE DEF after, before
    <3>2. after <= Given' + g + troubles'
      <4>1. /\ Given' \in Nat /\ troubles' \in Nat /\ g \in Nat
            /\ f + Given + troubles + r <= g + Given' + troubles'
        BY <1>14
      <4>2. f \in Nat /\ Given \in Nat /\ troubles \in Nat /\ r \in Nat
        BY <1>9
      <4>3. before <= f + Given + troubles + r
        BY <3>1, <4>2
      <4>4. after <= f + Given + troubles + r
        BY <3>1, <4>2, <4>3
      <4>5. after <= g + Given' + troubles'
        <5>1. f + Given + troubles + r <= g + Given' + troubles'
          BY <4>1
        <5>2. f + Given + troubles + r \in Int
          BY <4>2
        <5>3. g + Given' + troubles' \in Int
          BY <4>1
        <5>4. after \in Int
          BY <3>1
        <5> QED
          BY <4>4, <5>1, <5>2, <5>3, <5>4
      <4> QED
        BY <4>1, <4>5
    <3> QED
      BY <3>2 DEF after
  <2>4. pictures' = n /\ stage' = "packets" /\ k = latest'[video_index']
    BY <1>1 DEF n, k
  <2> QED
    BY <1>14, <2>3, <2>4, AccountNextIs DEF g, k
(* What stays is the same if the muxer is not given anything.               *)
<1>15. ASSUME UNCHANGED muxerVars
       PROVE  Given' = Given /\ k = l /\ Filed' = Filed /\ Dues(queue') = Dues(queue)
  <2>1. queue' = queue /\ file' = file /\ latest' = latest
    BY <1>15 DEF muxerVars
  <2> QED
    BY <2>1, MuxerUnchanged, AccountNextIs DEF Given
<1>16. ASSUME NEW C \in SUBSET B, NEW y \in Int, B \ {y} \subseteq C,
              C = Coming(encoding', decoding'), UNCHANGED muxerVars,
              Len(encoding') + Len(decoding') <= Len(e) + Len(decoding) + 1,
              troubles' = troubles + 1 + r \/ ((y <= l \/ C = B) /\ troubles' = troubles + r)
       PROVE  AccountInv'
  <2>1. Fresh' = Beyond(C, l)
    BY <1>1, <1>15, <1>16, AccountNextIs
  <2>2. /\ IsFiniteSet(C) /\ Beyond(C, l) \subseteq F /\ f <= Cardinality(Beyond(C, l)) + 1
        /\ y <= l => Beyond(C, l) = F
    <3> HIDE DEF F
    <3>1. B \in SUBSET Int /\ IsFiniteSet(B) /\ l \in Int /\ C \in SUBSET B /\ B \ {y} \subseteq C /\ y \in Int
      BY <1>8, <1>9, <1>16
    <3>2. /\ IsFiniteSet(C) /\ Beyond(C, l) \subseteq Beyond(B, l)
          /\ Cardinality(Beyond(B, l)) <= Cardinality(Beyond(C, l)) + 1
      BY <3>1, BeyondLoses
    <3>3. y <= l => Beyond(C, l) = Beyond(B, l)
      BY <3>1, BeyondKeeps
    <3> QED
      BY <3>2, <3>3 DEF f, F
  <2>3. g \in Nat /\ f <= g + 1 /\ (troubles' = troubles + r => f <= g) /\ Fresh' \cup {k} \subseteq F \cup {l}
    <3>1. g \in Nat
      BY <2>1, <2>2, BeyondIsFinite
    <3>2. f <= g + 1 /\ Fresh' \cup {k} \subseteq F \cup {l}
      BY <1>15, <1>16, <2>1, <2>2
    <3>3. ASSUME troubles' = troubles + r PROVE f <= g
      <4>1. y <= l \/ C = B
        BY <1>9, <1>16, <3>3
      <4>2. Fresh' = F
        BY <2>1, <2>2, <4>1
      <4> QED
        BY <1>9, <4>2 DEF f
    <3> QED
      BY <3>1, <3>2, <3>3
  <2> HIDE DEF g, k, F
  <2>4. /\ Given' = Given /\ troubles' \in Nat
        /\ f + Given + troubles + r <= g + Given' + troubles'
    <3>1. Given' = Given
      BY <1>15, <1>16
    <3>2. f \in Nat /\ Given \in Nat /\ troubles \in Nat /\ r \in Nat /\ g \in Nat /\ f <= g + 1
      BY <1>9, <2>3
    <3>3. CASE troubles' = troubles + 1 + r
      <4> HIDE DEF f, r
      <4> QED
        BY <3>1, <3>2, <3>3
    <3>4. CASE troubles' = troubles + r
      <4>1. f <= g
        BY <2>3, <3>4
      <4> HIDE DEF f, r
      <4> QED
        BY <3>1, <3>2, <3>4, <4>1
    <3> QED
      BY <1>16, <3>3, <3>4
  <2>5. Len(encoding') + Len(decoding') + Given' <= n
    <3>1. Len(encoding') \in Nat /\ Len(decoding') \in Nat
      <4>1. PipeInv'
        BY FlowInv
      <4> QED
        BY <4>1 DEF PipeInv
    <3> QED
      BY <1>1, <1>7, <1>9, <1>16, <2>4, <3>1
  <2>6. k = -1 \/ \E v \in Filed' \cup Dues(queue') : k = StampOf(FrameOf(v))
    BY <1>9, <1>15, <1>16
  <2> QED
    BY <1>9, <1>14, <2>3, <2>4, <2>5, <2>6
<1>17. CASE UNCHANGED <<decoding, encoding, muxerVars>> /\ troubles' = troubles + 1 + r
  <2>1. A = Coming(encoding', decoding') /\ A \in SUBSET B /\ B \ {s} \subseteq A /\ s \in Int
    BY <1>5, <1>8, <1>17 DEF A
  <2>2. Len(encoding') + Len(decoding') <= Len(e) + Len(decoding) + 1
    BY <1>5, <1>7, <1>17
  <2> QED
    BY <1>16, <1>17, <2>1, <2>2
<1>18. CASE decoding' = D /\ UNCHANGED <<encoding, muxerVars>> /\ troubles' = troubles + r
  <2>1. B = Coming(encoding', decoding') /\ Len(encoding') + Len(decoding') <= Len(e) + Len(decoding) + 1
    BY <1>5, <1>7, <1>18 DEF B
  <2> QED
    BY <1>8, <1>16, <1>18, <2>1
<1>19. CASE decoding' = t /\ UNCHANGED <<encoding, muxerVars>> /\ troubles' = troubles + 1 + r
  <2>1. Len(encoding') + Len(decoding') <= Len(e) + Len(decoding) + 1
    BY <1>5, <1>7, <1>19
  <2> QED
    BY <1>5, <1>11, <1>13, <1>16, <1>19, <2>1
<1>20. CASE decoding' = t /\ encoding' = u /\ UNCHANGED muxerVars /\ troubles' = troubles + r
  <2>1. Len(encoding') + Len(decoding') <= Len(e) + Len(decoding) + 1
    BY <1>7, <1>20
  <2> QED
    BY <1>8, <1>11, <1>16, <1>20, <2>1
<1>21. CASE /\ decoding' = t /\ encoding' = w /\ UNCHANGED muxerVars
            /\ \/ troubles' = troubles + 1 + r
               \/ ~Accepts(Encoded(j)) /\ troubles' = troubles + r
  <2>1. Len(encoding') + Len(decoding') <= Len(e) + Len(decoding) + 1
    BY <1>7, <1>21
  <2>2. ~Accepts(Encoded(j)) => StampOf(Head(u).frame) <= l
    <3>1. Encoded(j).stamp = StampOf(Head(u).frame) /\ Encoded(j).index = video_index
      BY <1>3, <1>4 DEF Encoded, PacketOf, Packet
    <3>2. ~(StampOf(Head(u).frame) > l) => StampOf(Head(u).frame) <= l
      BY <1>9, <1>12
    <3> QED
      BY <3>1, <3>2 DEF Accepts
  <2> QED
    BY <1>11, <1>12, <1>16, <1>21, <2>1, <2>2
<1>22. CASE /\ decoding' = t /\ encoding' = w /\ WriteInterleaved(Encoded(j))
            /\ troubles' = troubles + r
  <2> DEFINE y == StampOf(Head(u).frame)
             C == Coming(w, t)
  <2>1. Encoded(j) = PacketOf(Head(u), video_index)
    BY <1>3, <1>4 DEF Encoded
  <2>2. /\ Given' = Given + 1 /\ latest' = [latest EXCEPT ![video_index] = y] /\ y > l
        /\ \E v \in Filed' \cup Dues(queue') : y = StampOf(FrameOf(v))
    BY <1>1, <1>4, <1>10, <1>22, <2>1, PictureIsGiven
  <2>3. k = y
    BY <1>1, <2>2 DEF MuxerInv
  <2>4. Fresh' = Beyond(C, y)
    BY <1>1, <1>22, <2>3, AccountNextIs
  <2> HIDE DEF y, C
  <2>5. /\ IsFiniteSet(C) /\ Beyond(C, y) \cup {y} \subseteq F
        /\ f <= Cardinality(Beyond(C, y)) + 1
    <3>1. C \in SUBSET B /\ B \ {y} \subseteq C /\ y \in B /\ y \in Int /\ \A c \in B : y <= c
      BY <1>11, <1>12 DEF y, C
    <3> QED
      BY <1>8, <1>9, <2>2, <3>1, BeyondLosesFirst DEF f
  <2>6. g \in Nat /\ f <= g + 1 /\ Fresh' \cup {k} \subseteq F \cup {l}
    BY <2>3, <2>4, <2>5, BeyondIsFinite
  <2> HIDE DEF g, k, F
  <2>7. /\ Given' \in Nat /\ troubles' \in Nat
        /\ f + Given + troubles + r <= g + Given' + troubles'
        /\ Len(encoding') + Len(decoding') + Given' <= n
    BY <1>1, <1>7, <1>9, <1>22, <2>2, <2>6
  <2> QED
    BY <1>9, <1>14, <2>2, <2>3, <2>6, <2>7
<1>23. \/ UNCHANGED <<decoding, encoding, muxerVars>> /\ troubles' = troubles + 1 + r
       \/ decoding' = D /\ UNCHANGED <<encoding, muxerVars>> /\ troubles' = troubles + r
       \/ decoding' = t /\ UNCHANGED <<encoding, muxerVars>> /\ troubles' = troubles + 1 + r
       \/ decoding' = t /\ encoding' = u /\ UNCHANGED muxerVars /\ troubles' = troubles + r
       \/ /\ decoding' = t /\ encoding' = w /\ UNCHANGED muxerVars
          /\ \/ troubles' = troubles + 1 + r
             \/ ~Accepts(Encoded(j)) /\ troubles' = troubles + r
       \/ /\ decoding' = t /\ encoding' = w /\ WriteInterleaved(Encoded(j))
          /\ troubles' = troubles + r
  BY <1>2, <1>3, <1>4, <1>6, FlowCosts DEF r, x
<1> HIDE DEF F, k, g, n
<1> QED
  BY <1>17, <1>18, <1>19, <1>20, <1>21, <1>22, <1>23

(* What the flush costs.                                                    *)
LEMMA FlushCosts ==
  ASSUME VideoFlush
  PROVE  \/ /\ encoding # <<>> /\ encoding' = Tail(encoding) /\ stage' = stage
            /\ \/ UNCHANGED muxerVars /\ troubles' = troubles + 1
               \/ ~Accepts(Flushed) /\ UNCHANGED muxerVars /\ troubles' = troubles
               \/ WriteInterleaved(Flushed) /\ troubles' = troubles
         \/ /\ stage' = "done" /\ encoding' = encoding /\ UNCHANGED muxerVars
            /\ troubles' = troubles + 1 \/ (troubles' = troubles /\ encoding = <<>>)
<1>1. CASE PictureFlushed
  BY <1>1 DEF PictureFlushed
<1>2. CASE VideoFlushFails
  BY <1>2 DEF VideoFlushFails
<1>3. CASE VideoFlushEnds
  BY <1>3 DEF VideoFlushEnds
<1> QED
  BY <1>1, <1>2, <1>3 DEF VideoFlush

(* The flush keeps the account: into the right stream a picture is written, *)
(* refused because its stamp is passed, or lost with its trouble; into the  *)
(* wrong one it may not count, and the encoder holds one less.              *)
LEMMA FlushAccounts ==
  ASSUME MuxerInv, PipeInv, LineInv, AccountInv, VideoFlush
  PROVE  AccountInv'
<1> DEFINE l == latest[video_index]
           k == latest'[video_index]
           f == Cardinality(Fresh)
           g == Cardinality(Fresh')
           c == Len(encoding)
           d == Len(decoding)
<1>1. /\ stage = "flush" /\ stage' # "packets"
      /\ video_index' = video_index /\ pictures' = pictures /\ decoding' = decoding
      /\ video_index \in OutIndices
  BY FlushMoves DEF PipeInv
<1>2. /\ Given \in Nat /\ pictures \in Nat /\ troubles \in Nat /\ l \in Int
      /\ Coming(encoding, decoding) \in SUBSET Int /\ IsFiniteSet(Coming(encoding, decoding))
      /\ f \in Nat /\ c \in Nat /\ d \in Nat /\ EncoderHolds \in Nat
      /\ c + d + Given <= pictures
      /\ pictures <= Given + f + troubles + Slack
  BY <1>1, AccountTypes DEF AccountInv
<1>3. /\ Fresh = Beyond(Coming(encoding, decoding), l)
      /\ Fresh' = Beyond(Coming(encoding', decoding), k)
      /\ Slack = IF video_index = 0 THEN 0 ELSE EncoderHolds - c
      /\ Slack' = IF video_index = 0 THEN 0 ELSE EncoderHolds - Len(encoding')
  BY <1>1, AccountNextIs DEF Fresh, Slack
<1>4. ASSUME /\ Len(encoding') + d + Given' <= pictures
             /\ pictures <= Given' + g + troubles' + Slack'
             /\ stage' = "done" /\ troubles' = 0 => encoding' = <<>>
      PROVE  AccountInv'
  BY <1>1, <1>4, AccountNextIs
<1>5. CASE /\ stage' = "done" /\ encoding' = encoding /\ UNCHANGED muxerVars
           /\ troubles' = troubles + 1 \/ (troubles' = troubles /\ encoding = <<>>)
  <2>1. queue' = queue /\ file' = file /\ latest' = latest
    BY <1>5 DEF muxerVars
  <2>2. Given' = Given /\ Fresh' = Fresh /\ Slack' = Slack
    BY <1>3, <1>5, <2>1, AccountNextIs DEF Given
  <2>3. troubles' \in Nat /\ troubles' >= troubles /\ (troubles' = 0 => encoding' = <<>>)
    BY <1>2, <1>5
  <2>4. pictures <= Given' + g + troubles' + Slack'
    <3>1. Slack \in Int
      BY <1>2, <1>3
    <3> HIDE DEF f
    <3> QED
      BY <1>2, <2>2, <2>3, <3>1 DEF f
  <2> QED
    BY <1>2, <1>4, <1>5, <2>2, <2>3, <2>4
<1>6. CASE /\ encoding # <<>> /\ encoding' = Tail(encoding) /\ stage' = stage
           /\ \/ UNCHANGED muxerVars /\ troubles' = troubles + 1
              \/ ~Accepts(Flushed) /\ UNCHANGED muxerVars /\ troubles' = troubles
              \/ WriteInterleaved(Flushed) /\ troubles' = troubles
  <2>1. PICK e \in Seq(Aligned), t \in Seq(Aligned), m \in Seq(Aligned) :
          e = encoding /\ t = Tail(encoding) /\ e # <<>> /\ m = decoding
    BY <1>6, HeadTailProperties DEF PipeInv
  <2>2. Len(encoding') = c - 1 /\ Len(encoding') \in Nat
    <3>1. Len(t) = Len(e) - 1 /\ Len(t) \in Nat
      BY <2>1, HeadTailProperties
    <3> QED
      BY <1>6, <2>1, <3>1
  <2> DEFINE B == Coming(e, m)
             C == Coming(t, m)
             y == StampOf(Head(e).frame)
  <2>3. /\ B \in SUBSET Int /\ IsFiniteSet(B) /\ y \in B /\ y \in Int
        /\ C \in SUBSET B /\ B \ {y} \subseteq C /\ \A s \in B : y <= s
    <3>1. InLine(Filed, queue, e, m)
      BY <2>1 DEF LineInv
    <3>2. y \in Int /\ Head(e) \in Aligned /\ \A s \in B : y <= s
      BY <2>1, <3>1, HeadIsFirst
    <3>3. y \in B /\ C \in SUBSET B /\ B \ {y} \subseteq C
      BY <2>1, <3>2, ComingEncodes
    <3> QED
      BY <1>2, <2>1, <3>2, <3>3
  <2>4. Fresh = Beyond(B, l) /\ Fresh' = Beyond(C, k)
    BY <1>3, <1>6, <2>1
  <2>5. Flushed = PacketOf(Head(e), 0)
    BY <2>1 DEF Flushed
  <2> HIDE DEF B, C, y, l, k
  <2>6. ASSUME UNCHANGED muxerVars
        PROVE  /\ Given' = Given /\ k = l /\ g \in Nat /\ f <= g + 1
               /\ y <= l => g = f
    <3>1. k = l /\ Given' = Given
      BY <2>6, AccountNextIs DEF muxerVars, Given, k, l
    <3>2. IsFiniteSet(C) /\ Cardinality(Beyond(B, l)) <= Cardinality(Beyond(C, l)) + 1
      BY <1>2, <2>3, BeyondLoses
    <3>3. y <= l => Beyond(C, l) = Beyond(B, l)
      <4> SUFFICES ASSUME y <= l PROVE Beyond(C, l) = Beyond(B, l)
        OBVIOUS
      <4>1. B \in SUBSET Int /\ C \in SUBSET B /\ B \ {y} \subseteq C /\ y \in Int /\ l \in Int
        BY <1>2, <2>3
      <4> QED
        BY <4>1, BeyondKeeps
    <3>4. Cardinality(Beyond(C, l)) \in Nat
      BY <3>2, BeyondIsFinite
    <3> QED
      BY <2>4, <3>1, <3>2, <3>3, <3>4
  <2>7. ASSUME WriteInterleaved(Flushed)
        PROVE  /\ Given' = Given + 1 /\ g \in Nat /\ f <= g + 1
    <3>1. /\ Given' = Given + 1
          /\ latest' = [latest EXCEPT ![0] = y] /\ y > latest[0]
      <4>1. 0 \in OutIndices
        BY IndexFacts DEF PipeInv
      <4>2. InLine(Filed, queue, e, m) /\ WriteInterleaved(PacketOf(Head(e), 0))
        BY <2>1, <2>5, <2>7 DEF LineInv
      <4> QED
        BY <2>1, <4>1, <4>2, PictureIsGiven DEF y
    <3>2. CASE video_index = 0
      <4>1. k = y /\ y > l
        BY <1>1, <3>1, <3>2 DEF k, l, MuxerInv
      <4>2. IsFiniteSet(C) /\ Cardinality(Beyond(B, l)) <= Cardinality(Beyond(C, y)) + 1
        BY <1>2, <2>3, <4>1, BeyondLosesFirst
      <4>3. Cardinality(Beyond(C, y)) \in Nat
        BY <4>2, BeyondIsFinite
      <4> QED
        BY <2>4, <3>1, <4>1, <4>2, <4>3
    <3>3. CASE video_index # 0
      <4>1. k = l
        BY <1>1, <3>1, <3>3 DEF k, l, MuxerInv
      <4>2. IsFiniteSet(C) /\ Cardinality(Beyond(B, l)) <= Cardinality(Beyond(C, l)) + 1
        BY <1>2, <2>3, BeyondLoses
      <4>3. Cardinality(Beyond(C, l)) \in Nat
        BY <4>2, BeyondIsFinite
      <4> QED
        BY <2>4, <3>1, <4>1, <4>2, <4>3
    <3> QED
      BY <3>2, <3>3
  <2>8. ~Accepts(Flushed) /\ video_index = 0 => y <= l
    <3>1. Flushed.stamp = y /\ Flushed.index = 0
      BY <2>5 DEF PacketOf, Packet, y
    <3>2. ~(y > l) => y <= l
      BY <1>2, <2>3
    <3> QED
      BY <3>1, <3>2 DEF Accepts, l
  <2> HIDE DEF f, g, c, d
  <2>9. /\ Len(encoding') + d + Given' <= pictures
        /\ pictures <= Given' + g + troubles' + Slack'
    <3>1. CASE UNCHANGED muxerVars /\ troubles' = troubles + 1
      BY <1>2, <1>3, <2>2, <2>6, <3>1
    <3>2. CASE ~Accepts(Flushed) /\ UNCHANGED muxerVars /\ troubles' = troubles
      <4>1. CASE video_index = 0
        BY <1>2, <1>3, <2>2, <2>6, <2>8, <3>2, <4>1
      <4>2. CASE video_index # 0
        BY <1>2, <1>3, <2>2, <2>6, <3>2, <4>2
      <4> QED
        BY <4>1, <4>2
    <3>3. CASE WriteInterleaved(Flushed) /\ troubles' = troubles
      BY <1>2, <1>3, <2>2, <2>7, <3>3
    <3> QED
      BY <1>6, <3>1, <3>2, <3>3
  <2>10. stage' # "done"
    BY <1>1, <1>6
  <2> QED
    BY <1>4, <2>9, <2>10 DEF g, d
<1> HIDE DEF l, k, f, g, c, d
<1> QED
  BY <1>5, <1>6, FlushCosts

(* So does all that leaves the video object and what was made of its        *)
(* pictures alone.                                                          *)
LEMMA AccountStays ==
  ASSUME AccountInv, UNCHANGED videoVars, Given' = Given,
         latest'[video_index] = latest[video_index],
         Filed \cup Dues(queue) \subseteq Filed' \cup Dues(queue')
  PROVE  AccountInv'
<1>1. /\ video_index' = video_index /\ stage' = stage /\ pictures' = pictures
      /\ decoding' = decoding /\ encoding' = encoding /\ troubles' = troubles
  BY DEF videoVars
<1>2. Fresh' = Fresh /\ Slack' = Slack
  BY <1>1, AccountNextIs DEF Fresh, Slack
<1> QED
  BY <1>1, <1>2, AccountNextIs DEF AccountInv

LEMMA AudioAccounts ==
  ASSUME MediaInv, Audio!AudioTypeOK, Audio!AudioTypeOK', AccountInv, AudioStep \/ FlushAudio
  PROVE  AccountInv'
<1>1. /\ UNCHANGED videoVars /\ queue' = queue
      /\ file' = file \/ \E p \in AudioPackets : file' = Append(file, p)
  BY AudioIsWritten DEF AudioStep, FlushAudio
<1>2. Filed' = Filed /\ Given' = Given
  <2>1. CASE file' = file
    BY <1>1, <2>1, MuxerUnchanged, AccountNextIs DEF Given
  <2>2. ASSUME NEW p \in AudioPackets, file' = Append(file, p)
        PROVE  Filed' = Filed /\ Given' = Given
    <3>1. VideoPackets \cap AudioPackets = {}
      BY VideoPacketFields DEF AudioPackets
    <3>2. Filed' = Filed /\ Among(VideoPackets, file') = Among(VideoPackets, file)
      BY <1>1, <2>2, <3>1, AudioWritten DEF MediaInv
    <3> QED
      BY <1>1, <3>2, AccountNextIs DEF Given
  <2> QED
    BY <1>1, <2>1, <2>2
<1>3. latest'[video_index] = latest[video_index]
  <2>1. \E stamp : WritesAudio(stamp)
    BY DEF AudioStep, FlushAudio
  <2>2. PICK stamp : WritesAudio(stamp)
    BY <2>1
  <2>3. UNCHANGED latest \/ WriteDirectly(Packet(audio_index, stamp, "audio", stamp))
    BY <2>2 DEF WritesAudio, muxerVars
  <2>4. UNCHANGED latest \/ latest' = [latest EXCEPT ![audio_index] = stamp]
    BY <2>3 DEF WriteDirectly, Packet
  <2> QED
    BY <2>4, IndexFacts DEF MediaInv, MuxerInv, PipeInv
<1> QED
  BY <1>1, <1>2, <1>3, AccountStays

LEMMA AccountNext ==
  ASSUME Orderly, Ticking, MediaInv, Audio!AudioTypeOK, Audio!AudioTypeOK',
         LineInv, AccountInv, [MediaNext]_mediaVars
  PROVE  AccountInv'
<1> USE DEF MediaInv
<1>1. ASSUME UNCHANGED <<muxerVars, videoVars>> PROVE AccountInv'
  <2>1. Filed' = Filed /\ queue' = queue /\ file' = file /\ latest' = latest
    BY <1>1, MuxerUnchanged DEF muxerVars
  <2>2. Given' = Given /\ latest'[video_index] = latest[video_index]
        /\ Filed \cup Dues(queue) \subseteq Filed' \cup Dues(queue')
    BY <2>1, AccountNextIs DEF Given
  <2> QED
    BY <1>1, <2>2, AccountStays
<1>2. CASE InitTools \/ AudioPacket
  BY <1>1, <1>2 DEF InitTools, AudioPacket
<1>3. CASE Loop \/ StopProcess \/ CallWriteEnd \/ Drained \/ Finish \/ read_packet
  <2>1. UNCHANGED <<muxerVars, videoVars>>
    BY <1>3 DEF Loop, StopProcess, CallWriteEnd, Drained, Finish, read_packet, sinkVars
  <2> QED
    BY <1>1, <2>1
<1>4. CASE VideoPacket
  <2>1. PICK j \in Jitters : Flow(j)
    BY <1>4 DEF VideoPacket
  <2> QED
    BY <2>1, FlowAccounts
<1>5. CASE AudioStep \/ FlushAudio
  BY <1>5, AudioAccounts
(* The loop ends: what the encoder holds is bounded, and the next place is  *)
(* not asked for.                                                           *)
<1>6. CASE LoopEnds
  <2>1. /\ stage = "packets" /\ stage' = "flush" /\ UNCHANGED muxerVars
        /\ video_index' = video_index /\ pictures' = pictures
        /\ decoding' = decoding /\ encoding' = encoding /\ troubles' = troubles
    BY <1>6 DEF LoopEnds, VideoEnds
  <2>2. queue' = queue /\ file' = file /\ latest' = latest
    BY <2>1 DEF muxerVars
  <2>3. Given' = Given /\ Fresh' = Fresh
    BY <2>1, <2>2, AccountNextIs DEF Given, Fresh
  <2>4. Slack' \in Nat
    <3>1. Len(encoding) \in Nat /\ EncoderHolds \in Nat /\ Len(encoding) <= EncoderHolds
      BY HoldsAssumption DEF PipeInv
    <3> QED
      BY <2>1, <3>1, AccountNextIs
  <2>5. pictures <= Given + Cardinality(Fresh) + troubles + Slack'
    <3> DEFINE o == Owed(pictures, Fresh, latest[video_index])
               f == Cardinality(Fresh)
    <3>1. o >= pictures /\ o \in Nat /\ pictures \in Nat /\ Given \in Nat /\ f \in Nat /\ troubles \in Nat
      BY AccountTypes DEF Owed
    <3>2. o <= Given + f + troubles
      BY <2>1 DEF AccountInv
    <3> HIDE DEF o, f
    <3> QED
      BY <2>4, <3>1, <3>2 DEF f
  <2> QED
    BY <2>1, <2>3, <2>5, AccountNextIs DEF AccountInv
<1>7. CASE FlushVideo
  BY <1>7, FlushAccounts DEF FlushVideo
<1>8. CASE WriteEnd
  <2>1. /\ queue' = <<>> /\ Filed' = Filed \cup Dues(queue)
        /\ \A C : Among(C, queue') + Among(C, file') = Among(C, queue) + Among(C, file)
    BY <1>8, TrailerWritten DEF WriteEnd
  <2>2. UNCHANGED videoVars /\ latest' = latest
    BY <1>8 DEF WriteEnd, WriteTrailer
  <2>3. Given' = Given
    BY <2>1, AccountNextIs DEF Given
  <2> QED
    BY <2>1, <2>2, <2>3, AccountStays
<1>9. CASE UNCHANGED mediaVars
  BY <1>1, <1>9 DEF mediaVars, sinkVars
<1> QED
  BY <1>2, <1>3, <1>4, <1>5, <1>6, <1>7, <1>8, <1>9 DEF MediaNext, ProcessNext

LEMMA MediaInitAccount ==
  ASSUME MediaInit
  PROVE  AccountInv
<1>1. /\ queue = <<>> /\ file = <<>> /\ encoding = <<>> /\ decoding = <<>>
      /\ stage = "packets" /\ pictures = 0 /\ troubles = 0
      /\ latest = [i \in OutIndices |-> -1] /\ video_index \in OutIndices
  BY DEF MediaInit, MuxerInit, VideoInit
<1>2. Given = 0
  <2>1. Among(VideoPackets, <<>>) = 0
    BY AmongNone
  <2> QED
    BY <1>1, <2>1 DEF Given
<1>3. Fresh = {} /\ Cardinality(Fresh) = 0
  <2>1. Fresh = {}
    BY <1>1 DEF Fresh, Beyond, Coming, Items
  <2> QED
    BY <2>1, FS_EmptySet
<1>4. latest[video_index] = -1
  BY <1>1
<1>5. StampOf(0) \in Nat
  BY RescaleOfNat, PictureAssumption DEF StampOf
<1>6. Owed(pictures, Fresh, latest[video_index]) = 0
  <2>1. ~Overtaken(0, {}, -1)
    BY <1>5 DEF Overtaken
  <2> QED
    BY <1>1, <1>3, <1>4, <2>1 DEF Owed
<1>7. Len(encoding) = 0 /\ Len(decoding) = 0
  BY <1>1
<1> QED
  BY <1>1, <1>2, <1>3, <1>4, <1>6, <1>7 DEF AccountInv

(* While nothing goes wrong the decoder holds the last pictures it took,    *)
(* as many as it can.                                                       *)
HeldInv ==
  troubles = 0 => Len(decoding) = IF pictures < DecoderHolds THEN pictures ELSE DecoderHolds

LEMMA FlowHolds ==
  ASSUME PipeInv, HeldInv, NEW j \in Jitters, Flow(j)
  PROVE  HeldInv'
<1>1. /\ pictures \in Nat /\ troubles \in Nat /\ DecoderHolds \in Nat /\ Len(decoding) \in Nat
      /\ Len(decoding) <= DecoderHolds /\ decoding \in Seq(Aligned) /\ Arrival(j) \in Aligned
  BY HoldsAssumption, ArrivalIsAligned DEF PipeInv
<1>2. Len(Append(decoding, Arrival(j))) = Len(decoding) + 1
  BY <1>1, AppendProperties
<1>3. Len(Tail(Append(decoding, Arrival(j)))) = Len(decoding)
  BY <1>1, PushAndPop
<1>4. ASSUME NEW wrong \in {0, 1}, Takes(j, wrong), troubles' = 0
      PROVE  troubles = 0 /\ wrong = 0 /\ pictures' = pictures + 1
  BY <1>1, <1>4 DEF Takes
<1>5. CASE DecodeFails(j)
  BY <1>4, <1>5 DEF DecodeFails, HeldInv
<1>6. CASE DecoderDelays(j)
  BY <1>1, <1>2, <1>4, <1>6 DEF DecoderDelays, HeldInv
<1>7. CASE Decodes(j) /\ \E wrong \in {0, 1} : Takes(j, wrong)
  <2>1. decoding' = Tail(Append(decoding, Arrival(j))) /\ Len(decoding) >= DecoderHolds
    BY <1>7 DEF Decodes
  <2>2. Len(decoding') = Len(decoding)
    BY <1>3, <2>1
  <2> QED
    BY <1>1, <1>4, <1>7, <2>1, <2>2 DEF HeldInv
<1> QED
  BY <1>5, <1>6, <1>7
     DEF Flow, EncodeFails, EncoderDelays, PictureWritten, PictureRefused, Encodes

LEMMA HeldNext ==
  ASSUME MediaInv, HeldInv, [MediaNext]_mediaVars
  PROVE  HeldInv'
<1> USE DEF MediaInv
<1>1. CASE UNCHANGED videoVars
  BY <1>1 DEF videoVars, HeldInv
<1>2. CASE VideoPacket
  BY <1>2, FlowHolds DEF VideoPacket
<1>3. CASE LoopEnds
  BY <1>3 DEF LoopEnds, VideoEnds, HeldInv
<1>4. CASE FlushVideo
  <2>1. UNCHANGED <<pictures, decoding>> /\ (troubles' = 0 => troubles = 0)
    BY <1>4 DEF FlushVideo, VideoFlush, PictureFlushed, VideoFlushFails, VideoFlushEnds, PipeInv
  <2> QED
    BY <2>1 DEF HeldInv
<1>5. CASE InitTools \/ AudioPacket \/ AudioStep \/ FlushAudio \/ WriteEnd
  BY <1>1, <1>5 DEF InitTools, AudioPacket, AudioStep, FlushAudio, WriteEnd
<1>6. CASE Loop \/ StopProcess \/ CallWriteEnd \/ Drained \/ Finish \/ read_packet
  <2>1. UNCHANGED sinkVars
    BY <1>6 DEF Loop, StopProcess, CallWriteEnd, Drained, Finish, read_packet
  <2> QED
    BY <1>1, <2>1 DEF sinkVars
<1>7. CASE UNCHANGED mediaVars
  BY <1>1, <1>7 DEF mediaVars, sinkVars
<1> QED
  BY <1>2, <1>3, <1>4, <1>5, <1>6, <1>7 DEF MediaNext, ProcessNext

(* What is lost of the video is what its codecs are left with, one picture  *)
(* for each thing that went wrong, and those that the encoder of a video    *)
(* which is not stream 0 still holds when the input ends.  When nothing     *)
(* goes wrong the encoder is emptied, and the decoder, which nobody         *)
(* flushes, is left with the last DecoderHolds pictures, always.  For an    *)
(* input in the order of its stamps, with pictures of a tick or longer.     *)
THEOREM NoPictureLost == Orderly /\ Ticking => (MediaSpec => []PicturesAccounted)
<1> SUFFICES ASSUME Orderly, Ticking PROVE MediaSpec => []PicturesAccounted
  OBVIOUS
<1>1. MediaInit => AccountInv /\ HeldInv
  <2>1. MediaInit => HeldInv
    BY HoldsAssumption DEF MediaInit, VideoInit, HeldInv
  <2> QED
    BY <2>1, MediaInitAccount
<1>2. MediaInv /\ Audio!AudioTypeOK /\ Audio!AudioTypeOK' /\ LineInv /\ AccountInv /\ HeldInv
      /\ [MediaNext]_mediaVars => AccountInv' /\ HeldInv'
  BY AccountNext, HeldNext
<1>3. MediaInv /\ AccountInv /\ HeldInv => PicturesAccounted
  <2> SUFFICES ASSUME MediaInv, AccountInv, HeldInv PROVE PicturesAccounted
    OBVIOUS
  <2> DEFINE S == VideoPackets \cup AudioPackets
  <2>1. queue \in Seq(S) /\ file \in Seq(S) /\ MuxerInv /\ PipeInv
    BY SeqMonotonic DEF MediaInv, MuxerInv
  <2>2. Sent \in Seq(S) /\ Among(VideoPackets, Sent) = Given
    BY <2>1, ConcatProperties, AmongConcat DEF Sent, Given
  <2>3. Cardinality(Shown) = Given
    <3>1. \A n \in DOMAIN Sent : Sent[n].from = "video" <=> Sent[n] \in VideoPackets
      <4>1. \A n \in DOMAIN Sent : Sent[n] \in S
        BY <2>2
      <4> QED
        BY <4>1, VideoPacketFields DEF AudioPackets
    <3>2. Shown = Places(VideoPackets, Sent)
      BY <3>1 DEF Shown, Places
    <3> QED
      BY <2>2, <3>2 DEF Among
  <2> DEFINE f == Cardinality(Fresh)
             e == Len(encoding)
             d == Len(decoding)
             lost == pictures - d - e - Given
  <2>4. /\ Given \in Nat /\ pictures \in Nat /\ troubles \in Nat /\ f \in Nat /\ f <= e + d
        /\ e \in Nat /\ d \in Nat /\ EncoderHolds \in Nat /\ e <= EncoderHolds
    BY <2>1, AccountTypes DEF PipeInv
  <2> HIDE DEF f, e, d
  <2>5. lost >= 0
    BY <2>4 DEF AccountInv, e, d
  <2>6. lost <= troubles + IF stage = "packets" \/ video_index = 0 THEN 0 ELSE EncoderHolds
    <3>1. CASE stage = "packets"
      <4> DEFINE o == Owed(pictures, Fresh, latest[video_index])
      <4>1. o >= pictures /\ o \in Nat
        BY <2>4 DEF Owed
      <4>2. o <= Given + f + troubles
        BY <3>1 DEF AccountInv, f
      <4> HIDE DEF o
      <4> QED
        BY <2>4, <3>1, <4>1, <4>2
    <3>2. CASE stage # "packets"
      <4>1. pictures <= Given + f + troubles + Slack
        BY <3>2 DEF AccountInv, f
      <4>2. Slack = IF video_index = 0 THEN 0 ELSE EncoderHolds - e
        BY DEF Slack, e
      <4> QED
        BY <2>4, <3>2, <4>1, <4>2
    <3> QED
      BY <3>1, <3>2
  <2>7. Awaited \in Int /\ Left = d + e - Awaited /\ Lost = pictures - Awaited - Given
    <3>1. Awaited \in Int
      BY <2>1, <2>4 DEF Awaited, PipeInv, e, d
    <3> QED
      BY <2>3, <3>1 DEF Left, Lost, e, d
  <2>8. Lost - Left = lost
    BY <2>4, <2>7
  <2>9. stage = "done" /\ troubles = 0 =>
          Left = IF pictures < DecoderHolds THEN pictures ELSE DecoderHolds
    <3>1. stage = "done" /\ troubles = 0 => e = 0 /\ Left = d
      <4>1. ASSUME stage = "done", troubles = 0 PROVE e = 0
        BY <4>1 DEF AccountInv, e
      <4> QED
        BY <2>4, <2>7, <4>1 DEF Awaited
    <3> QED
      BY <3>1 DEF HeldInv, d
  <2>10. lost \in Int
    BY <2>4
  <2> HIDE DEF lost
  <2>11. lost \in 0..(troubles + IF stage = "packets" \/ video_index = 0 THEN 0 ELSE EncoderHolds)
    BY <2>4, <2>5, <2>6, <2>10
  <2> QED
    BY <2>8, <2>9, <2>11, Zenon DEF PicturesAccounted
<1> QED
  BY <1>1, <1>2, <1>3, InLineInvariant, MediaInvariant, PTL DEF MediaSpec

-----------------------------------------------------------------------------
(***************************************************************************)
(* What Process does in detail is what Transcoder makes of it.             *)
(***************************************************************************)
InMethod == {"prc_init", "prc_loop", "prc_read", "prc_drain", "prc_finish"}

LEMMA JobMethods ==
  /\ JobMethod = IF pc = "idle" THEN "none" ELSE IF pc = "end_write" THEN "WriteEnd" ELSE "Process"
  /\ JobMethod' = IF pc' = "idle" THEN "none" ELSE IF pc' = "end_write" THEN "WriteEnd" ELSE "Process"
BY DEF JobMethod

(* A step of the job moves the thread and nothing else of the Transcoder.   *)
LEMMA JobMoves ==
  ASSUME at # "dead", at' # "dead", pc \in InMethod \ {"prc_finish"}, pc' \in InMethod \ {"prc_finish"},
         UNCHANGED <<turnoff, trailer>>
  PROVE  /\ Process!Move("job", pc, pc')
         /\ UNCHANGED <<Process!wrapperVars, Process!ctlVars, Process!envVars>>
<1> USE DEF InMethod
<1>1. Process!At("job", pc)
  BY DEF Process!At
<1>2. Process!Goto("job", pc')
  BY DEF Process!Goto
<1> QED
  BY <1>1, <1>2, JobMethods DEF Process!Move, Process!wrapperVars, Process!inputVars,
     Process!outputVars, Process!ctlVars, Process!envVars

LEMMA JobStays ==
  ASSUME UNCHANGED <<pc, turnoff, trailer>>, at' = "dead" <=> at = "dead"
  PROVE  UNCHANGED Process!vars
BY JobMethods DEF Process!vars, Process!wrapperVars, Process!inputVars, Process!outputVars, Process!ctlVars,
   Process!threadVars, Process!envVars

(* The two objects are bound to contexts that are open.                     *)
LEMMA JobObjects ==
  ASSUME pc \in InMethod \ {"prc_finish"}
  PROVE  /\ Process!Objects = {0, 1}
         /\ \A s \in {0, 1} : ~Process!Detached(s)
         /\ 1 \in {1}
BY DEF InMethod, Process!Objects, Process!Detached

LEMMA JobSteps ==
  ASSUME at # "dead", at' # "dead", UNCHANGED <<turnoff, trailer>>
  PROVE  /\ pc = "prc_init" /\ pc' = "prc_loop" => Process!Next
         /\ pc = "prc_loop" /\ pc' = "prc_read" /\ ~turnoff => Process!Next
         /\ pc = "prc_loop" /\ pc' = "prc_drain" /\ turnoff => Process!Next
         /\ pc = "prc_read" /\ pc' \in {"prc_loop", "prc_drain"} => Process!Next
<1> USE DEF InMethod
<1>1. ASSUME Process!ProcessStep("job") PROVE Process!Next
  BY <1>1 DEF Process!Next, Process!Step
<1>2. ASSUME pc = "prc_init", pc' = "prc_loop" PROVE Process!PrcInitTools("job")
  BY <1>2, JobMoves, JobObjects DEF Process!PrcInitTools
<1>3. ASSUME pc = "prc_loop", pc' = IF turnoff THEN "prc_drain" ELSE "prc_read"
      PROVE  Process!PrcLoop("job")
  BY <1>3, JobMoves DEF Process!PrcLoop
<1>4. ASSUME pc = "prc_read", pc' = "prc_loop" PROVE Process!PrcReadPacket("job", 0)
  BY <1>4, JobMoves, JobObjects DEF Process!PrcReadPacket
<1>5. ASSUME pc = "prc_read", pc' = "prc_drain" PROVE Process!PrcReadEnds("job")
  BY <1>5, JobMoves DEF Process!PrcReadEnds
<1> QED
  BY <1>1, <1>2, <1>3, <1>4, <1>5 DEF Process!ProcessStep

(* An audio object dies of a packet that it cannot be given, or of one it   *)
(* is at work on.                                                          *)
LEMMA JobDies ==
  ASSUME at # "dead", at' = "dead", pc = "prc_read", UNCHANGED <<pc, turnoff, trailer>>
  PROVE  Process!Next
<1>1. Process!Crash("job", "prc_read", "audio_object")
  BY JobMethods DEF Process!Crash, Process!At, Process!Die, Process!inputVars, Process!outputVars,
     Process!ctlVars, Process!threadVars, Process!envVars
<1>2. 1 \in Process!Objects /\ 1 \in {1}
  BY DEF Process!Objects
<1>3. Process!PrcReadFaults("job")
  BY <1>1, <1>2 DEF Process!PrcReadFaults
<1> QED
  BY <1>3 DEF Process!Next, Process!Step, Process!ProcessStep

LEMMA DrainedIsDrain ==
  ASSUME MediaInv, Drained
  PROVE  Process!Next
<1>1. /\ pc = "prc_drain" /\ pc' = "prc_finish" /\ at = "done" /\ at' = "done"
      /\ UNCHANGED <<turnoff, trailer>>
  BY DEF Drained, Goto, sinkVars, audioVars
<1>2. Process!Move("job", "prc_drain", "prc_finish")
  BY <1>1, JobMethods DEF Process!Move, Process!At, Process!Goto
<1>3. Process!PrcDrain("job")
  BY <1>1, <1>2 DEF Process!PrcDrain, Process!Objects, Process!Emptied, Process!NoCtx,
     Process!inputVars, Process!ctlVars, Process!envVars
<1> QED
  BY <1>3 DEF Process!Next, Process!Step, Process!ProcessStep

LEMMA FinishIsFinish ==
  ASSUME MediaInv, Finish
  PROVE  Process!Next
<1>1. /\ pc = "prc_finish" /\ pc' = "idle" /\ at = "done" /\ at' = "done"
      /\ UNCHANGED <<turnoff, trailer>> /\ ~trailer
  BY DEF Finish, Goto, sinkVars, audioVars, MediaInv, Phase
<1>2. Process!Leave("job", "prc_finish")
  <2>1. Process!At("job", "prc_finish")
    BY <1>1 DEF Process!At
  <2>2. Process!Goto("job", "idle")
    BY <1>1 DEF Process!Goto
  <2>3. Process!Return("job")
    BY <1>1, <2>2, JobMethods DEF Process!Return
  <2> QED
    BY <1>1, <2>1, <2>3 DEF Process!Leave
<1>3. Process!SetState("Finished") /\ Process!UnlockProcess
  BY <1>1 DEF Process!SetState, Process!UnlockProcess
<1>4. Process!PrcFinish("job")
  BY <1>1, <1>2, <1>3 DEF Process!PrcFinish, Process!wrapperVars, Process!inputVars,
     Process!outputVars, Process!envVars
<1> QED
  BY <1>4 DEF Process!Next, Process!Step, Process!ProcessStep

LEMMA WriteEndIsCalled ==
  ASSUME MediaInv, CallWriteEnd
  PROVE  Process!Next
<1>1. /\ pc = "idle" /\ pc' = "end_write" /\ at = "done" /\ at' = "done"
      /\ UNCHANGED <<turnoff, trailer>> /\ ~trailer
  BY DEF CallWriteEnd, Goto, sinkVars, audioVars, MediaInv, Phase
<1>2. Process!Entry("WriteEnd") = "end_write"
  BY DEF Process!Entry, Process!Configs
<1>3. Process!Call("job", "WriteEnd")
  <2>1. Process!At("job", "idle") /\ Process!Goto("job", "end_write")
    BY <1>1 DEF Process!At, Process!Goto
  <2>2. Process!Goto("job", Process!Entry("WriteEnd"))
    BY <1>2, <2>1
  <2>3. UNCHANGED <<Process!wrapperVars, Process!ctlVars>>
    BY <1>1 DEF Process!wrapperVars, Process!inputVars, Process!outputVars, Process!ctlVars
  <2>4. JobMethod = "none" /\ JobMethod' = "WriteEnd"
    BY <1>1, JobMethods
  <2>5. /\ (IF trailer \/ pc = "end_write" THEN 4 ELSE 3) = 3
        /\ (IF trailer \/ pc = "end_write" THEN 4 ELSE 3)' = 4
    BY <1>1
  <2> QED
    <3>1. [t \in {"job", "operator"} |-> IF t = "job" THEN JobMethod ELSE "StopProcess"]'
            = [[t \in {"job", "operator"} |-> IF t = "job" THEN JobMethod ELSE "StopProcess"]
                 EXCEPT !["job"] = "WriteEnd"]
      BY <2>4
    <3>2. (IF trailer \/ pc = "end_write" THEN 4 ELSE 3)'
            = (IF trailer \/ pc = "end_write" THEN 4 ELSE 3) + 1
          /\ (IF trailer \/ pc = "end_write" THEN 4 ELSE 3) < 4
      BY <2>5
    <3> QED
      BY <2>1, <2>2, <2>3, <3>1, <3>2 DEF Process!Call
<1> QED
  BY <1>3 DEF Process!Next, Process!Environment, Process!Methods

LEMMA WriteEndIsEndWrite ==
  ASSUME MediaInv, WriteEnd
  PROVE  Process!Next
<1>1. /\ pc = "end_write" /\ pc' = "idle" /\ at = "done" /\ at' = "done"
      /\ UNCHANGED turnoff /\ ~trailer /\ trailer'
  BY DEF WriteEnd, Goto, audioVars, MediaInv, Phase
<1>2. Process!Leave("job", "end_write")
  <2>1. Process!At("job", "end_write")
    BY <1>1 DEF Process!At
  <2>2. Process!Goto("job", "idle")
    BY <1>1 DEF Process!Goto
  <2>3. Process!Return("job")
    BY <1>1, <2>2, JobMethods DEF Process!Return
  <2> QED
    BY <1>1, <2>1, <2>3 DEF Process!Leave
<1>3. Process!EndWrite("job")
  BY <1>1, <1>2 DEF Process!EndWrite, Process!inputVars, Process!ctlVars, Process!envVars
<1> QED
  BY <1>3 DEF Process!Next, Process!Step, Process!WalkStep

LEMMA StopIsArmed ==
  ASSUME MediaInv, StopProcess
  PROVE  Process!Next
<1>1. /\ pc = "prc_loop" /\ pc' = "prc_loop" /\ at # "dead" /\ at' = at
      /\ ~turnoff /\ turnoff' /\ UNCHANGED trailer
  BY DEF StopProcess, sinkVars, audioVars, MediaInv, Phase
<1>2. Process!Move("operator", "stp_arm", "stp_wait")
  BY <1>1, JobMethods DEF Process!Move, Process!At, Process!Goto
<1>3. Process!StpArm("operator")
  BY <1>1, <1>2 DEF Process!StpArm, Process!wrapperVars, Process!inputVars, Process!outputVars,
     Process!envVars, StopProcess
<1> QED
  BY <1>3 DEF Process!Next, Process!Step, Process!StopStep

(* The loop reads on only when the flag is down, the map is emptied and     *)
(* Finished reported only when both objects have been flushed, and the      *)
(* process dies only of an audio object that is given a packet or is at     *)
(* work on one: every step in the detail of the stream objects, of their    *)
(* codecs and of the muxer is a step of Transcoder, or none.                *)
THEOREM MediaImplementsProcess == MediaSpec => ImplementsProcess
<1>1. MediaInv /\ [MediaNext]_mediaVars => [Process!Next]_(Process!vars)
  <2> SUFFICES ASSUME MediaInv, [MediaNext]_mediaVars
               PROVE  Process!Next \/ UNCHANGED Process!vars
    OBVIOUS
  <2> USE DEF MediaInv, Phase, Goto
  <2>1. CASE InitTools
    <3>1. at # "dead" /\ at' # "dead" /\ UNCHANGED <<turnoff, trailer>>
      BY <2>1, AudioMoves DEF InitTools
    <3> QED
      BY <2>1, <3>1, JobSteps DEF InitTools
  <2>2. CASE Loop
    <3>1. at # "dead" /\ at' # "dead" /\ UNCHANGED <<turnoff, trailer>>
      BY <2>2 DEF Loop, sinkVars, audioVars
    <3> QED
      BY <2>2, <3>1, JobSteps DEF Loop
  <2>3. CASE read_packet
    BY <2>3, JobStays DEF read_packet, sinkVars, audioVars
  <2>4. CASE VideoPacket
    <3>1. at # "dead" /\ at' # "dead" /\ pc = "prc_read" /\ UNCHANGED <<turnoff, trailer>>
      BY <2>4 DEF VideoPacket, Delivers, Reading, audioVars
    <3> QED
      BY <2>4, <3>1, JobSteps DEF VideoPacket
  <2>5. CASE AudioPacket \/ AudioStep
    <3>1. /\ at # "dead" /\ pc = "prc_read" /\ UNCHANGED <<turnoff, trailer>>
          /\ pc' = IF at' \in {"between", "broken"} THEN "prc_loop" ELSE pc
      BY <2>5, AudioMoves DEF AudioPacket, Delivers, Reading, AudioStep, Returns
    <3>2. CASE at' \in {"between", "broken"}
      BY <3>1, <3>2, JobSteps
    <3>3. CASE at' = "dead"
      BY <3>1, <3>3, JobDies
    <3>4. CASE at' \notin {"between", "broken", "dead"}
      BY <3>1, <3>4, JobStays
    <3> QED
      BY <3>2, <3>3, <3>4
  <2>6. CASE LoopEnds
    <3>1. at' # "dead" /\ UNCHANGED <<turnoff, trailer>>
      BY <2>6, AudioMoves DEF LoopEnds
    <3>2. pc' = "prc_drain" /\ (pc = "prc_read" \/ (pc = "prc_loop" /\ turnoff))
      BY <2>6 DEF LoopEnds
    <3>3. at # "dead"
      BY <2>6 DEF LoopEnds, Reading
    <3> QED
      BY <3>1, <3>2, <3>3, JobSteps
  <2>7. CASE FlushVideo
    BY <2>7, JobStays DEF FlushVideo, audioVars
  <2>8. CASE FlushAudio
    <3>1. at # "dead" /\ at' # "dead"
      BY <2>8, AudioMoves DEF FlushAudio
    <3> QED
      BY <2>8, <3>1, JobStays DEF FlushAudio
  <2>9. CASE Drained \/ Finish \/ CallWriteEnd \/ WriteEnd \/ StopProcess
    BY <2>9, DrainedIsDrain, FinishIsFinish, WriteEndIsCalled, WriteEndIsEndWrite, StopIsArmed
  <2>10. CASE UNCHANGED mediaVars
    BY <2>10, JobStays DEF mediaVars, sinkVars, audioVars
  <2> QED
    BY <2>1, <2>2, <2>3, <2>4, <2>5, <2>6, <2>7, <2>8, <2>9, <2>10 DEF MediaNext, ProcessNext
<1> QED
  BY <1>1, MediaInvariant, PTL DEF MediaSpec, ImplementsProcess

-----------------------------------------------------------------------------
(***************************************************************************)
(* Why a transcode of a memory input ends: all that is left to do, in      *)
(* packets, samples, frames, pictures and places of the thread, is a       *)
(* natural number, and every step of Process makes it smaller.             *)
(***************************************************************************)
PlaceLeft == [prc_init |-> 5, prc_loop |-> 4, prc_read |-> 3, prc_drain |-> 2, prc_finish |-> 1,
              idle |-> 0, end_write |-> 0][pc]

(* The most that a packet brings: of audio, a round of the loop, to decode  *)
(* it, and for every unit of its samples up to three steps.                 *)
Share == 3 * Audio!In + 3

InputLeft == (Share + 1) * size + Share * Len(ahead)
AudioLeft == (IF pending THEN 3 * Audio!In + 2 ELSE 0) + 3 * fifo + Len(encoder)
               + (IF at \in {"done", "dead"} THEN 0 ELSE 1)
VideoLeft == Len(encoding) + (IF stage = "done" THEN 0 ELSE 1)

Work == InputLeft + AudioLeft + VideoLeft + PlaceLeft

(* The fields of the audio object that count.                               *)
LEMMA AudioFields ==
  ASSUME Audio!AudioTypeOK
  PROVE  /\ Audio!In \in Nat /\ Audio!Out \in Nat /\ Audio!Out > 0
         /\ fifo \in Nat /\ encoder \in Seq(Nat) /\ Len(encoder) \in Nat /\ pending \in BOOLEAN
BY AudioAssumption DEF Audio!AudioTypeOK, Audio!Format, Audio!In, Audio!Out

(* The work left is made of natural numbers.                                 *)
WorkTyped == InputLeft \in Nat /\ AudioLeft \in Nat /\ VideoLeft \in Nat /\ PlaceLeft \in Nat

(* It is, by the types.                                                     *)
LEMMA WorkIsNat ==
  ASSUME MediaInv, Audio!AudioTypeOK
  PROVE  WorkTyped
<1>1. InputLeft \in Nat
  <2>1. Share \in Nat /\ size \in Nat /\ Len(ahead) \in Nat
    BY AudioFields, LenProperties DEF Share, MediaInv, InputInv
  <2> QED
    BY <2>1 DEF InputLeft
<1>2. AudioLeft \in Nat
  BY AudioFields DEF AudioLeft
<1>3. VideoLeft \in Nat
  BY LenProperties DEF VideoLeft, MediaInv, PipeInv
<1>4. PlaceLeft \in Nat
  BY DEF PlaceLeft, MediaInv, Phase
<1> QED
  BY <1>1, <1>2, <1>3, <1>4 DEF WorkTyped

(* Some parts shrink by more than the others grow.                          *)
LEMMA WorkAddsUp ==
  ASSUME NEW i \in Int, NEW a \in Int, NEW v \in Int, NEW p \in Int, WorkTyped, WorkTyped',
         InputLeft' <= InputLeft + i, AudioLeft' <= AudioLeft + a,
         VideoLeft' <= VideoLeft + v, PlaceLeft' <= PlaceLeft + p, i + a + v + p < 0
  PROVE  Work' < Work
<1> DEFINE r == InputLeft
           s == AudioLeft
           t == VideoLeft
           u == PlaceLeft
           rr == InputLeft'
           ss == AudioLeft'
           tt == VideoLeft'
           uu == PlaceLeft'
<1>1. r \in Nat /\ s \in Nat /\ t \in Nat /\ u \in Nat
  BY DEF WorkTyped
<1>2. rr \in Nat /\ ss \in Nat /\ tt \in Nat /\ uu \in Nat
  BY DEF WorkTyped
<1>3. Work = r + s + t + u /\ Work' = rr + ss + tt + uu
  BY DEF Work
<1> HIDE DEF r, s, t, u, rr, ss, tt, uu
<1>4. rr <= r + i /\ ss <= s + a /\ tt <= t + v /\ uu <= u + p
  BY DEF r, s, t, u, rr, ss, tt, uu
<1> QED
  BY <1>1, <1>2, <1>3, <1>4

(* A packet is delivered, and brings its share to audio or video.           *)
LEMMA PacketBrings ==
  ASSUME MediaInv, Audio!AudioTypeOK
  PROVE  /\ Audio!ReadPacket \/ Audio!ReadUnstamped \/ Audio!DivideByZero \/ Audio!BrokenPacket
              => /\ fmt' = fmt
                 /\ IF at' \in {"between", "broken"} THEN AudioLeft' = AudioLeft
                                 ELSE AudioLeft' <= AudioLeft + (3 * Audio!In + 2)
         /\ \A j \in Jitters : Flow(j) => VideoLeft' <= VideoLeft + 1
<1>1. ASSUME Audio!ReadPacket \/ Audio!ReadUnstamped \/ Audio!DivideByZero \/ Audio!BrokenPacket
      PROVE  /\ fmt' = fmt
             /\ IF at' \in {"between", "broken"} THEN AudioLeft' = AudioLeft
                                 ELSE AudioLeft' <= AudioLeft + (3 * Audio!In + 2)
  <2>1. UNCHANGED <<fmt, fifo, encoder>> /\ at \notin {"done", "dead"}
    BY <1>1 DEF Audio!ReadPacket, Audio!ReadUnstamped, Audio!DivideByZero, Audio!BrokenPacket
  <2>2. Audio!In' = Audio!In
    BY <2>1 DEF Audio!In
  <2>3. IF at' \in {"between", "broken"} THEN pending' = pending ELSE TRUE
    BY <1>1 DEF Audio!ReadPacket, Audio!ReadUnstamped, Audio!DivideByZero, Audio!BrokenPacket
  <2> QED
    BY <2>1, <2>2, <2>3, AudioFields DEF AudioLeft
<1>2. ASSUME NEW j \in Jitters, Flow(j) PROVE VideoLeft' <= VideoLeft + 1
  <2>1. /\ encoding \in Seq(Aligned) /\ Len(encoding) \in Nat
        /\ Decoded(j) \in Aligned /\ stage' = stage
        /\ \/ encoding' = encoding \/ encoding' = Append(encoding, Decoded(j))
           \/ encoding' = Tail(Append(encoding, Decoded(j)))
    BY <1>2, FlowMoves, LenProperties DEF MediaInv, PipeInv
  <2>2. Len(encoding') \in Nat /\ Len(encoding') <= Len(encoding) + 1
    BY <2>1, PushAndPop
  <2> QED
    BY <2>1, <2>2 DEF VideoLeft
<1> QED
  BY <1>1, <1>2

(* A step of Flow uses up a packet, or the samples of a frame.              *)
LEMMA AudioStepWorks ==
  ASSUME Audio!AudioTypeOK, Audio!SamplesAccounted,
         \/ Audio!AudioDecode \/ Audio!AudioDecodeFails
         \/ Audio!LoadDelayed \/ Audio!LoadWrites \/ Audio!LoadFails \/ Audio!LoadCrashes
  PROVE  /\ fmt' = fmt
         /\ AudioLeft' <= AudioLeft - (IF at' \in {"between", "broken"} THEN 2 ELSE 1)
<1> USE AudioFields
<1>1. ASSUME fmt' = fmt PROVE Audio!In' = Audio!In
  BY <1>1 DEF Audio!In
<1>2. CASE Audio!AudioDecode
  <2>1. /\ fmt' = fmt /\ encoder' = encoder /\ pending /\ pending' = FALSE /\ at = "flow"
        /\ fifo' = fifo + Audio!In /\ at' \in {"between", "flow"}
    BY <1>2 DEF Audio!AudioDecode, Audio!Rest
  <2>2. /\ AudioLeft = 3 * Audio!In + 2 + 3 * fifo + Len(encoder) + 1
        /\ AudioLeft' = 0 + 3 * fifo' + Len(encoder) + 1
    BY <2>1 DEF AudioLeft
  <2>3. 3 * fifo' = 3 * fifo + 3 * Audio!In
    BY <2>1
  <2> DEFINE a == 3 * fifo
             i == 3 * Audio!In
             n == Len(encoder)
  <2>4. a \in Nat /\ i \in Nat /\ n \in Nat
    OBVIOUS
  <2>5. AudioLeft = i + 2 + a + n + 1 /\ AudioLeft' = 0 + (a + i) + n + 1
    BY <2>2, <2>3
  <2> HIDE DEF a, i, n
  <2>6. AudioLeft \in Int /\ AudioLeft' = AudioLeft - 2
    BY <2>4, <2>5
  <2> QED
    BY <2>1, <2>6
<1>3. CASE Audio!AudioDecodeFails
  BY <1>1, <1>3 DEF Audio!AudioDecodeFails, AudioLeft
<1>4. ASSUME NEW after \in Seq(Nat), Audio!Load(after), Len(after) <= Len(encoder) + 1,
             at' \in {"between", "flow"}, pending' \in {pending, FALSE}
      PROVE  /\ fmt' = fmt
             /\ AudioLeft' <= AudioLeft - (IF at' \in {"between", "broken"} THEN 2 ELSE 1)
  <2>1. fmt' = fmt /\ fifo' = fifo - Audio!Out /\ fifo >= Audio!Out /\ encoder' = after /\ at = "flow"
    BY <1>4 DEF Audio!Load
  <2>2. Len(encoder') \in Nat /\ Len(encoder') <= Len(encoder) + 1
    BY <1>4, <2>1, LenProperties
  <2>3. Audio!In' = Audio!In
    BY <1>1, <2>1
  <2> DEFINE left == IF pending THEN 3 * Audio!In + 2 ELSE 0
  <2>4. left \in Nat /\ left' \in Nat /\ left' <= left
    <3>1. CASE pending' = pending
      BY <2>3, <3>1
    <3>2. CASE pending' = FALSE
      BY <2>3, <3>2
    <3> QED
      BY <1>4, <3>1, <3>2
  <2> DEFINE l == left'
             a == 3 * fifo
             b == 3 * fifo'
             m == Len(encoder)
             n == Len(encoder')
  <2>5. AudioLeft = left + a + m + 1
    BY <2>1 DEF AudioLeft
  <2>6. AudioLeft' = l + b + n + 1
    BY <1>4 DEF AudioLeft
  <2>7. a \in Nat /\ b \in Nat /\ b <= a - 3
    BY <2>1
  <2>8. l \in Nat /\ left \in Nat /\ m \in Nat /\ n \in Nat /\ l <= left /\ n <= m + 1
    BY <2>2, <2>4
  <2> HIDE DEF left, l, a, b, m, n
  <2>9. AudioLeft \in Int /\ AudioLeft' \in Int /\ AudioLeft' <= AudioLeft - 2
    <3>1. l + b + n + 1 <= left + a + m + 1 - 2
      BY <2>7, <2>8
    <3> QED
      BY <2>5, <2>6, <2>7, <2>8, <3>1
  <2> QED
    BY <2>1, <2>9
<1>5. /\ Audio!Taken \in Seq(Nat) /\ Len(Audio!Taken) = Len(encoder) + 1
      /\ Tail(Audio!Taken) \in Seq(Nat) /\ Len(Tail(Audio!Taken)) = Len(encoder)
  <2>1. fed - fifo \in Nat
    BY DEF Audio!AudioTypeOK, Audio!SamplesAccounted
  <2> QED
    BY <2>1, PushAndPop DEF Audio!Taken
<1>6. Audio!Continue \/ Audio!GiveUp => at' \in {"between", "flow"} /\ pending' \in {pending, FALSE}
  BY DEF Audio!Continue, Audio!GiveUp, Audio!Rest
<1>7. CASE Audio!LoadDelayed \/ Audio!LoadWrites \/ Audio!LoadFails
  <2>1. Audio!Continue \/ Audio!GiveUp
    BY <1>7 DEF Audio!LoadDelayed, Audio!LoadWrites, Audio!LoadFails
  <2>2. Audio!Load(encoder) \/ Audio!Load(Audio!Taken) \/ Audio!Load(Tail(Audio!Taken))
    BY <1>7 DEF Audio!LoadDelayed, Audio!LoadWrites, Audio!LoadFails
  <2>3. at' \in {"between", "flow"} /\ pending' \in {pending, FALSE}
    BY <1>6, <2>1
  <2>4. CASE Audio!Load(encoder)
    <3>1. encoder \in Seq(Nat) /\ Len(encoder) <= Len(encoder) + 1
      OBVIOUS
    <3> QED
      BY <1>4, <2>3, <2>4, <3>1
  <2>5. CASE Audio!Load(Audio!Taken)
    <3>1. Audio!Taken \in Seq(Nat) /\ Len(Audio!Taken) <= Len(encoder) + 1
      BY <1>5
    <3> QED
      BY <1>4, <2>3, <2>5, <3>1
  <2>6. CASE Audio!Load(Tail(Audio!Taken))
    <3>1. Tail(Audio!Taken) \in Seq(Nat) /\ Len(Tail(Audio!Taken)) <= Len(encoder) + 1
      BY <1>5
    <3> QED
      BY <1>4, <2>3, <2>6, <3>1
  <2> QED
    BY <2>2, <2>4, <2>5, <2>6
<1>8. CASE Audio!LoadCrashes
  BY <1>1, <1>8 DEF Audio!LoadCrashes, AudioLeft
<1> QED
  BY <1>2, <1>3, <1>7, <1>8

(* So does the flush, frame by frame and picture by picture.                *)
LEMMA FlushWorks ==
  ASSUME MediaInv, Audio!AudioTypeOK
  PROVE  /\ Audio!FlushWrites \/ Audio!FlushFails \/ Audio!FlushEnds => AudioLeft' = AudioLeft - 1
         /\ VideoFlush => VideoLeft' = VideoLeft - 1
<1> USE AudioFields
<1>1. ASSUME fmt' = fmt PROVE Audio!In' = Audio!In
  BY <1>1 DEF Audio!In
<1>2. ASSUME Audio!FlushWrites PROVE AudioLeft' = AudioLeft - 1
  <2>1. /\ UNCHANGED <<fmt, pending, fifo, at>> /\ encoder # <<>> /\ encoder' = Tail(encoder)
        /\ at = "flush"
    BY <1>2 DEF Audio!FlushWrites
  <2>2. Len(encoder') = Len(encoder) - 1
    BY <2>1, HeadTailProperties
  <2>3. AudioLeft' = AudioLeft - 1
    BY <1>1, <2>1, <2>2 DEF AudioLeft
  <2> QED
    BY <2>3
<1>3. Audio!FlushFails \/ Audio!FlushEnds => AudioLeft' = AudioLeft - 1
  BY <1>1 DEF Audio!FlushFails, Audio!FlushEnds, AudioLeft
<1>4. ASSUME VideoFlush PROVE VideoLeft' = VideoLeft - 1
  <2>1. /\ encoding \in Seq(Aligned) /\ Len(encoding) \in Nat /\ stage = "flush"
        /\ \/ encoding # <<>> /\ encoding' = Tail(encoding) /\ stage' = stage
           \/ stage' = "done" /\ encoding' = encoding
    BY <1>4, FlushMoves, LenProperties DEF MediaInv, PipeInv
  <2>2. encoding # <<>> => Len(Tail(encoding)) = Len(encoding) - 1
    BY <2>1, HeadTailProperties
  <2> QED
    BY <2>1, <2>2 DEF VideoLeft
<1> QED
  BY <1>2, <1>3, <1>4

(* Action by action: what shrinks, and what grows by less.                  *)
LEMMA WorkNext ==
  ASSUME MediaInv, Audio!AudioTypeOK, Audio!SamplesAccounted, WorkTyped, WorkTyped', ProcessNext
  PROVE  Work' < Work
<1> USE DEF PlaceLeft
<1>1. /\ Audio!In \in Nat /\ Share \in Nat /\ Share = 3 * Audio!In + 3
      /\ size \in Nat /\ ahead \in Seq({"video", "audio"}) /\ Len(ahead) \in Nat
      /\ BufSize \in Nat /\ BufSize > 0
  BY AudioFields, LenProperties, BufSizeAssumption DEF Share, MediaInv, InputInv
<1>2. ASSUME fmt' = fmt PROVE Audio!In' = Audio!In /\ Share' = Share
  BY <1>2 DEF Audio!In, Share
<1>3. ASSUME UNCHANGED <<fmt, size, ahead>> PROVE InputLeft' = InputLeft
  BY <1>2, <1>3 DEF InputLeft
<1>4. ASSUME UNCHANGED audioVars PROVE AudioLeft' = AudioLeft
  BY <1>2, <1>4 DEF AudioLeft, audioVars
<1>5. ASSUME UNCHANGED videoVars PROVE VideoLeft' = VideoLeft
  BY <1>5 DEF VideoLeft, videoVars
<1>6. InputLeft \in Int /\ AudioLeft \in Int /\ VideoLeft \in Int
  BY DEF WorkTyped
(* A packet leaves the demuxer.                                             *)
<1>7. ASSUME NEW stream, Delivers(stream), fmt' = fmt
      PROVE  InputLeft' = InputLeft - Share
  <2>1. size' = size /\ ahead # <<>> /\ ahead' = Tail(ahead)
    BY <1>7 DEF Delivers
  <2>2. Len(ahead') = Len(ahead) - 1
    BY <1>1, <2>1, HeadTailProperties
  <2>3. Share * (Len(ahead) - 1) = Share * Len(ahead) - Share
    BY <1>1
  <2>4. InputLeft' = (Share + 1) * size + Share * (Len(ahead) - 1)
    BY <1>2, <1>7, <2>1, <2>2 DEF InputLeft
  <2> DEFINE x == (Share + 1) * size
             y == Share * Len(ahead)
  <2>5. x \in Int /\ y \in Int /\ InputLeft = x + y /\ InputLeft' = x + (y - Share)
    BY <1>1, <2>3, <2>4 DEF InputLeft
  <2> HIDE DEF x, y
  <2> QED
    BY <1>1, <2>5
<1>8. CASE InitTools
  <2>1. /\ UNCHANGED <<fmt, pending, fifo, encoder, inputVars, videoVars>>
        /\ pc = "prc_init" /\ pc' = "prc_loop"
        /\ at = "init" /\ at' \in {"between", "broken"}
    BY <1>8 DEF InitTools, Goto, Audio!InitalTool
  <2>2. AudioLeft' = AudioLeft
    BY <1>2, <2>1 DEF AudioLeft
  <2>3. InputLeft' <= InputLeft + 0 /\ AudioLeft' <= AudioLeft + 0 /\ VideoLeft' <= VideoLeft + 0
    BY <1>3, <1>5, <1>6, <2>1, <2>2 DEF inputVars
  <2>4. PlaceLeft' <= PlaceLeft + (-1)
    BY <2>1
  <2> QED
    BY <2>3, <2>4, WorkAddsUp
<1>9. CASE Loop \/ Drained \/ Finish
  <2>1. UNCHANGED <<inputVars, audioVars, videoVars>>
    BY <1>9 DEF Loop, Drained, Finish, sinkVars
  <2>2. PlaceLeft' <= PlaceLeft + (-1)
    BY <1>9 DEF Loop, Drained, Finish, Goto
  <2>3. InputLeft' <= InputLeft + 0 /\ AudioLeft' <= AudioLeft + 0 /\ VideoLeft' <= VideoLeft + 0
    BY <1>3, <1>4, <1>5, <1>6, <2>1 DEF inputVars, audioVars
  <2> QED
    BY <2>2, <2>3, WorkAddsUp
<1>10. CASE read_packet
  <2>1. /\ UNCHANGED <<pc, audioVars, videoVars>> /\ size' = size - Count /\ ahead = <<>>
        /\ ahead' = SubSeq(buffer, ptr + 1, ptr + Count) /\ Count > 0
    BY <1>10 DEF read_packet, sinkVars
  <2>2. Count \in Nat /\ Count <= size
    BY <1>1 DEF Count
  <2>3. Len(ahead) = 0 /\ Len(ahead') = Count
    <3>1. buffer \in Seq({"video", "audio"}) /\ ptr \in Nat /\ ptr + size = Len(buffer)
      BY InputFacts DEF MediaInv, InputInv
    <3>2. Len(SubSeq(buffer, ptr + 1, ptr + Count)) = Count
      BY <1>1, <2>2, <3>1
    <3> QED
      BY <2>1, <3>2
  <2>4. InputLeft' <= InputLeft + (-1)
    <3>1. fmt' = fmt
      BY <2>1 DEF audioVars
    <3>2. /\ InputLeft' = (Share + 1) * (size - Count) + Share * Count
          /\ InputLeft = (Share + 1) * size + Share * 0
      BY <1>2, <2>1, <2>3, <3>1 DEF InputLeft
    <3> HIDE DEF Count
    <3>3. (Share + 1) * (size - Count) + Share * Count = (Share + 1) * size - Count
      BY <1>1, <2>2
    <3> DEFINE x == (Share + 1) * size
    <3>4. x \in Int /\ InputLeft' = x - Count /\ InputLeft = x
      BY <1>1, <3>2, <3>3
    <3> HIDE DEF x
    <3> QED
      BY <2>1, <2>2, <3>4
  <2>5. AudioLeft' <= AudioLeft + 0 /\ VideoLeft' <= VideoLeft + 0
    BY <1>4, <1>5, <1>6, <2>1
  <2>6. PlaceLeft' <= PlaceLeft + 0
    BY <2>1 DEF MediaInv, Phase
  <2> QED
    BY <2>4, <2>5, <2>6, WorkAddsUp
<1>11. CASE VideoPacket
  <2>1. PICK j \in Jitters : Flow(j)
    BY <1>11 DEF VideoPacket
  <2>2. Delivers("video") /\ UNCHANGED audioVars /\ pc = "prc_read" /\ pc' = "prc_loop"
    BY <1>11 DEF VideoPacket, Delivers, Reading
  <2>3. VideoLeft' <= VideoLeft + 1
    BY <2>1, PacketBrings
  <2>4. InputLeft' <= InputLeft + (-Share) /\ AudioLeft' <= AudioLeft + 0
    BY <1>1, <1>4, <1>6, <1>7, <2>2 DEF audioVars
  <2>5. PlaceLeft' <= PlaceLeft + 1
    BY <2>2
  <2>6. -Share \in Int /\ -Share + 0 + 1 + 1 < 0
    BY <1>1
  <2> QED
    BY <2>3, <2>4, <2>5, <2>6, WorkAddsUp
<1>12. CASE AudioPacket
  <2>1. /\ Delivers("audio") /\ UNCHANGED videoVars /\ pc = "prc_read"
        /\ pc' = IF at' \in {"between", "broken"} THEN "prc_loop" ELSE pc
        /\ fmt' = fmt
        /\ IF at' \in {"between", "broken"} THEN AudioLeft' = AudioLeft
                       ELSE AudioLeft' <= AudioLeft + (3 * Audio!In + 2)
    BY <1>12, PacketBrings DEF AudioPacket, Delivers, Reading, Returns
  <2>2. InputLeft' <= InputLeft + (-Share) /\ VideoLeft' <= VideoLeft + 0
    BY <1>1, <1>5, <1>6, <1>7, <2>1
  <2>3. CASE at' \in {"between", "broken"}
    <3>1. AudioLeft' <= AudioLeft + 0 /\ PlaceLeft' <= PlaceLeft + 1
      BY <1>6, <2>1, <2>3
    <3>2. -Share \in Int /\ -Share + 0 + 0 + 1 < 0
      BY <1>1
    <3> QED
      BY <2>2, <3>1, <3>2, WorkAddsUp
  <2>4. CASE at' \notin {"between", "broken"}
    <3>1. AudioLeft' <= AudioLeft + (3 * Audio!In + 2) /\ PlaceLeft' <= PlaceLeft + 0
      BY <2>1, <2>4
    <3>2. -Share \in Int /\ 3 * Audio!In + 2 \in Int /\ -Share + (3 * Audio!In + 2) + 0 + 0 < 0
      BY <1>1
    <3> QED
      BY <2>2, <3>1, <3>2, WorkAddsUp
  <2> QED
    BY <2>3, <2>4
<1>13. CASE AudioStep
  <2>1. /\ UNCHANGED <<inputVars, videoVars>> /\ pc = "prc_read"
        /\ pc' = IF at' \in {"between", "broken"} THEN "prc_loop" ELSE pc
        /\ fmt' = fmt
        /\ AudioLeft' <= AudioLeft - (IF at' \in {"between", "broken"} THEN 2 ELSE 1)
    BY <1>13, AudioStepWorks DEF AudioStep, Returns
  <2>2. InputLeft' <= InputLeft + 0 /\ VideoLeft' <= VideoLeft + 0
    BY <1>3, <1>5, <1>6, <2>1 DEF inputVars
  <2>3. CASE at' \in {"between", "broken"}
    <3>1. AudioLeft' <= AudioLeft + (-2) /\ PlaceLeft' <= PlaceLeft + 1
      BY <1>6, <2>1, <2>3
    <3> QED
      BY <2>2, <3>1, WorkAddsUp
  <2>4. CASE at' \notin {"between", "broken"}
    <3>1. AudioLeft' <= AudioLeft + (-1) /\ PlaceLeft' <= PlaceLeft + 0
      BY <1>6, <2>1, <2>4
    <3> QED
      BY <2>2, <3>1, WorkAddsUp
  <2> QED
    BY <2>3, <2>4
<1>14. CASE LoopEnds
  <2>1. /\ UNCHANGED <<size, ahead, fmt, pending, fifo, encoder, encoding>>
        /\ pc \in {"prc_read", "prc_loop"} /\ pc' = "prc_drain"
        /\ at \in {"between", "broken"} /\ at' = "flush" /\ stage = "packets" /\ stage' = "flush"
    BY <1>14 DEF LoopEnds, Goto, VideoEnds, Audio!EndOfInput
  <2>2. InputLeft' <= InputLeft + 0 /\ AudioLeft' <= AudioLeft + 0 /\ VideoLeft' <= VideoLeft + 0
    BY <1>2, <1>3, <1>6, <2>1 DEF AudioLeft, VideoLeft
  <2>3. PlaceLeft' <= PlaceLeft + (-1)
    BY <2>1
  <2> QED
    BY <2>2, <2>3, WorkAddsUp
<1>15. CASE FlushVideo
  <2>1. UNCHANGED <<pc, inputVars, audioVars>> /\ VideoLeft' = VideoLeft - 1 /\ pc = "prc_drain"
    BY <1>15, FlushWorks DEF FlushVideo, VideoTurn
  <2>2. InputLeft' <= InputLeft + 0 /\ AudioLeft' <= AudioLeft + 0 /\ VideoLeft' <= VideoLeft + (-1)
    BY <1>3, <1>4, <1>6, <2>1 DEF inputVars, audioVars
  <2>3. PlaceLeft' <= PlaceLeft + 0
    BY <2>1
  <2> QED
    BY <2>2, <2>3, WorkAddsUp
<1>16. CASE FlushAudio
  <2>1. UNCHANGED <<pc, inputVars, videoVars>> /\ AudioLeft' = AudioLeft - 1 /\ pc = "prc_drain"
        /\ fmt' = fmt
    BY <1>16, FlushWorks DEF FlushAudio, AudioTurn, Audio!FlushWrites, Audio!FlushFails, Audio!FlushEnds
  <2>2. InputLeft' <= InputLeft + 0 /\ AudioLeft' <= AudioLeft + (-1) /\ VideoLeft' <= VideoLeft + 0
    BY <1>3, <1>5, <1>6, <2>1 DEF inputVars
  <2>3. PlaceLeft' <= PlaceLeft + 0
    BY <2>1
  <2> QED
    BY <2>2, <2>3, WorkAddsUp
<1> QED
  BY <1>8, <1>9, <1>10, <1>11, <1>12, <1>13, <1>14, <1>15, <1>16 DEF ProcessNext

(* The rest is not the work of Process: StopProcess, and WriteEnd.          *)
LEMMA OthersDoNotWork ==
  ASSUME StopProcess \/ CallWriteEnd \/ WriteEnd
  PROVE  Work' = Work
<1>1. /\ UNCHANGED <<size, ahead, fmt, pending, fifo, encoder, at, encoding, stage>>
      /\ PlaceLeft' = PlaceLeft
  BY DEF StopProcess, CallWriteEnd, WriteEnd, Goto, inputVars, sinkVars, videoVars, audioVars, PlaceLeft
<1> QED
  BY <1>1 DEF Work, InputLeft, AudioLeft, VideoLeft, Share, Audio!In

(* The work left is a natural number, which every step of Process makes     *)
(* smaller and no other step changes.  So Process takes no more steps than  *)
(* there is work when it starts, whatever the buffer, the format, what goes *)
(* wrong and who stops it, which is why it ends as MemoryInputEnds says.    *)
THEOREM ProcessUsesUpWork ==
  MediaSpec => /\ [](Work \in Nat)
               /\ [][IF ProcessNext THEN Work' < Work ELSE Work' = Work]_mediaVars
<1>1. MediaInv /\ Audio!AudioTypeOK => WorkTyped
  BY WorkIsNat
<1>2. WorkTyped => Work \in Nat
  BY DEF WorkTyped, Work
<1>3. MediaInv /\ Audio!AudioTypeOK /\ Audio!SamplesAccounted /\ WorkTyped /\ WorkTyped'
      /\ [MediaNext]_mediaVars
        => [IF ProcessNext THEN Work' < Work ELSE Work' = Work]_mediaVars
  BY WorkNext, OthersDoNotWork DEF MediaNext
<1> QED
  BY <1>1, <1>2, <1>3, MediaInvariant, PTL DEF MediaSpec
=============================================================================
