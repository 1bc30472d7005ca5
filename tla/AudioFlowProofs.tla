-------------------------- MODULE AudioFlowProofs --------------------------
(***************************************************************************)
(* What TLAPS proves of AudioFlow, for every format, delay, mix of mishaps *)
(* and number of packets: its types, that a flush is complete, that the    *)
(* stamps computed packet by packet increase, and that they stay with the  *)
(* time of their samples.                                                  *)
(***************************************************************************)
EXTENDS AudioFlow, NumberLemmas, SequenceTheorems

(* A format's fields, as the proofs use them. *)
LEMMA FormatFields ==
  ASSUME fmt \in Formats
  PROVE  /\ In \in Nat /\ In > 0 /\ Out \in Nat /\ Out > 0
         /\ fmt.num \in Nat /\ fmt.den \in Nat /\ fmt.den > 0
         /\ fmt.duration \in Nat /\ fmt.lead \in Int
BY FormatsAssumption DEF Format, In, Out

LEMMA TicksAreInt ==
  ASSUME fmt \in Formats, NEW n \in Nat
  PROVE  Ticks(n) \in Int
<1>1. n * fmt.num \in Int
  BY FormatFields
<1>2. (n * fmt.num) \div fmt.den \in Int
  BY <1>1, FormatFields
<1> QED BY <1>2 DEF Ticks

(* The stamp computed from a packet is a whole number of ticks. *)
LEMMA NowPtsIsInt ==
  ASSUME fmt \in Formats, NEW n \in Nat, fmt.duration > 0
  PROVE  NowPts(n) \subseteq Int
<1> DEFINE revised == IF Due(n) < 0 THEN 0 ELSE Due(n)
           product == Whole(n) * In * _packet_duration
           exact   == product \div Out
<1>1. Due(n) \in Int /\ _packet_duration \in Int
  BY TicksAreInt, FormatFields DEF Due, _packet_duration
<1>2. revised \in Int
  BY <1>1
<1>3. Whole(n) = revised \div fmt.duration
  BY DEF Whole
<1>4. Whole(n) \in Int
  <2> HIDE DEF revised
  <2> QED BY <1>2, <1>3, FormatFields
<1>5. Whole(n) * In \in Int
  BY <1>4, FormatFields
<1>6. product \in Int
  BY <1>1, <1>5
<1>7. exact \in Int
  <2> HIDE DEF product
  <2> QED BY <1>6, FormatFields
<1>8. NowPts(n) = {exact} \cup IF product % Out = 0 /\ exact > 0 THEN {exact - 1} ELSE {}
  BY DEF NowPts
<1> HIDE DEF exact, product
<1> QED BY <1>7, <1>8

LEMMA InitAudioTypeOK == Init => AudioTypeOK
<1> SUFFICES ASSUME Init PROVE AudioTypeOK
  OBVIOUS
<1>1. NoStamp \in [stamp : Int, first : Nat] /\ <<>> \in Seq(Nat) /\ 0 \in 0..MaxPackets
  BY PacketsAssumption DEF NoStamp
<1>2. fmt \in Formats /\ encoder = <<>> /\ last = NoStamp /\ packets = 0 /\ mishaps = {}
  BY DEF Init
<1>3. at = "init" /\ pending = FALSE /\ now_pts = 0 /\ fed = 0 /\ fifo = 0 /\ frames = 0
  BY DEF Init
<1>4. mishaps \subseteq AllMishaps \cup {"order", "division"} /\ pending \in BOOLEAN
      /\ packets \in 0..MaxPackets /\ encoder \in Seq(Nat)
  BY <1>1, <1>2, <1>3
<1>5. now_pts \in Int /\ fed \in Nat /\ fifo \in Nat /\ frames \in Nat
      /\ at \in {"init", "broken", "between", "flow", "flush", "done", "dead"}
  BY <1>3
<1> QED BY <1>1, <1>2, <1>4, <1>5 DEF AudioTypeOK

(* The steps of the loop, apart from LoadFails, and their common part. *)
LEMMA TakenIsSeq ==
  ASSUME AudioTypeOK, fifo <= fed
  PROVE  /\ Taken \in Seq(Nat) /\ Taken # <<>> /\ Len(Taken) = Len(encoder) + 1
         /\ Tail(Taken) \in Seq(Nat) /\ Len(Tail(Taken)) = Len(encoder)
         /\ Head(Taken) \in Nat
<1>1. fed - fifo \in Nat /\ encoder \in Seq(Nat)
  BY DEF AudioTypeOK
<1>2. Taken \in Seq(Nat) /\ Taken # <<>> /\ Len(Taken) = Len(encoder) + 1
  BY <1>1 DEF Taken
<1> HIDE DEF Taken
<1> QED BY <1>1, <1>2

LEMMA NextAudioTypeOK ==
  ASSUME AudioTypeOK, fifo <= fed, [Next]_vars
  PROVE  AudioTypeOK'
<1> USE FormatFields DEF AudioTypeOK, AllMishaps
<1>1. CASE ReadPacket
  <2>1. packets \in Nat /\ packets + 1 \in 0..MaxPackets /\ packets * In \in Nat
    BY <1>1, PacketsAssumption DEF ReadPacket
  <2>2. now_pts' \in Int
    BY <1>1, <2>1, NowPtsIsInt DEF ReadPacket
  <2> QED BY <1>1, <2>1, <2>2 DEF ReadPacket
<1>2. CASE DivideByZero
  BY <1>2, PacketsAssumption DEF DivideByZero
<1>3. CASE LosePacket
  BY <1>3, PacketsAssumption, MishapsAssumption DEF LosePacket, May
<1>4. CASE AudioDecode
  <2>1. In \in Nat
    OBVIOUS
  <2>2. fed' \in Nat /\ fifo' \in Nat /\ pending' = FALSE
    BY <1>4, <2>1 DEF AudioDecode
  <2>3. at' \in {"between", "flow"}
    BY <1>4 DEF AudioDecode, Rest
  <2> QED BY <1>4, <2>2, <2>3 DEF AudioDecode
<1>5. CASE AudioDecodeFails
  BY <1>5, MishapsAssumption DEF AudioDecodeFails, May
<1>6. ASSUME NEW after \in Seq(Nat), Load(after)
      PROVE  fmt' = fmt /\ packets' = packets /\ fed' \in Nat /\ fifo' \in Nat
             /\ encoder' \in Seq(Nat)
  BY <1>6 DEF Load
<1>7. _packet_duration \in Int
  BY TicksAreInt DEF _packet_duration
<1>8. /\ Continue => at' \in {"between", "flow"} /\ now_pts' \in Int /\ pending' = pending
      /\ GiveUp => at' = "between" /\ now_pts' = now_pts /\ pending' = FALSE
  BY <1>7 DEF Continue, GiveUp, Rest
<1>9. CASE LoadDelayed
  BY <1>9, <1>6, <1>8, TakenIsSeq DEF LoadDelayed
<1>10. CASE LoadWrites
  <2>1. Load(Tail(Taken)) /\ Continue
    BY <1>10 DEF LoadWrites
  <2>2. last' \in [stamp : Int, first : Nat] /\ frames' \in Nat /\ mishaps' = mishaps
    BY <1>10, TakenIsSeq DEF LoadWrites
  <2> QED BY <1>6, <1>8, <2>1, <2>2, TakenIsSeq
<1>11. CASE LoadFails
  <2>1. \E after \in Seq(Nat) : Load(after)
    BY <1>11, TakenIsSeq DEF LoadFails
  <2>2. mishaps' \subseteq AllMishaps \cup {"order", "division"}
    BY <1>11, MishapsAssumption DEF LoadFails, May
  <2> QED BY <1>11, <1>6, <1>8, <2>1, <2>2 DEF LoadFails
<1>12. CASE LoadCrashes
  BY <1>12, MishapsAssumption DEF LoadCrashes, May
<1>13. CASE EndOfInput
  BY <1>13 DEF EndOfInput
<1>14. CASE FlushWrites
  BY <1>14 DEF FlushWrites
<1>15. CASE FlushFails
  BY <1>15, MishapsAssumption DEF FlushFails, May
<1>16. CASE FlushEnds
  BY <1>16 DEF FlushEnds
<1>17. CASE UNCHANGED vars
  BY <1>17 DEF vars
<1>18. CASE InitalTool
  BY <1>18, MishapsAssumption DEF InitalTool, May
<1>19. CASE BrokenPacket
  <2>1. packets' \in 0..MaxPackets
    BY <1>19, PacketsAssumption DEF BrokenPacket
  <2>2. at' \in {"broken", "dead"} /\ mishaps' \subseteq AllMishaps \cup {"order", "division"}
    BY <1>19, MishapsAssumption DEF BrokenPacket, May
  <2> QED BY <1>19, <2>1, <2>2 DEF BrokenPacket
<1>20. CASE ReadUnstamped
  <2>1. now_pts' \in Int /\ packets' \in 0..MaxPackets /\ mishaps' \subseteq AllMishaps
                                                     \cup {"order", "division"}
    BY <1>20, PacketsAssumption, MishapsAssumption DEF ReadUnstamped, May, Far
  <2> QED BY <1>20, <2>1 DEF ReadUnstamped
<1> QED BY <1>18, <1>19, <1>20, <1>1, <1>2, <1>3, <1>4, <1>5, <1>9, <1>10, <1>11, <1>12, <1>13, <1>14, <1>15,
           <1>16, <1>17 DEF Next

(* A step that records a refusal leaves nothing to account for but the size *)
(* of the FIFO.                                                             *)
LEMMA RefusalExcuses ==
  ASSUME NEW why \in Refusals, mishaps' = mishaps \cup {why}, fifo' <= fed'
  PROVE  SamplesAccounted'
BY DEF SamplesAccounted, Refused

LEMMA NextSamplesAccounted ==
  ASSUME AudioTypeOK, SamplesAccounted, [Next]_vars
  PROVE  SamplesAccounted'
<1>1. In \in Nat /\ Out \in Nat /\ Out > 0
  BY FormatFields DEF AudioTypeOK
<1>2. fed \in Nat /\ fifo \in Nat /\ frames \in Nat /\ encoder \in Seq(Nat)
      /\ Len(encoder) \in Nat /\ fifo <= fed
  BY DEF AudioTypeOK, SamplesAccounted
<1>3. \A n \in Nat : Out * (n + 1) = Out * n + Out
  BY <1>1
<1>4. CASE ReadPacket
  BY <1>4 DEF ReadPacket, SamplesAccounted, Refused, Out
<1>5. CASE DivideByZero
  BY <1>5 DEF DivideByZero, SamplesAccounted, Refused, Refusals, Out
<1>6. CASE LosePacket
  BY <1>6 DEF LosePacket, May, SamplesAccounted, Refused, Refusals, Out
<1>7. CASE AudioDecode
  <2>1. UNCHANGED <<fmt, frames, encoder, mishaps>> /\ fed' = fed + In /\ fifo' = fifo + In
        /\ at' = Rest(fifo', FALSE)
    BY <1>7 DEF AudioDecode
  <2>2. Out' = Out
    BY <2>1 DEF Out
  <2>3. at' \in {"between", "flow"} /\ (at' = "between" => fifo' < Out)
    BY <2>1 DEF Rest
  <2>4. Len(encoder') = Len(encoder) /\ Out * (frames + Len(encoder)) \in Nat
    BY <1>1, <1>2, <2>1
  <2>5. ASSUME ~Refused PROVE fed' = fifo' + Out' * (frames' + Len(encoder'))
    BY <1>1, <1>2, <2>1, <2>2, <2>4, <2>5 DEF SamplesAccounted
  <2>6. fifo' <= fed' /\ Refused' = Refused
    BY <1>1, <1>2, <2>1 DEF Refused
  <2> QED BY <2>2, <2>3, <2>5, <2>6 DEF SamplesAccounted
<1>8. CASE AudioDecodeFails
  BY <1>8 DEF AudioDecodeFails, May, SamplesAccounted, Refused, Refusals, Out
<1>9. ASSUME NEW after, Load(after)
      PROVE  Out' = Out /\ fed' = fed /\ fifo' = fifo - Out /\ encoder' = after /\ fifo' <= fed'
  BY <1>9, <1>1, <1>2 DEF Load, Out
<1>10. Continue => at' \in {"between", "flow"} /\ (at' = "between" => fifo' < Out)
  BY DEF Continue, Rest
<1>11. CASE LoadDelayed
  <2>1. Load(Taken) /\ Continue /\ UNCHANGED <<frames, mishaps>>
    BY <1>11 DEF LoadDelayed
  <2>2. Out * (frames + Len(encoder')) = Out * (frames + Len(encoder)) + Out
    <3>1. Len(encoder') = Len(encoder) + 1
      BY <2>1, <1>9, TakenIsSeq DEF SamplesAccounted
    <3>2. frames + Len(encoder') = (frames + Len(encoder)) + 1 /\ frames + Len(encoder) \in Nat
      BY <3>1, <1>2
    <3> QED BY <3>2, <1>3
  <2> QED BY <1>1, <1>2, <1>9, <1>10, <2>1, <2>2 DEF SamplesAccounted, Refused
<1>12. CASE LoadWrites
  <2>1. Load(Tail(Taken)) /\ Continue /\ frames' = frames + 1 /\ mishaps' = mishaps
    BY <1>12 DEF LoadWrites
  <2>2. Out * (frames' + Len(encoder')) = Out * (frames + Len(encoder)) + Out
    <3>1. Len(encoder') = Len(encoder)
      BY <2>1, <1>9, TakenIsSeq DEF SamplesAccounted
    <3>2. frames' + Len(encoder') = (frames + Len(encoder)) + 1 /\ frames + Len(encoder) \in Nat
      BY <3>1, <2>1, <1>2
    <3> QED BY <3>2, <1>3
  <2> QED BY <1>1, <1>2, <1>9, <1>10, <2>1, <2>2 DEF SamplesAccounted, Refused
<1>13. CASE LoadFails
  <2>1. (Load(encoder) \/ Load(Tail(Taken))) /\ \E why \in Refusals : mishaps' = mishaps \cup {why}
    BY <1>13 DEF LoadFails, May, Refusals
  <2> QED BY <2>1, <1>9, RefusalExcuses
<1>14. CASE LoadCrashes
  BY <1>14 DEF LoadCrashes, May, SamplesAccounted, Refused, Refusals, Out
<1>15. CASE EndOfInput
  BY <1>15 DEF EndOfInput, SamplesAccounted, Refused, Out
<1>16. CASE FlushWrites
  <2>1. UNCHANGED <<fmt, at, fed, fifo, mishaps>> /\ frames' = frames + 1 /\ encoder # <<>>
        /\ encoder' = Tail(encoder) /\ at = "flush"
    BY <1>16 DEF FlushWrites
  <2>2. frames' + Len(encoder') = frames + Len(encoder) /\ Out' = Out
    BY <2>1, <1>2 DEF Out
  <2> QED BY <2>1, <2>2 DEF SamplesAccounted, Refused
<1>17. CASE FlushFails
  <2>1. fed' = fed /\ fifo' = fifo /\ \E why \in Refusals : mishaps' = mishaps \cup {why}
    BY <1>17 DEF FlushFails, May, Refusals
  <2> QED BY <2>1, <1>2, RefusalExcuses
<1>18. CASE FlushEnds
  BY <1>18 DEF FlushEnds, SamplesAccounted, Refused, Out
<1>19. CASE UNCHANGED vars
  BY <1>19 DEF vars, SamplesAccounted, Refused, Out
<1>20. CASE InitalTool
  BY <1>20 DEF InitalTool, May, SamplesAccounted, Refused, Refusals, Out
<1>21. CASE BrokenPacket
  BY <1>21 DEF BrokenPacket, May, SamplesAccounted, Refused, Refusals, Out
<1>22. CASE ReadUnstamped
  BY <1>22 DEF ReadUnstamped, May, SamplesAccounted, Refused, Refusals, Out
<1> QED BY <1>4, <1>5, <1>6, <1>7, <1>8, <1>11, <1>12, <1>13, <1>14, <1>15, <1>16, <1>17,
           <1>18, <1>19, <1>20, <1>21, <1>22 DEF Next

(* Audio's state keeps its types, and every sample that is decoded is in    *)
(* one of three places until a frame is refused.                            *)
THEOREM AudioAccounted == Spec => [](AudioTypeOK /\ SamplesAccounted)
<1>1. Init => AudioTypeOK /\ SamplesAccounted
  <2>1. Init => SamplesAccounted
    BY FormatFields DEF Init, SamplesAccounted, Refused
  <2> QED BY <2>1, InitAudioTypeOK
<1>2. AudioTypeOK /\ SamplesAccounted /\ [Next]_vars => (AudioTypeOK /\ SamplesAccounted)'
  BY NextAudioTypeOK, NextSamplesAccounted DEF SamplesAccounted
<1> QED BY <1>1, <1>2, PTL DEF Spec

(* FlushEncoder leaves less than an output frame behind: what Audio drops   *)
(* at the end of a stream is the rest in the FIFO, whatever the frame       *)
(* lengths, the delay of the encoder and the packets that were lost.        *)
THEOREM FlushComplete == Spec => []FlushIsComplete
<1>1. AudioTypeOK /\ SamplesAccounted => FlushIsComplete
  <2> SUFFICES ASSUME AudioTypeOK, SamplesAccounted, at = "done", ~Refused
               PROVE  fed - Out * frames \in 0..(Out - 1)
    BY DEF FlushIsComplete
  <2>1. fed = fifo + Out * (frames + Len(encoder)) /\ fifo < Out /\ Len(encoder) = 0
    BY DEF SamplesAccounted
  <2>2. Out \in Nat /\ frames \in Nat /\ fifo \in Nat /\ Out * frames \in Nat
    BY FormatFields DEF AudioTypeOK
  <2> QED BY <2>1, <2>2
<1> QED BY <1>1, AudioAccounted, PTL

(* Audio's variables keep their types, in every mix of mishaps.            *)
THEOREM AudioTypes == Spec => []AudioTypeOK
BY AudioAccounted, PTL

-----------------------------------------------------------------------------
(***************************************************************************)
(* The stamps.  Every packet starts the clock anew, from its own time in   *)
(* whole durations; what was stamped before must lie before it.  It does   *)
(* because the loop of Flow stamps no frame beyond the samples it was      *)
(* given, and leaves less than an output frame in the FIFO.                *)
(***************************************************************************)

(* A format of the kind the demuxers tell: the duration of a packet is the  *)
(* length of its frame, rounded down, and a unit of samples lasts two ticks *)
(* or more, so that what is lost in rounding a stamp does not matter.       *)
Steady == /\ fmt.duration > 0 /\ fmt.duration * fmt.den <= In * fmt.num
          /\ _packet_duration >= 2 * Out /\ fmt.lead >= 0

(* Nothing that takes a frame, or a stamp, has gone wrong. *)
Spared == mishaps \cap {"encode", "write", "nopts"} = {}

(* The time of the latest packet, times the length of an output frame.      *)
Reached == Whole((packets - 1) * In) * (In * _packet_duration)

(* The stamps given out while the latest packet is at work: from its own    *)
(* time on, and by less than a packet beyond.                               *)
OrderInv ==
  Steady /\ Spared =>
    /\ "order" \notin mishaps
    /\ packets = 0 => last.stamp = -1
    /\ packets > 0 => Out * last.stamp <= Reached + (In - 1) * _packet_duration
    /\ at = "flow" =>
         /\ packets > 0 /\ last.stamp < now_pts
         /\ Out * now_pts <=
              Reached + (Out - 1 + (IF pending THEN 0 ELSE In) - fifo) * _packet_duration

(* The whole durations before a packet: one more with every packet.         *)
LEMMA WholeGrows ==
  ASSUME fmt \in Formats, Steady, NEW k \in Nat
  PROVE  /\ Whole(k * In) \in Nat
         /\ Whole(k * In) + 1 <= Whole((k + 1) * In)
<1> USE FormatFields
<1> DEFINE d == fmt.duration
<1>1. d \in Nat /\ d > 0 /\ d * fmt.den <= In * fmt.num /\ fmt.lead \in Nat
  BY DEF Steady
<1>2. ASSUME NEW j \in Nat
      PROVE  /\ Ticks(j * In) \in Nat
             /\ Whole(j * In) = Due(j * In) \div d
             /\ Whole(j * In) \in Nat
  <2>1. (j * In) * fmt.num \in Nat
    OBVIOUS
  <2>2. Ticks(j * In) \in Int
    BY <2>1, Quotient DEF Ticks
  <2>3. 0 <= Ticks(j * In)
    BY <2>1, QuotientAtLeast DEF Ticks
  <2>4. Due(j * In) \in Nat
    BY <1>1, <2>2, <2>3 DEF Due
  <2> HIDE DEF d
  <2>5. Whole(j * In) = Due(j * In) \div d
    BY <2>4 DEF Whole, d
  <2>6. Due(j * In) \div d \in Int /\ 0 <= Due(j * In) \div d
    BY <1>1, <2>4, Quotient, QuotientAtLeast
  <2> QED
    BY <2>2, <2>3, <2>5, <2>6
<1> HIDE DEF d
<1>3. Ticks(k * In) + d <= Ticks((k + 1) * In)
  <2> DEFINE a == (k * In) * fmt.num
             b == In * fmt.num
  <2>1. a \in Int /\ b \in Int /\ d * fmt.den <= b
    BY <1>1
  <2>2. ((k + 1) * In) * fmt.num = a + b
    <3>1. (k + 1) * In = k * In + In /\ k * In \in Int
      OBVIOUS
    <3> QED
      BY <3>1
  <2>3. (a \div fmt.den) + d <= (a + b) \div fmt.den
    <3> HIDE DEF a, b
    <3> QED
      BY <1>1, <2>1, QuotientGrows
  <2> QED
    BY <2>2, <2>3 DEF Ticks
<1>4. (Due(k * In) \div d) + 1 <= Due((k + 1) * In) \div d
  <2> DEFINE a == Due(k * In)
             b == Due((k + 1) * In) - Due(k * In)
  <2>1. a \in Int /\ b \in Int /\ 1 * d <= b /\ a + b = Due((k + 1) * In)
    <3> DEFINE t == Ticks(k * In)
               u == Ticks((k + 1) * In)
    <3>3. t \in Nat /\ u \in Nat /\ t + d <= u
      BY <1>2, <1>3
    <3>4. Due(k * In) = fmt.lead + t /\ Due((k + 1) * In) = fmt.lead + u
      BY DEF Due
    <3> HIDE DEF t, u
    <3>1. Due(k * In) \in Int /\ Due((k + 1) * In) \in Int
      BY <1>1, <3>3, <3>4
    <3>2. Due(k * In) + d <= Due((k + 1) * In)
      BY <1>1, <3>3, <3>4
    <3> QED
      BY <1>1, <3>1, <3>2
  <2> HIDE DEF a, b
  <2>2. (a \div d) + 1 <= (a + b) \div d
    BY <1>1, <2>1, QuotientGrows
  <2> QED
    BY <2>1, <2>2 DEF a
<1> QED
  BY <1>2, <1>4

(* The next packet is later by what a packet holds.                         *)
LEMMA ReachedGrows ==
  ASSUME AudioTypeOK, Steady, fmt' = fmt, packets' = packets + 1
  PROVE  /\ _packet_duration \in Nat /\ _packet_duration >= 2 * Out
         /\ Reached' = Whole(packets * In) * (In * _packet_duration)
         /\ Reached' \in Nat
         /\ packets > 0 => Reached \in Nat /\ Reached + In * _packet_duration <= Reached'
<1> DEFINE step == In * _packet_duration
<1>1. packets \in Nat /\ fmt \in Formats /\ In \in Nat /\ Out \in Nat
  BY FormatFields, PacketsAssumption DEF AudioTypeOK
<1>2. _packet_duration \in Nat /\ _packet_duration >= 2 * Out
  <2>1. _packet_duration \in Int
    BY <1>1, TicksAreInt DEF _packet_duration
  <2> QED
    BY <1>1, <2>1 DEF Steady
<1>3. step \in Nat
  BY <1>1, <1>2
<1>4. Whole(packets * In) \in Nat
  BY <1>1, WholeGrows
<1>5. Reached' = Whole(packets * In) * step
  <2>1. packets' - 1 = packets
    BY <1>1
  <2>2. Reached' = Whole((packets' - 1) * In) * step
    BY DEF Reached, Whole, Due, Ticks, _packet_duration, In, Out
  <2> QED
    BY <2>1, <2>2
<1> HIDE DEF step
<1>6. Reached' \in Nat
  BY <1>3, <1>4, <1>5
<1>7. ASSUME packets > 0 PROVE Reached \in Nat /\ Reached + step <= Reached'
  <2>1. packets - 1 \in Nat /\ packets - 1 + 1 = packets
    BY <1>1, <1>7
  <2>2. Whole((packets - 1) * In) \in Nat
        /\ Whole((packets - 1) * In) + 1 <= Whole(packets * In)
    BY <1>1, <2>1, WholeGrows
  <2>3. Reached = Whole((packets - 1) * In) * step
    BY DEF Reached, step
  <2>4. step * (Whole((packets - 1) * In) + 1) <= step * Whole(packets * In)
    BY <1>3, <1>4, <2>2, ProductGrows
  <2>5. step * (Whole((packets - 1) * In) + 1) = Whole((packets - 1) * In) * step + step
        /\ step * Whole(packets * In) = Whole(packets * In) * step
        /\ Whole((packets - 1) * In) * step \in Nat
    BY <1>3, <1>4, <2>2
  <2> QED
    BY <1>5, <2>3, <2>4, <2>5
<1> QED
  BY <1>2, <1>5, <1>6, <1>7 DEF step

(* A packet that is read, or does not get that far, finds the stamps of     *)
(* the packets before it behind its own time.                               *)
LEMMA NextPacketIsLater ==
  ASSUME AudioTypeOK, Steady, fmt' = fmt, packets' = packets + 1,
         packets = 0 => last.stamp = -1,
         packets > 0 => Out * last.stamp <= Reached + (In - 1) * _packet_duration
  PROVE  packets > 0 => Out * last.stamp <= Reached' - _packet_duration
<1>1. SUFFICES ASSUME packets > 0
               PROVE  Out * last.stamp <= Reached' - _packet_duration
  OBVIOUS
<1>2. In \in Nat /\ Out \in Nat /\ last.stamp \in Int
  BY FormatFields DEF AudioTypeOK
<1> DEFINE P == _packet_duration
           s == Out * last.stamp
<1>3. P \in Nat /\ Reached' \in Nat /\ Reached \in Nat /\ Reached + In * P <= Reached'
  BY <1>1, ReachedGrows
<1>4. s \in Int /\ s <= Reached + (In - 1) * P
  BY <1>1, <1>2
<1> HIDE DEF P, s
<1>5. (In - 1) * P = In * P - P /\ In * P \in Int
  BY <1>2, <1>3
<1>6. s <= Reached' - P
  <2> DEFINE product == In * P
             less == (In - 1) * P
  <2>1. product \in Int /\ less = product - P
    BY <1>5
  <2> HIDE DEF product, less
  <2>2. Reached + product <= Reached' /\ s <= Reached + less
    BY <1>3, <1>4 DEF product, less
  <2>3. P \in Nat /\ s \in Int /\ Reached \in Nat /\ Reached' \in Nat
    BY <1>3, <1>4
  <2>4. PICK later \in Nat : later = Reached'
    BY <2>3
  <2>5. Reached + product <= later
    BY <2>2, <2>4
  <2>6. s <= later - P
    BY <2>1, <2>2, <2>3, <2>5
  <2> QED
    BY <2>4, <2>6
<1> QED
  BY <1>6 DEF P, s

(* The stamp computed from a packet: its time, rounded down, or a tick less. *)
LEMMA NowPtsNear ==
  ASSUME AudioTypeOK, Steady, fmt' = fmt, packets' = packets + 1,
         NEW stamp \in NowPts(packets * In)
  PROVE  /\ stamp \in Int /\ stamp >= 0
         /\ Reached' - 2 * Out < Out * stamp /\ Out * stamp <= Reached'
<1> DEFINE product == Whole(packets * In) * In * _packet_duration
           exact   == product \div Out
<1>1. /\ In \in Nat /\ Out \in Nat /\ Out > 0 /\ packets \in Nat
      /\ _packet_duration \in Nat /\ Reached' \in Nat
      /\ Reached' = Whole(packets * In) * (In * _packet_duration)
  BY FormatFields, ReachedGrows, PacketsAssumption DEF AudioTypeOK
<1>2. product = Reached'
  <2>1. Whole(packets * In) \in Nat
    BY <1>1, WholeGrows DEF AudioTypeOK
  <2> QED
    BY <1>1, <2>1
<1>3. stamp = exact \/ (stamp = exact - 1 /\ exact > 0)
  BY DEF NowPts
<1>4. product \in Nat
  BY <1>1, <1>2
<1> HIDE DEF product
<1>5. exact \in Int /\ Out * exact <= product /\ product < Out * exact + Out /\ 0 <= exact
  BY <1>1, <1>4, Quotient, QuotientAtLeast
<1> HIDE DEF exact
<1>6. Out * (exact - 1) = Out * exact - Out
  BY <1>1, <1>5
<1>7. stamp \in Int /\ stamp >= 0
  BY <1>3, <1>5
<1>8. Out * stamp = Out * exact \/ Out * stamp = Out * exact - Out
  BY <1>3, <1>6
<1> DEFINE u == Out * exact
           v == Out * stamp
<1>9. u \in Int /\ (v = u \/ v = u - Out) /\ u <= Reached' /\ Reached' < u + Out
  BY <1>1, <1>2, <1>5, <1>8
<1> HIDE DEF u, v
<1>10. Reached' - 2 * Out < v /\ v <= Reached'
  BY <1>1, <1>9
<1> QED
  BY <1>7, <1>10 DEF v

(* While the packet stays the same its time does.                           *)
LEMMA ReachedStays ==
  ASSUME AudioTypeOK, Steady, fmt' = fmt, packets' = packets
  PROVE  /\ Reached' = Reached /\ _packet_duration' = _packet_duration
         /\ In' = In /\ Out' = Out /\ Steady'
         /\ _packet_duration \in Nat /\ _packet_duration > Out
         /\ In \in Nat /\ In > 0 /\ Out \in Nat /\ Out > 0
         /\ packets > 0 => Reached \in Nat
<1>1. packets \in Nat /\ fmt \in Formats /\ In \in Nat /\ In > 0 /\ Out \in Nat /\ Out > 0
  BY FormatFields, PacketsAssumption DEF AudioTypeOK
<1>2. _packet_duration \in Nat /\ _packet_duration > Out
  <2>1. _packet_duration \in Int
    BY <1>1, TicksAreInt DEF _packet_duration
  <2> QED
    BY <1>1, <2>1 DEF Steady
<1>3. packets > 0 => Reached \in Nat
  <2> SUFFICES ASSUME packets > 0 PROVE Reached \in Nat
    OBVIOUS
  <2>1. packets - 1 \in Nat
    BY <1>1
  <2>2. Whole((packets - 1) * In) \in Nat
    BY <1>1, <2>1, WholeGrows
  <2>3. In * _packet_duration \in Nat
    BY <1>1, <1>2
  <2> QED
    BY <2>2, <2>3 DEF Reached
<1>4. UNCHANGED <<Reached, _packet_duration, In, Out>>
  BY DEF Reached, Whole, Due, Ticks, _packet_duration, In, Out
<1>5. Steady'
  BY <1>4 DEF Steady
<1> QED
  BY <1>1, <1>2, <1>3, <1>4, <1>5

(* An output frame comes out of the FIFO: the clock moves by as much.        *)
LEMMA LoadKeepsPace ==
  ASSUME NEW o \in Nat, NEW p \in Nat, NEW r \in Nat, NEW n \in Int, NEW f \in Nat, NEW x \in Nat,
         o > 0, f >= o, o * n <= r + (o - 1 + x - f) * p
  PROVE  /\ o * n <= r + (x - 1) * p
         /\ o * (n + p) <= r + (o - 1 + x - (f - o)) * p
<1>1. p * (o - 1 + x - f) <= p * (x - 1)
  BY ProductGrows
<1>2. (o - 1 + x - f) * p = p * (o - 1 + x - f) /\ (x - 1) * p = p * (x - 1)
  OBVIOUS
<1>3. o * (n + p) = o * n + o * p
  OBVIOUS
<1>4. (o - 1 + x - (f - o)) * p = (o - 1 + x - f) * p + o * p
  OBVIOUS
<1> DEFINE a == (o - 1 + x - f) * p
           b == o * p
           c == o * n
           d == (x - 1) * p
<1>5. a \in Int /\ b \in Int /\ c \in Int /\ d \in Int /\ c <= r + a /\ a <= d
  BY <1>1, <1>2
<1>6. o * (n + p) = c + b /\ (o - 1 + x - (f - o)) * p = a + b
  BY <1>3, <1>4
<1> HIDE DEF a, b, c, d
<1>7. c <= r + d /\ c + b <= r + (a + b)
  BY <1>5
<1> QED
  BY <1>6, <1>7 DEF c, d

LEMMA NextOrderInv ==
  ASSUME AudioTypeOK, SamplesAccounted, OrderInv, Next
  PROVE  OrderInv'
<1>1. fmt' = fmt
  BY DEF Next, InitalTool, BrokenPacket, ReadUnstamped, ReadPacket, DivideByZero, LosePacket,
         AudioDecode, AudioDecodeFails, LoadDelayed, LoadWrites, LoadFails, Load, LoadCrashes,
         EndOfInput, FlushWrites, FlushFails, FlushEnds
<1>2. mishaps \subseteq mishaps'
  BY DEF Next, InitalTool, BrokenPacket, ReadUnstamped, ReadPacket, DivideByZero, LosePacket,
         AudioDecode, AudioDecodeFails, LoadDelayed, LoadWrites, LoadFails, LoadCrashes,
         EndOfInput, FlushWrites, FlushFails, FlushEnds, May
<1>3. Steady' => Steady
  BY <1>1 DEF Steady, In, Out, _packet_duration, Ticks
<1>4. SUFFICES ASSUME Steady, Spared, Steady', Spared'
               PROVE  OrderInv'
  BY <1>2, <1>3 DEF OrderInv, Spared
<1>5. /\ "order" \notin mishaps
      /\ packets = 0 => last.stamp = -1
      /\ packets > 0 => Out * last.stamp <= Reached + (In - 1) * _packet_duration
      /\ at = "flow" =>
           /\ packets > 0 /\ last.stamp < now_pts
           /\ Out * now_pts <=
                Reached + (Out - 1 + (IF pending THEN 0 ELSE In) - fifo) * _packet_duration
  BY <1>4 DEF OrderInv
<1>6. ~Refused
  BY <1>4, <1>5 DEF Refused, Refusals, Spared
<1> DEFINE P == _packet_duration
<1>7. /\ packets \in Nat /\ In \in Nat /\ In > 0 /\ Out \in Nat /\ Out > 0 /\ fifo \in Nat
      /\ last.stamp \in Int /\ now_pts \in Int
  BY FormatFields, PacketsAssumption DEF AudioTypeOK
(* The steps that give out no stamp and take no packet. *)
<1>8. CASE UNCHANGED <<packets, last>> /\ at' # "flow" /\ "order" \notin mishaps'
  <2>1. /\ Reached' = Reached /\ _packet_duration' = _packet_duration /\ In' = In /\ Out' = Out
        /\ packets' = packets /\ last' = last
    BY <1>1, <1>4, <1>8, ReachedStays
  <2>2. packets' = 0 => last'.stamp = -1
    BY <1>5, <2>1
  <2>3. packets' > 0 => Out' * last'.stamp <= Reached' + (In' - 1) * _packet_duration'
    BY <1>5, <2>1, Zenon
  <2> QED
    BY <1>8, <2>2, <2>3, Zenon DEF OrderInv
(* A packet that gives out no stamp either.             *)
<1>9. CASE packets' = packets + 1 /\ last' = last /\ at' # "flow" /\ "order" \notin mishaps'
  <2>1. /\ P \in Nat /\ Reached' \in Nat /\ packets' > 0
        /\ packets > 0 => Out * last.stamp <= Reached' - P
    BY <1>1, <1>4, <1>5, <1>7, <1>9, ReachedGrows, NextPacketIsLater
  <2>2. PICK later \in Nat : later = Reached'
    BY <2>1
  <2>3. (In - 1) * P >= 0
    BY <1>7, <2>1
  <2>4. Out * last.stamp <= later
    <3>1. CASE packets = 0
      BY <1>5, <1>7, <3>1
    <3>2. CASE packets > 0
      <4> DEFINE o == Out * last.stamp
      <4>1. o \in Int /\ o <= later - P
        BY <1>7, <2>1, <2>2, <3>2
      <4> HIDE DEF o
      <4>2. o <= later
        BY <2>1, <4>1
      <4> QED
        BY <4>2 DEF o
    <3> QED
      BY <1>7, <3>1, <3>2
  <2>5. Out' = Out /\ In' = In /\ P' = P
    BY <1>1 DEF In, Out, _packet_duration, Ticks
  <2> DEFINE o == Out * last.stamp
             more == (In - 1) * P
  <2>6. o \in Int /\ more \in Int
    BY <1>7, <2>1
  <2>7. o <= later + more
    <3> HIDE DEF o, more, P
    <3> QED
      BY <2>3, <2>4, <2>6 DEF o, more
  <2>8. Out' * last'.stamp <= Reached' + (In' - 1) * P'
    BY <1>9, <2>2, <2>5, <2>7
  <2> QED
    BY <1>9, <2>1, <2>8 DEF OrderInv
<1>10. CASE ReadPacket
  <2>1. /\ packets' = packets + 1 /\ now_pts' \in NowPts(packets * In) /\ at' = "flow" /\ pending' = TRUE
        /\ UNCHANGED <<fifo, last, mishaps>> /\ at = "between"
    BY <1>10 DEF ReadPacket
  <2>2. fifo <= Out - 1
    BY <1>6, <1>7, <2>1 DEF SamplesAccounted
  <2>3. /\ P \in Nat /\ P >= 2 * Out /\ Reached' \in Nat /\ packets' > 0
        /\ packets > 0 => Out * last.stamp <= Reached' - P
        /\ now_pts' \in Int /\ now_pts' >= 0
        /\ Reached' - 2 * Out < Out * now_pts' /\ Out * now_pts' <= Reached'
    BY <1>1, <1>4, <1>5, <1>7, <2>1, ReachedGrows, NextPacketIsLater, NowPtsNear
  <2>4. PICK later \in Nat : later = Reached'
    BY <2>3
  <2>5. PICK stamp \in Nat : stamp = now_pts'
    BY <2>3
  <2>6. P \in Nat /\ P > 0 /\ P >= 2 * Out
    BY <1>7, <2>3
  <2> HIDE DEF P
  <2>7. last.stamp < stamp
    <3>1. CASE packets = 0
      BY <1>5, <2>5, <3>1
    <3>2. CASE packets > 0
      <4>1. Out * last.stamp <= later - P /\ later - 2 * Out < Out * stamp
        BY <2>3, <2>4, <2>5, <3>2
      <4>2. SUFFICES ASSUME stamp <= last.stamp PROVE FALSE
        BY <1>7
      <4>3. Out * stamp <= Out * last.stamp
        BY <1>7, <4>2, ProductGrows
      <4> DEFINE o == Out * last.stamp
                 u == Out * stamp
      <4>4. o \in Int /\ u \in Int /\ o <= later - P /\ later - 2 * Out < u /\ u <= o
        BY <1>7, <4>1, <4>3
      <4> HIDE DEF o, u
      <4> QED
        BY <1>7, <2>6, <4>4
    <3> QED
      BY <1>7, <3>1, <3>2
  <2> DEFINE less == (Out - 1 - fifo) * P
  <2>8. less >= 0
    BY <1>7, <2>2, <2>3
  <2>9. Out * stamp <= later + less
    <3> DEFINE u == Out * stamp
    <3>1. u \in Int /\ u <= later /\ less \in Int
      <4>1. less \in Int
        BY <1>7, <2>6
      <4>2. u \in Int
        BY <1>7
      <4>3. u <= later
        BY <2>3, <2>4, <2>5, Zenon
      <4> QED
        BY <4>1, <4>2, <4>3
    <3> HIDE DEF u, less
    <3>2. u <= later + less
      BY <2>8, <3>1
    <3> QED
      BY <3>2 DEF u
  <2>10. Out' = Out /\ In' = In /\ _packet_duration' = P
    BY <1>1 DEF In, Out, _packet_duration, Ticks, P
  <2>11. (Out' - 1 + (IF pending' THEN 0 ELSE In') - fifo') * _packet_duration' = less
    BY <1>7, <2>1, <2>10
  <2>12. Out' * now_pts' <= Reached'
             + (Out' - 1 + (IF pending' THEN 0 ELSE In') - fifo') * _packet_duration'
    BY <2>4, <2>5, <2>9, <2>10, <2>11
  <2>13. last'.stamp < now_pts' /\ packets' > 0 /\ "order" \notin mishaps'
    BY <1>5, <2>1, <2>3, <2>5, <2>7
  <2>14. Out' * last'.stamp <= Reached' + (In' - 1) * _packet_duration'
    <3>1. Out * last.stamp <= Out * stamp
      BY <1>7, <2>7, ProductGrows
    <3>2. (In - 1) * P >= 0
      BY <1>7, <2>3
    <3> DEFINE o == Out * last.stamp
               u == Out * stamp
               more == (In - 1) * P
    <3>3. o \in Int /\ u \in Int /\ more \in Int /\ o <= u /\ u <= later /\ more >= 0
      <4>1. o \in Int /\ u \in Int /\ more \in Int
        BY <1>7, <2>6
      <4>2. u <= later
        BY <2>3, <2>4, <2>5, Zenon
      <4> QED
        BY <3>1, <3>2, <4>1, <4>2
    <3>4. o <= later + more
      <4> HIDE DEF o, u, more
      <4> QED
        BY <3>3
    <3> QED
      BY <2>1, <2>4, <2>10, <3>4
  <2> QED
    <3>1. packets' # 0
      BY <2>3
    <3> QED
      BY <2>12, <2>13, <2>14, <3>1, Zenon DEF OrderInv
(* The steps that work on the packet. *)
<1>11. ASSUME fmt' = fmt, packets' = packets
       PROVE  /\ Reached' = Reached /\ P' = P /\ In' = In /\ Out' = Out
              /\ P \in Nat /\ P > Out
              /\ packets > 0 => Reached \in Nat
  BY <1>4, <1>11, ReachedStays
<1>12. CASE AudioDecode
  <2>1. /\ UNCHANGED <<packets, now_pts, last, mishaps>> /\ fifo' = fifo + In
        /\ pending /\ pending' = FALSE /\ at = "flow"
    BY <1>12 DEF AudioDecode
  <2>2. (Out - 1 + (IF pending' THEN 0 ELSE In) - fifo') * P
            = (Out - 1 + (IF pending THEN 0 ELSE In) - fifo) * P
    <3>1. Out - 1 + In - (fifo + In) = Out - 1 + 0 - fifo
      BY <1>7
    <3> QED
      BY <2>1, <3>1, Zenon
  <2> QED
    BY <1>1, <1>5, <1>11, <2>1, <2>2, Zenon DEF OrderInv
<1> DEFINE held == IF pending THEN 0 ELSE In
<1>13. ASSUME NEW after, Load(after)
       PROVE  /\ at = "flow" /\ packets' = packets /\ packets > 0 /\ fifo >= Out /\ fifo' = fifo - Out
              /\ fifo' \in Nat
              /\ Out * now_pts <= Reached + (In - 1) * P
              /\ Out * (now_pts + P) <= Reached + (Out - 1 + held - fifo') * P
  <2>1. /\ at = "flow" /\ packets' = packets /\ packets > 0 /\ fifo >= Out /\ fifo' = fifo - Out
    BY <1>5, <1>13 DEF Load
  <2>2. held \in Nat /\ held <= In /\ Out * now_pts <= Reached + (Out - 1 + held - fifo) * P
    BY <1>5, <1>7, <2>1
  <2>3. P \in Nat /\ Reached \in Nat
    BY <1>1, <1>11, <2>1
  <2> HIDE DEF P, held
  <2>4. /\ Out * now_pts <= Reached + (held - 1) * P
        /\ Out * (now_pts + P) <= Reached + (Out - 1 + held - (fifo - Out)) * P
    BY <1>7, <2>1, <2>2, <2>3, LoadKeepsPace
  <2>5. (held - 1) * P <= (In - 1) * P
    <3>1. P * (held - 1) <= P * (In - 1)
      BY <1>7, <2>2, <2>3, ProductGrows
    <3> QED
      BY <1>7, <2>2, <2>3, <3>1
  <2>6. Out * now_pts <= Reached + (In - 1) * P
    <3> DEFINE n == Out * now_pts
               a == (held - 1) * P
               b == (In - 1) * P
    <3>1. n \in Int /\ a \in Int /\ b \in Int /\ n <= Reached + a /\ a <= b
      BY <1>7, <2>2, <2>3, <2>4, <2>5
    <3> HIDE DEF n, a, b
    <3>2. n <= Reached + b
      BY <2>3, <3>1
    <3> QED
      BY <3>2 DEF n, b
  <2>7. fifo' \in Nat
    BY <1>7, <2>1
  <2>8. Out * (now_pts + P) <= Reached + (Out - 1 + held - fifo') * P
    BY <2>1, <2>4, Zenon
  <2> QED
    BY <2>1, <2>6, <2>7, <2>8
<1>14. ASSUME NEW after, Load(after), Continue, last'.stamp \in {last.stamp, now_pts},
              "order" \notin mishaps'
       PROVE  OrderInv'
  <2>1. /\ at = "flow" /\ packets' = packets /\ packets > 0
        /\ Out * now_pts <= Reached + (In - 1) * P
        /\ Out * (now_pts + P) <= Reached + (Out - 1 + held - fifo') * P
    BY <1>13, <1>14, Zenon
  <2>2. Reached' = Reached /\ P' = P /\ In' = In /\ Out' = Out /\ P \in Nat /\ P > 0
    BY <1>1, <1>7, <1>11, <2>1
  <2>3. now_pts' = now_pts + P /\ pending' = pending
    BY <1>14 DEF Continue
  <2>4. last.stamp < now_pts /\ Out * last.stamp <= Reached + (In - 1) * P
    BY <1>5, <2>1
  <2> HIDE DEF P
  <2>5. last'.stamp < now_pts'
    BY <1>7, <1>14, <2>2, <2>3, <2>4
  <2>6. Out' * last'.stamp <= Reached' + (In' - 1) * P'
    BY <1>14, <2>1, <2>2, <2>4, Zenon
  <2>7. Out' * now_pts' <= Reached' + (Out' - 1 + (IF pending' THEN 0 ELSE In') - fifo') * P'
    BY <2>1, <2>2, <2>3, Zenon
  <2>8. packets' > 0 /\ packets' # 0
    BY <1>7, <2>1
  <2> QED
    BY <1>14, <2>5, <2>6, <2>7, <2>8, Zenon DEF OrderInv, P
<1>15. CASE LoadDelayed
  BY <1>14, <1>15, <1>5 DEF LoadDelayed
<1>16. CASE LoadWrites
  <2>1. last'.stamp = now_pts
    BY <1>16 DEF LoadWrites
  <2> QED
    BY <1>14, <1>16, <1>5, <2>1 DEF LoadWrites
<1>17. CASE LoadFails
  <2>1. at = "flow"
    BY <1>17 DEF LoadFails, Load
  <2>2. last.stamp < now_pts /\ last.stamp \in Int /\ now_pts \in Int
    BY <1>5, <1>7, <2>1
  <2>3. FALSE
    BY <1>4, <1>17, <2>2 DEF LoadFails, May, Spared
  <2> QED
    BY <2>3
<1>18. CASE DivideByZero
  BY <1>4, <1>18 DEF DivideByZero, Steady
<1>19. CASE ReadUnstamped
  BY <1>4, <1>19 DEF ReadUnstamped, May, Spared
<1>20. CASE InitalTool
  BY <1>5, <1>8, <1>20 DEF InitalTool, May
<1>21. CASE BrokenPacket
  BY <1>5, <1>9, <1>21 DEF BrokenPacket, May
<1>22. CASE LosePacket
  BY <1>5, <1>9, <1>22 DEF LosePacket, May
<1>23. CASE AudioDecodeFails
  BY <1>5, <1>8, <1>23 DEF AudioDecodeFails, May
<1>24. CASE LoadCrashes
  BY <1>5, <1>8, <1>24 DEF LoadCrashes, May
<1>25. CASE EndOfInput
  BY <1>5, <1>8, <1>25 DEF EndOfInput
<1>26. CASE FlushWrites \/ FlushFails \/ FlushEnds
  BY <1>5, <1>8, <1>26 DEF FlushWrites, FlushFails, FlushEnds, May
<1> QED
  BY <1>10, <1>12, <1>15, <1>16, <1>17, <1>18, <1>19, <1>20, <1>21, <1>22, <1>23, <1>24, <1>25,
     <1>26 DEF Next

(* The muxer refuses no stamp that Flow computes from packets of a steady   *)
(* format: each lies behind the one before, over all packets that are lost  *)
(* or do not decode, and over every rounding on the way; for every frame    *)
(* length, delay and number of packets.                                     *)
THEOREM StampsInOrder == Spec => [](Steady => StampsAccepted)
<1>1. Init => OrderInv
  <2> SUFFICES ASSUME Init PROVE OrderInv
    OBVIOUS
  <2>1. mishaps = {} /\ packets = 0 /\ at = "init" /\ last.stamp = -1
    BY DEF Init, NoStamp
  <2> QED
    BY <2>1 DEF OrderInv
<1>2. AudioTypeOK /\ SamplesAccounted /\ OrderInv /\ [Next]_vars => OrderInv'
  <2>1. CASE UNCHANGED vars
    BY <2>1, Zenon DEF vars, OrderInv, Steady, Spared, Reached, Whole, Due, Ticks, _packet_duration, In, Out
  <2> QED
    BY <2>1, NextOrderInv
<1>3. OrderInv => (Steady => StampsAccepted)
  BY DEF OrderInv, Steady, Spared, StampsAccepted
<1> QED
  BY <1>1, <1>2, <1>3, AudioAccounted, PTL DEF Spec

-----------------------------------------------------------------------------
(***************************************************************************)
(* How far the stamps are from the time of their samples.  Every packet    *)
(* starts the clock anew, near the first sample in the FIFO; from then on, *)
(* until the next packet, clock and samples move by the same, or by one    *)
(* frame only, so that nothing adds up.                                    *)
(***************************************************************************)

(* A format whose frames, those of the decoder and those of the encoder,    *)
(* last a whole number of ticks, and are told so.                           *)
Exact == /\ fmt.duration > 0 /\ fmt.lead >= 0
         /\ fmt.duration * fmt.den = In * fmt.num
         /\ _packet_duration * fmt.den = Out * fmt.num

(* A format whose frames are as long in as out, AAC that stays AAC: a       *)
(* packet is told to last as long as an output frame.                       *)
Matched == /\ fmt.duration > 0 /\ fmt.lead >= 0
           /\ In = Out /\ fmt.duration = _packet_duration

Paced == Exact \/ Matched

(* How far a stamp is ahead of the time of a sample, in parts of a tick: by *)
(* not more than an output frame, and not more than a packet behind.        *)
Ahead(stamp, n) == fmt.den * stamp - fmt.den * fmt.lead - n * fmt.num
Close(stamp, n) == /\ -(fmt.den * fmt.duration) <= Ahead(stamp, n)
                   /\ Ahead(stamp, n) <= fmt.den * _packet_duration

(* In a matched format it is not ahead, and at most a packet behind, of a   *)
(* time that is rounded down.                                               *)
Near(stamp, n) == -fmt.duration <= stamp - Due(n) /\ stamp - Due(n) <= 0

Kept(stamp, n) == (Exact => Close(stamp, n)) /\ (Matched => Near(stamp, n))

(* The frames of a sequence follow one another up to the sample n.          *)
Spaced(s, n) == \A i \in 1..Len(s) : s[i] + (Len(s) - i + 1) * Out = n

(* Without a mishap every packet that was read has been decoded, but for    *)
(* the one at work; the encoder holds the frames before the FIFO; and the   *)
(* clock, as every stamp it gave out, is close to the samples it is for.    *)
PaceInv ==
  Paced /\ mishaps = {} =>
    /\ at \notin {"broken", "dead"}
    /\ pending => at = "flow"
    /\ fed + (IF pending THEN In ELSE 0) = packets * In
    /\ Matched => fifo = IF at = "flow" /\ ~pending THEN In ELSE 0
    /\ Len(encoder) <= Delay /\ Spaced(encoder, fed - fifo)
    /\ at = "flow" => Kept(now_pts, fed - fifo)
    /\ last # NoStamp => Kept(last.stamp, last.first + Delay * Out)

(* The fields the proofs below use. *)
LEMMA PacedFields ==
  ASSUME fmt \in Formats
  PROVE  /\ In \in Nat /\ In > 0 /\ Out \in Nat /\ Out > 0 /\ _packet_duration \in Nat
<1>1. /\ In \in Nat /\ In > 0 /\ Out \in Nat /\ Out > 0
      /\ fmt.num \in Nat /\ fmt.den \in Nat /\ fmt.den > 0
  BY FormatFields
<1>2. Out * fmt.num \in Nat
  BY <1>1
<1>3. 0 <= (Out * fmt.num) \div fmt.den /\ (Out * fmt.num) \div fmt.den \in Int
  BY <1>1, <1>2, Quotient, QuotientAtLeast
<1> QED
  BY <1>1, <1>3 DEF _packet_duration, Ticks

LEMMA ExactFields ==
  ASSUME fmt \in Formats, Exact
  PROVE  /\ In \in Nat /\ In > 0 /\ Out \in Nat /\ Out > 0
         /\ fmt.num \in Nat /\ fmt.den \in Nat /\ fmt.den > 0
         /\ fmt.duration \in Nat /\ fmt.duration > 0 /\ fmt.lead \in Nat
         /\ _packet_duration \in Nat
BY FormatFields, PacedFields DEF Exact

(* A product that lies between two products of the same number.             *)
LEMMA ProductShrinks ==
  ASSUME NEW b \in Nat, b > 0, NEW m \in Int, NEW n \in Int, b * m < b * n + b
  PROVE  m <= n
<1> SUFFICES ASSUME n + 1 <= m PROVE FALSE
  OBVIOUS
<1>1. b * (n + 1) <= b * m
  BY ProductGrows
<1>2. b * (n + 1) = b * n + b
  OBVIOUS
<1> QED
  BY <1>1, <1>2

(* A stamp that is close to its sample is within the frames' lengths of its *)
(* time, which is rounded down to a tick.                                   *)
LEMMA CloseIsAligned ==
  ASSUME fmt \in Formats, Exact, NEW s \in Int, NEW n \in Nat, Close(s, n)
  PROVE  s - Due(n) \in -(fmt.duration + 1)..(_packet_duration + 1)
<1> DEFINE den == fmt.den
           num == fmt.num
           lead == fmt.lead
           d == fmt.duration
           P == _packet_duration
           q == (n * num) \div den
           D == s - Due(n)
<1>1. den \in Nat /\ den > 0 /\ num \in Nat /\ lead \in Nat /\ d \in Nat /\ P \in Nat
  BY ExactFields
<1>2. n * num \in Int
  BY <1>1
<1> DEFINE c == n * num
<1> HIDE DEF c
<1>3. q \in Int /\ den * q <= n * num /\ n * num < den * q + den
  <2>1. c \div den \in Int /\ den * (c \div den) <= c /\ c < den * (c \div den) + den
    BY <1>1, <1>2, Quotient DEF c
  <2> QED
    BY <2>1 DEF c
<1>4. D = s - lead - q
  <2>1. Due(n) = lead + q
    BY DEF Due, Ticks
  <2> HIDE DEF q
  <2> QED
    BY <1>1, <1>3, <2>1
<1>5. -(den * d) <= den * s - den * lead - n * num /\ den * s - den * lead - n * num <= den * P
  BY DEF Close, Ahead
<1> HIDE DEF den, num, lead, d, P, q, D
<1>6. D \in Int /\ den * D = den * s - den * lead - den * q
  BY <1>1, <1>3, <1>4
<1>7. den * (-d) = -(den * d)
  BY <1>1
<1> DEFINE u == den * s - den * lead
           v == den * q
           w == den * D
           x == den * d
           y == den * P
           z == n * num
<1>8. /\ u \in Int /\ v \in Int /\ w \in Int /\ x \in Int /\ y \in Int /\ z \in Int
      /\ w = u - v /\ v <= z /\ z < v + den /\ -x <= u - z /\ u - z <= y
  BY <1>1, <1>2, <1>3, <1>5, <1>6
<1>9. w < y + den /\ den * (-d) <= w /\ den * (-d) < w + den
  <2> HIDE DEF u, v, w, y, z
  <2> QED
    BY <1>1, <1>7, <1>8
<1>10. D <= P
  BY <1>1, <1>6, <1>9, ProductShrinks
<1>11. -d <= D
  BY <1>1, <1>6, <1>9, ProductShrinks
<1>12. D \in -(d + 1)..(P + 1)
  BY <1>1, <1>6, <1>10, <1>11
<1> QED
  BY <1>12 DEF D, d, P

(* Clock and samples move by a frame.                                       *)
LEMMA CloseMoves ==
  ASSUME fmt \in Formats, Exact, NEW s \in Int, NEW n \in Int, Close(s, n)
  PROVE  Close(s + _packet_duration, n + Out)
<1> DEFINE den == fmt.den
           num == fmt.num
           lead == fmt.lead
           P == _packet_duration
<1>1. den \in Nat /\ num \in Nat /\ lead \in Nat /\ P \in Nat /\ Out \in Nat /\ P * den = Out * num
  BY ExactFields DEF Exact
<1> HIDE DEF den, num, lead, P
<1>2. den * (s + P) = den * s + P * den /\ (n + Out) * num = n * num + Out * num
  BY <1>1
<1> DEFINE u == den * s
           v == den * lead
           w == n * num
           x == P * den
<1>3. u \in Int /\ v \in Int /\ w \in Int /\ x \in Int
  BY <1>1
<1>4. den * (s + P) - den * lead - (n + Out) * num = (u + x) - v - (w + x)
  BY <1>1, <1>2
<1>5. (u + x) - v - (w + x) = u - v - w
  <2> HIDE DEF u, v, w, x
  <2> QED
    BY <1>3
<1>6. Ahead(s + _packet_duration, n + Out) = Ahead(s, n)
  BY <1>4, <1>5 DEF Ahead, den, num, lead, P
<1> QED
  BY <1>6 DEF Close

(* In a format that is told exactly a packet's input frame lasts the        *)
(* packet's duration, in output frames too, ...                             *)
LEMMA ExactFrames ==
  ASSUME fmt \in Formats, Exact, NEW k \in Nat
  PROVE  /\ Ticks(k * In) = k * fmt.duration
         /\ (k * In) * fmt.num = fmt.den * (k * fmt.duration)
         /\ In * _packet_duration = Out * fmt.duration
<1> DEFINE den == fmt.den
           num == fmt.num
           d == fmt.duration
           P == _packet_duration
<1>1. /\ den \in Nat /\ den > 0 /\ num \in Nat /\ d \in Nat /\ P \in Nat
      /\ In \in Nat /\ Out \in Nat /\ d * den = In * num /\ P * den = Out * num
  BY ExactFields DEF Exact
<1>2. Ticks(k * In) = ((k * In) * num) \div den
  BY DEF Ticks
<1> HIDE DEF den, num, d, P
<1>3. (k * In) * num = den * (k * d)
  <2>1. (k * In) * num = k * (In * num) /\ den * (k * d) = k * (d * den)
    BY <1>1
  <2> QED
    BY <1>1, <2>1
<1>4. Ticks(k * In) = k * d
  <2> DEFINE a == (k * In) * num
             m == k * d
  <2>1. a \in Int /\ m \in Int /\ a = den * m
    BY <1>1, <1>3
  <2> HIDE DEF a, m
  <2>2. den * m <= a /\ a < den * m + den
    BY <1>1, <2>1
  <2>3. a \div den \in Int /\ m <= a \div den /\ a \div den <= m
    BY <1>1, <2>1, <2>2, Quotient, QuotientAtLeast, QuotientAtMost
  <2> QED
    BY <1>2, <2>1, <2>3 DEF a, m
<1>5. In * P = Out * d
  <2>1. den * (In * P) = In * (P * den) /\ den * (Out * d) = Out * (d * den)
    BY <1>1
  <2>2. In * (Out * num) = Out * (In * num)
    BY <1>1
  <2> DEFINE m == In * P
             n == Out * d
  <2>3. m \in Int /\ n \in Int /\ den * m = den * n /\ den * m \in Int
    BY <1>1, <2>1, <2>2
  <2> HIDE DEF m, n
  <2>4. den * m < den * n + den /\ den * n < den * m + den
    BY <1>1, <2>3
  <2>5. m <= n /\ n <= m
    BY <1>1, <2>3, <2>4, ProductShrinks
  <2> QED
    BY <2>3, <2>5 DEF m, n
<1> QED
  BY <1>3, <1>4, <1>5 DEF den, num, d, P

(* ... and the stamp computed from it is the last whole duration before it, *)
(* or a tick less: close to the first sample in the FIFO, which holds less  *)
(* than an output frame of the packets before.                              *)
LEMMA NowPtsIsClose ==
  ASSUME fmt \in Formats, Exact, NEW k \in Nat, NEW stamp \in NowPts(k * In),
         NEW f \in Nat, f < Out
  PROVE  stamp \in Int /\ Close(stamp, k * In - f)
<1> DEFINE den == fmt.den
           num == fmt.num
           lead == fmt.lead
           d == fmt.duration
           P == _packet_duration
           t == k * d
           W == (lead + t) \div d
           product == Whole(k * In) * In * P
           m == W * d
<1>1. /\ den \in Nat /\ den > 0 /\ num \in Nat /\ lead \in Nat /\ d \in Nat /\ d > 0 /\ P \in Nat
      /\ In \in Nat /\ Out \in Nat /\ Out > 0 /\ P * den = Out * num
  BY ExactFields DEF Exact
<1>2. Ticks(k * In) = t /\ (k * In) * num = den * t /\ In * P = Out * d
  BY ExactFrames
<1>3. stamp = product \div Out \/ stamp = (product \div Out) - 1
  BY DEF NowPts
<1>4. Whole(k * In) = W
  <2>1. Due(k * In) = lead + t
    BY <1>2 DEF Due
  <2>2. ~(lead + t < 0)
    BY <1>1
  <2> QED
    BY <2>1, <2>2, Zenon DEF Whole
<1> HIDE DEF den, num, lead, d, P, product, t
<1>5. t \in Nat
  BY <1>1 DEF t
<1>6. W \in Int /\ d * W <= lead + t /\ lead + t < d * W + d
  BY <1>1, <1>5, Quotient
<1>7. product = Out * m /\ m \in Int
  <2> HIDE DEF W
  <2>1. product = W * (In * P)
    BY <1>1, <1>4, <1>6 DEF product
  <2>2. W * (Out * d) = Out * (W * d) /\ W * d \in Int
    BY <1>1, <1>6
  <2> QED
    BY <1>2, <2>1, <2>2
<1>8. m <= lead + t /\ lead + t < m + d
  <2> HIDE DEF W
  <2>1. d * W = m
    BY <1>1, <1>6
  <2> QED
    BY <1>6, <2>1
<1> HIDE DEF m
<1>9. product \div Out = m
  <2>1. product \in Int /\ Out * m <= product /\ product < Out * m + Out
    BY <1>1, <1>7
  <2>2. product \div Out \in Int /\ m <= product \div Out /\ product \div Out <= m
    BY <1>1, <1>7, <2>1, Quotient, QuotientAtLeast, QuotientAtMost
  <2> QED
    BY <1>7, <2>2
<1>10. stamp \in Int /\ (stamp = m \/ stamp = m - 1)
  BY <1>3, <1>7, <1>9
<1> DEFINE off == stamp - lead - t
           g == f * num
<1>11. off \in Int /\ -d <= off /\ off <= 0
  BY <1>1, <1>5, <1>7, <1>8, <1>10
<1>12. g \in Nat /\ g <= P * den
  <2>1. num * f <= num * Out
    BY <1>1, ProductGrows
  <2> QED
    BY <1>1, <2>1
<1>13. den * stamp - den * lead - (k * In - f) * num = den * off + g
  <2>1. den * off = den * stamp - den * lead - den * t
    BY <1>1, <1>5, <1>10
  <2>2. (k * In - f) * num = (k * In) * num - f * num
    BY <1>1
  <2> DEFINE a == den * stamp - den * lead
             b == den * t
  <2>3. a \in Int /\ b \in Int /\ den * off = a - b /\ (k * In - f) * num = b - g
    BY <1>1, <1>2, <1>5, <1>10, <2>1, <2>2
  <2> HIDE DEF a, b, g, off
  <2>4. a - (b - g) = (a - b) + g
    BY <1>12, <2>3
  <2> QED
    BY <2>3, <2>4 DEF a
<1>14. -(den * d) <= den * off /\ den * off <= 0
  <2>1. den * (-d) <= den * off /\ den * off <= den * 0
    BY <1>1, <1>11, ProductGrows
  <2> QED
    BY <1>1, <2>1
<1>15. -(den * d) <= den * off + g /\ den * off + g <= den * P
  <2> DEFINE a == den * off
             b == den * d
             c == den * P
  <2>1. a \in Int /\ b \in Int /\ c \in Int /\ -b <= a /\ a <= 0 /\ g <= c /\ g \in Nat
    BY <1>1, <1>11, <1>12, <1>14
  <2> HIDE DEF a, b, c, g
  <2> QED
    BY <2>1 DEF a, b, c
<1>16. Ahead(stamp, k * In - f) = den * off + g
  BY <1>13 DEF Ahead, den, num, lead
<1> HIDE DEF off, g
<1> QED
  BY <1>10, <1>15, <1>16 DEF Close, den, d, P

(* The frames in the encoder, with the next one taken from the FIFO.        *)
LEMMA SpacedGrows ==
  ASSUME fmt \in Formats, NEW s \in Seq(Nat), NEW n \in Nat, Spaced(s, n)
  PROVE  LET t == Append(s, n)
         IN  /\ t \in Seq(Nat) /\ Len(t) = Len(s) + 1 /\ Spaced(t, n + Out)
             /\ Tail(t) \in Seq(Nat) /\ Len(Tail(t)) = Len(s) /\ Spaced(Tail(t), n + Out)
             /\ Head(t) \in Nat /\ Head(t) + Len(s) * Out = n
<1> DEFINE t == Append(s, n)
<1>1. /\ t \in Seq(Nat) /\ Len(t) = Len(s) + 1 /\ Len(s) \in Nat /\ t # <<>>
      /\ \A i \in 1..Len(s) : t[i] = s[i] /\ s[i] \in Nat
      /\ t[Len(s) + 1] = n
  <2>1. /\ t \in Seq(Nat) /\ t # <<>> /\ Len(t) = Len(s) + 1
        /\ \A i \in 1..Len(s) : t[i] = s[i]
        /\ t[Len(s) + 1] = n
    BY AppendProperties
  <2>2. Len(s) \in Nat /\ \A i \in 1..Len(s) : s[i] \in Nat
    BY ElementOfSeq
  <2> QED
    BY <2>1, <2>2
<1> HIDE DEF t
<1>2. /\ Tail(t) \in Seq(Nat) /\ Len(Tail(t)) = Len(s) /\ Head(t) = t[1] /\ Head(t) \in Nat
      /\ \A i \in 1..Len(s) : Tail(t)[i] = t[i + 1]
  BY <1>1, HeadTailProperties
<1>3. Out \in Nat
  BY FormatFields
<1>4. ASSUME NEW i \in 1..(Len(s) + 1)
      PROVE  t[i] \in Nat /\ t[i] + (Len(s) + 1 - i + 1) * Out = n + Out
  <2>1. CASE i \in 1..Len(s)
    <3>1. t[i] \in Nat /\ t[i] + (Len(s) - i + 1) * Out = n
      BY <1>1, <2>1 DEF Spaced
    <3>2. (Len(s) + 1 - i + 1) * Out = (Len(s) - i + 1) * Out + Out /\ (Len(s) - i + 1) * Out \in Int
      BY <1>1, <1>3, <2>1
    <3> DEFINE a == (Len(s) - i + 1) * Out
    <3> HIDE DEF a
    <3>3. a \in Int /\ t[i] \in Nat /\ t[i] + a = n /\ (Len(s) + 1 - i + 1) * Out = a + Out
      BY <3>1, <3>2 DEF a
    <3>4. t[i] + (a + Out) = n + Out
      <4> DEFINE b == t[i]
      <4>1. b \in Nat /\ a \in Int /\ b + a = n
        BY <3>3
      <4> HIDE DEF b
      <4>2. b + (a + Out) = n + Out
        BY <1>3, <4>1
      <4> QED
        BY <4>2 DEF b
    <3> QED
      BY <3>1, <3>3, <3>4
  <2>2. CASE i = Len(s) + 1
    <3>1. (Len(s) + 1 - i + 1) * Out = Out
      BY <1>1, <1>3, <2>2
    <3> QED
      BY <1>1, <1>3, <2>2, <3>1
  <2> QED
    BY <1>1, <2>1, <2>2
<1>5. Spaced(t, n + Out)
  BY <1>1, <1>4 DEF Spaced
<1>6. Spaced(Tail(t), n + Out)
  <2>1. ASSUME NEW i \in 1..Len(s)
        PROVE  Tail(t)[i] + (Len(s) - i + 1) * Out = n + Out
    <3>1. i + 1 \in 1..(Len(s) + 1) /\ Len(s) + 1 - (i + 1) + 1 = Len(s) - i + 1
      BY <1>1
    <3>2. t[i + 1] + (Len(s) + 1 - (i + 1) + 1) * Out = n + Out
      BY <1>4, <3>1
    <3> QED
      BY <1>2, <3>1, <3>2
  <2> DEFINE u == Tail(t)
             m == n + Out
  <2>2. Len(u) = Len(s) /\ \A i \in 1..Len(s) : u[i] + (Len(s) - i + 1) * Out = m
    BY <1>2, <2>1
  <2> HIDE DEF u, m
  <2>3. Spaced(u, m)
    BY <2>2, Zenon DEF Spaced
  <2> QED
    BY <2>3 DEF u, m
<1>7. Head(t) + Len(s) * Out = n
  <2>1. t[1] \in Nat /\ t[1] + (Len(s) + 1 - 1 + 1) * Out = n + Out
    BY <1>1, <1>4
  <2>2. (Len(s) + 1 - 1 + 1) * Out = Len(s) * Out + Out /\ Len(s) * Out \in Int
    BY <1>1, <1>3
  <2> DEFINE a == Len(s) * Out
  <2>3. a \in Int /\ t[1] + (a + Out) = n + Out
    BY <2>1, <2>2
  <2> HIDE DEF a
  <2>4. t[1] + a = n
    BY <1>3, <2>1, <2>3
  <2> QED
    BY <1>2, <2>4 DEF a
<1> QED
  BY <1>1, <1>2, <1>5, <1>6, <1>7 DEF t

(* ... and without the one the flush takes.                                 *)
LEMMA SpacedShrinks ==
  ASSUME fmt \in Formats, NEW s \in Seq(Nat), s # <<>>, NEW n \in Nat, Spaced(s, n)
  PROVE  Len(Tail(s)) <= Len(s) /\ Spaced(Tail(s), n)
<1>1. /\ Len(s) \in Nat /\ Len(s) > 0 /\ Len(Tail(s)) = Len(s) - 1
      /\ \A i \in 1..(Len(s) - 1) : Tail(s)[i] = s[i + 1]
  BY EmptySeq, HeadTailProperties
<1>2. ASSUME NEW i \in 1..(Len(s) - 1)
      PROVE  Tail(s)[i] + (Len(s) - 1 - i + 1) * Out = n
  <2>1. i + 1 \in 1..Len(s) /\ Len(s) - (i + 1) + 1 = Len(s) - 1 - i + 1
    BY <1>1
  <2>2. s[i + 1] + (Len(s) - (i + 1) + 1) * Out = n
    BY <2>1 DEF Spaced
  <2> QED
    BY <1>1, <2>1, <2>2
<1> QED
  BY <1>1, <1>2 DEF Spaced

(* In a matched format too, though its frames are not a whole number of     *)
(* ticks, a packet starts the clock near the first sample it brings.        *)
LEMMA NowPtsIsNear ==
  ASSUME fmt \in Formats, Matched, NEW k \in Nat, NEW stamp \in NowPts(k * In)
  PROVE  stamp \in Int /\ Near(stamp, k * In)
<1> DEFINE d == fmt.duration
           due == Due(k * In)
           W == due \div d
           product == Whole(k * In) * In * _packet_duration
           m == W * d
<1>1. /\ fmt.den \in Nat /\ fmt.den > 0 /\ fmt.num \in Nat /\ fmt.lead \in Nat /\ d \in Nat /\ d > 0
      /\ In \in Nat /\ Out = In /\ In > 0 /\ _packet_duration = d
  BY FormatFields DEF Matched
<1>2. due \in Nat
  <2>1. (k * In) * fmt.num \in Nat
    BY <1>1
  <2>2. ((k * In) * fmt.num) \div fmt.den \in Int /\ 0 <= ((k * In) * fmt.num) \div fmt.den
    BY <1>1, <2>1, Quotient, QuotientAtLeast
  <2> QED
    BY <1>1, <2>2 DEF Due, Ticks
<1>3. stamp = product \div In \/ stamp = (product \div In) - 1
  BY <1>1 DEF NowPts
<1>4. Whole(k * In) = W
  BY <1>2 DEF Whole
<1> HIDE DEF d, product, due
<1>5. W \in Int /\ d * W <= due /\ due < d * W + d
  BY <1>1, <1>2, Quotient
<1>6. product = In * m /\ m \in Int
  <2> HIDE DEF W
  <2>1. product = W * In * d
    BY <1>1, <1>4 DEF product
  <2> QED
    BY <1>1, <1>5, <2>1
<1>7. m <= due /\ due < m + d
  <2> HIDE DEF W
  <2>1. d * W = m
    BY <1>1, <1>5
  <2> QED
    BY <1>5, <2>1
<1> HIDE DEF m
<1>8. product \div In = m
  <2>1. product \in Int /\ In * m <= product /\ product < In * m + In
    BY <1>1, <1>6
  <2>2. product \div In \in Int /\ m <= product \div In /\ product \div In <= m
    BY <1>1, <1>6, <2>1, Quotient, QuotientAtLeast, QuotientAtMost
  <2> QED
    BY <1>6, <2>2
<1>9. stamp \in Int /\ -d <= stamp - due /\ stamp - due <= 0
  BY <1>1, <1>2, <1>3, <1>6, <1>7, <1>8
<1> QED
  BY <1>9 DEF Near, d, due

LEMMA NextPaceInv ==
  ASSUME AudioTypeOK, SamplesAccounted, PaceInv, Next
  PROVE  PaceInv'
<1>1. fmt' = fmt
  BY DEF Next, InitalTool, BrokenPacket, ReadUnstamped, ReadPacket, DivideByZero, LosePacket,
         AudioDecode, AudioDecodeFails, LoadDelayed, LoadWrites, LoadFails, Load, LoadCrashes,
         EndOfInput, FlushWrites, FlushFails, FlushEnds
<1>2. mishaps \subseteq mishaps'
  BY DEF Next, InitalTool, BrokenPacket, ReadUnstamped, ReadPacket, DivideByZero, LosePacket,
         AudioDecode, AudioDecodeFails, LoadDelayed, LoadWrites, LoadFails, LoadCrashes,
         EndOfInput, FlushWrites, FlushFails, FlushEnds, May
<1>3. Paced' => Paced
  BY <1>1 DEF Paced, Exact, Matched, In, Out, _packet_duration, Ticks
<1>4. SUFFICES ASSUME Paced, mishaps = {}, mishaps' = {}
               PROVE  PaceInv'
  BY <1>2, <1>3 DEF PaceInv
<1>5. /\ at \notin {"broken", "dead"}
      /\ pending => at = "flow"
      /\ fed + (IF pending THEN In ELSE 0) = packets * In
      /\ Matched => fifo = IF at = "flow" /\ ~pending THEN In ELSE 0
      /\ Len(encoder) <= Delay /\ Spaced(encoder, fed - fifo)
      /\ at = "flow" => Kept(now_pts, fed - fifo)
      /\ last # NoStamp => Kept(last.stamp, last.first + Delay * Out)
  BY <1>4 DEF PaceInv
<1>6. /\ In \in Nat /\ Out \in Nat /\ Out > 0 /\ _packet_duration \in Nat
      /\ fed \in Nat /\ fifo \in Nat /\ packets \in Nat /\ now_pts \in Int /\ pending \in BOOLEAN
      /\ encoder \in Seq(Nat) /\ Len(encoder) \in Nat /\ Delay \in Nat
  BY PacedFields, PacketsAssumption, DelayAssumption DEF AudioTypeOK
<1>7. fifo <= fed /\ fed - fifo \in Nat /\ (at = "between" => fifo < Out)
  BY <1>4, <1>6 DEF SamplesAccounted, Refused
<1>8. ASSUME /\ at' \notin {"broken", "dead"}
             /\ pending' => at' = "flow"
             /\ fed' + (IF pending' THEN In ELSE 0) = packets' * In
             /\ Matched => fifo' = IF at' = "flow" /\ ~pending' THEN In ELSE 0
             /\ Len(encoder') <= Delay /\ Spaced(encoder', fed' - fifo')
             /\ at' = "flow" => Kept(now_pts', fed' - fifo')
             /\ last' # NoStamp => Kept(last'.stamp, last'.first + Delay * Out)
      PROVE  PaceInv'
  <2>1. In' = In /\ Out' = Out /\ Exact' = Exact /\ Matched' = Matched /\ _packet_duration' = _packet_duration
    BY <1>1 DEF In, Out, Exact, Matched, _packet_duration, Ticks
  <2>2. Spaced(encoder, fed - fifo)'
    BY <1>8, <2>1 DEF Spaced
  <2>3. (at = "flow" => Kept(now_pts, fed - fifo))'
    BY <1>1, <1>8, <2>1 DEF Kept, Near, Due, Ticks, Close, Ahead
  <2>4. (last # NoStamp => Kept(last.stamp, last.first + Delay * Out))'
    BY <1>1, <1>8, <2>1 DEF Kept, Near, Due, Ticks, Close, Ahead, NoStamp
  <2>5. (fed + (IF pending THEN In ELSE 0) = packets * In)'
    BY <1>8, <2>1
  <2>6. (Matched => fifo = IF at = "flow" /\ ~pending THEN In ELSE 0)'
    BY <1>8, <2>1
  <2> QED
    BY <1>8, <2>2, <2>3, <2>4, <2>5, <2>6, Zenon DEF PaceInv
(* The steps between packets and at the end.                                *)
<1>9. CASE UNCHANGED <<packets, pending, fed, fifo, encoder, last>> /\ at # "flow"
           /\ at' \notin {"flow", "broken", "dead"}
  <2>1. pending' = FALSE /\ fed' + (IF pending' THEN In ELSE 0) = packets' * In
    BY <1>5, <1>6, <1>9
  <2>2. Matched => fifo' = IF at' = "flow" /\ ~pending' THEN In ELSE 0
    BY <1>5, <1>9
  <2> QED
    BY <1>5, <1>8, <1>9, <2>1, <2>2, Zenon
<1>10. CASE FlushWrites
  <2>1. /\ UNCHANGED <<packets, pending, fed, fifo, last, at>> /\ at = "flush"
        /\ encoder # <<>> /\ encoder' = Tail(encoder)
    BY <1>10 DEF FlushWrites
  <2>2. Len(encoder') <= Len(encoder) /\ Len(encoder') \in Nat /\ Spaced(encoder', fed - fifo)
    <3> DEFINE n == fed - fifo
    <3>1. n \in Nat /\ Spaced(encoder, n) /\ fmt \in Formats
      BY <1>5, <1>7 DEF AudioTypeOK
    <3> HIDE DEF n
    <3>2. Len(Tail(encoder)) <= Len(encoder) /\ Spaced(Tail(encoder), n)
      BY <1>6, <2>1, <3>1, SpacedShrinks
    <3> QED
      BY <1>6, <2>1, <3>2 DEF n
  <2>3. Len(encoder') <= Delay
    BY <1>5, <1>6, <2>2
  <2>4. pending' = FALSE /\ fed' + (IF pending' THEN In ELSE 0) = packets' * In
    BY <1>5, <1>6, <2>1
  <2>5. at' \notin {"flow", "broken", "dead"}
    BY <2>1
  <2>6. Matched => fifo' = IF at' = "flow" /\ ~pending' THEN In ELSE 0
    BY <1>5, <2>1
  <2> QED
    BY <1>5, <1>8, <2>1, <2>2, <2>3, <2>4, <2>5, <2>6, Zenon
(* A packet starts the clock anew.                                          *)
<1>11. CASE ReadPacket
  <2>1. /\ at = "between" /\ packets' = packets + 1 /\ now_pts' \in NowPts(packets * In)
        /\ at' = "flow" /\ pending' = TRUE
        /\ UNCHANGED <<fed, fifo, encoder, last>>
    BY <1>11 DEF ReadPacket
  <2>2. fed = packets * In
    BY <1>5, <1>6, <2>1
  <2>3. fed' + (IF pending' THEN In ELSE 0) = packets' * In
    <3>1. (packets + 1) * In = packets * In + In
      BY <1>6
    <3> QED
      BY <2>1, <2>2, <3>1
  <2>4. Kept(now_pts', packets * In - fifo)
    <3>1. fmt \in Formats /\ fifo < Out
      BY <1>7, <2>1 DEF AudioTypeOK
    <3>2. Exact => Close(now_pts', packets * In - fifo)
      BY <1>6, <2>1, <3>1, NowPtsIsClose
    <3>3. Matched => Near(now_pts', packets * In - fifo)
      <4> SUFFICES ASSUME Matched PROVE Near(now_pts', packets * In - fifo)
        OBVIOUS
      <4>1. packets * In - fifo = packets * In
        BY <1>5, <1>6, <2>1
      <4> QED
        BY <1>6, <2>1, <3>1, <4>1, NowPtsIsNear
    <3> QED
      BY <3>2, <3>3 DEF Kept
  <2>5. Kept(now_pts', fed' - fifo')
    BY <2>1, <2>2, <2>4, Zenon
  <2>6. at' \notin {"broken", "dead"}
    BY <2>1
  <2>7. Matched => fifo' = IF at' = "flow" /\ ~pending' THEN In ELSE 0
    BY <1>5, <2>1
  <2> QED
    BY <1>5, <1>8, <2>1, <2>3, <2>5, <2>6, <2>7, Zenon
<1>12. CASE AudioDecode
  <2>1. /\ at = "flow" /\ pending /\ pending' = FALSE /\ at' \in {"between", "flow"}
        /\ at' = "between" => fifo' < Out
        /\ fed' = fed + In /\ fifo' = fifo + In
        /\ UNCHANGED <<packets, now_pts, encoder, last>>
    BY <1>12 DEF AudioDecode, Rest
  <2>2. fed' - fifo' = fed - fifo
    BY <1>6, <2>1
  <2>3. fed' + (IF pending' THEN In ELSE 0) = packets' * In
    BY <1>5, <1>6, <2>1
  <2>4. at' \notin {"broken", "dead"}
    BY <2>1
  <2>5. Matched => fifo' = IF at' = "flow" /\ ~pending' THEN In ELSE 0
    <3> SUFFICES ASSUME Matched PROVE fifo' = In /\ at' = "flow"
      BY <2>1
    <3>1. fifo' = In /\ In = Out
      BY <1>5, <1>6, <2>1 DEF Matched
    <3> QED
      BY <1>6, <2>1, <3>1
  <2> QED
    BY <1>5, <1>8, <2>1, <2>2, <2>3, <2>4, <2>5, Zenon
(* A frame leaves the FIFO: clock and samples move by a frame.              *)
<1> DEFINE n == fed - fifo
<1>13. /\ fmt \in Formats /\ n \in Nat /\ Taken = Append(encoder, n)
       /\ Len(Taken) = Len(encoder) + 1 /\ Spaced(Taken, n + Out)
       /\ Len(Tail(Taken)) = Len(encoder) /\ Spaced(Tail(Taken), n + Out)
       /\ Head(Taken) \in Nat /\ Head(Taken) + Len(encoder) * Out = n
  <2>1. fmt \in Formats /\ n \in Nat /\ Spaced(encoder, n) /\ Taken = Append(encoder, n)
    BY <1>5, <1>7 DEF Taken, AudioTypeOK
  <2> HIDE DEF n
  <2> QED
    BY <1>6, <2>1, SpacedGrows
<1>14. ASSUME NEW after, Load(after), Continue, Len(after) <= Delay, Spaced(after, n + Out),
              last' # NoStamp => Kept(last'.stamp, last'.first + Delay * Out)
       PROVE  PaceInv'
  <2>1. /\ at = "flow" /\ at' \in {"between", "flow"} /\ pending' = pending
        /\ packets' = packets /\ fed' = fed /\ fifo' = fifo - Out /\ encoder' = after
        /\ now_pts' = now_pts + _packet_duration
        /\ at' = "between" => ~pending
        /\ fifo >= Out /\ (fifo' < Out /\ ~pending => at' = "between")
    BY <1>14 DEF Load, Continue, Rest
  <2>2. fed' - fifo' = n + Out
    BY <1>6, <2>1
  <2>3. Matched => fifo' = 0 /\ at' = "between"
    <3> SUFFICES ASSUME Matched PROVE fifo' = 0 /\ at' = "between"
      OBVIOUS
    <3>1. In = Out /\ fifo = IF pending THEN 0 ELSE In
      BY <1>5, <2>1 DEF Matched
    <3> QED
      BY <1>6, <2>1, <3>1
  <2>7. at' = "flow" => Kept(now_pts', n + Out)
    <3>1. n \in Int /\ (Exact => Close(now_pts, n))
      BY <1>5, <1>13, <2>1 DEF Kept
    <3> HIDE DEF n
    <3>2. Exact => Close(now_pts', n + Out)
      BY <1>6, <1>13, <2>1, <3>1, CloseMoves
    <3> QED
      BY <2>3, <3>2 DEF Kept
  <2>4. pending' => at' = "flow"
    BY <2>1
  <2>5. at' \notin {"broken", "dead"}
    BY <2>1
  <2>8. Matched => fifo' = IF at' = "flow" /\ ~pending' THEN In ELSE 0
    BY <2>3
  <2> HIDE DEF n
  <2>6. fed' + (IF pending' THEN In ELSE 0) = packets' * In
    BY <1>5, <2>1
  <2> QED
    BY <1>8, <1>14, <2>1, <2>2, <2>3, <2>4, <2>5, <2>6, <2>7, <2>8, Zenon
<1>15. CASE LoadDelayed
  <2>1. Load(Taken) /\ Continue /\ Len(encoder) < Delay /\ last' = last
    BY <1>15 DEF LoadDelayed
  <2>2. Len(Taken) <= Delay
    BY <1>6, <1>13, <2>1
  <2> QED
    BY <1>5, <1>13, <1>14, <2>1, <2>2, Zenon
<1>16. CASE LoadWrites
  <2>1. /\ Load(Tail(Taken)) /\ Continue /\ Len(encoder) >= Delay
        /\ last' = [stamp |-> now_pts, first |-> Head(Taken)]
    BY <1>16 DEF LoadWrites
  <2>2. Len(encoder) = Delay
    BY <1>5, <1>6, <2>1
  <2>3. Kept(now_pts, n)
    BY <1>5, <2>1 DEF Load
  <2>4. last'.stamp = now_pts /\ last'.first + Delay * Out = n
    <3>1. last'.stamp = now_pts /\ last'.first = Head(Taken)
      BY <2>1
    <3> QED
      BY <1>13, <2>2, <3>1, Zenon
  <2>5. Kept(last'.stamp, last'.first + Delay * Out)
    BY <2>3, <2>4, Zenon
  <2>6. Len(Tail(Taken)) <= Delay
    BY <1>6, <1>13, <2>2
  <2> QED
    BY <1>13, <1>14, <2>1, <2>5, <2>6, Zenon
(* Everything else is a mishap.                                             *)
<1>17. CASE LoadFails
  BY <1>4, <1>17 DEF LoadFails, May
<1>18. CASE BrokenPacket
  BY <1>5, <1>18 DEF BrokenPacket
<1>19. CASE ReadUnstamped \/ DivideByZero \/ LosePacket \/ AudioDecodeFails \/ LoadCrashes
            \/ FlushFails
  BY <1>4, <1>19 DEF ReadUnstamped, DivideByZero, LosePacket, AudioDecodeFails, LoadCrashes,
                     FlushFails, May
<1>20. CASE InitalTool
  <2>1. at' = "between"
    BY <1>4, <1>20 DEF InitalTool, May
  <2> QED
    BY <1>9, <1>20, <2>1 DEF InitalTool
<1>21. CASE EndOfInput
  BY <1>5, <1>9, <1>21 DEF EndOfInput
<1>22. CASE FlushEnds
  BY <1>9, <1>22 DEF FlushEnds
<1> QED
  BY <1>10, <1>11, <1>12, <1>15, <1>16, <1>17, <1>18, <1>19, <1>20, <1>21, <1>22 DEF Next

(* Nothing adds up: in a stream in which nothing goes wrong, the stamp of   *)
(* every output frame is within a packet, or an output frame, of the input  *)
(* time of its first sample, for every format whose frames last a whole     *)
(* number of ticks or are as long in as out, every delay and every number   *)
(* of packets.  For the others, what is lost in rounding the length of an   *)
(* output frame is lost again with every packet.                            *)
THEOREM StampsKeepPace == Spec => [](Paced => AudioAligned)
<1>1. Init => PaceInv
  <2> SUFFICES ASSUME Init PROVE PaceInv
    OBVIOUS
  <2>1. /\ fmt \in Formats /\ packets = 0 /\ at = "init" /\ pending = FALSE
        /\ fed = 0 /\ fifo = 0 /\ encoder = <<>> /\ last = NoStamp
    BY DEF Init
  <2>2. Len(encoder) = 0
    BY <2>1
  <2>3. Spaced(encoder, fed - fifo)
    BY <2>2 DEF Spaced
  <2>4. Len(encoder) <= Delay
    BY <2>2, DelayAssumption
  <2>5. /\ fed + (IF pending THEN In ELSE 0) = packets * In
        /\ fifo = IF at = "flow" /\ ~pending THEN In ELSE 0
    BY <2>1, FormatFields
  <2>6. at # "flow" /\ at \notin {"broken", "dead"}
    BY <2>1
  <2> QED
    BY <2>1, <2>3, <2>4, <2>5, <2>6, Zenon DEF PaceInv
<1>2. AudioTypeOK /\ SamplesAccounted /\ PaceInv /\ [Next]_vars => PaceInv'
  <2>1. CASE UNCHANGED vars
    BY <2>1, Zenon DEF vars, PaceInv, Paced, Exact, Matched, Kept, Close, Ahead, Near, Due, Spaced, Ticks,
                       _packet_duration, In, Out
  <2> QED
    BY <2>1, NextPaceInv
<1>3. AudioTypeOK /\ PaceInv => (Paced => AudioAligned)
  <2> SUFFICES ASSUME AudioTypeOK, PaceInv, Paced, mishaps = {}, last # NoStamp
               PROVE  last.stamp - Due(last.first + Delay * Out) \in
                        -(fmt.duration + 1)..(_packet_duration + 1)
    BY DEF AudioAligned
  <2>1. Kept(last.stamp, last.first + Delay * Out)
    BY DEF PaceInv
  <2>2. fmt \in Formats /\ last.stamp \in Int /\ last.first + Delay * Out \in Nat
    <3>1. fmt \in Formats /\ last.stamp \in Int /\ last.first \in Nat
      BY DEF AudioTypeOK
    <3> QED
      BY <3>1, FormatFields, DelayAssumption
  <2>3. CASE Exact
    BY <2>1, <2>2, <2>3, CloseIsAligned DEF Kept
  <2>4. CASE Matched
    <3> DEFINE n == last.first + Delay * Out
    <3>1. /\ last.stamp \in Int /\ fmt.duration \in Nat /\ _packet_duration \in Nat
          /\ Due(n) \in Int
          /\ -fmt.duration <= last.stamp - Due(n) /\ last.stamp - Due(n) <= 0
      <4>1. Near(last.stamp, n) /\ n \in Nat
        BY <2>1, <2>2, <2>4 DEF Kept
      <4> HIDE DEF n
      <4>2. Ticks(n) \in Int
        <5>1. n * fmt.num \in Int /\ fmt.den \in Nat /\ fmt.den > 0
          BY <2>2, <4>1, FormatFields
        <5> QED
          BY <5>1, Quotient DEF Ticks
      <4> QED
        BY <2>2, <4>1, <4>2, FormatFields, PacedFields DEF Near, Due
    <3> HIDE DEF n
    <3>2. last.stamp - Due(n) \in -(fmt.duration + 1)..(_packet_duration + 1)
      BY <3>1
    <3> QED
      BY <3>2 DEF n
  <2> QED
    BY <2>3, <2>4 DEF Paced
<1> QED
  BY <1>1, <1>2, <1>3, AudioAccounted, PTL DEF Spec
=============================================================================
