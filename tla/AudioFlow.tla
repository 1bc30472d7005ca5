----------------------------- MODULE AudioFlow -----------------------------
(***************************************************************************)
(* One Audio object, from the first packet to the end of its flush: the    *)
(* FIFO between the decoder's frames and the encoder's, which differ in    *)
(* length, and the time stamps, computed anew from every input packet.     *)
(* It runs under _lock_process; nothing interferes.                        *)
(*                                                                         *)
(* Lengths are in units of samples that divide both frame lengths, times   *)
(* in ticks of the container, the same for input and output.  The demuxer  *)
(* delivers one frame per packet.  The decoder, the encoder with its delay *)
(* and the muxer, which wants stamps that increase strictly (avformat.h),  *)
(* are the library's.                                                      *)
(***************************************************************************)
EXTENDS Integers, Sequences

CONSTANTS
  Formats,     (* The formats a stream may have, see Format.               *)
  Delay,       (* Frames the encoder holds back.                           *)
  Mishaps,     (* What may go wrong: any subset of AllMishaps.             *)
  MaxPackets   (* Bound: number of input packets.                          *)

AllMishaps == {"init", "lost", "nopts", "decode", "frame", "encode", "write"}

(* in, out: frame length of decoder and encoder.  num / den: ticks per      *)
(* unit.  duration: what the demuxer says of a packet, 0 if it cannot tell. *)
(* lead: how far after the video the audio starts.                          *)
Format == [in : Nat \ {0}, out : Nat \ {0}, num : Nat \ {0}, den : Nat \ {0},
           duration : Nat, lead : Int]

ASSUME FormatsAssumption == Formats \subseteq Format
ASSUME DelayAssumption   == Delay \in Nat
ASSUME MishapsAssumption == Mishaps \subseteq AllMishaps
ASSUME PacketsAssumption == MaxPackets \in Nat

VARIABLES
  fmt,      (* The format.                                                 *)
  packets,  (* Number of input packets so far.                             *)
  at,       (* Where the object is: before InitalTool, "broken" by it,     *)
            (* between two packets, in Flow, ...                           *)
  pending,  (* The packet that Flow works on is not decoded yet.           *)
  now_pts,  (* Flow: _now_pts.                                             *)
  fed,      (* Samples written to _fifo so far ...                         *)
  fifo,     (* ... and those still in it.                                  *)
  encoder,  (* The frames in the encoder, by their first sample.           *)
  frames,   (* Number of frames written to the output.                     *)
  last,     (* The last one that was stamped: its stamp, its first sample. *)
  mishaps   (* What has gone wrong so far.                                 *)

vars == <<fmt, packets, at, pending, now_pts, fed, fifo, encoder, frames, last, mishaps>>

In  == fmt.in
Out == fmt.out

Ticks(n) == (n * fmt.num) \div fmt.den

(* _packet_duration: the length of an output frame, truncated to a tick. *)
_packet_duration == Ticks(Out)

(* The input time of a sample, from the start of the video. *)
Due(n) == fmt.lead + Ticks(n)

NoStamp == [stamp |-> -1, first |-> 0]

AudioTypeOK ==
  /\ fmt \in Formats
  /\ packets \in 0..MaxPackets
  /\ at \in {"init", "broken", "between", "flow", "flush", "done", "dead"}
  /\ pending \in BOOLEAN
  /\ now_pts \in Int
  /\ fed \in Nat /\ fifo \in Nat /\ frames \in Nat
  /\ encoder \in Seq(Nat)
  /\ last \in [stamp : Int, first : Nat]
  /\ mishaps \subseteq AllMishaps \cup {"order", "division"}

Init ==
  /\ fmt \in Formats
  /\ packets = 0
  /\ at = "init" /\ pending = FALSE
  /\ now_pts = 0
  /\ fed = 0 /\ fifo = 0 /\ encoder = <<>>
  /\ frames = 0 /\ last = NoStamp
  /\ mishaps = {}

May(what) == what \in Mishaps /\ mishaps' = mishaps \cup {what}

-----------------------------------------------------------------------------
(* InitalTool: the resampler and the FIFO, or a null pointer in the place   *)
(* of one, which nobody looks at before the first packet.                   *)
InitalTool ==
  /\ at = "init"
  /\ \/ at' = "between" /\ UNCHANGED mishaps
     \/ at' = "broken" /\ May("init")
  /\ UNCHANGED <<fmt, packets, pending, now_pts, fed, fifo, encoder, frames, last>>

(* The null pointer is followed; but a packet that cannot be decoded does   *)
(* not get to the resampler.                                                *)
BrokenPacket ==
  /\ at = "broken"
  /\ packets < MaxPackets
  /\ packets' = packets + 1
  /\ \/ at' = "dead" /\ UNCHANGED mishaps
     \/ at' = at /\ May("decode")
  /\ UNCHANGED <<fmt, pending, now_pts, fed, fifo, encoder, frames, last>>

-----------------------------------------------------------------------------
(***************************************************************************)
(* Flow, up to its loop: the packets before it, in whole durations, times  *)
(* the length of an input frame.  The last multiplications are in floating *)
(* point, and a result that should be a whole number may come out one tick *)
(* short when it is truncated.                                             *)
(***************************************************************************)

(* Mutant: the packet itself is counted. *)
MutWholeCountsThis(n) == LET revised == IF Due(n) < 0 THEN 0 ELSE Due(n)
                         IN  revised \div fmt.duration + 1

Whole(n)    == LET revised == IF Due(n) < 0 THEN 0 ELSE Due(n)
               IN  revised \div fmt.duration

NowPts(n) ==
  LET product == Whole(n) * In * _packet_duration
      exact   == product \div Out
  IN  {exact} \cup IF product % Out = 0 /\ exact > 0 THEN {exact - 1} ELSE {}

ReadPacket ==
  /\ at = "between"
  /\ packets < MaxPackets
  /\ packets' = packets + 1
  /\ fmt.duration > 0
  /\ now_pts' \in NowPts(packets * In)
  /\ at' = "flow" /\ pending' = TRUE
  /\ UNCHANGED <<fmt, fed, fifo, encoder, frames, last, mishaps>>

(* AV_NOPTS_VALUE is the least integer.  Without the start time it is       *)
(* negative and counts as 0, or overflows into the far future.              *)
Far == 10^9

ReadUnstamped ==
  /\ at = "between"
  /\ packets < MaxPackets
  /\ fmt.duration > 0
  /\ May("nopts")
  /\ packets' = packets + 1
  /\ now_pts' \in {0, Far}
  /\ at' = "flow" /\ pending' = TRUE
  /\ UNCHANGED <<fmt, fed, fifo, encoder, frames, last>>

(* The stamp is computed by a division by the duration. *)
DivideByZero ==
  /\ at = "between"
  /\ packets < MaxPackets
  /\ fmt.duration = 0
  /\ packets' = packets + 1
  /\ at' = "dead"
  /\ mishaps' = mishaps \cup {"division"}
  /\ UNCHANGED <<fmt, pending, now_pts, fed, fifo, encoder, frames, last>>

(* A packet that does not reach the demuxer: the next one is later. *)
LosePacket ==
  /\ at = "between"
  /\ packets < MaxPackets
  /\ May("lost")
  /\ packets' = packets + 1
  /\ UNCHANGED <<fmt, at, pending, now_pts, fed, fifo, encoder, frames, last>>

-----------------------------------------------------------------------------
(* The loop of Flow: the packet is decoded when the FIFO holds less than an *)
(* output frame, and output frames are encoded while it holds one.  Flow    *)
(* returns when there is neither.                                           *)
(* Mutant: an if in place of the loop over the FIFO. *)
MutRestOnce(samples, undecoded) == IF ~undecoded THEN "between" ELSE "flow"

Rest(samples, undecoded) == IF samples < Out /\ ~undecoded THEN "between" ELSE "flow"

AudioDecode ==
  /\ at = "flow" /\ pending /\ fifo < Out
  /\ fed' = fed + In
  /\ fifo' = fifo + In
  /\ pending' = FALSE
  /\ at' = Rest(fifo', FALSE)
  /\ UNCHANGED <<fmt, packets, now_pts, encoder, frames, last, mishaps>>

AudioDecodeFails ==
  /\ at = "flow" /\ pending /\ fifo < Out
  /\ May("decode")
  /\ pending' = FALSE
  /\ at' = "between"
  /\ UNCHANGED <<fmt, packets, now_pts, fed, fifo, encoder, frames, last>>

(* Load_encode_and_write takes a frame from the FIFO and gives it to the    *)
(* encoder, which gives back the one it has held longest; _now_pts, the     *)
(* stamp of the frame that goes in, becomes the stamp of the one that comes *)
(* out.                                                                     *)
Taken == Append(encoder, fed - fifo)

(* Mutant: a frame is taken from a FIFO that does not hold one. *)
MutLoadShort(after) ==
  /\ at = "flow"
  /\ fifo' = fifo - Out
  /\ encoder' = after
  /\ UNCHANGED <<fmt, packets, fed>>

Load(after) ==
  /\ at = "flow" /\ fifo >= Out
  /\ fifo' = fifo - Out
  /\ encoder' = after
  /\ UNCHANGED <<fmt, packets, fed>>

(* Mutant: the frames of one packet get one stamp. *)
MutContinueSameStamp ==
  /\ at' = Rest(fifo', pending)
  /\ UNCHANGED <<now_pts, pending>>

Continue ==
  /\ at' = Rest(fifo', pending)
  /\ now_pts' = now_pts + _packet_duration
  /\ UNCHANGED pending
GiveUp ==
  /\ at' = "between"
  /\ pending' = FALSE
  /\ UNCHANGED now_pts

LoadDelayed ==
  /\ Load(Taken)
  /\ Len(encoder) < Delay
  /\ Continue
  /\ UNCHANGED <<frames, last, mishaps>>

LoadWrites ==
  /\ Load(Tail(Taken))
  /\ Len(encoder) >= Delay
  /\ now_pts > last.stamp
  /\ last' = [stamp |-> now_pts, first |-> Head(Taken)]
  /\ frames' = frames + 1
  /\ Continue
  /\ UNCHANGED mishaps

(* Its catch block returns no value, and Flow goes on or gives up as it     *)
(* finds it.  The frame is gone: refused by the encoder, by the muxer for   *)
(* its stamp, or not written.                                               *)
LoadFails ==
  /\ \/ Load(encoder) /\ May("encode")
     \/ /\ Load(Tail(Taken)) /\ Len(encoder) >= Delay
        /\ \/ May("write")
           \/ now_pts <= last.stamp /\ mishaps' = mishaps \cup {"order"}
  /\ Continue \/ GiveUp
  /\ UNCHANGED <<frames, last>>

(* _init_output_frame swallows its exception and leaves no frame; the      *)
(* samples are read into it.                                               *)
LoadCrashes ==
  /\ at = "flow" /\ fifo >= Out
  /\ May("frame")
  /\ at' = "dead"
  /\ UNCHANGED <<fmt, packets, pending, now_pts, fed, fifo, encoder, frames, last>>

-----------------------------------------------------------------------------
(* The end of the input, or a stop; then FlushEncoder, whose frames have no *)
(* stamp.  What is left in the FIFO stays there.                            *)

EndOfInput ==
  /\ at \in {"between", "broken"}
  /\ at' = "flush"
  /\ UNCHANGED <<fmt, packets, pending, now_pts, fed, fifo, encoder, frames, last, mishaps>>

FlushWrites ==
  /\ at = "flush" /\ encoder # <<>>
  /\ encoder' = Tail(encoder)
  /\ frames' = frames + 1
  /\ UNCHANGED <<fmt, packets, at, pending, now_pts, fed, fifo, last, mishaps>>

FlushFails ==
  /\ at = "flush" /\ encoder # <<>>
  /\ \/ May("encode")
     \/ May("write")
  /\ at' = "done"
  /\ UNCHANGED <<fmt, packets, pending, now_pts, fed, fifo, encoder, frames, last>>

(* Mutant: the flush stops after the first frame. *)
MutFlushEndsEarly ==
  /\ at = "flush" /\ Len(encoder) < Delay
  /\ at' = "done"
  /\ UNCHANGED <<fmt, packets, pending, now_pts, fed, fifo, encoder, frames, last, mishaps>>

FlushEnds ==
  /\ at = "flush" /\ encoder = <<>>
  /\ at' = "done"
  /\ UNCHANGED <<fmt, packets, pending, now_pts, fed, fifo, encoder, frames, last, mishaps>>

-----------------------------------------------------------------------------
Next ==
  \/ InitalTool \/ BrokenPacket \/ ReadUnstamped
  \/ ReadPacket \/ DivideByZero \/ LosePacket
  \/ AudioDecode \/ AudioDecodeFails
  \/ LoadDelayed \/ LoadWrites \/ LoadFails \/ LoadCrashes
  \/ EndOfInput \/ FlushWrites \/ FlushFails \/ FlushEnds

Spec == Init /\ [][Next]_vars

-----------------------------------------------------------------------------
Refusals == {"encode", "write", "order"}
Refused  == mishaps \cap Refusals # {}

(* As long as neither encoder nor muxer has refused a frame, every sample   *)
(* that was decoded is in the FIFO, in the encoder or in the output, and    *)
(* between two packets the FIFO holds less than an output frame.            *)
SamplesAccounted ==
  /\ fifo <= fed
  /\ ~Refused => /\ fed = fifo + Out * (frames + Len(encoder))
                 /\ at \in {"init", "broken", "between", "flush", "done"} => fifo < Out
                 /\ at = "done" => encoder = <<>>

(* When the stream has been flushed and neither encoder nor muxer has       *)
(* refused a frame, every sample that was decoded is in the output, but for *)
(* less than one output frame that is left in the FIFO.                     *)
FlushIsComplete ==
  at = "done" /\ ~Refused => fed - Out * frames \in 0..(Out - 1)

(* The stamps that are computed packet by packet never make the muxer       *)
(* refuse a frame, whatever packets are lost or broken, if the audio does   *)
(* not start before the video, every packet has a stamp of its own and      *)
(* nothing else is refused.                                                 *)
StampsAccepted ==
  "order" \in mishaps => fmt.lead < 0 \/ mishaps \cap {"encode", "write", "nopts"} # {}

(* "To align video and audio": an output frame is stamped with the input    *)
(* time of its first sample, to within the length of a frame, but for the   *)
(* constant shift by the frames the encoder holds back.                     *)
AudioAligned ==
  mishaps = {} /\ fmt.lead >= 0 /\ last # NoStamp =>
    last.stamp - Due(last.first + Delay * Out) \in
      -(fmt.duration + 1)..(_packet_duration + 1)
=============================================================================
