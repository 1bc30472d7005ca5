----------------------------- MODULE VideoFlow -----------------------------
(***************************************************************************)
(* One Video object, from its first packet to the end of its flush.  It    *)
(* runs under _lock_process; nothing interferes.  A packet is one picture, *)
(* and TranscodeFlow is one action per outcome; Flow ignores which.        *)
(*                                                                         *)
(* Times are ticks of the container, the same for input and output; a      *)
(* picture lasts Num / Den ticks, the inverse of the framerate the encoder *)
(* counts in.  Decoder and encoder, each with its delay, are the library's *)
(* and keep the order of pictures.                                         *)
(***************************************************************************)
EXTENDS Muxer

CONSTANTS
  Num, Den,        (* Length of a picture.                                 *)
  Jitters,         (* How far a packet's stamp may be off its place.       *)
  DecoderHolds,    (* Pictures the decoder holds back ...                  *)
  EncoderHolds,    (* ... and the encoder.                                 *)
  Troubles,        (* What may go wrong: any subset of AllTroubles.        *)
  MaxTroubles      (* Bound: how often something goes wrong.               *)

AllTroubles == {"decode", "encode", "write"}

ASSUME PictureAssumption  == Num \in Nat \ {0} /\ Den \in Nat \ {0}
ASSUME JittersAssumption  == Jitters \subseteq Int
(* Packets in the order of their stamps: no two are off by more than a      *)
(* picture lasts.                                                           *)
Orderly == \A j, k \in Jitters : j - k <= Num \div Den
(* A picture lasts a tick or longer.                                        *)
Ticking == Den <= Num

ASSUME HoldsAssumption    == DecoderHolds \in Nat /\ EncoderHolds \in Nat
ASSUME TroublesAssumption == Troubles \subseteq AllTroubles /\ MaxTroubles \in Nat

VARIABLES
  video_index,  (* _video_index.                                           *)
  stage,        (* "packets", "flush" or "done".                           *)
  pictures,     (* Number of packets so far.                               *)
  decoding,     (* The pictures in the decoder ...                         *)
  encoding,     (* ... and in the encoder.                                 *)
  troubles      (* How often something went wrong, a stamp included that   *)
                (* makes a picture count as another.                       *)

videoVars == <<video_index, stage, pictures, decoding, encoding, troubles>>

Picture == [frame : Int, due : Int]

VideoTypeOK ==
  /\ video_index \in OutIndices
  /\ stage \in {"packets", "flush", "done"}
  /\ pictures \in Nat /\ troubles \in Nat
  /\ decoding \in Seq(Picture) /\ Len(decoding) <= DecoderHolds
  /\ encoding \in Seq(Picture) /\ Len(encoding) <= EncoderHolds

VideoInit ==
  /\ video_index \in OutIndices
  /\ stage = "packets" /\ pictures = 0
  /\ decoding = <<>> /\ encoding = <<>>
  /\ troubles = 0

-----------------------------------------------------------------------------
(* av_packet_rescale_ts: to the nearest, halves away from zero. *)
Rescale(t, num, den) ==
  IF t >= 0 THEN (2 * t * num + den) \div (2 * den)
            ELSE -((-2 * t * num + den) \div (2 * den))

(* Mutant: the stamp of the packet is truncated to a whole picture. *)
MutFrameOfTruncates(t) == (t * Den) \div Num

FrameOf(t) == Rescale(t, Den, Num)
StampOf(f) == Rescale(f, Num, Den)

-----------------------------------------------------------------------------
(* The next packet arrives: its place in the stream, off by j, counted in   *)
(* pictures of the encoder's framerate.  Off by about half a picture or     *)
(* more it is counted as another one.                                       *)
Arrival(j) == LET t == StampOf(pictures) + j IN [frame |-> FrameOf(t), due |-> t]
Rough(j)   == Arrival(j).frame # pictures

Takes(j, wrong) ==
  /\ stage = "packets"
  /\ pictures = 0 => j = 0
  /\ pictures' = pictures + 1
  /\ troubles' = troubles + wrong + (IF Rough(j) THEN 1 ELSE 0)
  /\ troubles' <= MaxTroubles
  /\ UNCHANGED <<video_index, stage>>

(* VideoDecoder: the packet is broken, or there is no frame for it. *)
DecodeFails(j) ==
  /\ "decode" \in Troubles /\ Takes(j, 1)
  /\ UNCHANGED <<decoding, encoding, muxerVars>>

DecoderDelays(j) ==
  /\ Takes(j, 0)
  /\ Len(decoding) < DecoderHolds
  /\ decoding' = Append(decoding, Arrival(j))
  /\ UNCHANGED <<encoding, muxerVars>>

(* VideoDecoder gives a frame, which goes to the encoder. *)
Decodes(j) ==
  /\ Len(decoding) >= DecoderHolds
  /\ decoding' = Tail(Append(decoding, Arrival(j)))
Decoded(j) == Head(Append(decoding, Arrival(j)))

EncodeFails(j) ==
  /\ "encode" \in Troubles /\ Takes(j, 1) /\ Decodes(j)
  /\ UNCHANGED <<encoding, muxerVars>>

(* The encoder keeps the frame.  The empty packet is offered to the muxer,  *)
(* and "Encoding failed" is raised whatever it says.                        *)
EncoderDelays(j) ==
  /\ Takes(j, 0) /\ Decodes(j)
  /\ Len(encoding) < EncoderHolds
  /\ encoding' = Append(encoding, Decoded(j))
  /\ UNCHANGED muxerVars

Encodes(j) ==
  /\ Decodes(j)
  /\ Len(encoding) >= EncoderHolds
  /\ encoding' = Tail(Append(encoding, Decoded(j)))
PacketOf(picture, index) ==
  Packet(index, StampOf(picture.frame), "video", picture.due)
(* Mutant: the packet keeps the index it is initialized with. *)
MutEncodedUnindexed(j) == PacketOf(Head(Append(encoding, Decoded(j))), 0)

Encoded(j) == PacketOf(Head(Append(encoding, Decoded(j))), video_index)

PictureWritten(j) ==
  /\ Takes(j, 0) /\ Encodes(j)
  /\ WriteInterleaved(Encoded(j))

PictureRefused(j) ==
  /\ Encodes(j)
  /\ \/ "write" \in Troubles /\ Takes(j, 1)
     \/ ~Accepts(Encoded(j)) /\ Takes(j, 0)
  /\ UNCHANGED muxerVars

Flow(j) ==
  \/ DecodeFails(j) \/ DecoderDelays(j) \/ EncodeFails(j)
  \/ EncoderDelays(j) \/ PictureWritten(j) \/ PictureRefused(j)

-----------------------------------------------------------------------------
(* FlushEncoder: what the encoder holds goes to stream 0, whatever the      *)
(* index of the video is, and the muxer's answer is not looked at.  The     *)
(* decoder is not flushed.                                                  *)
VideoEnds ==
  /\ stage = "packets"
  /\ stage' = "flush"
  /\ UNCHANGED <<video_index, pictures, decoding, encoding, troubles, muxerVars>>

Flushed == PacketOf(Head(encoding), 0)

(* Mutant: the answer is looked at, and a refusal ends the flush. *)
MutPictureFlushed ==
  /\ stage = "flush" /\ encoding # <<>>
  /\ \/ WriteInterleaved(Flushed) /\ stage' = stage /\ troubles' = troubles
     \/ /\ ~Accepts(Flushed) /\ troubles' = troubles
        /\ stage' = "done"
        /\ UNCHANGED muxerVars
  /\ encoding' = Tail(encoding)
  /\ UNCHANGED <<video_index, pictures, decoding>>

PictureFlushed ==
  /\ stage = "flush" /\ encoding # <<>>
  /\ \/ WriteInterleaved(Flushed) /\ troubles' = troubles
     \/ ~Accepts(Flushed) /\ troubles' = troubles /\ UNCHANGED muxerVars
     \/ /\ "write" \in Troubles /\ troubles < MaxTroubles
        /\ troubles' = troubles + 1
        /\ UNCHANGED muxerVars
  /\ encoding' = Tail(encoding)
  /\ UNCHANGED <<video_index, stage, pictures, decoding>>

VideoFlushFails ==
  /\ stage = "flush" /\ encoding # <<>>
  /\ "encode" \in Troubles /\ troubles < MaxTroubles
  /\ troubles' = troubles + 1
  /\ stage' = "done"
  /\ UNCHANGED <<video_index, pictures, decoding, encoding, muxerVars>>

(* Mutant: the flush does not stop when there is no frame. *)
MutVideoFlushEndsNot ==
  /\ stage = "flush" /\ encoding = <<>>
  /\ UNCHANGED <<video_index, stage, pictures, decoding, encoding, troubles, muxerVars>>

VideoFlushEnds ==
  /\ stage = "flush" /\ encoding = <<>>
  /\ stage' = "done"
  /\ UNCHANGED <<video_index, pictures, decoding, encoding, troubles, muxerVars>>

VideoFlush == PictureFlushed \/ VideoFlushFails \/ VideoFlushEnds

-----------------------------------------------------------------------------
Sent    == queue \o file
Shown   == {n \in DOMAIN Sent : Sent[n].from = "video"}
Strays  == {n \in Shown : Sent[n].index # video_index}

(* The pictures in the two codecs that will still be asked for: the decoder *)
(* is not once the input has ended, nor the encoder after its flush.        *)
Awaited == CASE stage = "packets" -> Len(decoding) + Len(encoding)
             [] stage = "flush"   -> Len(encoding)
             [] stage = "done"    -> 0
Left == Len(decoding) + Len(encoding) - Awaited
Lost == pictures - Awaited - Cardinality(Shown)

(* What is lost is what is left in the codecs for ever, and beyond that one *)
(* picture for each thing that goes wrong, a stamp that counts as another   *)
(* picture's included, and none for anything else; but for those that the   *)
(* encoder still holds when the input ends, if the video is not stream 0.   *)
(* When nothing has gone wrong exactly the pictures that the decoder was    *)
(* holding are left: the last DecoderHolds of them.                         *)
PicturesAccounted ==
  /\ Lost - Left \in 0..(troubles + IF stage = "packets" \/ video_index = 0 THEN 0
                                     ELSE EncoderHolds)
  /\ stage = "done" /\ troubles = 0 =>
       Left = IF pictures < DecoderHolds THEN pictures ELSE DecoderHolds

(* A picture is shown within half a picture and half a tick of its time,    *)
(* however long the stream: stamps are rescaled one by one, and errors do   *)
(* not add up.                                                              *)
VideoAligned ==
  \A n \in Shown : LET off == Sent[n].stamp - Sent[n].due
                   IN  2 * Den * (IF off < 0 THEN -off ELSE off) <= Num + Den

(* Pictures in the wrong stream are those the encoder still held at the end *)
(* of the input: at most so many, and not before any of the others.        *)
StraysAreDelayed ==
  /\ stage = "packets" => Strays = {}
  /\ Cardinality(Strays) <= EncoderHolds
  /\ \A s \in Strays, n \in Shown \ Strays : Sent[n].stamp <= Sent[s].stamp
=============================================================================
