----------------------------- MODULE MediaFlow -----------------------------
(***************************************************************************)
(* What Process does under the lock, in detail: the loop that reads from a *)
(* memory input through read_packet and hands each packet to its stream    *)
(* object, the flush of one object after the other, and WriteEnd for those *)
(* callers who call it.  One channel: a Video and an Audio object, whose   *)
(* output is one Muxer.  It is the inside of the steps PrcInitTools to     *)
(* PrcFinish and EndWrite of Transcoder, which it implements.              *)
(*                                                                         *)
(* The buffer is a sequence of packets, each the name of its stream, and   *)
(* its size their number.                                                  *)
(***************************************************************************)
EXTENDS VideoFlow

CONSTANTS
  Inputs,                             (* The buffers to transcode.         *)
  BufSize,                            (* What the demuxer asks for at once. *)
  Skew,                               (* How far input and codecs alone    *)
                                      (* put packets out of order.         *)
  Formats, Delay, Mishaps, MaxPackets (* The constants of AudioFlow.       *)

ASSUME InputsAssumption  == Inputs \subseteq Seq({"video", "audio"})
ASSUME BufSizeAssumption == BufSize \in Nat \ {0}
ASSUME SkewAssumption    == Skew \in Nat
(* The output of a channel with a video and an audio stream.                *)
ASSUME TwoStreams        == OutIndices = {0, 1}

VARIABLES
  pc,         (* Where the thread is, as in Transcoder.                    *)
  turnoff,    (* _turnoff.                                                 *)
  buffer,     (* The mapped file ...                                       *)
  ptr, size,  (* ... and buffer_data: packets before ptr, packets left.    *)
  ahead,      (* What the demuxer has read and not delivered.              *)
  starved,    (* The loop has ended because the input has.                 *)
  first,      (* The stream object that comes first in _pidObject.         *)
  trailer,    (* WriteEnd was called.                                      *)
  \* The variables of AudioFlow.
  fmt, packets, at, pending, now_pts, fed, fifo, encoder, frames, last, mishaps

Audio == INSTANCE AudioFlow

ASSUME AudioAssumption ==
  /\ Formats \subseteq Audio!Format /\ Delay \in Nat
  /\ Mishaps \subseteq Audio!AllMishaps /\ MaxPackets \in Nat

audioVars == <<fmt, packets, at, pending, now_pts, fed, fifo, encoder, frames, last, mishaps>>
inputVars == <<buffer, ptr, size, ahead, starved>>
sinkVars  == <<muxerVars, videoVars, audioVars>>
mediaVars == <<pc, turnoff, inputVars, first, trailer, sinkVars>>

MediaTypeOK ==
  /\ VideoTypeOK /\ Audio!AudioTypeOK
  /\ pc \in {"prc_init", "prc_loop", "prc_read", "prc_drain", "prc_finish", "idle", "end_write"}
  /\ turnoff \in BOOLEAN
  /\ buffer \in Inputs
  /\ ptr \in Nat /\ size \in Nat /\ Len(ahead) <= BufSize
  /\ starved \in BOOLEAN /\ trailer \in BOOLEAN
  /\ first \in {"video", "audio"}

MediaInit ==
  /\ MuxerInit /\ VideoInit /\ Audio!Init
  /\ pc = "prc_init" /\ turnoff = FALSE
  /\ buffer \in Inputs
  /\ ptr = 0 /\ size = Len(buffer)
  /\ ahead = <<>> /\ starved = FALSE
  /\ first \in {"video", "audio"}
  /\ trailer = FALSE

audio_index == CHOOSE i \in OutIndices : i # video_index

Goto(from, to) == pc = from /\ pc' = to

-----------------------------------------------------------------------------
InitTools ==
  /\ Goto("prc_init", "prc_loop")
  /\ Audio!InitalTool
  /\ UNCHANGED <<turnoff, inputVars, first, trailer, muxerVars, videoVars>>

(* StopProcess, of another thread that has seen the status Process.  It may *)
(* raise the flag at any time; as the loop is all that reads it, the times  *)
(* just before it does so are enough.                                       *)
StopProcess ==
  /\ pc = "prc_loop" /\ ~turnoff
  /\ turnoff' = TRUE
  /\ UNCHANGED <<pc, inputVars, first, trailer, sinkVars>>

(* while (!_turnoff) *)
(* Mutant: the flag is not looked at while packets wait to be read. *)
MutLoopLate ==
  /\ Goto("prc_loop", "prc_read")
  /\ turnoff => ahead # <<>>
  /\ UNCHANGED <<turnoff, inputVars, first, trailer, sinkVars>>

Loop ==
  /\ Goto("prc_loop", "prc_read")
  /\ ~turnoff
  /\ UNCHANGED <<turnoff, inputVars, first, trailer, sinkVars>>

(* read_packet: FFMIN(buf_size, bd->size) bytes, or end of file. *)
Count == IF BufSize < size THEN BufSize ELSE size

(* The thread is in av_read_frame, and no object is at work. *)
Reading == pc = "prc_read" /\ at \in {"between", "broken"}

(* Mutant: the size asked for is subtracted. *)
MutReadPacketSubtractsAll ==
  /\ Reading /\ ahead = <<>> /\ Count > 0
  /\ ahead' = SubSeq(buffer, ptr + 1, ptr + Count)
  /\ ptr' = ptr + Count
  /\ size' = size - BufSize
  /\ UNCHANGED <<pc, turnoff, buffer, starved, first, trailer, sinkVars>>

(* Mutant: the pointer stays where it is. *)
MutReadPacketStays ==
  /\ Reading /\ ahead = <<>> /\ Count > 0
  /\ ahead' = SubSeq(buffer, ptr + 1, ptr + Count)
  /\ size' = size - Count
  /\ UNCHANGED <<pc, turnoff, buffer, ptr, starved, first, trailer, sinkVars>>

read_packet ==
  /\ Reading /\ ahead = <<>> /\ Count > 0
  /\ ahead' = SubSeq(buffer, ptr + 1, ptr + Count)
  /\ ptr' = ptr + Count
  /\ size' = size - Count
  /\ UNCHANGED <<pc, turnoff, buffer, starved, first, trailer, sinkVars>>

(* av_read_frame delivers the next packet.  The object it is for returns to *)
(* the loop, or dies.                                                       *)
Delivers(stream) ==
  /\ Reading /\ ahead # <<>> /\ Head(ahead) = stream
  /\ ahead' = Tail(ahead)
  /\ UNCHANGED <<turnoff, buffer, ptr, size, starved, first, trailer>>

Returns == pc' = IF at' \in {"between", "broken"} THEN "prc_loop" ELSE pc

VideoPacket ==
  /\ Delivers("video")
  /\ \E j \in Jitters : Flow(j)
  /\ pc' = "prc_loop"
  /\ UNCHANGED audioVars

AudioPacket ==
  /\ Delivers("audio")
  /\ Audio!ReadPacket \/ Audio!ReadUnstamped \/ Audio!DivideByZero \/ Audio!BrokenPacket
  /\ Returns
  /\ UNCHANGED <<muxerVars, videoVars>>

(* What the muxer is given when the audio object has written a frame.       *)
(* Mutant: it is given it through the queue.                                *)
MutWritesAudioQueued(stamp) ==
  IF frames' # frames
    THEN WriteInterleaved(Packet(audio_index, stamp, "audio", stamp))
    ELSE UNCHANGED muxerVars

WritesAudio(stamp) ==
  IF frames' # frames
    THEN WriteDirectly(Packet(audio_index, stamp, "audio", stamp))
    ELSE UNCHANGED muxerVars

(* Audio::Flow at work on its packet. *)
AudioStep ==
  /\ pc = "prc_read"
  /\ \/ Audio!AudioDecode \/ Audio!AudioDecodeFails
     \/ Audio!LoadDelayed \/ Audio!LoadWrites \/ Audio!LoadFails \/ Audio!LoadCrashes
  /\ WritesAudio(last'.stamp)
  /\ Returns
  /\ UNCHANGED <<turnoff, inputVars, first, trailer, videoVars>>

-----------------------------------------------------------------------------
(* The loop ends when the input does, when av_read_frame fails, or when     *)
(* _turnoff is found raised.                                                *)
LoopEnds ==
  /\ \/ Reading /\ Goto("prc_read", "prc_drain")
        /\ starved' = (ahead = <<>> /\ size = 0)
     \/ turnoff /\ Goto("prc_loop", "prc_drain") /\ UNCHANGED starved
  /\ VideoEnds /\ Audio!EndOfInput
  /\ UNCHANGED <<turnoff, buffer, ptr, size, ahead, first, trailer>>

(* The objects are flushed in the order of the map. *)
VideoTurn == pc = "prc_drain" /\ (first = "audio" => at = "done")
AudioTurn == pc = "prc_drain" /\ (first = "video" => stage = "done")

FlushVideo ==
  /\ VideoTurn /\ VideoFlush
  /\ UNCHANGED <<pc, turnoff, inputVars, first, trailer, audioVars>>

(* The frames of the audio's flush have no stamp; the muxer goes on from    *)
(* the last one.                                                            *)
FlushAudio ==
  /\ AudioTurn
  /\ Audio!FlushWrites \/ Audio!FlushFails \/ Audio!FlushEnds
  /\ WritesAudio(latest[audio_index] + Audio!_packet_duration)
  /\ UNCHANGED <<pc, turnoff, inputVars, first, trailer, videoVars>>

(* CleanUp and reset of both objects; then the status Finished. *)
Drained ==
  /\ stage = "done" /\ at = "done"
  /\ Goto("prc_drain", "prc_finish")
  /\ UNCHANGED <<turnoff, inputVars, first, trailer, sinkVars>>

Finish ==
  /\ Goto("prc_finish", "idle")
  /\ UNCHANGED <<turnoff, inputVars, first, trailer, sinkVars>>

(* WriteEnd, of a caller that makes the call. *)
CallWriteEnd ==
  /\ Goto("idle", "end_write") /\ ~trailer
  /\ UNCHANGED <<turnoff, inputVars, first, trailer, sinkVars>>

WriteEnd ==
  /\ Goto("end_write", "idle")
  /\ WriteTrailer
  /\ trailer' = TRUE
  /\ UNCHANGED <<turnoff, inputVars, first, videoVars, audioVars>>

-----------------------------------------------------------------------------
ProcessNext ==
  \/ InitTools \/ Loop \/ read_packet \/ VideoPacket \/ AudioPacket \/ AudioStep
  \/ LoopEnds \/ FlushVideo \/ FlushAudio \/ Drained \/ Finish

MediaNext == ProcessNext \/ StopProcess \/ CallWriteEnd \/ WriteEnd

(* The thread runs; nobody has to stop it or to call WriteEnd. *)
MediaSpec == MediaInit /\ [][MediaNext]_mediaVars /\ WF_mediaVars(ProcessNext)

-----------------------------------------------------------------------------
(* Every packet of the buffer is delivered, once, in its order and to its   *)
(* own stream, by the time the input ends: those delivered so far are the   *)
(* first of the buffer, and the demuxer holds the next of them.             *)
Of(stream, s) == Cardinality({n \in DOMAIN s : s[n] = stream})
InputDelivered ==
  /\ pictures = Of("video", SubSeq(buffer, 1, pictures + packets))
  /\ packets = Of("audio", SubSeq(buffer, 1, pictures + packets))
  /\ ahead = SubSeq(buffer, pictures + packets + 1, ptr)
  /\ starved => pictures + packets = Len(buffer)

(* A transcode of a memory input ends, because the buffer does, whether     *)
(* anybody stops it or not, and whatever goes wrong.                        *)
MemoryInputEnds == <>(pc = "idle" \/ at = "dead")

(* What a caller who does not write the trailer misses, as the server does  *)
(* not, is the end of the video: packets that follow all the video in the   *)
(* file, over not more than the muxer's limit.  Audio is never held back,   *)
(* and with the trailer nothing is missing.                                 *)
MissingTail ==
  /\ \A n \in DOMAIN queue :
       /\ queue[n].from = "video"
       /\ \A m \in DOMAIN file :
            file[m].from = "video" => file[m].stamp <= queue[n].stamp
  /\ queue # <<>> => queue[Len(queue)].stamp - queue[1].stamp <= MaxInterleaveDelta
  /\ trailer => queue = <<>>

(* "the packets in the output file are properly interleaved in the order of *)
(* increasing dts": the file goes back in time no further than input and    *)
(* codecs account for.                                                      *)
Interleaved ==
  \A m, n \in DOMAIN file : m < n => file[m].stamp <= file[n].stamp + Skew

JobMethod == CASE pc = "idle"      -> "none"
               [] pc = "end_write" -> "WriteEnd"
               [] OTHER            -> "Process"

(* The Transcoder in the middle of a call: the channel is configured, as    *)
(* input 1 and output 2, "job" runs Process and "operator" StopProcess.     *)
Process == INSTANCE Transcoder WITH
  Streams <- {0, 1}, Kind <- [s \in {0, 1} |-> IF s = 0 THEN "video" ELSE "audio"],
  Channels <- {"channel"}, Selects <- [c \in {"channel"} |-> {0, 1}],
  Failures <- {"audio"},
  Threads <- {"job", "operator"}, NoThread <- "none",
  Lists <- {<<"channel">>}, MaxList <- 1, MaxCalls <- 4,
  ifmt_ctx <- 1, inputs <- {1}, memory <- {1}, decoders <- {1} \X {0, 1},
  outputs <- {2}, ofmt_list <- {2}, ended <- IF trailer THEN {2} ELSE {}, created <- 2,
  pidObject <- [s \in {0, 1} |->
     IF pc \in {"prc_finish", "idle", "end_write"}
       THEN [is |-> "null",   in |-> 0, out |-> 0]
       ELSE [is |-> "object", in |-> 1, out |-> 2]],
  fault <- IF at = "dead" THEN "audio_object" ELSE "none",
  state <- IF pc \in {"idle", "end_write"} THEN "Finished" ELSE "Process",
  lock  <- IF pc \in {"idle", "end_write"} THEN "none" ELSE "job",
  pc <- [t \in {"job", "operator"} |->
           IF t = "job" THEN pc ELSE IF turnoff THEN "stp_wait" ELSE "stp_arm"],
  method <- [t \in {"job", "operator"} |-> IF t = "job" THEN JobMethod ELSE "StopProcess"],
  ifmt <- [t \in {"job", "operator"} |-> IF t = "job" THEN 1 ELSE 0],
  frame <- [t \in {"job", "operator"} |-> IF t = "job" THEN 1 ELSE 0],
  channel_list <- <<"channel">>,
  pos <- [t \in {"job", "operator"} |-> 2],
  stale <- [t \in {"job", "operator"} |-> FALSE],
  calls <- IF trailer \/ pc = "end_write" THEN 4 ELSE 3

(* The loop, the objects and the flush in this detail are what Transcoder   *)
(* makes of them: it reads on only when the flag is down, empties the map   *)
(* and reports Finished only when it has drained, and dies only in an       *)
(* object that is at work on a packet.                                      *)
ImplementsProcess == [][Process!Next]_(Process!vars)
=============================================================================
