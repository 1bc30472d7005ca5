------------------------------- MODULE Muxer -------------------------------
(***************************************************************************)
(* One output context as the stream objects see it: libavformat, modelled  *)
(* from what include/libavformat/avformat.h promises and asks of callers.  *)
(* A packet is a record of the stream it is written to, its stamp, and     *)
(* what is in it: the stream object it comes from and the time the content *)
(* is due.  The dts is the stamp.                                          *)
(***************************************************************************)
EXTENDS Integers, Sequences, FiniteSets

CONSTANTS
  OutIndices,          (* The stream indices of the output.                *)
  MaxInterleaveDelta   (* AVFormatContext.max_interleave_delta.            *)

ASSUME OutIndicesAssumption == OutIndices \subseteq Nat
ASSUME DeltaAssumption      == MaxInterleaveDelta \in Nat

VARIABLES
  latest,  (* The stamp of the last packet accepted in each stream.        *)
  queue,   (* The packets that wait to be interleaved.                     *)
  file     (* The packets written to the file.                             *)

muxerVars == <<latest, queue, file>>

Packet(index, stamp, from, due) ==
  [index |-> index, stamp |-> stamp, from |-> from, due |-> due]

MuxerInit ==
  /\ latest = [i \in OutIndices |-> -1]
  /\ queue = <<>> /\ file = <<>>

(* The stamps of one stream have to increase strictly. *)
Accepts(p) == p.stamp > latest[p.index]

(* Packets wait until there is one of each stream, or until the first and  *)
(* the last are further apart than the limit.                              *)
Waits(q) ==
  \/ q = <<>>
  \/ /\ {q[n].index : n \in DOMAIN q} # OutIndices
     /\ q[Len(q)].stamp - q[1].stamp <= MaxInterleaveDelta

(* How many packets are released from the head of a queue. *)
Released(q) ==
  CHOOSE n \in 0..Len(q) :
    /\ Waits(SubSeq(q, n + 1, Len(q)))
    /\ \A m \in 0..(n - 1) : ~Waits(SubSeq(q, m + 1, Len(q)))

(* av_interleaved_write_frame: the queue is ordered by stamp, and a packet  *)
(* takes its place before the first that is later.                          *)
Place(p) ==
  CHOOSE n \in 1..(Len(queue) + 1) :
    /\ \A m \in 1..(n - 1) : queue[m].stamp <= p.stamp
    /\ n <= Len(queue) => queue[n].stamp > p.stamp

Enqueue(p) ==
  SubSeq(queue, 1, Place(p) - 1) \o <<p>> \o SubSeq(queue, Place(p), Len(queue))

WriteInterleaved(p) ==
  LET q == Enqueue(p)
  IN  /\ Accepts(p)
      /\ latest' = [latest EXCEPT ![p.index] = p.stamp]
      /\ file'   = file \o SubSeq(q, 1, Released(q))
      /\ queue'  = SubSeq(q, Released(q) + 1, Len(q))

(* av_write_frame: past the queue. *)
WriteDirectly(p) ==
  /\ Accepts(p)
  /\ latest' = [latest EXCEPT ![p.index] = p.stamp]
  /\ file' = Append(file, p)
  /\ UNCHANGED queue

(* av_write_trailer flushes the queue. *)
WriteTrailer ==
  /\ file' = file \o queue
  /\ queue' = <<>>
  /\ UNCHANGED latest
=============================================================================
