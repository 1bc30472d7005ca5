---------------------------- MODULE MCTranscoder ----------------------------
(* Small instances of Transcoder: an input with a video and an audio       *)
(* stream, and channels that select both, or only the audio.  A list of    *)
(* the latter may grow by the former before, while or after the input is   *)
(* opened with a decoder for the audio alone.                              *)
EXTENDS Transcoder, TLC

CONSTANTS av, radio, t1, t2, t3

MCStreams  == {0, 1}
MCKind     == [s \in MCStreams |-> IF s = 0 THEN "video" ELSE "audio"]
MCChannels == {av, radio}
MCSelects  == [c \in MCChannels |-> IF c = av THEN {0, 1} ELSE {1}]
MCLists    == {<<radio>>}
OneList    == {<<av>>}
GoodChannels == {av}
GoodSelects  == [c \in GoodChannels |-> MCSelects[c]]
Symmetry == Permutations(Threads)
=============================================================================
