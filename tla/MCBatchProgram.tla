--------------------------- MODULE MCBatchProgram ---------------------------
(* Configuration on an input of four streams, for every list of up to three *)
(* channels: disjoint, overlapping, without video, with a data stream.     *)
EXTENDS Configuration

CONSTANTS av, film, radio, data, nothing

MCStreams  == 0..3
MCKind     == [s \in MCStreams |-> CASE s \in {0, 3} -> "video"
                                     [] s = 1        -> "audio"
                                     [] s = 2        -> "other"]
MCChannels == {av, film, radio, data, nothing}
MCSelects  == [c \in MCChannels |-> CASE c = av      -> {0, 1}
                                      [] c = film    -> {1, 3}
                                      [] c = radio   -> {1}
                                      [] c = data    -> {0, 2}
                                      [] c = nothing -> {}]
MCLists    == UNION {[1..n -> MCChannels] : n \in 0..3}
MCThreads  == {Main}
=============================================================================
