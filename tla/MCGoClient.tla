----------------------------- MODULE MCGoClient -----------------------------
(* GoClient with two handlers and an input of a video and an audio stream, *)
(* both in the channel of the client.                                      *)
EXTENDS GoClient

CONSTANTS av, h1, h2, j1, j2

MCStreams  == {0, 1}
MCKind     == [s \in MCStreams |-> IF s = 0 THEN "video" ELSE "audio"]
MCChannels == {av}
MCSelects  == [c \in MCChannels |-> MCStreams]
MCLists    == {<<>>}
MCHandlers == {h1, h2}
OneJob     == {j1}
TwoJobs    == {j1, j2}
OneThreads == MCHandlers \cup OneJob
TwoThreads == MCHandlers \cup TwoJobs
=============================================================================
