---------------------------- MODULE MCRPCServer ----------------------------
(* Small instances of RPCServer: two handlers, up to two jobs, an input    *)
(* with a video and an audio stream.                                       *)
EXTENDS RPCServer, TLC

CONSTANTS av, radio, h1, h2, j1, j2

MCStreams  == {0, 1}
MCKind     == [s \in MCStreams |-> IF s = 0 THEN "video" ELSE "audio"]
MCChannels == {av, radio}
MCSelects  == [c \in MCChannels |-> IF c = av THEN {0, 1} ELSE {1}]
MCHandlers == {h1, h2}
MCJobs     == {j1, j2}
MCThreads  == MCHandlers \cup MCJobs
OneChannel == {av}
OneSelects == [c \in OneChannel |-> {0, 1}]
NoChannels == {<<>>}
Symmetry   == Permutations(MCHandlers) \cup Permutations(MCJobs)
=============================================================================
