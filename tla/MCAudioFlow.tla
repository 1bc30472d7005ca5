---------------------------- MODULE MCAudioFlow ----------------------------
(* AudioFlow with the codecs a transport stream carries, encoded to AAC     *)
(* frames of 1024 samples: a unit is 128 samples, a tick 1/90000 s.         *)
EXTENDS AudioFlow

At48(in, lead) == [in |-> in, out |-> 8, num |-> 240, den |-> 1,
                   duration |-> 240 * in, lead |-> lead]
(* At 44100 Hz no frame is a whole number of ticks. *)
At44(in, lead) == [in |-> in, out |-> 8, num |-> 12800, den |-> 49,
                   duration |-> (in * 12800) \div 49, lead |-> lead]

(* MPEG layer II, AAC, AC-3, HE-AAC, and a codec of short frames. *)
Lengths == {9, 8, 12, 16, 3}
Common  == {At48(in, lead) : in \in Lengths, lead \in {0, 1000}}
             \cup {At44(8, 0), At44(9, 777)}
Early   == {At48(9, -5000), At44(8, -3000)}
Unknown == {[At48(9, 0) EXCEPT !.duration = 0]}
All     == Common \cup Early \cup Unknown
LayerII == {At44(9, 0)}
=============================================================================
