---------------------------- MODULE MCMediaFlow ----------------------------
(* MediaFlow on short buffers: pictures of film at 24000/1001 per second,   *)
(* 3753.75 ticks each, and audio packets of 2351 ticks, encoded to frames   *)
(* of 2089.                                                                 *)
EXTENDS MediaFlow

LayerII == [in |-> 9, out |-> 8, num |-> 12800, den |-> 49, duration |-> 2351, lead |-> 0]

Unknown == [LayerII EXCEPT !.duration = 0]

OneFormat == {LayerII}
MCFormats == {LayerII, Unknown}
Even  == <<"video", "audio", "video", "audio", "audio", "video", "audio", "video">>
Late  == <<"video", "video", "video", "audio", "audio", "audio", "video", "video">>
MCInputs  == {Even, Late}
(* Audio and video alternate, in time to a tenth of a second. *)
MCLong    == {[n \in 1..30 |-> IF n % 8 \in {1, 3, 6} THEN "video" ELSE "audio"]}
MCJitters == {0, -1000, 2000}

(* What the theorems about the order of pictures suppose of the input.      *)
ASSUME MCOrderly == Orderly /\ Ticking
=============================================================================
