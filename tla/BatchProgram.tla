---------------------------- MODULE BatchProgram ----------------------------
(***************************************************************************)
(* The program that main builds today: test3, one thread that configures   *)
(* from a file, transcodes and writes the trailers, and looks at no result *)
(* on the way.  Every step is a step of Transcoder or leaves it unchanged. *)
(***************************************************************************)
EXTENDS Transcoder

CONSTANT Main  (* The thread of main. *)

ASSUME MainAssumption  == Threads = {Main}
ASSUME CallsAssumption == MaxCalls >= 3

VARIABLE todo  (* The calls of test3 that are left. *)

programVars == <<vars, todo>>

ProgramTypeOK == TypeOK /\ todo \in Seq({"SetConfig", "Process", "WriteEnd"})

(* Mutant: the trailers are written before the transcode. *)
MutProgramInitSwapped == Init /\ todo = <<"SetConfig", "WriteEnd", "Process">>

ProgramInit == Init /\ todo = <<"SetConfig", "Process", "WriteEnd">>

MainCalls ==
  /\ todo # <<>>
  /\ Call(Main, Head(todo))
  /\ todo' = Tail(todo)

ProgramNext == MainCalls \/ (Step(Main) /\ UNCHANGED todo)

(* One thread that never waits for another; the input is a file.           *)
ProgramSafety == ProgramInit /\ [][ProgramNext]_programVars
ProgramSpec == /\ ProgramSafety
               /\ WF_programVars(ProgramNext)
               /\ SF_programVars(PrcReadEnds(Main) /\ UNCHANGED todo)

Exited == fault = "none" /\ todo = <<>> /\ Quiescent

(* A program that gets to its end has transcoded its input to the end of   *)
(* every stream, and closed every output it has opened with a trailer.     *)
ExitIsComplete ==
  Exited => /\ state = "Finished"
            /\ Objects = {}
            /\ ended = outputs /\ ofmt_list = outputs

(* Once configured, the program dies only of a rejection it has ignored,   *)
(* or in an audio object that cannot cope: nothing else in the transcode    *)
(* and the closing of an accepted configuration is a fault.                *)
DiesOfRejectionOnly ==
  fault \notin {"none", "audio_object"} /\ state # "SetConfig" =>
    ifmt_ctx = NoCtx \/ \E s \in Objects : Detached(s)

(* One run of the program is one session.                                  *)
Session == INSTANCE Lifecycle WITH status <- state, alive <- (fault = "none")
ImplementsLifecycle == Session!Spec
=============================================================================
