--------------------------- MODULE Configuration ---------------------------
(***************************************************************************)
(* SetConfig library call by library call: the inside of CtxWrapper's      *)
(* OpenInput and OfmtInital and of their failures, in the batch program.   *)
(* What other code can see of it changes at the last call of each; what    *)
(* is in the making until then is in variables of its own.                 *)
(*                                                                         *)
(* NewCtx is the output in the making.  A codec context is attached to a   *)
(* stream, where a clean-up finds it, or it is loose.  Every stream is     *)
(* made with a codec context of its own, which is loose once another is    *)
(* attached in its place.                                                  *)
(***************************************************************************)
EXTENDS BatchProgram

VARIABLES
  next,      (* The library call to make: "open", "probe", "decoders" of   *)
             (* _ifmtInital, "output", "streams", "encoder" of _ofmtInital. *)
  left,      (* The streams the loop has still to visit.                   *)
  opened,    (* The streams that were given a decoder.                     *)
  slots,     (* _pidObject, as _ofmtInital has filled it so far.           *)
  attached,  (* The <<output, stream>> pairs with an encoder.              *)
  loose      (* The codec contexts that nothing refers to any more: the    *)
             (* one a stream was made with, or a new one.                  *)

detailVars == <<next, left, opened, slots, attached, loose>>
configVars == <<programVars, detailVars>>

Contexts  == [is : {"own", "new"}, of : (1..NewCtx) \X Streams]
Own(x, s) == [is |-> "own", of |-> <<x, s>>]
New(x, s) == [is |-> "new", of |-> <<x, s>>]

ConfigTypeOK ==
  /\ ProgramTypeOK
  /\ next \in {"open", "probe", "decoders", "output", "streams", "encoder"}
  /\ left \subseteq Streams /\ opened \subseteq Streams
  /\ slots \in [Streams -> Slot]
  /\ attached \subseteq (1..NewCtx) \X Streams
  /\ loose \subseteq Contexts

ConfigInit ==
  /\ ProgramInit
  /\ next = "open" /\ left = {} /\ opened = {}
  /\ slots = pidObject
  /\ attached = {} /\ loose = {}

(* Main is about to make a call; the call is made and SetConfig goes on;   *)
(* the call is its last.                                                   *)
Making(what)   == fault = "none" /\ next = what
Then(what)     == next' = what /\ UNCHANGED programVars
ThenGoto(l)    == /\ Goto(Main, l)
                  /\ UNCHANGED <<ctlVars, method, ifmt, frame, stale, envVars, todo>>
Perishes(why)  == /\ Die(why)
                  /\ UNCHANGED <<created, outputVars, memory, decoders, ctlVars, threadVars,
                                 envVars, todo, detailVars>>

-----------------------------------------------------------------------------
(* _ifmtInital. *)
Opens == pc[Main] = "cfg_open"

OpensInput ==
  /\ Opens /\ Making("open")
  /\ Then("probe")
  /\ UNCHANGED <<left, opened, slots, attached, loose>>

(* The context is freed and the pointer null, and _ifmtclean follows it. *)
DiesOfOpening ==
  /\ Opens /\ Making("open") /\ "open" \in Failures
  /\ inputs' = inputs \ {ifmt_ctx} /\ ifmt_ctx' = NoCtx
  /\ Perishes("null_input")

Probes ==
  /\ Opens /\ Making("probe")
  /\ Then("decoders")
  /\ left' = Wanted(channel_list) /\ opened' = {}
  /\ UNCHANGED <<slots, attached, loose>>

Lowest(S) == CHOOSE s \in S : \A r \in S : s <= r

FindsDecoder ==
  /\ Opens /\ Making("decoders") /\ left # {}
  /\ Then("decoders")
  /\ left' = left \ {Lowest(left)}
  /\ opened' = opened \cup {Lowest(left)}
  /\ loose' = loose \cup {Own(OpenedCtx, Lowest(left))}
  /\ UNCHANGED <<slots, attached>>

(* The catch block closes the input; a decoder that could not be set up or  *)
(* opened is not among what it frees.                                       *)
InputRejected ==
  /\ Opens /\ "probe" \in Failures
  /\ \/ Making("probe") /\ loose' = loose
     \/ Making("decoders") /\ left # {}
        /\ loose' \in {loose, loose \cup {New(OpenedCtx, Lowest(left))}}
  /\ CountOpened
  /\ inputs' = inputs \ {OpenedCtx} /\ ifmt_ctx' = NoCtx
  /\ ThenGoto("cfg_reject")
  /\ UNCHANGED <<memory, decoders, outputVars, fault, pos, next, left, opened, slots, attached>>

InputAccepted ==
  /\ Opens /\ Making("decoders") /\ left = {}
  /\ CountOpened
  /\ inputs' = inputs \cup {OpenedCtx} /\ ifmt_ctx' = OpenedCtx
  /\ decoders' = decoders \cup {OpenedCtx} \X opened
  /\ next' = "output"
  /\ pos' = [pos EXCEPT ![Main] = 1]
  /\ ThenGoto("cfg_output")
  /\ UNCHANGED <<memory, outputVars, fault, left, opened, slots, attached, loose>>

-----------------------------------------------------------------------------
(* _ofmtInital, for one channel of the list. *)
Builds == Iterates(Main)
Channel == ThisChannel(Main)
This == Lowest(left)

AllocatesOutput ==
  /\ Builds /\ Making("output")
  /\ Then("streams")
  /\ left' = Selects[Channel] /\ slots' = pidObject
  /\ UNCHANGED <<opened, attached, loose>>

(* The encoder of the next stream is there, and its stream object bound. *)
MakesEncoder ==
  /\ Builds /\ Making("streams") /\ left # {} /\ Kind[This] # "other"
  /\ Then("encoder")
  /\ slots' = IF slots[This].is = "absent"
                THEN [slots EXCEPT ![This] = Object(ifmt_ctx, NewCtx)] ELSE slots
  /\ UNCHANGED <<left, opened, attached, loose>>

(* Mutant: the encoder is not given to the stream. *)
MutAttachesNothing ==
  /\ Builds /\ Making("encoder")
  /\ Then("streams")
  /\ left' = left \ {This}
  /\ loose' = loose \cup {New(NewCtx, This)}
  /\ UNCHANGED <<opened, slots, attached>>

AttachesEncoder ==
  /\ Builds /\ Making("encoder")
  /\ Then("streams")
  /\ left' = left \ {This}
  /\ attached' = attached \cup {<<NewCtx, This>>}
  /\ loose' = loose \cup {Own(NewCtx, This)}
  /\ UNCHANGED <<opened, slots>>

(* Null pointers: the output, the encoder, and for want of a video stream   *)
(* what Video::SetTime follows.                                             *)
DiesOfBuilding ==
  /\ Builds
  /\ \/ Making("output") /\ "output" \in Failures /\ Perishes("null_output")
     \/ /\ Making("streams") /\ left # {} /\ Kind[This] # "other"
        /\ "output" \in Failures /\ Perishes("null_encoder")
     \/ /\ Making("streams") /\ left = {} /\ ~HasVideo(Channel)
        /\ Perishes("uninit_video")
  /\ UNCHANGED <<inputs, ifmt_ctx>>

(* Mutant: the catch block leaves the output. *)
MutOutputRejectedStays ==
  /\ Builds /\ Making("streams") /\ left # {} /\ Kind[This] = "other"
  /\ created' = NewCtx
  /\ outputs' = outputs \cup {NewCtx} /\ pidObject' = slots
  /\ ThenGoto("cfg_reject")
  /\ UNCHANGED <<inputVars, ended, ofmt_list, fault, pos, next, left, opened, slots, attached, loose>>

(* A call fails on the stream, the stream is neither video nor audio, the   *)
(* encoder cannot be opened, or the header not be written.  The catch block *)
(* frees the output with the encoders attached to it.                       *)
OutputRejected ==
  /\ Builds
  /\ \/ /\ Making("streams") /\ loose' = loose
        /\ \/ "output" \in Failures
           \/ left # {} /\ Kind[This] = "other"
           \/ Selects[Channel] = {}
     \/ /\ Making("encoder") /\ loose' = loose \cup {New(NewCtx, This)}
        /\ "output" \in Failures \/ <<ifmt_ctx, This>> \notin decoders
  /\ created' = NewCtx
  /\ pidObject' = slots
  /\ attached' = attached \ ({NewCtx} \X Streams)
  /\ ThenGoto("cfg_reject")
  /\ UNCHANGED <<inputVars, outputs, ended, ofmt_list, fault, pos, next, left, opened, slots>>

(* The header is written. *)
OutputAccepted ==
  /\ Builds /\ Making("streams") /\ left = {} /\ Selects[Channel] # {}
  /\ created' = NewCtx
  /\ outputs' = outputs \cup {NewCtx} /\ ofmt_list' = ofmt_list \cup {NewCtx}
  /\ pidObject' = slots
  /\ next' = "output"
  /\ pos' = [pos EXCEPT ![Main] = @ + 1]
  /\ ThenGoto("cfg_output")
  /\ UNCHANGED <<inputVars, ended, fault, left, opened, slots, attached, loose>>

-----------------------------------------------------------------------------
ConfigCalls ==
  \/ OpensInput \/ DiesOfOpening \/ Probes \/ FindsDecoder
  \/ InputRejected \/ InputAccepted
  \/ AllocatesOutput \/ MakesEncoder \/ AttachesEncoder \/ DiesOfBuilding
  \/ OutputRejected \/ OutputAccepted

(* The rest of the program is as it was. *)
Elsewhere ==
  /\ \/ MainCalls
     \/ /\ ~Opens /\ (pc[Main] = "cfg_output" => CfgOutputsDone(Main))
        /\ Step(Main) /\ UNCHANGED todo
  /\ UNCHANGED detailVars

ConfigNext == ConfigCalls \/ Elsewhere

ConfigSpec == /\ ConfigInit /\ [][ConfigNext]_configVars
              /\ WF_configVars(ConfigNext)
              /\ SF_configVars(PrcReadEnds(Main) /\ UNCHANGED <<todo, detailVars>>)

-----------------------------------------------------------------------------
(* Every output that exists has an encoder for each stream of its channel,  *)
(* and no freed output has one.  Each stream of the input or of an output   *)
(* that has got a decoder or an encoder has lost the codec context it was   *)
(* made with, and no other stream has.  Of the decoders and encoders        *)
(* themselves at most one is ever lost, by a configuration that is          *)
(* rejected.                                                                *)
Coded == decoders \cup attached
CodecsAccounted ==
  /\ \A o \in outputs : \E n \in DOMAIN channel_list :
       {s \in Streams : <<o, s>> \in attached} = Selects[channel_list[n]]
  /\ \A e \in attached : e[1] \in outputs \cup {NewCtx}
  /\ \A x \in inputs \cup outputs, s \in Streams : Own(x, s) \in loose <=> <<x, s>> \in Coded
  /\ \A d \in loose : d.is = "new" =>
       /\ \A e \in loose : e.is = "new" => e = d
       /\ d.of[1] \notin inputs \cup outputs
       /\ Cardinality(outputs) < Len(channel_list)

(* ProgramSpec, which EXTENDS brings in, is the abstract specification:     *)
(* whatever the calls do, SetConfig is one of the outcomes of CtxWrapper,   *)
(* and the program as live as it was.                                       *)
=============================================================================
