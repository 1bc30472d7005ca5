----------------------------- MODULE CtxWrapper -----------------------------
(***************************************************************************)
(* The demuxer and muxer contexts that CtxWrapper opens and closes, and    *)
(* the two containers of Transcoder that it fills by reference:            *)
(* _pidObject (input stream index -> stream object) and _ofmt_list.        *)
(*                                                                         *)
(* The operators below are not a specification of their own: CtxWrapper    *)
(* has no lock and no thread.  Transcoder conjoins them into the steps of  *)
(* the threads that call it.                                               *)
(*                                                                         *)
(* A context is a number, never used twice, so that a pointer to a freed   *)
(* context differs from every pointer to a live one.  NoCtx is nullptr.    *)
(***************************************************************************)
EXTENDS Integers, Sequences, FiniteSets

CONSTANTS
  Streams,   (* Stream indices of the input.                               *)
  Kind,      (* What avformat_find_stream_info says of each stream.        *)
  Channels,  (* The (video pid, audio pid) pairs a caller may ask for.     *)
  Selects,   (* The streams whose id is one of the two pids of a channel.  *)
  Failures   (* The library calls that may fail: any subset of FailurePoints. *)
             (* "audio" is what kills an audio object at work: a frame that *)
             (* is not allocated, a packet of unknown duration.  "map" is  *)
             (* the buffer that a caller reads a memory input from.         *)

FailurePoints == {"alloc", "open", "probe", "output", "audio", "map"}

ASSUME StreamsAssumption  == Streams \subseteq Nat
ASSUME KindAssumption     == Kind \in [Streams -> {"video", "audio", "other"}]
ASSUME SelectsAssumption  == Selects \in [Channels -> SUBSET Streams]
ASSUME FailuresAssumption == Failures \subseteq FailurePoints

VARIABLES
  ifmt_ctx,  (* CtxWrapper::_ifmt_ctx.                                     *)
  inputs,    (* The input contexts allocated and not freed.                *)
  memory,    (* The input contexts that read through the caller's callback. *)
  decoders,  (* The <<input context, stream>> pairs with an open decoder.  *)
  outputs,   (* The output contexts allocated and not freed.               *)
  ended,     (* The output contexts whose trailer is written.              *)
  ofmt_list, (* Transcoder::_ofmt_list.                                    *)
  pidObject, (* Transcoder::_pidObject.                                    *)
  created,   (* Number of contexts allocated so far.                       *)
  fault      (* "none", or the access that killed the process.             *)

inputVars  == <<ifmt_ctx, inputs, memory, decoders>>
outputVars == <<outputs, ended, ofmt_list, pidObject>>

NoCtx  == 0
NewCtx == created + 1

(* Reasons for which the process dies: nullptr or freed memory             *)
(* dereferenced, an uninitialized pointer dereferenced, std::terminate.    *)
Faults == { "null_input", "freed_context", "null_stream", "null_output",
            "null_encoder", "null_codec", "uninit_video", "uninit_buffer", "after_trailer",
            "stale_iterator", "stale_buffer", "terminate", "audio_object" }

(* A _pidObject slot: no such key, a key whose shared_ptr was reset, or a  *)
(* stream object with the input and output context it was given.           *)
Slot    == [is : {"absent", "null", "object"}, in : Nat, out : Nat]
Absent  == [is |-> "absent", in |-> NoCtx, out |-> NoCtx]
Emptied == [is |-> "null",   in |-> NoCtx, out |-> NoCtx]
Object(i, o) == [is |-> "object", in |-> i, out |-> o]

Objects == {s \in Streams : pidObject[s].is = "object"}

WrapperTypeOK ==
  /\ created \in Nat
  /\ ifmt_ctx \in 0..created
  /\ inputs \subseteq 1..created
  /\ memory \subseteq 1..created
  /\ decoders \subseteq (1..created) \X Streams
  /\ outputs \subseteq 1..created
  /\ ended \subseteq 1..created
  /\ ofmt_list \subseteq 1..created
  /\ pidObject \in [Streams -> [is : {"absent", "null", "object"},
                                in : 0..created, out : 0..created]]
  /\ fault \in Faults \cup {"none"}

WrapperInit ==
  /\ ifmt_ctx = NoCtx
  /\ inputs = {} /\ memory = {} /\ decoders = {}
  /\ outputs = {} /\ ended = {} /\ ofmt_list = {}
  /\ pidObject = [s \in Streams |-> Absent]
  /\ created = 0
  /\ fault = "none"

Die(why) == fault' = why

-----------------------------------------------------------------------------
(***************************************************************************)
(* Opening the input: SetAvio allocates a context of its own, over the old *)
(* pointer; SetConfig leaves the pointer to avformat_open_input, which     *)
(* reuses a context that is there already.                                 *)
(***************************************************************************)

AllocInput ==
  /\ created' = NewCtx
  /\ ifmt_ctx' = NewCtx
  /\ inputs' = inputs \cup {NewCtx}
  /\ memory' = memory \cup {NewCtx}
  /\ UNCHANGED <<decoders, outputVars, fault>>

AllocInputFails ==
  /\ "alloc" \in Failures
  /\ ifmt_ctx' = NoCtx
  /\ UNCHANGED <<inputs, memory, decoders, outputVars, created, fault>>

(* The context _ifmtInital works on. *)
OpenedCtx == IF ifmt_ctx = NoCtx THEN NewCtx ELSE ifmt_ctx
(* Mutant: the new context is not counted. *)
MutCountNothing == created' = created
CountOpened == created' = IF ifmt_ctx = NoCtx THEN NewCtx ELSE created

(* Mutant: the first channel is skipped when the pids are collected. *)
MutWantedSkipsFirst(list) == UNION {Selects[list[n]] : n \in DOMAIN list \ {1}}

(* Only the streams that a channel of the list asks for get a decoder. *)
Wanted(list) == UNION {Selects[list[n]] : n \in DOMAIN list}

(* Mutant: the old input is closed before a new one is opened. *)
MutOpenInputAfresh(list) ==
  /\ created' = NewCtx
  /\ ifmt_ctx' = NewCtx
  /\ inputs' = (inputs \ {ifmt_ctx}) \cup {NewCtx}
  /\ decoders' = decoders \cup {NewCtx} \X Wanted(list)
  /\ UNCHANGED <<memory, outputVars, fault>>

OpenInput(list) ==
  /\ CountOpened
  /\ ifmt_ctx' = OpenedCtx
  /\ inputs' = inputs \cup {OpenedCtx}
  /\ decoders' = decoders \cup {OpenedCtx} \X Wanted(list)
  /\ UNCHANGED <<memory, outputVars, fault>>

(* _ifmtclean on a context that exists: freed, and the pointer cleared. *)
CloseInput(ctx) ==
  /\ inputs' = inputs \ {ctx}
  /\ ifmt_ctx' = NoCtx
  /\ UNCHANGED <<memory, decoders, outputVars>>

(* Stream information or a decoder is missing: _ifmtInital closes. *)
ProbeInputFails ==
  /\ "probe" \in Failures
  /\ CountOpened
  /\ CloseInput(OpenedCtx)
  /\ UNCHANGED fault

(* avformat_open_input fails: it frees the context and clears the pointer, *)
(* and _ifmtclean reads nb_streams through it.                             *)
OpenInputFails ==
  /\ "open" \in Failures
  /\ CloseInput(ifmt_ctx)
  /\ Die("null_input")
  /\ UNCHANGED created

(* CleanUp calls _ifmtclean, then Cleanup, which calls _ifmtclean again on *)
(* the pointer the first call has cleared.                                 *)
CloseInputTwice ==
  /\ CloseInput(ifmt_ctx)
  /\ Die("null_input")
  /\ UNCHANGED created

-----------------------------------------------------------------------------
(***************************************************************************)
(* One _ofmtInital: an output context for one channel.  The loop visits    *)
(* the selected streams in index order and inserts a stream object for     *)
(* each; unordered_map::insert leaves a key that is there as it is.        *)
(***************************************************************************)

(* Mutant: an assignment to the slot in place of insert. *)
MutBindAssigns(S, o) ==
  pidObject' = [s \in Streams |-> IF s \in S THEN Object(ifmt_ctx, o) ELSE pidObject[s]]

Bind(S, o) ==
  pidObject' = [s \in Streams |->
                  IF s \in S /\ pidObject[s].is = "absent"
                    THEN Object(ifmt_ctx, o) ELSE pidObject[s]]

HasVideo(c) == \E s \in Selects[c] : Kind[s] = "video"

(* Neither video nor audio: the loop throws when it reaches the stream. *)
Foreign(c)  == {s \in Selects[c] : Kind[s] = "other"}

(* Mutant: the output is not appended to the list. *)
MutOfmtInitalUnlisted(c) ==
  /\ Foreign(c) = {} /\ Selects[c] # {}
  /\ created' = NewCtx
  /\ outputs' = outputs \cup {NewCtx}
  /\ Bind(Selects[c], NewCtx)
  /\ UNCHANGED <<inputVars, ended, ofmt_list, fault>>

(* Without a video stream Video::SetTime works on an uninitialized pointer *)
(* (see OfmtInitalFaults); when that happens to be harmless, the call goes *)
(* on, and the header can be written if the output has a stream.           *)
OfmtInital(c) ==
  /\ Foreign(c) = {}
  /\ Selects[c] # {}
  /\ created' = NewCtx
  /\ outputs' = outputs \cup {NewCtx}
  /\ ofmt_list' = ofmt_list \cup {NewCtx}
  /\ Bind(Selects[c], NewCtx)
  /\ UNCHANGED <<inputVars, ended, fault>>

(* The streams inserted when the loop stops before index k, and the indices *)
(* it may stop at: at the first foreign stream; anywhere up to it when a    *)
(* library call fails on a stream, before (k = s) or after its insertion;   *)
(* after the insertion of a stream that has no decoder, whose encoder gets  *)
(* the parameters of an unopened codec; or nowhere, when no stream was      *)
(* selected and the header cannot be written.                               *)
Before(c, k) == {s \in Selects[c] : s < k}
Stops(c) == {k \in {0} \cup Streams \cup {s + 1 : s \in Streams} :
               /\ Foreign(c) \cap Before(c, k) = {}
               /\ \/ "output" \in Failures
                  \/ k \in Foreign(c)
                  \/ \E s \in Selects[c] : k = s + 1 /\ <<ifmt_ctx, s>> \notin decoders
                  \/ Selects[c] = {}}

(* The catch block frees the output context; the stream objects inserted so *)
(* far stay in _pidObject, bound to it.                                     *)
OfmtInitalFails(c) ==
  /\ \E k \in Stops(c) : Bind(Before(c, k), NewCtx)
  /\ created' = NewCtx
  /\ UNCHANGED <<inputVars, outputs, ended, ofmt_list, fault>>

(* The ways the call kills the process: the output context is not          *)
(* allocated and _oneofmtclean reads through nullptr; the encoder's is not, *)
(* and the check looks at the pointer to its pointer; the channel has no    *)
(* video stream and SetTime reads through the uninitialized _ofmt_ctx.      *)
OfmtInitalFaults(c) ==
  /\ \/ "output" \in Failures /\ Die("null_output")
     \/ /\ "output" \in Failures
        /\ \E s \in Selects[c] : Foreign(c) \cap Before(c, s + 1) = {}
        /\ Die("null_encoder")
     \/ Foreign(c) = {} /\ ~HasVideo(c) /\ Die("uninit_video")
  /\ UNCHANGED <<inputVars, outputVars, created>>
=============================================================================
