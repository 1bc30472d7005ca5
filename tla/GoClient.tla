------------------------------ MODULE GoClient ------------------------------
(***************************************************************************)
(* The Go client against the server: Setchannel, Avio with a file, Process,*)
(* one after the other, under one deadline of a second for the three; any  *)
(* error, so the deadline too, ends the client, while the server goes on   *)
(* with the request it has.  The answers are logged and not looked at.     *)
(* Beside it an operator asks for State, or for Stop, as other clients of  *)
(* the service may.  The client may be started again after it has ended.   *)
(***************************************************************************)
EXTENDS RPCServer

CONSTANTS
  NoHandler,  (* The client waits for no answer.                           *)
  OperatorMay,(* What the operator asks for.                               *)
  MaxRuns     (* Bound: number of times the client is started.             *)

ASSUME NoHandlerAssumption == NoHandler \notin Handlers
ASSUME OperatorAssumption  == OperatorMay \subseteq {"called", "stop"}
ASSUME MaxRunsAssumption   == MaxRuns \in Nat

VARIABLES
  script,  (* The call the client is at, or how it has ended.              *)
  serving, (* The handler that serves it, or NoHandler.                    *)
  runs     (* Number of times it was started.                              *)

clientVars == <<script, serving, runs>>
systemVars == <<allVars, clientVars>>

Calls == {"Setchannel", "Avio", "Process"}
(* Mutant: the client goes on to Stop. *)
MutAfterStops(call) == CASE call = "Setchannel" -> "Avio"
                         [] call = "Avio"       -> "Process"
                         [] call = "Process"    -> "Stop"
After(call) == CASE call = "Setchannel" -> "Avio"
                 [] call = "Avio"       -> "Process"
                 [] call = "Process"    -> "done"
RequestOf(call) == CASE call = "Setchannel" -> "set_push"
                     [] call = "Avio"       -> "avio_file"
                     [] call = "Process"    -> "process"

ASSUME OfferedToClient == {RequestOf(call) : call \in Calls} \cup OperatorMay \subseteq Offered

ClientTypeOK ==
  /\ ServerTypeOK
  /\ script \in Calls \cup {"done", "failed"}
  /\ serving \in Handlers \cup {NoHandler}
  /\ runs \in Nat

SystemInit ==
  /\ ServerInit
  /\ script = "Setchannel"
  /\ serving = NoHandler
  /\ runs = 1

ClientCalls(h) ==
  /\ script \in Calls
  /\ serving = NoHandler
  /\ Request(h, RequestOf(script))
  /\ serving' = h
  /\ UNCHANGED <<script, runs>>

(* Mutant: the client does not wait for the answer. *)
MutClientReturnsEarly ==
  /\ fault = "none"
  /\ serving # NoHandler
  /\ script' = After(script)
  /\ serving' = NoHandler
  /\ UNCHANGED <<allVars, runs>>

(* The answer arrives: the handler is free again. *)
ClientReturns ==
  /\ fault = "none"
  /\ serving # NoHandler
  /\ rpc[serving] = "ready"
  /\ script' = After(script)
  /\ serving' = NoHandler
  /\ UNCHANGED <<allVars, runs>>

(* The deadline, or the error of a call to a dead server: log.Fatalf. *)
ClientFails ==
  /\ script \in Calls
  /\ script' = "failed"
  /\ serving' = NoHandler
  /\ UNCHANGED <<allVars, runs>>

ClientRestarts ==
  /\ script \in {"done", "failed"}
  /\ runs < MaxRuns
  /\ runs' = runs + 1
  /\ script' = "Setchannel"
  /\ UNCHANGED <<allVars, serving>>

OperatorAsks(h) ==
  /\ \E r \in OperatorMay : Request(h, r)
  /\ UNCHANGED clientVars

SystemNext ==
  \/ ServerStep /\ UNCHANGED clientVars
  \/ ClientReturns \/ ClientFails \/ ClientRestarts
  \/ \E h \in Handlers : ClientCalls(h) \/ OperatorAsks(h)

SystemSpec == SystemInit /\ [][SystemNext]_systemVars

FairSystemSpec == SystemSpec /\ ServerFairness

-----------------------------------------------------------------------------
(* One start of the client against a fresh server, with the operator beside *)
(* it and a deadline that may cut in anywhere: an output or an encoder that *)
(* cannot be allocated kills the server, or an audio object that cannot     *)
(* cope; but for these only a transcode of what a rejected configuration    *)
(* left behind does: the input it closed, or a stream object whose output   *)
(* it freed.                                                                *)
DeathNeedsRejection ==
  fault \notin {"none", "null_output", "null_encoder", "audio_object"} =>
    ifmt_ctx = NoCtx \/ \E s \in Objects : Detached(s)

(* The status is the transcoder's: while the loop of Process runs the       *)
(* status is Process, so that StopProcess, which acts on it, is accepted.   *)
LoopIsStoppable ==
  \A t \in Threads :
    pc[t] \in {"prc_init", "prc_loop", "prc_read", "prc_drain"} => state = "Process"

(* The transcode that the client has started with an accepted configuration *)
(* has a stream object for every stream of its channel, with a decoder for  *)
(* it, an input to read from and a listed output to write to.               *)
AcceptedChannelRouted ==
  state = "SetConfigFinished" =>
    \A n \in DOMAIN channel_list : \A s \in Selects[channel_list[n]] :
      /\ s \in Objects
      /\ pidObject[s].in = ifmt_ctx /\ ifmt_ctx \in inputs
      /\ <<ifmt_ctx, s>> \in decoders
      /\ pidObject[s].out \in ofmt_list

(* The answer to Avio, a read of the status after the call has returned and *)
(* the lock is free, is the outcome of the configuration it made: finished  *)
(* if the input is open and every channel of the list has got its output,   *)
(* and failed otherwise.                                                    *)
Accepted == ifmt_ctx \in inputs /\ Cardinality(ofmt_list) = Len(channel_list)
AvioAnswerTruthful ==
  script = "Avio" /\ serving # NoHandler /\ rpc[serving] = "ready" =>
    reply[serving] = IF Accepted THEN "SetConfigFinished" ELSE "SetFailed"

(* A client that is started again kills the server by its second Process    *)
(* only; or by appending its channel while the Avio that the first run gave *)
(* up still iterates over the list.                                         *)
DeathNeedsSecondProcess ==
  fault \in {"none", "stale_iterator"} \/ Cardinality(started) > 1

(* One session implements the state machine.                                *)
Session == INSTANCE Lifecycle WITH status <- state, alive <- (fault = "none")
ImplementsLifecycle == Session!Spec
=============================================================================
