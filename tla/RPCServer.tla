----------------------------- MODULE RPCServer -----------------------------
(***************************************************************************)
(* ServiceImpl, the gRPC service in front of the Transcoder.  It is a      *)
(* synchronous service: gRPC runs each request on a thread of its pool (a  *)
(* handler), so that handlers of several clients overlap, and nothing in   *)
(* ServiceImpl locks _channel_list or _tranprocess.  Process starts a      *)
(* thread of its own (a job), which nobody joins.                          *)
(*                                                                         *)
(* Every step is a step of Transcoder or leaves its variables unchanged:   *)
(* ServerSpec implies Transcoder's Spec.                                   *)
(***************************************************************************)
EXTENDS Transcoder

CONSTANTS
  Handlers,     (* The threads of gRPC's pool.                             *)
  Jobs,         (* The threads that Process requests start.                *)
  Offered,      (* The kinds of request that clients send.                 *)
  MaxRequests   (* Bound: number of requests received.                     *)

ASSUME ThreadsAssumption == /\ Threads = Handlers \cup Jobs
                            /\ Handlers \cap Jobs = {}
(* How a request begins.  State, and Avio with an input type that is       *)
(* neither memory nor file, call nothing before they reply.                *)
Requests == {"set_push", "avio_memory", "avio_file", "process", "stop", "called"}

ASSUME OfferedAssumption == Offered \subseteq Requests
ASSUME EmptyListAssumption == <<>> \in Lists
ASSUME RequestsAssumption == /\ MaxRequests \in Nat
                             /\ MaxRequests <= MaxCalls
                             /\ MaxRequests <= MaxList

VARIABLES
  rpc,       (* Where in a request each handler is.                        *)
  reply,     (* What each handler has answered.                            *)
  joinable,  (* _tranprocess owns a thread.                                *)
  started,   (* The jobs started so far.                                   *)
  requests   (* Number of requests received.                               *)

serverVars == <<rpc, reply, joinable, started, requests>>
allVars == <<vars, serverVars>>

RpcLocs  == Requests \cup {"ready", "set_list", "assign", "store"}

ServerTypeOK ==
  /\ TypeOK
  /\ rpc \in [Handlers -> RpcLocs]
  /\ reply \in [Handlers -> StateNames \cup Channels \cup {"none"}]
  /\ joinable \in BOOLEAN
  /\ started \subseteq Jobs
  /\ requests \in Nat

ServerInit ==
  /\ Init
  /\ channel_list = <<>>
  /\ rpc = [h \in Handlers |-> "ready"]
  /\ reply = [h \in Handlers |-> "none"]
  /\ joinable = FALSE
  /\ started = {}
  /\ requests = 0

RpcAt(h, l) == fault = "none" /\ rpc[h] = l /\ pc[h] = "idle"
RpcGoto(h, l) == rpc' = [rpc EXCEPT ![h] = l]
RpcMove(h, from, to) ==
  /\ RpcAt(h, from)
  /\ RpcGoto(h, to)
  /\ UNCHANGED <<reply, joinable, started, requests>>
Answer(h, a) ==
  /\ reply' = [reply EXCEPT ![h] = a]
  /\ RpcGoto(h, "ready")
  /\ UNCHANGED <<joinable, started, requests>>

(* A Process request needs a job: the number of Jobs bounds those in flight. *)
JobLeft == Cardinality({h \in Handlers : rpc[h] = "process"}) < Cardinality(Jobs \ started)

Request(h, r) ==
  /\ RpcAt(h, "ready")
  /\ requests < MaxRequests
  /\ r = "process" => JobLeft
  /\ requests' = requests + 1
  /\ RpcGoto(h, r)
  /\ reply' = [reply EXCEPT ![h] = "none"]
  /\ UNCHANGED <<vars, joinable, started>>

-----------------------------------------------------------------------------
(* Setchannel: push_back, then a walk over the list that keeps only the    *)
(* last channel for the reply.                                             *)

SetchannelPush(h, c) ==
  /\ RpcMove(h, "set_push", "set_list")
  /\ AppendChannel(c)

SetchannelReply(h) ==
  /\ RpcAt(h, "set_list")
  /\ Answer(h, channel_list[Len(channel_list)])
  /\ UNCHANGED vars

(* Two handlers in the vector at a time, one of them in push_back. *)
SetchannelRaces(h) ==
  /\ rpc[h] \in {"set_push", "set_list"}
  /\ \E g \in Handlers \ {h} : rpc[g] = "set_push"
  /\ CallerDies /\ fault' = "stale_iterator"
  /\ UNCHANGED serverVars

-----------------------------------------------------------------------------
(* Avio and Stop: a call of the Transcoder, then the reply.  The buffer    *)
(* descriptor of Avio dies with its stack frame.  Nobody looks at whether  *)
(* the file it describes is mapped (see ReadsUnmapped).                    *)

AvioCalls(h) ==
  \/ RpcMove(h, "avio_memory", "called") /\ Call(h, "InitalAvio")
  \/ RpcMove(h, "avio_file", "called") /\ Call(h, "SetConfig")

StopCalls(h) == RpcMove(h, "stop", "called") /\ Call(h, "StopProcess")

(* Mutant: the descriptor is not in the stack frame of Avio. *)
MutReplyStateStaticBuffer(h) ==
  /\ RpcAt(h, "called")
  /\ Answer(h, state)
  /\ UNCHANGED vars

(* reply->set_reply(_trans->ReturnStateName()) of Avio, Process, State, Stop. *)
ReplyState(h) ==
  /\ RpcAt(h, "called")
  /\ Answer(h, state)
  /\ frame' = [frame EXCEPT ![h] = NoCtx]
  /\ UNCHANGED <<wrapperVars, ctlVars, pc, method, ifmt, pos, stale, envVars>>

-----------------------------------------------------------------------------
(* Process: the new thread runs before it is moved into _tranprocess; the  *)
(* move terminates the program if _tranprocess still owns a thread.  It    *)
(* looks first and swaps then, so that two handlers may have looked before *)
(* either swaps: what the second gets out is destroyed, and terminates the *)
(* program too, unless both swap at once and one thread is lost.           *)

(* Mutants: the handler itself announces Process; it records itself in     *)
(* place of the job.                                                       *)
MutStartJobAnnounces(h, j) ==
  /\ RpcAt(h, "process")
  /\ At(j, "idle") /\ j \notin started
  /\ SetState("Process")
  /\ Goto(j, "prc_getifmt")
  /\ method' = [method EXCEPT ![j] = "Process"]
  /\ calls' = calls + 1
  /\ started' = started \cup {j}
  /\ RpcGoto(h, "assign")
  /\ UNCHANGED <<wrapperVars, lock, turnoff, ifmt, frame, pos, stale, channel_list,
                 reply, joinable, requests>>

MutStartJobSwapped(h, j) ==
  /\ RpcAt(h, "process")
  /\ j \notin started
  /\ Call(j, "Process")
  /\ started' = started \cup {h}
  /\ RpcGoto(h, "assign")
  /\ UNCHANGED <<reply, joinable, requests>>

StartJob(h, j) ==
  /\ RpcAt(h, "process")
  /\ j \notin started
  /\ Call(j, "Process")
  /\ started' = started \cup {j}
  /\ RpcGoto(h, "assign")
  /\ UNCHANGED <<reply, joinable, requests>>

AssignJob(h) ==
  /\ ~joinable
  /\ RpcMove(h, "assign", "store")
  /\ UNCHANGED vars

AssignTerminates(h) ==
  /\ joinable
  /\ RpcAt(h, "assign")
  /\ CallerDies /\ fault' = "terminate"
  /\ UNCHANGED serverVars

StoreJob(h) ==
  /\ RpcAt(h, "store")
  /\ joinable' = TRUE
  /\ RpcGoto(h, "called")
  /\ UNCHANGED <<vars, reply, started, requests>>

StoreTerminates(h) ==
  /\ joinable
  /\ RpcAt(h, "store")
  /\ CallerDies /\ fault' = "terminate"
  /\ UNCHANGED serverVars

-----------------------------------------------------------------------------
RpcStep(h) ==
  \/ \E c \in Channels : SetchannelPush(h, c)
  \/ SetchannelReply(h) \/ SetchannelRaces(h)
  \/ AvioCalls(h) \/ StopCalls(h) \/ ReplyState(h)
  \/ \E j \in Jobs : StartJob(h, j)
  \/ AssignJob(h) \/ AssignTerminates(h) \/ StoreJob(h) \/ StoreTerminates(h)

TranscoderStep(t) == (Step(t) \/ StpWakesUp(t)) /\ UNCHANGED serverVars

(* The file could not be mapped: pointer and size of the descriptor were    *)
(* never set, and the callback follows them.  (That they look like an empty *)
(* buffer is a failure to open it.)                                         *)
ReadsUnmapped(t) ==
  /\ "map" \in Failures
  /\ \/ pc[t] = "cfg_open" /\ ifmt_ctx \in memory
     \/ pc[t] = "prc_read" /\ ifmt[t] \in memory
  /\ CallerDies /\ fault' = "uninit_buffer"
  /\ UNCHANGED serverVars

ServerStep ==
  \/ \E h \in Handlers : RpcStep(h)
  \/ \E t \in Threads : TranscoderStep(t) \/ ReadsUnmapped(t)

ServerNext == ServerStep \/ \E h \in Handlers, r \in Offered : Request(h, r)

ServerSpec == ServerInit /\ [][ServerNext]_allVars

(* Handlers and jobs are threads of the operating system; the input is a   *)
(* file, or a buffer that comes to its end.                                *)
ServerFairness ==
  /\ \A t \in Threads : WF_allVars(Step(t) /\ UNCHANGED serverVars)
  /\ \A j \in Jobs : SF_allVars(PrcReadEnds(j) /\ UNCHANGED serverVars)
  /\ \A h \in Handlers : WF_allVars(RpcStep(h))

FairServerSpec == ServerSpec /\ ServerFairness

-----------------------------------------------------------------------------
(* The input that a memory request opened is read through a descriptor in  *)
(* a frame that exists only while the request is being handled.            *)
FramesAreInRequests ==
  \A t \in Threads : frame[t] # NoCtx => t \in Handlers /\ rpc[t] = "called"

(* Every request but Stop is answered, or the server dies: a handler that  *)
(* waits for the lock behind a job gets it when the job's input ends.      *)
RequestsAnswered ==
  \A h \in Handlers :
    rpc[h] # "ready" /\ method[h] # "StopProcess" ~>
      rpc[h] = "ready" \/ method[h] = "StopProcess" \/ fault # "none"

(* What the protocol promises of input type 0, an input from memory: the   *)
(* memory it is read from is there when it is read.                        *)
MemoryInputReadable ==
  \A j \in Jobs :
    pc[j] = "prc_read" /\ ifmt[j] \in inputs \cap memory => FrameLive(ifmt[j])
=============================================================================
