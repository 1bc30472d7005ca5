-------------------------- MODULE RPCServerProofs --------------------------
(***************************************************************************)
(* The server is a use of the Transcoder, so that every theorem on the     *)
(* Transcoder holds of the server, for every number of handlers and jobs.  *)
(***************************************************************************)
EXTENDS RPCServer, TranscoderSafety

(* The reply drops the frame of the handler, if it had one. *)
LEMMA ReplyIsDrop ==
  ASSUME TypeOK, NEW h \in Handlers, ReplyState(h)
  PROVE  DropFrame(h) \/ UNCHANGED vars
<1>1. h \in Threads
  BY ThreadsAssumption
<1>2. CASE frame[h] = NoCtx
  <2>1. frame' = frame
    BY <1>1, <1>2 DEF TypeOK, ReplyState
  <2> QED
    BY <2>1 DEF ReplyState, vars, threadVars
<1>3. CASE frame[h] # NoCtx
  BY <1>3 DEF ReplyState, RpcAt, At, DropFrame
<1> QED
  BY <1>2, <1>3

LEMMA RpcStepSimulates ==
  ASSUME TypeOK, NEW h \in Handlers, RpcStep(h)
  PROVE  [Next]_vars
<1>1. h \in Threads /\ Jobs \subseteq Threads
  BY ThreadsAssumption
<1>2. CASE \E c \in Channels : SetchannelPush(h, c)
  BY <1>2 DEF SetchannelPush, Next, Environment
<1>3. CASE SetchannelReply(h) \/ AssignJob(h) \/ StoreJob(h)
  BY <1>3 DEF SetchannelReply, AssignJob, StoreJob
<1>4. CASE SetchannelRaces(h) \/ AssignTerminates(h) \/ StoreTerminates(h)
  BY <1>4 DEF SetchannelRaces, AssignTerminates, StoreTerminates, Next, Environment
<1>5. CASE AvioCalls(h) \/ StopCalls(h)
  <2>1. {"InitalAvio", "SetConfig", "StopProcess"} \subseteq Methods
    BY DEF Methods, Configs
  <2> QED
    BY <1>1, <1>5, <2>1 DEF AvioCalls, StopCalls, Next, Environment
<1>6. CASE ReplyState(h)
  BY <1>1, <1>6, ReplyIsDrop DEF Next, Environment
<1>7. CASE \E j \in Jobs : StartJob(h, j)
  <2>1. "Process" \in Methods
    BY DEF Methods
  <2> QED
    BY <1>1, <1>7, <2>1 DEF StartJob, Next, Environment
<1> QED
  BY <1>2, <1>3, <1>4, <1>5, <1>6, <1>7 DEF RpcStep

LEMMA ServerStepSimulates ==
  ASSUME TypeOK, [ServerNext]_allVars
  PROVE  [Next]_vars
<1>1. CASE \E h \in Handlers : RpcStep(h)
  BY <1>1, RpcStepSimulates
<1>2. CASE \E t \in Threads : TranscoderStep(t) \/ ReadsUnmapped(t)
  BY <1>2 DEF TranscoderStep, ReadsUnmapped, Next, Environment
<1>3. CASE \E h \in Handlers, r \in Offered : Request(h, r)
  BY <1>3 DEF Request
<1>4. CASE UNCHANGED allVars
  BY <1>4 DEF allVars
<1> QED
  BY <1>1, <1>2, <1>3, <1>4 DEF ServerNext, ServerStep

(* Every behaviour of the server is a behaviour of the Transcoder.          *)
THEOREM ServerImplementsTranscoder == ServerSpec => Spec
<1>1. ServerInit => Init /\ TypeOK
  BY InitTypeOK DEF ServerInit
<1>2. TypeOK /\ [ServerNext]_allVars => TypeOK'
  BY ServerStepSimulates, NextTypeOK
<1>3. TypeOK /\ [ServerNext]_allVars => [Next]_vars
  BY ServerStepSimulates
<1> QED
  BY <1>1, <1>2, <1>3, PTL DEF ServerSpec, Spec

(* So handlers and jobs exclude each other, a job's contexts stay alive     *)
(* while it transcodes, and bindings and stops are final in the server too. *)
THEOREM ServerIsSafe ==
  ServerSpec => /\ [](TypeOK /\ Mutex /\ StatusIsAttributed)
                /\ [](QuiescentStateIsTerminal /\ OutputsListed)
                /\ NoFreeUnderTranscode /\ FirstBindingWins /\ StopIsForever
BY ServerImplementsTranscoder, TypeCorrect, MutualExclusion, StatusAttributed, QuiescentStatus,
   ListedOutputs,
   NoFree, FirstBinding, StopStays, PTL

-----------------------------------------------------------------------------
(* The descriptors of memory inputs.  What a step of a thread inside the    *)
(* Transcoder does to the frames, the methods and the list: InitalAvio      *)
(* alone gives a frame to its thread, and a method can only end.            *)
LEMMA StepKeepsFrames ==
  ASSUME TypeOK, InMethod, NEW t \in Threads, Step(t) \/ StpWakesUp(t)
  PROVE  /\ channel_list' = channel_list
         /\ \A u \in Threads :
              /\ frame'[u] # NoCtx => frame[u] # NoCtx \/ method[u] = "InitalAvio"
              /\ method'[u] \in {method[u], "none"}
<1> USE DEF envVars, threadVars, Move, Leave, Return
<1>1. CASE CfgAlloc(t)
  <2>1. method[t] = "InitalAvio"
    BY <1>1, RunsAre DEF InMethod, CfgAlloc, At
  <2> QED
    BY <1>1, <2>1 DEF TypeOK, CfgAlloc
<1>2. CASE ConfigStep(t) /\ ~CfgAlloc(t)
  BY <1>2 DEF TypeOK, ConfigStep, CfgAnnounce, CfgAllocFails, CfgOpen, CfgOpenFails, CfgOutput,
     CfgOutputFails, CfgOpenFaults, CfgIteratorFault, CfgOutputsDone, CfgAccept, CfgReject,
     CfgRejected, Crash
<1>3. CASE ProcessStep(t)
  BY <1>3 DEF TypeOK, ProcessStep, PrcGetIfmt, PrcAnnounce, PrcInitTools, PrcInitFaults, PrcLoop,
     PrcReadEnds, PrcReadPacket, PrcReadFaults, PrcDrain, PrcDrainFaults, PrcFinish, Crash
<1>4. CASE AcquireProcessLock(t) \/ StopStep(t) \/ CleanStep(t) \/ WalkStep(t) \/ StpWakesUp(t)
  BY <1>4 DEF TypeOK, AcquireProcessLock, StopStep, StpRefused, StpAccepted, StpArm, StpWakesUp,
     CleanStep, ClnReset, ClnWipe, WalkStep, EndWrite, EndWriteFaults, OutputAmount,
     OutputAmountFaults, Crash
<1> QED
  BY <1>1, <1>2, <1>3, <1>4 DEF Step

(* A handler that walks the list has pushed to it; and the only thread with *)
(* a frame, or about to get one, is a handler in the call of Avio.          *)
Listed == \A h \in Handlers : rpc[h] = "set_list" => channel_list # <<>>
FramesHandled ==
  \A t \in Threads : frame[t] # NoCtx \/ method[t] = "InitalAvio" =>
    t \in Handlers /\ rpc[t] = "called"


(* A job runs Process and nothing else, and a handler never does: it runs   *)
(* one of the other three methods, and only in the call of its request.     *)
CallsRequested ==
  /\ \A j \in Jobs : method[j] \in {"none", "Process"}
  /\ \A h \in Handlers : method[h] # "none" =>
       rpc[h] = "called" /\ method[h] \in Configs \cup {"StopProcess"}

ServerInv == ServerTypeOK /\ InMethod /\ Listed /\ FramesHandled /\ CallsRequested

LEMMA ServerInitInv == ServerInit => ServerInv
<1> SUFFICES ASSUME ServerInit PROVE ServerInv
  OBVIOUS
<1>1. TypeOK /\ InMethod
  BY InitTypeOK, RunsAre DEF ServerInit, Init, InMethod
<1>2. Listed /\ FramesHandled /\ CallsRequested
  BY ThreadsAssumption DEF ServerInit, Init, Listed, FramesHandled, CallsRequested
<1> QED
  BY <1>1, <1>2 DEF ServerInit, ServerInv, ServerTypeOK, RpcLocs

(* A step of a handler between two calls. *)
LEMMA RpcStepInv ==
  ASSUME ServerInv, NEW h \in Handlers, RpcStep(h) \/ \E r \in Offered : Request(h, r), TypeOK'
  PROVE  ServerTypeOK' /\ Listed' /\ FramesHandled' /\ CallsRequested'
<1> USE DEF ServerInv, RpcAt, RpcGoto, serverVars
<1>1. /\ h \in Threads /\ Handlers \subseteq Threads /\ Jobs \subseteq Threads
      /\ Jobs \cap Handlers = {} /\ TypeOK /\ ServerTypeOK
      /\ rpc \in [Handlers -> RpcLocs] /\ requests \in Nat
      /\ frame \in [Threads -> 0..created] /\ method \in [Threads -> Methods \cup {"none"}]
      /\ channel_list \in Seq(Channels) /\ state \in StateNames
  BY ThreadsAssumption DEF ServerTypeOK, TypeOK
<1>2. ASSUME RpcAt(h, "called") PROVE method[h] = "none"
  BY <1>1, <1>2, RunsAre DEF InMethod
<1>3. ASSUME NEW c \in Channels, SetchannelPush(h, c)
      PROVE  ServerTypeOK' /\ Listed' /\ FramesHandled' /\ CallsRequested'
  <2>1. channel_list' = Append(channel_list, c) /\ \A s \in Seq(Channels) : Append(s, c) # <<>>
    BY <1>3 DEF SetchannelPush, AppendChannel
  <2> QED
    BY <1>1, <1>3, <2>1 DEF SetchannelPush, RpcMove, AppendChannel, ServerTypeOK, RpcLocs, Listed,
       FramesHandled, CallsRequested
<1>4. CASE SetchannelReply(h)
  <2>1. channel_list[Len(channel_list)] \in Channels
    BY <1>1, <1>4 DEF SetchannelReply, Listed
  <2> QED
    BY <1>1, <1>4, <2>1 DEF SetchannelReply, Answer, vars, threadVars, envVars, ServerTypeOK,
       RpcLocs, Requests, Listed, FramesHandled, CallsRequested
<1>5. CASE SetchannelRaces(h) \/ AssignTerminates(h) \/ StoreTerminates(h)
  BY <1>1, <1>5 DEF SetchannelRaces, AssignTerminates, StoreTerminates, CallerDies, threadVars,
     envVars, ServerTypeOK, Listed, FramesHandled, CallsRequested
<1>6. CASE AvioCalls(h) \/ StopCalls(h)
  <2>1. PICK m \in {"InitalAvio", "SetConfig", "StopProcess"} : Call(h, m) /\ RpcGoto(h, "called")
    BY <1>6 DEF AvioCalls, StopCalls, RpcMove
  <2>2. method' = [method EXCEPT ![h] = m] /\ rpc' = [rpc EXCEPT ![h] = "called"]
    BY <2>1 DEF Call
  <2>3. CallsRequested'
    BY <1>1, <2>2 DEF CallsRequested, Configs
  <2> QED
    BY <1>1, <1>6, <2>3 DEF AvioCalls, StopCalls, RpcMove, Call, ServerTypeOK, RpcLocs, Requests,
       Listed, FramesHandled
<1>7. CASE ReplyState(h)
  BY <1>1, <1>2, <1>7 DEF ReplyState, Answer, envVars, ServerTypeOK, RpcLocs, Listed, FramesHandled,
     CallsRequested
<1>8. ASSUME NEW j \in Jobs, StartJob(h, j)
      PROVE  ServerTypeOK' /\ Listed' /\ FramesHandled' /\ CallsRequested'
  BY <1>1, <1>8 DEF Methods, StartJob, Call, ServerTypeOK, RpcLocs, Listed, FramesHandled,
     CallsRequested
<1>9. CASE AssignJob(h) \/ StoreJob(h)
  <2>1. CASE AssignJob(h)
    BY <1>1, <2>1 DEF AssignJob, RpcMove, vars, threadVars, envVars, ServerTypeOK, RpcLocs,
       Requests, Listed, FramesHandled, CallsRequested
  <2>2. CASE StoreJob(h)
    BY <1>1, <2>2 DEF StoreJob, vars, threadVars, envVars, ServerTypeOK, RpcLocs, Requests,
       Listed, FramesHandled, CallsRequested
  <2> QED
    BY <1>9, <2>1, <2>2
<1>10. ASSUME NEW r \in Offered, Request(h, r)
      PROVE  ServerTypeOK' /\ Listed' /\ FramesHandled' /\ CallsRequested'
  <2>1. r \in RpcLocs /\ r # "set_list"
    BY OfferedAssumption DEF RpcLocs, Requests
  <2> QED
    BY <1>1, <1>10, <2>1 DEF Request, vars, threadVars, envVars, ServerTypeOK, Listed, FramesHandled,
       CallsRequested
<1> QED
  BY <1>3, <1>4, <1>5, <1>6, <1>7, <1>8, <1>9, <1>10 DEF RpcStep

LEMMA ServerNextInv ==
  ASSUME ServerInv, [ServerNext]_allVars
  PROVE  ServerInv'
<1>1. TypeOK /\ InMethod /\ [Next]_vars
  BY ServerStepSimulates DEF ServerInv, ServerTypeOK
<1>2. TypeOK' /\ InMethod'
  BY <1>1, NextTypeOK, NextInMethod
<1>3. ASSUME NEW h \in Handlers, RpcStep(h) \/ \E r \in Offered : Request(h, r)
      PROVE  ServerInv'
  BY <1>2, <1>3, RpcStepInv DEF ServerInv
<1>4. ASSUME NEW t \in Threads, TranscoderStep(t)
      PROVE  ServerInv'
  <2>1. UNCHANGED serverVars /\ channel_list' = channel_list /\ FramesHandled'
    BY <1>1, <1>4, StepKeepsFrames DEF TranscoderStep, serverVars, ServerInv, FramesHandled
  <2>2. CallsRequested'
    <3>1. \A u \in Threads : method'[u] \in {method[u], "none"}
      BY <1>1, <1>4, StepKeepsFrames DEF TranscoderStep
    <3>2. Jobs \subseteq Threads /\ Handlers \subseteq Threads /\ rpc' = rpc
      BY <2>1, ThreadsAssumption DEF serverVars
    <3> QED
      BY <3>1, <3>2 DEF ServerInv, CallsRequested
  <2> QED
    BY <1>2, <2>1, <2>2 DEF serverVars, ServerInv, ServerTypeOK, Listed
<1>5. ASSUME NEW t \in Threads, ReadsUnmapped(t)
      PROVE  ServerInv'
  BY <1>2, <1>5 DEF ReadsUnmapped, CallerDies, threadVars, envVars, serverVars, ServerInv,
     ServerTypeOK, Listed, FramesHandled, CallsRequested
<1>6. CASE UNCHANGED allVars
  BY <1>2, <1>6 DEF allVars, vars, threadVars, envVars, serverVars, ServerInv, ServerTypeOK, Listed,
     FramesHandled, CallsRequested
<1> QED
  BY <1>3, <1>4, <1>5, <1>6 DEF ServerNext, ServerStep

LEMMA ServerInvariant == ServerSpec => []ServerInv
BY ServerInitInv, ServerNextInv, PTL DEF ServerSpec

(* The types of the server, and of the Transcoder it drives.                *)
THEOREM ServerTypes == ServerSpec => []ServerTypeOK
<1>1. ServerInv => ServerTypeOK
  BY DEF ServerInv
<1> QED
  BY <1>1, ServerInvariant, PTL

(* The server's own use of the Transcoder: whatever clients ask for, only   *)
(* jobs transcode, they do nothing else, and a handler is in a method of    *)
(* the Transcoder only while it handles the request that calls for one.     *)
THEOREM JobsTranscode == ServerSpec => []CallsRequested
<1>1. ServerInv => CallsRequested
  BY DEF ServerInv
<1> QED
  BY <1>1, ServerInvariant, PTL

(* However many clients open inputs from memory, the descriptor that such   *)
(* an input is read through exists only inside the request that opened it:  *)
(* no job ever has one of its own.                                          *)
THEOREM FramesInRequests == ServerSpec => []FramesAreInRequests
<1>1. ServerInv => FramesAreInRequests
  BY DEF ServerInv, FramesHandled, FramesAreInRequests
<1> QED
  BY <1>1, ServerInvariant, PTL

=============================================================================
