--------------------------- MODULE GoClientProofs ---------------------------
(***************************************************************************)
(* The server with the Go client and the operator, for any channels,       *)
(* handlers, jobs and failures: what the client uses of the server, one    *)
(* run of it against a fresh server, and any number of runs.               *)
(***************************************************************************)
EXTENDS GoClient, RPCServerProofs, FiniteSetTheorems

LEMMA ClientCallsAre ==
  /\ \A c \in Calls : RequestOf(c) \in Offered /\ After(c) \in Calls \cup {"done"}
  /\ OperatorMay \subseteq Offered
  /\ RequestOf("Setchannel") = "set_push" /\ RequestOf("Avio") = "avio_file"
  /\ RequestOf("Process") = "process"
  /\ After("Setchannel") = "Avio" /\ After("Avio") = "Process" /\ After("Process") = "done"
BY OfferedToClient DEF Calls, RequestOf, After

LEMMA SystemStepIsServerStep ==
  ASSUME [SystemNext]_systemVars
  PROVE  [ServerNext]_allVars
<1>1. ASSUME NEW h \in Handlers, ClientCalls(h) \/ OperatorAsks(h)
      PROVE  ServerNext
  BY <1>1, ClientCallsAre DEF ClientCalls, OperatorAsks, ServerNext
<1> QED
  BY <1>1 DEF SystemNext, ServerNext, ClientReturns, ClientFails, ClientRestarts, systemVars

(* Client and operator are clients of the service, so that every theorem on *)
(* the server, and on the Transcoder, holds under them.                     *)
THEOREM SystemImplementsServer == SystemSpec => ServerSpec
<1>1. SystemInit => ServerInit
  BY DEF SystemInit
<1> QED
  BY <1>1, SystemStepIsServerStep, PTL DEF SystemSpec, ServerSpec

(* A client that waits for an answer has made a call. *)
Waiting == /\ script \in Calls \cup {"done", "failed"}
           /\ serving \in Handlers \cup {NoHandler}
           /\ runs \in Nat
           /\ serving # NoHandler => script \in Calls

LEMMA WaitingStep ==
  ASSUME Waiting, [SystemNext]_systemVars
  PROVE  Waiting'
<1>1. CASE ClientReturns
  BY <1>1, ClientCallsAre DEF Waiting, ClientReturns
<1>2. CASE ClientFails \/ ClientRestarts
  BY <1>2 DEF Waiting, ClientFails, ClientRestarts, Calls
<1>3. ASSUME NEW h \in Handlers, ClientCalls(h)
      PROVE  Waiting'
  BY <1>3 DEF Waiting, ClientCalls
<1>4. ASSUME NEW h \in Handlers, OperatorAsks(h)
      PROVE  Waiting'
  BY <1>4 DEF Waiting, OperatorAsks, clientVars
<1>5. CASE UNCHANGED clientVars
  BY <1>5 DEF Waiting, clientVars
<1>6. CASE UNCHANGED systemVars
  BY <1>5, <1>6 DEF systemVars
<1>7. CASE SystemNext
  BY <1>1, <1>2, <1>3, <1>4, <1>5, <1>7 DEF SystemNext
<1> QED
  BY <1>6, <1>7

(* The types of client and server.                                          *)
THEOREM ClientTypes == SystemSpec => []ClientTypeOK
<1>1. SystemInit => Waiting
  BY DEF SystemInit, Waiting, Calls
<1>2. ServerTypeOK /\ Waiting => ClientTypeOK
  BY DEF Waiting, ClientTypeOK
<1> QED
  BY <1>1, <1>2, WaitingStep, SystemImplementsServer, ServerTypes, PTL DEF SystemSpec

-----------------------------------------------------------------------------
(***************************************************************************)
(* One run of the client.  All threads but one are quiet: between two      *)
(* calls, or in StopProcess for the operator.  The one that works          *)
(* configures, for the client's Avio, and then transcodes, for its Process *)
(* request; what it is at tells the status and what is in the contexts.    *)
(***************************************************************************)
Quiet(t) == method[t] \in {"none", "StopProcess"}
Resting  == \A t \in Threads : Quiet(t)
Accounts == {"SetConfigFinished", "SetFailed"}

(* The map before the first configuration, before the transcode drains it,  *)
(* and after a configuration that was accepted.                             *)
Unbound == \A s \in Streams : pidObject[s] = Absent
Blank   == ifmt_ctx = NoCtx /\ Unbound /\ ofmt_list = {}
Filled  == \A s \in Streams : pidObject[s].is # "null"
Routed  == \A n \in DOMAIN channel_list : \A s \in Selects[channel_list[n]] :
             /\ s \in Objects
             /\ pidObject[s].in = ifmt_ctx /\ ifmt_ctx \in inputs
             /\ <<ifmt_ctx, s>> \in decoders
             /\ pidObject[s].out \in ofmt_list

(* What the client is told of a configuration that left these contexts.    *)
Verdict == IF Accepted THEN "SetConfigFinished" ELSE "SetFailed"

Untouched  == state = "Initial" /\ started = {} /\ Resting /\ Blank
Configured == /\ state = Verdict /\ started = {} /\ Resting /\ Filled
              /\ state = "SetConfigFinished" => Routed
Over       == state = "Finished" /\ started # {} /\ Resting

Configures(w) ==
  /\ w \in Handlers /\ rpc[w] = "called" /\ method[w] = "SetConfig" /\ started = {}
  /\ state = IF pc[w] = "cfg_announce" THEN "Initial" ELSE "SetConfig"
  /\ Filled
  /\ pc[w] \in {"cfg_announce", "lock", "cfg_open"} => Blank
  /\ pc[w] = "cfg_output" =>
       /\ ifmt_ctx \in inputs /\ {ifmt_ctx} \X Wanted(channel_list) \subseteq decoders
       /\ \/ pos[w] = 1 /\ Unbound /\ ofmt_list = {}
          \/ pos[w] = 2 /\ Routed /\ Accepted
  /\ pc[w] = "cfg_accept" => Routed /\ Accepted
  /\ pc[w] \in {"cfg_reject", "cfg_rejected"} => ~Accepted

Transcodes(w) ==
  /\ started = {w} /\ method[w] = "Process"
  /\ IF pc[w] \in {"prc_getifmt", "prc_announce"}
       THEN state \in Accounts /\ (state = "SetConfigFinished" => Routed)
       ELSE state = "Process"
  /\ pc[w] # "prc_getifmt" => ifmt[w] = ifmt_ctx
  /\ pc[w] # "prc_finish" => Filled

Stage ==
  \/ Untouched \/ Configured \/ Over
  \/ \E w \in Threads : /\ \A t \in Threads \ {w} : Quiet(t)
                        /\ Configures(w) \/ Transcodes(w)

(* A client that sends a file for a channel has no input from memory, no    *)
(* trailer is ever written, and the list does not move under its iterator.  *)
Contents == /\ memory = {} /\ ended = {} /\ ifmt_ctx \in inputs \cup {NoCtx}
            /\ \A t \in Threads : ~stale[t]
            /\ Len(channel_list) <= 1

(* The request of the client that a handler works on, one at a time: once   *)
(* it has given up, the client makes no other.                              *)
Errand(h) == \/ rpc[h] \in {"set_push", "set_list", "avio_file", "process", "assign", "store"}
             \/ method[h] = "SetConfig"
Errands ==
  /\ \A g, h \in Handlers : Errand(g) /\ Errand(h) => g = h
  /\ \A h \in Handlers : script \in Calls /\ Errand(h) => serving = h
  /\ \A h \in Handlers :
       /\ rpc[h] \notin {"avio_memory"}
       /\ rpc[h] = "set_push" => Untouched /\ channel_list = <<>>
       /\ rpc[h] \in {"set_list", "avio_file"} => Untouched
       /\ rpc[h] = "process" => Configured
       /\ rpc[h] \in {"assign", "store"} => started # {} /\ ~joinable
  /\ joinable => started # {}

(* How far the client is.                                                   *)
Script ==
  /\ runs >= 1
  /\ script = "Setchannel" =>
       /\ Untouched
       /\ \A h \in Handlers : Errand(h) => rpc[h] \in {"set_push", "set_list"}
       /\ channel_list # <<>> => serving # NoHandler /\ rpc[serving] # "set_push"
  /\ script = "Avio" =>
       /\ \A h \in Handlers : Errand(h) => rpc[h] = "avio_file" \/ method[h] = "SetConfig"
       /\ serving = NoHandler => Untouched
       /\ serving # NoHandler /\ ~Errand(serving) => Configured
       /\ serving # NoHandler /\ rpc[serving] = "ready" => reply[serving] = Verdict
  /\ script = "Process" =>
       /\ serving = NoHandler => Configured
       /\ serving # NoHandler /\ rpc[serving] # "process" => started # {}

SessionInv == Stage /\ Contents /\ Errands /\ Script

(* Where a thread can be, by the method it is in.                           *)
LEMMA PlacesOf ==
  ASSUME TypeOK, InMethod, NEW t \in Threads
  PROVE  /\ Quiet(t) => pc[t] \in {"idle", "stp_check", "stp_arm", "stp_wait"}
         /\ method[t] = "SetConfig" => pc[t] \in
              {"cfg_announce", "lock", "cfg_open", "cfg_output", "cfg_accept", "cfg_reject", "cfg_rejected"}
         /\ method[t] = "Process" => pc[t] \in ProcessLocs \cup {"lock"}
         /\ pc[t] = "idle" => method[t] = "none"
         /\ pc[t] \in ProcessLocs => method[t] = "Process"
<1>1. pc[t] \in Locs /\ method[t] \in Runs(pc[t])
  BY DEF TypeOK, InMethod
<1> QED
  BY <1>1, RunsAre DEF Locs, ConfigLocs, ProcessLocs, OtherLocs, Configs, Quiet

(* A thread that does not work changes nothing but its own place, and the   *)
(* flag.                                                                    *)
LEMMA QuietStep ==
  ASSUME TypeOK, InMethod, NEW t \in Threads, Quiet(t), Step(t) \/ StpWakesUp(t)
  PROVE  /\ UNCHANGED <<wrapperVars, state, ifmt, pos, stale, channel_list>>
         /\ \A u \in Threads \ {t} : pc'[u] = pc[u] /\ method'[u] = method[u]
         /\ Quiet(t)' /\ fault = "none"
<1>1. pc[t] \in {"idle", "stp_check", "stp_arm", "stp_wait"} /\ method \in [Threads -> Methods \cup {"none"}]
  BY PlacesOf DEF TypeOK
<1>2. StopStep(t) \/ StpWakesUp(t)
  BY <1>1 DEF Step, AcquireProcessLock, ConfigStep, CfgAnnounce, CfgAlloc, CfgAllocFails, CfgOpen,
     CfgOpenFails, CfgOutput, CfgOutputFails, CfgOpenFaults, CfgIteratorFault, CfgOutputsDone,
     CfgAccept, CfgReject,
     CfgRejected, ProcessStep, PrcGetIfmt, PrcAnnounce, PrcInitTools, PrcInitFaults, PrcLoop,
     PrcReadEnds, PrcReadPacket, PrcReadFaults, PrcDrain, PrcDrainFaults, PrcFinish, CleanStep,
     ClnReset, ClnWipe, WalkStep, EndWrite, EndWriteFaults, OutputAmount, OutputAmountFaults, Move,
     Leave, Crash, At, Iterates
<1>3. UNCHANGED <<wrapperVars, state, ifmt, pos, stale, channel_list>> /\ fault = "none"
  BY <1>2 DEF StopStep, StpRefused, StpAccepted, StpArm, StpWakesUp, Move, Leave, At, ctlVars, envVars
<1>4. /\ \A u \in Threads \ {t} : pc'[u] = pc[u] /\ method'[u] = method[u]
      /\ method'[t] \in {method[t], "none"}
  BY <1>1, <1>2 DEF TypeOK, StopStep, StpRefused, StpAccepted, StpArm, StpWakesUp, Move, Leave,
     Return, Goto
<1> QED
  BY <1>3, <1>4 DEF Quiet

(* A step that leaves the contexts, the status and the thread that works    *)
(* alone keeps the stage.                                                   *)
LEMMA StageKept ==
  ASSUME UNCHANGED <<wrapperVars, state, ifmt, pos, channel_list, started>>,
         \A t \in Threads : IF Quiet(t) THEN Quiet(t)'
                            ELSE /\ pc'[t] = pc[t] /\ method'[t] = method[t]
                                 /\ t \in Handlers => rpc'[t] = rpc[t]
  PROVE  /\ Untouched => Untouched'
         /\ Configured => Configured'
         /\ Stage => Stage'
         /\ Verdict' = Verdict
<1> USE DEF wrapperVars, inputVars, outputVars
<1>1. /\ (Blank => Blank') /\ (Filled => Filled') /\ (Unbound => Unbound') /\ (Routed => Routed')
      /\ Accepted' = Accepted /\ Verdict' = Verdict
  BY DEF Blank, Filled, Unbound, Routed, Objects, Accepted, Verdict
<1>2. Resting => Resting'
  BY DEF Resting
<1>3. (Untouched => Untouched') /\ (Configured => Configured') /\ (Over => Over')
  BY <1>1, <1>2 DEF Untouched, Configured, Over
<1>4. ASSUME NEW w \in Threads, Configures(w) \/ Transcodes(w)
      PROVE  Configures(w)' \/ Transcodes(w)'
  <2>1. ~Quiet(w)
    BY <1>4 DEF Configures, Transcodes, Quiet
  <2>2. pc'[w] = pc[w] /\ method'[w] = method[w] /\ (w \in Handlers => rpc'[w] = rpc[w])
    BY <2>1
  <2> QED
    BY <1>1, <1>4, <2>2 DEF Configures, Transcodes, Wanted
<1>5. ASSUME NEW w \in Threads, \A t \in Threads \ {w} : Quiet(t), Configures(w) \/ Transcodes(w)
      PROVE  Stage'
  <2>1. \A t \in Threads \ {w} : Quiet(t)'
    BY <1>5
  <2> QED
    BY <1>4, <1>5, <2>1 DEF Stage
<1> QED
  BY <1>1, <1>3, <1>5 DEF Stage

-----------------------------------------------------------------------------
(* The thread that configures.  What every step of its leaves: the thread   *)
(* still at work or the configuration at its outcome, the others where they *)
(* were, and of the ways to die those that leave no input, an output or an  *)
(* encoder that is not there, and a channel without a video.                *)
AllHaveVideo == \A c \in Channels : HasVideo(c)
Sites == {"none", "null_output", "null_encoder"}
         \cup (IF AllHaveVideo THEN {} ELSE {"uninit_video"})

Stays(w) == /\ \A u \in Threads \ {w} : pc'[u] = pc[u] /\ method'[u] = method[u]
            /\ channel_list' = channel_list /\ memory' = memory /\ ended' = ended

ConfigOutcome(w) ==
  /\ Stays(w)
  /\ ifmt_ctx' \in inputs' \cup {NoCtx} /\ ~stale'[w]
  /\ \A u \in Threads \ {w} : stale'[u] = stale[u]
  /\ \/ method'[w] = "SetConfig" /\ Configures(w)'
     \/ /\ method'[w] = "none" /\ state' = Verdict' /\ Filled'
        /\ state' = "SetConfigFinished" => Routed'
  /\ fault = "none"
  /\ fault' \in Sites \/ ifmt_ctx' = NoCtx
  /\ \/ state' = state
     \/ /\ fault' = "none"
        /\ \/ state = "Initial" /\ state' = "SetConfig"
           \/ state = "SetConfig" /\ state' \in Accounts

(* The step that binds the channel of the list routes all of its streams.   *)
LEMMA OutputRoutes ==
  ASSUME TypeOK, NEW w \in Threads, CfgOutput(w), pos[w] = 1, Unbound, Len(channel_list) <= 1,
         ifmt_ctx \in inputs, {ifmt_ctx} \X Wanted(channel_list) \subseteq decoders, ofmt_list = {}
  PROVE  Routed' /\ Accepted' /\ pos'[w] = 2
<1>1. channel_list \in Seq(Channels) /\ pos \in [Threads -> Nat]
      /\ pidObject \in [Streams -> [is : {"absent", "null", "object"}, in : 0..created, out : 0..created]]
  BY DEF TypeOK, WrapperTypeOK
<1>2. Len(channel_list) = 1 /\ DOMAIN channel_list = {1} /\ ThisChannel(w) = channel_list[1]
      /\ channel_list[1] \in Channels
  <2>1. 1 <= Len(channel_list) /\ Len(channel_list) \in Nat /\ ThisChannel(w) = channel_list[1]
    BY <1>1 DEF CfgOutput, Iterates, ThisChannel
  <2>2. \A n \in Nat : 1 <= n /\ n <= 1 => n = 1
    OBVIOUS
  <2>3. Len(channel_list) = 1
    BY <2>1, <2>2
  <2>5. DOMAIN channel_list = 1..1
    BY <1>1, <2>3
  <2>6. channel_list[1] \in Channels
    <3>1. 1 \in 1..Len(channel_list)
      BY <2>3
    <3> QED
      BY <1>1, <3>1
  <2>4. 1..1 = {1}
    OBVIOUS
  <2> QED
    BY <2>1, <2>3, <2>4, <2>5, <2>6
<1>3. pos'[w] = 2 /\ UNCHANGED <<channel_list, ifmt_ctx, inputs, decoders>>
      /\ Bind(Selects[channel_list[1]], NewCtx) /\ ofmt_list' = ofmt_list \cup {NewCtx}
  BY <1>1, <1>2 DEF CfgOutput, OfmtInital, envVars, inputVars
<1>4. Selects[channel_list[1]] \subseteq Streams
  BY <1>2, SelectsAssumption
<1>5. ASSUME NEW s \in Selects[channel_list[1]]
      PROVE  /\ s \in Streams /\ pidObject'[s] = Object(ifmt_ctx, NewCtx)
             /\ <<ifmt_ctx, s>> \in decoders
  <2>1. s \in Streams /\ pidObject[s].is = "absent"
    BY <1>4 DEF Unbound, Absent
  <2>2. pidObject'[s] = Object(ifmt_ctx, NewCtx)
    BY <1>3, <1>5, <2>1 DEF Bind
  <2>3. s \in Wanted(channel_list)
    BY <1>2, <1>5 DEF Wanted
  <2> QED
    BY <2>1, <2>2, <2>3
<1>6. Accepted'
  <2>1. Cardinality({NewCtx}) = 1
    BY FS_Singleton
  <2>2. ofmt_list' = {NewCtx} /\ Len(channel_list') = 1 /\ ifmt_ctx' \in inputs'
    BY <1>2, <1>3
  <2> QED
    BY <2>1, <2>2 DEF Accepted
<1> QED
  BY <1>2, <1>3, <1>5, <1>6 DEF Routed, Objects, Object

(* Before the first output is listed, the verdict on a list of one channel  *)
(* is that it has none.                                                     *)
LEMMA NotYetAccepted ==
  ASSUME channel_list \in Seq(Channels), ofmt_list = {}, Len(channel_list) # 0
  PROVE  ~Accepted
BY FS_EmptySet DEF Accepted

LEMMA NothingToAccept ==
  ASSUME ofmt_list = {}, Len(channel_list) = 0, ifmt_ctx \in inputs
  PROVE  Accepted
BY FS_EmptySet DEF Accepted

LEMMA ConfigWorks ==
  ASSUME TypeOK, InMethod, Contents, NEW w \in Threads, Configures(w), Step(w) \/ StpWakesUp(w),
         UNCHANGED serverVars
  PROVE  ConfigOutcome(w)
<1> USE DEF wrapperVars, inputVars, outputVars, ctlVars, serverVars, threadVars, envVars
<1>1. /\ pc \in [Threads -> Locs] /\ method \in [Threads -> Methods \cup {"none"}]
      /\ pos \in [Threads -> Nat] /\ stale \in [Threads -> BOOLEAN] /\ channel_list \in Seq(Channels)
      /\ method[w] = "SetConfig" /\ ~stale[w] /\ memory = {} /\ ended = {} /\ Filled
      /\ ifmt_ctx \in inputs \cup {NoCtx} /\ w \in Handlers /\ rpc[w] = "called" /\ started = {}
  BY DEF TypeOK, Configures, Contents
<1>2. pc[w] \in {"cfg_announce", "lock", "cfg_open", "cfg_output", "cfg_accept", "cfg_reject", "cfg_rejected"}
  BY <1>1, PlacesOf
<1>3. (AcquireProcessLock(w) \/ ConfigStep(w)) /\ fault = "none"
  BY <1>1, <1>2 DEF Step, StpWakesUp, AcquireProcessLock, ConfigStep, CfgAnnounce, CfgAlloc, CfgAllocFails,
     CfgOpen, CfgOpenFails, CfgOutput, CfgOutputFails, CfgOpenFaults, CfgIteratorFault, CfgOutputsDone,
     CfgAccept,
     CfgReject, CfgRejected, ProcessStep, PrcGetIfmt, PrcAnnounce, PrcInitTools, PrcInitFaults,
     PrcLoop, PrcReadEnds, PrcReadPacket, PrcReadFaults, PrcDrain, PrcDrainFaults, PrcFinish,
     StopStep, StpRefused, StpAccepted, StpArm, CleanStep, ClnReset, ClnWipe, WalkStep, EndWrite,
     EndWriteFaults, OutputAmount, OutputAmountFaults, Move, Leave, Crash, At, Iterates
<1>4. fault = "none" /\ "none" \in Sites /\ (pc[w] = "cfg_announce" => state = "Initial")
      /\ (pc[w] # "cfg_announce" => state = "SetConfig")
  BY <1>3 DEF Sites, Configures
<1>5. CASE AcquireProcessLock(w)
  <2>1. /\ pc[w] = "lock" /\ pc'[w] = "cfg_open" /\ UNCHANGED <<wrapperVars, state, envVars>>
        /\ UNCHANGED <<method, ifmt, pos, stale>> /\ \A u \in Threads \ {w} : pc'[u] = pc[u]
    BY <1>1, <1>5 DEF AcquireProcessLock, Locked, Move, At, Goto
  <2>2. Blank' /\ Filled'
    BY <1>1, <2>1 DEF Configures, Blank, Unbound, Filled
  <2> QED
    BY <1>1, <1>4, <2>1, <2>2 DEF ConfigOutcome, Stays, Configures
<1>6. CASE CfgAnnounce(w)
  <2>1. /\ pc[w] = "cfg_announce" /\ pc'[w] = "lock" /\ state' = "SetConfig"
        /\ UNCHANGED <<wrapperVars, envVars, method, ifmt, pos, stale>>
        /\ \A u \in Threads \ {w} : pc'[u] = pc[u]
    BY <1>1, <1>6 DEF CfgAnnounce, SetState, Move, At, Goto
  <2>2. Blank' /\ Filled'
    BY <1>1, <2>1 DEF Configures, Blank, Unbound, Filled
  <2> QED
    BY <1>1, <1>4, <2>1, <2>2 DEF ConfigOutcome, Stays, Configures
<1>7. CASE CfgOpen(w)
  <2>1. /\ pc[w] = "cfg_open" /\ pc'[w] = "cfg_output" /\ pos'[w] = 1 /\ ~stale'[w]
        /\ UNCHANGED <<outputVars, fault, ctlVars, envVars, method, memory>>
        /\ \A u \in Threads \ {w} : pc'[u] = pc[u] /\ stale'[u] = stale[u]
        /\ OpenInput(channel_list)
    BY <1>1, <1>7 DEF CfgOpen, OpenInput, At, Goto
  <2>2. Unbound' /\ Filled' /\ ofmt_list' = {}
    BY <1>1, <2>1 DEF Configures, Blank, Unbound, Filled
  <2>3. ifmt_ctx' \in inputs' /\ {ifmt_ctx'} \X Wanted(channel_list') \subseteq decoders'
    BY <2>1 DEF OpenInput, Wanted
  <2> QED
    BY <1>1, <1>4, <2>1, <2>2, <2>3 DEF ConfigOutcome, Stays, Configures
<1>8. CASE CfgOpenFails(w)
  <2>1. /\ pc[w] = "cfg_open" /\ ifmt_ctx' = NoCtx
        /\ UNCHANGED <<outputVars, memory, ctlVars, envVars, method, stale>>
        /\ \A u \in Threads \ {w} : pc'[u] = pc[u]
        /\ pc'[w] = "cfg_reject" \/ (pc' = pc /\ inputs' \subseteq inputs)
        /\ inputs' \subseteq inputs \cup {NewCtx}
    BY <1>1, <1>8 DEF CfgOpenFails, ProbeInputFails, OpenInputFails, CloseInput, OpenedCtx, Move, At, Goto
  <2>2. Blank' /\ Filled'
    BY <1>1, <2>1 DEF Configures, Blank, Unbound, Filled
  <2>3. ~Accepted'
    <3>1. NoCtx \notin inputs \cup {NewCtx}
      BY DEF TypeOK, WrapperTypeOK, NoCtx, NewCtx
    <3> QED
      BY <2>1, <3>1 DEF Accepted
  <2> QED
    BY <1>1, <1>4, <2>1, <2>2, <2>3 DEF ConfigOutcome, Stays, Configures
<1>9. CASE CfgOutput(w)
  <2>1. /\ pc[w] = "cfg_output" /\ pos[w] <= Len(channel_list)
        /\ UNCHANGED <<pc, method, stale, ctlVars, envVars, inputVars, ended, fault>>
        /\ Bind(Selects[ThisChannel(w)], NewCtx)
    BY <1>9 DEF CfgOutput, Iterates, At, OfmtInital
  <2>2. pos[w] = 1 /\ Unbound /\ ofmt_list = {} /\ ifmt_ctx \in inputs
        /\ {ifmt_ctx} \X Wanted(channel_list) \subseteq decoders /\ Len(channel_list) <= 1
    <3>1. Len(channel_list) \in Nat /\ Len(channel_list) <= 1
      BY <1>1 DEF Contents
    <3> QED
      BY <1>1, <2>1, <3>1 DEF Configures
  <2>3. Routed' /\ Accepted' /\ pos'[w] = 2
    BY <1>9, <2>2, OutputRoutes
  <2>4. Filled'
    BY <1>1, <2>1 DEF Filled, Bind, Object
  <2>5. ifmt_ctx' \in inputs' /\ {ifmt_ctx'} \X Wanted(channel_list') \subseteq decoders'
    BY <2>1, <2>2 DEF Wanted
  <2> QED
    BY <1>1, <1>4, <2>1, <2>2, <2>3, <2>4, <2>5 DEF ConfigOutcome, Stays, Configures
<1>10. CASE CfgOutputFails(w)
  <2>1. /\ pc[w] = "cfg_output" /\ UNCHANGED <<method, stale, ctlVars, envVars, inputVars, ended>>
        /\ \A u \in Threads \ {w} : pc'[u] = pc[u]
        /\ \/ pc'[w] = "cfg_reject" /\ fault' = fault
           \/ UNCHANGED <<pc, pos, outputVars>> /\ OfmtInitalFaults(ThisChannel(w))
        /\ pidObject' = pidObject \/ \E S : Bind(S, NewCtx)
        /\ pos[w] <= Len(channel_list)
    BY <1>1, <1>10 DEF CfgOutputFails, OfmtInitalFails, OfmtInitalFaults, Iterates, Move, At, Goto
  <2>2. ThisChannel(w) \in Channels
    <3>1. ifmt_ctx \in inputs /\ pos[w] \in 1..Len(channel_list)
      BY <1>1, <2>1 DEF Configures
    <3> QED
      BY <1>1, <3>1 DEF ThisChannel
  <2>3. fault' \in Sites
    BY <1>4, <2>1, <2>2 DEF Sites, OfmtInitalFaults, Die, AllHaveVideo
  <2>4. Filled'
    BY <1>1, <2>1 DEF Filled, Bind, Object
  <2>5. /\ ifmt_ctx \in inputs /\ {ifmt_ctx} \X Wanted(channel_list) \subseteq decoders
        /\ pos[w] = 1 /\ Unbound /\ ofmt_list = {} /\ Len(channel_list) # 0
    <3>1. Len(channel_list) \in Nat /\ Len(channel_list) <= 1
      BY <1>1 DEF Contents
    <3> QED
      BY <1>1, <2>1, <3>1 DEF Configures
  <2>6. CASE pc'[w] = "cfg_reject" /\ fault' = fault
    <3>1. ~Accepted'
      <4>1. ofmt_list' = ofmt_list /\ UNCHANGED <<channel_list, inputs, ifmt_ctx>>
        BY <1>1, <1>10, <2>1, <2>6 DEF CfgOutputFails, OfmtInitalFails, OfmtInitalFaults
      <4>2. ~Accepted
        BY <1>1, <2>5, NotYetAccepted
      <4> QED
        BY <4>1, <4>2 DEF Accepted
    <3> QED
      BY <1>1, <1>4, <2>1, <2>3, <2>4, <2>6, <3>1 DEF ConfigOutcome, Stays, Configures
  <2>7. CASE UNCHANGED <<pc, pos, outputVars>>
    <3>1. Unbound' /\ ofmt_list' = {}
      BY <2>1, <2>5, <2>7 DEF Unbound
    <3>2. Wanted(channel_list') = Wanted(channel_list)
      BY <2>1
    <3> QED
      BY <1>1, <1>4, <2>1, <2>3, <2>4, <2>5, <2>7, <3>1, <3>2 DEF ConfigOutcome, Stays, Configures
  <2> QED
    BY <2>1, <2>6, <2>7
<1>11. CASE CfgOutputsDone(w)
  <2>1. /\ pc[w] = "cfg_output" /\ pc'[w] = "cfg_accept" /\ pos[w] > Len(channel_list)
        /\ UNCHANGED <<wrapperVars, ctlVars, envVars, method, stale>>
        /\ \A u \in Threads \ {w} : pc'[u] = pc[u]
    BY <1>1, <1>11 DEF CfgOutputsDone, Move, At, Goto
  <2>2. Routed /\ Accepted
    <3>1. CASE pos[w] = 1 /\ ofmt_list = {} /\ ifmt_ctx \in inputs
      <4>1. DOMAIN channel_list = {} /\ Len(channel_list) = 0
        BY <1>1, <2>1, <3>1
      <4> QED
        BY <3>1, <4>1, NothingToAccept DEF Routed
    <3> QED
      BY <2>1, <3>1 DEF Configures
  <2>3. Routed' /\ Filled' /\ Accepted'
    BY <1>1, <2>1, <2>2 DEF Routed, Objects, Filled, Accepted
  <2> QED
    BY <1>1, <1>4, <2>1, <2>3 DEF ConfigOutcome, Stays, Configures
<1>12. CASE CfgReject(w)
  <2>1. /\ pc[w] = "cfg_reject" /\ pc'[w] = "cfg_rejected"
        /\ UNCHANGED <<wrapperVars, state, envVars, method, stale>>
        /\ \A u \in Threads \ {w} : pc'[u] = pc[u]
    BY <1>1, <1>12 DEF CfgReject, Move, At, Goto
  <2>2. Filled' /\ ~Accepted'
    BY <1>1, <2>1 DEF Filled, Accepted, Configures
  <2> QED
    BY <1>1, <1>4, <2>1, <2>2 DEF ConfigOutcome, Stays, Configures
<1>13. CASE CfgAccept(w) \/ CfgRejected(w)
  <2>1. /\ UNCHANGED <<wrapperVars, envVars, stale>> /\ method'[w] = "none"
        /\ \A u \in Threads \ {w} : pc'[u] = pc[u] /\ method'[u] = method[u]
        /\ \/ pc[w] = "cfg_accept" /\ state' = "SetConfigFinished"
           \/ pc[w] = "cfg_rejected" /\ state' = "SetFailed"
    BY <1>1, <1>13 DEF CfgAccept, CfgRejected, SetState, Leave, Return, At, Goto
  <2>2. Filled' /\ (Routed => Routed') /\ (pc[w] = "cfg_accept" => Routed)
    BY <1>1, <2>1 DEF Filled, Routed, Objects, Configures
  <2>3. state' = Verdict'
    BY <1>1, <2>1 DEF Configures, Verdict, Accepted
  <2> QED
    BY <1>1, <1>4, <2>1, <2>2, <2>3 DEF ConfigOutcome, Stays, Accounts, Verdict
<1>14. ~CfgAlloc(w) /\ ~CfgAllocFails(w) /\ ~CfgOpenFaults(w) /\ ~CfgIteratorFault(w)
  BY <1>1, <1>2 DEF CfgAlloc, CfgAllocFails, CfgOpenFaults, CfgIteratorFault, Move, At
<1> QED
  BY <1>3, <1>5, <1>6, <1>7, <1>8, <1>9, <1>10, <1>11, <1>12, <1>13, <1>14 DEF ConfigStep

-----------------------------------------------------------------------------
(* The thread that transcodes: still at work, or done with everything; dead *)
(* of what a rejection has left, or of an audio object.                     *)
Ruined == ifmt_ctx = NoCtx \/ \E s \in Objects : Detached(s)

TranscodeOutcome(w) ==
  /\ Stays(w)
  /\ ifmt_ctx' \in inputs' \cup {NoCtx} /\ stale' = stale
  /\ \/ method'[w] = "Process" /\ Transcodes(w)'
     \/ method'[w] = "none" /\ state' = "Finished"
  /\ fault = "none"
  /\ fault' \in {"none", "audio_object"} \/ Ruined'
  /\ \/ state' = state
     \/ /\ fault' = "none"
        /\ \/ state \in Accounts /\ state' = "Process"
           \/ state = "Process" /\ state' = "Finished"

LEMMA TranscodeWorks ==
  ASSUME TypeOK, InMethod, Contents, NEW w \in Threads, Transcodes(w), Step(w) \/ StpWakesUp(w),
         UNCHANGED serverVars
  PROVE  TranscodeOutcome(w)
<1> USE DEF wrapperVars, inputVars, outputVars, ctlVars, serverVars, envVars
<1>1. /\ pc \in [Threads -> Locs] /\ method \in [Threads -> Methods \cup {"none"}]
      /\ ifmt \in [Threads -> 0..created]
      /\ method[w] = "Process" /\ memory = {} /\ ended = {}
      /\ ifmt_ctx \in inputs \cup {NoCtx} /\ started = {w}
  BY DEF TypeOK, Transcodes, Contents
<1>2. pc[w] \in ProcessLocs \cup {"lock"}
  BY <1>1, PlacesOf
<1>3. (AcquireProcessLock(w) \/ ProcessStep(w)) /\ fault = "none"
  BY <1>1, <1>2 DEF ProcessLocs, Step, StpWakesUp, AcquireProcessLock, ConfigStep, CfgAnnounce,
     CfgAlloc, CfgAllocFails,
     CfgOpen, CfgOpenFails, CfgOutput, CfgOutputFails, CfgOpenFaults, CfgIteratorFault, CfgOutputsDone,
     CfgAccept,
     CfgReject, CfgRejected, ProcessStep, PrcGetIfmt, PrcAnnounce, PrcInitTools, PrcInitFaults,
     PrcLoop, PrcReadEnds, PrcReadPacket, PrcReadFaults, PrcDrain, PrcDrainFaults, PrcFinish,
     StopStep, StpRefused, StpAccepted, StpArm, CleanStep, ClnReset, ClnWipe, WalkStep, EndWrite,
     EndWriteFaults, OutputAmount, OutputAmountFaults, Move, Leave, Crash, At, Iterates
<1>4. /\ IF pc[w] \in {"prc_getifmt", "prc_announce"}
           THEN state \in Accounts /\ (state = "SetConfigFinished" => Routed)
           ELSE state = "Process"
      /\ pc[w] # "prc_getifmt" => ifmt[w] = ifmt_ctx
      /\ pc[w] # "prc_finish" => Filled
  BY DEF Transcodes
(* What keeps the contexts keeps the map, filled and routed. *)
<1>5. ASSUME UNCHANGED <<wrapperVars, channel_list>> PROVE (Filled => Filled') /\ (Routed => Routed')
  BY <1>5 DEF Filled, Routed, Objects
<1>6. CASE PrcGetIfmt(w)
  <2>1. /\ pc[w] = "prc_getifmt" /\ pc'[w] = "prc_announce" /\ ifmt'[w] = ifmt_ctx
        /\ UNCHANGED <<wrapperVars, ctlVars, envVars, method, stale>>
        /\ \A u \in Threads \ {w} : pc'[u] = pc[u]
    BY <1>1, <1>6 DEF PrcGetIfmt, At, Goto
  <2> QED
    BY <1>1, <1>3, <1>4, <1>5, <2>1 DEF TranscodeOutcome, Stays, Transcodes
<1>7. CASE PrcAnnounce(w)
  <2>1. /\ pc[w] = "prc_announce" /\ pc'[w] = "lock" /\ state' = "Process"
        /\ UNCHANGED <<wrapperVars, envVars, method, ifmt, stale>>
        /\ \A u \in Threads \ {w} : pc'[u] = pc[u]
    BY <1>1, <1>7 DEF PrcAnnounce, SetState, Move, At, Goto
  <2> QED
    BY <1>1, <1>3, <1>4, <1>5, <2>1 DEF TranscodeOutcome, Stays, Transcodes
<1>8. CASE \/ AcquireProcessLock(w) \/ PrcInitTools(w) \/ PrcLoop(w) \/ PrcReadEnds(w)
           \/ \E s \in Streams : PrcReadPacket(w, s)
  <2>1. /\ pc[w] \in {"lock", "prc_init", "prc_loop", "prc_read"}
        /\ pc'[w] \in {"prc_init", "prc_loop", "prc_read", "prc_drain"}
        /\ UNCHANGED <<wrapperVars, state, envVars, method, ifmt, stale>>
        /\ \A u \in Threads \ {w} : pc'[u] = pc[u]
    BY <1>1, <1>8 DEF AcquireProcessLock, Locked, Configs, PrcInitTools, PrcLoop, PrcReadEnds,
       PrcReadPacket, Move, At,
       Goto
  <2> QED
    BY <1>1, <1>3, <1>4, <1>5, <2>1 DEF TranscodeOutcome, Stays, Transcodes
<1>9. CASE PrcInitFaults(w) \/ PrcReadFaults(w) \/ PrcDrainFaults(w)
  <2>1. /\ pc[w] \in {"prc_init", "prc_read", "prc_drain"}
        /\ UNCHANGED <<inputVars, outputVars, ctlVars, threadVars, envVars>>
    BY <1>9 DEF PrcInitFaults, PrcReadFaults, PrcDrainFaults, Crash, At
  <2>2. Filled /\ ifmt[w] = ifmt_ctx
    BY <1>4, <2>1
  <2>3. fault' = "audio_object" \/ Ruined
    BY <1>1, <1>9, <2>2 DEF PrcInitFaults, PrcReadFaults, PrcDrainFaults, Crash, Die, Ruined, Detached,
       Filled
  <2>4. (Ruined => Ruined') /\ Filled'
    BY <2>1, <2>2 DEF Ruined, Detached, Objects, Filled
  <2> QED
    BY <1>1, <1>3, <1>4, <2>1, <2>3, <2>4 DEF TranscodeOutcome, Stays, Transcodes, threadVars
<1>10. CASE PrcDrain(w)
  <2>1. /\ pc[w] = "prc_drain" /\ pc'[w] = "prc_finish" /\ fault' = fault
        /\ UNCHANGED <<inputVars, ended, ctlVars, envVars, method, ifmt, stale>>
        /\ \A u \in Threads \ {w} : pc'[u] = pc[u]
    BY <1>1, <1>10 DEF PrcDrain, Move, At, Goto
  <2> QED
    BY <1>1, <1>3, <1>4, <2>1 DEF TranscodeOutcome, Stays, Transcodes
<1>11. CASE PrcFinish(w)
  <2>1. /\ pc[w] = "prc_finish" /\ method'[w] = "none" /\ state' = "Finished"
        /\ UNCHANGED <<wrapperVars, envVars, stale>>
        /\ \A u \in Threads \ {w} : pc'[u] = pc[u] /\ method'[u] = method[u]
    BY <1>1, <1>11 DEF PrcFinish, SetState, Leave, Return, At, Goto
  <2> QED
    BY <1>1, <1>3, <1>4, <2>1 DEF TranscodeOutcome, Stays
<1> QED
  BY <1>3, <1>6, <1>7, <1>8, <1>9, <1>10, <1>11 DEF ProcessStep

-----------------------------------------------------------------------------
(* A step of any thread inside the Transcoder, and how far it brings the    *)
(* session.                                                                 *)
Progress ==
  /\ fault = "none"
  /\ fault' \in Sites \cup {"audio_object"} \/ Ruined'
  /\ \/ state' = state
     \/ /\ fault' = "none"
        /\ \/ state = "Initial" /\ state' = "SetConfig"
           \/ state = "SetConfig" /\ state' \in Accounts
           \/ state \in Accounts /\ state' = "Process"
           \/ state = "Process" /\ state' = "Finished"

LEMMA AvioIsCalled ==
  ASSUME Stage, NEW h \in Handlers, method[h] = "SetConfig"
  PROVE  rpc[h] = "called" /\ ~Untouched /\ ~Configured
<1>1. h \in Threads /\ ~Quiet(h)
  BY ThreadsAssumption DEF Quiet
<1>2. PICK w \in Threads : /\ \A t \in Threads \ {w} : Quiet(t)
                           /\ Configures(w) \/ Transcodes(w)
  BY <1>1 DEF Stage, Untouched, Configured, Over, Resting
<1>3. w = h
  BY <1>1, <1>2
<1> QED
  BY <1>1, <1>2, <1>3 DEF Configures, Transcodes, Untouched, Configured, Resting

LEMMA ErrandsKept ==
  ASSUME Errands, Script, UNCHANGED <<serverVars, clientVars, channel_list>>,
         Untouched => Untouched', Configured => Configured' /\ Verdict' = Verdict,
         \A h \in Handlers : method[h] = "SetConfig" => rpc[h] = "called",
         \A h \in Handlers : method'[h] = "SetConfig" => method[h] = "SetConfig",
         \A h \in Handlers : method[h] = "SetConfig" => method'[h] = "SetConfig" \/ Configured',
         NoHandler \notin Handlers, serving \in Handlers \cup {NoHandler}
  PROVE  Errands' /\ Script'
<1> USE DEF serverVars, clientVars
<1>1. \A h \in Handlers : /\ Errand(h)' => Errand(h)
                          /\ Errand(h) /\ ~Errand(h)' => Configured' /\ rpc[h] = "called"
  BY DEF Errand
<1>2. Errands'
  BY <1>1 DEF Errands
<1>3. script = "Setchannel" =>
       /\ Untouched'
       /\ \A h \in Handlers : Errand(h)' => rpc[h] \in {"set_push", "set_list"}
       /\ channel_list # <<>> => serving # NoHandler /\ rpc[serving] # "set_push"
  BY <1>1 DEF Script
<1>4. script = "Avio" =>
       /\ \A h \in Handlers : Errand(h)' => rpc[h] = "avio_file" \/ method'[h] = "SetConfig"
       /\ serving = NoHandler => Untouched'
       /\ serving # NoHandler /\ ~Errand(serving)' => Configured'
       /\ serving # NoHandler /\ rpc[serving] = "ready" => reply[serving] = Verdict'
  <2>1. SUFFICES ASSUME script = "Avio", NEW h \in Handlers, Errand(h)'
                 PROVE  rpc[h] = "avio_file" \/ method'[h] = "SetConfig"
    <3>1. script = "Avio" /\ serving # NoHandler /\ rpc[serving] = "ready" => Configured
      BY <1>1 DEF Script, Errand
    <3> QED
      BY <1>1, <3>1 DEF Script
  <2>2. rpc[h] = "avio_file" \/ method[h] = "SetConfig"
    BY <1>1, <2>1 DEF Script
  <2> QED
    BY <2>1, <2>2 DEF Errand
<1>5. script = "Process" =>
       /\ serving = NoHandler => Configured'
       /\ serving # NoHandler /\ rpc[serving] # "process" => started # {}
  BY DEF Script
<1> QED
  BY <1>2, <1>3, <1>4, <1>5 DEF Script

LEMMA ThreadStepInv ==
  ASSUME TypeOK, InMethod, Waiting, SessionInv, NEW t \in Threads, TranscoderStep(t),
         UNCHANGED clientVars
  PROVE  SessionInv' /\ Progress
<1>1. /\ Step(t) \/ StpWakesUp(t)
      /\ UNCHANGED <<rpc, reply, joinable, started, requests>>
      /\ UNCHANGED serverVars
  BY DEF TranscoderStep, serverVars
<1>2. /\ Stage /\ Contents /\ Errands /\ Script /\ Handlers \subseteq Threads
      /\ NoHandler \notin Handlers /\ serving \in Handlers \cup {NoHandler}
      /\ \A h \in Handlers : method[h] = "SetConfig" => rpc[h] = "called"
  BY ThreadsAssumption, NoHandlerAssumption, AvioIsCalled DEF SessionInv, Waiting
<1>3. CASE Quiet(t)
  <2>1. /\ UNCHANGED <<wrapperVars, state, ifmt, pos, stale, channel_list>>
        /\ \A u \in Threads \ {t} : pc'[u] = pc[u] /\ method'[u] = method[u]
        /\ Quiet(t)' /\ fault = "none"
    BY <1>1, <1>3, QuietStep
  <2>2. \A u \in Threads : IF Quiet(u) THEN Quiet(u)'
                           ELSE /\ pc'[u] = pc[u] /\ method'[u] = method[u]
                                /\ u \in Handlers => rpc'[u] = rpc[u]
    BY <1>1, <1>3, <2>1 DEF Quiet
  <2>3. Stage' /\ (Untouched => Untouched') /\ (Configured => Configured') /\ Verdict' = Verdict
    BY <1>1, <1>2, <2>1, <2>2, StageKept
  <2>4. Contents'
    BY <1>2, <2>1 DEF Contents, wrapperVars, inputVars, outputVars
  <2>5. \A h \in Handlers : method'[h] = "SetConfig" <=> method[h] = "SetConfig"
    BY <1>2, <1>3, <2>1 DEF Quiet
  <2>6. Errands' /\ Script'
    BY <1>1, <1>2, <2>1, <2>3, <2>5, ErrandsKept
  <2>7. Progress
    BY <2>1 DEF Progress, Sites, wrapperVars
  <2> QED
    BY <2>3, <2>4, <2>6, <2>7 DEF SessionInv
<1>4. CASE ~Quiet(t)
  <2>1. /\ \A u \in Threads \ {t} : Quiet(u)
        /\ Configures(t) \/ Transcodes(t)
        /\ ~Untouched /\ ~Configured
    BY <1>2, <1>4 DEF Stage, Untouched, Configured, Over, Resting
  <2>2. CASE Configures(t)
    <3>1. ConfigOutcome(t)
      BY <1>1, <1>2, <2>2, ConfigWorks
    <3>2. \A u \in Threads \ {t} : Quiet(u)' /\ method'[u] = method[u]
      BY <2>1, <3>1 DEF ConfigOutcome, Stays, Quiet
    <3>3. (method'[t] = "SetConfig" /\ Configures(t)') \/ (method'[t] = "none" /\ Configured')
      <4>1. SUFFICES ASSUME method'[t] = "none", state' = Verdict', Filled',
                            state' = "SetConfigFinished" => Routed'
                     PROVE  Configured'
        BY <3>1 DEF ConfigOutcome
      <4>2. Resting' /\ started' = {}
        BY <1>1, <2>2, <3>2, <4>1 DEF Resting, Quiet, Configures
      <4> QED
        BY <4>1, <4>2 DEF Configured
    <3>4. Stage'
      BY <3>2, <3>3 DEF Stage
    <3>5. Contents'
      BY <1>2, <3>1 DEF Contents, ConfigOutcome, Stays
    <3>6. Errands' /\ Script'
      <4>1. channel_list' = channel_list
        BY <3>1 DEF ConfigOutcome, Stays
      <4>2. \A h \in Handlers : method'[h] = "SetConfig" => method[h] = "SetConfig"
        BY <1>2, <2>2, <3>2 DEF Configures
      <4>3. \A h \in Handlers : method[h] = "SetConfig" => method'[h] = "SetConfig" \/ Configured'
        BY <1>2, <3>2, <3>3
      <4> QED
        BY <1>1, <1>2, <2>1, <4>1, <4>2, <4>3, ErrandsKept
    <3>7. Progress
      BY <3>1 DEF Progress, ConfigOutcome, Ruined
    <3> QED
      BY <3>4, <3>5, <3>6, <3>7 DEF SessionInv
  <2>3. CASE Transcodes(t)
    <3>1. TranscodeOutcome(t)
      BY <1>1, <1>2, <2>3, TranscodeWorks
    <3>2. \A u \in Threads \ {t} : Quiet(u)' /\ method'[u] = method[u]
      BY <2>1, <3>1 DEF TranscodeOutcome, Stays, Quiet
    <3>3. (method'[t] = "Process" /\ Transcodes(t)') \/ (method'[t] = "none" /\ Over')
      <4>1. SUFFICES ASSUME method'[t] = "none", state' = "Finished"
                     PROVE  Over'
        BY <3>1 DEF TranscodeOutcome
      <4>2. Resting' /\ started' # {}
        BY <1>1, <2>3, <3>2, <4>1 DEF Resting, Quiet, Transcodes
      <4> QED
        BY <4>1, <4>2 DEF Over
    <3>4. Stage'
      BY <3>2, <3>3 DEF Stage
    <3>5. Contents'
      BY <1>2, <3>1 DEF Contents, TranscodeOutcome, Stays
    <3>6. Errands' /\ Script'
      <4>1. channel_list' = channel_list
        BY <3>1 DEF TranscodeOutcome, Stays
      <4>2. \A h \in Handlers : method'[h] = "SetConfig" <=> method[h] = "SetConfig"
        BY <1>2, <2>3, <3>2, <3>3 DEF Transcodes
      <4> QED
        BY <1>1, <1>2, <2>1, <4>1, <4>2, ErrandsKept
    <3>7. Progress
      BY <3>1 DEF Progress, TranscodeOutcome, Sites
    <3> QED
      BY <3>4, <3>5, <3>6, <3>7 DEF SessionInv
  <2> QED
    BY <2>1, <2>2, <2>3
<1> QED
  BY <1>3, <1>4

(* The steps of a handler between two calls, and of client and operator.    *)
LEMMA HandlerAtRest ==
  ASSUME InMethod, NEW h \in Handlers, NEW l, RpcAt(h, l)
  PROVE  /\ fault = "none" /\ rpc[h] = l /\ pc[h] = "idle" /\ method[h] = "none" /\ Quiet(h)
         /\ h \in Threads
BY ThreadsAssumption, RunsAre DEF InMethod, RpcAt, Quiet

(* A step that changes nothing but where the handler h is.                  *)
LEMMA HandlerMoves ==
  ASSUME TypeOK, InMethod, SessionInv, NEW h \in Handlers, NEW l, RpcAt(h, l), UNCHANGED vars,
         started' = started, \A g \in Handlers \ {h} : rpc'[g] = rpc[g]
  PROVE  /\ Stage' /\ Contents' /\ (Untouched => Untouched') /\ (Configured => Configured')
         /\ Verdict' = Verdict
         /\ \A g \in Handlers \ {h} : Errand(g)' <=> Errand(g)
         /\ Errand(h)' <=>
              rpc'[h] \in {"set_push", "set_list", "avio_file", "process", "assign", "store"}
<1> USE DEF vars, threadVars, envVars, ctlVars
<1>1. Quiet(h) /\ method[h] = "none" /\ h \in Threads /\ Stage /\ Contents
  BY HandlerAtRest DEF SessionInv
<1>2. \A t \in Threads : IF Quiet(t) THEN Quiet(t)'
                         ELSE /\ pc'[t] = pc[t] /\ method'[t] = method[t]
                              /\ t \in Handlers => rpc'[t] = rpc[t]
  BY <1>1 DEF Quiet
<1>3. Stage' /\ (Untouched => Untouched') /\ (Configured => Configured') /\ Verdict' = Verdict
  BY <1>1, <1>2, StageKept
<1>4. Contents'
  BY <1>1 DEF Contents, wrapperVars, inputVars, outputVars
<1>5. /\ \A g \in Handlers \ {h} : Errand(g)' <=> Errand(g)
      /\ Errand(h)' <=> rpc'[h] \in {"set_push", "set_list", "avio_file", "process", "assign", "store"}
  BY <1>1 DEF Errand
<1> QED
  BY <1>3, <1>4, <1>5

LEMMA PushInv ==
  ASSUME TypeOK, InMethod, Waiting, SessionInv, rpc \in [Handlers -> RpcLocs],
         NEW h \in Handlers, NEW c \in Channels, SetchannelPush(h, c), UNCHANGED clientVars
  PROVE  SessionInv'
<1> USE DEF clientVars
<1>1. /\ rpc[h] = "set_push" /\ method[h] = "none" /\ h \in Threads /\ rpc'[h] = "set_list"
      /\ \A g \in Handlers \ {h} : rpc'[g] = rpc[g]
      /\ UNCHANGED <<reply, joinable, started, wrapperVars, ctlVars, pc, method>>
      /\ channel_list' = Append(channel_list, c)
      /\ \E moved \in BOOLEAN : stale' = [t \in Threads |-> stale[t] \/ (moved /\ pc[t] \in {"cfg_open", "cfg_output"})]
  BY HandlerAtRest DEF SetchannelPush, RpcMove, RpcGoto, AppendChannel
<1>2. Untouched /\ channel_list = <<>> /\ Contents /\ Errand(h)
      /\ \A g \in Handlers \ {h} : ~Errand(g)
  BY <1>1 DEF SessionInv, Errands, Errand
<1>3. channel_list' # <<>> /\ Len(channel_list') <= 1
  BY <1>1, <1>2
<1>4. Untouched'
  BY <1>1, <1>2 DEF Untouched, Resting, Quiet, Blank, Unbound, wrapperVars, inputVars, outputVars, ctlVars
<1>5. Contents'
  <2>1. \A t \in Threads : pc[t] \notin {"cfg_open", "cfg_output"}
    BY <1>2, PlacesOf DEF Untouched, Resting
  <2> QED
    BY <1>1, <1>2, <1>3, <2>1 DEF Contents, wrapperVars, inputVars, outputVars
<1>6. Errand(h)' /\ \A g \in Handlers \ {h} : ~Errand(g)'
  BY <1>1, <1>2 DEF Errand
<1>7. Errands'
  BY <1>1, <1>2, <1>4, <1>6 DEF SessionInv, Errands, Errand, Untouched
<1>8. Script'
  <2>1. script \in Calls => serving = h
    BY <1>2 DEF SessionInv, Errands
  <2>2. script # "Avio" /\ script # "Process"
    BY <1>1, <1>2, <2>1, NoHandlerAssumption DEF SessionInv, Script, Calls, Untouched
  <2> QED
    BY <1>1, <1>4, <1>6, <2>1, <2>2, NoHandlerAssumption DEF SessionInv, Script, Calls
<1> QED
  BY <1>4, <1>5, <1>7, <1>8 DEF SessionInv, Stage

LEMMA AvioInv ==
  ASSUME TypeOK, InMethod, Waiting, SessionInv, rpc \in [Handlers -> RpcLocs],
         NEW h \in Handlers, AvioCalls(h), UNCHANGED clientVars
  PROVE  SessionInv'
<1> USE DEF clientVars
<1>1. /\ rpc[h] = "avio_file" /\ method[h] = "none" /\ h \in Threads /\ rpc'[h] = "called"
      /\ \A g \in Handlers \ {h} : rpc'[g] = rpc[g]
      /\ UNCHANGED <<reply, joinable, started, wrapperVars, ctlVars, stale, pos, channel_list>>
      /\ method'[h] = "SetConfig" /\ pc'[h] = "cfg_announce"
      /\ \A t \in Threads \ {h} : method'[t] = method[t]
  <2>1. RpcMove(h, "avio_file", "called") /\ Call(h, "SetConfig")
    <3>1. rpc[h] # "avio_memory"
      BY DEF SessionInv, Errands
    <3> QED
      BY <3>1 DEF AvioCalls, RpcMove, RpcAt
  <2> QED
    BY <2>1, HandlerAtRest DEF TypeOK, RpcMove, RpcGoto, Call, Goto, Entry, Configs
<1>2. Untouched /\ Contents /\ Errand(h) /\ \A g \in Handlers \ {h} : ~Errand(g)
  BY <1>1 DEF SessionInv, Errands, Errand
<1>3. Configures(h)'
  BY <1>1, <1>2 DEF Configures, Untouched, Blank, Unbound, Filled, Absent, wrapperVars, inputVars,
     outputVars, ctlVars
<1>4. Stage'
  BY <1>1, <1>2, <1>3 DEF Stage, Untouched, Resting, Quiet
<1>5. Contents'
  BY <1>1, <1>2 DEF Contents, wrapperVars, inputVars, outputVars
<1>6. Errand(h)' /\ \A g \in Handlers \ {h} : ~Errand(g)'
  BY <1>1, <1>2, ThreadsAssumption DEF Errand
<1>7. Errands'
  BY <1>1, <1>2, <1>6 DEF SessionInv, Errands, Errand
<1>8. Script'
  <2>1. script \in Calls => serving = h
    BY <1>2 DEF SessionInv, Errands
  <2>2. script # "Setchannel" /\ script # "Process"
    BY <1>1, <1>2, <2>1, NoHandlerAssumption DEF SessionInv, Script, Calls, Untouched
  <2> QED
    BY <1>1, <1>6, <2>1, <2>2, NoHandlerAssumption DEF SessionInv, Script, Calls
<1> QED
  BY <1>4, <1>5, <1>7, <1>8 DEF SessionInv

LEMMA StartInv ==
  ASSUME TypeOK, InMethod, Waiting, SessionInv, rpc \in [Handlers -> RpcLocs],
         NEW h \in Handlers, NEW j \in Jobs, StartJob(h, j), UNCHANGED clientVars
  PROVE  SessionInv'
<1> USE DEF clientVars
<1>1. /\ rpc[h] = "process" /\ method[h] = "none" /\ h \in Threads /\ j \in Threads /\ rpc'[h] = "assign"
      /\ \A g \in Handlers \ {h} : rpc'[g] = rpc[g]
      /\ UNCHANGED <<reply, joinable, wrapperVars, ctlVars, stale, pos, channel_list>>
      /\ started' = started \cup {j}
      /\ method'[j] = "Process" /\ pc'[j] = "prc_getifmt"
      /\ \A t \in Threads \ {j} : method'[t] = method[t]
  BY HandlerAtRest, ThreadsAssumption DEF TypeOK, StartJob, RpcGoto, Call, Goto, Entry, Configs
<1>2. Configured /\ Contents /\ Errand(h) /\ \A g \in Handlers \ {h} : ~Errand(g)
  BY <1>1 DEF SessionInv, Errands, Errand
<1>3. Transcodes(j)' /\ started' # {}
  BY <1>1, <1>2 DEF Transcodes, Configured, Verdict, Accounts, Filled, Routed, Objects, wrapperVars,
     inputVars,
     outputVars, ctlVars
<1>4. Stage'
  BY <1>1, <1>2, <1>3 DEF Stage, Configured, Resting, Quiet
<1>5. Contents'
  BY <1>1, <1>2 DEF Contents, wrapperVars, inputVars, outputVars
<1>6. Errand(h)' /\ \A g \in Handlers \ {h} : ~Errand(g)'
  BY <1>1, <1>2, ThreadsAssumption DEF Errand
<1>7. Errands'
  <2>1. ~joinable
    BY <1>2 DEF SessionInv, Errands, Configured
  <2> QED
    BY <1>1, <1>2, <1>3, <1>6, <2>1 DEF SessionInv, Errands, Errand
<1>8. Script'
  <2>1. script \in Calls => serving = h
    BY <1>2 DEF SessionInv, Errands
  <2>2. script # "Setchannel" /\ script # "Avio"
    BY <1>1, <1>2, <2>1, NoHandlerAssumption DEF SessionInv, Script, Calls, Untouched, Configured, Verdict
  <2> QED
    BY <1>1, <1>3, <1>6, <2>1, <2>2, NoHandlerAssumption DEF SessionInv, Script, Calls
<1> QED
  BY <1>4, <1>5, <1>7, <1>8 DEF SessionInv

LEMMA StopCallInv ==
  ASSUME TypeOK, InMethod, Waiting, SessionInv, rpc \in [Handlers -> RpcLocs],
         NEW h \in Handlers, StopCalls(h), UNCHANGED clientVars
  PROVE  SessionInv'
<1> USE DEF clientVars
<1>1. /\ rpc[h] = "stop" /\ method[h] = "none" /\ h \in Threads /\ rpc'[h] = "called" /\ Quiet(h)
      /\ \A g \in Handlers \ {h} : rpc'[g] = rpc[g]
      /\ UNCHANGED <<reply, joinable, started, wrapperVars, ctlVars, stale, pos, ifmt, channel_list>>
      /\ method'[h] = "StopProcess" /\ Quiet(h)'
      /\ \A t \in Threads \ {h} : method'[t] = method[t] /\ pc'[t] = pc[t]
  BY HandlerAtRest DEF TypeOK, StopCalls, RpcMove, RpcGoto, Call, Goto, Quiet
<1>2. Stage' /\ (Untouched => Untouched') /\ (Configured => Configured') /\ Verdict' = Verdict
  <2>1. \A t \in Threads : IF Quiet(t) THEN Quiet(t)'
                           ELSE /\ pc'[t] = pc[t] /\ method'[t] = method[t]
                                /\ t \in Handlers => rpc'[t] = rpc[t]
    BY <1>1 DEF Quiet
  <2> QED
    BY <1>1, <2>1, StageKept DEF SessionInv, ctlVars
<1>3. Contents'
  BY <1>1 DEF SessionInv, Contents, wrapperVars, inputVars, outputVars
<1>4. ~Errand(h) /\ ~Errand(h)' /\ \A g \in Handlers \ {h} : Errand(g)' <=> Errand(g)
  BY <1>1, ThreadsAssumption DEF Errand
<1>5. Errands'
  BY <1>1, <1>2, <1>4 DEF SessionInv, Errands
<1>6. Script'
  BY <1>1, <1>2, <1>4, NoHandlerAssumption, ThreadsAssumption DEF SessionInv, Script, Waiting
<1> QED
  BY <1>2, <1>3, <1>5, <1>6 DEF SessionInv

(* The answer to Setchannel, of a handler that no other can have raced.     *)
LEMMA SetchannelInv ==
  ASSUME TypeOK, InMethod, Waiting, SessionInv, rpc \in [Handlers -> RpcLocs],
         NEW h \in Handlers, SetchannelReply(h), UNCHANGED clientVars
  PROVE  SessionInv'
<1> USE DEF clientVars
<1>1. /\ RpcAt(h, "set_list") /\ rpc[h] = "set_list" /\ rpc'[h] = "ready" /\ method[h] = "none"
      /\ \A g \in Handlers \ {h} : rpc'[g] = rpc[g]
      /\ UNCHANGED <<vars, joinable, started, channel_list>>
  BY HandlerAtRest DEF SetchannelReply, Answer, RpcGoto, RpcAt, vars, envVars
<1>2. Untouched /\ Errand(h) /\ \A g \in Handlers \ {h} : ~Errand(g)
  BY <1>1 DEF SessionInv, Errands, Errand
<1>3. /\ Stage' /\ Contents' /\ Untouched'
      /\ \A g \in Handlers : ~Errand(g)'
  BY <1>1, <1>2, HandlerMoves
<1>4. Errands'
  BY <1>1, <1>3 DEF SessionInv, Errands, Errand
<1>5. Script'
  <2>1. script \in Calls => serving = h
    BY <1>2 DEF SessionInv, Errands
  <2>2. script # "Avio" /\ script # "Process"
    BY <1>1, <1>2, <2>1, NoHandlerAssumption DEF SessionInv, Script, Calls, Untouched
  <2> QED
    BY <1>1, <1>3, <2>1, <2>2, NoHandlerAssumption DEF SessionInv, Script, Calls
<1> QED
  BY <1>3, <1>4, <1>5 DEF SessionInv

(* What the handler answers from the status: for the client that is at Avio *)
(* the outcome of its configuration.                                        *)
LEMMA ReplyInv ==
  ASSUME TypeOK, InMethod, Waiting, SessionInv, rpc \in [Handlers -> RpcLocs],
         reply \in [Handlers -> StateNames \cup Channels \cup {"none"}],
         NEW h \in Handlers, ReplyState(h), UNCHANGED clientVars
  PROVE  SessionInv'
<1> USE DEF clientVars
<1>1. /\ rpc[h] = "called" /\ method[h] = "none" /\ h \in Threads /\ Quiet(h)
      /\ rpc'[h] = "ready" /\ reply'[h] = state
      /\ \A g \in Handlers \ {h} : rpc'[g] = rpc[g] /\ reply'[g] = reply[g]
      /\ UNCHANGED <<joinable, started, wrapperVars, ctlVars, pc, method, ifmt, pos, stale, channel_list>>
  BY HandlerAtRest DEF ReplyState, RpcAt, Answer, RpcGoto, envVars
<1>2. Stage' /\ (Untouched => Untouched') /\ (Configured => Configured') /\ Verdict' = Verdict
  <2>1. \A t \in Threads : IF Quiet(t) THEN Quiet(t)'
                           ELSE /\ pc'[t] = pc[t] /\ method'[t] = method[t]
                                /\ t \in Handlers => rpc'[t] = rpc[t]
    BY <1>1 DEF Quiet
  <2> QED
    BY <1>1, <2>1, StageKept DEF SessionInv, ctlVars
<1>3. Contents'
  BY <1>1 DEF SessionInv, Contents, wrapperVars, inputVars, outputVars
<1>4. ~Errand(h) /\ ~Errand(h)' /\ \A g \in Handlers \ {h} : Errand(g)' <=> Errand(g)
  BY <1>1 DEF Errand
<1>5. Errands'
  BY <1>1, <1>2, <1>4 DEF SessionInv, Errands
<1>6. Script'
  <2>1. script = "Avio" /\ serving = h => reply'[h] = Verdict
    BY <1>1, <1>4, NoHandlerAssumption DEF SessionInv, Script, Configured
  <2> QED
    BY <1>1, <1>2, <1>4, <2>1, NoHandlerAssumption DEF SessionInv, Script, Waiting
<1> QED
  BY <1>2, <1>3, <1>5, <1>6 DEF SessionInv

(* The thread of the transcode goes into _tranprocess, which is empty.      *)
LEMMA KeepJobInv ==
  ASSUME TypeOK, InMethod, Waiting, SessionInv, rpc \in [Handlers -> RpcLocs],
         NEW h \in Handlers, AssignJob(h) \/ StoreJob(h), UNCHANGED clientVars
  PROVE  SessionInv'
<1> USE DEF clientVars
<1>1. PICK l \in {"assign", "store"} :
         /\ RpcAt(h, l) /\ rpc[h] = l /\ UNCHANGED <<vars, started, channel_list>>
         /\ \A g \in Handlers \ {h} : rpc'[g] = rpc[g]
         /\ \/ l = "assign" /\ rpc'[h] = "store" /\ joinable' = joinable
            \/ l = "store" /\ rpc'[h] = "called"
  BY DEF AssignJob, StoreJob, RpcMove, RpcGoto, RpcAt, vars, envVars
<1>2. started # {} /\ ~joinable /\ Errand(h) /\ \A g \in Handlers \ {h} : ~Errand(g)
  BY <1>1 DEF SessionInv, Errands, Errand
<1>3. /\ Stage' /\ Contents' /\ \A g \in Handlers \ {h} : ~Errand(g)'
      /\ Errand(h)' <=> rpc'[h] = "store"
  <2>1. /\ Stage' /\ Contents' /\ \A g \in Handlers \ {h} : Errand(g)' <=> Errand(g)
        /\ Errand(h)' <=>
              rpc'[h] \in {"set_push", "set_list", "avio_file", "process", "assign", "store"}
    BY <1>1, HandlerMoves
  <2> QED
    BY <1>1, <1>2, <2>1
<1>4. Errands'
  BY <1>1, <1>2, <1>3 DEF SessionInv, Errands, Errand
<1>5. Script'
  <2>1. script \in Calls => serving = h
    BY <1>2 DEF SessionInv, Errands
  <2>2. script # "Setchannel" /\ script # "Avio"
    BY <1>1, <1>2, <2>1, NoHandlerAssumption, HandlerAtRest DEF SessionInv, Script, Calls, Untouched
  <2> QED
    BY <1>1, <1>2, <1>3, <2>1, <2>2, NoHandlerAssumption DEF SessionInv, Script, Calls
<1> QED
  BY <1>3, <1>4, <1>5 DEF SessionInv

(* Every step of a handler: none of them dies, and none announces.          *)
LEMMA HandlerStepInv ==
  ASSUME TypeOK, InMethod, Waiting, SessionInv, rpc \in [Handlers -> RpcLocs],
         reply \in [Handlers -> StateNames \cup Channels \cup {"none"}],
         NEW h \in Handlers, RpcStep(h), UNCHANGED clientVars
  PROVE  SessionInv' /\ state' = state /\ fault' = fault
<1>1. ~SetchannelRaces(h)
  BY DEF SetchannelRaces, SessionInv, Errands, Errand
<1>2. ~AssignTerminates(h)
  BY DEF AssignTerminates, RpcAt, SessionInv, Errands
<1>3. ~StoreTerminates(h)
  BY DEF StoreTerminates, RpcAt, SessionInv, Errands
<1>4. SessionInv'
  BY <1>1, <1>2, <1>3, PushInv, SetchannelInv, AvioInv, StopCallInv, ReplyInv, StartInv,
     KeepJobInv DEF RpcStep
<1>5. state' = state /\ fault' = fault
  BY <1>1, <1>2, <1>3 DEF RpcStep, SetchannelPush, SetchannelReply, AvioCalls, StopCalls, ReplyState,
     StartJob,
     AssignJob, StoreJob, AppendChannel, Call, ctlVars, wrapperVars, vars
<1> QED
  BY <1>4, <1>5

(* The client makes its next call: nothing of its own is under way.         *)
LEMMA ClientCallsInv ==
  ASSUME TypeOK, InMethod, Waiting, SessionInv, rpc \in [Handlers -> RpcLocs],
         NEW h \in Handlers, ClientCalls(h)
  PROVE  SessionInv'
<1>1. /\ RpcAt(h, "ready") /\ script \in Calls /\ serving = NoHandler /\ serving' = h
      /\ script' = script /\ runs' = runs /\ rpc'[h] = RequestOf(script)
      /\ \A g \in Handlers \ {h} : rpc'[g] = rpc[g]
      /\ UNCHANGED <<vars, joinable, started, channel_list>>
  BY DEF ClientCalls, Request, RpcGoto, vars, envVars
<1>2. \A g \in Handlers : ~Errand(g)
  BY <1>1, NoHandlerAssumption DEF SessionInv, Errands
<1>3. RequestOf(script) \in {"set_push", "avio_file", "process"}
  BY <1>1, ClientCallsAre DEF Calls
<1>4. /\ Stage' /\ Contents' /\ (Untouched => Untouched') /\ (Configured => Configured')
      /\ \A g \in Handlers \ {h} : ~Errand(g)'
      /\ Errand(h)'
  <2>1. /\ Stage' /\ Contents' /\ (Untouched => Untouched') /\ (Configured => Configured')
        /\ \A g \in Handlers \ {h} : Errand(g)' <=> Errand(g)
        /\ Errand(h)' <=>
              rpc'[h] \in {"set_push", "set_list", "avio_file", "process", "assign", "store"}
    BY <1>1, HandlerMoves
  <2> QED
    BY <1>1, <1>2, <1>3, <2>1
<1>5. CASE script = "Setchannel"
  <2>1. rpc'[h] = "set_push" /\ Untouched' /\ channel_list' = <<>>
    BY <1>1, <1>4, <1>5, ClientCallsAre DEF SessionInv, Script
  <2>2. Errands'
    BY <1>1, <1>2, <1>4, <2>1 DEF SessionInv, Errands, Errand
  <2>3. Script'
    BY <1>1, <1>4, <1>5, <2>1 DEF SessionInv, Script
  <2> QED
    BY <1>4, <2>2, <2>3 DEF SessionInv
<1>6. CASE script = "Avio"
  <2>1. rpc'[h] = "avio_file" /\ Untouched'
    BY <1>1, <1>4, <1>6, ClientCallsAre DEF SessionInv, Script
  <2>2. Errands'
    BY <1>1, <1>2, <1>4, <2>1 DEF SessionInv, Errands, Errand
  <2>3. Script'
    BY <1>1, <1>4, <1>6, <2>1 DEF SessionInv, Script
  <2> QED
    BY <1>4, <2>2, <2>3 DEF SessionInv
<1>7. CASE script = "Process"
  <2>1. rpc'[h] = "process" /\ Configured'
    BY <1>1, <1>4, <1>7, ClientCallsAre DEF SessionInv, Script
  <2>2. Errands'
    BY <1>1, <1>2, <1>4, <2>1 DEF SessionInv, Errands, Errand
  <2>3. Script'
    BY <1>1, <1>4, <1>7, <2>1 DEF SessionInv, Script
  <2> QED
    BY <1>4, <2>2, <2>3 DEF SessionInv
<1> QED
  BY <1>1, <1>5, <1>6, <1>7 DEF Calls

(* The operator asks; it may be the handler that served the client.         *)
LEMMA OperatorInv ==
  ASSUME TypeOK, InMethod, Waiting, SessionInv, rpc \in [Handlers -> RpcLocs],
         NEW h \in Handlers, OperatorAsks(h)
  PROVE  SessionInv'
<1>1. /\ RpcAt(h, "ready") /\ rpc[h] = "ready" /\ UNCHANGED clientVars /\ rpc'[h] \in {"called", "stop"}
      /\ \A g \in Handlers \ {h} : rpc'[g] = rpc[g] /\ reply'[g] = reply[g]
      /\ UNCHANGED <<vars, joinable, started, channel_list>>
  <2>1. PICK r \in OperatorMay : Request(h, r) /\ UNCHANGED clientVars
    BY DEF OperatorAsks
  <2>2. reply' = [reply EXCEPT ![h] = "none"]
    BY <2>1 DEF Request
  <2> QED
    BY <2>1, <2>2, OperatorAssumption DEF Request, RpcGoto, RpcAt, vars, envVars
<1>2. /\ Stage' /\ Contents' /\ (Untouched => Untouched') /\ (Configured => Configured')
      /\ \A g \in Handlers : Errand(g)' <=> Errand(g)
      /\ ~Errand(h)' /\ Verdict' = Verdict
  <2>1. /\ Stage' /\ Contents' /\ (Untouched => Untouched') /\ (Configured => Configured')
        /\ Verdict' = Verdict
        /\ \A g \in Handlers \ {h} : Errand(g)' <=> Errand(g)
        /\ ~Errand(h)'
    BY <1>1, HandlerMoves
  <2>2. ~Errand(h)
    BY <1>1, HandlerAtRest DEF Errand
  <2> QED
    BY <2>1, <2>2
<1>3. Errands'
  BY <1>1, <1>2 DEF SessionInv, Errands, clientVars
<1>4. Script'
  <2>1. script' = script /\ serving' = serving /\ runs' = runs
    BY <1>1 DEF clientVars
  <2>2. ASSUME serving # NoHandler
        PROVE  /\ serving \in Handlers
               /\ rpc'[serving] = rpc[serving] \/ serving = h
               /\ rpc'[serving] = "ready" => rpc[serving] = "ready" /\ reply'[serving] = reply[serving]
    BY <1>1, <2>2 DEF Waiting
  <2>3. \A g \in Handlers : Errand(g) => g # h /\ rpc'[g] = rpc[g]
    BY <1>1, <1>2
  <2>4. \A g \in Handlers : (method'[g] = "SetConfig") = (method[g] = "SetConfig")
    BY <1>1 DEF vars, threadVars
  <2>5. CASE script = "Setchannel"
    BY <1>1, <1>2, <2>1, <2>2, <2>3, <2>4, <2>5 DEF SessionInv, Script
  <2>6. CASE script = "Avio"
    BY <1>1, <1>2, <2>1, <2>2, <2>3, <2>4, <2>6 DEF SessionInv, Script
  <2>7. CASE script \notin {"Setchannel", "Avio"}
    BY <1>1, <1>2, <2>1, <2>2, <2>7 DEF SessionInv, Script
  <2> QED
    BY <2>5, <2>6, <2>7
<1> QED
  BY <1>2, <1>3, <1>4 DEF SessionInv

(* The client gets its answer, gives up, or would start again: once it has  *)
(* had the one start that the bound allows it does not.                     *)
LEMMA ClientMovesInv ==
  ASSUME TypeOK, InMethod, Waiting, SessionInv, MaxRuns <= 1,
         ClientReturns \/ ClientFails \/ ClientRestarts
  PROVE  SessionInv'
<1>1. ~ClientRestarts
  BY MaxRunsAssumption DEF ClientRestarts, SessionInv, Script, Waiting
<1>2. UNCHANGED <<allVars, channel_list>> /\ serving' = NoHandler /\ runs' = runs
  BY <1>1 DEF ClientReturns, ClientFails, allVars, vars, envVars
<1> USE DEF allVars, serverVars
<1>3. /\ Stage' /\ Contents' /\ (Untouched <=> Untouched') /\ (Configured <=> Configured')
      /\ \A g \in Handlers : Errand(g)' <=> Errand(g)
  <2> USE <1>2 DEF vars, threadVars, envVars, ctlVars, wrapperVars, inputVars, outputVars
  <2>1. /\ (Untouched <=> Untouched') /\ (Configured <=> Configured') /\ (Over <=> Over')
    BY DEF Untouched, Configured, Over, Resting, Quiet, Blank, Unbound, Filled, Routed, Objects,
       Verdict, Accepted
  <2>2. \A w \in Threads : (Configures(w) <=> Configures(w)') /\ (Transcodes(w) <=> Transcodes(w)')
                           /\ (Quiet(w) <=> Quiet(w)')
    BY DEF Configures, Transcodes, Quiet, Blank, Unbound, Filled, Routed, Objects, Accepted
  <2>3. Stage'
    BY <2>1, <2>2 DEF SessionInv, Stage
  <2>4. Contents' /\ \A g \in Handlers : Errand(g)' <=> Errand(g)
    BY DEF SessionInv, Contents, Errand
  <2> QED
    BY <2>1, <2>3, <2>4
<1>4. CASE ClientFails
  <2>1. Errands'
    BY <1>2, <1>3, <1>4 DEF ClientFails, SessionInv, Errands, Calls
  <2>2. Script'
    BY <1>2, <1>3, <1>4 DEF ClientFails, SessionInv, Script
  <2> QED
    BY <1>3, <2>1, <2>2 DEF SessionInv
<1>5. CASE ClientReturns
  <2>1. /\ serving \in Handlers /\ rpc[serving] = "ready" /\ script \in Calls /\ script' = After(script)
        /\ serving # NoHandler
    BY <1>5 DEF ClientReturns, Waiting
  <2>2. \A g \in Handlers : ~Errand(g)
    <3>1. ~Errand(serving)
      <4>1. method[serving] # "SetConfig"
        BY <2>1, AvioIsCalled DEF SessionInv
      <4> QED
        BY <2>1, <4>1 DEF Errand
    <3> QED
      BY <2>1, <3>1 DEF SessionInv, Errands
  <2>3. Errands'
    BY <1>2, <1>3, <2>2 DEF SessionInv, Errands
  <2>4. Script'
    <3>1. script = "Setchannel" => script' = "Avio" /\ Untouched'
      BY <1>3, <2>1, ClientCallsAre DEF SessionInv, Script
    <3>2. script = "Avio" => script' = "Process" /\ Configured'
      BY <1>3, <2>1, <2>2, ClientCallsAre DEF SessionInv, Script
    <3>3. script = "Process" => script' = "done"
      BY <2>1, ClientCallsAre
    <3> QED
      BY <1>2, <1>3, <2>1, <2>2, <3>1, <3>2, <3>3 DEF SessionInv, Script, Calls
  <2> QED
    BY <1>3, <2>3, <2>4 DEF SessionInv
<1> QED
  BY <1>1, <1>4, <1>5

-----------------------------------------------------------------------------
(* One run of the client, from beginning to end.                            *)
OneRun == ServerInv /\ Waiting /\ SessionInv

LEMMA OneRunInit == SystemInit => OneRun
<1> SUFFICES ASSUME SystemInit PROVE OneRun
  OBVIOUS
<1>1. ServerInv /\ Waiting
  BY ServerInitInv DEF SystemInit, Waiting, Calls
<1> USE DEF SystemInit, ServerInit, Init, WrapperInit
<1>2. Untouched
  BY DEF Untouched, Resting, Quiet, Blank, Unbound, Absent
<1>3. Contents
  BY DEF Contents
<1>4. \A h \in Handlers : ~Errand(h)
  BY ThreadsAssumption DEF Errand
<1>5. Errands
  BY <1>4 DEF Errands
<1>6. Script
  BY <1>2, <1>4 DEF Script
<1> QED
  BY <1>1, <1>2, <1>3, <1>5, <1>6 DEF OneRun, SessionInv, Stage

(* Only a thread inside the Transcoder moves the status or dies.            *)
Steady == fault = "none" /\ UNCHANGED <<state, fault>>

LEMMA OneRunStep ==
  ASSUME MaxRuns <= 1, OneRun, [SystemNext]_systemVars
  PROVE  OneRun' /\ (Progress \/ Steady \/ UNCHANGED vars)
<1>1. /\ TypeOK /\ InMethod /\ Waiting /\ SessionInv
      /\ rpc \in [Handlers -> RpcLocs]
      /\ reply \in [Handlers -> StateNames \cup Channels \cup {"none"}]
  BY DEF OneRun, ServerInv, ServerTypeOK
<1>2. ServerInv' /\ Waiting'
  BY SystemStepIsServerStep, ServerNextInv, WaitingStep DEF OneRun
<1>3. ASSUME NEW h \in Handlers, RpcStep(h), UNCHANGED clientVars
      PROVE  SessionInv' /\ (Steady \/ UNCHANGED vars)
  <2>1. SessionInv' /\ state' = state /\ fault' = fault
    BY <1>1, <1>3, HandlerStepInv
  <2>2. fault = "none"
    BY <1>3 DEF RpcStep, SetchannelPush, SetchannelReply, SetchannelRaces, AvioCalls, StopCalls, ReplyState,
       StartJob, AssignJob, AssignTerminates, StoreJob, StoreTerminates, RpcMove, RpcAt, CallerDies
  <2> QED
    BY <2>1, <2>2 DEF Steady
<1>4. ASSUME NEW t \in Threads, TranscoderStep(t), UNCHANGED clientVars
      PROVE  SessionInv' /\ Progress
  BY <1>1, <1>4, ThreadStepInv
<1>5. ASSUME NEW h \in Handlers, ClientCalls(h)
      PROVE  SessionInv' /\ UNCHANGED vars
  BY <1>1, <1>5, ClientCallsInv DEF ClientCalls, Request
<1>6. ASSUME NEW h \in Handlers, OperatorAsks(h)
      PROVE  SessionInv' /\ UNCHANGED vars
  BY <1>1, <1>6, OperatorInv DEF OperatorAsks, Request
<1>7. CASE ClientReturns \/ ClientFails \/ ClientRestarts
  BY <1>1, <1>2, <1>7, ClientMovesInv DEF OneRun, ClientReturns, ClientFails, ClientRestarts, allVars
<1>8. CASE UNCHANGED systemVars
  <2> USE DEF systemVars, allVars, clientVars, vars, serverVars, wrapperVars, inputVars, outputVars,
              ctlVars, threadVars, envVars
  <2>1. SessionInv'
    <3>1. /\ (Untouched' <=> Untouched) /\ (Configured' <=> Configured) /\ (Over' <=> Over)
          /\ Verdict' = Verdict
      BY <1>8 DEF Untouched, Configured, Over, Verdict, Accepted, Blank, Unbound, Filled, Routed,
         Objects, Resting, Quiet
    <3>2. ASSUME NEW t \in Threads
          PROVE  /\ Quiet(t)' <=> Quiet(t)
                 /\ Configures(t)' <=> Configures(t)
                 /\ Transcodes(t)' <=> Transcodes(t)
      <4>1. Quiet(t)' <=> Quiet(t)
        BY <1>8 DEF Quiet
      <4>2. Configures(t)' <=> Configures(t)
        BY <1>8 DEF Configures, Blank, Unbound, Filled, Routed, Objects, Accepted
      <4>3. Transcodes(t)' <=> Transcodes(t)
        BY <1>8 DEF Transcodes, Blank, Unbound, Filled, Routed, Objects
      <4> QED
        BY <4>1, <4>2, <4>3
    <3> USE DEF SessionInv
    <3>3. Stage'
      <4>1. CASE Untouched \/ Configured \/ Over
        BY <3>1, <4>1 DEF Stage
      <4>2. ASSUME NEW w \in Threads, \A t \in Threads \ {w} : Quiet(t), Configures(w) \/ Transcodes(w)
            PROVE  Stage'
        <5>1. \A t \in Threads \ {w} : Quiet(t)'
          BY <3>2, <4>2
        <5>2. Configures(w)' \/ Transcodes(w)'
          BY <3>2, <4>2
        <5> QED
          BY <5>1, <5>2 DEF Stage
      <4> QED
        BY <1>1, <4>1, <4>2 DEF Stage
    <3>4. Contents'
      BY <1>1, <1>8 DEF Contents
    <3>5. Errands'
      BY <1>1, <1>8, <3>1 DEF Errands, Errand
    <3>6. Script'
      BY <1>1, <1>8, <3>1 DEF Script, Errand
    <3> QED
      BY <3>3, <3>4, <3>5, <3>6
  <2> QED
    BY <1>2, <1>8, <2>1 DEF OneRun, systemVars, allVars
<1>9. ASSUME NEW t \in Threads
      PROVE  ~ReadsUnmapped(t)
  BY <1>1 DEF ReadsUnmapped, SessionInv, Contents
<1>10. CASE SystemNext
  BY <1>2, <1>3, <1>4, <1>5, <1>6, <1>7, <1>9, <1>10 DEF SystemNext, ServerStep, OneRun
<1> QED
  BY <1>8, <1>10

LEMMA OneRunInvariant ==
  ASSUME MaxRuns <= 1
  PROVE  SystemSpec => []OneRun
<1>1. OneRun /\ [SystemNext]_systemVars => OneRun'
  BY OneRunStep
<1> QED
  BY <1>1, OneRunInit, PTL DEF SystemSpec

(* One run of the client: while the loop of a transcode runs the status is  *)
(* Process, whatever the operator asks and wherever the deadline cuts in,   *)
(* so that a Stop is accepted.                                              *)
THEOREM StoppableLoop == MaxRuns <= 1 => (SystemSpec => []LoopIsStoppable)
<1> SUFFICES ASSUME MaxRuns <= 1 PROVE SystemSpec => []LoopIsStoppable
  OBVIOUS
<1>1. OneRun => LoopIsStoppable
  <2> SUFFICES ASSUME OneRun, NEW t \in Threads,
                      pc[t] \in {"prc_init", "prc_loop", "prc_read", "prc_drain"}
               PROVE  state = "Process"
    BY DEF LoopIsStoppable
  <2>1. method[t] = "Process" /\ ~Quiet(t)
    BY PlacesOf DEF OneRun, ServerInv, ServerTypeOK, ProcessLocs, Quiet
  <2>2. Transcodes(t)
    BY <2>1 DEF OneRun, SessionInv, Stage, Untouched, Configured, Over, Resting, Configures
  <2> QED
    BY <2>2 DEF Transcodes
<1> QED
  BY <1>1, OneRunInvariant, PTL

(* One run of the client: the status that answers its Avio is the outcome   *)
(* of the configuration that this Avio made: finished if and only if the    *)
(* input is open and every channel of the list has its output.              *)
THEOREM TruthfulAnswer == MaxRuns <= 1 => (SystemSpec => []AvioAnswerTruthful)
<1> SUFFICES ASSUME MaxRuns <= 1 PROVE SystemSpec => []AvioAnswerTruthful
  OBVIOUS
<1>1. OneRun => AvioAnswerTruthful
  BY DEF OneRun, SessionInv, Script, AvioAnswerTruthful, Verdict
<1> QED
  BY <1>1, OneRunInvariant, PTL

(* One run of the client: a configuration that the status reports accepted  *)
(* has an object for every stream of the channel, with a decoder, an input  *)
(* to read from and a listed output to write to.                            *)
THEOREM ChannelRouted == MaxRuns <= 1 => (SystemSpec => []AcceptedChannelRouted)
<1> SUFFICES ASSUME MaxRuns <= 1 PROVE SystemSpec => []AcceptedChannelRouted
  OBVIOUS
<1>1. OneRun => AcceptedChannelRouted
  <2> SUFFICES ASSUME OneRun, state = "SetConfigFinished" PROVE Routed
    BY DEF AcceptedChannelRouted, Routed
  <2> QED
    BY DEF OneRun, SessionInv, Stage, Untouched, Configured, Over, Configures, Transcodes
<1> QED
  BY <1>1, OneRunInvariant, PTL

(* One run of the client: but for what cannot be allocated and an audio     *)
(* object that cannot cope, the server dies of what a rejected              *)
(* configuration has left behind, and of nothing else.                      *)
THEOREM RejectionKills ==
  MaxRuns <= 1 /\ AllHaveVideo => (SystemSpec => []DeathNeedsRejection)
<1> SUFFICES ASSUME MaxRuns <= 1, AllHaveVideo PROVE SystemSpec => []DeathNeedsRejection
  OBVIOUS
<1>1. SystemInit => DeathNeedsRejection
  BY DEF SystemInit, ServerInit, Init, WrapperInit, DeathNeedsRejection
<1>2. DeathNeedsRejection /\ OneRun /\ [SystemNext]_systemVars => DeathNeedsRejection'
  <2> SUFFICES ASSUME DeathNeedsRejection, OneRun, [SystemNext]_systemVars
               PROVE  DeathNeedsRejection'
    OBVIOUS
  <2>1. CASE Progress
    BY <2>1 DEF Progress, Sites, Ruined, DeathNeedsRejection
  <2>2. CASE Steady
    BY <2>2 DEF Steady, DeathNeedsRejection
  <2>3. CASE UNCHANGED vars
    BY <2>3 DEF vars, wrapperVars, inputVars, outputVars, DeathNeedsRejection, Objects, Detached
  <2> QED
    BY <2>1, <2>2, <2>3, OneRunStep
<1> QED
  BY <1>1, <1>2, OneRunInvariant, PTL DEF SystemSpec

(* One run of the client implements the state machine of Lifecycle: the     *)
(* statuses come in the order of a session, and none after the server died. *)
THEOREM SystemIsSession == MaxRuns <= 1 => (SystemSpec => Session!Safety)
<1> SUFFICES ASSUME MaxRuns <= 1 PROVE SystemSpec => Session!Safety
  OBVIOUS
<1>1. SystemInit => Session!Init
  BY DEF SystemInit, ServerInit, Init, WrapperInit, Session!Init
<1>2. OneRun /\ [SystemNext]_systemVars => [Session!Next]_(Session!vars)
  <2> SUFFICES ASSUME OneRun, [SystemNext]_systemVars
               PROVE  [Session!Next]_(Session!vars)
    OBVIOUS
  <2>1. CASE Progress
    <3> USE DEF Session!Next, Session!Configure, Session!Accept, Session!Reject, Session!Start,
                Session!Finish, Session!Perish, Session!Becomes, Session!vars
    <3>1. CASE fault' # "none"
      BY <2>1, <3>1 DEF Progress
    <3>2. CASE fault' = "none"
      BY <2>1, <3>2 DEF Progress, Accounts
    <3> QED
      BY <3>1, <3>2
  <2>2. CASE Steady \/ UNCHANGED vars
    BY <2>2 DEF Steady, vars, wrapperVars, ctlVars, Session!vars
  <2> QED
    BY <2>1, <2>2, OneRunStep
<1> QED
  BY <1>1, <1>2, OneRunInvariant, PTL DEF SystemSpec, Session!Safety

-----------------------------------------------------------------------------
(***************************************************************************)
(* Any number of runs, of a client that asks for the same streams each     *)
(* time, against a server that wants for nothing: requests that a run gave *)
(* up are still served when the next one makes its own.                    *)
(***************************************************************************)
SameStreams == \A c, d \in Channels : Selects[c] = Selects[d]
Unfailing   == /\ Failures = {} /\ SameStreams
               /\ \A c \in Channels : HasVideo(c) /\ Foreign(c) = {}

Second == \E i, j \in started : i # j

(* Nothing is ever freed; what is opened has a decoder for every stream.    *)
Intact == /\ memory = {} /\ ended = {}
          /\ ifmt_ctx \in inputs \cup {NoCtx}
          /\ \A s \in Objects : ~Detached(s)
Opened == ifmt_ctx \in inputs

(* Where threads are, and what is there when they are there.                *)
Placed ==
  /\ \A t \in Threads : pos[t] >= 1
  /\ \A h \in Handlers :
       /\ method[h] \in {"none", "SetConfig", "StopProcess"}
       /\ method[h] = "SetConfig" => /\ channel_list # <<>>
                                     /\ pc[h] \notin {"cfg_reject", "cfg_rejected"}
       /\ pc[h] \in {"cfg_output", "cfg_accept"} =>
            Opened /\ \A c \in Channels : {ifmt_ctx} \X Selects[c] \subseteq decoders
  /\ \A j \in Jobs :
       /\ method[j] \in {"none", "Process"}
       /\ method[j] = "Process" => j \in started
       /\ method[j] = "Process" /\ pc[j] # "prc_getifmt" => ifmt[j] = ifmt_ctx
  /\ started # {} => Opened

(* A stream object is reset by a job that is over but for its announcement; *)
(* every handler with a thread to hand over, and _tranprocess when it owns  *)
(* one, has had a job of its own; what kills the server takes two jobs.     *)
Jobbed ==
  /\ (\E s \in Streams : pidObject[s].is = "null") =>
       \E j \in started : pc[j] \in {"prc_finish", "idle"}
  /\ \A h \in Handlers : rpc[h] \in {"assign", "store"} =>
       /\ started # {}
       /\ joinable => Second
       /\ \A g \in Handlers \ {h} : rpc[g] \in {"assign", "store"} => Second
  /\ joinable => started # {}
  /\ fault \in {"none", "stale_iterator"} \/ Second
  /\ IsFiniteSet(started)

(* What the requests under way, and the client's, may count on.             *)
Counted ==
  /\ \A h \in Handlers : /\ rpc[h] # "avio_memory"
                         /\ method[h] = "SetConfig" => rpc[h] = "called"
                         /\ rpc[h] = "avio_file" => channel_list # <<>>
                         /\ rpc[h] = "process" => Opened
  /\ script = "Setchannel" /\ serving # NoHandler /\ rpc[serving] # "set_push" =>
       channel_list # <<>>
  /\ script \in {"Avio", "Process"} => channel_list # <<>>
  /\ script = "Avio" /\ serving # NoHandler /\ rpc[serving] # "avio_file"
                     /\ method[serving] # "SetConfig" => Opened
  /\ script = "Process" => Opened

RerunInv == Intact /\ Placed /\ Jobbed /\ Counted

(* What any step of a thread inside the Transcoder does to this.            *)
Voided == \E s \in Streams : pidObject[s].is = "null"

Advances(t) ==
  /\ \A u \in Threads \ {t} : pc'[u] = pc[u] /\ method'[u] = method[u] /\ ifmt'[u] = ifmt[u]
  /\ channel_list' = channel_list
  /\ Intact' /\ (Opened => Opened' /\ ifmt_ctx' = ifmt_ctx) /\ decoders \subseteq decoders'
  /\ \A u \in Threads : pos'[u] >= 1
  /\ fault' \in {"none", "stale_iterator"} \/ Second
  /\ Voided' => Voided \/ (t \in started /\ pc'[t] = "prc_finish")
  /\ t \in started /\ pc[t] = "prc_finish" => pc'[t] = "idle"

LEMMA StepOf ==
  ASSUME TypeOK, InMethod, NEW t \in Threads, Step(t) \/ StpWakesUp(t)
  PROVE  /\ fault = "none" /\ pc[t] # "idle" /\ method[t] # "none"
         /\ method[t] = "SetConfig" => AcquireProcessLock(t) \/ ConfigStep(t)
         /\ method[t] = "Process" => AcquireProcessLock(t) \/ ProcessStep(t)
<1>1. pc[t] \in Locs /\ method[t] \in Runs(pc[t])
  BY DEF TypeOK, InMethod
<1>2. fault = "none" /\ pc[t] # "idle"
  BY DEF Step, StpWakesUp, AcquireProcessLock, ConfigStep, CfgAnnounce, CfgAlloc, CfgAllocFails,
     CfgOpen, CfgOpenFails, CfgOutput, CfgOutputFails, CfgOpenFaults, CfgIteratorFault, CfgOutputsDone,
     CfgAccept,
     CfgReject, CfgRejected, ProcessStep, PrcGetIfmt, PrcAnnounce, PrcInitTools, PrcInitFaults,
     PrcLoop, PrcReadEnds, PrcReadPacket, PrcReadFaults, PrcDrain, PrcDrainFaults, PrcFinish,
     StopStep, StpRefused, StpAccepted, StpArm, CleanStep, ClnReset, ClnWipe, WalkStep, EndWrite,
     EndWriteFaults, OutputAmount, OutputAmountFaults, Move, Leave, Crash, At, Iterates
<1>3. method[t] # "none"
  BY <1>1, <1>2, RunsAre DEF Locs, ConfigLocs, OtherLocs, Configs
<1>4. method[t] \in {"SetConfig", "Process"} => ~StopStep(t) /\ ~StpWakesUp(t) /\ ~CleanStep(t) /\ ~WalkStep(t)
  BY <1>1, RunsAre DEF StopStep, StpRefused, StpAccepted, StpArm, StpWakesUp, CleanStep, ClnReset,
     ClnWipe, WalkStep, EndWrite, EndWriteFaults, OutputAmount, OutputAmountFaults, Move, Leave, Crash, At
<1>5. method[t] = "SetConfig" => ~ProcessStep(t)
  BY PlacesOf DEF ProcessStep, PrcGetIfmt, PrcAnnounce, PrcInitTools, PrcInitFaults,
     PrcLoop, PrcReadEnds, PrcReadPacket, PrcReadFaults, PrcDrain, PrcDrainFaults, PrcFinish, ProcessLocs,
     Move, Leave, Crash, At
<1>6. method[t] = "Process" => ~ConfigStep(t)
  BY PlacesOf DEF ConfigStep, CfgAnnounce, CfgAlloc, CfgAllocFails, CfgOpen, CfgOpenFails, CfgOutput,
     CfgOutputFails, CfgOpenFaults, CfgIteratorFault, CfgOutputsDone, CfgAccept, CfgReject,
     CfgRejected, ProcessLocs,
     Move, Leave, Crash, At, Iterates
<1> QED
  BY <1>2, <1>3, <1>4, <1>5, <1>6 DEF Step

(* A configuration: nothing fails, so that it finds every stream it wants.  *)
LEMMA WantedIsAll ==
  ASSUME SameStreams, NEW list \in Seq(Channels), list # <<>>, NEW c \in Channels
  PROVE  Selects[c] \subseteq Wanted(list)
<1>1. 1 \in DOMAIN list /\ list[1] \in Channels
  <2>1. Len(list) \in Nat /\ Len(list) # 0
    OBVIOUS
  <2>2. 1 \in 1..Len(list)
    BY <2>1
  <2> QED
    BY <2>2
<1>2. Selects[list[1]] = Selects[c]
  BY <1>1 DEF SameStreams
<1> QED
  BY <1>1, <1>2 DEF Wanted

LEMMA RerunConfig ==
  ASSUME Unfailing, TypeOK, InMethod, Intact, Placed, NEW t \in Handlers, Step(t) \/ StpWakesUp(t),
         method[t] = "SetConfig"
  PROVE  /\ Advances(t)
         /\ method'[t] \in {"SetConfig", "none"} /\ (method'[t] = "none" => Opened')
         /\ pc'[t] \notin {"cfg_reject", "cfg_rejected"}
         /\ pc'[t] \in {"cfg_output", "cfg_accept"} =>
              Opened' /\ \A c \in Channels : {ifmt_ctx'} \X Selects[c] \subseteq decoders'
<1> USE DEF wrapperVars, inputVars, outputVars, threadVars, envVars
<1>1. /\ t \in Threads /\ fault = "none" /\ (AcquireProcessLock(t) \/ ConfigStep(t))
      /\ pc \in [Threads -> Locs] /\ method \in [Threads -> Methods \cup {"none"}]
      /\ pos \in [Threads -> Nat] /\ channel_list \in Seq(Channels) /\ channel_list # <<>>
      /\ pc[t] \notin {"cfg_alloc", "cfg_reject", "cfg_rejected", "prc_finish"}
      /\ \A u \in Threads : pos[u] >= 1
      /\ pidObject \in [Streams -> [is : {"absent", "null", "object"}, in : 0..created, out : 0..created]]
      /\ NoCtx \notin inputs
  <2>1. t \in Threads
    BY ThreadsAssumption
  <2>2. fault = "none" /\ (AcquireProcessLock(t) \/ ConfigStep(t))
    BY <2>1, StepOf
  <2>3. pc[t] \notin {"cfg_alloc", "cfg_reject", "cfg_rejected", "prc_finish"}
    BY <2>1, PlacesOf DEF Placed
  <2>4. NoCtx \notin inputs /\ pc \in [Threads -> Locs] /\ pos \in [Threads -> Nat]
        /\ method \in [Threads -> Methods \cup {"none"}] /\ channel_list \in Seq(Channels)
        /\ pidObject \in [Streams -> [is : {"absent", "null", "object"}, in : 0..created, out : 0..created]]
    BY DEF TypeOK, WrapperTypeOK, NoCtx
  <2>5. channel_list # <<>> /\ \A u \in Threads : pos[u] >= 1
    BY DEF Placed
  <2> QED
    BY <2>1, <2>2, <2>3, <2>4, <2>5
<1>2. CASE AcquireProcessLock(t) \/ CfgAnnounce(t)
  <2>1. /\ UNCHANGED <<wrapperVars, channel_list, method, ifmt, pos>>
        /\ \A u \in Threads \ {t} : pc'[u] = pc[u]
        /\ pc'[t] \in {"lock", "cfg_open"}
    BY <1>1, <1>2 DEF AcquireProcessLock, CfgAnnounce, Locked, Move, Goto
  <2>2. Intact' /\ (Opened => Opened') /\ (Voided' => Voided)
    BY <2>1 DEF Intact, Opened, Objects, Detached, Voided
  <2> QED
    BY <1>1, <2>1, <2>2 DEF Advances
<1>3. CASE CfgOpen(t)
  <2>1. /\ OpenInput(channel_list) /\ UNCHANGED <<outputVars, fault, channel_list, method, ifmt>>
        /\ \A u \in Threads \ {t} : pc'[u] = pc[u]
        /\ pc'[t] = "cfg_output" /\ pos'[t] = 1 /\ \A u \in Threads \ {t} : pos'[u] = pos[u]
    BY <1>1, <1>3 DEF CfgOpen, OpenInput, At, Goto
  <2>2. /\ ifmt_ctx' \in inputs' /\ inputs \subseteq inputs' /\ decoders \subseteq decoders'
        /\ {ifmt_ctx'} \X Wanted(channel_list) \subseteq decoders'
        /\ memory' = memory /\ (ifmt_ctx \in inputs => ifmt_ctx' = ifmt_ctx)
    BY <1>1, <2>1 DEF OpenInput, OpenedCtx
  <2>3. Intact' /\ Opened' /\ (Voided' => Voided)
    BY <2>1, <2>2 DEF Intact, Opened, Objects, Detached, Voided
  <2>4. \A c \in Channels : {ifmt_ctx'} \X Selects[c] \subseteq decoders'
    <3>1. \A c \in Channels : Selects[c] \subseteq Wanted(channel_list)
      BY <1>1, WantedIsAll DEF Unfailing
    <3> QED
      BY <2>2, <3>1
  <2> QED
    BY <1>1, <2>1, <2>2, <2>3, <2>4 DEF Advances, Opened
<1>4. ~CfgOpenFails(t)
  BY DEF Unfailing, CfgOpenFails, ProbeInputFails, OpenInputFails
<1>5. ASSUME Iterates(t)
      PROVE  /\ ThisChannel(t) \in Channels /\ pc[t] = "cfg_output" /\ Opened
             /\ {ifmt_ctx} \X Selects[ThisChannel(t)] \subseteq decoders
             /\ \A c \in Channels : {ifmt_ctx} \X Selects[c] \subseteq decoders
  <2>1. pc[t] = "cfg_output" /\ pos[t] \in 1..Len(channel_list)
    BY <1>1, <1>5 DEF Iterates, At
  <2> QED
    BY <1>1, <2>1 DEF ThisChannel, Placed
<1>6. CASE CfgOutput(t)
  <2>1. /\ pc[t] = "cfg_output" /\ Opened
        /\ \A c \in Channels : {ifmt_ctx} \X Selects[c] \subseteq decoders
    BY <1>5, <1>6 DEF CfgOutput
  <2>2. /\ Bind(Selects[ThisChannel(t)], NewCtx) /\ outputs' = outputs \cup {NewCtx}
        /\ UNCHANGED <<inputVars, ended, fault, channel_list, method, ifmt, pc>>
        /\ pos'[t] = pos[t] + 1 /\ \A u \in Threads \ {t} : pos'[u] = pos[u]
    BY <1>1, <1>6 DEF CfgOutput, OfmtInital
  <2>3. \A s \in Streams : pidObject'[s] = pidObject[s] \/ pidObject'[s] = Object(ifmt_ctx, NewCtx)
    BY <2>2 DEF Bind
  <2>4. Intact' /\ Opened' /\ (Voided' => Voided)
    BY <2>1, <2>2, <2>3 DEF Intact, Opened, Objects, Detached, Voided, Object
  <2>5. \A u \in Threads : pos'[u] >= 1
    BY <1>1, <2>2
  <2> QED
    BY <1>1, <2>1, <2>2, <2>4, <2>5 DEF Advances, Opened
<1>7. ~CfgOutputFails(t)
  <2> SUFFICES ASSUME CfgOutputFails(t) PROVE FALSE
    OBVIOUS
  <2> DEFINE c == ThisChannel(t)
  <2>1. /\ c \in Channels /\ {ifmt_ctx} \X Selects[c] \subseteq decoders
        /\ HasVideo(c) /\ Foreign(c) = {} /\ Selects[c] # {} /\ Failures = {}
    <3>1. c \in Channels /\ {ifmt_ctx} \X Selects[c] \subseteq decoders
      BY <1>5 DEF CfgOutputFails
    <3> QED
      BY <3>1 DEF Unfailing, HasVideo
  <2>2. OfmtInitalFails(c) \/ OfmtInitalFaults(c)
    BY DEF CfgOutputFails
  <2>3. Stops(c) = {}
    BY <2>1 DEF Stops
  <2> QED
    BY <2>1, <2>2, <2>3 DEF OfmtInitalFails, OfmtInitalFaults
<1>8. CASE CfgOpenFaults(t) \/ CfgIteratorFault(t)
  <2>1. fault' = "stale_iterator" /\ pc[t] \in {"cfg_open", "cfg_output"}
        /\ UNCHANGED <<inputVars, outputVars, created, threadVars, channel_list>>
    <3>1. memory = {}
      BY DEF Intact
    <3>2. CfgIteratorFault(t)
      BY <1>8, <3>1 DEF CfgOpenFaults
    <3> QED
      BY <3>2 DEF CfgIteratorFault, Crash, Die, At
  <2>2. Intact' /\ (Opened => Opened') /\ (Voided' => Voided)
    BY <2>1 DEF Intact, Opened, Objects, Detached, Voided
  <2>3. pc[t] = "cfg_output" =>
          Opened /\ \A c \in Channels : {ifmt_ctx} \X Selects[c] \subseteq decoders
    BY DEF Placed
  <2> QED
    BY <1>1, <2>1, <2>2, <2>3 DEF Advances
<1>9. CASE CfgOutputsDone(t)
  <2>1. /\ UNCHANGED <<wrapperVars, channel_list, method, ifmt, pos>>
        /\ \A u \in Threads \ {t} : pc'[u] = pc[u]
        /\ pc[t] = "cfg_output" /\ pc'[t] = "cfg_accept"
    BY <1>1, <1>9 DEF CfgOutputsDone, Move, Goto, At
  <2>2. Intact' /\ (Opened => Opened') /\ (Voided' => Voided)
    BY <2>1 DEF Intact, Opened, Objects, Detached, Voided
  <2>3. Opened /\ \A c \in Channels : {ifmt_ctx} \X Selects[c] \subseteq decoders
    BY <2>1 DEF Placed
  <2> QED
    BY <1>1, <2>1, <2>2, <2>3 DEF Advances
<1>10. CASE CfgAccept(t)
  <2>1. /\ UNCHANGED <<wrapperVars, channel_list, ifmt, pos>>
        /\ \A u \in Threads \ {t} : pc'[u] = pc[u] /\ method'[u] = method[u]
        /\ pc[t] = "cfg_accept" /\ pc'[t] = "idle" /\ method'[t] = "none"
    BY <1>1, <1>10 DEF CfgAccept, Leave, Return, Goto, At
  <2>2. Intact' /\ (Opened => Opened') /\ (Voided' => Voided)
    BY <2>1 DEF Intact, Opened, Objects, Detached, Voided
  <2>3. Opened
    BY <2>1 DEF Placed
  <2> QED
    BY <1>1, <2>1, <2>2, <2>3 DEF Advances
<1>11. ~CfgAlloc(t) /\ ~CfgAllocFails(t) /\ ~CfgReject(t) /\ ~CfgRejected(t)
  BY <1>1 DEF CfgAlloc, CfgAllocFails, CfgReject, CfgRejected, Move, Leave, At
<1> QED
  BY <1>1, <1>2, <1>3, <1>4, <1>6, <1>7, <1>8, <1>9, <1>10, <1>11 DEF ConfigStep

(* A transcode: the only one in this state dies of nothing.                 *)
LEMMA RerunProcess ==
  ASSUME Unfailing, TypeOK, InMethod, Intact, Placed, Voided => \E j \in started : pc[j] \in {"prc_finish", "idle"},
         NEW t \in Jobs, Step(t) \/ StpWakesUp(t), method[t] = "Process"
  PROVE  /\ Advances(t)
         /\ method'[t] \in {"Process", "none"}
         /\ method'[t] = "Process" /\ pc'[t] # "prc_getifmt" => ifmt'[t] = ifmt_ctx'
<1> USE DEF wrapperVars, inputVars, outputVars, threadVars, envVars
<1>1. /\ t \in Threads /\ fault = "none" /\ (AcquireProcessLock(t) \/ ProcessStep(t))
      /\ pc \in [Threads -> Locs] /\ method \in [Threads -> Methods \cup {"none"}]
      /\ ifmt \in [Threads -> 0..created]
      /\ t \in started /\ Opened /\ NoCtx \notin inputs
      /\ (pc[t] # "prc_getifmt" => ifmt[t] = ifmt_ctx)
      /\ \A u \in Threads : pos[u] >= 1
  <2>1. t \in Threads
    BY ThreadsAssumption
  <2>2. fault = "none" /\ (AcquireProcessLock(t) \/ ProcessStep(t))
    BY <2>1, StepOf
  <2>3. NoCtx \notin inputs /\ pc \in [Threads -> Locs] /\ method \in [Threads -> Methods \cup {"none"}]
        /\ ifmt \in [Threads -> 0..created]
    BY DEF TypeOK, WrapperTypeOK, NoCtx
  <2>4. t \in started /\ (pc[t] # "prc_getifmt" => ifmt[t] = ifmt_ctx) /\ \A u \in Threads : pos[u] >= 1
    BY DEF Placed
  <2>5. Opened
    BY <2>4 DEF Placed
  <2> QED
    BY <2>1, <2>2, <2>3, <2>4, <2>5
<1>2. CASE AcquireProcessLock(t) \/ PrcGetIfmt(t) \/ PrcAnnounce(t) \/ PrcInitTools(t) \/ PrcLoop(t)
           \/ PrcReadEnds(t) \/ (\E s \in Streams : PrcReadPacket(t, s))
  <2>1. /\ UNCHANGED <<wrapperVars, channel_list, method, pos>> /\ pc[t] # "prc_finish"
        /\ \A u \in Threads \ {t} : pc'[u] = pc[u] /\ ifmt'[u] = ifmt[u]
        /\ ifmt'[t] = ifmt_ctx
    BY <1>1, <1>2 DEF AcquireProcessLock, PrcGetIfmt, PrcAnnounce, PrcInitTools, PrcLoop, PrcReadEnds,
       PrcReadPacket, Move, Goto, At
  <2>2. Intact' /\ (Opened => Opened') /\ (Voided' => Voided)
    BY <2>1 DEF Intact, Opened, Objects, Detached, Voided
  <2> QED
    BY <1>1, <2>1, <2>2 DEF Advances
<1>3. CASE PrcDrain(t)
  <2>1. /\ UNCHANGED <<inputVars, outputs, ended, ofmt_list, created, fault, channel_list, method, pos, ifmt>>
        /\ pc[t] = "prc_drain" /\ pc'[t] = "prc_finish" /\ \A u \in Threads \ {t} : pc'[u] = pc[u]
        /\ pidObject' = [s \in Streams |-> IF s \in Objects THEN Emptied ELSE pidObject[s]]
    BY <1>1, <1>3 DEF PrcDrain, Move, Goto, At
  <2>2. Objects' = {}
    BY <2>1 DEF Objects, Emptied
  <2>3. Intact' /\ (Opened => Opened')
    BY <2>1, <2>2 DEF Intact, Opened
  <2> QED
    BY <1>1, <2>1, <2>3 DEF Advances
<1>4. CASE PrcFinish(t)
  <2>1. /\ UNCHANGED <<wrapperVars, channel_list, pos, ifmt>>
        /\ pc[t] = "prc_finish" /\ pc'[t] = "idle" /\ method'[t] = "none"
        /\ \A u \in Threads \ {t} : pc'[u] = pc[u] /\ method'[u] = method[u]
    BY <1>1, <1>4 DEF PrcFinish, Leave, Return, Goto, At
  <2>2. Intact' /\ (Opened => Opened') /\ (Voided' => Voided)
    BY <2>1 DEF Intact, Opened, Objects, Detached, Voided
  <2> QED
    BY <1>1, <2>1, <2>2 DEF Advances
<1>5. CASE PrcInitFaults(t)
  <2>1. /\ UNCHANGED <<inputVars, outputVars, created, threadVars, channel_list>>
        /\ pc[t] = "prc_init" /\ (Voided \/ \E s \in Objects : Detached(s))
    BY <1>5 DEF PrcInitFaults, Crash, At, Voided
  <2>2. Second
    <3>1. PICK j \in started : pc[j] \in {"prc_finish", "idle"}
      BY <2>1 DEF Intact
    <3>2. j # t
      BY <2>1, <3>1
    <3> QED
      BY <1>1, <3>2 DEF Second
  <2>3. Intact' /\ (Opened => Opened') /\ (Voided' => Voided)
    BY <2>1 DEF Intact, Opened, Objects, Detached, Voided
  <2> QED
    BY <1>1, <2>1, <2>2, <2>3 DEF Advances
<1>6. ~PrcReadFaults(t)
  <2> SUFFICES ASSUME PrcReadFaults(t) PROVE FALSE
    OBVIOUS
  <2>1. pc[t] = "prc_read"
    BY DEF PrcReadFaults, Crash, At
  <2>2. ifmt[t] \in inputs /\ ifmt[t] # NoCtx
    BY <1>1, <2>1 DEF Opened
  <2> QED
    BY <2>2 DEF PrcReadFaults, Intact, Unfailing
<1>7. ~PrcDrainFaults(t)
  BY DEF PrcDrainFaults, Intact, Detached
<1> QED
  BY <1>1, <1>2, <1>3, <1>4, <1>5, <1>6, <1>7 DEF ProcessStep

(* The steps of the threads, with their effect on all the rest.             *)
LEMMA RerunThread ==
  ASSUME Unfailing, TypeOK, InMethod, RerunInv, serving \in Handlers \cup {NoHandler}, started \subseteq Jobs,
         NEW t \in Threads, TranscoderStep(t), UNCHANGED clientVars
  PROVE  RerunInv'
<1> USE DEF clientVars, serverVars
<1>1. /\ Intact /\ Placed /\ Jobbed /\ Counted /\ (Step(t) \/ StpWakesUp(t))
      /\ UNCHANGED <<rpc, reply, joinable, started, script, serving, runs>>
      /\ fault = "none" /\ pc[t] # "idle" /\ method[t] # "none"
  BY StepOf DEF RerunInv, TranscoderStep
<1>2. /\ Advances(t)
      /\ t \in Handlers =>
           /\ method'[t] \in {"none", "SetConfig", "StopProcess"}
           /\ method'[t] = "SetConfig" => method[t] = "SetConfig" /\ pc'[t] \notin {"cfg_reject", "cfg_rejected"}
           /\ method[t] = "SetConfig" /\ method'[t] # "SetConfig" => Opened'
           /\ pc'[t] \in {"cfg_output", "cfg_accept"} =>
                Opened' /\ \A c \in Channels : {ifmt_ctx'} \X Selects[c] \subseteq decoders'
      /\ t \in Jobs =>
           /\ method'[t] \in {"none", "Process"} /\ t \in started
           /\ method'[t] = "Process" /\ pc'[t] # "prc_getifmt" => ifmt'[t] = ifmt_ctx'
  <2>1. CASE method[t] = "SetConfig"
    <3>1. t \in Handlers /\ t \notin Jobs
      BY <1>1, <2>1, ThreadsAssumption DEF Placed
    <3> QED
      BY <1>1, <2>1, <3>1, RerunConfig
  <2>2. CASE method[t] = "Process"
    <3>1. t \in Jobs /\ t \notin Handlers /\ t \in started
      BY <1>1, <2>2, ThreadsAssumption DEF Placed
    <3> QED
      BY <1>1, <2>2, <3>1, RerunProcess DEF Jobbed, Voided
  <2>3. CASE method[t] = "StopProcess"
    <3>1. t \in Handlers /\ t \notin Jobs
      BY <1>1, <2>3, ThreadsAssumption DEF Placed
    <3>2. /\ UNCHANGED <<wrapperVars, state, ifmt, pos, stale, channel_list>>
          /\ \A u \in Threads \ {t} : pc'[u] = pc[u] /\ method'[u] = method[u]
          /\ method'[t] \in {"none", "StopProcess"}
      BY <1>1, <2>3, QuietStep DEF Quiet
    <3>3. pc'[t] \notin {"cfg_output", "cfg_accept"} /\ t \notin started
      <4>1. pc[t] \in {"stp_check", "stp_arm", "stp_wait"}
        BY <1>1, <2>3, PlacesOf DEF Quiet
      <4>2. TypeOK' /\ InMethod'
        <5>1. [Next]_vars
          BY <1>1 DEF Next, Environment
        <5> QED
          BY <5>1, NextTypeOK, NextInMethod
      <4>3. pc'[t] \in Locs /\ method'[t] \in Runs(pc'[t])
        BY <4>2 DEF TypeOK, InMethod
      <4> QED
        BY <3>1, <3>2, <4>3, RunsAre DEF Configs
    <3>4. Intact' /\ (Opened => Opened') /\ (Voided' => Voided)
      BY <1>1, <3>2 DEF Intact, Opened, Objects, Detached, Voided, wrapperVars, inputVars, outputVars
    <3>5. Advances(t)
      BY <1>1, <3>2, <3>3, <3>4 DEF Advances, Placed, wrapperVars, inputVars, outputVars
    <3> QED
      BY <2>3, <3>1, <3>2, <3>3, <3>5
  <2> QED
    BY <1>1, <2>1, <2>2, <2>3, ThreadsAssumption DEF Placed
<1>3. Intact'
  BY <1>2 DEF Advances
<1>4. Placed'
  <2>1. (\A u \in Threads : pos'[u] >= 1) /\ (started' # {} => Opened')
    BY <1>1, <1>2 DEF Advances, Placed
  <2>2. ASSUME NEW h \in Handlers
        PROVE  /\ method'[h] \in {"none", "SetConfig", "StopProcess"}
               /\ method'[h] = "SetConfig" => /\ channel_list' # <<>>
                                              /\ pc'[h] \notin {"cfg_reject", "cfg_rejected"}
               /\ pc'[h] \in {"cfg_output", "cfg_accept"} =>
                    Opened' /\ \A c \in Channels : {ifmt_ctx'} \X Selects[c] \subseteq decoders'
    <3>1. CASE h = t
      BY <1>1, <1>2, <3>1 DEF Advances, Placed
    <3>2. CASE h # t
      <4>1. pc'[h] = pc[h] /\ method'[h] = method[h] /\ channel_list' = channel_list
            /\ (Opened => Opened' /\ ifmt_ctx' = ifmt_ctx) /\ decoders \subseteq decoders'
        BY <1>2, <3>2, ThreadsAssumption DEF Advances
      <4> QED
        BY <1>1, <4>1 DEF Placed
    <3> QED
      BY <3>1, <3>2
  <2>3. ASSUME NEW j \in Jobs
        PROVE  /\ method'[j] \in {"none", "Process"}
               /\ method'[j] = "Process" => j \in started'
               /\ method'[j] = "Process" /\ pc'[j] # "prc_getifmt" => ifmt'[j] = ifmt_ctx'
    <3>1. CASE j = t
      BY <1>1, <1>2, <3>1
    <3>2. CASE j # t
      <4>1. pc'[j] = pc[j] /\ method'[j] = method[j] /\ ifmt'[j] = ifmt[j] /\ (Opened => ifmt_ctx' = ifmt_ctx)
        BY <1>2, <3>2, ThreadsAssumption DEF Advances
      <4>2. method[j] = "Process" => Opened
        BY <1>1 DEF Placed
      <4> QED
        BY <1>1, <4>1, <4>2 DEF Placed
    <3> QED
      BY <3>1, <3>2
  <2> QED
    BY <2>1, <2>2, <2>3 DEF Placed
<1>5. Jobbed'
  <2>1. Voided' => \E j \in started' : pc'[j] \in {"prc_finish", "idle"}
    <3>1. ASSUME NEW j \in started, pc[j] \in {"prc_finish", "idle"}
          PROVE  pc'[j] \in {"prc_finish", "idle"}
      BY <1>1, <1>2, <3>1, ThreadsAssumption DEF Advances
    <3> QED
      BY <1>1, <1>2, <3>1 DEF Advances, Jobbed, Voided
  <2>2. fault' \in {"none", "stale_iterator"} \/ Second'
    BY <1>1, <1>2 DEF Advances, Second
  <2> QED
    BY <1>1, <2>1, <2>2 DEF Jobbed, Voided, Second
<1>6. Counted'
  <2>1. (Opened => Opened') /\ channel_list' = channel_list
    BY <1>2 DEF Advances
  <2>2. serving # NoHandler /\ method[serving] = "SetConfig" /\ method'[serving] # "SetConfig" => Opened'
    BY <1>2, ThreadsAssumption DEF Advances
  <2>3. \A h \in Handlers : method'[h] = "SetConfig" => method[h] = "SetConfig"
    BY <1>2, ThreadsAssumption DEF Advances
  <2> QED
    BY <1>1, <2>1, <2>2, <2>3 DEF Counted
<1> QED
  BY <1>3, <1>4, <1>5, <1>6 DEF RerunInv

(* A step that leaves contexts, threads and list as they are.               *)
LEMMA RerunKept ==
  ASSUME RerunInv, UNCHANGED <<inputVars, outputVars, pc, method, ifmt, pos, channel_list>>
  PROVE  /\ Intact' /\ (Opened <=> Opened') /\ (Voided <=> Voided')
         /\ started' = started => Placed'
<1> USE DEF inputVars, outputVars, RerunInv
<1>1. Intact' /\ (Opened <=> Opened') /\ (Voided <=> Voided')
  BY DEF Intact, Opened, Objects, Detached, Voided
<1>2. ASSUME started' = started PROVE Placed'
  BY <1>1, <1>2 DEF Placed
<1> QED
  BY <1>1, <1>2

(* The steps of handlers that call nothing: the requests that others of     *)
(* them have under way are not disturbed.                                   *)
LEMMA RerunAnswer ==
  ASSUME InMethod, RerunInv, rpc \in [Handlers -> RpcLocs], serving \in Handlers \cup {NoHandler},
         NEW h \in Handlers,
         SetchannelReply(h) \/ ReplyState(h) \/ AssignJob(h) \/ StoreJob(h) \/ SetchannelRaces(h)
           \/ AssignTerminates(h) \/ StoreTerminates(h),
         UNCHANGED clientVars
  PROVE  RerunInv'
<1> USE DEF clientVars
<1>1. /\ UNCHANGED <<inputVars, outputVars, pc, method, ifmt, pos, channel_list, started>>
      /\ UNCHANGED <<script, serving, runs>>
      /\ \A g \in Handlers \ {h} : rpc'[g] = rpc[g]
  BY DEF SetchannelReply, ReplyState, AssignJob, StoreJob, SetchannelRaces, AssignTerminates,
     StoreTerminates, Answer,
     RpcMove, RpcGoto, CallerDies, vars, wrapperVars, threadVars, envVars, serverVars
<1>2. Intact' /\ Placed' /\ (Opened <=> Opened') /\ (Voided <=> Voided')
  BY <1>1, RerunKept
<1>3. \/ rpc[h] \in {"set_list", "called"} /\ rpc'[h] = "ready" /\ UNCHANGED <<joinable, fault>>
      \/ rpc[h] = "assign" /\ rpc'[h] = "store" /\ ~joinable /\ UNCHANGED <<joinable, fault>>
      \/ rpc[h] = "store" /\ rpc'[h] = "called" /\ joinable' /\ UNCHANGED fault
      \/ rpc' = rpc /\ joinable' = joinable /\ fault' = "stale_iterator"
      \/ rpc' = rpc /\ joinable' = joinable /\ rpc[h] \in {"assign", "store"} /\ joinable
  BY DEF SetchannelReply, ReplyState, AssignJob, StoreJob, SetchannelRaces, AssignTerminates,
     StoreTerminates, Answer,
     RpcAt, RpcMove, RpcGoto, vars, wrapperVars, serverVars
<1>4. Jobbed'
  <2>1. Second <=> Second'
    BY <1>1 DEF Second
  <2>2. (\E s \in Streams : pidObject'[s].is = "null") =>
          \E j \in started' : pc'[j] \in {"prc_finish", "idle"}
    BY <1>1, <1>2 DEF RerunInv, Jobbed, Voided
  <2>3. ASSUME NEW g \in Handlers, rpc'[g] \in {"assign", "store"}
        PROVE  rpc[g] \in {"assign", "store"} /\ (joinable' => Second)
    BY <1>1, <1>3, <2>3 DEF RerunInv, Jobbed
  <2>4. fault' \in {"none", "stale_iterator"} \/ Second'
    BY <1>3, <2>1 DEF RerunInv, Jobbed
  <2>5. joinable' => started' # {}
    BY <1>1, <1>3 DEF RerunInv, Jobbed
  <2>6. IsFiniteSet(started)'
    BY <1>1 DEF RerunInv, Jobbed
  <2>7. \A g \in Handlers : rpc'[g] \in {"assign", "store"} =>
          /\ started' # {}
          /\ joinable' => Second'
          /\ \A i \in Handlers \ {g} : rpc'[i] \in {"assign", "store"} => Second'
    BY <1>1, <2>1, <2>3 DEF RerunInv, Jobbed
  <2> QED
    BY <2>2, <2>4, <2>5, <2>6, <2>7 DEF Jobbed
<1>5. Counted'
  <2>1. /\ \A g \in Handlers : rpc'[g] \in {"avio_memory", "avio_file", "process"} => rpc'[g] = rpc[g]
        /\ rpc' = rpc \/ method[h] = "none"
        /\ serving # NoHandler => (rpc'[serving] = rpc[serving] \/ rpc[serving] \notin {"set_push", "avio_file"})
    <3>1. rpc' = rpc \/ \E l : RpcAt(h, l)
      BY DEF SetchannelReply, ReplyState, AssignJob, StoreJob, SetchannelRaces, AssignTerminates,
         StoreTerminates,
         RpcMove, serverVars
    <3>2. rpc' = rpc \/ method[h] = "none"
      BY <3>1, HandlerAtRest
    <3> QED
      BY <1>1, <1>3, <3>2
  <2> QED
    BY <1>1, <1>2, <2>1 DEF RerunInv, Counted
<1> QED
  BY <1>2, <1>4, <1>5 DEF RerunInv

LEMMA RerunPush ==
  ASSUME InMethod, RerunInv, rpc \in [Handlers -> RpcLocs], serving \in Handlers \cup {NoHandler},
         channel_list \in Seq(Channels), NEW h \in Handlers, NEW c \in Channels, SetchannelPush(h, c),
         UNCHANGED clientVars
  PROVE  RerunInv'
<1> USE DEF clientVars
<1>1. /\ UNCHANGED <<inputVars, outputVars, fault, pc, method, ifmt, pos, started, joinable>>
      /\ UNCHANGED <<script, serving, runs>>
      /\ method[h] = "none"
      /\ rpc[h] = "set_push" /\ rpc'[h] = "set_list" /\ \A g \in Handlers \ {h} : rpc'[g] = rpc[g]
      /\ channel_list' = Append(channel_list, c)
  BY HandlerAtRest DEF SetchannelPush, AppendChannel, RpcMove, RpcAt, RpcGoto, wrapperVars
<1>2. channel_list' # <<>>
  BY <1>1
<1>3. Intact' /\ (Opened <=> Opened')
  BY <1>1 DEF RerunInv, Intact, Opened, Objects, Detached, inputVars, outputVars
<1>4. Placed'
  BY <1>1, <1>2, <1>3 DEF RerunInv, Placed, inputVars
<1>5. Jobbed'
  BY <1>1 DEF RerunInv, Jobbed, Second, outputVars
<1>6. Counted'
  BY <1>1, <1>2, <1>3 DEF RerunInv, Counted
<1> QED
  BY <1>3, <1>4, <1>5, <1>6 DEF RerunInv

(* A call of the Transcoder in the name of a request.                       *)
LEMMA RerunCall ==
  ASSUME TypeOK, InMethod, RerunInv, rpc \in [Handlers -> RpcLocs], serving \in Handlers \cup {NoHandler},
         started \subseteq Jobs, NEW h \in Handlers, AvioCalls(h) \/ StopCalls(h), UNCHANGED clientVars
  PROVE  RerunInv'
<1> USE DEF clientVars
<1>1. /\ UNCHANGED <<wrapperVars, ifmt, pos, channel_list, started, joinable>>
      /\ UNCHANGED <<script, serving, runs>>
      /\ rpc'[h] = "called" /\ \A g \in Handlers \ {h} : rpc'[g] = rpc[g]
      /\ \A t \in Threads \ {h} : pc'[t] = pc[t] /\ method'[t] = method[t]
      /\ \/ rpc[h] = "avio_file" /\ method'[h] = "SetConfig" /\ pc'[h] = "cfg_announce"
         \/ rpc[h] = "stop" /\ method'[h] = "StopProcess" /\ pc'[h] = "stp_check"
      /\ method[h] = "none"
  <2>1. rpc[h] # "avio_memory"
    BY DEF RerunInv, Counted
  <2>2. \E l \in {"avio_file", "stop"} : RpcAt(h, l)
    BY <2>1 DEF AvioCalls, StopCalls, RpcMove, RpcAt
  <2>3. h \in Threads /\ method[h] = "none"
    BY <2>2, HandlerAtRest
  <2> QED
    BY <2>1, <2>3 DEF TypeOK, AvioCalls, StopCalls, RpcMove, RpcAt, RpcGoto, Call, Goto, Entry, Configs
<1>2. Intact' /\ (Opened <=> Opened')
  BY <1>1 DEF RerunInv, Intact, Opened, Objects, Detached, wrapperVars, inputVars, outputVars
<1>3. Placed'
  <2>1. rpc[h] = "avio_file" => channel_list # <<>>
    BY DEF RerunInv, Counted
  <2>2. \A j \in Jobs : pc'[j] = pc[j] /\ method'[j] = method[j]
    BY <1>1, ThreadsAssumption
  <2>3. \A g \in Handlers \ {h} : pc'[g] = pc[g] /\ method'[g] = method[g]
    BY <1>1, ThreadsAssumption
  <2> QED
    BY <1>1, <1>2, <2>1, <2>2, <2>3 DEF RerunInv, Placed, wrapperVars, inputVars
<1>4. Jobbed'
  <2>1. \A j \in started : pc'[j] = pc[j]
    BY <1>1, ThreadsAssumption
  <2> QED
    BY <1>1, <2>1 DEF RerunInv, Jobbed, Second, wrapperVars, outputVars
<1>5. Counted'
  <2>1. \A g \in Handlers \ {h} : method'[g] = method[g] /\ rpc'[g] = rpc[g]
    BY <1>1, ThreadsAssumption
  <2> QED
    BY <1>1, <1>2, <2>1 DEF RerunInv, Counted
<1> QED
  BY <1>2, <1>3, <1>4, <1>5 DEF RerunInv

LEMMA RerunStart ==
  ASSUME TypeOK, InMethod, RerunInv, rpc \in [Handlers -> RpcLocs], serving \in Handlers \cup {NoHandler},
         started \subseteq Jobs, NEW h \in Handlers, NEW j \in Jobs, StartJob(h, j), UNCHANGED clientVars
  PROVE  RerunInv'
<1> USE DEF clientVars
<1>1. /\ UNCHANGED <<wrapperVars, ifmt, pos, channel_list, joinable>>
      /\ UNCHANGED <<script, serving, runs>>
      /\ rpc[h] = "process" /\ rpc'[h] = "assign" /\ \A g \in Handlers \ {h} : rpc'[g] = rpc[g]
      /\ j \notin started /\ started' = started \cup {j}
      /\ method'[j] = "Process" /\ pc'[j] = "prc_getifmt"
      /\ \A t \in Threads \ {j} : pc'[t] = pc[t] /\ method'[t] = method[t]
  BY ThreadsAssumption DEF TypeOK, StartJob, RpcAt, RpcGoto, Call, Goto, Entry, Configs
<1>2. Intact' /\ Opened' /\ Opened
  BY <1>1 DEF RerunInv, Counted, Intact, Opened, Objects, Detached, wrapperVars, inputVars, outputVars
<1>3. Placed'
  <2>1. \A g \in Handlers : pc'[g] = pc[g] /\ method'[g] = method[g]
    BY <1>1, ThreadsAssumption
  <2>2. \A i \in Jobs \ {j} : pc'[i] = pc[i] /\ method'[i] = method[i]
    BY <1>1, ThreadsAssumption
  <2> QED
    BY <1>1, <1>2, <2>1, <2>2 DEF RerunInv, Placed, wrapperVars, inputVars
<1>4. Jobbed'
  <2>1. started # {} => Second'
    BY <1>1 DEF Second
  <2>2. Second => Second'
    BY <1>1 DEF Second
  <2>3. (\E s \in Streams : pidObject'[s].is = "null") =>
          \E i \in started' : pc'[i] \in {"prc_finish", "idle"}
    BY <1>1, ThreadsAssumption DEF RerunInv, Jobbed, wrapperVars, outputVars
  <2>4. IsFiniteSet(started')
    BY <1>1, FS_AddElement DEF RerunInv, Jobbed
  <2>5. started' # {} /\ (fault' \in {"none", "stale_iterator"} \/ Second')
    BY <1>1, <2>2 DEF RerunInv, Jobbed, wrapperVars
  <2>6. \A g \in Handlers : rpc'[g] \in {"assign", "store"} =>
          /\ joinable' => Second'
          /\ \A i \in Handlers \ {g} : rpc'[i] \in {"assign", "store"} => Second'
    BY <1>1, <2>1 DEF RerunInv, Jobbed
  <2> QED
    BY <2>3, <2>4, <2>5, <2>6 DEF Jobbed
<1>5. Counted'
  <2>1. method[h] = "none" /\ \A g \in Handlers : method'[g] = method[g]
    BY <1>1, ThreadsAssumption, HandlerAtRest DEF StartJob
  <2> QED
    BY <1>1, <1>2, <2>1 DEF RerunInv, Counted
<1> QED
  BY <1>2, <1>3, <1>4, <1>5 DEF RerunInv

(* What client and operator do.                                             *)
LEMMA RerunClient ==
  ASSUME InMethod, RerunInv, Waiting, rpc \in [Handlers -> RpcLocs],
         \/ ClientReturns \/ ClientFails \/ ClientRestarts
         \/ \E h \in Handlers : ClientCalls(h) \/ OperatorAsks(h)
  PROVE  RerunInv'
<1>1. /\ UNCHANGED <<inputVars, outputVars, fault, pc, method, ifmt, pos, channel_list, started, joinable>>
  BY DEF ClientReturns, ClientFails, ClientRestarts, ClientCalls, OperatorAsks, Request, allVars,
     serverVars,
     vars, wrapperVars, threadVars, envVars
<1>2. Intact' /\ Placed' /\ (Opened <=> Opened') /\ (Voided <=> Voided')
  BY <1>1, RerunKept
<1>3. CASE ClientReturns \/ ClientFails \/ ClientRestarts
  <2>1. rpc' = rpc /\ serving' = NoHandler
    BY <1>3 DEF ClientReturns, ClientFails, ClientRestarts, allVars, serverVars, Waiting, Calls
  <2>2. /\ script' = "Avio" => script = "Setchannel" /\ channel_list # <<>>
        /\ script' = "Process" => script = "Avio" /\ Opened
    <3>1. CASE ClientReturns
      <4>1. serving \in Handlers /\ rpc[serving] = "ready" /\ script \in Calls /\ script' = After(script)
            /\ serving # NoHandler
        BY <3>1 DEF ClientReturns, Waiting
      <4>2. fault = "none" /\ method[serving] # "SetConfig"
        BY <4>1, <3>1 DEF ClientReturns, RerunInv, Counted
      <4> QED
        BY <4>1, <4>2, ClientCallsAre DEF RerunInv, Counted, Calls
    <3>2. CASE ClientFails \/ ClientRestarts
      BY <3>2 DEF ClientFails, ClientRestarts
    <3> QED
      BY <1>3, <3>1, <3>2
  <2>3. Jobbed'
    BY <1>1, <2>1 DEF RerunInv, Jobbed, Second, outputVars
  <2>4. Counted'
    BY <1>1, <1>2, <2>1, <2>2 DEF RerunInv, Counted
  <2> QED
    BY <1>2, <2>3, <2>4 DEF RerunInv
<1>4. ASSUME NEW h \in Handlers, ClientCalls(h) \/ OperatorAsks(h)
      PROVE  RerunInv'
  <2>1. /\ rpc[h] = "ready" /\ method[h] = "none" /\ \A g \in Handlers \ {h} : rpc'[g] = rpc[g]
        /\ script' = script
        /\ \/ rpc'[h] \in {"called", "stop"} /\ serving' = serving
           \/ /\ script \in Calls /\ rpc'[h] = RequestOf(script) /\ serving' = h
    BY <1>4, OperatorAssumption, HandlerAtRest DEF ClientCalls, OperatorAsks, Request, RpcAt, RpcGoto,
       clientVars
  <2>2. script \in Calls => RequestOf(script) \in {"set_push", "avio_file", "process"}
                            /\ (script = "Avio" <=> RequestOf(script) = "avio_file")
                            /\ (script = "Process" <=> RequestOf(script) = "process")
                            /\ (script = "Setchannel" <=> RequestOf(script) = "set_push")
    BY ClientCallsAre DEF Calls
  <2>3. Jobbed'
    <3>1. \A g \in Handlers : rpc'[g] \in {"assign", "store"} => rpc[g] \in {"assign", "store"}
      BY <2>1, <2>2
    <3> QED
      BY <1>1, <3>1 DEF RerunInv, Jobbed, Second, outputVars
  <2>4. Counted'
    BY <1>1, <1>2, <2>1, <2>2 DEF RerunInv, Counted, Waiting
  <2> QED
    BY <1>2, <2>3, <2>4 DEF RerunInv
<1> QED
  BY <1>3, <1>4

LEMMA RerunInit == SystemInit => RerunInv
<1> SUFFICES ASSUME SystemInit PROVE RerunInv
  OBVIOUS
<1> USE DEF SystemInit, ServerInit, Init, WrapperInit
<1>1. Objects = {} /\ started = {} /\ NoCtx \notin inputs
  BY DEF Objects, Absent
<1>2. Intact
  BY <1>1 DEF Intact
<1>3. Placed
  BY <1>1, ThreadsAssumption DEF Placed
<1>4. Jobbed
  BY <1>1, FS_EmptySet DEF Jobbed, Absent
<1>5. Counted
  BY ThreadsAssumption DEF Counted
<1> QED
  BY <1>2, <1>3, <1>4, <1>5 DEF RerunInv

LEMMA RerunStep ==
  ASSUME Unfailing, ServerInv, Waiting, RerunInv, [SystemNext]_systemVars
  PROVE  RerunInv'
<1>1. /\ TypeOK /\ InMethod /\ rpc \in [Handlers -> RpcLocs] /\ serving \in Handlers \cup {NoHandler}
      /\ started \subseteq Jobs /\ channel_list \in Seq(Channels)
  BY DEF ServerInv, ServerTypeOK, Waiting, TypeOK
<1>2. ASSUME NEW h \in Handlers, RpcStep(h), UNCHANGED clientVars
      PROVE  RerunInv'
  BY <1>1, <1>2, RerunAnswer, RerunPush, RerunCall, RerunStart DEF RpcStep
<1>3. ASSUME NEW t \in Threads, TranscoderStep(t), UNCHANGED clientVars
      PROVE  RerunInv'
  BY <1>1, <1>3, RerunThread
<1>4. CASE \/ ClientReturns \/ ClientFails \/ ClientRestarts
           \/ \E h \in Handlers : ClientCalls(h) \/ OperatorAsks(h)
  BY <1>1, <1>4, RerunClient
<1>5. CASE UNCHANGED systemVars
  <2>1. UNCHANGED <<inputVars, outputVars, fault, pc, method, ifmt, pos, channel_list, started, joinable, rpc,
                    script, serving>>
    BY <1>5 DEF systemVars, allVars, clientVars, vars, serverVars, wrapperVars, threadVars, envVars
  <2>2. Intact' /\ Placed' /\ (Opened <=> Opened') /\ (Voided <=> Voided')
    BY <2>1, RerunKept
  <2>3. Jobbed' /\ Counted'
    BY <2>1, <2>2 DEF RerunInv, Jobbed, Counted, Second, Voided
  <2> QED
    BY <2>2, <2>3 DEF RerunInv
<1>6. ASSUME NEW t \in Threads
      PROVE  ~ReadsUnmapped(t)
  BY DEF ReadsUnmapped, Unfailing
<1>7. CASE SystemNext
  BY <1>2, <1>3, <1>4, <1>6, <1>7 DEF SystemNext, ServerStep
<1> QED
  BY <1>5, <1>7

(* However often the client is started again, with whatever an operator     *)
(* asks between, and whichever of its requests it gives up: against a       *)
(* server that wants for nothing it takes a second Process to kill it, or a *)
(* channel appended while the Avio of an earlier run walks the list.        *)
THEOREM SecondProcessKills == Unfailing => (SystemSpec => []DeathNeedsSecondProcess)
<1> SUFFICES ASSUME Unfailing PROVE SystemSpec => []DeathNeedsSecondProcess
  OBVIOUS
<1>1. RerunInv => DeathNeedsSecondProcess
  <2> SUFFICES ASSUME RerunInv, Second PROVE Cardinality(started) > 1
    BY DEF RerunInv, Jobbed, DeathNeedsSecondProcess
  <2>1. PICK i \in started, j \in started : i # j
    BY DEF Second
  <2>2. IsFiniteSet(started)
    BY DEF RerunInv, Jobbed
  <2>3. Cardinality({i, j}) = 2 /\ {i, j} \subseteq started
    <3>1. IsFiniteSet({i}) /\ Cardinality({i}) = 1 /\ j \notin {i}
      BY <2>1, FS_Singleton
    <3>2. Cardinality({i} \cup {j}) = Cardinality({i}) + 1
      BY <3>1, FS_AddElement
    <3>3. {i} \cup {j} = {i, j}
      OBVIOUS
    <3> QED
      BY <3>1, <3>2, <3>3
  <2>4. Cardinality({i, j}) <= Cardinality(started) /\ Cardinality(started) \in Nat
    BY <2>2, <2>3, FS_Subset, FS_CardinalityType
  <2> QED
    BY <2>3, <2>4
<1>2. SystemInit => ServerInv /\ Waiting /\ RerunInv
  BY ServerInitInv, RerunInit DEF SystemInit, Waiting, Calls
<1>3. ServerInv /\ Waiting /\ RerunInv /\ [SystemNext]_systemVars => (ServerInv /\ Waiting /\ RerunInv)'
  BY SystemStepIsServerStep, ServerNextInv, WaitingStep, RerunStep
<1> QED
  BY <1>1, <1>2, <1>3, PTL DEF SystemSpec

=============================================================================
