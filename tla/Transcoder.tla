----------------------------- MODULE Transcoder -----------------------------
(***************************************************************************)
(* The Transcoder singleton: its Status, the process lock, the stop flag,  *)
(* the condition variable, and its public methods, called by threads that  *)
(* may run any method at any time.  One action per step between two points *)
(* at which another thread can interfere: an access to _state, _turnoff or *)
(* _ifmt_ctx that no lock protects, an acquisition of _lock_process, a     *)
(* wait.  Steps under _lock_process that touch only what it protects are   *)
(* one action.                                                             *)
(*                                                                         *)
(* fault # "none" is a dead process: no action is enabled any more.        *)
(***************************************************************************)
EXTENDS CtxWrapper

CONSTANTS
  Threads,   (* The threads that call the Transcoder.                      *)
  NoThread,  (* _lock_process is free.                                     *)
  Lists,     (* The channel lists a caller may start with.                 *)
  MaxList,   (* Bound: length of the channel list.                         *)
  MaxCalls   (* Bound: number of method calls.                             *)

ASSUME NoThreadAssumption == NoThread \notin Threads
ASSUME ListsAssumption    == Lists \subseteq Seq(Channels)
ASSUME BoundsAssumption   == MaxList \in Nat /\ MaxCalls \in Nat

VARIABLES
  state,         (* Status::_current.                                      *)
  lock,          (* The thread that holds _lock_process.                   *)
  turnoff,       (* _turnoff.                                              *)
  pc,            (* Where in a method each thread is.                      *)
  method,        (* The method each thread is in, or "none".               *)
  ifmt,          (* Process: its local copy of the input pointer.          *)
  frame,         (* The memory input whose buffer descriptor lives in the  *)
                 (* stack frame of the thread's present caller.            *)
  channel_list,  (* The list of channels, which callers pass by reference. *)
  pos,           (* The iterator over it of a thread that configures ...   *)
  stale,         (* ... and whether a reallocation has invalidated it.     *)
  calls          (* Number of calls made.                                  *)

threadVars == <<pc, method, ifmt, frame, pos, stale>>
ctlVars    == <<state, lock, turnoff>>
envVars    == <<channel_list, calls>>
wrapperVars == <<inputVars, outputVars, created, fault>>
vars == <<wrapperVars, ctlVars, threadVars, envVars>>

StateNames == { "Initial", "SetConfig", "SetFailed", "SetConfigFinished",
                "Process", "Finished", "Reset", "Idle" }

Configs == {"InitalAvio", "SetConfig"}
Methods == Configs \cup { "Process", "StopProcess", "CleanUp", "WriteEnd",
                        "OutputAmount" }

ConfigLocs  == { "cfg_announce", "cfg_alloc", "cfg_open", "cfg_output",
                 "cfg_accept", "cfg_reject", "cfg_rejected" }
ProcessLocs == { "prc_getifmt", "prc_announce", "prc_init", "prc_loop",
                 "prc_read", "prc_drain", "prc_finish" }
OtherLocs   == { "idle", "lock", "stp_check", "stp_arm", "stp_wait",
                 "cln_reset", "cln_wipe", "end_write", "out_amount" }
Locs == ConfigLocs \cup ProcessLocs \cup OtherLocs

(* The locations in the scope of a lock_guard on _lock_process. *)
Critical == { "cfg_alloc", "cfg_open", "cfg_output", "cfg_accept", "cfg_reject",
              "prc_init", "prc_loop", "prc_read", "prc_drain", "prc_finish",
              "cln_reset", "cln_wipe" }

(* First location of a method, and first one after its lock_guard. *)
Entry(m) == CASE m \in Configs        -> "cfg_announce"
              [] m = "Process"        -> "prc_getifmt"
              [] m = "StopProcess"    -> "stp_check"
              [] m = "CleanUp"        -> "lock"
              [] m = "OutputAmount"   -> "out_amount"
              [] OTHER                -> "end_write"

Locked(m) == CASE m = "InitalAvio" -> "cfg_alloc"
               [] m = "SetConfig"  -> "cfg_open"
               [] m = "Process"    -> "prc_init"
               [] OTHER            -> "cln_reset"

TypeOK ==
  /\ WrapperTypeOK
  /\ state \in StateNames
  /\ lock \in Threads \cup {NoThread}
  /\ turnoff \in BOOLEAN
  /\ pc \in [Threads -> Locs]
  /\ method \in [Threads -> Methods \cup {"none"}]
  /\ ifmt \in [Threads -> 0..created]
  /\ frame \in [Threads -> 0..created]
  /\ channel_list \in Seq(Channels)
  /\ pos \in [Threads -> Nat]
  /\ stale \in [Threads -> BOOLEAN]
  /\ calls \in Nat

(* The constructor passes through Idle (Initialize) to Initial. *)
Init ==
  /\ WrapperInit
  /\ state = "Initial"
  /\ lock = NoThread
  /\ turnoff = FALSE
  /\ pc = [t \in Threads |-> "idle"]
  /\ method = [t \in Threads |-> "none"]
  /\ ifmt = [t \in Threads |-> NoCtx]
  /\ frame = [t \in Threads |-> NoCtx]
  /\ channel_list \in Lists
  /\ pos = [t \in Threads |-> 1]
  /\ stale = [t \in Threads |-> FALSE]
  /\ calls = 0

At(t, l) == fault = "none" /\ pc[t] = l
Goto(t, l) == pc' = [pc EXCEPT ![t] = l]
Return(t) == Goto(t, "idle") /\ method' = [method EXCEPT ![t] = "none"]
SetState(s) == state' = s
LockProcess(t) == lock = NoThread /\ lock' = t
UnlockProcess == lock' = NoThread

(* A step that only moves t on, one that ends its method, and one that *)
(* kills the process where t is.                                       *)
Move(t, from, to) ==
  /\ At(t, from)
  /\ Goto(t, to)
  /\ UNCHANGED <<method, ifmt, frame, pos, stale>>
Leave(t, from) ==
  /\ At(t, from)
  /\ Return(t)
  /\ UNCHANGED <<ifmt, frame, pos, stale>>
Crash(t, at, why) ==
  /\ At(t, at)
  /\ Die(why)
  /\ UNCHANGED <<inputVars, outputVars, created, ctlVars, threadVars, envVars>>

-----------------------------------------------------------------------------
(* The environment: a call, a channel appended by the owner of the list,   *)
(* the end of the caller's frame that held the buffer descriptor, and the  *)
(* death of the process by an error of the program around the Transcoder.  *)

Call(t, m) ==
  /\ At(t, "idle")
  /\ calls < MaxCalls
  /\ calls' = calls + 1
  /\ Goto(t, Entry(m))
  /\ method' = [method EXCEPT ![t] = m]
  /\ UNCHANGED <<wrapperVars, ctlVars, ifmt, frame, pos, stale, channel_list>>

(* push_back may move the vector under a thread that iterates over it: to   *)
(* collect the pids, in the first moments of cfg_open, or channel by channel. *)
AppendChannel(c) ==
  /\ fault = "none"
  /\ Len(channel_list) < MaxList
  /\ channel_list' = Append(channel_list, c)
  /\ \E moved \in BOOLEAN :
       stale' = [t \in Threads |-> stale[t] \/ (moved /\ pc[t] \in {"cfg_open", "cfg_output"})]
  /\ UNCHANGED <<wrapperVars, ctlVars, pc, method, ifmt, frame, pos, calls>>

DropFrame(t) ==
  /\ At(t, "idle")
  /\ frame[t] # NoCtx
  /\ frame' = [frame EXCEPT ![t] = NoCtx]
  /\ UNCHANGED <<wrapperVars, ctlVars, pc, method, ifmt, pos, stale, envVars>>

CallerDies ==
  /\ fault = "none"
  /\ \E why \in {"terminate", "stale_iterator", "uninit_buffer"} : Die(why)
  /\ UNCHANGED <<inputVars, outputVars, created, ctlVars, threadVars, envVars>>

-----------------------------------------------------------------------------
(* Mutant: no lock_guard. *)
MutAcquireNothing(t) ==
  /\ Move(t, "lock", Locked(method[t]))
  /\ lock' = t
  /\ UNCHANGED <<wrapperVars, state, turnoff, envVars>>

(* The lock_guard of InitalAvio, SetConfig, Process and CleanUp. *)
AcquireProcessLock(t) ==
  /\ LockProcess(t)
  /\ Move(t, "lock", Locked(method[t]))
  /\ UNCHANGED <<wrapperVars, state, turnoff, envVars>>

-----------------------------------------------------------------------------
(* InitalAvio and SetConfig.  SetConfig is announced before the lock.      *)

(* Mutant: SetConfig is not announced. *)
MutCfgAnnounceNothing(t) ==
  /\ Move(t, "cfg_announce", "lock")
  /\ UNCHANGED <<wrapperVars, ctlVars, envVars>>

CfgAnnounce(t) ==
  /\ Move(t, "cfg_announce", "lock")
  /\ SetState("SetConfig")
  /\ UNCHANGED <<wrapperVars, lock, turnoff, envVars>>

CfgAlloc(t) ==
  /\ At(t, "cfg_alloc")
  /\ Goto(t, "cfg_open")
  /\ AllocInput
  /\ frame' = [frame EXCEPT ![t] = NewCtx]
  /\ UNCHANGED <<ctlVars, method, ifmt, pos, stale, envVars>>

CfgAllocFails(t) ==
  /\ Move(t, "cfg_alloc", "cfg_reject")
  /\ AllocInputFails
  /\ UNCHANGED <<ctlVars, envVars>>

(* The buffer descriptor that the read callback of context i works on is   *)
(* in the frame of the caller of InitalAvio.                               *)
FrameLive(i) == \E t \in Threads : frame[t] = i

(* The first loop over the list of channels ends before the input is        *)
(* opened; a push_back that came later has moved the list under nobody.     *)
CfgOpen(t) ==
  /\ At(t, "cfg_open")
  /\ Goto(t, "cfg_output")
  /\ OpenInput(channel_list)
  /\ pos' = [pos EXCEPT ![t] = 1]
  /\ stale' = [stale EXCEPT ![t] = FALSE]
  /\ UNCHANGED <<ctlVars, method, ifmt, frame, envVars>>

CfgOpenFails(t) ==
  /\ \/ Move(t, "cfg_open", "cfg_reject") /\ ProbeInputFails
     \/ At(t, "cfg_open") /\ OpenInputFails /\ UNCHANGED threadVars
  /\ UNCHANGED <<ctlVars, envVars>>

(* SetConfig on the context of a memory input, whose callback is asked for  *)
(* data again while the frame it works on is gone.                          *)
CfgOpenFaults(t) ==
  /\ ifmt_ctx \in inputs \cap memory /\ ~FrameLive(ifmt_ctx)
  /\ Crash(t, "cfg_open", "stale_buffer")

(* The second loop over the list of channels. *)
ThisChannel(t) == channel_list[pos[t]]
Iterates(t) == At(t, "cfg_output") /\ ~stale[t] /\ pos[t] <= Len(channel_list)

CfgOutput(t) ==
  /\ Iterates(t)
  /\ OfmtInital(ThisChannel(t))
  /\ pos' = [pos EXCEPT ![t] = @ + 1]
  /\ UNCHANGED <<ctlVars, pc, method, ifmt, frame, stale, envVars>>

CfgOutputFails(t) ==
  /\ Iterates(t)
  /\ \/ OfmtInitalFails(ThisChannel(t)) /\ Move(t, "cfg_output", "cfg_reject")
     \/ OfmtInitalFaults(ThisChannel(t)) /\ UNCHANGED threadVars
  /\ UNCHANGED <<ctlVars, envVars>>

CfgIteratorFault(t) ==
  /\ stale[t]
  /\ \E l \in {"cfg_open", "cfg_output"} : Crash(t, l, "stale_iterator")

CfgOutputsDone(t) ==
  /\ ~stale[t] /\ pos[t] > Len(channel_list)
  /\ Move(t, "cfg_output", "cfg_accept")
  /\ UNCHANGED <<wrapperVars, ctlVars, envVars>>

CfgAccept(t) ==
  /\ Leave(t, "cfg_accept")
  /\ SetState("SetConfigFinished")
  /\ UnlockProcess
  /\ UNCHANGED <<wrapperVars, turnoff, envVars>>

(* Mutants: the error path keeps the lock; failure is not reported, or as  *)
(* success.                                                                *)
MutCfgRejectKeepsLock(t) ==
  /\ Leave(t, "cfg_reject")
  /\ SetState("SetFailed")
  /\ UNCHANGED <<wrapperVars, lock, turnoff, envVars>>

MutCfgRejectedSilently(t) ==
  /\ Leave(t, "cfg_rejected")
  /\ UNCHANGED <<wrapperVars, ctlVars, envVars>>

MutCfgRejectedFinished(t) ==
  /\ Leave(t, "cfg_rejected")
  /\ SetState("SetConfigFinished")
  /\ UNCHANGED <<wrapperVars, lock, turnoff, envVars>>

(* InitalAvio reports the failure under the lock; SetConfig throws, and so *)
(* releases the lock before its catch block reports.                       *)
CfgReject(t) ==
  /\ UnlockProcess
  /\ \/ /\ method[t] = "InitalAvio"
        /\ Leave(t, "cfg_reject")
        /\ SetState("SetFailed")
     \/ /\ method[t] = "SetConfig"
        /\ Move(t, "cfg_reject", "cfg_rejected")
        /\ UNCHANGED state
  /\ UNCHANGED <<wrapperVars, turnoff, envVars>>

CfgRejected(t) ==
  /\ Leave(t, "cfg_rejected")
  /\ SetState("SetFailed")
  /\ UNCHANGED <<wrapperVars, lock, turnoff, envVars>>

ConfigStep(t) ==
  \/ CfgAnnounce(t) \/ CfgAlloc(t) \/ CfgAllocFails(t) \/ CfgOpen(t)
  \/ CfgOpenFails(t) \/ CfgOpenFaults(t) \/ CfgOutput(t) \/ CfgOutputFails(t)
  \/ CfgIteratorFault(t) \/ CfgOutputsDone(t) \/ CfgAccept(t)
  \/ CfgReject(t) \/ CfgRejected(t)

-----------------------------------------------------------------------------
(* Process.  The input pointer is read, and Process announced, before the  *)
(* lock is taken.                                                          *)

PrcGetIfmt(t) ==
  /\ At(t, "prc_getifmt")
  /\ Goto(t, "prc_announce")
  /\ ifmt' = [ifmt EXCEPT ![t] = ifmt_ctx]
  /\ UNCHANGED <<wrapperVars, ctlVars, method, frame, pos, stale, envVars>>

(* Mutant: Process is not announced. *)
MutPrcAnnounceNothing(t) ==
  /\ Move(t, "prc_announce", "lock")
  /\ UNCHANGED <<wrapperVars, ctlVars, envVars>>

PrcAnnounce(t) ==
  /\ Move(t, "prc_announce", "lock")
  /\ SetState("Process")
  /\ UNCHANGED <<wrapperVars, lock, turnoff, envVars>>

Detached(s) == pidObject[s].in \notin inputs \/ pidObject[s].out \notin outputs

(* InitalTool of every slot; Audio's reads both contexts, Video's is empty. *)
PrcInitTools(t) ==
  /\ \A s \in Streams : /\ pidObject[s].is # "null"
                        /\ s \in Objects /\ Kind[s] = "audio" => ~Detached(s)
  /\ Move(t, "prc_init", "prc_loop")
  /\ UNCHANGED <<wrapperVars, ctlVars, envVars>>

PrcInitFaults(t) ==
  \/ /\ \E s \in Streams : pidObject[s].is = "null"
     /\ Crash(t, "prc_init", "null_stream")
  \/ /\ \E s \in Objects : Kind[s] = "audio" /\ Detached(s)
     /\ Crash(t, "prc_init", "freed_context")

(* Mutant: the loop does not look at the flag. *)
MutPrcLoopDeaf(t) ==
  /\ Move(t, "prc_loop", "prc_read")
  /\ UNCHANGED <<wrapperVars, ctlVars, envVars>>

(* while (!_turnoff) *)
PrcLoop(t) ==
  /\ Move(t, "prc_loop", IF turnoff THEN "prc_drain" ELSE "prc_read")
  /\ UNCHANGED <<wrapperVars, ctlVars, envVars>>

(* av_read_frame: the end of the input (or an error), or a packet of some  *)
(* stream, given to the stream object of its slot.                         *)
PrcReadEnds(t) ==
  /\ ifmt[t] \in inputs
  /\ Move(t, "prc_read", "prc_drain")
  /\ UNCHANGED <<wrapperVars, ctlVars, envVars>>

PrcReadPacket(t, s) ==
  /\ ifmt[t] \in inputs
  /\ s \in Objects => ~Detached(s)
  /\ Move(t, "prc_read", "prc_loop")
  /\ UNCHANGED <<wrapperVars, ctlVars, envVars>>

PrcReadFaults(t) ==
  \/ ifmt[t] = NoCtx /\ Crash(t, "prc_read", "null_input")
  \/ ifmt[t] \notin inputs \cup {NoCtx} /\ Crash(t, "prc_read", "freed_context")
  \/ /\ ifmt[t] \in inputs \cap memory /\ ~FrameLive(ifmt[t])
     /\ Crash(t, "prc_read", "stale_buffer")
  \/ /\ ifmt[t] \in inputs /\ \E s \in Objects : Detached(s)
     /\ Crash(t, "prc_read", "freed_context")
  \/ /\ ifmt[t] \in inputs /\ \E s \in Objects : pidObject[s].out \in ended
     /\ Crash(t, "prc_read", "after_trailer")
  \/ /\ ifmt[t] \in inputs /\ \E s \in Objects : Kind[s] = "audio"
     /\ "audio" \in Failures /\ Crash(t, "prc_read", "audio_object")

(* FlushEncoder, then CleanUp and reset of every stream object.  The keys  *)
(* stay in the map.                                                        *)
PrcDrain(t) ==
  /\ \A s \in Objects : pidObject[s].out \in outputs
  /\ Move(t, "prc_drain", "prc_finish")
  /\ pidObject' = [s \in Streams |->
                     IF s \in Objects THEN Emptied ELSE pidObject[s]]
  /\ UNCHANGED <<inputVars, outputs, ended, ofmt_list, created, fault,
                 ctlVars, envVars>>

PrcDrainFaults(t) ==
  \/ /\ \E s \in Objects : pidObject[s].out \notin outputs
     /\ Crash(t, "prc_drain", "freed_context")
  \/ /\ \E s \in Objects : pidObject[s].out \in ended
     /\ Crash(t, "prc_drain", "after_trailer")

(* Mutants: the end is not reported; the lock is not released. *)
MutPrcFinishSilently(t) ==
  /\ Leave(t, "prc_finish")
  /\ UnlockProcess
  /\ UNCHANGED <<wrapperVars, state, turnoff, envVars>>

MutPrcFinishKeepsLock(t) ==
  /\ Leave(t, "prc_finish")
  /\ SetState("Finished")
  /\ UNCHANGED <<wrapperVars, lock, turnoff, envVars>>

PrcFinish(t) ==
  /\ Leave(t, "prc_finish")
  /\ SetState("Finished")
  /\ UnlockProcess
  /\ UNCHANGED <<wrapperVars, turnoff, envVars>>

ProcessStep(t) ==
  \/ PrcGetIfmt(t) \/ PrcAnnounce(t) \/ PrcInitTools(t) \/ PrcInitFaults(t)
  \/ PrcLoop(t) \/ PrcReadEnds(t) \/ (\E s \in Streams : PrcReadPacket(t, s))
  \/ PrcReadFaults(t) \/ PrcDrain(t) \/ PrcDrainFaults(t) \/ PrcFinish(t)

-----------------------------------------------------------------------------
(* StopProcess: the state is tested without the lock and acted on later.   *)

StpRefused(t) ==
  /\ state # "Process"
  /\ Leave(t, "stp_check")
  /\ UNCHANGED <<wrapperVars, ctlVars, envVars>>

StpAccepted(t) ==
  /\ state = "Process"
  /\ Move(t, "stp_check", "stp_arm")
  /\ UNCHANGED <<wrapperVars, ctlVars, envVars>>

StpArm(t) ==
  /\ Move(t, "stp_arm", "stp_wait")
  /\ turnoff' = TRUE
  /\ UNCHANGED <<wrapperVars, state, lock, envVars>>

StopStep(t) == StpRefused(t) \/ StpAccepted(t) \/ StpArm(t)

(* _cleanup_done.wait has no predicate: it may return unnotified.  Nothing *)
(* else ends it: CleanUp dies before it notifies.                          *)
StpWakesUp(t) ==
  /\ Leave(t, "stp_wait")
  /\ UNCHANGED <<wrapperVars, ctlVars, envVars>>

-----------------------------------------------------------------------------
(* CleanUp never gets past _wrapper->Cleanup (see CloseInputTwice).        *)

ClnReset(t) ==
  /\ Move(t, "cln_reset", "cln_wipe")
  /\ SetState("Reset")
  /\ UNCHANGED <<wrapperVars, lock, turnoff, envVars>>

ClnWipe(t) ==
  /\ At(t, "cln_wipe")
  /\ CloseInputTwice
  /\ UNCHANGED <<ctlVars, threadVars, envVars>>

CleanStep(t) == ClnReset(t) \/ ClnWipe(t)

-----------------------------------------------------------------------------
(* WriteEnd and OutputAmount walk _ofmt_list and _pidObject without the    *)
(* lock; a thread that configures inserts into both.                       *)

Inserting == \E u \in Threads : pc[u] = "cfg_output"

(* Mutant: one output of the list gets no trailer. *)
MutEndWriteMisses(t) ==
  /\ ofmt_list \cap ended = {}
  /\ Leave(t, "end_write")
  /\ \E o \in ofmt_list : ended' = ended \cup (ofmt_list \ {o})
  /\ UNCHANGED <<inputVars, outputs, ofmt_list, pidObject, created, fault,
                 ctlVars, envVars>>

EndWrite(t) ==
  /\ ofmt_list \cap ended = {}
  /\ Leave(t, "end_write")
  /\ ended' = ended \cup ofmt_list
  /\ UNCHANGED <<inputVars, outputs, ofmt_list, pidObject, created, fault,
                 ctlVars, envVars>>

EndWriteFaults(t) ==
  \/ ofmt_list \cap ended # {} /\ Crash(t, "end_write", "after_trailer")
  \/ Inserting /\ Crash(t, "end_write", "stale_iterator")

(* Codecname of every slot: the names of the stream's decoder and encoder. *)
Nameless(s) == <<pidObject[s].in, s>> \notin decoders

OutputAmount(t) ==
  /\ \A s \in Streams : /\ pidObject[s].is # "null"
                        /\ s \in Objects => ~Detached(s) /\ ~Nameless(s)
  /\ Leave(t, "out_amount")
  /\ UNCHANGED <<wrapperVars, ctlVars, envVars>>

OutputAmountFaults(t) ==
  \/ /\ \E s \in Streams : pidObject[s].is = "null"
     /\ Crash(t, "out_amount", "null_stream")
  \/ /\ \E s \in Objects : Detached(s)
     /\ Crash(t, "out_amount", "freed_context")
  \/ /\ \E s \in Objects : ~Detached(s) /\ Nameless(s)
     /\ Crash(t, "out_amount", "null_codec")
  \/ Inserting /\ Crash(t, "out_amount", "stale_iterator")

WalkStep(t) ==
  \/ EndWrite(t) \/ EndWriteFaults(t) \/ OutputAmount(t) \/ OutputAmountFaults(t)

-----------------------------------------------------------------------------
Step(t) ==
  \/ AcquireProcessLock(t)
  \/ ConfigStep(t)
  \/ ProcessStep(t)
  \/ StopStep(t)
  \/ CleanStep(t)
  \/ WalkStep(t)

Environment ==
  \/ \E t \in Threads, m \in Methods : Call(t, m)
  \/ \E c \in Channels : AppendChannel(c)
  \/ \E t \in Threads : DropFrame(t) \/ StpWakesUp(t)
  \/ CallerDies

Next == Environment \/ \E t \in Threads : Step(t)

Spec == Init /\ [][Next]_vars

(* A thread that can run does run; the input may never end. *)
FairSpec == Spec /\ \A t \in Threads : WF_vars(Step(t))

(* The input is a file: reading it comes to its end. *)
InputEnds == \A t \in Threads : SF_vars(PrcReadEnds(t))
FileSpec  == FairSpec /\ InputEnds

-----------------------------------------------------------------------------
(***************************************************************************)
(* Properties, for every use of the Transcoder by any number of threads.   *)
(***************************************************************************)

(* _lock_process is held by exactly the thread that is inside one of its    *)
(* four critical sections, whichever way it got there and leaves it: the    *)
(* exceptions of InitalAvio and SetConfig, Finished, a thread that dies.    *)
Mutex == \A t \in Threads : pc[t] \in Critical <=> lock = t

(* Every transient status is the doing of a thread that will replace it: a  *)
(* thread that configures, that processes, or that cleans up.               *)
Configuring(t) == \/ pc[t] \in ConfigLocs \ {"cfg_announce"}
                  \/ pc[t] = "lock" /\ method[t] \in Configs
Processing(t) == \/ pc[t] \in ProcessLocs \ {"prc_getifmt", "prc_announce"}
                 \/ pc[t] = "lock" /\ method[t] = "Process"
StatusIsAttributed ==
  /\ \A t \in Threads :
       /\ pc[t] = "cfg_announce" => method[t] \in Configs
       /\ pc[t] \in {"prc_getifmt", "prc_announce"} => method[t] = "Process"
  /\ state = "SetConfig" => \E t \in Threads : Configuring(t)
  /\ state = "Process"   => \E t \in Threads : Processing(t)
  /\ state = "Reset"     => \E t \in Threads : pc[t] = "cln_wipe"
  /\ state # "Idle"

(* Every status written before the lock is taken is followed by an outcome: *)
(* with no method running, the status is never left at SetConfig, Process,  *)
(* Reset or the Idle of the constructor, however the writes of several      *)
(* callers overlap.                                                         *)
Quiescent == \A t \in Threads : pc[t] = "idle"
QuiescentStateIsTerminal ==
  fault = "none" /\ Quiescent =>
    state \in {"Initial", "SetConfigFinished", "SetFailed", "Finished"}

(* The contexts a Process works on outlive it: while a thread transcodes,   *)
(* no other thread opens, closes or rebinds anything it may reach through   *)
(* _pidObject.                                                              *)
Transcoding(t) == pc[t] \in {"prc_init", "prc_loop", "prc_read", "prc_drain"}
NoFreeUnderTranscode ==
  [][ \A t \in Threads :
        Transcoding(t) /\ Transcoding(t)' =>
          /\ inputs' = inputs /\ outputs' = outputs
          /\ pidObject' = pidObject /\ ofmt_list' = ofmt_list ]_vars

(* A stream index is bound once, to the first channel that selects it: a    *)
(* later configuration neither moves a stream to its own output nor revives *)
(* a slot that Process has emptied.                                         *)
FirstBindingWins ==
  [][ \A s \in Streams :
        pidObject[s].is # "absent" => pidObject'[s] \in {pidObject[s], Emptied} ]_vars

(* The list that WriteEnd walks holds exactly the outputs that exist: none  *)
(* freed by a rejection stays in it, none accepted is lost, whatever mix of *)
(* accepted and rejected channels the callers have sent; and no output gets *)
(* a trailer that was not accepted before.                                  *)
OutputsListed == outputs = ofmt_list /\ ended \subseteq ofmt_list

(* After StopProcess has raised the flag, nobody starts to read another     *)
(* packet: not the Process it was meant for, nor any later one.             *)
StopIsForever ==
  [][ turnoff => turnoff' /\ \A t \in Threads :
        pc[t] # "prc_read" => pc'[t] # "prc_read" ]_vars

(* A stop that was accepted gets the transcoding loop to its flushing, even *)
(* on an input that never ends (a live source), without an end of file.     *)
StopDrains ==
  \A t \in Threads :
    turnoff /\ pc[t] \in {"prc_loop", "prc_read"} ~>
      pc[t] \notin {"prc_loop", "prc_read"} \/ fault # "none"

(* On an input that ends, every call but StopProcess returns, or the        *)
(* process dies: no thread is left waiting for the lock.                    *)
CallsReturn ==
  InputEnds => \A t \in Threads :
    method[t] \notin {"none", "StopProcess"} ~> method[t] = "none" \/ fault # "none"

(* What the header promises of StopProcess: "will automatically Cleanup".   *)
StopCleansUp ==
  \A t \in Threads : pc[t] = "stp_wait" ~> state = "Idle" \/ fault # "none"
=============================================================================
