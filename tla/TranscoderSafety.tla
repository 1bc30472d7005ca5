-------------------------- MODULE TranscoderSafety --------------------------
(***************************************************************************)
(* The safety properties of Transcoder, for every use of it.  All rest on  *)
(* three invariants: types, mutual exclusion, and Attributed, which gives  *)
(* each transient status the thread that will replace it.                  *)
(***************************************************************************)
EXTENDS TranscoderProofs

-----------------------------------------------------------------------------
(* How a step of a thread moves the lock and the thread, five ways.        *)

LEMMA MoveInside ==
  ASSUME TypeOK, Mutex, NEW t \in Threads, NEW from, NEW to,
         Move(t, from, to), lock' = lock, from \in Critical <=> to \in Critical
  PROVE  Mutex'
BY DEF TypeOK, Mutex, Move, At, Goto

LEMMA LeaveOutside ==
  ASSUME TypeOK, Mutex, NEW t \in Threads, NEW from, from \notin Critical,
         Leave(t, from), lock' = lock
  PROVE  Mutex'
BY DEF TypeOK, Mutex, Leave, Return, At, Goto, Critical

LEMMA LeaveUnlocking ==
  ASSUME TypeOK, Mutex, NEW t \in Threads, NEW from \in Critical,
         \/ Leave(t, from)
         \/ \E to : to \notin Critical /\ Move(t, from, to),
         UnlockProcess
  PROVE  Mutex'
<1>1. lock = t /\ lock' = NoThread
  BY DEF Mutex, Leave, Move, At, UnlockProcess
<1>2. \A u \in Threads : u # t => pc'[u] = pc[u]
  BY DEF TypeOK, Leave, Move, Return, Goto
<1>3. pc'[t] \notin Critical
  BY DEF TypeOK, Leave, Move, Return, Goto, Critical
<1> QED
  BY <1>1, <1>2, <1>3, NoThreadAssumption DEF Mutex

LEMMA EnterLocking ==
  ASSUME TypeOK, Mutex, NEW t \in Threads, AcquireProcessLock(t)
  PROVE  Mutex'
<1>1. lock = NoThread /\ lock' = t
  BY DEF AcquireProcessLock, LockProcess
<1>2. pc'[t] \in Critical /\ \A u \in Threads : u # t => pc'[u] = pc[u]
  BY LocationsExist DEF TypeOK, AcquireProcessLock, Move, Goto
<1> QED
  BY <1>1, <1>2, NoThreadAssumption DEF Mutex

LEMMA NobodyMoves ==
  ASSUME Mutex, UNCHANGED <<pc, lock>>
  PROVE  Mutex'
BY DEF Mutex

LEMMA ConfigStepMutex ==
  ASSUME TypeOK, Mutex, NEW t \in Threads, ConfigStep(t)
  PROVE  Mutex'
<1>1. CASE CfgAnnounce(t)
  BY <1>1, MoveInside DEF CfgAnnounce, Critical
<1>2. CASE CfgAlloc(t) \/ CfgOpen(t)
  BY <1>2 DEF CfgAlloc, CfgOpen, At, Goto, ctlVars, TypeOK, Mutex, Critical
<1>3. CASE CfgAllocFails(t)
  BY <1>3, MoveInside DEF CfgAllocFails, ctlVars, Critical
<1>4. CASE CfgOpenFails(t)
  BY <1>4, MoveInside, NobodyMoves DEF CfgOpenFails, ctlVars, threadVars, Critical
<1>5. CASE CfgOutput(t)
  BY <1>5, NobodyMoves DEF CfgOutput, ctlVars
<1>6. CASE CfgOutputFails(t)
  BY <1>6, MoveInside, NobodyMoves DEF CfgOutputFails, ctlVars, threadVars, Critical
<1>7. CASE CfgOpenFaults(t) \/ CfgIteratorFault(t)
  BY <1>7, NobodyMoves DEF CfgOpenFaults, CfgIteratorFault, Crash, ctlVars, threadVars
<1>8. CASE CfgOutputsDone(t)
  BY <1>8, MoveInside DEF CfgOutputsDone, ctlVars, Critical
<1>9. CASE CfgAccept(t) \/ CfgReject(t)
  BY <1>9, LeaveUnlocking DEF CfgAccept, CfgReject, Critical
<1>10. CASE CfgRejected(t)
  BY <1>10, LeaveOutside DEF CfgRejected, Critical
<1> QED
  BY <1>1, <1>2, <1>3, <1>4, <1>5, <1>6, <1>7, <1>8, <1>9, <1>10 DEF ConfigStep

LEMMA ProcessStepMutex ==
  ASSUME TypeOK, Mutex, NEW t \in Threads, ProcessStep(t)
  PROVE  Mutex'
<1>1. CASE PrcGetIfmt(t)
  BY <1>1 DEF PrcGetIfmt, At, Goto, ctlVars, TypeOK, Mutex, Critical
<1>2. CASE PrcAnnounce(t)
  BY <1>2, MoveInside DEF PrcAnnounce, Critical
<1>3. CASE PrcInitTools(t) \/ PrcLoop(t) \/ PrcReadEnds(t)
  BY <1>3, MoveInside DEF PrcInitTools, PrcLoop, PrcReadEnds, ctlVars, Critical
<1>4. CASE \E s \in Streams : PrcReadPacket(t, s)
  BY <1>4, MoveInside DEF PrcReadPacket, ctlVars, Critical
<1>5. CASE PrcDrain(t)
  BY <1>5, MoveInside DEF PrcDrain, ctlVars, Critical
<1>6. CASE PrcInitFaults(t) \/ PrcReadFaults(t) \/ PrcDrainFaults(t)
  BY <1>6, NobodyMoves DEF PrcInitFaults, PrcReadFaults, PrcDrainFaults, Crash, ctlVars, threadVars
<1>7. CASE PrcFinish(t)
  BY <1>7, LeaveUnlocking DEF PrcFinish, Critical
<1> QED
  BY <1>1, <1>2, <1>3, <1>4, <1>5, <1>6, <1>7 DEF ProcessStep

LEMMA OtherStepMutex ==
  ASSUME TypeOK, Mutex, NEW t \in Threads,
         AcquireProcessLock(t) \/ StopStep(t) \/ CleanStep(t) \/ WalkStep(t) \/ StpWakesUp(t)
  PROVE  Mutex'
<1>1. CASE AcquireProcessLock(t)
  BY <1>1, EnterLocking
<1>2. CASE StpRefused(t) \/ StpWakesUp(t)
  BY <1>2, LeaveOutside DEF StpRefused, StpWakesUp, ctlVars, Critical
<1>3. CASE StpAccepted(t) \/ StpArm(t)
  BY <1>3, MoveInside DEF StpAccepted, StpArm, ctlVars, Critical
<1>4. CASE ClnReset(t)
  BY <1>4, MoveInside DEF ClnReset, Critical
<1>5. CASE ClnWipe(t)
  BY <1>5, NobodyMoves DEF ClnWipe, ctlVars, threadVars
<1>6. CASE EndWrite(t) \/ OutputAmount(t)
  BY <1>6, LeaveOutside DEF EndWrite, OutputAmount, ctlVars, Critical
<1>7. CASE EndWriteFaults(t) \/ OutputAmountFaults(t)
  BY <1>7, NobodyMoves DEF EndWriteFaults, OutputAmountFaults, Crash, ctlVars, threadVars
<1> QED
  BY <1>1, <1>2, <1>3, <1>4, <1>5, <1>6, <1>7 DEF StopStep, CleanStep, WalkStep

LEMMA EnvironmentMutex ==
  ASSUME TypeOK, Mutex, Environment
  PROVE  Mutex'
<1>1. ASSUME NEW t \in Threads, NEW m \in Methods, Call(t, m)
      PROVE  Mutex'
  <2>1. Entry(m) \notin Critical
    BY DEF Entry, Methods, Configs, Critical
  <2> QED
    BY <1>1, <2>1 DEF Call, At, Goto, ctlVars, TypeOK, Mutex, Critical
<1>2. CASE \/ \E c \in Channels : AppendChannel(c)
           \/ \E t \in Threads : DropFrame(t)
           \/ CallerDies
  BY <1>2, NobodyMoves DEF AppendChannel, DropFrame, CallerDies, ctlVars, threadVars
<1> QED
  BY <1>1, <1>2, OtherStepMutex DEF Environment

(* _lock_process is held by exactly the thread inside a critical section.   *)
THEOREM MutualExclusion == Spec => []Mutex
<1>1. Init => Mutex
  BY NoThreadAssumption DEF Init, Mutex, Critical
<1>2. ASSUME TypeOK, Mutex, [Next]_vars PROVE Mutex'
  <2>1. CASE Next
    BY <1>2, <2>1, ConfigStepMutex, ProcessStepMutex, OtherStepMutex, EnvironmentMutex
       DEF Next, Step
  <2>2. CASE UNCHANGED vars
    BY <1>2, <2>2, NobodyMoves DEF vars, ctlVars, threadVars
  <2> QED
    BY <1>2, <2>1, <2>2
<1> QED
  BY <1>1, <1>2, TypeCorrect, PTL DEF Spec

-----------------------------------------------------------------------------
(* The status.  StatusStep(u) says of a step of u what StatusIsAttributed  *)
(* needs: the other threads stay where they are, and u keeps what it       *)
(* answers for, or writes a status that it answers for, or an outcome.     *)

Outcomes == {"Initial", "SetConfigFinished", "SetFailed", "Finished"}

StatusStep(u) ==
  /\ \A v \in Threads : v # u => pc'[v] = pc[v] /\ method'[v] = method[v]
  /\ pc'[u] = "cfg_announce" => method'[u] \in Configs
  /\ pc'[u] \in {"prc_getifmt", "prc_announce"} => method'[u] = "Process"
  /\ \/ /\ state' = state
        /\ Configuring(u) => Configuring(u)'
        /\ Processing(u) => Processing(u)'
        /\ pc[u] = "cln_wipe" => pc'[u] = "cln_wipe"
     \/ state' = "SetConfig" /\ Configuring(u)'
     \/ state' = "Process" /\ Processing(u)'
     \/ state' = "Reset" /\ pc'[u] = "cln_wipe"
     \/ state' \in Outcomes

LEMMA StatusStepAttributes ==
  ASSUME StatusIsAttributed, NEW u \in Threads, StatusStep(u)
  PROVE  StatusIsAttributed'
<1>1. \A v \in Threads : v # u => /\ Configuring(v)' = Configuring(v)
                                  /\ Processing(v)' = Processing(v)
  BY DEF StatusStep, Configuring, Processing
<1>2. /\ state' = "SetConfig" => \E t \in Threads : Configuring(t)'
      /\ state' = "Process" => \E t \in Threads : Processing(t)'
  BY <1>1 DEF StatusStep, StatusIsAttributed, Outcomes
<1>3. /\ state' = "Reset" => \E t \in Threads : pc'[t] = "cln_wipe"
      /\ state' # "Idle"
  BY DEF StatusStep, StatusIsAttributed, Outcomes
<1>4. \A t \in Threads :
        /\ pc'[t] = "cfg_announce" => method'[t] \in Configs
        /\ pc'[t] \in {"prc_getifmt", "prc_announce"} => method'[t] = "Process"
  BY DEF StatusStep, StatusIsAttributed
<1> QED
  BY <1>2, <1>3, <1>4 DEF StatusIsAttributed

LEMMA NoStatusStep ==
  ASSUME StatusIsAttributed, UNCHANGED <<pc, method, state>>
  PROVE  StatusIsAttributed'
BY DEF StatusIsAttributed, Configuring, Processing

LEMMA ConfigStatus ==
  ASSUME TypeOK, StatusIsAttributed, NEW t \in Threads, ConfigStep(t)
  PROVE  StatusIsAttributed'
<1> USE DEF At, Goto, ConfigLocs, ProcessLocs, Configuring, Processing, ctlVars, threadVars
<1>1. CASE CfgAnnounce(t)
  <2>1. StatusStep(t)
    BY <1>1 DEF TypeOK, StatusIsAttributed, CfgAnnounce, Move, SetState, StatusStep
  <2> QED
    BY <2>1, StatusStepAttributes
<1>2. CASE CfgAlloc(t) \/ CfgOpen(t)
  <2>1. StatusStep(t)
    BY <1>2 DEF TypeOK, CfgAlloc, CfgOpen, StatusStep
  <2> QED
    BY <2>1, StatusStepAttributes
<1>3. CASE CfgAllocFails(t) \/ CfgOutputsDone(t)
  <2>1. StatusStep(t)
    BY <1>3 DEF TypeOK, CfgAllocFails, CfgOutputsDone, Move, StatusStep
  <2> QED
    BY <2>1, StatusStepAttributes
<1>4. CASE CfgOpenFails(t) /\ Move(t, "cfg_open", "cfg_reject")
  <2>1. StatusStep(t)
    BY <1>4 DEF TypeOK, CfgOpenFails, Move, StatusStep
  <2> QED
    BY <2>1, StatusStepAttributes
<1>5. CASE CfgOutputFails(t) /\ Move(t, "cfg_output", "cfg_reject")
  <2>1. StatusStep(t)
    BY <1>5 DEF TypeOK, CfgOutputFails, Move, StatusStep
  <2> QED
    BY <2>1, StatusStepAttributes
<1>6. CASE (CfgOpenFails(t) \/ CfgOutputFails(t)) /\ UNCHANGED threadVars
  BY <1>6, NoStatusStep DEF CfgOpenFails, CfgOutputFails
<1>7. CASE CfgOutput(t) \/ CfgOpenFaults(t) \/ CfgIteratorFault(t)
  BY <1>7, NoStatusStep DEF CfgOutput, CfgOpenFaults, CfgIteratorFault, Crash
<1>8. CASE CfgAccept(t) \/ CfgRejected(t)
  <2>1. StatusStep(t)
    BY <1>8 DEF TypeOK, CfgAccept, CfgRejected, Leave, Return, SetState, StatusStep, Outcomes
  <2> QED
    BY <2>1, StatusStepAttributes
<1>9. CASE CfgReject(t)
  <2>1. StatusStep(t)
    BY <1>9 DEF TypeOK, CfgReject, Leave, Move, Return, SetState, StatusStep, Outcomes
  <2> QED
    BY <2>1, StatusStepAttributes
<1> QED
  BY <1>1, <1>2, <1>3, <1>4, <1>5, <1>6, <1>7, <1>8, <1>9
     DEF ConfigStep, CfgOpenFails, CfgOutputFails

LEMMA ProcessStatus ==
  ASSUME TypeOK, StatusIsAttributed, NEW t \in Threads, ProcessStep(t)
  PROVE  StatusIsAttributed'
<1> USE DEF At, Goto, ConfigLocs, ProcessLocs, Configuring, Processing, ctlVars, threadVars
<1>1. CASE PrcGetIfmt(t)
  <2>1. StatusStep(t)
    BY <1>1 DEF TypeOK, StatusIsAttributed, PrcGetIfmt, StatusStep
  <2> QED
    BY <2>1, StatusStepAttributes
<1>2. CASE PrcAnnounce(t)
  <2>1. StatusStep(t)
    BY <1>2 DEF TypeOK, StatusIsAttributed, PrcAnnounce, Move, SetState, StatusStep
  <2> QED
    BY <2>1, StatusStepAttributes
<1>3. CASE PrcInitTools(t) \/ PrcLoop(t) \/ PrcReadEnds(t) \/ PrcDrain(t)
  <2>1. StatusStep(t)
    BY <1>3 DEF TypeOK, PrcInitTools, PrcLoop, PrcReadEnds, PrcDrain, Move, StatusStep
  <2> QED
    BY <2>1, StatusStepAttributes
<1>4. CASE \E s \in Streams : PrcReadPacket(t, s)
  <2>1. StatusStep(t)
    BY <1>4 DEF TypeOK, PrcReadPacket, Move, StatusStep
  <2> QED
    BY <2>1, StatusStepAttributes
<1>5. CASE PrcInitFaults(t) \/ PrcReadFaults(t) \/ PrcDrainFaults(t)
  BY <1>5, NoStatusStep DEF PrcInitFaults, PrcReadFaults, PrcDrainFaults, Crash
<1>6. CASE PrcFinish(t)
  <2>1. StatusStep(t)
    BY <1>6 DEF TypeOK, PrcFinish, Leave, Return, SetState, StatusStep, Outcomes
  <2> QED
    BY <2>1, StatusStepAttributes
<1> QED
  BY <1>1, <1>2, <1>3, <1>4, <1>5, <1>6 DEF ProcessStep

LEMMA OtherStatus ==
  ASSUME TypeOK, StatusIsAttributed, NEW t \in Threads,
         AcquireProcessLock(t) \/ StopStep(t) \/ CleanStep(t) \/ WalkStep(t) \/ StpWakesUp(t)
  PROVE  StatusIsAttributed'
<1> USE DEF At, Goto, ConfigLocs, ProcessLocs, Configuring, Processing, ctlVars, threadVars
<1>1. CASE AcquireProcessLock(t)
  <2>1. StatusStep(t)
    BY <1>1 DEF TypeOK, AcquireProcessLock, Move, Locked, Configs, StatusStep
  <2> QED
    BY <2>1, StatusStepAttributes
<1>2. CASE StpRefused(t) \/ StpWakesUp(t) \/ EndWrite(t) \/ OutputAmount(t)
  <2>1. StatusStep(t)
    BY <1>2 DEF TypeOK, StpRefused, StpWakesUp, EndWrite, OutputAmount, Leave, Return, StatusStep
  <2> QED
    BY <2>1, StatusStepAttributes
<1>3. CASE StpAccepted(t) \/ StpArm(t) \/ ClnReset(t)
  <2>1. StatusStep(t)
    BY <1>3 DEF TypeOK, StpAccepted, StpArm, ClnReset, Move, SetState, StatusStep
  <2> QED
    BY <2>1, StatusStepAttributes
<1>4. CASE ClnWipe(t) \/ EndWriteFaults(t) \/ OutputAmountFaults(t)
  BY <1>4, NoStatusStep DEF ClnWipe, EndWriteFaults, OutputAmountFaults, Crash
<1> QED
  BY <1>1, <1>2, <1>3, <1>4 DEF StopStep, CleanStep, WalkStep

LEMMA EnvironmentStatus ==
  ASSUME TypeOK, StatusIsAttributed, Environment
  PROVE  StatusIsAttributed'
<1>1. ASSUME NEW t \in Threads, NEW m \in Methods, Call(t, m)
      PROVE  StatusIsAttributed'
  <2>1. /\ Entry(m) = "cfg_announce" => m \in Configs
        /\ Entry(m) \in {"prc_getifmt", "prc_announce"} => m = "Process"
    BY DEF Entry, Methods, Configs
  <2>2. StatusStep(t)
    BY <1>1, <2>1 DEF TypeOK, Call, At, Goto, ConfigLocs, ProcessLocs, Configuring,
                      Processing, ctlVars, StatusStep
  <2> QED
    BY <2>2, StatusStepAttributes
<1>2. CASE \/ \E c \in Channels : AppendChannel(c)
           \/ \E t \in Threads : DropFrame(t)
           \/ CallerDies
  BY <1>2, NoStatusStep DEF AppendChannel, DropFrame, CallerDies, ctlVars, threadVars
<1> QED
  BY <1>1, <1>2, OtherStatus DEF Environment

(* Each transient status has a thread that will replace it.                 *)
THEOREM StatusAttributed == Spec => []StatusIsAttributed
<1>1. Init => StatusIsAttributed
  BY DEF Init, StatusIsAttributed
<1>2. ASSUME TypeOK, StatusIsAttributed, [Next]_vars PROVE StatusIsAttributed'
  <2>1. CASE Next
    BY <1>2, <2>1, ConfigStatus, ProcessStatus, OtherStatus, EnvironmentStatus DEF Next, Step
  <2>2. CASE UNCHANGED vars
    BY <1>2, <2>2, NoStatusStep DEF vars, ctlVars, threadVars
  <2> QED
    BY <1>2, <2>1, <2>2
<1> QED
  BY <1>1, <1>2, TypeCorrect, PTL DEF Spec

(* With no method running, the status is an outcome: Initial,               *)
(* SetConfigFinished, SetFailed or Finished.                                *)
THEOREM QuiescentStatus == Spec => []QuiescentStateIsTerminal
<1>1. TypeOK /\ StatusIsAttributed => QuiescentStateIsTerminal
  BY DEF TypeOK, StatusIsAttributed, QuiescentStateIsTerminal, Quiescent, StateNames,
         Configuring, Processing, ConfigLocs, ProcessLocs
<1> QED
  BY <1>1, TypeCorrect, StatusAttributed, PTL

-----------------------------------------------------------------------------
(* The contexts, the list and the bindings.  Only a thread that configures, *)
(* wipes or drains, so one inside the lock, changes what Process reaches.   *)

Reach == <<inputs, outputs, pidObject, ofmt_list>>
Changes(u) == \/ pc[u] \in {"cfg_alloc", "cfg_open", "cfg_output", "cln_wipe"}
              \/ pc[u] = "prc_drain" /\ pc'[u] = "prc_finish"

LEMMA ReachChanges ==
  ASSUME TypeOK, [Next]_vars
  PROVE  UNCHANGED Reach \/ \E u \in Threads : Changes(u)
<1> USE DEF Reach, wrapperVars, inputVars, outputVars
<1>1. ASSUME NEW t \in Threads, ConfigStep(t)
      PROVE  UNCHANGED Reach \/ Changes(t)
  BY <1>1 DEF ConfigStep, CfgAnnounce, CfgAlloc, CfgAllocFails, AllocInputFails, CfgOpen,
     CfgOpenFails, CfgOutput, CfgOutputFails, CfgOpenFaults, CfgIteratorFault, CfgOutputsDone, CfgAccept,
     CfgReject, CfgRejected, Iterates, Move, At, Crash, Changes
<1>2. ASSUME NEW t \in Threads, ProcessStep(t)
      PROVE  UNCHANGED Reach \/ Changes(t)
  <2>1. CASE PrcDrain(t)
    BY <1>2, <2>1 DEF TypeOK, PrcDrain, Move, At, Goto, Changes
  <2>2. CASE ~PrcDrain(t)
    BY <1>2, <2>2 DEF ProcessStep, PrcGetIfmt, PrcAnnounce, PrcInitTools, PrcInitFaults,
       PrcLoop, PrcReadEnds, PrcReadPacket, PrcReadFaults, PrcDrainFaults, PrcFinish, Crash
  <2> QED
    BY <2>1, <2>2
<1>3. ASSUME NEW t \in Threads,
             AcquireProcessLock(t) \/ StopStep(t) \/ CleanStep(t) \/ WalkStep(t) \/ StpWakesUp(t)
      PROVE  UNCHANGED Reach \/ Changes(t)
  BY <1>3 DEF AcquireProcessLock, StopStep, StpRefused, StpAccepted, StpArm, StpWakesUp,
     CleanStep, ClnReset, ClnWipe, WalkStep, EndWrite, EndWriteFaults, OutputAmount,
     OutputAmountFaults, Crash, At, Changes
<1>4. ASSUME \/ \E t \in Threads : DropFrame(t) \/ \E m \in Methods : Call(t, m)
             \/ \E c \in Channels : AppendChannel(c)
             \/ CallerDies
      PROVE  UNCHANGED Reach
  BY <1>4 DEF DropFrame, Call, AppendChannel, CallerDies
<1>5. CASE UNCHANGED vars
  BY <1>5 DEF vars
<1> QED
  BY <1>1, <1>2, <1>3, <1>4, <1>5 DEF Next, Environment, Step

(* While a thread transcodes, nothing it reaches is opened, closed or       *)
(* rebound.                                                                 *)
THEOREM NoFree == Spec => NoFreeUnderTranscode
<1> DEFINE Kept == \A t \in Threads :
             Transcoding(t) /\ Transcoding(t)' =>
               /\ inputs' = inputs /\ outputs' = outputs
               /\ pidObject' = pidObject /\ ofmt_list' = ofmt_list
<1>1. ASSUME TypeOK, Mutex, [Next]_vars PROVE Kept
  <2> SUFFICES ASSUME NEW t \in Threads, Transcoding(t), Transcoding(t)', ~UNCHANGED Reach
               PROVE  FALSE
    BY DEF Reach
  <2>1. PICK u \in Threads : Changes(u)
    BY <1>1, ReachChanges
  <2>2. u = t
    BY <1>1, <2>1 DEF Mutex, Changes, Transcoding, Critical
  <2> QED
    BY <2>1, <2>2 DEF Changes, Transcoding
<1>2. TypeOK /\ Mutex /\ [Next]_vars => [Kept]_vars
  BY <1>1
<1> QED
  BY <1>2, TypeCorrect, MutualExclusion, PTL DEF Spec, NoFreeUnderTranscode

(* A stream is bound once; after that its slot can only be emptied.         *)
LEMMA BindRespects ==
  ASSUME NEW S, NEW o, Bind(S, o), NEW s \in Streams, pidObject[s].is # "absent"
  PROVE  pidObject'[s] = pidObject[s]
BY DEF Bind

(* The first channel that binds a stream keeps it: no step gives the stream *)
(* another object; the slot can only be emptied when the object dies.       *)
THEOREM FirstBinding == Spec => FirstBindingWins
<1> DEFINE Bound == \A s \in Streams :
             pidObject[s].is # "absent" => pidObject'[s] \in {pidObject[s], Emptied}
<1> USE DEF wrapperVars, outputVars
<1>1. ASSUME NEW t \in Threads, ConfigStep(t) PROVE Bound
  <2>1. CASE UNCHANGED pidObject
    BY <2>1
  <2>2. CASE CfgOutput(t) \/ CfgOutputFails(t)
    BY <2>2, BindRespects
       DEF CfgOutput, CfgOutputFails, OfmtInital, OfmtInitalFails, OfmtInitalFaults
  <2>3. CASE ~CfgOutput(t) /\ ~CfgOutputFails(t)
    BY <1>1, <2>3 DEF ConfigStep, CfgAnnounce, CfgAlloc, CfgAllocFails, AllocInput,
       AllocInputFails, CfgOpen, OpenInput, CfgOpenFails, ProbeInputFails, OpenInputFails,
       CloseInput, CfgOpenFaults, CfgIteratorFault, CfgOutputsDone, CfgAccept, CfgReject, CfgRejected, Crash
  <2> QED
    BY <2>2, <2>3
<1>2. ASSUME NEW t \in Threads, ProcessStep(t) PROVE Bound
  <2>1. CASE PrcDrain(t)
    BY <2>1 DEF PrcDrain
  <2>2. CASE ~PrcDrain(t)
    BY <1>2, <2>2 DEF ProcessStep, PrcGetIfmt, PrcAnnounce, PrcInitTools, PrcInitFaults,
       PrcLoop, PrcReadEnds, PrcReadPacket, PrcReadFaults, PrcDrainFaults, PrcFinish, Crash
  <2> QED
    BY <2>1, <2>2
<1>3. ASSUME NEW t \in Threads,
             AcquireProcessLock(t) \/ StopStep(t) \/ CleanStep(t) \/ WalkStep(t) \/ StpWakesUp(t)
      PROVE  Bound
  BY <1>3 DEF AcquireProcessLock, StopStep, StpRefused, StpAccepted, StpArm, StpWakesUp,
     CleanStep, ClnReset, ClnWipe, CloseInputTwice, CloseInput, WalkStep, EndWrite,
     EndWriteFaults, OutputAmount, OutputAmountFaults, Crash
<1>4. ASSUME \/ \E t \in Threads : DropFrame(t) \/ \E m \in Methods : Call(t, m)
             \/ \E c \in Channels : AppendChannel(c)
             \/ CallerDies
      PROVE  Bound
  BY <1>4 DEF DropFrame, Call, AppendChannel, CallerDies
<1>5. [Next]_vars => [Bound]_vars
  BY <1>1, <1>2, <1>3, <1>4 DEF Next, Environment, Step
<1> QED
  BY <1>5, PTL DEF Spec, FirstBindingWins

(* The list of WriteEnd holds exactly the outputs that exist.               *)
THEOREM ListedOutputs == Spec => []OutputsListed
<1> USE DEF wrapperVars, outputVars, OutputsListed
<1>1. Init => OutputsListed
  BY DEF Init, WrapperInit
<1>2. ASSUME OutputsListed, NEW t \in Threads, ConfigStep(t) PROVE OutputsListed'
  <2>1. CASE CfgOutput(t) \/ CfgOutputFails(t)
    BY <1>2, <2>1 DEF CfgOutput, CfgOutputFails, OfmtInital, OfmtInitalFails, OfmtInitalFaults
  <2>2. CASE ~CfgOutput(t) /\ ~CfgOutputFails(t)
    BY <1>2, <2>2 DEF ConfigStep, CfgAnnounce, CfgAlloc, CfgAllocFails, AllocInput,
       AllocInputFails, CfgOpen, OpenInput, CfgOpenFails, ProbeInputFails, OpenInputFails,
       CloseInput, CfgOpenFaults, CfgIteratorFault, CfgOutputsDone, CfgAccept, CfgReject, CfgRejected, Crash
  <2> QED
    BY <2>1, <2>2
<1>3. ASSUME OutputsListed, NEW t \in Threads, ProcessStep(t) PROVE OutputsListed'
  BY <1>3 DEF ProcessStep, PrcGetIfmt, PrcAnnounce, PrcInitTools, PrcInitFaults, PrcLoop,
     PrcReadEnds, PrcReadPacket, PrcReadFaults, PrcDrain, PrcDrainFaults, PrcFinish, Crash
<1>4. ASSUME OutputsListed, NEW t \in Threads,
             AcquireProcessLock(t) \/ StopStep(t) \/ CleanStep(t) \/ WalkStep(t) \/ StpWakesUp(t)
      PROVE  OutputsListed'
  BY <1>4 DEF AcquireProcessLock, StopStep, StpRefused, StpAccepted, StpArm, StpWakesUp,
     CleanStep, ClnReset, ClnWipe, CloseInputTwice, CloseInput, WalkStep, EndWrite,
     EndWriteFaults, OutputAmount, OutputAmountFaults, Crash
<1>5. ASSUME OutputsListed,
             \/ \E t \in Threads : DropFrame(t) \/ \E m \in Methods : Call(t, m)
             \/ \E c \in Channels : AppendChannel(c)
             \/ CallerDies
      PROVE  OutputsListed'
  BY <1>5 DEF DropFrame, Call, AppendChannel, CallerDies
<1>6. OutputsListed /\ [Next]_vars => OutputsListed'
  BY <1>2, <1>3, <1>4, <1>5 DEF Next, Environment, Step, vars
<1> QED
  BY <1>1, <1>6, PTL DEF Spec

-----------------------------------------------------------------------------
(* Once the stop flag is up it stays up, and no thread starts to read.      *)
THEOREM StopStays == Spec => StopIsForever
<1> DEFINE Heeded == turnoff => /\ turnoff'
                                /\ \A t \in Threads : pc[t] # "prc_read" => pc'[t] # "prc_read"
<1> USE DEF At, Goto, ctlVars, threadVars
<1>1. ASSUME TypeOK, NEW t \in Threads, ConfigStep(t) PROVE Heeded
  BY <1>1 DEF TypeOK, ConfigStep, CfgAnnounce, CfgAlloc, CfgAllocFails, CfgOpen, CfgOpenFails,
     CfgOutput, CfgOutputFails, CfgOpenFaults, CfgIteratorFault, CfgOutputsDone, CfgAccept, CfgReject,
     CfgRejected, Crash, Move, Leave, Return
<1>2. ASSUME TypeOK, NEW t \in Threads, ProcessStep(t) PROVE Heeded
  BY <1>2 DEF TypeOK, ProcessStep, PrcGetIfmt, PrcAnnounce, PrcInitTools, PrcInitFaults,
     PrcLoop, PrcReadEnds, PrcReadPacket, PrcReadFaults, PrcDrain, PrcDrainFaults, PrcFinish,
     Crash, Move, Leave, Return
<1>3. ASSUME TypeOK, NEW t \in Threads,
             AcquireProcessLock(t) \/ StopStep(t) \/ CleanStep(t) \/ WalkStep(t) \/ StpWakesUp(t)
      PROVE  Heeded
  BY <1>3 DEF TypeOK, AcquireProcessLock, Locked, StopStep, StpRefused, StpAccepted, StpArm,
     StpWakesUp, CleanStep, ClnReset, ClnWipe, WalkStep, EndWrite, EndWriteFaults,
     OutputAmount, OutputAmountFaults, Crash, Move, Leave, Return
<1>4. ASSUME TypeOK,
             \/ \E t \in Threads : DropFrame(t) \/ \E m \in Methods : Call(t, m)
             \/ \E c \in Channels : AppendChannel(c)
             \/ CallerDies
      PROVE  Heeded
  BY <1>4 DEF TypeOK, DropFrame, Call, Entry, AppendChannel, CallerDies
<1>5. TypeOK /\ [Next]_vars => [Heeded]_vars
  BY <1>1, <1>2, <1>3, <1>4 DEF Next, Environment, Step
<1> QED
  BY <1>5, TypeCorrect, PTL DEF Spec, StopIsForever

-----------------------------------------------------------------------------
(* The methods a thread may be in at each location: every thread is inside *)
(* one method from the entry of a call to its return, and in none between  *)
(* two calls.                                                              *)
Runs(l) == CASE l = "idle"           -> {"none"}
             [] l = "lock"           -> Configs \cup {"Process", "CleanUp"}
             [] l = "cfg_alloc"      -> {"InitalAvio"}
             [] l = "cfg_rejected"   -> {"SetConfig"}
             [] l \in {"cfg_announce", "cfg_open", "cfg_output", "cfg_accept", "cfg_reject"}
                                     -> Configs
             [] l \in ProcessLocs    -> {"Process"}
             [] l \in {"stp_check", "stp_arm", "stp_wait"} -> {"StopProcess"}
             [] l \in {"cln_reset", "cln_wipe"}            -> {"CleanUp"}
             [] l = "end_write"      -> {"WriteEnd"}
             [] OTHER                -> {"OutputAmount"}

InMethod == \A t \in Threads : method[t] \in Runs(pc[t])

MethodStep(u) ==
  /\ \A v \in Threads : v # u => pc'[v] = pc[v] /\ method'[v] = method[v]
  /\ method'[u] \in Runs(pc'[u])

LEMMA MethodStepSuffices ==
  ASSUME InMethod, UNCHANGED <<pc, method>> \/ \E u \in Threads : MethodStep(u)
  PROVE  InMethod'
BY DEF InMethod, MethodStep

LEMMA RunsAre ==
  /\ Runs("idle") = {"none"} /\ Runs("lock") = Configs \cup {"Process", "CleanUp"}
  /\ Runs("cfg_alloc") = {"InitalAvio"} /\ Runs("cfg_rejected") = {"SetConfig"}
  /\ Runs("cfg_announce") = Configs /\ Runs("cfg_open") = Configs
  /\ Runs("cfg_output") = Configs /\ Runs("cfg_accept") = Configs /\ Runs("cfg_reject") = Configs
  /\ \A l \in ProcessLocs : Runs(l) = {"Process"}
  /\ \A l \in {"stp_check", "stp_arm", "stp_wait"} : Runs(l) = {"StopProcess"}
  /\ \A l \in {"cln_reset", "cln_wipe"} : Runs(l) = {"CleanUp"}
  /\ Runs("end_write") = {"WriteEnd"} /\ Runs("out_amount") = {"OutputAmount"}
BY DEF Runs, ProcessLocs

LEMMA MoveRuns ==
  ASSUME TypeOK, InMethod, NEW t \in Threads, NEW from, NEW to, Move(t, from, to),
         method[t] \in Runs(from) => method[t] \in Runs(to)
  PROVE  MethodStep(t)
BY DEF TypeOK, InMethod, Move, At, Goto, MethodStep

LEMMA LeaveRuns ==
  ASSUME TypeOK, NEW t \in Threads, NEW from, Leave(t, from)
  PROVE  MethodStep(t)
BY RunsAre DEF TypeOK, Leave, Return, Goto, MethodStep

LEMMA NextInMethod ==
  ASSUME TypeOK, InMethod, [Next]_vars
  PROVE  InMethod'
<1> USE MethodStepSuffices, RunsAre, MoveRuns, LeaveRuns DEF ctlVars, threadVars
<1> DEFINE Steps(t) == UNCHANGED <<pc, method>> \/ MethodStep(t)
<1>1. ASSUME NEW t \in Threads, ConfigStep(t) PROVE Steps(t)
  <2>1. CASE CfgAnnounce(t) \/ CfgAllocFails(t) \/ CfgOutputsDone(t)
    BY <2>1 DEF CfgAnnounce, CfgAllocFails, CfgOutputsDone, Configs
  <2>2. CASE CfgAlloc(t) \/ CfgOpen(t)
    BY <2>2 DEF TypeOK, InMethod, CfgAlloc, CfgOpen, At, Goto, MethodStep, Configs
  <2>3. CASE CfgOpenFails(t) \/ CfgOutputFails(t)
    BY <2>3 DEF CfgOpenFails, CfgOutputFails
  <2>4. CASE CfgOutput(t) \/ CfgOpenFaults(t) \/ CfgIteratorFault(t)
    BY <2>4 DEF CfgOutput, CfgOpenFaults, CfgIteratorFault, Crash
  <2>5. CASE CfgAccept(t) \/ CfgReject(t) \/ CfgRejected(t)
    BY <2>5 DEF CfgAccept, CfgReject, CfgRejected
  <2> QED
    BY <1>1, <2>1, <2>2, <2>3, <2>4, <2>5 DEF ConfigStep
<1>2. ASSUME NEW t \in Threads, ProcessStep(t) PROVE Steps(t)
  <2>1. CASE PrcGetIfmt(t)
    BY <2>1 DEF TypeOK, InMethod, PrcGetIfmt, At, Goto, MethodStep, ProcessLocs
  <2>2. CASE PrcAnnounce(t)
    BY <2>2 DEF PrcAnnounce, ProcessLocs
  <2>3. CASE \/ PrcInitTools(t) \/ PrcLoop(t) \/ PrcReadEnds(t) \/ PrcDrain(t)
             \/ \E s \in Streams : PrcReadPacket(t, s)
    BY <2>3 DEF PrcInitTools, PrcLoop, PrcReadEnds, PrcReadPacket, PrcDrain, ProcessLocs
  <2>4. CASE PrcFinish(t)
    BY <2>4 DEF PrcFinish
  <2>5. CASE PrcInitFaults(t) \/ PrcReadFaults(t) \/ PrcDrainFaults(t)
    BY <2>5 DEF PrcInitFaults, PrcReadFaults, PrcDrainFaults, Crash
  <2> QED
    BY <1>2, <2>1, <2>2, <2>3, <2>4, <2>5 DEF ProcessStep
<1>3. ASSUME NEW t \in Threads,
             AcquireProcessLock(t) \/ StopStep(t) \/ CleanStep(t) \/ WalkStep(t) \/ StpWakesUp(t)
      PROVE  Steps(t)
  <2>1. CASE AcquireProcessLock(t)
    BY <2>1 DEF AcquireProcessLock, Locked, Configs, ProcessLocs
  <2>2. CASE StpAccepted(t) \/ StpArm(t) \/ ClnReset(t)
    BY <2>2 DEF StpAccepted, StpArm, ClnReset
  <2>3. CASE StpRefused(t) \/ StpWakesUp(t) \/ EndWrite(t) \/ OutputAmount(t)
    BY <2>3 DEF StpRefused, StpWakesUp, EndWrite, OutputAmount
  <2>4. CASE ClnWipe(t) \/ EndWriteFaults(t) \/ OutputAmountFaults(t)
    BY <2>4 DEF ClnWipe, EndWriteFaults, OutputAmountFaults, Crash
  <2> QED
    BY <1>3, <2>1, <2>2, <2>3, <2>4 DEF StopStep, CleanStep, WalkStep
<1>4. ASSUME NEW t \in Threads, NEW m \in Methods, Call(t, m) PROVE MethodStep(t)
  <2>1. m \in Runs(Entry(m))
    BY DEF Methods, Configs, Entry, ProcessLocs
  <2> QED
    BY <1>4, <2>1 DEF TypeOK, MethodStep, Call, Goto
<1>5. ASSUME \/ \E t \in Threads : DropFrame(t)
             \/ \E c \in Channels : AppendChannel(c)
             \/ CallerDies
      PROVE  UNCHANGED <<pc, method>>
  BY <1>5 DEF DropFrame, AppendChannel, CallerDies
<1>6. CASE UNCHANGED vars
  BY <1>6 DEF vars
<1> QED
  BY <1>1, <1>2, <1>3, <1>4, <1>5, <1>6 DEF Next, Environment, Step

(* A thread at a location is in a method that gets there.                   *)
THEOREM MethodsFollowLocations == Spec => []InMethod
<1>1. Init => InMethod
  BY RunsAre DEF Init, InMethod
<1> QED
  BY <1>1, NextInMethod, TypeCorrect, PTL DEF Spec

=============================================================================
