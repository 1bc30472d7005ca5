-------------------------- MODULE TranscoderProofs --------------------------
(***************************************************************************)
(* Theorems on Transcoder for every set of threads, streams and channels,  *)
(* every failure of the library and every bound.                           *)
(***************************************************************************)
EXTENDS Transcoder, TLAPS

-----------------------------------------------------------------------------
(* Type correctness.  Contexts are numbered, and the numbers in use grow.  *)

USE DEF NoCtx, NewCtx

(* Every location a call or an acquisition of the lock leads to exists. *)
LEMMA LocationsExist ==
  /\ \A m \in Methods : Entry(m) \in Locs
  /\ \A m : Locked(m) \in Locs \cap Critical
BY DEF Entry, Locked, Methods, Configs, Locs, ConfigLocs, ProcessLocs, OtherLocs, Critical

(* The locations of ConfigStep and so on, as a set without unions. *)
LEMMA LocsAre ==
  Locs = { "cfg_announce", "cfg_alloc", "cfg_open", "cfg_output", "cfg_accept",
           "cfg_reject", "cfg_rejected", "prc_getifmt", "prc_announce", "prc_init",
           "prc_loop", "prc_read", "prc_drain", "prc_finish", "idle", "lock",
           "stp_check", "stp_arm", "stp_wait", "cln_reset", "cln_wipe",
           "end_write", "out_amount" }
BY DEF Locs, ConfigLocs, ProcessLocs, OtherLocs

LEMMA InitTypeOK == Init => TypeOK
<1> SUFFICES ASSUME Init PROVE TypeOK
  OBVIOUS
<1>1. WrapperTypeOK
  BY DEF Init, WrapperInit, WrapperTypeOK, Absent
<1>2. channel_list \in Seq(Channels)
  BY ListsAssumption DEF Init
<1>3. ifmt \in [Threads -> 0..created] /\ frame \in [Threads -> 0..created]
  BY DEF Init, WrapperInit
<1>4. pc \in [Threads -> Locs]
  BY LocsAre DEF Init
<1>5. method \in [Threads -> Methods \cup {"none"}]
  BY DEF Init
<1>6. pos \in [Threads -> Nat] /\ stale \in [Threads -> BOOLEAN]
  BY DEF Init
<1> QED
  BY <1>1, <1>2, <1>3, <1>4, <1>5, <1>6 DEF Init, TypeOK, StateNames

(* What the operations of CtxWrapper do to the numbering. *)
Grows == WrapperTypeOK' /\ created <= created'

LEMMA SlotsGrow ==
  ASSUME NEW a \in Nat, NEW b \in Nat, a <= b,
         NEW p \in [Streams -> [is : {"absent", "null", "object"}, in : 0..a, out : 0..a]]
  PROVE  p \in [Streams -> [is : {"absent", "null", "object"}, in : 0..b, out : 0..b]]
<1>1. \A r \in [is : {"absent", "null", "object"}, in : 0..a, out : 0..a] :
        r \in [is : {"absent", "null", "object"}, in : 0..b, out : 0..b]
  OBVIOUS
<1> QED
  BY <1>1

(* A context that is opened changes nothing else. *)
LEMMA OutputsGrow ==
  ASSUME WrapperTypeOK, created' \in Nat, created <= created', UNCHANGED outputVars
  PROVE  /\ outputs' \subseteq 1..created' /\ ended' \subseteq 1..created'
         /\ ofmt_list' \subseteq 1..created'
         /\ pidObject' \in [Streams -> [is : {"absent", "null", "object"},
                                        in : 0..created', out : 0..created']]
<1>1. pidObject' \in [Streams -> [is : {"absent", "null", "object"},
                                  in : 0..created', out : 0..created']]
  BY SlotsGrow DEF WrapperTypeOK, outputVars
<1> QED
  BY <1>1 DEF WrapperTypeOK, outputVars

LEMMA AllocInputGrows ==
  ASSUME WrapperTypeOK, AllocInput \/ AllocInputFails
  PROVE  Grows
<1>1. created' \in Nat /\ created <= created' /\ UNCHANGED outputVars
  BY DEF WrapperTypeOK, AllocInput, AllocInputFails, outputVars
<1>2. CASE AllocInput
  <2>1. decoders' \subseteq (1..created') \X Streams
    BY <1>2 DEF WrapperTypeOK, AllocInput
  <2> QED
    BY <1>1, <1>2, <2>1, OutputsGrow DEF WrapperTypeOK, AllocInput, Grows
<1>3. CASE AllocInputFails
  BY <1>1, <1>3, OutputsGrow DEF WrapperTypeOK, AllocInputFails, Grows
<1> QED
  BY <1>2, <1>3

LEMMA CloseInputGrows ==
  ASSUME WrapperTypeOK, NEW ctx, CloseInput(ctx),
         created' \in Nat, created <= created', fault' \in Faults \cup {"none"}
  PROVE  Grows
<1>1. inputs' \subseteq 1..created' /\ ifmt_ctx' \in 0..created'
  <2>1. inputs' \subseteq inputs /\ ifmt_ctx' = 0
    BY DEF CloseInput
  <2>2. created \in Nat /\ inputs \subseteq 1..created
    BY DEF WrapperTypeOK
  <2> QED
    BY <2>1, <2>2
<1>2. memory' \subseteq 1..created' /\ decoders' \subseteq (1..created') \X Streams
  BY DEF WrapperTypeOK, CloseInput
<1>3. UNCHANGED outputVars
  BY DEF CloseInput
<1> QED
  BY <1>1, <1>2, <1>3, OutputsGrow DEF WrapperTypeOK, Grows

LEMMA OpenInputGrows ==
  ASSUME WrapperTypeOK, channel_list \in Seq(Channels),
         OpenInput(channel_list) \/ ProbeInputFails \/ OpenInputFails \/ CloseInputTwice
  PROVE  Grows
<1>1. Wanted(channel_list) \subseteq Streams
  BY SelectsAssumption DEF Wanted
<1>2. OpenedCtx \in 1..(created + 1) /\ (OpenedCtx = created + 1 => ifmt_ctx = 0)
  BY DEF WrapperTypeOK, OpenedCtx
<1>3. CASE OpenInput(channel_list)
  <2>1. created' \in Nat /\ created <= created' /\ OpenedCtx \in 1..created'
    BY <1>3, <1>2 DEF WrapperTypeOK, OpenInput, CountOpened, OpenedCtx
  <2>2. decoders' \subseteq (1..created') \X Streams
    BY <1>3, <1>1, <2>1 DEF WrapperTypeOK, OpenInput
  <2>3. UNCHANGED outputVars
    BY <1>3 DEF OpenInput
  <2> QED
    BY <1>3, <2>1, <2>2, <2>3, OutputsGrow DEF WrapperTypeOK, OpenInput, Grows
<1>4. CASE ProbeInputFails
  <2>1. created' \in Nat /\ created <= created'
    BY <1>4 DEF WrapperTypeOK, ProbeInputFails, CountOpened
  <2> QED
    BY <1>4, <2>1, CloseInputGrows DEF WrapperTypeOK, ProbeInputFails
<1>5. CASE OpenInputFails \/ CloseInputTwice
  <2>1. created' \in Nat /\ created <= created' /\ fault' \in Faults \cup {"none"}
    BY <1>5 DEF WrapperTypeOK, OpenInputFails, CloseInputTwice, Die, Faults
  <2> QED
    BY <1>5, <2>1, CloseInputGrows DEF OpenInputFails, CloseInputTwice
<1> QED
  BY <1>3, <1>4, <1>5

LEMMA OfmtInitalGrows ==
  ASSUME WrapperTypeOK, NEW c,
         OfmtInital(c) \/ OfmtInitalFails(c) \/ OfmtInitalFaults(c)
  PROVE  Grows
<1>1. ASSUME NEW S, Bind(S, NewCtx), created' = NewCtx
      PROVE  pidObject' \in [Streams -> [is : {"absent", "null", "object"},
                                         in : 0..created', out : 0..created']]
  BY <1>1 DEF WrapperTypeOK, Bind, Object
<1>2. CASE OfmtInital(c)
  BY <1>1, <1>2 DEF WrapperTypeOK, OfmtInital, Grows, inputVars
<1>3. CASE OfmtInitalFails(c)
  BY <1>1, <1>3 DEF WrapperTypeOK, OfmtInitalFails, Grows, inputVars
<1>4. CASE OfmtInitalFaults(c)
  BY <1>4 DEF WrapperTypeOK, OfmtInitalFaults, Grows, inputVars, outputVars, Die, Faults
<1> QED
  BY <1>2, <1>3, <1>4

(* The three parts of TypeOK that a step may change on its own. *)
ThreadTypeOK == /\ pc \in [Threads -> Locs]
                /\ method \in [Threads -> Methods \cup {"none"}]
                /\ pos \in [Threads -> Nat] /\ stale \in [Threads -> BOOLEAN]
CopiesTypeOK == /\ ifmt \in [Threads -> 0..created]
                /\ frame \in [Threads -> 0..created]
SharedTypeOK == /\ state \in StateNames /\ lock \in Threads \cup {NoThread}
                /\ turnoff \in BOOLEAN
                /\ channel_list \in Seq(Channels) /\ calls \in Nat

LEMMA TypeOKParts ==
  TypeOK <=> WrapperTypeOK /\ ThreadTypeOK /\ CopiesTypeOK /\ SharedTypeOK
BY DEF TypeOK, ThreadTypeOK, CopiesTypeOK, SharedTypeOK

LEMMA WrapperStays ==
  ASSUME WrapperTypeOK, UNCHANGED wrapperVars
  PROVE  Grows
BY DEF WrapperTypeOK, wrapperVars, inputVars, outputVars, Grows

LEMMA CopiesGrow ==
  ASSUME WrapperTypeOK, CopiesTypeOK, Grows
  PROVE  /\ 0..created \subseteq 0..created'
         /\ UNCHANGED <<ifmt, frame>> => CopiesTypeOK'
<1>1. created \in Nat /\ created' \in Nat /\ created <= created'
  BY DEF WrapperTypeOK, Grows
<1>2. 0..created \subseteq 0..created'
  BY <1>1
<1> QED
  BY <1>2 DEF CopiesTypeOK

LEMMA MoveKeepsTypes ==
  ASSUME ThreadTypeOK, NEW t \in Threads, NEW from, NEW to \in Locs, Move(t, from, to)
  PROVE  ThreadTypeOK' /\ UNCHANGED <<ifmt, frame>>
BY DEF ThreadTypeOK, Move, Goto

LEMMA LeaveKeepsTypes ==
  ASSUME ThreadTypeOK, NEW t \in Threads, NEW from, Leave(t, from)
  PROVE  ThreadTypeOK' /\ UNCHANGED <<ifmt, frame>>
<1>1. "idle" \in Locs
  BY LocsAre
<1> QED
  BY <1>1 DEF ThreadTypeOK, Leave, Return, Goto

LEMMA SharedStays ==
  ASSUME SharedTypeOK, UNCHANGED <<ctlVars, envVars>>
  PROVE  SharedTypeOK'
BY DEF SharedTypeOK, ctlVars, envVars

LEMMA CrashKeepsTypes ==
  ASSUME TypeOK, NEW why \in Faults, Die(why),
         UNCHANGED <<inputVars, outputVars, created, ctlVars, threadVars, envVars>>
  PROVE  TypeOK'
<1>1. WrapperTypeOK'
  BY TypeOKParts DEF WrapperTypeOK, inputVars, outputVars, Die
<1>2. ThreadTypeOK' /\ CopiesTypeOK'
  BY TypeOKParts DEF ThreadTypeOK, CopiesTypeOK, threadVars
<1>3. SharedTypeOK'
  BY TypeOKParts, SharedStays
<1> QED
  BY <1>1, <1>2, <1>3 DEF TypeOK, ThreadTypeOK, CopiesTypeOK, SharedTypeOK

(* A step that moves or ends a method and leaves the wrapper alone. *)
LEMMA PlainStep ==
  ASSUME TypeOK, ThreadTypeOK', UNCHANGED <<ifmt, frame>>, Grows, SharedTypeOK'
  PROVE  TypeOK'
BY CopiesGrow, TypeOKParts DEF TypeOK, ThreadTypeOK, CopiesTypeOK, SharedTypeOK, Grows

LEMMA ConfigStepTypeOK ==
  ASSUME TypeOK, NEW t \in Threads, ConfigStep(t)
  PROVE  TypeOK'
<1> USE TypeOKParts
<1>1. CASE CfgAnnounce(t)
  BY <1>1, LocsAre, MoveKeepsTypes, WrapperStays, PlainStep
     DEF CfgAnnounce, SharedTypeOK, SetState, StateNames, envVars
<1>2. CASE CfgAlloc(t)
  <2>1. Grows /\ ThreadTypeOK' /\ SharedTypeOK'
    BY <1>2, LocsAre, AllocInputGrows, SharedStays DEF CfgAlloc, Goto, ThreadTypeOK, ctlVars, envVars
  <2>2. created \in Nat /\ NewCtx \in 0..created' /\ ifmt' = ifmt
    BY <1>2 DEF CfgAlloc, AllocInput, WrapperTypeOK
  <2>3. CopiesTypeOK'
    BY <1>2, <2>1, <2>2, CopiesGrow DEF CfgAlloc, CopiesTypeOK
  <2> QED
    BY <2>1, <2>3 DEF TypeOK, ThreadTypeOK, CopiesTypeOK, SharedTypeOK, Grows
<1>3. CASE CfgAllocFails(t)
  BY <1>3, LocsAre, MoveKeepsTypes, AllocInputGrows, SharedStays, PlainStep DEF CfgAllocFails
<1>4. CASE CfgOpen(t)
  <2>1. Grows
    BY <1>4, OpenInputGrows DEF CfgOpen, SharedTypeOK
  <2>2. ThreadTypeOK' /\ UNCHANGED <<ifmt, frame>>
    BY <1>4, LocsAre DEF CfgOpen, Goto, ThreadTypeOK
  <2> QED
    BY <1>4, <2>1, <2>2, SharedStays, PlainStep DEF CfgOpen, envVars
<1>5. CASE CfgOpenFails(t)
  <2>1. Grows
    BY <1>5, OpenInputGrows DEF CfgOpenFails, SharedTypeOK
  <2>2. ThreadTypeOK' /\ UNCHANGED <<ifmt, frame>>
    BY <1>5, LocsAre, MoveKeepsTypes DEF CfgOpenFails, threadVars, ThreadTypeOK
  <2> QED
    BY <1>5, <2>1, <2>2, SharedStays, PlainStep DEF CfgOpenFails
<1>6. CASE CfgOutput(t)
  <2>1. Grows
    BY <1>6, OfmtInitalGrows DEF CfgOutput
  <2>2. ThreadTypeOK' /\ UNCHANGED <<ifmt, frame>>
    BY <1>6 DEF CfgOutput, ThreadTypeOK
  <2> QED
    BY <1>6, <2>1, <2>2, SharedStays, PlainStep DEF CfgOutput, envVars
<1>7. CASE CfgOutputFails(t)
  <2>1. Grows
    BY <1>7, OfmtInitalGrows DEF CfgOutputFails
  <2>2. ThreadTypeOK' /\ UNCHANGED <<ifmt, frame>>
    BY <1>7, LocsAre, MoveKeepsTypes DEF CfgOutputFails, threadVars, ThreadTypeOK
  <2> QED
    BY <1>7, <2>1, <2>2, SharedStays, PlainStep DEF CfgOutputFails
<1>8. CASE CfgOpenFaults(t) \/ CfgIteratorFault(t)
  BY <1>8, CrashKeepsTypes DEF CfgOpenFaults, CfgIteratorFault, Crash, Faults
<1>9. CASE CfgOutputsDone(t)
  BY <1>9, LocsAre, MoveKeepsTypes, WrapperStays, SharedStays, PlainStep DEF CfgOutputsDone
<1>10. CASE CfgAccept(t)
  BY <1>10, LeaveKeepsTypes, WrapperStays, PlainStep
     DEF CfgAccept, SharedTypeOK, SetState, UnlockProcess, StateNames, envVars
<1>11. CASE CfgReject(t)
  <2>1. ThreadTypeOK' /\ UNCHANGED <<ifmt, frame>>
    BY <1>11, LocsAre, MoveKeepsTypes, LeaveKeepsTypes DEF CfgReject
  <2>2. SharedTypeOK'
    BY <1>11 DEF CfgReject, SharedTypeOK, SetState, UnlockProcess, StateNames, envVars
  <2> QED
    BY <1>11, <2>1, <2>2, WrapperStays, PlainStep DEF CfgReject
<1>12. CASE CfgRejected(t)
  BY <1>12, LeaveKeepsTypes, WrapperStays, PlainStep
     DEF CfgRejected, SharedTypeOK, SetState, StateNames, envVars
<1> QED
  BY <1>1, <1>2, <1>3, <1>4, <1>5, <1>6, <1>7, <1>8, <1>9, <1>10, <1>11, <1>12
     DEF ConfigStep

LEMMA ProcessStepTypeOK ==
  ASSUME TypeOK, NEW t \in Threads, ProcessStep(t)
  PROVE  TypeOK'
<1> USE TypeOKParts
<1>1. CASE PrcGetIfmt(t)
  <2>1. Grows /\ ThreadTypeOK' /\ SharedTypeOK'
    BY <1>1, LocsAre, WrapperStays, SharedStays DEF PrcGetIfmt, Goto, ThreadTypeOK, ctlVars, envVars
  <2>2. ifmt_ctx \in 0..created /\ created' = created /\ frame' = frame
    BY <1>1 DEF PrcGetIfmt, wrapperVars, WrapperTypeOK
  <2>3. CopiesTypeOK'
    BY <1>1, <2>2 DEF PrcGetIfmt, CopiesTypeOK
  <2> QED
    BY <2>1, <2>3 DEF TypeOK, ThreadTypeOK, CopiesTypeOK, SharedTypeOK, Grows
<1>2. CASE PrcAnnounce(t)
  BY <1>2, LocsAre, MoveKeepsTypes, WrapperStays, PlainStep
     DEF PrcAnnounce, SharedTypeOK, SetState, StateNames, envVars
<1>3. CASE PrcInitTools(t)
  BY <1>3, LocsAre, MoveKeepsTypes, WrapperStays, SharedStays, PlainStep DEF PrcInitTools
<1>4. CASE PrcInitFaults(t)
  BY <1>4, CrashKeepsTypes DEF PrcInitFaults, Crash, Faults
<1>5. CASE PrcLoop(t)
  BY <1>5, LocsAre, MoveKeepsTypes, WrapperStays, SharedStays, PlainStep DEF PrcLoop
<1>6. CASE PrcReadEnds(t)
  BY <1>6, LocsAre, MoveKeepsTypes, WrapperStays, SharedStays, PlainStep DEF PrcReadEnds
<1>7. CASE \E s \in Streams : PrcReadPacket(t, s)
  BY <1>7, LocsAre, MoveKeepsTypes, WrapperStays, SharedStays, PlainStep DEF PrcReadPacket
<1>8. CASE PrcReadFaults(t)
  BY <1>8, CrashKeepsTypes DEF PrcReadFaults, Crash, Faults
<1>9. CASE PrcDrain(t)
  <2>1. pidObject' \in [Streams -> [is : {"absent", "null", "object"},
                                    in : 0..created, out : 0..created]]
    BY <1>9 DEF PrcDrain, WrapperTypeOK, Emptied
  <2>2. Grows
    BY <1>9, <2>1 DEF PrcDrain, WrapperTypeOK, Grows, inputVars
  <2> QED
    BY <1>9, <2>2, LocsAre, MoveKeepsTypes, SharedStays, PlainStep DEF PrcDrain
<1>10. CASE PrcDrainFaults(t)
  BY <1>10, CrashKeepsTypes DEF PrcDrainFaults, Crash, Faults
<1>11. CASE PrcFinish(t)
  BY <1>11, LeaveKeepsTypes, WrapperStays, PlainStep
     DEF PrcFinish, SharedTypeOK, SetState, UnlockProcess, StateNames, envVars
<1> QED
  BY <1>1, <1>2, <1>3, <1>4, <1>5, <1>6, <1>7, <1>8, <1>9, <1>10, <1>11 DEF ProcessStep

LEMMA OtherStepTypeOK ==
  ASSUME TypeOK, NEW t \in Threads,
         AcquireProcessLock(t) \/ StopStep(t) \/ CleanStep(t) \/ WalkStep(t) \/ StpWakesUp(t)
  PROVE  TypeOK'
<1> USE TypeOKParts
<1>1. CASE AcquireProcessLock(t)
  BY <1>1, LocationsExist, MoveKeepsTypes, WrapperStays, PlainStep
     DEF AcquireProcessLock, LockProcess, SharedTypeOK, envVars
<1>2. CASE StpRefused(t) \/ StpWakesUp(t)
  BY <1>2, LeaveKeepsTypes, WrapperStays, SharedStays, PlainStep DEF StpRefused, StpWakesUp
<1>3. CASE StpAccepted(t)
  BY <1>3, LocsAre, MoveKeepsTypes, WrapperStays, SharedStays, PlainStep DEF StpAccepted
<1>4. CASE StpArm(t)
  BY <1>4, LocsAre, MoveKeepsTypes, WrapperStays, PlainStep DEF StpArm, SharedTypeOK, envVars
<1>5. CASE ClnReset(t)
  BY <1>5, LocsAre, MoveKeepsTypes, WrapperStays, PlainStep
     DEF ClnReset, SharedTypeOK, SetState, StateNames, envVars
<1>6. CASE ClnWipe(t)
  <2>1. Grows
    BY <1>6, OpenInputGrows DEF ClnWipe, SharedTypeOK
  <2>2. ThreadTypeOK' /\ UNCHANGED <<ifmt, frame>>
    BY <1>6 DEF ClnWipe, threadVars, ThreadTypeOK
  <2> QED
    BY <1>6, <2>1, <2>2, SharedStays, PlainStep DEF ClnWipe
<1>7. CASE EndWrite(t)
  <2>1. Grows
    BY <1>7 DEF EndWrite, WrapperTypeOK, Grows, inputVars
  <2> QED
    BY <1>7, <2>1, LeaveKeepsTypes, SharedStays, PlainStep DEF EndWrite
<1>8. CASE EndWriteFaults(t) \/ OutputAmountFaults(t)
  BY <1>8, CrashKeepsTypes DEF EndWriteFaults, OutputAmountFaults, Crash, Faults
<1>9. CASE OutputAmount(t)
  BY <1>9, LeaveKeepsTypes, WrapperStays, SharedStays, PlainStep DEF OutputAmount
<1> QED
  BY <1>1, <1>2, <1>3, <1>4, <1>5, <1>6, <1>7, <1>8, <1>9 DEF StopStep, CleanStep, WalkStep

LEMMA EnvironmentTypeOK ==
  ASSUME TypeOK, Environment
  PROVE  TypeOK'
<1> USE TypeOKParts
<1>1. ASSUME NEW t \in Threads, NEW m \in Methods, Call(t, m)
      PROVE  TypeOK'
  <2>1. ThreadTypeOK' /\ UNCHANGED <<ifmt, frame>>
    BY <1>1, LocationsExist DEF Call, Goto, ThreadTypeOK
  <2>2. SharedTypeOK'
    BY <1>1 DEF Call, SharedTypeOK, ctlVars
  <2> QED
    BY <1>1, <2>1, <2>2, WrapperStays, PlainStep DEF Call
<1>2. ASSUME NEW c \in Channels, AppendChannel(c)
      PROVE  TypeOK'
  <2>1. ThreadTypeOK' /\ UNCHANGED <<ifmt, frame>>
    BY <1>2 DEF AppendChannel, ThreadTypeOK
  <2>2. SharedTypeOK'
    BY <1>2 DEF AppendChannel, SharedTypeOK, ctlVars
  <2> QED
    BY <1>2, <2>1, <2>2, WrapperStays, PlainStep DEF AppendChannel
<1>3. ASSUME NEW t \in Threads, DropFrame(t)
      PROVE  TypeOK'
  <2>1. Grows /\ ThreadTypeOK' /\ SharedTypeOK'
    BY <1>3, WrapperStays, SharedStays DEF DropFrame, ThreadTypeOK
  <2>2. created \in Nat /\ created' = created
    BY <1>3 DEF DropFrame, wrapperVars, WrapperTypeOK
  <2>3. CopiesTypeOK'
    BY <1>3, <2>2 DEF DropFrame, CopiesTypeOK
  <2> QED
    BY <2>1, <2>3 DEF TypeOK, ThreadTypeOK, CopiesTypeOK, SharedTypeOK, Grows
<1>4. CASE CallerDies
  BY <1>4, CrashKeepsTypes DEF CallerDies, Faults
<1> QED
  BY <1>1, <1>2, <1>3, <1>4, OtherStepTypeOK DEF Environment

LEMMA NextTypeOK ==
  ASSUME TypeOK, [Next]_vars
  PROVE  TypeOK'
<1>1. CASE Next
  BY <1>1, ConfigStepTypeOK, ProcessStepTypeOK, OtherStepTypeOK, EnvironmentTypeOK
     DEF Next, Step
<1>2. CASE UNCHANGED vars
  <2>1. WrapperTypeOK' /\ CopiesTypeOK'
    BY <1>2, TypeOKParts
       DEF vars, wrapperVars, inputVars, outputVars, threadVars, WrapperTypeOK, CopiesTypeOK
  <2>2. ThreadTypeOK' /\ SharedTypeOK'
    BY <1>2, TypeOKParts, SharedStays DEF vars, threadVars, ThreadTypeOK
  <2> QED
    BY <2>1, <2>2 DEF TypeOK, ThreadTypeOK, CopiesTypeOK, SharedTypeOK
<1> QED
  BY <1>1, <1>2

(* Every variable keeps its type, whatever the threads do: in particular    *)
(* every pointer is nullptr or a context that was allocated.                *)
THEOREM TypeCorrect == Spec => []TypeOK
BY InitTypeOK, NextTypeOK, PTL DEF Spec

=============================================================================
