------------------------ MODULE ConfigurationProofs ------------------------
(***************************************************************************)
(* The batch program, for every input and list of channels, and then its   *)
(* SetConfig library call by library call.                                 *)
(***************************************************************************)
EXTENDS Configuration, TranscoderSafety, NumberLemmas, FiniteSetTheorems

-----------------------------------------------------------------------------
(***************************************************************************)
(* BatchProgram.  One thread makes three calls in a row, so that at any    *)
(* moment the call it is at tells the status, what is in the map of stream *)
(* objects and which outputs have a trailer.                               *)
(***************************************************************************)
Todo3 == <<"SetConfig", "Process", "WriteEnd">>
Todo2 == <<"Process", "WriteEnd">>
Todo1 == <<"WriteEnd">>
Todo0 == <<>>

LEMMA TodoFacts ==
  /\ Head(Todo3) = "SetConfig" /\ Tail(Todo3) = Todo2
  /\ Head(Todo2) = "Process" /\ Tail(Todo2) = Todo1
  /\ Head(Todo1) = "WriteEnd" /\ Tail(Todo1) = Todo0
  /\ Todo3 # Todo2 /\ Todo3 # Todo1 /\ Todo3 # Todo0
  /\ Todo2 # Todo1 /\ Todo2 # Todo0 /\ Todo1 # Todo0
  /\ \A n \in {Todo0, Todo1, Todo2, Todo3} : n \in Seq({"SetConfig", "Process", "WriteEnd"})
<1>1. Len(Todo3) = 3 /\ Len(Todo2) = 2 /\ Len(Todo1) = 1 /\ Len(Todo0) = 0
  BY DEF Todo3, Todo2, Todo1, Todo0
<1>2. Todo0 \in Seq({"SetConfig", "Process", "WriteEnd"})
  BY DEF Todo0
<1>3. Todo1 \in Seq({"SetConfig", "Process", "WriteEnd"})
  BY DEF Todo1
<1>4. Todo2 \in Seq({"SetConfig", "Process", "WriteEnd"})
  BY DEF Todo2
<1>5. Todo3 \in Seq({"SetConfig", "Process", "WriteEnd"})
  BY DEF Todo3
<1>6. Head(Todo3) = "SetConfig" /\ Head(Todo2) = "Process" /\ Head(Todo1) = "WriteEnd"
  BY DEF Todo3, Todo2, Todo1
<1>7. Tail(Todo3) = Todo2
  BY DEF Todo3, Todo2
<1>8. Tail(Todo2) = Todo1
  BY DEF Todo2, Todo1
<1>9. Tail(Todo1) = Todo0
  BY DEF Todo1, Todo0
<1> HIDE DEF Todo3, Todo2, Todo1, Todo0
<1>10. /\ Todo3 # Todo2 /\ Todo3 # Todo1 /\ Todo3 # Todo0
       /\ Todo2 # Todo1 /\ Todo2 # Todo0 /\ Todo1 # Todo0
  BY <1>1
<1> QED
  BY <1>2, <1>3, <1>4, <1>5, <1>6, <1>7, <1>8, <1>9, <1>10

-----------------------------------------------------------------------------
(* Where the thread is, and the status that goes with it.                   *)
Where(rest, locs, states) == todo = rest /\ pc[Main] \in locs /\ state \in states

Accounts == {"SetConfigFinished", "SetFailed"}
Stage ==
  \/ Where(Todo3, {"idle"}, {"Initial"}) /\ fault = "none"
  \/ Where(Todo2, {"cfg_announce"}, {"Initial"}) /\ method[Main] = "SetConfig" /\ fault = "none"
  \/ /\ Where(Todo2, {"lock", "cfg_open", "cfg_output", "cfg_accept", "cfg_reject", "cfg_rejected"},
               {"SetConfig"})
     /\ method[Main] = "SetConfig"
  \/ Where(Todo2, {"idle"}, Accounts)
  \/ Where(Todo1, {"prc_getifmt", "prc_announce"}, Accounts) /\ method[Main] = "Process"
  \/ /\ Where(Todo1, {"lock", "prc_init", "prc_loop", "prc_read", "prc_drain", "prc_finish"},
               {"Process"})
     /\ method[Main] = "Process"
  \/ Where(Todo1, {"idle"}, {"Finished"})
  \/ Where(Todo0, {"end_write", "idle"}, {"Finished"})

(* What the thread has made of the contexts by then: its input is a file,   *)
(* the stream objects exist until Process has drained them, and the outputs *)
(* have no trailer before the last call and all of them one after it.       *)
Emptying == todo = Todo0 \/ (todo = Todo1 /\ pc[Main] \in {"prc_finish", "idle"})
Contents ==
  /\ memory = {} /\ stale[Main] = FALSE
  /\ ifmt_ctx \in inputs \cup {NoCtx}
  /\ state = "Process" => ifmt[Main] = ifmt_ctx
  /\ todo = Todo1 /\ pc[Main] = "prc_announce" => ifmt[Main] = ifmt_ctx
  /\ Emptying => Objects = {}
  /\ ~Emptying => \A s \in Streams : pidObject[s].is # "null"
  /\ ended = IF todo = Todo0 /\ pc[Main] = "idle" THEN ofmt_list ELSE {}

ProgramInv == Stage /\ Contents /\ DiesOfRejectionOnly

LEMMA ProgramInitInv == ProgramInit => ProgramInv
<1> SUFFICES ASSUME ProgramInit PROVE ProgramInv
  OBVIOUS
<1>1. Init /\ WrapperInit /\ todo = Todo3 /\ Main \in Threads
  BY MainAssumption DEF ProgramInit, Todo3, Init
<1>2. DiesOfRejectionOnly
  BY <1>1 DEF WrapperInit, DiesOfRejectionOnly
<1>3. Stage
  BY <1>1 DEF Init, WrapperInit, Stage, Where
<1>4. Contents
  BY <1>1, TodoFacts DEF Init, WrapperInit, Contents, Emptying, Absent
<1> QED
  BY <1>1, <1>2, <1>3, <1>4 DEF ProgramInv

(* A step that only moves the thread on, or ends its method. *)
LEMMA MainMoves ==
  ASSUME TypeOK, NEW from, NEW to
  PROVE  /\ Main \in Threads
         /\ Move(Main, from, to) =>
              /\ fault = "none" /\ pc[Main] = from /\ pc'[Main] = to
              /\ method' = method /\ ifmt' = ifmt /\ stale' = stale
         /\ Leave(Main, from) =>
              /\ fault = "none" /\ pc[Main] = from /\ pc'[Main] = "idle"
              /\ ifmt' = ifmt /\ stale' = stale
BY MainAssumption DEF TypeOK, Move, Leave, Return, Goto, At

LEMMA MainCallsInv ==
  ASSUME TypeOK, ProgramInv, MainCalls
  PROVE  ProgramInv'
<1> USE TodoFacts DEF ProgramInv, Where, Emptying
<1>1. /\ pc[Main] = "idle" /\ fault = "none" /\ Main \in Threads /\ todo # <<>>
      /\ pc'[Main] = Entry(Head(todo)) /\ method'[Main] = Head(todo) /\ todo' = Tail(todo)
      /\ UNCHANGED <<wrapperVars, ctlVars, ifmt, stale>>
  BY MainAssumption DEF TypeOK, MainCalls, Call, At, Goto
<1>2. /\ Entry("SetConfig") = "cfg_announce" /\ Entry("Process") = "prc_getifmt"
      /\ Entry("WriteEnd") = "end_write"
  BY DEF Entry, Configs
<1>3. Stage'
  BY <1>1, <1>2 DEF Stage, ctlVars, wrapperVars, Todo0
<1>4. Contents'
  BY <1>1, <1>2 DEF Stage, Contents, Objects, Accounts, ctlVars, wrapperVars, inputVars, outputVars, Todo0
<1>5. DiesOfRejectionOnly'
  BY <1>1 DEF DiesOfRejectionOnly, wrapperVars
<1> QED
  BY <1>3, <1>4, <1>5

(* The configuration, which leaves every slot with a stream object or none. *)
LEMMA BindFills ==
  ASSUME NEW S, NEW o, Bind(S, o), \A s \in Streams : pidObject[s].is # "null"
  PROVE  \A s \in Streams : pidObject'[s].is # "null"
BY DEF Bind, Object

LEMMA ConfiguringOn ==
  ASSUME todo' = Todo2, state' = "SetConfig", method'[Main] = "SetConfig",
         pc'[Main] \in {"lock", "cfg_open", "cfg_output", "cfg_accept", "cfg_reject", "cfg_rejected"},
         memory' = {}, stale'[Main] = FALSE, ifmt_ctx' \in inputs' \cup {NoCtx}, ended' = {},
         \A s \in Streams : pidObject'[s].is # "null"
  PROVE  ProgramInv'
<1>1. Stage'
  BY DEF Stage, Where
<1>2. Contents'
  BY TodoFacts DEF Contents, Emptying
<1>3. DiesOfRejectionOnly'
  BY DEF DiesOfRejectionOnly
<1> QED
  BY <1>1, <1>2, <1>3 DEF ProgramInv

LEMMA ConfigStepInv ==
  ASSUME TypeOK, ProgramInv, ConfigStep(Main), UNCHANGED todo
  PROVE  ProgramInv'
<1> USE TodoFacts, MainMoves, ConfiguringOn DEF Where, Emptying, wrapperVars, inputVars, outputVars, ctlVars
<1>1. /\ Main \in Threads /\ Stage /\ Contents /\ fault = "none"
      /\ pc \in [Threads -> Locs] /\ stale \in [Threads -> BOOLEAN]
      /\ method \in [Threads -> Methods \cup {"none"}]
  BY MainAssumption DEF TypeOK, ProgramInv, ConfigStep, CfgAnnounce, CfgAlloc, CfgAllocFails, CfgOpen,
     CfgOpenFails, CfgOutput, CfgOutputFails, CfgOpenFaults, CfgIteratorFault, CfgOutputsDone,
     CfgAccept, CfgReject,
     CfgRejected, Move, Leave, Crash, Iterates, At
<1>2. CASE CfgAnnounce(Main)
  <2>1. state = "Initial" /\ todo = Todo2 /\ method[Main] = "SetConfig"
    BY <1>1, <1>2 DEF Stage, CfgAnnounce
  <2> QED
    BY <1>1, <1>2, <2>1 DEF CfgAnnounce, SetState, Contents
<1>3. ASSUME pc[Main] # "cfg_announce"
      PROVE  /\ pc[Main] \in {"cfg_open", "cfg_output", "cfg_accept", "cfg_reject", "cfg_rejected"}
             /\ state = "SetConfig" /\ todo = Todo2 /\ method[Main] = "SetConfig" /\ ended = {}
             /\ memory = {} /\ stale[Main] = FALSE /\ ifmt_ctx \in inputs \cup {NoCtx}
             /\ \A s \in Streams : pidObject[s].is # "null"
  <2>1. pc[Main] \in {"cfg_alloc", "cfg_open", "cfg_output", "cfg_accept", "cfg_reject", "cfg_rejected"}
    BY <1>1, <1>3 DEF ConfigStep, CfgAnnounce, CfgAlloc, CfgAllocFails, CfgOpen, CfgOpenFails, CfgOutput,
       CfgOutputFails, CfgOpenFaults, CfgIteratorFault, CfgOutputsDone, CfgAccept, CfgReject,
       CfgRejected, Move, Leave,
       Crash, Iterates, At
  <2> QED
    BY <1>1, <2>1 DEF Stage, Contents
<1>4. CASE CfgOpen(Main)
  <2>1. pc[Main] = "cfg_open" /\ pc'[Main] = "cfg_output" /\ stale'[Main] = FALSE
    BY <1>1, <1>4 DEF CfgOpen, At, Goto
  <2> QED
    BY <1>1, <1>3, <1>4, <2>1 DEF CfgOpen, OpenInput
<1>5. CASE CfgOpenFails(Main)
  BY <1>1, <1>3, <1>5 DEF CfgOpenFails, ProbeInputFails, OpenInputFails, CloseInput, At, threadVars,
     CfgAnnounce
<1>6. CASE CfgOutput(Main)
  <2>1. pc[Main] = "cfg_output" /\ UNCHANGED <<pc, method, stale, state>>
    BY <1>6 DEF CfgOutput, Iterates, At
  <2>2. UNCHANGED <<memory, ifmt_ctx, inputs, ended>> /\ Bind(Selects[ThisChannel(Main)], NewCtx)
    BY <1>6 DEF CfgOutput, OfmtInital
  <2>3. \A s \in Streams : pidObject'[s].is # "null"
    BY <1>3, <2>1, <2>2, BindFills
  <2> QED
    BY <1>1, <1>3, <2>1, <2>2, <2>3
<1>7. CASE CfgOutputFails(Main)
  <2>1. /\ pc[Main] = "cfg_output" /\ pc'[Main] \in {"cfg_output", "cfg_reject"}
        /\ UNCHANGED <<method, stale, state>>
    BY <1>7 DEF CfgOutputFails, Iterates, At, threadVars
  <2>2. /\ UNCHANGED <<memory, ifmt_ctx, inputs, ended>>
        /\ pidObject' = pidObject \/ \E S : Bind(S, NewCtx)
    BY <1>7 DEF CfgOutputFails, OfmtInitalFails, OfmtInitalFaults
  <2>3. \A s \in Streams : pidObject'[s].is # "null"
    BY <1>3, <2>1, <2>2, BindFills
  <2> QED
    BY <1>1, <1>3, <2>1, <2>2, <2>3
<1>8. CASE CfgOutputsDone(Main)
  <2>1. pc[Main] = "cfg_output" /\ pc'[Main] = "cfg_accept" /\ UNCHANGED <<method, stale>>
    BY <1>8 DEF CfgOutputsDone
  <2> QED
    BY <1>1, <1>3, <1>8, <2>1 DEF CfgOutputsDone
<1>9. CASE CfgAccept(Main) \/ CfgRejected(Main)
  <2>1. /\ pc[Main] # "cfg_announce" /\ pc'[Main] = "idle" /\ stale' = stale
        /\ state' \in Accounts /\ UNCHANGED wrapperVars
    <3>1. Leave(Main, "cfg_accept") \/ Leave(Main, "cfg_rejected")
      BY <1>9 DEF CfgAccept, CfgRejected
    <3>2. state' \in Accounts /\ UNCHANGED wrapperVars
      BY <1>9 DEF CfgAccept, CfgRejected, SetState, Accounts
    <3>3. pc[Main] # "cfg_announce" /\ pc'[Main] = "idle" /\ stale' = stale
      BY <1>1, <3>1 DEF Leave, Return, Goto, At
    <3> QED
      BY <3>2, <3>3
  <2>2. Stage'
    BY <1>1, <1>3, <2>1 DEF Stage
  <2>3. Contents'
    BY <1>1, <1>3, <2>1 DEF Contents, Accounts
  <2> QED
    BY <1>1, <2>1, <2>2, <2>3 DEF ProgramInv, DiesOfRejectionOnly
<1>10. CASE CfgReject(Main)
  <2>1. pc[Main] = "cfg_reject"
    BY <1>10 DEF CfgReject
  <2>2. /\ pc'[Main] = "cfg_rejected" /\ state' = state
        /\ UNCHANGED <<wrapperVars, method, stale>>
    BY <1>1, <1>3, <2>1, <1>10 DEF CfgReject
  <2> QED
    BY <1>1, <1>3, <2>1, <2>2
<1>11. ~CfgAlloc(Main) /\ ~CfgAllocFails(Main) /\ ~CfgOpenFaults(Main) /\ ~CfgIteratorFault(Main)
  BY <1>1, <1>3 DEF CfgAlloc, CfgAllocFails, CfgOpenFaults, CfgIteratorFault, Crash, At
<1> QED
  BY <1>2, <1>4, <1>5, <1>6, <1>7, <1>8, <1>9, <1>10, <1>11 DEF ConfigStep

(* The transcode, which keeps the map as it is until it drains it.          *)
LEMMA TranscodingOn ==
  ASSUME Contents, ~Emptying, ended = {}, fault' = "none", UNCHANGED wrapperVars,
         todo' = Todo1, state' = "Process", method'[Main] = "Process",
         pc'[Main] \in {"lock", "prc_init", "prc_loop", "prc_read", "prc_drain"},
         ifmt'[Main] = ifmt_ctx, stale'[Main] = FALSE
  PROVE  ProgramInv'
<1> USE DEF wrapperVars, inputVars, outputVars
<1>1. Stage'
  BY DEF Stage, Where
<1>2. Contents'
  BY TodoFacts DEF Contents, Emptying
<1>3. DiesOfRejectionOnly'
  BY DEF DiesOfRejectionOnly
<1> QED
  BY <1>1, <1>2, <1>3 DEF ProgramInv

LEMMA DyingInv ==
  ASSUME ProgramInv, NEW at \in {"prc_init", "prc_read", "prc_drain"}, NEW why,
         Crash(Main, at, why), UNCHANGED todo,
         why = "audio_object" \/ ifmt_ctx = NoCtx \/ \E s \in Objects : Detached(s)
  PROVE  ProgramInv'
<1> USE DEF ctlVars, threadVars, inputVars, outputVars
<1>1. pc[Main] \in {"prc_init", "prc_read", "prc_drain"}
  BY DEF Crash, At
<1>2. Stage'
  BY <1>1 DEF ProgramInv, Stage, Where, Crash
<1>3. Contents'
  BY DEF ProgramInv, Contents, Emptying, Objects, Crash
<1>4. DiesOfRejectionOnly'
  BY DEF DiesOfRejectionOnly, Crash, Die, Objects, Detached
<1> QED
  BY <1>2, <1>3, <1>4 DEF ProgramInv

LEMMA ProcessStepInv ==
  ASSUME TypeOK, ProgramInv, ProcessStep(Main), UNCHANGED todo
  PROVE  ProgramInv'
<1> USE TodoFacts DEF Where, Emptying
<1>1. /\ Main \in Threads /\ Stage /\ Contents /\ fault = "none"
      /\ pc \in [Threads -> Locs] /\ ifmt \in [Threads -> 0..created]
      /\ method \in [Threads -> Methods \cup {"none"}]
      /\ pc[Main] \in {"prc_getifmt", "prc_announce", "prc_init", "prc_loop", "prc_read",
                       "prc_drain", "prc_finish"}
  BY MainAssumption DEF TypeOK, ProgramInv, ProcessStep, PrcGetIfmt, PrcAnnounce, PrcInitTools,
     PrcInitFaults, PrcLoop, PrcReadEnds, PrcReadPacket, PrcReadFaults, PrcDrain, PrcDrainFaults,
     PrcFinish, Move, Leave, Crash, At
<1>2. todo = Todo1 /\ method[Main] = "Process" /\ ended = {} /\ stale[Main] = FALSE
  BY <1>1 DEF Stage, Contents
<1>3. CASE PrcGetIfmt(Main)
  <2>1. /\ pc[Main] = "prc_getifmt" /\ pc'[Main] = "prc_announce" /\ ifmt'[Main] = ifmt_ctx
        /\ UNCHANGED <<wrapperVars, ctlVars, method, stale>>
    BY <1>1, <1>3 DEF PrcGetIfmt, At, Goto
  <2>2. Stage'
    BY <1>1, <1>2, <2>1 DEF Stage, ctlVars, wrapperVars
  <2>3. Contents'
    BY <1>1, <1>2, <2>1 DEF Stage, Contents, Objects, Accounts, ctlVars, wrapperVars, inputVars, outputVars
  <2>4. DiesOfRejectionOnly'
    BY <1>1, <2>1 DEF DiesOfRejectionOnly, wrapperVars
  <2> QED
    BY <2>2, <2>3, <2>4 DEF ProgramInv
<1>4. CASE PrcAnnounce(Main)
  <2>1. /\ pc[Main] = "prc_announce" /\ pc'[Main] = "lock" /\ state' = "Process"
        /\ UNCHANGED <<wrapperVars, method, ifmt, stale>>
    BY <1>1, <1>4 DEF PrcAnnounce, Move, At, Goto, SetState
  <2>2. fault' = "none" /\ ifmt'[Main] = ifmt_ctx
    BY <1>1, <1>2, <2>1 DEF Contents, wrapperVars
  <2> QED
    BY <1>1, <1>2, <2>1, <2>2, TranscodingOn
<1>5. CASE \/ PrcInitTools(Main) \/ PrcLoop(Main) \/ PrcReadEnds(Main)
           \/ \E s \in Streams : PrcReadPacket(Main, s)
  <2>1. /\ pc[Main] \in {"prc_init", "prc_loop", "prc_read"}
        /\ pc'[Main] \in {"prc_loop", "prc_read", "prc_drain"}
        /\ UNCHANGED <<wrapperVars, ctlVars, method, ifmt, stale>>
    BY <1>1, <1>5 DEF PrcInitTools, PrcLoop, PrcReadEnds, PrcReadPacket, Move, At, Goto
  <2>2. state = "Process"
    BY <1>1, <2>1 DEF Stage, Accounts
  <2>3. fault' = "none" /\ ifmt'[Main] = ifmt_ctx /\ state' = "Process"
    BY <1>1, <2>1, <2>2 DEF Contents, wrapperVars, ctlVars
  <2> QED
    BY <1>1, <1>2, <2>1, <2>3, TranscodingOn
<1>6. CASE PrcInitFaults(Main) \/ PrcReadFaults(Main) \/ PrcDrainFaults(Main)
  <2>1. pc[Main] \in {"prc_init", "prc_read", "prc_drain"}
    BY <1>6 DEF PrcInitFaults, PrcReadFaults, PrcDrainFaults, Crash, At
  <2>2. /\ \A s \in Streams : pidObject[s].is # "null"
        /\ memory = {} /\ ifmt[Main] = ifmt_ctx /\ ifmt_ctx \in inputs \cup {NoCtx}
    BY <1>1, <1>2, <2>1 DEF Stage, Contents, Accounts
  <2>3. PICK at \in {"prc_init", "prc_read", "prc_drain"}, why \in Faults :
          /\ Crash(Main, at, why)
          /\ why = "audio_object" \/ ifmt_ctx = NoCtx \/ \E s \in Objects : Detached(s)
    BY <1>2, <1>6, <2>2 DEF PrcInitFaults, PrcReadFaults, PrcDrainFaults, Detached, Faults
  <2> QED
    BY <2>3, DyingInv
<1>7. CASE PrcDrain(Main)
  <2>1. /\ pc[Main] = "prc_drain" /\ pc'[Main] = "prc_finish" /\ fault' = "none"
        /\ Objects' = {} /\ UNCHANGED <<inputVars, ended, ctlVars, method, ifmt, stale>>
    BY <1>1, <1>7 DEF PrcDrain, Move, At, Goto, Objects, Emptied
  <2>2. Stage'
    BY <1>1, <1>2, <2>1 DEF Stage, ctlVars, Accounts
  <2>3. Contents'
    BY <1>1, <1>2, <2>1 DEF Contents, ctlVars, inputVars
  <2>4. DiesOfRejectionOnly'
    BY <2>1 DEF DiesOfRejectionOnly
  <2> QED
    BY <2>2, <2>3, <2>4 DEF ProgramInv
<1>8. CASE PrcFinish(Main)
  <2>1. /\ pc[Main] = "prc_finish" /\ pc'[Main] = "idle" /\ state' = "Finished"
        /\ UNCHANGED <<wrapperVars, ifmt, stale>>
    BY <1>1, <1>8 DEF PrcFinish, Leave, Return, At, Goto, SetState
  <2>2. Stage'
    BY <1>1, <1>2, <2>1 DEF Stage
  <2>3. Contents'
    BY <1>1, <1>2, <2>1 DEF Contents, Objects, wrapperVars, inputVars, outputVars
  <2>4. DiesOfRejectionOnly'
    BY <1>1, <2>1 DEF DiesOfRejectionOnly, wrapperVars
  <2> QED
    BY <2>2, <2>3, <2>4 DEF ProgramInv
<1> QED
  BY <1>3, <1>4, <1>5, <1>6, <1>7, <1>8 DEF ProcessStep

(* The locks and the trailers; no other step is one of the program.         *)
LEMMA OtherStepInv ==
  ASSUME TypeOK, ProgramInv, UNCHANGED todo,
         AcquireProcessLock(Main) \/ StopStep(Main) \/ CleanStep(Main) \/ WalkStep(Main)
  PROVE  ProgramInv'
<1> USE TodoFacts DEF Where, Emptying
<1>1. /\ Main \in Threads /\ Stage /\ Contents /\ fault = "none"
      /\ pc \in [Threads -> Locs] /\ method \in [Threads -> Methods \cup {"none"}]
      /\ \A u \in Threads : u = Main
  BY MainAssumption DEF TypeOK, ProgramInv, AcquireProcessLock, StopStep, StpRefused, StpAccepted,
     StpArm, CleanStep, ClnReset, ClnWipe, WalkStep, EndWrite, EndWriteFaults, OutputAmount,
     OutputAmountFaults, Move, Leave, Crash, At
<1>2. CASE AcquireProcessLock(Main)
  <2>1. /\ pc[Main] = "lock" /\ pc'[Main] = Locked(method[Main]) /\ fault' = "none"
        /\ UNCHANGED <<wrapperVars, state, method, ifmt, stale>>
    BY <1>1, <1>2 DEF AcquireProcessLock, Move, At, Goto, wrapperVars
  <2>2. Locked("SetConfig") = "cfg_open" /\ Locked("Process") = "prc_init"
    BY DEF Locked
  <2>3. CASE method[Main] = "SetConfig"
    <3>1. todo = Todo2 /\ state = "SetConfig" /\ pc'[Main] = "cfg_open"
      BY <1>1, <2>1, <2>2, <2>3 DEF Stage
    <3> QED
      BY <1>1, <2>1, <2>3, <3>1, ConfiguringOn DEF Contents, wrapperVars, inputVars, outputVars
  <2>4. CASE method[Main] = "Process"
    <3>1. todo = Todo1 /\ state = "Process" /\ pc'[Main] = "prc_init"
      BY <1>1, <2>1, <2>2, <2>4 DEF Stage
    <3>2. ended = {} /\ ifmt[Main] = ifmt_ctx /\ stale[Main] = FALSE
      BY <1>1, <2>1, <3>1 DEF Contents
    <3> QED
      BY <1>1, <2>1, <2>4, <3>1, <3>2, TranscodingOn
  <2> QED
    BY <1>1, <2>1, <2>3, <2>4 DEF Stage
<1>3. CASE EndWrite(Main)
  <2>1. /\ pc[Main] = "end_write" /\ pc'[Main] = "idle" /\ ended' = ended \cup ofmt_list
        /\ fault' = "none" /\ UNCHANGED <<inputVars, ofmt_list, pidObject, ctlVars, ifmt, stale>>
    BY <1>1, <1>3 DEF EndWrite, Leave, Return, At, Goto
  <2>2. todo = Todo0 /\ state = "Finished"
    BY <1>1, <2>1 DEF Stage
  <2>3. Stage'
    BY <2>1, <2>2 DEF Stage, ctlVars
  <2>4. Contents'
    BY <1>1, <2>1, <2>2 DEF Contents, Objects, inputVars, ctlVars
  <2>5. DiesOfRejectionOnly'
    BY <2>1 DEF DiesOfRejectionOnly
  <2> QED
    BY <2>3, <2>4, <2>5 DEF ProgramInv
<1>4. ~EndWriteFaults(Main)
  <2>1. SUFFICES ASSUME pc[Main] = "end_write" PROVE ended = {} /\ ~Inserting
    BY DEF EndWriteFaults, Crash, At
  <2> QED
    BY <1>1, <2>1 DEF Contents, Inserting
<1>5. ~StopStep(Main) /\ ~CleanStep(Main) /\ ~OutputAmount(Main) /\ ~OutputAmountFaults(Main)
  <2>1. pc[Main] \notin {"stp_check", "stp_arm", "cln_reset", "cln_wipe", "out_amount"}
    BY <1>1 DEF Stage
  <2> QED
    BY <2>1 DEF StopStep, StpRefused, StpAccepted, StpArm, CleanStep, ClnReset, ClnWipe,
       OutputAmount, OutputAmountFaults, Move, Leave, Crash, At
<1> QED
  BY <1>2, <1>3, <1>4, <1>5 DEF WalkStep

LEMMA ProgramNextInv ==
  ASSUME TypeOK, ProgramInv, [ProgramNext]_programVars
  PROVE  ProgramInv'
<1>1. CASE UNCHANGED programVars
  BY <1>1 DEF ProgramInv, Stage, Where, Contents, Emptying, Objects, DiesOfRejectionOnly, Detached,
     programVars, vars, wrapperVars, inputVars, outputVars, ctlVars, threadVars
<1> QED
  BY <1>1, MainCallsInv, ConfigStepInv, ProcessStepInv, OtherStepInv DEF ProgramNext, Step

-----------------------------------------------------------------------------
Remaining == todo \in {Todo0, Todo1, Todo2, Todo3}
LEMMA LeftToCall == ProgramSafety => []Remaining
<1> USE DEF Remaining
<1>1. ProgramInit => Remaining
  BY DEF ProgramInit, Todo3
<1>2. ASSUME Remaining, [ProgramNext]_programVars PROVE Remaining'
  <2>1. CASE MainCalls
    BY <1>2, <2>1, TodoFacts DEF MainCalls, Todo0
  <2> QED
    BY <1>2, <2>1 DEF ProgramNext, programVars
<1> HIDE DEF Remaining
<1> QED
  BY <1>1, <1>2, PTL DEF ProgramSafety

LEMMA ProgramStepIsStep ==
  ASSUME Remaining, [ProgramNext]_programVars
  PROVE  [Next]_vars
<1>1. Main \in Threads
  BY MainAssumption
<1>2. CASE MainCalls
  <2>1. Head(todo) \in Methods
    BY <1>2, TodoFacts DEF Remaining, MainCalls, Methods, Configs, Todo0
  <2> QED
    BY <1>1, <1>2, <2>1 DEF MainCalls, Next, Environment
<1>3. CASE Step(Main)
  BY <1>1, <1>3 DEF Next
<1> QED
  BY <1>2, <1>3 DEF ProgramNext, programVars

(* The batch program is a use of the Transcoder: each of its steps is a     *)
(* step of the singleton under arbitrary callers, or leaves it unchanged,   *)
(* so that what is proved of Spec is true of the program.                   *)
THEOREM ProgramImplementsTranscoder == ProgramSafety => Spec
<1>1. ProgramInit => Init
  BY DEF ProgramInit
<1> QED
  BY <1>1, ProgramStepIsStep, LeftToCall, PTL DEF ProgramSafety, Spec

(* Every state of the batch program is well typed, and what main has left   *)
(* to do is a list of its three calls.                                      *)
THEOREM ProgramTypes == ProgramSafety => []ProgramTypeOK
<1>1. TypeOK /\ Remaining => ProgramTypeOK
  BY TodoFacts DEF ProgramTypeOK, Remaining
<1> QED
  BY <1>1, ProgramImplementsTranscoder, TypeCorrect, LeftToCall, PTL

LEMMA ProgramInvariant == ProgramSafety => [](TypeOK /\ OutputsListed /\ ProgramInv)
BY ProgramInitInv, ProgramNextInv, ProgramImplementsTranscoder, TypeCorrect, ListedOutputs, PTL
   DEF ProgramSafety

(* A program that has made its last call and lives has transcoded its whole *)
(* input, emptied its map of stream objects and written a trailer to        *)
(* exactly the outputs it has opened.                                       *)
THEOREM CompleteExit == ProgramSafety => []ExitIsComplete
<1>1. ASSUME TypeOK, OutputsListed, ProgramInv PROVE ExitIsComplete
  <2> SUFFICES ASSUME Exited
               PROVE  state = "Finished" /\ Objects = {} /\ ended = outputs /\ ofmt_list = outputs
    BY DEF ExitIsComplete
  <2>1. todo = Todo0 /\ pc[Main] = "idle"
    BY MainAssumption DEF Exited, Quiescent, Todo0
  <2> QED
    BY <1>1, <2>1, TodoFacts
       DEF ProgramInv, Stage, Where, Contents, Emptying, OutputsListed
<1> QED
  BY <1>1, ProgramInvariant, PTL

(* Past its configuration, the program dies only of a rejection it has not  *)
(* looked at, or in an audio object.                                        *)
THEOREM OnlyRejectionKills == ProgramSafety => []DiesOfRejectionOnly
BY ProgramInvariant, PTL DEF ProgramInv

(* Every run of the program is a session of the finite state machine that   *)
(* the statuses name; that a session also concludes is for TLC to check.    *)
THEOREM ProgramIsSession == ProgramSafety => Session!Safety
<1>1. ProgramInit => Session!Init
  BY DEF ProgramInit, Init, WrapperInit, Session!Init
<1>2. ASSUME TypeOK, OutputsListed, ProgramInv, ProgramInv', [ProgramNext]_programVars
      PROVE  [Session!Next]_(Session!vars)
  <2>1. SUFFICES ASSUME state' # state \/ (fault' = "none") # (fault = "none")
                 PROVE  Session!Next
    BY DEF Session!vars
  <2>2. ProgramNext /\ fault = "none" /\ Stage
    BY <1>2, <2>1 DEF ProgramInv, ProgramNext, programVars, vars, wrapperVars, ctlVars, MainCalls, Call,
       Step, AcquireProcessLock, ConfigStep, CfgAnnounce, CfgAlloc, CfgAllocFails, CfgOpen,
       CfgOpenFails, CfgOutput, CfgOutputFails, CfgOpenFaults, CfgIteratorFault, CfgOutputsDone,
       CfgAccept, CfgReject,
       CfgRejected, ProcessStep, PrcGetIfmt, PrcAnnounce, PrcInitTools, PrcInitFaults, PrcLoop,
       PrcReadEnds, PrcReadPacket, PrcReadFaults, PrcDrain, PrcDrainFaults, PrcFinish, StopStep,
       StpRefused, StpAccepted, StpArm, CleanStep, ClnReset, ClnWipe, WalkStep, EndWrite,
       EndWriteFaults, OutputAmount, OutputAmountFaults, Move, Leave, Crash, At, Iterates
  <2> USE DEF Session!Next, Session!Configure, Session!Accept, Session!Reject, Session!Start,
              Session!Finish, Session!Perish, Session!Becomes
  <2>3. CASE fault' # "none"
    <3>1. state' = state
      BY <2>2, <2>3 DEF ProgramNext, MainCalls, Call, wrapperVars, ctlVars,
       Step, AcquireProcessLock, ConfigStep, CfgAnnounce, CfgAlloc, CfgAllocFails, CfgOpen,
       CfgOpenFails, CfgOutput, CfgOutputFails, CfgOpenFaults, CfgIteratorFault, CfgOutputsDone,
       CfgAccept, CfgReject,
       CfgRejected, ProcessStep, PrcGetIfmt, PrcAnnounce, PrcInitTools, PrcInitFaults, PrcLoop,
       PrcReadEnds, PrcReadPacket, PrcReadFaults, PrcDrain, PrcDrainFaults, PrcFinish, StopStep,
       StpRefused, StpAccepted, StpArm, CleanStep, ClnReset, ClnWipe, WalkStep, EndWrite,
       EndWriteFaults, OutputAmount, OutputAmountFaults, Move, Leave, Crash, SetState
    <3> QED
      BY <2>2, <2>3, <3>1
  <2>4. CASE fault' = "none"
    <3>1. state' # state
      BY <2>1, <2>2, <2>4
    <3>2. \/ CfgAnnounce(Main) \/ CfgAccept(Main) \/ CfgReject(Main) \/ CfgRejected(Main)
          \/ PrcAnnounce(Main) \/ PrcFinish(Main) \/ ClnReset(Main)
      BY <2>2, <3>1 DEF ProgramNext, MainCalls, Call, wrapperVars, ctlVars,
       Step, AcquireProcessLock, ConfigStep, CfgAlloc, CfgAllocFails, CfgOpen,
       CfgOpenFails, CfgOutput, CfgOutputFails, CfgOpenFaults, CfgIteratorFault, CfgOutputsDone,
       ProcessStep, PrcGetIfmt, PrcInitTools, PrcInitFaults, PrcLoop,
       PrcReadEnds, PrcReadPacket, PrcReadFaults, PrcDrain, PrcDrainFaults, StopStep,
       StpRefused, StpAccepted, StpArm, CleanStep, ClnWipe, WalkStep, EndWrite,
       EndWriteFaults, OutputAmount, OutputAmountFaults, Crash
    <3>3. pc[Main] \in Locs /\ (pc[Main] = "cfg_reject" => method[Main] = "SetConfig")
      BY <1>2, <2>2, MainAssumption DEF TypeOK, Stage, Where
    <3> QED
      BY <2>2, <2>4, <3>1, <3>2, <3>3 DEF Stage, Where, Accounts, CfgAnnounce, CfgAccept, CfgReject,
         CfgRejected, PrcAnnounce, PrcFinish, ClnReset, SetState, Move, Leave, At
  <2> QED
    BY <1>2, <2>3, <2>4 DEF ProgramInv, Stage
<1> QED
  BY <1>1, <1>2, ProgramInvariant, PTL DEF ProgramSafety, Session!Safety

-----------------------------------------------------------------------------
(***************************************************************************)
(* Configuration.  The loops over the streams of an input and of a channel *)
(* go through them in index order, so that wherever a call fails, what is  *)
(* in the making is what one of the outcomes of CtxWrapper leaves.         *)
(***************************************************************************)
(* _pidObject with the streams of D bound to the output in the making.      *)
BoundTo(D) == [s \in Streams |-> IF s \in D /\ pidObject[s].is = "absent"
                                   THEN Object(ifmt_ctx, NewCtx) ELSE pidObject[s]]

(* The streams of the channel whose stream object is bound, and the last of *)
(* them: the loop has been there, and has not been past it.                 *)
Visited == Selects[Channel] \ left
Bound   == Visited \cup (IF next = "encoder" THEN {This} ELSE {})
InOrder == /\ \A s \in Visited, r \in left : s < r
           /\ Visited # {} => \E s \in Visited : \A r \in Visited : r <= s

Building == pc[Main] = "cfg_output" /\ next \in {"streams", "encoder"}
BuildInv ==
  /\ pos[Main] <= Len(channel_list)
  /\ left \subseteq Selects[Channel]
  /\ InOrder
  /\ Bound \cap Foreign(Channel) = {}
  /\ slots = BoundTo(Bound)
  /\ next = "encoder" => left # {}

(* Before the first call of SetConfig; in _ifmtInital; in the loop over the *)
(* channels.                                                                *)
Untouched == outputs = {} /\ attached = {}
Fresh == todo = Todo3 \/ (todo = Todo2 /\ pc[Main] \in {"cfg_announce", "lock"})
CallsInv ==
  /\ Fresh => next = "open" /\ Untouched
  /\ pc[Main] = "cfg_open" =>
       /\ next \in {"open", "probe", "decoders"} /\ Untouched
       /\ next = "decoders" => left \cup opened = Wanted(channel_list)
  /\ pc[Main] = "cfg_output" =>
       /\ next \in {"output", "streams", "encoder"}
       /\ pos[Main] \in Nat \ {0} /\ Cardinality(outputs) = pos[Main] - 1
  /\ Building => BuildInv

(* The encoders are those of the outputs that exist, and of the streams the *)
(* loop has gone through.                                                   *)
EncodersOf(o) == {s \in Streams : <<o, s>> \in attached}
EncodersInv ==
  /\ IsFiniteSet(outputs)
  /\ \A o \in outputs : \E n \in DOMAIN channel_list : EncodersOf(o) = Selects[channel_list[n]]
  /\ \A e \in attached : e[1] \in outputs \/ (Building /\ e[1] = NewCtx)
  /\ Building => EncodersOf(NewCtx) = Visited

(* Until a configuration is rejected nothing else is loose than the context *)
(* of their own of the streams that were given a decoder or an encoder.     *)
Owns(D) == {Own(d[1], d[2]) : d \in D}
LooseInv ==
  /\ Fresh \/ pc[Main] = "cfg_open" => ifmt_ctx = NoCtx /\ inputs = {} /\ decoders = {}
  /\ Fresh => loose = {}
  /\ pc[Main] = "cfg_open" =>
       loose = IF next = "decoders" THEN Owns({OpenedCtx} \X opened) ELSE {}
  /\ pc[Main] = "cfg_output" => loose = Owns(Coded)
  /\ \A x \in inputs \cup outputs, s \in Streams : Own(x, s) \in loose <=> <<x, s>> \in Coded
  /\ \A d \in loose : d.is = "new" =>
       /\ \A e \in loose : e.is = "new" => e = d
       /\ d.of[1] \notin inputs \cup outputs
       /\ Cardinality(outputs) < Len(channel_list)

ConfigInv == ConfigTypeOK /\ ProgramInv /\ CallsInv /\ EncodersInv /\ LooseInv

-----------------------------------------------------------------------------
LEMMA LowestIs ==
  ASSUME NEW S \in SUBSET Streams, S # {}
  PROVE  Lowest(S) \in S /\ \A r \in S : Lowest(S) <= r
BY LeastNat, StreamsAssumption DEF Lowest

(* What a state with Main configuring gives every step.                     *)
LEMMA ConfiguringNow ==
  ASSUME ConfigInv, pc[Main] \in {"cfg_open", "cfg_output"}
  PROVE  /\ Main \in Threads /\ pc \in [Threads -> Locs] /\ stale \in [Threads -> BOOLEAN]
         /\ pos \in [Threads -> Nat] /\ stale[Main] = FALSE
         /\ method[Main] = "SetConfig" /\ state = "SetConfig" /\ todo = Todo2
         /\ channel_list \in Seq(Channels)
         /\ created \in Nat /\ NewCtx \in Nat
         /\ \A s \in Streams : s \in Nat
         /\ left \in SUBSET Streams /\ opened \in SUBSET Streams
         /\ pidObject \in [Streams -> Slot]
BY MainAssumption, StreamsAssumption
   DEF ConfigInv, ConfigTypeOK, ProgramTypeOK, TypeOK, WrapperTypeOK, ProgramInv, Stage, Where, Contents,
       Slot, NewCtx
(* The place the loop has got to, as one of the places it may stop at.      *)
LEMMA StoppedHere ==
  ASSUME ConfigInv, Building, Iterates(Main)
  PROVE  /\ Channel \in Channels /\ Selects[Channel] \in SUBSET Streams
         /\ left # {} => /\ This \in left /\ This \in Streams /\ This \in Nat
                        /\ \A r \in left : This <= r
                        /\ Visited = Before(Channel, This)
                        /\ Visited \cup {This} = Before(Channel, This + 1)
         /\ left = {} /\ Selects[Channel] # {} =>
              \E s \in Streams : Selects[Channel] = Before(Channel, s + 1)
<1>1. /\ pos[Main] \in Nat \ {0} /\ pos[Main] <= Len(channel_list) /\ channel_list \in Seq(Channels)
      /\ left \subseteq Selects[Channel] /\ InOrder
  BY ConfiguringNow DEF ConfigInv, CallsInv, BuildInv, Building
<1>2. Channel \in Channels /\ Selects[Channel] \in SUBSET Streams
  BY <1>1, SelectsAssumption DEF Channel, ThisChannel
<1>3. \A s \in Streams : s \in Nat
  BY StreamsAssumption
<1>4. ASSUME left # {}
      PROVE  /\ This \in left /\ This \in Streams /\ This \in Nat /\ \A r \in left : This <= r
             /\ Visited = Before(Channel, This)
             /\ Visited \cup {This} = Before(Channel, This + 1)
  <2>1. left \in SUBSET Streams
    BY <1>1, <1>2
  <2>2. /\ This \in left /\ This \in Streams /\ This \in Nat /\ \A r \in left : This <= r
    BY <1>3, <1>4, <2>1, LowestIs DEF This
  <2>3. \A s \in Selects[Channel] : (s \in Visited <=> s < This) /\ (s \in Visited \cup {This} <=> s < This + 1)
    <3>1. SUFFICES ASSUME NEW s \in Selects[Channel]
                   PROVE  (s \in Visited <=> s < This) /\ (s = This \/ s \in Visited <=> s < This + 1)
      OBVIOUS
    <3>2. s \in Nat
      BY <1>2, <1>3
    <3>3. s \in Visited => s < This
      BY <1>1, <2>2 DEF InOrder
    <3>4. s \notin Visited => This <= s
      BY <2>2 DEF Visited
    <3> QED
      BY <2>2, <3>2, <3>3, <3>4
  <2>4. This \in Selects[Channel]
    BY <1>1, <2>2
  <2> QED
    BY <2>2, <2>3, <2>4 DEF Before, Visited
<1>5. ASSUME left = {}, Selects[Channel] # {}
      PROVE  \E s \in Streams : Selects[Channel] = Before(Channel, s + 1)
  <2>1. PICK s \in Selects[Channel] : \A r \in Selects[Channel] : r <= s
    BY <1>1, <1>5 DEF InOrder, Visited
  <2>2. \A r \in Selects[Channel] : r \in Nat
    BY <1>2, <1>3
  <2>3. s \in Streams /\ \A r \in Selects[Channel] : r < s + 1
    BY <1>2, <2>1, <2>2
  <2> QED
    BY <2>3 DEF Before
<1> QED
  BY <1>2, <1>4, <1>5

(* Each call of _ifmtInital and _ofmtInital is a step of SetConfig in one   *)
(* step, or not visible there.                                              *)
LEMMA OpeningRefines ==
  ASSUME ConfigInv, DiesOfOpening \/ InputRejected \/ InputAccepted
  PROVE  Step(Main) /\ UNCHANGED todo
<1> USE DEF Making, ThenGoto, Opens, At, Goto, inputVars, outputVars, ctlVars, envVars, threadVars
<1>1. pc[Main] = "cfg_open" /\ fault = "none"
  BY DEF DiesOfOpening, InputRejected, InputAccepted
<1>2. CASE DiesOfOpening
  <2>1. CfgOpenFails(Main) /\ UNCHANGED todo
    BY <1>1, <1>2 DEF DiesOfOpening, Perishes, CfgOpenFails, OpenInputFails, CloseInput
  <2> QED
    BY <2>1 DEF Step, ConfigStep
<1>3. CASE InputRejected
  <2>1. CfgOpenFails(Main) /\ UNCHANGED todo
    BY <1>1, <1>3 DEF InputRejected, CfgOpenFails, ProbeInputFails, CloseInput, Move
  <2> QED
    BY <2>1 DEF Step, ConfigStep
<1>4. CASE InputAccepted
  <2>1. opened = Wanted(channel_list)
    BY <1>1, <1>4 DEF InputAccepted, ConfigInv, CallsInv
  <2>2. stale' = [stale EXCEPT ![Main] = FALSE]
    BY <1>1, <1>4, ConfiguringNow DEF InputAccepted
  <2>3. CfgOpen(Main) /\ UNCHANGED todo
    BY <1>1, <1>4, <2>1, <2>2 DEF InputAccepted, CfgOpen, OpenInput
  <2> QED
    BY <2>3 DEF Step, ConfigStep
<1> QED
  BY <1>2, <1>3, <1>4

LEMMA BuildingRefines ==
  ASSUME ConfigInv, DiesOfBuilding \/ OutputRejected \/ OutputAccepted
  PROVE  Step(Main) /\ UNCHANGED todo
<1> USE DEF Making, ThenGoto, Builds, At, Goto, inputVars, outputVars, ctlVars, envVars, threadVars
<1>1. pc[Main] = "cfg_output" /\ fault = "none" /\ Iterates(Main)
  BY DEF DiesOfBuilding, OutputRejected, OutputAccepted, Iterates
<1>2. ASSUME Building
      PROVE  /\ Bound \cap Foreign(Channel) = {} /\ slots = BoundTo(Bound)
             /\ left \subseteq Selects[Channel] /\ (next = "encoder" => left # {})
  BY <1>2 DEF ConfigInv, CallsInv, BuildInv
<1>3. CASE DiesOfBuilding
  <2>1. UNCHANGED <<inputVars, outputVars, created>> /\ UNCHANGED threadVars
        /\ UNCHANGED <<ctlVars, envVars>> /\ UNCHANGED todo
    BY <1>3 DEF DiesOfBuilding, Perishes
  <2>2. OfmtInitalFaults(ThisChannel(Main))
    <3>1. CASE Making("output")
      BY <1>3, <2>1, <3>1 DEF DiesOfBuilding, Perishes, OfmtInitalFaults
    <3>2. CASE Making("streams") /\ left # {}
      <4>1. Building
        BY <1>1, <3>2 DEF Building
      <4>2. This \in left /\ Before(Channel, This + 1) = Visited \cup {This}
        BY <1>1, <3>2, <4>1, StoppedHere
      <4>3. Kind[This] # "other" /\ "output" \in Failures /\ Die("null_encoder")
        BY <1>3, <3>2 DEF DiesOfBuilding, Perishes
      <4>4. This \in Selects[Channel] /\ Foreign(Channel) \cap Before(Channel, This + 1) = {}
        BY <1>2, <4>1, <4>2, <4>3, <3>2 DEF Bound, Foreign
      <4> QED
        BY <2>1, <4>3, <4>4 DEF OfmtInitalFaults, Channel
    <3>3. CASE Making("streams") /\ left = {}
      <4>1. Building
        BY <1>1, <3>3 DEF Building
      <4>2. Foreign(Channel) = {}
        BY <1>2, <3>3, <4>1 DEF Bound, Visited, Foreign
      <4> QED
        BY <1>3, <2>1, <3>3, <4>2 DEF DiesOfBuilding, Perishes, OfmtInitalFaults, Channel
    <3> QED
      BY <1>3, <3>1, <3>2, <3>3 DEF DiesOfBuilding
  <2>3. CfgOutputFails(Main)
    BY <1>1, <2>1, <2>2 DEF CfgOutputFails
  <2> QED
    BY <2>1, <2>3 DEF Step, ConfigStep
<1>4. CASE OutputRejected
  <2>1. Building
    BY <1>1, <1>4 DEF OutputRejected, Building
  <2>2. \E k \in Stops(Channel) : Bound = Before(Channel, k)
    <3>1. CASE Making("streams") /\ left # {}
      <4>1. This \in Streams /\ This \in Selects[Channel] /\ Bound = Before(Channel, This)
        BY <1>1, <1>2, <2>1, <3>1, StoppedHere DEF Bound
      <4>2. "output" \in Failures \/ This \in Foreign(Channel)
        BY <1>4, <3>1, <4>1 DEF OutputRejected, Foreign
      <4>3. This \in Stops(Channel)
        BY <1>2, <2>1, <4>1, <4>2 DEF Stops
      <4> QED
        BY <4>1, <4>3
    <3>2. CASE Making("streams") /\ left = {} /\ Selects[Channel] # {}
      <4>1. PICK s \in Streams : Bound = Before(Channel, s + 1)
        BY <1>1, <2>1, <3>2, StoppedHere DEF Bound, Visited
      <4>2. "output" \in Failures
        BY <1>4, <3>2 DEF OutputRejected
      <4>3. s + 1 \in Stops(Channel)
        BY <1>2, <2>1, <4>1, <4>2 DEF Stops
      <4> QED
        BY <4>1, <4>3
    <3>3. CASE Making("streams") /\ Selects[Channel] = {}
      <4>1. Bound = Before(Channel, 0) /\ 0 \in Stops(Channel)
        BY <3>3 DEF Stops, Bound, Visited, Before
      <4> QED
        BY <4>1
    <3>4. CASE Making("encoder")
      <4>1. /\ This \in Streams /\ This \in Selects[Channel] /\ Bound = Before(Channel, This + 1)
        BY <1>1, <1>2, <2>1, <3>4, StoppedHere DEF Bound
      <4>2. "output" \in Failures \/ <<ifmt_ctx, This>> \notin decoders
        BY <1>4, <3>4 DEF OutputRejected
      <4>3. This + 1 \in Stops(Channel)
        BY <1>2, <2>1, <4>1, <4>2 DEF Stops
      <4> QED
        BY <4>1, <4>3
    <3> QED
      BY <1>4, <3>1, <3>2, <3>3, <3>4 DEF OutputRejected
  <2>3. pidObject' = BoundTo(Bound)
    BY <1>2, <1>4, <2>1 DEF OutputRejected
  <2>4. OfmtInitalFails(ThisChannel(Main))
    BY <1>4, <2>2, <2>3 DEF OutputRejected, OfmtInitalFails, Bind, BoundTo, Channel
  <2>5. CfgOutputFails(Main) /\ UNCHANGED todo
    BY <1>1, <1>4, <2>4 DEF OutputRejected, CfgOutputFails, Move
  <2> QED
    BY <2>5 DEF Step, ConfigStep
<1>5. CASE OutputAccepted
  <2>1. Building
    BY <1>1, <1>5 DEF OutputAccepted, Building
  <2>2. Bound = Selects[Channel] /\ Foreign(Channel) = {}
    BY <1>2, <1>5, <2>1 DEF OutputAccepted, Bound, Visited, Foreign
  <2>3. Bind(Selects[Channel], NewCtx)
    BY <1>2, <1>5, <2>1, <2>2 DEF OutputAccepted, Bind, BoundTo
  <2>4. OfmtInital(ThisChannel(Main))
    BY <1>5, <2>2, <2>3 DEF OutputAccepted, OfmtInital, Channel
  <2>5. pc' = pc
    BY <1>1, <1>5, ConfiguringNow DEF OutputAccepted
  <2>6. CfgOutput(Main) /\ UNCHANGED todo
    BY <1>1, <1>5, <2>4, <2>5 DEF OutputAccepted, CfgOutput
  <2> QED
    BY <2>6 DEF Step, ConfigStep
<1> QED
  BY <1>3, <1>4, <1>5

LEMMA NextRefines ==
  ASSUME ConfigInv, [ConfigNext]_configVars
  PROVE  [ProgramNext]_programVars
<1>1. CASE OpensInput \/ Probes \/ FindsDecoder \/ AllocatesOutput \/ MakesEncoder \/ AttachesEncoder
  BY <1>1 DEF OpensInput, Probes, FindsDecoder, AllocatesOutput, MakesEncoder, AttachesEncoder, Then
<1>2. CASE Elsewhere
  BY <1>2 DEF Elsewhere, ProgramNext
<1>3. CASE UNCHANGED configVars
  BY <1>3 DEF configVars
<1> QED
  BY <1>1, <1>2, <1>3, OpeningRefines, BuildingRefines DEF ConfigNext, ConfigCalls, ProgramNext
-----------------------------------------------------------------------------
LEMMA BindingTypes ==
  ASSUME ConfigInv
  PROVE  Object(ifmt_ctx, NewCtx) \in Slot /\ pidObject \in [Streams -> Slot]
BY DEF ConfigInv, ConfigTypeOK, ProgramTypeOK, TypeOK, WrapperTypeOK, Object, Slot, NewCtx

LEMMA CallTypes ==
  ASSUME ConfigInv, ConfigCalls, TypeOK'
  PROVE  ConfigTypeOK'
<1> USE DEF ConfigCalls, OpensInput, DiesOfOpening, Probes, FindsDecoder, InputRejected, InputAccepted,
            AllocatesOutput, MakesEncoder, AttachesEncoder, DiesOfBuilding, OutputRejected,
            OutputAccepted, Then, ThenGoto, Perishes, Opens, Builds, Iterates, Making, At
<1>1. /\ pc[Main] \in {"cfg_open", "cfg_output"} /\ left \in SUBSET Streams
      /\ opened \in SUBSET Streams /\ slots \in [Streams -> Slot] /\ loose \in SUBSET Contexts
      /\ attached \in SUBSET ((1..NewCtx) \X Streams) /\ created \in Nat
      /\ next \in {"open", "probe", "decoders", "output", "streams", "encoder"}
  BY DEF ConfigInv, ConfigTypeOK, ProgramTypeOK, TypeOK, WrapperTypeOK
<1>2. ProgramTypeOK'
  <2>1. todo' = todo /\ todo \in Seq({"SetConfig", "Process", "WriteEnd"})
    BY DEF programVars, ConfigInv, ConfigTypeOK, ProgramTypeOK
  <2> QED
    BY <2>1 DEF ProgramTypeOK
<1>3. created' \in {created, NewCtx}
  BY DEF programVars, vars, wrapperVars, CountOpened
<1>4. next' \in {"open", "probe", "decoders", "output", "streams", "encoder"}
  BY <1>1 DEF detailVars
<1>5. opened' \subseteq Streams /\ left' \subseteq Streams
  <2>1. left # {} => Lowest(left) \in Streams
    BY <1>1, LowestIs
  <2>2. Wanted(channel_list) \subseteq Streams
    BY SelectsAssumption DEF Wanted, ConfigInv, ConfigTypeOK, ProgramTypeOK, TypeOK
  <2>3. ASSUME AllocatesOutput PROVE Selects[Channel] \subseteq Streams
    <3>1. pc[Main] = "cfg_output" /\ pos[Main] <= Len(channel_list)
      BY <2>3
    <3>2. pos[Main] \in Nat \ {0} /\ channel_list \in Seq(Channels)
      BY <3>1, ConfiguringNow DEF ConfigInv, CallsInv
    <3>3. channel_list[pos[Main]] \in Channels
      BY <3>1, <3>2
    <3> QED
      BY <3>3, SelectsAssumption DEF Channel, ThisChannel
  <2> QED
    BY <1>1, <2>1, <2>2, <2>3 DEF detailVars
<1>6. slots' \in [Streams -> Slot]
  BY <1>1, BindingTypes DEF detailVars
<1>7. attached' \subseteq (1..NewCtx) \X Streams /\ loose' \subseteq Contexts
  <2>1. NewCtx \in 1..NewCtx /\ OpenedCtx \in 1..NewCtx
    <3>1. ifmt_ctx \in 0..created /\ NewCtx = created + 1
      BY DEF ConfigInv, ConfigTypeOK, ProgramTypeOK, TypeOK, WrapperTypeOK, NewCtx
    <3> QED
      BY <1>1, <3>1 DEF OpenedCtx, NoCtx
  <2>2. ASSUME Building, next = "encoder" PROVE This \in Streams
    BY <1>1, <2>2, LowestIs DEF ConfigInv, CallsInv, BuildInv, This
  <2>3. ASSUME Opens, left # {} PROVE Lowest(left) \in Streams
    BY <1>1, <2>3, LowestIs
  <2>4. /\ \A x \in 1..NewCtx, s \in Streams : Own(x, s) \in Contexts /\ New(x, s) \in Contexts
    BY DEF Own, New, Contexts
  <2>5. CASE FindsDecoder \/ InputRejected
    <3>1. attached' = attached
      BY <2>5 DEF detailVars
    <3>2. \/ loose' = loose
          \/ left # {} /\ Opens /\ loose' = loose \cup {Own(OpenedCtx, Lowest(left))}
          \/ left # {} /\ Opens /\ loose' = loose \cup {New(OpenedCtx, Lowest(left))}
      BY <2>5
    <3> QED
      BY <1>1, <2>1, <2>3, <2>4, <3>1, <3>2
  <2>6. CASE AttachesEncoder \/ OutputRejected
    <3>1. \/ Building /\ next = "encoder" /\ attached' = attached \cup {<<NewCtx, This>>}
             /\ loose' = loose \cup {Own(NewCtx, This)}
          \/ Building /\ next = "encoder" /\ attached' \subseteq attached
             /\ loose' = loose \cup {New(NewCtx, This)}
          \/ attached' \subseteq attached /\ loose' = loose
      BY <2>6 DEF Building
    <3> QED
      BY <1>1, <2>1, <2>2, <2>4, <3>1
  <2>7. CASE ~(FindsDecoder \/ InputRejected \/ AttachesEncoder \/ OutputRejected)
    BY <1>1, <2>7 DEF detailVars
  <2> QED
    BY <2>5, <2>6, <2>7
<1>8. 1..NewCtx \subseteq 1..NewCtx'
  <2>1. NewCtx = created + 1 /\ NewCtx' = created' + 1
    BY DEF NewCtx
  <2>2. CASE created' = created
    BY <2>1, <2>2
  <2>3. CASE created' = created + 1
    BY <1>1, <2>1, <2>3
  <2> QED
    BY <1>3, <2>1, <2>2, <2>3
<1>9. Contexts \subseteq Contexts'
  BY <1>8 DEF Contexts
<1> QED
  BY <1>2, <1>4, <1>5, <1>6, <1>7, <1>8, <1>9 DEF ConfigTypeOK

(* The calls of _ifmtInital, before which there is no output.               *)
LEMMA OpeningKeeps ==
  ASSUME ConfigInv, Opens,
         OpensInput \/ DiesOfOpening \/ Probes \/ FindsDecoder \/ InputRejected \/ InputAccepted
  PROVE  CallsInv' /\ EncodersInv'
<1> USE DEF Then, ThenGoto, Perishes, Opens, Making, Goto, detailVars, programVars, vars, wrapperVars,
            outputVars, inputVars, envVars, threadVars, ctlVars, Untouched
<1>1. /\ pc[Main] = "cfg_open" /\ todo = Todo2 /\ todo' = Todo2 /\ channel_list' = channel_list
      /\ outputs = {} /\ attached = {} /\ outputs' = {} /\ attached' = {}
      /\ Main \in Threads /\ pc \in [Threads -> Locs] /\ pos \in [Threads -> Nat]
      /\ channel_list \in Seq(Channels)
  BY ConfiguringNow DEF ConfigInv, CallsInv, OpensInput, DiesOfOpening, Probes, FindsDecoder,
     InputRejected, InputAccepted
<1>2. IsFiniteSet(outputs') /\ Cardinality(outputs') = 0
  BY <1>1, FS_EmptySet
<1>3. CASE OpensInput \/ Probes \/ FindsDecoder \/ DiesOfOpening
  <2>1. pc' = pc /\ ~Building' /\ ~Fresh'
    BY <1>1, <1>3, TodoFacts DEF OpensInput, Probes, FindsDecoder, DiesOfOpening, Building, Fresh
  <2>2. next' \in {"open", "probe", "decoders"}
    BY <1>1, <1>3 DEF OpensInput, Probes, FindsDecoder, DiesOfOpening
  <2>3. next' = "decoders" => left' \cup opened' = Wanted(channel_list)
    <3>1. CASE OpensInput \/ Probes \/ DiesOfOpening
      BY <1>1, <3>1 DEF OpensInput, Probes, DiesOfOpening
    <3>2. CASE FindsDecoder
      <4>1. left \cup opened = Wanted(channel_list) /\ Lowest(left) \in left
        BY <1>1, <3>2, ConfiguringNow, LowestIs DEF FindsDecoder, ConfigInv, CallsInv
      <4>2. (left \ {Lowest(left)}) \cup (opened \cup {Lowest(left)}) = left \cup opened
        BY <4>1
      <4> QED
        BY <3>2, <4>1, <4>2 DEF FindsDecoder
    <3> QED
      BY <1>3, <3>1, <3>2
  <2>4. CallsInv'
    BY <1>1, <2>1, <2>2, <2>3 DEF CallsInv
  <2> QED
    BY <1>1, <1>2, <2>1, <2>4 DEF EncodersInv
<1>4. CASE InputRejected
  <2>1. pc'[Main] = "cfg_reject" /\ ~Building' /\ ~Fresh'
    BY <1>1, <1>4, TodoFacts DEF InputRejected, Building, Fresh
  <2>2. CallsInv'
    BY <2>1 DEF CallsInv
  <2> QED
    BY <1>1, <1>2, <2>1, <2>2 DEF EncodersInv
<1>5. CASE InputAccepted
  <2>1. /\ pc'[Main] = "cfg_output" /\ next' = "output" /\ pos'[Main] = 1
        /\ ~Building' /\ ~Fresh'
    BY <1>1, <1>5, TodoFacts DEF InputAccepted, Building, Fresh
  <2>2. CallsInv'
    BY <1>2, <2>1 DEF CallsInv
  <2> QED
    BY <1>1, <1>2, <2>1, <2>2 DEF EncodersInv
<1> QED
  BY <1>3, <1>4, <1>5

(* The calls of _ofmtInital.                                                *)
LEMMA BuildingNow ==
  ASSUME ConfigInv, Iterates(Main)
  PROVE  /\ pc[Main] = "cfg_output" /\ fault = "none" /\ todo = Todo2 /\ IsFiniteSet(outputs)
         /\ next \in {"output", "streams", "encoder"} /\ created \in Nat /\ NewCtx \notin outputs
         /\ pos[Main] \in DOMAIN channel_list /\ pos[Main] \in Nat \ {0}
         /\ pos[Main] <= Len(channel_list) /\ Cardinality(outputs) = pos[Main] - 1
         /\ Channel \in Channels /\ Selects[Channel] \in SUBSET Streams
<1>1. pc[Main] = "cfg_output" /\ fault = "none" /\ pos[Main] <= Len(channel_list)
  BY DEF Iterates, At
<1>2. /\ pos[Main] \in Nat \ {0} /\ channel_list \in Seq(Channels) /\ todo = Todo2
      /\ IsFiniteSet(outputs) /\ next \in {"output", "streams", "encoder"}
      /\ Cardinality(outputs) = pos[Main] - 1
  BY <1>1, ConfiguringNow DEF ConfigInv, CallsInv, EncodersInv
<1>3. created \in Nat /\ NewCtx \notin outputs
  <2>1. created \in Nat /\ outputs \in SUBSET (1..created)
    BY DEF ConfigInv, ConfigTypeOK, ProgramTypeOK, TypeOK, WrapperTypeOK
  <2>2. created + 1 \notin 1..created
    BY <2>1
  <2> QED
    BY <2>1, <2>2 DEF NewCtx
<1>4. pos[Main] \in DOMAIN channel_list /\ Channel \in Channels
  BY <1>1, <1>2 DEF Channel, ThisChannel
<1> QED
  BY <1>1, <1>2, <1>3, <1>4, SelectsAssumption

(* A call that is not the last of _ofmtInital: what has been made is still  *)
(* in the making.                                                           *)
LEMMA MakingKeeps ==
  ASSUME ConfigInv, Iterates(Main), UNCHANGED programVars,
         next' \in {"streams", "encoder"}, BuildInv',
         \A o \in outputs : EncodersOf(o)' = EncodersOf(o),
         \A e \in attached' : e \in attached \/ e[1] = NewCtx,
         EncodersOf(NewCtx)' = Visited'
  PROVE  CallsInv' /\ EncodersInv'
<1> USE DEF programVars, vars, wrapperVars, outputVars, inputVars, envVars, threadVars, ctlVars
<1>1. /\ pc'[Main] = "cfg_output" /\ todo' = Todo2 /\ pos' = pos /\ NewCtx' = NewCtx
      /\ outputs' = outputs /\ channel_list' = channel_list
  BY BuildingNow DEF NewCtx
<1>2. Building' /\ ~Fresh'
  BY <1>1, TodoFacts DEF Building, Fresh
<1>3. CallsInv'
  BY <1>1, <1>2, BuildingNow DEF CallsInv
<1>4. EncodersInv'
  <2>1. \A o \in outputs' : \E n \in DOMAIN channel_list' : EncodersOf(o)' = Selects[channel_list'[n]]
    BY <1>1 DEF ConfigInv, EncodersInv
  <2>2. \A e \in attached' : e[1] \in outputs' \/ (Building' /\ e[1] = NewCtx')
    BY <1>1, <1>2 DEF ConfigInv, EncodersInv
  <2> QED
    BY <1>1, <1>2, <2>1, <2>2, BuildingNow DEF EncodersInv, EncodersOf
<1> QED
  BY <1>3, <1>4
LEMMA AllocatesKeeps ==
  ASSUME ConfigInv, AllocatesOutput
  PROVE  CallsInv' /\ EncodersInv'
<1> USE DEF Then, Making
<1>1. /\ Iterates(Main) /\ UNCHANGED programVars /\ next' = "streams" /\ next = "output"
      /\ left' = Selects[Channel] /\ slots' = pidObject /\ attached' = attached
  BY DEF AllocatesOutput, Builds
<1>2. Channel' = Channel /\ NewCtx' = NewCtx /\ pidObject' = pidObject /\ pos'[Main] <= Len(channel_list')
  BY <1>1, BuildingNow
     DEF Channel, ThisChannel, NewCtx, programVars, vars, wrapperVars, outputVars, envVars, threadVars
<1>3. Visited' = {} /\ Bound' = {}
  BY <1>1, <1>2 DEF Visited, Bound
<1>4. BuildInv'
  <2>1. pidObject = [s \in Streams |-> pidObject[s]]
    BY BindingTypes
  <2>2. slots' = BoundTo(Bound)'
    BY <1>1, <1>2, <1>3, <2>1 DEF BoundTo
  <2> QED
    BY <1>1, <1>2, <1>3, <2>2 DEF BuildInv, InOrder
<1>5. EncodersOf(NewCtx) = {}
  <2>1. \A e \in attached : e[1] \in outputs
    BY <1>1 DEF ConfigInv, EncodersInv, Building
  <2>2. NewCtx \notin outputs
    BY <1>1, BuildingNow
  <2> QED
    BY <2>1, <2>2 DEF EncodersOf
<1> QED
  BY <1>1, <1>2, <1>3, <1>4, <1>5, MakingKeeps DEF EncodersOf

LEMMA MakesKeeps ==
  ASSUME ConfigInv, MakesEncoder
  PROVE  CallsInv' /\ EncodersInv'
<1> USE DEF Then, Making
<1>1. /\ Iterates(Main) /\ UNCHANGED programVars /\ next' = "encoder" /\ next = "streams"
      /\ left' = left /\ left # {} /\ Kind[This] # "other" /\ attached' = attached
      /\ slots' = IF slots[This].is = "absent"
                    THEN [slots EXCEPT ![This] = Object(ifmt_ctx, NewCtx)] ELSE slots
  BY DEF MakesEncoder, Builds
<1>2. /\ Channel' = Channel /\ NewCtx' = NewCtx /\ pidObject' = pidObject /\ ifmt_ctx' = ifmt_ctx
      /\ pos'[Main] <= Len(channel_list') /\ This' = This
  BY <1>1, BuildingNow
     DEF Channel, ThisChannel, This, NewCtx, programVars, vars, wrapperVars, outputVars, inputVars, envVars,
         threadVars
<1>3. Building /\ BuildInv
  BY <1>1, BuildingNow DEF Building, ConfigInv, CallsInv
<1>4. Visited' = Visited /\ Bound = Visited /\ Bound' = Visited \cup {This}
  BY <1>1, <1>2 DEF Visited, Bound
<1>5. This \in left /\ This \in Streams /\ This \notin Visited
  BY <1>1, <1>3, StoppedHere DEF Visited
<1>6. BuildInv'
  <2>1. slots = BoundTo(Visited)
    BY <1>3, <1>4 DEF BuildInv
  <2>2. slots' = [s \in Streams |-> IF s \in Visited \cup {This} /\ pidObject[s].is = "absent"
                                      THEN Object(ifmt_ctx, NewCtx) ELSE pidObject[s]]
    BY <1>1, <1>5, <2>1 DEF BoundTo
  <2>3. slots' = BoundTo(Bound)'
    BY <1>2, <1>4, <2>2 DEF BoundTo
  <2>4. InOrder'
    BY <1>1, <1>3, <1>4 DEF BuildInv, InOrder
  <2>5. Bound' \cap Foreign(Channel)' = {}
    BY <1>1, <1>2, <1>3, <1>4 DEF BuildInv, Foreign
  <2> QED
    BY <1>1, <1>2, <1>3, <2>3, <2>4, <2>5 DEF BuildInv
<1>7. EncodersOf(NewCtx) = Visited
  BY <1>3 DEF ConfigInv, EncodersInv
<1> QED
  BY <1>1, <1>2, <1>4, <1>6, <1>7, MakingKeeps DEF EncodersOf

LEMMA AttachesKeeps ==
  ASSUME ConfigInv, AttachesEncoder
  PROVE  CallsInv' /\ EncodersInv'
<1> USE DEF Then, Making
<1>1. /\ Iterates(Main) /\ UNCHANGED programVars /\ next' = "streams" /\ next = "encoder"
      /\ left' = left \ {This} /\ attached' = attached \cup {<<NewCtx, This>>} /\ slots' = slots
  BY DEF AttachesEncoder, Builds
<1>2. /\ Channel' = Channel /\ NewCtx' = NewCtx /\ pidObject' = pidObject /\ ifmt_ctx' = ifmt_ctx
      /\ pos'[Main] <= Len(channel_list')
  BY <1>1, BuildingNow
     DEF Channel, ThisChannel, NewCtx, programVars, vars, wrapperVars, outputVars, inputVars, envVars,
     threadVars
<1>3. Building /\ BuildInv
  BY <1>1, BuildingNow DEF Building, ConfigInv, CallsInv
<1>4. /\ This \in left /\ This \in Streams /\ This \in Nat /\ \A r \in left : This <= r
      /\ \A r \in left : r \in Nat
  BY <1>1, <1>3, StoppedHere, BuildingNow, StreamsAssumption DEF BuildInv
<1>5. Visited' = Visited \cup {This} /\ Bound = Visited \cup {This} /\ Bound' = Bound
  BY <1>1, <1>2, <1>3, <1>4 DEF Visited, Bound, BuildInv
<1>6. BuildInv'
  <2>1. InOrder'
    <3>1. \A s \in Visited, r \in left : s < r
      BY <1>3 DEF BuildInv, InOrder
    <3>2. \A r \in left' : r \in left /\ This < r
      BY <1>1, <1>4
    <3>3. \A s \in Visited' : \A r \in left' : s < r
      BY <1>5, <3>1, <3>2
    <3>4. \A r \in Visited' : r <= This
      <4>1. \A r \in Visited : r < This
        BY <1>4, <3>1
      <4>2. \A r \in Visited : r \in Nat
        BY <1>1, BuildingNow, StreamsAssumption DEF Visited
      <4> QED
        BY <1>4, <1>5, <4>1, <4>2
    <3> QED
      BY <1>5, <3>3, <3>4 DEF InOrder
  <2>2. slots' = BoundTo(Bound)'
    BY <1>1, <1>2, <1>3, <1>5 DEF BuildInv, BoundTo
  <2>3. Bound' \cap Foreign(Channel)' = {}
    BY <1>2, <1>3, <1>5 DEF BuildInv, Foreign
  <2> QED
    BY <1>1, <1>2, <1>3, <2>1, <2>2, <2>3 DEF BuildInv
<1>7. EncodersOf(NewCtx)' = Visited'
  <2>1. EncodersOf(NewCtx) = Visited
    BY <1>3 DEF ConfigInv, EncodersInv
  <2>2. EncodersOf(NewCtx)' = EncodersOf(NewCtx) \cup {This}
    BY <1>1, <1>2, <1>4 DEF EncodersOf
  <2> QED
    BY <1>5, <2>1, <2>2
<1>8. \A o \in outputs : EncodersOf(o)' = EncodersOf(o)
  <2>1. NewCtx \notin outputs
    BY <1>1, BuildingNow
  <2> QED
    BY <1>1, <2>1 DEF EncodersOf
<1> QED
  BY <1>1, <1>2, <1>6, <1>7, <1>8, MakingKeeps

(* The last call of _ofmtInital, or one that the process dies in.           *)
LEMMA BuildingEnds ==
  ASSUME ConfigInv, DiesOfBuilding \/ OutputRejected \/ OutputAccepted
  PROVE  CallsInv' /\ EncodersInv'
<1> USE DEF ThenGoto, Making, Goto, Builds, envVars
<1>1. /\ Iterates(Main) /\ todo' = Todo2 /\ channel_list' = channel_list
      /\ Main \in Threads /\ pc \in [Threads -> Locs] /\ pos \in [Threads -> Nat]
      /\ created \in Nat /\ NewCtx \in Nat /\ pc[Main] = "cfg_output" /\ NewCtx \notin outputs
  <2>1. Iterates(Main)
    BY DEF DiesOfBuilding, OutputRejected, OutputAccepted
  <2>2. todo' = todo /\ channel_list' = channel_list
    BY DEF DiesOfBuilding, Perishes, OutputRejected, OutputAccepted
  <2> QED
    BY <2>1, <2>2, BuildingNow, ConfiguringNow DEF NewCtx
<1>2. CASE DiesOfBuilding
  <2>1. UNCHANGED <<pc, pos, pidObject, ifmt_ctx, created, outputs, channel_list, detailVars>>
    BY <1>2 DEF DiesOfBuilding, Perishes, threadVars, outputVars
  <2>2. /\ Building' = Building /\ Channel' = Channel /\ NewCtx' = NewCtx /\ This' = This /\ ~Fresh'
        /\ pos' = pos /\ pc'[Main] = "cfg_output"
    BY <1>1, <2>1, TodoFacts DEF Building, Channel, ThisChannel, NewCtx, This, Fresh, detailVars
  <2>3. Visited' = Visited /\ Bound' = Bound
    BY <2>1, <2>2 DEF Visited, Bound, detailVars
  <2>4. Building => BuildInv'
    BY <1>1, <2>1, <2>2, <2>3 DEF ConfigInv, CallsInv, BuildInv, InOrder, BoundTo, Foreign, detailVars
  <2>5. CallsInv'
    BY <1>1, <2>1, <2>2, <2>4, BuildingNow DEF CallsInv, detailVars
  <2>6. EncodersInv'
    BY <1>1, <2>1, <2>2, <2>3 DEF ConfigInv, EncodersInv, EncodersOf, detailVars
  <2> QED
    BY <2>5, <2>6
<1>3. CASE OutputRejected
  <2>1. /\ Building /\ pc'[Main] = "cfg_reject" /\ outputs' = outputs
        /\ attached' = attached \ ({NewCtx} \X Streams) /\ ~Building' /\ ~Fresh'
    BY <1>1, <1>3, BuildingNow, TodoFacts DEF OutputRejected, Building, Fresh
  <2>2. CallsInv'
    BY <2>1 DEF CallsInv
  <2>3. \A e \in attached' : e[1] \in outputs
    <3>1. \A e \in attached : e \in (1..NewCtx) \X Streams /\ (e[1] \in outputs \/ e[1] = NewCtx)
      BY DEF ConfigInv, EncodersInv, ConfigTypeOK
    <3> QED
      BY <2>1, <3>1
  <2>4. \A o \in outputs : EncodersOf(o)' = EncodersOf(o)
    BY <1>1, <2>1 DEF EncodersOf
  <2>5. \A o \in outputs' : \E n \in DOMAIN channel_list' : EncodersOf(o)' = Selects[channel_list'[n]]
    BY <1>1, <2>1, <2>4 DEF ConfigInv, EncodersInv
  <2>6. EncodersInv'
    BY <1>1, <2>1, <2>3, <2>5, BuildingNow DEF EncodersInv, EncodersOf
  <2> QED
    BY <2>2, <2>6
<1>4. CASE OutputAccepted
  <2>1. /\ Building /\ left = {} /\ pc' = pc /\ next' = "output" /\ outputs' = outputs \cup {NewCtx}
        /\ attached' = attached /\ pos'[Main] = pos[Main] + 1 /\ ~Building' /\ ~Fresh'
    BY <1>1, <1>4, BuildingNow, TodoFacts DEF OutputAccepted, Building, Fresh
  <2>2. IsFiniteSet(outputs') /\ Cardinality(outputs') = pos'[Main] - 1
    <3>1. IsFiniteSet(outputs') /\ Cardinality(outputs') = Cardinality(outputs) + 1
      BY <1>1, <2>1, BuildingNow, FS_AddElement
    <3> QED
      BY <1>1, <2>1, <3>1, BuildingNow
  <2>3. CallsInv'
    BY <1>1, <2>1, <2>2, BuildingNow DEF CallsInv
  <2>4. \A e \in attached' : e[1] \in outputs'
    BY <2>1 DEF ConfigInv, EncodersInv
  <2>5. \A o \in outputs' : \E n \in DOMAIN channel_list' : EncodersOf(o)' = Selects[channel_list'[n]]
    <3>1. EncodersOf(NewCtx) = Selects[channel_list[pos[Main]]]
      BY <2>1 DEF ConfigInv, EncodersInv, Visited, Channel, ThisChannel
    <3> QED
      BY <1>1, <2>1, <3>1, BuildingNow DEF ConfigInv, EncodersInv, EncodersOf
  <2>6. EncodersInv'
    BY <2>1, <2>2, <2>4, <2>5 DEF EncodersInv, EncodersOf
  <2> QED
    BY <2>3, <2>6
<1> QED
  BY <1>2, <1>3, <1>4
-----------------------------------------------------------------------------
(* The codec contexts that are lost.                                        *)
LEMMA OwnsAre ==
  ASSUME NEW X, NEW D \in SUBSET (X \X Streams), NEW x, NEW s
  PROVE  Own(x, s) \in Owns(D) <=> <<x, s>> \in D
<1>1. ASSUME NEW d \in D, Own(x, s) = Own(d[1], d[2])
      PROVE  <<x, s>> \in D
  <2>1. d = <<d[1], d[2]>>
    OBVIOUS
  <2>2. <<x, s>> = <<d[1], d[2]>>
    BY <1>1 DEF Own
  <2> QED
    BY <2>1, <2>2
<1>2. ASSUME <<x, s>> \in D
      PROVE  Own(x, s) \in Owns(D)
  BY <1>2 DEF Owns
<1> QED
  BY <1>1, <1>2 DEF Owns

LEMMA OwnsGrow ==
  ASSUME NEW D, NEW x, NEW s
  PROVE  Owns(D \cup {<<x, s>>}) = Owns(D) \cup {Own(x, s)}
<1>1. <<x, s>>[1] = x /\ <<x, s>>[2] = s
  OBVIOUS
<1>2. {Own(d[1], d[2]) : d \in D \cup {<<x, s>>}}
        = {Own(d[1], d[2]) : d \in D} \cup {Own(<<x, s>>[1], <<x, s>>[2])}
  BY Zenon
<1> QED
  BY <1>1, <1>2 DEF Owns

LEMMA OwnsOnly == ASSUME NEW D, NEW d \in Owns(D) PROVE d.is = "own"
BY DEF Owns, Own

LEMMA NewsAre ==
  ASSUME NEW x, NEW s
  PROVE  /\ New(x, s).is = "new" /\ New(x, s).of[1] = x
         /\ \A y, r : Own(y, r) # New(x, s)
BY DEF New, Own

(* What has a decoder or an encoder.                                        *)
LEMMA CodedAre ==
  ASSUME ConfigInv
  PROVE  /\ created \in Nat /\ ifmt_ctx \in 0..created /\ NewCtx = created + 1
         /\ inputs \subseteq 1..created /\ outputs \subseteq 1..created
         /\ NewCtx \notin inputs \cup outputs
         /\ decoders \in SUBSET ((1..created) \X Streams)
         /\ attached \in SUBSET ((1..NewCtx) \X Streams)
         /\ Coded \in SUBSET ((1..NewCtx) \X Streams)
<1>1. /\ created \in Nat /\ ifmt_ctx \in 0..created /\ NewCtx = created + 1
      /\ inputs \subseteq 1..created /\ outputs \subseteq 1..created
      /\ decoders \in SUBSET ((1..created) \X Streams)
      /\ attached \in SUBSET ((1..NewCtx) \X Streams)
  BY DEF ConfigInv, ConfigTypeOK, ProgramTypeOK, TypeOK, WrapperTypeOK, NewCtx
<1>2. NewCtx \notin 1..created /\ 1..created \subseteq 1..NewCtx
  BY <1>1
<1> QED
  BY <1>1, <1>2 DEF Coded

(* In a configuration that goes on, only contexts of their own are lost.    *)
LEMMA OnlyOwns ==
  ASSUME NEW X, NEW D \in SUBSET (X \X Streams), loose' = Owns(D), Coded' = D
  PROVE  /\ \A x \in (inputs \cup outputs)', s \in Streams : Own(x, s) \in loose' <=> <<x, s>> \in Coded'
         /\ \A d \in loose' : d.is # "new"
<1>1. \A d \in loose' : d.is # "new"
  BY OwnsOnly
<1> QED
  BY <1>1, OwnsAre

LEMMA OpeningLoosens ==
  ASSUME ConfigInv, Opens,
         OpensInput \/ DiesOfOpening \/ Probes \/ FindsDecoder \/ InputRejected \/ InputAccepted
  PROVE  LooseInv'
<1> USE DEF Then, ThenGoto, Perishes, Opens, Making, Goto, detailVars, programVars, vars, wrapperVars,
            outputVars, inputVars, envVars, threadVars, ctlVars, Untouched
<1>1. /\ pc[Main] = "cfg_open" /\ todo = Todo2 /\ todo' = Todo2 /\ channel_list' = channel_list
      /\ outputs = {} /\ attached = {} /\ outputs' = {} /\ attached' = {}
      /\ ifmt_ctx = NoCtx /\ inputs = {} /\ decoders = {} /\ OpenedCtx = NewCtx
      /\ loose = IF next = "decoders" THEN Owns({NewCtx} \X opened) ELSE {}
      /\ Main \in Threads /\ pc \in [Threads -> Locs] /\ channel_list \in Seq(Channels)
      /\ opened \in SUBSET Streams /\ left \in SUBSET Streams
  BY ConfiguringNow DEF ConfigInv, CallsInv, LooseInv, OpenedCtx, OpensInput, DiesOfOpening, Probes,
     FindsDecoder,
     InputRejected, InputAccepted
<1>2. CASE OpensInput \/ Probes \/ FindsDecoder \/ DiesOfOpening
  <2>1. /\ pc' = pc /\ ~Fresh' /\ ifmt_ctx' = NoCtx /\ inputs' = {} /\ decoders' = {}
        /\ OpenedCtx' = NewCtx
    BY <1>1, <1>2, TodoFacts DEF OpensInput, Probes, FindsDecoder, DiesOfOpening, Fresh, OpenedCtx, NewCtx
  <2>2. loose' = IF next' = "decoders" THEN Owns({NewCtx} \X opened') ELSE {}
    <3>1. CASE OpensInput \/ DiesOfOpening
      BY <1>1, <3>1 DEF OpensInput, DiesOfOpening
    <3>2. CASE Probes
      BY <1>1, <3>2 DEF Probes, Owns
    <3>3. CASE FindsDecoder
      <4>1. {NewCtx} \X opened' = ({NewCtx} \X opened) \cup {<<NewCtx, Lowest(left)>>}
        BY <3>3 DEF FindsDecoder
      <4> QED
        BY <1>1, <3>3, <4>1, OwnsGrow DEF FindsDecoder
    <3> QED
      BY <1>2, <3>1, <3>2, <3>3
  <2>3. \A d \in loose' : d.is # "new"
    BY <2>2, OwnsOnly
  <2> QED
    BY <1>1, <2>1, <2>2, <2>3 DEF LooseInv
<1>3. CASE InputRejected
  <2>1. pc'[Main] = "cfg_reject" /\ ~Fresh' /\ inputs' = {}
    BY <1>1, <1>3, TodoFacts DEF InputRejected, Fresh
  <2>2. \A d \in loose : d.is # "new"
    BY <1>1, OwnsOnly
  <2>3. CASE loose' = loose
    BY <1>1, <2>1, <2>2, <2>3 DEF LooseInv
  <2>4. CASE loose' # loose
    <3>1. next = "decoders" /\ left # {} /\ loose' = loose \cup {New(NewCtx, Lowest(left))}
      BY <1>1, <1>3, <2>4 DEF InputRejected
    <3>2. Len(channel_list) \in Nat /\ 0 < Len(channel_list)
      <4>1. Wanted(channel_list) # {}
        BY <1>1, <3>1 DEF ConfigInv, CallsInv
      <4>2. DOMAIN channel_list # {}
        BY <4>1 DEF Wanted
      <4> QED
        BY <1>1, <4>2
    <3>3. Cardinality(outputs') < Len(channel_list')
      BY <1>1, <3>2, FS_EmptySet
    <3>4. \A d \in loose' : d.is = "new" => d = New(NewCtx, Lowest(left))
      BY <2>2, <3>1
    <3> QED
      BY <1>1, <2>1, <3>3, <3>4 DEF LooseInv
  <2> QED
    BY <2>3, <2>4
<1>4. CASE InputAccepted
  <2>1. /\ pc'[Main] = "cfg_output" /\ ~Fresh' /\ loose' = Owns({NewCtx} \X opened)
        /\ decoders' = {NewCtx} \X opened
    BY <1>1, <1>4, TodoFacts DEF InputAccepted, Fresh
  <2>2. Coded' = {NewCtx} \X opened
    BY <1>1, <2>1 DEF Coded
  <2>3. {NewCtx} \X opened \in SUBSET ({NewCtx} \X Streams)
    BY <1>1
  <2> QED
    BY <2>1, <2>2, <2>3, OnlyOwns DEF LooseInv
<1> QED
  BY <1>2, <1>3, <1>4

LEMMA BuildingLoosens ==
  ASSUME ConfigInv,
         \/ AllocatesOutput \/ MakesEncoder \/ AttachesEncoder
         \/ DiesOfBuilding \/ OutputRejected \/ OutputAccepted
  PROVE  LooseInv'
<1>1. Iterates(Main) /\ UNCHANGED <<inputVars, channel_list, todo>>
  BY DEF AllocatesOutput, MakesEncoder, AttachesEncoder, DiesOfBuilding, OutputRejected,
     OutputAccepted, Builds,
     Then, ThenGoto, Perishes, inputVars, programVars, vars, wrapperVars, envVars
<1>2. /\ pc[Main] = "cfg_output" /\ ~Fresh /\ todo = Todo2 /\ loose = Owns(Coded)
      /\ Main \in Threads /\ pc \in [Threads -> Locs]
  BY <1>1, BuildingNow, ConfiguringNow, TodoFacts DEF ConfigInv, LooseInv, Fresh
<1>3. CASE OutputRejected
  <2>1. /\ pc'[Main] = "cfg_reject" /\ outputs' = outputs
        /\ attached' = attached \ ({NewCtx} \X Streams)
        /\ loose' = loose \/ loose' = loose \cup {New(NewCtx, This)}
    BY <1>2, <1>3 DEF OutputRejected, ThenGoto, Goto
  <2>2. ~Fresh'
    BY <1>1, <1>2, <2>1, TodoFacts DEF Fresh
  <2>3. Cardinality(outputs') < Len(channel_list')
    <3>1. Len(channel_list) \in Nat
      BY <1>2, ConfiguringNow
    <3> QED
      BY <1>1, <2>1, <3>1, BuildingNow
  <2>4. ASSUME NEW x \in inputs \cup outputs, NEW s \in Streams
        PROVE  Own(x, s) \in loose' <=> <<x, s>> \in Coded'
    <3>1. Own(x, s) \in loose <=> <<x, s>> \in Coded
      BY DEF ConfigInv, LooseInv
    <3>2. Own(x, s) \in loose' <=> Own(x, s) \in loose
      BY <2>1, NewsAre
    <3>3. <<x, s>> \in Coded' <=> <<x, s>> \in Coded
      BY <1>1, <2>1, CodedAre DEF Coded, inputVars
    <3> QED
      BY <3>1, <3>2, <3>3
  <2>5. \A d \in loose' : d.is = "new" => d = New(NewCtx, This)
    BY <1>2, <2>1, OwnsOnly
  <2>6. NewCtx \notin inputs' \cup outputs' /\ New(NewCtx, This).of[1] = NewCtx
    BY <1>1, <2>1, CodedAre, NewsAre DEF inputVars
  <2>7. inputs' = inputs
    BY <1>1 DEF inputVars
  <2> QED
    BY <2>1, <2>2, <2>3, <2>4, <2>5, <2>6, <2>7 DEF LooseInv
<1>4. CASE ~OutputRejected
  <2>1. pc'[Main] = "cfg_output"
    BY <1>2, <1>4 DEF AllocatesOutput, MakesEncoder, AttachesEncoder, DiesOfBuilding, OutputAccepted,
       Then, ThenGoto, Goto, Perishes, programVars, vars, threadVars
  <2>2. ~Fresh'
    BY <1>1, <1>2, <2>1, TodoFacts DEF Fresh
  <2>3. loose' = Owns(Coded') /\ Coded' \in SUBSET ((1..NewCtx) \X Streams)
    <3>1. CASE AttachesEncoder
      <4>1. Coded' = Coded \cup {<<NewCtx, This>>} /\ loose' = loose \cup {Own(NewCtx, This)}
        BY <1>1, <3>1 DEF AttachesEncoder, Coded, inputVars
      <4>2. This \in Streams /\ NewCtx \in 1..NewCtx
        <5>1. Building /\ BuildInv /\ next = "encoder"
          BY <1>2, <3>1 DEF AttachesEncoder, Making, Building, ConfigInv, CallsInv
        <5>2. This \in Streams
          BY <1>1, <5>1, StoppedHere DEF BuildInv
        <5> QED
          BY <5>2, CodedAre
      <4>3. <<NewCtx, This>> \in (1..NewCtx) \X Streams
        BY <4>2
      <4>4. loose' = Owns(Coded \cup {<<NewCtx, This>>})
        BY <1>2, <4>1, OwnsGrow
      <4> QED
        BY <4>1, <4>3, <4>4, CodedAre
    <3>2. CASE ~AttachesEncoder
      <4>1. loose' = loose /\ Coded' = Coded
        BY <1>1, <1>4, <3>2 DEF AllocatesOutput, MakesEncoder, DiesOfBuilding, OutputAccepted,
           Perishes, Coded,
           inputVars, detailVars
      <4> QED
        BY <1>2, <4>1, CodedAre
    <3> QED
      BY <3>1, <3>2
  <2>4. /\ \A x \in (inputs \cup outputs)', s \in Streams : Own(x, s) \in loose' <=> <<x, s>> \in Coded'
        /\ \A d \in loose' : d.is # "new"
    BY <2>3, OnlyOwns
  <2> QED
    BY <2>1, <2>2, <2>3, <2>4 DEF LooseInv
<1> QED
  BY <1>3, <1>4

(* The rest of the program neither makes outputs nor gets back to a call of *)
(* SetConfig but through its start.                                         *)
LEMMA ElsewhereKeeps ==
  ASSUME ConfigInv, Elsewhere
  PROVE  CallsInv' /\ EncodersInv' /\ LooseInv' /\ created' = created
<1>1. /\ Main \in Threads /\ pc \in [Threads -> Locs] /\ method \in [Threads -> Methods \cup {"none"}]
      /\ Stage /\ TypeOK /\ UNCHANGED detailVars
  BY MainAssumption DEF ConfigInv, ConfigTypeOK, ProgramTypeOK, TypeOK, ProgramInv, Elsewhere
<1>2. /\ UNCHANGED <<inputVars, outputs, channel_list, created>> /\ pc'[Main] # "cfg_output" /\ ~Building
      /\ pc'[Main] = "cfg_open" => Fresh
      /\ Fresh' => Fresh
  <2> USE TodoFacts DEF wrapperVars, outputVars, inputVars, envVars, ctlVars, threadVars, Opens
  <2>1. CASE MainCalls
    <3>1. /\ pc[Main] = "idle" /\ pc'[Main] = Entry(Head(todo)) /\ todo # <<>> /\ todo' = Tail(todo)
          /\ UNCHANGED <<inputVars, outputs, channel_list, created>>
      BY <1>1, <2>1 DEF MainCalls, Call, At, Goto
    <3>2. /\ Entry("SetConfig") = "cfg_announce" /\ Entry("Process") = "prc_getifmt"
          /\ Entry("WriteEnd") = "end_write"
      BY DEF Entry, Configs
    <3> QED
      BY <1>1, <3>1, <3>2 DEF Stage, Where, Fresh, Building, Todo0
  <2>2. CASE CfgAnnounce(Main)
    BY <1>1, <2>2 DEF CfgAnnounce, Move, At, Goto, Stage, Where, Fresh, Building, Elsewhere, MainCalls, Call
  <2>3. CASE AcquireProcessLock(Main)
    <3>1. /\ pc[Main] = "lock" /\ pc'[Main] = Locked(method[Main])
          /\ UNCHANGED <<inputVars, outputs, channel_list, created>>
      BY <1>1, <2>3 DEF AcquireProcessLock, Move, At, Goto
    <3>2. Locked("SetConfig") = "cfg_open" /\ Locked("Process") = "prc_init"
      BY DEF Locked
    <3>3. todo' = todo
      BY <3>1 DEF Elsewhere, MainCalls, Call, At
    <3> QED
      BY <1>1, <3>1, <3>2, <3>3 DEF Stage, Where, Fresh, Building
  <2>4. CASE CfgOutputsDone(Main)
    <3>1. /\ pc[Main] = "cfg_output" /\ pc'[Main] = "cfg_accept" /\ pos[Main] > Len(channel_list)
          /\ UNCHANGED <<inputVars, outputs, channel_list, created>>
      BY <1>1, <2>4 DEF CfgOutputsDone, Move, At, Goto
    <3>2. todo' = todo /\ todo = Todo2
      BY <1>1, <3>1 DEF Elsewhere, MainCalls, Call, At, Stage, Where
    <3>3. ~Building
      <4>1. Building => pos[Main] <= Len(channel_list)
        BY DEF ConfigInv, CallsInv, BuildInv
      <4>2. pos[Main] \in Nat /\ Len(channel_list) \in Nat
        BY <3>1, ConfiguringNow
      <4> QED
        BY <3>1, <4>1, <4>2
    <3> QED
      BY <3>1, <3>2, <3>3 DEF Fresh
  <2>5. CASE CfgAccept(Main) \/ CfgReject(Main) \/ CfgRejected(Main)
    <3>1. /\ pc[Main] \in {"cfg_accept", "cfg_reject", "cfg_rejected"} /\ pc'[Main] \in {"cfg_rejected", "idle"}
          /\ UNCHANGED <<inputVars, outputs, channel_list, created>>
      BY <1>1, <2>5 DEF CfgAccept, CfgReject, CfgRejected, Move, Leave, Return, At, Goto
    <3> QED
      BY <1>1, <3>1 DEF Elsewhere, MainCalls, Call, At, Stage, Where, Fresh, Building
  <2>6. CASE ProcessStep(Main)
    <3>1. /\ pc[Main] \in ProcessLocs /\ pc'[Main] \in ProcessLocs \cup {"lock", "idle"}
          /\ UNCHANGED <<inputVars, outputs, channel_list, created>>
      BY <1>1, <2>6 DEF ProcessStep, PrcGetIfmt, PrcAnnounce, PrcInitTools, PrcInitFaults, PrcLoop,
         PrcReadEnds, PrcReadPacket, PrcReadFaults, PrcDrain, PrcDrainFaults, PrcFinish, Move, Leave,
         Return, Crash, At, Goto, ProcessLocs
    <3>2. todo' = todo /\ todo = Todo1
      BY <1>1, <3>1 DEF Elsewhere, MainCalls, Call, At, Stage, Where, ProcessLocs
    <3> QED
      BY <3>1, <3>2 DEF Fresh, Building, ProcessLocs
  <2>7. CASE StopStep(Main) \/ CleanStep(Main) \/ WalkStep(Main)
    <3>1. /\ pc[Main] = "end_write" /\ pc'[Main] \in {"idle", "end_write"}
          /\ UNCHANGED <<inputVars, outputs, channel_list, created>>
      <4>1. pc[Main] \in {"stp_check", "stp_arm", "cln_reset", "cln_wipe", "end_write", "out_amount"}
        BY <2>7 DEF StopStep, StpRefused, StpAccepted, StpArm, CleanStep, ClnReset, ClnWipe,
           WalkStep, EndWrite, EndWriteFaults, OutputAmount, OutputAmountFaults, Move, Leave, Crash, At
      <4>2. pc[Main] = "end_write"
        BY <1>1, <4>1 DEF Stage, Where
      <4>3. EndWrite(Main) \/ EndWriteFaults(Main)
        BY <2>7, <4>2 DEF StopStep, StpRefused, StpAccepted, StpArm, CleanStep, ClnReset, ClnWipe,
           WalkStep, OutputAmount, OutputAmountFaults, Move, Leave, Crash, At
      <4> QED
        BY <1>1, <4>2, <4>3 DEF EndWrite, EndWriteFaults, Leave, Return, Crash, Goto
    <3>2. todo' = todo /\ todo = Todo0
      BY <1>1, <3>1 DEF Elsewhere, MainCalls, Call, At, Stage, Where
    <3> QED
      BY <3>1, <3>2 DEF Fresh, Building
  <2>8. CASE \/ CfgAlloc(Main) \/ CfgAllocFails(Main) \/ CfgOpen(Main) \/ CfgOpenFails(Main)
             \/ CfgOutput(Main) \/ CfgOutputFails(Main) \/ CfgOpenFaults(Main) \/ CfgIteratorFault(Main)
    <3> DEFINE From(l) == pc[Main] = l
    <3>0. From("cfg_output") => pos[Main] \in Nat /\ Len(channel_list) \in Nat
      BY ConfiguringNow
    <3>1. From("cfg_alloc") \/ From("cfg_open") \/ (From("cfg_output") /\ ~CfgOutputsDone(Main))
      BY <2>8, <3>0 DEF CfgAlloc, CfgAllocFails, CfgOpen, CfgOpenFails, CfgOutput, CfgOutputFails,
         CfgOpenFaults, CfgIteratorFault, CfgOutputsDone, Iterates, Move, Crash, At
    <3>2. ~From("cfg_alloc")
      BY <1>1 DEF Stage, Where
    <3> QED
      BY <3>1, <3>2 DEF Elsewhere, MainCalls, Call, At
  <2> QED
    BY <2>1, <2>2, <2>3, <2>4, <2>5, <2>6, <2>7, <2>8 DEF Elsewhere, Step, ConfigStep
<1>3. ~Building' /\ CallsInv'
  BY <1>1, <1>2 DEF Building, CallsInv, ConfigInv, Untouched, detailVars
<1>4. EncodersInv'
  BY <1>1, <1>2, <1>3 DEF ConfigInv, EncodersInv, EncodersOf, detailVars
<1>5. LooseInv'
  <2>1. pc'[Main] = "cfg_open" => next' = "open"
    BY <1>1, <1>2 DEF ConfigInv, CallsInv, detailVars
  <2> QED
    BY <1>1, <1>2, <2>1 DEF ConfigInv, LooseInv, Coded, inputVars, detailVars
<1> QED
  BY <1>2, <1>3, <1>4, <1>5

LEMMA ConfigInitInv == ConfigInit => ConfigInv
<1> SUFFICES ASSUME ConfigInit PROVE ConfigInv
  OBVIOUS
<1>1. /\ ProgramInit /\ Init /\ WrapperInit /\ ProgramInv /\ TypeOK /\ todo = Todo3
      /\ pc[Main] = "idle" /\ created = 0
  BY ProgramInitInv, InitTypeOK, MainAssumption DEF ConfigInit, ProgramInit, Init, WrapperInit, Todo3
<1>2. ConfigTypeOK
  BY <1>1, TodoFacts DEF ConfigTypeOK, ConfigInit, ProgramTypeOK, WrapperInit, Absent, NoCtx, Slot
<1>3. CallsInv
  BY <1>1 DEF CallsInv, ConfigInit, Building, Untouched, WrapperInit
<1>4. EncodersInv
  BY <1>1, FS_EmptySet DEF EncodersInv, ConfigInit, Building, WrapperInit
<1>5. LooseInv
  BY <1>1 DEF LooseInv, ConfigInit, WrapperInit, Coded
<1> QED
  BY <1>1, <1>2, <1>3, <1>4, <1>5 DEF ConfigInv

LEMMA ConfigNextInv ==
  ASSUME ConfigInv, [ConfigNext]_configVars
  PROVE  ConfigInv'
<1>1. [ProgramNext]_programVars
  BY NextRefines
<1>2. ProgramInv'
  BY <1>1, ProgramNextInv DEF ConfigInv, ConfigTypeOK, ProgramTypeOK
<1>3. TypeOK'
  <2>1. Remaining
    BY DEF ConfigInv, ProgramInv, Stage, Where, Remaining
  <2> QED
    BY <1>1, <2>1, ProgramStepIsStep, NextTypeOK DEF ConfigInv, ConfigTypeOK, ProgramTypeOK
<1>4. CASE ConfigCalls
  <2>1. CallsInv' /\ EncodersInv'
    BY <1>4, OpeningKeeps, AllocatesKeeps, MakesKeeps, AttachesKeeps, BuildingEnds
       DEF ConfigCalls, OpensInput, DiesOfOpening, Probes, FindsDecoder, InputRejected, InputAccepted
  <2>2. LooseInv'
    BY <1>4, OpeningLoosens, BuildingLoosens
       DEF ConfigCalls, OpensInput, DiesOfOpening, Probes, FindsDecoder, InputRejected, InputAccepted
  <2> QED
    BY <1>2, <1>3, <1>4, <2>1, <2>2, CallTypes DEF ConfigInv
<1>5. CASE Elsewhere
  <2>1. CallsInv' /\ EncodersInv' /\ LooseInv' /\ created' = created /\ UNCHANGED detailVars
    BY <1>5, ElsewhereKeeps DEF Elsewhere
  <2>2. todo' \in {Todo0, Todo1, Todo2, Todo3}
    BY <1>2 DEF ProgramInv, Stage, Where
  <2> QED
    BY <1>2, <1>3, <2>1, <2>2, TodoFacts
       DEF ConfigInv, ConfigTypeOK, ProgramTypeOK, detailVars, NewCtx, Contexts
<1>6. CASE UNCHANGED configVars
  <2>1. UNCHANGED programVars /\ UNCHANGED detailVars
    BY <1>6 DEF configVars
  <2>2. CallsInv' /\ EncodersInv'
    BY <2>1 DEF ConfigInv, CallsInv, EncodersInv, EncodersOf, Building, BuildInv, Bound, Visited, InOrder,
           BoundTo, Channel, ThisChannel, This, Fresh, Foreign, Untouched, NewCtx, detailVars,
           programVars, vars,
           wrapperVars, inputVars, outputVars, threadVars, envVars
  <2>3. LooseInv'
    BY <2>1 DEF ConfigInv, LooseInv, Coded, Fresh, OpenedCtx, NewCtx, detailVars, programVars, vars,
       wrapperVars,
       inputVars, outputVars, threadVars, envVars
  <2> QED
    BY <1>2, <1>3, <2>1, <2>2, <2>3
       DEF ConfigInv, ConfigTypeOK, ProgramTypeOK, detailVars, NewCtx, Contexts, programVars, vars,
       wrapperVars
<1> QED
  BY <1>4, <1>5, <1>6 DEF ConfigNext

LEMMA ConfigInvariant == ConfigSpec => []ConfigInv
BY ConfigInitInv, ConfigNextInv, PTL DEF ConfigSpec

-----------------------------------------------------------------------------
(* SetConfig made of its library calls, whichever of them fails, is         *)
(* SetConfig in one step per input and output.                              *)
THEOREM CallsImplementProgram == ConfigSpec => ProgramSafety
<1>1. ConfigInit => ProgramInit
  BY DEF ConfigInit
<1> QED
  BY <1>1, NextRefines, ConfigInvariant, PTL DEF ConfigSpec, ProgramSafety

(* SetConfig, seen call by call, stays well typed: the call it is at, the   *)
(* streams left and opened, and the outputs its encoders are attached to.   *)
THEOREM ConfigTypes == ConfigSpec => []ConfigTypeOK
BY ConfigInvariant, PTL DEF ConfigInv

(* Every output that exists has the encoders of its channel, and none that  *)
(* was freed has one.  A stream that was given a decoder or an encoder has  *)
(* lost the codec context it was made with, in a configuration that is      *)
(* accepted too; a decoder or encoder itself is lost once at most, by a     *)
(* configuration that is rejected.                                          *)
THEOREM AccountOfCodecs == ConfigSpec => []CodecsAccounted
<1>1. ConfigInv => CodecsAccounted
  BY DEF ConfigInv, EncodersInv, EncodersOf, LooseInv, CodecsAccounted
<1> QED
  BY <1>1, ConfigInvariant, PTL
=============================================================================
