# Transcoder: TLA+ models and proofs

A verification development for the transcoder in `src/`: a C++ server that opens an
MPEG-TS input with FFmpeg, transcodes the streams of each requested *channel* (a pair of
a video and an audio pid) to HLS, and is driven over gRPC by a Go client.

- [1. The system](#1-the-system): components, state, operations, interactions, what is hard
- [2. The modules](#2-the-modules): which module models what, and how
- [3. The runs](#3-the-runs): what TLC checks, the bounds, the fairness
- [4. The proofs](#4-the-proofs)
- [5. Disagreements with the documentation](#5-disagreements-with-the-documentation)
- [6. What is not modelled](#6-what-is-not-modelled)
- [7. Plan](#7-plan)

## 1. The system

| Component | State it keeps | Operations | What makes it correct |
|---|---|---|---|
| `Transcoder` (`Transcoder.cpp`), a singleton | `_state`, `_lock_process`, `_turnoff`, `_cleanup_done`, `_pidObject` (stream index -> stream object), `_ofmt_list` | `InitalAvio`, `SetConfig`, `Process`, `StopProcess`, `CleanUp`, `WriteEnd`, `OutputAmount`, `ReturnStateName`, `Thread_process` | mutual exclusion of configuration, transcode and clean-up; the status says what happened; an accepted stop ends the loop; the lock is always given back; nothing is freed under a running transcode |
| `CtxWrapper` (`CtxWrapper.cpp`) | `_ifmt_ctx`, `_avio_ctx`; fills the two containers of `Transcoder` by reference | `SetAvio`, `SetConfig`, `Cleanup`, `_ifmtclean`, `GetIfmt` | every listed output exists; a bound stream reads from and writes to contexts that exist; partial failure leaves nothing behind |
| `Status` (`TransState.cpp`) | `_current`, one of eight names, and a mutex for the writer | `Initialize`, `SetState`, `GetCurrentId`, `GetCurrentName` | a session goes through the states in order and ends in an outcome |
| `ServiceImpl` (`RPCServer.cpp`) | `_channel_list`, `_tranprocess`, both without a lock | `Setchannel`, `Avio`, `Process`, `State`, `Stop` | requests that overlap are all answered; what a request lends to the transcoder outlives its use |
| Go client (`goclient/client.go`) | its place in a script of three calls | `Setchannel`, `Avio`, `Process` under one deadline of a second | one run gives one correct transcode, even when it gives up early |
| `main` (`main.cpp`) | - | `test3` (what `main` runs), `test2`, `RunServer`, `read_packet` | it ends with every output complete |
| `Audio` (`Audio.cpp`) | sample FIFO, resampler, time stamps | `Flow`, `FlushEncoder`, `InitalTool`, `CleanUp` | samples in order, none lost, stamps that increase and do not drift |
| `Video` (`Video.cpp`) | a decoded frame, `_got_frame`, time stamps, a static frame counter | `Flow`, `FlushEncoder`, `SetTime` | each frame written once, delayed frames included, under the right stream index |
| libavformat's muxer (external) | the last stamp of each stream, the interleaving queue | `av_interleaved_write_frame`, `av_write_frame`, `av_write_trailer` | what it asks of its callers is what `Audio` and `Video` give it |
| `Timer` (`Timer.cpp`) | a thread, an unsynchronized singleton | `Create_timerthread` | (nothing creates one) |
| `read_packet` (`RPCServer.cpp`, `main.cpp`) | the caller's pointer and remaining size | one callback | the bytes of the buffer, each once, then end of file |

**How they interact.** gRPC runs every request on a thread of its pool; handlers of
several clients therefore overlap inside `ServiceImpl` and inside `Transcoder`. A
`Process` request starts another thread, which nobody joins, and which holds
`_lock_process` for the whole transcode. Configurations wait for that lock.
`_channel_list` is passed by reference down to `CtxWrapper`, which walks it while other
handlers may append to it. `CtxWrapper` hands raw pointers to its contexts to the stream
objects in `_pidObject`; the callback of a memory input keeps a pointer into the stack
frame of the request that opened it.

**What is hard.** The status, the stop flag, the input pointer and the two containers are
touched outside the lock that protects the work. Configurations fail half-way and leave
objects behind. Calls may come in any order, twice, or be given up by a client while the
server goes on with them. The full list, each entry at its line and with the properties
that cover it, is `hazards` in `PROJECT.json`.

## 2. The modules

```
CtxWrapper  <-EXTENDS-  Transcoder  <-EXTENDS-  RPCServer  <-EXTENDS-  GoClient
                            ^                                             |
                            +--EXTENDS-- BatchProgram --- INSTANCE ---> Lifecycle <--- INSTANCE
                            |                ^
                            |                +--EXTENDS-- Configuration
                            +--INSTANCE- MediaFlow -INSTANCE-> AudioFlow
                                             +--EXTENDS--> VideoFlow --EXTENDS--> Muxer

TranscoderProofs <- TranscoderSafety <- RPCServerProofs <- GoClientProofs
                         ^
                         +-- ConfigurationProofs (BatchProgram, Configuration) --> NumberLemmas
AudioFlowProofs <-INSTANCE- MediaProofs (Muxer, VideoFlow, MediaFlow) -----------> NumberLemmas
```

The lower half are the proofs: each module EXTENDS the component it is about and the proofs it builds on.
`AudioFlowProofs` EXTENDS `NumberLemmas` too, which is about division and rounding and knows of no component.

**`CtxWrapper`** has the contexts and the two containers as state, and one operator per
outcome of each of its operations (`AllocInput`, `OpenInput`, `ProbeInputFails`,
`OpenInputFails`, `OfmtInital`, `OfmtInitalFails`, `OfmtInitalFaults`, ...). It is not a
specification of its own: the class has no thread and no lock. A context is a number that
is never used twice, so that a pointer to a freed one stays recognizable. `Streams`, `Kind`
and `Selects` say which streams the input has and which of them a channel asks for: a pid
matters only through the streams whose id it is. `Failures` are the library calls that may
fail. A rejected channel leaves the stream objects inserted before the failure in
`pidObject`, bound to the freed output, as the code does; `Stops` is the set of places the
loop may have got to. `insert` of a key that is there changes nothing (`Bind`).

**`Transcoder`** is the core: any number of threads call any methods in any order. An action
is the stretch of a method between two points where another thread can interfere: an access
to `_state`, `_turnoff` or `_ifmt_ctx` that no lock protects, an acquisition of
`_lock_process`, a wait. The status write and the unlock at the end of a critical section are one action
where nothing another thread does can tell them apart. `SetConfig`'s catch block
is a step of its own (`cfg_rejected`), because it runs after the lock has been released;
`InitalAvio`'s is not, because it reports under the lock. `Process` reads the input pointer,
announces itself, and only then takes the lock: three steps. `channel_list`, `frame` and
`stale` belong to the callers: the list they pass by reference, the stack frame that holds
a buffer descriptor, and whether a `push_back` has moved the list under an iterator, of either of the two loops over it (`cfg_open`, `cfg_output`).
`CallerDies` is what their own code may die of: a list or a thread object used by two of them at once, a buffer that was never mapped.

*Undefined behaviour* is an explicit outcome. `fault` names the access that killed the
process (a null or freed context, an iterator that was invalidated, the descriptor of a request that is over, `std::terminate`), and no
action is enabled afterwards. Among them are `CfgOpenFaults`, a `SetConfig` that opens its file with the context of a memory input, and
`null_codec`, the name of a codec that `OutputAmount` asks for of a stream without decoder (`Nameless`). Where the code may survive an undefined access (a freed stack
frame that still holds its values, a race that is lost by nobody), both outcomes are there,
as two actions. An access through nullptr always dies.

**`RPCServer`** adds the service: `rpc` is where in a request each handler is, `reply` what
it answered, `joinable` whether `_tranprocess` owns a thread, `started` the threads it
has started. `StartJob`, `AssignJob`/`AssignTerminates` and `StoreJob` are the three parts of
`_tranprocess = _trans->Thread_process()`: the thread runs before the assignment, and the
assignment terminates the program if the old thread object is joinable. It looks before it swaps, so that a second handler may be past the look as well: what it then gets out
of `_tranprocess` is destroyed, and terminates the program (`StoreTerminates`). `ReadsUnmapped` is a read of a memory input whose file could not be mapped, which nobody has looked at. Every step is a step
of `Transcoder` or leaves it alone, and that is checked and proved.

**`GoClient`** composes the server with the Go client (its script, its deadline, which may cut
in at any moment while the server goes on, its restart) and an operator who asks for `State`
and `Stop`.

**`BatchProgram`** composes `Transcoder` with what `main` runs today: `test3`, one
thread that configures, transcodes and writes the trailers, looking at no result.

**`Configuration`** is the batch program once more, with `SetConfig` made library call by library
call: `next` is the call to make, `left` the streams its loop has still to visit. What is in the making (the
decoders of an input, the streams, objects and encoders of an output) has variables of its own, and becomes part of the state
of `CtxWrapper` at the last call of each; a codec context is *attached* to a stream, where the clean-ups find
it, or *loose*. A stream is made with one of its own (`Own`), which becomes loose when `codec_ctx` or `enc_ctx` is assigned over it (`CtxWrapper.cpp:130`, `176`). Every step is a step of `BatchProgram` or a stutter (`ProgramSpec`, fairness included), which
is what justifies the one-step outcomes that `CtxWrapper` gives to the concurrent models: nobody else can see the steps in between,
since they are made under `_lock_process`, but for `_pidObject`, whose walkers have `Inserting` for it.

**`Lifecycle`** is the abstract specification of a session: `Initial`, `SetConfig`, its outcome,
`Process`, `Finished`, with the process able to die at any moment, and no configuration or
transcode left without a conclusion. `BatchProgram` and `GoClient` are checked to
implement it, the mapping being `status <- state, alive <- (fault = "none")`.

**`AudioFlow`** is one `Audio` object on its own, from its first packet to the end of its flush;
it runs under `_lock_process`, so that nothing interferes. The FIFO is a number of samples (in a
unit that divides both frame lengths), the encoder a queue of the frames it holds back (`Delay`), the output the
last stamp and a count. `NowPts` is the arithmetic of `Audio::Flow`: an integer division by the packet's duration,
multiplications by lengths and by the truncated `_packet_duration`, and a truncation of a floating-point
result, which may fall one tick short of a whole number: both results are there. A frame goes into the encoder with a
stamp, and the frame that comes out takes it, as in `_encode_audio_frame`. `LoadFails` ends in `Continue` or `GiveUp`
because the catch block of `Load_encode_and_write` returns no value. The demuxer is taken to give
one frame per packet, and the muxer to refuse stamps that do not increase, as
`include/libavformat/avformat.h:2599` asks of its caller. `InitalTool` may leave a null resampler or FIFO behind
(`broken`), which kills the process at the first packet that can be decoded (`BrokenPacket`). `ReadUnstamped` is a packet without a
time stamp: `AV_NOPTS_VALUE` minus the start time is negative and counts as 0, or has overflowed into the far future.

**`Muxer`** is one output of libavformat as the two stream objects see it, an external component, modelled from
`avformat.h`: stamps of a stream increase strictly, or the packet is refused; `av_interleaved_write_frame` orders packets in a
queue that is released when there is one of each stream or when it spans more than `max_interleave_delta`
(`avformat.h:1612`); `av_write_frame` goes past the queue; the trailer flushes it.

**`VideoFlow`** is one `Video` object. `TranscodeFlow` is one action per outcome (`DecodeFails`, `DecoderDelays`,
`EncodeFails`, `EncoderDelays`, `PictureWritten`, `PictureRefused`), because nothing interferes and its result is ignored. Decoder and encoder are
queues with a delay (`DecoderHolds`, `EncoderHolds`). A stamp is rounded to whole pictures of the encoder's framerate and back to
ticks (`FrameOf`, `StampOf`), as `av_packet_rescale_ts` does it. The flush gives what the encoder holds to stream 0.
`MuxFlow` is not there: `_interlaced` is never false.

**`MediaFlow`** composes a `Video`, an `Audio` (an instance of `AudioFlow`) and a `Muxer` with the loop of `Process` and the callback
`read_packet` of a memory input: what a thread does from `prc_init` to `prc_finish`, and `WriteEnd` for a
caller that makes it. `pc` and `turnoff` are Transcoder's, so that it is shown to implement `Transcoder` step by step (`ImplementsProcess`): an
audio object at work is inside `PrcReadPacket`, the flushes are inside `PrcDrain`. A buffer is a sequence of packets, each
the name of its stream; `read_packet` copies up to `BufSize` of them.

Operators named `Mut...` are faulty variants of the definition that follows them; no
specification uses them. They document the mistake each property detects.

## 3. The runs

| Run | Question | States |
|---|---|---|
| `transcoder_safety` | Three threads, three calls of any methods, every failure: are lock, status, list and bindings consistent? | 2,530,000 |
| `transcoder_live` | Does an accepted stop end the loop on an input that never ends? On one that ends, does every call but `StopProcess` return, whatever fails? | 390,000 |
| `server_safety` | Two handlers, two jobs, a file that may not be mapped: is every behaviour of the server a behaviour of `Transcoder`; does a buffer descriptor live exactly as long as its request? | 880,000 |
| `client_session` | One run of the client, operator beside it, deadline anywhere, a configuration that may fail: does the server die of anything but a transcode of what a rejected configuration left; is every stream routed, the answer to `Avio` what became of the configuration, the loop stoppable; does the session implement `Lifecycle`? | 184,000 |
| `client_restart` | The client is started again while the first run's requests are still served: what can kill the server, and is every request answered, with handlers queueing behind a job? | 69,000 |
| `batch_program` | Every list of up to three of five channels, every failure: does the program end complete, and if it dies, of what; is each codec context attached, or accounted for as lost; is the call-by-call `SetConfig` one of `CtxWrapper`'s outcomes; does it implement `Lifecycle`? | 26,000 |
| `audio_flow` | Fifteen formats (MPEG layer II, AAC, AC-3, HE-AAC, short frames; 48 and 44.1 kHz; audio before or after the video; unknown duration), 6 packets, every mishap: are samples lost, do stamps increase, do they stay in line with the samples? | 20,300,000 |
| `media_flow` | Two buffers of eight packets, a stop at any turn of the loop, up to two troubles of the video and the mishaps of the audio that end it or spoil its stamps: are pictures accounted for, in time, in their stream; is the buffer delivered in order; what is missing without a trailer; does it end; is it `Transcoder`'s `Process`? | 1,360,000 |
| `media_mixing` | violation: see section 5 | |
| `audio_drift` | violation: see section 5 | |
| `stop_cleans_up` | violation: see section 5 | |
| `memory_input` | violation: see section 5 | |

**The properties.** `Mutex`: the lock is held by exactly the thread inside one of the four
critical sections. `StatusIsAttributed`: a transient status always has a thread at work that
will replace it; hence `QuiescentStateIsTerminal`: with no method running the status is an
outcome, however the unlocked writes overlapped. `NoFreeUnderTranscode`: nothing a running
transcode reaches is opened, closed or rebound. (The *copy* of the input pointer is taken
before the lock and can be stale: that is a fault in the model, and `client_restart` shows
when it can happen.) `FirstBindingWins`: a stream index is bound once. `OutputsListed`: the
list `WriteEnd` walks is exactly the outputs that exist. `StopIsForever`: after an accepted
stop no thread ever starts to read a packet again, because `_turnoff` is never reset.
`AcceptedChannelRouted`: an accepted configuration has a stream object with a decoder, an
input and a listed output for each stream of each channel. `AvioAnswerTruthful`: `Avio` is answered
`SetConfigFinished` if the input is open and every channel of the list has its output, and `SetFailed` otherwise. `DeathNeedsSecondProcess`: a restarted client
kills the server by a second `Process` or by appending to the list under an iterator, and by
nothing else. `DiesOfRejectionOnly`: the batch program, once configured, dies only of a
rejection it has ignored, or in an audio object that cannot cope (`Failures` has `"audio"` for what `AudioFlow` shows in detail: a frame that is not allocated, a packet of unknown duration); `DeathNeedsRejection` says so of the server one client uses. `ExitIsComplete`: at its end every stream is flushed and
every output has its trailer. `CodecsAccounted`: each output has an encoder for each of its streams, and no freed output has one. The codec context that a stream was
made with is lost as soon as a decoder or an encoder is put in its place, in accepted configurations too, and no other stream's is; of the decoders and encoders
themselves at most one is ever lost, by a configuration that is rejected.

`PicturesAccounted`: what is lost is what stays in the codecs for ever (`Left`: in the decoder, which is never flushed, and in the encoder if its flush fails), and beyond
that at most one picture for each thing that went wrong, a stamp that makes a picture count as another included, or, when the video is not stream 0, for each that the flush gives to the wrong stream. When
nothing goes wrong exactly the last `DecoderHolds` pictures are left. `VideoAligned`: a picture is shown within half a picture and half a tick of its time, however long the stream.
`StraysAreDelayed`: the pictures in the wrong stream are those the encoder still held at the end of the input. `InputDelivered`: every packet of the buffer gets to its
object, once and in order: those delivered are the first of the buffer, those the demuxer holds the next. `MissingTail`: what a caller that writes no trailer misses, as the server does, is video at the end, over at most the muxer's limit.
`MemoryInputEnds`: a transcode of a buffer ends, or dies, with nobody to stop it.

`SamplesAccounted`: until a frame is refused every decoded sample is in the FIFO, the encoder or
the output. `FlushIsComplete`: what is dropped at the end is less than a frame. `StampsAccepted`: the
stamps never make the muxer refuse a frame, whatever packets are lost or broken, unless the audio starts before the
video (its first packets are then all stamped 0), a packet came without a stamp, or something else was refused before. `AudioAligned`: an output frame is
stamped with the input time of its first sample, within a packet's length and but for the constant shift by the frames the encoder holds back, when the audio does not start before the video.

**Bounds.** `MaxCalls` method calls (3), `MaxRequests` requests (3 to 6), `MaxList` channels, `MaxRuns`
starts of the client. Three calls are enough for every pairwise race of two methods with a third that
observes or disturbs it; the server's 4 requests cover a whole session and one more; the client's 6
cover two starts. The input has a video and an audio stream, in `batch_program` a data stream and a second video stream too, so that channels
overlap, lack a video stream, or select something that is neither. In `transcoder_safety` the list starts with a channel of audio only
and may grow by any other at any time, before or after the input is opened with decoders for the streams of the list as it was: with every library call
allowed to fail, a rejected channel may stop at any stream. `Failures` is full there, but for the memory input in `batch_program`,
and smaller where noted in the `.cfg`.
In the server and client runs the channel list starts empty, as the service's does.
A Process request is received only while a job is left to serve it (`JobLeft`); with two jobs the second
`Process`, the one that kills the server, is always reached.

Six packets let the FIFO go through every remainder of frame lengths 12 and 16 by 8, and through most
of those of 9 by 8, with every mishap at every packet. `audio_drift` needs 2633 packets, a minute of sound, and
has one behaviour but for rounding; up to there that behaviour is aligned.

The buffers of `media_flow` hold the two streams evenly mixed and in bunches, so that the queue waits for either; the callback delivers 3 packets at a time, which
does not divide 8, so that the last call is for less. Pictures of 3753.75 ticks (24000/1001 per second) do not divide; their stamps are off by nothing, by a
quarter and by more than half of a picture. The decoder holds one picture and the encoder two, the audio encoder one frame. `MaxInterleaveDelta` is two pictures, so that both reasons to release the queue occur.
Raising the flag is tried just before the loop reads it; earlier makes no difference. `MaxTroubles` is 2, one trouble on top of another. `media_mixing` has 30 packets, no trouble and no delay, so that nothing but the mixing can be the cause:
it allows the file to go back in time by `Skew`, more than input and codecs are out of step.

**Symmetry** of threads, handlers and jobs is used in safety runs only.

**Deadlock** is not checked: the process may die (`fault`), the number of calls is bounded, and a
caller of `StopProcess` may wait for ever. That nobody else waits for ever is what `CallsReturn`,
`RequestsAnswered`, `MemoryInputEnds` and the liveness of `Lifecycle` say.

**Fairness.** `WF` of each thread's step: the operating system runs a thread that can run.
Weak fairness is enough for the lock since every call ends and the number of
calls is bounded, so that the lock is not taken away from a waiting thread for ever. `SF` of
`PrcReadEnds`, in the runs of the server, client and batch program and as the premise `InputEnds` of `CallsReturn`: a file, or
a buffer, comes to its end; `StopDrains` is checked without it, for live inputs. For a buffer it is not assumed in `MediaFlow` but
shown (`MemoryInputEnds`), under weak fairness of the thread alone. There is no
fairness for new calls, for the client, for the death of the process, or for the wakeup of
`_cleanup_done.wait`, which nothing notifies. `_turnoff` is a plain `bool`; the loop calls into
the library between two reads of it, so that a build cannot keep it in a register, and a read that
returns the old value once more is covered by the interleaving.

## 4. The proofs

Checked by TLAPS for all values of the constants: any number of threads, handlers, jobs, streams, channels,
buffers and packets, any `Kind`, `Selects`, `Failures`, `Mishaps`, delays and bounds. What is assumed are the
named `ASSUME`s of the modules, which TLC evaluates in every run: types of the constants, `NoThread \notin
Threads`, the disjointness of handlers and jobs, and

- `OfferedToClient` (`GoClient`): the service offers what client and operator ask for;
- `TwoStreams` (`MediaFlow`): the output has the streams 0 and 1, one for each stream object;
- `AudioAssumption` (`MediaFlow`): what `AudioFlow` assumes of its constants, for the instance of it.

Six things are hypotheses of theorems, not assumptions, since the code does not see to them:

- `Orderly` (`VideoFlow`): pictures come in the order of their stamps, none off by more than one picture's
  length relative to another. `MCMediaFlow` asserts it of the inputs that TLC checks;
- `Ticking` (`VideoFlow`): a picture lasts a tick of the output or longer, so that two pictures never have the
  same stamp. At 90000 ticks per second every framerate there is satisfies it; `MCMediaFlow` asserts it too;
- `Steady` (`AudioFlowProofs`): the duration of a packet is known and not longer than its frame lasts, a unit
  of samples lasts at least two ticks of the output, and the audio does not start before the video. It is
  evaluated in the state, since the format is known once the stream is; a duration that is too long, or ticks
  as coarse as the samples, give the stamps no order;
- `Paced` (`AudioFlowProofs`), evaluated in the state as well: the audio does not start before the video, and the
  format is `Exact` or `Matched`. `Exact`: the frames of decoder and encoder last whole numbers of ticks, and the
  durations say so. `Matched`: they are equally long, and the duration of a packet is the encoder's truncated one. Of the formats
  of `audio_flow` those at 48 kHz are exact, and AAC that stays AAC at 44.1 kHz is matched; MPEG layer II at
  44.1 kHz is neither, and is what `audio_drift` refutes;
- `MaxRuns <= 1` (`GoClientProofs`): one start of the client against a fresh server. With two, threads of both
  runs overlap and the argument below no longer holds; what remains is `SecondProcessKills`;
- `AllHaveVideo`, `Unfailing` (`GoClientProofs`): every channel has a video stream; and, for
  `SecondProcessKills`, no library call fails, the client asks for the same streams each time it is started,
  all of them video or audio. Otherwise the first `Process` can kill the server.

| Theorem | States |
|---|---|
| `TranscoderProofs!TypeCorrect` | `Spec => []TypeOK` |
| `TranscoderSafety!MutualExclusion` | `Spec => []Mutex` |
| `TranscoderSafety!StatusAttributed` | `Spec => []StatusIsAttributed` |
| `TranscoderSafety!QuiescentStatus` | `Spec => []QuiescentStateIsTerminal` |
| `TranscoderSafety!NoFree` | `Spec => NoFreeUnderTranscode` |
| `TranscoderSafety!FirstBinding` | `Spec => FirstBindingWins` |
| `TranscoderSafety!ListedOutputs` | `Spec => []OutputsListed` |
| `TranscoderSafety!StopStays` | `Spec => StopIsForever` |
| `TranscoderSafety!MethodsFollowLocations` | `Spec => []InMethod`: every location belongs to the method the thread is in |
| `RPCServerProofs!ServerImplementsTranscoder` | `ServerSpec => Spec` |
| `RPCServerProofs!ServerIsSafe` | `ServerSpec` has what is proved of `Transcoder` |
| `RPCServerProofs!ServerTypes`, `FramesInRequests` | `ServerSpec => []ServerTypeOK`, `[]FramesAreInRequests` |
| `RPCServerProofs!JobsTranscode` | `ServerSpec => []CallsRequested`: jobs run `Process` only, a handler is in a method only while it handles the request that calls for it |
| `GoClientProofs!SystemImplementsServer` | `SystemSpec => ServerSpec` |
| `GoClientProofs!ClientTypes` | `SystemSpec => []ClientTypeOK` |
| `GoClientProofs!StoppableLoop`, `TruthfulAnswer`, `ChannelRouted` | if `MaxRuns <= 1`: `[]LoopIsStoppable`, `[]AvioAnswerTruthful`, `[]AcceptedChannelRouted` |
| `GoClientProofs!RejectionKills` | if `MaxRuns <= 1` and `AllHaveVideo`: `[]DeathNeedsRejection` |
| `GoClientProofs!SystemIsSession` | if `MaxRuns <= 1`: `SystemSpec => Session!Safety`, the step refinement of `Lifecycle` |
| `GoClientProofs!SecondProcessKills` | if `Unfailing`, for any number of runs: `[]DeathNeedsSecondProcess` |
| `ConfigurationProofs!ProgramImplementsTranscoder` | `ProgramSafety => Spec` |
| `ConfigurationProofs!CompleteExit`, `OnlyRejectionKills` | `ProgramSafety => []ExitIsComplete`, `[]DiesOfRejectionOnly` |
| `ConfigurationProofs!ProgramIsSession` | `ProgramSafety => Session!Safety` |
| `ConfigurationProofs!CallsImplementProgram` | `ConfigSpec => ProgramSafety` |
| `ConfigurationProofs!ConfigTypes`, `AccountOfCodecs` | `ConfigSpec => []ConfigTypeOK`, `[]CodecsAccounted` |
| `AudioFlowProofs!AudioAccounted`, `AudioTypes` | `Spec => [](AudioTypeOK /\ SamplesAccounted)`, `[]AudioTypeOK` |
| `AudioFlowProofs!FlushComplete` | `Spec => []FlushIsComplete` |
| `AudioFlowProofs!StampsInOrder` | `Spec => [](Steady => StampsAccepted)` |
| `AudioFlowProofs!StampsKeepPace` | `Spec => [](Paced => AudioAligned)` |
| `MediaProofs!MediaDrivesAudio` | `MediaSpec => Audio!Spec` |
| `MediaProofs!MediaTypes`, `VideoStaysAligned`, `InputIsDelivered` | `MediaSpec => []MediaTypeOK`, `[]VideoAligned`, `[]InputDelivered` |
| `MediaProofs!OnlyTailMissing`, `OnlyDelayedStray` | if `Orderly`: `[]MissingTail`, `[]StraysAreDelayed` |
| `MediaProofs!NoPictureLost` | if `Orderly` and `Ticking`: `[]PicturesAccounted` |
| `MediaProofs!ProcessUsesUpWork` | `MediaSpec =>` the work left is a natural number that each step of `Process` makes smaller and no other step changes |
| `MediaProofs!MediaImplementsProcess` | `MediaSpec => ImplementsProcess`, that is `Process!Spec` |

**The argument, component by component.**

*`Transcoder`.* `TypeOK` is inductive by itself: every operator of `CtxWrapper` only increases `created`
(`Grows`), so that old numbers stay in range. `Mutex` is inductive on top of it, as an equivalence: `pc[t] \in
Critical <=> lock = t`; the implication one would state first is not, since a step that leaves a critical
section has to know that the lock was its own. `QuiescentStateIsTerminal` is not inductive: it says nothing
while a method runs, when the unlocked writes happen. `StatusIsAttributed` is the strengthening: whoever wrote
a transient status is still on the way to replace it, and if another thread has overwritten it, that one is.
It also has to carry that the threads at the announcing locations are in the right methods, because `lock` is
a location shared by four methods. `NoFreeUnderTranscode` follows from `Mutex` and one lemma, `ReachChanges`:
a step that changes what a transcode reaches is made by a thread in a critical section (`Changes`), so that it
is the transcoding thread itself, and that one only at the end of its drain.

*`RPCServer`.* Each action is, by cases, an action of `Transcoder` or a stutter; that needs types only.
`FramesAreInRequests` needs in addition that a thread which holds a frame, or is about to get one in
`InitalAvio`, is a handler whose request has been passed on and not answered (`FramesHandled`), and that jobs
never run a configuration, which is part of `CallsRequested`.

*`GoClient`.* Every step of client and operator is a request the server offers, so that all theorems about
server and `Transcoder` hold under them. What one run of the client guarantees cannot be seen in the client:
between its calls, and after it has given up, its requests are still being served. The invariant
(`SessionInv`) therefore speaks of the one thread that works for it. `Stage`: all threads but one are between
calls or in `StopProcess`; that one configures, or transcodes, and where it is tells the status, what is in
the contexts and in the map (`Configures`, `Transcodes`); or nobody works, and the session is before
(`Untouched`), between (`Configured`) or after (`Over`). `Errands`: the client has at most one request under
way, which is the one it waits for unless it has given up; and each kind of request finds the stage it needs.
`Script`: how far the client is, by the stage, and that the answer it has got is the `Verdict` on the state of input and list, which is
fixed when the configuration has come to its end. A step of any thread then makes progress through the stages
(`Progress`), which is the refinement of `Lifecycle`; and it dies only where a rejection has left no input, or
an object with a freed output. For any number of runs (`RerunInv`) next to nothing of this is left: threads
overlap. What holds is that nothing is ever freed (`Intact`), that an opened input stays the same one
(`Opened`), and that a stream object which is gone, or a second thread to be moved into `_tranprocess`, each
goes back to a job of its own (`Jobbed`).

*`BatchProgram`, `Configuration`.* One thread makes three calls, so that the call it is at tells the status
(`Stage`), and what is in the map and which outputs have a trailer (`Contents`). That a run dies of a
rejection only is then a case distinction over the ways to die. `CallsImplementProgram` needs, in the middle
of a loop over streams, that the streams visited so far are exactly those that the one-step outcome binds when
it stops there (`BuildInv`: `Visited`, `InOrder`). `AccountOfCodecs` rests on the same account of the loop, and on `LooseInv`, which says whose context is lost
at every point of it: a stream's own exactly if the stream is coded, and a new one only from the step that rejects the configuration on. The proof of `CallsImplementProgram` found the one-step operator wrong: `Stops` had no
place to stop at for a channel that selects nothing of an input without streams, where the header cannot be
written; the operator was corrected (`CtxWrapper`), no run had an input without streams.

*`AudioFlow`.* `FlushIsComplete` says nothing before the flush has ended; `SamplesAccounted` is its inductive
form, an equation that each frame moves a term of, and a bound on the FIFO that holds between packets. The
order of the stamps (`OrderInv`) needs a bound from above on every stamp there is, and from below on the next:
`Reached`, the time of the latest packet times the length of an output frame, so that no division is left in
it. The stamps given out while that packet is at work lie from its own time on, and less than a packet beyond.
All this as long as nothing has gone wrong (`Spared`: no failed encode or write, no missing stamp), which
`StampsAccepted` supposes too. The divisions are those of `NumberLemmas`; the products are hidden behind
names, since the solver gives up on them. `AudioAligned` is not inductive either: it compares the last stamp with the
last sample, and the next stamp comes from elsewhere. `PaceInv` says that without a mishap every packet read has been decoded, but for the one at
work; that the encoder holds the frames just before the FIFO, one after another (`Spaced`); and that the clock, like every stamp it gave
out, is close to its sample (`Kept`). In an exact format clock and samples move by the same number of
ticks; in a matched one each packet gives one frame, so that the quotient of the clock is the number of frames. Nothing adds up.

*`MediaFlow`.* `MuxerInv` and `PipeInv` type the queues and say that whatever is in the decoder, the encoder
or the output is the rounding of a time (`Aligned`), from which `VideoAligned` follows by `FrameOf`'s and
`StampOf`'s errors; no drift can accumulate because nothing is carried over. `DeliveredInv`: the packets
delivered are, kind by kind, as many as the first of the buffer; those read ahead are the ones between them and the pointer, in the same order;
a starved input has none left. `LineInv`: decoder, encoder, queue and file hold pictures in one line, each no
later than the next, which is where `Orderly` enters; with `TrailerInv` it gives `MissingTail`, and with
`StrayInv`, which counts the packets in the wrong stream, `StraysAreDelayed`. `AccountInv` is the account behind `PicturesAccounted`: a picture
is with the muxer, or its stamp is still to come (`Fresh`: the stamps in the line beyond the last one accepted, as a set, since two pictures with one stamp
are one for the muxer), or it is left in a codec, or owed to a trouble, or to what the flush gives to the wrong stream (`Slack`); while packets come, the next picture is
owed beforehand when its stamp has been overtaken. `HeldInv` says what the codecs hold as long as nothing goes wrong. The proof found the model wrong: it counted as a trouble a stamp that is off by half a picture, but where a
picture is not a whole number of ticks the rounding of the stamp itself decides, and a smaller error already moves a picture to its neighbour's place. TLC confirmed it for a
picture of 5/2 ticks, a rate that no run had; `Rough` now says what was meant. `ProcessUsesUpWork` is why a transcode of a buffer ends: `Work` adds up what is left of the buffer, of the samples in the
FIFO and in the encoder, of the pictures in the encoder, and of the way through `Process`, weighted such that whatever a step brings costs less than what it takes. `MediaImplementsProcess` needs
`Phase`: which object is at work, or flushed, at which location of `Process`.

**Model-checked only:**

- everything under fairness (`StopDrains`, `CallsReturn`, `RequestsAnswered`, `MemoryInputEnds`, the liveness
  in `Lifecycle` and in `ProgramSpec`), which is beyond the prover. The step parts of `ImplementsLifecycle`
  and of `ProgramSpec` are proved (`SystemIsSession`, `ProgramIsSession`, `CallsImplementProgram`);
- `AudioAligned` for the formats that are not `Paced`, for which it has no general truth: `audio_drift` refutes it after a
  minute. The run shows it for the first packets.

Of `MemoryInputEnds` the variant is proved (`ProcessUsesUpWork`): what is left to TLC is that a thread which has
work left can make a step, and that it does (`ENABLED` and fairness).

## 5. Disagreements with the documentation

- **`StopProcess` cleans nothing up** (run `stop_cleans_up`). `src/code/inc/Transcoder.h:19` says of
  it "This funtcion will automatically Cleanup ,so dont cleanup at other thread again". The code raises
  `_turnoff` and waits on `_cleanup_done`, but nobody calls `CleanUp`; `Process` ends in
  `Finished` and notifies no one. The counterexample is an accepted stop, a
  drained transcode, and a caller that waits for ever. And if a caller does clean
  up, `CleanUp` closes the input twice and dies on the second (`CtxWrapper.cpp:258`) before it notifies.
- **An input from memory is read through a dead stack frame** (run `memory_input`). The protocol offers
  it (`src/code/src/transcode_rpc.proto:37`), and `Avio` passes `&bd`, a local variable, as the opaque
  pointer of the read callback (`RPCServer.cpp:50`). `Process` is another request, on another
  thread, after `Avio` has returned.

- **Audio drifts** (run `audio_drift`). The start time is handed to `Audio` and `Video` "為了切齊video跟audio且讓影片從零開始",
  to align video and audio and let the film start at zero (`src/code/src/CtxWrapper.cpp:181`). They start aligned. But `Audio::Flow`
  counts whole packets and multiplies by durations that were truncated to ticks (`Audio.cpp:295`): MPEG layer II at 44100 Hz has packets of 2351.02
  ticks and is stamped in steps of 2350.125, 1.4 s per hour, while `Video` rescales the stamps of its
  packets. The first packets of all formats are in line (`audio_flow`); the error is what accumulates.
- **Two write functions for one output** (run `media_mixing`). `Audio` writes with `av_write_frame` (`Audio.cpp:269`), `Video` with
  `av_interleaved_write_frame` (`Video.cpp:78`, `109`). `src/include/libavformat/avformat.h:235` says that "only one of them may be used with a
  single muxing context, they should not be mixed", and line 2570 that packets are then "properly interleaved in the order of
  increasing dts". The video waits in the queue for an audio packet that never enters it, and is released only when it spans the limit, after
  audio that is later. Given either function for both objects, the same run finds the file in order.

Three more places where `avformat.h` asks for something else are left to properties that hold: the flush of `Video` sets the stream index 0 where line 2591 wants the
index of the stream (`StraysAreDelayed` says what becomes of it), and a server that never calls `WriteEnd` omits the
trailer, which has to be written "to flush any buffered packets" (line 243; `MissingTail`). And the user of `avformat_new_stream` has to clean up what it allocates (line 2125), among it the
codec context of the stream (lines 871-877), over which `CtxWrapper` writes its own (`CodecsAccounted`).

## 6. What is not modelled

Codec parameters, muxer options and file names: that the outputs of one list overwrite each other's files (`CtxWrapper.cpp:44`, `72`, where the counter never counts) is therefore not seen. The contents of
samples and pictures, and B-frames: pictures keep their order in decoder and encoder, and a packet's dts is its pts. `MuxFlow` and `ReturnFrame` of `Video`, which nothing
reaches, and `_endpoint`, which is only printed. Of the stream objects, `Transcoder` keeps the contexts
they reach; of a packet, its stream. More than one stream with the same kind in one channel of `MediaFlow`.
Memory that is leaked, but for codec contexts: mappings of `av_file_map`, `_avio_ctx`. `SetAvio` call by call: it differs from `SetConfig` in the allocation of the context, which
`CtxWrapper` has. `Timer`, which nothing
creates, and with it the unsynchronized `_count_frames`; `Client.cpp`, which is not built. The generated protocol code and gRPC itself, except that
it runs handlers on threads of its own and delivers a request at most once. `http.go`, one call of a library. `src/include`, the headers of
FFmpeg, x265, gRPC and gtest, is third-party code and most of the repository's lines.

## 7. Plan

In this order, the most important first; those marked * are done.

1. * `CtxWrapper` + `Transcoder`, safety and liveness, type correctness, mutual exclusion, status.
2. * `RPCServer` refining `Transcoder`; `GoClient`; `BatchProgram`; `Lifecycle` as the abstract session.
3. * `AudioFlow`: the FIFO and the time stamps; conservation of samples proved; failures of `InitalTool`, `AV_NOPTS_VALUE`.
4. * `VideoFlow`, `Muxer`, and `MediaFlow`, which implements the steps of `Process`; `read_packet`.
5. * `Configuration`: `SetConfig` call by call, implementing the one-step outcomes of `CtxWrapper`.
6. * Proofs: the safety of `Transcoder` and of the server; the batch program, and its `SetConfig` call by call; the order of
   the audio stamps; alignment, delivery, tail and strays of `MediaFlow`; the refinements `ImplementsProcess`, `ProgramSpec` (its steps) and `Lifecycle` (its steps);
   one and many runs of the client.
7. * `PicturesAccounted`, by the account of stamps; `AudioAligned` for the formats whose durations are exact or match; the variant
   behind `MemoryInputEnds`.
