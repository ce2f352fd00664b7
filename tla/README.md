# A TLA+ specification of godot-distrho

godot-distrho runs a Godot project as an audio plugin. The plugin host (a DAW)
loads a small library (`src/plugin`), which launches a second process, Godot
with the extension of `src/`, and talks to it through shared memory: audio and
MIDI once per block, requests and replies for programs and state, and an array
of parameter values. The user interface is a third process, launched when the
window opens. Everything that is hard about this program is in how these
processes and their threads meet: timed waits without predicates, notifies that
nobody waits for, rings with no fullness check, one buffer for requests and
replies, processes that are killed.

This directory holds TLA+ modules of those parts, TLC configurations that check
them on small instances, and theorems that TLAPS proves for all values of the
constants. File names are relative to `src/` of the repository.

## Inventory

| Component | State | Operations | Who meets there |
|---|---|---|---|
| Audio exchange (`distrho_shared_memory_audio`, `GodotDistrhoPluginClient::run`, `DistrhoPluginServer::audio_thread_func`) | `AudioBuffer`: sample rings, MIDI rings with one event count each, `num_samples`, `ready`, mutex, two conditions | hand over a block, wait 100 ms for the answer; mix, wait for a block, answer | the host's audio thread and the plugin's |
| Rings (`DistrhoCircularBuffer`, rings of `AudioBuffer`) | contents, write index, read index | write a block, read a block | two threads, no check for full or empty |
| Mix pipeline (`process_sample`, `set_channel_sample`, `AudioEffectSetDistrhoChannel`) | `input_channels`, `output_channels`, `has_data` | mix before every wait, exchange only when called | audio thread and Godot's mixer |
| RPC channel, host to plugin (`distrho_common.h`, `rpc_thread_func`) | `RPCBuffer`: `request_id`, message, size, `ready`, mutex, conditions; `state_values` | load program, get and set state, shut down | the host's threads and the plugin's RPC thread |
| State push, plugin to host (`client_thread_func`, `GodotDistrhoPluginServer`) | `state_queue`, batch, a second `RPCBuffer` | queue an update, send a batch every 16 ms, handle it | scripts, client thread, a thread of the host |
| Parameter regions (`DistrhoSharedMemoryRegion` and its pollers) | atomics in shared memory, three private copies | set, poll and compare, defer a signal | host threads, plugin main thread, UI main thread, a polling thread |
| MIDI events (`send_midi_event` ... `emit_midi_event`) | two queues, two rings, encoded messages, frame offset | encode, stamp, queue, exchange, decode, emit | scripts, main thread, audio thread, host |
| UI process and channels (`GodotDistrhoUI*`, `DistrhoUI*`) | window, client, server, child process, two more RPC buffers | open, close, idle, notify of program, parameter, state | host UI thread, its two threads, the UI process |
| Plugin lifecycle (`GodotDistrhoPlugin`, `main.cpp`, utils, `DistrhoSharedMemory`) | `client`, `server`, child process and its threads, the segment | activate, launch, start, quit, destroy; watch the parent | host thread, both processes, signals |
| Plugin description (`DistrhoPluginInstance`, `DistrhoPluginInfo`, `GodotDistrhoDynamicInfo`) | a file with texts, parameters, ports, programs, states | written in the editor, copied by an export, read by the host once per process and once per plugin | author, editor, host |
| Scenes and configuration, the rest of the export scripts | - | - | - |

What makes each correct:

- *Audio exchange.* Nobody reads what is not written; while no run is missed the
  two sides work in lock step; what a missed run costs is known; the host's
  callback returns; the threads can be joined.
- *Rings.* The latest frames are kept, each in its slot, across the wrap; a read
  gives the next frames of the stream.
- *Mix pipeline.* The delay of the plugin does not drift, and a timeout does not
  tear the sound for good.
- *RPC channel.* A call is carried out at most once, its caller gets its own
  reply, requests keep their order, every call returns.
- *State push.* Updates arrive in order, none twice, none lost without its call
  having failed, and the last one arrives.
- *Parameters.* The host sees defaults and never blanks; scripts hear what the
  host sets and not their own; all copies converge.
- *UI.* Nothing uses the shared memory of a window that is closed, the host survives
  what the UI process does, closing and quitting end.
- *MIDI.* What is heard is what was sent, in order; the frame of an event lies in
  its block.
- *Lifecycle.* The shared memory is there for who uses it and gone afterwards,
  activating and deleting end, no process outlives its host.
- *Description.* The host shows what the script says, and has a channel for each
  port, or dies of what it cannot read.

The behaviours a test hardly reaches are listed with their source lines in
`PROJECT.json` under "hazards".

## Modules

| Module | What it is |
|---|---|
| `RoundTrip` | abstract: a relay that hands over a block and delivers one, or misses |
| `AudioExchange` | the audio exchange in steps between locks and waits; implements `RoundTrip` |
| `AudioExchangeProofs` | its theorems |
| `Ring` | positions, slots, and what a full ring holds |
| `RingBuffer` | one ring: contents and indices |
| `MixPipeline` | audio thread, mixer and effect over two rings |
| `RingProofs` | lemmas about wrapping; the theorems of `RingBuffer` and `MixPipeline` |
| `StateStore` | abstract: a state with at-most-once calls that may be given up |
| `RpcChannel` | `rpc_call` against `rpc_thread_func`; implements `StateStore` for one caller |
| `RpcChannelProofs` | its theorems |
| `StatePush` | `update_state_value` to `updateStateValue` |
| `ParameterSync` | parameters between host and plugin process |
| `ValueProofs` | the theorems of `StatePush` and `ParameterSync` |
| `UIParameters` | parameters from the UI process to the host |
| `UISession` | the window: its client, server, process and their ends |
| `UISessionProofs` | the theorems of `UISession` and `UIParameters` |
| `Lifecycle` | a plugin from `activate()` to its destructor, and the process it launches from `main()` to its end |
| `LifecycleProofs` | its theorems |
| `MidiMessages` | MIDI from a script to the host and back: messages, frames, queues, rings |
| `MidiMessagesProofs` | its theorems |
| `PluginInfo` | the description from the script to the host |
| `PluginInfoProofs` | its theorems |
| `MC*` | what TLC runs; constants are in the `.cfg` files |

`AudioExchange` tells how many frames are in which ring and when; `RingBuffer`
tells what a ring with those positions holds; `MixPipeline` follows the frames
through the plugin process, using what `RingBuffer` guarantees (`Latest`, see
theorem `RingReadsNext`). `RpcChannel` and `StatePush` are the two directions of
the same `rpc_call` between the same two processes, over two buffers;
`ParameterSync` uses that `ready` (its `booted`) comes from the threads of `AudioExchange` and
`RpcChannel`. `UISession` is the frame of `UIParameters`: its `process_thread` is the
`poller` there, and its deleted server the `exit_poller`. `Lifecycle` is the frame of
`AudioExchange`, `RpcChannel`, `StatePush` and `ParameterSync` in the same way: its
three threads are theirs, and `lost` is a mutex of theirs whose owner died.
`MidiMessages` carries the messages that `AudioExchange` counts, over rings as
`RingBuffer` describes them (`Latest` of `Ring`).

### AudioExchange

State: the position each ring is written and read to (a stream's frame number, so
that "too late by one block" is a number), the counts `midi_*_event_count`, the
two queues of MIDI events by their length, `num_samples`, `ready`, `exit_thread`,
`is_shutting_down`, and a program counter per thread. A step is the code between
two points where the mutex is taken, released or waited for. The mutex is a
variable only where it is held across steps: the plugin mixes with it. `HostEnter`
is the test of `ready`; `HostHandOver` the body of `run()` up to `timed_wait`;
`HostTimeout`, a notify or `HostSpuriousWakeup` end the wait; `HostDeliver` and
`HostMiss` are the two branches behind it. `PluginLoop`, `PluginMix`, `PluginWait`,
`PluginPass` and `PluginSkip` are one round of `audio_thread_func`. A notify wakes
only a thread that waits. `PluginDie` kills the process at any step, also while it
holds the mutex; the mutex is then never released.

A sample is its position in the stream; channels are alike and one stands for
all. MIDI messages are counted.

### RingBuffer

`buffer[slot]` is the position of the frame in that slot; `write_index`,
`read_index` as in the code; `written` and `read` are the history they are checked
against. Before the first write the slots hold the positions -Size to -1. Blocks
may be longer than the ring.

### MixPipeline

One exchange is one step here (`Pass`), as `AudioExchange` has shown what happens
inside it. `Mix` runs `process_sample` and the effect for `num_samples` frames of
the *previous* run, before the wait, whether the wait then succeeds (`Pass`) or not
(`Skip`). Godot's mixer is external: it passes the frames the stream produced to
the effect unchanged. `has_data` may become true in any mix with a frame that was
written by the host.

### RpcChannel and StatePush

State: `request_id`, which message the buffer holds (one buffer serves request and
reply: `size` says what), `ready`, threads' program counters. Message bodies are
model values; some do not fit (`OversizedValues`, `OversizedReplies`), and
`write_request` then leaves `request_id` set and the message empty, as the code
does. A caller's wait has no predicate; the server's has. The reply is read after
the caller has left the mutex, in a step of its own, through a `reader` made over what
the buffer held when the wait returned. An empty request makes the server's
`getRoot` throw: `Abort` ends the process. The same can happen to the host: if another
caller's message has left the size 0, or that of a shorter message, the reader's
constructor throws inside the lock (`ReaderThrows`) or `getRoot` outside it
(`RootThrows`, only in `get_state_value` and `shutdown`, which look at the reply). Nothing
catches it, so `HostTerminates` ends every caller and may leave the mutex locked. If
`getRoot` does not throw over something else than a whole response, the value is any.
`StatePush` is the other direction with
its own server loop, in which updates are handled when the wait *times out* (the
result is negated in the code) and a wakeup only goes round the loop. Updates are
numbered by history variables.

### ParameterSync and UIParameters

The region is a function from indices to values, read and written atomically one
value at a time. `process()` is a loop of `ReadParameter` and `CompareParameter`
steps, so that the host and scripts get between them. Scripts set a value in two
stores, on any thread; the history variable `raced` says whether one did so while
`process()` was under way, which a script on the main thread cannot. `NoEcho` is
claimed as long as none has: after that `process()` may take a script's new value in
the region for the host's and tell scripts about it. Deferred signals are a queue.
`Count` may exceed `MAX_PARAMS`: such a parameter reads as 0, and so ends as 0,
whatever it is set to. In `UIParameters` the copy of the host thread starts with any
values (it is never initialized), the number of parameters, which `Initialize` takes from
`Counts`, is stored before the values, and the host thread polls meanwhile. Its copy and
the region have `MAX_PARAMS` elements (`Slots`), the loop goes to the number: `PollOverrun`
is its first access behind the array, where the behaviour of the host is undefined and
ends in the model. Names of a module that is proved about
together with another one carry a prefix (`PushNext`, `RingInit`, `ForwardSpec`), so that
one module can extend both.

### UISession

State: the host's UI thread (`ui_pc`, the call it is in), whether there is a client,
the two threads of the server, the two RPC buffers (each the kind of the pending
request, `ready`, and whether a dead process left the mutex locked), and the main and
RPC thread of the UI process. Who holds a mutex needs no variable: nobody keeps one
from one step to the next, unless it dies. `Close` is the branch of
`visibilityChanged` and the destructor up to the shutdown call; `DeleteServer`,
`Join` and `DeleteClient` are the rest. A shutdown call to a process that is not
ready leaves `result` unset, so either value is possible, and a reader over an empty
message throws (`"aborted"`). The shutdown request does nothing in the UI process,
which ends when it is killed. A process that quits waits for its RPC thread in
`finish()`; the destructor that follows locks the mutex of the other buffer, which
the host's thread needs to see that it must end. Memory that is freed is modelled
as fresh, as nobody sees it before the next client has made its own.

### Lifecycle

State: where `activate()` or the destructor is (`host`), the buffers in the segment,
who announced itself (`ready`), where the main thread of the plugin process is
(`child`), its three threads, and what ends it: `exit_thread`, a script's `quit`, a
SIGTERM. `Platforms` are the three branches of the `#if`s of `main.cpp` and
`distrho_shared_memory.cpp`: on Linux the signal of `PR_SET_PDEATHSIG`, which is
about the *thread* that launched the process (`LauncherEnds`), and a test whether the
parent is process 1; on Apple a thread with a kqueue; on Windows nothing. `adopter`
is who gets an orphan: `init`, or on Linux a subreaper, which the test does not
know. `CreateMemory`, `Launch`, `PollAudio` and `PollRpc` are `activate()`; `ShutDown`,
`DeleteServer`, `JoinServer`, `KillChild` and `RemoveMemory` the destructors in their
order. `SetDeathSignal` or `StartWatcher`, `CheckParent`, `ConstructServer`,
`Initialize`, `Finish` and `Unload` are the process. Without the segment its constructor
throws; a buffer that is not in it is a null pointer `initialize()` uses, and the model
ends such a process (`"aborted"`) in `ConstructServer` too. `HandleShutdown` is the handler of the request; that the request may
not be answered is `RpcChannel`'s matter, and here the host goes on in any case.
What the mutexes do is abstracted to one flag: a process that dies with threads
running may have died with a mutex (`lost`).

### MidiMessages

State: the call a script is in, the two queues of the plugin process, the two rings
with what the latest writer left as their count, `process_sample_frame_size`, and who
of the audio thread and the host waits. `Encoded` and `Decoded` are the bytes
`send_midi_event` ... `midi_poly_aftertouch` make and the signal `emit_midi_event` makes
of them, bit by bit as arithmetic; `Meant` is the reference. A call takes the time,
computes the frame (`Stamp`) and queues the event (`Push`) in three steps, as it has
the lock only in the last. The size is read twice and another thread sets it;
`FrameModulus` is the width of the frame, 2^32 in the code and 8 in the run. Time is
counted in frames since the beginning of the round, a time before that is -1. The host
routes what it is given back to the plugin, so that both directions are in one
sequence of events. `mixed` is history: the size the frame was computed from. A queue
longer than the array `midi_output` ends the behaviour (`crashed`), as what follows is
undefined.

### PluginInfo

State: the author's script, the file, the export, and of the host's process what it
read first (`dynamic`), the plugin it has, whether it died. A script is a function
from the methods it has to what they return, so that a missing method, an array with
items that are no parameters and a value that is no array are inputs. `GetJson`,
`Load`, `StateOf` are the three conversions with their defaults, each table of defaults
in the code being one here. The text of the JSON is not modelled: strings, arrays,
objects and the numbers the code reads as what it wrote come back as they are (numbers
that are not finite, or whole ones a float cannot hold, are not inputs). Of an enumeration
value and of a program the kind counts, as `LoadThrows` tells what `load()` throws on by
it. A version is its pieces between the dots, each the number it begins with, if any, and
the rest: `GetVersion` splits (`Tokens`), takes the numbers (`VersionThrows` if there is
none) and packs them. `d_version` belongs to DPF and is not in the repository: it is taken
to put three bytes into one number, and of numbers that are no bytes nothing is assumed
(`Garbled`). Files edited by hand are not modelled.

## Runs

| Run | Instance | What it shows |
|---|---|---|
| `AudioExchange` | 2 runs, blocks of 2 frames, 1 event, 1 message of a script, 1 spurious wakeup, death | `NoReadAhead`, `LockStep`, that the exchange is a `RoundTrip`; `run()` returns, the audio thread ends |
| `RingBuffer` | ring of 4, blocks of 0, 1, 2, 3, 4 and 6 | `HoldsLatest`, `ReadsNext` |
| `MixPipeline` | ring of 6, blocks of 2 | the delay moves by whole rings only and is one of two values; the output settles within one ring |
| `RpcChannel_single` | 1 caller, 4 calls, values that do not fit, death | own replies, aborts only after timeouts, implements `StateStore` |
| `RpcChannel_concurrent` | 2 callers, 2 calls, 1 spurious wakeup, death of either process | requests are handled in order, once, the latest only; as many replies as requests handled; calls return, requests are handled |
| `StatePush` | 3 updates, 1 spurious wakeup, death, teardown | order, no silent loss; the last update arrives, both threads end |
| `ParameterSync` | 2 parameters, 1 stored, 2 host writes, 2 script writes on any thread | defaults before the host, scripts are told, no echo; the copies agree in the end |
| `UIParameters` | 0, 2 or 3 parameters in arrays of 2, 3 writes | forwarded in order, the last one arrives unless there are too many parameters |
| `UISession` | 2 windows, 1 spurious wakeup, a process that quits or dies | nothing outlives its memory, the host dies only by closing early; closing, quitting and calls end |
| `Lifecycle` | 3 platforms, every failure and death | memory outlives its users and is removed, the process finds it, activating and deleting end, no orphan |
| `MidiMessages` | ring of 2, 3 calls of 2 kinds, blocks of 2, 2 frames a round, frames modulo 8 | what is heard was sent; frames fit their block. The assumption `EdgesDecode` compares the messages of every kind and channel with their meaning at the edges of their arguments |
| `PluginInfo` | 7 scripts: none, a full one, an odd one, one whose version is read but not as written, three that make a host abort | the host shows what the script says; channels match ports |

Bounds. Every bound is a constant named in the module (`MaxRuns`, `MaxSends`,
`MaxSpurious`, `MaxCalls`, `MaxUpdates`, `MaxFrames`, `MaxStream`, `MaxHostWrites`,
`MaxScriptWrites`, `MaxWrites`, `MaxSessions`, `MaxElapsed`). Two runs are enough for a
missed run and one that is answered with the missed run's block; two callers with a
call each for a request overwritten before it is handled and its reply taken by the
other; three updates for a batch that goes on after a failed call while a second
batch fills; two windows for a second one to meet what the first left; 26 frames for
more than four turns of the ring after the last effect of the first mixes; three
events for a ring of two to be lapped and an array of two to overflow; no parameters, as
many as an array of two holds and one more; two frames in
a round for a time inside the block, at its end and, with a block not mixed yet, beyond
it. A spurious wakeup is rare; one is enough to show which properties survive it, and
those that do not say `spurious = 0`. `Lifecycle` and `PluginInfo` have no bound but their
inputs: TLC visits all their states. The theorems remove the bounds of every module for its safety properties, and state
the type correctness of every module that has a type invariant (`PluginInfo` has none),
which the runs therefore do not check again.

`CHECK_DEADLOCK FALSE` is set where the system stops for good: the bounds are
reached, both processes have ended, or one died with the mutex. `ParameterSync` and
`UIParameters` poll for ever, an author can always edit in `PluginInfo`, and their deadlock
check is on.

Some properties are limited to what the code gives.

- `OwnReply`, `OnlyTimeoutsAbort` and `ImplementsStateStore` are about one caller: a host
  that calls from two threads can be given the other call's reply, or end with an
  exception when the other call's message does not fit (`RpcChannel_concurrent` checks what
  is left). `CallReturns` therefore lets the host end; that it does not with one caller is
  part of `OwnReply`. `CallReturns` and `RequestHandled` also let a mutex be lost with the
  process that held it.
- A missed run's block stays in the ring for good (`ImplementsRoundTrip`): the code has no
  way to drop it.
- `ActivateEnds` lets `activate()` poll for ever when the process is gone, `DeleteEnds` lets
  the destructor wait for a mutex whose owner died, and `NoOrphan` leaves out Windows and a
  host that died before `main()` read its parent, if that is not process 1.
- `HostCatchesUp` ends when the thread of the host has left its array, which it may only
  with more than `MAX_PARAMS` parameters. Of those, `CopiesAgree` is about the ones the
  region holds.
- `FramesFitBlock` is about blocks of the size that was mixed when the event was made,
  and not of no frames: otherwise an event may be stamped beyond its block, or with the
  largest 32-bit number. `HeardAsSent` ends when a ring is lapped; and a message for
  `send_midi_event` has its channel in its status byte, as `set_channel` has no effect on
  what is sent.
- `HostKnowsScript` is about descriptions written since the last edit, the keys the host is
  given, ports that have a name, and versions of three numbers up to 255 (of others the host
  is told something else: "3beta" as 3, no three parts as 0.0.1). It lets the host die of
  what `load()` and `stoi` throw on, which nothing keeps a script from saying.
  `ChannelsMatchPorts` is about a bundle that is not
  replaced while a process has it open.

### Fairness

- A thread that can run does (weak fairness of its steps). A thread that waits
  always times out: all waits of the code are timed.
- Steps that take the mutex in `AudioExchange` are strongly fair: the plugin's
  audio thread takes it again and again, and the operating system is assumed not to
  starve the host for ever. In `RpcChannel` and `StatePush` weak fairness is
  enough.
- `ParameterSync`: Godot's main thread runs, and makes the deferred calls it has
  every frame; `UIParameters`: both threads run.
- `UISession`: every thread runs; the UI process ends by itself only if it quits.
- `Lifecycle`: every thread runs and a SIGTERM that was sent arrives. The host is not
  obliged to activate or delete, a script not to quit, nothing to fail.
- None for hosts that call, scripts that set values, spurious wakeups, shutdown or
  death: nothing obliges them to happen.

## Theorems

All theorems are about the specifications without fairness, and hold for all values
of the constants that satisfy the named assumptions of the modules: any number of
callers, updates, parameters, windows, frames, any block and ring sizes. Every safety
property, action property and refinement that a run checks has its theorem.

| Theorem | States |
|---|---|
| `AudioExchangeProofs!TypeCorrect` | type correctness |
| `AudioExchangeProofs!NeverReadsAhead` | `NoReadAhead` |
| `AudioExchangeProofs!StaysInLockStep` | `LockStep` |
| `AudioExchangeProofs!LatencyIsMissedRuns` | `LatencyAccounted` |
| `AudioExchangeProofs!IsRoundTrip` | `ImplementsRoundTrip` |
| `RingProofs!RingTypeCorrect`, `RingHoldsLatest`, `RingReadsNext` | `RingTypeOK`, `HoldsLatest`, `ReadsNext` |
| `RingProofs!PipelineTypeCorrect`, `PipelineDelay` | `TypeOK`, `DelayIsWholeRings` of `MixPipeline` |
| `RingProofs!PipelineDelayExact`, `PipelineSettles` | `DelayIsExact`, `Settles` |
| `RpcChannelProofs!RpcTypeCorrect`, `RpcHandledInOrder`, `RpcRepliesAccounted` | `TypeOK`, `HandledInOrder`, `RepliesAccounted` |
| `RpcChannelProofs!RpcOwnReply`, `RpcOnlyTimeoutsAbort` | `OwnReply`, `OnlyTimeoutsAbort` |
| `RpcChannelProofs!RpcIsStateStore` | `ImplementsStateStore`, for one caller and no spurious wakeups |
| `ValueProofs!PushTypeCorrect`, `PushDeliveredInOrder`, `PushNoSilentLoss` | `PushTypeOK`, `DeliveredInOrder`, `NoSilentLoss` |
| `ValueProofs!SyncTypeCorrect`, `SyncDefaultsBeforeHost`, `SyncScriptsAreTold`, `SyncNoEcho` | `TypeOK`, `DefaultsBeforeHost`, `ScriptsAreTold`, `NoEcho` of `ParameterSync` |
| `UISessionProofs!ForwardTypeCorrect`, `ForwardStaysInArray`, `ForwardsInOrder`, `ForwardStaysSilent` | `ForwardTypeOK`, `OnlyTooManyOverrun`, `ForwardedInOrder`, `ProcessIsSilent` of `UIParameters` |
| `UISessionProofs!SessionTypeCorrect`, `NothingOutlives`, `AbortsOnlyEarly` | `TypeOK`, `NothingOutlivesItsMemory`, `OnlyEarlyCloseAborts` |
| `LifecycleProofs!LifecycleTypeCorrect`, `MemoryOutlives`, `ProcessFindsMemory` | `TypeOK`, `MemoryOutlivesItsUsers`, `OpensItsMemory` |
| `MidiMessagesProofs!DecodesWhatIsEncoded` | `Decoded(Encoded(call)) = Meant(call)` for every call with arguments MIDI allows |
| `MidiMessagesProofs!MidiTypeCorrect`, `FramesFit`, `MessagesArrive` | `TypeOK`, `FramesFitBlock`, `HeardAsSent` |
| `PluginInfoProofs!HostKnows`, `ChannelsMatch` | `HostKnowsScript`, `ChannelsMatchPorts` |

*Audio exchange.* `NoReadAhead` is not inductive: it does not say why the plugin
finds a block when it is woken. `ReadInv` adds that: without a spurious wakeup a
woken plugin has at least `num_samples` frames and the announced events to read,
and a woken host has an answer. `LockStepInv` says, for each state of `run()`, which
ring the block is in while no run was missed. The refinement is proved step by
step: each action is a step of `RoundTrip` or leaves its variables alone;
`LatencyIsMissedRuns` then follows from `RoundTrip`'s own invariant through the
mapping.

*Rings.* `RingInv` is `HoldsLatest` with the fact that the indices are the
positions modulo the ring. A write of a block that may exceed the ring needs that
the last frame to reach a slot is within one ring of the end (`LastExists`); a read
needs that wrapping commutes with addition (`SlotShift`) and that two positions
less than a ring apart share no slot (`SlotUnique`).

*Mix pipeline.* `PipelineInv` says that both channels are read and written in step
but for the frames the effect dropped (`InStep`), that the effect dropped frames
only before it wrote any (`NothingHeard`), and that what it wrote sits in the slot
it came from, moved by what was dropped (`SourceAligned`). The delay modulo the
ring follows for every answer. That is why timeouts and the mixes they add cannot
shift the plugin by part of a block.

`DelayIsExact` and `Settles` are about one block size of which the ring holds whole
blocks, and need to know which ring a frame is from. `ExactInv` says so: every position
is a whole number of blocks (`WholeBlocks`); a block was written from the latest ring of
frames of the host, and no more blocks came since than were written (`SourceBounds`),
which leaves two whole rings for the delay (`DelayRounds`). Since the latest timeout the
channels moved together, so that each block written then is from where the one before
it was, one block on (`SteadySource`), and so is the latest answer (`SteadyOutput`). A
ring of frames after the timeout a read reaches only such blocks, and two reads in a row
find frames one block apart.

*RPC channel.* For any number of callers, `CallsInv` says that what can be handled is the
call written last and was not handled before; requests are then handled in order, once.
`AccountInv` adds that the callers who have a reply to read are finitely many, so that
they can be counted with the replies and the requests handled. The other three are about
a lone caller (`Single`). `ReplyInv`: without a spurious wakeup a reply it was notified of
stays in the buffer, it is its own, and so its reader does not throw (`NothingThrows`). `CleanInv`: until a call fails the buffer is empty
between two calls, so only a timeout can leave the server a request it cannot read; this
needs `StateFits`, that a value too long for a message is never stored. `EffectInv` relates
the buffer to the call: a request that can be handled is the caller's, and a reply is for
a request that was handled and brings the state that is still there. The refinement maps a
call that failed to one that may still take effect until the next is made. Its
hypotheses (a caller, only one, `MaxSpurious = 0`) are those under which the run checks
it: `RpcChannel_concurrent` has other callers and spurious wakeups, and there the caller
may indeed be given another's reply, or a reply too early.

*State push.* Updates carry their number. `OrderInv` says that the queue is younger than
the batch, the batch than the request in the buffer, and that than what was delivered,
except that the first of the batch may be the request. `KeepsAll` says of every update
that it is in the queue, in the batch, delivered, or its call failed; it needs `AnswerInv`:
the notify that ends a call comes after the request was delivered, which fails after a
spurious wakeup, as the wait has no predicate.

*Parameters.* `BootInv` follows the defaults from the loop that writes them to the flags
the host waits for. `ToldInv` says that what `process()` took over last is what the last
deferred call about it will tell, or what was told; it needs nothing of the interleaving,
and so `ScriptsAreTold` holds with scripts on any thread. `EchoInv` says that the region
differs from the copy only where the host wrote or a script is between its two stores,
and that a value just read is from the host if it differs; it holds until a script's
thread meets `process()`.

*Forwarding.* That the values told are values written, in their order, is an existential
statement; `ForwardInv` carries its witness: an increasing map from what was told to what
was written (`Embeds`), below the place from which the value now under comparison was
read. That nothing is told twice follows from the comparison with the last value told.
`ForwardStaysSilent` shows that the copy of `process()` in the UI process always equals
the region as far as that goes: its signal `parameter_changed` is emitted only of a
parameter the region does not hold, which reads as 0. `ForwardStaysInArray` is what the
loop up to the stored number gives: the thread leaves its array if the script has more
parameters than that, and the run shows that it then does; nothing in the code limits the
number.

*UI session.* `OwnerInv` adds to `NothingOutlivesItsMemory` that the UI thread is past
opening only while there is a client, and that both joins are behind it when it
deletes the client. `ReplyInv` adds to `OnlyEarlyCloseAborts` that a UI thread that
was woken without a spurious wakeup has a reply to read.

*Lifecycle.* The invariant says at each point of the host whether there is a process,
that it can only be running while the segment is whole or the host is dead, and that
threads run only between `Initialize` and `Finish`, with the segment mapped.

*MIDI.* The messages are arithmetic: a status byte is its kind plus a channel below 16,
and a bend is put together from the seven-bit halves it was taken apart into. For the
frames the invariant says of every event, in the call, the queues, the rings and the
run, that its frame is below the size it was computed from, if there was one. For the
order `FlowInv` says of each place an event passes (queue, ring, run, ring, queue, signal)
that its events are those of the place before, from the first on, as long as no ring was
lapped; a reader then finds what it was told to read (`ReadInOrder`), and missed runs
only leave events where they are.

*Description.* The invariant says that every file is the JSON of some script, and that
what a process has read it has read of some bundle, of the one there is if that was not
replaced. The rest is about functions: that `load()` finds what `get_json()` wrote, key by
key, that without a file the defaults of both ends agree, that a version of three bytes
is found again in the number they are packed into, and that what makes `load()` or
`get_version()` throw is in the script.

## Only model-checked

Liveness and everything about fairness are outside what the prover handles and stay
with TLC: `RunReturns`, `ThreadEnds`, `CallReturns`, `RequestHandled`, `LastArrives`,
`ThreadsEnd`, `CopiesAgree`, `HostCatchesUp`, `CloseEnds`, `ChildGetsOn`, `ActivateEnds`,
`DeleteEnds`, `NoOrphan`. So they hold on the instances of the runs only. The
`EdgesDecode` assumption of `MidiMessages` is evaluated by TLC at the edges of the
arguments; `DecodesWhatIsEncoded` proves it for all of them.

## Not modelled

- What requests between the host and the UI process do (notes, states, signals):
  `UISession` has their kinds only.
- Memory errors. Three that the inputs decide are listed as hazards: `temp_buffer`, which is
  as long as no host may ask for; the array of `distrho_plugin_server.cpp:203`
  (`MidiMessages` has the overflow, as `crashed`) and that of
  `godot_distrho_ui_server.h:29` (`UIParameters` has it, as `"overrun"`). What follows after
  one of them is not modelled. Two more are neither modelled nor hazards of the list: the
  text `get_state_value` returns (`godot_distrho_plugin_client.cpp:140`) lies in the buffer
  the next message overwrites, which the caller has to copy before; and `finish()`
  (`distrho_plugin_server.cpp:679`) joins threads that are not made if `initialize()` never
  ran.
- A launch of the UI process that fails: `UISession` opens windows whose process starts,
  though it may die at once. What a call to a buffer that is not ready leaves in `result`
  is any value in `UISession`, where it is looked at, and counts as failed in `StatePush`,
  where nobody looks at it.
- `distrho_launcher.cpp` and `distrho_config.cpp`: they read a file and load the scene it
  names, once.
- The properties, signals and bindings that Godot's classes declare, setters and getters,
  and what a header only declares. They are a good part of the lines; with the
  embedded image (`godot_distrho_images.cpp`, 7834 of the 14066 lines) they hold no
  behaviour, which is why the map covers a small share of all lines.
- Cap'n Proto, boost::interprocess, Godot and DPF are external and modelled by how
  the code uses them. Shared memory naming, build files and what the export scripts do
  besides copying the description have no behaviour worth a model.

## Where code, comments and behaviour differ

Met while modelling; none is claimed by a comment or a test strongly enough to be a
finding of its own, and the properties above say what holds instead.

- `GodotDistrhoPluginServer::rpc_thread_func` handles an update when its wait *timed out*
  and skips it when it was notified: updates arrive, up to one timeout late
  (`StatePush`).
- `get_state_value` answers from a map that starts empty: the defaults of the description
  are shown by a host before `activate()` and not after it.
- `initAudioPort` takes the group of a port only if it has a name; the hints of a port and
  the short name of a parameter are written to the description and not read by the host.
- `distrho_parameter.cpp:25` has it that the enumeration is a `<String, float>`, still to
  be validated; `load()` reads its values as `int`, and one that is no whole number makes
  the host's process throw. So does a program that is not a string.
- A version is any string; three parts of which one begins with no number make the host's
  process throw, and other parts than bytes are not told as written.
- `send_midi_event` sends the status byte as it is: an event that is echoed as
  `distrho_plugin.gd` does it, with the channel apart, comes back on channel 0.
- `setParameterValue()`, `setState()` and `loadProgram()` before `activate()` do nothing.
- Nothing notices an export of a description older than the script, and nothing
  removes the segment of a host that died.
- The number of frames of the first block after a change is the old one for the mix, so
  the events of that round are stamped for a block of the old size.

## Plan

Done, in order: `AudioExchange`, `RingBuffer`, `RpcChannel`, `StatePush`,
`MixPipeline`, `ParameterSync`, `UIParameters`, `UISession`, `Lifecycle`, `MidiMessages`,
`PluginInfo`, with the theorems above.

Next, in order:

1. `ParameterLoop`: `UIParameters` composed with `ParameterSync` through the host: a
   value set in the UI, by automation and by a script at the same time.
2. Safety cores of the liveness properties that can be proved without fairness: that a
   state in which an end is awaited is never one where no step is left (`NoOrphan`,
   `CloseEnds`), stated without ENABLED.
