# Models of plugin-srccpy

TLA+ modules for the Android capture source of OBS (`src/src`), the TLC
configurations that check them on small instances, and TLAPS proofs of every safety
property among them. Every definition is translated from the code; the `map` of
`PROJECT.json` names the lines.

## The system

A capture source (`scrcpy`, one per OBS source) turns settings into *sessions*.
A session starts a server process on the device over adb, opens three sockets to
it (video, audio, control), decodes the streams and hands frames to OBS. Whoever
stops a session must not wait for it, so it is *retired*: a reaper thread of its
own tears it down, and a process-wide registry joins that thread later.

| Component | State it keeps | Operations | Talks to |
|---|---|---|---|
| Capture source, owner (`srccpy.cpp`, `capture_session.cpp:525`) | active and retiring session, submitted and pending settings, visibility, wanted audio | `update`, `video_tick`, show, hide, destructor | session: create, start, retire, collect, control messages |
| Update plan (`session_update.cpp:99`) | none | `sc_make_update_plan` | called by `update` |
| Session lifecycle (`session_update.cpp:3`) | state, fault bits, generation, all atomics | `begin_session`, `mark_running`, `report_fault`, `begin_stop`, `finish_*` | called by every thread of the session |
| Capture session (`capture_session.cpp`) | retirement flags under a mutex, `*_started_`, threads | `create`, `start`, `request_retire`, `run_reaper`, server/stream callbacks, `send_control_msg` | server, demuxers, controller, registry |
| Registry (`capture_session.cpp:11`) | table of sessions, accepting flag, manager thread | `adopt`, `notify`, `run`, `shutdown` | reapers notify it; create and module unload call it |
| Server worker (`server.cpp`) | stop flag, interrupt token, tunnel, sockets, device process | `server_start`, `request_stop`, `server_stop`, `run_server`, `close_sockets` | adb, the observer, session callbacks |
| Process observer (`sc_process.cpp:9`) | terminated flag, listener | `run_observer`, timed wait, RAII exit | worker, `on_server_disconnected` |
| Controller (`controller.cpp`) | socket, stop flag, mutex | init, start, push, request_stop, stop, join | senders, receiver thread |
| Input and error messages (`srccpy.cpp:474`, `control_msg.cpp`) | `usb_debug_enable`, queue of error messages, size of the picture | `send_mouse_*`, `send_key_click`, `handle_error_message` | interaction window, controller, tick |
| Demuxer, sinks, timing (`codec/`) | codec context, sinks, clock mapping | `run_demuxer`, sink open/push/close/disable, `video_to_obs`, `audio_to_obs` | OBS output |
| Pairing dialog and task (`ui/`) | timer, one adb process and its pipe, completion | start, cancel, poll; buttons, message boxes | adb, the source's settings |
| Device query (`device_query.cpp`) | deadline, token, list of devices | run, cancel | adb commands, the source's list |
| adb, net, process, thread, intr (`adb/`, `util/`) | handles | wrappers | operating system |

What is hard here: a dozen threads share a session and none of them owns it;
`start()` blocks the graphics thread while the session may already be retired;
faults are reported without a lock against stores that do not compare; sockets
are freed by one thread and used raw by five; blocking calls end only through an
interrupt that must not be missed; notifications without a mutex; settings that
change while the previous session is still going away.

Properties that make each part correct: the hazards of `PROJECT.json` list them,
each at its line.

## Modules

| Module | Models | Checked by | Proved in |
|---|---|---|---|
| `CaptureSession` | one session with all its threads | `CaptureSession.cfg`, `CaptureSessionLive.cfg` | `CaptureSession_proofs` |
| `SessionContract` | what a session promises its owner | refined by `CaptureSession`, instantiated by `CaptureSource` | `CaptureSession_proofs`, `CaptureSource_proofs` |
| `ServerContract` | what the worker promises its listener | refined by `ServerWorker` | `ServerWorker_proofs` |
| `ServerWorker` | `run_server`, the interrupt token, the observer | `ServerWorker.cfg`, `ServerWorkerCallbacks.cfg`, `ServerWorkerTunnel.cfg` | `ServerWorker_proofs` |
| `SessionRegistry` | the registry with several sessions | `SessionRegistry.cfg` | `SessionRegistry_proofs` |
| `CaptureSource` | a source, its owner and its sessions | `CaptureSource.cfg` | `CaptureSource_proofs` |
| `ControlChannel` | input events, error messages and the flag they clear | `ControlChannel.cfg` | `ControlChannel_proofs` |
| `MediaStream` | a demuxer thread with merger, sink and output | `MediaStream.cfg` | `Media_proofs` |
| `SessionTiming` | the clock mapping two decoder threads share | `SessionTiming.cfg` | `Media_proofs` |
| `DeviceQuery` | a query with every adb command it runs | `DeviceQuery.cfg` | `DeviceQuery_proofs` |
| `PairingTask` | the pairing dialog and the task behind it | `PairingTask.cfg` | `PairingTask_proofs` |

Each `MC` module extends the module it is named after; the `.cfg` gives the
constants their values.

The modules open one another's abstractions: `CaptureSource` sees a session as
its lifecycle state, which is `SessionContract`; `SessionRegistry` sees it as creator
and reaper;
`CaptureSession` opens the session and treats the work of `run_server` as two
steps, *prepare* and *connect*; `ServerWorker` opens those two. A stream thread
of `CaptureSession` only reads until it ends; `MediaStream` opens it, and
`SessionTiming` gives its frames their times. `ControlChannel` takes from a
session its state and its two ends of the control socket. A command that
`ServerWorker` and `PairingTask` start in one step is opened in `DeviceQuery`.
Definitions named `X_Something` after `Variant:` are plausible bugs of `X`; they
are in no specification and show that a property would notice the bug.

### CaptureSession

`state` and `faults` are the atomics of `sc_session_lifecycle`. A report is
modelled access by access (`step`, `seen`): load, set bit, compare-exchange,
reload. `starter` is the program counter of `start()`, `reaper` that of
`run_reaper()`, and so on; a step is what a thread does between two points at
which another thread can tell the difference. `RetirementLocked` and
`ControllerLocked` stand for the two mutexes where they are held across steps.
A socket is `none`, `open`, `shut` (interrupted) or `freed`. `sc_server_params.control`
is always true (`srccpy.cpp:101`), and the audio socket is always opened
(`server.cpp:388`).

Abstractions: messages, packets and device information carry no content; a
session has one generation, so the generation test of the lifecycle passes; the
wait of one second for the device process to leave by itself may end at once;
`Failing` says which things may go wrong by themselves.

`SessionContract` is what is left when only `healthy()`, `faulted()`, `retired()`,
`retired_failed()` and `audio_receiver_ended()` are looked at: `Health` maps the
atomics to one of five words, `KeepsContract` is the refinement, checked by TLC and
proved as `Refinement`. A request counts from the moment it is recorded and not
from `begin_stop()`: between the two `retirement_mutex_` is held, and a report or
`mark_running()` may still change the state that the store then covers.

### ServerWorker

Program counter of `run_server()`; every blocking call registers a resource
with the token (`sc_intr`), blocks, is released, and the next call is chosen as
in the code: disconnect and tcpip, push, reverse or forward with port retries,
delay, spawn, observer, accept or dial with attempts, the first byte, device
information. Constants bound ports and attempts, which are 17 (27183..27199) and
100 in the code. One resource is in the token at a time. Whether the observer's
thread can be created is a constant.

`mapped` is what adb has in force: 0 for the reverse mapping, which is named by the
device socket, and a port for a forward one. An adb command's process is started
before the token is asked, so one that is cancelled, or cannot be waited for, may
have done its work although the worker takes it for failed (`MayMap`). adb may also
fail to remove a mapping (`Unmaps`). `stray` is history: the mappings of such
commands. `NothingLeftBehind` says that no other mapping outlives the worker.

`ServerContract` is the callback protocol that `CaptureSession` relies on;
`KeepsContract` is the refinement, checked by TLC with the mapping of
`Contract == INSTANCE ServerContract WITH ...` and proved as `Refinement`.

### SessionRegistry

One creator, reaper and owner per session. The manager's wait is split into the
test of its condition and falling asleep, because `notify()` (line 33) does not
take the mutex: a notification in between is lost. `missed` remembers that.
`adopt()` may refuse at any time: the table is full or closed, the manager thread
cannot be created, or, once it has been, memory for the entry cannot be had.
The owner may collect or simply drop a session. Sessions are numbered in the
order they are created, which loses no behaviour.

### CaptureSource

OBS runs `update`, `video_tick`, show and hide of a source one after another on
the graphics thread (it defers updates of video sources to the tick), so a
handler never meets another one; the constructor's update comes before the first
tick. A handler is split at each look at the session: fault, retirement, plan,
each message. In between the session may fault, retire or deliver a frame, and its
audio may end at any time before it has retired. `device` is what the device has
been told: video source, whether video is paused, which audio it sends. The effect
of the two messages on the device is external: switching the video source may or
may not resume a paused video, pausing and resuming do what they say.
`asked`, `updates` and `refused` are history.

Abstractions: settings are device, video source and audio (the other fields
only make two video settings differ); `usb_debug_enable` and error messages are in
`ControlChannel`; the last size and the parsed device information change nothing
else and are left out; `apply_capture_config` only prepares what `start_session`
passes on.

### MediaStream

Program counter `stream` of `run_demuxer()`, through its opening, its packet loop
and its three labels at the end, and then the destructor of the packet source.
A packet is told by the configuration of the device under which it was encoded
(`version`), whether it is a configuration, and what the merger put before it
(`prefix`). `announced` is the configuration the device encodes with, `decoder`
the one the decoder has; both are external. `CloseOutput` is
`sc_session_output::close()` on whatever thread retires the session; `late` is
history. The status of `on_ended` is only logged and left out, as are frames in
formats OBS does not know: they are dropped without effect here. `disable()` of
the one kind of sink does nothing, so that the destructor's `close()` after it is
harmless, although `packet_sink.h:28` rules it out; it has no action.

### SessionTiming

One number for device times and host times. The constants are the limits of
`session_timing.h`; the bounds cap the clock and the device times. A thread reads
the host clock before it calls (`packet_sink.cpp:194`), and the other one may map a
frame in between. `epoch = 0` stands for the anchor that is not yet valid. The two
mappings are the code's, term by term, drift, headroom and smoothing included.

Abstractions: saturation at the ends of 64 bits is left out (a host clock of
nanoseconds is far from both); the host clock starts beyond the discontinuity
limit, as the uptime of the machine does; a thread's clock readings differ from
frame to frame. A video frame in a format OBS does not know is mapped all the same,
and its reset of the timeline is lost with it (`packet_sink.cpp:307`): not modelled.

### DeviceQuery

`query` is the place in `sc_device_query::run()` and in the command it runs:
create a pipe, mark it, allocate the attribute list, create the process, read
until the end, close, wait, settle. Every system call may fail, and `handles` is
what is open. `Look`, `ReadBytes` and `NoBytes` are the rounds of
`sc_pipe_read_all_intr_until()`; the token is `interrupted` by `cancel()` or by the
deadline. `Waited` is a wait that ends by the exit or by the deadline, `WaitFails`
one that the system refuses, which may happen but is never owed. Output is `nothing`, `something` or `too_much`. Two parsers are relations:
any list with any of its devices ready, or refused; an answer accepted or refused.

Abstractions: `cancel()` is called by nobody but `run()` itself
(`device_query.cpp:137`); the model lets it come at any time, as its interface
offers. `sc_adb_init` cannot fail on Windows and is left out. `pushed_serials_`
is written and not read.

### PairingTask

Dialog and task live on one thread. Their handlers run to the end or to a message
box, which runs its own event loop; the child process, the clock and OBS go on
meanwhile, so that `poll()` is three steps: drain the pipe, look at the process,
give up. Output is pieces, each the words that mean success or others, and `Cap`
stands for 64 KiB: the text that is kept and what one poll reads. `really` and
`report` are history: what the device did and what the user was told.

What the properties name as exceptions is what the code does: words written between
the drain (lines 87-100) and the look at the exit (line 101) are lost, so that a
pairing that succeeded may be denied, and the same holds when it is given up as
the process ends, or when the words lie beyond the text kept (`TellsTruth`); a
source that goes during a run cancels it without a word, and the button stays
disabled (`ButtonTells`).

Abstractions: the dialog is modal and on the stack of `wifi_button_click()`, so it
is not destroyed by its parent; waiting on a process handle does not fail; the
addresses are those that have the format, and the code of the pairing is one of
the fields `Refuse` refuses.

### ControlChannel

Four threads: OBS's interaction window, the graphics thread, the receiver and the
video stream. `session` is the state of the session; `healthy` and `broken`
differ only in whether the connection still works, which the code cannot see. An
error message is the refusal to inject input or another one; the queue of eight
drops its oldest (`dropped` remembers when that was a refusal). `usb_debug_enable`
is set after `start()` has returned (`srccpy.cpp:353`), while the receiver may
already have queued a refusal. It is cleared by `stop_session()`, in the same step
that retires the session (`StopSession`: an update, a fault found by the tick, a
message that could not be sent, a start that failed), and by a refusal that the tick
takes from the queue.

A mouse event is handled in three steps, because its width and its height are
two looks at what the video thread stores one after the other: `turned` says that
the picture changed meanwhile. A key event reads nothing that changes and is one
step. Two keys may share a code (both Shift keys have the same virtual key),
and a key may come with a text. `typed`, `stuck` and `lifted` follow the user's keys
to name the two cases in which the device and the keyboard disagree: a key pressed
as a key and released as a text stays down, and one of two keys of one code
releases both.

Abstractions: width and height of a picture are one number, 0 for no picture and
for the 1080x1920 sent in its place; positions, pressure, scroll amounts and
metastate are copied field by field; the interaction window's warning only shows
the flag. The destruction of the source and the unloading of the module retire a session
without `stop_session()`; nobody reads the flag of a source that has gone, and both
are left out. `request_device_info()` and the messages nobody sends are left out.

## Runs

| Run | Instance | States | Shows |
|---|---|---|---|
| `capture_session` | one outside retirer, one sender, everything may fail | 2.9 million | sockets outlive their users, a retired session is silent, a healthy one complete, the lifecycle only moves forward, refinement of `SessionContract` |
| `capture_session_live` | one retirer, one sender that may block, the device process may die | 558 thousand | retirement completes and `start()` returns, unless it hangs in `adb start-server` |
| `server_worker` | 3 ports, 3 attempts, the observer thread may be impossible | 77 thousand | interrupts, cleanup, refinement of `ServerContract`, a stop or a death ends the worker |
| `server_worker_callbacks` | 1 port, 1 attempt | violated | the documented callback rule does not hold |
| `server_worker_tunnel` | 1 port, 1 attempt | violated | the tunnel is left open on one path |
| `session_registry` | 3 sessions, 2 slots | 399 thousand | no join twice, none in a destructor, unload is safe and returns, slots come back |
| `media_stream` | 3 configurations | 1 thousand | no freed decoder, no lost configuration, one late frame |
| `session_timing` | clock up to 7, device times up to 4 or invalid, limits of 1 and 2 | 1.6 million | frames dated near their arrival, both streams go forward |
| `device_query` | 2 devices | 109 thousand | nothing left open, the token holds live processes, the verdict is true, a query ends |
| `pairing_task` | 2 addresses, 3 pieces of output, 2 kept | 549 thousand | nothing outlives a run, the button comes back, what is said and saved is true |
| `control_channel` | 2 buttons, 2 keys of one code, a queue of 2, 1 size, 2 sessions, texts of 4 characters | 5 million | the device holds what the user holds, messages are sound, the flag tells |
| `capture_source` | 2 devices, 3 updates | 1 million | one session at a time, streams match, the newest settings win |

`CHECK_DEADLOCK FALSE` stands where the model ends by a bound or by the thread's
end: `MediaStream` and `SessionTiming`. Types are theorems and no run checks them.

Why the bounds are enough. A second retirer or sender adds no new kind of step:
`request_retire()` only acts the first time and `start()` is itself a second
caller of it, and senders exclude one another; the proofs cover every number.
Three attempts give a first, a middle and a last one. Three sessions for two
slots let two be collected together while a third is refused, or be refused and
then placed. Three updates are needed to replace settings that already wait. Three
configurations let one wait, be replaced before any media, and be followed by
another. A clock of seven lets each stream lose the anchor and take it up again.
Two devices are one before and one after a failure. Three pieces of which two are
kept let the words come first, last, or beyond what is kept. Two keys of one
code, a queue that overflows at the third message, a size besides the unknown one
and a session after the first are the least that reach each exception; the rest
is covered by the proofs, for every number.

Violations. `server_worker_callbacks`: the comment of `server.hpp:19` says that if
`on_connection_failed` is called, `on_disconnected` never is. In the trace the worker
has given the connection up when the device process ends; its observer calls
`on_disconnected`, is joined, and the worker calls `on_connection_failed` (the session
copes, as `CaptureSession` shows). That `on_disconnected` comes before any connection
contradicts `server.hpp:34` in the same trace. `server_worker_tunnel`: `server.cpp:570` says the tunnel
is closed at once on failure; when the observer thread cannot be created the
exception path does not close it.

Found on the way, each an exception that a property names. An `adb reverse` or
`adb forward` that a stop cancels may have taken effect, and nobody removes the
mapping (`adb_tunnel.cpp:38`, `:107`), although the comments at `adb_tunnel.cpp:63` and
`server.cpp:685` mean owned mappings to be removed even under cancellation
(`NothingLeftBehind`). `start()`, and with it the graphics thread, waits without limit
for `adb start-server` (`server.cpp:121`; `StartReturns`, `RetirementCompletes`). A
notification of the registry can be lost and then `shutdown()` may wait for ever
(`OnlyTheGapLosesWork`); settings that wait for a retirement are stranded when an
update with refused settings collects it (`PendingIsServed` excepts that case);
the last frame stays on screen when a successor session cannot be created or
an update without a device collects the retired one; a successful pairing may be
denied (`TellsTruth`); keys may stay down on the device (`InputMatches`) and a
pointer message may carry a torn size (`MessageIsSound`).

## Fairness

* Threads that can move are scheduled (weak fairness per thread). A blocking
  call on a socket or in adb is *not* fair until its token or socket has been
  interrupted: the network and the device owe nothing.
* `start()` waits at most 30 seconds for the connection, so that wait is fair. Before
  it, `server_init()` runs `adb start-server` with no deadline and under a token that
  nobody interrupts during `start()` (`server.cpp:121`, `process_intr.cpp:112`): that
  command owes no end, the step that ends it has no fairness, and `RetirementCompletes`
  and `StartReturns` except a `start()` that hangs there (`AwaitsAdb`).
* adb commands of the cleanup, which use a token of their own
  (`server.cpp:688`, `adb_tunnel.cpp:65`), are assumed to end.
* Nobody is obliged to retire, unload, collect, send or die.
* OBS keeps ticking a source (`CaptureSource`), and a retirement that was
  requested completes there and in `SessionRegistry`, as does `start()`:
  `RetirementCompletes` and `StartReturns`, for sessions that do not hang in
  `adb start-server`.
* `WorkIsDone` is stated under `[]~missed`.
* `DeviceQuery`: the thread in `run()` is scheduled and the deadline passes; no
  command owes an exit, and the system no failure of a wait: the deadline alone ends
  what hangs, in `Look` and in `Waited`. `PairingTask`: the timer of 25 ms fires and the timeout
  passes; neither the user nor the child owes a step.

## Proofs

All of them hold for every value of the constants that the modules' assumptions
allow, and rest on nothing else. None of the safety properties is inductive; each
proof module strengthens them to an invariant made of named parts, shows per
part that every step keeps it, one proof step per action, and then derives the
properties.

* `CaptureSession_proofs`: `Typing`, `Invariance` of `SessionInv`. That no socket is
  freed under a reader follows from which joins the reaper has passed, and that
  from who can still create a thread. The parts: `StartupInv` (threads are created
  once, and teardown begins only after `start()` has left), `ConnectionInv` (the
  signal stands for published sockets), `BorrowInv` (who may be in a socket call),
  `JoinInv` (what each join has established), `ReportInv` (a report is in flight
  only inside its callback, and saw a state a fault may replace), `StateInv`
  (lifecycle states against program counters) and `DeathInv` (someone is about to
  notice that the device process is gone). From them `BorrowSafety`, `Quiescence`,
  `NoRunSafety`, `Completeness`, `FaultSafety`, and the action property `Ordering`.
  `Refinement` is `Spec => KeepsContract`, thread by thread (`StarterKeeps` to
  `AudioKeeps`): most steps leave `Health` alone, and those that do not are one
  action of `SessionContract`. It needs the invariant for the steps that store
  without comparing, `begin_stop()` and `finish_*()`, and for the reports in flight.
* `CaptureSource_proofs`: `SourceInv`, true also half-way through a handler. `OwnerInv`
  says which session the owner holds at each place of a handler, and which it may
  still collect; `CountInv` counts sessions against accepted updates, with a credit
  while a handler is between the update and the session it will start;
  `SettingsInv` follows settings from asked to pending, submitted and given up, and
  what the plan of an update was made from; `StreamInv` says what the device has been
  told after each message of a batch; `PictureInv` says whose frame may be shown.
  From it `OneSession`, `Streams`, `Newest`, `NoPicture`, for any number of updates,
  configurations and sessions, and `Typing`.
  `SessionsKeepContract` and `SourceAllowsSessions` join this module to
  `CaptureSession`. Every session of the source is a `SessionContract`, so the source
  assumes nothing of a session that `Refinement` does not give; and whatever a
  `SessionContract` may do by itself (fault, lose its audio, retire) the source
  allows at any moment, so it leaves out no behaviour of a real session. The
  requests, and `mark_running()` as `start()` returns, are the source's own steps.
* `ServerWorker_proofs`: `WorkerInv` says whom the token holds at each place
  (`TokenInv`), what is known of process and observer (`ProcessInv`), what is open
  of tunnel and sockets (`LinkInv`), that every mapping in force is stray or one the
  worker will yet remove (`MappingInv`), and which callbacks have been made (`CallsInv`).
  From it `InterruptSafety`, `TokenSafety`, `CleanupSafety`, and `Refinement`:
  `Spec => KeepsContract`, every step of the worker is a step of `ServerContract`
  or leaves its variables alone. Initial states and steps map; the contract has no
  fairness of its own.
* `SessionRegistry_proofs`: `RegistryInv` counts joins against places in the table
  (`JoinInv`), says what the manager and the closed table know (`TableInv`), and
  who will wake the manager (`WakeInv`); cardinalities come from the library's
  theorems on finite sets. `JoinSafety`, `UnloadSafety`, `WakeSafety`.
* `Media_proofs`, the demuxer thread: `ContextInv` (where the sink may point, where the context
  lives), `MergeInv` (a configuration the decoder lacks is the one that waits or
  the one in hand), `LateInv` (a late call had passed its look). `ContextSafety`,
  `ConfigSafety`, `LateSafety`.
* `Media_proofs`, the clock mapping: readings lie between the last arrival and the clock, and
  the last picture lies within the drift of the anchor it was mapped by
  (`OnClock`). The arithmetic is in lemmas of its own (`CorrectionBound`,
  `FollowedBound`, `HeadroomBound`, `MappedFrame`). `ReachSafety`, and the action property
  `Smoothness`.
* `DeviceQuery_proofs`: `OpenInv`, `TokenInv`, `LoopInv`; `OpenSafety`,
  `TokenSafety`, `VerdictSafety`.
* `PairingTask_proofs`: `RunInv` (who is at work), `TruthInv` (what is known of the
  device while it is); `RunSafety`, `ButtonSafety`, `TruthSafety`, and the action
  property `SaveSafety`.
* `ControlChannel_proofs`: `GraphicsInv`, `InputInv`, `LookInv` and `FlagTells`
  itself; `InputSafety`, `PointerSafety`, `FlagSafety`. `Truncation` proves
  `TextIsWhole` for every text, character sizes and limit the constants allow:
  offsets are the partial sums of the sizes (`PartialSums`, `OffsetSums`) and the cut is
  the largest that fits (`TruncationCuts`). The induction is the least-number
  principle `NatMinimum`, got from the library's theorem on well-founded relations,
  which asks for no operator parameter. With it, `MessageSafety`.

Only model-checked: liveness (`RetirementCompletes`, `StartReturns`, `WorkerEnds`,
`WorkIsDone`, `PendingIsServed`, `QueryEnds`, `PairingEnds`), because fairness and
`ENABLED` are out of the prover's reach, and the two violations. Every other
property of a run is a theorem.

## Not modelled

Pixel formats, colour spaces, byte layout of control messages, adb argument and
output strings, property lists, logging, key tables: pure data or layout, no
shared state. Handle reuse by the operating system after `net_interrupt`. The
operating system wrappers beyond what their callers see, except for the creation of
processes. The request for device information over the control socket
(`capture_session.cpp:423`) and `sc_control_msg_is_droppable()`, which nothing
calls.

## Plan

Written, in this order: `CaptureSession`, its proofs, `ServerContract` and
`ServerWorker`, `SessionRegistry`, `CaptureSource`, `MediaStream`, `SessionTiming`,
`DeviceQuery`, `PairingTask`, `ControlChannel`, the proofs of each, and
`SessionContract` between a session and its source. What would come next:

1. That `SessionRegistry` and `ControlChannel` see a session as `SessionContract`
   does: the one its reaper, the other its state.
2. The safety half of the liveness properties: measures that every step of a
   retirement, of a worker and of a query decreases.
3. Reuse of handle numbers, which `BorrowersHoldLiveSockets` and `TokenHoldsLive`
   leave to the wrapper objects.
