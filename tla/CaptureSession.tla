--------------------------- MODULE CaptureSession ---------------------------
(***************************************************************************)
(* One sc_capture_session (capture_session.cpp): the threads that share it *)
(* from the constructor to the moment the registry may drop it.            *)
(*                                                                         *)
(*   starter   the graphics thread inside start(), capture_session.cpp:234 *)
(*   retirer   threads that call request_retire() from outside start()     *)
(*   sender    threads inside send_control_msg()                           *)
(*   reaper    run_reaper(), capture_session.cpp:355                       *)
(*   worker    sc_server::run_server(), server.cpp:535                     *)
(*   observer  run_observer(), sc_process.cpp:9                            *)
(*   video, audio   run_demuxer(), demuxer.cpp:144                         *)
(*   receiver  run_recv_thread(), controller.cpp:61                        *)
(*                                                                         *)
(* A step is what a thread does between two points at which another thread *)
(* can see a difference.  sc_session_lifecycle is lock free, so every load *)
(* and compare-exchange of report_fault() is a step of its own.            *)
(***************************************************************************)
CONSTANTS
  Retirers,   \* outside callers of request_retire(): owner, module unload
  Senders,    \* threads that push control messages
  Failing     \* what may go wrong by itself: see Failures

(* A stream that ends although nobody interrupted it; the device process    *)
(* dying; adb not answering; a thread that cannot be created; a device that *)
(* does not connect or sends no information about itself.                   *)
Failures == {"video", "audio", "receiver", "process", "adb", "thread", "connect"}

ASSUME FailingAssumption == Failing \subseteq Failures

Sockets   == {"video", "audio", "control"}
Reporters == {"starter", "worker", "observer", "video", "receiver"}
States    == {"starting", "running", "faulted", "stopping", "idle", "failed"}
Faults    == {"SERVER", "VIDEO", "CONTROLLER"}

VARIABLES
  \* sc_session_lifecycle
  state, faults,
  \* report_fault() in flight, per reporting thread
  step, seen,
  \* retirement, under retirement_mutex_
  startup_in_progress, retire_requested, retire_failed, retired,
  \* sc_server: connect signal, m_stopped, m_intr, the device-side process,
  \* and whether the observer still has a listener
  signal, stopped, interrupted, process, listening,
  \* published sockets, and the controller's view of the control socket
  sock, ctl_stopped, ctl_socket,
  \* the *_started_ flags, audio_ended_ and sc_session_output::accepting_
  started, audio_ended, accepting,
  \* program counters
  starter, reaper, worker, observer, video, audio, receiver, retirer, sender

lifecycle  == <<state, faults>>
reports    == <<step, seen>>
retirement == <<startup_in_progress, retire_requested, retire_failed, retired>>
server     == <<signal, stopped, interrupted, process, listening>>
sockets    == <<sock, ctl_stopped, ctl_socket>>
consumers  == <<started, audio_ended, accepting>>
callers    == <<retirer, sender>>
streams    == <<video, audio, receiver>>
vars == <<lifecycle, reports, retirement, server, sockets, consumers,
          starter, reaper, worker, observer, streams, callers>>

FlagsTyped ==
  /\ startup_in_progress \in BOOLEAN /\ retire_requested \in BOOLEAN
  /\ retire_failed \in BOOLEAN /\ retired \in BOOLEAN
  /\ stopped \in BOOLEAN /\ interrupted \in BOOLEAN /\ listening \in BOOLEAN
  /\ ctl_stopped \in BOOLEAN /\ ctl_socket \in BOOLEAN
  /\ audio_ended \in BOOLEAN /\ accepting \in BOOLEAN

PlacesTyped ==
  /\ state \in States
  /\ faults \in SUBSET Faults
  /\ step \in [Reporters -> {"idle", "load", "mark", "swap", "note", "done"}]
  /\ seen \in [Reporters -> States]
  /\ signal \in {"pending", "up", "down"}
  /\ process \in {"none", "running", "exited"}
  /\ sock \in [Sockets -> {"none", "open", "shut", "freed"}]
  /\ started \in SUBSET {"video", "audio", "controller_initialized", "controller"}
  /\ starter \in {"enter", "init", "report", "spawn", "await", "cancelled",
                  "faulted", "video", "audio", "control", "receive", "verify",
                  "mark", "close", "lock", "begin_stop", "finish", "returned"}
  /\ reaper \in {"wait", "stop_control", "stop_server", "join_server",
                 "shut_sockets", "join_receiver", "clear_control",
                 "join_video", "join_audio", "close", "flags", "verdict",
                 "fail", "clear_faults", "idle", "publish", "done"}
  /\ worker \in {"off", "prepare", "connect", "publish", "connected", "wait",
                 "shut", "linger", "unobserve", "join", "unobserve_failed",
                 "join_failed", "failing", "report", "ended"}
  /\ observer \in {"off", "watch", "interrupt", "signal", "report", "stop", "ended"}
  /\ video \in {"off", "recv", "report", "ended"}
  /\ audio \in {"off", "recv", "ended"}
  /\ receiver \in {"off", "recv", "report", "ended"}
  /\ retirer \in [Retirers -> {"idle", "lock", "begin_stop", "done"}]
  /\ sender \in [Senders -> {"idle", "check", "lock", "send"}]

TypeOK == FlagsTyped /\ PlacesTyped

(* retirement_mutex_ is held across steps only inside request_retire(). *)
RetirementLocked ==
  \/ starter = "begin_stop"
  \/ \E r \in Retirers : retirer[r] = "begin_stop"

(* controller.mutex is held across steps only around a blocking send. *)
ControllerLocked == \E s \in Senders : sender[s] = "send"

(* ServerConnectSignal::try_complete: only the first completion counts. *)
Complete(value) == signal' = IF signal = "pending" THEN value ELSE signal

\* Variant: the control socket is left open.
Interrupt_NotControl(S) ==
  sock' = [s \in Sockets |-> IF s \in S \ {"control"} /\ sock[s] = "open" THEN "shut" ELSE sock[s]]

(* net_interrupt on every published socket of the set S. *)
Interrupt(S) ==
  sock' = [s \in Sockets |-> IF s \in S /\ sock[s] = "open" THEN "shut" ELSE sock[s]]

-----------------------------------------------------------------------------
(* The constructor ran begin_session(), create() started the reaper and the *)
(* registry adopted the session.                                            *)
Init ==
  /\ state = "starting" /\ faults = {}
  /\ step = [t \in Reporters |-> "idle"]
  /\ seen = [t \in Reporters |-> "idle"]
  /\ startup_in_progress = FALSE /\ retire_requested = FALSE
  /\ retire_failed = FALSE /\ retired = FALSE
  /\ signal = "pending" /\ stopped = FALSE /\ interrupted = FALSE
  /\ process = "none" /\ listening = FALSE
  /\ sock = [s \in Sockets |-> "none"]
  /\ ctl_stopped = TRUE /\ ctl_socket = FALSE
  /\ started = {} /\ audio_ended = FALSE /\ accepting = TRUE
  /\ starter = "enter" /\ reaper = "wait" /\ worker = "off" /\ observer = "off"
  /\ video = "off" /\ audio = "off" /\ receiver = "off"
  /\ retirer = [r \in Retirers |-> "idle"]
  /\ sender = [s \in Senders |-> "idle"]

-----------------------------------------------------------------------------
(* sc_session_lifecycle::report_fault, one atomic access per step.  A      *)
(* session has one generation, so the generation test always passes.  A    *)
(* failed compare-exchange reloads the state and takes the branch again.   *)

FaultOf(t) == CASE t = "video"    -> "VIDEO"
                [] t = "receiver" -> "CONTROLLER"
                [] OTHER          -> "SERVER"

\* Variant: the state is swapped before the fault bit is set.
Branch_SwapFirst(s) == CASE s \in {"starting", "running"} -> "swap"
                         [] s = "faulted"                 -> "note"
                         [] OTHER                         -> "done"

Branch(s) == CASE s \in {"starting", "running"} -> "mark"
               [] s = "faulted"                 -> "note"
               [] OTHER                         -> "done"

BeginReport(t) == step' = [step EXCEPT ![t] = "load"] /\ UNCHANGED seen
EndReport(t) ==
  /\ step[t] = "done"
  /\ step' = [step EXCEPT ![t] = "idle"]
  /\ seen' = [seen EXCEPT ![t] = "idle"]

Reload(t) ==
  /\ seen' = [seen EXCEPT ![t] = state]
  /\ step' = [step EXCEPT ![t] = Branch(state)]

ReportLoad(t) ==
  /\ step[t] = "load"
  /\ Reload(t)
  /\ UNCHANGED lifecycle

ReportMark(t) ==
  /\ step[t] \in {"mark", "note"}
  /\ faults' = faults \cup {FaultOf(t)}
  /\ step' = [step EXCEPT ![t] = IF @ = "mark" THEN "swap" ELSE "done"]
  /\ UNCHANGED <<state, seen>>

\* Variant: the state is stored whatever it has become since it was loaded.
ReportSwap_Store(t) ==
  /\ step[t] = "swap"
  /\ state' = "faulted"
  /\ step' = [step EXCEPT ![t] = "done"]
  /\ UNCHANGED <<faults, seen>>

ReportSwap(t) ==
  /\ step[t] = "swap"
  /\ \/ /\ state = seen[t]
        /\ state' = "faulted"
        /\ step' = [step EXCEPT ![t] = "done"]
        /\ UNCHANGED seen
     \/ /\ state # seen[t]
        /\ Reload(t)
        /\ UNCHANGED state
  /\ UNCHANGED faults

Report(t) ==
  /\ ReportLoad(t) \/ ReportMark(t) \/ ReportSwap(t)
  /\ UNCHANGED <<retirement, server, sockets, consumers, starter, reaper,
                 worker, observer, streams, callers>>

-----------------------------------------------------------------------------
(* start(), capture_session.cpp:234.                                        *)

StarterUnchanged == UNCHANGED <<reaper, worker, observer, callers>>

StartEnter ==
  /\ starter = "enter" /\ ~RetirementLocked
  /\ IF retire_requested
     THEN starter' = "returned" /\ UNCHANGED startup_in_progress
     ELSE starter' = "init" /\ startup_in_progress' = TRUE
  /\ UNCHANGED <<retire_requested, retire_failed, retired, lifecycle, reports,
                 server, sockets, consumers, streams>>
  /\ StarterUnchanged

(* server_init() may fail to reach adb: it then calls on_connection_failed  *)
(* itself, on this thread.  It waits for "adb start-server" without a       *)
(* deadline (process_intr.cpp:112), and nobody interrupts that wait:        *)
(* request_stop() comes from the reaper, which waits for start() to leave.  *)
StartServerInit ==
  /\ starter = "init"
  /\ \/ starter' = "spawn" /\ UNCHANGED <<signal, reports>>
     \/ "adb" \in Failing /\ starter' = "report" /\ Complete("down") /\ BeginReport("starter")
  /\ UNCHANGED <<lifecycle, retirement, stopped, interrupted, process,
                 listening, sockets, consumers, streams>>
  /\ StarterUnchanged

StartServerInitFailed ==
  /\ starter = "report"
  /\ EndReport("starter")
  /\ starter' = "close"
  /\ UNCHANGED <<lifecycle, retirement, server, sockets, consumers, streams>>
  /\ StarterUnchanged

(* server_start() re-arms the stop flag, the interrupt token and the connect *)
(* signal; creating the worker thread can fail.                              *)
StartServer ==
  /\ starter = "spawn"
  /\ signal' = "pending" /\ stopped' = FALSE /\ interrupted' = FALSE
  /\ \/ starter' = "await" /\ worker' = "prepare"
     \/ "thread" \in Failing /\ starter' = "close" /\ UNCHANGED worker
  /\ UNCHANGED <<lifecycle, reports, retirement, process, listening, sockets,
                 consumers, streams, reaper, observer, callers>>

\* Variant: wait for the signal without a limit.
StartAwait_NoTimeout ==
  /\ starter = "await" /\ signal # "pending"
  /\ starter' = IF signal = "up" THEN "cancelled" ELSE "close"
  /\ UNCHANGED <<lifecycle, reports, retirement, server, sockets, consumers, streams>>
  /\ StarterUnchanged

(* await_connection(): the signal, or 30 seconds without one.               *)
StartAwait ==
  /\ starter = "await"
  /\ starter' = IF signal = "up" THEN "cancelled" ELSE "close"
  /\ UNCHANGED <<lifecycle, reports, retirement, server, sockets, consumers, streams>>
  /\ StarterUnchanged

StartNotCancelled ==
  /\ starter = "cancelled" /\ ~RetirementLocked
  /\ starter' = IF retire_requested THEN "close" ELSE "faulted"
  /\ UNCHANGED <<lifecycle, reports, retirement, server, sockets, consumers, streams>>
  /\ StarterUnchanged

StartNotFaulted ==
  /\ starter = "faulted"
  /\ starter' = IF state = "faulted" THEN "close" ELSE "video"
  /\ UNCHANGED <<lifecycle, reports, retirement, server, sockets, consumers, streams>>
  /\ StarterUnchanged

StartVideo ==
  /\ starter = "video"
  /\ \/ /\ starter' = "audio" /\ video' = "recv"
        /\ started' = started \cup {"video"}
     \/ "thread" \in Failing /\ starter' = "close" /\ UNCHANGED <<video, started>>
  /\ UNCHANGED <<lifecycle, reports, retirement, server, sockets, audio_ended,
                 accepting, audio, receiver>>
  /\ StarterUnchanged

(* A session without an audio stream counts as one whose audio has ended.   *)
StartAudio ==
  /\ starter = "audio"
  /\ starter' = "control"
  /\ \/ /\ sock["audio"] # "none"
        /\ audio' = "recv"
        /\ UNCHANGED audio_ended
     \/ /\ sock["audio"] = "none" \/ "thread" \in Failing
        /\ audio_ended' = TRUE
        /\ UNCHANGED audio
  /\ UNCHANGED <<lifecycle, reports, retirement, server, sockets, started,
                 accepting, video, receiver>>
  /\ StarterUnchanged

(* sc_controller_init().                                                    *)
StartController ==
  /\ starter = "control" /\ ~ControllerLocked
  /\ starter' = "receive"
  /\ ctl_socket' = TRUE /\ ctl_stopped' = FALSE
  /\ started' = started \cup {"controller_initialized"}
  /\ UNCHANGED <<lifecycle, reports, retirement, server, sock, audio_ended,
                 accepting, streams>>
  /\ StarterUnchanged

(* sc_controller_start() clears the stop flag a second time.                *)
StartReceiver ==
  /\ starter = "receive"
  /\ \/ /\ starter' = "verify" /\ receiver' = "recv"
        /\ ctl_stopped' = FALSE
        /\ started' = started \cup {"controller"}
     \/ /\ "thread" \in Failing
        /\ starter' = "close" /\ ctl_stopped' = TRUE
        /\ UNCHANGED <<receiver, started>>
  /\ UNCHANGED <<lifecycle, reports, retirement, server, sock, ctl_socket,
                 audio_ended, accepting, video, audio>>
  /\ StarterUnchanged

StartVerify ==
  /\ starter = "verify" /\ ~RetirementLocked
  /\ starter' = IF retire_requested THEN "close" ELSE "mark"
  /\ UNCHANGED <<lifecycle, reports, retirement, server, sockets, consumers, streams>>
  /\ StarterUnchanged

\* Variant: a plain store instead of the compare-exchange.
StartMarkRunning_Store ==
  /\ starter = "mark"
  /\ state' = "running" /\ starter' = "finish"
  /\ UNCHANGED <<faults, reports, retirement, server, sockets, consumers, streams>>
  /\ StarterUnchanged

(* mark_running(): only a session that is still starting becomes running.   *)
StartMarkRunning ==
  /\ starter = "mark"
  /\ IF state = "starting"
     THEN state' = "running" /\ starter' = "finish"
     ELSE starter' = "close" /\ UNCHANGED state
  /\ UNCHANGED <<faults, reports, retirement, server, sockets, consumers, streams>>
  /\ StarterUnchanged

(* finish_startup(), run by StartupGuard on every path out of start().      *)
StartFinish ==
  /\ starter = "finish" /\ ~RetirementLocked
  /\ starter' = "returned"
  /\ startup_in_progress' = FALSE
  /\ UNCHANGED <<retire_requested, retire_failed, retired, lifecycle, reports,
                 server, sockets, consumers, streams>>
  /\ StarterUnchanged

-----------------------------------------------------------------------------
(* request_retire(), capture_session.cpp:338, in three parts: close the     *)
(* output and the controller; record the request; begin_stop().  The last   *)
(* two run under retirement_mutex_, but mark_running() does not take it.    *)

CloseOutput ==
  /\ accepting' = FALSE
  /\ ctl_stopped' = TRUE
  /\ UNCHANGED <<started, audio_ended, sock, ctl_socket>>

\* Variant: the last request decides whether the session failed.
RecordRequest_Last(failed) ==
  /\ retire_failed' = failed
  /\ retire_requested' = TRUE
  /\ UNCHANGED <<startup_in_progress, retired>>

RecordRequest(failed) ==
  /\ retire_failed' = (retire_failed \/ failed)
  /\ retire_requested' = TRUE
  /\ UNCHANGED <<startup_in_progress, retired>>

StarterClose ==
  /\ starter = "close"
  /\ CloseOutput
  /\ starter' = "lock"
  /\ UNCHANGED <<lifecycle, reports, retirement, server, streams>>
  /\ StarterUnchanged

StarterRequest ==
  /\ starter = "lock" /\ ~RetirementLocked
  /\ RecordRequest(TRUE)
  /\ starter' = IF retire_requested THEN "finish" ELSE "begin_stop"
  /\ UNCHANGED <<lifecycle, reports, server, sockets, consumers, streams>>
  /\ StarterUnchanged

StarterBeginStop ==
  /\ starter = "begin_stop"
  /\ state' = "stopping"
  /\ starter' = "finish"
  /\ UNCHANGED <<faults, reports, retirement, server, sockets, consumers, streams>>
  /\ StarterUnchanged

RetirerUnchanged ==
  UNCHANGED <<starter, reaper, worker, observer, streams, sender>>

RetirerClose(r) ==
  /\ retirer[r] = "idle"
  /\ CloseOutput
  /\ retirer' = [retirer EXCEPT ![r] = "lock"]
  /\ UNCHANGED <<lifecycle, reports, retirement, server>>
  /\ RetirerUnchanged

RetirerRequest(r) ==
  /\ retirer[r] = "lock" /\ ~RetirementLocked
  /\ \E failed \in BOOLEAN : RecordRequest(failed)
  /\ retirer' = [retirer EXCEPT ![r] = IF retire_requested THEN "done" ELSE "begin_stop"]
  /\ UNCHANGED <<lifecycle, reports, server, sockets, consumers>>
  /\ RetirerUnchanged

RetirerBeginStop(r) ==
  /\ retirer[r] = "begin_stop"
  /\ state' = "stopping"
  /\ retirer' = [retirer EXCEPT ![r] = "done"]
  /\ UNCHANGED <<faults, reports, retirement, server, sockets, consumers>>
  /\ RetirerUnchanged

-----------------------------------------------------------------------------
(* send_control_msg() and sc_controller_push_msg(): healthy(), the first    *)
(* test of the stop flag, the test under the mutex, and a send that blocks  *)
(* while the peer does not read.                                            *)

SenderUnchanged ==
  UNCHANGED <<lifecycle, reports, retirement, server, sockets, consumers,
              starter, reaper, worker, observer, streams, retirer>>

SenderHealthy(s) ==
  /\ sender[s] = "idle" /\ state = "running"
  /\ sender' = [sender EXCEPT ![s] = "check"]
  /\ SenderUnchanged

SenderCheck(s) ==
  /\ sender[s] = "check"
  /\ sender' = [sender EXCEPT ![s] = IF ctl_stopped THEN "idle" ELSE "lock"]
  /\ SenderUnchanged

SenderLock(s) ==
  /\ sender[s] = "lock" /\ ~ControllerLocked
  /\ sender' = [sender EXCEPT ![s] = IF ctl_stopped \/ ~ctl_socket THEN "idle" ELSE "send"]
  /\ SenderUnchanged

SenderSent(s) ==
  /\ sender[s] = "send"
  /\ sender' = [sender EXCEPT ![s] = "idle"]
  /\ SenderUnchanged

-----------------------------------------------------------------------------
(* run_server(), server.cpp:535.  "prepare" is everything before the device *)
(* process exists (tcpip, push, tunnel, delay); "connect" opens sockets the *)
(* worker still owns alone; ServerWorker.tla opens both.                    *)

WorkerUnchanged ==
  UNCHANGED <<retirement, consumers, starter, reaper, streams, callers>>

WorkerPrepareFail ==
  /\ worker = "prepare" /\ (Failing \cap {"adb", "thread"} # {} \/ interrupted)
  /\ worker' = "failing"
  /\ UNCHANGED <<lifecycle, reports, server, sockets, observer>>
  /\ WorkerUnchanged

\* Variant: the process is watched without a listener.
WorkerSpawn_NoListener ==
  /\ worker = "prepare"
  /\ worker' = "connect" /\ observer' = "watch"
  /\ process' = "running" /\ listening' = FALSE
  /\ UNCHANGED <<lifecycle, reports, signal, stopped, interrupted, sockets>>
  /\ WorkerUnchanged

WorkerSpawn ==
  /\ worker = "prepare"
  /\ worker' = "connect" /\ observer' = "watch"
  /\ process' = "running" /\ listening' = TRUE
  /\ UNCHANGED <<lifecycle, reports, signal, stopped, interrupted, sockets>>
  /\ WorkerUnchanged

(* device_read_info() is the last read and looks at the interrupt token.    *)
WorkerConnect ==
  /\ worker = "connect" /\ ~interrupted
  /\ worker' = "publish"
  /\ UNCHANGED <<lifecycle, reports, server, sockets, observer>>
  /\ WorkerUnchanged

WorkerConnectFail ==
  /\ worker = "connect" /\ ("connect" \in Failing \/ interrupted)
  /\ worker' = "unobserve_failed"
  /\ UNCHANGED <<lifecycle, reports, server, sockets, observer>>
  /\ WorkerUnchanged

(* An interrupt that comes just after the last read succeeded has already   *)
(* shut the video socket, which the token still held.                       *)
WorkerPublish ==
  /\ worker = "publish"
  /\ \E v \in {"open"} \cup (IF interrupted THEN {"shut"} ELSE {}) :
       sock' = [s \in Sockets |-> IF s = "video" THEN v ELSE "open"]
  /\ worker' = "connected"
  /\ UNCHANGED <<lifecycle, reports, server, ctl_stopped, ctl_socket, observer>>
  /\ WorkerUnchanged

(* on_server_connected().                                                   *)
WorkerConnected ==
  /\ worker = "connected"
  /\ Complete("up")
  /\ worker' = "wait"
  /\ UNCHANGED <<lifecycle, reports, stopped, interrupted, process, listening,
                 sockets, observer>>
  /\ WorkerUnchanged

WorkerWake ==
  /\ worker = "wait" /\ stopped
  /\ worker' = "shut"
  /\ UNCHANGED <<lifecycle, reports, server, sockets, observer>>
  /\ WorkerUnchanged

WorkerShut ==
  /\ worker = "shut"
  /\ Interrupt(Sockets)
  /\ worker' = "linger"
  /\ UNCHANGED <<lifecycle, reports, server, ctl_stopped, ctl_socket, observer>>
  /\ WorkerUnchanged

(* One second for the device process to leave by itself, then it is killed. *)
WorkerLinger ==
  /\ worker = "linger"
  /\ process' = "exited"
  /\ worker' = "unobserve"
  /\ UNCHANGED <<lifecycle, reports, signal, stopped, interrupted, listening,
                 sockets, observer>>
  /\ WorkerUnchanged

(* ~process_observer_raii: drop the listener, kill the process, join.       *)
WorkerUnobserve ==
  /\ worker \in {"unobserve", "unobserve_failed"}
  /\ listening' = FALSE /\ process' = "exited"
  /\ worker' = IF worker = "unobserve" THEN "join" ELSE "join_failed"
  /\ UNCHANGED <<lifecycle, reports, signal, stopped, interrupted, sockets, observer>>
  /\ WorkerUnchanged

\* Variant: the observer thread is not joined.
WorkerJoinObserver_Detach ==
  /\ worker \in {"join", "join_failed"}
  /\ worker' = IF worker = "join" THEN "ended" ELSE "failing"
  /\ UNCHANGED <<lifecycle, reports, server, sockets, observer>>
  /\ WorkerUnchanged

WorkerJoinObserver ==
  /\ worker \in {"join", "join_failed"} /\ observer = "ended"
  /\ worker' = IF worker = "join" THEN "ended" ELSE "failing"
  /\ UNCHANGED <<lifecycle, reports, server, sockets, observer>>
  /\ WorkerUnchanged

(* on_server_connection_failed().                                           *)
WorkerFailing ==
  /\ worker = "failing"
  /\ Complete("down") /\ BeginReport("worker")
  /\ worker' = "report"
  /\ UNCHANGED <<lifecycle, stopped, interrupted, process, listening, sockets, observer>>
  /\ WorkerUnchanged

WorkerFailed ==
  /\ worker = "report"
  /\ EndReport("worker")
  /\ worker' = "ended"
  /\ UNCHANGED <<lifecycle, server, sockets, observer>>
  /\ WorkerUnchanged

(* The device process may die at any time.                                  *)
ProcessExit ==
  /\ "process" \in Failing /\ process = "running"
  /\ process' = "exited"
  /\ UNCHANGED <<lifecycle, reports, signal, stopped, interrupted, listening,
                 sockets, worker, observer>>
  /\ WorkerUnchanged

-----------------------------------------------------------------------------
(* run_observer() and the on_terminated listener: interrupt the worker's    *)
(* I/O, then on_server_disconnected().                                      *)

ObserverUnchanged ==
  UNCHANGED <<retirement, sockets, consumers, starter, reaper, worker, streams, callers>>

ObserverNotice ==
  /\ observer = "watch" /\ process = "exited"
  /\ observer' = IF listening THEN "interrupt" ELSE "ended"
  /\ UNCHANGED <<lifecycle, reports, server>>
  /\ ObserverUnchanged

ObserverInterrupt ==
  /\ observer = "interrupt"
  /\ interrupted' = TRUE
  /\ observer' = "signal"
  /\ UNCHANGED <<lifecycle, reports, signal, stopped, process, listening>>
  /\ ObserverUnchanged

ObserverDisconnected ==
  /\ observer = "signal"
  /\ Complete("down") /\ BeginReport("observer")
  /\ observer' = "report"
  /\ UNCHANGED <<lifecycle, stopped, interrupted, process, listening>>
  /\ ObserverUnchanged

ObserverReported ==
  /\ observer = "report"
  /\ EndReport("observer")
  /\ observer' = "stop"
  /\ UNCHANGED <<lifecycle, server>>
  /\ ObserverUnchanged

(* on_server_disconnected() ends with server.request_stop().                *)
ObserverStop ==
  /\ observer = "stop"
  /\ stopped' = TRUE /\ interrupted' = TRUE
  /\ observer' = "ended"
  /\ UNCHANGED <<lifecycle, reports, signal, process, listening>>
  /\ ObserverUnchanged

-----------------------------------------------------------------------------
(* The three stream threads: each reads its socket until the stream ends,   *)
(* fails or is interrupted, and calls on_ended exactly once.                *)

StreamUnchanged ==
  UNCHANGED <<lifecycle, retirement, server, sockets, started, accepting,
              starter, reaper, worker, observer, callers>>

VideoEnd ==
  /\ video = "recv" /\ ("video" \in Failing \/ sock["video"] = "shut")
  /\ video' = "report" /\ BeginReport("video")
  /\ UNCHANGED <<audio_ended, audio, receiver>>
  /\ StreamUnchanged

VideoEnded ==
  /\ video = "report"
  /\ EndReport("video")
  /\ video' = "ended"
  /\ UNCHANGED <<audio_ended, audio, receiver>>
  /\ StreamUnchanged

(* Losing audio does not fault the session: on_audio_ended() only notes it. *)
AudioEnd ==
  /\ audio = "recv" /\ ("audio" \in Failing \/ sock["audio"] = "shut")
  /\ audio' = "ended" /\ audio_ended' = TRUE
  /\ UNCHANGED <<reports, video, receiver>>
  /\ StreamUnchanged

(* The receiver also leaves its loop when it finds the stop flag set: a     *)
(* retirement may so report a controller fault before begin_stop().         *)
ReceiverEnd ==
  /\ receiver = "recv"
  /\ "receiver" \in Failing \/ sock["control"] = "shut" \/ ctl_stopped
  /\ receiver' = "report" /\ BeginReport("receiver")
  /\ UNCHANGED <<audio_ended, video, audio>>
  /\ StreamUnchanged

ReceiverEnded ==
  /\ receiver = "report"
  /\ EndReport("receiver")
  /\ receiver' = "ended"
  /\ UNCHANGED <<audio_ended, video, audio>>
  /\ StreamUnchanged

-----------------------------------------------------------------------------
(* run_reaper(), capture_session.cpp:355.  Nothing is torn down while       *)
(* start() is on its way; then every thread is stopped and joined, and only *)
(* then are the sockets released.                                           *)

ReaperUnchanged ==
  UNCHANGED <<reports, startup_in_progress, retire_requested, retire_failed,
              signal, process, listening, audio_ended, accepting, starter,
              worker, observer, streams, callers>>

ReaperWake ==
  /\ reaper = "wait" /\ ~RetirementLocked
  /\ retire_requested /\ ~startup_in_progress
  /\ reaper' = "stop_control"
  /\ UNCHANGED <<lifecycle, retired, stopped, interrupted, sockets, started>>
  /\ ReaperUnchanged

(* sc_controller_stop().                                                    *)
ReaperStopController ==
  /\ reaper = "stop_control"
  /\ ctl_stopped' = TRUE
  /\ Interrupt(IF ctl_socket THEN {"control"} ELSE {})
  /\ reaper' = "stop_server"
  /\ UNCHANGED <<lifecycle, retired, stopped, interrupted, ctl_socket, started>>
  /\ ReaperUnchanged

(* server_stop(): request_stop, join the worker, interrupt what it left.    *)
ReaperStopServer ==
  /\ reaper = "stop_server"
  /\ stopped' = TRUE /\ interrupted' = TRUE
  /\ reaper' = "join_server"
  /\ UNCHANGED <<lifecycle, retired, sockets, started>>
  /\ ReaperUnchanged

ReaperJoinServer ==
  /\ reaper = "join_server" /\ worker \in {"off", "ended"}
  /\ reaper' = "shut_sockets"
  /\ UNCHANGED <<lifecycle, retired, stopped, interrupted, sockets, started>>
  /\ ReaperUnchanged

ReaperShutSockets ==
  /\ reaper = "shut_sockets"
  /\ Interrupt(Sockets)
  /\ reaper' = "join_receiver"
  /\ UNCHANGED <<lifecycle, retired, stopped, interrupted, ctl_stopped,
                 ctl_socket, started>>
  /\ ReaperUnchanged

(* sc_controller_join(): the receiver first, then the last sender through   *)
(* the controller mutex.                                                    *)
ReaperJoinReceiver ==
  /\ reaper = "join_receiver" /\ receiver \in {"off", "ended"}
  /\ reaper' = "clear_control"
  /\ UNCHANGED <<lifecycle, retired, stopped, interrupted, sockets, started>>
  /\ ReaperUnchanged

\* Variant: the control socket is dropped without taking the mutex.
ReaperClearControl_NoLock ==
  /\ reaper = "clear_control"
  /\ ctl_socket' = FALSE
  /\ reaper' = "join_video"
  /\ UNCHANGED <<lifecycle, retired, stopped, interrupted, sock, ctl_stopped, started>>
  /\ ReaperUnchanged

ReaperClearControl ==
  /\ reaper = "clear_control" /\ ~ControllerLocked
  /\ ctl_socket' = FALSE
  /\ reaper' = "join_video"
  /\ UNCHANGED <<lifecycle, retired, stopped, interrupted, sock, ctl_stopped, started>>
  /\ ReaperUnchanged

ReaperJoinVideo ==
  /\ reaper = "join_video" /\ video \in {"off", "ended"}
  /\ reaper' = "join_audio"
  /\ UNCHANGED <<lifecycle, retired, stopped, interrupted, sockets, started>>
  /\ ReaperUnchanged

ReaperJoinAudio ==
  /\ reaper = "join_audio" /\ audio \in {"off", "ended"}
  /\ reaper' = "close"
  /\ UNCHANGED <<lifecycle, retired, stopped, interrupted, sockets, started>>
  /\ ReaperUnchanged

(* close_sockets() frees the wrappers of the published sockets.             *)
ReaperCloseSockets ==
  /\ reaper = "close"
  /\ sock' = [s \in Sockets |-> IF sock[s] = "none" THEN "none" ELSE "freed"]
  /\ reaper' = "flags"
  /\ UNCHANGED <<lifecycle, retired, stopped, interrupted, ctl_stopped,
                 ctl_socket, started>>
  /\ ReaperUnchanged

ReaperClearFlags ==
  /\ reaper = "flags"
  /\ started' = {}
  /\ reaper' = "verdict"
  /\ UNCHANGED <<lifecycle, retired, stopped, interrupted, sockets>>
  /\ ReaperUnchanged

ReaperVerdict ==
  /\ reaper = "verdict"
  /\ reaper' = IF retire_failed THEN "fail" ELSE "clear_faults"
  /\ UNCHANGED <<lifecycle, retired, stopped, interrupted, sockets, started>>
  /\ ReaperUnchanged

(* finish_failed() keeps the fault bits.                                    *)
ReaperFail ==
  /\ reaper = "fail"
  /\ state' = "failed"
  /\ reaper' = "publish"
  /\ UNCHANGED <<faults, retired, stopped, interrupted, sockets, started>>
  /\ ReaperUnchanged

(* finish_idle(): clear the faults, then store idle.                        *)
ReaperClearFaults ==
  /\ reaper = "clear_faults"
  /\ faults' = {}
  /\ reaper' = "idle"
  /\ UNCHANGED <<state, retired, stopped, interrupted, sockets, started>>
  /\ ReaperUnchanged

ReaperIdle ==
  /\ reaper = "idle"
  /\ state' = "idle"
  /\ reaper' = "publish"
  /\ UNCHANGED <<faults, retired, stopped, interrupted, sockets, started>>
  /\ ReaperUnchanged

(* retired_, then the registry is notified (SessionRegistry.tla).           *)
ReaperPublish ==
  /\ reaper = "publish"
  /\ retired' = TRUE
  /\ reaper' = "done"
  /\ UNCHANGED <<lifecycle, stopped, interrupted, sockets, started>>
  /\ ReaperUnchanged

-----------------------------------------------------------------------------
StarterNext ==
  \/ StartEnter \/ StartServerInit \/ StartServerInitFailed \/ StartServer
  \/ StartAwait \/ StartNotCancelled \/ StartNotFaulted \/ StartVideo
  \/ StartAudio \/ StartController \/ StartReceiver \/ StartVerify
  \/ StartMarkRunning \/ StartFinish
  \/ StarterClose \/ StarterRequest \/ StarterBeginStop

RetirerContinue(r) == RetirerRequest(r) \/ RetirerBeginStop(r)

SenderContinue(s) == SenderCheck(s) \/ SenderLock(s)

WorkerNext ==
  \/ WorkerPrepareFail \/ WorkerSpawn \/ WorkerConnect \/ WorkerConnectFail
  \/ WorkerPublish \/ WorkerConnected \/ WorkerWake \/ WorkerShut
  \/ WorkerLinger \/ WorkerUnobserve \/ WorkerJoinObserver
  \/ WorkerFailing \/ WorkerFailed

ObserverNext ==
  \/ ObserverNotice \/ ObserverInterrupt \/ ObserverDisconnected
  \/ ObserverReported \/ ObserverStop

ReaperNext ==
  \/ ReaperWake \/ ReaperStopController \/ ReaperStopServer
  \/ ReaperJoinServer \/ ReaperShutSockets \/ ReaperJoinReceiver
  \/ ReaperClearControl \/ ReaperJoinVideo \/ ReaperJoinAudio
  \/ ReaperCloseSockets \/ ReaperClearFlags \/ ReaperVerdict
  \/ ReaperFail \/ ReaperClearFaults \/ ReaperIdle \/ ReaperPublish

(* The only state in which nobody has a step left: the session is retired  *)
(* and every outside caller has returned.                                   *)
Terminated ==
  /\ retired /\ starter = "returned"
  /\ \A r \in Retirers : retirer[r] = "done"
  /\ \A s \in Senders : sender[s] = "idle"
  /\ UNCHANGED vars

Next ==
  \/ StarterNext \/ WorkerNext \/ ObserverNext \/ ReaperNext \/ ProcessExit
  \/ \E t \in Reporters : Report(t)
  \/ \E r \in Retirers : RetirerClose(r) \/ RetirerContinue(r)
  \/ \E s \in Senders : SenderHealthy(s) \/ SenderContinue(s) \/ SenderSent(s)
  \/ VideoEnd \/ VideoEnded \/ AudioEnd \/ ReceiverEnd \/ ReceiverEnded
  \/ Terminated

Spec == Init /\ [][Next]_vars

(* Every thread that can move is scheduled.  What the outside world decides *)
(* is not fair: a request to retire, a new message, the death of the device *)
(* process; blocking I/O returns only once its socket or its token has been *)
(* interrupted; and server_init() returns when adb pleases.                 *)
Fairness ==
  /\ WF_vars((StarterNext /\ starter # "init") \/ Report("starter"))
  /\ WF_vars(ReaperNext)
  /\ WF_vars(ObserverNext \/ Report("observer"))
  /\ WF_vars(\/ WorkerNext /\ (worker \in {"prepare", "connect"} => interrupted)
             \/ Report("worker"))
  /\ \A r \in Retirers : WF_vars(RetirerContinue(r))
  /\ \A s \in Senders :
       WF_vars(SenderContinue(s) \/ (SenderSent(s) /\ sock["control"] = "shut"))
  /\ WF_vars((VideoEnd /\ sock["video"] = "shut") \/ Report("video") \/ VideoEnded)
  /\ WF_vars(AudioEnd /\ sock["audio"] = "shut")
  /\ WF_vars(\/ ReceiverEnd /\ sock["control"] = "shut"
             \/ Report("receiver") \/ ReceiverEnded)

FairSpec == Spec /\ Fairness

-----------------------------------------------------------------------------
Live(s) == sock[s] \in {"open", "shut"}

(* A thread that is inside a socket call holds a published wrapper that     *)
(* nobody has freed: the precondition server.cpp:181 writes on              *)
(* close_sockets(), which no assertion checks.                              *)
BorrowersHoldLiveSockets ==
  /\ video = "recv" => Live("video")
  /\ audio = "recv" => Live("audio")
  /\ receiver = "recv" => Live("control") /\ ctl_socket
  /\ \A s \in Senders : sender[s] = "send" => Live("control") /\ ctl_socket

(* Once retired() is visible the registry drops the session: no thread of   *)
(* it is left that could still call back into it, no fault report is in     *)
(* flight, and every socket has been given back.                            *)
RetiredIsQuiescent ==
  retired =>
    /\ starter \in {"enter", "returned"}
    /\ worker \in {"off", "ended"} /\ observer \in {"off", "ended"}
    /\ video \in {"off", "ended"} /\ audio \in {"off", "ended"}
    /\ receiver \in {"off", "ended"}
    /\ \A t \in Reporters : step[t] = "idle"
    /\ \A s \in Senders : sender[s] # "send"
    /\ \A s \in Sockets : ~Live(s)
    /\ ~ctl_socket

(* No session counts as healthy after its retirement was requested.  The    *)
(* two stores of request_retire() leave a window for mark_running(), closed *)
(* before the mutex is released.                                            *)
NoRunAfterRequest ==
  retire_requested /\ ~RetirementLocked => state \notin {"starting", "running", "faulted"}

(* A running session is complete: the sockets are published and both        *)
(* required consumers have been started.  And it has its device process:    *)
(* once the observer has seen the process leave and returned                *)
(* (sc_process.cpp:9) no session runs on, whoever won the race between      *)
(* on_disconnected and mark_running().                                      *)
RunningIsComplete ==
  state = "running" =>
    /\ {"video", "controller"} \subseteq started
    /\ signal = "up" /\ \A s \in Sockets : Live(s)
    /\ observer # "ended"

(* video_tick() logs and acts on faults(): a faulted state always names a   *)
(* cause, and a session that ended idle carries none, although a report may *)
(* add its bit after the state has moved on.                                *)
FaultsMatchState ==
  /\ state = "faulted" => faults # {}
  /\ state = "idle" => faults = {}

(* The life of a session only moves forward, and after retired() nothing    *)
(* overrides the verdict that the owner collects.                           *)
LifecycleStep ==
  /\ <<state, state'>> \in {<<"starting", "running">>, <<"starting", "faulted">>,
        <<"running", "faulted">>, <<"starting", "stopping">>,
        <<"running", "stopping">>, <<"faulted", "stopping">>,
        <<"stopping", "idle">>, <<"stopping", "failed">>} \/ state' = state
  /\ retired => UNCHANGED <<lifecycle, sock>>

LifecycleOrder == [][LifecycleStep]_vars

(* What the owner sees of the session.  A request counts from the moment it *)
(* is recorded, although mark_running() and report_fault() may still slip   *)
(* in before begin_stop(): retirement_mutex_ is held until then.            *)
Stopping == RetirementLocked \/ state \notin {"starting", "running", "faulted"}
Health == IF retired THEN "retired" ELSE IF Stopping THEN "stopping" ELSE state

Contract == INSTANCE SessionContract WITH
  health <- Health, blamed <- retire_failed, silent <- audio_ended

(* The promise of SessionContract, kept by the threads of the session.      *)
KeepsContract == Contract!Spec

(* start() is in server_init(), where only adb can let it go on.  It is     *)
(* there once, so that below either it stays for ever or this is past.      *)
AwaitsAdb == starter = "init"

(* A requested retirement completes: no cycle of joins, locks and blocked   *)
(* I/O keeps the reaper from the end, but for adb when it does not even     *)
(* start its server (server.cpp:121).                                       *)
RetirementCompletes == retire_requested ~> retired \/ AwaitsAdb

(* start() returns, whether or not the device ever answers, if adb does.    *)
StartReturns == []<>(starter = "returned" \/ AwaitsAdb)

-----------------------------------------------------------------------------
(* The inductive invariant behind the safety properties, proved in          *)
(* CaptureSession_proofs: what each program counter promises the others.    *)

AfterClose         == {"flags", "verdict", "fail", "clear_faults", "idle", "publish", "done"}
AfterJoinAudio     == AfterClose \cup {"close"}
AfterJoinVideo     == AfterJoinAudio \cup {"join_audio"}
AfterClearControl  == AfterJoinVideo \cup {"join_video"}
AfterJoinReceiver  == AfterClearControl \cup {"clear_control"}
AfterJoinServer    == AfterJoinReceiver \cup {"shut_sockets", "join_receiver"}
Unserved  == {"enter", "init", "report", "spawn"}
Connected == {"cancelled", "faulted", "video", "audio", "control", "receive", "verify", "mark"}

(* start() creates each thread once, and teardown begins only when it is    *)
(* out of the way for good.                                                 *)
StartupInv ==
  /\ starter \in Unserved => worker = "off"
  /\ starter \in Unserved \cup {"await", "cancelled", "faulted", "video"} => video = "off"
  /\ starter \in Unserved \cup {"await"} \cup (Connected \ {"verify", "mark"}) => receiver = "off"
  /\ startup_in_progress <=> starter \notin {"enter", "returned"}
  /\ reaper # "wait" =>
       /\ retire_requested /\ ~startup_in_progress
       /\ ~RetirementLocked

(* The connect signal stands for published sockets.                         *)
ConnectionInv ==
  /\ starter \in Connected => signal = "up"
  /\ signal = "up" \/ worker = "connected" => \A s \in Sockets : sock[s] # "none"
  /\ \A s \in Sockets : sock[s] = "freed" => reaper \in AfterClose
  /\ ctl_socket => sock["control"] # "none"

(* Who may be inside a socket call.                                         *)
BorrowInv ==
  /\ video = "recv" => sock["video"] # "none"
  /\ audio = "recv" => sock["audio"] # "none"
  /\ receiver = "recv" => ctl_socket
  /\ \A s \in Senders : sender[s] = "send" => ctl_socket
  /\ starter = "receive" => ctl_socket

(* What each join of the reaper has established.                            *)
JoinInv ==
  /\ reaper \in AfterJoinServer   => worker \in {"off", "ended"}
  /\ reaper \in AfterJoinReceiver => receiver \in {"off", "ended"}
  /\ reaper \in AfterClearControl => ~ctl_socket
  /\ reaper \in AfterJoinVideo    => video \in {"off", "ended"}
  /\ reaper \in AfterJoinAudio    => audio \in {"off", "ended"}
  /\ reaper \in AfterClose        => \A s \in Sockets : ~Live(s)
  /\ retired <=> reaper = "done"
  /\ worker \in {"off", "prepare", "failing", "report", "ended"} => observer \in {"off", "ended"}

(* A report is in flight only while its thread sits in the callback, and    *)
(* what it has seen was a state a fault may replace.                        *)
ReportInv ==
  /\ step["starter"]  # "idle" => starter = "report"
  /\ step["worker"]   # "idle" => worker = "report"
  /\ step["observer"] # "idle" => observer = "report"
  /\ step["video"]    # "idle" => video = "report"
  /\ step["receiver"] # "idle" => receiver = "report"
  /\ \A t \in Reporters :
       /\ step[t] \in {"mark", "swap"} => seen[t] \in {"starting", "running"}
       /\ step[t] = "swap" => faults # {}

(* Which lifecycle states go with which program counters.                   *)
StateInv ==
  /\ NoRunAfterRequest
  /\ state = "running" => starter \in {"finish", "returned"}
  /\ starter \in {"audio", "control", "receive", "verify", "mark"} => "video" \in started
  /\ starter \in {"verify", "mark"} => "controller" \in started
  /\ state \in {"idle", "failed"} <=> reaper \in {"publish", "done"}
  /\ state = "running" => {"video", "controller"} \subseteq started /\ signal = "up"
  /\ state = "faulted" => faults # {}
  /\ reaper = "idle" \/ state = "idle" => faults = {}

(* A stop, or a report that is over, rules out a healthy lifecycle; and an  *)
(* observer without a listener belongs to a worker that has been stopped or *)
(* that never signalled a connection.                                       *)
Losing == {"unobserve_failed", "join_failed", "failing", "report"}

DeathInv ==
  /\ \/ stopped \/ observer = "stop"
     \/ \E t \in Reporters : step[t] \in {"note", "done"}
     => state \notin {"starting", "running"}
  /\ worker \in {"shut", "linger", "unobserve", "join"} => stopped
  /\ worker \in {"prepare", "connect", "publish", "connected"} \cup Losing => signal # "up"
  /\ worker = "ended" => stopped \/ signal # "up"
  /\ observer # "off" /\ ~listening =>
       worker \in {"join", "join_failed", "failing", "report", "ended"}
  /\ observer = "ended" =>
       /\ state # "running"
       /\ state = "starting" => worker \in Losing \cup {"ended"}

SessionInv ==
  /\ StartupInv /\ ConnectionInv /\ BorrowInv
  /\ JoinInv /\ ReportInv /\ StateInv /\ DeathInv
=============================================================================
