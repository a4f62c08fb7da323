---------------------------- MODULE ServerWorker ----------------------------
(***************************************************************************)
(* The worker thread of sc_server, run_server() (server.cpp:535), from adb *)
(* to the end of the device process, with the interrupt token it blocks    *)
(* under (sc_intr.cpp), the tunnel (adb_tunnel.cpp), the process observer  *)
(* (sc_process.cpp) and a caller of request_stop().                        *)
(*                                                                         *)
(* Every blocking call goes through the token: register the socket or the  *)
(* process, unless the token is interrupted already; block; unregister.    *)
(* A blocking step of the worker is therefore one program counter with two *)
(* halves, before registration and in the call (busy).                     *)
(***************************************************************************)
EXTENDS Naturals, Sequences

CONSTANTS
  Ports,            \* how many ports the configured range holds
  Attempts,         \* connection attempts in forward mode, 100 in the code
  ObserverMayFail   \* whether the observer thread may fail to start

ASSUME BoundsAssumption == Ports \in Nat \ {0} /\ Attempts \in Nat \ {0}
ASSUME ObserverAssumption == ObserverMayFail \in BOOLEAN

(* What adb can have in force for a session: one reverse mapping, under the *)
(* name of its device socket, and a forward one for every local port.       *)
Mappings == 0..Ports

Streams == {"video", "audio", "control"}
Sockets == Streams \cup {"listener"}

VARIABLES
  worker,                        \* program counter of run_server()
  busy, held, broken,            \* inside a blocking call; what the token holds;
                                 \* the call in progress has been interrupted
  interrupted, stopped,          \* sc_intr::interrupted, m_stopped
  tunnel, port, attempts,        \* m_tunnel, the port tried, attempts left
  mapped, stray,                 \* the mappings adb has in force; history: those
                                 \* of commands nobody saw succeed, and those
                                 \* adb did not remove
  sock, published,               \* socket wrappers; m_*_socket assigned
  process, observer, listening,  \* the device process and its observer
  calls                          \* the callbacks made so far, in order

token   == <<interrupted, stopped>>
io      == <<busy, held, broken>>
mappings == <<mapped, stray>>
link    == <<tunnel, port, attempts, mappings>>
sockets == <<sock, published>>
device  == <<process, observer, listening>>
vars    == <<worker, io, token, link, sockets, device, calls>>

AdbSteps == {"disconnect", "tcpip", "push", "reverse", "forward"}
IoSteps  == AdbSteps \cup Streams \cup {"listen", "info"}

TypeOK ==
  /\ worker \in IoSteps \cup
       {"unreverse", "delay", "spawn", "observe", "retry", "close_tunnel",
        "publish", "connected", "wait", "shut", "linger", "abort", "give_up",
        "unobserve", "join", "failing", "reap", "ended"}
  /\ busy \in BOOLEAN /\ broken \in BOOLEAN
  /\ held \in Sockets \cup {"none", "adb"}
  /\ interrupted \in BOOLEAN /\ stopped \in BOOLEAN
  /\ tunnel \in {"none", "reverse", "forward"}
  /\ port \in 1..Ports /\ attempts \in 1..Attempts
  /\ mapped \subseteq Mappings /\ stray \subseteq Mappings
  /\ sock \in [Sockets -> {"none", "open", "broken", "closed"}]
  /\ published \in BOOLEAN
  /\ process \in {"none", "running", "exited", "closed"}
  /\ observer \in {"off", "watch", "notify", "disconnected", "ended"}
  /\ listening \in BOOLEAN
  /\ calls \in Seq({"connected", "failed", "disconnected"}) /\ Len(calls) <= 2

(* What the call of a blocking step registers with the token.               *)
ResourceOf(step) ==
  CASE step \in AdbSteps                           -> "adb"
    [] step = "listen"                             -> "listener"
    [] step = "info"                               -> "video"
    [] step \in Streams /\ tunnel = "reverse"     -> "listener"
    [] OTHER                                       -> step

-----------------------------------------------------------------------------
(* server_start() has re-armed the token; params decide where to begin.     *)
Init ==
  /\ worker \in {"disconnect", "tcpip", "push"}
  /\ busy = FALSE /\ held = "none" /\ broken = FALSE
  /\ interrupted = FALSE /\ stopped = FALSE
  /\ tunnel = "none" /\ port = 1 /\ attempts = Attempts
  /\ mapped = {} /\ stray = {}
  /\ sock = [s \in Sockets |-> "none"] /\ published = FALSE
  /\ process = "none" /\ observer = "off" /\ listening = FALSE
  /\ calls = <<>>

-----------------------------------------------------------------------------
(* sc_intr                                                                  *)

\* Variant: the token is not looked at when a call is registered.
Register_Blind ==
  /\ worker \in IoSteps /\ ~busy
  /\ ResourceOf(worker) \in Sockets => sock[ResourceOf(worker)] \in {"open", "broken"}
  /\ busy' = TRUE /\ held' = ResourceOf(worker)
  /\ UNCHANGED <<worker, broken, token, link, sockets, device, calls>>

(* set_socket() or set_process() under the mutex of the token.              *)
Register ==
  /\ worker \in IoSteps /\ ~busy
  /\ ResourceOf(worker) \in Sockets => sock[ResourceOf(worker)] \in {"open", "broken"}
  /\ ~interrupted
  /\ busy' = TRUE /\ held' = ResourceOf(worker)
  /\ UNCHANGED <<worker, broken, token, link, sockets, device, calls>>

\* Variant: the call returns without clearing the token.
Release_Keep == busy' = FALSE /\ broken' = FALSE /\ UNCHANGED held

(* The call is over and the token released.                                 *)
Release == busy' = FALSE /\ held' = "none" /\ broken' = FALSE

(* A call succeeds.  An adb command that finishes under an interrupted      *)
(* token counts as cancelled; a socket call may have just made it.          *)
Works(step) ==
  /\ worker = step /\ busy
  /\ step \in AdbSteps => ~interrupted
  /\ Release

(* A call fails, or was refused by an interrupted token.                    *)
Fails(step) ==
  /\ worker = step /\ (busy \/ interrupted)
  /\ Release

(* intr_interrupt(), atomic under the mutex of the token.                   *)
Interrupt ==
  /\ interrupted' = TRUE
  /\ held' = "none"
  /\ broken' = (broken \/ held # "none")
  /\ sock' = [s \in Sockets |-> IF s = held THEN "broken" ELSE sock[s]]
  /\ UNCHANGED busy

(* request_stop(): both flags change under m_mutex.                         *)
RequestStop ==
  /\ stopped' = TRUE
  /\ Interrupt
  /\ UNCHANGED <<link, published, process, listening>>

(* The owner retires the session.                                           *)
Stop ==
  /\ ~stopped
  /\ RequestStop
  /\ UNCHANGED <<worker, observer, calls>>

-----------------------------------------------------------------------------
(* adb: the TCP/IP connection, the push and the tunnel.                     *)

PrepareUnchanged == UNCHANGED <<token, device, published, calls>>

(* A '+' address is disconnected first, whatever that returns.              *)
Disconnect ==
  /\ Works("disconnect") \/ Fails("disconnect")
  /\ worker' = "tcpip"
  /\ UNCHANGED <<link, sock>> /\ PrepareUnchanged

TcpIp ==
  /\ \/ Works("tcpip") /\ worker' = "push"
     \/ Fails("tcpip") /\ worker' = "failing"
  /\ UNCHANGED <<link, sock>> /\ PrepareUnchanged

(* The push, or no serial or no server file to push.                        *)
Push ==
  /\ \/ Works("push") /\ worker' \in {"reverse", "forward"}
     \/ Fails("push") /\ worker' = "failing"
     \/ worker = "push" /\ ~busy /\ worker' = "failing" /\ UNCHANGED io
  /\ UNCHANGED <<link, sock>> /\ PrepareUnchanged

Maps(m) == mapped' = mapped \cup {m} /\ UNCHANGED stray

(* An adb command that fails.  The process was started before its call was  *)
(* registered, so one that was cancelled, or that could not be waited for,  *)
(* may have done its work; the worker takes it for refused.                 *)
MayMap(m) ==
  \/ UNCHANGED mappings
  \/ mapped' = mapped \cup {m} /\ stray' = stray \cup {m}

(* adb removes a mapping, or does not and the worker goes on all the same.  *)
Unmaps(m) ==
  \/ mapped' = mapped \ {m} /\ UNCHANGED stray
  \/ stray' = stray \cup {m} /\ UNCHANGED mapped

(* adb reverse, then a socket to listen on; without one, or if listening    *)
(* fails, the mapping is removed under a token of its own.                  *)
Reverse ==
  /\ \/ /\ Works("reverse") /\ Maps(0)
        /\ \/ worker' = "listen" /\ sock' = [sock EXCEPT !["listener"] = "open"]
           \/ worker' = "unreverse" /\ UNCHANGED sock
        /\ UNCHANGED port
     \/ /\ Fails("reverse") /\ MayMap(0)
        /\ worker' = "forward" /\ port' = 1 /\ UNCHANGED sock
  /\ UNCHANGED <<tunnel, attempts>> /\ PrepareUnchanged

Listen ==
  /\ \/ Works("listen") /\ worker' = "delay" /\ tunnel' = "reverse" /\ UNCHANGED sock
     \/ /\ Fails("listen") /\ worker' = "unreverse"
        /\ sock' = [sock EXCEPT !["listener"] = "closed"]
        /\ UNCHANGED tunnel
  /\ UNCHANGED <<port, attempts, mappings>> /\ PrepareUnchanged

\* Variant: the mapping is removed under the token of the session.
Unreverse_SessionToken ==
  /\ worker = "unreverse"
  /\ IF interrupted THEN UNCHANGED mappings ELSE Unmaps(0)
  /\ IF ~interrupted /\ port < Ports
     THEN worker' = "reverse" /\ port' = port + 1
     ELSE worker' = "forward" /\ port' = 1
  /\ UNCHANGED <<io, tunnel, attempts, sock>> /\ PrepareUnchanged

(* The next port, or the fallback to adb forward, which an interrupted      *)
(* token refuses in its turn.                                               *)
Unreverse ==
  /\ worker = "unreverse"
  /\ Unmaps(0)
  /\ IF ~interrupted /\ port < Ports
     THEN worker' = "reverse" /\ port' = port + 1
     ELSE worker' = "forward" /\ port' = 1
  /\ UNCHANGED <<io, tunnel, attempts, sock>> /\ PrepareUnchanged

Forward ==
  /\ \/ /\ Works("forward") /\ Maps(port)
        /\ worker' = "delay" /\ tunnel' = "forward" /\ UNCHANGED port
     \/ /\ Fails("forward") /\ MayMap(port)
        /\ IF ~interrupted /\ port < Ports
           THEN worker' = "forward" /\ port' = port + 1
           ELSE worker' = "failing" /\ UNCHANGED port
        /\ UNCHANGED tunnel
  /\ UNCHANGED <<attempts, sock>> /\ PrepareUnchanged

(* sc_server_sleep(): 300 ms, or m_stopped.                                 *)
Delay ==
  /\ worker = "delay"
  /\ worker' = IF stopped THEN "abort" ELSE "spawn"
  /\ UNCHANGED <<io, link, sock>> /\ PrepareUnchanged

(* The mapping the open tunnel goes through.                                *)
OwnMapping == IF tunnel = "reverse" THEN 0 ELSE port

(* close_tunnel(): the adb command runs under a token of its own, and the   *)
(* tunnel counts as closed even if it fails.                                *)
CloseTunnel ==
  /\ tunnel' = "none"
  /\ Unmaps(OwnMapping)
  /\ sock' = IF tunnel = "reverse" THEN [sock EXCEPT !["listener"] = "closed"] ELSE sock

Abort ==
  /\ worker = "abort"
  /\ CloseTunnel
  /\ worker' = "failing"
  /\ UNCHANGED <<io, port, attempts>> /\ PrepareUnchanged

-----------------------------------------------------------------------------
(* The device process and the connections to it.                            *)

Spawn ==
  /\ worker = "spawn"
  /\ \/ worker' = "observe" /\ process' = "running"
     \/ worker' = "abort" /\ UNCHANGED process
  /\ UNCHANGED <<io, token, link, sockets, observer, listening, calls>>

(* process_observer_raii.  When its thread cannot be created the exception  *)
(* handler kills and reaps the process and announces the failure.           *)
Observe ==
  /\ worker = "observe"
  /\ \/ /\ worker' = "video" /\ observer' = "watch" /\ listening' = TRUE
        /\ UNCHANGED process
     \/ /\ ObserverMayFail
        /\ worker' = "failing" /\ process' = "closed"
        /\ UNCHANGED <<observer, listening>>
  /\ UNCHANGED <<io, token, link, sockets, calls>>

ConnectUnchanged == UNCHANGED <<token, device, port, published, calls>>

After(stream) ==
  CASE stream = "video" -> "audio" [] stream = "audio" -> "control"
    [] OTHER -> "close_tunnel"

(* cleanup_sockets()                                                        *)
CloseStreams ==
  sock' = [s \in Sockets |->
             IF s \in Streams /\ sock[s] \in {"open", "broken"} THEN "closed" ELSE sock[s]]

(* Reverse mode: the device connects to the listener.                       *)
Accept(s) ==
  /\ tunnel = "reverse"
  /\ \/ Works(s) /\ worker' = After(s) /\ sock' = [sock EXCEPT ![s] = "open"]
     \/ Fails(s) /\ worker' = "give_up" /\ CloseStreams
  /\ UNCHANGED <<tunnel, attempts, mappings>> /\ ConnectUnchanged

(* Forward mode: a new socket for every connection and every attempt.       *)
NewSocket(s) ==
  /\ tunnel = "forward" /\ worker = s /\ ~busy /\ sock[s] \in {"none", "closed"}
  /\ \/ sock' = [sock EXCEPT ![s] = "open"] /\ UNCHANGED worker
     \/ s = "video" /\ worker' = "retry" /\ UNCHANGED sock
     \/ s # "video" /\ worker' = "give_up" /\ CloseStreams
  /\ UNCHANGED <<io, tunnel, attempts, mappings>> /\ ConnectUnchanged

(* Connecting the first socket includes reading the byte that tells that    *)
(* the device really listens.                                               *)
Dial(s) ==
  /\ tunnel = "forward" /\ sock[s] \in {"open", "broken"}
  /\ \/ Works(s) /\ worker' = After(s) /\ UNCHANGED sock
     \/ /\ Fails(s)
        /\ worker' = IF s = "video" THEN "retry" ELSE "give_up"
        /\ CloseStreams
  /\ UNCHANGED <<tunnel, attempts, mappings>> /\ ConnectUnchanged

(* 100 ms between two attempts, cut short by either flag.                   *)
Retry ==
  /\ worker = "retry"
  /\ IF interrupted \/ stopped \/ attempts = 1
     THEN worker' = "give_up" /\ UNCHANGED attempts
     ELSE worker' = "video" /\ attempts' = attempts - 1
  /\ UNCHANGED <<io, tunnel, mappings, sock>> /\ ConnectUnchanged

TunnelDone ==
  /\ worker = "close_tunnel"
  /\ CloseTunnel
  /\ worker' = "info"
  /\ UNCHANGED <<io, attempts>> /\ ConnectUnchanged

(* device_read_info() on the first socket.                                  *)
Info ==
  /\ \/ Works("info") /\ worker' = "publish" /\ UNCHANGED sock
     \/ Fails("info") /\ worker' = "unobserve" /\ CloseStreams
  /\ UNCHANGED <<tunnel, attempts, mappings>> /\ ConnectUnchanged

GiveUp ==
  /\ worker = "give_up"
  /\ CloseTunnel
  /\ worker' = "unobserve"
  /\ UNCHANGED <<io, attempts>> /\ ConnectUnchanged

-----------------------------------------------------------------------------
(* Connected, and the way out.                                              *)

Publish ==
  /\ worker = "publish"
  /\ published' = TRUE /\ worker' = "connected"
  /\ UNCHANGED <<io, token, link, sock, device, calls>>

Connected ==
  /\ worker = "connected"
  /\ calls' = Append(calls, "connected") /\ worker' = "wait"
  /\ UNCHANGED <<io, token, link, sockets, device>>

Wait ==
  /\ worker = "wait" /\ stopped
  /\ worker' = "shut"
  /\ UNCHANGED <<io, token, link, sockets, device, calls>>

Shut ==
  /\ worker = "shut"
  /\ sock' = [s \in Sockets |-> IF s \in Streams THEN "broken" ELSE sock[s]]
  /\ worker' = "linger"
  /\ UNCHANGED <<io, token, link, published, device, calls>>

(* One second for the observer to see the process leave, then terminate it. *)
Linger ==
  /\ worker = "linger"
  /\ process' = IF observer \in {"off", "watch"} THEN "exited" ELSE process
  /\ worker' = "unobserve"
  /\ UNCHANGED <<io, token, link, sockets, observer, listening, calls>>

(* ~process_observer_raii                                                   *)
Unobserve ==
  /\ worker = "unobserve"
  /\ listening' = FALSE /\ process' = "exited"
  /\ worker' = "join"
  /\ UNCHANGED <<io, token, link, sockets, observer, calls>>

\* Variant: the failure is announced before the observer has been joined.
Join_Early ==
  /\ worker = "join"
  /\ worker' = IF published THEN "reap" ELSE "failing"
  /\ UNCHANGED <<io, token, link, sockets, device, calls>>

Join ==
  /\ worker = "join" /\ observer = "ended"
  /\ worker' = IF published THEN "reap" ELSE "failing"
  /\ UNCHANGED <<io, token, link, sockets, device, calls>>

Failing ==
  /\ worker = "failing"
  /\ calls' = Append(calls, "failed") /\ worker' = "reap"
  /\ UNCHANGED <<io, token, link, sockets, device>>

Reap ==
  /\ worker = "reap"
  /\ process' = IF process = "exited" THEN "closed" ELSE process
  /\ worker' = "ended"
  /\ UNCHANGED <<io, token, link, sockets, observer, listening, calls>>

-----------------------------------------------------------------------------
(* The device process and run_observer().                                   *)

Exit ==
  /\ process = "running"
  /\ process' = "exited"
  /\ UNCHANGED <<worker, io, token, link, sockets, observer, listening, calls>>

Notice ==
  /\ observer = "watch" /\ process = "exited"
  /\ observer' = IF listening THEN "notify" ELSE "ended"
  /\ UNCHANGED <<worker, io, token, link, sockets, process, listening, calls>>

(* The listener breaks the worker's I/O, then calls on_disconnected(), which *)
(* asks this server to stop (capture_session.cpp:469).                      *)
Notify ==
  /\ observer = "notify"
  /\ Interrupt
  /\ observer' = "disconnected"
  /\ UNCHANGED <<worker, stopped, link, published, process, listening, calls>>

\* Variant: the loss is reported, but the worker is not told to stop.
Disconnected_NoStop ==
  /\ observer = "disconnected"
  /\ calls' = Append(calls, "disconnected")
  /\ observer' = "ended"
  /\ UNCHANGED <<worker, io, token, link, sockets, process, listening>>

Disconnected ==
  /\ observer = "disconnected"
  /\ calls' = Append(calls, "disconnected")
  /\ RequestStop
  /\ observer' = "ended"
  /\ UNCHANGED worker

-----------------------------------------------------------------------------
Blocking ==
  \/ Disconnect \/ TcpIp \/ Push \/ Reverse \/ Listen \/ Forward \/ Info
  \/ \E s \in Streams : Accept(s) \/ Dial(s)

Stepping ==
  \/ Unreverse \/ Delay \/ Abort \/ Spawn \/ Observe \/ Retry \/ TunnelDone
  \/ GiveUp \/ Publish \/ Connected \/ Wait \/ Shut \/ Linger \/ Unobserve
  \/ Join \/ Failing \/ Reap
  \/ \E s \in Streams : NewSocket(s)

Observing == Notice \/ Notify \/ Disconnected

(* The worker has ended; the stop it may still get changes nothing anyone   *)
(* waits for.                                                               *)
Terminated == worker = "ended" /\ stopped /\ UNCHANGED vars

Next == Register \/ Blocking \/ Stepping \/ Observing \/ Stop \/ Exit \/ Terminated

Spec == Init /\ [][Next]_vars

(* Blocking calls return for certain only once interrupted; every other     *)
(* step is taken.  That includes the adb command of close_tunnel(), which   *)
(* no stop request can interrupt: the liveness below assumes adb answers it. *)
Fairness ==
  /\ WF_vars(Register)
  /\ WF_vars(Blocking /\ (busy => broken))
  /\ WF_vars(Stepping)
  /\ WF_vars(Observing)

FairSpec == Spec /\ Fairness

-----------------------------------------------------------------------------
Called == {calls[i] : i \in 1..Len(calls)}

(* No call outlives the interrupt: whatever the worker is blocked in when   *)
(* the token is interrupted has been broken, and nothing blocks afterwards. *)
NoCallOutlivesInterrupt == busy /\ interrupted => broken

(* The token never refers to a wrapper that has been closed: whoever        *)
(* interrupts it touches a socket its owner still has.                      *)
TokenHoldsLive == held \in Sockets => sock[held] = "open"

(* The worker leaves nothing behind: no process, no observer, no stream     *)
(* socket that the session does not know of, no tunnel, no listener, and no *)
(* mapping it made (server.cpp:685, adb_tunnel.cpp:63) unless adb failed to *)
(* remove it.  Two things do stay.  A mapping of a command that was         *)
(* cancelled, or could not be waited for, when it had taken effect: the     *)
(* worker takes it for failed and removes nothing (adb_tunnel.cpp:38, :107).*)
(* And, when the observer thread could not be created (server.cpp:670), the *)
(* whole tunnel: TunnelClosedOnFailure shows that.                          *)
NothingLeftBehind ==
  worker = "ended" =>
    /\ process \in {"none", "closed"} /\ observer \in {"off", "ended"}
    /\ \A s \in Streams : sock[s] \in {"open", "broken"} => published
    /\ ~(process = "closed" /\ observer = "off") =>
         /\ tunnel = "none" /\ sock["listener"] \in {"none", "closed"}
         /\ mapped \subseteq stray

(* server.hpp:19: if on_connection_failed() is called, on_connected() and   *)
(* on_disconnected() will never be called.                                  *)
DocumentedCallbacks == "failed" \in Called => Called = {"failed"}

(* server.cpp:570: the tunnel is closed at once on failure.                 *)
TunnelClosedOnFailure == "failed" \in Called => tunnel = "none"

Contract == INSTANCE ServerContract WITH
  device  <- CASE process = "none" -> "none" [] process = "running" -> "alive"
               [] OTHER -> "dead",
  verdict <- IF "failed" \in Called THEN "failed"
             ELSE IF "connected" \in Called THEN "connected" ELSE "none",
  lost    <- "disconnected" \in Called,
  ended   <- worker = "ended"

(* The promise of ServerContract, kept by the code.                         *)
KeepsContract == Contract!Spec

(* A stop request ends the worker, wherever it is; and so does the death of *)
(* the device process, with nobody asking (server.cpp:614).                 *)
WorkerEnds == (stopped \/ process = "exited") ~> (worker = "ended")
=============================================================================
