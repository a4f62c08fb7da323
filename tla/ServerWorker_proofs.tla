------------------------- MODULE ServerWorker_proofs -------------------------
(***************************************************************************)
(* Proofs about ServerWorker for every number of ports and attempts: the   *)
(* token and the calls under it, what the worker leaves behind, and that   *)
(* run_server() keeps the promise of ServerContract.                       *)
(***************************************************************************)
EXTENDS ServerWorker, TLAPS

Opened(s) == sock[s] \in {"open", "broken"}

(* The token: only a call in progress is held by it, and a call it no       *)
(* longer holds has been interrupted.                                       *)
TokenInv ==
  /\ stopped => interrupted
  /\ worker \in {"shut", "linger"} => stopped
  /\ \A s \in Sockets : sock[s] = "broken" => interrupted
  /\ held # "none" => busy
  /\ busy => worker \in IoSteps /\ (held # "none" \/ broken)
  /\ NoCallOutlivesInterrupt
  /\ TokenHoldsLive

Prepare  == AdbSteps \cup {"listen", "unreverse", "delay", "spawn", "abort"}
Watched  == Streams \cup {"info", "retry", "close_tunnel", "publish", "connected", "wait",
                          "shut", "linger", "give_up", "unobserve"}
Leaving  == {"failing", "reap", "ended"}

(* The device process and its observer, at each place of run_server().      *)
ProcessInv ==
  /\ worker \in Prepare => process = "none" /\ observer = "off"
  /\ worker = "observe" => process \in {"running", "exited"} /\ observer = "off"
  /\ worker \in Watched => process \in {"running", "exited"} /\ observer # "off"
  /\ worker = "join" => process = "exited" /\ observer # "off"
  /\ worker \in {"failing", "reap"} => process # "running" /\ observer \in {"off", "ended"}
  /\ worker \in {"failing", "reap"} => (process \in {"none", "closed"} <=> observer = "off")
  /\ worker = "ended" => process \in {"none", "closed"} /\ observer \in {"off", "ended"}
  /\ observer \in {"notify", "disconnected"} => process = "exited"

(* The observer thread could not be created.                                *)
Unobserved == process = "closed" /\ observer = "off"

(* Who owns the tunnel, its listener and the stream sockets.                *)
LinkInv ==
  /\ worker \in (AdbSteps \cup {"listen", "unreverse"}) => tunnel = "none"
  /\ worker \in {"info", "publish", "connected", "wait", "shut", "linger",
                 "unobserve", "join"} => tunnel = "none"
  /\ worker \in Leaving => tunnel = "none" \/ Unobserved
  /\ Opened("listener") => worker = "listen" \/ tunnel = "reverse"
  /\ worker = "video" => ~Opened("audio") /\ ~Opened("control")
  /\ published => worker \in {"connected", "wait", "shut", "linger", "unobserve",
                              "join", "reap", "ended"}
  /\ (\E s \in Streams : Opened(s)) /\ ~published =>
       worker \in Streams \cup {"close_tunnel", "info", "publish"}
  /\ worker \in {"connected", "wait", "shut", "linger"} => published

(* A mapping in force that is not stray is one the worker will yet remove.  *)
Owned ==
  IF tunnel # "none" THEN {OwnMapping}
  ELSE IF worker \in {"listen", "unreverse"} THEN {0} ELSE {}

MappingInv == Unobserved \/ mapped \subseteq stray \cup Owned

(* The verdict is out once the worker waits, or is about to reap.           *)
Announced ==
  \/ worker \in {"wait", "shut", "linger", "reap", "ended"}
  \/ published /\ worker \in {"unobserve", "join"}

CallsInv ==
  /\ Len(calls) <= (IF Announced THEN 1 ELSE 0) + (IF observer = "ended" THEN 1 ELSE 0)
  /\ "disconnected" \in Called => observer = "ended"
  /\ "connected" \in Called => Announced
  /\ "failed" \in Called => worker \in {"reap", "ended"}
  /\ Announced => Called \cap {"connected", "failed"} # {}

WorkerInv == TokenInv /\ ProcessInv /\ LinkInv /\ MappingInv /\ CallsInv

-----------------------------------------------------------------------------
(* The calls after one more of them.                                        *)
LEMMA CallsGrow ==
  ASSUME TypeOK, NEW c \in {"connected", "failed", "disconnected"}, calls' = Append(calls, c)
  PROVE  /\ calls' \in Seq({"connected", "failed", "disconnected"})
         /\ Len(calls') = Len(calls) + 1
         /\ Called' = Called \cup {c}
  <1>1. calls \in Seq({"connected", "failed", "disconnected"})
    BY DEF TypeOK
  <1>2. Len(calls') = Len(calls) + 1 /\ calls' \in Seq({"connected", "failed", "disconnected"})
    BY <1>1
  <1>3. /\ \A i \in 1..Len(calls) : calls'[i] = calls[i]
        /\ calls'[Len(calls) + 1] = c
    BY <1>1
  <1>4. 1..Len(calls') = (1..Len(calls)) \cup {Len(calls) + 1}
    BY <1>1, <1>2
  <1>5. ASSUME NEW x PROVE x \in Called' <=> x \in Called \cup {c}
    BY <1>1, <1>2, <1>3, <1>4 DEF Called
  <1> QED
    BY <1>2, <1>5

(* No call is made of a session that makes none.                            *)
LEMMA CallsStay == calls' = calls => Called' = Called /\ Len(calls') = Len(calls)
  BY DEF Called

(* Every variable keeps its type.                                           *)
LEMMA TypesKept ==
  ASSUME TypeOK, ProcessInv, LinkInv, CallsInv, [Next]_vars
  PROVE  TypeOK'
  <1> USE DEF TypeOK, token, io, link, mappings, sockets, device, IoSteps, AdbSteps, Streams, Sockets, ProcessInv, Prepare, Watched, Leaving, CallsInv, Announced, LinkInv
  <1> USE BoundsAssumption
  <1>0. 0 \in Mappings /\ 1..Ports \subseteq Mappings
    BY DEF Mappings
  <1>1. CASE Register
    BY <1>1 DEF Register, ResourceOf
  <1>2. CASE Disconnect
    BY <1>2 DEF Disconnect, Works, Fails, Release, PrepareUnchanged
  <1>3. CASE TcpIp
    BY <1>3 DEF TcpIp, Works, Fails, Release, PrepareUnchanged
  <1>4. CASE Push
    BY <1>4 DEF Push, Works, Fails, Release, PrepareUnchanged
  <1>5. CASE Reverse
    <2>1. sock' \in [Sockets -> {"none", "open", "broken", "closed"}]
      BY <1>5 DEF Reverse, Works, Fails, Release, PrepareUnchanged, Maps, MayMap, mappings
    <2>2. port' \in 1..Ports /\ attempts' \in 1..Attempts /\ calls' = calls
      BY <1>5 DEF Reverse, Works, Fails, Release, PrepareUnchanged, Maps, MayMap, mappings
    <2>3. mapped' \subseteq Mappings /\ stray' \subseteq Mappings
      BY <1>0, <1>5 DEF Reverse, Maps, MayMap, mappings
    <2>4. /\ worker' \in IoSteps \cup {"unreverse", "delay", "failing"}
          /\ busy' \in BOOLEAN /\ broken' \in BOOLEAN /\ held' \in Sockets \cup {"none", "adb"}
          /\ tunnel' \in {"none", "reverse", "forward"}
      BY <1>5 DEF Reverse, Works, Fails, Release, PrepareUnchanged
    <2> QED
      BY <1>5, <2>1, <2>2, <2>3, <2>4 DEF Reverse, PrepareUnchanged
  <1>6. CASE Listen
    BY <1>6 DEF Listen, Works, Fails, Release, PrepareUnchanged
  <1>7. CASE Forward
    <2>1. sock' \in [Sockets -> {"none", "open", "broken", "closed"}]
      BY <1>7 DEF Forward, Works, Fails, Release, PrepareUnchanged, Maps, MayMap, mappings
    <2>2. port' \in 1..Ports /\ attempts' \in 1..Attempts /\ calls' = calls
      BY <1>7 DEF Forward, Works, Fails, Release, PrepareUnchanged, Maps, MayMap, mappings
    <2>3. mapped' \subseteq Mappings /\ stray' \subseteq Mappings
      BY <1>0, <1>7 DEF Forward, Maps, MayMap, mappings
    <2>4. /\ worker' \in IoSteps \cup {"unreverse", "delay", "failing"}
          /\ busy' \in BOOLEAN /\ broken' \in BOOLEAN /\ held' \in Sockets \cup {"none", "adb"}
          /\ tunnel' \in {"none", "reverse", "forward"}
      BY <1>7 DEF Forward, Works, Fails, Release, PrepareUnchanged
    <2> QED
      BY <1>7, <2>1, <2>2, <2>3, <2>4 DEF Forward, PrepareUnchanged
  <1>8. CASE Info
    BY <1>8, ZenonT(60) DEF Info, Works, Fails, Release, CloseStreams, ConnectUnchanged
  <1>9. CASE \E s \in Streams : Accept(s)
    BY <1>9, ZenonT(60) DEF Accept, Works, Fails, Release, CloseStreams, After, ConnectUnchanged
  <1>10. CASE \E s \in Streams : Dial(s)
    <2>1. sock' \in [Sockets -> {"none", "open", "broken", "closed"}]
      BY <1>10 DEF Dial, Works, Fails, Release, CloseStreams, After, ConnectUnchanged
    <2>2. port' \in 1..Ports /\ attempts' \in 1..Attempts /\ calls' = calls
      BY <1>10 DEF Dial, Works, Fails, Release, CloseStreams, After, ConnectUnchanged
    <2> QED
      BY <1>10, <2>1, <2>2, ZenonT(60) DEF Dial, Works, Fails, Release, CloseStreams, After, ConnectUnchanged
  <1>11. CASE Unreverse
    BY <1>0, <1>11 DEF Unreverse, Unmaps, PrepareUnchanged
  <1>12. CASE Delay
    BY <1>12 DEF Delay, PrepareUnchanged
  <1>13. CASE Abort
    <2>1. mapped' \subseteq Mappings /\ stray' \subseteq Mappings
      BY <1>0, <1>13 DEF Abort, CloseTunnel, Unmaps, OwnMapping
    <2>2. /\ tunnel' = "none" /\ worker' \in {"failing", "info", "unobserve"}
          /\ sock' \in [Sockets -> {"none", "open", "broken", "closed"}]
      BY <1>13 DEF Abort, CloseTunnel
    <2> QED
      BY <1>13, <2>1, <2>2 DEF Abort, PrepareUnchanged
  <1>14. CASE Spawn
    BY <1>14 DEF Spawn
  <1>15. CASE Observe
    <2>1. calls' \in Seq({"connected", "failed", "disconnected"}) /\ Len(calls') <= 2
      BY <1>15 DEF Observe
    <2>2. sock' \in [Sockets -> {"none", "open", "broken", "closed"}]
      BY <1>15 DEF Observe
    <2>3. /\ worker' \in {"video", "failing"}
          /\ process' \in {process, "closed"}
          /\ observer' \in {observer, "watch"} /\ listening' \in BOOLEAN
      BY <1>15 DEF Observe
    <2> QED
      BY <1>15, <2>1, <2>2, <2>3 DEF Observe
  <1>16. CASE Retry
    BY <1>16 DEF Retry, ConnectUnchanged
  <1>17. CASE TunnelDone
    <2>1. mapped' \subseteq Mappings /\ stray' \subseteq Mappings
      BY <1>0, <1>17 DEF TunnelDone, CloseTunnel, Unmaps, OwnMapping
    <2>2. /\ tunnel' = "none" /\ worker' \in {"failing", "info", "unobserve"}
          /\ sock' \in [Sockets -> {"none", "open", "broken", "closed"}]
      BY <1>17 DEF TunnelDone, CloseTunnel
    <2> QED
      BY <1>17, <2>1, <2>2 DEF TunnelDone, ConnectUnchanged
  <1>18. CASE GiveUp
    <2>1. mapped' \subseteq Mappings /\ stray' \subseteq Mappings
      BY <1>0, <1>18 DEF GiveUp, CloseTunnel, Unmaps, OwnMapping
    <2>2. /\ tunnel' = "none" /\ worker' \in {"failing", "info", "unobserve"}
          /\ sock' \in [Sockets -> {"none", "open", "broken", "closed"}]
      BY <1>18 DEF GiveUp, CloseTunnel
    <2> QED
      BY <1>18, <2>1, <2>2 DEF GiveUp, ConnectUnchanged
  <1>19. CASE Publish
    BY <1>19 DEF Publish
  <1>20. CASE Connected
    <2>1. calls' = Append(calls, "connected")
      BY <1>20 DEF Connected
    <2>2. /\ calls' \in Seq({"connected", "failed", "disconnected"})
          /\ Len(calls') = Len(calls) + 1 /\ Called' = Called \cup {"connected"}
      BY <2>1, CallsGrow
    <2> QED
      BY <1>20, <2>2 DEF Connected
  <1>21. CASE Wait
    BY <1>21 DEF Wait
  <1>22. CASE Shut
    BY <1>22 DEF Shut
  <1>23. CASE Linger
    BY <1>23 DEF Linger
  <1>24. CASE Unobserve
    BY <1>24 DEF Unobserve
  <1>25. CASE Join
    BY <1>25 DEF Join
  <1>26. CASE Failing
    <2>1. calls' = Append(calls, "failed")
      BY <1>26 DEF Failing
    <2>2. /\ calls' \in Seq({"connected", "failed", "disconnected"})
          /\ Len(calls') = Len(calls) + 1 /\ Called' = Called \cup {"failed"}
      BY <2>1, CallsGrow
    <2> QED
      BY <1>26, <2>2 DEF Failing
  <1>27. CASE Reap
    BY <1>27 DEF Reap
  <1>28. CASE \E s \in Streams : NewSocket(s)
    BY <1>28 DEF NewSocket, CloseStreams, ConnectUnchanged
  <1>29. CASE Notice
    BY <1>29 DEF Notice
  <1>30. CASE Notify
    BY <1>30 DEF Notify, Interrupt
  <1>31. CASE Disconnected
    <2>1. calls' = Append(calls, "disconnected")
      BY <1>31 DEF Disconnected
    <2>2. /\ calls' \in Seq({"connected", "failed", "disconnected"})
          /\ Len(calls') = Len(calls) + 1 /\ Called' = Called \cup {"disconnected"}
      BY <2>1, CallsGrow
    <2> QED
      BY <1>31, <2>2 DEF Disconnected, RequestStop, Interrupt
  <1>32. CASE Stop
    BY <1>32 DEF Stop, RequestStop, Interrupt
  <1>33. CASE Exit
    BY <1>33 DEF Exit
  <1>34. CASE Terminated \/ UNCHANGED vars
    BY <1>34 DEF Terminated, vars
  <1> QED
    BY <1>1, <1>2, <1>3, <1>4, <1>5, <1>6, <1>7, <1>8, <1>9, <1>10, <1>11, <1>12, <1>13, <1>14, <1>15, <1>16, <1>17, <1>18, <1>19, <1>20, <1>21, <1>22, <1>23, <1>24, <1>25, <1>26, <1>27, <1>28, <1>29, <1>30, <1>31, <1>32, <1>33, <1>34 DEF Next, Blocking, Stepping, Observing

(* The token holds only what is open, and nothing blocks behind its back.   *)
LEMMA TokenKept ==
  ASSUME TypeOK, TokenInv, [Next]_vars
  PROVE  TokenInv'
  <1> USE DEF TypeOK, TokenInv, NoCallOutlivesInterrupt, TokenHoldsLive, token, io, link, mappings, sockets, device, IoSteps, AdbSteps, Streams, Sockets
  <1>1. CASE Register
    BY <1>1 DEF Register, ResourceOf
  <1>2. CASE Disconnect
    BY <1>2 DEF Disconnect, Works, Fails, Release, PrepareUnchanged
  <1>3. CASE TcpIp
    BY <1>3 DEF TcpIp, Works, Fails, Release, PrepareUnchanged
  <1>4. CASE Push
    BY <1>4 DEF Push, Works, Fails, Release, PrepareUnchanged
  <1>5. CASE Reverse
    BY <1>5 DEF Reverse, Works, Fails, Release, PrepareUnchanged, Maps, MayMap, mappings, Mappings
  <1>6. CASE Listen
    BY <1>6 DEF Listen, Works, Fails, Release, PrepareUnchanged
  <1>7. CASE Forward
    BY <1>7 DEF Forward, Works, Fails, Release, PrepareUnchanged, Maps, MayMap, mappings, Mappings
  <1>8. CASE Info
    BY <1>8 DEF Info, Works, Fails, Release, CloseStreams, ConnectUnchanged
  <1>9. CASE \E s \in Streams : Accept(s)
    BY <1>9 DEF Accept, Works, Fails, Release, CloseStreams, After, ConnectUnchanged
  <1>10. CASE \E s \in Streams : Dial(s)
    BY <1>10 DEF Dial, Works, Fails, Release, CloseStreams, After, ConnectUnchanged
  <1>11. CASE Unreverse
    BY <1>11 DEF Unreverse, Unmaps, PrepareUnchanged, mappings, Mappings
  <1>12. CASE Delay
    BY <1>12 DEF Delay, PrepareUnchanged
  <1>13. CASE Abort
    BY <1>13 DEF Abort, CloseTunnel, Unmaps, OwnMapping, Mappings, PrepareUnchanged
  <1>14. CASE Spawn
    BY <1>14 DEF Spawn
  <1>15. CASE Observe
    BY <1>15 DEF Observe
  <1>16. CASE Retry
    BY <1>16 DEF Retry, ConnectUnchanged
  <1>17. CASE TunnelDone
    BY <1>17 DEF TunnelDone, CloseTunnel, Unmaps, OwnMapping, Mappings, ConnectUnchanged
  <1>18. CASE GiveUp
    BY <1>18 DEF GiveUp, CloseTunnel, Unmaps, OwnMapping, Mappings, ConnectUnchanged
  <1>19. CASE Publish
    BY <1>19 DEF Publish
  <1>20. CASE Connected
    BY <1>20 DEF Connected
  <1>21. CASE Wait
    BY <1>21 DEF Wait
  <1>22. CASE Shut
    BY <1>22 DEF Shut
  <1>23. CASE Linger
    BY <1>23 DEF Linger
  <1>24. CASE Unobserve
    BY <1>24 DEF Unobserve
  <1>25. CASE Join
    BY <1>25 DEF Join
  <1>26. CASE Failing
    BY <1>26 DEF Failing
  <1>27. CASE Reap
    BY <1>27 DEF Reap
  <1>28. CASE \E s \in Streams : NewSocket(s)
    BY <1>28 DEF NewSocket, CloseStreams, ConnectUnchanged
  <1>29. CASE Notice
    BY <1>29 DEF Notice
  <1>30. CASE Notify
    BY <1>30 DEF Notify, Interrupt
  <1>31. CASE Disconnected
    BY <1>31 DEF Disconnected, RequestStop, Interrupt
  <1>32. CASE Stop
    BY <1>32 DEF Stop, RequestStop, Interrupt
  <1>33. CASE Exit
    BY <1>33 DEF Exit
  <1>34. CASE Terminated \/ UNCHANGED vars
    BY <1>34 DEF Terminated, vars
  <1> QED
    BY <1>1, <1>2, <1>3, <1>4, <1>5, <1>6, <1>7, <1>8, <1>9, <1>10, <1>11, <1>12, <1>13, <1>14, <1>15, <1>16, <1>17, <1>18, <1>19, <1>20, <1>21, <1>22, <1>23, <1>24, <1>25, <1>26, <1>27, <1>28, <1>29, <1>30, <1>31, <1>32, <1>33, <1>34 DEF Next, Blocking, Stepping, Observing

(* The process and its observer keep step with the worker.                  *)
LEMMA ProcessKept ==
  ASSUME TypeOK, TokenInv, ProcessInv, [Next]_vars
  PROVE  ProcessInv'
  <1> USE DEF TypeOK, TokenInv, ProcessInv, Prepare, Watched, Leaving, token, io, link, mappings, sockets, device, IoSteps, AdbSteps, Streams, Sockets
  <1>1. CASE Register
    BY <1>1 DEF Register, ResourceOf
  <1>2. CASE Disconnect
    BY <1>2 DEF Disconnect, Works, Fails, Release, PrepareUnchanged
  <1>3. CASE TcpIp
    BY <1>3 DEF TcpIp, Works, Fails, Release, PrepareUnchanged
  <1>4. CASE Push
    BY <1>4 DEF Push, Works, Fails, Release, PrepareUnchanged
  <1>5. CASE Reverse
    BY <1>5 DEF Reverse, Works, Fails, Release, PrepareUnchanged, Maps, MayMap, mappings, Mappings
  <1>6. CASE Listen
    BY <1>6 DEF Listen, Works, Fails, Release, PrepareUnchanged
  <1>7. CASE Forward
    BY <1>7 DEF Forward, Works, Fails, Release, PrepareUnchanged, Maps, MayMap, mappings, Mappings
  <1>8. CASE Info
    BY <1>8 DEF Info, Works, Fails, Release, CloseStreams, ConnectUnchanged
  <1>9. CASE \E s \in Streams : Accept(s)
    BY <1>9 DEF Accept, Works, Fails, Release, CloseStreams, After, ConnectUnchanged
  <1>10. CASE \E s \in Streams : Dial(s)
    BY <1>10 DEF Dial, Works, Fails, Release, CloseStreams, After, ConnectUnchanged
  <1>11. CASE Unreverse
    BY <1>11 DEF Unreverse, Unmaps, PrepareUnchanged, mappings, Mappings
  <1>12. CASE Delay
    BY <1>12 DEF Delay, PrepareUnchanged
  <1>13. CASE Abort
    BY <1>13 DEF Abort, CloseTunnel, Unmaps, OwnMapping, Mappings, PrepareUnchanged
  <1>14. CASE Spawn
    BY <1>14 DEF Spawn
  <1>15. CASE Observe
    BY <1>15 DEF Observe
  <1>16. CASE Retry
    BY <1>16 DEF Retry, ConnectUnchanged
  <1>17. CASE TunnelDone
    BY <1>17 DEF TunnelDone, CloseTunnel, Unmaps, OwnMapping, Mappings, ConnectUnchanged
  <1>18. CASE GiveUp
    BY <1>18 DEF GiveUp, CloseTunnel, Unmaps, OwnMapping, Mappings, ConnectUnchanged
  <1>19. CASE Publish
    BY <1>19 DEF Publish
  <1>20. CASE Connected
    BY <1>20 DEF Connected
  <1>21. CASE Wait
    BY <1>21 DEF Wait
  <1>22. CASE Shut
    BY <1>22 DEF Shut
  <1>23. CASE Linger
    BY <1>23 DEF Linger
  <1>24. CASE Unobserve
    BY <1>24 DEF Unobserve
  <1>25. CASE Join
    BY <1>25 DEF Join
  <1>26. CASE Failing
    BY <1>26 DEF Failing
  <1>27. CASE Reap
    BY <1>27 DEF Reap
  <1>28. CASE \E s \in Streams : NewSocket(s)
    BY <1>28 DEF NewSocket, CloseStreams, ConnectUnchanged
  <1>29. CASE Notice
    BY <1>29 DEF Notice
  <1>30. CASE Notify
    BY <1>30 DEF Notify, Interrupt
  <1>31. CASE Disconnected
    BY <1>31 DEF Disconnected, RequestStop, Interrupt
  <1>32. CASE Stop
    BY <1>32 DEF Stop, RequestStop, Interrupt
  <1>33. CASE Exit
    BY <1>33 DEF Exit
  <1>34. CASE Terminated \/ UNCHANGED vars
    BY <1>34 DEF Terminated, vars
  <1> QED
    BY <1>1, <1>2, <1>3, <1>4, <1>5, <1>6, <1>7, <1>8, <1>9, <1>10, <1>11, <1>12, <1>13, <1>14, <1>15, <1>16, <1>17, <1>18, <1>19, <1>20, <1>21, <1>22, <1>23, <1>24, <1>25, <1>26, <1>27, <1>28, <1>29, <1>30, <1>31, <1>32, <1>33, <1>34 DEF Next, Blocking, Stepping, Observing

(* Tunnel, listener and sockets are closed by whoever owns them.            *)
LEMMA LinkKept ==
  ASSUME TypeOK, TokenInv, ProcessInv, LinkInv, [Next]_vars
  PROVE  LinkInv'
  <1> USE DEF TypeOK, TokenInv, TokenHoldsLive, ProcessInv, LinkInv, Unobserved, Opened, Prepare, Watched, Leaving, token, io, link, mappings, sockets, device, IoSteps, AdbSteps, Streams, Sockets
  <1>1. CASE Register
    BY <1>1 DEF Register, ResourceOf
  <1>2. CASE Disconnect
    BY <1>2 DEF Disconnect, Works, Fails, Release, PrepareUnchanged
  <1>3. CASE TcpIp
    BY <1>3 DEF TcpIp, Works, Fails, Release, PrepareUnchanged
  <1>4. CASE Push
    BY <1>4 DEF Push, Works, Fails, Release, PrepareUnchanged
  <1>5. CASE Reverse
    BY <1>5 DEF Reverse, Works, Fails, Release, PrepareUnchanged, Maps, MayMap, mappings, Mappings
  <1>6. CASE Listen
    BY <1>6 DEF Listen, Works, Fails, Release, PrepareUnchanged
  <1>7. CASE Forward
    BY <1>7 DEF Forward, Works, Fails, Release, PrepareUnchanged, Maps, MayMap, mappings, Mappings
  <1>8. CASE Info
    BY <1>8 DEF Info, Works, Fails, Release, CloseStreams, ConnectUnchanged
  <1>9. CASE \E s \in Streams : Accept(s)
    BY <1>9 DEF Accept, Works, Fails, Release, CloseStreams, After, ConnectUnchanged
  <1>10. CASE \E s \in Streams : Dial(s)
    BY <1>10 DEF Dial, Works, Fails, Release, CloseStreams, After, ConnectUnchanged
  <1>11. CASE Unreverse
    BY <1>11 DEF Unreverse, Unmaps, PrepareUnchanged, mappings, Mappings
  <1>12. CASE Delay
    BY <1>12 DEF Delay, PrepareUnchanged
  <1>13. CASE Abort
    BY <1>13 DEF Abort, CloseTunnel, Unmaps, OwnMapping, Mappings, PrepareUnchanged
  <1>14. CASE Spawn
    BY <1>14 DEF Spawn
  <1>15. CASE Observe
    BY <1>15 DEF Observe
  <1>16. CASE Retry
    BY <1>16 DEF Retry, ConnectUnchanged
  <1>17. CASE TunnelDone
    BY <1>17 DEF TunnelDone, CloseTunnel, Unmaps, OwnMapping, Mappings, ConnectUnchanged
  <1>18. CASE GiveUp
    BY <1>18 DEF GiveUp, CloseTunnel, Unmaps, OwnMapping, Mappings, ConnectUnchanged
  <1>19. CASE Publish
    BY <1>19 DEF Publish
  <1>20. CASE Connected
    BY <1>20 DEF Connected
  <1>21. CASE Wait
    BY <1>21 DEF Wait
  <1>22. CASE Shut
    BY <1>22 DEF Shut
  <1>23. CASE Linger
    BY <1>23 DEF Linger
  <1>24. CASE Unobserve
    BY <1>24 DEF Unobserve
  <1>25. CASE Join
    BY <1>25 DEF Join
  <1>26. CASE Failing
    BY <1>26 DEF Failing
  <1>27. CASE Reap
    BY <1>27 DEF Reap
  <1>28. CASE \E s \in Streams : NewSocket(s)
    BY <1>28 DEF NewSocket, CloseStreams, ConnectUnchanged
  <1>29. CASE Notice
    BY <1>29 DEF Notice
  <1>30. CASE Notify
    BY <1>30 DEF Notify, Interrupt
  <1>31. CASE Disconnected
    BY <1>31 DEF Disconnected, RequestStop, Interrupt
  <1>32. CASE Stop
    BY <1>32 DEF Stop, RequestStop, Interrupt
  <1>33. CASE Exit
    BY <1>33 DEF Exit
  <1>34. CASE Terminated \/ UNCHANGED vars
    BY <1>34 DEF Terminated, vars
  <1> QED
    BY <1>1, <1>2, <1>3, <1>4, <1>5, <1>6, <1>7, <1>8, <1>9, <1>10, <1>11, <1>12, <1>13, <1>14, <1>15, <1>16, <1>17, <1>18, <1>19, <1>20, <1>21, <1>22, <1>23, <1>24, <1>25, <1>26, <1>27, <1>28, <1>29, <1>30, <1>31, <1>32, <1>33, <1>34 DEF Next, Blocking, Stepping, Observing

(* Every mapping in force is the worker's to remove, or stray.              *)
LEMMA MappingKept ==
  ASSUME TypeOK, ProcessInv, LinkInv, MappingInv, [Next]_vars
  PROVE  MappingInv'
  <1> USE DEF TypeOK, ProcessInv, LinkInv, MappingInv, Owned, OwnMapping, Unobserved, Prepare, Watched, Leaving, token, io, link, mappings, sockets, device, IoSteps, AdbSteps, Streams
  <1>1. CASE Register
    BY <1>1 DEF Register, ResourceOf
  <1>2. CASE Disconnect
    BY <1>2 DEF Disconnect, Works, Fails, Release, PrepareUnchanged
  <1>3. CASE TcpIp
    BY <1>3 DEF TcpIp, Works, Fails, Release, PrepareUnchanged
  <1>4. CASE Push
    BY <1>4 DEF Push, Works, Fails, Release, PrepareUnchanged
  <1>5. CASE Reverse
    BY <1>5 DEF Reverse, Works, Fails, Release, PrepareUnchanged, Maps, MayMap, mappings, Mappings
  <1>6. CASE Listen
    BY <1>6 DEF Listen, Works, Fails, Release, PrepareUnchanged
  <1>7. CASE Forward
    BY <1>7 DEF Forward, Works, Fails, Release, PrepareUnchanged, Maps, MayMap, mappings, Mappings
  <1>8. CASE Info
    BY <1>8 DEF Info, Works, Fails, Release, CloseStreams, ConnectUnchanged
  <1>9. CASE \E s \in Streams : Accept(s)
    BY <1>9 DEF Accept, Works, Fails, Release, CloseStreams, After, ConnectUnchanged
  <1>10. CASE \E s \in Streams : Dial(s)
    BY <1>10 DEF Dial, Works, Fails, Release, CloseStreams, After, ConnectUnchanged
  <1>11. CASE Unreverse
    BY <1>11 DEF Unreverse, Unmaps, PrepareUnchanged, mappings, Mappings
  <1>12. CASE Delay
    BY <1>12 DEF Delay, PrepareUnchanged
  <1>13. CASE Abort
    BY <1>13 DEF Abort, CloseTunnel, Unmaps, OwnMapping, Mappings, PrepareUnchanged
  <1>14. CASE Spawn
    BY <1>14 DEF Spawn
  <1>15. CASE Observe
    BY <1>15 DEF Observe
  <1>16. CASE Retry
    BY <1>16 DEF Retry, ConnectUnchanged
  <1>17. CASE TunnelDone
    BY <1>17 DEF TunnelDone, CloseTunnel, Unmaps, OwnMapping, Mappings, ConnectUnchanged
  <1>18. CASE GiveUp
    BY <1>18 DEF GiveUp, CloseTunnel, Unmaps, OwnMapping, Mappings, ConnectUnchanged
  <1>19. CASE Publish
    BY <1>19 DEF Publish
  <1>20. CASE Connected
    BY <1>20 DEF Connected
  <1>21. CASE Wait
    BY <1>21 DEF Wait
  <1>22. CASE Shut
    BY <1>22 DEF Shut
  <1>23. CASE Linger
    BY <1>23 DEF Linger
  <1>24. CASE Unobserve
    BY <1>24 DEF Unobserve
  <1>25. CASE Join
    BY <1>25 DEF Join
  <1>26. CASE Failing
    BY <1>26 DEF Failing
  <1>27. CASE Reap
    BY <1>27 DEF Reap
  <1>28. CASE \E s \in Streams : NewSocket(s)
    BY <1>28 DEF NewSocket, CloseStreams, ConnectUnchanged
  <1>29. CASE Notice
    BY <1>29 DEF Notice
  <1>30. CASE Notify
    BY <1>30 DEF Notify, Interrupt
  <1>31. CASE Disconnected
    BY <1>31 DEF Disconnected, RequestStop, Interrupt
  <1>32. CASE Stop
    BY <1>32 DEF Stop, RequestStop, Interrupt
  <1>33. CASE Exit
    BY <1>33 DEF Exit
  <1>34. CASE Terminated \/ UNCHANGED vars
    BY <1>34 DEF Terminated, vars
  <1> QED
    BY <1>1, <1>2, <1>3, <1>4, <1>5, <1>6, <1>7, <1>8, <1>9, <1>10, <1>11, <1>12, <1>13, <1>14, <1>15, <1>16, <1>17, <1>18, <1>19, <1>20, <1>21, <1>22, <1>23, <1>24, <1>25, <1>26, <1>27, <1>28, <1>29, <1>30, <1>31, <1>32, <1>33, <1>34 DEF Next, Blocking, Stepping, Observing

(* One verdict, and one report of the end of the process.                   *)
LEMMA CallsKept ==
  ASSUME TypeOK, ProcessInv, LinkInv, CallsInv, [Next]_vars
  PROVE  CallsInv'
  <1> USE DEF TypeOK, ProcessInv, LinkInv, CallsInv, Announced, Prepare, Watched, Leaving, token, io, link, mappings, sockets, device, IoSteps, AdbSteps, Streams, Sockets
  <1> USE CallsStay
  <1>1. CASE Register
    BY <1>1 DEF Register, ResourceOf
  <1>2. CASE Disconnect
    BY <1>2 DEF Disconnect, Works, Fails, Release, PrepareUnchanged
  <1>3. CASE TcpIp
    BY <1>3 DEF TcpIp, Works, Fails, Release, PrepareUnchanged
  <1>4. CASE Push
    BY <1>4 DEF Push, Works, Fails, Release, PrepareUnchanged
  <1>5. CASE Reverse
    BY <1>5 DEF Reverse, Works, Fails, Release, PrepareUnchanged, Maps, MayMap, mappings, Mappings
  <1>6. CASE Listen
    BY <1>6 DEF Listen, Works, Fails, Release, PrepareUnchanged
  <1>7. CASE Forward
    BY <1>7 DEF Forward, Works, Fails, Release, PrepareUnchanged, Maps, MayMap, mappings, Mappings
  <1>8. CASE Info
    BY <1>8 DEF Info, Works, Fails, Release, CloseStreams, ConnectUnchanged
  <1>9. CASE \E s \in Streams : Accept(s)
    BY <1>9 DEF Accept, Works, Fails, Release, CloseStreams, After, ConnectUnchanged
  <1>10. CASE \E s \in Streams : Dial(s)
    BY <1>10 DEF Dial, Works, Fails, Release, CloseStreams, After, ConnectUnchanged
  <1>11. CASE Unreverse
    BY <1>11 DEF Unreverse, Unmaps, PrepareUnchanged, mappings, Mappings
  <1>12. CASE Delay
    BY <1>12 DEF Delay, PrepareUnchanged
  <1>13. CASE Abort
    BY <1>13 DEF Abort, CloseTunnel, Unmaps, OwnMapping, Mappings, PrepareUnchanged
  <1>14. CASE Spawn
    BY <1>14 DEF Spawn
  <1>15. CASE Observe
    BY <1>15 DEF Observe
  <1>16. CASE Retry
    BY <1>16 DEF Retry, ConnectUnchanged
  <1>17. CASE TunnelDone
    BY <1>17 DEF TunnelDone, CloseTunnel, Unmaps, OwnMapping, Mappings, ConnectUnchanged
  <1>18. CASE GiveUp
    BY <1>18 DEF GiveUp, CloseTunnel, Unmaps, OwnMapping, Mappings, ConnectUnchanged
  <1>19. CASE Publish
    BY <1>19 DEF Publish
  <1>20. CASE Connected
    <2>1. calls' = Append(calls, "connected")
      BY <1>20 DEF Connected
    <2>2. /\ calls' \in Seq({"connected", "failed", "disconnected"})
          /\ Len(calls') = Len(calls) + 1 /\ Called' = Called \cup {"connected"}
      BY <2>1, CallsGrow
    <2> QED
      BY <1>20, <2>2 DEF Connected
  <1>21. CASE Wait
    BY <1>21 DEF Wait
  <1>22. CASE Shut
    BY <1>22 DEF Shut
  <1>23. CASE Linger
    BY <1>23 DEF Linger
  <1>24. CASE Unobserve
    BY <1>24 DEF Unobserve
  <1>25. CASE Join
    BY <1>25 DEF Join
  <1>26. CASE Failing
    <2>1. calls' = Append(calls, "failed")
      BY <1>26 DEF Failing
    <2>2. /\ calls' \in Seq({"connected", "failed", "disconnected"})
          /\ Len(calls') = Len(calls) + 1 /\ Called' = Called \cup {"failed"}
      BY <2>1, CallsGrow
    <2> QED
      BY <1>26, <2>2 DEF Failing
  <1>27. CASE Reap
    BY <1>27 DEF Reap
  <1>28. CASE \E s \in Streams : NewSocket(s)
    BY <1>28 DEF NewSocket, CloseStreams, ConnectUnchanged
  <1>29. CASE Notice
    BY <1>29 DEF Notice
  <1>30. CASE Notify
    BY <1>30 DEF Notify, Interrupt
  <1>31. CASE Disconnected
    <2>1. calls' = Append(calls, "disconnected")
      BY <1>31 DEF Disconnected
    <2>2. /\ calls' \in Seq({"connected", "failed", "disconnected"})
          /\ Len(calls') = Len(calls) + 1 /\ Called' = Called \cup {"disconnected"}
      BY <2>1, CallsGrow
    <2> QED
      BY <1>31, <2>2 DEF Disconnected, RequestStop, Interrupt
  <1>32. CASE Stop
    BY <1>32 DEF Stop, RequestStop, Interrupt
  <1>33. CASE Exit
    BY <1>33 DEF Exit
  <1>34. CASE Terminated \/ UNCHANGED vars
    BY <1>34 DEF Terminated, vars
  <1> QED
    BY <1>1, <1>2, <1>3, <1>4, <1>5, <1>6, <1>7, <1>8, <1>9, <1>10, <1>11, <1>12, <1>13, <1>14, <1>15, <1>16, <1>17, <1>18, <1>19, <1>20, <1>21, <1>22, <1>23, <1>24, <1>25, <1>26, <1>27, <1>28, <1>29, <1>30, <1>31, <1>32, <1>33, <1>34 DEF Next, Blocking, Stepping, Observing

(* Every step of the worker, the process and the observer is a step of the  *)
(* contract, or none of its business.                                       *)
LEMMA ContractStep ==
  ASSUME TypeOK, WorkerInv, [Next]_vars
  PROVE  [Contract!Next]_(Contract!vars)
  <1> USE DEF TypeOK, WorkerInv, ProcessInv, LinkInv, CallsInv, Announced, Prepare, Watched, Leaving, token, io, link, mappings, sockets, device, IoSteps, AdbSteps, Streams, Sockets, Contract!Next, Contract!vars, Contract!Launch, Contract!Die, Contract!End
  <1> USE CallsStay
  <1>1. CASE Register
    BY <1>1 DEF Register, ResourceOf
  <1>2. CASE Disconnect
    BY <1>2 DEF Disconnect, Works, Fails, Release, PrepareUnchanged
  <1>3. CASE TcpIp
    BY <1>3 DEF TcpIp, Works, Fails, Release, PrepareUnchanged
  <1>4. CASE Push
    BY <1>4 DEF Push, Works, Fails, Release, PrepareUnchanged
  <1>5. CASE Reverse
    BY <1>5 DEF Reverse, Works, Fails, Release, PrepareUnchanged, Maps, MayMap, mappings, Mappings
  <1>6. CASE Listen
    BY <1>6 DEF Listen, Works, Fails, Release, PrepareUnchanged
  <1>7. CASE Forward
    BY <1>7 DEF Forward, Works, Fails, Release, PrepareUnchanged, Maps, MayMap, mappings, Mappings
  <1>8. CASE Info
    BY <1>8 DEF Info, Works, Fails, Release, CloseStreams, ConnectUnchanged
  <1>9. CASE \E s \in Streams : Accept(s)
    BY <1>9 DEF Accept, Works, Fails, Release, CloseStreams, After, ConnectUnchanged
  <1>10. CASE \E s \in Streams : Dial(s)
    BY <1>10 DEF Dial, Works, Fails, Release, CloseStreams, After, ConnectUnchanged
  <1>11. CASE Unreverse
    BY <1>11 DEF Unreverse, Unmaps, PrepareUnchanged, mappings, Mappings
  <1>12. CASE Delay
    BY <1>12 DEF Delay, PrepareUnchanged
  <1>13. CASE Abort
    BY <1>13 DEF Abort, CloseTunnel, Unmaps, OwnMapping, Mappings, PrepareUnchanged
  <1>14. CASE Spawn
    BY <1>14 DEF Spawn
  <1>15. CASE Observe
    BY <1>15 DEF Observe
  <1>16. CASE Retry
    BY <1>16 DEF Retry, ConnectUnchanged
  <1>17. CASE TunnelDone
    BY <1>17 DEF TunnelDone, CloseTunnel, Unmaps, OwnMapping, Mappings, ConnectUnchanged
  <1>18. CASE GiveUp
    BY <1>18 DEF GiveUp, CloseTunnel, Unmaps, OwnMapping, Mappings, ConnectUnchanged
  <1>19. CASE Publish
    BY <1>19 DEF Publish
  <1>20. CASE Connected
    <2>1. calls' = Append(calls, "connected")
      BY <1>20 DEF Connected
    <2>2. Called' = Called \cup {"connected"}
      BY <2>1, CallsGrow
    <2>3. Contract!Connected
      BY <1>20, <2>2 DEF Connected, Contract!Connected
    <2> QED
      BY <2>3 DEF Contract!Next
  <1>21. CASE Wait
    BY <1>21 DEF Wait
  <1>22. CASE Shut
    BY <1>22 DEF Shut
  <1>23. CASE Linger
    BY <1>23 DEF Linger
  <1>24. CASE Unobserve
    BY <1>24 DEF Unobserve
  <1>25. CASE Join
    BY <1>25 DEF Join
  <1>26. CASE Failing
    <2>1. calls' = Append(calls, "failed")
      BY <1>26 DEF Failing
    <2>2. Called' = Called \cup {"failed"}
      BY <2>1, CallsGrow
    <2>3. Contract!Failed
      BY <1>26, <2>2 DEF Failing, Contract!Failed
    <2> QED
      BY <2>3 DEF Contract!Next
  <1>27. CASE Reap
    BY <1>27 DEF Reap
  <1>28. CASE \E s \in Streams : NewSocket(s)
    BY <1>28 DEF NewSocket, CloseStreams, ConnectUnchanged
  <1>29. CASE Notice
    BY <1>29 DEF Notice
  <1>30. CASE Notify
    BY <1>30 DEF Notify, Interrupt
  <1>31. CASE Disconnected
    <2>1. calls' = Append(calls, "disconnected")
      BY <1>31 DEF Disconnected
    <2>2. Called' = Called \cup {"disconnected"}
      BY <2>1, CallsGrow
    <2>3. Contract!Lost
      BY <1>31, <2>2 DEF Disconnected, Contract!Lost, RequestStop, Interrupt
    <2> QED
      BY <2>3 DEF Contract!Next
  <1>32. CASE Stop
    BY <1>32 DEF Stop, RequestStop, Interrupt
  <1>33. CASE Exit
    BY <1>33 DEF Exit
  <1>34. CASE Terminated \/ UNCHANGED vars
    BY <1>34 DEF Terminated, vars
  <1> QED
    BY <1>1, <1>2, <1>3, <1>4, <1>5, <1>6, <1>7, <1>8, <1>9, <1>10, <1>11, <1>12, <1>13, <1>14, <1>15, <1>16, <1>17, <1>18, <1>19, <1>20, <1>21, <1>22, <1>23, <1>24, <1>25, <1>26, <1>27, <1>28, <1>29, <1>30, <1>31, <1>32, <1>33, <1>34 DEF Next, Blocking, Stepping, Observing

-----------------------------------------------------------------------------
(* What the token holds, who lives, who owns what, and what has been said,  *)
(* at each place of run_server() (server.cpp:535).                          *)
THEOREM Invariance == Spec => [](TypeOK /\ WorkerInv)
  <1>1. Init => TypeOK /\ WorkerInv
    <2> SUFFICES ASSUME Init PROVE TypeOK /\ WorkerInv
      OBVIOUS
    <2> USE DEF Init, IoSteps, AdbSteps, Streams, Sockets
    <2>1. TypeOK
      <3>1. calls \in Seq({"connected", "failed", "disconnected"}) /\ Len(calls) <= 2
        BY DEF Init
      <3>2. port \in 1..Ports /\ attempts \in 1..Attempts
        BY BoundsAssumption
      <3>3. sock \in [Sockets -> {"none", "open", "broken", "closed"}]
        OBVIOUS
      <3> QED
        BY <3>1, <3>2, <3>3 DEF TypeOK
    <2>2. TokenInv /\ ProcessInv /\ LinkInv /\ MappingInv
      BY DEF TokenInv, ProcessInv, LinkInv, MappingInv, NoCallOutlivesInterrupt, TokenHoldsLive, Opened,
         Prepare, Watched, Leaving, Unobserved
    <2>3. Called = {} /\ Len(calls) = 0 /\ ~Announced
      BY DEF Called, Announced
    <2>4. CallsInv
      BY <2>3 DEF CallsInv
    <2> QED
      BY <2>1, <2>2, <2>4 DEF WorkerInv
  <1>2. TypeOK /\ WorkerInv /\ [Next]_vars => TypeOK' /\ WorkerInv'
    BY TypesKept, TokenKept, ProcessKept, LinkKept, MappingKept, CallsKept DEF WorkerInv
  <1> QED
    BY <1>1, <1>2, PTL DEF Spec

(* An interrupted token leaves no call of the worker blocked.               *)
THEOREM InterruptSafety == Spec => []NoCallOutlivesInterrupt
  <1>1. WorkerInv => NoCallOutlivesInterrupt
    BY DEF WorkerInv, TokenInv
  <1> QED
    BY <1>1, Invariance, PTL

(* The token never holds a wrapper that has been closed (sc_intr.cpp:29).   *)
THEOREM TokenSafety == Spec => []TokenHoldsLive
  <1>1. WorkerInv => TokenHoldsLive
    BY DEF WorkerInv, TokenInv
  <1> QED
    BY <1>1, Invariance, PTL

(* No way out of run_server() leaves a process, an observer, a socket or,   *)
(* but for the one case it names, a tunnel behind.                          *)
THEOREM CleanupSafety == Spec => []NothingLeftBehind
  <1>1. TypeOK /\ WorkerInv => NothingLeftBehind
    BY DEF TypeOK, WorkerInv, ProcessInv, LinkInv, NothingLeftBehind, Unobserved, Opened,
       MappingInv, Owned, Leaving, Prepare, Watched, AdbSteps, Streams, Sockets
  <1> QED
    BY <1>1, Invariance, PTL

(* run_server() implements ServerContract.                                  *)
THEOREM Refinement == Spec => KeepsContract
  <1>1. Init => Contract!Init
    BY DEF Init, Contract!Init, Called
  <1>2. TypeOK /\ WorkerInv /\ [Next]_vars => [Contract!Next]_(Contract!vars)
    BY ContractStep
  <1> QED
    BY <1>1, <1>2, Invariance, PTL DEF Spec, KeepsContract, Contract!Spec
=============================================================================
