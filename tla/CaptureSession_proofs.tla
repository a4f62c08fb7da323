------------------------ MODULE CaptureSession_proofs ------------------------
(***************************************************************************)
(* The safety of CaptureSession, for every set of retirers and senders and *)
(* every set of failing streams: TypeOK, then the inductive invariant      *)
(* SessionInv, then the properties that follow from it.  One lemma per     *)
(* thread says that its steps preserve the invariant, one case per action. *)
(***************************************************************************)
EXTENDS CaptureSession, TLAPS

-----------------------------------------------------------------------------
(* Type correctness.                                                        *)

(* The constructor leaves every variable typed.                             *)
LEMMA InitTyped == Init => TypeOK
  <1> SUFFICES ASSUME Init PROVE TypeOK
    OBVIOUS
  <1>1. FlagsTyped
    BY Zenon DEF Init, FlagsTyped
  <1>2. PlacesTyped
    BY DEF Init, PlacesTyped, Reporters, States, Faults, Sockets
  <1> QED
    BY <1>1, <1>2 DEF TypeOK

(* start() keeps every variable typed.                                      *)
LEMMA StarterTyped ==
  ASSUME TypeOK, StarterNext
  PROVE  TypeOK'
  <1> USE DEF TypeOK, FlagsTyped, PlacesTyped, Reporters, States, Faults, Sockets
  <1> USE DEF lifecycle, reports, retirement, server, sockets, consumers,
             callers, streams, StarterUnchanged
  <1>1. CASE StartEnter
    <2>1. FlagsTyped'
      BY <1>1, ZenonT(60) DEF StartEnter
    <2>2. PlacesTyped'
      BY <1>1, SMT DEF StartEnter
    <2> QED
      BY <2>1, <2>2
  <1>2. CASE StartServerInit
    BY <1>2 DEF StartServerInit, Complete, BeginReport
  <1>3. CASE StartServerInitFailed
    BY <1>3 DEF StartServerInitFailed, EndReport
  <1>4. CASE StartServer
    <2>1. FlagsTyped'
      BY <1>4, Zenon DEF StartServer
    <2>2. PlacesTyped'
      BY <1>4, SMT DEF StartServer
    <2> QED
      BY <2>1, <2>2
  <1>5. CASE StartAwait
    BY <1>5 DEF StartAwait
  <1>6. CASE StartNotCancelled
    BY <1>6 DEF StartNotCancelled
  <1>7. CASE StartNotFaulted
    BY <1>7 DEF StartNotFaulted
  <1>8. CASE StartVideo
    <2>1. FlagsTyped'
      BY <1>8, ZenonT(60) DEF StartVideo
    <2>2. started' \in SUBSET {"video", "audio", "controller_initialized", "controller"}
      BY <1>8, Zenon DEF StartVideo
    <2>3. PlacesTyped'
      BY <1>8, <2>2, SMT DEF StartVideo
    <2> QED
      BY <2>1, <2>3
  <1>9. CASE StartAudio
    <2>1. FlagsTyped'
      BY <1>9, ZenonT(60) DEF StartAudio
    <2>2. PlacesTyped'
      BY <1>9, SMT DEF StartAudio
    <2> QED
      BY <2>1, <2>2
  <1>10. CASE StartController
    <2>1. FlagsTyped'
      BY <1>10, Zenon DEF StartController
    <2>2. PlacesTyped'
      BY <1>10, SMT DEF StartController
    <2> QED
      BY <2>1, <2>2
  <1>11. CASE StartReceiver
    <2>1. FlagsTyped'
      BY <1>11, ZenonT(60) DEF StartReceiver
    <2>2. started' \in SUBSET {"video", "audio", "controller_initialized", "controller"}
      BY <1>11, Zenon DEF StartReceiver
    <2>3. PlacesTyped'
      BY <1>11, <2>2, SMT DEF StartReceiver
    <2> QED
      BY <2>1, <2>3
  <1>12. CASE StartVerify
    BY <1>12 DEF StartVerify
  <1>13. CASE StartMarkRunning
    BY <1>13 DEF StartMarkRunning
  <1>14. CASE StartFinish
    <2>1. FlagsTyped'
      BY <1>14, ZenonT(60) DEF StartFinish
    <2>2. PlacesTyped'
      BY <1>14, SMT DEF StartFinish
    <2> QED
      BY <2>1, <2>2
  <1>15. CASE StarterClose
    <2>1. FlagsTyped'
      BY <1>15, Zenon DEF StarterClose, CloseOutput
    <2>2. PlacesTyped'
      BY <1>15, SMT DEF StarterClose, CloseOutput
    <2> QED
      BY <2>1, <2>2
  <1>16. CASE StarterRequest
    BY <1>16 DEF StarterRequest, RecordRequest
  <1>17. CASE StarterBeginStop
    BY <1>17 DEF StarterBeginStop
  <1> QED
    BY <1>1, <1>2, <1>3, <1>4, <1>5, <1>6, <1>7, <1>8, <1>9, <1>10, <1>11, <1>12, <1>13, <1>14, <1>15, <1>16, <1>17 DEF StarterNext

(* run_server() keeps every variable typed.                                 *)
LEMMA WorkerTyped ==
  ASSUME TypeOK, WorkerNext
  PROVE  TypeOK'
  <1> USE DEF TypeOK, FlagsTyped, PlacesTyped, Reporters, States, Faults, Sockets
  <1> USE DEF lifecycle, reports, retirement, server, sockets, consumers,
             callers, streams, WorkerUnchanged
  <1>1. CASE WorkerPrepareFail
    BY <1>1 DEF WorkerPrepareFail
  <1>2. CASE WorkerSpawn
    BY <1>2 DEF WorkerSpawn
  <1>3. CASE WorkerConnect
    BY <1>3 DEF WorkerConnect
  <1>4. CASE WorkerConnectFail
    BY <1>4 DEF WorkerConnectFail
  <1>5. CASE WorkerPublish
    BY <1>5 DEF WorkerPublish
  <1>6. CASE WorkerConnected
    BY <1>6 DEF WorkerConnected, Complete
  <1>7. CASE WorkerWake
    BY <1>7 DEF WorkerWake
  <1>8. CASE WorkerShut
    BY <1>8 DEF WorkerShut, Interrupt
  <1>9. CASE WorkerLinger
    BY <1>9 DEF WorkerLinger
  <1>10. CASE WorkerUnobserve
    <2>1. FlagsTyped'
      BY <1>10, Zenon DEF WorkerUnobserve
    <2>2. PlacesTyped'
      BY <1>10, SMT DEF WorkerUnobserve
    <2> QED
      BY <2>1, <2>2
  <1>11. CASE WorkerJoinObserver
    BY <1>11 DEF WorkerJoinObserver
  <1>12. CASE WorkerFailing
    BY <1>12 DEF WorkerFailing, Complete, BeginReport
  <1>13. CASE WorkerFailed
    BY <1>13 DEF WorkerFailed, EndReport
  <1> QED
    BY <1>1, <1>2, <1>3, <1>4, <1>5, <1>6, <1>7, <1>8, <1>9, <1>10, <1>11, <1>12, <1>13 DEF WorkerNext

(* run_observer() and its listener keeps every variable typed.              *)
LEMMA ObserverTyped ==
  ASSUME TypeOK, ObserverNext
  PROVE  TypeOK'
  <1> USE DEF TypeOK, FlagsTyped, PlacesTyped, Reporters, States, Faults, Sockets
  <1> USE DEF lifecycle, reports, retirement, server, sockets, consumers,
             callers, streams, ObserverUnchanged
  <1>1. CASE ObserverNotice
    BY <1>1 DEF ObserverNotice
  <1>2. CASE ObserverInterrupt
    BY <1>2 DEF ObserverInterrupt
  <1>3. CASE ObserverDisconnected
    BY <1>3 DEF ObserverDisconnected, Complete, BeginReport
  <1>4. CASE ObserverReported
    BY <1>4 DEF ObserverReported, EndReport
  <1>5. CASE ObserverStop
    BY <1>5 DEF ObserverStop
  <1> QED
    BY <1>1, <1>2, <1>3, <1>4, <1>5 DEF ObserverNext

(* run_reaper() keeps every variable typed.                                 *)
LEMMA ReaperTyped ==
  ASSUME TypeOK, ReaperNext
  PROVE  TypeOK'
  <1> USE DEF TypeOK, FlagsTyped, PlacesTyped, Reporters, States, Faults, Sockets
  <1> USE DEF lifecycle, reports, retirement, server, sockets, consumers,
             callers, streams, ReaperUnchanged
  <1>1. CASE ReaperWake
    BY <1>1 DEF ReaperWake
  <1>2. CASE ReaperStopController
    BY <1>2 DEF ReaperStopController, Interrupt
  <1>3. CASE ReaperStopServer
    BY <1>3 DEF ReaperStopServer
  <1>4. CASE ReaperJoinServer
    BY <1>4 DEF ReaperJoinServer
  <1>5. CASE ReaperShutSockets
    BY <1>5 DEF ReaperShutSockets, Interrupt
  <1>6. CASE ReaperJoinReceiver
    BY <1>6 DEF ReaperJoinReceiver
  <1>7. CASE ReaperClearControl
    <2>1. FlagsTyped'
      BY <1>7, Zenon DEF ReaperClearControl
    <2>2. PlacesTyped'
      BY <1>7, SMT DEF ReaperClearControl
    <2> QED
      BY <2>1, <2>2
  <1>8. CASE ReaperJoinVideo
    BY <1>8 DEF ReaperJoinVideo
  <1>9. CASE ReaperJoinAudio
    BY <1>9 DEF ReaperJoinAudio
  <1>10. CASE ReaperCloseSockets
    BY <1>10 DEF ReaperCloseSockets
  <1>11. CASE ReaperClearFlags
    BY <1>11 DEF ReaperClearFlags
  <1>12. CASE ReaperVerdict
    BY <1>12 DEF ReaperVerdict
  <1>13. CASE ReaperFail
    BY <1>13 DEF ReaperFail
  <1>14. CASE ReaperClearFaults
    BY <1>14 DEF ReaperClearFaults
  <1>15. CASE ReaperIdle
    BY <1>15 DEF ReaperIdle
  <1>16. CASE ReaperPublish
    BY <1>16 DEF ReaperPublish
  <1> QED
    BY <1>1, <1>2, <1>3, <1>4, <1>5, <1>6, <1>7, <1>8, <1>9, <1>10, <1>11, <1>12, <1>13, <1>14, <1>15, <1>16 DEF ReaperNext

(* report_fault() keeps every variable typed.                               *)
LEMMA ReportTyped ==
  ASSUME TypeOK, NEW t \in Reporters, Report(t)
  PROVE  TypeOK'
  <1> USE DEF TypeOK, FlagsTyped, PlacesTyped, Reporters, States, Faults, Sockets
  <1> USE DEF lifecycle, reports, retirement, server, sockets, consumers,
             callers, streams, Report
  <1>1. CASE ReportLoad(t)
    BY <1>1 DEF ReportLoad, Reload, Branch
  <1>2. CASE ReportMark(t)
    BY <1>2 DEF ReportMark, FaultOf
  <1>3. CASE ReportSwap(t)
    BY <1>3 DEF ReportSwap, Reload, Branch
  <1> QED
    BY <1>1, <1>2, <1>3

(* request_retire() and send_control_msg(), called from outside, keep every variable typed.*)
LEMMA CallersTyped ==
  ASSUME TypeOK,
         \/ \E r \in Retirers : RetirerClose(r) \/ RetirerContinue(r)
         \/ \E s \in Senders : SenderHealthy(s) \/ SenderContinue(s) \/ SenderSent(s)
  PROVE  TypeOK'
  <1> USE DEF TypeOK, FlagsTyped, PlacesTyped
  <1> USE DEF lifecycle, reports, retirement, server, sockets, consumers,
             callers, streams, RetirerUnchanged, SenderUnchanged
  <1>1. ASSUME NEW r \in Retirers, RetirerClose(r) PROVE TypeOK'
    <2>1. FlagsTyped'
      BY <1>1, Zenon DEF RetirerClose, CloseOutput
    <2>2. PlacesTyped'
      BY <1>1 DEF RetirerClose, CloseOutput
    <2> QED
      BY <2>1, <2>2
  <1>2. ASSUME NEW r \in Retirers, RetirerRequest(r) PROVE TypeOK'
    BY <1>2 DEF RetirerRequest, RecordRequest
  <1>3. ASSUME NEW r \in Retirers, RetirerBeginStop(r) PROVE TypeOK'
    BY <1>3 DEF RetirerBeginStop, States
  <1>4. ASSUME NEW s \in Senders, SenderHealthy(s) PROVE TypeOK'
    BY <1>4 DEF SenderHealthy
  <1>5. ASSUME NEW s \in Senders, SenderCheck(s) PROVE TypeOK'
    BY <1>5 DEF SenderCheck
  <1>6. ASSUME NEW s \in Senders, SenderLock(s) PROVE TypeOK'
    BY <1>6 DEF SenderLock
  <1>7. ASSUME NEW s \in Senders, SenderSent(s) PROVE TypeOK'
    BY <1>7 DEF SenderSent
  <1> QED
    BY <1>1, <1>2, <1>3, <1>4, <1>5, <1>6, <1>7 DEF RetirerContinue, SenderContinue

(* The stream threads and the death of the device process keep every variable typed.*)
LEMMA StreamsTyped ==
  ASSUME TypeOK,
         VideoEnd \/ VideoEnded \/ AudioEnd \/ ReceiverEnd \/ ReceiverEnded \/ ProcessExit
  PROVE  TypeOK'
  <1> USE DEF TypeOK, FlagsTyped, PlacesTyped, Reporters, States, Sockets
  <1> USE DEF lifecycle, reports, retirement, server, sockets, consumers,
             callers, streams, StreamUnchanged, WorkerUnchanged
  <1>1. CASE VideoEnd
    BY <1>1 DEF VideoEnd, BeginReport
  <1>2. CASE VideoEnded
    BY <1>2 DEF VideoEnded, EndReport
  <1>3. CASE AudioEnd
    BY <1>3 DEF AudioEnd
  <1>4. CASE ReceiverEnd
    BY <1>4 DEF ReceiverEnd, BeginReport
  <1>5. CASE ReceiverEnded
    BY <1>5 DEF ReceiverEnded, EndReport
  <1>6. CASE ProcessExit
    BY <1>6 DEF ProcessExit
  <1> QED
    BY <1>1, <1>2, <1>3, <1>4, <1>5, <1>6

(* A step that changes nothing keeps every variable typed.                  *)
LEMMA StutterTyped ==
  ASSUME TypeOK, UNCHANGED vars
  PROVE  TypeOK'
  BY DEF vars, lifecycle, reports, retirement, server, sockets, consumers,
         callers, streams, TypeOK, FlagsTyped, PlacesTyped

(* Every variable keeps to the values the code can give it.                 *)
THEOREM Typing == Spec => []TypeOK
  <1>1. TypeOK /\ [Next]_vars => TypeOK'
    BY StarterTyped, WorkerTyped, ObserverTyped, ReaperTyped, ReportTyped,
       CallersTyped, StreamsTyped, StutterTyped DEF Next, Terminated
  <1> QED
    BY InitTyped, <1>1, PTL DEF Spec

-----------------------------------------------------------------------------
(* The inductive invariant.                                                 *)

(* The constructor establishes the invariant.                               *)
LEMMA InitSafe == Init => SessionInv
  BY SMTT(30) DEF Init, SessionInv, StartupInv, ConnectionInv, BorrowInv, JoinInv, ReportInv,
         StateInv, DeathInv, Losing, NoRunAfterRequest, RetirementLocked, Live, Reporters, Sockets,
         AfterClose, AfterJoinAudio, AfterJoinVideo, AfterClearControl,
         AfterJoinReceiver, AfterJoinServer, Unserved, Connected

(* start() keeps the invariant.                                             *)
LEMMA StarterSafe ==
  ASSUME TypeOK, SessionInv, StarterNext
  PROVE  SessionInv'
  <1> USE DEF SessionInv, StartupInv, ConnectionInv, BorrowInv, JoinInv, ReportInv,
             StateInv, DeathInv, Losing, NoRunAfterRequest, RetirementLocked,
             ControllerLocked, Live
  <1> USE DEF AfterClose, AfterJoinAudio, AfterJoinVideo, AfterClearControl,
             AfterJoinReceiver, AfterJoinServer, Unserved, Connected
  <1> USE DEF TypeOK, FlagsTyped, PlacesTyped, Reporters, States, Faults, Sockets
  <1> USE DEF lifecycle, reports, retirement, server, sockets, consumers,
             callers, streams, StarterUnchanged
  <1>1. CASE StartEnter
    BY <1>1 DEF StartEnter
  <1>2. CASE StartServerInit
    BY <1>2 DEF StartServerInit, Complete, BeginReport
  <1>3. CASE StartServerInitFailed
    BY <1>3 DEF StartServerInitFailed, EndReport
  <1>4. CASE StartServer
    BY <1>4 DEF StartServer
  <1>5. CASE StartAwait
    BY <1>5 DEF StartAwait
  <1>6. CASE StartNotCancelled
    BY <1>6 DEF StartNotCancelled
  <1>7. CASE StartNotFaulted
    BY <1>7 DEF StartNotFaulted
  <1>8. CASE StartVideo
    BY <1>8 DEF StartVideo
  <1>9. CASE StartAudio
    BY <1>9 DEF StartAudio
  <1>10. CASE StartController
    BY <1>10 DEF StartController
  <1>11. CASE StartReceiver
    BY <1>11 DEF StartReceiver
  <1>12. CASE StartVerify
    BY <1>12 DEF StartVerify
  <1>13. CASE StartMarkRunning
    BY <1>13 DEF StartMarkRunning
  <1>14. CASE StartFinish
    BY <1>14 DEF StartFinish
  <1>15. CASE StarterClose
    BY <1>15 DEF StarterClose, CloseOutput
  <1>16. CASE StarterRequest
    BY <1>16 DEF StarterRequest, RecordRequest
  <1>17. CASE StarterBeginStop
    BY <1>17, SMTT(30) DEF StarterBeginStop
  <1> QED
    BY <1>1, <1>2, <1>3, <1>4, <1>5, <1>6, <1>7, <1>8, <1>9, <1>10, <1>11, <1>12, <1>13, <1>14, <1>15, <1>16, <1>17 DEF StarterNext

(* run_server() keeps the invariant.                                        *)
LEMMA WorkerSafe ==
  ASSUME TypeOK, SessionInv, WorkerNext
  PROVE  SessionInv'
  <1> USE DEF SessionInv, StartupInv, ConnectionInv, BorrowInv, JoinInv, ReportInv,
             StateInv, DeathInv, Losing, NoRunAfterRequest, RetirementLocked,
             ControllerLocked, Live
  <1> USE DEF AfterClose, AfterJoinAudio, AfterJoinVideo, AfterClearControl,
             AfterJoinReceiver, AfterJoinServer, Unserved, Connected
  <1> USE DEF TypeOK, FlagsTyped, PlacesTyped, Reporters, States, Faults, Sockets
  <1> USE DEF lifecycle, reports, retirement, server, sockets, consumers,
             callers, streams, WorkerUnchanged
  <1>1. CASE WorkerPrepareFail
    BY <1>1 DEF WorkerPrepareFail
  <1>2. CASE WorkerSpawn
    BY <1>2 DEF WorkerSpawn
  <1>3. CASE WorkerConnect
    BY <1>3 DEF WorkerConnect
  <1>4. CASE WorkerConnectFail
    BY <1>4 DEF WorkerConnectFail
  <1>5. CASE WorkerPublish
    BY <1>5 DEF WorkerPublish
  <1>6. CASE WorkerConnected
    BY <1>6 DEF WorkerConnected, Complete
  <1>7. CASE WorkerWake
    BY <1>7 DEF WorkerWake
  <1>8. CASE WorkerShut
    BY <1>8 DEF WorkerShut, Interrupt
  <1>9. CASE WorkerLinger
    BY <1>9 DEF WorkerLinger
  <1>10. CASE WorkerUnobserve
    BY <1>10 DEF WorkerUnobserve
  <1>11. CASE WorkerJoinObserver
    BY <1>11 DEF WorkerJoinObserver
  <1>12. CASE WorkerFailing
    BY <1>12 DEF WorkerFailing, Complete, BeginReport
  <1>13. CASE WorkerFailed
    BY <1>13 DEF WorkerFailed, EndReport
  <1> QED
    BY <1>1, <1>2, <1>3, <1>4, <1>5, <1>6, <1>7, <1>8, <1>9, <1>10, <1>11, <1>12, <1>13 DEF WorkerNext

(* run_observer() and its listener keeps the invariant.                     *)
LEMMA ObserverSafe ==
  ASSUME TypeOK, SessionInv, ObserverNext
  PROVE  SessionInv'
  <1> USE DEF SessionInv, StartupInv, ConnectionInv, BorrowInv, JoinInv, ReportInv,
             StateInv, DeathInv, Losing, NoRunAfterRequest, RetirementLocked,
             ControllerLocked, Live
  <1> USE DEF AfterClose, AfterJoinAudio, AfterJoinVideo, AfterClearControl,
             AfterJoinReceiver, AfterJoinServer, Unserved, Connected
  <1> USE DEF TypeOK, FlagsTyped, PlacesTyped, Reporters, States, Faults, Sockets
  <1> USE DEF lifecycle, reports, retirement, server, sockets, consumers,
             callers, streams, ObserverUnchanged
  <1>1. CASE ObserverNotice
    BY <1>1 DEF ObserverNotice
  <1>2. CASE ObserverInterrupt
    BY <1>2 DEF ObserverInterrupt
  <1>3. CASE ObserverDisconnected
    BY <1>3 DEF ObserverDisconnected, Complete, BeginReport
  <1>4. CASE ObserverReported
    BY <1>4 DEF ObserverReported, EndReport
  <1>5. CASE ObserverStop
    BY <1>5, SMTT(30) DEF ObserverStop
  <1> QED
    BY <1>1, <1>2, <1>3, <1>4, <1>5 DEF ObserverNext

(* run_reaper() keeps the invariant.                                        *)
LEMMA ReaperSafe ==
  ASSUME TypeOK, SessionInv, ReaperNext
  PROVE  SessionInv'
  <1> USE DEF SessionInv, StartupInv, ConnectionInv, BorrowInv, JoinInv, ReportInv,
             StateInv, DeathInv, Losing, NoRunAfterRequest, RetirementLocked,
             ControllerLocked, Live
  <1> USE DEF AfterClose, AfterJoinAudio, AfterJoinVideo, AfterClearControl,
             AfterJoinReceiver, AfterJoinServer, Unserved, Connected
  <1> USE DEF TypeOK, FlagsTyped, PlacesTyped, Reporters, States, Faults, Sockets
  <1> USE DEF lifecycle, reports, retirement, server, sockets, consumers,
             callers, streams, ReaperUnchanged
  <1>1. CASE ReaperWake
    BY <1>1 DEF ReaperWake
  <1>2. CASE ReaperStopController
    BY <1>2 DEF ReaperStopController, Interrupt
  <1>3. CASE ReaperStopServer
    BY <1>3 DEF ReaperStopServer
  <1>4. CASE ReaperJoinServer
    BY <1>4 DEF ReaperJoinServer
  <1>5. CASE ReaperShutSockets
    BY <1>5 DEF ReaperShutSockets, Interrupt
  <1>6. CASE ReaperJoinReceiver
    BY <1>6 DEF ReaperJoinReceiver
  <1>7. CASE ReaperClearControl
    <2>1. StartupInv'
      BY <1>7 DEF ReaperClearControl
    <2>2. ConnectionInv'
      BY <1>7 DEF ReaperClearControl
    <2>3. BorrowInv'
      BY <1>7 DEF ReaperClearControl
    <2>4. JoinInv'
      BY <1>7 DEF ReaperClearControl
    <2>5. ReportInv'
      BY <1>7 DEF ReaperClearControl
    <2>6. StateInv'
      BY <1>7 DEF ReaperClearControl
    <2>7. DeathInv'
      BY <1>7 DEF ReaperClearControl
    <2> QED
      BY <2>1, <2>2, <2>3, <2>4, <2>5, <2>6, <2>7
  <1>8. CASE ReaperJoinVideo
    BY <1>8 DEF ReaperJoinVideo
  <1>9. CASE ReaperJoinAudio
    BY <1>9 DEF ReaperJoinAudio
  <1>10. CASE ReaperCloseSockets
    BY <1>10 DEF ReaperCloseSockets
  <1>11. CASE ReaperClearFlags
    BY <1>11 DEF ReaperClearFlags
  <1>12. CASE ReaperVerdict
    BY <1>12 DEF ReaperVerdict
  <1>13. CASE ReaperFail
    BY <1>13 DEF ReaperFail
  <1>14. CASE ReaperClearFaults
    BY <1>14 DEF ReaperClearFaults
  <1>15. CASE ReaperIdle
    BY <1>15 DEF ReaperIdle
  <1>16. CASE ReaperPublish
    BY <1>16 DEF ReaperPublish
  <1> QED
    BY <1>1, <1>2, <1>3, <1>4, <1>5, <1>6, <1>7, <1>8, <1>9, <1>10, <1>11, <1>12, <1>13, <1>14, <1>15, <1>16 DEF ReaperNext

(* report_fault() keeps the invariant.                                      *)
LEMMA ReportSafe ==
  ASSUME TypeOK, SessionInv, NEW t \in Reporters, Report(t)
  PROVE  SessionInv'
  <1> USE DEF SessionInv, StartupInv, ConnectionInv, BorrowInv, JoinInv, ReportInv,
             StateInv, DeathInv, Losing, NoRunAfterRequest, RetirementLocked,
             ControllerLocked, Live
  <1> USE DEF AfterClose, AfterJoinAudio, AfterJoinVideo, AfterClearControl,
             AfterJoinReceiver, AfterJoinServer, Unserved, Connected
  <1> USE DEF TypeOK, FlagsTyped, PlacesTyped, Reporters, States, Faults, Sockets
  <1> USE DEF lifecycle, reports, retirement, server, sockets, consumers,
             callers, streams, Report
  <1>1. CASE ReportLoad(t)
    BY <1>1 DEF ReportLoad, Reload, Branch
  <1>2. CASE ReportMark(t)
    BY <1>2 DEF ReportMark, FaultOf
  <1>3. CASE ReportSwap(t)
    BY <1>3 DEF ReportSwap, Reload, Branch
  <1> QED
    BY <1>1, <1>2, <1>3

(* request_retire() and send_control_msg(), called from outside, keep the invariant.*)
LEMMA CallersSafe ==
  ASSUME TypeOK, SessionInv,
         \/ \E r \in Retirers : RetirerClose(r) \/ RetirerContinue(r)
         \/ \E s \in Senders : SenderHealthy(s) \/ SenderContinue(s) \/ SenderSent(s)
  PROVE  SessionInv'
  <1> USE DEF SessionInv, StartupInv, ConnectionInv, BorrowInv, JoinInv, ReportInv,
             StateInv, DeathInv, Losing, NoRunAfterRequest, RetirementLocked,
             ControllerLocked, Live
  <1> USE DEF AfterClose, AfterJoinAudio, AfterJoinVideo, AfterClearControl,
             AfterJoinReceiver, AfterJoinServer, Unserved, Connected
  <1> USE DEF TypeOK, FlagsTyped, PlacesTyped, Reporters, States, Faults, Sockets
  <1> USE DEF lifecycle, reports, retirement, server, sockets, consumers,
             callers, streams, RetirerUnchanged, SenderUnchanged
  <1>1. ASSUME NEW r \in Retirers, RetirerClose(r) PROVE SessionInv'
    BY <1>1 DEF RetirerClose, CloseOutput
  <1>2. ASSUME NEW r \in Retirers, RetirerRequest(r) PROVE SessionInv'
    BY <1>2 DEF RetirerRequest, RecordRequest
  <1>3. ASSUME NEW r \in Retirers, RetirerBeginStop(r) PROVE SessionInv'
    BY <1>3 DEF RetirerBeginStop
  <1>4. ASSUME NEW s \in Senders, SenderHealthy(s) PROVE SessionInv'
    BY <1>4 DEF SenderHealthy
  <1>5. ASSUME NEW s \in Senders, SenderCheck(s) PROVE SessionInv'
    BY <1>5 DEF SenderCheck
  <1>6. ASSUME NEW s \in Senders, SenderLock(s) PROVE SessionInv'
    BY <1>6 DEF SenderLock
  <1>7. ASSUME NEW s \in Senders, SenderSent(s) PROVE SessionInv'
    BY <1>7 DEF SenderSent
  <1> QED
    BY <1>1, <1>2, <1>3, <1>4, <1>5, <1>6, <1>7 DEF RetirerContinue, SenderContinue

(* The stream threads and the death of the device process keep the invariant.*)
LEMMA StreamsSafe ==
  ASSUME TypeOK, SessionInv,
         VideoEnd \/ VideoEnded \/ AudioEnd \/ ReceiverEnd \/ ReceiverEnded \/ ProcessExit
  PROVE  SessionInv'
  <1> USE DEF SessionInv, StartupInv, ConnectionInv, BorrowInv, JoinInv, ReportInv,
             StateInv, DeathInv, Losing, NoRunAfterRequest, RetirementLocked,
             ControllerLocked, Live
  <1> USE DEF AfterClose, AfterJoinAudio, AfterJoinVideo, AfterClearControl,
             AfterJoinReceiver, AfterJoinServer, Unserved, Connected
  <1> USE DEF TypeOK, FlagsTyped, PlacesTyped, Reporters, States, Faults, Sockets
  <1> USE DEF lifecycle, reports, retirement, server, sockets, consumers,
             callers, streams, StreamUnchanged, WorkerUnchanged
  <1>1. CASE VideoEnd
    BY <1>1 DEF VideoEnd, BeginReport
  <1>2. CASE VideoEnded
    BY <1>2 DEF VideoEnded, EndReport
  <1>3. CASE AudioEnd
    BY <1>3 DEF AudioEnd
  <1>4. CASE ReceiverEnd
    BY <1>4 DEF ReceiverEnd, BeginReport
  <1>5. CASE ReceiverEnded
    BY <1>5 DEF ReceiverEnded, EndReport
  <1>6. CASE ProcessExit
    BY <1>6 DEF ProcessExit
  <1> QED
    BY <1>1, <1>2, <1>3, <1>4, <1>5, <1>6

(* A step that changes nothing keeps the invariant.                         *)
LEMMA StutterSafe ==
  ASSUME SessionInv, UNCHANGED vars
  PROVE  SessionInv'
  <1> USE DEF SessionInv, StartupInv, ConnectionInv, BorrowInv, JoinInv, ReportInv,
             StateInv, DeathInv, Losing, NoRunAfterRequest, RetirementLocked,
             ControllerLocked, Live
  <1> USE DEF AfterClose, AfterJoinAudio, AfterJoinVideo, AfterClearControl,
             AfterJoinReceiver, AfterJoinServer, Unserved, Connected
  <1> USE DEF TypeOK, PlacesTyped, Reporters, States, Sockets
  <1> QED
    BY DEF vars, lifecycle, reports, retirement, server, sockets, consumers,
           callers, streams

(* What each program counter of a session promises the other threads.       *)
THEOREM Invariance == Spec => []SessionInv
  <1>1. TypeOK /\ SessionInv /\ [Next]_vars => SessionInv'
    BY StarterSafe, WorkerSafe, ObserverSafe, ReaperSafe, ReportSafe,
       CallersSafe, StreamsSafe, StutterSafe DEF Next, Terminated
  <1> QED
    BY InitSafe, <1>1, Typing, PTL DEF Spec

-----------------------------------------------------------------------------
(* The properties of the runs.                                              *)

(* Nobody is inside a call on a socket that close_sockets() has freed.      *)
THEOREM BorrowSafety == Spec => []BorrowersHoldLiveSockets
  <1>1. TypeOK /\ SessionInv => BorrowersHoldLiveSockets
    BY DEF TypeOK, PlacesTyped, Sockets, SessionInv, ConnectionInv, BorrowInv, JoinInv,
           BorrowersHoldLiveSockets, Live, AfterClose, AfterJoinAudio, AfterJoinVideo,
           AfterClearControl, AfterJoinReceiver, AfterJoinServer
  <1> QED
    BY <1>1, Typing, Invariance, PTL

(* A retired session has no thread left that could call back into it.       *)
THEOREM Quiescence == Spec => []RetiredIsQuiescent
  <1>1. TypeOK /\ SessionInv => RetiredIsQuiescent
    BY DEF TypeOK, PlacesTyped, Reporters, Sockets, SessionInv, StartupInv, BorrowInv,
           JoinInv, ReportInv, RetiredIsQuiescent, AfterClose, AfterJoinAudio,
           AfterJoinVideo, AfterClearControl, AfterJoinReceiver, AfterJoinServer
  <1> QED
    BY <1>1, Typing, Invariance, PTL

(* A session whose retirement was requested never counts as healthy again.  *)
THEOREM NoRunSafety == Spec => []NoRunAfterRequest
  <1>1. SessionInv => NoRunAfterRequest
    BY DEF SessionInv, StateInv
  <1> QED
    BY <1>1, Invariance, PTL

(* A running session has its sockets and both required consumers.           *)
THEOREM Completeness == Spec => []RunningIsComplete
  <1>1. TypeOK /\ SessionInv => RunningIsComplete
    BY DEF TypeOK, PlacesTyped, Sockets, SessionInv, StartupInv, ConnectionInv, StateInv,
           DeathInv, NoRunAfterRequest, RunningIsComplete, Live, AfterClose
  <1> QED
    BY <1>1, Typing, Invariance, PTL

(* A faulted state names its cause; a session that ended idle has none.     *)
THEOREM FaultSafety == Spec => []FaultsMatchState
  <1>1. SessionInv => FaultsMatchState
    BY DEF SessionInv, StateInv, FaultsMatchState
  <1> QED
    BY <1>1, Invariance, PTL

-----------------------------------------------------------------------------
(* The order of the lifecycle.                                              *)

(* No step of any thread takes the lifecycle back, or touches it, its faults *)
(* or the sockets once retired_ is set.                                     *)
LEMMA LifecycleSteps ==
  ASSUME TypeOK, SessionInv, [Next]_vars
  PROVE  [LifecycleStep]_vars
  <1> USE DEF SessionInv, StartupInv, ConnectionInv, BorrowInv, JoinInv, ReportInv,
             StateInv, DeathInv, Losing, NoRunAfterRequest, RetirementLocked,
             ControllerLocked, Live
  <1> USE DEF AfterClose, AfterJoinAudio, AfterJoinVideo, AfterClearControl,
             AfterJoinReceiver, AfterJoinServer, Unserved, Connected
  <1> USE DEF TypeOK, FlagsTyped, PlacesTyped, Reporters, States, Faults, Sockets
  <1> USE DEF lifecycle, reports, retirement, server, sockets, consumers,
             callers, streams, LifecycleStep
  <1>1. CASE StarterNext
    <2>1. CASE StartMarkRunning
      BY <2>1 DEF StartMarkRunning, StarterUnchanged
    <2>2. CASE StarterBeginStop
      BY <2>2 DEF StarterBeginStop, StarterUnchanged
    <2>3. CASE StartEnter \/ StartServerInit \/ StartServerInitFailed \/ StartServer
      BY <2>3 DEF StartEnter, StartServerInit, StartServerInitFailed, StartServer
    <2>4. CASE StartAwait \/ StartNotCancelled \/ StartNotFaulted \/ StartVerify
               \/ StartFinish
      BY <2>4 DEF StartAwait, StartNotCancelled, StartNotFaulted, StartVerify, StartFinish
    <2>5. CASE StartVideo \/ StartAudio \/ StartController \/ StartReceiver
      BY <2>5 DEF StartVideo, StartAudio, StartController, StartReceiver
    <2>6. CASE StarterClose \/ StarterRequest
      BY <2>6 DEF StarterClose, StarterRequest, CloseOutput
    <2> QED
      BY <1>1, <2>1, <2>2, <2>3, <2>4, <2>5, <2>6 DEF StarterNext
  <1>2. CASE WorkerNext
    BY <1>2, SMTT(30) DEF WorkerNext, WorkerUnchanged, WorkerPrepareFail, WorkerSpawn,
       WorkerConnect, WorkerConnectFail, WorkerPublish, WorkerConnected, WorkerWake,
       WorkerShut, WorkerLinger, WorkerUnobserve, WorkerJoinObserver, WorkerFailing,
       WorkerFailed
  <1>3. CASE ObserverNext
    BY <1>3 DEF ObserverNext, ObserverUnchanged, ObserverNotice, ObserverInterrupt,
       ObserverDisconnected, ObserverReported, ObserverStop
  <1>4. CASE ReaperNext
    BY <1>4, SMTT(30) DEF ReaperNext, ReaperUnchanged, ReaperWake, ReaperStopController,
       ReaperStopServer, ReaperJoinServer, ReaperShutSockets, ReaperJoinReceiver,
       ReaperClearControl, ReaperJoinVideo, ReaperJoinAudio, ReaperCloseSockets,
       ReaperClearFlags, ReaperVerdict, ReaperFail, ReaperClearFaults, ReaperIdle,
       ReaperPublish
  <1>5. ASSUME NEW t \in Reporters, Report(t) PROVE LifecycleStep
    BY <1>5 DEF Report, ReportLoad, ReportMark, ReportSwap, Reload
  <1>6. ASSUME NEW r \in Retirers, RetirerClose(r) \/ RetirerContinue(r) PROVE LifecycleStep
    BY <1>6 DEF RetirerContinue, RetirerUnchanged, RetirerClose, RetirerRequest,
       RetirerBeginStop, CloseOutput
  <1>7. CASE \E s \in Senders : SenderHealthy(s) \/ SenderContinue(s) \/ SenderSent(s)
    BY <1>7 DEF SenderContinue, SenderUnchanged, SenderHealthy, SenderCheck,
       SenderLock, SenderSent
  <1>8. CASE VideoEnd \/ VideoEnded \/ AudioEnd \/ ReceiverEnd \/ ReceiverEnded
    BY <1>8 DEF StreamUnchanged, VideoEnd, VideoEnded, AudioEnd, ReceiverEnd, ReceiverEnded
  <1>9. CASE ProcessExit
    BY <1>9 DEF ProcessExit, WorkerUnchanged
  <1> QED
    BY <1>1, <1>2, <1>3, <1>4, <1>5, <1>6, <1>7, <1>8, <1>9 DEF Next, Terminated

(* The state of a session only moves forward, and not at all once retired.  *)
THEOREM Ordering == Spec => LifecycleOrder
  <1> QED
    BY LifecycleSteps, Typing, Invariance, PTL DEF Spec, LifecycleOrder

-----------------------------------------------------------------------------
(* What the owner sees of a session.                                        *)

(* Steps of the threads that the owner sees nothing of.                     *)
LEMMA Unseen ==
  ASSUME UNCHANGED <<state, retired, retire_failed, audio_ended, starter, retirer>>
  PROVE  UNCHANGED Contract!vars
  BY DEF Contract!vars, Health, Stopping, RetirementLocked

(* start() marks the session running at most once, and retires it like      *)
(* anybody else.                                                            *)
LEMMA StarterKeeps ==
  ASSUME TypeOK, SessionInv, StarterNext
  PROVE  [Contract!Next]_(Contract!vars)
  <1> USE DEF Contract!vars, Contract!Next, Health, Stopping, RetirementLocked
  <1> USE DEF lifecycle, retirement, consumers, callers, StarterUnchanged
  <1>1. CASE StartMarkRunning
    <2>1. state = "starting" => Contract!MarkRunning \/ UNCHANGED Contract!vars
      BY <1>1 DEF StartMarkRunning, Contract!MarkRunning
    <2> QED
      BY <1>1, <2>1 DEF StartMarkRunning
  <1>2. CASE StarterRequest
    <2>1. Contract!RequestRetire(TRUE)
      BY <1>2 DEF StarterRequest, RecordRequest, Contract!RequestRetire, SessionInv, StateInv,
         NoRunAfterRequest, TypeOK, PlacesTyped, FlagsTyped
    <2> QED
      BY <2>1
  <1>3. CASE StarterBeginStop
    BY <1>3 DEF StarterBeginStop
  <1>4. CASE StartAudio
    <2>1. ~retired
      BY <1>4 DEF StartAudio, SessionInv, StartupInv, JoinInv
    <2>2. Contract!AudioEnded \/ UNCHANGED Contract!vars
      BY <1>4, <2>1 DEF StartAudio, Contract!AudioEnded
    <2> QED
      BY <2>2
  <1>5. CASE StartEnter \/ StartServerInit \/ StartServerInitFailed \/ StartServer
    BY <1>5 DEF StartEnter, StartServerInit, StartServerInitFailed, StartServer
  <1>6. CASE StartAwait \/ StartNotCancelled \/ StartNotFaulted \/ StartVerify \/ StartFinish
    BY <1>6 DEF StartAwait, StartNotCancelled, StartNotFaulted, StartVerify, StartFinish
  <1>7. CASE StartVideo \/ StartController \/ StartReceiver \/ StarterClose
    BY <1>7 DEF StartVideo, StartController, StartReceiver, StarterClose, CloseOutput
  <1> QED
    BY <1>1, <1>2, <1>3, <1>4, <1>5, <1>6, <1>7 DEF StarterNext

(* request_retire() is one request, in two steps of which the first counts. *)
LEMMA RetirerKeeps ==
  ASSUME TypeOK, SessionInv, NEW r \in Retirers, RetirerClose(r) \/ RetirerContinue(r)
  PROVE  [Contract!Next]_(Contract!vars)
  <1> USE DEF Contract!vars, Contract!Next, Health, Stopping, RetirementLocked
  <1> USE DEF lifecycle, retirement, consumers, RetirerUnchanged
  <1>1. CASE RetirerClose(r)
    BY <1>1 DEF RetirerClose, CloseOutput, TypeOK, PlacesTyped
  <1>2. CASE RetirerRequest(r)
    <2>1. PICK failed \in BOOLEAN : RecordRequest(failed)
      BY <1>2 DEF RetirerRequest
    <2>2. Contract!RequestRetire(failed)
      BY <1>2, <2>1 DEF RetirerRequest, RecordRequest, Contract!RequestRetire, SessionInv,
         StateInv, NoRunAfterRequest, TypeOK, PlacesTyped, FlagsTyped
    <2> QED
      BY <2>2
  <1>3. CASE RetirerBeginStop(r)
    BY <1>3 DEF RetirerBeginStop, TypeOK, PlacesTyped
  <1> QED
    BY <1>1, <1>2, <1>3 DEF RetirerContinue

(* The reaper shows the owner nothing but the end.                          *)
LEMMA ReaperKeeps ==
  ASSUME TypeOK, SessionInv, ReaperNext
  PROVE  [Contract!Next]_(Contract!vars)
  <1>1. UNCHANGED <<retire_failed, audio_ended, starter, retirer>>
    BY DEF ReaperNext, ReaperUnchanged, ReaperWake, ReaperStopController, ReaperStopServer,
       ReaperJoinServer, ReaperShutSockets, ReaperJoinReceiver, ReaperClearControl,
       ReaperJoinVideo, ReaperJoinAudio, ReaperCloseSockets, ReaperClearFlags, ReaperVerdict,
       ReaperFail, ReaperClearFaults, ReaperIdle, ReaperPublish, retirement, consumers, callers
  <1>2. reaper # "wait" => ~RetirementLocked /\ state \notin {"starting", "running", "faulted"}
    BY DEF SessionInv, StartupInv, StateInv, NoRunAfterRequest
  <1>3. ~RetirementLocked => ~RetirementLocked'
    BY <1>1 DEF RetirementLocked
  <1>4. CASE ReaperFail \/ ReaperIdle
    <2>1. state' \in {"failed", "idle"} /\ retired' = retired /\ reaper # "wait"
      BY <1>4 DEF ReaperFail, ReaperIdle
    <2> QED
      BY <1>1, <1>2, <1>3, <2>1 DEF Contract!vars, Health, Stopping
  <1>5. CASE ReaperPublish
    <2>1. ~retired
      BY <1>5 DEF ReaperPublish, SessionInv, JoinInv
    <2>2. retired' = TRUE /\ reaper # "wait"
      BY <1>5 DEF ReaperPublish
    <2>3. Contract!Retire
      BY <1>1, <1>2, <2>1, <2>2 DEF Contract!Retire, Health, Stopping
    <2> QED
      BY <2>3 DEF Contract!Next
  <1>6. CASE ~(ReaperFail \/ ReaperIdle \/ ReaperPublish)
    <2>1. UNCHANGED <<state, retired>>
      BY <1>6 DEF ReaperNext, ReaperUnchanged, ReaperWake, ReaperStopController,
         ReaperStopServer, ReaperJoinServer, ReaperShutSockets, ReaperJoinReceiver,
         ReaperClearControl, ReaperJoinVideo, ReaperJoinAudio, ReaperCloseSockets,
         ReaperClearFlags, ReaperVerdict, ReaperClearFaults, lifecycle, retirement
    <2> QED
      BY <1>1, <2>1, Unseen
  <1> QED
    BY <1>4, <1>5, <1>6

(* A fault counts unless a request to retire came first.                    *)
LEMMA ReportKeeps ==
  ASSUME TypeOK, SessionInv, NEW t \in Reporters, Report(t)
  PROVE  [Contract!Next]_(Contract!vars)
  <1>1. UNCHANGED <<retired, retire_failed, audio_ended, starter, retirer>>
    BY DEF Report, retirement, consumers, callers
  <1>2. CASE UNCHANGED state
    BY <1>1, <1>2, Unseen
  <1>3. CASE ~UNCHANGED state
    <2>1. state \in {"starting", "running"} /\ state' = "faulted"
      BY <1>3 DEF Report, ReportLoad, ReportMark, ReportSwap, Reload, lifecycle, SessionInv,
         ReportInv
    <2>2. Contract!ReportFault \/ UNCHANGED Contract!vars
      BY <1>1, <2>1 DEF Contract!ReportFault, Contract!vars, Health, Stopping, RetirementLocked
    <2> QED
      BY <2>2 DEF Contract!Next
  <1> QED
    BY <1>2, <1>3

(* The audio stream ends only while the session lives.                      *)
LEMMA AudioKeeps ==
  ASSUME TypeOK, SessionInv, AudioEnd
  PROVE  [Contract!Next]_(Contract!vars)
  <1>1. ~retired
    BY DEF AudioEnd, SessionInv, JoinInv, AfterJoinAudio, AfterClose
  <1>2. Contract!AudioEnded
    BY <1>1 DEF AudioEnd, StreamUnchanged, Contract!AudioEnded, Health, Stopping,
       RetirementLocked, lifecycle, retirement, callers
  <1> QED
    BY <1>2 DEF Contract!Next

(* Every step of every thread is one the owner was promised, or invisible.  *)
LEMMA ContractSteps ==
  ASSUME TypeOK, SessionInv, [Next]_vars
  PROVE  [Contract!Next]_(Contract!vars)
  <1>1. CASE WorkerNext
    <2>1. UNCHANGED <<state, retired, retire_failed, audio_ended, starter, retirer>>
      BY <1>1, SMTT(30) DEF WorkerNext, WorkerUnchanged, WorkerPrepareFail, WorkerSpawn,
         WorkerConnect, WorkerConnectFail, WorkerPublish, WorkerConnected, WorkerWake,
         WorkerShut, WorkerLinger, WorkerUnobserve, WorkerJoinObserver, WorkerFailing,
         WorkerFailed, lifecycle, retirement, consumers, callers
    <2> QED
      BY <2>1, Unseen
  <1>2. CASE ObserverNext
    <2>1. UNCHANGED <<state, retired, retire_failed, audio_ended, starter, retirer>>
      BY <1>2 DEF ObserverNext, ObserverUnchanged, ObserverNotice, ObserverInterrupt,
         ObserverDisconnected, ObserverReported, ObserverStop, lifecycle, retirement,
         consumers, callers
    <2> QED
      BY <2>1, Unseen
  <1>3. CASE \E s \in Senders : SenderHealthy(s) \/ SenderContinue(s) \/ SenderSent(s)
    <2>1. UNCHANGED <<state, retired, retire_failed, audio_ended, starter, retirer>>
      BY <1>3 DEF SenderContinue, SenderUnchanged, SenderHealthy, SenderCheck, SenderLock,
         SenderSent, lifecycle, retirement, consumers
    <2> QED
      BY <2>1, Unseen
  <1>4. CASE VideoEnd \/ VideoEnded \/ ReceiverEnd \/ ReceiverEnded \/ ProcessExit
    <2>1. UNCHANGED <<state, retired, retire_failed, audio_ended, starter, retirer>>
      BY <1>4 DEF StreamUnchanged, WorkerUnchanged, VideoEnd, VideoEnded, ReceiverEnd,
         ReceiverEnded, ProcessExit, lifecycle, retirement, consumers, callers
    <2> QED
      BY <2>1, Unseen
  <1>5. CASE UNCHANGED vars
    BY <1>5, Unseen DEF vars, lifecycle, retirement, consumers, callers
  <1> QED
    BY <1>1, <1>2, <1>3, <1>4, <1>5, StarterKeeps, RetirerKeeps, ReaperKeeps, ReportKeeps,
       AudioKeeps DEF Next, Terminated

(* The threads of a session together keep the promise that its owner is     *)
(* built on: what CaptureSource says of a session is all it may do.         *)
THEOREM Refinement == Spec => KeepsContract
  <1>1. Init => Contract!Init
    BY DEF Init, Contract!Init, Health, Stopping, RetirementLocked
  <1>2. TypeOK /\ SessionInv /\ [Next]_vars => [Contract!Next]_(Contract!vars)
    BY ContractSteps
  <1> QED
    BY <1>1, <1>2, Typing, Invariance, PTL DEF Spec, KeepsContract, Contract!Spec
=============================================================================
