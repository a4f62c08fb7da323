------------------------- MODULE PairingTask_proofs -------------------------
(***************************************************************************)
(* Proofs about PairingTask for every set of addresses and every output:   *)
(* what a run leaves behind, and that what is said and saved is true.      *)
(***************************************************************************)
EXTENDS PairingTask, TLAPS

(* A new process has written nothing.                                       *)
LEMMA NoText == \A s : s = <<>> => s \in Seq(Pieces) /\ 0 \in 0..Len(s)
  BY DEF Pieces

(* The flags stay Boolean.                                                  *)
LEMMA FlagsKept ==
  ASSUME FlagsTyped, [Next]_vars
  PROVE  FlagsTyped'
  <1> USE DEF FlagsTyped
  <1> USE DEF sourceVars, dialogVars, taskVars, childVars, history
  <1>1. CASE OwnerGone
    BY <1>1 DEF OwnerGone, StopTimer, CloseProcess
  <1>2. CASE Poll
    BY <1>2 DEF Poll
  <1>3. CASE Drain
    BY <1>3 DEF Drain
  <1>4. CASE StillRunning
    BY <1>4 DEF StillRunning
  <1>5. CASE TimedOut
    BY <1>5 DEF TimedOut
  <1>6. CASE GiveUp
    BY <1>6 DEF GiveUp, Finish, StopTimer, CloseProcess, Callback
  <1>7. CASE Ended
    BY <1>7 DEF Ended, Finish, StopTimer, CloseProcess, Callback, Launch
  <1>8. CASE Open
    BY <1>8 DEF Open
  <1>9. CASE Edit
    BY <1>9 DEF Edit, AtDialog
  <1>10. CASE Refuse
    BY <1>10 DEF Refuse, AtDialog
  <1>11. CASE Pair
    BY <1>11 DEF Pair, Finish, StopTimer, CloseProcess, Callback, Launch, AtDialog
  <1>12. CASE Reject
    BY <1>12 DEF Reject, AtDialog, Leave, StopTimer, CloseProcess
  <1>13. CASE CloseBox
    BY <1>13 DEF CloseBox, Leave, StopTimer, CloseProcess
  <1>14. CASE Say
    BY <1>14 DEF Say
  <1>15. CASE Exit
    BY <1>15 DEF Exit
  <1>16. CASE Expire
    BY <1>16 DEF Expire
  <1>17. CASE Remove
    BY <1>17 DEF Remove
  <1>18. CASE Add
    BY <1>18 DEF Add
  <1>19. CASE UNCHANGED vars
    BY <1>19 DEF vars
  <1> QED
    BY <1>1, <1>2, <1>3, <1>4, <1>5, <1>6, <1>7, <1>8, <1>9, <1>10, <1>11, <1>12, <1>13, <1>14, <1>15, <1>16, <1>17, <1>18, <1>19 DEF Next, Timer

(* Everything else keeps its type.                                          *)
LEMMA PlacesKept ==
  ASSUME TypeOK, [Next]_vars
  PROVE  PlacesTyped'
  <1> USE DEF TypeOK, FlagsTyped, PlacesTyped, Pieces
  <1> USE DEF sourceVars, dialogVars, taskVars, childVars, history
  <1>1. CASE OwnerGone
    BY <1>1 DEF OwnerGone, StopTimer, CloseProcess
  <1>2. CASE Poll
    BY <1>2 DEF Poll
  <1>3. CASE Drain
    BY <1>3, CapAssumption DEF Drain
  <1>4. CASE StillRunning
    BY <1>4 DEF StillRunning
  <1>5. CASE TimedOut
    BY <1>5 DEF TimedOut
  <1>6. CASE GiveUp
    BY <1>6 DEF GiveUp, Finish, StopTimer, CloseProcess, Callback
  <1>7. CASE Ended
    <2>1. (said' = said /\ read' = read) \/ (said' = <<>> /\ read' = 0)
      BY <1>7 DEF Ended, Finish, Launch
    <2>2. said' \in Seq(Pieces) /\ read' \in 0..Len(said')
      BY <2>1, NoText
    <2> QED
      BY <1>7, <2>2 DEF Ended, Finish, StopTimer, CloseProcess, Callback, Launch
  <1>8. CASE Open
    BY <1>8 DEF Open
  <1>9. CASE Edit
    BY <1>9 DEF Edit, AtDialog
  <1>10. CASE Refuse
    BY <1>10 DEF Refuse, AtDialog
  <1>11. CASE Pair
    <2>1. (said' = said /\ read' = read) \/ (said' = <<>> /\ read' = 0)
      BY <1>11 DEF Pair, Finish, Launch
    <2>2. said' \in Seq(Pieces) /\ read' \in 0..Len(said')
      BY <2>1, NoText
    <2> QED
      BY <1>11, <2>2 DEF Pair, Finish, StopTimer, CloseProcess, Callback, Launch, AtDialog
  <1>12. CASE Reject
    BY <1>12 DEF Reject, AtDialog, Leave, StopTimer, CloseProcess
  <1>13. CASE CloseBox
    BY <1>13 DEF CloseBox, Leave, StopTimer, CloseProcess
  <1>14. CASE Say
    BY <1>14 DEF Say
  <1>15. CASE Exit
    BY <1>15, ZenonT(60) DEF Exit
  <1>16. CASE Expire
    BY <1>16 DEF Expire
  <1>17. CASE Remove
    BY <1>17 DEF Remove
  <1>18. CASE Add
    BY <1>18 DEF Add
  <1>19. CASE UNCHANGED vars
    BY <1>19 DEF vars
  <1> QED
    BY <1>1, <1>2, <1>3, <1>4, <1>5, <1>6, <1>7, <1>8, <1>9, <1>10, <1>11, <1>12, <1>13, <1>14, <1>15, <1>16, <1>17, <1>18, <1>19 DEF Next, Timer

(* A run has its timer, process, pipe and dialog, and ends with all of them. *)
LEMMA RunSafe ==
  ASSUME TypeOK, RunInv, [Next]_vars
  PROVE  RunInv'
  <1> USE DEF TypeOK, FlagsTyped, PlacesTyped, RunInv
  <1> USE DEF sourceVars, dialogVars, taskVars, childVars, history
  <1>1. CASE OwnerGone
    BY <1>1 DEF OwnerGone, StopTimer, CloseProcess
  <1>2. CASE Poll
    BY <1>2 DEF Poll
  <1>3. CASE Drain
    BY <1>3 DEF Drain
  <1>4. CASE StillRunning
    BY <1>4 DEF StillRunning
  <1>5. CASE TimedOut
    BY <1>5 DEF TimedOut
  <1>6. CASE GiveUp
    BY <1>6 DEF GiveUp, Finish, StopTimer, CloseProcess, Callback
  <1>7. CASE Ended
    BY <1>7 DEF Ended, Finish, StopTimer, CloseProcess, Callback, Launch
  <1>8. CASE Open
    BY <1>8 DEF Open
  <1>9. CASE Edit
    BY <1>9 DEF Edit, AtDialog
  <1>10. CASE Refuse
    BY <1>10 DEF Refuse, AtDialog
  <1>11. CASE Pair
    BY <1>11 DEF Pair, Finish, StopTimer, CloseProcess, Callback, Launch, AtDialog
  <1>12. CASE Reject
    BY <1>12 DEF Reject, AtDialog, Leave, StopTimer, CloseProcess
  <1>13. CASE CloseBox
    BY <1>13 DEF CloseBox, Leave, StopTimer, CloseProcess
  <1>14. CASE Say
    BY <1>14 DEF Say
  <1>15. CASE Exit
    BY <1>15 DEF Exit
  <1>16. CASE Expire
    BY <1>16 DEF Expire
  <1>17. CASE Remove
    BY <1>17 DEF Remove
  <1>18. CASE Add
    BY <1>18 DEF Add
  <1>19. CASE UNCHANGED vars
    BY <1>19 DEF vars
  <1> QED
    BY <1>1, <1>2, <1>3, <1>4, <1>5, <1>6, <1>7, <1>8, <1>9, <1>10, <1>11, <1>12, <1>13, <1>14, <1>15, <1>16, <1>17, <1>18, <1>19 DEF Next, Timer

(* What the device did is known from the child's exit and its output.       *)
LEMMA TruthSafe ==
  ASSUME TypeOK, RunInv, TruthInv, [Next]_vars
  PROVE  TruthInv'
  <1> USE DEF TypeOK, FlagsTyped, PlacesTyped, RunInv, TruthInv, Words, Success
  <1> USE DEF sourceVars, dialogVars, taskVars, childVars, history
  <1>1. CASE OwnerGone
    BY <1>1 DEF OwnerGone, StopTimer, CloseProcess
  <1>2. CASE Poll
    BY <1>2 DEF Poll
  <1>3. CASE Drain
    BY <1>3 DEF Drain
  <1>4. CASE StillRunning
    BY <1>4 DEF StillRunning
  <1>5. CASE TimedOut
    BY <1>5 DEF TimedOut
  <1>6. CASE GiveUp
    BY <1>6 DEF GiveUp, Finish, StopTimer, CloseProcess, Callback
  <1>7. CASE Ended
    <2>1. poll = "look" /\ timer /\ child \in {"done", "failed"} /\ really' = really
      BY <1>7 DEF Ended
    <2>2. CASE timer' = FALSE
      <3>1. "running" # child' /\ report' # {} /\ timer' = FALSE
        BY <1>7, <2>1, <2>2 DEF Ended, Finish, CloseProcess, Launch
      <3> QED
        BY <3>1
    <2>3. CASE timer' # FALSE
      <3>1. ~connecting /\ Success /\ connecting' = TRUE /\ Launch /\ report' = report
        BY <1>7, <2>3, Zenon DEF Ended, Finish, StopTimer
      <3>2. "paired" \in really
        BY <2>1, <3>1
      <3> QED
        BY <2>1, <3>1, <3>2 DEF Launch
    <2> QED
      BY <2>2, <2>3
  <1>8. CASE Open
    BY <1>8 DEF Open
  <1>9. CASE Edit
    BY <1>9 DEF Edit, AtDialog
  <1>10. CASE Refuse
    BY <1>10 DEF Refuse, AtDialog
  <1>11. CASE Pair
    BY <1>11 DEF Pair, Finish, StopTimer, CloseProcess, Callback, Launch, AtDialog
  <1>12. CASE Reject
    BY <1>12 DEF Reject, AtDialog, Leave, StopTimer, CloseProcess
  <1>13. CASE CloseBox
    BY <1>13 DEF CloseBox, Leave, StopTimer, CloseProcess
  <1>14. CASE Say
    BY <1>14 DEF Say
  <1>15. CASE Exit
    BY <1>15 DEF Exit
  <1>16. CASE Expire
    BY <1>16 DEF Expire
  <1>17. CASE Remove
    BY <1>17 DEF Remove
  <1>18. CASE Add
    BY <1>18 DEF Add
  <1>19. CASE UNCHANGED vars
    BY <1>19 DEF vars
  <1> QED
    BY <1>1, <1>2, <1>3, <1>4, <1>5, <1>6, <1>7, <1>8, <1>9, <1>10, <1>11, <1>12, <1>13, <1>14, <1>15, <1>16, <1>17, <1>18, <1>19 DEF Next, Timer

(* A report is judged from all that was read, and stands until the next run. *)
LEMMA TellSafe ==
  ASSUME TypeOK, PairingInv, [Next]_vars
  PROVE  TellsTruth'
  <1> USE DEF TypeOK, FlagsTyped, PlacesTyped, PairingInv, RunInv, TruthInv, TellsTruth, Words, Success
  <1> USE DEF sourceVars, dialogVars, taskVars, childVars, history
  <1>1. CASE OwnerGone
    BY <1>1 DEF OwnerGone, StopTimer, CloseProcess
  <1>2. CASE Poll
    BY <1>2 DEF Poll
  <1>3. CASE Drain
    BY <1>3 DEF Drain
  <1>4. CASE StillRunning
    BY <1>4 DEF StillRunning
  <1>5. CASE TimedOut
    BY <1>5 DEF TimedOut
  <1>6. CASE GiveUp
    BY <1>6 DEF GiveUp, Finish, StopTimer, CloseProcess, Callback
  <1>7. CASE Ended
    <2> DEFINE verdict == (IF connecting \/ Success THEN {"paired"} ELSE {})
                            \cup (IF connecting /\ Success THEN {"connected"} ELSE {})
    <2>1. timer /\ child \in {"done", "failed"} /\ really' = really /\ report = {}
      BY <1>7 DEF Ended
    <2>2. (said' = said /\ read' = read) \/ report' = report
      BY <1>7 DEF Ended, Finish
    <2>3. Success => (IF connecting THEN "connected" ELSE "paired") \in really
      BY <2>1
    <2>4. "paired" \in really /\ ~connecting /\ ~Success => read < Len(said) \/ Len(said) > Cap
      BY <2>1, CapAssumption
    <2>5. \/ report' = report
          \/ ~connecting /\ Success /\ report' = {"given"} \cup {"paired"}
          \/ report' = {"given"} \cup verdict /\ connecting' = connecting
      BY <1>7 DEF Ended, Finish
    <2> HIDE DEF Success
    <2>6. CASE report' = report
      BY <2>1, <2>6
    <2>7. CASE ~connecting /\ Success /\ report' = {"given"} \cup {"paired"}
      BY <2>1, <2>3, <2>7
    <2>8. CASE report' = {"given"} \cup verdict /\ connecting' = connecting
      BY <2>1, <2>2, <2>3, <2>4, <2>8
    <2> QED
      BY <2>5, <2>6, <2>7, <2>8
  <1>8. CASE Open
    BY <1>8 DEF Open
  <1>9. CASE Edit
    BY <1>9 DEF Edit, AtDialog
  <1>10. CASE Refuse
    BY <1>10 DEF Refuse, AtDialog
  <1>11. CASE Pair
    BY <1>11 DEF Pair, Finish, StopTimer, CloseProcess, Callback, Launch, AtDialog
  <1>12. CASE Reject
    BY <1>12 DEF Reject, AtDialog, Leave, StopTimer, CloseProcess
  <1>13. CASE CloseBox
    BY <1>13 DEF CloseBox, Leave, StopTimer, CloseProcess
  <1>14. CASE Say
    BY <1>14 DEF Say
  <1>15. CASE Exit
    BY <1>15 DEF Exit
  <1>16. CASE Expire
    BY <1>16 DEF Expire
  <1>17. CASE Remove
    BY <1>17 DEF Remove
  <1>18. CASE Add
    BY <1>18 DEF Add
  <1>19. CASE UNCHANGED vars
    BY <1>19 DEF vars
  <1> QED
    BY <1>1, <1>2, <1>3, <1>4, <1>5, <1>6, <1>7, <1>8, <1>9, <1>10, <1>11, <1>12, <1>13, <1>14, <1>15, <1>16, <1>17, <1>18, <1>19 DEF Next, Timer

(* Only the completion of a pairing that succeeded writes the settings.     *)
LEMMA SaveSafe ==
  ASSUME TypeOK, PairingInv, [Next]_vars, pairInfo' # pairInfo, source # "gone"
  PROVE  source = "alive" /\ pairInfo' = address' /\ "paired" \in really /\ "paired" \in report'
  <1> USE DEF TypeOK, FlagsTyped, PlacesTyped, PairingInv, RunInv, TruthInv, Words, Success
  <1> USE DEF sourceVars, dialogVars, taskVars, childVars, history
  <1>1. CASE OwnerGone
    BY <1>1 DEF OwnerGone, StopTimer, CloseProcess
  <1>2. CASE Poll
    BY <1>2 DEF Poll
  <1>3. CASE Drain
    BY <1>3 DEF Drain
  <1>4. CASE StillRunning
    BY <1>4 DEF StillRunning
  <1>5. CASE TimedOut
    BY <1>5 DEF TimedOut
  <1>6. CASE GiveUp
    BY <1>6 DEF GiveUp, Finish, StopTimer, CloseProcess, Callback
  <1>7. CASE Ended
    BY <1>7 DEF Ended, Finish, StopTimer, CloseProcess, Callback, Launch
  <1>8. CASE Open
    BY <1>8 DEF Open
  <1>9. CASE Edit
    BY <1>9 DEF Edit, AtDialog
  <1>10. CASE Refuse
    BY <1>10 DEF Refuse, AtDialog
  <1>11. CASE Pair
    BY <1>11 DEF Pair, Finish, StopTimer, CloseProcess, Callback, Launch, AtDialog
  <1>12. CASE Reject
    BY <1>12 DEF Reject, AtDialog, Leave, StopTimer, CloseProcess
  <1>13. CASE CloseBox
    BY <1>13 DEF CloseBox, Leave, StopTimer, CloseProcess
  <1>14. CASE Say
    BY <1>14 DEF Say
  <1>15. CASE Exit
    BY <1>15 DEF Exit
  <1>16. CASE Expire
    BY <1>16 DEF Expire
  <1>17. CASE Remove
    BY <1>17 DEF Remove
  <1>18. CASE Add
    BY <1>18 DEF Add
  <1>19. CASE UNCHANGED vars
    BY <1>19 DEF vars
  <1> QED
    BY <1>1, <1>2, <1>3, <1>4, <1>5, <1>6, <1>7, <1>8, <1>9, <1>10, <1>11, <1>12, <1>13, <1>14, <1>15, <1>16, <1>17, <1>18, <1>19 DEF Next, Timer

(* Every variable keeps its type, for all addresses and bounds.             *)
THEOREM Typing == Spec => []TypeOK
  <1>1. Init => TypeOK
    BY NoText DEF Init, TypeOK, FlagsTyped, PlacesTyped, Pieces
  <1>2. TypeOK /\ [Next]_vars => TypeOK'
    BY FlagsKept, PlacesKept DEF TypeOK
  <1> QED
    BY <1>1, <1>2, PTL DEF Spec

(* What a run owns, and what is known of the device during it.              *)
THEOREM Invariance == Spec => []PairingInv
  <1>1. Init => PairingInv
    BY DEF Init, PairingInv, RunInv, TruthInv, TellsTruth
  <1>2. TypeOK /\ PairingInv /\ [Next]_vars => PairingInv'
    BY RunSafe, TruthSafe, TellSafe DEF PairingInv
  <1> QED
    BY <1>1, <1>2, Typing, PTL DEF Spec

(* No process, pipe or run outlives what it belongs to.                     *)
THEOREM RunSafety == Spec => []NothingLeftRunning
  <1>1. PairingInv => NothingLeftRunning
    BY DEF PairingInv, RunInv, NothingLeftRunning
  <1> QED
    BY <1>1, Invariance, PTL

(* The button starts no run during another and comes back after each.       *)
THEOREM ButtonSafety == Spec => []ButtonTells
  <1>1. PairingInv => ButtonTells
    BY DEF PairingInv, RunInv, ButtonTells
  <1> QED
    BY <1>1, Invariance, PTL

(* What the user is told is what the device did.                            *)
THEOREM TruthSafety == Spec => []TellsTruth
  <1>1. PairingInv => TellsTruth
    BY DEF PairingInv
  <1> QED
    BY <1>1, Invariance, PTL

(* Only the address of a pairing that succeeded reaches the settings.       *)
THEOREM SaveSafety == Spec => SavedIsPaired
  <1>1. TypeOK /\ PairingInv /\ [Next]_vars =>
          [pairInfo' # pairInfo /\ source # "gone" =>
             source = "alive" /\ pairInfo' = address' /\ "paired" \in really
               /\ "paired" \in report']_vars
    BY SaveSafe
  <1> QED
    BY <1>1, Typing, Invariance, PTL DEF Spec, SavedIsPaired
=============================================================================
