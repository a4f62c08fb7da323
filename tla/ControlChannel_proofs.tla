------------------------- MODULE ControlChannel_proofs -------------------------
(***************************************************************************)
(* Proofs about ControlChannel for all sets of buttons and key codes, any   *)
(* length of the queue and any number of sessions.                         *)
(***************************************************************************)
EXTENDS ControlChannel, WellFoundedInduction, TLAPS

(* What a queue holds after one more report.                                *)
LEMMA QueueKept ==
  ASSUME NEW queue \in Seq(Reports), Len(queue) <= Cap, NEW r \in Reports
  PROVE  /\ Keep(queue, r) \in Seq(Reports) /\ Len(Keep(queue, r)) <= Cap
         /\ \A i \in 1..Len(Keep(queue, r)) :
              Keep(queue, r)[i] = r \/ \E j \in 1..Len(queue) : Keep(queue, r)[i] = queue[j]
         /\ \E i \in 1..Len(Keep(queue, r)) : Keep(queue, r)[i] = r
         /\ \A j \in 1..Len(queue) :
              \/ j = 1 /\ Len(queue) = Cap
              \/ \E i \in 1..Len(Keep(queue, r)) : Keep(queue, r)[i] = queue[j]
  <1>1. CASE Len(queue) = Cap
    <2>1. queue # <<>> /\ Len(queue) \in Nat \ {0}
      BY <1>1, BoundAssumption
    <2> DEFINE rest == Tail(queue)
    <2>2. /\ rest \in Seq(Reports) /\ Len(rest) = Len(queue) - 1
          /\ \A i \in 1..Len(rest) : rest[i] = queue[i + 1]
      BY <2>1
    <2>3. Keep(queue, r) = Append(rest, r)
      BY <1>1 DEF Keep
    <2> HIDE DEF rest
    <2>4. /\ Append(rest, r) \in Seq(Reports) /\ Len(Append(rest, r)) = Len(queue)
          /\ \A i \in 1..Len(rest) : Append(rest, r)[i] = rest[i]
          /\ Append(rest, r)[Len(queue)] = r
      BY <2>1, <2>2
    <2>5. \A j \in 1..Len(queue) : j # 1 => j - 1 \in 1..Len(rest) /\ rest[j - 1] = queue[j]
      BY <2>1, <2>2
    <2>6. \A i \in 1..Len(queue) : i = Len(queue) \/ (i \in 1..Len(rest) /\ i + 1 \in 1..Len(queue))
      BY <2>1, <2>2
    <2>7. Len(queue) \in 1..Len(queue) /\ \A j \in 1..Len(rest) : j \in 1..Len(queue)
      BY <2>1, <2>2
    <2> QED
      BY <1>1, <2>2, <2>3, <2>4, <2>5, <2>6, <2>7
  <1>2. CASE Len(queue) # Cap
    <2>1. Keep(queue, r) = Append(queue, r)
      BY <1>2 DEF Keep
    <2>2. /\ Append(queue, r) \in Seq(Reports) /\ Len(Append(queue, r)) = Len(queue) + 1
          /\ \A i \in 1..Len(queue) : Append(queue, r)[i] = queue[i]
          /\ Append(queue, r)[Len(queue) + 1] = r
      OBVIOUS
    <2>3. Len(queue) + 1 <= Cap /\ Len(queue) + 1 \in 1..(Len(queue) + 1)
          /\ \A i \in 1..(Len(queue) + 1) : i = Len(queue) + 1 \/ i \in 1..Len(queue)
      BY <1>2, BoundAssumption
    <2>4. \A j \in 1..Len(queue) : j \in 1..(Len(queue) + 1)
      OBVIOUS
    <2> QED
      BY <2>1, <2>2, <2>3, <2>4
  <1> QED
    BY <1>1, <1>2

(* An empty queue.                                                          *)
LEMMA NoReports == \A s : s = <<>> => s \in Seq(Reports) /\ Len(s) = 0
  OBVIOUS

(* The flags stay Boolean.                                                  *)
LEMMA FlagsKept ==
  ASSUME FlagsTyped, [Next]_vars
  PROVE  FlagsTyped'
  <1> USE DEF FlagsTyped
  <1> USE DEF life, incoming, picture, handling, user, device
  <1>1. CASE Start
    BY <1>1 DEF Start
  <1>2. CASE StartFails
    BY <1>2 DEF StartFails, StopSession
  <1>3. CASE MarkRunning
    BY <1>3 DEF MarkRunning
  <1>4. CASE ResetFlag
    BY <1>4 DEF ResetFlag
  <1>5. CASE Retire
    BY <1>5 DEF Retire, StopSession, Forget
  <1>6. CASE Take
    BY <1>6 DEF Take, TakeErrors
  <1>7. CASE Judge
    BY <1>7 DEF Judge, StopSession, TakeErrors
  <1>8. CASE Break
    BY <1>8 DEF Break, Forget
  <1>9. CASE Fault
    BY <1>9 DEF Fault, Forget
  <1>10. CASE FrameWidth
    BY <1>10 DEF FrameWidth
  <1>11. CASE FrameHeight
    BY <1>11 DEF FrameHeight
  <1>12. ASSUME NEW r \in Reports, Receive(r) PROVE FlagsTyped'
    BY <1>12 DEF Receive
  <1>13. ASSUME NEW b \in Buttons, Click(b) PROVE FlagsTyped'
    BY <1>13 DEF Click, Begin, MouseUnchanged
  <1>14. ASSUME NEW kind \in {"move", "wheel"}, MoveOrTurn(kind) PROVE FlagsTyped'
    BY <1>14 DEF MoveOrTurn, Begin, MouseUnchanged
  <1>15. CASE ReadWidth
    BY <1>15 DEF ReadWidth, MouseUnchanged
  <1>16. CASE ReadHeight
    BY <1>16 DEF ReadHeight, MouseUnchanged
  <1>17. CASE SendMouse
    BY <1>17 DEF SendMouse, MouseUnchanged
  <1>18. ASSUME NEW key \in Keys, NEW plain \in BOOLEAN, NEW up \in BOOLEAN, KeyClick(key, plain, up) PROVE FlagsTyped'
    BY <1>18 DEF KeyClick, InjectKeycode, FollowKey
  <1>19. CASE UNCHANGED vars
    BY <1>19 DEF vars
  <1> QED
    BY <1>1, <1>2, <1>3, <1>4, <1>5, <1>6, <1>7, <1>8, <1>9, <1>10, <1>11, <1>12, <1>13, <1>14, <1>15, <1>16, <1>17, <1>18, <1>19 DEF Next, Graphics, Streams, Window

(* Everything else keeps its type.                                          *)
LEMMA PlacesKept ==
  ASSUME TypeOK, [Next]_vars
  PROVE  PlacesTyped'
  <1> USE DEF TypeOK, FlagsTyped, PlacesTyped, Clicks
  <1> USE DEF life, incoming, picture, handling, user, device
  <1>1. CASE Start
    <2>1. errors' = <<>> \/ errors' = errors
      BY <1>1 DEF Take, Judge, Start, StopSession, TakeErrors, incoming
    <2>2. errors' \in Seq(Reports) /\ Len(errors') <= Cap
      BY <2>1, NoReports, BoundAssumption
    <2> QED
      BY <1>1, <2>2, BoundAssumption DEF Take, Judge, Start, StopSession, TakeErrors
  <1>2. CASE StartFails
    BY <1>2 DEF StartFails, StopSession
  <1>3. CASE MarkRunning
    BY <1>3 DEF MarkRunning
  <1>4. CASE ResetFlag
    BY <1>4 DEF ResetFlag
  <1>5. CASE Retire
    BY <1>5 DEF Retire, StopSession, Forget
  <1>6. CASE Take
    <2>1. errors' = <<>> \/ errors' = errors
      BY <1>6 DEF Take, Judge, Start, StopSession, TakeErrors, incoming
    <2>2. errors' \in Seq(Reports) /\ Len(errors') <= Cap
      BY <2>1, NoReports, BoundAssumption
    <2> QED
      BY <1>6, <2>2, BoundAssumption DEF Take, Judge, Start, StopSession, TakeErrors
  <1>7. CASE Judge
    <2>1. errors' = <<>> \/ errors' = errors
      BY <1>7 DEF Take, Judge, Start, StopSession, TakeErrors, incoming
    <2>2. errors' \in Seq(Reports) /\ Len(errors') <= Cap
      BY <2>1, NoReports, BoundAssumption
    <2> QED
      BY <1>7, <2>2, BoundAssumption DEF Take, Judge, Start, StopSession, TakeErrors
  <1>8. CASE Break
    BY <1>8 DEF Break, Forget
  <1>9. CASE Fault
    BY <1>9 DEF Fault, Forget
  <1>10. CASE FrameWidth
    BY <1>10 DEF FrameWidth
  <1>11. CASE FrameHeight
    BY <1>11 DEF FrameHeight
  <1>12. ASSUME NEW r \in Reports, Receive(r) PROVE PlacesTyped'
    <2>1. errors' \in Seq(Reports) /\ Len(errors') <= Cap
      BY <1>12, QueueKept DEF Receive
    <2> QED
      BY <1>12, <2>1 DEF Receive
  <1>13. ASSUME NEW b \in Buttons, Click(b) PROVE PlacesTyped'
    BY <1>13, BoundAssumption DEF Click, Begin, MouseUnchanged
  <1>14. ASSUME NEW kind \in {"move", "wheel"}, MoveOrTurn(kind) PROVE PlacesTyped'
    BY <1>14, BoundAssumption DEF MoveOrTurn, Begin, MouseUnchanged
  <1>15. CASE ReadWidth
    BY <1>15 DEF ReadWidth, MouseUnchanged
  <1>16. CASE ReadHeight
    BY <1>16 DEF ReadHeight, MouseUnchanged
  <1>17. CASE SendMouse
    BY <1>17, BoundAssumption DEF SendMouse, MouseUnchanged, Pressed, Clicks
  <1>18. ASSUME NEW key \in Keys, NEW plain \in BOOLEAN, NEW up \in BOOLEAN, KeyClick(key, plain, up) PROVE PlacesTyped'
    BY <1>18 DEF KeyClick, InjectKeycode, FollowKey, Keys
  <1>19. CASE UNCHANGED vars
    BY <1>19 DEF vars
  <1> QED
    BY <1>1, <1>2, <1>3, <1>4, <1>5, <1>6, <1>7, <1>8, <1>9, <1>10, <1>11, <1>12, <1>13, <1>14, <1>15, <1>16, <1>17, <1>18, <1>19 DEF Next, Graphics, Streams, Window

(* Where the graphics thread is; reports come from complaints.              *)
LEMMA GraphicsKept ==
  ASSUME TypeOK, GraphicsInv, [Next]_vars
  PROVE  GraphicsInv'
  <1> USE DEF TypeOK, FlagsTyped, PlacesTyped, GraphicsInv
  <1> USE DEF life, incoming, picture, handling, user, device
  <1>1. CASE Start
    <2>1. errors' = <<>> => 1..Len(errors') = {}
      BY NoReports
    <2> QED
      BY <1>1, <2>1 DEF Take, Judge, Start, StopSession, TakeErrors
  <1>2. CASE StartFails
    BY <1>2 DEF StartFails, StopSession
  <1>3. CASE MarkRunning
    BY <1>3 DEF MarkRunning
  <1>4. CASE ResetFlag
    BY <1>4 DEF ResetFlag
  <1>5. CASE Retire
    BY <1>5 DEF Retire, StopSession, Forget
  <1>6. CASE Take
    <2>1. errors' = <<>> => 1..Len(errors') = {}
      BY NoReports
    <2> QED
      BY <1>6, <2>1 DEF Take, Judge, Start, StopSession, TakeErrors
  <1>7. CASE Judge
    <2>1. errors' = <<>> => 1..Len(errors') = {}
      BY NoReports
    <2> QED
      BY <1>7, <2>1 DEF Take, Judge, Start, StopSession, TakeErrors
  <1>8. CASE Break
    BY <1>8 DEF Break, Forget
  <1>9. CASE Fault
    BY <1>9 DEF Fault, Forget
  <1>10. CASE FrameWidth
    BY <1>10 DEF FrameWidth
  <1>11. CASE FrameHeight
    BY <1>11 DEF FrameHeight
  <1>12. ASSUME NEW r \in Reports, Receive(r) PROVE GraphicsInv'
    <2>1. /\ errors' = Keep(errors, r) /\ complained' = (complained \/ r = "security")
          /\ dropped' = (dropped \/ (Len(errors) = Cap /\ errors[1] = "security"))
          /\ session' = session /\ graphics' = graphics
      BY <1>12 DEF Receive
    <2>2. ASSUME NEW i \in 1..Len(errors'), errors'[i] = "security"
          PROVE  complained'
      <3>1. errors'[i] = r \/ \E j \in 1..Len(errors) : errors'[i] = errors[j]
        BY <2>1, QueueKept
      <3> QED
        BY <2>1, <2>2, <3>1
    <2>3. ASSUME graphics \in {"start", "reset"}, complained'
          PROVE  dropped' \/ \E i \in 1..Len(errors') : errors'[i] = "security"
      <3>1. CASE r = "security"
        BY <2>1, <3>1, QueueKept, ZenonT(60)
      <3>2. CASE r # "security"
        <4>1. dropped \/ \E j \in 1..Len(errors) : errors[j] = "security"
          BY <2>1, <2>3, <3>2
        <4>2. ASSUME NEW j \in 1..Len(errors), errors[j] = "security"
              PROVE  dropped' \/ \E i \in 1..Len(errors') : errors'[i] = "security"
          <5>1. (j = 1 /\ Len(errors) = Cap) \/ \E i \in 1..Len(errors') : errors'[i] = errors[j]
            BY <2>1, QueueKept, ZenonT(60)
          <5> QED
            BY <2>1, <4>2, <5>1
        <4> QED
          BY <2>1, <4>1, <4>2
      <3> QED
        BY <3>1, <3>2
    <2> QED
      BY <2>1, <2>2, <2>3
  <1>13. ASSUME NEW b \in Buttons, Click(b) PROVE GraphicsInv'
    BY <1>13 DEF Click, Begin, MouseUnchanged
  <1>14. ASSUME NEW kind \in {"move", "wheel"}, MoveOrTurn(kind) PROVE GraphicsInv'
    BY <1>14 DEF MoveOrTurn, Begin, MouseUnchanged
  <1>15. CASE ReadWidth
    BY <1>15 DEF ReadWidth, MouseUnchanged
  <1>16. CASE ReadHeight
    BY <1>16 DEF ReadHeight, MouseUnchanged
  <1>17. CASE SendMouse
    BY <1>17 DEF SendMouse, MouseUnchanged
  <1>18. ASSUME NEW key \in Keys, NEW plain \in BOOLEAN, NEW up \in BOOLEAN, KeyClick(key, plain, up) PROVE GraphicsInv'
    BY <1>18 DEF KeyClick, InjectKeycode, FollowKey
  <1>19. CASE UNCHANGED vars
    BY <1>19 DEF vars
  <1> QED
    BY <1>1, <1>2, <1>3, <1>4, <1>5, <1>6, <1>7, <1>8, <1>9, <1>10, <1>11, <1>12, <1>13, <1>14, <1>15, <1>16, <1>17, <1>18, <1>19 DEF Next, Graphics, Streams, Window

(* The flag is taken down by reports only, and put up by new sessions only. *)
LEMMA FlagKept ==
  ASSUME TypeOK, GraphicsInv, FlagTells, [Next]_vars
  PROVE  FlagTells'
  <1> USE DEF TypeOK, FlagsTyped, PlacesTyped, GraphicsInv, FlagTells, Active
  <1> USE DEF life, incoming, picture, handling, user, device
  <1>1. CASE Start
    BY <1>1 DEF Start
  <1>2. CASE StartFails
    BY <1>2 DEF StartFails, StopSession
  <1>3. CASE MarkRunning
    BY <1>3 DEF MarkRunning
  <1>4. CASE ResetFlag
    BY <1>4 DEF ResetFlag
  <1>5. CASE Retire
    BY <1>5 DEF Retire, StopSession, Forget
  <1>6. CASE Take
    BY <1>6 DEF Take, TakeErrors
  <1>7. CASE Judge
    BY <1>7 DEF Judge, StopSession, TakeErrors
  <1>8. CASE Break
    BY <1>8 DEF Break, Forget
  <1>9. CASE Fault
    BY <1>9 DEF Fault, Forget
  <1>10. CASE FrameWidth
    BY <1>10 DEF FrameWidth
  <1>11. CASE FrameHeight
    BY <1>11 DEF FrameHeight
  <1>12. ASSUME NEW r \in Reports, Receive(r) PROVE FlagTells'
    <2>1. /\ errors' = Keep(errors, r) /\ complained' = (complained \/ r = "security")
          /\ dropped' = (dropped \/ (Len(errors) = Cap /\ errors[1] = "security"))
          /\ usb' = usb /\ session' = session /\ graphics' = graphics
      BY <1>12 DEF Receive
    <2>2. CASE r = "security"
      <3>1. \E i \in 1..Len(errors') : errors'[i] = "security"
        BY <2>1, <2>2, QueueKept, ZenonT(60)
      <3> QED
        BY <2>1, <2>2, <3>1
    <2>3. CASE r # "security"
      <3>1. complained' = complained
        BY <2>1, <2>3
      <3>2. ASSUME NEW j \in 1..Len(errors), errors[j] = "security"
            PROVE  dropped' \/ \E i \in 1..Len(errors') : errors'[i] = "security"
        <4>1. (j = 1 /\ Len(errors) = Cap) \/ \E i \in 1..Len(errors') : errors'[i] = errors[j]
          BY <2>1, QueueKept, ZenonT(60)
        <4> QED
          BY <2>1, <3>2, <4>1
      <3> QED
        BY <2>1, <3>1, <3>2
    <2> QED
      BY <2>2, <2>3
  <1>13. ASSUME NEW b \in Buttons, Click(b) PROVE FlagTells'
    BY <1>13 DEF Click, Begin, MouseUnchanged
  <1>14. ASSUME NEW kind \in {"move", "wheel"}, MoveOrTurn(kind) PROVE FlagTells'
    BY <1>14 DEF MoveOrTurn, Begin, MouseUnchanged
  <1>15. CASE ReadWidth
    BY <1>15 DEF ReadWidth, MouseUnchanged
  <1>16. CASE ReadHeight
    BY <1>16 DEF ReadHeight, MouseUnchanged
  <1>17. CASE SendMouse
    BY <1>17 DEF SendMouse, MouseUnchanged
  <1>18. ASSUME NEW key \in Keys, NEW plain \in BOOLEAN, NEW up \in BOOLEAN, KeyClick(key, plain, up) PROVE FlagTells'
    BY <1>18 DEF KeyClick, InjectKeycode, FollowKey
  <1>19. CASE UNCHANGED vars
    BY <1>19 DEF vars
  <1> QED
    BY <1>1, <1>2, <1>3, <1>4, <1>5, <1>6, <1>7, <1>8, <1>9, <1>10, <1>11, <1>12, <1>13, <1>14, <1>15, <1>16, <1>17, <1>18, <1>19 DEF Next, Graphics, Streams, Window

(* The device follows the user.                                            *)
LEMMA InputKept ==
  ASSUME TypeOK, InputInv, [Next]_vars
  PROVE  InputInv'
  <1> USE DEF TypeOK, FlagsTyped, PlacesTyped, InputInv, Reaches, Clicks, Pressed
  <1> USE DEF life, incoming, picture, handling, user, device
  <1>1. CASE Start
    BY <1>1 DEF Start
  <1>2. CASE StartFails
    BY <1>2 DEF StartFails, StopSession
  <1>3. CASE MarkRunning
    BY <1>3 DEF MarkRunning
  <1>4. CASE ResetFlag
    BY <1>4 DEF ResetFlag
  <1>5. CASE Retire
    BY <1>5 DEF Retire, StopSession, Forget
  <1>6. CASE Take
    BY <1>6 DEF Take, TakeErrors
  <1>7. CASE Judge
    BY <1>7 DEF Judge, StopSession, TakeErrors
  <1>8. CASE Break
    BY <1>8 DEF Break, Forget
  <1>9. CASE Fault
    BY <1>9 DEF Fault, Forget
  <1>10. CASE FrameWidth
    BY <1>10 DEF FrameWidth
  <1>11. CASE FrameHeight
    BY <1>11 DEF FrameHeight
  <1>12. ASSUME NEW r \in Reports, Receive(r) PROVE InputInv'
    BY <1>12 DEF Receive
  <1>13. ASSUME NEW b \in Buttons, Click(b) PROVE InputInv'
    <2>1. PICK held \in {buttons, buttons'} :
             Begin(IF b \in buttons THEN "up" ELSE "down", {b}, held)
      BY <1>13 DEF Click
    <2>2. buttons' = (IF b \in buttons THEN buttons \ {b} ELSE buttons \cup {b})
      BY <1>13 DEF Click
    <2>3. ui' # "idle" /\ which' = {b} /\ mods' = held
          /\ event' = (IF b \in buttons THEN "up" ELSE "down")
      BY <2>1 DEF Begin
    <2>4. UNCHANGED <<session, keys, codes, typed, stuck, lifted, told, pointer>>
      BY <2>1 DEF Begin, MouseUnchanged
    <2>5. Pressed' = buttons'
      BY <2>1, <2>2, <2>3 DEF Pressed
    <2>6. event' \in Clicks => ((event' = "down" <=> which' \subseteq buttons') /\ which' # {})
      BY <2>2, <2>3
    <2> QED
      BY <2>3, <2>4, <2>5, <2>6
  <1>14. ASSUME NEW kind \in {"move", "wheel"}, MoveOrTurn(kind) PROVE InputInv'
    BY <1>14 DEF MoveOrTurn, Begin, MouseUnchanged
  <1>15. CASE ReadWidth
    BY <1>15 DEF ReadWidth, MouseUnchanged
  <1>16. CASE ReadHeight
    BY <1>16 DEF ReadHeight, MouseUnchanged
  <1>17. CASE SendMouse
    BY <1>17 DEF SendMouse, MouseUnchanged
  <1>18. ASSUME NEW key \in Keys, NEW plain \in BOOLEAN, NEW up \in BOOLEAN, KeyClick(key, plain, up) PROVE InputInv'
    <2>1. CASE ~Reaches
      <3>1. ~Reaches' /\ typed = {} /\ codes = {} /\ UNCHANGED <<codes, typed, stuck, lifted>>
        BY <1>18, <2>1 DEF KeyClick
      <3> QED
        BY <1>18, <2>1, <3>1 DEF KeyClick, Pressed
    <2>2. CASE Reaches
      <3>1. /\ InjectKeycode(key, plain, up) /\ FollowKey(key, plain, up)
            /\ (key \in keys) = up
            /\ keys' = IF up THEN keys \ {key} ELSE keys \cup {key}
            /\ UNCHANGED <<session, ui, event, which, mods, buttons, told, pointer>>
        BY <1>18, <2>2 DEF KeyClick
      <3>2. typed' \subseteq keys'
        BY <3>1 DEF FollowKey
      <3>3. ASSUME NEW code \in codes'
            PROVE  code \in stuck' \/ \E other \in typed' : other[1] = code
        BY <3>1 DEF FollowKey, InjectKeycode
      <3>4. ASSUME NEW other \in typed'
            PROVE  other[1] \in codes' \/ other[1] \in lifted'
        BY <3>1 DEF FollowKey, InjectKeycode
      <3> QED
        BY <2>2, <3>1, <3>2, <3>3, <3>4 DEF Pressed
    <2> QED
      BY <2>1, <2>2
  <1>19. CASE UNCHANGED vars
    BY <1>19 DEF vars
  <1> QED
    BY <1>1, <1>2, <1>3, <1>4, <1>5, <1>6, <1>7, <1>8, <1>9, <1>10, <1>11, <1>12, <1>13, <1>14, <1>15, <1>16, <1>17, <1>18, <1>19 DEF Next, Graphics, Streams, Window

(* What was read of the picture is right, or the picture changed.           *)
LEMMA LookKept ==
  ASSUME TypeOK, LookInv, [Next]_vars
  PROVE  LookInv'
  <1> USE DEF TypeOK, FlagsTyped, PlacesTyped, LookInv
  <1> USE DEF life, incoming, picture, handling, user, device
  <1>1. CASE Start
    BY <1>1 DEF Start
  <1>2. CASE StartFails
    BY <1>2 DEF StartFails, StopSession
  <1>3. CASE MarkRunning
    BY <1>3 DEF MarkRunning
  <1>4. CASE ResetFlag
    BY <1>4 DEF ResetFlag
  <1>5. CASE Retire
    BY <1>5 DEF Retire, StopSession, Forget
  <1>6. CASE Take
    BY <1>6 DEF Take, TakeErrors
  <1>7. CASE Judge
    BY <1>7 DEF Judge, StopSession, TakeErrors
  <1>8. CASE Break
    BY <1>8 DEF Break, Forget
  <1>9. CASE Fault
    BY <1>9 DEF Fault, Forget
  <1>10. CASE FrameWidth
    BY <1>10 DEF FrameWidth
  <1>11. CASE FrameHeight
    BY <1>11 DEF FrameHeight
  <1>12. ASSUME NEW r \in Reports, Receive(r) PROVE LookInv'
    BY <1>12 DEF Receive
  <1>13. ASSUME NEW b \in Buttons, Click(b) PROVE LookInv'
    BY <1>13 DEF Click, Begin, MouseUnchanged
  <1>14. ASSUME NEW kind \in {"move", "wheel"}, MoveOrTurn(kind) PROVE LookInv'
    BY <1>14 DEF MoveOrTurn, Begin, MouseUnchanged
  <1>15. CASE ReadWidth
    BY <1>15 DEF ReadWidth, MouseUnchanged
  <1>16. CASE ReadHeight
    BY <1>16 DEF ReadHeight, MouseUnchanged
  <1>17. CASE SendMouse
    BY <1>17 DEF SendMouse, MouseUnchanged
  <1>18. ASSUME NEW key \in Keys, NEW plain \in BOOLEAN, NEW up \in BOOLEAN, KeyClick(key, plain, up) PROVE LookInv'
    BY <1>18 DEF KeyClick, InjectKeycode, FollowKey
  <1>19. CASE UNCHANGED vars
    BY <1>19 DEF vars
  <1> QED
    BY <1>1, <1>2, <1>3, <1>4, <1>5, <1>6, <1>7, <1>8, <1>9, <1>10, <1>11, <1>12, <1>13, <1>14, <1>15, <1>16, <1>17, <1>18, <1>19 DEF Next, Graphics, Streams, Window

(* Every variable keeps its type.                                           *)
THEOREM Typing == Spec => []TypeOK
  <1>1. Init => TypeOK
    <2> SUFFICES ASSUME Init PROVE TypeOK
      OBVIOUS
    <2>1. errors \in Seq(Reports) /\ Len(errors) <= Cap
      BY NoReports, BoundAssumption DEF Init
    <2>2. 0 \in 0..MaxSize /\ 0 \in 0..MaxSessions
      BY BoundAssumption
    <2>3. FlagsTyped
      BY DEF Init, FlagsTyped
    <2> QED
      BY <2>1, <2>2, <2>3 DEF Init, TypeOK, PlacesTyped
  <1>2. TypeOK /\ [Next]_vars => TypeOK'
    BY FlagsKept, PlacesKept DEF TypeOK
  <1> QED
    BY <1>1, <1>2, PTL DEF Spec

(* The inductive invariant of the channel.                                  *)
THEOREM Invariance == Spec => []ChannelInv
  <1>1. Init => ChannelInv
    <2>1. Init => 1..Len(errors) = {}
      BY NoReports DEF Init
    <2> QED
      BY <2>1 DEF Init, ChannelInv, GraphicsInv, FlagTells, Active, InputInv, LookInv, Reaches, Clicks
  <1>2. TypeOK /\ ChannelInv /\ [Next]_vars => ChannelInv'
    BY GraphicsKept, FlagKept, InputKept, LookKept DEF ChannelInv
  <1> QED
    BY <1>1, <1>2, Typing, PTL DEF Spec

-----------------------------------------------------------------------------
(* The texts.                                                               *)

(* The numbers are well-founded, with the relation as a set: the prover's   *)
(* induction theorems take an operator, which its backends cannot be given. *)
LEMMA LessIsWellFounded ==
  \E R : IsWellFoundedOn(R, Nat) /\ \A x, y \in Nat : <<y, x>> \in R <=> y < x
  <1>1. \A x, y \in Nat : <<y, x>> \in OpToRel(<, Nat) <=> y < x
    BY DEF OpToRel
  <1> QED
    BY <1>1, NatLessThanWellFounded

(* A set of numbers has a least one.  A least counterexample stands in for  *)
(* the induction.                                                           *)
LEMMA NatMinimum ==
  ASSUME NEW T, T \subseteq Nat, T # {}
  PROVE  \E x \in T : \A y \in T : x <= y
  <1>1. PICK R : IsWellFoundedOn(R, Nat) /\ \A x, y \in Nat : <<y, x>> \in R <=> y < x
    BY LessIsWellFounded
  <1>2. \E x \in T : \A y \in T : ~ (<<y, x>> \in R)
    BY <1>1, WFMin, Zenon
  <1>3. \E x \in T : \A y \in T : ~ (y < x)
    BY <1>1, <1>2, Zenon
  <1> QED
    BY <1>3

(* Every character has at least a byte, and fits into a text.               *)
LEMMA CharBytes ==
  ASSUME NEW text \in Seq(CharSizes), NEW n \in 1..Len(text)
  PROVE  text[n] \in Nat \ {0} /\ text[n] <= TextMax
  <1>1. text[n] \in CharSizes
    OBVIOUS
  <1> QED
    BY <1>1, TextAssumption

(* The sums over the characters of a text exist,                            *)
LEMMA PartialSums ==
  ASSUME NEW text \in Seq(CharSizes)
  PROVE  \E f \in [0..Len(text) -> Nat] :
           f[0] = 0 /\ \A k \in 1..Len(text) : f[k] = f[k - 1] + text[k]
  <1> DEFINE Sums(f, n) == f \in [0..n -> Nat] /\ f[0] = 0 /\ \A k \in 1..n : f[k] = f[k - 1] + text[k]
             Without == {n \in 0..Len(text) : ~\E f : Sums(f, n)}
  <1>1. Without = {}
    <2> SUFFICES ASSUME Without # {} PROVE FALSE
      OBVIOUS
    <2>1. PICK n \in Without : \A m \in Without : n <= m
      <3>1. Without \subseteq Nat
        OBVIOUS
      <3> HIDE DEF Without
      <3> QED
        BY <3>1, NatMinimum
    <2>2. n \in 0..Len(text) /\ ~\E f : Sums(f, n)
      BY <2>1
    <2>3. CASE n = 0
      <3>1. Sums([k \in 0..0 |-> 0], 0)
        OBVIOUS
      <3> QED
        BY <2>2, <2>3, <3>1
    <2>4. CASE n # 0
      <3>1. n - 1 \in 0..Len(text) /\ ~(n <= n - 1)
        BY <2>2, <2>4
      <3>2. PICK f : Sums(f, n - 1)
        BY <2>1, <3>1
      <3> DEFINE g == [k \in 0..n |-> IF k = n THEN f[n - 1] + text[n] ELSE f[k]]
      <3>9. n \in Nat \ {0} /\ n \in 1..Len(text)
        BY <2>2, <2>4
      <3>3. n \in Nat \ {0} /\ n \in 1..Len(text) /\ text[n] \in Nat
        BY <3>9, CharBytes
      <3>4. /\ \A k \in 0..(n - 1) : f[k] \in Nat
            /\ n - 1 \in 0..(n - 1) /\ \A k \in 0..n : k = n \/ k \in 0..(n - 1)
        BY <3>2, <3>3
      <3>8. g \in [0..n -> Nat] /\ \A k \in 0..n : g[k] = IF k = n THEN f[n - 1] + text[n] ELSE f[k]
        BY <3>3, <3>4
      <3> HIDE DEF g
      <3>5. g[0] = 0
        BY <3>2, <3>3, <3>8
      <3>6. ASSUME NEW k \in 1..n PROVE g[k] = g[k - 1] + text[k]
        <4>1. k \in 0..n /\ k - 1 \in 0..n /\ k - 1 # n /\ (k = n \/ k \in 1..(n - 1))
          BY <3>9
        <4>2. g[k - 1] = f[k - 1]
          BY <3>8, <4>1
        <4>3. CASE k = n
          BY <3>8, <4>1, <4>2, <4>3
        <4>4. CASE k # n
          BY <3>2, <3>8, <4>1, <4>2, <4>4
        <4> QED
          BY <4>3, <4>4
      <3>7. Sums(g, n)
        BY <3>8, <3>5, <3>6
      <3> QED
        BY <2>2, <3>7
    <2> QED
      BY <2>3, <2>4
  <1>2. Len(text) \in 0..Len(text)
    OBVIOUS
  <1>3. \E f : Sums(f, Len(text))
    BY <1>1, <1>2
  <1> QED
    BY <1>3

(* and Offset is these sums, although it is defined by recursion.           *)
LEMMA OffsetSums ==
  ASSUME NEW text \in Seq(CharSizes)
  PROVE  /\ Offset(text) \in [0..Len(text) -> Nat]
         /\ Offset(text)[0] = 0
         /\ \A k \in 1..Len(text) : Offset(text)[k] = Offset(text)[k - 1] + text[k]
  <1> DEFINE Sum(f) == [n \in 0..Len(text) |-> IF n = 0 THEN 0 ELSE f[n - 1] + text[n]]
             offset == Offset(text)
  <1>1. \E f : f = Sum(f)
    <2>1. PICK f \in [0..Len(text) -> Nat] :
            f[0] = 0 /\ \A k \in 1..Len(text) : f[k] = f[k - 1] + text[k]
      BY PartialSums
    <2>2. \A n \in 0..Len(text) : n = 0 \/ n \in 1..Len(text)
      OBVIOUS
    <2>3. f = Sum(f)
      BY <2>1, <2>2
    <2> QED
      BY <2>3
  <1>2. offset = CHOOSE f : f = Sum(f)
    BY DEF Offset
  <1> HIDE DEF offset
  <1>3. offset = Sum(offset)
    BY <1>1, <1>2
  <1>4. /\ DOMAIN offset = 0..Len(text) /\ offset[0] = 0
        /\ \A k \in 1..Len(text) : offset[k] = offset[k - 1] + text[k]
    BY <1>3
  <1> DEFINE Wrong == {n \in 0..Len(text) : offset[n] \notin Nat}
  <1>5. Wrong = {}
    <2> SUFFICES ASSUME Wrong # {} PROVE FALSE
      OBVIOUS
    <2>1. PICK n \in Wrong : \A m \in Wrong : n <= m
      <3>1. Wrong \subseteq Nat
        OBVIOUS
      <3> HIDE DEF Wrong
      <3> QED
        BY <3>1, NatMinimum
    <2>2. n \in 1..Len(text) /\ offset[n] \notin Nat
      <3>1. n \in 0..Len(text) /\ offset[n] \notin Nat
        BY <2>1
      <3> QED
        BY <1>4, <3>1
    <2>3. n - 1 \in 0..Len(text) /\ ~(n <= n - 1)
      BY <2>2
    <2>4. offset[n - 1] \in Nat
      BY <2>1, <2>3
    <2> QED
      BY <1>4, <2>2, <2>4, CharBytes
  <1>6. offset \in [0..Len(text) -> Nat]
    BY <1>3, <1>4, <1>5
  <1> QED
    BY <1>4, <1>6 DEF offset

(* A set of byte positions has a largest one.                               *)
LEMMA LargestIsUpper ==
  ASSUME NEW S, S \subseteq 0..TextMax, S # {}
  PROVE  Largest(S) \in S /\ \A y \in S : y <= Largest(S)
  <1> DEFINE Gaps == {TextMax - x : x \in S}
  <1>1. Gaps \subseteq Nat /\ Gaps # {}
    <2>1. \A x \in 0..TextMax : TextMax - x \in Nat
      BY TextAssumption
    <2> QED
      BY <2>1
  <1>2. PICK gap \in Gaps : \A other \in Gaps : gap <= other
    <2> HIDE DEF Gaps
    <2> QED
      BY <1>1, NatMinimum
  <1>3. PICK x \in S : gap = TextMax - x
    BY <1>2
  <1>4. \A y \in S : y <= x
    <2> SUFFICES ASSUME NEW y \in S PROVE y <= x
      OBVIOUS
    <2>1. gap <= TextMax - y
      BY <1>2
    <2>2. x \in Nat /\ y \in Nat
      OBVIOUS
    <2> QED
      BY <1>3, <2>1, <2>2, TextAssumption
  <1> QED
    BY <1>4 DEF Largest

(* sc_str_utf8_truncation_index() cuts any text, however long, behind its   *)
(* last character that ends within the limit.                               *)
LEMMA TruncationCuts ==
  ASSUME NEW text \in Seq(CharSizes)
  PROVE  \E n \in 0..Len(text) :
           /\ TruncationIndex(text) = Offset(text)[n] /\ Offset(text)[n] <= TextMax
           /\ n = Len(text) \/ Offset(text)[n + 1] > TextMax
  <1> DEFINE offset == Offset(text)
             length == offset[Len(text)]
             Begins == {i \in 0..TextMax : i = 0 \/ ~\A n \in 0..Len(text) : offset[n] # i}
  <1>1. /\ offset \in [0..Len(text) -> Nat] /\ offset[0] = 0
        /\ \A k \in 1..Len(text) : offset[k] = offset[k - 1] + text[k]
    BY OffsetSums
  <1>2. TruncationIndex(text) = IF length <= TextMax THEN length ELSE Largest(Begins)
    BY DEF TruncationIndex
  <1> HIDE DEF offset
  <1>3. Len(text) \in Nat /\ 0 \in 0..Len(text) /\ Len(text) \in 0..Len(text)
    OBVIOUS
  <1>4. CASE length <= TextMax
    BY <1>2, <1>3, <1>4 DEF offset
  <1>5. CASE ~(length <= TextMax)
    <2>1. Begins \subseteq 0..TextMax /\ 0 \in Begins
      BY TextAssumption
    <2> DEFINE last == Largest(Begins)
    <2>2. last \in Begins /\ \A i \in Begins : i <= last
      <3> HIDE DEF Begins
      <3> QED
        BY <2>1, LargestIsUpper
    <2> HIDE DEF last
    <2>3. PICK n \in 0..Len(text) : offset[n] = last
      BY <1>1, <1>3, <2>2
    <2>4. last <= TextMax /\ n # Len(text)
      BY <1>5, <2>2, <2>3
    <2>5. n + 1 \in 1..Len(text) /\ n + 1 \in 0..Len(text) /\ (n + 1) - 1 = n
      BY <1>3, <2>4
    <2>6. offset[n + 1] = last + text[n + 1] /\ text[n + 1] \in Nat \ {0} /\ last \in Nat
      BY <1>1, <2>3, <2>5, CharBytes
    <2>7. offset[n + 1] > TextMax
      <3> SUFFICES ASSUME offset[n + 1] <= TextMax PROVE FALSE
        BY <2>6, TextAssumption
      <3>1. offset[n + 1] \in Begins
        BY <2>5, <2>6, TextAssumption
      <3> QED
        BY <2>2, <2>6, <3>1
    <2> QED
      BY <1>2, <1>5, <2>3, <2>4, <2>7 DEF offset, last
  <1> QED
    BY <1>4, <1>5

(* So a text that is sent is whole up to where it ends.                     *)
THEOREM Truncation == TextIsWhole
  <1> SUFFICES ASSUME NEW text \in Texts
               PROVE  \E n \in 0..Len(text) :
                        LET offset == Offset(text) IN
                        /\ TruncationIndex(text) = offset[n] /\ offset[n] <= TextMax
                        /\ n = Len(text) \/ offset[n + 1] > TextMax
    BY DEF TextIsWhole
  <1>1. text \in Seq(CharSizes)
    BY TextAssumption DEF Texts
  <1> QED
    BY <1>1, TruncationCuts

-----------------------------------------------------------------------------
(* The properties of the run.                                               *)

(* The device holds what the user holds, but for the two exceptions of the  *)
(* code, for any number of buttons, keys and codes.                         *)
THEOREM InputSafety == Spec => []InputMatches
  <1>1. ChannelInv => InputMatches
    BY DEF ChannelInv, InputInv, InputMatches
  <1> QED
    BY <1>1, Invariance, PTL

(* A pointer message names the buttons that are held and the size of the    *)
(* picture, unless the picture changed during the event.                    *)
THEOREM PointerSafety == Spec => []PointerIsSound
  <1>1. ChannelInv => PointerIsSound
    <2> SUFFICES ASSUME ChannelInv, ui = "send" PROVE PointerIsSound
      BY DEF PointerIsSound
    <2>1. Pressed = buttons /\ (turned \/ size = <<width, height>>)
      BY DEF ChannelInv, InputInv, LookInv
    <2>2. event \in Clicks => ((event = "down" <=> which \subseteq buttons) /\ Action = event)
      BY DEF ChannelInv, InputInv, Clicks, Action
    <2>3. event = "move" => (Action = "hover" <=> buttons = {})
      BY <2>1 DEF Action
    <2> QED
      BY <2>1, <2>2, <2>3 DEF PointerIsSound
  <1> QED
    BY <1>1, Invariance, PTL

(* What goes out makes sense by itself: pointer messages do, and texts are  *)
(* cut between characters.                                                  *)
THEOREM MessageSafety == Spec => []MessageIsSound
  <1>1. PointerIsSound => MessageIsSound
    BY Truncation DEF MessageIsSound
  <1> QED
    BY <1>1, PointerSafety, PTL

(* The flag is down only for a complaint of this session, and a complaint   *)
(* gets through unless newer reports push it out.                           *)
THEOREM FlagSafety == Spec => []FlagTells
  <1>1. ChannelInv => FlagTells
    BY DEF ChannelInv
  <1> QED
    BY <1>1, Invariance, PTL
=============================================================================
