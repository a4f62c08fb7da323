------------------------- MODULE CaptureSource_proofs -------------------------
(***************************************************************************)
(* Theorems about CaptureSource, for every set of devices and any number   *)
(* of updates.                                                             *)
(*                                                                         *)
(* The properties speak of the time between handlers; the invariant says   *)
(* what a handler half-way through knows of the session, the settings and  *)
(* the device, although the session lives on while the handler works.      *)
(***************************************************************************)
EXTENDS CaptureSource, FiniteSetTheorems, TLAPS

(* Handlers that have taken new settings but not acted on them yet.         *)
Unsettled == job = "update" /\ pc \in {"events", "collect", "settle"}
Adjusting == {"switch", "pause", "confirm"}
Starting  == {"start", "sync"}
Acting    == {"create"} \cup Starting \cup Adjusting

(* The source has the newest session or none, and all older ones have       *)
(* retired; a start begins when the newest has, too.                        *)
OwnerInv ==
  /\ active = 0 \/ retiring = 0
  /\ active # 0 => active = next_generation /\ health[active] \in {"starting", "running", "faulted"}
  /\ retiring # 0 => retiring = next_generation /\ health[retiring] \in {"stopping", "retired"}
  /\ \A g \in Generations :
       /\ g < next_generation => health[g] = "retired" \/ health[g] = "none"
       /\ g > next_generation => health[g] = "none"
       /\ g = next_generation /\ active = 0 /\ retiring = 0 /\ pc # "gone" =>
            health[g] \in {"none", "retired"}
       /\ health[g] = "starting" => pc = "start"
  /\ pc = "settle" => job = "update"
  /\ pc \in Starting \cup Adjusting => active # 0
  /\ pc \in {"create", "gone"} => active = 0 /\ retiring = 0
  /\ pc = "start" => health[active] # "running"

(* Whoever is going to start a session has an update to answer.             *)
CountInv ==
  /\ next_generation <= updates
  /\ Unsettled \/ pc = "create" \/ HasTarget(pending) => next_generation < updates

(* Which settings each place is about.                                      *)
SettingsInv ==
  /\ active # 0 => ~HasTarget(pending)
  /\ HasTarget(pending) /\ ~Unsettled /\ pc # "create" => pending = asked
  /\ active = 0 /\ pc # "gone" => submitted = None
  /\ active # 0 /\ ~Unsettled /\ pc \notin Acting => submitted = asked
  /\ pc \in Starting => submitted = None
  /\ Unsettled \/ pc \in Acting => desired = asked
  /\ pc \in Acting => HasTarget(desired)
  /\ pc = "switch" => desired.video # submitted.video
  /\ ~HasTarget(asked) /\ ~Unsettled => active = 0 /\ ~HasTarget(pending)
  /\ ~Unsettled => user_audio = [enabled |-> asked.audio, source |-> AudioSource(asked)]
  /\ Unsettled /\ active # 0 =>
       user_audio = [enabled |-> submitted.audio, source |-> AudioSource(submitted)]

(* What settings ask a device to send.                                      *)
AudioFor(c) == IF visible /\ c.audio THEN AudioSource(c) ELSE "off"
Sends(c) ==
  device.video = c.video /\ device.paused = ~visible /\ device.audio = AudioFor(c)

(* What the device of a healthy session has been told so far.               *)
StreamInv ==
  /\ Healthy /\ pc \in {"idle", "events", "collect", "settle", "switch"} => Sends(submitted)
  /\ Healthy /\ pc = "pause" =>
       /\ device.video = desired.video
       /\ visible \/ desired.video = submitted.video => device.paused = ~visible
  /\ Healthy /\ pc = "confirm" => Sends(desired)
  /\ pc \in Starting =>
       device.video = desired.video /\ ~device.paused /\ device.audio = AudioFor(desired)

(* The picture of a session that failed is gone once the session is.        *)
PictureInv ==
  /\ \A g \in failed : 0 < g /\ g <= next_generation
  /\ active = 0 /\ retiring = 0 /\ pc # "gone" /\ next_generation \in failed => picture = "blank"

SourceInv == OwnerInv /\ CountInv /\ SettingsInv /\ StreamInv /\ PictureInv

-----------------------------------------------------------------------------
(* The fields of settings.                                                  *)
LEMMA ConfigFields ==
  ASSUME NEW c \in Configs
  PROVE  /\ c.video \in Videos /\ c.audio \in BOOLEAN
         /\ AudioSource(c) \in {"output", "mic"}
  BY DEF Configs, Videos, AudioSource

LEMMA NoneIsConfig == None \in Configs /\ ~HasTarget(None)
  BY DEF None, Configs, Videos, HasTarget

(* What the sessions of the source and the device are known to be.          *)
HealthTyped ==
  health \in [Generations -> {"none", "starting", "running", "faulted", "stopping", "retired"}]
DeviceTyped ==
  device \in [video : Videos, paused : BOOLEAN, audio : {"off", "output", "mic"}]

(* A stop leaves the owner with sessions it had, and no settings in force.  *)
LEMMA StopTyped ==
  ASSUME TypeOK, NEW verdict \in BOOLEAN, StopSession(verdict)
  PROVE  /\ active' \in {0} \cup Generations /\ retiring' \in {0} \cup Generations
         /\ HealthTyped' /\ failed' \subseteq Generations
         /\ submitted' = None
         /\ UNCHANGED <<audio_ended, next_generation>>
  <1> DEFINE g == IF active # 0 THEN active ELSE retiring
  <1>1. g \in {0} \cup Generations
    BY DEF TypeOK
  <1>2. failed' \subseteq failed \cup ({g} \ {0})
    BY DEF StopSession
  <1>3. HealthTyped'
    BY DEF StopSession, TypeOK, HealthTyped
  <1> QED
    BY <1>1, <1>2, <1>3 DEF StopSession, TypeOK

(* What has to hold after a stop for the types to.                          *)
LEMMA StopStepTyped ==
  ASSUME TypeOK, NEW verdict \in BOOLEAN, StopSession(verdict),
         pending' \in Configs, HasTarget(pending') \/ pending' = None,
         user_audio' \in [enabled : BOOLEAN, source : {"output", "mic"}],
         picture' \in {picture, "blank"}, pc' \in {"idle", "collect"},
         visible' \in BOOLEAN,
         UNCHANGED <<device, job, desired, history>>
  PROVE  TypeOK'
  <1>1. /\ active' \in {0} \cup Generations /\ retiring' \in {0} \cup Generations
        /\ HealthTyped' /\ failed' \subseteq Generations
        /\ submitted' = None
        /\ UNCHANGED <<audio_ended, next_generation>>
    BY StopTyped
  <1>2. {submitted, pending, desired, asked}' \subseteq Configs
    BY <1>1, NoneIsConfig DEF TypeOK, history
  <1>3. picture' \in {"blank", "frame"} /\ refused' \in BOOLEAN /\ updates' \in 0..MaxUpdates
    BY DEF TypeOK, history
  <1> QED
    BY <1>1, <1>2, <1>3 DEF TypeOK, HealthTyped, HasTarget

(* What has to hold after a failure for the types to.                       *)
LEMMA GiveUpTyped ==
  ASSUME TypeOK, GiveUp, pc' \in {"idle", "collect"}, visible' \in BOOLEAN,
         UNCHANGED <<job, desired, history>>
  PROVE  TypeOK'
  <1>1. /\ StopSession(TRUE) /\ pending' = None /\ picture' = "blank"
        /\ UNCHANGED <<user_audio, device>>
    BY DEF GiveUp
  <1>2. user_audio' \in [enabled : BOOLEAN, source : {"output", "mic"}]
    BY <1>1 DEF TypeOK
  <1> QED
    BY <1>1, <1>2, StopStepTyped, NoneIsConfig

(* A message about the streams leaves the device in a state it can have.    *)
LEMMA PausingTyped ==
  ASSUME TypeOK, NEW streams, NEW pause \in BOOLEAN, NEW source \in {"output", "mic"},
         Pausing(streams, pause, source)
  PROVE  DeviceTyped'
  BY DEF Pausing, TypeOK, DeviceTyped

(* So does one that follows the visibility of the source.                   *)
LEMMA SynchronizeTyped ==
  ASSUME TypeOK, NEW audio, NEW shown, NEW source \in {"output", "mic"},
         SynchronizeVisibility(audio, source, shown)
  PROVE  DeviceTyped'
  BY PausingTyped DEF SynchronizeVisibility

(* Every step keeps the types.                                             *)
LEMMA TypeStep ==
  ASSUME TypeOK, [Next]_vars
  PROVE  TypeOK'
  <1>1. CASE VideoTick
    BY <1>1, NoneIsConfig DEF VideoTick, TypeOK, Generations, HasTarget, owner, settings,
       session, handler, history
  <1>2. CASE UpdateRefused
    BY <1>2, NoneIsConfig DEF UpdateRefused, TypeOK, Generations, HasTarget, owner,
       settings, session, handler, history
  <1>3. CASE ShowOrHide
    <2>1. UNCHANGED <<user_audio, handler, history>> /\ visible' = ~visible /\ pc = "idle"
      BY <1>3 DEF ShowOrHide
    <2>2. CASE UNCHANGED <<owner, submitted, pending, session, device, picture>>
      BY <2>1, <2>2 DEF TypeOK, Generations, HasTarget, owner, settings, session, handler, history
    <2>3. ASSUME SynchronizeVisibility(user_audio.enabled, user_audio.source, ~visible),
                 UNCHANGED <<owner, submitted, pending, session, picture>>
          PROVE  TypeOK'
      <3>1. user_audio.source \in {"output", "mic"}
        BY DEF TypeOK
      <3>2. DeviceTyped'
        BY <2>3, <3>1, SynchronizeTyped
      <3> QED
        BY <2>1, <2>3, <3>2 DEF DeviceTyped, TypeOK, Generations, HasTarget, owner,
           settings, session, handler, history
    <2>4. CASE GiveUp
      <3>1. pc' \in {"idle", "collect"} /\ visible' \in BOOLEAN /\ UNCHANGED <<job, desired, history>>
        BY <2>1 DEF TypeOK, handler
      <3> QED
        BY <2>4, <3>1, GiveUpTyped
    <2> QED
      BY <1>3, <2>2, <2>3, <2>4 DEF ShowOrHide
  <1>4. CASE Destroy
    BY <1>4 DEF Destroy, TypeOK, Generations, HasTarget, owner, settings, session, handler, history
  <1>5. ASSUME NEW c \in Configs, Update(c) PROVE TypeOK'
    <2>1. {submitted, pending, desired, asked}' \subseteq Configs
      BY <1>5 DEF Update, TypeOK, settings
    <2>2. updates' \in 0..MaxUpdates /\ pc' = "events" /\ job' = "update" /\ refused' = FALSE
      BY <1>5, UpdatesAssumption DEF Update, TypeOK
    <2>3. UNCHANGED <<owner, settings, session, device, picture>>
      BY <1>5 DEF Update
    <2> QED
      BY <2>1, <2>2, <2>3 DEF TypeOK, Generations, HasTarget, owner, settings, session,
         handler, history
  <1>6. CASE NoFault
    BY <1>6 DEF NoFault, TypeOK, Generations, HasTarget, owner, settings, session, handler, history
  <1>7. CASE RetireFaulted
    <2>1. GiveUp /\ UNCHANGED <<visible, job, desired, history>> /\ pc' \in {"idle", "collect"}
      BY <1>7 DEF RetireFaulted
    <2>2. visible' \in BOOLEAN
      BY <2>1 DEF TypeOK
    <2> QED
      BY <2>1, <2>2, GiveUpTyped
  <1>8. CASE NothingToCollect
    BY <1>8 DEF NothingToCollect, AfterEvents, TypeOK, Generations, HasTarget, owner,
       settings, session, handler, history
  <1>9. CASE Collect
    <2>1. /\ pending' \in {pending, None} /\ desired' \in {desired, pending}
          /\ HasTarget(pending') \/ pending' = None
      BY <1>9 DEF Collect, TypeOK, Generations, HasTarget, owner, settings, session,
         handler, history
    <2>2. pc' \in {"create", "settle", "idle"} /\ picture' \in {"blank", picture}
      BY <1>9 DEF Collect, AfterEvents, TypeOK, Generations, HasTarget, owner, settings,
         session, handler, history
    <2> QED
      BY <1>9, <2>1, <2>2, NoneIsConfig DEF Collect, TypeOK, Generations, HasTarget, owner,
         settings, session, handler, history
  <1>10. CASE SettleLater
    <2>1. user_audio' \in [enabled : BOOLEAN, source : {"output", "mic"}]
      BY <1>10, ConfigFields DEF SettleLater, Remember, TypeOK, Generations, HasTarget,
         owner, settings, session, handler, history
    <2>2. pending' \in {desired, None} /\ (HasTarget(pending') \/ pending' = None)
      BY <1>10 DEF SettleLater, TypeOK, Generations, HasTarget, owner, settings, session,
         handler, history
    <2> QED
      BY <1>10, <2>1, <2>2, NoneIsConfig DEF SettleLater, SettleUnchanged, TypeOK,
         Generations, HasTarget, owner, settings, session, handler, history
  <1>11. CASE SettleNothing
    <2>1. user_audio' \in [enabled : BOOLEAN, source : {"output", "mic"}]
      BY <1>11, ConfigFields DEF SettleNothing, Remember, TypeOK, Generations, HasTarget,
         owner, settings, session, handler, history
    <2>2. pending' \in {pending, None} /\ (HasTarget(pending') \/ pending' = None)
      BY <1>11 DEF SettleNothing, TypeOK, Generations, HasTarget, owner, settings, session,
         handler, history
    <2> QED
      BY <1>11, <2>1, <2>2, NoneIsConfig DEF SettleNothing, SettleUnchanged, TypeOK,
         Generations, HasTarget, owner, settings, session, handler, history
  <1>12. CASE SettleStop
    <2>1. user_audio' \in [enabled : BOOLEAN, source : {"output", "mic"}]
      BY <1>12, ConfigFields DEF SettleStop, Remember, TypeOK
    <2>2. /\ StopSession(FALSE) /\ pending' = None /\ pc' = "idle"
          /\ UNCHANGED <<device, picture, visible, job, desired, history>>
      BY <1>12 DEF SettleStop, SettleUnchanged
    <2>3. visible' \in BOOLEAN
      BY <2>2 DEF TypeOK
    <2> QED
      BY <2>1, <2>2, <2>3, StopStepTyped, NoneIsConfig
  <1>13. CASE SettleReplace
    <2>1. user_audio' \in [enabled : BOOLEAN, source : {"output", "mic"}]
      BY <1>13, ConfigFields DEF SettleReplace, Remember, TypeOK
    <2>2. /\ StopSession(FALSE) /\ pending' = desired /\ pc' = "idle"
          /\ UNCHANGED <<device, picture, visible, job, desired, history>>
      BY <1>13 DEF SettleReplace, SettleUnchanged
    <2>3. HasTarget(pending') /\ pending' \in Configs /\ visible' \in BOOLEAN
      BY <1>13, <2>2 DEF SettleReplace, Plan, TypeOK, HasTarget
    <2> QED
      BY <2>1, <2>2, <2>3, StopStepTyped
  <1>14. CASE SettleStart
    BY <1>14, ConfigFields DEF SettleStart, Remember, SettleUnchanged, TypeOK, Generations,
       HasTarget, owner, settings, session, handler, history
  <1>15. CASE SettleAdjust
    BY <1>15, ConfigFields DEF SettleAdjust, Remember, SettleUnchanged, TypeOK, Generations,
       HasTarget, owner, settings, session, handler, history
  <1>16. CASE SwitchVideo
    <2>1. DeviceTyped'
      BY <1>16, ConfigFields DEF SwitchVideo, DeviceTyped, TypeOK, Generations, HasTarget,
         owner, settings, session, handler, history
    <2> QED
      BY <1>16, <2>1 DEF SwitchVideo, AdjustUnchanged, DeviceTyped, TypeOK, Generations,
         HasTarget, owner, settings, session, handler, history
  <1>17. CASE AdjustPause
    <2>1. AudioSource(desired) \in {"output", "mic"} /\ desired.audio \in BOOLEAN /\ visible \in BOOLEAN
      BY ConfigFields DEF TypeOK
    <2>2. Pausing(IF ~visible /\ desired.video # submitted.video THEN {"audio", "video"} ELSE {"audio"},
                    ~visible \/ ~desired.audio, AudioSource(desired))
      BY <1>17 DEF AdjustPause
    <2>3. DeviceTyped'
      BY <2>1, <2>2, PausingTyped
    <2> QED
      BY <1>17, <2>3 DEF AdjustPause, AdjustUnchanged, DeviceTyped, TypeOK, Generations,
         HasTarget, owner, settings, session, handler, history
  <1>18. CASE AdjustDone
    BY <1>18 DEF AdjustDone, TypeOK, Generations, HasTarget, owner, settings, session,
       handler, history
  <1>19. CASE AdjustFailed
    <2>1. GiveUp /\ UNCHANGED <<visible, job, desired, history>> /\ pc' \in {"idle", "collect"}
      BY <1>19 DEF AdjustFailed
    <2>2. visible' \in BOOLEAN
      BY <2>1 DEF TypeOK
    <2> QED
      BY <2>1, <2>2, GiveUpTyped
  <1>20. CASE CreateSession
    <2>1. next_generation' \in Generations
      BY <1>20, UpdatesAssumption DEF CreateSession, TypeOK, Generations
    <2>2. active' \in {active, next_generation'} /\ failed' \subseteq failed \cup {next_generation'}
      BY <1>20 DEF CreateSession
    <2>3. HealthTyped'
      BY <1>20, <2>1 DEF CreateSession, HealthTyped, TypeOK
    <2>4. desired.video \in Videos /\ AudioSource(desired) \in {"output", "mic"}
      BY ConfigFields DEF TypeOK
    <2>5. device' \in {device,
             [video |-> desired.video, paused |-> FALSE, audio |->
                IF desired.audio /\ visible THEN AudioSource(desired) ELSE "off"]}
      BY <1>20 DEF CreateSession
    <2>6. DeviceTyped'
      <3>1. device \in [video : Videos, paused : BOOLEAN, audio : {"off", "output", "mic"}]
        BY DEF TypeOK
      <3>2. device' = device => DeviceTyped'
        BY <3>1 DEF DeviceTyped
      <3> DEFINE a == IF desired.audio /\ visible THEN AudioSource(desired) ELSE "off"
      <3>3. a \in {"off", "output", "mic"}
        BY <2>4
      <3> HIDE DEF a
      <3>4. device' = [video |-> desired.video, paused |-> FALSE, audio |-> a] => DeviceTyped'
        BY <2>4, <3>3 DEF DeviceTyped
      <3> QED
        BY <2>5, <3>2, <3>4 DEF a
    <2>7. pc' \in {"idle", "start"} /\ pending' = None
      BY <1>20 DEF CreateSession
    <2>8. UNCHANGED <<retiring, submitted, user_audio, visible, audio_ended, picture,
                      job, desired, history>>
      BY <1>20 DEF CreateSession
    <2> QED
      BY <2>1, <2>2, <2>3, <2>6, <2>7, <2>8, NoneIsConfig DEF HealthTyped, DeviceTyped,
         TypeOK, Generations, HasTarget, owner, settings, session, handler, history
  <1>21. CASE Started
    <2>1. HealthTyped'
      BY <1>21 DEF Started, HealthTyped, TypeOK, Generations, HasTarget, owner, settings,
         session, handler, history
    <2> QED
      BY <1>21, <2>1 DEF Started, HealthTyped, TypeOK, Generations, HasTarget, owner,
         settings, session, handler, history
  <1>22. CASE StartFailed
    <2>1. /\ StopSession(TRUE) /\ pc' = "idle"
          /\ UNCHANGED <<pending, user_audio, visible, device, picture, job, desired, history>>
      BY <1>22 DEF StartFailed
    <2>2. /\ pending' \in Configs
          /\ HasTarget(pending') \/ pending' = None
          /\ user_audio' \in [enabled : BOOLEAN, source : {"output", "mic"}]
          /\ visible' \in BOOLEAN
      BY <2>1 DEF TypeOK, HasTarget
    <2> QED
      BY <2>1, <2>2, StopStepTyped
  <1>23. CASE Synchronized
    <2>1. AudioSource(desired) \in {"output", "mic"} /\ desired.audio \in BOOLEAN /\ visible \in BOOLEAN
      BY ConfigFields DEF TypeOK
    <2>2. SynchronizeVisibility(desired.audio, AudioSource(desired), visible)
      BY <1>23 DEF Synchronized
    <2>3. DeviceTyped'
      BY <2>1, <2>2, SynchronizeTyped
    <2> QED
      BY <1>23, <2>3 DEF Synchronized, DeviceTyped, TypeOK, Generations, HasTarget, owner,
         settings, session, handler, history
  <1>24. CASE SynchronizeFailed
    <2>1. GiveUp /\ UNCHANGED <<visible, job, desired, history>> /\ pc' \in {"idle", "collect"}
      BY <1>24 DEF SynchronizeFailed
    <2>2. visible' \in BOOLEAN
      BY <2>1 DEF TypeOK
    <2> QED
      BY <2>1, <2>2, GiveUpTyped
  <1>25. ASSUME NEW g \in Generations, Fault(g) PROVE TypeOK'
    BY <1>25 DEF Fault, SessionUnchanged, TypeOK, Generations, HasTarget, owner, settings,
       session, handler, history
  <1>26. ASSUME NEW g \in Generations, AudioEnd(g) PROVE TypeOK'
    BY <1>26 DEF AudioEnd, SessionUnchanged, TypeOK, Generations, HasTarget, owner,
       settings, session, handler, history
  <1>27. ASSUME NEW g \in Generations, Retired(g) PROVE TypeOK'
    BY <1>27 DEF Retired, SessionUnchanged, TypeOK, Generations, HasTarget, owner, settings,
       session, handler, history
  <1>28. ASSUME NEW g \in Generations, Frame(g) PROVE TypeOK'
    BY <1>28 DEF Frame, SessionUnchanged, Unretired, TypeOK, Generations, HasTarget, owner,
       settings, session, handler, history
  <1>29. CASE UNCHANGED vars
    BY <1>29 DEF vars, TypeOK, Generations, HasTarget, owner, settings, session, handler, history
  <1> QED
    BY <1>1, <1>2, <1>3, <1>4, <1>5, <1>6, <1>7, <1>8, <1>9, <1>10, <1>11, <1>12, <1>13,
       <1>14, <1>15, <1>16, <1>17, <1>18, <1>19, <1>20, <1>21, <1>22, <1>23, <1>24, <1>25,
       <1>26, <1>27, <1>28, <1>29 DEF Next, HandlerNext, SessionNext, Terminated

(* Whatever the session does and wherever the handler stands, the source    *)
(* keeps to its newest session.                                             *)
LEMMA OwnerStep ==
  ASSUME TypeOK, OwnerInv, [Next]_vars
  PROVE  OwnerInv'
  <1> USE UpdatesAssumption DEF TypeOK, OwnerInv, Generations, owner, settings, session,
          handler, history, Unsettled, Starting, Adjusting, CanCollect, Faulted, Healthy
  <1>1. CASE VideoTick
    BY <1>1 DEF VideoTick
  <1>2. CASE UpdateRefused
    BY <1>2 DEF UpdateRefused
  <1>3. CASE ShowOrHide
    BY <1>3 DEF ShowOrHide, GiveUp, StopSession, SynchronizeVisibility, Pausing
  <1>4. CASE Destroy
    BY <1>4 DEF Destroy
  <1>5. ASSUME NEW c \in Configs, Update(c) PROVE OwnerInv'
    BY <1>5 DEF Update
  <1>6. CASE NoFault
    BY <1>6 DEF NoFault
  <1>7. CASE RetireFaulted
    BY <1>7 DEF RetireFaulted, GiveUp, StopSession, Faulted
  <1>8. CASE NothingToCollect
    BY <1>8 DEF NothingToCollect, AfterEvents
  <1>9. CASE Collect
    BY <1>9 DEF Collect, AfterEvents, CanCollect
  <1>10. CASE SettleLater
    BY <1>10 DEF SettleLater, Remember, SettleUnchanged
  <1>11. CASE SettleNothing
    BY <1>11 DEF SettleNothing, Remember, SettleUnchanged, Plan
  <1>12. CASE SettleStop
    BY <1>12 DEF SettleStop, Remember, SettleUnchanged, Plan, StopSession
  <1>13. CASE SettleReplace
    BY <1>13 DEF SettleReplace, Remember, SettleUnchanged, Plan, StopSession
  <1>14. CASE SettleStart
    BY <1>14 DEF SettleStart, Remember, SettleUnchanged, Plan
  <1>15. CASE SettleAdjust
    BY <1>15 DEF SettleAdjust, Remember, SettleUnchanged, Plan
  <1>16. CASE SwitchVideo
    BY <1>16 DEF SwitchVideo, AdjustUnchanged
  <1>17. CASE AdjustPause
    BY <1>17 DEF AdjustPause, AdjustUnchanged, Pausing
  <1>18. CASE AdjustDone
    BY <1>18 DEF AdjustDone
  <1>19. CASE AdjustFailed
    BY <1>19 DEF AdjustFailed, GiveUp, StopSession
  <1>20. CASE CreateSession
    BY <1>20 DEF CreateSession
  <1>21. CASE Started
    BY <1>21 DEF Started
  <1>22. CASE StartFailed
    BY <1>22 DEF StartFailed, StopSession
  <1>23. CASE Synchronized
    BY <1>23 DEF Synchronized, SynchronizeVisibility, Pausing
  <1>24. CASE SynchronizeFailed
    BY <1>24 DEF SynchronizeFailed, GiveUp, StopSession
  <1>25. ASSUME NEW g \in Generations, Fault(g) PROVE OwnerInv'
    BY <1>25 DEF Fault, SessionUnchanged
  <1>26. ASSUME NEW g \in Generations, AudioEnd(g) PROVE OwnerInv'
    BY <1>26 DEF AudioEnd, SessionUnchanged
  <1>27. ASSUME NEW g \in Generations, Retired(g) PROVE OwnerInv'
    BY <1>27 DEF Retired, SessionUnchanged
  <1>28. ASSUME NEW g \in Generations, Frame(g) PROVE OwnerInv'
    BY <1>28 DEF Frame, SessionUnchanged, Unretired
  <1>29. CASE UNCHANGED vars
    BY <1>29 DEF vars
  <1> QED
    BY <1>1, <1>2, <1>3, <1>4, <1>5, <1>6, <1>7, <1>8, <1>9, <1>10, <1>11, <1>12, <1>13,
       <1>14, <1>15, <1>16, <1>17, <1>18, <1>19, <1>20, <1>21, <1>22, <1>23, <1>24, <1>25,
       <1>26, <1>27, <1>28, <1>29 DEF Next, HandlerNext, SessionNext, Terminated

(* A session is started only for an update that none was started for.       *)
LEMMA CountStep ==
  ASSUME TypeOK, OwnerInv, CountInv, [Next]_vars
  PROVE  CountInv'
  <1> USE UpdatesAssumption DEF TypeOK, OwnerInv, Generations, owner, settings, session,
          handler, history, CountInv, Unsettled, Starting, Adjusting, CanCollect, Faulted, Healthy,
          HasTarget, None
  <1>1. CASE VideoTick
    BY <1>1 DEF VideoTick
  <1>2. CASE UpdateRefused
    BY <1>2 DEF UpdateRefused
  <1>3. CASE ShowOrHide
    BY <1>3 DEF ShowOrHide, GiveUp, StopSession, SynchronizeVisibility, Pausing
  <1>4. CASE Destroy
    BY <1>4 DEF Destroy
  <1>5. ASSUME NEW c \in Configs, Update(c) PROVE CountInv'
    BY <1>5 DEF Update
  <1>6. CASE NoFault
    BY <1>6 DEF NoFault
  <1>7. CASE RetireFaulted
    BY <1>7 DEF RetireFaulted, GiveUp, StopSession, Faulted
  <1>8. CASE NothingToCollect
    BY <1>8 DEF NothingToCollect, AfterEvents
  <1>9. CASE Collect
    BY <1>9 DEF Collect, AfterEvents, CanCollect
  <1>10. CASE SettleLater
    BY <1>10 DEF SettleLater, Remember, SettleUnchanged
  <1>11. CASE SettleNothing
    BY <1>11 DEF SettleNothing, Remember, SettleUnchanged, Plan
  <1>12. CASE SettleStop
    BY <1>12 DEF SettleStop, Remember, SettleUnchanged, Plan, StopSession
  <1>13. CASE SettleReplace
    BY <1>13 DEF SettleReplace, Remember, SettleUnchanged, Plan, StopSession
  <1>14. CASE SettleStart
    BY <1>14 DEF SettleStart, Remember, SettleUnchanged, Plan
  <1>15. CASE SettleAdjust
    BY <1>15 DEF SettleAdjust, Remember, SettleUnchanged, Plan
  <1>16. CASE SwitchVideo
    BY <1>16 DEF SwitchVideo, AdjustUnchanged
  <1>17. CASE AdjustPause
    BY <1>17 DEF AdjustPause, AdjustUnchanged, Pausing
  <1>18. CASE AdjustDone
    BY <1>18 DEF AdjustDone
  <1>19. CASE AdjustFailed
    BY <1>19 DEF AdjustFailed, GiveUp, StopSession
  <1>20. CASE CreateSession
    BY <1>20 DEF CreateSession
  <1>21. CASE Started
    BY <1>21 DEF Started
  <1>22. CASE StartFailed
    BY <1>22 DEF StartFailed, StopSession
  <1>23. CASE Synchronized
    BY <1>23 DEF Synchronized, SynchronizeVisibility, Pausing
  <1>24. CASE SynchronizeFailed
    BY <1>24 DEF SynchronizeFailed, GiveUp, StopSession
  <1>25. ASSUME NEW g \in Generations, Fault(g) PROVE CountInv'
    BY <1>25 DEF Fault, SessionUnchanged
  <1>26. ASSUME NEW g \in Generations, AudioEnd(g) PROVE CountInv'
    BY <1>26 DEF AudioEnd, SessionUnchanged
  <1>27. ASSUME NEW g \in Generations, Retired(g) PROVE CountInv'
    BY <1>27 DEF Retired, SessionUnchanged
  <1>28. ASSUME NEW g \in Generations, Frame(g) PROVE CountInv'
    BY <1>28 DEF Frame, SessionUnchanged, Unretired
  <1>29. CASE UNCHANGED vars
    BY <1>29 DEF vars
  <1> QED
    BY <1>1, <1>2, <1>3, <1>4, <1>5, <1>6, <1>7, <1>8, <1>9, <1>10, <1>11, <1>12, <1>13,
       <1>14, <1>15, <1>16, <1>17, <1>18, <1>19, <1>20, <1>21, <1>22, <1>23, <1>24, <1>25,
       <1>26, <1>27, <1>28, <1>29 DEF Next, HandlerNext, SessionNext, Terminated

(* Every place keeps to the settings it is about.                           *)
LEMMA SettingsStep ==
  ASSUME TypeOK, OwnerInv, SettingsInv, [Next]_vars
  PROVE  SettingsInv'
  <1> USE UpdatesAssumption DEF TypeOK, OwnerInv, Generations, owner, settings, session,
          handler, history, SettingsInv, Unsettled, Starting, Adjusting, Acting, CanCollect,
          Faulted, Healthy, HasTarget, None
  <1>1. CASE VideoTick
    BY <1>1 DEF VideoTick
  <1>2. CASE UpdateRefused
    BY <1>2 DEF UpdateRefused
  <1>3. CASE ShowOrHide
    BY <1>3 DEF ShowOrHide, GiveUp, StopSession, SynchronizeVisibility, Pausing
  <1>4. CASE Destroy
    BY <1>4 DEF Destroy
  <1>5. ASSUME NEW c \in Configs, Update(c) PROVE SettingsInv'
    BY <1>5 DEF Update
  <1>6. CASE NoFault
    BY <1>6 DEF NoFault
  <1>7. CASE RetireFaulted
    BY <1>7 DEF RetireFaulted, GiveUp, StopSession, Faulted
  <1>8. CASE NothingToCollect
    BY <1>8 DEF NothingToCollect, AfterEvents
  <1>9. CASE Collect
    BY <1>9 DEF Collect, AfterEvents, CanCollect
  <1>10. CASE SettleLater
    BY <1>10 DEF SettleLater, Remember, SettleUnchanged
  <1>11. CASE SettleNothing
    BY <1>11 DEF SettleNothing, Remember, SettleUnchanged, Plan
  <1>12. CASE SettleStop
    BY <1>12 DEF SettleStop, Remember, SettleUnchanged, Plan, StopSession
  <1>13. CASE SettleReplace
    BY <1>13 DEF SettleReplace, Remember, SettleUnchanged, Plan, StopSession
  <1>14. CASE SettleStart
    BY <1>14 DEF SettleStart, Remember, SettleUnchanged, Plan
  <1>15. CASE SettleAdjust
    BY <1>15 DEF SettleAdjust, Remember, SettleUnchanged, Plan
  <1>16. CASE SwitchVideo
    BY <1>16 DEF SwitchVideo, AdjustUnchanged
  <1>17. CASE AdjustPause
    BY <1>17 DEF AdjustPause, AdjustUnchanged, Pausing
  <1>18. CASE AdjustDone
    BY <1>18 DEF AdjustDone
  <1>19. CASE AdjustFailed
    BY <1>19 DEF AdjustFailed, GiveUp, StopSession
  <1>20. CASE CreateSession
    BY <1>20 DEF CreateSession
  <1>21. CASE Started
    BY <1>21 DEF Started
  <1>22. CASE StartFailed
    BY <1>22 DEF StartFailed, StopSession
  <1>23. CASE Synchronized
    BY <1>23 DEF Synchronized, SynchronizeVisibility, Pausing
  <1>24. CASE SynchronizeFailed
    BY <1>24 DEF SynchronizeFailed, GiveUp, StopSession
  <1>25. ASSUME NEW g \in Generations, Fault(g) PROVE SettingsInv'
    BY <1>25 DEF Fault, SessionUnchanged
  <1>26. ASSUME NEW g \in Generations, AudioEnd(g) PROVE SettingsInv'
    BY <1>26 DEF AudioEnd, SessionUnchanged
  <1>27. ASSUME NEW g \in Generations, Retired(g) PROVE SettingsInv'
    BY <1>27 DEF Retired, SessionUnchanged
  <1>28. ASSUME NEW g \in Generations, Frame(g) PROVE SettingsInv'
    BY <1>28 DEF Frame, SessionUnchanged, Unretired
  <1>29. CASE UNCHANGED vars
    BY <1>29 DEF vars
  <1> QED
    BY <1>1, <1>2, <1>3, <1>4, <1>5, <1>6, <1>7, <1>8, <1>9, <1>10, <1>11, <1>12, <1>13,
       <1>14, <1>15, <1>16, <1>17, <1>18, <1>19, <1>20, <1>21, <1>22, <1>23, <1>24, <1>25,
       <1>26, <1>27, <1>28, <1>29 DEF Next, HandlerNext, SessionNext, Terminated

(* Each message brings the device as far as its place in the batch says.    *)
LEMMA StreamStep ==
  ASSUME TypeOK, OwnerInv, SettingsInv, StreamInv, [Next]_vars
  PROVE  StreamInv'
  <1> USE UpdatesAssumption DEF TypeOK, OwnerInv, Generations, owner, settings, session,
          handler, history, SettingsInv, StreamInv, Sends, AudioFor, Unsettled, Starting, Adjusting,
          Acting, CanCollect, Faulted, Healthy, HasTarget, None
  <1>1. CASE VideoTick
    BY <1>1 DEF VideoTick
  <1>2. CASE UpdateRefused
    BY <1>2 DEF UpdateRefused
  <1>3. CASE ShowOrHide
    <2>1. CASE ~Healthy
      BY <1>3, <2>1 DEF ShowOrHide
    <2>2. ASSUME Healthy, SynchronizeVisibility(user_audio.enabled, user_audio.source, ~visible),
                 UNCHANGED <<owner, submitted, pending, session, picture>>
          PROVE  StreamInv'
      <3>1. Sends(submitted) /\ submitted = asked
        BY <1>3, <2>2 DEF ShowOrHide
      <3>2. user_audio.enabled = submitted.audio /\ user_audio.source = AudioSource(submitted)
        BY <1>3, <3>1 DEF ShowOrHide
      <3>3. visible' = ~visible /\ pc' = "idle" /\ pc = "idle"
        BY <1>3 DEF ShowOrHide
      <3>4. /\ device'.video = device.video
            /\ device'.paused = visible
            /\ device'.audio = IF ~visible /\ submitted.audio THEN AudioSource(submitted) ELSE "off"
        BY <2>2, <3>1, <3>2 DEF SynchronizeVisibility, Pausing
      <3> QED
        BY <2>2, <3>1, <3>3, <3>4
    <2>3. CASE GiveUp
      BY <1>3, <2>3 DEF ShowOrHide, GiveUp, StopSession
    <2> QED
      BY <1>3, <2>1, <2>2, <2>3 DEF ShowOrHide
  <1>4. CASE Destroy
    BY <1>4 DEF Destroy
  <1>5. ASSUME NEW c \in Configs, Update(c) PROVE StreamInv'
    BY <1>5 DEF Update
  <1>6. CASE NoFault
    BY <1>6 DEF NoFault
  <1>7. CASE RetireFaulted
    BY <1>7 DEF RetireFaulted, GiveUp, StopSession, Faulted
  <1>8. CASE NothingToCollect
    BY <1>8 DEF NothingToCollect, AfterEvents
  <1>9. CASE Collect
    BY <1>9 DEF Collect, AfterEvents, CanCollect
  <1>10. CASE SettleLater
    BY <1>10 DEF SettleLater, Remember, SettleUnchanged
  <1>11. CASE SettleNothing
    BY <1>11 DEF SettleNothing, Remember, SettleUnchanged, Plan
  <1>12. CASE SettleStop
    BY <1>12 DEF SettleStop, Remember, SettleUnchanged, Plan, StopSession
  <1>13. CASE SettleReplace
    BY <1>13 DEF SettleReplace, Remember, SettleUnchanged, Plan, StopSession
  <1>14. CASE SettleStart
    BY <1>14 DEF SettleStart, Remember, SettleUnchanged, Plan
  <1>15. CASE SettleAdjust
    BY <1>15 DEF SettleAdjust, Remember, SettleUnchanged, Plan
  <1>16. CASE SwitchVideo
    <2>1. /\ pc' = "pause" /\ desired' = desired /\ visible' = visible
          /\ device'.video = desired.video
          /\ \E resumed \in BOOLEAN : device'.paused = (device.paused /\ ~resumed)
      BY <1>16 DEF SwitchVideo, AdjustUnchanged
    <2>2. Sends(submitted) /\ desired.video # submitted.video /\ submitted' = submitted
      BY <1>16 DEF SwitchVideo, AdjustUnchanged
    <2>3. visible => device'.paused = ~visible
      BY <2>1, <2>2
    <2> QED
      BY <2>1, <2>2, <2>3
  <1>17. CASE AdjustPause
    BY <1>17 DEF AdjustPause, AdjustUnchanged, Pausing
  <1>18. CASE AdjustDone
    BY <1>18 DEF AdjustDone
  <1>19. CASE AdjustFailed
    BY <1>19 DEF AdjustFailed, GiveUp, StopSession
  <1>20. CASE CreateSession
    BY <1>20 DEF CreateSession
  <1>21. CASE Started
    BY <1>21 DEF Started
  <1>22. CASE StartFailed
    BY <1>22 DEF StartFailed, StopSession
  <1>23. CASE Synchronized
    BY <1>23 DEF Synchronized, SynchronizeVisibility, Pausing
  <1>24. CASE SynchronizeFailed
    BY <1>24 DEF SynchronizeFailed, GiveUp, StopSession
  <1>25. ASSUME NEW g \in Generations, Fault(g) PROVE StreamInv'
    BY <1>25 DEF Fault, SessionUnchanged
  <1>26. ASSUME NEW g \in Generations, AudioEnd(g) PROVE StreamInv'
    BY <1>26 DEF AudioEnd, SessionUnchanged
  <1>27. ASSUME NEW g \in Generations, Retired(g) PROVE StreamInv'
    BY <1>27 DEF Retired, SessionUnchanged
  <1>28. ASSUME NEW g \in Generations, Frame(g) PROVE StreamInv'
    BY <1>28 DEF Frame, SessionUnchanged, Unretired
  <1>29. CASE UNCHANGED vars
    BY <1>29 DEF vars
  <1> QED
    BY <1>1, <1>2, <1>3, <1>4, <1>5, <1>6, <1>7, <1>8, <1>9, <1>10, <1>11, <1>12, <1>13,
       <1>14, <1>15, <1>16, <1>17, <1>18, <1>19, <1>20, <1>21, <1>22, <1>23, <1>24, <1>25,
       <1>26, <1>27, <1>28, <1>29 DEF Next, HandlerNext, SessionNext, Terminated

(* A session that failed takes its picture along.                           *)
LEMMA PictureStep ==
  ASSUME TypeOK, OwnerInv, PictureInv, [Next]_vars
  PROVE  PictureInv'
  <1> USE UpdatesAssumption DEF TypeOK, OwnerInv, Generations, owner, settings, session,
          handler, history, PictureInv, Unsettled, CanCollect, Faulted, Healthy, Starting, Adjusting
  <1>1. CASE VideoTick
    BY <1>1 DEF VideoTick
  <1>2. CASE UpdateRefused
    BY <1>2 DEF UpdateRefused
  <1>3. CASE ShowOrHide
    BY <1>3 DEF ShowOrHide, GiveUp, StopSession, SynchronizeVisibility, Pausing
  <1>4. CASE Destroy
    BY <1>4 DEF Destroy
  <1>5. ASSUME NEW c \in Configs, Update(c) PROVE PictureInv'
    BY <1>5 DEF Update
  <1>6. CASE NoFault
    BY <1>6 DEF NoFault
  <1>7. CASE RetireFaulted
    BY <1>7 DEF RetireFaulted, GiveUp, StopSession, Faulted
  <1>8. CASE NothingToCollect
    BY <1>8 DEF NothingToCollect, AfterEvents
  <1>9. CASE Collect
    BY <1>9 DEF Collect, AfterEvents, CanCollect
  <1>10. CASE SettleLater
    BY <1>10 DEF SettleLater, Remember, SettleUnchanged
  <1>11. CASE SettleNothing
    BY <1>11 DEF SettleNothing, Remember, SettleUnchanged, Plan
  <1>12. CASE SettleStop
    BY <1>12 DEF SettleStop, Remember, SettleUnchanged, Plan, StopSession
  <1>13. CASE SettleReplace
    BY <1>13 DEF SettleReplace, Remember, SettleUnchanged, Plan, StopSession
  <1>14. CASE SettleStart
    BY <1>14 DEF SettleStart, Remember, SettleUnchanged, Plan
  <1>15. CASE SettleAdjust
    BY <1>15 DEF SettleAdjust, Remember, SettleUnchanged, Plan
  <1>16. CASE SwitchVideo
    BY <1>16 DEF SwitchVideo, AdjustUnchanged
  <1>17. CASE AdjustPause
    BY <1>17 DEF AdjustPause, AdjustUnchanged, Pausing
  <1>18. CASE AdjustDone
    BY <1>18 DEF AdjustDone
  <1>19. CASE AdjustFailed
    BY <1>19 DEF AdjustFailed, GiveUp, StopSession
  <1>20. CASE CreateSession
    <2>1. /\ next_generation' = next_generation + 1
          /\ active = 0 /\ retiring = 0 /\ retiring' = retiring
          /\ failed' = failed
      BY <1>20 DEF CreateSession
    <2> QED
      BY <2>1
  <1>21. CASE Started
    BY <1>21 DEF Started
  <1>22. CASE StartFailed
    BY <1>22 DEF StartFailed, StopSession
  <1>23. CASE Synchronized
    BY <1>23 DEF Synchronized, SynchronizeVisibility, Pausing
  <1>24. CASE SynchronizeFailed
    BY <1>24 DEF SynchronizeFailed, GiveUp, StopSession
  <1>25. ASSUME NEW g \in Generations, Fault(g) PROVE PictureInv'
    BY <1>25 DEF Fault, SessionUnchanged
  <1>26. ASSUME NEW g \in Generations, AudioEnd(g) PROVE PictureInv'
    BY <1>26 DEF AudioEnd, SessionUnchanged
  <1>27. ASSUME NEW g \in Generations, Retired(g) PROVE PictureInv'
    BY <1>27 DEF Retired, SessionUnchanged
  <1>28. ASSUME NEW g \in Generations, Frame(g) PROVE PictureInv'
    BY <1>28 DEF Frame, SessionUnchanged, Unretired
  <1>29. CASE UNCHANGED vars
    BY <1>29 DEF vars
  <1> QED
    BY <1>1, <1>2, <1>3, <1>4, <1>5, <1>6, <1>7, <1>8, <1>9, <1>10, <1>11, <1>12, <1>13,
       <1>14, <1>15, <1>16, <1>17, <1>18, <1>19, <1>20, <1>21, <1>22, <1>23, <1>24, <1>25,
       <1>26, <1>27, <1>28, <1>29 DEF Next, HandlerNext, SessionNext, Terminated

-----------------------------------------------------------------------------
(* A source begins without a session and without settings.                  *)
LEMMA InitSource == Init => TypeOK /\ SourceInv
  <1> SUFFICES ASSUME Init PROVE TypeOK /\ SourceInv
    OBVIOUS
  <1>1. TypeOK
    <2>1. {submitted, pending, desired, asked} \subseteq Configs
      BY NoneIsConfig DEF Init
    <2>2. DeviceTyped /\ HealthTyped
      BY DEF Init, DeviceTyped, HealthTyped, Videos
    <2>3. user_audio \in [enabled : BOOLEAN, source : {"output", "mic"}]
      BY DEF Init
    <2>4. next_generation \in 0..(MaxUpdates + 1) /\ updates \in 0..MaxUpdates
      BY UpdatesAssumption DEF Init
    <2>5. /\ active = 0 /\ retiring = 0 /\ failed = {} /\ audio_ended = {} /\ pending = None
          /\ visible \in BOOLEAN /\ refused \in BOOLEAN
          /\ picture = "blank" /\ pc = "idle" /\ job = "tick"
      BY DEF Init
    <2> QED
      BY <2>1, <2>2, <2>3, <2>4, <2>5 DEF TypeOK, DeviceTyped, HealthTyped
  <1>2. OwnerInv /\ CountInv
    BY UpdatesAssumption DEF Init, OwnerInv, CountInv, Generations, Starting, Adjusting,
       Unsettled, None, HasTarget
  <1>3. SettingsInv
    BY DEF Init, SettingsInv, Unsettled, Acting, Starting, Adjusting, None, HasTarget, AudioSource
  <1>4. StreamInv /\ PictureInv
    BY DEF Init, StreamInv, PictureInv, Healthy, Starting
  <1> QED
    BY <1>1, <1>2, <1>3, <1>4 DEF SourceInv

(* Types hold in every state of every execution, for every set of devices   *)
(* and any number of updates.                                               *)
THEOREM Typing == Spec => []TypeOK
  <1>1. Init => TypeOK
    BY InitSource
  <1>2. TypeOK /\ [Next]_vars => TypeOK'
    BY TypeStep
  <1> QED
    BY <1>1, <1>2, PTL DEF Spec

(* The invariant that the properties of a source follow from.               *)
THEOREM Invariance == Spec => [](TypeOK /\ SourceInv)
  <1>1. Init => TypeOK /\ SourceInv
    BY InitSource
  <1>2. TypeOK /\ SourceInv /\ [Next]_vars => (TypeOK /\ SourceInv)'
    BY TypeStep, OwnerStep, CountStep, SettingsStep, StreamStep, PictureStep DEF SourceInv
  <1> QED
    BY <1>1, <1>2, PTL DEF Spec

(* A source never has two sessions that are not retired, and never more     *)
(* sessions than updates: stop_session() retires before a successor is      *)
(* created, and a session that is lost is not tried again.                  *)
THEOREM OneSession == Spec => []OneSessionPerUpdate
  <1>1. TypeOK /\ SourceInv => OneSessionPerUpdate
    <2> SUFFICES ASSUME TypeOK, SourceInv PROVE OneSessionPerUpdate
      OBVIOUS
    <2>1. Unretired \subseteq {next_generation}
      BY UpdatesAssumption DEF Unretired, SourceInv, OwnerInv, TypeOK, Generations
    <2>2. IsFiniteSet({next_generation}) /\ Cardinality({next_generation}) = 1
      BY FS_Singleton
    <2>3. Cardinality(Unretired) <= 1
      BY <2>1, <2>2, FS_Subset
    <2> QED
      BY <2>3 DEF OneSessionPerUpdate, SourceInv, CountInv
  <1> QED
    BY <1>1, Invariance, PTL

(* Between handlers a healthy session has been told to send what the newest *)
(* settings and the visibility of the source call for.                      *)
THEOREM Streams == Spec => []StreamsMatch
  <1>1. TypeOK /\ SourceInv => StreamsMatch
    BY DEF SourceInv, StreamInv, StreamsMatch, Sends, AudioFor
  <1> QED
    BY <1>1, Invariance, PTL

(* Between handlers, what runs and what waits are the newest settings.      *)
THEOREM Newest == Spec => []NewestSettingsWin
  <1>1. TypeOK /\ SourceInv => NewestSettingsWin
    BY NoneIsConfig DEF SourceInv, SettingsInv, NewestSettingsWin, Unsettled, Acting, Starting,
       Adjusting, TypeOK, HasTarget
  <1> QED
    BY <1>1, Invariance, PTL

(* Once a failed session has been collected none of its frames stays.       *)
THEOREM NoPicture == Spec => []FailureLeavesNoPicture
  <1>1. TypeOK /\ SourceInv => FailureLeavesNoPicture
    BY DEF SourceInv, PictureInv, FailureLeavesNoPicture
  <1> QED
    BY <1>1, Invariance, PTL

-----------------------------------------------------------------------------
(* A source and its sessions.                                               *)

(* Steps that leave the sessions alone.                                     *)
LEMMA SessionsLeftAlone ==
  ASSUME NEW g \in Generations, UNCHANGED <<health, failed, audio_ended>>
  PROVE  UNCHANGED Session(g)!vars
  BY DEF Session!vars

(* stop_session() asks one session to retire, whichever place it is in.     *)
LEMMA StopIsRequest ==
  ASSUME TypeOK, OwnerInv, NEW verdict \in BOOLEAN, StopSession(verdict),
         NEW g \in Generations
  PROVE  [Session(g)!Next]_(Session(g)!vars)
  <1> DEFINE h == IF active # 0 THEN active ELSE retiring
  <1>1. CASE g = h
    <2>1. health[g] # "none"
      BY <1>1 DEF OwnerInv, Generations
    <2>2. /\ health'[g] = IF health[g] # "retired" THEN "stopping" ELSE health[g]
          /\ (g \in failed') = (g \in failed \/ verdict)
          /\ UNCHANGED audio_ended
      BY <1>1 DEF StopSession, Generations
    <2>3. Session(g)!RequestRetire(verdict)
      BY <2>1, <2>2 DEF Session!RequestRetire
    <2> QED
      BY <2>3 DEF Session!Next
  <1>2. CASE g # h
    <2>1. health'[g] = health[g] /\ (g \in failed') = (g \in failed) /\ UNCHANGED audio_ended
      BY <1>2 DEF StopSession
    <2> QED
      BY <2>1 DEF Session!vars
  <1> QED
    BY <1>1, <1>2

(* The source does to a session, and expects of it, only what its contract  *)
(* says: every step is one of the contract, or nothing the session sees.    *)
LEMMA SessionSteps ==
  ASSUME TypeOK, OwnerInv, NEW g \in Generations, [Next]_vars
  PROVE  [Session(g)!Next]_(Session(g)!vars)
  <1>1. CASE UNCHANGED <<health, failed, audio_ended>>
    BY <1>1, SessionsLeftAlone
  <1>2. ASSUME NEW verdict \in BOOLEAN, StopSession(verdict)
        PROVE  [Session(g)!Next]_(Session(g)!vars)
    BY <1>2, StopIsRequest
  <1>3. CASE Destroy
    <2>1. CASE g \in {active, retiring}
      <3>1. health[g] # "none"
        BY <2>1 DEF OwnerInv, Generations
      <3>2. Session(g)!RequestRetire(FALSE)
        BY <1>3, <2>1, <3>1 DEF Destroy, Session!RequestRetire
      <3> QED
        BY <3>2 DEF Session!Next
    <2>2. CASE g \notin {active, retiring}
      BY <1>3, <2>2 DEF Destroy, Session!vars
    <2> QED
      BY <2>1, <2>2
  <1>4. CASE CreateSession
    <2> DEFINE n == next_generation + 1
    <2>1. CASE g = n
      <3>1. health[g] = "none" /\ UNCHANGED audio_ended
        BY <1>4, <2>1 DEF CreateSession, OwnerInv, TypeOK, Generations
      <3>2. CASE health'[g] \in {"none", "starting"} /\ UNCHANGED failed
        BY <3>1, <3>2 DEF Session!vars
      <3>3. CASE health'[g] = "stopping" /\ failed' = failed \cup {g}
        <4>1. Session(g)!RequestRetire(TRUE)
          BY <3>1, <3>3 DEF Session!RequestRetire
        <4> QED
          BY <4>1 DEF Session!Next
      <3> QED
        BY <1>4, <2>1, <3>1, <3>2, <3>3 DEF CreateSession, TypeOK
    <2>2. CASE g # n
      <3>1. health'[g] = health[g] /\ (g \in failed') = (g \in failed) /\ UNCHANGED audio_ended
        BY <1>4, <2>2 DEF CreateSession, TypeOK
      <3> QED
        BY <3>1 DEF Session!vars
    <2> QED
      BY <2>1, <2>2
  <1>5. CASE Started
    <2>1. CASE g = active
      <3>1. Session(g)!MarkRunning
        BY <1>5, <2>1 DEF Started, TypeOK, Session!MarkRunning
      <3> QED
        BY <3>1 DEF Session!Next
    <2>2. CASE g # active
      BY <1>5, <2>2 DEF Started, TypeOK, Session!vars
    <2> QED
      BY <2>1, <2>2
  <1>6. ASSUME NEW x \in Generations, SessionNext(x), x # g
        PROVE  UNCHANGED Session(g)!vars
    BY <1>6 DEF SessionNext, Fault, AudioEnd, Retired, Frame, SessionUnchanged, TypeOK,
       Session!vars
  <1>7. CASE SessionNext(g)
    <2>1. CASE Fault(g)
      <3>1. Session(g)!ReportFault
        BY <2>1 DEF Fault, SessionUnchanged, TypeOK, Session!ReportFault
      <3> QED
        BY <3>1 DEF Session!Next
    <2>2. CASE AudioEnd(g)
      <3>1. Session(g)!AudioEnded
        BY <2>2 DEF AudioEnd, Unretired, SessionUnchanged, TypeOK, Session!AudioEnded
      <3> QED
        BY <3>1 DEF Session!Next
    <2>3. CASE Retired(g)
      <3>1. Session(g)!Retire
        BY <2>3 DEF Retired, SessionUnchanged, TypeOK, Session!Retire
      <3> QED
        BY <3>1 DEF Session!Next
    <2>4. CASE Frame(g)
      BY <2>4, SessionsLeftAlone DEF Frame, SessionUnchanged
    <2> QED
      BY <1>7, <2>1, <2>2, <2>3, <2>4 DEF SessionNext
  <1>8. CASE RetireFaulted \/ AdjustFailed \/ SynchronizeFailed \/ StartFailed
    BY <1>2, <1>8 DEF RetireFaulted, AdjustFailed, SynchronizeFailed, StartFailed, GiveUp
  <1>9. CASE SettleStop \/ SettleReplace
    BY <1>2, <1>9 DEF SettleStop, SettleReplace
  <1>10. CASE ShowOrHide
    BY <1>1, <1>2, <1>10 DEF ShowOrHide, GiveUp, session
  <1>11. CASE VideoTick \/ UpdateRefused \/ (\E c \in Configs : Update(c)) \/ UNCHANGED vars
    BY <1>1, <1>11 DEF VideoTick, UpdateRefused, Update, vars, session
  <1>12. CASE NoFault \/ NothingToCollect \/ Collect
    BY <1>1, <1>12 DEF NoFault, NothingToCollect, Collect, session
  <1>13. CASE SettleLater \/ SettleNothing \/ SettleStart \/ SettleAdjust
    BY <1>1, <1>13 DEF SettleLater, SettleNothing, SettleStart, SettleAdjust, session
  <1>14. CASE SwitchVideo \/ AdjustPause \/ AdjustDone \/ Synchronized
    BY <1>1, <1>14 DEF SwitchVideo, AdjustPause, AdjustDone, Synchronized, AdjustUnchanged,
       session
  <1> QED
    BY <1>3, <1>4, <1>5, <1>6, <1>7, <1>8, <1>9, <1>10, <1>11, <1>12, <1>13, <1>14
       DEF Next, HandlerNext, Terminated

(* Seen from the source every session behaves as SessionContract says,      *)
(* which is what CaptureSession!Refinement proves of the threads behind it. *)
THEOREM SessionsKeepContract ==
  ASSUME NEW g \in Generations
  PROVE  Spec => Session(g)!Spec
  <1>1. Init => Session(g)!Init
    BY DEF Init, Session!Init
  <1>2. TypeOK /\ SourceInv /\ [Next]_vars => [Session(g)!Next]_(Session(g)!vars)
    BY SessionSteps DEF SourceInv
  <1> QED
    BY <1>1, <1>2, Invariance, PTL DEF Spec, Session!Spec

(* And the source takes a session as it comes: whatever a session that      *)
(* exists may do by itself, at any moment, is a step of the source.         *)
THEOREM SourceAllowsSessions ==
  ASSUME TypeOK, NEW g \in Generations, health[g] # "none", health'[g] # "none",
         Session(g)!ReportFault \/ Session(g)!AudioEnded \/ Session(g)!Retire,
         health' = [health EXCEPT ![g] = health'[g]],
         audio_ended' \in {audio_ended, audio_ended \cup {g}},
         SessionUnchanged, UNCHANGED picture
  PROVE  [Next]_vars
  <1>1. CASE Session(g)!ReportFault
    <2>1. Fault(g)
      <3>1. health[g] \in {"starting", "running"} /\ health'[g] = "faulted"
        BY <1>1 DEF Session!ReportFault
      <3>2. UNCHANGED audio_ended
        BY <1>1 DEF Session!ReportFault
      <3> QED
        BY <3>1, <3>2 DEF Fault
    <2> QED
      BY <2>1 DEF Next, SessionNext
  <1>2. CASE Session(g)!AudioEnded
    <2>1. health[g] # "retired" /\ health'[g] = health[g] /\ g \in audio_ended'
      BY <1>2 DEF Session!AudioEnded
    <2>2. UNCHANGED health
      BY <2>1 DEF TypeOK
    <2>3. AudioEnd(g)
      BY <2>1, <2>2 DEF AudioEnd, Unretired
    <2> QED
      BY <2>3 DEF Next, SessionNext
  <1>3. CASE Session(g)!Retire
    <2>1. health[g] = "stopping" /\ health'[g] = "retired" /\ UNCHANGED audio_ended
      BY <1>3 DEF Session!Retire
    <2>2. Retired(g)
      BY <2>1 DEF Retired
    <2> QED
      BY <2>2 DEF Next, SessionNext
  <1> QED
    BY <1>1, <1>2, <1>3
=============================================================================
