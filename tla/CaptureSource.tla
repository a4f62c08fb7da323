---------------------------- MODULE CaptureSource ----------------------------
(***************************************************************************)
(* One OBS source (scrcpy, srccpy.cpp:50) and the session it owns          *)
(* (sc_capture_owner, capture_session.cpp:525): settings come in, sessions *)
(* are started, adjusted in place, retired and replaced.                   *)
(*                                                                         *)
(* update(), video_tick(), show and hide all run on the graphics thread,   *)
(* one after the other, so a handler never meets another one; but the      *)
(* session it works on lives on threads of its own, and may fault, lose    *)
(* its audio or finish retiring between any two looks the handler takes.   *)
(* CaptureSession.tla opens those threads; here a session is its state.    *)
(***************************************************************************)
EXTENDS Naturals, FiniteSets

CONSTANTS
  Targets,      \* devices that settings can name
  MaxUpdates    \* how often the settings may change

ASSUME UpdatesAssumption == MaxUpdates \in Nat

(* sc_capture_config: which device, if any; which video source, which also  *)
(* decides the audio source; whether audio is wanted.                       *)
NoTarget == "no target"
Videos  == {"display", "camera"}
Configs == [target : Targets \cup {NoTarget}, video : Videos, audio : BOOLEAN]
None == [target |-> NoTarget, video |-> "display", audio |-> FALSE]

HasTarget(c)   == c.target # NoTarget
AudioSource(c) == IF c.video = "display" THEN "output" ELSE "mic"

(* One generation more than updates can ask for. *)
Generations == 1..(MaxUpdates + 1)

VARIABLES
  active, retiring,      \* sc_capture_owner: a generation, 0 for none
  submitted, pending,    \* submitted_config, pending_config; None if empty
  user_audio,            \* user_audio_enabled and user_audio_source
  visible,               \* source_visible
  next_generation,
  health, failed,        \* per session: lifecycle state; retire_failed_
  audio_ended,           \* sessions whose audio stream is over
  device,                \* what the session's device has been told to send
  picture,               \* whether OBS still shows a frame of the source
  pc, job, desired,      \* the handler at work and the settings in its hands
  asked, updates, refused   \* history: the newest valid settings, their
                            \* number, and whether newer ones were refused

owner    == <<active, retiring>>
settings == <<submitted, pending, user_audio, visible>>
session  == <<health, failed, audio_ended, next_generation>>
handler  == <<pc, job, desired>>
history  == <<asked, updates, refused>>
vars == <<owner, settings, session, device, picture, handler, history>>

TypeOK ==
  /\ active \in {0} \cup Generations /\ retiring \in {0} \cup Generations
  /\ {submitted, pending, desired, asked} \subseteq Configs
  /\ user_audio \in [enabled : BOOLEAN, source : {"output", "mic"}]
  /\ HasTarget(pending) \/ pending = None
  /\ visible \in BOOLEAN /\ refused \in BOOLEAN
  /\ next_generation \in 0..(MaxUpdates + 1) /\ updates \in 0..MaxUpdates
  /\ health \in [Generations ->
       {"none", "starting", "running", "faulted", "stopping", "retired"}]
  /\ failed \subseteq Generations /\ audio_ended \subseteq Generations
  /\ device \in [video : Videos, paused : BOOLEAN, audio : {"off", "output", "mic"}]
  /\ picture \in {"blank", "frame"}
  /\ pc \in {"idle", "events", "collect", "settle", "create", "start", "sync",
             "switch", "pause", "confirm", "gone"}
  /\ job \in {"tick", "update", "refused"}

Init ==
  /\ active = 0 /\ retiring = 0
  /\ submitted = None /\ pending = None
  /\ user_audio = [enabled |-> FALSE, source |-> "output"]
  /\ visible \in BOOLEAN /\ next_generation = 0
  /\ health = [g \in Generations |-> "none"]
  /\ failed = {} /\ audio_ended = {}
  /\ device = [video |-> "display", paused |-> FALSE, audio |-> "off"]
  /\ picture = "blank"
  /\ pc = "idle" /\ job = "tick" /\ desired = None
  /\ asked = None /\ updates = 0 /\ refused = FALSE

Unretired == {g \in Generations : health[g] \notin {"none", "retired"}}
Healthy   == active # 0 /\ health[active] = "running"
Faulted   == active # 0 /\ health[active] = "faulted"
CanCollect == retiring # 0 /\ health[retiring] = "retired"

-----------------------------------------------------------------------------
(* Pieces the handlers share.                                               *)

\* Variant: the owner lets go of the session that it retires.
StopSession_LetGo(verdict) ==
  LET g == IF active # 0 THEN active ELSE retiring IN
  /\ active' = 0 /\ retiring' = 0
  /\ health' = [x \in Generations |->
                  IF x = g /\ health[x] # "retired" THEN "stopping" ELSE health[x]]
  /\ failed' = IF verdict THEN failed \cup ({g} \ {0}) ELSE failed
  /\ submitted' = None
  /\ UNCHANGED <<audio_ended, next_generation>>

(* stop_session() and retire_active(): the session moves to the retiring    *)
(* place; one that is there already is asked again.                         *)
StopSession(verdict) ==
  LET g == IF active # 0 THEN active ELSE retiring IN
  /\ active' = 0 /\ retiring' = g
  /\ health' = [x \in Generations |->
                  IF x = g /\ health[x] # "retired" THEN "stopping" ELSE health[x]]
  /\ failed' = IF verdict THEN failed \cup ({g} \ {0}) ELSE failed
  /\ submitted' = None
  /\ UNCHANGED <<audio_ended, next_generation>>

(* What a failed message, a failed batch and a fault have in common.        *)
GiveUp ==
  /\ pending' = None
  /\ StopSession(TRUE)
  /\ picture' = "blank"
  /\ UNCHANGED <<user_audio, device>>

(* PAUSE_RESUME_STREAM for a set of streams.                                *)
Pausing(streams, pause, source) ==
  device' = [device EXCEPT
    !.paused = IF "video" \in streams THEN pause ELSE @,
    !.audio  = IF "audio" \in streams THEN (IF pause THEN "off" ELSE source) ELSE @]

(* synchronize_visibility(): without audio, showing resumes only the video. *)
SynchronizeVisibility(audio, source, shown) ==
  Pausing(IF shown /\ ~audio THEN {"video"} ELSE {"audio", "video"}, ~shown, source)

-----------------------------------------------------------------------------
(* Entry of the handlers.                                                   *)

VideoTick ==
  /\ pc = "idle"
  /\ pc' = "events" /\ job' = "tick" /\ desired' = None
  /\ UNCHANGED <<owner, settings, session, device, picture, history>>

(* update(): the settings may be refused, but only after the events of the  *)
(* session have been consumed.                                              *)
Update(c) ==
  /\ pc = "idle" /\ updates < MaxUpdates
  /\ pc' = "events" /\ job' = "update" /\ desired' = c
  /\ asked' = c /\ refused' = FALSE
  /\ updates' = updates + 1
  /\ UNCHANGED <<owner, settings, session, device, picture>>

UpdateRefused ==
  /\ pc = "idle"
  /\ pc' = "events" /\ job' = "refused" /\ desired' = None
  /\ refused' = TRUE
  /\ UNCHANGED <<owner, settings, session, device, picture, asked, updates>>

-----------------------------------------------------------------------------
(* consume_session_events(): first a fault, then the end of a retirement.   *)

NoFault ==
  /\ pc = "events" /\ ~Faulted
  /\ pc' = "collect"
  /\ UNCHANGED <<owner, settings, session, device, picture, job, desired, history>>

RetireFaulted ==
  /\ pc = "events" /\ Faulted
  /\ GiveUp
  /\ pc' = "collect"
  /\ UNCHANGED <<visible, job, desired, history>>

AfterEvents == IF job = "update" THEN "settle" ELSE "idle"

NothingToCollect ==
  /\ pc = "collect" /\ ~CanCollect
  /\ pc' = AfterEvents
  /\ UNCHANGED <<owner, settings, session, device, picture, job, desired, history>>

\* Variant: only a session without a successor has its picture cleared.
Collect_KeepPicture ==
  /\ pc = "collect" /\ CanCollect
  /\ retiring' = 0
  /\ IF job = "tick" /\ HasTarget(pending)
     THEN pc' = "create" /\ desired' = pending /\ pending' = None
     ELSE pc' = AfterEvents /\ UNCHANGED <<desired, pending>>
  /\ UNCHANGED <<active, submitted, user_audio, visible, session, device, picture, job, history>>

\* Variant: nobody starts the settings that wait.
Collect_Forget ==
  /\ pc = "collect" /\ CanCollect
  /\ retiring' = 0
  /\ picture' = IF retiring \in failed \/ ~HasTarget(pending) THEN "blank" ELSE picture
  /\ pc' = AfterEvents
  /\ UNCHANGED <<active, settings, session, device, job, desired, history>>

(* The picture of a session that is going to be replaced stays on, unless   *)
(* it failed; only the tick starts the successor.                           *)
Collect ==
  /\ pc = "collect" /\ CanCollect
  /\ retiring' = 0
  /\ picture' = IF retiring \in failed \/ ~HasTarget(pending) THEN "blank" ELSE picture
  /\ IF job = "tick" /\ HasTarget(pending)
     THEN pc' = "create" /\ desired' = pending /\ pending' = None
     ELSE pc' = AfterEvents /\ UNCHANGED <<desired, pending>>
  /\ UNCHANGED <<active, submitted, user_audio, visible, session, device, job, history>>

-----------------------------------------------------------------------------
(* update(), srccpy.cpp:130, from the parsed settings on.                   *)

SettleUnchanged == UNCHANGED <<visible, job, desired, history>>
Remember == user_audio' = [enabled |-> desired.audio, source |-> AudioSource(desired)]

\* Variant: settings without a device do not cancel those that wait.
SettleLater_KeepOld ==
  /\ pc = "settle" /\ retiring # 0
  /\ Remember
  /\ pending' = IF HasTarget(desired) THEN desired ELSE pending
  /\ pc' = "idle"
  /\ UNCHANGED <<owner, submitted, session, device, picture>> /\ SettleUnchanged

(* A session still retires: the settings wait for it.                       *)
SettleLater ==
  /\ pc = "settle" /\ retiring # 0
  /\ Remember
  /\ pending' = IF HasTarget(desired) THEN desired ELSE None
  /\ pc' = "idle"
  /\ UNCHANGED <<owner, submitted, session, device, picture>> /\ SettleUnchanged

(* sc_make_update_plan(), session_update.cpp:92.                            *)
Plan(c) ==
  IF ~HasTarget(c) THEN (IF active # 0 THEN "stop_to_idle" ELSE "no_op")
  ELSE IF submitted = None \/ active = 0 THEN "start"
  ELSE IF ~Healthy \/ c.target # submitted.target \/ (c.audio /\ active \in audio_ended)
       THEN "restart"
  ELSE IF c # submitted THEN "dynamic_batch" ELSE "no_op"

SettleNothing ==
  /\ pc = "settle" /\ retiring = 0 /\ Plan(desired) = "no_op"
  /\ Remember
  /\ pending' = IF HasTarget(desired) THEN pending ELSE None
  /\ pc' = "idle"
  /\ UNCHANGED <<owner, submitted, session, device, picture>> /\ SettleUnchanged

SettleStop ==
  /\ pc = "settle" /\ retiring = 0 /\ Plan(desired) = "stop_to_idle"
  /\ Remember
  /\ pending' = None
  /\ StopSession(FALSE)
  /\ pc' = "idle"
  /\ UNCHANGED <<device, picture>> /\ SettleUnchanged

(* A session that must be replaced is retired first; the tick that collects *)
(* it starts the next one.                                                  *)
SettleReplace ==
  /\ pc = "settle" /\ retiring = 0
  /\ Plan(desired) \in {"start", "restart"} /\ active # 0
  /\ Remember
  /\ pending' = desired
  /\ StopSession(FALSE)
  /\ pc' = "idle"
  /\ UNCHANGED <<device, picture>> /\ SettleUnchanged

SettleStart ==
  /\ pc = "settle" /\ retiring = 0 /\ Plan(desired) = "start" /\ active = 0
  /\ Remember
  /\ pc' = "create"
  /\ UNCHANGED <<owner, submitted, pending, session, device, picture>> /\ SettleUnchanged

SettleAdjust ==
  /\ pc = "settle" /\ retiring = 0 /\ Plan(desired) = "dynamic_batch"
  /\ Remember
  /\ pc' = IF desired.video # submitted.video THEN "switch" ELSE "pause"
  /\ UNCHANGED <<owner, submitted, pending, session, device, picture>> /\ SettleUnchanged

-----------------------------------------------------------------------------
(* execute_dynamic_update(): each message may fail, and the session may     *)
(* have stopped being healthy since the plan was made.                      *)

AdjustUnchanged == UNCHANGED <<owner, settings, session, picture, job, desired, history>>

AdjustFailed ==
  /\ pc \in {"switch", "pause", "confirm"}
  /\ pc = "confirm" => ~Healthy
  /\ GiveUp
  /\ pc' = "idle"
  /\ UNCHANGED <<visible, job, desired, history>>

(* The device may start the new video source although the old one paused.   *)
SwitchVideo ==
  /\ pc = "switch" /\ Healthy
  /\ \E resumed \in BOOLEAN :
       device' = [device EXCEPT !.video = desired.video, !.paused = @ /\ ~resumed]
  /\ pc' = "pause"
  /\ AdjustUnchanged

\* Variant: the second message is about the audio only.
AdjustPause_AudioOnly ==
  /\ pc = "pause" /\ Healthy
  /\ Pausing({"audio"}, ~visible \/ ~desired.audio, AudioSource(desired))
  /\ pc' = "confirm"
  /\ AdjustUnchanged

AdjustPause ==
  /\ pc = "pause" /\ Healthy
  /\ Pausing(IF ~visible /\ desired.video # submitted.video THEN {"audio", "video"} ELSE {"audio"},
             ~visible \/ ~desired.audio, AudioSource(desired))
  /\ pc' = "confirm"
  /\ AdjustUnchanged

AdjustDone ==
  /\ pc = "confirm" /\ Healthy
  /\ submitted' = desired
  /\ pc' = "idle"
  /\ UNCHANGED <<owner, pending, user_audio, visible, session, device, picture,
                 job, desired, history>>

-----------------------------------------------------------------------------
(* start_session(), srccpy.cpp:332, with the settings in hand.              *)

(* The table of sessions may be full (SessionRegistry.tla); otherwise the   *)
(* owner takes the new session, unless it has one.                          *)
CreateSession ==
  /\ pc = "create" /\ next_generation <= MaxUpdates
  /\ next_generation' = next_generation + 1
  /\ LET g == next_generation' IN
     \/ /\ pc' = "idle"                       \* no session
        /\ UNCHANGED <<active, health, failed, device>>
     \/ IF active = 0 /\ retiring = 0
        THEN /\ active' = g
             /\ health' = [health EXCEPT ![g] = "starting"]
             /\ device' = [video |-> desired.video, paused |-> FALSE, audio |->
                           IF desired.audio /\ visible THEN AudioSource(desired) ELSE "off"]
             /\ pc' = "start" /\ UNCHANGED failed
        ELSE /\ health' = [health EXCEPT ![g] = "stopping"]
             /\ failed' = failed \cup {g}
             /\ pc' = "idle" /\ UNCHANGED <<active, device>>
  /\ pending' = None
  /\ UNCHANGED <<retiring, submitted, user_audio, visible, audio_ended, picture,
                 job, desired, history>>

(* sc_capture_session::start() blocks the graphics thread.                  *)
Started ==
  /\ pc = "start" /\ health[active] = "starting"
  /\ health' = [health EXCEPT ![active] = "running"]
  /\ pc' = "sync"
  /\ UNCHANGED <<owner, settings, failed, audio_ended, next_generation, device,
                 picture, job, desired, history>>

StartFailed ==
  /\ pc = "start"
  /\ StopSession(TRUE)
  /\ pc' = "idle"
  /\ UNCHANGED <<pending, user_audio, visible, device, picture, job, desired, history>>

Synchronized ==
  /\ pc = "sync" /\ Healthy
  /\ SynchronizeVisibility(desired.audio, AudioSource(desired), visible)
  /\ submitted' = desired
  /\ pc' = "idle"
  /\ UNCHANGED <<owner, pending, user_audio, visible, session, picture, job, desired, history>>

SynchronizeFailed ==
  /\ pc = "sync"
  /\ GiveUp
  /\ pc' = "idle"
  /\ UNCHANGED <<visible, job, desired, history>>

-----------------------------------------------------------------------------
(* set_source_visible(), from the show and hide callbacks, and the          *)
(* destructor of the source.                                                *)

ShowOrHide ==
  /\ pc = "idle"
  /\ visible' = ~visible
  /\ \/ /\ ~Healthy
        /\ UNCHANGED <<owner, submitted, pending, session, device, picture>>
     \/ /\ Healthy
        /\ SynchronizeVisibility(user_audio.enabled, user_audio.source, ~visible)
        /\ UNCHANGED <<owner, submitted, pending, session, picture>>
     \/ /\ Healthy                        \* the message could not be sent
        /\ GiveUp
  /\ UNCHANGED <<user_audio, handler, history>>

Destroy ==
  /\ pc = "idle"
  /\ pc' = "gone"
  /\ active' = 0 /\ retiring' = 0
  /\ health' = [g \in Generations |->
       IF g \in {active, retiring} /\ health[g] # "retired" THEN "stopping" ELSE health[g]]
  /\ UNCHANGED <<settings, failed, audio_ended, next_generation, device, picture,
                 job, desired, history>>

-----------------------------------------------------------------------------
(* What the session does meanwhile.                                         *)

SessionUnchanged == UNCHANGED <<owner, settings, next_generation, failed, device, handler, history>>

Fault(g) ==
  /\ health[g] \in {"starting", "running"}
  /\ health' = [health EXCEPT ![g] = "faulted"]
  /\ UNCHANGED <<audio_ended, picture>> /\ SessionUnchanged

AudioEnd(g) ==
  /\ g \in Unretired
  /\ audio_ended' = audio_ended \cup {g}
  /\ UNCHANGED <<health, picture>> /\ SessionUnchanged

Retired(g) ==
  /\ health[g] = "stopping"
  /\ health' = [health EXCEPT ![g] = "retired"]
  /\ UNCHANGED <<audio_ended, picture>> /\ SessionUnchanged

(* A closed output still lets the frame through that is already on its way. *)
Frame(g) ==
  /\ g \in Unretired
  /\ picture' = "frame"
  /\ UNCHANGED <<health, audio_ended>> /\ SessionUnchanged

-----------------------------------------------------------------------------
HandlerNext ==
  \/ NoFault \/ RetireFaulted \/ NothingToCollect \/ Collect
  \/ SettleLater \/ SettleNothing \/ SettleStop \/ SettleReplace \/ SettleStart
  \/ SettleAdjust \/ SwitchVideo \/ AdjustPause \/ AdjustDone \/ AdjustFailed
  \/ CreateSession \/ Started \/ StartFailed \/ Synchronized \/ SynchronizeFailed

SessionNext(g) == Fault(g) \/ AudioEnd(g) \/ Retired(g) \/ Frame(g)

(* The source is gone and so is its last session.                          *)
Terminated == pc = "gone" /\ Unretired = {} /\ UNCHANGED vars

Next ==
  \/ VideoTick \/ UpdateRefused \/ ShowOrHide \/ Destroy
  \/ \E c \in Configs : Update(c)
  \/ HandlerNext
  \/ \E g \in Generations : SessionNext(g)
  \/ Terminated

Spec == Init /\ [][Next]_vars

(* OBS keeps ticking a source that exists, a handler runs to its end, and a *)
(* session asked to retire does: CaptureSession!RetirementCompletes, where  *)
(* start() is not hanging for ever in "adb start-server".                   *)
Fairness ==
  /\ WF_vars(VideoTick) /\ WF_vars(HandlerNext)
  /\ \A g \in Generations : WF_vars(Retired(g))

FairSpec == Spec /\ Fairness

-----------------------------------------------------------------------------
(* A source never has two sessions that are not retired: the device is not  *)
(* asked for a second server while the first may still hold its encoder.    *)
(* And one that lost its session does not try again until its settings are  *)
(* changed: every session answers an update of its own (srccpy.cpp:425).    *)
OneSessionPerUpdate ==
  Cardinality(Unretired) <= 1 /\ next_generation <= updates

(* Between handlers a healthy session has been told to send exactly what    *)
(* the newest settings and the visibility of the source call for, whatever  *)
(* order they came in and whichever messages they were put into.            *)
StreamsMatch ==
  pc = "idle" /\ Healthy =>
    /\ device.video = submitted.video
    /\ device.paused = ~visible
    /\ device.audio = IF visible /\ submitted.audio THEN AudioSource(submitted) ELSE "off"

(* Between handlers, what runs and what waits are the newest valid          *)
(* settings; settings without a device leave neither.                       *)
NewestSettingsWin ==
  pc = "idle" =>
    /\ active # 0 => submitted = asked
    /\ pending # None => pending = asked /\ active = 0
    /\ ~HasTarget(asked) => active = 0 /\ pending = None

(* Once a failed session has been collected none of its frames stays on     *)
(* screen, although a frame may come after the picture was first cleared.   *)
FailureLeavesNoPicture ==
  pc = "idle" /\ active = 0 /\ retiring = 0 /\ next_generation \in failed => picture = "blank"

(* A session of the source as SessionContract describes it; one that has    *)
(* not been created yet counts as one about to start.                       *)
Session(g) == INSTANCE SessionContract WITH
  health <- IF health[g] = "none" THEN "starting" ELSE health[g],
  blamed <- g \in failed,
  silent <- g \in audio_ended

(* Settings that wait for a retirement are taken up, unless newer ones were *)
(* refused: that update collects the retired session, and no tick after it  *)
(* finds a reason to start the settings that wait.                          *)
PendingIsServed == (pending # None) ~> (pending = None \/ pc = "gone" \/ refused)
=============================================================================
