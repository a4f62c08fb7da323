------------------------------ MODULE SessionTiming ------------------------------
(***************************************************************************)
(* The device clock of one session mapped to the clock of OBS              *)
(* (sc_session_timing, codec/session_timing.h).  The decoder threads of    *)
(* the two streams share one anchor: a device time and the host time it    *)
(* arrived at.  Each thread reads the host clock before it calls and maps  *)
(* its frame under the mutex, so the other thread may come in between.     *)
(* Device times and host times have one unit here.                         *)
(***************************************************************************)
EXTENDS Integers

CONSTANTS
  Disc,          \* discontinuity_ns
  Smooth,        \* audio_smoothing_ns
  HeadroomStep,  \* what a continuous frame adds to the headroom
  MaxHeadroom,   \* max_video_headroom_ns
  MaxGap,        \* max_video_gap_ns_
  DriftDiv,      \* the share of an error that one frame corrects
  DriftMax,      \* and the most it may correct
  MaxClock,      \* bound: the last host time
  MaxPts,        \* bound: the last device time
  Durations      \* lengths of audio frames, 0 when the rate is unknown

ASSUME TimingAssumption ==
  /\ Disc \in Nat /\ Smooth \in Nat /\ HeadroomStep \in Nat
  /\ MaxHeadroom \in Nat /\ MaxGap \in Nat /\ MaxGap > 0
  /\ DriftDiv \in Nat /\ DriftDiv > 0 /\ DriftMax \in Nat
  /\ MaxClock \in Nat /\ MaxPts \in Nat /\ Durations \subseteq Nat

VARIABLES
  clock,    \* os_gettime_ns()
  reading,  \* stream -> the time it has read for the frame at hand, or 0
  anchor,   \* anchor_pts_us_, anchor_host_ns_
  epoch,    \* epoch_; 0: anchor_valid_ is still false
  video,    \* video_
  audio,    \* audio_
  reset     \* reset_obs_timeline of the last picture

timing == <<clock, reading, anchor, epoch, video, audio, reset>>

Streams == {"video", "audio"}

(* A device time for which valid_pts() is false.                            *)
Invalid == -1
Pts == {Invalid} \cup 0..MaxPts

TimingInit ==
  /\ clock = Disc + 1 /\ reading = [s \in Streams |-> 0]
  /\ anchor = [pts |-> 0, host |-> 0] /\ epoch = 0
  /\ video = [valid |-> FALSE, pts |-> 0, arrival |-> 0, out |-> 0,
              headroom |-> 0, epoch |-> 0]
  /\ audio = [valid |-> FALSE, arrival |-> 0, out |-> 0, duration |-> 0,
              epoch |-> 0]
  /\ reset = FALSE

-----------------------------------------------------------------------------
(* The shared clock                                                         *)

Lesser(a, b) == IF a < b THEN a ELSE b
Floored(a) == IF a < 0 THEN 0 ELSE a
Distance(a, b) == IF a > b THEN a - b ELSE b - a

Project(a, pts) == Floored(a.host + pts - a.pts)

(* What one picture moves the anchor: a share of the error, and not much.   *)
Correction(error) ==
  IF error < 0 THEN -Lesser((-error) \div DriftDiv, DriftMax)
               ELSE Lesser(error \div DriftDiv, DriftMax)

Followed(error) == [anchor EXCEPT !.host = Floored(@ + Correction(error))]

\* Variant: only a device clock that runs ahead is noticed.
Lost_OneSided(pts, arrival) ==
  epoch = 0 \/ Project(anchor, pts) > arrival + Disc

(* No anchor yet, or the projection is further off than a discontinuity.    *)
Lost(pts, arrival) ==
  epoch = 0 \/ Distance(Project(anchor, pts), arrival) > Disc

(* map_locked(): the time of the frame and the anchor after it.             *)
Mapped(pts, arrival, follow) ==
  IF pts = Invalid
  THEN [at |-> arrival, anchor |-> anchor, epoch |-> epoch, again |-> FALSE]
  ELSE IF Lost(pts, arrival)
  THEN [at |-> arrival, anchor |-> [pts |-> pts, host |-> arrival],
        epoch |-> epoch + 1, again |-> TRUE]
  ELSE LET moved == IF follow THEN Followed(arrival - Project(anchor, pts))
                              ELSE anchor
       IN [at |-> Project(moved, pts), anchor |-> moved, epoch |-> epoch,
           again |-> FALSE]

-----------------------------------------------------------------------------
(* The two streams                                                          *)

LastArrival(s) == IF s = "video" THEN video.arrival ELSE audio.arrival

(* A thread has decoded a frame and reads the host clock.  Decoding takes   *)
(* longer than the clock's resolution.                                      *)
ReadClock(s) ==
  /\ reading[s] = 0
  /\ clock' \in clock..MaxClock
  /\ clock' > LastArrival(s)
  /\ reading' = [reading EXCEPT ![s] = clock']
  /\ UNCHANGED <<anchor, epoch, video, audio, reset>>

Forward(pts) == video.valid /\ pts > video.pts

(* local_discontinuity: the device or the host clock has stepped back.      *)
Broken(pts, arrival) ==
  video.valid /\ (~Forward(pts) \/ arrival < video.arrival)

(* sparse_gap: longer without a picture than a few frames take.             *)
Sparse(pts, arrival) ==
  /\ Forward(pts)
  /\ pts - video.pts > MaxGap \/ arrival - video.arrival > MaxGap

(* The delay that pictures are given on top, step by step.                  *)
Headroom(pts, arrival, m) ==
  LET same == m.epoch = video.epoch
      kept == IF same THEN video.headroom ELSE 0
  IN IF video.valid /\ ~Broken(pts, arrival) /\ ~Sparse(pts, arrival) /\ same
     THEN Lesser(kept + HeadroomStep, MaxHeadroom)
     ELSE IF ~video.valid \/ Broken(pts, arrival) \/ m.again THEN 0 ELSE kept

\* Variant: a picture may get the date of its predecessor.
VideoOut_Repeat(pts, arrival, m) ==
  LET at == m.at + Headroom(pts, arrival, m)
      last == IF m.epoch = video.epoch THEN video.out ELSE 0
  IN IF ~Broken(pts, arrival) /\ last > 0 /\ at < last THEN last ELSE at

(* The last output is forgotten when the epoch has changed.                 *)
VideoOut(pts, arrival, m) ==
  LET at == m.at + Headroom(pts, arrival, m)
      last == IF m.epoch = video.epoch THEN video.out ELSE 0
  IN IF ~Broken(pts, arrival) /\ last > 0 /\ at <= last THEN last + 1 ELSE at

(* video_to_obs()                                                           *)
VideoFrame(pts) ==
  LET arrival == reading["video"]
      m == Mapped(pts, arrival, TRUE)
  IN /\ arrival > 0
     /\ anchor' = m.anchor /\ epoch' = m.epoch
     /\ video' = [valid |-> pts # Invalid, pts |-> pts, arrival |-> arrival,
                  out |-> VideoOut(pts, arrival, m),
                  headroom |-> Headroom(pts, arrival, m), epoch |-> m.epoch]
     /\ reset' = (/\ video.valid
                  /\ Sparse(pts, arrival) \/ Broken(pts, arrival) \/ m.again)
     /\ reading' = [reading EXCEPT !["video"] = 0]
     /\ UNCHANGED <<clock, audio>>

Expected == audio.out + audio.duration

(* A frame that comes soon and nearly where the last one ended is put there.*)
Smoothed(at, arrival) ==
  IF /\ arrival >= audio.arrival /\ arrival - audio.arrival <= Disc
     /\ Distance(Expected, at) <= Smooth
  THEN Expected ELSE at

AudioOut(arrival, m) ==
  LET at == Smoothed(m.at, arrival)
  IN IF audio.valid /\ m.epoch = audio.epoch
     THEN IF at <= audio.out THEN audio.out + 1 ELSE at
     ELSE m.at

(* audio_to_obs()                                                           *)
AudioFrame(pts, duration) ==
  LET arrival == reading["audio"]
      m == Mapped(pts, arrival, FALSE)
  IN /\ arrival > 0
     /\ anchor' = m.anchor /\ epoch' = m.epoch
     /\ audio' = [valid |-> pts # Invalid, arrival |-> arrival,
                  out |-> AudioOut(arrival, m), duration |-> duration,
                  epoch |-> m.epoch]
     /\ reading' = [reading EXCEPT !["audio"] = 0]
     /\ UNCHANGED <<clock, video, reset>>

TimingNext ==
  \/ \E s \in Streams : ReadClock(s)
  \/ \E pts \in Pts : VideoFrame(pts)
  \/ \E pts \in Pts, duration \in Durations : AudioFrame(pts, duration)

TimingSpec == TimingInit /\ [][TimingNext]_timing

-----------------------------------------------------------------------------
(* Properties                                                               *)

TimingTyped ==
  /\ clock \in Nat /\ reading \in [Streams -> Nat]
  /\ anchor \in [pts : 0..MaxPts, host : Nat] /\ epoch \in Nat
  /\ video \in [valid : BOOLEAN, pts : Pts, arrival : Nat, out : Nat,
                headroom : 0..MaxHeadroom, epoch : Nat]
  /\ audio \in [valid : BOOLEAN, arrival : Nat, out : Nat,
                duration : Durations \cup {0}, epoch : Nat]
  /\ reset \in BOOLEAN

(* Whatever the two device clocks do and whichever stream re-anchors, OBS   *)
(* never gets a frame dated further from its arrival than the discontinuity *)
(* limit and what headroom and smoothing add (session_timing.h:186).        *)
WithinReach ==
  /\ video.arrival - Disc <= video.out
  /\ video.out <= video.arrival + Disc + MaxHeadroom
  /\ audio.arrival - (Disc + Smooth) <= audio.out
  /\ audio.out <= audio.arrival + Disc + Smooth

(* Within an epoch both streams only go forward, also when the other one    *)
(* pulls the shared anchor back, and a picture is not dated later than a    *)
(* gap, a step of headroom and a step of drift after its predecessor,       *)
(* unless OBS resets its timeline first (session_timing.h:65-71 and 97-103, *)
(* packet_sink.cpp:307).  So only a re-anchor by the audio thread can move  *)
(* the picture without a reset.                                             *)
RunsSmoothly ==
  [][/\ (video' # video /\ video.valid /\ ~reset' /\ video'.epoch = video.epoch =>
           /\ video'.out > video.out
           /\ video'.out <= video.out + MaxGap + HeadroomStep + DriftMax)
     /\ (audio' # audio /\ audio.valid /\ audio'.epoch = audio.epoch =>
           audio'.out > audio.out)]_timing

=============================================================================
