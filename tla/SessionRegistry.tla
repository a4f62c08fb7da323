--------------------------- MODULE SessionRegistry ---------------------------
(***************************************************************************)
(* sc_capture_session_registry (capture_session.cpp:11): the process-wide  *)
(* table that keeps a session alive until its reaper thread has been       *)
(* joined, so that whoever drops a session never has to wait for it.       *)
(*                                                                         *)
(*   creator   one thread per session: create(), start(), then the owner   *)
(*             that retires and collects it, or is destroyed               *)
(*   reaper    run_reaper(); CaptureSession.tla opens its teardown         *)
(*   manager   run(), the thread that collects retired sessions            *)
(*   unloader  shutdown(), from obs_module_unload()                        *)
(*                                                                         *)
(* The registry mutex is held across steps only by the manager between the *)
(* test of its wait condition and the moment it is really asleep.          *)
(***************************************************************************)
EXTENDS Naturals, FiniteSets

CONSTANTS
  Created,   \* how many sessions may be created
  Slots      \* capacity of the table, 16 in the code

ASSUME BoundsAssumption == Created \in Nat /\ Slots \in Nat \ {0}

(* Sessions are numbered in the order in which they are created.            *)
Sessions == 1..Created

VARIABLES
  sessions,    \* sessions_
  accepting,   \* accepting_
  manager,     \* program counter of run()
  completed,   \* the sessions the manager has erased and now joins
  finished,    \* its local of that name
  creator, reaper,           \* per session, program counters
  requested, starting,       \* retire_requested_, startup_in_progress_
  retired, joins,            \* retired_; how often the reaper was joined
  unloader, snapshot,        \* shutdown(): program counter and its copy
  missed       \* history: a notification came between the manager's test
               \* and its sleep, and the manager has not tested again

table   == <<sessions, accepting>>
manage  == <<manager, completed, finished, missed>>
session == <<requested, starting, retired>>
unload  == <<unloader, snapshot>>
vars    == <<table, manage, session, joins, creator, reaper, unload>>

TypeOK ==
  /\ sessions \subseteq Sessions /\ Cardinality(sessions) <= Slots
  /\ accepting \in BOOLEAN
  /\ manager \in {"none", "test", "dozing", "asleep", "join", "ended"}
  /\ completed \subseteq Sessions /\ finished \in BOOLEAN /\ missed \in BOOLEAN
  /\ creator \in [Sessions -> {"absent", "created", "adopted", "starting", "owned",
                               "retiring", "rejected", "joining", "dropped"}]
  /\ reaper \in [Sessions -> {"off", "wait", "publish", "notify", "ended"}]
  /\ requested \in SUBSET Sessions /\ starting \in SUBSET Sessions
  /\ retired \in SUBSET Sessions
  /\ joins \in [Sessions -> 0..2]
  /\ unloader \in {"idle", "request", "notify", "join", "done"}
  /\ snapshot \subseteq Sessions

Locked == manager = "dozing"

Init ==
  /\ sessions = {} /\ accepting = TRUE
  /\ manager = "none" /\ completed = {} /\ finished = FALSE /\ missed = FALSE
  /\ creator = [s \in Sessions |-> "absent"]
  /\ reaper = [s \in Sessions |-> "off"]
  /\ requested = {} /\ starting = {} /\ retired = {}
  /\ joins = [s \in Sessions |-> 0]
  /\ unloader = "idle" /\ snapshot = {}

Goes(s, place) == creator' = [creator EXCEPT ![s] = place]

(* cv_.notify_all(): wakes the manager if it sleeps; one that is about to   *)
(* sleep does not hear it.                                                  *)
Notify ==
  /\ manager' = IF manager = "asleep" THEN "test" ELSE manager
  /\ missed' = (missed \/ manager = "dozing")
  /\ UNCHANGED <<completed, finished>>

-----------------------------------------------------------------------------
(* create() and the life of a session in the hands of its owner.            *)

Create(s) ==
  /\ creator[s] = "absent" /\ \A t \in 1..(s - 1) : creator[t] # "absent"
  /\ \/ /\ Goes(s, "created")
        /\ reaper' = [reaper EXCEPT ![s] = "wait"]
        /\ UNCHANGED retired
     \/ /\ Goes(s, "dropped")         \* the reaper thread could not be created
        /\ retired' = retired \cup {s}
        /\ UNCHANGED reaper
  /\ UNCHANGED <<table, manage, requested, starting, joins, unload>>

Room == accepting /\ Cardinality(sessions) < Slots

(* The first session that finds room starts the manager thread.             *)
StartManager ==
  /\ Room /\ manager = "none"
  /\ manager' = "test" /\ UNCHANGED <<completed, finished, missed>>

\* Variant: the session is entered before the manager thread is created.
Adopt_EnterFirst(s) ==
  /\ creator[s] = "created" /\ ~Locked
  /\ \/ /\ Room
        /\ Goes(s, "adopted") /\ sessions' = sessions \cup {s}
        /\ StartManager \/ (manager # "none" /\ Notify)
     \/ /\ Goes(s, "rejected")
        /\ sessions' = IF Room THEN sessions \cup {s} ELSE sessions
        /\ UNCHANGED manage \/ StartManager
  /\ UNCHANGED <<accepting, session, joins, reaper, unload>>

(* adopt(): refused when the table is full or closed, or when the manager   *)
(* thread cannot be created; or when there is no memory for the entry, and  *)
(* then the manager may be running already.                                 *)
Adopt(s) ==
  /\ creator[s] = "created" /\ ~Locked
  /\ \/ /\ Room
        /\ Goes(s, "adopted") /\ sessions' = sessions \cup {s}
        /\ StartManager \/ (manager # "none" /\ Notify)
     \/ /\ Goes(s, "rejected") /\ UNCHANGED sessions
        /\ UNCHANGED manage \/ StartManager
  /\ UNCHANGED <<accepting, session, joins, reaper, unload>>

CreatorUnchanged == UNCHANGED <<table, manage, retired, reaper, unload>>

(* create() retires what it could not place and waits for its reaper.       *)
RetireRejected(s) ==
  /\ creator[s] = "rejected"
  /\ requested' = requested \cup {s}
  /\ Goes(s, "joining")
  /\ UNCHANGED <<starting, joins>> /\ CreatorUnchanged

JoinRejected(s) ==
  /\ creator[s] = "joining" /\ reaper[s] = "ended"
  /\ joins' = [joins EXCEPT ![s] = @ + 1]
  /\ Goes(s, "dropped")
  /\ UNCHANGED <<requested, starting>> /\ CreatorUnchanged

(* start() leaves at once if the session is already being retired.          *)
Start(s) ==
  /\ creator[s] = "adopted"
  /\ IF s \in requested
     THEN Goes(s, "owned") /\ UNCHANGED starting
     ELSE Goes(s, "starting") /\ starting' = starting \cup {s}
  /\ UNCHANGED <<requested, joins>> /\ CreatorUnchanged

Started(s) ==
  /\ creator[s] = "starting"
  /\ starting' = starting \ {s}
  /\ Goes(s, "owned")
  /\ UNCHANGED <<requested, joins>> /\ CreatorUnchanged

Retire(s) ==
  /\ creator[s] = "owned"
  /\ requested' = requested \cup {s}
  /\ Goes(s, "retiring")
  /\ UNCHANGED <<starting, joins>> /\ CreatorUnchanged

(* collect_retired() drops the owner's reference.                           *)
Collect(s) ==
  /\ creator[s] = "retiring" /\ s \in retired
  /\ Goes(s, "dropped")
  /\ UNCHANGED <<requested, starting, joins>> /\ CreatorUnchanged

(* sc_capture_owner::destroy() drops it whatever the session is doing.      *)
Destroy(s) ==
  /\ creator[s] \in {"owned", "retiring"}
  /\ requested' = requested \cup {s}
  /\ Goes(s, "dropped")
  /\ UNCHANGED <<starting, joins>> /\ CreatorUnchanged

-----------------------------------------------------------------------------
(* run_reaper(): teardown, then the flag, then the notification, which does *)
(* not take the registry mutex.                                             *)

ReaperUnchanged ==
  UNCHANGED <<table, requested, starting, joins, creator, unload>>

Teardown(s) ==
  /\ reaper[s] = "wait" /\ s \in requested \ starting
  /\ reaper' = [reaper EXCEPT ![s] = "publish"]
  /\ UNCHANGED <<retired, manage>> /\ ReaperUnchanged

Publish(s) ==
  /\ reaper[s] = "publish"
  /\ retired' = retired \cup {s}
  /\ reaper' = [reaper EXCEPT ![s] = "notify"]
  /\ UNCHANGED manage /\ ReaperUnchanged

\* Variant: nobody is told that the session has retired.
Announce_Silent(s) ==
  /\ reaper[s] = "notify"
  /\ reaper' = [reaper EXCEPT ![s] = "ended"]
  /\ UNCHANGED <<manage, retired>> /\ ReaperUnchanged

Announce(s) ==
  /\ reaper[s] = "notify"
  /\ reaper' = [reaper EXCEPT ![s] = "ended"]
  /\ Notify
  /\ UNCHANGED retired /\ ReaperUnchanged

-----------------------------------------------------------------------------
(* run()                                                                    *)

Wanted == (~accepting /\ sessions = {}) \/ sessions \cap retired # {}

ManagerUnchanged == UNCHANGED <<accepting, session, creator, reaper, unload>>

\* Variant: a closed registry counts as finished whatever it still holds.
Test_StopWhenClosed ==
  /\ manager = "test"
  /\ missed' = FALSE
  /\ IF Wanted \/ ~accepting
     THEN /\ completed' = sessions \cap retired
          /\ sessions' = sessions \ retired
          /\ finished' = ~accepting
          /\ manager' = "join"
     ELSE manager' = "dozing" /\ UNCHANGED <<sessions, completed, finished>>
  /\ UNCHANGED joins /\ ManagerUnchanged

(* The wait condition, and under the same lock the sessions to collect.     *)
Test ==
  /\ manager = "test"
  /\ missed' = FALSE
  /\ IF Wanted
     THEN /\ completed' = sessions \cap retired
          /\ sessions' = sessions \ retired
          /\ finished' = (~accepting /\ sessions \subseteq retired)
          /\ manager' = "join"
     ELSE manager' = "dozing" /\ UNCHANGED <<sessions, completed, finished>>
  /\ UNCHANGED joins /\ ManagerUnchanged

Sleep ==
  /\ manager = "dozing"
  /\ manager' = "asleep"
  /\ UNCHANGED <<sessions, completed, finished, missed, joins>> /\ ManagerUnchanged

(* A condition variable may wake up for no reason; nothing promises it.     *)
WakeSpuriously ==
  /\ manager = "asleep"
  /\ manager' = "test"
  /\ UNCHANGED <<sessions, completed, finished, missed, joins>> /\ ManagerUnchanged

(* Joins what it collected, outside the lock, and drops it.                 *)
Join ==
  /\ manager = "join" /\ \A s \in completed : reaper[s] = "ended"
  /\ joins' = [s \in Sessions |-> IF s \in completed THEN joins[s] + 1 ELSE joins[s]]
  /\ completed' = {}
  /\ manager' = IF finished THEN "ended" ELSE "test"
  /\ UNCHANGED <<sessions, finished, missed>> /\ ManagerUnchanged

-----------------------------------------------------------------------------
(* shutdown()                                                               *)

UnloadUnchanged == UNCHANGED <<sessions, starting, retired, joins, creator, reaper>>

ShutBegin ==
  /\ unloader = "idle" /\ ~Locked
  /\ accepting' = FALSE /\ snapshot' = sessions
  /\ unloader' = "request"
  /\ UNCHANGED <<manage, requested>> /\ UnloadUnchanged

(* request_retire() on every session of the copy, then notify_all().        *)
ShutRequest ==
  /\ unloader = "request"
  /\ \/ \E s \in snapshot :
          requested' = requested \cup {s} /\ snapshot' = snapshot \ {s} /\ UNCHANGED unloader
     \/ snapshot = {} /\ unloader' = "notify" /\ UNCHANGED <<requested, snapshot>>
  /\ UNCHANGED <<accepting, manage>> /\ UnloadUnchanged

ShutNotify ==
  /\ unloader = "notify"
  /\ Notify
  /\ unloader' = "join"
  /\ UNCHANGED <<accepting, requested, snapshot>> /\ UnloadUnchanged

ShutJoin ==
  /\ unloader = "join" /\ manager \in {"none", "ended"}
  /\ unloader' = "done"
  /\ UNCHANGED <<accepting, manage, requested, snapshot>> /\ UnloadUnchanged

-----------------------------------------------------------------------------
CreatorNext(s) ==
  \/ Adopt(s) \/ RetireRejected(s) \/ JoinRejected(s) \/ Start(s) \/ Started(s)

ReaperNext(s) == Teardown(s) \/ Publish(s) \/ Announce(s)

ManagerNext == Test \/ Sleep \/ Join

UnloaderNext == ShutRequest \/ ShutNotify \/ ShutJoin

Terminated ==
  /\ unloader = "done" /\ \A s \in Sessions : creator[s] = "dropped"
  /\ UNCHANGED vars

Next ==
  \/ \E s \in Sessions :
       \/ Create(s) \/ CreatorNext(s) \/ Retire(s) \/ Collect(s) \/ Destroy(s)
       \/ ReaperNext(s)
  \/ ManagerNext \/ WakeSpuriously
  \/ ShutBegin \/ UnloaderNext
  \/ Terminated

Spec == Init /\ [][Next]_vars

(* Threads that can move are scheduled, start() returns and the reaper gets *)
(* through its teardown: CaptureSession!StartReturns, RetirementCompletes,  *)
(* where no start() hangs for ever in "adb start-server".                   *)
(* Owners retire, collect and unload when they like, or never.              *)
Fairness ==
  /\ \A s \in Sessions : WF_vars(CreatorNext(s)) /\ WF_vars(ReaperNext(s))
  /\ WF_vars(ManagerNext)
  /\ WF_vars(UnloaderNext)

FairSpec == Spec /\ Fairness

-----------------------------------------------------------------------------
Entered(s) == s \in sessions \cup completed

(* Who holds a reference: the creator or owner, the table, the manager.     *)
Held(s) == creator[s] # "dropped" \/ Entered(s)

(* std::thread::join() runs once per reaper, from the manager or from       *)
(* create(), although both are able to call join_reaper(); and it has run   *)
(* before the last reference goes.  The destructor (capture_session.cpp:217) *)
(* would join too: dropping a session never makes the graphics thread wait  *)
(* for a teardown.                                                          *)
JoinedOnce ==
  \A s \in Sessions :
    /\ joins[s] <= 1
    /\ creator[s] \in {"rejected", "joining"} => ~Entered(s) /\ joins[s] = 0
    /\ ~Held(s) /\ reaper[s] # "off" => joins[s] = 1

(* When shutdown() has returned the module is unloaded: no adopted session  *)
(* has a reaper left that would run its code.                               *)
UnloadIsSafe ==
  unloader = "done" =>
    /\ sessions = {} /\ completed = {}
    /\ \A s \in Sessions :
         reaper[s] \in {"off", "ended"} \/ creator[s] \in {"created", "rejected", "joining"}

(* The manager sleeps on work only while somebody is still going to notify  *)
(* it, or because a notification came between its test and its sleep        *)
(* (notify() at capture_session.cpp:33 does not take the mutex).            *)
OnlyTheGapLosesWork ==
  manager = "asleep" /\ Wanted =>
    \/ missed
    \/ unloader \in {"request", "notify"}
    \/ \E s \in sessions : reaper[s] = "notify"

(* If no notification falls into that gap, unloading the module returns and *)
(* every session that is to retire gives its slot back.                     *)
WorkIsDone ==
  []~missed =>
    /\ unloader = "request" ~> unloader = "done"
    /\ \A s \in Sessions : (s \in sessions \cap requested) ~> (joins[s] = 1)
=============================================================================
