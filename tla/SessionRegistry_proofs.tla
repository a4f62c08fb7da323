------------------------ MODULE SessionRegistry_proofs ------------------------
(***************************************************************************)
(* Proofs about SessionRegistry for every number of sessions and slots:    *)
(* every reaper is joined once, unloading is safe, and the manager misses  *)
(* work only in the gap between its test and its sleep.                    *)
(***************************************************************************)
EXTENDS SessionRegistry, FiniteSetTheorems, TLAPS

Unplaced == {"absent", "created", "rejected", "joining"}

(* A session is joined by the one who took it over: before that it has not  *)
(* been joined, afterwards its reaper has ended.                            *)
JoinInv ==
  \A s \in Sessions :
    /\ reaper[s] = "off" => creator[s] \in {"absent", "dropped"} /\ ~Entered(s) /\ joins[s] = 0
    /\ creator[s] = "absent" => reaper[s] = "off"
    /\ creator[s] \in Unplaced => ~Entered(s) /\ joins[s] = 0
    /\ Entered(s) => joins[s] = 0
    /\ reaper[s] # "off" /\ ~Entered(s) /\ creator[s] \notin Unplaced => joins[s] = 1
    /\ joins[s] = 1 => reaper[s] = "ended"

(* The manager ends when the closed table is empty and stays empty.         *)
TableInv ==
  /\ sessions \cap completed = {}
  /\ completed # {} => manager = "join"
  /\ manager = "none" => sessions = {}
  /\ (manager = "join" /\ finished) \/ manager = "ended" => ~accepting /\ sessions = {}
  /\ unloader # "idle" => ~accepting
  /\ unloader = "done" => manager \in {"none", "ended"}

(* From the test on, work that appears has somebody to announce it.         *)
WakeInv ==
  manager \in {"dozing", "asleep"} /\ Wanted =>
    \/ missed
    \/ unloader \in {"request", "notify"}
    \/ \E s \in sessions : reaper[s] = "notify"

RegistryInv == JoinInv /\ TableInv /\ WakeInv

-----------------------------------------------------------------------------
(* The table is finite, and a session more is one more.                     *)
LEMMA TableCounts ==
  ASSUME TypeOK
  PROVE  /\ IsFiniteSet(sessions) /\ Cardinality(sessions) \in Nat
         /\ \A s \in Sessions :
              /\ Cardinality(sessions \cup {s}) \in Nat
              /\ Cardinality(sessions \cup {s}) <= Cardinality(sessions) + 1
         /\ \A T : /\ Cardinality(sessions \ T) \in Nat
                  /\ Cardinality(sessions \ T) <= Cardinality(sessions)
  <1>1. IsFiniteSet(Sessions)
    BY FS_Interval, BoundsAssumption DEF Sessions
  <1>2. IsFiniteSet(sessions)
    BY <1>1, FS_Subset DEF TypeOK
  <1>3. Cardinality(sessions) \in Nat
    BY <1>2, FS_CardinalityType
  <1>4. ASSUME NEW s \in Sessions
        PROVE  /\ Cardinality(sessions \cup {s}) \in Nat
               /\ Cardinality(sessions \cup {s}) <= Cardinality(sessions) + 1
    <2>1. Cardinality(sessions \cup {s}) =
            IF s \in sessions THEN Cardinality(sessions) ELSE Cardinality(sessions) + 1
      BY <1>2, FS_AddElement
    <2> QED
      BY <1>3, <2>1
  <1>5. ASSUME NEW T
        PROVE  /\ Cardinality(sessions \ T) \in Nat
               /\ Cardinality(sessions \ T) <= Cardinality(sessions)
    <2>1. sessions \ T \subseteq sessions
      OBVIOUS
    <2> QED
      BY <1>2, <2>1, FS_Subset, FS_CardinalityType
  <1> QED
    BY <1>2, <1>3, <1>4, <1>5

(* Every variable keeps its type.                                           *)
LEMMA TypesKept ==
  ASSUME TypeOK, JoinInv, TableInv, [Next]_vars
  PROVE  TypeOK'
  <1> USE DEF TypeOK, JoinInv, TableInv, Unplaced, Entered, table, manage, session, unload, Goes, Notify, Locked
  <1> USE BoundsAssumption
  <1>1. CASE \E s \in Sessions : Create(s)
    BY <1>1 DEF Create
  <1>2. CASE \E s \in Sessions : Adopt(s)
    <2>1. PICK s \in Sessions : Adopt(s)
      BY <1>2
    <2>2. /\ creator[s] = "created" /\ UNCHANGED <<accepting, session, joins, reaper, unload, completed, finished>>
          /\ \/ sessions' = sessions \cup {s} /\ Cardinality(sessions) < Slots /\ accepting
                /\ creator' = [creator EXCEPT ![s] = "adopted"]
             \/ sessions' = sessions /\ creator' = [creator EXCEPT ![s] = "rejected"]
      BY <2>1 DEF Adopt, Room, StartManager
    <2>3. Cardinality(sessions') <= Slots /\ sessions' \subseteq Sessions
      BY <2>2, TableCounts
    <2>4. manager' \in {"none", "test", "dozing", "asleep", "join", "ended"} /\ missed' \in BOOLEAN
      BY <2>1 DEF Adopt, Room, StartManager
    <2> QED
      BY <2>2, <2>3, <2>4
  <1>3. CASE \E s \in Sessions : RetireRejected(s)
    BY <1>3 DEF RetireRejected, CreatorUnchanged
  <1>4. CASE \E s \in Sessions : JoinRejected(s)
    BY <1>4 DEF JoinRejected, CreatorUnchanged
  <1>5. CASE \E s \in Sessions : Start(s)
    BY <1>5 DEF Start, CreatorUnchanged
  <1>6. CASE \E s \in Sessions : Started(s)
    BY <1>6 DEF Started, CreatorUnchanged
  <1>7. CASE \E s \in Sessions : Retire(s)
    BY <1>7 DEF Retire, CreatorUnchanged
  <1>8. CASE \E s \in Sessions : Collect(s)
    BY <1>8 DEF Collect, CreatorUnchanged
  <1>9. CASE \E s \in Sessions : Destroy(s)
    BY <1>9 DEF Destroy, CreatorUnchanged
  <1>10. CASE \E s \in Sessions : Teardown(s)
    BY <1>10 DEF Teardown, ReaperUnchanged
  <1>11. CASE \E s \in Sessions : Publish(s)
    BY <1>11 DEF Publish, ReaperUnchanged
  <1>12. CASE \E s \in Sessions : Announce(s)
    BY <1>12 DEF Announce, ReaperUnchanged
  <1>13. CASE Test
    <2>1. sessions' \subseteq Sessions /\ (sessions' = sessions \ retired \/ sessions' = sessions)
      BY <1>13 DEF Test
    <2>2. Cardinality(sessions') <= Slots
      BY <2>1, TableCounts
    <2> QED
      BY <1>13, <2>1, <2>2 DEF Test, ManagerUnchanged
  <1>14. CASE Sleep
    BY <1>14 DEF Sleep, ManagerUnchanged
  <1>15. CASE WakeSpuriously
    BY <1>15 DEF WakeSpuriously, ManagerUnchanged
  <1>16. CASE Join
    BY <1>16 DEF Join, ManagerUnchanged
  <1>17. CASE ShutBegin
    BY <1>17 DEF ShutBegin, UnloadUnchanged
  <1>18. CASE ShutRequest
    BY <1>18 DEF ShutRequest, UnloadUnchanged
  <1>19. CASE ShutNotify
    BY <1>19 DEF ShutNotify, UnloadUnchanged
  <1>20. CASE ShutJoin
    BY <1>20 DEF ShutJoin, UnloadUnchanged
  <1>21. CASE Terminated \/ UNCHANGED vars
    BY <1>21 DEF Terminated, vars
  <1> QED
    BY <1>1, <1>2, <1>3, <1>4, <1>5, <1>6, <1>7, <1>8, <1>9, <1>10, <1>11, <1>12, <1>13, <1>14, <1>15, <1>16, <1>17, <1>18, <1>19, <1>20, <1>21 DEF Next, CreatorNext, ReaperNext, ManagerNext, UnloaderNext

(* No reaper is joined twice, and none goes unjoined.                       *)
LEMMA JoinKept ==
  ASSUME TypeOK, JoinInv, TableInv, [Next]_vars
  PROVE  JoinInv'
  <1> USE DEF TypeOK, JoinInv, TableInv, Unplaced, Entered, table, manage, session, unload, Goes, Notify, Locked
  <1>1. CASE \E s \in Sessions : Create(s)
    BY <1>1 DEF Create
  <1>2. CASE \E s \in Sessions : Adopt(s)
    <2>1. PICK s \in Sessions : Adopt(s)
      BY <1>2
    <2>2. /\ creator[s] = "created" /\ UNCHANGED <<accepting, session, joins, reaper, unload, completed, finished>>
          /\ \/ sessions' = sessions \cup {s} /\ Cardinality(sessions) < Slots /\ accepting
                /\ creator' = [creator EXCEPT ![s] = "adopted"]
             \/ sessions' = sessions /\ creator' = [creator EXCEPT ![s] = "rejected"]
      BY <2>1 DEF Adopt, Room, StartManager
    <2> QED
      BY <2>2
  <1>3. CASE \E s \in Sessions : RetireRejected(s)
    BY <1>3 DEF RetireRejected, CreatorUnchanged
  <1>4. CASE \E s \in Sessions : JoinRejected(s)
    BY <1>4 DEF JoinRejected, CreatorUnchanged
  <1>5. CASE \E s \in Sessions : Start(s)
    BY <1>5 DEF Start, CreatorUnchanged
  <1>6. CASE \E s \in Sessions : Started(s)
    BY <1>6 DEF Started, CreatorUnchanged
  <1>7. CASE \E s \in Sessions : Retire(s)
    BY <1>7 DEF Retire, CreatorUnchanged
  <1>8. CASE \E s \in Sessions : Collect(s)
    BY <1>8 DEF Collect, CreatorUnchanged
  <1>9. CASE \E s \in Sessions : Destroy(s)
    BY <1>9 DEF Destroy, CreatorUnchanged
  <1>10. CASE \E s \in Sessions : Teardown(s)
    BY <1>10 DEF Teardown, ReaperUnchanged
  <1>11. CASE \E s \in Sessions : Publish(s)
    BY <1>11 DEF Publish, ReaperUnchanged
  <1>12. CASE \E s \in Sessions : Announce(s)
    BY <1>12 DEF Announce, ReaperUnchanged
  <1>13. CASE Test
    BY <1>13 DEF Test, ManagerUnchanged
  <1>14. CASE Sleep
    BY <1>14 DEF Sleep, ManagerUnchanged
  <1>15. CASE WakeSpuriously
    BY <1>15 DEF WakeSpuriously, ManagerUnchanged
  <1>16. CASE Join
    BY <1>16 DEF Join, ManagerUnchanged
  <1>17. CASE ShutBegin
    BY <1>17 DEF ShutBegin, UnloadUnchanged
  <1>18. CASE ShutRequest
    BY <1>18 DEF ShutRequest, UnloadUnchanged
  <1>19. CASE ShutNotify
    BY <1>19 DEF ShutNotify, UnloadUnchanged
  <1>20. CASE ShutJoin
    BY <1>20 DEF ShutJoin, UnloadUnchanged
  <1>21. CASE Terminated \/ UNCHANGED vars
    BY <1>21 DEF Terminated, vars
  <1> QED
    BY <1>1, <1>2, <1>3, <1>4, <1>5, <1>6, <1>7, <1>8, <1>9, <1>10, <1>11, <1>12, <1>13, <1>14, <1>15, <1>16, <1>17, <1>18, <1>19, <1>20, <1>21 DEF Next, CreatorNext, ReaperNext, ManagerNext, UnloaderNext

(* A closed table only empties.                                             *)
LEMMA TableKept ==
  ASSUME TypeOK, JoinInv, TableInv, [Next]_vars
  PROVE  TableInv'
  <1> USE DEF TypeOK, TableInv, table, manage, session, unload, Goes, Notify, Locked
  <1>1. CASE \E s \in Sessions : Create(s)
    BY <1>1 DEF Create
  <1>2. CASE \E s \in Sessions : Adopt(s)
    <2>1. PICK s \in Sessions : Adopt(s)
      BY <1>2
    <2>2. /\ creator[s] = "created" /\ UNCHANGED <<accepting, session, joins, reaper, unload, completed, finished>>
          /\ \/ sessions' = sessions \cup {s} /\ Cardinality(sessions) < Slots /\ accepting
                /\ creator' = [creator EXCEPT ![s] = "adopted"]
             \/ sessions' = sessions /\ creator' = [creator EXCEPT ![s] = "rejected"]
      BY <2>1 DEF Adopt, Room, StartManager
    <2>3. sessions' \cap completed = {}
      BY <2>2 DEF JoinInv, Entered, Unplaced
    <2>4. \/ accepting /\ manager' # "none" /\ (manager' = "join" <=> manager = "join")
             /\ (manager' = "ended" <=> manager = "ended")
          \/ sessions' = sessions /\ manager' = manager
      BY <2>1 DEF Adopt, Room, StartManager
    <2> QED
      BY <2>2, <2>3, <2>4
  <1>3. CASE \E s \in Sessions : RetireRejected(s)
    BY <1>3 DEF RetireRejected, CreatorUnchanged
  <1>4. CASE \E s \in Sessions : JoinRejected(s)
    BY <1>4 DEF JoinRejected, CreatorUnchanged
  <1>5. CASE \E s \in Sessions : Start(s)
    BY <1>5 DEF Start, CreatorUnchanged
  <1>6. CASE \E s \in Sessions : Started(s)
    BY <1>6 DEF Started, CreatorUnchanged
  <1>7. CASE \E s \in Sessions : Retire(s)
    BY <1>7 DEF Retire, CreatorUnchanged
  <1>8. CASE \E s \in Sessions : Collect(s)
    BY <1>8 DEF Collect, CreatorUnchanged
  <1>9. CASE \E s \in Sessions : Destroy(s)
    BY <1>9 DEF Destroy, CreatorUnchanged
  <1>10. CASE \E s \in Sessions : Teardown(s)
    BY <1>10 DEF Teardown, ReaperUnchanged
  <1>11. CASE \E s \in Sessions : Publish(s)
    BY <1>11 DEF Publish, ReaperUnchanged
  <1>12. CASE \E s \in Sessions : Announce(s)
    BY <1>12 DEF Announce, ReaperUnchanged
  <1>13. CASE Test
    BY <1>13 DEF Test, ManagerUnchanged
  <1>14. CASE Sleep
    BY <1>14 DEF Sleep, ManagerUnchanged
  <1>15. CASE WakeSpuriously
    BY <1>15 DEF WakeSpuriously, ManagerUnchanged
  <1>16. CASE Join
    BY <1>16 DEF Join, ManagerUnchanged
  <1>17. CASE ShutBegin
    BY <1>17 DEF ShutBegin, UnloadUnchanged
  <1>18. CASE ShutRequest
    BY <1>18 DEF ShutRequest, UnloadUnchanged
  <1>19. CASE ShutNotify
    BY <1>19 DEF ShutNotify, UnloadUnchanged
  <1>20. CASE ShutJoin
    BY <1>20 DEF ShutJoin, UnloadUnchanged
  <1>21. CASE Terminated \/ UNCHANGED vars
    BY <1>21 DEF Terminated, vars
  <1> QED
    BY <1>1, <1>2, <1>3, <1>4, <1>5, <1>6, <1>7, <1>8, <1>9, <1>10, <1>11, <1>12, <1>13, <1>14, <1>15, <1>16, <1>17, <1>18, <1>19, <1>20, <1>21 DEF Next, CreatorNext, ReaperNext, ManagerNext, UnloaderNext

(* Work that appears while the manager dozes or sleeps is announced.        *)
LEMMA WakeKept ==
  ASSUME TypeOK, JoinInv, TableInv, WakeInv, [Next]_vars
  PROVE  WakeInv'
  <1> USE DEF TypeOK, JoinInv, TableInv, WakeInv, Wanted, Unplaced, Entered, table, manage, session, unload, Goes, Notify, Locked
  <1>1. CASE \E s \in Sessions : Create(s)
    BY <1>1 DEF Create
  <1>2. CASE \E s \in Sessions : Adopt(s)
    BY <1>2 DEF Adopt, Room, StartManager
  <1>3. CASE \E s \in Sessions : RetireRejected(s)
    BY <1>3 DEF RetireRejected, CreatorUnchanged
  <1>4. CASE \E s \in Sessions : JoinRejected(s)
    BY <1>4 DEF JoinRejected, CreatorUnchanged
  <1>5. CASE \E s \in Sessions : Start(s)
    BY <1>5 DEF Start, CreatorUnchanged
  <1>6. CASE \E s \in Sessions : Started(s)
    BY <1>6 DEF Started, CreatorUnchanged
  <1>7. CASE \E s \in Sessions : Retire(s)
    BY <1>7 DEF Retire, CreatorUnchanged
  <1>8. CASE \E s \in Sessions : Collect(s)
    BY <1>8 DEF Collect, CreatorUnchanged
  <1>9. CASE \E s \in Sessions : Destroy(s)
    BY <1>9 DEF Destroy, CreatorUnchanged
  <1>10. CASE \E s \in Sessions : Teardown(s)
    BY <1>10 DEF Teardown, ReaperUnchanged
  <1>11. CASE \E s \in Sessions : Publish(s)
    BY <1>11 DEF Publish, ReaperUnchanged
  <1>12. CASE \E s \in Sessions : Announce(s)
    BY <1>12 DEF Announce, ReaperUnchanged
  <1>13. CASE Test
    BY <1>13 DEF Test, ManagerUnchanged
  <1>14. CASE Sleep
    BY <1>14 DEF Sleep, ManagerUnchanged
  <1>15. CASE WakeSpuriously
    BY <1>15 DEF WakeSpuriously, ManagerUnchanged
  <1>16. CASE Join
    BY <1>16 DEF Join, ManagerUnchanged
  <1>17. CASE ShutBegin
    BY <1>17 DEF ShutBegin, UnloadUnchanged
  <1>18. CASE ShutRequest
    BY <1>18 DEF ShutRequest, UnloadUnchanged
  <1>19. CASE ShutNotify
    BY <1>19 DEF ShutNotify, UnloadUnchanged
  <1>20. CASE ShutJoin
    BY <1>20 DEF ShutJoin, UnloadUnchanged
  <1>21. CASE Terminated \/ UNCHANGED vars
    BY <1>21 DEF Terminated, vars
  <1> QED
    BY <1>1, <1>2, <1>3, <1>4, <1>5, <1>6, <1>7, <1>8, <1>9, <1>10, <1>11, <1>12, <1>13, <1>14, <1>15, <1>16, <1>17, <1>18, <1>19, <1>20, <1>21 DEF Next, CreatorNext, ReaperNext, ManagerNext, UnloaderNext

-----------------------------------------------------------------------------
(* Who joins whom, when the table is empty for good, and who announces what *)
(* (capture_session.cpp:11-116).                                            *)
THEOREM Invariance == Spec => [](TypeOK /\ RegistryInv)
  <1>1. Init => TypeOK /\ RegistryInv
    <2> SUFFICES ASSUME Init PROVE TypeOK /\ RegistryInv
      OBVIOUS
    <2>1. Cardinality({}) = 0
      BY FS_EmptySet
    <2>2. Cardinality(sessions) <= Slots
      BY <2>1, BoundsAssumption DEF Init
    <2>3. TypeOK
      <3>1. /\ joins \in [Sessions -> 0..2]
            /\ creator \in [Sessions -> {"absent"}] /\ reaper \in [Sessions -> {"off"}]
        BY DEF Init
      <3> QED
        BY <2>2, <3>1 DEF Init, TypeOK
    <2>4. RegistryInv
      BY DEF Init, RegistryInv, JoinInv, TableInv, WakeInv, Entered, Unplaced
    <2> QED
      BY <2>3, <2>4
  <1>2. TypeOK /\ RegistryInv /\ [Next]_vars => TypeOK' /\ RegistryInv'
    BY TypesKept, JoinKept, TableKept, WakeKept DEF RegistryInv
  <1> QED
    BY <1>1, <1>2, PTL DEF Spec

(* Every reaper is joined exactly once, and before the last reference goes. *)
THEOREM JoinSafety == Spec => []JoinedOnce
  <1>1. TypeOK /\ RegistryInv => JoinedOnce
    BY DEF TypeOK, RegistryInv, JoinInv, JoinedOnce, Held, Entered, Unplaced
  <1> QED
    BY <1>1, Invariance, PTL

(* When shutdown() returns no reaper of an adopted session runs any more.   *)
THEOREM UnloadSafety == Spec => []UnloadIsSafe
  <1>1. TypeOK /\ RegistryInv => UnloadIsSafe
    BY DEF TypeOK, RegistryInv, JoinInv, TableInv, UnloadIsSafe, Entered, Unplaced
  <1> QED
    BY <1>1, Invariance, PTL

(* The gap between test and sleep is the only place where work gets lost.   *)
THEOREM WakeSafety == Spec => []OnlyTheGapLosesWork
  <1>1. RegistryInv => OnlyTheGapLosesWork
    BY DEF RegistryInv, WakeInv, OnlyTheGapLosesWork
  <1> QED
    BY <1>1, Invariance, PTL
=============================================================================
