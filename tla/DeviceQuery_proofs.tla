------------------------- MODULE DeviceQuery_proofs -------------------------
(***************************************************************************)
(* Proofs about DeviceQuery for every set of devices: what a query leaves  *)
(* open, whom its token may hit, and that its verdict is true.             *)
(***************************************************************************)
EXTENDS DeviceQuery, TLAPS

(* The flags stay Boolean.                                                  *)
LEMMA FlagsKept ==
  ASSUME FlagsTyped, [Next]_vars
  PROVE  FlagsTyped'
  <1> USE DEF FlagsTyped
  <1> USE DEF process, reading, token, outside, devices, answer, SpawnUnchanged, CallUnchanged
  <1>1. CASE Refresh
    BY <1>1 DEF Refresh, Goto
  <1>2. CASE Start
    BY <1>2 DEF Start, Interrupt, Return
  <1>3. CASE CreatePipe
    BY <1>3 DEF CreatePipe, Unstarted, Return, NotStarted
  <1>4. CASE SetInherit
    BY <1>4 DEF SetInherit, Unstarted, Return, NotStarted, ErrorCloseStdout
  <1>5. CASE Attributes
    BY <1>5 DEF Attributes, Unstarted, Return, NotStarted, ErrorCloseStdout
  <1>6. CASE Create
    BY <1>6 DEF Create, Unstarted, Return, NotStarted, ErrorCloseStdout, ErrorFreeAttributeList
  <1>7. CASE Look
    BY <1>7 DEF Look, ReadEnds, SetProcess, Interrupt
  <1>8. CASE PeekFails
    BY <1>8 DEF PeekFails, ReadEnds
  <1>9. CASE ReadBytes
    BY <1>9 DEF ReadBytes, ReadEnds
  <1>10. CASE NoBytes
    BY <1>10 DEF NoBytes, ReadEnds
  <1>11. CASE ReadDone
    BY <1>11 DEF ReadDone, Goto, Unset
  <1>12. CASE ClosePipe
    BY <1>12 DEF ClosePipe, Discard, Return, Mapped
  <1>13. CASE Wait
    BY <1>13 DEF Wait, SetProcess
  <1>14. CASE Waited
    BY <1>14 DEF Waited, Interrupt
  <1>25. CASE WaitFails
    BY <1>25 DEF WaitFails
  <1>15. CASE WaitDone
    BY <1>15 DEF WaitDone, Goto, Unset
  <1>16. CASE Settle
    BY <1>16 DEF Settle, Discard, Return, Mapped, WaitFailed
  <1>17. CASE ParseList
    BY <1>17 DEF ParseList, ParseUnchanged, Return
  <1>18. CASE ParseDevice
    BY <1>18 DEF ParseDevice, ParseUnchanged, Return
  <1>19. CASE AllDone
    BY <1>19 DEF AllDone, Return
  <1>20. ASSUME NEW d \in Devices, Device(d) PROVE FlagsTyped'
    BY <1>20 DEF Device, Return
  <1>21. CASE Cancel
    BY <1>21 DEF Cancel, Interrupt
  <1>22. CASE Expire
    BY <1>22 DEF Expire
  <1>23. CASE Exit
    BY <1>23 DEF Exit
  <1>24. CASE UNCHANGED vars
    BY <1>24 DEF vars
  <1> QED
    BY <1>1, <1>2, <1>3, <1>4, <1>5, <1>6, <1>7, <1>8, <1>9, <1>10, <1>11, <1>12, <1>13, <1>14, <1>15, <1>16, <1>17, <1>18, <1>19, <1>20, <1>21, <1>22, <1>23, <1>24, <1>25 DEF Next, Run

(* Everything else keeps its type.                                          *)
LEMMA PlacesKept ==
  ASSUME PlacesTyped, [Next]_vars
  PROVE  PlacesTyped'
  <1> USE DEF PlacesTyped, Commands, Statuses, Infos, Nothing
  <1> USE DEF process, reading, token, outside, devices, answer, SpawnUnchanged, CallUnchanged
  <1>1. CASE Refresh
    BY <1>1 DEF Refresh, Goto
  <1>2. CASE Start
    <2>1. child' \in {child, "failed"} /\ handles' = handles
      BY <1>2, Zenon DEF Start, Interrupt
    <2> QED
      BY <1>2, <2>1 DEF Start, Return
  <1>3. CASE CreatePipe
    BY <1>3 DEF CreatePipe, Unstarted, Return, NotStarted
  <1>4. CASE SetInherit
    BY <1>4 DEF SetInherit, Unstarted, Return, NotStarted, ErrorCloseStdout
  <1>5. CASE Attributes
    BY <1>5 DEF Attributes, Unstarted, Return, NotStarted, ErrorCloseStdout
  <1>6. CASE Create
    BY <1>6 DEF Create, Unstarted, Return, NotStarted, ErrorCloseStdout, ErrorFreeAttributeList
  <1>7. CASE Look
    <2>1. child' \in {child, "failed"} /\ handles' = handles
      BY <1>7, Zenon DEF Look, Interrupt
    <2> QED
      BY <1>7, <2>1 DEF Look, ReadEnds
  <1>8. CASE PeekFails
    BY <1>8 DEF PeekFails, ReadEnds
  <1>9. CASE ReadBytes
    BY <1>9 DEF ReadBytes, ReadEnds
  <1>10. CASE NoBytes
    BY <1>10 DEF NoBytes, ReadEnds
  <1>11. CASE ReadDone
    BY <1>11 DEF ReadDone, Goto, Unset
  <1>12. CASE ClosePipe
    BY <1>12, ZenonT(60) DEF ClosePipe, Discard, Return, Mapped
  <1>13. CASE Wait
    BY <1>13, ZenonT(60) DEF Wait, SetProcess
  <1>14. CASE Waited
    BY <1>14, ZenonT(60) DEF Waited, Interrupt
  <1>25. CASE WaitFails
    BY <1>25, ZenonT(60) DEF WaitFails
  <1>15. CASE WaitDone
    BY <1>15 DEF WaitDone, Goto, Unset
  <1>16. CASE Settle
    BY <1>16 DEF Settle, Discard, Return, Mapped, WaitFailed
  <1>17. CASE ParseList
    BY <1>17 DEF ParseList, ParseUnchanged, Return
  <1>18. CASE ParseDevice
    BY <1>18 DEF ParseDevice, ParseUnchanged, Return
  <1>19. CASE AllDone
    BY <1>19 DEF AllDone, Return
  <1>20. ASSUME NEW d \in Devices, Device(d) PROVE PlacesTyped'
    BY <1>20 DEF Device, Return
  <1>21. CASE Cancel
    BY <1>21 DEF Cancel, Interrupt
  <1>22. CASE Expire
    BY <1>22 DEF Expire
  <1>23. CASE Exit
    BY <1>23 DEF Exit
  <1>24. CASE UNCHANGED vars
    BY <1>24 DEF vars
  <1> QED
    BY <1>1, <1>2, <1>3, <1>4, <1>5, <1>6, <1>7, <1>8, <1>9, <1>10, <1>11, <1>12, <1>13, <1>14, <1>15, <1>16, <1>17, <1>18, <1>19, <1>20, <1>21, <1>22, <1>23, <1>24, <1>25 DEF Next, Run

(* What each place has open is what the next one expects.                   *)
LEMMA OpenSafe ==
  ASSUME PlacesTyped, OpenInv, TokenInv, LoopInv, [Next]_vars
  PROVE  OpenInv'
  <1> USE DEF PlacesTyped, OpenInv, TokenInv, Reading, Waiting
  <1> USE DEF process, reading, token, outside, devices, answer, SpawnUnchanged, CallUnchanged
  <1>1. CASE Refresh
    BY <1>1 DEF Refresh, Goto
  <1>2. CASE Start
    BY <1>2 DEF Start, Interrupt, Return
  <1>3. CASE CreatePipe
    BY <1>3 DEF CreatePipe, Unstarted, Return, NotStarted
  <1>4. CASE SetInherit
    BY <1>4 DEF SetInherit, Unstarted, Return, NotStarted, ErrorCloseStdout
  <1>5. CASE Attributes
    <2>1. query = "attributes" => command # "push"
      BY DEF LoopInv
    <2> QED
      BY <1>5, <2>1 DEF Attributes, Unstarted, Return, ErrorCloseStdout
  <1>6. CASE Create
    BY <1>6 DEF Create, Unstarted, Return, NotStarted, ErrorCloseStdout, ErrorFreeAttributeList
  <1>7. CASE Look
    BY <1>7 DEF Look, ReadEnds, SetProcess, Interrupt
  <1>8. CASE PeekFails
    BY <1>8 DEF PeekFails, ReadEnds
  <1>9. CASE ReadBytes
    BY <1>9 DEF ReadBytes, ReadEnds
  <1>10. CASE NoBytes
    BY <1>10 DEF NoBytes, ReadEnds
  <1>11. CASE ReadDone
    BY <1>11 DEF ReadDone, Goto, Unset
  <1>12. CASE ClosePipe
    BY <1>12 DEF ClosePipe, Discard, Return, Mapped
  <1>13. CASE Wait
    BY <1>13 DEF Wait, SetProcess
  <1>14. CASE Waited
    BY <1>14 DEF Waited, Interrupt
  <1>25. CASE WaitFails
    BY <1>25 DEF WaitFails
  <1>15. CASE WaitDone
    BY <1>15 DEF WaitDone, Goto, Unset
  <1>16. CASE Settle
    BY <1>16 DEF Settle, Discard, Return, Mapped, WaitFailed
  <1>17. CASE ParseList
    BY <1>17 DEF ParseList, ParseUnchanged, Return
  <1>18. CASE ParseDevice
    BY <1>18 DEF ParseDevice, ParseUnchanged, Return
  <1>19. CASE AllDone
    BY <1>19 DEF AllDone, Return
  <1>20. ASSUME NEW d \in Devices, Device(d) PROVE OpenInv'
    BY <1>20 DEF Device, Return
  <1>21. CASE Cancel
    BY <1>21 DEF Cancel, Interrupt
  <1>22. CASE Expire
    BY <1>22 DEF Expire
  <1>23. CASE Exit
    BY <1>23 DEF Exit
  <1>24. CASE UNCHANGED vars
    BY <1>24 DEF vars
  <1> QED
    BY <1>1, <1>2, <1>3, <1>4, <1>5, <1>6, <1>7, <1>8, <1>9, <1>10, <1>11, <1>12, <1>13, <1>14, <1>15, <1>16, <1>17, <1>18, <1>19, <1>20, <1>21, <1>22, <1>23, <1>24, <1>25 DEF Next, Run

(* The token holds a process only while the query is inside a call on it.   *)
LEMMA TokenSafe ==
  ASSUME TypeOK, OpenInv, TokenInv, LoopInv, [Next]_vars
  PROVE  TokenInv'
  <1> USE DEF TypeOK, FlagsTyped, PlacesTyped, OpenInv, TokenInv, Reading, Waiting
  <1> USE DEF process, reading, token, outside, devices, answer, SpawnUnchanged, CallUnchanged
  <1>1. CASE Refresh
    BY <1>1 DEF Refresh, Goto
  <1>2. CASE Start
    BY <1>2 DEF Start, Interrupt, Return
  <1>3. CASE CreatePipe
    BY <1>3 DEF CreatePipe, Unstarted, Return, NotStarted
  <1>4. CASE SetInherit
    BY <1>4 DEF SetInherit, Unstarted, Return, NotStarted, ErrorCloseStdout
  <1>5. CASE Attributes
    BY <1>5 DEF Attributes, Unstarted, Return, NotStarted, ErrorCloseStdout
  <1>6. CASE Create
    BY <1>6 DEF Create, Unstarted, Return, NotStarted, ErrorCloseStdout, ErrorFreeAttributeList
  <1>7. CASE Look
    BY <1>7 DEF Look, ReadEnds, SetProcess, Interrupt
  <1>8. CASE PeekFails
    BY <1>8 DEF PeekFails, ReadEnds
  <1>9. CASE ReadBytes
    BY <1>9 DEF ReadBytes, ReadEnds
  <1>10. CASE NoBytes
    BY <1>10 DEF NoBytes, ReadEnds
  <1>11. CASE ReadDone
    BY <1>11 DEF ReadDone, Goto, Unset
  <1>12. CASE ClosePipe
    BY <1>12 DEF ClosePipe, Discard, Return, Mapped
  <1>13. CASE Wait
    BY <1>13 DEF Wait, SetProcess
  <1>14. CASE Waited
    BY <1>14 DEF Waited, Interrupt
  <1>25. CASE WaitFails
    BY <1>25 DEF WaitFails
  <1>15. CASE WaitDone
    BY <1>15 DEF WaitDone, Goto, Unset
  <1>16. CASE Settle
    BY <1>16 DEF Settle, Discard, Return, Mapped, WaitFailed
  <1>17. CASE ParseList
    BY <1>17 DEF ParseList, ParseUnchanged, Return
  <1>18. CASE ParseDevice
    BY <1>18 DEF ParseDevice, ParseUnchanged, Return
  <1>19. CASE AllDone
    BY <1>19 DEF AllDone, Return
  <1>20. ASSUME NEW d \in Devices, Device(d) PROVE TokenInv'
    BY <1>20 DEF Device, Return
  <1>21. CASE Cancel
    BY <1>21 DEF Cancel, Interrupt
  <1>22. CASE Expire
    BY <1>22 DEF Expire
  <1>23. CASE Exit
    BY <1>23 DEF Exit
  <1>24. CASE UNCHANGED vars
    BY <1>24 DEF vars
  <1> QED
    BY <1>1, <1>2, <1>3, <1>4, <1>5, <1>6, <1>7, <1>8, <1>9, <1>10, <1>11, <1>12, <1>13, <1>14, <1>15, <1>16, <1>17, <1>18, <1>19, <1>20, <1>21, <1>22, <1>23, <1>24, <1>25 DEF Next, Run

(* Devices behind the loop have their entries, those before it have none.   *)
LEMMA LoopSafe ==
  ASSUME PlacesTyped, LoopInv, [Next]_vars
  PROVE  LoopInv'
  <1> USE DEF PlacesTyped, LoopInv, Entry, Reading, Commands, Statuses, Infos, Nothing
  <1> USE DEF process, reading, token, outside, devices, answer, SpawnUnchanged, CallUnchanged
  <1>1. CASE Refresh
    BY <1>1 DEF Refresh, Goto
  <1>2. CASE Start
    BY <1>2 DEF Start, Interrupt, Return
  <1>3. CASE CreatePipe
    BY <1>3 DEF CreatePipe, Unstarted, Return, NotStarted
  <1>4. CASE SetInherit
    BY <1>4 DEF SetInherit, Unstarted, Return, NotStarted, ErrorCloseStdout
  <1>5. CASE Attributes
    BY <1>5 DEF Attributes, Unstarted, Return, NotStarted, ErrorCloseStdout
  <1>6. CASE Create
    BY <1>6 DEF Create, Unstarted, Return, NotStarted, ErrorCloseStdout, ErrorFreeAttributeList
  <1>7. CASE Look
    BY <1>7 DEF Look, ReadEnds, SetProcess, Interrupt
  <1>8. CASE PeekFails
    BY <1>8 DEF PeekFails, ReadEnds
  <1>9. CASE ReadBytes
    BY <1>9 DEF ReadBytes, ReadEnds
  <1>10. CASE NoBytes
    BY <1>10 DEF NoBytes, ReadEnds
  <1>11. CASE ReadDone
    BY <1>11 DEF ReadDone, Goto, Unset
  <1>12. CASE ClosePipe
    BY <1>12 DEF ClosePipe, Discard, Return, Mapped
  <1>13. CASE Wait
    BY <1>13 DEF Wait, SetProcess
  <1>14. CASE Waited
    BY <1>14 DEF Waited, Interrupt
  <1>25. CASE WaitFails
    BY <1>25 DEF WaitFails
  <1>15. CASE WaitDone
    BY <1>15 DEF WaitDone, Goto, Unset
  <1>16. CASE Settle
    BY <1>16 DEF Settle, Discard, Return, Mapped, WaitFailed
  <1>17. CASE ParseList
    BY <1>17 DEF ParseList, ParseUnchanged, Return
  <1>18. CASE ParseDevice
    BY <1>18 DEF ParseDevice, ParseUnchanged, Return
  <1>19. CASE AllDone
    BY <1>19 DEF AllDone, Return
  <1>20. ASSUME NEW d \in Devices, Device(d) PROVE LoopInv'
    BY <1>20 DEF Device, Return
  <1>21. CASE Cancel
    BY <1>21 DEF Cancel, Interrupt
  <1>22. CASE Expire
    BY <1>22 DEF Expire
  <1>23. CASE Exit
    BY <1>23 DEF Exit
  <1>24. CASE UNCHANGED vars
    BY <1>24 DEF vars
  <1> QED
    BY <1>1, <1>2, <1>3, <1>4, <1>5, <1>6, <1>7, <1>8, <1>9, <1>10, <1>11, <1>12, <1>13, <1>14, <1>15, <1>16, <1>17, <1>18, <1>19, <1>20, <1>21, <1>22, <1>23, <1>24, <1>25 DEF Next, Run

(* Every variable keeps its type, whatever the devices.                     *)
THEOREM Typing == Spec => []TypeOK
  <1>1. Init => TypeOK
    BY DEF Init, TypeOK, FlagsTyped, PlacesTyped, Commands, Statuses, Infos, Nothing
  <1>2. TypeOK /\ [Next]_vars => TypeOK'
    BY FlagsKept, PlacesKept DEF TypeOK
  <1> QED
    BY <1>1, <1>2, PTL DEF Spec

(* What every place of run() promises the next one.                         *)
THEOREM Invariance == Spec => []QueryInv
  <1>1. Init => QueryInv
    BY NoneAssumption DEF Init, QueryInv, OpenInv, TokenInv, LoopInv, Entry, Reading,
       Waiting, Nothing
  <1>2. TypeOK /\ QueryInv /\ [Next]_vars => QueryInv'
    BY OpenSafe, TokenSafe, LoopSafe DEF QueryInv, TypeOK
  <1> QED
    BY <1>1, <1>2, Typing, PTL DEF Spec

(* No way out of a command leaves a pipe, a handle or a process behind.     *)
THEOREM OpenSafety == Spec => []NothingLeftOpen
  <1>1. TypeOK /\ QueryInv => NothingLeftOpen
    BY DEF TypeOK, PlacesTyped, QueryInv, OpenInv, NothingLeftOpen, Reading, Waiting
  <1> QED
    BY <1>1, Typing, Invariance, PTL

(* cancel() and the deadline only ever terminate a process whose handle is  *)
(* open.                                                                    *)
THEOREM TokenSafety == Spec => []TokenHoldsLive
  <1>1. QueryInv => TokenHoldsLive
    BY DEF QueryInv, OpenInv, TokenInv, TokenHoldsLive, Reading, Waiting
  <1> QED
    BY <1>1, Invariance, PTL

(* A query says what happened.                                              *)
THEOREM VerdictSafety == Spec => []VerdictTells
  <1>1. TypeOK /\ QueryInv => VerdictTells
    <2> SUFFICES ASSUME TypeOK, QueryInv PROVE VerdictTells
      OBVIOUS
    <2>1. status = "success" =>
            cached = [d \in Devices |-> IF d \in ready THEN "probed"
                                         ELSE IF d \in listed THEN "listed" ELSE "none"]
      BY DEF TypeOK, PlacesTyped, Infos, QueryInv, LoopInv, Entry
    <2> QED
      BY <2>1 DEF TypeOK, PlacesTyped, QueryInv, TokenInv, LoopInv, VerdictTells
  <1> QED
    BY <1>1, Typing, Invariance, PTL
=============================================================================
