----------------------------- MODULE PairingTask -----------------------------
(***************************************************************************)
(* Pairing over Wi-Fi: the dialog (pairing-dialog.cpp) and the task behind *)
(* it (pairing-task.cpp), which runs "adb pair" and, if an address is      *)
(* given, "adb connect", and looks at them from a timer.                   *)
(*                                                                         *)
(* Dialog and task live on one thread, whose handlers run to their end or  *)
(* to a message box, which is an event loop of its own.  The child process *)
(* and OBS, which may remove the source, run at any time: so a poll is     *)
(* three steps.                                                            *)
(*                                                                         *)
(* A child's output is a sequence of pieces, each "words", the text that   *)
(* means success, or "other".  Starting a process is one step that may     *)
(* fail: its insides are in DeviceQuery.                                   *)
(***************************************************************************)
EXTENDS Naturals, Sequences

CONSTANTS
  Addresses,    \* addresses that have the format
  Empty, Bad,   \* nothing in the field; something without the format
  Cap,          \* 64 KiB, in pieces: the retained text, and what one poll reads
  MaxSaid       \* bound: pieces a child writes

ASSUME AddressAssumption == Empty \notin Addresses /\ Bad \notin Addresses /\ Empty # Bad
ASSUME CapAssumption == Cap \in Nat \ {0} /\ MaxSaid \in Nat

VARIABLES
  source, pairInfo,        \* the OBS source; "pair_info" in its settings
  dialog, button, field,   \* the dialog; its Pair button; the connect address in it
  box,                     \* the message box over the dialog
  poll,                    \* where the timer's handler is
  timer, process, output,  \* timer_ is active; process_ and output_ are open
  connecting, address,     \* connecting_, connectAddress_
  expired,                 \* timeoutMs_ have passed since launch()
  child, said, read,       \* the process; what it wrote; how much of it was read
  really, report           \* history of the run: what the device did; what was said of it

sourceVars == <<source, pairInfo>>
dialogVars == <<dialog, button, field, box>>
taskVars   == <<timer, process, output, connecting, address>>
childVars  == <<child, said, read, expired>>
history    == <<really, report>>
vars       == <<sourceVars, dialogVars, poll, taskVars, childVars, history>>

Pieces == {"words", "other"}

FlagsTyped ==
  /\ button \in BOOLEAN /\ timer \in BOOLEAN /\ process \in BOOLEAN /\ output \in BOOLEAN
  /\ connecting \in BOOLEAN /\ expired \in BOOLEAN

PlacesTyped ==
  /\ source \in {"alive", "removed", "gone"} /\ pairInfo \in Addresses \cup {Empty}
  /\ dialog \in {"none", "open"} /\ box \in {"none", "format", "success", "failed"}
  /\ field \in Addresses \cup {Empty, Bad} /\ address \in Addresses \cup {Empty}
  /\ poll \in {"rest", "drain", "look", "give_up"}
  /\ child \in {"none", "running", "done", "failed"}
  /\ said \in Seq(Pieces) /\ read \in 0..Len(said)
  /\ really \in SUBSET {"paired", "connected"}
  /\ report \in SUBSET {"given", "paired", "connected", "late"}

TypeOK == FlagsTyped /\ PlacesTyped

Init ==
  /\ source = "alive" /\ pairInfo = Empty
  /\ dialog = "none" /\ button = TRUE /\ field = Empty /\ box = "none"
  /\ poll = "rest"
  /\ timer = FALSE /\ process = FALSE /\ output = FALSE
  /\ connecting = FALSE /\ address = Empty /\ expired = FALSE
  /\ child = "none" /\ said = <<>> /\ read = 0
  /\ really = {} /\ report = {}

-----------------------------------------------------------------------------
(* The task.                                                                *)

\* Variant: a process that still runs is closed and left alone.
CloseProcess_Leave ==
  /\ process' = FALSE /\ output' = FALSE
  /\ UNCHANGED child

(* closeProcess(true): a process that still runs is terminated.             *)
CloseProcess ==
  /\ process' = FALSE /\ output' = FALSE
  /\ child' = IF process /\ child = "running" THEN "failed" ELSE child

(* cancel(), but for the process.                                           *)
StopTimer == timer' = FALSE

(* launch() succeeds: new process and pipe, no text, the clock restarted.   *)
Launch ==
  /\ process' = TRUE /\ output' = TRUE /\ timer' = TRUE
  /\ child' = "running" /\ said' = <<>> /\ read' = 0 /\ expired' = FALSE

\* Variant: what is saved is what the field holds by then.
Callback_Field(paired) ==
  /\ button' = TRUE
  /\ \/ /\ ~paired
        /\ box' = "failed"
        /\ UNCHANGED <<dialog, sourceVars>>
     \/ /\ paired /\ source # "alive"
        /\ dialog' = "none"
        /\ UNCHANGED <<box, sourceVars>>
     \/ /\ paired /\ source = "alive"
        /\ box' = "success" /\ pairInfo' = IF field = Bad THEN Empty ELSE field
        /\ UNCHANGED <<dialog, source>>
  /\ UNCHANGED field

(* The completion the dialog gave to start(), up to its message box.        *)
Callback(paired) ==
  /\ button' = TRUE
  /\ \/ /\ ~paired
        /\ box' = "failed"
        /\ UNCHANGED <<dialog, sourceVars>>
     \/ /\ paired /\ source # "alive"
        /\ dialog' = "none"
        /\ UNCHANGED <<box, sourceVars>>
     \/ /\ paired /\ source = "alive"
        /\ box' = "success" /\ pairInfo' = address
        /\ UNCHANGED <<dialog, source>>
  /\ UNCHANGED field

(* finish(): the task is retired, then the completion runs.                 *)
Finish(verdict) ==
  /\ report' = {"given"} \cup verdict
  /\ StopTimer /\ CloseProcess
  /\ Callback("paired" \in verdict)

(* Piece i means success: anywhere for "pair", first for "connect".         *)
Words(i) == said[i] = "words" /\ (connecting => i = 1)

\* Variant: the exit code is not asked for.
Success_Words ==
  /\ child \in {"done", "failed"}
  /\ \E i \in 1..Len(said) : i <= read /\ i <= Cap /\ Words(i)

(* Exit code 0, and the words in the text that was read and retained.       *)
Success ==
  /\ child = "done"
  /\ \E i \in 1..Len(said) : i <= read /\ i <= Cap /\ Words(i)

(* The owner has gone: cancel(), silently.                                  *)
OwnerGone ==
  /\ poll = "rest" /\ timer /\ source # "alive"
  /\ StopTimer /\ CloseProcess
  /\ UNCHANGED <<sourceVars, dialogVars, poll, connecting, address, said, read, expired, history>>

Poll ==
  /\ poll = "rest" /\ timer /\ source = "alive"
  /\ poll' = "drain"
  /\ UNCHANGED <<sourceVars, dialogVars, taskVars, childVars, history>>

(* What is in the pipe is read, up to the budget of one poll.               *)
Drain ==
  /\ poll = "drain" /\ poll' = "look"
  /\ read' = IF Len(said) - read > Cap THEN read + Cap ELSE Len(said)
  /\ UNCHANGED <<sourceVars, dialogVars, taskVars, child, said, expired, history>>

\* Variant: only the process is looked at.
StillRunning_Always ==
  /\ poll = "look" /\ poll' = "rest"
  /\ child = "running"
  /\ UNCHANGED <<sourceVars, dialogVars, taskVars, childVars, history>>

(* The process runs and has time left.                                      *)
StillRunning ==
  /\ poll = "look" /\ poll' = "rest"
  /\ child = "running" /\ ~expired
  /\ UNCHANGED <<sourceVars, dialogVars, taskVars, childVars, history>>

(* It has none left.                                                        *)
TimedOut ==
  /\ poll = "look" /\ poll' = "give_up"
  /\ child = "running" /\ expired
  /\ UNCHANGED <<sourceVars, dialogVars, taskVars, childVars, history>>

(* The run ends; the process may have ended since.                          *)
GiveUp ==
  /\ poll = "give_up" /\ poll' = "rest"
  /\ Finish({"late"} \cup (IF connecting THEN {"paired"} ELSE {}))
  /\ UNCHANGED <<connecting, address, said, read, expired, really>>

(* It has ended.  A pairing that went well goes on to the connection.       *)
Ended ==
  /\ poll = "look" /\ poll' = "rest"
  /\ child \in {"done", "failed"}
  /\ \/ /\ ~connecting /\ Success /\ address # Empty
        /\ connecting' = TRUE
        /\ \/ Launch /\ UNCHANGED <<sourceVars, dialogVars, report>>
           \/ /\ Finish({"paired"})
              /\ UNCHANGED <<said, read, expired>>
     \/ /\ connecting \/ ~Success \/ address = Empty
        /\ Finish((IF connecting \/ Success THEN {"paired"} ELSE {})
                  \cup (IF connecting /\ Success THEN {"connected"} ELSE {}))
        /\ UNCHANGED <<connecting, said, read, expired>>
  /\ UNCHANGED <<address, really>>

-----------------------------------------------------------------------------
(* The dialog.  A message box takes all input away from it.                 *)

AtDialog == poll = "rest" /\ dialog = "open" /\ box = "none"

(* wifi_button_click()                                                      *)
Open ==
  /\ poll = "rest" /\ dialog = "none" /\ box = "none" /\ source = "alive"
  /\ dialog' = "open" /\ button' = TRUE /\ field' = pairInfo
  /\ UNCHANGED <<sourceVars, box, poll, taskVars, childVars, history>>

(* The fields stay editable during a run.                                   *)
Edit ==
  /\ AtDialog
  /\ field' \in Addresses \cup {Empty, Bad}
  /\ UNCHANGED <<sourceVars, dialog, button, box, poll, taskVars, childVars, history>>

(* One of the fields does not have its format.                              *)
Refuse ==
  /\ AtDialog /\ button
  /\ box' = "format"
  /\ UNCHANGED <<sourceVars, dialog, button, field, poll, taskVars, childVars, history>>

(* start(), which retires any earlier run first.                            *)
Pair ==
  /\ AtDialog /\ button /\ field # Bad
  /\ address' = field /\ connecting' = FALSE
  /\ really' = {}
  /\ \/ /\ button' = FALSE /\ Launch
        /\ report' = {}
        /\ UNCHANGED <<dialog, field, box, sourceVars>>
     \/ /\ Finish({})
        /\ UNCHANGED <<said, read, expired>>
  /\ UNCHANGED poll

\* Variant: closing the dialog leaves the run to itself.
Leave_KeepRun ==
  /\ dialog' = "none"
  /\ UNCHANGED <<timer, process, output, child>>

(* done(), the end of exec(), the destructor: each cancels the run.         *)
Leave ==
  /\ dialog' = "none"
  /\ StopTimer /\ CloseProcess

(* Cancel, or the window is closed.                                         *)
Reject ==
  /\ AtDialog
  /\ Leave
  /\ UNCHANGED <<sourceVars, button, field, box, poll, connecting, address, said, read, expired,
                 history>>

(* A message box ends; after a success the dialog is accepted.              *)
CloseBox ==
  /\ poll = "rest" /\ box # "none"
  /\ box' = "none"
  /\ IF box = "success" THEN Leave ELSE UNCHANGED <<dialog, timer, process, output, child>>
  /\ UNCHANGED <<sourceVars, button, field, poll, connecting, address, said, read, expired, history>>

-----------------------------------------------------------------------------
(* Child, clock and OBS.                                                    *)

Say ==
  /\ child = "running" /\ Len(said) < MaxSaid
  /\ \E w \in Pieces : said' = Append(said, w)
  /\ UNCHANGED <<sourceVars, dialogVars, poll, taskVars, child, read, expired, history>>

(* A child that said the words and returns 0 has paired, or connected.      *)
Exit ==
  /\ child = "running"
  /\ \/ /\ child' = "done"
        /\ really' = IF \E i \in 1..Len(said) : Words(i)
                     THEN really \cup {IF connecting THEN "connected" ELSE "paired"}
                     ELSE really
     \/ child' = "failed" /\ UNCHANGED really
  /\ UNCHANGED <<sourceVars, dialogVars, poll, taskVars, said, read, expired, report>>

Expire ==
  /\ timer /\ ~expired
  /\ expired' = TRUE
  /\ UNCHANGED <<sourceVars, dialogVars, poll, taskVars, child, said, read, history>>

(* The source is removed, and later destroyed.                              *)
Remove ==
  /\ source \in {"alive", "removed"}
  /\ source' = IF source = "alive" THEN "removed" ELSE "gone"
  /\ UNCHANGED <<pairInfo, dialogVars, poll, taskVars, childVars, history>>

(* The user adds another source.                                            *)
Add ==
  /\ source = "gone" /\ dialog = "none" /\ box = "none"
  /\ source' = "alive" /\ pairInfo' = Empty
  /\ UNCHANGED <<dialogVars, poll, taskVars, childVars, history>>

-----------------------------------------------------------------------------
Timer == OwnerGone \/ Poll \/ Drain \/ StillRunning \/ TimedOut \/ GiveUp \/ Ended

Next ==
  \/ Timer \/ Open \/ Edit \/ Refuse \/ Pair \/ Reject \/ CloseBox
  \/ Say \/ Exit \/ Expire \/ Remove \/ Add

Spec == Init /\ [][Next]_vars

(* The timer fires and time passes.  No user, child or OBS owes a step.     *)
FairSpec == Spec /\ WF_vars(Timer) /\ WF_vars(Expire)

-----------------------------------------------------------------------------
(* Nothing outlives its run: without a run there is no process and no pipe, *)
(* and no child goes on by itself (pairing-task.h:8, "No detached worker"); *)
(* and no run outlives its dialog.                                          *)
NothingLeftRunning ==
  /\ (timer <=> process) /\ (timer <=> output)
  /\ child = "running" => timer
  /\ dialog = "none" => ~timer

(* The button tells whether a run is under way, so that it starts no second *)
(* one and comes back after each.  Only a run that ended because the source *)
(* has gone leaves it disabled.                                             *)
ButtonTells ==
  dialog = "open" =>
    /\ button => ~timer
    /\ ~button /\ ~timer => source # "alive"

(* What the user is told is what the device did.  A pairing that succeeded  *)
(* may be denied in three cases: the run was given up as the process ended, *)
(* its words came after the pipe was read and before the exit was seen      *)
(* (pairing-task.cpp:89-102), or they lay beyond the retained text.         *)
TellsTruth ==
  "given" \in report =>
    /\ "paired" \in report => "paired" \in really
    /\ "connected" \in report => "connected" \in really
    /\ "paired" \in really /\ "paired" \notin report =>
         "late" \in report \/ read < Len(said) \/ Len(said) > Cap
    /\ connecting => "paired" \in report

(* "pair_info" changes only to the address the run was started with, and    *)
(* only when the device has paired and the source is there.                 *)
SavedIsPaired ==
  [][pairInfo' # pairInfo /\ source # "gone" =>
       source = "alive" /\ pairInfo' = address' /\ "paired" \in really /\ "paired" \in report']_vars

(* A run ends: with the button back, the dialog closed or the source gone.  *)
PairingEnds ==
  dialog = "open" /\ ~button ~> (button \/ dialog = "none" \/ source # "alive")

-----------------------------------------------------------------------------
(* The inductive invariant behind the safety properties, proved in          *)
(* PairingTask_proofs.                                                      *)

(* Who is at work.                                                          *)
RunInv ==
  /\ (timer <=> process) /\ (timer <=> output)
  /\ child = "running" => timer
  /\ timer => dialog = "open" /\ box = "none" /\ ~button
  /\ poll # "rest" => timer
  /\ dialog = "none" => box = "none"
  /\ dialog = "open" /\ ~button /\ ~timer => source # "alive"

(* What the device did so far.                                              *)
TruthInv ==
  /\ timer => report = {}
  /\ timer /\ connecting => "paired" \in really
  /\ timer /\ child # "done" =>
       IF connecting THEN "connected" \notin really ELSE really = {}
  /\ timer /\ child = "done" =>
       ((IF connecting THEN "connected" ELSE "paired") \in really
          <=> \E i \in 1..Len(said) : Words(i))
  /\ timer /\ ~connecting => "connected" \notin really

PairingInv == RunInv /\ TruthInv /\ TellsTruth
=============================================================================
