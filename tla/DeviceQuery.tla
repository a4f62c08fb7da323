----------------------------- MODULE DeviceQuery -----------------------------
(***************************************************************************)
(* The device query of a source: sc_device_query::run() (device_query.cpp) *)
(* lists the devices with adb, pushes the server to each device that is    *)
(* ready and probes it, all under one deadline and one interrupt token; the *)
(* source keeps the last complete list (srccpy.cpp:454).                   *)
(*                                                                         *)
(* A command is started by sc_process_execute_p() (sc_process.cpp:83),     *)
(* read by sc_pipe_read_all_intr_until() (process_intr.cpp:27) and waited  *)
(* for by process_check_success_intr_until() (adb.cpp:349).  cancel() may  *)
(* come from any thread.  Each query has a fresh token and deadline;       *)
(* sc_adb_init() cannot fail on Windows; pushed_serials_ only matters to a *)
(* query that runs twice, which none does.                                 *)
(***************************************************************************)
CONSTANTS
  Devices,    \* serials adb may list
  None        \* no serial

ASSUME NoneAssumption == None \notin Devices

VARIABLES
  query,                 \* program counter of run()
  command, result,       \* the command under way, and how it went
  handles,               \* the handles it has open
  child, killed,         \* its process; whether the token terminated it
  output, seen,          \* what was read; the exit was seen while reading
  held, interrupted,     \* sc_intr
  cancelled, expired,    \* cancel() was called; the deadline has passed
  listed, ready,         \* adb's list, and which of it is in state "device"
  todo, current, found,  \* the loop; failed_serial; server_path was found
  infos, status,         \* the result of the query
  cached                 \* scrcpy::device_infos

process == <<handles, child, killed>>
reading == <<output, seen>>
token   == <<held, interrupted>>
outside == <<cancelled, expired>>
devices == <<listed, ready, todo, current, found>>
answer  == <<infos, status, cached>>
vars    == <<query, command, result, process, reading, token, outside, devices, answer>>

Commands == {"list", "push", "probe"}
Statuses == {"none", "success", "cancelled", "timed_out", "list_failed",
             "server_missing", "push_failed", "probe_start_failed",
             "probe_read_failed", "probe_exit_failed", "parse_failed"}
Infos    == [Devices -> {"none", "listed", "probed"}]

FlagsTyped ==
  /\ killed \in BOOLEAN /\ seen \in BOOLEAN /\ held \in BOOLEAN /\ interrupted \in BOOLEAN
  /\ cancelled \in BOOLEAN /\ expired \in BOOLEAN /\ found \in BOOLEAN

PlacesTyped ==
  /\ query \in {"idle", "start", "pipe", "inherit", "attributes", "create", "look",
                "peek", "read", "close_pipe", "wait", "waited", "settle", "parse", "next"}
  /\ command \in Commands
  /\ result \in {"none", "success", "cancelled", "timed_out", "error", "exit_code"}
  /\ handles \in SUBSET {"read", "write", "attributes", "process"}
  /\ child \in {"none", "running", "done", "failed"}
  /\ output \in {"nothing", "something", "too_much"}
  /\ listed \subseteq Devices /\ ready \subseteq Devices /\ todo \subseteq Devices
  /\ current \in Devices \cup {None}
  /\ infos \in Infos /\ cached \in Infos /\ status \in Statuses

TypeOK == FlagsTyped /\ PlacesTyped

Nothing == [d \in Devices |-> "none"]

Init ==
  /\ query = "idle" /\ command = "list" /\ result = "none"
  /\ handles = {} /\ child = "none" /\ killed = FALSE
  /\ output = "nothing" /\ seen = FALSE
  /\ held = FALSE /\ interrupted = FALSE /\ cancelled = FALSE /\ expired = FALSE
  /\ listed = {} /\ ready = {} /\ todo = {} /\ current = None /\ found = FALSE
  /\ infos = Nothing /\ cached = Nothing /\ status = "none"

Goto(from, to) == query = from /\ query' = to

-----------------------------------------------------------------------------
(* refresh_device_infos()                                                   *)

(* A query with a new token and deadline.                                   *)
Refresh ==
  /\ Goto("idle", "start")
  /\ command' = "list" /\ result' = "none"
  /\ held' = FALSE /\ interrupted' = FALSE /\ cancelled' = FALSE /\ expired' = FALSE
  /\ listed' = {} /\ ready' = {} /\ todo' = {} /\ current' = None /\ found' = FALSE
  /\ infos' = Nothing /\ status' = "none"
  /\ UNCHANGED <<process, reading, cached>>

(* run() returns: only a complete list replaces the one the source has.     *)
Return(s) ==
  /\ query' = "idle" /\ status' = s
  /\ cached' = IF s = "success" THEN infos' ELSE cached

-----------------------------------------------------------------------------
(* sc_process_execute_p(): the handles it opens and what each of its labels *)
(* closes.                                                                  *)

ErrorCloseStdout == {"read", "write"}
ErrorFreeAttributeList == ErrorCloseStdout \cup {"attributes"}

(* What a caller makes of a command that did not start.                     *)
NotStarted ==
  CASE command = "list" -> "list_failed" [] command = "push" -> "push_failed"
    [] OTHER -> "probe_start_failed"

Unstarted(close) ==
  /\ handles' = handles \ close
  /\ UNCHANGED infos
  /\ Return(NotStarted)

SpawnUnchanged == UNCHANGED <<command, result, reading, token, outside, devices>>

CreatePipe ==
  /\ query = "pipe"
  /\ \/ /\ query' = "inherit" /\ handles' = {"read", "write"}
        /\ UNCHANGED answer
     \/ Unstarted({})
  /\ UNCHANGED <<child, killed>> /\ SpawnUnchanged

SetInherit ==
  /\ query = "inherit"
  /\ \/ query' = "attributes" /\ UNCHANGED <<handles, answer>>
     \/ Unstarted(ErrorCloseStdout)
  /\ UNCHANGED <<child, killed>> /\ SpawnUnchanged

(* The attribute list is allocated, initialised and given the handle.       *)
Attributes ==
  /\ query = "attributes"
  /\ \/ /\ query' = "create" /\ handles' = handles \cup {"attributes"}
        /\ UNCHANGED answer
     \/ Unstarted(ErrorCloseStdout)
  /\ UNCHANGED <<child, killed>> /\ SpawnUnchanged

\* Variant: without a process only the attribute list is freed.
Create_KeepPipe ==
  /\ query = "create"
  /\ \/ /\ query' = IF command = "push" THEN "wait" ELSE "look"
        /\ handles' = (handles \ {"write", "attributes"}) \cup {"process"}
        /\ child' = "running" /\ killed' = FALSE
        /\ output' = "nothing" /\ seen' = FALSE
        /\ UNCHANGED answer
     \/ Unstarted({"attributes"}) /\ UNCHANGED <<child, killed, reading>>
  /\ UNCHANGED <<command, result, token, outside, devices>>

(* The command line is built and the process created; it keeps its own ends *)
(* of the pipe.                                                             *)
Create ==
  /\ query = "create"
  /\ \/ /\ query' = IF command = "push" THEN "wait" ELSE "look"
        /\ handles' = (handles \ {"write", "attributes"}) \cup {"process"}
        /\ child' = "running" /\ killed' = FALSE
        /\ output' = "nothing" /\ seen' = FALSE
        /\ UNCHANGED answer
     \/ Unstarted(ErrorFreeAttributeList) /\ UNCHANGED <<child, killed, reading>>
  /\ UNCHANGED <<command, result, token, outside, devices>>

-----------------------------------------------------------------------------
(* The token, the deadline and the process.                                 *)

(* intr_interrupt()                                                         *)
Interrupt ==
  /\ interrupted' = TRUE /\ held' = FALSE
  /\ child'  = IF held /\ child = "running" THEN "failed" ELSE child
  /\ killed' = (killed \/ (held /\ child = "running"))
  /\ UNCHANGED handles

(* set_process(pid), refused by an interrupted token.                       *)
SetProcess == ~interrupted /\ held' = TRUE /\ UNCHANGED interrupted

\* Variant: the token keeps the process after the call.
Unset_Keep == UNCHANGED token

(* set_process(SC_PROCESS_NONE); an interrupted token holds nothing anyway. *)
Unset == held' = FALSE /\ UNCHANGED interrupted

Cancel ==
  /\ query # "idle" /\ ~cancelled
  /\ cancelled' = TRUE
  /\ Interrupt
  /\ UNCHANGED <<query, command, result, reading, expired, devices, answer>>

Expire ==
  /\ query # "idle" /\ ~expired
  /\ expired' = TRUE
  /\ UNCHANGED <<query, command, result, process, reading, token, cancelled, devices, answer>>

Exit ==
  /\ child = "running"
  /\ child' \in {"done", "failed"}
  /\ UNCHANGED <<query, command, result, handles, killed, reading, token, outside,
                 devices, answer>>

-----------------------------------------------------------------------------
(* sc_pipe_read_all_intr_until()                                            *)

CallUnchanged == UNCHANGED <<command, outside, devices, answer>>

(* The loop ends with a result.                                             *)
ReadEnds(r) == query' = "read" /\ result' = r

(* The process is registered, unless the token refuses it; then every round *)
(* looks at the token and at the deadline.                                  *)
Look ==
  /\ query = "look"
  /\ \/ /\ interrupted
        /\ ReadEnds("cancelled")
        /\ UNCHANGED <<process, token>>
     \/ /\ ~interrupted /\ ~held
        /\ SetProcess
        /\ UNCHANGED <<query, result, process>>
     \/ /\ ~interrupted /\ held /\ expired
        /\ ReadEnds("timed_out") /\ Interrupt
     \/ /\ ~interrupted /\ held /\ ~expired
        /\ query' = "peek"
        /\ UNCHANGED <<result, process, token>>
  /\ UNCHANGED reading /\ CallUnchanged

(* PeekNamedPipe() fails: the writer is gone, or some other error.          *)
PeekFails ==
  /\ query = "peek"
  /\ \/ child # "running" /\ ReadEnds("success")
     \/ ReadEnds("error")
  /\ UNCHANGED <<process, reading, token>> /\ CallUnchanged

(* Bytes are there and are read; a full buffer ends the loop, and so does   *)
(* ReadFile() returning none, or failing: well if anything was read before. *)
ReadBytes ==
  /\ query = "peek"
  /\ \/ /\ output = "nothing" /\ output' = "something"
        /\ query' = "look" /\ UNCHANGED result
     \/ /\ output' = "too_much" /\ ReadEnds("success")
     \/ /\ \/ ReadEnds("success")
           \/ output = "nothing" /\ ReadEnds("error")
        /\ UNCHANGED output
  /\ UNCHANGED <<seen, process, token>> /\ CallUnchanged

(* No bytes: the end if the exit has been seen, else a wait of up to 25 ms  *)
(* for it.                                                                  *)
NoBytes ==
  /\ query = "peek"
  /\ \/ seen /\ ReadEnds("success") /\ UNCHANGED seen
     \/ ~seen /\ ReadEnds("error") /\ UNCHANGED seen
     \/ /\ ~seen
        /\ query' = "look" /\ seen' = (child # "running")
        /\ UNCHANGED result
  /\ UNCHANGED <<output, process, token>> /\ CallUnchanged

ReadDone ==
  /\ Goto("read", "close_pipe")
  /\ Unset
  /\ UNCHANGED <<result, process, reading>> /\ CallUnchanged

-----------------------------------------------------------------------------
(* The end of a command.                                                    *)

(* map_process_failure()                                                    *)
Mapped(r, fallback) == IF r \in {"cancelled", "timed_out"} THEN r ELSE fallback

(* sc_process_terminate() and sc_process_close().                           *)
Discard ==
  /\ handles' = {}
  /\ child' = IF child = "running" THEN "failed" ELSE child
  /\ UNCHANGED killed

(* The pipe is closed; without its output, or with too much of it, the      *)
(* process is given up.                                                     *)
ClosePipe ==
  /\ query = "close_pipe"
  /\ \/ /\ result = "success" /\ output # "too_much"
        /\ query' = "wait" /\ handles' = handles \ {"read"}
        /\ UNCHANGED <<result, child, killed, answer>>
     \/ /\ result # "success" \/ output = "too_much"
        /\ result' = IF result = "success" THEN "error" ELSE result
        /\ Discard
        /\ UNCHANGED infos
        /\ Return(Mapped(result', IF command = "list" THEN "list_failed"
                                  ELSE "probe_read_failed"))
  /\ UNCHANGED <<command, reading, token, outside, devices>>

(* sc_process_wait_intr_until(): registered, then the exit or the deadline. *)
Wait ==
  /\ query = "wait"
  /\ \/ /\ interrupted
        /\ query' = "settle" /\ result' = "cancelled"
        /\ UNCHANGED <<process, token>>
     \/ /\ SetProcess
        /\ query' = "waited" /\ result' = "none"
        /\ UNCHANGED process
  /\ UNCHANGED reading /\ CallUnchanged

\* Variant: the token is not asked when the process has exited.
Waited_Blind ==
  /\ query = "waited" /\ result = "none"
  /\ \/ /\ child \in {"done", "failed"}
        /\ result' = IF child = "done" THEN "success" ELSE "exit_code"
        /\ UNCHANGED <<process, token>>
     \/ /\ expired /\ child = "running"
        /\ result' = "timed_out"
        /\ Interrupt
  /\ UNCHANGED <<query, reading>> /\ CallUnchanged

\* Variant: the wait for the exit has no deadline.
Waited_NoDeadline ==
  /\ query = "waited" /\ result = "none"
  /\ child \in {"done", "failed"}
  /\ result' = IF interrupted THEN "cancelled"
               ELSE IF child = "done" THEN "success" ELSE "exit_code"
  /\ UNCHANGED <<query, process, token, reading>> /\ CallUnchanged

(* An exit under an interrupted token counts as cancelled; the exit code is *)
(* read in the same breath.                                                 *)
Waited ==
  /\ query = "waited" /\ result = "none"
  /\ \/ /\ child \in {"done", "failed"}
        /\ result' = IF interrupted THEN "cancelled"
                     ELSE IF child = "done" THEN "success" ELSE "exit_code"
        /\ UNCHANGED <<process, token>>
     \/ /\ expired /\ child = "running"
        /\ result' = "timed_out"
        /\ Interrupt
  /\ UNCHANGED <<query, reading>> /\ CallUnchanged

(* WaitForSingleObject() or GetExitCodeProcess() fails.                     *)
WaitFails ==
  /\ query = "waited" /\ result = "none"
  /\ result' = "error"
  /\ UNCHANGED <<query, process, token, reading>> /\ CallUnchanged

WaitDone ==
  /\ Goto("waited", "settle") /\ result # "none"
  /\ Unset
  /\ UNCHANGED <<result, process, reading>> /\ CallUnchanged

WaitFailed ==
  CASE command = "list" -> "list_failed" [] command = "push" -> "push_failed"
    [] OTHER -> "probe_exit_failed"

(* process_check_success_intr_until() closes the process, and terminates it *)
(* first when the wait did not end well.  After the push comes the probe.   *)
Settle ==
  /\ query = "settle"
  /\ \/ /\ result = "success"
        /\ handles' = {} /\ UNCHANGED <<child, killed, answer>>
        /\ query' = IF command = "push" THEN "pipe" ELSE "parse"
        /\ command' = IF command = "push" THEN "probe" ELSE command
     \/ /\ result # "success"
        /\ Discard
        /\ UNCHANGED <<infos, command>>
        /\ Return(Mapped(result, WaitFailed))
  /\ UNCHANGED <<result, reading, token, outside, devices>>

-----------------------------------------------------------------------------
(* run()                                                                    *)

(* The deadline may have passed before the first command.                   *)
Start ==
  /\ query = "start"
  /\ \/ /\ expired
        /\ Interrupt /\ UNCHANGED infos
        /\ Return("timed_out")
     \/ /\ ~expired
        /\ query' = "pipe"
        /\ UNCHANGED <<process, token, answer>>
  /\ UNCHANGED <<command, result, reading, outside, devices>>

ParseUnchanged == UNCHANGED <<command, result, process, reading, token, outside, current, found>>

(* sc_adb_parse_devices(): any list, or no header.  Lines that are not of a *)
(* device are skipped.                                                      *)
ParseList ==
  /\ query = "parse" /\ command = "list"
  /\ \/ /\ listed' \in SUBSET Devices /\ ready' \in SUBSET listed'
        /\ todo' = listed' /\ query' = "next"
        /\ UNCHANGED answer
     \/ /\ Return("list_failed")
        /\ UNCHANGED <<listed, ready, todo, infos>>
  /\ ParseUnchanged

(* parse_device_info() accepts the answer of a probe or not.                *)
ParseDevice ==
  /\ query = "parse" /\ command = "probe"
  /\ \/ /\ infos' = [infos EXCEPT ![current] = "probed"]
        /\ query' = "next"
        /\ UNCHANGED <<status, cached>>
     \/ /\ Return("parse_failed")
        /\ UNCHANGED infos
  /\ UNCHANGED <<listed, ready, todo>> /\ ParseUnchanged

(* The next device, in the order of adb's list.  One that is not ready is   *)
(* only listed; for the first that is, the server file is looked up.        *)
Device(d) ==
  /\ query = "next" /\ d \in todo
  /\ todo' = todo \ {d} /\ current' = d
  /\ \/ /\ d \notin ready
        /\ infos' = [infos EXCEPT ![d] = "listed"]
        /\ UNCHANGED <<query, command, found, status, cached>>
     \/ /\ d \in ready
        /\ query' = "create" /\ command' = "push" /\ found' = TRUE
        /\ UNCHANGED answer
     \/ /\ d \in ready /\ ~found
        /\ UNCHANGED <<infos, command, found>>
        /\ Return("server_missing")
  /\ UNCHANGED <<result, process, reading, token, outside, listed, ready>>

AllDone ==
  /\ query = "next" /\ todo = {}
  /\ current' = None
  /\ UNCHANGED infos
  /\ Return("success")
  /\ UNCHANGED <<command, result, process, reading, token, outside, listed, ready, todo, found>>

-----------------------------------------------------------------------------
Run ==
  \/ Start \/ CreatePipe \/ SetInherit \/ Attributes \/ Create
  \/ Look \/ PeekFails \/ ReadBytes \/ NoBytes \/ ReadDone \/ ClosePipe
  \/ Wait \/ Waited \/ WaitDone \/ Settle \/ ParseList \/ ParseDevice \/ AllDone
  \/ \E d \in Devices : Device(d)

Next == Refresh \/ Run \/ WaitFails \/ Cancel \/ Expire \/ Exit

Spec == Init /\ [][Next]_vars

(* run() is scheduled and time passes.  No command owes an exit, the system *)
(* owes no failure of a wait, nobody owes a refresh or a cancellation.      *)
FairSpec == Spec /\ WF_vars(Run) /\ WF_vars(Expire)

-----------------------------------------------------------------------------
(* A query leaves nothing open: by whatever way it leaves a command, its    *)
(* pipe, attribute list and process handle are closed and its process is    *)
(* not running; only a command under way has any.                           *)
NothingLeftOpen ==
  query \in {"idle", "start", "parse", "next", "pipe"} => handles = {} /\ child # "running"

(* The token never holds a process whose handle is closed: cancel() would   *)
(* terminate whatever the number stands for by then (sc_intr.cpp:36).       *)
TokenHoldsLive == held => "process" \in handles

(* The verdict of a query is true.  Success means every listed device, each *)
(* ready one probed; a timeout or cancellation happened; the device named   *)
(* as failed has no entry; and no command is blamed for its exit code when  *)
(* it was the query that terminated it (adb.cpp:363).                       *)
VerdictTells ==
  /\ status = "success" =>
       /\ current = None
       /\ cached = [d \in Devices |-> IF d \in ready THEN "probed"
                                      ELSE IF d \in listed THEN "listed" ELSE "none"]
  /\ status = "timed_out" => expired
  /\ status = "cancelled" => cancelled
  /\ status \notin {"none", "success"} /\ current # None => infos[current] = "none"
  /\ result = "exit_code" => ~killed

(* A query ends: its deadline bounds every read and every wait, however     *)
(* many commands it runs and whatever they do.                              *)
QueryEnds == (query = "start") ~> (query = "idle")
-----------------------------------------------------------------------------
(* The inductive invariant behind the safety properties, proved in          *)
(* DeviceQuery_proofs.                                                      *)

Reading == {"look", "peek", "read", "close_pipe"}
Waiting == {"wait", "waited", "settle"}

(* What is open where.                                                      *)
OpenInv ==
  /\ query \in {"idle", "start", "parse", "next", "pipe"} => handles = {}
  /\ query \in {"inherit", "attributes"} => handles = {"read", "write"}
  /\ query = "create" =>
       handles = IF command = "push" THEN {} ELSE {"read", "write", "attributes"}
  /\ query \in Reading => handles = {"read", "process"}
  /\ query \in Waiting => handles = {"process"}
  /\ child = "running" => query \in Reading \cup Waiting

(* Who the token may hold, and what its interruption means.                 *)
TokenInv ==
  /\ held => query \in {"look", "peek", "read", "waited"} /\ ~interrupted
  /\ query \in Reading \cup Waiting => (killed => interrupted)
  /\ interrupted => cancelled \/ result = "timed_out" \/ query = "idle"
  /\ result = "cancelled" \/ status = "cancelled" => cancelled
  /\ result = "timed_out" \/ status = "timed_out" => expired
  /\ query \notin {"idle", "read", "close_pipe", "waited", "settle"} =>
       result \in {"none", "success"}
  /\ query = "settle" /\ result = "success" => child # "running"
  /\ query = "waited" /\ result = "success" => child # "running"
  /\ result = "exit_code" =>
       ~killed /\ child # "running" /\ query \in {"waited", "settle", "idle"}

(* The entry a device gets.                                                 *)
Entry(d) == IF d \in ready THEN "probed" ELSE IF d \in listed THEN "listed" ELSE "none"

(* How far the loop has come.                                               *)
LoopInv ==
  /\ query # "idle" => status = "none"
  /\ query = "start" => command = "list"
  /\ query \in {"pipe", "inherit", "attributes"} \cup Reading => command # "push"
  /\ query = "parse" => command # "push"
  /\ ready \subseteq listed /\ todo \subseteq listed
  /\ query \notin {"idle", "next"} /\ command = "list" =>
       listed = {} /\ todo = {} /\ current = None /\ infos = Nothing
  /\ query \notin {"idle", "next"} /\ command # "list" => current \in ready \ todo
  /\ query \notin {"idle", "next"} =>
       \A d \in Devices : infos[d] = IF d \in todo \cup {current} THEN "none" ELSE Entry(d)
  /\ query = "next" => \A d \in Devices : infos[d] = IF d \in todo THEN "none" ELSE Entry(d)
  /\ status = "success" =>
       current = None /\ \A d \in Devices : cached[d] = Entry(d)
  /\ query = "idle" /\ status \notin {"none", "success"} /\ current # None =>
       infos[current] = "none"

QueryInv == OpenInv /\ TokenInv /\ LoopInv
=============================================================================
