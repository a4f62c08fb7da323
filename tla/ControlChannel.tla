---------------------------- MODULE ControlChannel ----------------------------
(***************************************************************************)
(* What goes over a session's control socket besides the settings: the     *)
(* mouse and key events of OBS's interaction window, translated by scrcpy  *)
(* (srccpy.cpp:519-792) and encoded by control_msg.cpp, and the errors the *)
(* device reports, queued by the receiver and consumed by the tick.        *)
(*                                                                         *)
(* Four threads: OBS's interaction window, the graphics thread (start,     *)
(* retire, tick), the receiver, and the video stream, whose frames set the *)
(* size of the picture.  CaptureSession opens the life of the session; here *)
(* it is its state.                                                        *)
(*                                                                         *)
(* The size of a picture is a number, for its width and for its height; 0  *)
(* stands for a picture not yet seen and for the 1080x1920 sent instead.   *)
(* Positions, pressure, scroll amounts and metastate are copied field by   *)
(* field and left out.                                                     *)
(***************************************************************************)
EXTENDS Naturals, Sequences, FiniteSets

CONSTANTS
  Buttons,      \* mouse buttons
  Codes,        \* Android key codes of the keys of the table
  CharSizes,    \* bytes of a UTF-8 character
  MaxChars,     \* bound: characters of one text
  TextMax,      \* SC_CONTROL_MSG_INJECT_TEXT_MAX_LENGTH, 300
  Cap,          \* error messages kept by a session, 8
  MaxSize,      \* bound: sizes the picture may take
  MaxSessions   \* bound: sessions started

ASSUME TextAssumption ==
  /\ CharSizes \subseteq Nat \ {0} /\ TextMax \in Nat /\ MaxChars \in Nat
  /\ \A size \in CharSizes : size <= TextMax
ASSUME BoundAssumption == Cap \in Nat \ {0} /\ MaxSize \in Nat /\ MaxSessions \in Nat

VARIABLES
  session, generation,   \* the session of the source; sessions started
  graphics,              \* where the graphics thread is
  usb,                   \* usb_debug_enable
  errors,                \* error_messages_
  width, height,         \* of the session's output
  ui, event, which,      \* the mouse event being handled; the button it is about
  mods, size,            \* the buttons OBS says are held; the size read for it
  buttons, keys,         \* what the user holds
  told, pointer, codes,  \* the device: whether and which buttons it was told; key codes
  complained, dropped,   \* history: the device refused input; that was lost in the queue
  turned,                \* history: the picture changed size during the event
  typed, stuck, lifted   \* history of keys: see HandleKey

life     == <<session, generation>>
incoming == <<usb, errors, complained, dropped>>
picture  == <<width, height, turned>>
handling == <<ui, event, which, mods, size>>
user     == <<buttons, keys>>
device   == <<told, pointer, codes, typed, stuck, lifted>>
vars     == <<life, graphics, incoming, picture, handling, user, device>>

(* Two keys of the keyboard may have one code: both Shift keys, both Ctrl.  *)
Keys  == Codes \X {1, 2}
Texts == UNION {[1..n -> CharSizes] : n \in 1..MaxChars}
Reports == {"security", "other"}

Clicks  == {"down", "up"}

FlagsTyped ==
  /\ usb \in BOOLEAN /\ complained \in BOOLEAN /\ dropped \in BOOLEAN
  /\ turned \in BOOLEAN /\ told \in BOOLEAN

PlacesTyped ==
  /\ session \in {"none", "starting", "healthy", "broken", "faulted", "stopping"}
  /\ generation \in 0..MaxSessions
  /\ graphics \in {"idle", "start", "reset", "judge"}
  /\ errors \in Seq(Reports) /\ Len(errors) <= Cap
  /\ width \in 0..MaxSize /\ height \in 0..MaxSize
  /\ ui \in {"idle", "width", "height", "send"}
  /\ event \in {"none", "move", "wheel"} \cup Clicks
  /\ which \subseteq Buttons /\ mods \subseteq Buttons /\ size \in (0..MaxSize) \X (0..MaxSize)
  /\ buttons \subseteq Buttons /\ keys \subseteq Keys
  /\ pointer \subseteq Buttons
  /\ codes \subseteq Codes /\ typed \subseteq Keys
  /\ stuck \subseteq Codes /\ lifted \subseteq Codes

TypeOK == FlagsTyped /\ PlacesTyped

Init ==
  /\ session = "none" /\ generation = 0 /\ graphics = "idle"
  /\ usb = FALSE /\ errors = <<>> /\ complained = FALSE /\ dropped = FALSE
  /\ width = 0 /\ height = 0 /\ turned = FALSE
  /\ ui = "idle" /\ event = "none" /\ which = {} /\ mods = {} /\ size = <<0, 0>>
  /\ buttons = {} /\ keys = {}
  /\ told = FALSE /\ pointer = {}
  /\ codes = {} /\ typed = {} /\ stuck = {} /\ lifted = {}

(* A device is followed from its first message to the end of the            *)
(* connection.                                                              *)
Forget ==
  /\ told' = FALSE /\ pointer' = {}
  /\ codes' = {} /\ typed' = {} /\ stuck' = {} /\ lifted' = {}

-----------------------------------------------------------------------------
(* The graphics thread.                                                     *)

(* start_session(): a new session, with an output and a queue of its own.   *)
Start ==
  /\ graphics = "idle" /\ session = "none" /\ generation < MaxSessions
  /\ session' = "starting" /\ generation' = generation + 1
  /\ graphics' = "start"
  /\ errors' = <<>> /\ complained' = FALSE /\ dropped' = FALSE
  /\ width' = 0 /\ height' = 0 /\ turned' = (ui # "idle")
  /\ UNCHANGED <<usb, handling, user, device>>

\* Variant: the flag of a session outlives it.
StopSession_KeepFlag == session' = "stopping" /\ UNCHANGED usb

(* stop_session(): the session is retired and the flag goes down with it.   *)
StopSession == session' = "stopping" /\ usb' = FALSE

(* start() fails.                                                           *)
StartFails ==
  /\ graphics = "start" /\ session \in {"starting", "faulted"}
  /\ StopSession /\ graphics' = "idle"
  /\ UNCHANGED <<generation, errors, complained, dropped, picture, handling, user, device>>

(* mark_running(): from here on other threads may send.                     *)
MarkRunning ==
  /\ graphics = "start" /\ session = "starting"
  /\ session' = "healthy" /\ graphics' = "reset"
  /\ UNCHANGED <<generation, incoming, picture, handling, user, device>>

(* usb_debug_enable.store(params.control), which is always true.            *)
ResetFlag ==
  /\ graphics = "reset" /\ graphics' = "idle"
  /\ usb' = TRUE
  /\ UNCHANGED <<life, errors, complained, dropped, picture, handling, user, device>>

(* Settings that stop the session, or a message of theirs that fails.       *)
Retire ==
  /\ graphics = "idle" /\ session \in {"healthy", "broken", "faulted"}
  /\ StopSession /\ Forget
  /\ UNCHANGED <<generation, graphics, errors, complained, dropped, picture, handling, user>>

(* take_error_messages(), and handle_error_message() for each: the refusal  *)
(* to inject input clears the flag.                                         *)
TakeErrors ==
  /\ errors' = <<>>
  /\ usb' = (usb /\ ~\E i \in 1..Len(errors) : errors[i] = "security")

(* consume_session_events(), for the active session.                        *)
Take ==
  /\ graphics = "idle" /\ session \in {"healthy", "broken", "faulted"}
  /\ graphics' = "judge"
  /\ TakeErrors
  /\ UNCHANGED <<life, complained, dropped, picture, handling, user, device>>

(* Its rest: a faulted session is stopped and, retiring now, has its errors *)
(* taken once more; a retiring one is let go of when its threads have ended. *)
Judge ==
  /\ graphics' = "idle"
  /\ \/ /\ graphics = "judge" /\ session \in {"healthy", "broken"}
        /\ UNCHANGED <<session, usb, errors>>
     \/ /\ graphics = "judge" /\ session = "faulted"
        /\ StopSession
        /\ errors' = <<>>
     \/ /\ graphics = "idle" /\ session = "stopping"
        /\ session' = "stopping" \/ (session' = "none" /\ width = height)
        /\ TakeErrors
  /\ UNCHANGED <<generation, complained, dropped, picture, handling, user, device>>

-----------------------------------------------------------------------------
(* The session's other threads.                                             *)

(* The connection breaks: the code takes it for healthy until a thread sees *)
(* the end of its stream.                                                   *)
Break ==
  /\ session = "healthy"
  /\ session' = "broken" /\ Forget
  /\ UNCHANGED <<generation, graphics, incoming, picture, handling, user>>

(* A stream or the receiver ends, by an error or by a message that the      *)
(* receiver does not know or finds too long (controller.cpp:25-44).         *)
Fault ==
  /\ session \in {"starting", "healthy", "broken"}
  /\ session' = "faulted" /\ Forget
  /\ UNCHANGED <<generation, graphics, incoming, picture, handling, user>>

(* A full queue loses its oldest message.                                   *)
Keep(queue, report) ==
  Append(IF Len(queue) = Cap THEN Tail(queue) ELSE queue, report)

(* on_error_message().  One that has passed the test for cancellation may   *)
(* still be kept when the session stops.                                    *)
Receive(report) ==
  /\ session \in {"starting", "healthy", "faulted", "stopping"}
  /\ errors' = Keep(errors, report)
  /\ complained' = (complained \/ report = "security")
  /\ dropped' = (dropped \/ (Len(errors) = Cap /\ errors[1] = "security"))
  /\ UNCHANGED <<life, graphics, usb, picture, handling, user, device>>

(* A frame of another size: its width is stored, then its height.           *)
FrameWidth ==
  /\ session \in {"starting", "healthy", "broken", "faulted"} /\ width = height
  /\ width' \in (1..MaxSize) \ {width}
  /\ turned' = (ui # "idle")
  /\ UNCHANGED <<life, graphics, incoming, height, handling, user, device>>

FrameHeight ==
  /\ session # "none" /\ width # height
  /\ height' = width /\ turned' = (ui # "idle")
  /\ UNCHANGED <<life, graphics, incoming, width, handling, user, device>>

-----------------------------------------------------------------------------
(* From events to messages.                                                 *)

(* The bytes before character n + 1.                                        *)
Offset(text) ==
  LET offset[n \in 0..Len(text)] == IF n = 0 THEN 0 ELSE offset[n - 1] + text[n]
  IN offset

Largest(S) == CHOOSE x \in S : \A y \in S : y <= x

(* sc_str_utf8_truncation_index(): from the limit back to a byte that       *)
(* begins a character, or to the beginning.                                 *)
TruncationIndex(text) ==
  LET offset == Offset(text)
      length == offset[Len(text)]
      Continues(i) == \A n \in 0..Len(text) : offset[n] # i
  IN IF length <= TextMax THEN length
     ELSE Largest({i \in 0..TextMax : i = 0 \/ ~Continues(i)})

(* The buttons in the message: send_mouse_click() corrects what OBS says.   *)
Pressed ==
  CASE event = "down" -> mods \cup which
    [] event = "up"   -> mods \ which
    [] OTHER          -> mods

(* Its action: a move without buttons is a hover.                           *)
Action == IF event = "move" /\ Pressed = {} THEN "hover" ELSE event

(* send_control_msg(): only a healthy session is sent to, and in vain when  *)
(* the connection is broken; nobody looks at the result.                    *)
Reaches == session = "healthy"

-----------------------------------------------------------------------------
(* The mouse in the interaction window.                                     *)

MouseUnchanged == UNCHANGED <<life, graphics, incoming, width, height, keys, codes, typed, stuck, lifted>>

Begin(e, about, held) ==
  /\ ui = "idle" /\ ui' = "width"
  /\ event' = e /\ which' = about /\ mods' = held /\ size' = <<0, 0>> /\ turned' = (width # height)
  /\ UNCHANGED <<told, pointer>> /\ MouseUnchanged

(* send_mouse_click() is called.  OBS may count the button among those held *)
(* or not yet.                                                              *)
Click(b) ==
  /\ buttons' = IF b \in buttons THEN buttons \ {b} ELSE buttons \cup {b}
  /\ \E held \in {buttons, buttons'} :
       Begin(IF b \in buttons THEN "up" ELSE "down", {b}, held)

(* send_mouse_move(), send_mouse_wheel(); leaving the window sends nothing. *)
MoveOrTurn(kind) ==
  /\ Begin(kind, {}, buttons)
  /\ UNCHANGED buttons

(* get_width(); without an active session it is what the last one ended at, *)
(* as good as any, since nothing is sent before the next.                   *)
ReadWidth ==
  /\ ui = "width" /\ ui' = "height"
  /\ size' = <<width, size[2]>>
  /\ UNCHANGED <<event, which, mods, turned, buttons, told, pointer>> /\ MouseUnchanged

\* Variant: the height is what the last tick copied.
ReadHeight_Last ==
  /\ ui = "height" /\ ui' = "send"
  /\ \E last \in {0, height} : size' = <<size[1], last>>
  /\ UNCHANGED <<event, which, mods, turned, buttons, told, pointer>> /\ MouseUnchanged

(* get_height(): a look of its own.                                         *)
ReadHeight ==
  /\ ui = "height" /\ ui' = "send"
  /\ size' = <<size[1], height>>
  /\ UNCHANGED <<event, which, mods, turned, buttons, told, pointer>> /\ MouseUnchanged

(* The message is sent; the device does as it is told.                      *)
SendMouse ==
  /\ ui = "send" /\ ui' = "idle"
  /\ event' = "none" /\ which' = {} /\ mods' = {} /\ size' = <<0, 0>> /\ turned' = FALSE
  /\ IF Reaches THEN told' = TRUE /\ pointer' = Pressed
     ELSE UNCHANGED <<told, pointer>>
  /\ UNCHANGED buttons /\ MouseUnchanged

-----------------------------------------------------------------------------
(* The keyboard in the interaction window.  An event has a key, or one that *)
(* is not in the table, and is "plain" unless it brings a text that is not  *)
(* ASCII or comes from an input method.                                     *)

(* What the user's keys have come to: "typed" are the keys held that were   *)
(* pressed as keys in this session, "stuck" the codes whose key was         *)
(* released as a text, "lifted" those a second key of the code released.    *)
FollowKey(key, plain, up) ==
  LET code == key[1] IN
  /\ typed' = IF up THEN typed \ {key} ELSE IF plain THEN typed \cup {key} ELSE typed
  /\ stuck' = IF ~up THEN stuck
              ELSE IF plain THEN stuck \ {code}
              ELSE IF key \in typed THEN stuck \cup {code} ELSE stuck
  /\ lifted' = IF ~plain THEN lifted
               ELSE IF ~up THEN lifted \ {code}
               ELSE IF \E other \in typed \ {key} : other[1] = code THEN lifted \cup {code}
               ELSE lifted

\* Variant: a press is sent as a key besides its text.
InjectKeycode_Both(key, plain, up) ==
  codes' = IF ~up THEN codes \cup {key[1]}
           ELSE IF plain THEN codes \ {key[1]} ELSE codes

(* The keycode message; an event with a text has none.                      *)
InjectKeycode(key, plain, up) ==
  codes' = IF ~plain THEN codes
           ELSE IF up THEN codes \ {key[1]} ELSE codes \cup {key[1]}

(* send_key_click(), for a key of the table.  It reads nothing but the      *)
(* event, so it is one step.                                                *)
KeyClick(key, plain, up) ==
  /\ (key \in keys) = up
  /\ keys' = IF up THEN keys \ {key} ELSE keys \cup {key}
  /\ IF Reaches THEN InjectKeycode(key, plain, up) /\ FollowKey(key, plain, up)
     ELSE UNCHANGED <<codes, typed, stuck, lifted>>
  /\ UNCHANGED <<life, graphics, incoming, picture, handling, buttons, told, pointer>>

-----------------------------------------------------------------------------
Graphics == Start \/ StartFails \/ MarkRunning \/ ResetFlag \/ Retire \/ Take \/ Judge

Streams == Break \/ Fault \/ FrameWidth \/ FrameHeight \/ \E r \in Reports : Receive(r)

Window ==
  \/ \E b \in Buttons : Click(b)
  \/ \E kind \in {"move", "wheel"} : MoveOrTurn(kind)
  \/ ReadWidth \/ ReadHeight \/ SendMouse
  \/ \E key \in Keys, plain \in BOOLEAN, up \in BOOLEAN : KeyClick(key, plain, up)

Next == Graphics \/ Streams \/ Window
Spec == Init /\ [][Next]_vars

-----------------------------------------------------------------------------
(* While input gets through, the device holds what the user holds: the same *)
(* buttons from the first pointer event on, no code without a key, and the  *)
(* code of every key pressed.  Two exceptions of the code (srccpy.cpp:770-  *)
(* 792): a key released as a text leaves its code down, and one of two keys *)
(* with one code releases it for both.                                      *)
InputMatches ==
  Reaches =>
    /\ told /\ ui = "idle" => pointer = buttons
    /\ \A code \in codes : code \in stuck \/ \E key \in keys : key[1] = code
    /\ \A key \in typed : key \in keys /\ (key[1] \in codes \/ key[1] \in lifted)

(* A pointer message that is about to be sent makes sense by itself: a      *)
(* button that goes down is among those held, one that goes up is not, only *)
(* a pointer without buttons hovers, and the size its position refers to is *)
(* that of the picture, unless the picture changed around the two looks at  *)
(* it (srccpy.cpp:674-675).                                                 *)
PointerIsSound ==
  ui = "send" /\ Reaches =>
    /\ event \in Clicks => (which \subseteq Pressed <=> Action = "down")
    /\ event = "move" => (Action = "hover" <=> buttons = {})
    /\ turned \/ size = <<width, height>>

(* A text is cut to the longest run of whole characters within the limit    *)
(* (control_msg.cpp:86).                                                    *)
TextIsWhole ==
  \A text \in Texts : \E n \in 0..Len(text) :
    LET offset == Offset(text) IN
    /\ TruncationIndex(text) = offset[n] /\ offset[n] <= TextMax
    /\ n = Len(text) \/ offset[n + 1] > TextMax

MessageIsSound == PointerIsSound /\ TextIsWhole

Active == session \in {"healthy", "broken", "faulted"}

(* The warning of the interaction window (srccpy.cpp:476) is about this     *)
(* session: while one is active the flag is down only if its device refused *)
(* input, and once the device has, the flag is down, or the report still    *)
(* waits, or newer ones have pushed it out of the queue                     *)
(* (capture_session.cpp:518).  It is never up on behalf of a session that   *)
(* is starting, stopping or gone, whatever that one's threads still report. *)
FlagTells ==
  /\ Active /\ graphics \in {"idle", "judge"} /\ ~usb => complained
  /\ usb => Active
  /\ complained /\ usb => dropped \/ \E i \in 1..Len(errors) : errors[i] = "security"

(* What is true besides: where the graphics thread is by the session's      *)
(* state, that a report waits only after a complaint, and that a complaint  *)
(* that comes while the session starts is not taken before the flag is up;  *)
GraphicsInv ==
  /\ session = "starting" => graphics = "start"
  /\ graphics = "start"   => session \in {"starting", "faulted"}
  /\ graphics \in {"reset", "judge"} => session \in {"healthy", "broken", "faulted"}
  /\ \A i \in 1..Len(errors) : errors[i] = "security" => complained
  /\ graphics \in {"start", "reset"} /\ complained =>
       dropped \/ \E i \in 1..Len(errors) : errors[i] = "security"

(* that a device is only followed while input gets through, that a key in   *)
(* "typed" stands for every code that is down, and that the message under   *)
(* way has the user's buttons;                                              *)
InputInv ==
  /\ ~Reaches => ~told /\ pointer = {} /\ codes = {} /\ typed = {}
  /\ typed \subseteq keys
  /\ \A code \in codes : code \in stuck \/ \E key \in typed : key[1] = code
  /\ \A key \in typed : key[1] \in codes \/ key[1] \in lifted
  /\ ui = "idle" /\ told => pointer = buttons
  /\ ui # "idle" => Pressed = buttons /\ event # "none"
  /\ event \in Clicks => (event = "down" <=> which \subseteq buttons) /\ which # {}

(* and what the look at the picture has found so far.                       *)
LookInv ==
  /\ ui = "width"  => turned \/ width = height
  /\ ui = "height" => turned \/ (width = height /\ size[1] = width)
  /\ ui = "send"   => turned \/ size = <<width, height>>

ChannelInv == GraphicsInv /\ FlagTells /\ InputInv /\ LookInv
=============================================================================
