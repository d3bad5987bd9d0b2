------------------------------ MODULE Keyboard ------------------------------
(***************************************************************************)
(* keyboard.c: the IRQ1 handler that turns scancodes into characters, the  *)
(* ring it shares with keyboard_getchar(), and scanf(), which the shell    *)
(* calls in a loop.                                                        *)
(*                                                                         *)
(* The handler runs to its end with interrupts off, so it is one action;   *)
(* the reader is interruptible anywhere and takes a step per access to the *)
(* shared cursors and ring, in the order the unoptimised build makes them. *)
(* The cursors are unsigned: start-1 of start = 0 is no cursor value.      *)
(***************************************************************************)
EXTENDS Naturals, Sequences, FiniteSets

CONSTANTS Keys,   \* the keys of the keyboard that are pressed
          SIZE    \* slots of keyboard_buffer, 256 in the source

NUL == "NUL"
NL  == "NL"

(* keymap_t gb, for one key of each kind: a letter, Enter, and F1, which   *)
(* has no character.                                                       *)
scancodes       == [a |-> "a", enter |-> NL, F1 |-> NUL]
shift_scancodes == [a |-> "A", enter |-> NL, F1 |-> NUL]
control_map     == <<"ctrl", "alt", "altgr", "lshift", "rshift", "caps",
                     "scroll", "num">>

ControlKeys == {control_map[i] : i \in 1..8}
CharKeys    == DOMAIN scancodes
Chars       == {scancodes[k] : k \in CharKeys} \cup {shift_scancodes[k] : k \in CharKeys}

ASSUME KeyboardAssumption ==
  /\ Keys \subseteq ControlKeys \cup CharKeys
  /\ SIZE \in Nat /\ SIZE > 1

VARIABLES
  keyboard_buffer, keyboard_buffer_start, keyboard_buffer_end,
  controls,   \* the keys whose bit is set in current_layout->controls
  held,       \* the control keys that are physically down
  pc,         \* where the reader is
  idx,        \* the value of keyboard_buffer_start++ in keyboard_getchar()
  c,          \* what keyboard_getchar() last returned to scanf()
  lost        \* history: a write made a full buffer look empty

cursors == <<keyboard_buffer, keyboard_buffer_start, keyboard_buffer_end>>
reader  == <<pc, idx, c>>
vars    == <<cursors, controls, held, reader, lost>>

Slots == 0..(SIZE - 1)
Labels == {"shell", "check", "claim", "load", "mask", "use"}

TypeOK ==
  /\ keyboard_buffer \in [Slots -> Chars]
  /\ keyboard_buffer_start \in 0..SIZE /\ keyboard_buffer_end \in Slots
  /\ controls \subseteq ControlKeys /\ held \subseteq ControlKeys
  /\ pc \in Labels /\ idx \in Slots /\ c \in Chars \cup {NUL}
  /\ lost \in BOOLEAN

\* init_keyboard_driver(); the shell has not asked for a line yet.
Init ==
  /\ keyboard_buffer = [i \in Slots |-> NUL]
  /\ keyboard_buffer_start = 0 /\ keyboard_buffer_end = 0
  /\ controls = {} /\ held = {}
  /\ pc = "shell" /\ idx = 0 /\ c = NUL /\ lost = FALSE

-----------------------------------------------------------------------------
\* The IRQ1 handler.

MutNotRightShift == {control_map[i] : i \in 1..4}
DisabledByRelease == {control_map[i] : i \in 1..5}

\* The break code of a key: only the first five control keys act on it.
release(k) ==
  /\ k \in ControlKeys /\ k \in held
  /\ held' = held \ {k}
  /\ controls' = controls \ ({k} \cap DisabledByRelease)
  /\ UNCHANGED <<cursors, reader, lost>>

\* The make code of a control key, also while it is held (typematic repeat):
\* its bit is inverted.
press_control(k) ==
  /\ k \in ControlKeys
  /\ held' = held \cup {k}
  /\ controls' = (controls \ {k}) \cup ({k} \ controls)
  /\ UNCHANGED <<cursors, reader, lost>>

character(k) ==
  IF {"lshift", "rshift", "caps"} \cap controls # {} /\ "ctrl" \notin controls
  THEN shift_scancodes[k]
  ELSE scancodes[k]

\* keyboard_buffer_end != keyboard_buffer_start - 1, in uint32.
MutNoBoundCheck == TRUE
HasRoom == keyboard_buffer_end + 1 # keyboard_buffer_start

MutNoMask(cursor) == cursor + 1
Advance(cursor) == (cursor + 1) % SIZE

\* The make code of any other key.
press_character(k) ==
  /\ k \in CharKeys
  /\ IF HasRoom
     THEN /\ keyboard_buffer' = [keyboard_buffer EXCEPT ![keyboard_buffer_end] = character(k)]
          /\ keyboard_buffer_end' = Advance(keyboard_buffer_end)
          /\ lost' = (lost \/ keyboard_buffer_end' = keyboard_buffer_start)
     ELSE UNCHANGED <<keyboard_buffer, keyboard_buffer_end, lost>>
  /\ UNCHANGED <<keyboard_buffer_start, controls, held, reader>>

keyboard_handler ==
  \E k \in Keys : release(k) \/ press_control(k) \/ press_character(k)

-----------------------------------------------------------------------------
\* scanf() and keyboard_getchar(), on the shell's side.

scanf ==
  /\ pc = "shell" /\ pc' = "check"
  /\ UNCHANGED <<cursors, controls, held, idx, c, lost>>

check ==
  /\ pc = "check"
  /\ IF keyboard_buffer_start # keyboard_buffer_end
     THEN pc' = "claim" /\ c' = c
     ELSE pc' = "use" /\ c' = NUL
  /\ UNCHANGED <<cursors, controls, held, idx, lost>>

\* keyboard_buffer_start++, not yet masked
claim ==
  /\ pc = "claim" /\ pc' = "load"
  /\ idx' = keyboard_buffer_start
  /\ keyboard_buffer_start' = keyboard_buffer_start + 1
  /\ UNCHANGED <<keyboard_buffer, keyboard_buffer_end, controls, held, c, lost>>

load ==
  /\ pc = "load" /\ pc' = "mask"
  /\ c' = keyboard_buffer[idx]
  /\ UNCHANGED <<cursors, controls, held, idx, lost>>

mask ==
  /\ pc = "mask" /\ pc' = "use"
  /\ keyboard_buffer_start' = keyboard_buffer_start % SIZE
  /\ UNCHANGED <<keyboard_buffer, keyboard_buffer_end, controls, held, idx, c, lost>>

\* scanf() ends at the newline; any other character is echoed and stored, and
\* '\0' is passed over.
MutNoNewline(char) == FALSE
EndsLine(char) == char = NL
use ==
  /\ pc = "use"
  /\ pc' = IF EndsLine(c) THEN "shell" ELSE "check"
  /\ UNCHANGED <<cursors, controls, held, idx, c, lost>>

Reader == scanf \/ check \/ claim \/ load \/ mask \/ use

Next == keyboard_handler \/ Reader

Spec == Init /\ [][Next]_vars

\* The shell's task runs on: task_switch gives it the processor again and again
\* (Tasks!RoundRobin).
FairSpec == Spec /\ WF_vars(Reader)

-----------------------------------------------------------------------------
\* The characters between the cursors.
Contents ==
  LET n == (keyboard_buffer_end + SIZE - (keyboard_buffer_start % SIZE)) % SIZE
  IN  [i \in 1..n |-> keyboard_buffer[(keyboard_buffer_start + i - 1) % SIZE]]

(* The slot that keyboard_getchar() has claimed and not yet loaded is not  *)
(* written by the handler, however many keys arrive in between: start has  *)
(* moved on, but the free slot the ring keeps is the claimed one.          *)
InFlightIntact ==
  [][pc = "load" => keyboard_buffer'[idx] = keyboard_buffer[idx]]_vars

(* Handler and reader, interleaved access by access and without a lock,    *)
(* implement the queue for as long as no write has made a full buffer look *)
(* empty: what keyboard_getchar() returns is the oldest character, once.   *)
(* (After such a write between check and claim, the reader steps over the  *)
(* end and finds the old characters again.)                                *)
Queue == INSTANCE CharQueue WITH
           NoChar <- NUL, Capacity <- SIZE - 1, queue <- Contents,
           got <- IF pc = "load" THEN keyboard_buffer[idx] ELSE c
QueueUntilOverrun == Queue!Init /\ [][Queue!Next \/ lost']_(Queue!qvars)

(* When none of Ctrl, Alt, AltGr and the Shift keys is down, none of their *)
(* bits is left set, whatever was pressed, repeated and released before    *)
(* (the first five entries of control_map in the handler's release loop).  *)
NoStuckModifier ==
  \A i \in 1..5 : control_map[i] \in controls => control_map[i] \in held

(* A newline that is in the buffer is returned to the shell as the end of  *)
(* a line, unless an overrun threw it away (scanf's loop).                 *)
LineReturned ==
  [](~lost) => ((\E i \in DOMAIN Contents : Contents[i] = NL) ~> pc = "shell")

(* keyboard.c:288, "Avoid buffer overruns if possible.": no write makes    *)
(* a full buffer look empty.                                               *)
NoOverrun == ~lost
=============================================================================
