------------------------------ MODULE Keycodes ------------------------------
(***************************************************************************)
(* How keyboard_handler (drivers/keyboard.c) turns the bytes of a PS/2     *)
(* keyboard, scan code set 1, into characters.  The keyboard is modelled   *)
(* from outside: it sends a key's make code when the key goes down and     *)
(* while it is held, its break code when it goes up, extended keys with    *)
(* the prefix E0, and pretends that Shift is released around an extended   *)
(* key, with the codes E0 2A and E0 AA.                                    *)
(***************************************************************************)
EXTENDS Integers, Sequences

CONSTANTS
  Repeats,    \* how often a held key may repeat its make code
  InFlight    \* bound on the bytes the handler has not read: no key is
              \* touched while there are more

KeycodesOK == {Repeats, InFlight} \subseteq Nat

Prefix == \hE0
BreakBit == 128

Keys == {"LSHIFT", "RSHIFT", "CAPSLOCK", "NUMLOCK", "A", "KP_7", "HOME", "KP_ENTER"}
Extended == {"HOME", "KP_ENTER"}

VARIABLES
  extended,    \* is_extended
  shiftL, shiftR, capsLock, numLock,  \* shift_l, shift_r, caps_lock, num_lock
  typed,       \* the last character handed to kbd_push, or None
  wire,        \* the bytes the keyboard has sent and the handler has not read
  down,        \* the keys that are held down
  repeated,    \* how often the last key pressed has repeated
  capsOn       \* history: Caps Lock was pressed an odd number of times

keycodeVars == <<extended, shiftL, shiftR, capsLock, numLock, typed, wire, down,
          repeated, capsOn>>

None == "none"

\* The code of each key, in scan_code_map or behind the prefix.
Code == [key \in Keys |->
  CASE key = "LSHIFT" -> \h2A [] key = "RSHIFT" -> \h36 [] key = "CAPSLOCK" -> \h3A
    [] key = "NUMLOCK" -> \h45 [] key = "A" -> \h1E [] key \in {"KP_7", "HOME"} -> \h47
    [] key = "KP_ENTER" -> \h1C]

KeycodesTypeOK ==
  /\ {extended, shiftL, shiftR, capsLock, numLock, capsOn} \subseteq BOOLEAN
  /\ typed \in {"a", "A", "7", "newline", None}
  /\ wire \in Seq(0..255)
  /\ down \subseteq Keys
  /\ repeated \in 0..Repeats

\* init_keyboard
KeycodesInit ==
  /\ extended = FALSE
  /\ shiftL = FALSE /\ shiftR = FALSE
  /\ capsLock = FALSE
  /\ numLock = TRUE
  /\ typed = None
  /\ wire = <<>>
  /\ down = {}
  /\ repeated = 0
  /\ capsOn = FALSE
-----------------------------------------------------------------------------
(* keyboard_handler                                                         *)

\* resolve_keycode
Keycode(code, ext) ==
  LET keys == {key \in Keys : Code[key] = code /\ (key \in Extended <=> ext)} IN
    IF keys = {} THEN "UNKNOWN" ELSE CHOOSE key \in keys : TRUE

\* Mutant of Character: letters do not look at Caps Lock.
CharacterNoCaps(key, shift, caps, num) ==
  IF key = "A" THEN IF shift THEN "A" ELSE "a" ELSE None

\* keycode_to_char
Character(key, shift, caps, num) ==
  CASE key = "A" -> IF shift # caps THEN "A" ELSE "a"
    [] key = "KP_7" /\ num /\ ~shift -> "7"
    [] key = "KP_ENTER" -> "newline"
    [] OTHER -> None

\* The new state of a shift key, when an event of the given key arrives.
HeldDown(was, key, shiftKey, released) == IF key = shiftKey THEN ~released ELSE was

\* An interrupt, with the oldest byte.
Handle ==
  /\ wire # <<>>
  /\ wire' = Tail(wire)
  /\ UNCHANGED <<down, repeated, capsOn>>
  /\ IF Head(wire) = Prefix
     THEN extended' = TRUE /\ UNCHANGED <<shiftL, shiftR, capsLock, numLock, typed>>
     ELSE LET released == Head(wire) >= BreakBit
              key == Keycode(Head(wire) % BreakBit, extended)
          IN /\ shiftL' = HeldDown(shiftL, key, "LSHIFT", released)
             /\ shiftR' = HeldDown(shiftR, key, "RSHIFT", released)
             /\ capsLock' = (capsLock # (key = "CAPSLOCK" /\ ~released))
             /\ numLock' = (numLock # (key = "NUMLOCK" /\ ~released))
             /\ typed' = IF released THEN None
                         ELSE Character(key, shiftL' \/ shiftR', capsLock', numLock')
             /\ extended' = FALSE
-----------------------------------------------------------------------------
(* The keyboard, from outside.                                              *)

ShiftsDown == {Code[key] : key \in down \cap {"LSHIFT", "RSHIFT"}}

\* What a press or a release of the key sends.
Sends(key, break) ==
  LET code == <<Code[key] + break>>
      fake(b) == IF ShiftsDown = {} THEN <<>>
                 ELSE <<Prefix, (CHOOSE c \in ShiftsDown : TRUE) + b>>
  IN IF key \notin Extended THEN code
     ELSE IF break = 0 THEN fake(BreakBit) \o <<Prefix>> \o code
     ELSE <<Prefix>> \o code \o fake(0)

Idle == Len(wire) <= InFlight /\ UNCHANGED <<extended, shiftL, shiftR, capsLock, numLock, typed>>

Press(key) ==
  /\ Idle
  /\ key \notin down
  /\ down' = down \cup {key}
  /\ wire' = wire \o Sends(key, 0)
  /\ repeated' = 0
  /\ capsOn' = (capsOn # (key = "CAPSLOCK"))

Repeat(key) ==
  /\ Idle
  /\ key \in down
  /\ repeated < Repeats
  /\ repeated' = repeated + 1
  /\ wire' = wire \o Sends(key, 0)
  /\ UNCHANGED <<down, capsOn>>

Release(key) ==
  /\ Idle
  /\ key \in down
  /\ down' = down \ {key}
  /\ wire' = wire \o Sends(key, BreakBit)
  /\ repeated' = Repeats
  /\ UNCHANGED capsOn

KeycodesNext == Handle \/ \E key \in Keys : Press(key) \/ Repeat(key) \/ Release(key)

KeycodesSpec == KeycodesInit /\ [][KeycodesNext]_keycodeVars
-----------------------------------------------------------------------------
(* Properties                                                               *)

Settled == wire = <<>>

\* A letter is a capital exactly when one of Shift and Caps Lock applies at
\* the moment the key goes down, whatever is in flight (keyboard.c:160-162).
LettersMatchShift ==
  [][Settled' /\ typed' \in {"a", "A"} /\ typed' # typed
       => (typed' = "A") = ((down \cap {"LSHIFT", "RSHIFT"} # {}) # capsLock)]_keycodeVars

\* Caps Lock changes once per press of its key.
CapsTracksPresses == Settled => capsLock = capsOn
=============================================================================
