----------------------------- MODULE MCKeyboard -----------------------------
(***************************************************************************)
(* The instance of Keyboard for TLC. A ring of four slots fills, wraps and   *)
(* overruns within a few keys: a letter, Enter and a key that has no       *)
(* character, with two modifiers.                                          *)
(***************************************************************************)
EXTENDS Keyboard

TypingKeys == {"a", "enter", "F1", "ctrl", "rshift"}
=============================================================================
