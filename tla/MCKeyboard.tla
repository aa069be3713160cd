----------------------------- MODULE MCKeyboard ------------------------------
(* The keyboard on a small instance: two keys with a character, one dead    *)
(* key, PrintScreen, and calls nested up to a popup inside a popup.  There  *)
(* is no symmetry: the same run checks liveness.                            *)
EXTENDS Keyboard
=============================================================================
