------------------------------ MODULE MCWatcher ------------------------------
(* Two sources and a text of each kind. *)
EXTENDS Watcher

CONSTANTS a, b, good, syntaxError, warning, typeError, none
=============================================================================
