---------------------------- MODULE MCLegacyWatch ----------------------------
(* A watcher, a build, and two directories. *)
EXTENDS LegacyWatch

CONSTANTS watcher, builder, d1, d2, none, stale
=============================================================================
