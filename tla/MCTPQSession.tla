--------------------------- MODULE MCTPQSession ---------------------------
(***************************************************************************)
(* Small instances of TPQSession for TLC.                                  *)
(***************************************************************************)
EXTENDS TPQSession

\* Everything an application may do, and what a careful one does.
AnyEndpoint == {"good", "bad"}
AnyMask == {"some", "none"}
GoodEndpoint == {"good"}
SomeMask == {"some"}

AllFaults == {"RESTART", "EXPIRE", "INTERNAL"}
OnlyRestart == {"RESTART"}
=============================================================================
