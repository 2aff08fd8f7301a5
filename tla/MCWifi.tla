-------------------------------- MODULE MCWifi --------------------------------
(***************************************************************************)
(* Wifi for TLC: the circumstances that its runs consider.                 *)
(***************************************************************************)
EXTENDS Wifi

Both == {"set", "forget"}

\* The network may be forgotten at any time while joins and connects fail.
Retrying == [commands |-> {"forget"}, fails |-> {"connect"}, calm |-> FALSE]

\* Commands come one at a time, each when the one before has had its effect.
Orderly == [commands |-> Both, fails |-> {}, calm |-> TRUE]

\* Anything at any time.
Wild == [commands |-> Both, fails |-> {"connect", "disconnect", "start", "config"}, calm |-> FALSE]

AllWorlds == {Retrying, Orderly, Wild}
===============================================================================
