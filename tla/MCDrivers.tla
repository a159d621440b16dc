----------------------------- MODULE MCDrivers -----------------------------
(***************************************************************************)
(* Keys for the model of Drivers: both control keys, one of which is       *)
(* extended, a shift key and a lock.                                       *)
(***************************************************************************)
EXTENDS Drivers

MCKeys == {<<FALSE, 29>>, <<TRUE, 29>>, <<FALSE, 42>>, <<FALSE, 58>>}
=============================================================================
