------------------------------ MODULE MCModes ------------------------------
(***************************************************************************)
(* AgilePool in both work modes: the mode of a pool is fixed when the pool *)
(* is made.  The constant NonBlock is FALSE here.                          *)
(***************************************************************************)
EXTENDS MCAgilePool

VARIABLE mode

NonBlocking == INSTANCE AgilePool WITH NonBlock <- TRUE

ModesInit == Init /\ mode \in {"BLOCK", "NONBLOCK"}

ModesNext ==
  \/ mode = "BLOCK" /\ Next /\ UNCHANGED mode
  \/ mode = "NONBLOCK" /\ NonBlocking!Next /\ UNCHANGED mode

ModesSpec == ModesInit /\ [][ModesNext]_<<vars, mode>>
=============================================================================
