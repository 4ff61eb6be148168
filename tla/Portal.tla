-------------------------------- MODULE Portal --------------------------------
(***************************************************************************)
(* The portal process, which the hold switch and the Buddy edge both live in: *)
(* what one of them keeps in memory is lost when the other's process is.      *)
(***************************************************************************)
VARIABLE up   \* the process is running
===============================================================================
