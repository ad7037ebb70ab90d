-------------------------------- MODULE MCBot --------------------------------
(***************************************************************************)
(* One chat for TLC.  The constants are numbers, given in the .cfg files.  *)
(***************************************************************************)
EXTENDS Bot
=============================================================================
