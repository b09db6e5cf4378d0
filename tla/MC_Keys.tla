--------------------------------- MODULE MC_Keys ---------------------------------
(***************************************************************************)
(* Keys for TLC: two runs of the applet, one after the other or at once.    *)
(***************************************************************************)
EXTENDS Keys

=============================================================================
