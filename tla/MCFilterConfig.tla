--------------------------- MODULE MCFilterConfig ---------------------------
(***************************************************************************)
(* Instances of FilterConfig for TLC.  Text 9 is the one of the default    *)
(* condition, which no other condition has.                                *)
(***************************************************************************)
EXTENDS FilterConfig

MCNoPairs == {}
=============================================================================
