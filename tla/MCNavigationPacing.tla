------------------------- MODULE MCNavigationPacing -------------------------
(***************************************************************************)
(* Small instances of NavigationPacing: values are given in the cfgs.      *)
(***************************************************************************)
EXTENDS NavigationPacing
=============================================================================
