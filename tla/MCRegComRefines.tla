--------------------------- MODULE MCRegComRefines ---------------------------
(* The constants of MCRegCom for the refinement.                           *)
EXTENDS MCRegCom, RegComRefines
=============================================================================
