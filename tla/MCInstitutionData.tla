------------------------- MODULE MCInstitutionData -------------------------
(* Two imports through importBalanceSheetItems.                               *)
EXTENDS InstitutionData, TLC

CONSTANTS i1, i2

BothFull == (i1 :> "full") @@ (i2 :> "full")
=============================================================================
