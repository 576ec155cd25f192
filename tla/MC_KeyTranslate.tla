------------------------------- MODULE MC_KeyTranslate -------------------------------
EXTENDS KeyTranslate

(* Every uint16_t value.                                                  *)
AllUnits == 0..65535

=============================================================================
