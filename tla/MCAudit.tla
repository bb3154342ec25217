-------------------------------- MODULE MCAudit --------------------------------
(***************************************************************************)
(* One audit of each input, without signing files.                         *)
(***************************************************************************)
EXTENDS AuditInputs

MCNoSupplies == {NoSupplies}
==============================================================================
