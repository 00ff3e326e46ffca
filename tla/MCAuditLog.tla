----------------------------- MODULE MCAuditLog -----------------------------
(* Two tasks on one run, as the audit hook and the credential broker are, and  *)
(* a third on a run of its own; three appends; one restart.                     *)
EXTENDS AuditLog

CONSTANTS hook, broker, capture, migration, schema_update

MCWriter == {hook, broker, capture}

MCRun == {migration, schema_update}

MCRunOf == [w \in MCWriter |-> IF w = capture THEN schema_update ELSE migration]
\* One task alone, on a run that is continued after a restart.
MCContinued == {hook}

MCContinuedRunOf == [w \in MCContinued |-> migration]
=============================================================================
