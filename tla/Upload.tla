------------------------------- MODULE Upload -------------------------------
(***************************************************************************)
(* One upload through publish_skill: its archive is inspected, then the    *)
(* metadata its manifest holds is validated and decided on, then the       *)
(* archive is rebuilt around the signed manifest, which is inspected       *)
(* again.  Whatever fails ends it there.  Signatures, the scan, the store  *)
(* and the database are in Publication.                                    *)
(***************************************************************************)
EXTENDS ArchivePaths, SkillContract

uploadVars == <<vars, contractVars>>

UploadInit == Init /\ ContractInit

\* extract_skill_yaml, and the inspection at the end of rebuild_tarball.
Inspection(A) == A /\ UNCHANGED contractVars

\* Of an archive that passed.
Validation(A) ==
  /\ status = "inspected" /\ pass = 1
  /\ A
  /\ UNCHANGED vars

Rebuilding ==
  /\ step = "accepted"
  /\ Rebuild
  /\ UNCHANGED contractVars

UploadNext ==
  \/ \E m \in Members : Inspection(Inspect(m))
  \/ Inspection(Decompress \/ EndOfStream \/ Unreadable)
  \/ \E t \in Triggers : Validation(ReadTrigger(t))
  \/ \E a \in ActionNames, tier \in Tiers : Validation(ReadAction(a, tier))
  \/ \E names \in Lists : Validation(ReadDefaults(names))
  \/ Validation(EndTriggers \/ EndActions \/ Decide \/ FindFault)
  \/ Rebuilding

UploadSpec == UploadInit /\ [][UploadNext]_uploadVars
=============================================================================
