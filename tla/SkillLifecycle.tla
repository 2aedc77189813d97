--------------------------- MODULE SkillLifecycle ---------------------------
(***************************************************************************)
(* What the hub promises about the visibility of a published skill, with   *)
(* no queue, lease, worker or retry in sight.  A publication waits for     *)
(* review or is listed at once; scanner evidence arrives at most once and  *)
(* decides the publication when policy lets it; an administrator decides   *)
(* the rest, and can only list what has evidence that is not malicious.    *)
(* ScanQueue implements this specification.                                *)
(***************************************************************************)
CONSTANT Skills

VARIABLES
  status,     \* visibility of each skill version
  tierCD,     \* whether its manifest declares Tier C or Tier D actions
  evidence,   \* what the scanner said of it
  lister      \* who listed it: "nobody", "author", "scanner" or "admin"

vars == <<status, tierCD, evidence, lister>>

Final == {"clean", "malicious", "inconclusive"}

Init ==
  /\ status   = [s \in Skills |-> "absent"]
  /\ tierCD   = [s \in Skills |-> FALSE]
  /\ evidence = [s \in Skills |-> "none"]
  /\ lister   = [s \in Skills |-> "nobody"]

\* A publication that asked for a scan waits for it; only one that did not,
\* and declares no Tier C or D action, may be listed by its own publication.
Publish(s) ==
  /\ status[s] = "absent"
  /\ \E tier \in BOOLEAN : tierCD' = [tierCD EXCEPT ![s] = tier]
  /\ \/ /\ status'   = [status EXCEPT ![s] = "pending_review"]
        /\ \E e \in {"none", "awaited"} : evidence' = [evidence EXCEPT ![s] = e]
        /\ lister' = lister
     \/ /\ ~tierCD'[s]
        /\ status' = [status EXCEPT ![s] = "listed"]
        /\ lister' = [lister EXCEPT ![s] = "author"]
        /\ evidence' = evidence

\* The verdict and the decision it forces are one step.
Verdict(s, v) ==
  /\ evidence[s] = "awaited"
  /\ evidence' = [evidence EXCEPT ![s] = v]
  /\ tierCD' = tierCD
  /\ IF status[s] = "pending_review" /\ v = "clean" /\ ~tierCD[s]
     THEN /\ status' = [status EXCEPT ![s] = "listed"]
          /\ lister' = [lister EXCEPT ![s] = "scanner"]
     ELSE /\ lister' = lister
          /\ status' = IF status[s] = "pending_review" /\ v = "malicious"
                       THEN [status EXCEPT ![s] = "rejected"] ELSE status

Approve(s) ==
  /\ status[s] = "pending_review"
  /\ evidence[s] \in {"none", "clean", "inconclusive"}
  /\ status' = [status EXCEPT ![s] = "listed"]
  /\ lister' = [lister EXCEPT ![s] = "admin"]
  /\ UNCHANGED <<tierCD, evidence>>

Reject(s) ==
  /\ status[s] = "pending_review"
  /\ status' = [status EXCEPT ![s] = "rejected"]
  /\ UNCHANGED <<tierCD, evidence, lister>>

Unlist(s) ==
  /\ status[s] = "listed"
  /\ status' = [status EXCEPT ![s] = "unlisted"]
  /\ UNCHANGED <<tierCD, evidence, lister>>

Next ==
  \E s \in Skills :
    \/ Publish(s)
    \/ \E v \in Final : Verdict(s, v)
    \/ Approve(s)
    \/ Reject(s)
    \/ Unlist(s)

Spec == Init /\ [][Next]_vars
=============================================================================
