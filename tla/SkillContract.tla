---------------------------- MODULE SkillContract ---------------------------
(***************************************************************************)
(* The validation of a skill's metadata in the order the validator reads   *)
(* it (triggers, available actions, the default actions of each trigger),  *)
(* and the decision publishing takes from the result.                      *)
(*                                                                         *)
(* A fault that no later check depends on (a field that is missing or of   *)
(* the wrong type, a repeated sensor, a prompt with too many placeholders, *)
(* a value JSON does not have) may be found at any step.                   *)
(***************************************************************************)
EXTENDS Integers, Sequences

CONSTANTS
  TriggerNames, ActionNames,
  Triggers,     \* the triggers skills declare
  MaxEntries    \* bound: triggers, actions and defaults of one trigger

Tiers == {"A", "B", "C", "D"}
Dashboard == "log_to_dashboard"
NoAction == ""

ASSUME ContractAssumption ==
  /\ MaxEntries \in Nat
  /\ {Dashboard, NoAction} \cap ActionNames = {}
  /\ Triggers \subseteq
       [name       : TriggerNames,
        tier       : Tiers,
        escalation : {"default", "rule", "local_slm", "gateway"},
        bypass     : BOOLEAN,
        reasoning  : {"none", "post_action", "other"},
        approval   : BOOLEAN,
        safe       : ActionNames \cup {Dashboard, NoAction}]

VARIABLES
  step,      \* what is read next, or the outcome
  triggers,  \* the triggers read, the one refused included
  actions,   \* the tiers of the actions declared
  defaults,  \* the default actions of the first triggers
  decision   \* of publish_decision

contractVars == <<step, triggers, actions, defaults, decision>>

NoTiers == [a \in {} |-> "A"]
Escalation(t) ==
  IF t.escalation # "default" THEN t.escalation ELSE IF t.tier = "D" THEN "rule" ELSE "local_slm"

Named(s) == {s[i] : i \in 1..Len(s)}
Refuse == step' = "refused" /\ UNCHANGED decision

-----------------------------------------------------------------------------
(* Triggers.                                                               *)

RuleOnlyTrigger(t) == t.tier = "D" => Escalation(t) = "rule"

TriggerValid(t) ==
  /\ \A i \in 1..Len(triggers) : triggers[i].name # t.name
  /\ RuleOnlyTrigger(t)
  /\ t.bypass => t.tier = "D"
  /\ t.reasoning # "other"
  /\ t.reasoning = "post_action" => t.tier = "B"
  /\ t.tier = "C" => t.safe # NoAction

ReadTrigger(t) ==
  /\ step = "triggers"
  /\ Len(triggers) < MaxEntries
  /\ triggers' = Append(triggers, t)
  /\ IF TriggerValid(t) THEN UNCHANGED <<step, decision>> ELSE Refuse
  /\ UNCHANGED <<actions, defaults>>

EndTriggers ==
  /\ step = "triggers"
  /\ IF triggers # <<>> THEN step' = "actions" /\ UNCHANGED decision ELSE Refuse
  /\ UNCHANGED <<triggers, actions, defaults>>

-----------------------------------------------------------------------------
(* Actions.                                                                *)

ReadAction(a, tier) ==
  /\ step = "actions"
  /\ IF a \in DOMAIN actions THEN Refuse /\ UNCHANGED actions
     ELSE /\ actions' = [b \in DOMAIN actions \cup {a} |-> IF b = a THEN tier ELSE actions[b]]
          /\ UNCHANGED <<step, decision>>
  /\ UNCHANGED <<triggers, defaults>>

\* actions.defaults has a key for each trigger and no other.
EndActions ==
  /\ step = "actions"
  /\ \E keys \in SUBSET TriggerNames :
       IF DOMAIN actions # {} /\ keys = {triggers[i].name : i \in 1..Len(triggers)}
       THEN step' = "defaults" /\ UNCHANGED decision
       ELSE Refuse
  /\ UNCHANGED <<triggers, actions, defaults>>

-----------------------------------------------------------------------------
(* Defaults.                                                               *)

ReferencesValid(t, names) ==
  /\ \A i, j \in 1..Len(names) : names[i] = names[j] => i = j
  /\ Named(names) \subseteq DOMAIN actions
  /\ \A a \in Named(names) : actions[a] = "D" => t.tier = "D"

\* Mutant: whatever is declared is a safe default.
SafeDefaultDeclared(t) == t.tier = "C" /\ t.safe # Dashboard => t.safe \in DOMAIN actions

SafeDefaultValid(t) ==
  t.tier = "C" /\ t.safe # Dashboard => t.safe \in DOMAIN actions /\ actions[t.safe] = "A"

Physical(names) == \E a \in Named(names) : actions[a] = "B"

\* Mutant: only triggers of Tier B are asked for a policy.
PolicyOfTierB(t, names) ==
  Physical(names) /\ t.tier = "B" =>
    \/ t.approval /\ t.reasoning # "post_action"
    \/ t.reasoning = "post_action" /\ \E a \in Named(names) : actions[a] = "A"

PolicyValid(t, names) ==
  Physical(names) /\ t.tier \notin {"C", "D"} =>
    /\ t.approval \/ t.reasoning = "post_action"
    /\ t.reasoning = "post_action" => \E a \in Named(names) : actions[a] = "A"

NotEmpty(names) == names # <<>>

DefaultsValid(t, names) ==
  /\ NotEmpty(names)
  /\ ReferencesValid(t, names)
  /\ SafeDefaultValid(t)
  /\ PolicyValid(t, names)

\* The default actions of the next trigger.
ReadDefaults(names) ==
  /\ step = "defaults"
  /\ Len(defaults) < Len(triggers)
  /\ defaults' = Append(defaults, names)
  /\ IF DefaultsValid(triggers[Len(defaults) + 1], names) THEN UNCHANGED <<step, decision>> ELSE Refuse
  /\ UNCHANGED <<triggers, actions>>

DeclaredTiers == {triggers[i].tier : i \in 1..Len(triggers)} \cup {actions[a] : a \in DOMAIN actions}

\* publish_decision
Decide ==
  /\ step = "defaults"
  /\ Len(defaults) = Len(triggers)
  /\ step' = "accepted"
  /\ decision' = IF DeclaredTiers \cap {"C", "D"} # {} THEN "pending_review" ELSE "listed"
  /\ UNCHANGED <<triggers, actions, defaults>>

FindFault ==
  /\ step \in {"triggers", "actions", "defaults"}
  /\ step' = "faulty"
  /\ UNCHANGED <<triggers, actions, defaults, decision>>

ContractInit ==
  /\ step = "triggers"
  /\ triggers = <<>>
  /\ actions = NoTiers
  /\ defaults = <<>>
  /\ decision = "none"

Lists == UNION {[1..n -> ActionNames] : n \in 0..MaxEntries}

ContractNext ==
  \/ \E t \in Triggers : ReadTrigger(t)
  \/ EndTriggers
  \/ \E a \in ActionNames, tier \in Tiers : ReadAction(a, tier)
  \/ EndActions
  \/ \E names \in Lists : ReadDefaults(names)
  \/ Decide
  \/ FindFault

ContractSpec == ContractInit /\ [][ContractNext]_contractVars

-----------------------------------------------------------------------------
(* Properties.                                                             *)

ContractTypeOK ==
  /\ step \in {"triggers", "actions", "defaults", "accepted", "refused", "faulty"}
  /\ triggers \in Seq(Triggers)
  /\ DOMAIN actions \subseteq ActionNames /\ \A a \in DOMAIN actions : actions[a] \in Tiers
  /\ defaults \in Seq(Lists) /\ Len(defaults) <= Len(triggers)
  /\ step = "accepted" => \A i \in 1..Len(triggers) : i \in 1..Len(defaults) /\ defaults[i] # <<>>
  /\ decision \in {"none", "pending_review", "listed"}

\* What a trigger runs by itself.
Runs(i) == {actions[a] : a \in Named(defaults[i])}
SafeTier(i) == IF triggers[i].safe \in DOMAIN actions THEN {actions[triggers[i].safe]} ELSE {}

\* A skill listed without review has no trigger and no action of Tier C or D, and
\* no trigger of it, of whatever tier, runs a physical action unapproved, unless
\* a notification goes with it.
ListedIsHarmless ==
  decision = "listed" =>
    /\ \A a \in DOMAIN actions : actions[a] \in {"A", "B"}
    /\ \A i \in 1..Len(triggers) :
         /\ triggers[i].tier \in {"A", "B"}
         /\ "B" \in Runs(i) => triggers[i].approval \/ (triggers[i].reasoning = "post_action" /\ "A" \in Runs(i))

\* An action of Tier D is only run by rule, whichever trigger refers to it.
TierDByRule ==
  step = "accepted" =>
    \A i \in 1..Len(triggers) :
      "D" \in Runs(i) \cup {triggers[i].tier} => Escalation(triggers[i]) = "rule" /\ triggers[i].tier = "D"

\* What a Tier C trigger falls back to is the dashboard or an action of Tier A.
SafeDefaultIsSafe ==
  step = "accepted" =>
    \A i \in 1..Len(triggers) : triggers[i].tier = "C" => triggers[i].safe = Dashboard \/ SafeTier(i) = {"A"}

\* No authority of Tier C or D is exercised or escaped in any way but these.
AuthorityContained == TierDByRule /\ SafeDefaultIsSafe

\* What the documentation says: physical actions of Tier B require approval or
\* the post-action policy.
PhysicalHasPolicy ==
  step = "accepted" =>
    \A i \in 1..Len(triggers) :
      "B" \in Runs(i) => triggers[i].approval \/ triggers[i].reasoning = "post_action"
=============================================================================
