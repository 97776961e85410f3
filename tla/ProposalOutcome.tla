--------------------------- MODULE ProposalOutcome ---------------------------
(***************************************************************************)
(* What the bridge promises about the calls it is asked to execute,        *)
(* whoever votes and however the relayer set and the threshold change:     *)
(* a proposal is open until it is executed, cancelled or left to lapse,    *)
(* that outcome is final, and only an execution has an effect.             *)
(***************************************************************************)
EXTENDS Naturals

CONSTANT Proposals

VARIABLES outcome,  \* proposal -> its outcome so far
          runs      \* proposal -> how often its call took effect

Outcomes == {"open", "executed", "cancelled", "lapsed"}

OutcomeInit ==
    /\ outcome = [p \in Proposals |-> "open"]
    /\ runs = [p \in Proposals |-> 0]

Execute(p) ==
    /\ outcome[p] = "open"
    /\ outcome' = [outcome EXCEPT ![p] = "executed"]
    /\ runs' = [runs EXCEPT ![p] = @ + 1]

Cancel(p) ==
    /\ outcome[p] = "open"
    /\ outcome' = [outcome EXCEPT ![p] = "cancelled"]
    /\ UNCHANGED runs

\* Time runs out for any number of open proposals at once.
Lapse(S) ==
    /\ \A p \in S : outcome[p] = "open"
    /\ outcome' = [p \in Proposals |-> IF p \in S THEN "lapsed" ELSE outcome[p]]
    /\ UNCHANGED runs

OutcomeNext ==
    \/ \E p \in Proposals : Execute(p) \/ Cancel(p)
    \/ \E S \in SUBSET Proposals : Lapse(S)

OutcomeSpec == OutcomeInit /\ [][OutcomeNext]_<<outcome, runs>>
=============================================================================
