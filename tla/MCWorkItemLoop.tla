---------------------------- MODULE MCWorkItemLoop ----------------------------
(***************************************************************************)
(* The answers the instances of WorkItemLoop consider, named so that the   *)
(* configurations read as what they leave out.                             *)
(***************************************************************************)
EXTENDS WorkItemLoop

AnyPlan       == {"planned", "refused"}
AlwaysPlanned == {"planned"}

AnyCompletion == {"unmet", "met"}
AlwaysMet     == {"met"}

WithoutWaiver         == {"failed", "gates_passed", "gates_failed"}
PassingOrWaived       == {"gates_passed", "gate_waived"}
WithoutGateFailure    == {"gates_passed", "gate_waived", "failed"}
AlwaysPassing         == {"gates_passed"}

AnyReview      == {"out_of_scope", "approved", "changes_required", "blocked", "failed", "unreadable"}
WithoutBlocked == AnyReview \ {"blocked", "unreadable"}
AlwaysApproved == {"approved"}
ApprovedOrFailed == {"approved", "failed"}

\* The Doctor is told to answer one of two; its schema lets four through.
ToldDoctor   == {"conversation", "file_blocking_fix", "stop"}
FilingDoctor == {"file_blocking_fix"}
NoDoctor     == {"stop"}

\* Medium and low share a tier.
AnySeverity  == Severities \ {"low"}
OnlyCritical == {"critical"}

AnyExit  == {"retry", "correct", "open_fix"}
RetryOrFix == {"retry", "open_fix"}

OneWording == {"review"}

StateReading == {"state_corruption"}
OtherReading == {"other"}
AgentOnly == {"agent"}
HumanOnly == {"human"}
=============================================================================
