------------------------------- MODULE Services -------------------------------
(***************************************************************************)
(* The services that tasks call: the skills engine, the executive's        *)
(* reasoning loop, the submission of tasks, telephone calls, bookings and  *)
(* messages, advertising accounts, and the oversight engines.  They share  *)
(* no state: a behaviour runs one of them.                                 *)
(***************************************************************************)
EXTENDS SkillLibrary, ReasoningLoop, Submission, Outreach, AdAccounts, Oversight

serviceVars == <<skillVars, loopVars, submissionVars, outreachVars, adVars, oversightVars>>

ServiceNames == {"skills", "agent", "submission", "outreach", "messages", "ads", "oversight"}

ServicesInit == SkillInit /\ LoopInit /\ SubmissionInit /\ OutreachInit /\ AdsInit /\ OversightInit

ServicesNext(service) ==
    \/ /\ service = "skills" /\ SkillNext
       /\ UNCHANGED <<loopVars, submissionVars, outreachVars, adVars, oversightVars>>
    \/ /\ service = "agent" /\ LoopNext
       /\ UNCHANGED <<skillVars, submissionVars, outreachVars, adVars, oversightVars>>
    \/ /\ service = "submission" /\ SubmissionNext
       /\ UNCHANGED <<skillVars, loopVars, outreachVars, adVars, oversightVars>>
    \/ /\ service = "outreach" /\ OutreachNext
       /\ UNCHANGED <<skillVars, loopVars, submissionVars, adVars, oversightVars>>
    \/ /\ service = "messages" /\ MessagesNext
       /\ UNCHANGED <<skillVars, loopVars, submissionVars, adVars, oversightVars>>
    \/ /\ service = "ads" /\ AdsNext
       /\ UNCHANGED <<skillVars, loopVars, submissionVars, outreachVars, oversightVars>>
    \/ /\ service = "oversight" /\ OversightNext
       /\ UNCHANGED <<skillVars, loopVars, submissionVars, outreachVars, adVars>>

\* Executions of skills and runs of the executive end with the outcome that their steps had,
\* and are counted or recorded once, whatever is created, versioned, spawned or cut off
\* meanwhile.
RunsAreAccounted == SkillRunsAreCounted /\ RunsAreJudged

\* What is told of the outside, a confirmed booking or a report of spend, is backed by one
\* call, one event, one budget, however often it is asked for.
OutreachIsBacked == BookingsBacked /\ FiguresStand

\* The gate is monotone, and triggers, insights and alerts agree with what was evaluated.
OversightIsSound == GateIsMonotone /\ FiringsAreCounted

=============================================================================
