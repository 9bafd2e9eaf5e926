------------------------------- MODULE Platform -------------------------------
(***************************************************************************)
(* The parts that tasks rely on: the planner, the capability registry, the *)
(* credentials, the memories, a voice session, and the Services.  They     *)
(* share no state: a behaviour runs one of them, and all are initial       *)
(* states.                                                                 *)
(***************************************************************************)
EXTENDS Services, Planner, CapabilityRegistry, Credentials, MemoryService, VoiceSession

CONSTANT Asks  \* what the planner is asked: messages, each with the capabilities registered

VARIABLE which  \* the part of this behaviour

platformVars == <<which, plannerVars, registryVars, credentialVars, memoryVars, voiceVars, serviceVars>>

Init ==
    /\ which \in {"planner", "registry", "credentials", "memory", "voice"} \cup ServiceNames
    /\ PlannerInit(IF which = "planner" THEN Asks ELSE {<<{}, {}>>})
    /\ RegistryInit /\ CredentialsInit /\ MemoryInit /\ VoiceInit
    /\ ServicesInit

Next ==
    \/ /\ which = "planner" /\ PlannerNext
       /\ UNCHANGED <<which, registryVars, credentialVars, memoryVars, voiceVars, serviceVars>>
    \/ /\ which = "registry" /\ RegistryNext
       /\ UNCHANGED <<which, plannerVars, credentialVars, memoryVars, voiceVars, serviceVars>>
    \/ /\ which = "credentials" /\ CredentialsNext
       /\ UNCHANGED <<which, plannerVars, registryVars, memoryVars, voiceVars, serviceVars>>
    \/ /\ which = "memory" /\ MemoryNext
       /\ UNCHANGED <<which, plannerVars, registryVars, credentialVars, voiceVars, serviceVars>>
    \/ /\ which = "voice" /\ VoiceNext
       /\ UNCHANGED <<which, plannerVars, registryVars, credentialVars, memoryVars, serviceVars>>
    \/ /\ which \in ServiceNames /\ ServicesNext(which)
       /\ UNCHANGED <<which, plannerVars, registryVars, credentialVars, memoryVars, voiceVars>>

Spec == Init /\ [][Next]_platformVars

\* The state of each part stays in its types.
TypeOK == RegistryTypeOK /\ CredentialsTypeOK /\ MemoryTypeOK /\ VoiceTypeOK /\ LoopTypeOK

=============================================================================
