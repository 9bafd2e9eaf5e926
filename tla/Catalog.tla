-------------------------------- MODULE Catalog --------------------------------
(***************************************************************************)
(* The capabilities the process offers, as main.py composes them.          *)
(*                                                                         *)
(* A tool is its name, its class of risk (R0 .. R4) and the arguments      *)
(* without which its execute raises, and the step fails.                   *)
(* What execute calls, and the shape of its output, are left out here: the *)
(* operations that change state are the actions of the other modules.      *)
(***************************************************************************)
EXTENDS Naturals, Sequences, SequencesExt

Tool(name, risk, needs) == [name |-> name, risk |-> risk, needs |-> needs]
Read(name)  == Tool(name, 0, {})
Write(name) == Tool(name, 1, {})
Reach(name) == Tool(name, 2, {})   \* EXTERNAL_COMMUNICATION

-----------------------------------------------------------------------------
\* Tools of the process itself.

BuiltInTools == <<
    Read("time.now"), Tool("calculator.evaluate", 0, {"expression"}),
    Tool("files.mkdir", 1, {"path"}), Tool("files.write", 1, {"path", "content"}), Tool("files.read", 0, {"path"}),
    Tool("notes.add", 1, {"text"}), Tool("shell.execute", 0, {"command"}) >>

AgentLookupTools     == << Read("agent.search"), Read("agent.inspect") >>
AgentDelegationTools == << Write("agent.spawn"), Write("agent.delegate") >>
AgentTeamTools       == << Write("agent.spawn_team"), Write("agent.create") >>
ResearchTools        == << Tool("agents.delegate.research", 0, {"objective", "items"}) >>

MemoryTools == << Tool("memory.remember", 1, {"content"}), Tool("memory.search", 0, {"query"}) >>

ComputerReadTools   == << Read("computer.status"), Read("computer.apps.list") >>
ComputerEffectTools == <<
    Tool("computer.app.open", 1, {"bundle_id"}), Tool("computer.app.focus", 1, {"bundle_id"}),
    Tool("computer.text.type", 1, {"bundle_id", "text"}), Tool("computer.key.press", 1, {"bundle_id", "key"}),
    Write("computer.stop") >>

BrowserSafeTools == <<
    Read("browser.status"), Read("browser.sessions.list"), Tool("browser.session.open", 1, {"session"}),
    Tool("browser.session.close", 1, {"session"}), Tool("browser.tab.open", 1, {"session"}),
    Tool("browser.tabs.list", 0, {"session"}), Tool("browser.navigate", 0, {"session", "page_id", "url"}),
    Tool("browser.visit", 0, {"session", "url"}), Tool("browser.extract", 0, {"session", "page_id"}) >>
BrowserEffectTools == <<
    Tool("browser.click", 2, {"session", "page_id", "locator"}),
    Tool("browser.fill", 2, {"session", "page_id", "locator", "value"}),
    Tool("browser.upload", 2, {"session", "page_id", "locator", "path"}),
    Tool("browser.download", 1, {"session", "page_id", "locator"}) >>

VisionReadTools   == << Read("vision.status"), Read("vision.windows.list"),
                        Tool("vision.window.capture", 0, {"session", "pid", "window_id"}) >>
VisionEffectTools == <<
    Tool("vision.window.click", 2, {"session", "pid", "window_id", "x", "y"}),
    Tool("vision.window.type", 2, {"session", "pid", "window_id", "text"}),
    Tool("vision.window.key", 2, {"session", "pid", "window_id", "key"}),
    Tool("vision.window.scroll", 2, {"session", "pid", "window_id", "direction"}) >>

-----------------------------------------------------------------------------
\* Tools of the native integrations, by the client or engine they call.

SystemInfoTools == << Read("system_info.platform") >>

GmailTools    == << Read("google.gmail.search"), Read("google.gmail.read"), Write("google.gmail.draft"),
                    Reach("google.gmail.send") >>
CalendarTools == << Read("google.calendar.list"), Reach("google.calendar.create_event"),
                    Reach("google.calendar.update_event"), Read("google.calendar.freebusy") >>
DriveTools    == << Read("google.contacts.search"), Read("google.drive.search"), Read("google.drive.read"),
                    Write("google.drive.create") >>
PlacesTools   == << Read("google.places.search"), Read("google.places.details"), Read("google.analytics.report") >>
YouTubeTools  == << Read("google.youtube.search"), Read("google.youtube.metrics") >>
GoogleEcosystemIntegration == GmailTools \o CalendarTools \o DriveTools \o PlacesTools \o YouTubeTools

TelephonyTools  == << Tool("telephony.call.outbound", 2, {"to_number"}),
                      Tool("telephony.call.status", 0, {"call_id"}),
                      Tool("telephony.call.terminate", 2, {"call_id"}) >>
RestaurantTools == << Reach("workflow.restaurant.book") >>

MetaCampaignTools == << Read("meta.accounts.list"), Tool("meta.accounts.get", 0, {"account_id"}),
                        Read("meta.campaigns.list") >>
MetaBudgetTools   == << Tool("meta.campaigns.create", 2, {"account_id", "name"}),
                        Tool("meta.campaigns.update", 2, {"campaign_id"}) >>
MetaAdSetTools    == << Read("meta.adsets.list"), Tool("meta.adsets.create", 2, {"campaign_id", "name"}),
                        Read("meta.creatives.list") >>
MetaAdTools       == << Tool("meta.creatives.create", 2, {"account_id", "name", "title", "body"}),
                        Read("meta.ads.list"), Tool("meta.ads.create", 2, {"adset_id", "creative_id", "name"}) >>
MetaReportTools   == << Tool("meta.insights.get", 0, {"entity_id"}),
                        Tool("meta.reporting.campaign", 0, {"campaign_id"}) >>

MarketingTools == << Read("marketing.profit.diagnose"), Read("marketing.attribution.funnel"),
                     Read("marketing.creatives.analyze"), Read("marketing.snapshot.get") >>

EmailAndSmsTools  == << Tool("comms.email.send", 2, {"to_email", "subject", "body"}),
                        Tool("comms.sms.send", 2, {"to_phone", "body"}) >>
BroadcastTools    == << Tool("comms.whatsapp.send", 2, {"to_phone", "body"}),
                        Tool("comms.notification.broadcast", 2, {"title", "message"}) >>
ConversationTools == << Tool("comms.followup.schedule", 2,
                             {"recipient_name", "recipient_contact", "objective", "due_date"}),
                        Tool("comms.conversation.analyze", 0, {"transcript"}), Read("comms.messages.list") >>

FinanceTools    == << Read("business.executive.overview"), Read("business.finance.overview"),
                      Read("business.finance.affordability") >>
SalesTools      == << Read("business.finance.invoices"), Read("business.sales.pipeline"),
                      Read("business.sales.deals") >>
OperationsTools == << Read("business.operations.health"), Read("business.operations.inventory") >>

\* Mutant: the tool looks its skill up by a name that the planner does not give.
SkillsByName == << Tool("skills.create", 1, {"name", "description"}), Tool("skills.execute", 2, {"name"}) >>

SkillWriteTools == << Tool("skills.create", 1, {"name", "description"}),
                      Tool("skills.execute", 2, {"skill_id"}) >>
SkillTestTools  == << Tool("skills.test", 0, {"skill_id"}),
                      Tool("skills.version", 1, {"skill_id", "new_version", "changelog"}) >>
SkillReadTools  == << Tool("skills.disable", 1, {"skill_id"}), Read("skills.list"),
                      Tool("skills.get", 0, {"skill_id"}) >>

IngestTools  == << Tool("developer.api.ingest", 1, {"spec"}) >>
InspectTools == << Tool("developer.api.test", 0, {"service_name"}),
                   Tool("developer.api.inspect", 0, {"service_name"}), Read("developer.api.list") >>

TriggerTools == << Read("proactive.evaluate"), Read("proactive.insights.get"),
                   Tool("proactive.trigger.create", 1,
                        {"name", "description", "category", "metric_key", "operator", "threshold"}) >>
GoalTools    == << Read("proactive.trigger.list"),
                   Tool("proactive.goal.create", 1, {"title", "description", "category", "target_date"}),
                   Read("proactive.goal.list") >>

AuditTools      == << Read("production.security.audit"), Read("production.cost.overview"),
                      Read("production.agent.performance") >>
ConfidenceTools == << Tool("production.confidence.verify", 0,
                           {"task_id", "capability", "confidence_score", "risk_level"}),
                      Read("production.resilience.health") >>

AgencySkillTools == << Read("agency.skills.list"), Tool("agency.skills.get", 0, {"name"}) >>
AgencyTaskTools  == << Tool("agency.skills.match", 0, {"query"}), Tool("agency.agent.spawn", 1, {"skill_name"}),
                       Tool("agency.task.execute", 1, {"task_id", "objective"}) >>

CeoAgentTools == << Tool("ceo.agent.run", 1, {"task_id", "objective"}),
                    Tool("ceo.agent.reflect", 1, {"trajectory_id"}) >>
CeoSwarmTools == << Tool("ceo.agent.spawn", 1, {"subagent_id", "role", "objective"}),
                    Read("ceo.agent.trajectories.export") >>

GstackReviewTools == << Tool("gstack.office_hours", 0, {"idea_or_spec"}),
                        Tool("gstack.plan.ceo_review", 0, {"plan_spec"}),
                        Tool("gstack.plan.eng_review", 0, {"arch_spec"}), Read("gstack.code.review") >>
GstackShipTools   == << Read("gstack.qa.browser_test"), Write("gstack.release.ship"),
                        Tool("gstack.pipeline.run", 1, {"objective"}) >>

-----------------------------------------------------------------------------
\* integration_registry, in the order of main.py; "ceiling": the manifest's risk_ceiling.
Integrations == <<
    [name |-> "system_info", ceiling |-> 0, tools |-> SystemInfoTools],
    [name |-> "google_ecosystem", ceiling |-> 2, tools |-> GoogleEcosystemIntegration],
    [name |-> "telephony", ceiling |-> 2, tools |-> TelephonyTools],
    [name |-> "restaurant_workflow", ceiling |-> 2, tools |-> RestaurantTools],
    [name |-> "meta_marketing", ceiling |-> 2,
     tools |-> MetaCampaignTools \o MetaBudgetTools \o MetaAdSetTools \o MetaAdTools \o MetaReportTools],
    [name |-> "marketing_intelligence", ceiling |-> 0, tools |-> MarketingTools],
    [name |-> "communications_hub", ceiling |-> 2, tools |-> EmailAndSmsTools \o BroadcastTools \o ConversationTools],
    [name |-> "business_executive_hub", ceiling |-> 0, tools |-> FinanceTools \o SalesTools \o OperationsTools],
    [name |-> "skills_engine", ceiling |-> 2, tools |-> SkillWriteTools \o SkillTestTools \o SkillReadTools],
    [name |-> "api_auto_builder", ceiling |-> 1, tools |-> IngestTools \o InspectTools],
    [name |-> "proactive_ceo", ceiling |-> 1, tools |-> TriggerTools \o GoalTools],
    [name |-> "production_hardening", ceiling |-> 0, tools |-> AuditTools \o ConfidenceTools],
    [name |-> "agency_agents", ceiling |-> 1, tools |-> AgencySkillTools \o AgencyTaskTools],
    [name |-> "ceo_agent", ceiling |-> 1, tools |-> CeoAgentTools \o CeoSwarmTools],
    [name |-> "gstack_engine", ceiling |-> 1, tools |-> GstackReviewTools \o GstackShipTools] >>

\* The lifespan's list of tools: "effects" are the controllers whose effects are enabled.
AllTools(effects) ==
    BuiltInTools
      \o AgentLookupTools \o AgentDelegationTools \o AgentTeamTools \o ResearchTools \o MemoryTools
      \o ComputerReadTools \o (IF "computer" \in effects THEN ComputerEffectTools ELSE <<>>)
      \o BrowserSafeTools \o (IF "browser" \in effects THEN BrowserEffectTools ELSE <<>>)
      \o VisionReadTools \o (IF "vision" \in effects THEN VisionEffectTools ELSE <<>>)
      \o FlattenSeq([n \in DOMAIN Integrations |-> Integrations[n].tools])

Names(tools) == {tools[n].name : n \in DOMAIN tools}

AllEffects == {"computer", "browser", "vision"}

Offered(effects) == Names(AllTools(effects))
EveryTool        == ToSet(AllTools(AllEffects))
Required         == [name \in Offered(AllEffects) |-> (CHOOSE t \in EveryTool : t.name = name).needs]
Bare             == Offered({})
Equipped         == Offered(AllEffects)

\* CapabilityRegistry raises on a name that is taken, and the process does not start.
NamesDiffer == IsInjective([n \in DOMAIN AllTools(AllEffects) |-> AllTools(AllEffects)[n].name])

\* No integration brings a tool of more risk than its manifest declares.
WithinCeilings == \A n \in DOMAIN Integrations : \A t \in ToSet(Integrations[n].tools) :
                      t.risk <= Integrations[n].ceiling

=============================================================================
