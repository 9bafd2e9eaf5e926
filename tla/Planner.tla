------------------------------- MODULE Planner -------------------------------
(***************************************************************************)
(* DeterministicProvider.plan (apps/api/src/ceo_os_api/planner.py): a      *)
(* message becomes a plan by a table of intents tried in order.            *)
(*                                                                         *)
(* A message is the set of phrases the code looks for in it.  An intent    *)
(* hears a message that holds a phrase of each of its groups, and needs    *)
(* its capabilities registered.  Of the arguments of a step only the names *)
(* are kept.                                                               *)
(***************************************************************************)
EXTENDS Naturals, Sequences, FiniteSets, SequencesExt

VARIABLES
    said,       \* the phrases of the message
    available,  \* {capability.name for capability in capabilities}
    next,       \* the intent considered
    part,       \* the step of it that is added next, 0 before the intent is decided on
    steps       \* the capabilities planned so far, in order

plannerVars == <<said, available, next, part, steps>>

\* Where a phrase the code looks for lies inside a longer one, a message holds both.
Inside == {
    <<"call <tool>", "call ">>, <<"run <tool>", "run">>, <<"what do you remember", "do you remember">>,
    <<"what do you remember", "remember <text>">>, <<"do you remember", "remember <text>">>,
    <<"create a campaign", "create">>, <<"make a call", "make">>, <<"find restaurant", "restaurant">>,
    <<"search restaurant", "restaurant">>, <<"cash runway", "run">>, <<"create goal", "create">>,
    <<"cost overview", "cost">>, <<"agent performance", "agent">>, <<"agent performance", "performance">>,
    <<"create skill", "create">>, <<"create skill", "skill">>, <<"new skill", "skill">>, <<"test skill", "skill">>,
    <<"run skill", "run">>, <<"run skill", "skill">>, <<"execute skill", "execute">>, <<"execute skill", "skill">>,
    <<"version skill", "skill">>, <<"list skills", "list">>, <<"list skills", "skill">>, <<"list skills", "skills">>,
    <<"show skills", "show">>, <<"show skills", "skill">>, <<"show skills", "skills">>, <<"skill library", "skill">>,
    <<"auto build api", "build api">>, <<"agents", "agent">>, <<"skills", "skill">>, <<"performance", "perform">>,
    <<"agent performance", "perform">>, <<"capital allocation", "all">>, <<"fall", "all">>, <<"call ", "all">>,
    <<"call <tool>", "all">>}

Message(phrases) == phrases \cup {i[2] : i \in {j \in Inside : j[1] \in phrases}}

-----------------------------------------------------------------------------
\* What a table holds.  "plans": the steps an intent adds, each if it is ready itself.
Step(cap, needs, hears)       == [cap |-> cap, needs |-> needs, hears |-> hears]
Intent(needs, hears, planned) == [needs |-> needs, hears |-> hears, plans |-> planned]
One(cap, hears)               == Intent({cap}, hears, <<Step(cap, {}, {})>>)
Local(cap, hears)             == Intent({}, hears, <<Step(cap, {}, {})>>)

\* Each of these adds its steps to those of the ones before it.
CommandIntents == <<
    One("agents.delegate.research", {{"research the top ten competitors"}}),
    One("memory.search", {{"what did i decide", "what do you remember", "do you remember"}}),
    Intent({"computer.app.focus", "computer.text.type"}, {{"type <text> in <app>"}},
           <<Step("computer.app.focus", {}, {}), Step("computer.text.type", {}, {})>>),
    One("computer.app.open", {{"open <app>"}}),
    One("browser.visit", {{"visit <url>"}}),
    Intent({}, {{"folder <name>"}, {"create", "make"}},
           <<Step("files.mkdir", {}, {}), Step("files.write", {}, {{"readme"}})>>),
    Local("calculator.evaluate", {{"calculate <numbers>"}}) >>

Commands == DOMAIN CommandIntents

\* Each of the following is tried only while nothing is planned.
NoteIntents == <<
    One("memory.remember", {{"remember <text>"}}),
    Local("notes.add", {{"remember <text>"}}) >>

GoogleIntents == <<
    One("weather.get_forecast", {{"weather", "forecast"}}),
    One("system_info.platform", {{"system info", "platform info", "host info"}}),
    One("google.gmail.search", {{"check email", "search email", "check inbox", "unread email", "emails about"}}),
    One("google.calendar.list", {{"check calendar", "my schedule", "what's on my calendar", "calendar events",
                                  "upcoming meetings"}}),
    One("workflow.restaurant.book", {{"book", "reserve", "reservation"}, {"table", "restaurant", "dinner", "osteria"}}),
    One("google.places.search", {{"find restaurant", "search restaurant", "search place", "find place", "find coffee"}}) >>

ChannelIntents == <<
    One("google.drive.search", {{"drive", "google doc"}}),
    One("google.analytics.report", {{"analytics", "ga4", "website traffic", "pageviews"}}),
    One("google.youtube.search", {{"youtube", "video search"}}),
    One("telephony.call.outbound", {{"call ", "phone ", "dial ", "make a call", "outbound call"}}),
    Intent({"meta.campaigns.create"}, {{"create a campaign"}},
           <<Step("meta.campaigns.create", {}, {}), Step("meta.creatives.create", {"meta.creatives.create"}, {}),
             Step("meta.adsets.create", {"meta.adsets.create"}, {})>>) >>

MarketingIntents == <<
    One("meta.reporting.campaign", {{"meta report", "campaign report"}}),
    One("meta.accounts.list", {{"meta accounts", "ad accounts"}}),
    One("marketing.profit.diagnose", {{"profit"}, {"why", "fall", "drop", "down", "diagnose", "change"}}),
    One("marketing.attribution.funnel", {{"attribution", "funnel"}}),
    One("marketing.creatives.analyze", {{"creative fatigue", "creative decay", "creatives analyze"}}),
    One("marketing.snapshot.get", {{"marketing snapshot", "daily snapshot"}}) >>

CommsIntents == <<
    Intent({"comms.whatsapp.send"}, {{"whatsapp"}},
           <<Step("comms.whatsapp.send", {}, {}),
             Step("comms.followup.schedule", {"comms.followup.schedule"}, {{"follow"}})>>),
    One("comms.sms.send", {{"sms"}}),
    One("comms.email.send", {{"send email", "email to"}}),
    One("comms.notification.broadcast", {{"broadcast", "urgent notification"}}) >>

BusinessIntents == <<
    One("business.executive.overview", {{"what's happening", "what is happening", "executive overview",
                                         "business status", "morning briefing"}}),
    One("business.finance.affordability", {{"afford", "capital allocation"}}),
    One("business.sales.pipeline", {{"pipeline", "sales deals"}}),
    One("business.finance.overview", {{"financial overview", "cash runway", "cash balance"}}),
    One("business.operations.inventory", {{"inventory", "low stock", "stock level"}}) >>

SkillIntents == <<
    One("skills.create", {{"create skill", "create a skill", "build skill", "new skill"}}),
    One("skills.test", {{"test skill", "test the skill", "simulate skill"}}),
    One("skills.execute", {{"run skill", "execute skill", "run the skill"}}),
    One("skills.version", {{"version skill", "bump skill", "upgrade skill"}}),
    One("skills.list", {{"list skills", "show skills", "skill library"}}) >>

DeveloperIntents == <<
    One("developer.api.ingest", {{"ingest api", "add api", "build api", "auto build api", "generate integration",
                                  "openapi"}}),
    One("developer.api.test", {{"test api", "test integration"}}) >>

OperationsIntents == <<
    Intent({"proactive.evaluate"}, {{"evaluate", "proactive", "watch business", "anomalies", "trigger"}},
           <<Step("proactive.evaluate", {}, {}), Step("proactive.insights.get", {"proactive.insights.get"}, {})>>),
    One("proactive.goal.create", {{"create goal", "set goal", "add goal"}}),
    Intent({"production.security.audit"}, {{"production", "hardening", "security audit", "finops", "cost overview",
                                            "agent performance", "resilience"}},
           <<Step("production.security.audit", {}, {}),
             Step("production.cost.overview", {"production.cost.overview"},
                  {{"cost", "finops", "hardening", "production"}}),
             Step("production.agent.performance", {"production.agent.performance"},
                  {{"agent", "performance", "fleet", "hardening", "production"}}),
             Step("production.resilience.health", {"production.resilience.health"},
                  {{"resilience", "recovery", "hardening", "production"}})>>) >>

PersonaIntents == <<
    One("agency.skills.match", {{"match"}, {"agency", "skill", "agent"}}),
    One("agency.skills.list", {{"agency"}, {"skills", "agents", "catalog"}, {"list", "show", "all"}}),
    One("agency.task.execute", {{"agency"}, {"execute", "run", "perform"}}),
    One("hermes.agent.run", {{"hermes"}, {"run", "reason", "autonomous", "react"}}),
    One("gstack.office_hours", {{"office-hours", "office hours"}}),
    One("gstack.plan.ceo_review", {{"plan-ceo-review", "ceo review"}}),
    One("gstack.plan.eng_review", {{"plan-eng-review", "eng review"}}),
    One("gstack.pipeline.run", {{"gstack", "sdlc"}}) >>

\* "<tool>": the first registered capability that the message names after a verb, and what is
\* registered holds "<tool>" if there is one.  Its arguments are what the message writes after
\* the name, or none.
LastIntents == <<
    One("<tool>", {{"run <tool>", "call <tool>"}}),
    Local("time.now", {{"time", "date"}}) >>

Intents == CommandIntents \o NoteIntents \o GoogleIntents \o ChannelIntents \o MarketingIntents \o CommsIntents
             \o BusinessIntents \o SkillIntents \o DeveloperIntents \o OperationsIntents \o PersonaIntents
             \o LastIntents

\* The arguments that a planned step gives its tool, where it gives any.
Arguments == {
    <<"agents.delegate.research", {"objective", "items", "worker_count"}>>, <<"memory.search", {"query", "limit"}>>,
    <<"computer.app.focus", {"bundle_id"}>>, <<"computer.text.type", {"bundle_id", "text"}>>,
    <<"computer.app.open", {"bundle_id"}>>, <<"browser.visit", {"session", "url"}>>, <<"files.mkdir", {"path"}>>,
    <<"files.write", {"path", "content"}>>, <<"calculator.evaluate", {"expression"}>>,
    <<"memory.remember", {"content"}>>, <<"notes.add", {"text"}>>, <<"weather.get_forecast", {"city"}>>,
    <<"google.gmail.search", {"query", "max_results"}>>, <<"google.calendar.list", {"max_results"}>>,
    <<"workflow.restaurant.book", {"restaurant_name", "party_size", "time", "booking_name"}>>,
    <<"google.places.search", {"query", "location_bias"}>>, <<"google.drive.search", {"query", "max_results"}>>,
    <<"google.analytics.report", {"property_id", "start_date", "end_date"}>>,
    <<"google.youtube.search", {"query", "max_results"}>>, <<"telephony.call.outbound", {"to_number", "objective"}>>,
    <<"meta.campaigns.create", {"account_id", "name", "objective", "status", "daily_budget"}>>,
    <<"meta.creatives.create", {"account_id", "name", "title", "body", "call_to_action_type"}>>,
    <<"meta.adsets.create", {"campaign_id", "name", "targeting", "daily_budget", "status"}>>,
    <<"meta.reporting.campaign", {"campaign_id"}>>, <<"marketing.profit.diagnose", {"date", "compare_date"}>>,
    <<"marketing.attribution.funnel", {"date_start", "date_stop"}>>, <<"marketing.creatives.analyze", {"timeframe"}>>,
    <<"marketing.snapshot.get", {"date"}>>, <<"comms.whatsapp.send", {"to_phone", "body"}>>,
    <<"comms.followup.schedule", {"recipient_name", "recipient_contact", "channel", "objective", "due_date",
                                  "cadence_step"}>>,
    <<"comms.sms.send", {"to_phone", "body"}>>, <<"comms.email.send", {"to_email", "subject", "body"}>>,
    <<"comms.notification.broadcast", {"title", "message", "severity"}>>, <<"business.executive.overview", {"date"}>>,
    <<"business.finance.affordability", {"proposed_spend", "purpose", "currency"}>>,
    <<"business.operations.inventory", {"low_stock_only"}>>,
    <<"skills.create", {"name", "description", "steps", "category", "tags"}>>,
    <<"skills.test", {"skill_id", "mock_inputs"}>>, <<"skills.execute", {"skill_id", "inputs"}>>,
    <<"skills.version", {"skill_id", "new_version", "changelog"}>>,
    <<"developer.api.ingest", {"service_name", "spec", "auto_register"}>>, <<"developer.api.test", {"service_name"}>>,
    <<"proactive.goal.create", {"title", "description", "category", "target_date"}>>,
    <<"production.security.audit", {"active_secret_refs"}>>, <<"agency.skills.match", {"query", "top_k"}>>,
    <<"agency.task.execute", {"task_id", "objective"}>>,
    <<"hermes.agent.run", {"task_id", "objective", "max_turns"}>>, <<"gstack.office_hours", {"idea_or_spec"}>>,
    <<"gstack.plan.ceo_review", {"plan_spec"}>>, <<"gstack.plan.eng_review", {"arch_spec"}>>,
    <<"gstack.pipeline.run", {"objective"}>> }

ArgumentsOf(cap) == UNION {a[2] : a \in {b \in Arguments : b[1] = cap}}

-----------------------------------------------------------------------------
Heard(s) == \A g \in s.hears : g \cap said # {}

Ready(s) == s.needs \subseteq available /\ Heard(s)

\* An application is opened only if the message does not order to type into it.
Follows(n) == Ready(Intents[n]) /\ ~(n = 4 /\ Ready(Intents[3]))

\* Mutant: an intent does not ask whether something is planned already.
AppliesAnyway(n) == Follows(n)

Applies(n) == Follows(n) /\ (n \in Commands \/ steps = <<>>)

Consider ==
    /\ next <= Len(Intents) /\ part = 0
    /\ IF Applies(next) THEN part' = 1 /\ next' = next
                        ELSE part' = 0 /\ next' = next + 1
    /\ UNCHANGED <<said, available, steps>>

AddStep ==
    /\ part # 0
    /\ LET s == Intents[next].plans[part]
       IN  steps' = IF Ready(s) THEN Append(steps, s.cap) ELSE steps
    /\ IF part < Len(Intents[next].plans) THEN part' = part + 1 /\ next' = next
                                          ELSE part' = 0 /\ next' = next + 1
    /\ UNCHANGED <<said, available>>

PlannerNext == Consider \/ AddStep

\* An ask is a message, and the capabilities registered when it comes.
PlannerInit(asks) ==
    /\ \E a \in asks : said = Message(a[1]) /\ available = a[2]
    /\ next = 1 /\ part = 0
    /\ steps = <<>>

-----------------------------------------------------------------------------
\* Registered with the process, and planned without a look at the registry.
LocalCapabilities == {"files.mkdir", "files.write", "calculator.evaluate", "notes.add", "time.now"}

\* The intents up to this one that the message has; of them every command is wanted, and the
\* first of them all.
Followed == {n \in DOMAIN Intents : n <= next /\ Follows(n)}
Wanted   == LET followed == Followed
            IN  {n \in followed : n \in Commands \/ \A m \in followed : n <= m}

\* Steps are named by their intent and their place in it, in the order of the table.
Earlier(p, q) == p[1] < q[1] \/ (p[1] = q[1] /\ p[2] < q[2])
Due == {p \in UNION {{n} \X DOMAIN Intents[n].plans : n \in Wanted} :
           Earlier(p, <<next, part>>) /\ Ready(Intents[p[1]].plans[p[2]])}

Rank(p, due) == Cardinality({q \in due : ~Earlier(p, q)})

\* The plan holds the ready steps of every command the message gives and of no other intent,
\* or, without a command, of the first intent it has; each once, in the order of the table;
\* and it names no capability the registry lacks.
PlanIsFirstIntent ==
    LET due == Due
    IN  /\ Len(steps) = Cardinality(due)
        /\ \A p \in due : steps[Rank(p, due)] = Intents[p[1]].plans[p[2]].cap
        /\ ToSet(steps) \subseteq available \cup LocalCapabilities

=============================================================================
