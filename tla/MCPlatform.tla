------------------------------ MODULE MCPlatform ------------------------------
(***************************************************************************)
(* A small instance of each part of the platform.                          *)
(***************************************************************************)
EXTENDS Platform, TLC

CONSTANTS
    Backend,           \* "postgresql" or "sqlite"
    row1, row2, row3,  \* memories
    ask1, ask2, ask3   \* requests for them

Shop == INSTANCE Catalog

\* "files": an integration whose second tool has the name of a local one; "late" comes
\* after it and shares a name with nobody; "again" has the name of "mcp", and a tool with
\* the name of a local one.
MCToolsOf ==
    [p \in {"sys", "mcp", "again", "files", "late"} |->
        CASE p = "sys"   -> <<"system_info.platform">>
          [] p = "mcp"   -> <<"search">>
          [] p = "again" -> <<"search", "files.write">>
          [] p = "files" -> <<"files.list", "files.write">>
          [] p = "late"  -> <<"issues.create">>]
MCNameOf  == [p \in DOMAIN MCToolsOf |-> IF p = "again" THEN "mcp" ELSE p]
MCStartup == <<"sys">>

MCClientId == [google |-> 1, meta |-> 2]
MCRowLocks == Backend = "postgresql"

MCRegistered == Shop!Bare
MCNeedsOf    == Shop!Required
MCProcedures == {<<>>, <<Do("time.now", {})>>, <<Do("time.now", {}), Do("crm.lead.score", {})>>}
MCCallable   == {ToolCall("time.now", TRUE), ToolCall("ceo.agent.spawn", TRUE), ToolCall("browser.set_volume", FALSE)}
MCTurns      == [executive |-> {0, 2}, analyst |-> {1}]
MCWords      == {{"youtube.com"}, {"nothing"}}

MCKeysOf == [c1 |-> {"k"} \cup Unkeyed, c2 |-> {"k"}]

\* A listed place, and one that is made up.
MCWants    == {[place |-> "sky lounge", time |-> 19, party |-> 2], [place |-> "bistro", time |-> 20, party |-> 2]}
MCStepKeys == {NoKey, <<"step">>}
MCAccounts == <<"act_101", "act_new">>
MCBudgets == {-50, 0, 6}

MCCustom    == {When("system_errors_count", o, 0) : o \in {">=", "<=", "==", "!=", "like"}}
                  \cup {When("churn", "pct_change_gt", 5)}
MCOverrides == {<<>>, [churn |-> 9], [system_errors_count |-> 10, cash_runway_months |-> 20],
                [meta_cpa_pct_change |-> 0, stagnant_deals_count |-> 0, fulfillment_open_exceptions |-> 300]}

\* Every phrase, to a registry that lacks what its intent needs; and to a registry that lacks
\* nothing a message for two neighbours in the table, for a command and any other intent, and
\* for any intent with the phrase of an optional step.
Phrases(n) == (UNION Intents[n].hears) \cup UNION UNION {Intents[n].plans[m].hears : m \in DOMAIN Intents[n].plans}
Needed     == UNION {Intents[n].needs : n \in DOMAIN Intents}
Telling(n) == {CHOOSE a \in g : TRUE : g \in Intents[n].hears}
Messages   == {Telling(m) \cup Telling(n) : m \in Commands, n \in DOMAIN Intents}
                 \cup {Telling(n) \cup {a} : n \in DOMAIN Intents, a \in {"readme", "follow", "call <tool>"}}
                 \cup {Telling(n - 1) \cup Telling(n) : n \in 2..Len(Intents)}
MCAsks ==
    (Messages \X {Shop!Equipped \cup {"<tool>"}, Needed})
        \cup ({{a} : a \in UNION {Phrases(n) : n \in DOMAIN Intents}} \X {Shop!Bare, Shop!Bare \cup {"<tool>"}})
        \cup UNION {{{a} : a \in Phrases(n)} \X {Needed, Needed \ Intents[n].needs} : n \in DOMAIN Intents}

-----------------------------------------------------------------------------
\* What a process can start with, and plan, it can serve: no two of its tools share a name,
\* none exceeds the risk its integration declares, and a planned step names a tool that is
\* offered and gives it the arguments without which the tool raises.  Not so the step of
\* "run <tool>", which names an offered tool but takes its arguments from the message:
\* "run files.read" plans files.read without a path.  It is then the whole plan.
PlansAreServed ==
    /\ which = "planner" => Shop!NamesDiffer /\ Shop!WithinCeilings
    /\ next > Len(Intents) /\ available \ {"<tool>"} \in {Shop!Bare, Shop!Equipped} =>
          \A s \in ToSet(steps) :
              IF s = "<tool>" THEN steps = <<s>>
              ELSE s \in available /\ Shop!Required[s] \subseteq ArgumentsOf(s)

=============================================================================
