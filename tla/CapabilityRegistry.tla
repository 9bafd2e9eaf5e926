-------------------------- MODULE CapabilityRegistry --------------------------
(***************************************************************************)
(* The capabilities a plan may name (core/capabilities.py) and the         *)
(* integrations that bring them: IntegrationRegistry, the MCP and native   *)
(* providers, the API auto-builder, and the listener in main.py that       *)
(* copies the tools of the providers into the capability registry.         *)
(*                                                                         *)
(* A native provider connects within one step.  An MCP provider starts a   *)
(* server and awaits it: other requests come between.                      *)
(***************************************************************************)
EXTENDS Naturals, Sequences, SequencesExt

CONSTANTS
    Providers,  \* provider objects
    Startup,    \* those registered when the module is imported, in order
    Mcp,        \* those that talk to an MCP server
    Built,      \* those the auto-builder would make
    NameOf,     \* their integration names
    ToolsOf,    \* the names of their tools, in order
    LocalTools  \* tools registered by the process itself

Own == "local"

\* A provider has its tools in an order, and the module registers names of its own.
ASSUME RegistryAssumption ==
    /\ \A p \in Providers : DOMAIN ToolsOf[p] \subseteq Nat
    /\ Startup \in Seq(Providers) /\ \A m, n \in DOMAIN Startup : NameOf[Startup[m]] = NameOf[Startup[n]] => m = n

VARIABLES
    serving,    \* "starting", "up", "down", or "failed" when the start raises
    registry,   \* IntegrationRegistry._providers, in the order of the dict
    made,       \* provider objects that exist
    health,     \* their health
    awaiting,   \* connects and disconnects under way
    offered,    \* CapabilityRegistry._tools, as pairs of a name and its provider
    builds      \* the auto-builder's history: the providers it recorded as registered

registryVars == <<serving, registry, made, health, awaiting, offered, builds>>

Names(r) == {NameOf[r[n]] : n \in DOMAIN r}

\* IntegrationRegistry.all_tools: the tools of the healthy providers, in the order of the
\* providers and of their own.  A slot is the place of a provider, and that of a tool in it.
Slots(r, h)  == {s \in UNION {{n} \X DOMAIN ToolsOf[r[n]] : n \in DOMAIN r} : h[r[s[1]]] = "healthy"}
ToolAt(r, s) == <<ToolsOf[r[s[1]]][s[2]], r[s[1]]>>
Before(s, t) == s[1] < t[1] \/ (s[1] = t[1] /\ s[2] < t[2])

\* The tool's name is taken when its turn comes.
Clashes(r, h, s) ==
    \/ ToolAt(r, s)[1] \in LocalTools
    \/ \E t \in Slots(r, h) : Before(t, s) /\ ToolAt(r, t)[1] = ToolAt(r, s)[1]

\* _sync_integration_tools registers them one by one and ends at the first name that is
\* taken: the exception is logged by _notify_listeners.
Synced(r, h) ==
    LET reached == {s \in Slots(r, h) : \A t \in Slots(r, h) : (t = s \/ Before(t, s)) => ~Clashes(r, h, t)}
    IN  {<<t, Own>> : t \in LocalTools} \cup {ToolAt(r, s) : s \in reached}

-----------------------------------------------------------------------------
\* The lifespan connects every provider, and builds the capability registry of the local
\* tools and those of the providers that answered: a name used twice ends the start.
Start(up) ==
    /\ serving = "starting"
    /\ health' = [p \in Providers |-> IF p \in up THEN "healthy"
                                      ELSE IF p \in made THEN "unavailable" ELSE "unknown"]
    /\ IF \E s \in Slots(registry, health') : Clashes(registry, health', s)
       THEN serving' = "failed" /\ UNCHANGED offered
       ELSE serving' = "up" /\ offered' = Synced(registry, health')
    /\ UNCHANGED <<registry, made, awaiting, builds>>

\* Mutant: a second provider of the same name is registered beside the first.
InstallMcpTwice(p) ==
    /\ serving = "up" /\ p \in Mcp \ made
    /\ made' = made \cup {p}
    /\ registry' = Append(registry, p)
    /\ awaiting' = awaiting \cup {<<"connect", p>>}
    /\ UNCHANGED <<serving, health, offered, builds>>

\* install_mcp registers the provider before it awaits the server.
InstallMcp(p) ==
    /\ serving = "up" /\ p \in Mcp \ made
    /\ made' = made \cup {p}
    /\ IF NameOf[p] \in Names(registry) THEN UNCHANGED <<registry, awaiting>>
       ELSE /\ registry' = Append(registry, p)
            /\ awaiting' = awaiting \cup {<<"connect", p>>}
    /\ UNCHANGED <<serving, health, offered, builds>>

\* The server answered or failed: either way the listeners are told.
Connected(p, h) ==
    /\ <<"connect", p>> \in awaiting
    /\ awaiting' = awaiting \ {<<"connect", p>>}
    /\ health' = [health EXCEPT ![p] = h]
    /\ offered' = Synced(registry, health')
    /\ UNCHANGED <<serving, registry, made, builds>>

\* ingest_and_build: the generated tools are tested; a provider whose tests pass is
\* installed, unless its name is taken, and the build is recorded.
Ingest(p, passed) ==
    /\ serving = "up" /\ p \in Built \ made
    /\ made' = made \cup {p}
    /\ IF passed /\ NameOf[p] \notin Names(registry)
       THEN /\ registry' = Append(registry, p)
            /\ health' = [health EXCEPT ![p] = "healthy"]
            /\ offered' = Synced(registry', health')
            /\ builds' = builds \cup {p}
       ELSE UNCHANGED <<registry, health, offered, builds>>
    /\ UNCHANGED <<serving, awaiting>>

\* Where the dict has a provider.
Place(p) == CHOOSE n \in DOMAIN registry : registry[n] = p

\* What a disconnect leaves behind: no tools, and the listeners are told.
Gone(r, p) ==
    /\ health' = [health EXCEPT ![p] = "unavailable"]
    /\ offered' = Synced(r, health')

\* Mutant: the listeners are told before the provider is taken out.
UninstallTold(p) ==
    /\ serving = "up" /\ p \in ToSet(registry)
    /\ registry' = RemoveAt(registry, Place(p))
    /\ UNCHANGED <<health, offered, awaiting, serving, made, builds>>

\* uninstall takes the provider out of the registry, then disconnects it.
Uninstall(p) ==
    /\ serving = "up" /\ p \in ToSet(registry)
    /\ registry' = RemoveAt(registry, Place(p))
    /\ IF p \in Mcp
       THEN awaiting' = awaiting \cup {<<"disconnect", p>>} /\ UNCHANGED <<health, offered>>
       ELSE Gone(registry', p) /\ UNCHANGED awaiting
    /\ UNCHANGED <<serving, made, builds>>

Disconnected(p) ==
    /\ <<"disconnect", p>> \in awaiting
    /\ awaiting' = awaiting \ {<<"disconnect", p>>}
    /\ Gone(registry, p)
    /\ UNCHANGED <<serving, registry, made, builds>>

\* Requests have ended when the lifespan disconnects every provider.
Shutdown ==
    /\ serving = "up" /\ awaiting = {}
    /\ serving' = "down"
    /\ health' = [p \in Providers |-> IF p \in ToSet(registry) THEN "unavailable" ELSE health[p]]
    /\ offered' = Synced(registry, health')
    /\ UNCHANGED <<registry, made, awaiting, builds>>

RegistryInit ==
    /\ serving = "starting"
    /\ registry = Startup
    /\ made = ToSet(Startup)
    /\ health = [p \in Providers |-> "unknown"]
    /\ awaiting = {}
    /\ offered = {}
    /\ builds = {}

RegistryNext ==
    \/ \E up \in SUBSET ToSet(Startup) : Start(up)
    \/ \E p \in Providers :
        \/ InstallMcp(p) \/ Uninstall(p) \/ Disconnected(p)
        \/ \E h \in {"healthy", "unavailable"} : Connected(p, h)
        \/ \E passed \in BOOLEAN : Ingest(p, passed)
    \/ Shutdown

RegistrySpec == RegistryInit /\ [][RegistryNext]_registryVars

-----------------------------------------------------------------------------
\* The registries' variables stay in their types, and integration names are unique.
RegistryTypeOK ==
    /\ serving \in {"starting", "up", "down", "failed"}
    /\ registry \in Seq(Providers) /\ IsInjective([n \in DOMAIN registry |-> NameOf[registry[n]]])
    /\ ToSet(registry) \subseteq made /\ builds \subseteq made
    /\ health \in [Providers -> {"unknown", "healthy", "unavailable"}]
    /\ awaiting \subseteq {"connect", "disconnect"} \X Providers
    /\ \A a, b \in offered : a[1] = b[1] => a = b

\* No tool on offer shares its name; a disconnect is under way.
Distinct == \A s \in Slots(registry, health) : ~Clashes(registry, health, s)
Removing == \E p \in Providers : <<"disconnect", p>> \in awaiting

\* A capability offered is one of the process, or of an integration that is installed and
\* healthy, or whose removal is under way; the process's own are always offered; and while
\* no two tools share a name and no removal is under way, those of every healthy integration
\* are.
ToolsFollowProviders ==
    serving = "up" =>
        /\ \A o \in offered : \/ o[2] = Own
                              \/ o[2] \in ToSet(registry) /\ health[o[2]] = "healthy"
                              \/ <<"disconnect", o[2]>> \in awaiting
        /\ \A t \in LocalTools : <<t, Own>> \in offered
        /\ Distinct /\ ~Removing =>
               \A s \in Slots(registry, health) : ToolAt(registry, s) \in offered

=============================================================================
