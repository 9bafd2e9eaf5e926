\* One small instance of each part.
SPECIFICATION Spec
CONSTANTS
    Backend = "postgresql"
    row1 = row1
    row2 = row2
    row3 = row3
    ask1 = ask1
    ask2 = ask2
    ask3 = ask3
    \* Planner
    Asks <- MCAsks
    \* CapabilityRegistry
    Providers = {"sys", "mcp", "again", "files", "late"}
    Startup <- MCStartup
    Mcp = {"mcp", "again"}
    Built = {"files", "late"}
    NameOf <- MCNameOf
    ToolsOf <- MCToolsOf
    LocalTools = {"files.write"}
    \* Credentials
    OAuthProviders = {"google", "meta"}
    ClientId <- MCClientId
    StateLife = 1
    TokenLife = 1
    MaxNow = 2
    MaxSecret = 3
    MaxIssued = 8
    \* MemoryService
    Rows = {row1, row2, row3}
    Requests = {ask1, ask2, ask3}
    Keys = {"k"}
    RowLocks <- MCRowLocks
    \* VoiceSession
    MaxTurns = 2
    MaxStops = 2
    \* SkillLibrary: a built-in skill, and a definition that replaces it
    Skills = {"qualify_lead"}
    Builtins = {"qualify_lead"}
    Definitions = {"qualify_lead", "made"}
    Executions = {"first", "second"}
    Registered <- MCRegistered
    NeedsOf <- MCNeedsOf
    Procedures <- MCProcedures
    MaxVersions = 1
    \* ReasoningLoop
    Runs = {"executive", "analyst"}
    Tools <- MCRegistered
    Callable <- MCCallable
    Turns <- MCTurns
    Started = {"executive"}
    Words <- MCWords
    Ruled = {"open_youtube"}
    MaxAnswer = 2
    \* Submission
    Callers = {"c1", "c2"}
    KeysOf <- MCKeysOf
    Steered = 1
    MaxLives = 2
    \* Outreach
    Bookings = {"b1", "b2"}
    Wants <- MCWants
    Listed = {"sky lounge"}
    StepKeys <- MCStepKeys
    Channels = {"sms"}
    Numbers = {"", "+14155550100", "4155550100"}
    MaxCalls = 2
    MaxEvents = 2
    MaxMessages = 2
    \* AdAccounts
    Accounts <- MCAccounts
    Budgets <- MCBudgets
    MaxCampaigns = 2
    MaxBelow = 1
    \* Oversight
    Custom <- MCCustom
    Overrides <- MCOverrides
    MaxTriggers = 6
    MaxEvaluations = 3
    MaxGoals = 1
INVARIANTS TypeOK PlanIsFirstIntent PlansAreServed ToolsFollowProviders StatesGrantOnce
    RunsAreAccounted OneTaskPerKey OutreachIsBacked OversightIsSound
PROPERTIES WithdrawnIsSilent RequestsAreAtomic
CHECK_DEADLOCK FALSE
