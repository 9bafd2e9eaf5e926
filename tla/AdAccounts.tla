------------------------------- MODULE AdAccounts -------------------------------
(***************************************************************************)
(* MetaClient (integrations/meta/client.py): the advertising objects of    *)
(* the process and the figures it reports of them.  An object may name a   *)
(* parent that does not exist, except a campaign: its account is added.    *)
(*                                                                         *)
(* Money is in tenths of the currency's unit; 0 is also "no budget".       *)
(***************************************************************************)
EXTENDS Integers, Sequences, SequencesExt, FiniteSets

CONSTANTS
    Accounts,   \* ids a request may name, the seeded one first
    Budgets,    \* daily budgets a request may name
    MaxCampaigns, MaxBelow  \* bounds on the campaigns, and on the objects below them

\* Any amount: the HTTP schemas refuse a negative one, the meta tools pass on what they are given.
ASSUME BudgetsAssumption == Budgets \subseteq Int

VARIABLES
    accounts,   \* the accounts that exist
    campaigns,  \* in order of creation: account, status, daily budget
    below,      \* ad sets, creatives and ads: kind, the parent named, status and budget
    figures,    \* the spend kept for a campaign, 0 before the first report
    had,        \* campaign -> every daily budget it has had
    shown       \* campaign -> the spends reported of it

adVars == <<accounts, campaigns, below, figures, had, shown>>

Campaign(account, status, budget) == [account |-> account, status |-> status, budget |-> budget]

\* The number of a campaign names its insights.
Known(c) == c \in DOMAIN campaigns

-----------------------------------------------------------------------------
\* Mutant: the account a campaign names need not exist.
CreateUnowned(account, status, budget) ==
    /\ Len(campaigns) < MaxCampaigns
    /\ campaigns' = Append(campaigns, Campaign(account, status, budget))
    /\ figures' = Append(figures, 0) /\ had' = Append(had, {budget}) /\ shown' = Append(shown, {})
    /\ UNCHANGED <<accounts, below>>

CreateCampaign(account, status, budget) ==
    /\ Len(campaigns) < MaxCampaigns
    /\ accounts' = accounts \cup {account}
    /\ campaigns' = Append(campaigns, Campaign(account, status, budget))
    /\ figures' = Append(figures, 0) /\ had' = Append(had, {budget}) /\ shown' = Append(shown, {})
    /\ UNCHANGED below

UpdateCampaign(c, status, budget) ==
    /\ Known(c)
    /\ campaigns' = [campaigns EXCEPT ![c].status = status, ![c].budget = budget]
    /\ had' = [had EXCEPT ![c] = @ \cup {budget}]
    /\ UNCHANGED <<accounts, below, figures, shown>>

\* create_adset, create_creative and create_ad look nothing up.
CreateBelow(kind, parent, budget) ==
    /\ Len(below) < MaxBelow
    /\ below' = Append(below, [kind |-> kind, parent |-> parent, status |-> "PAUSED", budget |-> budget])
    /\ UNCHANGED <<accounts, campaigns, figures, had, shown>>

UpdateAdSet(n, status, budget) ==
    /\ n \in DOMAIN below /\ below[n].kind = "adset"
    /\ below' = [below EXCEPT ![n].status = status, ![n].budget = budget]
    /\ UNCHANGED <<accounts, campaigns, figures, had, shown>>

\* get_insights: a fortnight of the budget, 800.0 without one; what is kept is never made again.
Fortnight(budget) == 14 * (IF budget = 0 THEN 8000 ELSE budget)
Clicks(spend)     == IF spend >= 0 THEN spend \div 85 ELSE -((-spend) \div 85)   \* int(): toward zero
Divides(spend)    == Clicks(spend) # 0   \* else the ratios raise ZeroDivisionError

\* Mutant: the figures are made anew for each report.
SpendNow(c) == Fortnight(campaigns[c].budget)

Spend(c) == IF figures[c] = 0 THEN Fortnight(campaigns[c].budget) ELSE figures[c]

\* The insights of a campaign, and its report.
Report(c) ==
    /\ Known(c) /\ campaigns[c].account \in accounts
    /\ Divides(Spend(c))
    /\ figures' = [figures EXCEPT ![c] = Spend(c)]
    /\ shown' = [shown EXCEPT ![c] = @ \cup {Spend(c)}]
    /\ UNCHANGED <<accounts, campaigns, below, had>>

\* _seed_default_data.
AdsInit ==
    /\ accounts = {Head(Accounts)}
    /\ campaigns = <<Campaign(Head(Accounts), "ACTIVE", 8000)>>
    /\ below = <<>>
    /\ figures = <<112000>> /\ had = <<{8000}>> /\ shown = <<{}>>

AdsNext ==
    \/ \E account \in ToSet(Accounts), status \in {"PAUSED", "ACTIVE"}, budget \in Budgets :
        CreateCampaign(account, status, budget)
    \/ \E c \in 1..MaxCampaigns :
        \/ \E status \in {"PAUSED", "ACTIVE"}, budget \in Budgets : UpdateCampaign(c, status, budget)
        \/ Report(c)
    \/ \E kind \in {"adset", "creative", "ad"}, parent \in 1..MaxCampaigns : CreateBelow(kind, parent, 0)
    \/ \E n \in 1..MaxBelow, budget \in Budgets : UpdateAdSet(n, "ACTIVE", budget)

AdsSpec == AdsInit /\ [][AdsNext]_adVars

-----------------------------------------------------------------------------
\* A campaign has an account, and every report of it shows one figure, however its budget
\* was changed between them: a fortnight of a budget it has had, of at least one click in
\* absolute value, so a negative budget is reported as a negative spend.
FiguresStand ==
    \A c \in DOMAIN campaigns :
        /\ campaigns[c].account \in accounts
        /\ Cardinality(shown[c]) <= 1
        /\ \A spend \in shown[c] : Divides(spend) /\ \E budget \in had[c] : spend = Fortnight(budget)

=============================================================================
