------------------------------- MODULE Oversight -------------------------------
(***************************************************************************)
(* ProactiveCeoEngine (proactive/engine.py): triggers over the metrics of  *)
(* the business, and goals; and the gate of ProductionHardeningEngine      *)
(* (production/engine.py) that weighs confidence against risk.  Metrics    *)
(* and thresholds are in tenths, confidence in hundredths, and evidence is *)
(* there or not.  What records costs and telemetry is called by nothing in *)
(* the program, and left out.                                              *)
(***************************************************************************)
EXTENDS Naturals, Sequences, SequencesExt, FiniteSets

CONSTANTS
    Custom,          \* conditions of the triggers a client may create
    Overrides,       \* the metrics a client may send with an evaluation, each a function
    MaxTriggers,     \* bounds on the triggers,
    MaxEvaluations,  \* the evaluations,
    MaxGoals         \* and the goal trees created

VARIABLES
    triggers,  \* in order: condition, whether critical and enabled, and the count of firings
    readings,  \* the metrics of every evaluation, with the number of triggers it met
    insights,  \* the triggers whose insight is kept
    alerts,    \* the critical ones among those of the latest report
    goals      \* number of goal trees

oversightVars == <<triggers, readings, insights, alerts, goals>>

-----------------------------------------------------------------------------
When(metric, operator, threshold) == [metric |-> metric, operator |-> operator, threshold |-> threshold]
Trigger(condition, critical, enabled) ==
    [condition |-> condition, critical |-> critical, enabled |-> enabled, firings |-> 0]

\* _seed_builtin_triggers.
BuiltinTriggers == <<
    Trigger(When("cash_runway_months", "<", 30), TRUE, TRUE),
    Trigger(When("overdue_invoices_count", ">", 0), FALSE, TRUE),
    Trigger(When("meta_cpa_pct_change", ">", 150), FALSE, TRUE),
    Trigger(When("fulfillment_open_exceptions", ">", 100), TRUE, TRUE),
    Trigger(When("stagnant_deals_count", ">", 20), FALSE, TRUE) >>

Baseline == [
    cash_runway_months |-> 54, overdue_invoices_count |-> 20, overdue_amount_inr |-> 850000,
    meta_cpa_pct_change |-> 185, fulfillment_open_exceptions |-> 30, stagnant_deals_count |-> 40,
    system_errors_count |-> 0]

Holds(condition, value) ==
    CASE condition.operator = "<"  -> value < condition.threshold
      [] condition.operator = "<=" -> value <= condition.threshold
      [] condition.operator = ">=" -> value >= condition.threshold
      [] condition.operator = "==" -> value = condition.threshold
      [] condition.operator = "!=" -> value # condition.threshold
      [] condition.operator \in {">", "pct_change_gt"} -> value > condition.threshold
      [] OTHER -> FALSE

Metrics(override) == [m \in DOMAIN Baseline \cup DOMAIN override |->
                        IF m \in DOMAIN override THEN override[m] ELSE Baseline[m]]

\* A metric nobody sends meets no condition.
Met(condition, metrics) ==
    /\ condition.metric \in DOMAIN metrics
    /\ Holds(condition, metrics[condition.metric])

\* Mutant: whether a trigger is enabled is not asked.
FiresAnyway(trigger, metrics) == Met(trigger.condition, metrics)

\* A disabled trigger is passed over.
Fires(trigger, metrics) == trigger.enabled /\ Met(trigger.condition, metrics)

CreateTrigger(condition, critical, enabled) ==
    /\ Len(triggers) < MaxTriggers
    /\ triggers' = Append(triggers, Trigger(condition, critical, enabled))
    /\ UNCHANGED <<readings, insights, alerts, goals>>

CreateGoal ==
    /\ goals < 3 + MaxGoals
    /\ goals' = goals + 1
    /\ UNCHANGED <<triggers, readings, insights, alerts>>

\* evaluate_business_state.
Evaluate(override) ==
    /\ Len(readings) < MaxEvaluations
    /\ LET metrics == Metrics(override)
           fired   == {n \in DOMAIN triggers : Fires(triggers[n], metrics)}
       IN  /\ triggers' = [n \in DOMAIN triggers |-> [triggers[n] EXCEPT !.firings = IF n \in fired THEN @ + 1 ELSE @]]
           /\ insights' = fired
           /\ alerts' = {n \in fired : triggers[n].critical}
           /\ readings' = Append(readings, [metrics |-> metrics, met |-> Len(triggers)])
    /\ UNCHANGED goals

-----------------------------------------------------------------------------
\* verify_confidence, strictest first.
Gates == <<"BLOCK", "REQUIRE_HUMAN_APPROVAL", "REQUIRE_ADDITIONAL_EVIDENCE", "ALLOW_AUTONOMOUS">>

Gate(risk, confidence, evidence) ==
    IF risk < 2 THEN (IF confidence >= 60 THEN "ALLOW_AUTONOMOUS" ELSE "REQUIRE_ADDITIONAL_EVIDENCE")
    ELSE IF confidence < 50 THEN "BLOCK"
    ELSE IF confidence < 85 THEN "REQUIRE_HUMAN_APPROVAL"
    ELSE IF ~evidence THEN "REQUIRE_ADDITIONAL_EVIDENCE"
    ELSE "ALLOW_AUTONOMOUS"

-----------------------------------------------------------------------------
OversightInit ==
    /\ triggers = BuiltinTriggers
    /\ readings = <<>> /\ insights = {} /\ alerts = {} /\ goals = 3

OversightNext ==
    \/ \E condition \in Custom : \E critical, enabled \in BOOLEAN : CreateTrigger(condition, critical, enabled)
    \/ \E override \in Overrides : Evaluate(override)
    \/ CreateGoal

OversightSpec == OversightInit /\ [][OversightNext]_oversightVars

Laxity(gate) == CHOOSE n \in DOMAIN Gates : Gates[n] = gate

\* More confidence, more evidence or less risk never meets a stricter gate.
GateIsMonotone ==
    LET Cases == (0..4) \X {0, 49, 50, 59, 60, 84, 85, 100} \X BOOLEAN
    IN  \A x, y \in Cases :
            x[1] >= y[1] /\ x[2] <= y[2] /\ (x[3] => y[3]) =>
                Laxity(Gate(x[1], x[2], x[3])) <= Laxity(Gate(y[1], y[2], y[3]))

\* The evaluations since trigger n was created whose metrics met its condition.
Meetings(n) == {k \in DOMAIN readings : n <= readings[k].met /\ Met(triggers[n].condition, readings[k].metrics)}

\* An enabled trigger has fired as often as an evaluation after it was created met its
\* condition, a disabled one never; the insights kept are those of the last evaluation, of
\* enabled triggers whose condition it met, and the alerts are among them.
FiringsAreCounted ==
    /\ \A n \in DOMAIN triggers :
        triggers[n].firings = IF triggers[n].enabled THEN Cardinality(Meetings(n)) ELSE 0
    /\ alerts \subseteq insights
    /\ readings # <<>> =>
        insights = {n \in 1..Last(readings).met :
                       triggers[n].enabled /\ Met(triggers[n].condition, Last(readings).metrics)}

=============================================================================
