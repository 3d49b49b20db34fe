----------------------------- MODULE Strategies -----------------------------
(***************************************************************************)
(* What a strategy makes of an evaluated stock: the six built-in           *)
(* strategies put the result of the chain (Decision) through a list of     *)
(* gates.                                                                  *)
(***************************************************************************)
EXTENDS Decision

\* A gate is whether it fails and what it says; the last gate that fails gives
\* the reason.
Gate(fails, reason) == [fails |-> fails, reason |-> reason]

BearGate(x, cfg)  == Gate(x.assessed.market.class = "Bear" /\ ~cfg.allow_bear, "bear")
\* The mutant reads allow_extended the other way round.
ExtendedGateInverted(x, cfg) == Gate(x.assessed.trend.stage = "Extended" /\ cfg.allow_extended, "extended")
ExtendedGate(x, cfg) == Gate(x.assessed.trend.stage = "Extended" /\ ~cfg.allow_extended, "extended")
CompositeGate(x, cfg) == Gate(x.composite.overall < 100 * cfg.min_composite, "composite")
ConfidenceGate(x, cfg) == Gate(x.composite.confidence < 100 * cfg.min_confidence, "confidence")
RiskGate(x) == Gate(~x.risk.allowed, "risk")
AvoidGate(x) == Gate(x.composite.recommendation = "AVOID", "avoid")
MinimumGate(x, source, minimum) ==
    Gate(minimum > 0 /\ Raw(x.assessed, source) < Points(minimum), source)

MomentumGates(x, cfg) ==
    <<BearGate(x, cfg), ExtendedGate(x, cfg), CompositeGate(x, cfg), ConfidenceGate(x, cfg),
      RiskGate(x), AvoidGate(x)>>
BreakoutGates(x, cfg) ==
    <<MinimumGate(x, "pattern", cfg.min_pattern), MinimumGate(x, "volume", cfg.min_volume),
      CompositeGate(x, cfg), ConfidenceGate(x, cfg), RiskGate(x), BearGate(x, cfg)>>
TrendFollowingGates(x, cfg) ==
    <<MinimumGate(x, "trend", cfg.min_trend), BearGate(x, cfg), MinimumGate(x, "rs", cfg.min_rs),
      CompositeGate(x, cfg), ConfidenceGate(x, cfg), RiskGate(x)>>
GrowthGates(x, cfg) ==
    <<CompositeGate(x, cfg), ConfidenceGate(x, cfg),
      Gate(~cfg.ignore_pattern /\ cfg.require_pattern /\ x.assessed.pattern.score = 0, "no pattern"),
      RiskGate(x), BearGate(x, cfg)>>
QualityGates(x, cfg) ==
    <<Gate(x.assessed.market.class \in {"Bear", "Weak"}, "regime"), CompositeGate(x, cfg),
      ConfidenceGate(x, cfg), Gate(x.risk.grade >= 4, "grade"), RiskGate(x)>>
CustomGates(x, cfg) ==
    <<BearGate(x, cfg), ExtendedGate(x, cfg), CompositeGate(x, cfg), ConfidenceGate(x, cfg),
      MinimumGate(x, "pattern", cfg.min_pattern), MinimumGate(x, "volume", cfg.min_volume),
      MinimumGate(x, "trend", cfg.min_trend), MinimumGate(x, "rs", cfg.min_rs),
      Gate(cfg.strong_trend /\ x.assessed.trend.quality \notin {"Strong", "Exceptional"}, "trend quality"),
      RiskGate(x)>>

StrategyTypes == {"momentum", "breakout", "trend", "growth", "quality", "custom"}

GatesOf(type, x, cfg) ==
    CASE type = "momentum" -> MomentumGates(x, cfg) [] type = "breakout" -> BreakoutGates(x, cfg)
      [] type = "trend" -> TrendFollowingGates(x, cfg) [] type = "growth" -> GrowthGates(x, cfg)
      [] type = "quality" -> QualityGates(x, cfg) [] type = "custom" -> CustomGates(x, cfg)

\* The configuration is refused before anything is evaluated.
ValidConfiguration(cfg) == cfg.min_composite >= 0 /\ cfg.min_confidence \in 0..100

Verdict(type, x, cfg) ==
    LET gates  == GatesOf(type, x, cfg)
        failed == {i \in DOMAIN gates : gates[i].fails}
        last   == CHOOSE i \in failed : \A j \in failed : j <= i
    IN IF ~ValidConfiguration(cfg) THEN [approved |-> FALSE, reason |-> "ValueError"]
       ELSE [approved |-> failed = {},
             reason |-> IF failed = {} THEN "met" ELSE gates[last].reason]
=============================================================================
