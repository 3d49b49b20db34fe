-------------------------- MODULE MCRecommendation --------------------------
EXTENDS Recommendation, TLC

CONSTANTS c1, c2

\* The score depends on the revision for one engine; the other raises on the
\* second day's data.
MCFacts(engine, context) ==
    CASE engine = "Trend" -> [score |-> 80 - 60 * context.revision, confidence |-> 90]
      [] engine = "Volume" -> IF context.day = 2 THEN Raises ELSE [score |-> -20, confidence |-> 40]

Own(name) == [name |-> name, engine |-> name]
MCEntries == {Own("Trend"), Own("Volume"), [name |-> "Other", engine |-> "Trend"]}
MCDefaultRegistry == <<Own("Trend"), Own("Volume")>>

MCWeights == [Trend |-> 30, Volume |-> 15]

Alike == Permutations(Clients)
=============================================================================
