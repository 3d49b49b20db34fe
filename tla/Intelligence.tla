---------------------------- MODULE Intelligence ----------------------------
(***************************************************************************)
(* The champion-challenger platform: which model is followed, which models *)
(* compete for its place, how each was evaluated, and what the learning    *)
(* engine made of its scores.  An evaluation is its composite score under  *)
(* the configured criterion, in percent; the metrics it is made of are any. *)
(***************************************************************************)
EXTENDS Ratios, SequencesExt, FiniteSetsExt

CONSTANTS Nobody,            \* absent
          Models,
          Scores,            \* what an evaluation may score
          RollingWindow, MinObservations,
          MaxEvaluations     \* bound on the evaluations of all models

ASSUME ScoresAssumption == Scores \subseteq Int
ASSUME WindowAssumption == RollingWindow \in Nat \ {0} /\ MinObservations \in Nat \ {0}

VARIABLES champion,      \* Nobody, or [name, score]
          challengers,   \* ordered dictionary: [name, score]
          evaluations,   \* the selector's history of each model
          learned        \* the learning engine's: Nobody, or [scores, weights, decay, adaptive]

models == <<champion, challengers, evaluations, learned>>

Unevaluated == 0         \* the score of an evaluation nobody made

-----------------------------------------------------------------------------
(* Selection *)

Named(name)       == {i \in DOMAIN challengers : challengers[i].name = name}
Challenging(name) == Named(name) # {}
IsChampion(name)  == champion # Nobody /\ champion.name = name

\* A challenge is counted at registration, evaluated or not, so the guards on
\* the number of challenges never bite; that number, the best score and the
\* periods of the champion are only reported and left out.
Model(name, score) == [name |-> name, score |-> score]

\* Champion first, then the challengers.  Of the champion's name there is one
\* candidate, with the evaluation of the challenger if it is one as well.
Candidates ==
    (IF champion = Nobody THEN <<>>
     ELSE IF Challenging(champion.name) THEN Pick(challengers, Named(champion.name))
     ELSE <<champion>>)
    \o Pick(challengers, {i \in DOMAIN challengers : ~IsChampion(challengers[i].name)})

\* The first of the best; raises without candidates.
SelectBest ==
    IF Candidates = <<>> THEN Nobody
    ELSE LET best == Highest([i \in DOMAIN Candidates |-> Candidates[i].score])
         IN Candidates[SelectInSeq(Candidates, LAMBDA c : c.score = best)].name

\* The first challenger that beats the champion's score by a tenth of it: for a
\* negative score that is one which need not even be as good.
BeatsAnyway(score, champ) == 10 * score >= 9 * champ        \* mutant
Beats(score, champ)       == 10 * score > 11 * champ
CheckReplacement ==
    LET i == SelectInSeq(challengers, LAMBDA c : Beats(c.score, champion.score))
    IN IF champion = Nobody \/ i = 0 THEN Nobody ELSE challengers[i].name

-----------------------------------------------------------------------------
(* Learning *)

\* Slope of the regression line through the scores.
Trend(scores) ==
    LET n == Len(scores)
        distance(i) == 2 * i - n - 1          \* twice the distance from the mean
    IN IF n < 2 THEN Whole(0)
       ELSE Ratio(2 * Total([i \in 1..n |-> distance(i) * scores[i]]),
                  Total([i \in 1..n |-> distance(i) * distance(i)]))

\* ChampionChallengerSelector.detect_decay and LearningEngine.detect_decay,
\* with thresholds in percent.
DetectDecay(name, threshold) ==
    Len(evaluations[name]) >= MinObservations /\ Below(Trend(evaluations[name]), threshold)
LearnedDecay(name, threshold) ==
    learned[name] # Nobody /\ Below(learned[name].decay, threshold)

Positive(x) == Larger(0, x)

\* Weights have a common denominator.  Scores without a positive one among the
\* recent leave the weights as they are and add one of 1.
ComputeWeights(weights, recent) ==
    LET total == Total([i \in DOMAIN recent |-> Positive(recent[i])])
    IN IF total = 0 THEN [parts |-> Append(weights.parts, weights.of), of |-> weights.of]
       ELSE [parts |-> [i \in DOMAIN recent |-> Positive(recent[i])], of |-> total]

\* Recent scores weighted with as many of the last weights, between 0 and 1.
ComputeAdaptiveScore(recent, weights) ==
    LET parts == LastOf(weights.parts, Len(recent))
        paired == 1..Smaller(Len(recent), Len(parts))
        weighted == Total([i \in paired |-> recent[i] * parts[i]])
        whole == Total(parts)
    IN ClampRatio(IF whole = 0 THEN Ratio(Total(recent), 100 * Len(recent)) ELSE Ratio(weighted, 100 * whole),
                  0, 1)

\* LearningEngine.update; the mutant weighs the scores as they were before.
UpdateLate(previous, score) ==
    LET scores  == IF previous = Nobody THEN <<score>> ELSE Append(previous.scores, score)
        weights == IF previous = Nobody THEN [parts |-> <<1>>, of |-> 1]
                   ELSE ComputeWeights(previous.weights, LastOf(previous.scores, RollingWindow))
    IN [scores |-> scores, weights |-> weights, decay |-> Trend(LastOf(scores, MinObservations)),
        adaptive |-> ComputeAdaptiveScore(LastOf(scores, RollingWindow), weights)]
Update(previous, score) ==
    LET scores  == IF previous = Nobody THEN <<score>> ELSE Append(previous.scores, score)
        recent  == LastOf(scores, RollingWindow)
        weights == IF previous = Nobody THEN [parts |-> <<1>>, of |-> 1]
                   ELSE ComputeWeights(previous.weights, recent)
    IN [scores |-> scores, weights |-> weights, decay |-> Trend(LastOf(scores, MinObservations)),
        adaptive |-> ComputeAdaptiveScore(recent, weights)]

-----------------------------------------------------------------------------
(* Operations of the intelligence engine *)

ModelsInit ==
    /\ champion = Nobody
    /\ challengers = <<>>
    /\ evaluations = [m \in Models |-> <<>>]
    /\ learned = [m \in Models |-> Nobody]

Made == MapThenSumSet(
    LAMBDA m : Larger(Len(evaluations[m]), IF learned[m] = Nobody THEN 0 ELSE Len(learned[m].scores)), Models)

\* A challenger of that name stays one.
RegisterChampion(name, score) ==
    /\ champion' = Model(name, score)
    /\ UNCHANGED <<challengers, evaluations, learned>>

\* Raises for a name that is registered; the champion's may be.
RegisterChallenger(name, supplied) ==
    /\ ~Challenging(name)
    /\ supplied # Nobody => Made < MaxEvaluations
    /\ challengers' = Append(challengers, Model(name, IF supplied = Nobody THEN Unevaluated ELSE supplied))
    /\ evaluations' = IF supplied = Nobody THEN evaluations
                      ELSE [evaluations EXCEPT ![name] = Append(@, supplied)]
    /\ UNCHANGED <<champion, learned>>

UnregisterChallenger(name) ==
    /\ Challenging(name)
    /\ challengers' = Pick(challengers, DOMAIN challengers \ Named(name))
    /\ UNCHANGED <<champion, evaluations, learned>>

\* evaluate() registers a model it does not know, before it evaluates it.
Registered(name) ==
    IF IsChampion(name) \/ Challenging(name) THEN challengers
    ELSE Append(challengers, Model(name, Unevaluated))

Evaluate(name, score) ==
    /\ Made < MaxEvaluations
    /\ evaluations' = [evaluations EXCEPT ![name] = Append(@, score)]
    /\ challengers' = [i \in DOMAIN Registered(name) |->
          IF Registered(name)[i].name = name THEN Model(name, score) ELSE Registered(name)[i]]
    /\ champion' = IF IsChampion(name) THEN Model(name, score) ELSE champion
    /\ learned' = [learned EXCEPT ![name] = Update(@, score)]

\* Predictions and actuals of different length raise, and the model has been
\* registered by then.
EvaluateRaises(name) ==
    /\ challengers' = Registered(name)
    /\ UNCHANGED <<champion, evaluations, learned>>

UpdateLearning(name, score) ==
    /\ Made < MaxEvaluations
    /\ learned' = [learned EXCEPT ![name] = Update(@, score)]
    /\ UNCHANGED <<champion, challengers, evaluations>>

\* The old champion is no challenger afterwards.
PromoteChallenger(name) ==
    /\ \E i \in DOMAIN challengers : challengers[i].name = name /\ champion' = challengers[i]
    /\ challengers' = Pick(challengers, DOMAIN challengers \ Named(name))
    /\ UNCHANGED <<evaluations, learned>>

ModelsNext ==
    \E name \in Models :
        \/ \E score \in Scores : Evaluate(name, score) \/ UpdateLearning(name, score)
        \/ \E score \in Scores \union {Unevaluated} : RegisterChampion(name, score)
        \/ \E supplied \in Scores \union {Nobody} : RegisterChallenger(name, supplied)
        \/ UnregisterChallenger(name) \/ EvaluateRaises(name) \/ PromoteChallenger(name)

-----------------------------------------------------------------------------
\* The adaptive score depends on the recent scores alone: a mean in which each
\* positive one counts by itself and the others not at all.  The weights that are
\* carried along while nothing is positive, more of them than the window is
\* long, never meet scores they were not made for.
SelfWeighted(scores) ==
    LET recent  == LastOf(scores, RollingWindow)
        sum     == Total([i \in DOMAIN recent |-> Positive(recent[i])])
        squares == Total([i \in DOMAIN recent |-> Positive(recent[i]) * recent[i]])
    IN IF sum = 0 THEN Whole(0) ELSE ClampRatio(Ratio(squares, 100 * sum), 0, 1)
AdaptiveScoreForgets ==
    \A m \in Models : learned[m] # Nobody => Same(learned[m].adaptive, SelfWeighted(learned[m].scores))

\* Selection and replacement agree on a champion with a score that is not
\* negative: while select_best names it, check_replacement names nobody.  (A model
\* registered as champion and as challenger has two scores and is left aside.)
BestIsKept ==
    /\ champion # Nobody
    /\ champion.score >= 0 /\ ~Challenging(champion.name)
    /\ SelectBest = champion.name
    => CheckReplacement = Nobody
=============================================================================
