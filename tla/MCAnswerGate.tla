---------------------------- MODULE MCAnswerGate ----------------------------
EXTENDS AnswerGate

E(path, value, read) == [path |-> path, value |-> value, read |-> read]
Weighed(h0, h1, chosen, tiebreak) == [H0 |-> h0, H1 |-> h1, chosen |-> chosen, tiebreak |-> tiebreak]
Side(level, p, basis, value) == [level |-> level, p |-> p, basis |-> basis, value |-> value]
Block(target, horizon, verdict, divergence, rationale) ==
    [target |-> target, horizon |-> horizon, verdict |-> verdict, divergence |-> divergence,
     rationale |-> rationale, echoes |-> TRUE]
Turn(evidence, hypothesis, scenario, weighing, declared) ==
    [evidence |-> evidence, hypothesis |-> hypothesis, confidence |-> Null,
     scenario |-> scenario, weighing |-> weighing, intent |-> declared]

MCTexts == {"104.80", "104.8", "110", "junk"}
MCCanonicalOf == [t \in MCTexts |-> CASE t = "104.80" -> "104.8" [] t = "junk" -> Null [] OTHER -> t]
MCFrames ==
    {[divergence |-> d, dataGate |-> g, covered |-> TRUE, fit |-> "r2", p |-> 60, directive |-> TRUE] :
        d \in {"forbidden", "declared"}, g \in {"validated"}}
    \cup {[divergence |-> "declared", dataGate |-> "validated", covered |-> c, fit |-> "r2", p |-> 40, directive |-> FALSE] : c \in BOOLEAN}
    \cup {[divergence |-> "declared", dataGate |-> "provisional", covered |-> TRUE, fit |-> Null, p |-> Null, directive |-> TRUE]}

Declares(mode, target, grounded) == [mode |-> mode, target |-> target, horizon |-> Null, grounded |-> grounded]
Silent(declared) == Turn(<<>>, Null, Null, Null, declared)
ByH1 == Weighed(Side("low", 30, "fit", "r2"), Side("medium", 70, "fit", Null), "H1", FALSE)
Tied == Weighed(Side("medium", Null, "exceed", Null), Side("medium", Null, "fit", Null), "H0", TRUE)
High == Weighed(Side("low", 10, "fit", Null), Side("high", 95, "fit", Null), "H1", FALSE)

MCReasonTurns ==
    {Silent(Declares("revision", "110", TRUE)), Silent(Declares("revision", "110", FALSE)),
     Silent(Declares("as_asked", Null, FALSE)),
     Turn(<<E("exceed", Null, TRUE), E("fit", "r3", TRUE)>>, "both", Null, Tied, Null),
     Turn(<<E("exceed", "above", FALSE), E(Null, "1", TRUE)>>, "H0", Null, Null, Null)}
MCFinalTurns ==
    {Turn(<<E("delta", "7", TRUE), E("exceed", "above", TRUE), E("fit", "r2", TRUE)>>, "both",
          Block("104.8", "1h", "reachable", FALSE, "long"), ByH1, Null),
     Turn(<<E("delta", "7", TRUE), E("refusal", Null, TRUE)>>, "both",
          Block("104.8", "1h", "unevaluable", FALSE, "cause"), Null, Null),
     Turn(<<E("delta", "7", TRUE), E("exceed", Null, TRUE), E("memory", "1", TRUE)>>, "both",
          Block("110", "1h", "not_reachable", TRUE, "long"), Tied, Null),
     Turn(<<E("delta", "7", TRUE), E("exceed", "zero", TRUE)>>, "both",
          Block("104.8", "1h", "unevaluable", FALSE, "cause"), High, Declares("refuse", Null, FALSE))}
MCAuthored ==
    {Turn(<<E("exceed", "above", TRUE), E("memory", "1", TRUE)>>, "both",
          Block("104.8", "1h", "reachable", FALSE, "long"), ByH1, Null),
     Turn(<<E("refusal", Null, TRUE), E("delta", Null, TRUE), E("fit", Null, TRUE)>>, "both",
          Block("104.8", "1h", "unevaluable", FALSE, "cause"), Tied, Null),
     Turn(<<E("nowhere", "3", TRUE)>>, Null, Null, Null, Null)}

MCScenarioCalls ==
    {[target |-> "104.8", horizon |-> "1h"], [target |-> "110", horizon |-> Null],
     [target |-> "junk", horizon |-> Null]}
=============================================================================
