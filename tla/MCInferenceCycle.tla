-------------------------- MODULE MCInferenceCycle --------------------------
(* A cycle over three tools: a substrate of the first position, a scenario  *)
(* of the second that the plan may have acquired, that needs the substrate  *)
(* and is a link of the chain, and the audit, the one link that lives in    *)
(* validation.                                                              *)
EXTENDS InferenceCycle

MCTools    == {"ofi", "scenario", "audit"}
MCPosition == [ofi |-> 1, scenario |-> 2, audit |-> 0]
MCNeeds    == [ofi |-> {}, scenario |-> {"ofi"}, audit |-> {}]
MCLinks    == [scenario |-> {}, audit |-> {"scenario"}]

MCHomes ==
    [ofi      |-> {<<"context", "acquisition">>, <<"reasoning", "analysis">>},
     scenario |-> {<<"reasoning", "analysis">>},
     audit    |-> {<<"validation", "gate">>}]

Ok(t)     == [tool |-> t, args |-> "a", shape |-> "ok"]
Again(t)  == [tool |-> t, args |-> "b", shape |-> "ok"]
Broken(t) == [tool |-> t, args |-> "a", shape |-> "args"]

MCTurns ==
    {<<>>, <<Ok("ofi"), Broken("audit")>>, <<Again("ofi"), Ok("scenario")>>}

MCPassBudget == [evidence |-> 2, reasoning |-> 2]
=============================================================================
