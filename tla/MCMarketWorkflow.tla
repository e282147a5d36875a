-------------------------- MODULE MCMarketWorkflow --------------------------
(* Instances of MarketWorkflow for TLC: beat's refresh, a requested workflow *)
(* and a full refresh over one worker or several.                            *)
EXTENDS MarketWorkflow

CONSTANTS beat, asked, full

MCKind == [j \in Jobs |-> IF j = full THEN "full" ELSE IF j = asked THEN "workflow" ELSE "refresh"]
=============================================================================
