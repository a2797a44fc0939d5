-------------------------- MODULE MCCacheDirectory --------------------------
(***************************************************************************)
(* AnalysisCache with its directory and its dependency graph.  The calls   *)
(* about results leave the graph alone, and those about the graph leave    *)
(* the results alone, so a behavior uses one of the two.  The results are  *)
(* those of one pass under two configurations, with room for one.          *)
(***************************************************************************)
EXTENDS AnalysisCache, DependencyGraph

VARIABLE side   \* what the behavior uses

MCEntryKey == [pass : {"solver"}, config : {0, 1}]

MCInit == side \in {"results", "graph"} /\ DirectoryInit /\ GraphInit

UseResults == side = "results" /\ DirectoryNext /\ UNCHANGED <<side, graphVars>>

UseGraph == side = "graph" /\ GraphNext /\ UNCHANGED <<side, cacheVars, diskVars>>

MCSpec == MCInit /\ [][UseResults \/ UseGraph]_<<side, cacheVars, diskVars, graphVars>>
=============================================================================
