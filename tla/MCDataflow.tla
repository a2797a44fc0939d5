------------------------------ MODULE MCDataflow ------------------------------
(***************************************************************************)
(* Graphs of three nodes: an entry, loops through the entry and the exit,  *)
(* a node with two edges in, parallel edges; constant propagation as the   *)
(* domain, as in the tests of analysis.rs.                                 *)
(***************************************************************************)
EXTENDS DataflowAnalysis

MCKind        == {"pass", "two"}
MCEdgeChoice  == {<<0, 1>>, <<1, 2>>, <<2, 1>>, <<2, 0>>}
MCEntryChoice == {0}
MCExitChoice  == {2}

MCValue == {"bottom", "one", "two", "top"}
MCJoin(a, b) == IF a = b \/ b = "bottom" THEN a ELSE IF a = "bottom" THEN b ELSE "top"
MCMeet(a, b) == IF a = b \/ b = "top" THEN a ELSE IF a = "top" THEN b ELSE "bottom"
MCTransfer(k, v) == IF k = "two" THEN "two" ELSE v

ASSUME MonotoneTransfer
=============================================================================
