--------------------------- MODULE MCPassManager ---------------------------
(***************************************************************************)
(* Three passes over three keys.  `collect` stores facts, `enrich` extends *)
(* them into a summary, `report` emits issues from both; `enrich` may      *)
(* fail.  The clients register them in several orders, with one dependency *)
(* nobody provides, with a cycle, or without saying what `report` needs.   *)
(***************************************************************************)
EXTENDS PassManager

Pass(n, ds) == [name |-> n, deps |-> ds]

Collect == Pass("collect", {})
Enrich  == Pass("enrich", {"collect"})
Report  == Pass("report", {"collect", "enrich"})

(* `refine` extends the facts while `audit` holds the older ones. *)
StaleRegistrations ==
  { <<Collect, Pass("refine", {"collect"}), Pass("audit", {"collect"}),
      Pass("report", {"refine", "audit"})>> }

MCRegistrations ==
  { <<Collect, Enrich, Report>>,
    <<Report, Enrich, Collect>>,
    <<Enrich, Report, Collect, Pass("audit", {})>>,
    <<Pass("audit", {"ghost"}), Collect, Enrich, Pass("report", {"audit", "collect"})>>,
    <<Pass("collect", {"report"}), Enrich, Report>>,
    <<Pass("report", {}), Collect, Enrich>> } \cup StaleRegistrations

MCDecl == UNION {{r[i] : i \in DOMAIN r} : r \in MCRegistrations}

Plain == [gated |-> FALSE, internal |-> FALSE]
Gated == [gated |-> TRUE, internal |-> FALSE]

MCEffect ==
  [collect |-> [reads |-> {"module"}, fresh |-> {"facts"}, extended |-> {},
                issues |-> <<Gated>>, mayFail |-> FALSE],
   enrich  |-> [reads |-> {"facts"}, fresh |-> {"srt"}, extended |-> {"summary"},
                issues |-> <<>>, mayFail |-> TRUE],
   report  |-> [reads |-> {"facts", "summary"}, fresh |-> {}, extended |-> {},
                issues |-> <<Gated, Plain>>, mayFail |-> FALSE],
   audit   |-> [reads |-> {"facts"}, fresh |-> {}, extended |-> {},
                issues |-> <<Plain>>, mayFail |-> FALSE],
   refine  |-> [reads |-> {"facts"}, fresh |-> {}, extended |-> {"facts"},
                issues |-> <<>>, mayFail |-> FALSE],
   ghost   |-> [reads |-> {}, fresh |-> {}, extended |-> {},
                issues |-> <<>>, mayFail |-> FALSE]]
=============================================================================
