-------------------------- MODULE MCProjectPipeline --------------------------
(***************************************************************************)
(* A project of two inputs beside another loader.  The contents: "ir",     *)
(* which every backend loads; "odd", of which the extractor makes nothing, *)
(* the pass output that does not parse, and the readers an error.          *)
(***************************************************************************)
EXTENDS ProjectPipeline

MCContent == {"ir", "odd"}

MCOutcome ==
  [b \in Backend |-> [c \in MCContent |->
     CASE c = "ir" -> "module"
       [] c = "odd" /\ b \in {"ffi", "direct"} -> "empty"
       [] c = "odd" /\ b = "pass" -> "garbled"
       [] OTHER -> "error"]]

MCExtension == [path \in Path |-> IF path = "p.ll" THEN "ll" ELSE "msgpack"]
MCIsLarge   == [path \in Path |-> FALSE]
MCAvailable       == {"direct", "pass", "text", "msgpack"}
MCInputs          == <<"p.ll", "q.msgpack">>
MCOtherLoads      == {<<"p.ll", "auto_fast">>, <<"p.ll", "direct">>}
=============================================================================
