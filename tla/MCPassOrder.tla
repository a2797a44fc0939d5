---------------------------- MODULE MCPassOrder ----------------------------
(***************************************************************************)
(* Small instances of PassOrder: "ghost" is a name nobody registers.  The  *)
(* declarations allow chains, diamonds, self-dependencies, cycles of two   *)
(* and three names, and the same name registered several times.            *)
(***************************************************************************)
EXTENDS PassOrder

One(n) == {{d} : d \in Name \ {n}}

SmallDecl ==
  [name : {"a"}, deps : {{}, {"a"}, {"b", "c"}, {"b", "ghost"}} \cup One("a")]
    \cup [name : {"b"}, deps : {{}} \cup One("b")]
    \cup [name : {"c"}, deps : {{}} \cup One("c")]
=============================================================================
