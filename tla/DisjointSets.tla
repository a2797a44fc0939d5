---------------------------- MODULE DisjointSets ----------------------------
(***************************************************************************)
(* Disjoint sets as their users see them: `c` maps an element to the set   *)
(* it is in, and to {} as long as nobody has added it.                     *)
(***************************************************************************)

Inserted(c, S) == [z \in DOMAIN c |-> IF z \in S /\ c[z] = {} THEN {z} ELSE c[z]]

Joined(c, x, y) ==
  [z \in DOMAIN c |-> IF z \in c[x] \cup c[y] THEN c[x] \cup c[y] ELSE c[z]]

Together(c, x, y) == c[x] # {} /\ c[x] = c[y]
=============================================================================
