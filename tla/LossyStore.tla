----------------------------- MODULE LossyStore -----------------------------
(***************************************************************************)
(* What PassManager may rely on when a cache is attached, and all of it:   *)
(* a lookup answers nothing, or something that was put under that key.     *)
(* The store may forget any pair at any time, so the manager must be able  *)
(* to do without; nothing forgotten comes back by itself.                  *)
(***************************************************************************)
EXTENDS Naturals

CONSTANTS StoreKey, Payload

VARIABLES known,   \* pairs of a key and a value the store may still answer
          answer   \* the answer of the last lookup, if the last step was one

(* A value records the key it was made for. *)
ValuesFor(k) == [owner : {k}, len : Payload]

NoAnswer == {}

StoreInit == known = {} /\ answer = NoAnswer

PutPair(k, v) == known' \subseteq known \cup {<<k, v>>} /\ answer' = NoAnswer

Lookup(k) ==
  /\ known' \subseteq known
  /\ answer' \in {NoAnswer} \cup {{pair} : pair \in {p \in known : p[1] = k}}

ForgetPairs == known' \subseteq known /\ answer' = NoAnswer

StoreNext ==
  \/ \E k \in StoreKey : \E v \in ValuesFor(k) : PutPair(k, v)
  \/ \E k \in StoreKey : Lookup(k)
  \/ ForgetPairs

StoreSpec == StoreInit /\ [][StoreNext]_<<known, answer>>
=============================================================================
