---------------------------- MODULE KeyValueMap ----------------------------
(***************************************************************************)
(* What a hash map promises its callers: each key has the value it was     *)
(* last put with, and none when it was never put or has been deleted.      *)
(***************************************************************************)
CONSTANTS
  Keys,
  Values,
  NoValue     \* what a lookup of a missing key returns

VARIABLE content

Init == content = [k \in Keys |-> NoValue]

Put(k, v) == content' = [content EXCEPT ![k] = v]
Delete(k) == content' = [content EXCEPT ![k] = NoValue]
Clear     == content' = [k \in Keys |-> NoValue]

Next ==
  \/ \E k \in Keys : Delete(k) \/ \E v \in Values : Put(k, v)
  \/ Clear

Spec == Init /\ [][Next]_content
=============================================================================
