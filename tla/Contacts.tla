------------------------------ MODULE Contacts ------------------------------
(***************************************************************************)
(* What follow and block promise the users: a relation of follows that a   *)
(* block cuts in both directions and keeps cut, at once and for good.      *)
(***************************************************************************)
CONSTANT User

VARIABLES
  following,  \* pairs <<a, b>>: a follows b
  blocking    \* pairs <<a, b>>: a has blocked b

vars == <<following, blocking>>

Pair == {p \in User \X User : p[1] # p[2]}

\* The two directions of a pair.
Both(p) == {p, <<p[2], p[1]>>}
Severed(p) == Both(p) \cap blocking # {}

Init == blocking \subseteq Pair /\ following \subseteq {p \in Pair : ~Severed(p)}

Follow(p) == ~Severed(p) /\ following' = following \cup {p} /\ UNCHANGED blocking
Unfollow(p) == following' = following \ {p} /\ UNCHANGED blocking
Block(p) == blocking' = blocking \cup {p} /\ following' = following \ Both(p)
Unblock(p) == blocking' = blocking \ {p} /\ UNCHANGED following

Next == \E p \in Pair : Follow(p) \/ Unfollow(p) \/ Block(p) \/ Unblock(p)

Spec == Init /\ [][Next]_vars
=============================================================================
