----------------------------- MODULE OneTimeCode -----------------------------
(***************************************************************************)
(* What the password reset promises: of the codes sent only the newest can *)
(* be presented, a code is accepted once, and it is worth one change.      *)
(***************************************************************************)
CONSTANT Code

VARIABLES
  sent,     \* the codes that have ever been issued
  live,     \* the codes that can still be presented (at most one)
  granted,  \* the codes that allow a change of the password (at most one)
  used      \* the codes that have been spent on a change

vars == <<sent, live, granted, used>>

Init == sent = {} /\ live = {} /\ granted = {} /\ used = {}

\* A code is issued once; the one before it is void.
Issue(c) == c \notin sent /\ sent' = sent \cup {c} /\ live' = {c} /\ UNCHANGED <<granted, used>>

\* The live code is presented; an older grant that was not used is void.
Present(c) == c \in live /\ live' = {} /\ granted' = {c} /\ UNCHANGED <<sent, used>>

Change(c) == c \in granted /\ granted' = {} /\ used' = used \cup {c} /\ UNCHANGED <<sent, live>>

Expire == live' \subseteq live /\ granted' \subseteq granted /\ UNCHANGED <<sent, used>>

Next == Expire \/ \E c \in Code : Issue(c) \/ Present(c) \/ Change(c)

Spec == Init /\ [][Next]_vars
=============================================================================
