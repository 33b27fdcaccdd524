------------------------------- MODULE Social -------------------------------
(***************************************************************************)
(* Follow and block: FollowService.setUserFollow and                       *)
(* BlocksService.setUserBlock, over the tables user_follows and            *)
(* user_blocks (both unique per ordered pair of users).                    *)
(*                                                                         *)
(* Neither handler opens a transaction, so every query is a step of its    *)
(* own and any other request may run in between.  A worker is one request  *)
(* being handled; pc[w] names the query it has completed last.  Init       *)
(* chooses what may go wrong in a behaviour: requests overlap, or end      *)
(* between two queries.  A behaviour without either is calm.               *)
(***************************************************************************)
CONSTANTS
  User,     \* user ids
  Worker,   \* requests that may be in flight at the same time
  None,     \* no request
  Troubles  \* sets of what may go wrong: "overlap", "dies"

\* Mutant: the request is not compared with the requester.
Pair_WithSelf == User \X User

Pair == {p \in User \X User : p[1] # p[2]}
Reverse(p) == <<p[2], p[1]>>

Op == {"follow", "unfollow", "block", "unblock"}
Request == [op : Op, pair : Pair, found : BOOLEAN]

ASSUME NoneIsNoRequest == None \notin Request

VARIABLES
  follows,  \* user_follows: pairs <<follower, followee>>
  blocks,   \* user_blocks: pairs <<blocker, blocked>>
  pc, req,  \* per worker: last completed query, request
  raced,    \* history: follows a block has missed, see Missed and CutShort
  trouble   \* what may go wrong in this behaviour

vars == <<follows, blocks, pc, req, raced, trouble>>

\* Requests neither overlap nor end early.
calm == trouble = {}

Init ==
  /\ blocks = {} /\ follows = {}
  /\ pc = [w \in Worker |-> "idle"]
  /\ req = [w \in Worker |-> None]
  /\ raced = {}
  /\ trouble \in Troubles

-----------------------------------------------------------------------------
Start(w, op, p, found, at) ==
  /\ pc[w] = "idle"
  /\ "overlap" \notin trouble => \A v \in Worker : pc[v] = "idle"
  /\ pc' = [pc EXCEPT ![w] = at]
  /\ req' = [req EXCEPT ![w] = [op |-> op, pair |-> p, found |-> found]]
  /\ UNCHANGED <<follows, blocks, raced>>

Running(w, op, at) == pc[w] = at /\ req[w].op = op

\* Rows that were deleted are gone for every request that has found them: those
\* delete by id, so not even a new row of the same pair.
Forgotten(op, rows) ==
  [v \in Worker |-> IF req[v] # None /\ req[v].op = op /\ req[v].pair \in rows
                    THEN [req[v] EXCEPT !.found = FALSE] ELSE req[v]]

Goto(w, at) == pc' = [pc EXCEPT ![w] = at] /\ UNCHANGED req

Leave(w, op, rows) ==
  /\ pc' = [pc EXCEPT ![w] = "idle"]
  /\ req' = [Forgotten(op, rows) EXCEPT ![w] = None]

Finish(w) == Leave(w, "unfollow", {})

\* The deletes of the block w is carrying out that remove the follow p.
StillToCut(w, p) ==
  \/ pc[w] = "block_saved" /\ p \in {req[w].pair, Reverse(req[w].pair)}
  \/ pc[w] = "own_deleted" /\ p = Reverse(req[w].pair)

\* The follows w would have deleted.
CutShort(w) == {p \in follows : StillToCut(w, p)}

Abandon(w) ==
  /\ "dies" \in trouble
  /\ pc[w] # "idle"
  /\ Finish(w)
  /\ raced' = raced \cup CutShort(w)
  /\ UNCHANGED <<follows, blocks>>

-----------------------------------------------------------------------------
(* setUserFollow                                                           *)

\* Mutant: only the requester's own blocks are looked up.
Severed_OneWay(p) == p \in blocks

Severed(p) == p \in blocks \/ Reverse(p) \in blocks

\* Mutant: as above, in the query alone.
SetUserFollow_CheckBlock_OneWay(w, op, p) ==
  op \in {"follow", "unfollow"} /\ ~Severed_OneWay(p) /\ Start(w, op, p, FALSE, "block_checked")

\* The query on user_blocks; NOT_ACCESS if there is a row.
SetUserFollow_CheckBlock(w, op, p) ==
  /\ op \in {"follow", "unfollow"}
  /\ ~Severed(p)
  /\ Start(w, op, p, FALSE, "block_checked")

\* The query on user_follows; ACTION_DONE_PREVIOUSLY if nothing is to be done.
SetUserFollow_Find(w) ==
  LET found == req[w].pair \in follows IN
  /\ pc[w] = "block_checked"
  /\ IF found <=> req[w].op = "unfollow"
     THEN /\ pc' = [pc EXCEPT ![w] = "follow_read"]
          /\ req' = [req EXCEPT ![w].found = found]
     ELSE Finish(w)
  /\ UNCHANGED <<follows, blocks, raced>>

\* The insert; when the pair is there by now it fails on the unique key and
\* leaves the table as it is.
SetUserFollow_Save(w) ==
  /\ Running(w, "follow", "follow_read")
  /\ follows' = follows \cup {req[w].pair}
  /\ Finish(w)
  /\ UNCHANGED <<blocks, raced>>

SetUserFollow_Delete(w) ==
  /\ Running(w, "unfollow", "follow_read")
  /\ follows' = IF req[w].found THEN follows \ {req[w].pair} ELSE follows
  /\ Leave(w, "unfollow", follows \ follows')
  /\ UNCHANGED <<blocks, raced>>

-----------------------------------------------------------------------------
(* setUserBlock                                                            *)

\* The query on user_blocks; ACTION_DONE_PREVIOUSLY if nothing is to be done.
SetUserBlock_Find(w, op, p) ==
  /\ op \in {"block", "unblock"}
  /\ p \in blocks <=> op = "unblock"
  /\ Start(w, op, p, p \in blocks, "block_read")

\* A follow that is past the query on user_blocks.
Following(w) == pc[w] \in {"block_checked", "follow_read"} /\ req[w].op = "follow"

\* The follows of either direction that are past looking for a block of p.
Missed(p) == {q \in {p, Reverse(p)} : \E v \in Worker : Following(v) /\ req[v].pair = q}

\* The insert, or its duplicate-key error, which ends the request.
SetUserBlock_Save(w) ==
  LET p == req[w].pair IN
  /\ Running(w, "block", "block_read")
  /\ blocks' = blocks \cup {p}
  /\ IF p \in blocks THEN Finish(w) /\ UNCHANGED raced
     ELSE Goto(w, "block_saved") /\ raced' = (raced \ {p, Reverse(p)}) \cup Missed(p)
  /\ UNCHANGED follows

\* DELETE FROM user_follows, one direction after the other.
DeleteFollow(w, p) ==
  /\ follows' = follows \ {p}
  /\ UNCHANGED <<blocks, raced>>

SetUserBlock_DeleteOwnFollow(w) ==
  /\ pc[w] = "block_saved"
  /\ DeleteFollow(w, req[w].pair)
  /\ pc' = [pc EXCEPT ![w] = "own_deleted"]
  /\ req' = Forgotten("unfollow", {req[w].pair})

\* Mutant: the second delete repeats the direction of the first.
SetUserBlock_DeleteTheirFollow_Same(w) ==
  /\ pc[w] = "own_deleted"
  /\ DeleteFollow(w, req[w].pair)
  /\ Leave(w, "unfollow", {req[w].pair})

SetUserBlock_DeleteTheirFollow(w) ==
  /\ pc[w] = "own_deleted"
  /\ DeleteFollow(w, Reverse(req[w].pair))
  /\ Leave(w, "unfollow", {Reverse(req[w].pair)})

SetUserBlock_Unblock(w) ==
  /\ Running(w, "unblock", "block_read")
  /\ blocks' = IF req[w].found THEN blocks \ {req[w].pair} ELSE blocks
  /\ Leave(w, "unblock", blocks \ blocks')
  /\ UNCHANGED <<follows, raced>>

-----------------------------------------------------------------------------
Step(w) ==
  \/ SetUserFollow_Find(w)
  \/ SetUserFollow_Save(w)
  \/ SetUserFollow_Delete(w)
  \/ SetUserBlock_Save(w)
  \/ SetUserBlock_DeleteOwnFollow(w)
  \/ SetUserBlock_DeleteTheirFollow(w)
  \/ SetUserBlock_Unblock(w)

Next ==
  /\ \E w \in Worker :
       \/ \E p \in Pair, op \in Op : SetUserFollow_CheckBlock(w, op, p) \/ SetUserBlock_Find(w, op, p)
       \/ Step(w)
       \/ Abandon(w)
  /\ UNCHANGED trouble

Spec == Init /\ [][Next]_vars

\* The event loop goes on with every request whose query has been answered.
FairSpec == Spec /\ \A w \in Worker : WF_vars(Step(w) /\ UNCHANGED trouble)

-----------------------------------------------------------------------------
\* Rows and requests have the shape of the entities, and nobody follows or
\* blocks themself.
TypeOK ==
  /\ \A p \in follows \cup blocks : p[1] # p[2]
  /\ trouble \in Troubles
  /\ raced \subseteq Pair
  /\ follows \subseteq Pair
  /\ blocks \subseteq Pair
  /\ pc \in [Worker -> {"idle", "block_checked", "follow_read", "block_read",
                        "block_saved", "own_deleted"}]
  /\ req \in [Worker -> Request \cup {None}]
  /\ \A w \in Worker : (req[w] = None) <=> (pc[w] = "idle")

\* A block that is being carried out: its row is there, the follows not yet cut.
Cutting(w) == pc[w] \in {"block_saved", "own_deleted"}

About(w, p) == req[w] # None /\ req[w].pair \in {p, Reverse(p)}

\* Once nothing is in flight for a pair, neither of the two follows the other
\* across a block (blocks TC02, set-user-follow TC22-TC25).
NoFollowAcrossBlock ==
  \A p \in follows : Severed(p) => \E w \in Worker : About(w, p)

\* The follow p is there for one of two reasons: it was past looking for a block
\* when the block was saved, or the block's request ended before its delete.
Excused(p) == ~calm /\ p \in raced

\* However requests overlap and wherever they end, nothing else leaves a follow
\* across a block, and requests that do neither leave none.
BlockCutsFollows ==
  \A p \in follows : Severed(p) => Excused(p) \/ \E w \in Worker : StillToCut(w, p)

\* A pair is cut off: blocked, without follows, and no request is past the
\* query that looks for the block.
CutOff(p) ==
  /\ Severed(p)
  /\ p \notin follows /\ Reverse(p) \notin follows
  /\ \A w \in Worker : About(w, p) => ~Following(w)

\* However requests overlap and wherever they crash, a pair that is cut off
\* stays cut off until it is unblocked: the block is looked up in both
\* directions before anything is written.
CutOffIsStable == [][\A p \in Pair : CutOff(p) => CutOff(p)' \/ ~Severed(p)']_vars

\* A block takes effect: in the end it has been lifted or the two do not follow
\* each other, except by a follow that raced with it or that its request, cut
\* short, has not come to delete.
BlockTakesEffect ==
  \A p \in Pair :
    p \in blocks ~> \/ p \notin blocks
                    \/ \A q \in {p, Reverse(p)} \cap follows : Excused(q)

\* A calm behaviour looks atomic: the block happens when its row is saved, the
\* follows it is still cutting are gone already.  (Other behaviours are mapped
\* to one that does nothing.)
Cut == UNION {{req[w].pair, Reverse(req[w].pair)} : w \in {v \in Worker : Cutting(v)}}

Promise == INSTANCE Contacts WITH
  following <- IF calm THEN follows \ Cut ELSE {},
  blocking  <- IF calm THEN blocks ELSE {}
KeepsContacts == Promise!Spec
=============================================================================
