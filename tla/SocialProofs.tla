---------------------------- MODULE SocialProofs ----------------------------
(***************************************************************************)
(* Theorems about Social for every set of users and requests.              *)
(***************************************************************************)
EXTENDS Social, TLAPS

LEMMA ReverseType == \A p \in Pair : Reverse(p) \in Pair /\ Reverse(Reverse(p)) = p
  BY DEF Pair, Reverse

LEMMA RequestType ==
  ASSUME TypeOK, NEW w \in Worker, pc[w] # "idle"
  PROVE  req[w] # None /\ req[w] \in Request /\ req[w].pair \in Pair /\ req[w].op \in Op
  BY DEF TypeOK, Request

LEMMA ForgottenType ==
  ASSUME TypeOK, NEW op, NEW rows
  PROVE  /\ Forgotten(op, rows) \in [Worker -> Request \cup {None}]
         /\ \A v \in Worker : (Forgotten(op, rows)[v] = None) <=> (req[v] = None)
         /\ \A v \in Worker : req[v] # None =>
              /\ Forgotten(op, rows)[v].op = req[v].op
              /\ Forgotten(op, rows)[v].pair = req[v].pair
  BY NoneIsNoRequest DEF TypeOK, Forgotten, Request

LEMMA LeaveType ==
  ASSUME TypeOK, NEW w \in Worker, NEW op, NEW rows, Leave(w, op, rows),
         follows' \subseteq Pair, blocks' \subseteq Pair, raced' \subseteq Pair, trouble' = trouble
  PROVE  /\ TypeOK'
         /\ pc'[w] = "idle" /\ req'[w] = None
         /\ \A v \in Worker \ {w} : pc'[v] = pc[v]
         /\ \A v \in Worker \ {w} : req[v] # None =>
              req'[v] # None /\ req'[v].op = req[v].op /\ req'[v].pair = req[v].pair
         /\ \A v \in Worker \ {w} : req[v] = None => req'[v] = None
  <1>1. \A p \in follows' \cup blocks' : p[1] # p[2]
    BY DEF Pair
  <1> QED
    BY <1>1, ForgottenType DEF Leave, TypeOK

LEMMA StartType ==
  ASSUME TypeOK, NEW w \in Worker, NEW op \in Op, NEW p \in Pair, NEW found \in BOOLEAN,
         NEW at \in {"block_checked", "block_read"}, Start(w, op, p, found, at), trouble' = trouble
  PROVE  /\ TypeOK'
         /\ pc'[w] = at /\ req'[w] # None /\ req'[w].op = op /\ req'[w].pair = p
         /\ \A v \in Worker \ {w} : pc'[v] = pc[v] /\ req'[v] = req[v]
  <1>1. [op |-> op, pair |-> p, found |-> found] \in Request
    BY DEF Request
  <1> QED
    BY <1>1, NoneIsNoRequest DEF Start, TypeOK

LEMMA TypeStep ==
  ASSUME TypeOK, [Next]_vars
  PROVE  TypeOK'
  <1> USE NoneIsNoRequest
  <1>a. trouble' = trouble
    BY DEF Next, vars
  <1> USE <1>a
  <1>0. CASE UNCHANGED vars
    BY <1>0 DEF vars, TypeOK
  <1>1. ASSUME NEW w \in Worker, NEW p \in Pair, NEW op \in Op,
               \/ SetUserFollow_CheckBlock(w, op, p)
               \/ SetUserBlock_Find(w, op, p)
        PROVE  TypeOK'
    <2>1. CASE SetUserFollow_CheckBlock(w, op, p)
      BY <2>1, StartType DEF SetUserFollow_CheckBlock
    <2>2. CASE SetUserBlock_Find(w, op, p)
      <3>1. (p \in blocks) \in BOOLEAN
        OBVIOUS
      <3> QED
        BY <2>2, <3>1, StartType DEF SetUserBlock_Find
    <2> QED
      BY <1>1, <2>1, <2>2
  <1>2. ASSUME NEW w \in Worker, SetUserFollow_Find(w) PROVE TypeOK'
    <2>1. CASE Finish(w)
      BY <1>2, <2>1, LeaveType DEF SetUserFollow_Find, Finish, TypeOK
    <2>2. CASE ~Finish(w)
      <3> DEFINE found == req[w].pair \in follows
      <3>1. req' = [req EXCEPT ![w].found = found]
        BY <1>2, <2>2 DEF SetUserFollow_Find
      <3>2. req[w] \in Request /\ req[w] # None /\ found \in BOOLEAN
        BY <1>2, RequestType DEF SetUserFollow_Find
      <3> HIDE DEF found
      <3>3. [req[w] EXCEPT !.found = found] \in Request
        BY <3>2 DEF Request
      <3> QED
        BY <1>2, <2>2, <3>1, <3>2, <3>3 DEF SetUserFollow_Find, TypeOK
    <2> QED
      BY <2>1, <2>2
  <1>3. ASSUME NEW w \in Worker, SetUserFollow_Save(w) PROVE TypeOK'
    BY <1>3, RequestType, LeaveType DEF SetUserFollow_Save, Running, Finish, TypeOK
  <1>4. ASSUME NEW w \in Worker, SetUserFollow_Delete(w) PROVE TypeOK'
    BY <1>4, LeaveType DEF SetUserFollow_Delete, TypeOK
  <1>5. ASSUME NEW w \in Worker, SetUserBlock_Save(w) PROVE TypeOK'
    <2>1. req[w].pair \in Pair /\ blocks' \subseteq Pair /\ follows' \subseteq Pair
      BY <1>5, RequestType DEF SetUserBlock_Save, Running, TypeOK
    <2>2. raced' \subseteq Pair
      BY <1>5, <2>1, ReverseType DEF SetUserBlock_Save, Missed, TypeOK
    <2>3. CASE Finish(w)
      BY <2>1, <2>2, <2>3, LeaveType DEF Finish
    <2>4. CASE Goto(w, "block_saved")
      BY <1>5, <2>1, <2>2, <2>4 DEF Goto, TypeOK, Pair, SetUserBlock_Save, Running
    <2> QED
      BY <1>5, <2>3, <2>4 DEF SetUserBlock_Save
  <1>6. ASSUME NEW w \in Worker, SetUserBlock_DeleteOwnFollow(w) PROVE TypeOK'
    BY <1>6, ForgottenType DEF SetUserBlock_DeleteOwnFollow, DeleteFollow, TypeOK
  <1>7. ASSUME NEW w \in Worker, SetUserBlock_DeleteTheirFollow(w) PROVE TypeOK'
    BY <1>7, LeaveType DEF SetUserBlock_DeleteTheirFollow, DeleteFollow, TypeOK
  <1>8. ASSUME NEW w \in Worker, SetUserBlock_Unblock(w) PROVE TypeOK'
    BY <1>8, LeaveType DEF SetUserBlock_Unblock, TypeOK
  <1>9. ASSUME NEW w \in Worker, Abandon(w) PROVE TypeOK'
    <2>1. raced' \subseteq Pair
      BY <1>9 DEF Abandon, CutShort, TypeOK
    <2> QED
      BY <1>9, <2>1, LeaveType DEF Abandon, Finish, TypeOK
  <1> QED
    BY <1>0, <1>1, <1>2, <1>3, <1>4, <1>5, <1>6, <1>7, <1>8, <1>9 DEF Next, Step

\* The tables and requests keep the shape of the entities for any number of
\* users and overlapping requests.
THEOREM SocialTypeCorrect == Spec => []TypeOK
  <1>1. Init => TypeOK
    BY NoneIsNoRequest DEF Init, TypeOK, Pair
  <1> QED
    BY <1>1, TypeStep, PTL DEF Spec
-----------------------------------------------------------------------------
(* A pair that is cut off stays so.                                        *)

\* No request gets past the query on user_blocks in this step.
NoNewFollow ==
  \A v \in Worker : req'[v] # None /\ req'[v].op = "follow"
                    /\ pc'[v] \in {"block_checked", "follow_read"}
    => /\ req[v] # None /\ req[v].op = "follow" /\ req'[v].pair = req[v].pair
       /\ pc[v] \in {"block_checked", "follow_read"}

LEMMA LeaveFlight ==
  ASSUME TypeOK, NEW w \in Worker, NEW op, NEW rows, Leave(w, op, rows)
  PROVE  NoNewFollow
  <1>1. pc'[w] = "idle" /\ \A v \in Worker : v # w => pc'[v] = pc[v]
    BY DEF Leave, TypeOK
  <1>2. \A v \in Worker : v # w => req'[v] = Forgotten(op, rows)[v]
    BY ForgottenType DEF Leave
  <1>3. \A v \in Worker : v # w /\ req'[v] # None =>
          req[v] # None /\ req'[v].op = req[v].op /\ req'[v].pair = req[v].pair
    BY <1>2, ForgottenType
  <1> QED
    BY <1>1, <1>3 DEF NoNewFollow

LEMMA FlightStep ==
  ASSUME TypeOK, NEW w \in Worker, Step(w) \/ Abandon(w)
  PROVE  NoNewFollow
  <1>1. CASE SetUserFollow_Find(w)
    <2>1. CASE Finish(w)
      BY <2>1, LeaveFlight DEF Finish
    <2>2. CASE ~Finish(w)
      <3> DEFINE found == req[w].pair \in follows
      <3>1. /\ pc' = [pc EXCEPT ![w] = "follow_read"] /\ pc[w] = "block_checked"
            /\ req' = [req EXCEPT ![w].found = found]
        BY <1>1, <2>2 DEF SetUserFollow_Find
      <3>2. req[w] \in Request /\ req[w] # None
        BY <3>1, RequestType
      <3> HIDE DEF found
      <3>3. req'[w].op = req[w].op /\ req'[w].pair = req[w].pair
        BY <3>1, <3>2 DEF TypeOK, Request
      <3>4. \A v \in Worker : v # w => req'[v] = req[v] /\ pc'[v] = pc[v]
        BY <3>1 DEF TypeOK
      <3> QED
        BY <3>1, <3>2, <3>3, <3>4 DEF NoNewFollow
    <2> QED
      BY <2>1, <2>2
  <1>2. CASE SetUserFollow_Save(w)
    BY <1>2, LeaveFlight DEF SetUserFollow_Save, Finish
  <1>3. CASE SetUserFollow_Delete(w)
    BY <1>3, LeaveFlight DEF SetUserFollow_Delete
  <1>4. CASE SetUserBlock_Save(w)
    <2>1. CASE Finish(w)
      BY <2>1, LeaveFlight DEF Finish
    <2>2. CASE Goto(w, "block_saved")
      BY <2>2 DEF Goto, NoNewFollow, TypeOK
    <2> QED
      BY <1>4, <2>1, <2>2 DEF SetUserBlock_Save
  <1>5. CASE SetUserBlock_DeleteOwnFollow(w)
    <2>1. /\ pc'[w] = "own_deleted" /\ \A v \in Worker : v # w => pc'[v] = pc[v]
          /\ req' = Forgotten("unfollow", {req[w].pair})
      BY <1>5 DEF SetUserBlock_DeleteOwnFollow, TypeOK
    <2>2. \A v \in Worker : req'[v] # None =>
            req[v] # None /\ req'[v].op = req[v].op /\ req'[v].pair = req[v].pair
      BY <2>1, ForgottenType
    <2> QED
      BY <2>1, <2>2 DEF NoNewFollow
  <1>6. CASE SetUserBlock_DeleteTheirFollow(w)
    BY <1>6, LeaveFlight DEF SetUserBlock_DeleteTheirFollow
  <1>7. CASE SetUserBlock_Unblock(w)
    BY <1>7, LeaveFlight DEF SetUserBlock_Unblock
  <1>8. CASE Abandon(w)
    BY <1>8, LeaveFlight DEF Abandon, Finish
  <1> QED
    BY <1>1, <1>2, <1>3, <1>4, <1>5, <1>6, <1>7, <1>8 DEF Step

LEMMA CutOffStep ==
  ASSUME TypeOK, [Next]_vars, NEW p \in Pair, CutOff(p), Severed(p)'
  PROVE  CutOff(p)'
  <1>1. ASSUME p \notin follows', Reverse(p) \notin follows', NoNewFollow
        PROVE  CutOff(p)'
    BY <1>1 DEF CutOff, NoNewFollow, About, Following
  <1>2. p \notin follows /\ Reverse(p) \notin follows
    BY DEF CutOff
  <1>3. ASSUME NEW w \in Worker, Step(w) \/ Abandon(w) PROVE CutOff(p)'
    <2>1. CASE SetUserFollow_Save(w)
      <3>1. req[w].pair # p /\ req[w].pair # Reverse(p)
        BY <2>1, RequestType DEF SetUserFollow_Save, Running, About, Following, CutOff
      <3> QED
        BY <1>1, <1>2, <1>3, <2>1, <3>1, FlightStep DEF SetUserFollow_Save
    <2>2. CASE ~SetUserFollow_Save(w)
      <3>1. follows' \subseteq follows
        BY <1>3, <2>2 DEF Step, SetUserFollow_Find, SetUserFollow_Delete, SetUserBlock_Save, Abandon,
           SetUserBlock_DeleteOwnFollow, SetUserBlock_DeleteTheirFollow, SetUserBlock_Unblock,
           DeleteFollow
      <3> QED
        BY <1>1, <1>2, <1>3, <3>1, FlightStep
    <2> QED
      BY <2>1, <2>2
  <1>4. ASSUME NEW w \in Worker, NEW q \in Pair, NEW op \in Op, SetUserFollow_CheckBlock(w, op, q)
        PROVE  CutOff(p)'
    <2>1. q # p /\ q # Reverse(p)
      BY <1>4, ReverseType DEF CutOff, Severed, SetUserFollow_CheckBlock
    <2>2. /\ follows' = follows /\ req'[w].pair = q
          /\ \A v \in Worker \ {w} : pc'[v] = pc[v] /\ req'[v] = req[v]
      BY <1>4 DEF SetUserFollow_CheckBlock, Start, TypeOK
    <2> QED
      BY <1>2, <2>1, <2>2 DEF About, Following, CutOff
  <1>5. ASSUME NEW w \in Worker, NEW q \in Pair, NEW op \in Op, SetUserBlock_Find(w, op, q)
        PROVE  CutOff(p)'
    <2>1. /\ follows' = follows /\ pc'[w] = "block_read"
          /\ \A v \in Worker \ {w} : pc'[v] = pc[v] /\ req'[v] = req[v]
      BY <1>5 DEF SetUserBlock_Find, Start, TypeOK
    <2> QED
      BY <1>1, <1>2, <2>1 DEF NoNewFollow
  <1>6. CASE UNCHANGED vars
    BY <1>1, <1>2, <1>6 DEF vars, NoNewFollow
  <1> QED
    BY <1>3, <1>4, <1>5, <1>6 DEF Next

\* A pair that is cut off stays cut off until it is unblocked, however many
\* requests overlap and wherever they crash.
THEOREM CutOffStable == Spec => CutOffIsStable
  <1>1. TypeOK /\ [Next]_vars => [\A p \in Pair : CutOff(p) => CutOff(p)' \/ ~Severed(p)']_vars
    BY CutOffStep
  <1> QED
    BY <1>1, SocialTypeCorrect, PTL DEF Spec, CutOffIsStable

-----------------------------------------------------------------------------
(* Why a follow can stand across a block.                                  *)

\* A follow across a block has raced with it or is still going to be deleted,
\* and so has every follow that will yet be saved across one.
RaceInv ==
  /\ \A p \in follows : Severed(p) => p \in raced \/ \E w \in Worker : StillToCut(w, p)
  /\ \A w \in Worker : Following(w) /\ Severed(req[w].pair) => req[w].pair \in raced

\* The deletes that are still to come are those of before, but for w's.
LEMMA OthersCut ==
  ASSUME TypeOK, NEW w \in Worker,
         \A v \in Worker \ {w} : pc'[v] = pc[v] /\ (req[v] # None => req'[v].pair = req[v].pair)
  PROVE  \A v \in Worker \ {w} : \A p : StillToCut(v, p) => StillToCut(v, p)'
  <1>1. \A v \in Worker : pc[v] # "idle" => req[v] # None
    BY DEF TypeOK
  <1> QED
    BY <1>1 DEF StillToCut

\* No step that lets no follow past the query on user_blocks and blocks nobody
\* breaks it, when what w does not delete any more has raced.
LEMMA RaceKept ==
  ASSUME TypeOK, TypeOK', RaceInv, NoNewFollow, raced \subseteq raced', blocks' \subseteq blocks,
         NEW w \in Worker,
         \A v \in Worker \ {w} : pc'[v] = pc[v] /\ (req[v] # None => req'[v].pair = req[v].pair),
         \A p \in follows' : p \in follows \/ ~Severed(p) \/ p \in raced,
         \A p \in follows' : StillToCut(w, p) => StillToCut(w, p)' \/ p \in raced'
  PROVE  RaceInv'
  <1>1. ASSUME NEW p \in follows', Severed(p)'
        PROVE  p \in raced' \/ \E v \in Worker : StillToCut(v, p)'
    <2>1. Severed(p)
      BY <1>1 DEF Severed
    <2>2. CASE p \in raced
      BY <2>2
    <2>3. ASSUME NEW v \in Worker, StillToCut(v, p)
          PROVE  p \in raced' \/ \E u \in Worker : StillToCut(u, p)'
      BY <1>1, <2>3, OthersCut
    <2> QED
      BY <1>1, <2>1, <2>2, <2>3 DEF RaceInv
  <1>2. ASSUME NEW v \in Worker, Following(v)', Severed(req[v].pair)'
        PROVE  req'[v].pair \in raced'
    <2>1. req'[v] # None /\ req'[v].op = "follow" /\ pc'[v] \in {"block_checked", "follow_read"}
      BY <1>2 DEF Following, TypeOK
    <2>2. Following(v) /\ req'[v].pair = req[v].pair
      BY <2>1 DEF NoNewFollow, Following
    <2>3. Severed(req[v].pair)
      BY <1>2, <2>2 DEF Severed
    <2> QED
      BY <2>2, <2>3 DEF RaceInv
  <1> QED
    BY <1>1, <1>2 DEF RaceInv

LEMMA RaceStep ==
  ASSUME TypeOK, TypeOK', RaceInv, [Next]_vars
  PROVE  RaceInv'
  <1>1. CASE UNCHANGED vars
    BY <1>1 DEF vars, RaceInv, Severed, StillToCut, Following
  <1>2. ASSUME NEW w \in Worker, NEW p \in Pair, NEW op \in Op, SetUserFollow_CheckBlock(w, op, p)
        PROVE  RaceInv'
    <2>1. /\ UNCHANGED <<follows, blocks, raced>> /\ pc[w] = "idle" /\ ~Severed(p)
          /\ req'[w].pair = p
          /\ \A v \in Worker \ {w} : pc'[v] = pc[v] /\ req'[v] = req[v]
      BY <1>2 DEF SetUserFollow_CheckBlock, Start, TypeOK
    <2>2. \A v \in Worker, q \in follows : StillToCut(v, q) => StillToCut(v, q)'
      BY <2>1 DEF StillToCut
    <2>3. ASSUME NEW v \in Worker, Following(v)', Severed(req[v].pair)'
          PROVE  req'[v].pair \in raced'
      <3>1. v # w
        BY <2>1, <2>3 DEF Severed
      <3> QED
        BY <2>1, <2>3, <3>1 DEF RaceInv, Following, Severed
    <2>4. \A q \in follows' : Severed(q)' => Severed(q)
      BY <2>1 DEF Severed
    <2> QED
      BY <2>1, <2>2, <2>3, <2>4 DEF RaceInv
  <1>3. ASSUME NEW w \in Worker, NEW p \in Pair, NEW op \in Op, SetUserBlock_Find(w, op, p)
        PROVE  RaceInv'
    <2>1. /\ UNCHANGED <<follows, blocks, raced>> /\ pc[w] = "idle" /\ pc'[w] = "block_read"
          /\ \A v \in Worker \ {w} : pc'[v] = pc[v] /\ req'[v] = req[v]
      BY <1>3 DEF SetUserBlock_Find, Start, TypeOK
    <2>2. NoNewFollow
      BY <2>1 DEF NoNewFollow
    <2>3. \A q \in follows' : ~StillToCut(w, q)
      BY <2>1 DEF StillToCut
    <2> QED
      BY <2>1, <2>2, <2>3, RaceKept
  <1>4. ASSUME NEW w \in Worker, SetUserFollow_Find(w) PROVE RaceInv'
    <2>1. /\ UNCHANGED <<follows, blocks, raced>> /\ pc[w] = "block_checked"
          /\ \A v \in Worker \ {w} : pc'[v] = pc[v] /\ (req[v] # None => req'[v].pair = req[v].pair)
      <3>1. \A v \in Worker \ {w} : pc'[v] = pc[v] /\ (req[v] # None => req'[v].pair = req[v].pair)
        <4>1. CASE Finish(w)
          <5>1. \A v \in Worker \ {w} : pc'[v] = pc[v] /\ req'[v] = Forgotten("unfollow", {})[v]
            BY <4>1, ForgottenType DEF Finish, Leave, TypeOK
          <5> QED
            BY <5>1, ForgottenType
        <4>2. CASE ~Finish(w)
          <5> DEFINE found == req[w].pair \in follows
          <5>1. pc' = [pc EXCEPT ![w] = "follow_read"] /\ req' = [req EXCEPT ![w].found = found]
            BY <1>4, <4>2 DEF SetUserFollow_Find
          <5> HIDE DEF found
          <5> QED
            BY <5>1 DEF TypeOK
        <4> QED
          BY <4>1, <4>2
      <3> QED
        BY <1>4, <3>1 DEF SetUserFollow_Find
    <2>2. NoNewFollow
      BY <1>4, FlightStep DEF Step
    <2>3. \A q \in follows' : ~StillToCut(w, q)
      BY <2>1 DEF StillToCut
    <2> QED
      BY <2>1, <2>2, <2>3, RaceKept
  <1>5. ASSUME NEW w \in Worker, NEW op, NEW rows, Leave(w, op, rows), NoNewFollow,
               raced \subseteq raced', blocks' \subseteq blocks,
               \A p \in follows' : p \in follows \/ ~Severed(p) \/ p \in raced,
               \A p \in follows' : StillToCut(w, p) => p \in raced'
        PROVE  RaceInv'
    <2>1. \A v \in Worker \ {w} : pc'[v] = pc[v] /\ (req[v] # None => req'[v].pair = req[v].pair)
      <3>1. \A v \in Worker \ {w} : pc'[v] = pc[v] /\ req'[v] = Forgotten(op, rows)[v]
        BY <1>5, ForgottenType DEF Leave, TypeOK
      <3> QED
        BY <3>1, ForgottenType
    <2> QED
      BY <1>5, <2>1, RaceKept
  <1>6. ASSUME NEW w \in Worker, SetUserFollow_Save(w) PROVE RaceInv'
    <2>1. Following(w) /\ pc[w] = "follow_read"
      BY <1>6 DEF SetUserFollow_Save, Running, Following
    <2>2. \A p \in follows' : p \in follows \/ ~Severed(p) \/ p \in raced
      BY <1>6, <2>1 DEF SetUserFollow_Save, RaceInv
    <2>3. \A p \in follows' : ~StillToCut(w, p)
      BY <2>1 DEF StillToCut
    <2>4. NoNewFollow
      BY <1>6, FlightStep DEF Step
    <2> QED
      BY <1>5, <1>6, <2>2, <2>3, <2>4 DEF SetUserFollow_Save, Finish
  <1>7. ASSUME NEW w \in Worker, SetUserFollow_Delete(w) PROVE RaceInv'
    <2>1. NoNewFollow
      BY <1>7, FlightStep DEF Step
    <2>2. /\ pc[w] = "follow_read" /\ follows' \subseteq follows /\ UNCHANGED <<blocks, raced>>
          /\ Leave(w, "unfollow", follows \ follows')
      BY <1>7 DEF SetUserFollow_Delete, Running
    <2>3. \A p \in follows' : ~StillToCut(w, p)
      BY <2>2 DEF StillToCut
    <2> QED
      BY <1>5, <2>1, <2>2, <2>3
  <1>8. ASSUME NEW w \in Worker, SetUserBlock_Save(w) PROVE RaceInv'
    <2> DEFINE p == req[w].pair
    <2>1. pc[w] = "block_read" /\ p \in Pair /\ follows' = follows /\ blocks' = blocks \cup {p}
      BY <1>8, RequestType DEF SetUserBlock_Save, Running
    <2>2. CASE p \in blocks
      <3>1. Finish(w) /\ raced' = raced /\ blocks' = blocks
        BY <1>8, <2>1, <2>2 DEF SetUserBlock_Save
      <3>2. \A q \in follows' : ~StillToCut(w, q)
        BY <2>1 DEF StillToCut
      <3>3. NoNewFollow
        BY <1>8, FlightStep DEF Step
      <3> QED
        BY <1>5, <2>1, <3>1, <3>2, <3>3 DEF Finish
    <2>3. CASE p \notin blocks
      <3>1. /\ pc' = [pc EXCEPT ![w] = "block_saved"] /\ req' = req
            /\ raced' = (raced \ {p, Reverse(p)}) \cup Missed(p)
        BY <1>8, <2>3 DEF SetUserBlock_Save, Goto
      <3>2. \A v \in Worker : v # w => pc'[v] = pc[v]
        BY <3>1 DEF TypeOK
      <3>3. pc'[w] = "block_saved"
        BY <3>1 DEF TypeOK
      <3>4. \A q \in {p, Reverse(p)} : StillToCut(w, q)'
        BY <3>1, <3>3 DEF StillToCut
      <3>5. \A q \in Pair : q \notin {p, Reverse(p)} /\ Severed(q)' => Severed(q)
        BY <2>1, ReverseType DEF Severed
      <3>6. ASSUME NEW q \in follows', Severed(q)'
            PROVE  q \in raced' \/ \E v \in Worker : StillToCut(v, q)'
        <4>1. CASE q \in {p, Reverse(p)}
          BY <3>4, <4>1
        <4>2. CASE q \notin {p, Reverse(p)}
          <5>1. Severed(q) /\ q \in follows
            BY <2>1, <3>5, <3>6, <4>2 DEF TypeOK
          <5>2. CASE q \in raced
            BY <3>1, <4>2, <5>2
          <5>3. ASSUME NEW v \in Worker, StillToCut(v, q)
                PROVE  StillToCut(v, q)'
            <6>1. v # w
              BY <2>1, <5>3 DEF StillToCut
            <6> QED
              BY <3>1, <3>2, <5>3, <6>1 DEF StillToCut
          <5> QED
            BY <5>1, <5>2, <5>3 DEF RaceInv
        <4> QED
          BY <4>1, <4>2
      <3>7. ASSUME NEW v \in Worker, Following(v)', Severed(req[v].pair)'
            PROVE  req'[v].pair \in raced'
        <4>1. v # w /\ Following(v) /\ req'[v] = req[v]
          BY <3>1, <3>2, <3>3, <3>7 DEF Following
        <4>2. CASE req[v].pair \in {p, Reverse(p)}
          BY <3>1, <4>1, <4>2 DEF Missed
        <4>3. CASE req[v].pair \notin {p, Reverse(p)}
          <5>1. req[v].pair \in Pair
            BY <4>1, RequestType DEF Following
          <5>2. Severed(req[v].pair)
            BY <3>5, <3>7, <4>1, <4>3, <5>1
          <5>3. req[v].pair \in raced
            BY <4>1, <5>2 DEF RaceInv
          <5> QED
            BY <3>1, <4>1, <4>3, <5>3
        <4> QED
          BY <4>2, <4>3
      <3> QED
        BY <3>6, <3>7 DEF RaceInv
    <2> QED
      BY <2>2, <2>3
  <1>9. ASSUME NEW w \in Worker, SetUserBlock_DeleteOwnFollow(w) PROVE RaceInv'
    <2>1. /\ pc[w] = "block_saved" /\ pc'[w] = "own_deleted" /\ UNCHANGED <<blocks, raced>>
          /\ follows' = follows \ {req[w].pair} /\ req' = Forgotten("unfollow", {req[w].pair})
          /\ \A v \in Worker \ {w} : pc'[v] = pc[v]
      BY <1>9 DEF SetUserBlock_DeleteOwnFollow, DeleteFollow, TypeOK
    <2>2. \A v \in Worker : req[v] # None => req'[v].pair = req[v].pair
      BY <2>1, ForgottenType
    <2>3. req[w] # None
      BY <2>1, RequestType
    <2>4. \A q \in follows' : StillToCut(w, q) => StillToCut(w, q)'
      BY <2>1, <2>2, <2>3 DEF StillToCut
    <2>5. NoNewFollow
      BY <1>9, FlightStep DEF Step
    <2> QED
      BY <2>1, <2>2, <2>4, <2>5, RaceKept
  <1>10. ASSUME NEW w \in Worker, SetUserBlock_DeleteTheirFollow(w) PROVE RaceInv'
    <2>1. /\ pc[w] = "own_deleted" /\ UNCHANGED <<blocks, raced>>
          /\ follows' = follows \ {Reverse(req[w].pair)}
          /\ Leave(w, "unfollow", {Reverse(req[w].pair)})
      BY <1>10 DEF SetUserBlock_DeleteTheirFollow, DeleteFollow
    <2>2. \A q \in follows' : ~StillToCut(w, q)
      BY <2>1 DEF StillToCut
    <2>3. NoNewFollow
      BY <1>10, FlightStep DEF Step
    <2> QED
      BY <1>5, <2>1, <2>2, <2>3
  <1>11. ASSUME NEW w \in Worker, SetUserBlock_Unblock(w) PROVE RaceInv'
    <2>1. /\ pc[w] = "block_read" /\ UNCHANGED <<follows, raced>> /\ blocks' \subseteq blocks
          /\ Leave(w, "unblock", blocks \ blocks')
      BY <1>11 DEF SetUserBlock_Unblock, Running
    <2>2. \A q \in follows' : ~StillToCut(w, q)
      BY <2>1 DEF StillToCut
    <2>3. NoNewFollow
      BY <1>11, FlightStep DEF Step
    <2> QED
      BY <1>5, <2>1, <2>2, <2>3
  <1>12. ASSUME NEW w \in Worker, Abandon(w) PROVE RaceInv'
    <2>1. UNCHANGED <<follows, blocks>> /\ Finish(w) /\ raced' = raced \cup CutShort(w)
      BY <1>12 DEF Abandon
    <2>2. \A q \in follows' : StillToCut(w, q) => q \in raced'
      BY <2>1 DEF CutShort
    <2>3. NoNewFollow
      BY <1>12, FlightStep
    <2> QED
      BY <1>5, <2>1, <2>2, <2>3 DEF Finish
  <1> QED
    BY <1>1, <1>2, <1>3, <1>4, <1>6, <1>7, <1>8, <1>9, <1>10, <1>11, <1>12 DEF Next, Step

LEMMA RaceAlways == Spec => []RaceInv
  <1>1. Init => RaceInv
    BY DEF Init, RaceInv, Following
  <1>2. TypeOK /\ TypeOK' /\ RaceInv /\ [Next]_vars => RaceInv'
    BY RaceStep
  <1> QED
    BY <1>1, <1>2, SocialTypeCorrect, PTL DEF Spec

-----------------------------------------------------------------------------
(* Calm behaviours.                                                        *)

\* No request but w's is being handled.
Only(w) == \A v \in Worker : v # w => pc[v] = "idle"

\* What the one request has read is still so.
SerialInv ==
  /\ TypeOK
  /\ \A w \in Worker : pc[w] # "idle" => Only(w)
  /\ \A p \in follows : Severed(p) => \E w \in Worker : StillToCut(w, p)
  /\ \A w \in Worker :
       /\ pc[w] \in {"block_checked", "follow_read"} => ~Severed(req[w].pair)
       /\ pc[w] = "block_read" /\ req[w].op = "block" => req[w].pair \notin blocks
       /\ pc[w] = "own_deleted" => req[w].pair \notin follows

LEMMA SerialInit == Init => SerialInv
  <1>1. Init => TypeOK
    BY NoneIsNoRequest DEF Init, TypeOK, Pair
  <1> QED
    BY <1>1 DEF Init, SerialInv, Severed

\* The request that takes a step is the only one.
LEMMA StepAlone ==
  ASSUME calm, SerialInv, NEW w \in Worker,
         \/ Step(w)
         \/ \E p \in Pair, op \in Op : SetUserFollow_CheckBlock(w, op, p) \/ SetUserBlock_Find(w, op, p)
  PROVE  Only(w) /\ Only(w)'
  <1>1. \A v \in Worker : v # w => pc'[v] = pc[v]
    BY DEF SerialInv, TypeOK, Step, SetUserFollow_CheckBlock, SetUserBlock_Find, Start,
       SetUserFollow_Find, SetUserFollow_Save, SetUserFollow_Delete, SetUserBlock_Save,
       SetUserBlock_DeleteOwnFollow, SetUserBlock_DeleteTheirFollow, SetUserBlock_Unblock,
       Finish, Leave, Goto
  <1>2. pc[w] # "idle" => Only(w)
    BY DEF SerialInv
  <1>3. pc[w] = "idle" => Only(w)
    BY DEF SerialInv, Only, calm, Step, SetUserFollow_CheckBlock, SetUserBlock_Find, Start, Running,
       SetUserFollow_Find, SetUserFollow_Save, SetUserFollow_Delete, SetUserBlock_Save,
       SetUserBlock_DeleteOwnFollow, SetUserBlock_DeleteTheirFollow, SetUserBlock_Unblock
  <1> QED
    BY <1>1, <1>2, <1>3 DEF Only

\* When the only request has ended, it suffices to look at the tables.
LEMMA SerialEnd ==
  ASSUME TypeOK', NEW w \in Worker, Only(w)', pc'[w] = "idle",
         \A p \in follows' : ~Severed(p)'
  PROVE  SerialInv'
  BY DEF Only, SerialInv

LEMMA SerialStep ==
  ASSUME calm, SerialInv, [Next]_vars
  PROVE  SerialInv'
  <1>0. TypeOK /\ TypeOK'
    BY TypeStep DEF SerialInv
  <1>1. CASE UNCHANGED vars
    BY <1>1 DEF vars, SerialInv, TypeOK, Severed, StillToCut, Only
  <1>2. ASSUME NEW w \in Worker, Only(w), pc[w] \notin {"block_saved", "own_deleted"}
        PROVE  \A p \in follows : ~Severed(p)
    BY <1>2 DEF Only, SerialInv, StillToCut
  <1>3. ASSUME NEW w \in Worker, NEW p \in Pair, NEW op \in Op,
               \/ SetUserFollow_CheckBlock(w, op, p)
               \/ SetUserBlock_Find(w, op, p)
        PROVE  SerialInv'
    <2>0. Only(w) /\ Only(w)'
      BY <1>3, StepAlone
    <2>1. pc[w] = "idle" /\ UNCHANGED <<follows, blocks>>
          /\ pc'[w] \in {"block_checked", "block_read"} /\ req'[w].pair = p /\ req'[w].op = op
      BY <1>0, <1>3 DEF SetUserFollow_CheckBlock, SetUserBlock_Find, Start, TypeOK
    <2>2. \A q \in follows' : ~Severed(q)'
      BY <1>2, <2>0, <2>1 DEF Severed
    <2>3. pc'[w] = "block_checked" => ~Severed(p)
      BY <1>0, <1>3 DEF SetUserFollow_CheckBlock, SetUserBlock_Find, Start, TypeOK
    <2>4. pc'[w] = "block_read" /\ op = "block" => p \notin blocks
      BY <1>0, <1>3 DEF SetUserFollow_CheckBlock, SetUserBlock_Find, Start, TypeOK
    <2> QED
      BY <1>0, <2>1, <2>2, <2>3, <2>4, <2>0 DEF SerialInv, Severed, Only
  <1>4. ASSUME NEW w \in Worker, SetUserFollow_Find(w) PROVE SerialInv'
    <2>0. Only(w) /\ Only(w)'
      BY <1>4, StepAlone DEF Step
    <2>1. pc[w] = "block_checked" /\ UNCHANGED <<follows, blocks>>
      BY <1>4 DEF SetUserFollow_Find
    <2>2. \A q \in follows' : ~Severed(q)'
      BY <1>2, <2>0, <2>1 DEF Severed
    <2>3. CASE Finish(w)
      <3>1. pc'[w] = "idle"
        BY <1>0, <2>3 DEF Finish, Leave, TypeOK
      <3> QED
        BY <1>0, <2>2, <3>1, <2>0, SerialEnd
    <2>4. CASE ~Finish(w)
      <3> DEFINE found == req[w].pair \in follows
      <3>1. pc' = [pc EXCEPT ![w] = "follow_read"] /\ req' = [req EXCEPT ![w].found = found]
        BY <1>4, <2>4 DEF SetUserFollow_Find
      <3>2. req[w] \in Request
        BY <1>0, <2>1, RequestType
      <3> HIDE DEF found
      <3>3. pc'[w] = "follow_read" /\ req'[w].pair = req[w].pair
        BY <1>0, <3>1, <3>2 DEF TypeOK, Request
      <3>4. ~Severed(req[w].pair)
        BY <2>1 DEF SerialInv
      <3> QED
        BY <1>0, <2>1, <2>2, <3>3, <3>4, <2>0 DEF SerialInv, Severed, Only
    <2> QED
      BY <2>3, <2>4
  <1>5. ASSUME NEW w \in Worker, SetUserFollow_Save(w) PROVE SerialInv'
    <2>0. Only(w) /\ Only(w)'
      BY <1>5, StepAlone DEF Step
    <2>1. pc'[w] = "idle" /\ blocks' = blocks /\ follows' = follows \cup {req[w].pair}
      BY <1>0, <1>5 DEF SetUserFollow_Save, Finish, Leave, TypeOK
    <2>2. ~Severed(req[w].pair) /\ pc[w] = "follow_read"
      BY <1>5 DEF SerialInv, SetUserFollow_Save, Running
    <2>3. \A q \in follows' : ~Severed(q)'
      BY <1>2, <2>0, <2>1, <2>2 DEF Severed
    <2> QED
      BY <1>0, <2>1, <2>3, <2>0, SerialEnd
  <1>6. ASSUME NEW w \in Worker, SetUserFollow_Delete(w) PROVE SerialInv'
    <2>0. Only(w) /\ Only(w)'
      BY <1>6, StepAlone DEF Step
    <2>1. pc'[w] = "idle" /\ blocks' = blocks /\ follows' \subseteq follows /\ pc[w] = "follow_read"
      BY <1>0, <1>6 DEF SetUserFollow_Delete, Running, Leave, TypeOK
    <2>2. \A q \in follows' : ~Severed(q)'
      BY <1>2, <2>0, <2>1 DEF Severed
    <2> QED
      BY <1>0, <2>1, <2>2, <2>0, SerialEnd
  <1>7. ASSUME NEW w \in Worker, SetUserBlock_Save(w) PROVE SerialInv'
    <2>0. Only(w) /\ Only(w)'
      BY <1>7, StepAlone DEF Step
    <2>1. /\ pc[w] = "block_read" /\ req[w].pair \notin blocks
          /\ blocks' = blocks \cup {req[w].pair} /\ follows' = follows
          /\ pc'[w] = "block_saved" /\ req' = req
      BY <1>0, <1>7 DEF SetUserBlock_Save, Running, SerialInv, Goto, TypeOK
    <2>2. \A q \in follows : ~Severed(q)
      BY <1>2, <2>0, <2>1
    <2>3. req[w].pair \in Pair
      BY <1>0, <2>1, RequestType
    <2>4. \A q \in Pair : Severed(q)' => Severed(q) \/ q \in {req[w].pair, Reverse(req[w].pair)}
      BY <2>1, <2>3, ReverseType DEF Severed
    <2>5. \A q \in follows' : Severed(q)' => StillToCut(w, q)'
      BY <1>0, <2>1, <2>2, <2>4 DEF StillToCut, TypeOK
    <2> QED
      BY <1>0, <2>1, <2>5, <2>0 DEF SerialInv, Only
  <1>8. ASSUME NEW w \in Worker, SetUserBlock_DeleteOwnFollow(w) PROVE SerialInv'
    <2>0. Only(w) /\ Only(w)'
      BY <1>8, StepAlone DEF Step
    <2>1. /\ pc[w] = "block_saved" /\ pc'[w] = "own_deleted"
          /\ blocks' = blocks /\ follows' = follows \ {req[w].pair}
      BY <1>0, <1>8 DEF SetUserBlock_DeleteOwnFollow, DeleteFollow, TypeOK
    <2>2. req'[w].pair = req[w].pair
      BY <1>0, <1>8, <2>1, RequestType, ForgottenType DEF SetUserBlock_DeleteOwnFollow
    <2>4. \A q \in follows' : Severed(q)' => StillToCut(w, q)'
      BY <2>1, <2>2, <2>0 DEF SerialInv, StillToCut, Severed, Only
    <2> QED
      BY <1>0, <2>1, <2>2, <2>0, <2>4 DEF SerialInv, Only
  <1>9. ASSUME NEW w \in Worker, SetUserBlock_DeleteTheirFollow(w) PROVE SerialInv'
    <2>0. Only(w) /\ Only(w)'
      BY <1>9, StepAlone DEF Step
    <2>1. /\ pc[w] = "own_deleted" /\ pc'[w] = "idle"
          /\ blocks' = blocks /\ follows' = follows \ {Reverse(req[w].pair)}
      BY <1>0, <1>9 DEF SetUserBlock_DeleteTheirFollow, DeleteFollow, Leave, TypeOK
    <2>3. \A q \in follows' : ~Severed(q)'
      BY <2>1, <2>0 DEF SerialInv, StillToCut, Severed, Only
    <2> QED
      BY <1>0, <2>1, <2>3, <2>0, SerialEnd
  <1>10. ASSUME NEW w \in Worker, SetUserBlock_Unblock(w) PROVE SerialInv'
    <2>0. Only(w) /\ Only(w)'
      BY <1>10, StepAlone DEF Step
    <2>1. pc'[w] = "idle" /\ blocks' \subseteq blocks /\ follows' = follows /\ pc[w] = "block_read"
      BY <1>0, <1>10 DEF SetUserBlock_Unblock, Running, Leave, TypeOK
    <2>2. \A q \in follows' : ~Severed(q)'
      BY <1>2, <2>0, <2>1 DEF Severed
    <2> QED
      BY <1>0, <2>1, <2>2, <2>0, SerialEnd
  <1>11. ASSUME NEW w \in Worker, Abandon(w) PROVE FALSE
    BY <1>11 DEF Abandon, calm
  <1> QED
    BY <1>1, <1>3, <1>4, <1>5, <1>6, <1>7, <1>8, <1>9, <1>10, <1>11 DEF Next, Step

LEMMA CalmStep ==
  ASSUME TypeOK, calm => SerialInv, [Next]_vars
  PROVE  (calm => SerialInv)'
  <1>1. calm' = calm
    BY DEF Next, vars, calm
  <1> QED
    BY <1>1, SerialStep

\* What the one request of a calm behaviour has read is still so.
LEMMA CalmInv == Spec => [](calm => SerialInv)
  BY SocialTypeCorrect, SerialInit, CalmStep, PTL DEF Spec

\* However requests overlap and wherever they end, a follow stands across a block
\* only if it raced with it or its delete was cut short, and calm requests leave
\* none.
THEOREM BlockCuts == Spec => []BlockCutsFollows
  <1>1. SerialInv => \A p \in follows : Severed(p) => \E w \in Worker : StillToCut(w, p)
    BY DEF SerialInv
  <1>2. RaceInv => \A p \in follows : Severed(p) => p \in raced \/ \E w \in Worker : StillToCut(w, p)
    BY DEF RaceInv
  <1>3. (calm => SerialInv) /\ RaceInv => BlockCutsFollows
    BY <1>1, <1>2 DEF BlockCutsFollows, Excused
  <1> QED
    BY <1>3, CalmInv, RaceAlways, PTL

-----------------------------------------------------------------------------
(* Calm behaviours implement Contacts.                                     *)

LEMMA NothingCut ==
  ASSUME NEW w \in Worker, Only(w), ~Cutting(w)
  PROVE  Cut = {}
  BY DEF Only, Cut, Cutting

LEMMA BeingCut ==
  ASSUME NEW w \in Worker, Only(w), Cutting(w)
  PROVE  Cut = {req[w].pair, Reverse(req[w].pair)}
  <1>1. {v \in Worker : Cutting(v)} = {w}
    BY DEF Only, Cutting
  <1> QED
    BY <1>1 DEF Cut

\* A step that leaves the two relations of Contacts as they are.
LEMMA Stutter ==
  ASSUME trouble' = trouble, blocks' = blocks, (follows \ Cut)' = follows \ Cut
  PROVE  [Promise!Next]_(Promise!vars)
  BY DEF Promise!vars, calm

LEMMA ContactsInit ==
  ASSUME Init
  PROVE  Promise!Init
  <1>1. Cut = {}
    BY DEF Init, Cut, Cutting
  <1> QED
    BY <1>1 DEF Init, Promise!Init

LEMMA ContactsStep ==
  ASSUME calm, SerialInv, SerialInv', [Next]_vars
  PROVE  [Promise!Next]_(Promise!vars)
  <1>0. TypeOK /\ TypeOK' /\ trouble' = trouble /\ calm' = calm
    BY DEF SerialInv, Next, vars, calm
  <1> USE calm, <1>0
  <1>1. CASE UNCHANGED vars
    <2>1. UNCHANGED <<blocks, follows>> /\ Cut' = Cut
      BY <1>1 DEF vars, Cut, Cutting
    <2> QED
      BY <2>1, Stutter
  <1>2. ASSUME NEW w \in Worker, Only(w), Only(w)', pc[w] \notin {"block_saved", "own_deleted"},
               pc'[w] \notin {"block_saved", "own_deleted"}
        PROVE  Cut = {} /\ Cut' = {}
    <2>1. ~Cutting(w) /\ ~Cutting(w)'
      BY <1>2 DEF Cutting
    <2>2. \A v \in Worker : ~Cutting(v) /\ ~Cutting(v)'
      BY <1>2, <2>1 DEF Only, Cutting
    <2> QED
      BY <2>2 DEF Cut
  <1>3. ASSUME NEW w \in Worker, NEW p \in Pair, NEW op \in Op,
               \/ SetUserFollow_CheckBlock(w, op, p)
               \/ SetUserBlock_Find(w, op, p)
        PROVE  [Promise!Next]_(Promise!vars)
    <2>0. Only(w) /\ Only(w)'
      BY <1>3, StepAlone
    <2>1. /\ pc[w] = "idle" /\ pc'[w] \in {"block_checked", "block_read"}
          /\ UNCHANGED <<follows, blocks>>
      BY <1>0, <1>3 DEF SetUserFollow_CheckBlock, SetUserBlock_Find, Start, TypeOK
    <2> QED
      BY <1>2, <2>0, <2>1, Stutter
  <1>4. ASSUME NEW w \in Worker, SetUserFollow_Find(w) PROVE [Promise!Next]_(Promise!vars)
    <2>0. Only(w) /\ Only(w)'
      BY <1>4, StepAlone DEF Step
    <2>1. /\ pc[w] = "block_checked" /\ pc'[w] \in {"idle", "follow_read"}
          /\ UNCHANGED <<follows, blocks>>
      BY <1>0, <1>4 DEF SetUserFollow_Find, Finish, Leave, TypeOK
    <2> QED
      BY <1>2, <2>0, <2>1, Stutter
  <1>5. ASSUME NEW w \in Worker, SetUserFollow_Save(w) PROVE [Promise!Next]_(Promise!vars)
    <2>0. Only(w) /\ Only(w)'
      BY <1>5, StepAlone DEF Step
    <2>1. /\ pc[w] = "follow_read" /\ pc'[w] = "idle" /\ blocks' = blocks
          /\ follows' = follows \cup {req[w].pair}
      BY <1>0, <1>5 DEF SetUserFollow_Save, Running, Finish, Leave, TypeOK
    <2>2. req[w].pair \in Pair /\ ~Severed(req[w].pair)
      BY <2>1, RequestType DEF SerialInv
    <2>3. Promise!Follow(req[w].pair)
      BY <1>2, <2>0, <2>1, <2>2
         DEF Promise!Follow, Promise!Severed, Promise!Both, Severed, Reverse
    <2> QED
      BY <2>2, <2>3 DEF Promise!Next, Promise!Pair, Pair
  <1>6. ASSUME NEW w \in Worker, SetUserFollow_Delete(w) PROVE [Promise!Next]_(Promise!vars)
    <2>0. Only(w) /\ Only(w)'
      BY <1>6, StepAlone DEF Step
    <2>1. /\ pc[w] = "follow_read" /\ pc'[w] = "idle" /\ blocks' = blocks
          /\ follows' = follows \/ follows' = follows \ {req[w].pair}
      BY <1>0, <1>6 DEF SetUserFollow_Delete, Running, Leave, TypeOK
    <2>2. req[w].pair \in Promise!Pair
      BY <1>0, <2>1, RequestType DEF Promise!Pair, Pair
    <2>3. CASE follows' = follows
      BY <1>2, <2>0, <2>1, <2>3, Stutter
    <2>4. CASE follows' = follows \ {req[w].pair}
      BY <1>2, <2>0, <2>1, <2>2, <2>4 DEF Promise!Next, Promise!Unfollow
    <2> QED
      BY <2>1, <2>3, <2>4
  <1>7. ASSUME NEW w \in Worker, SetUserBlock_Save(w) PROVE [Promise!Next]_(Promise!vars)
    <2>0. Only(w) /\ Only(w)'
      BY <1>7, StepAlone DEF Step
    <2>1. /\ pc[w] = "block_read" /\ pc'[w] = "block_saved" /\ req' = req
          /\ blocks' = blocks \cup {req[w].pair} /\ follows' = follows
      BY <1>0, <1>7 DEF SetUserBlock_Save, Running, SerialInv, Goto, TypeOK
    <2>2. Cut = {}
      BY <2>0, <2>1, NothingCut DEF Cutting
    <2>3. Cut' = {req[w].pair, Reverse(req[w].pair)}
      <3>1. {v \in Worker : Cutting(v)'} = {w}
        BY <2>0, <2>1 DEF Only, Cutting
      <3> QED
        BY <2>1, <3>1 DEF Cut
    <2>4. Promise!Block(req[w].pair)
      BY <2>1, <2>2, <2>3 DEF Promise!Block, Promise!Both, Reverse
    <2> QED
      BY <1>0, <2>1, <2>4, RequestType DEF Promise!Next, Promise!Pair, Pair
  <1>8. ASSUME NEW w \in Worker, SetUserBlock_DeleteOwnFollow(w) PROVE [Promise!Next]_(Promise!vars)
    <2>0. Only(w) /\ Only(w)'
      BY <1>8, StepAlone DEF Step
    <2>1. /\ pc[w] = "block_saved" /\ pc'[w] = "own_deleted" /\ blocks' = blocks
          /\ follows' = follows \ {req[w].pair}
      BY <1>0, <1>8 DEF SetUserBlock_DeleteOwnFollow, DeleteFollow, TypeOK
    <2>2. req'[w].pair = req[w].pair
      BY <1>0, <1>8, <2>1, RequestType, ForgottenType DEF SetUserBlock_DeleteOwnFollow
    <2>3. Cut = {req[w].pair, Reverse(req[w].pair)}
      BY <2>0, <2>1, BeingCut DEF Cutting
    <2>4. Cut' = {req'[w].pair, Reverse(req'[w].pair)}
      <3>1. {v \in Worker : Cutting(v)'} = {w}
        BY <2>0, <2>1 DEF Only, Cutting
      <3> QED
        BY <3>1 DEF Cut, Reverse
    <2> QED
      BY <2>1, <2>2, <2>3, <2>4, Stutter
  <1>9. ASSUME NEW w \in Worker, SetUserBlock_DeleteTheirFollow(w) PROVE [Promise!Next]_(Promise!vars)
    <2>0. Only(w) /\ Only(w)'
      BY <1>9, StepAlone DEF Step
    <2>1. /\ pc[w] = "own_deleted" /\ pc'[w] = "idle" /\ blocks' = blocks
          /\ follows' = follows \ {Reverse(req[w].pair)}
      BY <1>0, <1>9 DEF SetUserBlock_DeleteTheirFollow, DeleteFollow, Leave, TypeOK
    <2>2. Cut = {req[w].pair, Reverse(req[w].pair)}
      BY <2>0, <2>1, BeingCut DEF Cutting
    <2>3. Cut' = {}
      BY <2>0, <2>1 DEF Only, Cutting, Cut
    <2>4. req[w].pair \notin follows
      BY <2>1 DEF SerialInv
    <2> QED
      BY <2>1, <2>2, <2>3, <2>4, Stutter
  <1>10. ASSUME NEW w \in Worker, SetUserBlock_Unblock(w) PROVE [Promise!Next]_(Promise!vars)
    <2>0. Only(w) /\ Only(w)'
      BY <1>10, StepAlone DEF Step
    <2>1. /\ pc[w] = "block_read" /\ pc'[w] = "idle" /\ follows' = follows
          /\ blocks' = blocks \/ blocks' = blocks \ {req[w].pair}
      BY <1>0, <1>10 DEF SetUserBlock_Unblock, Running, Leave, TypeOK
    <2>2. req[w].pair \in Promise!Pair
      BY <1>0, <2>1, RequestType DEF Promise!Pair, Pair
    <2>3. CASE blocks' = blocks
      BY <1>2, <2>0, <2>1, <2>3, Stutter
    <2>4. CASE blocks' = blocks \ {req[w].pair}
      BY <1>2, <2>0, <2>1, <2>2, <2>4 DEF Promise!Next, Promise!Unblock
    <2> QED
      BY <2>1, <2>3, <2>4
  <1>11. ASSUME NEW w \in Worker, Abandon(w) PROVE FALSE
    BY <1>11 DEF Abandon, calm
  <1> QED
    BY <1>1, <1>3, <1>4, <1>5, <1>6, <1>7, <1>8, <1>9, <1>10, <1>11 DEF Next, Step

LEMMA ContactsAlways ==
  ASSUME calm => SerialInv, (calm => SerialInv)', [Next]_vars
  PROVE  [Promise!Next]_(Promise!vars)
  <1>0. calm' = calm
    BY DEF Next, vars, calm
  <1>1. CASE calm
    BY <1>0, <1>1, ContactsStep
  <1>2. CASE ~calm
    BY <1>0, <1>2 DEF Promise!vars
  <1> QED
    BY <1>1, <1>2

\* In a calm behaviour follow and block are atomic to an observer: a block cuts
\* both follows in the step that saves its row.
THEOREM ImplementsContacts == Spec => KeepsContacts
  <1>1. Init => Promise!Init
    BY ContactsInit
  <1> QED
    BY <1>1, CalmInv, ContactsAlways, PTL DEF Spec, KeepsContacts, Promise!Spec
=============================================================================
