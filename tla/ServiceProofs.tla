--------------------------- MODULE ServiceProofs ---------------------------
(***************************************************************************)
(* Theorems about the services of MCServices for any users, workers,       *)
(* sockets and bounds.  A component's proof starts from its own Next; the  *)
(* part of a behaviour that moves takes its steps, the others stand still. *)
(***************************************************************************)
EXTENDS MCServices, SequenceTheorems, FiniteSetTheorems, TLAPS

-----------------------------------------------------------------------------
(* Gateway                                                                 *)

\* A socket has an owner once it was opened, and is verified from then on.
Opened ==
  \A s \in Socket : /\ stage[s] = "none" <=> link[s] = "unused"
                    /\ stage[s] # "none" => owner[s] \in User

\* Two sockets of a steady user are not open at the same time, so a closed one
\* alone can take the entry of an open one.
OneOpen ==
  steady => /\ \A s, t \in Socket :
                 link[s] = "open" /\ link[t] = "open" /\ owner[s] = owner[t] => s = t
            /\ \A s \in Socket : lost[s] # "other"

Sockets == G!TypeOK /\ Opened /\ OneOpen /\ EventsArrive

LEMMA GatewaySteps ==
  ASSUME Sockets, NEW s \in Socket,
         (\E u \in User : G!Connect(s, u)) \/ G!Handle(s) \/ G!Refuse(s) \/ G!Disconnect(s)
  PROVE  Sockets'
  <1> USE NoneIsNothing DEF Sockets
  <1>1. ASSUME NEW u \in User, G!Connect(s, u) PROVE Sockets'
    <2> USE <1>1 DEF G!Connect
    <2>1. G!TypeOK'
      BY DEF G!TypeOK, G!Supplant
    <2>2. Opened'
      BY DEF G!TypeOK, Opened
    <2>3. OneOpen'
      BY DEF G!TypeOK, Opened, OneOpen, G!Supplant, G!Listening
    <2>4. EventsArrive'
      BY DEF G!TypeOK, Opened, EventsArrive, G!Addressed, G!Reachable, G!Listening
    <2> QED
      BY <2>1, <2>2, <2>3, <2>4
  <1>2. CASE G!Handle(s)
    <2> USE <1>2 DEF G!Handle
    <2>1. G!TypeOK'
      BY DEF G!TypeOK, G!Supplant
    <2>2. Opened'
      BY DEF G!TypeOK, Opened
    <2>3. OneOpen'
      BY DEF G!TypeOK, Opened, OneOpen, G!Supplant, G!Listening
    <2>4. EventsArrive'
      BY DEF G!TypeOK, Opened, OneOpen, G!Supplant, G!Listening, EventsArrive, G!Addressed, G!Reachable, G!Listening
    <2> QED
      BY <2>1, <2>2, <2>3, <2>4
  <1>3. CASE G!Refuse(s)
    <2> USE <1>3 DEF G!Refuse
    <2>1. G!TypeOK'
      BY DEF G!TypeOK, G!Supplant
    <2>2. Opened'
      BY DEF G!TypeOK, Opened
    <2>3. OneOpen'
      BY DEF G!TypeOK, Opened, OneOpen, G!Supplant, G!Listening
    <2>4. EventsArrive'
      BY DEF G!TypeOK, Opened, EventsArrive, G!Addressed, G!Reachable, G!Listening
    <2> QED
      BY <2>1, <2>2, <2>3, <2>4
  <1>4. CASE G!Disconnect(s)
    <2>0. /\ owner' = owner /\ stage' = stage /\ steady' = steady /\ link[s] = "open"
          /\ link' = [link EXCEPT ![s] = "closed"]
      BY <1>4 DEF G!Disconnect
    <2>1. CASE stage[s] # "known"
      <3>1. UNCHANGED <<connectedUsers, lost>>
        BY <1>4, <2>1 DEF G!Disconnect
      <3>2. G!TypeOK'
        BY <2>0, <3>1 DEF G!TypeOK
      <3>3. Opened'
        BY <2>0, <3>1 DEF G!TypeOK, Opened
      <3>4. OneOpen'
        BY <2>0, <3>1 DEF G!TypeOK, OneOpen
      <3>5. EventsArrive'
        BY <2>0, <3>1 DEF G!TypeOK, Opened, EventsArrive, G!Addressed, G!Reachable, G!Listening
      <3> QED
        BY <3>2, <3>3, <3>4, <3>5
    <2>2. CASE stage[s] = "known"
      <3>1. /\ connectedUsers' = [connectedUsers EXCEPT ![owner[s]] = None]
            /\ G!Supplant(s, "other")
        BY <1>4, <2>2 DEF G!Disconnect
      <3>2. G!TypeOK'
        BY <2>0, <3>1 DEF G!TypeOK, G!Supplant
      <3>3. Opened'
        BY <2>0 DEF G!TypeOK, Opened
      <3>4. steady => lost' = lost
        BY <2>0, <3>1 DEF G!TypeOK, OneOpen, G!Supplant, G!Listening
      <3>5. OneOpen'
        BY <2>0, <3>4 DEF G!TypeOK, OneOpen
      <3>6. G!Addressed'
        BY <2>0, <2>2, <3>1 DEF G!TypeOK, Opened, EventsArrive, G!Addressed
      <3>7. ASSUME NEW t \in Socket, G!Listening(t)'
            PROVE  \/ connectedUsers'[owner'[t]] = t \/ lost'[t] = "late"
                   \/ (lost'[t] = "other" /\ ~steady')
        <4>1. t # s /\ G!Listening(t)
          BY <2>0, <3>7 DEF G!TypeOK, G!Listening
        <4>2. CASE owner[t] # owner[s]
          <5>1. lost'[t] = lost[t] /\ connectedUsers'[owner[t]] = connectedUsers[owner[t]]
            BY <3>1, <4>1, <4>2, <2>2 DEF G!Supplant, G!TypeOK, Opened, G!Listening
          <5> QED
            BY <2>0, <4>1, <5>1 DEF EventsArrive, G!Reachable
        <4>3. CASE owner[t] = owner[s]
          <5>1. ~steady
            BY <2>0, <4>1, <4>3 DEF OneOpen, G!Listening
          <5>2. lost'[t] \in {"late", "other"}
            BY <3>1, <4>1, <4>3 DEF G!Supplant, G!TypeOK
          <5> QED
            BY <2>0, <5>1, <5>2
        <4> QED
          BY <4>2, <4>3
      <3> QED
        BY <3>2, <3>3, <3>5, <3>6, <3>7 DEF EventsArrive, G!Reachable
    <2> QED
      BY <2>1, <2>2
  <1> QED
    BY <1>1, <1>2, <1>3, <1>4

LEMMA SocketsAlways == Spec => []Sockets
  <1>1. Init => Sockets
    BY NoneIsNothing DEF Init, Sockets, Opened, OneOpen, EventsArrive, G!Init, G!TypeOK, G!Addressed, G!Reachable, G!Listening
  <1>2. Sockets /\ [Next]_vars => Sockets'
    <2> SUFFICES ASSUME Sockets, [Next]_vars PROVE Sockets'
      OBVIOUS
    <2>1. CASE G!Next
      BY <2>1, GatewaySteps DEF G!Next
    <2>2. CASE UNCHANGED sockets
      BY <2>2 DEF sockets, Sockets, Opened, OneOpen, EventsArrive, G!TypeOK, G!Addressed, G!Reachable, G!Listening
    <2> QED
      BY <2>1, <2>2 DEF Next, vars
  <1> QED
    BY <1>1, <1>2, PTL DEF Spec

\* For any users and sockets: the events of a user go to that user's sockets
\* only, and to an open one until another socket of that user takes the entry; if
\* a user's next socket comes in once the last one has closed, only the late
\* verification of a closed socket does so (ConversationsGateway).
THEOREM EventsAlwaysArrive == Spec => []EventsArrive
  <1>1. Sockets => EventsArrive
    BY DEF Sockets
  <1> QED
    BY <1>1, SocketsAlways, PTL

-----------------------------------------------------------------------------
(* Cart                                                                    *)

CartShape ==
  /\ C!TypeOK
  /\ lastId \in Nat /\ asked \in [User -> Nat] /\ cartWanted \in [User -> Nat]
  /\ \A w \in Worker : /\ cartPc[w] = "idle" <=> cartReq[w] = None
                       /\ cartPc[w] = "selected" => cartReq[w].row.id # None

\* The ids that a user's row and requests name.
Names(u, id) ==
  \/ item[u] # None /\ item[u].id = id
  \/ \E w \in Worker : cartReq[w] # None /\ cartReq[w].user = u /\ cartReq[w].row.id = id

\* An id was given to one user and stays with that user, even while the row is gone.
IdsApart ==
  \A u \in User, id \in Nat :
    Names(u, id) => id <= lastId /\ \A v \in User : Names(v, id) => v = u

\* Nobody is about to write more than was asked for.
CartBounded ==
  /\ \A u \in User : C!Quantity(u) <= asked[u]
  /\ \A w \in Worker : cartReq[w] # None => cartReq[w].row.quantity <= asked[cartReq[w].user]

\* Without overlap, the one request at work has the row as it still is, and
\* will write what its user wants.
AsLoaded(w) ==
  LET r == cartReq[w]
      row == item[r.user]
  IN  /\ IF row = None THEN r.row.id = None ELSE r.row.id = row.id
      /\ cartPc[w] = "selected" => r.selected = row
      /\ cartPc[w] # "delete" => r.row.quantity = C!Wants(r)
      /\ cartPc[w] = "delete" => row # None /\ C!Wants(r) = 0

CartSerial ==
  ~cartOverlaps =>
    /\ \A u \in User : C!Quantity(u) = cartWanted[u]
    /\ \A w \in Worker : cartPc[w] # "idle" =>
         AsLoaded(w) /\ \A v \in Worker : cartPc[v] # "idle" => v = w

CartInv == CartShape /\ IdsApart /\ CartBounded /\ CartSerial

LEMMA CartRunning ==
  ASSUME CartShape, NEW w \in Worker, cartPc[w] # "idle"
  PROVE  /\ cartReq[w] \in C!Request /\ cartReq[w] # None /\ cartReq[w].user \in User
         /\ cartReq[w].asks \in Nat /\ cartReq[w].row.quantity \in Nat
         /\ cartReq[w].row.id \in Nat \cup {None}
         /\ cartReq[w].row \in [id : Nat \cup {None}, quantity : Nat]
  BY DEF CartShape, C!TypeOK, C!Request

LEMMA CartStarts ==
  ASSUME CartInv, NEW w \in Worker, NEW u \in User, NEW op \in C!Op, NEW asks \in Nat,
         NEW row \in [id : Nat \cup {None}, quantity : Nat], NEW at \in {"save", "delete"},
         C!Start(w, op, u, asks, row, at),
         IF item[u] = None THEN row.id = None ELSE row.id = item[u].id,
         row.quantity <= asked[u] + asks,
         at = "save" => row.quantity = IF op = "add" THEN C!Quantity(u) + asks ELSE asks,
         at = "delete" => item[u] # None /\ op = "delete" /\ asks = 0
  PROVE  CartInv'
  <1> DEFINE r == [op |-> op, user |-> u, asks |-> asks, row |-> row, selected |-> None]
  <1>1. r \in C!Request /\ r.op = op /\ r.user = u /\ r.asks = asks /\ r.row = row /\ r.selected = None
    BY DEF C!Request
  <1>2. r # None
    BY <1>1, NoneIsNoRow
  <1>3. /\ cartPc[w] = "idle" /\ C!MayStart
        /\ asked' = [asked EXCEPT ![u] = @ + asks]
        /\ cartReq' = [cartReq EXCEPT ![w] = r] /\ cartPc' = [cartPc EXCEPT ![w] = at]
        /\ UNCHANGED <<item, lastId, cartWanted, cartOverlaps>>
    BY DEF C!Start, C!Goto
  <1> HIDE DEF r
  <1>4. CartShape'
    BY <1>1, <1>2, <1>3 DEF CartInv, CartShape, C!TypeOK
  <1>5. \A v \in User, id \in Nat : Names(v, id)' => Names(v, id)
    <2> SUFFICES ASSUME NEW v \in User, NEW id \in Nat, Names(v, id)' PROVE Names(v, id)
      OBVIOUS
    <2> QED
      BY <1>1, <1>3, NoneIsNothing DEF Names, CartInv, CartShape, C!TypeOK
  <1>6. IdsApart'
    <2> SUFFICES ASSUME NEW v \in User, NEW id \in Nat, Names(v, id)'
                 PROVE  id <= lastId' /\ \A x \in User : Names(x, id)' => x = v
      BY DEF IdsApart
    <2> QED
      BY <1>3, <1>5 DEF CartInv, IdsApart
  <1>7. CartBounded'
    <2>1. \A v \in User : asked'[v] \in Nat /\ asked[v] <= asked'[v] /\ C!Quantity(v)' = C!Quantity(v)
      BY <1>3 DEF C!Quantity, CartInv, CartShape
    <2>2. ASSUME NEW v \in User PROVE C!Quantity(v)' <= asked'[v]
      BY <1>3, <2>1 DEF CartInv, CartShape, CartBounded, C!Quantity, C!TypeOK, C!Row
    <2>3. ASSUME NEW v \in Worker, cartReq'[v] # None
          PROVE  cartReq'[v].row.quantity <= asked'[cartReq'[v].user]
      <3>1. CASE v = w
        BY <1>1, <1>3, <3>1 DEF CartInv, CartShape, C!TypeOK
      <3>2. CASE v # w
        <4>1. cartReq'[v] = cartReq[v] /\ cartPc[v] # "idle"
          BY <1>3, <2>3, <3>2 DEF CartInv, CartShape, C!TypeOK
        <4> QED
          BY <2>1, <2>3, <4>1, CartRunning DEF CartInv, CartShape, CartBounded
      <3> QED
        BY <3>1, <3>2
    <2> QED
      BY <2>2, <2>3 DEF CartBounded
  <1>8. CartSerial'
    BY <1>1, <1>3 DEF CartSerial, C!Quantity, CartInv, CartShape, C!TypeOK, C!MayStart, C!AtRest, AsLoaded, C!Wants, C!Op
  <1> QED
    BY <1>4, <1>6, <1>7, <1>8 DEF CartInv

\* Where the id of a row may come from when worker w's request ends.
Known(w, v) ==
  item'[v] = None \/ Names(v, item'[v].id)
    \/ (v = cartReq[w].user /\ lastId' = lastId + 1 /\ item'[v].id = lastId')

LEMMA CartEnds ==
  ASSUME CartInv, NEW w \in Worker, cartPc[w] # "idle", C!Finish(w),
         item' \in [User -> C!Row \cup {None}], cartWanted' \in [User -> Nat],
         lastId' \in Nat, lastId <= lastId', asked' = asked,
         \A v \in User : Known(w, v) /\ C!Quantity(v)' <= asked[v],
         ~cartOverlaps => \A v \in User : C!Quantity(v)' = cartWanted'[v]
  PROVE  CartInv'
  <1>1. /\ cartReq' = [cartReq EXCEPT ![w] = None] /\ cartPc' = [cartPc EXCEPT ![w] = "idle"]
        /\ cartOverlaps' = cartOverlaps
    BY DEF C!Finish, C!Goto
  <1>2. cartReq[w].user \in User
    BY CartRunning DEF CartInv
  <1>3. ASSUME NEW v \in User, NEW id \in Nat, Names(v, id)'
        PROVE  Names(v, id) \/ (v = cartReq[w].user /\ lastId' = lastId + 1 /\ id = lastId')
    <2>1. CASE item'[v] # None /\ item'[v].id = id
      BY <2>1 DEF Known
    <2>2. CASE \E x \in Worker : cartReq'[x] # None /\ cartReq'[x].user = v /\ cartReq'[x].row.id = id
      BY <1>1, <2>2 DEF Names, CartInv, CartShape, C!TypeOK
    <2> QED
      BY <1>3, <2>1, <2>2 DEF Names
  <1>4. IdsApart'
    <2> SUFFICES ASSUME NEW v \in User, NEW id \in Nat, Names(v, id)'
                 PROVE  id <= lastId' /\ \A x \in User : Names(x, id)' => x = v
      BY DEF IdsApart
    <2>1. lastId \in Nat
      BY DEF CartInv, CartShape
    <2>2. CASE Names(v, id)
      <3>1. id <= lastId /\ \A x \in User : Names(x, id) => x = v
        BY <2>2 DEF CartInv, IdsApart
      <3> QED
        BY <1>3, <2>1, <3>1
    <2>3. CASE v = cartReq[w].user /\ lastId' = lastId + 1 /\ id = lastId'
      <3>1. \A x \in User : ~Names(x, id)
        BY <2>1, <2>3 DEF CartInv, IdsApart
      <3> QED
        BY <1>3, <2>3, <3>1
    <2> QED
      BY <1>3, <2>2, <2>3
  <1>5. CartShape'
    <2>1. ASSUME NEW u \in User, NEW v \in User, u # v, item'[u] # None, item'[v] # None
          PROVE  item'[u].id # item'[v].id
      <3>1. ASSUME NEW id \in Nat, item'[u].id = id, item'[v].id = id PROVE FALSE
        <4>1. Names(u, id)' /\ Names(v, id)'
          BY <2>1, <3>1 DEF Names
        <4> QED
          BY <1>4, <2>1, <4>1 DEF IdsApart
      <3> QED
        BY <2>1, <3>1 DEF C!Row
    <2> QED
      BY <1>1, <2>1 DEF CartInv, CartShape, C!TypeOK
  <1>6. CartBounded'
    BY <1>1 DEF CartInv, CartShape, C!TypeOK, CartBounded, C!Quantity
  <1>7. CartSerial'
    BY <1>1 DEF CartInv, CartShape, C!TypeOK, CartSerial, C!Quantity
  <1> QED
    BY <1>4, <1>5, <1>6, <1>7 DEF CartInv

LEMMA RowOf ==
  ASSUME CartShape, NEW u \in User, item[u] # None
  PROVE  item[u] \in C!Row /\ item[u].id \in Nat /\ item[u].quantity \in Nat /\ C!Quantity(u) = item[u].quantity
  BY DEF CartShape, C!TypeOK, C!Row, C!Quantity

LEMMA CartFinds ==
  ASSUME CartInv, NEW w \in Worker, NEW u \in User, NEW q \in Nat, NEW id \in Nat,
         C!AddCart_Find(w, u, q) \/ C!EditCart_Find(w, u, id, q) \/ C!DeleteCart_Find(w, u, id)
  PROVE  CartInv'
  <1> USE DEF CartInv
  <1>0. asked[u] \in Nat /\ C!Quantity(u) <= asked[u]
    BY DEF CartShape, CartBounded
  <1>1. CASE C!AddCart_Find(w, u, q)
    <2>1. CASE item[u] = None
      <3> DEFINE row == [id |-> None, quantity |-> q]
      <3>1. row \in [id : Nat \cup {None}, quantity : Nat] /\ row.id = None /\ row.quantity = q
        OBVIOUS
      <3>2. C!Start(w, "add", u, q, row, "save") /\ C!Quantity(u) = 0
        BY <1>1, <2>1 DEF C!AddCart_Find, C!Quantity
      <3> HIDE DEF row
      <3> QED
        BY <1>0, <2>1, <3>1, <3>2, CartStarts DEF C!Op
    <2>2. CASE item[u] # None
      <3> DEFINE row == [item[u] EXCEPT !.quantity = @ + q]
      <3>1. row \in [id : Nat \cup {None}, quantity : Nat] /\ row.id = item[u].id
            /\ row.quantity = C!Quantity(u) + q
        BY <2>2, RowOf DEF C!Row
      <3>2. C!Start(w, "add", u, q, row, "save")
        BY <1>1, <2>2 DEF C!AddCart_Find
      <3>3. C!Quantity(u) \in Nat
        BY <2>2, RowOf
      <3> HIDE DEF row
      <3> QED
        BY <1>0, <2>2, <3>1, <3>2, <3>3, CartStarts DEF C!Op
    <2> QED
      BY <2>1, <2>2
  <1>2. CASE C!EditCart_Find(w, u, id, q)
    <2> DEFINE row == [id |-> id, quantity |-> q]
    <2>1. row \in [id : Nat \cup {None}, quantity : Nat] /\ row.id = id /\ row.quantity = q
      OBVIOUS
    <2>2. C!Start(w, "edit", u, q, row, "save") /\ item[u] # None /\ item[u].id = id
      BY <1>2 DEF C!EditCart_Find
    <2> HIDE DEF row
    <2> QED
      BY <1>0, <2>1, <2>2, CartStarts DEF C!Op
  <1>3. CASE C!DeleteCart_Find(w, u, id)
    <2>1. C!Start(w, "delete", u, 0, item[u], "delete") /\ item[u] # None
      BY <1>3 DEF C!DeleteCart_Find
    <2>2. item[u] \in [id : Nat \cup {None}, quantity : Nat] /\ item[u].quantity <= asked[u] + 0
      BY <1>0, <2>1, RowOf DEF C!Row
    <2> QED
      BY <2>1, <2>2, CartStarts DEF C!Op
  <1> QED
    BY <1>1, <1>2, <1>3

\* The row with an id is that of the one user who has it.
LEMMA IdFinds ==
  ASSUME CartInv, NEW id \in Nat
  PROVE  /\ C!ById(id) \in C!Row \cup {None}
         /\ C!ById(id) # None => C!ById(id).id = id
         /\ \A u \in User : item[u] # None /\ item[u].id = id => C!ById(id) = item[u]
  <1>1. CASE \E u \in User : item[u] # None /\ item[u].id = id
    <2> DEFINE x == CHOOSE u \in User : item[u] # None /\ item[u].id = id
    <2>1. x \in User /\ item[x] # None /\ item[x].id = id
      BY <1>1
    <2>2. C!ById(id) = item[x]
      BY <1>1 DEF C!ById
    <2> HIDE DEF x
    <2>3. \A u \in User : item[u] # None /\ item[u].id = id => u = x
      BY <2>1 DEF CartInv, CartShape, C!TypeOK
    <2> QED
      BY <2>1, <2>2, <2>3, RowOf DEF CartInv
  <1>2. CASE ~\E u \in User : item[u] # None /\ item[u].id = id
    BY <1>2 DEF C!ById
  <1> QED
    BY <1>1, <1>2

LEMMA CartSelects ==
  ASSUME CartInv, NEW w \in Worker, C!Save_Select(w)
  PROVE  CartInv'
  <1> DEFINE r == cartReq[w]
             found == C!ById(r.row.id)
             new == [r EXCEPT !.selected = found]
  <1>1. /\ cartPc[w] = "save" /\ r.row.id # None
        /\ cartReq' = [cartReq EXCEPT ![w] = new] /\ cartPc' = [cartPc EXCEPT ![w] = "selected"]
        /\ UNCHANGED <<item, lastId, cartWanted, asked, cartOverlaps>>
    BY DEF C!Save_Select, C!Goto
  <1>2. r \in C!Request /\ r.user \in User /\ r.row.id \in Nat
    BY <1>1, CartRunning DEF CartInv
  <1>3. new \in C!Request /\ new.selected = found
        /\ new.op = r.op /\ new.user = r.user /\ new.asks = r.asks /\ new.row = r.row
    BY <1>2, IdFinds DEF C!Request
  <1>4. new # None
    BY <1>3, NoneIsNoRow
  <1>5. ~cartOverlaps => /\ AsLoaded(w) /\ \A v \in Worker : cartPc[v] # "idle" => v = w
                         /\ found = item[r.user]
    <2> SUFFICES ASSUME ~cartOverlaps
                 PROVE  /\ AsLoaded(w) /\ \A v \in Worker : cartPc[v] # "idle" => v = w
                        /\ found = item[r.user]
      OBVIOUS
    <2>1. AsLoaded(w) /\ \A v \in Worker : cartPc[v] # "idle" => v = w
      BY <1>1 DEF CartInv, CartSerial
    <2>2. item[r.user] # None /\ item[r.user].id = r.row.id
      BY <1>1, <2>1 DEF AsLoaded
    <2> QED
      BY <1>2, <2>1, <2>2, IdFinds
  <1> HIDE DEF found, new
  <1>6. CartShape'
    BY <1>1, <1>3, <1>4 DEF CartInv, CartShape, C!TypeOK
  <1>7. \A v \in User, id \in Nat : Names(v, id)' => Names(v, id)
    <2> SUFFICES ASSUME NEW v \in User, NEW id \in Nat, Names(v, id)' PROVE Names(v, id)
      OBVIOUS
    <2> QED
      BY <1>1, <1>3 DEF Names, CartInv, CartShape, C!TypeOK
  <1>8. IdsApart'
    <2> SUFFICES ASSUME NEW v \in User, NEW id \in Nat, Names(v, id)'
                 PROVE  id <= lastId' /\ \A x \in User : Names(x, id)' => x = v
      BY DEF IdsApart
    <2> QED
      BY <1>1, <1>7 DEF CartInv, IdsApart
  <1>9. CartBounded'
    BY <1>1, <1>3 DEF CartInv, CartShape, C!TypeOK, CartBounded, C!Quantity
  <1>10. CartSerial'
    BY <1>1, <1>3, <1>5 DEF CartInv, CartShape, C!TypeOK, CartSerial, C!Quantity, AsLoaded, C!Wants
  <1> QED
    BY <1>6, <1>8, <1>9, <1>10 DEF CartInv

\* What the worker's user wants is recorded; nothing else of it changes.
LEMMA CartSucceeds ==
  ASSUME CartInv, NEW w \in Worker, cartPc[w] # "idle", C!Succeed(w)
  PROVE  /\ cartReq[w].user \in User /\ C!Wants(cartReq[w]) \in Nat
         /\ cartWanted' \in [User -> Nat] /\ cartWanted'[cartReq[w].user] = C!Wants(cartReq[w])
         /\ \A u \in User \ {cartReq[w].user} : cartWanted'[u] = cartWanted[u]
  <1>1. cartReq[w].user \in User /\ C!Wants(cartReq[w]) \in Nat
    BY CartRunning DEF CartInv, CartShape, C!Wants
  <1> QED
    BY <1>1 DEF C!Succeed, CartInv, CartShape

LEMMA CartUpdates ==
  ASSUME CartInv, NEW w \in Worker, C!Save_Update(w)
  PROVE  CartInv'
  <1> DEFINE r == cartReq[w]
             u == r.user
  <1>1. /\ cartPc[w] = "selected" /\ r.selected # None /\ C!Succeed(w) /\ C!Finish(w)
        /\ lastId' = lastId /\ asked' = asked
    BY DEF C!Save_Update
  <1>2. /\ r.row \in C!Row /\ r.row.id \in Nat /\ r.row # None /\ r.row.quantity \in Nat
        /\ r.row.quantity <= asked[u] /\ u \in User
    BY <1>1, CartRunning, NoneIsNoRow DEF CartInv, CartShape, CartBounded, C!Row
  <1>3. Names(u, r.row.id)
    BY <1>1, CartRunning DEF Names, CartInv
  <1>4. \A v \in User : item[v] # None /\ item[v].id = r.row.id => v = u
    <2> SUFFICES ASSUME NEW v \in User, item[v] # None, item[v].id = r.row.id PROVE v = u
      OBVIOUS
    <2>1. Names(v, r.row.id)
      BY DEF Names
    <2> QED
      BY <1>2, <1>3, <2>1 DEF CartInv, IdsApart
  <1>5. item' \in [User -> C!Row \cup {None}]
        /\ \A v \in User : \/ item'[v] = item[v]
                           \/ v = u /\ item[v] # None /\ item[v].id = r.row.id /\ item'[v] = r.row
    BY <1>2, <1>4 DEF C!Save_Update, CartInv, CartShape, C!TypeOK
  <1>6. ASSUME NEW v \in User PROVE Known(w, v) /\ C!Quantity(v)' <= asked[v]
    BY <1>2, <1>3, <1>5 DEF Known, Names, C!Quantity, CartInv, CartBounded
  <1>7. ASSUME ~cartOverlaps, NEW v \in User PROVE C!Quantity(v)' = cartWanted'[v]
    <2>1. /\ AsLoaded(w) /\ C!Quantity(v) = cartWanted[v]
      BY <1>1, <1>7 DEF CartInv, CartSerial
    <2>2. item[u] # None /\ item[u].id = r.row.id /\ r.selected = item[u] /\ r.row.quantity = C!Wants(r)
      BY <1>1, <2>1 DEF AsLoaded
    <2>3. CASE v = u
      <3>1. item'[u] # None /\ item'[u].quantity = r.row.quantity
        BY <1>2, <2>2 DEF C!Save_Update, CartInv, CartShape, C!TypeOK
      <3> QED
        BY <1>1, <2>2, <2>3, <3>1, CartSucceeds DEF C!Quantity
    <2>4. CASE v # u
      BY <1>1, <1>5, <2>1, <2>4, CartSucceeds DEF C!Quantity
    <2> QED
      BY <2>3, <2>4
  <1>8. cartWanted' \in [User -> Nat]
    BY <1>1, CartSucceeds
  <1>9. lastId \in Nat
    BY DEF CartInv, CartShape
  <1> QED
    BY <1>1, <1>5, <1>6, <1>7, <1>8, <1>9, CartEnds

LEMMA CartInserts ==
  ASSUME CartInv, NEW w \in Worker, C!Save_Insert(w)
  PROVE  CartInv'
  <1> DEFINE r == cartReq[w]
             u == r.user
             new == r.row.id = None
             row == IF new THEN [r.row EXCEPT !.id = lastId'] ELSE r.row
  <1>1. /\ cartPc[w] # "idle" /\ C!Inserting(w) /\ item[u] = None /\ C!Succeed(w) /\ C!Finish(w)
        /\ lastId' = (IF new THEN lastId + 1 ELSE lastId) /\ asked' = asked
        /\ item' = [item EXCEPT ![u] = row]
    BY DEF C!Save_Insert, C!Inserting
  <1>2. lastId \in Nat /\ lastId' \in Nat /\ lastId <= lastId'
    BY <1>1 DEF CartInv, CartShape
  <1>3. r.row.quantity \in Nat /\ r.row.quantity <= asked[u] /\ u \in User
        /\ r.row \in [id : Nat \cup {None}, quantity : Nat]
    BY <1>1, CartRunning DEF CartInv, CartBounded
  <1>4. row \in C!Row /\ row.quantity = r.row.quantity /\ row.id = IF new THEN lastId' ELSE r.row.id
    BY <1>2, <1>3 DEF C!Row
  <1>5. row # None
    BY <1>4, NoneIsNoRow
  <1> HIDE DEF row
  <1>6. item' \in [User -> C!Row \cup {None}] /\ item'[u] = row
        /\ \A v \in User \ {u} : item'[v] = item[v]
    BY <1>1, <1>3, <1>4 DEF CartInv, CartShape, C!TypeOK
  <1>7. ~new => Names(u, r.row.id)
    BY <1>1, CartRunning DEF Names, CartInv
  <1>8. ASSUME NEW v \in User PROVE Known(w, v) /\ C!Quantity(v)' <= asked[v]
    BY <1>1, <1>3, <1>4, <1>5, <1>6, <1>7 DEF Known, Names, C!Quantity, CartInv, CartBounded
  <1>9. ASSUME ~cartOverlaps, NEW v \in User PROVE C!Quantity(v)' = cartWanted'[v]
    <2>1. AsLoaded(w) /\ C!Quantity(v) = cartWanted[v]
      BY <1>1, <1>9 DEF CartInv, CartSerial
    <2>2. r.row.quantity = C!Wants(r)
      BY <1>1, <2>1 DEF AsLoaded
    <2>3. CASE v = u
      BY <1>1, <1>4, <1>5, <1>6, <2>2, <2>3, CartSucceeds DEF C!Quantity
    <2>4. CASE v # u
      BY <1>1, <1>6, <2>1, <2>4, CartSucceeds DEF C!Quantity
    <2> QED
      BY <2>3, <2>4
  <1>10. cartWanted' \in [User -> Nat]
    BY <1>1, CartSucceeds
  <1> QED
    BY <1>1, <1>2, <1>6, <1>8, <1>9, <1>10, CartEnds

LEMMA CartDeletes ==
  ASSUME CartInv, NEW w \in Worker, C!DeleteCart_Delete(w)
  PROVE  CartInv'
  <1> DEFINE r == cartReq[w]
             u == r.user
  <1>1. /\ cartPc[w] = "delete" /\ C!Succeed(w) /\ C!Finish(w) /\ lastId' = lastId /\ asked' = asked
    BY DEF C!DeleteCart_Delete
  <1>2. \A v \in User : item'[v] = IF item[v] # None /\ item[v].id = r.row.id THEN None ELSE item[v]
    BY DEF C!DeleteCart_Delete
  <1>3. item' \in [User -> C!Row \cup {None}]
    BY DEF C!DeleteCart_Delete, CartInv, CartShape, C!TypeOK
  <1>4. ASSUME NEW v \in User PROVE Known(w, v) /\ C!Quantity(v)' <= asked[v]
    BY <1>2 DEF Known, Names, C!Quantity, CartInv, CartBounded, CartShape
  <1>5. ASSUME ~cartOverlaps, NEW v \in User PROVE C!Quantity(v)' = cartWanted'[v]
    <2>1. AsLoaded(w) /\ C!Quantity(v) = cartWanted[v]
      BY <1>1, <1>5 DEF CartInv, CartSerial
    <2>2. item[u] # None /\ item[u].id = r.row.id /\ C!Wants(r) = 0 /\ u \in User
      BY <1>1, <2>1, CartRunning DEF AsLoaded, CartInv
    <2>3. CASE v = u
      BY <1>1, <1>2, <2>2, <2>3, CartSucceeds DEF C!Quantity
    <2>4. CASE v # u
      <3>1. item[v] # None => item[v].id # r.row.id
        BY <2>2, <2>4 DEF CartInv, CartShape, C!TypeOK
      <3> QED
        BY <1>1, <1>2, <2>1, <2>4, <3>1, CartSucceeds DEF C!Quantity
    <2> QED
      BY <2>3, <2>4
  <1>6. cartWanted' \in [User -> Nat] /\ lastId \in Nat
    BY <1>1, CartSucceeds DEF CartInv, CartShape
  <1> QED
    BY <1>1, <1>3, <1>4, <1>5, <1>6, CartEnds

LEMMA CartClears ==
  ASSUME CartInv, NEW u \in User, C!CreateOrder_Clear(u)
  PROVE  CartInv'
  <1>1. /\ C!MayStart /\ item' = [item EXCEPT ![u] = None] /\ cartWanted' = [cartWanted EXCEPT ![u] = 0]
        /\ UNCHANGED <<lastId, cartPc, cartReq, cartOverlaps, asked>>
    BY DEF C!CreateOrder_Clear
  <1>2. CartShape'
    BY <1>1 DEF CartInv, CartShape, C!TypeOK
  <1>3. \A v \in User, id \in Nat : Names(v, id)' => Names(v, id)
    BY <1>1 DEF Names, CartInv, CartShape, C!TypeOK
  <1>4. IdsApart'
    <2> SUFFICES ASSUME NEW v \in User, NEW id \in Nat, Names(v, id)'
                 PROVE  id <= lastId' /\ \A x \in User : Names(x, id)' => x = v
      BY DEF IdsApart
    <2> QED
      BY <1>1, <1>3 DEF CartInv, IdsApart
  <1>5. CartBounded'
    BY <1>1 DEF CartInv, CartShape, C!TypeOK, CartBounded, C!Quantity
  <1>6. CartSerial'
    BY <1>1 DEF CartInv, CartShape, C!TypeOK, CartSerial, C!Quantity, C!MayStart, C!AtRest
  <1> QED
    BY <1>2, <1>4, <1>5, <1>6 DEF CartInv

\* A request that ends with nothing written.
LEMMA CartStops ==
  ASSUME CartInv, NEW w \in Worker, C!Save_Duplicate(w) \/ C!Abandon(w)
  PROVE  CartInv'
  <1>1. /\ cartPc[w] # "idle" /\ C!Finish(w) /\ UNCHANGED <<item, lastId, cartWanted, asked>>
    BY DEF C!Save_Duplicate, C!Abandon, C!Inserting
  <1>2. ASSUME NEW v \in User PROVE Known(w, v) /\ C!Quantity(v)' <= asked[v]
    BY <1>1 DEF Known, Names, C!Quantity, CartInv, CartBounded
  <1>3. ASSUME ~cartOverlaps, NEW v \in User PROVE C!Quantity(v)' = cartWanted'[v]
    BY <1>1, <1>3 DEF C!Quantity, CartInv, CartSerial
  <1>4. /\ item' \in [User -> C!Row \cup {None}] /\ cartWanted' \in [User -> Nat]
        /\ lastId' \in Nat /\ lastId <= lastId' /\ asked' = asked
    BY <1>1 DEF CartInv, CartShape, C!TypeOK
  <1> QED
    BY <1>1, <1>2, <1>3, <1>4, CartEnds

LEMMA CartAlways == Spec => []CartInv
  <1>1. Init => CartInv
    <2> SUFFICES ASSUME Init PROVE CartInv
      OBVIOUS
    <2> USE DEF Init, C!Init
    <2>1. CartShape
      BY DEF CartShape, C!TypeOK
    <2>2. IdsApart
      BY DEF IdsApart, Names
    <2>3. CartBounded /\ CartSerial
      BY DEF CartBounded, CartSerial, C!Quantity
    <2> QED
      BY <2>1, <2>2, <2>3 DEF CartInv
  <1>2. CartInv /\ [Next]_vars => CartInv'
    <2> SUFFICES ASSUME CartInv, [Next]_vars PROVE CartInv'
      OBVIOUS
    <2>1. CASE C!Next
      <3>1. ASSUME NEW w \in Worker, NEW u \in User, NEW q \in 1 .. MaxQuantity,
                   C!AddCart_Find(w, u, q) \/ \E id \in 1 .. MaxItems : C!EditCart_Find(w, u, id, q)
            PROVE  CartInv'
        <4>1. q \in Nat
          OBVIOUS
        <4>2. CASE C!AddCart_Find(w, u, q)
          BY <4>1, <4>2, CartFinds
        <4>3. ASSUME NEW id \in 1 .. MaxItems, C!EditCart_Find(w, u, id, q) PROVE CartInv'
          <5>1. id \in Nat
            OBVIOUS
          <5> QED
            BY <4>1, <4>3, <5>1, CartFinds
        <4> QED
          BY <3>1, <4>2, <4>3
      <3>2. ASSUME NEW w \in Worker, NEW u \in User, NEW id \in 1 .. MaxItems, C!DeleteCart_Find(w, u, id)
            PROVE  CartInv'
        <4>1. id \in Nat /\ 0 \in Nat
          OBVIOUS
        <4> QED
          BY <3>2, <4>1, CartFinds
      <3>3. ASSUME NEW w \in Worker,
                   \/ C!Save_Select(w) \/ C!Save_Update(w) \/ C!Save_Insert(w) \/ C!Save_Duplicate(w)
                   \/ C!DeleteCart_Delete(w) \/ C!Abandon(w)
            PROVE  CartInv'
        BY <3>3, CartSelects, CartUpdates, CartInserts, CartDeletes, CartStops
      <3>4. ASSUME NEW u \in User, C!CreateOrder_Clear(u) PROVE CartInv'
        BY <3>4, CartClears
      <3> QED
        BY <2>1, <3>1, <3>2, <3>3, <3>4 DEF C!Next
    <2>2. CASE UNCHANGED cart
      BY <2>2 DEF cart, CartInv, CartShape, C!TypeOK, IdsApart, Names, CartBounded, CartSerial, C!Quantity,
                  AsLoaded, C!Wants
    <2> QED
      BY <2>1, <2>2 DEF Next, vars
  <1> QED
    BY <1>1, <1>2, PTL DEF Spec

\* For any users, requests and bounds: the cart holds what its user's requests
\* ask for, if they do not overlap, and never more than was asked for in all
\* (addCart, editCart, deleteCart and createOrder of OrdersService).
THEOREM CartAlwaysAddsUp == Spec => []CartAddsUp
  <1>1. CartInv => CartAddsUp
    BY DEF CartInv, CartBounded, CartSerial, CartAddsUp, C!CartAddsUp
  <1> QED
    BY <1>1, CartAlways, PTL

-----------------------------------------------------------------------------
(* DeliveryAddresses                                                       *)

\* Requests about one address name one of their user's.
AddressShape ==
  /\ A!TypeOK
  /\ \A w \in Worker :
       /\ pc[w] = "idle" <=> req[w] = None
       /\ pc[w] \notin {"idle", "cleared"} =>
            req[w].id \in DOMAIN address /\ address[req[w].id].user = req[w].user
       /\ pc[w] \in {"cleared", "found", "found_cleared"} => req[w].set = TRUE
       /\ pc[w] = "write" => req[w].set \in BOOLEAN

\* Worker w has cleared the default addresses of u and is about to set one.
Setting(w, u) ==
  /\ pc[w] \in {"cleared", "found_cleared", "write"} /\ req[w].set = TRUE
  /\ req[w].user = u
Setters(u) == {w \in Worker : Setting(w, u)}

\* One notion of size.
LEMMA SameSize == \A x : A!Cardinality(x) = Cardinality(x)
  BY DEF A!Cardinality, Cardinality

\* Every default address stands for a worker that could still set one.
WithinWorkers ==
  "create_address" \notin trouble =>
    \A u \in User : Cardinality(A!Defaults(u)) <= Cardinality(Worker \ Setters(u))

\* Without overlap, what the one request at work has read still holds.
AsFound(w) ==
  LET r == req[w]
  IN  /\ pc[w] \notin {"idle", "cleared"} => ~address[r.id].deleted
      /\ pc[w] = "delete_found" \/ (pc[w] = "write" /\ r.set = FALSE) => ~address[r.id].is_default
      /\ Setting(w, r.user) => A!Defaults(r.user) = {}

AddressSerial ==
  "overlap" \notin trouble =>
    \A w \in Worker : pc[w] # "idle" => AsFound(w) /\ \A v \in Worker : pc[v] # "idle" => v = w

\* Without overlap there is one default address at most, and a user who has
\* had one has it, or a request that is about to set it.
OneDefault ==
  "overlap" \notin trouble =>
    \A u \in User :
      /\ "create_address" \notin trouble => \A i, j \in A!Defaults(u) : i = j
      /\ "dies" \notin trouble /\ u \in had => A!Defaults(u) # {} \/ Setters(u) # {}

AddressInv == AddressShape /\ WithinWorkers /\ AddressSerial /\ OneDefault

LEMMA AddressRunning ==
  ASSUME AddressShape, NEW w \in Worker, pc[w] # "idle"
  PROVE  /\ req[w] \in A!Request /\ req[w] # None /\ req[w].user \in User
         /\ req[w].set \in {TRUE, FALSE, None}
  BY DEF AddressShape, A!TypeOK, A!Request

LEMMA RowsThere ==
  ASSUME AddressShape
  PROVE  /\ Len(address) \in Nat /\ DOMAIN address = 1 .. Len(address)
         /\ \A i \in DOMAIN address : address[i] \in A!Row /\ address[i].user \in User
  <1>1. /\ Len(address) \in Nat /\ DOMAIN address = 1 .. Len(address)
        /\ \A i \in DOMAIN address : address[i] \in A!Row
    BY LenProperties, ElementOfSeq DEF AddressShape, A!TypeOK
  <1> QED
    BY <1>1 DEF A!Row

LEMMA FiniteDefaults ==
  ASSUME AddressShape, NEW u \in User
  PROVE  IsFiniteSet(A!Defaults(u))
  <1>1. IsFiniteSet(1 .. Len(address)) /\ A!Defaults(u) \in SUBSET (1 .. Len(address))
    BY RowsThere, FS_Interval DEF A!Defaults
  <1> QED
    BY <1>1, FS_Subset

\* What a step may do to the default addresses and the setters of a user
\* without breaking WithinWorkers.
LEMMA StillWithin ==
  ASSUME NEW D, NEW E, NEW P, NEW Q, IsFiniteSet(D), P \subseteq Worker,
         Cardinality(D) <= Cardinality(Worker \ P),
         \/ E = {}
         \/ Q \subseteq P /\ E \subseteq D
         \/ \E w \in P : \E k : w \notin Q /\ Q \subseteq P /\ E \subseteq D \cup {k}
  PROVE  Cardinality(E) <= Cardinality(Worker \ Q)
  <1>1. IsFiniteSet(Worker \ P) /\ IsFiniteSet(Worker \ Q)
    BY FiniteWorkers, FS_Subset
  <1>2. /\ Cardinality(D) \in Nat /\ Cardinality(Worker \ P) \in Nat
        /\ Cardinality(Worker \ Q) \in Nat
    BY <1>1, FS_CardinalityType
  <1>3. CASE E = {}
    BY <1>2, <1>3, FS_EmptySet
  <1>4. CASE Q \subseteq P /\ E \subseteq D
    <2>1. Cardinality(E) <= Cardinality(D) /\ IsFiniteSet(E)
      BY <1>4, FS_Subset
    <2>2. Cardinality(Worker \ P) <= Cardinality(Worker \ Q)
      BY <1>1, <1>4, FS_Subset
    <2>3. Cardinality(E) \in Nat
      BY <2>1, FS_CardinalityType
    <2> QED
      BY <1>2, <2>1, <2>2, <2>3
  <1>5. ASSUME NEW w \in P, NEW k, w \notin Q, Q \subseteq P, E \subseteq D \cup {k}
        PROVE  Cardinality(E) <= Cardinality(Worker \ Q)
    <2>1. IsFiniteSet(D \cup {k}) /\ Cardinality(D \cup {k}) <= Cardinality(D) + 1
      <3>1. /\ IsFiniteSet(D \cup {k})
            /\ Cardinality(D \cup {k}) = IF k \in D THEN Cardinality(D) ELSE Cardinality(D) + 1
        BY FS_AddElement
      <3> QED
        BY <1>2, <3>1
    <2>2. Cardinality(E) <= Cardinality(D \cup {k}) /\ IsFiniteSet(E)
      BY <1>5, <2>1, FS_Subset
    <2>3. Cardinality((Worker \ P) \cup {w}) = Cardinality(Worker \ P) + 1 /\ IsFiniteSet((Worker \ P) \cup {w})
      BY <1>1, FS_AddElement
    <2>4. Cardinality((Worker \ P) \cup {w}) <= Cardinality(Worker \ Q)
      <3>1. (Worker \ P) \cup {w} \in SUBSET (Worker \ Q)
        BY <1>5
      <3> QED
        BY <1>1, <3>1, FS_Subset
    <2>5. Cardinality(E) \in Nat /\ Cardinality(D \cup {k}) \in Nat
      BY <2>1, <2>2, FS_CardinalityType
    <2> QED
      BY <1>2, <2>1, <2>2, <2>3, <2>4, <2>5
  <1> QED
    BY <1>3, <1>4, <1>5

\* A step of u's that need not clear: some defaults go, or one comes that
\* worker w, no longer among the setters, was about to set.
Lawful(u) ==
  \/ A!Defaults(u)' = {}
  \/ Setters(u)' \subseteq Setters(u) /\ A!Defaults(u)' \subseteq A!Defaults(u)
  \/ \E w \in Setters(u), k \in Nat : /\ w \notin Setters(u)' /\ Setters(u)' \subseteq Setters(u)
                                      /\ A!Defaults(u)' \subseteq A!Defaults(u) \cup {k}

LEMMA LawfulStays ==
  ASSUME AddressInv, trouble' = trouble,
         "create_address" \notin trouble => \A u \in User : Lawful(u)
  PROVE  WithinWorkers'
  <1> SUFFICES ASSUME "create_address" \notin trouble, NEW u \in User
               PROVE  Cardinality(A!Defaults(u)') <= Cardinality(Worker \ Setters(u)')
    BY DEF WithinWorkers
  <1>1. PICK E : E = A!Defaults(u)'
    OBVIOUS
  <1>2. PICK Q : Q = Setters(u)'
    OBVIOUS
  <1>3. IsFiniteSet(A!Defaults(u)) /\ Setters(u) \subseteq Worker
        /\ Cardinality(A!Defaults(u)) <= Cardinality(Worker \ Setters(u))
    BY FiniteDefaults DEF AddressInv, WithinWorkers, Setters
  <1>4. \/ E = {}
        \/ Q \subseteq Setters(u) /\ E \subseteq A!Defaults(u)
        \/ \E w \in Setters(u) : \E k : w \notin Q /\ Q \subseteq Setters(u) /\ E \subseteq A!Defaults(u) \cup {k}
    BY <1>1, <1>2 DEF Lawful
  <1>5. Cardinality(E) <= Cardinality(Worker \ Q)
    BY <1>3, <1>4, StillWithin
  <1> QED
    BY <1>1, <1>2, <1>5

\* What changes in the requests when worker w's moves on.
AddressOthers(w) == \A v \in Worker \ {w} : pc'[v] = pc[v] /\ req'[v] = req[v]

\* What a request makes of is_default.
Flag == {TRUE, FALSE, None}

LEMMA AddressStarts ==
  ASSUME AddressInv, NEW w \in Worker, NEW u \in User, NEW id \in Nat, NEW set \in Flag,
         NEW at \in {"cleared", "found", "write", "delete_found"}, A!Start(w, u, id, set, at)
  PROVE  /\ AddressOthers(w) /\ trouble' = trouble /\ pc[w] = "idle" /\ pc'[w] = at
         /\ req' \in [Worker -> A!Request \cup {None}]
         /\ pc' \in [Worker -> {"idle", "cleared", "found", "found_cleared", "write", "delete_found"}]
         /\ req'[w] # None /\ req'[w].user = u /\ req'[w].id = id /\ req'[w].set = set
         /\ "overlap" \notin trouble => \A v \in Worker : pc[v] = "idle"
  <1> DEFINE r == [user |-> u, id |-> id, set |-> set]
  <1>1. r \in A!Request /\ r.user = u /\ r.id = id /\ r.set = set
    BY DEF A!Request, Flag
  <1>2. r # None
    BY <1>1, NoneIsNoRow
  <1>3. /\ pc[w] = "idle" /\ req' = [req EXCEPT ![w] = r] /\ pc' = [pc EXCEPT ![w] = at]
        /\ trouble' = trouble
        /\ "overlap" \notin trouble => \A v \in Worker : pc[v] = "idle"
    BY DEF A!Start, A!AtRest
  <1> HIDE DEF r
  <1> QED
    BY <1>1, <1>2, <1>3 DEF AddressInv, AddressShape, A!TypeOK, AddressOthers

LEMMA AddressMoves ==
  ASSUME AddressInv, NEW w \in Worker, NEW at \in {"found_cleared", "write"}, pc[w] # "idle", A!Goto(w, at)
  PROVE  /\ AddressOthers(w) /\ trouble' = trouble /\ req' = req /\ pc'[w] = at
         /\ pc' \in [Worker -> {"idle", "cleared", "found", "found_cleared", "write", "delete_found"}]
  BY DEF A!Goto, AddressInv, AddressShape, A!TypeOK, AddressOthers

LEMMA AddressEnds ==
  ASSUME AddressInv, NEW w \in Worker, A!Finish(w)
  PROVE  /\ AddressOthers(w) /\ trouble' = trouble /\ pc'[w] = "idle" /\ req'[w] = None
         /\ req' \in [Worker -> A!Request \cup {None}]
         /\ pc' \in [Worker -> {"idle", "cleared", "found", "found_cleared", "write", "delete_found"}]
  BY DEF A!Finish, AddressInv, AddressShape, A!TypeOK, AddressOthers

\* The rows that are there stay their users', and the deleted ones deleted.
Kept ==
  /\ address' \in Seq(A!Row) /\ had' \subseteq User
  /\ \A i \in DOMAIN address :
       /\ i \in DOMAIN address' /\ address'[i].user = address[i].user
       /\ address[i].deleted => address'[i].deleted

LEMMA Inserted ==
  ASSUME AddressShape, NEW u \in User, NEW d \in BOOLEAN, A!Insert(u, d)
  PROVE  /\ Kept
         /\ \A i \in DOMAIN address : address'[i] = address[i]
         /\ \A v \in User : A!Defaults(v)' = IF v = u /\ d THEN A!Defaults(v) \cup {Len(address) + 1}
                                             ELSE A!Defaults(v)
         /\ had' = IF d THEN had \cup {u} ELSE had
  <1> DEFINE row == [user |-> u, is_default |-> d, deleted |-> FALSE]
             n == Len(address) + 1
  <1>1. row \in A!Row /\ row.user = u /\ row.is_default = d /\ row.deleted = FALSE
    BY DEF A!Row
  <1>2. address' = Append(address, row) /\ had' = IF d THEN had \cup {u} ELSE had
    BY DEF A!Insert
  <1> HIDE DEF row
  <1>3. /\ address' \in Seq(A!Row) /\ Len(address') = n /\ address'[n] = row
        /\ \A i \in 1 .. Len(address) : address'[i] = address[i]
    BY <1>1, <1>2, AppendProperties DEF AddressShape, A!TypeOK
  <1>4. DOMAIN address' = 1 .. n /\ DOMAIN address = 1 .. Len(address) /\ Len(address) \in Nat
    BY <1>3, LenProperties, RowsThere
  <1>5. Kept
    BY <1>2, <1>3, <1>4 DEF Kept, AddressShape, A!TypeOK
  <1>6. ASSUME NEW v \in User
        PROVE  A!Defaults(v)' = IF v = u /\ d THEN A!Defaults(v) \cup {n} ELSE A!Defaults(v)
    <2>1. A!Defaults(v)' = {i \in 1 .. n : address'[i].user = v /\ ~address'[i].deleted /\ address'[i].is_default}
      BY <1>4 DEF A!Defaults, A!Found
    <2>2. A!Defaults(v) = {i \in 1 .. Len(address) :
                             address[i].user = v /\ ~address[i].deleted /\ address[i].is_default}
      BY <1>4 DEF A!Defaults, A!Found
    <2>3. \A i \in 1 .. n : i = n \/ i \in 1 .. Len(address)
      BY <1>4
    <2>4. n \notin 1 .. Len(address) /\ n \in 1 .. n /\ \A i \in 1 .. Len(address) : i \in 1 .. n
      BY <1>4
    <2> QED
      BY <1>1, <1>3, <2>1, <2>2, <2>3, <2>4
  <1> QED
    BY <1>2, <1>3, <1>4, <1>5, <1>6

\* Row i with another default flag, or deleted.
LEMMA RowChanged ==
  ASSUME AddressShape, NEW i \in DOMAIN address, NEW d \in BOOLEAN
  PROVE  /\ [address[i] EXCEPT !.is_default = d] \in A!Row
         /\ [address[i] EXCEPT !.is_default = d].user = address[i].user
         /\ [address[i] EXCEPT !.is_default = d].deleted = address[i].deleted
         /\ [address[i] EXCEPT !.is_default = d].is_default = d
         /\ [address[i] EXCEPT !.deleted = TRUE] \in A!Row
         /\ [address[i] EXCEPT !.deleted = TRUE].user = address[i].user
         /\ [address[i] EXCEPT !.deleted = TRUE].deleted = TRUE
         /\ [address[i] EXCEPT !.deleted = TRUE].is_default = address[i].is_default
  <1>1. address[i] \in A!Row
    BY RowsThere
  <1> QED
    BY <1>1 DEF A!Row

\* Both clearing UPDATEs take the default addresses of u away.
LEMMA Clears ==
  ASSUME AddressShape, NEW u \in User, had' = had,
         \/ address' = A!Cleared(u)
         \/ address' = [i \in DOMAIN address |-> IF address[i].deleted THEN address[i] ELSE A!Cleared(u)[i]]
  PROVE  /\ Kept
         /\ \A i \in DOMAIN address : address'[i].deleted = address[i].deleted
                                      /\ (address'[i].is_default => address[i].is_default)
         /\ A!Defaults(u)' = {}
         /\ \A v \in User \ {u} : A!Defaults(v)' = A!Defaults(v)
  <1>1. /\ DOMAIN address = 1 .. Len(address) /\ Len(address) \in Nat
        /\ \A i \in DOMAIN address : address[i] \in A!Row
    BY RowsThere
  <1>2. DOMAIN address' = DOMAIN address
    BY DEF A!Cleared
  <1>3. \A i \in DOMAIN address :
          \/ address'[i] = address[i] /\ (address[i].user # u \/ address[i].deleted)
          \/ address'[i] = [address[i] EXCEPT !.is_default = FALSE] /\ address[i].user = u
    BY DEF A!Cleared
  <1>4. ASSUME NEW i \in DOMAIN address
        PROVE  /\ address'[i] \in A!Row /\ address'[i].user = address[i].user
               /\ address'[i].deleted = address[i].deleted
               /\ IF address[i].user = u /\ ~address[i].deleted THEN address'[i].is_default = FALSE
                  ELSE address'[i].is_default => address[i].is_default
               /\ address[i].user # u => address'[i] = address[i]
    BY <1>1, <1>3, RowChanged
  <1>5. address' \in Seq(A!Row)
    <2>1. address' \in [1 .. Len(address) -> A!Row]
      <3>1. address' = [i \in DOMAIN address |-> address'[i]]
        BY DEF A!Cleared
      <3> QED
        BY <1>1, <1>4, <3>1
    <2> QED
      BY <1>1, <2>1, SeqDef
  <1>6. Kept
    BY <1>2, <1>4, <1>5 DEF Kept, AddressShape, A!TypeOK
  <1>7. A!Defaults(u)' = {} /\ \A v \in User \ {u} : A!Defaults(v)' = A!Defaults(v)
    BY <1>2, <1>4 DEF A!Defaults, A!Found
  <1>8. \A i \in DOMAIN address : address'[i].deleted = address[i].deleted
                                      /\ (address'[i].is_default => address[i].is_default)
    BY <1>4
  <1> QED
    BY <1>6, <1>7, <1>8

LEMMA Rewritten ==
  ASSUME AddressShape, NEW k \in DOMAIN address, had' \subseteq User,
         \/ \E d \in BOOLEAN : address' = [address EXCEPT ![k].is_default = d]
         \/ address' = [address EXCEPT ![k].deleted = TRUE]
  PROVE  /\ Kept /\ DOMAIN address' = DOMAIN address
         /\ \A i \in DOMAIN address \ {k} : address'[i] = address[i]
         /\ \A v \in User : A!Defaults(v)' \subseteq A!Defaults(v) \cup {k}
         /\ \A v \in User \ {address[k].user} : A!Defaults(v)' = A!Defaults(v)
  <1>1. DOMAIN address = 1 .. Len(address) /\ address[k].user \in User
    BY RowsThere
  <1>2. PICK row \in A!Row : /\ address' = [address EXCEPT ![k] = row]
                             /\ row.user = address[k].user /\ (address[k].deleted => row.deleted)
    BY RowChanged
  <1>3. address \in Seq(A!Row) /\ k \in 1 .. Len(address)
    BY <1>1 DEF AddressShape, A!TypeOK
  <1>4. address' \in Seq(A!Row) /\ address'[k] = row /\ DOMAIN address' = DOMAIN address
        /\ \A i \in DOMAIN address \ {k} : address'[i] = address[i]
    <2>1. address' \in Seq(A!Row)
      BY <1>2, <1>3, ExceptSeq
    <2> QED
      BY <1>2, <2>1
  <1>5. Kept
    BY <1>2, <1>4 DEF Kept
  <1>6. ASSUME NEW v \in User PROVE A!Defaults(v)' \subseteq A!Defaults(v) \cup {k}
    BY <1>4 DEF A!Defaults, A!Found
  <1>7. ASSUME NEW v \in User \ {address[k].user} PROVE A!Defaults(v)' = A!Defaults(v)
    BY <1>2, <1>4 DEF A!Defaults, A!Found
  <1> QED
    BY <1>4, <1>5, <1>6, <1>7

LEMMA SettersMove ==
  ASSUME NEW w \in Worker, AddressOthers(w), NEW v \in User
  PROVE  /\ w \in Setters(v)' <=> Setting(w, v)'
         /\ w \in Setters(v) <=> Setting(w, v)
         /\ ~Setting(w, v)' => Setters(v)' = Setters(v) \ {w}
         /\ ~Setting(w, v) => Setters(v) = Setters(v)' \ {w}
  BY DEF AddressOthers, Setters, Setting

LEMMA ShapeAfter ==
  ASSUME AddressInv, NEW w \in Worker, AddressOthers(w), Kept, trouble' = trouble,
         req' \in [Worker -> A!Request \cup {None}],
         pc' \in [Worker -> {"idle", "cleared", "found", "found_cleared", "write", "delete_found"}],
         pc'[w] = "idle" <=> req'[w] = None,
         pc'[w] \notin {"idle", "cleared"} =>
           req'[w].id \in DOMAIN address /\ address[req'[w].id].user = req'[w].user,
         pc'[w] \in {"cleared", "found", "found_cleared"} => req'[w].set = TRUE,
         pc'[w] = "write" => req'[w].set \in BOOLEAN
  PROVE  AddressShape'
  <1>1. A!TypeOK'
    BY DEF AddressInv, AddressShape, A!TypeOK, Kept
  <1>2. ASSUME NEW v \in Worker
        PROVE  /\ pc'[v] = "idle" <=> req'[v] = None
               /\ pc'[v] \notin {"idle", "cleared"} =>
                    req'[v].id \in DOMAIN address /\ address[req'[v].id].user = req'[v].user
               /\ pc'[v] \in {"cleared", "found", "found_cleared"} => req'[v].set = TRUE
               /\ pc'[v] = "write" => req'[v].set \in BOOLEAN
    BY DEF AddressOthers, AddressInv, AddressShape
  <1>3. \A i \in DOMAIN address : i \in DOMAIN address' /\ address'[i].user = address[i].user
    BY DEF Kept
  <1> QED
    BY <1>1, <1>2, <1>3 DEF AddressShape

LEMMA SerialAfter ==
  ASSUME AddressInv, NEW w \in Worker, AddressOthers(w), trouble' = trouble,
         pc[w] # "idle" \/ ("overlap" \notin trouble => \A v \in Worker : pc[v] = "idle"),
         "overlap" \notin trouble /\ pc'[w] # "idle" => AsFound(w)'
  PROVE  AddressSerial'
  <1> SUFFICES ASSUME "overlap" \notin trouble, NEW v \in Worker, pc'[v] # "idle"
               PROVE  AsFound(v)' /\ \A x \in Worker : pc'[x] # "idle" => x = v
    BY DEF AddressSerial
  <1>1. \A x \in Worker : pc'[x] # "idle" => x = w
    BY DEF AddressOthers, AddressInv, AddressSerial
  <1> QED
    BY <1>1

\* What a user has, and requests that will set it.
Having(u) ==
  /\ "create_address" \notin trouble => \A i, j \in A!Defaults(u) : i = j
  /\ "dies" \notin trouble /\ u \in had => A!Defaults(u) # {} \/ Setters(u) # {}

LEMMA InsertsAtRest ==
  ASSUME AddressInv, NEW u \in User, NEW d \in BOOLEAN, A!CreateAddress(u, d) \/ (~d /\ A!Add_Plain(u))
  PROVE  AddressInv'
  <1>1. /\ "overlap" \notin trouble => \A w \in Worker : pc[w] = "idle"
        /\ A!Insert(u, d) /\ UNCHANGED <<pc, req, trouble>> /\ ("create_address" \in trouble \/ ~d)
    BY DEF A!CreateAddress, A!Add_Plain, A!AtRest
  <1>2. /\ Kept /\ \A i \in DOMAIN address : address'[i] = address[i]
        /\ \A v \in User : A!Defaults(v)' = IF v = u /\ d THEN A!Defaults(v) \cup {Len(address) + 1}
                                            ELSE A!Defaults(v)
        /\ had' = IF d THEN had \cup {u} ELSE had
    BY <1>1, Inserted DEF AddressInv
  <1>3. \A v \in User : Setters(v)' = Setters(v)
    BY <1>1 DEF Setters, Setting
  <1>4. AddressShape'
    BY <1>1, <1>2 DEF AddressInv, AddressShape, A!TypeOK, Kept
  <1>5. WithinWorkers'
    <2>1. "create_address" \notin trouble => \A v \in User : Lawful(v)
      BY <1>1, <1>2, <1>3 DEF Lawful
    <2> QED
      BY <1>1, <2>1, LawfulStays
  <1>6. AddressSerial'
    BY <1>1 DEF AddressSerial
  <1>7. OneDefault'
    BY <1>1, <1>2, <1>3 DEF AddressInv, OneDefault
  <1> QED
    BY <1>4, <1>5, <1>6, <1>7 DEF AddressInv

LEMMA AddClears ==
  ASSUME AddressInv, NEW w \in Worker, NEW u \in User, A!Add_Clear(w, u)
  PROVE  AddressInv'
  <1>1. A!Start(w, u, 0, TRUE, "cleared") /\ address' = A!Cleared(u) /\ had' = had
    BY DEF A!Add_Clear
  <1>2. /\ AddressOthers(w) /\ trouble' = trouble /\ pc[w] = "idle" /\ pc'[w] = "cleared"
        /\ req' \in [Worker -> A!Request \cup {None}]
        /\ pc' \in [Worker -> {"idle", "cleared", "found", "found_cleared", "write", "delete_found"}]
        /\ req'[w] # None /\ req'[w].user = u /\ req'[w].set = TRUE
        /\ "overlap" \notin trouble => \A v \in Worker : pc[v] = "idle"
    <2>1. 0 \in Nat /\ TRUE \in Flag
      BY DEF Flag
    <2> QED
      BY <1>1, <2>1, AddressStarts
  <1>3. Kept /\ A!Defaults(u)' = {} /\ \A v \in User \ {u} : A!Defaults(v)' = A!Defaults(v)
    BY <1>1, Clears DEF AddressInv
  <1>4. /\ \A v \in User \ {u} : Setters(v)' = Setters(v)
        /\ w \in Setters(u)'
    <2>1. ASSUME NEW v \in User \ {u} PROVE Setters(v)' = Setters(v)
      <3>1. ~Setting(w, v) /\ ~Setting(w, v)'
        BY <1>2 DEF Setting
      <3> QED
        BY <1>2, <3>1, SettersMove
    <2>2. Setting(w, u)'
      BY <1>2 DEF Setting
    <2> QED
      BY <1>2, <2>1, <2>2, SettersMove
  <1>5. AddressShape'
    BY <1>2, <1>3, ShapeAfter
  <1>6. WithinWorkers'
    <2>1. \A v \in User : Lawful(v)
      BY <1>3, <1>4 DEF Lawful
    <2> QED
      BY <1>2, <2>1, LawfulStays
  <1>7. AddressSerial'
    <2>1. AsFound(w)'
      BY <1>2, <1>3 DEF AsFound, Setting
    <2> QED
      BY <1>2, <2>1, SerialAfter
  <1>8. OneDefault'
    BY <1>1, <1>2, <1>3, <1>4 DEF AddressInv, OneDefault
  <1> QED
    BY <1>5, <1>6, <1>7, <1>8 DEF AddressInv

LEMMA AddInserts ==
  ASSUME AddressInv, NEW w \in Worker, A!Add_Insert(w)
  PROVE  AddressInv'
  <1>0. PICK u \in User : u = req[w].user
    BY AddressRunning DEF A!Add_Insert, AddressInv
  <1>1. pc[w] = "cleared" /\ A!Insert(u, TRUE) /\ A!Finish(w)
    BY <1>0 DEF A!Add_Insert
  <1>2. u = req[w].user /\ req[w].set = TRUE
    BY <1>0, <1>1 DEF AddressInv, AddressShape
  <1>3. /\ AddressOthers(w) /\ trouble' = trouble /\ pc'[w] = "idle" /\ req'[w] = None
        /\ req' \in [Worker -> A!Request \cup {None}]
        /\ pc' \in [Worker -> {"idle", "cleared", "found", "found_cleared", "write", "delete_found"}]
    BY <1>1, AddressEnds
  <1>4. /\ Kept
        /\ \A v \in User : A!Defaults(v)' = IF v = u THEN A!Defaults(v) \cup {Len(address) + 1}
                                            ELSE A!Defaults(v)
        /\ had' = had \cup {u} /\ Len(address) + 1 \in Nat
    <2>1. PICK d \in BOOLEAN : d = TRUE
      OBVIOUS
    <2>2. A!Insert(u, d)
      BY <1>1, <2>1
    <2>3. /\ Kept
          /\ \A v \in User : A!Defaults(v)' = IF v = u /\ d THEN A!Defaults(v) \cup {Len(address) + 1}
                                              ELSE A!Defaults(v)
          /\ had' = IF d THEN had \cup {u} ELSE had
      BY <2>2, Inserted DEF AddressInv
    <2>4. Len(address) + 1 \in Nat
      BY RowsThere DEF AddressInv
    <2> QED
      BY <2>1, <2>3, <2>4
  <1>5. /\ \A v \in User \ {u} : Setters(v)' = Setters(v)
        /\ w \in Setters(u) /\ Setters(u)' \subseteq Setters(u) /\ w \notin Setters(u)'
    <2>1. ASSUME NEW v \in User \ {u} PROVE Setters(v)' = Setters(v)
      <3>1. ~Setting(w, v) /\ ~Setting(w, v)'
        BY <1>2, <1>3 DEF Setting
      <3> QED
        BY <1>3, <3>1, SettersMove
    <2>2. Setting(w, u) /\ ~Setting(w, u)'
      BY <1>1, <1>2, <1>3 DEF Setting
    <2> QED
      BY <1>3, <2>1, <2>2, SettersMove
  <1>6. AddressShape'
    BY <1>3, <1>4, ShapeAfter
  <1>7. WithinWorkers'
    <2>1. \A v \in User : Lawful(v)
      BY <1>2, <1>4, <1>5 DEF Lawful
    <2> QED
      BY <1>3, <2>1, LawfulStays
  <1>8. AddressSerial'
    BY <1>1, <1>3, SerialAfter
  <1>9. OneDefault'
    <2>1. "overlap" \notin trouble => A!Defaults(u) = {}
      BY <1>1, <1>2 DEF AddressInv, AddressSerial, AsFound, Setting
    <2> QED
      BY <1>2, <1>3, <1>4, <1>5, <2>1 DEF AddressInv, OneDefault
  <1> QED
    BY <1>6, <1>7, <1>8, <1>9 DEF AddressInv

\* Edit_Find and Delete_Find.
LEMMA AddressFinds ==
  ASSUME AddressInv, NEW w \in Worker, NEW u \in User, NEW id \in DOMAIN address,
         NEW set \in BOOLEAN,
         A!Edit_Find(w, u, id, set) \/ A!Delete_Find(w, u, id)
  PROVE  AddressInv'
  <1>1. PICK at \in {"found", "write", "delete_found"}, s \in Flag :
          /\ A!Start(w, u, id, s, at) /\ A!Found(u, id) /\ UNCHANGED <<address, had>>
          /\ at = "found" => s = TRUE
          /\ at = "write" => s = FALSE
          /\ at = "delete_found" \/ (at = "write" /\ s = FALSE) => ~address[id].is_default
    <2>1. None \in Flag /\ TRUE \in Flag /\ FALSE \in Flag
      BY DEF Flag
    <2>2. CASE A!Edit_Find(w, u, id, set) /\ set = TRUE
      BY <2>1, <2>2 DEF A!Edit_Find
    <2>3. CASE A!Edit_Find(w, u, id, set) /\ set = FALSE
      BY <2>1, <2>3 DEF A!Edit_Find
    <2>4. CASE A!Delete_Find(w, u, id)
      BY <2>1, <2>4 DEF A!Delete_Find
    <2> QED
      BY <2>2, <2>3, <2>4
  <1>2. /\ AddressOthers(w) /\ trouble' = trouble /\ pc[w] = "idle" /\ pc'[w] = at
        /\ req' \in [Worker -> A!Request \cup {None}]
        /\ pc' \in [Worker -> {"idle", "cleared", "found", "found_cleared", "write", "delete_found"}]
        /\ req'[w] # None /\ req'[w].user = u /\ req'[w].id = id /\ req'[w].set = s
        /\ "overlap" \notin trouble => \A v \in Worker : pc[v] = "idle"
    <2>1. id \in Nat /\ at \in {"cleared", "found", "write", "delete_found"}
      BY RowsThere DEF AddressInv
    <2>2. A!Start(w, u, id, s, at)
      BY <1>1
    <2> QED
      BY <2>1, <2>2, AddressStarts
  <1>3. Kept
    BY <1>1 DEF Kept, AddressInv, AddressShape, A!TypeOK
  <1>4. ASSUME NEW v \in User PROVE Setters(v)' = Setters(v) /\ A!Defaults(v)' = A!Defaults(v)
    <2>1. ~Setting(w, v) /\ ~Setting(w, v)'
      BY <1>1, <1>2 DEF Setting
    <2>2. A!Defaults(v)' = A!Defaults(v)
      BY <1>1 DEF A!Defaults, A!Found
    <2> QED
      BY <1>2, <2>1, <2>2, SettersMove
  <1>5. AddressShape'
    BY <1>1, <1>2, <1>3, ShapeAfter DEF A!Found
  <1>6. WithinWorkers'
    <2>1. \A v \in User : Lawful(v)
      BY <1>4 DEF Lawful
    <2> QED
      BY <1>2, <2>1, LawfulStays
  <1>7. AddressSerial'
    <2>1. AsFound(w)'
      BY <1>1, <1>2 DEF AsFound, Setting, A!Found
    <2> QED
      BY <1>2, <2>1, SerialAfter
  <1>8. OneDefault'
    BY <1>1, <1>2, <1>4 DEF AddressInv, OneDefault
  <1> QED
    BY <1>5, <1>6, <1>7, <1>8 DEF AddressInv

\* Edit_Clear and Edit_ClearAgain.
LEMMA EditClears ==
  ASSUME AddressInv, NEW w \in Worker, A!Edit_Clear(w) \/ A!Edit_ClearAgain(w)
  PROVE  AddressInv'
  <1>0. PICK u \in User : u = req[w].user
    BY AddressRunning DEF A!Edit_Clear, A!Edit_ClearAgain, AddressInv
  <1>1. PICK at \in {"found_cleared", "write"} :
          /\ pc[w] \in {"found", "found_cleared"} /\ A!Goto(w, at) /\ had' = had
          /\ \/ address' = A!Cleared(u)
             \/ address' = [i \in DOMAIN address |-> IF address[i].deleted THEN address[i] ELSE A!Cleared(u)[i]]
    BY <1>0 DEF A!Edit_Clear, A!Edit_ClearAgain
  <1>2. u = req[w].user /\ req[w] # None /\ req[w].set = TRUE
        /\ req[w].id \in DOMAIN address /\ address[req[w].id].user = u
    BY <1>0, <1>1, AddressRunning DEF AddressInv, AddressShape
  <1>3. /\ AddressOthers(w) /\ trouble' = trouble /\ req' = req /\ pc'[w] = at
        /\ pc' \in [Worker -> {"idle", "cleared", "found", "found_cleared", "write", "delete_found"}]
    BY <1>1, AddressMoves
  <1>4. /\ Kept
        /\ \A i \in DOMAIN address : address'[i].deleted = address[i].deleted
        /\ A!Defaults(u)' = {}
        /\ \A v \in User \ {u} : A!Defaults(v)' = A!Defaults(v)
    BY <1>1, Clears DEF AddressInv
  <1>5. /\ \A v \in User \ {u} : Setters(v)' = Setters(v)
        /\ w \in Setters(u)'
    <2>1. ASSUME NEW v \in User \ {u} PROVE Setters(v)' = Setters(v)
      <3>1. ~Setting(w, v) /\ ~Setting(w, v)'
        BY <1>2, <1>3 DEF Setting
      <3> QED
        BY <1>3, <3>1, SettersMove
    <2>2. Setting(w, u)'
      BY <1>2, <1>3 DEF Setting
    <2> QED
      BY <1>3, <2>1, <2>2, SettersMove
  <1>6. AddressShape'
    BY <1>1, <1>2, <1>3, <1>4, ShapeAfter DEF AddressInv, AddressShape, A!TypeOK
  <1>7. WithinWorkers'
    <2>1. \A v \in User : Lawful(v)
      BY <1>4, <1>5 DEF Lawful
    <2> QED
      BY <1>3, <2>1, LawfulStays
  <1>8. AddressSerial'
    <2>1. "overlap" \notin trouble => AsFound(w)'
      <3>1. "overlap" \notin trouble => ~address[req[w].id].deleted
        BY <1>1 DEF AddressInv, AddressSerial, AsFound
      <3> QED
        BY <1>2, <1>3, <1>4, <3>1 DEF AsFound, Setting
    <2> QED
      BY <1>1, <1>3, <2>1, SerialAfter
  <1>9. OneDefault'
    BY <1>1, <1>2, <1>3, <1>4, <1>5 DEF AddressInv, OneDefault
  <1> QED
    BY <1>6, <1>7, <1>8, <1>9 DEF AddressInv

LEMMA EditWrites ==
  ASSUME AddressInv, NEW w \in Worker, A!Edit_Write(w)
  PROVE  AddressInv'
  <1>1. PICK u \in User, id \in DOMAIN address, set \in BOOLEAN :
          u = req[w].user /\ id = req[w].id /\ set = req[w].set /\ address[id].user = u
    <2>1. pc[w] = "write"
      BY DEF A!Edit_Write
    <2> QED
      BY <2>1, AddressRunning DEF AddressInv, AddressShape
  <1>2. /\ pc[w] = "write" /\ A!Finish(w)
        /\ address' = [address EXCEPT ![id].is_default = set]
        /\ had' = IF set THEN had \cup {u} ELSE had
    BY <1>1 DEF A!Edit_Write
  <1>3. /\ AddressOthers(w) /\ trouble' = trouble /\ pc'[w] = "idle" /\ req'[w] = None
        /\ req' \in [Worker -> A!Request \cup {None}]
        /\ pc' \in [Worker -> {"idle", "cleared", "found", "found_cleared", "write", "delete_found"}]
    BY <1>2, AddressEnds
  <1>4. had' \subseteq User /\ had \subseteq User
    BY <1>2 DEF AddressInv, AddressShape, A!TypeOK
  <1>5. /\ Kept /\ DOMAIN address' = DOMAIN address
        /\ \A i \in DOMAIN address \ {id} : address'[i] = address[i]
        /\ \A v \in User : A!Defaults(v)' \subseteq A!Defaults(v) \cup {id}
        /\ \A v \in User \ {u} : A!Defaults(v)' = A!Defaults(v)
    <2>1. \E d \in BOOLEAN : address' = [address EXCEPT ![id].is_default = d]
      BY <1>2
    <2> QED
      BY <1>1, <1>4, <2>1, Rewritten DEF AddressInv
  <1>6. /\ \A v \in User \ {u} : Setters(v)' = Setters(v)
        /\ Setters(u)' = Setters(u) \ {w}
        /\ w \in Setters(u) <=> set = TRUE
    <2>1. ASSUME NEW v \in User \ {u} PROVE Setters(v)' = Setters(v)
      <3>1. ~Setting(w, v) /\ ~Setting(w, v)'
        BY <1>1, <1>3 DEF Setting
      <3> QED
        BY <1>3, <3>1, SettersMove
    <2>2. ~Setting(w, u)' /\ (Setting(w, u) <=> set = TRUE)
      BY <1>1, <1>2, <1>3 DEF Setting
    <2> QED
      BY <1>3, <2>1, <2>2, SettersMove
  <1>7. set = FALSE => A!Defaults(u)' \subseteq A!Defaults(u)
    <2> SUFFICES ASSUME set = FALSE PROVE A!Defaults(u)' \subseteq A!Defaults(u)
      OBVIOUS
    <2>1. address'[id] = [address[id] EXCEPT !.is_default = FALSE]
      BY <1>2
    <2>2. address'[id].is_default = FALSE
      BY <2>1, RowChanged DEF AddressInv
    <2> QED
      BY <1>5, <2>2 DEF A!Defaults, A!Found
  <1>8. AddressShape'
    BY <1>3, <1>5, ShapeAfter
  <1>9. WithinWorkers'
    <2>1. id \in Nat
      BY RowsThere DEF AddressInv
    <2>2. ASSUME NEW v \in User PROVE Lawful(v)
      BY <1>5, <1>6, <1>7, <2>1 DEF Lawful
    <2> QED
      BY <1>3, <2>2, LawfulStays
  <1>10. AddressSerial'
    BY <1>2, <1>3, SerialAfter
  <1>11. OneDefault'
    <2> SUFFICES ASSUME "overlap" \notin trouble, NEW v \in User
                 PROVE  Having(v)'
      BY <1>3 DEF OneDefault, Having
    <2>1. Having(v) /\ AsFound(w)
      BY <1>2 DEF AddressInv, OneDefault, Having, AddressSerial
    <2>2. CASE v # u
      BY <1>2, <1>3, <1>5, <1>6, <2>1, <2>2 DEF Having
    <2>3. CASE v = u /\ set = TRUE
      <3>1. A!Defaults(u) = {} /\ ~address[id].deleted
        BY <1>1, <1>2, <2>1, <2>3 DEF AsFound, Setting
      <3>2. address'[id] = [address[id] EXCEPT !.is_default = TRUE]
        BY <1>2, <2>3
      <3>3. address'[id].is_default = TRUE /\ address'[id].user = u /\ address'[id].deleted = FALSE
        BY <1>1, <3>1, <3>2, RowChanged, RowsThere DEF AddressInv, A!Row
      <3>4. id \in A!Defaults(u)'
        BY <1>5, <3>3 DEF A!Defaults, A!Found
      <3> QED
        BY <1>5, <2>3, <3>1, <3>4 DEF Having
    <2>4. CASE v = u /\ set = FALSE
      <3>1. A!Defaults(u)' = A!Defaults(u)
        <4>1. id \notin A!Defaults(u)
          BY <1>1, <1>2, <2>1, <2>4 DEF AsFound, A!Defaults
        <4>2. \A i \in DOMAIN address : i # id => (i \in A!Defaults(u)' <=> i \in A!Defaults(u))
          BY <1>5 DEF A!Defaults, A!Found
        <4>3. A!Defaults(u)' \subseteq DOMAIN address /\ A!Defaults(u) \subseteq DOMAIN address
          BY <1>5 DEF A!Defaults
        <4> QED
          BY <1>7, <2>4, <4>1, <4>2, <4>3
      <3>2. Setters(u)' = Setters(u) /\ had' = had
        BY <1>2, <1>6, <2>4
      <3> QED
        BY <1>3, <2>1, <2>4, <3>1, <3>2 DEF Having
    <2> QED
      BY <2>2, <2>3, <2>4
  <1> QED
    BY <1>8, <1>9, <1>10, <1>11 DEF AddressInv

LEMMA Deletes ==
  ASSUME AddressInv, NEW w \in Worker, A!Delete_SoftDelete(w)
  PROVE  AddressInv'
  <1>1. PICK u \in User, id \in DOMAIN address :
          u = req[w].user /\ id = req[w].id /\ address[id].user = u
    <2>1. pc[w] = "delete_found"
      BY DEF A!Delete_SoftDelete
    <2> QED
      BY <2>1, AddressRunning DEF AddressInv, AddressShape
  <1>2. /\ pc[w] = "delete_found" /\ A!Finish(w) /\ had' = had
        /\ address' = [address EXCEPT ![id].deleted = TRUE]
    BY <1>1 DEF A!Delete_SoftDelete
  <1>3. /\ AddressOthers(w) /\ trouble' = trouble /\ pc'[w] = "idle" /\ req'[w] = None
        /\ req' \in [Worker -> A!Request \cup {None}]
        /\ pc' \in [Worker -> {"idle", "cleared", "found", "found_cleared", "write", "delete_found"}]
    BY <1>2, AddressEnds
  <1>4. /\ Kept /\ DOMAIN address' = DOMAIN address
        /\ \A i \in DOMAIN address \ {id} : address'[i] = address[i]
        /\ \A v \in User \ {u} : A!Defaults(v)' = A!Defaults(v)
    <2>1. had' \subseteq User
      BY <1>2 DEF AddressInv, AddressShape, A!TypeOK
    <2> QED
      BY <1>1, <1>2, <2>1, Rewritten DEF AddressInv
  <1>5. address'[id].deleted = TRUE
    <2>1. address'[id] = [address[id] EXCEPT !.deleted = TRUE]
      BY <1>2
    <2> QED
      BY <2>1, RowChanged DEF AddressInv
  <1>6. A!Defaults(u)' = A!Defaults(u) \ {id}
    BY <1>4, <1>5 DEF A!Defaults, A!Found
  <1>7. ASSUME NEW v \in User PROVE Setters(v)' = Setters(v)
    <2>1. ~Setting(w, v) /\ ~Setting(w, v)'
      BY <1>2, <1>3 DEF Setting
    <2> QED
      BY <1>3, <2>1, SettersMove
  <1>8. AddressShape'
    BY <1>3, <1>4, ShapeAfter
  <1>9. WithinWorkers'
    <2>1. ASSUME NEW v \in User PROVE Lawful(v)
      BY <1>4, <1>6, <1>7 DEF Lawful
    <2> QED
      BY <1>3, <2>1, LawfulStays
  <1>10. AddressSerial'
    BY <1>2, <1>3, SerialAfter
  <1>11. OneDefault'
    <2> SUFFICES ASSUME "overlap" \notin trouble, NEW v \in User
                 PROVE  Having(v)'
      BY <1>3 DEF OneDefault, Having
    <2>1. Having(v) /\ AsFound(w)
      BY <1>2 DEF AddressInv, OneDefault, Having, AddressSerial
    <2>2. id \notin A!Defaults(u)
      BY <1>1, <1>2, <2>1 DEF AsFound, A!Defaults
    <2>3. A!Defaults(v)' = A!Defaults(v)
      BY <1>4, <1>6, <2>2
    <2> QED
      BY <1>2, <1>3, <1>7, <2>1, <2>3 DEF Having
  <1> QED
    BY <1>8, <1>9, <1>10, <1>11 DEF AddressInv

LEMMA AddressAbandons ==
  ASSUME AddressInv, NEW w \in Worker, A!Abandon(w)
  PROVE  AddressInv'
  <1>1. "dies" \in trouble /\ pc[w] # "idle" /\ A!Finish(w) /\ UNCHANGED <<address, had>>
    BY DEF A!Abandon
  <1>2. /\ AddressOthers(w) /\ trouble' = trouble /\ pc'[w] = "idle" /\ req'[w] = None
        /\ req' \in [Worker -> A!Request \cup {None}]
        /\ pc' \in [Worker -> {"idle", "cleared", "found", "found_cleared", "write", "delete_found"}]
    BY <1>1, AddressEnds
  <1>3. Kept
    BY <1>1 DEF Kept, AddressInv, AddressShape, A!TypeOK
  <1>4. ASSUME NEW v \in User
        PROVE  A!Defaults(v)' = A!Defaults(v) /\ Setters(v)' \subseteq Setters(v)
    <2>1. ~Setting(w, v)'
      BY <1>2 DEF Setting
    <2>2. A!Defaults(v)' = A!Defaults(v)
      BY <1>1 DEF A!Defaults, A!Found
    <2> QED
      BY <1>2, <2>1, <2>2, SettersMove
  <1>5. AddressShape'
    BY <1>2, <1>3, ShapeAfter
  <1>6. WithinWorkers'
    <2>1. ASSUME NEW v \in User PROVE Lawful(v)
      BY <1>4 DEF Lawful
    <2> QED
      BY <1>2, <2>1, LawfulStays
  <1>7. AddressSerial'
    BY <1>1, <1>2, SerialAfter
  <1>8. OneDefault'
    BY <1>1, <1>2, <1>4 DEF AddressInv, OneDefault
  <1> QED
    BY <1>5, <1>6, <1>7, <1>8 DEF AddressInv

LEMMA AddressesAlways == Spec => []AddressInv
  <1>1. Init => AddressInv
    <2> SUFFICES ASSUME Init PROVE AddressInv
      OBVIOUS
    <2> USE DEF Init, A!Init
    <2>1. DOMAIN address = {}
      BY EmptySeq, LenProperties
    <2>2. \A u \in User : A!Defaults(u) = {} /\ Setters(u) = {}
      BY <2>1 DEF A!Defaults, A!Found, Setters, Setting
    <2>3. AddressShape
      BY EmptySeq DEF AddressShape, A!TypeOK
    <2>4. AddressSerial /\ OneDefault
      BY <2>2 DEF AddressSerial, OneDefault
    <2>5. WithinWorkers
      <3>1. \A u \in User : Cardinality(Worker \ Setters(u)) \in Nat
        BY FiniteWorkers, FS_Subset, FS_CardinalityType
      <3>2. ASSUME NEW u \in User
            PROVE  Cardinality(A!Defaults(u)) <= Cardinality(Worker \ Setters(u))
        <4>1. Cardinality(A!Defaults(u)) = 0
          BY <2>2, FS_EmptySet
        <4>2. \A n \in Nat : 0 <= n
          OBVIOUS
        <4> QED
          BY <3>1, <4>1, <4>2
      <3> QED
        BY <3>2 DEF WithinWorkers
    <2> QED
      BY <2>3, <2>4, <2>5 DEF AddressInv
  <1>2. AddressInv /\ [Next]_vars => AddressInv'
    <2> SUFFICES ASSUME AddressInv, [Next]_vars PROVE AddressInv'
      OBVIOUS
    <2>1. CASE A!Next
      <3>1. ASSUME NEW u \in User, A!Add_Plain(u) \/ \E d \in BOOLEAN : A!CreateAddress(u, d)
            PROVE  AddressInv'
        <4>1. CASE A!Add_Plain(u)
          <5>1. PICK d \in BOOLEAN : d = FALSE
            OBVIOUS
          <5> QED
            BY <4>1, <5>1, InsertsAtRest
        <4>2. ASSUME NEW d \in BOOLEAN, A!CreateAddress(u, d) PROVE AddressInv'
          BY <4>2, InsertsAtRest
        <4> QED
          BY <3>1, <4>1, <4>2
      <3>2. ASSUME NEW w \in Worker, NEW u \in User, A!Begin(w, u)
            PROVE  AddressInv'
        <4>1. CASE A!Add_Clear(w, u)
          BY <4>1, AddClears
        <4>2. ASSUME NEW id \in DOMAIN address, NEW set \in BOOLEAN, A!Edit_Find(w, u, id, set)
              PROVE  AddressInv'
          BY <4>2, AddressFinds
        <4>3. ASSUME NEW id \in DOMAIN address, A!Delete_Find(w, u, id)
              PROVE  AddressInv'
          <5>1. PICK set \in BOOLEAN : set
            OBVIOUS
          <5> QED
            BY <4>3, <5>1, AddressFinds
        <4> QED
          BY <3>2, <4>1, <4>2, <4>3 DEF A!Begin
      <3>3. ASSUME NEW w \in Worker, A!Continue(w) \/ A!Abandon(w)
            PROVE  AddressInv'
        BY <3>3, AddInserts, EditClears, EditWrites, Deletes, AddressAbandons DEF A!Continue
      <3> QED
        BY <2>1, <3>1, <3>2, <3>3 DEF A!Next
    <2>2. CASE UNCHANGED addresses
      <3>1. UNCHANGED <<address, pc, req, had, trouble>>
        BY <2>2 DEF addresses
      <3>2. \A u \in User : A!Defaults(u)' = A!Defaults(u) /\ Setters(u)' = Setters(u)
        BY <3>1 DEF A!Defaults, A!Found, Setters, Setting
      <3>3. AddressShape'
        BY <3>1 DEF AddressInv, AddressShape, A!TypeOK
      <3>4. WithinWorkers'
        BY <3>1, <3>2 DEF AddressInv, WithinWorkers
      <3>5. AddressSerial'
        BY <3>1 DEF AddressInv, AddressSerial, AsFound, Setting, A!Defaults, A!Found
      <3>6. OneDefault'
        BY <3>1, <3>2 DEF AddressInv, OneDefault
      <3> QED
        BY <3>3, <3>4, <3>5, <3>6 DEF AddressInv
    <2> QED
      BY <2>1, <2>2 DEF Next, vars
  <1> QED
    BY <1>1, <1>2, PTL DEF Spec

\* For any users, finitely many workers and any bound on addresses: if requests
\* neither overlap nor die, users who have had a default address have one, and only
\* one unless createAddress is used; without createAddress there are never more
\* than there are workers (addOrderAddress, editOrderAddress and
\* delete_order_address of OrdersService).
THEOREM DefaultAlwaysKept == Spec => []DefaultKept
  <1>1. AddressInv => DefaultKept
    <2> SUFFICES ASSUME AddressInv PROVE DefaultKept
      OBVIOUS
    <2>1. ASSUME A!AtRest, trouble \subseteq {"create_address"}, NEW u \in User
          PROVE  /\ u \in had => A!Defaults(u) # {}
                 /\ "create_address" \notin trouble => Cardinality(A!Defaults(u)) <= 1
      <3>1. "overlap" \notin trouble /\ "dies" \notin trouble
        BY <2>1
      <3>2. Setters(u) = {}
        BY <2>1 DEF A!AtRest, Setters, Setting
      <3>3. u \in had => A!Defaults(u) # {}
        BY <3>1, <3>2 DEF AddressInv, OneDefault
      <3>4. ASSUME "create_address" \notin trouble PROVE Cardinality(A!Defaults(u)) <= 1
        <4>1. \A i, j \in A!Defaults(u) : i = j
          BY <3>1, <3>4 DEF AddressInv, OneDefault
        <4>2. CASE A!Defaults(u) = {}
          BY <4>2, FS_EmptySet
        <4>3. ASSUME NEW i \in A!Defaults(u) PROVE Cardinality(A!Defaults(u)) <= 1
          <5>1. A!Defaults(u) = {i}
            BY <4>1
          <5> QED
            BY <5>1, FS_Singleton
        <4> QED
          BY <4>2, <4>3
      <3> QED
        BY <3>3, <3>4
    <2>2. ASSUME "create_address" \notin trouble, NEW u \in User
          PROVE  Cardinality(A!Defaults(u)) <= Cardinality(Worker)
      <3>1. Cardinality(A!Defaults(u)) <= Cardinality(Worker \ Setters(u))
        BY <2>2 DEF AddressInv, WithinWorkers
      <3>2. Cardinality(Worker \ Setters(u)) <= Cardinality(Worker) /\ IsFiniteSet(Worker \ Setters(u))
        BY FiniteWorkers, FS_Subset
      <3>3. /\ Cardinality(A!Defaults(u)) \in Nat /\ Cardinality(Worker) \in Nat
            /\ Cardinality(Worker \ Setters(u)) \in Nat
        BY <3>2, FiniteWorkers, FiniteDefaults, FS_CardinalityType DEF AddressInv
      <3> QED
        BY <3>1, <3>2, <3>3
    <2>3. A!DefaultStands
      BY <2>1, SameSize DEF A!DefaultStands
    <2>4. A!DefaultsBounded
      BY <2>2, SameSize DEF A!DefaultsBounded
    <2> QED
      BY <2>3, <2>4 DEF DefaultKept
  <1> QED
    BY <1>1, AddressesAlways, PTL

-----------------------------------------------------------------------------
(* Settings                                                                *)

SetPlaces == {"idle", "found", "missing", "deleted", "same", "selected"}

\* A request about push settings is about one of their columns, and goes on
\* with a row that is there.
PushOK(w) ==
  LET r == setReq[w]
  IN  r.op = "push" =>
        /\ r.column \in S!Column \cup {None} /\ (r.column # None => r.value \in {0, 1})
        /\ setPc[w] \in {"found", "selected"} => r.row # None /\ setting[r.user] # None
        /\ setPc[w] = "selected" => r.column # None /\ r.selected # None

SetShape ==
  /\ S!TypeOK /\ service \in S!Op /\ setOverlaps \in BOOLEAN
  /\ \A w \in Worker : /\ setPc[w] = "idle" <=> setReq[w] = None
                       /\ setPc[w] # "idle" => setReq[w].op = service /\ PushOK(w)

\* Workers that are about to insert an account, or a copy of u's search.
Signups == {w \in Worker : setPc[w] # "idle" /\ setReq[w].op = "signup"}
Savers(u) == {w \in Worker : setPc[w] # "idle" /\ setReq[w].op = "search" /\ setReq[w].user = u}

\* The rows there may be while the workers of P are about to insert one each.
RoomBeside(many, P) == IF many THEN Cardinality(Worker \ P) ELSE IF P = {} THEN 1 ELSE 0

Few ==
  /\ accounts <= RoomBeside(setOverlaps, Signups)
  /\ \A u \in User : saved[u] <= RoomBeside(setOverlaps, Savers(u))

\* Without overlap, what the one request at work has read still holds.
StillSet(w) ==
  LET r == setReq[w]
      row == setting[r.user]
  IN  /\ r.op = "token" /\ setPc[w] = "same" => token = r.user
      /\ r.op = "push" /\ setPc[w] = "found" => r.row = row
      /\ r.op = "push" /\ setPc[w] = "selected" => r.selected = row /\ r.row = [row EXCEPT ![r.column] = r.value]
      /\ r.op = "profile" /\ r.column = None => r.value = avatar[r.user]

SetSerial ==
  ~setOverlaps => \A w \in Worker : setPc[w] # "idle" =>
                    StillSet(w) /\ \A v \in Worker : setPc[v] # "idle" => v = w

SetInv == SetShape /\ Few /\ SetSerial /\ S!SettingsAsSet

LEMMA SetRunning ==
  ASSUME SetShape, NEW w \in Worker, setPc[w] # "idle"
  PROVE  /\ setReq[w] \in S!Request /\ setReq[w] # None /\ setReq[w].user \in User
         /\ setReq[w].op = service /\ PushOK(w)
         /\ setReq[w].row \in S!Setting \cup {None} /\ setReq[w].selected \in S!Setting \cup {None}
         /\ setReq[w].value \in {0, 1, None}
  BY DEF SetShape, S!TypeOK, S!Request

LEMMA RoomThere ==
  ASSUME NEW many \in BOOLEAN, NEW P, P \subseteq Worker
  PROVE  RoomBeside(many, P) \in Nat
  <1>1. Cardinality(Worker \ P) \in Nat
    BY FiniteWorkers, FS_Subset, FS_CardinalityType
  <1> QED
    BY <1>1 DEF RoomBeside

LEMMA RoomGrows ==
  ASSUME NEW many \in BOOLEAN, NEW P, P \subseteq Worker, NEW Q, Q \subseteq P
  PROVE  RoomBeside(many, P) <= RoomBeside(many, Q)
  <1>1. IsFiniteSet(Worker \ P) /\ IsFiniteSet(Worker \ Q)
    BY FiniteWorkers, FS_Subset
  <1>2. Cardinality(Worker \ P) <= Cardinality(Worker \ Q)
    BY <1>1, FS_Subset
  <1> QED
    BY <1>2 DEF RoomBeside

LEMMA RoomFreed ==
  ASSUME NEW many \in BOOLEAN, NEW P, P \subseteq Worker, NEW w \in P, ~many => P \subseteq {w}
  PROVE  RoomBeside(many, P) + 1 <= RoomBeside(many, P \ {w})
  <1>1. IsFiniteSet(Worker \ P)
    BY FiniteWorkers, FS_Subset
  <1>2. Cardinality((Worker \ P) \cup {w}) = Cardinality(Worker \ P) + 1
    BY <1>1, FS_AddElement
  <1>3. Worker \ (P \ {w}) = (Worker \ P) \cup {w}
    OBVIOUS
  <1>4. Cardinality(Worker \ (P \ {w})) = Cardinality(Worker \ P) + 1
    BY <1>2, <1>3
  <1>5. Cardinality(Worker \ P) \in Nat
    BY <1>1, FS_CardinalityType
  <1>6. CASE many
    BY <1>4, <1>5, <1>6 DEF RoomBeside
  <1>7. CASE ~many
    BY <1>7 DEF RoomBeside
  <1> QED
    BY <1>6, <1>7

SetOthers(w) == \A v \in Worker \ {w} : setPc'[v] = setPc[v] /\ setReq'[v] = setReq[v]

LEMMA SetStarts ==
  ASSUME SetInv, NEW w \in Worker, NEW r \in S!Request, NEW at \in SetPlaces \ {"idle"}, S!Start(w, r, at)
  PROVE  /\ SetOthers(w) /\ setPc[w] = "idle" /\ setPc'[w] = at /\ setReq'[w] = r /\ r # None
         /\ setPc' \in [Worker -> SetPlaces] /\ setReq' \in [Worker -> S!Request \cup {None}]
         /\ r.op = service
         /\ UNCHANGED <<service, setOverlaps, setWanted, holder, picked>>
         /\ ~setOverlaps => \A v \in Worker : setPc[v] = "idle"
  <1>1. r # None
    BY NoneIsNoRow
  <1> QED
    BY <1>1 DEF S!Start, S!Goto, S!environment, SetInv, SetShape, S!TypeOK, SetPlaces, SetOthers

LEMMA SetEnds ==
  ASSUME SetInv, NEW w \in Worker, S!Finish(w)
  PROVE  /\ SetOthers(w) /\ setPc'[w] = "idle" /\ setReq'[w] = None
         /\ setPc' \in [Worker -> SetPlaces] /\ setReq' \in [Worker -> S!Request \cup {None}]
         /\ UNCHANGED <<service, setOverlaps>>
  BY DEF S!Finish, S!Goto, S!environment, SetInv, SetShape, S!TypeOK, SetPlaces, SetOthers

LEMMA SetShapeAfter ==
  ASSUME SetInv, NEW w \in Worker, SetOthers(w),
         setPc' \in [Worker -> SetPlaces], setReq' \in [Worker -> S!Request \cup {None}],
         UNCHANGED <<service, setOverlaps>>,
         accounts' \in 0 .. MaxRows, token' \in User \cup {None}, holder' \in User \cup {None},
         saved' \in [User -> 0 .. MaxRows],
         avatar' \in [User -> {0, 1, None}], picked' \in [User -> {0, 1, None}],
         setting' \in [User -> S!Setting \cup {None}], setWanted' \in [User -> S!Setting],
         \A u \in User : setting[u] # None => setting'[u] # None,
         setPc'[w] = "idle" <=> setReq'[w] = None,
         setPc'[w] # "idle" => setReq'[w].op = service /\ PushOK(w)'
  PROVE  SetShape'
  <1>1. S!TypeOK'
    BY DEF S!TypeOK, SetPlaces
  <1>2. ASSUME NEW v \in Worker \ {w}, setPc'[v] # "idle" PROVE setReq'[v].op = service /\ PushOK(v)'
    <2>1. setPc[v] # "idle" /\ setPc'[v] = setPc[v] /\ setReq'[v] = setReq[v]
      BY <1>2 DEF SetOthers
    <2>2. setReq[v].op = service /\ PushOK(v) /\ setReq[v].user \in User
      BY <2>1, SetRunning DEF SetInv
    <2> QED
      BY <2>1, <2>2 DEF PushOK
  <1> QED
    BY <1>1, <1>2 DEF SetOthers, SetInv, SetShape

LEMMA SetSerialAfter ==
  ASSUME SetInv, NEW w \in Worker, SetOthers(w), setOverlaps' = setOverlaps,
         setPc[w] # "idle" \/ (~setOverlaps => \A v \in Worker : setPc[v] = "idle"),
         ~setOverlaps /\ setPc'[w] # "idle" => StillSet(w)'
  PROVE  SetSerial'
  <1> SUFFICES ASSUME ~setOverlaps, NEW v \in Worker, setPc'[v] # "idle"
               PROVE  StillSet(v)' /\ \A x \in Worker : setPc'[x] # "idle" => x = v
    BY DEF SetSerial
  <1>1. \A x \in Worker : setPc'[x] # "idle" => x = w
    BY DEF SetOthers, SetInv, SetSerial
  <1> QED
    BY <1>1

\* How a number of rows, n, and the workers about to insert one may change.
Fits(w, n, m, P, Q) ==
  \/ m = 0
  \/ m <= n /\ Q \subseteq P
  \/ m = n + 1 /\ w \in P /\ Q = P \ {w}

LEMMA FitsRoom ==
  ASSUME NEW w, NEW n \in Nat, NEW m \in Nat, NEW P, P \subseteq Worker, NEW Q, Q \subseteq Worker,
         NEW many \in BOOLEAN, ~many /\ w \in P => P \subseteq {w},
         n <= RoomBeside(many, P), Fits(w, n, m, P, Q)
  PROVE  m <= RoomBeside(many, Q)
  <1>1. RoomBeside(many, P) \in Nat /\ RoomBeside(many, Q) \in Nat
    BY RoomThere
  <1>2. CASE m = 0
    BY <1>1, <1>2
  <1>3. CASE m <= n /\ Q \subseteq P
    <2>1. RoomBeside(many, P) <= RoomBeside(many, Q)
      BY <1>3, RoomGrows
    <2> QED
      BY <1>1, <1>3, <2>1
  <1>4. CASE m = n + 1 /\ w \in P /\ Q = P \ {w}
    <2>1. RoomBeside(many, P) + 1 <= RoomBeside(many, P \ {w})
      BY <1>4, RoomFreed
    <2> QED
      BY <1>1, <1>4, <2>1
  <1> QED
    BY <1>2, <1>3, <1>4 DEF Fits

LEMMA FewAfter ==
  ASSUME SetInv, NEW w \in Worker, setOverlaps' = setOverlaps,
         setPc[w] # "idle" \/ (~setOverlaps => \A v \in Worker : setPc[v] = "idle"),
         accounts' \in Nat, saved' \in [User -> Nat],
         Fits(w, accounts, accounts', Signups, Signups'),
         \A u \in User : Fits(w, saved[u], saved'[u], Savers(u), Savers(u)')
  PROVE  Few'
  <1>1. accounts \in Nat /\ saved \in [User -> Nat] /\ setOverlaps \in BOOLEAN
    BY BoundsOK DEF SetInv, SetShape, S!TypeOK
  <1>2. ~setOverlaps => \A v \in Worker : setPc[v] # "idle" => v = w
    BY DEF SetInv, SetSerial
  <1>3. accounts' <= RoomBeside(setOverlaps, Signups')
    <2>1. PICK Q : Q = Signups'
      OBVIOUS
    <2>2. Q \subseteq Worker
      BY <2>1 DEF Signups
    <2>3. Signups \subseteq Worker /\ (~setOverlaps /\ w \in Signups => Signups \subseteq {w})
      BY <1>2 DEF Signups
    <2>4. PICK m \in Nat : m = accounts'
      OBVIOUS
    <2>5. accounts <= RoomBeside(setOverlaps, Signups) /\ Fits(w, accounts, m, Signups, Q)
      BY <2>1, <2>4 DEF SetInv, Few
    <2>6. m <= RoomBeside(setOverlaps, Q)
      BY <1>1, <2>2, <2>3, <2>5, FitsRoom
    <2> QED
      BY <2>1, <2>4, <2>6
  <1>4. ASSUME NEW u \in User PROVE saved'[u] <= RoomBeside(setOverlaps, Savers(u)')
    <2>1. PICK Q : Q = Savers(u)'
      OBVIOUS
    <2>2. Q \subseteq Worker
      BY <2>1 DEF Savers
    <2>3. Savers(u) \subseteq Worker /\ (~setOverlaps /\ w \in Savers(u) => Savers(u) \subseteq {w})
      BY <1>2 DEF Savers
    <2>4. PICK m \in Nat : m = saved'[u]
      OBVIOUS
    <2>5. saved[u] <= RoomBeside(setOverlaps, Savers(u)) /\ Fits(w, saved[u], m, Savers(u), Q)
      BY <2>1, <2>4 DEF SetInv, Few
    <2>6. m <= RoomBeside(setOverlaps, Q)
      BY <1>1, <2>2, <2>3, <2>5, FitsRoom
    <2> QED
      BY <2>1, <2>4, <2>6
  <1> QED
    BY <1>3, <1>4 DEF Few

\* Nothing is inserted and nobody joins the workers that will.
LEMMA FewKept ==
  ASSUME SetInv, NEW w \in Worker, SetOthers(w), setOverlaps' = setOverlaps,
         setPc[w] # "idle" \/ (~setOverlaps => \A v \in Worker : setPc[v] = "idle"),
         accounts' = accounts, saved' = saved,
         \/ setPc'[w] = "idle"
         \/ setReq'[w].op \notin {"signup", "search"}
         \/ setPc[w] # "idle" /\ setReq'[w].op = setReq[w].op /\ setReq'[w].user = setReq[w].user
  PROVE  Few'
  <1>1. accounts \in Nat /\ saved \in [User -> Nat]
    BY BoundsOK DEF SetInv, SetShape, S!TypeOK
  <1>2. Signups' \subseteq Signups
    BY DEF SetOthers, Signups
  <1>3. ASSUME NEW u \in User PROVE Savers(u)' \subseteq Savers(u)
    BY DEF SetOthers, Savers
  <1>4. Fits(w, accounts, accounts', Signups, Signups')
    BY <1>1, <1>2 DEF Fits
  <1>5. ASSUME NEW u \in User PROVE Fits(w, saved[u], saved'[u], Savers(u), Savers(u)')
    BY <1>1, <1>3 DEF Fits
  <1> QED
    BY <1>1, <1>4, <1>5, FewAfter

LEMMA AsksWhat ==
  ASSUME NEW u \in User, NEW op \in S!Op, NEW column \in S!Column \cup {"avatar", None}, NEW value \in {0, 1, None}
  PROVE  /\ S!Asks(op, u, column, value) \in S!Request
         /\ S!Asks(op, u, column, value).op = op /\ S!Asks(op, u, column, value).user = u
         /\ S!Asks(op, u, column, value).column = column /\ S!Asks(op, u, column, value).value = value
         /\ S!Asks(op, u, column, value).row = None
  BY DEF S!Asks, S!Request

\* Starting changes no table, but for a search that is deleted to be saved again.
LEMMA SetBegins ==
  ASSUME SetInv, NEW w \in Worker, NEW r \in S!Request, NEW at \in SetPlaces \ {"idle"}, S!Start(w, r, at),
         UNCHANGED <<accounts, token, setting, avatar>>, saved' \in [User -> 0 .. MaxRows],
         \/ r.op = "signup" /\ accounts = 0 /\ saved' = saved
         \/ r.op = "search" /\ saved' = [saved EXCEPT ![r.user] = 0]
         \/ r.op \notin {"signup", "search"} /\ saved' = saved,
         PushOK(w)',
         ~setOverlaps => StillSet(w)'
  PROVE  SetInv'
  <1>1. /\ SetOthers(w) /\ setPc[w] = "idle" /\ setPc'[w] = at /\ setReq'[w] = r /\ r # None
        /\ setPc' \in [Worker -> SetPlaces] /\ setReq' \in [Worker -> S!Request \cup {None}]
        /\ r.op = service
        /\ UNCHANGED <<service, setOverlaps, setWanted, holder, picked>>
        /\ ~setOverlaps => \A v \in Worker : setPc[v] = "idle"
    BY SetStarts
  <1>2. SetShape'
    BY <1>1, SetShapeAfter DEF SetInv, SetShape, S!TypeOK
  <1>3. accounts \in Nat /\ saved \in [User -> Nat] /\ saved' \in [User -> Nat] /\ r.user \in User
    BY BoundsOK DEF SetInv, SetShape, S!TypeOK, S!Request
  <1>4. Few'
    <2>1. CASE r.op = "signup" /\ accounts = 0 /\ saved' = saved
      <3>1. Fits(w, accounts, accounts', Signups, Signups')
        BY <2>1 DEF Fits
      <3>2. ASSUME NEW u \in User PROVE Fits(w, saved[u], saved'[u], Savers(u), Savers(u)')
        <4>1. Savers(u)' \subseteq Savers(u)
          BY <1>1, <2>1 DEF SetOthers, Savers
        <4> QED
          BY <1>3, <2>1, <4>1 DEF Fits
      <3> QED
        BY <1>1, <1>3, <3>1, <3>2, FewAfter
    <2>2. CASE r.op = "search" /\ saved' = [saved EXCEPT ![r.user] = 0]
      <3>1. Fits(w, accounts, accounts', Signups, Signups')
        <4>1. Signups' \subseteq Signups
          BY <1>1, <2>2 DEF SetOthers, Signups
        <4> QED
          BY <1>3, <4>1 DEF Fits
      <3>2. ASSUME NEW u \in User PROVE Fits(w, saved[u], saved'[u], Savers(u), Savers(u)')
        <4>1. CASE u = r.user
          BY <1>3, <2>2, <4>1 DEF Fits
        <4>2. CASE u # r.user
          <5>1. Savers(u)' \subseteq Savers(u) /\ saved'[u] = saved[u]
            BY <1>1, <1>3, <2>2, <4>2 DEF SetOthers, Savers
          <5> QED
            BY <1>3, <5>1 DEF Fits
        <4> QED
          BY <4>1, <4>2
      <3> QED
        BY <1>1, <1>3, <3>1, <3>2, FewAfter
    <2>3. CASE r.op \notin {"signup", "search"} /\ saved' = saved
      BY <1>1, <2>3, FewKept
    <2> QED
      BY <2>1, <2>2, <2>3
  <1>5. SetSerial'
    BY <1>1, SetSerialAfter
  <1>6. S!SettingsAsSet'
    BY <1>1 DEF SetInv, S!SettingsAsSet
  <1> QED
    BY <1>2, <1>4, <1>5, <1>6 DEF SetInv

LEMMA SetFinds ==
  ASSUME SetInv, NEW w \in Worker, NEW u \in User,
         S!Signup_Find(w, u) \/ S!UpsertDevToken_Find(w, u) \/ S!SaveSearch_Delete(w, u)
  PROVE  SetInv'
  <1>0. None \in {0, 1, None} /\ None \in S!Column \cup {"avatar", None}
        /\ {"signup", "token", "search"} \subseteq S!Op
        /\ saved \in [User -> 0 .. MaxRows] /\ 0 \in 0 .. MaxRows
    BY BoundsOK DEF S!Op, SetInv, SetShape, S!TypeOK
  <1>1. CASE S!Signup_Find(w, u)
    <2>1. PICK r \in S!Request : r = S!Asks("signup", u, None, None) /\ r.op = "signup" /\ r.user = u
      BY <1>0, AsksWhat
    <2>2. S!Start(w, r, "found") /\ accounts = 0 /\ UNCHANGED <<accounts, token, saved, setting, avatar>>
      BY <1>1, <2>1 DEF S!Signup_Find, S!tables
    <2>3. setReq'[w] = r
      BY <2>2, SetStarts DEF SetPlaces
    <2>4. PushOK(w)' /\ StillSet(w)'
      BY <2>1, <2>3 DEF PushOK, StillSet
    <2> QED
      BY <1>0, <2>1, <2>2, <2>4, SetBegins DEF SetPlaces
  <1>2. CASE S!UpsertDevToken_Find(w, u)
    <2>1. PICK r \in S!Request : r = S!Asks("token", u, None, None) /\ r.op = "token" /\ r.user = u
      BY <1>0, AsksWhat
    <2>2. PICK at \in {"missing", "found"} : S!Start(w, r, at) /\ UNCHANGED <<accounts, token, saved, setting, avatar>>
      BY <1>2, <2>1 DEF S!UpsertDevToken_Find, S!tables
    <2>3. setReq'[w] = r /\ setPc'[w] = at
      BY <2>2, SetStarts DEF SetPlaces
    <2>4. PushOK(w)' /\ StillSet(w)'
      BY <2>1, <2>3 DEF PushOK, StillSet
    <2> QED
      BY <1>0, <2>1, <2>2, <2>4, SetBegins DEF SetPlaces
  <1>3. CASE S!SaveSearch_Delete(w, u)
    <2>1. PICK r \in S!Request : r = S!Asks("search", u, None, None) /\ r.op = "search" /\ r.user = u
      BY <1>0, AsksWhat
    <2>2. S!Start(w, r, "deleted") /\ UNCHANGED <<accounts, token, setting, avatar>>
          /\ saved' = [saved EXCEPT ![r.user] = 0]
      BY <1>3, <2>1 DEF S!SaveSearch_Delete
    <2>3. setReq'[w] = r
      BY <2>2, SetStarts DEF SetPlaces
    <2>4. PushOK(w)' /\ StillSet(w)'
      BY <2>1, <2>3 DEF PushOK, StillSet
    <2>5. saved' \in [User -> 0 .. MaxRows]
      BY <1>0, <2>2
    <2> QED
      BY <2>1, <2>2, <2>4, <2>5, SetBegins DEF SetPlaces
  <1> QED
    BY <1>1, <1>2, <1>3

LEMMA PushFinds ==
  ASSUME SetInv, NEW w \in Worker, NEW u \in User, NEW column \in S!Column \cup {None},
         NEW value \in {0, 1, None}, column # None => value \in {0, 1},
         S!FindOrCreate_Find(w, u, column, value)
  PROVE  SetInv'
  <1>1. PICK at \in {"missing", "found"} :
          /\ S!Start(w, [S!Asks("push", u, column, value) EXCEPT !.row = setting[u]], at)
          /\ at = "found" => setting[u] # None
          /\ UNCHANGED <<accounts, token, saved, setting, avatar>>
    BY DEF S!FindOrCreate_Find, S!tables
  <1>2. PICK r \in S!Request : /\ r = [S!Asks("push", u, column, value) EXCEPT !.row = setting[u]]
                               /\ r.op = "push" /\ r.user = u /\ r.column = column /\ r.value = value
                               /\ r.row = setting[u]
    <2>1. setting[u] \in S!Setting \cup {None}
      BY DEF SetInv, SetShape, S!TypeOK
    <2>2. PICK q \in S!Request : q = S!Asks("push", u, column, value)
                                 /\ q.op = "push" /\ q.user = u /\ q.column = column /\ q.value = value
      <3>1. "push" \in S!Op /\ column \in S!Column \cup {"avatar", None}
        BY DEF S!Op
      <3> QED
        BY <3>1, AsksWhat
    <2> DEFINE r == [q EXCEPT !.row = setting[u]]
    <2>3. r \in S!Request /\ r.op = "push" /\ r.user = u /\ r.column = column /\ r.value = value
          /\ r.row = setting[u]
      BY <2>1, <2>2 DEF S!Request
    <2>4. r = [S!Asks("push", u, column, value) EXCEPT !.row = setting[u]]
      BY <2>2
    <2> QED
      BY <2>3, <2>4
  <1>3. S!Start(w, r, at)
    BY <1>1, <1>2
  <1>4. setReq'[w] = r /\ setPc'[w] = at
    BY <1>3, SetStarts DEF SetPlaces
  <1>5. PushOK(w)' /\ StillSet(w)'
    BY <1>1, <1>2, <1>4 DEF PushOK, StillSet
  <1>6. saved' \in [User -> 0 .. MaxRows]
    BY <1>1 DEF SetInv, SetShape, S!TypeOK
  <1> QED
    BY <1>1, <1>2, <1>3, <1>5, <1>6, SetBegins DEF SetPlaces

LEMMA ProfileFinds ==
  ASSUME SetInv, NEW w \in Worker, NEW u \in User, NEW given \in {0, 1, None},
         S!ChangeInfoAfterSignup_Find(w, u, given)
  PROVE  SetInv'
  <1>1. PICK r \in S!Request : /\ r.op = "profile" /\ r.user = u /\ S!Start(w, r, "found")
                               /\ r.column = None => r.value = avatar[u]
    <2>1. "profile" \in S!Op /\ avatar[u] \in {0, 1, None}
          /\ {None, "avatar"} \subseteq S!Column \cup {"avatar", None}
      BY DEF S!Op, SetInv, SetShape, S!TypeOK
    <2>2. CASE given = None
      <3>1. PICK r \in S!Request : /\ r = S!Asks("profile", u, None, avatar[u])
                                   /\ r.op = "profile" /\ r.user = u /\ r.value = avatar[u]
        BY <2>1, AsksWhat
      <3>2. S!Start(w, r, "found")
        BY <2>2, <3>1 DEF S!ChangeInfoAfterSignup_Find
      <3> QED
        BY <3>1, <3>2
    <2>3. CASE given # None
      <3>1. PICK r \in S!Request : /\ r = S!Asks("profile", u, "avatar", given)
                                   /\ r.op = "profile" /\ r.user = u /\ r.column = "avatar"
        BY <2>1, AsksWhat
      <3>2. S!Start(w, r, "found")
        BY <2>3, <3>1 DEF S!ChangeInfoAfterSignup_Find
      <3>3. "avatar" # None
        BY NoneIsNothing
      <3> QED
        BY <3>1, <3>2, <3>3
    <2> QED
      BY <2>2, <2>3
  <1>2. UNCHANGED <<accounts, token, saved, setting, avatar>>
    BY DEF S!ChangeInfoAfterSignup_Find, S!tables
  <1>3. setReq'[w] = r
    BY <1>1, SetStarts DEF SetPlaces
  <1>4. PushOK(w)' /\ StillSet(w)'
    BY <1>1, <1>2, <1>3 DEF PushOK, StillSet
  <1>5. saved' \in [User -> 0 .. MaxRows]
    BY <1>2 DEF SetInv, SetShape, S!TypeOK
  <1> QED
    BY <1>1, <1>2, <1>4, <1>5, SetBegins DEF SetPlaces

LEMMA ColumnSet ==
  ASSUME NEW f \in S!Setting, NEW c \in S!Column, NEW v \in {0, 1}
  PROVE  [f EXCEPT ![c] = v] \in S!Setting
  BY DEF S!Setting, S!Column

\* An UPDATE of the columns that differ writes the row that was meant, if the
\* row is still the one that was selected.
LEMMA ColumnsMerged ==
  ASSUME NEW f \in S!Setting, NEW g \in S!Setting, NEW h \in S!Setting
  PROVE  /\ [c \in S!Column |-> IF g[c] = h[c] THEN f[c] ELSE g[c]] \in S!Setting
         /\ f = h => [c \in S!Column |-> IF g[c] = h[c] THEN f[c] ELSE g[c]] = g
  BY DEF S!Setting, S!Column

LEMMA SetCloses ==
  ASSUME SetInv, NEW w \in Worker, setPc[w] # "idle", S!Finish(w),
         accounts' \in 0 .. MaxRows, token' \in User \cup {None}, holder' \in User \cup {None},
         saved' \in [User -> 0 .. MaxRows],
         avatar' \in [User -> {0, 1, None}], picked' \in [User -> {0, 1, None}],
         setting' \in [User -> S!Setting \cup {None}], setWanted' \in [User -> S!Setting],
         \A u \in User : setting[u] # None => setting'[u] # None,
         \/ accounts' = accounts /\ saved' = saved
         \/ Few',
         S!SettingsAsSet'
  PROVE  SetInv'
  <1>1. /\ SetOthers(w) /\ setPc'[w] = "idle" /\ setReq'[w] = None
        /\ setPc' \in [Worker -> SetPlaces] /\ setReq' \in [Worker -> S!Request \cup {None}]
        /\ UNCHANGED <<service, setOverlaps>>
    BY SetEnds
  <1>2. SetShape'
    BY <1>1, SetShapeAfter
  <1>3. Few'
    BY <1>1, FewKept
  <1>4. SetSerial'
    BY <1>1, SetSerialAfter
  <1> QED
    BY <1>2, <1>3, <1>4 DEF SetInv

LEMMA Inserts ==
  ASSUME SetInv, NEW w \in Worker, S!Signup_Insert(w) \/ S!SaveSearch_Insert(w)
  PROVE  SetInv'
  <1>0. MaxRows \in Nat /\ accounts \in 0 .. MaxRows /\ saved \in [User -> 0 .. MaxRows]
    BY BoundsOK DEF SetInv, SetShape, S!TypeOK
  <1>1. setPc[w] # "idle" /\ S!Finish(w) /\ UNCHANGED <<token, setting, avatar, setWanted, holder, picked>>
    BY DEF S!Signup_Insert, S!SaveSearch_Insert, S!Running
  <1>2. SetOthers(w) /\ setPc'[w] = "idle" /\ setOverlaps' = setOverlaps
    BY <1>1, SetEnds
  <1>3. Signups' = Signups \ {w} /\ \A u \in User : Savers(u)' = Savers(u) \ {w}
    BY <1>2 DEF SetOthers, Signups, Savers
  <1>4. CASE S!Signup_Insert(w)
    <2>1. accounts' = accounts + 1 /\ accounts < MaxRows /\ saved' = saved /\ w \in Signups
      BY <1>4 DEF S!Signup_Insert, S!Running, Signups
    <2>2. accounts' \in 0 .. MaxRows /\ accounts' \in Nat /\ saved' \in [User -> Nat]
      BY <1>0, <2>1
    <2>3. Fits(w, accounts, accounts', Signups, Signups')
      BY <1>3, <2>1 DEF Fits
    <2>4. ASSUME NEW u \in User PROVE Fits(w, saved[u], saved'[u], Savers(u), Savers(u)')
      <3>1. saved[u] <= saved[u] /\ Savers(u)' \subseteq Savers(u)
        BY <1>0, <1>3
      <3> QED
        BY <2>1, <3>1 DEF Fits
    <2>5. Few'
      BY <1>1, <1>2, <2>2, <2>3, <2>4, FewAfter
    <2> QED
      BY <1>0, <1>1, <1>2, <2>1, <2>2, <2>5, SetCloses DEF SetInv, SetShape, S!TypeOK, S!SettingsAsSet
  <1>5. CASE S!SaveSearch_Insert(w)
    <2>1. PICK x \in User : x = setReq[w].user
      BY <1>1, SetRunning DEF SetInv
    <2>2. saved' = [saved EXCEPT ![x] = @ + 1] /\ saved[x] < MaxRows /\ accounts' = accounts /\ w \in Savers(x)
      BY <1>5, <2>1 DEF S!SaveSearch_Insert, S!Running, Savers
    <2>3. accounts' \in Nat /\ saved' \in [User -> 0 .. MaxRows] /\ saved' \in [User -> Nat]
      BY <1>0, <2>2
    <2>4. Fits(w, accounts, accounts', Signups, Signups')
      <3>1. accounts <= accounts /\ Signups' \subseteq Signups
        BY <1>0, <1>3
      <3> QED
        BY <2>2, <3>1 DEF Fits
    <2>5. ASSUME NEW u \in User PROVE Fits(w, saved[u], saved'[u], Savers(u), Savers(u)')
      <3>1. CASE u = x
        BY <1>0, <1>3, <2>2, <3>1 DEF Fits
      <3>2. CASE u # x
        <4>1. saved'[u] = saved[u] /\ saved[u] <= saved[u] /\ Savers(u)' \subseteq Savers(u)
          BY <1>0, <1>3, <2>2, <3>2
        <4> QED
          BY <4>1 DEF Fits
      <3> QED
        BY <3>1, <3>2
    <2>6. Few'
      BY <1>1, <1>2, <2>3, <2>4, <2>5, FewAfter
    <2> QED
      BY <1>0, <1>1, <1>2, <2>2, <2>3, <2>6, SetCloses DEF SetInv, SetShape, S!TypeOK, S!SettingsAsSet
  <1> QED
    BY <1>4, <1>5

\* Requests that end with the tables as they were.
LEMMA SetStops ==
  ASSUME SetInv, NEW w \in Worker,
         \/ S!UpsertDevToken_Duplicate(w) \/ S!CreateDefault_Duplicate(w)
         \/ S!GetPushSetting(w) \/ S!Abandon(w)
  PROVE  SetInv'
  <1>1. /\ setPc[w] # "idle" /\ S!Finish(w)
        /\ UNCHANGED <<accounts, token, saved, setting, avatar, setWanted, holder, picked>>
    BY DEF S!UpsertDevToken_Duplicate, S!CreateDefault_Duplicate, S!GetPushSetting, S!Abandon, S!Running, S!tables
  <1>2. setOverlaps' = setOverlaps
    BY <1>1, SetEnds
  <1> QED
    BY <1>1, <1>2, SetCloses DEF SetInv, SetShape, S!TypeOK, S!SettingsAsSet

LEMMA TokenSelects ==
  ASSUME SetInv, NEW w \in Worker, S!UpsertDevToken_Select(w)
  PROVE  SetInv'
  <1>1. PICK at \in {"same", "selected"} :
          /\ setPc[w] = "found" /\ setReq[w].op = "token" /\ setPc' = [setPc EXCEPT ![w] = at]
          /\ at = "same" => token = setReq[w].user
          /\ UNCHANGED <<accounts, token, saved, setting, avatar, setReq, setWanted, holder, picked,
                         service, setOverlaps>>
    BY DEF S!UpsertDevToken_Select, S!Running, S!Goto, S!tables, S!environment
  <1>2. /\ SetOthers(w) /\ setPc'[w] = at /\ setReq'[w] = setReq[w]
        /\ setPc' \in [Worker -> SetPlaces] /\ setReq' \in [Worker -> S!Request \cup {None}]
    BY <1>1 DEF SetInv, SetShape, S!TypeOK, SetPlaces, SetOthers
  <1>3. PushOK(w)' /\ (~setOverlaps => StillSet(w)')
    BY <1>1, <1>2 DEF PushOK, StillSet
  <1>4. SetShape'
    BY <1>1, <1>2, <1>3, SetRunning, SetShapeAfter DEF SetInv, SetShape, S!TypeOK
  <1>5. Few'
    BY <1>1, <1>2, FewKept
  <1>6. SetSerial'
    BY <1>1, <1>2, <1>3, SetSerialAfter
  <1>7. S!SettingsAsSet'
    BY <1>1 DEF SetInv, S!SettingsAsSet
  <1> QED
    BY <1>4, <1>5, <1>6, <1>7 DEF SetInv

LEMMA TokenSaves ==
  ASSUME SetInv, NEW w \in Worker, S!UpsertDevToken_Save(w)
  PROVE  SetInv'
  <1>1. PICK u \in User : u = setReq[w].user
    BY SetRunning DEF S!UpsertDevToken_Save, S!Running, SetInv
  <1>2. /\ setPc[w] \in {"missing", "selected", "same"} /\ setReq[w].op = "token" /\ S!Finish(w)
        /\ holder' = u /\ (token' = u \/ (setPc[w] = "same" /\ token' = token))
        /\ UNCHANGED <<accounts, saved, setting, avatar, setWanted, picked>>
    BY <1>1 DEF S!UpsertDevToken_Save, S!Running, S!Registered
  <1>3. setOverlaps' = setOverlaps
    BY <1>2, SetEnds
  <1>4. ~setOverlaps => token' = u
    BY <1>1, <1>2 DEF SetInv, SetSerial, StillSet
  <1>5. S!SettingsAsSet'
    BY <1>2, <1>3, <1>4 DEF SetInv, S!SettingsAsSet
  <1>6. token' \in User \cup {None} /\ holder' \in User \cup {None}
    BY <1>2 DEF SetInv, SetShape, S!TypeOK
  <1> QED
    BY <1>2, <1>5, <1>6, SetCloses DEF SetInv, SetShape, S!TypeOK

LEMMA PushCreates ==
  ASSUME SetInv, NEW w \in Worker, S!CreateDefault(w)
  PROVE  SetInv'
  <1>0. S!Default \in S!Setting
    BY DEF S!Default, S!Setting
  <1>1. PICK u \in User, r \in S!Request : r = setReq[w] /\ u = r.user /\ PushOK(w) /\ r.op = service
    BY SetRunning DEF S!CreateDefault, S!Running, SetInv
  <1>2. /\ setPc[w] = "missing" /\ r.op = "push" /\ setting[u] = None
        /\ setting' = [setting EXCEPT ![u] = S!Default]
        /\ setReq' = [setReq EXCEPT ![w].row = S!Default] /\ setPc' = [setPc EXCEPT ![w] = "found"]
        /\ UNCHANGED <<accounts, token, saved, avatar, setWanted, holder, picked, service, setOverlaps>>
    BY <1>1 DEF S!CreateDefault, S!Running, S!Goto, S!environment
  <1>3. PICK q \in S!Request : /\ setReq' = [setReq EXCEPT ![w] = q]
                               /\ q.op = "push" /\ q.user = u /\ q.column = r.column /\ q.value = r.value
                               /\ q.row = S!Default
    <2> DEFINE q == [r EXCEPT !.row = S!Default]
    <2>1. q \in S!Request /\ q.op = "push" /\ q.user = u /\ q.column = r.column /\ q.value = r.value
          /\ q.row = S!Default
      BY <1>0, <1>1, <1>2 DEF S!Request
    <2>2. setReq' = [setReq EXCEPT ![w] = q]
      BY <1>1, <1>2
    <2> QED
      BY <2>1, <2>2
  <1>4. q # None /\ S!Default # None
    BY <1>0, NoneIsNoRow
  <1>5. /\ SetOthers(w) /\ setPc'[w] = "found" /\ setReq'[w] = q
        /\ setPc' \in [Worker -> SetPlaces] /\ setReq' \in [Worker -> S!Request \cup {None}]
    BY <1>2, <1>3 DEF SetInv, SetShape, S!TypeOK, SetPlaces, SetOthers
  <1>6. setting' \in [User -> S!Setting \cup {None}] /\ setting'[u] = S!Default
        /\ \A v \in User \ {u} : setting'[v] = setting[v]
    BY <1>0, <1>2 DEF SetInv, SetShape, S!TypeOK
  <1>7. PushOK(w)' /\ StillSet(w)'
    BY <1>1, <1>2, <1>3, <1>4, <1>5, <1>6 DEF PushOK, StillSet
  <1>8. SetShape'
    BY <1>1, <1>2, <1>3, <1>4, <1>5, <1>6, <1>7, SetShapeAfter DEF SetInv, SetShape, S!TypeOK
  <1>9. Few'
    BY <1>1, <1>2, <1>3, <1>5, FewKept
  <1>10. SetSerial'
    BY <1>2, <1>5, <1>7, SetSerialAfter
  <1>11. S!SettingsAsSet'
    <2>1. ASSUME ~setOverlaps, NEW v \in User
          PROVE  setWanted'[v] = IF setting'[v] = None THEN S!Default ELSE setting'[v]
      <3>1. setWanted[v] = IF setting[v] = None THEN S!Default ELSE setting[v]
        BY <2>1 DEF SetInv, S!SettingsAsSet
      <3> QED
        BY <1>2, <1>4, <1>6, <3>1
    <2> QED
      BY <1>2, <2>1 DEF SetInv, S!SettingsAsSet
  <1> QED
    BY <1>8, <1>9, <1>10, <1>11 DEF SetInv

LEMMA PushSelects ==
  ASSUME SetInv, NEW w \in Worker, S!UpdatePushSetting_Select(w)
  PROVE  SetInv'
  <1>1. PICK u \in User, r \in S!Request : r = setReq[w] /\ u = r.user /\ PushOK(w) /\ r.op = service
    BY SetRunning DEF S!UpdatePushSetting_Select, S!Running, SetInv
  <1>2. /\ setPc[w] = "found" /\ r.op = "push" /\ r.column # None
        /\ setReq' = [setReq EXCEPT ![w].row[r.column] = r.value, ![w].selected = setting[u]]
        /\ setPc' = [setPc EXCEPT ![w] = "selected"]
        /\ UNCHANGED <<accounts, token, saved, setting, avatar, setWanted, holder, picked, service, setOverlaps>>
    BY <1>1 DEF S!UpdatePushSetting_Select, S!Running, S!Goto, S!tables, S!environment
  <1>3. PICK row \in S!Setting, c \in S!Column, x \in {0, 1} :
          row = r.row /\ c = r.column /\ x = r.value /\ setting[u] \in S!Setting
    BY <1>1, <1>2 DEF PushOK, S!Request, SetInv, SetShape, S!TypeOK
  <1>4. PICK new \in S!Setting : new = [row EXCEPT ![c] = x]
    BY ColumnSet
  <1>5. PICK q \in S!Request : /\ setReq' = [setReq EXCEPT ![w] = q]
                               /\ q.op = "push" /\ q.user = u /\ q.column = c /\ q.value = x
                               /\ q.row = new /\ q.selected = setting[u]
    <2> DEFINE q == [r EXCEPT !.row = new, !.selected = setting[u]]
    <2>2. q \in S!Request /\ q.op = "push" /\ q.user = u /\ q.column = c /\ q.value = x
          /\ q.row = new /\ q.selected = setting[u]
      BY <1>1, <1>2, <1>3 DEF S!Request
    <2>3. setReq' = [setReq EXCEPT ![w] = q]
      BY <1>1, <1>2, <1>3, <1>4 DEF SetInv, SetShape, S!TypeOK, S!Request
    <2> QED
      BY <2>2, <2>3
  <1>6. q # None
    BY NoneIsNoRow
  <1>7. /\ SetOthers(w) /\ setPc'[w] = "selected" /\ setReq'[w] = q
        /\ setPc' \in [Worker -> SetPlaces] /\ setReq' \in [Worker -> S!Request \cup {None}]
    <2>1. setReq \in [Worker -> S!Request \cup {None}] /\ setPc \in [Worker -> SetPlaces]
      BY DEF SetInv, SetShape, S!TypeOK, SetPlaces
    <2>2. setReq' = [setReq EXCEPT ![w] = q] /\ setPc' = [setPc EXCEPT ![w] = "selected"]
      BY <1>2, <1>5
    <2> QED
      BY <2>1, <2>2 DEF SetPlaces, SetOthers
  <1>8. PushOK(w)'
    <2>1. q.row # None /\ setting[u] # None /\ q.column # None
      <3>1. new # None /\ setting[u] # None
        BY <1>3, NoneIsNoRow
      <3> QED
        BY <1>2, <1>3, <1>5, <3>1
    <2> QED
      BY <1>2, <1>3, <1>5, <1>7, <2>1 DEF PushOK
  <1>9. ~setOverlaps => StillSet(w)'
    <2>1. ~setOverlaps => row = setting[u]
      BY <1>1, <1>2, <1>3 DEF SetInv, SetSerial, StillSet
    <2> QED
      BY <1>2, <1>3, <1>4, <1>5, <1>7, <2>1 DEF StillSet
  <1>10. SetShape'
    BY <1>1, <1>2, <1>5, <1>6, <1>7, <1>8, SetShapeAfter DEF SetInv, SetShape, S!TypeOK
  <1>11. Few'
    BY <1>2, <1>5, <1>7, FewKept
  <1>12. SetSerial'
    BY <1>2, <1>7, <1>9, SetSerialAfter
  <1>13. S!SettingsAsSet'
    BY <1>2 DEF SetInv, S!SettingsAsSet
  <1> QED
    BY <1>10, <1>11, <1>12, <1>13 DEF SetInv

LEMMA PushWrites ==
  ASSUME SetInv, NEW w \in Worker, S!UpdatePushSetting_Write(w)
  PROVE  SetInv'
  <1>1. PICK u \in User, r \in S!Request : r = setReq[w] /\ u = r.user /\ PushOK(w)
    BY SetRunning DEF S!UpdatePushSetting_Write, S!Running, SetInv
  <1>2. setPc[w] = "selected" /\ r.op = "push" /\ S!Finish(w)
        /\ UNCHANGED <<accounts, token, saved, avatar, holder, picked>>
    BY <1>1 DEF S!UpdatePushSetting_Write, S!Running
  <1>3. PICK row \in S!Setting, old \in S!Setting, c \in S!Column, x \in {0, 1} :
          row = r.row /\ old = r.selected /\ c = r.column /\ x = r.value /\ setting[u] \in S!Setting
    BY <1>1, <1>2 DEF PushOK, S!Request, SetInv, SetShape, S!TypeOK
  <1>4. PICK now \in S!Setting : now = setting[u]
    BY <1>3
  <1>5. PICK new \in S!Setting : /\ new = [d \in S!Column |-> IF row[d] = old[d] THEN now[d] ELSE row[d]]
                                 /\ now = old => new = row
    <2> DEFINE new == [d \in S!Column |-> IF row[d] = old[d] THEN now[d] ELSE row[d]]
    <2>1. new \in S!Setting /\ (now = old => new = row)
      BY ColumnsMerged
    <2> QED
      BY <2>1
  <1>6. setting' = [setting EXCEPT ![u] = new]
    BY <1>1, <1>3, <1>4, <1>5 DEF S!UpdatePushSetting_Write
  <1>7. PICK want \in S!Setting : want = [setWanted[u] EXCEPT ![c] = x]
    <2>1. setWanted[u] \in S!Setting
      BY DEF SetInv, SetShape, S!TypeOK
    <2> QED
      BY <2>1, ColumnSet
  <1>8. setWanted' = [setWanted EXCEPT ![u] = want]
    BY <1>1, <1>3, <1>7 DEF S!UpdatePushSetting_Write
  <1>9. new # None /\ now # None
    BY NoneIsNoRow
  <1>10. setOverlaps' = setOverlaps
    BY <1>2, SetEnds
  <1>11. S!SettingsAsSet'
    <2>1. ASSUME ~setOverlaps, NEW v \in User
          PROVE  setWanted'[v] = IF setting'[v] = None THEN S!Default ELSE setting'[v]
      <3>1. \A y \in User : setWanted[y] = IF setting[y] = None THEN S!Default ELSE setting[y]
        BY <2>1 DEF SetInv, S!SettingsAsSet
      <3>2. old = now /\ row = [now EXCEPT ![c] = x]
        BY <1>1, <1>2, <1>3, <1>4, <2>1 DEF SetInv, SetSerial, StillSet
      <3>3. CASE v = u
        <4>1. setWanted[u] = now
          BY <1>4, <1>9, <3>1
        <4>2. want = row /\ new = row
          BY <1>5, <1>7, <3>2, <4>1
        <4>3. setting'[u] = new /\ setWanted'[u] = want
          BY <1>6, <1>8 DEF SetInv, SetShape, S!TypeOK
        <4> QED
          BY <1>9, <3>3, <4>2, <4>3
      <3>4. CASE v # u
        <4>1. setting'[v] = setting[v] /\ setWanted'[v] = setWanted[v]
          BY <1>6, <1>8, <3>4 DEF SetInv, SetShape, S!TypeOK
        <4> QED
          BY <3>1, <4>1
      <3> QED
        BY <3>3, <3>4
    <2> QED
      BY <1>2, <1>10, <2>1 DEF SetInv, S!SettingsAsSet
  <1>12. setting' \in [User -> S!Setting \cup {None}] /\ setWanted' \in [User -> S!Setting]
         /\ \A v \in User : setting[v] # None => setting'[v] # None
    BY <1>6, <1>8, <1>9 DEF SetInv, SetShape, S!TypeOK
  <1> QED
    BY <1>2, <1>11, <1>12, SetCloses DEF SetInv, SetShape, S!TypeOK

LEMMA ProfileUpdates ==
  ASSUME SetInv, NEW w \in Worker, S!ChangeInfoAfterSignup_Update(w)
  PROVE  SetInv'
  <1>1. PICK u \in User, picture \in {0, 1, None} : u = setReq[w].user /\ picture = setReq[w].value
    BY SetRunning DEF S!ChangeInfoAfterSignup_Update, S!Running, SetInv
  <1>2. /\ setPc[w] = "found" /\ setReq[w].op = "profile" /\ S!Finish(w)
        /\ avatar' = [avatar EXCEPT ![u] = picture]
        /\ picked' = IF setReq[w].column = None THEN picked ELSE [picked EXCEPT ![u] = picture]
        /\ UNCHANGED <<accounts, token, saved, setting, setWanted, holder>>
    BY <1>1 DEF S!ChangeInfoAfterSignup_Update, S!Running, S!Picks
  <1>3. setOverlaps' = setOverlaps
    BY <1>2, SetEnds
  <1>4. avatar' \in [User -> {0, 1, None}] /\ picked' \in [User -> {0, 1, None}]
    BY <1>2 DEF SetInv, SetShape, S!TypeOK
  <1>5. ~setOverlaps => avatar' = picked'
    <2> SUFFICES ASSUME ~setOverlaps PROVE avatar' = picked'
      OBVIOUS
    <2>1. avatar = picked /\ (setReq[w].column = None => picture = avatar[u])
      BY <1>1, <1>2 DEF SetInv, SetSerial, StillSet, S!SettingsAsSet
    <2>2. avatar \in [User -> {0, 1, None}]
      BY DEF SetInv, SetShape, S!TypeOK
    <2> QED
      BY <1>2, <2>1, <2>2
  <1>6. S!SettingsAsSet'
    BY <1>2, <1>3, <1>5 DEF SetInv, S!SettingsAsSet
  <1> QED
    BY <1>2, <1>4, <1>6, SetCloses DEF SetInv, SetShape, S!TypeOK

\* Steps that need no worker.
LEMMA SetAtOnce ==
  ASSUME SetInv, NEW u \in User,
         S!DelSavedSearch(u) \/ \E picture \in {0, 1} : S!SetUserInfo(u, picture)
  PROVE  SetInv'
  <1>0. MaxRows \in Nat /\ accounts \in 0 .. MaxRows /\ saved \in [User -> 0 .. MaxRows]
        /\ setOverlaps \in BOOLEAN
    BY BoundsOK DEF SetInv, SetShape, S!TypeOK
  <1>1. CASE S!DelSavedSearch(u)
    <2>1. PICK left \in {0, saved[u] - 1} :
            /\ saved[u] > 0 /\ saved' = [saved EXCEPT ![u] = left]
            /\ UNCHANGED <<accounts, token, setting, avatar, setPc, setReq, service, setOverlaps,
                           setWanted, holder, picked>>
      BY <1>1 DEF S!DelSavedSearch, S!environment
    <2>2. saved' \in [User -> 0 .. MaxRows] /\ \A v \in User : saved'[v] <= saved[v]
      BY <1>0, <2>1
    <2>3. Signups' = Signups /\ \A v \in User : Savers(v)' = Savers(v) /\ Savers(v) \subseteq Worker
      BY <2>1 DEF Signups, Savers
    <2>4. SetShape'
      BY <2>1, <2>2 DEF SetInv, SetShape, S!TypeOK, PushOK
    <2>5. ASSUME NEW v \in User PROVE saved'[v] <= RoomBeside(setOverlaps, Savers(v))
      <3>1. saved'[v] <= saved[v] /\ saved'[v] \in Nat /\ saved[v] \in Nat
            /\ saved[v] <= RoomBeside(setOverlaps, Savers(v)) /\ RoomBeside(setOverlaps, Savers(v)) \in Nat
        BY <1>0, <2>2, <2>3, RoomThere DEF SetInv, Few
      <3> QED
        BY <3>1
    <2>6. Few'
      BY <2>1, <2>3, <2>5 DEF SetInv, Few
    <2>7. SetSerial' /\ S!SettingsAsSet'
      BY <2>1 DEF SetInv, SetSerial, StillSet, S!SettingsAsSet
    <2> QED
      BY <2>4, <2>6, <2>7 DEF SetInv
  <1>2. ASSUME NEW picture \in {0, 1}, S!SetUserInfo(u, picture) PROVE SetInv'
    <2>1. /\ setOverlaps \/ \A w \in Worker : setPc[w] = "idle"
          /\ avatar' = [avatar EXCEPT ![u] = picture] /\ picked' = [picked EXCEPT ![u] = picture]
          /\ UNCHANGED <<accounts, token, saved, setting, setPc, setReq, service, setOverlaps, setWanted, holder>>
      BY <1>2 DEF S!SetUserInfo, S!Picks, S!environment
    <2>2. SetShape'
      BY <2>1 DEF SetInv, SetShape, S!TypeOK, PushOK
    <2>3. Signups' = Signups /\ \A v \in User : Savers(v)' = Savers(v)
      BY <2>1 DEF Signups, Savers
    <2>4. Few'
      BY <2>1, <2>3 DEF SetInv, Few
    <2>5. SetSerial' /\ S!SettingsAsSet'
      BY <2>1 DEF SetInv, SetSerial, S!SettingsAsSet
    <2> QED
      BY <2>2, <2>4, <2>5 DEF SetInv
  <1> QED
    BY <1>1, <1>2

LEMMA SettingsAlways == Spec => []SetInv
  <1>1. Init => SetInv
    <2> SUFFICES ASSUME Init PROVE SetInv
      OBVIOUS
    <2> USE DEF Init, S!Init
    <2>1. SetShape
      <3>1. S!Default \in S!Setting /\ 0 \in 0 .. MaxRows
        BY BoundsOK DEF S!Default, S!Setting
      <3> QED
        BY <3>1 DEF SetShape, S!TypeOK
    <2>2. Few
      <3>1. Signups = {} /\ \A u \in User : Savers(u) = {}
        BY DEF Signups, Savers
      <3>2. RoomBeside(setOverlaps, {}) \in Nat
        BY RoomThere
      <3>3. accounts = 0 /\ \A u \in User : saved[u] = 0
        OBVIOUS
      <3>4. 0 <= RoomBeside(setOverlaps, {})
        BY <3>2
      <3> QED
        BY <3>1, <3>3, <3>4 DEF Few
    <2>3. SetSerial /\ S!SettingsAsSet
      BY DEF SetSerial, S!SettingsAsSet
    <2> QED
      BY <2>1, <2>2, <2>3 DEF SetInv
  <1>2. SetInv /\ [Next]_vars => SetInv'
    <2> SUFFICES ASSUME SetInv, [Next]_vars PROVE SetInv'
      OBVIOUS
    <2>1. CASE S!Next
      <3>1. ASSUME NEW w \in Worker, NEW u \in User,
                   \/ S!Signup_Find(w, u) \/ S!UpsertDevToken_Find(w, u) \/ S!SaveSearch_Delete(w, u)
                   \/ S!FindOrCreate_Find(w, u, None, None)
                   \/ \E picture \in {0, 1, None} : S!ChangeInfoAfterSignup_Find(w, u, picture)
                   \/ \E c \in S!Column, value \in {0, 1} : S!FindOrCreate_Find(w, u, c, value)
            PROVE  SetInv'
        BY <3>1, SetFinds, PushFinds, ProfileFinds
      <3>2. ASSUME NEW w \in Worker,
                   \/ S!Signup_Insert(w)
                   \/ S!UpsertDevToken_Select(w) \/ S!UpsertDevToken_Save(w) \/ S!UpsertDevToken_Duplicate(w)
                   \/ S!SaveSearch_Insert(w)
                   \/ S!CreateDefault(w) \/ S!CreateDefault_Duplicate(w)
                   \/ S!GetPushSetting(w) \/ S!UpdatePushSetting_Select(w) \/ S!UpdatePushSetting_Write(w)
                   \/ S!ChangeInfoAfterSignup_Update(w)
                   \/ S!Abandon(w)
            PROVE  SetInv'
        BY <3>2, Inserts, SetStops, TokenSelects, TokenSaves, PushCreates, PushSelects, PushWrites, ProfileUpdates
      <3> QED
        BY <2>1, <3>1, <3>2, SetAtOnce DEF S!Next
    <2>2. CASE UNCHANGED settings
      <3>1. UNCHANGED <<accounts, token, saved, setting, avatar, setPc, setReq, service, setOverlaps, setWanted,
                        holder, picked>>
        BY <2>2 DEF settings
      <3>2. Signups' = Signups /\ \A v \in User : Savers(v)' = Savers(v)
        BY <3>1 DEF Signups, Savers
      <3>3. SetShape'
        BY <3>1 DEF SetInv, SetShape, S!TypeOK, PushOK
      <3>4. Few'
        BY <3>1, <3>2 DEF SetInv, Few
      <3>5. SetSerial' /\ S!SettingsAsSet'
        BY <3>1 DEF SetInv, SetSerial, StillSet, S!SettingsAsSet
      <3> QED
        BY <3>3, <3>4, <3>5 DEF SetInv
    <2> QED
      BY <2>1, <2>2 DEF Next, vars
  <1> QED
    BY <1>1, <1>2, PTL DEF Spec

LEMMA SettingsAsAsked == SetInv => S!RowsAsAsked
  <1> SUFFICES ASSUME SetInv PROVE S!RowsAsAsked
    OBVIOUS
  <1>0. setOverlaps \in BOOLEAN /\ accounts \in Nat /\ saved \in [User -> Nat]
    BY BoundsOK DEF SetInv, SetShape, S!TypeOK
  <1>1. \A x : S!Cardinality(x) = Cardinality(x)
    BY DEF S!Cardinality, Cardinality
  <1>2. ASSUME NEW P, P \subseteq Worker
        PROVE  RoomBeside(setOverlaps, P) <= S!InFlight
    <2>1. RoomBeside(setOverlaps, P) <= RoomBeside(setOverlaps, {})
      BY <1>0, <1>2, RoomGrows
    <2>2. Worker \ {} = Worker
      OBVIOUS
    <2>3. RoomBeside(setOverlaps, {}) = S!InFlight
      BY <1>1, <2>2 DEF RoomBeside, S!InFlight
    <2> QED
      BY <2>1, <2>3
  <1>3. S!InFlight \in Nat
    BY <1>1, FiniteWorkers, FS_CardinalityType DEF S!InFlight
  <1>4. Signups \subseteq Worker /\ \A u \in User : Savers(u) \subseteq Worker
    BY DEF Signups, Savers
  <1>5. RoomBeside(setOverlaps, Signups) \in Nat /\ \A u \in User : RoomBeside(setOverlaps, Savers(u)) \in Nat
    BY <1>0, <1>4, RoomThere
  <1>6. accounts <= S!InFlight
    <2>1. accounts <= RoomBeside(setOverlaps, Signups) /\ RoomBeside(setOverlaps, Signups) <= S!InFlight
      BY <1>2, <1>4 DEF SetInv, Few
    <2> QED
      BY <1>0, <1>3, <1>5, <2>1
  <1>7. ASSUME NEW u \in User PROVE saved[u] <= S!InFlight
    <2>1. saved[u] <= RoomBeside(setOverlaps, Savers(u)) /\ RoomBeside(setOverlaps, Savers(u)) <= S!InFlight
      BY <1>2, <1>4 DEF SetInv, Few
    <2> QED
      BY <1>0, <1>3, <1>5, <2>1
  <1> QED
    BY <1>6, <1>7 DEF SetInv, S!RowsAsAsked, S!FewDuplicates

-----------------------------------------------------------------------------
(* Offers                                                                  *)

\* An update that was let through leaves room for the pictures, however late
\* it is written.
OfferShape ==
  /\ O!TypeOK /\ offerOverlaps \in BOOLEAN /\ mixed \in BOOLEAN /\ undercut \in BOOLEAN
  /\ offer # None => O!Cardinality(offer.images) <= ImageLimit
  /\ \A w \in Worker : update[w] # None =>
       offer # None /\ (update[w].images # None => O!Cardinality(update[w].images) <= ImageLimit)

\* The row it makes follows the rules, as long as the row is the one it was checked against.
Good(h) ==
  /\ ~(O!Or(h.images, offer.images) # {} /\ O!Or(h.videos, offer.videos))
  /\ h.discount # None => h.discount <= O!Or(h.price, offer.price)

OfferSerial ==
  ~offerOverlaps =>
    /\ offer # None => /\ offer.images # {} /\ offer.videos => mixed
                       /\ offer.discount # None /\ offer.discount > offer.price => undercut
    /\ \A w \in Worker : update[w] # None =>
         Good(update[w]) /\ \A v \in Worker : update[v] # None => v = w

OfferInv == OfferShape /\ OfferSerial

\* What a request may give.
LEMMA Given ==
  ASSUME NEW g \in O!PriceRequest \cup O!MediaRequest
  PROVE  /\ g.price \in O!Price \cup {None} /\ g.discount \in O!Price \cup {None}
         /\ g.images \in (SUBSET Url) \cup {None} /\ g.deleted \in (SUBSET Image) \cup {None}
         /\ g.videos \in BOOLEAN \cup {None}
  BY DEF O!PriceRequest, O!MediaRequest

LEMMA OfferCreates ==
  ASSUME OfferInv, NEW price \in O!Price, NEW images \in SUBSET Url, NEW videos \in BOOLEAN,
         O!CreateProduct(price, images, videos)
  PROVE  OfferInv'
  <1> DEFINE row == [price |-> price, discount |-> None, images |-> images, videos |-> videos]
  <1>1. row \in O!Row /\ row.price = price /\ row.discount = None /\ row.images = images /\ row.videos = videos
    BY DEF O!Row
  <1>2. row # None
    BY <1>1, NoneIsNoRow
  <1>3. /\ offer = None /\ O!Cardinality(images) <= ImageLimit /\ offer' = row
        /\ mixed' = (images # {} /\ videos) /\ UNCHANGED <<update, offerOverlaps, undercut>>
    BY DEF O!CreateProduct
  <1> HIDE DEF row
  <1>4. OfferShape'
    BY <1>1, <1>2, <1>3 DEF OfferInv, OfferShape, O!TypeOK
  <1>5. OfferSerial'
    BY <1>1, <1>2, <1>3 DEF OfferInv, OfferShape, OfferSerial
  <1> QED
    BY <1>4, <1>5 DEF OfferInv

\* A list that is not empty is not read back empty.
LEMMA PicturesOfNames ==
  ASSUME NEW names \in SUBSET Url, names # {}
  PROVE  O!Pictures(names) # {}
  <1>1. PICK u \in names : TRUE
    OBVIOUS
  <1>2. u \in Seq(Image) /\ u # <<>>
    BY <1>1, UrlsAreNames
  <1>3. 1 \in DOMAIN u /\ u[1] \in Image
    BY <1>2, LenProperties, EmptySeq
  <1> QED
    BY <1>1, <1>3 DEF O!Pictures

LEMMA OfferFinds ==
  ASSUME OfferInv, NEW w \in Worker, NEW g \in O!PriceRequest \cup O!MediaRequest, O!Update_Find(w, g)
  PROVE  OfferInv'
  <1> DEFINE images == IF g.images = None /\ g.deleted = None THEN None ELSE O!FinalImages(g, offer)
             h == [price |-> g.price, discount |-> g.discount, videos |-> g.videos, images |-> images]
  <1>1. /\ offer # None
        /\ offerOverlaps \/ \A v \in Worker : update[v] = None
        /\ O!PriceOK(g, offer) /\ O!MediaOK(g, offer)
        /\ update' = [update EXCEPT ![w] = h]
        /\ UNCHANGED <<offer, offerOverlaps, mixed, undercut>>
    BY DEF O!Update_Find
  <1>2. offer \in O!Row /\ offer.images \in SUBSET Url
    BY <1>1 DEF OfferInv, OfferShape, O!TypeOK, O!Row, O!Update_Find
  <1>3. O!FinalImages(g, offer) \in SUBSET Url
    <2>1. O!Kept(g, offer) \in SUBSET Url
      BY UrlsAreNames DEF O!Kept, O!Pictures
    <2>2. O!Or(g.images, {}) \in SUBSET Url
      BY Given DEF O!Or
    <2> QED
      BY <2>1, <2>2 DEF O!FinalImages
  <1>4. h \in O!Change /\ h.price = g.price /\ h.discount = g.discount /\ h.videos = g.videos /\ h.images = images
    BY <1>3, Given DEF O!Change
  <1>5. h # None /\ O!FinalImages(g, offer) # None
    BY <1>3, <1>4, NoneIsNoRow, NoneIsNoImages
  <1>6. O!Or(images, offer.images) # {} => O!FinalImages(g, offer) # {}
    <2>1. CASE g.images = None /\ g.deleted = None
      <3>1. O!Or(images, offer.images) = offer.images
        BY <2>1 DEF O!Or
      <3>2. O!Kept(g, offer) = {<<p>> : p \in O!Pictures(offer.images)}
        BY <2>1 DEF O!Kept, O!Or
      <3>3. offer.images # {} => O!Pictures(offer.images) # {}
        BY <1>2, PicturesOfNames
      <3> QED
        BY <3>1, <3>2, <3>3 DEF O!FinalImages
    <2>2. CASE ~(g.images = None /\ g.deleted = None)
      BY <1>5, <2>2 DEF O!Or
    <2> QED
      BY <2>1, <2>2
  <1>7. images # None => O!Cardinality(images) <= ImageLimit
    BY <1>1 DEF O!MediaOK, O!ImagesOK
  <1> HIDE DEF h, images
  <1>8. OfferShape'
    BY <1>1, <1>4, <1>5, <1>7 DEF OfferInv, OfferShape, O!TypeOK, O!Update_Find
  <1>9. Good(h)
    BY <1>1, <1>4, <1>6 DEF Good, O!MediaOK, O!PriceOK
  <1>10. OfferSerial'
    BY <1>1, <1>4, <1>9 DEF OfferInv, OfferShape, O!TypeOK, OfferSerial, Good
  <1> QED
    BY <1>8, <1>10 DEF OfferInv

\* Writing replaces the fields that the update has.
LEMMA Merged ==
  ASSUME NEW row \in O!Row, NEW h \in O!Change
  PROVE  LET new == [f \in DOMAIN row |-> O!Or(h[f], row[f])]
         IN  /\ new \in O!Row
             /\ new.price = O!Or(h.price, row.price) /\ new.discount = O!Or(h.discount, row.discount)
             /\ new.images = O!Or(h.images, row.images) /\ new.videos = O!Or(h.videos, row.videos)
  BY DEF O!Row, O!Change, O!Or

LEMMA OfferWrites ==
  ASSUME OfferInv, NEW w \in Worker, O!Update_Write(w)
  PROVE  OfferInv'
  <1>1. PICK h \in O!Change : h = update[w] /\ h # None /\ offer # None
    BY DEF O!Update_Write, OfferInv, OfferShape, O!TypeOK
  <1>2. PICK row \in O!Row : row = offer
    BY <1>1 DEF OfferInv, OfferShape, O!TypeOK
  <1>3. PICK new \in O!Row :
          /\ new = [f \in DOMAIN row |-> O!Or(h[f], row[f])]
          /\ new.price = O!Or(h.price, row.price) /\ new.discount = O!Or(h.discount, row.discount)
          /\ new.images = O!Or(h.images, row.images) /\ new.videos = O!Or(h.videos, row.videos)
    BY Merged
  <1>4. /\ offer' = new /\ update' = [update EXCEPT ![w] = None]
        /\ mixed' = FALSE /\ offerOverlaps' = offerOverlaps
        /\ undercut' = (h.discount = None /\ (undercut \/ (h.price # None /\ row.discount # None
                                                         /\ h.price < row.discount)))
    BY <1>1, <1>2, <1>3 DEF O!Update_Write
  <1>5. new # None
    BY NoneIsNoRow
  <1>6. O!Cardinality(new.images) <= ImageLimit
    BY <1>1, <1>2, <1>3 DEF OfferInv, OfferShape, O!Or
  <1>7. OfferShape'
    BY <1>4, <1>5, <1>6 DEF OfferInv, OfferShape, O!TypeOK
  <1>8. OfferSerial'
    <2> SUFFICES ASSUME ~offerOverlaps PROVE OfferSerial'
      BY <1>4 DEF OfferSerial
    <2>1. /\ Good(h) /\ (row.discount # None /\ row.discount > row.price => undercut)
          /\ \A v \in Worker : update[v] # None => v = w
      BY <1>1, <1>2 DEF OfferInv, OfferSerial
    <2>2. ~(new.images # {} /\ new.videos)
      BY <1>2, <1>3, <2>1 DEF Good
    <2>3. new.discount # None /\ new.discount > new.price => undercut'
      <3>1. CASE h.discount = None
        BY <1>3, <1>4, <2>1, <3>1 DEF O!Or
      <3>2. CASE h.discount # None
        <4>1. h.discount \in Nat /\ new.price \in Nat /\ h.discount <= new.price /\ new.discount = h.discount
          BY <1>2, <1>3, <2>1, <3>2 DEF Good, O!Or, O!Change, O!Row, O!Price
        <4> QED
          BY <4>1
      <3> QED
        BY <3>1, <3>2
    <2>4. \A v \in Worker : update'[v] = None
      BY <1>4, <2>1 DEF OfferInv, OfferShape, O!TypeOK
    <2> QED
      BY <1>4, <2>2, <2>3, <2>4 DEF OfferSerial
  <1> QED
    BY <1>7, <1>8 DEF OfferInv

LEMMA OffersAlways == Spec => []OfferInv
  <1>1. Init => OfferInv
    BY DEF Init, O!Init, OfferInv, OfferShape, O!TypeOK, OfferSerial
  <1>2. OfferInv /\ [Next]_vars => OfferInv'
    <2> SUFFICES ASSUME OfferInv, [Next]_vars PROVE OfferInv'
      OBVIOUS
    <2>1. CASE O!Next
      <3>1. ASSUME NEW w \in Worker, O!Abandon(w) PROVE OfferInv'
        <4>1. OfferShape'
          BY <3>1 DEF O!Abandon, OfferInv, OfferShape, O!TypeOK
        <4>2. OfferSerial'
          BY <3>1 DEF O!Abandon, OfferInv, OfferShape, O!TypeOK, OfferSerial, Good
        <4> QED
          BY <4>1, <4>2 DEF OfferInv
      <3> QED
        BY <2>1, <3>1, OfferCreates, OfferFinds, OfferWrites DEF O!Next
    <2>2. CASE UNCHANGED offers
      BY <2>2 DEF offers, OfferInv, OfferShape, O!TypeOK, OfferSerial, Good
    <2> QED
      BY <2>1, <2>2 DEF Next, vars
  <1> QED
    BY <1>1, <1>2, PTL DEF Spec

\* For any names, workers, prices and limits: no more pictures than allowed are
\* written, whatever overlaps, and without overlap a product keeps the rules for
\* pictures, videos and discounts, but for the two cases of OffersInOrder
\* (createProduct, update of ProductsService).
THEOREM OffersAlwaysInOrder == Spec => []OffersInOrder
  <1>1. OfferInv => OffersInOrder
    BY DEF OffersInOrder, OfferInv, OfferShape, OfferSerial, O!OffersInOrder
  <1> QED
    BY <1>1, OffersAlways, PTL

\* For any users, finitely many workers and any bounds: accounts of one phone number
\* and copies of a saved search never outnumber the requests in flight; without
\* overlap settings, devices and avatars are as their users left them.
THEOREM RowsAlwaysAsAsked == Spec => []RowsAsAsked
  <1>1. SetInv => RowsAsAsked
    BY SettingsAsAsked DEF RowsAsAsked
  <1> QED
    BY <1>1, SettingsAlways, PTL

-----------------------------------------------------------------------------
(* Reviews                                                                 *)

\* A rate or a comment may be inserted whatever happens to it meanwhile.
Justified(word) ==
  word.purchase /\ word.product # None =>
    word.by = order.buyer /\ word.about = order.seller /\ word.product \in order.items

\* Which words and notes are about u, in any list of them.
ByOthers(list, u) ==
  {i \in DOMAIN list : list[i].kind = "comment" /\ list[i].about = u /\ list[i].by # u}
Heard(list, u) == {i \in DOMAIN list : list[i].user = u /\ list[i].type = "comment_product"}
\* Workers that have yet to tell u of a comment.
Telling(u) == {w \in Worker : revPc[w] = "comment_saved" /\ revReq[w].about = u}

RevShape ==
  /\ R!TypeOK /\ seller \in [Product -> User] /\ crossed \in BOOLEAN
  /\ \A i \in DOMAIN words : Justified(words[i])
  /\ \A w \in Worker : revPc[w] # "idle" =>
       /\ revReq[w] \in R!Word /\ Justified(revReq[w])
       /\ revPc[w] = "rate_checked" <=> revReq[w].kind = "rate"
       /\ revPc[w] = "comment_saved" => revReq[w].about # revReq[w].by

\* Every comment was notified, is about to be, or was saved by a request that ended.
Told(u) ==
  LET told == Cardinality(Heard(notes, u)) + Cardinality(Telling(u)) + unheard[u]
  IN  /\ told >= Cardinality(ByOthers(words, u))
      /\ "route" \notin situation => told = Cardinality(ByOthers(words, u))
AllTold == \A u \in User : Told(u)

\* Without overlap, what was checked is still so.
RevSerial ==
  "overlap" \notin situation =>
    /\ ~crossed
    /\ \A v, w \in Worker : revPc[v] # "idle" /\ revPc[w] # "idle" => v = w
    /\ \A w \in R!InFlight : ~R!IsUserBlocked(revReq[w].by, revReq[w].about)

RevInv == RevShape /\ AllTold /\ RevSerial

LEMMA ReviewSize == \A x : R!Cardinality(x) = Cardinality(x)
  BY DEF R!Cardinality, Cardinality

\* The sets that are counted are finite.
LEMMA Countable ==
  ASSUME RevShape, NEW u
  PROVE  /\ Cardinality(Heard(notes, u)) \in Nat /\ IsFiniteSet(Heard(notes, u))
         /\ Cardinality(ByOthers(words, u)) \in Nat /\ IsFiniteSet(ByOthers(words, u))
         /\ Cardinality(Telling(u)) \in Nat /\ IsFiniteSet(Telling(u))
  <1>1. ASSUME NEW T, NEW s \in Seq(T) PROVE IsFiniteSet(DOMAIN s)
    BY LenProperties, FS_Interval
  <1>2. words \in Seq(R!Word) /\ notes \in Seq(R!Note)
    BY DEF RevShape, R!TypeOK
  <1>3. IsFiniteSet(Heard(notes, u))
    BY <1>1, <1>2, FS_Subset DEF Heard
  <1>4. IsFiniteSet(ByOthers(words, u))
    BY <1>1, <1>2, FS_Subset DEF ByOthers
  <1>5. IsFiniteSet(Telling(u))
    BY FiniteWorkers, FS_Subset DEF Telling
  <1> QED
    BY <1>3, <1>4, <1>5, FS_CardinalityType

\* One more word is about one user at most.
LEMMA WordAppended ==
  ASSUME NEW list \in Seq(R!Word), NEW word \in R!Word, NEW u
  PROVE  /\ Append(list, word) \in Seq(R!Word)
         /\ \A i \in DOMAIN list : Append(list, word)[i] = list[i]
         /\ DOMAIN Append(list, word) = DOMAIN list \cup {Len(list) + 1}
         /\ Append(list, word)[Len(list) + 1] = word
         /\ Len(list) + 1 \notin ByOthers(list, u)
         /\ ByOthers(Append(list, word), u) =
              IF word.kind = "comment" /\ word.about = u /\ word.by # u
              THEN ByOthers(list, u) \cup {Len(list) + 1} ELSE ByOthers(list, u)
  <1>1. /\ Append(list, word) \in Seq(R!Word)
        /\ \A i \in DOMAIN list : Append(list, word)[i] = list[i]
        /\ DOMAIN Append(list, word) = DOMAIN list \cup {Len(list) + 1}
        /\ Append(list, word)[Len(list) + 1] = word
        /\ Len(list) + 1 \notin DOMAIN list
    BY AppendProperties, LenProperties
  <1> QED
    BY <1>1 DEF ByOthers

LEMMA NoteAppended ==
  ASSUME NEW list \in Seq(R!Note), NEW note \in R!Note, NEW u
  PROVE  /\ Append(list, note) \in Seq(R!Note)
         /\ Len(list) + 1 \notin Heard(list, u)
         /\ Heard(Append(list, note), u) =
              IF note.user = u /\ note.type = "comment_product"
              THEN Heard(list, u) \cup {Len(list) + 1} ELSE Heard(list, u)
  <1>1. /\ Append(list, note) \in Seq(R!Note)
        /\ \A i \in DOMAIN list : Append(list, note)[i] = list[i]
        /\ DOMAIN Append(list, note) = DOMAIN list \cup {Len(list) + 1}
        /\ Append(list, note)[Len(list) + 1] = note
        /\ Len(list) + 1 \notin DOMAIN list
    BY AppendProperties, LenProperties
  <1> QED
    BY <1>1 DEF Heard

LEMMA ReviewStarts ==
  ASSUME RevInv, NEW w \in Worker, NEW word \in R!Word, NEW at \in {"comment_checked", "rate_checked"},
         R!Start(w, word, at), Justified(word), at = "rate_checked" <=> word.kind = "rate",
         ~R!IsUserBlocked(word.by, word.about)
  PROVE  RevInv'
  <1>1. /\ revPc[w] = "idle" /\ revReq' = [revReq EXCEPT ![w] = word] /\ revPc' = [revPc EXCEPT ![w] = at]
        /\ "overlap" \in situation \/ \A v \in Worker : revPc[v] = "idle"
        /\ UNCHANGED <<seller, order, situation, blocks, words, notes, crossed, unheard>>
    BY DEF R!Start, R!MayStart, R!AtRest, R!market
  <1>2. /\ revReq'[w] = word /\ revPc'[w] = at
        /\ \A v \in Worker : v # w => revReq'[v] = revReq[v] /\ revPc'[v] = revPc[v]
        /\ revPc' \in [Worker -> {"idle", "comment_checked", "comment_saved", "rate_checked"}]
        /\ revReq' \in [Worker -> R!Word \cup {None}]
    BY <1>1 DEF RevInv, RevShape, R!TypeOK
  <1>3. RevShape'
    BY <1>1, <1>2 DEF RevInv, RevShape, R!TypeOK, Justified
  <1>4. \A u : Telling(u)' = Telling(u)
    BY <1>1, <1>2 DEF Telling
  <1>5. AllTold'
    BY <1>1, <1>4 DEF RevInv, AllTold, Told
  <1>6. RevSerial'
    BY <1>1, <1>2 DEF RevInv, RevSerial, R!InFlight, R!IsUserBlocked
  <1> QED
    BY <1>3, <1>5, <1>6 DEF RevInv

LEMMA CommentChecked ==
  ASSUME RevInv, NEW w \in Worker, NEW u \in User, NEW p \in Product, R!SetCommentsProduct_Check(w, u, p)
  PROVE  RevInv'
  <1>1. PICK word \in R!Word :
          /\ word = [kind |-> "comment", by |-> u, about |-> seller[p], product |-> p, purchase |-> FALSE]
          /\ word.kind = "comment" /\ word.by = u /\ word.about = seller[p] /\ word.purchase = FALSE
    <2> DEFINE new == [kind |-> "comment", by |-> u, about |-> seller[p], product |-> p, purchase |-> FALSE]
    <2>1. seller[p] \in User
      BY DEF RevInv, RevShape
    <2>2. /\ new \in R!Word /\ new.kind = "comment" /\ new.by = u /\ new.about = seller[p]
          /\ new.purchase = FALSE
      BY <2>1 DEF R!Word
    <2> QED
      BY <2>2
  <1>2. R!Start(w, word, "comment_checked") /\ ~R!IsUserBlocked(word.by, word.about)
    BY <1>1 DEF R!SetCommentsProduct_Check, R!IsUserBlockedWithSeller
  <1> QED
    BY <1>1, <1>2, ReviewStarts DEF Justified

LEMMA RateChecked ==
  ASSUME RevInv, NEW w \in Worker, NEW word \in R!Rate, R!SetRates_Check(w, word)
  PROVE  RevInv'
  <1>1. R!Start(w, word, "rate_checked") /\ Justified(word) /\ ~R!IsUserBlocked(word.by, word.about)
    BY DEF R!SetRates_Check, R!ValidateSetRateInput, Justified
  <1>2. word \in R!Word /\ word.kind = "rate"
    BY DEF R!Rate
  <1> QED
    BY <1>1, <1>2, ReviewStarts

\* A step inserts the words of a worker that had them checked.
LEMMA WordInserted ==
  ASSUME RevInv, NEW w \in R!InFlight, R!Insert(w),
         UNCHANGED <<seller, order, situation, blocks, notes>>,
         NEW at \in {"idle", "comment_saved"}, NEW left \in R!Word \cup {None},
         revPc' = [revPc EXCEPT ![w] = at], revReq' = [revReq EXCEPT ![w] = left],
         at = "comment_saved" => left = revReq[w],
         at = "comment_saved" <=> revReq[w].kind = "comment" /\ revReq[w].about # revReq[w].by
  PROVE  RevInv'
  <1>1. w \in Worker /\ revPc[w] \in {"comment_checked", "rate_checked"}
    BY DEF R!InFlight
  <1>2. PICK word \in R!Word : word = revReq[w]
    BY <1>1 DEF RevInv, RevShape
  <1>3. /\ Justified(word) /\ words' = Append(words, word)
        /\ crossed' = (crossed \/ R!IsUserBlocked(word.by, word.about)) /\ unheard' = unheard
    BY <1>1, <1>2 DEF RevInv, RevShape, R!Insert
  <1>4. /\ revReq'[w] = left /\ revPc'[w] = at
        /\ \A v \in Worker : v # w => revReq'[v] = revReq[v] /\ revPc'[v] = revPc[v]
        /\ revPc' \in [Worker -> {"idle", "comment_checked", "comment_saved", "rate_checked"}]
        /\ revReq' \in [Worker -> R!Word \cup {None}]
    BY <1>1 DEF RevInv, RevShape, R!TypeOK
  <1>5. words \in Seq(R!Word)
    BY DEF RevInv, RevShape, R!TypeOK
  <1>6. RevShape'
    <2>1. R!TypeOK' /\ (seller \in [Product -> User])' /\ (crossed \in BOOLEAN)'
      BY <1>3, <1>4, <1>5, WordAppended DEF RevInv, RevShape, R!TypeOK, R!IsUserBlocked
    <2>2. \A i \in DOMAIN words' : Justified(words'[i])
      BY <1>3, <1>5, WordAppended DEF RevInv, RevShape
    <2>3. \A x : Justified(x)' <=> Justified(x)
      BY DEF Justified
    <2>4. ASSUME NEW v \in Worker, revPc'[v] # "idle"
          PROVE  /\ revReq'[v] \in R!Word /\ Justified(revReq'[v])
                 /\ revPc'[v] = "rate_checked" <=> revReq'[v].kind = "rate"
                 /\ revPc'[v] = "comment_saved" => revReq'[v].about # revReq'[v].by
      <3>1. CASE v = w
        BY <1>2, <1>3, <1>4, <2>4, <3>1
      <3>2. CASE v # w
        BY <1>4, <2>4, <3>2 DEF RevInv, RevShape
      <3> QED
        BY <3>1, <3>2
    <2> QED
      BY <2>1, <2>2, <2>3, <2>4 DEF RevShape
  <1>7. ASSUME NEW u \in User PROVE Told(u)'
    <2>0. unheard[u] \in Nat /\ unheard'[u] = unheard[u] /\ notes' = notes /\ situation' = situation
      BY <1>3 DEF RevInv, RevShape, R!TypeOK
    <2>1. CASE word.kind = "comment" /\ word.about = u /\ word.by # u
      <3>1. at = "comment_saved" /\ left = word
        BY <1>2, <2>1
      <3>2. Telling(u)' = Telling(u) \cup {w} /\ w \notin Telling(u)
        BY <1>1, <1>4, <2>1, <3>1 DEF Telling
      <3>3. Cardinality(Telling(u)') = Cardinality(Telling(u)) + 1
        BY <3>2, Countable, FS_AddElement DEF RevInv
      <3>4. /\ ByOthers(words', u) = ByOthers(words, u) \cup {Len(words) + 1}
            /\ Len(words) + 1 \notin ByOthers(words, u)
        BY <1>3, <1>5, <2>1, WordAppended
      <3>5. Cardinality(ByOthers(words', u)) = Cardinality(ByOthers(words, u)) + 1
        <4>1. IsFiniteSet(ByOthers(words, u))
          BY Countable DEF RevInv
        <4> QED
          BY <3>4, <4>1, FS_AddElement
      <3>6. Told(u)
        BY DEF RevInv, AllTold
      <3> QED
        BY <2>0, <3>3, <3>5, <3>6, Countable DEF RevInv, Told
    <2>2. CASE ~(word.kind = "comment" /\ word.about = u /\ word.by # u)
      <3>1. ~(at = "comment_saved" /\ left.about = u)
        BY <1>2, <2>2
      <3>2. Telling(u)' = Telling(u)
        BY <1>1, <1>4, <3>1 DEF Telling
      <3>3. ByOthers(words', u) = ByOthers(words, u)
        BY <1>3, <1>5, <2>2, WordAppended
      <3> QED
        BY <2>0, <3>2, <3>3 DEF RevInv, AllTold, Told
    <2> QED
      BY <2>1, <2>2
  <1>8. RevSerial'
    <2> SUFFICES ASSUME "overlap" \notin situation PROVE RevSerial'
      BY DEF RevSerial
    <2>1. /\ ~crossed /\ ~R!IsUserBlocked(word.by, word.about)
          /\ \A v \in Worker : revPc[v] # "idle" => v = w
      BY <1>1, <1>2 DEF RevInv, RevSerial
    <2> QED
      BY <1>3, <1>4, <2>1 DEF RevSerial, R!InFlight
  <1> QED
    BY <1>6, <1>7, <1>8 DEF RevInv, AllTold

LEMMA CommentSaved ==
  ASSUME RevInv, NEW w \in Worker, R!SetCommentsProduct_Save(w)
  PROVE  RevInv'
  <1>1. /\ w \in R!InFlight /\ R!Insert(w) /\ UNCHANGED <<seller, order, situation, blocks, notes>>
        /\ revPc[w] = "comment_checked"
    BY DEF R!SetCommentsProduct_Save, R!InFlight, R!market
  <1>2. revReq[w] \in R!Word /\ revReq[w].kind = "comment"
    BY <1>1 DEF RevInv, RevShape, R!Word
  <1>3. CASE revReq[w].about = revReq[w].by
    BY <1>1, <1>2, <1>3, WordInserted DEF R!SetCommentsProduct_Save, R!Finish
  <1>4. CASE revReq[w].about # revReq[w].by
    <2>1. revPc' = [revPc EXCEPT ![w] = "comment_saved"] /\ revReq' = [revReq EXCEPT ![w] = revReq[w]]
      BY <1>4 DEF R!SetCommentsProduct_Save, RevInv, RevShape, R!TypeOK
    <2> QED
      BY <1>1, <1>2, <1>4, <2>1, WordInserted
  <1> QED
    BY <1>3, <1>4

LEMMA RateSaved ==
  ASSUME RevInv, NEW w \in Worker, R!SetRate(w)
  PROVE  RevInv'
  <1>1. /\ w \in R!InFlight /\ R!Insert(w) /\ UNCHANGED <<seller, order, situation, blocks, notes>>
        /\ revPc[w] = "rate_checked"
        /\ revPc' = [revPc EXCEPT ![w] = "idle"] /\ revReq' = [revReq EXCEPT ![w] = None]
    BY DEF R!SetRate, R!InFlight, R!market, R!Finish
  <1>2. revReq[w] \in R!Word /\ revReq[w].kind = "rate"
    BY <1>1 DEF RevInv, RevShape
  <1> QED
    BY <1>1, <1>2, WordInserted

\* A worker that ends leaves the others as they were.
LEMMA ReviewEnds ==
  ASSUME RevInv, NEW w \in Worker, R!Finish(w), UNCHANGED <<seller, order, situation, blocks, words, crossed>>,
         notes' \in Seq(R!Note), unheard' \in [User -> Nat]
  PROVE  RevShape' /\ RevSerial' /\ \A u : Telling(u)' = Telling(u) \ {w}
  <1>1. /\ revReq'[w] = None /\ revPc'[w] = "idle"
        /\ \A v \in Worker : v # w => revReq'[v] = revReq[v] /\ revPc'[v] = revPc[v]
        /\ revPc' \in [Worker -> {"idle", "comment_checked", "comment_saved", "rate_checked"}]
        /\ revReq' \in [Worker -> R!Word \cup {None}]
    BY DEF RevInv, RevShape, R!TypeOK, R!Finish
  <1>2. RevShape'
    BY <1>1 DEF RevInv, RevShape, R!TypeOK, Justified
  <1>3. RevSerial'
    BY <1>1 DEF RevInv, RevSerial, R!InFlight, R!IsUserBlocked
  <1> QED
    BY <1>1, <1>2, <1>3 DEF Telling

LEMMA CommentNotified ==
  ASSUME RevInv, NEW w \in Worker, R!SetCommentsProduct_Notify(w)
  PROVE  RevInv'
  <1>1. /\ revPc[w] = "comment_saved" /\ R!Finish(w) /\ revReq[w] \in R!Word
        /\ UNCHANGED <<seller, order, situation, blocks, words, crossed, unheard>>
        /\ unheard \in [User -> Nat]
    BY DEF R!SetCommentsProduct_Notify, R!market, RevInv, RevShape, R!TypeOK
  <1>2. PICK note \in R!Note : /\ notes' = Append(notes, note)
                               /\ note.user = revReq[w].about /\ note.type = "comment_product"
    <2> DEFINE n == [user |-> revReq[w].about, type |-> "comment_product", read |-> FALSE]
    <2>1. n \in R!Note /\ n.user = revReq[w].about /\ n.type = "comment_product"
      BY <1>1 DEF R!Word, R!Note
    <2>2. notes' = Append(notes, n)
      BY DEF R!SetCommentsProduct_Notify, R!Notify
    <2> QED
      BY <2>1, <2>2
  <1>3. notes \in Seq(R!Note)
    BY DEF RevInv, RevShape, R!TypeOK
  <1>4. notes' \in Seq(R!Note)
    BY <1>2, <1>3, NoteAppended
  <1>5. RevShape' /\ RevSerial' /\ \A u : Telling(u)' = Telling(u) \ {w}
    BY <1>1, <1>4, ReviewEnds
  <1>6. ASSUME NEW u \in User PROVE Told(u)'
    <2>1. CASE revReq[w].about = u
      <3>1. w \in Telling(u)
        BY <1>1, <2>1 DEF Telling
      <3>2. Cardinality(Telling(u)') = Cardinality(Telling(u)) - 1
        BY <1>5, <3>1, Countable, FS_RemoveElement DEF RevInv
      <3>3. /\ Heard(notes', u) = Heard(notes, u) \cup {Len(notes) + 1}
            /\ Len(notes) + 1 \notin Heard(notes, u)
        BY <1>2, <1>3, <2>1, NoteAppended
      <3>4. Cardinality(Heard(notes', u)) = Cardinality(Heard(notes, u)) + 1
        BY <3>3, Countable, FS_AddElement DEF RevInv
      <3>5. Told(u) /\ unheard[u] \in Nat
        BY <1>1 DEF RevInv, AllTold
      <3> QED
        BY <1>1, <3>2, <3>4, <3>5, Countable DEF RevInv, Told
    <2>2. CASE revReq[w].about # u
      <3>1. Telling(u)' = Telling(u)
        BY <1>5, <2>2 DEF Telling
      <3>2. Heard(notes', u) = Heard(notes, u)
        BY <1>2, <1>3, <2>2, NoteAppended
      <3> QED
        BY <1>1, <3>1, <3>2 DEF RevInv, AllTold, Told
    <2> QED
      BY <2>1, <2>2
  <1> QED
    BY <1>5, <1>6 DEF RevInv, AllTold

LEMMA ReviewAbandoned ==
  ASSUME RevInv, NEW w \in Worker, R!Abandon(w)
  PROVE  RevInv'
  <1>1. /\ revPc[w] # "idle" /\ R!Finish(w) /\ revReq[w] \in R!Word
        /\ UNCHANGED <<seller, order, situation, blocks, words, notes, crossed>>
        /\ unheard' = IF revPc[w] = "comment_saved" THEN [unheard EXCEPT ![revReq[w].about] = @ + 1]
                                                    ELSE unheard
    BY DEF R!Abandon, R!market, RevInv, RevShape
  <1>2. notes' \in Seq(R!Note) /\ unheard \in [User -> Nat] /\ revReq[w].about \in User
    BY <1>1 DEF RevInv, RevShape, R!TypeOK, R!Word
  <1>3. unheard' \in [User -> Nat]
    BY <1>1, <1>2
  <1>4. RevShape' /\ RevSerial' /\ \A u : Telling(u)' = Telling(u) \ {w}
    BY <1>1, <1>2, <1>3, ReviewEnds
  <1>5. ASSUME NEW u \in User PROVE Told(u)'
    <2>1. Told(u)
      BY DEF RevInv, AllTold
    <2>2. CASE revPc[w] = "comment_saved" /\ revReq[w].about = u
      <3>1. w \in Telling(u)
        BY <2>2 DEF Telling
      <3>2. Cardinality(Telling(u)') = Cardinality(Telling(u)) - 1
        BY <1>4, <3>1, Countable, FS_RemoveElement DEF RevInv
      <3>3. unheard'[u] = unheard[u] + 1 /\ unheard[u] \in Nat
        BY <1>1, <1>2, <2>2
      <3> QED
        BY <1>1, <2>1, <3>2, <3>3, Countable DEF RevInv, Told
    <2>3. CASE ~(revPc[w] = "comment_saved" /\ revReq[w].about = u)
      <3>1. Telling(u)' = Telling(u)
        BY <1>4, <2>3 DEF Telling
      <3>2. unheard'[u] = unheard[u]
        BY <1>1, <1>2, <2>3
      <3> QED
        BY <1>1, <2>1, <3>1, <3>2 DEF Told
    <2> QED
      BY <2>2, <2>3
  <1> QED
    BY <1>4, <1>5 DEF RevInv, AllTold

\* Notifications that others add, or read.
LEMMA NotesChange ==
  ASSUME RevInv, "route" \in situation, notes' \in Seq(R!Note),
         UNCHANGED <<seller, order, situation, blocks, words, revPc, revReq, crossed, unheard>>,
         \A u \in User : Heard(notes, u) \subseteq Heard(notes', u)
  PROVE  RevInv'
  <1>1. RevShape'
    BY DEF RevInv, RevShape, R!TypeOK, Justified
  <1>2. RevSerial'
    BY DEF RevInv, RevSerial, R!InFlight, R!IsUserBlocked
  <1>3. ASSUME NEW u \in User PROVE Told(u)'
    <2>1. IsFiniteSet(Heard(notes', u)) /\ Cardinality(Heard(notes', u)) \in Nat
      <3>1. IsFiniteSet(DOMAIN notes')
        BY LenProperties, FS_Interval
      <3> QED
        BY <3>1, FS_Subset, FS_CardinalityType DEF Heard
    <2>2. Cardinality(Heard(notes, u)) <= Cardinality(Heard(notes', u))
      BY <2>1, FS_Subset
    <2>3. Telling(u)' = Telling(u)
      BY DEF Telling
    <2>4. unheard[u] \in Nat /\ Told(u)
      BY DEF RevInv, AllTold, RevShape, R!TypeOK
    <2> QED
      BY <2>1, <2>2, <2>3, <2>4, Countable DEF RevInv, Told
  <1> QED
    BY <1>1, <1>2, <1>3 DEF RevInv, AllTold

LEMMA NoteAdded ==
  ASSUME RevInv, NEW u \in User, NEW type \in {"comment_product", "other"}, R!AddNotification(u, type)
  PROVE  RevInv'
  <1>1. /\ "route" \in situation
        /\ UNCHANGED <<seller, order, situation, blocks, words, revPc, revReq, crossed, unheard>>
        /\ notes \in Seq(R!Note)
    BY DEF R!AddNotification, R!market, RevInv, RevShape, R!TypeOK
  <1>2. PICK note \in R!Note : notes' = Append(notes, note)
    <2> DEFINE n == [user |-> u, type |-> type, read |-> FALSE]
    <2>1. n \in R!Note
      BY DEF R!Note
    <2>2. notes' = Append(notes, n)
      BY DEF R!AddNotification, R!Notify
    <2> QED
      BY <2>1, <2>2
  <1>3. notes' \in Seq(R!Note) /\ \A v \in User : Heard(notes, v) \subseteq Heard(notes', v)
    BY <1>1, <1>2, NoteAppended
  <1> QED
    BY <1>1, <1>3, NotesChange

LEMMA NoteRead ==
  ASSUME RevInv, NEW i \in DOMAIN notes, R!SetReadNotification(i)
  PROVE  RevInv'
  <1>1. /\ "route" \in situation
        /\ UNCHANGED <<seller, order, situation, blocks, words, revPc, revReq, crossed, unheard>>
        /\ notes \in Seq(R!Note)
    BY DEF R!SetReadNotification, R!market, RevInv, RevShape, R!TypeOK
  <1>2. PICK note \in R!Note : note = notes[i]
    BY <1>1
  <1>3. PICK new \in R!Note : /\ new = [note EXCEPT !.read = TRUE]
                              /\ new.user = note.user /\ new.type = note.type
    <2> DEFINE n == [note EXCEPT !.read = TRUE]
    <2>1. n \in R!Note /\ n.user = note.user /\ n.type = note.type
      BY DEF R!Note
    <2> QED
      BY <2>1
  <1>4. notes' = [notes EXCEPT ![i] = new]
    BY <1>2, <1>3 DEF R!SetReadNotification
  <1>5. /\ notes' \in Seq(R!Note) /\ DOMAIN notes' = DOMAIN notes
        /\ \A j \in DOMAIN notes : notes'[j].user = notes[j].user /\ notes'[j].type = notes[j].type
    <2>1. notes' \in Seq(R!Note)
      BY <1>1, <1>4, ExceptSeq
    <2> QED
      BY <1>1, <1>2, <1>3, <1>4, <2>1
  <1>6. \A u \in User : Heard(notes, u) \subseteq Heard(notes', u)
    BY <1>5 DEF Heard
  <1> QED
    BY <1>1, <1>5, <1>6, NotesChange

LEMMA BlockSet ==
  ASSUME RevInv, NEW u \in User, NEW v \in User, R!SetUserBlock(u, v)
  PROVE  RevInv'
  <1>1. /\ "overlap" \in situation \/ \A w \in Worker : revPc[w] = "idle"
        /\ UNCHANGED <<seller, order, situation, words, notes, revPc, revReq, crossed, unheard>>
        /\ blocks' \subseteq User \X User
    BY DEF R!SetUserBlock, R!MayStart, R!AtRest, R!market, RevInv, RevShape, R!TypeOK
  <1>2. RevShape'
    BY <1>1 DEF RevInv, RevShape, R!TypeOK, Justified
  <1>3. AllTold'
    BY <1>1 DEF RevInv, AllTold, Told, Telling
  <1>4. RevSerial'
    BY <1>1 DEF RevInv, RevSerial, R!InFlight
  <1> QED
    BY <1>2, <1>3, <1>4 DEF RevInv

LEMMA ReviewsAlways == Spec => [](part = "reviews" => RevInv)
  <1>1. Init => (part = "reviews" => RevInv)
    <2> SUFFICES ASSUME R!Init PROVE RevInv
      BY DEF Init
    <2> USE DEF R!Init
    <2>1. DOMAIN words = {} /\ DOMAIN notes = {}
      BY EmptySeq, LenProperties
    <2>2. RevShape
      BY <2>1, EmptySeq DEF RevShape, R!TypeOK
    <2>3. ASSUME NEW u \in User PROVE Told(u)
      <3>1. Heard(notes, u) = {} /\ ByOthers(words, u) = {} /\ Telling(u) = {}
        BY <2>1 DEF Heard, ByOthers, Telling
      <3>2. /\ Cardinality(Heard(notes, u)) = 0 /\ Cardinality(ByOthers(words, u)) = 0
            /\ Cardinality(Telling(u)) = 0 /\ unheard[u] = 0
        BY <3>1, FS_EmptySet
      <3> HIDE DEF R!Init
      <3> QED
        BY <3>2 DEF Told
    <2>4. RevSerial
      BY DEF RevSerial, R!InFlight
    <2> QED
      BY <2>2, <2>3, <2>4 DEF RevInv, AllTold
  <1>2. (part = "reviews" => RevInv) /\ [Next]_vars => (part = "reviews" => RevInv)'
    <2> SUFFICES ASSUME part = "reviews" => RevInv, [Next]_vars, part' = "reviews" PROVE RevInv'
      OBVIOUS
    <2>1. RevInv
      BY DEF Next, vars
    <2>2. CASE R!Next
      BY <2>1, <2>2, CommentChecked, CommentSaved, CommentNotified, RateChecked, RateSaved,
         ReviewAbandoned, NoteAdded, NoteRead, BlockSet DEF R!Next
    <2>3. CASE UNCHANGED reviews
      BY <2>1, <2>3 DEF reviews, RevInv, RevShape, AllTold, Told, Telling, RevSerial, Justified,
        R!TypeOK, R!InFlight, R!IsUserBlocked
    <2> QED
      BY <2>2, <2>3 DEF Next, vars
  <1> QED
    BY <1>1, <1>2, PTL DEF Spec

\* For any users, products, finitely many workers and bounds: sellers hear of
\* every comment but those whose request ended right after saving it, rates that
\* name a purchase and a product are justified, and without overlap none crosses
\* a block
\* (setCommentsProduct of ProductsService, RatesService, NotificationsService).
THEOREM ReviewsAlwaysInOrder == Spec => []ReviewsInOrder
  <1>1. RevInv => R!ReviewsInOrder
    <2> SUFFICES ASSUME RevInv PROVE R!ReviewsInOrder
      OBVIOUS
    <2>1. \A u : /\ R!HeardBy(u) = Heard(notes, u) /\ R!CommentsOn(u) = ByOthers(words, u)
                 /\ R!TellingOf(u) = Telling(u)
      BY DEF R!HeardBy, R!CommentsOn, R!TellingOf, Heard, ByOthers, Telling
    <2>2. R!SellersHear
      BY <2>1, ReviewSize DEF R!SellersHear, RevInv, AllTold, Told
    <2>3. R!RatesJustified
      BY DEF RevInv, RevShape, Justified, R!RatesJustified
    <2> QED
      BY <2>2, <2>3 DEF R!ReviewsInOrder, RevInv, RevSerial
  <1> QED
    BY <1>1, ReviewsAlways, PTL DEF ReviewsInOrder

\* The state of every service has its shape, for any users, workers, rows and
\* bounds.
THEOREM ServicesTypeCorrect == Spec => []TypeOK
  <1>1. /\ Sockets => G!TypeOK
        /\ AddressInv => A!TypeOK
        /\ CartInv => C!TypeOK
        /\ SetInv => S!TypeOK
        /\ OfferInv => O!TypeOK
        /\ RevInv => R!TypeOK
    BY DEF Sockets, AddressInv, AddressShape, CartInv, CartShape, SetInv, SetShape, OfferInv, OfferShape,
       RevInv, RevShape
  <1> QED
    BY <1>1, SocketsAlways, AddressesAlways, CartAlways, SettingsAlways, OffersAlways, ReviewsAlways, PTL
       DEF TypeOK
=============================================================================
