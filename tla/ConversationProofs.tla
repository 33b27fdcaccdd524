------------------------- MODULE ConversationProofs -------------------------
(***************************************************************************)
(* Theorems about Conversations for any users, pairs, blocks, workers and  *)
(* bounds, whether or not requests overlap and crash.                      *)
(***************************************************************************)
EXTENDS Conversations, SequenceTheorems, TLAPS

\* What an inserted row does to a table.
LEMMA Insert ==
  ASSUME NEW S, NEW s \in Seq(S), NEW e \in S
  PROVE  /\ Append(s, e) \in Seq(S)
         /\ Len(s) \in Nat /\ Len(s) + 1 \in DOMAIN Append(s, e)
         /\ DOMAIN Append(s, e) = DOMAIN s \cup {Len(s) + 1}
         /\ Len(s) + 1 \notin DOMAIN s
         /\ \A i \in DOMAIN s : Append(s, e)[i] = s[i]
         /\ Append(s, e)[Len(s) + 1] = e
  BY AppendProperties, LenProperties

\* What an updated row does to a table.
LEMMA Update ==
  ASSUME NEW S, NEW s \in Seq(S), NEW c \in DOMAIN s, NEW e \in S
  PROVE  /\ [s EXCEPT ![c] = e] \in Seq(S)
         /\ DOMAIN [s EXCEPT ![c] = e] = DOMAIN s
         /\ [s EXCEPT ![c] = e][c] = e
         /\ \A i \in DOMAIN s : i # c => [s EXCEPT ![c] = e][i] = s[i]
  BY ExceptSeq, LenProperties

\* A row of a table.
LEMMA Row ==
  ASSUME NEW S, NEW s \in Seq(S), NEW c \in DOMAIN s
  PROVE  s[c] \in S /\ c \in Nat
  BY ElementOfSeq, LenProperties

-----------------------------------------------------------------------------
At == {"idle", "block_checked", "not_found", "found", "saved", "read_found"}

\* The control state of the requests.
ReqOK ==
  /\ pc \in [Worker -> At]
  /\ req \in [Worker -> Request \cup {None}]
  /\ \A w \in Worker : (req[w] = None) <=> (pc[w] = "idle")

\* The conversation of a request's pair, and the message it has saved there.
Refs(w) ==
  /\ pc[w] \in {"found", "saved", "read_found"} => req[w].conv \in DOMAIN conversation
  /\ pc[w] \in {"found", "saved"} =>
       conversation[req[w].conv].users = Parties(req[w].pair)
  /\ pc[w] = "saved" =>
       /\ req[w].msg \in DOMAIN message
       /\ message[req[w].msg].conv = req[w].conv
       /\ message[req[w].msg].at = req[w].at

RefInv == TypeOK /\ \A w \in Worker : Refs(w)

\* What changes when worker w's request moves on and the others stay.
Others(w) == \A v \in Worker \ {w} : pc'[v] = pc[v] /\ req'[v] = req[v]

LEMMA StartReq ==
  ASSUME ReqOK, NEW w \in Worker, NEW op \in {"send", "read"}, NEW p \in Pair,
         NEW c \in Nat, NEW now \in Nat, NEW at \in At \ {"idle"}, Start(w, op, p, c, now, at)
  PROVE  /\ ReqOK' /\ Others(w)
         /\ pc'[w] = at /\ req'[w].conv = c /\ req'[w].at = now
  <1> DEFINE r == [op |-> op, pair |-> p, conv |-> c, at |-> now, msg |-> 0]
  <1>1. r \in Request /\ r.conv = c /\ r.at = now
    BY DEF Request
  <1>2. r # None
    BY <1>1, NoneIsNoRequest
  <1>3. req' = [req EXCEPT ![w] = r] /\ pc' = [pc EXCEPT ![w] = at]
    BY DEF Start
  <1> HIDE DEF r
  <1> QED
    BY <1>1, <1>2, <1>3 DEF ReqOK, Others

LEMMA MoveReq ==
  ASSUME ReqOK, NEW w \in Worker, NEW r \in Request, NEW at \in At \ {"idle"},
         req' = [req EXCEPT ![w] = r], Goto(w, at)
  PROVE  ReqOK' /\ Others(w) /\ pc'[w] = at /\ req'[w] = r
  BY NoneIsNoRequest DEF ReqOK, Others, Goto

LEMMA FinishReq ==
  ASSUME ReqOK, NEW w \in Worker, Finish(w)
  PROVE  ReqOK' /\ Others(w) /\ pc'[w] = "idle"
  BY DEF ReqOK, Others, Finish, At

LEMMA RunningReq ==
  ASSUME ReqOK, NEW w \in Worker, pc[w] # "idle"
  PROVE  /\ req[w] \in Request
         /\ req[w].pair \in Pair /\ req[w].conv \in Nat /\ req[w].at \in Nat /\ req[w].msg \in Nat
  BY DEF ReqOK, Request

LEMMA TypeParts == TypeOK <=> /\ ReqOK
                              /\ conversation \in Seq(Conversation) /\ message \in Seq(Message)
                              /\ clock \in 1 .. MaxTime
                              /\ overlaps \in BOOLEAN /\ crashes \in BOOLEAN
  BY DEF TypeOK, ReqOK, At

-----------------------------------------------------------------------------
\* Rows are never deleted, members and messages never change.
Kept ==
  /\ DOMAIN conversation \subseteq DOMAIN conversation'
  /\ \A c \in DOMAIN conversation : conversation'[c].users = conversation[c].users
  /\ DOMAIN message \subseteq DOMAIN message'
  /\ \A i \in DOMAIN message : message'[i] = message[i]

LEMMA RefsKept ==
  ASSUME RefInv, NEW w \in Worker, Others(w), Kept
  PROVE  \A v \in Worker \ {w} : Refs(v)'
  BY DEF RefInv, Refs, Others, Kept

\* The row that CreateConversation inserts.
LEMMA CreateFacts ==
  ASSUME TypeOK, NEW w \in Worker, Send_CreateConversation(w)
  PROVE  /\ ReqOK' /\ Others(w) /\ Kept /\ message' = message /\ clock' = clock
         /\ conversation' \in Seq(Conversation)
         /\ DOMAIN conversation' = DOMAIN conversation \cup {Len(conversation) + 1}
         /\ Len(conversation) + 1 \notin DOMAIN conversation
         /\ \A c \in DOMAIN conversation : conversation'[c] = conversation[c]
         /\ conversation'[Len(conversation) + 1].users = Parties(req[w].pair)
         /\ conversation'[Len(conversation) + 1].last = 0
         /\ conversation'[Len(conversation) + 1].seen = 0
         /\ pc[w] = "not_found" /\ pc'[w] = "found" /\ req'[w].conv = Len(conversation) + 1
         /\ req'[w].pair = req[w].pair /\ req'[w].at = clock /\ read' = read
  <1> DEFINE row == [users |-> Parties(req[w].pair), last |-> 0,
                     updated |-> req[w].at, seen |-> 0]
             r == [req[w] EXCEPT !.conv = Len(conversation) + 1, !.at = clock]
  <1>1. ReqOK /\ pc[w] = "not_found" /\ conversation \in Seq(Conversation) /\ clock \in Nat
    BY TypeParts DEF Send_CreateConversation
  <1>2. req[w] \in Request /\ req[w].pair \in Pair /\ req[w].at \in Nat
    BY <1>1, RunningReq
  <1>3. /\ row \in Conversation /\ row.users = Parties(req[w].pair) /\ row.last = 0
        /\ row.seen = 0
    BY <1>2, PairsOK DEF Conversation, Parties
  <1>4. Len(conversation) + 1 \in Nat
    BY <1>1, LenProperties
  <1>5. /\ r \in Request /\ r.conv = Len(conversation) + 1 /\ r.pair = req[w].pair
        /\ r.at = clock
    BY <1>1, <1>2, <1>4 DEF Request
  <1>6. /\ conversation' = Append(conversation, row) /\ req' = [req EXCEPT ![w] = r]
        /\ Goto(w, "found") /\ UNCHANGED <<message, clock, read>>
    BY DEF Send_CreateConversation
  <1> HIDE DEF row, r
  <1>7. ReqOK' /\ Others(w) /\ pc'[w] = "found" /\ req'[w] = r
    BY <1>1, <1>5, <1>6, MoveReq DEF At
  <1>8. /\ conversation' \in Seq(Conversation)
        /\ DOMAIN conversation' = DOMAIN conversation \cup {Len(conversation) + 1}
        /\ Len(conversation) + 1 \notin DOMAIN conversation
        /\ \A c \in DOMAIN conversation : conversation'[c] = conversation[c]
        /\ conversation'[Len(conversation) + 1] = row
    BY <1>1, <1>3, <1>6, Insert
  <1> QED
    BY <1>1, <1>3, <1>5, <1>6, <1>7, <1>8 DEF Kept

\* The row that SaveMessage inserts.
LEMMA SaveFacts ==
  ASSUME TypeOK, NEW w \in Worker, Send_SaveMessage(w)
  PROVE  /\ ReqOK' /\ Others(w) /\ Kept /\ conversation' = conversation /\ clock' = clock
         /\ message' \in Seq(Message)
         /\ DOMAIN message' = DOMAIN message \cup {Len(message) + 1}
         /\ message'[Len(message) + 1].pair = req[w].pair
         /\ message'[Len(message) + 1].conv = req[w].conv
         /\ message'[Len(message) + 1].at = req[w].at
         /\ pc[w] = "found" /\ pc'[w] = "saved" /\ req'[w].conv = req[w].conv
         /\ req'[w].pair = req[w].pair /\ req'[w].at = req[w].at
         /\ req'[w].msg = Len(message) + 1
         /\ Len(message) + 1 \notin DOMAIN message /\ read' = read
  <1> DEFINE row == [pair |-> req[w].pair, conv |-> req[w].conv, at |-> req[w].at]
             r == [req[w] EXCEPT !.msg = Len(message) + 1]
  <1>1. ReqOK /\ pc[w] = "found" /\ message \in Seq(Message)
    BY TypeParts DEF Send_SaveMessage
  <1>2. req[w] \in Request /\ req[w].pair \in Pair /\ req[w].at \in Nat /\ req[w].conv \in Nat
    BY <1>1, RunningReq
  <1>3. row \in Message /\ row.pair = req[w].pair /\ row.conv = req[w].conv /\ row.at = req[w].at
    BY <1>2 DEF Message
  <1>4. Len(message) + 1 \in Nat
    BY <1>1, LenProperties
  <1>5. /\ r \in Request /\ r.conv = req[w].conv /\ r.pair = req[w].pair /\ r.at = req[w].at
        /\ r.msg = Len(message) + 1
    BY <1>2, <1>4 DEF Request
  <1>6. /\ message' = Append(message, row) /\ req' = [req EXCEPT ![w] = r]
        /\ Goto(w, "saved") /\ UNCHANGED <<conversation, clock, read>>
    BY DEF Send_SaveMessage
  <1> HIDE DEF row, r
  <1>7. ReqOK' /\ Others(w) /\ pc'[w] = "saved" /\ req'[w] = r
    BY <1>1, <1>5, <1>6, MoveReq DEF At
  <1>8. /\ message' \in Seq(Message)
        /\ DOMAIN message' = DOMAIN message \cup {Len(message) + 1}
        /\ Len(message) + 1 \notin DOMAIN message
        /\ \A i \in DOMAIN message : message'[i] = message[i]
        /\ message'[Len(message) + 1] = row
    BY <1>1, <1>3, <1>6, Insert
  <1> QED
    BY <1>1, <1>3, <1>5, <1>6, <1>7, <1>8 DEF Kept

LEMMA SeenRow ==
  ASSUME NEW x \in Conversation, NEW t \in Nat
  PROVE  /\ [x EXCEPT !.seen = t] \in Conversation
         /\ [x EXCEPT !.seen = t].users = x.users
         /\ [x EXCEPT !.seen = t].last = x.last
         /\ [x EXCEPT !.seen = t].updated = x.updated
         /\ [x EXCEPT !.seen = t].seen = t
  BY DEF Conversation

\* The row that UpdateConversation changes.
LEMMA UpdateFacts ==
  ASSUME RefInv, NEW w \in Worker, Send_UpdateConversation(w)
  PROVE  /\ ReqOK' /\ Others(w) /\ Kept /\ message' = message /\ clock' = clock
         /\ pc[w] = "saved" /\ pc'[w] = "idle"
         /\ conversation' \in Seq(Conversation)
         /\ DOMAIN conversation' = DOMAIN conversation
         /\ conversation'[req[w].conv].last = req[w].msg
         /\ conversation'[req[w].conv].updated = req[w].at
         /\ \A c \in DOMAIN conversation : c # req[w].conv => conversation'[c] = conversation[c]
         /\ \A c \in DOMAIN conversation : conversation'[c].seen = conversation[c].seen
         /\ req[w].conv \in DOMAIN conversation /\ read' = read
  <1> DEFINE c == req[w].conv
  <1>1. /\ ReqOK /\ pc[w] = "saved" /\ conversation \in Seq(Conversation)
        /\ Finish(w) /\ UNCHANGED <<message, clock, read>>
    BY TypeParts DEF Send_UpdateConversation, RefInv
  <1>2. c \in DOMAIN conversation
    BY <1>1 DEF RefInv, Refs
  <1>3. PICK u \in Nat, l \in Nat : u = req[w].at /\ l = req[w].msg
    BY <1>1, RunningReq
  <1>4. PICK x \in Conversation : x = conversation[c]
    BY <1>1, <1>2, Row
  <1> DEFINE row == [x EXCEPT !.updated = u, !.last = l]
  <1>5. /\ row \in Conversation /\ row.users = x.users /\ row.last = l /\ row.updated = u
        /\ row.seen = x.seen
    BY DEF Conversation
  <1>6. conversation' = [conversation EXCEPT ![c] = row]
    BY <1>3, <1>4 DEF Send_UpdateConversation
  <1> HIDE DEF c, row
  <1>7. /\ [conversation EXCEPT ![c] = row] \in Seq(Conversation)
        /\ DOMAIN [conversation EXCEPT ![c] = row] = DOMAIN conversation
        /\ [conversation EXCEPT ![c] = row][c] = row
        /\ \A d \in DOMAIN conversation : d # c => [conversation EXCEPT ![c] = row][d] = conversation[d]
    BY <1>1, <1>2, <1>5, Update, Zenon
  <1>8. ReqOK' /\ Others(w) /\ pc'[w] = "idle"
    BY <1>1, FinishReq
  <1> QED
    BY <1>1, <1>2, <1>3, <1>4, <1>5, <1>6, <1>7, <1>8 DEF Kept, c

\* The row that Read_Update changes.
LEMMA ReadFacts ==
  ASSUME RefInv, NEW w \in Worker, Read_Update(w)
  PROVE  /\ ReqOK' /\ Others(w) /\ Kept /\ message' = message /\ clock' = clock
         /\ pc[w] = "read_found" /\ pc'[w] = "idle"
         /\ conversation' \in Seq(Conversation)
         /\ DOMAIN conversation' = DOMAIN conversation
         /\ \A c \in DOMAIN conversation : /\ conversation'[c].last = conversation[c].last
                                           /\ conversation'[c].updated = conversation[c].updated
         /\ req[w].conv \in DOMAIN conversation
         /\ conversation'[req[w].conv].seen = req[w].at
         /\ \A c \in DOMAIN conversation : c # req[w].conv => conversation'[c] = conversation[c]
         /\ req[w].pair[1] \in User
         /\ read' = read \cup ({req[w].pair[1]} \X Shown(req[w].conv))
  <1> DEFINE c == req[w].conv
             row == [conversation[c] EXCEPT !.seen = req[w].at]
  <1>1. /\ ReqOK /\ pc[w] = "read_found" /\ conversation \in Seq(Conversation)
        /\ Finish(w) /\ UNCHANGED <<message, clock>>
        /\ read' = read \cup ({req[w].pair[1]} \X Shown(req[w].conv))
    BY TypeParts DEF Read_Update, RefInv
  <1>2. c \in DOMAIN conversation
    BY <1>1 DEF RefInv, Refs
  <1>3. req[w].at \in Nat /\ req[w].pair[1] \in User
    BY <1>1, RunningReq, PairsOK
  <1>4. conversation[c] \in Conversation
    BY <1>1, <1>2, Row
  <1>5. /\ row \in Conversation /\ row.users = conversation[c].users
        /\ row.last = conversation[c].last /\ row.updated = conversation[c].updated
        /\ row.seen = req[w].at
    BY <1>3, <1>4, SeenRow
  <1>6. conversation' = [conversation EXCEPT ![c] = row]
    BY DEF Read_Update
  <1> HIDE DEF c, row
  <1>7. /\ [conversation EXCEPT ![c] = row] \in Seq(Conversation)
        /\ DOMAIN [conversation EXCEPT ![c] = row] = DOMAIN conversation
        /\ [conversation EXCEPT ![c] = row][c] = row
        /\ \A d \in DOMAIN conversation : d # c => [conversation EXCEPT ![c] = row][d] = conversation[d]
    BY <1>1, <1>2, <1>5, Update, Zenon
  <1>8. ReqOK' /\ Others(w) /\ pc'[w] = "idle"
    BY <1>1, FinishReq
  <1> QED
    BY <1>1, <1>2, <1>3, <1>5, <1>6, <1>7, <1>8 DEF Kept, c

-----------------------------------------------------------------------------
Inv == RefInv /\ MessagesInTheirConversation /\ EveryConversationListed

\* A message is found by its number, which is not 0.
LEMMA MessageIds == ASSUME TypeOK PROVE 0 \notin DOMAIN message
  BY TypeParts, LenProperties

\* A request that moves on without touching the tables.
LEMMA RequestStep ==
  ASSUME Inv, NEW w \in Worker, ReqOK', Others(w), Refs(w)', UNCHANGED <<tables, environment>>,
         clock' \in 1 .. MaxTime,
         crashes \/ \A c \in DOMAIN conversation : Filling(w, c) => Filling(w, c)'
  PROVE  Inv'
  <1>1. conversation' = conversation /\ message' = message /\ overlaps' = overlaps
        /\ crashes' = crashes
    BY DEF tables, environment
  <1>2. Kept
    BY <1>1 DEF Kept
  <1>3. RefInv'
    <2>1. TypeOK'
      BY <1>1, TypeParts DEF Inv, RefInv, TypeOK, ReqOK, At
    <2> QED
      BY <2>1, <1>2, RefsKept DEF Inv, RefInv
  <1>4. MessagesInTheirConversation'
    BY <1>1 DEF Inv, MessagesInTheirConversation
  <1>5. EveryConversationListed'
    <2> SUFFICES ASSUME ~crashes, NEW c \in DOMAIN conversation, conversation[c].last = 0
                 PROVE  \E v \in Worker : Filling(v, c)'
      BY <1>1 DEF EveryConversationListed
    <2>1. PICK v \in Worker : Filling(v, c)
      BY DEF Inv, EveryConversationListed
    <2>2. CASE v = w
      BY <2>1, <2>2
    <2>3. CASE v # w
      BY <2>1, <2>3 DEF Filling, Others
    <2> QED
      BY <2>2, <2>3
  <1> QED
    BY <1>3, <1>4, <1>5 DEF Inv

LEMMA CheckBlockStep ==
  ASSUME Inv, NEW w \in Worker, NEW p \in Pair, Send_CheckBlock(w, p), UNCHANGED environment
  PROVE  Inv'
  <1>1. ReqOK /\ pc[w] = "idle" /\ Start(w, "send", p, 0, 0, "block_checked")
    BY TypeParts DEF Inv, RefInv, Send_CheckBlock, Start
  <1>2. ReqOK' /\ Others(w) /\ pc'[w] = "block_checked"
    BY <1>1, StartReq DEF At
  <1>3. Refs(w)' /\ \A c \in DOMAIN conversation : ~Filling(w, c)
    BY <1>1, <1>2 DEF Refs, Filling
  <1> QED
    BY <1>2, <1>3, RequestStep DEF Send_CheckBlock, Inv, RefInv, TypeOK

LEMMA FindStep ==
  ASSUME Inv, NEW w \in Worker, Send_Find(w), UNCHANGED environment
  PROVE  Inv'
  <1>1. ReqOK /\ pc[w] = "block_checked" /\ clock \in Nat /\ UNCHANGED <<tables, clock>>
    BY TypeParts DEF Inv, RefInv, Send_Find
  <1>2. req[w] \in Request
    BY <1>1, RunningReq
  <1>3. \A c \in DOMAIN conversation : ~Filling(w, c)
    BY <1>1 DEF Filling
  <1>4. ASSUME NEW c \in Between(req[w].pair),
               req' = [req EXCEPT ![w].conv = c, ![w].at = clock], Goto(w, "found")
        PROVE  Inv'
    <2> DEFINE r == [req[w] EXCEPT !.conv = c, !.at = clock]
    <2>1. /\ c \in DOMAIN conversation /\ c \in Nat
          /\ conversation[c].users = Parties(req[w].pair)
      BY TypeParts, LenProperties DEF Between, Inv, RefInv
    <2>2. r \in Request /\ r.conv = c /\ r.pair = req[w].pair
      BY <1>1, <1>2, <2>1 DEF Request
    <2>3. req' = [req EXCEPT ![w] = r]
      BY <1>4
    <2> HIDE DEF r
    <2>4. ReqOK' /\ Others(w) /\ pc'[w] = "found" /\ req'[w] = r
      BY <1>1, <1>4, <2>2, <2>3, MoveReq DEF At
    <2>5. Refs(w)'
      BY <1>1, <2>1, <2>2, <2>4 DEF Refs, tables
    <2> QED
      BY <1>1, <1>3, <2>4, <2>5, RequestStep DEF Inv, RefInv, TypeOK
  <1>5. ASSUME req' = [req EXCEPT ![w].at = clock], Goto(w, "not_found")
        PROVE  Inv'
    <2> DEFINE r == [req[w] EXCEPT !.at = clock]
    <2>1. r \in Request
      BY <1>1, <1>2 DEF Request
    <2>2. req' = [req EXCEPT ![w] = r]
      BY <1>5
    <2> HIDE DEF r
    <2>3. ReqOK' /\ Others(w) /\ pc'[w] = "not_found"
      BY <1>1, <1>5, <2>1, <2>2, MoveReq DEF At
    <2>4. Refs(w)'
      BY <2>3 DEF Refs
    <2> QED
      BY <1>1, <1>3, <2>3, <2>4, RequestStep DEF Inv, RefInv, TypeOK
  <1> QED
    BY <1>4, <1>5 DEF Send_Find

LEMMA ReadFindStep ==
  ASSUME Inv, NEW w \in Worker, NEW p \in Pair, Read_Find(w, p), UNCHANGED environment
  PROVE  Inv'
  <1>1. ReqOK /\ pc[w] = "idle" /\ clock \in Nat /\ UNCHANGED <<tables, clock>>
    BY TypeParts DEF Inv, RefInv, Read_Find, Start
  <1>2. PICK c \in Between(p) : Start(w, "read", p, c, clock, "read_found")
    BY DEF Read_Find
  <1>3. c \in DOMAIN conversation /\ c \in Nat
    BY TypeParts, LenProperties DEF Between, Inv, RefInv
  <1>4. ReqOK' /\ Others(w) /\ pc'[w] = "read_found" /\ req'[w].conv = c
    BY <1>1, <1>2, <1>3, StartReq DEF At
  <1>5. Refs(w)' /\ \A d \in DOMAIN conversation : ~Filling(w, d)
    BY <1>1, <1>3, <1>4 DEF Refs, Filling, tables
  <1> QED
    BY <1>1, <1>4, <1>5, RequestStep DEF Inv, RefInv, TypeOK

LEMMA AbandonStep ==
  ASSUME Inv, NEW w \in Worker, Abandon(w), UNCHANGED environment
  PROVE  Inv'
  <1>1. ReqOK' /\ Others(w) /\ pc'[w] = "idle"
    BY TypeParts, FinishReq DEF Abandon, Inv, RefInv
  <1>2. Refs(w)'
    BY <1>1 DEF Refs
  <1> QED
    BY <1>1, <1>2, RequestStep DEF Abandon, Inv, RefInv, TypeOK

-----------------------------------------------------------------------------
\* The new conversation is empty, and the request is about to fill it.
LEMMA CreateStep ==
  ASSUME Inv, NEW w \in Worker, Send_CreateConversation(w), UNCHANGED environment
  PROVE  Inv'
  <1>0. PICK n : n = Len(conversation) + 1
    OBVIOUS
  <1>1. /\ ReqOK' /\ Others(w) /\ Kept /\ message' = message /\ clock' = clock
        /\ conversation' \in Seq(Conversation)
        /\ DOMAIN conversation' = DOMAIN conversation \cup {n} /\ n \notin DOMAIN conversation
        /\ \A c \in DOMAIN conversation : conversation'[c] = conversation[c]
        /\ conversation'[n].users = Parties(req[w].pair) /\ conversation'[n].last = 0
        /\ pc'[w] = "found" /\ req'[w].conv = n /\ req'[w].pair = req[w].pair
    BY <1>0, CreateFacts DEF Inv, RefInv
  <1>2. overlaps' = overlaps /\ crashes' = crashes
    BY DEF environment
  <1>3. RefInv'
    <2>1. TypeOK'
      BY <1>1, <1>2 DEF Inv, RefInv, TypeOK, ReqOK, At
    <2>2. Refs(w)'
      BY <1>1 DEF Refs
    <2> QED
      BY <1>1, <2>1, <2>2, RefsKept DEF Inv, RefInv
  <1>4. MessagesInTheirConversation'
    BY <1>1 DEF Inv, MessagesInTheirConversation
  <1>5. EveryConversationListed'
    <2>1. Filling(w, n)'
      BY <1>1 DEF Filling
    <2>2. pc[w] = "not_found"
      BY DEF Send_CreateConversation
    <2>3. \A v \in Worker : \A c : Filling(v, c) => Filling(v, c)'
      BY <1>1, <2>2 DEF Filling, Others
    <2> QED
      BY <1>1, <1>2, <2>1, <2>3 DEF Inv, EveryConversationListed
  <1> QED
    BY <1>3, <1>4, <1>5 DEF Inv

\* The new message names the request's conversation.
LEMMA SaveStep ==
  ASSUME Inv, NEW w \in Worker, Send_SaveMessage(w), UNCHANGED environment
  PROVE  Inv'
  <1> DEFINE n == Len(message) + 1
  <1>1. /\ ReqOK' /\ Others(w) /\ Kept /\ conversation' = conversation /\ clock' = clock
        /\ message' \in Seq(Message) /\ DOMAIN message' = DOMAIN message \cup {n}
        /\ message'[n].pair = req[w].pair /\ message'[n].conv = req[w].conv
        /\ message'[n].at = req[w].at
        /\ pc[w] = "found" /\ pc'[w] = "saved" /\ req'[w].conv = req[w].conv
        /\ req'[w].pair = req[w].pair /\ req'[w].at = req[w].at /\ req'[w].msg = n
    BY SaveFacts DEF Inv, RefInv
  <1>2. overlaps' = overlaps /\ crashes' = crashes
    BY DEF environment
  <1>3. req[w].conv \in DOMAIN conversation /\ conversation[req[w].conv].users = Parties(req[w].pair)
    BY <1>1 DEF Inv, RefInv, Refs
  <1> HIDE DEF n
  <1>4. RefInv'
    <2>1. TypeOK'
      BY <1>1, <1>2 DEF Inv, RefInv, TypeOK, ReqOK, At
    <2>2. Refs(w)'
      BY <1>1, <1>3 DEF Refs
    <2> QED
      BY <1>1, <2>1, <2>2, RefsKept DEF Inv, RefInv
  <1>5. MessagesInTheirConversation'
    BY <1>1, <1>3 DEF Inv, MessagesInTheirConversation, Kept
  <1>6. EveryConversationListed'
    <2>1. \A v \in Worker : \A c : Filling(v, c) => Filling(v, c)'
      BY <1>1 DEF Filling, Others
    <2> QED
      BY <1>1, <1>2, <2>1 DEF Inv, EveryConversationListed
  <1> QED
    BY <1>4, <1>5, <1>6 DEF Inv

\* The conversation gets a last message, the one that the request has saved.
LEMMA UpdateStep ==
  ASSUME Inv, NEW w \in Worker, Send_UpdateConversation(w), UNCHANGED environment
  PROVE  Inv'
  <1> DEFINE c == req[w].conv
             i == req[w].msg
  <1>1. /\ ReqOK' /\ Others(w) /\ Kept /\ message' = message /\ clock' = clock
        /\ pc[w] = "saved" /\ pc'[w] = "idle"
        /\ conversation' \in Seq(Conversation) /\ DOMAIN conversation' = DOMAIN conversation
        /\ conversation'[c].last = i /\ conversation'[c].updated = req[w].at
        /\ \A d \in DOMAIN conversation : d # c => conversation'[d] = conversation[d]
    BY UpdateFacts DEF Inv
  <1>2. overlaps' = overlaps /\ crashes' = crashes
    BY DEF environment
  <1>3. /\ c \in DOMAIN conversation /\ i \in DOMAIN message /\ message[i].conv = c
        /\ message[i].at = req[w].at
    BY <1>1 DEF Inv, RefInv, Refs
  <1>4. i # 0
    BY <1>3, MessageIds DEF Inv, RefInv
  <1> HIDE DEF i
  <1>5. RefInv'
    <2>1. TypeOK'
      BY <1>1, <1>2 DEF Inv, RefInv, TypeOK, ReqOK, At
    <2>2. Refs(w)'
      BY <1>1 DEF Refs
    <2> QED
      BY <1>1, <2>1, <2>2, RefsKept DEF Inv, RefInv
  <1>6. MessagesInTheirConversation'
    <2>1. \A d \in DOMAIN conversation : d # c => conversation'[d] = conversation[d]
      BY <1>1
    <2> HIDE DEF c
    <2>2. \A j \in DOMAIN message :
            /\ message[j].conv \in DOMAIN conversation
            /\ conversation'[message[j].conv].users = Parties(message[j].pair)
      BY <1>1 DEF Inv, MessagesInTheirConversation, Kept
    <2>3. \A d \in DOMAIN conversation : conversation'[d].last # 0 =>
            /\ conversation'[d].last \in DOMAIN message
            /\ message[conversation'[d].last].conv = d
            /\ message[conversation'[d].last].at = conversation'[d].updated
      <3> SUFFICES ASSUME NEW d \in DOMAIN conversation, conversation'[d].last # 0
                   PROVE  /\ conversation'[d].last \in DOMAIN message
                          /\ message[conversation'[d].last].conv = d
                          /\ message[conversation'[d].last].at = conversation'[d].updated
        OBVIOUS
      <3>1. CASE d = c
        BY <1>1, <1>3, <3>1
      <3>2. CASE d # c
        BY <2>1, <3>2 DEF Inv, MessagesInTheirConversation
      <3> QED
        BY <3>1, <3>2
    <2> QED
      BY <1>1, <2>2, <2>3 DEF MessagesInTheirConversation
  <1>7. EveryConversationListed'
    <2> SUFFICES ASSUME ~crashes, NEW d \in DOMAIN conversation, conversation'[d].last = 0
                 PROVE  \E v \in Worker : Filling(v, d)'
      BY <1>1, <1>2 DEF EveryConversationListed
    <2>1. d # c /\ conversation[d].last = 0
      BY <1>1, <1>4
    <2>2. PICK v \in Worker : Filling(v, d)
      BY <2>1 DEF Inv, EveryConversationListed
    <2>3. v # w
      BY <2>1, <2>2 DEF Filling
    <2>4. Filling(v, d)'
      BY <1>1, <2>2, <2>3 DEF Filling, Others
    <2> QED
      BY <2>4
  <1> QED
    BY <1>5, <1>6, <1>7 DEF Inv

LEMMA ReadUpdateStep ==
  ASSUME Inv, NEW w \in Worker, Read_Update(w), UNCHANGED environment
  PROVE  Inv'
  <1>1. /\ ReqOK' /\ Others(w) /\ Kept /\ message' = message /\ clock' = clock
        /\ pc[w] = "read_found" /\ pc'[w] = "idle"
        /\ conversation' \in Seq(Conversation) /\ DOMAIN conversation' = DOMAIN conversation
        /\ \A c \in DOMAIN conversation : /\ conversation'[c].last = conversation[c].last
                                          /\ conversation'[c].updated = conversation[c].updated
    BY ReadFacts DEF Inv
  <1>2. overlaps' = overlaps /\ crashes' = crashes
    BY DEF environment
  <1>3. RefInv'
    <2>1. TypeOK'
      BY <1>1, <1>2 DEF Inv, RefInv, TypeOK, ReqOK, At
    <2>2. Refs(w)'
      BY <1>1 DEF Refs
    <2> QED
      BY <1>1, <2>1, <2>2, RefsKept DEF Inv, RefInv
  <1>4. MessagesInTheirConversation'
    BY <1>1 DEF Inv, MessagesInTheirConversation, Kept
  <1>5. EveryConversationListed'
    <2>1. \A v \in Worker : \A c : Filling(v, c) => Filling(v, c)'
      BY <1>1 DEF Filling, Others
    <2> QED
      BY <1>1, <1>2, <2>1 DEF Inv, EveryConversationListed
  <1> QED
    BY <1>3, <1>4, <1>5 DEF Inv

\* A step that touches neither requests nor tables.
LEMMA OtherStep ==
  ASSUME Inv, UNCHANGED <<tables, pc, req, environment>>, clock' \in 1 .. MaxTime
  PROVE  Inv'
  <1>1. conversation' = conversation /\ message' = message /\ overlaps' = overlaps
        /\ crashes' = crashes /\ pc' = pc /\ req' = req
    BY DEF tables, environment
  <1>2. TypeOK'
    BY <1>1 DEF Inv, RefInv, TypeOK
  <1>3. RefInv'
    BY <1>1, <1>2 DEF Inv, RefInv, Refs
  <1>4. MessagesInTheirConversation' /\ EveryConversationListed'
    BY <1>1 DEF Inv, MessagesInTheirConversation, EveryConversationListed, Filling
  <1> QED
    BY <1>3, <1>4 DEF Inv

LEMMA Initially == ASSUME Init PROVE Inv
  <1>1. TypeOK
    BY BoundsOK, EnvironmentsOK, EmptySeq DEF Init, TypeOK
  <1>2. \A w \in Worker : Refs(w)
    BY DEF Init, Refs
  <1>3. MessagesInTheirConversation /\ EveryConversationListed
    BY EmptySeq, LenProperties DEF Init, MessagesInTheirConversation, EveryConversationListed
  <1> QED
    BY <1>1, <1>2, <1>3 DEF Inv, RefInv

LEMMA Inductive == ASSUME Inv, [Next]_vars PROVE Inv'
  <1>0. clock \in 1 .. MaxTime
    BY DEF Inv, RefInv, TypeOK
  <1>1. CASE Next
    <2>0. UNCHANGED environment
      BY <1>1 DEF Next
    <2>1. ASSUME NEW w \in Worker, NEW p \in Pair, Send_CheckBlock(w, p) \/ Read_Find(w, p)
          PROVE  Inv'
      BY <2>0, <2>1, CheckBlockStep, ReadFindStep
    <2>2. ASSUME NEW w \in Worker, Step(w) PROVE Inv'
      BY <2>0, <2>2, FindStep, CreateStep, SaveStep, UpdateStep, ReadUpdateStep DEF Step
    <2>3. ASSUME NEW w \in Worker, Abandon(w) PROVE Inv'
      BY <2>0, <2>3, AbandonStep
    <2>4. CASE Tick
      BY <1>0, <2>0, <2>4, OtherStep, BoundsOK DEF Tick
    <2> QED
      BY <1>1, <2>1, <2>2, <2>3, <2>4 DEF Next
  <1>2. CASE UNCHANGED vars
    BY <1>0, <1>2, OtherStep DEF vars, tables, environment
  <1> QED
    BY <1>1, <1>2

-----------------------------------------------------------------------------
THEOREM InvAlways == Spec => []Inv
  <1>1. Init => Inv
    BY Initially
  <1>2. Inv /\ [Next]_vars => Inv'
    BY Inductive
  <1> QED
    BY <1>1, <1>2, PTL DEF Spec

\* The tables and the requests keep their shape (the entities Conversation and
\* Message, and the variables of the two handlers).
THEOREM ConversationTypeCorrect == Spec => []TypeOK
  <1>1. Inv => TypeOK
    BY DEF Inv, RefInv
  <1> QED
    BY <1>1, InvAlways, PTL

\* However many requests overlap and crash, sendMessage puts a message into a
\* conversation of its two parties and of nobody else, and the last message of
\* a conversation is one of its own, with the time of its update.
THEOREM MessagesWellPlaced == Spec => []MessagesInTheirConversation
  <1>1. Inv => MessagesInTheirConversation
    BY DEF Inv
  <1> QED
    BY <1>1, InvAlways, PTL

\* Unless a request dies, a conversation without a last message, which
\* getListConversation cannot list, has its first message on the way.
THEOREM ConversationsListed == Spec => []EveryConversationListed
  <1>1. Inv => EveryConversationListed
    BY DEF Inv
  <1> QED
    BY <1>1, InvAlways, PTL

-----------------------------------------------------------------------------
(* Requests that do not overlap.                                           *)

\* At most one request is being handled.
Alone == \A v, w \in Worker : pc[v] # "idle" /\ pc[w] # "idle" => v = w

\* What the request being handled has found is still so.
Current(w) ==
  /\ pc[w] # "idle" => req[w].at <= clock
  /\ pc[w] = "not_found" => Between(req[w].pair) = {}
  /\ pc[w] = "found" => conversation[req[w].conv].seen <= req[w].at
  /\ pc[w] = "saved" => \A i \in DOMAIN message : i <= req[w].msg
  /\ pc[w] = "read_found" =>
       \A i \in DOMAIN message : message[i].conv = req[w].conv => message[i].at <= req[w].at

OnePerPair ==
  \A c, d \in DOMAIN conversation : conversation[c].users = conversation[d].users => c = d

\* No row bears a time that is still to come.
TimesPast ==
  /\ \A c \in DOMAIN conversation : conversation[c].seen <= clock
  /\ \A i \in DOMAIN message : message[i].at <= clock

\* No message is newer than the last one of its conversation, unless the
\* request that has saved it is still to record it.
Recorded ==
  ~crashes => \A i \in DOMAIN message :
    \/ i <= conversation[message[i].conv].last
    \/ \E w \in Worker : pc[w] = "saved" /\ req[w].conv = message[i].conv

\* What was marked is from before the mark, what was not is from after it.
Marked ==
  /\ read \subseteq User \X DOMAIN message
  /\ \A i \in DOMAIN message :
       IF \E u \in User : <<u, i>> \in read
       THEN message[i].at <= conversation[message[i].conv].seen
       ELSE message[i].at >= conversation[message[i].conv].seen

Sequential ==
  ~overlaps => /\ Alone /\ \A w \in Worker : Current(w)
               /\ OnePerPair /\ TimesPast /\ Recorded /\ Marked

\* The request of w is the only one, before the step and after it.
OnlyOne(w) == Others(w) /\ \A v \in Worker \ {w} : pc[v] = "idle"

LEMMA SequentialFrom ==
  ASSUME NEW w \in Worker, OnlyOne(w), Current(w)', OnePerPair', TimesPast', Recorded', Marked'
  PROVE  Sequential'
  BY DEF Sequential, OnlyOne, Others, Alone, Current

\* Rows have ids and times that are numbers.
LEMMA Numbers ==
  ASSUME Inv
  PROVE  /\ clock \in Nat
         /\ \A c \in DOMAIN conversation :
              c \in Nat /\ conversation[c].seen \in Nat /\ conversation[c].last \in Nat
         /\ \A i \in DOMAIN message :
              /\ i \in Nat /\ message[i].at \in Nat /\ message[i].conv \in DOMAIN conversation
         /\ DOMAIN message = 1 .. Len(message) /\ Len(message) \in Nat
  <1>1. TypeOK /\ MessagesInTheirConversation
    BY DEF Inv, RefInv
  <1>2. clock \in Nat /\ conversation \in Seq(Conversation) /\ message \in Seq(Message)
    BY <1>1 DEF TypeOK
  <1>3. /\ \A c \in DOMAIN conversation : conversation[c] \in Conversation /\ c \in Nat
        /\ \A i \in DOMAIN message : message[i] \in Message /\ i \in Nat
    BY <1>2, Row
  <1> QED
    BY <1>1, <1>2, <1>3, LenProperties DEF Conversation, Message, MessagesInTheirConversation

\* A step of the only request that leaves the tables alone.
LEMMA SequentialKept ==
  ASSUME Inv, Sequential, ~overlaps, NEW w \in Worker, OnlyOne(w), Current(w)',
         UNCHANGED <<tables, clock, read, environment>>, crashes \/ pc[w] # "saved"
  PROVE  Sequential'
  <1>1. /\ conversation' = conversation /\ message' = message /\ clock' = clock
        /\ read' = read /\ crashes' = crashes
    BY DEF tables, environment
  <1>2. OnePerPair' /\ TimesPast' /\ Marked'
    BY <1>1 DEF Sequential, OnePerPair, TimesPast, Marked
  <1>3. Recorded'
    BY <1>1 DEF Sequential, Recorded, OnlyOne
  <1> QED
    BY <1>2, <1>3, SequentialFrom

LEMMA CheckBlockSequential ==
  ASSUME Inv, Sequential, ~overlaps, NEW w \in Worker, NEW p \in Pair, Send_CheckBlock(w, p),
         UNCHANGED environment
  PROVE  Sequential'
  <1>1. /\ ReqOK /\ pc[w] = "idle" /\ \A v \in Worker : pc[v] = "idle"
        /\ Start(w, "send", p, 0, 0, "block_checked") /\ UNCHANGED <<tables, clock, read>>
    BY TypeParts DEF Inv, RefInv, Send_CheckBlock, Start
  <1>2. Others(w) /\ pc'[w] = "block_checked" /\ req'[w].at = 0
    BY <1>1, StartReq DEF At
  <1>3. OnlyOne(w) /\ Current(w)'
    BY <1>1, <1>2, Numbers DEF OnlyOne, Current
  <1> QED
    BY <1>1, <1>3, SequentialKept

LEMMA ReadFindSequential ==
  ASSUME Inv, Sequential, ~overlaps, NEW w \in Worker, NEW p \in Pair, Read_Find(w, p),
         UNCHANGED environment
  PROVE  Sequential'
  <1>1. /\ ReqOK /\ pc[w] = "idle" /\ \A v \in Worker : pc[v] = "idle"
        /\ clock \in Nat /\ UNCHANGED <<tables, clock, read>>
    BY TypeParts DEF Inv, RefInv, Read_Find, Start
  <1>2. PICK c \in Between(p) : Start(w, "read", p, c, clock, "read_found")
    BY DEF Read_Find
  <1>3. c \in Nat
    BY Numbers DEF Between
  <1>4. Others(w) /\ pc'[w] = "read_found" /\ req'[w].at = clock
    BY <1>1, <1>2, <1>3, StartReq DEF At
  <1>5. OnlyOne(w)
    BY <1>1, <1>4 DEF OnlyOne
  <1>6. Current(w)'
    BY <1>1, <1>4, Numbers DEF Current, Sequential, TimesPast, tables
  <1> QED
    BY <1>1, <1>5, <1>6, SequentialKept

LEMMA FindSequential ==
  ASSUME Inv, Sequential, ~overlaps, NEW w \in Worker, Send_Find(w), UNCHANGED environment
  PROVE  Sequential'
  <1>1. /\ ReqOK /\ pc[w] = "block_checked" /\ clock \in Nat
        /\ UNCHANGED <<tables, clock, read>>
    BY TypeParts DEF Inv, RefInv, Send_Find
  <1>2. req[w] \in Request /\ \A v \in Worker \ {w} : pc[v] = "idle"
    BY <1>1, RunningReq DEF Sequential, Alone
  <1>3. ASSUME NEW c \in Between(req[w].pair),
               req' = [req EXCEPT ![w].conv = c, ![w].at = clock], Goto(w, "found")
        PROVE  OnlyOne(w) /\ Current(w)'
    <2> DEFINE r == [req[w] EXCEPT !.conv = c, !.at = clock]
    <2>1. c \in DOMAIN conversation /\ c \in Nat
      BY Numbers DEF Between
    <2>2. r \in Request /\ r.conv = c /\ r.at = clock
      BY <1>1, <1>2, <2>1 DEF Request
    <2>3. req' = [req EXCEPT ![w] = r]
      BY <1>3
    <2> HIDE DEF r
    <2>4. Others(w) /\ pc'[w] = "found" /\ req'[w] = r
      BY <1>1, <1>3, <2>2, <2>3, MoveReq DEF At
    <2> QED
      BY <1>1, <1>2, <2>1, <2>2, <2>4 DEF OnlyOne, Current, Sequential, TimesPast, tables
  <1>4. ASSUME Between(req[w].pair) = {}, req' = [req EXCEPT ![w].at = clock],
               Goto(w, "not_found")
        PROVE  OnlyOne(w) /\ Current(w)'
    <2> DEFINE r == [req[w] EXCEPT !.at = clock]
    <2>1. r \in Request /\ r.at = clock /\ r.pair = req[w].pair
      BY <1>1, <1>2 DEF Request
    <2>2. req' = [req EXCEPT ![w] = r]
      BY <1>4
    <2> HIDE DEF r
    <2>3. Others(w) /\ pc'[w] = "not_found" /\ req'[w] = r
      BY <1>1, <1>4, <2>1, <2>2, MoveReq DEF At
    <2>4. Between(req[w].pair)' = Between(req[w].pair)
      BY <1>1, <2>1, <2>3 DEF Between, tables
    <2>5. req'[w].at <= clock'
      BY <1>1, <2>1, <2>3
    <2> QED
      BY <1>2, <1>4, <2>3, <2>4, <2>5 DEF OnlyOne, Current
  <1>5. OnlyOne(w) /\ Current(w)'
    BY <1>3, <1>4 DEF Send_Find
  <1> QED
    BY <1>1, <1>5, SequentialKept

LEMMA AbandonSequential ==
  ASSUME Inv, Sequential, ~overlaps, NEW w \in Worker, Abandon(w), UNCHANGED environment
  PROVE  Sequential'
  <1>1. Others(w) /\ pc'[w] = "idle" /\ pc[w] # "idle" /\ crashes
        /\ UNCHANGED <<tables, clock, read>>
    BY TypeParts, FinishReq DEF Abandon, Inv, RefInv
  <1>2. OnlyOne(w) /\ Current(w)'
    BY <1>1 DEF OnlyOne, Current, Sequential, Alone
  <1> QED
    BY <1>1, <1>2, SequentialKept

-----------------------------------------------------------------------------
\* The pair had no conversation when it was looked for, and nobody has opened one since.
LEMMA CreateSequential ==
  ASSUME Inv, Sequential, ~overlaps, NEW w \in Worker, Send_CreateConversation(w),
         UNCHANGED environment
  PROVE  Sequential'
  <1>0. PICK n : n = Len(conversation) + 1
    OBVIOUS
  <1>1. /\ Others(w) /\ message' = message /\ clock' = clock /\ read' = read
        /\ DOMAIN conversation' = DOMAIN conversation \cup {n} /\ n \notin DOMAIN conversation
        /\ \A c \in DOMAIN conversation : conversation'[c] = conversation[c]
        /\ conversation'[n].users = Parties(req[w].pair) /\ conversation'[n].seen = 0
        /\ pc[w] = "not_found" /\ pc'[w] = "found" /\ req'[w].conv = n /\ req'[w].at = clock
    BY <1>0, CreateFacts DEF Inv, RefInv
  <1>2. crashes' = crashes /\ clock \in Nat
    BY Numbers DEF environment
  <1>3. OnlyOne(w)
    BY <1>1 DEF OnlyOne, Sequential, Alone
  <1>4. Current(w)'
    BY <1>1, <1>2 DEF Current
  <1>5. OnePerPair'
    <2>1. \A c \in DOMAIN conversation : conversation[c].users # Parties(req[w].pair)
      BY <1>1 DEF Sequential, Current, Between
    <2> QED
      BY <1>1, <2>1 DEF Sequential, OnePerPair
  <1>6. TimesPast'
    BY <1>1, <1>2 DEF Sequential, TimesPast
  <1>7. Recorded'
    BY <1>1, <1>2, Numbers DEF Sequential, Recorded, Others
  <1>8. Marked'
    BY <1>1, Numbers DEF Sequential, Marked
  <1> QED
    BY <1>3, <1>4, <1>5, <1>6, <1>7, <1>8, SequentialFrom

\* The new message is the newest of all, and of the time of the last mark or later.
LEMMA SaveSequential ==
  ASSUME Inv, Sequential, ~overlaps, NEW w \in Worker, Send_SaveMessage(w),
         UNCHANGED environment
  PROVE  Sequential'
  <1>0. PICK n \in Nat : n = Len(message) + 1
    BY Numbers
  <1>1. /\ Others(w) /\ Kept /\ conversation' = conversation /\ clock' = clock /\ read' = read
        /\ DOMAIN message' = DOMAIN message \cup {n} /\ n \notin DOMAIN message
        /\ message'[n].conv = req[w].conv /\ message'[n].at = req[w].at
        /\ pc[w] = "found" /\ pc'[w] = "saved" /\ req'[w].conv = req[w].conv
        /\ req'[w].at = req[w].at /\ req'[w].msg = n
    BY <1>0, SaveFacts DEF Inv, RefInv
  <1>2. /\ crashes' = crashes /\ req[w].conv \in DOMAIN conversation
        /\ \A i \in DOMAIN message : message'[i] = message[i]
        /\ req[w].at <= clock /\ conversation[req[w].conv].seen <= req[w].at
    BY <1>1 DEF environment, Inv, RefInv, Refs, Kept, Sequential, Current
  <1>3. OnlyOne(w)
    BY <1>1 DEF OnlyOne, Sequential, Alone
  <1>4. Current(w)'
    <2>1. \A i \in DOMAIN message' : i <= n
      BY <1>0, <1>1, Numbers
    <2> QED
      BY <1>1, <1>2, <2>1 DEF Current
  <1>5. OnePerPair'
    BY <1>1 DEF Sequential, OnePerPair
  <1>6. TimesPast'
    BY <1>1, <1>2 DEF Sequential, TimesPast
  <1>7. Recorded'
    BY <1>1, <1>2, <1>3, Numbers DEF Sequential, Recorded, OnlyOne
  <1>8. Marked'
    <2>1. read \subseteq User \X DOMAIN message
      BY DEF Sequential, Marked
    <2>2. \A u \in User : <<u, n>> \notin read
      BY <1>1, <2>1
    <2>3. req[w].at \in Nat
      BY <1>1, RunningReq, TypeParts DEF Inv, RefInv
    <2>4. message'[n].at >= conversation'[message'[n].conv].seen
      BY <1>1, <1>2, <2>3, Numbers
    <2> QED
      BY <1>1, <1>2, <2>1, <2>2, <2>4 DEF Sequential, Marked
  <1> QED
    BY <1>3, <1>4, <1>5, <1>6, <1>7, <1>8, SequentialFrom

\* The newest message of all becomes the last of its conversation.
LEMMA UpdateSequential ==
  ASSUME Inv, Sequential, ~overlaps, NEW w \in Worker, Send_UpdateConversation(w),
         UNCHANGED environment
  PROVE  Sequential'
  <1>1. /\ Others(w) /\ Kept /\ message' = message /\ clock' = clock /\ read' = read
        /\ pc[w] = "saved" /\ pc'[w] = "idle"
        /\ DOMAIN conversation' = DOMAIN conversation /\ req[w].conv \in DOMAIN conversation
        /\ conversation'[req[w].conv].last = req[w].msg
        /\ \A d \in DOMAIN conversation : d # req[w].conv => conversation'[d] = conversation[d]
        /\ \A d \in DOMAIN conversation : conversation'[d].seen = conversation[d].seen
    BY UpdateFacts DEF Inv
  <1>2. crashes' = crashes
    BY DEF environment
  <1>3. OnlyOne(w)
    BY <1>1 DEF OnlyOne, Sequential, Alone
  <1>4. Current(w)'
    BY <1>1 DEF Current
  <1>5. OnePerPair'
    BY <1>1 DEF Sequential, OnePerPair, Kept
  <1>6. TimesPast'
    BY <1>1 DEF Sequential, TimesPast
  <1>7. Recorded'
    <2>1. \A i \in DOMAIN message : i <= req[w].msg
      BY <1>1 DEF Sequential, Current
    <2> QED
      BY <1>1, <1>2, <1>3, <2>1, Numbers DEF Sequential, Recorded, OnlyOne
  <1>8. Marked'
    BY <1>1, Numbers DEF Sequential, Marked
  <1> QED
    BY <1>3, <1>4, <1>5, <1>6, <1>7, <1>8, SequentialFrom

\* Every message of the conversation was there when the time of the mark was read.
LEMMA ReadUpdateSequential ==
  ASSUME Inv, Sequential, ~overlaps, NEW w \in Worker, Read_Update(w), UNCHANGED environment
  PROVE  Sequential'
  <1> DEFINE c == req[w].conv
             reader == req[w].pair[1]
  <1>1. /\ Others(w) /\ Kept /\ message' = message /\ clock' = clock
        /\ pc[w] = "read_found" /\ pc'[w] = "idle"
        /\ DOMAIN conversation' = DOMAIN conversation /\ c \in DOMAIN conversation
        /\ \A d \in DOMAIN conversation : conversation'[d].last = conversation[d].last
        /\ conversation'[c].seen = req[w].at
        /\ \A d \in DOMAIN conversation : d # c => conversation'[d] = conversation[d]
        /\ reader \in User /\ read' = read \cup ({reader} \X Shown(c))
    BY ReadFacts DEF Inv
  <1>2. /\ crashes' = crashes /\ req[w].at <= clock
        /\ \A i \in DOMAIN message : message[i].conv = c => message[i].at <= req[w].at
    BY <1>1 DEF environment, Sequential, Current
  <1> HIDE DEF c, reader
  <1>3. OnlyOne(w)
    BY <1>1 DEF OnlyOne, Sequential, Alone
  <1>4. Current(w)'
    BY <1>1 DEF Current
  <1>5. OnePerPair'
    BY <1>1 DEF Sequential, OnePerPair, Kept
  <1>6. TimesPast'
    BY <1>1, <1>2 DEF Sequential, TimesPast
  <1>7. Recorded'
    BY <1>1, <1>2, <1>3, Numbers DEF Sequential, Recorded, OnlyOne
  <1>8. Marked'
    <2>1. read' \subseteq User \X DOMAIN message
      BY <1>1 DEF Sequential, Marked, Shown
    <2>2. ASSUME NEW i \in DOMAIN message, message[i].conv = c
          PROVE  (\E u \in User : <<u, i>> \in read') /\ message[i].at <= conversation'[c].seen
      BY <1>1, <1>2, <2>2 DEF Shown
    <2>3. ASSUME NEW i \in DOMAIN message, message[i].conv # c
          PROVE  /\ \A u \in User : <<u, i>> \in read' <=> <<u, i>> \in read
                 /\ conversation'[message[i].conv] = conversation[message[i].conv]
      BY <1>1, <2>3, Numbers DEF Shown
    <2> QED
      BY <1>1, <2>1, <2>2, <2>3 DEF Sequential, Marked
  <1> QED
    BY <1>3, <1>4, <1>5, <1>6, <1>7, <1>8, SequentialFrom

LEMMA TickSequential ==
  ASSUME Inv, Sequential, ~overlaps, Tick \/ UNCHANGED vars, UNCHANGED environment
  PROVE  Sequential'
  <1>1. /\ conversation' = conversation /\ message' = message /\ pc' = pc /\ req' = req
        /\ read' = read /\ crashes' = crashes /\ clock' \in Nat /\ clock <= clock'
    BY Numbers DEF Tick, vars, tables, environment
  <1>2. \A w \in Worker : Current(w)'
    <2> SUFFICES ASSUME NEW w \in Worker PROVE Current(w)'
      OBVIOUS
    <2>1. pc[w] # "idle" => req[w].at \in Nat
      BY RunningReq, TypeParts DEF Inv, RefInv
    <2>2. pc[w] # "idle" => req[w].at <= clock'
      BY <1>1, <2>1, Numbers DEF Sequential, Current
    <2>3. Between(req[w].pair)' = Between(req[w].pair)
      BY <1>1 DEF Between
    <2> QED
      BY <1>1, <2>2, <2>3 DEF Sequential, Current
  <1>3. TimesPast'
    BY <1>1, Numbers DEF Sequential, TimesPast
  <1>4. Alone' /\ OnePerPair' /\ Recorded' /\ Marked'
    BY <1>1 DEF Sequential, Alone, OnePerPair, Recorded, Marked
  <1> QED
    BY <1>2, <1>3, <1>4 DEF Sequential

LEMMA InitSequential == ASSUME Init PROVE Sequential
  BY EmptySeq, LenProperties
     DEF Init, Sequential, Alone, Current, OnePerPair, TimesPast, Recorded, Marked

LEMMA InductiveSequential == ASSUME Inv, Sequential, [Next]_vars PROVE Sequential'
  <1>0. UNCHANGED environment
    BY DEF Next, vars, environment
  <1>1. CASE overlaps
    BY <1>0, <1>1 DEF Sequential, environment
  <1>2. CASE ~overlaps
    <2>1. ASSUME NEW w \in Worker, NEW p \in Pair, Send_CheckBlock(w, p) \/ Read_Find(w, p)
          PROVE  Sequential'
      BY <1>0, <1>2, <2>1, CheckBlockSequential, ReadFindSequential
    <2>2. ASSUME NEW w \in Worker, Step(w) PROVE Sequential'
      BY <1>0, <1>2, <2>2, FindSequential, CreateSequential, SaveSequential, UpdateSequential,
         ReadUpdateSequential DEF Step
    <2>3. ASSUME NEW w \in Worker, Abandon(w) PROVE Sequential'
      BY <1>0, <1>2, <2>3, AbandonSequential
    <2>4. CASE Tick \/ UNCHANGED vars
      BY <1>0, <1>2, <2>4, TickSequential
    <2> QED
      BY <2>1, <2>2, <2>3, <2>4 DEF Next
  <1> QED
    BY <1>1, <1>2

THEOREM SequentialAlways == Spec => []Sequential
  <1>1. Init => Sequential
    BY InitSequential
  <1>2. Inv /\ Sequential /\ [Next]_vars => Sequential'
    BY InductiveSequential
  <1> QED
    BY <1>1, <1>2, InvAlways, PTL DEF Spec

\* Requests that do not overlap, even if they crash, never open a second
\* conversation for a pair: sendMessage finds the one that is there.
THEOREM PairsMeetOnce == Spec => []OneConversationPerPair
  <1>1. Sequential => OneConversationPerPair
    BY DEF Sequential, OnePerPair, OneConversationPerPair
  <1> QED
    BY <1>1, SequentialAlways, PTL

\* When requests neither overlap nor crash, the last message of a conversation
\* at rest, which getListConversation shows, is its newest.
THEOREM NewestShown == Spec => []LastMessageIsNewest
  <1>1. Inv /\ Sequential => LastMessageIsNewest
    BY DEF Sequential, Recorded, LastMessageIsNewest, Filling, Shown
  <1> QED
    BY <1>1, InvAlways, SequentialAlways, PTL

\* When requests do not overlap, setReadMessage leaves no message unread that
\* it has shown, and a message stays unread until then.
THEOREM UnreadTold == Spec => []UnreadUntilMarked
  <1>1. Inv /\ Sequential => UnreadUntilMarked
    <2> SUFFICES ASSUME Inv, Sequential, ~overlaps, NEW i \in DOMAIN message
                 PROVE  IF \E u \in User : <<u, i>> \in read THEN ~Unread(i)
                        ELSE Unread(i) \/ message[i].at = conversation[message[i].conv].seen
      BY DEF UnreadUntilMarked
    <2>1. message[i].at \in Nat /\ conversation[message[i].conv].seen \in Nat
      BY Numbers
    <2>2. IF \E u \in User : <<u, i>> \in read
          THEN message[i].at <= conversation[message[i].conv].seen
          ELSE message[i].at >= conversation[message[i].conv].seen
      BY DEF Sequential, Marked
    <2> QED
      BY <2>1, <2>2 DEF Unread
  <1> QED
    BY <1>1, InvAlways, SequentialAlways, PTL
=============================================================================
