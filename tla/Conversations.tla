--------------------------- MODULE Conversations ---------------------------
(***************************************************************************)
(* Direct messages: ConversationsService.sendMessage and setReadMessage,   *)
(* over the tables conversations and messages.                             *)
(*                                                                         *)
(* Every query is a step and no handler opens a transaction; pc[w] names   *)
(* the last query that worker w, a request being handled, has completed.   *)
(* A handler reads the clock when it continues after a query, so the time  *)
(* it writes is that of its last step.  The environment decides at the     *)
(* start whether requests overlap and whether they may end early.          *)
(***************************************************************************)
EXTENDS Naturals, Sequences

CONSTANTS
  User,         \* user ids
  Pair,         \* pairs <<sender, receiver>> that write to each other
  Blocks,       \* user_blocks, as sendMessage finds it: pairs <<blocker, blocked>>
  Worker,       \* requests that may be in flight at the same time
  Environments, \* combinations of <<overlaps, crashes>> that may occur
  MaxMessages,  \* bound: messages that are ever sent
  MaxTime,      \* bound: seconds
  None          \* no request

ASSUME PairsOK == /\ Pair \subseteq {p \in User \X User : p[1] # p[2]}
                  /\ Blocks \subseteq User \X User
ASSUME EnvironmentsOK == Environments \subseteq BOOLEAN \X BOOLEAN
ASSUME BoundsOK == MaxMessages \in Nat /\ MaxTime \in Nat \ {0}

Parties(p) == {p[1], p[2]}

\* 0 stands for NULL: no last message, never read.
Conversation == [users : SUBSET User, last : Nat, updated : Nat, seen : Nat]
Message == [pair : Pair, conv : Nat, at : Nat]
Request == [op : {"send", "read"}, pair : Pair, conv : Nat, at : Nat, msg : Nat]

ASSUME NoneIsNoRequest == None \notin Request

VARIABLES
  conversation,  \* conversations by id
  message,       \* messages by id; pair is <<sender, receiver>>
  clock,         \* seconds
  pc, req,       \* per worker: last completed query, request
  overlaps,      \* requests may overlap
  crashes,       \* requests may end between two queries
  read           \* history: <<user, message>> for what user was shown when marking as read

tables == <<conversation, message>>
environment == <<overlaps, crashes>>
vars == <<conversation, message, clock, pc, req, overlaps, crashes, read>>

Init ==
  /\ conversation = <<>> /\ message = <<>>
  /\ clock = 1
  /\ pc = [w \in Worker |-> "idle"]
  /\ req = [w \in Worker |-> None]
  /\ \E e \in Environments : overlaps = e[1] /\ crashes = e[2]
  /\ read = {}

-----------------------------------------------------------------------------
Start(w, op, p, conv, now, at) ==
  /\ pc[w] = "idle"
  /\ \A v \in Worker : pc[v] = "idle" \/ overlaps
  /\ req' = [req EXCEPT ![w] = [op |-> op, pair |-> p, conv |-> conv, at |-> now, msg |-> 0]]
  /\ pc' = [pc EXCEPT ![w] = at]

Goto(w, at) == pc' = [pc EXCEPT ![w] = at]

Finish(w) == pc' = [pc EXCEPT ![w] = "idle"] /\ req' = [req EXCEPT ![w] = None]

Abandon(w) ==
  /\ crashes
  /\ pc[w] # "idle"
  /\ Finish(w)
  /\ UNCHANGED <<tables, clock, read>>

\* Mutant: one common member is enough, as without the HAVING clause.
Between_Any(p) == {c \in DOMAIN conversation : Parties(p) \cap conversation[c].users # {}}

\* findConversationBetweenUsers; if there are several the query returns any.
Between(p) == {c \in DOMAIN conversation : Parties(p) = conversation[c].users}

-----------------------------------------------------------------------------
(* sendMessage                                                             *)

\* NOT_ACCESS if the sender has blocked the receiver.
Send_CheckBlock(w, p) ==
  /\ p \notin Blocks
  /\ Start(w, "send", p, 0, 0, "block_checked")
  /\ UNCHANGED <<tables, clock, read>>

\* Mutant: a new conversation for every message.
Send_Find_Never(w) ==
  /\ pc[w] = "block_checked"
  /\ req' = [req EXCEPT ![w].at = clock]
  /\ Goto(w, "not_found")
  /\ UNCHANGED <<tables, clock, read>>

Send_Find(w) ==
  /\ pc[w] = "block_checked"
  /\ \/ \E c \in Between(req[w].pair) :
          /\ req' = [req EXCEPT ![w].conv = c, ![w].at = clock]
          /\ Goto(w, "found")
     \/ /\ Between(req[w].pair) = {}
        /\ req' = [req EXCEPT ![w].at = clock]
        /\ Goto(w, "not_found")
  /\ UNCHANGED <<tables, clock, read>>

\* Mutant: the request goes on before the id of the new row is known.
Send_CreateConversation_Unfinished(w) ==
  /\ pc[w] = "not_found"
  /\ conversation' = Append(conversation, [users |-> Parties(req[w].pair), last |-> 0,
                                           updated |-> req[w].at, seen |-> 0])
  /\ req' = [req EXCEPT ![w].conv = None, ![w].at = clock]
  /\ Goto(w, "found")
  /\ UNCHANGED <<message, clock, read>>

\* The conversation and its two members are inserted in one transaction.
Send_CreateConversation(w) ==
  /\ pc[w] = "not_found"
  /\ conversation' = Append(conversation, [users |-> Parties(req[w].pair), last |-> 0,
                                           updated |-> req[w].at, seen |-> 0])
  /\ req' = [req EXCEPT ![w].conv = Len(conversation) + 1, ![w].at = clock]
  /\ Goto(w, "found")
  /\ UNCHANGED <<message, clock, read>>

Send_SaveMessage(w) ==
  /\ pc[w] = "found"
  /\ Len(message) < MaxMessages
  /\ message' = Append(message, [pair |-> req[w].pair, conv |-> req[w].conv, at |-> req[w].at])
  /\ req' = [req EXCEPT ![w].msg = Len(message) + 1]
  /\ Goto(w, "saved")
  /\ UNCHANGED <<conversation, clock, read>>

\* Mutant: a last message that is there already is kept.
Send_UpdateConversation_FirstOnly(w) ==
  /\ pc[w] = "saved"
  /\ conversation' = [conversation EXCEPT ![req[w].conv].last = IF @ = 0 THEN req[w].msg ELSE @]
  /\ Finish(w)
  /\ UNCHANGED <<message, clock, read>>

\* Mutant: only the time is updated.
Send_UpdateConversation_TimeOnly(w) ==
  /\ pc[w] = "saved"
  /\ conversation' = [conversation EXCEPT ![req[w].conv].updated = req[w].at]
  /\ Finish(w)
  /\ UNCHANGED <<message, clock, read>>

Send_UpdateConversation(w) ==
  /\ pc[w] = "saved"
  /\ conversation' = [conversation EXCEPT ![req[w].conv].updated = req[w].at,
                                          ![req[w].conv].last = req[w].msg]
  /\ Finish(w)
  /\ UNCHANGED <<message, clock, read>>

-----------------------------------------------------------------------------
(* setReadMessage, by p[1] for the messages of p[2]                        *)

\* Without a conversation there is nothing to do.
Read_Find(w, p) ==
  /\ \E c \in Between(p) : Start(w, "read", p, c, clock, "read_found")
  /\ UNCHANGED <<tables, clock, read>>

Shown(c) == {i \in DOMAIN message : message[i].conv = c}

\* Mutant: the time is written to the other column.
Read_Update_OtherColumn(w) ==
  /\ pc[w] = "read_found"
  /\ conversation' = [conversation EXCEPT ![req[w].conv].updated = req[w].at]
  /\ read' = read \cup ({req[w].pair[1]} \X Shown(req[w].conv))
  /\ Finish(w)
  /\ UNCHANGED <<message, clock>>

Read_Update(w) ==
  /\ pc[w] = "read_found"
  /\ conversation' = [conversation EXCEPT ![req[w].conv].seen = req[w].at]
  /\ read' = read \cup ({req[w].pair[1]} \X Shown(req[w].conv))
  /\ Finish(w)
  /\ UNCHANGED <<message, clock>>

-----------------------------------------------------------------------------
Tick ==
  /\ clock < MaxTime
  /\ clock' = clock + 1
  /\ UNCHANGED <<tables, pc, req, read>>

Step(w) ==
  \/ Send_Find(w)
  \/ Send_CreateConversation(w)
  \/ Send_SaveMessage(w)
  \/ Send_UpdateConversation(w)
  \/ Read_Update(w)

Next ==
  /\ \/ \E w \in Worker :
          \/ \E p \in Pair : (Len(message) < MaxMessages /\ Send_CheckBlock(w, p)) \/ Read_Find(w, p)
          \/ Step(w)
          \/ Abandon(w)
     \/ Tick
  /\ UNCHANGED environment

Spec == Init /\ [][Next]_vars

-----------------------------------------------------------------------------
\* Rows and requests have the shape of the entities, and ids refer to rows.
TypeOK ==
  /\ conversation \in Seq(Conversation)
  /\ message \in Seq(Message)
  /\ clock \in 1 .. MaxTime
  /\ pc \in [Worker -> {"idle", "block_checked", "not_found", "found", "saved", "read_found"}]
  /\ req \in [Worker -> Request \cup {None}]
  /\ overlaps \in BOOLEAN /\ crashes \in BOOLEAN
  /\ \A w \in Worker : (req[w] = None) <=> (pc[w] = "idle")

\* However requests overlap and crash, a message lies in a conversation of its
\* sender and receiver and of nobody else, and the last message of a
\* conversation is one of its own and bears the time of its last update.
MessagesInTheirConversation ==
  /\ \A i \in DOMAIN message :
       /\ message[i].conv \in DOMAIN conversation
       /\ conversation[message[i].conv].users = Parties(message[i].pair)
  /\ \A c \in DOMAIN conversation : conversation[c].last # 0 =>
       /\ conversation[c].last \in DOMAIN message
       /\ message[conversation[c].last].conv = c
       /\ message[conversation[c].last].at = conversation[c].updated

\* The message of this conversation is still to be saved or recorded.
Filling(w, c) == pc[w] \in {"found", "saved"} /\ req[w].conv = c

\* Unless a request dies, a conversation without a last message is one whose
\* first message is on its way.  (getListConversation puts the ids of the last
\* messages into an SQL expression that a NULL makes invalid: such a
\* conversation keeps both users from listing any of theirs.)
EveryConversationListed ==
  ~crashes => \A c \in DOMAIN conversation :
    conversation[c].last = 0 => \E w \in Worker : Filling(w, c)

\* Requests that do not overlap never open a second conversation for a pair,
\* even if they crash.
OneConversationPerPair ==
  ~overlaps => \A c, d \in DOMAIN conversation :
    conversation[c].users = conversation[d].users => c = d

\* When nothing overlaps or crashes, the last message of a conversation that is
\* at rest is its newest.
LastMessageIsNewest ==
  ~overlaps /\ ~crashes => \A c \in DOMAIN conversation :
    (\A w \in Worker : ~Filling(w, c)) => \A i \in Shown(c) : i <= conversation[c].last

\* getConversation and getListConversation count a message as new to whoever
\* did not send it.
Unread(i) == message[i].at > conversation[message[i].conv].seen

\* When requests do not overlap, a message is no longer unread once one of the
\* two has marked the conversation as read, and stays unread until then, unless
\* it was sent in the very second of that.
UnreadUntilMarked ==
  ~overlaps => \A i \in DOMAIN message :
    IF \E u \in User : <<u, i>> \in read THEN ~Unread(i)
    ELSE Unread(i) \/ message[i].at = conversation[message[i].conv].seen

\* Marking as read is about the messages of the partner ("user1 reads the
\* messages from user2", set-read-message TC01): a message of an earlier second
\* is read only if its receiver has marked it.
ReadByReceiver ==
  \A i \in DOMAIN message :
    message[i].at < conversation[message[i].conv].seen => <<message[i].pair[2], i>> \in read
=============================================================================
