------------------------------ MODULE Gateway ------------------------------
(***************************************************************************)
(* Who receives the events of a user: the sockets of ConversationsGateway  *)
(* and its map connectedUsers.                                             *)
(*                                                                         *)
(* handleConnection waits for the token and the user before it registers   *)
(* the socket; handleDisconnect runs at once when a socket closes, which   *)
(* may be while handleConnection still waits.  connectedUsers has one      *)
(* entry per user, so a later socket, or the late verification of an       *)
(* earlier one, takes the entry of a socket that is still open.            *)
(***************************************************************************)
CONSTANTS
  User,    \* user ids
  Socket,  \* sockets that are ever opened
  None     \* no user, no socket

VARIABLES
  owner,           \* the user whose token a socket presents
  link,            \* "unused", "open" or "closed"
  stage,           \* how far handleConnection got with a socket
  connectedUsers,  \* the socket that gets a user's events
  lost,            \* history: why an open socket lost its entry to another one
  steady           \* a user's next socket comes in once the last one has closed

vars == <<owner, link, stage, connectedUsers, lost, steady>>

Init ==
  /\ owner = [s \in Socket |-> None]
  /\ link = [s \in Socket |-> "unused"]
  /\ stage = [s \in Socket |-> "none"]
  /\ connectedUsers = [u \in User |-> None]
  /\ lost = [s \in Socket |-> "no"]
  /\ steady \in BOOLEAN

Listening(s) == link[s] = "open" /\ stage[s] = "known"

\* The entry of the owner of s is rewritten: the owner's other open sockets lose it.
Supplant(s, why) ==
  lost' = [t \in Socket |->
             IF t # s /\ owner[t] = owner[s] /\ Listening(t) /\ lost[t] = "no" THEN why ELSE lost[t]]

-----------------------------------------------------------------------------
Connect(s, u) ==
  /\ link[s] = "unused"
  /\ steady => \A t \in Socket : owner[t] = u => link[t] = "closed"
  /\ owner' = [owner EXCEPT ![s] = u]
  /\ link' = [link EXCEPT ![s] = "open"]
  /\ stage' = [stage EXCEPT ![s] = "verifying"]
  /\ UNCHANGED <<connectedUsers, lost, steady>>

\* Mutant: the first socket of a user is kept.
Handle_KeepFirst(s) ==
  /\ stage[s] = "verifying"
  /\ stage' = [stage EXCEPT ![s] = "known"]
  /\ connectedUsers' = [connectedUsers EXCEPT ![owner[s]] = IF @ = None THEN s ELSE @]
  /\ Supplant(s, IF link[s] = "closed" THEN "late" ELSE "other")
  /\ UNCHANGED <<owner, link, steady>>

\* The token is good and the user exists: the socket is registered, open or not.
Handle(s) ==
  /\ stage[s] = "verifying"
  /\ stage' = [stage EXCEPT ![s] = "known"]
  /\ connectedUsers' = [connectedUsers EXCEPT ![owner[s]] = s]
  /\ Supplant(s, IF link[s] = "closed" THEN "late" ELSE "other")
  /\ UNCHANGED <<owner, link, steady>>

\* The token is missing or bad, or the user is gone.
Refuse(s) ==
  /\ stage[s] = "verifying"
  /\ stage' = [stage EXCEPT ![s] = "refused"]
  /\ link' = [link EXCEPT ![s] = "closed"]
  /\ UNCHANGED <<owner, connectedUsers, lost, steady>>

\* client.user is set only once the socket is known; the entry of its user
\* goes, whichever socket it names.
Disconnect(s) ==
  /\ link[s] = "open"
  /\ link' = [link EXCEPT ![s] = "closed"]
  /\ connectedUsers' = IF stage[s] = "known" THEN [connectedUsers EXCEPT ![owner[s]] = None]
                                              ELSE connectedUsers
  /\ IF stage[s] = "known" THEN Supplant(s, "other") ELSE UNCHANGED lost
  /\ UNCHANGED <<owner, stage, steady>>

Next ==
  \E s \in Socket :
    \/ \E u \in User : Connect(s, u)
    \/ Handle(s) \/ Refuse(s) \/ Disconnect(s)

Spec == Init /\ [][Next]_vars

-----------------------------------------------------------------------------
\* Sockets and entries have their shape.
TypeOK ==
  /\ owner \in [Socket -> User \cup {None}]
  /\ link \in [Socket -> {"unused", "open", "closed"}]
  /\ stage \in [Socket -> {"none", "verifying", "known", "refused"}]
  /\ connectedUsers \in [User -> Socket \cup {None}]
  /\ lost \in [Socket -> {"no", "late", "other"}]
  /\ steady \in BOOLEAN

\* However sockets come and go, the events of a user (notifyUser) are sent to
\* no socket but one that has presented that user's token and been accepted.
Addressed ==
  \A u \in User : connectedUsers[u] # None =>
    owner[connectedUsers[u]] = u /\ stage[connectedUsers[u]] = "known"

\* An open socket gets its user's events from the moment it is known, until the
\* entry goes to the late verification of a socket that has closed by then, or, if
\* the user has several sockets, until another one is registered or closes.  So
\* with one socket after the other only the first can happen.
Reachable ==
  \A s \in Socket : Listening(s) =>
    connectedUsers[owner[s]] = s \/ lost[s] = "late" \/ (lost[s] = "other" /\ ~steady)
=============================================================================
