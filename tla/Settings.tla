------------------------------ MODULE Settings ------------------------------
(***************************************************************************)
(* What users leave with the marketplace in one row each: their account    *)
(* (AuthService.signup) and the picture on it (changeInfoAfterSignup,      *)
(* setUserInfo), their push settings (PushSettingsService), the token of   *)
(* their device (DevTokensService) and a search they save                  *)
(* (SearchesService).                                                      *)
(*                                                                         *)
(* Every service looks for a row and then writes it, a query per step.     *)
(* Push settings and device tokens have a unique key, phone numbers and    *)
(* saved searches have none.  save() of a loaded row selects it again and  *)
(* updates the columns that differ.  The five have nothing in              *)
(* common, so a behaviour uses one of the services.                        *)
(***************************************************************************)
EXTENDS Naturals, FiniteSets

CONSTANTS
  User, Worker,
  MaxRows,  \* bound: accounts and copies of a search, above what is reached
  None      \* no row, no request

\* Two of the columns of push_settings, 1 by default.
Setting == [like : {0, 1}, comment : {0, 1}]
Default == [like |-> 1, comment |-> 1]
Column == {"like", "comment"}
Op == {"signup", "token", "search", "push", "profile"}
Request == [op : Op, user : User, column : Column \cup {"avatar", None}, value : {0, 1, None},
            row : Setting \cup {None}, selected : Setting \cup {None}]

VARIABLES
  accounts,  \* rows of users with one phone number
  token,     \* user_id of the row of one device token, or None
  saved,     \* rows of saved_searches with one keyword, per user
  setting,   \* row of push_settings, per user
  avatar,    \* of each user, one of two or None
  pc, req,   \* per worker
  service,   \* the service that is used
  overlaps,  \* requests may overlap
  wanted,    \* history: the settings each user wants
  holder,    \* history: the user who registered the device last
  picked     \* history: the avatar each user chose last

tables == <<accounts, token, saved, setting, avatar>>
environment == <<service, overlaps>>
vars == <<tables, pc, req, service, overlaps, wanted, holder, picked>>

Init ==
  /\ accounts = 0
  /\ token = None
  /\ saved = [u \in User |-> 0]
  /\ setting = [u \in User |-> None]
  /\ pc = [w \in Worker |-> "idle"]
  /\ req = [w \in Worker |-> None]
  /\ service \in Op
  /\ overlaps \in BOOLEAN
  /\ wanted = [u \in User |-> Default]
  /\ holder = None
  /\ avatar = [u \in User |-> None] /\ picked = [u \in User |-> None]

-----------------------------------------------------------------------------
Goto(w, at) == pc' = [pc EXCEPT ![w] = at] /\ UNCHANGED environment
Finish(w) == req' = [req EXCEPT ![w] = None] /\ Goto(w, "idle")

Asks(op, u, column, value) ==
  [op |-> op, user |-> u, column |-> column, value |-> value, row |-> None, selected |-> None]

Start(w, r, at) ==
  /\ pc[w] = "idle" /\ r.op = service
  /\ overlaps \/ \A v \in Worker : pc[v] = "idle"
  /\ req' = [req EXCEPT ![w] = r]
  /\ Goto(w, at)
  /\ UNCHANGED <<wanted, holder, picked>>

Running(w, op, at) == pc[w] = at /\ req[w].op = op

Abandon(w) ==
  /\ pc[w] # "idle"
  /\ Finish(w)
  /\ UNCHANGED <<tables, wanted, holder, picked>>

-----------------------------------------------------------------------------
(* AuthService.signup                                                      *)

Signup_Find(w, u) ==
  /\ accounts = 0
  /\ Start(w, Asks("signup", u, None, None), "found")
  /\ UNCHANGED tables

\* The transaction inserts the account and its wallet.
Signup_Insert(w) ==
  /\ Running(w, "signup", "found")
  /\ accounts < MaxRows
  /\ accounts' = accounts + 1
  /\ Finish(w)
  /\ UNCHANGED <<token, saved, setting, avatar, wanted, holder, picked>>

-----------------------------------------------------------------------------
(* DevTokensService.upsertDevToken                                         *)

UpsertDevToken_Find(w, u) ==
  /\ Start(w, Asks("token", u, None, None), IF token = None THEN "missing" ELSE "found")
  /\ UNCHANGED tables

\* save() of the row that was found selects it again.
UpsertDevToken_Select(w) ==
  /\ Running(w, "token", "found")
  /\ Goto(w, IF token = req[w].user THEN "same" ELSE "selected")
  /\ UNCHANGED <<tables, req, wanted, holder, picked>>

Registered(w) == token' = req[w].user /\ holder' = req[w].user

UpsertDevToken_Save(w) ==
  /\ \/ Running(w, "token", "missing") /\ token = None /\ Registered(w)
     \/ Running(w, "token", "selected") /\ Registered(w)
     \/ Running(w, "token", "same") /\ holder' = req[w].user /\ UNCHANGED token
  /\ Finish(w)
  /\ UNCHANGED <<accounts, saved, setting, avatar, wanted, picked>>

UpsertDevToken_Duplicate(w) ==
  /\ Running(w, "token", "missing") /\ token # None
  /\ Finish(w)
  /\ UNCHANGED <<tables, wanted, holder, picked>>

-----------------------------------------------------------------------------
(* SearchesService                                                         *)

\* Mutant: the search is looked up in place of being deleted.
SaveSearch_Delete_Find(w, u) ==
  /\ Start(w, Asks("search", u, None, None), "deleted")
  /\ UNCHANGED tables

SaveSearch_Delete(w, u) ==
  /\ Start(w, Asks("search", u, None, None), "deleted")
  /\ saved' = [saved EXCEPT ![u] = 0]
  /\ UNCHANGED <<accounts, token, setting, avatar>>

SaveSearch_Insert(w) ==
  LET u == req[w].user
  IN  /\ Running(w, "search", "deleted")
      /\ saved[u] < MaxRows
      /\ saved' = [saved EXCEPT ![u] = @ + 1]
      /\ Finish(w)
      /\ UNCHANGED <<accounts, token, setting, avatar, wanted, holder, picked>>

\* By keyword or all of the user's; or one of the rows by its id.
DelSavedSearch(u) ==
  /\ service = "search" /\ saved[u] > 0
  /\ \E left \in {0, saved[u] - 1} : saved' = [saved EXCEPT ![u] = left]
  /\ UNCHANGED <<accounts, token, setting, avatar, pc, req, environment, wanted, holder, picked>>

-----------------------------------------------------------------------------
(* PushSettingsService                                                     *)

\* findOrCreateByUserId, for get_push_setting and set_push_setting.
FindOrCreate_Find(w, u, column, value) ==
  /\ Start(w, [Asks("push", u, column, value) EXCEPT !.row = setting[u]],
           IF setting[u] = None THEN "missing" ELSE "found")
  /\ UNCHANGED tables

CreateDefault(w) ==
  LET u == req[w].user
  IN  /\ Running(w, "push", "missing") /\ setting[u] = None
      /\ setting' = [setting EXCEPT ![u] = Default]
      /\ req' = [req EXCEPT ![w].row = Default]
      /\ Goto(w, "found")
      /\ UNCHANGED <<accounts, token, saved, avatar, wanted, holder, picked>>

CreateDefault_Duplicate(w) ==
  /\ Running(w, "push", "missing") /\ setting[req[w].user] # None
  /\ Finish(w)
  /\ UNCHANGED <<tables, wanted, holder, picked>>

\* get_push_setting is done once it has the row.
GetPushSetting(w) ==
  /\ Running(w, "push", "found") /\ req[w].column = None
  /\ Finish(w)
  /\ UNCHANGED <<tables, wanted, holder, picked>>

UpdatePushSetting_Select(w) ==
  LET r == req[w]
  IN  /\ Running(w, "push", "found") /\ r.column # None
      /\ req' = [req EXCEPT ![w].row[r.column] = r.value, ![w].selected = setting[r.user]]
      /\ Goto(w, "selected")
      /\ UNCHANGED <<tables, wanted, holder, picked>>

\* UPDATE of the columns that differ from the row selected.
UpdatePushSetting_Write(w) ==
  LET r == req[w]
  IN  /\ Running(w, "push", "selected")
      /\ setting' = [setting EXCEPT ![r.user] =
           [c \in Column |-> IF r.row[c] = r.selected[c] THEN @[c] ELSE r.row[c]]]
      /\ wanted' = [wanted EXCEPT ![r.user][r.column] = r.value]
      /\ Finish(w)
      /\ UNCHANGED <<accounts, token, saved, avatar, holder, picked>>

-----------------------------------------------------------------------------
(* AuthService.changeInfoAfterSignup and UsersService.setUserInfo          *)

\* Without an avatar in the request, the one there is will be written back.
ChangeInfoAfterSignup_Find(w, u, given) ==
  /\ Start(w, IF given = None THEN Asks("profile", u, None, avatar[u])
                            ELSE Asks("profile", u, "avatar", given), "found")
  /\ UNCHANGED tables

Picks(u, picture) ==
  /\ avatar' = [avatar EXCEPT ![u] = picture]
  /\ UNCHANGED <<accounts, token, saved, setting, wanted, holder>>

ChangeInfoAfterSignup_Update(w) ==
  LET r == req[w]
  IN  /\ Running(w, "profile", "found")
      /\ Picks(r.user, r.value)
      /\ picked' = IF r.column = None THEN picked ELSE [picked EXCEPT ![r.user] = r.value]
      /\ Finish(w)

\* One UPDATE of what is given.
SetUserInfo(u, picture) ==
  /\ service = "profile"
  /\ overlaps \/ \A w \in Worker : pc[w] = "idle"
  /\ Picks(u, picture)
  /\ picked' = [picked EXCEPT ![u] = picture]
  /\ UNCHANGED <<pc, req, environment>>

-----------------------------------------------------------------------------
Next ==
  \/ \E w \in Worker :
       \/ \E u \in User :
            \/ Signup_Find(w, u) \/ UpsertDevToken_Find(w, u) \/ SaveSearch_Delete(w, u)
            \/ FindOrCreate_Find(w, u, None, None)
            \/ \E picture \in {0, 1, None} : ChangeInfoAfterSignup_Find(w, u, picture)
            \/ \E c \in Column, value \in {0, 1} : FindOrCreate_Find(w, u, c, value)
       \/ Signup_Insert(w)
       \/ UpsertDevToken_Select(w) \/ UpsertDevToken_Save(w) \/ UpsertDevToken_Duplicate(w)
       \/ SaveSearch_Insert(w)
       \/ CreateDefault(w) \/ CreateDefault_Duplicate(w)
       \/ GetPushSetting(w) \/ UpdatePushSetting_Select(w) \/ UpdatePushSetting_Write(w)
       \/ ChangeInfoAfterSignup_Update(w)
       \/ Abandon(w)
  \/ \E u \in User :
       DelSavedSearch(u) \/ \E picture \in {0, 1} : SetUserInfo(u, picture)

Spec == Init /\ [][Next]_vars

-----------------------------------------------------------------------------
\* Rows and requests have the shape of the entities.
TypeOK ==
  /\ accounts \in 0 .. MaxRows
  /\ token \in User \cup {None} /\ holder \in User \cup {None}
  /\ saved \in [User -> 0 .. MaxRows]
  /\ avatar \in [User -> {0, 1, None}] /\ picked \in [User -> {0, 1, None}]
  /\ setting \in [User -> Setting \cup {None}] /\ wanted \in [User -> Setting]
  /\ pc \in [Worker -> {"idle", "found", "missing", "deleted", "same", "selected"}]
  /\ req \in [Worker -> Request \cup {None}]

InFlight == IF overlaps THEN Cardinality(Worker) ELSE 1

\* Although nothing but the order of the queries keeps phone numbers and saved
\* searches unique, there are never more accounts with one phone number, nor
\* copies of one search, than requests in flight at the same time: one, if they
\* do not overlap.
FewDuplicates ==
  /\ accounts <= InFlight
  /\ \A u \in User : saved[u] <= InFlight

\* Without overlap the push settings are what their user set, column by column,
\* the device belongs to the user who registered it last, and the avatar is the
\* one its user chose last.
SettingsAsSet ==
  ~overlaps => /\ token = holder /\ avatar = picked
               /\ \A u \in User : wanted[u] = IF setting[u] = None THEN Default ELSE setting[u]

\* What the tables hold is what the users asked for: each row once, as far as
\* the services can see to it, and as its user left it.
RowsAsAsked == FewDuplicates /\ SettingsAsSet
=============================================================================
