---------------------------- MODULE PasswordReset ----------------------------
(***************************************************************************)
(* The password of one account: the reset by a code sent to its phone      *)
(* (createCodeResetPassword, checkCodeResetPassword, resetPassword), the   *)
(* change by its owner (changePassword) and the migration of a legacy      *)
(* plain-text password at login, all of AuthService.  Code, flag and       *)
(* cooldown are Redis keys with a time to live.                            *)
(*                                                                         *)
(* Every command to Redis or MySQL is a step; pc[w] names the last one     *)
(* that worker w, a request being handled, has completed.  Accounts do not *)
(* share state, so one is enough.  The environment decides at the start    *)
(* whether requests overlap and whether they may end between two commands. *)
(***************************************************************************)
EXTENDS Naturals

CONSTANTS
  Password,   \* passwords users type
  Worker,     \* requests that may be in flight at the same time
  MaxCodes,   \* bound: codes that are ever issued
  MaxResets,  \* bound: no reset starts once a code was good for this many
  None        \* absent key, no request

\* Codes are numbered in the order they are stored.
Code == 1 .. MaxCodes
Codes(n) == 1 .. n

Account == [password : Password, hashed : BOOLEAN]
Op == {"create", "check", "reset", "change", "login"}
Request == [op : Op, password : Password \cup {None}, code : Code \cup {None}]

ASSUME BoundsOK == MaxCodes \in Nat /\ MaxResets \in Nat
ASSUME NoneIsNothing == None \notin Password /\ None \notin Nat /\ None \notin Request

VARIABLES
  account,   \* the row of users: the password and whether it is stored as a hash
  otp,       \* key reset_password:<phone>, the number of the code stored
  verified,  \* key reset_password_verified:<phone>, the code it was set for
  cooldown,  \* key reset_password_cooldown:<phone>
  pc, req,   \* per worker: last completed command, request
  overlaps,  \* requests may overlap
  crashes,   \* requests may end between two commands
  issued,    \* history: how many codes have been stored
  accepted,  \* history: how often each code was accepted
  changes,   \* history: how many resets each code was good for
  texts,     \* history: text messages since the cooldown last ran out
  chosen     \* history: the password the owner has set last

redis == <<otp, verified, cooldown>>
history == <<issued, accepted, changes, texts, chosen>>
environment == <<overlaps, crashes>>
vars == <<account, otp, verified, cooldown, pc, req, overlaps, crashes, issued, accepted, changes, texts, chosen>>

\* Passwords of before the hashing are stored as they are.
Init ==
  /\ account \in Account
  /\ otp = None /\ verified = None /\ cooldown = FALSE
  /\ pc = [w \in Worker |-> "idle"]
  /\ req = [w \in Worker |-> None]
  /\ overlaps \in BOOLEAN /\ crashes \in BOOLEAN
  /\ issued = 0
  /\ accepted = [c \in Code |-> 0]
  /\ changes = [c \in Code |-> 0]
  /\ texts = 0
  /\ chosen = account.password

-----------------------------------------------------------------------------
Start(w, op, password, code, at) ==
  /\ pc[w] = "idle"
  /\ \A v \in Worker : pc[v] = "idle" \/ overlaps
  /\ pc' = [pc EXCEPT ![w] = at]
  /\ req' = [req EXCEPT ![w] = [op |-> op, password |-> password, code |-> code]]

Running(w, op, at) == pc[w] = at /\ req[w].op = op

Goto(w, at) == pc' = [pc EXCEPT ![w] = at] /\ UNCHANGED req

Finish(w) == pc' = [pc EXCEPT ![w] = "idle"] /\ req' = [req EXCEPT ![w] = None]

Abandon(w) ==
  /\ crashes
  /\ pc[w] # "idle"
  /\ Finish(w)
  /\ UNCHANGED <<account, redis, history>>

-----------------------------------------------------------------------------
(* createCodeResetPassword                                                 *)

\* Mutant: the cooldown is not looked up.
CreateCode_GetCooldown_Always(w) ==
  /\ Start(w, "create", None, None, "cooldown_read")
  /\ UNCHANGED <<account, redis, history>>

CreateCode_GetCooldown(w) ==
  /\ ~cooldown
  /\ Start(w, "create", None, None, "cooldown_read")
  /\ UNCHANGED <<account, redis, history>>

CreateCode_SetOtp(w) ==
  /\ Running(w, "create", "cooldown_read")
  /\ issued < MaxCodes
  /\ issued' = issued + 1
  /\ otp' = issued + 1
  /\ Goto(w, "otp_set")
  /\ UNCHANGED <<account, verified, cooldown, accepted, changes, texts, chosen>>

\* The cooldown, and then the text message.
CreateCode_SetCooldown(w) ==
  /\ Running(w, "create", "otp_set")
  /\ cooldown' = TRUE
  /\ texts' = texts + 1
  /\ Finish(w)
  /\ UNCHANGED <<account, otp, verified, issued, accepted, changes, chosen>>

-----------------------------------------------------------------------------
(* checkCodeResetPassword                                                  *)

\* Mutant: every code that was ever sent is accepted.
CheckCode_GetOtp_AnyCode(w, c) ==
  /\ otp # None
  /\ Start(w, "check", None, c, "otp_read")
  /\ UNCHANGED <<account, redis, history>>

\* The user types code c; CODE_VERIFY_INCORRECT unless it is the stored one.
CheckCode_GetOtp(w, c) ==
  /\ otp = c
  /\ Start(w, "check", None, c, "otp_read")
  /\ UNCHANGED <<account, redis, history>>

\* DEL removes whatever code is stored by now.
CheckCode_DelOtp(w) ==
  /\ Running(w, "check", "otp_read")
  /\ otp' = None
  /\ Goto(w, "otp_deleted")
  /\ UNCHANGED <<account, verified, cooldown, history>>

CheckCode_SetVerified(w) ==
  /\ Running(w, "check", "otp_deleted")
  /\ verified' = req[w].code
  /\ accepted' = [accepted EXCEPT ![req[w].code] = @ + 1]
  /\ Finish(w)
  /\ UNCHANGED <<account, otp, cooldown, issued, changes, texts, chosen>>

-----------------------------------------------------------------------------
(* resetPassword                                                           *)

\* findByPhoneWithPassword.  The new password is compared with the one read
\* here, after the flag has been found; either test ends the request alike.
ResetPassword_FindUser(w, new) ==
  /\ new # account.password
  /\ Start(w, "reset", new, None, "user_read")
  /\ UNCHANGED <<account, redis, history>>

\* Mutant: the flag is read but not tested.
ResetPassword_GetVerified_Untested(w) ==
  /\ Running(w, "reset", "user_read")
  /\ req' = [req EXCEPT ![w].code = verified]
  /\ pc' = [pc EXCEPT ![w] = "verified_read"]
  /\ UNCHANGED <<account, redis, history>>

\* Mutant: the key of the code is looked up in place of the flag's.
ResetPassword_GetVerified_WrongKey(w) ==
  /\ Running(w, "reset", "user_read")
  /\ otp # None
  /\ req' = [req EXCEPT ![w].code = otp]
  /\ pc' = [pc EXCEPT ![w] = "verified_read"]
  /\ UNCHANGED <<account, redis, history>>

ResetPassword_GetVerified(w) ==
  /\ Running(w, "reset", "user_read")
  /\ verified # None
  /\ req' = [req EXCEPT ![w].code = verified]
  /\ pc' = [pc EXCEPT ![w] = "verified_read"]
  /\ UNCHANGED <<account, redis, history>>

\* A password the owner has chosen is stored as its hash.
Store(password) ==
  /\ account' = [password |-> password, hashed |-> TRUE]
  /\ chosen' = password

ResetPassword_Update(w) ==
  /\ Running(w, "reset", "verified_read")
  /\ Store(req[w].password)
  /\ changes' = [changes EXCEPT ![req[w].code] = @ + 1]
  /\ Goto(w, "updated")
  /\ UNCHANGED <<redis, issued, accepted, texts>>

\* Mutant: the flag is left for its time to live to remove.
ResetPassword_DelVerified_Keep(w) ==
  /\ Running(w, "reset", "updated")
  /\ Finish(w)
  /\ UNCHANGED <<account, redis, history>>

ResetPassword_DelVerified(w) ==
  /\ Running(w, "reset", "updated")
  /\ verified' = None
  /\ Finish(w)
  /\ UNCHANGED <<account, otp, cooldown, history>>

-----------------------------------------------------------------------------
(* changePassword and login                                                *)

\* findByIdWithPassword; the owner typed the stored password and another one.
ChangePassword_Find(w, new) ==
  /\ new # account.password
  /\ Start(w, "change", new, None, "user_read")
  /\ UNCHANGED <<account, redis, history>>

ChangePassword_Update(w) ==
  /\ Running(w, "change", "user_read")
  /\ Store(req[w].password)
  /\ Finish(w)
  /\ UNCHANGED <<redis, issued, accepted, changes, texts>>

\* Mutant: what was typed is hashed and stored without having matched.
Login_Find_Unmatched(w) ==
  /\ ~account.hashed
  /\ \E typed \in Password : Start(w, "login", typed, None, "user_read")
  /\ UNCHANGED <<account, redis, history>>

\* Login with a password stored in plain text: it is going to be hashed.
Login_Find(w) ==
  /\ ~account.hashed
  /\ Start(w, "login", account.password, None, "user_read")
  /\ UNCHANGED <<account, redis, history>>

Login_Rehash(w) ==
  /\ Running(w, "login", "user_read")
  /\ account' = [password |-> req[w].password, hashed |-> TRUE]
  /\ Finish(w)
  /\ UNCHANGED <<redis, history>>

-----------------------------------------------------------------------------
(* Times to live.                                                          *)

ExpireOtp == otp # None /\ otp' = None /\ UNCHANGED <<account, verified, cooldown, pc, req, history>>

ExpireVerified ==
  verified # None /\ verified' = None /\ UNCHANGED <<account, otp, cooldown, pc, req, history>>

ExpireCooldown ==
  /\ cooldown
  /\ cooldown' = FALSE
  /\ texts' = 0
  /\ UNCHANGED <<account, otp, verified, pc, req, issued, accepted, changes, chosen>>

-----------------------------------------------------------------------------
Step(w) ==
  \/ CreateCode_SetOtp(w)
  \/ CreateCode_SetCooldown(w)
  \/ CheckCode_DelOtp(w)
  \/ CheckCode_SetVerified(w)
  \/ ResetPassword_GetVerified(w)
  \/ ResetPassword_Update(w)
  \/ ResetPassword_DelVerified(w)
  \/ ChangePassword_Update(w)
  \/ Login_Rehash(w)

\* The request is refused: no flag is set.
Refused(w) ==
  /\ Running(w, "reset", "user_read")
  /\ verified = None
  /\ Finish(w)
  /\ UNCHANGED <<account, redis, history>>

Begin(w) ==
  \/ issued < MaxCodes /\ CreateCode_GetCooldown(w)
  \/ \E c \in Codes(issued) : CheckCode_GetOtp(w, c)
  \/ \E new \in Password :
       \/ (\A c \in Code : changes[c] < MaxResets) /\ ResetPassword_FindUser(w, new)
       \/ ChangePassword_Find(w, new)
  \/ Login_Find(w)

Next ==
  /\ \/ \E w \in Worker : Begin(w) \/ Step(w) \/ Refused(w) \/ Abandon(w)
     \/ ExpireOtp
     \/ ExpireVerified
     \/ ExpireCooldown
  /\ UNCHANGED environment

Spec == Init /\ [][Next]_vars

-----------------------------------------------------------------------------
Shape ==
  /\ account \in Account
  /\ otp \in Code \cup {None} /\ verified \in Code \cup {None} /\ cooldown \in BOOLEAN
  /\ pc \in [Worker -> {"idle", "cooldown_read", "otp_set", "otp_read", "otp_deleted",
                        "user_read", "verified_read", "updated"}]
  /\ req \in [Worker -> Request \cup {None}]
  /\ overlaps \in BOOLEAN /\ crashes \in BOOLEAN
  /\ issued \in 0 .. MaxCodes
  /\ accepted \in [Code -> Nat] /\ changes \in [Code -> Nat]
  /\ texts \in Nat
  /\ chosen \in Password

\* Requests that are accepting a code, and that are resetting the password.
Accepting(w) == pc[w] \in {"otp_read", "otp_deleted"}
InUse(w) == pc[w] \in {"verified_read", "updated"}

\* Keys, the row and the requests have the shape of the code's values, and a
\* reset that is past the flag was given a code.
TypeOK == Shape /\ \A w \in Worker : InUse(w) => req[w].code \in Code

\* However requests overlap, keys expire and requests crash: the password is
\* reset only in the name of a code that was accepted, and only the newest code
\* is ever stored, so an older one is accepted only by a request that read it
\* before.
ResetNeedsCode ==
  /\ \A c \in Code : changes[c] > 0 => accepted[c] > 0
  /\ otp \in {None, issued}
  /\ \A w \in Worker : InUse(w) => accepted[req[w].code] > 0

\* A code that has been presented cannot be used again ("delete the old OTP so
\* that it is not used again", checkCodeResetPassword).
CodeSpent == \A c \in Code : accepted[c] <= 1

\* No code is accepted twice when requests do not overlap, even if they crash.
AcceptedOnce == ~overlaps => CodeSpent

\* While the cooldown lasts no second text message is sent (CREATE-OTP-02) when
\* requests do not overlap, even if they crash.
OneTextPerCooldown == ~overlaps => texts <= 1

\* The stored password is the one its owner has set last: after a change or a
\* reset the old password is worth nothing (CHANGE-PWD-10, RESET-10).  So it is
\* when requests do not overlap, even if they crash.
PasswordIsChosen == ~overlaps => account.password = chosen

-----------------------------------------------------------------------------
(* When requests neither overlap nor crash, a code is accepted when it has *)
(* been compared and spent when the flag has been found.  (Behaviours in   *)
(* which they do are mapped to one that does nothing.)                     *)

Calm == ~overlaps /\ ~crashes
CodesOf(P(_)) == {req[w].code : w \in {v \in Worker : P(v)}}
Key(k) == IF k = None THEN {} ELSE {k}
Spending(w) == pc[w] = "verified_read"

InCalm(codes) == IF Calm THEN codes ELSE {}

Promise == INSTANCE OneTimeCode WITH
  sent    <- InCalm(Codes(issued)),
  live    <- InCalm(Key(otp) \ CodesOf(Accepting)),
  granted <- InCalm(IF \E w \in Worker : Accepting(w) THEN CodesOf(Accepting)
                    ELSE Key(verified) \ CodesOf(InUse)),
  used    <- InCalm({c \in Code : changes[c] > 0} \cup CodesOf(Spending))

\* In a calm behaviour the Redis commands implement OneTimeCode.
KeepsOneTimeCode == Promise!Spec
=============================================================================
