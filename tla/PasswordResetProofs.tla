------------------------- MODULE PasswordResetProofs -------------------------
(***************************************************************************)
(* Theorems about PasswordReset for any passwords, bounds and requests.    *)
(***************************************************************************)
EXTENDS PasswordReset, TLAPS

\* The control state of the requests.
ReqOK ==
  /\ pc \in [Worker -> {"idle", "cooldown_read", "otp_set", "otp_read", "otp_deleted",
                        "user_read", "verified_read", "updated"}]
  /\ req \in [Worker -> Request \cup {None}]

\* What a request holds at each of its steps.
Holds(w) ==
  /\ pc[w] # "idle" => req[w] \in Request
  /\ Accepting(w) => req[w].op = "check"
  /\ pc[w] \in {"cooldown_read", "otp_set"} => req[w].op = "create"
  /\ InUse(w) => req[w].op = "reset"
  /\ req[w].op = "check" => req[w].code \in Code
  /\ InUse(w) => req[w].code \in Code
  /\ pc[w] = "user_read" => req[w].op \in {"reset", "change", "login"}
  /\ pc[w] \in {"user_read", "verified_read"} => req[w].password \in Password

TypeInv == Shape /\ \A w \in Worker : pc[w] # "idle" => Holds(w)

LEMMA StartReq ==
  ASSUME ReqOK, NEW w \in Worker, NEW op \in Op, NEW p \in Password \cup {None},
         NEW c \in Code \cup {None},
         NEW at \in {"cooldown_read", "otp_read", "user_read"}, Start(w, op, p, c, at)
  PROVE  /\ ReqOK'
         /\ pc'[w] = at /\ req'[w].op = op /\ req'[w].password = p /\ req'[w].code = c
         /\ req'[w] \in Request
         /\ \A v \in Worker \ {w} : pc'[v] = pc[v] /\ req'[v] = req[v]
  <1>1. [op |-> op, password |-> p, code |-> c] \in Request
    BY DEF Request
  <1> QED
    BY <1>1 DEF Start, ReqOK

LEMMA GotoReq ==
  ASSUME ReqOK, NEW w \in Worker,
         NEW at \in {"otp_set", "otp_deleted", "updated"}, Goto(w, at)
  PROVE  /\ ReqOK'
         /\ pc'[w] = at /\ req' = req
         /\ \A v \in Worker \ {w} : pc'[v] = pc[v]
  BY DEF Goto, ReqOK

LEMMA FinishReq ==
  ASSUME ReqOK, NEW w \in Worker, Finish(w)
  PROVE  /\ ReqOK'
         /\ pc'[w] = "idle"
         /\ \A v \in Worker \ {w} : pc'[v] = pc[v] /\ req'[v] = req[v]
  BY DEF Finish, ReqOK

\* A request that starts.
LEMMA TypeBegin ==
  ASSUME TypeInv, NEW w \in Worker, Begin(w), overlaps' = overlaps, crashes' = crashes
  PROVE  TypeInv'
  <1>0. ReqOK /\ issued \in 0 .. MaxCodes /\ Codes(issued) \subseteq Code
    BY BoundsOK DEF TypeInv, Shape, ReqOK, Codes, Code
  <1>1. ASSUME NEW op \in Op, NEW p \in Password \cup {None}, NEW c \in Code \cup {None},
               NEW at \in {"cooldown_read", "otp_read", "user_read"}, Start(w, op, p, c, at),
               \/ at = "cooldown_read" /\ op = "create"
               \/ at = "otp_read" /\ op = "check" /\ c \in Code
               \/ at = "user_read" /\ op \in {"reset", "change", "login"} /\ p \in Password,
               UNCHANGED <<account, redis, history>>
        PROVE  TypeInv'
    <2>1. /\ ReqOK' /\ Holds(w)'
          /\ \A v \in Worker \ {w} : pc'[v] = pc[v] /\ req'[v] = req[v]
      BY <1>0, <1>1, StartReq DEF Holds, Accepting, InUse
    <2>2. \A v \in Worker \ {w} : pc'[v] # "idle" => Holds(v)'
      BY <2>1 DEF TypeInv, Holds, Accepting, InUse
    <2> QED
      BY <1>1, <2>1, <2>2 DEF TypeInv, Shape, ReqOK, redis, history
  <1>2. CASE issued < MaxCodes /\ CreateCode_GetCooldown(w)
    BY <1>1, <1>2 DEF CreateCode_GetCooldown, Op
  <1>3. ASSUME NEW c \in Codes(issued), CheckCode_GetOtp(w, c) PROVE TypeInv'
    BY <1>0, <1>1, <1>3 DEF CheckCode_GetOtp, Op
  <1>4. ASSUME NEW new \in Password, ResetPassword_FindUser(w, new) PROVE TypeInv'
    BY <1>1, <1>4 DEF ResetPassword_FindUser, Op
  <1>5. ASSUME NEW new \in Password, ChangePassword_Find(w, new) PROVE TypeInv'
    BY <1>1, <1>5 DEF ChangePassword_Find, Op
  <1>6. CASE Login_Find(w)
    <2>1. account.password \in Password
      BY DEF TypeInv, Shape, Account
    <2> QED
      BY <1>1, <1>6, <2>1 DEF Login_Find, Op
  <1> QED
    BY <1>2, <1>3, <1>4, <1>5, <1>6 DEF Begin

\* A step of a request that keeps its record, or that ends it.
LEMMA TypeMove ==
  ASSUME TypeInv, NEW w \in Worker,
         \/ Finish(w)
         \/ \E at \in {"otp_set", "otp_deleted", "updated"} :
              Goto(w, at) /\ pc[w] # "idle" /\ Holds(w)'
  PROVE  ReqOK' /\ \A v \in Worker : pc'[v] # "idle" => Holds(v)'
  <1>0. ReqOK
    BY DEF TypeInv, Shape, ReqOK
  <1>1. CASE Finish(w)
    BY <1>0, <1>1, FinishReq DEF TypeInv, Holds, Accepting, InUse
  <1>2. ASSUME NEW at \in {"otp_set", "otp_deleted", "updated"}, Goto(w, at), Holds(w)'
        PROVE  ReqOK' /\ \A v \in Worker : pc'[v] # "idle" => Holds(v)'
    BY <1>0, <1>2, GotoReq DEF TypeInv, Holds, Accepting, InUse
  <1> QED
    BY <1>1, <1>2

LEMMA TypeStep ==
  ASSUME TypeInv, [Next]_vars
  PROVE  TypeInv'
  <1>a. overlaps' = overlaps /\ crashes' = crashes
    BY DEF Next, vars, environment
  <1> USE <1>a
  <1>0. ReqOK
    BY DEF TypeInv, Shape, ReqOK
  <1>1. ASSUME NEW w \in Worker, CreateCode_SetOtp(w) PROVE TypeInv'
    <2>1. Holds(w)'
      BY <1>0, <1>1, GotoReq DEF CreateCode_SetOtp, Running, TypeInv, Holds, Accepting, InUse
    <2>2. ReqOK' /\ \A v \in Worker : pc'[v] # "idle" => Holds(v)'
      BY <1>1, <2>1, TypeMove DEF CreateCode_SetOtp, Running
    <2>3. issued + 1 \in Code /\ issued + 1 \in 0 .. MaxCodes
      BY <1>1, BoundsOK DEF CreateCode_SetOtp, TypeInv, Shape, Code
    <2> QED
      BY <1>1, <2>2, <2>3 DEF CreateCode_SetOtp, TypeInv, Shape, ReqOK
  <1>2. ASSUME NEW w \in Worker, CreateCode_SetCooldown(w) PROVE TypeInv'
    BY <1>2, TypeMove DEF CreateCode_SetCooldown, TypeInv, Shape, ReqOK
  <1>3. ASSUME NEW w \in Worker, CheckCode_DelOtp(w) PROVE TypeInv'
    <2>1. Holds(w)'
      BY <1>0, <1>3, GotoReq DEF CheckCode_DelOtp, Running, TypeInv, Holds, Accepting, InUse
    <2>2. ReqOK' /\ \A v \in Worker : pc'[v] # "idle" => Holds(v)'
      BY <1>3, <2>1, TypeMove DEF CheckCode_DelOtp, Running
    <2> QED
      BY <1>3, <2>2 DEF CheckCode_DelOtp, TypeInv, Shape, ReqOK, history
  <1>4. ASSUME NEW w \in Worker, CheckCode_SetVerified(w) PROVE TypeInv'
    <2>1. req[w].code \in Code
      BY <1>4 DEF CheckCode_SetVerified, Running, TypeInv, Holds
    <2> QED
      BY <1>4, <2>1, TypeMove DEF CheckCode_SetVerified, TypeInv, Shape, ReqOK
  <1>5. ASSUME NEW w \in Worker, ResetPassword_GetVerified(w) PROVE TypeInv'
    <2> DEFINE r == [req[w] EXCEPT !.code = verified]
    <2>1. req[w] \in Request /\ verified \in Code /\ Holds(w) /\ req[w].op = "reset"
          /\ req[w].password \in Password
      BY <1>5 DEF ResetPassword_GetVerified, Running, TypeInv, Shape, Holds
    <2>2. r \in Request /\ r.code = verified /\ r.op = "reset" /\ r.password \in Password
      BY <2>1 DEF Request
    <2>3. /\ req' = [req EXCEPT ![w] = r] /\ pc' = [pc EXCEPT ![w] = "verified_read"]
          /\ UNCHANGED <<account, redis, history>>
      BY <1>5 DEF ResetPassword_GetVerified
    <2> HIDE DEF r
    <2>4. ReqOK' /\ pc'[w] = "verified_read" /\ req'[w] = r
          /\ \A v \in Worker \ {w} : pc'[v] = pc[v] /\ req'[v] = req[v]
      BY <1>0, <2>2, <2>3 DEF ReqOK
    <2>5. Holds(w)'
      BY <2>1, <2>2, <2>4 DEF Holds, Accepting, InUse
    <2>6. \A v \in Worker \ {w} : pc'[v] # "idle" => Holds(v)'
      BY <2>4 DEF TypeInv, Holds, Accepting, InUse
    <2> QED
      BY <2>3, <2>4, <2>5, <2>6 DEF TypeInv, Shape, ReqOK, redis, history
  <1>6. ASSUME NEW w \in Worker, ResetPassword_Update(w) PROVE TypeInv'
    <2>1. /\ pc[w] = "verified_read" /\ req[w].op = "reset" /\ req[w] \in Request
          /\ req[w].code \in Code /\ req[w].password \in Password
      BY <1>6 DEF ResetPassword_Update, Running, TypeInv, Holds, InUse
    <2>2. Holds(w)'
      BY <1>0, <1>6, <2>1, GotoReq DEF ResetPassword_Update, Holds, Accepting, InUse
    <2>3. ReqOK' /\ \A v \in Worker : pc'[v] # "idle" => Holds(v)'
      BY <1>6, <2>1, <2>2, TypeMove DEF ResetPassword_Update
    <2> QED
      BY <1>6, <2>1, <2>3
         DEF ResetPassword_Update, Store, TypeInv, Shape, ReqOK, Account, redis
  <1>7. ASSUME NEW w \in Worker, ResetPassword_DelVerified(w) PROVE TypeInv'
    BY <1>7, TypeMove DEF ResetPassword_DelVerified, TypeInv, Shape, ReqOK, history
  <1>8. ASSUME NEW w \in Worker, ChangePassword_Update(w) PROVE TypeInv'
    <2>1. req[w].password \in Password
      BY <1>8 DEF ChangePassword_Update, Running, TypeInv, Holds
    <2> QED
      BY <1>8, <2>1, TypeMove
         DEF ChangePassword_Update, Store, TypeInv, Shape, ReqOK, Account, redis
  <1>9. ASSUME NEW w \in Worker, Login_Rehash(w) PROVE TypeInv'
    <2>1. req[w].password \in Password
      BY <1>9 DEF Login_Rehash, Running, TypeInv, Holds
    <2> QED
      BY <1>9, <2>1, TypeMove
         DEF Login_Rehash, TypeInv, Shape, ReqOK, Account, redis, history
  <1>10. ASSUME NEW w \in Worker, Refused(w) \/ Abandon(w) PROVE TypeInv'
    BY <1>10, TypeMove DEF Refused, Abandon, TypeInv, Shape, ReqOK, redis, history
  <1>11. CASE ExpireOtp \/ ExpireVerified \/ ExpireCooldown \/ UNCHANGED vars
    <2>1. UNCHANGED <<account, pc, req, issued, accepted, changes, chosen>>
      BY <1>11 DEF ExpireOtp, ExpireVerified, ExpireCooldown, vars, history
    <2>2. \A v \in Worker : Holds(v) => Holds(v)'
      BY <2>1 DEF Holds, Accepting, InUse
    <2>3. otp' \in Code \cup {None} /\ verified' \in Code \cup {None} /\ texts' \in Nat
      BY <1>11 DEF ExpireOtp, ExpireVerified, ExpireCooldown, vars, history, TypeInv, Shape
    <2>4. cooldown' \in BOOLEAN
      BY <1>11 DEF ExpireOtp, ExpireVerified, ExpireCooldown, vars, TypeInv, Shape
    <2>5. Shape'
      BY <2>1, <2>3, <2>4 DEF TypeInv, Shape
    <2> QED
      BY <2>1, <2>2, <2>5 DEF TypeInv
  <1> QED
    BY <1>1, <1>2, <1>3, <1>4, <1>5, <1>6, <1>7, <1>8, <1>9, <1>10, <1>11, TypeBegin
       DEF Next, Step

LEMMA ResetInit == Init => TypeInv
  <1>1. ASSUME Init PROVE Shape
    <2>1. issued \in 0 .. MaxCodes /\ chosen \in Password
      BY <1>1, BoundsOK DEF Init, Account
    <2>2. /\ accepted \in [Code -> Nat] /\ changes \in [Code -> Nat] /\ texts \in Nat
          /\ pc \in [Worker -> {"idle"}] /\ req \in [Worker -> {None}]
      BY <1>1 DEF Init
    <2> QED
      BY <1>1, <2>1, <2>2 DEF Init, Shape
  <1> QED
    BY <1>1 DEF Init, TypeInv

\* The row, the keys and the requests keep their shape.
THEOREM ResetTypeCorrect == Spec => []TypeOK
  <1>1. TypeInv => TypeOK
    BY DEF TypeInv, Holds, InUse, TypeOK
  <1> QED
    BY <1>1, ResetInit, TypeStep, PTL DEF Spec

-----------------------------------------------------------------------------
(* A reset needs a code that was accepted.                                 *)

\* The flag and the requests that have read it name an accepted code too.
CodeInv ==
  /\ ResetNeedsCode
  /\ verified # None => accepted[verified] > 0

LEMMA CodeStep ==
  ASSUME TypeInv, TypeInv', CodeInv, [Next]_vars
  PROVE  CodeInv'
  <1>0. /\ ReqOK /\ issued \in Nat
        /\ \A c \in Code : accepted[c] \in Nat /\ changes[c] \in Nat
        /\ \A w \in Worker : InUse(w) => req[w].code \in Code
    BY BoundsOK DEF TypeInv, Shape, ReqOK, Holds, InUse
  <1>1. ASSUME NEW w \in Worker, CreateCode_SetOtp(w) PROVE CodeInv'
    BY <1>0, <1>1, GotoReq DEF CreateCode_SetOtp, Running, CodeInv, ResetNeedsCode, InUse
  <1>2. ASSUME NEW w \in Worker, Finish(w), UNCHANGED <<otp, verified, issued, accepted, changes>>
        PROVE  CodeInv'
    BY <1>0, <1>2, FinishReq DEF CodeInv, ResetNeedsCode, InUse
  <1>3. ASSUME NEW w \in Worker, CheckCode_DelOtp(w) PROVE CodeInv'
    BY <1>0, <1>3, GotoReq DEF CheckCode_DelOtp, Running, history, CodeInv, ResetNeedsCode, InUse
  <1>4. ASSUME NEW w \in Worker, CheckCode_SetVerified(w) PROVE CodeInv'
    <2>1. req[w].code \in Code
      BY <1>4 DEF CheckCode_SetVerified, Running, TypeInv, Holds
    <2>2. accepted'[req[w].code] > 0 /\ \A c \in Code : accepted'[c] >= accepted[c]
      BY <1>0, <1>4, <2>1 DEF CheckCode_SetVerified, TypeInv, Shape
    <2>3. \A c \in Code : accepted'[c] \in Nat
      BY DEF TypeInv, Shape
    <2>4. \A v \in Worker : InUse(v)' => InUse(v) /\ req'[v] = req[v]
      BY <1>0, <1>4, FinishReq DEF CheckCode_SetVerified, InUse
    <2>5. \A c \in Code : accepted[c] > 0 => accepted'[c] > 0
      BY <1>0, <2>2, <2>3
    <2> QED
      BY <1>0, <1>4, <2>1, <2>2, <2>4, <2>5 DEF CheckCode_SetVerified, CodeInv, ResetNeedsCode
  <1>5. ASSUME NEW w \in Worker, ResetPassword_GetVerified(w) PROVE CodeInv'
    <2>1. req[w] \in Request
      BY <1>5 DEF ResetPassword_GetVerified, Running, TypeInv, Holds
    <2>2. /\ req'[w].code = verified /\ accepted[verified] > 0
          /\ \A v \in Worker \ {w} : pc'[v] = pc[v] /\ req'[v] = req[v]
      BY <1>0, <1>5, <2>1 DEF ResetPassword_GetVerified, ReqOK, CodeInv, Request
    <2> QED
      BY <1>5, <2>2 DEF ResetPassword_GetVerified, redis, history, CodeInv, ResetNeedsCode, InUse
  <1>6. ASSUME NEW w \in Worker, ResetPassword_Update(w) PROVE CodeInv'
    <2>1. InUse(w) /\ req[w].code \in Code /\ accepted[req[w].code] > 0
      BY <1>0, <1>6 DEF ResetPassword_Update, Running, InUse, CodeInv, ResetNeedsCode
    <2>2. \A c \in Code : c # req[w].code => changes'[c] = changes[c]
      BY <1>6 DEF ResetPassword_Update, TypeInv, Shape
    <2>3. \A v \in Worker : InUse(v)' => InUse(v) /\ req'[v] = req[v]
      BY <1>0, <1>6, <2>1, GotoReq DEF ResetPassword_Update, InUse
    <2> QED
      BY <1>6, <2>1, <2>2, <2>3 DEF ResetPassword_Update, redis, CodeInv, ResetNeedsCode
  <1>7. ASSUME NEW w \in Worker, ResetPassword_DelVerified(w) PROVE CodeInv'
    BY <1>0, <1>7, FinishReq
       DEF ResetPassword_DelVerified, history, CodeInv, ResetNeedsCode, InUse
  <1>8. ASSUME NEW w \in Worker, Begin(w) PROVE CodeInv'
    <2>1. /\ \A v \in Worker : InUse(v)' => InUse(v) /\ req'[v] = req[v]
          /\ UNCHANGED <<otp, verified, issued, accepted, changes>>
      BY <1>0, <1>8 DEF Begin, CreateCode_GetCooldown, CheckCode_GetOtp, ResetPassword_FindUser,
         ChangePassword_Find, Login_Find, Start, ReqOK, InUse, redis, history
    <2> QED
      BY <2>1 DEF CodeInv, ResetNeedsCode
  <1>9. CASE ExpireOtp \/ ExpireVerified \/ ExpireCooldown \/ UNCHANGED vars
    BY <1>9 DEF ExpireOtp, ExpireVerified, ExpireCooldown, vars, history, CodeInv,
       ResetNeedsCode, InUse
  <1> QED
    BY <1>1, <1>2, <1>3, <1>4, <1>5, <1>6, <1>7, <1>8, <1>9
       DEF Next, Step, CreateCode_SetCooldown, ChangePassword_Update, Login_Rehash, Refused,
           Abandon, redis, history

\* However requests overlap, keys expire and requests crash, the password is
\* reset only in the name of a code that was accepted while it was the newest.
THEOREM ResetsNeedCodes == Spec => []ResetNeedsCode
  <1>1. Init => CodeInv
    BY DEF Init, CodeInv, ResetNeedsCode, InUse
  <1>2. CodeInv => ResetNeedsCode
    BY DEF CodeInv
  <1> QED
    BY <1>1, <1>2, ResetInit, TypeStep, CodeStep, PTL DEF Spec

-----------------------------------------------------------------------------
(* Requests that do not overlap.                                           *)

\* No request but w's is being handled.
Only(w) == \A v \in Worker : v # w => pc[v] = "idle"

\* A code that is stored or being accepted has not been accepted yet.
FreshInv ==
  /\ \A w \in Worker : pc[w] # "idle" => Only(w)
  /\ CodeSpent
  /\ \A c \in Code : c > issued => accepted[c] = 0
  /\ otp # None => accepted[otp] = 0
  /\ \A w \in Worker : Accepting(w) =>
       /\ accepted[req[w].code] = 0
       /\ req[w].code <= issued
       /\ otp \in {None, req[w].code}
       /\ pc[w] = "otp_deleted" => otp = None

\* The request that takes a step is the only one.
LEMMA StepAlone ==
  ASSUME ~overlaps, TypeInv, FreshInv, NEW w \in Worker,
         Begin(w) \/ Step(w) \/ Refused(w) \/ Abandon(w)
  PROVE  Only(w) /\ Only(w)'
  <1>1. \A v \in Worker : v # w => pc'[v] = pc[v]
    BY DEF TypeInv, Shape, Begin, Step, Refused, Abandon, Start, Goto, Finish,
       CreateCode_GetCooldown, CheckCode_GetOtp, ResetPassword_FindUser, ChangePassword_Find,
       Login_Find, CreateCode_SetOtp, CreateCode_SetCooldown, CheckCode_DelOtp,
       CheckCode_SetVerified, ResetPassword_GetVerified, ResetPassword_Update,
       ResetPassword_DelVerified, ChangePassword_Update, Login_Rehash
  <1>2. Only(w)
    BY DEF FreshInv, Only, Begin, Step, Refused, Abandon, Start, Running,
       CreateCode_GetCooldown, CheckCode_GetOtp, ResetPassword_FindUser, ChangePassword_Find,
       Login_Find, CreateCode_SetOtp, CreateCode_SetCooldown, CheckCode_DelOtp,
       CheckCode_SetVerified, ResetPassword_GetVerified, ResetPassword_Update,
       ResetPassword_DelVerified, ChangePassword_Update, Login_Rehash
  <1> QED
    BY <1>1, <1>2 DEF Only

LEMMA FreshStep ==
  ASSUME ~overlaps, TypeInv, TypeInv', FreshInv, [Next]_vars
  PROVE  FreshInv'
  <1>0. /\ ReqOK /\ issued \in Nat /\ MaxCodes \in Nat /\ Code = 1 .. MaxCodes
        /\ \A c \in Code : accepted[c] \in Nat
        /\ otp \in Code \cup {None}
    BY BoundsOK DEF TypeInv, Shape, ReqOK, Code
  <1>1. ASSUME NEW w \in Worker, CreateCode_SetOtp(w) PROVE FreshInv'
    <2>0. Only(w) /\ Only(w)'
      BY <1>1, StepAlone DEF Step
    <2>1. issued + 1 \in Code /\ ~Accepting(w)'
      BY <1>0, <1>1, GotoReq DEF CreateCode_SetOtp, Running, Accepting
    <2>2. accepted' = accepted /\ otp' = issued + 1 /\ issued' = issued + 1
      BY <1>1 DEF CreateCode_SetOtp
    <2> QED
      BY <1>0, <2>0, <2>1, <2>2, NoneIsNothing DEF FreshInv, CodeSpent, Only, Accepting
  <1>2. ASSUME NEW w \in Worker, Only(w), Only(w)', ~Accepting(w)', UNCHANGED <<issued, accepted>>,
               otp' \in {otp, None}
        PROVE  FreshInv'
    BY <1>2 DEF FreshInv, CodeSpent, Only, Accepting
  <1>3. ASSUME NEW w \in Worker, CheckCode_DelOtp(w) PROVE FreshInv'
    <2>0. Only(w) /\ Only(w)'
      BY <1>3, StepAlone DEF Step
    <2>1. Accepting(w) /\ pc'[w] = "otp_deleted" /\ req' = req
      BY <1>0, <1>3, GotoReq DEF CheckCode_DelOtp, Running, Accepting
    <2>2. otp' = None /\ UNCHANGED <<issued, accepted>>
      BY <1>3 DEF CheckCode_DelOtp, history
    <2> QED
      BY <2>0, <2>1, <2>2 DEF FreshInv, CodeSpent, Only, Accepting
  <1>4. ASSUME NEW w \in Worker, CheckCode_SetVerified(w) PROVE FreshInv'
    <2>0. Only(w) /\ Only(w)'
      BY <1>4, StepAlone DEF Step
    <2> DEFINE c == req[w].code
    <2>1. c \in Code /\ accepted[c] = 0 /\ c <= issued /\ otp = None
      BY <1>4 DEF CheckCode_SetVerified, Running, TypeInv, Holds, FreshInv, Accepting
    <2>2. accepted' = [accepted EXCEPT ![c] = @ + 1] /\ issued' = issued /\ otp' = None
      BY <1>4, <2>1 DEF CheckCode_SetVerified
    <2>3. ~Accepting(w)'
      BY <1>0, <1>4, FinishReq DEF CheckCode_SetVerified, Accepting
    <2> HIDE DEF c
    <2>4. accepted'[c] = 1 /\ \A d \in Code : d # c => accepted'[d] = accepted[d]
      BY <2>1, <2>2 DEF TypeInv, Shape
    <2> QED
      BY <1>0, <2>0, <2>1, <2>2, <2>3, <2>4 DEF FreshInv, CodeSpent, Only, Accepting
  <1>5. ASSUME NEW w \in Worker, NEW d \in Codes(issued), CheckCode_GetOtp(w, d) PROVE FreshInv'
    <2>0. Only(w) /\ Only(w)'
      BY <1>5, StepAlone DEF Begin
    <2>1. d \in Code /\ d <= issued /\ otp = d
      BY <1>0, <1>5, BoundsOK DEF CheckCode_GetOtp, Codes, TypeInv, Shape
    <2>2. req'[w].code = d /\ pc'[w] = "otp_read" /\ UNCHANGED <<otp, issued, accepted>>
      BY <1>0, <1>5 DEF CheckCode_GetOtp, Start, ReqOK, redis, history
    <2>3. otp # None
      BY <1>0, <2>1, NoneIsNothing
    <2> QED
      BY <2>0, <2>1, <2>2, <2>3 DEF FreshInv, CodeSpent, Only, Accepting
  <1>6. ASSUME NEW w \in Worker, Begin(w), \A d \in Codes(issued) : ~CheckCode_GetOtp(w, d)
        PROVE  FreshInv'
    <2>1. ~Accepting(w)' /\ UNCHANGED <<otp, issued, accepted>>
      BY <1>0, <1>6 DEF Begin, CreateCode_GetCooldown, ResetPassword_FindUser,
         ChangePassword_Find, Login_Find, Start, ReqOK, Accepting, redis, history
    <2> QED
      BY <1>2, <1>6, <2>1, StepAlone
  <1>7. ASSUME NEW w \in Worker, Step(w) \/ Refused(w) \/ Abandon(w), Finish(w), UNCHANGED <<otp, issued, accepted>>
        PROVE  FreshInv'
    BY <1>0, <1>2, <1>7, StepAlone, FinishReq DEF Accepting
  <1>8. ASSUME NEW w \in Worker, ResetPassword_GetVerified(w) \/ ResetPassword_Update(w)
        PROVE  FreshInv'
    <2>1. ~Accepting(w)' /\ UNCHANGED <<otp, issued, accepted>>
      BY <1>0, <1>8, GotoReq DEF ResetPassword_GetVerified, ResetPassword_Update, ReqOK,
         Accepting, redis, history
    <2> QED
      BY <1>2, <1>8, <2>1, StepAlone DEF Step
  <1>9. CASE ExpireOtp \/ ExpireVerified \/ ExpireCooldown \/ UNCHANGED vars
    BY <1>9 DEF ExpireOtp, ExpireVerified, ExpireCooldown, vars, history, FreshInv,
       CodeSpent, Accepting, Only
  <1> QED
    BY <1>1, <1>3, <1>4, <1>5, <1>6, <1>7, <1>8, <1>9
       DEF Next, Step, CreateCode_SetCooldown, ResetPassword_DelVerified,
           ChangePassword_Update, Login_Rehash, Refused, Abandon, redis, history

LEMMA FreshAlways ==
  ASSUME TypeInv, TypeInv', ~overlaps => FreshInv, [Next]_vars
  PROVE  (~overlaps => FreshInv)'
  <1>1. overlaps' = overlaps
    BY DEF Next, vars, environment
  <1> QED
    BY <1>1, FreshStep

\* When requests do not overlap no code is accepted twice, however keys expire
\* and requests crash.
THEOREM CodesAcceptedOnce == Spec => []AcceptedOnce
  <1>1. Init => (~overlaps => FreshInv)
    BY DEF Init, FreshInv, CodeSpent, Accepting
  <1>2. (~overlaps => FreshInv) => AcceptedOnce
    BY DEF FreshInv, AcceptedOnce
  <1> QED
    BY <1>1, <1>2, ResetInit, TypeStep, FreshAlways, PTL DEF Spec

-----------------------------------------------------------------------------
(* The cooldown and the password of an account whose requests do not       *)
(* overlap.                                                                *)

\* Only one request is being handled.  It sends a text only if it has found no
\* cooldown, and hashes at login the password that is still stored.
OwnerInv ==
  /\ texts <= 1
  /\ ~cooldown => texts = 0
  /\ account.password = chosen
  /\ \A w \in Worker :
       /\ pc[w] \in {"cooldown_read", "otp_set"} => ~cooldown
       /\ Running(w, "login", "user_read") => req[w].password = account.password

\* A request that neither sends a text nor stores a password.
LEMMA OwnerKept ==
  ASSUME ~overlaps, TypeInv, FreshInv, OwnerInv, NEW w \in Worker,
         Begin(w) \/ Step(w) \/ Refused(w) \/ Abandon(w),
         UNCHANGED <<account, cooldown, texts, chosen>>,
         pc'[w] \in {"cooldown_read", "otp_set"} => ~cooldown,
         Running(w, "login", "user_read")' => req'[w].password = account.password
  PROVE  OwnerInv'
  BY StepAlone DEF OwnerInv, Only, Running

LEMMA OwnerStep ==
  ASSUME ~overlaps, TypeInv, FreshInv, OwnerInv, [Next]_vars
  PROVE  OwnerInv'
  <1>0. ReqOK /\ texts \in Nat
    BY DEF TypeInv, Shape, ReqOK
  <1>1. ASSUME NEW w \in Worker, Begin(w) PROVE OwnerInv'
    <2>1. UNCHANGED <<account, cooldown, texts, chosen>>
      BY <1>1 DEF Begin, CreateCode_GetCooldown, CheckCode_GetOtp, ResetPassword_FindUser,
         ChangePassword_Find, Login_Find, redis, history
    <2>2. /\ pc'[w] \in {"cooldown_read", "otp_set"} => ~cooldown
          /\ Running(w, "login", "user_read")' => req'[w].password = account.password
      BY <1>0, <1>1 DEF Begin, CreateCode_GetCooldown, CheckCode_GetOtp, ResetPassword_FindUser,
         ChangePassword_Find, Login_Find, Start, ReqOK, Running
    <2> QED
      BY <1>1, <2>1, <2>2, OwnerKept
  <1>2. ASSUME NEW w \in Worker, CreateCode_SetOtp(w) PROVE OwnerInv'
    <2>1. UNCHANGED <<account, cooldown, texts, chosen>> /\ ~cooldown
      BY <1>2 DEF CreateCode_SetOtp, Running, OwnerInv
    <2>2. pc'[w] = "otp_set"
      BY <1>0, <1>2, GotoReq DEF CreateCode_SetOtp
    <2> QED
      BY <1>2, <2>1, <2>2, OwnerKept DEF Step, Running
  <1>3. ASSUME NEW w \in Worker, CreateCode_SetCooldown(w) PROVE OwnerInv'
    <2>1. texts = 0 /\ texts' = 1 /\ cooldown' /\ UNCHANGED <<account, chosen>>
      BY <1>3 DEF CreateCode_SetCooldown, Running, OwnerInv
    <2>2. Only(w)' /\ pc'[w] = "idle"
      BY <1>0, <1>3, StepAlone, FinishReq DEF Step, CreateCode_SetCooldown
    <2> QED
      BY <2>1, <2>2 DEF OwnerInv, Only, Running
  <1>4. ASSUME NEW w \in Worker,
               ResetPassword_Update(w) \/ ChangePassword_Update(w) \/ Login_Rehash(w)
        PROVE  OwnerInv'
    <2>1. account'.password = chosen' /\ UNCHANGED <<cooldown, texts>>
      BY <1>4 DEF ResetPassword_Update, ChangePassword_Update, Login_Rehash, Store, OwnerInv,
         redis, history
    <2>2. Only(w)' /\ pc'[w] \in {"idle", "updated"}
      BY <1>0, <1>4, StepAlone, FinishReq, GotoReq
         DEF Step, ResetPassword_Update, ChangePassword_Update, Login_Rehash
    <2> QED
      BY <2>1, <2>2 DEF OwnerInv, Only, Running
  <1>5. ASSUME NEW w \in Worker,
               \/ CheckCode_DelOtp(w) \/ CheckCode_SetVerified(w)
               \/ ResetPassword_GetVerified(w) \/ ResetPassword_DelVerified(w)
               \/ Refused(w) \/ Abandon(w)
        PROVE  OwnerInv'
    <2>1. UNCHANGED <<account, cooldown, texts, chosen>>
      BY <1>5 DEF CheckCode_DelOtp, CheckCode_SetVerified, ResetPassword_GetVerified,
         ResetPassword_DelVerified, Refused, Abandon, redis, history
    <2>2. pc'[w] \in {"idle", "otp_deleted", "verified_read"}
      BY <1>0, <1>5, FinishReq, GotoReq
         DEF CheckCode_DelOtp, CheckCode_SetVerified, ResetPassword_GetVerified,
             ResetPassword_DelVerified, Refused, Abandon, ReqOK
    <2> QED
      BY <1>5, <2>1, <2>2, OwnerKept DEF Step, Running
  <1>6. CASE ExpireOtp \/ ExpireVerified \/ ExpireCooldown \/ UNCHANGED vars
    <2>1. UNCHANGED <<account, pc, req, chosen>>
      BY <1>6 DEF ExpireOtp, ExpireVerified, ExpireCooldown, vars, history
    <2>2. \/ UNCHANGED <<cooldown, texts>>
          \/ ~cooldown' /\ texts' = 0
      BY <1>6 DEF ExpireOtp, ExpireVerified, ExpireCooldown, vars, history
    <2> QED
      BY <2>1, <2>2 DEF OwnerInv, Running
  <1> QED
    BY <1>1, <1>2, <1>3, <1>4, <1>5, <1>6 DEF Next, Step

LEMMA OwnerAlways == Spec => [](~overlaps => OwnerInv)
  <1>1. Init => (~overlaps => FreshInv)
    BY DEF Init, FreshInv, CodeSpent, Accepting
  <1>2. Init => (~overlaps => OwnerInv)
    BY DEF Init, OwnerInv, Running
  <1>3. TypeInv /\ (~overlaps => FreshInv) /\ (~overlaps => OwnerInv) /\ [Next]_vars
        => (~overlaps => OwnerInv)'
    <2>1. [Next]_vars => overlaps' = overlaps
      BY DEF Next, vars, environment
    <2> QED
      BY <2>1, OwnerStep
  <1> QED
    BY <1>1, <1>2, <1>3, ResetInit, TypeStep, FreshAlways, PTL DEF Spec

\* While the cooldown of createCodeResetPassword lasts no second text message is
\* sent, unless requests overlap; not even if they crash.
THEOREM TextsRationed == Spec => []OneTextPerCooldown
  <1>1. (~overlaps => OwnerInv) => OneTextPerCooldown
    BY DEF OwnerInv, OneTextPerCooldown
  <1> QED
    BY <1>1, OwnerAlways, PTL

\* Without overlap the stored password is the one the owner has set last: in
\* particular the rehash of login never brings an older one back.
THEOREM PasswordsKept == Spec => []PasswordIsChosen
  <1>1. (~overlaps => OwnerInv) => PasswordIsChosen
    BY DEF OwnerInv, PasswordIsChosen
  <1> QED
    BY <1>1, OwnerAlways, PTL

-----------------------------------------------------------------------------
(* Calm behaviours implement OneTimeCode.                                  *)

\* What OneTimeCode sees of the keys and requests.
Live == Key(otp) \ CodesOf(Accepting)
Granted == IF \E w \in Worker : Accepting(w) THEN CodesOf(Accepting)
           ELSE Key(verified) \ CodesOf(InUse)
Changed == {c \in Code : changes[c] > 0}
Used == Changed \cup CodesOf(Spending)

\* The same, with all requests but w's at rest.
CodeIf(w, b) == IF b THEN {req[w].code} ELSE {}
View(w) ==
  /\ Live = Key(otp) \ CodeIf(w, Accepting(w))
  /\ Granted = IF Accepting(w) THEN {req[w].code} ELSE Key(verified) \ CodeIf(w, InUse(w))
  /\ Used = Changed \cup CodeIf(w, Spending(w))

LEMMA ViewOfOne ==
  ASSUME NEW w \in Worker, Only(w)
  PROVE  View(w)
  <1>1. /\ {v \in Worker : Accepting(v)} = IF Accepting(w) THEN {w} ELSE {}
        /\ {v \in Worker : InUse(v)} = IF InUse(w) THEN {w} ELSE {}
        /\ {v \in Worker : Spending(v)} = IF Spending(w) THEN {w} ELSE {}
    BY DEF Only, Accepting, InUse, Spending
  <1>2. /\ CodesOf(Accepting) = CodeIf(w, Accepting(w))
        /\ CodesOf(InUse) = CodeIf(w, InUse(w))
        /\ CodesOf(Spending) = CodeIf(w, Spending(w))
    BY <1>1 DEF CodesOf, CodeIf
  <1>3. (\E v \in Worker : Accepting(v)) <=> Accepting(w)
    BY <1>1
  <1> QED
    BY <1>2, <1>3 DEF View, Live, Granted, Used, CodeIf

LEMMA ViewOfOneNext ==
  ASSUME NEW w \in Worker, Only(w)'
  PROVE  View(w)'
  <1>1. /\ {v \in Worker : Accepting(v)'} = IF Accepting(w)' THEN {w} ELSE {}
        /\ {v \in Worker : InUse(v)'} = IF InUse(w)' THEN {w} ELSE {}
        /\ {v \in Worker : Spending(v)'} = IF Spending(w)' THEN {w} ELSE {}
    BY DEF Only, Accepting, InUse, Spending
  <1>2. /\ CodesOf(Accepting)' = CodeIf(w, Accepting(w))'
        /\ CodesOf(InUse)' = CodeIf(w, InUse(w))'
        /\ CodesOf(Spending)' = CodeIf(w, Spending(w))'
    BY <1>1 DEF CodesOf, CodeIf
  <1>3. (\E v \in Worker : Accepting(v)') <=> Accepting(w)'
    BY <1>1
  <1> QED
    BY <1>2, <1>3 DEF View, Live, Granted, Used, CodeIf

\* In a calm behaviour the refinement mapping is the view.
LEMMA Mapping ==
  ASSUME Calm, Calm'
  PROVE  /\ InCalm(Codes(issued)) = Codes(issued) /\ InCalm(Codes(issued))' = Codes(issued')
         /\ InCalm(Live) = Live /\ InCalm(Live)' = Live'
         /\ InCalm(Granted) = Granted /\ InCalm(Granted)' = Granted'
         /\ InCalm(Used) = Used /\ InCalm(Used)' = Used'
  BY DEF InCalm, Codes

\* A step of OneTimeCode, in terms of the view.
LEMMA PromiseStep ==
  ASSUME Calm, Calm',
         \/ Codes(issued') = Codes(issued) /\ Live' \subseteq Live /\ Granted' \subseteq Granted /\ Used' = Used
         \/ \E c \in Code :
              \/ /\ c \notin Codes(issued) /\ Codes(issued') = Codes(issued) \cup {c} /\ Live' = {c}
                 /\ Granted' = Granted /\ Used' = Used
              \/ /\ c \in Live /\ Live' = {} /\ Granted' = {c}
                 /\ Codes(issued') = Codes(issued) /\ Used' = Used
              \/ /\ c \in Granted /\ Granted' = {} /\ Used' = Used \cup {c}
                 /\ Codes(issued') = Codes(issued) /\ Live' = Live
  PROVE  Promise!Next
  <1>1. /\ InCalm(Codes(issued)) = Codes(issued) /\ InCalm(Codes(issued))' = Codes(issued')
        /\ InCalm(Live) = Live /\ InCalm(Live)' = Live'
        /\ InCalm(Granted) = Granted /\ InCalm(Granted)' = Granted'
        /\ InCalm(Used) = Used /\ InCalm(Used)' = Used'
    BY Mapping
  <1> QED
    BY <1>1 DEF Promise!Next, Promise!Expire, Promise!Issue, Promise!Present, Promise!Change,
       Live, Granted, Used, Changed, CodesOf

LEMMA CalmStep ==
  ASSUME Calm, Calm', TypeInv, TypeInv', FreshInv, Next
  PROVE  Promise!Next
  <1>0. /\ ReqOK /\ issued \in Nat /\ MaxCodes \in Nat /\ Code = 1 .. MaxCodes
        /\ \A c \in Code : changes[c] \in Nat
        /\ otp \in Code \cup {None} /\ verified \in Code \cup {None}
        /\ ~overlaps
    BY BoundsOK DEF TypeInv, Shape, ReqOK, Code, Calm
  <1>1. ASSUME NEW w \in Worker, Begin(w) \/ Step(w) \/ Refused(w) \/ Abandon(w)
        PROVE  Only(w) /\ View(w) /\ View(w)'
    BY <1>0, <1>1, StepAlone, ViewOfOne, ViewOfOneNext
  <1>2. ASSUME NEW w \in Worker, Begin(w) \/ Step(w) \/ Refused(w) \/ Abandon(w),
               ~Accepting(w), ~InUse(w), ~Accepting(w)', ~InUse(w)',
               UNCHANGED <<otp, issued, changes>>, verified' \in {verified, None}
        PROVE  Promise!Next
    <2>1. ~Spending(w) /\ ~Spending(w)'
      BY <1>2 DEF Spending, InUse
    <2>2. Live' = Live /\ Granted' \subseteq Granted /\ Used' = Used
      BY <1>1, <1>2, <2>1 DEF View, CodeIf, Changed, Key
    <2> QED
      BY <1>2, <2>2, PromiseStep
  <1>3. ASSUME NEW w \in Worker, NEW c \in Codes(issued), CheckCode_GetOtp(w, c)
        PROVE  Promise!Next
    <2>0. /\ pc[w] = "idle" /\ pc'[w] = "otp_read" /\ req'[w].code = c
          /\ otp = c /\ UNCHANGED <<otp, verified, issued, changes>>
      BY <1>0, <1>3 DEF CheckCode_GetOtp, Start, ReqOK, redis, history
    <2>1. View(w) /\ View(w)'
      BY <1>1, <1>3 DEF Begin
    <2>a. c \in Code /\ c # None
      BY <1>0, NoneIsNothing DEF Codes, TypeInv, Shape
    <2>2. /\ ~Accepting(w) /\ ~InUse(w) /\ ~Spending(w)
          /\ Accepting(w)' /\ ~InUse(w)' /\ ~Spending(w)'
      BY <2>0 DEF Accepting, InUse, Spending
    <2>3. c \in Live /\ Live' = {} /\ Granted' = {c} /\ Used' = Used
      BY <2>0, <2>1, <2>a, <2>2 DEF View, CodeIf, Changed, Key
    <2> QED
      BY <2>0, <2>a, <2>3, PromiseStep
  <1>4. ASSUME NEW w \in Worker, Begin(w), \A c \in Codes(issued) : ~CheckCode_GetOtp(w, c)
        PROVE  Promise!Next
    <2>1. /\ pc[w] = "idle" /\ pc'[w] \in {"cooldown_read", "user_read"}
          /\ UNCHANGED <<otp, verified, issued, changes>>
      BY <1>0, <1>4 DEF Begin, CreateCode_GetCooldown, ResetPassword_FindUser,
         ChangePassword_Find, Login_Find, Start, ReqOK, redis, history
    <2> QED
      BY <1>2, <1>4, <2>1 DEF Accepting, InUse
  <1>5. ASSUME NEW w \in Worker, CreateCode_SetOtp(w)
        PROVE  Promise!Next
    <2>0. /\ pc[w] = "cooldown_read" /\ pc'[w] = "otp_set" /\ issued < MaxCodes
          /\ issued' = issued + 1 /\ otp' = issued + 1 /\ UNCHANGED <<verified, changes>>
      BY <1>0, <1>5, GotoReq DEF CreateCode_SetOtp, Running
    <2>1. View(w) /\ View(w)'
      BY <1>1, <1>5 DEF Step
    <2>2. /\ ~Accepting(w) /\ ~InUse(w) /\ ~Spending(w)
          /\ ~Accepting(w)' /\ ~InUse(w)' /\ ~Spending(w)'
      BY <2>0 DEF Accepting, InUse, Spending
    <2>3. Granted' = Granted /\ Used' = Used
      BY <2>0, <2>1, <2>2 DEF View, CodeIf, Changed
    <2>4. issued + 1 \in Code /\ issued + 1 # None
      BY <1>0, <2>0, NoneIsNothing
    <2>5. Live' = {issued + 1}
      BY <2>0, <2>1, <2>2, <2>4 DEF View, CodeIf, Key
    <2>6. issued + 1 \notin Codes(issued) /\ Codes(issued') = Codes(issued) \cup {issued + 1}
      BY <1>0, <2>0 DEF Codes
    <2> QED
      BY <2>3, <2>4, <2>5, <2>6, PromiseStep
  <1>6. ASSUME NEW w \in Worker, CheckCode_DelOtp(w) \/ CheckCode_SetVerified(w)
        PROVE  Promise!Next
    <2>0. /\ Accepting(w) /\ ~InUse(w) /\ ~InUse(w)' /\ ~Spending(w) /\ ~Spending(w)'
          /\ UNCHANGED <<issued, changes>>
      BY <1>0, <1>6, GotoReq, FinishReq
         DEF CheckCode_DelOtp, CheckCode_SetVerified, Running, Accepting, InUse, Spending, history
    <2>1. View(w) /\ View(w)'
      BY <1>1, <1>6 DEF Step
    <2>2. \/ Accepting(w)' /\ req'[w].code = req[w].code
          \/ ~Accepting(w)' /\ verified' = req[w].code
      BY <1>0, <1>6, GotoReq, FinishReq DEF CheckCode_DelOtp, CheckCode_SetVerified, Accepting
    <2>3. otp' = None
      BY <1>0, <1>6, <2>0 DEF CheckCode_DelOtp, CheckCode_SetVerified, FreshInv, Running
    <2>4. req[w].code # None
      BY <1>0, <1>6, NoneIsNothing
         DEF CheckCode_DelOtp, CheckCode_SetVerified, Running, TypeInv, Holds
    <2>5. Live' \subseteq Live /\ Granted' = Granted /\ Used' = Used
      BY <2>0, <2>1, <2>2, <2>3, <2>4 DEF View, CodeIf, Changed, Key
    <2> QED
      BY <2>0, <2>5, PromiseStep
  <1>7. ASSUME NEW w \in Worker, ResetPassword_GetVerified(w)
        PROVE  Promise!Next
    <2>0. /\ pc[w] = "user_read" /\ pc'[w] = "verified_read" /\ verified \in Code
          /\ UNCHANGED <<otp, verified, issued, changes>>
      BY <1>0, <1>7 DEF ResetPassword_GetVerified, Running, ReqOK, redis, history
    <2>1. View(w) /\ View(w)'
      BY <1>1, <1>7 DEF Step
    <2>2. req'[w].code = verified
      <3>1. req[w] \in Request
        BY <1>7 DEF ResetPassword_GetVerified, Running, TypeInv, Holds
      <3> QED
        BY <1>0, <1>7, <3>1 DEF ResetPassword_GetVerified, ReqOK, Request
    <2>3. /\ ~Accepting(w) /\ ~InUse(w) /\ ~Spending(w)
          /\ ~Accepting(w)' /\ InUse(w)' /\ Spending(w)'
      BY <2>0 DEF Accepting, InUse, Spending
    <2>4. verified # None
      BY <1>7 DEF ResetPassword_GetVerified
    <2>5. verified \in Granted /\ Granted' = {} /\ Used' = Used \cup {verified} /\ Live' = Live
      BY <2>0, <2>1, <2>2, <2>3, <2>4 DEF View, CodeIf, Changed, Key
    <2> QED
      BY <2>0, <2>5, PromiseStep
  <1>8. ASSUME NEW w \in Worker, ResetPassword_Update(w)
        PROVE  Promise!Next
    <2>0. /\ pc[w] = "verified_read" /\ pc'[w] = "updated" /\ req' = req
          /\ changes' = [changes EXCEPT ![req[w].code] = @ + 1]
          /\ UNCHANGED <<otp, verified, issued>>
      BY <1>0, <1>8, GotoReq DEF ResetPassword_Update, Running, redis
    <2>1. View(w) /\ View(w)'
      BY <1>1, <1>8 DEF Step
    <2>2. /\ ~Accepting(w) /\ InUse(w) /\ Spending(w)
          /\ ~Accepting(w)' /\ InUse(w)' /\ ~Spending(w)'
      BY <2>0 DEF Accepting, InUse, Spending
    <2>3. req[w].code \in Code
      BY <2>0 DEF TypeInv, Holds, InUse
    <2>4. Changed' = Changed \cup {req[w].code}
      BY <1>0, <2>0, <2>3 DEF Changed, TypeInv, Shape
    <2>5. Live' = Live /\ Granted' = Granted /\ Used' = Used
      BY <2>0, <2>1, <2>2, <2>4 DEF View, CodeIf
    <2> QED
      BY <2>0, <2>5, PromiseStep
  <1>9. ASSUME NEW w \in Worker, ResetPassword_DelVerified(w)
        PROVE  Promise!Next
    <2>0. /\ InUse(w) /\ ~Spending(w) /\ ~InUse(w)' /\ ~Spending(w)'
          /\ ~Accepting(w) /\ ~Accepting(w)' /\ verified' = None
          /\ UNCHANGED <<otp, issued, changes>>
      BY <1>0, <1>9, FinishReq
         DEF ResetPassword_DelVerified, Running, Accepting, InUse, Spending, history
    <2>1. View(w) /\ View(w)'
      BY <1>1, <1>9 DEF Step
    <2>2. Live' = Live /\ Granted' \subseteq Granted /\ Used' = Used
      BY <2>0, <2>1 DEF View, CodeIf, Changed, Key
    <2> QED
      BY <2>0, <2>2, PromiseStep
  <1>10. ASSUME NEW w \in Worker,
                \/ CreateCode_SetCooldown(w) \/ ChangePassword_Update(w) \/ Login_Rehash(w)
                \/ Refused(w)
         PROVE  Promise!Next
    <2>1. /\ pc[w] \in {"otp_set", "user_read"} /\ pc'[w] = "idle"
          /\ UNCHANGED <<otp, verified, issued, changes>>
      BY <1>0, <1>10, FinishReq DEF CreateCode_SetCooldown, ChangePassword_Update, Login_Rehash,
         Refused, Running, redis, history
    <2> QED
      BY <1>2, <1>10, <2>1 DEF Step, Accepting, InUse
  <1>11. ASSUME NEW w \in Worker, Abandon(w) PROVE FALSE
    BY <1>11 DEF Abandon, Calm
  <1>12. CASE ExpireOtp \/ ExpireVerified \/ ExpireCooldown
    <2>1. /\ UNCHANGED <<pc, req, issued, changes>>
          /\ otp' \in {otp, None} /\ verified' \in {verified, None}
      BY <1>12 DEF ExpireOtp, ExpireVerified, ExpireCooldown, history
    <2>2. CodesOf(Accepting)' = CodesOf(Accepting) /\ CodesOf(InUse)' = CodesOf(InUse)
          /\ CodesOf(Spending)' = CodesOf(Spending)
      BY <2>1 DEF CodesOf, Accepting, InUse, Spending
    <2>3. Live' \subseteq Live /\ Granted' \subseteq Granted /\ Used' = Used
      BY <2>1, <2>2 DEF Live, Granted, Used, Changed, Key, Accepting
    <2> QED
      BY <2>1, <2>3, PromiseStep
  <1> QED
    BY <1>3, <1>4, <1>5, <1>6, <1>7, <1>8, <1>9, <1>10, <1>11, <1>12 DEF Next, Step

LEMMA OneTimeCodeInit == Init => Promise!Init
  <1> SUFFICES ASSUME Init PROVE Promise!Init
    OBVIOUS
  <1>1. /\ CodesOf(Accepting) = {} /\ CodesOf(InUse) = {} /\ CodesOf(Spending) = {}
        /\ Key(otp) = {} /\ Key(verified) = {} /\ Codes(issued) = {}
    BY DEF Init, CodesOf, Accepting, InUse, Spending, Key, Codes
  <1>2. {c \in Code : changes[c] > 0} = {}
    BY DEF Init
  <1> QED
    BY <1>1, <1>2 DEF Promise!Init, InCalm

LEMMA OneTimeCodeStep ==
  ASSUME TypeInv, TypeInv', ~overlaps => FreshInv, [Next]_vars
  PROVE  [Promise!Next]_(Promise!vars)
  <1>1. Calm' = Calm
    BY DEF Next, vars, environment, Calm
  <1>2. CASE Calm /\ Next
    BY <1>1, <1>2, CalmStep DEF Calm
  <1>3. CASE UNCHANGED vars
    <2>1. UNCHANGED <<otp, verified, pc, req, issued, changes, overlaps, crashes>>
      BY <1>3 DEF vars
    <2> QED
      BY <2>1 DEF Promise!vars, InCalm, Calm, CodesOf, Accepting, InUse, Spending, Key, Codes
  <1>4. CASE ~Calm
    BY <1>1, <1>4 DEF Promise!vars, InCalm
  <1> QED
    BY <1>2, <1>3, <1>4

\* The Redis commands of the three handlers, when requests neither overlap nor
\* crash, are a one-time code: issued once, void once a newer one is issued,
\* accepted once, and worth one change of the password.
THEOREM ImplementsOneTimeCode == Spec => KeepsOneTimeCode
  <1>1. Init => (~overlaps => FreshInv)
    BY DEF Init, FreshInv, CodeSpent, Accepting
  <1> QED
    BY <1>1, ResetInit, TypeStep, FreshAlways, OneTimeCodeInit, OneTimeCodeStep, PTL
       DEF Spec, KeepsOneTimeCode, Promise!Spec
=============================================================================
