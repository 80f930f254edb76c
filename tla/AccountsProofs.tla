--------------------------- MODULE AccountsProofs ---------------------------
(* What the account of a phone number keeps, for any number of requests    *)
(* and any bounds: the types, the caps on codes, and the two properties    *)
(* about sessions and about trust that outlive a change of credentials.    *)
EXTENDS Accounts, FiniteSetTheorems, TLAPS

-----------------------------------------------------------------------------
(* Types.  A request that is not about to create a row works on one, and   *)
(* nothing refers to sessions to come.                                     *)

Workable ==
    /\ req \in [Reqs -> Request]
    /\ \A r \in Reqs : /\ req[r].at \notin {"idle", "create"} => req[r].uid # 0
                       /\ req[r].tok <= last.tok

TInv == TypeOK /\ Workable /\ \A s \in sessions : s.tok <= last.tok

LEMMA IdleIsRequest == Idle \in Request
<1>1. "idle" \in Phases
  BY DEF Phases
<1> QED BY <1>1, BoundsAssumption DEF Idle, Task, Request

LEMMA InitTInv == Init => TInv
<1> SUFFICES ASSUME Init PROVE TInv
  OBVIOUS
<1>1. user \in [id : 0..MaxId, susp : BOOLEAN, totp : 0..MaxSecret, pend : 0..MaxSecret]
  <2>1. PICK n \in {0, 1} : user = NewUser(1, n)
    BY Zenon DEF Init
  <2> QED BY <2>1, BoundsAssumption DEF NewUser
<1>2. codes \subseteq Code
  <2>1. \/ codes = {}
        \/ codes = {[gen |-> 1, sec |-> 1, late |-> FALSE, used |-> FALSE, uses |-> 0]}
    BY DEF Init
  <2>2. 1 \in 1..MaxSecret /\ 1 \in 0..MaxSecret /\ FALSE \in BOOLEAN /\ 0 \in Nat
    BY BoundsAssumption
  <2>3. [gen |-> 1, sec |-> 1, late |-> FALSE, used |-> FALSE, uses |-> 0] \in Code
    BY <2>2, Zenon DEF Code
  <2> QED BY <2>1, <2>3, Zenon
<1>3. reset \in [id : 0..MaxSecret, tries : Nat, guesses : Int]
  BY BoundsAssumption DEF Init, NoReset
<1>4. req \in [Reqs -> Request]
  BY IdleIsRequest DEF Init
<1>5. /\ trusted = {} /\ sessions = {} /\ swept = {} /\ last = [tok |-> 0, id |-> 1]
      /\ tries = [t \in 1..MaxTok |-> 0] /\ allowed = [t \in 1..MaxTok |-> 0]
      /\ era = 0 /\ cut = [u \in 1..MaxId |-> 0] /\ budget = MaxFaults /\ ops \in Mixes
  BY DEF Init
<1>6. \A r \in Reqs : req[r] = Idle
  BY DEF Init
<1>7. TypeOK
  BY <1>1, <1>2, <1>3, <1>4, <1>5, BoundsAssumption DEF TypeOK
<1>8. Workable /\ \A s \in sessions : s.tok <= last.tok
  BY <1>4, <1>5, <1>6 DEF Workable, Idle, Task
<1> QED BY <1>7, <1>8 DEF TInv

(* The requests after a step of one of them.                               *)
LEMMA TaskWorks ==
    ASSUME TInv, NEW r \in Reqs, NEW t \in Request, req' = [req EXCEPT ![r] = t],
           t.at \notin {"idle", "create"} => t.uid # 0, t.tok <= last'.tok,
           last'.tok >= last.tok, last'.tok \in Nat
    PROVE  Workable'
<1>1. req' \in [Reqs -> Request]
  BY DEF TInv, TypeOK
<1>2. \A q \in Reqs : q # r => req'[q] = req[q]
  BY DEF TInv, TypeOK
<1>3. req'[r] = t
  BY DEF TInv, TypeOK
<1>4. \A q \in Reqs : req[q].tok \in Nat /\ last.tok \in Nat
  BY BoundsAssumption DEF TInv, TypeOK, Request
<1> QED BY <1>1, <1>2, <1>3, <1>4 DEF TInv, Workable

LEMMA StartWorks ==
    ASSUME TInv, NEW r \in Reqs, NEW op, NEW phase \in Phases, NEW u \in 0..MaxId,
           NEW k \in 0..MaxTok, NEW e \in 0..MaxEra, Start(r, op, Task(phase, u, k, e)),
           phase = "create" \/ u # 0, k <= last.tok, last' = last
    PROVE  Workable'
<1> DEFINE t == Task(phase, u, k, e)
<1>1. t \in Request
  BY BoundsAssumption DEF Task, Request
<1>2. req' = [req EXCEPT ![r] = t]
  BY DEF Start
<1>3. /\ t.at \notin {"idle", "create"} => t.uid # 0
      /\ t.tok <= last'.tok /\ last'.tok >= last.tok /\ last'.tok \in Nat
  BY BoundsAssumption DEF Task, TInv, TypeOK
<1> HIDE DEF t
<1> QED BY <1>1, <1>2, <1>3, TaskWorks

LEMMA GoesWorks ==
    ASSUME TInv, NEW r \in Reqs, NEW phase \in Phases, Goes(r, phase),
           req[r].at \notin {"idle", "create"}, last' = last
    PROVE  Workable'
  BY DEF TInv, TypeOK, Workable, Goes, Request

LEMMA DoneWorks ==
    ASSUME TInv, NEW r \in Reqs, Done(r), last'.tok >= last.tok, last'.tok \in Nat
    PROVE  Workable'
<1>1. req' = [req EXCEPT ![r] = Idle]
  BY DEF Done
<1>2. Idle.at = "idle" /\ Idle.tok = 0
  BY DEF Idle, Task
<1>3. (Idle.at \notin {"idle", "create"} => Idle.uid # 0) /\ Idle.tok <= last'.tok
  BY <1>2
<1> HIDE DEF Idle
<1> QED BY <1>1, <1>3, IdleIsRequest, TaskWorks

(* A step that only reads.                                                 *)
LEMMA ReadTypes ==
    ASSUME TInv, Workable', UNCHANGED <<rows, tries, last, history, budget, ops>>
    PROVE  TInv'
  BY DEF TInv, TypeOK, Workable, rows, history

(* The row of the number.                                                  *)
LEMMA UserIs ==
    ASSUME TInv
    PROVE  /\ user.id \in 0..MaxId /\ user.totp \in 0..MaxSecret /\ user.pend \in 0..MaxSecret
           /\ last.tok \in 0..MaxTok /\ last.tok \in Nat /\ last.id \in 1..MaxId /\ era \in 0..MaxEra
           /\ reset.id \in 0..MaxSecret
           /\ 0 \in 0..MaxTok /\ 0 \in 0..MaxEra /\ 0 \in 0..MaxId /\ 0 \in 0..MaxSecret
           /\ 0 <= last.tok /\ \A id \in 1..last.id : id \in 0..MaxId /\ id # 0
  BY BoundsAssumption DEF TInv, TypeOK

LEMMA RequestIs ==
    ASSUME TInv, NEW r \in Reqs
    PROVE  /\ req[r] \in Request /\ req[r].at \in Phases /\ req[r].uid \in 0..MaxId
           /\ req[r].tok \in 0..MaxTok /\ req[r].tok <= last.tok
           /\ req[r].era \in 0..MaxEra /\ req[r].saw \in 0..MaxSecret /\ req[r].code \in 0..MaxSecret
           /\ req[r].at \notin {"idle", "create"} => req[r].uid \in 1..MaxId
<1>1. req[r] \in Request
  BY DEF TInv, TypeOK
<1>2. /\ req[r].at \in Phases /\ req[r].uid \in 0..MaxId /\ req[r].tok \in 0..MaxTok
      /\ req[r].era \in 0..MaxEra /\ req[r].saw \in 0..MaxSecret /\ req[r].code \in 0..MaxSecret
  BY <1>1 DEF Request
<1>3. (req[r].at \notin {"idle", "create"} => req[r].uid # 0) /\ req[r].tok <= last.tok
  BY DEF TInv, Workable
<1> QED BY <1>1, <1>2, <1>3, BoundsAssumption

LEMMA SessionIs ==
    ASSUME TInv, NEW s \in sessions
    PROVE  /\ s.tok \in 0..MaxTok /\ s.tok <= last.tok /\ s.uid \in 0..MaxId /\ s.uid # 0
           /\ s.era \in 0..MaxEra
<1>1. s \in Session /\ s.tok <= last.tok
  BY DEF TInv, TypeOK
<1>2. s.tok \in 1..MaxTok /\ s.uid \in 1..MaxId /\ s.era \in 0..MaxEra
  BY <1>1 DEF Session
<1> QED BY <1>1, <1>2, BoundsAssumption

LEMMA BeginningTypes ==
    ASSUME TInv, NEW r \in Reqs, UNCHANGED ops,
           \/ LoginCheck(r) \/ RegisterCheck(r) \/ PendingRead(r) \/ (\E op \in UserOps : Auth(r, op))
           \/ AdminReset2FA(r) \/ AdminSuspend(r) \/ APIUserSuspend(r) \/ AdminResetPassword(r)
           \/ AdminDelete(r) \/ ForgotRead(r) \/ VerifyRead(r)
    PROVE  TInv'
<1> USE UserIs, StartWorks
<1>0. UserOps \subseteq Phases /\ {"open", "second", "create", "try", "clear", "susp", "newpw",
                                    "del1", "issue", "verify"} \subseteq Phases
  BY DEF Phases
<1>1. CASE LoginCheck(r)
  <2>1. Workable'
    BY <1>0, <1>1 DEF LoginCheck
  <2> QED BY <1>1, <2>1, ReadTypes DEF LoginCheck
<1>2. CASE RegisterCheck(r)
  <2>1. Workable'
    BY <1>0, <1>2 DEF RegisterCheck
  <2> QED BY <1>2, <2>1, ReadTypes DEF RegisterCheck
<1>3. CASE PendingRead(r)
  <2>1. PICK s \in sessions : Start(r, "login", Task("try", s.uid, s.tok, s.era))
    BY <1>3 DEF PendingRead
  <2>2. Workable'
    BY <1>0, <1>3, <2>1, SessionIs DEF PendingRead
  <2> QED BY <1>3, <2>2, ReadTypes DEF PendingRead
<1>4. ASSUME NEW op \in UserOps, Auth(r, op) PROVE TInv'
  <2>1. PICK s \in sessions : Start(r, op, Task(op, s.uid, s.tok, 0))
    BY <1>4 DEF Auth
  <2>2. Workable'
    BY <1>0, <1>4, <2>1, SessionIs DEF Auth
  <2> QED BY <1>4, <2>2, ReadTypes DEF Auth
<1>5. CASE AdminReset2FA(r) \/ APIUserSuspend(r) \/ ForgotRead(r) \/ VerifyRead(r)
  <2>1. Workable'
    BY <1>0, <1>5 DEF AdminReset2FA, APIUserSuspend, ForgotRead, VerifyRead
  <2> QED BY <1>5, <2>1, ReadTypes DEF AdminReset2FA, APIUserSuspend, ForgotRead, VerifyRead
<1>6. CASE AdminSuspend(r) \/ AdminResetPassword(r) \/ AdminDelete(r)
  <2>1. Workable'
    BY <1>0, <1>6 DEF AdminSuspend, AdminResetPassword, AdminDelete
  <2> QED BY <1>6, <2>1, ReadTypes DEF AdminSuspend, AdminResetPassword, AdminDelete
<1> QED BY <1>1, <1>2, <1>3, <1>4, <1>5, <1>6

LEMMA ReadingTypes ==
    ASSUME TInv, NEW r \in Reqs, UNCHANGED ops,
           \/ LoginTrusted(r) \/ CodeJudge(r) \/ Refuse(r) \/ BeginRead(r) \/ ConfirmRead(r)
           \/ RegenRead(r) \/ DisableRead(r) \/ PasswordRead(r) \/ QuitRead(r) \/ ResetCount(r)
    PROVE  TInv'
<1> USE UserIs, DoneWorks, GoesWorks
<1>0. {"open", "pass", "mark", "begin2", "confirm2", "store", "clear", "passwd2", "del1", "rlock"} \subseteq Phases
  BY DEF Phases
<1>1. CASE CodeJudge(r)
  <2>1. ASSUME NEW c \in codes, At(r, "judge"),
               req' = [req EXCEPT ![r].at = "mark", ![r].code = c.gen], last' = last
        PROVE  Workable'
    <3>1. c.gen \in 0..MaxSecret
      BY BoundsAssumption DEF TInv, TypeOK, Code
    <3> QED BY <1>0, <2>1, <3>1 DEF At, TInv, TypeOK, Workable, Request
  <2>2. Workable'
    BY <1>0, <1>1, <2>1 DEF CodeJudge, At
  <2> QED BY <1>1, <2>2, ReadTypes DEF CodeJudge
<1>2. CASE RegenRead(r)
  <2>1. Workable'
    BY <1>0, <1>2 DEF RegenRead, At, TInv, TypeOK, Workable, Request
  <2> QED BY <1>2, <2>1, ReadTypes DEF RegenRead
<1>3. CASE Refuse(r)
  <2>1. Workable'
    BY <1>3 DEF Refuse
  <2> QED BY <1>3, <2>1, ReadTypes DEF Refuse
<1>4. CASE LoginTrusted(r) \/ BeginRead(r) \/ ConfirmRead(r) \/ DisableRead(r)
  <2>1. Workable'
    BY <1>0, <1>4 DEF LoginTrusted, BeginRead, ConfirmRead, DisableRead, At
  <2> QED BY <1>4, <2>1, ReadTypes DEF LoginTrusted, BeginRead, ConfirmRead, DisableRead
<1>5. CASE PasswordRead(r) \/ QuitRead(r) \/ ResetCount(r)
  <2>1. Workable'
    BY <1>0, <1>5 DEF PasswordRead, QuitRead, ResetCount, At
  <2> QED BY <1>5, <2>1, ReadTypes DEF PasswordRead, QuitRead, ResetCount
<1> QED BY <1>1, <1>2, <1>3, <1>4, <1>5

(* Counters, of which a number out of range has none.                      *)
LEMMA CountUp ==
    ASSUME NEW f \in [1..MaxTok -> Nat], NEW k \in 0..MaxTok
    PROVE  [f EXCEPT ![k] = @ + 1] \in [1..MaxTok -> Nat]
<1>1. \A x \in 1..MaxTok : [f EXCEPT ![k] = @ + 1][x] \in Nat
  OBVIOUS
<1> QED BY <1>1

LEMMA LastIs ==
    ASSUME NEW l \in [tok : 0..MaxTok, id : 1..MaxId], NEW n \in 0..MaxTok
    PROVE  [l EXCEPT !.tok = n] \in [tok : 0..MaxTok, id : 1..MaxId] /\ [l EXCEPT !.tok = n].tok = n
<1>1. [l EXCEPT !.tok = n] \in [tok : 0..MaxTok, id : 1..MaxId]
  OBVIOUS
<1>2. [l EXCEPT !.tok = n].tok = n
  BY Zenon
<1> QED BY <1>1, <1>2

(* Sessions that come and go.                                              *)
LEMMA InsertTypes ==
    ASSUME TInv, NEW r \in Reqs, NEW kind \in {"user", "pending"}, Insert(r, kind), Done(r),
           At(r, "open") \/ At(r, "second"),
           UNCHANGED <<user, trusted, codes, reset, tries, history, budget, ops>>
    PROVE  TInv'
<1> DEFINE new == [tok |-> last.tok + 1, kind |-> kind, uid |-> req[r].uid, era |-> req[r].era,
                   born |-> cut[req[r].uid], orphan |-> req[r].uid \in swept]
<1>1. last.tok < MaxTok /\ sessions' = sessions \cup {new}
  BY DEF Insert
<1>2. req[r].uid \in 1..MaxId /\ req[r].era \in 0..MaxEra
  BY RequestIs DEF At
<1>3. last.tok + 1 \in 1..MaxTok /\ cut[req[r].uid] \in 0..MaxEra
  <2>1. last.tok + 1 \in 1..MaxTok
    BY <1>1, UserIs, BoundsAssumption
  <2>2. cut[req[r].uid] \in 0..MaxEra
    BY <1>2 DEF TInv, TypeOK
  <2> QED BY <2>1, <2>2
<1>4. (req[r].uid \in swept) \in BOOLEAN
  OBVIOUS
<1>5. new \in Session
  BY <1>2, <1>3, <1>4, Zenon DEF Session
<1>6. /\ last' \in [tok : 0..MaxTok, id : 1..MaxId] /\ last'.tok = last.tok + 1
      /\ last.tok \in Nat
  <2>1. last \in [tok : 0..MaxTok, id : 1..MaxId] /\ last.tok \in Nat
    BY UserIs DEF TInv, TypeOK
  <2>2. PICK n \in 0..MaxTok : n = last.tok + 1
    BY <1>3
  <2>3. last' = [last EXCEPT !.tok = n]
    BY <2>2, Zenon DEF Insert
  <2> QED BY <2>1, <2>2, <2>3, LastIs
<1>7. Workable'
  BY <1>6, DoneWorks
<1>8. \A s \in sessions' : s \in Session /\ s.tok <= last'.tok
  <2>1. new.tok = last'.tok
    BY <1>6
  <2>2. \A s \in sessions : s \in Session /\ s.tok \in Nat /\ s.tok <= last.tok
    BY SessionIs DEF TInv, TypeOK
  <2> HIDE DEF new
  <2> QED BY <1>1, <1>5, <1>6, <2>1, <2>2
<1> QED BY <1>6, <1>7, <1>8 DEF TInv, TypeOK, Workable, history

LEMMA FewerSessions ==
    ASSUME TInv, Workable', sessions' \subseteq sessions, last' = last,
           UNCHANGED <<user, trusted, codes, reset, tries, era, cut, swept, allowed, budget, ops>>
    PROVE  TInv'
  BY DEF TInv, TypeOK, Workable

LEMMA DeletedAreFewer ==
    ASSUME NEW tok, NEW uid
    PROVE  /\ DeleteSession(tok) => sessions' \subseteq sessions
           /\ DeleteSessionsByUserID(uid) => sessions' \subseteq sessions
           /\ DeleteUserSessionsExcept(uid, tok) => sessions' \subseteq sessions
           /\ DeleteAllUserSessions => sessions' \subseteq sessions
  BY DEF DeleteSession, DeleteSessionsByUserID, DeleteUserSessionsExcept, DeleteAllUserSessions

LEMMA SessionTypes ==
    ASSUME TInv, NEW r \in Reqs, UNCHANGED ops,
           \/ LoginPending(r) \/ OpenSession(r) \/ SignOutOthers(r) \/ SuspendDrop(r) \/ Kill(r)
           \/ DeleteSessions(r) \/ Pass(r) \/ Lock(r)
    PROVE  TInv'
<1> USE UserIs, DeletedAreFewer
<1>0. {"kill", "del2", "trust", "open"} \subseteq Phases
  BY DEF Phases
<1>1. CASE LoginPending(r)
  BY <1>1, InsertTypes DEF LoginPending
<1>2. CASE OpenSession(r)
  BY <1>2, InsertTypes DEF OpenSession
<1>3. CASE SignOutOthers(r)
  <2>1. Workable'
    BY <1>3, DoneWorks DEF SignOutOthers
  <2> QED BY <1>3, <2>1, FewerSessions DEF SignOutOthers, history
<1>4. CASE SuspendDrop(r)
  <2>1. Workable'
    BY <1>0, <1>4, GoesWorks DEF SuspendDrop, At
  <2> QED BY <1>4, <2>1, FewerSessions DEF SuspendDrop, history
<1>5. CASE Kill(r)
  <2>1. Workable'
    BY <1>5, DoneWorks DEF Kill
  <2>2. cut' \in [1..MaxId -> 0..MaxEra]
    BY <1>5, RequestIs DEF Kill, TInv, TypeOK
  <2> QED BY <1>5, <2>1, <2>2 DEF Kill, TInv, TypeOK, Workable
<1>6. CASE DeleteSessions(r)
  <2>1. Workable'
    BY <1>0, <1>6, GoesWorks DEF DeleteSessions, At
  <2>2. swept' \subseteq 1..MaxId
    BY <1>6, RequestIs DEF DeleteSessions, At, TInv, TypeOK
  <2> QED BY <1>6, <2>1, <2>2 DEF DeleteSessions, TInv, TypeOK, Workable
<1>7. CASE Pass(r)
  <2>1. Workable'
    BY <1>0, <1>7, GoesWorks DEF Pass, AfterPass, At
  <2>2. tries' \in [1..MaxTok -> Nat]
    BY <1>7 DEF Pass, TInv, TypeOK
  <2> QED BY <1>7, <2>1, <2>2 DEF Pass, TInv, TypeOK, Workable, history
<1>8. CASE Lock(r)
  <2>1. Workable'
    BY <1>8, DoneWorks DEF Lock
  <2>2. tries' \in [1..MaxTok -> Nat]
    BY <1>8 DEF Lock, TInv, TypeOK
  <2> QED BY <1>8, <2>1, <2>2 DEF Lock, TInv, TypeOK, Workable, history
<1> QED BY <1>1, <1>2, <1>3, <1>4, <1>5, <1>6, <1>7, <1>8

(* The second factor, its counter and what it leaves behind.               *)
LEMMA SpareIsFresh ==
    ASSUME NEW used, Spare(used)
    PROVE  Fresh(used) \in 1..MaxSecret /\ Fresh(used) \notin used
  BY DEF Spare, Fresh

LEMMA TokenTypes ==
    ASSUME NEW sec \in 0..MaxSecret, NEW late \in BOOLEAN
    PROVE  [sec |-> sec, late |-> late] \in Token
  BY Zenon DEF Token

LEMMA MarkTypes ==
    ASSUME TInv, NEW S
    PROVE  Mark(trusted, S) \subseteq Token /\ Mark(codes, S) \subseteq Code
<1>1. ASSUME NEW t \in trusted PROVE t \in Token /\ [t EXCEPT !.late = TRUE] \in Token
  BY DEF TInv, TypeOK, Token
<1>2. ASSUME NEW c \in codes PROVE c \in Code /\ [c EXCEPT !.late = TRUE] \in Code
  BY DEF TInv, TypeOK, Code
<1> QED BY <1>1, <1>2, Zenon DEF Mark

LEMMA SecondTypes ==
    ASSUME TInv, NEW r \in Reqs, UNCHANGED ops,
           \/ PendingTry(r) \/ CodeMark(r) \/ TrustIssue(r) \/ BeginWrite(r) \/ ConfirmWrite(r)
           \/ StoreCodes(r) \/ RevokeDevice(r) \/ RevokeAllDevices(r)
    PROVE  TInv'
<1> USE UserIs, RequestIs, DoneWorks, GoesWorks
<1>0. {"judge", "lock", "pass", "open", "store"} \subseteq Phases
  BY DEF Phases
<1>1. CASE PendingTry(r)
  <2>1. Workable'
    <3>1. CASE Done(r)
      BY <1>1, <3>1 DEF PendingTry
    <3>2. CASE Goes(r, "lock")
      BY <1>0, <1>1, <3>2 DEF PendingTry, At
    <3>3. CASE req' = [req EXCEPT ![r].at = "judge", ![r].saw = user.totp]
      <4>1. last' = last /\ req[r].at = "try"
        BY <1>1 DEF PendingTry, At
      <4> QED BY <1>0, <3>3, <4>1 DEF TInv, TypeOK, Workable, Request
    <3> QED BY <1>1, <3>1, <3>2, <3>3 DEF PendingTry
  <2>0. /\ tries \in [1..MaxTok -> Nat] /\ allowed \in [1..MaxTok -> Nat]
        /\ req[r].tok \in 0..MaxTok
    BY RequestIs DEF TInv, TypeOK
  <2>2. tries' \in [1..MaxTok -> Nat]
    <3>1. tries' = tries \/ tries' = [tries EXCEPT ![req[r].tok] = @ + 1]
      BY <1>1, Zenon DEF PendingTry
    <3> QED BY <2>0, <3>1, CountUp
  <2>3. allowed' \in [1..MaxTok -> Nat]
    <3>1. allowed' = allowed \/ allowed' = [allowed EXCEPT ![req[r].tok] = @ + 1]
      BY <1>1, Zenon DEF PendingTry
    <3> QED BY <2>0, <3>1, CountUp
  <2>4. UNCHANGED <<rows, last, era, cut, swept, budget>>
    BY <1>1 DEF PendingTry
  <2> QED BY <2>1, <2>2, <2>3, <2>4 DEF TInv, TypeOK, Workable, rows
<1>2. CASE CodeMark(r)
  <2>1. Workable'
    BY <1>0, <1>2 DEF CodeMark, At
  <2>2. ASSUME NEW c \in codes PROVE c \in Code /\ Served(c, TRUE) \in Code
    <3>1. c \in Code
      BY DEF TInv, TypeOK
    <3>2. c.gen \in 1..MaxSecret /\ c.sec \in 0..MaxSecret /\ c.late \in BOOLEAN /\ c.uses + 1 \in Nat
      BY <3>1 DEF Code
    <3> QED BY <3>1, <3>2, Zenon DEF Served, Code
  <2>3. codes' \subseteq Code
    BY <1>2, <2>2, Zenon DEF CodeMark
  <2> QED BY <1>2, <2>1, <2>3 DEF CodeMark, TInv, TypeOK, Workable, history
<1>3. CASE TrustIssue(r)
  <2>1. Workable'
    BY <1>0, <1>3 DEF TrustIssue, At
  <2>2. (req[r].saw # user.totp) \in BOOLEAN
    BY Zenon
  <2>3. trusted' \subseteq Token
    BY <1>3, <2>2, TokenTypes DEF TrustIssue, CreateTrustedDevice, TInv, TypeOK
  <2> QED BY <1>3, <2>1, <2>3 DEF TrustIssue, TInv, TypeOK, Workable, history
<1>4. CASE BeginWrite(r)
  <2>1. Workable'
    BY <1>4 DEF BeginWrite
  <2>2. Fresh(SecretsInUse) \in 0..MaxSecret
    BY <1>4, SpareIsFresh, BoundsAssumption DEF BeginWrite
  <2>3. user' \in [id : 0..MaxId, susp : BOOLEAN, totp : 0..MaxSecret, pend : 0..MaxSecret]
    BY <1>4, <2>2 DEF BeginWrite, TInv, TypeOK
  <2> QED BY <1>4, <2>1, <2>3 DEF BeginWrite, TInv, TypeOK, Workable, history
<1>5. CASE ConfirmWrite(r)
  <2>1. Workable'
    <3>1. CASE req' = [req EXCEPT ![r].at = "store", ![r].saw = user.pend]
      BY <1>0, <1>5, <3>1 DEF ConfirmWrite, At, TInv, TypeOK, Workable, Request
    <3> QED BY <1>0, <1>5, <3>1 DEF ConfirmWrite, At
  <2>2. user' \in [id : 0..MaxId, susp : BOOLEAN, totp : 0..MaxSecret, pend : 0..MaxSecret]
    <3>1. WithSecret(user.pend) \in [id : 0..MaxId, susp : BOOLEAN, totp : 0..MaxSecret, pend : 0..MaxSecret]
      BY DEF WithSecret, TInv, TypeOK
    <3> QED BY <1>5, <3>1 DEF ConfirmWrite, TInv, TypeOK
  <2>3. trusted' \subseteq Token /\ codes' \subseteq Code
    BY <1>5, MarkTypes DEF ConfirmWrite, Slip, TInv, TypeOK
  <2>4. UNCHANGED <<sessions, reset, tries, last, history, budget>>
    BY <1>5 DEF ConfirmWrite
  <2> QED BY <2>1, <2>2, <2>3, <2>4 DEF TInv, TypeOK, Workable, history
<1>6. CASE StoreCodes(r)
  <2>1. Workable'
    BY <1>6 DEF StoreCodes
  <2>2. Fresh(GensInUse) \in 1..MaxSecret
    BY <1>6, SpareIsFresh DEF StoreCodes
  <2>3. (req[r].saw \notin {user.totp} \ {0}) \in BOOLEAN
    BY Zenon
  <2>4. [gen |-> Fresh(GensInUse), sec |-> req[r].saw, used |-> FALSE, uses |-> 0,
         late |-> req[r].saw \notin {user.totp} \ {0}] \in Code
    BY <2>2, <2>3, SMT DEF Code
  <2>5. codes' \subseteq Code
    BY <1>6, <2>4 DEF StoreCodes, ReplaceBackupCodes, TInv, TypeOK
  <2> QED BY <1>6, <2>1, <2>5 DEF StoreCodes, TInv, TypeOK, Workable, history
<1>7. CASE RevokeDevice(r) \/ RevokeAllDevices(r)
  <2>1. Workable'
    BY <1>7 DEF RevokeDevice, RevokeAllDevices
  <2>2. trusted' \subseteq trusted
    BY <1>7 DEF RevokeDevice, RevokeAllDevices
  <2>3. UNCHANGED <<user, sessions, codes, reset, tries, last, history, budget>>
    BY <1>7 DEF RevokeDevice, RevokeAllDevices
  <2> QED BY <2>1, <2>2, <2>3 DEF TInv, TypeOK, Workable, history
<1> QED BY <1>1, <1>2, <1>3, <1>4, <1>5, <1>6, <1>7

(* Changes of credentials and of the row.                                  *)
LEMMA EraUp ==
    ASSUME TInv, era < MaxEra
    PROVE  era + 1 \in 0..MaxEra
  BY UserIs, BoundsAssumption

LEMMA RewriteWorks ==
    ASSUME TInv, NEW r \in Reqs, NEW phase \in Phases, NEW e \in 0..MaxEra, NEW n \in 0..MaxSecret,
           req[r].at \notin {"idle", "create"}, last' = last,
           req' = [req EXCEPT ![r].at = phase, ![r].era = e, ![r].saw = n]
    PROVE  Workable'
<1>1. req \in [Reqs -> Request] /\ req[r] \in Request
  BY DEF TInv, TypeOK
<1>2. /\ req'[r] = [at |-> phase, uid |-> req[r].uid, tok |-> req[r].tok, era |-> e,
                   saw |-> n, code |-> req[r].code]
      /\ \A q \in Reqs : q # r => req'[q] = req[q]
  BY <1>1 DEF Request
<1>3. req' \in [Reqs -> Request]
  BY <1>1 DEF Request
<1>4. req[r].uid # 0 /\ req[r].tok <= last.tok /\ last.tok \in Nat
  BY UserIs DEF TInv, Workable
<1>5. req'[r].uid = req[r].uid /\ req'[r].tok = req[r].tok
  BY <1>2
<1> QED BY <1>2, <1>3, <1>4, <1>5 DEF TInv, Workable

LEMMA ChangeTypes ==
    ASSUME TInv, NEW r \in Reqs, UNCHANGED ops,
           \/ PasswordWrite(r) \/ Clear1(r) \/ Clear2(r) \/ Clear3(r) \/ SuspendRow(r)
           \/ NewPassword(r)
    PROVE  TInv'
<1> USE UserIs, RequestIs, DoneWorks, GoesWorks, EraUp
<1>0. {"clear2", "clear3", "kill", "drop", "resetDel"} \subseteq Phases
  BY DEF Phases
<1>1. CASE PasswordWrite(r)
  <2>1. Workable'
    BY <1>1 DEF PasswordWrite
  <2>2. era' \in 0..MaxEra
    BY <1>1 DEF PasswordWrite
  <2> QED BY <1>1, <2>1, <2>2 DEF PasswordWrite, TInv, TypeOK, Workable, rows
<1>2. CASE Clear1(r)
  <2>1. era' \in 0..MaxEra /\ era' = era + 1
    BY <1>2 DEF Clear1
  <2>2. PICK n \in 0..MaxSecret : req' = [req EXCEPT ![r].at = "clear2", ![r].era = era + 1, ![r].saw = n]
    BY <1>2 DEF Clear1
  <2>3. Workable'
    <3>1. last' = last /\ req[r].at = "clear"
      BY <1>2 DEF Clear1, At
    <3> QED BY <1>0, <2>1, <2>2, <3>1, RewriteWorks
  <2>4. user' \in [id : 0..MaxId, susp : BOOLEAN, totp : 0..MaxSecret, pend : 0..MaxSecret]
    <3>1. WithSecret(0) \in [id : 0..MaxId, susp : BOOLEAN, totp : 0..MaxSecret, pend : 0..MaxSecret]
      BY DEF WithSecret, TInv, TypeOK
    <3> QED BY <1>2, <3>1, Zenon DEF Clear1, TInv, TypeOK
  <2>5. UNCHANGED <<sessions, trusted, codes, reset, tries, last, cut, swept, allowed, budget>>
    BY <1>2 DEF Clear1
  <2> QED BY <2>1, <2>3, <2>4, <2>5 DEF TInv, TypeOK, Workable
<1>3. CASE Clear2(r)
  <2>1. Workable'
    BY <1>0, <1>3 DEF Clear2, At
  <2>2. codes' \subseteq codes
    BY <1>3 DEF Clear2
  <2> QED BY <1>3, <2>1, <2>2 DEF Clear2, TInv, TypeOK, Workable, history
<1>4. CASE Clear3(r)
  <2>1. Workable'
    BY <1>0, <1>4 DEF Clear3, At
  <2>2. trusted' \subseteq trusted
    BY <1>4 DEF Clear3
  <2> QED BY <1>4, <2>1, <2>2 DEF Clear3, TInv, TypeOK, Workable, history
<1>5. CASE SuspendRow(r)
  <2>1. era' \in 0..MaxEra /\ era' = era + 1
    BY <1>5 DEF SuspendRow
  <2>2. Workable'
    <3>1. last' = last /\ req[r].at = "susp" /\ req' = [req EXCEPT ![r].at = "drop", ![r].era = era + 1]
      BY <1>5 DEF SuspendRow, At
    <3> QED BY <1>0, <2>1, <3>1 DEF TInv, TypeOK, Workable, Request
  <2>3. user' \in [id : 0..MaxId, susp : BOOLEAN, totp : 0..MaxSecret, pend : 0..MaxSecret]
    BY <1>5 DEF SuspendRow, TInv, TypeOK
  <2>4. UNCHANGED <<sessions, trusted, codes, reset, tries, last, cut, swept, allowed, budget>>
    BY <1>5 DEF SuspendRow
  <2> QED BY <2>1, <2>2, <2>3, <2>4 DEF TInv, TypeOK, Workable
<1>6. CASE NewPassword(r)
  <2>1. era' \in 0..MaxEra /\ era' = era + 1
    BY <1>6 DEF NewPassword
  <2>2. PICK phase \in Phases : req' = [req EXCEPT ![r].at = phase, ![r].era = era + 1]
    BY <1>0, <1>6 DEF NewPassword
  <2>3. Workable'
    <3>1. last' = last /\ req[r].at = "newpw"
      BY <1>6 DEF NewPassword, At
    <3> QED BY <2>1, <2>2, <3>1 DEF TInv, TypeOK, Workable, Request
  <2>4. UNCHANGED <<rows, tries, last, cut, swept, allowed, budget>>
    BY <1>6 DEF NewPassword
  <2> QED BY <2>1, <2>3, <2>4 DEF TInv, TypeOK, Workable, rows
<1> QED BY <1>1, <1>2, <1>3, <1>4, <1>5, <1>6

LEMMA ResetTypes ==
    ASSUME TInv, NEW r \in Reqs, UNCHANGED ops,
           \/ ResetIssue(r) \/ ResetJudge(r) \/ ResetDelete(r) \/ ResetBump(r) \/ ResetLock(r)
    PROVE  TInv'
<1> USE UserIs, RequestIs, DoneWorks, GoesWorks
<1>0. {"bump", "newpw", "kill", "count"} \subseteq Phases
  BY DEF Phases
<1>1. NoReset \in [id : 0..MaxSecret, tries : Nat, guesses : Int]
      /\ reset \in [id : 0..MaxSecret, tries : Nat, guesses : Int]
  <2>1. 0 \in 0..MaxSecret
    BY UserIs
  <2>2. NoReset \in [id : 0..MaxSecret, tries : Nat, guesses : Int]
    BY <2>1 DEF NoReset
  <2> QED BY <2>2 DEF TInv, TypeOK
<1>2. UNCHANGED <<user, sessions, trusted, codes, tries, last, history, budget>>
  BY DEF ResetIssue, ResetJudge, ResetDelete, ResetBump, ResetLock
<1>3. Workable' /\ reset' \in [id : 0..MaxSecret, tries : Nat, guesses : Int]
  <2>1. CASE ResetIssue(r)
    <3>1. Workable'
      BY <2>1 DEF ResetIssue
    <3>2. CASE UNCHANGED reset
      BY <1>1, <3>1, <3>2
    <3>3. CASE Spare(ResetsInUse) /\ reset' = [id |-> Fresh(ResetsInUse), tries |-> 0, guesses |-> 0]
      <4>1. Fresh(ResetsInUse) \in 0..MaxSecret
        BY <3>3, SpareIsFresh, BoundsAssumption
      <4> QED BY <3>1, <3>3, <4>1
    <3> QED BY <2>1, <3>2, <3>3 DEF ResetIssue
  <2>2. CASE ResetJudge(r)
    <3>1. CASE Done(r) /\ UNCHANGED reset
      BY <1>1, <1>2, <3>1
    <3>2. ASSUME NEW phase \in Phases, req' = [req EXCEPT ![r].at = phase, ![r].saw = reset.id]
          PROVE  Workable'
      BY <1>2, <2>2, <3>2 DEF ResetJudge, At, TInv, TypeOK, Workable, Request
    <3>3. \/ reset' = reset
          \/ reset' = [reset EXCEPT !.guesses = @ + 1]
      BY <2>2 DEF ResetJudge
    <3>4. reset' \in [id : 0..MaxSecret, tries : Nat, guesses : Int]
      BY <1>1, <3>3
    <3>5. \/ Done(r) /\ UNCHANGED reset
          \/ req' = [req EXCEPT ![r].at = "bump", ![r].saw = reset.id]
          \/ req' = [req EXCEPT ![r].at = "newpw", ![r].saw = reset.id]
      BY <2>2, Zenon DEF ResetJudge
    <3> QED BY <1>0, <3>1, <3>2, <3>4, <3>5
  <2>3. CASE ResetDelete(r)
    BY <1>0, <1>1, <1>2, <2>3 DEF ResetDelete, DropReset, At
  <2>4. CASE ResetBump(r)
    <3>1. Workable'
      BY <1>0, <1>2, <2>4 DEF ResetBump, At
    <3>2. \/ reset' = reset
          \/ reset' = [reset EXCEPT !.tries = @ + 1]
      BY <2>4 DEF ResetBump
    <3> QED BY <1>1, <3>1, <3>2
  <2>5. CASE ResetLock(r)
    BY <1>1, <1>2, <2>5 DEF ResetLock, DropReset
  <2> QED BY <2>1, <2>2, <2>3, <2>4, <2>5
<1> QED BY <1>2, <1>3 DEF TInv, TypeOK, Workable, history

LEMMA RowTypes ==
    ASSUME TInv, NEW r \in Reqs, UNCHANGED ops, CreateUser(r) \/ DeleteRow(r)
    PROVE  TInv'
<1> USE UserIs, RequestIs, DoneWorks
<1>1. CASE CreateUser(r)
  <2>1. CASE Done(r) /\ UNCHANGED <<user, last>>
    <3>1. UNCHANGED <<sessions, trusted, codes, reset, tries, history, budget>>
      BY <1>1 DEF CreateUser
    <3>2. Workable'
      BY <2>1
    <3> QED BY <2>1, <3>1, <3>2 DEF TInv, TypeOK, Workable, history
  <2>2. CASE last.id < MaxId /\ last' = [last EXCEPT !.id = @ + 1] /\ user' = NewUser(last.id + 1, 0)
             /\ req' = [req EXCEPT ![r] = Task("open", last.id + 1, 0, era)]
    <3>1. last.id + 1 \in 1..MaxId
      BY <2>2, BoundsAssumption
    <3>2. last' \in [tok : 0..MaxTok, id : 1..MaxId] /\ last'.tok = last.tok
      BY <2>2, <3>1 DEF TInv, TypeOK
    <3>3. Task("open", last.id + 1, 0, era) \in Request
      BY <3>1 DEF Task, Request, Phases
    <3>4. Task("open", last.id + 1, 0, era).uid # 0 /\ Task("open", last.id + 1, 0, era).tok = 0
      BY <3>1 DEF Task
    <3>5. Workable'
      <4> DEFINE t == Task("open", last.id + 1, 0, era)
      <4>1. t \in Request /\ t.uid # 0 /\ t.tok = 0 /\ req' = [req EXCEPT ![r] = t]
        BY <2>2, <3>3, <3>4
      <4>2. /\ t.at \notin {"idle", "create"} => t.uid # 0
            /\ t.tok <= last'.tok /\ last'.tok >= last.tok /\ last'.tok \in Nat
        BY <3>2, <4>1, UserIs
      <4> HIDE DEF t
      <4> QED BY <4>1, <4>2, TaskWorks
    <3>6. user' \in [id : 0..MaxId, susp : BOOLEAN, totp : 0..MaxSecret, pend : 0..MaxSecret]
      BY <2>2, <3>1 DEF NewUser
    <3>7. UNCHANGED <<sessions, trusted, codes, reset, tries, history, budget>>
      BY <1>1 DEF CreateUser
    <3> QED BY <3>2, <3>5, <3>6, <3>7 DEF TInv, TypeOK, Workable, history
  <2> QED BY <1>1, <2>1, <2>2 DEF CreateUser
<1>2. CASE DeleteRow(r)
  <2>1. NoUser \in [id : 0..MaxId, susp : BOOLEAN, totp : 0..MaxSecret, pend : 0..MaxSecret]
        /\ NoReset \in [id : 0..MaxSecret, tries : Nat, guesses : Int]
    BY DEF NoUser, NewUser, NoReset
  <2>2. Workable'
    BY <1>2 DEF DeleteRow
  <2> HIDE DEF NoUser, NoReset
  <2> QED BY <1>2, <2>1, <2>2 DEF DeleteRow, TInv, TypeOK, Workable, history
<1> QED BY <1>1, <1>2

LEMMA OthersTypes ==
    ASSUME TInv, UNCHANGED ops,
           \/ AdminUnsuspend \/ Panic \/ ResetExpires
           \/ (\E tok \in 1..MaxTok : Logout(tok) \/ AdminSessionRevoke(tok) \/ SessionExpires(tok))
           \/ (\E t \in trusted : TrustExpires(t))
    PROVE  TInv'
<1>1. CASE AdminUnsuspend
  BY <1>1 DEF AdminUnsuspend, TInv, TypeOK, Workable, history
<1>2. CASE Panic
  <2>1. era + 1 \in 0..MaxEra
    BY <1>2, EraUp DEF Panic
  <2>2. sessions' \subseteq sessions
    BY <1>2, DeletedAreFewer DEF Panic
  <2> QED BY <1>2, <2>1, <2>2 DEF Panic, TInv, TypeOK, Workable
<1>3. CASE ResetExpires
  BY <1>3, UserIs DEF ResetExpires, NoReset, TInv, TypeOK, Workable, history
<1>4. ASSUME NEW tok \in 1..MaxTok, EndSession(tok)
      PROVE  TInv'
  <2>1. sessions' \subseteq sessions
    BY <1>4, DeletedAreFewer DEF EndSession
  <2> QED BY <1>4, <2>1 DEF EndSession, TInv, TypeOK, Workable, history
<1>5. CASE \E t \in trusted : TrustExpires(t)
  BY <1>5 DEF TrustExpires, TInv, TypeOK, Workable, history
<1> QED BY <1>1, <1>2, <1>3, <1>4, <1>5 DEF Logout, AdminSessionRevoke, SessionExpires

(* Failures.                                                               *)
LEMMA Budgets ==
    ASSUME TInv, NEW kind, Fault(kind)
    PROVE  budget' \in 0..MaxFaults
  BY BoundsAssumption DEF Fault, TInv, TypeOK

LEMMA ForgiveTypes ==
    ASSUME TInv, NEW R, R \subseteq Reqs, Forgive(R)
    PROVE  reset' \in [id : 0..MaxSecret, tries : Nat, guesses : Int]
<1>1. IsFiniteSet(Forgiven(R))
  <2>1. Forgiven(R) \subseteq Reqs
    BY DEF Forgiven
  <2> QED BY <2>1, RequestsAssumption, FS_Subset
<1>2. Cardinality(Forgiven(R)) \in Nat
  BY <1>1, FS_CardinalityType
<1> QED BY <1>2 DEF Forgive, TInv, TypeOK

LEMMA RecountTypes ==
    ASSUME TInv, NEW toks, Recount(toks)
    PROVE  tries' \in [1..MaxTok -> Nat] /\ allowed' \in [1..MaxTok -> Nat]
  BY DEF Recount, TInv, TypeOK

LEMMA FaultTypes ==
    ASSUME TInv, UNCHANGED ops, Crash \/ \E r \in Reqs : Abort(r) \/ Skip(r)
    PROVE  TInv'
<1>0. {"kill", "del2", "open", "trust"} \subseteq Phases
  BY DEF Phases
<1>1. ASSUME NEW r \in Reqs, Abort(r) PROVE TInv'
  <2>1. Workable'
    BY <1>1, DoneWorks, UserIs DEF Abort
  <2>2. trusted' \subseteq Token /\ codes' \subseteq Code
    BY <1>1, MarkTypes DEF Abort, Slip
  <2>3. budget' \in 0..MaxFaults /\ reset' \in [id : 0..MaxSecret, tries : Nat, guesses : Int]
    BY <1>1, Budgets, ForgiveTypes DEF Abort
  <2>4. tries' \in [1..MaxTok -> Nat] /\ allowed' \in [1..MaxTok -> Nat]
    BY <1>1, RecountTypes DEF Abort
  <2>5. UNCHANGED <<user, sessions, last, era, cut, swept>>
    BY <1>1 DEF Abort
  <2> QED BY <2>1, <2>2, <2>3, <2>4, <2>5 DEF TInv, TypeOK, Workable
<1>2. ASSUME NEW r \in Reqs, Skip(r) PROVE TInv'
  <2>1. Workable'
    BY <1>0, <1>2, DoneWorks, GoesWorks, UserIs DEF Skip, AfterPass, At
  <2>2. budget' \in 0..MaxFaults /\ reset' \in [id : 0..MaxSecret, tries : Nat, guesses : Int]
    BY <1>2, Budgets, ForgiveTypes DEF Skip
  <2>3. tries' \in [1..MaxTok -> Nat] /\ allowed' \in [1..MaxTok -> Nat]
    BY <1>2, RecountTypes DEF Skip
  <2>4. UNCHANGED <<user, sessions, trusted, codes, last, era, cut, swept>>
    BY <1>2 DEF Skip
  <2> QED BY <2>1, <2>2, <2>3, <2>4 DEF TInv, TypeOK, Workable
<1>3. CASE Crash
  <2>1. Workable'
    <3>1. req' \in [Reqs -> Request]
      BY <1>3, IdleIsRequest DEF Crash
    <3>2. \A r \in Reqs : req'[r].at = "idle" /\ req'[r].tok = 0
      BY <1>3 DEF Crash, Idle, Task
    <3>3. last' = last
      BY <1>3 DEF Crash
    <3> QED BY <3>1, <3>2, <3>3, UserIs DEF Workable
  <2>2. trusted' \subseteq Token /\ codes' \subseteq Code
    BY <1>3, MarkTypes DEF Crash, Slip
  <2>3. budget' \in 0..MaxFaults /\ reset' \in [id : 0..MaxSecret, tries : Nat, guesses : Int]
    BY <1>3, Budgets, ForgiveTypes DEF Crash
  <2>4. tries' \in [1..MaxTok -> Nat] /\ allowed' \in [1..MaxTok -> Nat]
    BY <1>3, RecountTypes DEF Crash
  <2>5. UNCHANGED <<user, sessions, last, era, cut, swept>>
    BY <1>3 DEF Crash
  <2> QED BY <2>1, <2>2, <2>3, <2>4, <2>5 DEF TInv, TypeOK, Workable
<1> QED BY <1>1, <1>2, <1>3

LEMMA NextTypes == TInv /\ [Next]_vars => TInv'
<1> SUFFICES ASSUME TInv, [Next]_vars PROVE TInv'
  OBVIOUS
<1>1. CASE UNCHANGED vars
  BY <1>1 DEF vars, TInv, TypeOK, Workable, rows, history
<1>2. CASE Next
  <2>1. UNCHANGED ops
    BY <1>2 DEF Next
  <2>2. ASSUME NEW r \in Reqs, Step(r) PROVE TInv'
    BY <2>1, <2>2, BeginningTypes, ReadingTypes, SessionTypes, SecondTypes, ChangeTypes,
       ResetTypes, RowTypes, FaultTypes, Zenon DEF Step
  <2> QED BY <1>2, <2>1, <2>2, OthersTypes, FaultTypes, Zenon DEF Next
<1> QED BY <1>1, <1>2

(* Every reachable state has the types of the tables and of the requests.  *)
THEOREM AccountTypes == Spec => []TypeOK
<1>1. Spec => []TInv
  BY InitTInv, NextTypes, PTL DEF Spec
<1>2. TInv => TypeOK
  BY DEF TInv
<1> QED BY <1>1, <1>2, PTL
-----------------------------------------------------------------------------
(* Most steps touch none of what the properties speak of: they delete      *)
(* sessions and trusted browsers at most, and leave alone the requests     *)
(* whose next statement matters.                                           *)

Watched == {"try", "mark", "clear2", "clear3", "bump", "count", "rlock"}

Steady ==
    /\ \A q \in Reqs : req[q].at \in Watched \/ req'[q].at \in Watched => req'[q] = req[q]
    /\ user'.id = user.id /\ user'.totp = user.totp
    /\ UNCHANGED <<codes, reset, tries, last, allowed, cut, swept>>
    /\ trusted' \subseteq trusted /\ sessions' \subseteq sessions

Plain(r) ==
    \/ LoginCheck(r) \/ RegisterCheck(r) \/ (\E op \in UserOps : Auth(r, op)) \/ AdminReset2FA(r)
    \/ AdminSuspend(r) \/ APIUserSuspend(r) \/ AdminResetPassword(r) \/ AdminDelete(r)
    \/ ForgotRead(r) \/ VerifyRead(r)
    \/ LoginTrusted(r) \/ Refuse(r) \/ BeginRead(r) \/ ConfirmRead(r) \/ RegenRead(r)
    \/ DisableRead(r) \/ PasswordRead(r) \/ QuitRead(r) \/ SignOutOthers(r) \/ SuspendDrop(r)
    \/ BeginWrite(r) \/ PasswordWrite(r) \/ SuspendRow(r) \/ NewPassword(r)
    \/ RevokeDevice(r) \/ RevokeAllDevices(r)

PlainOfOthers ==
    \/ AdminUnsuspend
    \/ \E tok \in 1..MaxTok : Logout(tok) \/ AdminSessionRevoke(tok) \/ SessionExpires(tok)
    \/ \E t \in trusted : TrustExpires(t)

(* The steps that are not plain.                                           *)
Special(r) ==
    \/ PendingRead(r) \/ CodeJudge(r) \/ ResetCount(r) \/ LoginPending(r) \/ OpenSession(r)
    \/ Kill(r) \/ DeleteSessions(r) \/ Pass(r) \/ Lock(r) \/ PendingTry(r) \/ CodeMark(r)
    \/ TrustIssue(r) \/ ConfirmWrite(r) \/ StoreCodes(r) \/ Clear1(r) \/ Clear2(r) \/ Clear3(r)
    \/ ResetIssue(r) \/ ResetJudge(r) \/ ResetDelete(r) \/ ResetBump(r) \/ ResetLock(r)
    \/ CreateUser(r) \/ DeleteRow(r) \/ Abort(r) \/ Skip(r)

LEMMA NextIs ==
    ASSUME Next
    PROVE  \/ \E r \in Reqs : Plain(r) \/ Special(r)
           \/ PlainOfOthers \/ Panic \/ ResetExpires \/ Crash
  BY Zenon DEF Next, Step, Plain, PlainOfOthers, Special

LEMMA OneMoves ==
    ASSUME TInv, NEW r \in Reqs, NEW v, req' = [req EXCEPT ![r] = v]
    PROVE  req'[r] = v /\ \A q \in Reqs : q # r => req'[q] = req[q]
  BY DEF TInv, TypeOK

LEMMA GoesTo ==
    ASSUME TInv, NEW r \in Reqs, NEW phase, Goes(r, phase)
    PROVE  /\ req'[r].at = phase /\ \A q \in Reqs : q # r => req'[q] = req[q]
           /\ req'[r].uid = req[r].uid /\ req'[r].tok = req[r].tok /\ req'[r].era = req[r].era
           /\ req'[r].saw = req[r].saw /\ req'[r].code = req[r].code
  BY DEF Goes, TInv, TypeOK, Request

LEMMA DoneIs ==
    ASSUME TInv, NEW r \in Reqs, Done(r)
    PROVE  /\ req'[r].at = "idle" /\ \A q \in Reqs : q # r => req'[q] = req[q]
<1>1. Idle.at = "idle"
  BY DEF Idle, Task
<1>2. req' = [req EXCEPT ![r] = Idle]
  BY DEF Done
<1> HIDE DEF Idle
<1> QED BY <1>1, <1>2, OneMoves

LEMMA StartIs ==
    ASSUME TInv, NEW r \in Reqs, NEW op, NEW phase, NEW u, NEW k, NEW e,
           Start(r, op, Task(phase, u, k, e))
    PROVE  /\ req[r].at = "idle" /\ req'[r].at = phase /\ req'[r].tok = k
           /\ \A q \in Reqs : q # r => req'[q] = req[q]
<1> DEFINE t == Task(phase, u, k, e)
<1>1. Idle.at = "idle" /\ t.at = phase /\ t.tok = k
  BY DEF Idle, Task
<1>2. req[r] = Idle /\ req' = [req EXCEPT ![r] = t]
  BY DEF Start
<1> HIDE DEF Idle, t
<1> QED BY <1>1, <1>2, OneMoves

LEMMA PlainIsSteady ==
    ASSUME TInv, NEW r \in Reqs, Plain(r)
    PROVE  Steady
<1> USE DeletedAreFewer, GoesTo, DoneIs, StartIs DEF Watched
<1>1. CASE LoginCheck(r)
  BY <1>1 DEF LoginCheck, Steady, rows, history
<1>2. CASE RegisterCheck(r)
  BY <1>2 DEF RegisterCheck, Steady, rows, history
<1>3. ASSUME NEW op \in UserOps, Auth(r, op) PROVE Steady
  <2>1. PICK s \in sessions : Start(r, op, Task(op, s.uid, s.tok, 0))
    BY <1>3 DEF Auth
  <2>2. UNCHANGED <<rows, tries, last, history, budget>>
    BY <1>3 DEF Auth
  <2> QED BY <2>1, <2>2 DEF Steady, rows, history, UserOps
<1>4. CASE AdminReset2FA(r) \/ APIUserSuspend(r) \/ ForgotRead(r) \/ VerifyRead(r)
  BY <1>4 DEF AdminReset2FA, APIUserSuspend, ForgotRead, VerifyRead, Steady, rows, history
<1>5. CASE AdminSuspend(r) \/ AdminResetPassword(r) \/ AdminDelete(r)
  BY <1>5 DEF AdminSuspend, AdminResetPassword, AdminDelete, Steady, rows, history
<1>6. CASE LoginTrusted(r) \/ BeginRead(r) \/ ConfirmRead(r) \/ DisableRead(r)
  BY <1>6 DEF LoginTrusted, BeginRead, ConfirmRead, DisableRead, At, Steady, rows, history
<1>7. CASE PasswordRead(r) \/ QuitRead(r)
  BY <1>7 DEF PasswordRead, QuitRead, At, Steady, rows, history
<1>8. CASE Refuse(r)
  BY <1>8 DEF Refuse, At, Steady, rows, history, UserOps
<1>9. CASE RegenRead(r)
  <2>1. req'[r].at = "store" /\ \A q \in Reqs : q # r => req'[q] = req[q]
    BY <1>9 DEF RegenRead, TInv, TypeOK, Request
  <2> QED BY <1>9, <2>1 DEF RegenRead, At, Steady, rows, history
<1>10. CASE SignOutOthers(r) \/ SuspendDrop(r)
  BY <1>10 DEF SignOutOthers, SuspendDrop, At, Steady, history
<1>11. CASE BeginWrite(r)
  <2>1. user'.id = user.id /\ user'.totp = user.totp
    BY <1>11 DEF BeginWrite, TInv, TypeOK
  <2> QED BY <1>11, <2>1 DEF BeginWrite, At, Steady, history
<1>12. CASE PasswordWrite(r)
  BY <1>12 DEF PasswordWrite, At, Steady, rows
<1>13. CASE SuspendRow(r)
  <2>1. user'.id = user.id /\ user'.totp = user.totp
    BY <1>13 DEF SuspendRow, TInv, TypeOK
  <2>2. req'[r].at = "drop" /\ \A q \in Reqs : q # r => req'[q] = req[q]
    BY <1>13 DEF SuspendRow, TInv, TypeOK, Request
  <2> QED BY <1>13, <2>1, <2>2 DEF SuspendRow, At, Steady
<1>14. CASE NewPassword(r)
  <2>1. req'[r].at \in {"kill", "resetDel"} /\ \A q \in Reqs : q # r => req'[q] = req[q]
    BY <1>14 DEF NewPassword, TInv, TypeOK, Request
  <2> QED BY <1>14, <2>1 DEF NewPassword, At, Steady, rows
<1>15. CASE RevokeDevice(r) \/ RevokeAllDevices(r)
  BY <1>15 DEF RevokeDevice, RevokeAllDevices, At, Steady, history
<1> QED BY <1>1, <1>2, <1>3, <1>4, <1>5, <1>6, <1>7, <1>8, <1>9, <1>10, <1>11, <1>12, <1>13,
           <1>14, <1>15, Zenon DEF Plain

LEMMA OthersAreSteady ==
    ASSUME TInv, PlainOfOthers
    PROVE  Steady
<1>1. CASE AdminUnsuspend
  BY <1>1 DEF AdminUnsuspend, Steady, history, TInv, TypeOK
<1>2. ASSUME NEW tok \in 1..MaxTok, EndSession(tok) PROVE Steady
  BY <1>2, DeletedAreFewer DEF EndSession, Steady, history
<1>3. CASE \E t \in trusted : TrustExpires(t)
  BY <1>3 DEF TrustExpires, Steady, history
<1> QED BY <1>1, <1>2, <1>3 DEF PlainOfOthers, Logout, AdminSessionRevoke, SessionExpires

LEMMA OnlyItself ==
    ASSUME TInv, NEW r \in Reqs, Special(r)
    PROVE  \A q \in Reqs : q # r => req'[q] = req[q]
<1>a. ASSUME NEW p, NEW x, req' = [req EXCEPT ![r].at = p, ![r].saw = x]
      PROVE  \A q \in Reqs : q # r => req'[q] = req[q]
  BY <1>a DEF TInv, TypeOK
<1>b. ASSUME NEW x, req' = [req EXCEPT ![r].at = "mark", ![r].code = x]
      PROVE  \A q \in Reqs : q # r => req'[q] = req[q]
  BY <1>b DEF TInv, TypeOK
<1>1. CASE PendingRead(r)
  BY <1>1, StartIs DEF PendingRead
<1>2. CASE Skip(r) \/ Abort(r)
  BY <1>2, GoesTo, DoneIs DEF Skip, AfterPass, Abort
<1>3. CASE CodeJudge(r)
  BY <1>b, <1>3, GoesTo, DoneIs DEF CodeJudge
<1>4. CASE PendingTry(r)
  BY <1>a, <1>4, GoesTo, DoneIs DEF PendingTry
<1>5. CASE ResetJudge(r)
  BY <1>a, <1>5, DoneIs DEF ResetJudge
<1>6. CASE ResetCount(r) \/ LoginPending(r) \/ OpenSession(r) \/ Kill(r) \/ DeleteSessions(r)
  BY <1>6, GoesTo, DoneIs DEF ResetCount, LoginPending, OpenSession, Kill, DeleteSessions
<1>7. CASE Pass(r) \/ Lock(r) \/ ResetIssue(r) \/ ResetDelete(r) \/ ResetBump(r) \/ ResetLock(r)
  BY <1>7, GoesTo, DoneIs DEF Pass, AfterPass, Lock, ResetIssue, ResetDelete, ResetBump, ResetLock
<1>8. CASE CodeMark(r) \/ TrustIssue(r) \/ StoreCodes(r) \/ Clear2(r) \/ Clear3(r) \/ DeleteRow(r)
  BY <1>8, GoesTo, DoneIs DEF CodeMark, TrustIssue, StoreCodes, Clear2, Clear3, DeleteRow
<1>9. CASE ConfirmWrite(r)
  BY <1>a, <1>9, GoesTo, DoneIs DEF ConfirmWrite
<1>10. CASE Clear1(r)
  BY <1>10 DEF Clear1, TInv, TypeOK
<1>11. CASE CreateUser(r)
  BY <1>11, OneMoves, DoneIs DEF CreateUser
<1> QED BY <1>1, <1>2, <1>3, <1>4, <1>5, <1>6, <1>7, <1>8, <1>9, <1>10, <1>11, Zenon DEF Special

Guesses == {"bump", "count", "rlock"}

LEMMA WhereTo ==
    ASSUME TInv, NEW r \in Reqs, Special(r)
    PROVE  /\ req'[r].at = "try" => PendingRead(r)
           /\ req'[r].at = "mark" => CodeJudge(r)
           /\ req[r].at \in Guesses \/ req'[r].at \in Guesses =>
                 \/ ResetJudge(r) \/ ResetBump(r) \/ ResetCount(r) \/ ResetLock(r)
                 \/ Abort(r) \/ Skip(r)
<1>1. CASE PendingRead(r)
  BY <1>1, StartIs DEF PendingRead, Guesses
<1>2. CASE CodeJudge(r)
  <2>1. ASSUME NEW c, req' = [req EXCEPT ![r].at = "mark", ![r].code = c] PROVE req'[r].at = "mark"
    BY <2>1 DEF TInv, TypeOK, Request
  <2> QED BY <1>2, <2>1, GoesTo, DoneIs DEF CodeJudge, At, Guesses
<1>3. CASE PendingTry(r)
  <2>1. ASSUME req' = [req EXCEPT ![r].at = "judge", ![r].saw = user.totp] PROVE req'[r].at = "judge"
    BY <2>1 DEF TInv, TypeOK, Request
  <2> QED BY <1>3, <2>1, GoesTo, DoneIs DEF PendingTry, At, Guesses
<1>4. CASE LoginPending(r) \/ OpenSession(r) \/ Kill(r) \/ DeleteSessions(r) \/ Pass(r) \/ Lock(r)
  BY <1>4, GoesTo, DoneIs
     DEF LoginPending, OpenSession, Kill, DeleteSessions, Pass, AfterPass, Lock, At, Guesses
<1>5. CASE CodeMark(r) \/ TrustIssue(r) \/ StoreCodes(r) \/ DeleteRow(r) \/ ResetIssue(r) \/ ResetDelete(r)
  <2>1. Goes(r, "pass") \/ Goes(r, "open") \/ Goes(r, "kill") \/ Done(r)
    BY <1>5, Zenon DEF CodeMark, TrustIssue, StoreCodes, DeleteRow, ResetIssue, ResetDelete
  <2>2. req[r].at \notin Guesses
    BY <1>5 DEF CodeMark, TrustIssue, StoreCodes, DeleteRow, ResetIssue, ResetDelete, At, Guesses
  <2> QED BY <2>1, <2>2, GoesTo, DoneIs DEF Guesses
<1>6. CASE ConfirmWrite(r)
  <2>1. ASSUME req' = [req EXCEPT ![r].at = "store", ![r].saw = user.pend] PROVE req'[r].at = "store"
    BY <2>1 DEF TInv, TypeOK, Request
  <2> QED BY <1>6, <2>1, GoesTo, DoneIs DEF ConfirmWrite, At, Guesses
<1>7. CASE Clear1(r)
  <2>1. req'[r].at = "clear2"
    BY <1>7 DEF Clear1, TInv, TypeOK, Request
  <2> QED BY <1>7, <2>1 DEF Clear1, At, Guesses
<1>8. CASE Clear2(r)
  BY <1>8, GoesTo DEF Clear2, At, Guesses
<1>9. CASE Clear3(r)
  <2>1. req'[r].at \in {"kill", "idle"}
    BY <1>9, GoesTo, DoneIs DEF Clear3
  <2> QED BY <1>9, <2>1 DEF Clear3, At, Guesses
<1>10. CASE CreateUser(r)
  <2>1. ASSUME req' = [req EXCEPT ![r] = Task("open", last.id + 1, 0, era)] PROVE req'[r].at = "open"
    <3>1. Task("open", last.id + 1, 0, era).at = "open"
      BY DEF Task
    <3> QED BY <2>1, <3>1, OneMoves
  <2> QED BY <1>10, <2>1, DoneIs DEF CreateUser, At, Guesses
<1>11. CASE ResetJudge(r)
  <2>1. ASSUME NEW p, req' = [req EXCEPT ![r].at = p, ![r].saw = reset.id] PROVE req'[r].at = p
    BY <2>1 DEF TInv, TypeOK, Request
  <2> QED BY <1>11, <2>1, DoneIs DEF ResetJudge
<1>12. CASE ResetBump(r) \/ ResetCount(r) \/ ResetLock(r) \/ Abort(r) \/ Skip(r)
  BY <1>12, GoesTo, DoneIs DEF ResetBump, ResetCount, ResetLock, Abort, Skip, AfterPass
<1> QED BY <1>1, <1>2, <1>3, <1>4, <1>5, <1>6, <1>7, <1>8, <1>9, <1>10, <1>11, <1>12, Zenon DEF Special

-----------------------------------------------------------------------------
(* Changes of a credential end the sessions they found.                    *)

LEMMA CutsStay ==
    ASSUME CutsHold, sessions' \subseteq sessions, UNCHANGED <<cut, swept>>
    PROVE  CutsHold'
  BY DEF CutsHold

LEMMA InsertedInTime ==
    ASSUME TInv, CutsHold, NEW r \in Reqs, NEW kind, Insert(r, kind), UNCHANGED <<cut, swept>>
    PROVE  CutsHold'
<1> DEFINE new == [tok |-> last.tok + 1, kind |-> kind, uid |-> req[r].uid, era |-> req[r].era,
                   born |-> cut[req[r].uid], orphan |-> req[r].uid \in swept]
<1>1. sessions' = sessions \cup {new}
  BY DEF Insert
<1>2. new.uid = req[r].uid /\ new.born = cut[req[r].uid]
  OBVIOUS
<1>3. new.orphan <=> req[r].uid \in swept
  OBVIOUS
<1> HIDE DEF new
<1>4. ASSUME NEW s \in sessions', s.kind = "user"
      PROVE  (s.era < cut[s.uid] => s.born = cut[s.uid]) /\ (s.uid \in swept => s.orphan)
  <2>1. CASE s = new
    BY <1>2, <1>3, <2>1
  <2>2. CASE s \in sessions
    BY <1>4, <2>2, Zenon DEF CutsHold
  <2> QED BY <1>1, <2>1, <2>2
<1> QED BY <1>4, Zenon DEF CutsHold

LEMMA CutsSpecial ==
    ASSUME TInv, CutsHold, NEW r \in Reqs, Special(r)
    PROVE  CutsHold'
<1> USE DeletedAreFewer
<1>1. CASE PendingRead(r) \/ CodeJudge(r) \/ ResetCount(r)
  BY <1>1, CutsStay DEF PendingRead, CodeJudge, ResetCount, rows, history
<1>2. CASE LoginPending(r) \/ OpenSession(r)
  BY <1>2, InsertedInTime DEF LoginPending, OpenSession, history
<1>3. CASE Kill(r)
  <2>1. \A s \in sessions' : s \in sessions /\ (s.kind = "user" => s.uid # req[r].uid)
    BY <1>3 DEF Kill, DeleteSessionsByUserID, UserSessions
  <2>2. \A u : u # req[r].uid /\ u \in 1..MaxId => cut'[u] = cut[u]
    BY <1>3 DEF Kill, TInv, TypeOK
  <2>3. \A s \in sessions : s.uid \in 1..MaxId
    BY DEF TInv, TypeOK, Session
  <2>4. swept' = swept
    BY <1>3 DEF Kill
  <2> QED BY <2>1, <2>2, <2>3, <2>4 DEF CutsHold
<1>4. CASE DeleteSessions(r)
  <2>1. \A s \in sessions' : s \in sessions /\ (s.kind = "user" => s.uid # req[r].uid)
    BY <1>4 DEF DeleteSessions, DeleteSessionsByUserID, UserSessions
  <2>2. swept' = swept \cup {req[r].uid} /\ cut' = cut
    BY <1>4 DEF DeleteSessions
  <2> QED BY <2>1, <2>2 DEF CutsHold
<1>5. CASE Pass(r) \/ Lock(r)
  BY <1>5, CutsStay DEF Pass, Lock, history
<1>6. CASE PendingTry(r) \/ CodeMark(r) \/ TrustIssue(r) \/ ConfirmWrite(r) \/ StoreCodes(r)
  BY <1>6, CutsStay DEF PendingTry, CodeMark, TrustIssue, ConfirmWrite, StoreCodes, rows, history
<1>7. CASE Clear1(r) \/ Clear2(r) \/ Clear3(r)
  BY <1>7, CutsStay DEF Clear1, Clear2, Clear3, history
<1>8. CASE ResetIssue(r) \/ ResetJudge(r) \/ ResetDelete(r) \/ ResetBump(r) \/ ResetLock(r)
  BY <1>8, CutsStay DEF ResetIssue, ResetJudge, ResetDelete, ResetBump, ResetLock, history
<1>9. CASE CreateUser(r) \/ DeleteRow(r) \/ Abort(r) \/ Skip(r)
  BY <1>9, CutsStay DEF CreateUser, DeleteRow, Abort, Skip, history
<1> QED BY <1>1, <1>2, <1>3, <1>4, <1>5, <1>6, <1>7, <1>8, <1>9, Zenon DEF Special

LEMMA NextCuts == TInv /\ CutsHold /\ [Next]_vars => CutsHold'
<1> SUFFICES ASSUME TInv, CutsHold, [Next]_vars PROVE CutsHold'
  OBVIOUS
<1>1. CASE UNCHANGED vars
  BY <1>1, CutsStay DEF vars, rows, history
<1>2. CASE Next
  <2>1. Steady => CutsHold'
    BY CutsStay DEF Steady
  <2>2. CASE Panic
    <3>1. \A s \in sessions' : s.kind # "user"
      BY <2>2 DEF Panic, DeleteAllUserSessions
    <3> QED BY <3>1 DEF CutsHold
  <2>3. CASE ResetExpires \/ Crash
    BY <2>3, CutsStay DEF ResetExpires, Crash, history
  <2> QED BY <1>2, <2>1, <2>2, <2>3, NextIs, PlainIsSteady, OthersAreSteady, CutsSpecial
<1> QED BY <1>1, <1>2

(* A change of a credential, a panic and a deletion leave none of the      *)
(* sessions they found, whatever else is under way.                        *)
THEOREM CredentialCuts == Spec => []CutsHold
<1>1. Init => CutsHold
  BY DEF Init, CutsHold
<1> QED BY <1>1, InitTInv, NextTypes, NextCuts, PTL DEF Spec
-----------------------------------------------------------------------------
(* Trust is earned under the secret it stands in for.  Without a row there *)
(* is neither: the foreign keys delete both and refuse both.               *)

Clears == {"clear2", "clear3"}

EInv == TrustIsEarned /\ (user.id = 0 => trusted = {} /\ codes = {})

\* Entry e stays or becomes f.
Follows(f, e) == f.sec = e.sec /\ (e.late => f.late)

LEMMA EarnedStays ==
    ASSUME NEW P, NEW e, NEW f, Follows(f, e), Earned(e, P),
           user'.totp = user.totp, user'.id = user.id,
           \A q \in Reqs : req[q].at \in P => req'[q] = req[q]
    PROVE  Earned(f, P)'
  BY DEF Follows, Earned, HasRow

LEMMA TrustStays ==
    ASSUME EInv, user'.totp = user.totp, user'.id = user.id,
           \A t \in trusted' : \E e \in trusted : Follows(t, e),
           \A c \in codes' : \E e \in codes : Follows(c, e),
           \A q \in Reqs : req[q].at \in Clears => req'[q] = req[q]
    PROVE  EInv'
<1>1. \A t \in trusted' : Earned(t, {"clear2", "clear3"})'
  BY EarnedStays DEF EInv, TrustIsEarned, Clears
<1>2. \A c \in codes' : Earned(c, {"clear2"})'
  BY EarnedStays DEF EInv, TrustIsEarned, Clears
<1> QED BY <1>1, <1>2 DEF EInv, TrustIsEarned

LEMMA Same ==
    ASSUME NEW S, NEW T, T \subseteq S
    PROVE  \A t \in T : \E e \in S : Follows(t, e)
  BY DEF Follows

LEMMA MarkFollows ==
    ASSUME NEW entries, NEW S
    PROVE  \A f \in Mark(entries, S) : \E e \in entries :
              f.sec = e.sec /\ (e.late \/ e.sec \in S => f.late)
<1> SUFFICES ASSUME NEW e \in entries
             PROVE  LET f == IF e.sec \in S THEN [e EXCEPT !.late = TRUE] ELSE e
                    IN  f.sec = e.sec /\ (e.late \/ e.sec \in S => f.late)
  BY Zenon DEF Mark
<1>1. CASE e.sec \in S
  <2>1. [e EXCEPT !.late = TRUE].sec = e.sec /\ [e EXCEPT !.late = TRUE].late = TRUE
    OBVIOUS
  <2> QED BY <1>1, <2>1
<1>2. CASE e.sec \notin S
  BY <1>2
<1> QED BY <1>1, <1>2

LEMMA Quiet ==
    ASSUME TInv, EInv, NEW r \in Reqs,
           \/ PendingRead(r) \/ CodeJudge(r) \/ ResetCount(r) \/ LoginPending(r) \/ OpenSession(r)
           \/ Kill(r) \/ DeleteSessions(r) \/ Pass(r) \/ Lock(r) \/ PendingTry(r)
           \/ ResetIssue(r) \/ ResetJudge(r) \/ ResetDelete(r) \/ ResetBump(r) \/ ResetLock(r)
           \/ Skip(r)
    PROVE  EInv'
<1>1. user' = user /\ trusted' = trusted /\ codes' = codes
  BY Zenon DEF PendingRead, CodeJudge, ResetCount, LoginPending, OpenSession, Kill, DeleteSessions,
     Pass, Lock, PendingTry, ResetIssue, ResetJudge, ResetDelete, ResetBump, ResetLock, Skip, rows
<1>2. req[r].at \notin Clears
  <2>1. CASE PendingRead(r)
    BY <2>1, StartIs DEF PendingRead, Clears
  <2>2. CASE Skip(r)
    BY <2>2 DEF Skip, At, Clears
  <2>3. CASE CodeJudge(r) \/ ResetCount(r) \/ LoginPending(r) \/ OpenSession(r) \/ Kill(r)
    BY <2>3 DEF CodeJudge, ResetCount, LoginPending, OpenSession, Kill, At, Clears
  <2>4. CASE DeleteSessions(r) \/ Pass(r) \/ Lock(r) \/ PendingTry(r)
    BY <2>4 DEF DeleteSessions, Pass, Lock, PendingTry, At, Clears
  <2>5. CASE ResetIssue(r) \/ ResetJudge(r) \/ ResetDelete(r) \/ ResetBump(r) \/ ResetLock(r)
    BY <2>5 DEF ResetIssue, ResetJudge, ResetDelete, ResetBump, ResetLock, At, Clears
  <2> QED BY <2>1, <2>2, <2>3, <2>4, <2>5
<1>3. \A q \in Reqs : q # r => req'[q] = req[q]
  BY OnlyItself, Zenon DEF Special
<1> QED BY <1>1, <1>2, <1>3, Same, TrustStays DEF Clears

LEMMA Issued ==
    ASSUME TInv, EInv, NEW r \in Reqs, CodeMark(r) \/ TrustIssue(r) \/ StoreCodes(r)
    PROVE  EInv'
<1>0. /\ user' = user
      /\ \A q \in Reqs : req[q].at \in Clears => req'[q] = req[q]
  BY OnlyItself, Zenon DEF Special, CodeMark, TrustIssue, StoreCodes, At, Clears
<1>1. CASE CodeMark(r)
  <2>1. trusted' = trusted
    BY <1>1 DEF CodeMark
  <2>2. \A c \in codes : Follows(Served(c, TRUE), c) /\ Follows(c, c)
    BY Zenon DEF Follows, Served
  <2>3. \A c \in codes' : \E e \in codes : Follows(c, e)
    BY <1>1, <2>2, Zenon DEF CodeMark
  <2> QED BY <1>0, <2>1, <2>3, Same, TrustStays
<1>2. CASE TrustIssue(r) /\ HasRow(r)
  <2>0. PICK new : new = [sec |-> req[r].saw, late |-> req[r].saw # user.totp]
    OBVIOUS
  <2>1. trusted' = trusted \cup {new} /\ codes' = codes
    BY <1>2, <2>0 DEF TrustIssue, CreateTrustedDevice
  <2>2. new.sec = req[r].saw /\ (new.late <=> req[r].saw # user.totp)
    BY <2>0
  <2>3. user.id # 0
    BY <1>2 DEF HasRow
  <2>4. Earned(new, {"clear2", "clear3"})'
    BY <1>0, <2>2 DEF Earned
  <2>5. \A e \in trusted : Earned(e, {"clear2", "clear3"})'
    BY <1>0, EarnedStays DEF EInv, TrustIsEarned, Clears, Follows
  <2>6. \A c \in codes : Earned(c, {"clear2"})'
    BY <1>0, EarnedStays DEF EInv, TrustIsEarned, Clears, Follows
  <2> QED BY <1>0, <2>1, <2>3, <2>4, <2>5, <2>6 DEF EInv, TrustIsEarned
<1>3. CASE StoreCodes(r) /\ HasRow(r)
  <2>0. PICK new : new = [gen |-> Fresh(GensInUse), sec |-> req[r].saw, used |-> FALSE, uses |-> 0,
                          late |-> req[r].saw \notin {user.totp} \ {0}]
    OBVIOUS
  <2>1. codes' = {new} /\ trusted' = trusted
    BY <1>3, <2>0 DEF StoreCodes, ReplaceBackupCodes
  <2>2. new.sec = req[r].saw /\ (new.late <=> req[r].saw \notin {user.totp} \ {0})
    BY <2>0
  <2>3. user.id # 0
    BY <1>3 DEF HasRow
  <2>4. Earned(new, {"clear2"})'
    BY <1>0, <2>2 DEF Earned
  <2>5. \A e \in trusted : Earned(e, {"clear2", "clear3"})'
    BY <1>0, EarnedStays DEF EInv, TrustIsEarned, Clears, Follows
  <2> QED BY <1>0, <2>1, <2>3, <2>4, <2>5 DEF EInv, TrustIsEarned
<1>4. CASE (TrustIssue(r) \/ StoreCodes(r)) /\ ~HasRow(r)
  <2>1. trusted' = trusted /\ codes' = codes
    BY <1>4 DEF TrustIssue, CreateTrustedDevice, StoreCodes, ReplaceBackupCodes
  <2> QED BY <1>0, <2>1, Same, TrustStays
<1> QED BY <1>1, <1>2, <1>3, <1>4

\* Of the secrets S every entry is late now; nothing else has changed.
LEMMA Slipped ==
    ASSUME EInv, NEW S, Slip(S), user'.id = user.id,
           \A q \in Reqs : req[q].at \in Clears /\ req[q].saw \notin S => req'[q] = req[q],
           user'.totp = user.totp \/ user.totp \in S
    PROVE  EInv'
<1>1. ASSUME NEW P, P \subseteq Clears, NEW e, NEW f, Earned(e, P), f.sec = e.sec, e.late \/ e.sec \in S => f.late
      PROVE  Earned(f, P)'
  BY <1>1 DEF Earned, HasRow
<1>2. \A t \in trusted' : Earned(t, {"clear2", "clear3"})'
  BY <1>1, MarkFollows DEF Slip, EInv, TrustIsEarned, Clears
<1>3. \A c \in codes' : Earned(c, {"clear2"})'
  BY <1>1, MarkFollows DEF Slip, EInv, TrustIsEarned, Clears
<1>4. (trusted = {} => trusted' = {}) /\ (codes = {} => codes' = {})
  BY DEF Slip, Mark
<1> QED BY <1>2, <1>3, <1>4 DEF EInv, TrustIsEarned

LEMMA Confirmed ==
    ASSUME TInv, EInv, NEW r \in Reqs, ConfirmWrite(r)
    PROVE  EInv'
<1>0. \A q \in Reqs : req[q].at \in Clears => req'[q] = req[q]
  BY OnlyItself, Zenon DEF Special, ConfirmWrite, At, Clears
<1>1. CASE user' = WithSecret(user.pend) /\ Slip({user.totp})
  <2>1. user'.id = user.id
    BY <1>1 DEF WithSecret
  <2> QED BY <1>0, <1>1, <2>1, Slipped
<1>2. CASE UNCHANGED <<user, trusted, codes>>
  BY <1>0, <1>2, Same, TrustStays
<1> QED BY <1>1, <1>2 DEF ConfirmWrite

LEMMA Cleared ==
    ASSUME TInv, EInv, NEW r \in Reqs, Clear1(r) \/ Clear2(r) \/ Clear3(r)
    PROVE  EInv'
<1>0. \A q \in Reqs : q # r => req'[q] = req[q]
  BY OnlyItself, Zenon DEF Special
<1>1. CASE Clear1(r)
  <2>1. trusted' = trusted /\ codes' = codes /\ user'.id = user.id /\ req[r].at \notin Clears
    BY <1>1 DEF Clear1, At, WithSecret, Clears
  <2>2. CASE HasRow(r)
    <3>1. req'[r].at = "clear2" /\ req'[r].saw = user.totp /\ req'[r].uid = req[r].uid
      BY <1>1, <2>2 DEF Clear1, TInv, TypeOK, Request
    <3>2. HasRow(r)'
      BY <2>1, <2>2, <3>1 DEF HasRow
    <3>3. ASSUME NEW P, "clear2" \in P, P \subseteq Clears, NEW e, Earned(e, P)
          PROVE  Earned(e, P)'
      <4>1. CASE e.sec = user.totp
        BY <3>1, <3>2, <3>3, <4>1 DEF Earned
      <4>2. CASE e.late
        BY <4>2 DEF Earned
      <4>3. CASE \E q \in Reqs : req[q].at \in P /\ HasRow(q) /\ req[q].saw = e.sec
        BY <1>0, <2>1, <3>3, <4>3 DEF Earned, HasRow
      <4> QED BY <3>3, <4>1, <4>2, <4>3 DEF Earned
    <3> QED BY <2>1, <3>3 DEF EInv, TrustIsEarned, Clears
  <2>3. CASE ~HasRow(r)
    BY <1>0, <1>1, <2>1, <2>3, Same, TrustStays DEF Clear1
  <2> QED BY <2>2, <2>3
<1>2. CASE Clear2(r)
  <2>1. /\ trusted' = trusted /\ user' = user
        /\ req'[r].at = "clear3" /\ req'[r].saw = req[r].saw /\ req'[r].uid = req[r].uid
    BY <1>2, GoesTo DEF Clear2
  <2>2. codes' \subseteq codes /\ (HasRow(r) => codes' = {})
    BY <1>2 DEF Clear2
  <2>3. ASSUME NEW t \in trusted PROVE Earned(t, {"clear2", "clear3"})'
    BY <1>0, <2>1 DEF Earned, HasRow, EInv, TrustIsEarned
  <2>4. ASSUME NEW c \in codes' PROVE Earned(c, {"clear2"})'
    BY <1>0, <2>1, <2>2 DEF Earned, HasRow, EInv, TrustIsEarned
  <2> QED BY <2>1, <2>2, <2>3, <2>4 DEF EInv, TrustIsEarned
<1>3. CASE Clear3(r)
  <2>1. codes' = codes /\ user' = user /\ req[r].at = "clear3"
    BY <1>3 DEF Clear3, At
  <2>2. trusted' \subseteq trusted /\ (HasRow(r) => trusted' = {})
    BY <1>3 DEF Clear3
  <2>3. ASSUME NEW t \in trusted' PROVE Earned(t, {"clear2", "clear3"})'
    BY <1>0, <2>1, <2>2 DEF Earned, HasRow, EInv, TrustIsEarned
  <2>4. ASSUME NEW c \in codes PROVE Earned(c, {"clear2"})'
    BY <1>0, <2>1 DEF Earned, HasRow, EInv, TrustIsEarned
  <2> QED BY <2>1, <2>2, <2>3, <2>4 DEF EInv, TrustIsEarned
<1> QED BY <1>1, <1>2, <1>3

LEMMA RowsComeAndGo ==
    ASSUME TInv, EInv, NEW r \in Reqs, CreateUser(r) \/ DeleteRow(r)
    PROVE  EInv'
<1>0. \A q \in Reqs : req[q].at \in Clears => req'[q] = req[q]
  BY OnlyItself, Zenon DEF Special, CreateUser, DeleteRow, At, Clears
<1>1. CASE user.id = 0 /\ trusted' = trusted /\ codes' = codes
  BY <1>1 DEF EInv, TrustIsEarned
<1>2. CASE trusted' = {} /\ codes' = {}
  BY <1>2 DEF EInv, TrustIsEarned
<1>3. CASE UNCHANGED <<user, trusted, codes>>
  BY <1>0, <1>3, Same, TrustStays
<1> QED BY <1>1, <1>2, <1>3 DEF CreateUser, DeleteRow

LEMMA NextTrust == TInv /\ EInv /\ [Next]_vars => EInv'
<1> SUFFICES ASSUME TInv, EInv, [Next]_vars PROVE EInv'
  OBVIOUS
<1>1. CASE UNCHANGED vars
  BY <1>1, Same, TrustStays DEF vars, rows
<1>2. CASE Next
  <2>1. Steady => EInv'
    <3>1. Clears \subseteq Watched
      BY DEF Clears, Watched
    <3> QED BY <3>1, Same, TrustStays DEF Steady
  <2>2. CASE Panic \/ ResetExpires
    BY <2>2, Same, TrustStays DEF Panic, ResetExpires
  <2>3. CASE Crash
    <3>1. Slip(CutShort(Reqs)) /\ user' = user
      BY <2>3 DEF Crash
    <3>2. \A q \in Reqs : req[q].at \in Clears => req[q].saw \in CutShort(Reqs)
      BY DEF Clears, CutShort
    <3> QED BY <3>1, <3>2, Slipped
  <2>4. ASSUME NEW r \in Reqs, Abort(r) PROVE EInv'
    <3>1. Slip(CutShort({r})) /\ user' = user
      BY <2>4 DEF Abort
    <3>2. req[r].at \in Clears => req[r].saw \in CutShort({r})
      BY DEF Clears, CutShort
    <3>3. \A q \in Reqs : q # r => req'[q] = req[q]
      BY <2>4, OnlyItself, Zenon DEF Special
    <3> QED BY <3>1, <3>2, <3>3, Slipped
  <2>5. ASSUME NEW r \in Reqs, Special(r) PROVE EInv'
    BY <2>4, <2>5, Quiet, Issued, Confirmed, Cleared, RowsComeAndGo, Zenon DEF Special
  <2> QED BY <1>2, <2>1, <2>2, <2>3, <2>5, NextIs, PlainIsSteady, OthersAreSteady
<1> QED BY <1>1, <1>2

(* Nothing stands in for a secret it was not earned under, but for what    *)
(* came late and what was left when a clearing was cut short.              *)
THEOREM TrustEarned == Spec => []TrustIsEarned
<1>1. Init => EInv
  <2> SUFFICES ASSUME Init PROVE EInv
    OBVIOUS
  <2>1. trusted = {}
    BY DEF Init
  <2>2. CASE user = NewUser(1, 0) /\ codes = {}
    BY <2>1, <2>2 DEF EInv, TrustIsEarned
  <2>3. CASE /\ user = NewUser(1, 1)
             /\ codes = {[gen |-> 1, sec |-> 1, late |-> FALSE, used |-> FALSE, uses |-> 0]}
    <3>1. user.id = 1 /\ user.totp = 1
      BY <2>3 DEF NewUser
    <3>2. \A c \in codes : c.sec = 1
      BY <2>3
    <3> QED BY <2>1, <3>1, <3>2 DEF EInv, TrustIsEarned, Earned
  <2> QED BY <2>2, <2>3, Zenon DEF Init
<1>2. EInv => TrustIsEarned
  BY DEF EInv
<1> QED BY <1>1, <1>2, InitTInv, NextTypes, NextTrust, PTL DEF Spec
-----------------------------------------------------------------------------
(* Requests counted.                                                       *)

LEMMA Counted ==
    ASSUME NEW S, S \subseteq Reqs
    PROVE  IsFiniteSet(S) /\ Cardinality(S) \in Nat /\ Cardinality(S) <= Cardinality(Reqs)
           /\ Cardinality(Reqs) \in Nat /\ Cardinality(Reqs) >= 1
<1>1. IsFiniteSet(S) /\ Cardinality(S) <= Cardinality(Reqs)
  BY RequestsAssumption, FS_Subset
<1>2. Cardinality(S) \in Nat /\ Cardinality(Reqs) \in Nat
  BY <1>1, RequestsAssumption, FS_CardinalityType
<1>3. Cardinality(Reqs) # 0
  BY RequestsAssumption, FS_EmptySet
<1> QED BY <1>1, <1>2, <1>3

LEMMA FewerCounted ==
    ASSUME NEW S, NEW T, S \subseteq T, T \subseteq Reqs
    PROVE  Cardinality(S) <= Cardinality(T)
  BY Counted, FS_Subset

\* Set T is S and r.
LEMMA OneCounted ==
    ASSUME NEW S, NEW T, NEW r, T \subseteq Reqs, r \in T, S = T \ {r}
    PROVE  Cardinality(T) = Cardinality(S) + 1
  BY Counted, FS_RemoveElement

-----------------------------------------------------------------------------
(* The guesses at the code of a password reset.  A guess is counted in the *)
(* column, or is about to be; a request stops counting as one of the       *)
(* excess only when it has read a column below the cap.                    *)

Bumping == {r \in Reqs : req[r].at = "bump" /\ req[r].saw = reset.id}
Guessing == Forgiven(Reqs)
RInv ==
    /\ reset.guesses <= reset.tries + Cardinality(Bumping)
    /\ reset.guesses <= MaxTries - 1 + Cardinality(Guessing)

LEMMA GuessingIs ==
    /\ Bumping \subseteq Guessing /\ Guessing \subseteq Reqs
    /\ Cardinality(Bumping) \in Nat /\ Cardinality(Guessing) \in Nat
    /\ Cardinality(Bumping) <= Cardinality(Guessing)
    /\ \A r \in Reqs : r \in Guessing <=> req[r].at \in Guesses /\ req[r].saw = reset.id
<1>1. Bumping \subseteq Guessing /\ Guessing \subseteq Reqs
  BY DEF Bumping, Guessing, Forgiven
<1>2. \A r \in Reqs : r \in Guessing <=> req[r].at \in Guesses /\ req[r].saw = reset.id
  BY DEF Guessing, Forgiven, Guesses
<1> QED BY <1>1, <1>2, Counted, FewerCounted

LEMMA ResetIs ==
    ASSUME TInv
    PROVE  reset.tries \in Nat /\ reset.guesses \in Int /\ MaxTries \in Nat /\ MaxTries >= 1
  BY BoundsAssumption DEF TInv, TypeOK

\* The row and the requests that have judged a code of it stay.
LEMMA ResetStays ==
    ASSUME RInv, reset' = reset,
           \A q \in Reqs : req[q].at \in Guesses \/ req'[q].at \in Guesses => req'[q] = req[q]
    PROVE  RInv'
<1>1. Bumping' = Bumping /\ Guessing' = Guessing
  BY DEF Bumping, Guessing, Forgiven, Guesses
<1> QED BY <1>1 DEF RInv

LEMMA ResetGone ==
    ASSUME TInv, \/ reset' = NoReset
                 \/ \E n : reset' = [id |-> n, tries |-> 0, guesses |-> 0]
    PROVE  RInv'
<1>1. reset'.guesses = 0 /\ reset'.tries = 0
  BY DEF NoReset
<1>2. Cardinality(Bumping') \in Nat /\ Cardinality(Guessing') \in Nat
  <2>1. Bumping' \subseteq Reqs /\ Guessing' \subseteq Reqs
    BY DEF Bumping, Guessing, Forgiven
  <2> QED BY <2>1, Counted
<1> QED BY <1>1, <1>2, ResetIs DEF RInv

\* Request r, which had judged a code of a row replaced since, or none, is done.
LEMMA ResetMissed ==
    ASSUME RInv, NEW r \in Reqs, reset' = reset, \A q \in Reqs : q # r => req'[q] = req[q],
           r \notin Guessing, req'[r].at \notin Guesses
    PROVE  RInv'
<1>1. Bumping' = Bumping /\ Guessing' = Guessing
  BY GuessingIs DEF Bumping, Guessing, Forgiven, Guesses
<1> QED BY <1>1 DEF RInv

LEMMA Judged ==
    ASSUME TInv, RInv, NEW r \in Reqs, ResetJudge(r)
    PROVE  RInv'
<1>0. req[r].at = "verify" /\ \A q \in Reqs : q # r => req'[q] = req[q]
  BY OnlyItself, Zenon DEF Special, ResetJudge, At
<1>1. CASE Done(r) /\ reset' = reset
  BY <1>0, <1>1, DoneIs, ResetStays DEF Guesses
<1>2. CASE req' = [req EXCEPT ![r].at = "newpw", ![r].saw = reset.id] /\ reset' = reset
  <2>1. req'[r].at = "newpw"
    BY <1>2 DEF TInv, TypeOK, Request
  <2> QED BY <1>0, <1>2, <2>1, ResetStays DEF Guesses
<1>3. CASE /\ req' = [req EXCEPT ![r].at = "bump", ![r].saw = reset.id]
           /\ reset' = [reset EXCEPT !.guesses = @ + 1]
  <2>1. req'[r].at = "bump" /\ req'[r].saw = reset.id
    BY <1>3 DEF TInv, TypeOK, Request
  <2>2. reset'.id = reset.id /\ reset'.tries = reset.tries /\ reset'.guesses = reset.guesses + 1
    BY <1>3 DEF TInv, TypeOK
  <2>3. /\ Bumping = Bumping' \ {r} /\ r \in Bumping' /\ Bumping' \subseteq Reqs
        /\ Guessing = Guessing' \ {r} /\ r \in Guessing' /\ Guessing' \subseteq Reqs
    BY <1>0, <2>1, <2>2 DEF Bumping, Guessing, Forgiven
  <2>4. /\ Cardinality(Bumping') = Cardinality(Bumping) + 1
        /\ Cardinality(Guessing') = Cardinality(Guessing) + 1
    BY <2>3, OneCounted
  <2> QED BY <2>2, <2>4, ResetIs, GuessingIs DEF RInv
<1> QED BY <1>1, <1>2, <1>3 DEF ResetJudge

LEMMA Bumped ==
    ASSUME TInv, RInv, NEW r \in Reqs, ResetBump(r)
    PROVE  RInv'
<1>0. req[r].at = "bump" /\ \A q \in Reqs : q # r => req'[q] = req[q]
  BY OnlyItself, Zenon DEF Special, ResetBump, At
<1>1. CASE reset.id # req[r].saw /\ Done(r) /\ reset' = reset
  BY <1>0, <1>1, DoneIs, GuessingIs, ResetMissed DEF Guesses
<1>2. CASE reset.id = req[r].saw /\ reset' = [reset EXCEPT !.tries = @ + 1] /\ Goes(r, "count")
  <2>1. req'[r].at = "count" /\ req'[r].saw = req[r].saw
    BY <1>2, GoesTo
  <2>2. reset'.id = reset.id /\ reset'.tries = reset.tries + 1 /\ reset'.guesses = reset.guesses
    BY <1>2 DEF TInv, TypeOK
  <2>3. Bumping' = Bumping \ {r} /\ r \in Bumping /\ Guessing' = Guessing
    BY <1>0, <1>2, <2>1, <2>2 DEF Bumping, Guessing, Forgiven
  <2>4. Cardinality(Bumping) = Cardinality(Bumping') + 1 /\ Cardinality(Bumping') \in Nat
    <3>1. Bumping \subseteq Reqs /\ Bumping' \subseteq Reqs
      BY <2>3, GuessingIs
    <3> QED BY <2>3, <3>1, OneCounted, Counted
  <2> QED BY <2>2, <2>3, <2>4, ResetIs, GuessingIs DEF RInv
<1> QED BY <1>1, <1>2 DEF ResetBump

LEMMA Recounted ==
    ASSUME TInv, RInv, NEW r \in Reqs, ResetCount(r)
    PROVE  RInv'
<1>0. req[r].at = "count" /\ reset' = reset /\ \A q \in Reqs : q # r => req'[q] = req[q]
  BY OnlyItself, Zenon DEF Special, ResetCount, At, rows
<1>1. CASE Goes(r, "rlock")
  <2>1. req'[r].at = "rlock" /\ req'[r].saw = req[r].saw
    BY <1>1, GoesTo
  <2>2. Bumping' = Bumping /\ Guessing' = Guessing
    BY <1>0, <2>1 DEF Bumping, Guessing, Forgiven
  <2> QED BY <1>0, <2>2 DEF RInv
<1>2. CASE Done(r) /\ reset.id # req[r].saw
  BY <1>0, <1>2, DoneIs, GuessingIs, ResetMissed DEF Guesses
<1>3. CASE Done(r) /\ reset.id = req[r].saw /\ ~(reset.tries >= MaxTries)
  <2>1. req'[r].at = "idle"
    BY <1>3, DoneIs
  <2>2. Bumping' = Bumping /\ Guessing' = Guessing \ {r} /\ r \in Guessing
    BY <1>0, <1>3, <2>1 DEF Bumping, Guessing, Forgiven
  <2>3. Bumping \subseteq Guessing \ {r}
    BY <1>0, GuessingIs DEF Bumping
  <2>4. Cardinality(Bumping) <= Cardinality(Guessing') /\ Cardinality(Guessing') \in Nat
    BY <2>2, <2>3, GuessingIs, FewerCounted, Counted
  <2> QED BY <1>0, <1>3, <2>2, <2>4, ResetIs, GuessingIs DEF RInv
<1> QED BY <1>1, <1>2, <1>3 DEF ResetCount

\* What the requests of R had guessed is forgiven, and they are done.
LEMMA ForgivenOnes ==
    ASSUME TInv, RInv, NEW R, R \subseteq Reqs, Forgive(R),
           \A r \in R : req'[r].at \notin Guesses, \A q \in Reqs \ R : req'[q] = req[q]
    PROVE  RInv'
<1>1. Forgiven(R) = Guessing \cap R /\ Forgiven(R) \subseteq Reqs /\ Cardinality(Forgiven(R)) \in Nat
  <2>1. Forgiven(R) = Guessing \cap R
    BY DEF Forgiven, Guessing
  <2> QED BY <2>1, Counted
<1>2. reset'.id = reset.id /\ reset'.tries = reset.tries
      /\ reset'.guesses = reset.guesses - Cardinality(Forgiven(R))
  BY DEF Forgive, TInv, TypeOK
<1>3. Guessing' = Guessing \ R /\ Bumping' = Bumping \ R
  BY <1>2 DEF Guessing, Bumping, Forgiven, Guesses
<1>4. Cardinality(Guessing) = Cardinality(Forgiven(R)) + Cardinality(Guessing')
  <2>1. IsFiniteSet(Guessing)
    BY GuessingIs, Counted
  <2>2. Cardinality(Guessing \ R) = Cardinality(Guessing) - Cardinality(Guessing \cap R)
    BY <2>1, FS_Difference
  <2> QED BY <1>1, <1>3, <2>2, GuessingIs
<1>5. Cardinality(Bumping) <= Cardinality(Forgiven(R)) + Cardinality(Bumping')
  <2>1. IsFiniteSet(Bumping)
    BY GuessingIs, Counted
  <2>2. Cardinality(Bumping \ R) = Cardinality(Bumping) - Cardinality(Bumping \cap R)
    BY <2>1, FS_Difference
  <2>3. Bumping \cap R \subseteq Forgiven(R)
    BY <1>1, GuessingIs
  <2>4. Cardinality(Bumping \cap R) <= Cardinality(Forgiven(R)) /\ Cardinality(Bumping \cap R) \in Nat
    BY <1>1, <2>3, FewerCounted, Counted
  <2> QED BY <1>1, <1>3, <2>2, <2>4, GuessingIs
<1>6. Cardinality(Guessing') \in Nat /\ Cardinality(Bumping') \in Nat
  BY <1>3, GuessingIs, Counted
<1> QED BY <1>1, <1>2, <1>4, <1>5, <1>6, ResetIs, GuessingIs DEF RInv

LEMMA ResetSpecial ==
    ASSUME TInv, RInv, NEW r \in Reqs, Special(r)
    PROVE  RInv'
<1>0. \A q \in Reqs : q # r => req'[q] = req[q]
  BY OnlyItself
<1>1. CASE ResetIssue(r) \/ ResetDelete(r) \/ ResetLock(r)
  <2>1. CASE reset' = NoReset \/ \E n : reset' = [id |-> n, tries |-> 0, guesses |-> 0]
    BY <2>1, ResetGone
  <2>2. CASE reset' = reset /\ (ResetIssue(r) \/ ResetDelete(r))
    <3>1. req[r].at \notin Guesses /\ req'[r].at \notin Guesses
      BY <2>2, DoneIs, GoesTo DEF ResetIssue, ResetDelete, At, Guesses
    <3> QED BY <1>0, <2>2, <3>1, ResetStays
  <2>3. CASE reset' = reset /\ reset.id # req[r].saw /\ ResetLock(r)
    <3>1. r \notin Guessing /\ req'[r].at \notin Guesses
      BY <2>3, DoneIs, GuessingIs DEF ResetLock, Guesses
    <3> QED BY <1>0, <2>3, <3>1, ResetMissed
  <2> QED BY <1>1, <2>1, <2>2, <2>3 DEF ResetIssue, ResetDelete, ResetLock, DropReset
<1>2. CASE DeleteRow(r)
  <2>1. req[r].at \notin Guesses /\ req'[r].at \notin Guesses
    BY <1>2, DoneIs DEF DeleteRow, At, Guesses
  <2> QED BY <1>0, <1>2, <2>1, ResetGone, ResetStays DEF DeleteRow
<1>3. CASE Abort(r)
  <2>1. req'[r].at \notin Guesses
    BY <1>3, DoneIs DEF Abort, Guesses
  <2> QED BY <1>0, <1>3, <2>1, ForgivenOnes DEF Abort
<1>4. CASE Skip(r)
  <2>1. req'[r].at \notin Guesses
    BY <1>4, DoneIs, GoesTo DEF Skip, AfterPass, Guesses
  <2> QED BY <1>0, <1>4, <2>1, ForgivenOnes DEF Skip
<1>5. ASSUME reset' = reset, req[r].at \notin Guesses, req'[r].at \notin Guesses PROVE RInv'
  BY <1>0, <1>5, ResetStays
<1>6. CASE ~(Abort(r) \/ Skip(r) \/ DeleteRow(r) \/ ResetIssue(r) \/ ResetJudge(r) \/ ResetDelete(r)
             \/ ResetBump(r) \/ ResetCount(r) \/ ResetLock(r))
  <2>1. reset' = reset
    BY <1>6, Zenon DEF Special, PendingRead, CodeJudge, LoginPending, OpenSession, Kill, DeleteSessions,
       Pass, Lock, PendingTry, CodeMark, TrustIssue, ConfirmWrite, StoreCodes, Clear1, Clear2, Clear3,
       CreateUser, rows
  <2>2. req[r].at \notin Guesses /\ req'[r].at \notin Guesses
    BY <1>6, WhereTo
  <2> QED BY <1>5, <2>1, <2>2
<1> QED BY <1>1, <1>2, <1>3, <1>4, <1>6, Judged, Bumped, Recounted

LEMMA NextReset == TInv /\ RInv /\ [Next]_vars => RInv'
<1> SUFFICES ASSUME TInv, RInv, [Next]_vars PROVE RInv'
  OBVIOUS
<1>1. CASE UNCHANGED vars
  BY <1>1, ResetStays DEF vars, rows
<1>2. CASE Next
  <2>1. Steady => RInv'
    BY ResetStays DEF Steady, Watched, Guesses
  <2>2. CASE Panic
    BY <2>2, ResetStays DEF Panic
  <2>3. CASE ResetExpires
    BY <2>3, ResetGone DEF ResetExpires
  <2>4. CASE Crash
    <3>1. Forgive(Reqs) /\ \A q \in Reqs : req'[q].at = "idle"
      BY <2>4 DEF Crash, Idle, Task
    <3> QED BY <3>1, ForgivenOnes DEF Guesses
  <2> QED BY <1>2, <2>1, <2>2, <2>3, <2>4, NextIs, PlainIsSteady, OthersAreSteady, ResetSpecial
<1> QED BY <1>1, <1>2

(* The wrong codes judged for one reset stay within the cap and the        *)
(* requests that may compare at once.                                      *)
THEOREM ResetCapped == Spec => []ResetTries
<1>1. Init => RInv
  <2> SUFFICES ASSUME Init PROVE RInv
    OBVIOUS
  <2>1. reset.guesses = 0 /\ reset.tries = 0
    BY DEF Init, NoReset
  <2> QED BY <2>1, GuessingIs, BoundsAssumption DEF RInv
<1>2. TInv /\ RInv => ResetTries
  BY ResetIs, GuessingIs, Counted DEF RInv, ResetTries
<1> QED BY <1>1, <1>2, InitTInv, NextTypes, NextReset, PTL DEF Spec
-----------------------------------------------------------------------------
(* The uses of a backup code.  The set issued last is the only one, and no *)
(* request reads a code as unused that has been used.                      *)

Marking(gen) == {r \in Reqs : req[r].at = "mark" /\ req[r].code = gen}

\* Code c, and with what it may still be used for.
Spent(c) == (~c.used => c.uses = 0) /\ c.uses + Cardinality(Marking(c.gen)) <= Cardinality(Reqs)

UInv == (\A c, d \in codes : c = d) /\ \A c \in codes : Spent(c)

LEMMA MarkingIs ==
    ASSUME NEW gen
    PROVE  /\ Marking(gen) \subseteq Reqs /\ Cardinality(Marking(gen)) \in Nat
           /\ Marking(gen)' \subseteq Reqs /\ Cardinality(Marking(gen)') \in Nat
<1>1. Marking(gen) \subseteq Reqs /\ Marking(gen)' \subseteq Reqs
  BY DEF Marking
<1> QED BY <1>1, Counted

LEMMA UsesAre ==
    ASSUME TInv, NEW c \in codes
    PROVE  c.uses \in Nat
  BY DEF TInv, TypeOK, Code

LEMMA SpentStays ==
    ASSUME TInv, NEW c \in codes, Spent(c), NEW d, d.gen = c.gen, d.uses = c.uses, d.used = c.used,
           \A q \in Reqs : req'[q].at = "mark" => req'[q] = req[q]
    PROVE  Spent(d)'
<1>1. Marking(d.gen)' \subseteq Marking(c.gen)
  BY DEF Marking
<1>2. Cardinality(Marking(d.gen)') <= Cardinality(Marking(c.gen))
  BY <1>1, MarkingIs, FewerCounted
<1> QED BY <1>2, MarkingIs, UsesAre, Counted DEF Spent

LEMMA CodesStay ==
    ASSUME TInv, UInv, codes' \subseteq codes \/ (\E S : codes' = Mark(codes, S)),
           \A q \in Reqs : req'[q].at = "mark" => req'[q] = req[q]
    PROVE  UInv'
<1>1. CASE codes' \subseteq codes
  BY <1>1, SpentStays DEF UInv
<1>2. ASSUME NEW S, codes' = Mark(codes, S) PROVE UInv'
  <2>1. ASSUME NEW c \in codes
        PROVE  [c EXCEPT !.late = TRUE].gen = c.gen /\ [c EXCEPT !.late = TRUE].uses = c.uses
               /\ [c EXCEPT !.late = TRUE].used = c.used
    BY DEF TInv, TypeOK, Code
  <2>2. ASSUME NEW d \in codes'
        PROVE  \E c \in codes : d.gen = c.gen /\ d.uses = c.uses /\ d.used = c.used
    BY <1>2, <2>1, Zenon DEF Mark
  <2>3. \A d \in codes' : Spent(d)'
    BY <2>2, SpentStays DEF UInv
  <2>4. \A c, d \in codes' : c = d
    BY <1>2, Zenon DEF Mark, UInv
  <2> QED BY <2>3, <2>4 DEF UInv
<1> QED BY <1>1, <1>2

LEMMA UseSpecial ==
    ASSUME TInv, UInv, NEW r \in Reqs, Special(r)
    PROVE  UInv'
<1>0. \A q \in Reqs : q # r => req'[q] = req[q]
  BY OnlyItself
<1>1. CASE CodeJudge(r)
  <2>1. codes' = codes
    BY <1>1 DEF CodeJudge, rows
  <2>2. CASE Goes(r, "pass") \/ Done(r)
    <3>1. req'[r].at # "mark"
      BY <2>2, GoesTo, DoneIs
    <3> QED BY <1>0, <2>1, <3>1, CodesStay
  <2>3. ASSUME NEW c \in codes, ~c.used PROVE UInv'
    <3>1. c.uses = 0 /\ \A d \in codes : d = c
      BY <2>3 DEF UInv, Spent
    <3>2. Cardinality(Marking(c.gen)') <= Cardinality(Reqs)
      BY MarkingIs, Counted
    <3>3. Spent(c)'
      BY <3>1, <3>2, MarkingIs, Counted DEF Spent
    <3> QED BY <2>1, <3>1, <3>3 DEF UInv
  <2> QED BY <1>1, <2>2, <2>3 DEF CodeJudge
<1>2. CASE CodeMark(r)
  <2>1. req[r].at = "mark" /\ req'[r].at = "pass"
    BY <1>2, GoesTo DEF CodeMark, At
  <2>2. \A q \in Reqs : req'[q].at = "mark" => req'[q] = req[q]
    BY <1>0, <2>1
  <2>3. ASSUME NEW c \in codes, c.gen = req[r].code, NEW d, d = Served(c, TRUE) PROVE Spent(d)'
    <3>1. d.gen = c.gen /\ d.uses = c.uses + 1 /\ d.used = TRUE
      BY <2>3, Zenon DEF Served
    <3>2. /\ Marking(d.gen)' = Marking(c.gen) \ {r} /\ r \in Marking(c.gen)
          /\ Marking(c.gen) \subseteq Reqs
      BY <1>0, <2>1, <2>3, <3>1 DEF Marking
    <3>3. Cardinality(Marking(c.gen)) = Cardinality(Marking(d.gen)') + 1
      BY <3>2, OneCounted
    <3> QED BY <3>1, <3>3, MarkingIs, UsesAre, Counted DEF Spent, UInv
  <2>4. ASSUME NEW c \in codes PROVE Spent(c)'
    BY <2>2, SpentStays DEF UInv
  <2>5. \A d \in codes' : Spent(d)'
    BY <1>2, <2>3, <2>4, Zenon DEF CodeMark
  <2>6. \A c, d \in codes' : c = d
    BY <1>2, Zenon DEF CodeMark, UInv
  <2> QED BY <2>5, <2>6 DEF UInv
<1>3. CASE StoreCodes(r) /\ HasRow(r)
  <2>0. PICK new : new = [gen |-> Fresh(GensInUse), sec |-> req[r].saw, used |-> FALSE, uses |-> 0,
                          late |-> req[r].saw \notin {user.totp} \ {0}]
    OBVIOUS
  <2>1. codes' = {new}
    BY <1>3, <2>0 DEF StoreCodes, ReplaceBackupCodes
  <2>2. new.gen = Fresh(GensInUse) /\ new.uses = 0
    BY <2>0
  <2>3. \A q \in Reqs : req[q].code # new.gen
    <3>1. Fresh(GensInUse) \notin GensInUse
      BY <1>3, SpareIsFresh DEF StoreCodes
    <3> QED BY <2>2, <3>1 DEF GensInUse
  <2>4. \A q \in Reqs : req'[q].at = "mark" => req'[q] = req[q]
    BY <1>0, <1>3, DoneIs DEF StoreCodes
  <2>5. Marking(new.gen)' = {}
    BY <2>3, <2>4 DEF Marking
  <2>6. Spent(new)'
    BY <2>2, <2>5, FS_EmptySet, Counted DEF Spent
  <2> QED BY <2>1, <2>6 DEF UInv
<1>4. CASE ~(CodeJudge(r) \/ CodeMark(r) \/ (StoreCodes(r) /\ HasRow(r)))
  <2>1. \A q \in Reqs : req'[q].at = "mark" => req'[q] = req[q]
    <3>1. req'[r].at # "mark"
      BY <1>4, WhereTo, Zenon
    <3> QED BY <1>0, <3>1
  <2>2. codes' \subseteq codes \/ \E S : codes' = Mark(codes, S)
    <3>1. CASE StoreCodes(r) /\ ~HasRow(r)
      BY <3>1 DEF StoreCodes, ReplaceBackupCodes
    <3>2. CASE ConfirmWrite(r) \/ Abort(r)
      BY <3>2 DEF ConfirmWrite, Abort, Slip
    <3>3. CASE Clear2(r) \/ DeleteRow(r)
      BY <3>3 DEF Clear2, DeleteRow
    <3>4. CASE \/ PendingRead(r) \/ ResetCount(r) \/ LoginPending(r) \/ OpenSession(r) \/ Kill(r)
               \/ DeleteSessions(r) \/ Pass(r) \/ Lock(r) \/ PendingTry(r) \/ TrustIssue(r)
               \/ Clear1(r) \/ Clear3(r) \/ ResetIssue(r) \/ ResetJudge(r) \/ ResetDelete(r)
               \/ ResetBump(r) \/ ResetLock(r) \/ CreateUser(r) \/ Skip(r)
      <4>1. codes' = codes
        BY <3>4, Zenon DEF PendingRead, ResetCount, LoginPending, OpenSession, Kill, DeleteSessions,
           Pass, Lock, PendingTry, TrustIssue, Clear1, Clear3, ResetIssue, ResetJudge, ResetDelete,
           ResetBump, ResetLock, CreateUser, Skip, rows
      <4> QED BY <4>1
    <3> QED BY <1>4, <3>1, <3>2, <3>3, <3>4 DEF Special
  <2> QED BY <2>1, <2>2, CodesStay
<1> QED BY <1>1, <1>2, <1>3, <1>4

LEMMA NextUse == TInv /\ UInv /\ [Next]_vars => UInv'
<1> SUFFICES ASSUME TInv, UInv, [Next]_vars PROVE UInv'
  OBVIOUS
<1>1. CASE UNCHANGED vars
  BY <1>1, CodesStay DEF vars, rows
<1>2. CASE Next
  <2>1. Steady => UInv'
    BY CodesStay DEF Steady, Watched
  <2>2. CASE Panic \/ ResetExpires
    BY <2>2, CodesStay DEF Panic, ResetExpires
  <2>3. CASE Crash
    <3>1. codes' = Mark(codes, CutShort(Reqs)) /\ \A q \in Reqs : req'[q].at = "idle"
      BY <2>3 DEF Crash, Slip, Idle, Task
    <3> QED BY <3>1, CodesStay
  <2> QED BY <1>2, <2>1, <2>2, <2>3, NextIs, PlainIsSteady, OthersAreSteady, UseSpecial
<1> QED BY <1>1, <1>2

(* A backup code lets in no more logins than requests may read it unused.  *)
THEOREM CodesSpent == Spec => []CodeUses
<1>1. Init => UInv
  <2> SUFFICES ASSUME Init PROVE UInv
    OBVIOUS
  <2>1. \A gen : Marking(gen) = {}
    BY DEF Init, Marking, Idle, Task
  <2>2. CASE codes = {}
    BY <2>2 DEF UInv
  <2>3. CASE codes = {[gen |-> 1, sec |-> 1, late |-> FALSE, used |-> FALSE, uses |-> 0]}
    <3>1. \A c \in codes : c.uses = 0
      BY <2>3
    <3>2. \A c \in codes : Spent(c)
      BY <2>1, <3>1, FS_EmptySet, Counted DEF Spent
    <3> QED BY <2>3, <3>2 DEF UInv
  <2> QED BY <2>2, <2>3, Zenon DEF Init
<1>2. TInv /\ UInv => CodeUses
  BY UsesAre, MarkingIs, Counted DEF UInv, Spent, CodeUses
<1> QED BY <1>1, <1>2, InitTInv, NextTypes, NextUse, PTL DEF Spec
-----------------------------------------------------------------------------
(* The codes judged for a pending login.  While its session is there, its  *)
(* count in memory is not behind; once the count may have been lost, the   *)
(* requests that still come for it had found the session before.           *)

Trying(t) == {r \in Reqs : req[r].at = "try" /\ req[r].tok = t}
Low(t) == allowed[t] <= tries[t] /\ allowed[t] <= MaxTries
Capped(t) == allowed[t] + Cardinality(Trying(t)) <= MaxTries + Cardinality(Reqs) - 1

LInv ==
    /\ \A s \in sessions : s.kind = "pending" => Low(s.tok)
    /\ \A t \in 1..MaxTok : Low(t) \/ Capped(t)
    /\ \A t \in 1..MaxTok : t > last.tok => allowed[t] = 0

LEMMA TriesAre ==
    ASSUME TInv
    PROVE  /\ MaxTries \in Nat /\ MaxTries >= 1
           /\ \A t \in 1..MaxTok : tries[t] \in Nat /\ allowed[t] \in Nat
           /\ \A s \in sessions : s.tok \in 1..MaxTok /\ s.tok <= last.tok
           /\ \A t : /\ Trying(t) \subseteq Reqs /\ Cardinality(Trying(t)) \in Nat
                     /\ Trying(t)' \subseteq Reqs /\ Cardinality(Trying(t)') \in Nat
<1>1. MaxTries \in Nat /\ MaxTries >= 1
  BY BoundsAssumption
<1>2. \A t \in 1..MaxTok : tries[t] \in Nat /\ allowed[t] \in Nat
  BY DEF TInv, TypeOK
<1>3. \A s \in sessions : s.tok \in 1..MaxTok /\ s.tok <= last.tok
  BY DEF TInv, TypeOK, Session
<1>4. \A t : Trying(t) \subseteq Reqs /\ Trying(t)' \subseteq Reqs
  BY DEF Trying
<1>5. \A t : Cardinality(Trying(t)) \in Nat /\ Cardinality(Trying(t)') \in Nat
  BY <1>4, Counted
<1> QED BY <1>1, <1>2, <1>3, <1>4, <1>5

LEMMA CappedStays ==
    ASSUME TInv, NEW t \in 1..MaxTok, Capped(t), allowed'[t] = allowed[t],
           \A q \in Reqs : req'[q].at = "try" => req'[q] = req[q]
    PROVE  Capped(t)'
<1>1. Trying(t)' \subseteq Trying(t)
  BY DEF Trying
<1>2. Cardinality(Trying(t)') <= Cardinality(Trying(t))
  BY <1>1, TriesAre, FewerCounted
<1> QED BY <1>2, TriesAre, Counted DEF Capped

\* No request comes to its try and no count goes up.
LEMMA TriesStay ==
    ASSUME TInv, LInv, sessions' \subseteq sessions, UNCHANGED <<tries, allowed>>, last'.tok = last.tok,
           \A q \in Reqs : req'[q].at = "try" => req'[q] = req[q]
    PROVE  LInv'
<1>1. \A t : Low(t) => Low(t)'
  BY DEF Low
<1>2. \A t \in 1..MaxTok : Capped(t) => Capped(t)'
  BY CappedStays
<1> QED BY <1>1, <1>2 DEF LInv

LEMMA TriesInsert ==
    ASSUME TInv, LInv, NEW r \in Reqs, NEW kind, Insert(r, kind), UNCHANGED <<tries, allowed>>,
           \A q \in Reqs : req'[q].at = "try" => req'[q] = req[q]
    PROVE  LInv'
<1>0. PICK new : new = [tok |-> last.tok + 1, kind |-> kind, uid |-> req[r].uid, era |-> req[r].era,
                        born |-> cut[req[r].uid], orphan |-> req[r].uid \in swept]
  OBVIOUS
<1>1. sessions' = sessions \cup {new} /\ last.tok < MaxTok
  BY <1>0 DEF Insert
<1>2. new.tok = last.tok + 1 /\ last.tok \in Nat
  BY <1>0, UserIs
<1>3. last'.tok = last.tok + 1
  BY DEF Insert, TInv, TypeOK
<1>4. \A t : Low(t) => Low(t)'
  BY DEF Low
<1>5. Low(new.tok)
  <2>1. new.tok \in 1..MaxTok /\ new.tok > last.tok
    BY <1>1, <1>2, BoundsAssumption
  <2> QED BY <2>1, TriesAre DEF LInv, Low
<1>6. \A t \in 1..MaxTok : Capped(t) => Capped(t)'
  BY CappedStays
<1>7. \A t \in 1..MaxTok : t > last'.tok => allowed'[t] = 0
  BY <1>2, <1>3 DEF LInv
<1> QED BY <1>1, <1>4, <1>5, <1>6, <1>7 DEF LInv

LEMMA TryOnce ==
    ASSUME TInv, LInv, NEW r \in Reqs, PendingTry(r)
    PROVE  LInv'
<1>0. /\ sessions' = sessions /\ last' = last /\ req[r].at = "try"
      /\ \A q \in Reqs : q # r => req'[q] = req[q]
  BY OnlyItself, Zenon DEF Special, PendingTry, At, rows
<1>1. \A q \in Reqs : req'[q].at = "try" => req'[q] = req[q]
  <2>1. req'[r].at # "try"
    BY <1>0, WhereTo, StartIs DEF Special, PendingRead
  <2> QED BY <1>0, <2>1
<1>2. CASE UNCHANGED <<tries, allowed>>
  BY <1>0, <1>1, <1>2, TriesStay
<1>3. CASE tries' = [tries EXCEPT ![req[r].tok] = @ + 1]
  <2>0. \A t \in 1..MaxTok : /\ t # req[r].tok => tries'[t] = tries[t]
                             /\ t = req[r].tok => tries'[t] = tries[t] + 1
    BY <1>3 DEF TInv, TypeOK
  <2>1. CASE allowed' = allowed
    <3>1. \A t \in 1..MaxTok : Low(t) => Low(t)'
      BY <2>0, <2>1, TriesAre DEF Low
    <3>2. \A t \in 1..MaxTok : Capped(t) => Capped(t)'
      BY <1>1, <2>1, CappedStays
    <3> QED BY <1>0, <2>1, <3>1, <3>2, TriesAre DEF LInv
  <2>2. CASE /\ tries[req[r].tok] < MaxTries
             /\ allowed' = [allowed EXCEPT ![req[r].tok] = @ + 1]
    <3>0. \A t \in 1..MaxTok : /\ t # req[r].tok => allowed'[t] = allowed[t]
                               /\ t = req[r].tok => allowed'[t] = allowed[t] + 1
      BY <2>2 DEF TInv, TypeOK
    <3>1. \A t \in 1..MaxTok : Low(t) => Low(t)'
      BY <2>0, <2>2, <3>0, TriesAre DEF Low
    <3>2. ASSUME NEW t \in 1..MaxTok, Capped(t) PROVE Capped(t)'
      <4>1. CASE t # req[r].tok
        BY <1>1, <3>0, <3>2, <4>1, CappedStays
      <4>2. CASE t = req[r].tok
        <5>1. Trying(t)' \subseteq Trying(t) \ {r} /\ r \in Trying(t)
          <6>1. req'[r].at # "try"
            BY <1>0, WhereTo, StartIs DEF Special, PendingRead
          <6> QED BY <1>0, <1>1, <4>2, <6>1 DEF Trying
        <5>2. Cardinality(Trying(t)') <= Cardinality(Trying(t) \ {r})
          BY <5>1, TriesAre, FewerCounted
        <5>3. Cardinality(Trying(t)) = Cardinality(Trying(t) \ {r}) + 1
              /\ Cardinality(Trying(t) \ {r}) \in Nat
          BY <5>1, TriesAre, OneCounted, Counted
        <5> QED BY <3>0, <3>2, <4>2, <5>2, <5>3, TriesAre, Counted DEF Capped
      <4> QED BY <4>1, <4>2
    <3>3. \A t \in 1..MaxTok : t > last.tok => t # req[r].tok
      BY RequestIs, UserIs
    <3> QED BY <1>0, <3>0, <3>1, <3>2, <3>3, TriesAre DEF LInv
  <2> QED BY <1>3, <2>1, <2>2 DEF PendingTry
<1> QED BY <1>2, <1>3 DEF PendingTry

\* The session of r is deleted and its count dropped.
LEMMA TriesDropped ==
    ASSUME TInv, LInv, NEW r \in Reqs, req[r].at # "try", DeleteSession(req[r].tok),
           tries' = [tries EXCEPT ![req[r].tok] = 0], allowed' = allowed, last' = last,
           \A q \in Reqs : req'[q].at = "try" => req'[q] = req[q]
    PROVE  LInv'
<1>1. \A s \in sessions' : s \in sessions /\ s.tok # req[r].tok
  BY DEF DeleteSession
<1>2. \A t \in 1..MaxTok : t # req[r].tok => tries'[t] = tries[t]
  BY DEF TInv, TypeOK
<1>3. \A t \in 1..MaxTok : t # req[r].tok /\ Low(t) => Low(t)'
  BY <1>2 DEF Low
<1>4. ASSUME NEW t \in 1..MaxTok, t = req[r].tok, Low(t) PROVE Capped(t)'
  <2>1. Trying(t)' \subseteq Reqs \ {r}
    <3>1. req'[r].at # "try"
      OBVIOUS
    <3> QED BY <3>1 DEF Trying
  <2>2. Cardinality(Trying(t)') <= Cardinality(Reqs \ {r})
    BY <2>1, FewerCounted
  <2>3. Cardinality(Reqs) = Cardinality(Reqs \ {r}) + 1 /\ Cardinality(Reqs \ {r}) \in Nat
    BY OneCounted, Counted
  <2> QED BY <1>4, <2>2, <2>3, TriesAre, Counted DEF Capped, Low
<1>5. \A t \in 1..MaxTok : Capped(t) => Capped(t)'
  BY CappedStays
<1> QED BY <1>1, <1>3, <1>4, <1>5, TriesAre DEF LInv

\* The counts of toks begin anew.
LEMMA TriesRecounted ==
    ASSUME TInv, LInv, NEW toks, Recount(toks), sessions' = sessions, last' = last,
           \A q \in Reqs : req'[q].at = "try" => req'[q] = req[q]
    PROVE  LInv'
<1>1. ASSUME NEW t \in 1..MaxTok, t \in toks PROVE Low(t)' /\ allowed'[t] = 0
  <2>1. tries'[t] = 0 /\ allowed'[t] = 0
    BY <1>1 DEF Recount
  <2> QED BY <2>1, TriesAre DEF Low
<1>2. ASSUME NEW t \in 1..MaxTok, t \notin toks
      PROVE  (Low(t) => Low(t)') /\ (Capped(t) => Capped(t)') /\ allowed'[t] = allowed[t]
  <2>1. tries'[t] = tries[t] /\ allowed'[t] = allowed[t]
    BY <1>2 DEF Recount
  <2> QED BY <2>1, CappedStays DEF Low
<1> QED BY <1>1, <1>2, TriesAre DEF LInv

LEMMA TrySpecial ==
    ASSUME TInv, LInv, NEW r \in Reqs, Special(r)
    PROVE  LInv'
<1>0. \A q \in Reqs : q # r => req'[q] = req[q]
  BY OnlyItself
<1>a. ASSUME ~PendingRead(r)
      PROVE  \A q \in Reqs : req'[q].at = "try" => req'[q] = req[q]
  <2>1. req'[r].at # "try"
    BY <1>a, WhereTo, Zenon
  <2> QED BY <1>0, <2>1
<1>1. CASE PendingRead(r)
  <2>1. PICK s \in sessions : s.kind = "pending" /\ Start(r, "login", Task("try", s.uid, s.tok, s.era))
    BY <1>1 DEF PendingRead
  <2>2. req[r].at = "idle" /\ req'[r].tok = s.tok
    BY <2>1, StartIs
  <2>3. UNCHANGED <<sessions, tries, allowed, last>>
    BY <1>1 DEF PendingRead, rows, history
  <2>4. Low(s.tok) /\ \A t : Low(t) => Low(t)'
    BY <2>1, <2>3 DEF LInv, Low
  <2>5. ASSUME NEW t \in 1..MaxTok, t # s.tok, Capped(t) PROVE Capped(t)'
    <3>1. Trying(t)' = Trying(t)
      BY <1>0, <2>2, <2>5 DEF Trying
    <3> QED BY <2>3, <2>5, <3>1 DEF Capped
  <2> QED BY <2>3, <2>4, <2>5, TriesAre DEF LInv
<1>2. CASE ~PendingRead(r) /\ (LoginPending(r) \/ OpenSession(r))
  BY <1>2, <1>a, TriesInsert DEF LoginPending, OpenSession, history
<1>3. CASE ~PendingRead(r) /\ (Pass(r) \/ Lock(r))
  <2>1. req[r].at # "try"
    BY <1>3 DEF Pass, Lock, At
  <2> QED BY <1>3, <1>a, <2>1, TriesDropped DEF Pass, Lock, history
<1>4. CASE ~PendingRead(r) /\ Abort(r)
  BY <1>4, <1>a, TriesRecounted DEF Abort
<1>5. CASE ~PendingRead(r) /\ Skip(r)
  <2>1. PICK toks : Recount(toks)
    BY <1>5 DEF Skip
  <2> QED BY <1>5, <1>a, <2>1, TriesRecounted DEF Skip
<1>6. CASE ~PendingRead(r) /\ CreateUser(r)
  <2>1. last'.tok = last.tok
    BY <1>6 DEF CreateUser, TInv, TypeOK
  <2> QED BY <1>6, <1>a, <2>1, TriesStay DEF CreateUser, history
<1>7. CASE ~PendingRead(r) /\ (Kill(r) \/ DeleteSessions(r))
  BY <1>7, <1>a, DeletedAreFewer, TriesStay DEF Kill, DeleteSessions
<1>8. CASE /\ ~PendingRead(r)
           /\ \/ CodeJudge(r) \/ ResetCount(r) \/ CodeMark(r) \/ TrustIssue(r) \/ ConfirmWrite(r)
              \/ StoreCodes(r) \/ Clear1(r) \/ Clear2(r) \/ Clear3(r) \/ ResetIssue(r)
              \/ ResetJudge(r) \/ ResetDelete(r) \/ ResetBump(r) \/ ResetLock(r) \/ DeleteRow(r)
  <2>1. UNCHANGED <<sessions, tries, allowed, last>>
    BY <1>8, Zenon DEF CodeJudge, ResetCount, CodeMark, TrustIssue, ConfirmWrite, StoreCodes, Clear1,
       Clear2, Clear3, ResetIssue, ResetJudge, ResetDelete, ResetBump, ResetLock, DeleteRow, rows,
       history
  <2> QED BY <1>8, <1>a, <2>1, TriesStay
<1> QED BY <1>1, <1>2, <1>3, <1>4, <1>5, <1>6, <1>7, <1>8, TryOnce DEF Special

LEMMA NextTries == TInv /\ LInv /\ [Next]_vars => LInv'
<1> SUFFICES ASSUME TInv, LInv, [Next]_vars PROVE LInv'
  OBVIOUS
<1>1. CASE UNCHANGED vars
  BY <1>1, TriesStay DEF vars, rows, history
<1>2. CASE Next
  <2>1. Steady => LInv'
    BY TriesStay DEF Steady, Watched
  <2>2. CASE Panic \/ ResetExpires
    BY <2>2, DeletedAreFewer, TriesStay DEF Panic, ResetExpires, history
  <2>3. CASE Crash
    <3>1. \A q \in Reqs : req'[q].at = "idle"
      BY <2>3 DEF Crash, Idle, Task
    <3> QED BY <2>3, <3>1, TriesRecounted DEF Crash
  <2> QED BY <1>2, <2>1, <2>2, <2>3, NextIs, PlainIsSteady, OthersAreSteady, TrySpecial
<1> QED BY <1>1, <1>2

(* The codes judged for one pending login stay within the cap and the      *)
(* requests that may have found its session.                               *)
THEOREM LoginCapped == Spec => []LoginTries
<1>1. Init => LInv
  <2> SUFFICES ASSUME Init PROVE LInv
    OBVIOUS
  <2>1. \A t \in 1..MaxTok : allowed[t] = 0 /\ tries[t] = 0
    BY DEF Init
  <2> QED BY <2>1, InitTInv, TriesAre DEF Init, LInv, Low
<1>2. TInv /\ LInv => LoginTries
  BY TriesAre, Counted DEF LInv, Low, Capped, LoginTries
<1> QED BY <1>1, <1>2, InitTInv, NextTypes, NextTries, PTL DEF Spec

(* Neither cap is passed, but by the requests that overlap.                *)
THEOREM TriesAreCapped == Spec => []TriesCapped
<1>1. LoginTries /\ ResetTries => TriesCapped
  BY DEF TriesCapped
<1> QED BY <1>1, LoginCapped, ResetCapped, PTL
=============================================================================
