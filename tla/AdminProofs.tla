----------------------------- MODULE AdminProofs -----------------------------
(* What the audit log and the ownership of devices keep, for any number of *)
(* requests, devices, orders, plans and accounts.                          *)
EXTENDS Admin, TLAPS

-----------------------------------------------------------------------------
(* Requests.  What can be said of one by its phase alone.                  *)

PlanOps == {"plan_save", "plan_delete", "api_plan_delete"}
Owners == {"pay", "user_grant", "claim", "label", "replace"}

Proper(t) ==
    /\ t \in Request
    /\ t.x \notin t.todo
    /\ t.at = "idle" => t.op = "none" /\ t.x = None /\ t.todo = {}
    /\ t.at # "idle" => t.op \in Ops \ {"audit_note"}
    /\ t.took # {} => t.at = "row" /\ t.op \in {"cancel", "cancel_stale"}
    /\ t.x \in Orders => t.at = "row" /\ t.op \in {"cancel", "refund"}
    /\ t.x \in Plans => t.at = "row" /\ t.op \in PlanOps
    /\ t.at = "next" => t.x = None /\ t.op \in Batches \cup {"pay"}
    /\ t.at = "write" => t.x \in Macs /\ t.todo = {} /\ t.op \in Asides \cup {"claim"}
    /\ t.at \in {"reread", "add", "remove"} => t.x \in Macs
    /\ t.at = "row" => t.op \notin Unsaid
    /\ t.op \in Asides => t.at \in {"write", "row"}
    /\ t.op = "replace" => t.at \notin {"next", "write"}
    /\ t.uid # Nobody => t.op \in Owners

LEMMA TaskIs ==
    ASSUME NEW op \in Ops \cup {"none"}, NEW a \in Phases, NEW u \in Accounts
    PROVE  LET t == Task(op, a, u) IN
           /\ t \in Request /\ t.op = op /\ t.at = a /\ t.todo = {} /\ t.x = None
           /\ t.uid = u /\ t.stale = {} /\ t.took = {}
  BY DEF Task, Request

LEMMA IdleIs ==
    /\ Idle \in Request /\ Proper(Idle)
    /\ Idle.op = "none" /\ Idle.at = "idle" /\ Idle.todo = {} /\ Idle.x = None
    /\ Idle.uid = Nobody /\ Idle.stale = {} /\ Idle.took = {}
<1>1. /\ Idle \in Request
      /\ Idle.op = "none" /\ Idle.at = "idle" /\ Idle.todo = {} /\ Idle.x = None
      /\ Idle.uid = Nobody /\ Idle.stale = {} /\ Idle.took = {}
  BY TaskIs DEF Idle, Phases, Accounts
<1> HIDE DEF Idle
<1> QED BY <1>1, SubjectsAssumption DEF Proper, Asides

\* The task t with the given phase, devices left, subject and orders taken.
Now(t, a, todo, x, took) ==
    [op |-> t.op, at |-> a, todo |-> todo, x |-> x, uid |-> t.uid, stale |-> t.stale, took |-> took]

LEMMA NowIs ==
    ASSUME NEW t \in Request, NEW a \in Phases, NEW todo \in SUBSET Macs,
           NEW x \in Subjects \cup {None}, NEW took \in SUBSET Orders
    PROVE  LET n == Now(t, a, todo, x, took) IN
           /\ n \in Request /\ n.op = t.op /\ n.at = a /\ n.todo = todo /\ n.x = x
           /\ n.uid = t.uid /\ n.stale = t.stale /\ n.took = took
<1>1. t.op \in Ops \cup {"none"} /\ t.uid \in Accounts /\ t.stale \in SUBSET Macs
  BY DEF Request
<1> QED BY <1>1 DEF Now, Request

LEMMA SetAt ==
    ASSUME NEW t \in Request, NEW a \in Phases
    PROVE  [t EXCEPT !.at = a] = Now(t, a, t.todo, t.x, t.took)
  BY DEF Request, Now

LEMMA SetSubject ==
    ASSUME NEW t \in Request, NEW x \in Subjects \cup {None}
    PROVE  [t EXCEPT !.x = x] = Now(t, t.at, t.todo, x, t.took)
  BY DEF Request, Now

LEMMA SetTodo ==
    ASSUME NEW t \in Request, NEW todo \in SUBSET Macs
    PROVE  [t EXCEPT !.todo = todo] = Now(t, t.at, todo, t.x, t.took)
  BY DEF Request, Now

LEMMA SetTook ==
    ASSUME NEW t \in Request, NEW took \in SUBSET Orders
    PROVE  [t EXCEPT !.took = took] = Now(t, t.at, t.todo, t.x, took)
  BY DEF Request, Now

LEMMA FieldsAre ==
    ASSUME NEW t \in Request
    PROVE  /\ t.op \in Ops \cup {"none"} /\ t.at \in Phases /\ t.todo \in SUBSET Macs
           /\ t.x \in Subjects \cup {None} /\ t.uid \in Accounts
           /\ t.stale \in SUBSET Macs /\ t.took \in SUBSET Orders
  BY DEF Request

LEMMA SetAtSubject ==
    ASSUME NEW t \in Request, NEW a \in Phases, NEW x \in Subjects \cup {None}
    PROVE  [t EXCEPT !.at = a, !.x = x] = Now(t, a, t.todo, x, t.took)
<1>1. PICK u \in Request : u = [t EXCEPT !.at = a] /\ u = Now(t, a, t.todo, t.x, t.took)
  BY SetAt, NowIs, FieldsAre, Zenon
<1>2. [u EXCEPT !.x = x] = Now(u, u.at, u.todo, x, u.took)
  BY SetSubject
<1>3. u.op = t.op /\ u.at = a /\ u.todo = t.todo /\ u.uid = t.uid /\ u.stale = t.stale /\ u.took = t.took
  BY <1>1, Zenon DEF Now
<1>4. [t EXCEPT !.at = a, !.x = x] = [u EXCEPT !.x = x]
  BY <1>1
<1> QED BY <1>2, <1>3, <1>4, Zenon DEF Now

LEMMA SetSubjectTodo ==
    ASSUME NEW t \in Request, NEW x \in Subjects \cup {None}, NEW todo \in SUBSET Macs
    PROVE  [t EXCEPT !.x = x, !.todo = todo] = Now(t, t.at, todo, x, t.took)
<1>1. PICK u \in Request : u = [t EXCEPT !.x = x] /\ u = Now(t, t.at, t.todo, x, t.took)
  BY SetSubject, NowIs, FieldsAre, Zenon
<1>2. [u EXCEPT !.todo = todo] = Now(u, u.at, todo, u.x, u.took)
  BY SetTodo
<1>3. u.op = t.op /\ u.at = t.at /\ u.x = x /\ u.uid = t.uid /\ u.stale = t.stale /\ u.took = t.took
  BY <1>1, Zenon DEF Now
<1>4. [t EXCEPT !.x = x, !.todo = todo] = [u EXCEPT !.todo = todo]
  BY <1>1
<1> QED BY <1>2, <1>3, <1>4, Zenon DEF Now

LEMMA SetSubjectTook ==
    ASSUME NEW t \in Request, NEW x \in Subjects \cup {None}, NEW took \in SUBSET Orders
    PROVE  [t EXCEPT !.x = x, !.took = took] = Now(t, t.at, t.todo, x, took)
<1>1. PICK u \in Request : u = [t EXCEPT !.x = x] /\ u = Now(t, t.at, t.todo, x, t.took)
  BY SetSubject, NowIs, FieldsAre, Zenon
<1>2. [u EXCEPT !.took = took] = Now(u, u.at, u.todo, u.x, took)
  BY SetTook
<1>3. u.op = t.op /\ u.at = t.at /\ u.x = x /\ u.uid = t.uid /\ u.stale = t.stale /\ u.todo = t.todo
  BY <1>1, Zenon DEF Now
<1>4. [t EXCEPT !.x = x, !.took = took] = [u EXCEPT !.took = took]
  BY <1>1
<1> QED BY <1>2, <1>3, <1>4, Zenon DEF Now

LEMMA SetAtSubjectTodo ==
    ASSUME NEW t \in Request, NEW a \in Phases, NEW x \in Subjects \cup {None}, NEW todo \in SUBSET Macs
    PROVE  [t EXCEPT !.at = a, !.x = x, !.todo = todo] = Now(t, a, todo, x, t.took)
<1>1. PICK u \in Request : u = [t EXCEPT !.at = a, !.x = x] /\ u = Now(t, a, t.todo, x, t.took)
  <2>1. Now(t, a, t.todo, x, t.took) \in Request
    BY FieldsAre, NowIs
  <2> QED BY <2>1, SetAtSubject, Zenon
<1>2. [u EXCEPT !.todo = todo] = Now(u, u.at, todo, u.x, u.took)
  BY SetTodo
<1>3. u.op = t.op /\ u.at = a /\ u.x = x /\ u.uid = t.uid /\ u.stale = t.stale /\ u.took = t.took
  BY <1>1, Zenon DEF Now
<1>4. [t EXCEPT !.at = a, !.x = x, !.todo = todo] = [u EXCEPT !.todo = todo]
  BY <1>1
<1> QED BY <1>2, <1>3, <1>4, Zenon DEF Now

-----------------------------------------------------------------------------
(* How a step moves requests: one goes on as a task, the others learn at   *)
(* most that something they hold has changed.                              *)

AInv == TypeOK /\ \A r \in Reqs : Proper(req[r])

Kept(r) ==
    \A q \in Reqs : q # r =>
        /\ req'[q].op = req[q].op /\ req'[q].at = req[q].at /\ req'[q].todo = req[q].todo
        /\ req'[q].x = req[q].x /\ req'[q].uid = req[q].uid /\ req'[q].took = req[q].took
        /\ req[q].stale \subseteq req'[q].stale

Moves(r, t) ==
    /\ req'[r] = t /\ Kept(r) /\ req' \in [Reqs -> Request] /\ \A q \in Reqs : Proper(req'[q])

LEMMA RequestIs ==
    ASSUME AInv, NEW r \in Reqs
    PROVE  /\ req[r] \in Request /\ Proper(req[r])
           /\ req[r].op \in Ops \cup {"none"} /\ req[r].at \in Phases /\ req[r].todo \in SUBSET Macs
           /\ req[r].x \in Subjects \cup {None} /\ req[r].uid \in Accounts
           /\ req[r].stale \in SUBSET Macs /\ req[r].took \in SUBSET Orders
<1>1. req[r] \in Request /\ Proper(req[r])
  BY DEF AInv, TypeOK
<1> QED BY <1>1 DEF Request

LEMMA GivesMoves ==
    ASSUME AInv, NEW r \in Reqs, NEW t, Proper(t), req' = [req EXCEPT ![r] = t]
    PROVE  Moves(r, t)
<1>1. req \in [Reqs -> Request] /\ t \in Request
  BY DEF AInv, TypeOK, Proper
<1>2. req'[r] = t /\ req' \in [Reqs -> Request] /\ \A q \in Reqs : q # r => req'[q] = req[q]
  BY <1>1
<1> QED BY <1>2 DEF Moves, Kept, AInv

LEMMA ChangesMoves ==
    ASSUME AInv, NEW r \in Reqs, NEW t, Proper(t), NEW S \in SUBSET Macs, Changes(r, t, S)
    PROVE  Moves(r, t) /\ \A q \in Reqs, m \in S : q # r /\ Holds(q, m) => m \in req'[q].stale
<1>1. t \in Request /\ \A q \in Reqs : req[q] \in Request
  BY RequestIs DEF Proper
<1>2. ASSUME NEW q \in Reqs, q # r
      PROVE  /\ req'[q] \in Request /\ Proper(req'[q])
             /\ req'[q].op = req[q].op /\ req'[q].at = req[q].at /\ req'[q].todo = req[q].todo
             /\ req'[q].x = req[q].x /\ req'[q].uid = req[q].uid /\ req'[q].took = req[q].took
             /\ req'[q].stale = req[q].stale \cup {m \in S : Holds(q, m)}
  <2>1. PICK old \in SUBSET Macs : old = req[q].stale \cup {m \in S : Holds(q, m)}
    BY RequestIs
  <2>2. req'[q] = [req[q] EXCEPT !.stale = old]
    BY <1>2, <2>1 DEF Changes
  <2>3. PICK u \in Request : u = req[q]
    BY <1>1
  <2>4. /\ [u EXCEPT !.stale = old] \in Request
        /\ [u EXCEPT !.stale = old].op = u.op /\ [u EXCEPT !.stale = old].at = u.at
        /\ [u EXCEPT !.stale = old].todo = u.todo /\ [u EXCEPT !.stale = old].x = u.x
        /\ [u EXCEPT !.stale = old].uid = u.uid /\ [u EXCEPT !.stale = old].took = u.took
        /\ [u EXCEPT !.stale = old].stale = old
    BY DEF Request
  <2>5. /\ req'[q] \in Request
        /\ req'[q].op = req[q].op /\ req'[q].at = req[q].at /\ req'[q].todo = req[q].todo
        /\ req'[q].x = req[q].x /\ req'[q].uid = req[q].uid /\ req'[q].took = req[q].took
        /\ req'[q].stale = old
    BY <2>2, <2>3, <2>4
  <2>6. Proper(req'[q])
    BY <2>5, RequestIs DEF Proper
  <2> QED BY <2>1, <2>5, <2>6
<1>3. req'[r] = t
  BY DEF Changes
<1>4. req' \in [Reqs -> Request]
  <2>1. DOMAIN req' = Reqs /\ req' = [q \in Reqs |-> req'[q]]
    BY DEF Changes
  <2> QED BY <1>1, <1>2, <1>3, <2>1
<1> QED BY <1>2, <1>3, <1>4 DEF Moves, Kept
-----------------------------------------------------------------------------
(* The request of each step, before and after.                             *)

Is(t, op, a, todo, x, uid, took) ==
    t.op = op /\ t.at = a /\ t.todo = todo /\ t.x = x /\ t.uid = uid /\ t.took = took

LEMMA NewTask ==
    ASSUME NEW op \in Ops, NEW a \in Phases, NEW u \in Accounts, NEW todo \in SUBSET Macs,
           NEW x \in Subjects \cup {None}, NEW took \in SUBSET Orders
    PROVE  LET t == Now(Task(op, a, u), a, todo, x, took) IN
           t \in Request /\ Is(t, op, a, todo, x, u, took) /\ t.stale = {}
  BY TaskIs, NowIs DEF Is

LEMMA Sorts ==
    /\ Nobody \in Accounts /\ Users \subseteq Accounts
    /\ Macs \subseteq Subjects \cup {None} /\ Orders \subseteq Subjects \cup {None}
    /\ Plans \subseteq Subjects \cup {None} /\ None \in Subjects \cup {None}
    /\ {} \in SUBSET Macs /\ {} \in SUBSET Orders
    /\ \A m \in Macs : m \notin Orders /\ m \notin Plans /\ m # None
    /\ \A o \in Orders : o \notin Plans /\ o \notin Macs /\ o # None
    /\ \A p \in Plans : p \notin Orders /\ p \notin Macs /\ p # None
  BY SubjectsAssumption DEF Accounts, Subjects

(* The statements that change a device and have its row to come.           *)
LEMMA WrittenMoves ==
    ASSUME AInv, NEW r \in Reqs, NEW t \in Request, NEW m \in Macs, NEW a \in {"reread", "remove"},
           t.op \in {"grant", "delete", "api_revoke", "pay"} \cup Batches, t.took = {},
           t.uid # Nobody => t.op \in Owners,
           Changes(r, [t EXCEPT !.at = a, !.x = m, !.todo = @ \ {m}], {m})
    PROVE  /\ Is(req'[r], t.op, a, t.todo \ {m}, m, t.uid, {}) /\ req'[r].stale = t.stale
           /\ Moves(r, req'[r])
           /\ \A q \in Reqs : q # r /\ Holds(q, m) => m \in req'[q].stale
<1> DEFINE n == Now(t, a, t.todo \ {m}, m, t.took)
<1>1. /\ t.todo \ {m} \in SUBSET Macs /\ a \in Phases /\ m \in Subjects \cup {None}
      /\ t.took \in SUBSET Orders
  BY Sorts DEF Request, Phases
<1>2. [t EXCEPT !.at = a, !.x = m, !.todo = t.todo \ {m}] = n
  <2>1. PICK T \in SUBSET Macs : T = t.todo \ {m}
    BY <1>1
  <2>2. [t EXCEPT !.at = a, !.x = m, !.todo = T] = Now(t, a, T, m, t.took)
    BY <1>1, SetAtSubjectTodo
  <2> QED BY <2>1, <2>2, Zenon
<1>3. /\ n \in Request /\ n.op = t.op /\ n.at = a /\ n.todo = t.todo \ {m} /\ n.x = m
      /\ n.uid = t.uid /\ n.stale = t.stale /\ n.took = {}
  BY <1>1, NowIs
<1>4. Changes(r, n, {m})
  BY <1>2, Zenon
<1> HIDE DEF n
<1>5. Proper(n)
  BY <1>3, Sorts DEF Proper, Ops, Batches, Asides, Owners
<1>6. Moves(r, n) /\ \A q \in Reqs : q # r /\ Holds(q, m) => m \in req'[q].stale
  BY <1>4, <1>5, ChangesMoves
<1>7. req'[r] = n
  BY <1>6 DEF Moves
<1> QED BY <1>3, <1>6, <1>7 DEF Is

(* Requests that begin.                                                    *)
LEMMA BeginMoves ==
    ASSUME AInv, NEW r \in Reqs, NEW t, Proper(t), NEW S, Begin(r, t, S)
    PROVE  Moves(r, t) /\ drifted' = drifted \cup {x \in S : Contended(r, x)}
  BY GivesMoves DEF Begin

LEMMA WaitingMoves ==
    ASSUME AInv, NEW r \in Reqs, NEW op \in Asides \cup {"claim"}, NEW u \in Accounts, NEW m \in Macs,
           u # Nobody => op \in Owners, NEW S,
           Begin(r, [Task(op, "write", u) EXCEPT !.x = m], S)
    PROVE  /\ Is(req'[r], op, "write", {}, m, u, {}) /\ req'[r].stale = {} /\ Moves(r, req'[r])
           /\ drifted' = drifted \cup {x \in S : Contended(r, x)}
<1> DEFINE t == Task(op, "write", u)
           n == Now(t, "write", {}, m, {})
<1>1. op \in Ops /\ "write" \in Phases
  BY DEF Ops, Phases, Asides
<1>2. t \in Request /\ t.at = "write" /\ t.todo = {} /\ t.took = {}
  BY <1>1, TaskIs
<1>3. [t EXCEPT !.x = m] = n
  <2> HIDE DEF t
  <2>1. [t EXCEPT !.x = m] = Now(t, t.at, t.todo, m, t.took)
    BY <1>1, <1>2, Sorts, SetSubject
  <2> QED BY <1>2, <2>1, Zenon
<1>4. n \in Request /\ Is(n, op, "write", {}, m, u, {}) /\ n.stale = {}
  BY <1>1, Sorts, NewTask
<1>5. Begin(r, n, S)
  BY <1>3, Zenon
<1> HIDE DEF n, t
<1>6. Proper(n)
  BY <1>1, <1>4, Sorts DEF Is, Proper, Asides, Owners, Ops, Batches
<1>7. Moves(r, n) /\ drifted' = drifted \cup {x \in S : Contended(r, x)}
  BY <1>5, <1>6, BeginMoves
<1>8. req'[r] = n
  BY <1>7 DEF Moves
<1> QED BY <1>4, <1>7, <1>8

LEMMA QueueMoves ==
    ASSUME AInv, NEW r \in Reqs, NEW op \in Batches \cup {"pay"}, NEW u \in Accounts,
           NEW T \in SUBSET Macs, u # Nobody => op \in Owners, NEW S,
           Begin(r, [Task(op, "next", u) EXCEPT !.todo = T], S)
    PROVE  /\ Is(req'[r], op, "next", T, None, u, {}) /\ req'[r].stale = {} /\ Moves(r, req'[r])
           /\ drifted' = drifted \cup {x \in S : Contended(r, x)}
<1> DEFINE t == Task(op, "next", u)
           n == Now(t, "next", T, None, {})
<1>1. op \in Ops /\ "next" \in Phases
  BY DEF Ops, Phases, Batches
<1>2. t \in Request /\ t.at = "next" /\ t.x = None /\ t.took = {}
  BY <1>1, TaskIs
<1>3. [t EXCEPT !.todo = T] = n
  <2> HIDE DEF t
  <2>1. [t EXCEPT !.todo = T] = Now(t, t.at, T, t.x, t.took)
    BY <1>1, <1>2, Sorts, SetTodo
  <2> QED BY <1>2, <2>1, Zenon
<1>4. n \in Request /\ Is(n, op, "next", T, None, u, {}) /\ n.stale = {}
  BY <1>1, Sorts, NewTask
<1>5. Begin(r, n, S)
  BY <1>3, Zenon
<1> HIDE DEF n, t
<1>6. Proper(n)
  BY <1>1, <1>4, Sorts DEF Is, Proper, Asides, Owners, Ops, Batches
<1>7. Moves(r, n) /\ drifted' = drifted \cup {x \in S : Contended(r, x)}
  BY <1>5, <1>6, BeginMoves
<1>8. req'[r] = n
  BY <1>7 DEF Moves
<1> QED BY <1>4, <1>7, <1>8

LEMMA SaysMoves ==
    ASSUME AInv, NEW r \in Reqs,
           NEW op \in {"cancel", "cancel_stale", "refund"} \cup PlanOps,
           NEW x \in Orders \cup Plans \cup {None}, NEW T \in SUBSET Orders,
           x \in Orders => op \in {"cancel", "refund"}, x \in Plans => op \in PlanOps,
           T # {} => op \in {"cancel", "cancel_stale"}, Gives(r, Says(op, x, T))
    PROVE  Is(req'[r], op, "row", {}, x, Nobody, T) /\ req'[r].stale = {} /\ Moves(r, req'[r])
<1> DEFINE t == Task(op, "row", Nobody)
           n == Now(t, "row", {}, x, T)
<1>1. op \in Ops /\ "row" \in Phases /\ x \in Subjects \cup {None}
  BY Sorts DEF Ops, Phases, PlanOps
<1>2. t \in Request /\ t.at = "row" /\ t.todo = {}
  BY <1>1, Sorts, TaskIs
<1>3. Says(op, x, T) = n
  <2>1. Says(op, x, T) = [t EXCEPT !.x = x, !.took = T]
    BY DEF Says
  <2> HIDE DEF t
  <2>2. [t EXCEPT !.x = x, !.took = T] = Now(t, t.at, t.todo, x, T)
    BY <1>1, <1>2, SetSubjectTook
  <2> QED BY <1>2, <2>1, <2>2, Zenon
<1>4. n \in Request /\ Is(n, op, "row", {}, x, Nobody, T) /\ n.stale = {}
  BY <1>1, Sorts, NewTask
<1>5. req' = [req EXCEPT ![r] = n]
  BY <1>3, Zenon DEF Gives
<1> HIDE DEF n, t
<1>6. Proper(n)
  BY <1>1, <1>4, Sorts DEF Is, Proper, Asides, Owners, Ops, PlanOps, Unsaid
<1>7. Moves(r, n)
  BY <1>5, <1>6, GivesMoves
<1>8. req'[r] = n
  BY <1>7 DEF Moves
<1> QED BY <1>4, <1>7, <1>8

LEMMA ReplaceMoves ==
    ASSUME AInv, NEW r \in Reqs, NEW u \in Users, NEW old \in Macs, NEW new \in Macs, old # new,
           Changes(r, [Task("replace", "add", u) EXCEPT !.x = new, !.todo = {old}], {old, new})
    PROVE  /\ Is(req'[r], "replace", "add", {old}, new, u, {}) /\ Moves(r, req'[r])
           /\ \A q \in Reqs, m \in {old, new} : q # r /\ Holds(q, m) => m \in req'[q].stale
<1> DEFINE t == Task("replace", "add", u)
           n == Now(t, "add", {old}, new, {})
<1>1. "replace" \in Ops /\ "add" \in Phases /\ {old} \in SUBSET Macs /\ u \in Accounts
  BY Sorts DEF Ops, Phases
<1>2. t \in Request /\ t.at = "add" /\ t.took = {}
  BY <1>1, TaskIs
<1>3. [t EXCEPT !.x = new, !.todo = {old}] = n
  <2> HIDE DEF t
  <2>1. [t EXCEPT !.x = new, !.todo = {old}] = Now(t, t.at, {old}, new, t.took)
    BY <1>1, <1>2, Sorts, SetSubjectTodo
  <2> QED BY <1>2, <2>1, Zenon
<1>4. n \in Request /\ Is(n, "replace", "add", {old}, new, u, {})
  BY <1>1, Sorts, NewTask
<1>5. Changes(r, n, {old, new})
  BY <1>3, Zenon
<1> HIDE DEF n, t
<1>6. Proper(n)
  BY <1>1, <1>4, Sorts DEF Is, Proper, Asides, Owners, Ops, Batches
<1>7. Moves(r, n) /\ \A q \in Reqs, m \in {old, new} : q # r /\ Holds(q, m) => m \in req'[q].stale
  BY <1>5, <1>6, ChangesMoves
<1>8. req'[r] = n
  BY <1>7 DEF Moves
<1> QED BY <1>4, <1>7, <1>8

LEMMA RevokeMoves ==
    ASSUME AInv, NEW r \in Reqs, NEW m \in Macs,
           Changes(r, [Task("revoke", "remove", Nobody) EXCEPT !.x = m], {m})
    PROVE  Is(req'[r], "revoke", "remove", {}, m, Nobody, {}) /\ Moves(r, req'[r])
           /\ req'[r].stale = {}
           /\ \A q \in Reqs : q # r /\ Holds(q, m) => m \in req'[q].stale
<1> DEFINE t == Task("revoke", "remove", Nobody)
           n == Now(t, "remove", {}, m, {})
<1>1. "revoke" \in Ops /\ "remove" \in Phases
  BY DEF Ops, Phases
<1>2. t \in Request /\ t.at = "remove" /\ t.took = {} /\ t.todo = {}
  BY <1>1, Sorts, TaskIs
<1>3. [t EXCEPT !.x = m] = n
  <2> HIDE DEF t
  <2>1. [t EXCEPT !.x = m] = Now(t, t.at, t.todo, m, t.took)
    BY <1>1, <1>2, Sorts, SetSubject
  <2> QED BY <1>2, <2>1, Zenon
<1>4. n \in Request /\ Is(n, "revoke", "remove", {}, m, Nobody, {}) /\ n.stale = {}
  BY <1>1, Sorts, NewTask
<1>5. Changes(r, n, {m})
  BY <1>3, Zenon
<1> HIDE DEF n, t
<1>6. Proper(n)
  BY <1>1, <1>4, Sorts DEF Is, Proper, Asides, Owners, Ops, Batches
<1>7. Moves(r, n) /\ \A q \in Reqs : q # r /\ Holds(q, m) => m \in req'[q].stale
  BY <1>5, <1>6, ChangesMoves
<1>8. req'[r] = n
  BY <1>7 DEF Moves
<1> QED BY <1>4, <1>7, <1>8

LEMMA DeleteFailsMoves ==
    ASSUME AInv, NEW r \in Reqs, NEW m \in Macs,
           req' = [req EXCEPT ![r] = [Task("delete", "row", Nobody) EXCEPT !.x = m]]
    PROVE  Is(req'[r], "delete", "row", {}, m, Nobody, {}) /\ Moves(r, req'[r])
<1> DEFINE t == Task("delete", "row", Nobody)
           n == Now(t, "row", {}, m, {})
<1>1. "delete" \in Ops /\ "row" \in Phases
  BY DEF Ops, Phases
<1>2. t \in Request /\ t.at = "row" /\ t.took = {} /\ t.todo = {}
  BY <1>1, Sorts, TaskIs
<1>3. [t EXCEPT !.x = m] = n
  <2> HIDE DEF t
  <2>1. [t EXCEPT !.x = m] = Now(t, t.at, t.todo, m, t.took)
    BY <1>1, <1>2, Sorts, SetSubject
  <2> QED BY <1>2, <2>1, Zenon
<1>4. n \in Request /\ Is(n, "delete", "row", {}, m, Nobody, {})
  BY <1>1, Sorts, NewTask
<1>5. req' = [req EXCEPT ![r] = n]
  BY <1>3, Zenon
<1> HIDE DEF n, t
<1>6. Proper(n)
  BY <1>1, <1>4, Sorts DEF Is, Proper, Asides, Owners, Ops, Batches, Unsaid
<1>7. Moves(r, n)
  BY <1>5, <1>6, GivesMoves
<1>8. req'[r] = n
  BY <1>7 DEF Moves
<1> QED BY <1>4, <1>7, <1>8

(* Requests that go on.                                                    *)

\* Request r goes on at phase a, or is done.
Steps(r, a) == Is(req'[r], req[r].op, a, req[r].todo, req[r].x, req[r].uid, req[r].took)
               /\ req'[r].stale = req[r].stale
Ends(r) == req'[r] = Idle
NextOne(r) == Is(req'[r], req[r].op, "next", req[r].todo, None, req[r].uid, req[r].took)
              /\ req'[r].stale = req[r].stale /\ req[r].op \in Batches

LEMMA AtTask ==
    ASSUME AInv, NEW r \in Reqs, NEW a \in Phases,
           Proper(Now(req[r], a, req[r].todo, req[r].x, req[r].took))
    PROVE  /\ [req[r] EXCEPT !.at = a] = Now(req[r], a, req[r].todo, req[r].x, req[r].took)
           /\ Gives(r, [req[r] EXCEPT !.at = a]) => Steps(r, a) /\ Moves(r, req'[r])
           /\ \A S \in SUBSET Macs : Changes(r, [req[r] EXCEPT !.at = a], S) =>
                 /\ Steps(r, a) /\ Moves(r, req'[r])
                 /\ \A q \in Reqs, m \in S : q # r /\ Holds(q, m) => m \in req'[q].stale
<1>1. PICK t \in Request : t = req[r]
  BY RequestIs
<1> DEFINE n == Now(t, a, t.todo, t.x, t.took)
<1>2. [t EXCEPT !.at = a] = n
  BY SetAt
<1>3. n.op = t.op /\ n.at = a /\ n.todo = t.todo /\ n.x = t.x /\ n.uid = t.uid /\ n.stale = t.stale
      /\ n.took = t.took
  BY Zenon DEF Now
<1>4. Proper(n)
  BY <1>1, Zenon
<1> HIDE DEF n
<1>5. Gives(r, n) => Moves(r, n) /\ req'[r] = n
  BY <1>4, GivesMoves DEF Gives, Moves
<1>6. \A S \in SUBSET Macs : Changes(r, n, S) =>
         /\ Moves(r, n) /\ req'[r] = n
         /\ \A q \in Reqs, m \in S : q # r /\ Holds(q, m) => m \in req'[q].stale
  BY <1>4, ChangesMoves DEF Moves
<1>7. req'[r] = n => Steps(r, a)
  BY <1>1, <1>3 DEF Steps, Is
<1>8. /\ Gives(r, n) => Steps(r, a) /\ Moves(r, req'[r])
      /\ \A S \in SUBSET Macs : Changes(r, n, S) =>
                 /\ Steps(r, a) /\ Moves(r, req'[r])
                 /\ \A q \in Reqs, m \in S : q # r /\ Holds(q, m) => m \in req'[q].stale
  BY <1>5, <1>6, <1>7
<1> QED BY <1>1, <1>2, <1>8, Zenon DEF n

LEMMA OnwardIs ==
    ASSUME AInv, NEW r \in Reqs, req[r].at \in {"reread", "add", "remove", "row"}, Gives(r, Onward(r))
    PROVE  (Ends(r) \/ NextOne(r)) /\ Moves(r, req'[r])
<1>1. CASE req[r].op \in Batches
  <2>1. PICK t \in Request : t = req[r]
    BY RequestIs
  <2> DEFINE n == Now(t, "next", t.todo, None, t.took)
  <2>2. "next" \in Phases /\ None \in Subjects \cup {None} /\ Proper(t)
    BY <2>1, RequestIs DEF Phases
  <2>3. Onward(r) = n
    <3>1. Onward(r) = [t EXCEPT !.at = "next", !.x = None]
      BY <1>1, <2>1 DEF Onward
    <3>2. [t EXCEPT !.at = "next", !.x = None] = n
      BY <2>2, SetAtSubject
    <3> QED BY <3>1, <3>2, Zenon
  <2>4. n \in Request /\ n.op = t.op /\ n.at = "next" /\ n.todo = t.todo /\ n.x = None
        /\ n.uid = t.uid /\ n.stale = t.stale /\ n.took = t.took
    BY <2>2, FieldsAre, NowIs
  <2> HIDE DEF n
  <2>5. Proper(n)
    <3>1. t.took = {} /\ t.op \notin Asides /\ t.op # "replace" /\ t.op \in Ops \ {"audit_note"}
          /\ (t.uid # Nobody => t.op \in Owners) /\ t.todo \in SUBSET Macs
      BY <1>1, <2>1, <2>2, FieldsAre DEF Proper, Asides, Ops, Batches
    <3> QED BY <1>1, <2>1, <2>4, <3>1, Sorts DEF Proper
  <2>6. Moves(r, n) /\ req'[r] = n
    BY <2>3, <2>5, GivesMoves DEF Gives, Moves
  <2> QED BY <1>1, <2>1, <2>4, <2>6 DEF NextOne, Is
<1>2. CASE req[r].op \notin Batches
  <2>1. Onward(r) = Idle
    BY <1>2 DEF Onward
  <2>2. Moves(r, Idle) /\ req'[r] = Idle
    BY <2>1, IdleIs, GivesMoves DEF Gives, Moves
  <2> QED BY <2>2 DEF Ends
<1> QED BY <1>1, <1>2

LEMMA ToldIs ==
    ASSUME AInv, NEW r \in Reqs, req[r].at \in {"add", "remove"}, Gives(r, Told(r))
    PROVE  /\ req[r].op \in Unsaid => (Ends(r) \/ NextOne(r))
           /\ req[r].op \notin Unsaid => Steps(r, "row")
           /\ Moves(r, req'[r])
<1>1. CASE req[r].op \in Unsaid
  BY <1>1, OnwardIs DEF Told
<1>2. CASE req[r].op \notin Unsaid
  <2>1. "row" \in Phases /\ Gives(r, [req[r] EXCEPT !.at = "row"])
    BY <1>2 DEF Phases, Told
  <2>2. PICK t \in Request : t = req[r] /\ Proper(t)
    BY RequestIs
  <2>3. LET n == Now(t, "row", t.todo, t.x, t.took) IN
        n \in Request /\ n.op = t.op /\ n.at = "row" /\ n.todo = t.todo /\ n.x = t.x
        /\ n.uid = t.uid /\ n.stale = t.stale /\ n.took = t.took
    BY <2>1, FieldsAre, NowIs
  <2>4. Proper(Now(t, "row", t.todo, t.x, t.took))
    BY <1>2, <2>2, <2>3, Sorts DEF Proper, Asides, Owners, Ops, Batches
  <2> QED BY <1>2, <2>1, <2>2, <2>4, AtTask
<1> QED BY <1>1, <1>2

LEMMA EndMoves ==
    ASSUME AInv, NEW r \in Reqs, req' = [req EXCEPT ![r] = Idle]
    PROVE  Ends(r) /\ Moves(r, req'[r])
  BY IdleIs, GivesMoves DEF Ends, Moves

\* A batch leaves a device out.
LEMMA LeaveOut ==
    ASSUME AInv, NEW r \in Reqs, NEW m \in Macs, At(r, "next"),
           req' = [req EXCEPT ![r].todo = @ \ {m}]
    PROVE  /\ Is(req'[r], req[r].op, "next", req[r].todo \ {m}, None, req[r].uid, req[r].took)
           /\ req'[r].stale = req[r].stale /\ Moves(r, req'[r])
<1>1. PICK t \in Request : t = req[r] /\ Proper(t)
  BY RequestIs
<1>2. PICK T \in SUBSET Macs : T = t.todo \ {m}
  BY FieldsAre
<1> DEFINE n == Now(t, t.at, T, t.x, t.took)
<1>3. req' = [req EXCEPT ![r] = n]
  <2>1. req' = [req EXCEPT ![r] = [t EXCEPT !.todo = T]]
    BY <1>1, <1>2
  <2>2. [t EXCEPT !.todo = T] = n
    BY SetTodo
  <2> QED BY <2>1, <2>2, Zenon
<1>4. /\ n \in Request /\ n.op = t.op /\ n.at = t.at /\ n.todo = T /\ n.x = t.x
      /\ n.uid = t.uid /\ n.stale = t.stale /\ n.took = t.took
  BY FieldsAre, NowIs
<1> HIDE DEF n
<1>5. t.at = "next" /\ t.x = None
  BY <1>1 DEF At, Proper
<1>6. Proper(n)
  BY <1>1, <1>2, <1>4, <1>5 DEF Proper
<1>7. Moves(r, n) /\ req'[r] = n
  BY <1>3, <1>6, GivesMoves DEF Moves
<1> QED BY <1>1, <1>2, <1>4, <1>5, <1>7 DEF Is
-----------------------------------------------------------------------------
(* What the steps do, in the terms the invariants need.                    *)

\* Request r writes the row of m by operation op for account u; phase a follows.
Wrote(r, m, op, a, u) ==
    /\ Moves(r, req'[r])
    /\ Is(req'[r], op, a, req[r].todo \ {m}, m, u, {}) /\ req'[r].stale = req[r].stale
    /\ \A q \in Reqs : q # r /\ Holds(q, m) => m \in req'[q].stale
    /\ \/ req[r] = Idle
       \/ req[r].at = "next" /\ req[r].op = op /\ req[r].uid = u /\ m \in req[r].todo
       \/ req[r].at = "write" /\ req[r].op = op /\ req[r].uid = u /\ m = req[r].x
    /\ drifted' = IF op \in Unsaid \/ Contended(r, m) THEN drifted \cup {m} ELSE drifted \ {m}
    /\ UNCHANGED <<order, plan, ops, last, told, budget>>

Extended(r, m) ==
    \E op \in {"grant", "pay", "bulk_extend", "import", "api_import", "user_grant"}, u \in Accounts :
        /\ Wrote(r, m, op, "reread", u)
        /\ u # Nobody => op \in {"pay", "user_grant"} /\ req[r] # Idle
        /\ \E text \in {Nobody, mac[m].text} :
              mac' = [mac EXCEPT ![m] = [st |-> "active",
                                         owner |-> IF u = Nobody THEN mac[m].owner ELSE u,
                                         text |-> text]]

Deleted(r, m) ==
    /\ \E op \in {"delete", "api_revoke", "bulk_delete"} : Wrote(r, m, op, "remove", Nobody)
    /\ mac' = [mac EXCEPT ![m] = NoRow]

\* A single device by a request that begins, or the next one of a batch.
LEMMA TaskToWrite ==
    ASSUME AInv, NEW r \in Reqs, NEW m \in Macs, NEW op \in {"grant", "delete", "api_revoke"},
           req[r] = Idle
    PROVE  LET t == Task(op, "next", Nobody) IN
           /\ t \in Request /\ t.op = op /\ t.took = {} /\ t.uid = Nobody
           /\ t.todo = req[r].todo /\ t.stale = req[r].stale
<1>1. op \in Ops /\ "next" \in Phases /\ Nobody \in Accounts
  BY Sorts DEF Ops, Phases
<1>2. req[r].todo = {} /\ req[r].stale = {}
  BY IdleIs
<1> QED BY <1>1, <1>2, TaskIs

LEMMA NextToWrite ==
    ASSUME AInv, NEW r \in Reqs, At(r, "next")
    PROVE  /\ req[r] \in Request /\ req[r].took = {} /\ req[r].op \in Batches \cup {"pay"}
           /\ req[r].uid # Nobody => req[r].op \in {"pay", "user_grant"}
           /\ req[r].uid \in Accounts /\ req[r].at = "next"
  BY RequestIs DEF At, Proper, Owners, Batches

LEMMA ExtendIs ==
    ASSUME AInv, NEW r \in Reqs, NEW m \in Macs, NEW t \in Request, NEW label, Extend(r, t, m, label),
           t.op \in {"grant", "pay", "bulk_extend", "import", "api_import", "user_grant"},
           t.took = {}, t.uid # Nobody => t.op \in {"pay", "user_grant"} /\ req[r] # Idle,
           t.todo = req[r].todo, t.stale = req[r].stale,
           req[r] = Idle \/ (t = req[r] /\ At(r, "next") /\ m \in req[r].todo)
    PROVE  Extended(r, m)
<1> DEFINE n == [t EXCEPT !.at = "reread", !.x = m, !.todo = @ \ {m}]
<1>1. Changes(r, n, {m}) /\ Settles(r, n.op, m) /\ UNCHANGED <<order, plan, ops, last, told, budget>>
  BY DEF Extend, Commit
<1>2. /\ Is(req'[r], t.op, "reread", t.todo \ {m}, m, t.uid, {}) /\ req'[r].stale = t.stale
      /\ Moves(r, req'[r])
      /\ \A q \in Reqs : q # r /\ Holds(q, m) => m \in req'[q].stale
  BY <1>1, WrittenMoves DEF Owners, Batches
<1>3. n.op = t.op
  BY Zenon DEF Request
<1>4. drifted' = IF t.op \in Unsaid \/ Contended(r, m) THEN drifted \cup {m} ELSE drifted \ {m}
  BY <1>1, <1>3, Zenon DEF Settles
<1>5. Wrote(r, m, t.op, "reread", t.uid)
  BY <1>1, <1>2, <1>4, Zenon DEF Wrote, At
<1>6. PICK text \in {Nobody, mac[m].text} :
          mac' = [mac EXCEPT ![m] = [st |-> "active",
                                     owner |-> IF t.uid = Nobody THEN mac[m].owner ELSE t.uid,
                                     text |-> text]]
  <2>1. mac' = [mac EXCEPT ![m] = UpsertMAC(mac[m], t.uid, label)]
    BY DEF Extend
  <2>2. CASE label
    BY <2>1, <2>2, Zenon DEF UpsertMAC
  <2>3. CASE ~label
    BY <2>1, <2>3, Zenon DEF UpsertMAC
  <2> QED BY <2>2, <2>3
<1>7. t.uid \in Accounts
  BY FieldsAre
<1> QED BY <1>5, <1>6, <1>7, Zenon DEF Extended

LEMMA DeleteIs ==
    ASSUME AInv, NEW r \in Reqs, NEW m \in Macs, NEW t \in Request, DeleteMAC(r, t, m),
           t.op \in {"delete", "api_revoke", "bulk_delete"}, t.took = {}, t.uid = Nobody,
           t.todo = req[r].todo, t.stale = req[r].stale,
           req[r] = Idle \/ (t = req[r] /\ At(r, "next") /\ m \in req[r].todo)
    PROVE  Deleted(r, m)
<1> DEFINE n == [t EXCEPT !.at = "remove", !.x = m, !.todo = @ \ {m}]
<1>1. Changes(r, n, {m}) /\ Settles(r, n.op, m) /\ UNCHANGED <<order, plan, ops, last, told, budget>>
  BY DEF DeleteMAC, Commit
<1>2. /\ Is(req'[r], t.op, "remove", t.todo \ {m}, m, t.uid, {}) /\ req'[r].stale = t.stale
      /\ Moves(r, req'[r])
      /\ \A q \in Reqs : q # r /\ Holds(q, m) => m \in req'[q].stale
  BY <1>1, WrittenMoves DEF Owners, Batches
<1>3. n.op = t.op
  BY Zenon DEF Request
<1>4. drifted' = IF t.op \in Unsaid \/ Contended(r, m) THEN drifted \cup {m} ELSE drifted \ {m}
  BY <1>1, <1>3, Zenon DEF Settles
<1>5. Wrote(r, m, t.op, "remove", t.uid)
  BY <1>1, <1>2, <1>4, Zenon DEF Wrote, At
<1>6. mac' = [mac EXCEPT ![m] = NoRow]
  BY DEF DeleteMAC
<1> QED BY <1>5, <1>6, Zenon DEF Deleted

LEMMA Writers ==
    ASSUME AInv, NEW r \in Reqs, NEW m \in Macs,
           \/ MACAdd(r, m) \/ MACExtend(r, m) \/ APIMACGrant(r, m)
           \/ MACDelete(r, m) \/ APIMACRevoke(r, m) \/ Next1(r, m)
    PROVE  Extended(r, m) \/ Deleted(r, m)
<1>1. CASE MACAdd(r, m) \/ MACExtend(r, m) \/ APIMACGrant(r, m)
  <2>1. req[r] = Idle /\ \E label : Extend(r, Task("grant", "next", Nobody), m, label)
    BY <1>1, Zenon DEF MACAdd, MACExtend, APIMACGrant, Asked
  <2> QED BY <2>1, TaskToWrite, ExtendIs
<1>2. CASE MACDelete(r, m)
  <2>1. req[r] = Idle /\ DeleteMAC(r, Task("delete", "next", Nobody), m)
    BY <1>2 DEF MACDelete, Asked
  <2> QED BY <2>1, TaskToWrite, DeleteIs
<1>3. CASE APIMACRevoke(r, m)
  <2>1. req[r] = Idle /\ DeleteMAC(r, Task("api_revoke", "next", Nobody), m)
    BY <1>3 DEF APIMACRevoke, Asked
  <2> QED BY <2>1, TaskToWrite, DeleteIs
<1>4. CASE Next1(r, m)
  <2>1. At(r, "next") /\ m \in req[r].todo /\ req[r] # Idle
    BY <1>4, IdleIs DEF Next1, At
  <2>2. CASE req[r].op = "bulk_delete"
    <3>1. DeleteMAC(r, req[r], m) /\ req[r].uid = Nobody
      BY <1>4, <2>1, <2>2, NextToWrite DEF Next1
    <3> QED BY <2>1, <2>2, <3>1, NextToWrite, DeleteIs
  <2>3. CASE req[r].op # "bulk_delete"
    <3>1. \E label : Extend(r, req[r], m, label)
      BY <1>4, <2>3, Zenon DEF Next1
    <3>2. req[r].op \in {"grant", "pay", "bulk_extend", "import", "api_import", "user_grant"}
      BY <2>1, <2>3, NextToWrite DEF Batches
    <3> QED BY <2>1, <3>1, <3>2, NextToWrite, ExtendIs
  <2> QED BY <2>2, <2>3
<1> QED BY <1>1, <1>2, <1>3, <1>4

\* The other writers of a device.
Revoked(r, m) ==
    /\ Wrote(r, m, "revoke", "remove", Nobody)
    /\ mac' = [mac EXCEPT ![m].st = IF @ = "none" THEN @ ELSE "blocked"]

Claimed(r, m) ==
    /\ req[r].at = "write" /\ req[r].op = "claim" /\ Wrote(r, m, "claim", "row", req[r].uid)
    /\ mac' = [mac EXCEPT ![m] = [st |-> "active",
                                  owner |-> IF req[r].uid = Nobody THEN mac[m].owner ELSE req[r].uid,
                                  text |-> mac[m].text]]

Marked(r, m) ==
    /\ req[r].at = "write" /\ req[r].op \in Asides /\ m = req[r].x
    /\ Steps(r, "row") /\ Moves(r, req'[r])
    /\ \A q \in Reqs : q # r /\ Holds(q, m) => m \in req'[q].stale
    /\ mac' = [mac EXCEPT ![m].text = IF mac[m].st = "none" THEN @ ELSE req[r].uid]
    /\ UNCHANGED <<order, plan, ops, log, budget>>

Replaced(r, u, old, new) ==
    /\ old # new /\ req[r] = Idle /\ Moves(r, req'[r])
    /\ Is(req'[r], "replace", "add", {old}, new, u, {})
    /\ \A q \in Reqs, m \in {old, new} : q # r /\ Holds(q, m) => m \in req'[q].stale
    /\ mac[old].owner = u
    /\ mac' = [mac EXCEPT ![old] = NoRow, ![new] = mac[old]] /\ mac[old].st = "active"
    /\ drifted' = (drifted \ {old, new}) \cup {m \in {old, new} : Contended(r, m)}
    /\ UNCHANGED <<order, plan, ops, last, told, budget>>

LEMMA RevokeIs ==
    ASSUME AInv, NEW r \in Reqs, NEW m \in Macs, MACRevoke(r, m)
    PROVE  Revoked(r, m)
<1>1. /\ req[r] = Idle /\ UNCHANGED <<order, plan, ops, last, told, budget>>
      /\ Commit(r, [Task("revoke", "remove", Nobody) EXCEPT !.x = m], m)
      /\ mac' = [mac EXCEPT ![m].st = IF @ = "none" THEN @ ELSE "blocked"]
  BY DEF MACRevoke, Asked
<1>2. /\ Is(req'[r], "revoke", "remove", {}, m, Nobody, {}) /\ Moves(r, req'[r])
      /\ req'[r].stale = {}
      /\ \A q \in Reqs : q # r /\ Holds(q, m) => m \in req'[q].stale
  BY <1>1, RevokeMoves DEF Commit
<1>3. [Task("revoke", "remove", Nobody) EXCEPT !.x = m].op = "revoke"
  BY DEF Task
<1>4. drifted' = IF Contended(r, m) THEN drifted \cup {m} ELSE drifted \ {m}
  BY <1>1, <1>3 DEF Commit, Settles, Unsaid
<1>5. Wrote(r, m, "revoke", "remove", Nobody)
  BY <1>1, <1>2, <1>4, IdleIs DEF Wrote, Unsaid, Is
<1> QED BY <1>1, <1>5 DEF Revoked

LEMMA ClaimIs ==
    ASSUME AInv, NEW r \in Reqs, ClaimWrite(r)
    PROVE  \E m \in Macs : Claimed(r, m)
<1>1. PICK t \in Request : t = req[r] /\ Proper(t)
  BY RequestIs
<1>2. t.at = "write" /\ t.op = "claim"
  BY <1>1 DEF ClaimWrite, At
<1>3. t.x \in Macs /\ t.todo = {} /\ t.took = {} /\ t.op \notin Unsaid
  BY <1>1, <1>2 DEF Proper, Unsaid
<1>4. PICK m \in Macs : m = t.x
  BY <1>3
<1>5. /\ mac' = [mac EXCEPT ![m] = UpsertMAC(mac[m], t.uid, FALSE)]
      /\ Commit(r, [t EXCEPT !.at = "row"], m)
      /\ UNCHANGED <<order, plan, ops, last, told, budget>>
  BY <1>1, <1>4, Zenon DEF ClaimWrite
<1>6. "row" \in Phases /\ {m} \in SUBSET Macs
  BY DEF Phases
<1>7. LET n == Now(t, "row", t.todo, t.x, t.took) IN
      n \in Request /\ n.op = t.op /\ n.at = "row" /\ n.todo = t.todo /\ n.x = t.x
      /\ n.uid = t.uid /\ n.stale = t.stale /\ n.took = t.took
  BY <1>6, FieldsAre, NowIs
<1>8. Proper(Now(t, "row", t.todo, t.x, t.took))
  BY <1>1, <1>2, <1>3, <1>7, Sorts DEF Proper, Asides, Owners, Ops
<1>9. /\ Steps(r, "row") /\ Moves(r, req'[r])
      /\ \A q \in Reqs : q # r /\ Holds(q, m) => m \in req'[q].stale
  BY <1>1, <1>5, <1>6, <1>8, AtTask DEF Commit
<1>10. [t EXCEPT !.at = "row"].op = t.op
  BY DEF Request
<1>11. drifted' = IF t.op \in Unsaid \/ Contended(r, m) THEN drifted \cup {m} ELSE drifted \ {m}
  BY <1>5, <1>10, Zenon DEF Commit, Settles
<1>12. Wrote(r, m, "claim", "row", t.uid)
  BY <1>1, <1>2, <1>3, <1>4, <1>5, <1>9, <1>11 DEF Wrote, Steps, Is
<1>13. Claimed(r, m)
  BY <1>1, <1>2, <1>5, <1>12, Zenon DEF Claimed, UpsertMAC
<1> QED BY <1>13

LEMMA MarkIs ==
    ASSUME AInv, NEW r \in Reqs, AsideWrite(r)
    PROVE  \E m \in Macs : Marked(r, m)
<1>1. PICK t \in Request : t = req[r] /\ Proper(t)
  BY RequestIs
<1>2. t.at = "write" /\ t.op \in Asides
  BY <1>1 DEF AsideWrite, At
<1>3. t.x \in Macs /\ t.todo = {} /\ t.took = {} /\ t.op \notin Unsaid
  BY <1>1, <1>2 DEF Proper, Unsaid, Asides
<1>4. PICK m \in Macs : m = t.x
  BY <1>3
<1>5. /\ mac' = [mac EXCEPT ![m].text = IF mac[m].st = "none" THEN @ ELSE t.uid]
      /\ Changes(r, [t EXCEPT !.at = "row"], {m})
      /\ UNCHANGED <<order, plan, ops, log, budget>>
  BY <1>1, <1>4, Zenon DEF AsideWrite
<1>6. "row" \in Phases /\ {m} \in SUBSET Macs
  BY DEF Phases
<1>7. LET n == Now(t, "row", t.todo, t.x, t.took) IN
      n \in Request /\ n.op = t.op /\ n.at = "row" /\ n.todo = t.todo /\ n.x = t.x
      /\ n.uid = t.uid /\ n.stale = t.stale /\ n.took = t.took
  BY <1>6, FieldsAre, NowIs
<1>8. Proper(Now(t, "row", t.todo, t.x, t.took))
  BY <1>1, <1>2, <1>3, <1>7, Sorts DEF Proper, Asides, Owners, Ops
<1>9. /\ Steps(r, "row") /\ Moves(r, req'[r])
      /\ \A q \in Reqs : q # r /\ Holds(q, m) => m \in req'[q].stale
  BY <1>1, <1>5, <1>6, <1>8, AtTask
<1> QED BY <1>1, <1>2, <1>4, <1>5, <1>9, Zenon DEF Marked

LEMMA ReplaceIs ==
    ASSUME AInv, NEW r \in Reqs, NEW u \in Users, NEW old \in Macs, NEW new \in Macs \ {old},
           Replace(r, u, old, new)
    PROVE  Replaced(r, u, old, new)
<1>1. /\ Is(req'[r], "replace", "add", {old}, new, u, {}) /\ Moves(r, req'[r])
      /\ \A q \in Reqs, m \in {old, new} : q # r /\ Holds(q, m) => m \in req'[q].stale
  BY ReplaceMoves DEF Replace
<1> QED BY <1>1, Zenon DEF Replace, Replaced, Asked
-----------------------------------------------------------------------------
(* Requests that begin, and what is no device's row.                       *)

Begun(r) == req[r] = Idle /\ req'[r].stale = {} /\ Moves(r, req'[r])
            /\ UNCHANGED <<ops, last, told, budget>>
Touches(r, S) == drifted' = drifted \cup {x \in S : Contended(r, x)}

Waits(r) ==
    /\ Begun(r) /\ UNCHANGED tables
    /\ \E m \in Macs, u \in Accounts :
          \/ /\ Is(req'[r], "claim", "write", {}, m, u, {})
             /\ mac[m].st = "active" /\ mac[m].owner \in {u, Nobody} /\ Touches(r, {m})
          \/ /\ Is(req'[r], "label", "write", {}, m, u, {})
             /\ mac[m].owner = u /\ drifted' = drifted
          \/ /\ Is(req'[r], "note", "write", {}, m, Nobody, {}) /\ drifted' = drifted

Queued(r) ==
    /\ Begun(r) /\ UNCHANGED tables
    /\ \E op \in Batches, u \in Accounts, T \in SUBSET Macs :
          /\ Is(req'[r], op, "next", T, None, u, {}) /\ Touches(r, T)
          /\ u # Nobody => T = ListMACsForUser(u)

Paid(r, o) ==
    /\ Begun(r) /\ Touches(r, {Device[o]})
    /\ Is(req'[r], "pay", "next", {Device[o]}, None, Buyer[o], {})
    /\ order[o] = "pending" /\ order' = [order EXCEPT ![o] = "paid"]
    /\ UNCHANGED <<mac, plan>>

Misdeleted(r, m) ==
    /\ req[r] = Idle /\ Is(req'[r], "delete", "row", {}, m, Nobody, {}) /\ Moves(r, req'[r])
    /\ budget > 0 /\ budget' = budget - 1 /\ drifted' = drifted \cup {m}
    /\ UNCHANGED <<tables, ops, last, told>>

LEMMA WaitsIs ==
    ASSUME AInv, NEW r \in Reqs, NEW m \in Macs,
           \/ \E u \in Users : Claim(r, u, m) \/ Label(r, u, m)
           \/ APIMACLabel(r, m) \/ APIMACNotes(r, m) \/ MACNotes(r, m)
    PROVE  Waits(r)
<1>1. CASE \E u \in Users : Claim(r, u, m)
  <2>1. PICK u \in Users : Claim(r, u, m)
    BY <1>1
  <2>2. /\ req[r] = Idle /\ mac[m].st = "active" /\ mac[m].owner \in {u, Nobody}
        /\ Begin(r, [Task("claim", "write", u) EXCEPT !.x = m], {m})
        /\ UNCHANGED <<tables, ops, last, told, budget>>
    BY <2>1, Zenon DEF Claim, Asked
  <2>3. /\ Is(req'[r], "claim", "write", {}, m, u, {}) /\ req'[r].stale = {} /\ Moves(r, req'[r])
        /\ drifted' = drifted \cup {x \in {m} : Contended(r, x)} /\ u \in Accounts
    BY <2>2, Sorts, WaitingMoves DEF Owners
  <2>4. Begun(r) /\ Touches(r, {m}) /\ UNCHANGED tables
    BY <2>2, <2>3 DEF Begun, Touches
  <2> QED BY <2>2, <2>3, <2>4, Zenon DEF Waits
<1>2. CASE \E u \in Users : Label(r, u, m)
  <2>1. PICK u \in Users : Label(r, u, m)
    BY <1>2
  <2>2. /\ req[r] = Idle /\ mac[m].owner = u
        /\ Begin(r, [Task("label", "write", u) EXCEPT !.x = m], {})
        /\ UNCHANGED <<tables, ops, last, told, budget>>
    BY <2>1, Zenon DEF Label, Aside, Asked
  <2>3. /\ Is(req'[r], "label", "write", {}, m, u, {}) /\ req'[r].stale = {} /\ Moves(r, req'[r])
        /\ drifted' = drifted \cup {x \in {} : Contended(r, x)} /\ u \in Accounts
    BY <2>2, Sorts, WaitingMoves DEF Owners, Asides
  <2>4. Begun(r) /\ drifted' = drifted /\ UNCHANGED tables
    BY <2>2, <2>3 DEF Begun
  <2> QED BY <2>2, <2>3, <2>4, Zenon DEF Waits
<1>3. CASE APIMACLabel(r, m) \/ APIMACNotes(r, m) \/ MACNotes(r, m)
  <2>2. /\ req[r] = Idle
        /\ Begin(r, [Task("note", "write", Nobody) EXCEPT !.x = m], {})
        /\ UNCHANGED <<tables, ops, last, told, budget>>
    BY <1>3, Zenon DEF APIMACLabel, APIMACNotes, MACNotes, Aside, Asked
  <2>3. /\ Is(req'[r], "note", "write", {}, m, Nobody, {}) /\ req'[r].stale = {}
        /\ Moves(r, req'[r]) /\ drifted' = drifted \cup {x \in {} : Contended(r, x)}
        /\ Nobody \in Accounts
    BY <2>2, Sorts, WaitingMoves DEF Asides
  <2>4. Begun(r) /\ drifted' = drifted /\ UNCHANGED tables
    BY <2>2, <2>3 DEF Begun
  <2> QED BY <2>3, <2>4, Zenon DEF Waits
<1> QED BY <1>1, <1>2, <1>3

LEMMA QueuedIs ==
    ASSUME AInv, NEW r \in Reqs,
           \/ \E S \in SUBSET Macs : MACBulk(r, S) \/ MACImport(r, S) \/ APIMACImport(r, S)
           \/ \E u \in Users : UserGrant(r, u) \/ UserGrantByPhone(r, u)
    PROVE  Queued(r)
<1>1. PICK op \in Batches, u \in Accounts, T \in SUBSET Macs :
         /\ Batch(r, op, u, T)
         /\ u # Nobody => op = "user_grant" /\ T = ListMACsForUser(u)
  <2>1. CASE \E S \in SUBSET Macs : MACBulk(r, S) \/ MACImport(r, S) \/ APIMACImport(r, S)
    <3>1. PICK S \in SUBSET Macs : MACBulk(r, S) \/ MACImport(r, S) \/ APIMACImport(r, S)
      BY <2>1
    <3>2. \E op \in Batches : Batch(r, op, Nobody, S)
      BY <3>1, Zenon DEF MACBulk, MACImport, APIMACImport, Batches
    <3> QED BY <3>2, Sorts
  <2>2. CASE \E u \in Users : UserGrant(r, u) \/ UserGrantByPhone(r, u)
    <3>1. PICK u \in Users : Batch(r, "user_grant", u, ListMACsForUser(u))
      BY <2>2, Zenon DEF UserGrant, UserGrantByPhone
    <3>2. ListMACsForUser(u) \in SUBSET Macs /\ u \in Accounts /\ "user_grant" \in Batches
      BY Sorts DEF ListMACsForUser, Batches
    <3> QED BY <3>1, <3>2
  <2> QED BY <2>1, <2>2
<1>2. /\ req[r] = Idle /\ Begin(r, [Task(op, "next", u) EXCEPT !.todo = T], T)
      /\ UNCHANGED <<tables, ops, last, told, budget>>
  BY <1>1, Zenon DEF Batch, Asked
<1>3. u # Nobody => op \in Owners
  BY <1>1 DEF Owners
<1>4. /\ Is(req'[r], op, "next", T, None, u, {}) /\ req'[r].stale = {} /\ Moves(r, req'[r])
      /\ drifted' = drifted \cup {x \in T : Contended(r, x)}
  BY <1>2, <1>3, QueueMoves
<1>5. Begun(r) /\ Touches(r, T) /\ UNCHANGED tables
  BY <1>2, <1>4 DEF Begun, Touches
<1> QED BY <1>1, <1>4, <1>5, Zenon DEF Queued

LEMMA PayIs ==
    ASSUME AInv, NEW r \in Reqs, NEW o \in Orders, Pay(r, o)
    PROVE  Paid(r, o)
<1>1. PICK m \in Macs, u \in Accounts : m = Device[o] /\ u = Buyer[o]
  BY SubjectsAssumption DEF Accounts
<1>2. /\ req[r] = Idle /\ order[o] = "pending" /\ order' = [order EXCEPT ![o] = "paid"]
      /\ Begin(r, [Task("pay", "next", u) EXCEPT !.todo = {m}], {m})
      /\ UNCHANGED <<mac, plan, ops, last, told, budget>>
  BY <1>1, Zenon DEF Pay, Asked
<1>3. /\ Is(req'[r], "pay", "next", {m}, None, u, {}) /\ req'[r].stale = {} /\ Moves(r, req'[r])
      /\ drifted' = drifted \cup {x \in {m} : Contended(r, x)}
  <2>1. PICK op \in Batches \cup {"pay"}, T \in SUBSET Macs : op = "pay" /\ T = {m}
    OBVIOUS
  <2>2. op \in Owners
    BY <2>1 DEF Owners
  <2>3. Begin(r, [Task(op, "next", u) EXCEPT !.todo = T], {m})
    BY <1>2, <2>1, Zenon
  <2>4. /\ Is(req'[r], op, "next", T, None, u, {}) /\ req'[r].stale = {} /\ Moves(r, req'[r])
        /\ drifted' = drifted \cup {x \in {m} : Contended(r, x)}
    BY <2>2, <2>3, QueueMoves
  <2> QED BY <2>1, <2>4, Zenon
<1> QED BY <1>1, <1>2, <1>3 DEF Paid, Begun, Touches

LEMMA MisdeleteIs ==
    ASSUME AInv, NEW r \in Reqs, NEW m \in Macs, MACDeleteFails(r, m)
    PROVE  Misdeleted(r, m)
<1>1. Is(req'[r], "delete", "row", {}, m, Nobody, {}) /\ Moves(r, req'[r])
  BY DeleteFailsMoves DEF MACDeleteFails
<1> QED BY <1>1, Zenon DEF MACDeleteFails, Misdeleted, Asked, Fault

(* Orders and plans.                                                       *)

Refunded(r, o) ==
    /\ Begun(r) /\ Is(req'[r], "refund", "row", {}, o, Nobody, {})
    /\ order[o] = "paid" /\ order' = [order EXCEPT ![o] = "refunded"]
    /\ mac' = mac \/ \E m \in Macs : mac[m].st # "none" /\ mac' = [mac EXCEPT ![m].st = "expired"]
    /\ UNCHANGED <<plan, drifted>>

Cancelled(r, S) ==
    /\ Begun(r)
    /\ \/ \E o \in Orders : S = {o} /\ Is(req'[r], "cancel", "row", {}, o, Nobody, S)
       \/ Is(req'[r], "cancel_stale", "row", {}, None, Nobody, S)
    /\ \A o \in S : order[o] = "pending"
    /\ order' = [o \in Orders |-> IF o \in S THEN "failed" ELSE order[o]]
    /\ UNCHANGED <<mac, plan, drifted>>

Planned(r, p) ==
    /\ Begun(r)
    /\ \E op \in PlanOps, row \in {"none", "on", "off"} :
          /\ row = "none" <=> op # "plan_save"
          /\ Is(req'[r], op, "row", {}, p, Nobody, {}) /\ plan' = [plan EXCEPT ![p] = row]
    /\ drifted' = IF Contended(r, p) THEN drifted \cup {p} ELSE drifted \ {p}
    /\ UNCHANGED <<mac, order>>

Misplanned(r, p) ==
    /\ req[r] = Idle /\ Is(req'[r], "plan_delete", "row", {}, p, Nobody, {}) /\ Moves(r, req'[r])
    /\ budget > 0 /\ budget' = budget - 1 /\ drifted' = drifted \cup {p}
    /\ UNCHANGED <<tables, ops, last, told>>

LEMMA RefundIs ==
    ASSUME AInv, NEW r \in Reqs, NEW o \in Orders, OrderRefund(r, o) \/ APIOrderRefund(r, o)
    PROVE  Refunded(r, o)
<1>1. PICK m \in Macs : m = Device[o]
  BY SubjectsAssumption
<1>2. /\ req[r] = Idle /\ order[o] = "paid" /\ order' = [order EXCEPT ![o] = "refunded"]
      /\ mac' = mac \/ (mac[m].st # "none" /\ mac' = [mac EXCEPT ![m].st = "expired"])
      /\ Gives(r, Says("refund", o, {})) /\ UNCHANGED <<plan, ops, log, budget>>
  BY <1>1, Zenon DEF OrderRefund, APIOrderRefund, Asked
<1>3. Is(req'[r], "refund", "row", {}, o, Nobody, {}) /\ req'[r].stale = {} /\ Moves(r, req'[r])
  BY <1>2, Sorts, SaysMoves
<1> QED BY <1>2, <1>3, Zenon DEF Refunded, Begun, log

LEMMA CancelIs ==
    ASSUME AInv, NEW r \in Reqs, NEW o \in Orders, OrderCancel(r, o) \/ APIOrderCancel(r, o)
    PROVE  Cancelled(r, {o})
<1>1. /\ req[r] = Idle /\ order[o] = "pending" /\ order' = [order EXCEPT ![o] = "failed"]
      /\ Gives(r, Says("cancel", o, {o})) /\ UNCHANGED <<mac, plan, ops, log, budget>>
  BY Zenon DEF OrderCancel, APIOrderCancel, Asked
<1>2. Is(req'[r], "cancel", "row", {}, o, Nobody, {o}) /\ req'[r].stale = {} /\ Moves(r, req'[r])
  BY <1>1, Sorts, SaysMoves
<1>3. order' = [p \in Orders |-> IF p \in {o} THEN "failed" ELSE order[p]]
  BY <1>1 DEF AInv, TypeOK
<1> QED BY <1>1, <1>2, <1>3 DEF Cancelled, Begun, log

LEMMA SweepIs ==
    ASSUME AInv, NEW r \in Reqs, CancelStale(r) \/ APIOrderCancelStale(r)
    PROVE  \E S \in SUBSET Orders : Cancelled(r, S)
<1>1. PICK S \in SUBSET {o \in Orders : order[o] = "pending"} :
          /\ order' = [o \in Orders |-> IF o \in S THEN "failed" ELSE order[o]]
          /\ Gives(r, Says("cancel_stale", None, S))
  BY Zenon DEF CancelStale, APIOrderCancelStale
<1>2. req[r] = Idle /\ UNCHANGED <<mac, plan, ops, log, budget>>
  BY Zenon DEF CancelStale, APIOrderCancelStale, Asked
<1>3. S \in SUBSET Orders /\ \A o \in S : order[o] = "pending"
  BY <1>1
<1>4. Is(req'[r], "cancel_stale", "row", {}, None, Nobody, S) /\ req'[r].stale = {} /\ Moves(r, req'[r])
  BY <1>1, <1>3, Sorts, SubjectsAssumption, SaysMoves
<1>5. Cancelled(r, S)
  BY <1>1, <1>2, <1>3, <1>4 DEF Cancelled, Begun, log
<1> QED BY <1>3, <1>5

LEMMA PlanIs ==
    ASSUME AInv, NEW r \in Reqs, NEW p \in Plans,
           PlanSave(r, p) \/ APIPlanSave(r, p) \/ PlanDelete(r, p) \/ APIPlanDelete(r, p)
    PROVE  Planned(r, p)
<1>1. PICK op \in PlanOps, row \in {"none", "on", "off"} :
         (row = "none" <=> op # "plan_save") /\ PlanWrite(r, op, p, row)
  BY Zenon DEF PlanSave, APIPlanSave, PlanDelete, APIPlanDelete, PlanOps
<1>2. /\ req[r] = Idle /\ plan' = [plan EXCEPT ![p] = row]
      /\ Gives(r, Says(op, p, {})) /\ Settles(r, op, p)
      /\ UNCHANGED <<mac, order, ops, last, told, budget>>
  BY <1>1, Zenon DEF PlanWrite, Asked
<1>3. Is(req'[r], op, "row", {}, p, Nobody, {}) /\ req'[r].stale = {} /\ Moves(r, req'[r])
  BY <1>2, Sorts, SaysMoves
<1>4. op \notin Unsaid
  BY DEF PlanOps, Unsaid
<1>5. drifted' = IF Contended(r, p) THEN drifted \cup {p} ELSE drifted \ {p}
  BY <1>2, <1>4, Zenon DEF Settles
<1>6. Begun(r)
  BY <1>2, <1>3 DEF Begun
<1> QED BY <1>1, <1>2, <1>3, <1>5, <1>6, Zenon DEF Planned

LEMMA MisplanIs ==
    ASSUME AInv, NEW r \in Reqs, NEW p \in Plans, PlanDeleteFails(r, p)
    PROVE  Misplanned(r, p)
<1>1. Is(req'[r], "plan_delete", "row", {}, p, Nobody, {}) /\ Moves(r, req'[r])
  BY Sorts, SaysMoves DEF PlanDeleteFails, PlanOps
<1> QED BY <1>1, Zenon DEF PlanDeleteFails, Misplanned, Asked, Fault
-----------------------------------------------------------------------------
(* Requests that go on, or do not.                                         *)

Calm == UNCHANGED <<tables, ops>>
Errs == budget > 0 /\ budget' = budget - 1
Releases(r) == (Ends(r) \/ NextOne(r)) /\ Moves(r, req'[r])

Rereads(r) ==
    /\ req[r].at = "reread" /\ Moves(r, req'[r])
    /\ \/ Ends(r) /\ mac[req[r].x].st = "none"
       \/ Steps(r, "add")
    /\ Calm /\ UNCHANGED <<log, budget>>

Enforced(r) ==
    /\ req[r].at \in {"add", "remove"} /\ Moves(r, req'[r])
    /\ \/ req[r].op \in Unsaid /\ (Ends(r) \/ NextOne(r))
       \/ Steps(r, "row")
    /\ Calm /\ UNCHANGED <<log, budget>>

Batched(r) ==
    /\ req[r].at = "next" /\ req[r].todo = {} /\ Ends(r) /\ Moves(r, req'[r])
    /\ Calm /\ UNCHANGED <<log, budget>>

Omitted(r, m) ==
    /\ req[r].at = "next" /\ Moves(r, req'[r]) /\ req'[r].stale = req[r].stale
    /\ Is(req'[r], req[r].op, "next", req[r].todo \ {m}, None, req[r].uid, req[r].took)
    /\ Calm /\ Errs /\ UNCHANGED log

Refused(r) ==
    /\ req[r].at \in {"add", "remove"} /\ Moves(r, req'[r])
    /\ \/ Steps(r, "row") /\ drifted' = drifted
       \/ (Ends(r) \/ NextOne(r)) /\ drifted' = drifted \cup {m \in Macs : m = req[r].x
                                        \/ (req[r].op = "replace" /\ m \in req[r].todo)}
    /\ Calm /\ Errs /\ UNCHANGED <<last, told>>

Audited(r) ==
    /\ req[r].at = "row" /\ Releases(r)
    /\ last' = IF req[r].op \in Asides \cup {"cancel_stale"} THEN last
               ELSE [x \in Subjects |-> IF x = req[r].x THEN RowOf(req[r].op)
                                        ELSE IF x \in req[r].todo /\ req[r].op = "replace"
                                             THEN "moved" ELSE last[x]]
    /\ told' = told \cup req[r].took
    /\ Calm /\ UNCHANGED <<drifted, budget>>

Cut(r) ==
    /\ Releases(r)
    /\ req[r].at = "row" \/ Ends(r)
    /\ drifted' = drifted \cup (Pending(r) \ Orders)
    /\ Calm /\ Errs /\ UNCHANGED <<last, told>>

LEMMA RereadIs ==
    ASSUME AInv, NEW r \in Reqs, Reread(r)
    PROVE  Rereads(r)
<1>1. req[r].at = "reread" /\ Calm /\ UNCHANGED <<log, budget>>
  BY Zenon DEF Reread, At, Calm
<1>2. CASE mac[req[r].x].st = "none"
  <2>1. req' = [req EXCEPT ![r] = Idle]
    BY <1>2 DEF Reread, Gives
  <2> QED BY <1>1, <1>2, <2>1, EndMoves, Zenon DEF Rereads
<1>3. CASE mac[req[r].x].st # "none"
  <2>1. Gives(r, [req[r] EXCEPT !.at = "add"])
    BY <1>3 DEF Reread
  <2>2. PICK t \in Request : t = req[r] /\ Proper(t)
    BY RequestIs
  <2>3. "add" \in Phases
    BY DEF Phases
  <2>4. LET n == Now(t, "add", t.todo, t.x, t.took) IN
        n \in Request /\ n.op = t.op /\ n.at = "add" /\ n.todo = t.todo /\ n.x = t.x
        /\ n.uid = t.uid /\ n.stale = t.stale /\ n.took = t.took
    BY <2>3, FieldsAre, NowIs
  <2>5. Proper(Now(t, "add", t.todo, t.x, t.took))
    BY <1>1, <2>2, <2>4, Sorts DEF Proper, Asides
  <2> QED BY <1>1, <2>1, <2>2, <2>3, <2>5, AtTask, Zenon DEF Rereads
<1> QED BY <1>2, <1>3

LEMMA EnforcedIs ==
    ASSUME AInv, NEW r \in Reqs, FwAdd(r) \/ FwRemove(r)
    PROVE  Enforced(r)
<1>1. req[r].at \in {"add", "remove"} /\ Calm /\ UNCHANGED <<log, budget>> /\ Gives(r, Told(r))
  BY DEF FwAdd, FwRemove, At, Calm
<1> QED BY <1>1, ToldIs, Zenon DEF Enforced

LEMMA BatchedIs ==
    ASSUME AInv, NEW r \in Reqs, BatchEnds(r)
    PROVE  Batched(r)
  BY EndMoves, Zenon DEF BatchEnds, Batched, Calm, At

LEMMA OmittedIs ==
    ASSUME AInv, NEW r \in Reqs, NEW m \in Macs, Next1Fails(r, m)
    PROVE  Omitted(r, m)
<1>1. At(r, "next") /\ req' = [req EXCEPT ![r].todo = @ \ {m}] /\ Calm /\ Errs /\ UNCHANGED log
  BY Zenon DEF Next1Fails, Fault, Calm, Errs
<1> QED BY <1>1, LeaveOut, Zenon DEF Omitted, At

LEMMA RefusedIs ==
    ASSUME AInv, NEW r \in Reqs, FwFails(r)
    PROVE  Refused(r)
<1>1. req[r].at \in {"add", "remove"} /\ Calm /\ Errs /\ UNCHANGED <<last, told>>
  BY DEF FwFails, Fault, Calm, Errs
<1>2. CASE req[r].op = "delete"
  <2>1. Gives(r, Told(r)) /\ drifted' = drifted /\ req[r].op \notin Unsaid
    BY <1>2 DEF FwFails, Unsaid
  <2> QED BY <1>1, <2>1, ToldIs, Zenon DEF Refused
<1>3. CASE req[r].op # "delete"
  <2>1. /\ Gives(r, Onward(r))
        /\ drifted' = drifted \cup {m \in Macs : m = req[r].x
                                        \/ (req[r].op = "replace" /\ m \in req[r].todo)}
    BY <1>3, Zenon DEF FwFails
  <2>2. Releases(r)
    BY <1>1, <2>1, OnwardIs DEF Releases
  <2> QED BY <1>1, <2>1, <2>2, Zenon DEF Refused, Releases
<1> QED BY <1>2, <1>3

LEMMA AuditedIs ==
    ASSUME AInv, NEW r \in Reqs, Audit(r)
    PROVE  Audited(r)
<1>1. req[r].at = "row" /\ Gives(r, Onward(r)) /\ Calm /\ UNCHANGED <<drifted, budget>>
  BY Zenon DEF Audit, At, Calm
<1>2. Releases(r)
  BY <1>1, OnwardIs DEF Releases
<1> QED BY <1>1, <1>2, Zenon DEF Audit, Audited

LEMMA CutIs ==
    ASSUME AInv, NEW r \in Reqs, AuditFails(r) \/ Abort(r)
    PROVE  Cut(r)
<1>1. CASE AuditFails(r)
  <2>1. /\ req[r].at = "row" /\ Gives(r, Onward(r)) /\ Calm /\ Errs /\ UNCHANGED <<last, told>>
        /\ drifted' = drifted \cup (Pending(r) \ Orders)
    BY <1>1, Zenon DEF AuditFails, At, Calm, Errs, Fault
  <2>2. Releases(r)
    BY <2>1, OnwardIs DEF Releases
  <2> QED BY <2>1, <2>2, Zenon DEF Cut
<1>2. CASE Abort(r)
  <2>1. /\ req[r] # Idle /\ req' = [req EXCEPT ![r] = Idle] /\ Calm /\ Errs /\ UNCHANGED <<last, told>>
        /\ drifted' = drifted \cup (Pending(r) \ Orders)
    BY <1>2, Zenon DEF Abort, Calm, Errs, Fault, Gives
  <2>2. Ends(r) /\ Releases(r)
    BY <2>1, EndMoves DEF Releases
  <2> QED BY <2>1, <2>2, Zenon DEF Cut
<1> QED BY <1>1, <1>2
-----------------------------------------------------------------------------
(* All steps.                                                              *)

Noted == /\ \E x \in Subjects :
                /\ \E said \in RowsAbout(x) : last' = [last EXCEPT ![x] = said]
                /\ drifted' = drifted \cup {x}
         /\ UNCHANGED <<tables, req, ops, told, budget>>

Expired == /\ \E m \in Macs : mac[m].st = "active" /\ mac' = [mac EXCEPT ![m].st = "expired"]
           /\ UNCHANGED <<order, plan, req, ops, log, budget>>

OnDevice(r) ==
    \/ \E m \in Macs :
          Extended(r, m) \/ Deleted(r, m) \/ Revoked(r, m) \/ Claimed(r, m) \/ Marked(r, m)
    \/ \E u \in Users, old, new \in Macs : Replaced(r, u, old, new)

Starts(r) ==
    \/ Waits(r) \/ Queued(r)
    \/ \E o \in Orders : Paid(r, o) \/ Refunded(r, o)
    \/ \E S \in SUBSET Orders : Cancelled(r, S)
    \/ \E p \in Plans : Planned(r, p) \/ Misplanned(r, p)
    \/ \E m \in Macs : Misdeleted(r, m)

GoesOn(r) ==
    \/ Rereads(r) \/ Enforced(r) \/ Batched(r) \/ Refused(r) \/ Audited(r) \/ Cut(r)
    \/ \E m \in Macs : Omitted(r, m)

LEMMA StepIs ==
    ASSUME AInv, Next
    PROVE  (\E r \in Reqs : OnDevice(r) \/ Starts(r) \/ GoesOn(r)) \/ Noted \/ Expired
<1>1. ASSUME NEW r \in Reqs, OneDevice(r)
      PROVE  OnDevice(r) \/ Starts(r)
  <2>1. PICK m \in Macs :
          \/ MACAdd(r, m) \/ MACExtend(r, m) \/ APIMACGrant(r, m)
          \/ MACDelete(r, m) \/ APIMACRevoke(r, m) \/ MACDeleteFails(r, m) \/ MACRevoke(r, m)
          \/ APIMACLabel(r, m) \/ APIMACNotes(r, m) \/ MACNotes(r, m)
          \/ \E u \in Users : Claim(r, u, m) \/ Label(r, u, m)
          \/ \E u \in Users, new \in Macs \ {m} : Replace(r, u, m, new)
    BY <1>1, Zenon DEF OneDevice
  <2>2. CASE \/ MACAdd(r, m) \/ MACExtend(r, m) \/ APIMACGrant(r, m)
             \/ MACDelete(r, m) \/ APIMACRevoke(r, m)
    BY <2>2, Writers, Zenon DEF OnDevice
  <2>3. CASE MACDeleteFails(r, m)
    BY <2>3, MisdeleteIs, Zenon DEF Starts
  <2>4. CASE MACRevoke(r, m)
    BY <2>4, RevokeIs, Zenon DEF OnDevice
  <2>5. CASE \/ APIMACLabel(r, m) \/ APIMACNotes(r, m) \/ MACNotes(r, m)
             \/ \E u \in Users : Claim(r, u, m) \/ Label(r, u, m)
    BY <2>5, WaitsIs, Zenon DEF Starts
  <2>6. CASE \E u \in Users, new \in Macs \ {m} : Replace(r, u, m, new)
    <3>1. PICK u \in Users, new \in Macs \ {m} : Replace(r, u, m, new)
      BY <2>6
    <3>2. Replaced(r, u, m, new) /\ new \in Macs
      BY <3>1, ReplaceIs
    <3> QED BY <3>2, Zenon DEF OnDevice
  <2> QED BY <2>1, <2>2, <2>3, <2>4, <2>5, <2>6, Zenon
<1>2. ASSUME NEW r \in Reqs, ManyDevices(r)
      PROVE  OnDevice(r) \/ Starts(r) \/ GoesOn(r)
  <2>1. CASE \/ \E S \in SUBSET Macs : MACBulk(r, S) \/ MACImport(r, S) \/ APIMACImport(r, S)
             \/ \E u \in Users : UserGrant(r, u) \/ UserGrantByPhone(r, u)
    BY <2>1, QueuedIs, Zenon DEF Starts
  <2>2. CASE \E m \in Macs : Next1(r, m)
    BY <2>2, Writers, Zenon DEF OnDevice
  <2>3. CASE \E m \in Macs : Next1Fails(r, m)
    BY <2>3, OmittedIs, Zenon DEF GoesOn
  <2>4. CASE BatchEnds(r)
    BY <2>4, BatchedIs, Zenon DEF GoesOn
  <2> QED BY <1>2, <2>1, <2>2, <2>3, <2>4, Zenon DEF ManyDevices
<1>3. ASSUME NEW r \in Reqs, Continues(r)
      PROVE  OnDevice(r) \/ GoesOn(r)
  <2>1. CASE ClaimWrite(r)
    BY <2>1, ClaimIs, Zenon DEF OnDevice
  <2>2. CASE AsideWrite(r)
    BY <2>2, MarkIs, Zenon DEF OnDevice
  <2>3. CASE Reread(r)
    BY <2>3, RereadIs, Zenon DEF GoesOn
  <2>4. CASE FwAdd(r) \/ FwRemove(r)
    BY <2>4, EnforcedIs, Zenon DEF GoesOn
  <2>5. CASE FwFails(r)
    BY <2>5, RefusedIs, Zenon DEF GoesOn
  <2>6. CASE Audit(r)
    BY <2>6, AuditedIs, Zenon DEF GoesOn
  <2>7. CASE AuditFails(r) \/ Abort(r)
    BY <2>7, CutIs, Zenon DEF GoesOn
  <2> QED BY <1>3, <2>1, <2>2, <2>3, <2>4, <2>5, <2>6, <2>7, Zenon DEF Continues
<1>4. ASSUME NEW r \in Reqs, OrdersAndPlans(r)
      PROVE  Starts(r)
  <2>1. ASSUME NEW o \in Orders,
               \/ Pay(r, o) \/ OrderRefund(r, o) \/ APIOrderRefund(r, o)
               \/ OrderCancel(r, o) \/ APIOrderCancel(r, o)
        PROVE  Starts(r)
    <3>1. CASE Pay(r, o)
      BY <3>1, PayIs, Zenon DEF Starts
    <3>2. CASE OrderRefund(r, o) \/ APIOrderRefund(r, o)
      BY <3>2, RefundIs, Zenon DEF Starts
    <3>3. CASE OrderCancel(r, o) \/ APIOrderCancel(r, o)
      <4>1. Cancelled(r, {o}) /\ {o} \in SUBSET Orders
        BY <3>3, CancelIs
      <4> QED BY <4>1, Zenon DEF Starts
    <3> QED BY <2>1, <3>1, <3>2, <3>3, Zenon
  <2>2. CASE CancelStale(r) \/ APIOrderCancelStale(r)
    BY <2>2, SweepIs, Zenon DEF Starts
  <2>3. ASSUME NEW p \in Plans,
               \/ PlanSave(r, p) \/ APIPlanSave(r, p) \/ PlanDelete(r, p) \/ APIPlanDelete(r, p)
               \/ PlanDeleteFails(r, p)
        PROVE  Starts(r)
    BY <2>3, PlanIs, MisplanIs, Zenon DEF Starts
  <2> QED BY <1>4, <2>1, <2>2, <2>3, Zenon DEF OrdersAndPlans
<1>5. CASE APIAuditNote
  BY <1>5, Zenon DEF APIAuditNote, Noted
<1>6. CASE \E m \in Macs : ExpireDueMACs(m)
  BY <1>6, Zenon DEF ExpireDueMACs, Expired
<1> QED BY <1>1, <1>2, <1>3, <1>4, <1>5, <1>6, Zenon DEF Next

\* Every step of a request moves it.
LEMMA AllMove ==
    ASSUME AInv, NEW r \in Reqs, OnDevice(r) \/ Starts(r) \/ GoesOn(r)
    PROVE  Moves(r, req'[r])
<1>1. CASE OnDevice(r)
  <2>1. ASSUME NEW m \in Macs, Extended(r, m) \/ Deleted(r, m) \/ Revoked(r, m) \/ Claimed(r, m)
        PROVE  Moves(r, req'[r])
    BY <2>1, Zenon DEF Extended, Deleted, Revoked, Claimed, Wrote
  <2>2. ASSUME NEW m \in Macs, Marked(r, m)
        PROVE  Moves(r, req'[r])
    BY <2>2, Zenon DEF Marked
  <2>3. ASSUME NEW u, NEW old, NEW new, Replaced(r, u, old, new)
        PROVE  Moves(r, req'[r])
    BY <2>3, Zenon DEF Replaced
  <2> QED BY <1>1, <2>1, <2>2, <2>3, Zenon DEF OnDevice
<1>2. CASE Starts(r)
  BY <1>2, Zenon DEF Starts, Waits, Queued, Paid, Refunded, Cancelled, Planned, Misplanned, Misdeleted, Begun
<1>3. CASE GoesOn(r)
  BY <1>3, Zenon DEF GoesOn, Rereads, Enforced, Batched, Refused, Audited, Cut, Omitted, Releases
<1> QED BY <1>1, <1>2, <1>3
-----------------------------------------------------------------------------
(* Types.                                                                  *)

LEMMA RowIs ==
    ASSUME AInv, NEW m \in Macs
    PROVE  mac[m] \in MacRow /\ mac[m].owner \in Accounts /\ mac[m].text \in Accounts
           /\ mac[m].st \in {"none", "active", "expired", "blocked"} /\ mac \in [Macs -> MacRow]
  BY DEF AInv, TypeOK, MacRow

\* What a step does to the row of m, told field by field; the other rows stay.
Puts(m, st, owner, text) ==
    /\ mac' \in [Macs -> MacRow]
    /\ mac'[m].st = st /\ mac'[m].owner = owner /\ mac'[m].text = text
    /\ \A n \in Macs \ {m} : mac'[n] = mac[n]

LEMMA PutsRow ==
    ASSUME AInv, NEW m \in Macs, NEW row \in MacRow, mac' = [mac EXCEPT ![m] = row]
    PROVE  Puts(m, row.st, row.owner, row.text)
  BY RowIs DEF Puts

LEMMA PutsStatus ==
    ASSUME AInv, NEW m \in Macs, NEW st \in {"none", "active", "expired", "blocked"},
           mac' = [mac EXCEPT ![m].st = st]
    PROVE  Puts(m, st, mac[m].owner, mac[m].text)
<1>1. PICK row \in MacRow : row = mac[m]
  BY RowIs
<1>2. /\ [row EXCEPT !.st = st] \in MacRow
      /\ [row EXCEPT !.st = st].st = st /\ [row EXCEPT !.st = st].owner = row.owner
      /\ [row EXCEPT !.st = st].text = row.text
  BY DEF MacRow
<1>3. mac' = [mac EXCEPT ![m] = [row EXCEPT !.st = st]]
  BY <1>1
<1> QED BY <1>1, <1>2, <1>3, PutsRow

LEMMA PutsText ==
    ASSUME AInv, NEW m \in Macs, NEW text \in Accounts, mac' = [mac EXCEPT ![m].text = text]
    PROVE  Puts(m, mac[m].st, mac[m].owner, text)
<1>1. PICK row \in MacRow : row = mac[m]
  BY RowIs
<1>2. /\ [row EXCEPT !.text = text] \in MacRow
      /\ [row EXCEPT !.text = text].st = row.st /\ [row EXCEPT !.text = text].owner = row.owner
      /\ [row EXCEPT !.text = text].text = text
  BY DEF MacRow
<1>3. mac' = [mac EXCEPT ![m] = [row EXCEPT !.text = text]]
  BY <1>1
<1> QED BY <1>1, <1>2, <1>3, PutsRow

LEMMA NoRowIs ==
    NoRow \in MacRow /\ NoRow.st = "none" /\ NoRow.owner = Nobody /\ NoRow.text = Nobody
  BY DEF NoRow, MacRow, Accounts

LEMMA PutsExtended ==
    ASSUME AInv, NEW r \in Reqs, NEW m \in Macs, Extended(r, m)
    PROVE  \E u \in Accounts, text \in {Nobody, mac[m].text},
              op \in {"grant", "pay", "bulk_extend", "import", "api_import", "user_grant"} :
              /\ Wrote(r, m, op, "reread", u)
              /\ u # Nobody => op \in {"pay", "user_grant"} /\ req[r] # Idle
              /\ Puts(m, "active", IF u = Nobody THEN mac[m].owner ELSE u, text)
<1>1. PICK op \in {"grant", "pay", "bulk_extend", "import", "api_import", "user_grant"},
           u \in Accounts, text \in {Nobody, mac[m].text} :
        /\ Wrote(r, m, op, "reread", u)
        /\ u # Nobody => op \in {"pay", "user_grant"} /\ req[r] # Idle
        /\ mac' = [mac EXCEPT ![m] = [st |-> "active",
                                         owner |-> IF u = Nobody THEN mac[m].owner ELSE u,
                                         text |-> text]]
  <2>1. PICK op \in {"grant", "pay", "bulk_extend", "import", "api_import", "user_grant"},
             u \in Accounts :
          /\ Wrote(r, m, op, "reread", u)
          /\ u # Nobody => op \in {"pay", "user_grant"} /\ req[r] # Idle
          /\ \E text \in {Nobody, mac[m].text} :
                mac' = [mac EXCEPT ![m] = [st |-> "active",
                                           owner |-> IF u = Nobody THEN mac[m].owner ELSE u,
                                           text |-> text]]
    BY DEF Extended
  <2> QED BY <2>1
<1>2. PICK owner \in Accounts : owner = IF u = Nobody THEN mac[m].owner ELSE u
  BY RowIs
<1>3. text \in Accounts
  BY RowIs, Sorts
<1>4. [st |-> "active", owner |-> owner, text |-> text] \in MacRow
  BY <1>3 DEF MacRow
<1>5. mac' = [mac EXCEPT ![m] = [st |-> "active", owner |-> owner, text |-> text]]
  BY <1>1, <1>2, Zenon
<1>6. Puts(m, "active", owner, text)
  BY <1>4, <1>5, PutsRow
<1> QED BY <1>1, <1>2, <1>6, Zenon

LEMMA PutsDeleted ==
    ASSUME AInv, NEW r \in Reqs, NEW m \in Macs, Deleted(r, m)
    PROVE  Puts(m, "none", Nobody, Nobody)
  BY NoRowIs, PutsRow DEF Deleted

LEMMA PutsRevoked ==
    ASSUME AInv, NEW r \in Reqs, NEW m \in Macs, Revoked(r, m)
    PROVE  Puts(m, IF mac[m].st = "none" THEN "none" ELSE "blocked", mac[m].owner, mac[m].text)
<1>1. PICK st \in {"none", "active", "expired", "blocked"} :
         st = IF mac[m].st = "none" THEN "none" ELSE "blocked"
  BY RowIs
<1>2. mac' = [mac EXCEPT ![m].st = st]
  BY <1>1 DEF Revoked
<1> QED BY <1>1, <1>2, PutsStatus

LEMMA PutsClaimed ==
    ASSUME AInv, NEW r \in Reqs, NEW m \in Macs, Claimed(r, m)
    PROVE  Puts(m, "active", IF req[r].uid = Nobody THEN mac[m].owner ELSE req[r].uid, mac[m].text)
<1>1. PICK owner \in Accounts, text \in Accounts :
         owner = (IF req[r].uid = Nobody THEN mac[m].owner ELSE req[r].uid) /\ text = mac[m].text
  BY RowIs, RequestIs
<1>2. mac' = [mac EXCEPT ![m] = [st |-> "active", owner |-> owner, text |-> text]]
  BY <1>1, Zenon DEF Claimed
<1>3. [st |-> "active", owner |-> owner, text |-> text] \in MacRow
  BY DEF MacRow
<1> QED BY <1>1, <1>2, <1>3, PutsRow

LEMMA PutsMarked ==
    ASSUME AInv, NEW r \in Reqs, NEW m \in Macs, Marked(r, m)
    PROVE  Puts(m, mac[m].st, mac[m].owner,
                IF mac[m].st = "none" THEN mac[m].text ELSE req[r].uid)
<1>1. PICK text \in Accounts : text = IF mac[m].st = "none" THEN mac[m].text ELSE req[r].uid
  BY RowIs, RequestIs
<1>2. mac' = [mac EXCEPT ![m].text = text]
  BY <1>1 DEF Marked
<1> QED BY <1>1, <1>2, PutsText

LEMMA PutsReplaced ==
    ASSUME AInv, NEW r \in Reqs, NEW u \in Users, NEW old \in Macs, NEW new \in Macs,
           Replaced(r, u, old, new)
    PROVE  /\ mac' \in [Macs -> MacRow] /\ mac'[new] = mac[old] /\ mac'[old] = NoRow
           /\ \A n \in Macs \ {old, new} : mac'[n] = mac[n]
  BY RowIs, NoRowIs DEF Replaced

\* An expiry or a refund takes a device that has a row to "expired".
LEMMA Lapses ==
    ASSUME AInv, NEW m \in Macs, mac[m].st # "none", mac' = [mac EXCEPT ![m].st = "expired"]
    PROVE  Puts(m, "expired", mac[m].owner, mac[m].text)
  BY PutsStatus

LEMMA OrderIs ==
    ASSUME AInv
    PROVE  order \in [Orders -> {"pending", "paid", "failed", "refunded"}]
           /\ plan \in [Plans -> {"none", "on", "off"}] /\ ops \in Mixes
           /\ last \in [Subjects -> Said] /\ told \subseteq Orders
           /\ drifted \subseteq Subjects /\ budget \in 0..MaxFaults /\ MaxFaults \in Nat
  BY FaultsAssumption DEF AInv, TypeOK

LEMMA RowOfIs ==
    ASSUME NEW op, op \in Ops \ (Asides \cup Unsaid \cup {"audit_note", "cancel_stale"})
    PROVE  RowOf(op) \in Said
  BY DEF RowOf, Ops, Asides, Unsaid, Removals, Said

LEMMA AuditedLast ==
    ASSUME AInv, NEW r \in Reqs, Audited(r)
    PROVE  last' \in [Subjects -> Said]
<1>1. Proper(req[r]) /\ req[r].at = "row"
  BY RequestIs DEF Audited
<1>2. CASE req[r].op \in Asides \cup {"cancel_stale"}
  BY <1>2, OrderIs DEF Audited
<1>3. CASE req[r].op \notin Asides \cup {"cancel_stale"}
  <2>1. PICK said \in Said : said = RowOf(req[r].op)
    BY <1>1, <1>3, RowOfIs DEF Proper
  <2>2. last' = [x \in Subjects |-> IF x = req[r].x THEN said
                                    ELSE IF x \in req[r].todo /\ req[r].op = "replace"
                                         THEN "moved" ELSE last[x]]
    BY <1>3, <2>1, Zenon DEF Audited
  <2>3. "moved" \in Said /\ \A x \in Subjects : last[x] \in Said
    BY OrderIs DEF Said
  <2> QED BY <2>2, <2>3
<1> QED BY <1>2, <1>3

LEMMA DeviceTypes ==
    ASSUME AInv, NEW r \in Reqs, OnDevice(r)
    PROVE  /\ mac' \in [Macs -> MacRow] /\ drifted' \subseteq Subjects
           /\ UNCHANGED <<order, plan, ops, last, told, budget>>
<1>1. ASSUME NEW m \in Macs, Extended(r, m) \/ Deleted(r, m) \/ Revoked(r, m) \/ Claimed(r, m)
      PROVE  /\ mac' \in [Macs -> MacRow] /\ drifted' \subseteq Subjects
             /\ UNCHANGED <<order, plan, ops, last, told, budget>>
  <2>1. \E op, a, u : Wrote(r, m, op, a, u)
    BY <1>1, Zenon DEF Extended, Deleted, Revoked, Claimed
  <2>2. drifted' \subseteq Subjects /\ UNCHANGED <<order, plan, ops, last, told, budget>>
    <3>1. PICK op, a, u : Wrote(r, m, op, a, u)
      BY <2>1
    <3> QED BY <3>1, OrderIs, Sorts DEF Wrote, Subjects
  <2>3. mac' \in [Macs -> MacRow]
    BY <1>1, PutsExtended, PutsDeleted, PutsRevoked, PutsClaimed, Zenon DEF Puts
  <2> QED BY <2>2, <2>3
<1>2. ASSUME NEW m \in Macs, Marked(r, m)
      PROVE  /\ mac' \in [Macs -> MacRow] /\ drifted' \subseteq Subjects
             /\ UNCHANGED <<order, plan, ops, last, told, budget>>
  <2>1. mac' \in [Macs -> MacRow]
    BY <1>2, PutsMarked DEF Puts
  <2> QED BY <1>2, <2>1, OrderIs DEF Marked, log
<1>3. ASSUME NEW u \in Users, NEW old \in Macs, NEW new \in Macs, Replaced(r, u, old, new)
      PROVE  /\ mac' \in [Macs -> MacRow] /\ drifted' \subseteq Subjects
             /\ UNCHANGED <<order, plan, ops, last, told, budget>>
  <2>1. mac' \in [Macs -> MacRow]
    BY <1>3, PutsReplaced
  <2> QED BY <1>3, <2>1, OrderIs DEF Replaced, Subjects
<1> QED BY <1>1, <1>2, <1>3, Zenon DEF OnDevice

LEMMA StartTypes ==
    ASSUME AInv, NEW r \in Reqs, Starts(r)
    PROVE  /\ mac' \in [Macs -> MacRow] /\ drifted' \subseteq Subjects
           /\ order' \in [Orders -> {"pending", "paid", "failed", "refunded"}]
           /\ plan' \in [Plans -> {"none", "on", "off"}]
           /\ UNCHANGED <<ops, last, told>> /\ budget' \in 0..MaxFaults
<1> DEFINE Goal == /\ mac' \in [Macs -> MacRow] /\ drifted' \subseteq Subjects
                   /\ order' \in [Orders -> {"pending", "paid", "failed", "refunded"}]
                   /\ plan' \in [Plans -> {"none", "on", "off"}]
                   /\ UNCHANGED <<ops, last, told>> /\ budget' \in 0..MaxFaults
<1>0. mac \in [Macs -> MacRow] /\ Macs \subseteq Subjects /\ Plans \subseteq Subjects
  BY DEF AInv, TypeOK, Subjects
<1>1. ASSUME Waits(r) PROVE Goal
  <2>1. Begun(r) /\ UNCHANGED tables
    BY <1>1 DEF Waits
  <2>2. drifted' \subseteq Subjects
    <3>1. \/ \E m \in Macs : Touches(r, {m})
          \/ drifted' = drifted
      BY <1>1, Zenon DEF Waits
    <3> QED BY <1>0, <3>1, OrderIs DEF Touches
  <2> QED BY <1>0, <2>1, <2>2, OrderIs DEF Begun, tables
<1>2. ASSUME Queued(r) PROVE Goal
  <2>1. Begun(r) /\ UNCHANGED tables /\ \E T \in SUBSET Macs : Touches(r, T)
    BY <1>2, Zenon DEF Queued
  <2> QED BY <1>0, <2>1, OrderIs DEF Begun, tables, Touches
<1>3. ASSUME NEW o \in Orders, Paid(r, o) PROVE Goal
  <2>1. Device[o] \in Macs
    BY SubjectsAssumption
  <2> QED BY <1>0, <1>3, <2>1, OrderIs DEF Paid, Begun, Touches
<1>4. ASSUME NEW o \in Orders, Refunded(r, o) PROVE Goal
  <2>1. mac' \in [Macs -> MacRow]
    BY <1>0, <1>4, Lapses DEF Refunded, Puts
  <2> QED BY <1>4, <2>1, OrderIs DEF Refunded, Begun
<1>5. ASSUME NEW S \in SUBSET Orders, Cancelled(r, S) PROVE Goal
  <2>1. order' \in [Orders -> {"pending", "paid", "failed", "refunded"}]
    <3>1. order' = [o \in Orders |-> IF o \in S THEN "failed" ELSE order[o]]
      BY <1>5, Zenon DEF Cancelled
    <3> QED BY <3>1, OrderIs
  <2>2. Begun(r) /\ UNCHANGED <<mac, plan, drifted>>
    BY <1>5, Zenon DEF Cancelled
  <2> QED BY <1>0, <2>1, <2>2, OrderIs DEF Begun
<1>6. ASSUME NEW p \in Plans, Planned(r, p) PROVE Goal
  <2>1. plan' \in [Plans -> {"none", "on", "off"}]
    <3>1. \E row \in {"none", "on", "off"} : plan' = [plan EXCEPT ![p] = row]
      BY <1>6, Zenon DEF Planned
    <3> QED BY <3>1, OrderIs
  <2>2. Begun(r) /\ UNCHANGED <<mac, order>>
        /\ drifted' = IF Contended(r, p) THEN drifted \cup {p} ELSE drifted \ {p}
    BY <1>6, Zenon DEF Planned
  <2> QED BY <1>0, <2>1, <2>2, OrderIs DEF Begun
<1>7. ASSUME NEW p \in Plans, Misplanned(r, p) PROVE Goal
  BY <1>0, <1>7, OrderIs DEF Misplanned, tables
<1>8. ASSUME NEW m \in Macs, Misdeleted(r, m) PROVE Goal
  BY <1>0, <1>8, OrderIs DEF Misdeleted, tables
<1> HIDE DEF Goal
<1>9. Goal
  BY <1>1, <1>2, <1>3, <1>4, <1>5, <1>6, <1>7, <1>8, Zenon DEF Starts
<1> QED BY <1>9 DEF Goal

LEMMA GoingTypes ==
    ASSUME AInv, NEW r \in Reqs, GoesOn(r)
    PROVE  /\ Calm /\ last' \in [Subjects -> Said] /\ told' \subseteq Orders
           /\ drifted' \subseteq Subjects /\ budget' \in 0..MaxFaults
<1>1. CASE Rereads(r) \/ Enforced(r) \/ Batched(r)
  <2>1. Calm /\ UNCHANGED <<log, budget>>
    BY <1>1, Zenon DEF Rereads, Enforced, Batched
  <2> QED BY <2>1, OrderIs DEF log
<1>2. CASE \E m \in Macs : Omitted(r, m)
  BY <1>2, OrderIs DEF Omitted, Errs, log
<1>3. CASE Refused(r)
  BY <1>3, OrderIs DEF Refused, Errs, Subjects
<1>4. CASE Audited(r)
  BY <1>4, AuditedLast, OrderIs, RequestIs DEF Audited
<1>5. CASE Cut(r)
  <2>1. Pending(r) \subseteq Subjects
    BY DEF Pending
  <2> QED BY <1>5, <2>1, OrderIs DEF Cut, Errs
<1> QED BY <1>1, <1>2, <1>3, <1>4, <1>5, Zenon DEF GoesOn

LEMMA NotedIs ==
    ASSUME AInv, Noted
    PROVE  \E x \in Subjects : /\ last' \in [Subjects -> Said] /\ drifted' = drifted \cup {x}
                               /\ \A y \in Subjects \ {x} : last'[y] = last[y]
                               /\ UNCHANGED <<tables, req, ops, told, budget>>
<1>1. PICK x \in Subjects :
          (\E said \in RowsAbout(x) : last' = [last EXCEPT ![x] = said]) /\ drifted' = drifted \cup {x}
  BY DEF Noted
<1>2. RowsAbout(x) \subseteq Said
  BY DEF RowsAbout, Said
<1>3. UNCHANGED <<tables, req, ops, told, budget>>
  BY DEF Noted
<1> QED BY <1>1, <1>2, <1>3, OrderIs

LEMMA ATypes ==
    ASSUME AInv, [Next]_vars
    PROVE  AInv'
<1>1. CASE \E r \in Reqs : OnDevice(r) \/ Starts(r) \/ GoesOn(r)
  <2>1. PICK r \in Reqs : OnDevice(r) \/ Starts(r) \/ GoesOn(r)
    BY <1>1
  <2>2. req' \in [Reqs -> Request] /\ \A q \in Reqs : Proper(req'[q])
    BY <2>1, AllMove DEF Moves
  <2>3. CASE OnDevice(r)
    BY <2>2, <2>3, DeviceTypes, OrderIs DEF AInv, TypeOK
  <2>4. CASE Starts(r)
    BY <2>2, <2>4, StartTypes, OrderIs DEF AInv, TypeOK
  <2>5. CASE GoesOn(r)
    <3>1. mac \in [Macs -> MacRow]
      BY DEF AInv, TypeOK
    <3> QED BY <2>2, <2>5, <3>1, GoingTypes, OrderIs DEF AInv, TypeOK, Calm, tables
  <2> QED BY <2>1, <2>3, <2>4, <2>5
<1>2. CASE Noted
  <2>1. mac \in [Macs -> MacRow] /\ req \in [Reqs -> Request] /\ \A q \in Reqs : Proper(req[q])
    BY DEF AInv, TypeOK
  <2> QED BY <1>2, <2>1, NotedIs, OrderIs DEF AInv, TypeOK, tables
<1>3. CASE Expired
  <2>1. mac' \in [Macs -> MacRow]
    BY <1>3, Lapses DEF Expired, Puts
  <2>2. req \in [Reqs -> Request] /\ \A q \in Reqs : Proper(req[q])
    BY DEF AInv, TypeOK
  <2> QED BY <1>3, <2>1, <2>2, OrderIs DEF Expired, AInv, TypeOK, log
<1>4. CASE UNCHANGED vars
  BY <1>4 DEF AInv, TypeOK, vars, tables, log
<1> QED BY <1>1, <1>2, <1>3, <1>4, StepIs

LEMMA AStart ==
    ASSUME Init
    PROVE  AInv
<1>1. \A r \in Reqs : req[r] = Idle
  BY DEF Init
<1>2. req \in [Reqs -> Request] /\ \A r \in Reqs : Proper(req[r])
  BY <1>1, IdleIs DEF Init
<1>3. mac \in [Macs -> MacRow]
  BY NoRowIs DEF Init
<1>4. last \in [Subjects -> Said] /\ budget \in 0..MaxFaults
  BY FaultsAssumption DEF Init, Said
<1> QED BY <1>2, <1>3, <1>4 DEF Init, AInv, TypeOK

LEMMA AllProper == Spec => []AInv
<1>1. Init => AInv
  BY AStart
<1>2. AInv /\ [Next]_vars => AInv'
  BY ATypes
<1> QED BY <1>1, <1>2, PTL DEF Spec

(***************************************************************************)
(* The tables, the requests and the log keep to their types, for any       *)
(* number of requests, devices and orders (schema.sql's CHECKs).           *)
(***************************************************************************)
THEOREM AdminTypes == Spec => []TypeOK
<1>1. AInv => TypeOK
  BY DEF AInv
<1> QED BY <1>1, AllProper, PTL
-----------------------------------------------------------------------------
(* Orders and their rows.  The status an order ends with stays, so that a  *)
(* row written later is still true.                                        *)

Final(st) == st \in {"failed", "refunded"}

OInv ==
    /\ AInv /\ OrderRowsTrue
    /\ \A r \in Reqs : req[r].x \in Orders =>
          /\ req[r].op = "cancel" => order[req[r].x] = "failed"
          /\ req[r].op = "refund" => order[req[r].x] = "refunded"

LEMMA OrdersEnd ==
    ASSUME AInv, [Next]_vars, NEW o \in Orders, Final(order[o])
    PROVE  order'[o] = order[o]
<1>1. ASSUME NEW r \in Reqs, OnDevice(r)
      PROVE  order' = order
  BY <1>1, DeviceTypes
<1>2. ASSUME NEW r \in Reqs, Starts(r)
      PROVE  order'[o] = order[o]
  <2>1. CASE Waits(r) \/ Queued(r)
    BY <2>1 DEF Waits, Queued, tables
  <2>2. ASSUME NEW p \in Orders, Paid(r, p) \/ Refunded(r, p)
        PROVE  order'[o] = order[o]
    BY <2>2, OrderIs DEF Paid, Refunded, Final
  <2>3. ASSUME NEW S \in SUBSET Orders, Cancelled(r, S)
        PROVE  order'[o] = order[o]
    BY <2>3, OrderIs DEF Cancelled, Final
  <2>4. ASSUME NEW p \in Plans, Planned(r, p) \/ Misplanned(r, p)
        PROVE  order'[o] = order[o]
    BY <2>4 DEF Planned, Misplanned, tables
  <2>5. ASSUME NEW m \in Macs, Misdeleted(r, m)
        PROVE  order'[o] = order[o]
    BY <2>5 DEF Misdeleted, tables
  <2> QED BY <1>2, <2>1, <2>2, <2>3, <2>4, <2>5, Zenon DEF Starts
<1>3. ASSUME NEW r \in Reqs, GoesOn(r)
      PROVE  order' = order
  BY <1>3, GoingTypes DEF Calm, tables
<1>4. CASE Noted \/ Expired \/ UNCHANGED vars
  BY <1>4 DEF Noted, Expired, vars, tables
<1> QED BY <1>1, <1>2, <1>3, <1>4, StepIs

\* A subject's newest row changes by an audit, or by a note of the API.
LEMMA LastStays ==
    ASSUME AInv, NEW r \in Reqs, OnDevice(r) \/ Starts(r) \/ GoesOn(r), ~Audited(r)
    PROVE  last' = last
<1>1. CASE OnDevice(r)
  BY <1>1, DeviceTypes
<1>2. CASE Starts(r)
  BY <1>2, StartTypes
<1>3. CASE GoesOn(r)
  BY <1>3, Zenon DEF GoesOn, Rereads, Enforced, Batched, Refused, Cut, Omitted, log
<1> QED BY <1>1, <1>2, <1>3

\* An order drifts for good.
LEMMA OrdersDrift ==
    ASSUME AInv, [Next]_vars, NEW o \in Orders, o \in drifted
    PROVE  o \in drifted'
<1>0. o \notin Macs /\ o \notin Plans
  BY Sorts
<1>1. ASSUME NEW r \in Reqs, OnDevice(r)
      PROVE  o \in drifted'
  <2>1. ASSUME NEW m \in Macs, Extended(r, m) \/ Deleted(r, m) \/ Revoked(r, m) \/ Claimed(r, m)
        PROVE  o \in drifted'
    <3>1. PICK op, a, u : Wrote(r, m, op, a, u)
      BY <2>1, Zenon DEF Extended, Deleted, Revoked, Claimed
    <3> QED BY <1>0, <3>1 DEF Wrote
  <2>2. ASSUME NEW m \in Macs, Marked(r, m)
        PROVE  o \in drifted'
    BY <2>2 DEF Marked, log
  <2>3. ASSUME NEW u \in Users, NEW old \in Macs, NEW new \in Macs, Replaced(r, u, old, new)
        PROVE  o \in drifted'
    BY <1>0, <2>3 DEF Replaced
  <2> QED BY <1>1, <2>1, <2>2, <2>3, Zenon DEF OnDevice
<1>2. ASSUME NEW r \in Reqs, Starts(r)
      PROVE  o \in drifted'
  <2>1. CASE Waits(r) \/ Queued(r)
    <3>1. drifted' = drifted \/ \E S : Touches(r, S)
      BY <2>1, Zenon DEF Waits, Queued
    <3> QED BY <3>1 DEF Touches
  <2>2. ASSUME NEW p \in Orders, Paid(r, p) \/ Refunded(r, p)
        PROVE  o \in drifted'
    BY <2>2 DEF Paid, Refunded, Touches
  <2>3. ASSUME NEW S \in SUBSET Orders, Cancelled(r, S)
        PROVE  o \in drifted'
    BY <2>3, Zenon DEF Cancelled
  <2>4. ASSUME NEW p \in Plans, Planned(r, p) \/ Misplanned(r, p)
        PROVE  o \in drifted'
    BY <1>0, <2>4 DEF Planned, Misplanned
  <2>5. ASSUME NEW m \in Macs, Misdeleted(r, m)
        PROVE  o \in drifted'
    BY <2>5 DEF Misdeleted
  <2> QED BY <1>2, <2>1, <2>2, <2>3, <2>4, <2>5, Zenon DEF Starts
<1>3. ASSUME NEW r \in Reqs, GoesOn(r)
      PROVE  drifted \subseteq drifted'
  BY <1>3, Zenon DEF GoesOn, Rereads, Enforced, Batched, Refused, Audited, Cut, Omitted, log
<1>4. CASE Noted \/ Expired \/ UNCHANGED vars
  BY <1>4 DEF Noted, Expired, vars, log
<1> QED BY <1>1, <1>2, <1>3, <1>4, StepIs

\* What a request that has an order for its subject is.
LEMMA OrderTasks ==
    ASSUME OInv, NEW r \in Reqs, OnDevice(r) \/ Starts(r) \/ GoesOn(r), req'[r].x \in Orders
    PROVE  \/ req'[r].op = "refund" /\ order'[req'[r].x] = "refunded"
           \/ req'[r].op = "cancel" /\ order'[req'[r].x] = "failed"
<1>0. AInv /\ \A m \in Macs : m \notin Orders
  BY Sorts DEF OInv
<1>1. CASE OnDevice(r)
  <2>1. ASSUME NEW m \in Macs, Extended(r, m) \/ Deleted(r, m) \/ Revoked(r, m) \/ Claimed(r, m)
        PROVE  req'[r].x = m
    BY <2>1, Zenon DEF Extended, Deleted, Revoked, Claimed, Wrote, Is
  <2>2. ASSUME NEW m \in Macs, Marked(r, m)
        PROVE  req'[r].x = m
    BY <2>2, Zenon DEF Marked, Steps, Is
  <2>3. ASSUME NEW u, NEW old, NEW new \in Macs, Replaced(r, u, old, new)
        PROVE  req'[r].x = new
    BY <2>3, Zenon DEF Replaced, Is
  <2>4. \E m \in Macs : req'[r].x = m
    BY <1>1, <2>1, <2>2, <2>3, Zenon DEF OnDevice
  <2> QED BY <1>0, <2>4
<1>2. CASE Starts(r)
  <2>1. CASE Waits(r) \/ Queued(r)
    <3>1. req'[r].x \in Macs \cup {None}
      BY <2>1 DEF Waits, Queued, Is
    <3> QED BY <1>0, <3>1, SubjectsAssumption
  <2>2. ASSUME NEW o \in Orders, Paid(r, o)
        PROVE  req'[r].x = None
    BY <2>2, Zenon DEF Paid, Is
  <2>3. ASSUME NEW o \in Orders, Refunded(r, o)
        PROVE  req'[r].op = "refund" /\ order'[req'[r].x] = "refunded"
    BY <1>0, <2>3, OrderIs DEF Refunded, Is
  <2>4. ASSUME NEW S \in SUBSET Orders, Cancelled(r, S), req'[r].x # None
        PROVE  req'[r].op = "cancel" /\ order'[req'[r].x] = "failed"
    BY <1>0, <2>4, OrderIs DEF Cancelled, Is
  <2>5. ASSUME NEW p \in Plans, Planned(r, p) \/ Misplanned(r, p)
        PROVE  req'[r].x = p
    BY <2>5, Zenon DEF Planned, Misplanned, Is
  <2>6. ASSUME NEW m \in Macs, Misdeleted(r, m)
        PROVE  req'[r].x = m
    BY <2>6, Zenon DEF Misdeleted, Is
  <2>7. None \notin Orders /\ \A p \in Plans : p \notin Orders
    BY SubjectsAssumption, Sorts
  <2> QED BY <1>0, <1>2, <2>1, <2>2, <2>3, <2>4, <2>5, <2>6, <2>7, Zenon DEF Starts
<1>3. CASE GoesOn(r)
  <2>1. ~(Ends(r) \/ NextOne(r))
    BY IdleIs, SubjectsAssumption DEF Ends, NextOne, Is
  <2>2. \/ req[r].at \in {"reread", "add", "remove"} /\ req'[r].x = req[r].x
        \/ req'[r].x = None
    BY <1>3, <2>1, Zenon DEF GoesOn, Rereads, Enforced, Batched, Refused, Audited, Cut, Omitted,
         Releases, Steps, Is
  <2>3. req[r].at \in {"reread", "add", "remove"} => req[r].x \in Macs
    BY <1>0, RequestIs DEF Proper
  <2> QED BY <1>0, <2>2, <2>3, SubjectsAssumption
<1> QED BY <1>1, <1>2, <1>3

LEMMA OrderSteps ==
    ASSUME OInv, [Next]_vars
    PROVE  OInv'
<1>0. AInv /\ AInv'
  BY ATypes DEF OInv
<1>1. \A o \in Orders : Final(order[o]) => order'[o] = order[o]
  BY <1>0, OrdersEnd
<1>2. \A o \in Orders \ drifted' : o \notin drifted
  BY <1>0, OrdersDrift
<1>3. CASE \E r \in Reqs : OnDevice(r) \/ Starts(r) \/ GoesOn(r)
  <2>1. PICK r \in Reqs : OnDevice(r) \/ Starts(r) \/ GoesOn(r)
    BY <1>3
  <2>2. \A q \in Reqs : q # r => req'[q].op = req[q].op /\ req'[q].x = req[q].x
    BY <1>0, <2>1, AllMove DEF Moves, Kept
  <2>3. \A q \in Reqs : req'[q].x \in Orders =>
          /\ req'[q].op = "cancel" => order'[req'[q].x] = "failed"
          /\ req'[q].op = "refund" => order'[req'[q].x] = "refunded"
    <3> SUFFICES ASSUME NEW q \in Reqs, req'[q].x \in Orders
                 PROVE  /\ req'[q].op = "cancel" => order'[req'[q].x] = "failed"
                        /\ req'[q].op = "refund" => order'[req'[q].x] = "refunded"
      OBVIOUS
    <3>1. CASE q = r
      BY <2>1, <3>1, OrderTasks
    <3>2. CASE q # r
      BY <1>1, <2>2, <3>2 DEF OInv, Final
    <3> QED BY <3>1, <3>2
  <2>4. \A o \in Orders \ drifted' :
          /\ last'[o] = "canceled" => order'[o] = "failed"
          /\ last'[o] = "refunded" => order'[o] = "refunded"
    <3> SUFFICES ASSUME NEW o \in Orders \ drifted'
                 PROVE  /\ last'[o] = "canceled" => order'[o] = "failed"
                        /\ last'[o] = "refunded" => order'[o] = "refunded"
      OBVIOUS
    <3>0. /\ last[o] = "canceled" => order[o] = "failed"
          /\ last[o] = "refunded" => order[o] = "refunded"
      BY <1>2 DEF OInv, OrderRowsTrue
    <3>1. CASE last'[o] = last[o]
      BY <1>1, <3>0, <3>1 DEF Final
    <3>2. CASE last'[o] # last[o]
      <4>1. Audited(r)
        BY <1>0, <2>1, <3>2, LastStays
      <4>2. Proper(req[r]) /\ req[r].todo \subseteq Macs /\ o \notin Macs /\ o \in Subjects
        BY <1>0, RequestIs, Sorts DEF Subjects
      <4>3. last' = [x \in Subjects |-> IF x = req[r].x THEN RowOf(req[r].op)
                                        ELSE IF x \in req[r].todo /\ req[r].op = "replace"
                                             THEN "moved" ELSE last[x]]
        BY <3>2, <4>1, Zenon DEF Audited
      <4>4. o = req[r].x
        BY <3>2, <4>2, <4>3
      <4>5. req[r].op \in {"cancel", "refund"} /\ last'[o] = RowOf(req[r].op)
        BY <4>2, <4>3, <4>4 DEF Proper
      <4>6. RowOf("cancel") = "canceled" /\ RowOf("refund") = "refunded"
        BY DEF RowOf, Removals
      <4>7. order' = order
        BY <1>0, <4>1, Zenon DEF Audited, Calm, tables
      <4> QED BY <4>4, <4>5, <4>6, <4>7 DEF OInv
    <3> QED BY <3>1, <3>2
  <2> QED BY <1>0, <2>3, <2>4 DEF OInv, OrderRowsTrue
<1>4. CASE Noted
  <2>1. PICK x \in Subjects :
             /\ drifted' = drifted \cup {x}
             /\ \A y \in Subjects \ {x} : last'[y] = last[y]
             /\ UNCHANGED <<tables, req, ops, told, budget>>
    BY <1>0, <1>4, NotedIs
  <2>2. order' = order /\ req' = req
    BY <2>1, Zenon DEF tables
  <2>3. Orders \subseteq Subjects
    BY DEF Subjects
  <2> QED BY <1>0, <2>1, <2>2, <2>3 DEF OInv, OrderRowsTrue
<1>5. CASE Expired \/ UNCHANGED vars
  <2>1. order' = order /\ req' = req /\ last' = last /\ drifted' = drifted
    BY <1>5 DEF Expired, vars, log, tables
  <2> QED BY <1>0, <2>1 DEF OInv, OrderRowsTrue
<1> QED BY <1>0, <1>3, <1>4, <1>5, StepIs

(***************************************************************************)
(* An order the log calls cancelled or refunded is so, however many        *)
(* payments, cancellations, sweeps and refunds race for it, wherever they  *)
(* are cut short: its last status is final, and the row comes after it     *)
(* (CancelPendingOrder, CancelStalePendingOrders, MarkOrderRefunded).      *)
(***************************************************************************)
THEOREM OrdersAsLogged == Spec => []OrderRowsTrue
<1>1. Init => OInv
  <2> SUFFICES ASSUME Init
               PROVE  OInv
    OBVIOUS
  <2>1. \A r \in Reqs : req[r].x = None
    BY IdleIs DEF Init
  <2>2. \A o \in Orders : o \in Subjects /\ last[o] = "nothing"
    BY DEF Init, Subjects
  <2> QED BY <2>1, <2>2, AStart, SubjectsAssumption DEF OInv, OrderRowsTrue
<1>2. OInv /\ [Next]_vars => OInv'
  BY OrderSteps
<1>3. OInv => OrderRowsTrue
  BY DEF OInv
<1> QED BY <1>1, <1>2, <1>3, PTL DEF Spec
-----------------------------------------------------------------------------
(* Cancellations.  An order is failed by one request, which holds it until *)
(* its row is written.                                                     *)

CInv ==
    /\ \A o \in told : order[o] = "failed"
    /\ \A r \in Reqs : \A o \in req[r].took :
          order[o] = "failed" /\ o \notin told /\ \A q \in Reqs \ {r} : o \notin req[q].took
    /\ budget = MaxFaults => \A o \in Orders : order[o] = "failed" =>
          o \in told \/ \E r \in Reqs : o \in req[r].took

\* A step that cancels nothing and tells of nothing.
Aloof == /\ told' = told /\ (budget' = MaxFaults => budget = MaxFaults)
         /\ \A o \in Orders : order'[o] = "failed" <=> order[o] = "failed"
         /\ \A q \in Reqs : req'[q].took = req[q].took

LEMMA AloofKeeps ==
    ASSUME AInv, CInv, Aloof
    PROVE  CInv'
<1>1. told \subseteq Orders /\ \A q \in Reqs : req[q].took \subseteq Orders
  BY OrderIs, RequestIs
<1> QED BY <1>1 DEF Aloof, CInv

LEMMA NoTook ==
    ASSUME AInv, NEW r \in Reqs
    PROVE  /\ req[r].at # "row" => req[r].took = {}
           /\ req[r].op \in Batches => req[r].took = {}
           /\ Ends(r) \/ NextOne(r) => req'[r].took = {} \/ (req[r].op \in Batches)
           /\ Ends(r) => req'[r].took = {}
           /\ NextOne(r) => req'[r].took = req[r].took /\ req[r].op \in Batches
<1>1. Proper(req[r])
  BY RequestIs
<1>2. req[r].at # "row" => req[r].took = {}
  BY <1>1 DEF Proper
<1>3. req[r].op \in Batches => req[r].took = {}
  BY <1>1 DEF Proper, Batches
<1>4. Ends(r) => req'[r].took = {}
  BY IdleIs DEF Ends
<1>5. NextOne(r) => req'[r].took = req[r].took /\ req[r].op \in Batches
  BY Zenon DEF NextOne, Is
<1> QED BY <1>2, <1>3, <1>4, <1>5

LEMMA Budgets ==
    ASSUME AInv, Errs
    PROVE  budget' # MaxFaults
<1>1. budget \in 0..MaxFaults /\ MaxFaults \in Nat
  BY OrderIs
<1> QED BY <1>1 DEF Errs

LEMMA DevicesAloof ==
    ASSUME AInv, NEW r \in Reqs, OnDevice(r)
    PROVE  Aloof
<1>1. UNCHANGED <<order, told, budget>>
  BY DeviceTypes
<1>2. \A q \in Reqs : q # r => req'[q].took = req[q].took
  BY AllMove DEF Moves, Kept
<1>3. req'[r].took = req[r].took
  <2>1. ASSUME NEW m \in Macs, Extended(r, m) \/ Deleted(r, m) \/ Revoked(r, m) \/ Claimed(r, m)
        PROVE  req'[r].took = req[r].took
    <3>1. PICK op, a, u : Wrote(r, m, op, a, u)
      BY <2>1, Zenon DEF Extended, Deleted, Revoked, Claimed
    <3>2. req'[r].took = {} /\ (req[r] = Idle \/ req[r].at = "next" \/ req[r].at = "write")
      BY <3>1, Zenon DEF Wrote, Is
    <3> QED BY <3>2, NoTook, IdleIs
  <2>2. ASSUME NEW m \in Macs, Marked(r, m)
        PROVE  req'[r].took = req[r].took
    BY <2>2, Zenon DEF Marked, Steps, Is
  <2>3. ASSUME NEW u, NEW old, NEW new, Replaced(r, u, old, new)
        PROVE  req'[r].took = req[r].took
    <3>1. req'[r].took = {} /\ req[r] = Idle
      BY <2>3, Zenon DEF Replaced, Is
    <3> QED BY <3>1, IdleIs
  <2> QED BY <2>1, <2>2, <2>3, Zenon DEF OnDevice
<1> QED BY <1>1, <1>2, <1>3 DEF Aloof

LEMMA StartsAloof ==
    ASSUME AInv, NEW r \in Reqs, Starts(r), ~\E S \in SUBSET Orders : Cancelled(r, S)
    PROVE  Aloof
<1>1. \A q \in Reqs : q # r => req'[q].took = req[q].took
  BY AllMove DEF Moves, Kept
<1>2. told' = told
  BY StartTypes
<1>3. ASSUME req[r] = Idle, req'[r].took = {}
      PROVE  \A q \in Reqs : req'[q].took = req[q].took
  BY <1>1, <1>3, IdleIs
<1>4. CASE Waits(r) \/ Queued(r)
  <2>1. Begun(r) /\ UNCHANGED tables
    BY <1>4, Zenon DEF Waits, Queued
  <2>2. req'[r].took = {}
    BY <1>4, Zenon DEF Waits, Queued, Is
  <2> QED BY <1>2, <1>3, <2>1, <2>2 DEF Begun, Aloof, tables
<1>5. ASSUME NEW o \in Orders, Paid(r, o)
      PROVE  Aloof
  <2>1. Begun(r) /\ req'[r].took = {} /\ order[o] = "pending" /\ order' = [order EXCEPT ![o] = "paid"]
    BY <1>5, Zenon DEF Paid, Is
  <2> QED BY <1>2, <1>3, <2>1, OrderIs DEF Begun, Aloof
<1>6. ASSUME NEW o \in Orders, Refunded(r, o)
      PROVE  Aloof
  <2>1. Begun(r) /\ req'[r].took = {} /\ order[o] = "paid" /\ order' = [order EXCEPT ![o] = "refunded"]
    BY <1>6, Zenon DEF Refunded, Is
  <2> QED BY <1>2, <1>3, <2>1, OrderIs DEF Begun, Aloof
<1>7. ASSUME NEW p \in Plans, Planned(r, p)
      PROVE  Aloof
  <2>1. Begun(r) /\ req'[r].took = {} /\ UNCHANGED <<mac, order>>
    BY <1>7, Zenon DEF Planned, Is
  <2> QED BY <1>2, <1>3, <2>1 DEF Begun, Aloof
<1>8. CASE (\E p \in Plans : Misplanned(r, p)) \/ (\E m \in Macs : Misdeleted(r, m))
  <2>1. req[r] = Idle /\ req'[r].took = {} /\ UNCHANGED tables /\ Errs
    BY <1>8, Zenon DEF Misplanned, Misdeleted, Is, Errs
  <2> QED BY <1>2, <1>3, <2>1, Budgets DEF Aloof, tables
<1> QED BY <1>4, <1>5, <1>6, <1>7, <1>8, Zenon DEF Starts

LEMMA CancelKeeps ==
    ASSUME AInv, CInv, NEW r \in Reqs, NEW S \in SUBSET Orders, Cancelled(r, S)
    PROVE  CInv'
<1>1. /\ Begun(r) /\ req'[r].took = S /\ \A o \in S : order[o] = "pending"
      /\ order' = [o \in Orders |-> IF o \in S THEN "failed" ELSE order[o]]
  BY Zenon DEF Cancelled, Is
<1>2. told' = told /\ budget' = budget /\ req[r].took = {}
  BY <1>1, IdleIs DEF Begun
<1>3. \A q \in Reqs : q # r => req'[q].took = req[q].took
  BY <1>1 DEF Begun, Moves, Kept
<1>4. told \subseteq Orders /\ \A q \in Reqs : req[q].took \subseteq Orders
  BY OrderIs, RequestIs
<1>5. \A o \in Orders : order'[o] = "failed" <=> (o \in S \/ order[o] = "failed")
  BY <1>1
<1>6. \A o \in S : o \notin told /\ \A q \in Reqs : o \notin req[q].took
  BY <1>1 DEF CInv
<1>7. \A o \in told' : order'[o] = "failed"
  BY <1>2, <1>4, <1>5 DEF CInv
<1>8. \A q \in Reqs : \A o \in req'[q].took :
         order'[o] = "failed" /\ o \notin told' /\ \A p \in Reqs \ {q} : o \notin req'[p].took
  <2> SUFFICES ASSUME NEW q \in Reqs, NEW o \in req'[q].took
               PROVE  /\ order'[o] = "failed" /\ o \notin told'
                      /\ \A p \in Reqs \ {q} : o \notin req'[p].took
    OBVIOUS
  <2>1. CASE q = r
    BY <1>1, <1>2, <1>3, <1>5, <1>6, <2>1
  <2>2. CASE q # r
    <3>1. o \in req[q].took /\ o \in Orders /\ o \notin S
      BY <1>3, <1>4, <1>6, <2>2
    <3> QED BY <1>1, <1>2, <1>3, <1>5, <2>2, <3>1 DEF CInv
  <2> QED BY <2>1, <2>2
<1>9. budget' = MaxFaults => \A o \in Orders : order'[o] = "failed" =>
          o \in told' \/ \E q \in Reqs : o \in req'[q].took
  <2> SUFFICES ASSUME budget' = MaxFaults, NEW o \in Orders, order'[o] = "failed"
               PROVE  o \in told' \/ \E q \in Reqs : o \in req'[q].took
    OBVIOUS
  <2>1. CASE o \in S
    BY <1>1, <2>1
  <2>2. CASE o \notin S
    <3>1. o \in told \/ \E q \in Reqs : o \in req[q].took
      BY <1>2, <1>5, <2>2 DEF CInv
    <3> QED BY <1>2, <1>3, <3>1
  <2> QED BY <2>1, <2>2
<1> QED BY <1>7, <1>8, <1>9 DEF CInv

LEMMA GoingKeeps ==
    ASSUME AInv, CInv, NEW r \in Reqs, GoesOn(r)
    PROVE  CInv'
<1>1. \A q \in Reqs : q # r => req'[q].took = req[q].took
  BY AllMove DEF Moves, Kept
<1>2. order' = order
  BY GoingTypes DEF Calm, tables
<1>3. CASE Rereads(r) \/ Enforced(r) \/ Batched(r) \/ Refused(r) \/ \E m \in Macs : Omitted(r, m)
  <2>1. req'[r].took = req[r].took
    <3>1. \/ (Ends(r) \/ NextOne(r)) /\ req[r].at # "row"
          \/ req'[r].took = req[r].took
      BY <1>3 DEF Rereads, Enforced, Batched, Refused, Omitted, Steps, Is
    <3> QED BY <3>1, NoTook
  <2>2. told' = told /\ (budget' = budget \/ Errs)
    BY <1>3, Zenon DEF Rereads, Enforced, Batched, Refused, Omitted, log
  <2>3. Aloof
    BY <1>1, <1>2, <2>1, <2>2, Budgets DEF Aloof
  <2> QED BY <2>3, AloofKeeps
<1>4. CASE Audited(r)
  <2>1. told' = told \cup req[r].took /\ budget' = budget /\ req'[r].took = {}
    <3>1. told' = told \cup req[r].took /\ budget' = budget /\ (Ends(r) \/ NextOne(r))
      BY <1>4, Zenon DEF Audited, Releases
    <3> QED BY <3>1, NoTook
  <2>2. \A o \in told' : order'[o] = "failed"
    BY <1>2, <2>1 DEF CInv
  <2>3. \A q \in Reqs : \A o \in req'[q].took :
         order'[o] = "failed" /\ o \notin told' /\ \A p \in Reqs \ {q} : o \notin req'[p].took
    <3> SUFFICES ASSUME NEW q \in Reqs, NEW o \in req'[q].took
                 PROVE  /\ order'[o] = "failed" /\ o \notin told'
                        /\ \A p \in Reqs \ {q} : o \notin req'[p].took
      OBVIOUS
    <3>1. q # r /\ o \in req[q].took
      BY <1>1, <2>1
    <3> QED BY <1>1, <1>2, <2>1, <3>1 DEF CInv
  <2>4. budget' = MaxFaults => \A o \in Orders : order'[o] = "failed" =>
          o \in told' \/ \E q \in Reqs : o \in req'[q].took
    BY <1>1, <1>2, <2>1 DEF CInv
  <2> QED BY <2>2, <2>3, <2>4 DEF CInv
<1>5. CASE Cut(r)
  <2>1. told' = told /\ budget' # MaxFaults /\ req'[r].took = {}
    <3>1. told' = told /\ Errs /\ (Ends(r) \/ NextOne(r))
      BY <1>5, Zenon DEF Cut, Releases
    <3> QED BY <3>1, NoTook, Budgets
  <2> QED BY <1>1, <1>2, <2>1 DEF CInv
<1> QED BY <1>3, <1>4, <1>5, Zenon DEF GoesOn

LEMMA CancelSteps ==
    ASSUME AInv, CInv, [Next]_vars
    PROVE  CInv'
<1>1. CASE \E r \in Reqs : OnDevice(r) \/ Starts(r) \/ GoesOn(r)
  BY <1>1, DevicesAloof, StartsAloof, AloofKeeps, CancelKeeps, GoingKeeps, Zenon
<1>2. CASE Noted \/ Expired \/ UNCHANGED vars
  <2>1. order' = order /\ req' = req /\ told' = told /\ budget' = budget
    BY <1>2 DEF Noted, Expired, vars, log, tables
  <2>2. Aloof
    BY <2>1 DEF Aloof
  <2> QED BY <2>2, AloofKeeps
<1> QED BY <1>1, <1>2, StepIs

LEMMA CancelLedger ==
    ASSUME AInv, CInv
    PROVE  CancelsAddUp
<1> DEFINE failed == {o \in Orders : order[o] = "failed"}
           open == UNION {req[r].took : r \in Reqs}
<1>1. told \subseteq Orders /\ \A q \in Reqs : req[q].took \subseteq Orders
  BY OrderIs, RequestIs
<1>2. \A o : o \in open <=> \E r \in Reqs : o \in req[r].took
  OBVIOUS
<1>3. \A o : o \in failed <=> o \in Orders /\ order[o] = "failed"
  OBVIOUS
<1> HIDE DEF failed, open
<1>4. told \cup open \subseteq failed
  BY <1>1, <1>2, <1>3 DEF CInv
<1>5. budget = MaxFaults => failed \subseteq told \cup open
  BY <1>2, <1>3 DEF CInv
<1>6. \A r \in Reqs : req[r].took \cap told = {}
  BY DEF CInv
<1>7. \A q, r \in Reqs : q # r => req[q].took \cap req[r].took = {}
  BY DEF CInv
<1> QED BY <1>4, <1>5, <1>6, <1>7, Zenon DEF CancelsAddUp, failed, open

(***************************************************************************)
(* The cancellations in the log, and those of requests still at work, are  *)
(* orders that failed, each once; without faults they are all of them      *)
(* (CancelPendingOrder and CancelStalePendingOrders change only what they  *)
(* find pending, in one statement).                                        *)
(***************************************************************************)
THEOREM CancelsCounted == Spec => []CancelsAddUp
<1>1. Init => AInv /\ CInv
  <2> SUFFICES ASSUME Init
               PROVE  AInv /\ CInv
    OBVIOUS
  <2>1. \A r \in Reqs : req[r].took = {}
    BY IdleIs DEF Init
  <2> QED BY <2>1, AStart DEF Init, CInv
<1>2. AInv /\ CInv /\ [Next]_vars => AInv' /\ CInv'
  BY ATypes, CancelSteps
<1>3. AInv /\ CInv => CancelsAddUp
  BY CancelLedger
<1> QED BY <1>1, <1>2, <1>3, PTL DEF Spec
-----------------------------------------------------------------------------
(* Devices and their owners.  What a request is about to write was so when *)
(* it read the row, and is so still unless it has gone stale.              *)

KInv ==
    \A r \in Reqs, m \in Macs :
        \/ m \in req[r].stale
        \/ /\ req[r].uid # Nobody /\ req[r].op = "user_grant" /\ m \in req[r].todo =>
                 mac[m].owner = req[r].uid
           /\ req[r].at = "write" /\ req[r].op = "claim" /\ m = req[r].x =>
                 mac[m].st # "none" /\ mac[m].owner \in {req[r].uid, Nobody}
           /\ req[r].at = "write" /\ req[r].op = "label" /\ m = req[r].x =>
                 mac[m].owner = req[r].uid

\* The claim of KInv about a request t and the row of m.
Reads(t, m, row) ==
    /\ t.uid # Nobody /\ t.op = "user_grant" /\ m \in t.todo => row.owner = t.uid
    /\ t.at = "write" /\ t.op = "claim" /\ m = t.x => row.st # "none" /\ row.owner \in {t.uid, Nobody}
    /\ t.at = "write" /\ t.op = "label" /\ m = t.x => row.owner = t.uid

LEMMA KInvIs == KInv <=> \A r \in Reqs, m \in Macs : m \in req[r].stale \/ Reads(req[r], m, mac[m])
  BY Zenon DEF KInv, Reads

\* A row whose owner stays, and that stays a row.
SameRow(m) == mac'[m].owner = mac[m].owner /\ (mac[m].st # "none" => mac'[m].st # "none")

\* The others: a step that changes rows more than that makes their readers stale.
LEMMA OthersRead ==
    ASSUME AInv, KInv, NEW r, Kept(r), NEW q \in Reqs, q # r, NEW m \in Macs,
           SameRow(m) \/ (Holds(q, m) => m \in req'[q].stale)
    PROVE  m \in req'[q].stale \/ Reads(req'[q], m, mac'[m])
<1>1. m \in req[q].stale \/ Reads(req[q], m, mac[m])
  BY KInvIs
<1>2. /\ req'[q].op = req[q].op /\ req'[q].at = req[q].at /\ req'[q].todo = req[q].todo
      /\ req'[q].x = req[q].x /\ req'[q].uid = req[q].uid /\ req[q].stale \subseteq req'[q].stale
  BY DEF Kept
<1>3. CASE SameRow(m)
  BY <1>1, <1>2, <1>3 DEF SameRow, Reads
<1>4. CASE ~Holds(q, m)
  BY <1>2, <1>4 DEF Reads, Holds
<1>5. CASE m \in req'[q].stale
  BY <1>5
<1> QED BY <1>3, <1>4, <1>5

\* The request itself, when it goes on.
LEMMA MoverReads ==
    ASSUME AInv, KInv, NEW r \in Reqs, NEW m \in Macs, req'[r].at # "write",
           req'[r].op # "user_grant" \/ m \notin req'[r].todo \/
              (/\ mac'[m].owner = mac[m].owner /\ req[r].op = "user_grant" /\ m \in req[r].todo
               /\ req'[r].uid = req[r].uid /\ req[r].stale \subseteq req'[r].stale)
    PROVE  m \in req'[r].stale \/ Reads(req'[r], m, mac'[m])
<1>1. m \in req[r].stale \/ Reads(req[r], m, mac[m])
  BY KInvIs
<1> QED BY <1>1 DEF Reads

LEMMA DevicesRead ==
    ASSUME AInv, KInv, NEW r \in Reqs, OnDevice(r)
    PROVE  KInv'
<1>0. Kept(r)
  BY AllMove DEF Moves
<1>1. ASSUME NEW m \in Macs, Extended(r, m) \/ Deleted(r, m) \/ Revoked(r, m) \/ Claimed(r, m)
      PROVE  KInv'
  <2>1. PICK op, a, u : Wrote(r, m, op, a, u) /\ a # "write"
    <3>1. "reread" # "write" /\ "remove" # "write" /\ "row" # "write"
      OBVIOUS
    <3> QED BY <1>1, <3>1, Zenon DEF Extended, Deleted, Revoked, Claimed
  <2>2. \A n \in Macs \ {m} : mac'[n] = mac[n]
    BY <1>1, PutsExtended, PutsDeleted, PutsRevoked, PutsClaimed, Zenon DEF Puts
  <2>3. /\ Is(req'[r], op, a, req[r].todo \ {m}, m, u, {}) /\ a # "write"
        /\ req'[r].stale = req[r].stale
        /\ \A q \in Reqs : q # r /\ Holds(q, m) => m \in req'[q].stale
        /\ \/ req[r] = Idle
           \/ req[r].at = "next" /\ req[r].op = op /\ req[r].uid = u
           \/ req[r].at = "write"
    BY <2>1, Zenon DEF Wrote
  <2>4. ASSUME NEW n \in Macs, n \in req'[r].todo
        PROVE  n # m /\ n \in req[r].todo /\ req[r].op = op /\ req[r].uid = u
    <3>1. n # m /\ n \in req[r].todo
      BY <2>3, <2>4 DEF Is
    <3>2. req[r] # Idle /\ req[r].at # "write"
      BY <3>1, IdleIs, RequestIs DEF Proper
    <3> QED BY <2>3, <3>1, <3>2
  <2>5. ASSUME NEW n \in Macs
        PROVE  n \in req'[r].stale \/ Reads(req'[r], n, mac'[n])
    <3>1. req'[r].at # "write" /\ req'[r].op = op /\ req'[r].uid = u /\ req'[r].stale = req[r].stale
      BY <2>3 DEF Is
    <3>2. CASE n \notin req'[r].todo \/ op # "user_grant"
      BY <3>1, <3>2, MoverReads
    <3>3. CASE n \in req'[r].todo /\ op = "user_grant"
      <4>1. mac'[n] = mac[n]
        BY <2>2, <2>4, <3>3
      <4> QED BY <2>4, <3>1, <3>3, <4>1, MoverReads
    <3> QED BY <3>2, <3>3
  <2>6. ASSUME NEW q \in Reqs, q # r, NEW n \in Macs
        PROVE  n \in req'[q].stale \/ Reads(req'[q], n, mac'[n])
    <3>1. SameRow(n) \/ (Holds(q, n) => n \in req'[q].stale)
      BY <2>2, <2>3, <2>6 DEF SameRow
    <3> QED BY <1>0, <2>6, <3>1, OthersRead
  <2>7. \A q \in Reqs, n \in Macs : n \in req'[q].stale \/ Reads(req'[q], n, mac'[n])
    BY <2>5, <2>6
  <2> QED BY <2>7, Zenon DEF KInv, Reads
<1>2. ASSUME NEW m \in Macs, Marked(r, m)
      PROVE  KInv'
  <2>1. \A n \in Macs : SameRow(n)
    BY <1>2, PutsMarked DEF Puts, SameRow
  <2>2. /\ Is(req'[r], req[r].op, "row", req[r].todo, req[r].x, req[r].uid, req[r].took)
        /\ req[r].op \in Asides
    BY <1>2, Zenon DEF Marked, Steps
  <2>3. req'[r].at # "write" /\ req'[r].op # "user_grant"
    BY <2>2 DEF Is, Asides
  <2>4. \A q \in Reqs, n \in Macs : n \in req'[q].stale \/ Reads(req'[q], n, mac'[n])
    BY <1>0, <2>1, <2>3, OthersRead, MoverReads
  <2> QED BY <2>4, Zenon DEF KInv, Reads
<1>3. ASSUME NEW u \in Users, NEW old \in Macs, NEW new \in Macs, Replaced(r, u, old, new)
      PROVE  KInv'
  <2>1. \A n \in Macs \ {old, new} : SameRow(n)
    BY <1>3, PutsReplaced DEF SameRow
  <2>2. /\ req'[r].at # "write" /\ req'[r].op # "user_grant"
        /\ \A q \in Reqs, n \in {old, new} : q # r /\ Holds(q, n) => n \in req'[q].stale
    BY <1>3 DEF Replaced, Is
  <2>3. ASSUME NEW q \in Reqs, NEW n \in Macs
        PROVE  n \in req'[q].stale \/ Reads(req'[q], n, mac'[n])
    <3>1. CASE q = r
      BY <2>2, <3>1, MoverReads
    <3>2. CASE q # r
      <4>1. SameRow(n) \/ (Holds(q, n) => n \in req'[q].stale)
        BY <2>1, <2>2, <3>2
      <4> QED BY <1>0, <3>2, <4>1, OthersRead
    <3> QED BY <3>1, <3>2
  <2> QED BY <2>3, Zenon DEF KInv, Reads
<1> QED BY <1>1, <1>2, <1>3, Zenon DEF OnDevice

\* All other steps leave owners alone and delete no row.
LEMMA RowsStay ==
    ASSUME AInv, NEW r \in Reqs, Starts(r) \/ GoesOn(r)
    PROVE  \A m \in Macs : SameRow(m) /\ mac'[m].text = mac[m].text
<1>1. CASE GoesOn(r)
  BY <1>1, GoingTypes DEF Calm, tables, SameRow
<1>2. CASE Starts(r)
  <2>1. mac' = mac \/ \E m \in Macs : mac[m].st # "none" /\ mac' = [mac EXCEPT ![m].st = "expired"]
    BY <1>2, Zenon DEF Starts, Waits, Queued, Paid, Refunded, Cancelled, Planned, Misplanned, Misdeleted, tables
  <2>2. CASE mac' = mac
    BY <2>2 DEF SameRow
  <2>3. ASSUME NEW m \in Macs, mac[m].st # "none", mac' = [mac EXCEPT ![m].st = "expired"]
        PROVE  \A n \in Macs : SameRow(n) /\ mac'[n].text = mac[n].text
    BY <2>3, Lapses DEF Puts, SameRow
  <2> QED BY <2>1, <2>2, <2>3
<1> QED BY <1>1, <1>2

LEMMA StartsRead ==
    ASSUME AInv, KInv, NEW r \in Reqs, Starts(r)
    PROVE  KInv'
<1>0. Kept(r)
  BY AllMove DEF Moves
<1>1. \A m \in Macs : SameRow(m)
  BY RowsStay
<1>2. ASSUME NEW n \in Macs
      PROVE  n \in req'[r].stale \/ Reads(req'[r], n, mac'[n])
  <2>1. ASSUME Waits(r)
        PROVE  Reads(req'[r], n, mac'[n])
    <3>1. mac' = mac
      BY <2>1, Zenon DEF Waits, tables
    <3>2. PICK m \in Macs, u \in Accounts :
          \/ /\ Is(req'[r], "claim", "write", {}, m, u, {})
             /\ mac[m].st = "active" /\ mac[m].owner \in {u, Nobody}
          \/ /\ Is(req'[r], "label", "write", {}, m, u, {})
             /\ mac[m].owner = u
          \/ /\ Is(req'[r], "note", "write", {}, m, Nobody, {})
      BY <2>1, Zenon DEF Waits
    <3> QED BY <3>1, <3>2 DEF Is, Reads
  <2>2. ASSUME Queued(r)
        PROVE  Reads(req'[r], n, mac'[n])
    <3>1. PICK op \in Batches, u \in Accounts, T \in SUBSET Macs :
          /\ Is(req'[r], op, "next", T, None, u, {})
          /\ u # Nobody => T = ListMACsForUser(u)
      BY <2>2, Zenon DEF Queued
    <3>2. mac' = mac
      BY <2>2, Zenon DEF Queued, tables
    <3> QED BY <3>1, <3>2 DEF Is, Reads, ListMACsForUser
  <2>3. ASSUME ~Waits(r), ~Queued(r)
        PROVE  Reads(req'[r], n, mac'[n])
    <3>1. req'[r].at # "write" /\ req'[r].op # "user_grant"
      <4>1. ASSUME NEW o \in Orders, Paid(r, o) \/ Refunded(r, o)
            PROVE  req'[r].at # "write" /\ req'[r].op # "user_grant"
        BY <4>1 DEF Paid, Refunded, Is
      <4>2. ASSUME NEW S, Cancelled(r, S)
            PROVE  req'[r].at # "write" /\ req'[r].op # "user_grant"
        BY <4>2 DEF Cancelled, Is
      <4>3. ASSUME NEW p, Planned(r, p) \/ Misplanned(r, p)
            PROVE  req'[r].at # "write" /\ req'[r].op # "user_grant"
        BY <4>3 DEF Planned, Misplanned, Is, PlanOps
      <4>4. ASSUME NEW m, Misdeleted(r, m)
            PROVE  req'[r].at # "write" /\ req'[r].op # "user_grant"
        BY <4>4 DEF Misdeleted, Is
      <4> QED BY <2>3, <4>1, <4>2, <4>3, <4>4, Zenon DEF Starts
    <3> QED BY <3>1 DEF Reads
  <2> QED BY <2>1, <2>2, <2>3
<1>3. \A q \in Reqs, n \in Macs : n \in req'[q].stale \/ Reads(req'[q], n, mac'[n])
  BY <1>0, <1>1, <1>2, OthersRead
<1> QED BY <1>3, Zenon DEF KInv, Reads

LEMMA GoingReads ==
    ASSUME AInv, KInv, NEW r \in Reqs, GoesOn(r)
    PROVE  KInv'
<1>0. Kept(r)
  BY AllMove DEF Moves
<1>1. \A m \in Macs : SameRow(m)
  BY RowsStay
<1>2. \/ Ends(r)
      \/ /\ req'[r].at # "write" /\ req'[r].op = req[r].op /\ req'[r].uid = req[r].uid
         /\ req'[r].todo \subseteq req[r].todo /\ req'[r].stale = req[r].stale
  <2>1. Ends(r) \/ NextOne(r) \/ Steps(r, "add") \/ Steps(r, "row") \/ \E m \in Macs : Omitted(r, m)
    BY Zenon DEF GoesOn, Rereads, Enforced, Batched, Refused, Audited, Cut, Releases
  <2> QED BY <2>1 DEF NextOne, Steps, Omitted, Is
<1>3. ASSUME NEW n \in Macs
      PROVE  n \in req'[r].stale \/ Reads(req'[r], n, mac'[n])
  <2>1. CASE Ends(r)
    BY <2>1, IdleIs, MoverReads DEF Ends
  <2>2. CASE ~Ends(r)
    BY <1>1, <1>2, <2>2, MoverReads DEF SameRow
  <2> QED BY <2>1, <2>2
<1>4. \A q \in Reqs, n \in Macs : n \in req'[q].stale \/ Reads(req'[q], n, mac'[n])
  BY <1>0, <1>1, <1>3, OthersRead
<1> QED BY <1>4, Zenon DEF KInv, Reads

LEMMA KSteps ==
    ASSUME AInv, KInv, [Next]_vars
    PROVE  KInv'
<1>1. CASE \E r \in Reqs : OnDevice(r) \/ Starts(r) \/ GoesOn(r)
  BY <1>1, DevicesRead, StartsRead, GoingReads
<1>2. CASE Noted \/ Expired \/ UNCHANGED vars
  <2>1. req' = req
    BY <1>2 DEF Noted, Expired, vars
  <2>2. \A m \in Macs : SameRow(m)
    <3>1. mac' = mac \/ \E m \in Macs : mac[m].st = "active" /\ mac' = [mac EXCEPT ![m].st = "expired"]
      BY <1>2 DEF Noted, Expired, vars, tables
    <3>2. CASE mac' = mac
      BY <3>2 DEF SameRow
    <3>3. ASSUME NEW m \in Macs, mac[m].st = "active", mac' = [mac EXCEPT ![m].st = "expired"]
          PROVE  \A n \in Macs : SameRow(n)
      BY <3>3, Lapses DEF Puts, SameRow
    <3> QED BY <3>1, <3>2, <3>3
  <2>3. \A q \in Reqs, n \in Macs : n \in req'[q].stale \/ Reads(req'[q], n, mac'[n])
    BY <2>1, <2>2, KInvIs DEF SameRow, Reads
  <2> QED BY <2>3, Zenon DEF KInv, Reads
<1> QED BY <1>1, <1>2, StepIs

\* What DevicesKept says of one device and one account.
Comes(m, v) ==
    (mac'[m].owner = v /\ mac[m].owner # v) =>
                \/ Serves(v, m)
                \/ mac[m].st # "none" /\ mac[m].owner = Nobody
                \/ \E old \in Macs : mac[old].owner = v /\ mac'[old] = NoRow

Bears(m, v) ==
    (mac'[m].text = v /\ mac[m].text # v) =>
                \/ mac'[m].owner = v
                \/ Serves(v, m)
                \/ \E old \in Macs : mac[old].text = v /\ mac'[old] = NoRow

LEMMA KeptByDevice ==
    ASSUME AInv, KInv, NEW r \in Reqs, OnDevice(r), NEW n \in Macs, NEW v \in Users
    PROVE  Comes(n, v) /\ Bears(n, v)
<1>0. v # Nobody
  BY SubjectsAssumption
<1>1. ASSUME NEW m \in Macs, Extended(r, m)
      PROVE  Comes(n, v) /\ Bears(n, v)
  <2>1. PICK u \in Accounts, text \in {Nobody, mac[m].text},
             op \in {"grant", "pay", "bulk_extend", "import", "api_import", "user_grant"} :
              /\ Wrote(r, m, op, "reread", u)
              /\ u # Nobody => op \in {"pay", "user_grant"} /\ req[r] # Idle
              /\ Puts(m, "active", IF u = Nobody THEN mac[m].owner ELSE u, text)
    BY <1>1, PutsExtended
  <2>2. Bears(n, v)
    BY <1>0, <2>1 DEF Puts, Bears
  <2>3. Comes(n, v)
    <3> SUFFICES ASSUME mac'[n].owner = v, mac[n].owner # v
                 PROVE  Serves(v, n)
      BY Zenon DEF Comes
    <3>1. n = m /\ u = v /\ op \in {"pay", "user_grant"} /\ req[r] # Idle
      BY <1>0, <2>1 DEF Puts
    <3>2. \/ req[r].at = "next" /\ req[r].op = op /\ req[r].uid = v /\ m \in req[r].todo
          \/ req[r].at = "write" /\ req[r].op = op
      BY <2>1, <3>1, Zenon DEF Wrote
    <3>3. req[r].at # "write"
      BY <3>1, <3>2, RequestIs DEF Proper, Asides
    <3>4. CASE op = "pay"
      BY <3>2, <3>3, <3>4 DEF Serves
    <3>5. CASE op = "user_grant"
      <4>1. m \in req[r].stale
        BY <1>0, <3>1, <3>2, <3>3, <3>5, KInvIs DEF Reads
      <4> QED BY <3>1, <3>2, <3>3, <4>1 DEF Serves
    <3> QED BY <3>1, <3>4, <3>5
  <2> QED BY <2>2, <2>3
<1>2. ASSUME NEW m \in Macs, Deleted(r, m)
      PROVE  Comes(n, v) /\ Bears(n, v)
  BY <1>0, <1>2, PutsDeleted DEF Puts, Comes, Bears
<1>3. ASSUME NEW m \in Macs, Revoked(r, m)
      PROVE  Comes(n, v) /\ Bears(n, v)
  BY <1>3, PutsRevoked DEF Puts, Comes, Bears
<1>4. ASSUME NEW m \in Macs, Claimed(r, m)
      PROVE  Comes(n, v) /\ Bears(n, v)
  <2>1. Puts(m, "active", IF req[r].uid = Nobody THEN mac[m].owner ELSE req[r].uid, mac[m].text)
    BY <1>4, PutsClaimed
  <2>2. Bears(n, v)
    BY <2>1 DEF Puts, Bears
  <2>3. req[r].at = "write" /\ req[r].op = "claim" /\ m = req[r].x
    <3>1. req[r].at = "write" /\ req[r].op = "claim" /\ Wrote(r, m, "claim", "row", req[r].uid)
      BY <1>4, Zenon DEF Claimed
    <3>2. req[r] # Idle /\ req[r].at # "next"
      BY <3>1, IdleIs
    <3> QED BY <3>1, <3>2, Zenon DEF Wrote
  <2>4. Comes(n, v)
    <3> SUFFICES ASSUME mac'[n].owner = v, mac[n].owner # v
                 PROVE  Serves(v, n) \/ (mac[n].st # "none" /\ mac[n].owner = Nobody)
      BY Zenon DEF Comes
    <3>1. n = m /\ req[r].uid = v
      BY <2>1 DEF Puts
    <3>2. m \in req[r].stale \/ (mac[m].st # "none" /\ mac[m].owner \in {v, Nobody})
      BY <2>3, <3>1, KInvIs DEF Reads
    <3> QED BY <3>1, <3>2 DEF Serves
  <2> QED BY <2>2, <2>4
<1>5. ASSUME NEW m \in Macs, Marked(r, m)
      PROVE  Comes(n, v) /\ Bears(n, v)
  <2>1. Puts(m, mac[m].st, mac[m].owner, IF mac[m].st = "none" THEN mac[m].text ELSE req[r].uid)
    BY <1>5, PutsMarked
  <2>2. req[r].at = "write" /\ req[r].op \in Asides /\ m = req[r].x
    BY <1>5 DEF Marked
  <2>3. Comes(n, v)
    BY <2>1 DEF Puts, Comes
  <2>4. Bears(n, v)
    <3> SUFFICES ASSUME mac'[n].text = v, mac[n].text # v
                 PROVE  mac'[n].owner = v \/ Serves(v, n)
      BY Zenon DEF Bears
    <3>1. n = m /\ req[r].uid = v /\ mac'[m].owner = mac[m].owner
      BY <2>1 DEF Puts
    <3>2. req[r].op = "label"
      BY <1>0, <2>2, <3>1, RequestIs DEF Proper, Owners, Asides
    <3>3. m \in req[r].stale \/ mac[m].owner = v
      BY <2>2, <3>1, <3>2, KInvIs DEF Reads
    <3> QED BY <3>1, <3>3 DEF Serves
  <2> QED BY <2>3, <2>4
<1>6. ASSUME NEW u \in Users, NEW old \in Macs, NEW new \in Macs, Replaced(r, u, old, new)
      PROVE  Comes(n, v) /\ Bears(n, v)
  BY <1>0, <1>6, PutsReplaced, NoRowIs DEF Comes, Bears
<1> QED BY <1>1, <1>2, <1>3, <1>4, <1>5, <1>6, Zenon DEF OnDevice

LEMMA KeptByAll ==
    ASSUME AInv, KInv, [Next]_vars, NEW n \in Macs, NEW v \in Users
    PROVE  Comes(n, v) /\ Bears(n, v)
<1>1. ASSUME NEW r \in Reqs, Starts(r) \/ GoesOn(r)
      PROVE  Comes(n, v) /\ Bears(n, v)
  BY <1>1, RowsStay DEF SameRow, Comes, Bears
<1>2. CASE Noted \/ UNCHANGED vars
  BY <1>2 DEF Noted, vars, tables, Comes, Bears
<1>3. CASE Expired
  <2>1. PICK m \in Macs : mac[m].st = "active" /\ mac' = [mac EXCEPT ![m].st = "expired"]
    BY <1>3 DEF Expired
  <2> QED BY <2>1, Lapses DEF Puts, Comes, Bears
<1> QED BY <1>1, <1>2, <1>3, KeptByDevice, StepIs

(***************************************************************************)
(* No step of anybody moves a device to an account, or puts a user's label *)
(* on it, except for one who paid, claimed what nobody owned, replaced a   *)
(* device of his own or had read a row that changed since                  *)
(* (handleUserClaimMAC, handleUserLabelMAC, handleAPIUserGrant,            *)
(* ReplaceMAC).                                                            *)
(***************************************************************************)
THEOREM DevicesStay == Spec => DevicesKept
<1>1. Init => KInv
  <2> SUFFICES ASSUME Init
               PROVE  KInv
    OBVIOUS
  <2>1. \A r \in Reqs : req[r].todo = {} /\ req[r].at = "idle"
    BY IdleIs DEF Init
  <2> QED BY <2>1 DEF KInv
<1>2. AInv /\ KInv /\ [Next]_vars => KInv'
  BY KSteps
<1> DEFINE Stay == \A m \in Macs, v \in Users :
          /\ (mac'[m].owner = v /\ mac[m].owner # v) =>
                \/ Serves(v, m)
                \/ mac[m].st # "none" /\ mac[m].owner = Nobody
                \/ \E old \in Macs : mac[old].owner = v /\ mac'[old] = NoRow
          /\ (mac'[m].text = v /\ mac[m].text # v) =>
                \/ mac'[m].owner = v
                \/ Serves(v, m)
                \/ \E old \in Macs : mac[old].text = v /\ mac'[old] = NoRow
<1>3. AInv /\ KInv /\ [Next]_vars => Stay
  BY KeptByAll, Zenon DEF Comes, Bears
<1> HIDE DEF Stay
<1>4. AInv /\ KInv /\ [Next]_vars => [Stay]_vars
  BY <1>3
<1>5. Spec => [][Stay]_vars
  BY <1>1, <1>2, <1>4, AllProper, PTL DEF Spec
<1> QED BY <1>5, Zenon DEF DevicesKept, Stay
-----------------------------------------------------------------------------
(* The newest row.  Until a request's row is written, what it will say is  *)
(* what must be true of its subject; from then on, what it said.           *)

Grants == {"grant", "pay", "bulk_extend", "import", "api_import", "user_grant"}

Shaped(t) ==
    /\ t.at = "reread" => t.op \in Grants
    /\ t.op = "cancel_stale" => t.x = None /\ t.todo = {}

SInv == \A r \in Reqs : Shaped(req[r])

LEMMA ShapedSteps ==
    ASSUME AInv, SInv, [Next]_vars
    PROVE  SInv'
<1>1. ASSUME NEW r \in Reqs, OnDevice(r) \/ Starts(r) \/ GoesOn(r)
      PROVE  SInv'
  <2>1. \A q \in Reqs : q # r => Shaped(req'[q])
    <3>1. \A q \in Reqs : q # r => /\ req'[q].op = req[q].op /\ req'[q].at = req[q].at
                                   /\ req'[q].x = req[q].x /\ req'[q].todo = req[q].todo
      BY <1>1, AllMove DEF Moves, Kept
    <3> QED BY <3>1 DEF SInv, Shaped
  <2>2. Shaped(req[r])
    BY DEF SInv
  <2>3. Shaped(req'[r])
    <3>1. CASE OnDevice(r)
      <4>1. ASSUME NEW m \in Macs, Extended(r, m)
            PROVE  req'[r].op \in Grants
        BY <4>1, Zenon DEF Extended, Wrote, Is, Grants
      <4>2. ASSUME NEW m \in Macs, Deleted(r, m)
            PROVE  req'[r].op \in {"delete", "api_revoke", "bulk_delete"} /\ req'[r].at = "remove"
        BY <4>2, Zenon DEF Deleted, Wrote, Is
      <4>3. ASSUME NEW m \in Macs, Revoked(r, m) \/ Claimed(r, m)
            PROVE  req'[r].op \in {"revoke", "claim"} /\ req'[r].at \in {"remove", "row"}
        BY <4>3 DEF Revoked, Claimed, Wrote, Is
      <4>4. ASSUME NEW m \in Macs, Marked(r, m)
            PROVE  req'[r].op \in Asides /\ req'[r].at = "row"
        BY <4>4, Zenon DEF Marked, Steps, Is
      <4>5. ASSUME NEW u, NEW old, NEW new, Replaced(r, u, old, new)
            PROVE  req'[r].op = "replace" /\ req'[r].at = "add"
        BY <4>5, Zenon DEF Replaced, Is
      <4>6. \/ req'[r].op \in Grants
            \/ req'[r].op \in {"delete", "api_revoke", "bulk_delete"} /\ req'[r].at = "remove"
            \/ req'[r].op \in {"revoke", "claim"} /\ req'[r].at \in {"remove", "row"}
            \/ req'[r].op \in Asides /\ req'[r].at = "row"
            \/ req'[r].op = "replace" /\ req'[r].at = "add"
        BY <3>1, <4>1, <4>2, <4>3, <4>4, <4>5, Zenon DEF OnDevice
      <4> QED BY <4>6 DEF Shaped, Grants, Asides
    <3>2. CASE Starts(r)
      <4>1. CASE Waits(r) \/ Queued(r)
        BY <4>1 DEF Waits, Queued, Is, Batches, Shaped
      <4>2. ASSUME NEW o \in Orders, Paid(r, o) \/ Refunded(r, o)
            PROVE  Shaped(req'[r])
        BY <4>2 DEF Paid, Refunded, Is, Shaped
      <4>3. ASSUME NEW S, Cancelled(r, S)
            PROVE  Shaped(req'[r])
        BY <4>3 DEF Cancelled, Is, Shaped
      <4>4. ASSUME NEW p, Planned(r, p) \/ Misplanned(r, p)
            PROVE  Shaped(req'[r])
        BY <4>4 DEF Planned, Misplanned, Is, PlanOps, Shaped
      <4>5. ASSUME NEW m, Misdeleted(r, m)
            PROVE  Shaped(req'[r])
        BY <4>5 DEF Misdeleted, Is, Shaped
      <4> QED BY <3>2, <4>1, <4>2, <4>3, <4>4, <4>5, Zenon DEF Starts
    <3>3. CASE GoesOn(r)
      <4>1. Ends(r) \/ NextOne(r) \/ Steps(r, "add") \/ Steps(r, "row") \/ \E m \in Macs : Omitted(r, m)
        BY <3>3, Zenon DEF GoesOn, Rereads, Enforced, Batched, Refused, Audited, Cut, Releases
      <4>2. CASE Ends(r)
        BY <4>2, IdleIs DEF Ends, Shaped
      <4>3. CASE NextOne(r) \/ Steps(r, "add") \/ Steps(r, "row") \/ \E m \in Macs : Omitted(r, m)
        BY <2>2, <4>3 DEF NextOne, Steps, Omitted, Is, Shaped
      <4> QED BY <4>1, <4>2, <4>3
    <3> QED BY <1>1, <3>1, <3>2, <3>3
  <2> QED BY <2>1, <2>3 DEF SInv
<1>2. CASE Noted \/ Expired \/ UNCHANGED vars
  BY <1>2 DEF Noted, Expired, vars, SInv
<1> QED BY <1>1, <1>2, StepIs

\* What a row that says s about x asks of the tables d and p.
Fits(s, x, d, p) ==
    /\ x \in Macs =>
          /\ s = "grant" => d[x].st \in {"active", "expired"}
          /\ s = "revoke" => d[x].st # "active"
          /\ s = "moved" => d[x].st = "none"
    /\ x \in Plans =>
          /\ s = "save" => p[x] # "none"
          /\ s = "gone" => p[x] = "none"

\* Task t is at work on x, and has changed it.
Works(t, x) == (x = t.x \/ x \in t.todo) /\ t.op \notin Asides
Written(t, x) == /\ t.at \in {"reread", "add", "remove", "row"} /\ t.op \notin Asides
                 /\ x = t.x \/ (t.op = "replace" /\ x \in t.todo)
SaidBy(t, x) == IF t.op = "replace" /\ x \in t.todo THEN "moved" ELSE RowOf(t.op)

Tracked(x) ==
    /\ \A q, r \in Reqs : q # r /\ Works(req[q], x) => ~Works(req[r], x)
    /\ \A r \in Reqs : Written(req[r], x) =>
          req[r].op \notin Unsaid /\ Fits(SaidBy(req[r], x), x, mac, plan)
    /\ (\A r \in Reqs : ~Written(req[r], x)) => Fits(last[x], x, mac, plan)

LInv == \A x \in (Macs \cup Plans) \ drifted : Tracked(x)

Stable(x) == \A s : Fits(s, x, mac, plan) => Fits(s, x, mac', plan')

LEMMA WrittenWorks ==
    ASSUME NEW t, NEW x, Written(t, x)
    PROVE  Works(t, x)
  BY Zenon DEF Written, Works

LEMMA OthersWork ==
    ASSUME NEW r, Kept(r), NEW q \in Reqs, q # r, NEW x
    PROVE  /\ Works(req'[q], x) <=> Works(req[q], x)
           /\ Written(req'[q], x) <=> Written(req[q], x)
           /\ SaidBy(req'[q], x) = SaidBy(req[q], x) /\ req'[q].op = req[q].op
<1>1. /\ req'[q].op = req[q].op /\ req'[q].at = req[q].at /\ req'[q].todo = req[q].todo
      /\ req'[q].x = req[q].x
  BY DEF Kept
<1> QED BY <1>1 DEF Works, Written, SaidBy

LEMMA ContendedIs ==
    ASSUME NEW r, NEW x, ~Contended(r, x), NEW q \in Reqs, q # r
    PROVE  ~Works(req[q], x)
  BY DEF Contended, Sets, Holds, Works

\* Request r neither writes x nor tells of it.
LEMMA Passes ==
    ASSUME NEW r \in Reqs, Kept(r), NEW x, Tracked(x), Stable(x), last'[x] = last[x],
           Works(req'[r], x) => Works(req[r], x) \/ ~Contended(r, x),
           Written(req'[r], x) <=> Written(req[r], x),
           Written(req[r], x) => SaidBy(req'[r], x) = SaidBy(req[r], x) /\ req'[r].op = req[r].op
    PROVE  Tracked(x)'
<1>1. ASSUME NEW q \in Reqs, q # r
      PROVE  /\ Works(req'[q], x) <=> Works(req[q], x)
             /\ Written(req'[q], x) <=> Written(req[q], x)
             /\ SaidBy(req'[q], x) = SaidBy(req[q], x) /\ req'[q].op = req[q].op
  BY <1>1, OthersWork
<1>2. ASSUME NEW p \in Reqs, NEW q \in Reqs, p # q, Works(req'[p], x), Works(req'[q], x)
      PROVE  FALSE
  <2>1. CASE p # r /\ q # r
    BY <1>1, <1>2, <2>1 DEF Tracked
  <2>2. ASSUME NEW z \in Reqs, z # r, Works(req'[z], x), Works(req'[r], x)
        PROVE  FALSE
    <3>1. Works(req[z], x)
      BY <1>1, <2>2
    <3>2. Contended(r, x)
      BY <2>2, <3>1, ContendedIs
    <3> QED BY <2>2, <3>1, <3>2 DEF Tracked
  <2> QED BY <1>2, <2>1, <2>2
<1>3. ASSUME NEW q \in Reqs, Written(req'[q], x)
      PROVE  req'[q].op \notin Unsaid /\ Fits(SaidBy(req'[q], x), x, mac', plan')
  <2>1. Written(req[q], x) /\ SaidBy(req'[q], x) = SaidBy(req[q], x) /\ req'[q].op = req[q].op
    BY <1>1, <1>3
  <2>2. req[q].op \notin Unsaid /\ Fits(SaidBy(req[q], x), x, mac, plan)
    BY <2>1 DEF Tracked
  <2> QED BY <2>1, <2>2 DEF Stable
<1>4. ASSUME \A q \in Reqs : ~Written(req'[q], x)
      PROVE  Fits(last'[x], x, mac', plan')
  <2>1. \A q \in Reqs : ~Written(req[q], x)
    BY <1>1, <1>4
  <2> QED BY <2>1 DEF Tracked, Stable
<1> QED BY <1>2, <1>3, <1>4, Zenon DEF Tracked

\* Request r writes x, at which no other is at work.
LEMMA Writes ==
    ASSUME NEW r \in Reqs, Kept(r), NEW x, ~Contended(r, x), Written(req'[r], x),
           req'[r].op \notin Unsaid, Fits(SaidBy(req'[r], x), x, mac', plan')
    PROVE  Tracked(x)'
<1>1. ASSUME NEW q \in Reqs, q # r
      PROVE  ~Works(req'[q], x)
  BY <1>1, OthersWork, ContendedIs
<1>2. ASSUME NEW q \in Reqs, Written(req'[q], x)
      PROVE  q = r
  BY <1>1, <1>2, WrittenWorks
<1>3. \A p, q \in Reqs : p # q /\ Works(req'[p], x) => ~Works(req'[q], x)
  BY <1>1
<1>4. \A q \in Reqs : Written(req'[q], x) =>
          req'[q].op \notin Unsaid /\ Fits(SaidBy(req'[q], x), x, mac', plan')
  BY <1>2
<1> QED BY <1>3, <1>4, Zenon DEF Tracked

\* Request r tells of what it has done to x, and is at it no more.
LEMMA Tells ==
    ASSUME NEW r \in Reqs, Kept(r), NEW x, Tracked(x), mac' = mac, plan' = plan,
           Written(req[r], x), ~Works(req'[r], x), last'[x] = SaidBy(req[r], x)
    PROVE  Tracked(x)'
<1>1. ASSUME NEW q \in Reqs
      PROVE  ~Works(req'[q], x)
  <2>1. CASE q = r
    BY <2>1
  <2>2. CASE q # r
    BY <2>2, OthersWork, WrittenWorks DEF Tracked
  <2> QED BY <2>1, <2>2
<1>2. \A q \in Reqs : ~Written(req'[q], x)
  BY <1>1, WrittenWorks
<1>3. Fits(last'[x], x, mac', plan')
  BY DEF Tracked
<1> QED BY <1>1, <1>2, <1>3, Zenon DEF Tracked

TInv == AInv /\ SInv /\ LInv

LEMMA SubjectIs ==
    ASSUME NEW x \in Macs \cup Plans
    PROVE  x \in Subjects /\ x \notin Orders /\ x # None
  BY SubjectsAssumption DEF Subjects

\* A device's row as good as it was: a lapse takes no row away and makes none active.
LEMMA StableIs ==
    ASSUME NEW x \in Macs \cup Plans, plan'[x] = plan[x] \/ x \in Macs,
           x \in Macs => (mac'[x].st = mac[x].st \/ (mac[x].st # "none" /\ mac'[x].st = "expired"))
    PROVE  Stable(x)
<1>1. x \in Macs => x \notin Plans
  BY SubjectsAssumption
<1>2. SUFFICES ASSUME NEW s, Fits(s, x, mac, plan)
               PROVE  Fits(s, x, mac', plan')
  BY DEF Stable
<1>3. CASE x \in Macs
  BY <1>1, <1>2, <1>3 DEF Fits
<1>4. CASE x \notin Macs
  BY <1>2, <1>4 DEF Fits
<1> QED BY <1>3, <1>4

LEMMA RowOfAll ==
    /\ \A op \in (Grants \ Unsaid) \cup {"claim", "replace"} : RowOf(op) = "grant"
    /\ \A op \in Removals : RowOf(op) = "revoke"
    /\ RowOf("plan_save") = "save"
    /\ \A op \in {"plan_delete", "api_plan_delete"} : RowOf(op) = "gone"
  BY DEF RowOf, Grants, Removals, Unsaid

\* A task that has not written, or does not change how its subject stands.
LEMMA Unwritten ==
    ASSUME AInv, NEW r \in Reqs, NEW x
    PROVE  /\ req[r] = Idle \/ req[r].at \in {"idle", "next", "write"} => ~Written(req[r], x)
           /\ Ends(r) => ~Written(req'[r], x) /\ (x # None => ~Works(req'[r], x))
           /\ NextOne(r) => ~Written(req'[r], x)
                            /\ (x # None /\ Works(req'[r], x) => x \in req[r].todo /\ Works(req[r], x))
<1>1. ~Written(Idle, x) /\ (x # None => ~Works(Idle, x))
  BY IdleIs DEF Written, Works
<1>2. req[r].at \in {"idle", "next", "write"} => ~Written(req[r], x)
  BY DEF Written
<1>3. Ends(r) => ~Written(req'[r], x) /\ (x # None => ~Works(req'[r], x))
  BY <1>1 DEF Ends
<1>4. NextOne(r) => ~Written(req'[r], x)
                   /\ (x # None /\ Works(req'[r], x) => x \in req[r].todo /\ Works(req[r], x))
  BY DEF NextOne, Is, Written, Works
<1> QED BY <1>1, <1>2, <1>3, <1>4

\* A writer of m and of no other device.
LEMMA WriterTracks ==
    ASSUME TInv, NEW r \in Reqs, NEW m \in Macs, NEW op, NEW a \in {"reread", "remove", "row"}, NEW u,
           Wrote(r, m, op, a, u), op \in Grants \cup Removals \cup {"claim"},
           NEW st, NEW owner, NEW text, Puts(m, st, owner, text),
           op \in Removals => st # "active", op \notin Removals => st = "active",
           NEW x \in (Macs \cup Plans) \ drifted'
    PROVE  Tracked(x)'
<1>0. AInv /\ Kept(r)
  BY Zenon DEF TInv, Wrote, Moves
<1>1. /\ req'[r].op = op /\ req'[r].at = a /\ req'[r].x = m /\ req'[r].todo = req[r].todo \ {m}
      /\ last' = last /\ plan' = plan
      /\ drifted' = IF op \in Unsaid \/ Contended(r, m) THEN drifted \cup {m} ELSE drifted \ {m}
  BY Zenon DEF Wrote, Is
<1>2. op \notin Asides /\ op # "replace"
  BY DEF Grants, Removals, Asides
<1>3. x \in Macs => x \notin Plans
  BY SubjectsAssumption
<1>4. CASE x = m
  <2>1. ~Contended(r, x) /\ op \notin Unsaid
    BY <1>1, <1>4
  <2>2. Written(req'[r], x)
    BY <1>1, <1>2, <1>4 DEF Written
  <2>3. SaidBy(req'[r], x) = RowOf(op)
    BY <1>1, <1>2 DEF SaidBy
  <2>4. mac'[x].st = st
    BY <1>4 DEF Puts
  <2>5. Fits(RowOf(op), x, mac', plan')
    <3>1. CASE op \in Removals
      BY <1>3, <1>4, <2>4, <3>1, RowOfAll DEF Fits
    <3>2. CASE op \notin Removals
      BY <1>3, <1>4, <2>1, <2>4, <3>2, RowOfAll DEF Fits
    <3> QED BY <3>1, <3>2
  <2> QED BY <1>0, <1>1, <2>1, <2>2, <2>3, <2>5, Writes
<1>5. CASE x # m
  <2>1. Tracked(x)
    BY <1>1, <1>5 DEF TInv, LInv
  <2>2. Stable(x)
    BY <1>1, <1>5, StableIs DEF Puts
  <2>3. ~Written(req'[r], x)
    BY <1>1, <1>2, <1>5 DEF Written
  <2>4. ~Written(req[r], x)
    <3>1. req[r] = Idle \/ req[r].at \in {"idle", "next", "write"}
      BY Zenon DEF Wrote
    <3> QED BY <1>0, <3>1, Unwritten
  <2>5. Works(req'[r], x) => Works(req[r], x)
    <3> SUFFICES ASSUME Works(req'[r], x)
                 PROVE  Works(req[r], x)
      OBVIOUS
    <3>1. x \in req[r].todo
      BY <1>1, <1>5 DEF Works
    <3>2. req[r] # Idle /\ req[r].at # "write"
      BY <1>0, <3>1, IdleIs, RequestIs DEF Proper
    <3>3. req[r].op = op
      BY <3>2, Zenon DEF Wrote
    <3> QED BY <1>2, <3>1, <3>3 DEF Works
  <2>6. last'[x] = last[x]
    BY <1>1
  <2> QED BY <1>0, <2>1, <2>2, <2>3, <2>4, <2>5, <2>6, Passes
<1> QED BY <1>4, <1>5

LEMMA DevicesTrack ==
    ASSUME TInv, NEW r \in Reqs, OnDevice(r), NEW x \in (Macs \cup Plans) \ drifted'
    PROVE  Tracked(x)'
<1>0. AInv /\ Kept(r)
  BY AllMove DEF TInv, Moves
<1>1. ASSUME NEW m \in Macs, Extended(r, m)
      PROVE  Tracked(x)'
  <2>1. PICK u \in Accounts, text \in {Nobody, mac[m].text},
             op \in {"grant", "pay", "bulk_extend", "import", "api_import", "user_grant"} :
              /\ Wrote(r, m, op, "reread", u)
              /\ Puts(m, "active", IF u = Nobody THEN mac[m].owner ELSE u, text)
    BY <1>0, <1>1, PutsExtended
  <2>2. op \in Grants /\ op \notin Removals
    BY DEF Grants, Removals
  <2>3. PICK owner : Puts(m, "active", owner, text)
    BY <2>1
  <2> QED BY <2>1, <2>2, <2>3, WriterTracks
<1>2. ASSUME NEW m \in Macs, Deleted(r, m)
      PROVE  Tracked(x)'
  <2>1. PICK op \in {"delete", "api_revoke", "bulk_delete"} : Wrote(r, m, op, "remove", Nobody)
    BY <1>2, Zenon DEF Deleted
  <2>2. op \in Removals
    BY DEF Removals
  <2>3. Puts(m, "none", Nobody, Nobody)
    BY <1>0, <1>2, PutsDeleted
  <2> QED BY <2>1, <2>2, <2>3, WriterTracks
<1>3. ASSUME NEW m \in Macs, Revoked(r, m)
      PROVE  Tracked(x)'
  <2>1. Wrote(r, m, "revoke", "remove", Nobody) /\ "revoke" \in Removals
    BY <1>3 DEF Revoked, Removals
  <2>2. PICK st, owner, text : Puts(m, st, owner, text) /\ st # "active"
    BY <1>0, <1>3, PutsRevoked
  <2> QED BY <2>1, <2>2, WriterTracks
<1>4. ASSUME NEW m \in Macs, Claimed(r, m)
      PROVE  Tracked(x)'
  <2>1. PICK u : Wrote(r, m, "claim", "row", u)
    BY <1>4 DEF Claimed
  <2>2. PICK owner, text : Puts(m, "active", owner, text)
    BY <1>0, <1>4, PutsClaimed
  <2>3. "claim" \notin Removals
    BY DEF Removals
  <2> QED BY <2>1, <2>2, <2>3, WriterTracks
<1>5. ASSUME NEW m \in Macs, Marked(r, m)
      PROVE  Tracked(x)'
  <2>1. /\ req'[r].op = req[r].op /\ req[r].op \in Asides
        /\ UNCHANGED <<order, plan, ops, log, budget>>
    BY <1>5, Zenon DEF Marked, Steps, Is
  <2>2. ~Written(req[r], x) /\ ~Written(req'[r], x) /\ ~Works(req'[r], x)
    BY <2>1 DEF Written, Works
  <2>3. Tracked(x) /\ last'[x] = last[x]
    BY <2>1 DEF TInv, LInv, log
  <2>4. Stable(x)
    <3>1. x \in Macs => mac'[x].st = mac[x].st
      BY <1>0, <1>5, PutsMarked DEF Puts
    <3> QED BY <2>1, <3>1, StableIs
  <2> QED BY <1>0, <2>2, <2>3, <2>4, Passes
<1>6. ASSUME NEW u \in Users, NEW old \in Macs, NEW new \in Macs, Replaced(r, u, old, new)
      PROVE  Tracked(x)'
  <2>1. /\ req'[r].op = "replace" /\ req'[r].at = "add" /\ req'[r].todo = {old} /\ req'[r].x = new
        /\ req[r] = Idle /\ old # new /\ mac[old].st = "active"
        /\ drifted' = (drifted \ {old, new}) \cup {m \in {old, new} : Contended(r, m)}
        /\ last' = last /\ plan' = plan
    BY <1>6, Zenon DEF Replaced, Is
  <2>2. /\ mac'[new] = mac[old] /\ mac'[old] = NoRow
        /\ \A n \in Macs \ {old, new} : mac'[n] = mac[n]
    BY <1>0, <1>6, PutsReplaced
  <2>3. CASE x \in {old, new}
    <3>1. ~Contended(r, x)
      BY <2>1, <2>3
    <3>2. Written(req'[r], x) /\ req'[r].op \notin Unsaid
      BY <2>1, <2>3 DEF Written, Asides, Unsaid
    <3>3. x \notin Plans
      BY <2>3, SubjectsAssumption
    <3>4. Fits(SaidBy(req'[r], x), x, mac', plan')
      <4>1. CASE x = old
        BY <2>1, <2>2, <3>3, <4>1, NoRowIs DEF Fits, SaidBy
      <4>2. CASE x = new
        <5>1. SaidBy(req'[r], x) = "grant"
          BY <2>1, <4>2, RowOfAll DEF SaidBy
        <5> QED BY <2>1, <2>2, <3>3, <4>2, <5>1 DEF Fits
      <4> QED BY <2>3, <4>1, <4>2
    <3> QED BY <1>0, <3>1, <3>2, <3>4, Writes
  <2>4. CASE x \notin {old, new}
    <3>1. Tracked(x) /\ last'[x] = last[x]
      BY <2>1, <2>4 DEF TInv, LInv
    <3>2. Stable(x)
      BY <2>1, <2>2, <2>4, StableIs
    <3>3. ~Written(req'[r], x) /\ ~Works(req'[r], x)
      BY <2>1, <2>4 DEF Written, Works
    <3>4. ~Written(req[r], x)
      BY <1>0, <2>1, Unwritten
    <3> QED BY <1>0, <3>1, <3>2, <3>3, <3>4, Passes
  <2> QED BY <2>3, <2>4
<1> QED BY <1>1, <1>2, <1>3, <1>4, <1>5, <1>6, Zenon DEF OnDevice

LEMMA StartsTrack ==
    ASSUME TInv, NEW r \in Reqs, Starts(r), NEW x \in (Macs \cup Plans) \ drifted'
    PROVE  Tracked(x)'
<1>0. AInv /\ Kept(r) /\ last' = last /\ x # None /\ x \notin Orders
  BY AllMove, StartTypes, SubjectIs DEF TInv, Moves
<1>1. req[r] = Idle
  BY Zenon DEF Starts, Waits, Queued, Paid, Refunded, Cancelled, Planned, Misplanned, Misdeleted, Begun
<1>2. ~Written(req[r], x)
  BY <1>0, <1>1, Unwritten
<1>3. ASSUME x \notin drifted, ~Written(req'[r], x), plan'[x] = plan[x] \/ x \in Macs,
             mac' = mac \/ \E m \in Macs : mac[m].st # "none" /\ mac' = [mac EXCEPT ![m].st = "expired"],
             Works(req'[r], x) => ~Contended(r, x)
      PROVE  Tracked(x)'
  <2>1. Tracked(x) /\ last'[x] = last[x]
    BY <1>0, <1>3 DEF TInv, LInv
  <2>2. x \in Macs => (mac'[x].st = mac[x].st \/ (mac[x].st # "none" /\ mac'[x].st = "expired"))
    BY <1>0, <1>3, Lapses DEF Puts
  <2>3. Stable(x)
    BY <1>3, <2>2, StableIs
  <2> QED BY <1>0, <1>2, <1>3, <2>1, <2>3, Passes
<1>4. CASE Waits(r)
  <2>1. UNCHANGED tables
    BY <1>4 DEF Waits
  <2>2. /\ req'[r].at = "write" /\ req'[r].todo = {}
        /\ \/ req'[r].op \in Asides /\ drifted' = drifted
           \/ Touches(r, {req'[r].x})
    BY <1>4 DEF Waits, Is, Asides
  <2>3. x \notin drifted /\ (Works(req'[r], x) => ~Contended(r, x))
    BY <2>2 DEF Touches, Works
  <2>4. ~Written(req'[r], x)
    BY <2>2 DEF Written
  <2> QED BY <1>3, <2>1, <2>3, <2>4 DEF tables
<1>5. CASE Queued(r) \/ \E o \in Orders : Paid(r, o)
  <2>1. UNCHANGED <<mac, plan>>
    BY <1>5 DEF Queued, Paid, tables
  <2>2. PICK T : req'[r].at = "next" /\ req'[r].todo = T /\ req'[r].x = None /\ Touches(r, T)
    BY <1>5, Zenon DEF Queued, Paid, Is
  <2>3. x \notin drifted /\ (Works(req'[r], x) => ~Contended(r, x))
    BY <1>0, <2>2 DEF Touches, Works
  <2>4. ~Written(req'[r], x)
    BY <2>2 DEF Written
  <2> QED BY <1>3, <2>1, <2>3, <2>4
<1>6. CASE (\E o \in Orders : Refunded(r, o)) \/ \E S \in SUBSET Orders : Cancelled(r, S)
  <2>1. /\ drifted' = drifted /\ plan' = plan /\ req'[r].todo = {} /\ req'[r].x \in Orders \cup {None}
        /\ mac' = mac \/ \E m \in Macs : mac[m].st # "none" /\ mac' = [mac EXCEPT ![m].st = "expired"]
    BY <1>6 DEF Refunded, Cancelled, Is
  <2>2. ~Works(req'[r], x)
    BY <1>0, <2>1 DEF Works
  <2>3. ~Written(req'[r], x)
    BY <2>2, WrittenWorks
  <2> QED BY <1>3, <2>1, <2>2, <2>3
<1>7. ASSUME NEW p \in Plans, Planned(r, p)
      PROVE  Tracked(x)'
  <2>1. PICK op \in PlanOps, row \in {"none", "on", "off"} :
          /\ row = "none" <=> op # "plan_save"
          /\ Is(req'[r], op, "row", {}, p, Nobody, {}) /\ plan' = [plan EXCEPT ![p] = row]
          /\ drifted' = IF Contended(r, p) THEN drifted \cup {p} ELSE drifted \ {p}
          /\ mac' = mac
    BY <1>7, Zenon DEF Planned
  <2>2. req'[r].op = op /\ req'[r].at = "row" /\ req'[r].todo = {} /\ req'[r].x = p
    BY <2>1 DEF Is
  <2>3. CASE x = p
    <3>1. ~Contended(r, x) /\ x \notin Macs /\ plan'[x] = row
      BY <1>0, <2>1, <2>3, SubjectsAssumption, OrderIs
    <3>2. Written(req'[r], x) /\ op \notin Unsaid
      BY <2>2, <2>3 DEF Written, PlanOps, Asides, Unsaid
    <3>3. SaidBy(req'[r], x) = RowOf(op)
      BY <2>2 DEF SaidBy
    <3>4. Fits(RowOf(op), x, mac', plan')
      <4>1. CASE op = "plan_save"
        BY <2>1, <3>1, <4>1, RowOfAll DEF Fits
      <4>2. CASE op # "plan_save"
        BY <2>1, <3>1, <4>2, RowOfAll DEF Fits, PlanOps
      <4> QED BY <4>1, <4>2
    <3> QED BY <1>0, <2>2, <3>1, <3>2, <3>3, <3>4, Writes
  <2>4. CASE x # p
    <3>1. x \notin drifted /\ mac' = mac /\ ~Works(req'[r], x) /\ (x \in Plans => plan'[x] = plan[x])
      BY <1>0, <2>1, <2>2, <2>4, OrderIs DEF Works
    <3>2. ~Written(req'[r], x)
      BY <3>1, WrittenWorks
    <3> QED BY <1>3, <3>1, <3>2
  <2> QED BY <2>3, <2>4
<1>8. CASE (\E p \in Plans : Misplanned(r, p)) \/ \E m \in Macs : Misdeleted(r, m)
  <2>1. PICK y : req'[r].todo = {} /\ req'[r].x = y /\ UNCHANGED tables /\ drifted' = drifted \cup {y}
    BY <1>8, Zenon DEF Misplanned, Misdeleted, Is
  <2>2. x \notin drifted /\ ~Works(req'[r], x)
    BY <2>1 DEF Works
  <2>3. ~Written(req'[r], x)
    BY <2>2, WrittenWorks
  <2> QED BY <1>3, <2>1, <2>2, <2>3 DEF tables
<1> QED BY <1>4, <1>5, <1>6, <1>7, <1>8, Zenon DEF Starts

LEMMA GoingTracks ==
    ASSUME TInv, NEW r \in Reqs, GoesOn(r), NEW x \in (Macs \cup Plans) \ drifted'
    PROVE  Tracked(x)'
<1>0. AInv /\ Kept(r) /\ mac' = mac /\ plan' = plan /\ x # None /\ x \notin Orders /\ x \in Subjects
  BY AllMove, GoingTypes, SubjectIs DEF TInv, Moves, Calm, tables
<1>1. drifted \subseteq drifted'
  BY Zenon DEF GoesOn, Rereads, Enforced, Batched, Refused, Audited, Cut, Omitted, log
<1>2. Tracked(x) /\ Stable(x)
  BY <1>0, <1>1, StableIs DEF TInv, LInv
<1>3. Proper(req[r]) /\ Shaped(req[r])
  BY <1>0, RequestIs DEF TInv, SInv
<1>4. ASSUME ~Written(req[r], x), last'[x] = last[x],
             ~Written(req'[r], x), Works(req'[r], x) => Works(req[r], x)
      PROVE  Tracked(x)'
  BY <1>0, <1>2, <1>4, Passes
<1>5. ASSUME ~Written(req[r], x), last'[x] = last[x], Ends(r) \/ NextOne(r)
      PROVE  Tracked(x)'
  BY <1>0, <1>4, <1>5, Unwritten
<1>6. ASSUME last'[x] = last[x], NEW a \in {"add", "row"}, Steps(r, a),
             req[r].at \in {"reread", "add", "remove"}
      PROVE  Tracked(x)'
  <2>1. /\ req'[r].op = req[r].op /\ req'[r].at = a /\ req'[r].todo = req[r].todo
        /\ req'[r].x = req[r].x
    BY <1>6 DEF Steps, Is
  <2>2. /\ Works(req'[r], x) <=> Works(req[r], x)
        /\ Written(req'[r], x) <=> Written(req[r], x)
        /\ SaidBy(req'[r], x) = SaidBy(req[r], x)
    BY <1>6, <2>1 DEF Works, Written, SaidBy
  <2> QED BY <1>0, <1>2, <1>6, <2>1, <2>2, Passes
<1>7. CASE Rereads(r)
  <2>1. last'[x] = last[x] /\ req[r].at = "reread"
    BY <1>7 DEF Rereads, log
  <2>2. CASE Steps(r, "add")
    BY <1>6, <2>1, <2>2
  <2>3. CASE Ends(r) /\ mac[req[r].x].st = "none"
    <3>1. ~Written(req[r], x)
      <4> SUFFICES ASSUME Written(req[r], x)
                   PROVE  FALSE
        OBVIOUS
      <4>1. req[r].op \in Grants /\ x = req[r].x
        BY <1>3, <2>1 DEF Shaped, Written, Grants
      <4>2. req[r].op \notin Unsaid /\ Fits(SaidBy(req[r], x), x, mac, plan)
        BY <1>2 DEF Tracked
      <4>3. SaidBy(req[r], x) = "grant"
        BY <4>1, <4>2, RowOfAll DEF SaidBy, Grants
      <4>4. x \in Macs
        BY <1>3, <2>1, <4>1 DEF Proper
      <4> QED BY <2>3, <4>1, <4>2, <4>3, <4>4 DEF Fits
    <3> QED BY <1>5, <2>1, <2>3, <3>1
  <2> QED BY <1>7, <2>2, <2>3, Zenon DEF Rereads
<1>8. CASE Enforced(r)
  <2>1. last'[x] = last[x] /\ req[r].at \in {"add", "remove"}
    BY <1>8 DEF Enforced, log
  <2>2. CASE Steps(r, "row")
    BY <1>6, <2>1, <2>2
  <2>3. CASE req[r].op \in Unsaid /\ (Ends(r) \/ NextOne(r))
    <3>1. ~Written(req[r], x)
      BY <1>2, <2>3 DEF Tracked
    <3> QED BY <1>5, <2>1, <2>3, <3>1
  <2> QED BY <1>8, <2>2, <2>3, Zenon DEF Enforced
<1>9. CASE Batched(r)
  <2>1. last'[x] = last[x] /\ req[r].at = "next" /\ Ends(r)
    BY <1>9 DEF Batched, log
  <2> QED BY <1>0, <1>5, <2>1, Unwritten
<1>10. ASSUME NEW m \in Macs, Omitted(r, m)
       PROVE  Tracked(x)'
  <2>1. /\ last'[x] = last[x] /\ req[r].at = "next" /\ req'[r].at = "next" /\ req'[r].x = None
        /\ req'[r].op = req[r].op /\ req'[r].todo = req[r].todo \ {m}
    BY <1>10 DEF Omitted, log, Is
  <2>2. ~Written(req'[r], x) /\ ~Written(req[r], x) /\ (Works(req'[r], x) => Works(req[r], x))
    BY <1>0, <2>1 DEF Written, Works
  <2> QED BY <1>4, <2>1, <2>2
<1>11. CASE Refused(r)
  <2>1. last'[x] = last[x] /\ req[r].at \in {"add", "remove"}
    BY <1>11 DEF Refused
  <2>2. CASE Steps(r, "row")
    BY <1>6, <2>1, <2>2
  <2>3. CASE (Ends(r) \/ NextOne(r)) /\ drifted' = drifted \cup {m \in Macs : m = req[r].x
                                        \/ (req[r].op = "replace" /\ m \in req[r].todo)}
    <3>1. ~Written(req[r], x)
      <4> SUFFICES ASSUME Written(req[r], x)
                   PROVE  FALSE
        OBVIOUS
      <4>1. x = req[r].x \/ (req[r].op = "replace" /\ x \in req[r].todo)
        BY DEF Written
      <4>2. req[r].x \in Macs /\ req[r].todo \subseteq Macs
        BY <1>0, <1>3, <2>1, RequestIs DEF Proper
      <4> QED BY <2>3, <4>1, <4>2
    <3> QED BY <1>5, <2>1, <2>3, <3>1
  <2> QED BY <1>11, <2>2, <2>3, Zenon DEF Refused
<1>12. CASE Audited(r)
  <2>1. /\ req[r].at = "row" /\ (Ends(r) \/ NextOne(r))
        /\ last' = IF req[r].op \in Asides \cup {"cancel_stale"} THEN last
                   ELSE [y \in Subjects |-> IF y = req[r].x THEN RowOf(req[r].op)
                                            ELSE IF y \in req[r].todo /\ req[r].op = "replace"
                                                 THEN "moved" ELSE last[y]]
    BY <1>12, Zenon DEF Audited, Releases
  <2>2. CASE ~Written(req[r], x)
    <3>1. req[r].op \in Asides \/ ~(x = req[r].x \/ (req[r].op = "replace" /\ x \in req[r].todo))
      BY <2>1, <2>2 DEF Written
    <3>2. last'[x] = last[x]
      BY <1>0, <2>1, <3>1
    <3> QED BY <1>5, <2>1, <2>2, <3>2
  <2>3. CASE Written(req[r], x)
    <3>1. /\ req[r].op \notin Asides
          /\ x = req[r].x \/ (req[r].op = "replace" /\ x \in req[r].todo)
      BY <2>3 DEF Written
    <3>2. req[r].op # "cancel_stale"
      BY <1>0, <1>3, <3>1 DEF Shaped
    <3>3. last'[x] = SaidBy(req[r], x)
      <4>1. CASE x = req[r].x
        <5>1. x \notin req[r].todo
          BY <1>3, <4>1 DEF Proper
        <5> QED BY <1>0, <2>1, <3>1, <3>2, <4>1, <5>1 DEF SaidBy
      <4>2. CASE x # req[r].x
        BY <1>0, <2>1, <3>1, <3>2, <4>2 DEF SaidBy
      <4> QED BY <4>1, <4>2
    <3>4. ~Works(req'[r], x)
      <4>1. CASE Ends(r)
        BY <1>0, <4>1, Unwritten
      <4>2. CASE NextOne(r)
        <5>1. req[r].op # "replace"
          BY <4>2 DEF NextOne, Batches
        <5>2. x \notin req[r].todo
          BY <1>3, <3>1, <5>1 DEF Proper
        <5> QED BY <1>0, <4>2, <5>2, Unwritten
      <4> QED BY <2>1, <4>1, <4>2
    <3> QED BY <1>0, <1>2, <2>3, <3>3, <3>4, Tells
  <2> QED BY <2>2, <2>3
<1>13. CASE Cut(r)
  <2>1. /\ last' = last /\ (Ends(r) \/ NextOne(r))
        /\ drifted' = drifted \cup (Pending(r) \ Orders)
    BY <1>13, Zenon DEF Cut, Releases
  <2>2. x \notin Pending(r)
    BY <1>0, <2>1
  <2>3. ~Written(req[r], x)
    BY <1>0, <2>2 DEF Pending, Written
  <2> QED BY <1>5, <2>1, <2>3
<1> QED BY <1>7, <1>8, <1>9, <1>10, <1>11, <1>12, <1>13, Zenon DEF GoesOn

LEMMA TrailSteps ==
    ASSUME TInv, [Next]_vars
    PROVE  TInv'
<1>0. AInv' /\ SInv' /\ AInv
  BY ATypes, ShapedSteps DEF TInv
<1>1. CASE \E r \in Reqs : OnDevice(r) \/ Starts(r) \/ GoesOn(r)
  <2>1. PICK r \in Reqs : OnDevice(r) \/ Starts(r) \/ GoesOn(r)
    BY <1>1
  <2>2. ASSUME NEW x \in (Macs \cup Plans) \ drifted'
        PROVE  Tracked(x)'
    BY <2>1, <2>2, DevicesTrack, StartsTrack, GoingTracks
  <2> QED BY <1>0, <2>2 DEF TInv, LInv
<1>2. CASE Noted \/ Expired \/ UNCHANGED vars
  <2>1. ASSUME NEW x \in (Macs \cup Plans) \ drifted'
        PROVE  x \notin drifted /\ last'[x] = last[x] /\ Stable(x) /\ req' = req
    <3>1. CASE Noted
      <4>1. PICK y \in Subjects :
             /\ drifted' = drifted \cup {y}
             /\ \A z \in Subjects \ {y} : last'[z] = last[z]
             /\ UNCHANGED <<tables, req, ops, told, budget>>
        BY <1>0, <3>1, NotedIs
      <4>2. mac' = mac /\ plan' = plan /\ req' = req
        BY <4>1 DEF tables
      <4>3. x \in Subjects /\ x # y /\ x \notin drifted
        BY <2>1, <4>1, SubjectIs
      <4> QED BY <4>1, <4>2, <4>3, StableIs
    <3>2. CASE Expired
      <4>1. PICK m \in Macs : mac[m].st = "active" /\ mac' = [mac EXCEPT ![m].st = "expired"]
        BY <3>2 DEF Expired
      <4>2. plan' = plan /\ last' = last /\ drifted' = drifted /\ req' = req
        BY <3>2 DEF Expired, log
      <4>3. x \in Macs => (mac'[x].st = mac[x].st \/ (mac[x].st # "none" /\ mac'[x].st = "expired"))
        BY <1>0, <4>1, Lapses DEF Puts
      <4> QED BY <4>2, <4>3, StableIs
    <3>3. CASE UNCHANGED vars
      BY <3>3, StableIs DEF vars, tables, log
    <3> QED BY <1>2, <3>1, <3>2, <3>3
  <2>2. ASSUME NEW x \in (Macs \cup Plans) \ drifted'
        PROVE  Tracked(x)'
    <3>1. Tracked(x) /\ last'[x] = last[x] /\ Stable(x) /\ req' = req
      BY <2>1, <2>2 DEF TInv, LInv
    <3>2. \A q, r \in Reqs : q # r /\ Works(req'[q], x) => ~Works(req'[r], x)
      BY <3>1 DEF Tracked
    <3>3. \A r \in Reqs : Written(req'[r], x) =>
             req'[r].op \notin Unsaid /\ Fits(SaidBy(req'[r], x), x, mac', plan')
      BY <3>1 DEF Tracked, Stable
    <3>4. (\A r \in Reqs : ~Written(req'[r], x)) => Fits(last'[x], x, mac', plan')
      BY <3>1 DEF Tracked, Stable
    <3> QED BY <3>2, <3>3, <3>4, Zenon DEF Tracked
  <2> QED BY <1>0, <2>2 DEF TInv, LInv
<1> QED BY <1>0, <1>1, <1>2, StepIs

(***************************************************************************)
(* The newest row about a device or a plan is true of it when no request   *)
(* is at work on it, for any number of them and whatever overlaps          *)
(* elsewhere: each handler changes the row first and calls DB.Audit last,  *)
(* and only what overlaps or is cut short on that very device or plan can  *)
(* make the log wrong about it.                                            *)
(***************************************************************************)
THEOREM TrailTrue == Spec => []TrailAgrees
<1>1. Init => TInv
  <2> SUFFICES ASSUME Init
               PROVE  TInv
    OBVIOUS
  <2>1. \A r \in Reqs : req[r] = Idle
    BY DEF Init
  <2>2. SInv
    BY <2>1, IdleIs DEF SInv, Shaped
  <2>3. ASSUME NEW x \in Macs \cup Plans
        PROVE  Tracked(x)
    <3>1. \A r \in Reqs : ~Works(req[r], x) /\ ~Written(req[r], x)
      BY <2>1, IdleIs, SubjectIs DEF Works, Written
    <3>2. last[x] = "nothing"
      BY SubjectIs DEF Init
    <3>3. Fits(last[x], x, mac, plan)
      BY <3>2 DEF Fits
    <3> QED BY <3>1, <3>3 DEF Tracked
  <2> QED BY <2>2, <2>3, AStart DEF TInv, LInv
<1>2. TInv /\ [Next]_vars => TInv'
  BY TrailSteps
<1>3. TInv => TrailAgrees
  <2> SUFFICES ASSUME TInv, NEW x \in (Macs \cup Plans) \ drifted, \A r \in Reqs : ~Sets(r, x)
               PROVE  Agrees(x)
    BY DEF TrailAgrees
  <2>1. \A r \in Reqs : ~Written(req[r], x)
    BY WrittenWorks DEF Sets, Holds, Works
  <2>2. Fits(last[x], x, mac, plan)
    BY <2>1 DEF TInv, LInv, Tracked
  <2> QED BY <2>2, Zenon DEF Fits, Agrees
<1> QED BY <1>1, <1>2, <1>3, PTL DEF Spec
=============================================================================
