------------------------------- MODULE Admin -------------------------------
(***************************************************************************)
(* What administrators, partners' scripts and users do to devices, orders  *)
(* and plans, and what the audit log says about it (internal/server:       *)
(* admin.go, admin_extra.go, admin_plans.go, api_admin.go, user.go).       *)
(*                                                                         *)
(* A handler reads, changes one row by a statement or transaction, calls   *)
(* the firewall and then writes its audit row; a batch does so for each of *)
(* its devices.  Nothing spans the change and the row, so requests come    *)
(* between, and the row can be missing.  Module MACService tells what the  *)
(* firewall makes of it all; here a firewall call only succeeds or fails.  *)
(***************************************************************************)
EXTENDS Integers

CONSTANTS
    Reqs,       \* requests that may be under way at once
    Macs,       \* device addresses
    Users,      \* accounts
    Nobody,     \* no account: an administrator, or a device without an owner
    Orders,     \* orders, all pending at first
    Device,     \* the device each order is for
    Buyer,      \* the account each order was placed from, or Nobody
    Plans,      \* keys of the plans table
    None,       \* no subject
    Mixes,      \* sets of operations, one of which is asked for
    Faults,     \* what may go wrong
    MaxFaults   \* and how often

FaultKinds == {"abort",  \* the client goes away: the rest of its request fails
               "fw",     \* a firewall command fails
               "db"}     \* a statement fails

ASSUME FaultsAssumption ==
    /\ Faults \subseteq FaultKinds /\ MaxFaults \in Nat

ASSUME SubjectsAssumption ==
    /\ Nobody \notin Users
    /\ Device \in [Orders -> Macs] /\ Buyer \in [Orders -> Users \cup {Nobody}]
    /\ None \notin Macs \cup Orders \cup Plans
    /\ Macs \cap Orders = {} /\ Macs \cap Plans = {} /\ Orders \cap Plans = {}

VARIABLES
    mac,      \* the macs table: status, owner, and who wrote the label or notes
    order,    \* the status of each order
    plan,     \* the plans table: no row, or a row that is on or off
    req,      \* requests under way
    ops,      \* the operations that may be asked for
    last,     \* the newest audit row that tells how a subject stands
    told,     \* cancelled orders that audit rows tell of, by name or by count
    drifted,  \* history: subjects whose newest row may be wrong
    budget    \* faults still to come

tables == <<mac, order, plan>>
log == <<last, told, drifted>>
vars == <<tables, req, ops, log, budget>>

Subjects == Macs \cup Orders \cup Plans
Accounts == Users \cup {Nobody}

MacRow == [st : {"none", "active", "expired", "blocked"}, owner : Accounts, text : Accounts]
NoRow == [st |-> "none", owner |-> Nobody, text |-> Nobody]
Said == {"nothing", "grant", "revoke", "moved", "canceled", "refunded", "save", "gone"}

(* next: a batch picks its next device.  write: the row has been read, the *)
(* statement is to come.  reread: UpsertMAC has committed, its closing     *)
(* GetMAC is to come.  add, remove: the firewall call.  row: the audit row. *)
Phases == {"idle", "next", "write", "reread", "add", "remove", "row"}

Ops == {"grant", "bulk_extend", "import", "api_import", "user_grant", "pay",
        "delete", "api_revoke", "bulk_delete", "revoke", "replace", "claim",
        "label", "note", "refund", "cancel", "cancel_stale",
        "plan_save", "plan_delete", "api_plan_delete", "audit_note"}

Removals == {"delete", "api_revoke", "bulk_delete", "revoke"}
Unsaid == {"bulk_extend", "bulk_delete", "import"}   \* no audit row per device
Asides == {"label", "note"}                          \* do not change how it stands

(* stale: the devices of the request that another request has changed      *)
(* since this one read them; took: the orders it has cancelled.            *)
Request == [op : Ops \cup {"none"}, at : Phases, todo : SUBSET Macs, x : Subjects \cup {None},
            uid : Accounts, stale : SUBSET Macs, took : SUBSET Orders]

Task(op, at, uid) == [op |-> op, at |-> at, todo |-> {}, x |-> None, uid |-> uid,
                      stale |-> {}, took |-> {}]
Idle == Task("none", "idle", Nobody)

Asked(r, op) == op \in ops /\ req[r] = Idle
At(r, phase) == req[r].at = phase
Holds(r, x) == x = req[r].x \/ x \in req[r].todo
Sets(r, x) == Holds(r, x) /\ req[r].op \notin Asides
Contended(r, x) == \E q \in Reqs \ {r} : Sets(q, x)
Fault(kind) == kind \in Faults /\ budget > 0 /\ budget' = budget - 1
-----------------------------------------------------------------------------
Init ==
    /\ mac = [m \in Macs |-> NoRow]
    /\ order = [o \in Orders |-> "pending"]
    /\ plan = [p \in Plans |-> "none"]
    /\ req = [r \in Reqs |-> Idle]
    /\ ops \in Mixes
    /\ last = [x \in Subjects |-> "nothing"]
    /\ told = {}
    /\ drifted = {}
    /\ budget = MaxFaults

\* Request r goes on as t and starts to touch the devices of S.
Begin(r, t, S) ==
    /\ req' = [req EXCEPT ![r] = t]
    /\ drifted' = drifted \cup {x \in S : Contended(r, x)}

\* Request r, going on as t, changes the devices of S.
Changes(r, t, S) ==
    req' = [q \in Reqs |-> IF q = r THEN t ELSE
               [req[q] EXCEPT !.stale = @ \cup {m \in S : Holds(q, m)}]]

\* A change whose row is to come: it sets right what an earlier one left wrong.
Settles(r, op, x) ==
    drifted' = IF op \in Unsaid \/ Contended(r, x) THEN drifted \cup {x} ELSE drifted \ {x}

Commit(r, t, m) == Changes(r, t, {m}) /\ Settles(r, t.op, m)

\* UpsertMAC: a new row has the owner given; an old one keeps its own if none is.
UpsertMAC(row, uid, label) ==
    [st |-> "active", owner |-> IF uid = Nobody THEN row.owner ELSE uid,
     text |-> IF label THEN Nobody ELSE row.text]

(* Labelled: all but handleAdminMACExtend, the bulk extend and a claim. *)
Extend(r, t, m, label) ==
    /\ mac' = [mac EXCEPT ![m] = UpsertMAC(@, t.uid, label)]
    /\ Commit(r, [t EXCEPT !.at = "reread", !.x = m, !.todo = @ \ {m}], m)
    /\ UNCHANGED <<order, plan, ops, last, told, budget>>

DeleteMAC(r, t, m) ==
    /\ mac' = [mac EXCEPT ![m] = NoRow]
    /\ Commit(r, [t EXCEPT !.at = "remove", !.x = m, !.todo = @ \ {m}], m)
    /\ UNCHANGED <<order, plan, ops, last, told, budget>>
-----------------------------------------------------------------------------
(* Requests for one device.                                                *)

MACAdd(r, m) == Asked(r, "grant") /\ Extend(r, Task("grant", "next", Nobody), m, TRUE)
MACExtend(r, m) == Asked(r, "grant") /\ Extend(r, Task("grant", "next", Nobody), m, FALSE)
APIMACGrant(r, m) == MACAdd(r, m)

MACDelete(r, m) == Asked(r, "delete") /\ DeleteMAC(r, Task("delete", "next", Nobody), m)

\* The API calls revoke what the pages call delete.
APIMACRevoke(r, m) ==
    Asked(r, "api_revoke") /\ DeleteMAC(r, Task("api_revoke", "next", Nobody), m)

\* handleAdminMACDelete goes on when the statement fails: the row is written.
MACDeleteFails(r, m) ==
    /\ Asked(r, "delete") /\ Fault("db")
    /\ req' = [req EXCEPT ![r] = [Task("delete", "row", Nobody) EXCEPT !.x = m]]
    /\ drifted' = drifted \cup {m}
    /\ UNCHANGED <<tables, ops, last, told>>

\* SetMACStatus blocked; of a device without a row it changes nothing.
MACRevoke(r, m) ==
    /\ Asked(r, "revoke")
    /\ mac' = [mac EXCEPT ![m].st = IF @ = "none" THEN @ ELSE "blocked"]
    /\ Commit(r, [Task("revoke", "remove", Nobody) EXCEPT !.x = m], m)
    /\ UNCHANGED <<order, plan, ops, last, told, budget>>

\* ReplaceMAC: one transaction, so that all it checks still holds.
Replace(r, u, old, new) ==
    /\ Asked(r, "replace")
    /\ mac[old].st = "active" /\ mac[old].owner = u /\ mac[new].st = "none"
    /\ mac' = [mac EXCEPT ![old] = NoRow, ![new] = mac[old]]
    /\ Changes(r, [Task("replace", "add", u) EXCEPT !.x = new, !.todo = {old}], {old, new})
    /\ drifted' = (drifted \ {old, new}) \cup {m \in {old, new} : Contended(r, m)}
    /\ UNCHANGED <<order, plan, ops, last, told, budget>>

\* Mutant: the owner of the row is not looked at.
ClaimAnyones(r, u, m) ==
    /\ Asked(r, "claim")
    /\ mac[m].st = "active"
    /\ Begin(r, [Task("claim", "write", u) EXCEPT !.x = m], {m})
    /\ UNCHANGED <<tables, ops, last, told, budget>>

Claim(r, u, m) ==
    /\ Asked(r, "claim")
    /\ mac[m].st = "active" /\ mac[m].owner \in {u, Nobody}
    /\ Begin(r, [Task("claim", "write", u) EXCEPT !.x = m], {m})
    /\ UNCHANGED <<tables, ops, last, told, budget>>

ClaimWrite(r) ==
    LET m == req[r].x IN
    /\ At(r, "write") /\ req[r].op = "claim"
    /\ mac' = [mac EXCEPT ![m] = UpsertMAC(@, req[r].uid, FALSE)]
    /\ Commit(r, [req[r] EXCEPT !.at = "row"], m)
    /\ UNCHANGED <<order, plan, ops, last, told, budget>>

Aside(r, op, u, m) ==
    /\ Asked(r, op)
    /\ Begin(r, [Task(op, "write", u) EXCEPT !.x = m], {})
    /\ UNCHANGED <<tables, ops, last, told, budget>>

Label(r, u, m) == mac[m].st # "none" /\ mac[m].owner = u /\ Aside(r, "label", u, m)
APIMACLabel(r, m) == mac[m].st # "none" /\ Aside(r, "note", Nobody, m)
APIMACNotes(r, m) == APIMACLabel(r, m)

\* handleAdminMACNotes does not ask whether there is a row.
MACNotes(r, m) == Aside(r, "note", Nobody, m)

\* SetMACLabel, SetMACNotes.
AsideWrite(r) ==
    LET m == req[r].x IN
    /\ At(r, "write") /\ req[r].op \in Asides
    /\ mac' = [mac EXCEPT ![m].text = IF mac[m].st = "none" THEN @ ELSE req[r].uid]
    /\ Changes(r, [req[r] EXCEPT !.at = "row"], {m})
    /\ UNCHANGED <<order, plan, ops, log, budget>>
-----------------------------------------------------------------------------
(* Batches.                                                                *)

Batch(r, op, u, S) ==
    /\ Asked(r, op) /\ S # {}
    /\ Begin(r, [Task(op, "next", u) EXCEPT !.todo = S], S)
    /\ UNCHANGED <<tables, ops, last, told, budget>>

MACBulk(r, S) == \E op \in {"bulk_extend", "bulk_delete"} : Batch(r, op, Nobody, S)
MACImport(r, S) == Batch(r, "import", Nobody, S)
APIMACImport(r, S) == Batch(r, "api_import", Nobody, S)

ListMACsForUser(u) == {m \in Macs : mac[m].st # "none" /\ mac[m].owner = u}

\* Without devices it only writes its summary.
UserGrant(r, u) == Batch(r, "user_grant", u, ListMACsForUser(u))
UserGrantByPhone(r, u) == UserGrant(r, u)

Next1(r, m) ==
    /\ At(r, "next") /\ m \in req[r].todo
    /\ IF req[r].op = "bulk_delete" THEN DeleteMAC(r, req[r], m)
       ELSE Extend(r, req[r], m, req[r].op # "bulk_extend")

\* The statement fails: the device is counted as failed.
Next1Fails(r, m) ==
    /\ At(r, "next") /\ m \in req[r].todo /\ Fault("db")
    /\ req' = [req EXCEPT ![r].todo = @ \ {m}]
    /\ UNCHANGED <<tables, ops, log>>

\* The summary row names no device.
BatchEnds(r) ==
    /\ At(r, "next") /\ req[r].todo = {}
    /\ req' = [req EXCEPT ![r] = Idle]
    /\ UNCHANGED <<tables, ops, log, budget>>
-----------------------------------------------------------------------------
(* From the change to the row.                                             *)

Batches == {"bulk_extend", "bulk_delete", "import", "api_import", "user_grant"}

\* What follows a device: the next one of a batch, or the end of the request.
Onward(r) == IF req[r].op \in Batches
             THEN [req[r] EXCEPT !.at = "next", !.x = None] ELSE Idle

Told(r) == IF req[r].op \in Unsaid THEN Onward(r) ELSE [req[r] EXCEPT !.at = "row"]

Gives(r, t) == req' = [req EXCEPT ![r] = t]

\* A device deleted meanwhile is a nil pointer to the caller, which net/http
\* recovers: the rest of the request is lost.
Reread(r) ==
    /\ At(r, "reread")
    /\ Gives(r, IF mac[req[r].x].st = "none" THEN Idle ELSE [req[r] EXCEPT !.at = "add"])
    /\ UNCHANGED <<tables, ops, log, budget>>

FwAdd(r) ==
    /\ At(r, "add") /\ Gives(r, Told(r))
    /\ UNCHANGED <<tables, ops, log, budget>>

FwRemove(r) ==
    /\ At(r, "remove") /\ Gives(r, Told(r))
    /\ UNCHANGED <<tables, ops, log, budget>>

\* The error goes to the caller, who writes no row, except of a deletion by page.
FwFails(r) ==
    /\ req[r].at \in {"add", "remove"} /\ Fault("fw")
    /\ Gives(r, IF req[r].op = "delete" THEN Told(r) ELSE Onward(r))
    /\ drifted' = IF req[r].op = "delete" THEN drifted
                  ELSE drifted \cup {m \in Macs : m = req[r].x
                                        \/ (req[r].op = "replace" /\ m \in req[r].todo)}
    /\ UNCHANGED <<tables, ops, last, told>>

RowOf(op) ==
    CASE op \in {"grant", "api_import", "user_grant", "pay", "claim", "replace"} -> "grant"
      [] op \in Removals -> "revoke"
      [] op \in {"cancel", "cancel_stale"} -> "canceled"
      [] op = "refund" -> "refunded"
      [] op = "plan_save" -> "save"
      [] op \in {"plan_delete", "api_plan_delete"} -> "gone"

\* Mutant: the extension of a device by a batch leaves no row.
AuditSingles(r) ==
    /\ At(r, "row")
    /\ last' = IF req[r].op \in Asides \cup {"cancel_stale", "user_grant"} THEN last
               ELSE [x \in Subjects |-> IF x = req[r].x THEN RowOf(req[r].op)
                                        ELSE IF x \in req[r].todo /\ req[r].op = "replace"
                                             THEN "moved" ELSE last[x]]
    /\ told' = told \cup req[r].took
    /\ Gives(r, Onward(r))
    /\ UNCHANGED <<tables, ops, drifted, budget>>

\* Audit.  The row of a replacement names both devices.
Audit(r) ==
    /\ At(r, "row")
    /\ last' = IF req[r].op \in Asides \cup {"cancel_stale"} THEN last
               ELSE [x \in Subjects |-> IF x = req[r].x THEN RowOf(req[r].op)
                                        ELSE IF x \in req[r].todo /\ req[r].op = "replace"
                                             THEN "moved" ELSE last[x]]
    /\ told' = told \cup req[r].took
    /\ Gives(r, Onward(r))
    /\ UNCHANGED <<tables, ops, drifted, budget>>

\* What request r has changed, or is about to say, without a row so far.
Pending(r) == IF req[r].at \in {"idle", "next", "write"} \/ req[r].op \in Asides THEN {}
              ELSE {x \in Subjects : x = req[r].x \/ (req[r].op = "replace" /\ x \in req[r].todo)}

\* Audit ignores the error of its insert.
AuditFails(r) ==
    /\ At(r, "row") /\ Fault("db")
    /\ drifted' = drifted \cup (Pending(r) \ Orders)
    /\ Gives(r, Onward(r))
    /\ UNCHANGED <<tables, ops, last, told>>

\* Every statement and command left has the context of the request.
Abort(r) ==
    /\ req[r] # Idle /\ Fault("abort")
    /\ drifted' = drifted \cup (Pending(r) \ Orders)
    /\ Gives(r, Idle)
    /\ UNCHANGED <<tables, ops, last, told>>
-----------------------------------------------------------------------------
(* Orders and plans.                                                       *)

\* finalizeOrder, under pollMu: MarkOrderPaid, then GrantFromOrder.
Pay(r, o) ==
    /\ Asked(r, "pay") /\ order[o] = "pending"
    /\ \A q \in Reqs : req[q].op # "pay"
    /\ order' = [order EXCEPT ![o] = "paid"]
    /\ Begin(r, [Task("pay", "next", Buyer[o]) EXCEPT !.todo = {Device[o]}], {Device[o]})
    /\ UNCHANGED <<mac, plan, ops, last, told, budget>>

Says(op, x, S) == [Task(op, "row", Nobody) EXCEPT !.x = x, !.took = S]

\* Mutant: the device gets a status the schema does not know.
OrderRefundUnknown(r, o) ==
    LET m == Device[o] IN
    /\ Asked(r, "refund") /\ order[o] = "paid"
    /\ order' = [order EXCEPT ![o] = "refunded"]
    /\ mac' = [mac EXCEPT ![m].st = "refunded"]
    /\ Gives(r, Says("refund", o, {}))
    /\ UNCHANGED <<plan, ops, log, budget>>

\* MarkOrderRefunded: the days go back; the device expires if none are left.
OrderRefund(r, o) ==
    LET m == Device[o] IN
    /\ Asked(r, "refund") /\ order[o] = "paid"
    /\ order' = [order EXCEPT ![o] = "refunded"]
    /\ mac' = mac \/ (mac[m].st # "none" /\ mac' = [mac EXCEPT ![m].st = "expired"])
    /\ Gives(r, Says("refund", o, {}))
    /\ UNCHANGED <<plan, ops, log, budget>>

APIOrderRefund(r, o) == OrderRefund(r, o)

\* Mutant: the status is not asked.
OrderCancelAny(r, o) ==
    /\ Asked(r, "cancel")
    /\ order' = [order EXCEPT ![o] = "failed"]
    /\ Gives(r, Says("cancel", o, {o}))
    /\ UNCHANGED <<mac, plan, ops, log, budget>>

\* CancelPendingOrder.
OrderCancel(r, o) ==
    /\ Asked(r, "cancel") /\ order[o] = "pending"
    /\ order' = [order EXCEPT ![o] = "failed"]
    /\ Gives(r, Says("cancel", o, {o}))
    /\ UNCHANGED <<mac, plan, ops, log, budget>>

APIOrderCancel(r, o) == OrderCancel(r, o)

\* Mutant: the UPDATE also counts what had failed before.
CancelStaleAgain(r) ==
    /\ Asked(r, "cancel_stale")
    /\ \E S \in SUBSET {o \in Orders : order[o] \in {"pending", "failed"}} :
          /\ order' = [o \in Orders |-> IF o \in S THEN "failed" ELSE order[o]]
          /\ Gives(r, Says("cancel_stale", None, S))
    /\ UNCHANGED <<mac, plan, ops, log, budget>>

\* CancelStalePendingOrders: one UPDATE, which counts the rows it has changed.
CancelStale(r) ==
    /\ Asked(r, "cancel_stale")
    /\ \E S \in SUBSET {o \in Orders : order[o] = "pending"} :
          /\ order' = [o \in Orders |-> IF o \in S THEN "failed" ELSE order[o]]
          /\ Gives(r, Says("cancel_stale", None, S))
    /\ UNCHANGED <<mac, plan, ops, log, budget>>

APIOrderCancelStale(r) == CancelStale(r)

PlanWrite(r, op, p, row) ==
    /\ Asked(r, op)
    /\ plan' = [plan EXCEPT ![p] = row]
    /\ Gives(r, Says(op, p, {})) /\ Settles(r, op, p)
    /\ UNCHANGED <<mac, order, ops, last, told, budget>>

PlanSave(r, p) == \E row \in {"on", "off"} : PlanWrite(r, "plan_save", p, row)
APIPlanSave(r, p) == PlanSave(r, p)
PlanDelete(r, p) == PlanWrite(r, "plan_delete", p, "none")
APIPlanDelete(r, p) == PlanWrite(r, "api_plan_delete", p, "none")

\* handleAdminPlanDelete writes its row all the same.
PlanDeleteFails(r, p) ==
    /\ Asked(r, "plan_delete") /\ Fault("db")
    /\ Gives(r, Says("plan_delete", p, {}))
    /\ drifted' = drifted \cup {p}
    /\ UNCHANGED <<tables, ops, last, told>>

RowsAbout(x) == IF x \in Macs THEN {"grant", "revoke"}
                ELSE IF x \in Orders THEN {"canceled", "refunded"} ELSE {"save", "gone"}

\* The caller names the action and the subject of a note; planKeyOK looks at
\* the form of the action only.
APIAuditNote ==
    /\ "audit_note" \in ops
    /\ \E x \in Subjects :
          /\ \E said \in RowsAbout(x) : last' = [last EXCEPT ![x] = said]
          /\ drifted' = drifted \cup {x}
    /\ UNCHANGED <<tables, req, ops, told, budget>>

\* ExpireDueMACs; its rows in the log name no device.
ExpireDueMACs(m) ==
    /\ mac[m].st = "active"
    /\ mac' = [mac EXCEPT ![m].st = "expired"]
    /\ UNCHANGED <<order, plan, req, ops, log, budget>>
-----------------------------------------------------------------------------
OneDevice(r) == \E m \in Macs :
    \/ MACAdd(r, m) \/ MACExtend(r, m) \/ APIMACGrant(r, m)
    \/ MACDelete(r, m) \/ APIMACRevoke(r, m) \/ MACDeleteFails(r, m) \/ MACRevoke(r, m)
    \/ APIMACLabel(r, m) \/ APIMACNotes(r, m) \/ MACNotes(r, m)
    \/ \E u \in Users : Claim(r, u, m) \/ Label(r, u, m)
    \/ \E u \in Users, new \in Macs \ {m} : Replace(r, u, m, new)

ManyDevices(r) ==
    \/ \E S \in SUBSET Macs : MACBulk(r, S) \/ MACImport(r, S) \/ APIMACImport(r, S)
    \/ \E u \in Users : UserGrant(r, u) \/ UserGrantByPhone(r, u)
    \/ \E m \in Macs : Next1(r, m) \/ Next1Fails(r, m)
    \/ BatchEnds(r)

Continues(r) ==
    \/ ClaimWrite(r) \/ AsideWrite(r) \/ Reread(r) \/ FwAdd(r) \/ FwRemove(r) \/ FwFails(r)
    \/ Audit(r) \/ AuditFails(r) \/ Abort(r)

OrdersAndPlans(r) ==
    \/ \E o \in Orders :
          \/ Pay(r, o) \/ OrderRefund(r, o) \/ APIOrderRefund(r, o)
          \/ OrderCancel(r, o) \/ APIOrderCancel(r, o)
    \/ CancelStale(r) \/ APIOrderCancelStale(r)
    \/ \E p \in Plans :
          \/ PlanSave(r, p) \/ APIPlanSave(r, p) \/ PlanDelete(r, p) \/ APIPlanDelete(r, p)
          \/ PlanDeleteFails(r, p)

Next ==
    \/ \E r \in Reqs :
          OneDevice(r) \/ ManyDevices(r) \/ Continues(r) \/ OrdersAndPlans(r)
    \/ APIAuditNote
    \/ \E m \in Macs : ExpireDueMACs(m)

Spec == Init /\ [][Next]_vars
-----------------------------------------------------------------------------
TypeOK ==
    /\ mac \in [Macs -> MacRow]
    /\ order \in [Orders -> {"pending", "paid", "failed", "refunded"}]
    /\ plan \in [Plans -> {"none", "on", "off"}]
    /\ req \in [Reqs -> Request]
    /\ ops \in Mixes
    /\ last \in [Subjects -> Said]
    /\ told \subseteq Orders
    /\ drifted \subseteq Subjects
    /\ budget \in 0..MaxFaults

Agrees(x) ==
    /\ x \in Macs =>
          /\ last[x] = "grant" => mac[x].st \in {"active", "expired"}
          /\ last[x] = "revoke" => mac[x].st # "active"
          /\ last[x] = "moved" => mac[x].st = "none"
    /\ x \in Plans =>
          /\ last[x] = "save" => plan[x] # "none"
          /\ last[x] = "gone" => plan[x] = "none"

(***************************************************************************)
(* The newest audit row about a device or a plan is true of it once no     *)
(* request is at work on it, unless requests have overlapped on it, one    *)
(* was cut short or a batch without rows has been over it since (all       *)
(* handlers that change the row first and call DB.Audit last).             *)
(***************************************************************************)
TrailAgrees ==
    \A x \in (Macs \cup Plans) \ drifted : (\A r \in Reqs : ~Sets(r, x)) => Agrees(x)

(***************************************************************************)
(* An order whose row says cancelled is failed and one whose row says      *)
(* refunded is refunded, whatever payments, cancellations, sweeps and      *)
(* refunds raced for it and whatever failed (CancelPendingOrder,           *)
(* CancelStalePendingOrders, MarkOrderRefunded and their callers).         *)
(***************************************************************************)
OrderRowsTrue ==
    \A o \in Orders \ drifted :
        /\ last[o] = "canceled" => order[o] = "failed"
        /\ last[o] = "refunded" => order[o] = "refunded"

(***************************************************************************)
(* The cancellations the log names and counts are the failed orders, each  *)
(* once, but for those of requests under way and, after a fault, those of  *)
(* a request that lost its row (handlers of cancel and cancel-stale).      *)
(***************************************************************************)
CancelsAddUp ==
    LET failed == {o \in Orders : order[o] = "failed"}
        open == UNION {req[r].took : r \in Reqs}
    IN /\ told \cup open \subseteq failed
       /\ \A r \in Reqs : req[r].took \cap told = {}
       /\ \A q, r \in Reqs : q # r => req[q].took \cap req[r].took = {}
       /\ budget = MaxFaults => failed \subseteq told \cup open

\* Account v is served by a payment, or by a request whose reading is stale.
Serves(v, m) ==
    \E r \in Reqs : req[r].uid = v /\ (req[r].op = "pay" \/ m \in req[r].stale)

(***************************************************************************)
(* A device comes to an account by its payment, by its claim of a row      *)
(* nobody owns or by its replacing another device of its own, and bears a  *)
(* label of its owner only or that of the device it replaces, except by a  *)
(* request that had read the row before another request changed it         *)
(* (handleUserClaimMAC, handleUserLabelMAC, handleAPIUserGrant,            *)
(* ReplaceMAC).                                                            *)
(***************************************************************************)
DevicesKept ==
    [][\A m \in Macs, v \in Users :
          /\ (mac'[m].owner = v /\ mac[m].owner # v) =>
                \/ Serves(v, m)
                \/ mac[m].st # "none" /\ mac[m].owner = Nobody
                \/ \E old \in Macs : mac[old].owner = v /\ mac'[old] = NoRow
          /\ (mac'[m].text = v /\ mac[m].text # v) =>
                \/ mac'[m].owner = v
                \/ Serves(v, m)
                \/ \E old \in Macs : mac[old].text = v /\ mac'[old] = NoRow]_vars
=============================================================================
