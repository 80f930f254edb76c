----------------------------- MODULE MacService -----------------------------
(***************************************************************************)
(* The paid-device table and the kernel set that enforces it.              *)
(*                                                                         *)
(* Every operation of MACService (internal/service/mac.go), and every      *)
(* handler that goes around it, first commits to SQLite and then calls the *)
(* firewall.  SQLite has one connection and the firewall manager one       *)
(* mutex, so each statement or transaction, and each firewall call, is one *)
(* step; nothing holds a lock from the commit to the call, so the steps of *)
(* two operations interleave.  A handler in flight is a job: what it still *)
(* has to do.                                                              *)
(*                                                                         *)
(* Time is reduced to what the code asks of it: whether a row's expires_at *)
(* has passed.                                                             *)
(***************************************************************************)

CONSTANTS
    Macs,       \* device addresses
    Handlers,   \* goroutines serving requests, or spawned by a request
    Scheduler,  \* the goroutine of scheduler.Run
    Enforcer,   \* the goroutine of EnforceSchedules
    Ops,        \* the operations that requests and loops perform
    Faults      \* what may go wrong: "fw" a firewall command, "crash" the process

Workers == Handlers \cup {Scheduler, Enforcer}

AllOps == {"grant", "revoke", "delete", "replace", "claim", "refund", "resync",
           "expire_now", "schedule_set", "schedule_clear", "sweep", "enforce"}

ASSUME LoopsAreNotHandlers ==
    /\ Scheduler # Enforcer
    /\ Scheduler \notin Handlers
    /\ Enforcer \notin Handlers

ASSUME OpsAssumption == Ops \subseteq AllOps /\ Faults \subseteq {"fw", "crash"}

VARIABLES
    row,    \* the macs table
    fw,     \* the elements of the kernel set of paid devices
    job,    \* what each goroutine still has to do
    drift   \* history: devices for which row and fw may have come apart

vars == <<row, fw, job, drift>>
-----------------------------------------------------------------------------
(* Rows of the macs table.  "none" stands for no row.  due: expires_at has *)
(* passed (of an active row: no statement looks at the expiry of another,  *)
(* but to set it).  sched: schedule_json is not empty.                     *)

Status == {"none", "active", "expired", "blocked"}

Row == [st : Status, due : BOOLEAN, sched : BOOLEAN]

NoRow == [st |-> "none", due |-> FALSE, sched |-> FALSE]

\* status = 'active' AND expires_at > CURRENT_TIMESTAMP
Current(r) == r.st = "active" /\ ~r.due

\* Mutant: a fresh row gets a status the schema does not know.
UpsertMACBadStatus(r, days) ==
    [st |-> "paid", due |-> days = 0 /\ ~Current(r), sched |-> r.sched]

UpsertMAC(r, days) ==
    [st |-> "active", due |-> days = 0 /\ ~Current(r), sched |-> r.sched]

SetMACStatus(r, st) == IF r.st = "none" THEN r ELSE [r EXCEPT !.st = st]

SetMACSchedule(r, on) == IF r.st = "none" THEN r ELSE [r EXCEPT !.sched = on]

Entitled == {m \in Macs : Current(row[m])}

Due == {m \in Macs : row[m].st = "active" /\ row[m].due}
-----------------------------------------------------------------------------
(* Jobs.  add and rem are the devices still to be added and removed; what  *)
(* comes next is pc:                                                       *)
(*   reread   UpsertMAC has committed, its closing GetMAC has not run      *)
(*   claim    handleUserClaimMAC has checked the row, not yet written it   *)
(*   swap     ReplaceMAC has committed, the old device is still in the set *)
(*   calls    firewall calls outstanding                                   *)
(*   mark     ExpireDueMACs has run its SELECT (rem), not its UPDATE       *)
(*   list     a Resync is due, rem are the rows it has to take out         *)
(*   sync     Resync has read the entitled devices (add)                   *)
(*   flushed  Sync has emptied the set and holds the manager's mutex       *)

Phases == {"idle", "reread", "claim", "swap", "calls", "mark", "list", "sync", "flushed"}

Job == [pc : Phases, add : SUBSET Macs, rem : SUBSET Macs]

Idle == [pc |-> "idle", add |-> {}, rem |-> {}]

Task(pc, add, rem) == [pc |-> pc, add |-> add, rem |-> rem]

Calls(add, rem) == IF add \cup rem = {} THEN Idle ELSE Task("calls", add, rem)

Touches(w, m) ==
    \/ job[w].pc \in {"sync", "flushed"}
    \/ m \in job[w].add \cup job[w].rem

Contended(w, S) == {m \in S : \E v \in Workers \ {w} : Touches(v, m)}

\* Worker w goes on with task t; what it starts to touch, S, drifts where
\* another job is already at work.
Begin(w, t, S) ==
    /\ job' = [job EXCEPT ![w] = t]
    /\ drift' = drift \cup Contended(w, S)

Request(w, op) == w \in Handlers /\ op \in Ops /\ job[w].pc = "idle"

MuFree == \A v \in Workers : job[v].pc # "flushed"

FwFails == "fw" \in Faults
-----------------------------------------------------------------------------
Init ==
    /\ row = [m \in Macs |-> NoRow]
    /\ fw = {}
    /\ job = [w \in Workers |-> Idle]
    /\ drift = {}

\* GrantFromOrder and Extend: a payment, a voucher, an administrator.
Grant(w, m) ==
    /\ Request(w, "grant")
    /\ row' = [row EXCEPT ![m] = UpsertMAC(@, 30)]
    /\ Begin(w, Task("reread", {m}, {}), {m})
    /\ UNCHANGED fw

\* The GetMAC that ends UpsertMAC.  A row deleted meanwhile is a nil pointer
\* dereferenced by the caller: net/http recovers, the firewall is not called.
Reread(w) ==
    /\ job[w].pc = "reread"
    /\ job' = [job EXCEPT ![w] = IF \E m \in job[w].add : row[m].st = "none"
                                 THEN Idle ELSE Calls(job[w].add, {})]
    /\ UNCHANGED <<row, fw, drift>>

\* Mutant: the device is blocked in the table only.
RevokeRowOnly(w, m) ==
    /\ Request(w, "revoke")
    /\ row' = [row EXCEPT ![m] = SetMACStatus(@, "blocked")]
    /\ Begin(w, Idle, {m})
    /\ UNCHANGED fw

Revoke(w, m) ==
    /\ Request(w, "revoke")
    /\ row' = [row EXCEPT ![m] = SetMACStatus(@, "blocked")]
    /\ Begin(w, Calls({}, {m}), {m})
    /\ UNCHANGED fw

Delete(w, m) ==
    /\ Request(w, "delete")
    /\ row' = [row EXCEPT ![m] = NoRow]
    /\ Begin(w, Calls({}, {m}), {m})
    /\ UNCHANGED fw

\* ReplaceMAC keeps the expiry and drops the schedule.
Replace(w, old, new) ==
    /\ Request(w, "replace")
    /\ Current(row[old])
    /\ row[new].st = "none"
    /\ row' = [row EXCEPT ![old] = NoRow,
                          ![new] = [st |-> "active", due |-> FALSE, sched |-> FALSE]]
    /\ Begin(w, Task("swap", {new}, {old}), {old, new})
    /\ UNCHANGED fw

\* The Remove inside Replace: a failure is logged, and the Add follows.
ReplaceRemove(w) ==
    /\ job[w].pc = "swap"
    /\ MuFree
    /\ job' = [job EXCEPT ![w] = Calls(job[w].add, {})]
    /\ \/ fw' = fw \ job[w].rem /\ UNCHANGED drift
       \/ FwFails /\ UNCHANGED fw /\ drift' = drift \cup job[w].rem
    /\ UNCHANGED row

\* handleUserClaimMAC: the check ...
ClaimCheck(w, m) ==
    /\ Request(w, "claim")
    /\ Current(row[m])
    /\ Begin(w, Task("claim", {m}, {}), {m})
    /\ UNCHANGED <<row, fw>>

\* ... and the UpsertMAC with days = 0, which no firewall call follows.
ClaimUpsert(w) ==
    /\ job[w].pc = "claim"
    /\ row' = [m \in Macs |-> IF m \in job[w].add THEN UpsertMAC(row[m], 0) ELSE row[m]]
    /\ job' = [job EXCEPT ![w] = Idle]
    /\ UNCHANGED <<fw, drift>>

\* MarkOrderRefunded when it takes the expiry into the past, whatever the
\* status was; otherwise it changes nothing a row here shows.  The handler
\* then spawns a Resync.
Refund(w, m) ==
    /\ Request(w, "refund")
    /\ row[m].st # "none"
    /\ row' = [row EXCEPT ![m].st = "expired", ![m].due = TRUE]
    /\ Begin(w, Task("list", {}, {m}), {m})
    /\ UNCHANGED fw
-----------------------------------------------------------------------------
\* ExpireDueMACs is a SELECT ...
ExpireDue ==
    /\ "sweep" \in Ops
    /\ job[Scheduler].pc = "idle"
    /\ Due # {}
    /\ Begin(Scheduler, Task("mark", {}, Due), Due)
    /\ UNCHANGED <<row, fw>>

\* (the maintenance button: same sweep, followed by a Resync)
ExpireNow(w) ==
    /\ Request(w, "expire_now")
    /\ Begin(w, Task(IF Due = {} THEN "list" ELSE "mark", {}, Due), Due)
    /\ UNCHANGED <<row, fw>>

\* Mutant: the sweep forgets to take the devices out of the firewall.
ExpireMarkOnly(w) ==
    /\ job[w].pc = "mark"
    /\ row' = [m \in Macs |-> IF m \in Due THEN [row[m] EXCEPT !.st = "expired"] ELSE row[m]]
    /\ job' = [job EXCEPT ![w] = Idle]
    /\ drift' = drift \cup (Due \ job[w].rem)
    /\ UNCHANGED fw

\* ... and an UPDATE that judges the rows anew: a row that fell due in
\* between is marked but is not in the list that was read.
ExpireMark(w) ==
    /\ job[w].pc = "mark"
    /\ row' = [m \in Macs |-> IF m \in Due THEN [row[m] EXCEPT !.st = "expired"] ELSE row[m]]
    /\ job' = [job EXCEPT ![w] = Task(IF w = Scheduler THEN "calls" ELSE "list",
                                      {}, job[w].rem)]
    /\ drift' = drift \cup (Due \ job[w].rem)
    /\ UNCHANGED fw

\* enforceSchedulesOnce: a snapshot of the entitled rows with a schedule, then
\* a call for each of them; open are those inside their window.
EnforceSchedules ==
    /\ "enforce" \in Ops
    /\ job[Enforcer].pc = "idle"
    /\ LET S == {m \in Entitled : row[m].sched}
       IN /\ S # {}
          /\ \E open \in SUBSET S : Begin(Enforcer, Calls(open, S \ open), S)
    /\ UNCHANGED <<row, fw>>

\* handleAdminMACScheduleSave looks at no status: opening a window for a
\* device that is not active is a drift of its own.
ScheduleSet(w, m) ==
    /\ Request(w, "schedule_set")
    /\ row' = [row EXCEPT ![m] = SetMACSchedule(@, TRUE)]
    /\ \E open \in BOOLEAN :
          /\ job' = [job EXCEPT ![w] = IF open THEN Calls({m}, {}) ELSE Calls({}, {m})]
          /\ drift' = drift \cup Contended(w, {m})
                            \cup (IF open /\ row[m].st # "active" THEN {m} ELSE {})
    /\ UNCHANGED fw

ScheduleClear(w, m) ==
    /\ Request(w, "schedule_clear")
    /\ row' = [row EXCEPT ![m] = SetMACSchedule(@, FALSE)]
    /\ job' = [job EXCEPT ![w] = Calls({m}, {})]
    /\ drift' = drift \cup Contended(w, {m}) \cup (IF row[m].st # "active" THEN {m} ELSE {})
    /\ UNCHANGED fw
-----------------------------------------------------------------------------
\* The outstanding firewall calls of a job.
FwAdd(w, m) ==
    /\ job[w].pc = "calls"
    /\ m \in job[w].add
    /\ MuFree
    /\ job' = [job EXCEPT ![w] = Calls(job[w].add \ {m}, job[w].rem)]
    /\ \/ fw' = fw \cup {m} /\ UNCHANGED drift
       \/ FwFails /\ UNCHANGED fw /\ drift' = drift \cup {m}
    /\ UNCHANGED row

FwRemove(w, m) ==
    /\ job[w].pc = "calls"
    /\ m \in job[w].rem
    /\ MuFree
    /\ job' = [job EXCEPT ![w] = Calls(job[w].add, job[w].rem \ {m})]
    /\ \/ fw' = fw \ {m} /\ UNCHANGED drift
       \/ FwFails /\ UNCHANGED fw /\ drift' = drift \cup {m}
    /\ UNCHANGED row

\* Mutant: the query forgets the status.
ListAllMACs(w) ==
    /\ Request(w, "resync") \/ job[w].pc = "list"
    /\ job' = [job EXCEPT ![w] = Task("sync", {m \in Macs : row[m].st # "none"}, {})]
    /\ drift' = Contended(w, Macs)
    /\ UNCHANGED <<row, fw>>

\* Resync: ListActiveMACs.  From here on only what another job is touching
\* can come apart: the Sync replaces every element.
ListActiveMACs(w) ==
    /\ Request(w, "resync") \/ job[w].pc = "list"
    /\ job' = [job EXCEPT ![w] = Task("sync", Entitled, {})]
    /\ drift' = Contended(w, Macs)
    /\ UNCHANGED <<row, fw>>

\* Manager.Sync under its mutex: nft flush set ...
SyncFlush(w) ==
    /\ job[w].pc = "sync"
    /\ MuFree
    /\ \/ /\ fw' = {}
          /\ job' = [job EXCEPT ![w] = IF job[w].add = {} THEN Idle
                                       ELSE Task("flushed", job[w].add, {})]
          /\ UNCHANGED drift
       \/ /\ FwFails
          /\ job' = [job EXCEPT ![w] = Idle]
          /\ drift' = Macs
          /\ UNCHANGED fw
    /\ UNCHANGED row

\* ... and nft add element with the whole list.
SyncPopulate(w) ==
    /\ job[w].pc = "flushed"
    /\ job' = [job EXCEPT ![w] = Idle]
    /\ \/ fw' = fw \cup job[w].add /\ UNCHANGED drift
       \/ FwFails /\ UNCHANGED fw /\ drift' = Macs
    /\ UNCHANGED row
-----------------------------------------------------------------------------
\* expires_at passes.
Expire(m) ==
    /\ Current(row[m])
    /\ row' = [row EXCEPT ![m].due = TRUE]
    /\ UNCHANGED <<fw, job, drift>>

\* The process dies and comes back.  Jobs are gone, the table is not, the
\* kernel set survives unless the router went down with it; main runs one
\* Resync before anything else, and carries on if it fails.
Restart ==
    /\ "crash" \in Faults
    /\ job' = [w \in Workers |-> Idle]
    /\ \/ fw' = Entitled /\ drift' = {}
       \/ FwFails /\ fw' \in {fw, {}} /\ drift' = Macs
    /\ UNCHANGED row

JobStep(w) ==
    \/ Reread(w) \/ ReplaceRemove(w) \/ ClaimUpsert(w) \/ ExpireMark(w)
    \/ (job[w].pc = "list" /\ ListActiveMACs(w)) \/ SyncFlush(w) \/ SyncPopulate(w)
    \/ \E m \in Macs : FwAdd(w, m) \/ FwRemove(w, m)

Next ==
    \/ \E w \in Handlers :
          \/ ExpireNow(w)
          \/ ListActiveMACs(w)
          \/ \E m \in Macs :
                \/ Grant(w, m) \/ Revoke(w, m) \/ Delete(w, m)
                \/ ClaimCheck(w, m) \/ Refund(w, m)
                \/ ScheduleSet(w, m) \/ ScheduleClear(w, m)
                \/ \E new \in Macs \ {m} : Replace(w, m, new)
    \/ ExpireDue
    \/ EnforceSchedules
    \/ \E w \in Workers :
          \/ Reread(w) \/ ReplaceRemove(w) \/ ClaimUpsert(w)
          \/ ExpireMark(w) \/ SyncFlush(w) \/ SyncPopulate(w)
          \/ \E m \in Macs : FwAdd(w, m) \/ FwRemove(w, m)
    \/ \E m \in Macs : Expire(m)
    \/ Restart

Spec == Init /\ [][Next]_vars

\* Goroutines that have started run on (a sync.Mutex starves nobody, hence the
\* strong fairness where the manager's mutex is taken), and the scheduler's
\* ticker keeps firing.  Nothing is assumed of requests.
Fairness ==
    /\ WF_vars(ExpireDue)
    /\ \A w \in Workers : SF_vars(JobStep(w))

FairSpec == Spec /\ Fairness
-----------------------------------------------------------------------------
\* Types of the table, the set, the jobs and the history variable
\* (internal/models MACStatus, internal/service/mac.go).
TypeOK ==
    /\ row \in [Macs -> Row]
    /\ fw \subseteq Macs
    /\ job \in [Workers -> Job]
    /\ drift \subseteq Macs

Quiet(m) == \A w \in Workers : ~Touches(w, m)

Agree(m) ==
    /\ m \in fw => row[m].st = "active"
    /\ Current(row[m]) /\ ~row[m].sched => m \in fw

(* The set and the table come apart for a device only by one of the known  *)
(* hazards: an operation that began while another one was at work on the   *)
(* device, a failed firewall command, a row that fell due between the      *)
(* SELECT and the UPDATE of ExpireDueMACs, or a schedule opened for a      *)
(* device that is not active.  For every other device, once no operation   *)
(* is at work on it, only an active row is in the set, and an entitled row *)
(* without a schedule is.  (all of internal/service/mac.go)                *)
InSync == \A m \in Macs : Quiet(m) /\ m \notin drift => Agree(m)

(* Operations overlap, and what a job was going to do may be out of date   *)
(* when its firewall call comes.  Still, but for the known hazards, a      *)
(* device enters the set only while its row is active, and leaves it only  *)
(* when it is not entitled or has a schedule - or for the moment between   *)
(* the flush and the add of a Sync (Extend, Revoke, Replace, ExpireDue,    *)
(* Resync).                                                                *)
FwFollows ==
    [][\A m \in Macs \ drift' :
          /\ m \in fw' \ fw => row'[m].st = "active"
          /\ m \in fw \ fw' => \/ ~Current(row'[m]) \/ row'[m].sched
                               \/ \E w \in Workers : job'[w].pc = "flushed"]_vars

(* A device whose time is up is taken out of the set, or its time is       *)
(* renewed: "ExpireDue marks expired DB rows and yanks them from firewall" *)
(* (internal/service/mac.go:145).  Only one for which a known hazard has   *)
(* struck stays in it.                                                     *)
DueLeavesOrDrifts ==
    \A m \in Macs :
        (m \in Due /\ m \in fw) ~> (m \notin fw \/ ~row[m].due \/ m \in drift)

=============================================================================
