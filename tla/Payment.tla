------------------------------- MODULE Payment -------------------------------
(***************************************************************************)
(* Orders and the three ways the router learns that one was paid: the      *)
(* notice of the payment provider (handleNotifyWeChat, handleNotifyAlipay),*)
(* the background poller (PollPendingOrders) and the queries the status    *)
(* and the long-poll handlers make on demand.  They meet in finalizeOrder, *)
(* which holds pollMu over two commits: MarkOrderPaid, and the UpsertMAC   *)
(* of GrantFromOrder.                                                      *)
(*                                                                         *)
(* All orders are for one device.  Orders are numbered as they are created.*)
(***************************************************************************)
EXTENDS Integers, FiniteSets

CONSTANTS
    NOrders,     \* how many orders are ever created
    Handlers,    \* goroutines serving requests
    Poller,      \* the goroutine of PollPendingOrders
    PollLimit,   \* LIMIT of ListPendingOrdersToPoll
    Webhook,     \* can the provider reach the router with its notices
    Faults,      \* what may go wrong
    MaxFaults,   \* and how often
    MaxRefunds   \* bound on the refunds of one order

Orders == 1..NOrders

Threads == Handlers \cup {Poller}

FaultKinds == {"db",     \* a statement fails, or the request was cancelled
               "fw",     \* a firewall command fails
               "psp",    \* a call to the provider fails
               "lost",   \* the answer to a notice does not arrive
               "crash"}  \* the process dies

ASSUME BoundsAssumption ==
    /\ NOrders \in Nat /\ PollLimit \in Nat \ {0}
    /\ MaxFaults \in Nat /\ MaxRefunds \in Nat

ASSUME PollerIsNoHandler == Poller \notin Handlers

ASSUME SwitchesAssumption == Webhook \in BOOLEAN /\ Faults \subseteq FaultKinds

VARIABLES
    st,      \* status of each order
    psp,     \* what the provider knows of it
    acked,   \* orders whose notice the provider has seen accepted
    fresh,   \* orders queried in the last 2 (handlers) or 3 (poller) seconds
    aged,    \* orders older than the 30 minutes the poller looks back
    job,     \* what each goroutine is doing
    todo,    \* the rest of the list of the poller's round
    hasRow,  \* is the device in the macs table
    book,    \* history: per order, times granted, lost, refunded
    budget   \* faults still to come

vars == <<st, psp, acked, fresh, aged, job, todo, hasRow, book, budget>>

OrderStatus == {"none", "pending", "paid", "failed", "refunded"}

\* unknown: never precreated.  returned: refunded in the provider's console.
PspState == {"unknown", "offered", "paid", "returned"}

(* idle; precreate: order stored, QR code not yet asked for; ask: provider *)
(* being queried; want: known to be paid, finalizeOrder entered; and with  *)
(* pollMu held: grant: MarkOrderPaid committed; reread: UpsertMAC          *)
(* committed, its GetMAC to come; add: firewall call to come.              *)
Phases == {"idle", "precreate", "ask", "want", "grant", "reread", "add"}

Holding == {"grant", "reread", "add"}

Job == [pc : Phases, order : Orders \cup {0}, ack : BOOLEAN]

Idle == [pc |-> "idle", order |-> 0, ack |-> FALSE]

Entry == [granted : Nat, lost : Nat, refunded : Nat]

NoEntry == [granted |-> 0, lost |-> 0, refunded |-> 0]

At(w, pc) == job[w].pc = pc

Goto(w, pc) == job' = [job EXCEPT ![w].pc = pc]

Start(w, pc, o, ack) ==
    /\ At(w, "idle")
    /\ job' = [job EXCEPT ![w] = [pc |-> pc, order |-> o, ack |-> ack]]

Fault(kind) == kind \in Faults /\ budget > 0 /\ budget' = budget - 1

pollMuFree == \A v \in Threads : job[v].pc \notin Holding

\* finalizeOrder returns; the notice handlers answer SUCCESS on nil, and the
\* provider repeats the notice until it has seen that.
Return(w, ok) ==
    /\ job' = [job EXCEPT ![w] = Idle]
    /\ \/ /\ acked' = IF ok /\ job[w].ack THEN acked \cup {job[w].order} ELSE acked
          /\ UNCHANGED budget
       \/ ok /\ job[w].ack /\ Fault("lost") /\ UNCHANGED acked

\* Mutant: the notice handlers answer SUCCESS whatever finalizeOrder returned.
FailAcks(w, kind) ==
    /\ Fault(kind)
    /\ job' = [job EXCEPT ![w] = Idle]
    /\ acked' = IF job[w].ack THEN acked \cup {job[w].order} ELSE acked

Fail(w, kind) ==
    /\ Fault(kind)
    /\ job' = [job EXCEPT ![w] = Idle]
    /\ UNCHANGED acked
-----------------------------------------------------------------------------
Init ==
    /\ st = [o \in Orders |-> "none"]
    /\ psp = [o \in Orders |-> "unknown"]
    /\ acked = {}
    /\ fresh = {}
    /\ aged = {}
    /\ job = [w \in Threads |-> Idle]
    /\ todo = {}
    /\ hasRow = FALSE
    /\ book = [o \in Orders |-> NoEntry]
    /\ budget = MaxFaults

\* handlePayCreate: the order is stored first ...
CreateOrder(w, o) ==
    /\ st[o] = "none"
    /\ \A p \in Orders : p < o => st[p] # "none"
    /\ st' = [st EXCEPT ![o] = "pending"]
    /\ Start(w, "precreate", o, FALSE)
    /\ UNCHANGED <<psp, acked, fresh, aged, todo, hasRow, book, budget>>

\* ... and then announced; when that fails it stays pending.
Precreate(w) ==
    /\ At(w, "precreate")
    /\ job' = [job EXCEPT ![w] = Idle]
    /\ \/ psp' = [psp EXCEPT ![job[w].order] = "offered"] /\ UNCHANGED budget
       \/ Fault("psp") /\ UNCHANGED psp
    /\ UNCHANGED <<st, acked, fresh, aged, todo, hasRow, book>>

\* handlePayStatus asks for pending orders only ...
StatusQuery(w, o) ==
    /\ st[o] = "pending"
    /\ o \notin fresh
    /\ Start(w, "ask", o, FALSE)
    /\ UNCHANGED <<st, psp, acked, fresh, aged, todo, hasRow, book, budget>>

\* ... handlePayWait, on its ticker, for any order that is not paid.
WaitQuery(w, o) ==
    /\ st[o] \notin {"none", "paid"}
    /\ o \notin fresh
    /\ Start(w, "ask", o, FALSE)
    /\ UNCHANGED <<st, psp, acked, fresh, aged, todo, hasRow, book, budget>>

\* The provider delivers its notice, again and again until it is accepted;
\* deliveries may overlap.
Notify(w, o) ==
    /\ Webhook
    /\ psp[o] \in {"paid", "returned"}
    /\ o \notin acked
    /\ Start(w, "want", o, TRUE)
    /\ UNCHANGED <<st, psp, acked, fresh, aged, todo, hasRow, book, budget>>
-----------------------------------------------------------------------------
\* Mutant: last_queried_at is compared the wrong way round.
PollableFresh == {o \in Orders : st[o] = "pending" /\ o \notin aged /\ o \in fresh}

Pollable == {o \in Orders : st[o] = "pending" /\ o \notin aged /\ o \notin fresh}

\* pollOnce lists the newest orders that are due for a query ...
PollList ==
    /\ At(Poller, "idle")
    /\ todo = {}
    /\ Pollable # {}
    /\ todo' = {o \in Pollable : Cardinality({p \in Pollable : p > o}) < PollLimit}
    /\ UNCHANGED <<st, psp, acked, fresh, aged, job, hasRow, book, budget>>

\* ... and queries them one after the other, newest first, whatever has become
\* of them since.
PollNext ==
    /\ \E o \in todo :
          /\ \A p \in todo : p <= o
          /\ Start(Poller, "ask", o, FALSE)
          /\ todo' = todo \ {o}
    /\ UNCHANGED <<st, psp, acked, fresh, aged, hasRow, book, budget>>

\* Mutant: the provider's answer is not looked at.
QueryAnyAnswer(w) ==
    /\ At(w, "ask")
    /\ fresh' = fresh \cup {job[w].order}
    /\ Goto(w, "want")
    /\ UNCHANGED <<st, psp, acked, aged, todo, hasRow, book, budget>>

\* The provider answers queryOrder, which notes the time of the query whatever
\* the answer was.
QueryAnswer(w) ==
    /\ At(w, "ask")
    /\ fresh' = fresh \cup {job[w].order}
    /\ \/ psp[job[w].order] = "paid" /\ Goto(w, "want") /\ UNCHANGED budget
       \/ /\ psp[job[w].order] # "paid"
          /\ job' = [job EXCEPT ![w] = Idle]
          /\ UNCHANGED budget
       \/ Fault("psp") /\ job' = [job EXCEPT ![w] = Idle]
    /\ UNCHANGED <<st, psp, acked, aged, todo, hasRow, book>>
-----------------------------------------------------------------------------
\* Mutants: finalizeOrder without pollMu; MarkOrderPaid without its check.
MarkOrderPaidUnlocked(w) ==
    /\ At(w, "want")
    /\ \/ /\ st[job[w].order] = "paid"
          /\ Return(w, TRUE)
          /\ UNCHANGED st
       \/ /\ st[job[w].order] # "paid"
          /\ st' = [st EXCEPT ![job[w].order] = "paid"]
          /\ Goto(w, "grant")
          /\ UNCHANGED <<acked, budget>>
       \/ Fail(w, "db") /\ UNCHANGED st
    /\ UNCHANGED <<psp, fresh, aged, todo, hasRow, book>>

MarkOrderPaidAgain(w) ==
    /\ At(w, "want")
    /\ pollMuFree
    /\ \/ /\ st' = [st EXCEPT ![job[w].order] = "paid"]
          /\ Goto(w, "grant")
          /\ UNCHANGED <<acked, budget>>
       \/ Fail(w, "db") /\ UNCHANGED st
    /\ UNCHANGED <<psp, fresh, aged, todo, hasRow, book>>

\* finalizeOrder takes pollMu and runs the MarkOrderPaid transaction.  An order
\* that is paid needs nothing more; any other becomes paid.
MarkOrderPaid(w) ==
    /\ At(w, "want")
    /\ pollMuFree
    /\ \/ /\ st[job[w].order] = "paid"
          /\ Return(w, TRUE)
          /\ UNCHANGED st
       \/ /\ st[job[w].order] # "paid"
          /\ st' = [st EXCEPT ![job[w].order] = "paid"]
          /\ Goto(w, "grant")
          /\ UNCHANGED <<acked, budget>>
       \/ Fail(w, "db") /\ UNCHANGED st
    /\ UNCHANGED <<psp, fresh, aged, todo, hasRow, book>>

\* GrantFromOrder: the transaction of UpsertMAC ...
GrantFromOrder(w) ==
    /\ At(w, "grant")
    /\ \/ /\ book' = [book EXCEPT ![job[w].order].granted = @ + 1]
          /\ hasRow' = TRUE
          /\ Goto(w, "reread")
          /\ UNCHANGED <<acked, budget>>
       \/ /\ Fail(w, "db")
          /\ book' = [book EXCEPT ![job[w].order].lost = @ + 1]
          /\ UNCHANGED hasRow
    /\ UNCHANGED <<st, psp, fresh, aged, todo>>

\* The process is gone and back: goroutines are lost, the tables are not.
ProcessDies ==
    /\ job' = [w \in Threads |-> Idle]
    /\ todo' = {}
    /\ book' = [o \in Orders |->
          IF \E w \in Threads : At(w, "grant") /\ job[w].order = o
          THEN [book[o] EXCEPT !.lost = @ + 1] ELSE book[o]]

\* ... its closing GetMAC: if the device was deleted meanwhile, the caller
\* dereferences nil.  net/http recovers the panic of a handler, nothing
\* recovers the poller's ...
Reread(w) ==
    /\ At(w, "reread")
    /\ \/ /\ hasRow
          /\ Goto(w, "add")
          /\ UNCHANGED <<acked, todo, book, budget>>
       \/ /\ ~hasRow
          /\ IF w = Poller THEN ProcessDies
             ELSE job' = [job EXCEPT ![w] = Idle] /\ UNCHANGED <<todo, book>>
          /\ UNCHANGED <<acked, budget>>
       \/ Fail(w, "db") /\ UNCHANGED <<todo, book>>
    /\ UNCHANGED <<st, psp, fresh, aged, hasRow>>

\* ... and the firewall call, whose error is finalizeOrder's.
FwAdd(w) ==
    /\ At(w, "add")
    /\ Return(w, TRUE) \/ Fail(w, "fw")
    /\ UNCHANGED <<st, psp, fresh, aged, todo, hasRow, book>>
-----------------------------------------------------------------------------
\* Mutants: the update forgets its WHERE, or writes a status nobody knows.
CancelAnyOrder(o) ==
    /\ st[o] \notin {"none", "failed"}
    /\ st' = [st EXCEPT ![o] = "failed"]
    /\ UNCHANGED <<psp, acked, fresh, aged, job, todo, hasRow, book, budget>>

CancelToCanceled(o) ==
    /\ st[o] = "pending"
    /\ st' = [st EXCEPT ![o] = "canceled"]
    /\ UNCHANGED <<psp, acked, fresh, aged, job, todo, hasRow, book, budget>>

CancelPendingOrder(o) ==
    /\ st[o] = "pending"
    /\ st' = [st EXCEPT ![o] = "failed"]
    /\ UNCHANGED <<psp, acked, fresh, aged, job, todo, hasRow, book, budget>>

\* Everything pending that is as old as o, an hour at least.
CancelStalePendingOrders(o) ==
    /\ o \in aged
    /\ st' = [p \in Orders |-> IF p <= o /\ st[p] = "pending" THEN "failed" ELSE st[p]]
    /\ UNCHANGED <<psp, acked, fresh, aged, job, todo, hasRow, book, budget>>

\* The transaction also takes the days off the device's expiry, which is not
\* part of this model (MacService!Refund).
MarkOrderRefunded(o) ==
    /\ st[o] = "paid"
    /\ book[o].refunded < MaxRefunds
    /\ st' = [st EXCEPT ![o] = "refunded"]
    /\ book' = [book EXCEPT ![o].refunded = @ + 1]
    /\ UNCHANGED <<psp, acked, fresh, aged, job, todo, hasRow, budget>>

DeleteMAC ==
    /\ hasRow
    /\ hasRow' = FALSE
    /\ UNCHANGED <<st, psp, acked, fresh, aged, job, todo, book, budget>>

\* The customer scans and pays; the money goes back.
CustomerPays(o) ==
    /\ psp[o] = "offered"
    /\ psp' = [psp EXCEPT ![o] = "paid"]
    /\ UNCHANGED <<st, acked, fresh, aged, job, todo, hasRow, book, budget>>

ConsoleRefund(o) ==
    /\ psp[o] = "paid"
    /\ psp' = [psp EXCEPT ![o] = "returned"]
    /\ UNCHANGED <<st, acked, fresh, aged, job, todo, hasRow, book, budget>>

\* Seconds, and half an hour, pass.
GoesStale(o) ==
    /\ o \in fresh
    /\ fresh' = fresh \ {o}
    /\ UNCHANGED <<st, psp, acked, aged, job, todo, hasRow, book, budget>>

Ages(o) ==
    /\ st[o] # "none"
    /\ o \notin aged
    /\ \A p \in Orders : p < o => p \in aged
    /\ aged' = aged \cup {o}
    /\ UNCHANGED <<st, psp, acked, fresh, job, todo, hasRow, book, budget>>

Crash ==
    /\ Fault("crash")
    /\ ProcessDies
    /\ UNCHANGED <<st, psp, acked, fresh, aged, hasRow>>
-----------------------------------------------------------------------------
ThreadStep(w) ==
    \/ Precreate(w) \/ QueryAnswer(w) \/ MarkOrderPaid(w)
    \/ GrantFromOrder(w) \/ Reread(w) \/ FwAdd(w)

Next ==
    \/ \E w \in Handlers, o \in Orders :
          CreateOrder(w, o) \/ StatusQuery(w, o) \/ WaitQuery(w, o) \/ Notify(w, o)
    \/ PollList
    \/ PollNext
    \/ \E w \in Threads :
          \/ Precreate(w) \/ QueryAnswer(w) \/ MarkOrderPaid(w)
          \/ GrantFromOrder(w) \/ Reread(w) \/ FwAdd(w)
    \/ \E o \in Orders :
          \/ CancelPendingOrder(o) \/ CancelStalePendingOrders(o)
          \/ MarkOrderRefunded(o)
          \/ CustomerPays(o) \/ ConsoleRefund(o) \/ GoesStale(o) \/ Ages(o)
    \/ DeleteMAC
    \/ Crash

Spec == Init /\ [][Next]_vars

\* Goroutines run on, pollMu starves nobody, the poller's ticker ticks and
\* seconds pass; the provider repeats its notice until it is accepted, and
\* net/http has a goroutine for every request.  Nothing is assumed of
\* customers and administrators.
Fairness ==
    /\ \A w \in Threads : SF_vars(ThreadStep(w))
    /\ WF_vars(PollList)
    /\ WF_vars(PollNext)
    /\ \A o \in Orders : WF_vars(GoesStale(o))
    /\ \A o \in Orders : SF_vars(\E w \in Handlers : Notify(w, o))

FairSpec == Spec /\ Fairness
-----------------------------------------------------------------------------
\* Types of the tables, the goroutines and the history (internal/models
\* OrderStatus, internal/server/pay.go).
TypeOK ==
    /\ st \in [Orders -> OrderStatus]
    /\ psp \in [Orders -> PspState]
    /\ acked \subseteq Orders
    /\ fresh \subseteq Orders
    /\ aged \subseteq Orders
    /\ job \in [Threads -> Job]
    /\ todo \subseteq Orders
    /\ hasRow \in BOOLEAN
    /\ book \in [Orders -> Entry]
    /\ budget \in 0..MaxFaults

\* The order is paid and its grant is under way.
Owed(o) == \E w \in Threads : At(w, "grant") /\ job[w].order = o

Balanced(o) ==
    book[o].refunded + (IF st[o] = "paid" THEN 1 ELSE 0)
      = book[o].granted + book[o].lost + (IF Owed(o) THEN 1 ELSE 0)

(* Money and time balance, however notices are repeated and polls, queries, *)
(* cancellations, refunds and crashes fall in between: each time an order  *)
(* became paid its days were granted exactly once, or are about to be, or  *)
(* were lost to a failure.  (finalizeOrder: pay.go 304-337, MarkOrderPaid)  *)
Ledger == \A o \in Orders : Balanced(o)

(* No time is granted for an order the provider has not been paid for,     *)
(* whoever asked and whatever it was told (queryOrder, the notices).       *)
NothingForFree ==
    \A o \in Orders : book[o].granted > 0 => psp[o] \in {"paid", "returned"}

(* A notice is never accepted while the grant it reports may still fail in *)
(* another goroutine: that is what pollMu is for (finalizeOrder).          *)
AckWaitsForGrant ==
    [][\A o \in acked' \ acked : \A w \in Threads :
          job[w].pc \in Holding /\ job[w].order = o => job'[w].pc = "idle"]_vars

Book == INSTANCE OrderBook WITH
            status <- st,
            owed <- [o \in Orders |-> IF Owed(o) THEN 1 ELSE 0],
            credited <- [o \in Orders |-> book[o].granted]

(* Goroutines, notices and polls together implement the order book: only   *)
(* pending orders are given up, a paid order leaves its status by a refund *)
(* only, and each acceptance is credited at most once.                     *)
KeepsTheBook == Book!Spec

(* With notices, a payment is recorded, whatever happened to the order and *)
(* to the process meanwhile (handleNotifyWeChat, handleNotifyAlipay).      *)
PaidIsSeen == \A o \in Orders : psp[o] = "paid" ~> st[o] \in {"paid", "refunded"}

(* Without notices, the poller records a payment of a pending order while  *)
(* the order is young, unless the money goes back first: "This gives us a  *)
(* working payment flow even without an HTTPS webhook URL" (pay.go:217).   *)
PolledInTime ==
    \A o \in Orders :
        (psp[o] = "paid" /\ st[o] = "pending")
            ~> (st[o] # "pending" \/ psp[o] # "paid" \/ o \in aged)

=============================================================================
