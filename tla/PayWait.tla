------------------------------- MODULE PayWait -------------------------------
(***************************************************************************)
(* The long poll of the payment page (internal/server/wait.go).            *)
(*                                                                         *)
(* handlePayWait reads the order, registers a channel and then waits for   *)
(* the signal of finalizeOrder, a tick, the deadline or the end of the     *)
(* request.  waitMu guards the map of channels only: the status read, the  *)
(* registration, the commit of MarkOrderPaid and the two halves of         *)
(* signalOrder all interleave.  One order; pollMu admits one finalizeOrder *)
(* at a time, run by a waiter after a query or by a goroutine of another   *)
(* kind.                                                                   *)
(***************************************************************************)

CONSTANTS
    Waiters,   \* browsers polling for the order, one request each at a time
    Other      \* the notice handler or poller that may finalize the order

ASSUME OtherIsNoWaiter == Other \notin Waiters

VARIABLES
    st,     \* status of the order
    paid,   \* has the provider been paid
    pc,     \* where each waiter is
    ans,    \* what its last request was answered
    reg,    \* waiters whose channel is in the map
    ch,     \* waiters whose channel holds a signal
    fin,    \* finalizeOrder: who runs it and how far it is
    chs     \* channels signalOrder took out of the map and has not yet sent to

vars == <<st, paid, pc, ans, reg, ch, fin, chs>>

OrderStatus == {"pending", "paid", "failed", "refunded"}

\* away: no request.  query: provider being asked.  busy: runs finalizeOrder.
Places == {"away", "look", "register", "wait", "query", "busy", "again"}

InLoop == {"wait", "query", "busy", "again"}

Answers == {"none", "paid", "pending", "gone"}

NoFin == [by |-> Other, pc |-> "free"]

Init ==
    /\ st = "pending"
    /\ paid = FALSE
    /\ pc = [w \in Waiters |-> "away"]
    /\ ans = [w \in Waiters |-> "none"]
    /\ reg = {}
    /\ ch = {}
    /\ fin = NoFin
    /\ chs = {}

Goto(w, place) == pc' = [pc EXCEPT ![w] = place]

\* Mutant: the channel is left in the map.
LeaveRegistered(w, a) ==
    /\ Goto(w, "away")
    /\ ans' = [ans EXCEPT ![w] = a]
    /\ ch' = ch \ {w}
    /\ chs' = chs \ {w}
    /\ UNCHANGED reg

\* The request ends; the deferred unwait takes the channel out of the map.
Leave(w, a) ==
    /\ Goto(w, "away")
    /\ ans' = [ans EXCEPT ![w] = a]
    /\ reg' = reg \ {w}
    /\ ch' = ch \ {w}
    /\ chs' = chs \ {w}

Stay(w, place) == Goto(w, place) /\ UNCHANGED <<ans, reg, ch, chs>>
-----------------------------------------------------------------------------
Request(w) ==
    /\ pc[w] = "away"
    /\ Goto(w, "look")
    /\ ans' = [ans EXCEPT ![w] = "none"]
    /\ UNCHANGED <<st, paid, reg, ch, fin, chs>>

Look(w) ==
    /\ pc[w] = "look"
    /\ IF st = "paid" THEN Leave(w, "paid") ELSE Stay(w, "register")
    /\ UNCHANGED <<st, paid, fin>>

WaitFor(w) ==
    /\ pc[w] = "register"
    /\ Goto(w, "wait")
    /\ reg' = reg \cup {w}
    /\ UNCHANGED <<st, paid, ans, ch, fin, chs>>

\* case <-ch: re-fetch.  An order that is not paid (any more) leaves the waiter
\* in its loop, its channel no longer in the map.
Woken(w) ==
    /\ pc[w] = "wait"
    /\ w \in ch
    /\ IF st = "paid" THEN Leave(w, "paid")
       ELSE ch' = ch \ {w} /\ UNCHANGED <<pc, ans, reg, chs>>
    /\ UNCHANGED <<st, paid, fin>>

\* Mutant: the tick looks at pending orders only.
TickPending(w) ==
    /\ pc[w] = "wait"
    /\ st = "pending"
    /\ Stay(w, "query")
    /\ UNCHANGED <<st, paid, fin>>

\* case <-tick.C: re-read, and ask the provider - unless it was asked just now,
\* which is to the waiter as if it had not answered.
Tick(w) ==
    /\ pc[w] = "wait"
    /\ IF st = "paid" THEN Leave(w, "paid") ELSE Stay(w, "query")
    /\ UNCHANGED <<st, paid, fin>>

\* queryOrder: on a paid answer it runs finalizeOrder, which waits for pollMu.
Query(w) ==
    /\ pc[w] = "query"
    /\ \/ Stay(w, "again") /\ UNCHANGED <<st, fin>>
       \/ /\ paid
          /\ fin.pc = "free"
          /\ st # "paid"
          /\ st' = "paid"
          /\ fin' = [by |-> w, pc |-> "grant"]
          /\ Stay(w, "busy")
    /\ UNCHANGED paid

\* The re-read after the query.
Again(w) ==
    /\ pc[w] = "again"
    /\ IF st = "paid" THEN Leave(w, "paid") ELSE Stay(w, "wait")
    /\ UNCHANGED <<st, paid, fin>>

\* The loop ends after 60 s; the browser will ask again.
Deadline(w) ==
    /\ pc[w] = "wait"
    /\ Leave(w, "pending")
    /\ UNCHANGED <<st, paid, fin>>

Disconnect(w) ==
    /\ pc[w] = "wait"
    /\ Leave(w, "gone")
    /\ UNCHANGED <<st, paid, fin>>
-----------------------------------------------------------------------------
\* finalizeOrder: MarkOrderPaid by a notice or by the poller ...
Finalize ==
    /\ paid
    /\ fin.pc = "free"
    /\ st # "paid"
    /\ st' = "paid"
    /\ fin' = [by |-> Other, pc |-> "grant"]
    /\ UNCHANGED <<paid, pc, ans, reg, ch, chs>>

Release ==
    /\ fin' = NoFin
    /\ pc' = [w \in Waiters |-> IF w = fin.by THEN "again" ELSE pc[w]]

\* ... GrantFromOrder, an error of which returns before the signal ...
Grant ==
    /\ fin.pc = "grant"
    /\ \/ fin' = [fin EXCEPT !.pc = "signal"] /\ UNCHANGED pc
       \/ Release
    /\ UNCHANGED <<st, paid, ans, reg, ch, chs>>

\* ... and signalOrder: the channels are taken out of the map under waitMu ...
SignalTake ==
    /\ fin.pc = "signal"
    /\ chs' = reg
    /\ reg' = {}
    /\ fin' = [fin EXCEPT !.pc = "send"]
    /\ UNCHANGED <<st, paid, pc, ans, ch>>

\* ... and written to without it; a buffer of one never blocks.
SignalSend ==
    /\ fin.pc = "send"
    /\ ch' = ch \cup chs
    /\ chs' = {}
    /\ Release
    /\ UNCHANGED <<st, paid, ans, reg>>

CustomerPays ==
    /\ ~paid
    /\ paid' = TRUE
    /\ UNCHANGED <<st, pc, ans, reg, ch, fin, chs>>

\* Mutant: a cancelled order gets the status of an expired one.
AdministerExpires ==
    /\ \/ st = "pending" /\ st' = "expired"
       \/ st = "paid" /\ st' = "refunded"
    /\ UNCHANGED <<paid, pc, ans, reg, ch, fin, chs>>

\* The administrator cancels a pending order or refunds a paid one.
Administer ==
    /\ \/ st = "pending" /\ st' = "failed"
       \/ st = "paid" /\ st' = "refunded"
    /\ UNCHANGED <<paid, pc, ans, reg, ch, fin, chs>>

WaiterStep(w) ==
    Look(w) \/ WaitFor(w) \/ Woken(w) \/ Tick(w) \/ Query(w) \/ Again(w)

Next ==
    \/ \E w \in Waiters :
          \/ Request(w) \/ Look(w) \/ WaitFor(w) \/ Woken(w) \/ Tick(w)
          \/ Query(w) \/ Again(w) \/ Deadline(w) \/ Disconnect(w)
    \/ Finalize \/ Grant \/ SignalTake \/ SignalSend
    \/ CustomerPays \/ Administer

Spec == Init /\ [][Next]_vars

\* Goroutines run on and tickers tick.
FairSpec ==
    /\ Spec
    /\ \A w \in Waiters : WF_vars(WaiterStep(w))
    /\ WF_vars(Grant \/ SignalTake \/ SignalSend)
-----------------------------------------------------------------------------
\* Types of the order, the waiters and the channel map (wait.go).
TypeOK ==
    /\ st \in OrderStatus
    /\ paid \in BOOLEAN
    /\ pc \in [Waiters -> Places]
    /\ ans \in [Waiters -> Answers]
    /\ reg \subseteq Waiters
    /\ ch \subseteq Waiters
    /\ fin \in [by : Waiters \cup {Other}, pc : {"free", "grant", "signal", "send"}]
    /\ chs \subseteq Waiters

(* The map of channels does not grow with the requests that come and go:   *)
(* a channel in the map, or on its way out of it, belongs to a request     *)
(* that is in its loop, and is in one place only (waitFor, unwait,         *)
(* signalOrder).                                                           *)
NoStrayChannel ==
    /\ \A w \in reg \cup ch \cup chs : pc[w] \in InLoop
    /\ reg \cap (ch \cup chs) = {}
    /\ ch \cap chs = {}

(* A waiter that has found the payment itself is the one whose             *)
(* finalizeOrder runs, and no other is: none is left behind in it, whether *)
(* the grant fails or the signal is sent (queryOrder, finalizeOrder).      *)
OneFinalizer ==
    /\ \A w \in Waiters : pc[w] = "busy" <=> fin.by = w /\ fin.pc # "free"
    /\ fin.pc = "free" => fin = NoFin

Received == {"paid", "refunded"}

(* No browser is told, and none is woken, but for an order that has been   *)
(* paid; an administrator may have refunded it since (handlePayWait,       *)
(* signalOrder).                                                           *)
ToldIsTrue ==
    /\ \/ \E w \in Waiters : ans[w] = "paid"
       \/ ch \cup chs # {}
       \/ fin.pc # "free"
       => st \in Received
    /\ st \in Received => paid

(* A waiter of a paid order is not left hanging until the deadline, though *)
(* its signal may have been missed or never sent (the ticker of            *)
(* handlePayWait).                                                         *)
PaidIsTold ==
    \A w \in Waiters : (pc[w] = "wait" /\ st = "paid") ~> (ans[w] # "none" \/ st # "paid")
=============================================================================
