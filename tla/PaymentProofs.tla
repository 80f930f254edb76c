---------------------------- MODULE PaymentProofs ----------------------------
(***************************************************************************)
(* Proofs about Payment, for any number of orders and goroutines, any      *)
(* limit of the poller and any number of faults and refunds.               *)
(*                                                                         *)
(* Ledger is not inductive: that GrantFromOrder settles the one grant that *)
(* is under way needs that only one goroutine is past MarkOrderPaid, which *)
(* is what pollMu gives (OneHolder), and that a goroutine at work has an   *)
(* order to work on (Busy).                                                *)
(***************************************************************************)
EXTENDS Payment, TLAPS

OneHolder ==
    \A v, w \in Threads : job[v].pc \in Holding /\ job[w].pc \in Holding => v = w

Busy == \A w \in Threads : job[w].pc # "idle" => job[w].order \in Orders

IInv == TypeOK /\ OneHolder /\ Busy /\ Ledger
-----------------------------------------------------------------------------
(* What Idle, Start and Goto make of a job is a job.                       *)
LEMMA IdleJob == Idle \in Job /\ Idle.pc = "idle" /\ Idle.pc \notin Holding
  BY DEF Idle, Job, Phases, Holding

LEMMA PhaseJob ==
  ASSUME NEW j \in Job, NEW pc \in Phases
  PROVE  /\ [j EXCEPT !.pc = pc] \in Job
         /\ [j EXCEPT !.pc = pc].pc = pc
         /\ [j EXCEPT !.pc = pc].order = j.order
  BY DEF Job

LEMMA NewJob ==
  ASSUME NEW pc \in Phases, NEW o \in Orders, NEW ack \in BOOLEAN
  PROVE  [pc |-> pc, order |-> o, ack |-> ack] \in Job
  BY DEF Job

(* A goroutine that neither was, nor comes, between MarkOrderPaid and      *)
(* UpsertMAC changes no Owed.                                              *)
LEMMA OwedSame ==
  ASSUME job \in [Threads -> Job], NEW w \in Threads, NEW j \in Job,
         job' = [job EXCEPT ![w] = j],
         job[w].pc # "grant", j.pc # "grant", NEW o
  PROVE  Owed(o)' <=> Owed(o)
  <1>1. \A v \in Threads \ {w} : job'[v] = job[v]
    OBVIOUS
  <1>2. job'[w] = j
    OBVIOUS
  <1> QED
    BY <1>1, <1>2 DEF Owed, At

(* An order whose status stays paid or stays unpaid, and whose entry gains *)
(* neither a grant nor a loss nor a refund, stays balanced.                *)
LEMMA StaysBalanced ==
  ASSUME NEW o \in Orders, Balanced(o), Owed(o)' <=> Owed(o),
         st'[o] = "paid" <=> st[o] = "paid",
         book'[o].refunded = book[o].refunded,
         book'[o].granted = book[o].granted,
         book'[o].lost = book[o].lost
  PROVE  Balanced(o)'
  BY Zenon DEF Balanced

(* What a step of one goroutine has to establish.                          *)
LEMMA StepKeeps ==
  ASSUME IInv, NEW w \in Threads, NEW j \in Job, job' = [job EXCEPT ![w] = j],
         j.pc # "idle" => j.order \in Orders,
         j.pc \in Holding => job[w].pc \in Holding \/ pollMuFree,
         st' \in [Orders -> OrderStatus], psp' \in [Orders -> PspState],
         acked' \subseteq Orders, fresh' \subseteq Orders, aged' \subseteq Orders,
         todo' \subseteq Orders, hasRow' \in BOOLEAN,
         book' \in [Orders -> Entry], budget' \in 0..MaxFaults,
         \A o \in Orders : Balanced(o)'
  PROVE  IInv'
  <1>1. TypeOK'
    BY DEF IInv, TypeOK
  <1>2. OneHolder'
    BY DEF IInv, TypeOK, OneHolder, pollMuFree
  <1>3. Busy'
    BY DEF IInv, TypeOK, Busy
  <1> QED
    BY <1>1, <1>2, <1>3 DEF IInv, Ledger

(* A step of one goroutine, outside the two commits, that changes neither  *)
(* the orders nor the history.                                             *)
LEMMA QuietStep ==
  ASSUME IInv, NEW w \in Threads, NEW j \in Job, job' = [job EXCEPT ![w] = j],
         j.pc # "idle" => j.order \in Orders,
         j.pc \in Holding => job[w].pc \in Holding,
         job[w].pc # "grant", j.pc # "grant",
         psp' \in [Orders -> PspState],
         acked' \subseteq Orders, fresh' \subseteq Orders, aged' \subseteq Orders,
         todo' \subseteq Orders, hasRow' \in BOOLEAN, budget' \in 0..MaxFaults,
         UNCHANGED <<st, book>>
  PROVE  IInv'
  <1>1. ASSUME NEW o \in Orders PROVE Balanced(o)'
    <2>1. Owed(o)' <=> Owed(o)
      BY OwedSame DEF IInv, TypeOK
    <2> QED
      BY <2>1, StaysBalanced DEF IInv, Ledger
  <1> QED
    BY <1>1, StepKeeps DEF IInv, TypeOK

(* The environment, administrators and time leave the goroutines alone.    *)
LEMMA OutsideStep ==
  ASSUME IInv, UNCHANGED <<job>>,
         st' \in [Orders -> OrderStatus], psp' \in [Orders -> PspState],
         acked' \subseteq Orders, fresh' \subseteq Orders, aged' \subseteq Orders,
         todo' \subseteq Orders, hasRow' \in BOOLEAN,
         book' \in [Orders -> Entry], budget' \in 0..MaxFaults,
         \A o \in Orders : Owed(o)' <=> Owed(o),
         \A o \in Orders :
            /\ book'[o].granted = book[o].granted
            /\ book'[o].lost = book[o].lost
            /\ book'[o].refunded + (IF st'[o] = "paid" THEN 1 ELSE 0)
                 = book[o].refunded + (IF st[o] = "paid" THEN 1 ELSE 0)
  PROVE  IInv'
  <1>1. TypeOK'
    BY DEF IInv, TypeOK
  <1>2. OneHolder' /\ Busy'
    BY DEF IInv, OneHolder, Busy
  <1>3. ASSUME NEW o \in Orders PROVE Balanced(o)'
    BY SMT DEF IInv, Ledger, Balanced
  <1> QED
    BY <1>1, <1>2, <1>3 DEF IInv, Ledger

LEMMA OwedOutside ==
  ASSUME UNCHANGED job PROVE \A o : Owed(o)' <=> Owed(o)
  BY DEF Owed, At

LEMMA BudgetStep ==
  ASSUME IInv, NEW kind, Fault(kind)
  PROVE  budget' \in 0..MaxFaults
  BY BoundsAssumption DEF IInv, TypeOK, Fault
-----------------------------------------------------------------------------
LEMMA InitHolds == Init => IInv
  <1> SUFFICES ASSUME Init PROVE IInv
    OBVIOUS
  <1> USE DEF Init
  <1>a. st \in [Orders -> OrderStatus] /\ psp \in [Orders -> PspState]
    BY DEF OrderStatus, PspState
  <1>b. job \in [Threads -> Job]
    BY IdleJob
  <1>c. NoEntry \in Entry
    BY DEF NoEntry, Entry
  <1>d. book \in [Orders -> Entry] /\ budget \in 0..MaxFaults
    BY <1>c, BoundsAssumption
  <1>1. TypeOK
    BY <1>a, <1>b, <1>d DEF TypeOK
  <1>2. OneHolder
    BY IdleJob DEF OneHolder
  <1>3. Busy
    BY IdleJob DEF Busy
  <1>4. ASSUME NEW o \in Orders PROVE Balanced(o)
    <2>1. ~Owed(o)
      BY IdleJob DEF Owed, At
    <2> QED
      BY <2>1 DEF Balanced, NoEntry
  <1> QED
    BY <1>1, <1>2, <1>3, <1>4 DEF IInv, Ledger

(* The handlers and the poller taking up an order.                         *)
LEMMA StartKeeps ==
  ASSUME IInv, NEW w \in Threads, NEW pc \in {"precreate", "ask", "want"},
         NEW o \in Orders, NEW ack \in BOOLEAN, Start(w, pc, o, ack),
         todo' \subseteq Orders,
         UNCHANGED <<st, psp, acked, fresh, aged, hasRow, book, budget>>
  PROVE  IInv'
  <1> DEFINE j == [pc |-> pc, order |-> o, ack |-> ack]
  <1>1. pc \in Phases /\ pc \notin Holding /\ pc # "grant"
    BY DEF Phases, Holding
  <1>2. j \in Job /\ j.pc = pc /\ j.order = o
    BY <1>1, NewJob
  <1>3. job' = [job EXCEPT ![w] = j] /\ job[w].pc = "idle"
    BY DEF Start, At
  <1> HIDE DEF j
  <1> QED
    BY <1>1, <1>2, <1>3, QuietStep DEF IInv, TypeOK

LEMMA CreateOrderKeeps ==
  ASSUME IInv, NEW w \in Threads, NEW o \in Orders, CreateOrder(w, o)
  PROVE  IInv'
  <1> DEFINE j == [pc |-> "precreate", order |-> o, ack |-> FALSE]
  <1>1. j \in Job /\ j.pc = "precreate" /\ j.order = o
    BY NewJob DEF Phases
  <1>2. job' = [job EXCEPT ![w] = j] /\ job[w].pc = "idle"
    BY DEF CreateOrder, Start, At
  <1> HIDE DEF j
  <1>3. ASSUME NEW p \in Orders PROVE Balanced(p)'
    <2>1. Owed(p)' <=> Owed(p)
      BY <1>1, <1>2, OwedSame DEF IInv, TypeOK
    <2>2. st'[p] = "paid" <=> st[p] = "paid"
      BY DEF CreateOrder, IInv, TypeOK
    <2> QED
      BY <2>1, <2>2, StaysBalanced DEF CreateOrder, IInv, Ledger
  <1>4. st' \in [Orders -> OrderStatus]
    BY DEF CreateOrder, IInv, TypeOK, OrderStatus
  <1> QED
    BY <1>1, <1>2, <1>3, <1>4, StepKeeps DEF CreateOrder, IInv, TypeOK, Holding

LEMMA PrecreateKeeps ==
  ASSUME IInv, NEW w \in Threads, Precreate(w)
  PROVE  IInv'
  <1>1. job' = [job EXCEPT ![w] = Idle] /\ job[w].pc = "precreate"
    BY DEF Precreate, At
  <1>2. psp' \in [Orders -> PspState]
    BY DEF Precreate, IInv, TypeOK, PspState
  <1>3. budget' \in 0..MaxFaults
    BY BudgetStep DEF Precreate, IInv, TypeOK
  <1> QED
    BY <1>1, <1>2, <1>3, IdleJob, QuietStep DEF Precreate, IInv, TypeOK

LEMMA PollListKeeps ==
  ASSUME IInv, PollList PROVE IInv'
  <1>1. todo' \subseteq Orders
    BY DEF PollList, Pollable
  <1> QED
    BY <1>1, OwedOutside, OutsideStep DEF PollList, IInv, TypeOK

LEMMA PollNextKeeps ==
  ASSUME IInv, PollNext PROVE IInv'
  <1>1. PICK o \in todo : Start(Poller, "ask", o, FALSE) /\ todo' = todo \ {o}
    BY DEF PollNext
  <1> QED
    BY <1>1, StartKeeps DEF PollNext, IInv, TypeOK, Threads

LEMMA QueryAnswerKeeps ==
  ASSUME IInv, NEW w \in Threads, QueryAnswer(w)
  PROVE  IInv'
  <1>1. job[w].pc = "ask" /\ job[w].order \in Orders /\ job[w] \in Job
    BY DEF QueryAnswer, At, IInv, Busy, TypeOK
  <1>2. fresh' \subseteq Orders
    BY <1>1 DEF QueryAnswer, IInv, TypeOK
  <1>3. budget' \in 0..MaxFaults
    BY BudgetStep DEF QueryAnswer, IInv, TypeOK
  <1>4. CASE Goto(w, "want")
    <2> DEFINE j == [job[w] EXCEPT !.pc = "want"]
    <2>1. "want" \in Phases
      BY DEF Phases
    <2>2. j \in Job /\ j.pc = "want" /\ j.order = job[w].order
      BY <1>1, <2>1, PhaseJob
    <2>3. job' = [job EXCEPT ![w] = j]
      BY <1>4 DEF Goto
    <2> HIDE DEF j
    <2> QED
      BY <1>1, <1>2, <1>3, <2>2, <2>3, QuietStep
         DEF QueryAnswer, IInv, TypeOK, Holding
  <1>5. CASE job' = [job EXCEPT ![w] = Idle]
    BY <1>1, <1>2, <1>3, <1>5, IdleJob, QuietStep DEF QueryAnswer, IInv, TypeOK
  <1> QED
    BY <1>4, <1>5 DEF QueryAnswer
-----------------------------------------------------------------------------
(* Inside finalizeOrder.                                                   *)
LEMMA ReturnBudget ==
  ASSUME IInv, NEW w \in Threads, NEW ok, Return(w, ok), job[w].order \in Orders
  PROVE  budget' \in 0..MaxFaults /\ acked' \subseteq Orders
  <1>1. acked' \subseteq Orders
    BY DEF Return, IInv, TypeOK
  <1>2. budget' \in 0..MaxFaults
    BY BudgetStep DEF Return, IInv, TypeOK
  <1> QED
    BY <1>1, <1>2

(* Whoever holds pollMu finds nothing owed, and owes one grant once        *)
(* MarkOrderPaid has committed, until UpsertMAC has.                       *)
LEMMA MarkOwes ==
  ASSUME IInv, NEW w \in Threads, pollMuFree
  PROVE  /\ \A p : ~Owed(p)
         /\ Goto(w, "grant") => \A p : Owed(p)' <=> p = job[w].order
  <1>1. \A v \in Threads : job[v].pc # "grant"
    BY DEF pollMuFree, Holding
  <1>2. ASSUME Goto(w, "grant")
        PROVE  \A p : Owed(p)' <=> p = job[w].order
    <2> DEFINE j == [job[w] EXCEPT !.pc = "grant"]
    <2>1. "grant" \in Phases /\ job[w] \in Job
      BY DEF Phases, IInv, TypeOK
    <2>2. j.pc = "grant" /\ j.order = job[w].order
      BY <2>1, PhaseJob
    <2>3. job' = [job EXCEPT ![w] = j]
      BY <1>2 DEF Goto
    <2> HIDE DEF j
    <2>4. job'[w] = j /\ \A v \in Threads \ {w} : job'[v] = job[v]
      BY <2>3 DEF IInv, TypeOK
    <2> QED
      BY <1>1, <2>2, <2>4 DEF Owed, At
  <1> QED
    BY <1>1, <1>2 DEF Owed, At

LEMMA GrantOwes ==
  ASSUME IInv, NEW w \in Threads, job[w].pc = "grant"
  PROVE  \A p : Owed(p) <=> p = job[w].order
  <1>1. \A v \in Threads \ {w} : job[v].pc # "grant"
    BY DEF IInv, OneHolder, Holding
  <1> QED
    BY <1>1 DEF Owed, At

LEMMA GrantSettles ==
  ASSUME IInv, NEW w \in Threads, job[w].pc = "grant",
         NEW j \in Job, j.pc # "grant", job' = [job EXCEPT ![w] = j]
  PROVE  \A p : ~Owed(p)'
  <1>1. \A v \in Threads \ {w} : job[v].pc # "grant"
    BY DEF IInv, OneHolder, Holding
  <1> QED
    BY <1>1 DEF Owed, At, IInv, TypeOK

LEMMA MarkOrderPaidKeeps ==
  ASSUME IInv, NEW w \in Threads, MarkOrderPaid(w)
  PROVE  IInv'
  <1> DEFINE o == job[w].order
  <1>1. job[w].pc = "want" /\ o \in Orders /\ job[w] \in Job
    BY DEF MarkOrderPaid, At, IInv, Busy, TypeOK
  <1>2. CASE st[o] = "paid" /\ Return(w, TRUE) /\ UNCHANGED st
    <2>1. job' = [job EXCEPT ![w] = Idle]
      BY <1>2 DEF Return
    <2>2. budget' \in 0..MaxFaults /\ acked' \subseteq Orders
      BY <1>1, <1>2, ReturnBudget
    <2> QED
      BY <1>1, <1>2, <2>1, <2>2, IdleJob, QuietStep DEF MarkOrderPaid, IInv, TypeOK
  <1>3. CASE Fail(w, "db") /\ UNCHANGED st
    <2>1. job' = [job EXCEPT ![w] = Idle]
      BY <1>3 DEF Fail
    <2>2. budget' \in 0..MaxFaults /\ acked' \subseteq Orders
      BY <1>3, BudgetStep DEF Fail, IInv, TypeOK
    <2> QED
      BY <1>1, <1>3, <2>1, <2>2, IdleJob, QuietStep DEF MarkOrderPaid, IInv, TypeOK
  <1>4. CASE /\ st[o] # "paid"
             /\ st' = [st EXCEPT ![o] = "paid"]
             /\ Goto(w, "grant")
             /\ UNCHANGED <<acked, budget>>
    <2> DEFINE j == [job[w] EXCEPT !.pc = "grant"]
    <2>1. "grant" \in Phases
      BY DEF Phases
    <2>2. j \in Job /\ j.pc = "grant" /\ j.order = o
      BY <1>1, <2>1, PhaseJob
    <2>3. job' = [job EXCEPT ![w] = j]
      BY <1>4 DEF Goto
    <2> HIDE DEF j
    <2>4. pollMuFree /\ UNCHANGED book
      BY DEF MarkOrderPaid
    <2>5. \A p : ~Owed(p)
      BY <1>4, <2>4, MarkOwes
    <2>6. \A p : Owed(p)' <=> p = o
      BY <1>1, <1>4, <2>4, MarkOwes
    <2>7. ASSUME NEW p \in Orders PROVE Balanced(p)'
      <3>1. Balanced(p) /\ book[p] \in Entry
        BY DEF IInv, Ledger, TypeOK
      <3>2. CASE p = o
        <4>1. st'[p] = "paid" /\ Owed(p)' /\ ~Owed(p) /\ st[p] # "paid" /\ book' = book
          BY <1>1, <1>4, <2>4, <2>5, <2>6, <3>2 DEF IInv, TypeOK
        <4>2. book[p].refunded = book[p].granted + book[p].lost
          BY <3>1, <4>1 DEF Balanced, Entry
        <4> QED
          BY <3>1, <4>1, <4>2 DEF Balanced, Entry
      <3>3. CASE p # o
        <4>1. st'[p] = st[p] /\ (Owed(p)' <=> Owed(p))
          BY <1>4, <2>5, <2>6, <3>3 DEF IInv, TypeOK
        <4> QED
          BY <2>4, <3>1, <4>1, StaysBalanced
      <3> QED
        BY <3>2, <3>3
    <2>8. st' \in [Orders -> OrderStatus]
      BY <1>4 DEF IInv, TypeOK, OrderStatus
    <2> QED
      BY <1>1, <1>4, <2>2, <2>3, <2>4, <2>7, <2>8, StepKeeps
         DEF MarkOrderPaid, IInv, TypeOK
  <1> QED
    BY <1>2, <1>3, <1>4 DEF MarkOrderPaid

LEMMA GrantFromOrderKeeps ==
  ASSUME IInv, NEW w \in Threads, GrantFromOrder(w)
  PROVE  IInv'
  <1> DEFINE o == job[w].order
  <1>1. job[w].pc = "grant" /\ o \in Orders /\ job[w] \in Job
    BY DEF GrantFromOrder, At, IInv, Busy, TypeOK
  <1>3. \A p : Owed(p) <=> p = o
    BY <1>1, GrantOwes
  <1>4. ASSUME NEW j \in Job, j.pc # "grant", job' = [job EXCEPT ![w] = j]
        PROVE  \A p : ~Owed(p)'
    BY <1>1, <1>4, GrantSettles
  <1>5. CASE /\ book' = [book EXCEPT ![o].granted = @ + 1]
             /\ hasRow' = TRUE
             /\ Goto(w, "reread")
             /\ UNCHANGED <<acked, budget>>
    <2> DEFINE j == [job[w] EXCEPT !.pc = "reread"]
    <2>1. "reread" \in Phases
      BY DEF Phases
    <2>2. j \in Job /\ j.pc = "reread" /\ j.order = o
      BY <1>1, <2>1, PhaseJob
    <2>3. job' = [job EXCEPT ![w] = j]
      BY <1>5 DEF Goto
    <2> HIDE DEF j
    <2>4. \A p : ~Owed(p)'
      BY <1>4, <2>2, <2>3
    <2>5. book' \in [Orders -> Entry]
      BY <1>1, <1>5 DEF IInv, TypeOK, Entry
    <2>6. ASSUME NEW p \in Orders PROVE Balanced(p)'
      <3>1. Balanced(p) /\ book[p] \in Entry /\ st' = st
        BY DEF IInv, Ledger, TypeOK, GrantFromOrder
      <3>2. CASE p = o
        <4>1. /\ book'[p].granted = book[p].granted + 1
              /\ book'[p].lost = book[p].lost
              /\ book'[p].refunded = book[p].refunded
          BY <1>1, <1>5, <3>2 DEF IInv, TypeOK, Entry
        <4>2. Owed(p) /\ ~Owed(p)'
          BY <1>3, <2>4, <3>2
        <4> QED
          BY <3>1, <4>1, <4>2 DEF Balanced, Entry
      <3>3. CASE p # o
        <4>1. book'[p] = book[p] /\ ~Owed(p) /\ ~Owed(p)'
          BY <1>3, <1>5, <2>4, <3>3 DEF IInv, TypeOK
        <4> QED
          BY <3>1, <4>1, StaysBalanced
      <3> QED
        BY <3>2, <3>3
    <2> QED
      BY <1>1, <1>5, <2>2, <2>3, <2>5, <2>6, StepKeeps
         DEF GrantFromOrder, IInv, TypeOK, Holding
  <1>6. CASE /\ Fail(w, "db")
             /\ book' = [book EXCEPT ![o].lost = @ + 1]
             /\ UNCHANGED hasRow
    <2>1. job' = [job EXCEPT ![w] = Idle]
      BY <1>6 DEF Fail
    <2>2. budget' \in 0..MaxFaults /\ acked' \subseteq Orders
      BY <1>6, BudgetStep DEF Fail, IInv, TypeOK
    <2>4. \A p : ~Owed(p)'
      BY <1>4, <2>1, IdleJob
    <2>5. book' \in [Orders -> Entry]
      BY <1>1, <1>6 DEF IInv, TypeOK, Entry
    <2>6. ASSUME NEW p \in Orders PROVE Balanced(p)'
      <3>1. Balanced(p) /\ book[p] \in Entry /\ st' = st
        BY DEF IInv, Ledger, TypeOK, GrantFromOrder
      <3>2. CASE p = o
        <4>1. /\ book'[p].granted = book[p].granted
              /\ book'[p].lost = book[p].lost + 1
              /\ book'[p].refunded = book[p].refunded
          BY <1>1, <1>6, <3>2 DEF IInv, TypeOK, Entry
        <4>2. Owed(p) /\ ~Owed(p)'
          BY <1>3, <2>4, <3>2
        <4> QED
          BY <3>1, <4>1, <4>2 DEF Balanced, Entry
      <3>3. CASE p # o
        <4>1. book'[p] = book[p] /\ ~Owed(p) /\ ~Owed(p)'
          BY <1>3, <1>6, <2>4, <3>3 DEF IInv, TypeOK
        <4> QED
          BY <3>1, <4>1, StaysBalanced
      <3> QED
        BY <3>2, <3>3
    <2> QED
      BY <1>1, <1>6, <2>1, <2>2, <2>5, <2>6, IdleJob, StepKeeps
         DEF GrantFromOrder, IInv, TypeOK
  <1> QED
    BY <1>5, <1>6 DEF GrantFromOrder

(* A process that dies forgets its goroutines; what was owed is lost.      *)
LEMMA DyingKeeps ==
  ASSUME IInv, ProcessDies, UNCHANGED <<st, psp, acked, fresh, aged, hasRow>>,
         budget' \in 0..MaxFaults
  PROVE  IInv'
  <1>1. job' \in [Threads -> Job] /\ \A v \in Threads : job'[v] = Idle
    BY IdleJob DEF ProcessDies
  <1>2. \A p : ~Owed(p)'
    BY <1>1, IdleJob DEF Owed, At
  <1>3. ASSUME NEW p \in Orders
        PROVE  book'[p] = IF Owed(p) THEN [book[p] EXCEPT !.lost = @ + 1] ELSE book[p]
    BY DEF ProcessDies, Owed
  <1>4. book' \in [Orders -> Entry]
    <2>1. book' = [p \in Orders |-> IF Owed(p) THEN [book[p] EXCEPT !.lost = @ + 1]
                                             ELSE book[p]]
      BY DEF ProcessDies, Owed
    <2>2. \A p \in Orders : book[p] \in Entry /\ [book[p] EXCEPT !.lost = @ + 1] \in Entry
      BY DEF IInv, TypeOK, Entry
    <2> QED
      BY <2>1, <2>2
  <1>5. ASSUME NEW p \in Orders PROVE Balanced(p)'
    <2>1. Balanced(p) /\ book[p] \in Entry
      BY DEF IInv, Ledger, TypeOK
    <2>2. CASE Owed(p)
      <3>1. /\ book'[p].granted = book[p].granted
            /\ book'[p].lost = book[p].lost + 1
            /\ book'[p].refunded = book[p].refunded
        BY <1>3, <2>1, <2>2 DEF Entry
      <3> QED
        BY <1>2, <2>1, <2>2, <3>1 DEF Balanced, Entry
    <2>3. CASE ~Owed(p)
      BY <1>2, <1>3, <2>1, <2>3, StaysBalanced
    <2> QED
      BY <2>2, <2>3
  <1>6. TypeOK'
    BY <1>1, <1>4 DEF ProcessDies, IInv, TypeOK
  <1>7. OneHolder' /\ Busy'
    BY <1>1, IdleJob DEF OneHolder, Busy
  <1> QED
    BY <1>5, <1>6, <1>7 DEF IInv, Ledger

LEMMA RereadKeeps ==
  ASSUME IInv, NEW w \in Threads, Reread(w)
  PROVE  IInv'
  <1>1. job[w].pc = "reread" /\ job[w].order \in Orders /\ job[w] \in Job
    BY DEF Reread, At, IInv, Busy, TypeOK
  <1>2. CASE hasRow /\ Goto(w, "add") /\ UNCHANGED <<acked, todo, book, budget>>
    <2> DEFINE j == [job[w] EXCEPT !.pc = "add"]
    <2>1. "add" \in Phases
      BY DEF Phases
    <2>2. j \in Job /\ j.pc = "add" /\ j.order = job[w].order
      BY <1>1, <2>1, PhaseJob
    <2>3. job' = [job EXCEPT ![w] = j]
      BY <1>2 DEF Goto
    <2> HIDE DEF j
    <2> QED
      BY <1>1, <1>2, <2>2, <2>3, QuietStep DEF Reread, IInv, TypeOK, Holding
  <1>3. CASE /\ ~hasRow
             /\ IF w = Poller THEN ProcessDies
                ELSE job' = [job EXCEPT ![w] = Idle] /\ UNCHANGED <<todo, book>>
             /\ UNCHANGED <<acked, budget>>
    <2>1. CASE w = Poller
      BY <1>3, <2>1, DyingKeeps DEF Reread, IInv, TypeOK
    <2>2. CASE w # Poller
      BY <1>1, <1>3, <2>2, IdleJob, QuietStep DEF Reread, IInv, TypeOK
    <2> QED
      BY <2>1, <2>2
  <1>4. CASE Fail(w, "db") /\ UNCHANGED <<todo, book>>
    <2>1. job' = [job EXCEPT ![w] = Idle] /\ acked' = acked
      BY <1>4 DEF Fail
    <2>2. budget' \in 0..MaxFaults
      BY <1>4, BudgetStep DEF Fail
    <2> QED
      BY <1>1, <1>4, <2>1, <2>2, IdleJob, QuietStep DEF Reread, IInv, TypeOK
  <1> QED
    BY <1>2, <1>3, <1>4 DEF Reread

LEMMA FwAddKeeps ==
  ASSUME IInv, NEW w \in Threads, FwAdd(w)
  PROVE  IInv'
  <1>1. job[w].pc = "add" /\ job[w].order \in Orders
    BY DEF FwAdd, At, IInv, Busy
  <1>2. job' = [job EXCEPT ![w] = Idle]
    BY DEF FwAdd, Return, Fail
  <1>3. budget' \in 0..MaxFaults /\ acked' \subseteq Orders
    <2>1. CASE Return(w, TRUE)
      BY <1>1, <2>1, ReturnBudget
    <2>2. CASE Fail(w, "fw")
      BY <2>2, BudgetStep DEF Fail, IInv, TypeOK
    <2> QED
      BY <2>1, <2>2 DEF FwAdd
  <1> QED
    BY <1>1, <1>2, <1>3, IdleJob, QuietStep DEF FwAdd, IInv, TypeOK
-----------------------------------------------------------------------------
(* Administrators, customers and time.                                     *)
LEMMA CancelKeeps ==
  ASSUME IInv, NEW o \in Orders, CancelPendingOrder(o) \/ CancelStalePendingOrders(o)
  PROVE  IInv'
  <1>1. UNCHANGED <<psp, acked, fresh, aged, job, todo, hasRow, book, budget>>
    BY DEF CancelPendingOrder, CancelStalePendingOrders
  <1>2. st' \in [Orders -> OrderStatus]
    BY DEF CancelPendingOrder, CancelStalePendingOrders, IInv, TypeOK, OrderStatus
  <1>3. \A p \in Orders : st'[p] = "paid" <=> st[p] = "paid"
    BY DEF CancelPendingOrder, CancelStalePendingOrders, IInv, TypeOK
  <1> QED
    BY <1>1, <1>2, <1>3, OwedOutside, OutsideStep DEF IInv, TypeOK

LEMMA MarkOrderRefundedKeeps ==
  ASSUME IInv, NEW o \in Orders, MarkOrderRefunded(o)
  PROVE  IInv'
  <1>1. book' \in [Orders -> Entry] /\ st' \in [Orders -> OrderStatus]
    <2> DEFINE e == [book[o] EXCEPT !.refunded = book[o].refunded + 1]
    <2>a. book[o] \in Entry /\ book \in [Orders -> Entry]
      BY DEF IInv, TypeOK
    <2>c. e \in Entry
      BY <2>a DEF Entry
    <2>d. book' = [book EXCEPT ![o] = e]
      BY <2>a DEF MarkOrderRefunded, Entry
    <2>1. \A p \in Orders : book'[p] \in Entry
      <3> HIDE DEF e
      <3> QED
        BY <2>a, <2>c, <2>d
    <2>2. DOMAIN book' = Orders /\ book' = [p \in DOMAIN book' |-> book'[p]]
      BY DEF MarkOrderRefunded, IInv, TypeOK
    <2>3. st' \in [Orders -> OrderStatus]
      BY DEF MarkOrderRefunded, IInv, TypeOK, OrderStatus
    <2> QED
      BY <2>1, <2>2, <2>3
  <1>2. \A p \in Orders \ {o} : book'[p] = book[p] /\ st'[p] = st[p]
    BY DEF MarkOrderRefunded, IInv, TypeOK
  <1>3. /\ st[o] = "paid" /\ st'[o] = "refunded"
        /\ book'[o].granted = book[o].granted
        /\ book'[o].lost = book[o].lost
        /\ book'[o].refunded = book[o].refunded + 1
    BY DEF MarkOrderRefunded, IInv, TypeOK, Entry
  <1>4. book[o].refunded \in Nat
    BY DEF IInv, TypeOK, Entry
  <1>5. \A p \in Orders :
          /\ book'[p].granted = book[p].granted
          /\ book'[p].lost = book[p].lost
          /\ book'[p].refunded + (IF st'[p] = "paid" THEN 1 ELSE 0)
               = book[p].refunded + (IF st[p] = "paid" THEN 1 ELSE 0)
    BY <1>2, <1>3, <1>4
  <1> QED
    BY <1>1, <1>5, OwedOutside, OutsideStep DEF MarkOrderRefunded, IInv, TypeOK

LEMMA PspKeeps ==
  ASSUME IInv, NEW o \in Orders, CustomerPays(o) \/ ConsoleRefund(o)
  PROVE  IInv'
  <1>1. UNCHANGED <<st, acked, fresh, aged, job, todo, hasRow, book, budget>>
    BY DEF CustomerPays, ConsoleRefund
  <1>2. psp' \in [Orders -> PspState]
    BY DEF CustomerPays, ConsoleRefund, IInv, TypeOK, PspState
  <1> QED
    BY <1>1, <1>2, OwedOutside, OutsideStep DEF IInv, TypeOK

LEMMA TimeKeeps ==
  ASSUME IInv, (\E o \in Orders : GoesStale(o) \/ Ages(o)) \/ DeleteMAC
  PROVE  IInv'
  <1>1. UNCHANGED <<st, psp, acked, job, todo, book, budget>>
    BY DEF GoesStale, Ages, DeleteMAC
  <1>2. fresh' \subseteq Orders /\ aged' \subseteq Orders /\ hasRow' \in BOOLEAN
    BY DEF GoesStale, Ages, DeleteMAC, IInv, TypeOK
  <1> QED
    BY <1>1, <1>2, OwedOutside, OutsideStep DEF IInv, TypeOK
-----------------------------------------------------------------------------
LEMMA NextKeeps == IInv /\ [Next]_vars => IInv'
  <1> SUFFICES ASSUME IInv, [Next]_vars PROVE IInv'
    OBVIOUS
  <1> USE DEF Threads
  <1>1. ASSUME NEW w \in Handlers, NEW o \in Orders, CreateOrder(w, o)
        PROVE  IInv'
    BY <1>1, CreateOrderKeeps
  <1>2. ASSUME NEW w \in Handlers, NEW o \in Orders, StatusQuery(w, o) \/ WaitQuery(w, o)
        PROVE  IInv'
    BY <1>2, StartKeeps DEF StatusQuery, WaitQuery, IInv, TypeOK
  <1>3. ASSUME NEW w \in Handlers, NEW o \in Orders, Notify(w, o)
        PROVE  IInv'
    BY <1>3, StartKeeps DEF Notify, IInv, TypeOK
  <1>4. CASE PollList
    BY <1>4, PollListKeeps
  <1>5. CASE PollNext
    BY <1>5, PollNextKeeps
  <1>6. ASSUME NEW w \in Threads, Precreate(w) \/ QueryAnswer(w) \/ MarkOrderPaid(w)
        PROVE  IInv'
    BY <1>6, PrecreateKeeps, QueryAnswerKeeps, MarkOrderPaidKeeps
  <1>7. ASSUME NEW w \in Threads, GrantFromOrder(w) \/ Reread(w) \/ FwAdd(w)
        PROVE  IInv'
    BY <1>7, GrantFromOrderKeeps, RereadKeeps, FwAddKeeps
  <1>8. ASSUME NEW o \in Orders, CancelPendingOrder(o) \/ CancelStalePendingOrders(o)
        PROVE  IInv'
    BY <1>8, CancelKeeps
  <1>9. ASSUME NEW o \in Orders, MarkOrderRefunded(o)
        PROVE  IInv'
    BY <1>9, MarkOrderRefundedKeeps
  <1>10. ASSUME NEW o \in Orders, CustomerPays(o) \/ ConsoleRefund(o)
         PROVE  IInv'
    BY <1>10, PspKeeps
  <1>11. CASE (\E o \in Orders : GoesStale(o) \/ Ages(o)) \/ DeleteMAC
    BY <1>11, TimeKeeps
  <1>12. CASE Crash
    BY <1>12, BudgetStep, DyingKeeps DEF Crash
  <1>13. CASE UNCHANGED vars
    <2>1. UNCHANGED <<st, psp, acked, fresh, aged, job, todo, hasRow, book, budget>>
      BY <1>13 DEF vars
    <2> QED
      BY <2>1, OwedOutside, OutsideStep DEF IInv, TypeOK
  <1> QED
    BY <1>1, <1>2, <1>3, <1>4, <1>5, <1>6, <1>7, <1>8, <1>9, <1>10, <1>11,
       <1>12, <1>13 DEF Next

(* The tables, the goroutines and the history keep their types.            *)
THEOREM PaymentTypes == Spec => []TypeOK
  <1>1. IInv => TypeOK
    BY DEF IInv
  <1> QED
    BY <1>1, InitHolds, NextKeeps, PTL DEF Spec

(* Every time an order became paid - first, or again after a refund - its  *)
(* days were granted once, or are about to be, or were lost to a failure;  *)
(* never twice, however notices, polls and queries overlap.                *)
THEOREM LedgerBalances == Spec => []Ledger
  <1>1. IInv => Ledger
    BY DEF IInv
  <1> QED
    BY <1>1, InitHolds, NextKeeps, PTL DEF Spec
-----------------------------------------------------------------------------
(* The provider is told SUCCESS by the goroutine that made the grant, or   *)
(* by one that found pollMu free.                                          *)
LEMMA AckStep ==
  ASSUME IInv, [Next]_vars, NEW o \in acked' \ acked, NEW w \in Threads,
         job[w].pc \in Holding
  PROVE  job'[w].pc = "idle"
  <1>1. PICK v \in Threads : MarkOrderPaid(v) \/ FwAdd(v)
    <2>1. acked' # acked
      OBVIOUS
    <2> QED
      BY <2>1 DEF Next, vars, CreateOrder, StatusQuery, WaitQuery, Notify, PollList,
         PollNext, Precreate, QueryAnswer, GrantFromOrder, Reread, Fail,
         CancelPendingOrder, CancelStalePendingOrders, MarkOrderRefunded,
         CustomerPays, ConsoleRefund, GoesStale, Ages, DeleteMAC, Crash
  <1>2. CASE MarkOrderPaid(v)
    BY <1>2 DEF MarkOrderPaid, pollMuFree
  <1>3. CASE FwAdd(v)
    <2>1. v = w
      BY <1>3 DEF FwAdd, At, IInv, OneHolder, Holding
    <2>2. job' = [job EXCEPT ![w] = Idle]
      BY <1>3, <2>1 DEF FwAdd, Return, Fail
    <2> QED
      BY <2>2, IdleJob DEF IInv, TypeOK
  <1> QED
    BY <1>1, <1>2, <1>3

(* No notice is accepted while the grant it reports may still fail in      *)
(* another goroutine.                                                      *)
THEOREM AckNeverOvertakes == Spec => AckWaitsForGrant
  <1>1. IInv /\ [Next]_vars =>
          [\A o \in acked' \ acked : \A w \in Threads :
             job[w].pc \in Holding /\ job[w].order = o => job'[w].pc = "idle"]_vars
    BY AckStep
  <1> QED
    BY <1>1, InitHolds, NextKeeps, PTL DEF Spec, AckWaitsForGrant
-----------------------------------------------------------------------------
(* Where a payment comes from: a goroutine inside finalizeOrder, and a     *)
(* grant in the history, go back to an order that exists and was paid for. *)
Funded == {o \in Orders : psp[o] \in {"paid", "returned"}}

Known ==
    /\ \A o \in Orders : psp[o] # "unknown" => st[o] # "none"
    /\ \A o \in todo : st[o] # "none"
    /\ \A w \in Threads : job[w].pc # "idle" => st[job[w].order] # "none"

Sourced ==
    /\ \A w \in Threads : job[w].pc \in Holding \cup {"want"} => job[w].order \in Funded
    /\ \A o \in Orders : book[o].granted > 0 => o \in Funded

LEMMA OriginInit == Init => Known /\ Sourced
  BY IdleJob DEF Init, Known, Sourced, NoEntry, Holding, Idle

(* A step of one goroutine that goes on with the order it had, or stops.   *)
LEMMA SameOrderStep ==
  ASSUME IInv, Known, Sourced, NEW w \in Threads, NEW j \in Job,
         job' = [job EXCEPT ![w] = j], job[w].pc # "idle",
         j.pc # "idle" => j.order = job[w].order,
         j.pc \in Holding \cup {"want"} =>
            job[w].pc \in Holding \cup {"want"} \/ job[w].order \in Funded',
         todo' = todo,
         \A o \in Orders : st[o] # "none" => st'[o] # "none",
         \A o \in Orders : psp'[o] # "unknown" => psp[o] # "unknown" \/ o = job[w].order,
         Funded \subseteq Funded',
         \A o \in Orders : book'[o].granted > 0 => book[o].granted > 0 \/ o \in Funded'
  PROVE  Known' /\ Sourced'
  <1>1. job'[w] = j /\ \A v \in Threads \ {w} : job'[v] = job[v]
    BY DEF IInv, TypeOK
  <1>2. \A v \in Threads : job[v].pc # "idle" => job[v].order \in Orders
    BY DEF IInv, Busy
  <1>3. todo \subseteq Orders
    BY DEF IInv, TypeOK
  <1>4. Known'
    BY <1>1, <1>2, <1>3 DEF Known
  <1>5. \A v \in Threads : job'[v].pc \in Holding \cup {"want"} => job'[v].order \in Funded'
    <2> SUFFICES ASSUME NEW v \in Threads, job'[v].pc \in Holding \cup {"want"}
                 PROVE  job'[v].order \in Funded'
      OBVIOUS
    <2>1. "idle" \notin Holding \cup {"want"}
      BY DEF Holding
    <2>2. CASE v = w
      <3>1. j.order = job[w].order /\ job[w].order \in Orders
        BY <1>1, <1>2, <2>1, <2>2
      <3>2. job[w].order \in Funded'
        BY <1>1, <2>2, <3>1 DEF Sourced
      <3> QED
        BY <1>1, <2>2, <3>1, <3>2
    <2>3. CASE v # w
      <3>1. job'[v] = job[v] /\ job[v].order \in Orders /\ job[v].order \in Funded
        BY <1>1, <1>2, <2>1, <2>3 DEF Sourced
      <3> QED
        BY <3>1
    <2> QED
      BY <2>2, <2>3
  <1> QED
    BY <1>4, <1>5 DEF Sourced

(* The other steps leave no goroutine with an order it did not have.       *)
LEMMA FewerJobsStep ==
  ASSUME IInv, Known, Sourced,
         \A v \in Threads : job'[v] = job[v] \/ job'[v].pc = "idle",
         \A o \in todo' : st'[o] # "none",
         \A o \in Orders : st[o] # "none" => st'[o] # "none",
         \A o \in Orders : psp'[o] # "unknown" => psp[o] # "unknown",
         Funded \subseteq Funded',
         \A o \in Orders : book'[o].granted > 0 => book[o].granted > 0
  PROVE  Known' /\ Sourced'
  <1>1. \A v \in Threads : job[v].pc # "idle" => job[v].order \in Orders
    BY DEF IInv, Busy
  <1>2. Known'
    BY <1>1 DEF Known
  <1>3. ASSUME NEW v \in Threads, job'[v].pc \in Holding \cup {"want"}
        PROVE  job'[v].order \in Funded'
    <2>1. job'[v] = job[v] /\ job[v].order \in Orders /\ job[v].order \in Funded
      BY <1>1, <1>3 DEF Sourced, Holding
    <2> QED
      BY <2>1
  <1> QED
    BY <1>2, <1>3 DEF Sourced

(* A goroutine takes up an order.                                          *)
LEMMA StartOrigin ==
  ASSUME IInv, Known, Sourced, NEW w \in Threads,
         NEW pc \in {"precreate", "ask", "want"},
         NEW o \in Orders, NEW ack \in BOOLEAN, Start(w, pc, o, ack),
         st'[o] # "none", pc = "want" => o \in Funded,
         \A p \in Orders : st[p] # "none" => st'[p] # "none",
         todo' \subseteq todo, UNCHANGED <<psp, book>>
  PROVE  Known' /\ Sourced'
  <1> DEFINE j == [pc |-> pc, order |-> o, ack |-> ack]
  <1>1. j.pc = pc /\ j.order = o /\ pc \notin Holding
    BY DEF Holding
  <1>2. job' = [job EXCEPT ![w] = j] /\ job[w].pc = "idle"
    BY DEF Start, At
  <1> HIDE DEF j
  <1>3. job'[w] = j /\ \A v \in Threads \ {w} : job'[v] = job[v]
    BY <1>2 DEF IInv, TypeOK
  <1>4. \A v \in Threads : job[v].pc # "idle" => job[v].order \in Orders
    BY DEF IInv, Busy
  <1>5. todo \subseteq Orders
    BY DEF IInv, TypeOK
  <1>6. Known'
    BY <1>1, <1>3, <1>4, <1>5 DEF Known
  <1>7. Sourced'
    <2>1. Funded' = Funded
      BY DEF Funded
    <2> QED
      BY <1>1, <1>3, <1>4, <2>1 DEF Sourced
  <1> QED
    BY <1>6, <1>7

(* Inside a goroutine the order stays the same, and it is entered for an   *)
(* order the provider says is paid.                                        *)
LEMMA ThreadOrigin ==
  ASSUME IInv, Known, Sourced, NEW w \in Threads, NEW pc \in Phases,
         job[w].pc # "idle", Goto(w, pc),
         pc \in Holding \cup {"want"} =>
            job[w].pc \in Holding \cup {"want"} \/ job[w].order \in Funded,
         UNCHANGED <<todo, psp>>,
         \A o \in Orders : st[o] # "none" => st'[o] # "none",
         \A o \in Orders : book'[o].granted > 0 => book[o].granted > 0 \/ o \in Funded
  PROVE  Known' /\ Sourced'
  <1> DEFINE j == [job[w] EXCEPT !.pc = pc]
  <1>1. j \in Job /\ j.pc = pc /\ j.order = job[w].order
    BY PhaseJob DEF IInv, TypeOK
  <1>2. job' = [job EXCEPT ![w] = j]
    BY DEF Goto
  <1>3. Funded' = Funded
    BY DEF Funded
  <1> HIDE DEF j
  <1> QED
    BY <1>1, <1>2, <1>3, SameOrderStep

LEMMA StopOrigin ==
  ASSUME IInv, Known, Sourced, NEW w \in Threads, job' = [job EXCEPT ![w] = Idle],
         todo' = todo, UNCHANGED <<st>>, Funded \subseteq Funded',
         \A o \in Orders : psp'[o] # "unknown" => st[o] # "none",
         \A o \in Orders : book'[o].granted > 0 => book[o].granted > 0
  PROVE  Known' /\ Sourced'
  <1>1. \A v \in Threads : job'[v] = job[v] \/ job'[v].pc = "idle"
    BY IdleJob DEF IInv, TypeOK
  <1>2. \A v \in Threads : job[v].pc # "idle" => job[v].order \in Orders
    BY DEF IInv, Busy
  <1>3. todo \subseteq Orders
    BY DEF IInv, TypeOK
  <1>4. Known'
    BY <1>1, <1>2, <1>3 DEF Known
  <1>5. Sourced'
    BY <1>1, <1>2 DEF Sourced, Holding
  <1> QED
    BY <1>4, <1>5

(* An order is announced to the provider once, by the goroutine that       *)
(* stored it.                                                              *)
Announcing ==
    \A w \in Threads : job[w].pc = "precreate" =>
        /\ psp[job[w].order] = "unknown"
        /\ \A v \in Threads \ {w} :
              job[v].pc = "precreate" => job[v].order # job[w].order

LEMMA NoNewAnnouncement ==
  ASSUME IInv, Announcing, NEW w \in Threads,
         \A v \in Threads \ {w} : job'[v] = job[v] \/ job'[v].pc = "idle",
         job'[w].pc # "precreate" \/ job'[w] = job[w],
         \A o \in Orders : psp[o] = "unknown" =>
             \/ psp'[o] = "unknown"
             \/ job[w].pc = "precreate" /\ job[w].order = o /\ job'[w].pc # "precreate"
  PROVE  Announcing'
  <1>1. \A v \in Threads : job[v].pc # "idle" => job[v].order \in Orders
    BY DEF IInv, Busy
  <1>2. \A v \in Threads : job'[v].pc = "precreate" => job'[v] = job[v]
    OBVIOUS
  <1>3. ASSUME NEW v \in Threads, job'[v].pc = "precreate"
        PROVE  psp'[job'[v].order] = "unknown"
    <2>1. job'[v] = job[v] /\ job[v].order \in Orders /\ psp[job[v].order] = "unknown"
      BY <1>1, <1>2, <1>3 DEF Announcing
    <2>2. job[w].pc = "precreate" /\ job[w].order = job[v].order => v = w
      BY <1>3, <2>1 DEF Announcing
    <2> QED
      BY <1>3, <2>1, <2>2
  <1> QED
    BY <1>2, <1>3 DEF Announcing

LEMMA GotoJob ==
  ASSUME IInv, NEW w \in Threads, NEW pc \in Phases, Goto(w, pc)
  PROVE  /\ job'[w].pc = pc /\ job'[w].order = job[w].order
         /\ \A v \in Threads \ {w} : job'[v] = job[v]
  <1>1. /\ [job[w] EXCEPT !.pc = pc].pc = pc
        /\ [job[w] EXCEPT !.pc = pc].order = job[w].order
    BY PhaseJob DEF IInv, TypeOK
  <1> QED
    BY <1>1 DEF Goto, IInv, TypeOK

LEMMA StopJob ==
  ASSUME IInv, NEW w \in Threads, job' = [job EXCEPT ![w] = Idle]
  PROVE  /\ job'[w].pc = "idle"
         /\ \A v \in Threads \ {w} : job'[v] = job[v]
  BY IdleJob DEF IInv, TypeOK

LEMMA ThreadAnnounces ==
  ASSUME IInv, Announcing, NEW w \in Threads, ThreadStep(w)
  PROVE  Announcing'
  <1> USE DEF At
  <1>1. /\ {"want", "grant", "reread", "add"} \subseteq Phases
        /\ "precreate" \notin {"want", "grant", "reread", "add"}
    BY DEF Phases
  <1>2. CASE Precreate(w)
    <2>1. \A o \in Orders : o # job[w].order => psp'[o] = psp[o]
      BY <1>2 DEF Precreate, IInv, TypeOK
    <2> QED
      BY <1>2, <2>1, StopJob, NoNewAnnouncement DEF Precreate
  <1>3. CASE ~Precreate(w)
    <2>1. UNCHANGED psp
      BY <1>3 DEF ThreadStep, QueryAnswer, MarkOrderPaid, GrantFromOrder, Reread, FwAdd
    <2>2. \/ \E pc \in {"want", "grant", "reread", "add"} : Goto(w, pc)
          \/ job' = [job EXCEPT ![w] = Idle]
          \/ ProcessDies
      BY <1>3 DEF ThreadStep, QueryAnswer, MarkOrderPaid, GrantFromOrder, Reread, FwAdd,
                  Return, Fail
    <2>3. CASE \E pc \in {"want", "grant", "reread", "add"} : Goto(w, pc)
      BY <1>1, <2>1, <2>3, GotoJob, NoNewAnnouncement
    <2>4. CASE job' = [job EXCEPT ![w] = Idle]
      BY <2>1, <2>4, StopJob, NoNewAnnouncement
    <2>5. CASE ProcessDies
      BY <2>5, IdleJob DEF ProcessDies, Announcing
    <2> QED
      BY <2>2, <2>3, <2>4, <2>5
  <1> QED
    BY <1>2, <1>3

LEMMA ThreadKeepsOrigin ==
  ASSUME IInv, Known, Sourced, Announcing, NEW w \in Threads, ThreadStep(w)
  PROVE  Known' /\ Sourced'
  <1> USE DEF At
  <1>0. job[w].pc # "idle" /\ job[w].order \in Orders
    BY DEF ThreadStep, Precreate, QueryAnswer, MarkOrderPaid, GrantFromOrder, Reread,
           FwAdd, IInv, Busy
  <1>1. CASE Precreate(w)
    <2>1. Funded \subseteq Funded'
      <3>1. \A o \in Orders : o # job[w].order => psp'[o] = psp[o]
        BY <1>1 DEF Precreate, IInv, TypeOK
      <3>2. job[w].order \notin Funded
        BY <1>1 DEF Precreate, Announcing, Funded
      <3> QED
        BY <3>1, <3>2 DEF Funded
    <2>2. \A o \in Orders : psp'[o] # "unknown" => st[o] # "none"
      BY <1>0, <1>1 DEF Precreate, Known, IInv, TypeOK
    <2> QED
      BY <1>1, <2>1, <2>2, StopOrigin DEF Precreate
  <1>2. CASE QueryAnswer(w)
    <2>1. "want" \in Phases
      BY DEF Phases
    <2>2. CASE psp[job[w].order] = "paid" /\ Goto(w, "want")
      BY <1>0, <1>2, <2>1, <2>2, ThreadOrigin DEF QueryAnswer, Funded
    <2>3. CASE job' = [job EXCEPT ![w] = Idle]
      BY <1>2, <2>3, StopOrigin DEF QueryAnswer, Funded, Known
    <2> QED
      BY <1>2, <2>2, <2>3 DEF QueryAnswer
  <1>3. CASE MarkOrderPaid(w)
    <2>1. "grant" \in Phases
      BY DEF Phases
    <2>2. CASE st' = [st EXCEPT ![job[w].order] = "paid"] /\ Goto(w, "grant")
      BY <1>0, <1>3, <2>1, <2>2, ThreadOrigin DEF MarkOrderPaid, IInv, TypeOK
    <2>3. CASE job' = [job EXCEPT ![w] = Idle] /\ UNCHANGED st
      BY <1>3, <2>3, StopOrigin DEF MarkOrderPaid, Funded, Known
    <2> QED
      BY <1>3, <2>2, <2>3 DEF MarkOrderPaid, Return, Fail
  <1>4. CASE GrantFromOrder(w)
    <2>1. "reread" \in Phases
      BY DEF Phases
    <2>2. CASE book' = [book EXCEPT ![job[w].order].granted = @ + 1] /\ Goto(w, "reread")
      <3>1. job[w].order \in Funded
        BY <1>4 DEF GrantFromOrder, Sourced, Holding
      <3>2. \A o \in Orders : book'[o].granted > 0 => book[o].granted > 0 \/ o \in Funded
        BY <2>2, <3>1 DEF IInv, TypeOK
      <3> QED
        BY <1>0, <1>4, <2>1, <2>2, <3>1, <3>2, ThreadOrigin DEF GrantFromOrder
    <2>3. CASE /\ book' = [book EXCEPT ![job[w].order].lost = @ + 1]
               /\ job' = [job EXCEPT ![w] = Idle]
      <3>1. \A o \in Orders : book'[o].granted = book[o].granted
        BY <2>3 DEF IInv, TypeOK, Entry
      <3> QED
        BY <1>4, <2>3, <3>1, StopOrigin DEF GrantFromOrder, Funded, Known
    <2> QED
      BY <1>4, <2>2, <2>3 DEF GrantFromOrder, Fail
  <1>5. CASE Reread(w)
    <2>1. "add" \in Phases
      BY DEF Phases
    <2>2. CASE Goto(w, "add") /\ UNCHANGED <<todo, book>>
      BY <1>0, <1>5, <2>1, <2>2, ThreadOrigin DEF Reread, Holding
    <2>3. CASE job' = [job EXCEPT ![w] = Idle] /\ UNCHANGED <<todo, book>>
      BY <1>5, <2>3, StopOrigin DEF Reread, Funded, Known
    <2>4. CASE ProcessDies
      <3>1. \A o \in Orders : book'[o].granted = book[o].granted
        BY <2>4 DEF ProcessDies, IInv, TypeOK, Entry
      <3> QED
        BY <1>5, <2>4, <3>1, IdleJob, FewerJobsStep DEF Reread, ProcessDies, Funded
    <2> QED
      BY <1>5, <2>2, <2>3, <2>4 DEF Reread, Fail
  <1>6. CASE FwAdd(w)
    <2>1. job' = [job EXCEPT ![w] = Idle]
      BY <1>6 DEF FwAdd, Return, Fail
    <2> QED
      BY <1>6, <2>1, StopOrigin DEF FwAdd, Funded, Known
  <1> QED
    BY <1>1, <1>2, <1>3, <1>4, <1>5, <1>6 DEF ThreadStep

KInv == IInv /\ Known /\ Sourced /\ Announcing

LEMMA KInvInit == Init => KInv
  BY InitHolds, OriginInit, IdleJob DEF KInv, Init, Announcing

LEMMA StartKeepsOrigin ==
  ASSUME KInv, NEW w \in Handlers, NEW o \in Orders,
         CreateOrder(w, o) \/ StatusQuery(w, o) \/ WaitQuery(w, o) \/ Notify(w, o)
  PROVE  Known' /\ Sourced' /\ Announcing'
  <1> USE DEF KInv, Threads
  <1>1. CASE CreateOrder(w, o)
    <2>1. st'[o] = "pending" /\ st[o] = "none" /\ \A p \in Orders : p # o => st'[p] = st[p]
      BY <1>1 DEF CreateOrder, IInv, TypeOK
    <2>2. Known' /\ Sourced'
      BY <1>1, <2>1, StartOrigin DEF CreateOrder
    <2>3. /\ job'[w].pc = "precreate" /\ job'[w].order = o /\ job[w].pc = "idle"
          /\ \A v \in Threads \ {w} : job'[v] = job[v]
      BY <1>1 DEF CreateOrder, Start, At, IInv, TypeOK
    <2>4. psp[o] = "unknown" /\ psp' = psp
      BY <1>1, <2>1 DEF CreateOrder, Known
    <2>5. \A v \in Threads : job[v].pc = "precreate" => job[v].order # o
      BY <2>1 DEF Known
    <2>6. Announcing'
      BY <2>3, <2>4, <2>5 DEF Announcing
    <2> QED
      BY <2>2, <2>6
  <1>2. CASE StatusQuery(w, o) \/ WaitQuery(w, o)
    <2>1. Known' /\ Sourced'
      BY <1>2, StartOrigin DEF StatusQuery, WaitQuery
    <2>2. job'[w].pc = "ask" /\ \A v \in Threads \ {w} : job'[v] = job[v]
      BY <1>2 DEF StatusQuery, WaitQuery, Start, IInv, TypeOK
    <2> QED
      BY <1>2, <2>1, <2>2, NoNewAnnouncement DEF StatusQuery, WaitQuery
  <1>3. CASE Notify(w, o)
    <2>1. o \in Funded /\ st[o] # "none"
      BY <1>3 DEF Notify, Funded, Known
    <2>2. Known' /\ Sourced'
      BY <1>3, <2>1, StartOrigin DEF Notify
    <2>3. job'[w].pc = "want" /\ \A v \in Threads \ {w} : job'[v] = job[v]
      BY <1>3 DEF Notify, Start, IInv, TypeOK
    <2> QED
      BY <1>3, <2>2, <2>3, NoNewAnnouncement DEF Notify
  <1> QED
    BY <1>1, <1>2, <1>3

LEMMA PollKeepsOrigin ==
  ASSUME KInv, PollList \/ PollNext
  PROVE  Known' /\ Sourced' /\ Announcing'
  <1> USE DEF KInv
  <1>1. CASE PollList
    <2>1. \A o \in todo' : st[o] # "none"
      BY <1>1 DEF PollList, Pollable
    <2>2. Known' /\ Sourced'
      BY <1>1, <2>1, FewerJobsStep DEF PollList, Funded
    <2> QED
      BY <1>1, <2>2 DEF PollList, Announcing
  <1>2. CASE PollNext
    <2>1. PICK o \in todo : Start(Poller, "ask", o, FALSE) /\ todo' = todo \ {o}
      BY <1>2 DEF PollNext
    <2>2. o \in Orders /\ st[o] # "none" /\ Poller \in Threads
      BY DEF IInv, TypeOK, Known, Threads
    <2>3. Known' /\ Sourced'
      BY <1>2, <2>1, <2>2, StartOrigin DEF PollNext
    <2>4. job'[Poller].pc = "ask" /\ \A v \in Threads \ {Poller} : job'[v] = job[v]
      BY <2>1, <2>2 DEF Start, IInv, TypeOK
    <2> QED
      BY <1>2, <2>2, <2>3, <2>4, NoNewAnnouncement DEF PollNext
  <1> QED
    BY <1>1, <1>2

LEMMA OutsideOrigin ==
  ASSUME KInv, UNCHANGED <<job, todo>>,
         \A o \in Orders : st[o] # "none" => st'[o] # "none",
         \A o \in Orders : psp'[o] = psp[o] \/ psp[o] = "offered" \/ psp'[o] = "returned",
         \A o \in Orders : psp'[o] \in {"paid", "returned"} \/ psp'[o] = psp[o],
         \A o \in Orders : psp'[o] # "unknown" => psp[o] # "unknown",
         \A o \in Orders : book'[o].granted = book[o].granted
  PROVE  Known' /\ Sourced' /\ Announcing'
  <1> USE DEF KInv
  <1>1. Funded \subseteq Funded'
    BY DEF Funded
  <1>2. \A o \in todo' : st'[o] # "none"
    BY DEF Known, IInv, TypeOK
  <1>3. Known' /\ Sourced'
    BY <1>1, <1>2, FewerJobsStep
  <1>4. \A w \in Threads : job[w].pc # "idle" => job[w].order \in Orders
    BY DEF IInv, Busy
  <1>5. Announcing'
    BY <1>4 DEF Announcing
  <1> QED
    BY <1>3, <1>5

LEMMA KInvNext == KInv /\ [Next]_vars => KInv'
  <1> SUFFICES ASSUME KInv, [Next]_vars PROVE Known' /\ Sourced' /\ Announcing'
    BY NextKeeps DEF KInv
  <1>1. ASSUME NEW w \in Handlers, NEW o \in Orders,
               CreateOrder(w, o) \/ StatusQuery(w, o) \/ WaitQuery(w, o) \/ Notify(w, o)
        PROVE  Known' /\ Sourced' /\ Announcing'
    BY <1>1, StartKeepsOrigin
  <1>2. CASE PollList \/ PollNext
    BY <1>2, PollKeepsOrigin
  <1>3. ASSUME NEW w \in Threads, ThreadStep(w)
        PROVE  Known' /\ Sourced' /\ Announcing'
    BY <1>3, ThreadKeepsOrigin, ThreadAnnounces DEF KInv
  <1>4. ASSUME NEW o \in Orders, CancelPendingOrder(o) \/ CancelStalePendingOrders(o)
        PROVE  Known' /\ Sourced' /\ Announcing'
    <2>1. \A p \in Orders : st[p] # "none" => st'[p] # "none"
      BY <1>4 DEF CancelPendingOrder, CancelStalePendingOrders, KInv, IInv, TypeOK
    <2> QED
      BY <1>4, <2>1, OutsideOrigin DEF CancelPendingOrder, CancelStalePendingOrders
  <1>5. ASSUME NEW o \in Orders, MarkOrderRefunded(o)
        PROVE  Known' /\ Sourced' /\ Announcing'
    <2>1. \A p \in Orders : st[p] # "none" => st'[p] # "none"
      BY <1>5 DEF MarkOrderRefunded, KInv, IInv, TypeOK
    <2>2. \A p \in Orders : book'[p].granted = book[p].granted
      BY <1>5 DEF MarkOrderRefunded, KInv, IInv, TypeOK, Entry
    <2> QED
      BY <1>5, <2>1, <2>2, OutsideOrigin DEF MarkOrderRefunded
  <1>6. ASSUME NEW o \in Orders, CustomerPays(o) \/ ConsoleRefund(o)
        PROVE  Known' /\ Sourced' /\ Announcing'
    <2>1. \A p \in Orders :
             \/ psp'[p] = psp[p]
             \/ psp[p] = "offered" /\ psp'[p] = "paid"
             \/ psp[p] = "paid" /\ psp'[p] = "returned"
      BY <1>6 DEF CustomerPays, ConsoleRefund, KInv, IInv, TypeOK
    <2> QED
      BY <1>6, <2>1, OutsideOrigin DEF CustomerPays, ConsoleRefund
  <1>7. CASE (\E o \in Orders : GoesStale(o) \/ Ages(o)) \/ DeleteMAC \/ UNCHANGED vars
    BY <1>7, OutsideOrigin DEF GoesStale, Ages, DeleteMAC, vars
  <1>8. CASE Crash
    <2>1. \A o \in Orders : book'[o].granted = book[o].granted
      BY <1>8 DEF Crash, ProcessDies, KInv, IInv, TypeOK, Entry
    <2>2. Known' /\ Sourced'
      BY <1>8, <2>1, IdleJob, FewerJobsStep DEF Crash, ProcessDies, Funded, KInv
    <2> QED
      BY <1>8, <2>2, IdleJob DEF Crash, ProcessDies, Announcing
  <1> QED
    BY <1>1, <1>2, <1>3, <1>4, <1>5, <1>6, <1>7, <1>8 DEF Next, ThreadStep

(* No device gets time for an order the provider was not paid for.         *)
THEOREM GrantsAreFunded == Spec => []NothingForFree
  <1>1. KInv => NothingForFree
    BY DEF KInv, Sourced, Funded, NothingForFree
  <1> QED
    BY <1>1, KInvInit, KInvNext, PTL DEF Spec
-----------------------------------------------------------------------------
(* The mapping to the order book.                                          *)
OwedOf == [o \in Orders |-> IF Owed(o) THEN 1 ELSE 0]

GrantedOf == [o \in Orders |-> book[o].granted]

LEMMA BookInit == Init => Book!Init
  <1> SUFFICES ASSUME Init PROVE Book!Init
    OBVIOUS
  <1>1. \A o : ~Owed(o)
    BY IdleJob DEF Init, Owed, At
  <1> QED
    BY <1>1 DEF Init, Book!Init, NoEntry

(* A step that touches neither status nor grants nor what is owed.         *)
LEMMA BookStutters ==
  ASSUME UNCHANGED st, \A o \in Orders : Owed(o)' <=> Owed(o),
         \A o \in Orders : book'[o].granted = book[o].granted
  PROVE  UNCHANGED Book!book
  BY DEF Book!book

LEMMA QuietStutters ==
  ASSUME IInv, NEW w \in Threads, NEW j \in Job, job' = [job EXCEPT ![w] = j],
         job[w].pc # "grant", j.pc # "grant", UNCHANGED <<st, book>>
  PROVE  UNCHANGED Book!book
  BY OwedSame, BookStutters DEF IInv, TypeOK

LEMMA BookOpen ==
  ASSUME IInv, NEW w \in Threads, NEW o \in Orders, CreateOrder(w, o)
  PROVE  Book!Open(o)
  <1> DEFINE j == [pc |-> "precreate", order |-> o, ack |-> FALSE]
  <1>1. j \in Job /\ j.pc = "precreate"
    BY NewJob DEF Phases
  <1>2. job' = [job EXCEPT ![w] = j] /\ job[w].pc = "idle"
    BY DEF CreateOrder, Start, At
  <1> HIDE DEF j
  <1>3. \A p \in Orders : Owed(p)' <=> Owed(p)
    BY <1>1, <1>2, OwedSame DEF IInv, TypeOK
  <1> QED
    BY <1>3 DEF CreateOrder, Book!Open

LEMMA BookAccept ==
  ASSUME IInv, Known, NEW w \in Threads, MarkOrderPaid(w), st' # st
  PROVE  Book!Accept(job[w].order)
  <1> DEFINE o == job[w].order
  <1>1. o \in Orders
    BY DEF MarkOrderPaid, At, IInv, Busy
  <1>2. /\ st[o] # "paid"
        /\ st' = [st EXCEPT ![o] = "paid"]
        /\ Goto(w, "grant")
        /\ pollMuFree
        /\ UNCHANGED book
    BY DEF MarkOrderPaid
  <1>3. st[o] # "none"
    BY DEF MarkOrderPaid, At, Known
  <1>4. \A p \in Orders : ~Owed(p) /\ (Owed(p)' <=> p = o)
    BY <1>2, MarkOwes
  <1>5. OwedOf' = [OwedOf EXCEPT ![o] = 1] /\ OwedOf[o] = 0
    BY <1>1, <1>4 DEF OwedOf
  <1>6. GrantedOf' = GrantedOf
    BY <1>2 DEF GrantedOf
  <1> QED
    BY <1>1, <1>2, <1>3, <1>5, <1>6 DEF Book!Accept, OwedOf, GrantedOf, IInv, TypeOK, OrderStatus

LEMMA BookCredit ==
  ASSUME IInv, NEW w \in Threads, GrantFromOrder(w), NEW o, o = job[w].order
  PROVE  Book!Credit(o) \/ Book!Forfeit(o)
  <1>1. job[w].pc = "grant" /\ o \in Orders /\ UNCHANGED st /\ "reread" \in Phases
    BY DEF GrantFromOrder, At, IInv, Busy, Phases
  <1>2. \A p \in Orders : Owed(p) <=> p = o
    BY <1>1, GrantOwes
  <1>3. \A p \in Orders : ~Owed(p)'
    <2>1. CASE Goto(w, "reread")
      <3>1. [job[w] EXCEPT !.pc = "reread"] \in Job
            /\ [job[w] EXCEPT !.pc = "reread"].pc = "reread"
        BY <1>1, PhaseJob DEF IInv, TypeOK
      <3> QED
        BY <1>1, <2>1, <3>1, GrantSettles DEF Goto
    <2>2. CASE job' = [job EXCEPT ![w] = Idle]
      BY <1>1, <2>2, IdleJob, GrantSettles
    <2> QED
      BY <2>1, <2>2 DEF GrantFromOrder, Fail
  <1>4. OwedOf' = [OwedOf EXCEPT ![o] = 0] /\ OwedOf[o] = 1
    BY <1>1, <1>2, <1>3 DEF OwedOf
  <1>5. CASE book' = [book EXCEPT ![o].granted = @ + 1]
    <2>1. GrantedOf' = [GrantedOf EXCEPT ![o] = @ + 1]
      BY <1>1, <1>5 DEF GrantedOf, IInv, TypeOK, Entry
    <2> QED
      BY <1>1, <1>4, <2>1 DEF Book!Credit, OwedOf, GrantedOf
  <1>6. CASE book' = [book EXCEPT ![o].lost = @ + 1]
    <2>1. GrantedOf' = GrantedOf
      BY <1>1, <1>6 DEF GrantedOf, IInv, TypeOK, Entry
    <2> QED
      BY <1>1, <1>4, <2>1 DEF Book!Forfeit, OwedOf, GrantedOf
  <1> QED
    BY <1>5, <1>6 DEF GrantFromOrder

LEMMA BookDies ==
  ASSUME IInv, ProcessDies, UNCHANGED st
  PROVE  (\E o \in Orders : Book!Forfeit(o)) \/ UNCHANGED Book!book
  <1>1. \A p \in Orders : ~Owed(p)'
    BY IdleJob DEF ProcessDies, Owed, At
  <1>2. \A p \in Orders : book'[p].granted = book[p].granted
    BY DEF ProcessDies, IInv, TypeOK, Entry
  <1>3. CASE \E w \in Threads : job[w].pc = "grant"
    <2>1. PICK w \in Threads : job[w].pc = "grant"
      BY <1>3
    <2> DEFINE o == job[w].order
    <2>2. o \in Orders /\ \A p \in Orders : Owed(p) <=> p = o
      BY <2>1, GrantOwes DEF IInv, Busy
    <2>3. OwedOf' = [OwedOf EXCEPT ![o] = 0] /\ OwedOf[o] = 1 /\ GrantedOf' = GrantedOf
      BY <1>1, <1>2, <2>2 DEF OwedOf, GrantedOf
    <2>4. Book!Forfeit(o)
      BY <2>3 DEF Book!Forfeit, OwedOf, GrantedOf
    <2> QED
      BY <2>2, <2>4
  <1>4. CASE \A w \in Threads : job[w].pc # "grant"
    <2>1. \A p \in Orders : ~Owed(p)
      BY <1>4 DEF Owed, At
    <2> QED
      BY <1>1, <1>2, <2>1, BookStutters
  <1> QED
    BY <1>3, <1>4

LEMMA BookGiveUp ==
  ASSUME IInv, NEW o \in Orders, CancelPendingOrder(o) \/ CancelStalePendingOrders(o)
  PROVE  \E S \in SUBSET Orders : Book!GiveUp(S)
  <1>1. OwedOf' = OwedOf /\ GrantedOf' = GrantedOf
    BY OwedOutside DEF CancelPendingOrder, CancelStalePendingOrders, OwedOf, GrantedOf
  <1>2. CASE CancelPendingOrder(o)
    <2>1. st' = [p \in Orders |-> IF p \in {o} THEN "failed" ELSE st[p]]
      BY <1>2 DEF CancelPendingOrder, IInv, TypeOK
    <2>2. Book!GiveUp({o})
      BY <1>1, <1>2, <2>1 DEF CancelPendingOrder, Book!GiveUp, OwedOf, GrantedOf
    <2> QED
      BY <2>2
  <1>3. CASE CancelStalePendingOrders(o)
    <2> DEFINE S == {p \in Orders : p <= o /\ st[p] = "pending"}
    <2>1. st' = [p \in Orders |-> IF p \in S THEN "failed" ELSE st[p]]
      BY <1>3 DEF CancelStalePendingOrders
    <2>2. Book!GiveUp(S)
      BY <1>1, <2>1 DEF Book!GiveUp, OwedOf, GrantedOf
    <2> QED
      BY <2>2
  <1> QED
    BY <1>2, <1>3

LEMMA BookRefund ==
  ASSUME IInv, NEW o \in Orders, MarkOrderRefunded(o)
  PROVE  Book!Refund(o)
  <1>1. \A p \in Orders : book'[p].granted = book[p].granted
    BY DEF MarkOrderRefunded, IInv, TypeOK, Entry
  <1>2. OwedOf' = OwedOf /\ GrantedOf' = GrantedOf
    BY <1>1, OwedOutside DEF MarkOrderRefunded, OwedOf, GrantedOf
  <1> QED
    BY <1>2 DEF MarkOrderRefunded, Book!Refund, OwedOf, GrantedOf

LEMMA BookThread ==
  ASSUME IInv, Known, NEW w \in Threads, ThreadStep(w)
  PROVE  Book!Next \/ UNCHANGED Book!book
  <1> USE DEF At
  <1>0. job[w].order \in Orders
    BY DEF ThreadStep, Precreate, QueryAnswer, MarkOrderPaid, GrantFromOrder, Reread,
           FwAdd, IInv, Busy
  <1>1. CASE MarkOrderPaid(w) /\ st' # st
    BY <1>0, <1>1, BookAccept DEF Book!Next
  <1>2. CASE GrantFromOrder(w)
    <2>1. PICK o \in Orders : o = job[w].order
      BY <1>0
    <2>2. Book!Credit(o) \/ Book!Forfeit(o)
      BY <1>2, <2>1, BookCredit
    <2> QED
      BY <2>2 DEF Book!Next
  <1>3. CASE Reread(w) /\ ProcessDies
    <2>1. UNCHANGED st
      BY <1>3 DEF Reread
    <2>2. (\E o \in Orders : Book!Forfeit(o)) \/ UNCHANGED Book!book
      BY <1>3, <2>1, BookDies
    <2> QED
      BY <2>2 DEF Book!Next
  <1>4. CASE /\ ~GrantFromOrder(w)
             /\ ~(MarkOrderPaid(w) /\ st' # st)
             /\ ~(Reread(w) /\ ProcessDies)
    <2>1. job[w].pc # "grant" /\ UNCHANGED <<st, book>>
      BY <1>4 DEF ThreadStep, Precreate, QueryAnswer, MarkOrderPaid, Reread, FwAdd
    <2>2. (\E pc \in {"want", "add"} : Goto(w, pc)) \/ job' = [job EXCEPT ![w] = Idle]
      <3>1. MarkOrderPaid(w) => job' = [job EXCEPT ![w] = Idle]
        <4>1. CASE st' = [st EXCEPT ![job[w].order] = "paid"] /\ st[job[w].order] # "paid"
          BY <1>0, <1>4, <4>1 DEF IInv, TypeOK
        <4> QED
          BY <4>1 DEF MarkOrderPaid, Return, Fail
      <3> QED
        BY <1>4, <3>1 DEF ThreadStep, Precreate, QueryAnswer, Reread, FwAdd, Return, Fail
    <2>3. ASSUME NEW pc \in {"want", "add"}, Goto(w, pc)
          PROVE  UNCHANGED Book!book
      <3>1. pc \in Phases /\ pc # "grant"
        BY DEF Phases
      <3>2. [job[w] EXCEPT !.pc = pc] \in Job /\ [job[w] EXCEPT !.pc = pc].pc = pc
        BY <3>1, PhaseJob DEF IInv, TypeOK
      <3> QED
        BY <2>1, <2>3, <3>1, <3>2, QuietStutters DEF Goto
    <2>4. CASE job' = [job EXCEPT ![w] = Idle]
      BY <2>1, <2>4, IdleJob, QuietStutters
    <2> QED
      BY <2>2, <2>3, <2>4
  <1> QED
    BY <1>1, <1>2, <1>3, <1>4

LEMMA BookStart ==
  ASSUME IInv, NEW w \in Threads, NEW o \in Orders, NEW pc \in {"ask", "want"},
         NEW ack \in BOOLEAN, Start(w, pc, o, ack), UNCHANGED <<st, book>>
  PROVE  UNCHANGED Book!book
  <1> DEFINE j == [pc |-> pc, order |-> o, ack |-> ack]
  <1>1. j \in Job /\ j.pc # "grant"
    BY NewJob DEF Phases
  <1>2. job' = [job EXCEPT ![w] = j] /\ job[w].pc # "grant"
    BY DEF Start, At
  <1> HIDE DEF j
  <1> QED
    BY <1>1, <1>2, QuietStutters

LEMMA BookStep == KInv /\ [Next]_vars => [Book!Next]_(Book!book)
  <1> SUFFICES ASSUME KInv, [Next]_vars PROVE Book!Next \/ UNCHANGED Book!book
    OBVIOUS
  <1> USE DEF KInv, Threads
  <1>1. ASSUME NEW w \in Handlers, NEW o \in Orders, CreateOrder(w, o)
        PROVE  Book!Next
    BY <1>1, BookOpen DEF Book!Next
  <1>2. ASSUME NEW w \in Handlers, NEW o \in Orders,
               StatusQuery(w, o) \/ WaitQuery(w, o) \/ Notify(w, o)
        PROVE  UNCHANGED Book!book
    BY <1>2, BookStart DEF StatusQuery, WaitQuery, Notify
  <1>3. CASE PollNext
    BY <1>3, BookStart DEF PollNext, IInv, TypeOK
  <1>4. ASSUME NEW w \in Threads, ThreadStep(w)
        PROVE  Book!Next \/ UNCHANGED Book!book
    BY <1>4, BookThread
  <1>5. ASSUME NEW o \in Orders, CancelPendingOrder(o) \/ CancelStalePendingOrders(o)
        PROVE  Book!Next
    BY <1>5, BookGiveUp DEF Book!Next
  <1>6. ASSUME NEW o \in Orders, MarkOrderRefunded(o)
        PROVE  Book!Next
    BY <1>6, BookRefund DEF Book!Next
  <1>7. CASE \/ PollList \/ DeleteMAC \/ UNCHANGED vars
             \/ \E o \in Orders : CustomerPays(o) \/ ConsoleRefund(o) \/ GoesStale(o) \/ Ages(o)
    <2>1. UNCHANGED <<st, job, book>>
      BY <1>7 DEF PollList, DeleteMAC, vars, CustomerPays, ConsoleRefund, GoesStale, Ages
    <2> QED
      BY <2>1, OwedOutside, BookStutters
  <1>8. CASE Crash
    BY <1>8, BookDies DEF Crash, Book!Next
  <1> QED
    BY <1>1, <1>2, <1>3, <1>4, <1>5, <1>6, <1>7, <1>8 DEF Next, ThreadStep

(* The goroutines, notices, polls and crashes of the code implement the    *)
(* order book.                                                             *)
THEOREM ImplementsOrderBook == Spec => KeepsTheBook
  <1> QED
    BY KInvInit, KInvNext, BookInit, BookStep, PTL DEF Spec, KInv, KeepsTheBook, Book!Spec
-----------------------------------------------------------------------------
(* A statement of the order book alone, carried over by the refinement.    *)
Unpaid == {"none", "pending", "failed"}

LEMMA UnpaidStep ==
  ASSUME st \in [Orders -> OrderStatus], Book!UnpaidGivesNothing, [Book!Next]_(Book!book)
  PROVE  Book!UnpaidGivesNothing'
  <1> DEFINE owed == [o \in Orders |-> IF Owed(o) THEN 1 ELSE 0]
             credited == [o \in Orders |-> book[o].granted]
             Nothing(o) == st[o] \in Unpaid => owed[o] = 0 /\ credited[o] = 0
  <1>1. Book!UnpaidGivesNothing <=> \A o \in Orders : Nothing(o)
    BY DEF Book!UnpaidGivesNothing, Unpaid
  <1>2. Book!UnpaidGivesNothing' <=> \A o \in Orders : Nothing(o)'
    BY DEF Book!UnpaidGivesNothing, Unpaid
  <1>3. DOMAIN owed = Orders /\ DOMAIN credited = Orders
    OBVIOUS
  <1>4. ASSUME NEW o \in Orders, NEW s \in OrderStatus, st' = [st EXCEPT ![o] = s],
               s \in Unpaid => st[o] \in Unpaid, owed' = owed, credited' = credited
        PROVE  \A p \in Orders : Nothing(p)'
    <2> HIDE DEF owed, credited
    <2> QED
      BY <1>1, <1>4
  <1>5. ASSUME NEW o \in Orders, Book!Accept(o)
        PROVE  \A p \in Orders : Nothing(p)'
    <2>1. st' = [st EXCEPT ![o] = "paid"] /\ owed' = [owed EXCEPT ![o] = 1]
          /\ credited' = credited
      BY <1>5 DEF Book!Accept
    <2> HIDE DEF owed, credited
    <2> QED
      BY <1>1, <1>3, <2>1 DEF Unpaid
  <1>6. ASSUME NEW o \in Orders, Book!Credit(o) \/ Book!Forfeit(o)
        PROVE  \A p \in Orders : Nothing(p)'
    <2>1. owed[o] = 1 /\ owed' = [owed EXCEPT ![o] = 0] /\ st' = st
      BY <1>6 DEF Book!Credit, Book!Forfeit
    <2>2. credited' = [credited EXCEPT ![o] = @ + 1] \/ credited' = credited
      BY <1>6 DEF Book!Credit, Book!Forfeit
    <2> HIDE DEF owed, credited
    <2> QED
      BY <1>1, <1>3, <2>1, <2>2
  <1>7. ASSUME NEW S \in SUBSET Orders, Book!GiveUp(S)
        PROVE  \A p \in Orders : Nothing(p)'
    <2>1. (\A o \in S : st[o] = "pending") /\ owed' = owed /\ credited' = credited
          /\ st' = [o \in Orders |-> IF o \in S THEN "failed" ELSE st[o]]
      BY <1>7 DEF Book!GiveUp
    <2> HIDE DEF owed, credited
    <2> QED
      BY <1>1, <2>1 DEF Unpaid
  <1>8. ASSUME NEW o \in Orders, Book!Open(o) \/ Book!Refund(o)
        PROVE  \A p \in Orders : Nothing(p)'
    <2>1. /\ owed' = owed /\ credited' = credited
          /\ \/ st[o] = "none" /\ st' = [st EXCEPT ![o] = "pending"]
             \/ st' = [st EXCEPT ![o] = "refunded"]
      BY <1>8 DEF Book!Open, Book!Refund
    <2> HIDE DEF owed, credited
    <2> QED
      BY <1>4, <2>1 DEF Unpaid, OrderStatus
  <1>9. CASE UNCHANGED Book!book
    <2>1. st' = st /\ owed' = owed /\ credited' = credited
      BY <1>9 DEF Book!book
    <2> HIDE DEF owed, credited
    <2> QED
      BY <1>1, <1>2, <2>1
  <1> HIDE DEF Nothing
  <1> QED
    BY <1>2, <1>5, <1>6, <1>7, <1>8, <1>9 DEF Book!Next

(* An order that still waits, or that an administrator or the cleanup has  *)
(* given up, has given no days and owes none, whatever notices, polls and  *)
(* crashes there were (CancelPendingOrder, CancelStalePendingOrders).      *)
THEOREM CancelledGaveNothing == Spec => []Book!UnpaidGivesNothing
  <1>1. Init => Book!UnpaidGivesNothing
    BY BookInit DEF Book!Init, Book!UnpaidGivesNothing
  <1>2. KInv => st \in [Orders -> OrderStatus]
    BY DEF KInv, IInv, TypeOK
  <1>3. st \in [Orders -> OrderStatus] /\ Book!UnpaidGivesNothing /\ [Book!Next]_(Book!book)
          => Book!UnpaidGivesNothing'
    BY UnpaidStep
  <1> QED
    BY <1>1, <1>2, <1>3, KInvInit, KInvNext, ImplementsOrderBook, PTL
       DEF Spec, KeepsTheBook, Book!Spec
=============================================================================
