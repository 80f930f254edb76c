-------------------------- MODULE MacServiceProofs --------------------------
(***************************************************************************)
(* Type correctness and InSync of MacService, for any set of devices, any  *)
(* number of handlers, every mix of operations and faults.                 *)
(*                                                                         *)
(* InSync speaks only of devices nobody is at work on.  The inductive      *)
(* invariant says, of the devices that have not drifted, what each job in  *)
(* flight relies on (Expects) and that no two jobs touch the same one      *)
(* (Exclusive).                                                            *)
(***************************************************************************)
EXTENDS MacService, TLAPS

(* Each phase uses the part of the job it needs. *)
Shape(t) ==
    /\ t.pc = "idle" => t.add = {} /\ t.rem = {}
    /\ t.pc \in {"reread", "claim", "sync", "flushed"} => t.rem = {}
    /\ t.pc \in {"mark", "list"} => t.add = {}
    /\ t.pc = "reread" => \A x, y \in t.add : x = y
    /\ t.add \cap t.rem = {}

JobShape == \A w \in Workers : Shape(job[w])

(* The mutex has one owner, and the set stays empty between flush and add. *)
OneFlusher ==
    \A w \in Workers : job[w].pc = "flushed" =>
        /\ fw = {}
        /\ \A v \in Workers : job[v].pc = "flushed" => v = w

(* What job w relies on for a device m that has not drifted. *)
Expects(w, m) ==
    /\ job[w].pc \in {"reread", "claim", "swap", "calls"} /\ m \in job[w].add
          => row[m].st = "active"
    /\ job[w].pc = "claim" /\ m \in job[w].add => Agree(m)
    /\ job[w].pc \in {"swap", "calls"} /\ m \in job[w].rem
          => row[m].st # "active" \/ row[m].sched
    /\ job[w].pc = "mark" /\ m \in job[w].rem => m \in Due
    /\ job[w].pc \in {"sync", "flushed"} =>
          /\ m \in job[w].add => row[m].st = "active"
          /\ Current(row[m]) => m \in job[w].add

Exclusive(m) ==
    \A v, w \in Workers : Touches(v, m) /\ Touches(w, m) => v = w

Settled(m) ==
    /\ Exclusive(m)
    /\ \A w \in Workers : Expects(w, m)
    /\ Quiet(m) => Agree(m)

IInv ==
    /\ TypeOK
    /\ JobShape
    /\ OneFlusher
    /\ \A m \in Macs : m \notin drift => Settled(m)
-----------------------------------------------------------------------------
LEMMA TypeInit == Init => TypeOK
  BY DEF Init, TypeOK, Row, Status, NoRow, Job, Idle, Phases

LEMMA IdleJob == Idle \in Job
  BY DEF Idle, Job, Phases

LEMMA TaskJob ==
  ASSUME NEW pc \in Phases, NEW add \in SUBSET Macs, NEW rem \in SUBSET Macs
  PROVE  /\ Task(pc, add, rem) \in Job
         /\ Task(pc, add, rem).pc = pc
         /\ Task(pc, add, rem).add = add
         /\ Task(pc, add, rem).rem = rem
  BY DEF Task, Job

LEMMA CallsJob ==
  ASSUME NEW add \in SUBSET Macs, NEW rem \in SUBSET Macs
  PROVE  /\ Calls(add, rem) \in Job
         /\ Calls(add, rem).pc = IF add \cup rem = {} THEN "idle" ELSE "calls"
         /\ Calls(add, rem).add = add
         /\ Calls(add, rem).rem = rem
  <1>1. CASE add \cup rem = {}
    <2>1. add = {} /\ rem = {}
      BY <1>1
    <2>2. QED
      BY <1>1, <2>1, IdleJob DEF Calls, Idle
  <1>2. CASE add \cup rem # {}
    <2>1. "calls" \in Phases
      BY DEF Phases
    <2>2. QED
      BY <1>2, <2>1, TaskJob DEF Calls
  <1>3. QED
    BY <1>1, <1>2
-----------------------------------------------------------------------------
(* What a worker's step has to establish. *)
LEMMA StepKeeps ==
  ASSUME IInv, NEW w \in Workers, NEW t \in Job, Shape(t), t.pc # "flushed",
         job' = [job EXCEPT ![w] = t],
         row' \in [Macs -> Row], fw' \subseteq Macs, drift' \subseteq Macs,
         fw' = fw \/ MuFree,
         \A n \in Macs : n \notin drift' => Settled(n)'
  PROVE  IInv'
  <1>1. TypeOK'
    BY DEF IInv, TypeOK
  <1>2. JobShape'
    BY DEF IInv, TypeOK, JobShape
  <1>3. OneFlusher'
    BY DEF IInv, TypeOK, OneFlusher, MuFree
  <1>4. QED
    BY <1>1, <1>2, <1>3 DEF IInv

(* A device the step has nothing to do with. *)
LEMMA Bystander ==
  ASSUME IInv, NEW w \in Workers, NEW t \in Job, job' = [job EXCEPT ![w] = t],
         NEW n \in Macs, n \notin drift,
         row'[n] = row[n], n \in fw' <=> n \in fw,
         job[w].pc \notin {"sync", "flushed"}, t.pc \notin {"sync", "flushed"},
         n \notin job[w].add \cup job[w].rem, n \notin t.add \cup t.rem
  PROVE  Settled(n)'
  <1>1. Settled(n)
    BY DEF IInv
  <1>2. \A v \in Workers : Touches(v, n)' <=> Touches(v, n)
    BY DEF IInv, TypeOK, Touches
  <1>3. Agree(n)' <=> Agree(n)
    BY DEF Agree, Current
  <1>4. Exclusive(n)'
    BY <1>1, <1>2 DEF Settled, Exclusive
  <1>5. Quiet(n)' => Agree(n)'
    BY <1>1, <1>2, <1>3 DEF Settled, Quiet
  <1>6. ASSUME NEW v \in Workers
        PROVE  Expects(v, n)'
    <2>1. Expects(v, n)
      BY <1>1 DEF Settled
    <2>2. n \in Due' <=> n \in Due
      BY DEF Due
    <2>3. CASE v = w
      <3>1. job'[v] = t
        BY <2>3 DEF IInv, TypeOK
      <3>2. QED
        BY <3>1 DEF Expects
    <2>4. CASE v # w
      <3>1. job'[v] = job[v]
        BY <2>4 DEF IInv, TypeOK
      <3>2. QED
        BY <3>1, <2>1, <2>2, <1>3 DEF Expects, Current
    <2>5. QED
      BY <2>3, <2>4
  <1>7. QED
    BY <1>4, <1>5, <1>6 DEF Settled

(* A device no other job touches. *)
LEMMA Alone ==
  ASSUME IInv, NEW w \in Workers, NEW t \in Job, job' = [job EXCEPT ![w] = t],
         NEW n \in Macs, \A v \in Workers \ {w} : ~Touches(v, n),
         Expects(w, n)', Touches(w, n)' \/ Agree(n)'
  PROVE  Settled(n)'
  <1>1. \A v \in Workers \ {w} : job'[v] = job[v] /\ ~Touches(v, n)'
    BY DEF IInv, TypeOK, Touches
  <1>2. Exclusive(n)'
    BY <1>1 DEF Exclusive
  <1>3. Quiet(n)' => Agree(n)'
    BY DEF Quiet
  <1>4. ASSUME NEW v \in Workers
        PROVE  Expects(v, n)'
    <2>1. CASE v = w
      BY <2>1
    <2>2. CASE v # w
      <3>1. ~Touches(v, n)'
        BY <1>1, <2>2
      <3>2. QED
        BY <3>1 DEF Expects, Touches
    <2>3. QED
      BY <2>1, <2>2
  <1>5. QED
    BY <1>2, <1>3, <1>4 DEF Settled

(* Of a device that has not drifted, the job that touches it is alone. *)
LEMMA Sole ==
  ASSUME IInv, NEW w \in Workers, NEW n \in Macs, n \notin drift, Touches(w, n)
  PROVE  \A v \in Workers \ {w} : ~Touches(v, n)
  BY DEF IInv, Settled, Exclusive

LEMMA Uncontended ==
  ASSUME NEW w \in Workers, NEW S \in SUBSET Macs, NEW n \in S,
         n \notin Contended(w, S)
  PROVE  \A v \in Workers \ {w} : ~Touches(v, n)
  BY DEF Contended

LEMMA ContendedType ==
  ASSUME NEW w \in Workers, NEW S \in SUBSET Macs
  PROVE  Contended(w, S) \subseteq Macs
  BY DEF Contended
-----------------------------------------------------------------------------
LEMMA GrantKeeps ==
  ASSUME IInv, NEW w \in Handlers, NEW m \in Macs, Grant(w, m)
  PROVE  IInv'
  <1> DEFINE t == Task("reread", {m}, {})
  <1>0. w \in Workers /\ job[w].pc = "idle" /\ Shape(job[w])
    BY DEF Workers, Grant, Request, IInv, JobShape
  <1>1. t \in Job /\ t.pc = "reread" /\ t.add = {m} /\ t.rem = {}
    BY TaskJob DEF Phases
  <1>2. row' \in [Macs -> Row] /\ row'[m].st = "active" /\ \A n \in Macs \ {m} : row'[n] = row[n]
    BY DEF IInv, TypeOK, Grant, UpsertMAC, Row, Status
  <1>3. job' = [job EXCEPT ![w] = t] /\ drift' = drift \cup Contended(w, {m}) /\ fw' = fw
    BY DEF Grant, Begin
  <1>4. ASSUME NEW n \in Macs, n \notin drift'
        PROVE  Settled(n)'
    <2>1. CASE n = m
      <3>1. \A v \in Workers \ {w} : ~Touches(v, n)
        BY <1>0, <1>3, <1>4, <2>1, Uncontended
      <3>2. Expects(w, n)' /\ Touches(w, n)'
        BY <1>0, <1>1, <1>2, <1>3, <2>1 DEF Expects, Touches, IInv, TypeOK
      <3>3. QED
        BY <1>0, <1>1, <1>3, <3>1, <3>2, Alone
    <2>2. CASE n # m
      BY <1>0, <1>1, <1>2, <1>3, <1>4, <2>2, Bystander DEF Shape
    <2>3. QED
      BY <2>1, <2>2
  <1>5. Shape(t)
    BY <1>1 DEF Shape
  <1>6. fw' \subseteq Macs /\ drift' \subseteq Macs
    BY <1>0, <1>3, ContendedType DEF IInv, TypeOK
  <1>7. QED
    BY <1>0, <1>1, <1>2, <1>3, <1>4, <1>5, <1>6, StepKeeps

LEMMA RereadKeeps ==
  ASSUME IInv, NEW w \in Workers, Reread(w)
  PROVE  IInv'
  <1> DEFINE gone == \E m \in job[w].add : row[m].st = "none"
             t == IF gone THEN Idle ELSE Calls(job[w].add, {})
  <1>0. Shape(job[w]) /\ job[w] \in Job /\ job[w].pc = "reread" /\ job[w].rem = {}
    BY DEF Reread, IInv, JobShape, TypeOK, Shape
  <1>1. job[w].add \in SUBSET Macs
    BY <1>0 DEF Job
  <1>2. /\ t \in Job /\ t.pc \in {"idle", "calls"} /\ t.add \subseteq job[w].add
        /\ t.rem = {} /\ Shape(t) /\ (~gone => t.add = job[w].add)
    <2>1. CASE gone
      BY <2>1, IdleJob DEF Idle, Shape
    <2>2. CASE ~gone
      BY <2>2, <1>1, CallsJob DEF Shape
    <2>3. QED
      BY <2>1, <2>2
  <1>3. job' = [job EXCEPT ![w] = t] /\ drift' = drift /\ fw' = fw /\ row' = row
    BY DEF Reread
  <1>4. ASSUME NEW n \in Macs, n \notin drift'
        PROVE  Settled(n)'
    <2>0. Settled(n)
      BY <1>3, <1>4 DEF IInv
    <2>1. CASE n \in job[w].add
      <3>1. \A v \in Workers \ {w} : ~Touches(v, n)
        BY <1>3, <1>4, <2>1, Sole DEF Touches
      <3>3. CASE gone
        <4>1. PICK m \in job[w].add : row[m].st = "none"
          BY <3>3
        <4>2. m = n
          BY <1>0, <2>1 DEF Shape
        <4>3. row[n].st = "active"
          BY <1>0, <2>0, <2>1 DEF Settled, Expects
        <4>4. QED
          BY <4>1, <4>2, <4>3
      <3>4. CASE ~gone
        <4>1. Expects(w, n)' /\ Touches(w, n)'
          BY <1>0, <1>2, <1>3, <2>0, <2>1, <3>4 DEF Settled, Expects, Touches, IInv, TypeOK
        <4>2. QED
          BY <1>2, <1>3, <3>1, <4>1, Alone
      <3>5. QED
        BY <3>3, <3>4
    <2>2. CASE n \notin job[w].add
      BY <1>0, <1>2, <1>3, <1>4, <2>2, Bystander
    <2>3. QED
      BY <2>1, <2>2
  <1>5. QED
    BY <1>2, <1>3, <1>4, StepKeeps DEF IInv, TypeOK

LEMMA RevokeKeeps ==
  ASSUME IInv, NEW w \in Handlers, NEW m \in Macs, Revoke(w, m)
  PROVE  IInv'
  <1> DEFINE t == Calls({}, {m})
  <1>0. w \in Workers /\ job[w].pc = "idle" /\ Shape(job[w])
    BY DEF Workers, Revoke, Request, IInv, JobShape
  <1>1. t \in Job /\ t.pc = "calls" /\ t.add = {} /\ t.rem = {m} /\ Shape(t)
    BY TaskJob, CallsJob DEF Phases, Shape
  <1>2. row' \in [Macs -> Row] /\ row'[m].st # "active" /\ \A n \in Macs \ {m} : row'[n] = row[n]
    BY DEF IInv, TypeOK, Revoke, SetMACStatus, Row, Status
  <1>3. job' = [job EXCEPT ![w] = t] /\ drift' = drift \cup Contended(w, {m}) /\ fw' = fw
    BY DEF Revoke, Begin
  <1>4. ASSUME NEW n \in Macs, n \notin drift'
        PROVE  Settled(n)'
    <2>1. CASE n = m
      <3>1. \A v \in Workers \ {w} : ~Touches(v, n)
        BY <1>0, <1>3, <1>4, <2>1, Uncontended
      <3>2. Expects(w, n)' /\ Touches(w, n)'
        BY <1>0, <1>1, <1>2, <1>3, <2>1 DEF Expects, Touches, IInv, TypeOK
      <3>3. QED
        BY <1>0, <1>1, <1>3, <3>1, <3>2, Alone
    <2>2. CASE n # m
      BY <1>0, <1>1, <1>2, <1>3, <1>4, <2>2, Bystander DEF Shape
    <2>3. QED
      BY <2>1, <2>2
  <1>5. fw' \subseteq Macs /\ drift' \subseteq Macs
    BY <1>0, <1>3, ContendedType DEF IInv, TypeOK
  <1>6. QED
    BY <1>0, <1>1, <1>2, <1>3, <1>4, <1>5, StepKeeps

LEMMA DeleteKeeps ==
  ASSUME IInv, NEW w \in Handlers, NEW m \in Macs, Delete(w, m)
  PROVE  IInv'
  <1> DEFINE t == Calls({}, {m})
  <1>0. w \in Workers /\ job[w].pc = "idle" /\ Shape(job[w])
    BY DEF Workers, Delete, Request, IInv, JobShape
  <1>1. t \in Job /\ t.pc = "calls" /\ t.add = {} /\ t.rem = {m} /\ Shape(t)
    BY TaskJob, CallsJob DEF Phases, Shape
  <1>2. row' \in [Macs -> Row] /\ row'[m].st # "active" /\ \A n \in Macs \ {m} : row'[n] = row[n]
    BY DEF IInv, TypeOK, Delete, NoRow, Row, Status
  <1>3. job' = [job EXCEPT ![w] = t] /\ drift' = drift \cup Contended(w, {m}) /\ fw' = fw
    BY DEF Delete, Begin
  <1>4. ASSUME NEW n \in Macs, n \notin drift'
        PROVE  Settled(n)'
    <2>1. CASE n = m
      <3>1. \A v \in Workers \ {w} : ~Touches(v, n)
        BY <1>0, <1>3, <1>4, <2>1, Uncontended
      <3>2. Expects(w, n)' /\ Touches(w, n)'
        BY <1>0, <1>1, <1>2, <1>3, <2>1 DEF Expects, Touches, IInv, TypeOK
      <3>3. QED
        BY <1>0, <1>1, <1>3, <3>1, <3>2, Alone
    <2>2. CASE n # m
      BY <1>0, <1>1, <1>2, <1>3, <1>4, <2>2, Bystander DEF Shape
    <2>3. QED
      BY <2>1, <2>2
  <1>5. fw' \subseteq Macs /\ drift' \subseteq Macs
    BY <1>0, <1>3, ContendedType DEF IInv, TypeOK
  <1>6. QED
    BY <1>0, <1>1, <1>2, <1>3, <1>4, <1>5, StepKeeps

LEMMA RefundKeeps ==
  ASSUME IInv, NEW w \in Handlers, NEW m \in Macs, Refund(w, m)
  PROVE  IInv'
  <1> DEFINE t == Task("list", {}, {m})
  <1>0. w \in Workers /\ job[w].pc = "idle" /\ Shape(job[w])
    BY DEF Workers, Refund, Request, IInv, JobShape
  <1>1. t \in Job /\ t.pc = "list" /\ t.add = {} /\ t.rem = {m} /\ Shape(t)
    BY TaskJob, CallsJob DEF Phases, Shape
  <1>2. row' \in [Macs -> Row] /\ TRUE /\ \A n \in Macs \ {m} : row'[n] = row[n]
    BY DEF IInv, TypeOK, Refund, Row, Status
  <1>3. job' = [job EXCEPT ![w] = t] /\ drift' = drift \cup Contended(w, {m}) /\ fw' = fw
    BY DEF Refund, Begin
  <1>4. ASSUME NEW n \in Macs, n \notin drift'
        PROVE  Settled(n)'
    <2>1. CASE n = m
      <3>1. \A v \in Workers \ {w} : ~Touches(v, n)
        BY <1>0, <1>3, <1>4, <2>1, Uncontended
      <3>2. Expects(w, n)' /\ Touches(w, n)'
        BY <1>0, <1>1, <1>2, <1>3, <2>1 DEF Expects, Touches, IInv, TypeOK
      <3>3. QED
        BY <1>0, <1>1, <1>3, <3>1, <3>2, Alone
    <2>2. CASE n # m
      BY <1>0, <1>1, <1>2, <1>3, <1>4, <2>2, Bystander DEF Shape
    <2>3. QED
      BY <2>1, <2>2
  <1>5. fw' \subseteq Macs /\ drift' \subseteq Macs
    BY <1>0, <1>3, ContendedType DEF IInv, TypeOK
  <1>6. QED
    BY <1>0, <1>1, <1>2, <1>3, <1>4, <1>5, StepKeeps

LEMMA ClaimCheckKeeps ==
  ASSUME IInv, NEW w \in Handlers, NEW m \in Macs, ClaimCheck(w, m)
  PROVE  IInv'
  <1> DEFINE t == Task("claim", {m}, {})
  <1>0. w \in Workers /\ job[w].pc = "idle" /\ Shape(job[w])
    BY DEF Workers, ClaimCheck, Request, IInv, JobShape
  <1>1. t \in Job /\ t.pc = "claim" /\ t.add = {m} /\ t.rem = {} /\ Shape(t)
    BY TaskJob, CallsJob DEF Phases, Shape
  <1>2. row' \in [Macs -> Row] /\ row' = row /\ Current(row[m]) /\ \A n \in Macs \ {m} : row'[n] = row[n]
    BY DEF IInv, TypeOK, ClaimCheck, Row, Status
  <1>3. job' = [job EXCEPT ![w] = t] /\ drift' = drift \cup Contended(w, {m}) /\ fw' = fw
    BY DEF ClaimCheck, Begin
  <1>4. ASSUME NEW n \in Macs, n \notin drift'
        PROVE  Settled(n)'
    <2>1. CASE n = m
      <3>1. \A v \in Workers \ {w} : ~Touches(v, n)
        BY <1>0, <1>3, <1>4, <2>1, Uncontended
      <3>2. Expects(w, n)' /\ Touches(w, n)'
        <4>1. Settled(n) /\ ~Touches(w, n)
          BY <1>0, <1>3, <1>4 DEF IInv, Touches, Shape
        <4>2. Agree(n) /\ row[n].st = "active"
          BY <1>2, <2>1, <3>1, <4>1 DEF Settled, Quiet, Current
        <4>3. QED
          BY <1>0, <1>1, <1>2, <1>3, <2>1, <4>2 DEF Expects, Touches, IInv, TypeOK, Agree, Current
      <3>3. QED
        BY <1>0, <1>1, <1>3, <3>1, <3>2, Alone
    <2>2. CASE n # m
      BY <1>0, <1>1, <1>2, <1>3, <1>4, <2>2, Bystander DEF Shape
    <2>3. QED
      BY <2>1, <2>2
  <1>5. fw' \subseteq Macs /\ drift' \subseteq Macs
    BY <1>0, <1>3, ContendedType DEF IInv, TypeOK
  <1>6. QED
    BY <1>0, <1>1, <1>2, <1>3, <1>4, <1>5, StepKeeps

LEMMA ReplaceKeeps ==
  ASSUME IInv, NEW w \in Handlers, NEW old \in Macs, NEW new \in Macs \ {old},
         Replace(w, old, new)
  PROVE  IInv'
  <1> DEFINE t == Task("swap", {new}, {old})
  <1>0. w \in Workers /\ job[w].pc = "idle" /\ Shape(job[w])
    BY DEF Workers, Replace, Request, IInv, JobShape
  <1>1. t \in Job /\ t.pc = "swap" /\ t.add = {new} /\ t.rem = {old} /\ Shape(t)
    <2>1. "swap" \in Phases /\ {new} \in SUBSET Macs /\ {old} \in SUBSET Macs
      BY DEF Phases
    <2>2. t \in Job /\ t.pc = "swap" /\ t.add = {new} /\ t.rem = {old}
      BY <2>1, TaskJob
    <2>3. {new} \cap {old} = {}
      OBVIOUS
    <2>4. QED
      BY <2>2, <2>3 DEF Shape
  <1>2. /\ row' \in [Macs -> Row]
        /\ row'[old].st = "none" /\ row'[new].st = "active"
        /\ \A n \in Macs \ {old, new} : row'[n] = row[n]
    BY DEF IInv, TypeOK, Replace, NoRow, Row, Status
  <1>3. job' = [job EXCEPT ![w] = t] /\ drift' = drift \cup Contended(w, {old, new}) /\ fw' = fw
    BY DEF Replace, Begin
  <1>4. ASSUME NEW n \in Macs, n \notin drift'
        PROVE  Settled(n)'
    <2>1. CASE n \in {old, new}
      <3>1. \A v \in Workers \ {w} : ~Touches(v, n)
        BY <1>0, <1>3, <1>4, <2>1, Uncontended
      <3>2. Expects(w, n)' /\ Touches(w, n)'
        BY <1>0, <1>1, <1>2, <1>3, <2>1 DEF Expects, Touches, IInv, TypeOK
      <3>3. QED
        BY <1>0, <1>1, <1>3, <3>1, <3>2, Alone
    <2>2. CASE n \notin {old, new}
      BY <1>0, <1>1, <1>2, <1>3, <1>4, <2>2, Bystander DEF Shape
    <2>3. QED
      BY <2>1, <2>2
  <1>5. fw' \subseteq Macs /\ drift' \subseteq Macs
    BY <1>0, <1>3, ContendedType DEF IInv, TypeOK
  <1>6. QED
    BY <1>0, <1>1, <1>2, <1>3, <1>4, <1>5, StepKeeps

LEMMA ReplaceRemoveKeeps ==
  ASSUME IInv, NEW w \in Workers, ReplaceRemove(w)
  PROVE  IInv'
  <1> DEFINE t == Calls(job[w].add, {})
  <1>0. job[w].pc = "swap" /\ job[w] \in Job /\ Shape(job[w]) /\ MuFree
    BY DEF ReplaceRemove, IInv, JobShape, TypeOK
  <1>1. job[w].add \in SUBSET Macs /\ job[w].rem \in SUBSET Macs
    BY <1>0 DEF Job
  <1>2. t \in Job /\ t.pc \in {"idle", "calls"} /\ t.add = job[w].add /\ t.rem = {} /\ Shape(t)
    BY <1>1, CallsJob DEF Shape
  <1>3. /\ job' = [job EXCEPT ![w] = t] /\ row' = row
        /\ drift \subseteq drift' /\ drift' \subseteq drift \cup job[w].rem
        /\ \/ fw' = fw \ job[w].rem
           \/ fw' = fw /\ job[w].rem \subseteq drift'
    BY DEF ReplaceRemove
  <1>4. ASSUME NEW n \in Macs, n \notin drift'
        PROVE  Settled(n)'
    <2>0. n \notin drift /\ Settled(n)
      BY <1>3, <1>4 DEF IInv
    <2>1. CASE n \in job[w].add \cup job[w].rem
      <3>1. \A v \in Workers \ {w} : ~Touches(v, n)
        BY <2>0, <2>1, Sole DEF Touches
      <3>2. Expects(w, n)'
        BY <1>0, <1>2, <1>3, <2>0 DEF Settled, Expects, IInv, TypeOK
      <3>3. CASE n \in job[w].add
        <4>1. Touches(w, n)'
          BY <1>2, <1>3, <3>3 DEF Touches, IInv, TypeOK
        <4>2. QED
          BY <1>2, <1>3, <3>1, <3>2, <4>1, Alone
      <3>4. CASE n \in job[w].rem
        <4>1. n \notin fw'
          BY <1>3, <1>4, <3>4
        <4>2. row[n].st # "active" \/ row[n].sched
          BY <1>0, <2>0, <3>4 DEF Settled, Expects
        <4>3. Agree(n)'
          BY <1>3, <4>1, <4>2 DEF Agree, Current
        <4>4. QED
          BY <1>2, <1>3, <3>1, <3>2, <4>3, Alone
      <3>5. QED
        BY <2>1, <3>3, <3>4
    <2>2. CASE n \notin job[w].add \cup job[w].rem
      <3>1. n \in fw' <=> n \in fw
        BY <1>3, <2>2
      <3>2. QED
        BY <1>0, <1>2, <1>3, <2>0, <2>2, <3>1, Bystander
    <2>3. QED
      BY <2>1, <2>2
  <1>5. fw' \subseteq Macs /\ drift' \subseteq Macs
    BY <1>1, <1>3 DEF IInv, TypeOK
  <1>6. QED
    BY <1>0, <1>2, <1>3, <1>4, <1>5, StepKeeps DEF IInv, TypeOK

LEMMA ClaimUpsertKeeps ==
  ASSUME IInv, NEW w \in Workers, ClaimUpsert(w)
  PROVE  IInv'
  <1>0. job[w].pc = "claim" /\ job[w] \in Job /\ Shape(job[w])
    BY DEF ClaimUpsert, IInv, JobShape, TypeOK
  <1>1. Idle \in Job /\ Idle.pc = "idle" /\ Idle.add = {} /\ Idle.rem = {} /\ Shape(Idle)
    BY IdleJob DEF Idle, Shape
  <1>2. row' = [m \in Macs |-> IF m \in job[w].add THEN UpsertMAC(row[m], 0) ELSE row[m]]
    BY DEF ClaimUpsert
  <1>3. row' \in [Macs -> Row]
    BY <1>2 DEF IInv, TypeOK, UpsertMAC, Row, Status
  <1>4. job' = [job EXCEPT ![w] = Idle] /\ drift' = drift /\ fw' = fw
    BY DEF ClaimUpsert
  <1>5. ASSUME NEW n \in Macs, n \notin drift'
        PROVE  Settled(n)'
    <2>0. n \notin drift /\ Settled(n)
      BY <1>4, <1>5 DEF IInv
    <2>1. CASE n \in job[w].add
      <3>1. \A v \in Workers \ {w} : ~Touches(v, n)
        BY <2>0, <2>1, Sole DEF Touches
      <3>2. row[n].st = "active" /\ Agree(n)
        BY <1>0, <2>0, <2>1 DEF Settled, Expects
      <3>3. row[n].due \in BOOLEAN /\ row'[n].st = "active" /\ row'[n].sched = row[n].sched
            /\ row'[n].due = ~Current(row[n])
        BY <1>2, <2>1 DEF IInv, TypeOK, UpsertMAC, Row
      <3>4. Agree(n)'
        BY <1>4, <3>2, <3>3 DEF Agree, Current
      <3>5. Expects(w, n)'
        BY <1>1, <1>4 DEF Expects, IInv, TypeOK
      <3>6. QED
        BY <1>1, <1>4, <3>1, <3>4, <3>5, Alone
    <2>2. CASE n \notin job[w].add
      <3>1. row'[n] = row[n]
        BY <1>2, <2>2
      <3>2. QED
        BY <1>0, <1>1, <1>4, <2>0, <2>2, <3>1, Bystander DEF Shape
    <2>3. QED
      BY <2>1, <2>2
  <1>6. QED
    BY <1>1, <1>3, <1>4, <1>5, StepKeeps DEF IInv, TypeOK

LEMMA FwAddKeeps ==
  ASSUME IInv, NEW w \in Workers, NEW m \in Macs, FwAdd(w, m)
  PROVE  IInv'
  <1> DEFINE t == Calls(job[w].add \ {m}, job[w].rem)
  <1>0. /\ job[w].pc = "calls" /\ m \in job[w].add /\ MuFree
        /\ job[w] \in Job /\ Shape(job[w])
    BY DEF FwAdd, IInv, JobShape, TypeOK
  <1>1. job[w].add \in SUBSET Macs /\ job[w].rem \in SUBSET Macs
    BY <1>0 DEF Job
  <1>2. t \in Job /\ t.pc \in {"idle", "calls"} /\ t.add = job[w].add \ {m} /\ t.rem = job[w].rem
    BY <1>1, CallsJob
  <1>3. Shape(t)
    <2>1. t.pc = "idle" => t.add = {} /\ t.rem = {}
      BY <1>1, <1>2, CallsJob
    <2>2. QED
      BY <1>0, <1>2, <2>1 DEF Shape
  <1>4. /\ job' = [job EXCEPT ![w] = t] /\ row' = row
        /\ drift \subseteq drift' /\ drift' \subseteq drift \cup {m}
        /\ \/ fw' = fw \cup {m}
           \/ fw' = fw /\ m \in drift'
    BY DEF FwAdd
  <1>5. ASSUME NEW n \in Macs, n \notin drift'
        PROVE  Settled(n)'
    <2>0. n \notin drift /\ Settled(n)
      BY <1>4, <1>5 DEF IInv
    <2>1. CASE n \in job[w].add \cup job[w].rem
      <3>1. \A v \in Workers \ {w} : ~Touches(v, n)
        BY <2>0, <2>1, Sole DEF Touches
      <3>2. Expects(w, n)'
        BY <1>0, <1>2, <1>4, <2>0 DEF Settled, Expects, IInv, TypeOK
      <3>3. CASE n # m
        <4>1. Touches(w, n)'
          BY <1>2, <1>4, <2>1, <3>3 DEF Touches, IInv, TypeOK
        <4>2. QED
          BY <1>2, <1>4, <3>1, <3>2, <4>1, Alone
      <3>4. CASE n = m
        <4>1. n \in fw' /\ row[n].st = "active"
          BY <1>0, <1>4, <1>5, <2>0, <3>4 DEF Settled, Expects
        <4>2. Agree(n)'
          BY <1>4, <4>1 DEF Agree
        <4>3. QED
          BY <1>2, <1>4, <3>1, <3>2, <4>2, Alone
      <3>5. QED
        BY <3>3, <3>4
    <2>2. CASE n \notin job[w].add \cup job[w].rem
      <3>1. n \in fw' <=> n \in fw
        BY <1>0, <1>4, <2>2
      <3>2. QED
        BY <1>0, <1>2, <1>4, <2>0, <2>2, <3>1, Bystander
    <2>3. QED
      BY <2>1, <2>2
  <1>6. fw' \subseteq Macs /\ drift' \subseteq Macs
    BY <1>4 DEF IInv, TypeOK
  <1>7. QED
    BY <1>0, <1>2, <1>3, <1>4, <1>5, <1>6, StepKeeps DEF IInv, TypeOK

LEMMA FwRemoveKeeps ==
  ASSUME IInv, NEW w \in Workers, NEW m \in Macs, FwRemove(w, m)
  PROVE  IInv'
  <1> DEFINE t == Calls(job[w].add, job[w].rem \ {m})
  <1>0. /\ job[w].pc = "calls" /\ m \in job[w].rem /\ MuFree
        /\ job[w] \in Job /\ Shape(job[w])
    BY DEF FwRemove, IInv, JobShape, TypeOK
  <1>1. job[w].add \in SUBSET Macs /\ job[w].rem \in SUBSET Macs
    BY <1>0 DEF Job
  <1>2. t \in Job /\ t.pc \in {"idle", "calls"} /\ t.add = job[w].add /\ t.rem = job[w].rem \ {m}
    BY <1>1, CallsJob
  <1>3. Shape(t)
    <2>1. t.pc = "idle" => t.add = {} /\ t.rem = {}
      BY <1>1, <1>2, CallsJob
    <2>2. QED
      BY <1>0, <1>2, <2>1 DEF Shape
  <1>4. /\ job' = [job EXCEPT ![w] = t] /\ row' = row
        /\ drift \subseteq drift' /\ drift' \subseteq drift \cup {m}
        /\ \/ fw' = fw \ {m}
           \/ fw' = fw /\ m \in drift'
    BY DEF FwRemove
  <1>5. ASSUME NEW n \in Macs, n \notin drift'
        PROVE  Settled(n)'
    <2>0. n \notin drift /\ Settled(n)
      BY <1>4, <1>5 DEF IInv
    <2>1. CASE n \in job[w].add \cup job[w].rem
      <3>1. \A v \in Workers \ {w} : ~Touches(v, n)
        BY <2>0, <2>1, Sole DEF Touches
      <3>2. Expects(w, n)'
        BY <1>0, <1>2, <1>4, <2>0 DEF Settled, Expects, IInv, TypeOK
      <3>3. CASE n # m
        <4>1. Touches(w, n)'
          BY <1>2, <1>4, <2>1, <3>3 DEF Touches, IInv, TypeOK
        <4>2. QED
          BY <1>2, <1>4, <3>1, <3>2, <4>1, Alone
      <3>4. CASE n = m
        <4>1. n \notin fw' /\ (row[n].st # "active" \/ row[n].sched)
          BY <1>0, <1>4, <1>5, <2>0, <3>4 DEF Settled, Expects
        <4>2. Agree(n)'
          BY <1>4, <4>1 DEF Agree, Current
        <4>3. QED
          BY <1>2, <1>4, <3>1, <3>2, <4>2, Alone
      <3>5. QED
        BY <3>3, <3>4
    <2>2. CASE n \notin job[w].add \cup job[w].rem
      <3>1. n \in fw' <=> n \in fw
        BY <1>0, <1>4, <2>2
      <3>2. QED
        BY <1>0, <1>2, <1>4, <2>0, <2>2, <3>1, Bystander
    <2>3. QED
      BY <2>1, <2>2
  <1>6. fw' \subseteq Macs /\ drift' \subseteq Macs
    BY <1>4 DEF IInv, TypeOK
  <1>7. QED
    BY <1>0, <1>2, <1>3, <1>4, <1>5, <1>6, StepKeeps DEF IInv, TypeOK
-----------------------------------------------------------------------------
(* The sweep and the schedules start from a set of devices. *)
LEMMA BeginsMany ==
  ASSUME IInv, NEW w \in Workers, NEW S \in SUBSET Macs, NEW t \in Job, Shape(t),
         job[w].pc = "idle", t.pc \notin {"sync", "flushed"},
         t.add \cup t.rem = S, Begin(w, t, S), row' = row, fw' = fw,
         \A n \in S : Expects(w, n)'
  PROVE  IInv'
  <1>1. job' = [job EXCEPT ![w] = t] /\ drift' = drift \cup Contended(w, S)
    BY DEF Begin
  <1>2. job[w].add = {} /\ job[w].rem = {}
    BY DEF IInv, JobShape, Shape
  <1>3. ASSUME NEW n \in Macs, n \notin drift'
        PROVE  Settled(n)'
    <2>1. CASE n \in S
      <3>1. \A v \in Workers \ {w} : ~Touches(v, n)
        BY <1>1, <1>3, <2>1, Uncontended
      <3>2. Touches(w, n)'
        BY <1>1, <2>1 DEF Touches, IInv, TypeOK
      <3>3. QED
        BY <1>1, <2>1, <3>1, <3>2, Alone
    <2>2. CASE n \notin S
      BY <1>1, <1>2, <1>3, <2>2, Bystander
    <2>3. QED
      BY <2>1, <2>2
  <1>4. drift' \subseteq Macs
    BY <1>1, ContendedType DEF IInv, TypeOK
  <1>5. QED
    BY <1>1, <1>3, <1>4, StepKeeps DEF IInv, TypeOK

LEMMA ExpireDueKeeps ==
  ASSUME IInv, ExpireDue
  PROVE  IInv'
  <1> DEFINE t == Task("mark", {}, Due)
  <1>1. Scheduler \in Workers /\ Due \in SUBSET Macs /\ "mark" \in Phases
    BY DEF Workers, Due, Phases
  <1>2. t \in Job /\ t.pc = "mark" /\ t.add = {} /\ t.rem = Due
    BY <1>1, TaskJob
  <1>3. job[Scheduler].pc = "idle" /\ Begin(Scheduler, t, Due) /\ row' = row /\ fw' = fw
    BY DEF ExpireDue
  <1>4. Due' = Due /\ job'[Scheduler] = t
    BY <1>1, <1>3 DEF Due, Begin, IInv, TypeOK
  <1>5. \A n \in Due : Expects(Scheduler, n)'
    BY <1>2, <1>4 DEF Expects
  <1>6. Shape(t)
    BY <1>2 DEF Shape
  <1>7. QED
    BY <1>1, <1>2, <1>3, <1>5, <1>6, BeginsMany

LEMMA ExpireNowKeeps ==
  ASSUME IInv, NEW w \in Handlers, ExpireNow(w)
  PROVE  IInv'
  <1> DEFINE pc == IF Due = {} THEN "list" ELSE "mark"
             t == Task(pc, {}, Due)
  <1>1. w \in Workers /\ Due \in SUBSET Macs /\ pc \in Phases /\ pc \in {"list", "mark"}
    BY DEF Workers, Due, Phases
  <1>2. t \in Job /\ t.pc = pc /\ t.add = {} /\ t.rem = Due
    BY <1>1, TaskJob
  <1>3. job[w].pc = "idle" /\ Begin(w, t, Due) /\ row' = row /\ fw' = fw
    BY DEF ExpireNow, Request
  <1>4. Due' = Due /\ job'[w] = t
    BY <1>1, <1>3 DEF Due, Begin, IInv, TypeOK
  <1>5. \A n \in Due : Expects(w, n)'
    BY <1>2, <1>4 DEF Expects
  <1>6. Shape(t)
    BY <1>2 DEF Shape
  <1>7. QED
    BY <1>1, <1>2, <1>3, <1>5, <1>6, BeginsMany

LEMMA EnforceKeeps ==
  ASSUME IInv, EnforceSchedules
  PROVE  IInv'
  <1> DEFINE S == {m \in Entitled : row[m].sched}
  <1>1. PICK open \in SUBSET S : Begin(Enforcer, Calls(open, S \ open), S)
    BY DEF EnforceSchedules
  <1> DEFINE t == Calls(open, S \ open)
  <1>2. Enforcer \in Workers /\ S \in SUBSET Macs /\ open \in SUBSET Macs /\ S \ open \in SUBSET Macs
    BY DEF Workers, Entitled
  <1>3. /\ t \in Job /\ t.pc \in {"idle", "calls"} /\ t.add = open /\ t.rem = S \ open
        /\ (t.pc = "idle" => open \cup (S \ open) = {})
    BY <1>2, CallsJob
  <1>4. job[Enforcer].pc = "idle" /\ row' = row /\ fw' = fw
    BY DEF EnforceSchedules
  <1>5. job'[Enforcer] = t
    BY <1>1, <1>2 DEF Begin, IInv, TypeOK
  <1>6. \A n \in S : row[n].st = "active" /\ row[n].sched
    BY DEF Entitled, Current
  <1>7. \A n \in S : Expects(Enforcer, n)'
    BY <1>3, <1>4, <1>5, <1>6 DEF Expects
  <1>8. Shape(t)
    BY <1>3 DEF Shape
  <1>9. t.add \cup t.rem = S
    BY <1>3
  <1>10. QED
    BY <1>1, <1>2, <1>3, <1>4, <1>7, <1>8, <1>9, BeginsMany

LEMMA ExpireMarkKeeps ==
  ASSUME IInv, NEW w \in Workers, ExpireMark(w)
  PROVE  IInv'
  <1> DEFINE pc == IF w = Scheduler THEN "calls" ELSE "list"
             t == Task(pc, {}, job[w].rem)
  <1>0. job[w].pc = "mark" /\ job[w] \in Job /\ Shape(job[w]) /\ job[w].add = {}
    BY DEF ExpireMark, IInv, JobShape, TypeOK, Shape
  <1>1. job[w].rem \in SUBSET Macs /\ pc \in Phases /\ pc \in {"calls", "list"}
    BY <1>0 DEF Job, Phases
  <1>2. t \in Job /\ t.pc = pc /\ t.add = {} /\ t.rem = job[w].rem /\ Shape(t)
    BY <1>1, TaskJob DEF Shape
  <1>3. /\ row' = [m \in Macs |-> IF m \in Due THEN [row[m] EXCEPT !.st = "expired"] ELSE row[m]]
        /\ job' = [job EXCEPT ![w] = t]
        /\ drift' = drift \cup (Due \ job[w].rem)
        /\ fw' = fw
    BY DEF ExpireMark
  <1>4. row' \in [Macs -> Row]
    BY <1>3 DEF IInv, TypeOK, Row, Status
  <1>5. ASSUME NEW n \in Macs, n \notin drift'
        PROVE  Settled(n)'
    <2>0. n \notin drift /\ Settled(n)
      BY <1>3, <1>5 DEF IInv
    <2>1. CASE n \in job[w].rem
      <3>1. \A v \in Workers \ {w} : ~Touches(v, n)
        BY <2>0, <2>1, Sole DEF Touches
      <3>2. n \in Due
        BY <1>0, <2>0, <2>1 DEF Settled, Expects
      <3>3. row'[n].st = "expired"
        BY <1>3, <3>2 DEF IInv, TypeOK, Row
      <3>4. job'[w] = t
        BY <1>3 DEF IInv, TypeOK
      <3>5. Expects(w, n)' /\ Touches(w, n)'
        BY <1>1, <1>2, <2>1, <3>3, <3>4 DEF Expects, Touches
      <3>6. QED
        BY <1>2, <1>3, <3>1, <3>5, Alone
    <2>2. CASE n \notin job[w].rem
      <3>1. row'[n] = row[n]
        BY <1>3, <1>5, <2>2
      <3>2. QED
        BY <1>0, <1>1, <1>2, <1>3, <2>0, <2>2, <3>1, Bystander
    <2>3. QED
      BY <2>1, <2>2
  <1>6. drift' \subseteq Macs
    BY <1>3 DEF IInv, TypeOK, Due
  <1>7. QED
    BY <1>1, <1>2, <1>3, <1>4, <1>5, <1>6, StepKeeps DEF IInv, TypeOK

(* Both schedule forms: the row keeps its status, and of a device that has *)
(* not drifted the call is an Add for an active row, or a Remove for a row *)
(* with a schedule or without any status that entitles.                    *)
LEMMA ScheduleStep ==
  ASSUME IInv, NEW w \in Handlers, NEW m \in Macs, NEW t \in Job, NEW r \in Row,
         job[w].pc = "idle", t.pc = "calls", Shape(t), t.add \cup t.rem = {m},
         row' = [row EXCEPT ![m] = r], fw' = fw,
         job' = [job EXCEPT ![w] = t],
         drift' \subseteq Macs, drift \cup Contended(w, {m}) \subseteq drift',
         m \notin drift' /\ m \in t.add => r.st = "active",
         m \in t.rem => r.st # "active" \/ r.sched
  PROVE  IInv'
  <1>0. w \in Workers /\ Shape(job[w])
    BY DEF Workers, IInv, JobShape
  <1>1. row' \in [Macs -> Row] /\ row'[m] = r /\ job'[w] = t
    BY <1>0 DEF IInv, TypeOK
  <1>2. ASSUME NEW n \in Macs, n \notin drift'
        PROVE  Settled(n)'
    <2>1. CASE n = m
      <3>1. \A v \in Workers \ {w} : ~Touches(v, n)
        BY <1>0, <1>2, <2>1, Uncontended
      <3>2. Expects(w, n)' /\ Touches(w, n)'
        BY <1>1, <1>2, <2>1 DEF Expects, Touches
      <3>3. QED
        BY <1>0, <3>1, <3>2, Alone
    <2>2. CASE n # m
      <3>1. row'[n] = row[n] /\ n \notin drift
        BY <1>2, <2>2 DEF IInv, TypeOK
      <3>2. n \notin job[w].add \cup job[w].rem /\ n \notin t.add \cup t.rem
        BY <1>0, <2>2 DEF Shape
      <3>3. QED
        BY <1>0, <3>1, <3>2, Bystander
    <2>3. QED
      BY <2>1, <2>2
  <1>3. QED
    BY <1>0, <1>1, <1>2, StepKeeps DEF IInv, TypeOK

LEMMA ScheduleRow ==
  ASSUME NEW r \in Row, NEW on \in BOOLEAN
  PROVE  /\ SetMACSchedule(r, on) \in Row
         /\ SetMACSchedule(r, on).st = r.st
         /\ r.st # "none" => SetMACSchedule(r, on).sched = on
  BY DEF SetMACSchedule, Row

LEMMA ScheduleSetKeeps ==
  ASSUME IInv, NEW w \in Handlers, NEW m \in Macs, ScheduleSet(w, m)
  PROVE  IInv'
  <1>1. PICK open \in BOOLEAN :
          /\ job' = [job EXCEPT ![w] = IF open THEN Calls({m}, {}) ELSE Calls({}, {m})]
          /\ drift' = drift \cup Contended(w, {m})
                            \cup (IF open /\ row[m].st # "active" THEN {m} ELSE {})
    BY DEF ScheduleSet
  <1> DEFINE t == IF open THEN Calls({m}, {}) ELSE Calls({}, {m})
             r == SetMACSchedule(row[m], TRUE)
  <1>2. w \in Workers /\ row[m] \in Row
    BY DEF Workers, IInv, TypeOK
  <1>3. r \in Row /\ r.st = row[m].st /\ (r.st # "active" \/ r.sched)
    BY <1>2, ScheduleRow
  <1>4. /\ t \in Job /\ t.pc = "calls" /\ t.add \cup t.rem = {m}
        /\ t.add = (IF open THEN {m} ELSE {}) /\ t.rem = (IF open THEN {} ELSE {m})
    <2>1. CASE open
      BY <2>1, CallsJob
    <2>2. CASE ~open
      BY <2>2, CallsJob
    <2>3. QED
      BY <2>1, <2>2
  <1>5. Shape(t)
    BY <1>4 DEF Shape
  <1>6. job[w].pc = "idle" /\ row' = [row EXCEPT ![m] = r] /\ fw' = fw
    BY DEF ScheduleSet, Request
  <1>7. drift' \subseteq Macs /\ drift \cup Contended(w, {m}) \subseteq drift'
    BY <1>1, <1>2, ContendedType DEF IInv, TypeOK
  <1>8. m \notin drift' /\ m \in t.add => r.st = "active"
    BY <1>1, <1>3, <1>4
  <1>9. job' = [job EXCEPT ![w] = t]
    BY <1>1
  <1>10. QED
    BY <1>3, <1>4, <1>5, <1>6, <1>7, <1>8, <1>9, ScheduleStep

LEMMA ScheduleClearKeeps ==
  ASSUME IInv, NEW w \in Handlers, NEW m \in Macs, ScheduleClear(w, m)
  PROVE  IInv'
  <1> DEFINE t == Calls({m}, {})
             r == SetMACSchedule(row[m], FALSE)
  <1>1. /\ job' = [job EXCEPT ![w] = t]
        /\ drift' = drift \cup Contended(w, {m}) \cup (IF row[m].st # "active" THEN {m} ELSE {})
    BY DEF ScheduleClear
  <1>2. w \in Workers /\ row[m] \in Row
    BY DEF Workers, IInv, TypeOK
  <1>3. r \in Row /\ r.st = row[m].st
    BY <1>2, ScheduleRow
  <1>4. t \in Job /\ t.pc = "calls" /\ t.add = {m} /\ t.rem = {}
    BY CallsJob
  <1>5. Shape(t)
    BY <1>4 DEF Shape
  <1>6. job[w].pc = "idle" /\ row' = [row EXCEPT ![m] = r] /\ fw' = fw
    BY DEF ScheduleClear, Request
  <1>7. drift' \subseteq Macs /\ drift \cup Contended(w, {m}) \subseteq drift'
    BY <1>1, <1>2, ContendedType DEF IInv, TypeOK
  <1>8. m \notin drift' => r.st = "active"
    BY <1>1, <1>3
  <1>9. QED
    BY <1>1, <1>3, <1>4, <1>5, <1>6, <1>7, <1>8, ScheduleStep
-----------------------------------------------------------------------------
(* A rebuild touches every device, so while it runs only its own reading   *)
(* matters.                                                                *)
LEMMA ListActiveKeeps ==
  ASSUME IInv, NEW w \in Workers, ListActiveMACs(w)
  PROVE  IInv'
  <1> DEFINE t == Task("sync", Entitled, {})
  <1>1. Entitled \in SUBSET Macs /\ "sync" \in Phases
    BY DEF Entitled, Phases
  <1>2. t \in Job /\ t.pc = "sync" /\ t.add = Entitled /\ t.rem = {}
    BY <1>1, TaskJob
  <1>3. /\ job' = [job EXCEPT ![w] = t] /\ drift' = Contended(w, Macs)
        /\ row' = row /\ fw' = fw
    BY DEF ListActiveMACs
  <1>4. Shape(t)
    BY <1>2 DEF Shape
  <1>5. ASSUME NEW n \in Macs, n \notin drift'
        PROVE  Settled(n)'
    <2>1. \A v \in Workers \ {w} : ~Touches(v, n)
      BY <1>3, <1>5, Uncontended
    <2>2. job'[w] = t
      BY <1>3 DEF IInv, TypeOK
    <2>3. (n \in Entitled <=> Current(row[n])) /\ (n \in Entitled => row[n].st = "active")
      BY DEF Entitled, Current
    <2>4. Expects(w, n)' /\ Touches(w, n)'
      BY <1>2, <1>3, <2>2, <2>3 DEF Expects, Touches, Current
    <2>5. QED
      BY <1>2, <1>3, <2>1, <2>4, Alone
  <1>6. drift' \subseteq Macs
    BY <1>3, ContendedType
  <1>7. QED
    BY <1>2, <1>3, <1>4, <1>5, <1>6, StepKeeps DEF IInv, TypeOK

(* A failed rebuild vouches for nothing. *)
LEMMA SyncFailed ==
  ASSUME IInv, NEW w \in Workers, job' = [job EXCEPT ![w] = Idle],
         drift' = Macs, row' = row, fw' = fw
  PROVE  IInv'
  <1>1. Idle \in Job /\ Idle.pc # "flushed" /\ Shape(Idle)
    BY IdleJob DEF Idle, Shape
  <1>2. QED
    BY <1>1, StepKeeps DEF IInv, TypeOK

LEMMA SyncFlushKeeps ==
  ASSUME IInv, NEW w \in Workers, SyncFlush(w)
  PROVE  IInv'
  <1>0. /\ job[w].pc = "sync" /\ job[w] \in Job /\ Shape(job[w])
        /\ job[w].rem = {} /\ MuFree /\ row' = row
    BY DEF SyncFlush, IInv, JobShape, TypeOK, Shape
  <1>1. job[w].add \in SUBSET Macs /\ "flushed" \in Phases
    BY <1>0 DEF Job, Phases
  <1> DEFINE t == IF job[w].add = {} THEN Idle ELSE Task("flushed", job[w].add, {})
  <1>2. CASE FwFails /\ job' = [job EXCEPT ![w] = Idle] /\ drift' = Macs /\ fw' = fw
    BY <1>0, <1>2, SyncFailed
  <1>3. CASE fw' = {} /\ job' = [job EXCEPT ![w] = t] /\ drift' = drift
    <2>1. t \in Job /\ t.pc \in {"idle", "flushed"} /\ t.add = job[w].add /\ t.rem = {} /\ Shape(t)
          /\ (t.pc = "idle" => job[w].add = {})
      <3>1. CASE job[w].add = {}
        BY <3>1, IdleJob DEF Idle, Shape
      <3>2. CASE job[w].add # {}
        <4>1. t = Task("flushed", job[w].add, {})
          BY <3>2
        <4>2. QED
          BY <1>1, <3>2, <4>1, TaskJob DEF Shape
      <3>3. QED
        BY <3>1, <3>2
    <2>2. job'[w] = t /\ \A v \in Workers \ {w} : job'[v] = job[v]
      BY <1>3 DEF IInv, TypeOK
    <2>3. TypeOK'
      BY <1>0, <1>3, <2>1 DEF IInv, TypeOK
    <2>4. JobShape'
      BY <2>1, <2>2 DEF IInv, JobShape
    <2>5. OneFlusher'
      BY <1>0, <1>3, <2>2 DEF OneFlusher, MuFree
    <2>6. ASSUME NEW n \in Macs, n \notin drift'
          PROVE  Settled(n)'
      <3>1. n \notin drift /\ Settled(n)
        BY <1>3, <2>6 DEF IInv
      <3>2. \A v \in Workers \ {w} : ~Touches(v, n)
        BY <1>0, <3>1, Sole DEF Touches
      <3>3. Expects(w, n)'
        BY <1>0, <2>1, <2>2, <3>1 DEF Settled, Expects, Current
      <3>4. Touches(w, n)' \/ Agree(n)'
        <4>1. CASE t.pc = "flushed"
          BY <2>2, <4>1 DEF Touches
        <4>2. CASE t.pc = "idle"
          <5>1. ~Current(row[n])
            BY <1>0, <2>1, <3>1, <4>2 DEF Settled, Expects
          <5>2. QED
            BY <1>0, <1>3, <5>1 DEF Agree, Current
        <4>3. QED
          BY <2>1, <4>1, <4>2
      <3>5. QED
        BY <1>3, <2>1, <3>2, <3>3, <3>4, Alone
    <2>7. QED
      BY <2>3, <2>4, <2>5, <2>6 DEF IInv
  <1>4. QED
    BY <1>2, <1>3 DEF SyncFlush

LEMMA SyncPopulateKeeps ==
  ASSUME IInv, NEW w \in Workers, SyncPopulate(w)
  PROVE  IInv'
  <1>0. /\ job[w].pc = "flushed" /\ job[w] \in Job /\ row' = row
        /\ job' = [job EXCEPT ![w] = Idle]
    BY DEF SyncPopulate, IInv, TypeOK
  <1>1. job[w].add \in SUBSET Macs
    BY <1>0 DEF Job
  <1>2. CASE FwFails /\ fw' = fw /\ drift' = Macs
    BY <1>0, <1>2, SyncFailed
  <1>3. CASE fw' = fw \cup job[w].add /\ drift' = drift
    <2>1. Idle \in Job /\ Idle.pc = "idle" /\ Idle.add = {} /\ Idle.rem = {} /\ Shape(Idle)
      BY IdleJob DEF Idle, Shape
    <2>2. job'[w] = Idle /\ \A v \in Workers \ {w} : job'[v] = job[v]
      BY <1>0 DEF IInv, TypeOK
    <2>3. TypeOK'
      BY <1>0, <1>1, <1>3, <2>1 DEF IInv, TypeOK
    <2>4. JobShape'
      BY <2>1, <2>2 DEF IInv, JobShape
    <2>5. OneFlusher'
      BY <1>0, <2>1, <2>2 DEF OneFlusher, IInv
    <2>6. fw = {}
      BY <1>0 DEF OneFlusher, IInv
    <2>7. ASSUME NEW n \in Macs, n \notin drift'
          PROVE  Settled(n)'
      <3>1. n \notin drift /\ Settled(n)
        BY <1>3, <2>7 DEF IInv
      <3>2. \A v \in Workers \ {w} : ~Touches(v, n)
        BY <1>0, <3>1, Sole DEF Touches
      <3>3. Expects(w, n)'
        BY <2>1, <2>2 DEF Expects
      <3>4. /\ n \in job[w].add => row[n].st = "active"
            /\ Current(row[n]) => n \in job[w].add
        BY <1>0, <3>1 DEF Settled, Expects
      <3>5. Agree(n)'
        BY <1>0, <1>3, <2>6, <3>4 DEF Agree, Current
      <3>6. QED
        BY <1>0, <2>1, <3>2, <3>3, <3>5, Alone
    <2>8. QED
      BY <2>3, <2>4, <2>5, <2>7 DEF IInv
  <1>4. QED
    BY <1>2, <1>3 DEF SyncPopulate
-----------------------------------------------------------------------------
LEMMA ExpireKeeps ==
  ASSUME IInv, NEW m \in Macs, Expire(m)
  PROVE  IInv'
  <1>1. /\ row' = [row EXCEPT ![m].due = TRUE]
        /\ fw' = fw /\ job' = job /\ drift' = drift /\ Current(row[m])
    BY DEF Expire
  <1>2. row' \in [Macs -> Row]
    BY <1>1 DEF IInv, TypeOK, Row
  <1>3. TypeOK' /\ JobShape' /\ OneFlusher'
    BY <1>1, <1>2 DEF IInv, TypeOK, JobShape, OneFlusher
  <1>4. ASSUME NEW n \in Macs, n \notin drift'
        PROVE  Settled(n)'
    <2>1. Settled(n)
      BY <1>1, <1>4 DEF IInv
    <2>2. /\ row'[n].st = row[n].st /\ row'[n].sched = row[n].sched
          /\ row[n].due => row'[n].due
      BY <1>1 DEF IInv, TypeOK, Row
    <2>3. Current(row'[n]) => Current(row[n])
      BY <2>2 DEF Current
    <2>4. n \in Due => n \in Due'
      BY <2>2 DEF Due
    <2>5. \A v \in Workers : Touches(v, n)' <=> Touches(v, n)
      BY <1>1 DEF Touches
    <2>6. Agree(n) => Agree(n)'
      BY <1>1, <2>2, <2>3 DEF Agree
    <2>7. \A v \in Workers : Expects(v, n)'
      BY <1>1, <2>1, <2>2, <2>3, <2>4, <2>6 DEF Settled, Expects
    <2>8. Exclusive(n)' /\ (Quiet(n)' => Agree(n)')
      BY <2>1, <2>5, <2>6 DEF Settled, Exclusive, Quiet
    <2>9. QED
      BY <2>7, <2>8 DEF Settled
  <1>5. QED
    BY <1>3, <1>4 DEF IInv

LEMMA RestartKeeps ==
  ASSUME IInv, Restart
  PROVE  IInv'
  <1>1. job' = [w \in Workers |-> Idle] /\ row' = row
    BY DEF Restart
  <1>2. \A w \in Workers : /\ job'[w].pc = "idle" /\ job'[w].add = {} /\ job'[w].rem = {}
                           /\ job'[w] \in Job
    BY <1>1, IdleJob DEF Idle
  <1>3. (fw' = Entitled /\ drift' = {}) \/ (fw' \in {fw, {}} /\ drift' = Macs)
    BY DEF Restart
  <1>4. TypeOK'
    <2>1. fw' \subseteq Macs /\ drift' \subseteq Macs
      BY <1>3 DEF IInv, TypeOK, Entitled
    <2>2. QED
      BY <1>1, <1>2, <2>1, IdleJob DEF IInv, TypeOK
  <1>5. JobShape'
    BY <1>2 DEF JobShape, Shape
  <1>6. OneFlusher'
    BY <1>2 DEF OneFlusher
  <1>7. ASSUME NEW n \in Macs, n \notin drift'
        PROVE  Settled(n)'
    <2>1. fw' = Entitled
      BY <1>3, <1>7
    <2>2. Agree(n)'
      BY <1>1, <2>1 DEF Agree, Entitled, Current
    <2>3. \A v \in Workers : ~Touches(v, n)' /\ Expects(v, n)'
      BY <1>2 DEF Touches, Expects
    <2>4. QED
      BY <2>2, <2>3 DEF Settled, Exclusive, Quiet
  <1>8. QED
    BY <1>4, <1>5, <1>6, <1>7 DEF IInv

LEMMA StutterKeeps == IInv /\ UNCHANGED vars => IInv'
  <1> SUFFICES ASSUME IInv, UNCHANGED vars
               PROVE  IInv'
    OBVIOUS
  <1>1. row' = row /\ fw' = fw /\ job' = job /\ drift' = drift
    BY DEF vars
  <1>2. TypeOK' /\ JobShape' /\ OneFlusher'
    BY <1>1 DEF IInv, TypeOK, JobShape, OneFlusher
  <1>3. \A n \in Macs : Settled(n)' <=> Settled(n)
    BY <1>1 DEF Settled, Exclusive, Expects, Quiet, Agree, Touches, Due
  <1>4. QED
    BY <1>1, <1>2, <1>3 DEF IInv

LEMMA InitHolds == Init => IInv
  <1> SUFFICES ASSUME Init
               PROVE  IInv
    OBVIOUS
  <1>1. TypeOK
    BY TypeInit
  <1>2. \A w \in Workers : job[w].pc = "idle" /\ job[w].add = {} /\ job[w].rem = {}
    BY DEF Init, Idle
  <1>3. JobShape /\ OneFlusher
    BY <1>2 DEF JobShape, Shape, OneFlusher
  <1>4. ASSUME NEW n \in Macs
        PROVE  Settled(n)
    <2>1. Agree(n)
      BY DEF Init, Agree, Current, NoRow
    <2>2. \A v \in Workers : ~Touches(v, n) /\ Expects(v, n)
      BY <1>2 DEF Touches, Expects
    <2>3. QED
      BY <2>1, <2>2 DEF Settled, Exclusive, Quiet
  <1>5. QED
    BY <1>1, <1>3, <1>4 DEF IInv

LEMMA NextKeeps == IInv /\ [Next]_vars => IInv'
  <1> SUFFICES ASSUME IInv, [Next]_vars
               PROVE  IInv'
    OBVIOUS
  <1>1. CASE UNCHANGED vars
    BY <1>1, StutterKeeps
  <1>2. ASSUME NEW w \in Handlers, NEW m \in Macs,
               \/ Grant(w, m) \/ Revoke(w, m) \/ Delete(w, m)
               \/ ClaimCheck(w, m) \/ Refund(w, m)
               \/ ScheduleSet(w, m) \/ ScheduleClear(w, m)
        PROVE  IInv'
    BY <1>2, GrantKeeps, RevokeKeeps, DeleteKeeps, ClaimCheckKeeps, RefundKeeps,
       ScheduleSetKeeps, ScheduleClearKeeps
  <1>3. ASSUME NEW w \in Handlers, NEW m \in Macs, NEW new \in Macs \ {m}, Replace(w, m, new)
        PROVE  IInv'
    BY <1>3, ReplaceKeeps
  <1>4. ASSUME NEW w \in Handlers, ExpireNow(w) \/ ListActiveMACs(w)
        PROVE  IInv'
    BY <1>4, ExpireNowKeeps, ListActiveKeeps DEF Workers
  <1>5. ASSUME NEW w \in Workers,
               \/ Reread(w) \/ ReplaceRemove(w) \/ ClaimUpsert(w)
               \/ ExpireMark(w) \/ SyncFlush(w) \/ SyncPopulate(w)
        PROVE  IInv'
    BY <1>5, RereadKeeps, ReplaceRemoveKeeps, ClaimUpsertKeeps, ExpireMarkKeeps,
       SyncFlushKeeps, SyncPopulateKeeps
  <1>6. ASSUME NEW w \in Workers, NEW m \in Macs, FwAdd(w, m) \/ FwRemove(w, m)
        PROVE  IInv'
    BY <1>6, FwAddKeeps, FwRemoveKeeps
  <1>7. ASSUME NEW m \in Macs, Expire(m)
        PROVE  IInv'
    BY <1>7, ExpireKeeps
  <1>8. QED
    BY <1>1, <1>2, <1>3, <1>4, <1>5, <1>6, <1>7, ExpireDueKeeps, EnforceKeeps, RestartKeeps
       DEF Next
-----------------------------------------------------------------------------
(* The tables, the kernel set, the jobs and the history variable keep      *)
(* their types, whatever the interleaving of requests, sweeps, schedule    *)
(* enforcement, failures and restarts (internal/service/mac.go).           *)
THEOREM TypeCorrect == Spec => []TypeOK
  <1>1. IInv => TypeOK
    BY DEF IInv
  <1>2. QED
    BY InitHolds, NextKeeps, <1>1, PTL DEF Spec

(* The hazards that set drift are all there are: any device outside drift  *)
(* that nobody is at work on is in the firewall only with an active row,   *)
(* and is in it if it is entitled and has no schedule.                     *)
(* (internal/service/mac.go)                                               *)
THEOREM DriftExplained == Spec => []InSync
  <1>1. IInv => InSync
    BY DEF IInv, InSync, Settled
  <1>2. QED
    BY InitHolds, NextKeeps, <1>1, PTL DEF Spec
-----------------------------------------------------------------------------
(* What one device sees of a step. *)
Follows(m) ==
    /\ m \in fw' \ fw => row'[m].st = "active"
    /\ m \in fw \ fw' => \/ ~Current(row'[m]) \/ row'[m].sched
                         \/ \E w \in Workers : job'[w].pc = "flushed"

(* A single firewall call: what the job relies on still holds.             *)
LEMMA CallFollows ==
  ASSUME IInv, NEW w \in Workers, NEW m \in Macs, m \notin drift',
         ReplaceRemove(w) \/ \E x \in Macs : FwAdd(w, x) \/ FwRemove(w, x)
  PROVE  Follows(m)
  <1>1. row' = row /\ drift \subseteq drift' /\ job[w].pc \in {"swap", "calls"}
    BY DEF ReplaceRemove, FwAdd, FwRemove
  <1>2. Expects(w, m)
    BY <1>1 DEF IInv, Settled
  <1>3. /\ fw' \subseteq fw \cup job[w].add \/ fw' \subseteq fw
        /\ fw \ fw' \subseteq job[w].rem
    BY DEF ReplaceRemove, FwAdd, FwRemove
  <1>4. QED
    BY <1>1, <1>2, <1>3 DEF Follows, Expects, Current

(* The flush: the set is being rebuilt, or nobody is entitled.             *)
LEMMA FlushFollows ==
  ASSUME IInv, NEW w \in Workers, NEW m \in Macs, m \notin drift', SyncFlush(w)
  PROVE  Follows(m)
  <1>1. row' = row /\ fw' = {} /\ drift' = drift /\ job[w].pc = "sync"
        /\ job' = [job EXCEPT ![w] = IF job[w].add = {} THEN Idle
                                     ELSE Task("flushed", job[w].add, {})]
    BY DEF SyncFlush
  <1>2. Expects(w, m)
    BY <1>1 DEF IInv, Settled
  <1>3. CASE job[w].add = {}
    <2>1. ~Current(row[m])
      BY <1>1, <1>2, <1>3 DEF Expects
    <2>2. QED
      BY <1>1, <2>1 DEF Follows
  <1>4. CASE job[w].add # {}
    <2>1. job'[w].pc = "flushed"
      BY <1>1, <1>4 DEF Task, IInv, TypeOK
    <2>2. QED
      BY <1>1, <2>1 DEF Follows
  <1>5. QED
    BY <1>3, <1>4

(* The add that ends a Sync: the list that was read is still right.        *)
LEMMA PopulateFollows ==
  ASSUME IInv, NEW w \in Workers, NEW m \in Macs, m \notin drift', SyncPopulate(w)
  PROVE  Follows(m)
  <1>1. row' = row /\ drift' = drift /\ fw' = fw \cup job[w].add /\ job[w].pc = "flushed"
    BY DEF SyncPopulate
  <1>2. Expects(w, m)
    BY <1>1 DEF IInv, Settled
  <1>3. QED
    BY <1>1, <1>2 DEF Follows, Expects

LEMMA RestartFollows ==
  ASSUME NEW m \in Macs, m \notin drift', Restart
  PROVE  Follows(m)
  <1>1. row' = row /\ fw' = Entitled
    BY DEF Restart
  <1>2. QED
    BY <1>1 DEF Follows, Entitled, Current

(* Whatever overlaps, a firewall call for a device outside drift is one    *)
(* that the table still asks for (internal/service/mac.go).                *)
THEOREM SetFollowsTable == Spec => FwFollows
  <1>1. ASSUME IInv, [Next]_vars, NEW m \in Macs, m \notin drift'
        PROVE  Follows(m)
    <2>1. CASE UNCHANGED fw
      BY <2>1 DEF Follows
    <2>2. CASE ~UNCHANGED fw
      <3>1. \/ Restart
            \/ \E w \in Workers :
                  \/ SyncFlush(w) \/ SyncPopulate(w) \/ ReplaceRemove(w)
                  \/ \E x \in Macs : FwAdd(w, x) \/ FwRemove(w, x)
        <4>1. ASSUME NEW w \in Handlers, NEW x \in Macs,
                     \/ Grant(w, x) \/ Revoke(w, x) \/ Delete(w, x)
                     \/ ClaimCheck(w, x) \/ Refund(w, x)
                     \/ ScheduleSet(w, x) \/ ScheduleClear(w, x)
                     \/ \E new \in Macs \ {x} : Replace(w, x, new)
              PROVE  UNCHANGED fw
          BY <4>1 DEF Grant, Revoke, Delete, ClaimCheck, Refund, ScheduleSet, ScheduleClear,
             Replace
        <4>2. ASSUME NEW w \in Workers, Reread(w) \/ ClaimUpsert(w) \/ ExpireMark(w)
              PROVE  UNCHANGED fw
          BY <4>2 DEF Reread, ClaimUpsert, ExpireMark
        <4>3. ASSUME NEW w \in Handlers, ExpireNow(w) \/ ListActiveMACs(w)
              PROVE  UNCHANGED fw
          BY <4>3 DEF ExpireNow, ListActiveMACs
        <4>4. ExpireDue \/ EnforceSchedules \/ (\E x \in Macs : Expire(x)) => UNCHANGED fw
          BY DEF ExpireDue, EnforceSchedules, Expire
        <4>5. QED
          BY <1>1, <2>2, <4>1, <4>2, <4>3, <4>4 DEF Next, vars
      <3>2. QED
        BY <1>1, <3>1, CallFollows, FlushFollows, PopulateFollows, RestartFollows
    <2>3. QED
      BY <2>1, <2>2
  <1>2. IInv /\ [Next]_vars =>
          \A m \in Macs \ drift' :
            /\ m \in fw' \ fw => row'[m].st = "active"
            /\ m \in fw \ fw' => \/ ~Current(row'[m]) \/ row'[m].sched
                                 \/ \E w \in Workers : job'[w].pc = "flushed"
    BY <1>1 DEF Follows
  <1>3. QED
    BY InitHolds, NextKeeps, <1>2, PTL DEF Spec, FwFollows
=============================================================================
