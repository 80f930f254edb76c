------------------------------ MODULE Notifier ------------------------------
(***************************************************************************)
(* The outgoing webhook (internal/notify/webhook.go): handlers put events  *)
(* into a bounded queue, or drop them, and one goroutine posts them, each  *)
(* until it is accepted or its attempts are used up.  Events are numbered  *)
(* in the order of their Send.                                             *)
(***************************************************************************)
EXTENDS Integers, Sequences

CONSTANTS
    Depth,      \* of the queue: 64 in the code
    Retries,    \* after the first attempt: the length of the backoff schedule, 3
    MaxSend     \* bound on the events ever sent

ASSUME NotifierAssumption == Depth \in Nat \ {0} /\ Retries \in Nat /\ MaxSend \in Nat

VARIABLES
    sent,       \* events sent so far
    queue,      \* accepted and waiting
    delivery,   \* the event being delivered, 0 for none, and the attempt
    heard,      \* the newest event that has reached the receiver
    settled     \* history: events accepted by the queue that are over and done with

nvars == <<sent, queue, delivery, heard, settled>>

Free == [ev |-> 0, attempt |-> 0, at |-> "free"]
-----------------------------------------------------------------------------
NInit ==
    /\ sent = 0 /\ queue = <<>> /\ delivery = Free /\ heard = 0 /\ settled = {}

\* Mutant: the queue has no bound.
SendUnbounded ==
    /\ sent < MaxSend
    /\ sent' = sent + 1
    /\ queue' = Append(queue, sent')
    /\ UNCHANGED <<delivery, heard, settled>>

\* Send never blocks.
Send ==
    /\ sent < MaxSend
    /\ sent' = sent + 1
    /\ IF Len(queue) < Depth
       THEN queue' = Append(queue, sent') /\ UNCHANGED settled
       ELSE settled' = settled \cup {sent'} /\ UNCHANGED queue
    /\ UNCHANGED <<delivery, heard>>

\* Run takes the next event.
Receive ==
    /\ delivery = Free /\ queue # <<>>
    /\ delivery' = [ev |-> Head(queue), attempt |-> 0, at |-> "post"]
    /\ queue' = Tail(queue)
    /\ UNCHANGED <<sent, heard, settled>>

\* Mutant: an event to be tried again queues up behind the others.
PostRequeues(arrives, accepted) ==
    /\ delivery.at = "post"
    /\ accepted => arrives
    /\ heard' = IF arrives THEN delivery.ev ELSE heard
    /\ delivery' = Free
    /\ IF accepted \/ delivery.attempt >= Retries \/ Len(queue) >= Depth
       THEN settled' = settled \cup {delivery.ev} /\ UNCHANGED queue
       ELSE queue' = Append(queue, delivery.ev) /\ UNCHANGED settled
    /\ UNCHANGED sent

\* Mutant: the event is tried until it is accepted.
PostForever(arrives, accepted) ==
    /\ delivery.at = "post"
    /\ accepted => arrives
    /\ heard' = IF arrives THEN delivery.ev ELSE heard
    /\ IF accepted
       THEN delivery' = Free /\ settled' = settled \cup {delivery.ev}
       ELSE delivery' = [delivery EXCEPT !.at = "wait"] /\ UNCHANGED settled
    /\ UNCHANGED <<sent, queue>>

\* One attempt of deliver.  The receiver may have got what it did not, or not
\* in time, accept: the client gives up after 8 seconds.
Post(arrives, accepted) ==
    /\ delivery.at = "post"
    /\ accepted => arrives
    /\ heard' = IF arrives THEN delivery.ev ELSE heard
    /\ IF accepted \/ delivery.attempt >= Retries
       THEN delivery' = Free /\ settled' = settled \cup {delivery.ev}
       ELSE delivery' = [delivery EXCEPT !.at = "wait"] /\ UNCHANGED settled
    /\ UNCHANGED <<sent, queue>>

\* The backoff is over.
Retry ==
    /\ delivery.at = "wait"
    /\ delivery' = [ev |-> delivery.ev, at |-> "post",
                    attempt |-> IF delivery.attempt < Retries THEN delivery.attempt + 1
                                                              ELSE delivery.attempt]
    /\ UNCHANGED <<sent, queue, heard, settled>>

\* The queue and the delivery under way are in memory only.
NRestart ==
    /\ settled' = 1..sent
    /\ queue' = <<>> /\ delivery' = Free
    /\ UNCHANGED <<sent, heard>>

Works == Receive \/ Retry \/ \E arrives, accepted \in BOOLEAN : Post(arrives, accepted)

NNext == Send \/ Works \/ NRestart
-----------------------------------------------------------------------------
NTypeOK ==
    /\ sent \in 0..MaxSend
    /\ queue \in Seq(1..MaxSend) /\ Len(queue) <= Depth
    /\ delivery \in [ev : 0..MaxSend, attempt : 0..Retries, at : {"free", "post", "wait"}]
    /\ heard \in 0..MaxSend
    /\ settled \subseteq 1..sent

(***************************************************************************)
(* The receiver hears events in the order in which they were sent, a       *)
(* repeated one before any later one: an event that is being retried holds *)
(* up the rest ("events are serialized", Run and deliver).                 *)
(***************************************************************************)
HeardInOrder == [][heard' >= heard]_nvars

(***************************************************************************)
(* The queue, the retries and the restarts come down to a stream of events *)
(* that are heard in order, and not after they are over.                   *)
(***************************************************************************)
Stream == INSTANCE EventStream WITH over <- settled
KeepsTheStream == Stream!Spec

\* Events in the queue or in delivery.
Pending == {queue[i] : i \in 1..Len(queue)} \cup ({delivery.ev} \ {0})

(***************************************************************************)
(* Every event is over, or waits, or is being delivered: none is forgotten *)
(* and none comes back after its end (Send, Run, deliver).                 *)
(***************************************************************************)
Accounted == settled \cup Pending = 1..sent /\ settled \cap Pending = {}

(***************************************************************************)
(* Every event comes to an end, however the receiver behaves: accepted,    *)
(* given up, dropped at the full queue or lost with the process.  None     *)
(* waits for ever behind another (schedule, deliver).                      *)
(***************************************************************************)
Settled == \A e \in 1..MaxSend : (sent >= e) ~> (e \in settled)
=============================================================================
