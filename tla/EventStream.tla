----------------------------- MODULE EventStream -----------------------------
(***************************************************************************)
(* What the webhook promises its receiver, without the queue, the backoff  *)
(* or the worker: events are numbered as they are sent, heard in that      *)
(* order - some more than once, some not at all - and an event that is     *)
(* over, for whatever reason, is not heard any more                        *)
(* (internal/notify/webhook.go).                                           *)
(***************************************************************************)
EXTENDS Integers

VARIABLES
    sent,     \* events sent so far
    heard,    \* the newest event the receiver has heard
    over      \* events that have come to an end

stream == <<sent, heard, over>>

Init == sent = 0 /\ heard = 0 /\ over = {}

\* An event the queue has no room for is over at once.
Send ==
    /\ sent' = sent + 1
    /\ over' \in {over, over \cup {sent'}}
    /\ UNCHANGED heard

\* The first attempt that arrives, or a repeated one.
Hear(e) ==
    /\ e \in (1..sent) \ over /\ heard <= e
    /\ heard' = e
    /\ over' \in {over, over \cup {e}}
    /\ UNCHANGED sent

\* Given up, or lost with the process.
End(S) ==
    /\ over' = over \cup S
    /\ UNCHANGED <<sent, heard>>

Next ==
    \/ Send
    \/ \E e \in 1..sent : Hear(e)
    \/ \E S \in SUBSET (1..sent) : End(S)

Spec == Init /\ [][Next]_stream
=============================================================================
