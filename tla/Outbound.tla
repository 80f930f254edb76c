------------------------------ MODULE Outbound ------------------------------
(***************************************************************************)
(* The background work that reaches out of the process: webhook            *)
(* deliveries, the walled garden and the expiry reminders.  The three      *)
(* goroutines share no state, so a behaviour is one of one of them, the    *)
(* others staying as they start.                                           *)
(***************************************************************************)
EXTENDS Notifier, WalledGarden, Reminders

CONSTANT Parts      \* the ones looked at

ASSUME PartsAssumption == Parts \subseteq {"notifier", "garden", "reminders"}

VARIABLE part       \* the one that runs

vars == <<nvars, gvars, rvars, part>>

\* Step A of part p, alone.
Alone(p, A, others) == part = p /\ A /\ UNCHANGED <<others, part>>
Notify(A) == Alone("notifier", A, <<gvars, rvars>>)
Garden(A) == Alone("garden", A, <<nvars, rvars>>)
Remind(A) == Alone("reminders", A, <<nvars, gvars>>)
-----------------------------------------------------------------------------
Init == NInit /\ GInit /\ RInit /\ part \in Parts

Next == Notify(NNext) \/ Garden(GNext) \/ Remind(RNext)

\* The receiver takes its time, 8 seconds at most; a refresh ends, and between
\* refreshes elements of the set time out; the loop of the reminders has a ticker.
Fairness ==
    /\ WF_vars(Notify(Works))
    /\ WF_vars(Garden(Ensure \/ AddIPs \/ RemoveIPs))
    /\ \A ip \in Ips : SF_vars(Garden(Timeout(ip)))
    /\ WF_vars(Remind(Goes("loop")))

Spec == Init /\ [][Next]_vars /\ Fairness
-----------------------------------------------------------------------------
TypeOK == NTypeOK /\ GTypeOK /\ RTypeOK /\ part \in Parts
=============================================================================
