------------------------------- MODULE Database -------------------------------
(***************************************************************************)
(* What the database promises to the programs above it, whatever is done   *)
(* with its files: it changes by transactions while it serves, and between *)
(* two runs of the process it may be exchanged for a state it once was in  *)
(* (or for an empty one) - the old one is then set aside, never dropped    *)
(* (db.Open, internal/server/admin_backup.go, internal/backup/rotator.go). *)
(***************************************************************************)
EXTENDS Integers

VARIABLES
    content,   \* the commits that opening the database shows
    aside,     \* the databases that were set aside
    points,    \* states of the database that some file still has
    n,         \* number of commits so far
    up,        \* whether the database serves
    ruined     \* whether its files have come apart: nothing is promised then

db == <<content, aside, points, n, up, ruined>>

Init ==
    /\ content = {} /\ aside = {} /\ points = {}
    /\ n = 0 /\ up = FALSE /\ ruined = FALSE

\* Files are written, copied and removed: what they have, the database had.
Files == points' \subseteq points \cup {content}

Commit ==
    /\ up /\ n' = n + 1
    /\ content' = content \cup {n + 1}
    /\ UNCHANGED <<aside, points, up, ruined>>

Checkpoint ==
    /\ Files
    /\ UNCHANGED <<content, aside, n, up, ruined>>

Start ==
    /\ ~up /\ up' = TRUE
    /\ Files
    /\ UNCHANGED <<content, aside, n, ruined>>

Stop ==
    /\ up /\ up' = FALSE
    /\ Files
    /\ UNCHANGED <<content, aside, n, ruined>>

\* A database without a commit need not be set aside.
Replace ==
    /\ ~up
    /\ content' \in points \cup {{}}
    /\ aside' = aside \cup ({content} \ {{}})
    /\ Files
    /\ UNCHANGED <<n, up, ruined>>

Ruin == ruined' = TRUE

Next == Commit \/ Checkpoint \/ Start \/ Stop \/ Replace \/ Ruin

Spec == Init /\ [][Next]_db

(* No commit is lost: it is in the database or in one that was set aside.  *)
NothingIsLost == ~ruined => 1..n \subseteq content \cup UNION aside

(* Every backup is a state made of the commits there have been.            *)
PointsArePast == ~ruined => \A p \in points : p \subseteq 1..n
=============================================================================
