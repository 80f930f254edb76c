------------------------------- MODULE Restore -------------------------------
(***************************************************************************)
(* The database as files: SQLite's main file and its write-ahead log, the  *)
(* copies taken of it by the rotator and by downloads, and the restore     *)
(* that is staged beside it and swapped in when the process next starts    *)
(* (internal/server/admin_backup.go, internal/backup/rotator.go, db.Open). *)
(*                                                                         *)
(* A name on disk is the set of the files that bear it: at most one.  What *)
(* a file holds is the set of the commits in it.  A checkpoint writes the  *)
(* pages one after the other, so that a file may hold older and newer      *)
(* pages: low is what is certainly in it, high what may be.                *)
(***************************************************************************)
EXTENDS Integers, Sequences, FiniteSets

CONSTANTS
    Admins,      \* requests that download a backup
    Rot,         \* the rotator
    RetainDays,  \* snapshots to keep whatever their age
    IOFails,     \* whether renames may fail
    MaxCommits, MaxStops, MaxCopies   \* bounds

ASSUME CopiersAssumption == Rot \notin Admins
ASSUME RetainAssumption == RetainDays \in Nat \ {0}   \* Run makes anything else 7
ASSUME BoundsAssumption ==
    /\ MaxCommits \in Nat /\ MaxStops \in Nat /\ MaxCopies \in Nat
    /\ IOFails \in BOOLEAN

VARIABLES
    main,     \* <db>
    wal,      \* <db>-wal; from is what the main file held when it was begun
    pending,  \* <db>.pending-restore
    roll,     \* <db>.before-restore-<stamp> and its -wal, of the start under way
    kept,     \* those of earlier starts
    snaps,    \* the rotator's directory, oldest first
    offsite,  \* backups that were downloaded
    at,       \* where the process is
    conn,     \* who holds the only connection, in a checkpoint
    job,      \* where each copier is
    n,        \* number of commits so far
    hurt,     \* history: main file and log were separated; a torn file was restored
    stops     \* stops and kills still to come

vars == <<main, wal, pending, roll, kept, snaps, offsite, at, conn, job, n, hurt, stops>>

Copiers == Admins \cup {Rot}

\* A name names at most one file.
OneOf(S) == {T \in SUBSET S : \A x, y \in T : x = y}

File == [low : SUBSET (1..MaxCommits), high : SUBSET (1..MaxCommits)]
Log == [from : SUBSET (1..MaxCommits), upto : SUBSET (1..MaxCommits)]
Pair == [db : OneOf(File), log : OneOf(Log)]

NoPair == [db |-> {}, log |-> {}]
Whole(f) == f.low = f.high

(* moved: the main file has been renamed, its log has not.  cleared: both  *)
(* have.  bare: there was no main file.  open: the swap is over.           *)
Places == {"down", "moved", "cleared", "bare", "open", "up"}

(* seen: what had been committed when the copy's checkpoint ended well     *)
(* (history, until the file is opened).                                    *)
Job == [pc : {"idle", "flush", "flushed", "copy", "prune"},
        low : SUBSET (1..MaxCommits), high : SUBSET (1..MaxCommits),
        seen : SUBSET (1..MaxCommits)]

Idle == [pc |-> "idle", low |-> {}, high |-> {}, seen |-> {}]

(* SQLite: what opening the pair shows, and whether log and file belong    *)
(* together.  A log is applied whatever file it lies beside.               *)
Holds(db, log) == IF log = {} THEN UNION {f.low : f \in db} ELSE UNION {l.upto : l \in log}

Sound(db, log) ==
    IF log = {} THEN \A f \in db : Whole(f)
    ELSE \E f \in db : \A l \in log : l.from \subseteq f.low /\ (f.low \cup f.high) \subseteq l.upto

Live == Holds(main, wal)

\* Copies under way may or may not have read the pages a checkpoint writes.
Overwritten(high) ==
    [j \in Copiers |-> IF job[j].pc = "copy" THEN [job[j] EXCEPT !.high = high] ELSE job[j]]
-----------------------------------------------------------------------------
Init ==
    /\ main = {} /\ wal = {} /\ pending = {}
    /\ roll = NoPair /\ kept = {}
    /\ snaps = <<>> /\ offsite = {}
    /\ at = "open" /\ conn = "free"
    /\ job = [j \in Copiers |-> Idle]
    /\ n = 0 /\ hurt = {} /\ stops = MaxStops

Files == <<main, wal, pending, roll, kept>>
Copies == <<snaps, offsite>>

\* A running process whose database is sound and whose connection is free.
Serving == at = "up" /\ conn = "free" /\ Sound(main, wal)

(* A transaction, or the weekly VACUUM.  When the whole log is in the main *)
(* file SQLite begins it anew.                                             *)
Commit ==
    /\ Serving /\ n < MaxCommits
    /\ n' = n + 1
    /\ wal' = {[from |-> IF main = {[low |-> Live, high |-> Live]} THEN Live
                         ELSE UNION {l.from : l \in wal},
                upto |-> Live \cup {n + 1}]}
    /\ UNCHANGED <<main, pending, roll, kept, snaps, offsite, at, conn, job, hurt, stops>>

\* A checkpoint writes the log's pages into the main file.
WritePages ==
    /\ main' = {[low |-> f.low, high |-> Live] : f \in main}
    /\ job' = Overwritten(Live)

\* SQLite's own, after a commit that has made the log long; the log stays.
AutoCheckpoint ==
    /\ Serving /\ WritePages
    /\ conn' = "auto"
    /\ UNCHANGED <<wal, pending, roll, kept, snaps, offsite, at, n, hurt, stops>>

AutoEnd ==
    /\ at = "up" /\ conn = "auto"
    /\ main' = {[low |-> Live, high |-> Live]}
    /\ conn' = "free"
    /\ UNCHANGED <<wal, pending, roll, kept, snaps, offsite, at, job, n, hurt, stops>>
-----------------------------------------------------------------------------
\* Mutant: the copy is made without a checkpoint.
CopyBeginUnflushed(j) ==
    /\ Serving /\ job[j].pc = "idle"
    /\ job' = [job EXCEPT ![j] = [Idle EXCEPT !.pc = "flushed", !.seen = Live]]
    /\ UNCHANGED <<Files, Copies, at, conn, n, hurt, stops>>

\* streamBackup, Rotator.once: first PRAGMA wal_checkpoint(TRUNCATE).
CopyBegin(j) ==
    /\ Serving /\ job[j].pc = "idle"
    /\ main' = {[low |-> f.low, high |-> Live] : f \in main}
    /\ job' = [Overwritten(Live) EXCEPT ![j] = [Idle EXCEPT !.pc = "flush"]]
    /\ conn' = "copier"
    /\ UNCHANGED <<wal, pending, roll, kept, snaps, offsite, at, n, hurt, stops>>

Flushed(j) ==
    /\ at = "up" /\ job[j].pc = "flush"
    /\ main' = {[low |-> Live, high |-> Live]}
    /\ wal' = {}
    /\ job' = [job EXCEPT ![j].pc = "flushed", ![j].seen = Live]
    /\ conn' = "free"
    /\ UNCHANGED <<pending, roll, kept, snaps, offsite, at, n, hurt, stops>>

\* The context ends: the checkpoint stops where it is, and only a line is logged.
FlushFails(j) ==
    /\ at = "up" /\ job[j].pc = "flush"
    /\ job' = [job EXCEPT ![j].pc = "flushed"]
    /\ conn' = "free"
    /\ UNCHANGED <<main, wal, pending, roll, kept, snaps, offsite, at, n, hurt, stops>>

CopyOpen(j) ==
    /\ at = "up" /\ job[j].pc = "flushed"
    /\ \E f \in main : job' = [job EXCEPT ![j] = [@ EXCEPT !.pc = "copy", !.low = f.low,
                                                  !.high = f.high, !.seen = {}]]
    /\ UNCHANGED <<main, wal, pending, roll, kept, snaps, offsite, at, conn, n, hurt, stops>>

CopyFails(j) ==
    /\ at = "up" /\ job[j].pc = "copy"
    /\ job' = [job EXCEPT ![j] = Idle]
    /\ UNCHANGED <<Files, Copies, at, conn, n, hurt, stops>>

Room == Len(snaps) + Cardinality(offsite) < MaxCopies

CopyOf(j) == {[low |-> job[j].low, high |-> h] : h \in {job[j].low, job[j].high}}

Download(j) ==
    /\ at = "up" /\ j # Rot /\ job[j].pc = "copy" /\ Room
    /\ \E f \in CopyOf(j) : offsite' = offsite \cup {f}
    /\ job' = [job EXCEPT ![j] = Idle]
    /\ UNCHANGED <<Files, snaps, at, conn, n, hurt, stops>>

Snapshot ==
    /\ at = "up" /\ job[Rot].pc = "copy" /\ Room
    /\ \E f \in CopyOf(Rot) : snaps' = Append(snaps, f)
    /\ job' = [job EXCEPT ![Rot] = [Idle EXCEPT !.pc = "prune"]]
    /\ UNCHANGED <<Files, offsite, at, conn, n, hurt, stops>>

\* Mutant: off by one.
PrunableOneMore(i) == Len(snaps) - i >= RetainDays - 1

(* Beyond the RetainDays newest a snapshot goes when it is older than that *)
(* many days, which is left open here.                                     *)
Prunable(i) == Len(snaps) - i >= RetainDays

\* prune removes one file after the other, and only logs what it cannot remove.
Prune(i) ==
    /\ at = "up" /\ job[Rot].pc = "prune" /\ Prunable(i)
    /\ snaps' = SubSeq(snaps, 1, i - 1) \o SubSeq(snaps, i + 1, Len(snaps))
    /\ UNCHANGED <<Files, offsite, at, conn, job, n, hurt, stops>>

PruneEnd ==
    /\ at = "up" /\ job[Rot].pc = "prune"
    /\ job' = [job EXCEPT ![Rot] = Idle]
    /\ UNCHANGED <<Files, Copies, at, conn, n, hurt, stops>>
-----------------------------------------------------------------------------
\* Mutant: a second upload does not replace the first.
StageBeside(f) ==
    /\ at = "up"
    /\ f \in offsite \cup {snaps[i] : i \in 1..Len(snaps)}
    /\ pending' = pending \cup {f}
    /\ UNCHANGED <<main, wal, roll, kept, Copies, at, conn, job, n, hurt, stops>>

\* Mutant: the upload replaces the database under the running process.
StageInPlace(f) ==
    /\ at = "up"
    /\ f \in offsite \cup {snaps[i] : i \in 1..Len(snaps)}
    /\ main' = {f} /\ wal' = {}
    /\ UNCHANGED <<pending, roll, kept, Copies, at, conn, job, n, hurt, stops>>

(* An upload is validated by its header and its table of contents, which a *)
(* torn file may pass, and renamed over what was staged before.            *)
Stage(f) ==
    /\ at = "up"
    /\ f \in offsite \cup {snaps[i] : i \in 1..Len(snaps)}
    /\ pending' = {f}
    /\ UNCHANGED <<main, wal, roll, kept, Copies, at, conn, job, n, hurt, stops>>

\* The administrator changes his mind: rm <db>.pending-restore, at any time.
Withdraw ==
    /\ pending # {}
    /\ pending' = {}
    /\ UNCHANGED <<main, wal, roll, kept, Copies, at, conn, job, n, hurt, stops>>

\* SIGTERM: the last connection checkpoints and removes the log.
Stop ==
    /\ Serving /\ stops > 0
    /\ stops' = stops - 1
    /\ main' = {[low |-> Live, high |-> Live]}
    /\ wal' = {}
    /\ at' = "down" /\ conn' = "free" /\ job' = [j \in Copiers |-> Idle]
    /\ UNCHANGED <<pending, roll, kept, Copies, n, hurt>>

\* The process or the router dies, while it serves or while it starts.
Kill ==
    /\ at # "down" /\ stops > 0
    /\ stops' = stops - 1
    /\ at' = "down" /\ conn' = "free" /\ job' = [j \in Copiers |-> Idle]
    /\ kept' = IF roll = NoPair THEN kept ELSE kept \cup {roll}
    /\ roll' = NoPair
    /\ hurt' = IF at = "moved" /\ wal # {} THEN hurt \cup {"split"} ELSE hurt
    /\ UNCHANGED <<main, wal, pending, Copies, n>>
-----------------------------------------------------------------------------
(* MaybeApplyPendingRestore, before the database is opened.                *)
NothingStaged ==
    /\ at = "down" /\ pending = {}
    /\ at' = "open"
    /\ UNCHANGED <<Files, Copies, conn, job, n, hurt, stops>>

\* validateSQLiteFile has refused it; it is removed.
Refused ==
    /\ at = "down" /\ \E f \in pending : ~Whole(f)
    /\ pending' = {}
    /\ at' = "open"
    /\ UNCHANGED <<main, wal, roll, kept, Copies, conn, job, n, hurt, stops>>

\* Mutant: the database is removed instead of set aside.
MoveMainAway ==
    /\ at = "down" /\ pending # {} /\ main # {}
    /\ main' = {} /\ wal' = {}
    /\ at' = "cleared"
    /\ UNCHANGED <<pending, roll, kept, Copies, conn, job, n, hurt, stops>>

MoveMain ==
    /\ at = "down" /\ pending # {} /\ main # {}
    /\ roll' = [db |-> main, log |-> {}]
    /\ main' = {}
    /\ at' = "moved"
    /\ UNCHANGED <<wal, pending, kept, Copies, conn, job, n, hurt, stops>>

MoveMainFails ==
    /\ IOFails /\ at = "down" /\ pending # {} /\ main # {}
    /\ at' = "open"
    /\ UNCHANGED <<Files, Copies, conn, job, n, hurt, stops>>

NoMain ==
    /\ at = "down" /\ pending # {} /\ main = {}
    /\ at' = "bare"
    /\ UNCHANGED <<Files, Copies, conn, job, n, hurt, stops>>

\* Mutant: the log is left where it is.
MoveWalForgotten ==
    /\ at = "moved"
    /\ at' = "cleared"
    /\ UNCHANGED <<Files, Copies, conn, job, n, hurt, stops>>

MoveWal ==
    /\ at = "moved"
    /\ roll' = [roll EXCEPT !.log = wal]
    /\ wal' = {}
    /\ at' = "cleared"
    /\ UNCHANGED <<main, pending, kept, Copies, conn, job, n, hurt, stops>>

\* Its error is ignored.
MoveWalFails ==
    /\ IOFails /\ at = "moved" /\ wal # {}
    /\ hurt' = hurt \cup {"split"}
    /\ at' = "cleared"
    /\ UNCHANGED <<Files, Copies, conn, job, n, stops>>

Keep == kept' = (IF roll = NoPair THEN kept ELSE kept \cup {roll}) /\ roll' = NoPair

Swap ==
    /\ at \in {"cleared", "bare"} /\ pending # {}
    /\ main' = pending /\ pending' = {}
    /\ Keep
    /\ hurt' = IF \A f \in pending : Whole(f) THEN hurt ELSE hurt \cup {"torn"}
    /\ at' = "open"
    /\ UNCHANGED <<wal, Copies, conn, job, n, stops>>

(* The staged file is gone, or the rename fails: the old main file gets    *)
(* its name back, its log does not.                                        *)
SwapFails ==
    /\ at \in {"cleared", "bare"} /\ (IOFails \/ pending = {})
    /\ \/ /\ main' = roll.db
          /\ kept' = IF roll.log = {} THEN kept ELSE kept \cup {[roll EXCEPT !.db = {}]}
          /\ roll' = NoPair
          /\ hurt' = IF roll.log = {} THEN hurt ELSE hurt \cup {"split"}
       \/ IOFails /\ Keep /\ UNCHANGED <<main, hurt>>
    /\ at' = "open"
    /\ UNCHANGED <<wal, pending, Copies, conn, job, n, stops>>

\* db.Open: a missing main file is created empty, and a log beside it removed.
Open ==
    /\ at = "open"
    /\ IF main = {} THEN main' = {[low |-> {}, high |-> {}]} /\ wal' = {}
                    ELSE UNCHANGED <<main, wal>>
    /\ at' = "up"
    /\ UNCHANGED <<pending, roll, kept, Copies, conn, job, n, hurt, stops>>

Start == NothingStaged \/ Refused \/ MoveMain \/ MoveMainFails \/ NoMain
            \/ MoveWal \/ MoveWalFails \/ Swap \/ SwapFails \/ Open

Next ==
    \/ Commit \/ AutoCheckpoint \/ AutoEnd
    \/ \E j \in Copiers :
          CopyBegin(j) \/ Flushed(j) \/ FlushFails(j) \/ CopyOpen(j) \/ CopyFails(j) \/ Download(j)
    \/ Snapshot \/ PruneEnd
    \/ \E i \in 1..Len(snaps) : Prune(i)
    \/ \E f \in File : Stage(f)
    \/ Withdraw \/ Stop \/ Kill
    \/ Start

Spec == Init /\ [][Next]_vars
-----------------------------------------------------------------------------
(* Types; a name on disk names one file.                                   *)
TypeOK ==
    /\ main \in OneOf(File) /\ wal \in OneOf(Log) /\ pending \in OneOf(File)
    /\ roll \in Pair /\ kept \in SUBSET Pair
    /\ snaps \in Seq(File)
    /\ offsite \in SUBSET File
    /\ at \in Places /\ conn \in {"free", "auto", "copier"}
    /\ job \in [Copiers -> Job]
    /\ n \in 0..MaxCommits /\ stops \in 0..MaxStops
    /\ hurt \in SUBSET {"split", "torn"}

(* A database that serves is sound: unless a torn backup was restored or   *)
(* the main file was separated from its log, what is opened after any stop,*)
(* kill, interrupted checkpoint or swap is one state the database was in.  *)
LiveIsWhole == hurt = {} /\ at = "up" => Sound(main, wal)

(* No commit is ever lost (same provisos): it is in the database that      *)
(* serves or in one that a restore has set aside, log included.            *)
KeptHolds == UNION {Holds(p.db, p.log) : p \in kept}
NothingIsLost == hurt = {} /\ at \in {"up", "down"} => 1..n \subseteq Live \cup KeptHolds

(* "so the byte copy is self-consistent": after its checkpoint a copy has  *)
(* everything that was committed when it was asked for, whatever other     *)
(* copies and checkpoints do in between.                                   *)
BackupIsRecent ==
    [][\A j \in Copiers : job[j].pc = "flushed" /\ job'[j].pc = "copy" =>
                              job[j].seen \subseteq job'[j].low]_vars

(* Pruning never touches the RetainDays newest snapshots.                  *)
Newest(s, k) == s[Len(s) + 1 - k]
PruneKeepsNewest ==
    [][Len(snaps') < Len(snaps) =>
          \A k \in 1..RetainDays : k <= Len(snaps') /\ Newest(snaps', k) = Newest(snaps, k)]_vars
-----------------------------------------------------------------------------
\* Between the two renames the database is what the start has set aside.
Content ==
    IF at = "moved" THEN Holds(roll.db, wal)
    ELSE IF at = "cleared" THEN Holds(roll.db, roll.log) ELSE Live

\* All files that bear pages of the database.
Copied == main \cup roll.db \cup pending \cup offsite \cup {snaps[i] : i \in 1..Len(snaps)}

Points == {f.low : f \in Copied} \cup {job[j].low : j \in {k \in Copiers : job[k].pc = "copy"}}

DB == INSTANCE Database WITH
          content <- Content,
          aside <- {Holds(p.db, p.log) : p \in kept} \ {{}},
          points <- Points,
          up <- at = "up",
          ruined <- hurt # {}

(* Checkpoints, backups, kills, and the swap with whatever fails in it,    *)
(* come down to what a reader of Database would think of: transactions,    *)
(* and at a start at most an exchange for a state the database was once in *)
(* - as long as no torn backup was restored and no main file was separated *)
(* from its log.                                                           *)
KeepsTheDatabase == DB!Spec
=============================================================================
