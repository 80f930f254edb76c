---------------------------- MODULE RestoreProofs ----------------------------
(***************************************************************************)
(* Theorems about Restore, for any number of downloads, commits, stops and *)
(* snapshots.                                                              *)
(***************************************************************************)
EXTENDS Restore, SequenceTheorems, TLAPS

USE CopiersAssumption, RetainAssumption, BoundsAssumption

Commits == SUBSET (1..MaxCommits)

(* A name with at most one file.                                           *)
LEMMA OneOrNone ==
    ASSUME NEW S, NEW T \in OneOf(S)
    PROVE  T = {} \/ \E x \in S : T = {x}
  BY DEF OneOf

LEMMA JustOne ==
    ASSUME NEW S, NEW x \in S
    PROVE  {x} \in OneOf(S)
  BY DEF OneOf

LEMMA None == ASSUME NEW S PROVE {} \in OneOf(S)
  BY DEF OneOf

(* What a pair of names with at most one file each opens to.               *)
LEMMA HoldsFile ==
    ASSUME NEW f \in File
    PROVE  Holds({f}, {}) = f.low
  BY DEF Holds

LEMMA HoldsLog ==
    ASSUME NEW db, NEW l \in Log
    PROVE  Holds(db, {l}) = l.upto
  <1>1. UNION {x.upto : x \in {l}} = l.upto
    OBVIOUS
  <1> QED
    BY <1>1 DEF Holds

LEMMA HoldsNothing == Holds({}, {}) = {}
  BY DEF Holds

LEMMA HoldsType ==
    ASSUME NEW db \in SUBSET File, NEW log \in SUBSET Log
    PROVE  Holds(db, log) \in Commits
  BY DEF Holds, File, Log, Commits

LEMMA LiveType == TypeOK => Live \in Commits
  BY HoldsType DEF TypeOK, Live, OneOf

-----------------------------------------------------------------------------
(* What a checkpoint writes has the type of a main file, what it does to   *)
(* the copies under way the type of their table.                           *)
LEMMA Written ==
    ASSUME TypeOK
    PROVE  {[low |-> f.low, high |-> Live] : f \in main} \in OneOf(File)
  BY LiveType DEF TypeOK, File, Commits, OneOf

LEMMA OverwrittenType ==
    ASSUME TypeOK
    PROVE  Overwritten(Live) \in [Copiers -> Job]
  <1>1. SUFFICES ASSUME NEW j \in Copiers
                 PROVE  (IF job[j].pc = "copy" THEN [job[j] EXCEPT !.high = Live] ELSE job[j]) \in Job
    BY DEF Overwritten
  <1>2. job[j] \in Job
    BY DEF TypeOK
  <1> QED
    BY <1>2, LiveType DEF Job, Commits

LEMMA IdleType == Idle \in Job
  BY DEF Idle, Job

LEMMA Settled == TypeOK => {[low |-> Live, high |-> Live]} \in OneOf(File)
  BY LiveType DEF File, Commits, OneOf

LEMMA TypeStep == TypeOK /\ [Next]_vars => TypeOK'
  <1> SUFFICES ASSUME TypeOK, [Next]_vars PROVE TypeOK'
    OBVIOUS
  <1> USE None, JustOne
  <1>1. ASSUME Commit PROVE TypeOK'
    <2>1. n' \in 0..MaxCommits /\ n + 1 \in 1..MaxCommits
      BY <1>1 DEF Commit, TypeOK
    <2>2. Live \in Commits /\ Live \cup {n + 1} \in Commits
      BY <2>1, LiveType DEF Commits
    <2>3. UNION {l.from : l \in wal} \in Commits
      BY DEF TypeOK, OneOf, Log, Commits
    <2>4. PICK from \in Commits : wal' = {[from |-> from, upto |-> Live \cup {n + 1}]}
      BY <1>1, <2>2, <2>3 DEF Commit
    <2>5. [from |-> from, upto |-> Live \cup {n + 1}] \in Log
      BY <2>2, <2>4 DEF Log, Commits
    <2>6. wal' \in OneOf(Log)
      BY <2>4, <2>5, JustOne
    <2> QED
      BY <1>1, <2>1, <2>6 DEF Commit, TypeOK
  <1>2. ASSUME AutoCheckpoint PROVE TypeOK'
    BY <1>2, LiveType, Written, OverwrittenType, IdleType, Settled
    DEF TypeOK, AutoCheckpoint, Serving, WritePages, CopyOf, Files, Copies, Keep, File, Log, Pair, NoPair,
        Job, Places, Commits, Copiers, OneOf
  <1>3. ASSUME AutoEnd PROVE TypeOK'
    BY <1>3, LiveType, Written, OverwrittenType, IdleType, Settled
    DEF TypeOK, AutoEnd, Serving, WritePages, CopyOf, Files, Copies, Keep, File, Log, Pair, NoPair,
        Job, Places, Commits, Copiers, OneOf
  <1>4. ASSUME NEW j \in Copiers, CopyBegin(j) PROVE TypeOK'
    BY <1>4, LiveType, Written, OverwrittenType, IdleType, Settled
    DEF TypeOK, CopyBegin, Serving, WritePages, CopyOf, Files, Copies, Keep, File, Log, Pair, NoPair,
        Job, Places, Commits, Copiers, OneOf
  <1>5. ASSUME NEW j \in Copiers, Flushed(j) PROVE TypeOK'
    BY <1>5, LiveType, Written, OverwrittenType, IdleType, Settled
    DEF TypeOK, Flushed, Serving, WritePages, CopyOf, Files, Copies, Keep, File, Log, Pair, NoPair,
        Job, Places, Commits, Copiers, OneOf
  <1>6. ASSUME NEW j \in Copiers, FlushFails(j) PROVE TypeOK'
    BY <1>6, LiveType, Written, OverwrittenType, IdleType, Settled
    DEF TypeOK, FlushFails, Serving, WritePages, CopyOf, Files, Copies, Keep, File, Log, Pair, NoPair,
        Job, Places, Commits, Copiers, OneOf
  <1>7. ASSUME NEW j \in Copiers, CopyOpen(j) PROVE TypeOK'
    <2>1. PICK f \in main : job' = [job EXCEPT ![j] = [@ EXCEPT !.pc = "copy", !.low = f.low,
                                                          !.high = f.high, !.seen = {}]]
      BY <1>7 DEF CopyOpen
    <2>2. f.low \in Commits /\ f.high \in Commits
      BY DEF TypeOK, File, Commits, OneOf
    <2>3. job' \in [Copiers -> Job]
      BY <2>1, <2>2 DEF TypeOK, Job, Commits
    <2> QED
      BY <1>7, <2>3 DEF CopyOpen, TypeOK
  <1>8. ASSUME NEW j \in Copiers, CopyFails(j) PROVE TypeOK'
    BY <1>8, LiveType, Written, OverwrittenType, IdleType, Settled
    DEF TypeOK, CopyFails, Serving, WritePages, CopyOf, Files, Copies, Keep, File, Log, Pair, NoPair,
        Job, Places, Commits, Copiers, OneOf
  <1>9. ASSUME NEW j \in Copiers, Download(j) PROVE TypeOK'
    BY <1>9, LiveType, Written, OverwrittenType, IdleType, Settled
    DEF TypeOK, Download, Serving, WritePages, CopyOf, Files, Copies, Keep, File, Log, Pair, NoPair,
        Job, Places, Commits, Copiers, OneOf
  <1>10. ASSUME Snapshot PROVE TypeOK'
    <2>1. job' \in [Copiers -> Job]
      BY <1>10, IdleType DEF Snapshot, TypeOK, Job
    <2>2. Rot \in Copiers
      BY DEF Copiers
    <2>3. CopyOf(Rot) \subseteq File
      BY <2>2 DEF CopyOf, TypeOK, Job, File
    <2>4. snaps' \in Seq(File)
      BY <1>10, <2>3 DEF Snapshot, TypeOK
    <2> QED
      BY <1>10, <2>1, <2>4 DEF Snapshot, TypeOK, Files
  <1>11. ASSUME PruneEnd PROVE TypeOK'
    BY <1>11, LiveType, Written, OverwrittenType, IdleType, Settled
    DEF TypeOK, PruneEnd, Serving, WritePages, CopyOf, Files, Copies, Keep, File, Log, Pair, NoPair,
        Job, Places, Commits, Copiers, OneOf
  <1>12. ASSUME NEW i \in 1..Len(snaps), Prune(i) PROVE TypeOK'
    <2>1. i \in Nat /\ Len(snaps) \in Nat /\ i <= Len(snaps)
      BY DEF TypeOK
    <2>2. SubSeq(snaps, 1, i - 1) \in Seq(File) /\ SubSeq(snaps, i + 1, Len(snaps)) \in Seq(File)
      BY <2>1 DEF TypeOK
    <2>3. snaps' \in Seq(File)
      BY <1>12, <2>2 DEF Prune
    <2> QED
      BY <1>12, <2>3 DEF Prune, TypeOK, Files
  <1>13. ASSUME NEW f \in File, Stage(f) PROVE TypeOK'
    BY <1>13, LiveType, Written, OverwrittenType, IdleType, Settled
    DEF TypeOK, Stage, Serving, WritePages, CopyOf, Files, Copies, Keep, File, Log, Pair, NoPair,
        Job, Places, Commits, Copiers, OneOf
  <1>14. ASSUME Withdraw PROVE TypeOK'
    BY <1>14, LiveType, Written, OverwrittenType, IdleType, Settled
    DEF TypeOK, Withdraw, Serving, WritePages, CopyOf, Files, Copies, Keep, File, Log, Pair, NoPair,
        Job, Places, Commits, Copiers, OneOf
  <1>15. ASSUME Stop PROVE TypeOK'
    BY <1>15, LiveType, Written, OverwrittenType, IdleType, Settled
    DEF TypeOK, Stop, Serving, WritePages, CopyOf, Files, Copies, Keep, File, Log, Pair, NoPair,
        Job, Places, Commits, Copiers, OneOf
  <1>16. ASSUME Kill PROVE TypeOK'
    BY <1>16, LiveType, Written, OverwrittenType, IdleType, Settled
    DEF TypeOK, Kill, Serving, WritePages, CopyOf, Files, Copies, Keep, File, Log, Pair, NoPair,
        Job, Places, Commits, Copiers, OneOf
  <1>17. ASSUME NothingStaged PROVE TypeOK'
    BY <1>17, LiveType, Written, OverwrittenType, IdleType, Settled
    DEF TypeOK, NothingStaged, Serving, WritePages, CopyOf, Files, Copies, Keep, File, Log, Pair, NoPair,
        Job, Places, Commits, Copiers, OneOf
  <1>18. ASSUME Refused PROVE TypeOK'
    BY <1>18, LiveType, Written, OverwrittenType, IdleType, Settled
    DEF TypeOK, Refused, Serving, WritePages, CopyOf, Files, Copies, Keep, File, Log, Pair, NoPair,
        Job, Places, Commits, Copiers, OneOf
  <1>19. ASSUME MoveMain PROVE TypeOK'
    BY <1>19, LiveType, Written, OverwrittenType, IdleType, Settled
    DEF TypeOK, MoveMain, Serving, WritePages, CopyOf, Files, Copies, Keep, File, Log, Pair, NoPair,
        Job, Places, Commits, Copiers, OneOf
  <1>20. ASSUME MoveMainFails PROVE TypeOK'
    BY <1>20, LiveType, Written, OverwrittenType, IdleType, Settled
    DEF TypeOK, MoveMainFails, Serving, WritePages, CopyOf, Files, Copies, Keep, File, Log, Pair, NoPair,
        Job, Places, Commits, Copiers, OneOf
  <1>21. ASSUME NoMain PROVE TypeOK'
    BY <1>21, LiveType, Written, OverwrittenType, IdleType, Settled
    DEF TypeOK, NoMain, Serving, WritePages, CopyOf, Files, Copies, Keep, File, Log, Pair, NoPair,
        Job, Places, Commits, Copiers, OneOf
  <1>22. ASSUME MoveWal PROVE TypeOK'
    BY <1>22, LiveType, Written, OverwrittenType, IdleType, Settled
    DEF TypeOK, MoveWal, Serving, WritePages, CopyOf, Files, Copies, Keep, File, Log, Pair, NoPair,
        Job, Places, Commits, Copiers, OneOf
  <1>23. ASSUME MoveWalFails PROVE TypeOK'
    BY <1>23, LiveType, Written, OverwrittenType, IdleType, Settled
    DEF TypeOK, MoveWalFails, Serving, WritePages, CopyOf, Files, Copies, Keep, File, Log, Pair, NoPair,
        Job, Places, Commits, Copiers, OneOf
  <1>24. ASSUME Swap PROVE TypeOK'
    BY <1>24, LiveType, Written, OverwrittenType, IdleType, Settled
    DEF TypeOK, Swap, Serving, WritePages, CopyOf, Files, Copies, Keep, File, Log, Pair, NoPair,
        Job, Places, Commits, Copiers, OneOf
  <1>25. ASSUME SwapFails PROVE TypeOK'
    <2>1. roll.db \in OneOf(File) /\ [roll EXCEPT !.db = {}] \in Pair
      BY None DEF TypeOK, Pair
    <2>2. main' \in OneOf(File) /\ kept' \in SUBSET Pair
      BY <1>25, <2>1 DEF SwapFails, Keep, TypeOK
    <2>3. NoPair \in Pair
      BY None DEF NoPair, Pair
    <2>4. roll' \in Pair /\ hurt' \in SUBSET {"split", "torn"}
      BY <1>25, <2>3 DEF SwapFails, Keep, TypeOK
    <2> QED
      BY <1>25, <2>2, <2>4 DEF SwapFails, TypeOK, Copies, Places
  <1>26. ASSUME Open PROVE TypeOK'
    <2>1. {[low |-> {}, high |-> {}]} \in OneOf(File)
      BY DEF File, OneOf
    <2>2. main' \in OneOf(File) /\ wal' \in OneOf(Log)
      BY <1>26, <2>1, None DEF Open, TypeOK
    <2> QED
      BY <1>26, <2>2 DEF Open, TypeOK, Copies, Places
  <1>27. CASE UNCHANGED vars
    BY <1>27 DEF TypeOK, vars, OneOf
  <1> QED
    BY <1>1, <1>2, <1>3, <1>4, <1>5, <1>6, <1>7, <1>8, <1>9, <1>10, <1>11, <1>12, <1>13, <1>14, <1>15, <1>16, <1>17, <1>18, <1>19, <1>20, <1>21, <1>22, <1>23, <1>24, <1>25, <1>26, <1>27 DEF Next, Start

(* Files, copies and places keep their types, and a name names one file.   *)
THEOREM RestoreTypes == Spec => []TypeOK
  <1>1. Init => TypeOK
    BY None, IdleType DEF Init, TypeOK, NoPair, Pair, Places, File, Log
  <1> QED
    BY <1>1, TypeStep, PTL DEF Spec
-----------------------------------------------------------------------------
(* A database and its log under one name fit together; a log never lies    *)
(* about without a database.                                               *)
Paired(db, log) == Sound(db, log) /\ (db = {} => log = {})

(* As long as nothing has hurt the files: what is where, at each place.    *)
Rolling ==
    /\ at \notin {"moved", "cleared"} => roll = NoPair
    /\ at = "moved" => main = {} /\ roll.log = {}
    /\ at \in {"cleared", "bare"} => main = {} /\ (hurt = {} => wal = {})
    /\ at = "up" => main # {}

Matching ==
    hurt = {} => /\ at # "moved" => Paired(main, wal)
                 /\ at = "moved" => Paired(roll.db, wal)
                 /\ at = "cleared" => Sound(roll.db, roll.log)

\* What the start under way has set aside.
RollHolds == Holds(roll.db, IF at = "moved" THEN wal ELSE roll.log)

Saved == hurt = {} => 1..n \subseteq Live \cup KeptHolds \cup RollHolds

IInv == TypeOK /\ Rolling /\ Matching /\ Saved

(* The running process has one main file, and a log that fits it or none.  *)
LEMMA Serves ==
    ASSUME TypeOK, Sound(main, wal), NEW f \in File, main = {f}
    PROVE  \/ wal = {} /\ f.low = f.high /\ Live = f.low
           \/ \E l \in Log : /\ wal = {l} /\ Live = l.upto
                              /\ l.from \subseteq f.low /\ (f.low \cup f.high) \subseteq l.upto
  <1>1. CASE wal = {}
    BY <1>1 DEF Sound, Whole, Live, Holds
  <1>2. ASSUME NEW l \in Log, wal = {l}
        PROVE  /\ Live = l.upto
               /\ l.from \subseteq f.low /\ (f.low \cup f.high) \subseteq l.upto
    <2>1. Live = l.upto
      BY <1>2, HoldsLog DEF Live
    <2>2. wal # {}
      BY <1>2
    <2> QED
      BY <1>2, <2>1, <2>2 DEF Sound
  <1>3. wal = {} \/ \E l \in Log : wal = {l}
    BY OneOrNone DEF TypeOK
  <1> QED
    BY <1>1, <1>2, <1>3

LEMMA OneMain == TypeOK /\ main # {} => \E f \in File : main = {f}
  BY OneOrNone DEF TypeOK

(* A checkpoint, finished or not, leaves a database that opens to the same.*)
LEMMA Checkpointing ==
    ASSUME TypeOK, Sound(main, wal), main # {}
    PROVE  LET M == {[low |-> f.low, high |-> Live] : f \in main}
               W == {[low |-> Live, high |-> Live]}
           IN  /\ Sound(M, wal) /\ Holds(M, wal) = Live /\ M # {}
               /\ Sound(W, wal) /\ Holds(W, wal) = Live
               /\ Sound(W, {}) /\ Holds(W, {}) = Live
  <1> DEFINE M == {[low |-> f.low, high |-> Live] : f \in main}
             W == {[low |-> Live, high |-> Live]}
  <1>1. PICK f \in File : main = {f}
    BY OneMain
  <1>2. M = {[low |-> f.low, high |-> Live]}
    BY <1>1
  <1>3. [low |-> f.low, high |-> Live] \in File /\ [low |-> Live, high |-> Live] \in File
    BY LiveType DEF File, Commits
  <1>4. Sound(W, {}) /\ Holds(W, {}) = Live
    BY <1>3, HoldsFile DEF Sound, Whole
  <1>5. CASE wal = {} /\ f.low = f.high /\ Live = f.low
    BY <1>2, <1>4, <1>5
  <1>6. ASSUME NEW l \in Log, wal = {l}, Live = l.upto,
               l.from \subseteq f.low, (f.low \cup f.high) \subseteq l.upto
        PROVE  Sound(M, wal) /\ Holds(M, wal) = Live /\ Sound(W, wal) /\ Holds(W, wal) = Live
    <2>1. Holds(M, wal) = Live /\ Holds(W, wal) = Live
      BY <1>6, HoldsLog
    <2>2. Sound(M, wal)
      <3>1. PICK g \in File : g = [low |-> f.low, high |-> Live]
        BY <1>3
      <3>2. g.low = f.low /\ g.high = Live
        BY <3>1
      <3>3. (g.low \cup g.high) \subseteq l.upto /\ l.from \subseteq g.low
        BY <1>6, <3>2
      <3>4. M = {g} /\ wal # {}
        BY <1>2, <1>6, <3>1
      <3> QED
        BY <1>6, <3>3, <3>4 DEF Sound
    <2>3. Sound(W, wal)
      BY <1>6 DEF Sound
    <2> QED
      BY <2>1, <2>2, <2>3
  <1> QED
    BY <1>1, <1>2, <1>4, <1>5, <1>6, Serves

LEMMA RollingStep == TypeOK /\ Rolling /\ Matching /\ [Next]_vars => Rolling'
  <1> SUFFICES ASSUME TypeOK, Rolling, Matching, [Next]_vars PROVE Rolling'
    OBVIOUS
  <1>1. ASSUME Commit PROVE Rolling'
    BY <1>1 DEF Rolling, Commit, Serving, WritePages, Files, Copies, Keep, NoPair, TypeOK, Places
  <1>2. ASSUME AutoCheckpoint PROVE Rolling'
    BY <1>2, Checkpointing DEF Rolling, AutoCheckpoint, Serving, WritePages, Files, Copies, Keep, NoPair, TypeOK, Places
  <1>3. ASSUME AutoEnd PROVE Rolling'
    BY <1>3 DEF Rolling, AutoEnd, Serving, WritePages, Files, Copies, Keep, NoPair, TypeOK, Places
  <1>4. ASSUME NEW j \in Copiers, CopyBegin(j) PROVE Rolling'
    BY <1>4, Checkpointing DEF Rolling, CopyBegin, Serving, WritePages, Files, Copies, Keep, NoPair, TypeOK, Places
  <1>5. ASSUME NEW j \in Copiers, Flushed(j) PROVE Rolling'
    BY <1>5 DEF Rolling, Flushed, Serving, WritePages, Files, Copies, Keep, NoPair, TypeOK, Places
  <1>6. ASSUME NEW j \in Copiers, FlushFails(j) PROVE Rolling'
    BY <1>6 DEF Rolling, FlushFails, Serving, WritePages, Files, Copies, Keep, NoPair, TypeOK, Places
  <1>7. ASSUME NEW j \in Copiers, CopyOpen(j) PROVE Rolling'
    BY <1>7 DEF Rolling, CopyOpen, Serving, WritePages, Files, Copies, Keep, NoPair, TypeOK, Places
  <1>8. ASSUME NEW j \in Copiers, CopyFails(j) PROVE Rolling'
    BY <1>8 DEF Rolling, CopyFails, Serving, WritePages, Files, Copies, Keep, NoPair, TypeOK, Places
  <1>9. ASSUME NEW j \in Copiers, Download(j) PROVE Rolling'
    BY <1>9 DEF Rolling, Download, Serving, WritePages, Files, Copies, Keep, NoPair, TypeOK, Places
  <1>10. ASSUME Snapshot PROVE Rolling'
    BY <1>10 DEF Rolling, Snapshot, Serving, WritePages, Files, Copies, Keep, NoPair, TypeOK, Places
  <1>11. ASSUME PruneEnd PROVE Rolling'
    BY <1>11 DEF Rolling, PruneEnd, Serving, WritePages, Files, Copies, Keep, NoPair, TypeOK, Places
  <1>12. ASSUME NEW i \in 1..Len(snaps), Prune(i) PROVE Rolling'
    BY <1>12 DEF Rolling, Prune, Serving, WritePages, Files, Copies, Keep, NoPair, TypeOK, Places
  <1>13. ASSUME NEW f \in File, Stage(f) PROVE Rolling'
    BY <1>13 DEF Rolling, Stage, Serving, WritePages, Files, Copies, Keep, NoPair, TypeOK, Places
  <1>14. ASSUME Withdraw PROVE Rolling'
    BY <1>14 DEF Rolling, Withdraw, Serving, WritePages, Files, Copies, Keep, NoPair, TypeOK, Places
  <1>15. ASSUME Stop PROVE Rolling'
    BY <1>15 DEF Rolling, Stop, Serving, WritePages, Files, Copies, Keep, NoPair, TypeOK, Places
  <1>16. ASSUME Kill PROVE Rolling'
    BY <1>16 DEF Rolling, Kill, Serving, WritePages, Files, Copies, Keep, NoPair, TypeOK, Places
  <1>17. ASSUME NothingStaged PROVE Rolling'
    BY <1>17 DEF Rolling, NothingStaged, Serving, WritePages, Files, Copies, Keep, NoPair, TypeOK, Places
  <1>18. ASSUME Refused PROVE Rolling'
    BY <1>18 DEF Rolling, Refused, Serving, WritePages, Files, Copies, Keep, NoPair, TypeOK, Places
  <1>19. ASSUME MoveMain PROVE Rolling'
    BY <1>19 DEF Rolling, MoveMain, Serving, WritePages, Files, Copies, Keep, NoPair, TypeOK, Places
  <1>20. ASSUME MoveMainFails PROVE Rolling'
    BY <1>20 DEF Rolling, MoveMainFails, Serving, WritePages, Files, Copies, Keep, NoPair, TypeOK, Places
  <1>21. ASSUME NoMain PROVE Rolling'
    BY <1>21 DEF Rolling, Matching, Paired, NoMain, Files
  <1>22. ASSUME MoveWal PROVE Rolling'
    BY <1>22 DEF Rolling, MoveWal, Serving, WritePages, Files, Copies, Keep, NoPair, TypeOK, Places
  <1>23. ASSUME MoveWalFails PROVE Rolling'
    BY <1>23 DEF Rolling, MoveWalFails, Serving, WritePages, Files, Copies, Keep, NoPair, TypeOK, Places
  <1>24. ASSUME Swap PROVE Rolling'
    BY <1>24 DEF Rolling, Swap, Serving, WritePages, Files, Copies, Keep, NoPair, TypeOK, Places
  <1>25. ASSUME SwapFails PROVE Rolling'
    BY <1>25 DEF Rolling, SwapFails, Serving, WritePages, Files, Copies, Keep, NoPair, TypeOK, Places
  <1>26. ASSUME Open PROVE Rolling'
    BY <1>26 DEF Rolling, Open, Serving, WritePages, Files, Copies, Keep, NoPair, TypeOK, Places
  <1>27. CASE UNCHANGED vars
    BY <1>27 DEF Rolling, vars
  <1> QED
    BY <1>1, <1>2, <1>3, <1>4, <1>5, <1>6, <1>7, <1>8, <1>9, <1>10, <1>11, <1>12, <1>13, <1>14, <1>15, <1>16, <1>17, <1>18, <1>19, <1>20, <1>21, <1>22, <1>23, <1>24, <1>25, <1>26, <1>27 DEF Next, Start


(* A transaction's log fits the main file, and shows what was there and    *)
(* the transaction.                                                        *)
LEMMA Committing ==
    ASSUME TypeOK, Rolling, Commit
    PROVE  Sound(main, wal') /\ wal' # {} /\ Holds(main, wal') = Live \cup {n + 1}
  <1>1. Sound(main, wal) /\ main # {}
    BY DEF Commit, Serving, Rolling
  <1>2. PICK f \in File : main = {f}
    BY <1>1, OneMain
  <1>3. PICK from : /\ wal' = {[from |-> from, upto |-> Live \cup {n + 1}]}
                    /\ from = IF main = {[low |-> Live, high |-> Live]} THEN Live
                              ELSE UNION {l.from : l \in wal}
    BY DEF Commit
  <1>4. from \subseteq f.low /\ (f.low \cup f.high) \subseteq Live
    <2>1. CASE wal = {} /\ f.low = f.high /\ Live = f.low
      <3>1. f = [low |-> Live, high |-> Live]
        BY <2>1 DEF File
      <3> QED
        BY <1>2, <1>3, <2>1, <3>1
    <2>2. ASSUME NEW l \in Log, wal = {l}, Live = l.upto,
                 l.from \subseteq f.low, (f.low \cup f.high) \subseteq l.upto
          PROVE  from \subseteq f.low /\ (f.low \cup f.high) \subseteq Live
      <3>1. UNION {x.from : x \in wal} = l.from
        BY <2>2
      <3>2. main = {[low |-> Live, high |-> Live]} => f.low = Live
        BY <1>2
      <3> QED
        BY <1>3, <2>2, <3>1, <3>2
    <2> QED
      BY <1>1, <1>2, <2>1, <2>2, Serves
  <1>5. wal' # {}
    BY <1>3
  <1>6. Holds(main, wal') = Live \cup {n + 1}
    BY <1>3 DEF Holds
  <1>7. Sound(main, wal')
    <2>1. \A l \in wal' : l.from = from /\ l.upto = Live \cup {n + 1}
      BY <1>3
    <2>2. \A l \in wal' : l.from \subseteq f.low /\ (f.low \cup f.high) \subseteq l.upto
      BY <1>4, <2>1
    <2> QED
      BY <1>2, <1>5, <2>2 DEF Sound
  <1> QED
    BY <1>5, <1>6, <1>7

(* Most actions move none of the files that make up a database.            *)
Quiet ==
    \/ \E j \in Copiers : FlushFails(j) \/ CopyOpen(j) \/ CopyFails(j) \/ Download(j)
    \/ Snapshot \/ PruneEnd \/ Withdraw
    \/ \E i \in 1..Len(snaps) : Prune(i)
    \/ \E f \in File : Stage(f)
    \/ UNCHANGED vars

LEMMA QuietMovesNothing == Quiet => UNCHANGED <<main, wal, roll, kept, at, hurt, n>>
  BY DEF Quiet, FlushFails, CopyOpen, CopyFails, Download, Snapshot, PruneEnd, Prune, Stage,
         Withdraw, Files, vars

LEMMA NothingIsSound == Sound({}, {})
  BY DEF Sound

LEMMA EmptyIsSound == Sound({[low |-> {}, high |-> {}]}, {})
  <1>1. \A f \in {[low |-> {}, high |-> {}]} : f.low = f.high
    OBVIOUS
  <1> QED
    BY <1>1 DEF Sound, Whole

LEMMA MatchingStep == TypeOK /\ Rolling /\ Matching /\ [Next]_vars => Matching'
  <1> SUFFICES ASSUME TypeOK, Rolling, Matching, [Next]_vars PROVE Matching'
    OBVIOUS
  <1> USE DEF Rolling, Matching, Paired, Serving, WritePages, Files, Copies, Keep, NoPair
  <1>1. ASSUME Commit PROVE Matching'
    BY <1>1, Committing DEF Commit
  <1>2. ASSUME AutoCheckpoint PROVE Matching'
    BY <1>2, Checkpointing DEF AutoCheckpoint
  <1>3. ASSUME AutoEnd PROVE Matching'
    BY <1>3, Checkpointing DEF AutoEnd
  <1>4. ASSUME NEW j \in Copiers, CopyBegin(j) PROVE Matching'
    BY <1>4, Checkpointing DEF CopyBegin
  <1>5. ASSUME NEW j \in Copiers, Flushed(j) PROVE Matching'
    BY <1>5, Checkpointing DEF Flushed
  <1>6. ASSUME Stop PROVE Matching'
    BY <1>6, Checkpointing DEF Stop
  <1>7. ASSUME Kill PROVE Matching'
    BY <1>7, NothingIsSound DEF Kill
  <1>8. ASSUME NothingStaged PROVE Matching'
    BY <1>8 DEF NothingStaged
  <1>9. ASSUME Refused PROVE Matching'
    BY <1>9 DEF Refused
  <1>10. ASSUME MoveMain PROVE Matching'
    BY <1>10 DEF MoveMain
  <1>11. ASSUME MoveMainFails PROVE Matching'
    BY <1>11 DEF MoveMainFails
  <1>12. ASSUME NoMain PROVE Matching'
    BY <1>12 DEF NoMain
  <1>13. ASSUME MoveWal PROVE Matching'
    <2>1. roll' = [roll EXCEPT !.log = wal] /\ roll'.log = wal /\ roll'.db = roll.db
      BY <1>13 DEF MoveWal, TypeOK, Pair
    <2> QED
      BY <1>13, <2>1, NothingIsSound DEF MoveWal
  <1>14. ASSUME MoveWalFails PROVE Matching'
    BY <1>14 DEF MoveWalFails
  <1>15. ASSUME Swap PROVE Matching'
    <2>1. SUFFICES ASSUME hurt' = {} PROVE Paired(main', wal')
      BY <1>15 DEF Swap
    <2>2. hurt = {} /\ \A f \in pending : Whole(f)
      BY <1>15, <2>1 DEF Swap
    <2>3. wal' = {} /\ main' = pending /\ pending # {}
      BY <1>15, <2>2 DEF Swap
    <2> QED
      BY <2>2, <2>3 DEF Sound
  <1>16. ASSUME SwapFails PROVE Matching'
    <2>1. SUFFICES ASSUME hurt' = {} PROVE Paired(main', wal')
      BY <1>16 DEF SwapFails
    <2>2. hurt = {} /\ wal' = {} /\ main = {}
      BY <1>16, <2>1 DEF SwapFails
    <2>3. CASE main' = roll.db /\ roll.log = {}
      <3>1. Sound(roll.db, {})
        BY <1>16, <2>2, <2>3, NothingIsSound DEF SwapFails
      <3> QED
        BY <2>2, <2>3, <3>1
    <2>4. CASE UNCHANGED main
      BY <2>2, <2>4, NothingIsSound
    <2> QED
      BY <1>16, <2>1, <2>2, <2>3, <2>4 DEF SwapFails
  <1>17. ASSUME Open PROVE Matching'
    <2>1. CASE main = {}
      <3>1. main' = {[low |-> {}, high |-> {}]} /\ wal' = {}
        BY <1>17, <2>1 DEF Open
      <3>2. Sound(main', wal') /\ main' # {}
        BY <3>1, EmptyIsSound
      <3> QED
        BY <1>17, <3>2 DEF Open
    <2>2. CASE main # {}
      BY <1>17, <2>2 DEF Open
    <2> QED
      BY <2>1, <2>2
  <1>18. ASSUME Quiet PROVE Matching'
    BY <1>18, QuietMovesNothing
  <1> QED
    BY <1>1, <1>2, <1>3, <1>4, <1>5, <1>6, <1>7, <1>8, <1>9, <1>10, <1>11, <1>12, <1>13, <1>14, <1>15, <1>16, <1>17, <1>18 DEF Next, Start, Quiet

(* What has been set aside is among what is kept once it is kept.          *)
LEMMA Keeping ==
    ASSUME kept' = IF roll = NoPair THEN kept ELSE kept \cup {roll}
    PROVE  KeptHolds' = KeptHolds \cup Holds(roll.db, roll.log)
  <1>1. CASE roll = NoPair
    <2>1. Holds(roll.db, roll.log) = {}
      BY <1>1, HoldsNothing DEF NoPair
    <2> QED
      BY <1>1, <2>1 DEF KeptHolds
  <1>2. CASE roll # NoPair
    <2>1. kept' = kept \cup {roll}
      BY <1>2
    <2> QED
      BY <2>1 DEF KeptHolds
  <1> QED
    BY <1>1, <1>2

LEMMA AtRest == roll = NoPair /\ at # "moved" => RollHolds = {}
  BY HoldsNothing DEF RollHolds, NoPair

(* Steps that leave what is set aside alone and take nothing from the      *)
(* database.                                                               *)
LEMMA Saves ==
    ASSUME Saved, hurt = {}, UNCHANGED kept, RollHolds \subseteq RollHolds' \cup Live',
           Live \subseteq Live' \cup RollHolds', n' = n
    PROVE  Saved'
  <1>1. KeptHolds' = KeptHolds
    BY DEF KeptHolds
  <1> QED
    BY <1>1 DEF Saved

LEMMA SavedStep == TypeOK /\ Rolling /\ Matching /\ Saved /\ [Next]_vars => Saved'
  <1> SUFFICES ASSUME TypeOK, Rolling, Matching, Saved, [Next]_vars, hurt' = {} PROVE Saved'
    BY DEF Saved
  <1>1. ASSUME Commit PROVE Saved'
    <2>1. hurt = {} /\ UNCHANGED <<kept, roll, at>> /\ at = "up" /\ n' = n + 1 /\ main' = main
      BY <1>1 DEF Commit, Serving
    <2>2. Live' = Live \cup {n + 1}
      BY <1>1, <2>1, Committing DEF Live
    <2>3. KeptHolds' = KeptHolds /\ RollHolds' = RollHolds
      BY <2>1 DEF KeptHolds, RollHolds
    <2>4. 1..n' \subseteq 1..n \cup {n + 1}
      BY <2>1 DEF TypeOK
    <2> QED
      BY <2>1, <2>2, <2>3, <2>4 DEF Saved
  <1>2. ASSUME AutoCheckpoint \/ AutoEnd \/ (\E j \in Copiers : CopyBegin(j) \/ Flushed(j))
        PROVE  Saved'
    <2>1. hurt = {} /\ UNCHANGED <<kept, roll, at, n>> /\ at = "up"
      BY <1>2 DEF AutoCheckpoint, AutoEnd, CopyBegin, Flushed, Serving
    <2>2. Sound(main, wal) /\ main # {}
      BY <2>1 DEF Rolling, Matching, Paired
    <2>3. Live' = Holds(main', wal')
      BY DEF Live
    <2>4. Live' = Live
      BY <1>2, <2>2, <2>3, Checkpointing DEF AutoCheckpoint, AutoEnd, CopyBegin, Flushed, WritePages
    <2>5. RollHolds' = RollHolds
      BY <2>1 DEF RollHolds
    <2> QED
      BY <2>1, <2>4, <2>5, Saves
  <1>3. ASSUME Stop PROVE Saved'
    <2>1. hurt = {} /\ UNCHANGED <<kept, roll, n>> /\ at = "up" /\ at' = "down"
      BY <1>3 DEF Stop, Serving
    <2>2. Sound(main, wal) /\ main # {}
      BY <2>1 DEF Rolling, Matching, Paired
    <2>3. Live' = Live
      BY <1>3, <2>2, Checkpointing DEF Stop, Live
    <2>4. RollHolds' = RollHolds
      BY <2>1 DEF RollHolds
    <2> QED
      BY <2>1, <2>3, <2>4, Saves
  <1>4. ASSUME Kill PROVE Saved'
    <2>1. hurt = {} /\ UNCHANGED <<main, wal, n>> /\ (at = "moved" => wal = {})
      BY <1>4 DEF Kill
    <2>2. RollHolds = Holds(roll.db, roll.log)
      BY <2>1 DEF RollHolds, Rolling
    <2>3. KeptHolds' = KeptHolds \cup RollHolds
      BY <1>4, <2>2, Keeping DEF Kill
    <2>4. Live' = Live
      BY <2>1 DEF Live
    <2> QED
      BY <2>1, <2>3, <2>4 DEF Saved
  <1>5. ASSUME NothingStaged \/ Refused \/ MoveMainFails \/ NoMain PROVE Saved'
    <2>1. hurt = {} /\ UNCHANGED <<main, wal, kept, roll, n>> /\ at # "moved" /\ at' # "moved"
      BY <1>5 DEF NothingStaged, Refused, MoveMainFails, NoMain, Files
    <2>2. Live' = Live
      BY <2>1 DEF Live
    <2>3. RollHolds' = RollHolds
      BY <2>1 DEF RollHolds
    <2> QED
      BY <2>1, <2>2, <2>3, Saves
  <1>6. ASSUME MoveMain PROVE Saved'
    <2>1. hurt = {} /\ UNCHANGED <<wal, kept, n>> /\ at' = "moved" /\ roll'.db = main
      BY <1>6 DEF MoveMain
    <2>2. RollHolds = {}
      BY <1>6, AtRest DEF MoveMain, Rolling
    <2>3. RollHolds' = Live
      BY <2>1 DEF RollHolds, Live
    <2> QED
      BY <2>1, <2>2, <2>3, Saves
  <1>7. ASSUME MoveWal PROVE Saved'
    <2>1. hurt = {} /\ UNCHANGED <<kept, n>> /\ at = "moved" /\ at' = "cleared" /\ main = {}
      BY <1>7 DEF MoveWal, Rolling
    <2>2. roll'.log = wal /\ roll'.db = roll.db
      BY <1>7 DEF MoveWal, TypeOK, Pair
    <2>3. RollHolds' = RollHolds /\ RollHolds = Holds(roll.db, wal)
      BY <2>1, <2>2 DEF RollHolds
    <2>4. Holds({}, wal) \subseteq Holds(roll.db, wal)
      BY DEF Holds
    <2> QED
      BY <2>1, <2>3, <2>4, Saves DEF Live
  <1>8. ASSUME MoveWalFails PROVE Saved'
    BY <1>8 DEF MoveWalFails
  <1>9. ASSUME Swap \/ SwapFails PROVE Saved'
    <2>1. hurt = {} /\ UNCHANGED <<wal, n>> /\ at \in {"cleared", "bare"} /\ at' = "open"
      BY <1>9 DEF Swap, SwapFails
    <2>2. Live = {}
      BY <2>1, HoldsNothing DEF Rolling, Live
    <2>3. RollHolds = Holds(roll.db, roll.log)
      BY <2>1 DEF RollHolds
    <2>4. CASE Keep
      <3>1. KeptHolds' = KeptHolds \cup RollHolds
        BY <2>3, <2>4, Keeping DEF Keep
      <3> QED
        BY <2>1, <2>2, <3>1 DEF Saved
    <2>5. CASE main' = roll.db /\ roll.log = {} /\ kept' = kept
      <3>1. wal' = {}
        BY <2>1 DEF Rolling
      <3>2. Live' = RollHolds
        BY <2>3, <2>5, <3>1 DEF Live
      <3> QED
        BY <2>1, <2>2, <2>5, <3>2, Saves
    <2> QED
      BY <1>9, <2>4, <2>5 DEF Swap, SwapFails
  <1>10. ASSUME Open PROVE Saved'
    <2>1. hurt = {} /\ UNCHANGED <<kept, roll, n>> /\ at = "open" /\ at' = "up"
      BY <1>10 DEF Open
    <2>2. RollHolds' = RollHolds
      BY <2>1 DEF RollHolds
    <2>3. Live \subseteq Live'
      <3>1. CASE main = {}
        BY <2>1, <3>1, HoldsNothing DEF Matching, Paired, Live
      <3>2. CASE main # {}
        BY <1>10, <3>2 DEF Open, Live
      <3> QED
        BY <3>1, <3>2
    <2> QED
      BY <2>1, <2>2, <2>3, Saves
  <1>11. ASSUME Quiet PROVE Saved'
    <2>1. UNCHANGED <<main, wal, roll, kept, at, hurt, n>>
      BY <1>11, QuietMovesNothing
    <2>2. Live' = Live /\ RollHolds' = RollHolds
      BY <2>1 DEF Live, RollHolds
    <2> QED
      BY <2>1, <2>2, Saves
  <1> QED
    BY <1>1, <1>2, <1>3, <1>4, <1>5, <1>6, <1>7, <1>8, <1>9, <1>10, <1>11 DEF Next, Start, Quiet

(* The inductive invariant: types, where the files are during a start, that*)
(* a database and its log fit together under either name, and that every   *)
(* commit is in one of them.                                               *)
LEMMA Inductive == Spec => []IInv
  <1>1. Init => IInv
    <2> SUFFICES ASSUME Init PROVE IInv
      OBVIOUS
    <2>1. TypeOK
      BY None, IdleType DEF Init, TypeOK, NoPair, Pair, Places, File, Log
    <2>2. Rolling /\ Matching
      BY NothingIsSound DEF Init, Rolling, Matching, Paired
    <2>3. Saved
      BY DEF Init, Saved
    <2> QED
      BY <2>1, <2>2, <2>3 DEF IInv
  <1>2. IInv /\ [Next]_vars => IInv'
    BY TypeStep, RollingStep, MatchingStep, SavedStep DEF IInv
  <1> QED
    BY <1>1, <1>2, PTL DEF Spec

(* A database that serves is one the administrator can trust: no stop, no  *)
(* kill in the middle of a checkpoint or of the swap, leaves it half one   *)
(* thing and half another, unless a torn backup was restored or a rename   *)
(* failed (or the process died) between the main file and its log.         *)
THEOREM RestoreIsSound == Spec => []LiveIsWhole
  <1>1. IInv => LiveIsWhole
    BY DEF IInv, Matching, Paired, LiveIsWhole
  <1> QED
    BY <1>1, Inductive, PTL

(* With the same provisos, every commit ever made is in the database or in *)
(* a pair of files a restore has set aside.                                *)
THEOREM NothingLost == Spec => []NothingIsLost
  <1>1. IInv => NothingIsLost
    BY AtRest DEF IInv, Rolling, Saved, NothingIsLost
  <1> QED
    BY <1>1, Inductive, PTL
-----------------------------------------------------------------------------
(* Copies.  Only the process that is up copies; the checkpoint of a copy   *)
(* holds the only connection, so that there is one at a time, and what it  *)
(* is checkpointing is sound until it ends; from then on the main file has *)
(* in all its pages what the copy has to have.                             *)
Copying ==
    /\ \A j \in Copiers : job[j].pc # "idle" => at = "up"
    /\ \A j \in Copiers : job[j].pc = "flush" => conn = "copier" /\ job[j].seen = {}
    /\ \A i, j \in Copiers : job[i].pc = "flush" /\ job[j].pc = "flush" => i = j
    /\ conn # "free" => at = "up" /\ Sound(main, wal)
    /\ \A j \in Copiers : job[j].pc = "flushed" => \A f \in main : job[j].seen \subseteq f.low

CInv == IInv /\ Copying

(* What all pages of a sound database have, is in it.                      *)
LEMMA LowIsLive ==
    ASSUME TypeOK, main # {}, Sound(main, wal), NEW f \in main
    PROVE  f.low \subseteq Live
  <1>1. PICK g \in File : main = {g}
    BY OneMain
  <1> QED
    BY <1>1, Serves

(* Files that are not there, or whose pages only gain, still have it.      *)
LEMMA StillSeen ==
    ASSUME Copying,
           \A j \in Copiers : job'[j].pc = "flushed" =>
              job[j].pc = "flushed" /\ job'[j].seen = job[j].seen,
           \A g \in main' : \E f \in main : f.low \subseteq g.low
    PROVE  \A j \in Copiers : job'[j].pc = "flushed" => \A f \in main' : job'[j].seen \subseteq f.low
  BY DEF Copying

(* A checkpoint takes nothing out of the pages and lets no copy start.     *)
LEMMA Gains ==
    ASSUME TypeOK, main # {}, Sound(main, wal)
    PROVE  /\ \A g \in {[low |-> f.low, high |-> Live] : f \in main} : \E f \in main : f.low \subseteq g.low
           /\ \A g \in {[low |-> Live, high |-> Live]} : \E f \in main : f.low \subseteq g.low
  <1>1. ASSUME NEW g \in {[low |-> f.low, high |-> Live] : f \in main}
        PROVE  \E f \in main : f.low \subseteq g.low
    OBVIOUS
  <1>2. PICK f \in main : TRUE
    OBVIOUS
  <1>3. f.low \subseteq Live
    BY <1>2, LowIsLive
  <1> QED
    BY <1>1, <1>2, <1>3

LEMMA OverwrittenSame ==
    ASSUME TypeOK, NEW h, NEW j \in Copiers
    PROVE  Overwritten(h)[j].pc = job[j].pc /\ Overwritten(h)[j].seen = job[j].seen
  BY DEF Overwritten, TypeOK, Job

LEMMA CopyingStep == CInv /\ [Next]_vars => Copying'
  <1> SUFFICES ASSUME IInv, Copying, [Next]_vars PROVE Copying'
    BY DEF CInv
  <1>0. TypeOK /\ (at = "up" => main # {})
    BY DEF IInv, Rolling
  <1> DEFINE Seen == \A j \in Copiers : job[j].pc = "flushed" => \A f \in main : job[j].seen \subseteq f.low
  <1>1. ASSUME Commit PROVE Copying'
    BY <1>1 DEF Commit, Serving, Copying
  <1>2. ASSUME AutoCheckpoint PROVE Copying'
    <2>1. at = "up" /\ conn = "free" /\ Sound(main, wal) /\ UNCHANGED <<at, wal>> /\ conn' = "auto"
      BY <1>2 DEF AutoCheckpoint, Serving
    <2>2. main' = {[low |-> f.low, high |-> Live] : f \in main} /\ job' = Overwritten(Live)
      BY <1>2 DEF AutoCheckpoint, WritePages
    <2>3. \A j \in Copiers : job'[j].pc = job[j].pc /\ job'[j].seen = job[j].seen
      BY <1>0, <2>2, OverwrittenSame
    <2>4. Seen'
      BY <1>0, <2>1, <2>2, <2>3, Gains, StillSeen
    <2>5. Sound(main', wal')
      BY <1>0, <2>1, <2>2, Checkpointing
    <2>6. \A j \in Copiers : job[j].pc # "flush"
      BY <2>1 DEF Copying
    <2> QED
      BY <2>1, <2>3, <2>4, <2>5, <2>6 DEF Copying
  <1>3. ASSUME AutoEnd PROVE Copying'
    <2>1. at = "up" /\ conn = "auto" /\ Sound(main, wal) /\ UNCHANGED <<at, wal, job>> /\ conn' = "free"
      BY <1>3 DEF AutoEnd, Copying
    <2>2. main' = {[low |-> Live, high |-> Live]}
      BY <1>3 DEF AutoEnd
    <2>3. Seen'
      BY <1>0, <2>1, <2>2, Gains, StillSeen
    <2> QED
      BY <2>1, <2>3 DEF Copying
  <1>4. ASSUME NEW j \in Copiers, CopyBegin(j) PROVE Copying'
    <2>1. at = "up" /\ conn = "free" /\ Sound(main, wal) /\ UNCHANGED <<at, wal>> /\ conn' = "copier"
      BY <1>4 DEF CopyBegin, Serving
    <2>2. /\ main' = {[low |-> f.low, high |-> Live] : f \in main}
          /\ job' = [Overwritten(Live) EXCEPT ![j] = [Idle EXCEPT !.pc = "flush"]]
      BY <1>4 DEF CopyBegin
    <2>3. job'[j].pc = "flush" /\ job'[j].seen = {}
      BY <1>0, <2>2, OverwrittenType DEF Idle
    <2>4. \A k \in Copiers : k # j => job'[k].pc = job[k].pc /\ job'[k].seen = job[k].seen
      BY <1>0, <2>2, OverwrittenSame, OverwrittenType
    <2>5. Seen'
      BY <1>0, <2>1, <2>2, <2>3, <2>4, Gains, StillSeen
    <2>6. Sound(main', wal')
      BY <1>0, <2>1, <2>2, Checkpointing
    <2>7. \A k \in Copiers : job[k].pc # "flush"
      BY <2>1 DEF Copying
    <2> QED
      BY <2>1, <2>3, <2>4, <2>5, <2>6, <2>7 DEF Copying
  <1>5. ASSUME NEW j \in Copiers, Flushed(j) PROVE Copying'
    <2>1. /\ at = "up" /\ at' = at /\ conn' = "free" /\ job[j].pc = "flush"
          /\ main' = {[low |-> Live, high |-> Live]}
          /\ job' = [job EXCEPT ![j].pc = "flushed", ![j].seen = Live]
      BY <1>5 DEF Flushed
    <2>2. Sound(main, wal)
      BY <2>1 DEF Copying
    <2>3. job'[j].pc = "flushed" /\ job'[j].seen = Live
      BY <1>0, <2>1 DEF TypeOK, Job
    <2>4. \A k \in Copiers : k # j => job'[k] = job[k]
      BY <1>0, <2>1 DEF TypeOK
    <2>5. \A k \in Copiers : job[k].pc = "flushed" => job[k].seen \subseteq Live
      BY <1>0, <2>1, <2>2, LowIsLive DEF Copying
    <2>6. Seen'
      <3>1. \A f \in main' : f.low = Live
        BY <2>1
      <3>2. \A k \in Copiers : job'[k].pc = "flushed" => job'[k].seen \subseteq Live
        BY <2>3, <2>4, <2>5
      <3> QED
        BY <3>1, <3>2
    <2>7. \A k \in Copiers : job'[k].pc # "flush"
      BY <2>1, <2>3, <2>4 DEF Copying
    <2> QED
      BY <2>1, <2>3, <2>4, <2>6, <2>7 DEF Copying
  <1>6. ASSUME NEW j \in Copiers, FlushFails(j) PROVE Copying'
    <2>1. /\ at = "up" /\ UNCHANGED <<at, main, wal>> /\ conn' = "free" /\ job[j].pc = "flush"
          /\ job' = [job EXCEPT ![j].pc = "flushed"]
      BY <1>6 DEF FlushFails
    <2>2. job'[j].pc = "flushed" /\ job'[j].seen = {}
      BY <1>0, <2>1 DEF TypeOK, Job, Copying
    <2>3. \A k \in Copiers : k # j => job'[k] = job[k]
      BY <1>0, <2>1 DEF TypeOK
    <2>4. Seen'
      BY <2>1, <2>2, <2>3 DEF Copying
    <2>5. \A k \in Copiers : job'[k].pc # "flush"
      BY <2>1, <2>2, <2>3 DEF Copying
    <2> QED
      BY <2>1, <2>2, <2>3, <2>4, <2>5 DEF Copying
  <1>7. ASSUME NEW j \in Copiers, at = "up", UNCHANGED <<at, main, wal, conn>>,
               \A k \in Copiers : k # j => job'[k] = job[k],
               job'[j].pc \notin {"flush", "flushed"}
        PROVE  Copying'
    BY <1>7 DEF Copying
  <1>8. ASSUME NEW j \in Copiers, CopyOpen(j) \/ CopyFails(j) \/ Download(j) PROVE Copying'
    <2>1. at = "up" /\ UNCHANGED <<at, main, wal, conn>>
      BY <1>8 DEF CopyOpen, CopyFails, Download, Files
    <2>2. \A k \in Copiers : k # j => job'[k] = job[k]
      BY <1>0, <1>8 DEF CopyOpen, CopyFails, Download, TypeOK
    <2>3. CASE CopyOpen(j)
      <3>1. job'[j].pc = "copy"
        BY <1>0, <2>3 DEF CopyOpen, TypeOK, Job
      <3> QED
        BY <1>7, <2>1, <2>2, <3>1
    <2>4. CASE CopyFails(j) \/ Download(j)
      <3>1. job'[j].pc = "idle"
        BY <1>0, <2>4 DEF CopyFails, Download, TypeOK, Idle
      <3> QED
        BY <1>7, <2>1, <2>2, <3>1
    <2> QED
      BY <1>8, <2>3, <2>4
  <1>9. ASSUME Snapshot \/ PruneEnd PROVE Copying'
    <2>1. at = "up" /\ UNCHANGED <<at, main, wal, conn>> /\ Rot \in Copiers
      BY <1>9 DEF Snapshot, PruneEnd, Files, Copiers
    <2>2. \A k \in Copiers : k # Rot => job'[k] = job[k]
      BY <1>0, <1>9 DEF Snapshot, PruneEnd, TypeOK
    <2>3. job'[Rot].pc \in {"prune", "idle"}
      BY <1>0, <1>9, <2>1 DEF Snapshot, PruneEnd, TypeOK, Idle
    <2> QED
      BY <1>7, <2>1, <2>2, <2>3
  <1>10. ASSUME Stop \/ Kill PROVE Copying'
    <2>1. conn' = "free" /\ \A j \in Copiers : job'[j].pc = "idle"
      BY <1>10 DEF Stop, Kill, Idle
    <2> QED
      BY <2>1 DEF Copying
  <1>11. ASSUME Start PROVE Copying'
    <2>1. at # "up" /\ UNCHANGED <<conn, job>>
      BY <1>11 DEF Start, NothingStaged, Refused, MoveMain, MoveMainFails, NoMain, MoveWal,
                   MoveWalFails, Swap, SwapFails, Open
    <2>2. conn = "free" /\ \A j \in Copiers : job[j].pc = "idle"
      BY <2>1 DEF Copying
    <2> QED
      BY <2>1, <2>2 DEF Copying
  <1>12. ASSUME UNCHANGED <<main, wal, at, conn, job>> PROVE Copying'
    BY <1>12 DEF Copying
  <1>13. ASSUME \/ \E i \in 1..Len(snaps) : Prune(i)
                \/ \E f \in File : Stage(f)
                \/ Withdraw \/ UNCHANGED vars
         PROVE  Copying'
    BY <1>12, <1>13 DEF Prune, Stage, Withdraw, Files, vars
  <1> QED
    BY <1>1, <1>2, <1>3, <1>4, <1>5, <1>6, <1>8, <1>9, <1>10, <1>11, <1>13 DEF Next

LEMMA CopyingInvariant == Spec => []CInv
  <1>1. Init => Copying
    BY DEF Init, Copying, Idle
  <1> QED
    BY <1>1, CopyingStep, Inductive, PTL DEF Spec, CInv

(* A file that is opened for a backup has everything that had been         *)
(* committed when the checkpoint before it ended well, whatever other      *)
(* downloads, the rotator and SQLite's own checkpoints did in between -    *)
(* and whatever has happened to the database before.                       *)
THEOREM BackupsAreRecent == Spec => BackupIsRecent
  <1>1. ASSUME CInv, [Next]_vars, NEW j \in Copiers, job[j].pc = "flushed", job'[j].pc = "copy"
        PROVE  job[j].seen \subseteq job'[j].low
    <2>1. TypeOK
      BY <1>1 DEF CInv, IInv
    <2>2. CASE CopyOpen(j)
      <3>1. PICK f \in main : job' = [job EXCEPT ![j] = [@ EXCEPT !.pc = "copy", !.low = f.low,
                                                           !.high = f.high, !.seen = {}]]
        BY <2>2 DEF CopyOpen
      <3>2. job'[j].low = f.low
        BY <2>1, <3>1 DEF TypeOK, Job
      <3> QED
        BY <1>1, <3>2 DEF CInv, Copying
    <2>3. ASSUME NEW k \in Copiers, k # j,
                 \/ CopyBegin(k) \/ Flushed(k) \/ FlushFails(k) \/ CopyOpen(k) \/ CopyFails(k)
                 \/ Download(k)
          PROVE  job'[j].pc = job[j].pc
      <3>1. CASE CopyBegin(k)
        BY <2>1, <2>3, <3>1, OverwrittenSame, OverwrittenType DEF CopyBegin
      <3>2. CASE ~CopyBegin(k)
        BY <2>1, <2>3, <3>2 DEF Flushed, FlushFails, CopyOpen, CopyFails, Download, TypeOK
      <3> QED
        BY <3>1, <3>2
    <2>4. ~CopyBegin(j) /\ ~Flushed(j) /\ ~FlushFails(j) /\ ~CopyFails(j) /\ ~Download(j)
      BY <1>1 DEF CopyBegin, Flushed, FlushFails, CopyFails, Download
    <2>5. ASSUME AutoCheckpoint PROVE job'[j].pc = job[j].pc
      BY <2>1, <2>5, OverwrittenSame DEF AutoCheckpoint, WritePages
    <2>6. ASSUME \/ Commit \/ AutoEnd \/ (\E i \in 1..Len(snaps) : Prune(i))
                 \/ (\E f \in File : Stage(f)) \/ Withdraw \/ Start \/ UNCHANGED vars
          PROVE  job' = job
      BY <2>6 DEF Commit, AutoEnd, Prune, Stage, Withdraw, Start, NothingStaged, Refused, MoveMain,
                  MoveMainFails, NoMain, MoveWal, MoveWalFails, Swap, SwapFails, Open, vars
    <2>7. ASSUME Stop \/ Kill PROVE job'[j].pc = "idle"
      BY <2>7 DEF Stop, Kill, Idle
    <2>8. ASSUME Snapshot \/ PruneEnd PROVE job'[j].pc # "copy"
      BY <1>1, <2>1, <2>8 DEF Snapshot, PruneEnd, TypeOK, Idle
    <2> QED
      BY <1>1, <2>2, <2>3, <2>4, <2>5, <2>6, <2>7, <2>8 DEF Next
  <1>2. CInv /\ [Next]_vars =>
           \A j \in Copiers : job[j].pc = "flushed" /\ job'[j].pc = "copy" =>
                                 job[j].seen \subseteq job'[j].low
    BY <1>1
  <1>3. CInv /\ [Next]_vars =>
           [\A j \in Copiers : job[j].pc = "flushed" /\ job'[j].pc = "copy" =>
                                  job[j].seen \subseteq job'[j].low]_vars
    BY <1>2
  <1> QED
    BY <1>3, CopyingInvariant, PTL DEF Spec, BackupIsRecent
-----------------------------------------------------------------------------
(* Taking one snapshot that is not among the newest k out of the sequence  *)
(* leaves those where they were, counted from the end.                     *)
LEMMA TakenOut ==
    ASSUME NEW s \in Seq(File), NEW i \in 1..Len(s), NEW k \in Nat \ {0}, k <= Len(s) - i
    PROVE  LET t == SubSeq(s, 1, i - 1) \o SubSeq(s, i + 1, Len(s))
           IN  Len(t) = Len(s) - 1 /\ k <= Len(t) /\ Newest(t, k) = Newest(s, k)
  <1> DEFINE a == SubSeq(s, 1, i - 1)
             b == SubSeq(s, i + 1, Len(s))
  <1>1. Len(s) \in Nat /\ i \in Nat /\ i >= 1 /\ i + k <= Len(s)
    OBVIOUS
  <1>2. a \in Seq(File) /\ Len(a) = i - 1
    BY <1>1
  <1>3. b \in Seq(File) /\ Len(b) = Len(s) - i
    BY <1>1
  <1>4. \A m \in 1..Len(b) : b[m] = s[i + m]
    BY <1>1, <1>3
  <1> HIDE DEF a, b
  <1> DEFINE t == a \o b
  <1>5. /\ Len(t) = Len(a) + Len(b)
        /\ \A m \in 1..Len(a) + Len(b) : t[m] = IF m <= Len(a) THEN a[m] ELSE b[m - Len(a)]
    BY <1>2, <1>3, ConcatProperties
  <1> HIDE DEF t
  <1>6. Len(t) = Len(s) - 1 /\ k <= Len(t)
    BY <1>1, <1>2, <1>3, <1>5
  <1>7. t[Len(s) - k] = b[Len(s) - k - (i - 1)]
    <2>1. Len(s) - k \in 1..(Len(a) + Len(b)) /\ ~(Len(s) - k <= Len(a))
      BY <1>1, <1>2, <1>3
    <2>2. Len(s) - k - Len(a) = Len(s) - k - (i - 1)
      BY <1>2
    <2>3. t[Len(s) - k] = b[Len(s) - k - Len(a)]
      BY <1>5, <2>1
    <2> QED
      BY <2>2, <2>3
  <1>8. b[Len(s) - k - (i - 1)] = s[Len(s) + 1 - k]
    <2>1. Len(s) - k - (i - 1) \in 1..Len(b)
      BY <1>1, <1>3
    <2>2. i + (Len(s) - k - (i - 1)) = Len(s) + 1 - k
      BY <1>1
    <2> QED
      BY <1>4, <2>1, <2>2
  <1>9. Len(t) + 1 - k = Len(s) - k
    BY <1>1, <1>6
  <1>10. Newest(t, k) = Newest(s, k)
    BY <1>7, <1>8, <1>9 DEF Newest
  <1> QED
    BY <1>6, <1>10 DEF t, a, b

(* What is left was there.                                                 *)
LEMMA WhatIsLeft ==
    ASSUME NEW s \in Seq(File), NEW i \in 1..Len(s)
    PROVE  LET t == SubSeq(s, 1, i - 1) \o SubSeq(s, i + 1, Len(s))
           IN  \A k \in 1..Len(t) : \E m \in 1..Len(s) : t[k] = s[m]
  <1> DEFINE a == SubSeq(s, 1, i - 1)
             b == SubSeq(s, i + 1, Len(s))
  <1>1. Len(s) \in Nat /\ i \in Nat /\ i >= 1 /\ i <= Len(s)
    OBVIOUS
  <1>2. a \in Seq(File) /\ Len(a) = i - 1 /\ \A m \in 1..Len(a) : a[m] = s[m]
    BY <1>1
  <1>3. b \in Seq(File) /\ Len(b) = Len(s) - i /\ \A m \in 1..Len(b) : b[m] = s[i + m]
    BY <1>1
  <1> HIDE DEF a, b
  <1>4. /\ Len(a \o b) = Len(a) + Len(b)
        /\ \A m \in 1..Len(a) + Len(b) : (a \o b)[m] = IF m <= Len(a) THEN a[m] ELSE b[m - Len(a)]
    BY <1>2, <1>3, ConcatProperties
  <1>5. ASSUME NEW k \in 1..Len(a \o b) PROVE \E m \in 1..Len(s) : (a \o b)[k] = s[m]
    <2>1. k \in Nat /\ k >= 1 /\ k <= Len(a) + Len(b)
      BY <1>1, <1>2, <1>3, <1>4
    <2>2. CASE k <= Len(a)
      BY <1>1, <1>2, <1>4, <2>1, <2>2
    <2>3. CASE k > Len(a)
      <3>1. k - Len(a) \in 1..Len(b) /\ i + (k - Len(a)) \in 1..Len(s)
        BY <1>1, <1>2, <1>3, <2>1, <2>3
      <3>2. (a \o b)[k] = b[k - Len(a)]
        BY <1>1, <1>2, <1>4, <2>1, <2>3
      <3> QED
        BY <1>3, <3>1, <3>2
    <2> QED
      BY <1>1, <1>2, <2>1, <2>2, <2>3
  <1> QED
    BY <1>5 DEF a, b

(* Whatever the age of the snapshots says, the RetainDays newest are never *)
(* removed, nor put in another order.                                      *)
THEOREM NewestStay == Spec => PruneKeepsNewest
  <1>1. ASSUME TypeOK, [Next]_vars, Len(snaps') < Len(snaps)
        PROVE  \A k \in 1..RetainDays : k <= Len(snaps') /\ Newest(snaps', k) = Newest(snaps, k)
    <2>1. snaps \in Seq(File) /\ snaps' # snaps
      BY <1>1 DEF TypeOK
    <2>2. ~Snapshot
      <3>1. ASSUME Snapshot PROVE FALSE
        <4>1. PICK f \in CopyOf(Rot) : snaps' = Append(snaps, f)
          BY <3>1 DEF Snapshot
        <4> QED
          BY <1>1, <2>1, <4>1
      <3> QED
        BY <3>1
    <2>3. PICK i \in 1..Len(snaps) : Prune(i)
      BY <1>1, <2>1, <2>2 DEF Next, vars, Commit, AutoCheckpoint, AutoEnd, CopyBegin, Flushed, FlushFails,
         CopyOpen, CopyFails, Download, PruneEnd, Stage, Withdraw, Stop, Kill, Start, NothingStaged,
         Refused, MoveMain, MoveMainFails, NoMain, MoveWal, MoveWalFails, Swap, SwapFails, Open, Copies
    <2>4. RetainDays <= Len(snaps) - i
      BY <2>1, <2>3 DEF Prune, Prunable
    <2>5. snaps' = SubSeq(snaps, 1, i - 1) \o SubSeq(snaps, i + 1, Len(snaps))
      BY <2>3 DEF Prune
    <2>6. ASSUME NEW k \in 1..RetainDays
          PROVE  k <= Len(snaps') /\ Newest(snaps', k) = Newest(snaps, k)
      <3>1. k \in Nat \ {0} /\ k <= Len(snaps) - i
        BY <2>1, <2>4
      <3> QED
        BY <2>1, <2>5, <3>1, TakenOut
    <2> QED
      BY <2>6
  <1>2. TypeOK /\ [Next]_vars =>
           [Len(snaps') < Len(snaps) =>
              \A k \in 1..RetainDays : k <= Len(snaps') /\ Newest(snaps', k) = Newest(snaps, k)]_vars
    BY <1>1
  <1> QED
    BY <1>2, RestoreTypes, PTL DEF Spec, PruneKeepsNewest
-----------------------------------------------------------------------------
(* Restore implements Database.                                            *)

LEMMA InPoints ==
    /\ \A f \in Copied : f.low \in Points
    /\ \A j \in Copiers : job[j].pc = "copy" => job[j].low \in Points
  BY DEF Points

(* The files add no state to those that there are, but the present one.    *)
LEMMA FilesStep ==
    ASSUME \A f \in Copied' : f.low \in Points \cup {Content},
           \A j \in Copiers : job'[j].pc = "copy" => job'[j].low \in Points \cup {Content}
    PROVE  DB!Files
  <1>1. Points' \subseteq Points \cup {Content}
    BY DEF Points
  <1> QED
    BY <1>1 DEF DB!Files

(* Copiers go on with what they have, and no new one starts.               *)
LEMMA SameCopies ==
    ASSUME \A f \in Copied' : f.low \in Points \cup {Content},
           \A j \in Copiers : job'[j].pc = "copy" => job[j].pc = "copy" /\ job'[j].low = job[j].low
    PROVE  DB!Files
  BY FilesStep, InPoints

LEMMA FewerFiles ==
    ASSUME Copied' \subseteq Copied,
           \A j \in Copiers : job'[j].pc = "copy" => job[j].pc = "copy" /\ job'[j].low = job[j].low
    PROVE  DB!Files
  BY SameCopies, InPoints

(* What a start has set aside is among what is set aside, unless it is     *)
(* nothing.                                                                *)
LEMMA SetAside ==
    ASSUME kept' = IF roll = NoPair THEN kept ELSE kept \cup {roll}
    PROVE  LET A == {Holds(p.db, p.log) : p \in kept} \ {{}}
           IN  A' = A \cup ({Holds(roll.db, roll.log)} \ {{}})
  <1>1. CASE roll = NoPair
    <2>1. Holds(roll.db, roll.log) = {}
      BY <1>1, HoldsNothing DEF NoPair
    <2> QED
      BY <1>1, <2>1
  <1>2. CASE roll # NoPair
    BY <1>2
  <1> QED
    BY <1>1, <1>2

(* A step that keeps what the database shows, what is set aside and        *)
(* whether it serves.                                                      *)
LEMMA Unseen ==
    ASSUME DB!Files, Content' = Content, UNCHANGED <<kept, n, hurt>>, (at' = "up") = (at = "up")
    PROVE  DB!Next
  BY DEF DB!Next, DB!Checkpoint

LEMMA UpContent == at \notin {"moved", "cleared"} => Content = Live
  BY DEF Content

(* The files of a running process: checkpoints and copies.                 *)
LEMMA DBRuns ==
    ASSUME IInv, hurt = {},
           \/ AutoCheckpoint \/ AutoEnd \/ Stop
           \/ \E j \in Copiers : CopyBegin(j) \/ Flushed(j)
    PROVE  DB!Next
  <1>1. at = "up" /\ TypeOK /\ Sound(main, wal) /\ main # {}
    BY DEF IInv, Rolling, Matching, Paired, AutoCheckpoint, AutoEnd, Stop, CopyBegin, Flushed, Serving
  <1>2. UNCHANGED <<pending, roll, kept, snaps, offsite, n, hurt>> /\ at' \in {"up", "down"}
    BY <1>1 DEF AutoCheckpoint, AutoEnd, Stop, CopyBegin, Flushed, WritePages, Copies
  <1>3. Content = Live /\ Content' = Live'
    BY <1>1, <1>2 DEF Content
  <1>4. Content' = Content
    <2>1. Live' = Holds(main', wal')
      BY DEF Live
    <2>2. Live' = Live
      BY <1>1, <2>1, Checkpointing DEF AutoCheckpoint, AutoEnd, Stop, CopyBegin, Flushed, WritePages
    <2> QED
      BY <1>3, <2>2
  <1>5. \/ main' = {[low |-> f.low, high |-> Live] : f \in main}
        \/ main' = {[low |-> Live, high |-> Live]}
    BY DEF AutoCheckpoint, AutoEnd, Stop, CopyBegin, Flushed, WritePages
  <1>6. \A f \in main' : f.low = Live \/ \E g \in main : f.low = g.low
    BY <1>5
  <1>7. \A f \in Copied' : f \in main' \/ f \in Copied
    BY <1>2 DEF Copied
  <1>8. \A f \in Copied' : f.low \in Points \cup {Content}
    BY <1>3, <1>6, <1>7, InPoints DEF Copied
  <1>9. \A j \in Copiers : job'[j].pc = "copy" => job[j].pc = "copy" /\ job'[j].low = job[j].low
    <2>1. CASE AutoCheckpoint \/ AutoEnd \/ Stop
      BY <1>1, <2>1 DEF AutoCheckpoint, AutoEnd, Stop, WritePages, Overwritten, Idle, TypeOK, Job
    <2>2. ASSUME NEW j \in Copiers, CopyBegin(j)
          PROVE  \A k \in Copiers : job'[k].pc = "copy" => job[k].pc = "copy" /\ job'[k].low = job[k].low
      BY <1>1, <2>2 DEF CopyBegin, Overwritten, Idle, TypeOK, Job
    <2>3. ASSUME NEW j \in Copiers, Flushed(j)
          PROVE  \A k \in Copiers : job'[k].pc = "copy" => job[k].pc = "copy" /\ job'[k].low = job[k].low
      BY <1>1, <2>3 DEF Flushed, TypeOK, Job
    <2> QED
      BY <2>1, <2>2, <2>3
  <1>10. DB!Files
    BY <1>8, <1>9, SameCopies
  <1>11. CASE at' = "up"
    BY <1>1, <1>2, <1>4, <1>10, <1>11, Unseen
  <1>12. CASE at' = "down"
    BY <1>1, <1>2, <1>4, <1>10, <1>12 DEF DB!Next, DB!Stop
  <1> QED
    BY <1>2, <1>11, <1>12

LEMMA DBCommits == ASSUME IInv, hurt = {}, Commit PROVE DB!Next
  <1>1. /\ at = "up" /\ n' = n + 1 /\ main' = main
        /\ UNCHANGED <<main, pending, roll, kept, snaps, offsite, at, job, hurt>>
    BY DEF Commit, Serving
  <1>2. Live' = Live \cup {n + 1}
    BY <1>1, Committing DEF IInv, Live
  <1>3. Content' = Content \cup {n + 1}
    BY <1>1, <1>2 DEF Content
  <1>4. Points' = Points
    BY <1>1 DEF Points, Copied
  <1> QED
    BY <1>1, <1>3, <1>4 DEF DB!Next, DB!Commit

LEMMA DBQuiet == ASSUME IInv, Quiet, ~UNCHANGED vars PROVE DB!Next
  <1>1. UNCHANGED <<main, wal, roll, kept, at, hurt, n>> /\ TypeOK
    BY QuietMovesNothing DEF IInv
  <1>2. Content' = Content
    BY <1>1 DEF Content, Live
  <1>3. SUFFICES DB!Files
    BY <1>1, <1>2, Unseen
  <1>4. ASSUME NEW j \in Copiers, FlushFails(j) \/ CopyFails(j) PROVE DB!Files
    <2>1. Copied' = Copied
      BY <1>4 DEF FlushFails, CopyFails, Copied, Files, Copies
    <2>2. \A k \in Copiers : job'[k].pc = "copy" => job[k].pc = "copy" /\ job'[k].low = job[k].low
      BY <1>1, <1>4 DEF FlushFails, CopyFails, Idle, TypeOK, Job
    <2> QED
      BY <2>1, <2>2, FewerFiles
  <1>5. ASSUME NEW j \in Copiers, CopyOpen(j) PROVE DB!Files
    <2>1. PICK f \in main : job' = [job EXCEPT ![j] = [@ EXCEPT !.pc = "copy", !.low = f.low,
                                                         !.high = f.high, !.seen = {}]]
      BY <1>5 DEF CopyOpen
    <2>2. Copied' = Copied /\ f \in Copied
      BY <1>5 DEF CopyOpen, Copied
    <2>3. job'[j].low = f.low /\ \A k \in Copiers : k # j => job'[k] = job[k]
      BY <1>1, <2>1 DEF TypeOK, Job
    <2> QED
      BY <2>2, <2>3, InPoints, FilesStep
  <1>6. ASSUME NEW j \in Copiers, Download(j) PROVE DB!Files
    <2>1. job[j].pc = "copy" /\ \A f \in Copied' : f \in Copied \/ f.low = job[j].low
      BY <1>6 DEF Download, Copied, Files, CopyOf
    <2>2. \A k \in Copiers : job'[k].pc = "copy" => job[k].pc = "copy" /\ job'[k].low = job[k].low
      BY <1>1, <1>6 DEF Download, Idle, TypeOK
    <2> QED
      BY <2>1, <2>2, InPoints, SameCopies
  <1>7. ASSUME Snapshot PROVE DB!Files
    <2>1. Rot \in Copiers /\ job[Rot].pc = "copy"
      BY <1>7 DEF Snapshot, Copiers
    <2>2. PICK g \in CopyOf(Rot) : snaps' = Append(snaps, g)
      BY <1>7 DEF Snapshot
    <2>3. g.low = job[Rot].low
      BY <2>2 DEF CopyOf
    <2>4. snaps \in Seq(File) /\ g \in File
      BY <1>1, <2>1, <2>2 DEF TypeOK, CopyOf, Job, File
    <2>5. \A i \in 1..Len(snaps') : snaps'[i] = g \/ \E k \in 1..Len(snaps) : snaps'[i] = snaps[k]
      BY <2>2, <2>4
    <2>6. \A f \in Copied' : f \in Copied \/ f = g
      BY <1>1, <1>7, <2>5 DEF Snapshot, Copied, Files
    <2>7. \A k \in Copiers : job'[k].pc = "copy" => job[k].pc = "copy" /\ job'[k].low = job[k].low
      BY <1>1, <1>7 DEF Snapshot, Idle, TypeOK
    <2> QED
      BY <2>1, <2>3, <2>6, <2>7, InPoints, SameCopies
  <1>8. ASSUME NEW i \in 1..Len(snaps), Prune(i) PROVE DB!Files
    <2>1. snaps \in Seq(File) /\ i \in Nat /\ i <= Len(snaps) /\ Len(snaps) \in Nat /\ i >= 1
      BY <1>1 DEF TypeOK
    <2>2. \A k \in 1..Len(snaps') : \E m \in 1..Len(snaps) : snaps'[k] = snaps[m]
      BY <1>8, <2>1, WhatIsLeft DEF Prune
    <2>3. Copied' \subseteq Copied
      <3>1. UNCHANGED <<main, pending, roll, offsite>>
        BY <1>8 DEF Prune, Files
      <3>2. {snaps'[k] : k \in 1..Len(snaps')} \subseteq {snaps[k] : k \in 1..Len(snaps)}
        BY <2>2
      <3> QED
        BY <3>1, <3>2 DEF Copied
    <2> QED
      BY <1>8, <2>3, FewerFiles DEF Prune
  <1>9. ASSUME NEW f \in File, Stage(f) PROVE DB!Files
    <2>1. Copied' \subseteq Copied
      BY <1>9 DEF Stage, Copied, Copies
    <2> QED
      BY <1>9, <2>1, FewerFiles DEF Stage
  <1>10. ASSUME Withdraw PROVE DB!Files
    <2>1. Copied' \subseteq Copied
      BY <1>10 DEF Withdraw, Copied, Copies
    <2> QED
      BY <1>10, <2>1, FewerFiles DEF Withdraw
  <1>11. ASSUME PruneEnd PROVE DB!Files
    <2>1. Copied' = Copied
      BY <1>11 DEF PruneEnd, Copied, Files, Copies
    <2>2. \A k \in Copiers : job'[k].pc = "copy" => job[k].pc = "copy" /\ job'[k].low = job[k].low
      BY <1>1, <1>11 DEF PruneEnd, Idle, TypeOK
    <2> QED
      BY <2>1, <2>2, FewerFiles
  <1> QED
    BY <1>4, <1>5, <1>6, <1>7, <1>8, <1>9, <1>10, <1>11 DEF Quiet

(* The steps of a start that change nothing but where it is, or that only  *)
(* give the files that bear the database another name.                     *)
LEMMA DBStarts ==
    ASSUME IInv, hurt = {},
           \/ NothingStaged \/ Refused \/ MoveMain \/ MoveMainFails \/ NoMain \/ MoveWal
    PROVE  DB!Next
  <1>1. UNCHANGED <<kept, snaps, offsite, job, n, hurt>> /\ at # "up" /\ at' # "up"
    BY DEF NothingStaged, Refused, MoveMain, MoveMainFails, NoMain, MoveWal, Files, Copies
  <1>2. CASE NothingStaged \/ Refused \/ MoveMainFails \/ NoMain
    <2>1. UNCHANGED <<main, wal, roll>> /\ pending' \subseteq pending
      BY <1>2 DEF NothingStaged, Refused, MoveMainFails, NoMain, Files
    <2>2. Live' = Live /\ at \notin {"moved", "cleared"} /\ at' \notin {"moved", "cleared"}
      BY <1>2, <2>1 DEF NothingStaged, Refused, MoveMainFails, NoMain, Live
    <2>3. Content' = Content
      BY <2>2 DEF Content
    <2>4. Copied' \subseteq Copied
      BY <1>1, <2>1 DEF Copied
    <2> QED
      BY <1>1, <2>3, <2>4, FewerFiles, Unseen
  <1>3. CASE MoveMain
    <2>1. /\ at = "down" /\ at' = "moved" /\ wal' = wal /\ pending' = pending
          /\ roll' = [db |-> main, log |-> {}] /\ main' = {} /\ roll'.db = main
      BY <1>3 DEF MoveMain
    <2>2. Content' = Content
      BY <2>1 DEF Content, Live
    <2>3. Copied' \subseteq Copied
      BY <1>1, <2>1 DEF Copied
    <2> QED
      BY <1>1, <2>2, <2>3, FewerFiles, Unseen
  <1>4. CASE MoveWal
    <2>1. /\ at = "moved" /\ at' = "cleared" /\ UNCHANGED <<main, pending>>
          /\ roll'.db = roll.db /\ roll'.log = wal
      BY <1>4 DEF MoveWal, IInv, TypeOK, Pair
    <2>2. Content' = Content
      BY <2>1 DEF Content
    <2>3. Copied' \subseteq Copied
      BY <1>1, <2>1 DEF Copied
    <2> QED
      BY <1>1, <2>2, <2>3, FewerFiles, Unseen
  <1> QED
    BY <1>2, <1>3, <1>4

(* What is set aside is what the database showed; nothing, when there was  *)
(* no database.                                                            *)
LEMMA RollIsContent ==
    ASSUME IInv, hurt = {}, at \in {"cleared", "bare"} \/ (at = "moved" /\ wal = {})
    PROVE  Content = Holds(roll.db, roll.log) /\ main = {} /\ wal = {}
  <1>1. main = {} /\ wal = {} /\ (at = "moved" => roll.log = {}) /\ (at = "bare" => roll = NoPair)
    BY DEF IInv, Rolling
  <1>2. at = "bare" => Content = Holds({}, {}) /\ roll.db = {} /\ roll.log = {}
    BY <1>1 DEF Content, Live, NoPair
  <1> QED
    BY <1>1, <1>2 DEF Content

(* The database is exchanged for a whole file, or for nothing.             *)
LEMMA Exchanged ==
    ASSUME hurt = {}, hurt' = {}, n' = n, at # "up", at' # "up", DB!Files,
           Content = Holds(roll.db, roll.log), Content' \in Points \cup {{}},
           kept' = IF roll = NoPair THEN kept ELSE kept \cup {roll}
    PROVE  DB!Next
  BY SetAside DEF DB!Next, DB!Replace

LEMMA DBSwaps == ASSUME IInv, hurt' = {}, Swap PROVE DB!Next
  <1>1. /\ hurt = {} /\ \A f \in pending : Whole(f)
        /\ at \in {"cleared", "bare"} /\ at' = "open" /\ pending # {}
        /\ main' = pending /\ pending' = {} /\ Keep
        /\ UNCHANGED <<wal, snaps, offsite, job, n>>
    BY DEF Swap, Copies
  <1>2. Content = Holds(roll.db, roll.log) /\ wal = {}
    BY <1>1, RollIsContent
  <1>3. PICK f \in File : pending = {f}
    BY <1>1, OneOrNone DEF IInv, TypeOK
  <1>4. Content' = f.low
    BY <1>1, <1>2, <1>3, HoldsFile DEF Content, Live
  <1>5. f.low \in Points
    BY <1>3, InPoints DEF Copied
  <1>6. Copied' \subseteq Copied
    BY <1>1 DEF Copied, Keep, NoPair
  <1> QED
    BY <1>1, <1>2, <1>4, <1>5, <1>6, FewerFiles, Exchanged DEF Keep

LEMMA DBSwapsNot == ASSUME IInv, hurt' = {}, SwapFails PROVE DB!Next
  <1>1. /\ hurt = {} /\ at \in {"cleared", "bare"} /\ at' = "open"
        /\ UNCHANGED <<wal, pending, snaps, offsite, job, n>>
    BY DEF SwapFails, Copies
  <1>2. Content = Holds(roll.db, roll.log) /\ wal = {} /\ main = {} /\ wal' = {}
    BY <1>1, RollIsContent
  <1>3. Content' = Holds(main', {})
    BY <1>1, <1>2 DEF Content, Live
  <1>4. CASE main' = roll.db /\ roll.log = {} /\ kept' = kept /\ roll' = NoPair
    <2>1. Content' = Content
      BY <1>2, <1>3, <1>4
    <2>2. Copied' \subseteq Copied
      BY <1>1, <1>4 DEF Copied, NoPair
    <2> QED
      BY <1>1, <1>4, <2>1, <2>2, FewerFiles, Unseen
  <1>5. CASE Keep /\ UNCHANGED main
    <2>1. Content' = {}
      BY <1>2, <1>3, <1>5, HoldsNothing
    <2>2. Copied' \subseteq Copied
      BY <1>1, <1>5 DEF Copied, Keep, NoPair
    <2> QED
      BY <1>1, <1>2, <1>5, <2>1, <2>2, FewerFiles, Exchanged DEF Keep
  <1> QED
    BY <1>1, <1>4, <1>5 DEF SwapFails

LEMMA DBOpens == ASSUME IInv, hurt = {}, Open PROVE DB!Next
  <1>1. /\ at = "open" /\ at' = "up"
        /\ UNCHANGED <<pending, roll, kept, snaps, offsite, job, n, hurt>>
    BY DEF Open, Copies
  <1>2. Content = Live /\ Content' = Live'
    BY <1>1 DEF Content
  <1>3. CASE main = {}
    <2>1. wal = {} /\ main' = {[low |-> {}, high |-> {}]} /\ wal' = {}
      BY <1>1, <1>3 DEF Open, IInv, Matching, Paired
    <2>2. Live = {}
      BY <1>3, <2>1, HoldsNothing DEF Live
    <2>3. [low |-> {}, high |-> {}] \in File
      BY DEF File
    <2>4. Live' = {}
      BY <2>1, <2>3, HoldsFile DEF Live
    <2>5. \A f \in Copied' : f \in Copied \/ f.low = {}
      BY <1>1, <2>1 DEF Copied
    <2>6. DB!Files
      BY <1>1, <1>2, <2>2, <2>5, InPoints, SameCopies
    <2> QED
      BY <1>1, <1>2, <2>2, <2>4, <2>6 DEF DB!Next, DB!Start
  <1>4. CASE main # {}
    <2>1. UNCHANGED <<main, wal>>
      BY <1>4 DEF Open
    <2>2. Live' = Live /\ Copied' = Copied
      BY <1>1, <2>1 DEF Live, Copied
    <2>3. DB!Files
      BY <1>1, <2>2, FewerFiles
    <2> QED
      BY <1>1, <1>2, <2>2, <2>3 DEF DB!Next, DB!Start
  <1> QED
    BY <1>3, <1>4

LEMMA DBDies == ASSUME IInv, hurt' = {}, Kill PROVE DB!Next
  <1>1. /\ hurt = {} /\ (at = "moved" => wal = {}) /\ at # "down" /\ at' = "down"
        /\ kept' = IF roll = NoPair THEN kept ELSE kept \cup {roll}
        /\ roll' = NoPair
        /\ UNCHANGED <<main, wal, pending, snaps, offsite, n>>
        /\ \A j \in Copiers : job'[j].pc = "idle"
    BY DEF Kill, Copies, Idle
  <1>2. Copied' \subseteq Copied
    BY <1>1 DEF Copied, NoPair
  <1>3. DB!Files
    BY <1>1, <1>2, FewerFiles
  <1>4. Content' = Live /\ Live' = Live
    BY <1>1 DEF Content, Live
  <1>5. CASE at \in {"moved", "cleared", "bare"}
    <2>1. Content = Holds(roll.db, roll.log) /\ Live = {}
      BY <1>1, <1>5, RollIsContent, HoldsNothing DEF Live
    <2> QED
      BY <1>1, <1>3, <1>4, <1>5, <2>1, Exchanged
  <1>6. CASE at \in {"open", "up"}
    <2>1. kept' = kept /\ Content' = Content
      BY <1>1, <1>4, <1>6 DEF Content, IInv, Rolling
    <2>2. CASE at = "open"
      BY <1>1, <1>3, <2>1, <2>2, Unseen
    <2>3. CASE at = "up"
      BY <1>1, <1>3, <2>1, <2>3 DEF DB!Next, DB!Stop
    <2> QED
      BY <1>6, <2>2, <2>3
  <1> QED
    BY <1>1, <1>5, <1>6 DEF IInv, TypeOK, Places

LEMMA DBStep == IInv /\ [Next]_vars => [DB!Next]_(DB!db)
  <1> SUFFICES ASSUME IInv, [Next]_vars PROVE DB!Next \/ UNCHANGED DB!db
    OBVIOUS
  <1>1. CASE hurt' # {}
    BY <1>1 DEF DB!Next, DB!Ruin
  <1>2. CASE UNCHANGED vars
    BY <1>2 DEF vars, DB!db, Content, Live, Points, Copied
  <1>3. ASSUME hurt' = {}, Next, ~UNCHANGED vars PROVE DB!Next
    <2>1. CASE Commit \/ AutoCheckpoint \/ AutoEnd \/ Stop \/ \E j \in Copiers : CopyBegin(j) \/ Flushed(j)
      <3>1. hurt = {}
        BY <1>3, <2>1 DEF Commit, AutoCheckpoint, AutoEnd, Stop, CopyBegin, Flushed
      <3> QED
        BY <2>1, <3>1, DBRuns, DBCommits
    <2>2. CASE Quiet
      BY <1>3, <2>2, DBQuiet
    <2>3. CASE NothingStaged \/ Refused \/ MoveMain \/ MoveMainFails \/ NoMain \/ MoveWal \/ Open
      <3>1. hurt = {}
        BY <1>3, <2>3 DEF NothingStaged, Refused, MoveMain, MoveMainFails, NoMain, MoveWal, Open
      <3> QED
        BY <2>3, <3>1, DBStarts, DBOpens
    <2>4. CASE MoveWalFails
      BY <1>3, <2>4 DEF MoveWalFails
    <2>5. CASE Swap \/ SwapFails \/ Kill
      BY <1>3, <2>5, DBSwaps, DBSwapsNot, DBDies
    <2> QED
      BY <1>3, <2>1, <2>2, <2>3, <2>4, <2>5 DEF Next, Start, Quiet
  <1> QED
    BY <1>1, <1>2, <1>3

(* Restore implements Database: files, checkpoints, copies and the swap,   *)
(* killed anywhere and with any rename failing, are a database that only   *)
(* its transactions change while it serves, and that a start exchanges for *)
(* nothing but a state it once was in, with the old one set aside.         *)
THEOREM ImplementsDatabase == Spec => KeepsTheDatabase
  <1>1. Init => DB!Init
    <2> SUFFICES ASSUME Init PROVE DB!Init
      OBVIOUS
    <2>1. Content = {} /\ Copied = {} /\ \A j \in Copiers : job[j].pc = "idle"
      BY HoldsNothing DEF Init, Content, Live, Copied, NoPair, Idle
    <2>2. Points = {}
      BY <2>1 DEF Points
    <2> QED
      BY <2>1, <2>2 DEF Init, DB!Init
  <1> QED
    BY <1>1, Inductive, DBStep, PTL DEF Spec, KeepsTheDatabase, DB!Spec

(* What Database promises, on the way from one of its steps to the next.   *)
Remembered ==
    hurt = {} => /\ n \in Nat /\ Content \subseteq 1..n
                 /\ DB!PointsArePast /\ DB!NothingIsLost

LEMMA RememberedStep == Remembered /\ [DB!Next]_(DB!db) => Remembered'
  <1> DEFINE aside == {Holds(p.db, p.log) : p \in kept} \ {{}}
  <1> SUFFICES ASSUME Remembered, [DB!Next]_(DB!db), hurt' = {} PROVE Remembered'
    BY DEF Remembered
  <1> USE DEF Remembered, DB!NothingIsLost, DB!PointsArePast, DB!Files
  <1>1. CASE DB!Commit
    <2>1. hurt = {} /\ n' = n + 1 /\ Content' = Content \cup {n + 1} /\ aside' = aside /\ Points' = Points
      BY <1>1 DEF DB!Commit
    <2>2. 1..n' = 1..n \cup {n + 1} /\ n' \in Nat
      BY <2>1
    <2> HIDE DEF aside
    <2>3. Content' \subseteq 1..n' /\ (\A p \in Points' : p \subseteq 1..n')
      BY <2>1, <2>2
    <2>4. 1..n' \subseteq Content' \cup UNION aside'
      BY <2>1, <2>2 DEF aside
    <2> QED
      BY <2>2, <2>3, <2>4 DEF aside
  <1>2. CASE DB!Checkpoint \/ DB!Start \/ DB!Stop
    <2>1. /\ hurt = {} /\ n' = n /\ Content' = Content /\ aside' = aside
          /\ Points' \subseteq Points \cup {Content}
      BY <1>2 DEF DB!Checkpoint, DB!Start, DB!Stop
    <2> QED
      BY <2>1
  <1>3. CASE DB!Replace
    <2>1. /\ hurt = {} /\ n' = n /\ Content' \in Points \cup {{}}
          /\ aside' = aside \cup ({Content} \ {{}})
          /\ Points' \subseteq Points \cup {Content}
      BY <1>3 DEF DB!Replace
    <2>2. Content' \subseteq 1..n' /\ (\A p \in Points' : p \subseteq 1..n')
      BY <2>1
    <2> HIDE DEF aside
    <2>3. Content \cup UNION aside \subseteq UNION aside'
      BY <2>1
    <2>4. 1..n \subseteq Content \cup UNION aside
      BY <2>1 DEF aside
    <2> QED
      BY <2>1, <2>2, <2>3, <2>4 DEF aside
  <1>4. CASE UNCHANGED DB!db
    BY <1>4 DEF DB!db
  <1> QED
    BY <1>1, <1>2, <1>3, <1>4 DEF DB!Next, DB!Ruin

LEMMA AlwaysRemembered == Spec => []Remembered
  <1>1. Init => Remembered
    <2> SUFFICES ASSUME Init PROVE Remembered
      OBVIOUS
    <2>1. Content = {} /\ Points = {} /\ n = 0
      BY HoldsNothing DEF Init, Content, Live, Points, Copied, NoPair, Idle
    <2> QED
      BY <2>1 DEF Remembered, DB!NothingIsLost, DB!PointsArePast
  <1> QED
    BY <1>1, RememberedStep, ImplementsDatabase, PTL DEF Spec, KeepsTheDatabase, DB!Spec

(* What is proved of the abstract database holds of the files: at every    *)
(* moment, in the middle of a swap too, each commit is in the database or  *)
(* in one that was set aside (as long as nothing has hurt the files) ...   *)
THEOREM NothingIsLostEver == Spec => []DB!NothingIsLost
  <1>1. Remembered => DB!NothingIsLost
    BY DEF Remembered, DB!NothingIsLost
  <1> QED
    BY <1>1, AlwaysRemembered, PTL

(* ... and no file has a commit that was never made: neither the database, *)
(* nor a backup, nor what is staged.                                       *)
THEOREM NothingIsInvented == Spec => []DB!PointsArePast
  <1>1. Remembered => DB!PointsArePast
    BY DEF Remembered, DB!PointsArePast
  <1> QED
    BY <1>1, AlwaysRemembered, PTL
=============================================================================
