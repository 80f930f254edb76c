----------------------------- MODULE Reminders ------------------------------
(***************************************************************************)
(* Texts that warn the owners of devices about to expire                   *)
(* (server/expiry_reminder.go).  A pass of the hourly loop, or of the      *)
(* administrator's button, selects the devices that are due and of which   *)
(* the audit trail has no reminder of the last 22 hours, and for each one  *)
(* sends a text and writes such a row.  The trail is what keeps an owner   *)
(* from being texted twice, and it is trimmed to its newest rows.          *)
(*                                                                         *)
(* Fewer devices are due than the 200 that one pass selects.  No pass      *)
(* takes as long as 22 hours.                                              *)
(***************************************************************************)
EXTENDS Integers, FiniteSets

CONSTANTS
    Macs,
    Keep,       \* rows that a trim of the trail leaves
    Mishaps     \* bound on crashes, aborted requests and failing statements

ASSUME RemindersAssumption == Keep \in Nat \ {0} /\ Mishaps \in Nat

Passes == {"loop", "manual"}
Idle == [at |-> "idle", todo |-> {}, cur |-> {}]

VARIABLES
    due,        \* devices active, owned, near expiry, of owners who want reminders
    mute,       \* due devices of suspended owners
    newer,      \* rows written since a device's reminder of the last 22 hours, -1: none
    pass,       \* passes under way: devices left to do and the one in hand
    texts,      \* history: texts the owner got about a device in the last 22 hours
    cause,      \* history: devices with a reason to be texted again
    mishaps

rvars == <<due, mute, newer, pass, texts, cause, mishaps>>

Mishap == mishaps > 0 /\ mishaps' = mishaps - 1
Holds(p, m) == m \in pass[p].todo \cup pass[p].cur
Holding(m) == {p \in Passes : Holds(p, m)}

\* The trail with one more row, a reminder of the devices in ms.  Past Keep, how
\* many rows are newer makes no difference.
WithRow(ms) == [m \in Macs |-> IF m \in ms THEN 0
                               ELSE IF newer[m] \in 0..Keep - 1 THEN newer[m] + 1 ELSE newer[m]]

\* The next device of pass p, or its end.
Step(p) == [pass EXCEPT ![p].at = "next", ![p].cur = {}]
-----------------------------------------------------------------------------
RInit ==
    /\ due = {} /\ mute = {}
    /\ newer = [m \in Macs |-> -1]
    /\ pass = [p \in Passes |-> Idle]
    /\ texts = [m \in Macs |-> 0]
    /\ cause = {}
    /\ mishaps = Mishaps

\* Mutant: reminders already sent are not looked up.
EligibleAnyway == due

\* ListExpiringMACsWithoutRecentReminder.
Eligible == {m \in due : newer[m] = -1}

\* A device may be listed while another pass has texted it and not yet said so.
ListDue(p) ==
    /\ pass[p].at = "idle"
    /\ pass' = [pass EXCEPT ![p] = [at |-> "next", todo |-> Eligible, cur |-> {}]]
    /\ cause' = cause \cup {m \in Eligible : \E o \in Passes : pass[o].at = "row" /\ m \in pass[o].cur}
    /\ UNCHANGED <<due, mute, newer, texts, mishaps>>

\* The owner is looked up: a suspended one, or none, is passed over.  Of a device no
\* longer due it does not matter here which it is.
LookUp(p, m) ==
    /\ pass[p].at = "next" /\ m \in pass[p].todo
    /\ \/ /\ m \notin mute /\ UNCHANGED mishaps
          /\ pass' = [pass EXCEPT ![p] = [at |-> "send", todo |-> @.todo \ {m}, cur |-> {m}]]
       \/ /\ m \in mute \/ m \notin due
          /\ UNCHANGED mishaps
          /\ pass' = [pass EXCEPT ![p].todo = @ \ {m}]
       \/ Mishap /\ pass' = [pass EXCEPT ![p].todo = @ \ {m}]
    /\ UNCHANGED <<due, mute, newer, texts, cause>>

\* Mutant: a pass ends at the first text that is not accepted.
SendTextStops(p, m, arrives, accepted) ==
    /\ pass[p].at = "send" /\ pass[p].cur = {m}
    /\ accepted => arrives
    /\ texts' = IF arrives /\ texts[m] < 2 THEN [texts EXCEPT ![m] = @ + 1] ELSE texts
    /\ cause' = IF arrives /\ (~accepted \/ Holding(m) # {p}) THEN cause \cup {m} ELSE cause
    /\ IF accepted
       THEN pass' = [pass EXCEPT ![p].at = "row"] /\ UNCHANGED newer
       ELSE pass' = [pass EXCEPT ![p] = Idle] /\ newer' = WithRow({})
    /\ UNCHANGED <<due, mute, mishaps>>

\* SendSMS.  A text the provider does not confirm may have arrived; it is
\* recorded as failed, and the pass goes on.
SendText(p, m, arrives, accepted) ==
    /\ pass[p].at = "send" /\ pass[p].cur = {m}
    /\ accepted => arrives
    /\ texts' = IF arrives /\ texts[m] < 2 THEN [texts EXCEPT ![m] = @ + 1] ELSE texts
    /\ cause' = IF arrives /\ (~accepted \/ Holding(m) # {p}) THEN cause \cup {m} ELSE cause
    /\ IF accepted
       THEN pass' = [pass EXCEPT ![p].at = "row"] /\ UNCHANGED newer
       ELSE pass' = Step(p) /\ newer' = WithRow({})
    /\ UNCHANGED <<due, mute, mishaps>>

\* The row that later passes look for; Audit does not tell when it fails.
WriteRow(p, m) ==
    /\ pass[p].at = "row" /\ pass[p].cur = {m}
    /\ pass' = Step(p)
    /\ \/ newer' = WithRow({m}) /\ UNCHANGED <<cause, mishaps>>
       \/ Mishap /\ cause' = cause \cup {m} /\ UNCHANGED newer
    /\ UNCHANGED <<due, mute, texts>>

\* The button leaves a row of its own.
PassEnds(p) ==
    /\ pass[p].at = "next" /\ pass[p].todo = {}
    /\ pass' = [pass EXCEPT ![p] = Idle]
    /\ newer' = IF p = "manual" THEN WithRow({}) ELSE newer
    /\ UNCHANGED <<due, mute, texts, cause, mishaps>>

\* The process crashes, or the administrator's request goes away: the statement
\* or the text under way is the last.
CutShort(ps) ==
    /\ \E p \in ps : pass[p] # Idle
    /\ Mishap
    /\ pass' = [p \in Passes |-> IF p \in ps THEN Idle ELSE pass[p]]
    /\ cause' = cause \cup UNION {pass[p].cur : p \in {q \in ps : pass[q].at = "row"}}
    /\ UNCHANGED <<due, mute, newer, texts>>

\* Other rows are written all the time.
OtherRow == newer' = WithRow({}) /\ newer' # newer /\ UNCHANGED <<due, mute, pass, texts, cause, mishaps>>

\* A row of this action can be written through the API as well.
ForeignReminder(m) == newer' = WithRow({m}) /\ UNCHANGED <<due, mute, pass, texts, cause, mishaps>>

\* PurgeAuditLog, every two hours or at a button.
Trim ==
    /\ \E m \in Macs : newer[m] >= Keep
    /\ newer' = [m \in Macs |-> IF newer[m] >= Keep THEN -1 ELSE newer[m]]
    /\ cause' = cause \cup {m \in Macs : newer[m] >= Keep /\ texts[m] > 0}
    /\ UNCHANGED <<due, mute, pass, texts, mishaps>>

\* 22 hours after the last text about m.
Forget(m) ==
    /\ texts[m] > 0 /\ Holding(m) = {}
    /\ texts' = [texts EXCEPT ![m] = 0]
    /\ cause' = cause \ {m}
    /\ UNCHANGED <<due, mute, newer, pass, mishaps>>

\* 22 hours after the row, which follows the text.
RowAges(m) ==
    /\ newer[m] >= 0 /\ texts[m] = 0
    /\ newer' = [newer EXCEPT ![m] = -1]
    /\ UNCHANGED <<due, mute, pass, texts, cause, mishaps>>

\* Expiry comes near, the device is renewed, blocked or deleted, its owner opts in
\* or out; the owner is suspended or restored.
DueChanges(m) ==
    /\ due' = IF m \in due THEN due \ {m} ELSE due \cup {m}
    /\ mute' = mute \ {m}
    /\ UNCHANGED <<newer, pass, texts, cause, mishaps>>
MuteChanges(m) ==
    /\ m \in due
    /\ mute' = IF m \in mute THEN mute \ {m} ELSE mute \cup {m}
    /\ UNCHANGED <<due, newer, pass, texts, cause, mishaps>>

\* What a pass does next.
Goes(p) ==
    \/ ListDue(p) \/ PassEnds(p)
    \/ \E m \in Macs : \/ LookUp(p, m) \/ WriteRow(p, m)
                       \/ \E arrives, accepted \in BOOLEAN : SendText(p, m, arrives, accepted)

RNext ==
    \/ \E p \in Passes : Goes(p)
    \/ CutShort(Passes) \/ CutShort({"manual"})
    \/ OtherRow \/ Trim
    \/ \E m \in Macs : ForeignReminder(m) \/ Forget(m) \/ RowAges(m) \/ DueChanges(m) \/ MuteChanges(m)
-----------------------------------------------------------------------------
RTypeOK ==
    /\ due \subseteq Macs /\ mute \subseteq due /\ cause \subseteq Macs
    /\ newer \in [Macs -> -1..Keep]
    /\ texts \in [Macs -> 0..2]
    /\ mishaps \in 0..Mishaps
    /\ pass \in [Passes -> [at : {"idle", "next", "send", "row"},
                            todo : SUBSET Macs, cur : SUBSET Macs]]
    /\ \A p \in Passes : /\ pass[p].at \in {"send", "row"} <=> pass[p].cur # {}
                         /\ pass[p].at = "idle" => pass[p] = Idle

(***************************************************************************)
(* Two texts about one device within 22 hours ("so a daily loop never      *)
(* double-texts the same user", db.go) have one of these causes: two       *)
(* passes had the device in hand at once, the row of the first was never   *)
(* written or has been trimmed, or the provider denied a text that         *)
(* arrived (sendExpiryReminders).                                          *)
(***************************************************************************)
TwiceHasACause == \A m \in Macs : texts[m] > 1 => m \in cause

(***************************************************************************)
(* While a device is due, not reminded of and its owner not suspended,     *)
(* passes keep trying to text the owner, however many texts about it or    *)
(* about others fail (sendExpiryReminders, expiryReminderLoop).            *)
(***************************************************************************)
Warned ==
    \A m \in Macs :
        []<>(\/ m \notin Eligible \/ m \in mute
             \/ \E p \in Passes : pass[p].at = "send" /\ pass[p].cur = {m})
=============================================================================
