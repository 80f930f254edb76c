------------------------------ MODULE Accounts ------------------------------
(***************************************************************************)
(* The account of one phone number: registration, login with and without a *)
(* second factor, sessions, enrolment of an authenticator, backup codes,   *)
(* trusted browsers, password reset by SMS, and what an administrator may  *)
(* do to it (internal/server: user.go, user_2fa.go, user_backup_codes.go,  *)
(* user_trusted_devices.go, user_forgot.go, the user part of admin.go,     *)
(* admin_sessions.go; the statements they run are in internal/db/db.go).   *)
(*                                                                         *)
(* No handler holds a transaction across two statements, so every          *)
(* statement is a step, and the steps of all requests interleave.          *)
(* Passwords and codes are judged right or wrong by choice; the bearer of  *)
(* the right one is the interesting one.                                   *)
(***************************************************************************)
EXTENDS Integers, FiniteSets

CONSTANTS
    Reqs,       \* requests that may be under way at once
    Mixes,      \* sets of operations, one of which is asked for
    MaxTries,   \* wrong codes a login or a reset takes: 5 in the code
    Faults,     \* what may go wrong
    MaxFaults,  \* and how often
    MaxEra,     \* bound on the changes of a credential
    MaxTok,     \* bound on the sessions ever opened
    MaxId,      \* bound on the rows ever created for the number
    MaxSecret   \* bound on the secrets, sets of codes and reset rows in use

UserOps == {"begin", "confirm", "regen", "disable", "revoke", "revokeAll",
            "others", "passwd", "quit"}

FaultKinds == {"abort",  \* the client goes away: what is left of its request fails
               "skip",   \* a statement whose error the handler ignores fails
               "crash"}  \* the process dies

ASSUME RequestsAssumption == IsFiniteSet(Reqs) /\ Reqs # {} /\ Faults \subseteq FaultKinds

ASSUME BoundsAssumption ==
    /\ MaxTries \in Nat \ {0} /\ MaxFaults \in Nat /\ MaxEra \in Nat
    /\ MaxTok \in Nat /\ MaxId \in Nat \ {0} /\ MaxSecret \in Nat \ {0}

VARIABLES
    user,      \* the row of the users table with this number; id 0: none
    sessions,  \* the sessions table
    trusted,   \* user_trusted_devices of the row
    codes,     \* its backup codes; one stands for the set issued together
    reset,     \* its row in password_resets; id 0: none
    tries,     \* userTwoFAAttempts, in memory
    req,       \* requests under way
    ops,       \* the operations that may be asked for
    last,      \* the last session and the last row created
    era,       \* history: changes of the credentials so far
    cut,       \* history: for each row the era of the last change that also
               \* ended its sessions, panic included
    swept,     \* history: rows whose sessions DeleteUser has deleted
    allowed,   \* history: codes let through to the comparison, for each pending
               \* session since its count was last lost
    budget     \* faults still to come

rows == <<user, sessions, trusted, codes, reset>>
history == <<era, cut, swept, allowed>>
vars == <<rows, tries, req, ops, last, history, budget>>

Phases == UserOps \cup
    {"idle", "open", "second", "create", "try", "judge", "mark", "pass", "trust", "lock",
     "begin2", "confirm2", "store", "passwd2", "clear", "clear2", "clear3", "kill", "drop",
     "susp", "newpw", "resetDel", "del1", "del2", "issue", "verify", "bump", "count", "rlock"}

(* uid: the row the request works on; tok: the session it came with, 0 for *)
(* an administrator; era: that of the password check, or of its own change *)
(* of a credential; saw: the secret it has read, or the reset row.         *)
Request == [at : Phases, uid : 0..MaxId, tok : 0..MaxTok, era : 0..MaxEra,
            saw : 0..MaxSecret, code : 0..MaxSecret]

Task(phase, uid, tok, e) == [at |-> phase, uid |-> uid, tok |-> tok, era |-> e, saw |-> 0, code |-> 0]
Idle == Task("idle", 0, 0, 0)

(* born: cut[uid] at the insert; orphan: its row was being deleted by then. *)
Session == [tok : 1..MaxTok, kind : {"user", "pending"}, uid : 1..MaxId,
            era : 0..MaxEra, born : 0..MaxEra, orphan : BOOLEAN]

(* late: sec was no longer the secret of the row when the entry was stored, *)
(* or it ended otherwise than by a ClearUserTOTP that ran to its end.       *)
Token == [sec : 0..MaxSecret, late : BOOLEAN]
Code == [gen : 1..MaxSecret, sec : 0..MaxSecret, late : BOOLEAN, used : BOOLEAN, uses : Nat]

NewUser(id, sec) == [id |-> id, susp |-> FALSE, totp |-> sec, pend |-> 0]
NoUser == NewUser(0, 0)
NoReset == [id |-> 0, tries |-> 0, guesses |-> 0]

Start(r, op, new) == op \in ops /\ req[r] = Idle /\ req' = [req EXCEPT ![r] = new]
At(r, phase) == req[r].at = phase
Goes(r, phase) == req' = [req EXCEPT ![r].at = phase]
Done(r) == req' = [req EXCEPT ![r] = Idle]
HasRow(r) == user.id # 0 /\ user.id = req[r].uid

\* The row with this authenticator and no enrolment under way.
WithSecret(sec) == [id |-> user.id, susp |-> user.susp, totp |-> sec, pend |-> 0]

\* Code c after one more login.
Served(c, used) == [gen |-> c.gen, sec |-> c.sec, late |-> c.late, used |-> used, uses |-> c.uses + 1]

(* A number nothing refers to any more stands for a fresh one. *)
Fresh(used) == CHOOSE n \in 1..MaxSecret : n \notin used
Spare(used) == \E n \in 1..MaxSecret : n \notin used

SecretsInUse == {user.totp, user.pend} \cup {t.sec : t \in trusted} \cup {c.sec : c \in codes}
                    \cup {req[r].saw : r \in Reqs}
GensInUse == {c.gen : c \in codes} \cup {req[r].code : r \in Reqs}
ResetsInUse == {reset.id} \cup {req[r].saw : r \in Reqs}

(* The secrets of S end without a whole ClearUserTOTP. *)
Mark(entries, S) == {IF e.sec \in S THEN [e EXCEPT !.late = TRUE] ELSE e : e \in entries}
Slip(S) == trusted' = Mark(trusted, S) /\ codes' = Mark(codes, S)

Fault(kind) == kind \in Faults /\ budget > 0 /\ budget' = budget - 1
-----------------------------------------------------------------------------
Init ==
    /\ \/ /\ user = NewUser(1, 0)
          /\ codes = {}
       \/ /\ user = NewUser(1, 1)
          /\ codes = {[gen |-> 1, sec |-> 1, late |-> FALSE, used |-> FALSE, uses |-> 0]}
    /\ sessions = {} /\ trusted = {} /\ reset = NoReset
    /\ tries = [t \in 1..MaxTok |-> 0]
    /\ req = [r \in Reqs |-> Idle]
    /\ last = [tok |-> 0, id |-> 1]
    /\ era = 0
    /\ cut = [u \in 1..MaxId |-> 0]
    /\ swept = {}
    /\ allowed = [t \in 1..MaxTok |-> 0]
    /\ budget = MaxFaults
    /\ ops \in Mixes

\* CreateSession
Insert(r, kind) ==
    /\ last.tok < MaxTok
    /\ last' = [last EXCEPT !.tok = @ + 1]
    /\ sessions' = sessions \cup
          {[tok |-> last.tok + 1, kind |-> kind, uid |-> req[r].uid, era |-> req[r].era,
            born |-> cut[req[r].uid], orphan |-> req[r].uid \in swept]}

UserSessions(uid) == {s \in sessions : s.kind = "user" /\ s.uid = uid}

DeleteSession(tok) == sessions' = {s \in sessions : s.tok # tok}
DeleteSessionsByUserID(uid) == sessions' = sessions \ UserSessions(uid)
DeleteUserSessionsExcept(uid, keep) ==
    sessions' = sessions \ {s \in UserSessions(uid) : s.tok # keep}
DeleteAllUserSessions == sessions' = {s \in sessions : s.kind # "user"}

\* CreateTrustedDevice: the foreign key refuses it when the row is gone.
CreateTrustedDevice(r) ==
    trusted' = IF HasRow(r)
               THEN trusted \cup {[sec |-> req[r].saw, late |-> req[r].saw # user.totp]}
               ELSE trusted

\* ReplaceBackupCodes: one transaction, refused as well without the row.
ReplaceBackupCodes(r) ==
    codes' = IF HasRow(r)
             THEN {[gen |-> Fresh(GensInUse), sec |-> req[r].saw, used |-> FALSE, uses |-> 0,
                    late |-> req[r].saw \notin {user.totp} \ {0}]}
             ELSE codes
-----------------------------------------------------------------------------
(* Login and registration. *)

\* handleUserLogin up to its password check.
LoginCheck(r) ==
    /\ user.id # 0 /\ ~user.susp
    /\ Start(r, "login", Task(IF user.totp = 0 THEN "open" ELSE "second", user.id, 0, era))
    /\ UNCHANGED <<rows, tries, last, history, budget>>

\* consumeTrustedDeviceCookie
LoginTrusted(r) ==
    /\ At(r, "second") /\ HasRow(r) /\ trusted # {}
    /\ Goes(r, "open")
    /\ UNCHANGED <<rows, tries, last, history, budget>>

\* Mutant: the row gets the default of its column, kind 'admin'.
LoginDefault(r) ==
    /\ At(r, "second")
    /\ Insert(r, "admin")
    /\ Done(r)
    /\ UNCHANGED <<user, trusted, codes, reset, tries, history, budget>>

LoginPending(r) ==
    /\ At(r, "second")
    /\ Insert(r, "pending")
    /\ Done(r)
    /\ UNCHANGED <<user, trusted, codes, reset, tries, history, budget>>

\* startUserSession
OpenSession(r) ==
    /\ At(r, "open")
    /\ Insert(r, "user")
    /\ Done(r)
    /\ UNCHANGED <<user, trusted, codes, reset, tries, history, budget>>

\* handleUserRegister up to its CreateUser.
RegisterCheck(r) ==
    /\ user.id = 0 /\ last.id < MaxId
    /\ Start(r, "register", Task("create", 0, 0, 0))
    /\ UNCHANGED <<rows, tries, last, history, budget>>

\* phone is UNIQUE: of two registrations one fails.
CreateUser(r) ==
    /\ At(r, "create")
    /\ \/ /\ user.id = 0 /\ last.id < MaxId
          /\ last' = [last EXCEPT !.id = @ + 1]
          /\ user' = NewUser(last.id + 1, 0)
          /\ req' = [req EXCEPT ![r] = Task("open", last.id + 1, 0, era)]
       \/ user.id # 0 /\ Done(r) /\ UNCHANGED <<user, last>>
    /\ UNCHANGED <<sessions, trusted, codes, reset, tries, history, budget>>
-----------------------------------------------------------------------------
(* The second step of a login: handleUserLogin2FA. *)

PendingRead(r) ==
    /\ \E s \in sessions :
          /\ s.kind = "pending"
          /\ Start(r, "login", Task("try", s.uid, s.tok, s.era))
    /\ UNCHANGED <<rows, tries, last, history, budget>>

\* Mutant: the sixth try is still let through, as if n > 6 were asked.
PendingTryMore(r) ==
    /\ At(r, "try")
    /\ \/ ~(HasRow(r) /\ user.totp # 0 /\ ~user.susp) /\ Done(r) /\ UNCHANGED <<tries, allowed>>
       \/ /\ HasRow(r) /\ user.totp # 0 /\ ~user.susp
          /\ tries' = [tries EXCEPT ![req[r].tok] = @ + 1]
          /\ req' = [req EXCEPT ![r].saw = user.totp,
                ![r].at = IF tries[req[r].tok] > MaxTries THEN "lock" ELSE "judge"]
          /\ allowed' = [allowed EXCEPT ![req[r].tok] = @ + 1]
    /\ UNCHANGED <<rows, last, era, cut, swept, budget>>

\* GetUser and userTwoFANextAttempt
PendingTry(r) ==
    /\ At(r, "try")
    /\ \/ ~(HasRow(r) /\ user.totp # 0 /\ ~user.susp) /\ Done(r) /\ UNCHANGED <<tries, allowed>>
       \/ /\ HasRow(r) /\ user.totp # 0 /\ ~user.susp
          /\ tries' = [tries EXCEPT ![req[r].tok] = @ + 1]
          /\ IF tries[req[r].tok] < MaxTries
             THEN /\ req' = [req EXCEPT ![r].at = "judge", ![r].saw = user.totp]
                  /\ allowed' = [allowed EXCEPT ![req[r].tok] = @ + 1]
             ELSE Goes(r, "lock") /\ UNCHANGED allowed
    /\ UNCHANGED <<rows, last, era, cut, swept, budget>>

\* totp.Verify, and UnusedBackupCodes in verifyAndConsumeBackupCode.
CodeJudge(r) ==
    /\ At(r, "judge")
    /\ \/ Goes(r, "pass")
       \/ Done(r)
       \/ /\ HasRow(r)
          /\ \E c \in codes : ~c.used /\ req' = [req EXCEPT ![r].at = "mark", ![r].code = c.gen]
    /\ UNCHANGED <<rows, tries, last, history, budget>>

\* Mutant: used_at is not set.
CodeNotMarked(r) ==
    /\ At(r, "mark")
    /\ codes' = {IF c.gen = req[r].code THEN Served(c, FALSE) ELSE c : c \in codes}
    /\ Goes(r, "pass")
    /\ UNCHANGED <<user, sessions, trusted, reset, tries, last, history, budget>>

\* MarkBackupCodeUsed; that it was used by then goes unnoticed.
CodeMark(r) ==
    /\ At(r, "mark")
    /\ codes' = {IF c.gen = req[r].code THEN Served(c, TRUE) ELSE c :
                    c \in codes}
    /\ Goes(r, "pass")
    /\ UNCHANGED <<user, sessions, trusted, reset, tries, last, history, budget>>

\* The trust box of the form is ticked or not.
AfterPass(r) == \E next \in {"trust", "open"} : Goes(r, next)

Pass(r) ==
    /\ At(r, "pass")
    /\ DeleteSession(req[r].tok)
    /\ tries' = [tries EXCEPT ![req[r].tok] = 0]
    /\ AfterPass(r)
    /\ UNCHANGED <<user, trusted, codes, reset, last, history, budget>>

\* issueTrustedDeviceCookie; a failure is not fatal.
TrustIssue(r) ==
    /\ At(r, "trust")
    /\ CreateTrustedDevice(r)
    /\ Goes(r, "open")
    /\ UNCHANGED <<user, sessions, codes, reset, tries, last, history, budget>>

\* The sixth code, with MaxTries 5, and later ones: 2fa_locked.
Lock(r) ==
    /\ At(r, "lock")
    /\ DeleteSession(req[r].tok)
    /\ tries' = [tries EXCEPT ![req[r].tok] = 0]
    /\ Done(r)
    /\ UNCHANGED <<user, trusted, codes, reset, last, history, budget>>
-----------------------------------------------------------------------------
(* Requests that come with a session. *)

\* requireUser: currentUserID refuses the suspended, not those without a row.
Auth(r, op) ==
    /\ \E s \in sessions :
          /\ s.kind = "user"
          /\ ~(user.id = s.uid /\ user.susp)
          /\ Start(r, op, Task(op, s.uid, s.tok, 0))
    /\ UNCHANGED <<rows, tries, last, history, budget>>

\* Their GetUser, and what makes them stop there.
Refuse(r) ==
    /\ \/ req[r].at \in UserOps /\ ~HasRow(r)
       \/ At(r, "begin") /\ user.totp # 0
       \/ At(r, "confirm") /\ user.pend = 0
       \/ req[r].at \in {"regen", "disable"} /\ user.totp = 0
    /\ Done(r)
    /\ UNCHANGED <<rows, tries, last, history, budget>>

\* handleUser2FABegin
BeginRead(r) ==
    /\ At(r, "begin") /\ HasRow(r) /\ user.totp = 0
    /\ Goes(r, "begin2")
    /\ UNCHANGED <<rows, tries, last, history, budget>>

\* SetUserTOTPPending
BeginWrite(r) ==
    /\ At(r, "begin2") /\ Spare(SecretsInUse)
    /\ user' = IF HasRow(r) THEN [user EXCEPT !.pend = Fresh(SecretsInUse)] ELSE user
    /\ Done(r)
    /\ UNCHANGED <<sessions, trusted, codes, reset, tries, last, history, budget>>

\* handleUser2FAConfirm: the code of the pending secret it has read is right.
ConfirmRead(r) ==
    /\ At(r, "confirm") /\ HasRow(r) /\ user.pend # 0
    /\ Goes(r, "confirm2")
    /\ UNCHANGED <<rows, tries, last, history, budget>>

(* ConfirmUserTOTP promotes the secret that is pending by now, if any, and *)
(* does not say which; then GetUser, whose nil ends the request.           *)
ConfirmWrite(r) ==
    /\ At(r, "confirm2")
    /\ \/ /\ HasRow(r) /\ user.pend # 0
          /\ user' = WithSecret(user.pend)
          /\ Slip({user.totp})
          /\ req' = [req EXCEPT ![r].at = "store", ![r].saw = user.pend]
       \/ HasRow(r) /\ user.pend = 0 /\ Goes(r, "store") /\ UNCHANGED <<user, trusted, codes>>
       \/ ~HasRow(r) /\ Done(r) /\ UNCHANGED <<user, trusted, codes>>
    /\ UNCHANGED <<sessions, reset, tries, last, history, budget>>

\* generateAndStoreBackupCodes
StoreCodes(r) ==
    /\ At(r, "store") /\ Spare(GensInUse)
    /\ ReplaceBackupCodes(r)
    /\ Done(r)
    /\ UNCHANGED <<user, sessions, trusted, reset, tries, last, history, budget>>

\* handleUser2FARegenerateCodes
RegenRead(r) ==
    /\ At(r, "regen") /\ HasRow(r) /\ user.totp # 0
    /\ req' = [req EXCEPT ![r].at = "store", ![r].saw = user.totp]
    /\ UNCHANGED <<rows, tries, last, history, budget>>

\* handleUser2FADisable with the right password and code.
DisableRead(r) ==
    /\ At(r, "disable") /\ HasRow(r) /\ user.totp # 0
    /\ Goes(r, "clear")
    /\ UNCHANGED <<rows, tries, last, history, budget>>

\* handleUserTrustedDeviceRevoke
RevokeDevice(r) ==
    /\ At(r, "revoke") /\ HasRow(r)
    /\ \E T \in {{}} \cup {{t} : t \in trusted} : trusted' = trusted \ T
    /\ Done(r)
    /\ UNCHANGED <<user, sessions, codes, reset, tries, last, history, budget>>

\* handleUserTrustedDeviceRevokeAll
RevokeAllDevices(r) ==
    /\ At(r, "revokeAll") /\ HasRow(r)
    /\ trusted' = {}
    /\ Done(r)
    /\ UNCHANGED <<user, sessions, codes, reset, tries, last, history, budget>>

\* handleUserSignOutOthers
SignOutOthers(r) ==
    /\ At(r, "others") /\ HasRow(r)
    /\ DeleteUserSessionsExcept(req[r].uid, req[r].tok)
    /\ Done(r)
    /\ UNCHANGED <<user, trusted, codes, reset, tries, last, history, budget>>

\* handleUserPassword with the right password; its sessions stay.
PasswordRead(r) ==
    /\ At(r, "passwd") /\ HasRow(r)
    /\ Goes(r, "passwd2")
    /\ UNCHANGED <<rows, tries, last, history, budget>>

PasswordWrite(r) ==
    /\ At(r, "passwd2") /\ era < MaxEra
    /\ era' = era + 1
    /\ Done(r)
    /\ UNCHANGED <<rows, tries, last, cut, swept, allowed, budget>>

\* handleUserAccountDelete with the right password.
QuitRead(r) ==
    /\ At(r, "quit") /\ HasRow(r)
    /\ Goes(r, "del1")
    /\ UNCHANGED <<rows, tries, last, history, budget>>
-----------------------------------------------------------------------------
(* Sessions that end by themselves or one at a time: handleUserLogout,     *)
(* handleAdminSessionRevoke, PurgeExpiredSessions.                         *)

EndSession(tok) ==
    /\ DeleteSession(tok)
    /\ UNCHANGED <<user, trusted, codes, reset, tries, req, last, history, budget>>

Logout(tok) == "logout" \in ops /\ EndSession(tok)
AdminSessionRevoke(tok) == "logout" \in ops /\ EndSession(tok)
SessionExpires(tok) == "expire" \in ops /\ EndSession(tok)

\* PurgeExpiredTrustedDevices, or expires_at in GetTrustedDevice.
TrustExpires(t) ==
    /\ "expire" \in ops
    /\ trusted' = trusted \ {t}
    /\ UNCHANGED <<user, sessions, codes, reset, tries, req, last, history, budget>>
-----------------------------------------------------------------------------
(* What an administrator does to the account. *)

\* handleAdminUserReset2FA
AdminReset2FA(r) ==
    /\ user.id # 0
    /\ Start(r, "reset2fa", Task("clear", user.id, 0, 0))
    /\ UNCHANGED <<rows, tries, last, history, budget>>

\* ClearUserTOTP, of a user's disable or of an administrator's reset.
Clear1(r) ==
    /\ At(r, "clear") /\ era < MaxEra
    /\ user' = IF HasRow(r) THEN WithSecret(0) ELSE user
    /\ era' = era + 1
    /\ req' = [req EXCEPT ![r].at = "clear2", ![r].era = era + 1,
                          ![r].saw = IF HasRow(r) THEN user.totp ELSE 0]
    /\ UNCHANGED <<sessions, trusted, codes, reset, tries, last,
                   cut, swept, allowed, budget>>

Clear2(r) ==
    /\ At(r, "clear2")
    /\ codes' = {c \in codes : ~HasRow(r)}
    /\ Goes(r, "clear3")
    /\ UNCHANGED <<user, sessions, trusted, reset, tries, last, history, budget>>

\* Mutant: the trusted browsers stay.
Clear3Keep(r) ==
    /\ At(r, "clear3")
    /\ IF req[r].tok = 0 THEN Goes(r, "kill") ELSE Done(r)
    /\ UNCHANGED <<rows, tries, last, history, budget>>

Clear3(r) ==
    /\ At(r, "clear3")
    /\ trusted' = {t \in trusted : ~HasRow(r)}
    /\ IF req[r].tok = 0 THEN Goes(r, "kill") ELSE Done(r)
    /\ UNCHANGED <<user, sessions, codes, reset, tries, last, history, budget>>

\* Mutant: the sessions stay, as they do when a user changes the password.
KillNone(r) ==
    /\ At(r, "kill")
    /\ UNCHANGED sessions
    /\ cut' = [cut EXCEPT ![req[r].uid] = IF req[r].era > @ THEN req[r].era ELSE @]
    /\ Done(r)
    /\ UNCHANGED <<user, trusted, codes, reset, tries, last,
                   era, swept, allowed, budget>>

\* DeleteSessionsByUserID, the last statement of every such change.
Kill(r) ==
    /\ At(r, "kill")
    /\ DeleteSessionsByUserID(req[r].uid)
    /\ cut' = [cut EXCEPT ![req[r].uid] = IF req[r].era > @ THEN req[r].era ELSE @]
    /\ Done(r)
    /\ UNCHANGED <<user, trusted, codes, reset, tries, last,
                   era, swept, allowed, budget>>

\* handleAdminUserSuspend: the row may be gone since the page was shown.
AdminSuspend(r) ==
    /\ \E id \in 1..last.id : Start(r, "suspend", Task("susp", id, 0, 0))
    /\ UNCHANGED <<rows, tries, last, history, budget>>

\* handleAPIUserSuspend asks for the row first.
APIUserSuspend(r) ==
    /\ user.id # 0
    /\ Start(r, "suspend", Task("susp", user.id, 0, 0))
    /\ UNCHANGED <<rows, tries, last, history, budget>>

\* The two statements of SuspendUser.
SuspendRow(r) ==
    /\ At(r, "susp") /\ era < MaxEra
    /\ user' = IF HasRow(r) THEN [user EXCEPT !.susp = TRUE] ELSE user
    /\ era' = era + 1
    /\ req' = [req EXCEPT ![r].at = "drop", ![r].era = era + 1]
    /\ UNCHANGED <<sessions, trusted, codes, reset, tries, last,
                   cut, swept, allowed, budget>>

SuspendDrop(r) ==
    /\ At(r, "drop")
    /\ DeleteSessionsByUserID(req[r].uid)
    /\ Goes(r, "kill")
    /\ UNCHANGED <<user, trusted, codes, reset, tries, last, history, budget>>

AdminUnsuspend ==
    /\ "suspend" \in ops
    /\ user' = [user EXCEPT !.susp = FALSE]
    /\ UNCHANGED <<sessions, trusted, codes, reset, tries, req, last, history, budget>>

\* handleAdminUserResetPassword
AdminResetPassword(r) ==
    /\ \E id \in 1..last.id : Start(r, "resetpw", Task("newpw", id, 0, 0))
    /\ UNCHANGED <<rows, tries, last, history, budget>>

\* handleAdminUserDelete
AdminDelete(r) ==
    /\ \E id \in 1..last.id : Start(r, "delete", Task("del1", id, 0, 0))
    /\ UNCHANGED <<rows, tries, last, history, budget>>

\* The two statements of DeleteUser.
DeleteSessions(r) ==
    /\ At(r, "del1")
    /\ DeleteSessionsByUserID(req[r].uid)
    /\ swept' = swept \cup {req[r].uid}
    /\ Goes(r, "del2")
    /\ UNCHANGED <<user, trusted, codes, reset, tries, last,
                   era, cut, allowed, budget>>

\* Codes, trusted browsers and resets go with the row; sessions do not.
DeleteRow(r) ==
    /\ At(r, "del2")
    /\ IF HasRow(r) THEN user' = NoUser /\ trusted' = {} /\ codes' = {} /\ reset' = NoReset
                    ELSE UNCHANGED <<user, trusted, codes, reset>>
    /\ Done(r)
    /\ UNCHANGED <<sessions, tries, last, history, budget>>

\* handleAdminSessionPanic
Panic ==
    /\ "panic" \in ops /\ era < MaxEra
    /\ DeleteAllUserSessions
    /\ era' = era + 1
    /\ cut' = [u \in 1..MaxId |-> era + 1]
    /\ UNCHANGED <<user, trusted, codes, reset, tries, req, last,
                   swept, allowed, budget>>
-----------------------------------------------------------------------------
(* A forgotten password. *)

\* handleUserForgotPassword
ForgotRead(r) ==
    /\ user.id # 0 /\ ~user.susp
    /\ Start(r, "forgot", Task("issue", user.id, 0, 0))
    /\ UNCHANGED <<rows, tries, last, history, budget>>

\* CreatePasswordReset
ResetIssue(r) ==
    /\ At(r, "issue")
    /\ \/ /\ HasRow(r) /\ Spare(ResetsInUse)
          /\ reset' = [id |-> Fresh(ResetsInUse), tries |-> 0, guesses |-> 0]
       \/ ~HasRow(r) /\ UNCHANGED reset
    /\ Done(r)
    /\ UNCHANGED <<user, sessions, trusted, codes, tries, last, history, budget>>

\* handleUserForgotPasswordVerify
VerifyRead(r) ==
    /\ user.id # 0 /\ ~user.susp
    /\ Start(r, "forgot", Task("verify", user.id, 0, 0))
    /\ UNCHANGED <<rows, tries, last, history, budget>>

\* GetActivePasswordReset and the comparison.
ResetJudge(r) ==
    /\ At(r, "verify")
    /\ \/ /\ HasRow(r) /\ reset.id # 0
          /\ \/ /\ req' = [req EXCEPT ![r].at = "bump", ![r].saw = reset.id]
                /\ reset' = [reset EXCEPT !.guesses = @ + 1]
             \/ /\ req' = [req EXCEPT ![r].at = "newpw", ![r].saw = reset.id]
                /\ UNCHANGED reset
       \/ ~(HasRow(r) /\ reset.id # 0) /\ Done(r) /\ UNCHANGED reset
    /\ UNCHANGED <<user, sessions, trusted, codes, tries, last, history, budget>>

\* UpdateUserPassword, here and in AdminResetPassword.
NewPassword(r) ==
    /\ At(r, "newpw") /\ era < MaxEra
    /\ era' = era + 1
    /\ req' = [req EXCEPT ![r].at = IF req[r].saw = 0 THEN "kill" ELSE "resetDel",
                          ![r].era = era + 1]
    /\ UNCHANGED <<rows, tries, last, cut, swept, allowed, budget>>

DropReset(r) == reset' = IF reset.id = req[r].saw THEN NoReset ELSE reset

\* DeletePasswordReset after a success.
ResetDelete(r) ==
    /\ At(r, "resetDel")
    /\ DropReset(r)
    /\ Goes(r, "kill")
    /\ UNCHANGED <<user, sessions, trusted, codes, tries, last, history, budget>>

\* Mutant: attempts starts anew with every wrong code.
ResetBumpOnce(r) ==
    /\ At(r, "bump")
    /\ \/ reset.id = req[r].saw /\ reset' = [reset EXCEPT !.tries = 1] /\ Goes(r, "count")
       \/ reset.id # req[r].saw /\ Done(r) /\ UNCHANGED reset
    /\ UNCHANGED <<user, sessions, trusted, codes, tries, last, history, budget>>

\* The two statements of BumpPasswordResetAttempts; without the row n is 0.
ResetBump(r) ==
    /\ At(r, "bump")
    /\ \/ /\ reset.id = req[r].saw
          /\ reset' = [reset EXCEPT !.tries = @ + 1]
          /\ Goes(r, "count")
       \/ reset.id # req[r].saw /\ Done(r) /\ UNCHANGED reset
    /\ UNCHANGED <<user, sessions, trusted, codes, tries, last, history, budget>>

ResetCount(r) ==
    /\ At(r, "count")
    /\ IF reset.id = req[r].saw /\ reset.tries >= MaxTries THEN Goes(r, "rlock") ELSE Done(r)
    /\ UNCHANGED <<rows, tries, last, history, budget>>

\* DeletePasswordReset: too_many_attempts.
ResetLock(r) ==
    /\ At(r, "rlock")
    /\ DropReset(r)
    /\ Done(r)
    /\ UNCHANGED <<user, sessions, trusted, codes, tries, last, history, budget>>

\* PurgeExpiredPasswordResets, or expires_at in GetActivePasswordReset.
ResetExpires ==
    /\ "expire" \in ops
    /\ reset' = NoReset
    /\ UNCHANGED <<user, sessions, trusted, codes, tries, req, last, history, budget>>
-----------------------------------------------------------------------------
(* Failures. *)

\* The secrets whose ClearUserTOTP ends here, with some of it not done.
CutShort(R) == {req[r].saw : r \in {x \in R : req[x].at \in {"clear2", "clear3"}}}

\* The wrong reset codes of R that do not have their consequence any more.
Forgiven(R) == {r \in R : req[r].at \in {"bump", "count", "rlock"} /\ req[r].saw = reset.id}

Forgive(R) == reset' = [reset EXCEPT !.guesses = @ - Cardinality(Forgiven(R))]

\* userTwoFAReset, and the session is still there.
Recount(toks) ==
    /\ tries' = [t \in 1..MaxTok |-> IF t \in toks THEN 0 ELSE tries[t]]
    /\ allowed' = [t \in 1..MaxTok |-> IF t \in toks THEN 0 ELSE allowed[t]]

(* The context of the request is cancelled: no statement of it succeeds    *)
(* any more.  The count in memory is reset all the same.                   *)
Abort(r) ==
    /\ req[r] # Idle
    /\ Fault("abort")
    /\ Done(r)
    /\ Recount(IF req[r].at \in {"pass", "lock"} THEN {req[r].tok} ELSE {})
    /\ Slip(CutShort({r}))
    /\ Forgive({r})
    /\ UNCHANGED <<user, sessions, last, era, cut, swept>>

\* One statement fails and the handler goes on, with or without a log line.
Skip(r) ==
    /\ Fault("skip")
    /\ \/ At(r, "drop") /\ Goes(r, "kill") /\ Recount({})
       \/ At(r, "kill") /\ Done(r) /\ Recount({})
       \/ At(r, "resetDel") /\ Goes(r, "kill") /\ Recount({})
       \/ At(r, "del1") /\ Goes(r, "del2") /\ Recount({})
       \/ At(r, "trust") /\ Goes(r, "open") /\ Recount({})
       \/ At(r, "pass") /\ AfterPass(r) /\ Recount({req[r].tok})
       \/ At(r, "lock") /\ Done(r) /\ Recount({req[r].tok})
       \/ req[r].at \in {"bump", "count", "rlock"} /\ Done(r) /\ Recount({})
    /\ Forgive({r})
    /\ UNCHANGED <<user, sessions, trusted, codes, last, era, cut, swept>>

Crash ==
    /\ Fault("crash")
    /\ req' = [r \in Reqs |-> Idle]
    /\ Recount(1..MaxTok)
    /\ Slip(CutShort(Reqs))
    /\ Forgive(Reqs)
    /\ UNCHANGED <<user, sessions, last, era, cut, swept>>
-----------------------------------------------------------------------------
Step(r) ==
    \/ LoginCheck(r) \/ LoginTrusted(r) \/ LoginPending(r) \/ OpenSession(r)
    \/ RegisterCheck(r) \/ CreateUser(r)
    \/ PendingRead(r) \/ PendingTry(r) \/ CodeJudge(r) \/ CodeMark(r)
    \/ Pass(r) \/ TrustIssue(r) \/ Lock(r)
    \/ (\E op \in UserOps : Auth(r, op)) \/ Refuse(r)
    \/ BeginRead(r) \/ BeginWrite(r) \/ ConfirmRead(r) \/ ConfirmWrite(r) \/ StoreCodes(r)
    \/ RegenRead(r) \/ DisableRead(r) \/ RevokeDevice(r) \/ RevokeAllDevices(r)
    \/ SignOutOthers(r) \/ PasswordRead(r) \/ PasswordWrite(r) \/ QuitRead(r)
    \/ AdminReset2FA(r) \/ Clear1(r) \/ Clear2(r) \/ Clear3(r) \/ Kill(r)
    \/ AdminSuspend(r) \/ APIUserSuspend(r) \/ SuspendRow(r) \/ SuspendDrop(r) \/ AdminResetPassword(r)
    \/ AdminDelete(r) \/ DeleteSessions(r) \/ DeleteRow(r)
    \/ ForgotRead(r) \/ ResetIssue(r) \/ VerifyRead(r) \/ ResetJudge(r) \/ NewPassword(r)
    \/ ResetDelete(r) \/ ResetBump(r) \/ ResetCount(r) \/ ResetLock(r)
    \/ Abort(r) \/ Skip(r)

Next ==
    /\ \/ \E r \in Reqs : Step(r)
       \/ \E tok \in 1..MaxTok : Logout(tok) \/ AdminSessionRevoke(tok) \/ SessionExpires(tok)
       \/ \E t \in trusted : TrustExpires(t)
       \/ AdminUnsuspend \/ Panic \/ ResetExpires \/ Crash
    /\ UNCHANGED ops

Spec == Init /\ [][Next]_vars
-----------------------------------------------------------------------------
TypeOK ==
    /\ user \in [id : 0..MaxId, susp : BOOLEAN, totp : 0..MaxSecret, pend : 0..MaxSecret]
    /\ sessions \subseteq Session
    /\ trusted \subseteq Token
    /\ codes \subseteq Code
    /\ reset \in [id : 0..MaxSecret, tries : Nat, guesses : Int]
    /\ tries \in [1..MaxTok -> Nat]
    /\ req \in [Reqs -> Request]
    /\ last \in [tok : 0..MaxTok, id : 1..MaxId]
    /\ era \in 0..MaxEra
    /\ cut \in [1..MaxId -> 0..MaxEra]
    /\ swept \subseteq 1..MaxId
    /\ allowed \in [1..MaxTok -> Nat]
    /\ budget \in 0..MaxFaults
    /\ ops \in Mixes

(***************************************************************************)
(* A change of a credential that says it ends the sessions, a panic and a  *)
(* deletion leave none they found: a session that outlives one was         *)
(* inserted later, by a login whose password was checked before.  The      *)
(* order of the statements matters: the UPDATE first, then the DELETE.     *)
(* (DeleteSessionsByUserID and its callers, DeleteUser, DeleteAllUser-     *)
(* Sessions.)                                                              *)
(***************************************************************************)
CutsHold ==
    \A s \in sessions : s.kind = "user" =>
        /\ s.era < cut[s.uid] => s.born = cut[s.uid]
        /\ s.uid \in swept => s.orphan

\* The secret of entry e is current, is being cleared, or ended otherwise.
Earned(e, phases) ==
    \/ e.sec = user.totp \/ e.late
    \/ \E r \in Reqs : req[r].at \in phases /\ HasRow(r) /\ req[r].saw = e.sec

(***************************************************************************)
(* A trusted browser, and a backup code, stand in for the secret they were *)
(* earned under and for no later one, except for what was stored after the *)
(* secret had ended and for secrets that ended without a ClearUserTOTP     *)
(* that ran to its end (ClearUserTOTP, ConfirmUserTOTP).                   *)
(***************************************************************************)
TrustIsEarned ==
    /\ \A t \in trusted : Earned(t, {"clear2", "clear3"})
    /\ \A c \in codes : Earned(c, {"clear2"})

(***************************************************************************)
(* The codes judged for one pending login stay within the cap, but for     *)
(* requests that had found the session before it was deleted and for       *)
(* counts that were lost (userTwoFANextAttempt, userTwoFAReset).           *)
(***************************************************************************)
LoginTries == \A t \in 1..MaxTok : allowed[t] <= MaxTries + Cardinality(Reqs) - 1

(***************************************************************************)
(* The same for the code of a password reset, whose count is a column:     *)
(* requests that compare before any has counted are the excess             *)
(* (handleUserForgotPasswordVerify, BumpPasswordResetAttempts).            *)
(***************************************************************************)
ResetTries == reset.guesses <= MaxTries + Cardinality(Reqs) - 1

(***************************************************************************)
(* However many requests run at once, no code can be tried out: a pending  *)
(* login and a reset row take MaxTries codes, and at most one more for     *)
(* each other request that was past its check by then                      *)
(* (handleUserLogin2FA, handleUserForgotPasswordVerify).                   *)
(***************************************************************************)
TriesCapped == LoginTries /\ ResetTries

(***************************************************************************)
(* A backup code serves no more logins than requests had read it unused    *)
(* (verifyAndConsumeBackupCode).                                           *)
(***************************************************************************)
CodeUses == \A c \in codes : c.uses <= Cardinality(Reqs)
=============================================================================
