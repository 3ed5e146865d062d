------------------------------ MODULE Accounts ------------------------------
(***************************************************************************)
(* Accounts and sessions: login with a second factor, password change and  *)
(* reset, enrolment in two-factor authentication, the operations of        *)
(* administrators, and the check that every request makes of the account   *)
(* behind its session (middleware/auth.ts, twoFactorController.ts and the  *)
(* account handlers of adminController.ts).                                *)
(*                                                                         *)
(* A session is a signed token: the server keeps none, and asks the        *)
(* account's row (through a cache) whether it is still honoured.  An       *)
(* action is one statement of a handler; what a handler read before is in  *)
(* loc.  tenant_users and admin_users are alike here: an account is a row  *)
(* of either.                                                              *)
(***************************************************************************)
EXTENDS Integers, FiniteSets

CONSTANTS
    Accounts,    \* user ids
    Handlers,    \* requests that may be in progress at the same time
    CodeNames,   \* the recovery codes of one enrolment
    Ttl,         \* USER_STATE_TTL_MS
    Leeway,      \* the tolerance between iat and sessions_revoked_at
    Unenforced,  \* the tenant's two_factor_policy at first: TRUE = optional
    MaxTime, MaxFresh, MaxSessions, MaxEvents,   \* bounds
    NoSes, NoLoc

\* Passwords, TOTP secrets and sets of recovery codes are numbered as they are
\* made; secret 0 is NULL.
Row == [status: {"unborn", "active", "locked", "gone"}, pwd: Nat,
        legacy: BOOLEAN, on: BOOLEAN, secret: Nat,
        codes: SUBSET (Nat \X CodeNames), revoked: Nat]

NullRow == [status |-> "unborn", pwd |-> 0, legacy |-> FALSE, on |-> FALSE,
            secret |-> 0, codes |-> {}, revoked |-> 0]
GoneRow == [NullRow EXCEPT !.status = "gone"]

\* A signed token.  pwd, lax, mfa and via are history: the password that was
\* presented, whether the policy was optional then, whether a second factor was
\* checked, and what signed it.
Ses == [acc: Accounts, iat: Nat, pending: BOOLEAN,
        pwd: Nat, lax: BOOLEAN, mfa: BOOLEAN, via: {"login", "change", "verify"}]

\* A "read" is any request that changes nothing here.
Ops == {"logout", "change", "setup", "verify", "disable"}
Labels == {"idle", "store", "spend", "upgrade", "sign", "logforget", "chgset",
           "chgsign", "setset", "verset", "disset", "rset", "rforget", "rmark"}
              \cup Ops

Loc == [op: Ops \cup {"read", "login", "reset"}, acc: Accounts, ses: Ses \cup {NoSes},
        row: Row, lax: BOOLEAN]

Entry == [acc: Accounts, at: Nat, live: BOOLEAN, revoked: Nat]

ASSUME AccountAssumption ==
    /\ Ttl \in Nat \ {0} /\ Leeway \in Nat
    /\ MaxTime \in Nat /\ MaxFresh \in Nat /\ MaxSessions \in Nat
    /\ MaxEvents \in Nat
    /\ Unenforced \in BOOLEAN
    /\ Accounts # {}
    /\ NoSes \notin Ses
    /\ NoLoc \notin Loc

VARIABLES
    row,      \* the account rows
    lax,      \* the tenant's policy is optional
    link,     \* password_reset_tokens per account: "none", "issued", "used"
    sessions, \* the tokens that were signed
    cache,    \* userStateCache
    pc, loc,  \* the handlers
    adm,      \* an administrator's operation between its two steps
    now, fresh, events,
    old,      \* history: when the state of an account that is now outdated
              \* was last true or last stored
    raced     \* history: accounts whose password changed while a request that
              \* had checked it was about to sign a session

vars == <<row, lax, link, sessions, cache, pc, loc, adm, now, fresh, events,
          old, raced>>

HandlerOK(h) ==
    /\ pc[h] # "idle" => loc[h] \in Loc
    /\ pc[h] \in {"store", "verset", "chgset", "chgsign", "disset"} \cup Ops
          => loc[h].ses \in Ses /\ loc[h].ses.acc = loc[h].acc
    /\ pc[h] = "store" => loc[h].op \in Ops \cup {"read"}

TypeOK ==
    /\ row \in [Accounts -> Row]
    /\ lax \in BOOLEAN
    /\ link \in [Accounts -> {"none", "issued", "used"}]
    /\ sessions \subseteq Ses
    /\ cache \subseteq Entry
    /\ pc \in [Handlers -> Labels]
    /\ loc \in [Handlers -> Loc \cup {NoLoc}]
    /\ \A h \in Handlers : HandlerOK(h)
    /\ adm \in [step: {"idle", "forget", "commit"}, acc: Accounts]
    /\ now \in Nat /\ fresh \in Nat /\ events \in Nat
    /\ old \in [Accounts -> Nat]
    /\ raced \subseteq Accounts

Init ==
    /\ row \in [Accounts ->
                  {NullRow} \cup
                  {[NullRow EXCEPT !.status = "active", !.legacy = l] :
                      l \in BOOLEAN}]
    /\ lax = Unenforced
    /\ link = [a \in Accounts |-> "none"]
    /\ sessions = {} /\ cache = {}
    /\ pc = [h \in Handlers |-> "idle"]
    /\ loc = [h \in Handlers |-> NoLoc]
    /\ \E a \in Accounts : adm = [step |-> "idle", acc |-> a]
    /\ now = 1 /\ fresh = 1 /\ events = 0
    /\ old = [a \in Accounts |-> now]
    /\ raced = {}

-----------------------------------------------------------------------------
(* Faulty variants of the definitions below; no action uses them.          *)

\* The entry is refreshed whenever it is used.
StaysValid(e) == \E d \in 0 .. Ttl : now - e.at - d < Ttl

\* A password reset that forgets sessions_revoked_at.
PasswordOnly(r) == [r EXCEPT !.pwd = fresh, !.legacy = FALSE]

\* sessions_revoked_at is set back by the tolerance and by what a clock may lag.
BackdatedPassword(r) ==
    [r EXCEPT !.pwd = fresh, !.legacy = FALSE, !.revoked = now - Leeway - 2]

\* A pending session may change the password.
AllowedWhilePending(op) == op # "disable"

-----------------------------------------------------------------------------
(* Helpers.                                                                *)

Present(a) == row[a].status \in {"active", "locked"}

\* What loadUserState reads of the row.
StateOf(r) == [live |-> r.status = "active", revoked |-> r.revoked]

\* attachUser: not locked, and signed after the revocation, give or take Leeway.
Honoured(s, st) == st.live /\ s.iat + Leeway >= st.revoked

Valid(e) == now - e.at < Ttl

\* UPDATE ... WHERE id: nothing happens when the row is gone.
Write(a, r) == row' = IF Present(a) THEN [row EXCEPT ![a] = r] ELSE row

\* A statement that changes what loadUserState would read.
Outdate(a) == old' = [old EXCEPT ![a] = now]

Forgotten(a) == {e \in cache : e.acc # a}

Goto(h, label) == pc' = [pc EXCEPT ![h] = label]
Enter(h, label, l) == Goto(h, label) /\ loc' = [loc EXCEPT ![h] = l]
Finish(h) == Enter(h, "idle", NoLoc)

\* The bound on what administrators, mailed links and failures do.
Event == events < MaxEvents /\ events' = events + 1

TakeFresh == fresh < MaxFresh /\ fresh' = fresh + 1

Sign(s) ==
    /\ Cardinality(sessions) < MaxSessions
    /\ sessions' = sessions \cup {s}

\* Between the check of a password and the session that is signed for it.
Signing(h) == pc[h] \in {"spend", "upgrade", "sign", "chgsign"}

NewPassword(r) == [r EXCEPT !.pwd = fresh, !.legacy = FALSE, !.revoked = now]

\* A statement of handlers H that sets the password of a.
SetPassword(a, r, H) ==
    /\ raced' = IF \E h \in Handlers \ H : Signing(h) /\ loc[h].acc = a
                  THEN raced \cup {a} ELSE raced
    /\ Write(a, r)

-----------------------------------------------------------------------------
(* Login.  A refused login changes nothing.                                *)

\* The row is read and the password checked against it; then check2fa: no second
\* factor, a TOTP code, or a recovery code that the row read still has.
LoginRead(h, a) ==
    /\ pc[h] = "idle"
    /\ row[a].status = "active"
    /\ LET l == [op |-> "login", acc |-> a, ses |-> NoSes, lax |-> lax,
                 row |-> [row[a] EXCEPT !.revoked = 0, !.secret = 0]]
           next == IF row[a].legacy THEN "upgrade" ELSE "sign"
       IN  \/ /\ row[a].on => row[a].secret # 0
              /\ Enter(h, next, l)
           \/ /\ row[a].on
              /\ \E c \in row[a].codes :
                    Enter(h, "spend", [l EXCEPT !.row.codes = @ \ {c}])
    /\ UNCHANGED <<row, lax, link, sessions, cache, adm, now, fresh, events,
                   old, raced>>

\* The remaining codes of the row that was read are written back.
LoginSpend(h) ==
    /\ pc[h] = "spend"
    /\ LET l == loc[h]
       IN  /\ Write(l.acc, [row[l.acc] EXCEPT !.codes = l.row.codes])
           /\ Goto(h, IF l.row.legacy THEN "upgrade" ELSE "sign")
    /\ UNCHANGED <<lax, link, sessions, cache, loc, adm, now, fresh, events,
                   old, raced>>

\* A legacy hash is replaced by a bcrypt hash of the password presented.
LoginUpgrade(h) ==
    /\ pc[h] = "upgrade"
    /\ LET l == loc[h]
       IN  SetPassword(l.acc, [row[l.acc] EXCEPT !.pwd = l.row.pwd,
                                                 !.legacy = FALSE], {h})
    /\ Goto(h, "sign")
    /\ UNCHANGED <<lax, link, sessions, cache, loc, adm, now, fresh, events,
                   old>>

\* DEF-12b: where the policy asks for a second factor and the user has none, the
\* session is pending: it reaches the enrolment only.
LoginSign(h) ==
    /\ pc[h] = "sign"
    /\ LET l == loc[h]
       IN  Sign([acc |-> l.acc, iat |-> now, pending |-> ~l.lax /\ ~l.row.on,
                 pwd |-> l.row.pwd, lax |-> l.lax, mfa |-> l.row.on,
                 via |-> "login"])
    /\ Finish(h)
    /\ UNCHANGED <<row, lax, link, cache, adm, now, fresh, events, old, raced>>

-----------------------------------------------------------------------------
(* attachUser and requireAuth.                                             *)

\* PENDING_2FA_ALLOWED.
PendingAllowed(op) == op \in {"logout", "setup", "verify"}

Request(op, s) == [op |-> op, acc |-> s.acc, ses |-> s, row |-> NullRow,
                   lax |-> FALSE]

Accepted(s, st, op) == Honoured(s, st) /\ (s.pending => PendingAllowed(op))

\* The cached state is recent enough: the request is accepted on it.
AttachHit(h, s, op) ==
    /\ pc[h] = "idle"
    /\ \E e \in cache : /\ e.acc = s.acc
                        /\ Valid(e)
                        /\ Accepted(s, e, op)
    /\ Enter(h, op, Request(op, s))
    /\ UNCHANGED <<row, lax, link, sessions, cache, adm, now, fresh, events,
                   old, raced>>

\* Otherwise the row is read ...
AttachLoad(h, s, op) ==
    /\ pc[h] = "idle"
    /\ \A e \in cache : e.acc = s.acc => ~Valid(e)
    /\ Enter(h, "store", [Request(op, s) EXCEPT
                            !.row.status = row[s.acc].status,
                            !.row.revoked = row[s.acc].revoked])
    /\ UNCHANGED <<row, lax, link, sessions, cache, adm, now, fresh, events,
                   old, raced>>

\* ... and what was read is cached under the time at which it arrives.
AttachStore(h) ==
    /\ pc[h] = "store"
    /\ LET l == loc[h]
           st == StateOf(l.row)
       IN  /\ cache' = Forgotten(l.acc) \cup
                          {[acc |-> l.acc, at |-> now, live |-> st.live,
                            revoked |-> st.revoked]}
           /\ IF l.op \in Ops /\ Accepted(l.ses, st, l.op)
                THEN Enter(h, l.op, Request(l.op, l.ses))
                ELSE Finish(h)
           /\ IF st # StateOf(row[l.acc]) THEN Outdate(l.acc) ELSE UNCHANGED old
    /\ UNCHANGED <<row, lax, link, sessions, adm, now, fresh, events, raced>>

-----------------------------------------------------------------------------
(* Requests of a signed-in user.                                           *)

\* revokeUserSessions swallows an error of its UPDATE.
LogoutRevoke(h) ==
    /\ pc[h] = "logout"
    /\ LET a == loc[h].acc
       IN  \/ Write(a, [row[a] EXCEPT !.revoked = now]) /\ Outdate(a)
           \/ UNCHANGED <<row, old, raced>>
    /\ Goto(h, "logforget")
    /\ UNCHANGED <<lax, link, sessions, cache, loc, adm, now, fresh, events, raced>>

LogoutForget(h) ==
    /\ pc[h] = "logforget"
    /\ cache' = Forgotten(loc[h].acc)
    /\ Finish(h)
    /\ UNCHANGED <<row, lax, link, sessions, adm, now, fresh, events, old, raced>>

\* changePassword: the current password is checked, ...
ChangeRead(h) ==
    /\ pc[h] = "change"
    /\ IF Present(loc[h].acc) THEN Goto(h, "chgset") /\ UNCHANGED loc
                              ELSE Finish(h)
    /\ UNCHANGED <<row, lax, link, sessions, cache, adm, now, fresh, events,
                   old, raced>>

\* ... the new one is set and every session revoked, ...
ChangeSet(h) ==
    /\ pc[h] = "chgset"
    /\ LET a == loc[h].acc
       IN  SetPassword(a, NewPassword(row[a]), {h}) /\ Outdate(a)
    /\ TakeFresh
    /\ Enter(h, "chgsign", [loc[h] EXCEPT !.row.pwd = fresh])
    /\ UNCHANGED <<lax, link, sessions, cache, adm, now, events>>

\* ... and the caller is given a new session, without the mark of a pending one.
ChangeSign(h) ==
    /\ pc[h] = "chgsign"
    /\ LET s == loc[h].ses
       IN  /\ cache' = Forgotten(s.acc)
           /\ Sign([s EXCEPT !.iat = now, !.pending = FALSE, !.via = "change",
                             !.pwd = loc[h].row.pwd])
    /\ Finish(h)
    /\ UNCHANGED <<row, lax, link, adm, now, fresh, events, old, raced>>

\* Enrolment: who has a second factor must present it to begin again.
SetupRead(h) ==
    /\ pc[h] = "setup"
    /\ LET r == row[loc[h].acc]
       IN  IF r.on /\ r.secret = 0 THEN Finish(h)
                                   ELSE Goto(h, "setset") /\ UNCHANGED loc
    /\ UNCHANGED <<row, lax, link, sessions, cache, adm, now, fresh, events,
                   old, raced>>

SetupSet(h) ==
    /\ pc[h] = "setset"
    /\ LET a == loc[h].acc
       IN  Write(a, [row[a] EXCEPT !.secret = fresh, !.on = FALSE])
    /\ TakeFresh
    /\ Finish(h)
    /\ UNCHANGED <<lax, link, sessions, cache, adm, now, events, old, raced>>

\* A code of the secret that is stored now ...
VerifyRead(h) ==
    /\ pc[h] = "verify"
    /\ IF row[loc[h].acc].secret = 0
         THEN Finish(h)
         ELSE Goto(h, "verset") /\ UNCHANGED loc
    /\ UNCHANGED <<row, lax, link, sessions, cache, adm, now, fresh, events,
                   old, raced>>

\* ... enables the second factor, and makes a pending session a full one.
VerifySet(h) ==
    /\ pc[h] = "verset"
    /\ LET a == loc[h].acc
           s == loc[h].ses
       IN  /\ Write(a, [row[a] EXCEPT !.on = TRUE, !.codes = {fresh} \X CodeNames])
           /\ IF s.pending
                THEN Sign([s EXCEPT !.iat = now, !.pending = FALSE, !.mfa = TRUE,
                                    !.via = "verify"])
                ELSE UNCHANGED sessions
    /\ TakeFresh
    /\ Finish(h)
    /\ UNCHANGED <<lax, link, cache, adm, now, events, old, raced>>

DisableRead(h) ==
    /\ pc[h] = "disable"
    /\ IF row[loc[h].acc].secret = 0
         THEN Finish(h)
         ELSE Goto(h, "disset") /\ UNCHANGED loc
    /\ UNCHANGED <<row, lax, link, sessions, cache, adm, now, fresh, events,
                   old, raced>>

DisableSet(h) ==
    /\ pc[h] = "disset"
    /\ LET a == loc[h].acc
       IN  Write(a, [row[a] EXCEPT !.on = FALSE, !.secret = 0, !.codes = {}])
    /\ Finish(h)
    /\ UNCHANGED <<lax, link, sessions, cache, adm, now, fresh, events, old, raced>>

-----------------------------------------------------------------------------
(* Reset by an emailed link.  A link that is not used within the hour        *)
(* expires, which is a link that nobody presents.                           *)

ForgotPassword(a) ==
    /\ link[a] = "none"
    /\ Present(a)
    /\ link' = [link EXCEPT ![a] = "issued"]
    /\ Event
    /\ UNCHANGED <<row, lax, sessions, cache, pc, loc, adm, now, fresh,
                   old, raced>>

ResetCheck(h, a) ==
    /\ pc[h] = "idle"
    /\ link[a] = "issued"
    /\ Enter(h, "rset", [op |-> "reset", acc |-> a, ses |-> NoSes,
                         row |-> NullRow, lax |-> FALSE])
    /\ UNCHANGED <<row, lax, link, sessions, cache, adm, now, fresh, events,
                   old, raced>>

ResetSet(h) ==
    /\ pc[h] = "rset"
    /\ LET a == loc[h].acc
       IN  SetPassword(a, NewPassword(row[a]), {h}) /\ Outdate(a)
    /\ TakeFresh
    /\ Goto(h, "rforget")
    /\ UNCHANGED <<lax, link, sessions, cache, loc, adm, now, events>>

ResetForget(h) ==
    /\ pc[h] = "rforget"
    /\ cache' = Forgotten(loc[h].acc)
    /\ Goto(h, "rmark")
    /\ UNCHANGED <<row, lax, link, sessions, loc, adm, now, fresh, events, old, raced>>

ResetMark(h) ==
    /\ pc[h] = "rmark"
    /\ link' = [link EXCEPT ![loc[h].acc] = "used"]
    /\ Finish(h)
    /\ UNCHANGED <<row, lax, sessions, cache, adm, now, fresh, events, old, raced>>

-----------------------------------------------------------------------------
(* Administrators.  Their handlers change the row, then forget the cached    *)
(* state; deleting a platform user or a client forgets within the           *)
(* transaction, before COMMIT.                                              *)

Began(step, a) ==
    /\ adm.step = "idle"
    /\ adm' = [step |-> step, acc |-> a]
    /\ Event

\* toggleUserLock leaves sessions_revoked_at alone when it unlocks; a change of
\* role (toggleUserRole) or status (updateTenantUser) always sets it.
Locked(r) == [r EXCEPT !.status = "locked", !.revoked = now]
Unlocked(r) == [r EXCEPT !.status = "active"]
Updated(r, status) == [r EXCEPT !.status = status, !.revoked = now]

FactorReset(r) ==
    [r EXCEPT !.on = FALSE, !.secret = 0, !.codes = {}, !.revoked = now]

AdminUpdate(a) ==
    /\ Present(a)
    /\ \E r \in {Locked(row[a]), Unlocked(row[a]), FactorReset(row[a]), GoneRow}
                \cup {Updated(row[a], s) : s \in {"active", "locked"}} :
          row' = [row EXCEPT ![a] = r]
    /\ Outdate(a)
    /\ Began("forget", a)
    /\ UNCHANGED <<lax, link, sessions, cache, pc, loc, now, fresh, raced>>

AdminReset(a) ==
    /\ Present(a)
    /\ SetPassword(a, NewPassword(row[a]), {})
    /\ Outdate(a)
    /\ TakeFresh
    /\ Began("forget", a)
    /\ UNCHANGED <<lax, link, sessions, cache, pc, loc, now>>

AdminForget ==
    /\ adm.step = "forget"
    /\ cache' = Forgotten(adm.acc)
    /\ adm' = [adm EXCEPT !.step = "idle"]
    /\ UNCHANGED <<row, lax, link, sessions, pc, loc, now, fresh, events, old, raced>>

\* deleteUser and deleteClient.
DeleteForget(a) ==
    /\ Present(a)
    /\ cache' = Forgotten(a)
    /\ Began("commit", a)
    /\ UNCHANGED <<row, lax, link, sessions, pc, loc, now, fresh, old, raced>>

DeleteCommit ==
    /\ adm.step = "commit"
    /\ Write(adm.acc, GoneRow)
    /\ Outdate(adm.acc)
    /\ adm' = [adm EXCEPT !.step = "idle"]
    /\ UNCHANGED <<lax, link, sessions, cache, pc, loc, now, fresh, events, raced>>

\* Create-only: an invited user or operator is a new row.
Create(a) ==
    /\ row[a].status = "unborn"
    /\ row' = [row EXCEPT ![a].status = "active"]
    /\ Outdate(a)
    /\ UNCHANGED <<lax, link, sessions, cache, pc, loc, adm, now, fresh, events,
                   raced>>

SetPolicy ==
    /\ lax' = ~lax
    /\ Event
    /\ UNCHANGED <<row, link, sessions, cache, pc, loc, adm, now, fresh, old, raced>>

-----------------------------------------------------------------------------
(* Time passes; the process ends and its memory with it.                   *)

Tick ==
    /\ now < MaxTime
    /\ now' = now + 1
    /\ UNCHANGED <<row, lax, link, sessions, cache, pc, loc, adm, fresh,
                   events, old, raced>>

Restart ==
    /\ Event
    /\ cache' = {}
    /\ pc' = [h \in Handlers |-> "idle"]
    /\ loc' = [h \in Handlers |-> NoLoc]
    /\ adm' = [adm EXCEPT !.step = "idle"]
    /\ UNCHANGED <<row, lax, link, sessions, now, fresh, old, raced>>

LoginStep(h) == LoginSpend(h) \/ LoginUpgrade(h) \/ LoginSign(h)
UserStep(h) ==
    \/ LogoutRevoke(h) \/ LogoutForget(h)
    \/ ChangeRead(h) \/ ChangeSet(h) \/ ChangeSign(h)
    \/ SetupRead(h) \/ SetupSet(h)
    \/ VerifyRead(h) \/ VerifySet(h)
    \/ DisableRead(h) \/ DisableSet(h)
ResetStep(h) == ResetSet(h) \/ ResetForget(h) \/ ResetMark(h)
AdminStep(a) ==
    \/ AdminUpdate(a) \/ AdminReset(a) \/ DeleteForget(a)
    \/ Create(a)

Next ==
    \/ \E h \in Handlers :
          \/ \E a \in Accounts : LoginRead(h, a) \/ ResetCheck(h, a)
          \/ \E s \in sessions :
                \/ \E op \in Ops : AttachHit(h, s, op)
                \/ \E op \in Ops \cup {"read"} : AttachLoad(h, s, op)
          \/ AttachStore(h) \/ LoginStep(h) \/ UserStep(h) \/ ResetStep(h)
    \/ \E a \in Accounts : AdminStep(a) \/ ForgotPassword(a)
    \/ AdminForget \/ DeleteCommit \/ SetPolicy \/ Tick \/ Restart

Spec == Init /\ [][Next]_vars

-----------------------------------------------------------------------------
(* Properties.                                                             *)

\* A session that the account's row refuses (it was revoked, the account was
\* locked or deleted) is accepted for less than USER_STATE_TTL longer than the
\* row has refused it, or than a state read before was put in the cache.
RefusedWithinTtl ==
    [][\A h \in Handlers :
          (pc[h] \in {"idle", "store"} /\ pc'[h] \in Ops)
             => LET s == loc'[h].ses
                IN  \/ Honoured(s, StateOf(row[s.acc]))
                    \/ now - old'[s.acc] < Ttl]_vars

\* After a password was replaced, no session opened with another one is honoured
\* (Leeway and the upgrade of a pending session aside), unless the password
\* changed between the check and the signature of a login that was in progress.
OldPasswordIsOut ==
    \A s \in sessions :
        (/\ row[s.acc].status = "active"
         /\ s.iat > row[s.acc].revoked
         /\ s.via # "verify")
            => s.pwd = row[s.acc].pwd \/ s.acc \in raced

\* A session that is not pending was opened with a second factor, or while the
\* policy did not ask for one: no sequence of requests turns a pending session
\* into a full one but enrolment.
FullSessionHadSecondFactor ==
    \A s \in sessions : s.pending \/ s.lax \/ s.mfa
=============================================================================
