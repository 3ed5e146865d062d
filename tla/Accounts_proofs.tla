--------------------------- MODULE Accounts_proofs ---------------------------
(* Theorems about Accounts, for any accounts, requests, times and bounds.     *)
EXTENDS Accounts, TLAPS

USE AccountAssumption DEF AccountAssumption

-----------------------------------------------------------------------------
(* Type correctness.                                                         *)

LEMMA NullRowType == NullRow \in Row /\ GoneRow \in Row
  BY DEF NullRow, GoneRow, Row

\* An UPDATE of one row.
LEMMA WriteType ==
    ASSUME row \in [Accounts -> Row], NEW a \in Accounts, NEW r \in Row, Write(a, r)
    PROVE  row' \in [Accounts -> Row]
  BY DEF Write

\* A handler moves on, with the same local state or another.
LEMMA EnterType ==
    ASSUME TypeOK, NEW h \in Handlers, NEW label \in Labels \ {"idle"},
           NEW l \in Loc, Enter(h, label, l),
           label \in {"store", "verset", "chgset", "chgsign", "disset"} \cup Ops
              => l.ses \in Ses /\ l.ses.acc = l.acc,
           label = "store" => l.op \in Ops \cup {"read"}
    PROVE  /\ pc' \in [Handlers -> Labels]
           /\ loc' \in [Handlers -> Loc \cup {NoLoc}]
           /\ \A i \in Handlers : HandlerOK(i)'
  BY DEF TypeOK, HandlerOK, Enter, Goto

LEMMA GotoType ==
    ASSUME TypeOK, NEW h \in Handlers, NEW label \in Labels \ {"idle"},
           loc[h] \in Loc, Goto(h, label), loc' = loc,
           label \in {"store", "verset", "chgset", "chgsign", "disset"} \cup Ops
              => loc[h].ses \in Ses /\ loc[h].ses.acc = loc[h].acc,
           label # "store"
    PROVE  /\ pc' \in [Handlers -> Labels]
           /\ loc' \in [Handlers -> Loc \cup {NoLoc}]
           /\ \A i \in Handlers : HandlerOK(i)'
  BY DEF TypeOK, HandlerOK, Goto

LEMMA FinishType ==
    ASSUME TypeOK, NEW h \in Handlers, Finish(h)
    PROVE  /\ pc' \in [Handlers -> Labels]
           /\ loc' \in [Handlers -> Loc \cup {NoLoc}]
           /\ \A i \in Handlers : HandlerOK(i)'
  BY DEF TypeOK, HandlerOK, Finish, Enter, Goto, Labels, Ops

\* An administrator's change keeps the password, and sets sessions_revoked_at or
\* leaves it.
LEMMA AdminUpdateEffect ==
    ASSUME TypeOK, NEW a \in Accounts, AdminUpdate(a)
    PROVE  /\ row' \in [Accounts -> Row]
           /\ \A b \in Accounts \ {a} : row'[b] = row[b]
           /\ Present(a) /\ row'[a].status # "unborn"
           /\ Present(a)' => /\ row'[a].pwd = row[a].pwd
                            /\ row'[a].revoked \in {now, row[a].revoked}
  <1>. DEFINE R == {Locked(row[a]), Unlocked(row[a]), FactorReset(row[a]), GoneRow}
                     \cup {Updated(row[a], s) : s \in {"active", "locked"}}
  <1>1. row[a] \in Row /\ now \in Nat
    BY DEF TypeOK
  <1>2. PICK r \in R : row' = [row EXCEPT ![a] = r]
    BY DEF AdminUpdate
  <1>. DEFINE P(x) == /\ x \in Row /\ x.status # "unborn"
                      /\ x.status \in {"active", "locked"} =>
                            x.pwd = row[a].pwd /\ x.revoked \in {now, row[a].revoked}
  <1>3. P(r)
    <2>1. P(GoneRow)
      BY NullRowType DEF GoneRow, NullRow
    <2>2. row[a].status \in {"active", "locked"}
      BY DEF AdminUpdate, Present
    <2>3. P(Locked(row[a])) /\ P(Unlocked(row[a]))
      BY <1>1, <2>2 DEF Locked, Unlocked, Row
    <2>4. P(FactorReset(row[a]))
      BY <1>1, <2>2 DEF FactorReset, Row
    <2>5. \A s \in {"active", "locked"} : P(Updated(row[a], s))
      BY <1>1, <2>2 DEF Updated, Row
    <2>. HIDE DEF P
    <2>. QED
      BY <1>2, <2>1, <2>3, <2>4, <2>5
  <1>4. row \in [Accounts -> Row] /\ Present(a)
    BY DEF TypeOK, AdminUpdate
  <1>. HIDE DEF R
  <1>5. row'[a] = r /\ row' \in [Accounts -> Row] /\ \A b \in Accounts \ {a} : row'[b] = row[b]
    BY <1>2, <1>3, <1>4
  <1>. QED
    BY <1>3, <1>4, <1>5 DEF Present

LEMMA SameHandlers ==
    ASSUME TypeOK, UNCHANGED <<pc, loc>>
    PROVE  /\ pc' \in [Handlers -> Labels]
           /\ loc' \in [Handlers -> Loc \cup {NoLoc}]
           /\ \A i \in Handlers : HandlerOK(i)'
  BY DEF TypeOK, HandlerOK

\* TypeOK is an inductive invariant.
LEMMA TypeStep == TypeOK /\ [Next]_vars => TypeOK'
  <1>. SUFFICES ASSUME TypeOK, [Next]_vars PROVE TypeOK'
    OBVIOUS
  <1>1. ASSUME NEW h \in Handlers, NEW a \in Accounts, LoginRead(h, a)
        PROVE  TypeOK'
    <2>1. row[a] \in Row
      BY <1>1 DEF TypeOK
    <2>2. [row[a] EXCEPT !.revoked = 0, !.secret = 0] \in Row
      BY <1>1, <2>1 DEF Row
    <2>. DEFINE r == [row[a] EXCEPT !.revoked = 0, !.secret = 0]
                L == [op |-> "login", acc |-> a, ses |-> NoSes, lax |-> lax, row |-> r]
                next == IF row[a].legacy THEN "upgrade" ELSE "sign"
    <2>3. PICK label \in {"upgrade", "sign", "spend"}, l \in Loc :
            Enter(h, label, l)
      <3>1. \/ Enter(h, next, L)
            \/ \E c \in row[a].codes :
                  Enter(h, "spend", [L EXCEPT !.row.codes = @ \ {c}])
        BY <1>1 DEF LoginRead
      <3>2. L \in Loc
        BY <2>2 DEF TypeOK, Loc
      <3>3. ASSUME NEW c \in row[a].codes
            PROVE  [L EXCEPT !.row.codes = @ \ {c}] \in Loc
        <4>1. [r EXCEPT !.codes = @ \ {c}] \in Row
          BY <2>2 DEF Row
        <4>2. [L EXCEPT !.row.codes = @ \ {c}]
                 = [L EXCEPT !.row = [r EXCEPT !.codes = @ \ {c}]]
          OBVIOUS
        <4>. HIDE DEF r
        <4>. QED
          BY <4>1, <4>2 DEF TypeOK, Loc
      <3>4. next \in {"upgrade", "sign"}
        OBVIOUS
      <3>. HIDE DEF L, next
      <3>. QED
        BY <3>1, <3>2, <3>3, <3>4
    <2>4. /\ label \in Labels \ {"idle"} /\ label # "store"
          /\ label \notin {"store", "verset", "chgset", "chgsign", "disset"} \cup Ops
      BY <1>1 DEF Labels, Ops
    <2>. QED
      BY <1>1, <2>3, <2>4, EnterType DEF LoginRead, TypeOK
  <1>2. ASSUME NEW h \in Handlers, NEW a \in Accounts, ResetCheck(h, a)
        PROVE  TypeOK'
    <2>1. [op |-> "reset", acc |-> a, ses |-> NoSes, row |-> NullRow, lax |-> FALSE] \in Loc
      BY <1>2, NullRowType DEF Loc
    <2>2. /\ "rset" \in Labels \ {"idle"}
          /\ "rset" \notin {"store", "verset", "chgset", "chgsign", "disset"} \cup Ops
      BY <1>2 DEF Labels, Ops
    <2>. QED
      BY <1>2, <2>1, <2>2, EnterType DEF ResetCheck, TypeOK
  <1>3. ASSUME NEW h \in Handlers, NEW s \in sessions, NEW op \in Ops, AttachHit(h, s, op)
        PROVE  TypeOK'
    <2>1. s \in Ses /\ Request(op, s) \in Loc /\ Request(op, s).ses = s /\ Request(op, s).acc = s.acc
      BY <1>3, NullRowType DEF TypeOK, Request, Loc, Ses
    <2>2. op \in Labels \ {"idle"} /\ op # "store"
      BY <1>3 DEF Labels, Ops
    <2>. QED
      BY <1>3, <2>1, <2>2, EnterType DEF AttachHit, TypeOK
  <1>4. ASSUME NEW h \in Handlers, NEW s \in sessions, NEW op \in Ops \cup {"read"}, AttachLoad(h, s, op)
        PROVE  TypeOK'
    <2>1. s \in Ses /\ row[s.acc] \in Row
      BY <1>4 DEF TypeOK, Ses
    <2>2. [NullRow EXCEPT !.status = row[s.acc].status,
                         !.revoked = row[s.acc].revoked] \in Row
      BY <1>4, <2>1, NullRowType DEF Row
    <2>. DEFINE l == [Request(op, s) EXCEPT !.row.status = row[s.acc].status,
                                       !.row.revoked = row[s.acc].revoked]
    <2>3. l \in Loc /\ l.ses = s /\ l.acc = s.acc /\ l.op = op
      BY <1>4, <2>1, <2>2 DEF Request, Loc, Ses, Row
    <2>4. "store" \in Labels \ {"idle"}
      BY <1>4 DEF Labels
    <2>5. Enter(h, "store", l)
      BY <1>4 DEF AttachLoad
    <2>. HIDE DEF l
    <2>. QED
      BY <1>4, <2>1, <2>3, <2>4, <2>5, EnterType DEF AttachLoad, TypeOK
  <1>5. ASSUME NEW h \in Handlers, LoginSpend(h)
        PROVE  TypeOK'
    <2>1. loc[h] \in Loc /\ loc[h].acc \in Accounts /\ row[loc[h].acc] \in Row
      BY <1>5 DEF TypeOK, HandlerOK, LoginSpend, Loc
    <2>2. [row[loc[h].acc] EXCEPT !.codes = loc[h].row.codes] \in Row
      BY <1>5, <2>1 DEF Loc, Row
    <2>3. row' \in [Accounts -> Row]
      BY <1>5, <2>1, <2>2, WriteType DEF LoginSpend, TypeOK
    <2>4. /\ pc' \in [Handlers -> Labels]
          /\ loc' \in [Handlers -> Loc \cup {NoLoc}]
          /\ \A i \in Handlers : HandlerOK(i)'
      BY <1>5, <2>1, GotoType DEF LoginSpend, Labels, Ops
    <2>. QED
      BY <1>5, <2>3, <2>4 DEF LoginSpend, TypeOK
  <1>6. ASSUME NEW h \in Handlers, LoginUpgrade(h)
        PROVE  TypeOK'
    <2>1. loc[h] \in Loc /\ loc[h].acc \in Accounts /\ row[loc[h].acc] \in Row
      BY <1>6 DEF TypeOK, HandlerOK, LoginUpgrade, Loc
    <2>2. [row[loc[h].acc] EXCEPT !.pwd = loc[h].row.pwd, !.legacy = FALSE] \in Row
      BY <1>6, <2>1 DEF Loc, Row
    <2>3. row' \in [Accounts -> Row] /\ raced' \subseteq Accounts
      BY <1>6, <2>1, <2>2, WriteType DEF LoginUpgrade, SetPassword, TypeOK
    <2>4. /\ pc' \in [Handlers -> Labels]
          /\ loc' \in [Handlers -> Loc \cup {NoLoc}]
          /\ \A i \in Handlers : HandlerOK(i)'
      BY <1>6, <2>1, GotoType DEF LoginUpgrade, Labels, Ops
    <2>. QED
      BY <1>6, <2>3, <2>4 DEF LoginUpgrade, TypeOK
  <1>7. ASSUME NEW h \in Handlers, LoginSign(h)
        PROVE  TypeOK'
    <2>1. loc[h] \in Loc /\ loc[h].acc \in Accounts /\ row[loc[h].acc] \in Row
      BY <1>7 DEF TypeOK, HandlerOK, LoginSign, Loc
    <2>2. [acc |-> loc[h].acc, iat |-> now, pending |-> ~loc[h].lax /\ ~loc[h].row.on,
           pwd |-> loc[h].row.pwd, lax |-> loc[h].lax, mfa |-> loc[h].row.on,
           via |-> "login"] \in Ses
      BY <1>7, <2>1 DEF Ses, Loc, Row, TypeOK
    <2>3. sessions' \subseteq Ses
      BY <1>7, <2>2 DEF LoginSign, Sign, TypeOK
    <2>. QED
      BY <1>7, <2>3, FinishType DEF LoginSign, TypeOK
  <1>8. ASSUME NEW h \in Handlers, AttachStore(h)
        PROVE  TypeOK'
    <2>1. /\ loc[h] \in Loc /\ loc[h].ses \in Ses /\ loc[h].ses.acc = loc[h].acc
          /\ loc[h].op \in Ops \cup {"read"}
      BY <1>8 DEF TypeOK, HandlerOK, AttachStore
    <2>2. Request(loc[h].op, loc[h].ses) \in Loc
      BY <1>8, <2>1, NullRowType DEF Request, Loc, Ses
    <2>3. loc[h].op \in Ops => loc[h].op \in Labels \ {"idle"} /\ loc[h].op # "store"
      BY <1>8 DEF Labels, Ops
    <2>4. /\ pc' \in [Handlers -> Labels]
          /\ loc' \in [Handlers -> Loc \cup {NoLoc}]
          /\ \A i \in Handlers : HandlerOK(i)'
      BY <1>8, <2>1, <2>2, <2>3, EnterType, FinishType DEF AttachStore,
         Request
    <2>5. [acc |-> loc[h].acc, at |-> now, live |-> StateOf(loc[h].row).live,
           revoked |-> StateOf(loc[h].row).revoked] \in Entry
      BY <1>8, <2>1 DEF TypeOK, StateOf, Entry, Loc, Row
    <2>6. cache' \subseteq Entry
      BY <1>8, <2>5 DEF AttachStore, TypeOK, Forgotten
    <2>7. old' \in [Accounts -> Nat]
      BY <1>8, <2>1 DEF AttachStore, TypeOK, Outdate, Loc
    <2>. QED
      BY <1>8, <2>4, <2>6, <2>7 DEF AttachStore, TypeOK
  <1>9. ASSUME NEW h \in Handlers, LogoutRevoke(h)
        PROVE  TypeOK'
    <2>1. loc[h] \in Loc /\ loc[h].acc \in Accounts /\ row[loc[h].acc] \in Row
      BY <1>9 DEF TypeOK, HandlerOK, LogoutRevoke, Loc
    <2>2. [row[loc[h].acc] EXCEPT !.revoked = now] \in Row
      BY <1>9, <2>1 DEF Row, TypeOK
    <2>3. row' \in [Accounts -> Row] /\ old' \in [Accounts -> Nat]
      BY <1>9, <2>1, <2>2, WriteType DEF LogoutRevoke, Outdate, TypeOK
    <2>4. /\ pc' \in [Handlers -> Labels]
          /\ loc' \in [Handlers -> Loc \cup {NoLoc}]
          /\ \A i \in Handlers : HandlerOK(i)'
      BY <1>9, <2>1, GotoType DEF LogoutRevoke, Labels, Ops
    <2>. QED
      BY <1>9, <2>3, <2>4 DEF LogoutRevoke, TypeOK
  <1>10. ASSUME NEW h \in Handlers, LogoutForget(h)
        PROVE  TypeOK'
    <2>1. cache' \subseteq Entry
      BY <1>10 DEF TypeOK, LogoutForget, Forgotten
    <2>. QED
      BY <1>10, <2>1, FinishType DEF LogoutForget, TypeOK
  <1>11. ASSUME NEW h \in Handlers, ChangeRead(h)
        PROVE  TypeOK'
    <2>1. loc[h] \in Loc /\ loc[h].ses \in Ses /\ loc[h].ses.acc = loc[h].acc
      BY <1>11 DEF TypeOK, HandlerOK, ChangeRead, Ops
    <2>2. /\ pc' \in [Handlers -> Labels]
          /\ loc' \in [Handlers -> Loc \cup {NoLoc}]
          /\ \A i \in Handlers : HandlerOK(i)'
      BY <1>11, <2>1, GotoType, FinishType DEF ChangeRead, Labels, Ops
    <2>. QED
      BY <1>11, <2>2 DEF ChangeRead, TypeOK
  <1>12. ASSUME NEW h \in Handlers, ChangeSet(h)
        PROVE  TypeOK'
    <2>1. loc[h] \in Loc /\ loc[h].acc \in Accounts /\ row[loc[h].acc] \in Row
      BY <1>12 DEF TypeOK, HandlerOK, ChangeSet, Loc
    <2>2. NewPassword(row[loc[h].acc]) \in Row
      BY <1>12, <2>1 DEF NewPassword, Row, TypeOK
    <2>3. row' \in [Accounts -> Row] /\ raced' \subseteq Accounts /\ old' \in [Accounts -> Nat]
      BY <1>12, <2>1, <2>2, WriteType DEF ChangeSet, SetPassword, Outdate,
         TypeOK
    <2>4. /\ loc[h].ses \in Ses /\ loc[h].ses.acc = loc[h].acc
          /\ [loc[h] EXCEPT !.row.pwd = fresh] \in Loc
      BY <1>12, <2>1 DEF ChangeSet, TypeOK, HandlerOK, Loc, Row
    <2>5. "chgsign" \in Labels \ {"idle"}
      BY <1>12 DEF Labels
    <2>6. [loc[h] EXCEPT !.row.pwd = fresh].ses = loc[h].ses /\ [loc[h] EXCEPT !.row.pwd = fresh].acc = loc[h].acc
      BY <1>12, <2>1 DEF Loc
    <2>7. /\ pc' \in [Handlers -> Labels]
          /\ loc' \in [Handlers -> Loc \cup {NoLoc}]
          /\ \A i \in Handlers : HandlerOK(i)'
      BY <1>12, <2>4, <2>5, <2>6, EnterType DEF ChangeSet
    <2>. QED
      BY <1>12, <2>3, <2>7 DEF ChangeSet, TakeFresh, TypeOK
  <1>13. ASSUME NEW h \in Handlers, ChangeSign(h)
        PROVE  TypeOK'
    <2>1. loc[h] \in Loc /\ loc[h].ses \in Ses
      BY <1>13 DEF ChangeSign, TypeOK, HandlerOK
    <2>2. [loc[h].ses EXCEPT !.iat = now, !.pending = FALSE, !.via = "change",
                             !.pwd = loc[h].row.pwd] \in Ses
      BY <1>13, <2>1 DEF Ses, Loc, Row, TypeOK
    <2>3. sessions' \subseteq Ses /\ cache' \subseteq Entry
      BY <1>13, <2>2 DEF ChangeSign, Sign, Forgotten, TypeOK
    <2>. QED
      BY <1>13, <2>3, FinishType DEF ChangeSign, TypeOK
  <1>14. ASSUME NEW h \in Handlers, SetupRead(h)
        PROVE  TypeOK'
    <2>1. loc[h] \in Loc /\ loc[h].ses \in Ses /\ loc[h].ses.acc = loc[h].acc
      BY <1>14 DEF TypeOK, HandlerOK, SetupRead, Ops
    <2>2. /\ pc' \in [Handlers -> Labels]
          /\ loc' \in [Handlers -> Loc \cup {NoLoc}]
          /\ \A i \in Handlers : HandlerOK(i)'
      BY <1>14, <2>1, GotoType, FinishType DEF SetupRead, Labels, Ops
    <2>. QED
      BY <1>14, <2>2 DEF SetupRead, TypeOK
  <1>15. ASSUME NEW h \in Handlers, SetupSet(h)
        PROVE  TypeOK'
    <2>1. loc[h] \in Loc /\ loc[h].acc \in Accounts /\ row[loc[h].acc] \in Row
      BY <1>15 DEF TypeOK, HandlerOK, SetupSet, Loc
    <2>2. [row[loc[h].acc] EXCEPT !.secret = fresh, !.on = FALSE] \in Row
      BY <1>15, <2>1 DEF Row, TypeOK
    <2>3. row' \in [Accounts -> Row]
      BY <1>15, <2>1, <2>2, WriteType DEF SetupSet, TypeOK
    <2>. QED
      BY <1>15, <2>3, FinishType DEF SetupSet, TakeFresh, TypeOK
  <1>16. ASSUME NEW h \in Handlers, VerifyRead(h)
        PROVE  TypeOK'
    <2>1. loc[h] \in Loc /\ loc[h].ses \in Ses /\ loc[h].ses.acc = loc[h].acc
      BY <1>16 DEF TypeOK, HandlerOK, VerifyRead, Ops
    <2>2. /\ pc' \in [Handlers -> Labels]
          /\ loc' \in [Handlers -> Loc \cup {NoLoc}]
          /\ \A i \in Handlers : HandlerOK(i)'
      BY <1>16, <2>1, GotoType, FinishType DEF VerifyRead, Labels, Ops
    <2>. QED
      BY <1>16, <2>2 DEF VerifyRead, TypeOK
  <1>17. ASSUME NEW h \in Handlers, VerifySet(h)
        PROVE  TypeOK'
    <2>1. loc[h] \in Loc /\ loc[h].acc \in Accounts /\ row[loc[h].acc] \in Row
      BY <1>17 DEF TypeOK, HandlerOK, VerifySet, Loc
    <2>2. [row[loc[h].acc] EXCEPT !.on = TRUE, !.codes = {fresh} \X CodeNames] \in Row
      BY <1>17, <2>1 DEF Row, TypeOK
    <2>3. row' \in [Accounts -> Row]
      BY <1>17, <2>1, <2>2, WriteType DEF VerifySet, TypeOK
    <2>4. loc[h].ses \in Ses
      BY <1>17 DEF VerifySet, TypeOK, HandlerOK
    <2>5. [loc[h].ses EXCEPT !.iat = now, !.pending = FALSE, !.mfa = TRUE,
                             !.via = "verify"] \in Ses
      BY <1>17, <2>4 DEF Ses, TypeOK
    <2>6. sessions' \subseteq Ses
      BY <1>17, <2>5 DEF VerifySet, Sign, TypeOK
    <2>. QED
      BY <1>17, <2>3, <2>6, FinishType DEF VerifySet, TakeFresh, TypeOK
  <1>18. ASSUME NEW h \in Handlers, DisableRead(h)
        PROVE  TypeOK'
    <2>1. loc[h] \in Loc /\ loc[h].ses \in Ses /\ loc[h].ses.acc = loc[h].acc
      BY <1>18 DEF TypeOK, HandlerOK, DisableRead, Ops
    <2>2. /\ pc' \in [Handlers -> Labels]
          /\ loc' \in [Handlers -> Loc \cup {NoLoc}]
          /\ \A i \in Handlers : HandlerOK(i)'
      BY <1>18, <2>1, GotoType, FinishType DEF DisableRead, Labels, Ops
    <2>. QED
      BY <1>18, <2>2 DEF DisableRead, TypeOK
  <1>19. ASSUME NEW h \in Handlers, DisableSet(h)
        PROVE  TypeOK'
    <2>1. loc[h] \in Loc /\ loc[h].acc \in Accounts /\ row[loc[h].acc] \in Row
      BY <1>19 DEF TypeOK, HandlerOK, DisableSet, Loc
    <2>2. [row[loc[h].acc] EXCEPT !.on = FALSE, !.secret = 0, !.codes = {}] \in Row
      BY <1>19, <2>1 DEF Row, TypeOK
    <2>3. row' \in [Accounts -> Row]
      BY <1>19, <2>1, <2>2, WriteType DEF DisableSet, TypeOK
    <2>. QED
      BY <1>19, <2>3, FinishType DEF DisableSet, TypeOK
  <1>20. ASSUME NEW h \in Handlers, ResetSet(h)
        PROVE  TypeOK'
    <2>1. loc[h] \in Loc /\ loc[h].acc \in Accounts /\ row[loc[h].acc] \in Row
      BY <1>20 DEF TypeOK, HandlerOK, ResetSet, Loc
    <2>2. NewPassword(row[loc[h].acc]) \in Row
      BY <1>20, <2>1 DEF NewPassword, Row, TypeOK
    <2>3. row' \in [Accounts -> Row] /\ raced' \subseteq Accounts /\ old' \in [Accounts -> Nat]
      BY <1>20, <2>1, <2>2, WriteType DEF ResetSet, SetPassword, Outdate,
         TypeOK
    <2>4. /\ pc' \in [Handlers -> Labels]
          /\ loc' \in [Handlers -> Loc \cup {NoLoc}]
          /\ \A i \in Handlers : HandlerOK(i)'
      BY <1>20, <2>1, GotoType DEF ResetSet, Labels, Ops
    <2>. QED
      BY <1>20, <2>3, <2>4 DEF ResetSet, TakeFresh, TypeOK
  <1>21. ASSUME NEW h \in Handlers, ResetForget(h)
        PROVE  TypeOK'
    <2>1. loc[h] \in Loc /\ loc[h].acc \in Accounts /\ row[loc[h].acc] \in Row
      BY <1>21 DEF TypeOK, HandlerOK, ResetForget, Loc
    <2>2. /\ pc' \in [Handlers -> Labels]
          /\ loc' \in [Handlers -> Loc \cup {NoLoc}]
          /\ \A i \in Handlers : HandlerOK(i)'
      BY <1>21, <2>1, GotoType DEF ResetForget, Labels, Ops
    <2>3. cache' \subseteq Entry
      BY <1>21 DEF TypeOK, ResetForget, Forgotten
    <2>. QED
      BY <1>21, <2>2, <2>3 DEF ResetForget, TypeOK
  <1>22. ASSUME NEW h \in Handlers, ResetMark(h)
        PROVE  TypeOK'
    <2>1. loc[h] \in Loc /\ loc[h].acc \in Accounts /\ row[loc[h].acc] \in Row
      BY <1>22 DEF TypeOK, HandlerOK, ResetMark, Loc
    <2>2. link' \in [Accounts -> {"none", "issued", "used"}]
      BY <1>22, <2>1 DEF TypeOK, ResetMark
    <2>. QED
      BY <1>22, <2>2, FinishType DEF ResetMark, TypeOK
  <1>23. ASSUME NEW a \in Accounts, AdminUpdate(a)
        PROVE  TypeOK'
    <2>1. /\ pc' \in [Handlers -> Labels]
          /\ loc' \in [Handlers -> Loc \cup {NoLoc}]
          /\ \A i \in Handlers : HandlerOK(i)'
      BY <1>23, SameHandlers DEF AdminUpdate
    <2>2. /\ old' \in [Accounts -> Nat] /\ events' \in Nat
          /\ adm' \in [step: {"idle", "forget", "commit"}, acc: Accounts]
      BY <1>23 DEF AdminUpdate, Began, Event, Outdate, TypeOK
    <2>3. row' \in [Accounts -> Row]
      BY <1>23, AdminUpdateEffect
    <2>. QED
      BY <1>23, <2>1, <2>2, <2>3 DEF AdminUpdate, TypeOK
  <1>24. ASSUME NEW a \in Accounts, AdminReset(a)
        PROVE  TypeOK'
    <2>1. row[a] \in Row
      BY <1>24 DEF TypeOK
    <2>2. NewPassword(row[a]) \in Row
      BY <1>24, <2>1 DEF NewPassword, Row, TypeOK
    <2>3. row' \in [Accounts -> Row] /\ raced' \subseteq Accounts
      BY <1>24, <2>2, WriteType DEF AdminReset, SetPassword, TypeOK
    <2>4. /\ pc' \in [Handlers -> Labels]
          /\ loc' \in [Handlers -> Loc \cup {NoLoc}]
          /\ \A i \in Handlers : HandlerOK(i)'
      BY <1>24, SameHandlers DEF AdminReset
    <2>5. /\ old' \in [Accounts -> Nat] /\ fresh' \in Nat /\ events' \in Nat
          /\ adm' \in [step: {"idle", "forget", "commit"}, acc: Accounts]
      BY <1>24 DEF AdminReset, Began, Event, TakeFresh, Outdate, TypeOK
    <2>. QED
      BY <1>24, <2>3, <2>4, <2>5 DEF AdminReset, TypeOK
  <1>25. ASSUME NEW a \in Accounts, DeleteForget(a)
        PROVE  TypeOK'
    <2>1. /\ pc' \in [Handlers -> Labels]
          /\ loc' \in [Handlers -> Loc \cup {NoLoc}]
          /\ \A i \in Handlers : HandlerOK(i)'
      BY <1>25, SameHandlers DEF DeleteForget
    <2>. QED
      BY <1>25, <2>1 DEF DeleteForget, Began, Event, Forgotten, TypeOK
  <1>26. ASSUME NEW a \in Accounts, Create(a)
        PROVE  TypeOK'
    <2>1. row[a] \in Row
      BY <1>26 DEF TypeOK
    <2>2. row' \in [Accounts -> Row]
      BY <1>26, <2>1 DEF Create, TypeOK, Row
    <2>3. /\ pc' \in [Handlers -> Labels]
          /\ loc' \in [Handlers -> Loc \cup {NoLoc}]
          /\ \A i \in Handlers : HandlerOK(i)'
      BY <1>26, SameHandlers DEF Create
    <2>. QED
      BY <1>26, <2>2, <2>3 DEF Create, Outdate, TypeOK
  <1>27. ASSUME NEW a \in Accounts, ForgotPassword(a)
        PROVE  TypeOK'
    <2>1. /\ pc' \in [Handlers -> Labels]
          /\ loc' \in [Handlers -> Loc \cup {NoLoc}]
          /\ \A i \in Handlers : HandlerOK(i)'
      BY <1>27, SameHandlers DEF ForgotPassword
    <2>. QED
      BY <1>27, <2>1 DEF ForgotPassword, Event, TypeOK
  <1>28. ASSUME AdminForget
        PROVE  TypeOK'
    <2>1. /\ pc' \in [Handlers -> Labels]
          /\ loc' \in [Handlers -> Loc \cup {NoLoc}]
          /\ \A i \in Handlers : HandlerOK(i)'
      BY <1>28, SameHandlers DEF AdminForget
    <2>. QED
      BY <1>28, <2>1 DEF AdminForget, Forgotten, TypeOK
  <1>29. ASSUME DeleteCommit
        PROVE  TypeOK'
    <2>1. adm.acc \in Accounts
      BY <1>29 DEF TypeOK
    <2>2. row' \in [Accounts -> Row] /\ old' \in [Accounts -> Nat]
      BY <1>29, <2>1, NullRowType, WriteType DEF DeleteCommit, TypeOK, Outdate
    <2>3. /\ pc' \in [Handlers -> Labels]
          /\ loc' \in [Handlers -> Loc \cup {NoLoc}]
          /\ \A i \in Handlers : HandlerOK(i)'
      BY <1>29, SameHandlers DEF DeleteCommit
    <2>. QED
      BY <1>29, <2>2, <2>3 DEF DeleteCommit, TypeOK
  <1>30. ASSUME SetPolicy
        PROVE  TypeOK'
    <2>1. /\ pc' \in [Handlers -> Labels]
          /\ loc' \in [Handlers -> Loc \cup {NoLoc}]
          /\ \A i \in Handlers : HandlerOK(i)'
      BY <1>30, SameHandlers DEF SetPolicy
    <2>. QED
      BY <1>30, <2>1 DEF SetPolicy, Event, TypeOK
  <1>31. ASSUME Tick
        PROVE  TypeOK'
    <2>1. /\ pc' \in [Handlers -> Labels]
          /\ loc' \in [Handlers -> Loc \cup {NoLoc}]
          /\ \A i \in Handlers : HandlerOK(i)'
      BY <1>31, SameHandlers DEF Tick
    <2>. QED
      BY <1>31, <2>1 DEF Tick, TypeOK
  <1>32. ASSUME Restart
        PROVE  TypeOK'
    <2>1. /\ pc' \in [Handlers -> Labels]
          /\ loc' \in [Handlers -> Loc \cup {NoLoc}]
          /\ \A i \in Handlers : HandlerOK(i)'
      BY <1>32 DEF Restart, HandlerOK, Labels, Ops
    <2>. QED
      BY <1>32, <2>1 DEF Restart, Event, TypeOK
  <1>33. CASE UNCHANGED vars
    BY <1>33, SameHandlers DEF vars, TypeOK
  <1>. QED
    BY <1>1, <1>2, <1>3, <1>4, <1>5, <1>6, <1>7, <1>8, <1>9, <1>10, <1>11,
       <1>12, <1>13, <1>14, <1>15, <1>16, <1>17, <1>18, <1>19, <1>20, <1>21,
       <1>22, <1>23, <1>24, <1>25, <1>26, <1>27, <1>28, <1>29, <1>30, <1>31,
       <1>32, <1>33 DEF Next, LoginStep, UserStep, ResetStep, AdminStep

\* Every reachable state has the types the code relies on.
THEOREM TypeCorrect == Spec => []TypeOK
  <1>1. Init => TypeOK
    <2>. SUFFICES ASSUME Init PROVE TypeOK
      OBVIOUS
    <2>1. \A l \in BOOLEAN : [NullRow EXCEPT !.status = "active", !.legacy = l] \in Row
      BY NullRowType DEF Row
    <2>2. row \in [Accounts -> Row]
      BY <2>1, NullRowType DEF Init
    <2>3. \A h \in Handlers : HandlerOK(h)
      BY DEF Init, HandlerOK, Ops
    <2>4. pc \in [Handlers -> Labels] /\ loc \in [Handlers -> Loc \cup {NoLoc}]
      BY DEF Init, Labels
    <2>5. PICK a \in Accounts : adm = [step |-> "idle", acc |-> a]
      BY ONLY Init DEF Init
    <2>6. now = 1 /\ old = [b \in Accounts |-> 1]
      BY DEF Init
    <2>7. /\ lax \in BOOLEAN /\ sessions = {} /\ cache = {} /\ fresh = 1 /\ events = 0
          /\ link = [b \in Accounts |-> "none"] /\ raced = {}
      BY DEF Init
    <2>. QED
      BY <2>2, <2>3, <2>4, <2>5, <2>6, <2>7 DEF TypeOK
  <1>. QED
    BY <1>1, TypeStep, PTL DEF Spec

-----------------------------------------------------------------------------
(* The second factor.                                                        *)

HasFactor(s) == s.pending \/ s.lax \/ s.mfa

\* What a handler does with its session: only who is let in while pending is
\* still pending.
FactorOK ==
    /\ \A s \in sessions : HasFactor(s)
    /\ \A h \in Handlers :
          /\ pc[h] \in {"store", "verset", "chgset", "chgsign", "disset"} \cup Ops
                => HasFactor(loc[h].ses)
          /\ pc[h] \in {"change", "disable", "chgset", "chgsign", "disset"}
                => ~loc[h].ses.pending

LEMMA FactorStep == TypeOK /\ FactorOK /\ [Next]_vars => FactorOK'
  <1>. SUFFICES ASSUME TypeOK, FactorOK, [Next]_vars PROVE FactorOK'
    OBVIOUS
  <1>1. ASSUME NEW h \in Handlers, NEW a \in Accounts, LoginRead(h, a)
        PROVE  FactorOK'
    <2>1. PICK label \in {"upgrade", "sign", "spend"} : Goto(h, label)
      BY <1>1 DEF LoginRead, Enter
    <2>2. sessions' = sessions /\ \A i \in Handlers \ {h} : pc'[i] = pc[i] /\ loc'[i] = loc[i]
      BY <1>1 DEF LoginRead, Enter, Goto, TypeOK
    <2>3. pc'[h] \in {"upgrade", "sign", "spend"}
      BY <1>1, <2>1 DEF Goto, TypeOK
    <2>. QED
      BY <1>1, <2>2, <2>3 DEF FactorOK, HasFactor, Ops
  <1>2. ASSUME NEW h \in Handlers, NEW a \in Accounts, ResetCheck(h, a)
        PROVE  FactorOK'
    BY <1>2 DEF ResetCheck, Goto, Enter, Finish, FactorOK, HasFactor, Ops,
       TypeOK
  <1>3. ASSUME NEW h \in Handlers, NEW s \in sessions, NEW op \in Ops, AttachHit(h, s, op)
        PROVE  FactorOK'
    <2>1. s \in Ses /\ Request(op, s).ses = s
      BY <1>3 DEF TypeOK, Request
    <2>2. op \in {"change", "disable"} => ~s.pending
      BY <1>3 DEF AttachHit, Accepted, PendingAllowed
    <2>. QED
      BY <1>3, <2>1, <2>2 DEF AttachHit, Goto, Enter, Finish, FactorOK,
         HasFactor, Ops, TypeOK
  <1>4. ASSUME NEW h \in Handlers, NEW s \in sessions, NEW op \in Ops \cup {"read"}, AttachLoad(h, s, op)
        PROVE  FactorOK'
    <2>1. s \in Ses
      BY <1>4 DEF TypeOK
    <2>. DEFINE l == [Request(op, s) EXCEPT !.row.status = row[s.acc].status,
                                       !.row.revoked = row[s.acc].revoked]
    <2>2. l.ses = s /\ Enter(h, "store", l)
      BY <1>4, <2>1 DEF Request, AttachLoad
    <2>. HIDE DEF l
    <2>. QED
      BY <1>4, <2>1, <2>2 DEF AttachLoad, Goto, Enter, Finish, FactorOK,
         HasFactor, Ops, TypeOK
  <1>5. ASSUME NEW h \in Handlers, LoginSpend(h)
        PROVE  FactorOK'
    BY <1>5 DEF LoginSpend, Goto, Enter, Finish, FactorOK, HasFactor, Ops,
       TypeOK
  <1>6. ASSUME NEW h \in Handlers, LoginUpgrade(h)
        PROVE  FactorOK'
    BY <1>6 DEF LoginUpgrade, Goto, Enter, Finish, FactorOK, HasFactor, Ops,
       TypeOK
  <1>7. ASSUME NEW h \in Handlers, LoginSign(h)
        PROVE  FactorOK'
    <2>1. loc[h].lax \in BOOLEAN /\ loc[h].row.on \in BOOLEAN
      BY <1>7 DEF LoginSign, TypeOK, HandlerOK, Loc, Row
    <2>2. HasFactor([acc |-> loc[h].acc, iat |-> now, pending |-> ~loc[h].lax /\ ~loc[h].row.on,
           pwd |-> loc[h].row.pwd, lax |-> loc[h].lax, mfa |-> loc[h].row.on,
           via |-> "login"])
      BY <1>7, <2>1 DEF HasFactor
    <2>3. \A s \in sessions' : HasFactor(s)
      BY <1>7, <2>2 DEF LoginSign, Sign, FactorOK
    <2>. QED
      BY <1>7, <2>3 DEF LoginSign, Goto, Enter, Finish, FactorOK, HasFactor,
         Ops, TypeOK
  <1>8. ASSUME NEW h \in Handlers, AttachStore(h)
        PROVE  FactorOK'
    <2>1. HasFactor(loc[h].ses)
      BY <1>8 DEF AttachStore, FactorOK
    <2>2. Request(loc[h].op, loc[h].ses).ses = loc[h].ses
      BY <1>8 DEF Request
    <2>3. \/ Finish(h)
          \/ /\ loc[h].op \in Ops
             /\ loc[h].op \in {"change", "disable"} => ~loc[h].ses.pending
             /\ Enter(h, loc[h].op, Request(loc[h].op, loc[h].ses))
      BY <1>8 DEF AttachStore, Accepted, PendingAllowed
    <2>4. sessions' = sessions
      BY <1>8 DEF AttachStore
    <2>. QED
      BY <1>8, <2>1, <2>2, <2>3, <2>4 DEF Goto, Enter, Finish, FactorOK,
         HasFactor, Ops, TypeOK
  <1>9. ASSUME NEW h \in Handlers, LogoutRevoke(h)
        PROVE  FactorOK'
    BY <1>9 DEF LogoutRevoke, Goto, Enter, Finish, FactorOK, HasFactor, Ops,
       TypeOK
  <1>10. ASSUME NEW h \in Handlers, LogoutForget(h)
        PROVE  FactorOK'
    BY <1>10 DEF LogoutForget, Goto, Enter, Finish, FactorOK, HasFactor, Ops,
       TypeOK
  <1>11. ASSUME NEW h \in Handlers, ChangeRead(h)
        PROVE  FactorOK'
    BY <1>11 DEF ChangeRead, Goto, Enter, Finish, FactorOK, HasFactor, Ops,
       TypeOK
  <1>12. ASSUME NEW h \in Handlers, ChangeSet(h)
        PROVE  FactorOK'
    <2>1. [loc[h] EXCEPT !.row.pwd = fresh].ses = loc[h].ses /\ loc[h] \in Loc
      BY <1>12 DEF TypeOK, HandlerOK, ChangeSet, Loc
    <2>. QED
      BY <1>12, <2>1 DEF ChangeSet, Goto, Enter, Finish, FactorOK, HasFactor,
         Ops, TypeOK
  <1>13. ASSUME NEW h \in Handlers, ChangeSign(h)
        PROVE  FactorOK'
    <2>1. loc[h].ses \in Ses
      BY <1>13 DEF TypeOK, HandlerOK, ChangeSign
    <2>2. HasFactor([loc[h].ses EXCEPT !.iat = now, !.pending = FALSE, !.via = "change",
                                     !.pwd = loc[h].row.pwd])
      BY <1>13, <2>1 DEF ChangeSign, FactorOK, HasFactor, Ses
    <2>3. \A s \in sessions' : HasFactor(s)
      BY <1>13, <2>2 DEF ChangeSign, Sign, FactorOK
    <2>. QED
      BY <1>13, <2>3 DEF ChangeSign, Goto, Enter, Finish, FactorOK, HasFactor,
         Ops, TypeOK
  <1>14. ASSUME NEW h \in Handlers, SetupRead(h)
        PROVE  FactorOK'
    BY <1>14 DEF SetupRead, Goto, Enter, Finish, FactorOK, HasFactor, Ops,
       TypeOK
  <1>15. ASSUME NEW h \in Handlers, SetupSet(h)
        PROVE  FactorOK'
    BY <1>15 DEF SetupSet, Goto, Enter, Finish, FactorOK, HasFactor, Ops,
       TypeOK
  <1>16. ASSUME NEW h \in Handlers, VerifyRead(h)
        PROVE  FactorOK'
    BY <1>16 DEF VerifyRead, Goto, Enter, Finish, FactorOK, HasFactor, Ops,
       TypeOK
  <1>17. ASSUME NEW h \in Handlers, VerifySet(h)
        PROVE  FactorOK'
    <2>1. loc[h].ses \in Ses
      BY <1>17 DEF TypeOK, HandlerOK, VerifySet
    <2>2. HasFactor([loc[h].ses EXCEPT !.iat = now, !.pending = FALSE, !.mfa = TRUE,
                                     !.via = "verify"])
      BY <1>17, <2>1 DEF HasFactor, Ses
    <2>3. \A s \in sessions' : HasFactor(s)
      BY <1>17, <2>2 DEF VerifySet, Sign, FactorOK
    <2>. QED
      BY <1>17, <2>3 DEF VerifySet, Goto, Enter, Finish, FactorOK, HasFactor,
         Ops, TypeOK
  <1>18. ASSUME NEW h \in Handlers, DisableRead(h)
        PROVE  FactorOK'
    BY <1>18 DEF DisableRead, Goto, Enter, Finish, FactorOK, HasFactor, Ops,
       TypeOK
  <1>19. ASSUME NEW h \in Handlers, DisableSet(h)
        PROVE  FactorOK'
    BY <1>19 DEF DisableSet, Goto, Enter, Finish, FactorOK, HasFactor, Ops,
       TypeOK
  <1>20. ASSUME NEW h \in Handlers, ResetSet(h)
        PROVE  FactorOK'
    BY <1>20 DEF ResetSet, Goto, Enter, Finish, FactorOK, HasFactor, Ops,
       TypeOK
  <1>21. ASSUME NEW h \in Handlers, ResetForget(h)
        PROVE  FactorOK'
    BY <1>21 DEF ResetForget, Goto, Enter, Finish, FactorOK, HasFactor, Ops,
       TypeOK
  <1>22. ASSUME NEW h \in Handlers, ResetMark(h)
        PROVE  FactorOK'
    BY <1>22 DEF ResetMark, Goto, Enter, Finish, FactorOK, HasFactor, Ops,
       TypeOK
  <1>23. ASSUME NEW a \in Accounts, AdminUpdate(a)
        PROVE  FactorOK'
    BY <1>23 DEF AdminUpdate, Goto, Enter, Finish, FactorOK, HasFactor, Ops,
       TypeOK
  <1>24. ASSUME NEW a \in Accounts, AdminReset(a)
        PROVE  FactorOK'
    BY <1>24 DEF AdminReset, Goto, Enter, Finish, FactorOK, HasFactor, Ops,
       TypeOK
  <1>25. ASSUME NEW a \in Accounts, DeleteForget(a)
        PROVE  FactorOK'
    BY <1>25 DEF DeleteForget, Goto, Enter, Finish, FactorOK, HasFactor, Ops,
       TypeOK
  <1>26. ASSUME NEW a \in Accounts, Create(a)
        PROVE  FactorOK'
    BY <1>26 DEF Create, Goto, Enter, Finish, FactorOK, HasFactor, Ops, TypeOK
  <1>27. ASSUME NEW a \in Accounts, ForgotPassword(a)
        PROVE  FactorOK'
    BY <1>27 DEF ForgotPassword, Goto, Enter, Finish, FactorOK, HasFactor,
       Ops, TypeOK
  <1>28. ASSUME AdminForget
        PROVE  FactorOK'
    BY <1>28 DEF AdminForget, Goto, Enter, Finish, FactorOK, HasFactor, Ops,
       TypeOK
  <1>29. ASSUME DeleteCommit
        PROVE  FactorOK'
    BY <1>29 DEF DeleteCommit, Goto, Enter, Finish, FactorOK, HasFactor, Ops,
       TypeOK
  <1>30. ASSUME SetPolicy
        PROVE  FactorOK'
    BY <1>30 DEF SetPolicy, Goto, Enter, Finish, FactorOK, HasFactor, Ops,
       TypeOK
  <1>31. ASSUME Tick
        PROVE  FactorOK'
    BY <1>31 DEF Tick, Goto, Enter, Finish, FactorOK, HasFactor, Ops, TypeOK
  <1>32. ASSUME Restart
        PROVE  FactorOK'
    BY <1>32 DEF Restart, Goto, Enter, Finish, FactorOK, HasFactor, Ops,
       TypeOK
  <1>33. CASE UNCHANGED vars
    BY <1>33 DEF vars, FactorOK, HasFactor
  <1>. QED
    BY <1>1, <1>2, <1>3, <1>4, <1>5, <1>6, <1>7, <1>8, <1>9, <1>10, <1>11,
       <1>12, <1>13, <1>14, <1>15, <1>16, <1>17, <1>18, <1>19, <1>20, <1>21,
       <1>22, <1>23, <1>24, <1>25, <1>26, <1>27, <1>28, <1>29, <1>30, <1>31,
       <1>32, <1>33 DEF Next, LoginStep, UserStep, ResetStep, AdminStep

\* No sequence of requests makes a session full but a login that the policy or a
\* second factor allows, or enrolment.
THEOREM SecondFactorHolds == Spec => []FullSessionHadSecondFactor
  <1>1. Init => FactorOK
    BY DEF Init, FactorOK, Ops
  <1>2. FactorOK => FullSessionHadSecondFactor
    BY DEF FactorOK, HasFactor, FullSessionHadSecondFactor
  <1>. QED
    BY <1>1, <1>2, FactorStep, TypeCorrect, PTL DEF Spec

-----------------------------------------------------------------------------
(* Cached states.                                                            *)

\* A cached state that is not the row's is no younger than the time since which
\* the row differs, or at which it was cached.
CacheOK ==
    /\ \A a \in Accounts : old[a] <= now
    /\ \A e \in cache :
          /\ e.at <= now
          /\ \/ e.live = (row[e.acc].status = "active") /\ e.revoked = row[e.acc].revoked
             \/ e.at <= old[e.acc]

\* What every action but AttachStore does to the cache.
Outdated ==
    /\ cache' \subseteq cache
    /\ now' \in Nat /\ now <= now'
    /\ \A a \in Accounts :
          \/ old'[a] = now
          \/ /\ old'[a] = old[a]
             /\ row'[a].status = row[a].status
             /\ row'[a].revoked = row[a].revoked

LEMMA OutdatedKeeps ==
    ASSUME TypeOK, CacheOK, Outdated
    PROVE  CacheOK'
  <1>1. \A e \in cache : e.at \in Nat /\ e.acc \in Accounts
    BY DEF TypeOK, Entry
  <1>2. \A a \in Accounts : old'[a] <= now' /\ old[a] \in Nat /\ now \in Nat
    BY DEF TypeOK, CacheOK, Outdated
  <1>3. ASSUME NEW e \in cache'
        PROVE  /\ e.at <= now'
               /\ \/ e.live = (row'[e.acc].status = "active") /\ e.revoked = row'[e.acc].revoked
                  \/ e.at <= old'[e.acc]
    <2>1. e \in cache /\ e.at \in Nat /\ e.acc \in Accounts /\ now \in Nat
      BY <1>1, <1>3 DEF Outdated, TypeOK
    <2>. QED
      BY <1>2, <2>1 DEF CacheOK, Outdated
  <1>. QED
    BY <1>2, <1>3 DEF CacheOK

LEMMA CacheStep == TypeOK /\ CacheOK /\ [Next]_vars => CacheOK'
  <1>. SUFFICES ASSUME TypeOK, CacheOK, [Next]_vars PROVE CacheOK'
    OBVIOUS
  <1>1. ASSUME NEW h \in Handlers, NEW a \in Accounts, LoginRead(h, a)
        PROVE  CacheOK'
    <2>1. row' = row /\ cache' = cache /\ old' = old /\ now' = now
      BY <1>1 DEF LoginRead
    <2>2. Outdated
      BY <1>1, <2>1 DEF Outdated, TypeOK
    <2>. QED
      BY <1>1, <2>2, OutdatedKeeps
  <1>2. ASSUME NEW h \in Handlers, NEW a \in Accounts, ResetCheck(h, a)
        PROVE  CacheOK'
    <2>1. Outdated
      BY <1>2 DEF ResetCheck, Outdated, TypeOK, Outdate, Forgotten, Write,
         SetPassword, NewPassword, Began
    <2>. QED
      BY <1>2, <2>1, OutdatedKeeps
  <1>3. ASSUME NEW h \in Handlers, NEW s \in sessions, NEW op \in Ops, AttachHit(h, s, op)
        PROVE  CacheOK'
    <2>1. Outdated
      BY <1>3 DEF AttachHit, Outdated, TypeOK, Outdate, Forgotten, Write,
         SetPassword, NewPassword, Began
    <2>. QED
      BY <1>3, <2>1, OutdatedKeeps
  <1>4. ASSUME NEW h \in Handlers, NEW s \in sessions, NEW op \in Ops \cup {"read"}, AttachLoad(h, s, op)
        PROVE  CacheOK'
    <2>1. Outdated
      BY <1>4 DEF AttachLoad, Outdated, TypeOK, Outdate, Forgotten, Write,
         SetPassword, NewPassword, Began
    <2>. QED
      BY <1>4, <2>1, OutdatedKeeps
  <1>5. ASSUME NEW h \in Handlers, LoginSpend(h)
        PROVE  CacheOK'
    <2>1. loc[h].acc \in Accounts /\ row[loc[h].acc] \in Row
      BY <1>5 DEF TypeOK, HandlerOK, LoginSpend, Loc
    <2>2. Outdated
      BY <1>5, <2>1 DEF LoginSpend, Outdated, TypeOK, Outdate, Forgotten,
         Write, SetPassword, NewPassword, Began, Row
    <2>. QED
      BY <1>5, <2>2, OutdatedKeeps
  <1>6. ASSUME NEW h \in Handlers, LoginUpgrade(h)
        PROVE  CacheOK'
    <2>1. loc[h].acc \in Accounts /\ row[loc[h].acc] \in Row
      BY <1>6 DEF TypeOK, HandlerOK, LoginUpgrade, Loc
    <2>2. Outdated
      BY <1>6, <2>1 DEF LoginUpgrade, Outdated, TypeOK, Outdate, Forgotten,
         Write, SetPassword, NewPassword, Began, Row
    <2>. QED
      BY <1>6, <2>2, OutdatedKeeps
  <1>7. ASSUME NEW h \in Handlers, LoginSign(h)
        PROVE  CacheOK'
    <2>1. Outdated
      BY <1>7 DEF LoginSign, Outdated, TypeOK, Outdate, Forgotten, Write,
         SetPassword, NewPassword, Began
    <2>. QED
      BY <1>7, <2>1, OutdatedKeeps
  <1>8. ASSUME NEW h \in Handlers, AttachStore(h)
        PROVE  CacheOK'
    <2>1. loc[h].acc \in Accounts /\ loc[h].row \in Row /\ now \in Nat
      BY <1>8 DEF TypeOK, HandlerOK, AttachStore, Loc
    <2>. DEFINE n == [acc |-> loc[h].acc, at |-> now, live |-> StateOf(loc[h].row).live,
                      revoked |-> StateOf(loc[h].row).revoked]
    <2>2. cache' = Forgotten(loc[h].acc) \cup {n} /\ row' = row /\ now' = now
      BY <1>8 DEF AttachStore
    <2>3. /\ n.acc = loc[h].acc /\ n.at = now
          /\ \/ n.live = (row[n.acc].status = "active") /\ n.revoked = row[n.acc].revoked
             \/ old' = [old EXCEPT ![loc[h].acc] = now]
      BY <1>8 DEF AttachStore, Outdate, StateOf
    <2>4. \A a \in Accounts : a # loc[h].acc => old'[a] = old[a]
      BY <1>8, <2>1 DEF AttachStore, Outdate, TypeOK
    <2>5. \A a \in Accounts : old'[a] <= now
      BY <1>8, <2>1 DEF AttachStore, Outdate, TypeOK, CacheOK
    <2>. HIDE DEF n
    <2>6. \A e \in Forgotten(loc[h].acc) : e \in cache /\ e.acc \in Accounts /\ e.acc # loc[h].acc
      BY <1>8 DEF Forgotten, TypeOK, Entry
    <2>7. ASSUME NEW e \in cache'
          PROVE  /\ e.at <= now'
                 /\ \/ e.live = (row'[e.acc].status = "active") /\ e.revoked = row'[e.acc].revoked
                    \/ e.at <= old'[e.acc]
      <3>1. CASE e \in Forgotten(loc[h].acc)
        BY <2>2, <2>4, <2>6, <3>1 DEF CacheOK
      <3>2. CASE e = n
        BY <2>1, <2>2, <2>3, <3>2 DEF TypeOK
      <3>. QED
        BY <2>2, <2>7, <3>1, <3>2
    <2>. QED
      BY <1>8, <2>2, <2>5, <2>7 DEF CacheOK
  <1>9. ASSUME NEW h \in Handlers, LogoutRevoke(h)
        PROVE  CacheOK'
    <2>1. loc[h].acc \in Accounts /\ row[loc[h].acc] \in Row
      BY <1>9 DEF TypeOK, HandlerOK, LogoutRevoke, Loc
    <2>2. Outdated
      BY <1>9, <2>1 DEF LogoutRevoke, Outdated, TypeOK, Outdate, Forgotten,
         Write, SetPassword, NewPassword, Began, Row
    <2>. QED
      BY <1>9, <2>2, OutdatedKeeps
  <1>10. ASSUME NEW h \in Handlers, LogoutForget(h)
        PROVE  CacheOK'
    <2>1. Outdated
      BY <1>10 DEF LogoutForget, Outdated, TypeOK, Outdate, Forgotten, Write,
         SetPassword, NewPassword, Began
    <2>. QED
      BY <1>10, <2>1, OutdatedKeeps
  <1>11. ASSUME NEW h \in Handlers, ChangeRead(h)
        PROVE  CacheOK'
    <2>1. Outdated
      BY <1>11 DEF ChangeRead, Outdated, TypeOK, Outdate, Forgotten, Write,
         SetPassword, NewPassword, Began
    <2>. QED
      BY <1>11, <2>1, OutdatedKeeps
  <1>12. ASSUME NEW h \in Handlers, ChangeSet(h)
        PROVE  CacheOK'
    <2>1. loc[h].acc \in Accounts /\ row[loc[h].acc] \in Row
      BY <1>12 DEF TypeOK, HandlerOK, ChangeSet, Loc
    <2>2. Outdated
      BY <1>12, <2>1 DEF ChangeSet, Outdated, TypeOK, Outdate, Forgotten,
         Write, SetPassword, NewPassword, Began, Row
    <2>. QED
      BY <1>12, <2>2, OutdatedKeeps
  <1>13. ASSUME NEW h \in Handlers, ChangeSign(h)
        PROVE  CacheOK'
    <2>1. Outdated
      BY <1>13 DEF ChangeSign, Outdated, TypeOK, Outdate, Forgotten, Write,
         SetPassword, NewPassword, Began
    <2>. QED
      BY <1>13, <2>1, OutdatedKeeps
  <1>14. ASSUME NEW h \in Handlers, SetupRead(h)
        PROVE  CacheOK'
    <2>1. Outdated
      BY <1>14 DEF SetupRead, Outdated, TypeOK, Outdate, Forgotten, Write,
         SetPassword, NewPassword, Began
    <2>. QED
      BY <1>14, <2>1, OutdatedKeeps
  <1>15. ASSUME NEW h \in Handlers, SetupSet(h)
        PROVE  CacheOK'
    <2>1. loc[h].acc \in Accounts /\ row[loc[h].acc] \in Row
      BY <1>15 DEF TypeOK, HandlerOK, SetupSet, Loc
    <2>2. Outdated
      BY <1>15, <2>1 DEF SetupSet, Outdated, TypeOK, Outdate, Forgotten,
         Write, SetPassword, NewPassword, Began, Row
    <2>. QED
      BY <1>15, <2>2, OutdatedKeeps
  <1>16. ASSUME NEW h \in Handlers, VerifyRead(h)
        PROVE  CacheOK'
    <2>1. Outdated
      BY <1>16 DEF VerifyRead, Outdated, TypeOK, Outdate, Forgotten, Write,
         SetPassword, NewPassword, Began
    <2>. QED
      BY <1>16, <2>1, OutdatedKeeps
  <1>17. ASSUME NEW h \in Handlers, VerifySet(h)
        PROVE  CacheOK'
    <2>1. loc[h].acc \in Accounts /\ row[loc[h].acc] \in Row
      BY <1>17 DEF TypeOK, HandlerOK, VerifySet, Loc
    <2>2. Outdated
      BY <1>17, <2>1 DEF VerifySet, Outdated, TypeOK, Outdate, Forgotten,
         Write, SetPassword, NewPassword, Began, Row
    <2>. QED
      BY <1>17, <2>2, OutdatedKeeps
  <1>18. ASSUME NEW h \in Handlers, DisableRead(h)
        PROVE  CacheOK'
    <2>1. Outdated
      BY <1>18 DEF DisableRead, Outdated, TypeOK, Outdate, Forgotten, Write,
         SetPassword, NewPassword, Began
    <2>. QED
      BY <1>18, <2>1, OutdatedKeeps
  <1>19. ASSUME NEW h \in Handlers, DisableSet(h)
        PROVE  CacheOK'
    <2>1. loc[h].acc \in Accounts /\ row[loc[h].acc] \in Row
      BY <1>19 DEF TypeOK, HandlerOK, DisableSet, Loc
    <2>2. Outdated
      BY <1>19, <2>1 DEF DisableSet, Outdated, TypeOK, Outdate, Forgotten,
         Write, SetPassword, NewPassword, Began, Row
    <2>. QED
      BY <1>19, <2>2, OutdatedKeeps
  <1>20. ASSUME NEW h \in Handlers, ResetSet(h)
        PROVE  CacheOK'
    <2>1. loc[h].acc \in Accounts /\ row[loc[h].acc] \in Row
      BY <1>20 DEF TypeOK, HandlerOK, ResetSet, Loc
    <2>2. Outdated
      BY <1>20, <2>1 DEF ResetSet, Outdated, TypeOK, Outdate, Forgotten,
         Write, SetPassword, NewPassword, Began, Row
    <2>. QED
      BY <1>20, <2>2, OutdatedKeeps
  <1>21. ASSUME NEW h \in Handlers, ResetForget(h)
        PROVE  CacheOK'
    <2>1. Outdated
      BY <1>21 DEF ResetForget, Outdated, TypeOK, Outdate, Forgotten, Write,
         SetPassword, NewPassword, Began
    <2>. QED
      BY <1>21, <2>1, OutdatedKeeps
  <1>22. ASSUME NEW h \in Handlers, ResetMark(h)
        PROVE  CacheOK'
    <2>1. Outdated
      BY <1>22 DEF ResetMark, Outdated, TypeOK, Outdate, Forgotten, Write,
         SetPassword, NewPassword, Began
    <2>. QED
      BY <1>22, <2>1, OutdatedKeeps
  <1>23. ASSUME NEW a \in Accounts, AdminUpdate(a)
        PROVE  CacheOK'
    <2>1. \A b \in Accounts \ {a} : row'[b] = row[b]
      BY <1>23, AdminUpdateEffect
    <2>2. Outdated
      BY <1>23, <2>1 DEF AdminUpdate, Outdated, Outdate, TypeOK
    <2>. QED
      BY <1>23, <2>2, OutdatedKeeps
  <1>24. ASSUME NEW a \in Accounts, AdminReset(a)
        PROVE  CacheOK'
    <2>1. row[a] \in Row
      BY <1>24 DEF TypeOK
    <2>2. Outdated
      BY <1>24, <2>1 DEF AdminReset, Outdated, TypeOK, Outdate, Forgotten,
         Write, SetPassword, NewPassword, Began, Row
    <2>. QED
      BY <1>24, <2>2, OutdatedKeeps
  <1>25. ASSUME NEW a \in Accounts, DeleteForget(a)
        PROVE  CacheOK'
    <2>1. Outdated
      BY <1>25 DEF DeleteForget, Outdated, TypeOK, Outdate, Forgotten, Write,
         SetPassword, NewPassword, Began
    <2>. QED
      BY <1>25, <2>1, OutdatedKeeps
  <1>26. ASSUME NEW a \in Accounts, Create(a)
        PROVE  CacheOK'
    <2>1. row[a] \in Row
      BY <1>26 DEF TypeOK
    <2>2. Outdated
      BY <1>26, <2>1 DEF Create, Outdated, TypeOK, Outdate, Forgotten, Write,
         SetPassword, NewPassword, Began, Row
    <2>. QED
      BY <1>26, <2>2, OutdatedKeeps
  <1>27. ASSUME NEW a \in Accounts, ForgotPassword(a)
        PROVE  CacheOK'
    <2>1. Outdated
      BY <1>27 DEF ForgotPassword, Outdated, TypeOK, Outdate, Forgotten,
         Write, SetPassword, NewPassword, Began
    <2>. QED
      BY <1>27, <2>1, OutdatedKeeps
  <1>28. ASSUME AdminForget
        PROVE  CacheOK'
    <2>1. Outdated
      BY <1>28 DEF AdminForget, Outdated, TypeOK, Outdate, Forgotten, Write,
         SetPassword, NewPassword, Began
    <2>. QED
      BY <1>28, <2>1, OutdatedKeeps
  <1>29. ASSUME DeleteCommit
        PROVE  CacheOK'
    <2>1. Outdated
      BY <1>29 DEF DeleteCommit, Outdated, TypeOK, Outdate, Forgotten, Write,
         SetPassword, NewPassword, Began
    <2>. QED
      BY <1>29, <2>1, OutdatedKeeps
  <1>30. ASSUME SetPolicy
        PROVE  CacheOK'
    <2>1. Outdated
      BY <1>30 DEF SetPolicy, Outdated, TypeOK, Outdate, Forgotten, Write,
         SetPassword, NewPassword, Began
    <2>. QED
      BY <1>30, <2>1, OutdatedKeeps
  <1>31. ASSUME Tick
        PROVE  CacheOK'
    <2>1. Outdated
      BY <1>31 DEF Tick, Outdated, TypeOK, Outdate, Forgotten, Write,
         SetPassword, NewPassword, Began
    <2>. QED
      BY <1>31, <2>1, OutdatedKeeps
  <1>32. ASSUME Restart
        PROVE  CacheOK'
    <2>1. Outdated
      BY <1>32 DEF Restart, Outdated, TypeOK, Outdate, Forgotten, Write,
         SetPassword, NewPassword, Began
    <2>. QED
      BY <1>32, <2>1, OutdatedKeeps
  <1>33. CASE UNCHANGED vars
    BY <1>33, OutdatedKeeps DEF vars, Outdated, TypeOK
  <1>. QED
    BY <1>1, <1>2, <1>3, <1>4, <1>5, <1>6, <1>7, <1>8, <1>9, <1>10, <1>11,
       <1>12, <1>13, <1>14, <1>15, <1>16, <1>17, <1>18, <1>19, <1>20, <1>21,
       <1>22, <1>23, <1>24, <1>25, <1>26, <1>27, <1>28, <1>29, <1>30, <1>31,
       <1>32, <1>33 DEF Next, LoginStep, UserStep, ResetStep, AdminStep

\* The action of RefusedWithinTtl.
AcceptedInTime ==
    \A h \in Handlers :
          (pc[h] \in {"idle", "store"} /\ pc'[h] \in Ops)
             => LET s == loc'[h].ses
                IN  \/ Honoured(s, StateOf(row[s.acc]))
                    \/ now - old'[s.acc] < Ttl

LEMMA AcceptStep == TypeOK /\ CacheOK /\ [Next]_vars => [AcceptedInTime]_vars
  <1>. SUFFICES ASSUME TypeOK, CacheOK, Next PROVE AcceptedInTime
    OBVIOUS
  <1>1. ASSUME NEW h \in Handlers, NEW a \in Accounts, LoginRead(h, a)
        PROVE  AcceptedInTime
    BY <1>1 DEF LoginRead, Goto, Enter, Finish, Ops, TypeOK, AcceptedInTime
  <1>2. ASSUME NEW h \in Handlers, NEW a \in Accounts, ResetCheck(h, a)
        PROVE  AcceptedInTime
    BY <1>2 DEF ResetCheck, Goto, Enter, Finish, Ops, TypeOK, AcceptedInTime
  <1>3. ASSUME NEW h \in Handlers, NEW s \in sessions, NEW op \in Ops, AttachHit(h, s, op)
        PROVE  AcceptedInTime
    <2>1. s \in Ses /\ s.acc \in Accounts /\ Request(op, s).ses = s /\ row[s.acc] \in Row
      BY <1>3 DEF TypeOK, Ses, Request
    <2>2. PICK e \in cache : e.acc = s.acc /\ Valid(e) /\ Honoured(s, e)
      BY <1>3 DEF AttachHit, Accepted
    <2>3. e.at \in Nat /\ old[s.acc] \in Nat /\ now \in Nat
      BY <1>3, <2>1 DEF TypeOK, Entry
    <2>4. Honoured(s, StateOf(row[s.acc])) \/ now - old[s.acc] < Ttl
      BY <1>3, <2>1, <2>2, <2>3 DEF CacheOK, Honoured, StateOf, Valid
    <2>5. old' = old /\ \A i \in Handlers : pc'[i] # pc[i] => i = h /\ loc'[i].ses = s
      BY <1>3, <2>1 DEF AttachHit, TypeOK, Goto, Enter, Finish
    <2>6. \A i \in Handlers : (pc[i] \in {"idle", "store"} /\ pc'[i] \in Ops) => loc'[i].ses = s
      BY <1>3, <2>5 DEF Ops
    <2>. QED
      BY <1>3, <2>4, <2>5, <2>6 DEF AcceptedInTime
  <1>4. ASSUME NEW h \in Handlers, NEW s \in sessions, NEW op \in Ops \cup {"read"}, AttachLoad(h, s, op)
        PROVE  AcceptedInTime
    BY <1>4 DEF AttachLoad, Goto, Enter, Finish, Ops, TypeOK, AcceptedInTime
  <1>5. ASSUME NEW h \in Handlers, LoginSpend(h)
        PROVE  AcceptedInTime
    BY <1>5 DEF LoginSpend, Goto, Enter, Finish, Ops, TypeOK, AcceptedInTime
  <1>6. ASSUME NEW h \in Handlers, LoginUpgrade(h)
        PROVE  AcceptedInTime
    BY <1>6 DEF LoginUpgrade, Goto, Enter, Finish, Ops, TypeOK, AcceptedInTime
  <1>7. ASSUME NEW h \in Handlers, LoginSign(h)
        PROVE  AcceptedInTime
    BY <1>7 DEF LoginSign, Goto, Enter, Finish, Ops, TypeOK, AcceptedInTime
  <1>8. ASSUME NEW h \in Handlers, AttachStore(h)
        PROVE  AcceptedInTime
    <2>1. loc[h].acc \in Accounts /\ loc[h].ses.acc = loc[h].acc /\ now \in Nat
      BY <1>8 DEF TypeOK, HandlerOK, AttachStore, Loc
    <2>2. Request(loc[h].op, loc[h].ses).ses = loc[h].ses
      BY <1>8 DEF Request
    <2>3. pc'[h] \in Ops => Honoured(loc[h].ses, StateOf(loc[h].row)) /\ loc'[h].ses = loc[h].ses
      BY <1>8, <2>2 DEF AttachStore, Accepted, TypeOK, Ops, Goto, Enter,
         Finish
    <2>4. StateOf(loc[h].row) # StateOf(row[loc[h].acc]) => old'[loc[h].acc] = now
      BY <1>8, <2>1 DEF AttachStore, Outdate, TypeOK
    <2>5. \A i \in Handlers \ {h} : pc'[i] = pc[i]
      BY <1>8 DEF AttachStore, TypeOK, Goto, Enter, Finish
    <2>. QED
      BY <1>8, <2>1, <2>3, <2>4, <2>5 DEF AcceptedInTime, Ops
  <1>9. ASSUME NEW h \in Handlers, LogoutRevoke(h)
        PROVE  AcceptedInTime
    BY <1>9 DEF LogoutRevoke, Goto, Enter, Finish, Ops, TypeOK, AcceptedInTime
  <1>10. ASSUME NEW h \in Handlers, LogoutForget(h)
        PROVE  AcceptedInTime
    BY <1>10 DEF LogoutForget, Goto, Enter, Finish, Ops, TypeOK,
       AcceptedInTime
  <1>11. ASSUME NEW h \in Handlers, ChangeRead(h)
        PROVE  AcceptedInTime
    BY <1>11 DEF ChangeRead, Goto, Enter, Finish, Ops, TypeOK, AcceptedInTime
  <1>12. ASSUME NEW h \in Handlers, ChangeSet(h)
        PROVE  AcceptedInTime
    BY <1>12 DEF ChangeSet, Goto, Enter, Finish, Ops, TypeOK, AcceptedInTime
  <1>13. ASSUME NEW h \in Handlers, ChangeSign(h)
        PROVE  AcceptedInTime
    BY <1>13 DEF ChangeSign, Goto, Enter, Finish, Ops, TypeOK, AcceptedInTime
  <1>14. ASSUME NEW h \in Handlers, SetupRead(h)
        PROVE  AcceptedInTime
    BY <1>14 DEF SetupRead, Goto, Enter, Finish, Ops, TypeOK, AcceptedInTime
  <1>15. ASSUME NEW h \in Handlers, SetupSet(h)
        PROVE  AcceptedInTime
    BY <1>15 DEF SetupSet, Goto, Enter, Finish, Ops, TypeOK, AcceptedInTime
  <1>16. ASSUME NEW h \in Handlers, VerifyRead(h)
        PROVE  AcceptedInTime
    BY <1>16 DEF VerifyRead, Goto, Enter, Finish, Ops, TypeOK, AcceptedInTime
  <1>17. ASSUME NEW h \in Handlers, VerifySet(h)
        PROVE  AcceptedInTime
    BY <1>17 DEF VerifySet, Goto, Enter, Finish, Ops, TypeOK, AcceptedInTime
  <1>18. ASSUME NEW h \in Handlers, DisableRead(h)
        PROVE  AcceptedInTime
    BY <1>18 DEF DisableRead, Goto, Enter, Finish, Ops, TypeOK, AcceptedInTime
  <1>19. ASSUME NEW h \in Handlers, DisableSet(h)
        PROVE  AcceptedInTime
    BY <1>19 DEF DisableSet, Goto, Enter, Finish, Ops, TypeOK, AcceptedInTime
  <1>20. ASSUME NEW h \in Handlers, ResetSet(h)
        PROVE  AcceptedInTime
    BY <1>20 DEF ResetSet, Goto, Enter, Finish, Ops, TypeOK, AcceptedInTime
  <1>21. ASSUME NEW h \in Handlers, ResetForget(h)
        PROVE  AcceptedInTime
    BY <1>21 DEF ResetForget, Goto, Enter, Finish, Ops, TypeOK, AcceptedInTime
  <1>22. ASSUME NEW h \in Handlers, ResetMark(h)
        PROVE  AcceptedInTime
    BY <1>22 DEF ResetMark, Goto, Enter, Finish, Ops, TypeOK, AcceptedInTime
  <1>23. ASSUME NEW a \in Accounts, AdminUpdate(a)
        PROVE  AcceptedInTime
    BY <1>23 DEF AdminUpdate, Goto, Enter, Finish, Ops, TypeOK, AcceptedInTime
  <1>24. ASSUME NEW a \in Accounts, AdminReset(a)
        PROVE  AcceptedInTime
    BY <1>24 DEF AdminReset, Goto, Enter, Finish, Ops, TypeOK, AcceptedInTime
  <1>25. ASSUME NEW a \in Accounts, DeleteForget(a)
        PROVE  AcceptedInTime
    BY <1>25 DEF DeleteForget, Goto, Enter, Finish, Ops, TypeOK,
       AcceptedInTime
  <1>26. ASSUME NEW a \in Accounts, Create(a)
        PROVE  AcceptedInTime
    BY <1>26 DEF Create, Goto, Enter, Finish, Ops, TypeOK, AcceptedInTime
  <1>27. ASSUME NEW a \in Accounts, ForgotPassword(a)
        PROVE  AcceptedInTime
    BY <1>27 DEF ForgotPassword, Goto, Enter, Finish, Ops, TypeOK,
       AcceptedInTime
  <1>28. ASSUME AdminForget
        PROVE  AcceptedInTime
    BY <1>28 DEF AdminForget, Goto, Enter, Finish, Ops, TypeOK, AcceptedInTime
  <1>29. ASSUME DeleteCommit
        PROVE  AcceptedInTime
    BY <1>29 DEF DeleteCommit, Goto, Enter, Finish, Ops, TypeOK,
       AcceptedInTime
  <1>30. ASSUME SetPolicy
        PROVE  AcceptedInTime
    BY <1>30 DEF SetPolicy, Goto, Enter, Finish, Ops, TypeOK, AcceptedInTime
  <1>31. ASSUME Tick
        PROVE  AcceptedInTime
    BY <1>31 DEF Tick, Goto, Enter, Finish, Ops, TypeOK, AcceptedInTime
  <1>32. ASSUME Restart
        PROVE  AcceptedInTime
    BY <1>32 DEF Restart, Goto, Enter, Finish, Ops, TypeOK, AcceptedInTime
  <1>33. CASE UNCHANGED vars
    BY <1>33 DEF vars, AcceptedInTime, Ops
  <1>. QED
    BY <1>1, <1>2, <1>3, <1>4, <1>5, <1>6, <1>7, <1>8, <1>9, <1>10, <1>11,
       <1>12, <1>13, <1>14, <1>15, <1>16, <1>17, <1>18, <1>19, <1>20, <1>21,
       <1>22, <1>23, <1>24, <1>25, <1>26, <1>27, <1>28, <1>29, <1>30, <1>31,
       <1>32, <1>33 DEF Next, LoginStep, UserStep, ResetStep, AdminStep

\* A session that its account's row refuses is not accepted longer than the
\* lifetime of a cached state.
THEOREM RefusalTakesEffect == Spec => RefusedWithinTtl
  <1>1. Init => CacheOK
    <2>1. Init => now = 1 /\ old = [a \in Accounts |-> now] /\ cache = {}
      BY DEF Init
    <2>. QED
      BY <2>1 DEF CacheOK
  <1>2. [AcceptedInTime]_vars <=>
           [\A h \in Handlers :
              (pc[h] \in {"idle", "store"} /\ pc'[h] \in Ops)
                 => LET s == loc'[h].ses
                    IN  \/ Honoured(s, StateOf(row[s.acc]))
                        \/ now - old'[s.acc] < Ttl]_vars
    BY DEF AcceptedInTime
  <1>. QED
    BY <1>1, <1>2, CacheStep, AcceptStep, TypeCorrect, PTL DEF Spec,
       RefusedWithinTtl

-----------------------------------------------------------------------------
(* Passwords.                                                                *)

\* An account that has a session, a mailed link or a request was created, and a
\* deleted one never returns.
Known(a) == row[a].status # "unborn"

KnownOK ==
    /\ \A s \in sessions : Known(s.acc) /\ s.iat <= now
    /\ \A a \in Accounts : link[a] # "none" => Known(a)
    /\ \A h \in Handlers : pc[h] # "idle" => Known(loc[h].acc)
    /\ adm.step = "commit" => Known(adm.acc)

\* A session that is honoured, and a request about to sign one, hold the password
\* that the row has.
Current(a, p) == p = row[a].pwd \/ a \in raced

PasswordOK ==
    /\ \A s \in sessions :
          (Present(s.acc) /\ s.iat > row[s.acc].revoked /\ s.via # "verify")
             => Current(s.acc, s.pwd)
    /\ \A h \in Handlers :
          (Signing(h) /\ Present(loc[h].acc)) => Current(loc[h].acc, loc[h].row.pwd)

\* Time goes on, and no account becomes unknown again.
Advances ==
    /\ now' \in Nat /\ now <= now'
    /\ \A b \in Accounts : Known(b) => Known(b)'

LEMMA KnownKept ==
    ASSUME TypeOK, KnownOK, Advances,
           \A s \in sessions' : s \in sessions \/ (Known(s.acc)' /\ s.iat = now'),
           \A a \in Accounts : link'[a] # "none" => link[a] # "none" \/ Known(a)',
           \A h \in Handlers : pc'[h] # "idle" =>
              Known(loc[h].acc)' \/ (pc[h] # "idle" /\ loc'[h].acc = loc[h].acc),
           adm'.step = "commit" =>
              Known(adm.acc)' \/ (adm.step = "commit" /\ adm'.acc = adm.acc)
    PROVE  KnownOK'
  <1>1. \A s \in sessions : s.acc \in Accounts /\ s.iat \in Nat /\ now \in Nat
    BY DEF TypeOK, Ses
  <1>2. \A h \in Handlers : pc[h] # "idle" => loc[h].acc \in Accounts
    BY DEF TypeOK, HandlerOK, Loc
  <1>3. adm.acc \in Accounts
    BY DEF TypeOK
  <1>4. \A s \in sessions' : Known(s.acc)' /\ s.iat <= now'
    BY <1>1 DEF KnownOK, Advances
  <1>5. \A a \in Accounts : link'[a] # "none" => Known(a)'
    BY DEF KnownOK, Advances
  <1>6. \A h \in Handlers : pc'[h] # "idle" => Known(loc[h].acc)'
    BY <1>2 DEF KnownOK, Advances
  <1>7. adm'.step = "commit" => Known(adm.acc)'
    BY <1>3 DEF KnownOK, Advances
  <1>. QED
    BY <1>4, <1>5, <1>6, <1>7 DEF KnownOK

\* The sessions that changePassword and twoFactorVerify sign.
Renewed(h) == [loc[h].ses EXCEPT !.iat = now, !.pending = FALSE, !.via = "change",
                                 !.pwd = loc[h].row.pwd]
Completed(h) == [loc[h].ses EXCEPT !.iat = now, !.pending = FALSE, !.mfa = TRUE,
                                   !.via = "verify"]

\* What a login begins with.
LEMMA LoginReadEffect ==
    ASSUME TypeOK, NEW h \in Handlers, NEW a \in Accounts, LoginRead(h, a)
    PROVE  /\ UNCHANGED <<row, link, sessions, adm, now, raced>>
           /\ Present(a) /\ Known(a)
           /\ pc'[h] \in {"upgrade", "sign", "spend"}
           /\ loc'[h].acc = a /\ loc'[h].row.pwd = row[a].pwd
           /\ \A i \in Handlers \ {h} : pc'[i] = pc[i] /\ loc'[i] = loc[i]
  <1>1. row[a] \in Row /\ row[a].status = "active"
    BY DEF TypeOK, LoginRead
  <1>. DEFINE r == [row[a] EXCEPT !.revoked = 0, !.secret = 0]
  <1>2. r.pwd = row[a].pwd
    BY <1>1 DEF Row
  <1>. DEFINE l == [op |-> "login", acc |-> a, ses |-> NoSes, lax |-> lax, row |-> r]
  <1>3. l.acc = a /\ l.row.pwd = row[a].pwd
    BY <1>2
  <1>4. \A c : [l EXCEPT !.row.codes = @ \ {c}].acc = a
             /\ [l EXCEPT !.row.codes = @ \ {c}].row.pwd = row[a].pwd
    BY <1>1 DEF Row
  <1>. DEFINE M == {l} \cup {[l EXCEPT !.row.codes = @ \ {c}] : c \in row[a].codes}
  <1>5. PICK m \in M : \E label \in {"upgrade", "sign", "spend"} : Enter(h, label, m)
    BY DEF LoginRead
  <1>6. m.acc = a /\ m.row.pwd = row[a].pwd
    <2>1. CASE m = l
      BY <2>1, <1>3
    <2>2. CASE m # l
      <3>1. PICK c \in row[a].codes : m = [l EXCEPT !.row.codes = @ \ {c}]
        BY <2>2, <1>5
      <3>. HIDE DEF l
      <3>. QED
        BY <1>4, <3>1
    <2>. QED
      BY <2>1, <2>2
  <1>7. UNCHANGED <<row, link, sessions, adm, now, raced>> /\ Present(a) /\ Known(a)
    BY <1>1 DEF LoginRead, Present, Known
  <1>. HIDE DEF l, M
  <1>. QED
    BY <1>5, <1>6, <1>7 DEF Enter, Goto, TypeOK

LEMMA KnownStep == TypeOK /\ KnownOK /\ [Next]_vars => KnownOK'
  <1>. SUFFICES ASSUME TypeOK, KnownOK, [Next]_vars PROVE KnownOK'
    OBVIOUS
  <1>1. ASSUME NEW h \in Handlers, NEW a \in Accounts, LoginRead(h, a)
        PROVE  KnownOK'
    <2>1. Known(a) /\ UNCHANGED <<row, link, sessions, adm, now>>
      BY <1>1, LoginReadEffect
    <2>2. Advances
      BY <1>1, <2>1 DEF Advances, Known, TypeOK
    <2>3. loc'[h].acc = a /\ \A i \in Handlers \ {h} : pc'[i] = pc[i] /\ loc'[i] = loc[i]
      BY <1>1, LoginReadEffect
    <2>. QED
      BY <1>1, <2>1, <2>2, <2>3, KnownKept DEF Known
  <1>2. ASSUME NEW h \in Handlers, NEW a \in Accounts, ResetCheck(h, a)
        PROVE  KnownOK'
    <2>1. Known(a)
      BY <1>2 DEF ResetCheck, KnownOK
    <2>2. Advances
      BY <1>2 DEF Advances, ResetCheck, Known, TypeOK, Write, SetPassword,
         NewPassword, Outdate, Began, GoneRow, NullRow, Row
    <2>3. \A t \in sessions' : t \in sessions \/ (Known(t.acc)' /\ t.iat = now')
      BY <1>2 DEF ResetCheck, Sign, Known, TypeOK, KnownOK, Present
    <2>4. \A i \in Handlers : pc'[i] # "idle" =>
             Known(loc[i].acc)' \/ (pc[i] # "idle" /\ loc'[i].acc = loc[i].acc)
      BY <1>2, <2>1, <2>2 DEF ResetCheck, Goto, Enter, Finish, Advances,
         Request, Known, TypeOK, KnownOK, Present
    <2>. QED
      BY <1>2, <2>2, <2>3, <2>4, KnownKept DEF ResetCheck, Known, KnownOK,
         Present, Began, TypeOK
  <1>3. ASSUME NEW h \in Handlers, NEW s \in sessions, NEW op \in Ops, AttachHit(h, s, op)
        PROVE  KnownOK'
    <2>1. s.acc \in Accounts /\ Known(s.acc)
      BY <1>3 DEF TypeOK, KnownOK, Ses
    <2>2. Advances
      BY <1>3, <2>1 DEF Advances, AttachHit, Known, TypeOK, Write,
         SetPassword, NewPassword, Outdate, Began, GoneRow, NullRow, Row
    <2>3. \A t \in sessions' : t \in sessions \/ (Known(t.acc)' /\ t.iat = now')
      BY <1>3, <2>1 DEF AttachHit, Sign, Known, TypeOK, KnownOK, Present
    <2>4. \A i \in Handlers : pc'[i] # "idle" =>
             Known(loc[i].acc)' \/ (pc[i] # "idle" /\ loc'[i].acc = loc[i].acc)
      BY <1>3, <2>1, <2>2 DEF AttachHit, Goto, Enter, Finish, Advances,
         Request, Known, TypeOK, KnownOK, Present
    <2>. QED
      BY <1>3, <2>2, <2>3, <2>4, KnownKept DEF AttachHit, Known, KnownOK,
         Present, Began, TypeOK
  <1>4. ASSUME NEW h \in Handlers, NEW s \in sessions, NEW op \in Ops \cup {"read"}, AttachLoad(h, s, op)
        PROVE  KnownOK'
    <2>1. s.acc \in Accounts /\ Known(s.acc)
      BY <1>4 DEF TypeOK, KnownOK, Ses
    <2>2. Advances
      BY <1>4, <2>1 DEF Advances, AttachLoad, Known, TypeOK, Write,
         SetPassword, NewPassword, Outdate, Began, GoneRow, NullRow, Row
    <2>3. \A t \in sessions' : t \in sessions \/ (Known(t.acc)' /\ t.iat = now')
      BY <1>4, <2>1 DEF AttachLoad, Sign, Known, TypeOK, KnownOK, Present
    <2>4. \A i \in Handlers : pc'[i] # "idle" =>
             Known(loc[i].acc)' \/ (pc[i] # "idle" /\ loc'[i].acc = loc[i].acc)
      BY <1>4, <2>1, <2>2 DEF AttachLoad, Goto, Enter, Finish, Advances,
         Request, Known, TypeOK, KnownOK, Present
    <2>. QED
      BY <1>4, <2>2, <2>3, <2>4, KnownKept DEF AttachLoad, Known, KnownOK,
         Present, Began, TypeOK
  <1>5. ASSUME NEW h \in Handlers, LoginSpend(h)
        PROVE  KnownOK'
    <2>1. loc[h].acc \in Accounts /\ row[loc[h].acc] \in Row /\ Known(loc[h].acc)
      BY <1>5 DEF TypeOK, HandlerOK, KnownOK, LoginSpend, Loc, Ops
    <2>2. Advances
      BY <1>5, <2>1 DEF Advances, LoginSpend, Known, TypeOK, Write,
         SetPassword, NewPassword, Outdate, Began, GoneRow, NullRow, Row
    <2>3. \A t \in sessions' : t \in sessions \/ (Known(t.acc)' /\ t.iat = now')
      BY <1>5, <2>1 DEF LoginSpend, Sign, Known, TypeOK, KnownOK, Present
    <2>4. \A i \in Handlers : pc'[i] # "idle" =>
             Known(loc[i].acc)' \/ (pc[i] # "idle" /\ loc'[i].acc = loc[i].acc)
      BY <1>5, <2>1, <2>2 DEF LoginSpend, Goto, Enter, Finish, Advances,
         Request, Known, TypeOK, KnownOK, Present
    <2>. QED
      BY <1>5, <2>2, <2>3, <2>4, KnownKept DEF LoginSpend, Known, KnownOK,
         Present, Began, TypeOK
  <1>6. ASSUME NEW h \in Handlers, LoginUpgrade(h)
        PROVE  KnownOK'
    <2>1. loc[h].acc \in Accounts /\ row[loc[h].acc] \in Row /\ Known(loc[h].acc)
      BY <1>6 DEF TypeOK, HandlerOK, KnownOK, LoginUpgrade, Loc, Ops
    <2>2. Advances
      BY <1>6, <2>1 DEF Advances, LoginUpgrade, Known, TypeOK, Write,
         SetPassword, NewPassword, Outdate, Began, GoneRow, NullRow, Row
    <2>3. \A t \in sessions' : t \in sessions \/ (Known(t.acc)' /\ t.iat = now')
      BY <1>6, <2>1 DEF LoginUpgrade, Sign, Known, TypeOK, KnownOK, Present
    <2>4. \A i \in Handlers : pc'[i] # "idle" =>
             Known(loc[i].acc)' \/ (pc[i] # "idle" /\ loc'[i].acc = loc[i].acc)
      BY <1>6, <2>1, <2>2 DEF LoginUpgrade, Goto, Enter, Finish, Advances,
         Request, Known, TypeOK, KnownOK, Present
    <2>. QED
      BY <1>6, <2>2, <2>3, <2>4, KnownKept DEF LoginUpgrade, Known, KnownOK,
         Present, Began, TypeOK
  <1>7. ASSUME NEW h \in Handlers, LoginSign(h)
        PROVE  KnownOK'
    <2>1. loc[h].acc \in Accounts /\ row[loc[h].acc] \in Row /\ Known(loc[h].acc)
      BY <1>7 DEF TypeOK, HandlerOK, KnownOK, LoginSign, Loc, Ops
    <2>2. Advances
      BY <1>7, <2>1 DEF Advances, LoginSign, Known, TypeOK, Write,
         SetPassword, NewPassword, Outdate, Began, GoneRow, NullRow, Row
    <2>3. \A t \in sessions' : t \in sessions \/ (Known(t.acc)' /\ t.iat = now')
      BY <1>7, <2>1 DEF LoginSign, Sign, Known, TypeOK, KnownOK, Present
    <2>4. \A i \in Handlers : pc'[i] # "idle" =>
             Known(loc[i].acc)' \/ (pc[i] # "idle" /\ loc'[i].acc = loc[i].acc)
      BY <1>7, <2>1, <2>2 DEF LoginSign, Goto, Enter, Finish, Advances,
         Request, Known, TypeOK, KnownOK, Present
    <2>. QED
      BY <1>7, <2>2, <2>3, <2>4, KnownKept DEF LoginSign, Known, KnownOK,
         Present, Began, TypeOK
  <1>8. ASSUME NEW h \in Handlers, AttachStore(h)
        PROVE  KnownOK'
    <2>1. loc[h].acc \in Accounts /\ row[loc[h].acc] \in Row /\ Known(loc[h].acc)
      BY <1>8 DEF TypeOK, HandlerOK, KnownOK, AttachStore, Loc, Ops
    <2>2. Request(loc[h].op, loc[h].ses).acc = loc[h].acc
      BY <1>8 DEF Request, AttachStore, TypeOK, HandlerOK
    <2>3. Advances
      BY <1>8, <2>1 DEF Advances, AttachStore, Known, TypeOK, Write,
         SetPassword, NewPassword, Outdate, Began, GoneRow, NullRow, Row
    <2>4. \A t \in sessions' : t \in sessions \/ (Known(t.acc)' /\ t.iat = now')
      BY <1>8, <2>1 DEF AttachStore, Sign, Known, TypeOK, KnownOK, Present
    <2>5. \A i \in Handlers : pc'[i] # "idle" =>
             Known(loc[i].acc)' \/ (pc[i] # "idle" /\ loc'[i].acc = loc[i].acc)
      BY <1>8, <2>1, <2>3, <2>2 DEF AttachStore, Goto, Enter, Finish,
         Advances, Known, TypeOK, KnownOK, Present
    <2>. QED
      BY <1>8, <2>3, <2>4, <2>5, KnownKept DEF AttachStore, Known, KnownOK,
         Present, Began, TypeOK
  <1>9. ASSUME NEW h \in Handlers, LogoutRevoke(h)
        PROVE  KnownOK'
    <2>1. loc[h].acc \in Accounts /\ row[loc[h].acc] \in Row /\ Known(loc[h].acc)
      BY <1>9 DEF TypeOK, HandlerOK, KnownOK, LogoutRevoke, Loc, Ops
    <2>2. Advances
      BY <1>9, <2>1 DEF Advances, LogoutRevoke, Known, TypeOK, Write,
         SetPassword, NewPassword, Outdate, Began, GoneRow, NullRow, Row
    <2>3. \A t \in sessions' : t \in sessions \/ (Known(t.acc)' /\ t.iat = now')
      BY <1>9, <2>1 DEF LogoutRevoke, Sign, Known, TypeOK, KnownOK, Present
    <2>4. \A i \in Handlers : pc'[i] # "idle" =>
             Known(loc[i].acc)' \/ (pc[i] # "idle" /\ loc'[i].acc = loc[i].acc)
      BY <1>9, <2>1, <2>2 DEF LogoutRevoke, Goto, Enter, Finish, Advances,
         Request, Known, TypeOK, KnownOK, Present
    <2>. QED
      BY <1>9, <2>2, <2>3, <2>4, KnownKept DEF LogoutRevoke, Known, KnownOK,
         Present, Began, TypeOK
  <1>10. ASSUME NEW h \in Handlers, LogoutForget(h)
        PROVE  KnownOK'
    <2>1. loc[h].acc \in Accounts /\ row[loc[h].acc] \in Row /\ Known(loc[h].acc)
      BY <1>10 DEF TypeOK, HandlerOK, KnownOK, LogoutForget, Loc, Ops
    <2>2. Advances
      BY <1>10, <2>1 DEF Advances, LogoutForget, Known, TypeOK, Write,
         SetPassword, NewPassword, Outdate, Began, GoneRow, NullRow, Row
    <2>3. \A t \in sessions' : t \in sessions \/ (Known(t.acc)' /\ t.iat = now')
      BY <1>10, <2>1 DEF LogoutForget, Sign, Known, TypeOK, KnownOK, Present
    <2>4. \A i \in Handlers : pc'[i] # "idle" =>
             Known(loc[i].acc)' \/ (pc[i] # "idle" /\ loc'[i].acc = loc[i].acc)
      BY <1>10, <2>1, <2>2 DEF LogoutForget, Goto, Enter, Finish, Advances,
         Request, Known, TypeOK, KnownOK, Present
    <2>. QED
      BY <1>10, <2>2, <2>3, <2>4, KnownKept DEF LogoutForget, Known, KnownOK,
         Present, Began, TypeOK
  <1>11. ASSUME NEW h \in Handlers, ChangeRead(h)
        PROVE  KnownOK'
    <2>1. loc[h].acc \in Accounts /\ row[loc[h].acc] \in Row /\ Known(loc[h].acc)
      BY <1>11 DEF TypeOK, HandlerOK, KnownOK, ChangeRead, Loc, Ops
    <2>2. Advances
      BY <1>11, <2>1 DEF Advances, ChangeRead, Known, TypeOK, Write,
         SetPassword, NewPassword, Outdate, Began, GoneRow, NullRow, Row
    <2>3. \A t \in sessions' : t \in sessions \/ (Known(t.acc)' /\ t.iat = now')
      BY <1>11, <2>1 DEF ChangeRead, Sign, Known, TypeOK, KnownOK, Present
    <2>4. \A i \in Handlers : pc'[i] # "idle" =>
             Known(loc[i].acc)' \/ (pc[i] # "idle" /\ loc'[i].acc = loc[i].acc)
      BY <1>11, <2>1, <2>2 DEF ChangeRead, Goto, Enter, Finish, Advances,
         Request, Known, TypeOK, KnownOK, Present
    <2>. QED
      BY <1>11, <2>2, <2>3, <2>4, KnownKept DEF ChangeRead, Known, KnownOK,
         Present, Began, TypeOK
  <1>12. ASSUME NEW h \in Handlers, ChangeSet(h)
        PROVE  KnownOK'
    <2>1. loc[h].acc \in Accounts /\ row[loc[h].acc] \in Row /\ Known(loc[h].acc)
      BY <1>12 DEF TypeOK, HandlerOK, KnownOK, ChangeSet, Loc, Ops
    <2>2. Advances
      BY <1>12, <2>1 DEF Advances, ChangeSet, Known, TypeOK, Write,
         SetPassword, NewPassword, Outdate, Began, GoneRow, NullRow, Row
    <2>3. \A t \in sessions' : t \in sessions \/ (Known(t.acc)' /\ t.iat = now')
      BY <1>12, <2>1 DEF ChangeSet, Sign, Known, TypeOK, KnownOK, Present
    <2>4. \A i \in Handlers : pc'[i] # "idle" =>
             Known(loc[i].acc)' \/ (pc[i] # "idle" /\ loc'[i].acc = loc[i].acc)
      BY <1>12, <2>1, <2>2 DEF ChangeSet, Goto, Enter, Finish, Advances,
         Request, Known, TypeOK, KnownOK, Present
    <2>. QED
      BY <1>12, <2>2, <2>3, <2>4, KnownKept DEF ChangeSet, Known, KnownOK,
         Present, Began, TypeOK
  <1>13. ASSUME NEW h \in Handlers, ChangeSign(h)
        PROVE  KnownOK'
    <2>1. loc[h].acc \in Accounts /\ row[loc[h].acc] \in Row /\ Known(loc[h].acc)
      BY <1>13 DEF TypeOK, HandlerOK, KnownOK, ChangeSign, Loc, Ops
    <2>2. Advances
      BY <1>13, <2>1 DEF Advances, ChangeSign, Known, TypeOK, Write,
         SetPassword, NewPassword, Outdate, Began, GoneRow, NullRow, Row
    <2>3. /\ sessions' \subseteq sessions \cup {Renewed(h)}
          /\ Renewed(h).acc = loc[h].acc
          /\ Renewed(h).iat = now
      BY <1>13 DEF ChangeSign, Sign, TypeOK, HandlerOK, Ses, Renewed,
         Completed
    <2>4. \A t \in sessions' : t \in sessions \/ (Known(t.acc)' /\ t.iat = now')
      BY <1>13, <2>1, <2>2, <2>3 DEF Advances, TypeOK, ChangeSign
    <2>5. \A i \in Handlers : pc'[i] # "idle" =>
             Known(loc[i].acc)' \/ (pc[i] # "idle" /\ loc'[i].acc = loc[i].acc)
      BY <1>13, <2>1, <2>2 DEF ChangeSign, Goto, Enter, Finish, Advances,
         Request, Known, TypeOK, KnownOK, Present
    <2>. QED
      BY <1>13, <2>2, <2>4, <2>5, KnownKept DEF ChangeSign, Known, KnownOK,
         Present, Began, TypeOK
  <1>14. ASSUME NEW h \in Handlers, SetupRead(h)
        PROVE  KnownOK'
    <2>1. loc[h].acc \in Accounts /\ row[loc[h].acc] \in Row /\ Known(loc[h].acc)
      BY <1>14 DEF TypeOK, HandlerOK, KnownOK, SetupRead, Loc, Ops
    <2>2. Advances
      BY <1>14, <2>1 DEF Advances, SetupRead, Known, TypeOK, Write,
         SetPassword, NewPassword, Outdate, Began, GoneRow, NullRow, Row
    <2>3. \A t \in sessions' : t \in sessions \/ (Known(t.acc)' /\ t.iat = now')
      BY <1>14, <2>1 DEF SetupRead, Sign, Known, TypeOK, KnownOK, Present
    <2>4. \A i \in Handlers : pc'[i] # "idle" =>
             Known(loc[i].acc)' \/ (pc[i] # "idle" /\ loc'[i].acc = loc[i].acc)
      BY <1>14, <2>1, <2>2 DEF SetupRead, Goto, Enter, Finish, Advances,
         Request, Known, TypeOK, KnownOK, Present
    <2>. QED
      BY <1>14, <2>2, <2>3, <2>4, KnownKept DEF SetupRead, Known, KnownOK,
         Present, Began, TypeOK
  <1>15. ASSUME NEW h \in Handlers, SetupSet(h)
        PROVE  KnownOK'
    <2>1. loc[h].acc \in Accounts /\ row[loc[h].acc] \in Row /\ Known(loc[h].acc)
      BY <1>15 DEF TypeOK, HandlerOK, KnownOK, SetupSet, Loc, Ops
    <2>2. Advances
      BY <1>15, <2>1 DEF Advances, SetupSet, Known, TypeOK, Write,
         SetPassword, NewPassword, Outdate, Began, GoneRow, NullRow, Row
    <2>3. \A t \in sessions' : t \in sessions \/ (Known(t.acc)' /\ t.iat = now')
      BY <1>15, <2>1 DEF SetupSet, Sign, Known, TypeOK, KnownOK, Present
    <2>4. \A i \in Handlers : pc'[i] # "idle" =>
             Known(loc[i].acc)' \/ (pc[i] # "idle" /\ loc'[i].acc = loc[i].acc)
      BY <1>15, <2>1, <2>2 DEF SetupSet, Goto, Enter, Finish, Advances,
         Request, Known, TypeOK, KnownOK, Present
    <2>. QED
      BY <1>15, <2>2, <2>3, <2>4, KnownKept DEF SetupSet, Known, KnownOK,
         Present, Began, TypeOK
  <1>16. ASSUME NEW h \in Handlers, VerifyRead(h)
        PROVE  KnownOK'
    <2>1. loc[h].acc \in Accounts /\ row[loc[h].acc] \in Row /\ Known(loc[h].acc)
      BY <1>16 DEF TypeOK, HandlerOK, KnownOK, VerifyRead, Loc, Ops
    <2>2. Advances
      BY <1>16, <2>1 DEF Advances, VerifyRead, Known, TypeOK, Write,
         SetPassword, NewPassword, Outdate, Began, GoneRow, NullRow, Row
    <2>3. \A t \in sessions' : t \in sessions \/ (Known(t.acc)' /\ t.iat = now')
      BY <1>16, <2>1 DEF VerifyRead, Sign, Known, TypeOK, KnownOK, Present
    <2>4. \A i \in Handlers : pc'[i] # "idle" =>
             Known(loc[i].acc)' \/ (pc[i] # "idle" /\ loc'[i].acc = loc[i].acc)
      BY <1>16, <2>1, <2>2 DEF VerifyRead, Goto, Enter, Finish, Advances,
         Request, Known, TypeOK, KnownOK, Present
    <2>. QED
      BY <1>16, <2>2, <2>3, <2>4, KnownKept DEF VerifyRead, Known, KnownOK,
         Present, Began, TypeOK
  <1>17. ASSUME NEW h \in Handlers, VerifySet(h)
        PROVE  KnownOK'
    <2>1. loc[h].acc \in Accounts /\ row[loc[h].acc] \in Row /\ Known(loc[h].acc)
      BY <1>17 DEF TypeOK, HandlerOK, KnownOK, VerifySet, Loc, Ops
    <2>2. Advances
      BY <1>17, <2>1 DEF Advances, VerifySet, Known, TypeOK, Write,
         SetPassword, NewPassword, Outdate, Began, GoneRow, NullRow, Row
    <2>3. /\ sessions' \subseteq sessions \cup {Completed(h)}
          /\ Completed(h).acc = loc[h].acc
          /\ Completed(h).iat = now
      BY <1>17 DEF VerifySet, Sign, TypeOK, HandlerOK, Ses, Renewed, Completed
    <2>4. \A t \in sessions' : t \in sessions \/ (Known(t.acc)' /\ t.iat = now')
      BY <1>17, <2>1, <2>2, <2>3 DEF Advances, TypeOK, VerifySet
    <2>5. \A i \in Handlers : pc'[i] # "idle" =>
             Known(loc[i].acc)' \/ (pc[i] # "idle" /\ loc'[i].acc = loc[i].acc)
      BY <1>17, <2>1, <2>2 DEF VerifySet, Goto, Enter, Finish, Advances,
         Request, Known, TypeOK, KnownOK, Present
    <2>. QED
      BY <1>17, <2>2, <2>4, <2>5, KnownKept DEF VerifySet, Known, KnownOK,
         Present, Began, TypeOK
  <1>18. ASSUME NEW h \in Handlers, DisableRead(h)
        PROVE  KnownOK'
    <2>1. loc[h].acc \in Accounts /\ row[loc[h].acc] \in Row /\ Known(loc[h].acc)
      BY <1>18 DEF TypeOK, HandlerOK, KnownOK, DisableRead, Loc, Ops
    <2>2. Advances
      BY <1>18, <2>1 DEF Advances, DisableRead, Known, TypeOK, Write,
         SetPassword, NewPassword, Outdate, Began, GoneRow, NullRow, Row
    <2>3. \A t \in sessions' : t \in sessions \/ (Known(t.acc)' /\ t.iat = now')
      BY <1>18, <2>1 DEF DisableRead, Sign, Known, TypeOK, KnownOK, Present
    <2>4. \A i \in Handlers : pc'[i] # "idle" =>
             Known(loc[i].acc)' \/ (pc[i] # "idle" /\ loc'[i].acc = loc[i].acc)
      BY <1>18, <2>1, <2>2 DEF DisableRead, Goto, Enter, Finish, Advances,
         Request, Known, TypeOK, KnownOK, Present
    <2>. QED
      BY <1>18, <2>2, <2>3, <2>4, KnownKept DEF DisableRead, Known, KnownOK,
         Present, Began, TypeOK
  <1>19. ASSUME NEW h \in Handlers, DisableSet(h)
        PROVE  KnownOK'
    <2>1. loc[h].acc \in Accounts /\ row[loc[h].acc] \in Row /\ Known(loc[h].acc)
      BY <1>19 DEF TypeOK, HandlerOK, KnownOK, DisableSet, Loc, Ops
    <2>2. Advances
      BY <1>19, <2>1 DEF Advances, DisableSet, Known, TypeOK, Write,
         SetPassword, NewPassword, Outdate, Began, GoneRow, NullRow, Row
    <2>3. \A t \in sessions' : t \in sessions \/ (Known(t.acc)' /\ t.iat = now')
      BY <1>19, <2>1 DEF DisableSet, Sign, Known, TypeOK, KnownOK, Present
    <2>4. \A i \in Handlers : pc'[i] # "idle" =>
             Known(loc[i].acc)' \/ (pc[i] # "idle" /\ loc'[i].acc = loc[i].acc)
      BY <1>19, <2>1, <2>2 DEF DisableSet, Goto, Enter, Finish, Advances,
         Request, Known, TypeOK, KnownOK, Present
    <2>. QED
      BY <1>19, <2>2, <2>3, <2>4, KnownKept DEF DisableSet, Known, KnownOK,
         Present, Began, TypeOK
  <1>20. ASSUME NEW h \in Handlers, ResetSet(h)
        PROVE  KnownOK'
    <2>1. loc[h].acc \in Accounts /\ row[loc[h].acc] \in Row /\ Known(loc[h].acc)
      BY <1>20 DEF TypeOK, HandlerOK, KnownOK, ResetSet, Loc, Ops
    <2>2. Advances
      BY <1>20, <2>1 DEF Advances, ResetSet, Known, TypeOK, Write,
         SetPassword, NewPassword, Outdate, Began, GoneRow, NullRow, Row
    <2>3. \A t \in sessions' : t \in sessions \/ (Known(t.acc)' /\ t.iat = now')
      BY <1>20, <2>1 DEF ResetSet, Sign, Known, TypeOK, KnownOK, Present
    <2>4. \A i \in Handlers : pc'[i] # "idle" =>
             Known(loc[i].acc)' \/ (pc[i] # "idle" /\ loc'[i].acc = loc[i].acc)
      BY <1>20, <2>1, <2>2 DEF ResetSet, Goto, Enter, Finish, Advances,
         Request, Known, TypeOK, KnownOK, Present
    <2>. QED
      BY <1>20, <2>2, <2>3, <2>4, KnownKept DEF ResetSet, Known, KnownOK,
         Present, Began, TypeOK
  <1>21. ASSUME NEW h \in Handlers, ResetForget(h)
        PROVE  KnownOK'
    <2>1. loc[h].acc \in Accounts /\ row[loc[h].acc] \in Row /\ Known(loc[h].acc)
      BY <1>21 DEF TypeOK, HandlerOK, KnownOK, ResetForget, Loc, Ops
    <2>2. Advances
      BY <1>21, <2>1 DEF Advances, ResetForget, Known, TypeOK, Write,
         SetPassword, NewPassword, Outdate, Began, GoneRow, NullRow, Row
    <2>3. \A t \in sessions' : t \in sessions \/ (Known(t.acc)' /\ t.iat = now')
      BY <1>21, <2>1 DEF ResetForget, Sign, Known, TypeOK, KnownOK, Present
    <2>4. \A i \in Handlers : pc'[i] # "idle" =>
             Known(loc[i].acc)' \/ (pc[i] # "idle" /\ loc'[i].acc = loc[i].acc)
      BY <1>21, <2>1, <2>2 DEF ResetForget, Goto, Enter, Finish, Advances,
         Request, Known, TypeOK, KnownOK, Present
    <2>. QED
      BY <1>21, <2>2, <2>3, <2>4, KnownKept DEF ResetForget, Known, KnownOK,
         Present, Began, TypeOK
  <1>22. ASSUME NEW h \in Handlers, ResetMark(h)
        PROVE  KnownOK'
    <2>1. loc[h].acc \in Accounts /\ row[loc[h].acc] \in Row /\ Known(loc[h].acc)
      BY <1>22 DEF TypeOK, HandlerOK, KnownOK, ResetMark, Loc, Ops
    <2>2. Advances
      BY <1>22, <2>1 DEF Advances, ResetMark, Known, TypeOK, Write,
         SetPassword, NewPassword, Outdate, Began, GoneRow, NullRow, Row
    <2>3. \A t \in sessions' : t \in sessions \/ (Known(t.acc)' /\ t.iat = now')
      BY <1>22, <2>1 DEF ResetMark, Sign, Known, TypeOK, KnownOK, Present
    <2>4. \A i \in Handlers : pc'[i] # "idle" =>
             Known(loc[i].acc)' \/ (pc[i] # "idle" /\ loc'[i].acc = loc[i].acc)
      BY <1>22, <2>1, <2>2 DEF ResetMark, Goto, Enter, Finish, Advances,
         Request, Known, TypeOK, KnownOK, Present
    <2>. QED
      BY <1>22, <2>2, <2>3, <2>4, KnownKept DEF ResetMark, Known, KnownOK,
         Present, Began, TypeOK
  <1>23. ASSUME NEW a \in Accounts, AdminUpdate(a)
        PROVE  KnownOK'
    <2>1. \A b \in Accounts : Known(b) => Known(b)'
      BY <1>23, AdminUpdateEffect DEF Known
    <2>2. Advances
      BY <1>23, <2>1 DEF Advances, AdminUpdate, TypeOK
    <2>3. UNCHANGED <<sessions, link, pc, loc>> /\ adm'.step = "forget"
      BY <1>23 DEF AdminUpdate, Began
    <2>. QED
      BY <1>23, <2>2, <2>3, KnownKept
  <1>24. ASSUME NEW a \in Accounts, AdminReset(a)
        PROVE  KnownOK'
    <2>1. Advances
      BY <1>24 DEF Advances, AdminReset, Known, TypeOK, Write, SetPassword,
         NewPassword, Outdate, Began, GoneRow, NullRow, Row
    <2>2. \A t \in sessions' : t \in sessions \/ (Known(t.acc)' /\ t.iat = now')
      BY <1>24 DEF AdminReset, Sign, Known, TypeOK, KnownOK, Present
    <2>3. \A i \in Handlers : pc'[i] # "idle" =>
             Known(loc[i].acc)' \/ (pc[i] # "idle" /\ loc'[i].acc = loc[i].acc)
      BY <1>24, <2>1 DEF AdminReset, Goto, Enter, Finish, Advances, Request,
         Known, TypeOK, KnownOK, Present
    <2>. QED
      BY <1>24, <2>1, <2>2, <2>3, KnownKept DEF AdminReset, Known, KnownOK,
         Present, Began, TypeOK
  <1>25. ASSUME NEW a \in Accounts, DeleteForget(a)
        PROVE  KnownOK'
    <2>1. Advances
      BY <1>25 DEF Advances, DeleteForget, Known, TypeOK, Write, SetPassword,
         NewPassword, Outdate, Began, GoneRow, NullRow, Row
    <2>2. \A t \in sessions' : t \in sessions \/ (Known(t.acc)' /\ t.iat = now')
      BY <1>25 DEF DeleteForget, Sign, Known, TypeOK, KnownOK, Present
    <2>3. \A i \in Handlers : pc'[i] # "idle" =>
             Known(loc[i].acc)' \/ (pc[i] # "idle" /\ loc'[i].acc = loc[i].acc)
      BY <1>25, <2>1 DEF DeleteForget, Goto, Enter, Finish, Advances, Request,
         Known, TypeOK, KnownOK, Present
    <2>. QED
      BY <1>25, <2>1, <2>2, <2>3, KnownKept DEF DeleteForget, Known, KnownOK,
         Present, Began, TypeOK
  <1>26. ASSUME NEW a \in Accounts, Create(a)
        PROVE  KnownOK'
    <2>1. Advances
      BY <1>26 DEF Advances, Create, Known, TypeOK, Write, SetPassword,
         NewPassword, Outdate, Began, GoneRow, NullRow, Row
    <2>2. \A t \in sessions' : t \in sessions \/ (Known(t.acc)' /\ t.iat = now')
      BY <1>26 DEF Create, Sign, Known, TypeOK, KnownOK, Present
    <2>3. \A i \in Handlers : pc'[i] # "idle" =>
             Known(loc[i].acc)' \/ (pc[i] # "idle" /\ loc'[i].acc = loc[i].acc)
      BY <1>26, <2>1 DEF Create, Goto, Enter, Finish, Advances, Request,
         Known, TypeOK, KnownOK, Present
    <2>. QED
      BY <1>26, <2>1, <2>2, <2>3, KnownKept DEF Create, Known, KnownOK,
         Present, Began, TypeOK
  <1>27. ASSUME NEW a \in Accounts, ForgotPassword(a)
        PROVE  KnownOK'
    <2>1. Advances
      BY <1>27 DEF Advances, ForgotPassword, Known, TypeOK, Write,
         SetPassword, NewPassword, Outdate, Began, GoneRow, NullRow, Row
    <2>2. \A t \in sessions' : t \in sessions \/ (Known(t.acc)' /\ t.iat = now')
      BY <1>27 DEF ForgotPassword, Sign, Known, TypeOK, KnownOK, Present
    <2>3. \A i \in Handlers : pc'[i] # "idle" =>
             Known(loc[i].acc)' \/ (pc[i] # "idle" /\ loc'[i].acc = loc[i].acc)
      BY <1>27, <2>1 DEF ForgotPassword, Goto, Enter, Finish, Advances,
         Request, Known, TypeOK, KnownOK, Present
    <2>. QED
      BY <1>27, <2>1, <2>2, <2>3, KnownKept DEF ForgotPassword, Known,
         KnownOK, Present, Began, TypeOK
  <1>28. ASSUME AdminForget
        PROVE  KnownOK'
    <2>1. Advances
      BY <1>28 DEF Advances, AdminForget, Known, TypeOK, Write, SetPassword,
         NewPassword, Outdate, Began, GoneRow, NullRow, Row
    <2>2. \A t \in sessions' : t \in sessions \/ (Known(t.acc)' /\ t.iat = now')
      BY <1>28 DEF AdminForget, Sign, Known, TypeOK, KnownOK, Present
    <2>3. \A i \in Handlers : pc'[i] # "idle" =>
             Known(loc[i].acc)' \/ (pc[i] # "idle" /\ loc'[i].acc = loc[i].acc)
      BY <1>28, <2>1 DEF AdminForget, Goto, Enter, Finish, Advances, Request,
         Known, TypeOK, KnownOK, Present
    <2>. QED
      BY <1>28, <2>1, <2>2, <2>3, KnownKept DEF AdminForget, Known, KnownOK,
         Present, Began, TypeOK
  <1>29. ASSUME DeleteCommit
        PROVE  KnownOK'
    <2>1. Advances
      BY <1>29 DEF Advances, DeleteCommit, Known, TypeOK, Write, SetPassword,
         NewPassword, Outdate, Began, GoneRow, NullRow, Row
    <2>2. \A t \in sessions' : t \in sessions \/ (Known(t.acc)' /\ t.iat = now')
      BY <1>29 DEF DeleteCommit, Sign, Known, TypeOK, KnownOK, Present
    <2>3. \A i \in Handlers : pc'[i] # "idle" =>
             Known(loc[i].acc)' \/ (pc[i] # "idle" /\ loc'[i].acc = loc[i].acc)
      BY <1>29, <2>1 DEF DeleteCommit, Goto, Enter, Finish, Advances, Request,
         Known, TypeOK, KnownOK, Present
    <2>. QED
      BY <1>29, <2>1, <2>2, <2>3, KnownKept DEF DeleteCommit, Known, KnownOK,
         Present, Began, TypeOK
  <1>30. ASSUME SetPolicy
        PROVE  KnownOK'
    <2>1. Advances
      BY <1>30 DEF Advances, SetPolicy, Known, TypeOK, Write, SetPassword,
         NewPassword, Outdate, Began, GoneRow, NullRow, Row
    <2>2. \A t \in sessions' : t \in sessions \/ (Known(t.acc)' /\ t.iat = now')
      BY <1>30 DEF SetPolicy, Sign, Known, TypeOK, KnownOK, Present
    <2>3. \A i \in Handlers : pc'[i] # "idle" =>
             Known(loc[i].acc)' \/ (pc[i] # "idle" /\ loc'[i].acc = loc[i].acc)
      BY <1>30, <2>1 DEF SetPolicy, Goto, Enter, Finish, Advances, Request,
         Known, TypeOK, KnownOK, Present
    <2>. QED
      BY <1>30, <2>1, <2>2, <2>3, KnownKept DEF SetPolicy, Known, KnownOK,
         Present, Began, TypeOK
  <1>31. ASSUME Tick
        PROVE  KnownOK'
    <2>1. Advances
      BY <1>31 DEF Advances, Tick, Known, TypeOK, Write, SetPassword,
         NewPassword, Outdate, Began, GoneRow, NullRow, Row
    <2>2. \A t \in sessions' : t \in sessions \/ (Known(t.acc)' /\ t.iat = now')
      BY <1>31 DEF Tick, Sign, Known, TypeOK, KnownOK, Present
    <2>3. \A i \in Handlers : pc'[i] # "idle" =>
             Known(loc[i].acc)' \/ (pc[i] # "idle" /\ loc'[i].acc = loc[i].acc)
      BY <1>31, <2>1 DEF Tick, Goto, Enter, Finish, Advances, Request, Known,
         TypeOK, KnownOK, Present
    <2>. QED
      BY <1>31, <2>1, <2>2, <2>3, KnownKept DEF Tick, Known, KnownOK, Present,
         Began, TypeOK
  <1>32. ASSUME Restart
        PROVE  KnownOK'
    <2>1. Advances
      BY <1>32 DEF Advances, Restart, Known, TypeOK, Write, SetPassword,
         NewPassword, Outdate, Began, GoneRow, NullRow, Row
    <2>2. \A t \in sessions' : t \in sessions \/ (Known(t.acc)' /\ t.iat = now')
      BY <1>32 DEF Restart, Sign, Known, TypeOK, KnownOK, Present
    <2>3. \A i \in Handlers : pc'[i] # "idle" =>
             Known(loc[i].acc)' \/ (pc[i] # "idle" /\ loc'[i].acc = loc[i].acc)
      BY <1>32, <2>1 DEF Restart, Goto, Enter, Finish, Advances, Request,
         Known, TypeOK, KnownOK, Present
    <2>. QED
      BY <1>32, <2>1, <2>2, <2>3, KnownKept DEF Restart, Known, KnownOK,
         Present, Began, TypeOK
  <1>33. CASE UNCHANGED vars
    BY <1>33, KnownKept DEF vars, Advances, Known, TypeOK
  <1>. QED
    BY <1>1, <1>2, <1>3, <1>4, <1>5, <1>6, <1>7, <1>8, <1>9, <1>10, <1>11,
       <1>12, <1>13, <1>14, <1>15, <1>16, <1>17, <1>18, <1>19, <1>20, <1>21,
       <1>22, <1>23, <1>24, <1>25, <1>26, <1>27, <1>28, <1>29, <1>30, <1>31,
       <1>32, <1>33 DEF Next, LoginStep, UserStep, ResetStep, AdminStep

PasswordKept ==
    /\ raced \subseteq raced'
    /\ \A b \in Accounts : (Known(b) /\ Present(b)') =>
          /\ Present(b)
          /\ \/ row'[b].revoked = now
             \/ /\ row'[b].revoked = row[b].revoked
                /\ row'[b].pwd = row[b].pwd \/ b \in raced'
    /\ \A s \in sessions' :
          \/ s \in sessions \/ s.via = "verify"
          \/ Present(s.acc)' => Current(s.acc, s.pwd)'
    /\ \A i \in Handlers : (Signing(i)' /\ Present(loc[i].acc)') =>
          \/ /\ Signing(i) /\ loc'[i].acc = loc[i].acc
             /\ loc'[i].row.pwd = loc[i].row.pwd
             /\ row'[loc[i].acc].pwd = row[loc[i].acc].pwd
          \/ Current(loc[i].acc, loc[i].row.pwd)'

LEMMA PasswordKeeps ==
    ASSUME TypeOK, KnownOK, PasswordOK, PasswordKept
    PROVE  PasswordOK'
  <1>1. ASSUME NEW s \in sessions', Present(s.acc)', s.iat > row'[s.acc].revoked,
               s.via # "verify"
        PROVE  Current(s.acc, s.pwd)'
    <2>1. CASE s \notin sessions
      BY <1>1, <2>1 DEF PasswordKept
    <2>2. CASE s \in sessions
      <3>1. s.acc \in Accounts /\ Known(s.acc) /\ s.iat <= now /\ s.iat \in Nat /\ now \in Nat
        BY <2>2 DEF TypeOK, Ses, KnownOK
      <3>2. /\ Present(s.acc) /\ row'[s.acc].revoked = row[s.acc].revoked
            /\ row'[s.acc].pwd = row[s.acc].pwd \/ s.acc \in raced'
        BY <1>1, <3>1 DEF PasswordKept
      <3>3. Current(s.acc, s.pwd)
        BY <1>1, <2>2, <3>2 DEF PasswordOK
      <3>. QED
        BY <3>2, <3>3 DEF Current, PasswordKept
    <2>. QED
      BY <2>1, <2>2
  <1>2. ASSUME NEW i \in Handlers, Signing(i)', Present(loc[i].acc)'
        PROVE  Current(loc[i].acc, loc[i].row.pwd)'
    <2>1. CASE /\ Signing(i) /\ loc'[i].acc = loc[i].acc
               /\ loc'[i].row.pwd = loc[i].row.pwd
               /\ row'[loc[i].acc].pwd = row[loc[i].acc].pwd
      <3>1. pc[i] # "idle" /\ loc[i].acc \in Accounts /\ Known(loc[i].acc)
        BY <2>1 DEF Signing, TypeOK, HandlerOK, Loc, KnownOK
      <3>2. Present(loc[i].acc)
        BY <1>2, <2>1, <3>1 DEF PasswordKept
      <3>. QED
        BY <2>1, <3>2 DEF PasswordOK, PasswordKept, Current
    <2>. QED
      BY <1>2, <2>1 DEF PasswordKept
  <1>. QED
    BY <1>1, <1>2 DEF PasswordOK

LEMMA PasswordStep == TypeOK /\ KnownOK /\ PasswordOK /\ [Next]_vars => PasswordOK'
  <1>. SUFFICES ASSUME TypeOK, KnownOK, PasswordOK, [Next]_vars PROVE PasswordOK'
    OBVIOUS
  <1>1. ASSUME NEW h \in Handlers, NEW a \in Accounts, LoginRead(h, a)
        PROVE  PasswordOK'
    <2>1. UNCHANGED <<row, sessions, raced>> /\ Present(a)
      BY <1>1, LoginReadEffect
    <2>2. /\ loc'[h].acc = a /\ loc'[h].row.pwd = row[a].pwd
          /\ \A i \in Handlers \ {h} : pc'[i] = pc[i] /\ loc'[i] = loc[i]
      BY <1>1, LoginReadEffect
    <2>. QED
      BY <1>1, <2>1, <2>2, PasswordKeeps DEF PasswordKept, Present, Signing,
         Current
  <1>2. ASSUME NEW h \in Handlers, NEW a \in Accounts, ResetCheck(h, a)
        PROVE  PasswordOK'
    <2>1. \A b \in Accounts : (Known(b) /\ Present(b)') =>
             /\ Present(b)
             /\ \/ row'[b].revoked = now
                \/ /\ row'[b].revoked = row[b].revoked
                   /\ row'[b].pwd = row[b].pwd \/ b \in raced'
      BY <1>2 DEF ResetCheck, Present, TypeOK
    <2>2. \A t \in sessions' :
             \/ t \in sessions \/ t.via = "verify"
             \/ Present(t.acc)' => Current(t.acc, t.pwd)'
      BY <1>2 DEF ResetCheck, Sign, Current, PasswordOK, Signing, TypeOK
    <2>3. \A i \in Handlers : (Signing(i)' /\ Present(loc[i].acc)') =>
             \/ /\ Signing(i) /\ loc'[i].acc = loc[i].acc
                /\ loc'[i].row.pwd = loc[i].row.pwd
                /\ row'[loc[i].acc].pwd = row[loc[i].acc].pwd
             \/ Current(loc[i].acc, loc[i].row.pwd)'
      BY <1>2 DEF ResetCheck, Goto, Enter, Finish, Signing, Current,
         PasswordOK, Present, TypeOK, Ops
    <2>. QED
      BY <1>2, <2>1, <2>2, <2>3, PasswordKeeps DEF PasswordKept, ResetCheck
  <1>3. ASSUME NEW h \in Handlers, NEW s \in sessions, NEW op \in Ops, AttachHit(h, s, op)
        PROVE  PasswordOK'
    <2>1. \A b \in Accounts : (Known(b) /\ Present(b)') =>
             /\ Present(b)
             /\ \/ row'[b].revoked = now
                \/ /\ row'[b].revoked = row[b].revoked
                   /\ row'[b].pwd = row[b].pwd \/ b \in raced'
      BY <1>3 DEF AttachHit, Present, TypeOK
    <2>2. \A t \in sessions' :
             \/ t \in sessions \/ t.via = "verify"
             \/ Present(t.acc)' => Current(t.acc, t.pwd)'
      BY <1>3 DEF AttachHit, Sign, Current, PasswordOK, Signing, TypeOK
    <2>3. \A i \in Handlers : (Signing(i)' /\ Present(loc[i].acc)') =>
             \/ /\ Signing(i) /\ loc'[i].acc = loc[i].acc
                /\ loc'[i].row.pwd = loc[i].row.pwd
                /\ row'[loc[i].acc].pwd = row[loc[i].acc].pwd
             \/ Current(loc[i].acc, loc[i].row.pwd)'
      BY <1>3 DEF AttachHit, Goto, Enter, Finish, Signing, Current,
         PasswordOK, Present, TypeOK, Ops
    <2>. QED
      BY <1>3, <2>1, <2>2, <2>3, PasswordKeeps DEF PasswordKept, AttachHit
  <1>4. ASSUME NEW h \in Handlers, NEW s \in sessions, NEW op \in Ops \cup {"read"}, AttachLoad(h, s, op)
        PROVE  PasswordOK'
    <2>1. \A b \in Accounts : (Known(b) /\ Present(b)') =>
             /\ Present(b)
             /\ \/ row'[b].revoked = now
                \/ /\ row'[b].revoked = row[b].revoked
                   /\ row'[b].pwd = row[b].pwd \/ b \in raced'
      BY <1>4 DEF AttachLoad, Present, TypeOK
    <2>2. \A t \in sessions' :
             \/ t \in sessions \/ t.via = "verify"
             \/ Present(t.acc)' => Current(t.acc, t.pwd)'
      BY <1>4 DEF AttachLoad, Sign, Current, PasswordOK, Signing, TypeOK
    <2>3. \A i \in Handlers : (Signing(i)' /\ Present(loc[i].acc)') =>
             \/ /\ Signing(i) /\ loc'[i].acc = loc[i].acc
                /\ loc'[i].row.pwd = loc[i].row.pwd
                /\ row'[loc[i].acc].pwd = row[loc[i].acc].pwd
             \/ Current(loc[i].acc, loc[i].row.pwd)'
      BY <1>4 DEF AttachLoad, Goto, Enter, Finish, Signing, Current,
         PasswordOK, Present, TypeOK, Ops
    <2>. QED
      BY <1>4, <2>1, <2>2, <2>3, PasswordKeeps DEF PasswordKept, AttachLoad
  <1>5. ASSUME NEW h \in Handlers, LoginSpend(h)
        PROVE  PasswordOK'
    <2>1. loc[h].acc \in Accounts /\ row[loc[h].acc] \in Row
      BY <1>5 DEF TypeOK, HandlerOK, LoginSpend, Loc, Ops
    <2>2. \A b \in Accounts : (Known(b) /\ Present(b)') =>
             /\ Present(b)
             /\ \/ row'[b].revoked = now
                \/ /\ row'[b].revoked = row[b].revoked
                   /\ row'[b].pwd = row[b].pwd \/ b \in raced'
      BY <1>5, <2>1 DEF LoginSpend, Present, Known, Current, PasswordOK,
         Signing, TypeOK, Row, Write, SetPassword, NewPassword, GoneRow,
         NullRow
    <2>3. \A t \in sessions' :
             \/ t \in sessions \/ t.via = "verify"
             \/ Present(t.acc)' => Current(t.acc, t.pwd)'
      BY <1>5, <2>1 DEF LoginSpend, Sign, Current, PasswordOK, Signing, TypeOK
    <2>4. \A i \in Handlers : (Signing(i)' /\ Present(loc[i].acc)') =>
             \/ /\ Signing(i) /\ loc'[i].acc = loc[i].acc
                /\ loc'[i].row.pwd = loc[i].row.pwd
                /\ row'[loc[i].acc].pwd = row[loc[i].acc].pwd
             \/ Current(loc[i].acc, loc[i].row.pwd)'
      BY <1>5, <2>1 DEF LoginSpend, Goto, Enter, Finish, Signing, Current,
         PasswordOK, Present, TypeOK, Row, Write, SetPassword, NewPassword,
         GoneRow, NullRow, Loc
    <2>. QED
      BY <1>5, <2>2, <2>3, <2>4, PasswordKeeps DEF PasswordKept, LoginSpend
  <1>6. ASSUME NEW h \in Handlers, LoginUpgrade(h)
        PROVE  PasswordOK'
    <2>1. loc[h].acc \in Accounts /\ row[loc[h].acc] \in Row
      BY <1>6 DEF TypeOK, HandlerOK, LoginUpgrade, Loc, Ops
    <2>2. \A b \in Accounts : (Known(b) /\ Present(b)') =>
             /\ Present(b)
             /\ \/ row'[b].revoked = now
                \/ /\ row'[b].revoked = row[b].revoked
                   /\ row'[b].pwd = row[b].pwd \/ b \in raced'
      BY <1>6, <2>1 DEF LoginUpgrade, Present, Known, Current, PasswordOK,
         Signing, TypeOK, Row, Write, SetPassword, NewPassword, GoneRow,
         NullRow
    <2>3. \A t \in sessions' :
             \/ t \in sessions \/ t.via = "verify"
             \/ Present(t.acc)' => Current(t.acc, t.pwd)'
      BY <1>6, <2>1 DEF LoginUpgrade, Sign, Current, PasswordOK, Signing,
         TypeOK
    <2>4. \A i \in Handlers : (Signing(i)' /\ Present(loc[i].acc)') =>
             \/ /\ Signing(i) /\ loc'[i].acc = loc[i].acc
                /\ loc'[i].row.pwd = loc[i].row.pwd
                /\ row'[loc[i].acc].pwd = row[loc[i].acc].pwd
             \/ Current(loc[i].acc, loc[i].row.pwd)'
      BY <1>6, <2>1 DEF LoginUpgrade, Goto, Enter, Finish, Signing, Current,
         PasswordOK, Present, TypeOK, Row, Write, SetPassword, NewPassword,
         GoneRow, NullRow, Loc
    <2>. QED
      BY <1>6, <2>2, <2>3, <2>4, PasswordKeeps DEF PasswordKept, LoginUpgrade,
         SetPassword
  <1>7. ASSUME NEW h \in Handlers, LoginSign(h)
        PROVE  PasswordOK'
    <2>1. loc[h].acc \in Accounts /\ row[loc[h].acc] \in Row
      BY <1>7 DEF TypeOK, HandlerOK, LoginSign, Loc, Ops
    <2>2. \A b \in Accounts : (Known(b) /\ Present(b)') =>
             /\ Present(b)
             /\ \/ row'[b].revoked = now
                \/ /\ row'[b].revoked = row[b].revoked
                   /\ row'[b].pwd = row[b].pwd \/ b \in raced'
      BY <1>7, <2>1 DEF LoginSign, Present, TypeOK
    <2>3. Present(loc[h].acc) => Current(loc[h].acc, loc[h].row.pwd)
      BY <1>7, <2>1 DEF LoginSign, PasswordOK, Signing
    <2>4. \A t \in sessions' :
             \/ t \in sessions \/ t.via = "verify"
             \/ Present(t.acc)' => Current(t.acc, t.pwd)'
      BY <1>7, <2>1, <2>3 DEF LoginSign, Sign, Current, Present
    <2>5. \A i \in Handlers : (Signing(i)' /\ Present(loc[i].acc)') =>
             \/ /\ Signing(i) /\ loc'[i].acc = loc[i].acc
                /\ loc'[i].row.pwd = loc[i].row.pwd
                /\ row'[loc[i].acc].pwd = row[loc[i].acc].pwd
             \/ Current(loc[i].acc, loc[i].row.pwd)'
      BY <1>7, <2>1 DEF LoginSign, Goto, Enter, Finish, Signing, Current,
         PasswordOK, Present, TypeOK, Ops
    <2>. QED
      BY <1>7, <2>2, <2>4, <2>5, PasswordKeeps DEF PasswordKept, LoginSign
  <1>8. ASSUME NEW h \in Handlers, AttachStore(h)
        PROVE  PasswordOK'
    <2>1. loc[h].acc \in Accounts /\ row[loc[h].acc] \in Row
      BY <1>8 DEF TypeOK, HandlerOK, AttachStore, Loc, Ops
    <2>2. \A b \in Accounts : (Known(b) /\ Present(b)') =>
             /\ Present(b)
             /\ \/ row'[b].revoked = now
                \/ /\ row'[b].revoked = row[b].revoked
                   /\ row'[b].pwd = row[b].pwd \/ b \in raced'
      BY <1>8, <2>1 DEF AttachStore, Present, TypeOK
    <2>3. \A t \in sessions' :
             \/ t \in sessions \/ t.via = "verify"
             \/ Present(t.acc)' => Current(t.acc, t.pwd)'
      BY <1>8, <2>1 DEF AttachStore, Sign, Current, PasswordOK, Signing,
         TypeOK
    <2>4. \A i \in Handlers : (Signing(i)' /\ Present(loc[i].acc)') =>
             \/ /\ Signing(i) /\ loc'[i].acc = loc[i].acc
                /\ loc'[i].row.pwd = loc[i].row.pwd
                /\ row'[loc[i].acc].pwd = row[loc[i].acc].pwd
             \/ Current(loc[i].acc, loc[i].row.pwd)'
      BY <1>8, <2>1 DEF AttachStore, Goto, Enter, Finish, Signing, Current,
         PasswordOK, Present, TypeOK, Ops
    <2>. QED
      BY <1>8, <2>2, <2>3, <2>4, PasswordKeeps DEF PasswordKept, AttachStore
  <1>9. ASSUME NEW h \in Handlers, LogoutRevoke(h)
        PROVE  PasswordOK'
    <2>1. loc[h].acc \in Accounts /\ row[loc[h].acc] \in Row
      BY <1>9 DEF TypeOK, HandlerOK, LogoutRevoke, Loc, Ops
    <2>2. \A b \in Accounts : /\ Present(b)' => Present(b)
                             /\ row'[b].pwd = row[b].pwd
                             /\ row'[b].revoked \in {now, row[b].revoked}
      <3>. DEFINE a == loc[h].acc
                  r == [row[a] EXCEPT !.revoked = now]
      <3>1. row' = row \/ row' = [row EXCEPT ![a] = r]
        BY <1>9 DEF LogoutRevoke, Write
      <3>2. r.status = row[a].status /\ r.pwd = row[a].pwd /\ r.revoked = now
        BY <2>1 DEF Row
      <3>3. row \in [Accounts -> Row]
        BY DEF TypeOK
      <3>. HIDE DEF r
      <3>. QED
        BY <2>1, <3>1, <3>2, <3>3 DEF Present
    <2>3. /\ UNCHANGED <<sessions, loc, raced>>
          /\ \A i \in Handlers : Signing(i)' => Signing(i) /\ loc[i].acc \in Accounts
      BY <1>9 DEF LogoutRevoke, TypeOK, HandlerOK, Signing, Loc, Goto, Enter,
         Finish
    <2>. QED
      BY <1>9, <2>2, <2>3, PasswordKeeps DEF PasswordKept
  <1>10. ASSUME NEW h \in Handlers, LogoutForget(h)
        PROVE  PasswordOK'
    <2>1. loc[h].acc \in Accounts /\ row[loc[h].acc] \in Row
      BY <1>10 DEF TypeOK, HandlerOK, LogoutForget, Loc, Ops
    <2>2. \A b \in Accounts : (Known(b) /\ Present(b)') =>
             /\ Present(b)
             /\ \/ row'[b].revoked = now
                \/ /\ row'[b].revoked = row[b].revoked
                   /\ row'[b].pwd = row[b].pwd \/ b \in raced'
      BY <1>10, <2>1 DEF LogoutForget, Present, TypeOK
    <2>3. \A t \in sessions' :
             \/ t \in sessions \/ t.via = "verify"
             \/ Present(t.acc)' => Current(t.acc, t.pwd)'
      BY <1>10, <2>1 DEF LogoutForget, Sign, Current, PasswordOK, Signing,
         TypeOK
    <2>4. \A i \in Handlers : (Signing(i)' /\ Present(loc[i].acc)') =>
             \/ /\ Signing(i) /\ loc'[i].acc = loc[i].acc
                /\ loc'[i].row.pwd = loc[i].row.pwd
                /\ row'[loc[i].acc].pwd = row[loc[i].acc].pwd
             \/ Current(loc[i].acc, loc[i].row.pwd)'
      BY <1>10, <2>1 DEF LogoutForget, Goto, Enter, Finish, Signing, Current,
         PasswordOK, Present, TypeOK, Ops
    <2>. QED
      BY <1>10, <2>2, <2>3, <2>4, PasswordKeeps DEF PasswordKept, LogoutForget
  <1>11. ASSUME NEW h \in Handlers, ChangeRead(h)
        PROVE  PasswordOK'
    <2>1. loc[h].acc \in Accounts /\ row[loc[h].acc] \in Row
      BY <1>11 DEF TypeOK, HandlerOK, ChangeRead, Loc, Ops
    <2>2. \A b \in Accounts : (Known(b) /\ Present(b)') =>
             /\ Present(b)
             /\ \/ row'[b].revoked = now
                \/ /\ row'[b].revoked = row[b].revoked
                   /\ row'[b].pwd = row[b].pwd \/ b \in raced'
      BY <1>11, <2>1 DEF ChangeRead, Present, TypeOK
    <2>3. \A t \in sessions' :
             \/ t \in sessions \/ t.via = "verify"
             \/ Present(t.acc)' => Current(t.acc, t.pwd)'
      BY <1>11, <2>1 DEF ChangeRead, Sign, Current, PasswordOK, Signing,
         TypeOK
    <2>4. \A i \in Handlers : (Signing(i)' /\ Present(loc[i].acc)') =>
             \/ /\ Signing(i) /\ loc'[i].acc = loc[i].acc
                /\ loc'[i].row.pwd = loc[i].row.pwd
                /\ row'[loc[i].acc].pwd = row[loc[i].acc].pwd
             \/ Current(loc[i].acc, loc[i].row.pwd)'
      BY <1>11, <2>1 DEF ChangeRead, Goto, Enter, Finish, Signing, Current,
         PasswordOK, Present, TypeOK, Ops
    <2>. QED
      BY <1>11, <2>2, <2>3, <2>4, PasswordKeeps DEF PasswordKept, ChangeRead
  <1>12. ASSUME NEW h \in Handlers, ChangeSet(h)
        PROVE  PasswordOK'
    <2>1. loc[h].acc \in Accounts /\ row[loc[h].acc] \in Row
      BY <1>12 DEF TypeOK, HandlerOK, ChangeSet, Loc, Ops
    <2>2. \A b \in Accounts : (Known(b) /\ Present(b)') =>
             /\ Present(b)
             /\ \/ row'[b].revoked = now
                \/ /\ row'[b].revoked = row[b].revoked
                   /\ row'[b].pwd = row[b].pwd \/ b \in raced'
      BY <1>12, <2>1 DEF ChangeSet, Present, Known, Current, PasswordOK,
         Signing, TypeOK, Row, Write, SetPassword, NewPassword, GoneRow,
         NullRow
    <2>3. \A t \in sessions' :
             \/ t \in sessions \/ t.via = "verify"
             \/ Present(t.acc)' => Current(t.acc, t.pwd)'
      BY <1>12, <2>1 DEF ChangeSet, Sign, Current, PasswordOK, Signing, TypeOK
    <2>4. \A i \in Handlers : (Signing(i)' /\ Present(loc[i].acc)') =>
             \/ /\ Signing(i) /\ loc'[i].acc = loc[i].acc
                /\ loc'[i].row.pwd = loc[i].row.pwd
                /\ row'[loc[i].acc].pwd = row[loc[i].acc].pwd
             \/ Current(loc[i].acc, loc[i].row.pwd)'
      BY <1>12, <2>1 DEF ChangeSet, Goto, Enter, Finish, Signing, Current,
         PasswordOK, Present, TypeOK, Row, Write, SetPassword, NewPassword,
         GoneRow, NullRow, Loc
    <2>. QED
      BY <1>12, <2>2, <2>3, <2>4, PasswordKeeps DEF PasswordKept, ChangeSet,
         SetPassword
  <1>13. ASSUME NEW h \in Handlers, ChangeSign(h)
        PROVE  PasswordOK'
    <2>1. loc[h].acc \in Accounts /\ row[loc[h].acc] \in Row
      BY <1>13 DEF TypeOK, HandlerOK, ChangeSign, Loc, Ops
    <2>2. \A b \in Accounts : (Known(b) /\ Present(b)') =>
             /\ Present(b)
             /\ \/ row'[b].revoked = now
                \/ /\ row'[b].revoked = row[b].revoked
                   /\ row'[b].pwd = row[b].pwd \/ b \in raced'
      BY <1>13, <2>1 DEF ChangeSign, Present, TypeOK
    <2>3. /\ sessions' \subseteq sessions \cup {Renewed(h)}
          /\ Renewed(h).acc = loc[h].acc
          /\ Renewed(h).pwd = loc[h].row.pwd
      BY <1>13 DEF ChangeSign, Sign, TypeOK, HandlerOK, Ses, Renewed,
         Completed
    <2>4. \A t \in sessions' :
             \/ t \in sessions \/ t.via = "verify"
             \/ Present(t.acc)' => Current(t.acc, t.pwd)'
      BY <1>13, <2>1, <2>3 DEF PasswordOK, Present, Signing, Current,
         ChangeSign
    <2>5. \A i \in Handlers : (Signing(i)' /\ Present(loc[i].acc)') =>
             \/ /\ Signing(i) /\ loc'[i].acc = loc[i].acc
                /\ loc'[i].row.pwd = loc[i].row.pwd
                /\ row'[loc[i].acc].pwd = row[loc[i].acc].pwd
             \/ Current(loc[i].acc, loc[i].row.pwd)'
      BY <1>13, <2>1 DEF ChangeSign, Goto, Enter, Finish, Signing, Current,
         PasswordOK, Present, TypeOK, Ops
    <2>. QED
      BY <1>13, <2>2, <2>4, <2>5, PasswordKeeps DEF PasswordKept, ChangeSign
  <1>14. ASSUME NEW h \in Handlers, SetupRead(h)
        PROVE  PasswordOK'
    <2>1. loc[h].acc \in Accounts /\ row[loc[h].acc] \in Row
      BY <1>14 DEF TypeOK, HandlerOK, SetupRead, Loc, Ops
    <2>2. \A b \in Accounts : (Known(b) /\ Present(b)') =>
             /\ Present(b)
             /\ \/ row'[b].revoked = now
                \/ /\ row'[b].revoked = row[b].revoked
                   /\ row'[b].pwd = row[b].pwd \/ b \in raced'
      BY <1>14, <2>1 DEF SetupRead, Present, TypeOK
    <2>3. \A t \in sessions' :
             \/ t \in sessions \/ t.via = "verify"
             \/ Present(t.acc)' => Current(t.acc, t.pwd)'
      BY <1>14, <2>1 DEF SetupRead, Sign, Current, PasswordOK, Signing, TypeOK
    <2>4. \A i \in Handlers : (Signing(i)' /\ Present(loc[i].acc)') =>
             \/ /\ Signing(i) /\ loc'[i].acc = loc[i].acc
                /\ loc'[i].row.pwd = loc[i].row.pwd
                /\ row'[loc[i].acc].pwd = row[loc[i].acc].pwd
             \/ Current(loc[i].acc, loc[i].row.pwd)'
      BY <1>14, <2>1 DEF SetupRead, Goto, Enter, Finish, Signing, Current,
         PasswordOK, Present, TypeOK, Ops
    <2>. QED
      BY <1>14, <2>2, <2>3, <2>4, PasswordKeeps DEF PasswordKept, SetupRead
  <1>15. ASSUME NEW h \in Handlers, SetupSet(h)
        PROVE  PasswordOK'
    <2>1. loc[h].acc \in Accounts /\ row[loc[h].acc] \in Row
      BY <1>15 DEF TypeOK, HandlerOK, SetupSet, Loc, Ops
    <2>2. \A b \in Accounts : (Known(b) /\ Present(b)') =>
             /\ Present(b)
             /\ \/ row'[b].revoked = now
                \/ /\ row'[b].revoked = row[b].revoked
                   /\ row'[b].pwd = row[b].pwd \/ b \in raced'
      BY <1>15, <2>1 DEF SetupSet, Present, Known, Current, PasswordOK,
         Signing, TypeOK, Row, Write, SetPassword, NewPassword, GoneRow,
         NullRow
    <2>3. \A t \in sessions' :
             \/ t \in sessions \/ t.via = "verify"
             \/ Present(t.acc)' => Current(t.acc, t.pwd)'
      BY <1>15, <2>1 DEF SetupSet, Sign, Current, PasswordOK, Signing, TypeOK
    <2>4. \A i \in Handlers : (Signing(i)' /\ Present(loc[i].acc)') =>
             \/ /\ Signing(i) /\ loc'[i].acc = loc[i].acc
                /\ loc'[i].row.pwd = loc[i].row.pwd
                /\ row'[loc[i].acc].pwd = row[loc[i].acc].pwd
             \/ Current(loc[i].acc, loc[i].row.pwd)'
      BY <1>15, <2>1 DEF SetupSet, Goto, Enter, Finish, Signing, Current,
         PasswordOK, Present, TypeOK, Row, Write, SetPassword, NewPassword,
         GoneRow, NullRow, Loc
    <2>. QED
      BY <1>15, <2>2, <2>3, <2>4, PasswordKeeps DEF PasswordKept, SetupSet
  <1>16. ASSUME NEW h \in Handlers, VerifyRead(h)
        PROVE  PasswordOK'
    <2>1. loc[h].acc \in Accounts /\ row[loc[h].acc] \in Row
      BY <1>16 DEF TypeOK, HandlerOK, VerifyRead, Loc, Ops
    <2>2. \A b \in Accounts : (Known(b) /\ Present(b)') =>
             /\ Present(b)
             /\ \/ row'[b].revoked = now
                \/ /\ row'[b].revoked = row[b].revoked
                   /\ row'[b].pwd = row[b].pwd \/ b \in raced'
      BY <1>16, <2>1 DEF VerifyRead, Present, TypeOK
    <2>3. \A t \in sessions' :
             \/ t \in sessions \/ t.via = "verify"
             \/ Present(t.acc)' => Current(t.acc, t.pwd)'
      BY <1>16, <2>1 DEF VerifyRead, Sign, Current, PasswordOK, Signing,
         TypeOK
    <2>4. \A i \in Handlers : (Signing(i)' /\ Present(loc[i].acc)') =>
             \/ /\ Signing(i) /\ loc'[i].acc = loc[i].acc
                /\ loc'[i].row.pwd = loc[i].row.pwd
                /\ row'[loc[i].acc].pwd = row[loc[i].acc].pwd
             \/ Current(loc[i].acc, loc[i].row.pwd)'
      BY <1>16, <2>1 DEF VerifyRead, Goto, Enter, Finish, Signing, Current,
         PasswordOK, Present, TypeOK, Ops
    <2>. QED
      BY <1>16, <2>2, <2>3, <2>4, PasswordKeeps DEF PasswordKept, VerifyRead
  <1>17. ASSUME NEW h \in Handlers, VerifySet(h)
        PROVE  PasswordOK'
    <2>1. loc[h].acc \in Accounts /\ row[loc[h].acc] \in Row
      BY <1>17 DEF TypeOK, HandlerOK, VerifySet, Loc, Ops
    <2>2. \A b \in Accounts : (Known(b) /\ Present(b)') =>
             /\ Present(b)
             /\ \/ row'[b].revoked = now
                \/ /\ row'[b].revoked = row[b].revoked
                   /\ row'[b].pwd = row[b].pwd \/ b \in raced'
      BY <1>17, <2>1 DEF VerifySet, Present, Known, Current, PasswordOK,
         Signing, TypeOK, Row, Write, SetPassword, NewPassword, GoneRow,
         NullRow
    <2>3. /\ sessions' \subseteq sessions \cup {Completed(h)}
          /\ Completed(h).acc = loc[h].acc
          /\ Completed(h).via = "verify"
      BY <1>17 DEF VerifySet, Sign, TypeOK, HandlerOK, Ses, Renewed, Completed
    <2>4. \A t \in sessions' :
             \/ t \in sessions \/ t.via = "verify"
             \/ Present(t.acc)' => Current(t.acc, t.pwd)'
      BY <1>17, <2>1, <2>3 DEF PasswordOK, Present, Signing, Current,
         VerifySet
    <2>5. \A i \in Handlers : (Signing(i)' /\ Present(loc[i].acc)') =>
             \/ /\ Signing(i) /\ loc'[i].acc = loc[i].acc
                /\ loc'[i].row.pwd = loc[i].row.pwd
                /\ row'[loc[i].acc].pwd = row[loc[i].acc].pwd
             \/ Current(loc[i].acc, loc[i].row.pwd)'
      BY <1>17, <2>1 DEF VerifySet, Goto, Enter, Finish, Signing, Current,
         PasswordOK, Present, TypeOK, Row, Write, SetPassword, NewPassword,
         GoneRow, NullRow, Loc
    <2>. QED
      BY <1>17, <2>2, <2>4, <2>5, PasswordKeeps DEF PasswordKept, VerifySet
  <1>18. ASSUME NEW h \in Handlers, DisableRead(h)
        PROVE  PasswordOK'
    <2>1. loc[h].acc \in Accounts /\ row[loc[h].acc] \in Row
      BY <1>18 DEF TypeOK, HandlerOK, DisableRead, Loc, Ops
    <2>2. \A b \in Accounts : (Known(b) /\ Present(b)') =>
             /\ Present(b)
             /\ \/ row'[b].revoked = now
                \/ /\ row'[b].revoked = row[b].revoked
                   /\ row'[b].pwd = row[b].pwd \/ b \in raced'
      BY <1>18, <2>1 DEF DisableRead, Present, TypeOK
    <2>3. \A t \in sessions' :
             \/ t \in sessions \/ t.via = "verify"
             \/ Present(t.acc)' => Current(t.acc, t.pwd)'
      BY <1>18, <2>1 DEF DisableRead, Sign, Current, PasswordOK, Signing,
         TypeOK
    <2>4. \A i \in Handlers : (Signing(i)' /\ Present(loc[i].acc)') =>
             \/ /\ Signing(i) /\ loc'[i].acc = loc[i].acc
                /\ loc'[i].row.pwd = loc[i].row.pwd
                /\ row'[loc[i].acc].pwd = row[loc[i].acc].pwd
             \/ Current(loc[i].acc, loc[i].row.pwd)'
      BY <1>18, <2>1 DEF DisableRead, Goto, Enter, Finish, Signing, Current,
         PasswordOK, Present, TypeOK, Ops
    <2>. QED
      BY <1>18, <2>2, <2>3, <2>4, PasswordKeeps DEF PasswordKept, DisableRead
  <1>19. ASSUME NEW h \in Handlers, DisableSet(h)
        PROVE  PasswordOK'
    <2>1. loc[h].acc \in Accounts /\ row[loc[h].acc] \in Row
      BY <1>19 DEF TypeOK, HandlerOK, DisableSet, Loc, Ops
    <2>2. \A b \in Accounts : (Known(b) /\ Present(b)') =>
             /\ Present(b)
             /\ \/ row'[b].revoked = now
                \/ /\ row'[b].revoked = row[b].revoked
                   /\ row'[b].pwd = row[b].pwd \/ b \in raced'
      BY <1>19, <2>1 DEF DisableSet, Present, Known, Current, PasswordOK,
         Signing, TypeOK, Row, Write, SetPassword, NewPassword, GoneRow,
         NullRow
    <2>3. \A t \in sessions' :
             \/ t \in sessions \/ t.via = "verify"
             \/ Present(t.acc)' => Current(t.acc, t.pwd)'
      BY <1>19, <2>1 DEF DisableSet, Sign, Current, PasswordOK, Signing,
         TypeOK
    <2>4. \A i \in Handlers : (Signing(i)' /\ Present(loc[i].acc)') =>
             \/ /\ Signing(i) /\ loc'[i].acc = loc[i].acc
                /\ loc'[i].row.pwd = loc[i].row.pwd
                /\ row'[loc[i].acc].pwd = row[loc[i].acc].pwd
             \/ Current(loc[i].acc, loc[i].row.pwd)'
      BY <1>19, <2>1 DEF DisableSet, Goto, Enter, Finish, Signing, Current,
         PasswordOK, Present, TypeOK, Row, Write, SetPassword, NewPassword,
         GoneRow, NullRow, Loc
    <2>. QED
      BY <1>19, <2>2, <2>3, <2>4, PasswordKeeps DEF PasswordKept, DisableSet
  <1>20. ASSUME NEW h \in Handlers, ResetSet(h)
        PROVE  PasswordOK'
    <2>1. loc[h].acc \in Accounts /\ row[loc[h].acc] \in Row
      BY <1>20 DEF TypeOK, HandlerOK, ResetSet, Loc, Ops
    <2>2. \A b \in Accounts : (Known(b) /\ Present(b)') =>
             /\ Present(b)
             /\ \/ row'[b].revoked = now
                \/ /\ row'[b].revoked = row[b].revoked
                   /\ row'[b].pwd = row[b].pwd \/ b \in raced'
      BY <1>20, <2>1 DEF ResetSet, Present, Known, Current, PasswordOK,
         Signing, TypeOK, Row, Write, SetPassword, NewPassword, GoneRow,
         NullRow
    <2>3. \A t \in sessions' :
             \/ t \in sessions \/ t.via = "verify"
             \/ Present(t.acc)' => Current(t.acc, t.pwd)'
      BY <1>20, <2>1 DEF ResetSet, Sign, Current, PasswordOK, Signing, TypeOK
    <2>4. \A i \in Handlers : (Signing(i)' /\ Present(loc[i].acc)') =>
             \/ /\ Signing(i) /\ loc'[i].acc = loc[i].acc
                /\ loc'[i].row.pwd = loc[i].row.pwd
                /\ row'[loc[i].acc].pwd = row[loc[i].acc].pwd
             \/ Current(loc[i].acc, loc[i].row.pwd)'
      BY <1>20, <2>1 DEF ResetSet, Goto, Enter, Finish, Signing, Current,
         PasswordOK, Present, TypeOK, Row, Write, SetPassword, NewPassword,
         GoneRow, NullRow, Loc
    <2>. QED
      BY <1>20, <2>2, <2>3, <2>4, PasswordKeeps DEF PasswordKept, ResetSet,
         SetPassword
  <1>21. ASSUME NEW h \in Handlers, ResetForget(h)
        PROVE  PasswordOK'
    <2>1. loc[h].acc \in Accounts /\ row[loc[h].acc] \in Row
      BY <1>21 DEF TypeOK, HandlerOK, ResetForget, Loc, Ops
    <2>2. \A b \in Accounts : (Known(b) /\ Present(b)') =>
             /\ Present(b)
             /\ \/ row'[b].revoked = now
                \/ /\ row'[b].revoked = row[b].revoked
                   /\ row'[b].pwd = row[b].pwd \/ b \in raced'
      BY <1>21, <2>1 DEF ResetForget, Present, TypeOK
    <2>3. \A t \in sessions' :
             \/ t \in sessions \/ t.via = "verify"
             \/ Present(t.acc)' => Current(t.acc, t.pwd)'
      BY <1>21, <2>1 DEF ResetForget, Sign, Current, PasswordOK, Signing,
         TypeOK
    <2>4. \A i \in Handlers : (Signing(i)' /\ Present(loc[i].acc)') =>
             \/ /\ Signing(i) /\ loc'[i].acc = loc[i].acc
                /\ loc'[i].row.pwd = loc[i].row.pwd
                /\ row'[loc[i].acc].pwd = row[loc[i].acc].pwd
             \/ Current(loc[i].acc, loc[i].row.pwd)'
      BY <1>21, <2>1 DEF ResetForget, Goto, Enter, Finish, Signing, Current,
         PasswordOK, Present, TypeOK, Ops
    <2>. QED
      BY <1>21, <2>2, <2>3, <2>4, PasswordKeeps DEF PasswordKept, ResetForget
  <1>22. ASSUME NEW h \in Handlers, ResetMark(h)
        PROVE  PasswordOK'
    <2>1. loc[h].acc \in Accounts /\ row[loc[h].acc] \in Row
      BY <1>22 DEF TypeOK, HandlerOK, ResetMark, Loc, Ops
    <2>2. \A b \in Accounts : (Known(b) /\ Present(b)') =>
             /\ Present(b)
             /\ \/ row'[b].revoked = now
                \/ /\ row'[b].revoked = row[b].revoked
                   /\ row'[b].pwd = row[b].pwd \/ b \in raced'
      BY <1>22, <2>1 DEF ResetMark, Present, TypeOK
    <2>3. \A t \in sessions' :
             \/ t \in sessions \/ t.via = "verify"
             \/ Present(t.acc)' => Current(t.acc, t.pwd)'
      BY <1>22, <2>1 DEF ResetMark, Sign, Current, PasswordOK, Signing, TypeOK
    <2>4. \A i \in Handlers : (Signing(i)' /\ Present(loc[i].acc)') =>
             \/ /\ Signing(i) /\ loc'[i].acc = loc[i].acc
                /\ loc'[i].row.pwd = loc[i].row.pwd
                /\ row'[loc[i].acc].pwd = row[loc[i].acc].pwd
             \/ Current(loc[i].acc, loc[i].row.pwd)'
      BY <1>22, <2>1 DEF ResetMark, Goto, Enter, Finish, Signing, Current,
         PasswordOK, Present, TypeOK, Ops
    <2>. QED
      BY <1>22, <2>2, <2>3, <2>4, PasswordKeeps DEF PasswordKept, ResetMark
  <1>23. ASSUME NEW a \in Accounts, AdminUpdate(a)
        PROVE  PasswordOK'
    <2>1. \A b \in Accounts : Present(b)' => /\ Present(b) /\ row'[b].pwd = row[b].pwd
                                           /\ row'[b].revoked \in {now, row[b].revoked}
      BY <1>23, AdminUpdateEffect DEF Present
    <2>2. /\ UNCHANGED <<sessions, pc, loc, raced>>
          /\ \A i \in Handlers : Signing(i) => loc[i].acc \in Accounts
      BY <1>23 DEF AdminUpdate, TypeOK, HandlerOK, Signing, Loc
    <2>. QED
      BY <1>23, <2>1, <2>2, PasswordKeeps DEF PasswordKept, Signing
  <1>24. ASSUME NEW a \in Accounts, AdminReset(a)
        PROVE  PasswordOK'
    <2>1. \A b \in Accounts : (Known(b) /\ Present(b)') =>
             /\ Present(b)
             /\ \/ row'[b].revoked = now
                \/ /\ row'[b].revoked = row[b].revoked
                   /\ row'[b].pwd = row[b].pwd \/ b \in raced'
      BY <1>24 DEF AdminReset, Present, Known, Current, PasswordOK, Signing,
         TypeOK, Row, Write, SetPassword, NewPassword, GoneRow, NullRow
    <2>2. \A t \in sessions' :
             \/ t \in sessions \/ t.via = "verify"
             \/ Present(t.acc)' => Current(t.acc, t.pwd)'
      BY <1>24 DEF AdminReset, Sign, Current, PasswordOK, Signing, TypeOK
    <2>3. \A i \in Handlers : (Signing(i)' /\ Present(loc[i].acc)') =>
             \/ /\ Signing(i) /\ loc'[i].acc = loc[i].acc
                /\ loc'[i].row.pwd = loc[i].row.pwd
                /\ row'[loc[i].acc].pwd = row[loc[i].acc].pwd
             \/ Current(loc[i].acc, loc[i].row.pwd)'
      BY <1>24 DEF AdminReset, Goto, Enter, Finish, Signing, Current,
         PasswordOK, Present, TypeOK, Row, Write, SetPassword, NewPassword,
         GoneRow, NullRow, Loc
    <2>. QED
      BY <1>24, <2>1, <2>2, <2>3, PasswordKeeps DEF PasswordKept, AdminReset,
         SetPassword
  <1>25. ASSUME NEW a \in Accounts, DeleteForget(a)
        PROVE  PasswordOK'
    <2>1. \A b \in Accounts : (Known(b) /\ Present(b)') =>
             /\ Present(b)
             /\ \/ row'[b].revoked = now
                \/ /\ row'[b].revoked = row[b].revoked
                   /\ row'[b].pwd = row[b].pwd \/ b \in raced'
      BY <1>25 DEF DeleteForget, Present, TypeOK
    <2>2. \A t \in sessions' :
             \/ t \in sessions \/ t.via = "verify"
             \/ Present(t.acc)' => Current(t.acc, t.pwd)'
      BY <1>25 DEF DeleteForget, Sign, Current, PasswordOK, Signing, TypeOK
    <2>3. \A i \in Handlers : (Signing(i)' /\ Present(loc[i].acc)') =>
             \/ /\ Signing(i) /\ loc'[i].acc = loc[i].acc
                /\ loc'[i].row.pwd = loc[i].row.pwd
                /\ row'[loc[i].acc].pwd = row[loc[i].acc].pwd
             \/ Current(loc[i].acc, loc[i].row.pwd)'
      BY <1>25 DEF DeleteForget, Goto, Enter, Finish, Signing, Current,
         PasswordOK, Present, TypeOK, Ops
    <2>. QED
      BY <1>25, <2>1, <2>2, <2>3, PasswordKeeps DEF PasswordKept, DeleteForget
  <1>26. ASSUME NEW a \in Accounts, Create(a)
        PROVE  PasswordOK'
    <2>1. \A b \in Accounts : (Known(b) /\ Present(b)') =>
             /\ Present(b)
             /\ \/ row'[b].revoked = now
                \/ /\ row'[b].revoked = row[b].revoked
                   /\ row'[b].pwd = row[b].pwd \/ b \in raced'
      BY <1>26 DEF Create, Present, Known, Current, PasswordOK, Signing,
         TypeOK, Row, Write, SetPassword, NewPassword, GoneRow, NullRow
    <2>2. \A t \in sessions' :
             \/ t \in sessions \/ t.via = "verify"
             \/ Present(t.acc)' => Current(t.acc, t.pwd)'
      BY <1>26 DEF Create, Sign, Current, PasswordOK, Signing, TypeOK
    <2>3. \A i \in Handlers : (Signing(i)' /\ Present(loc[i].acc)') =>
             \/ /\ Signing(i) /\ loc'[i].acc = loc[i].acc
                /\ loc'[i].row.pwd = loc[i].row.pwd
                /\ row'[loc[i].acc].pwd = row[loc[i].acc].pwd
             \/ Current(loc[i].acc, loc[i].row.pwd)'
      BY <1>26 DEF Create, Goto, Enter, Finish, Signing, Current, PasswordOK,
         Present, TypeOK, Row, Write, SetPassword, NewPassword, GoneRow,
         NullRow, Loc
    <2>. QED
      BY <1>26, <2>1, <2>2, <2>3, PasswordKeeps DEF PasswordKept, Create
  <1>27. ASSUME NEW a \in Accounts, ForgotPassword(a)
        PROVE  PasswordOK'
    <2>1. \A b \in Accounts : (Known(b) /\ Present(b)') =>
             /\ Present(b)
             /\ \/ row'[b].revoked = now
                \/ /\ row'[b].revoked = row[b].revoked
                   /\ row'[b].pwd = row[b].pwd \/ b \in raced'
      BY <1>27 DEF ForgotPassword, Present, TypeOK
    <2>2. \A t \in sessions' :
             \/ t \in sessions \/ t.via = "verify"
             \/ Present(t.acc)' => Current(t.acc, t.pwd)'
      BY <1>27 DEF ForgotPassword, Sign, Current, PasswordOK, Signing, TypeOK
    <2>3. \A i \in Handlers : (Signing(i)' /\ Present(loc[i].acc)') =>
             \/ /\ Signing(i) /\ loc'[i].acc = loc[i].acc
                /\ loc'[i].row.pwd = loc[i].row.pwd
                /\ row'[loc[i].acc].pwd = row[loc[i].acc].pwd
             \/ Current(loc[i].acc, loc[i].row.pwd)'
      BY <1>27 DEF ForgotPassword, Goto, Enter, Finish, Signing, Current,
         PasswordOK, Present, TypeOK, Ops
    <2>. QED
      BY <1>27, <2>1, <2>2, <2>3, PasswordKeeps DEF PasswordKept,
         ForgotPassword
  <1>28. ASSUME AdminForget
        PROVE  PasswordOK'
    <2>1. \A b \in Accounts : (Known(b) /\ Present(b)') =>
             /\ Present(b)
             /\ \/ row'[b].revoked = now
                \/ /\ row'[b].revoked = row[b].revoked
                   /\ row'[b].pwd = row[b].pwd \/ b \in raced'
      BY <1>28 DEF AdminForget, Present, TypeOK
    <2>2. \A t \in sessions' :
             \/ t \in sessions \/ t.via = "verify"
             \/ Present(t.acc)' => Current(t.acc, t.pwd)'
      BY <1>28 DEF AdminForget, Sign, Current, PasswordOK, Signing, TypeOK
    <2>3. \A i \in Handlers : (Signing(i)' /\ Present(loc[i].acc)') =>
             \/ /\ Signing(i) /\ loc'[i].acc = loc[i].acc
                /\ loc'[i].row.pwd = loc[i].row.pwd
                /\ row'[loc[i].acc].pwd = row[loc[i].acc].pwd
             \/ Current(loc[i].acc, loc[i].row.pwd)'
      BY <1>28 DEF AdminForget, Goto, Enter, Finish, Signing, Current,
         PasswordOK, Present, TypeOK, Ops
    <2>. QED
      BY <1>28, <2>1, <2>2, <2>3, PasswordKeeps DEF PasswordKept, AdminForget
  <1>29. ASSUME DeleteCommit
        PROVE  PasswordOK'
    <2>1. \A b \in Accounts : (Known(b) /\ Present(b)') =>
             /\ Present(b)
             /\ \/ row'[b].revoked = now
                \/ /\ row'[b].revoked = row[b].revoked
                   /\ row'[b].pwd = row[b].pwd \/ b \in raced'
      BY <1>29 DEF DeleteCommit, Present, Known, Current, PasswordOK, Signing,
         TypeOK, Row, Write, SetPassword, NewPassword, GoneRow, NullRow
    <2>2. \A t \in sessions' :
             \/ t \in sessions \/ t.via = "verify"
             \/ Present(t.acc)' => Current(t.acc, t.pwd)'
      BY <1>29 DEF DeleteCommit, Sign, Current, PasswordOK, Signing, TypeOK
    <2>3. \A i \in Handlers : (Signing(i)' /\ Present(loc[i].acc)') =>
             \/ /\ Signing(i) /\ loc'[i].acc = loc[i].acc
                /\ loc'[i].row.pwd = loc[i].row.pwd
                /\ row'[loc[i].acc].pwd = row[loc[i].acc].pwd
             \/ Current(loc[i].acc, loc[i].row.pwd)'
      BY <1>29 DEF DeleteCommit, Goto, Enter, Finish, Signing, Current,
         PasswordOK, Present, TypeOK, Row, Write, SetPassword, NewPassword,
         GoneRow, NullRow, Loc
    <2>. QED
      BY <1>29, <2>1, <2>2, <2>3, PasswordKeeps DEF PasswordKept, DeleteCommit
  <1>30. ASSUME SetPolicy
        PROVE  PasswordOK'
    <2>1. \A b \in Accounts : (Known(b) /\ Present(b)') =>
             /\ Present(b)
             /\ \/ row'[b].revoked = now
                \/ /\ row'[b].revoked = row[b].revoked
                   /\ row'[b].pwd = row[b].pwd \/ b \in raced'
      BY <1>30 DEF SetPolicy, Present, TypeOK
    <2>2. \A t \in sessions' :
             \/ t \in sessions \/ t.via = "verify"
             \/ Present(t.acc)' => Current(t.acc, t.pwd)'
      BY <1>30 DEF SetPolicy, Sign, Current, PasswordOK, Signing, TypeOK
    <2>3. \A i \in Handlers : (Signing(i)' /\ Present(loc[i].acc)') =>
             \/ /\ Signing(i) /\ loc'[i].acc = loc[i].acc
                /\ loc'[i].row.pwd = loc[i].row.pwd
                /\ row'[loc[i].acc].pwd = row[loc[i].acc].pwd
             \/ Current(loc[i].acc, loc[i].row.pwd)'
      BY <1>30 DEF SetPolicy, Goto, Enter, Finish, Signing, Current,
         PasswordOK, Present, TypeOK, Ops
    <2>. QED
      BY <1>30, <2>1, <2>2, <2>3, PasswordKeeps DEF PasswordKept, SetPolicy
  <1>31. ASSUME Tick
        PROVE  PasswordOK'
    <2>1. \A b \in Accounts : (Known(b) /\ Present(b)') =>
             /\ Present(b)
             /\ \/ row'[b].revoked = now
                \/ /\ row'[b].revoked = row[b].revoked
                   /\ row'[b].pwd = row[b].pwd \/ b \in raced'
      BY <1>31 DEF Tick, Present, TypeOK
    <2>2. \A t \in sessions' :
             \/ t \in sessions \/ t.via = "verify"
             \/ Present(t.acc)' => Current(t.acc, t.pwd)'
      BY <1>31 DEF Tick, Sign, Current, PasswordOK, Signing, TypeOK
    <2>3. \A i \in Handlers : (Signing(i)' /\ Present(loc[i].acc)') =>
             \/ /\ Signing(i) /\ loc'[i].acc = loc[i].acc
                /\ loc'[i].row.pwd = loc[i].row.pwd
                /\ row'[loc[i].acc].pwd = row[loc[i].acc].pwd
             \/ Current(loc[i].acc, loc[i].row.pwd)'
      BY <1>31 DEF Tick, Goto, Enter, Finish, Signing, Current, PasswordOK,
         Present, TypeOK, Ops
    <2>. QED
      BY <1>31, <2>1, <2>2, <2>3, PasswordKeeps DEF PasswordKept, Tick
  <1>32. ASSUME Restart
        PROVE  PasswordOK'
    <2>1. \A b \in Accounts : (Known(b) /\ Present(b)') =>
             /\ Present(b)
             /\ \/ row'[b].revoked = now
                \/ /\ row'[b].revoked = row[b].revoked
                   /\ row'[b].pwd = row[b].pwd \/ b \in raced'
      BY <1>32 DEF Restart, Present, TypeOK
    <2>2. \A t \in sessions' :
             \/ t \in sessions \/ t.via = "verify"
             \/ Present(t.acc)' => Current(t.acc, t.pwd)'
      BY <1>32 DEF Restart, Sign, Current, PasswordOK, Signing, TypeOK
    <2>3. \A i \in Handlers : (Signing(i)' /\ Present(loc[i].acc)') =>
             \/ /\ Signing(i) /\ loc'[i].acc = loc[i].acc
                /\ loc'[i].row.pwd = loc[i].row.pwd
                /\ row'[loc[i].acc].pwd = row[loc[i].acc].pwd
             \/ Current(loc[i].acc, loc[i].row.pwd)'
      BY <1>32 DEF Restart, Goto, Enter, Finish, Signing, Current, PasswordOK,
         Present, TypeOK, Ops
    <2>. QED
      BY <1>32, <2>1, <2>2, <2>3, PasswordKeeps DEF PasswordKept, Restart
  <1>33. CASE UNCHANGED vars
    BY <1>33, PasswordKeeps DEF vars, PasswordKept, Present, Signing
  <1>. QED
    BY <1>1, <1>2, <1>3, <1>4, <1>5, <1>6, <1>7, <1>8, <1>9, <1>10, <1>11,
       <1>12, <1>13, <1>14, <1>15, <1>16, <1>17, <1>18, <1>19, <1>20, <1>21,
       <1>22, <1>23, <1>24, <1>25, <1>26, <1>27, <1>28, <1>29, <1>30, <1>31,
       <1>32, <1>33 DEF Next, LoginStep, UserStep, ResetStep, AdminStep

\* Once a password was replaced, no session opened with another one is honoured,
\* but for a login that the replacement overtook.
THEOREM OldPasswordRefused == Spec => []OldPasswordIsOut
  <1>1. Init => KnownOK /\ PasswordOK
    <2>1. Init => /\ sessions = {} /\ link = [a \in Accounts |-> "none"]
                  /\ \A h \in Handlers : pc[h] = "idle"
                  /\ \E a \in Accounts : adm = [step |-> "idle", acc |-> a]
      BY DEF Init
    <2>. QED
      BY <2>1 DEF KnownOK, PasswordOK, Signing
  <1>2. PasswordOK => OldPasswordIsOut
    BY DEF PasswordOK, OldPasswordIsOut, Present, Current
  <1>. QED
    BY <1>1, <1>2, KnownStep, PasswordStep, TypeCorrect, PTL DEF Spec
=============================================================================
