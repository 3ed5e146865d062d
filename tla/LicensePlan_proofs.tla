------------------------ MODULE LicensePlan_proofs ------------------------
(* Theorems about LicensePlan, for any slugs, keys, requests, lifetimes and   *)
(* bounds.                                                                    *)
EXTENDS LicensePlan, TLAPS

USE PlanAssumption DEF PlanAssumption

-----------------------------------------------------------------------------
(* Type correctness.                                                         *)

\* TypeOK without the history of answers, which Next writes beside Step.
Typed ==
    /\ now \in 0 .. MaxTime
    /\ clients \in [Names -> Client \cup {NoRow}]
    /\ licenses \in [Keys -> License \cup {NoRow}]
    /\ HandlersOK
    /\ entCache \in [Names -> Entry \cup {NoEntry}] /\ pods \in [Pods -> Pod]
    /\ HistoryOK

\* A handler goes on with a new local state.
LEMMA BeginType ==
    ASSUME TypeOK, NEW h \in Handlers, NEW label \in Labels, NEW what \in Loc,
           pc' = [pc EXCEPT ![h] = label], loc' = [loc EXCEPT ![h] = what],
           label \in {"genActivate", "partnerLicense", "reactSet"} => what.key \in Keys
    PROVE  HandlersOK'
  BY DEF TypeOK, HandlersOK

LEMMA GotoType ==
    ASSUME TypeOK, NEW h \in Handlers, NEW label \in Labels, loc[h] \in Loc,
           Goto(h, label), loc' = loc,
           label \notin {"genActivate", "partnerLicense", "reactSet"}
    PROVE  HandlersOK'
  BY DEF TypeOK, HandlersOK, Goto

LEMMA EndType ==
    ASSUME TypeOK, NEW h \in Handlers, End(h)
    PROVE  HandlersOK'
  BY DEF TypeOK, HandlersOK, End, Goto, Labels

\* The rows, and what the statements make of them.
LEMMA Rows ==
    ASSUME TypeOK
    PROVE  /\ \A n \in Names : IsClient(n) => clients[n] \in Client
           /\ \A k \in Keys : IsLicense(k) => licenses[k] \in License
           /\ now \in Nat /\ now + Duration \in Nat
  BY DEF TypeOK, IsClient, IsLicense

LEMMA ClientEdits ==
    ASSUME NEW t \in Tiers, NEW b \in BOOLEAN, NEW s \in {"active", "pending"}
    PROVE  /\ NewClient(t, s) \in Client
           /\ \A r \in Client :
                 /\ [r EXCEPT !.status = s] \in Client
                 /\ [r EXCEPT !.status = s, !.tier = t] \in Client
                 /\ [r EXCEPT !.tier = t] \in Client
                 /\ [r EXCEPT !.addon = b] \in Client
  BY DEF Client, NewClient

LEMMA LicenseEdits ==
    ASSUME NEW r \in License, NEW s \in {"active", "revoked"}
    PROVE  /\ [r EXCEPT !.status = s] \in License
           /\ \A e \in Nat : [r EXCEPT !.status = s, !.expires = e] \in License
           /\ \A t \in Tiers : [r EXCEPT !.tier = t] \in License
           /\ \A b \in BOOLEAN : [r EXCEPT !.addon = b] \in License
  BY DEF License

LEMMA NewLicenseType ==
    ASSUME TypeOK, NEW t \in Tiers PROVE NewLicense(t) \in License
  BY Rows DEF License, NewLicense

LEMMA PodEdits ==
    ASSUME NEW r \in Pod, NEW b \in BOOLEAN
    PROVE  /\ [r EXCEPT !.phase = "answer", !.risk = b] \in Pod
           /\ [r EXCEPT !.phase = "read", !.risk = b] \in Pod
           /\ [r EXCEPT !.phase = "answer", !.risk = b, !.stale = TRUE] \in Pod
           /\ [r EXCEPT !.phase = "answer"] \in Pod
           /\ \A s \in Nat, e \in Entry \cup {NoEntry} :
                 [r EXCEPT !.phase = "asked", !.start = s, !.seen = e] \in Pod
  BY DEF Pod

LEMMA StepType == TypeOK /\ Step => Typed'
  <1>. SUFFICES ASSUME TypeOK, Step PROVE Typed'
    OBVIOUS
  <1>1. ASSUME NEW h \in Handlers, NEW k \in Keys, NEW t \in Tiers, GenInsert(h, k, t)
        PROVE  Typed'
    <2>1. clients' \in [Names -> Client \cup {NoRow}]
      BY <1>1 DEF GenInsert, TypeOK, central
    <2>2. (IF IsLicense(k) THEN [licenses[k] EXCEPT !.status = "active",
                                                  !.expires = now + Duration]
                         ELSE NewLicense(t)) \in License
      BY <1>1, Rows, LicenseEdits, NewLicenseType DEF GenInsert, TypeOK,
         HandlersOK, Loc
    <2>3. licenses' \in [Keys -> License \cup {NoRow}]
      BY <1>1, <2>2 DEF GenInsert, TypeOK, HandlersOK, PutLicense
    <2>4. (Asked(NameOf[k], t, k)) \in Loc
      BY <1>1 DEF GenInsert, TypeOK, Asked, Loc, ClientsOf, Active
    <2>5. (Asked(NameOf[k], t, k)).key \in Keys
      BY <1>1 DEF Asked
    <2>6. HandlersOK'
      BY <1>1, <2>4, <2>5, BeginType DEF GenInsert, TypeOK, Begin, Goto,
         Labels
    <2>7. entCache' \in [Names -> Entry \cup {NoEntry}] /\ pods' \in [Pods -> Pod]
      BY <1>1 DEF GenInsert, TypeOK, cached
    <2>8. HistoryOK'
      BY <1>1 DEF GenInsert, TypeOK, HandlersOK, HistoryOK, history, Fault,
         Loc
    <2>9. now' \in 0 .. MaxTime
      BY <1>1 DEF GenInsert, TypeOK
    <2>. QED
      BY <2>1, <2>3, <2>6, <2>7, <2>8, <2>9 DEF Typed

  <1>2. ASSUME NEW h \in Handlers, GenActivate(h)
        PROVE  Typed'
    <2>1. loc[h] \in Loc
      BY <1>2 DEF GenActivate, TypeOK, HandlersOK
    <2>2. clients' \in [Names -> Client \cup {NoRow}]
      BY <1>2, <2>1, Rows, ClientEdits DEF GenActivate, TypeOK, ClientsOf,
         Waiting, Loc
    <2>3. licenses' \in [Keys -> License \cup {NoRow}]
      BY <1>2 DEF GenActivate, TypeOK, central
    <2>4. HandlersOK'
      BY <1>2, EndType DEF GenActivate
    <2>5. entCache' \in [Names -> Entry \cup {NoEntry}] /\ pods' \in [Pods -> Pod]
      BY <1>2 DEF GenActivate, TypeOK, cached
    <2>6. HistoryOK'
      BY <1>2 DEF GenActivate, TypeOK, HistoryOK, history
    <2>7. now' \in 0 .. MaxTime
      BY <1>2 DEF GenActivate, TypeOK
    <2>. QED
      BY <2>2, <2>3, <2>4, <2>5, <2>6, <2>7 DEF Typed

  <1>3. ASSUME NEW k \in Keys, RevokeLicense(k)
        PROVE  Typed'
    <2>1. clients' \in [Names -> Client \cup {NoRow}]
      BY <1>3 DEF RevokeLicense, TypeOK, central
    <2>2. ([licenses[k] EXCEPT !.status = "revoked"]) \in License
      BY <1>3, Rows, LicenseEdits, NewLicenseType DEF RevokeLicense, TypeOK,
         HandlersOK, Loc
    <2>3. licenses' \in [Keys -> License \cup {NoRow}]
      BY <1>3, <2>2 DEF RevokeLicense, TypeOK, HandlersOK, PutLicense
    <2>4. HandlersOK'
      BY <1>3 DEF RevokeLicense, TypeOK, HandlersOK, console
    <2>5. entCache' \in [Names -> Entry \cup {NoEntry}] /\ pods' \in [Pods -> Pod]
      BY <1>3 DEF RevokeLicense, TypeOK, cached
    <2>6. HistoryOK'
      BY <1>3 DEF RevokeLicense, TypeOK, HistoryOK, history
    <2>7. now' \in 0 .. MaxTime
      BY <1>3 DEF RevokeLicense, TypeOK
    <2>. QED
      BY <2>1, <2>3, <2>4, <2>5, <2>6, <2>7 DEF Typed

  <1>4. ASSUME NEW h \in Handlers, NEW k \in Keys, NEW t \in Tiers, ReactRead(h, k, t)
        PROVE  Typed'
    <2>1. clients' \in [Names -> Client \cup {NoRow}]
      BY <1>4 DEF ReactRead, TypeOK, central
    <2>2. licenses' \in [Keys -> License \cup {NoRow}]
      BY <1>4 DEF ReactRead, TypeOK, central
    <2>3. \A b \in BOOLEAN : [Asked(NameOf[k], t, k) EXCEPT !.on = b] \in Loc
      BY <1>4 DEF Asked, Loc
    <2>4. (licenses[k].expires < now) \in BOOLEAN
      BY <1>4 DEF ReactRead
    <2>5. ([Asked(NameOf[k], t, k) EXCEPT !.on = (licenses[k].expires < now)]) \in Loc
      BY <2>3, <2>4, Zenon
    <2>6. ([Asked(NameOf[k], t, k) EXCEPT !.on = (licenses[k].expires < now)]).key \in Keys
      BY <1>4 DEF Asked
    <2>7. HandlersOK'
      BY <1>4, <2>5, <2>6, BeginType DEF ReactRead, TypeOK, Begin, Goto,
         Labels
    <2>8. entCache' \in [Names -> Entry \cup {NoEntry}] /\ pods' \in [Pods -> Pod]
      BY <1>4 DEF ReactRead, TypeOK, cached
    <2>9. HistoryOK'
      BY <1>4 DEF ReactRead, TypeOK, HistoryOK, history
    <2>10. now' \in 0 .. MaxTime
      BY <1>4 DEF ReactRead, TypeOK
    <2>. QED
      BY <2>1, <2>2, <2>7, <2>8, <2>9, <2>10 DEF Typed

  <1>5. ASSUME NEW h \in Handlers, ReactSet(h)
        PROVE  Typed'
    <2>1. loc[h] \in Loc
      BY <1>5 DEF ReactSet, TypeOK, HandlersOK
    <2>2. clients' \in [Names -> Client \cup {NoRow}]
      BY <1>5 DEF ReactSet, TypeOK, central
    <2>3. IsLicense(loc[h].key) =>
            (IF loc[h].on THEN now + Duration ELSE licenses[loc[h].key].expires) \in Nat
      BY <1>5, <2>1, Rows DEF ReactSet, TypeOK, HandlersOK, License
    <2>4. IsLicense(loc[h].key) =>
            [licenses[loc[h].key] EXCEPT
               !.status = "active",
               !.expires = IF loc[h].on THEN now + Duration ELSE @] \in License
      BY <1>5, <2>1, <2>3, Rows, LicenseEdits DEF ReactSet, TypeOK,
         HandlersOK, Loc
    <2>5. licenses' \in [Keys -> License \cup {NoRow}]
      BY <1>5, <2>1, <2>4 DEF ReactSet, TypeOK, HandlersOK, PutLicense
    <2>6. HandlersOK'
      BY <1>5, EndType DEF ReactSet
    <2>7. entCache' \in [Names -> Entry \cup {NoEntry}] /\ pods' \in [Pods -> Pod]
      BY <1>5 DEF ReactSet, TypeOK, cached
    <2>8. HistoryOK'
      BY <1>5 DEF ReactSet, TypeOK, HistoryOK, history
    <2>9. now' \in 0 .. MaxTime
      BY <1>5 DEF ReactSet, TypeOK
    <2>. QED
      BY <2>2, <2>5, <2>6, <2>7, <2>8, <2>9 DEF Typed

  <1>6. ASSUME NEW h \in Handlers, NEW n \in Names, NEW t \in Tiers, CreateCheck(h, n, t)
        PROVE  Typed'
    <2>1. clients' \in [Names -> Client \cup {NoRow}]
      BY <1>6 DEF CreateCheck, TypeOK, central
    <2>2. licenses' \in [Keys -> License \cup {NoRow}]
      BY <1>6 DEF CreateCheck, TypeOK, central
    <2>3. (Asked(n, t, NoKey)) \in Loc
      BY <1>6 DEF CreateCheck, TypeOK, Asked, Loc, ClientsOf, Active
    <2>4. HandlersOK'
      BY <1>6, <2>3, BeginType DEF CreateCheck, TypeOK, Begin, Goto, Labels
    <2>5. entCache' \in [Names -> Entry \cup {NoEntry}] /\ pods' \in [Pods -> Pod]
      BY <1>6 DEF CreateCheck, TypeOK, cached
    <2>6. HistoryOK'
      BY <1>6 DEF CreateCheck, TypeOK, HistoryOK, history
    <2>7. now' \in 0 .. MaxTime
      BY <1>6 DEF CreateCheck, TypeOK
    <2>. QED
      BY <2>1, <2>2, <2>4, <2>5, <2>6, <2>7 DEF Typed

  <1>7. ASSUME NEW h \in Handlers, CreateInsert(h)
        PROVE  Typed'
    <2>1. loc[h] \in Loc
      BY <1>7 DEF CreateInsert, TypeOK, HandlersOK
    <2>2. (NewClient(loc[h].tier, "active")) \in Client \cup {NoRow}
      BY <1>7, <2>1, Rows, ClientEdits DEF CreateInsert, Loc
    <2>3. clients' \in [Names -> Client \cup {NoRow}]
      BY <1>7, <2>1, <2>2 DEF CreateInsert, TypeOK, PutClient, Loc
    <2>4. licenses' \in [Keys -> License \cup {NoRow}]
      BY <1>7 DEF CreateInsert, TypeOK, central
    <2>5. HandlersOK'
      BY <1>7, EndType DEF CreateInsert
    <2>6. entCache' \in [Names -> Entry \cup {NoEntry}] /\ pods' \in [Pods -> Pod]
      BY <1>7 DEF CreateInsert, TypeOK, cached
    <2>7. HistoryOK'
      BY <1>7 DEF CreateInsert, TypeOK, HistoryOK, history
    <2>8. now' \in 0 .. MaxTime
      BY <1>7 DEF CreateInsert, TypeOK
    <2>. QED
      BY <2>3, <2>4, <2>5, <2>6, <2>7, <2>8 DEF Typed

  <1>8. ASSUME NEW n \in Names, NEW t \in Tiers, DeployClient(n, t)
        PROVE  Typed'
    <2>1. (IF IsClient(n) THEN [clients[n] EXCEPT !.status = "active"]
                         ELSE NewClient(t, "active")) \in Client \cup {NoRow}
      BY <1>8, Rows, ClientEdits DEF DeployClient, Loc
    <2>2. clients' \in [Names -> Client \cup {NoRow}]
      BY <1>8, <2>1 DEF DeployClient, TypeOK, PutClient
    <2>3. licenses' \in [Keys -> License \cup {NoRow}]
      BY <1>8 DEF DeployClient, TypeOK, central
    <2>4. HandlersOK'
      BY <1>8 DEF DeployClient, TypeOK, HandlersOK, console
    <2>5. entCache' \in [Names -> Entry \cup {NoEntry}] /\ pods' \in [Pods -> Pod]
      BY <1>8 DEF DeployClient, TypeOK, cached
    <2>6. HistoryOK'
      BY <1>8 DEF DeployClient, TypeOK, HistoryOK, history
    <2>7. now' \in 0 .. MaxTime
      BY <1>8 DEF DeployClient, TypeOK
    <2>. QED
      BY <2>2, <2>3, <2>4, <2>5, <2>6, <2>7 DEF Typed

  <1>9. ASSUME NEW n \in Names, NEW t \in Tiers, StripeClient(n, t)
        PROVE  Typed'
    <2>1. (IF IsClient(n) THEN [clients[n] EXCEPT !.status = "active", !.tier = t]
                         ELSE NewClient(t, "active")) \in Client \cup {NoRow}
      BY <1>9, Rows, ClientEdits DEF StripeClient, Loc
    <2>2. clients' \in [Names -> Client \cup {NoRow}]
      BY <1>9, <2>1 DEF StripeClient, TypeOK, PutClient
    <2>3. licenses' \in [Keys -> License \cup {NoRow}]
      BY <1>9 DEF StripeClient, TypeOK, central
    <2>4. HandlersOK'
      BY <1>9 DEF StripeClient, TypeOK, HandlersOK, console
    <2>5. entCache' \in [Names -> Entry \cup {NoEntry}] /\ pods' \in [Pods -> Pod]
      BY <1>9 DEF StripeClient, TypeOK, cached
    <2>6. HistoryOK'
      BY <1>9 DEF StripeClient, TypeOK, HistoryOK, history
    <2>7. now' \in 0 .. MaxTime
      BY <1>9 DEF StripeClient, TypeOK
    <2>. QED
      BY <2>2, <2>3, <2>4, <2>5, <2>6, <2>7 DEF Typed

  <1>10. ASSUME NEW k \in Keys, NEW t \in Tiers, StripeLicense(k, t)
        PROVE  Typed'
    <2>1. clients' \in [Names -> Client \cup {NoRow}]
      BY <1>10 DEF StripeLicense, TypeOK, central
    <2>2. (NewLicense(t)) \in License
      BY <1>10, Rows, LicenseEdits, NewLicenseType DEF StripeLicense, TypeOK,
         HandlersOK, Loc
    <2>3. licenses' \in [Keys -> License \cup {NoRow}]
      BY <1>10, <2>2 DEF StripeLicense, TypeOK, HandlersOK, PutLicense
    <2>4. HandlersOK'
      BY <1>10 DEF StripeLicense, TypeOK, HandlersOK, console
    <2>5. entCache' \in [Names -> Entry \cup {NoEntry}] /\ pods' \in [Pods -> Pod]
      BY <1>10 DEF StripeLicense, TypeOK, cached
    <2>6. HistoryOK'
      BY <1>10 DEF StripeLicense, TypeOK, HistoryOK, history
    <2>7. now' \in 0 .. MaxTime
      BY <1>10 DEF StripeLicense, TypeOK
    <2>. QED
      BY <2>1, <2>3, <2>4, <2>5, <2>6, <2>7 DEF Typed

  <1>11. ASSUME NEW n \in Names, NEW t \in Tiers, OnboardUser(n, t)
        PROVE  Typed'
    <2>1. (IF IsClient(n) THEN [clients[n] EXCEPT !.status = "pending"]
                         ELSE NewClient(t, "pending")) \in Client \cup {NoRow}
      BY <1>11, Rows, ClientEdits DEF OnboardUser, Loc
    <2>2. clients' \in [Names -> Client \cup {NoRow}]
      BY <1>11, <2>1 DEF OnboardUser, TypeOK, PutClient
    <2>3. licenses' \in [Keys -> License \cup {NoRow}]
      BY <1>11 DEF OnboardUser, TypeOK, central
    <2>4. HandlersOK'
      BY <1>11 DEF OnboardUser, TypeOK, HandlersOK, console
    <2>5. entCache' \in [Names -> Entry \cup {NoEntry}] /\ pods' \in [Pods -> Pod]
      BY <1>11 DEF OnboardUser, TypeOK, cached
    <2>6. HistoryOK'
      BY <1>11 DEF OnboardUser, TypeOK, HandlersOK, HistoryOK, history, Fault,
         Loc
    <2>7. now' \in 0 .. MaxTime
      BY <1>11 DEF OnboardUser, TypeOK
    <2>. QED
      BY <2>2, <2>3, <2>4, <2>5, <2>6, <2>7 DEF Typed

  <1>12. ASSUME NEW h \in Handlers, NEW k \in Keys, NEW t \in Tiers, PartnerClient(h, k, t)
        PROVE  Typed'
    <2>1. (NewClient(t, "active")) \in Client \cup {NoRow}
      BY <1>12, Rows, ClientEdits DEF PartnerClient, Loc
    <2>2. clients' \in [Names -> Client \cup {NoRow}]
      BY <1>12, <2>1 DEF PartnerClient, TypeOK, PutClient, Loc
    <2>3. licenses' \in [Keys -> License \cup {NoRow}]
      BY <1>12 DEF PartnerClient, TypeOK, central
    <2>4. (Asked(NameOf[k], t, k)) \in Loc
      BY <1>12 DEF PartnerClient, TypeOK, Asked, Loc, ClientsOf, Active
    <2>5. (Asked(NameOf[k], t, k)).key \in Keys
      BY <1>12 DEF Asked
    <2>6. HandlersOK'
      BY <1>12, <2>4, <2>5, BeginType DEF PartnerClient, TypeOK, Begin, Goto,
         Labels
    <2>7. entCache' \in [Names -> Entry \cup {NoEntry}] /\ pods' \in [Pods -> Pod]
      BY <1>12 DEF PartnerClient, TypeOK, cached
    <2>8. HistoryOK'
      BY <1>12 DEF PartnerClient, TypeOK, HistoryOK, history
    <2>9. now' \in 0 .. MaxTime
      BY <1>12 DEF PartnerClient, TypeOK
    <2>. QED
      BY <2>2, <2>3, <2>6, <2>7, <2>8, <2>9 DEF Typed

  <1>13. ASSUME NEW h \in Handlers, PartnerLicense(h)
        PROVE  Typed'
    <2>1. loc[h] \in Loc
      BY <1>13 DEF PartnerLicense, TypeOK, HandlersOK
    <2>2. clients' \in [Names -> Client \cup {NoRow}]
      BY <1>13 DEF PartnerLicense, TypeOK, central
    <2>3. (NewLicense(loc[h].tier)) \in License
      BY <1>13, <2>1, Rows, LicenseEdits, NewLicenseType DEF PartnerLicense,
         TypeOK, HandlersOK, Loc
    <2>4. licenses' \in [Keys -> License \cup {NoRow}]
      BY <1>13, <2>1, <2>3 DEF PartnerLicense, TypeOK, HandlersOK, PutLicense
    <2>5. HandlersOK'
      BY <1>13, EndType DEF PartnerLicense
    <2>6. entCache' \in [Names -> Entry \cup {NoEntry}] /\ pods' \in [Pods -> Pod]
      BY <1>13 DEF PartnerLicense, TypeOK, cached
    <2>7. HistoryOK'
      BY <1>13 DEF PartnerLicense, TypeOK, HistoryOK, history
    <2>8. now' \in 0 .. MaxTime
      BY <1>13 DEF PartnerLicense, TypeOK
    <2>. QED
      BY <2>2, <2>4, <2>5, <2>6, <2>7, <2>8 DEF Typed

  <1>14. ASSUME NEW n \in Names, NEW t \in Tiers, UpdateSubscription(n, t)
        PROVE  Typed'
    <2>1. ([clients[n] EXCEPT !.tier = t]) \in Client \cup {NoRow}
      BY <1>14, Rows, ClientEdits DEF UpdateSubscription, Loc
    <2>2. clients' \in [Names -> Client \cup {NoRow}]
      BY <1>14, <2>1 DEF UpdateSubscription, TypeOK, PutClient
    <2>3. licenses' \in [Keys -> License \cup {NoRow}]
      BY <1>14 DEF UpdateSubscription, TypeOK, central
    <2>4. HandlersOK'
      BY <1>14 DEF UpdateSubscription, TypeOK, HandlersOK, console
    <2>5. entCache' \in [Names -> Entry \cup {NoEntry}] /\ pods' \in [Pods -> Pod]
      BY <1>14 DEF UpdateSubscription, TypeOK, cached
    <2>6. HistoryOK'
      BY <1>14 DEF UpdateSubscription, TypeOK, HistoryOK, history
    <2>7. now' \in 0 .. MaxTime
      BY <1>14 DEF UpdateSubscription, TypeOK
    <2>. QED
      BY <2>2, <2>3, <2>4, <2>5, <2>6, <2>7 DEF Typed

  <1>15. ASSUME NEW h \in Handlers, NEW n \in Names, NEW t \in Tiers, NEW on \in BOOLEAN,
                AddonCheck(h, n, t, on)
        PROVE  Typed'
    <2>1. clients' \in [Names -> Client \cup {NoRow}]
      BY <1>15 DEF AddonCheck, TypeOK, central
    <2>2. licenses' \in [Keys -> License \cup {NoRow}]
      BY <1>15 DEF AddonCheck, TypeOK, central
    <2>3. ([Asked(n, t, NoKey) EXCEPT !.on = on]) \in Loc
      BY <1>15 DEF AddonCheck, TypeOK, Asked, Loc, ClientsOf, Active
    <2>4. HandlersOK'
      BY <1>15, <2>3, BeginType DEF AddonCheck, TypeOK, Begin, Goto, Labels
    <2>5. entCache' \in [Names -> Entry \cup {NoEntry}] /\ pods' \in [Pods -> Pod]
      BY <1>15 DEF AddonCheck, TypeOK, cached
    <2>6. HistoryOK'
      BY <1>15 DEF AddonCheck, TypeOK, HistoryOK, history
    <2>7. now' \in 0 .. MaxTime
      BY <1>15 DEF AddonCheck, TypeOK
    <2>. QED
      BY <2>1, <2>2, <2>4, <2>5, <2>6, <2>7 DEF Typed

  <1>16. ASSUME NEW h \in Handlers, AddonClient(h)
        PROVE  Typed'
    <2>1. loc[h] \in Loc
      BY <1>16 DEF AddonClient, TypeOK, HandlersOK
    <2>2. clients' \in [Names -> Client \cup {NoRow}]
      BY <1>16, <2>1, Rows, ClientEdits DEF AddonClient, TypeOK, ClientsOf,
         Waiting, Loc
    <2>3. licenses' \in [Keys -> License \cup {NoRow}]
      BY <1>16 DEF AddonClient, TypeOK, central
    <2>4. HandlersOK'
      BY <1>16, <2>1, GotoType DEF AddonClient, Labels
    <2>5. entCache' \in [Names -> Entry \cup {NoEntry}] /\ pods' \in [Pods -> Pod]
      BY <1>16 DEF AddonClient, TypeOK, cached
    <2>6. HistoryOK'
      BY <1>16 DEF AddonClient, TypeOK, HistoryOK, history
    <2>7. now' \in 0 .. MaxTime
      BY <1>16 DEF AddonClient, TypeOK
    <2>. QED
      BY <2>2, <2>3, <2>4, <2>5, <2>6, <2>7 DEF Typed

  <1>17. ASSUME NEW h \in Handlers, AddonLicenses(h)
        PROVE  Typed'
    <2>1. loc[h] \in Loc
      BY <1>17 DEF AddonLicenses, TypeOK, HandlersOK
    <2>2. clients' \in [Names -> Client \cup {NoRow}]
      BY <1>17 DEF AddonLicenses, TypeOK, central
    <2>3. licenses' \in [Keys -> License \cup {NoRow}]
      BY <1>17, <2>1, Rows, LicenseEdits DEF AddonLicenses, TypeOK, Active,
         Loc
    <2>4. HandlersOK'
      BY <1>17, EndType DEF AddonLicenses
    <2>5. entCache' \in [Names -> Entry \cup {NoEntry}] /\ pods' \in [Pods -> Pod]
      BY <1>17 DEF AddonLicenses, TypeOK, cached
    <2>6. HistoryOK'
      BY <1>17 DEF AddonLicenses, TypeOK, HistoryOK, history
    <2>7. now' \in 0 .. MaxTime
      BY <1>17 DEF AddonLicenses, TypeOK
    <2>. QED
      BY <2>2, <2>3, <2>4, <2>5, <2>6, <2>7 DEF Typed

  <1>18. ASSUME NEW h \in Handlers, NEW n \in Names, NEW t \in Tiers, PlanClient(h, n, t)
        PROVE  Typed'
    <2>1. clients' \in [Names -> Client \cup {NoRow}]
      BY <1>18 DEF PlanClient, TypeOK, central
    <2>2. licenses' \in [Keys -> License \cup {NoRow}]
      BY <1>18 DEF PlanClient, TypeOK, central
    <2>3. ([Asked(n, t, NoKey) EXCEPT !.rows = ClientsOf(n)]) \in Loc
      BY <1>18 DEF PlanClient, TypeOK, Asked, Loc, ClientsOf, Active
    <2>4. HandlersOK'
      BY <1>18, <2>3, BeginType DEF PlanClient, TypeOK, Begin, Goto, Labels
    <2>5. entCache' \in [Names -> Entry \cup {NoEntry}] /\ pods' \in [Pods -> Pod]
      BY <1>18 DEF PlanClient, TypeOK, cached
    <2>6. HistoryOK'
      BY <1>18 DEF PlanClient, TypeOK, HistoryOK, history
    <2>7. now' \in 0 .. MaxTime
      BY <1>18 DEF PlanClient, TypeOK
    <2>. QED
      BY <2>1, <2>2, <2>4, <2>5, <2>6, <2>7 DEF Typed

  <1>19. ASSUME NEW h \in Handlers, PlanLicenses(h)
        PROVE  Typed'
    <2>1. loc[h] \in Loc
      BY <1>19 DEF PlanLicenses, TypeOK, HandlersOK
    <2>2. clients' \in [Names -> Client \cup {NoRow}]
      BY <1>19 DEF PlanLicenses, TypeOK, central
    <2>3. licenses' \in [Keys -> License \cup {NoRow}]
      BY <1>19 DEF PlanLicenses, TypeOK, central
    <2>4. ([loc[h] EXCEPT !.keys = Active(loc[h].name)]) \in Loc
      BY <1>19, <2>1 DEF PlanLicenses, TypeOK, Asked, Loc, ClientsOf, Active
    <2>5. HandlersOK'
      BY <1>19, <2>1, <2>4, BeginType DEF PlanLicenses, TypeOK, Begin, Goto,
         Labels
    <2>6. entCache' \in [Names -> Entry \cup {NoEntry}] /\ pods' \in [Pods -> Pod]
      BY <1>19 DEF PlanLicenses, TypeOK, cached
    <2>7. HistoryOK'
      BY <1>19 DEF PlanLicenses, TypeOK, HistoryOK, history
    <2>8. now' \in 0 .. MaxTime
      BY <1>19 DEF PlanLicenses, TypeOK
    <2>. QED
      BY <2>2, <2>3, <2>5, <2>6, <2>7, <2>8 DEF Typed

  <1>20. ASSUME NEW h \in Handlers, PlanCommit(h)
        PROVE  Typed'
    <2>1. loc[h] \in Loc
      BY <1>20 DEF PlanCommit, TypeOK, HandlersOK
    <2>2. clients' \in [Names -> Client \cup {NoRow}]
      BY <1>20, <2>1, Rows, ClientEdits DEF PlanCommit, TypeOK, ClientsOf,
         Waiting, Loc
    <2>3. licenses' \in [Keys -> License \cup {NoRow}]
      BY <1>20, <2>1, Rows, LicenseEdits DEF PlanCommit, TypeOK, Active, Loc
    <2>4. HandlersOK'
      BY <1>20, EndType DEF PlanCommit
    <2>5. entCache' \in [Names -> Entry \cup {NoEntry}] /\ pods' \in [Pods -> Pod]
      BY <1>20 DEF PlanCommit, TypeOK, cached
    <2>6. HistoryOK'
      BY <1>20 DEF PlanCommit, TypeOK, HistoryOK, history
    <2>7. now' \in 0 .. MaxTime
      BY <1>20 DEF PlanCommit, TypeOK
    <2>. QED
      BY <2>2, <2>3, <2>4, <2>5, <2>6, <2>7 DEF Typed

  <1>21. ASSUME NEW h \in Handlers, NEW n \in Names, NEW t \in Tiers, DelLicenses(h, n, t)
        PROVE  Typed'
    <2>1. clients' \in [Names -> Client \cup {NoRow}]
      BY <1>21 DEF DelLicenses, TypeOK, central
    <2>2. licenses' \in [Keys -> License \cup {NoRow}]
      BY <1>21 DEF DelLicenses, TypeOK, central
    <2>3. ([Asked(n, t, NoKey) EXCEPT 
              !.keys = {i \in Keys : IsLicense(i) /\ NameOf[i] = n}]) \in Loc
      BY <1>21 DEF DelLicenses, TypeOK, Asked, Loc, ClientsOf, Active
    <2>4. HandlersOK'
      BY <1>21, <2>3, BeginType DEF DelLicenses, TypeOK, Begin, Goto, Labels
    <2>5. entCache' \in [Names -> Entry \cup {NoEntry}] /\ pods' \in [Pods -> Pod]
      BY <1>21 DEF DelLicenses, TypeOK, cached
    <2>6. HistoryOK'
      BY <1>21 DEF DelLicenses, TypeOK, HistoryOK, history
    <2>7. now' \in 0 .. MaxTime
      BY <1>21 DEF DelLicenses, TypeOK
    <2>. QED
      BY <2>1, <2>2, <2>4, <2>5, <2>6, <2>7 DEF Typed

  <1>22. ASSUME NEW h \in Handlers, DelCommit(h)
        PROVE  Typed'
    <2>1. loc[h] \in Loc
      BY <1>22 DEF DelCommit, TypeOK, HandlersOK
    <2>2. clients' \in [Names -> Client \cup {NoRow}]
      BY <1>22, <2>1 DEF DelCommit, TypeOK, PutClient, Loc
    <2>3. licenses' \in [Keys -> License \cup {NoRow}]
      BY <1>22, <2>1, Rows, LicenseEdits DEF DelCommit, TypeOK, Active, Loc
    <2>4. HandlersOK'
      BY <1>22, EndType DEF DelCommit
    <2>5. entCache' \in [Names -> Entry \cup {NoEntry}] /\ pods' \in [Pods -> Pod]
      BY <1>22 DEF DelCommit, TypeOK, cached
    <2>6. HistoryOK'
      BY <1>22, <2>1 DEF DelCommit, TypeOK, HandlersOK, HistoryOK, history,
         Fault, Loc
    <2>7. now' \in 0 .. MaxTime
      BY <1>22 DEF DelCommit, TypeOK
    <2>. QED
      BY <2>2, <2>3, <2>4, <2>5, <2>6, <2>7 DEF Typed

  <1>23. ASSUME NEW h \in Handlers, HandlerFails(h)
        PROVE  Typed'
    <2>1. clients' \in [Names -> Client \cup {NoRow}]
      BY <1>23 DEF HandlerFails, TypeOK, central
    <2>2. licenses' \in [Keys -> License \cup {NoRow}]
      BY <1>23 DEF HandlerFails, TypeOK, central
    <2>3. HandlersOK'
      BY <1>23, EndType DEF HandlerFails
    <2>4. entCache' \in [Names -> Entry \cup {NoEntry}] /\ pods' \in [Pods -> Pod]
      BY <1>23 DEF HandlerFails, TypeOK, cached
    <2>5. HistoryOK'
      BY <1>23 DEF HandlerFails, TypeOK, HandlersOK, HistoryOK, history,
         Fault, Loc
    <2>6. now' \in 0 .. MaxTime
      BY <1>23 DEF HandlerFails, TypeOK
    <2>. QED
      BY <2>1, <2>2, <2>3, <2>4, <2>5, <2>6 DEF Typed

  <1>24. ASSUME NEW h \in Handlers, NEW d \in Handlers, BreakDeadlock(h, d)
        PROVE  Typed'
    <2>1. clients' \in [Names -> Client \cup {NoRow}]
      BY <1>24 DEF BreakDeadlock, TypeOK, central
    <2>2. licenses' \in [Keys -> License \cup {NoRow}]
      BY <1>24 DEF BreakDeadlock, TypeOK, central
    <2>3. HandlersOK'
      BY <1>24, EndType DEF BreakDeadlock
    <2>4. entCache' \in [Names -> Entry \cup {NoEntry}] /\ pods' \in [Pods -> Pod]
      BY <1>24 DEF BreakDeadlock, TypeOK, cached
    <2>5. HistoryOK'
      BY <1>24 DEF BreakDeadlock, TypeOK, HistoryOK, history
    <2>6. now' \in 0 .. MaxTime
      BY <1>24 DEF BreakDeadlock, TypeOK
    <2>. QED
      BY <2>1, <2>2, <2>3, <2>4, <2>5, <2>6 DEF Typed

  <1>25. ASSUME NEW p \in Pods, AskCached(p)
        PROVE  Typed'
    <2>1. clients' \in [Names -> Client \cup {NoRow}]
      BY <1>25 DEF AskCached, TypeOK, central
    <2>2. licenses' \in [Keys -> License \cup {NoRow}]
      BY <1>25 DEF AskCached, TypeOK, central
    <2>3. HandlersOK'
      BY <1>25 DEF AskCached, TypeOK, HandlersOK, console
    <2>4. entCache' \in [Names -> Entry \cup {NoEntry}]
      BY <1>25 DEF AskCached, TypeOK
    <2>5. PICK b \in BOOLEAN :
            pods' = [pods EXCEPT ![p].phase = "answer", ![p].risk = b]
      BY <1>25 DEF AskCached, TypeOK, Young, Entry
    <2>6. pods' \in [Pods -> Pod]
      BY <1>25, <2>5, PodEdits DEF TypeOK
    <2>7. HistoryOK'
      BY <1>25 DEF AskCached, TypeOK, HistoryOK, history
    <2>8. now' \in 0 .. MaxTime
      BY <1>25 DEF AskCached, TypeOK
    <2>. QED
      BY <2>1, <2>2, <2>3, <2>4, <2>6, <2>7, <2>8 DEF Typed

  <1>26. ASSUME NEW p \in Pods, AskCentral(p)
        PROVE  Typed'
    <2>1. clients' \in [Names -> Client \cup {NoRow}]
      BY <1>26 DEF AskCentral, TypeOK, central
    <2>2. licenses' \in [Keys -> License \cup {NoRow}]
      BY <1>26 DEF AskCentral, TypeOK, central
    <2>3. HandlersOK'
      BY <1>26 DEF AskCentral, TypeOK, HandlersOK, console
    <2>4. entCache' \in [Names -> Entry \cup {NoEntry}]
      BY <1>26 DEF AskCentral, TypeOK
    <2>5. now \in Nat /\ entCache[PodName[p]] \in Entry \cup {NoEntry}
      BY <1>26 DEF TypeOK
    <2>6. pods' = [pods EXCEPT ![p].phase = "asked", ![p].start = now,
                    ![p].seen = entCache[PodName[p]]]
      BY <1>26 DEF AskCentral
    <2>7. pods' \in [Pods -> Pod]
      BY <1>26, <2>5, <2>6, PodEdits DEF TypeOK
    <2>8. HistoryOK'
      BY <1>26 DEF AskCentral, TypeOK, HistoryOK, history
    <2>9. now' \in 0 .. MaxTime
      BY <1>26 DEF AskCentral, TypeOK
    <2>. QED
      BY <2>1, <2>2, <2>3, <2>4, <2>7, <2>8, <2>9 DEF Typed

  <1>27. ASSUME NEW p \in Pods, CentralReads(p)
        PROVE  Typed'
    <2>1. clients' \in [Names -> Client \cup {NoRow}]
      BY <1>27 DEF CentralReads, TypeOK, central
    <2>2. licenses' \in [Keys -> License \cup {NoRow}]
      BY <1>27 DEF CentralReads, TypeOK, central
    <2>3. HandlersOK'
      BY <1>27 DEF CentralReads, TypeOK, HandlersOK, console
    <2>4. entCache' \in [Names -> Entry \cup {NoEntry}]
      BY <1>27 DEF CentralReads, TypeOK
    <2>5. PICK b \in BOOLEAN :
            pods' = [pods EXCEPT ![p].phase = "read", ![p].risk = b]
      BY <1>27 DEF CentralReads, TypeOK, Entitlements, HasAddon,
         LicenseEligible
    <2>6. pods' \in [Pods -> Pod]
      BY <1>27, <2>5, PodEdits DEF TypeOK
    <2>7. HistoryOK'
      BY <1>27 DEF CentralReads, TypeOK, HistoryOK, history
    <2>8. now' \in 0 .. MaxTime
      BY <1>27 DEF CentralReads, TypeOK
    <2>. QED
      BY <2>1, <2>2, <2>3, <2>4, <2>6, <2>7, <2>8 DEF Typed

  <1>28. ASSUME NEW p \in Pods, CentralDenies(p)
        PROVE  Typed'
    <2>1. clients' \in [Names -> Client \cup {NoRow}]
      BY <1>28 DEF CentralDenies, TypeOK, central
    <2>2. licenses' \in [Keys -> License \cup {NoRow}]
      BY <1>28 DEF CentralDenies, TypeOK, central
    <2>3. HandlersOK'
      BY <1>28 DEF CentralDenies, TypeOK, HandlersOK, console
    <2>4. entCache' \in [Names -> Entry \cup {NoEntry}]
      BY <1>28 DEF CentralDenies, TypeOK
    <2>5. PICK b \in BOOLEAN :
            pods' = [pods EXCEPT ![p].phase = "read", ![p].risk = b]
      BY <1>28 DEF CentralDenies, TypeOK
    <2>6. pods' \in [Pods -> Pod]
      BY <1>28, <2>5, PodEdits DEF TypeOK
    <2>7. HistoryOK'
      BY <1>28 DEF CentralDenies, TypeOK, HandlersOK, HistoryOK, history,
         Fault, Loc
    <2>8. now' \in 0 .. MaxTime
      BY <1>28 DEF CentralDenies, TypeOK
    <2>. QED
      BY <2>1, <2>2, <2>3, <2>4, <2>6, <2>7, <2>8 DEF Typed

  <1>29. ASSUME NEW p \in Pods, Respond(p)
        PROVE  Typed'
    <2>1. clients' \in [Names -> Client \cup {NoRow}]
      BY <1>29 DEF Respond, TypeOK, central
    <2>2. licenses' \in [Keys -> License \cup {NoRow}]
      BY <1>29 DEF Respond, TypeOK, central
    <2>3. HandlersOK'
      BY <1>29 DEF Respond, TypeOK, HandlersOK, console
    <2>4. entCache' \in [Names -> Entry \cup {NoEntry}]
      BY <1>29 DEF Respond, TypeOK, Pod, Entry
    <2>5. PICK l \in {"answer"} :
            pods' = [pods EXCEPT ![p].phase = l]
      BY <1>29 DEF Respond, TypeOK
    <2>6. pods' \in [Pods -> Pod]
      BY <1>29, <2>5, PodEdits DEF TypeOK
    <2>7. HistoryOK'
      BY <1>29 DEF Respond, TypeOK, HistoryOK, history
    <2>8. now' \in 0 .. MaxTime
      BY <1>29 DEF Respond, TypeOK
    <2>. QED
      BY <2>1, <2>2, <2>3, <2>4, <2>6, <2>7, <2>8 DEF Typed

  <1>30. ASSUME NEW p \in Pods, FetchFails(p)
        PROVE  Typed'
    <2>1. clients' \in [Names -> Client \cup {NoRow}]
      BY <1>30 DEF FetchFails, TypeOK, central
    <2>2. licenses' \in [Keys -> License \cup {NoRow}]
      BY <1>30 DEF FetchFails, TypeOK, central
    <2>3. HandlersOK'
      BY <1>30 DEF FetchFails, TypeOK, HandlersOK, console
    <2>4. entCache' \in [Names -> Entry \cup {NoEntry}]
      BY <1>30 DEF FetchFails, TypeOK
    <2>5. PICK b \in BOOLEAN :
            pods' = [pods EXCEPT ![p].phase = "answer", ![p].risk = b, ![p].stale = TRUE]
      BY <1>30 DEF FetchFails, TypeOK
    <2>6. pods' \in [Pods -> Pod]
      BY <1>30, <2>5, PodEdits DEF TypeOK
    <2>7. HistoryOK'
      BY <1>30 DEF FetchFails, TypeOK, HistoryOK, history
    <2>8. now' \in 0 .. MaxTime
      BY <1>30 DEF FetchFails, TypeOK
    <2>. QED
      BY <2>1, <2>2, <2>3, <2>4, <2>6, <2>7, <2>8 DEF Typed

  <1>31. ASSUME NEW p \in Pods, Answer(p)
        PROVE  Typed'
    <2>1. clients' \in [Names -> Client \cup {NoRow}]
      BY <1>31 DEF Answer, TypeOK, central
    <2>2. licenses' \in [Keys -> License \cup {NoRow}]
      BY <1>31 DEF Answer, TypeOK, central
    <2>3. HandlersOK'
      BY <1>31 DEF Answer, TypeOK, HandlersOK, console
    <2>4. entCache' \in [Names -> Entry \cup {NoEntry}] /\ pods' \in [Pods -> Pod]
      BY <1>31 DEF Answer, TypeOK, Pod, Entry, IdlePod, Young, Entitlements,
         HasAddon, cached
    <2>5. HistoryOK'
      BY <1>31 DEF Answer, TypeOK, HistoryOK, history
    <2>6. now' \in 0 .. MaxTime
      BY <1>31 DEF Answer, TypeOK
    <2>. QED
      BY <2>1, <2>2, <2>3, <2>4, <2>5, <2>6 DEF Typed

  <1>32. ASSUME RestartPod
        PROVE  Typed'
    <2>1. clients' \in [Names -> Client \cup {NoRow}]
      BY <1>32 DEF RestartPod, TypeOK, central
    <2>2. licenses' \in [Keys -> License \cup {NoRow}]
      BY <1>32 DEF RestartPod, TypeOK, central
    <2>3. HandlersOK'
      BY <1>32 DEF RestartPod, TypeOK, HandlersOK, console
    <2>4. entCache' \in [Names -> Entry \cup {NoEntry}] /\ pods' \in [Pods -> Pod]
      BY <1>32 DEF RestartPod, TypeOK, Pod, Entry, IdlePod, Young,
         Entitlements, HasAddon, cached
    <2>5. HistoryOK'
      BY <1>32 DEF RestartPod, TypeOK, HistoryOK, history
    <2>6. now' \in 0 .. MaxTime
      BY <1>32 DEF RestartPod, TypeOK
    <2>. QED
      BY <2>1, <2>2, <2>3, <2>4, <2>5, <2>6 DEF Typed

  <1>33. ASSUME Tick
        PROVE  Typed'
    <2>1. clients' \in [Names -> Client \cup {NoRow}]
      BY <1>33 DEF Tick, TypeOK, central
    <2>2. licenses' \in [Keys -> License \cup {NoRow}]
      BY <1>33 DEF Tick, TypeOK, central
    <2>3. HandlersOK'
      BY <1>33 DEF Tick, TypeOK, HandlersOK, console
    <2>4. entCache' \in [Names -> Entry \cup {NoEntry}] /\ pods' \in [Pods -> Pod]
      BY <1>33 DEF Tick, TypeOK, cached
    <2>5. HistoryOK'
      BY <1>33 DEF Tick, TypeOK, HistoryOK, history
    <2>6. now' \in 0 .. MaxTime
      BY <1>33 DEF Tick, TypeOK
    <2>. QED
      BY <2>1, <2>2, <2>3, <2>4, <2>5, <2>6 DEF Typed
  <1>. QED
    BY <1>1, <1>2, <1>3, <1>4, <1>5, <1>6, <1>7, <1>8, <1>9, <1>10, <1>11,
       <1>12, <1>13, <1>14, <1>15, <1>16, <1>17, <1>18, <1>19, <1>20, <1>21,
       <1>22, <1>23, <1>24, <1>25, <1>26, <1>27, <1>28, <1>29, <1>30, <1>31,
       <1>32, <1>33
    DEF Step, Request, Statement, AtOnce, PodStep

LEMMA RecordType ==
    ASSUME given \in [Names -> [BOOLEAN -> Int]], now' \in Int, Record
    PROVE  given' \in [Names -> [BOOLEAN -> Int]]
  <1>. DEFINE New(n, b) == IF b \in Entitlements(n)' \/ (~b /\ Denied(n)) THEN now'
                                                                       ELSE given[n][b]
  <1>1. \A n \in Names, b \in BOOLEAN : New(n, b) \in Int
    OBVIOUS
  <1>2. given' = [n \in Names |-> [b \in BOOLEAN |-> New(n, b)]]
    BY DEF Record
  <1>. HIDE DEF New
  <1>. QED
    BY <1>1, <1>2

LEMMA TypeInit == Init => TypeOK
  <1>. SUFFICES ASSUME Init PROVE TypeOK
    OBVIOUS
  <1>1. HandlersOK
    BY DEF Init, HandlersOK, Labels
  <1>2. pods \in [Pods -> Pod]
    BY DEF Init, Pod
  <1>3. given \in [Names -> [BOOLEAN -> Int]]
    BY DEF Init
  <1>4. HistoryOK
    BY DEF Init, HistoryOK
  <1>5. clients \in [Names -> Client \cup {NoRow}]
        /\ licenses \in [Keys -> License \cup {NoRow}]
    BY DEF Init
  <1>6. now \in 0 .. MaxTime /\ entCache \in [Names -> Entry \cup {NoEntry}]
    BY DEF Init
  <1>. QED
    BY <1>1, <1>2, <1>3, <1>4, <1>5, <1>6 DEF TypeOK

\* Stuttering.
LEMMA TypeStutter == TypeOK /\ UNCHANGED vars => TypeOK'
  BY DEF TypeOK, HandlersOK, HistoryOK, vars, central, console, cached,
     history

LEMMA TypeStep == TypeOK /\ [Next]_vars => TypeOK'
  <1>. SUFFICES ASSUME TypeOK, Step, Record PROVE TypeOK'
    BY TypeStutter DEF Next
  <1>1. Typed'
    BY StepType
  <1>2. given' \in [Names -> [BOOLEAN -> Int]]
    BY <1>1, RecordType DEF Typed, TypeOK
  <1>. QED
    BY <1>1, <1>2 DEF Typed, TypeOK

\* The model's variables keep their types: whichever requests cross, whichever
\* fail, a handler between two statements of adminController holds a request
\* and, where it needs one, a key, and a reactivated licence an expiry.
THEOREM TypeCorrect == Spec => []TypeOK
  <1>1. TypeOK /\ [Next]_vars => TypeOK'
    BY TypeStep
  <1>. QED
    BY <1>1, TypeInit, PTL DEF Spec

-----------------------------------------------------------------------------
(* How old an answer is.                                                     *)

\* A value that a fetch has read was given since the fetch began, a fetch takes
\* at most Timeout, so a cached value was given at most Timeout before it was
\* stored.
Ages ==
    /\ \A n \in Names, b \in BOOLEAN : given[n][b] =< now
    /\ \A p \in Pods :
          /\ pods[p].phase \in {"asked", "read"} => now - pods[p].start =< Timeout
          /\ pods[p].phase = "asked" => pods[p].start =< now
          /\ pods[p].phase = "read"
                => pods[p].start =< given[PodName[p]][pods[p].risk]
    /\ \A n \in Names :
          entCache[n] # NoEntry
             => entCache[n].at - given[n][entCache[n].risk] =< Timeout

LEMMA GivenGrows ==
    ASSUME TypeOK, Record, now' \in Nat, now =< now',
           \A n \in Names, b \in BOOLEAN : given[n][b] =< now
    PROVE  \A n \in Names, b \in BOOLEAN :
              given'[n][b] \in Int /\ given[n][b] =< given'[n][b] /\ given'[n][b] =< now'
  <1>. SUFFICES ASSUME NEW n \in Names, NEW b \in BOOLEAN
                PROVE  /\ given'[n][b] \in Int
                       /\ given[n][b] =< given'[n][b] /\ given'[n][b] =< now'
    OBVIOUS
  <1>1. given'[n][b] \in {now', given[n][b]}
    BY DEF Record
  <1>2. given[n][b] \in Int /\ now \in Nat
    BY DEF TypeOK
  <1>. QED
    BY <1>1, <1>2

\* The central plane's answer is what it would give in this step.
LEMMA ReadIsGiven ==
    ASSUME TypeOK, NEW p \in Pods, NEW b \in BOOLEAN, Record,
           b \in Entitlements(PodName[p])' \/ (~b /\ Denied(PodName[p]))
    PROVE  given'[PodName[p]][b] = now'
  BY DEF Record

\* Nothing happens to the pods.
LEMMA AgesQuiet ==
    ASSUME TypeOK, Ages, AnswerWasCurrent, Record, UNCHANGED <<now, cached>>
    PROVE  Ages' /\ AnswerWasCurrent'
  <1>1. \A n \in Names, b \in BOOLEAN :
            given'[n][b] \in Int /\ given[n][b] =< given'[n][b] /\ given'[n][b] =< now'
    BY GivenGrows DEF TypeOK, Ages
  <1>2. \A p \in Pods : /\ PodName[p] \in Names
                         /\ pods[p].risk \in BOOLEAN /\ pods[p].start \in Nat
    BY DEF TypeOK, Pod
  <1>3. \A n \in Names : entCache[n] # NoEntry
            => entCache[n].at \in Nat /\ entCache[n].risk \in BOOLEAN
    BY DEF TypeOK, Entry
  <1>4. \A n \in Names, b \in BOOLEAN : given[n][b] \in Int
    BY DEF TypeOK
  <1>. QED
    BY <1>1, <1>2, <1>3, <1>4 DEF TypeOK, Ages, AnswerWasCurrent, cached

LEMMA AtOnceQuiet == AtOnce => UNCHANGED <<now, cached>>
  BY DEF AtOnce, RevokeLicense, StripeLicense, DeployClient, StripeClient,
     OnboardUser,
         UpdateSubscription

LEMMA ConsoleQuiet ==
    ASSUME NEW h \in Handlers
    PROVE  /\ Request(h) \/ Statement(h) \/ HandlerFails(h) => UNCHANGED <<now, cached>>
           /\ \A d \in Handlers : BreakDeadlock(h, d) => UNCHANGED <<now, cached>>
  <1>1. Request(h) => UNCHANGED <<now, cached>>
    BY DEF Request, GenInsert, ReactRead, PartnerClient, CreateCheck,
       AddonCheck,
           PlanClient, DelLicenses
  <1>2. Statement(h) => UNCHANGED <<now, cached>>
    BY DEF Statement, GenActivate, ReactSet, CreateInsert, PartnerLicense,
       AddonClient,
           AddonLicenses, PlanLicenses, PlanCommit, DelCommit
  <1>. QED
    BY <1>1, <1>2 DEF HandlerFails, BreakDeadlock

\* A step of the console, of a pod, or of time.
LEMMA StepCases ==
    ASSUME Step
    PROVE  \/ UNCHANGED <<now, cached>>
           \/ \E p \in Pods : PodStep(p)
           \/ RestartPod
           \/ Tick
  <1>1. CASE \E h \in Handlers : Request(h) \/ Statement(h) \/ HandlerFails(h)
    BY <1>1, ConsoleQuiet
  <1>2. CASE \E h, d \in Handlers : BreakDeadlock(h, d)
    BY <1>2, ConsoleQuiet
  <1>. QED
    BY <1>1, <1>2, AtOnceQuiet DEF Step

LEMMA AgesStep ==
    ASSUME TypeOK, TypeOK', Ages, AnswerWasCurrent, Step, Record
    PROVE  Ages' /\ AnswerWasCurrent'
  <1>1. now =< now' /\ now' \in Nat /\ now \in Nat /\ Timeout \in Nat /\ Ttl \in Nat \ {0}
    <2>1. now' \in {now, now + 1}
      BY StepCases DEF PodStep, AskCached, AskCentral, CentralReads,
         CentralDenies,
         Respond, FetchFails, Answer, RestartPod, Tick
    <2>. QED
      BY <2>1 DEF TypeOK
  <1>2. \A n \in Names, b \in BOOLEAN :
            given'[n][b] \in Int /\ given[n][b] =< given'[n][b] /\ given'[n][b] =< now'
    BY <1>1, GivenGrows DEF Ages
  <1>3. \A p \in Pods : /\ PodName[p] \in Names
                        /\ pods[p].risk \in BOOLEAN /\ pods[p].start \in Nat
                        /\ pods'[p].risk \in BOOLEAN /\ pods'[p].start \in Nat
    BY DEF TypeOK, Pod
  <1>4. \A n \in Names :
            /\ entCache[n] # NoEntry
                  => entCache[n].at \in Nat /\ entCache[n].risk \in BOOLEAN
            /\ entCache'[n] # NoEntry
                  => entCache'[n].at \in Nat /\ entCache'[n].risk \in BOOLEAN
    BY DEF TypeOK, Entry
  <1>5. \A n \in Names, b \in BOOLEAN : given[n][b] \in Int
    BY DEF TypeOK
  <1>6. CASE UNCHANGED <<now, cached>>
    BY <1>6, AgesQuiet
  <1>. DEFINE OK(q) ==
         /\ pods'[q].phase \in {"asked", "read"} => now' - pods'[q].start =< Timeout
         /\ pods'[q].phase = "asked" => pods'[q].start =< now'
         /\ pods'[q].phase = "read" => pods'[q].start =< given'[PodName[q]][pods'[q].risk]
         /\ (pods'[q].phase = "answer" /\ ~pods'[q].stale)
               => now' - given'[PodName[q]][pods'[q].risk] < Ttl + Timeout
  \* The pod requests that a step leaves alone.
  <1>7. ASSUME NEW q \in Pods, pods'[q] = pods[q], now' = now
        PROVE  OK(q)
    BY <1>1, <1>2, <1>3, <1>5, <1>7 DEF Ages, AnswerWasCurrent
  <1>8. ASSUME NEW n \in Names, entCache'[n] = entCache[n], entCache'[n] # NoEntry
        PROVE  entCache'[n].at - given'[n][entCache'[n].risk] =< Timeout
    BY <1>2, <1>4, <1>5, <1>8 DEF Ages
  <1>9. ASSUME \A q \in Pods : OK(q),
               \A n \in Names : entCache'[n] # NoEntry
                  => entCache'[n].at - given'[n][entCache'[n].risk] =< Timeout
        PROVE  Ages' /\ AnswerWasCurrent'
    BY <1>2, <1>9 DEF Ages, AnswerWasCurrent
  <1>10. ASSUME NEW p \in Pods, AskCached(p)
         PROVE  Ages' /\ AnswerWasCurrent'
    <2>1. /\ now' = now /\ entCache' = entCache
          /\ pods' = [pods EXCEPT ![p].phase = "answer",
                                  ![p].risk = entCache[PodName[p]].risk]
          /\ entCache[PodName[p]] # NoEntry /\ now - entCache[PodName[p]].at < Ttl
      BY <1>10 DEF AskCached, Young
    <2>2. \A q \in Pods : q # p => pods'[q] = pods[q]
      BY <2>1 DEF TypeOK
    <2>3. pods'[p].phase = "answer" /\ pods'[p].risk = entCache[PodName[p]].risk
      BY <1>10, <2>1 DEF TypeOK, Pod
    <2>4. OK(p)
      BY <1>1, <1>2, <1>3, <1>4, <1>5, <1>10, <2>1, <2>3 DEF Ages
    <2>. HIDE DEF OK
    <2>. QED
      BY <1>7, <1>8, <1>9, <2>1, <2>2, <2>4
  <1>11. ASSUME NEW p \in Pods, AskCentral(p)
         PROVE  Ages' /\ AnswerWasCurrent'
    <2>1. /\ now' = now /\ entCache' = entCache
          /\ pods' = [pods EXCEPT ![p].phase = "asked", ![p].start = now,
                                  ![p].seen = entCache[PodName[p]]]
      BY <1>11 DEF AskCentral
    <2>2. \A q \in Pods : q # p => pods'[q] = pods[q]
      BY <2>1 DEF TypeOK
    <2>3. pods'[p].phase = "asked" /\ pods'[p].start = now
      BY <1>11, <2>1 DEF TypeOK, Pod
    <2>4. OK(p)
      BY <1>1, <2>1, <2>3
    <2>. HIDE DEF OK
    <2>. QED
      BY <1>7, <1>8, <1>9, <2>1, <2>2, <2>4
  <1>12. ASSUME NEW p \in Pods, CentralReads(p) \/ CentralDenies(p)
         PROVE  Ages' /\ AnswerWasCurrent'
    <2>1. PICK b \in BOOLEAN :
            /\ now' = now /\ entCache' = entCache /\ pods[p].phase = "asked"
            /\ pods' = [pods EXCEPT ![p].phase = "read", ![p].risk = b]
            /\ b \in Entitlements(PodName[p])' \/ (~b /\ Denied(PodName[p]))
      <3>1. ASSUME CentralReads(p)
            PROVE  \E b \in BOOLEAN :
                      /\ pods' = [pods EXCEPT ![p].phase = "read", ![p].risk = b]
                      /\ b \in Entitlements(PodName[p])
        BY <3>1 DEF CentralReads, Entitlements, HasAddon, LicenseEligible
      <3>2. CentralReads(p) => Entitlements(PodName[p])' = Entitlements(PodName[p])
        BY DEF CentralReads, Entitlements, HasAddon, LicenseEligible,
           ClientsOf, Counted,
               IsClient, IsLicense, central
      <3>3. ASSUME CentralDenies(p)
            PROVE  /\ pods' = [pods EXCEPT ![p].phase = "read", ![p].risk = FALSE]
                   /\ faults' # faults
        BY <3>3 DEF CentralDenies, Fault, TypeOK, HistoryOK
      <3>4. ASSUME CentralDenies(p) PROVE Denied(PodName[p])
        BY <1>12, <3>3, <3>4 DEF CentralDenies, Denied, TypeOK, Pod
      <3>. QED
        BY <1>12, <3>1, <3>2, <3>3, <3>4 DEF CentralReads, CentralDenies
    <2>2. \A q \in Pods : q # p => pods'[q] = pods[q]
      BY <2>1 DEF TypeOK
    <2>3. /\ pods'[p].phase = "read" /\ pods'[p].risk = b
          /\ pods'[p].start = pods[p].start
      BY <1>12, <2>1 DEF TypeOK, Pod
    <2>4. given'[PodName[p]][b] = now'
      BY <1>12, <2>1, ReadIsGiven
    <2>5. OK(p)
      BY <1>1, <1>3, <1>12, <2>1, <2>3, <2>4 DEF Ages
    <2>. HIDE DEF OK
    <2>. QED
      BY <1>7, <1>8, <1>9, <2>1, <2>2, <2>5
  <1>13. ASSUME NEW p \in Pods, Respond(p)
         PROVE  Ages' /\ AnswerWasCurrent'
    <2>1. /\ now' = now /\ pods[p].phase = "read"
          /\ entCache' = [entCache EXCEPT ![PodName[p]] =
                             [at |-> now, risk |-> pods[p].risk]]
          /\ pods' = [pods EXCEPT ![p].phase = "answer"]
      BY <1>13 DEF Respond
    <2>2. \A q \in Pods : q # p => pods'[q] = pods[q]
      BY <2>1 DEF TypeOK
    <2>3. pods'[p].phase = "answer" /\ pods'[p].risk = pods[p].risk
      BY <1>13, <2>1 DEF TypeOK, Pod
    <2>4. now - given[PodName[p]][pods[p].risk] =< Timeout
      BY <1>1, <1>3, <1>5, <1>13, <2>1 DEF Ages
    <2>5. OK(p)
      <3>1. now' - given'[PodName[p]][pods'[p].risk] =< Timeout
        BY <1>1, <1>2, <1>3, <1>5, <1>13, <2>1, <2>3, <2>4
      <3>2. now' - given'[PodName[p]][pods'[p].risk] \in Int
        BY <1>1, <1>2, <1>3, <1>13
      <3>. QED
        BY <1>1, <2>3, <3>1, <3>2
    <2>6. \A n \in Names : n # PodName[p] => entCache'[n] = entCache[n]
      BY <2>1 DEF TypeOK
    <2>7. /\ entCache'[PodName[p]].at = now
          /\ entCache'[PodName[p]].risk = pods[p].risk
      BY <1>13, <1>3, <2>1 DEF TypeOK
    <2>8. entCache'[PodName[p]].at - given'[PodName[p]][entCache'[PodName[p]].risk]
            =< Timeout
      BY <1>1, <1>2, <1>3, <1>5, <1>13, <2>4, <2>7
    <2>. HIDE DEF OK
    <2>. QED
      BY <1>7, <1>8, <1>9, <2>1, <2>2, <2>5, <2>6, <2>8
  <1>14. ASSUME NEW p \in Pods, FetchFails(p) \/ Answer(p)
         PROVE  Ages' /\ AnswerWasCurrent'
    <2>1. /\ now' = now /\ entCache' = entCache
          /\ \A q \in Pods : q # p => pods'[q] = pods[q]
      BY <1>14 DEF FetchFails, Answer, TypeOK
    <2>2. pods'[p].phase = "idle" \/ (pods'[p].phase = "answer" /\ pods'[p].stale)
      <3>1. pods[p] \in Pod
        BY <1>14 DEF TypeOK
      <3>2. Answer(p) => pods'[p] = IdlePod
        BY <1>14 DEF Answer, TypeOK
      <3>3. ASSUME FetchFails(p) PROVE pods'[p].phase = "answer" /\ pods'[p].stale
        <4>1. PICK b \in BOOLEAN :
                pods' = [pods EXCEPT ![p].phase = "answer", ![p].risk = b,
                                    ![p].stale = TRUE]
          BY <3>3 DEF FetchFails
        <4>2. pods'[p] = [pods[p] EXCEPT !.phase = "answer", !.risk = b, !.stale = TRUE]
          BY <1>14, <4>1 DEF TypeOK
        <4>. QED
          BY <3>1, <4>2 DEF Pod
      <3>. QED
        BY <1>14, <3>2, <3>3 DEF IdlePod
    <2>3. OK(p)
      BY <2>2
    <2>. HIDE DEF OK
    <2>. QED
      BY <1>7, <1>8, <1>9, <2>1, <2>3
  <1>15. ASSUME RestartPod PROVE Ages' /\ AnswerWasCurrent'
    <2>1. \A n \in Names : entCache'[n] = NoEntry
      BY <1>15 DEF RestartPod
    <2>2. \A q \in Pods : pods'[q].phase = "idle"
      BY <1>15 DEF RestartPod, IdlePod
    <2>. QED
      BY <1>9, <2>1, <2>2
  <1>16. ASSUME Tick PROVE Ages' /\ AnswerWasCurrent'
    <2>1. now' = now + 1 /\ pods' = pods /\ entCache' = entCache
      BY <1>16 DEF Tick, cached
    <2>2. \A q \in Pods : /\ pods[q].phase # "answer"
                          /\ pods[q].phase # "idle" => now - pods[q].start < Timeout
      BY <1>16 DEF Tick
    <2>3. ASSUME NEW q \in Pods PROVE OK(q)
      <3>1. pods'[q] = pods[q] /\ pods[q].phase # "answer"
        BY <2>1, <2>2, <2>3
      <3>2. pods[q].phase \in {"asked", "read"} => now' - pods[q].start =< Timeout
        BY <1>1, <1>3, <2>1, <2>2
      <3>3. pods[q].phase = "asked" => pods[q].start =< now'
        BY <1>1, <1>3 DEF Ages
      <3>4. pods[q].phase = "read" => pods[q].start =< given'[PodName[q]][pods[q].risk]
        BY <1>2, <1>3, <1>5 DEF Ages
      <3>. QED
        BY <3>1, <3>2, <3>3, <3>4
    <2>. HIDE DEF OK
    <2>. QED
      BY <1>8, <1>9, <2>1, <2>3
  <1>. QED
    BY <1>6, <1>10, <1>11, <1>12, <1>13, <1>14, <1>15, <1>16, StepCases DEF
       PodStep

LEMMA AgesStutter ==
    ASSUME Ages, AnswerWasCurrent, UNCHANGED vars PROVE Ages' /\ AnswerWasCurrent'
  BY DEF Ages, AnswerWasCurrent, vars, cached

\* A pod that reaches the central plane answers with what the plane would have
\* answered less than the cache's lifetime and one fetch timeout ago, for any
\* number of requests, plan changes, failures and restarts: a late response
\* never lets a cached entry live longer.
THEOREM AnswersAreCurrent == Spec => []AnswerWasCurrent
  <1>1. Init => Ages /\ AnswerWasCurrent
    BY DEF Init, Ages, AnswerWasCurrent
  <1>2. TypeOK /\ Ages /\ AnswerWasCurrent /\ [Next]_vars
           => TypeOK' /\ Ages' /\ AnswerWasCurrent'
    BY TypeStep, AgesStep, AgesStutter DEF Next
  <1>. QED
    BY <1>1, <1>2, TypeInit, PTL DEF Spec

-----------------------------------------------------------------------------
(* Waiting for a licence.                                                    *)

\* A handler is about to activate the clients that wait for licence k.
Activating(h, k) == pc[h] = "genActivate" /\ loc[h].key = k

\* The activation looks for the name of the licence that was generated, and a
\* licence counts as newer for the clients that this name finds.
WaitInv ==
    /\ \A h \in Handlers : pc[h] = "genActivate" => loc[h].name = NameOf[loc[h].key]
    /\ \A n \in Names : \A k \in newer[n] : k \in Keys /\ Norm[NameOf[k]] = Norm[n]
    /\ \A n \in Names : Waiting(n) =>
          \A k \in newer[n] : k \in failed \/ \E h \in Handlers : Activating(h, k)

\* A step after which the same handlers activate and no client waits that did
\* not wait before.
LEMMA WaitKept ==
    ASSUME WaitInv, UNCHANGED history,
           \A n \in Names : Waiting(n)' => Waiting(n),
           \A h \in Handlers : pc[h] = "genActivate" \/ pc'[h] = "genActivate"
                                  => pc'[h] = pc[h] /\ loc'[h] = loc[h]
    PROVE  WaitInv'
  <1>1. \A h \in Handlers : \A k : Activating(h, k) => Activating(h, k)'
    BY DEF Activating
  <1>2. newer' = newer /\ failed' = failed
    BY DEF history
  <1>3. \A h \in Handlers : pc'[h] = "genActivate"
                               => loc'[h].name = NameOf[loc'[h].key]
    BY DEF WaitInv
  <1>4. \A n \in Names : Waiting(n)' =>
          \A k \in newer'[n] : k \in failed' \/ \E h \in Handlers : Activating(h, k)'
    BY <1>1, <1>2 DEF WaitInv
  <1>. QED
    BY <1>2, <1>3, <1>4 DEF WaitInv

\* A handler that neither activates nor is going to goes on or ends.
LEMMA OtherHandler ==
    ASSUME TypeOK, NEW h \in Handlers, NEW label, NEW what,
           pc[h] # "genActivate", label # "genActivate",
           pc' = [pc EXCEPT ![h] = label],
           loc' = [loc EXCEPT ![h] = what] \/ loc' = loc
    PROVE  \A d \in Handlers : pc[d] = "genActivate" \/ pc'[d] = "genActivate"
                                  => pc'[d] = pc[d] /\ loc'[d] = loc[d]
  BY DEF TypeOK, HandlersOK

\* Of a client row only the tier, the add-on or nothing changes, or the row is
\* written as active or removed.
LEMMA NoNewWait ==
    ASSUME TypeOK,
           \A n \in Names : \/ clients'[n] = clients[n]
                            \/ clients'[n] = NoRow
                            \/ clients'[n].status = "active"
                            \/ clients[n] # NoRow /\ clients'[n].status = clients[n].status
    PROVE  \A n \in Names : Waiting(n)' => Waiting(n)
  BY DEF Waiting, IsClient

\* Writing one row of admin_clients, by an INSERT or an UPDATE.
LEMMA OneClient ==
    ASSUME TypeOK, NEW n \in Names, NEW row, PutClient(n, row),
           \/ row = NoRow \/ row.status = "active"
           \/ IsClient(n) /\ row.status = clients[n].status
    PROVE  \A m \in Names : Waiting(m)' => Waiting(m)
  <1>1. \A m \in Names : clients'[m] = IF m = n THEN row ELSE clients[m]
    BY DEF PutClient, TypeOK
  <1>. QED
    BY <1>1, NoNewWait DEF IsClient

LEMMA Statuses ==
    ASSUME TypeOK, NEW n \in Names, IsClient(n), NEW t \in Tiers, NEW b
    PROVE  /\ [clients[n] EXCEPT !.tier = t].status = clients[n].status
           /\ [clients[n] EXCEPT !.addon = b].status = clients[n].status
           /\ [clients[n] EXCEPT !.status = "active"].status = "active"
           /\ [clients[n] EXCEPT !.status = "active", !.tier = t].status = "active"
           /\ NewClient(t, "active").status = "active"
  BY Rows DEF Client, NewClient

LEMMA WaitStep == TypeOK /\ WaitInv /\ Step => WaitInv'
  <1>. SUFFICES ASSUME TypeOK, WaitInv, Step PROVE WaitInv'
    OBVIOUS
  <1>0. /\ \A h \in Handlers : pc[h] # "idle" => loc[h] \in Loc
        /\ \A h \in Handlers : pc[h] = "genActivate" => loc[h].key \in Keys
        /\ pc \in [Handlers -> Labels] /\ DOMAIN loc = Handlers
    BY DEF TypeOK, HandlersOK
  <1>1. ASSUME UNCHANGED <<clients, console, history>> PROVE WaitInv'
    BY <1>1, WaitKept DEF console, Waiting, IsClient
  <1>2. ASSUME NEW h \in Handlers, NEW k \in Keys, NEW t \in Tiers, GenInsert(h, k, t)
        PROVE  WaitInv'
    <2>1. /\ pc[h] = "idle" /\ pc' = [pc EXCEPT ![h] = "genActivate"]
          /\ loc' = [loc EXCEPT ![h] = Asked(NameOf[k], t, k)]
          /\ clients' = clients /\ failed' = failed \ {k}
          /\ newer' = [n \in Names |-> IF Norm[n] = Norm[NameOf[k]]
                                         THEN newer[n] \cup {k} ELSE newer[n]]
      BY <1>2 DEF GenInsert, Begin, Goto
    <2>2. /\ pc'[h] = "genActivate" /\ loc'[h] = Asked(NameOf[k], t, k)
          /\ \A d \in Handlers : d # h => pc'[d] = pc[d] /\ loc'[d] = loc[d]
      BY <1>0, <2>1
    <2>3. Asked(NameOf[k], t, k).key = k /\ Asked(NameOf[k], t, k).name = NameOf[k]
      BY DEF Asked
    <2>4. Activating(h, k)'
      BY <2>2, <2>3 DEF Activating
    <2>5. \A d \in Handlers : \A j : Activating(d, j) => Activating(d, j)'
      BY <2>1, <2>2 DEF Activating
    <2>6. \A d \in Handlers : pc'[d] = "genActivate"
                                 => loc'[d].name = NameOf[loc'[d].key]
      BY <2>2, <2>3 DEF WaitInv
    <2>7. \A n \in Names : \A j \in newer'[n] : j \in Keys /\ Norm[NameOf[j]] = Norm[n]
      BY <2>1 DEF WaitInv
    <2>8. ASSUME NEW n \in Names, Waiting(n)', NEW j \in newer'[n]
          PROVE  j \in failed' \/ \E d \in Handlers : Activating(d, j)'
      <3>1. Waiting(n)
        BY <2>1, <2>8 DEF Waiting, IsClient
      <3>2. CASE j = k
        BY <2>4, <3>2
      <3>3. CASE j # k
        BY <2>1, <2>5, <2>8, <3>1, <3>3 DEF WaitInv
      <3>. QED
        BY <3>2, <3>3
    <2>. QED
      BY <2>6, <2>7, <2>8 DEF WaitInv
  <1>3. ASSUME NEW h \in Handlers, GenActivate(h) PROVE WaitInv'
    <2>1. /\ pc[h] = "genActivate" /\ UNCHANGED history
          /\ clients' = [n \in Names |->
                IF Waiting(n) /\ Norm[n] = Norm[loc[h].name]
                  THEN [clients[n] EXCEPT !.status = "active"] ELSE clients[n]]
          /\ pc' = [pc EXCEPT ![h] = "idle"] /\ loc' = [loc EXCEPT ![h] = NoLoc]
      BY <1>3 DEF GenActivate, End, Goto
    <2>2. /\ pc'[h] = "idle"
          /\ \A d \in Handlers : d # h => pc'[d] = pc[d] /\ loc'[d] = loc[d]
      BY <1>0, <2>1
    <2>3. loc[h].name = NameOf[loc[h].key]
      BY <2>1 DEF WaitInv
    <2>4. ASSUME NEW n \in Names, Waiting(n)'
          PROVE  Waiting(n) /\ Norm[n] # Norm[loc[h].name]
      <3>1. CASE Waiting(n) /\ Norm[n] = Norm[loc[h].name]
        <4>1. clients'[n] = [clients[n] EXCEPT !.status = "active"]
          BY <2>1, <3>1
        <4>2. clients[n] \in Client
          BY <3>1, Rows DEF Waiting
        <4>3. clients'[n].status = "active"
          BY <4>1, <4>2 DEF Client
        <4>. QED
          BY <2>4, <4>3 DEF Waiting
      <3>2. CASE ~(Waiting(n) /\ Norm[n] = Norm[loc[h].name])
        <4>1. clients'[n] = clients[n]
          BY <2>1, <3>2
        <4>. QED
          BY <2>4, <3>2, <4>1 DEF Waiting, IsClient
      <3>. QED
        BY <3>1, <3>2
    <2>5. \A d \in Handlers : \A j : Activating(d, j) /\ d # h => Activating(d, j)'
      BY <2>2 DEF Activating
    <2>6. newer' = newer /\ failed' = failed
      BY <2>1 DEF history
    <2>7. ASSUME NEW n \in Names, Waiting(n)', NEW j \in newer'[n]
          PROVE  j \in failed' \/ \E d \in Handlers : Activating(d, j)'
      <3>1. Norm[NameOf[j]] = Norm[n]
        BY <2>6, <2>7 DEF WaitInv
      <3>2. ~Activating(h, j)
        BY <2>3, <2>4, <2>7, <3>1 DEF Activating
      <3>3. j \in failed \/ \E d \in Handlers : Activating(d, j)
        BY <2>4, <2>6, <2>7 DEF WaitInv
      <3>. QED
        BY <2>5, <2>6, <3>2, <3>3
    <2>8. \A d \in Handlers : pc'[d] = "genActivate"
                                 => loc'[d].name = NameOf[loc'[d].key]
      BY <2>2 DEF WaitInv
    <2>. QED
      BY <2>6, <2>7, <2>8 DEF WaitInv
  <1>4. ASSUME NEW h \in Handlers, HandlerFails(h) PROVE WaitInv'
    <2>1. /\ failed' = IF pc[h] = "genActivate" THEN failed \cup {loc[h].key} ELSE failed
          /\ newer' = newer /\ clients' = clients
          /\ pc' = [pc EXCEPT ![h] = "idle"] /\ loc' = [loc EXCEPT ![h] = NoLoc]
      BY <1>4 DEF HandlerFails, End, Goto, central
    <2>2. /\ pc'[h] = "idle"
          /\ \A d \in Handlers : d # h => pc'[d] = pc[d] /\ loc'[d] = loc[d]
      BY <1>0, <2>1
    <2>3. \A d \in Handlers : \A j : Activating(d, j) => Activating(d, j)' \/ j \in failed'
      BY <2>1, <2>2 DEF Activating
    <2>4. ASSUME NEW n \in Names, Waiting(n)', NEW j \in newer'[n]
          PROVE  j \in failed' \/ \E d \in Handlers : Activating(d, j)'
      <3>1. Waiting(n)
        BY <2>1, <2>4 DEF Waiting, IsClient
      <3>. QED
        BY <2>1, <2>3, <2>4, <3>1 DEF WaitInv
    <2>5. \A d \in Handlers : pc'[d] = "genActivate"
                                 => loc'[d].name = NameOf[loc'[d].key]
      BY <2>2 DEF WaitInv
    <2>. QED
      BY <2>1, <2>4, <2>5 DEF WaitInv
  <1>5. ASSUME NEW n \in Names, NEW rest, newer' = [newer EXCEPT ![n] = {}],
               UNCHANGED failed,
               \A m \in Names : m # n /\ Waiting(m)' => Waiting(m),
               \A h \in Handlers : pc[h] = "genActivate" \/ pc'[h] = "genActivate"
                                      => pc'[h] = pc[h] /\ loc'[h] = loc[h]
        PROVE  WaitInv'
    <2>1. newer'[n] = {} /\ \A m \in Names : m # n => newer'[m] = newer[m]
      BY <1>5 DEF TypeOK, HistoryOK
    <2>2. \A h \in Handlers : \A k : Activating(h, k) => Activating(h, k)'
      BY <1>5 DEF Activating
    <2>3. \A h \in Handlers : pc'[h] = "genActivate"
                                 => loc'[h].name = NameOf[loc'[h].key]
      BY <1>5 DEF WaitInv
    <2>4. ASSUME NEW m \in Names, Waiting(m)', NEW k \in newer'[m]
          PROVE  k \in failed' \/ \E h \in Handlers : Activating(h, k)'
      <3>1. m # n /\ k \in newer[m] /\ Waiting(m)
        BY <1>5, <2>1, <2>4
      <3>. QED
        BY <1>5, <2>2, <3>1 DEF WaitInv
    <2>5. \A m \in Names : \A k \in newer'[m] : k \in Keys /\ Norm[NameOf[k]] = Norm[m]
      BY <2>1 DEF WaitInv
    <2>. QED
      BY <2>3, <2>4, <2>5 DEF WaitInv
  <1>6. ASSUME NEW n \in Names, NEW t \in Tiers, OnboardUser(n, t) PROVE WaitInv'
    <2>1. /\ newer' = [newer EXCEPT ![n] = {}] /\ failed' = failed
          /\ pc' = pc /\ loc' = loc
          /\ \A m \in Names : m # n => clients'[m] = clients[m]
      BY <1>6 DEF OnboardUser, PutClient, console, TypeOK
    <2>. QED
      BY <1>5, <2>1 DEF Waiting, IsClient
  <1>7. ASSUME NEW h \in Handlers, DelCommit(h) PROVE WaitInv'
    <2>1. loc[h].name \in Names
      BY <1>0, <1>7 DEF DelCommit, Loc
    <2>2. /\ newer' = [newer EXCEPT ![loc[h].name] = {}] /\ failed' = failed
          /\ pc[h] = "delCommit"
          /\ pc' = [pc EXCEPT ![h] = "idle"] /\ loc' = [loc EXCEPT ![h] = NoLoc]
          /\ \A m \in Names : m # loc[h].name => clients'[m] = clients[m]
      BY <1>7, <2>1 DEF DelCommit, PutClient, End, Goto, TypeOK
    <2>. QED
      BY <1>5, <2>1, <2>2, OtherHandler DEF Waiting, IsClient
  <1>8. ASSUME NEW h \in Handlers, NEW label, NEW what,
               pc[h] # "genActivate", label # "genActivate",
               pc' = [pc EXCEPT ![h] = label],
               loc' = [loc EXCEPT ![h] = what] \/ loc' = loc,
               UNCHANGED history, \A n \in Names : Waiting(n)' => Waiting(n)
        PROVE  WaitInv'
    <2>1. \A d \in Handlers : pc[d] = "genActivate" \/ pc'[d] = "genActivate"
                                 => pc'[d] = pc[d] /\ loc'[d] = loc[d]
      BY <1>8, OtherHandler
    <2>. QED
      BY <1>8, <2>1, WaitKept
  <1>9. ASSUME UNCHANGED clients PROVE \A n \in Names : Waiting(n)' => Waiting(n)
    BY <1>9 DEF Waiting, IsClient
  <1>10. ASSUME NEW h \in Handlers, NEW t \in Tiers, NEW k, NEW n \in Names, NEW on,
                \/ ReactRead(h, k, t) \/ CreateCheck(h, n, t) \/ AddonCheck(h, n, t, on)
                \/ PlanClient(h, n, t) \/ DelLicenses(h, n, t)
         PROVE  WaitInv'
    <2>1. UNCHANGED <<central, history>>
      BY <1>10 DEF ReactRead, CreateCheck, AddonCheck, PlanClient, DelLicenses
    <2>2. \E label \in Labels \ {"genActivate"} : \E what : Begin(h, what, label)
      BY <1>10 DEF ReactRead, CreateCheck, AddonCheck, PlanClient, DelLicenses, Labels
    <2>. QED
      BY <1>8, <1>9, <2>1, <2>2 DEF Begin, Goto, central
  <1>11. ASSUME NEW h \in Handlers, NEW k \in Keys, NEW t \in Tiers,
                PartnerClient(h, k, t)
         PROVE  WaitInv'
    <2>1. \A m \in Names : Waiting(m)' => Waiting(m)
      <3>1. CASE IsClient(NameOf[k])
        BY <1>9, <1>11, <3>1 DEF PartnerClient
      <3>2. CASE ~IsClient(NameOf[k])
        <4>1. PutClient(NameOf[k], NewClient(t, "active"))
          BY <1>11, <3>2 DEF PartnerClient
        <4>2. NewClient(t, "active").status = "active"
          BY DEF NewClient
        <4>. QED
          BY <4>1, <4>2, OneClient
      <3>. QED
        BY <3>1, <3>2
    <2>. QED
      BY <1>8, <1>11, <2>1 DEF PartnerClient, Begin, Goto
  <1>12. ASSUME NEW h \in Handlers,
                ReactSet(h) \/ PartnerLicense(h) \/ AddonLicenses(h) \/ PlanLicenses(h)
         PROVE  WaitInv'
    <2>1. UNCHANGED <<clients, history>> /\ pc[h] # "genActivate"
      BY <1>12 DEF ReactSet, PartnerLicense, AddonLicenses, PlanLicenses, central
    <2>2. CASE ReactSet(h) \/ PartnerLicense(h) \/ AddonLicenses(h)
      BY <1>8, <1>9, <2>1, <2>2 DEF ReactSet, PartnerLicense, AddonLicenses, End, Goto
    <2>3. CASE PlanLicenses(h)
      <3>1. /\ pc' = [pc EXCEPT ![h] = "planCommit"]
            /\ loc' = [loc EXCEPT ![h] = [loc[h] EXCEPT !.keys = Active(loc[h].name)]]
        BY <2>3 DEF PlanLicenses, Goto
      <3>. QED
        BY <1>8, <1>9, <2>1, <3>1
    <2>. QED
      BY <1>12, <2>2, <2>3
  <1>13. ASSUME NEW h \in Handlers, CreateInsert(h) PROVE WaitInv'
    <2>1. /\ loc[h].name \in Names /\ loc[h].tier \in Tiers
          /\ pc[h] # "genActivate"
      BY <1>0, <1>13 DEF CreateInsert, Loc
    <2>2. NewClient(loc[h].tier, "active").status = "active"
      BY DEF NewClient
    <2>3. \A m \in Names : Waiting(m)' => Waiting(m)
      BY <1>9, <1>13, <2>1, <2>2, OneClient DEF CreateInsert
    <2>. QED
      BY <1>8, <1>13, <2>1, <2>3 DEF CreateInsert, End, Goto
  <1>14. ASSUME NEW h \in Handlers, AddonClient(h) \/ PlanCommit(h) PROVE WaitInv'
    <2>1. /\ loc[h].tier \in Tiers /\ pc[h] # "genActivate" /\ UNCHANGED history
      BY <1>0, <1>14 DEF AddonClient, PlanCommit, Loc
    <2>2. ASSUME NEW n \in Names
          PROVE  \/ clients'[n] = clients[n]
                 \/ IsClient(n) /\ clients'[n] = [clients[n] EXCEPT !.addon = loc[h].on]
                 \/ IsClient(n) /\ clients'[n] = [clients[n] EXCEPT !.tier = loc[h].tier]
      BY <1>14 DEF AddonClient, PlanCommit, ClientsOf
    <2>3. ASSUME NEW n \in Names
          PROVE  \/ clients'[n] = clients[n]
                 \/ clients[n] # NoRow /\ clients'[n].status = clients[n].status
      <3>1. CASE clients'[n] = clients[n]
        BY <3>1
      <3>2. CASE IsClient(n) /\ clients'[n] = [clients[n] EXCEPT !.addon = loc[h].on]
        BY <2>1, <3>2, Statuses DEF IsClient
      <3>3. CASE IsClient(n) /\ clients'[n] = [clients[n] EXCEPT !.tier = loc[h].tier]
        BY <2>1, <3>3, Statuses DEF IsClient
      <3>. QED
        BY <2>2, <3>1, <3>2, <3>3
    <2>6. \A n \in Names : Waiting(n)' => Waiting(n)
      BY <2>3, NoNewWait
    <2>4. CASE AddonClient(h)
      <3>1. pc' = [pc EXCEPT ![h] = "addonLicenses"] /\ loc' = loc
        BY <2>4 DEF AddonClient, Goto
      <3>. QED
        BY <1>8, <2>1, <2>6, <3>1
    <2>5. CASE PlanCommit(h)
      <3>1. pc' = [pc EXCEPT ![h] = "idle"] /\ loc' = [loc EXCEPT ![h] = NoLoc]
        BY <2>5 DEF PlanCommit, End, Goto
      <3>. QED
        BY <1>8, <2>1, <2>6, <3>1
    <2>. QED
      BY <1>14, <2>4, <2>5
  <1>15. ASSUME NEW h \in Handlers, NEW d \in Handlers, BreakDeadlock(h, d)
         PROVE  WaitInv'
    <2>1. PICK v \in {h, d} : End(v)
      BY <1>15 DEF BreakDeadlock
    <2>2. /\ v \in Handlers /\ pc[v] # "genActivate"
          /\ UNCHANGED <<clients, history>>
      BY <1>15 DEF BreakDeadlock, central
    <2>3. pc' = [pc EXCEPT ![v] = "idle"] /\ loc' = [loc EXCEPT ![v] = NoLoc]
      BY <2>1 DEF End, Goto
    <2>. QED
      BY <1>8, <1>9, <2>2, <2>3
  <1>16. ASSUME UNCHANGED <<console, history>>, \A n \in Names : Waiting(n)' => Waiting(n)
         PROVE  WaitInv'
    BY <1>16, WaitKept DEF console
  <1>17. ASSUME NEW k \in Keys, RevokeLicense(k) \/ \E t \in Tiers : StripeLicense(k, t)
         PROVE  WaitInv'
    BY <1>1, <1>17 DEF RevokeLicense, StripeLicense
  <1>18. ASSUME NEW n \in Names, NEW t \in Tiers,
                DeployClient(n, t) \/ StripeClient(n, t) \/ UpdateSubscription(n, t)
         PROVE  WaitInv'
    <2>1. NewClient(t, "active").status = "active"
      BY DEF NewClient
    <2>2. ASSUME IsClient(n)
          PROVE  /\ [clients[n] EXCEPT !.status = "active"].status = "active"
                 /\ [clients[n] EXCEPT !.status = "active", !.tier = t].status = "active"
                 /\ [clients[n] EXCEPT !.tier = t].status = clients[n].status
      BY <2>2, Statuses
    <2>3. \A m \in Names : Waiting(m)' => Waiting(m)
      <3>1. CASE DeployClient(n, t)
        BY <2>1, <2>2, <3>1, OneClient DEF DeployClient
      <3>2. CASE StripeClient(n, t)
        BY <2>1, <2>2, <3>2, OneClient DEF StripeClient
      <3>3. CASE UpdateSubscription(n, t)
        BY <2>2, <3>3, OneClient DEF UpdateSubscription
      <3>. QED
        BY <1>18, <3>1, <3>2, <3>3
    <2>. QED
      BY <1>16, <1>18, <2>3 DEF DeployClient, StripeClient, UpdateSubscription
  <1>19. CASE AtOnce
    BY <1>6, <1>17, <1>18, <1>19 DEF AtOnce
  <1>20. CASE \E p \in Pods : PodStep(p)
    BY <1>1, <1>20 DEF PodStep, AskCached, AskCentral, CentralReads, CentralDenies,
       Respond, FetchFails, Answer, central
  <1>21. CASE RestartPod \/ Tick
    BY <1>1, <1>21 DEF RestartPod, Tick, central
  <1>22. ASSUME NEW h \in Handlers, Request(h) PROVE WaitInv'
    BY <1>2, <1>10, <1>11, <1>22 DEF Request
  <1>23. ASSUME NEW h \in Handlers, Statement(h) PROVE WaitInv'
    BY <1>3, <1>7, <1>12, <1>13, <1>14, <1>23 DEF Statement
  <1>. QED
    BY <1>4, <1>15, <1>19, <1>20, <1>21, <1>22, <1>23 DEF Step

\* A client never goes on waiting for a licence that was generated after it was
\* last onboarded: between the INSERT of the licence and the activation one
\* handler still owes it, and only if that handler fails is it forgotten; for any
\* slugs, keys and number of requests, whatever else happens to the row.
THEOREM LicensedClientsActive == Spec => []LicensedNotPending
  <1>1. Init => WaitInv
    BY DEF Init, WaitInv, Waiting, IsClient
  <1>2. TypeOK /\ WaitInv /\ [Next]_vars => (TypeOK /\ WaitInv)'
    <2>1. TypeOK /\ WaitInv /\ UNCHANGED vars => WaitInv'
      BY WaitKept DEF vars, console, central, Waiting, IsClient
    <2>. QED
      BY <2>1, TypeStep, WaitStep DEF Next
  <1>3. WaitInv => LicensedNotPending
    BY DEF WaitInv, LicensedNotPending, Activating
  <1>. QED
    BY <1>1, <1>2, <1>3, TypeInit, PTL DEF Spec

-----------------------------------------------------------------------------
(***************************************************************************)
(* Locks.  Liveness is beyond the prover; what it rests on is not: whoever *)
(* waits for a row waits for a transaction of the same tenant that can go  *)
(* on, or that stands in the cycle that the deadlock detector breaks.      *)
(***************************************************************************)

\* Nothing holds up the next statement of h.
Ready(h) ==
    /\ pc[h] # "idle"
    /\ pc[h] = "genActivate" =>
          \A n \in Names : Waiting(n) /\ Norm[n] = Norm[loc[h].name] => ~RowLocked(n)
    /\ pc[h] = "addonClient" => \A n \in ClientsOf(loc[h].name) : ~RowLocked(n)
    /\ pc[h] \in {"createInsert", "delCommit"} => ~RowLocked(loc[h].name)
    /\ pc[h] \in {"reactSet", "partnerLicense"} => ~KeyLocked(loc[h].key)
    /\ pc[h] \in {"addonLicenses", "planLicenses"} =>
          \A k \in Active(loc[h].name) : ~KeyLocked(k)

\* The cycle of BreakDeadlock.
Deadlocked(h, d) ==
    /\ pc[h] = "planLicenses" /\ pc[d] = "delCommit"
    /\ loc[d].name \in loc[h].rows
    /\ Active(loc[h].name) \cap loc[d].keys # {}

SameTenant(h, g) == pc[g] # "idle" /\ Norm[loc[g].name] = Norm[loc[h].name]

NobodyStuck ==
    \A h \in Handlers : pc[h] # "idle" =>
        \E g \in Handlers : /\ SameTenant(h, g)
                            /\ Ready(g) \/ \E d \in Handlers : Deadlocked(g, d)

Planning(h) == pc[h] \in {"planLicenses", "planCommit"}

\* The rows and keys that h has locked or works on are its tenant's.
OwnRows(h) ==
    /\ Planning(h) =>
          \A n \in loc[h].rows : IsClient(n) /\ Norm[n] = Norm[loc[h].name]
    /\ pc[h] \in {"planCommit", "delCommit"} =>
          \A k \in loc[h].keys : NameOf[k] = loc[h].name
    /\ pc[h] \in {"genActivate", "reactSet", "partnerLicense"} =>
          loc[h].name = NameOf[loc[h].key]

\* One plan change at a time holds rows of a tenant.
LocksOK ==
    /\ \A h \in Handlers : OwnRows(h)
    /\ \A h, g \in Handlers : Planning(h) /\ Planning(g) =>
          \A n \in loc[h].rows, m \in loc[g].rows : Norm[n] = Norm[m] => h = g

\* A step of one handler, or of none, that removes no locked row.
LockedRowsStay == \A n \in Names : IsClient(n) /\ RowLocked(n) => IsClient(n)'

LEMMA OneHandlerLocks ==
    ASSUME TypeOK, LocksOK, NEW h \in Handlers, LockedRowsStay,
           \A d \in Handlers : d # h => pc'[d] = pc[d] /\ loc'[d] = loc[d],
           OwnRows(h)',
           Planning(h)' =>
              \/ Planning(h) /\ loc'[h].rows = loc[h].rows
              \/ \A n \in loc'[h].rows, m \in Names :
                    IsClient(m) /\ Norm[m] = Norm[n] => ~RowLocked(m)
    PROVE  LocksOK'
  <1>1. ASSUME NEW d \in Handlers, d # h, Planning(d), NEW n \in loc[d].rows
        PROVE  n \in Names /\ IsClient(n) /\ IsClient(n)' /\ RowLocked(n)
    <2>1. n \in Names /\ RowLocked(n)
      BY <1>1 DEF TypeOK, HandlersOK, Planning, RowLocked, Loc
    <2>. QED
      BY <1>1, <2>1 DEF LocksOK, OwnRows, LockedRowsStay
  <1>2. ASSUME NEW d \in Handlers PROVE OwnRows(d)'
    <2>1. CASE d # h
      BY <1>1, <2>1 DEF LocksOK, OwnRows, Planning
    <2>. QED
      BY <2>1
  <1>3. ASSUME NEW d \in Handlers, d # h, Planning(h)', Planning(d)',
               NEW n \in loc'[h].rows, NEW m \in loc'[d].rows, Norm[n] = Norm[m]
        PROVE  FALSE
    <2>1. Planning(d) /\ m \in loc[d].rows
      BY <1>3 DEF Planning
    <2>2. m \in Names /\ IsClient(m) /\ RowLocked(m)
      BY <1>1, <1>3, <2>1
    <2>3. Planning(h) /\ n \in loc[h].rows
      BY <1>3, <2>2
    <2>. QED
      BY <1>3, <2>1, <2>3 DEF LocksOK
  <1>4. ASSUME NEW d \in Handlers, NEW g \in Handlers, Planning(d)', Planning(g)',
               NEW n \in loc'[d].rows, NEW m \in loc'[g].rows, Norm[n] = Norm[m]
        PROVE  d = g
    <2>1. CASE d = h \/ g = h
      BY <1>3, <1>4, <2>1
    <2>2. CASE d # h /\ g # h
      BY <1>4, <2>2 DEF LocksOK, Planning
    <2>. QED
      BY <2>1, <2>2
  <1>. QED
    BY <1>2, <1>4 DEF LocksOK

\* Rows that are only written, never removed.
LEMMA RowsStay ==
    ASSUME TypeOK,
           \/ UNCHANGED clients
           \/ \E n \in Names : \E row : row # NoRow /\ PutClient(n, row)
           \/ \E n \in Names : PutClient(n, NoRow)
           \/ \A n \in Names : IsClient(n) => clients'[n] # NoRow
    PROVE  LockedRowsStay
  BY DEF LockedRowsStay, IsClient, PutClient, TypeOK

LEMMA RealRows ==
    ASSUME TypeOK, NEW t \in Tiers
    PROVE  /\ \A s \in {"active", "pending"} : NewClient(t, s) # NoRow
           /\ \A n \in Names : IsClient(n) =>
                 /\ \A s \in {"active", "pending"} :
                       /\ [clients[n] EXCEPT !.status = s] # NoRow
                       /\ [clients[n] EXCEPT !.status = s, !.tier = t] # NoRow
                 /\ [clients[n] EXCEPT !.tier = t] # NoRow
                 /\ \A b \in BOOLEAN : [clients[n] EXCEPT !.addon = b] # NoRow
  <1>1. \A s \in {"active", "pending"} : NewClient(t, s) \in Client
    BY ClientEdits
  <1>2. ASSUME NEW n \in Names, IsClient(n)
        PROVE  /\ \A s \in {"active", "pending"} :
                     /\ [clients[n] EXCEPT !.status = s] \in Client
                     /\ [clients[n] EXCEPT !.status = s, !.tier = t] \in Client
               /\ [clients[n] EXCEPT !.tier = t] \in Client
               /\ \A b \in BOOLEAN : [clients[n] EXCEPT !.addon = b] \in Client
    <2>1. clients[n] \in Client
      BY <1>2, Rows
    <2>. QED
      BY <2>1 DEF Client
  <1>3. \A row \in Client : row # NoRow
    BY AbsentAssumption
  <1>. QED
    BY <1>1, <1>2, <1>3

LEMMA EndLocks ==
    ASSUME TypeOK, LocksOK, NEW h \in Handlers, End(h), LockedRowsStay
    PROVE  LocksOK'
  <1>1. pc'[h] = "idle" /\ \A d \in Handlers : d # h => pc'[d] = pc[d] /\ loc'[d] = loc[d]
    BY DEF End, Goto, TypeOK, HandlersOK
  <1>2. OwnRows(h)' /\ ~Planning(h)'
    BY <1>1 DEF OwnRows, Planning
  <1>. QED
    BY <1>1, <1>2, OneHandlerLocks

LEMMA ConsoleLocks ==
    ASSUME TypeOK, LocksOK, UNCHANGED console, LockedRowsStay
    PROVE  LocksOK'
  <1>1. ASSUME NEW h \in Handlers PROVE OwnRows(h)'
    BY <1>1 DEF console, LocksOK, OwnRows, Planning, LockedRowsStay, RowLocked,
       TypeOK, HandlersOK, Loc
  <1>. QED
    BY <1>1 DEF console, LocksOK, Planning

LEMMA RequestLocks ==
    ASSUME TypeOK, LocksOK, NEW h \in Handlers, Request(h)
    PROVE  LocksOK'
  <1>1. ASSUME NEW what, NEW label, Begin(h, what, label), LockedRowsStay,
               \/ label \in {"addonClient", "createInsert"}
               \/ /\ label \in {"genActivate", "reactSet", "partnerLicense"}
                  /\ what.name = NameOf[what.key]
               \/ /\ label = "delCommit"
                  /\ \A k \in what.keys : NameOf[k] = what.name
        PROVE  LocksOK'
    <2>1. /\ pc'[h] = label /\ loc'[h] = what
          /\ \A d \in Handlers : d # h => pc'[d] = pc[d] /\ loc'[d] = loc[d]
      BY <1>1 DEF Begin, Goto, TypeOK, HandlersOK
    <2>2. OwnRows(h)' /\ ~Planning(h)'
      BY <1>1, <2>1 DEF OwnRows, Planning
    <2>. QED
      BY <1>1, <2>1, <2>2, OneHandlerLocks
  <1>2. PICK t \in Tiers :
           \/ \E k \in Keys : GenInsert(h, k, t) \/ ReactRead(h, k, t) \/ PartnerClient(h, k, t)
           \/ \E n \in Names : \/ CreateCheck(h, n, t)
                               \/ \E on \in BOOLEAN : AddonCheck(h, n, t, on)
                               \/ PlanClient(h, n, t) \/ DelLicenses(h, n, t)
    BY DEF Request
  <1>3. ASSUME NEW k \in Keys, GenInsert(h, k, t) PROVE LocksOK'
    BY <1>1, <1>3, RowsStay DEF GenInsert, Asked
  <1>4. ASSUME NEW k \in Keys, ReactRead(h, k, t) PROVE LocksOK'
    BY <1>1, <1>4, RowsStay DEF ReactRead, Asked, central
  <1>5. ASSUME NEW k \in Keys, PartnerClient(h, k, t) PROVE LocksOK'
    <2>1. LockedRowsStay
      BY <1>5, RowsStay, RealRows DEF PartnerClient
    <2>. QED
      BY <1>1, <1>5, <2>1 DEF PartnerClient, Asked
  <1>6. ASSUME NEW n \in Names, CreateCheck(h, n, t) PROVE LocksOK'
    BY <1>1, <1>6, RowsStay DEF CreateCheck, central
  <1>7. ASSUME NEW n \in Names, NEW on \in BOOLEAN, AddonCheck(h, n, t, on)
        PROVE  LocksOK'
    BY <1>1, <1>7, RowsStay DEF AddonCheck, central
  <1>8. ASSUME NEW n \in Names, DelLicenses(h, n, t) PROVE LocksOK'
    BY <1>1, <1>8, RowsStay DEF DelLicenses, Asked, central
  <1>9. ASSUME NEW n \in Names, PlanClient(h, n, t) PROVE LocksOK'
    <2> DEFINE what == [Asked(n, t, NoKey) EXCEPT !.rows = ClientsOf(n)]
    <2>1. /\ pc'[h] = "planLicenses" /\ loc'[h] = what
          /\ \A d \in Handlers : d # h => pc'[d] = pc[d] /\ loc'[d] = loc[d]
          /\ UNCHANGED clients
      BY <1>9 DEF PlanClient, Begin, Goto, TypeOK, HandlersOK, central
    <2>2. what.rows = ClientsOf(n) /\ what.name = n
      BY DEF Asked
    <2>3. LockedRowsStay
      BY <2>1, RowsStay
    <2>4. OwnRows(h)'
      BY <2>1, <2>2 DEF OwnRows, Planning, ClientsOf, IsClient
    <2>5. \A m \in ClientsOf(n), i \in Names :
             IsClient(i) /\ Norm[i] = Norm[m] => ~RowLocked(i)
      BY <1>9 DEF PlanClient, ClientsOf
    <2>6. \A m \in loc'[h].rows, i \in Names :
             IsClient(i) /\ Norm[i] = Norm[m] => ~RowLocked(i)
      BY <2>1, <2>2, <2>5
    <2>. HIDE DEF what
    <2>. QED
      BY <2>1, <2>3, <2>4, <2>6, OneHandlerLocks
  <1>. QED
    BY <1>2, <1>3, <1>4, <1>5, <1>6, <1>7, <1>8, <1>9

LEMMA StatementLocks ==
    ASSUME TypeOK, LocksOK, NEW h \in Handlers, Statement(h)
    PROVE  LocksOK'
  <1>0. loc[h] \in Loc
    BY DEF Statement, GenActivate, ReactSet, CreateInsert, PartnerLicense, AddonClient,
       AddonLicenses, PlanLicenses, PlanCommit, DelCommit, TypeOK, HandlersOK
  <1>1. CASE GenActivate(h)
    <2>1. ASSUME NEW n \in Names, IsClient(n) PROVE clients'[n] # NoRow
      <3>1. clients'[n] \in {clients[n], [clients[n] EXCEPT !.status = "active"]}
        BY <1>1 DEF GenActivate
      <3>. QED
        BY <1>0, <2>1, <3>1, RealRows DEF IsClient, Loc
    <2>. QED
      BY <1>1, <2>1, RowsStay, EndLocks DEF GenActivate
  <1>2. CASE ReactSet(h) \/ PartnerLicense(h) \/ AddonLicenses(h)
    BY <1>2, RowsStay, EndLocks DEF ReactSet, PartnerLicense, AddonLicenses
  <1>3. CASE CreateInsert(h)
    <2>1. NewClient(loc[h].tier, "active") # NoRow /\ loc[h].name \in Names
      BY <1>0, RealRows DEF Loc
    <2>. QED
      BY <1>3, <2>1, RowsStay, EndLocks DEF CreateInsert
  <1>4. CASE AddonClient(h)
    <2>1. /\ pc'[h] = "addonLicenses" /\ loc' = loc
          /\ \A d \in Handlers : d # h => pc'[d] = pc[d]
      BY <1>4 DEF AddonClient, Goto, TypeOK, HandlersOK
    <2>2. ASSUME NEW n \in Names, IsClient(n) PROVE clients'[n] # NoRow
      <3>1. clients'[n] \in {clients[n], [clients[n] EXCEPT !.addon = loc[h].on]}
        BY <1>4 DEF AddonClient
      <3>. QED
        BY <1>0, <2>2, <3>1, RealRows DEF IsClient, Loc
    <2>3. OwnRows(h)' /\ ~Planning(h)'
      BY <2>1 DEF OwnRows, Planning
    <2>. QED
      BY <2>1, <2>2, <2>3, RowsStay, OneHandlerLocks
  <1>5. CASE PlanLicenses(h)
    <2>1. /\ pc[h] = "planLicenses" /\ pc'[h] = "planCommit"
          /\ loc'[h] = [loc[h] EXCEPT !.keys = Active(loc[h].name)]
          /\ \A d \in Handlers : d # h => pc'[d] = pc[d] /\ loc'[d] = loc[d]
          /\ UNCHANGED clients
      BY <1>5 DEF PlanLicenses, Goto, TypeOK, HandlersOK, central
    <2>2. /\ loc'[h].rows = loc[h].rows /\ loc'[h].name = loc[h].name
          /\ loc'[h].keys = Active(loc[h].name)
      BY <1>0, <2>1 DEF Loc
    <2>3. OwnRows(h)' /\ Planning(h)
      BY <2>1, <2>2 DEF LocksOK, OwnRows, Planning, Active, IsClient
    <2>. QED
      BY <2>1, <2>2, <2>3, RowsStay, OneHandlerLocks
  <1>6. CASE PlanCommit(h)
    <2>1. ASSUME NEW n \in Names, IsClient(n) PROVE clients'[n] # NoRow
      <3>1. clients'[n] \in {clients[n], [clients[n] EXCEPT !.tier = loc[h].tier]}
        BY <1>6 DEF PlanCommit
      <3>. QED
        BY <1>0, <2>1, <3>1, RealRows DEF IsClient, Loc
    <2>. QED
      BY <1>6, <2>1, RowsStay, EndLocks DEF PlanCommit
  <1>7. CASE DelCommit(h)
    BY <1>0, <1>7, RowsStay, EndLocks DEF DelCommit, Loc
  <1>. QED
    BY <1>1, <1>2, <1>3, <1>4, <1>5, <1>6, <1>7 DEF Statement

LEMMA LocksStep ==
    ASSUME TypeOK, LocksOK, [Next]_vars
    PROVE  LocksOK'
  <1>1. ASSUME NEW h \in Handlers, HandlerFails(h) PROVE LocksOK'
    BY <1>1, RowsStay, EndLocks DEF HandlerFails, central
  <1>2. ASSUME NEW h \in Handlers, NEW d \in Handlers, BreakDeadlock(h, d)
        PROVE  LocksOK'
    BY <1>2, RowsStay, EndLocks DEF BreakDeadlock, central
  <1>3. CASE AtOnce
    <2>1. ASSUME NEW n \in Names, NEW t \in Tiers,
                 \/ DeployClient(n, t) \/ StripeClient(n, t) \/ OnboardUser(n, t)
                 \/ UpdateSubscription(n, t)
          PROVE  LockedRowsStay
      <3>1. \E row : row # NoRow /\ PutClient(n, row)
        BY <2>1, RealRows DEF DeployClient, StripeClient, OnboardUser, UpdateSubscription
      <3>. QED
        BY <3>1, RowsStay
    <2>2. UNCHANGED console /\ LockedRowsStay
      BY <1>3, <2>1, RowsStay DEF AtOnce, RevokeLicense, StripeLicense, DeployClient,
         StripeClient, OnboardUser, UpdateSubscription
    <2>. QED
      BY <2>2, ConsoleLocks
  <1>4. CASE (\E p \in Pods : PodStep(p)) \/ RestartPod \/ Tick \/ UNCHANGED vars
    <2>1. UNCHANGED <<clients, console>>
      BY <1>4 DEF PodStep, AskCached, AskCentral, CentralReads, CentralDenies,
         Respond, FetchFails, Answer, RestartPod, Tick, central, vars
    <2>. QED
      BY <2>1, RowsStay, ConsoleLocks
  <1>. QED
    BY <1>1, <1>2, <1>3, <1>4, RequestLocks, StatementLocks DEF Next, Step

Moves(h) ==
    \E g \in Handlers : /\ SameTenant(h, g)
                        /\ Ready(g) \/ \E d \in Handlers : Deadlocked(g, d)

\* Who has locked a client row can go on, or waits for a deletion that can, or
\* is in a deadlock with it.
LEMMA RowHolderMoves ==
    ASSUME TypeOK, LocksOK, NEW h \in Handlers, Planning(h), loc[h].rows # {}
    PROVE  Moves(h)
  <1>1. CASE Ready(h)
    BY <1>1 DEF Moves, SameTenant, Planning
  <1>2. CASE ~Ready(h)
    <2>1. pc[h] = "planLicenses"
      BY <1>2 DEF Ready, Planning
    <2>2. PICK k \in Active(loc[h].name) : KeyLocked(k)
      BY <1>2, <2>1 DEF Ready
    <2>3. PICK d \in Handlers : pc[d] \in {"planCommit", "delCommit"} /\ k \in loc[d].keys
      BY <2>2 DEF KeyLocked
    <2>4. loc[d].name = loc[h].name
      BY <2>2, <2>3 DEF LocksOK, OwnRows, Active
    <2>5. CASE Ready(d)
      BY <2>3, <2>4, <2>5 DEF Moves, SameTenant
    <2>6. CASE ~Ready(d)
      <3>1. pc[d] = "delCommit" /\ RowLocked(loc[d].name)
        BY <2>3, <2>6 DEF Ready
      <3>2. PICK g \in Handlers : Planning(g) /\ loc[d].name \in loc[g].rows
        BY <3>1 DEF RowLocked, Planning
      <3>3. PICK n \in loc[h].rows : TRUE
        OBVIOUS
      <3>4. Norm[n] = Norm[loc[d].name]
        BY <2>4 DEF LocksOK, OwnRows
      <3>5. g = h
        BY <3>2, <3>4 DEF LocksOK
      <3>6. Deadlocked(h, d)
        BY <2>1, <2>2, <2>3, <3>1, <3>2, <3>5 DEF Deadlocked
      <3>. QED
        BY <2>1, <3>6 DEF Moves, SameTenant
    <2>. QED
      BY <2>5, <2>6
  <1>. QED
    BY <1>1, <1>2

\* A tenant's request waits for a client row of the tenant.
LEMMA RowWaiterMoves ==
    ASSUME TypeOK, LocksOK, NEW h \in Handlers, NEW n, RowLocked(n),
           Norm[n] = Norm[loc[h].name]
    PROVE  Moves(h)
  <1>1. PICK g \in Handlers : Planning(g) /\ n \in loc[g].rows
    BY DEF RowLocked, Planning
  <1>2. Norm[loc[g].name] = Norm[loc[h].name]
    BY <1>1 DEF LocksOK, OwnRows
  <1>3. Moves(g)
    BY <1>1, RowHolderMoves
  <1>. QED
    BY <1>2, <1>3 DEF Moves, SameTenant

\* A tenant's request waits for a licence of the tenant.
LEMMA KeyWaiterMoves ==
    ASSUME TypeOK, LocksOK, NEW h \in Handlers, NEW k, KeyLocked(k),
           NameOf[k] = loc[h].name
    PROVE  Moves(h)
  <1>1. PICK d \in Handlers : pc[d] \in {"planCommit", "delCommit"} /\ k \in loc[d].keys
    BY DEF KeyLocked
  <1>2. loc[d].name = loc[h].name
    BY <1>1 DEF LocksOK, OwnRows
  <1>3. CASE Ready(d)
    BY <1>1, <1>2, <1>3 DEF Moves, SameTenant
  <1>4. CASE ~Ready(d)
    BY <1>1, <1>2, <1>4, RowWaiterMoves DEF Ready
  <1>. QED
    BY <1>3, <1>4

\* No request of the console waits for ever on others that wait: for each in
\* progress there is one of the same tenant that can go on, or a deadlock that
\* PostgreSQL detects and breaks; so no cycle of row locks but the one between
\* updateClientPlan and deleteClient can form.
THEOREM WaitingIsForSomeone == Spec => []NobodyStuck
  <1>1. Init => LocksOK
    BY DEF Init, LocksOK, OwnRows, Planning
  <1>2. TypeOK /\ LocksOK /\ [Next]_vars => LocksOK'
    BY LocksStep
  <1>3. TypeOK /\ LocksOK => NobodyStuck
    <2>. SUFFICES ASSUME TypeOK, LocksOK, NEW h \in Handlers, pc[h] # "idle"
                  PROVE  Moves(h)
      BY DEF NobodyStuck, Moves
    <2>1. CASE Ready(h)
      BY <2>1 DEF Moves, SameTenant
    <2>2. CASE pc[h] = "genActivate" /\ ~Ready(h)
      BY <2>2, RowWaiterMoves DEF Ready
    <2>3. CASE pc[h] = "addonClient" /\ ~Ready(h)
      BY <2>3, RowWaiterMoves DEF Ready, ClientsOf
    <2>4. CASE pc[h] \in {"createInsert", "delCommit"} /\ ~Ready(h)
      BY <2>4, RowWaiterMoves DEF Ready
    <2>5. CASE pc[h] \in {"reactSet", "partnerLicense"} /\ ~Ready(h)
      BY <2>5, KeyWaiterMoves DEF Ready, LocksOK, OwnRows
    <2>6. CASE pc[h] \in {"addonLicenses", "planLicenses"} /\ ~Ready(h)
      BY <2>6, KeyWaiterMoves DEF Ready, Active
    <2>. QED
      BY <2>1, <2>2, <2>3, <2>4, <2>5, <2>6 DEF Ready
  <1>. QED
    BY <1>1, <1>2, <1>3, TypeCorrect, PTL DEF Spec
=============================================================================
