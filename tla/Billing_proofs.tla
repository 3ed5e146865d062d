---------------------------- MODULE Billing_proofs ----------------------------
(***************************************************************************)
(* Proofs about module Billing, for any number of tenants, sessions and     *)
(* concurrent deliveries.                                                  *)
(***************************************************************************)
EXTENDS Billing, FiniteSetTheorems, TLAPS

USE SessionAssumption, BoundAssumption, NoneAssumption

-----------------------------------------------------------------------------
(* Type correctness.                                                       *)

LEMMA ClientType ==
  ASSUME NEW o \in Emails \cup {Nobody}, NEW b \in BOOLEAN
  PROVE  ConsoleClient(o, b) \in Client
  BY DEF ConsoleClient, Client

LEMMA InitType == Init => TypeOK
  <1>. SUFFICES ASSUME Init PROVE TypeOK
    OBVIOUS
  <1>1. clients \in [Tenants -> Client \cup {NoRow}]
    <2>1. {ConsoleClient(o, TRUE) : o \in ConsoleOwners} \subseteq Client
      BY ClientType, SessionAssumption DEF SessionAssumption
    <2>. QED
      BY <2>1 DEF Init
  <1>. QED
    BY <1>1, BoundAssumption DEF Init, TypeOK, BoundAssumption, At, Labels

\* A request, or Stripe.
LEMMA RequestType ==
  ASSUME TypeOK, NEW s \in Sessions,
         \/ OpenSession(s) \/ SendCustomCheckoutEmail(s) \/ Pay(s) \/ Cancel(s)
  PROVE  TypeOK'
  BY DEF TypeOK, OpenSession, SendCustomCheckoutEmail, Pay, Cancel, db, stripe,
         webhook, history, At

LEMMA TenantType ==
  ASSUME TypeOK, NEW t \in Tenants,
         \/ DeleteClient(t)
         \/ \E s \in Sessions : OpenPortal(t, s) \/ StoreCustomer(t, s)
  PROVE  TypeOK'
  <1>1. CASE DeleteClient(t)
    BY <1>1 DEF TypeOK, DeleteClient, db, stripe, webhook, history, At
  <1>2. ASSUME NEW s \in Sessions, OpenPortal(t, s) PROVE TypeOK'
    BY <1>2 DEF TypeOK, OpenPortal, db, webhook, history, At
  <1>3. ASSUME NEW s \in Sessions, StoreCustomer(t, s) PROVE TypeOK'
    <2>1. \A row \in Client : [row EXCEPT !.customer = s] \in Client
      BY DEF Client
    <2>2. clients' \in [Tenants -> Client \cup {NoRow}]
      BY <1>3, <2>1 DEF TypeOK, StoreCustomer, Exists
    <2>3. portal' \subseteq Tenants \X Sessions
      BY <1>3 DEF TypeOK, StoreCustomer
    <2>. QED
      BY <1>3, <2>2, <2>3 DEF TypeOK, StoreCustomer, webhook, history, At
  <1>. QED
    BY <1>1, <1>2, <1>3

LEMMA BranchType ==
  ASSUME NEW e \in Events
  PROVE  Branch(e) \in Labels \ {"idle"}
  BY DEF Branch, Labels

LEMMA DeliveryType ==
  ASSUME TypeOK, NEW h \in Handlers, NEW e \in Events,
         Deliver(h, e) \/ Redeliver(h, e)
  PROVE  TypeOK'
  BY BranchType, BoundAssumption
     DEF TypeOK, Deliver, Redeliver, Receive, Fault, db, stripe, BoundAssumption, At

LEMMA ProvisionedType ==
  ASSUME NEW row \in Client, NEW b \in BOOLEAN, NEW s \in Sessions
  PROVE  [row EXCEPT !.status = "active", !.paid = TRUE, !.enterprise = b,
                     !.customer = s, !.subscription = s] \in Client
  BY DEF Client

\* What a step of the webhook does to its own handler.
HandlerOK ==
    /\ stage' = stage /\ portal' = portal
    /\ pc' \in [Handlers -> Labels]
    /\ ev' \in [Handlers -> Events \cup {NoEvent}]
    /\ \A g \in Handlers : (~At(g, "idle") => ev[g] \in Events)'
    /\ seen' \in [Handlers -> Owners \cup {NoRow}]
    /\ target' \in [Handlers -> Tenants \cup {NoRow}]
    /\ answered' \subseteq Events

LEMMA SessionType ==
  ASSUME TypeOK, NEW h \in Handlers, ~At(h, "idle")
  PROVE  /\ ev[h] \in Events
         /\ Session(h) \in Sessions /\ For[Session(h)] \in Tenants
         /\ Row(h) \in Client \cup {NoRow}
  BY SessionAssumption DEF TypeOK, Session, Events, SessionAssumption, Row

LEMMA AnswerType ==
  ASSUME TypeOK, NEW h \in Handlers, ~At(h, "idle"), Answer(h)
  PROVE  HandlerOK
  BY SessionType DEF TypeOK, Answer, At, Labels, HandlerOK

LEMMA GoToType ==
  ASSUME TypeOK, NEW h \in Handlers, NEW l \in Labels, ~At(h, "idle"), GoTo(h, l)
  PROVE  HandlerOK
  BY SessionType DEF TypeOK, GoTo, stripe, At, HandlerOK

LEMMA WebhookType ==
  ASSUME TypeOK, NEW h \in Handlers, Webhook(h)
  PROVE  TypeOK'
  <1>1. CASE CheckScope(h)
    BY <1>1, AnswerType, GoToType DEF TypeOK, CheckScope, HandlerOK, db, history, At, Labels
  <1>2. CASE CheckCompleted(h)
    BY <1>2, AnswerType, GoToType DEF TypeOK, CheckCompleted, HandlerOK, db, history, At, Labels
  <1>3. CASE CheckOwner(h)
    <2>1. Owner(Row(h)) \in Owners \cup {NoRow}
      BY <1>3, SessionType DEF CheckOwner, At, Owner, Owners, Client
    <2>. QED
      BY <1>3, <2>1, SessionType
         DEF TypeOK, CheckOwner, db, stripe, history, At, Labels
  <1>4. CASE MarkConflict(h)
    <2>1. HandlerOK
      BY <1>4, AnswerType DEF MarkConflict, At
    <2>. QED
      BY <1>4, <2>1 DEF TypeOK, MarkConflict, HandlerOK, history
  <1>5. CASE UpsertClient(h)
    <2>1. /\ Session(h) \in Sessions /\ For[Session(h)] \in Tenants
          /\ Row(h) \in Client \cup {NoRow} /\ ev[h] \in Events
      BY <1>5, SessionType DEF UpsertClient, At
    <2>2. ConsoleClient(Buyer[Session(h)], FALSE) \in Client
      BY <2>1, ClientType, SessionAssumption DEF SessionAssumption
    <2>3. \A row \in Client : [row EXCEPT !.status = "active", !.paid = TRUE,
                                         !.enterprise = Session(h) \in Enterprise,
                                         !.customer = Session(h),
                                         !.subscription = Session(h)] \in Client
      <3>1. (Session(h) \in Enterprise) \in BOOLEAN
        OBVIOUS
      <3>. QED
        BY <2>1, <3>1, ProvisionedType
    <2>4. clients' \in [Tenants -> Client \cup {NoRow}]
      BY <1>5, <2>1, <2>2, <2>3 DEF TypeOK, UpsertClient
    <2>5. /\ pc' \in [Handlers -> Labels] /\ seen' \in [Handlers -> Owners \cup {NoRow}]
          /\ \A g \in Handlers : (~At(g, "idle") => ev[g] \in Events)'
      BY <1>5, <2>1 DEF TypeOK, UpsertClient, At, Labels
    <2>. QED
      BY <1>5, <2>4, <2>5 DEF TypeOK, UpsertClient, stripe
  <1>6. CASE InsertLicense(h)
    <2>1. HandlerOK /\ Session(h) \in Sessions
      BY <1>6, GoToType, SessionType DEF InsertLicense, At, Labels
    <2>. QED
      BY <1>6, <2>1 DEF TypeOK, InsertLicense, HandlerOK
  <1>7. CASE InsertToken(h)
    BY <1>7, AnswerType DEF TypeOK, InsertToken, HandlerOK, db, history, At
  <1>8. CASE MarkInvitePaid(h)
    <2>1. HandlerOK
      BY <1>8, AnswerType DEF MarkInvitePaid, At
    <2>. QED
      BY <1>8, <2>1 DEF TypeOK, MarkInvitePaid, HandlerOK, history
  <1>9. CASE SetAddon(h)
    <2>1. HandlerOK
      BY <1>9, GoToType DEF SetAddon, At, Labels
    <2>2. /\ Session(h) \in Sessions /\ For[Session(h)] \in Tenants
          /\ Row(h) \in Client \cup {NoRow}
      BY <1>9, SessionType DEF SetAddon, At
    <2>3. \A row \in Client :
             [row EXCEPT !.addon = TRUE, !.addonSub = Session(h)] \in Client
      BY <2>2 DEF Client
    <2>4. clients' \in [Tenants -> Client \cup {NoRow}]
      <3>1. CASE Row(h) = NoRow
        BY <1>9, <3>1 DEF TypeOK, SetAddon
      <3>2. CASE Row(h) # NoRow
        <4>1. clients' = [clients EXCEPT ![For[Session(h)]] =
                             [@ EXCEPT !.addon = TRUE, !.addonSub = Session(h)]]
          BY <1>9, <2>2, <3>2 DEF TypeOK, SetAddon, Client
        <4>. QED
          BY <2>2, <2>3, <3>2, <4>1 DEF TypeOK, Row
      <3>. QED
        BY <3>1, <3>2
    <2>5. revived' \subseteq ended
      BY <1>9 DEF TypeOK, SetAddon
    <2>. QED
      BY <1>9, <2>1, <2>4, <2>5 DEF TypeOK, SetAddon, HandlerOK
  <1>10. CASE SetCustomer(h)
    <2>1. HandlerOK
      BY <1>10, AnswerType DEF SetCustomer, At
    <2>2. /\ Session(h) \in Sessions /\ For[Session(h)] \in Tenants
          /\ Row(h) \in Client \cup {NoRow}
      BY <1>10, SessionType DEF SetCustomer, At
    <2>3. \A row \in Client : [row EXCEPT !.customer = Session(h)] \in Client
      BY <2>2 DEF Client
    <2>4. clients' \in [Tenants -> Client \cup {NoRow}]
      BY <1>10, <2>2, <2>3 DEF TypeOK, SetCustomer, Row
    <2>. QED
      BY <1>10, <2>1, <2>4 DEF TypeOK, SetCustomer, HandlerOK, history
  <1>11. CASE FindAddonOwner(h)
    <2>1. target' \in [Handlers -> Tenants \cup {NoRow}]
      BY <1>11, SessionType DEF TypeOK, FindAddonOwner, At
    <2>. QED
      BY <1>11, <2>1, SessionType DEF TypeOK, FindAddonOwner, db, stripe, history, At, Labels
  <1>12. CASE RemoveAddon(h)
    <2>1. HandlerOK /\ Session(h) \in Sessions
      BY <1>12, AnswerType, SessionType DEF RemoveAddon, At
    <2>2. \A row \in Client : [row EXCEPT !.addon = FALSE, !.addonSub = Nobody] \in Client
      BY DEF Client
    <2>3. clients' \in [Tenants -> Client \cup {NoRow}]
      BY <1>12, <2>2 DEF TypeOK, RemoveAddon, Exists
    <2>. QED
      BY <1>12, <2>1, <2>3 DEF TypeOK, RemoveAddon, HandlerOK
  <1>13. CASE SuspendClient(h)
    <2>1. HandlerOK /\ Session(h) \in Sessions
      BY <1>13, AnswerType, SessionType DEF SuspendClient, At
    <2>2. \A row \in Client : [row EXCEPT !.status = "suspended"] \in Client
      BY DEF Client
    <2>3. clients' \in [Tenants -> Client \cup {NoRow}]
      BY <1>13, <2>2 DEF TypeOK, SuspendClient, Exists
    <2>. QED
      BY <1>13, <2>1, <2>3 DEF TypeOK, SuspendClient, HandlerOK
  <1>14. CASE MarkPaid(h)
    <2>1. HandlerOK
      BY <1>14, AnswerType DEF MarkPaid, At
    <2>2. \A row \in Client : [row EXCEPT !.paid = TRUE] \in Client
      BY DEF Client
    <2>3. clients' \in [Tenants -> Client \cup {NoRow}]
      BY <1>14, <2>2 DEF TypeOK, MarkPaid, Exists
    <2>. QED
      BY <1>14, <2>1, <2>3 DEF TypeOK, MarkPaid, HandlerOK, history
  <1>. QED
    BY <1>1, <1>2, <1>3, <1>4, <1>5, <1>6, <1>7, <1>8, <1>9, <1>10, <1>11, <1>12,
       <1>13, <1>14 DEF Webhook

LEMMA FailureType ==
  ASSUME TypeOK, \/ \E h \in Handlers : StatementFails(h)
                 \/ RestartServer
  PROVE  TypeOK'
  <1>1. ASSUME NEW h \in Handlers, StatementFails(h) PROVE TypeOK'
    <2>1. HandlerOK /\ Session(h) \in Sessions
      BY <1>1, AnswerType, SessionType DEF StatementFails
    <2>. QED
      BY <1>1, <2>1, BoundAssumption
         DEF TypeOK, StatementFails, HandlerOK, Fault, db, BoundAssumption
  <1>2. CASE RestartServer
    BY <1>2, BoundAssumption
       DEF TypeOK, RestartServer, Fault, db, stripe, BoundAssumption, At, Labels
  <1>. QED
    BY <1>1, <1>2

LEMMA TypeStep == TypeOK /\ [Next]_vars => TypeOK'
  <1>1. CASE Next
    BY <1>1, RequestType, TenantType, DeliveryType, WebhookType, FailureType DEF Next
  <1>2. CASE UNCHANGED vars
    BY <1>2 DEF TypeOK, vars, db, stripe, webhook, history, At
  <1>. QED
    BY <1>1, <1>2

\* In every behaviour, for any number of sessions and concurrent deliveries of
\* their events, the client rows, the registrations and the webhook's handlers
\* are well typed.
THEOREM TypeCorrect == Spec => []TypeOK
  <1>. QED
    BY InitType, TypeStep, PTL DEF Spec

-----------------------------------------------------------------------------
(* The inductive invariant.                                                *)

Fulfilment == {"dup", "owner", "conflict", "client", "license", "token"}
AddonSteps == {"addon", "customer", "find", "remove"}

\* A delivery only comes to the statements of its own branch, and carries what
\* the statements before it read.
Step(h) ==
    /\ At(h, "scope") => Kind[Session(h)] = "foreign"
    /\ At(h, "invite") => Kind[Session(h)] = "invite"
    /\ At(h, "suspend") => Kind[Session(h)] # "addon"
    /\ pc[h] \in Fulfilment => Kind[Session(h)] = "registration"
    /\ pc[h] \in AddonSteps => Kind[Session(h)] = "addon"
    /\ At(h, "remove") => target[h] = For[Session(h)]
    /\ At(h, "client") => \/ seen[h] = NoRow
                          \/ seen[h][1] = Buyer[Session(h)]
                          \/ seen[h][2] = Session(h)

Steps == \A h \in Handlers : Step(h)

\* A subscription column holds a subscription of its kind, and an add-on is
\* stored in the row of the tenant it was bought for.
Rows ==
    \A t \in Tenants : Exists(t) =>
        /\ \/ clients[t].subscription = Nobody
           \/ Kind[clients[t].subscription] = "registration"
        /\ \/ clients[t].addonSub = Nobody
           \/ /\ Kind[clients[t].addonSub] = "addon"
              /\ For[clients[t].addonSub] = t

\* Our tables do not know the sessions of another product.
Unknown ==
    \A s \in Sessions : Kind[s] = "foreign" =>
        reg[s] = "none" /\ invite[s] = "none" /\ licenses[s] = 0

IInv == /\ TypeOK /\ Steps /\ Rows /\ Unknown
        /\ EndedMeansSuspended /\ EndedMeansNoAddon

LEMMA InitInv == Init => IInv
  <1>. SUFFICES ASSUME Init PROVE IInv
    OBVIOUS
  <1>1. TypeOK
    BY InitType
  <1>2. \A t \in Tenants : Exists(t) =>
           clients[t].subscription = Nobody /\ clients[t].addonSub = Nobody
    BY DEF Init, Exists, ConsoleClient
  <1>3. Rows /\ Unknown /\ EndedMeansSuspended /\ EndedMeansNoAddon
    BY <1>2, SessionAssumption
       DEF Init, Rows, Unknown, EndedMeansSuspended, EndedMeansNoAddon, SessionAssumption
  <1>4. Steps
    BY DEF Init, Steps, Step, At, Fulfilment, AddonSteps
  <1>. QED
    BY <1>1, <1>3, <1>4 DEF IInv

\* The deliveries: Steps.

LEMMA BranchStep ==
  ASSUME NEW e \in Events
  PROVE  /\ Branch(e) = "scope" => Kind[e[2]] = "foreign"
         /\ Branch(e) = "invite" => Kind[e[2]] = "invite"
         /\ Branch(e) = "suspend" => Kind[e[2]] # "addon"
         /\ Branch(e) \in Fulfilment => Kind[e[2]] = "registration"
         /\ Branch(e) \in AddonSteps => Kind[e[2]] = "addon"
         /\ Branch(e) \notin {"remove", "client"}
  <1>. DEFINE k == Kind[e[2]]
  <1>1. k \in Kinds
    BY SessionAssumption DEF Events, SessionAssumption
  <1>. QED
    BY <1>1 DEF Branch, Kinds, Fulfilment, AddonSteps

LEMMA ReceiveSteps ==
  ASSUME TypeOK, Steps, NEW h \in Handlers, NEW e \in Events, Receive(h, e)
  PROVE  Steps'
  BY BranchStep DEF TypeOK, Steps, Step, Receive, At, Session

LEMMA AnswerSteps ==
  ASSUME TypeOK, Steps, NEW h \in Handlers, Answer(h)
  PROVE  Steps'
  BY DEF TypeOK, Steps, Step, Answer, At, Session, Fulfilment, AddonSteps

LEMMA GoToSteps ==
  ASSUME TypeOK, Steps, NEW h \in Handlers, NEW l, GoTo(h, l),
         \/ l \in {"owner", "token"} /\ pc[h] \in Fulfilment
         \/ l = "customer" /\ pc[h] \in AddonSteps
  PROVE  Steps'
  BY DEF TypeOK, Steps, Step, GoTo, At, Session, Fulfilment, AddonSteps

\* At "client", the row that the delivery read was its own or none.
LEMMA CheckOwnerSteps ==
  ASSUME TypeOK, Steps, NEW h \in Handlers, CheckOwner(h)
  PROVE  Steps'
  <1>1. Kind[Session(h)] = "registration"
    BY DEF Steps, Step, CheckOwner, At, Fulfilment
  <1>2. \/ pc'[h] = "conflict"
        \/ /\ pc'[h] = "client"
           /\ \/ seen'[h] = NoRow
              \/ seen'[h][1] = Buyer[Session(h)]
              \/ seen'[h][2] = Session(h)
    BY DEF TypeOK, CheckOwner, Owner, Owns
  <1>. QED
    BY <1>1, <1>2
       DEF TypeOK, Steps, Step, CheckOwner, stripe, At, Session, Fulfilment, AddonSteps

LEMMA UpsertSteps ==
  ASSUME TypeOK, Steps, NEW h \in Handlers, UpsertClient(h)
  PROVE  Steps'
  <1>1. Kind[Session(h)] = "registration"
    BY DEF Steps, Step, UpsertClient, At, Fulfilment
  <1>2. /\ pc' = [pc EXCEPT ![h] = "license"] /\ seen' = [seen EXCEPT ![h] = NoRow]
        /\ UNCHANGED <<ev, target>>
    BY DEF UpsertClient
  <1>. QED
    BY <1>1, <1>2 DEF TypeOK, Steps, Step, At, Session, Fulfilment, AddonSteps

\* At "remove", the tenant found is the one the add-on was bought for.
LEMMA FindSteps ==
  ASSUME TypeOK, Steps, Rows, NEW h \in Handlers, FindAddonOwner(h)
  PROVE  Steps'
  <1>1. Kind[Session(h)] = "addon"
    BY DEF Steps, Step, FindAddonOwner, At, AddonSteps
  <1>2. Session(h) \in Sessions
    BY SessionType DEF FindAddonOwner, At
  <1>3. \A t \in Tenants : Exists(t) /\ clients[t].addonSub = Session(h)
                              => t = For[Session(h)]
    BY <1>2, SessionAssumption DEF Rows, SessionAssumption
  <1>4. target' = [target EXCEPT ![h] = For[Session(h)]]
    BY <1>3 DEF FindAddonOwner
  <1>5. pc' = [pc EXCEPT ![h] = "remove"] /\ UNCHANGED <<ev, seen>>
    BY DEF FindAddonOwner
  <1>. QED
    BY <1>1, <1>4, <1>5 DEF TypeOK, Steps, Step, At, Session, Fulfilment, AddonSteps

LEMMA ScopeAnswers ==
  ASSUME TypeOK, Steps, Unknown, NEW h \in Handlers, CheckScope(h)
  PROVE  Answer(h)
  <1>1. Session(h) \in Sessions /\ Kind[Session(h)] = "foreign"
    BY SessionType DEF Steps, Step, CheckScope, At
  <1>. QED
    BY <1>1 DEF Unknown, CheckScope

LEMMA WebhookSteps ==
  ASSUME TypeOK, Steps, Rows, Unknown, NEW h \in Handlers, Webhook(h)
  PROVE  Steps'
  <1>1. CASE \/ CheckScope(h) \/ MarkConflict(h) \/ InsertToken(h)
             \/ MarkInvitePaid(h) \/ SetCustomer(h) \/ RemoveAddon(h)
             \/ SuspendClient(h) \/ MarkPaid(h)
    <2>1. Answer(h)
      BY <1>1, ScopeAnswers DEF MarkConflict, InsertToken, MarkInvitePaid,
         SetCustomer, RemoveAddon, SuspendClient, MarkPaid
    <2>. QED
      BY <2>1, AnswerSteps
  <1>2. CASE CheckCompleted(h)
    BY <1>2, AnswerSteps, GoToSteps DEF CheckCompleted, At, Fulfilment
  <1>3. CASE InsertLicense(h)
    BY <1>3, GoToSteps DEF InsertLicense, At, Fulfilment
  <1>4. CASE SetAddon(h)
    BY <1>4, GoToSteps DEF SetAddon, At, AddonSteps
  <1>. QED
    BY <1>1, <1>2, <1>3, <1>4, CheckOwnerSteps, UpsertSteps, FindSteps DEF Webhook

LEMMA StepsStep ==
  ASSUME IInv, Next
  PROVE  Steps'
  <1>1. CASE UNCHANGED webhook
    BY <1>1 DEF IInv, Steps, Step, At, Session, webhook
  <1>2. ASSUME NEW h \in Handlers, NEW e \in Events, Deliver(h, e) \/ Redeliver(h, e)
        PROVE  Steps'
    BY <1>2, ReceiveSteps DEF IInv, Deliver, Redeliver
  <1>3. ASSUME NEW h \in Handlers, Webhook(h) \/ StatementFails(h)
        PROVE  Steps'
    BY <1>3, WebhookSteps, AnswerSteps DEF IInv, StatementFails
  <1>4. CASE RestartServer
    BY <1>4 DEF RestartServer, Steps, Step, At, Fulfilment, AddonSteps
  <1>. QED
    BY <1>1, <1>2, <1>3, <1>4
       DEF Next, OpenSession, SendCustomCheckoutEmail, Pay, Cancel, DeleteClient,
           OpenPortal, StoreCustomer

\* The tables: Rows, Unknown, and the two properties of cancelled subscriptions.

Tables == Rows /\ Unknown /\ EndedMeansSuspended /\ EndedMeansNoAddon

LEMMA TablesUnchanged ==
  ASSUME IInv, UNCHANGED <<clients, licenses, reg, invite, ended, revived>>
  PROVE  Tables'
  BY DEF IInv, Tables, Rows, Unknown, EndedMeansSuspended, EndedMeansNoAddon, Exists

LEMMA RequestTables ==
  ASSUME IInv, NEW s \in Sessions,
         \/ OpenSession(s) \/ SendCustomCheckoutEmail(s) \/ Pay(s) \/ Cancel(s)
  PROVE  Tables'
  <1>1. UNCHANGED <<clients, licenses, ended, revived>>
    BY DEF OpenSession, SendCustomCheckoutEmail, Pay, Cancel, db, history
  <1>2. Unknown'
    BY <1>1 DEF IInv, TypeOK, Unknown, OpenSession, SendCustomCheckoutEmail, Pay, Cancel,
       db
  <1>. QED
    BY <1>1, <1>2
       DEF IInv, Tables, Rows, EndedMeansSuspended, EndedMeansNoAddon, Exists

LEMMA TenantTables ==
  ASSUME IInv, NEW t \in Tenants,
         \/ DeleteClient(t)
         \/ \E s \in Sessions : OpenPortal(t, s) \/ StoreCustomer(t, s)
  PROVE  Tables'
  <1>1. UNCHANGED <<reg, invite, ended, revived>>
    BY DEF DeleteClient, OpenPortal, StoreCustomer, db, history
  <1>2. Unknown'
    BY <1>1 DEF IInv, Unknown, DeleteClient, OpenPortal, StoreCustomer, db
  <1>3. \A u \in Tenants : Exists(u)' =>
           /\ Exists(u)
           /\ clients'[u].status = clients[u].status
           /\ clients'[u].subscription = clients[u].subscription
           /\ clients'[u].addon = clients[u].addon
           /\ clients'[u].addonSub = clients[u].addonSub
    <2>1. CASE DeleteClient(t)
      BY <2>1 DEF IInv, TypeOK, DeleteClient, Exists
    <2>2. ASSUME NEW s \in Sessions, OpenPortal(t, s)
          PROVE  clients' = clients
      BY <2>2 DEF OpenPortal, db
    <2>3. ASSUME NEW s \in Sessions, StoreCustomer(t, s), Exists(t)
          PROVE  \A u \in Tenants :
                    clients'[u] \in {clients[u], [clients[u] EXCEPT !.customer = s]}
      BY <2>3 DEF IInv, TypeOK, StoreCustomer
    <2>4. ASSUME NEW s \in Sessions, NEW u \in Tenants, StoreCustomer(t, s), Exists(u)'
          PROVE  Exists(u)
      BY <2>4 DEF IInv, TypeOK, StoreCustomer, Exists
    <2>5. ASSUME NEW s \in Sessions, NEW u \in Tenants, StoreCustomer(t, s), Exists(u)'
          PROVE  /\ clients'[u].status = clients[u].status
                 /\ clients'[u].subscription = clients[u].subscription
                 /\ clients'[u].addon = clients[u].addon
                 /\ clients'[u].addonSub = clients[u].addonSub
      <3>1. clients[u] \in Client
        BY <2>4, <2>5 DEF IInv, TypeOK, Exists
      <3>2. clients'[u] \in {clients[u], [clients[u] EXCEPT !.customer = s]}
        BY <2>3, <2>5 DEF StoreCustomer
      <3>. QED
        BY <3>1, <3>2 DEF Client
    <2>. QED
      BY <2>1, <2>2, <2>4, <2>5 DEF Exists
  <1>. QED
    BY <1>1, <1>2, <1>3
       DEF IInv, Tables, Rows, EndedMeansSuspended, EndedMeansNoAddon

\* A registration, whose session is neither an add-on nor another product's.
LEMMA FulfilmentTables ==
  ASSUME IInv, NEW h \in Handlers,
         MarkConflict(h) \/ UpsertClient(h) \/ InsertLicense(h)
  PROVE  Tables'
  <1>1. /\ Session(h) \in Sessions /\ For[Session(h)] \in Tenants
        /\ Kind[Session(h)] = "registration" /\ Row(h) \in Client \cup {NoRow}
    BY SessionType DEF IInv, Steps, Step, MarkConflict, UpsertClient, InsertLicense,
       At, Fulfilment
  <1>2. Unknown'
    BY <1>1 DEF IInv, TypeOK, Unknown, MarkConflict, UpsertClient, InsertLicense
  <1>3. CASE MarkConflict(h) \/ InsertLicense(h)
    BY <1>2, <1>3 DEF IInv, Tables, MarkConflict, InsertLicense, history,
       Rows, EndedMeansSuspended, EndedMeansNoAddon, Exists
  <1>4. CASE UpsertClient(h)
    <2>. PICK u \in Tenants : u = For[Session(h)]
      BY <1>1
    <2>1. /\ clients'[u].subscription = Session(h)
          /\ Row(h) = NoRow => clients'[u].addonSub = Nobody /\ clients'[u].addon = FALSE
          /\ Row(h) # NoRow => /\ clients'[u].addonSub = clients[u].addonSub
                               /\ clients'[u].addon = clients[u].addon
      <3>. DEFINE old == IF Row(h) = NoRow THEN ConsoleClient(Buyer[Session(h)], FALSE)
                                           ELSE Row(h)
      <3>1. old \in Client
        BY <1>1, ClientType, SessionAssumption DEF SessionAssumption
      <3>2. clients'[u] = [old EXCEPT !.status = "active", !.paid = TRUE,
                                      !.enterprise = Session(h) \in Enterprise,
                                      !.customer = Session(h),
                                      !.subscription = Session(h)]
        BY <1>1, <1>4 DEF UpsertClient, IInv, TypeOK
      <3>3. /\ clients'[u].subscription = Session(h)
            /\ clients'[u].addonSub = old.addonSub
            /\ clients'[u].addon = old.addon
        <4>. HIDE DEF old
        <4>. QED
          BY <3>1, <3>2 DEF Client
      <3>4. /\ ConsoleClient(Buyer[Session(h)], FALSE).addonSub = Nobody
            /\ ConsoleClient(Buyer[Session(h)], FALSE).addon = FALSE
        BY DEF ConsoleClient
      <3>. QED
        BY <3>3, <3>4 DEF Row
    <2>2. \A t \in Tenants : t # u => clients'[t] = clients[t]
      BY <1>1, <1>4 DEF UpsertClient, IInv, TypeOK
    <2>3. ended' = ended /\ revived' = revived \cup (ended \cap {Session(h)})
      BY <1>4 DEF UpsertClient
    <2>4. Rows'
      BY <1>1, <2>1, <2>2 DEF IInv, Rows, Exists, Row
    <2>5. EndedMeansSuspended'
      BY <1>1, <2>1, <2>2, <2>3 DEF IInv, EndedMeansSuspended, Exists
    <2>6. EndedMeansNoAddon'
      BY <1>1, <2>1, <2>2, <2>3 DEF IInv, EndedMeansNoAddon, Exists, Row
    <2>. QED
      BY <1>2, <2>4, <2>5, <2>6 DEF Tables
  <1>. QED
    BY <1>3, <1>4

\* What the steps of an add-on do to the row of its tenant.

LEMMA SetAddonRow ==
  ASSUME IInv, NEW h \in Handlers, SetAddon(h),
         NEW u \in Tenants, u = For[Session(h)]
  PROVE  /\ \A t \in Tenants : t # u => clients'[t] = clients[t]
         /\ Exists(u)' =>
              /\ Exists(u)
              /\ clients'[u].status = clients[u].status
              /\ clients'[u].subscription = clients[u].subscription
              /\ clients'[u].addonSub = Session(h)
              /\ Session(h) \in ended => Session(h) \in revived'
  <1>1. CASE Row(h) = NoRow
    BY <1>1 DEF IInv, TypeOK, SetAddon, Exists, Row
  <1>2. CASE Row(h) # NoRow
    <2>1. clients[u] \in Client
      BY <1>2 DEF IInv, TypeOK, Row
    <2>2. clients' = [clients EXCEPT ![u] =
                         [@ EXCEPT !.addon = TRUE, !.addonSub = Session(h)]]
      <3>1. clients' = [clients EXCEPT ![u].addon = TRUE, ![u].addonSub = Session(h)]
        BY <1>2 DEF SetAddon
      <3>. QED
        BY <3>1 DEF IInv, TypeOK
    <2>3. clients'[u] = [clients[u] EXCEPT !.addon = TRUE, !.addonSub = Session(h)]
      BY <2>2 DEF IInv, TypeOK
    <2>4. /\ clients'[u].status = clients[u].status
          /\ clients'[u].subscription = clients[u].subscription
          /\ clients'[u].addonSub = Session(h)
      BY <2>1, <2>3 DEF Client
    <2>5. \A t \in Tenants : t # u => clients'[t] = clients[t]
      BY <2>2 DEF IInv, TypeOK
    <2>6. Session(h) \in ended => Session(h) \in revived'
      BY <1>2 DEF SetAddon
    <2>. QED
      BY <1>2, <2>4, <2>5, <2>6 DEF Exists, Row
  <1>. QED
    BY <1>1, <1>2

LEMMA SetCustomerRow ==
  ASSUME IInv, NEW h \in Handlers, SetCustomer(h),
         NEW u \in Tenants, u = For[Session(h)]
  PROVE  /\ \A t \in Tenants : t # u => clients'[t] = clients[t]
         /\ Exists(u)' =>
              /\ Exists(u)
              /\ clients'[u].status = clients[u].status
              /\ clients'[u].subscription = clients[u].subscription
              /\ clients'[u].addonSub = clients[u].addonSub
              /\ clients'[u].addon = clients[u].addon
  <1>1. CASE Row(h) = NoRow
    BY <1>1 DEF IInv, TypeOK, SetCustomer, Exists, Row
  <1>2. CASE Row(h) # NoRow
    <2>1. clients[u] \in Client
      BY <1>2 DEF IInv, TypeOK, Row
    <2>2. \/ clients' = clients
          \/ clients' = [clients EXCEPT ![u] = [@ EXCEPT !.customer = Session(h)]]
      BY DEF SetCustomer
    <2>3. clients'[u] \in {clients[u], [clients[u] EXCEPT !.customer = Session(h)]}
      BY <2>2 DEF IInv, TypeOK
    <2>4. /\ clients'[u].status = clients[u].status
          /\ clients'[u].subscription = clients[u].subscription
          /\ clients'[u].addonSub = clients[u].addonSub
          /\ clients'[u].addon = clients[u].addon
      BY <2>1, <2>3 DEF Client
    <2>5. \A t \in Tenants : t # u => clients'[t] = clients[t]
      BY <2>2 DEF IInv, TypeOK
    <2>. QED
      BY <1>2, <2>4, <2>5 DEF Exists, Row
  <1>. QED
    BY <1>1, <1>2

LEMMA RemoveAddonRow ==
  ASSUME IInv, NEW h \in Handlers, RemoveAddon(h),
         NEW u \in Tenants, u = target[h]
  PROVE  /\ \A t \in Tenants : t # u => clients'[t] = clients[t]
         /\ Exists(u)' =>
              /\ Exists(u)
              /\ clients'[u].status = clients[u].status
              /\ clients'[u].subscription = clients[u].subscription
              /\ ~clients'[u].addon
              /\ clients'[u].addonSub = Nobody
  <1>1. CASE ~Exists(u)
    BY <1>1 DEF IInv, TypeOK, RemoveAddon, Exists
  <1>2. CASE Exists(u)
    <2>1. clients[u] \in Client
      BY <1>2 DEF IInv, TypeOK, Exists
    <2>2. clients' = [clients EXCEPT ![u] =
                         [@ EXCEPT !.addon = FALSE, !.addonSub = Nobody]]
      <3>1. clients' = [clients EXCEPT ![u].addon = FALSE, ![u].addonSub = Nobody]
        BY <1>2 DEF RemoveAddon
      <3>. QED
        BY <3>1 DEF IInv, TypeOK
    <2>3. clients'[u] = [clients[u] EXCEPT !.addon = FALSE, !.addonSub = Nobody]
      BY <2>2 DEF IInv, TypeOK
    <2>4. /\ clients'[u].status = clients[u].status
          /\ clients'[u].subscription = clients[u].subscription
          /\ ~clients'[u].addon
          /\ clients'[u].addonSub = Nobody
      BY <2>1, <2>3 DEF Client
    <2>5. \A t \in Tenants : t # u => clients'[t] = clients[t]
      BY <2>2 DEF IInv, TypeOK
    <2>. QED
      BY <1>2, <2>4, <2>5
  <1>. QED
    BY <1>1, <1>2

LEMMA AddonTables ==
  ASSUME IInv, NEW h \in Handlers,
         SetAddon(h) \/ SetCustomer(h) \/ RemoveAddon(h)
  PROVE  Tables'
  <1>1. /\ Session(h) \in Sessions /\ For[Session(h)] \in Tenants
        /\ Kind[Session(h)] = "addon"
        /\ At(h, "remove") => target[h] = For[Session(h)]
    BY SessionType DEF IInv, Steps, Step, SetAddon, SetCustomer, RemoveAddon, At,
       AddonSteps
  <1>2. PICK u \in Tenants : u = For[Session(h)]
    BY <1>1
  <1>3. Unknown'
    BY DEF IInv, Unknown, SetAddon, SetCustomer, RemoveAddon
  <1>4. CASE SetAddon(h)
    <2>1. ended' = ended /\ revived \subseteq revived'
      BY <1>4 DEF SetAddon
    <2>. QED
      BY <1>1, <1>2, <1>3, <1>4, <2>1, SetAddonRow
         DEF IInv, Tables, Rows, EndedMeansSuspended, EndedMeansNoAddon, Exists
  <1>5. CASE SetCustomer(h)
    <2>1. UNCHANGED <<ended, revived>>
      BY <1>5 DEF SetCustomer, history
    <2>. QED
      BY <1>1, <1>2, <1>3, <1>5, <2>1, SetCustomerRow
         DEF IInv, Tables, Rows, EndedMeansSuspended, EndedMeansNoAddon, Exists
  <1>6. CASE RemoveAddon(h)
    <2>1. /\ \A t \in Tenants : t # u => clients'[t] = clients[t]
          /\ Exists(u)' =>
               /\ Exists(u)
               /\ clients'[u].status = clients[u].status
               /\ clients'[u].subscription = clients[u].subscription
               /\ ~clients'[u].addon
               /\ clients'[u].addonSub = Nobody
      <3>1. u = target[h]
        BY <1>1, <1>2, <1>6 DEF RemoveAddon
      <3>2. IInv /\ RemoveAddon(h) /\ u \in Tenants
        BY <1>2, <1>6
      <3>. QED
        BY <3>1, <3>2, RemoveAddonRow
    <2>2. /\ ended' = ended \cup {Session(h)}
          /\ revived' = revived \ {Session(h)}
      BY <1>6 DEF RemoveAddon
    <2>3. \A t \in Tenants : Exists(t) =>
             /\ clients[t].subscription # Session(h)
             /\ t # u => clients[t].addonSub # Session(h)
      BY <1>1, <1>2, SessionAssumption DEF IInv, Rows, SessionAssumption
    <2>4. Rows'
      BY <2>1 DEF IInv, Rows, Exists
    <2>5. EndedMeansSuspended'
      BY <2>1, <2>2, <2>3 DEF IInv, EndedMeansSuspended, Exists
    <2>6. EndedMeansNoAddon'
      BY <2>1, <2>2, <2>3 DEF IInv, EndedMeansNoAddon, Exists
    <2>. QED
      BY <1>3, <2>4, <2>5, <2>6 DEF Tables
  <1>. QED
    BY <1>4, <1>5, <1>6

\* A tenant's subscription was cancelled, or renewed, or an invite was paid.
LEMMA TenantEventTables ==
  ASSUME IInv, NEW h \in Handlers,
         SuspendClient(h) \/ MarkPaid(h) \/ MarkInvitePaid(h)
  PROVE  Tables'
  <1>1. Session(h) \in Sessions
    BY SessionType DEF IInv, SuspendClient, MarkPaid, MarkInvitePaid, At
  <1>2. Unknown'
    <2>1. CASE MarkInvitePaid(h)
      BY <1>1, <2>1 DEF IInv, TypeOK, Unknown, MarkInvitePaid
    <2>. QED
      BY <2>1 DEF IInv, Unknown, SuspendClient, MarkPaid
  <1>3. CASE MarkInvitePaid(h)
    BY <1>2, <1>3 DEF IInv, Tables, MarkInvitePaid, history, Rows,
       EndedMeansSuspended, EndedMeansNoAddon, Exists
  <1>4. CASE MarkPaid(h)
    <2>1. \A t \in Tenants : Exists(t)' =>
             /\ Exists(t)
             /\ clients'[t].status = clients[t].status
             /\ clients'[t].subscription = clients[t].subscription
             /\ clients'[t].addon = clients[t].addon
             /\ clients'[t].addonSub = clients[t].addonSub
      BY <1>4 DEF IInv, TypeOK, Client, MarkPaid, Exists
    <2>2. UNCHANGED <<ended, revived>>
      BY <1>4 DEF MarkPaid, history
    <2>. QED
      BY <1>2, <2>1, <2>2
         DEF IInv, Tables, Rows, EndedMeansSuspended, EndedMeansNoAddon
  <1>5. CASE SuspendClient(h)
    <2>1. \A t \in Tenants : Exists(t)' =>
             /\ Exists(t)
             /\ clients'[t].subscription = clients[t].subscription
             /\ IF clients[t].subscription = Session(h)
                  THEN clients'[t].status = "suspended"
                  ELSE clients'[t].status = clients[t].status
             /\ clients'[t].addon = clients[t].addon
             /\ clients'[t].addonSub = clients[t].addonSub
      BY <1>5 DEF IInv, TypeOK, Client, SuspendClient, Exists
    <2>2. /\ ended' = ended \cup {Session(h)}
          /\ revived' = revived \ {Session(h)}
      BY <1>5 DEF SuspendClient
    <2>3. Kind[Session(h)] # "addon" /\ Session(h) # Nobody
      BY <1>1, <1>5, SessionAssumption
         DEF IInv, Steps, Step, SuspendClient, SessionAssumption
    <2>4. \A t \in Tenants : Exists(t) => clients[t].addonSub # Session(h)
      BY <2>3 DEF IInv, Rows
    <2>. QED
      BY <1>2, <2>1, <2>2, <2>4
         DEF IInv, Tables, Rows, EndedMeansSuspended, EndedMeansNoAddon
  <1>. QED
    BY <1>3, <1>4, <1>5

LEMMA TablesStep ==
  ASSUME IInv, Next
  PROVE  Tables'
  <1>1. ASSUME NEW h \in Handlers, NEW e \in Events, Deliver(h, e) \/ Redeliver(h, e)
        PROVE  Tables'
    BY <1>1, TablesUnchanged DEF Deliver, Redeliver, Receive, db
  <1>2. ASSUME NEW h \in Handlers, Webhook(h)
        PROVE  Tables'
    <2>1. CASE CheckScope(h) \/ CheckCompleted(h) \/ CheckOwner(h) \/ InsertToken(h)
               \/ FindAddonOwner(h)
      BY <2>1, TablesUnchanged
         DEF CheckScope, CheckCompleted, CheckOwner, InsertToken, FindAddonOwner, db,
             history
    <2>. QED
      BY <1>2, <2>1, FulfilmentTables, AddonTables, TenantEventTables DEF Webhook
  <1>3. ASSUME NEW h \in Handlers, StatementFails(h)
        PROVE  Tables'
    BY <1>3, TablesUnchanged DEF StatementFails, db
  <1>4. CASE RestartServer
    BY <1>4, TablesUnchanged DEF RestartServer, db
  <1>. QED
    BY <1>1, <1>2, <1>3, <1>4, RequestTables, TenantTables DEF Next

LEMMA InvStep == IInv /\ [Next]_vars => IInv'
  <1>1. ASSUME IInv, Next PROVE IInv'
    BY <1>1, TypeStep, StepsStep, TablesStep DEF IInv, Tables
  <1>2. ASSUME IInv, UNCHANGED vars PROVE IInv'
    <2>1. TypeOK' /\ Tables'
      BY <1>2, TypeStep, TablesUnchanged DEF IInv, vars, db, history
    <2>2. Steps'
      BY <1>2 DEF IInv, Steps, Step, At, Session, vars, webhook
    <2>. QED
      BY <2>1, <2>2 DEF IInv, Tables
  <1>. QED
    BY <1>1, <1>2

-----------------------------------------------------------------------------
(* The theorems.                                                           *)

LEMMA Invariant == Spec => []IInv
  <1>. QED
    BY InitInv, InvStep, PTL DEF Spec

\* Whatever is delivered late, twice or in the wrong order, a client is not
\* active on a subscription whose cancellation the webhook carried out, unless
\* that subscription's checkout event was handled after it.
THEOREM NoActiveEnded == Spec => []EndedMeansSuspended
  <1>1. IInv => EndedMeansSuspended
    BY DEF IInv
  <1>. QED
    BY <1>1, Invariant, PTL

\* Nor does an add-on outlive the subscription that paid it, although the tenant
\* is looked up in one statement and updated in another: only the tenant the
\* add-on was bought for can hold its subscription.
THEOREM NoAddonEnded == Spec => []EndedMeansNoAddon
  <1>1. IInv => EndedMeansNoAddon
    BY DEF IInv
  <1>. QED
    BY <1>1, Invariant, PTL

\* Another product's checkout leaves no trace in our tables.
THEOREM ForeignIgnored == Spec => []ForeignLeavesNoTrace
  <1>1. IInv => ForeignLeavesNoTrace
    BY SessionAssumption
       DEF IInv, TypeOK, Client, Rows, Unknown, ForeignLeavesNoTrace, SessionAssumption
  <1>. QED
    BY <1>1, Invariant, PTL

\* A checkout takes over another customer's client only if the client changed
\* hands after the check.
THEOREM NoTakeover == Spec => OwnerKept
  <1>1. IInv => \A h \in Handlers :
           At(h, "client") => \/ Row(h) = NoRow \/ Owns(Session(h), Row(h))
                              \/ seen[h] # Owner(Row(h))
    <2>. SUFFICES ASSUME IInv, NEW h \in Handlers, At(h, "client"),
                         Row(h) # NoRow, seen[h] = Owner(Row(h))
                  PROVE  Owns(Session(h), Row(h))
      OBVIOUS
    <2>1. seen[h] = <<Row(h).owner, Row(h).customer>> /\ seen[h] \in Owners
      BY SessionType DEF IInv, Owner, Owners, Client, At
    <2>2. seen[h] # NoRow
      BY <2>1, NoneAssumption DEF NoneAssumption
    <2>. QED
      BY <2>1, <2>2 DEF IInv, Steps, Step, Owns
  <1>2. IInv /\ [Next]_vars
           => [\A h \in Handlers :
                 (At(h, "client") /\ clients'[For[Session(h)]] # Row(h))
                    => \/ Row(h) = NoRow
                       \/ Owns(Session(h), Row(h))
                       \/ seen[h] # Owner(Row(h))]_vars
    BY <1>1
  <1>. QED
    BY <1>2, Invariant, PTL DEF Spec, OwnerKept

-----------------------------------------------------------------------------
(* Custom invites.                                                           *)

\* An invite is recorded by the request that opens its session, once.
InviteInv == \A s \in Sessions : invite[s] # "none" => stage[s] # "none"

\* What a step may do to an invite and to its session.
InviteStep(s) ==
    /\ invite'[s] # invite[s]
         => \/ invite[s] # "none" /\ invite[s] # "paid" /\ invite'[s] # "none"
            \/ stage[s] = "none" /\ stage'[s] # "none"
            \/ invite[s] # "none" /\ invite'[s] = "paid"
    /\ stage[s] # "none" => stage'[s] # "none"

LEMMA InviteSteps ==
    ASSUME TypeOK, [Next]_vars, NEW s \in Sessions
    PROVE  InviteStep(s)
  <1>0. invite \in [Sessions -> {"none", "created", "sent", "paid"}]
           /\ stage \in [Sessions -> {"none", "open", "paid", "cancelled"}]
    BY DEF TypeOK
  <1>1. ASSUME UNCHANGED <<invite, stage>> PROVE InviteStep(s)
    BY <1>1 DEF InviteStep
  <1>2. CASE UNCHANGED vars
    BY <1>1, <1>2 DEF vars, db, stripe
  <1>3. ASSUME NEW r \in Sessions, OpenSession(r) PROVE InviteStep(s)
    <2>1. CASE r = s
      BY <1>0, <1>3, <2>1 DEF OpenSession, InviteStep
    <2>2. CASE r # s
      BY <1>0, <1>1, <1>3, <2>2 DEF OpenSession, InviteStep
    <2>. QED
      BY <2>1, <2>2
  <1>4. ASSUME NEW r \in Sessions, SendCustomCheckoutEmail(r) PROVE InviteStep(s)
    BY <1>0, <1>4 DEF SendCustomCheckoutEmail, InviteStep, stripe
  <1>5. ASSUME NEW r \in Sessions, Pay(r) \/ Cancel(r) PROVE InviteStep(s)
    BY <1>0, <1>5 DEF Pay, Cancel, InviteStep, db
  <1>6. ASSUME NEW t \in Tenants, NEW r \in Sessions,
               DeleteClient(t) \/ OpenPortal(t, r) \/ StoreCustomer(t, r)
        PROVE  InviteStep(s)
    BY <1>1, <1>6 DEF DeleteClient, OpenPortal, StoreCustomer, stripe, db
  <1>7. ASSUME NEW t \in Tenants, DeleteClient(t) PROVE InviteStep(s)
    BY <1>1, <1>7 DEF DeleteClient, stripe
  <1>8. ASSUME NEW h \in Handlers, NEW e \in Events, Deliver(h, e) \/ Redeliver(h, e)
        PROVE  InviteStep(s)
    BY <1>1, <1>8 DEF Deliver, Redeliver, Receive, db, stripe
  <1>9. ASSUME NEW h \in Handlers, MarkInvitePaid(h) PROVE InviteStep(s)
    BY <1>0, <1>9 DEF MarkInvitePaid, Answer, InviteStep
  <1>10. ASSUME NEW h \in Handlers, Webhook(h), ~MarkInvitePaid(h)
         PROVE  UNCHANGED <<invite, stage>>
    BY <1>10 DEF Webhook, CheckScope, CheckCompleted, CheckOwner, MarkConflict,
        UpsertClient, InsertLicense, InsertToken, SetAddon, SetCustomer,
        FindAddonOwner, RemoveAddon, SuspendClient, MarkPaid, Answer, GoTo, db,
        stripe
  <1>11. ASSUME NEW h \in Handlers, StatementFails(h) PROVE InviteStep(s)
    BY <1>1, <1>11 DEF StatementFails, Answer, db
  <1>12. CASE RestartServer
    BY <1>1, <1>12 DEF RestartServer, db
  <1>. QED
    BY <1>1, <1>2, <1>3, <1>4, <1>5, <1>6, <1>7, <1>8, <1>9, <1>10, <1>11, <1>12
       DEF Next

\* Once an invite was paid it stays so: no email that is sent late, no repeated
\* event and no reopened session takes it back, for any invites and deliveries.
THEOREM InvitesStayPaid == Spec => PaidInviteStays
  <1>1. Init => TypeOK /\ InviteInv
    BY InitType DEF Init, InviteInv
  <1>2. TypeOK /\ InviteInv /\ [Next]_vars => (TypeOK /\ InviteInv)'
    <2>. SUFFICES ASSUME TypeOK, InviteInv, [Next]_vars, NEW s \in Sessions,
                         invite'[s] # "none"
                  PROVE  stage'[s] # "none"
      BY TypeStep DEF InviteInv
    <2>. QED
      BY InviteSteps DEF InviteStep, InviteInv
  <1>3. TypeOK /\ InviteInv /\ [Next]_vars
           => [\A s \in Sessions : invite[s] = "paid" => invite'[s] = "paid"]_vars
    <2>. SUFFICES ASSUME TypeOK, InviteInv, [Next]_vars, NEW s \in Sessions,
                         invite[s] = "paid"
                  PROVE  invite'[s] = "paid"
      OBVIOUS
    <2>. QED
      BY InviteSteps DEF InviteStep, InviteInv
  <1>. QED
    BY <1>1, <1>2, <1>3, PTL DEF Spec, PaidInviteStays

-----------------------------------------------------------------------------
(***************************************************************************)
(* Paid registrations.  That each is provisioned is a liveness property,   *)
(* beyond the prover; what it rests on is not: until it is provisioned,    *)
(* Stripe goes on delivering its payment.                                  *)
(***************************************************************************)

Provisioned(s) == outcome[s] # "none" \/ reg[s] = "conflict"

AnsweredIsProvisioned ==
    \A s \in Registrations : <<"completed", s>> \in answered => Provisioned(s)

\* A delivery is of a session that was opened; the payment of a registration is
\* handled by fulfillPaidRegistration alone, and ends with a licence given.
HandlerDue(h) ==
    ~At(h, "idle") =>
        /\ stage[Session(h)] # "none"
        /\ Kind[Session(h)] = "registration" /\ ev[h][1] = "completed"
              => pc[h] \in Fulfilment
        /\ pc[h] \in Fulfilment => ev[h][1] = "completed"
        /\ At(h, "token") => outcome[Session(h)] # "none"

\* A registration is recorded when its session is opened; none is ever marked
\* as completed.
RegistrationDue(s) ==
    reg[s] # "completed" /\ (stage[s] = "none" <=> reg[s] = "none")

DueInv ==
    /\ \A h \in Handlers : HandlerDue(h)
    /\ \A s \in Registrations : RegistrationDue(s)
    /\ AnsweredIsProvisioned

\* What no step takes back.
Onward ==
    \A s \in Sessions : /\ stage[s] # "none" => stage'[s] # "none"
                        /\ outcome[s] # "none" => outcome'[s] # "none"

LEMMA OthersDue ==
    ASSUME TypeOK, DueInv, Onward, NEW h \in Handlers,
           pc'[h] = pc[h], ev'[h] = ev[h]
    PROVE  HandlerDue(h)'
  BY SessionType DEF DueInv, HandlerDue, Onward, At, Session

LEMMA RegistrationsDue ==
    ASSUME TypeOK, DueInv, UNCHANGED <<stage, reg>>
    PROVE  \A s \in Registrations : RegistrationDue(s)'
  BY DEF DueInv, RegistrationDue

LEMMA ProvisionedStays ==
    ASSUME Onward, NEW s \in Registrations, reg[s] = "conflict" => reg'[s] = "conflict",
           Provisioned(s)
    PROVE  Provisioned(s)'
  BY DEF Onward, Provisioned, Registrations

\* The webhook goes on to its next statement.
LEMMA GoOnDue ==
    ASSUME TypeOK, DueInv, NEW h \in Handlers, ~At(h, "idle"), NEW l,
           pc' = [pc EXCEPT ![h] = l], UNCHANGED <<reg, stage, answered, ev>>, Onward,
           l \in Fulfilment <=> pc[h] \in Fulfilment,
           l = "token" => outcome'[Session(h)] # "none"
    PROVE  DueInv'
  <1>1. pc'[h] = l /\ ev'[h] = ev[h] /\ \A d \in Handlers \ {h} : pc'[d] = pc[d]
    BY DEF TypeOK
  <1>2. HandlerDue(h)'
    BY <1>1 DEF DueInv, HandlerDue, At, Session
  <1>3. \A d \in Handlers : HandlerDue(d)'
    BY <1>1, <1>2, OthersDue
  <1>4. AnsweredIsProvisioned'
    BY ProvisionedStays DEF DueInv, AnsweredIsProvisioned
  <1>. QED
    BY <1>3, <1>4, RegistrationsDue DEF DueInv

\* The webhook answers.
LEMMA AnswerDue ==
    ASSUME TypeOK, DueInv, NEW h \in Handlers, ~At(h, "idle"), Answer(h), Onward,
           \A s \in Registrations : /\ reg'[s] # "completed"
                                    /\ reg'[s] = "none" <=> reg[s] = "none"
                                    /\ reg[s] = "conflict" => reg'[s] = "conflict",
           \A s \in Registrations :
              pc[h] \in Fulfilment /\ s = Session(h) => Provisioned(s)'
    PROVE  DueInv'
  <1>1. /\ pc'[h] = "idle" /\ answered' = answered \cup {ev[h]} /\ UNCHANGED stage
        /\ \A d \in Handlers \ {h} : pc'[d] = pc[d] /\ ev'[d] = ev[d]
    BY DEF TypeOK, Answer
  <1>2. \A d \in Handlers : HandlerDue(d)'
    BY <1>1, OthersDue DEF HandlerDue, At
  <1>3. ASSUME NEW s \in Registrations, <<"completed", s>> \in answered'
        PROVE  (outcome[s] # "none" \/ reg[s] = "conflict")'
    <2>1. CASE <<"completed", s>> \in answered
      BY <2>1, ProvisionedStays DEF DueInv, AnsweredIsProvisioned, Provisioned
    <2>2. CASE ev[h] = <<"completed", s>>
      <3>1. Session(h) = s /\ Kind[s] = "registration" /\ ev[h][1] = "completed"
        BY <2>2 DEF Session, Registrations
      <3>2. pc[h] \in Fulfilment
        BY <3>1 DEF DueInv, HandlerDue
      <3>. QED
        BY <3>1, <3>2 DEF Provisioned, Session
    <2>. QED
      BY <1>1, <1>3, <2>1, <2>2
  <1>4. \A s \in Registrations : RegistrationDue(s)'
    BY <1>1 DEF DueInv, RegistrationDue
  <1>. QED
    BY <1>2, <1>3, <1>4 DEF DueInv, AnsweredIsProvisioned, Provisioned

LEMMA WebhookDue ==
    ASSUME TypeOK, Steps, Unknown, DueInv, NEW h \in Handlers, Webhook(h)
    PROVE  DueInv'
  <1>0. /\ pc \in [Handlers -> Labels] /\ outcome \in [Sessions -> {"none", "licensed", "lost"}]
        /\ reg \in [Sessions -> {"none", "pending", "completed", "conflict"}]
    BY DEF TypeOK
  <1>1. CASE CheckScope(h)
    <2>1. Answer(h) /\ pc[h] = "scope" /\ UNCHANGED <<db, history>>
      BY <1>1, ScopeAnswers DEF CheckScope, At
    <2>2. UNCHANGED reg /\ Onward
      BY <2>1 DEF db, history, Answer, Onward
    <2>. QED
      BY <2>1, <2>2, AnswerDue DEF At, Fulfilment, DueInv, RegistrationDue
  <1>2. CASE CheckCompleted(h)
    <2>1. Kind[Session(h)] = "registration" /\ Session(h) \in Registrations
      BY <1>2, SessionType DEF CheckCompleted, At, Steps, Step, Fulfilment, Registrations
    <2>2. GoTo(h, "owner")
      BY <1>2, <2>1 DEF CheckCompleted, DueInv, RegistrationDue
    <2>. QED
      BY <1>2, <2>2, GoOnDue DEF CheckCompleted, GoTo, stripe, db, history, At, Fulfilment,
         Onward
  <1>3. CASE CheckOwner(h)
    <2>1. /\ \E l \in {"client", "conflict"} : pc' = [pc EXCEPT ![h] = l]
          /\ At(h, "owner") /\ UNCHANGED <<reg, stage, answered, ev, outcome>>
      BY <1>3 DEF CheckOwner, db, stripe, history
    <2>. QED
      BY <2>1, GoOnDue DEF At, Fulfilment, Onward
  <1>4. CASE MarkConflict(h)
    <2>1. Session(h) \in Registrations /\ ~At(h, "idle") /\ Answer(h)
      BY <1>4, SessionType DEF MarkConflict, At, Steps, Step, Fulfilment, Registrations
    <2>2. reg[Session(h)] # "none"
      BY <2>1, SessionType DEF DueInv, HandlerDue, RegistrationDue
    <2>3. reg' = [reg EXCEPT ![Session(h)] = "conflict"] /\ UNCHANGED <<stage, outcome>>
      BY <1>4, <2>2 DEF MarkConflict, Answer, history
    <2>4. /\ reg'[Session(h)] = "conflict"
          /\ \A s \in Sessions \ {Session(h)} : reg'[s] = reg[s]
      BY <1>0, <2>1, <2>3 DEF Registrations
    <2>5. \A s \in Registrations : /\ reg'[s] # "completed"
                                   /\ reg'[s] = "none" <=> reg[s] = "none"
                                   /\ reg[s] = "conflict" => reg'[s] = "conflict"
      BY <2>2, <2>4 DEF DueInv, RegistrationDue, Registrations
    <2>6. Onward
      BY <2>3 DEF Onward
    <2>7. \A s \in Registrations : s = Session(h) => Provisioned(s)'
      BY <2>4 DEF Provisioned
    <2>. QED
      BY <2>1, <2>5, <2>6, <2>7, AnswerDue
  <1>5. CASE UpsertClient(h)
    BY <1>5, GoOnDue DEF UpsertClient, stripe, At, Fulfilment, Onward
  <1>6. CASE InsertLicense(h)
    <2>1. /\ outcome'[Session(h)] = "licensed"
          /\ \A s \in Sessions : outcome'[s] \in {outcome[s], "licensed"}
      BY <1>0, <1>6, SessionType DEF InsertLicense, At
    <2>2. /\ pc' = [pc EXCEPT ![h] = "token"] /\ At(h, "license")
          /\ UNCHANGED <<reg, stage, answered, ev>>
      BY <1>6 DEF InsertLicense, GoTo, stripe
    <2>3. Onward
      BY <2>1, <2>2 DEF Onward
    <2>. QED
      BY <2>1, <2>2, <2>3, GoOnDue DEF At, Fulfilment
  <1>7. CASE InsertToken(h)
    <2>1. /\ Answer(h) /\ At(h, "token") /\ outcome[Session(h)] # "none"
          /\ UNCHANGED <<reg, outcome, stage>>
      BY <1>7 DEF InsertToken, db, history, DueInv, HandlerDue, At, Answer
    <2>. QED
      BY <2>1, AnswerDue DEF At, Onward, DueInv, RegistrationDue, Provisioned
  <1>8. CASE SetAddon(h)
    BY <1>8, GoOnDue DEF SetAddon, GoTo, stripe, At, Fulfilment, Onward
  <1>9. CASE FindAddonOwner(h)
    BY <1>9, GoOnDue DEF FindAddonOwner, stripe, db, history, At, Fulfilment, Onward
  <1>10. CASE \/ MarkInvitePaid(h) \/ SetCustomer(h) \/ RemoveAddon(h)
              \/ SuspendClient(h) \/ MarkPaid(h)
    <2>1. /\ Answer(h) /\ pc[h] \in {"invite", "customer", "remove", "suspend", "paid"}
          /\ UNCHANGED <<reg, outcome, stage>>
      BY <1>10 DEF MarkInvitePaid, SetCustomer, RemoveAddon, SuspendClient, MarkPaid,
         Answer, At, history
    <2>. QED
      BY <2>1, AnswerDue DEF At, Fulfilment, Onward, DueInv, RegistrationDue
  <1>. QED
    BY <1>1, <1>2, <1>3, <1>4, <1>5, <1>6, <1>7, <1>8, <1>9, <1>10 DEF Webhook

LEMMA ReceiveDue ==
    ASSUME TypeOK, DueInv, NEW h \in Handlers, NEW e \in Events, Receive(h, e)
    PROVE  DueInv'
  <1>1. /\ pc'[h] = Branch(e) /\ ev'[h] = e /\ Happened(e)
        /\ \A d \in Handlers \ {h} : pc'[d] = pc[d] /\ ev'[d] = ev[d]
        /\ UNCHANGED <<stage, reg, outcome, answered>>
    BY DEF TypeOK, Receive, db, stripe
  <1>2. /\ Branch(e) # "token" /\ stage[e[2]] # "none"
        /\ Kind[e[2]] = "registration" /\ e[1] = "completed" => Branch(e) \in Fulfilment
        /\ Branch(e) \in Fulfilment => e[1] = "completed"
    BY <1>1 DEF Branch, Events, Fulfilment, Happened
  <1>3. HandlerDue(h)'
    BY <1>1, <1>2 DEF HandlerDue, At, Session
  <1>4. Onward
    BY <1>1 DEF Onward
  <1>5. \A d \in Handlers : HandlerDue(d)'
    BY <1>1, <1>3, <1>4, OthersDue
  <1>. QED
    BY <1>1, <1>5, RegistrationsDue DEF DueInv, AnsweredIsProvisioned, Provisioned

LEMMA DueStep == IInv /\ DueInv /\ [Next]_vars => DueInv'
  <1>. SUFFICES ASSUME IInv, DueInv, [Next]_vars PROVE DueInv'
    OBVIOUS
  <1>0. TypeOK /\ Steps /\ Unknown
    BY DEF IInv
  <1>1. ASSUME UNCHANGED <<reg, answered, webhook>>, Onward,
               \A s \in Sessions : stage[s] = "none" => stage'[s] = "none"
        PROVE  DueInv'
    <2>1. \A h \in Handlers : HandlerDue(h)'
      BY <1>0, <1>1, OthersDue DEF webhook
    <2>2. \A s \in Registrations : RegistrationDue(s)'
      BY <1>1 DEF DueInv, RegistrationDue, Onward, Registrations
    <2>. QED
      BY <1>1, <2>1, <2>2, ProvisionedStays DEF DueInv, AnsweredIsProvisioned
  <1>2. ASSUME NEW s \in Sessions, OpenSession(s) PROVE DueInv'
    <2>1. /\ stage[s] = "none" /\ stage' = [stage EXCEPT ![s] = "open"]
          /\ UNCHANGED <<answered, webhook, outcome>>
          /\ reg' = IF Kind[s] = "registration" THEN [reg EXCEPT ![s] = "pending"] ELSE reg
      BY <1>2 DEF OpenSession, history
    <2>2. /\ stage'[s] = "open" /\ \A r \in Sessions \ {s} : stage'[r] = stage[r]
          /\ s \in Registrations => reg'[s] = "pending" /\ reg[s] = "none"
          /\ \A r \in Registrations \ {s} : reg'[r] = reg[r]
      BY <1>0, <2>1 DEF TypeOK, Registrations, DueInv, RegistrationDue
    <2>3. Onward
      BY <2>1, <2>2 DEF Onward
    <2>4. \A h \in Handlers : HandlerDue(h)'
      BY <1>0, <2>1, <2>3, OthersDue DEF webhook
    <2>5. \A r \in Registrations : RegistrationDue(r)'
      BY <2>2 DEF DueInv, RegistrationDue, Registrations
    <2>6. \A r \in Registrations : reg[r] = "conflict" => reg'[r] = "conflict"
      BY <2>2
    <2>. QED
      BY <2>1, <2>3, <2>4, <2>5, <2>6, ProvisionedStays DEF DueInv, AnsweredIsProvisioned
  <1>3. ASSUME NEW s \in Sessions, SendCustomCheckoutEmail(s) \/ Pay(s) \/ Cancel(s)
        PROVE  DueInv'
    BY <1>0, <1>1, <1>3 DEF SendCustomCheckoutEmail, Pay, Cancel, stripe, db, history,
       Onward, TypeOK
  <1>4. ASSUME NEW t \in Tenants, NEW s \in Sessions,
               DeleteClient(t) \/ OpenPortal(t, s) \/ StoreCustomer(t, s)
        PROVE  DueInv'
    BY <1>1, <1>4 DEF DeleteClient, OpenPortal, StoreCustomer, stripe, db, history, Onward
  <1>5. ASSUME NEW t \in Tenants, DeleteClient(t) PROVE DueInv'
    BY <1>1, <1>5 DEF DeleteClient, stripe, history, Onward
  <1>6. ASSUME NEW h \in Handlers, NEW e \in Events, Deliver(h, e) \/ Redeliver(h, e)
        PROVE  DueInv'
    BY <1>0, <1>6, ReceiveDue DEF Deliver, Redeliver
  <1>7. ASSUME NEW h \in Handlers, StatementFails(h) PROVE DueInv'
    <2>1. ~At(h, "idle") /\ Answer(h) /\ UNCHANGED <<reg, stage>>
      BY <1>7 DEF StatementFails, db, Answer
    <2>2. /\ outcome'[Session(h)] # "none"
          /\ \A s \in Sessions : outcome[s] # "none" => outcome'[s] = outcome[s]
      BY <1>0, <1>7, <2>1, SessionType DEF StatementFails, TypeOK
    <2>3. Onward
      BY <2>1, <2>2 DEF Onward
    <2>. QED
      BY <1>0, <2>1, <2>2, <2>3, AnswerDue DEF DueInv, RegistrationDue, Provisioned
  <1>8. CASE RestartServer
    <2>1. /\ \A h \in Handlers : pc'[h] = "idle"
          /\ UNCHANGED <<reg, stage, answered, outcome>>
      BY <1>8 DEF RestartServer, db
    <2>. QED
      BY <2>1 DEF DueInv, HandlerDue, RegistrationDue, AnsweredIsProvisioned, Provisioned, At
  <1>9. CASE UNCHANGED vars
    BY <1>1, <1>9 DEF vars, db, stripe, history, Onward
  <1>. QED
    BY <1>0, <1>2, <1>3, <1>4, <1>5, <1>6, <1>7, <1>8, <1>9, WebhookDue DEF Next

\* An answered payment is not forgotten: whatever was delivered twice, failed or
\* was cut off by a restart, a registration whose payment Stripe no longer
\* delivers has got its licence, was refused as a conflict, or lost it to an
\* error that the webhook swallowed; a restart alone loses none.
THEOREM PaymentsAreNotForgotten == Spec => []AnsweredIsProvisioned
  <1>1. Init => DueInv
    BY DEF Init, DueInv, HandlerDue, RegistrationDue, AnsweredIsProvisioned, At,
       Registrations
  <1>2. DueInv => AnsweredIsProvisioned
    BY DEF DueInv
  <1>. QED
    BY <1>1, <1>2, DueStep, Invariant, PTL DEF Spec

-----------------------------------------------------------------------------
(* Licences.  A repeated event may mint a second licence (the run            *)
(* billing_replay); no more than the deliveries account for.                 *)

LicencesAccountedFor == \A s \in Sessions : licenses[s] =< 1 + faults

\* The deliveries of a session's payment that will still mint a licence.
Minting(s) ==
    {h \in Handlers : pc[h] \in {"dup", "owner", "client", "license"} /\ Session(h) = s}

\* The first delivery of it, which is no fault.
First(s) == IF <<"completed", s>> \in answered \/ Handled(<<"completed", s>>) THEN 1 ELSE 0

MintInv ==
    \A s \in Sessions : licenses[s] + Cardinality(Minting(s)) =< faults + First(s)

LEMMA MintingFinite ==
    ASSUME NEW s
    PROVE  IsFiniteSet(Minting(s)) /\ Cardinality(Minting(s)) \in Nat
  BY FS_Subset, FS_CardinalityType DEF Minting, BoundAssumption

\* Nobody mints without having been delivered the payment.
LEMMA MintingIsHandling ==
    ASSUME TypeOK, DueInv, NEW s \in Sessions, NEW h \in Minting(s)
    PROVE  /\ h \in Handlers /\ ~At(h, "idle") /\ ev[h] = <<"completed", s>>
           /\ First(s) = 1
  BY DEF TypeOK, DueInv, HandlerDue, Minting, Fulfilment, Session, Events, At, First,
         Handled

\* A step after which no more handlers are minting.
LEMMA MintKept ==
    ASSUME TypeOK, TypeOK', MintInv, NEW s \in Sessions, Minting(s)' \subseteq Minting(s),
           licenses'[s] =< licenses[s],
           \/ faults' >= faults /\ First(s)' >= First(s)
           \/ faults' = faults + 1
    PROVE  licenses'[s] + Cardinality(Minting(s)') =< faults' + First(s)'
  <1>1. Cardinality(Minting(s)') =< Cardinality(Minting(s))
    BY MintingFinite, FS_Subset
  <1>2. Cardinality(Minting(s)') \in Nat
    <2>1. IsFiniteSet(Minting(s)')
      BY MintingFinite, FS_Subset
    <2>. QED
      BY <2>1, FS_CardinalityType
  <1>3. licenses[s] + Cardinality(Minting(s)) =< faults + First(s)
    BY DEF MintInv
  <1>4. First(s) \in 0 .. 1 /\ First(s)' \in 0 .. 1
    BY DEF First
  <1>5. /\ licenses[s] \in Nat /\ licenses'[s] \in Nat /\ faults \in Nat /\ faults' \in Nat
        /\ Cardinality(Minting(s)) \in Nat
    BY MintingFinite DEF TypeOK
  <1>. QED
    BY <1>1, <1>2, <1>3, <1>4, <1>5

LEMMA MintReceive ==
    ASSUME TypeOK, TypeOK', DueInv, MintInv, NEW h \in Handlers, NEW e \in Events,
           Deliver(h, e) \/ Redeliver(h, e), NEW s \in Sessions
    PROVE  licenses'[s] + Cardinality(Minting(s)') =< faults' + First(s)'
  <1>1. /\ pc[h] = "idle" /\ pc'[h] = Branch(e) /\ ev'[h] = e
        /\ \A d \in Handlers \ {h} : pc'[d] = pc[d] /\ ev'[d] = ev[d]
        /\ UNCHANGED <<licenses, answered>>
    BY DEF TypeOK, Deliver, Redeliver, Receive, db, stripe, At
  <1>2. pc'[h] # "idle"
    BY <1>1, BranchType
  <1>3. \A d \in Handlers : ~At(d, "idle") => ~At(d, "idle")' /\ ev'[d] = ev[d]
    BY <1>1 DEF At
  <1>4. First(s)' >= First(s)
    BY <1>1, <1>3 DEF First, Handled
  <1>5. Minting(s)' \subseteq Minting(s) \cup {h}
    BY <1>1 DEF Minting, Session
  <1>6. h \notin Minting(s)
    BY <1>1 DEF Minting
  <1>7. CASE h \notin Minting(s)'
    <2>1. faults' >= faults
      BY DEF Deliver, Redeliver, Fault, TypeOK
    <2>. QED
      BY <1>1, <1>4, <1>5, <1>7, <2>1, MintKept DEF TypeOK
  <1>8. CASE h \in Minting(s)'
    <2>1. e = <<"completed", s>>
      BY <1>1, <1>8 DEF Minting, Session, Branch, Events
    <2>2. First(s)' = 1
      BY <1>1, <1>2, <2>1 DEF First, Handled, At
    <2>3. Minting(s)' = Minting(s) \cup {h}
      BY <1>1, <1>5, <1>8 DEF Minting, Session
    <2>4. Cardinality(Minting(s)') = Cardinality(Minting(s)) + 1
      BY <1>6, <2>3, MintingFinite, FS_AddElement
    <2>5. /\ licenses[s] + Cardinality(Minting(s)) =< faults + First(s)
          /\ licenses[s] \in Nat /\ faults \in Nat /\ faults' \in Nat
          /\ Cardinality(Minting(s)) \in Nat /\ First(s) \in 0 .. 1
      BY MintingFinite DEF MintInv, TypeOK, First
    <2>6. CASE Deliver(h, e)
      <3>1. First(s) = 0 /\ faults' = faults
        BY <2>1, <2>6 DEF Deliver, First
      <3>. QED
        BY <1>1, <2>2, <2>4, <2>5, <3>1
    <2>7. CASE Redeliver(h, e)
      <3>1. faults' = faults + 1
        BY <2>7 DEF Redeliver, Fault
      <3>. QED
        BY <1>1, <2>2, <2>4, <2>5, <3>1
    <2>. QED
      BY <2>6, <2>7
  <1>. QED
    BY <1>7, <1>8

\* The webhook goes on, or answers.
LEMMA MintWebhook ==
    ASSUME TypeOK, TypeOK', Steps, Unknown, DueInv, MintInv, NEW h \in Handlers,
           Webhook(h) \/ StatementFails(h), NEW s \in Sessions
    PROVE  licenses'[s] + Cardinality(Minting(s)') =< faults' + First(s)'
  <1>1. /\ \A d \in Handlers \ {h} : pc'[d] = pc[d] /\ ev'[d] = ev[d]
        /\ ~At(h, "idle")
        /\ \/ ev'[h] = ev[h] /\ pc'[h] # "idle" /\ UNCHANGED answered
           \/ pc'[h] = "idle" /\ answered' = answered \cup {ev[h]}
        /\ faults' >= faults
    <2>1. CASE Answer(h)
      <3>1. ~At(h, "idle")
        BY DEF Webhook, StatementFails, CheckScope, CheckCompleted, CheckOwner,
           MarkConflict, UpsertClient, InsertLicense, InsertToken, MarkInvitePaid,
           SetAddon, SetCustomer, FindAddonOwner, RemoveAddon, SuspendClient, MarkPaid, At
      <3>2. faults' \in {faults, faults + 1}
        BY DEF Webhook, StatementFails, CheckScope, CheckCompleted, CheckOwner,
           MarkConflict, UpsertClient, InsertLicense, InsertToken, MarkInvitePaid,
           SetAddon, SetCustomer, FindAddonOwner, RemoveAddon, SuspendClient, MarkPaid,
           history, Fault
      <3>. QED
        BY <2>1, <3>1, <3>2 DEF Answer, TypeOK
    <2>2. CASE ~Answer(h)
      <3>1. CASE CheckScope(h) \/ CheckCompleted(h) \/ SetAddon(h) \/ InsertLicense(h)
        <4>1. \E l \in {"dup", "owner", "customer", "token"} : GoTo(h, l)
          BY <2>2, <3>1 DEF CheckScope, CheckCompleted, SetAddon, InsertLicense
        <4>2. ~At(h, "idle") /\ faults' = faults
          BY <3>1 DEF CheckScope, CheckCompleted, SetAddon, InsertLicense, At, history
        <4>. QED
          BY <4>1, <4>2 DEF GoTo, TypeOK, stripe
      <3>2. CASE CheckOwner(h) \/ UpsertClient(h) \/ FindAddonOwner(h)
        <4>1. \E l \in {"client", "conflict", "license", "remove"} :
                 pc' = [pc EXCEPT ![h] = l]
          BY <3>2 DEF CheckOwner, UpsertClient, FindAddonOwner
        <4>2. ~At(h, "idle") /\ UNCHANGED <<ev, answered, faults>>
          BY <3>2 DEF CheckOwner, UpsertClient, FindAddonOwner, At, stripe, history
        <4>. QED
          BY <4>1, <4>2 DEF TypeOK
      <3>. QED
        BY <2>2, <3>1, <3>2 DEF Webhook, StatementFails, MarkConflict, InsertToken,
           MarkInvitePaid, SetCustomer, RemoveAddon, SuspendClient, MarkPaid
    <2>. QED
      BY <2>1, <2>2
  <1>2. First(s)' >= First(s)
    BY <1>1 DEF First, Handled, At
  <1>3. pc'[h] \in {"dup", "owner", "client", "license"} =>
           pc[h] \in {"dup", "owner", "client"} /\ ev'[h] = ev[h]
    <2>1. CASE Answer(h)
      BY <2>1 DEF Answer, TypeOK
    <2>2. CASE ~Answer(h)
      <3>1. ~CheckScope(h)
        BY <2>2, ScopeAnswers
      <3>. QED
        BY <2>2, <3>1 DEF Webhook, CheckCompleted, CheckOwner,
           MarkConflict, UpsertClient, InsertLicense, InsertToken, MarkInvitePaid,
           SetAddon, SetCustomer, FindAddonOwner, RemoveAddon, SuspendClient, MarkPaid,
           StatementFails, GoTo, At, TypeOK
    <2>. QED
      BY <2>1, <2>2
  <1>4. Minting(s)' \subseteq Minting(s)
    BY <1>1, <1>3 DEF Minting, Session
  <1>5. CASE InsertLicense(h) /\ Session(h) = s
    <2>1. licenses'[s] = licenses[s] + 1 /\ faults' = faults /\ pc[h] = "license"
      BY <1>5 DEF InsertLicense, TypeOK, At
    <2>2. h \in Minting(s) /\ h \notin Minting(s)'
      BY <1>3, <1>5, <2>1 DEF Minting
    <2>3. Minting(s)' \subseteq Minting(s) \ {h}
      BY <1>4, <2>2
    <2>4. /\ Cardinality(Minting(s) \ {h}) = Cardinality(Minting(s)) - 1
          /\ IsFiniteSet(Minting(s) \ {h})
      BY <2>2, MintingFinite, FS_RemoveElement
    <2>5. /\ Cardinality(Minting(s)') =< Cardinality(Minting(s)) - 1
          /\ IsFiniteSet(Minting(s)')
      BY <2>3, <2>4, FS_Subset
    <2>6. Cardinality(Minting(s)') \in Nat
      BY <2>5, FS_CardinalityType
    <2>7. /\ licenses[s] + Cardinality(Minting(s)) =< faults + First(s)
          /\ licenses[s] \in Nat /\ faults \in Nat /\ Cardinality(Minting(s)) \in Nat
          /\ First(s) \in 0 .. 1 /\ First(s)' \in 0 .. 1
      BY MintingFinite DEF MintInv, TypeOK, First
    <2>. QED
      BY <1>2, <2>1, <2>5, <2>6, <2>7
  <1>6. CASE ~(InsertLicense(h) /\ Session(h) = s)
    <2>1. licenses'[s] = licenses[s]
      <3>1. CASE InsertLicense(h)
        BY <1>6, <3>1 DEF InsertLicense, TypeOK
      <3>2. CASE ~InsertLicense(h)
        BY <3>2 DEF Webhook, CheckScope, CheckCompleted, CheckOwner, MarkConflict,
           UpsertClient, InsertToken, MarkInvitePaid, SetAddon, SetCustomer,
           FindAddonOwner, RemoveAddon, SuspendClient, MarkPaid, StatementFails, db
      <3>. QED
        BY <3>1, <3>2
    <2>. QED
      BY <1>1, <1>2, <1>4, <2>1, MintKept DEF TypeOK
  <1>. QED
    BY <1>5, <1>6

LEMMA MintStep == IInv /\ DueInv /\ MintInv /\ [Next]_vars => MintInv'
  <1>. SUFFICES ASSUME IInv, DueInv, MintInv, [Next]_vars, NEW s \in Sessions
                PROVE  licenses'[s] + Cardinality(Minting(s)') =< faults' + First(s)'
    BY DEF MintInv
  <1>0. TypeOK /\ TypeOK' /\ Steps /\ Unknown
    BY TypeStep DEF IInv
  <1>1. ASSUME UNCHANGED <<answered, webhook, faults>>, licenses'[s] =< licenses[s]
        PROVE  licenses'[s] + Cardinality(Minting(s)') =< faults' + First(s)'
    <2>1. Minting(s)' = Minting(s) /\ First(s)' = First(s)
      BY <1>1 DEF webhook, Minting, Session, First, Handled, At
    <2>. QED
      BY <1>0, <1>1, <2>1, MintKept DEF TypeOK, First
  <1>2. ASSUME NEW r \in Sessions,
               \/ OpenSession(r) \/ SendCustomCheckoutEmail(r) \/ Pay(r) \/ Cancel(r)
               \/ \E t \in Tenants : OpenPortal(t, r) \/ StoreCustomer(t, r)
        PROVE  UNCHANGED <<answered, webhook, faults, licenses>>
    BY <1>2 DEF OpenSession, SendCustomCheckoutEmail, Pay, Cancel, OpenPortal,
       StoreCustomer, stripe, db, history
  <1>3. ASSUME NEW t \in Tenants, DeleteClient(t)
        PROVE  UNCHANGED <<answered, webhook, faults>> /\ licenses'[s] =< licenses[s]
    BY <1>0, <1>3 DEF DeleteClient, stripe, history, TypeOK
  <1>4. CASE UNCHANGED <<answered, webhook, faults, licenses>>
    BY <1>0, <1>1, <1>4 DEF TypeOK
  <1>5. CASE RestartServer
    <2>1. Minting(s)' = {} /\ licenses' = licenses /\ faults' = faults + 1
      BY <1>5 DEF RestartServer, Minting, db, Fault
    <2>. QED
      <3>1. Minting(s)' \subseteq Minting(s)
        BY <2>1
      <3>2. licenses'[s] =< licenses[s]
        BY <1>0, <2>1 DEF TypeOK
      <3>. QED
        BY <1>0, <2>1, <3>1, <3>2, MintKept
  <1>6. CASE UNCHANGED vars
    BY <1>4, <1>6 DEF vars, db, stripe, history
  <1>. QED
    BY <1>0, <1>1, <1>2, <1>3, <1>4, <1>5, <1>6, MintReceive, MintWebhook DEF Next

\* The exact price of the unchecked replay: a session has at most one licence
\* for its first delivery and one for each repeated delivery, at the same time
\* or later, or restart of the server; without faults there is no second one.
THEOREM LicencesBounded == Spec => []LicencesAccountedFor
  <1>1. Init => DueInv /\ MintInv
    <2>. SUFFICES ASSUME Init PROVE DueInv /\ MintInv
      OBVIOUS
    <2>1. DueInv
      BY DEF Init, DueInv, HandlerDue, RegistrationDue, AnsweredIsProvisioned, At,
         Registrations
    <2>2. \A s \in Sessions : Minting(s) = {}
      BY DEF Init, Minting
    <2>3. MintInv
      <3>1. \A s \in Sessions : Cardinality(Minting(s)) = 0 /\ licenses[s] = 0 /\ faults = 0
        BY <2>2, FS_EmptySet DEF Init
      <3>2. \A s \in Sessions : First(s) \in 0 .. 1
        BY DEF First
      <3>. QED
        BY <3>1, <3>2 DEF MintInv
    <2>. QED
      BY <2>1, <2>3
  <1>2. IInv /\ MintInv => LicencesAccountedFor
    <2>. SUFFICES ASSUME IInv, MintInv, NEW s \in Sessions
                  PROVE  licenses[s] =< 1 + faults
      BY DEF LicencesAccountedFor
    <2>1. /\ licenses[s] + Cardinality(Minting(s)) =< faults + First(s)
          /\ licenses[s] \in Nat /\ faults \in Nat
          /\ Cardinality(Minting(s)) \in Nat /\ First(s) \in 0 .. 1
      BY MintingFinite DEF MintInv, IInv, TypeOK, First
    <2>. QED
      BY <2>1
  <1>. QED
    BY <1>1, <1>2, DueStep, MintStep, Invariant, PTL DEF Spec
=============================================================================
