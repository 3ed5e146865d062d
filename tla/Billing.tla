------------------------------- MODULE Billing -------------------------------
(***************************************************************************)
(* Stripe billing (billingController.ts): public checkout, custom invites,  *)
(* the Risk Assurance add-on, and the webhook that turns Stripe's events    *)
(* into client rows and licences, one action per database statement.        *)
(*                                                                         *)
(* Stripe is external: it completes a checkout, cancels a subscription, and *)
(* delivers each event at least once, in any order, until it is answered.   *)
(* A session stands for the subscription and the Stripe customer it makes.  *)
(* Clients made in the console exist at the start; of the console's         *)
(* operations only the deletion of a client is here.                        *)
(***************************************************************************)
EXTENDS Naturals, FiniteSets

CONSTANTS
    Tenants,       \* tenant slugs
    Emails,        \* buyers
    Sessions,      \* Stripe checkout sessions
    Kind,          \* what a session buys, see Kinds
    For,           \* the slug in its metadata, made from the company's name
    Buyer,         \* the email that pays
    Enterprise,    \* sessions for an Enterprise-class tier
    ConsoleOwners, \* the owners of clients made in the console
    Occurring,     \* which of Stripe's events occur
    Handlers,      \* webhook deliveries handled at the same time
    MaxSessions,   \* bound on the sessions opened in a behaviour
    MaxFaults,     \* bound on duplicate deliveries, failing statements and
                   \* restarts of the server in a behaviour
    Nobody,        \* no email, no customer, no subscription
    NoRow,         \* no row
    NoEvent        \* a handler that has no event

Kinds == {"registration", "invite", "addon", "foreign"}

ASSUME SessionAssumption ==
    /\ Kind \in [Sessions -> Kinds]
    /\ For \in [Sessions -> Tenants]
    /\ Buyer \in [Sessions -> Emails]
    /\ Enterprise \subseteq Sessions
    /\ Nobody \notin Emails \cup Sessions
    /\ ConsoleOwners \subseteq Emails \cup {Nobody}

ASSUME BoundAssumption ==
    /\ MaxSessions \in Nat /\ MaxFaults \in Nat
    /\ IsFiniteSet(Sessions) /\ IsFiniteSet(Handlers)

VARIABLES
    clients,   \* admin_clients
    licenses,  \* how many licences of admin_licenses each session was given
    reg,       \* pending_registrations.status
    invite,    \* custom_checkout_invites.status
    stage,     \* the session at Stripe
    answered,  \* events the webhook has answered
    portal,    \* Stripe customers that requests have found and not stored yet
    pc,        \* the statement a delivery comes to next
    ev,        \* the event it handles
    seen,      \* the owner it found when it checked who owns the tenant
    target,    \* the tenant it found for a cancelled add-on
    ended,     \* subscriptions whose cancellation was carried out (history)
    revived,   \* those of them that a checkout event put back (history)
    outcome,   \* whether a session got a licence or an error came first (history)
    faults     \* failures so far

db == <<clients, licenses, reg, invite>>
stripe == <<stage, answered, portal>>
webhook == <<pc, ev, seen, target>>
history == <<ended, revived, outcome, faults>>
vars == <<db, stripe, webhook, history>>

Registrations == {s \in Sessions : Kind[s] = "registration"}

Events == {"completed", "invoice", "deleted"} \X Sessions

Client == [status: {"active", "suspended"},
           owner: Emails \cup {Nobody},           \* admin_email
           customer: Sessions \cup {Nobody},      \* stripe_customer_id
           subscription: Sessions \cup {Nobody},  \* stripe_subscription_id
           enterprise: BOOLEAN,                   \* subscription_tier
           paid: BOOLEAN,                         \* stripe_payment_status
           addon: BOOLEAN,                        \* plan_addons
           addonSub: Sessions \cup {Nobody}]      \* risk_assurance_subscription_id

At(h, label) == pc[h] = label

\* Who owns a row: its email and its Stripe customer.
Owners == (Emails \cup {Nobody}) \X (Sessions \cup {Nobody})

ASSUME NoneAssumption == NoRow \notin Client \cup Owners \cup Tenants

Labels == {"idle", "scope", "dup", "owner", "conflict", "client", "license",
           "token", "invite", "addon", "customer", "find", "remove", "suspend",
           "paid"}

TypeOK ==
    /\ clients \in [Tenants -> Client \cup {NoRow}]
    /\ licenses \in [Sessions -> Nat]
    /\ reg \in [Sessions -> {"none", "pending", "completed", "conflict"}]
    /\ invite \in [Sessions -> {"none", "created", "sent", "paid"}]
    /\ stage \in [Sessions -> {"none", "open", "paid", "cancelled"}]
    /\ answered \subseteq Events
    /\ portal \subseteq Tenants \X Sessions
    /\ pc \in [Handlers -> Labels]
    /\ ev \in [Handlers -> Events \cup {NoEvent}]
    /\ \A h \in Handlers : ~At(h, "idle") => ev[h] \in Events
    /\ seen \in [Handlers -> Owners \cup {NoRow}]
    /\ target \in [Handlers -> Tenants \cup {NoRow}]
    /\ revived \subseteq ended /\ ended \subseteq Sessions
    /\ outcome \in [Sessions -> {"none", "licensed", "lost"}]
    /\ faults \in 0 .. MaxFaults

\* A client the console made, before any payment.
ConsoleClient(owner, enterprise) ==
    [status |-> "active", owner |-> owner, customer |-> Nobody,
     subscription |-> Nobody, enterprise |-> enterprise, paid |-> FALSE,
     addon |-> FALSE, addonSub |-> Nobody]

Init ==
    /\ clients \in [Tenants -> {NoRow} \cup
                       {ConsoleClient(o, TRUE) : o \in ConsoleOwners}]
    /\ licenses = [s \in Sessions |-> 0]
    /\ reg = [s \in Sessions |-> "none"]
    /\ invite = [s \in Sessions |-> "none"]
    /\ stage = [s \in Sessions |-> "none"]
    /\ answered = {} /\ portal = {}
    /\ pc = [h \in Handlers |-> "idle"]
    /\ ev = [h \in Handlers |-> NoEvent]
    /\ seen = [h \in Handlers |-> NoRow]
    /\ target = [h \in Handlers |-> NoRow]
    /\ ended = {} /\ revived = {}
    /\ outcome = [s \in Sessions |-> "none"]
    /\ faults = 0

-----------------------------------------------------------------------------
Session(h) == ev[h][2]
Row(h) == clients[For[Session(h)]]

Exists(t) == clients[t] # NoRow

\* Who a row belongs to, as the checkout reads it.
Owner(row) == IF row = NoRow THEN NoRow ELSE <<row.owner, row.customer>>

\* The same Stripe customer or the same email.
Owns(s, row) == row.customer = s \/ row.owner = Buyer[s]

\* localTenantEntitlement: a tier of the client or of any licence will do.
RiskAssuranceEligible(t) ==
    \/ Exists(t) /\ clients[t].enterprise
    \/ \E s \in Enterprise : For[s] = t /\ licenses[s] > 0

RiskAssurance(t) == RiskAssuranceEligible(t) /\ Exists(t) /\ clients[t].addon

Happened(e) ==
    IF e[1] = "deleted" THEN stage[e[2]] = "cancelled"
                        ELSE stage[e[2]] \in {"paid", "cancelled"}

GoTo(h, label) ==
    /\ pc' = [pc EXCEPT ![h] = label]
    /\ UNCHANGED <<stripe, ev, seen, target>>

\* The webhook answers 200, whatever happened.
Answer(h) ==
    /\ pc' = [pc EXCEPT ![h] = "idle"]
    /\ ev' = [ev EXCEPT ![h] = NoEvent]
    /\ seen' = [seen EXCEPT ![h] = NoRow]
    /\ target' = [target EXCEPT ![h] = NoRow]
    /\ answered' = answered \cup {ev[h]}
    /\ UNCHANGED <<stage, portal>>

Fault == faults < MaxFaults /\ faults' = faults + 1

-----------------------------------------------------------------------------
(* Faulty variants of the definitions below, which the runs must tell from  *)
(* them; no action of the specification uses one.                          *)

\* A cancelled add-on is handled as a cancelled tenant.
BranchWithoutAddon(e) ==
    LET kind == Kind[e[2]]
    IN  CASE e[1] = "invoice" -> "paid"
          [] e[1] = "deleted" -> "suspend"
          [] kind = "addon" -> "addon"
          [] kind = "invite" -> "invite"
          [] kind = "foreign" -> "scope"
          [] OTHER -> "dup"

\* Sending the email always marks the invite as sent.
SendAlways(s) ==
    /\ invite[s] # "none"
    /\ invite' = [invite EXCEPT ![s] = "sent"]
    /\ UNCHANGED <<clients, licenses, reg, stripe, webhook, history>>

\* Any session is ours.
CheckScopeDropped(h) ==
    /\ At(h, "scope")
    /\ GoTo(h, "dup")
    /\ UNCHANGED <<db, history>>

\* A registration that is pending counts as fulfilled.
CheckAnyStatus(h) ==
    /\ At(h, "dup")
    /\ IF reg[Session(h)] # "none" THEN Answer(h) ELSE GoTo(h, "owner")
    /\ UNCHANGED <<db, history>>

\* The owner is not compared.
CheckOwnerDropped(h) ==
    /\ At(h, "owner")
    /\ seen' = [seen EXCEPT ![h] = Owner(Row(h))]
    /\ pc' = [pc EXCEPT ![h] = "client"]
    /\ UNCHANGED <<db, stripe, ev, target, history>>

\* A status that nothing else knows.
SuspendAsCancelled(h) ==
    /\ At(h, "suspend")
    /\ clients' = [t \in Tenants |->
                      IF Exists(t) /\ clients[t].subscription = Session(h)
                        THEN [clients[t] EXCEPT !.status = "cancelled"]
                        ELSE clients[t]]
    /\ ended' = ended \cup {Session(h)}
    /\ revived' = revived \ {Session(h)}
    /\ Answer(h)
    /\ UNCHANGED <<licenses, reg, invite, outcome, faults>>

\* An invoice that was paid makes the client active.
MarkPaidActivates(h) ==
    /\ At(h, "paid")
    /\ clients' = [t \in Tenants |->
                      IF Exists(t) /\ clients[t].subscription = Session(h)
                        THEN [clients[t] EXCEPT !.paid = TRUE, !.status = "active"]
                        ELSE clients[t]]
    /\ Answer(h)
    /\ UNCHANGED <<licenses, reg, invite, history>>

-----------------------------------------------------------------------------
\* The branch of handleStripeWebhook that an event takes.
Branch(e) ==
    LET kind == Kind[e[2]]
    IN  CASE e[1] = "invoice" -> "paid"
          [] e[1] = "deleted" -> IF kind = "addon" THEN "find" ELSE "suspend"
          [] kind = "addon" -> "addon"
          [] kind = "invite" -> "invite"
          [] kind = "foreign" -> "scope"
          [] OTHER -> "dup"

-----------------------------------------------------------------------------
(* Requests, and Stripe.                                                   *)

\* createCheckoutSession, createCustomCheckoutSession,
\* createRiskAssuranceCheckout, and the checkout of another product that shares
\* the Stripe account.  Nobody can pay before the request has been answered.
OpenSession(s) ==
    /\ stage[s] = "none"
    /\ Cardinality({r \in Sessions : stage[r] # "none"}) < MaxSessions
    /\ Kind[s] = "addon" => /\ Exists(For[s])
                            /\ RiskAssuranceEligible(For[s])
                            /\ ~RiskAssurance(For[s])
    /\ stage' = [stage EXCEPT ![s] = "open"]
    /\ reg' = IF Kind[s] = "registration" THEN [reg EXCEPT ![s] = "pending"] ELSE reg
    /\ invite' = IF Kind[s] = "invite" THEN [invite EXCEPT ![s] = "created"]
                                       ELSE invite
    /\ UNCHANGED <<clients, licenses, answered, portal, webhook, history>>

SendCustomCheckoutEmail(s) ==
    /\ invite[s] # "none"
    /\ invite' = [invite EXCEPT ![s] = IF @ = "paid" THEN @ ELSE "sent"]
    /\ UNCHANGED <<clients, licenses, reg, stripe, webhook, history>>

\* createCustomerPortalSession adopts a Stripe customer with the owner's email:
\* it reads the row and asks Stripe,
OpenPortal(t, s) ==
    /\ Exists(t) /\ clients[t].customer = Nobody
    /\ stage[s] \in {"paid", "cancelled"} /\ Buyer[s] = clients[t].owner
    /\ portal' = portal \cup {<<t, s>>}
    /\ UNCHANGED <<db, stage, answered, webhook, history>>

\* and stores the answer in whatever row the tenant has by then.
StoreCustomer(t, s) ==
    /\ <<t, s>> \in portal
    /\ portal' = portal \ {<<t, s>>}
    /\ clients' = IF Exists(t) THEN [clients EXCEPT ![t].customer = s] ELSE clients
    /\ UNCHANGED <<licenses, reg, invite, stage, answered, webhook, history>>

\* One transaction; the licences go with the client.
DeleteClient(t) ==
    /\ Exists(t)
    /\ clients' = [clients EXCEPT ![t] = NoRow]
    /\ licenses' = [s \in Sessions |-> IF For[s] = t THEN 0 ELSE licenses[s]]
    /\ UNCHANGED <<reg, invite, stripe, webhook, history>>

Pay(s) ==
    /\ stage[s] = "open"
    /\ stage' = [stage EXCEPT ![s] = "paid"]
    /\ UNCHANGED <<db, answered, portal, webhook, history>>

Cancel(s) ==
    /\ stage[s] = "paid" /\ Kind[s] \in {"registration", "addon"}
    /\ stage' = [stage EXCEPT ![s] = "cancelled"]
    /\ UNCHANGED <<db, answered, portal, webhook, history>>

\* Stripe delivers an event until it is answered,
Handled(e) == \E h \in Handlers : ~At(h, "idle") /\ ev[h] = e

Receive(h, e) ==
    /\ At(h, "idle")
    /\ e \in Occurring /\ Happened(e)
    /\ ev' = [ev EXCEPT ![h] = e]
    /\ pc' = [pc EXCEPT ![h] = Branch(e)]
    /\ UNCHANGED <<db, stripe, seen, target, ended, revived, outcome>>

Deliver(h, e) ==
    /\ e \notin answered /\ ~Handled(e)
    /\ Receive(h, e)
    /\ UNCHANGED faults

\* and now and then again: the answer was late or lost, or someone resends it.
Redeliver(h, e) ==
    /\ Fault
    /\ e \in answered \/ Handled(e)
    /\ Receive(h, e)

-----------------------------------------------------------------------------
(* fulfillPaidRegistration.                                                *)

\* A session that is not tagged as ours needs a row that our checkout wrote.
CheckScope(h) ==
    /\ At(h, "scope")
    /\ IF reg[Session(h)] = "none" /\ invite[Session(h)] = "none"
         THEN Answer(h)
         ELSE GoTo(h, "dup")
    /\ UNCHANGED <<db, history>>

CheckCompleted(h) ==
    /\ At(h, "dup")
    /\ IF reg[Session(h)] = "completed" THEN Answer(h) ELSE GoTo(h, "owner")
    /\ UNCHANGED <<db, history>>

CheckOwner(h) ==
    /\ At(h, "owner")
    /\ seen' = [seen EXCEPT ![h] = Owner(Row(h))]
    /\ pc' = [pc EXCEPT ![h] = IF Row(h) = NoRow \/ Owns(Session(h), Row(h))
                                 THEN "client" ELSE "conflict"]
    /\ UNCHANGED <<db, stripe, ev, target, history>>

MarkConflict(h) ==
    /\ At(h, "conflict")
    /\ reg' = [reg EXCEPT ![Session(h)] = IF @ = "none" THEN @ ELSE "conflict"]
    /\ Answer(h)
    /\ UNCHANGED <<clients, licenses, invite, history>>

\* INSERT ... ON CONFLICT (name) DO UPDATE, which keeps the owner's email.
UpsertClient(h) ==
    /\ At(h, "client")
    /\ LET s == Session(h)
           old == IF Row(h) = NoRow THEN ConsoleClient(Buyer[s], FALSE) ELSE Row(h)
       IN  /\ clients' = [clients EXCEPT ![For[s]] =
                             [old EXCEPT !.status = "active", !.paid = TRUE,
                                         !.enterprise = s \in Enterprise,
                                         !.customer = s, !.subscription = s]]
           /\ revived' = revived \cup (ended \cap {s})
    /\ pc' = [pc EXCEPT ![h] = "license"]
    /\ seen' = [seen EXCEPT ![h] = NoRow]
    /\ UNCHANGED <<licenses, reg, invite, stripe, ev, target, ended, outcome,
                   faults>>

InsertLicense(h) ==
    /\ At(h, "license")
    /\ licenses' = [licenses EXCEPT ![Session(h)] = @ + 1]
    /\ outcome' = [outcome EXCEPT ![Session(h)] = "licensed"]
    /\ GoTo(h, "token")
    /\ UNCHANGED <<clients, reg, invite, ended, revived, faults>>

\* The INSERT into fleet_tokens names columns max_machines, machine_count and
\* expires_at, which the table does not have: it throws, the webhook swallows
\* the error, and the registration is never marked completed.
InsertToken(h) ==
    /\ At(h, "token")
    /\ Answer(h)
    /\ UNCHANGED <<db, history>>

-----------------------------------------------------------------------------
(* The other branches of handleStripeWebhook.                              *)

MarkInvitePaid(h) ==
    /\ At(h, "invite")
    /\ invite' = [invite EXCEPT ![Session(h)] = IF @ = "none" THEN @ ELSE "paid"]
    /\ Answer(h)
    /\ UNCHANGED <<clients, licenses, reg, history>>

SetAddon(h) ==
    /\ At(h, "addon")
    /\ LET s == Session(h)
       IN  IF Row(h) = NoRow
             THEN UNCHANGED <<clients, revived>>
             ELSE /\ clients' = [clients EXCEPT ![For[s]].addon = TRUE,
                                                ![For[s]].addonSub = s]
                  /\ revived' = revived \cup (ended \cap {s})
    /\ GoTo(h, "customer")
    /\ UNCHANGED <<licenses, reg, invite, ended, outcome, faults>>

SetCustomer(h) ==
    /\ At(h, "customer")
    /\ clients' = IF Row(h) # NoRow /\ Row(h).customer = Nobody
                    THEN [clients EXCEPT ![For[Session(h)]].customer = Session(h)]
                    ELSE clients
    /\ Answer(h)
    /\ UNCHANGED <<licenses, reg, invite, history>>

\* The tenant whose add-on the subscription pays, else the one it was bought for.
FindAddonOwner(h) ==
    /\ At(h, "find")
    /\ LET s == Session(h)
           owners == {t \in Tenants : Exists(t) /\ clients[t].addonSub = s}
       IN  \E t \in IF owners # {} THEN owners ELSE {For[s]} :
              target' = [target EXCEPT ![h] = t]
    /\ pc' = [pc EXCEPT ![h] = "remove"]
    /\ UNCHANGED <<db, stripe, ev, seen, history>>

RemoveAddon(h) ==
    /\ At(h, "remove")
    /\ clients' = IF Exists(target[h])
                    THEN [clients EXCEPT ![target[h]].addon = FALSE,
                                         ![target[h]].addonSub = Nobody]
                    ELSE clients
    /\ ended' = ended \cup {Session(h)}
    /\ revived' = revived \ {Session(h)}
    /\ Answer(h)
    /\ UNCHANGED <<licenses, reg, invite, outcome, faults>>

SuspendClient(h) ==
    /\ At(h, "suspend")
    /\ clients' = [t \in Tenants |->
                      IF Exists(t) /\ clients[t].subscription = Session(h)
                        THEN [clients[t] EXCEPT !.status = "suspended"]
                        ELSE clients[t]]
    /\ ended' = ended \cup {Session(h)}
    /\ revived' = revived \ {Session(h)}
    /\ Answer(h)
    /\ UNCHANGED <<licenses, reg, invite, outcome, faults>>

MarkPaid(h) ==
    /\ At(h, "paid")
    /\ clients' = [t \in Tenants |->
                      IF Exists(t) /\ clients[t].subscription = Session(h)
                        THEN [clients[t] EXCEPT !.paid = TRUE] ELSE clients[t]]
    /\ Answer(h)
    /\ UNCHANGED <<licenses, reg, invite, history>>

-----------------------------------------------------------------------------
\* A statement fails: the error is swallowed and the event answered, so that
\* Stripe does not deliver it again.
StatementFails(h) ==
    /\ ~At(h, "idle")
    /\ Fault
    /\ outcome' = [outcome EXCEPT ![Session(h)] =
                       IF @ = "none" THEN "lost" ELSE @]
    /\ Answer(h)
    /\ UNCHANGED <<db, ended, revived>>

RestartServer ==
    /\ Fault
    /\ pc' = [h \in Handlers |-> "idle"]
    /\ ev' = [h \in Handlers |-> NoEvent]
    /\ seen' = [h \in Handlers |-> NoRow]
    /\ target' = [h \in Handlers |-> NoRow]
    /\ portal' = {}
    /\ UNCHANGED <<db, stage, answered, ended, revived, outcome>>

-----------------------------------------------------------------------------
Webhook(h) ==
    \/ CheckScope(h) \/ CheckCompleted(h) \/ CheckOwner(h) \/ MarkConflict(h)
    \/ UpsertClient(h) \/ InsertLicense(h) \/ InsertToken(h)
    \/ MarkInvitePaid(h) \/ SetAddon(h) \/ SetCustomer(h)
    \/ FindAddonOwner(h) \/ RemoveAddon(h) \/ SuspendClient(h) \/ MarkPaid(h)

Next ==
    \/ \E s \in Sessions :
          OpenSession(s) \/ SendCustomCheckoutEmail(s) \/ Pay(s) \/ Cancel(s)
    \/ \E t \in Tenants :
          \/ DeleteClient(t)
          \/ \E s \in Sessions : OpenPortal(t, s) \/ StoreCustomer(t, s)
    \/ \E h \in Handlers :
          \/ \E e \in Events : Deliver(h, e) \/ Redeliver(h, e)
          \/ Webhook(h)
          \/ StatementFails(h)
    \/ RestartServer

Spec == Init /\ [][Next]_vars

\* The server works on, and Stripe delivers the payment of a
\* registration until it is answered.
Fairness ==
    /\ \A h \in Handlers : WF_vars(Webhook(h))
    /\ \A s \in Registrations :
          WF_vars(\E h \in Handlers : Deliver(h, <<"completed", s>>))

FairSpec == Spec /\ Fairness

-----------------------------------------------------------------------------
(* Properties.                                                             *)

\* H3: a checkout never takes over the client of another customer.  The check
\* and the upsert are two statements, so the promise is about the owner that
\* the check found: it fails only if the tenant changed hands in between.
OwnerKept ==
    [][\A h \in Handlers :
          (At(h, "client") /\ clients'[For[Session(h)]] # Row(h))
             => \/ Row(h) = NoRow
                \/ Owns(Session(h), Row(h))
                \/ seen[h] # Owner(Row(h))]_vars

\* A client is not active on a subscription whose cancellation was carried out,
\* whatever came late, unless its checkout event was handled after that.
EndedMeansSuspended ==
    \A t \in Tenants :
        (Exists(t) /\ clients[t].status = "active" /\ clients[t].subscription \in ended)
            => clients[t].subscription \in revived

\* Nor does an add-on outlive the cancellation of the subscription that paid it,
\* though the tenant is looked up in one statement and updated in another.
EndedMeansNoAddon ==
    \A t \in Tenants :
        (Exists(t) /\ clients[t].addon /\ clients[t].addonSub \in ended)
            => clients[t].addonSub \in revived

\* An invite that was paid is not shown as unpaid again, however often and late
\* its email is sent.
PaidInviteStays ==
    [][\A s \in Sessions : invite[s] = "paid" => invite'[s] = "paid"]_vars

\* Another product's checkout, on the same Stripe account, leaves no trace.
ForeignLeavesNoTrace ==
    \A s \in Sessions : Kind[s] = "foreign" =>
        /\ licenses[s] = 0
        /\ \A t \in Tenants : Exists(t) => s \notin {clients[t].subscription,
                                                     clients[t].addonSub}

\* A registration that was paid gets its licence or is refused as a conflict,
\* despite restarts, unless an error was swallowed on the way.
PaidIsProvisioned ==
    \A s \in Registrations :
        (stage[s] = "paid")
            ~> (outcome[s] # "none" \/ reg[s] = "conflict")

\* M2: "each replay mints a fresh license" is what must not happen.
OneLicensePerSession == \A s \in Sessions : licenses[s] =< 1
=============================================================================
