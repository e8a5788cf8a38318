-------------------------------- MODULE Hostname --------------------------------
(***************************************************************************)
(* A customer's domain in the worker's KV: BUSINESS_MAP, which routes a      *)
(* crawler's request for a host to a slug, and TENANT_DATA, the record of    *)
(* the tenant that took the domain.  The domain has two variants, apex and   *)
(* www; either may be the one a record is kept under.                       *)
(*                                                                         *)
(* Every handler reads, asks Cloudflare or Stripe, and then writes, one KV   *)
(* call after the other; any of them may overlap, and a KV call may throw.   *)
(***************************************************************************)
EXTENDS Integers, FiniteSets, Sequences

CONSTANTS
    Hosts,       \* deriveHostnameVariants of the domain
    Slugs,       \* tenants that want it
    None,        \* no record, no route
    Ops,         \* slots of the handlers
    MaxOps,      \* bound on the handlers started
    MaxFaults    \* bound on KV calls that throw and handlers that are cut off

Kinds == {"onboard", "free", "checkout", "paid", "verify", "batch", "disable",
          "activate", "admin", "backfill", "switch"}

ASSUME HostnameAssumption ==
    /\ None \notin Slugs /\ None \notin Kinds
    /\ IsFiniteSet(Hosts)
    /\ {MaxOps, MaxFaults} \subseteq Nat

VARIABLES
    route,       \* BUSINESS_MAP
    rec,         \* TENANT_DATA
    checkout,    \* hosts with a Stripe checkout, whose webhook may come
    switched,    \* slugs whose D1 row no longer names a hosted subdomain
    op,          \* the handlers under way
    started, faults,
    crossed,     \* a disable has overlapped another handler
    skipped      \* hosts whose route a backfill failed to write

vars == <<route, rec, checkout, switched, op, started, faults, crossed, skipped>>
env  == <<checkout, switched, started, faults, crossed, skipped>>

TenantStatus == {"pending_payment", "paid_pending_dns", "free_pending_dns",
                 "pending_verification", "active", "disabled", "failed",
                 "needs_manual_review"}

Record == [slug : Slugs, status : TenantStatus, cf : BOOLEAN]

Write == [do : {"route", "unroute", "load", "record", "d1"}, at : Hosts]

Idle == [kind |-> None, pc |-> "idle", at |-> None, slug |-> None, rec |-> None,
         todo |-> <<>>, alone |-> TRUE]

TypeOK ==
    /\ route \in [Hosts -> Slugs \cup {None}]
    /\ rec \in [Hosts -> Record \cup {None}]
    /\ checkout \subseteq Hosts /\ switched \subseteq Slugs
    /\ op \in [Ops -> {Idle} \cup
                 [kind : Kinds, pc : {"asking", "writing"}, at : Hosts, slug : Slugs,
                  rec : Record \cup {None}, todo : Seq(Write), alone : BOOLEAN]]
    /\ \A o \in Ops : (op[o].pc = "writing") = (op[o].todo # <<>>)
    /\ started \in 0 .. MaxOps /\ faults \in 0 .. MaxFaults
    /\ crossed \in BOOLEAN /\ skipped \subseteq Hosts

Init ==
    /\ route = [h \in Hosts |-> None]
    /\ rec = [h \in Hosts |-> None]
    /\ checkout = {} /\ switched = {}
    /\ op = [o \in Ops |-> Idle]
    /\ started = 0 /\ faults = 0
    /\ crossed = FALSE /\ skipped = {}
-----------------------------------------------------------------------------
(* What the handlers write, in order. *)

Route(h)   == [do |-> "route", at |-> h]
Unroute(h) == [do |-> "unroute", at |-> h]
Load(h)    == [do |-> "load", at |-> h]
Save(h)    == [do |-> "record", at |-> h]
D1(h)      == [do |-> "d1", at |-> h]

\* One KV entry per variant, in the order of the list.
RouteAll == CHOOSE s \in [1 .. Cardinality(Hosts) -> {Route(h) : h \in Hosts}] :
               {s[i] : i \in DOMAIN s} = {Route(h) : h \in Hosts}
-----------------------------------------------------------------------------
(* Starting a handler: the body is read, and the record. *)

Begin(o, kind, h, s, r, pc, todo) ==
    /\ op[o] = Idle
    /\ started < MaxOps
    /\ started' = started + 1
    /\ LET others == {p \in Ops : op[p] # Idle}
       IN /\ op' = [p \in Ops |->
                      IF p = o THEN [kind |-> kind, pc |-> pc, at |-> h, slug |-> s,
                                     rec |-> r, todo |-> todo, alone |-> others = {}]
                      ELSE IF p \in others THEN [op[p] EXCEPT !.alone = FALSE]
                      ELSE op[p]]
          /\ crossed' = (crossed \/ (others # {} /\
                            (kind = "disable" \/ \E p \in others : op[p].kind = "disable")))
    /\ UNCHANGED <<route, rec, checkout, switched, faults, skipped>>

Status(h) == IF rec[h] = None THEN "none" ELSE rec[h].status

NewRecord(s, status) == [slug |-> s, status |-> status, cf |-> FALSE]

\* handleOnboard and the free path of handleBasicOnboard.  A record on file keeps
\* its slug, whatever the body says.
Onboard(o, h, s) ==
    /\ Status(h) # "active"
    /\ LET r == IF rec[h] = None THEN NewRecord(s, "pending_verification") ELSE rec[h]
       IN \/ Begin(o, "onboard", h, s, r, "asking", <<>>)
          \/ Begin(o, "free", h, s, [r EXCEPT !.status = "free_pending_dns"],
                   "asking", <<>>)

\* The paid path of handleBasicOnboard.
Checkout(o, h, s) ==
    /\ Status(h) # "active"
    /\ Begin(o, "checkout", h, s,
             IF rec[h] = None THEN NewRecord(s, "pending_payment")
                              ELSE [rec[h] EXCEPT !.status = "pending_payment"],
             "asking", <<>>)

\* handleStripeWebhook: any number of deliveries of a checkout's event.
Paid(o, h) ==
    /\ h \in checkout
    /\ rec[h] # None
    /\ Begin(o, "paid", h, rec[h].slug, [rec[h] EXCEPT !.status = "paid_pending_dns"],
             "asking", <<>>)

\* handleVerifyDomain
Verify(o, h) ==
    /\ rec[h] # None
    /\ rec[h].cf
    /\ Begin(o, "verify", h, rec[h].slug, rec[h], "asking", <<>>)

\* handleVerifyAll, for one record of its list.
VerifyAll(o, h) ==
    /\ rec[h] # None
    /\ rec[h].cf
    /\ rec[h].status = "pending_verification"
    /\ Begin(o, "batch", h, rec[h].slug, rec[h], "asking", <<>>)

\* handleDisableTenant
Disable(o, h) ==
    /\ rec[h] # None
    /\ Begin(o, "disable", h, rec[h].slug, [rec[h] EXCEPT !.status = "disabled"],
             "writing", <<Save(h), Unroute(h)>>)

\* Mutant of Activate: the cross-tenant guard is missing.
ActivateUnguarded(o, h, s) ==
    Begin(o, "activate", h, s, None, "asking", <<>>)

\* handleActivate: the guard looks at the typed host only.
Activate(o, h, s) ==
    /\ route[h] \in {s, None}
    /\ Begin(o, "activate", h, s, None, "asking", <<>>)

\* POST /admin/domains/activate has no such guard.
AdminActivate(o, h, s) == Begin(o, "admin", h, s, None, "asking", <<>>)

\* handleBackfillVariants for one record of its list, loaded up front.
Backfill(o, h) ==
    /\ rec[h] # None
    /\ Begin(o, "backfill", h, rec[h].slug, rec[h], "asking", <<>>)

\* handleClientSwitchDomain of a tenant on a hosted subdomain.
Switch(o, h, s) ==
    /\ s \notin switched
    /\ \A v \in Hosts : route[v] \in {s, None}
    /\ Begin(o, "switch", h, s, NewRecord(s, "pending_verification"), "asking", <<>>)
-----------------------------------------------------------------------------
(* The answer of Cloudflare or Stripe, and what is to be written then. *)

End(o) == op' = [op EXCEPT ![o] = Idle]

Proceed(o, r, todo) ==
    op' = [op EXCEPT ![o] = [op[o] EXCEPT !.pc = "writing", !.rec = r, !.todo = todo]]

\* createCfHostnameForTenant: what becomes of record r, and whether a hostname was
\* created; not configured, every variant failed, the primary is there and active,
\* or at least one variant is there.
Registered(r) ==
    {[rec |-> [r EXCEPT !.status = "needs_manual_review"], created |-> FALSE],
     [rec |-> [r EXCEPT !.status = "failed", !.cf = FALSE], created |-> FALSE],
     [rec |-> [r EXCEPT !.status = "active", !.cf = TRUE], created |-> TRUE]}
    \cup {[rec |-> [r EXCEPT !.cf = c], created |-> TRUE] : c \in BOOLEAN}

\* The handlers that register all variants; the webhook goes on when the call
\* throws, a switch gives up when nothing was created.
Register(o) ==
    LET h == op[o].at
        k == op[o].kind
    IN /\ op[o].pc = "asking"
       /\ k \in {"onboard", "free", "paid", "backfill", "switch"}
       /\ \/ \E a \in Registered(op[o].rec) :
                IF k = "switch" /\ ~ a.created THEN End(o)
                ELSE Proceed(o, a.rec, RouteAll \o <<Save(h)>>
                        \o (CASE k = "onboard" -> <<Save(h)>>
                              [] k = "switch"  -> <<D1(h)>>
                              [] OTHER         -> <<>>))
          \/ IF k = "paid" THEN Proceed(o, op[o].rec, RouteAll \o <<Save(h)>>)
                           ELSE End(o)
       /\ UNCHANGED <<route, rec, env>>

\* Stripe creates the checkout, or does not.
StripeAnswers(o) ==
    LET h == op[o].at IN
    /\ op[o].pc = "asking"
    /\ op[o].kind = "checkout"
    /\ \/ /\ Proceed(o, op[o].rec, <<Save(h)>>)
          /\ checkout' = checkout \cup {h}
       \/ End(o) /\ UNCHANGED checkout
    /\ UNCHANGED <<route, rec, switched, started, faults, crossed, skipped>>

\* Mutant of CfReports: the record is written before the route.
CfReportsRecordFirst(o) ==
    LET h == op[o].at
        r == op[o].rec
    IN /\ op[o].pc = "asking"
       /\ op[o].kind \in {"verify", "batch"}
       /\ \/ Proceed(o, [r EXCEPT !.status = "active"], <<Save(h), Route(h)>>)
          \/ Proceed(o, IF op[o].kind = "batch" THEN r
                        ELSE [r EXCEPT !.status = "pending_verification"], <<Save(h)>>)
          \/ Proceed(o, [r EXCEPT !.status = "failed"], <<Save(h)>>)
          \/ Proceed(o, r, <<Save(h)>>)
       /\ UNCHANGED <<route, rec, env>>

\* The hostname is active, pending, moved or deleted; or the call fails.
CfReports(o) ==
    LET h == op[o].at
        r == op[o].rec
    IN /\ op[o].pc = "asking"
       /\ op[o].kind \in {"verify", "batch"}
       /\ \/ Proceed(o, [r EXCEPT !.status = "active"], <<Route(h), Save(h)>>)
          \/ Proceed(o, IF op[o].kind = "batch" THEN r
                        ELSE [r EXCEPT !.status = "pending_verification"], <<Save(h)>>)
          \/ Proceed(o, [r EXCEPT !.status = "failed"], <<Save(h)>>)
          \/ Proceed(o, r, <<Save(h)>>)
       /\ UNCHANGED <<route, rec, env>>

\* activateDomain: rejected by one of its checks, or the hostname is there.
ActivateDomain(o) ==
    LET h == op[o].at IN
    /\ op[o].pc = "asking"
    /\ op[o].kind \in {"activate", "admin"}
    /\ Proceed(o, None, <<Route(h), Load(h), Save(h)>>) \/ End(o)
    /\ UNCHANGED <<route, rec, env>>
-----------------------------------------------------------------------------
(* One write. *)

\* Mutant of Upserted: the record is set active, whatever it was.
UpsertedActive(o, h, cf) ==
    LET r == IF rec[h] = None THEN NewRecord(op[o].slug, "active") ELSE rec[h]
    IN [r EXCEPT !.status = "active", !.cf = cf]

\* upsertTenantData
Upserted(o, h, cf) ==
    LET r == IF rec[h] = None THEN NewRecord(op[o].slug, "active") ELSE rec[h]
    IN [r EXCEPT !.cf = @ \/ cf]

Rest(o, r) == IF Len(op[o].todo) = 1 THEN Idle
              ELSE [op[o] EXCEPT !.todo = Tail(op[o].todo), !.rec = r]

Step(o) ==
    LET w == Head(op[o].todo)
        h == w.at
    IN /\ op[o].pc = "writing"
       /\ route' = [route EXCEPT ![h] = CASE w.do = "route"   -> op[o].slug
                                          [] w.do = "unroute" -> None
                                          [] OTHER            -> @]
       /\ rec' = [rec EXCEPT ![h] = IF w.do = "record" THEN op[o].rec ELSE @]
       /\ \E cf \in BOOLEAN :
             op' = [op EXCEPT ![o] = Rest(o, IF w.do = "load" THEN Upserted(o, h, cf)
                                                              ELSE op[o].rec)]
       /\ switched' = IF w.do = "d1" THEN switched \cup {op[o].slug} ELSE switched
       /\ UNCHANGED <<checkout, started, faults, crossed, skipped>>

\* The call throws, or the worker is gone: the handler ends where it is.  The D1
\* update of a switch and the KV calls of a backfill are passed over instead.
Throws(o) ==
    LET w == Head(op[o].todo) IN
    /\ op[o].pc = "writing"
    /\ faults < MaxFaults
    /\ faults' = faults + 1
    /\ \/ /\ End(o)
          /\ UNCHANGED skipped
       \/ /\ op[o].kind = "backfill" \/ w.do = "d1"
          /\ op' = [op EXCEPT ![o] = Rest(o, op[o].rec)]
          /\ skipped' = IF w.do = "route" THEN skipped \cup {w.at} ELSE skipped
    /\ UNCHANGED <<route, rec, checkout, switched, started, crossed>>
-----------------------------------------------------------------------------
Next ==
    \E o \in Ops :
        \/ \E h \in Hosts, s \in Slugs :
              \/ Onboard(o, h, s)  \/ Checkout(o, h, s)
              \/ Activate(o, h, s) \/ AdminActivate(o, h, s)
              \/ Switch(o, h, s)
        \/ \E h \in Hosts :
              \/ Paid(o, h)    \/ Verify(o, h) \/ VerifyAll(o, h)
              \/ Disable(o, h) \/ Backfill(o, h)
        \/ Register(o) \/ StripeAnswers(o) \/ CfReports(o) \/ ActivateDomain(o)
        \/ Step(o) \/ Throws(o)

Spec == Init /\ [][Next]_vars
-----------------------------------------------------------------------------
\* ACTIVE IS ROUTED.  A record says active only once crawlers of its host reach
\* the agent, wherever its handler stops, unless a disable ran at the same time or
\* a backfill could not write the route.
ActiveIsRouted ==
    \A h \in Hosts : Status(h) = "active" => route[h] # None \/ crossed \/ h \in skipped

\* NO TAKEOVER.  What a customer can start, an activation or a switch of domain,
\* never redirects a host that is routed to another tenant, unless another handler
\* ran between its check and its write.
CustomerStep(o) ==
    /\ op[o].kind \in {"activate", "switch"}
    /\ op[o].pc = "writing"
    /\ op'[o] # op[o]

NoTakeover ==
    [][\A o \in Ops, h \in Hosts :
          CustomerStep(o) /\ op[o].alone /\ route'[h] # route[h]
              => route[h] = None]_vars

\* STATUS KEPT.  An activation that runs alone gives an existing record no other
\* status.  It does put the route back: a host whose tenant was disabled is served
\* again while its record goes on saying disabled, and one that waits for a payment
\* is served without its record passing for active.
StatusKept ==
    [][\A o \in Ops, h \in Hosts :
          /\ op[o].kind \in {"activate", "admin"} /\ op[o].alone
          /\ op'[o] # op[o] /\ rec[h] # None /\ rec'[h] # rec[h]
          => rec'[h].status = rec[h].status]_vars
=============================================================================
