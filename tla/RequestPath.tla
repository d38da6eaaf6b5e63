----------------------------- MODULE RequestPath ----------------------------
(***************************************************************************)
(* A request on its way to a handler: CustomDomainMiddleware, the          *)
(* resolvers (extensions/request.ts, services/resolvers), the tenant,      *)
(* universal and central route groups with their middlewares, and the      *)
(* connection models/adapters/tenant_adapter.ts picks for a query, which   *)
(* resolves the tenant a second time, by the synchronous code.             *)
(*                                                                         *)
(* Tenants change, connections are opened and closed, and circuits open    *)
(* while the request waits. The labels of hosts, headers, the first        *)
(* segment of the path and the fields of the request's data stand for the  *)
(* id they hold.                                                           *)
(***************************************************************************)
EXTENDS TenantConnections

CONSTANTS
    Strategies,   \* config.resolverStrategy may be any of these
    Fallbacks,    \* further resolvers for config.resolverChain
    MaxChain,     \* bound: resolvers in config.resolverChain
    MaxTurns,     \* bound: changes of tenants, circuits and connections by others
    MaxRequests,  \* bound: requests, one after the other
    NoTenant,
    Junk          \* an id that is no UUID

ASSUME PathAssumption ==
    /\ {NoTenant, Junk} \cap Tenants = {} /\ NoTenant # Junk
    /\ Strategies \cup Fallbacks \subseteq
           {"header", "subdomain", "path", "domain-or-subdomain", "request-data"}
    /\ {MaxChain, MaxTurns, MaxRequests} \subseteq Nat

VARIABLES
    strategy, \* config.resolverStrategy
    chain,    \* the resolvers in the order they are asked
    ownKeys,  \* config.tenantHeaderKey and config.requestData name keys of their own
    strict,   \* the option of CustomDomainMiddleware, "none" where it is not used
    status,   \* per tenant: its status, maintenance and soft deletion
    circuit,  \* tenants whose circuit is open
    cached,   \* tenancy.currentId has its singleton
    req,      \* the request
    wasOpen,  \* tenants in service at some moment since it arrived
    queried,  \* where its last query went, and whether tenancy had told the adapter
    arrived,  \* requests so far
    turns     \* such changes so far

settings == <<strategy, chain, ownKeys, strict>>
world  == <<status, circuit, cached, arrived, turns>>
pathVars   == <<conns, settings, world, req, wasOpen, queried>>

Status == {"provisioning", "active", "maintenance", "suspended", "failed", "deleted"}

\* Their ids as sent: NoTenant where there is none.
Ids == Tenants \cup {NoTenant, Junk}

\* The base domain, one below it, or another: of is the tenant whose custom domain it
\* is, and label its leftmost label, where it has several.
Hosts == [kind : {"base"}, of : {NoTenant}, label : {NoTenant}] \cup
         [kind : {"below"}, of : Tenants \cup {NoTenant}, label : Tenants \cup {Junk}] \cup
         [kind : {"other"}, of : Tenants \cup {NoTenant}, label : Ids]

\* The path and the data have what the resolvers read; plain is the field tenant_id,
\* where they read another. The url begins with one of config.ignorePaths, or is one.
Req == [pc : {"idle", "domain", "resolve", "load", "connect", "guard", "handler"},
        route : {"tenant", "universal", "central"},
        host : Hosts, header : Ids, path : Ids, data : Ids, plain : Ids,
        ignored : {"no", "prefix", "path"},
        hit : Ids, seen : Status, tenant : Tenants \cup {NoTenant}]

NoRequest == [pc |-> "idle", route |-> "central",
         host |-> [kind |-> "base", of |-> NoTenant, label |-> NoTenant],
         header |-> NoTenant, path |-> NoTenant, data |-> NoTenant, plain |-> NoTenant,
         ignored |-> "no", hit |-> NoTenant, seen |-> "active", tenant |-> NoTenant]

NoQuery == [of |-> NoTenant, current |-> FALSE]

PathTypeOK ==
    /\ ConnsTypeOK
    /\ strategy \in Strategies /\ strict \in {"none", "legacy", "strict"}
    /\ chain \in Seq(Strategies \cup Fallbacks) \ {<< >>} /\ ownKeys \in BOOLEAN
    /\ status \in [Tenants -> Status] /\ circuit \subseteq Tenants /\ cached \in BOOLEAN
    /\ req \in Req
    /\ wasOpen \subseteq Tenants /\ queried \in [of : Ids, current : BOOLEAN]
    /\ arrived \in 0 .. MaxRequests /\ turns \in 0 .. MaxTurns

\* The provider: config.resolverChain, whatever the strategy, or the strategy alone.
PathInit ==
    /\ ConnsInit
    /\ strategy \in Strategies
    /\ chain \in {<<strategy>>} \cup (SeqOf(Strategies \cup Fallbacks, MaxChain) \ {<< >>})
    /\ ownKeys \in BOOLEAN
    /\ strict \in {"none", "legacy", "strict"}
    /\ status = [t \in Tenants |-> "active"]
    /\ circuit = {} /\ cached \in BOOLEAN
    /\ req = NoRequest
    /\ wasOpen = {} /\ queried = NoQuery /\ arrived = 0 /\ turns = 0

-----------------------------------------------------------------------------
(* Resolvers *)

Miss == [type |-> "miss", of |-> NoTenant]
Hit(id) == IF id = NoTenant THEN Miss ELSE [type |-> "id", of |-> id]

\* Left of baseDomain, or else the leftmost label.
FromHost(q) == Hit(q.host.label)

\* A domain that is not below baseDomain is looked up by the repository.
FromDomain(q) ==
    IF q.host.kind = "other" THEN [type |-> "domain", of |-> q.host.of] ELSE FromHost(q)

Resolver(name, q) ==
    CASE name = "header"              -> Hit(q.header)
      [] name = "subdomain"           -> FromHost(q)
      [] name = "domain-or-subdomain" -> FromDomain(q)
      [] name = "path"                -> IF q.ignored = "no" THEN Hit(q.path) ELSE Miss
      [] name = "request-data"        -> Hit(q.data)

\* registry.resolve: the first of the chain that answers.
Answering(q) == SelectInSeq(chain, LAMBDA name : Resolver(name, q) # Miss)
Resolved(q) == IF Answering(q) = 0 THEN Miss ELSE Resolver(chain[Answering(q)], q)

\* The header, whatever the strategy (a mutant).
HeaderOnly(q) == q.header

\* legacyResolveTenantId, for callers that cannot wait: it goes by the strategy and not
\* by the chain, knows of no ignored path, and reads tenant_id whatever the keys are.
LegacyId(q) ==
    CASE strategy \in {"subdomain", "domain-or-subdomain"} -> FromHost(q).of
      [] strategy = "path"                                -> q.path
      [] strategy = "request-data"                        -> IF ownKeys THEN q.plain ELSE q.data
      [] strategy = "header"                              -> q.header

-----------------------------------------------------------------------------
(* The request *)

\* What the resolvers or the strategy read.
Reads(names) == (ToSet(chain) \cup {strategy}) \cap names # {}

\* What nothing reads under the configuration is left out of the request.
Arrives(route, host, header) ==
    /\ req.pc = "idle" /\ arrived < MaxRequests
    /\ arrived' = arrived + 1
    /\ header # NoTenant => Reads({"header"}) \/ strict # "none"
    /\ host.kind # "base" => Reads({"subdomain", "domain-or-subdomain"}) \/ strict # "none"
    /\ host.of # NoTenant => Reads({"domain-or-subdomain"}) \/ strict # "none"
    /\ \E path, data, plain \in Ids, ignored \in {"no", "prefix", "path"} :
          /\ path # NoTenant => Reads({"path"})
          /\ data # NoTenant => Reads({"request-data"})
          /\ plain # NoTenant => ownKeys /\ strategy = "request-data"
          /\ ignored = "prefix" => Reads({"path"})
          /\ ignored = "path" => path \notin Tenants /\ route = "tenant"
          /\ req' = [NoRequest EXCEPT !.pc = "domain", !.route = route, !.host = host,
                                 !.header = header, !.path = path, !.data = data,
                                 !.plain = plain, !.ignored = ignored]
    /\ wasOpen' = {t \in Tenants : status[t] \in {"active", "maintenance"}}
    /\ queried' = NoQuery
    /\ UNCHANGED <<conns, settings, status, circuit, cached, turns>>

Goes(pc) == req' = [req EXCEPT !.pc = pc]

\* The request is answered, by the handler or with the exception that was thrown.
Answered == req' = NoRequest

Still == UNCHANGED <<settings, world, wasOpen, queried>>

\* The header x-tenant-id stands unless the middleware is strict; the domain of a tenant
\* then must agree with it, or fills it in. Under a key of their own the resolvers read
\* another header, and whether this one is there is open.
CustomDomain ==
    /\ req.pc = "domain"
    /\ \E sent \in IF ownKeys THEN Ids ELSE {req.header} :
          LET claimed == /\ strict = "strict" \/ (strict = "legacy" /\ sent = NoTenant)
                         /\ req.host.of # NoTenant /\ status[req.host.of] # "deleted"
          IN  IF claimed /\ sent \notin {NoTenant, req.host.of} THEN Answered
              ELSE IF claimed /\ ~ownKeys
                   THEN req' = [req EXCEPT !.pc = "resolve", !.header = req.host.of]
                   ELSE Goes("resolve")
    /\ Still /\ UNCHANGED conns

\* request.tenant(), or #tryResolve of the universal middleware: an id must be a UUID.
Resolves ==
    LET r == Resolved(req)
    IN  /\ req.pc = "resolve" /\ req.route # "central" /\ req.ignored # "path"
        /\ IF r.of \in Tenants THEN req' = [req EXCEPT !.pc = "load", !.hit = r.of]
           ELSE IF req.route = "universal" THEN Goes("handler")
           ELSE Answered
        /\ Still /\ UNCHANGED conns

\* The guard of a tenant route looks no further at a path the configuration ignores.
Ignores ==
    /\ req.pc = "resolve" /\ req.route = "tenant" /\ req.ignored = "path"
    /\ Goes("handler")
    /\ Still /\ UNCHANGED conns

\* A central route is not for requests that name a tenant, or what looks like one.
CentralOnly ==
    /\ req.pc = "resolve" /\ req.route = "central"
    /\ IF Resolved(req) # Miss THEN Answered ELSE Goes("handler")
    /\ Still /\ UNCHANGED conns

\* The repository's row, as it is now, or none. The guard also asks for deleted ones.
Loads ==
    /\ req.pc = "load"
    /\ \/ req' = [req EXCEPT !.pc = "connect", !.seen = status[req.hit]]
       \/ IF req.route = "universal" THEN Goes("handler") ELSE Answered
    /\ Still /\ UNCHANGED conns

\* #tryResolve passes over a tenant that is not in service before it connects.
Degrades ==
    /\ req.pc = "connect" /\ req.route = "universal"
    /\ req.seen \notin {"active", "maintenance"}
    /\ Goes("handler")
    /\ Still /\ UNCHANGED conns

\* driver.connect, and the tenant is memoised on the request.
Connects ==
    /\ req.pc = "connect"
    /\ req.route = "tenant" \/ req.seen \in {"active", "maintenance"}
    /\ Connect(req.hit)
    /\ req' = [req EXCEPT !.pc = IF req.route = "tenant" THEN "guard" ELSE "handler",
                          !.tenant = req.hit]
    /\ Still

\* TenantGuardMiddleware: in service, or under maintenance with the bypass token.
MayEnter(seen, bypass) == seen = "active" \/ (seen = "maintenance" /\ bypass)

\* It goes by the status that was loaded; the circuit is asked now.
Guards ==
    /\ req.pc = "guard"
    /\ \E bypass \in BOOLEAN :
          IF MayEnter(req.seen, bypass) /\ req.tenant \notin circuit THEN Goes("handler")
          ELSE Answered
    /\ Still /\ UNCHANGED conns

\* What the adapter asks: tenancy.currentId, else the request by the synchronous code.
TenancyKnows == cached /\ req.tenant # NoTenant
QueryId == IF TenancyKnows THEN req.tenant ELSE LegacyId(req)

\* A query of a tenant's model: refused without a UUID, or without the connection.
Queries ==
    /\ req.pc = "handler"
    /\ QueryId \in manager /\ closing[QueryId] = 0
    /\ queried' = [of |-> QueryId, current |-> TenancyKnows]
    /\ UNCHANGED <<conns, settings, world, req, wasOpen>>

RequestEnds ==
    /\ req.pc = "handler"
    /\ Answered
    /\ Still /\ UNCHANGED conns

-----------------------------------------------------------------------------
(* Meanwhile *)

\* An operator, a job, or another request.
TenantTurns(t, s) ==
    /\ turns < MaxTurns /\ turns' = turns + 1
    /\ s # status[t]
    /\ status' = [status EXCEPT ![t] = s]
    /\ wasOpen' = wasOpen \cup IF s \in {"active", "maintenance"} THEN {t} ELSE {}
    /\ UNCHANGED <<conns, settings, circuit, cached, arrived, req, queried>>

CircuitTurns(t) ==
    /\ turns < MaxTurns /\ turns' = turns + 1
    /\ circuit' = IF t \in circuit THEN circuit \ {t} ELSE circuit \cup {t}
    /\ UNCHANGED <<conns, settings, status, cached, arrived, req, wasOpen, queried>>

\* Other requests, jobs and commands of the process.
OthersConnect(t) ==
    /\ turns < MaxTurns /\ turns' = turns + 1
    /\ Connect(t) \/ Disconnect(t)
    /\ UNCHANGED <<settings, status, circuit, cached, arrived, req, wasOpen, queried>>

ReleaseEnds(t) ==
    /\ Released(t) \/ ReleaseFails(t)
    /\ UNCHANGED <<settings, world, req, wasOpen, queried>>

\* The first tenancy.run() of the process.
FirstRun ==
    /\ ~cached
    /\ cached' = TRUE
    /\ UNCHANGED <<conns, settings, status, circuit, arrived, turns, req, wasOpen, queried>>

ReqStep ==
    \/ CustomDomain \/ Resolves \/ Ignores \/ CentralOnly \/ Loads
    \/ Degrades \/ Connects \/ Guards \/ Queries \/ RequestEnds

PathNext ==
    \/ \E route \in {"tenant", "universal", "central"}, host \in Hosts, header \in Ids :
          Arrives(route, host, header)
    \/ ReqStep
    \/ \E t \in Tenants :
          \/ \E s \in Status : TenantTurns(t, s)
          \/ CircuitTurns(t) \/ OthersConnect(t) \/ ReleaseEnds(t)
    \/ FirstRun

PathSpec == PathInit /\ [][PathNext]_pathVars

-----------------------------------------------------------------------------
(* Properties *)

\* The chain and the strategy tell the adapter and the resolvers the same: the resolver
\* that answered is the strategy's, with an id, and reads what the synchronous code reads.
StrategyAnswers(q) ==
    LET i == Answering(q)
    IN  /\ i # 0 /\ chain[i] = strategy /\ Resolved(q).type = "id"
        /\ strategy = "request-data" => ~ownKeys

\* A request that was let in as one tenant's never runs a query on the connection of
\* another, whether tenancy tells the adapter or it has to resolve the tenant again by
\* itself. Excepted is the adapter of a process in which tenancy.run() was not called
\* yet, where the answer was not the strategy's: it goes by config.resolverStrategy
\* alone, and config.resolverChain and config.requestData are nothing to it. And on a
\* tenant route that tenant was in service at some moment since the request came in:
\* the status it goes by may be old, but not older than the request.
ServesItsTenant ==
    /\ /\ queried.of # NoTenant /\ req.tenant # NoTenant
       /\ queried.current \/ StrategyAnswers(req)
       => queried.of = req.tenant
    /\ req.pc = "handler" /\ req.route = "tenant" /\ req.tenant # NoTenant =>
          req.tenant \in wasOpen

=============================================================================
