---------------------------- MODULE ProcessBoot ----------------------------
(***************************************************************************)
(* The provider of the package: it registers its services in a container,  *)
(* boots them from the configuration, wires the billing listeners and      *)
(* shuts down; a process that reloads boots a second container.  Modules   *)
(* keep references to a container's services between two boots.            *)
(*                                                                         *)
(* Within a boot the application runs in the scope of a tenant and reaches *)
(* disk, mail, session, cache and channels through helpers that write the  *)
(* tenant's id into a key.  Helpers given to the application outlive the   *)
(* scope they were made in.  Keys are plain: no segment goes up.           *)
(***************************************************************************)
EXTENDS Naturals, FiniteSets

CONSTANTS
  BootTenants,
  DriverNames,   \* isolation drivers config.isolation may name
  Peers,     \* which of drive, mail, session and transmit the host has bound
  MaxBoots,  \* bound: containers one process boots
  MaxSlotWrites, \* bound: writes through the helpers
  Unset

VARIABLES
  process,  \* "down", "registered", "booted", "up", "refused"
  boots,    \* number of the current container
  config,   \* config/multitenancy.ts as this boot reads it
  current,  \* the configuration in the store on globalThis
  drivers,  \* the driver registry: names, and the active one
  helpers,  \* names in the bootstrapper registry
  wired,    \* listeners on this container's emitter and hooks
  driverOf, \* container whose driver registry getActiveDriver() has cached, 0: none
  logOf,    \* container whose log context tenancy.ts has cached, 0: none
  used,     \* containers the last getActiveDriver() and run() came from
  resolverOf, \* container whose resolvers request.ts has cached, 0: none
  asked,    \* container whose resolvers this boot's last request was given to, 0: none yet
  resolved, \* containers that have served a request
  scope,    \* the tenant of the current scope
  handle,   \* what the application holds: a disk, a mailer, a session
  slots,    \* key of a helper and tenant: who wrote there last
  slotWrites

boot == <<process, boots, config, current, drivers, helpers, wired, driverOf, logOf, used,
          resolverOf, asked, resolved, scope, handle, slots, slotWrites>>

BootAssumption ==
  /\ DriverNames \subseteq {"schema-pg", "database-pg", "rowscope-pg", "sqlite-memory"}
  /\ {MaxBoots, MaxSlotWrites} \subseteq Nat

Optional == {"drive", "mail", "session", "transmit"}

\* What the boot looks at: required keys, the strategy and the chain are in
\* shape; an impersonation secret, when given, is long enough; billing, when
\* given, passes BillingService.verify().
MultitenancyConfig ==
  [shape : BOOLEAN, driver : DriverNames, secret : {"none", "short", "long"},
   billing : {"none", "refused", "verified"}, mapping : BOOLEAN, notify : BOOLEAN]

\* Configurations with one mistake at most; what billing wires is told apart
\* only where it is verified.
Sensible(c) ==
  /\ Cardinality({x \in {"shape", "secret", "billing"} :
       CASE x = "shape" -> ~c.shape [] x = "secret" -> c.secret = "short"
         [] x = "billing" -> c.billing = "refused"}) <= 1
  /\ c.billing # "verified" => ~c.mapping /\ ~c.notify

BootInit ==
  /\ process = "down" /\ boots = 0
  /\ config = Unset /\ current = Unset
  /\ drivers = [names |-> {}, active |-> Unset] /\ helpers = {} /\ wired = {}
  /\ driverOf = 0 /\ logOf = 0 /\ used = {}
  /\ resolverOf = 0 /\ asked = 0 /\ resolved = {}
  /\ scope = Unset /\ handle = Unset
  /\ slots = [k \in (Optional \cup {"cache"}) \X BootTenants |-> Unset] /\ slotWrites = 0

Helping == <<scope, handle, slots, slotWrites>>
Resolving == <<resolverOf, asked, resolved>>
Caches == <<driverOf, logOf, used, Resolving>>

\* register(): a new container, its singletons not yet made.
Register ==
  /\ process = "down" /\ boots < MaxBoots
  /\ boots' = boots + 1 /\ process' = "registered"
  /\ config' \in {c \in MultitenancyConfig : Sensible(c)}
  /\ drivers' = [names |-> {}, active |-> Unset] /\ helpers' = {} /\ wired' = {}
  /\ UNCHANGED <<current, Caches, Helping>>

\* IsolationDriverRegistry.register(): the first driver is active.
AddDriver(d, name, activate) ==
  [names |-> d.names \cup {name},
   active |-> IF activate \/ d.active = Unset THEN name ELSE d.active]

\* A provider of the host registers one driver before the package boots: one
\* of its own or a differently built one of the package's.
HostRegisters(name) ==
  /\ process = "registered" /\ drivers.names = {}
  /\ drivers' = AddDriver(drivers, name, FALSE)
  /\ UNCHANGED <<process, boots, config, current, helpers, wired, Caches, Helping>>

\* #assertConfigShape is the only check before the configuration is stored.
RefusesShape ==
  /\ process = "registered" /\ ~config.shape
  /\ process' = "refused"
  /\ UNCHANGED <<boots, config, current, drivers, helpers, wired, Caches, Helping>>

RegisterOptional == {b \in Optional : b \in Peers}

\* boot(): driver, adapters, resolvers, hooks and bootstrappers; a short
\* secret or an unverified billing block throws after all of these.
Boot ==
  /\ process = "registered" /\ config.shape
  /\ current' = config
  /\ drivers' = IF config.driver \in drivers.names THEN drivers
                ELSE AddDriver(drivers, config.driver, TRUE)
  /\ helpers' = {"cache"} \cup RegisterOptional
  /\ process' = IF config.secret = "short" \/ config.billing = "refused" THEN "refused" ELSE "booted"
  /\ UNCHANGED <<boots, config, wired, Caches, Helping>>

\* start(): the route macros, and the listeners billing asks for.
Listeners(c) ==
  {l \in {"destroy", "usage", "quota_mail"} :
     /\ c.billing = "verified"
     /\ l = "usage" => c.mapping
     /\ l = "quota_mail" => c.notify}
Start ==
  /\ process = "booted"
  /\ process' = "up" /\ wired' = Listeners(config)
  /\ UNCHANGED <<boots, config, current, drivers, helpers, Caches, Helping>>

\* getActiveDriver() keeps the registry it resolves first, tenancy.ts the log
\* context.
Kept(of) == IF of = 0 THEN boots ELSE of
GetActiveDriver ==
  /\ process = "up"
  /\ driverOf' = Kept(driverOf) /\ used' = {Kept(driverOf)}
  /\ UNCHANGED <<process, boots, config, current, drivers, helpers, wired, logOf, Resolving, Helping>>
RunScope(t) ==
  /\ process = "up" /\ scope # t
  /\ scope' = t /\ logOf' = Kept(logOf) /\ used' = {Kept(logOf)}
  /\ UNCHANGED <<process, boots, config, current, drivers, helpers, wired, driverOf,
                 Resolving, handle, slots, slotWrites>>
\* request.tenant() asks the registry that is kept; it is empty in no container
\* that serves, so the fallback is not taken.
ResolvesRequest ==
  /\ process = "up"
  /\ resolverOf' = Kept(resolverOf) /\ asked' = Kept(resolverOf) /\ resolved' = resolved \cup {boots}
  /\ UNCHANGED <<process, boots, config, current, drivers, helpers, wired, driverOf, logOf,
                 used, Helping>>
EndScope ==
  /\ process = "up" /\ scope # Unset
  /\ scope' = Unset
  /\ UNCHANGED <<process, boots, config, current, drivers, helpers, wired, Caches,
                 handle, slots, slotWrites>>

\* tenantDisk() and tenantMailer() read the current tenant before they load
\* their peer, and keep it; tenantSession() keeps no tenant.
Keeps(kind, t) == IF kind \in {"drive", "mail"} THEN t ELSE Unset
OpenHandle(kind) ==
  /\ process = "up" /\ kind \in helpers \cap {"drive", "mail", "session"}
  /\ kind # "session" => scope # Unset
  /\ handle' = [kind |-> kind, tenant |-> Keeps(kind, scope), madeIn |-> scope]
  /\ UNCHANGED <<process, boots, config, current, drivers, helpers, wired, Caches,
                 scope, slots, slotWrites>>

\* The tenant whose id a use of the handle writes into the key, the header.
TenantOf(h) == IF Keeps(h.kind, h.tenant) # Unset THEN h.tenant ELSE scope
UseHandle ==
  /\ process = "up" /\ handle # Unset /\ slotWrites < MaxSlotWrites
  /\ TenantOf(handle) # Unset
  /\ slots' = [slots EXCEPT ![<<handle.kind, TenantOf(handle)>>] =
                 IF handle.kind = "session" THEN scope ELSE handle.madeIn]
  /\ slotWrites' = slotWrites + 1
  /\ UNCHANGED <<process, boots, config, current, drivers, helpers, wired, Caches, scope, handle>>

\* tenantCache(), tenantBroadcast(): the tenant of the scope they are called in.
UseScope(kind) ==
  /\ process = "up" /\ kind \in helpers \cap {"cache", "transmit"}
  /\ scope # Unset /\ slotWrites < MaxSlotWrites
  /\ slots' = [slots EXCEPT ![<<kind, scope>>] = scope]
  /\ slotWrites' = slotWrites + 1
  /\ UNCHANGED <<process, boots, config, current, drivers, helpers, wired, Caches, scope, handle>>

\* shutdown() runs when requests and jobs have ended; the configuration stays
\* in the store, and so does the cached registry of resolvers.
Remembers(of) == of                   \* mutant: a cached registry survives
Forgets(of) == 0
Shutdown ==
  /\ process \in {"up", "refused", "booted"} /\ scope = Unset
  /\ process' = "down" /\ driverOf' = Forgets(driverOf) /\ logOf' = Forgets(logOf)
  /\ used' = {} /\ asked' = 0 /\ handle' = Unset
  /\ UNCHANGED <<resolverOf, resolved, boots, config, current, drivers, helpers, wired, scope, slots, slotWrites>>

HostDrivers == {"schema-pg", "custom"}

BootNext ==
  \/ Register \/ \E n \in HostDrivers : HostRegisters(n)
  \/ RefusesShape \/ Boot \/ Start \/ GetActiveDriver \/ ResolvesRequest
  \/ \E t \in BootTenants : RunScope(t)
  \/ EndScope \/ \E k \in Optional : OpenHandle(k)
  \/ UseHandle \/ \E k \in Optional \cup {"cache"} : UseScope(k)
  \/ Shutdown

BootSpec == BootInit /\ [][BootNext]_boot
-----------------------------------------------------------------------------
BootTypeOK ==
  /\ process \in {"down", "registered", "booted", "up", "refused"} /\ boots \in 0 .. MaxBoots
  /\ {config, current} \subseteq MultitenancyConfig \cup {Unset}
  /\ drivers \in [names : SUBSET (DriverNames \cup HostDrivers), active : DriverNames \cup HostDrivers \cup {Unset}]
  /\ helpers \subseteq Optional \cup {"cache"} /\ wired \subseteq {"destroy", "usage", "quota_mail"}
  /\ {driverOf, logOf, resolverOf, asked} \subseteq 0 .. MaxBoots
  /\ used \subseteq 0 .. MaxBoots /\ resolved \subseteq 1 .. MaxBoots
  /\ scope \in BootTenants \cup {Unset} /\ slotWrites \in 0 .. MaxSlotWrites

\* A process that serves runs on the parts of its own boot: the services it
\* uses are of the current container, the store holds its configuration and
\* the active driver is the configured one; and what lies in a tenant's slot of
\* a disk, a session, a cache or a channel was written for that tenant,
\* however long ago the handle was made and whoever's scope it is used in.
\* Requests are given to the resolvers of the current boot too, but for a
\* process in which an earlier boot has served a request: shutdown() does not
\* clear that cache (multitenancy_provider.ts:367-372, request.ts:29-39).
ServesOnItsOwnBoot ==
  /\ process = "up" => /\ used \subseteq {boots}
                       /\ current = config /\ drivers.active = config.driver
                       /\ asked \in {0, boots} \/ resolved \cap 1 .. (boots - 1) # {}
  /\ \A k \in Optional \cup {"cache"}, t \in BootTenants : slots[<<k, t>>] \in {t, Unset}
=============================================================================
