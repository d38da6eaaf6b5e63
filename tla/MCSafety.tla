------------------------------ MODULE MCSafety ------------------------------
(***************************************************************************)
(* What no component may ever do, checked one component at a time: a       *)
(* behaviour is one of the component that part names.  Fourteen are        *)
(* extended, and rest in one of their initial states while another has its *)
(* turn; of the others, the variables are v1, v2, ... in the order in      *)
(* which the module declares them, and 0 when it is not their turn.        *)
(***************************************************************************)
EXTENDS RequestPath, SsoLogin, PlanQuotas, WebhookDelivery, RateLimit, TenancyScope,
        BillingReconcile, ProcessBoot, FleetCommands, StripeIntake, SubscriptionSync, Backups,
        Doctor, SqlImport

VARIABLES part, v1, v2, v3, v4, v5, v6, v7, v8, v9

turn == <<part, v1, v2, v3, v4, v5, v6, v7, v8, v9>>
vars == <<turn, pathVars, ssoVars, quotaVars, deliveryVars, limiter, scopeVars, reconcileVars,
          boot, fleetVars, intake, syncVars, backupVars, doctor, import>>

\* Two calls on one server, a plan with a limit of 1 and one without.
OneServer == [c \in Calls |-> "n1"]
LimitOfFree == [p \in Plans |-> IF p = "free" THEN 1 ELSE 2]

Rest9 == v9 = 0
Rest1 == v1 = 0 /\ v2 = 0 /\ v3 = 0 /\ v4 = 0 /\ v5 = 0 /\ v6 = 0 /\ v7 = 0 /\ v8 = 0 /\ Rest9

-----------------------------------------------------------------------------
(* The instances *)

Acting == INSTANCE Impersonation WITH
  Nodes <- {"n1", "n2"}, Calls <- {"c1", "c2"},
  On <- [c \in {"c1", "c2"} |-> IF c = "c1" THEN "n1" ELSE "n2"], MaxFaults <- 0,
  time <- v1, memory <- v2, shared <- v3, bus <- v4, call <- v5, revoked <- v6, audited <- v7,
  faults <- v8
Breakers == INSTANCE CircuitBreaker WITH
  Nodes <- {"n1"}, Volume <- 1, MaxPending <- 2, MaxExits <- 1, MaxResets <- 1,
  MaxOutages <- 1, MaxFaults <- 1,
  up <- v1, breaker <- v2, writes <- v3, restore <- v4, key <- v5, exits <- v6, resets <- v7,
  outages <- v8, faults <- v9

\* What each component assumes of its constants; and the dump of ImportRests is one.
ASSUME SafetyAssumption ==
  /\ QuotaAssumption /\ DeliveryAssumption /\ SsoAssumption /\ ScopeAssumption
  /\ ReconcileAssumption /\ BootAssumption /\ FleetAssumption /\ RateAssumption
  /\ IntakeAssumption /\ SyncAssumption /\ BackupAssumption /\ DoctorAssumption
  /\ Acting!ImpersonationAssumption
  /\ SplitsWhatIsSaid /\ <<"word">> \in DumpFiles

-----------------------------------------------------------------------------
(* A component has its turn, or rests *)

\* One command on two tenants, or two commands at once on the same tenant.
OneCommand == part = "fleet" => run["r2"] = NoCommand
OnOneTenant ==
  part = "commands" => \A r \in Runs : run[r] # NoCommand => run[r].listed = {"t1"}

\* The components with instances above; those that handle events of subscriptions.
Instanced == {"acting", "breakers"}
Syncing == {"mirror", "invoiced", "racing"}

\* One handler with time enough for every retry: of one product, with payments that change
\* the status; of all products, one of them past due at times, without payments, and with
\* a failed query or a replay but not both; or two handlers at once on the first two events.
SyncTurn ==
  /\ part \in {"mirror", "invoiced"} => worker["h2"] = SyncIdle
  /\ part \in {"mirror", "racing"} => \A e \in sent : e.kind \notin Payments
  /\ part = "mirror" =>
       /\ syncFaults = 0 \/ replays = 0
       /\ \A s \in SyncSubs : truth[s].status = "past_due" => truth[s].product = "pro"
  /\ part = "invoiced" => \A s \in SyncSubs : truth[s] # NoSub => truth[s].product = "pro"
  /\ part = "racing" => clock <= 2

\* One caller beside the sync, the backfill and the listener, or two callers of whom
\* Stripe may forget the key and the listener the row.
ReconcileTurn ==
  /\ part = "reconcile" => caller["c2"].pc = "idle" /\ customers <= 1
  /\ part = "customers" => sync = Quiet /\ fill = "off"

\* Requests by the strategy alone, at no ignored path and at hosts that name one tenant,
\* while others change the world; or any host and any chain while nothing changes, on a
\* universal route or at an ignored path.
PathTurn ==
  /\ part = "path" =>
       /\ req.ignored = "no"
       /\ req.host.kind = "below" => req.host.of = NoTenant
       /\ req.host.kind = "other" => req.host.label = Junk
  /\ part = "chains" =>
       /\ turns = 0
       /\ req.pc # "idle" /\ req.route # "universal" => req.ignored = "path"

\* One task under a registry that changes, or two tasks that read and write the same rows,
\* one of them an administrator's, which is outside every scope and writes by queries.
ScopeTurn ==
  /\ part = "scope" => stack["k2"] = << >> /\ \A r \in Rows : owner[r] = NoScope
  /\ part = "rows" =>
       /\ order = << >> /\ Len(stack["k1"]) <= 2 /\ Len(stack["k2"]) <= 1
       /\ \A i \in DOMAIN stack["k1"] : stack["k1"][i].kind # "http"
       /\ \A i \in DOMAIN stack["k2"] : stack["k2"][i].kind = "unscoped"
       /\ held["k2"] = Nobody

\* The requests are alike: the first is the first to read its clock, and so on.
LimiterTurn ==
  part = "limiter" =>
    /\ hit["q2"].pc # "idle" => hit["q1"].pc # "idle"
    /\ hit["q3"].pc # "idle" => hit["q2"].pc # "idle"

\* One run of three checks while one tenant, the same one since nothing tells the two apart,
\* is whatever it is at first; or two runs at once of the replica check alone, which share a
\* connection.
CheckupBegins ==
  /\ part \notin {"checkup", "probing"} => facts = {}
  /\ \A t \in DoctorTenants \ {"t1"} : rowStatus[t] = "active" /\ schema[t] = "migrated"
  /\ part # "checkup" => \A t \in DoctorTenants : rowStatus[t] = "active" /\ schema[t] = "migrated"
  /\ facts = {} \/ \E f \in facts : facts = {f}
CheckupTurn ==
  /\ part = "checkup" =>
       /\ checkup["d2"] = NoCheckup /\ ~\E f \in facts : f.kind = "down"
       /\ "replica_lag" \notin checkup["d1"].checks
  /\ part = "probing" =>
       /\ facts \subseteq [kind : {"down"}, on : Replicas] /\ queryFaults = 0
       /\ \A d \in Checkups : checkup[d] # NoCheckup =>
            checkup[d].scope = {"t1"} /\ checkup[d].checks = {"replica_lag"}
       /\ \A t \in DoctorTenants \ {"t1"} : rowStatus[t] = "active" /\ schema[t] = "migrated"

\* A process that is not started yet, with nothing out of order.
IntakeRests ==
  /\ environment = InOrder /\ request = Ordinary /\ atStripe = "has" /\ server = "boot"
  /\ answer = NoValue /\ ledgerRow = NoValue /\ job = "none" /\ tries = 0
  /\ lastError = NoValue /\ handled = NoValue /\ logged = NoValue

\* A dump of one word, for a tenant that is not active.
ImportRests ==
  /\ file = <<"word">>
  /\ options = [dryRun |-> FALSE, force |-> FALSE, active |-> FALSE, psql |-> FALSE]
  /\ importStep = "command" /\ tokens = <<>> /\ refusals = {} /\ nextToken = 1 /\ trx = NoTrx
  /\ importSchema = <<>> /\ counted = NoResult /\ importExit = 0

\* Any dump of two lexemes; of three, one for an active tenant that is understood or
\* applied in the usual way.
Imported ==
  \/ Len(file) <= 2
  \/ options.active /\ (Understood(file) \/ (~options.dryRun /\ ~options.force /\ options.psql))

Init ==
  /\ part \in Instanced \cup Syncing \cup
               {"quotas", "webhooks", "fleet", "commands", "reconcile", "customers", "intake", "scope", "rows",
                "imports", "path", "chains", "sso", "archives", "process", "limiter", "checkup", "probing"}
  /\ QuotaInit /\ (part # "quotas" => mode = [n \in Nodes |-> "tenant_plans"])
  /\ DeliveryInit /\ (part # "webhooks" => broken = {})
  /\ FleetInit
  /\ (part # "fleet" => fleetStatus["t2"] = "active" /\ store["t2"] = "whole")
  /\ (part \notin {"fleet", "commands"} => fleetStatus["t1"] = "active" /\ store["t1"] = "whole")
  /\ ReconcileInit /\ (part \notin {"reconcile", "customers"} => policy = "cancel")
  /\ ScopeInit /\ (part # "scope" => order = << >>)
  /\ PathInit
  /\ (part # "chains" => chain = <<strategy>> /\ ~ownKeys)
  /\ (IF part = "path" THEN strategy # "request-data" ELSE strict = "none")
  /\ (part \notin {"path", "chains"} => strategy = "path" /\ ~cached)
  /\ SsoInit
  /\ IF part = "sso" THEN ssoConfig["t2"] # Absent /\ ssoConfig["t2"].issuer = "i1"
     ELSE ssoConfig = [t \in SsoTenants |-> Absent]
  /\ BootInit
  /\ BackupInit
  /\ DoctorInit /\ CheckupBegins /\ CheckupTurn
  /\ \/ part = "intake" /\ IntakeInit
     \/ part # "intake" /\ IntakeRests
  /\ \/ part = "imports" /\ ImportInit /\ Imported
     \/ part # "imports" /\ ImportRests
  /\ SyncInit /\ (part \notin Syncing => customer)
  /\ RateInit /\ \A r \in Requests : ~hit[r].failOpen
  /\ \/ part = "acting" /\ Acting!Init /\ Rest9
     \/ part = "breakers" /\ Breakers!CircuitInit
     \/ part \notin Instanced /\ Rest1

Next ==
  /\ UNCHANGED part
  /\ \/ part = "quotas" /\ QuotaNext
     \/ part # "quotas" /\ UNCHANGED quotaVars
  /\ \/ part = "webhooks" /\ DeliveryNext
     \/ part # "webhooks" /\ UNCHANGED deliveryVars
  /\ \/ part \in {"fleet", "commands"} /\ FleetNext /\ OneCommand' /\ OnOneTenant'
     \/ part \notin {"fleet", "commands"} /\ UNCHANGED fleetVars
  /\ \/ part \in {"reconcile", "customers"} /\ ReconcileNext /\ ReconcileTurn'
     \/ part \notin {"reconcile", "customers"} /\ UNCHANGED reconcileVars
  /\ \/ part \in {"scope", "rows"} /\ ScopeNext /\ ScopeTurn'
     \/ part \notin {"scope", "rows"} /\ UNCHANGED scopeVars
  /\ \/ part \in {"path", "chains"} /\ PathNext /\ PathTurn'
     \/ part \notin {"path", "chains"} /\ UNCHANGED pathVars
  /\ \/ part = "sso" /\ SsoNext
     \/ part # "sso" /\ UNCHANGED ssoVars
  /\ \/ part = "imports" /\ ImportNext
     \/ part # "imports" /\ UNCHANGED import
  /\ \/ part = "process" /\ BootNext
     \/ part # "process" /\ UNCHANGED boot
  /\ \/ part = "archives" /\ BackupNext
     \/ part # "archives" /\ UNCHANGED backupVars
  /\ \/ part \in {"checkup", "probing"} /\ DoctorNext /\ CheckupTurn'
     \/ part \notin {"checkup", "probing"} /\ UNCHANGED doctor
  /\ \/ part = "limiter" /\ RateNext /\ LimiterTurn'
     \/ part # "limiter" /\ UNCHANGED limiter
  /\ \/ part = "intake" /\ IntakeNext
     \/ part # "intake" /\ UNCHANGED intake
  /\ \/ part \in Syncing /\ SyncNext /\ SyncTurn'
     \/ part \notin Syncing /\ UNCHANGED syncVars
  /\ \/ part = "acting" /\ Acting!Next /\ UNCHANGED v9
     \/ part = "breakers" /\ Breakers!CircuitNext
     \/ part \notin Instanced /\ UNCHANGED turn

Spec == Init /\ [][Next]_vars

-----------------------------------------------------------------------------
(* Properties *)

\* The type invariant of each component.
TypeOK ==
  /\ part = "quotas" => QuotaTypeOK
  /\ part = "webhooks" => DeliveryTypeOK
  /\ part = "acting" => Acting!TypeOK
  /\ part \in {"fleet", "commands"} => FleetTypeOK
  /\ part = "breakers" => Breakers!CircuitTypeOK
  /\ part \in {"reconcile", "customers"} => ReconcileTypeOK
  /\ part \in Syncing => SyncTypeOK
  /\ part = "intake" => IntakeTypeOK
  /\ part \in {"scope", "rows"} => ScopeTypeOK
  /\ part \in {"path", "chains"} => PathTypeOK
  /\ part = "sso" => SsoTypeOK
  /\ part = "archives" => BackupTypeOK
  /\ part = "imports" => ImportTypeOK
  /\ part = "process" => BootTypeOK
  /\ part \in {"checkup", "probing"} => DoctorTypeOK
  /\ part = "limiter" => RateTypeOK

=============================================================================
