---------------------------- MODULE StripeIntake ----------------------------
(***************************************************************************)
(* One Stripe event from the request that brings it to the handler that    *)
(* applies it: the process checks its billing configuration at boot, the   *)
(* middleware checks origin, signature and body, the controller stores the *)
(* fields of an allowlist, and the job takes the event from Stripe again,  *)
(* or from what was stored once Stripe has forgotten it.                   *)
(*                                                                         *)
(* The object of an event is the set of its plain fields and, for each     *)
(* reference, the form it has: "id", "object" (expanded) or "absent".      *)
(* The ledger's own states are those of WebhookLedger.                     *)
(***************************************************************************)
EXTENDS Naturals

CONSTANTS MaxTries,  \* bound: tries of the job
          NoValue

Types == {"subscription", "invoice", "checkout", "customer", "other"}
Forms == {"id", "object", "absent"}
Personal == {"email", "metadata"}

\* The plain fields a handler reads from the object of an event.
ReadBy ==
  [subscription |-> {"id", "status", "cancel", "trial_end", "period", "item_period", "price"},
   invoice      |-> {"id", "attempt_count", "amount", "currency", "next_payment_attempt"},
   checkout     |-> {"mode", "client_reference_id"},
   customer     |-> {"id"},
   other        |-> {}]

\* All fields are there or only those without which the object is none.
Bodies(type) ==
  [fields : {ReadBy[type] \cup Personal, {"id"} \cup Personal, ReadBy[type]},
   customer : Forms, product : Forms, subscription : Forms, parent : Forms]
Relevant(type, b) ==
  /\ type # "subscription" => b.product = "absent"
  /\ type # "invoice" => b.subscription = "absent" /\ b.parent = "absent"
  /\ type \in {"customer", "other"} => b.customer = "absent"
Events == UNION {{[type |-> t, object |-> b] : b \in {c \in Bodies(t) : Relevant(t, c)}} : t \in Types}

IdOf(form) == IF form = "absent" THEN "none" ELSE "known"
AsId(form) == IF form = "absent" THEN "absent" ELSE "id"

\* What the handler of the event works with: the references it resolves, the
\* subscription of an invoice in its old place or under its parent.
InvoiceSubscription(o) ==
  IF o.subscription # "absent" THEN IdOf(o.subscription) ELSE IdOf(o.parent)
Handled(e) ==
  [type |-> e.type, fields |-> e.object.fields \cap ReadBy[e.type],
   customer |-> IdOf(e.object.customer), product |-> IdOf(e.object.product),
   subscription |-> InvoiceSubscription(e.object)]

\* The fields that are kept with the row, each named, references as ids.
KeptFields ==
  [subscription |-> {"id", "status", "cancel", "trial_end", "period", "item_period", "price"},
   invoice      |-> {"id", "status", "attempt_count", "amount", "currency", "next_payment_attempt"},
   checkout     |-> {"id", "mode", "client_reference_id"},
   customer     |-> {"id"},
   other        |-> {"id"}]
KeepsOldPlaceOnly(type, o) ==        \* mutant: the subscription's new place is overlooked
  [fields       |-> o.fields \cap KeptFields[type],
   customer     |-> AsId(o.customer),
   product      |-> AsId(o.product),
   subscription |-> AsId(o.subscription),
   parent       |-> "absent"]
ReplayableObject(type, o) ==
  [fields       |-> o.fields \cap KeptFields[type],
   customer     |-> AsId(o.customer),
   product      |-> AsId(o.product),
   subscription |-> IF InvoiceSubscription(o) = "known" THEN "id" ELSE "absent",
   parent       |-> "absent"]
ToReplayablePayload(e) == [type |-> e.type, object |-> ReplayableObject(e.type, e.object)]

\* A row of an older version holds the summary that is written to the log.
RedactStripeEvent(e) ==
  [type |-> e.type,
   summary |-> e.object.fields \cap {"id", "amount", "currency", "attempt_count", "status"}]
RebuildStripeEvent(payload) ==
  IF payload # NoValue /\ "object" \in DOMAIN payload THEN payload ELSE NoValue

\* No value is none of the payloads and no answer.
IntakeAssumption ==
  /\ MaxTries \in Nat /\ NoValue # "acknowledged"
  /\ NoValue \notin {ToReplayablePayload(e) : e \in Events}

\* Stripe's errors and the package's codes for them.
StripeErrors == {"gone", "rate", "connection", "auth", "permission", "unknown"}
FromStripeError(error) ==
  CASE error = "rate"       -> "rate_limited"
    [] error = "connection" -> "network_error"
    [] error = "auth"       -> "authentication_failed"
    [] error = "permission" -> "permission_denied"
    [] error = "gone"       -> "invalid_stripe_request"
    [] error = "unknown"    -> "api_error"
FatalCodes ==
  {"peer_missing", "config_missing", "test_in_production", "live_key_outside_production",
   "invalid_signature", "webhook_body_unreadable", "plan_unmapped", "invalid_price",
   "subscription_not_found", "card_declined", "idempotency_conflict",
   "authentication_failed", "invalid_stripe_request", "permission_denied"}
IsRetryable(code) == code \notin FatalCodes
-----------------------------------------------------------------------------
VARIABLES
  environment, \* what the process is configured with
  request,     \* the delivery: its event and what proves its origin
  atStripe,    \* whether Stripe still returns the event
  server,      \* "boot", "refuses_to_boot", "up"
  answer,      \* the answer to the delivery
  ledgerRow,   \* the payload of the row, NoValue before it is written
  job,         \* "none", "queued", "completed", "failed"
  tries,       \* how often the job ran
  lastError,
  handled,     \* what the handler was given
  logged       \* what the job wrote to the log

intake == <<environment, request, atStripe, server, answer, ledgerRow, job, tries, lastError,
            handled, logged>>
given == <<environment, request>>
outcome == <<lastError, handled, logged>>

Configs ==
  [peer : BOOLEAN, production : BOOLEAN, key : {"test", "live"}, liveInDev : BOOLEAN,
   secret : {"whsec", "other", "empty"}, plansDeclared : BOOLEAN]
Sources == {"listed", "mapped", "unlisted", "unknown"}
IntakeRequests ==
  [event : Events, signature : {"valid", "forged", "old", "none"}, body : BOOLEAN,
   ip : Sources, enforced : BOOLEAN]

\* A process and a delivery with nothing out of order.
InOrder ==
  [peer |-> TRUE, production |-> TRUE, key |-> "live", liveInDev |-> FALSE,
   secret |-> "whsec", plansDeclared |-> TRUE]
Ordinary ==
  [event |-> [type |-> "other",
              object |-> [fields |-> {}, customer |-> "absent", product |-> "absent",
                          subscription |-> "absent", parent |-> "absent"]],
   signature |-> "valid", body |-> TRUE, ip |-> "listed", enforced |-> TRUE]

\* One thing at a time is out of order.
IntakeInit ==
  /\ environment \in {c \in Configs : (c.production /\ c.key = "live")
                                    \/ (c.peer /\ c.secret = "whsec" /\ c.plansDeclared)}
  /\ request \in {r \in IntakeRequests : r.event.type = "customer"
                                       \/ (r.body /\ r.signature = "valid" /\ r.ip = "listed" /\ r.enforced)}
  /\ environment = InOrder \/ request = Ordinary
  /\ atStripe \in {"has", "gone"}
  /\ server = "boot" /\ answer = NoValue /\ job = "none" /\ tries = 0
  /\ ledgerRow \in {NoValue, RedactStripeEvent(request.event)}
  /\ lastError = NoValue /\ handled = NoValue /\ logged = NoValue

\* The SDK is imported when it is first needed; without it there is no client.
HasClient(c) == c.peer

\* BillingService.verify() when the provider boots.
VerifyBoot ==
  /\ server = "boot"
  /\ server' = IF \/ ~HasClient(environment)
                  \/ environment.production /\ environment.key = "test"
                  \/ ~environment.production /\ environment.key = "live" /\ ~environment.liveInDev
                  \/ environment.secret # "whsec"
                  \/ ~environment.plansDeclared
               THEN "refuses_to_boot" ELSE "up"
  /\ UNCHANGED <<given, atStripe, answer, ledgerRow, job, tries, outcome>>

\* The list holds the address, or the IPv4 address it maps.
OriginAllowed(r) == ~r.enforced \/ r.ip \in {"listed", "mapped"}

\* The middleware's checks, in its order; HMAC over the raw body, no older
\* than 300 seconds.
Verdict(r) ==
  CASE ~OriginAllowed(r)      -> "unauthorized"
    [] r.signature = "none"   -> "invalid_signature"
    [] ~r.body                -> "webhook_body_unreadable"
    [] r.signature \in {"forged", "old"} -> "invalid_signature"
    [] OTHER                  -> "verified"
Rejects ==
  /\ server = "up" /\ answer = NoValue /\ Verdict(request) # "verified"
  /\ answer' = Verdict(request)
  /\ UNCHANGED <<given, atStripe, server, ledgerRow, job, tries, outcome>>

\* The controller: the row is inserted with the payload unless it is there,
\* and the job is dispatched.
Accepts ==
  /\ server = "up" /\ answer = NoValue /\ Verdict(request) = "verified"
  /\ ledgerRow' = IF ledgerRow = NoValue THEN ToReplayablePayload(request.event) ELSE ledgerRow
  /\ answer' = "acknowledged" /\ job' = "queued"
  /\ UNCHANGED <<given, atStripe, server, tries, outcome>>

\* Stripe returns an event for about 30 days.
AgesOut ==
  /\ atStripe = "has" /\ answer = "acknowledged"
  /\ atStripe' = "gone"
  /\ UNCHANGED <<given, server, answer, ledgerRow, job, tries, outcome>>

\* The job ends with the handler; its log line is redacted.
DispatchEvent(e) ==
  /\ handled' = Handled(e) /\ logged' = RedactStripeEvent(e)
  /\ job' = "completed" /\ lastError' = NoValue

\* retrieveEvent() answers with Stripe's event.
FetchesFromStripe ==
  /\ job = "queued" /\ tries < MaxTries /\ tries' = tries + 1
  /\ atStripe = "has"
  /\ DispatchEvent(request.event)
  /\ UNCHANGED <<given, atStripe, server, answer, ledgerRow>>

\* Stripe says the event is gone: the stored payload is dispatched instead.
FetchesFromRow ==
  /\ job = "queued" /\ tries < MaxTries /\ tries' = tries + 1
  /\ atStripe = "gone" /\ RebuildStripeEvent(ledgerRow) # NoValue
  /\ DispatchEvent(RebuildStripeEvent(ledgerRow))
  /\ UNCHANGED <<given, atStripe, server, answer, ledgerRow>>

\* Stripe's failures end the job, or leave it to the next try.
FetchFails ==
  /\ job = "queued" /\ tries < MaxTries /\ tries' = tries + 1
  /\ \E error \in StripeErrors :
       /\ error = "gone" <=> atStripe = "gone"
       /\ error = "gone" => RebuildStripeEvent(ledgerRow) = NoValue
       /\ lastError' = error
       /\ job' = IF ~IsRetryable(FromStripeError(error)) \/ tries' = MaxTries
                 THEN "failed" ELSE "queued"
  /\ UNCHANGED <<given, atStripe, server, answer, ledgerRow, handled, logged>>

\* tenant:billing:replay puts the job of a failed row in the queue again.
Replays ==
  /\ job = "failed" /\ tries < MaxTries
  /\ job' = "queued"
  /\ UNCHANGED <<given, atStripe, server, answer, ledgerRow, tries, outcome>>

IntakeNext ==
  \/ VerifyBoot \/ Rejects \/ Accepts \/ AgesOut \/ FetchesFromStripe
  \/ FetchesFromRow \/ FetchFails \/ Replays
IntakeSpec == IntakeInit /\ [][IntakeNext]_intake
-----------------------------------------------------------------------------
IntakeTypeOK ==
  /\ environment \in Configs /\ request \in IntakeRequests
  /\ atStripe \in {"has", "gone"} /\ server \in {"boot", "refuses_to_boot", "up"}
  /\ answer \in {NoValue, "unauthorized", "invalid_signature", "webhook_body_unreadable",
                 "acknowledged"}
  /\ job \in {"none", "queued", "completed", "failed"} /\ tries \in 0..MaxTries
  /\ lastError \in StripeErrors \cup {NoValue}

\* What a handler is given is what the delivered event says, wherever the job
\* took it from and however its references are written, only a delivery that
\* was signed, fresh and complete gets that far, nothing personal is stored or
\* logged on the way, and a job that has tries left is ended only by an error
\* no retry repairs.
HandlesWhatWasSigned ==
  /\ handled # NoValue =>
       /\ handled = Handled(request.event)
       /\ request.signature = "valid" /\ request.body /\ OriginAllowed(request)
       /\ environment.secret = "whsec" /\ HasClient(environment)
  /\ ledgerRow # NoValue /\ "object" \in DOMAIN ledgerRow => ledgerRow.object.fields \cap Personal = {}
  /\ logged # NoValue => logged.summary \cap Personal = {}
  /\ job = "failed" /\ tries < MaxTries =>
       \/ lastError \in {"auth", "permission"}
       \/ lastError = "gone" /\ "summary" \in DOMAIN ledgerRow
=============================================================================
