------------------------------ MODULE SsoLogin ------------------------------
(***************************************************************************)
(* services/sso_service.ts and admin/controllers/sso_controller.ts: a      *)
(* login at the identity provider of a tenant. buildAuthUrl leaves a state *)
(* in Redis, which the callback must bring back; the callback may come     *)
(* twice, late, with a code of another login, or after the configuration   *)
(* has changed. A code stands for the login it was given out for, and the  *)
(* nonce in its id_token with it.                                          *)
(***************************************************************************)
EXTENDS Naturals, FiniteSets, Sequences

CONSTANTS
    States,     \* values of state, each drawn once
    SsoTenants,
    Issuers,    \* identity providers
    Callbacks,  \* requests to the callback route
    MaxEdits,   \* bound: changes of a configuration
    Absent

SsoAssumption ==
    /\ MaxEdits \in Nat
    /\ Absent \notin SsoTenants /\ Absent \notin [tenant : SsoTenants, issuer : Issuers]

VARIABLES
    ssoConfig,    \* tenant_sso_configs, one row per tenant
    stored,    \* per state: the tenant kept in Redis under sso:state
    issued,    \* per state: the tenant and the issuer it was drawn for
    callback,  \* per callback: what it is doing
    discovery, \* issuers whose discovery document is cached
    logins,    \* per state: the tenants handleCallback has returned
    edits      \* changes so far

ssoVars == <<ssoConfig, stored, issued, callback, discovery, logins, edits>>

Config == [issuer : Issuers, enabled : BOOLEAN]
NoCallback == [pc |-> "idle"]
Callback == [pc : {"take"}, state : States, code : States] \cup
            [pc : {"config"}, state : States, code : States, tenant : SsoTenants] \cup
            [pc : {"discover", "exchange", "verify"}, state : States, code : States,
             tenant : SsoTenants, issuer : Issuers]

SsoTypeOK ==
    /\ ssoConfig \in [SsoTenants -> Config \cup {Absent}]
    /\ stored \in [States -> SsoTenants \cup {Absent}]
    /\ issued \in [States -> [tenant : SsoTenants, issuer : Issuers] \cup {Absent}]
    /\ callback \in [Callbacks -> Callback \cup {NoCallback}]
    /\ discovery \subseteq Issuers
    /\ logins \in [States -> Seq(SsoTenants)]
    /\ edits \in 0 .. MaxEdits

SsoInit ==
    /\ ssoConfig \in [SsoTenants -> [issuer : Issuers, enabled : {TRUE}] \cup {Absent}]
    /\ stored = [s \in States |-> Absent] /\ issued = [s \in States |-> Absent]
    /\ callback = [c \in Callbacks |-> NoCallback]
    /\ discovery = {}
    /\ logins = [s \in States |-> << >>]
    /\ edits = 0

\* getConfig: the row, unless it is disabled.
Enabled(t) == ssoConfig[t] # Absent /\ ssoConfig[t].enabled

\* An error, or the end, of handleCallback.
CallbackEnds(c) == callback' = [callback EXCEPT ![c] = NoCallback]

-----------------------------------------------------------------------------
(* The configuration *)

Edits == edits < MaxEdits /\ edits' = edits + 1

Upsert(t, i) ==
    /\ Edits
    /\ ssoConfig' = [ssoConfig EXCEPT ![t] = [issuer |-> i, enabled |-> TRUE]]
    /\ UNCHANGED <<stored, issued, callback, discovery, logins>>

Disable(t) ==
    /\ Edits
    /\ ssoConfig[t] # Absent
    /\ ssoConfig' = [ssoConfig EXCEPT ![t].enabled = FALSE]
    /\ UNCHANGED <<stored, issued, callback, discovery, logins>>

-----------------------------------------------------------------------------
(* buildAuthUrl, for a configuration the application has read *)

BuildAuthUrl(s, t) ==
    /\ issued[s] = Absent
    /\ Enabled(t)
    /\ discovery' = discovery \cup {ssoConfig[t].issuer}
    /\ stored' = [stored EXCEPT ![s] = t]
    /\ issued' = [issued EXCEPT ![s] = [tenant |-> t, issuer |-> ssoConfig[t].issuer]]
    /\ UNCHANGED <<ssoConfig, callback, logins, edits>>

\* STATE_TTL_SECONDS are over.
StateExpires(s) ==
    /\ stored[s] # Absent
    /\ stored' = [stored EXCEPT ![s] = Absent]
    /\ UNCHANGED <<ssoConfig, issued, callback, discovery, logins, edits>>

DiscoveryExpires(i) ==
    /\ i \in discovery
    /\ discovery' = discovery \ {i}
    /\ UNCHANGED <<ssoConfig, stored, issued, callback, logins, edits>>

-----------------------------------------------------------------------------
(* handleCallback *)

\* A callback brings a state and a code, not always of the same login.
CallbackArrives(c, s, x) ==
    /\ callback[c] = NoCallback
    /\ issued[x] # Absent
    /\ callback' = [callback EXCEPT ![c] = [pc |-> "take", state |-> s, code |-> x]]
    /\ UNCHANGED <<ssoConfig, stored, issued, discovery, logins, edits>>

\* The state read and left in place (a mutant).
ReadsState(c) ==
    LET me == callback[c]
    IN  /\ me.pc = "take" /\ stored[me.state] # Absent
        /\ callback' = [callback EXCEPT ![c] = [pc |-> "config", state |-> me.state,
                                        code |-> me.code, tenant |-> stored[me.state]]]
        /\ UNCHANGED <<ssoConfig, stored, issued, discovery, logins, edits>>

\* GETDEL
TakesState(c) ==
    LET me == callback[c]
    IN  /\ me.pc = "take" /\ stored[me.state] # Absent
        /\ stored' = [stored EXCEPT ![me.state] = Absent]
        /\ callback' = [callback EXCEPT ![c] = [pc |-> "config", state |-> me.state,
                                        code |-> me.code, tenant |-> stored[me.state]]]
        /\ UNCHANGED <<ssoConfig, issued, discovery, logins, edits>>

InvalidState(c) ==
    /\ callback[c].pc = "take" /\ stored[callback[c].state] = Absent
    /\ CallbackEnds(c)
    /\ UNCHANGED <<ssoConfig, stored, issued, discovery, logins, edits>>

ReadsConfig(c) ==
    LET me == callback[c]
    IN  /\ me.pc = "config"
        /\ IF Enabled(me.tenant)
           THEN callback' = [callback EXCEPT ![c] = [pc |-> "discover", state |-> me.state,
                            code |-> me.code, tenant |-> me.tenant,
                            issuer |-> ssoConfig[me.tenant].issuer]]
           ELSE CallbackEnds(c)
        /\ UNCHANGED <<ssoConfig, stored, issued, discovery, logins, edits>>

\* discover: from the cache, or fetched, checked and cached, or refused.
Discovers(c) ==
    /\ callback[c].pc = "discover"
    /\ \/ /\ discovery' = discovery \cup {callback[c].issuer}
          /\ callback' = [callback EXCEPT ![c].pc = "exchange"]
       \/ /\ callback[c].issuer \notin discovery
          /\ CallbackEnds(c)
          /\ UNCHANGED discovery
    /\ UNCHANGED <<ssoConfig, stored, issued, logins, edits>>

\* The token endpoint knows the codes of its own issuer; it may fail.
Exchanges(c) ==
    /\ callback[c].pc = "exchange"
    /\ \/ /\ issued[callback[c].code].issuer = callback[c].issuer
          /\ callback' = [callback EXCEPT ![c].pc = "verify"]
       \/ CallbackEnds(c)
    /\ UNCHANGED <<ssoConfig, stored, issued, discovery, logins, edits>>

\* #verifyIdToken: the token carries the nonce of the login its code is of.
Verifies(c) ==
    LET me == callback[c]
    IN  /\ me.pc = "verify"
        /\ logins' = IF me.code = me.state
                     THEN [logins EXCEPT ![me.state] = Append(@, me.tenant)]
                     ELSE logins
        /\ CallbackEnds(c)
        /\ UNCHANGED <<ssoConfig, stored, issued, discovery, edits>>

-----------------------------------------------------------------------------
SsoNext ==
    \/ \E t \in SsoTenants : Disable(t) \/ \E i \in Issuers : Upsert(t, i)
    \/ \E s \in States : StateExpires(s) \/ \E t \in SsoTenants : BuildAuthUrl(s, t)
    \/ \E i \in Issuers : DiscoveryExpires(i)
    \/ \E c \in Callbacks :
          \/ \E s, x \in States : CallbackArrives(c, s, x)
          \/ TakesState(c) \/ InvalidState(c) \/ ReadsConfig(c)
          \/ Discovers(c) \/ Exchanges(c) \/ Verifies(c)

SsoSpec == SsoInit /\ [][SsoNext]_ssoVars

-----------------------------------------------------------------------------
(* Properties *)

\* A state logs in at most once, whatever callbacks race for it, and for the tenant
\* whose login it was drawn for.
OneLoginPerState ==
    \A s \in States :
        \/ logins[s] = << >>
        \/ issued[s] # Absent /\ logins[s] = <<issued[s].tenant>>

=============================================================================
