---------------------------- MODULE TenancyScope ----------------------------
(***************************************************************************)
(* tenancy.ts, services/bootstrapper_registry.ts and models/scoping.ts:    *)
(* the tenant that is current in each asynchronous task of a process, the  *)
(* bootstrappers entered and left around it, and the predicate the mixin   *)
(* withTenantScope adds to the queries of a model under row scoping.       *)
(*                                                                         *)
(* AsyncLocalStorage gives each task a stack of frames of its own; the     *)
(* registry of bootstrappers is one list for the whole process, which a    *)
(* task reads again after every await.                                     *)
(***************************************************************************)
EXTENDS Integers, Sequences, FiniteSets, SequencesExt

CONSTANTS
    Tasks,         \* chains of asynchronous calls
    ScopeTenants,
    Unsafe,        \* tenants whose id is not an identifier
    Bootstrappers, \* names that may be registered
    Validators,    \* those of drive, mail, session and transmit: they check the id
    Leavers,       \* those with a leave()
    Rows,          \* rows of one scoped model
    Strict,        \* config.isolation.rowScopeMode is strict
    MaxDepth,      \* bound: frames of a task
    MaxChanges,    \* bound: changes of the registry
    NoScope

ScopeAssumption ==
    /\ Unsafe \subseteq ScopeTenants
    /\ NoScope \notin ScopeTenants
    /\ {"gone", "null", "unset"} \cap (ScopeTenants \cup {NoScope}) = {}
    /\ IsFiniteSet(Bootstrappers) /\ Validators \cup Leavers \subseteq Bootstrappers
    /\ NoScope \notin Rows
    /\ Strict \in BOOLEAN /\ {MaxDepth, MaxChanges} \subseteq Nat

VARIABLES
    order,   \* #order of the registry
    singletons,  \* tenancy.ts has its singletons: run() was called once
    stack,   \* per task: its frames, the innermost last
    owner,   \* per row: the column tenant_id, NoScope before and "gone" after
    held,    \* per task: the row it holds as an instance, with the attribute tenant_id
    wrote,   \* the last write: the row's owner, and where it came from
    changes  \* changes of the registry so far

scopeVars == <<order, singletons, stack, owner, held, wrote, changes>>

\* A frame of tenancy.run: entered and left are what it did, changed whether a
\* bootstrapper was unregistered meanwhile.
Frame == [kind : {"run", "http", "unscoped"},
          tenant : ScopeTenants \cup {NoScope},
          phase : {"enter", "body", "leave"},
          at : 0 .. Cardinality(Bootstrappers) + 1,
          done : 0 .. Cardinality(Bootstrappers),
          entered : Seq(Bootstrappers), left : Seq(Bootstrappers),
          changed : BOOLEAN]

NewFrame(kind, t, phase) ==
    [kind |-> kind, tenant |-> t, phase |-> phase, at |-> 1, done |-> 0,
     entered |-> << >>, left |-> << >>, changed |-> FALSE]

\* What the column may hold.  An instance has what it read, or nothing where the column
\* was not selected or not filled in; or what the application has put there since, or
\* what was the row's before the application changed the column.
Owners == ScopeTenants \cup {"null"}
Held == [row : Rows \cup {NoScope}, owner : Owners \cup {NoScope, "unset"},
         as : {"read", "unset", "named", "stale"}]
Nobody == [row |-> NoScope, owner |-> NoScope, as |-> "read"]
Instance(r, o) == [row |-> r, owner |-> o, as |-> IF o = "unset" THEN "unset" ELSE "read"]
NoWrite == [owner |-> NoScope, by |-> NoScope, bypass |-> TRUE, named |-> FALSE]

ScopeTypeOK ==
    /\ order \in Seq(Bootstrappers) /\ IsInjective(order)
    /\ singletons \in BOOLEAN
    /\ \A t \in Tasks : stack[t] \in Seq(Frame) /\ Len(stack[t]) <= MaxDepth
    /\ owner \in [Rows -> Owners \cup {NoScope, "gone"}]
    /\ held \in [Tasks -> Held]
    /\ wrote \in [owner : Owners \cup {NoScope}, by : ScopeTenants \cup {NoScope},
                  bypass : BOOLEAN, named : BOOLEAN]
    /\ changes \in 0 .. MaxChanges

ScopeInit ==
    /\ \E n \in 0 .. Cardinality(Bootstrappers) :
          order \in {s \in [1 .. n -> Bootstrappers] : IsInjective(s)}
    /\ singletons = FALSE
    /\ stack = [t \in Tasks |-> << >>]
    /\ owner = [r \in Rows |-> NoScope]
    /\ held = [t \in Tasks |-> Nobody]
    /\ wrote = NoWrite
    /\ changes = 0

-----------------------------------------------------------------------------
(* Frames *)

\* The task runs code of the application, not of the registry.
Running(t) == \A i \in DOMAIN stack[t] : stack[t][i].phase = "body"

Push(t, f) == stack' = [stack EXCEPT ![t] = Append(stack[t], f)]
Top(t) == Last(stack[t])
SetTop(t, f) == stack' = [stack EXCEPT ![t] = Append(Front(stack[t]), f)]
Pop(t) == stack' = [stack EXCEPT ![t] = Front(stack[t])]

\* tenancy.currentId: nothing, also within a request, before run() was called once.
CurrentId(t) ==
    LET inner == SelectLastInSeq(stack[t], LAMBDA f : f.kind \in {"run", "http"})
    IN  IF ~singletons \/ inner = 0 THEN NoScope ELSE stack[t][inner].tenant

\* unscoped() holds for everything below it, a tenancy.run() included.
IsScopeBypassed(t) == \E i \in DOMAIN stack[t] : stack[t][i].kind = "unscoped"

-----------------------------------------------------------------------------
(* The registry *)

RegisterBootstrapper(b) ==
    /\ changes < MaxChanges
    /\ changes' = changes + 1
    /\ b \notin ToSet(order)
    /\ order' = Append(order, b)
    /\ UNCHANGED <<singletons, stack, owner, held, wrote>>

\* The list is spliced at once, under whatever scopes are walking it.
Unregister(b) ==
    /\ changes < MaxChanges
    /\ changes' = changes + 1
    /\ \E i \in DOMAIN order : order[i] = b /\ order' = RemoveAt(order, i)
    /\ stack' = [t \in Tasks |->
                    [i \in DOMAIN stack[t] |-> [stack[t][i] EXCEPT !.changed = TRUE]]]
    /\ UNCHANGED <<singletons, owner, held, wrote>>

-----------------------------------------------------------------------------
(* tenancy.run, unscoped, and the frame of the tenant guard *)

RunIn(t, tenant) ==
    /\ Running(t) /\ Len(stack[t]) < MaxDepth
    /\ singletons' = TRUE
    /\ Push(t, NewFrame("run", tenant, "enter"))
    /\ UNCHANGED <<order, owner, held, wrote, changes>>

\* TenantGuardMiddleware and UniversalMiddleware: the log context, no bootstrapper.
Request(t, tenant) ==
    /\ stack[t] = << >> /\ MaxDepth > 0
    /\ Push(t, NewFrame("http", tenant, "body"))
    /\ UNCHANGED <<order, singletons, owner, held, wrote, changes>>

Unscoped(t) ==
    /\ Running(t) /\ Len(stack[t]) < MaxDepth
    /\ ~IsScopeBypassed(t)
    /\ Push(t, NewFrame("unscoped", NoScope, "body"))
    /\ UNCHANGED <<order, singletons, owner, held, wrote, changes>>

Entering(t) == stack[t] # << >> /\ Top(t).phase = "enter"

\* The leaves go by position, from as many as entered down to the first.
Unwound(f) ==
    [f EXCEPT !.phase = "leave", !.at = IF f.done < Len(order) THEN f.done ELSE Len(order)]

\* drive, mail, session and transmit refuse an id that is no identifier; the cache,
\* or a bootstrapper of the application, may fail for reasons of its own.
EnterFails(t) ==
    /\ Entering(t) /\ Top(t).at <= Len(order)
    /\ order[Top(t).at] \in Validators => Top(t).tenant \in Unsafe
    /\ SetTop(t, Unwound(Top(t)))
    /\ UNCHANGED <<order, singletons, owner, held, wrote, changes>>

Enter(t) ==
    LET f == Top(t)
    IN  /\ Entering(t) /\ f.at <= Len(order)
        /\ order[f.at] \in Validators => f.tenant \notin Unsafe
        /\ SetTop(t, [f EXCEPT !.entered = Append(f.entered, order[f.at]),
                               !.done = f.done + 1, !.at = f.at + 1])
        /\ UNCHANGED <<order, singletons, owner, held, wrote, changes>>

AllEntered(t) ==
    /\ Entering(t) /\ Top(t).at > Len(order)
    /\ SetTop(t, [Top(t) EXCEPT !.phase = "body"])
    /\ UNCHANGED <<order, singletons, owner, held, wrote, changes>>

\* The callback returns or throws. A frame without bootstrappers is gone with it.
BodyEnds(t) ==
    /\ stack[t] # << >> /\ Top(t).phase = "body"
    /\ IF Top(t).kind = "run" THEN SetTop(t, Unwound(Top(t))) ELSE Pop(t)
    /\ held' = IF Len(stack[t]) = 1 THEN [held EXCEPT ![t] = Nobody] ELSE held
    /\ UNCHANGED <<order, singletons, owner, wrote, changes>>

\* Teardown in the order of the enters (a mutant).
LeaveAt(f) == f.done - f.at + 1

\* runLeaveUpTo counts down.
LeavePosition(f) == f.at

\* Whether or not the leave fails: that is logged and the next one follows.
Leave(t) ==
    LET f == Top(t)
        i == LeavePosition(f)
    IN  /\ stack[t] # << >> /\ f.phase = "leave" /\ f.at > 0
        /\ SetTop(t, [f EXCEPT !.at = f.at - 1,
                               !.left = IF i \in DOMAIN order /\ order[i] \in Leavers
                                        THEN Append(f.left, order[i]) ELSE f.left])
        /\ UNCHANGED <<order, singletons, owner, held, wrote, changes>>

AllLeft(t) ==
    /\ stack[t] # << >> /\ Top(t).phase = "leave" /\ Top(t).at = 0
    /\ Pop(t)
    /\ held' = IF Len(stack[t]) = 1 THEN [held EXCEPT ![t] = Nobody] ELSE held
    /\ UNCHANGED <<order, singletons, owner, wrote, changes>>

-----------------------------------------------------------------------------
(* Rows of a scoped model *)

\* requireScope throws.
ScopeMissing(t) == ~IsScopeBypassed(t) /\ CurrentId(t) = NoScope /\ Strict

\* The tenant requireScope gives to the predicate: none when it is bypassed.
Scope(t) == IF IsScopeBypassed(t) THEN NoScope ELSE CurrentId(t)

\* What the predicate of a query, where there is one, lets through.
Visible(t, r) == owner[r] \in Owners /\ Scope(t) \in {owner[r], NoScope}

\* Of a write: whether the application named the tenant itself, or wrote through an
\* instance that does not have what is in the column.
RowWrite(t, o, named) ==
    wrote' = [owner |-> o, by |-> CurrentId(t), bypass |-> Scope(t) = NoScope, named |-> named]

Querying(t) == Running(t) /\ ~ScopeMissing(t) /\ UNCHANGED <<order, singletons, stack, changes>>

\* The column of a row is set, or the row deleted: other instances of it are out of date.
RowBecomes(t, r, o, mine) ==
    /\ owner' = [owner EXCEPT ![r] = o]
    /\ held' = [k \in Tasks |->
                  IF k = t THEN mine
                  ELSE IF held[k].row = r /\ held[k].as = "read" /\ o # owner[r]
                       THEN [held[k] EXCEPT !.as = "stale"] ELSE held[k]]

\* before create: the column is filled in when the application left it open, and stays
\* open where no scope is required of the caller; a tenant it named is not looked at.
CreateRow(t, r) ==
    /\ Querying(t)
    /\ owner[r] = NoScope
    /\ \/ /\ Scope(t) # NoScope
          /\ RowBecomes(t, r, Scope(t), Instance(r, Scope(t)))
          /\ RowWrite(t, Scope(t), FALSE)
       \/ /\ Scope(t) = NoScope
          /\ RowBecomes(t, r, "null", Instance(r, "unset"))
          /\ RowWrite(t, "null", FALSE)
       \/ \E o \in ScopeTenants :
             RowBecomes(t, r, o, Instance(r, o)) /\ RowWrite(t, o, TRUE)

\* find, fetch, paginate: the rows the predicate lets through, with the column or,
\* where the application selects others, without.
Fetch(t, r) ==
    /\ Querying(t)
    /\ Visible(t, r)
    /\ \E o \in {owner[r], "unset"} : held' = [held EXCEPT ![t] = Instance(r, o)]
    /\ UNCHANGED <<owner, wrote>>

\* query().update() and query().delete(): the predicate is there from the start.  The
\* update may set the column.
QueryWrites(t, r) ==
    /\ Querying(t)
    /\ Visible(t, r)
    /\ \E o \in Owners \cup {"gone"} :
          RowBecomes(t, r, o, IF held[t].row = r /\ held[t].as = "read" /\ o # owner[r]
                              THEN [held[t] EXCEPT !.as = "stale"] ELSE held[t])
    /\ RowWrite(t, owner[r], FALSE)

\* The application sets the attribute of an instance.
NamesTenant(t, o) ==
    /\ Running(t)
    /\ held[t] # Nobody /\ held[t].owner # o
    /\ held' = [held EXCEPT ![t].owner = o, ![t].as = "named"]
    /\ UNCHANGED <<order, singletons, stack, owner, wrote, changes>>

\* Saving what was read, in whatever scope (a mutant).
SavesAnything(t, o) == TRUE

\* before update, before delete: the instance must be the current tenant's, as far as it
\* can tell.
MaySave(t, o) == Scope(t) \in {o, NoScope} \/ o = "unset"

\* An instance is written by its primary key: only the hook looks at its tenant.  What
\* the application put into the attribute is saved with it.
SaveInstance(t) ==
    LET h == held[t]
    IN  /\ Querying(t)
        /\ h # Nobody
        /\ owner[h.row] \in Owners
        /\ MaySave(t, h.owner)
        /\ \/ RowBecomes(t, h.row, "gone", h)
           \/ h.as = "named" /\ RowBecomes(t, h.row, h.owner, Instance(h.row, h.owner))
           \/ h.as # "named" /\ UNCHANGED <<owner, held>>
        /\ RowWrite(t, owner[h.row], h.as # "read")

-----------------------------------------------------------------------------
ScopeStep(t) ==
    \/ Enter(t) \/ EnterFails(t) \/ AllEntered(t)
    \/ BodyEnds(t) \/ Leave(t) \/ AllLeft(t)

RowStep(t) ==
    \/ \E r \in Rows : CreateRow(t, r) \/ Fetch(t, r) \/ QueryWrites(t, r)
    \/ \E o \in Owners : NamesTenant(t, o)
    \/ SaveInstance(t)

ScopeNext ==
    \/ \E b \in Bootstrappers : RegisterBootstrapper(b) \/ Unregister(b)
    \/ \E t \in Tasks :
          \/ \E tenant \in ScopeTenants : RunIn(t, tenant) \/ Request(t, tenant)
          \/ Unscoped(t)
          \/ ScopeStep(t)
          \/ RowStep(t)

ScopeSpec == ScopeInit /\ [][ScopeNext]_scopeVars

-----------------------------------------------------------------------------
(* Properties *)

\* Every bootstrapper that was entered is left once, the last one first, whether the
\* callback or a later enter failed and whatever was registered meanwhile; nothing
\* is promised to a scope under which one was unregistered.
LeavesWhatItEntered ==
    \A t \in Tasks : \A i \in DOMAIN stack[t] :
        LET f == stack[t][i]
        IN  f.phase = "leave" /\ f.at = 0 /\ ~f.changed =>
               /\ ToSet(f.left) = ToSet(f.entered) \cap Leavers
               /\ \A j, k \in DOMAIN f.left, m, n \in DOMAIN f.entered :
                     j < k /\ f.left[j] = f.entered[m] /\ f.left[k] = f.entered[n] => n < m

\* A row is written from the scope of its own tenant, or where scoping is off: also
\* when the instance was read in a scope that has ended, and another is current, or
\* another task has changed the row since.  The hooks see no more than the instance:
\* excepted are a create for a tenant the application has named, and an instance whose
\* tenant_id it has set itself, or did not read, or has changed in the table since.
RowsKeepToTheirScope == wrote.bypass \/ wrote.named \/ wrote.owner = wrote.by

=============================================================================
