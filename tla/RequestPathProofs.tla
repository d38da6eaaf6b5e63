-------------------------- MODULE RequestPathProofs -------------------------
(***************************************************************************)
(* A request is served as its own tenant, and no open connection is        *)
(* forgotten, for every set of tenants, every configuration of resolvers   *)
(* and every limit of connections.                                         *)
(***************************************************************************)
EXTENDS RequestPath, SequenceTheorems, TLAPS

-----------------------------------------------------------------------------
(* The order of eviction: a sequence without repetition *)

\* SelectInSeq finds the one position of an element.
LEMMA PlaceOf ==
  ASSUME NEW S, NEW s \in Seq(S), IsInjective(s), NEW i \in 1..Len(s)
  PROVE  RemoveFirst(s, s[i]) = RemoveAt(s, i)
  <1> DEFINE I == {k \in 1..Len(s) : s[k] = s[i]}
  <1>1. I = {i}
    BY DEF IsInjective
  <1>2. Min(I) = i
    BY <1>1 DEF Min
  <1>3. SelectInSeq(s, LAMBDA v : v = s[i]) = i
    BY <1>1, <1>2 DEF SelectInSeq
  <1> QED
    BY <1>3 DEF RemoveFirst

LEMMA RemovalAt ==
  ASSUME NEW S, NEW s \in Seq(S), IsInjective(s), NEW i \in 1..Len(s)
  PROVE  /\ RemoveAt(s, i) \in Seq(S)
         /\ Len(RemoveAt(s, i)) = Len(s) - 1
         /\ \A k \in 1..(i - 1) : RemoveAt(s, i)[k] = s[k]
         /\ \A k \in i..(Len(s) - 1) : RemoveAt(s, i)[k] = s[k + 1]
  <1> DEFINE a == SubSeq(s, 1, i - 1)
             b == SubSeq(s, i + 1, Len(s))
  <1>1. /\ a \in Seq(S) /\ Len(a) = i - 1
        /\ \A k \in 1..(i - 1) : a[k] = s[k]
    OBVIOUS
  <1>2. /\ b \in Seq(S) /\ Len(b) = Len(s) - i
        /\ \A k \in 1..(Len(s) - i) : b[k] = s[k + i]
    OBVIOUS
  <1>3. RemoveAt(s, i) = a \o b
    BY DEF RemoveAt
  <1> HIDE DEF a, b
  <1>4. a \o b \in Seq(S) /\ Len(a \o b) = Len(s) - 1
    <2>1. a \o b \in Seq(S) /\ Len(a \o b) = Len(a) + Len(b)
      BY <1>1, <1>2, ConcatProperties
    <2>2. Len(a) = i - 1 /\ Len(b) = Len(s) - i /\ Len(s) \in Nat /\ i \in Nat
      BY <1>1, <1>2, LenProperties
    <2> QED
      BY <2>1, <2>2
  <1>5. \A k \in 1..(i - 1) : (a \o b)[k] = s[k]
    BY <1>1, <1>2
  <1>6. ASSUME NEW k \in i..(Len(s) - 1) PROVE (a \o b)[k] = s[k + 1]
    <2>1. (a \o b)[k] = b[k - (i - 1)] /\ k - (i - 1) \in 1..(Len(s) - i)
      BY <1>1, <1>2
    <2> QED
      BY <1>2, <2>1
  <1> QED
    BY <1>3, <1>4, <1>5, <1>6

\* Removal takes one element out and keeps the others, each once.
LEMMA Removal ==
  ASSUME NEW S, NEW s \in Seq(S), IsInjective(s), NEW e
  PROVE  /\ RemoveFirst(s, e) \in Seq(S)
         /\ IsInjective(RemoveFirst(s, e))
         /\ ToSet(RemoveFirst(s, e)) = ToSet(s) \ {e}
  <1>1. CASE ~\E i \in 1..Len(s) : s[i] = e
    BY <1>1 DEF RemoveFirst, ToSet
  <1>2. ASSUME NEW i \in 1..Len(s), s[i] = e
        PROVE  /\ RemoveFirst(s, e) \in Seq(S)
               /\ IsInjective(RemoveFirst(s, e))
               /\ ToSet(RemoveFirst(s, e)) = ToSet(s) \ {e}
    <2> DEFINE r == RemoveAt(s, i)
    <2>1. /\ r \in Seq(S) /\ Len(r) = Len(s) - 1
          /\ \A k \in 1..(i - 1) : r[k] = s[k]
          /\ \A k \in i..(Len(s) - 1) : r[k] = s[k + 1]
          /\ Len(r) \in Nat /\ Len(s) \in Nat
      BY RemovalAt, LenProperties
    <2> HIDE DEF r
    <2>2. \A k, l \in 1..Len(s) : s[k] = s[l] => k = l
      BY DEF IsInjective
    <2>3. \A k \in 1..Len(r) : \E l \in 1..Len(s) \ {i} : r[k] = s[l]
      <3> SUFFICES ASSUME NEW k \in 1..Len(r)
                   PROVE  \E l \in 1..Len(s) \ {i} : r[k] = s[l]
        OBVIOUS
      <3>1. CASE k < i
        BY <2>1, <3>1
      <3>2. CASE k >= i
        <4>1. k + 1 \in 1..Len(s) \ {i} /\ r[k] = s[k + 1]
          BY <2>1, <3>2
        <4> QED
          BY <4>1
      <3>3. k < i \/ k >= i
        BY <2>1
      <3> QED
        BY <3>1, <3>2, <3>3
    <2>4. \A l \in 1..Len(s) \ {i} : \E k \in 1..Len(r) : r[k] = s[l]
      <3> SUFFICES ASSUME NEW l \in 1..Len(s) \ {i}
                   PROVE  \E k \in 1..Len(r) : r[k] = s[l]
        OBVIOUS
      <3>1. CASE l < i
        BY <2>1, <3>1
      <3>2. CASE l > i
        <4>1. l - 1 \in 1..Len(r) /\ r[l - 1] = s[(l - 1) + 1] /\ (l - 1) + 1 = l
          BY <2>1, <3>2
        <4> QED
          BY <4>1
      <3> QED
        BY <3>1, <3>2
    <2>5. ToSet(r) = ToSet(s) \ {e}
      <3>1. DOMAIN r = 1..Len(r) /\ DOMAIN s = 1..Len(s)
        BY <2>1
      <3>2. ToSet(r) \subseteq ToSet(s) \ {e}
        BY <1>2, <2>2, <2>3, <3>1 DEF ToSet
      <3>3. ToSet(s) \ {e} \subseteq ToSet(r)
        BY <1>2, <2>4, <3>1 DEF ToSet
      <3> QED
        BY <3>2, <3>3
    <2>6. IsInjective(r)
      <3> SUFFICES ASSUME NEW k \in 1..Len(r), NEW l \in 1..Len(r), k < l, r[k] = r[l]
                   PROVE  FALSE
        BY <2>1 DEF IsInjective
      <3>1. CASE l < i
        BY <2>1, <2>2, <3>1
      <3>2. CASE k < i /\ l >= i
        <4>1. r[k] = s[k] /\ r[l] = s[l + 1] /\ k \in 1..Len(s) /\ l + 1 \in 1..Len(s)
          BY <2>1, <3>2
        <4>2. k = l + 1
          BY <2>2, <4>1
        <4> QED
          BY <2>1, <4>2
      <3>3. CASE k >= i
        <4>1. /\ r[k] = s[k + 1] /\ r[l] = s[l + 1]
              /\ k + 1 \in 1..Len(s) /\ l + 1 \in 1..Len(s)
          BY <2>1, <3>3
        <4>2. k + 1 = l + 1
          BY <2>2, <4>1
        <4> QED
          BY <2>1, <4>2
      <3> QED
        BY <2>1, <3>1, <3>2, <3>3
    <2>7. RemoveFirst(s, e) = r
      BY <1>2, PlaceOf DEF r
    <2> QED
      BY <2>1, <2>5, <2>6, <2>7
  <1> QED
    BY <1>1, <1>2

LEMMA Appending ==
  ASSUME NEW S, NEW s \in Seq(S), IsInjective(s), NEW e \in S, e \notin ToSet(s)
  PROVE  /\ Append(s, e) \in Seq(S) /\ Append(s, e) # << >>
         /\ IsInjective(Append(s, e))
         /\ ToSet(Append(s, e)) = ToSet(s) \cup {e}
  <1> DEFINE r == Append(s, e)
  <1>1. /\ r \in Seq(S) /\ Len(r) = Len(s) + 1 /\ Len(s) \in Nat
        /\ \A k \in 1..Len(s) : r[k] = s[k]
        /\ r[Len(s) + 1] = e
    BY LenProperties
  <1> HIDE DEF r
  <1>2. DOMAIN r = 1..(Len(s) + 1) /\ DOMAIN s = 1..Len(s)
    BY <1>1
  <1>3. \A k \in 1..Len(s) : s[k] # e
    BY <1>2 DEF ToSet
  <1>4. IsInjective(r)
    BY <1>1, <1>2, <1>3 DEF IsInjective
  <1>5. ToSet(r) = ToSet(s) \cup {e}
    BY <1>1, <1>2 DEF ToSet
  <1>6. r # << >>
    BY <1>1
  <1> QED
    BY <1>1, <1>4, <1>5, <1>6 DEF r

\* Without its oldest member the order has all the others.
LEMMA Evicting ==
  ASSUME NEW S, NEW s \in Seq(S), IsInjective(s), s # << >>
  PROVE  /\ Tail(s) \in Seq(S) /\ IsInjective(Tail(s)) /\ Head(s) \in S
         /\ ToSet(Tail(s)) = ToSet(s) \ {Head(s)}
  <1> DEFINE r == Tail(s)
  <1>1. /\ r \in Seq(S) /\ Len(r) = Len(s) - 1 /\ Len(s) > 0
        /\ \A k \in 1..Len(r) : r[k] = s[k + 1]
        /\ Head(s) = s[1] /\ s[1] \in S
    OBVIOUS
  <1> HIDE DEF r
  <1>2. \A k, l \in 1..Len(s) : s[k] = s[l] => k = l
    BY DEF IsInjective
  <1>3. IsInjective(r)
    BY <1>1, <1>2 DEF IsInjective
  <1>4. \A l \in 2..Len(s) : l - 1 \in 1..Len(r) /\ r[l - 1] = s[l]
    BY <1>1
  <1>5. ToSet(r) = ToSet(s) \ {s[1]}
    <2>1. DOMAIN r = 1..Len(r) /\ DOMAIN s = 1..Len(s)
      BY <1>1
    <2>2. ASSUME NEW k \in 1..Len(r) PROVE r[k] \in ToSet(s) \ {s[1]}
      <3>1. k + 1 \in 2..Len(s) /\ r[k] = s[k + 1]
        BY <1>1
      <3> QED
        BY <1>1, <1>2, <2>1, <3>1 DEF ToSet
    <2>3. ASSUME NEW l \in 1..Len(s), s[l] # s[1] PROVE s[l] \in ToSet(r)
      BY <1>4, <2>1, <2>3 DEF ToSet
    <2> QED
      BY <2>1, <2>2, <2>3 DEF ToSet
  <1> QED
    BY <1>1, <1>3, <1>5 DEF r

-----------------------------------------------------------------------------
(* The connections *)

ConnsInv == ConnsTypeOK /\ OpenIsKnown

LEMMA ConnsInvInit == ConnsInit => ConnsInv
  BY ConnectionAssumption DEF ConnsInit, ConnsInv, ConnsTypeOK, OpenIsKnown, IsInjective

LEMMA TouchedOrder ==
  ASSUME ConnsTypeOK, NEW t \in Tenants
  PROVE  /\ Touched(t) \in Seq(Tenants) /\ Touched(t) # << >> /\ IsInjective(Touched(t))
         /\ ToSet(Touched(t)) = ToSet(lru) \cup {t}
         /\ Len(Touched(t)) > 1 => Head(Touched(t)) # t
  <1> DEFINE r == RemoveFirst(lru, t)
  <1>1. r \in Seq(Tenants) /\ IsInjective(r) /\ ToSet(r) = ToSet(lru) \ {t}
    BY Removal DEF ConnsTypeOK
  <1> HIDE DEF r
  <1>2. /\ Append(r, t) \in Seq(Tenants) /\ Append(r, t) # << >> /\ IsInjective(Append(r, t))
        /\ ToSet(Append(r, t)) = ToSet(lru) \cup {t}
    BY <1>1, Appending
  <1>3. ASSUME Len(Append(r, t)) > 1 PROVE Head(Append(r, t)) # t
    <2>1. Len(r) \in Nat /\ Len(Append(r, t)) = Len(r) + 1 /\ DOMAIN r = 1..Len(r)
      BY <1>1, LenProperties
    <2>2. 1 \in DOMAIN r
      BY <1>3, <2>1
    <2>3. r[1] # t
      BY <1>1, <2>2 DEF ToSet
    <2>4. Head(Append(r, t)) = r[1]
      BY <1>1, <1>2, <2>1, <2>2
    <2> QED
      BY <2>3, <2>4
  <1> QED
    BY <1>2, <1>3 DEF Touched, r

\* A release that is asked for is under way, unless there is nothing to release.
LEMMA ReleaseStarts ==
  ASSUME ConnsTypeOK, NEW t \in Tenants, Releases(t)
  PROVE  /\ closing' \in [Tenants -> 0 .. MaxClosing]
         /\ t \in manager => closing'[t] > 0
         /\ \A u \in Tenants : closing[u] > 0 => closing'[u] > 0
  <1>1. CASE t \notin manager
    BY <1>1 DEF Releases, ConnsTypeOK
  <1>2. CASE t \in manager
    <2>1. closing[t] + 1 \in 0 .. MaxClosing /\ closing[t] \in 0 .. MaxClosing
      BY <1>2, ConnectionAssumption DEF Releases, ConnsTypeOK
    <2>2. closing' = [closing EXCEPT ![t] = closing[t] + 1]
      BY <1>2 DEF Releases
    <2> QED
      BY <2>1, <2>2, ConnectionAssumption DEF ConnsTypeOK
  <1> QED
    BY <1>1, <1>2

LEMMA ConnsOfConnect ==
  ASSUME ConnsInv, NEW t \in Tenants, Connect(t)
  PROVE  ConnsInv'
  <1> DEFINE order == Touched(t)
  <1>0. ConnsTypeOK /\ OpenIsKnown
    BY DEF ConnsInv
  <1>1. /\ order \in Seq(Tenants) /\ order # << >> /\ IsInjective(order)
        /\ ToSet(order) = ToSet(lru) \cup {t}
        /\ Len(order) > 1 => Head(order) # t
    BY <1>0, TouchedOrder
  <1>2. manager' = manager \cup {t} /\ UNCHANGED <<lingering, failedReleases>>
    BY DEF Connect
  <1>3. CASE t \notin manager /\ Len(order) > MaxConns
    <2>1. /\ Head(order) \in Tenants /\ Head(order) # t
          /\ lru' = Tail(order)
          /\ Releases(Head(order))
      <3>1. Len(order) > 1
        BY <1>1, <1>3, ConnectionAssumption, LenProperties
      <3> QED
        BY <1>1, <1>3, <3>1, Evicting DEF Connect
    <2> HIDE DEF order
    <2>2. /\ lru' \in Seq(Tenants) /\ IsInjective(lru')
          /\ ToSet(lru') = (ToSet(lru) \cup {t}) \ {Head(order)}
      BY <1>1, <2>1, Evicting
    <2>3. /\ closing' \in [Tenants -> 0 .. MaxClosing]
          /\ Head(order) \in manager => closing'[Head(order)] > 0
          /\ \A u \in Tenants : closing[u] > 0 => closing'[u] > 0
      BY <1>0, <2>1, ReleaseStarts
    <2>4. ConnsTypeOK'
      BY <1>0, <1>2, <2>2, <2>3 DEF ConnsTypeOK
    <2>5. OpenIsKnown'
      BY <1>0, <1>2, <2>1, <2>2, <2>3 DEF OpenIsKnown, ConnsTypeOK
    <2> QED
      BY <2>4, <2>5 DEF ConnsInv
  <1>4. CASE ~(t \notin manager /\ Len(order) > MaxConns)
    <2>1. lru' = order /\ UNCHANGED closing
      BY <1>4 DEF Connect
    <2> HIDE DEF order
    <2>2. ConnsTypeOK'
      BY <1>0, <1>1, <1>2, <2>1 DEF ConnsTypeOK
    <2>3. OpenIsKnown'
      BY <1>0, <1>1, <1>2, <2>1 DEF OpenIsKnown
    <2> QED
      BY <2>2, <2>3 DEF ConnsInv
  <1> QED
    BY <1>3, <1>4

LEMMA ConnsOfDisconnect ==
  ASSUME ConnsInv, NEW t \in Tenants, Disconnect(t)
  PROVE  ConnsInv'
  <1>0. ConnsTypeOK /\ OpenIsKnown
    BY DEF ConnsInv
  <1>1. /\ lru' \in Seq(Tenants) /\ IsInjective(lru')
        /\ ToSet(lru') = ToSet(lru) \ {t}
    BY <1>0, Removal DEF Disconnect, ConnsTypeOK
  <1>2. /\ closing' \in [Tenants -> 0 .. MaxClosing]
        /\ t \in manager => closing'[t] > 0
        /\ \A u \in Tenants : closing[u] > 0 => closing'[u] > 0
    BY <1>0, ReleaseStarts DEF Disconnect
  <1>3. UNCHANGED <<manager, lingering, failedReleases>>
    BY DEF Disconnect
  <1>4. ConnsTypeOK'
    BY <1>0, <1>1, <1>2, <1>3 DEF ConnsTypeOK
  <1>5. OpenIsKnown'
    BY <1>0, <1>1, <1>2, <1>3 DEF OpenIsKnown, ConnsTypeOK
  <1> QED
    BY <1>4, <1>5 DEF ConnsInv

LEMMA ConnsOfRelease ==
  ASSUME ConnsInv, NEW t \in Tenants, Released(t) \/ ReleaseFails(t)
  PROVE  ConnsInv'
  <1>0. ConnsTypeOK /\ OpenIsKnown
    BY DEF ConnsInv
  <1>1. /\ closing' \in [Tenants -> 0 .. MaxClosing]
        /\ \A u \in Tenants \ {t} : closing'[u] = closing[u]
    <2>1. closing[t] - 1 \in 0 .. MaxClosing
      BY <1>0, ConnectionAssumption DEF Released, ReleaseFails, ConnsTypeOK
    <2>2. closing' = [closing EXCEPT ![t] = closing[t] - 1]
      BY DEF Released, ReleaseFails
    <2> QED
      BY <1>0, <2>1, <2>2 DEF ConnsTypeOK
  <1>2. CASE Released(t)
    BY <1>0, <1>1, <1>2 DEF Released, ConnsInv, ConnsTypeOK, OpenIsKnown
  <1>3. CASE ReleaseFails(t)
    <2>1. failedReleases' \in 0 .. MaxFailures
      BY <1>0, <1>3, ConnectionAssumption DEF ReleaseFails, ConnsTypeOK
    <2> QED
      BY <1>0, <1>1, <1>3, <2>1 DEF ReleaseFails, ConnsInv, ConnsTypeOK, OpenIsKnown
  <1> QED
    BY <1>2, <1>3

-----------------------------------------------------------------------------
(* The resolvers *)

Names == Strategies \cup Fallbacks

ChainOK == chain \in Seq(Names) \ {<< >>} /\ strategy \in Strategies

\* What a request names depends on what it came with, not on how far it is.
SameRequest(p, q) ==
  /\ p.host = q.host /\ p.header = q.header /\ p.path = q.path /\ p.data = q.data
  /\ p.plain = q.plain /\ p.ignored = q.ignored

LEMMA ResolvedOnce ==
  ASSUME NEW p, NEW q, SameRequest(p, q)
  PROVE  /\ Answering(p) = Answering(q) /\ Resolved(p) = Resolved(q)
         /\ LegacyId(p) = LegacyId(q)
  <1>1. \A name : Resolver(name, p) = Resolver(name, q)
    BY DEF SameRequest, Resolver, FromHost, FromDomain
  <1>2. LegacyId(p) = LegacyId(q)
    BY DEF SameRequest, LegacyId, FromHost
  <1>3. {i \in 1..Len(chain) : Resolver(chain[i], p) # Miss}
          = {i \in 1..Len(chain) : Resolver(chain[i], q) # Miss}
    BY <1>1
  <1>4. Answering(p) = Answering(q)
    BY <1>3 DEF Answering, SelectInSeq
  <1> QED
    BY <1>1, <1>2, <1>4 DEF Resolved

\* The two pieces of code that read a request agree where the resolver that answered
\* is the strategy's: a tenant the synchronous code finds is the one it found.
LEMMA LegacyAgrees ==
  ASSUME ChainOK, NEW q, StrategyAnswers(q), LegacyId(q) \in Tenants
  PROVE  Resolved(q).of = LegacyId(q)
  <1>1. strategy \in {"header", "subdomain", "path", "domain-or-subdomain", "request-data"}
    BY PathAssumption DEF ChainOK
  <1>2. LegacyId(q) # NoTenant
    BY PathAssumption
  <1>3. Resolved(q) = Resolver(strategy, q) /\ Resolver(strategy, q).type = "id"
    BY DEF StrategyAnswers, Resolved
  <1>4. \A id : id # NoTenant => Hit(id).of = id
    BY DEF Hit
  <1>5. CASE strategy = "header"
    BY <1>2, <1>3, <1>4, <1>5 DEF Resolver, LegacyId
  <1>6. CASE strategy = "path"
    <2>1. q.ignored = "no"
      BY <1>3, <1>6 DEF Resolver, Miss
    <2> QED
      BY <1>2, <1>3, <1>4, <1>6, <2>1 DEF Resolver, LegacyId
  <1>7. CASE strategy = "request-data"
    <2>1. ~ownKeys
      BY <1>7 DEF StrategyAnswers
    <2> QED
      BY <1>2, <1>3, <1>4, <1>7, <2>1 DEF Resolver, LegacyId
  <1>8. CASE strategy = "subdomain"
    BY <1>3, <1>8 DEF Resolver, LegacyId
  <1>9. CASE strategy = "domain-or-subdomain"
    <2>1. Resolver(strategy, q) = FromHost(q)
      BY <1>3, <1>9 DEF Resolver, FromDomain
    <2> QED
      BY <1>3, <1>9, <2>1 DEF LegacyId
  <1> QED
    BY <1>1, <1>5, <1>6, <1>7, <1>8, <1>9

-----------------------------------------------------------------------------
(* The request *)

InService == {"active", "maintenance"}

\* What a request was resolved to, stage by stage.
Named ==
  /\ req.pc \in {"domain", "resolve"} => req.hit = NoTenant /\ req.tenant = NoTenant
  /\ req.pc \in {"load", "connect"} => req.tenant = NoTenant
  /\ req.pc \in {"load", "connect", "guard"} =>
       req.hit \in Tenants /\ req.hit = Resolved(req).of
  /\ req.pc = "guard" => req.tenant = req.hit /\ req.route = "tenant"
  /\ req.pc = "handler" => req.tenant \in {NoTenant, Resolved(req).of}

\* What is in service now was so since the request came in, and so was the tenant
\* whose status was loaded as that.
Recent ==
  /\ req.pc # "idle" => \A t \in Tenants : status[t] \in InService => t \in wasOpen
  /\ req.pc \in {"connect", "guard"} /\ req.seen \in InService => req.hit \in wasOpen
  /\ req.pc = "handler" /\ req.route = "tenant" /\ req.tenant # NoTenant =>
       req.tenant \in wasOpen

\* Only the handler queries.
PathAnswers ==
  /\ req.pc \notin {"idle", "handler"} => queried = NoQuery
  /\ /\ req.pc = "handler" /\ queried.of # NoTenant /\ req.tenant # NoTenant
     /\ queried.current \/ StrategyAnswers(req)
     => queried.of = req.tenant
  /\ req.pc = "idle" => req.tenant = NoTenant

PathInv == PathTypeOK /\ OpenIsKnown /\ Named /\ Recent /\ PathAnswers

LEMMA IdleIsReq == NoRequest \in Req
  BY DEF NoRequest, Req, Ids, Hosts, Status

LEMMA TypeFacts ==
  ASSUME PathInv
  PROVE  /\ ConnsInv /\ ChainOK /\ req \in Req
         /\ NoTenant \notin Tenants /\ Junk \notin Tenants
  BY PathAssumption DEF PathInv, PathTypeOK, ConnsInv, ChainOK, Names

LEMMA PathInvInit == PathInit => PathInv
  <1> SUFFICES ASSUME PathInit PROVE PathInv
    OBVIOUS
  <1>1. ConnsInv
    BY ConnsInvInit DEF PathInit
  <1>2. chain \in Seq(Names) \ {<< >>}
    <2>1. CASE chain = <<strategy>>
      BY <2>1 DEF PathInit, Names
    <2>2. CASE chain \in SeqOf(Strategies \cup Fallbacks, MaxChain) \ {<< >>}
      <3>1. PICK m \in 0..MaxChain : chain \in [1..m -> Names]
        BY <2>2 DEF SeqOf, Names
      <3>2. chain \in Seq(Names)
        BY <3>1, PathAssumption
      <3> QED
        BY <2>2, <3>2
    <2> QED
      BY <2>1, <2>2 DEF PathInit
  <1>3. PathTypeOK
    BY <1>1, <1>2, IdleIsReq, PathAssumption DEF PathInit, PathTypeOK, ConnsInv, Names, Status, Ids, NoQuery
  <1>4. Named /\ Recent /\ PathAnswers
    BY DEF PathInit, Named, Recent, PathAnswers, NoRequest, NoQuery
  <1> QED
    BY <1>1, <1>3, <1>4 DEF PathInv, ConnsInv

\* A request whose answer is out leaves nothing behind.
LEMMA AnsweredKeeps ==
  ASSUME PathInv, Answered, Still, UNCHANGED conns
  PROVE  PathInv'
  <1> USE DEF Still, conns, settings, world
  <1>1. PathTypeOK' /\ OpenIsKnown'
    BY IdleIsReq DEF Answered, PathInv, PathTypeOK, ConnsTypeOK, OpenIsKnown
  <1>2. Named' /\ Recent' /\ PathAnswers'
    BY DEF Answered, Named, Recent, PathAnswers, NoRequest
  <1> QED
    BY <1>1, <1>2 DEF PathInv

\* What a request was resolved to stays, also while others change the world.
LEMMA ResolvedStays ==
  ASSUME SameRequest(req', req), UNCHANGED settings
  PROVE  /\ Resolved(req)' = Resolved(req)
         /\ StrategyAnswers(req)' <=> StrategyAnswers(req)
  <1> USE DEF settings
  <1>1. Resolved(req') = Resolved(req) /\ Answering(req') = Answering(req)
    BY ResolvedOnce
  <1>2. Answering(req)' = Answering(req')
    BY DEF Answering, SelectInSeq
  <1>3. Resolved(req)' = Resolved(req')
    BY <1>2 DEF Resolved
  <1> QED
    BY <1>1, <1>2, <1>3 DEF StrategyAnswers

LEMMA RequestGoesTo ==
  ASSUME PathInv, NEW pc \in {"resolve", "handler"}, Goes(pc), UNCHANGED settings
  PROVE  /\ req' \in Req /\ req'.pc = pc
         /\ req'.route = req.route /\ req'.hit = req.hit /\ req'.tenant = req.tenant
         /\ req'.seen = req.seen
         /\ Resolved(req)' = Resolved(req)
  <1>1. /\ req' \in Req /\ req'.pc = pc
        /\ req'.route = req.route /\ req'.hit = req.hit /\ req'.tenant = req.tenant
        /\ req'.seen = req.seen
        /\ SameRequest(req', req)
    BY TypeFacts DEF Goes, Req, SameRequest
  <1> QED
    BY <1>1, ResolvedStays

\* A request goes on, with the connections and everything else as they were.
LEMMA GoingOn ==
  ASSUME PathInv, Still, ConnsInv', req' \in Req, Named', Recent', PathAnswers'
  PROVE  PathInv'
  BY DEF Still, settings, world, PathInv, PathTypeOK, ConnsInv

LEMMA ConnsStay == PathInv /\ UNCHANGED conns => ConnsInv'
  BY DEF conns, PathInv, PathTypeOK, ConnsInv, ConnsTypeOK, OpenIsKnown

LEMMA TenancyKnowsOrNot == PathTypeOK => TenancyKnows \in BOOLEAN
  BY DEF PathTypeOK, TenancyKnows

LEMMA PathOfRequest ==
  ASSUME PathInv, ReqStep
  PROVE  PathInv'
  <1> USE DEF settings, world
  <1>0. /\ ConnsInv /\ ChainOK /\ req \in Req
        /\ NoTenant \notin Tenants /\ Junk \notin Tenants
        /\ Named /\ Recent /\ PathAnswers
    BY TypeFacts DEF PathInv
  <1>1. CASE CustomDomain
    <2>1. Still /\ UNCHANGED conns /\ req.pc = "domain"
      BY <1>1 DEF CustomDomain
    <2>2. CASE Answered
      BY <2>1, <2>2, AnsweredKeeps
    <2>3. CASE ~Answered
      <3>1. \/ Goes("resolve")
            \/ req' = [req EXCEPT !.pc = "resolve", !.header = req.host.of]
        BY <1>1, <2>3 DEF CustomDomain
      <3>2. req.host.of \in Ids
        BY <1>0 DEF Req, Hosts, Ids
      <3>3. /\ req' \in Req /\ req'.pc = "resolve"
            /\ req'.hit = req.hit /\ req'.tenant = req.tenant
        BY <1>0, <3>1, <3>2 DEF Req, Goes
      <3>4. Named' /\ Recent' /\ PathAnswers'
        BY <1>0, <2>1, <3>3 DEF Still, Named, Recent, PathAnswers
      <3> QED
        BY <2>1, <3>3, <3>4, ConnsStay, GoingOn
    <2> QED
      BY <2>2, <2>3
  <1>2. CASE Resolves
    <2>1. Still /\ UNCHANGED conns /\ req.pc = "resolve"
      BY <1>2 DEF Resolves
    <2>2. CASE Answered
      BY <2>1, <2>2, AnsweredKeeps
    <2>3. CASE req.route = "universal" /\ Goes("handler")
      <3>1. Named' /\ Recent' /\ PathAnswers' /\ req' \in Req
        BY <1>0, <2>1, <2>3, RequestGoesTo DEF Still, Named, Recent, PathAnswers
      <3> QED
        BY <2>1, <3>1, ConnsStay, GoingOn
    <2>4. CASE /\ Resolved(req).of \in Tenants
               /\ req' = [req EXCEPT !.pc = "load", !.hit = Resolved(req).of]
      <3>1. /\ req' \in Req /\ req'.pc = "load" /\ req'.hit = Resolved(req).of
            /\ req'.tenant = req.tenant /\ SameRequest(req', req)
        BY <1>0, <2>4 DEF Req, Ids, SameRequest
      <3>2. Resolved(req)' = Resolved(req)
        BY <2>1, <3>1, ResolvedStays DEF Still
      <3>3. Named' /\ Recent' /\ PathAnswers'
        BY <1>0, <2>1, <2>4, <3>1, <3>2 DEF Still, Named, Recent, PathAnswers
      <3> QED
        BY <2>1, <3>1, <3>3, ConnsStay, GoingOn
    <2> QED
      BY <1>2, <2>2, <2>3, <2>4 DEF Resolves
  <1>10. CASE Ignores
    <2>1. Still /\ UNCHANGED conns /\ req.pc = "resolve" /\ Goes("handler")
      BY <1>10 DEF Ignores
    <2>2. Named' /\ Recent' /\ PathAnswers' /\ req' \in Req
      BY <1>0, <2>1, RequestGoesTo DEF Still, Named, Recent, PathAnswers, NoQuery
    <2> QED
      BY <2>1, <2>2, ConnsStay, GoingOn
  <1>3. CASE CentralOnly
    <2>1. Still /\ UNCHANGED conns /\ req.pc = "resolve" /\ req.route = "central"
      BY <1>3 DEF CentralOnly
    <2>2. CASE Answered
      BY <2>1, <2>2, AnsweredKeeps
    <2>3. CASE Goes("handler")
      <3>1. Named' /\ Recent' /\ PathAnswers' /\ req' \in Req
        BY <1>0, <2>1, <2>3, RequestGoesTo DEF Still, Named, Recent, PathAnswers
      <3> QED
        BY <2>1, <3>1, ConnsStay, GoingOn
    <2> QED
      BY <1>3, <2>2, <2>3 DEF CentralOnly
  <1>4. CASE Loads
    <2>1. Still /\ UNCHANGED conns /\ req.pc = "load"
      BY <1>4 DEF Loads
    <2>2. CASE Answered
      BY <2>1, <2>2, AnsweredKeeps
    <2>3. CASE req.route = "universal" /\ Goes("handler")
      <3>1. Named' /\ Recent' /\ PathAnswers' /\ req' \in Req
        BY <1>0, <2>1, <2>3, RequestGoesTo DEF Still, Named, Recent, PathAnswers
      <3> QED
        BY <2>1, <3>1, ConnsStay, GoingOn
    <2>4. CASE req' = [req EXCEPT !.pc = "connect", !.seen = status[req.hit]]
      <3>1. req.hit \in Tenants /\ status[req.hit] \in Status
        BY <1>0, <2>1 DEF Named, PathInv, PathTypeOK
      <3>2. /\ req' \in Req /\ req'.pc = "connect" /\ req'.hit = req.hit
            /\ req'.seen = status[req.hit]
            /\ req'.tenant = req.tenant /\ SameRequest(req', req)
        BY <1>0, <2>4, <3>1 DEF Req, SameRequest
      <3>3. Resolved(req)' = Resolved(req)
        BY <2>1, <3>2, ResolvedStays DEF Still
      <3>4. Named' /\ Recent' /\ PathAnswers'
        BY <1>0, <2>1, <3>1, <3>2, <3>3 DEF Still, Named, Recent, PathAnswers
      <3> QED
        BY <2>1, <3>2, <3>4, ConnsStay, GoingOn
    <2> QED
      BY <1>4, <2>2, <2>3, <2>4 DEF Loads
  <1>5. CASE Degrades
    <2>1. Still /\ UNCHANGED conns /\ req.pc = "connect" /\ req.route = "universal"
      BY <1>5 DEF Degrades
    <2>2. Named' /\ Recent' /\ PathAnswers' /\ req' \in Req
      BY <1>0, <1>5, <2>1, RequestGoesTo DEF Degrades, Still, Named, Recent, PathAnswers
    <2> QED
      BY <2>1, <2>2, ConnsStay, GoingOn
  <1>6. CASE Connects
    <2>1. Still /\ req.pc = "connect" /\ req.hit \in Tenants /\ Connect(req.hit)
      BY <1>0, <1>6 DEF Connects, Named
    <2>2. ConnsInv'
      BY <1>0, <2>1, ConnsOfConnect
    <2>3. /\ req' \in Req /\ req'.hit = req.hit /\ req'.tenant = req.hit
          /\ req'.pc = IF req.route = "tenant" THEN "guard" ELSE "handler"
          /\ req'.route = req.route /\ req'.seen = req.seen /\ SameRequest(req', req)
      BY <1>0, <1>6, <2>1 DEF Connects, Req, SameRequest
    <2>4. Resolved(req)' = Resolved(req)
      BY <2>1, <2>3, ResolvedStays DEF Still
    <2>5. Named' /\ Recent' /\ PathAnswers'
      BY <1>0, <2>1, <2>3, <2>4 DEF Still, Named, Recent, PathAnswers, NoQuery
    <2> QED
      BY <2>1, <2>2, <2>3, <2>5, GoingOn
  <1>7. CASE Guards
    <2>1. Still /\ UNCHANGED conns /\ req.pc = "guard"
      BY <1>7 DEF Guards
    <2>2. CASE Answered
      BY <2>1, <2>2, AnsweredKeeps
    <2>3. CASE ~Answered
      <3>1. Goes("handler") /\ req.seen \in InService
        BY <1>7, <2>3 DEF Guards, MayEnter, InService
      <3>2. Named' /\ Recent' /\ PathAnswers' /\ req' \in Req
        BY <1>0, <2>1, <3>1, RequestGoesTo DEF Still, Named, Recent, PathAnswers, NoQuery
      <3> QED
        BY <2>1, <3>2, ConnsStay, GoingOn
    <2> QED
      BY <2>2, <2>3
  <1>8. CASE Queries
    <2>1. /\ req.pc = "handler" /\ QueryId \in Tenants
          /\ queried' = [of |-> QueryId, current |-> TenancyKnows]
          /\ UNCHANGED <<conns, settings, world, req, wasOpen>>
      BY <1>0, <1>8 DEF Queries, ConnsInv, ConnsTypeOK
    <2>2. req.tenant # NoTenant /\ (TenancyKnows \/ StrategyAnswers(req)) => QueryId = req.tenant
      <3>1. CASE TenancyKnows
        BY <3>1 DEF QueryId
      <3>2. CASE ~TenancyKnows
        BY <1>0, <2>1, <3>2, LegacyAgrees DEF QueryId, Named
      <3> QED
        BY <3>1, <3>2
    <2>3. ConnsInv'
      BY <2>1, ConnsStay
    <2>4. PathTypeOK'
      BY <2>1, <2>3, TenancyKnowsOrNot DEF PathInv, PathTypeOK, ConnsInv, Ids
    <2>5. Resolved(req)' = Resolved(req) /\ (StrategyAnswers(req)' <=> StrategyAnswers(req))
      BY <2>1, ResolvedStays DEF SameRequest
    <2>6. Named' /\ Recent'
      BY <1>0, <2>1, <2>5 DEF Named, Recent
    <2>7. PathAnswers'
      BY <1>0, <2>1, <2>2, <2>5 DEF PathAnswers
    <2> QED
      BY <2>3, <2>4, <2>6, <2>7 DEF PathInv, ConnsInv
  <1>9. CASE RequestEnds
    BY <1>9, AnsweredKeeps DEF RequestEnds
  <1> QED
    BY <1>1, <1>2, <1>3, <1>4, <1>5, <1>6, <1>7, <1>8, <1>9, <1>10 DEF ReqStep

LEMMA PathOfArrival ==
  ASSUME PathInv, NEW route \in {"tenant", "universal", "central"}, NEW host \in Hosts,
         NEW header \in Ids, Arrives(route, host, header)
  PROVE  PathInv'
  <1> USE DEF settings, world
  <1>1. /\ req' \in Req /\ req'.pc = "domain" /\ req'.hit = NoTenant /\ req'.tenant = NoTenant
    <2>1. PICK path \in Ids, data \in Ids, plain \in Ids, ignored \in {"no", "prefix", "path"} :
            req' = [NoRequest EXCEPT !.pc = "domain", !.route = route, !.host = host,
                                !.header = header, !.path = path, !.data = data,
                                !.plain = plain, !.ignored = ignored]
      BY DEF Arrives
    <2> QED
      BY <2>1, IdleIsReq DEF NoRequest, Req
  <1>2. /\ wasOpen' = {t \in Tenants : status[t] \in InService} /\ queried' = NoQuery
        /\ UNCHANGED <<conns, settings, status, circuit, cached, turns>>
    BY DEF Arrives, InService
  <1>3. arrived' \in 0 .. MaxRequests
    BY PathAssumption DEF Arrives, PathInv, PathTypeOK
  <1>4. ConnsInv'
    BY <1>2, ConnsStay
  <1>5. PathTypeOK'
    BY <1>1, <1>2, <1>3, <1>4 DEF PathInv, PathTypeOK, ConnsInv, Ids, NoQuery
  <1>6. Named' /\ Recent' /\ PathAnswers'
    BY <1>1, <1>2 DEF Named, Recent, PathAnswers
  <1> QED
    BY <1>4, <1>5, <1>6 DEF PathInv, ConnsInv

\* Others change tenants, circuits and connections under a request that waits: it
\* stays what it was, and a tenant that comes into service is noted.
LEMMA PathOfOthers ==
  ASSUME PathInv, UNCHANGED <<settings, req, queried>>, ConnsInv', PathTypeOK',
         wasOpen \subseteq wasOpen',
         \A t \in Tenants : status'[t] \in InService => status'[t] = status[t] \/ t \in wasOpen'
  PROVE  PathInv'
  <1>1. Resolved(req)' = Resolved(req) /\ (StrategyAnswers(req)' <=> StrategyAnswers(req))
    BY ResolvedStays DEF SameRequest, settings
  <1>2. Named' /\ Recent' /\ PathAnswers'
    BY <1>1 DEF PathInv, Named, Recent, PathAnswers
  <1> QED
    BY <1>2 DEF PathInv, ConnsInv

LEMMA PathStep == PathInv /\ [PathNext]_pathVars => PathInv'
  <1> SUFFICES ASSUME PathInv, [PathNext]_pathVars PROVE PathInv'
    OBVIOUS
  <1> USE DEF settings, world
  <1>0. PathTypeOK /\ ConnsInv
    BY DEF PathInv, ConnsInv, PathTypeOK
  <1>1. CASE UNCHANGED pathVars
    <2>1. ConnsInv' /\ PathTypeOK'
      BY <1>0, <1>1, ConnsStay DEF pathVars, PathTypeOK, ConnsInv
    <2> QED
      BY <1>1, <2>1, PathOfOthers DEF pathVars
  <1>2. ASSUME NEW t \in Tenants, NEW s \in Status, TenantTurns(t, s) PROVE PathInv'
    <2>1. ConnsInv'
      BY <1>2, ConnsStay DEF TenantTurns
    <2>2. turns' \in 0 .. MaxTurns
      BY <1>0, <1>2, PathAssumption DEF TenantTurns, PathTypeOK
    <2>3. PathTypeOK'
      BY <1>0, <1>2, <2>1, <2>2 DEF TenantTurns, PathTypeOK, ConnsInv
    <2>4. \A u \in Tenants : status'[u] \in InService => status'[u] = status[u] \/ u \in wasOpen'
      BY <1>0, <1>2 DEF TenantTurns, PathTypeOK, InService
    <2>5. UNCHANGED <<settings, req, queried>> /\ wasOpen \subseteq wasOpen'
      BY <1>2 DEF TenantTurns
    <2> QED
      BY <2>1, <2>3, <2>4, <2>5, PathOfOthers
  <1>3. ASSUME NEW t \in Tenants, CircuitTurns(t) PROVE PathInv'
    <2>1. ConnsInv'
      BY <1>3, ConnsStay DEF CircuitTurns
    <2>2. turns' \in 0 .. MaxTurns
      BY <1>0, <1>3, PathAssumption DEF CircuitTurns, PathTypeOK
    <2>3. PathTypeOK'
      BY <1>0, <1>3, <2>1, <2>2 DEF CircuitTurns, PathTypeOK, ConnsInv
    <2> QED
      BY <1>3, <2>1, <2>3, PathOfOthers DEF CircuitTurns
  <1>4. ASSUME NEW t \in Tenants, OthersConnect(t) PROVE PathInv'
    <2>1. ConnsInv'
      BY <1>0, <1>4, ConnsOfConnect, ConnsOfDisconnect DEF OthersConnect
    <2>2. turns' \in 0 .. MaxTurns
      BY <1>0, <1>4, PathAssumption DEF OthersConnect, PathTypeOK
    <2>3. PathTypeOK'
      BY <1>0, <1>4, <2>1, <2>2 DEF OthersConnect, PathTypeOK, ConnsInv
    <2> QED
      BY <1>4, <2>1, <2>3, PathOfOthers DEF OthersConnect
  <1>5. ASSUME NEW t \in Tenants, ReleaseEnds(t) PROVE PathInv'
    <2>1. ConnsInv'
      BY <1>0, <1>5, ConnsOfRelease DEF ReleaseEnds
    <2>2. PathTypeOK'
      BY <1>0, <1>5, <2>1 DEF ReleaseEnds, PathTypeOK, ConnsInv
    <2> QED
      BY <1>5, <2>1, <2>2, PathOfOthers DEF ReleaseEnds
  <1>6. CASE FirstRun
    <2>1. ConnsInv'
      BY <1>6, ConnsStay DEF FirstRun
    <2>2. PathTypeOK'
      BY <1>0, <1>6, <2>1 DEF FirstRun, PathTypeOK, ConnsInv
    <2> QED
      BY <1>6, <2>1, <2>2, PathOfOthers DEF FirstRun
  <1> QED
    BY <1>1, <1>2, <1>3, <1>4, <1>5, <1>6, PathOfArrival, PathOfRequest DEF PathNext

\* Type correctness of the path of a request, the order of eviction included: it
\* never holds a connection twice.
THEOREM PathTypes == PathSpec => []PathTypeOK
  <1>1. PathInv => PathTypeOK
    BY DEF PathInv
  <1> QED
    BY <1>1, PathInvInit, PathStep, PTL DEF PathSpec

\* No connection is forgotten, however connects, evictions and releases cross: what
\* the manager has open can be evicted, is being released, or its release failed.
THEOREM NoConnectionIsForgotten == PathSpec => []OpenIsKnown
  <1>1. PathInv => OpenIsKnown
    BY DEF PathInv
  <1> QED
    BY <1>1, PathInvInit, PathStep, PTL DEF PathSpec

\* A request let in as one tenant's never queries the connection of another, for every
\* strategy, every chain of resolvers and every key they are given, though the adapter
\* resolves the tenant by other code; excepted is what ServesItsTenant excepts: before
\* tenancy.run() was ever called, an answer that was not the strategy's. And on a tenant
\* route the tenant was in service since the request came in.
THEOREM EveryRequestServesItsTenant == PathSpec => []ServesItsTenant
  <1>1. PathInv => ServesItsTenant
    BY DEF PathInv, Recent, PathAnswers, NoQuery, ServesItsTenant
  <1> QED
    BY <1>1, PathInvInit, PathStep, PTL DEF PathSpec

=============================================================================
