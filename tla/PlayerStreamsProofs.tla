------------------------- MODULE PlayerStreamsProofs -------------------------
(***************************************************************************)
(* Proofs about PlayerStreams for any number of accounts, connections and  *)
(* generations.                                                            *)
(***************************************************************************)
EXTENDS PlayerStreams, FiniteSetTheorems, TLAPS

\* A superseded slot is one whose lease is still somebody's to end.
SupersededAreLeased == \A c \in superseded : pc[c] \in Leased

IInv == TypeOK /\ SupersededAreLeased /\ RegistryIsExact

-----------------------------------------------------------------------------
\* An account whose approval is given or taken away, or whose window has passed, is an account.
LEMMA Barred ==
  ASSUME account \in [Users -> Account], NEW u \in Users
  PROVE  [account EXCEPT ![u].approved = FALSE] \in [Users -> Account]
<1>1. account[u] \in Account
  OBVIOUS
<1>2. [account[u] EXCEPT !.approved = FALSE] \in Account
  BY <1>1 DEF Account
<1>3. [account EXCEPT ![u].approved = FALSE]
      = [account EXCEPT ![u] = [account[u] EXCEPT !.approved = FALSE]]
  OBVIOUS
<1> QED BY <1>2, <1>3

LEMMA Approved ==
  ASSUME account \in [Users -> Account], NEW u \in Users
  PROVE  [account EXCEPT ![u].approved = TRUE] \in [Users -> Account]
<1>1. account[u] \in Account
  OBVIOUS
<1>2. [account[u] EXCEPT !.approved = TRUE] \in Account
  BY <1>1 DEF Account
<1>3. [account EXCEPT ![u].approved = TRUE]
      = [account EXCEPT ![u] = [account[u] EXCEPT !.approved = TRUE]]
  OBVIOUS
<1> QED BY <1>2, <1>3

LEMMA Staled ==
  ASSUME account \in [Users -> Account], NEW u \in Users
  PROVE  [account EXCEPT ![u].fresh = FALSE] \in [Users -> Account]
<1>1. account[u] \in Account
  OBVIOUS
<1>2. [account[u] EXCEPT !.fresh = FALSE] \in Account
  BY <1>1 DEF Account
<1>3. [account EXCEPT ![u].fresh = FALSE]
      = [account EXCEPT ![u] = [account[u] EXCEPT !.fresh = FALSE]]
  OBVIOUS
<1> QED BY <1>2, <1>3

\* A change that is committed leaves a row of the table, and its request is counted.
LEMMA CommitsType ==
  ASSUME TypeOK, NEW u \in Users, NEW a \in Account, Commits(u, a)
  PROVE  TypeOK'
<1> USE Bounds DEF TypeOK
<1>1. refreshing[u] \in 0..MaxPending /\ revokes[u] \in 0..MaxPending
  OBVIOUS
<1>2. PICK d \in {0, 1} : d = IF deletion[u] = "committed" THEN 1 ELSE 0
  OBVIOUS
<1>3. refreshing[u] + revokes[u] + d < MaxPending
  BY <1>2 DEF Commits, Room
<1>4. refreshing[u] + 1 \in 0..MaxPending
  BY <1>1, <1>3
<1>5. refreshing' \in [Users -> 0..MaxPending]
  BY <1>4 DEF Commits
<1>6. account' \in [Users -> Account]
  BY DEF Commits
<1>7. UNCHANGED <<deletion, revokes, connVars, up>>
  BY DEF Commits
<1> QED
  BY <1>5, <1>6, <1>7 DEF connVars

\* An order moves one request's change to the event loop.
LEMMA OrderType ==
  ASSUME TypeOK, NEW u \in Users, OrderRevocation(u)
  PROVE  TypeOK'
<1> USE Bounds DEF TypeOK
<1>1. revokes[u] + 1 \in 0..MaxPending
  BY DEF OrderRevocation
<1>2. revokes' \in [Users -> 0..MaxPending]
  BY <1>1 DEF OrderRevocation
<1>3. refreshing' \in [Users -> 0..MaxPending]
  BY DEF OrderRevocation
<1>4. deletion' \in [Users -> {"none", "committed", "done"}]
  BY DEF OrderRevocation
<1>5. UNCHANGED <<account, connVars, up>>
  BY DEF OrderRevocation
<1> QED
  BY <1>2, <1>3, <1>4, <1>5 DEF connVars

\* Every step keeps the types: in particular a timer is armed only for a
\* superseded lease, and nobody but a connection is in the registry.
LEMMA TypeStep == TypeOK /\ [Next]_vars => TypeOK'
<1> SUFFICES ASSUME TypeOK, [Next]_vars PROVE TypeOK'
  OBVIOUS
<1> USE UsersFinite, NoConnNew, Bounds DEF TypeOK, rowVars
<1>1. CASE Stop
  <2>1. /\ registry' \in [Keys -> Conns \union {NoConn}] /\ up' \in BOOLEAN
        /\ \A k \in Held : registry[k] \in Conns
    BY <1>1 DEF Stop, Held
  <2>2. superseded' \subseteq Conns /\ timer' \subseteq superseded'
    BY <1>1, <2>1 DEF Stop, Supersede
  <2> QED BY <1>1, <2>1, <2>2 DEF Stop
<1>2. ASSUME NEW u \in Users, AccountStep(u) PROVE TypeOK'
  <2>1. ASSUME NEW a \in Account, Commits(u, a) PROVE TypeOK'
    BY <2>1, CommitsType
  <2>2. CASE Regenerate(u)
    <3>1. account[u] \in Account /\ account[u].gen < MaxGen
      BY <2>2 DEF Regenerate
    <3>2. [gen |-> account[u].gen + 1, approved |-> account[u].approved, fresh |-> TRUE]
          \in Account
      BY <3>1 DEF Account
    <3> QED
      BY <2>1, <2>2, <3>2 DEF Regenerate
  <2>3. CASE Disable(u) \/ ChangeRole(u)
    <3>1. account[u] \in Account
      OBVIOUS
    <3>2. [gen |-> account[u].gen, approved |-> FALSE, fresh |-> account[u].fresh] \in Account
      BY <3>1 DEF Account
    <3> QED
      BY <2>1, <2>3, <3>1, <3>2 DEF Disable, ChangeRole
  <2>4. CASE Delete(u)
    <3>1. account' \in [Users -> Account]
      BY <2>4, Barred DEF Delete
    <3>2. deletion' \in [Users -> {"none", "committed", "done"}]
      BY <2>4 DEF Delete
    <3>3. UNCHANGED <<refreshing, revokes, connVars, up>>
      BY <2>4 DEF Delete
    <3> QED
      BY <3>1, <3>2, <3>3 DEF connVars
  <2>5. CASE OrderRevocation(u)
    BY <2>5, OrderType
  <2>6. CASE RefreshFails(u)
    BY <2>6 DEF RefreshFails
  <2>7. CASE Approve(u)
    <3>1. account' \in [Users -> Account]
      BY <2>7, Approved DEF Approve
    <3>2. UNCHANGED <<refreshing, deletion, revokes, connVars, up>>
      BY <2>7 DEF Approve
    <3> QED BY <3>1, <3>2 DEF connVars
  <2>8. CASE WindowPasses(u)
    <3>1. account' \in [Users -> Account]
      BY <2>8, Staled DEF WindowPasses
    <3>2. UNCHANGED <<refreshing, deletion, revokes, connVars, up>>
      BY <2>8 DEF WindowPasses
    <3> QED BY <3>1, <3>2 DEF connVars
  <2>9. CASE RunRevoke(u)
    BY <2>9 DEF RunRevoke, Supersede, Held, rowVars
  <2> QED
    BY <1>2, <2>2, <2>3, <2>4, <2>5, <2>6, <2>7, <2>8, <2>9 DEF AccountStep
<1>3. ASSUME NEW c \in Conns, ConnStep(c) PROVE TypeOK'
  <2>1. ASSUME NEW k \in Keys, Request(c, k) PROVE TypeOK'
    BY <2>1 DEF Request, GoTo, PcValues
  <2>2. CASE Resolve(c) \/ Open(c) \/ Attach(c)
    BY <2>2 DEF Resolve, Open, Attach, GoTo, PcValues, Leased
  <2>3. CASE Refuse(c) \/ CapacityRefuse(c)
    BY <2>3 DEF Refuse, CapacityRefuse, Refused, PcValues
  <2>4. CASE Activate(c)
    BY <2>4 DEF Activate, Supersede, PcValues, Leased
  <2>5. CASE AttachFails(c) \/ Release(c)
    BY <2>5 DEF AttachFails, Release, Released, PcValues
  <2>6. CASE ChunkSent(c) \/ ChunkReceived(c) \/ StopAfterSend(c) \/ StopReceiving(c)
    BY <2>6 DEF ChunkSent, ChunkReceived, StopAfterSend, StopReceiving, GoTo, PcValues, Leased
  <2>7. CASE FanoutCloses(c) \/ WatcherCancels(c)
    BY <2>7 DEF FanoutCloses, WatcherCancels, GoTo, PcValues, Leased
  <2>8. CASE ForceCancel(c)
    BY <2>8 DEF ForceCancel, PcValues, Leased
  <2> QED
    BY <1>3, <2>1, <2>2, <2>3, <2>4, <2>5, <2>6, <2>7, <2>8 DEF ConnStep
<1>4. CASE UNCHANGED vars
  BY <1>4 DEF vars
<1> QED
  BY <1>1, <1>2, <1>3, <1>4 DEF Next

-----------------------------------------------------------------------------
\* Of the steps of an account's changes only the revocation itself touches a connection.
LEMMA RowStepsKeep ==
  ASSUME NEW u \in Users, AccountStep(u), ~RunRevoke(u)
  PROVE  UNCHANGED <<registry, pc, key, superseded, timer, dropped, up>>
BY DEF AccountStep, Regenerate, Disable, ChangeRole, Commits, Delete, OrderRevocation,
       RefreshFails, Approve, WindowPasses, connVars

\* No step breaks the exactness of the registry.  A lease that leaves the registry
\* is superseded in the same step or released; a slot enters the registry when it
\* gets its lease, and no superseded mark is left over from its last request.
LEMMA ExactStep == IInv /\ [Next]_vars => IInv'
<1> SUFFICES ASSUME IInv, [Next]_vars PROVE IInv'
  OBVIOUS
<1>0. TypeOK'
  BY TypeStep DEF IInv
<1> SUFFICES (SupersededAreLeased /\ RegistryIsExact)'
  BY <1>0 DEF IInv
<1> USE NoConnNew DEF IInv, TypeOK, SupersededAreLeased, RegistryIsExact
<1>1. CASE Stop
  BY <1>1 DEF Stop, Supersede, Held
<1>2. ASSUME NEW u \in Users, AccountStep(u)
      PROVE  (SupersededAreLeased /\ RegistryIsExact)'
  <2>1. CASE RunRevoke(u)
    BY <2>1 DEF RunRevoke, Supersede, Held
  <2>2. CASE ~RunRevoke(u)
    BY <1>2, <2>2, RowStepsKeep
  <2> QED
    BY <2>1, <2>2
<1>3. ASSUME NEW c \in Conns, ConnStep(c)
      PROVE  (SupersededAreLeased /\ RegistryIsExact)'
  <2>1. ASSUME NEW k \in Keys, Request(c, k)
        PROVE  (SupersededAreLeased /\ RegistryIsExact)'
    BY <2>1 DEF Request, GoTo, Leased
  <2>2. CASE Resolve(c) \/ Open(c) \/ Attach(c)
    BY <2>2 DEF Resolve, Open, Attach, GoTo, Leased
  <2>3. CASE Refuse(c) \/ CapacityRefuse(c)
    BY <2>3 DEF Refuse, CapacityRefuse, Refused, Leased
  <2>4. CASE Activate(c)
    BY <2>4 DEF Activate, Supersede, Leased
  <2>5. CASE AttachFails(c) \/ Release(c)
    BY <2>5 DEF AttachFails, Release, Released, Leased
  <2>6. CASE ChunkSent(c) \/ ChunkReceived(c) \/ StopAfterSend(c) \/ StopReceiving(c)
    BY <2>6 DEF ChunkSent, ChunkReceived, StopAfterSend, StopReceiving, GoTo, Leased
  <2>7. CASE FanoutCloses(c) \/ WatcherCancels(c)
    BY <2>7 DEF FanoutCloses, WatcherCancels, GoTo, Leased, Streaming
  <2>8. CASE ForceCancel(c)
    BY <2>8 DEF ForceCancel, Leased, Streaming
  <2> QED
    BY <1>3, <2>1, <2>2, <2>3, <2>4, <2>5, <2>6, <2>7, <2>8 DEF ConnStep
<1>4. CASE UNCHANGED vars
  BY <1>4 DEF vars
<1> QED
  BY <1>1, <1>2, <1>3, <1>4 DEF Next

LEMMA InitIInv == Init => IInv
  BY NoConnNew, Bounds
  DEF Init, IInv, TypeOK, SupersededAreLeased, RegistryIsExact, Account, PcValues, Leased

\* In every reachable state the registry, the leases, their timers and their subscriptions
\* belong together as IInv says.
THEOREM Exactness == Safety => []IInv
<1> QED
  BY InitIInv, ExactStep, PTL DEF Safety

\* Types are kept.
THEOREM TypeCorrect == Safety => []TypeOK
<1>1. IInv => TypeOK
  BY DEF IInv
<1> QED
  BY <1>1, Exactness, PTL

\* The registry never disagrees with the connections that run.
THEOREM RegistryAlwaysExact == Safety => []RegistryIsExact
<1>1. IInv => RegistryIsExact
  BY DEF IInv
<1> QED
  BY <1>1, Exactness, PTL

\* Two undisturbed connections never play on the same key.
THEOREM AtMostOneStream == Safety => []OneStreamPerKey
<1>1. IInv => OneStreamPerKey
  BY DEF IInv, TypeOK, RegistryIsExact, OneStreamPerKey
<1> QED
  BY <1>1, Exactness, PTL
-----------------------------------------------------------------------------
\* What may keep an outdated key playing.
Excused(c) ==
  refreshing[Owner(key[c])] > 0 \/ Coming(Owner(key[c])) \/ c \in missed

\* What the check of the key leaves true: as long as a request is on its way or plays, its
\* key is the account's, or a request that changed the account has not ordered its revocation
\* yet, or the revocation is on its way or has missed it.
CheckedKeys ==
  \A c \in Conns :
    (Opening(c) \/ pc[c] \in Leased) /\ c \notin superseded /\ Outdated(key[c])
      => Excused(c)

LEMMA CheckedStep == IInv /\ CheckedKeys /\ [Next]_vars => CheckedKeys'
<1> SUFFICES ASSUME IInv, CheckedKeys, [Next]_vars,
                    NEW c \in Conns, (Opening(c) \/ pc[c] \in Leased)', c \notin superseded',
                    Outdated(key[c])'
             PROVE  Excused(c)'
  BY DEF CheckedKeys, Excused
<1> USE DEF IInv, TypeOK, Keys, Owner, Generation
<1>1. CASE Stop
  BY <1>1 DEF Stop, Supersede, CheckedKeys, Excused, Coming, rowVars, Opening, Outdated
<1>2. ASSUME NEW u \in Users, AccountStep(u)
      PROVE  Excused(c)'
  <2>1. CASE RunRevoke(u)
    <3>1. key' = key /\ pc' = pc /\ account' = account
      BY <2>1 DEF RunRevoke, rowVars
    <3>2. CASE Owner(key[c]) # u
      BY <2>1, <3>1, <3>2 DEF RunRevoke, Supersede, CheckedKeys, Excused, Coming, rowVars, Opening, Outdated
    <3>3. CASE Owner(key[c]) = u /\ Opening(c)
      BY <2>1, <3>1, <3>3 DEF RunRevoke, Excused
    <3>4. CASE Owner(key[c]) = u /\ pc[c] \in Leased
      <4>1. c \notin superseded
        BY <2>1 DEF RunRevoke, Supersede
      <4>2. registry[key[c]] = c
        BY <3>4, <4>1 DEF RegistryIsExact
      <4>3. c \in superseded'
        BY <2>1, <3>4, <4>2, NoConnNew DEF RunRevoke, Supersede, Held
      <4> QED
        BY <4>3
    <3> QED
      BY <3>1, <3>2, <3>3, <3>4 DEF Opening
  <2>2. ASSUME NEW a \in Account, Commits(u, a) PROVE Excused(c)'
    <3>1. CASE Owner(key[c]) = u
      BY <2>2, <3>1 DEF Commits, connVars, Excused
    <3>2. CASE Owner(key[c]) # u
      BY <2>2, <3>2 DEF Commits, connVars, CheckedKeys, Excused, Coming, Opening, Outdated
    <3> QED
      BY <3>1, <3>2
  <2>3. CASE Regenerate(u) \/ Disable(u) \/ ChangeRole(u)
    <3>1. PICK a : Commits(u, a)
      BY <2>3 DEF Regenerate, Disable, ChangeRole
    <3>2. refreshing'[u] = refreshing[u] + 1 /\ UNCHANGED <<deletion, revokes, connVars, up>>
      BY <3>1 DEF Commits
    <3>3. CASE Owner(key[c]) = u
      BY <3>2, <3>3 DEF connVars, Excused
    <3>4. CASE Owner(key[c]) # u
      BY <3>1, <3>4 DEF Commits, connVars, CheckedKeys, Excused, Coming, Opening, Outdated
    <3> QED
      BY <3>3, <3>4
  <2>4. CASE Delete(u)
    BY <2>4 DEF Delete, connVars, CheckedKeys, Excused, Coming, Opening, Outdated, Account
  <2>5. CASE OrderRevocation(u)
    <3>1. account' = account /\ revokes'[u] > 0 /\ UNCHANGED connVars
      BY <2>5 DEF OrderRevocation
    <3>2. CASE Owner(key[c]) = u
      BY <3>1, <3>2 DEF connVars, Excused, Coming
    <3>3. CASE Owner(key[c]) # u
      BY <2>5, <3>1, <3>3
      DEF OrderRevocation, connVars, CheckedKeys, Excused, Coming, Opening, Outdated
    <3> QED
      BY <3>2, <3>3
  <2>6. CASE RefreshFails(u)
    BY <2>6 DEF RefreshFails, CheckedKeys, Excused, Coming, Opening, Outdated
  <2>7. CASE Approve(u)
    BY <2>7 DEF Approve, connVars, CheckedKeys, Excused, Coming, Opening, Outdated, Account
  <2>8. CASE WindowPasses(u)
    BY <2>8 DEF WindowPasses, connVars, CheckedKeys, Excused, Coming, Opening, Outdated, Account
  <2> QED
    BY <1>2, <2>1, <2>3, <2>4, <2>5, <2>6, <2>7, <2>8 DEF AccountStep
<1>3. ASSUME NEW d \in Conns, ConnStep(d)
      PROVE  Excused(c)'
  <2>1. ASSUME NEW k \in Keys, Request(d, k)
        PROVE  Excused(c)'
    BY <2>1 DEF Request, GoTo, CheckedKeys, Excused, Coming, rowVars,
       Opening, Outdated, Leased
  <2>2. CASE Resolve(d)
    BY <2>2 DEF Resolve, GoTo, Valid, CheckedKeys, Excused, Coming, rowVars,
       Opening, Outdated, Leased
  <2>3. CASE Open(d) \/ Attach(d)
    BY <2>3 DEF Open, Attach, GoTo, CheckedKeys, Excused, Coming, rowVars,
       Opening, Outdated, Leased
  <2>4. CASE Refuse(d) \/ CapacityRefuse(d)
    BY <2>4 DEF Refuse, CapacityRefuse, Refused, CheckedKeys, Excused, Coming, rowVars,
       Opening, Outdated, Leased
  <2>5. CASE Activate(d)
    BY <2>5 DEF Activate, Supersede, CheckedKeys, Excused, Coming, rowVars,
       Opening, Outdated, Leased
  <2>6. CASE AttachFails(d) \/ Release(d)
    BY <2>6 DEF AttachFails, Release, Released, CheckedKeys, Excused, Coming, rowVars,
       Opening, Outdated, Leased,
       SupersededAreLeased
  <2>7. CASE ChunkSent(d) \/ ChunkReceived(d) \/ StopAfterSend(d) \/ StopReceiving(d)
    BY <2>7 DEF ChunkSent, ChunkReceived, StopAfterSend, StopReceiving, GoTo, CheckedKeys, Excused, Coming, rowVars,
       Opening, Outdated, Leased
  <2>8. CASE FanoutCloses(d) \/ WatcherCancels(d)
    BY <2>8 DEF FanoutCloses, WatcherCancels, GoTo, CheckedKeys, Excused, Coming, rowVars,
       Opening, Outdated, Leased,
       Streaming
  <2>9. CASE ForceCancel(d)
    BY <2>9 DEF ForceCancel, CheckedKeys, Excused, Coming, rowVars,
       Opening, Outdated, Leased, Streaming
  <2> QED
    BY <1>3, <2>1, <2>2, <2>3, <2>4, <2>5, <2>6, <2>7, <2>8, <2>9 DEF ConnStep
<1>4. CASE UNCHANGED vars
  BY <1>4 DEF vars, CheckedKeys, Excused, Coming, rowVars,
       Opening, Outdated
<1> QED
  BY <1>1, <1>2, <1>3, <1>4 DEF Next

\* A replaced or withdrawn key is silent once its revocation has run, unless the request was
\* between the check of the key and its lease just then (external_player_stream()), or
\* db.refresh() failed between the commit and the order (regenerate_player_key()).
THEOREM ReplacedKeyAlwaysSilent == Safety => []ReplacedKeyIsSilent
<1>1. Init => CheckedKeys
  BY DEF Init, CheckedKeys, Opening, Leased
<1>2. CheckedKeys => ReplacedKeyIsSilent
  BY DEF CheckedKeys, Excused, ReplacedKeyIsSilent
<1> QED
  BY <1>1, <1>2, CheckedStep, Exactness, PTL DEF Safety

-----------------------------------------------------------------------------
LEMMA KeysFinite == \A S \in SUBSET Keys : IsFiniteSet(S)
<1>1. IsFiniteSet(1..MaxGen)
  BY FS_Interval, Bounds
<1>2. IsFiniteSet(Keys)
  BY <1>1, UsersFinite, FS_Product DEF Keys
<1> QED
  BY <1>2, FS_Subset

\* A step that adds no key to the registry does not raise its size.
LEMMA ShrinkKeepsCapacity ==
  ASSUME CapacityKept, Held' \subseteq Held
  PROVE  CapacityKept'
<1>1. IsFiniteSet(Held) /\ IsFiniteSet(Held')
  BY KeysFinite DEF Held
<1>2. Cardinality(Held') <= Cardinality(Held)
  BY <1>1, FS_Subset
<1> QED
  BY <1>1, <1>2, FS_CardinalityType, Bounds DEF CapacityKept

\* Only activate() adds a key, and it looks at the size unless the key is already
\* there: a takeover is never charged for the connection it replaces.
LEMMA CapacityStep == IInv /\ CapacityKept /\ [Next]_vars => CapacityKept'
<1> SUFFICES ASSUME IInv, CapacityKept, [Next]_vars PROVE CapacityKept'
  OBVIOUS
<1> USE DEF IInv, TypeOK
<1>1. CASE Stop
  <2>1. Held' \subseteq Held
    BY <1>1 DEF Stop, Held
  <2> QED
    BY <2>1, ShrinkKeepsCapacity
<1>2. ASSUME NEW u \in Users, AccountStep(u) PROVE CapacityKept'
  <2>1. Held' \subseteq Held
    <3>1. CASE RunRevoke(u)
      BY <3>1 DEF RunRevoke, Held
    <3>2. CASE ~RunRevoke(u)
      BY <1>2, <3>2, RowStepsKeep DEF Held
    <3> QED
      BY <3>1, <3>2
  <2> QED
    BY <2>1, ShrinkKeepsCapacity
<1>3. ASSUME NEW c \in Conns, Activate(c) PROVE CapacityKept'
  <2> DEFINE k == key[c]
  <2>1. k \in Keys /\ Held' = Held \union {k}
    BY <1>3, NoConnNew DEF Activate, Held
  <2>2. IsFiniteSet(Held)
    BY KeysFinite DEF Held
  <2>3. CASE k \in Held
    BY <2>1, <2>3, ShrinkKeepsCapacity
  <2>4. CASE k \notin Held
    <3>1. Cardinality(Held) < MaxConnections
      BY <1>3, <2>4 DEF Activate
    <3>2. Cardinality(Held') = Cardinality(Held) + 1
      BY <2>1, <2>2, <2>4, FS_AddElement
    <3> QED
      BY <2>2, <3>1, <3>2, FS_CardinalityType, Bounds DEF CapacityKept
  <2> QED
    BY <2>3, <2>4
<1>4. ASSUME NEW c \in Conns, ConnStep(c), ~Activate(c) PROVE CapacityKept'
  <2>1. Held' \subseteq Held
    BY <1>4, NoConnNew
    DEF ConnStep, Request, Resolve, Refuse, Open, CapacityRefuse, Attach, AttachFails,
        ChunkSent, ChunkReceived, StopAfterSend, StopReceiving, FanoutCloses,
        WatcherCancels, ForceCancel, Release, Refused, Released, Held
  <2> QED
    BY <2>1, ShrinkKeepsCapacity
<1>5. CASE UNCHANGED vars
  BY <1>5, ShrinkKeepsCapacity DEF vars, Held
<1> QED
  BY <1>1, <1>2, <1>3, <1>4, <1>5 DEF Next

\* The registry never holds more leases than the configured maximum.
THEOREM CapacityAlwaysKept == Safety => []CapacityKept
<1>1. Init => CapacityKept
  <2>1. Init => Held = {}
    BY DEF Init, Held
  <2> QED
    BY <2>1, FS_EmptySet, Bounds DEF CapacityKept
<1> QED
  BY <1>1, CapacityStep, Exactness, PTL DEF Safety

-----------------------------------------------------------------------------
\* Every step is a step of the takeover promise, or leaves it alone.
LEMMA StepMaps == IInv /\ [Next]_vars => [Takeover!Next]_(Takeover!vars)
<1> SUFFICES ASSUME IInv, [Next]_vars PROVE [Takeover!Next]_(Takeover!vars)
  OBVIOUS
<1> DEFINE drain == {c \in Conns : pc[c] \in Leased /\ c \in superseded}
<1>0. IInv' /\ drain = superseded /\ drain' = superseded'
  <2>1. IInv'
    BY ExactStep
  <2> QED
    BY <2>1 DEF IInv, TypeOK, SupersededAreLeased
<1> HIDE DEF drain
<1> SUFFICES Takeover!Next \/ (registry' = registry /\ drain' = drain)
  BY DEF Takeover!vars, drain
<1> USE <1>0, NoConnNew DEF IInv, TypeOK, RegistryIsExact
<1>1. CASE Stop
  <2>1. Takeover!Displace(Keys)
    BY <1>1 DEF Stop, Supersede, Held, Takeover!Displace, drain
  <2> QED
    BY <2>1 DEF Takeover!Next
<1>2. ASSUME NEW u \in Users, AccountStep(u)
      PROVE  Takeover!Next \/ (registry' = registry /\ drain' = drain)
  <2>1. CASE RunRevoke(u)
    <3>1. Takeover!Displace({k \in Keys : Owner(k) = u})
      BY <2>1 DEF RunRevoke, Supersede, Held, Takeover!Displace, drain
    <3> QED
      BY <3>1 DEF Takeover!Next
  <2>2. CASE ~RunRevoke(u)
    BY <1>2, <2>2, RowStepsKeep
  <2> QED
    BY <2>1, <2>2
<1>3. ASSUME NEW c \in Conns, Activate(c) PROVE Takeover!Next
  <2>1. Takeover!Connect(key[c], c)
    BY <1>3 DEF Activate, Supersede, Leased, Takeover!Connect, Takeover!Current, drain
  <2> QED
    BY <2>1 DEF Takeover!Next
<1>4. ASSUME NEW c \in Conns, AttachFails(c) \/ Release(c)
      PROVE  Takeover!Next
  <2>1. pc[c] \in Leased /\ Released(c)
    BY <1>4 DEF AttachFails, Release, Leased
  <2>2. CASE c \in superseded
    <3>1. Takeover!Drained(c)
      BY <2>1, <2>2 DEF Released, Takeover!Drained, drain
    <3> QED
      BY <3>1 DEF Takeover!Next
  <2>3. CASE c \notin superseded
    <3>1. Takeover!Leave(key[c])
      BY <2>1, <2>3 DEF Released, Takeover!Leave, drain
    <3> QED
      BY <3>1 DEF Takeover!Next
  <2> QED
    BY <2>2, <2>3
<1>5. ASSUME NEW c \in Conns, ForceCancel(c)
      PROVE  Takeover!Next \/ (registry' = registry /\ drain' = drain)
  <2>1. CASE pc[c] = "closing"
    <3>1. Takeover!Drained(c)
      BY <1>5, <2>1 DEF ForceCancel, Streaming, Takeover!Drained, drain
    <3> QED
      BY <3>1 DEF Takeover!Next
  <2>2. CASE pc[c] # "closing"
    BY <1>5, <2>2 DEF ForceCancel
  <2> QED
    BY <2>1, <2>2
<1>6. ASSUME NEW c \in Conns, ConnStep(c), ~Activate(c), ~AttachFails(c), ~Release(c),
             ~ForceCancel(c)
      PROVE  registry' = registry /\ drain' = drain
  BY <1>6
  DEF ConnStep, Request, Resolve, Refuse, Open, CapacityRefuse, Attach, ChunkSent,
      ChunkReceived, StopAfterSend, StopReceiving, FanoutCloses, WatcherCancels, Refused
<1>7. CASE UNCHANGED vars
  BY <1>7 DEF vars
<1> QED
  BY <1>1, <1>2, <1>3, <1>4, <1>5, <1>6, <1>7 DEF Next

\* The detailed system takes only steps the takeover promise allows.
THEOREM ImplementsTakeoverSafely == Safety => Takeover!Safety
<1>1. Init => Takeover!Init
  BY DEF Init, Takeover!Init
<1> QED
  BY <1>1, StepMaps, Exactness, PTL DEF Safety, Takeover!Safety
=============================================================================
