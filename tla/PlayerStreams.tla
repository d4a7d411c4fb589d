---------------------------- MODULE PlayerStreams ----------------------------
(***************************************************************************)
(* External player connections: the credential kept in the account row,    *)
(* the connection registry that keeps one lease per key, the request       *)
(* handler and the body generator that streams one connection.             *)
(*                                                                         *)
(* Every registry operation takes an asyncio lock whose critical section   *)
(* never awaits, so each is one step.  A request suspends only at its      *)
(* awaits, which are the values of pc.  Account changes are committed by   *)
(* other threads; the revocation they order runs later on the event loop.  *)
(***************************************************************************)
EXTENDS Naturals, FiniteSets

CONSTANTS
  Users,            \* accounts
  Conns,            \* request slots: a finished slot may carry a new request
  NoConn,           \* the registry's "no lease"
  MaxConnections,   \* PlayerConnectionRegistry.max_connections
  MaxGen,           \* bound: credential generations per account
  MaxPending        \* bound: changes of one account whose revocation has not run

ASSUME UsersFinite == IsFiniteSet(Users)
ASSUME NoConnNew == NoConn \notin Conns
ASSUME Bounds ==
  MaxConnections \in Nat \ {0} /\ MaxGen \in Nat \ {0} /\ MaxPending \in Nat \ {0}

VARIABLES
  account,      \* user -> [gen, approved, fresh]: the credential columns and status
  refreshing,   \* user -> requests past the commit of a change, not past db.refresh()
  deletion,     \* user -> "none", "committed" (no revocation ordered yet) or "done"
  revokes,      \* user -> revocation tasks ordered and not yet run
  registry,     \* key -> slot holding the lease, or NoConn
  pc,           \* slot -> where the request is suspended
  key,          \* slot -> the key the request presented
  superseded,   \* slots whose lease was superseded
  timer,        \* slots whose forced-cancel timer is armed
  dropped,      \* slots whose subscription the channel's fanout closed
  missed,       \* history: slots a revocation missed: it ran while they had no lease yet,
                \*   or the request that changed the account failed before ordering it
  up            \* the application has not been shut down

vars == <<account, refreshing, deletion, revokes, registry, pc, key, superseded, timer,
          dropped, missed, up>>
rowVars == <<account, refreshing, deletion>>
connVars == <<registry, pc, key, superseded, timer, dropped, missed>>

Keys == Users \X (1..MaxGen)
Owner(k) == k[1]
Generation(k) == k[2]

\* Suspension points after activate() returned a lease.
Leased == {"activated", "sending", "receiving", "closing"}
\* Suspension points inside the try block of _stream_body.
Streaming == {"sending", "receiving"}
PcValues == {"idle", "resolving", "opening", "joining"} \union Leased

Account == [gen : 0..MaxGen, approved : BOOLEAN, fresh : BOOLEAN]

TypeOK ==
  /\ account \in [Users -> Account]
  /\ refreshing \in [Users -> 0..MaxPending]
  /\ deletion \in [Users -> {"none", "committed", "done"}]
  /\ revokes \in [Users -> 0..MaxPending]
  /\ registry \in [Keys -> Conns \union {NoConn}]
  /\ pc \in [Conns -> PcValues]
  /\ key \in [Conns -> Keys]
  /\ superseded \subseteq Conns
  /\ timer \subseteq superseded
  /\ dropped \subseteq Conns /\ missed \subseteq Conns
  /\ up \in BOOLEAN

-----------------------------------------------------------------------------
Held == {k \in Keys : registry[k] # NoConn}

\* validate(): the presented key is the account's current generation, the
\* account is approved and the connect window has not passed.
Valid(k) ==
  LET a == account[Owner(k)]
  IN  a.gen = Generation(k) /\ a.approved /\ a.fresh

\* The key is not the account's any more, or the account is not approved any more.
Outdated(k) == Generation(k) # account[Owner(k)].gen \/ ~account[Owner(k)].approved

\* Mutant: the event is set and no timer is armed.
SupersedeWithoutTimer(S) ==
  /\ superseded' = superseded \union S
  /\ timer' = timer

\* _supersede() on every lease of S: set the event and arm the timer.  A slot
\* whose release ran is not in the registry any more, so none of S is closed.
Supersede(S) ==
  /\ superseded' = superseded \union S
  /\ timer' = timer \union S

\* Mutant: whatever lease the key has now leaves the registry.
ReleasedByKey(c) ==
  /\ registry' = [registry EXCEPT ![key[c]] = NoConn]
  /\ superseded' = superseded \ {c}
  /\ timer' = timer \ {c}
  /\ dropped' = dropped \ {c} /\ missed' = missed \ {c}
  /\ pc' = [pc EXCEPT ![c] = "idle"]

\* release(): remove the registry entry if it is still this lease, close the
\* lease and disarm its timer.  The slot can then carry another request.
Released(c) ==
  /\ registry' = IF registry[key[c]] = c
                 THEN [registry EXCEPT ![key[c]] = NoConn]
                 ELSE registry
  /\ superseded' = superseded \ {c}
  /\ timer' = timer \ {c}
  /\ dropped' = dropped \ {c} /\ missed' = missed \ {c}
  /\ pc' = [pc EXCEPT ![c] = "idle"]

\* A request refused before it had a lease; its subscription is closed.
Refused(c) ==
  /\ pc' = [pc EXCEPT ![c] = "idle"]
  /\ dropped' = dropped \ {c} /\ missed' = missed \ {c}
  /\ UNCHANGED <<registry, superseded, timer>>

\* The key was looked up and there is no lease yet: a revocation finds nothing to end.
Opening(c) == pc[c] \in {"opening", "joining"}

GoTo(c, from, to) == pc[c] \in from /\ pc' = [pc EXCEPT ![c] = to]

-----------------------------------------------------------------------------
Init ==
  /\ account \in [Users -> {a \in Account : a.gen \in {0, 1} /\ a.approved /\ a.fresh}]
  /\ refreshing = [u \in Users |-> 0]
  /\ deletion = [u \in Users |-> "none"]
  /\ revokes = [u \in Users |-> 0]
  /\ registry = [k \in Keys |-> NoConn]
  /\ pc = [c \in Conns |-> "idle"]
  /\ key \in {[c \in Conns |-> k] : k \in Keys}
  /\ superseded = {}
  /\ timer = {}
  /\ dropped = {} /\ missed = {}
  /\ up = TRUE

\* ----- the account row, changed by other threads -----

\* A revocation of the account is certain to come: it is ordered, or its deletion will order it.
Coming(u) == revokes[u] > 0 \/ deletion[u] = "committed"

\* The bound on changes of one account under way.
Room(u) ==
  refreshing[u] + revokes[u] + (IF deletion[u] = "committed" THEN 1 ELSE 0) < MaxPending

\* A request commits a change of the account's row a; what follows is OrderRevocation or
\* RefreshFails.  The row may have changed since the request read it.
Commits(u, a) ==
  /\ deletion[u] = "none" /\ Room(u)
  /\ account' = [account EXCEPT ![u] = a]
  /\ refreshing' = [refreshing EXCEPT ![u] = @ + 1]
  /\ UNCHANGED <<deletion, revokes, connVars, up>>

\* regenerate_player_key() commits a new generation and a new window.  The account was
\* approved when the request was authenticated; the commit does not look again.
Regenerate(u) ==
  /\ account[u].gen < MaxGen
  /\ Commits(u, [gen |-> account[u].gen + 1, approved |-> account[u].approved, fresh |-> TRUE])

\* Mutant: the status is committed and nothing follows.
DisableQuietly(u) ==
  /\ deletion[u] = "none"
  /\ account' = [account EXCEPT ![u].approved = FALSE]
  /\ UNCHANGED <<refreshing, deletion, revokes, connVars, up>>

\* update_user() commits a status other than approved.
Disable(u) ==
  Commits(u, [gen |-> account[u].gen, approved |-> FALSE, fresh |-> account[u].fresh])

\* update_user_role() commits a promotion, which changes nothing here.
ChangeRole(u) == Commits(u, account[u])

\* delete_user() commits.  No refresh follows: nothing keeps it from its revocation.
Delete(u) ==
  /\ deletion[u] = "none" /\ Room(u)
  /\ account' = [account EXCEPT ![u].approved = FALSE]
  /\ deletion' = [deletion EXCEPT ![u] = "committed"]
  /\ UNCHANGED <<refreshing, revokes, connVars, up>>

\* revoke_user(): the revocation is handed to the event loop, once db.refresh() found the
\* row, or once the deletion was committed.  Room has left a place for it.
OrderRevocation(u) ==
  /\ revokes[u] < MaxPending
  /\ \/ /\ refreshing[u] > 0 /\ deletion[u] = "none"
        /\ refreshing' = [refreshing EXCEPT ![u] = @ - 1]
        /\ UNCHANGED deletion
     \/ /\ deletion[u] = "committed"
        /\ deletion' = [deletion EXCEPT ![u] = "done"]
        /\ UNCHANGED refreshing
  /\ revokes' = [revokes EXCEPT ![u] = @ + 1]
  /\ UNCHANGED <<account, connVars, up>>

\* db.refresh() raises: no connection in time, or the row is gone.  The change stands and
\* its request orders no revocation.
RefreshFails(u) ==
  /\ refreshing[u] > 0
  /\ refreshing' = [refreshing EXCEPT ![u] = @ - 1]
  /\ missed' = missed \union {c \in Conns :
       /\ Owner(key[c]) = u /\ Outdated(key[c])
       /\ Opening(c) \/ pc[c] \in Leased}
  /\ UNCHANGED <<account, deletion, revokes, registry, pc, key, superseded, timer, dropped, up>>

\* update_user() to approved: no revocation.
Approve(u) ==
  /\ deletion[u] = "none" /\ ~account[u].approved
  /\ account' = [account EXCEPT ![u].approved = TRUE]
  /\ UNCHANGED <<refreshing, deletion, revokes, connVars, up>>

\* The 30 days during which the key opens new connections are over.
WindowPasses(u) ==
  /\ account[u].fresh
  /\ account' = [account EXCEPT ![u].fresh = FALSE]
  /\ UNCHANGED <<refreshing, deletion, revokes, connVars, up>>

\* Mutant: only the leases of the account's current generation are revoked.
RunRevokeCurrentOnly(u) ==
  /\ revokes[u] > 0
  /\ revokes' = [revokes EXCEPT ![u] = @ - 1]
  /\ LET mine == {k \in Held : Owner(k) = u /\ Generation(k) = account[u].gen}
     IN  /\ registry' = [k \in Keys |-> IF k \in mine THEN NoConn ELSE registry[k]]
         /\ Supersede({registry[k] : k \in mine})
  /\ missed' = missed \union {c \in Conns : Opening(c) /\ Owner(key[c]) = u}
  /\ UNCHANGED <<rowVars, pc, key, dropped, up>>

\* _revoke_user() on the event loop: every lease of the account, whatever its
\* generation, leaves the registry and is superseded.
RunRevoke(u) ==
  /\ revokes[u] > 0
  /\ revokes' = [revokes EXCEPT ![u] = @ - 1]
  /\ LET mine == {k \in Held : Owner(k) = u}
     IN  /\ registry' = [k \in Keys |-> IF k \in mine THEN NoConn ELSE registry[k]]
         /\ Supersede({registry[k] : k \in mine})
  /\ missed' = missed \union {c \in Conns : Opening(c) /\ Owner(key[c]) = u}
  /\ UNCHANGED <<rowVars, pc, key, dropped, up>>

\* stop() during shutdown.
Stop ==
  /\ up
  /\ up' = FALSE
  /\ registry' = [k \in Keys |-> NoConn]
  /\ Supersede({registry[k] : k \in Held})
  /\ UNCHANGED <<rowVars, revokes, pc, key, dropped, missed>>

\* ----- one request -----

\* A GET on /listen with a key of any generation issued so far.
Request(c, k) ==
  /\ up
  /\ Generation(k) <= account[Owner(k)].gen
  /\ GoTo(c, {"idle"}, "resolving")
  /\ key' = [key EXCEPT ![c] = k]
  /\ UNCHANGED <<rowVars, revokes, registry, superseded, timer, dropped, missed, up>>

\* _resolve_external_player() in its worker thread: one look at the account row.
Resolve(c) ==
  /\ pc[c] = "resolving"
  /\ Valid(key[c])
  /\ GoTo(c, {"resolving"}, "opening")
  /\ UNCHANGED <<rowVars, revokes, registry, key, superseded, timer, dropped, missed, up>>

\* The request ends without a stream: an invalid key, no right to the format,
\* a disabled channel, an encoder that does not become ready or delivers nothing.
Refuse(c) ==
  /\ pc[c] \in {"resolving", "opening", "joining"}
  /\ Refused(c)
  /\ UNCHANGED <<rowVars, revokes, key, up>>

\* open_audio_stream() returned a subscription.
Open(c) ==
  /\ GoTo(c, {"opening"}, "joining")
  /\ UNCHANGED <<rowVars, revokes, registry, key, superseded, timer, dropped, missed, up>>

\* Mutant: the entry is overwritten and the previous lease is not superseded.
ActivateSilently(c) ==
  LET k == key[c]
  IN  /\ pc[c] = "joining" /\ c \notin dropped
      /\ k \in Held \/ Cardinality(Held) < MaxConnections
      /\ registry' = [registry EXCEPT ![k] = c]
      /\ pc' = [pc EXCEPT ![c] = "activated"]
      /\ UNCHANGED <<rowVars, revokes, superseded, timer, key, dropped, missed, up>>

\* The first chunk arrives and activate() runs in the same step.  Only a key
\* without a lease counts against the capacity.
Activate(c) ==
  LET k == key[c]
  IN  /\ pc[c] = "joining" /\ c \notin dropped
      /\ k \in Held \/ Cardinality(Held) < MaxConnections
      /\ registry' = [registry EXCEPT ![k] = c]
      /\ Supersede({registry[k]} \ {NoConn})
      /\ pc' = [pc EXCEPT ![c] = "activated"]
      /\ UNCHANGED <<rowVars, revokes, key, dropped, missed, up>>

\* activate() raises PlayerConnectionCapacityError.
CapacityRefuse(c) ==
  /\ pc[c] = "joining" /\ c \notin dropped
  /\ key[c] \notin Held /\ Cardinality(Held) >= MaxConnections
  /\ Refused(c)
  /\ UNCHANGED <<rowVars, revokes, key, up>>

\* _stream_body() starts: attach_current_task() succeeds only for a lease still
\* in the registry, and the subscription must still be open.
Attach(c) ==
  /\ registry[key[c]] = c /\ c \notin dropped
  /\ GoTo(c, {"activated"}, "sending")
  /\ UNCHANGED <<rowVars, revokes, registry, key, superseded, timer, dropped, missed, up>>

AttachFails(c) ==
  /\ pc[c] = "activated"
  /\ registry[key[c]] # c \/ c \in dropped
  /\ Released(c)
  /\ UNCHANGED <<rowVars, revokes, key, up>>

\* The client took the chunk and the loop goes on to receive() the next one.
ChunkSent(c) ==
  /\ c \notin superseded
  /\ GoTo(c, {"sending"}, "receiving")
  /\ UNCHANGED <<rowVars, revokes, registry, key, superseded, timer, dropped, missed, up>>

\* receive() returned a chunk and the loop condition still holds.
ChunkReceived(c) ==
  /\ c \notin superseded \union dropped
  /\ GoTo(c, {"receiving"}, "sending")
  /\ UNCHANGED <<rowVars, revokes, registry, key, superseded, timer, dropped, missed, up>>

\* After a chunk was taken: the lease is superseded or the client is gone.
StopAfterSend(c) ==
  /\ GoTo(c, {"sending"}, "closing")
  /\ UNCHANGED <<rowVars, revokes, registry, key, superseded, timer, dropped, missed, up>>

\* receive() timed out, returned None, or returned to a superseded lease.
StopReceiving(c) ==
  /\ GoTo(c, {"receiving"}, "closing")
  /\ UNCHANGED <<rowVars, revokes, registry, key, superseded, timer, dropped, missed, up>>

\* The fanout closes the subscription: a slow client, or an encoder that ended.
FanoutCloses(c) ==
  /\ pc[c] \in {"joining", "activated"} \union Streaming
  /\ c \notin dropped
  /\ dropped' = dropped \union {c}
  /\ UNCHANGED <<rowVars, revokes, registry, pc, key, superseded, timer, missed, up>>

\* The watcher task saw closed_event and cancels the streaming task.
WatcherCancels(c) ==
  /\ c \in dropped
  /\ GoTo(c, Streaming, "closing")
  /\ UNCHANGED <<rowVars, revokes, registry, key, superseded, timer, dropped, missed, up>>

\* _force_cancel(): ten seconds after it was superseded.  A streaming task goes to
\* its finally block; one already there loses the await and never reaches
\* release(); one without a task yet is left alone.
ForceCancel(c) ==
  /\ c \in timer
  /\ \/ /\ pc[c] \in Streaming
        /\ pc' = [pc EXCEPT ![c] = "closing"]
        /\ timer' = timer \ {c}
        /\ UNCHANGED <<superseded, dropped, missed>>
     \/ /\ pc[c] = "closing"
        /\ pc' = [pc EXCEPT ![c] = "idle"]
        /\ timer' = timer \ {c}
        /\ superseded' = superseded \ {c}
        /\ dropped' = dropped \ {c} /\ missed' = missed \ {c}
     \/ /\ pc[c] = "activated"
        /\ timer' = timer \ {c}
        /\ UNCHANGED <<pc, superseded, dropped, missed>>
  /\ UNCHANGED <<rowVars, revokes, registry, key, up>>

\* The finally block after its await: release().
Release(c) ==
  /\ pc[c] = "closing"
  /\ Released(c)
  /\ UNCHANGED <<rowVars, revokes, key, up>>

-----------------------------------------------------------------------------
AccountStep(u) ==
  \/ Regenerate(u) \/ Disable(u) \/ ChangeRole(u) \/ Delete(u)
  \/ OrderRevocation(u) \/ RefreshFails(u)
  \/ Approve(u) \/ WindowPasses(u) \/ RunRevoke(u)

ConnStep(c) ==
  \/ \E k \in Keys : Request(c, k)
  \/ Resolve(c) \/ Refuse(c) \/ Open(c) \/ Activate(c) \/ CapacityRefuse(c)
  \/ Attach(c) \/ AttachFails(c) \/ ChunkSent(c) \/ ChunkReceived(c)
  \/ StopAfterSend(c) \/ StopReceiving(c) \/ FanoutCloses(c)
  \/ WatcherCancels(c) \/ ForceCancel(c) \/ Release(c)

Next == Stop \/ (\E u \in Users : AccountStep(u)) \/ (\E c \in Conns : ConnStep(c))

\* The event loop runs what is scheduled on it: ordered revocations, armed timers,
\* a body generator that starts or finishes, and receive()'s own timeout.
\* Nothing obliges a client to take a chunk, so StopAfterSend has no fairness.
Fairness ==
  /\ \A u \in Users : WF_vars(RunRevoke(u))
  /\ \A c \in Conns :
       /\ WF_vars(ForceCancel(c))
       /\ WF_vars(Attach(c) \/ AttachFails(c))
       /\ WF_vars(Release(c))
       /\ WF_vars(ChunkReceived(c) \/ StopReceiving(c))

Safety == Init /\ [][Next]_vars
Spec == Safety /\ Fairness

-----------------------------------------------------------------------------
\* A registry entry is exactly the connection of that key that holds a lease and
\* has not been superseded: no lease outlives its connection, no connection that
\* lost its key keeps the entry, and release() never removes a newer lease.
RegistryIsExact ==
  \A c \in Conns, k \in Keys :
    registry[k] = c <=> key[c] = k /\ pc[c] \in Leased /\ c \notin superseded

\* A connection plays on with an outdated key only while the request that changed the
\* account has not come past db.refresh(), while its revocation is on its way, or if the
\* revocation missed it: it ran between the check of the key and the lease (player.py:258),
\* or db.refresh() failed (player.py:110).  Such a connection nothing ends.
ReplacedKeyIsSilent ==
  \A c \in Conns :
    pc[c] \in Leased /\ c \notin superseded /\ Outdated(key[c])
      => refreshing[Owner(key[c])] > 0 \/ Coming(Owner(key[c])) \/ c \in missed

\* No more connections hold a lease than the registry admits.
CapacityKept == Cardinality(Held) <= MaxConnections

\* At most one connection per key plays on undisturbed.
OneStreamPerKey ==
  \A c, d \in Conns :
    /\ pc[c] \in Leased \ {"closing"} /\ pc[d] \in Leased \ {"closing"}
    /\ key[c] = key[d]
    /\ c \notin superseded /\ d \notin superseded
    => c = d

\* A superseded connection ends even if its client never takes another chunk.
SupersededEnds == \A c \in Conns : c \in superseded ~> pc[c] = "idle"

\* A revocation that is ordered ends every connection of the account that already
\* has its lease.
RevokedUserIsCutOff ==
  \A u \in Users, c \in Conns :
    (revokes[u] > 0 /\ Owner(key[c]) = u /\ pc[c] \in Leased) ~> pc[c] = "idle"

\* The takeover promise, connection by connection.
Takeover == INSTANCE ConnectionTakeover WITH
  current <- registry,
  draining <- {c \in Conns : pc[c] \in Leased /\ c \in superseded}

ImplementsTakeover == Takeover!Spec

=============================================================================
