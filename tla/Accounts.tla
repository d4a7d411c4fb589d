------------------------------ MODULE Accounts ------------------------------
(***************************************************************************)
(* Accounts, login sessions and the stream authorization cache:            *)
(* security.py, routers/auth.py and the user routes of routers/admin.py,   *)
(* from the setup of the first administrator on.                           *)
(*                                                                         *)
(* Handlers run in worker threads and interleave between any two of their  *)
(* accesses to the database or to the cache, whose lock is never held over *)
(* a query.  SQLite begins a transaction with the first write, so what a   *)
(* handler read before may be old when it commits.                         *)
(***************************************************************************)
EXTENDS Naturals, FiniteSets

CONSTANTS
  MaxUsers,     \* bound: accounts at a time; their ids are 1..MaxUsers
  Sessions,     \* slots for login sessions: a finished slot may be used again
  Readers,      \* slots for HLS requests in flight
  Requests,     \* slots for administrators' and setup requests in flight
  SessionLimit  \* create_session(): sessions kept per account, the new one included

ASSUME Bounds == MaxUsers \in Nat \ {0} /\ SessionLimit \in Nat \ {0}
ASSUME SessionsFinite == IsFiniteSet(Sessions)

VARIABLES
  role,         \* id -> role of the account, or "none" without a row
  approved,     \* ids whose status is approved
  live,         \* sessions whose row exists and is not revoked or expired
  owner,        \* session -> id of its account
  login,        \* session -> how far the login that creates it is
  evicted,      \* session -> older sessions that this login revokes
  loggingOut,   \* sessions whose logout is committed, the cache not yet told
  token,        \* the bootstrap token's file: none, fresh, or spent on an administrator
  cache,        \* sessions with an entry in _stream_sessions
  current,      \* readers that missed under the present cache generation
  reader,       \* HLS request -> where it is
  cookie,       \* HLS request -> session it presents
  at,           \* administrator's request -> where it is
  actor,        \* its administrator
  op,           \* what it does
  target,       \* the account it does it to
  sawApproved,  \* requests that read an approved target
  counted       \* request -> approved administrators that it counted

rowVars == <<role, approved, live>>
cacheVars == <<cache, current>>
loginVars == <<owner, login, evicted, loggingOut>>
readerVars == <<reader, cookie>>
requestVars == <<at, actor, op, target, sawApproved, counted>>
vars == <<rowVars, token, cacheVars, loginVars, readerVars, requestVars>>

Ids == 1..MaxUsers
Rows == {u \in Ids : role[u] # "none"}
AdminRows == {u \in Ids : role[u] = "admin"}
ApprovedAdmins == AdminRows \intersect approved
Operations == {"approve", "bar", "promote", "delete"}

TypeOK ==
  /\ role \in [Ids -> {"none", "listener", "admin"}]
  /\ approved \subseteq Ids
  /\ live \subseteq Sessions
  /\ owner \in [Sessions -> Ids]
  /\ login \in [Sessions -> {"none", "reading", "committed"}]
  /\ evicted \in [Sessions -> SUBSET Sessions]
  /\ loggingOut \subseteq Sessions
  /\ cache \subseteq Sessions
  /\ current \subseteq Readers
  /\ reader \in [Readers -> {"idle", "missed", "read"}]
  /\ cookie \in [Readers -> Sessions]
  /\ token \in {"none", "fresh", "spent"}
  /\ at \in [Requests -> {"idle", "authorized", "read", "committed", "setup", "created"}]
  /\ actor \in [Requests -> Ids]
  /\ op \in [Requests -> Operations]
  /\ target \in [Requests -> Ids]
  /\ sawApproved \subseteq Requests
  /\ counted \in [Requests -> SUBSET Ids]

-----------------------------------------------------------------------------
\* _authenticate_session_hash(): the row of the session and of its account.
Usable(s) == s \in live /\ owner[s] \in Rows \intersect approved

SessionsOf(u) == {s \in Sessions : owner[s] = u}

\* invalidate_user(), invalidate_session(): drop the entries, and let no request
\* that has missed before store what it reads.
Invalidate(S) ==
  /\ cache' = cache \ S
  /\ current' = {}

\* A cookie of a login that has answered; its session may have ended meanwhile.
Presented(s) == login[s] = "none"

\* The slot carries no session and nothing refers to the one that it carried.
Unused(s) ==
  /\ s \notin live \union cache \union loggingOut
  /\ login[s] = "none"
  /\ \A h \in Readers : reader[h] # "idle" => cookie[h] # s
  /\ \A t \in Sessions : s \notin evicted[t]

\* A new row gets the id after the largest in use, as SQLite does without AUTOINCREMENT.
NextId(u) == (\A v \in Rows : v < u) /\ (u > 1 => u - 1 \in Rows)

-----------------------------------------------------------------------------
\* A service that was started for the first time.
Init ==
  /\ role = [u \in Ids |-> "none"]
  /\ approved = {} /\ token = "fresh"
  /\ live = {}
  /\ owner = [s \in Sessions |-> 1]
  /\ login = [s \in Sessions |-> "none"]
  /\ evicted = [s \in Sessions |-> {}]
  /\ loggingOut = {}
  /\ cache = {}
  /\ current = {}
  /\ reader = [h \in Readers |-> "idle"]
  /\ cookie \in {[h \in Readers |-> s] : s \in Sessions}
  /\ at = [r \in Requests |-> "idle"]
  /\ actor = [r \in Requests |-> 1]
  /\ op = [r \in Requests |-> "approve"]
  /\ target = [r \in Requests |-> 1]
  /\ sawApproved = {}
  /\ counted = [r \in Requests |-> {}]

\* ----- create_first_admin() -----

Finished(r) ==
  /\ at' = [at EXCEPT ![r] = "idle"]
  /\ actor' = [actor EXCEPT ![r] = 1]
  /\ op' = [op EXCEPT ![r] = "approve"]
  /\ target' = [target EXCEPT ![r] = 1]
  /\ sawApproved' = sawApproved \ {r}
  /\ counted' = [counted EXCEPT ![r] = {}]

\* Mutant: the checks are made without the lock.
SetupChecksUnlocked(r) ==
  /\ at[r] = "idle"
  /\ AdminRows = {} /\ token # "none"
  /\ at' = [at EXCEPT ![r] = "setup"]
  /\ UNCHANGED <<rowVars, token, cacheVars, loginVars, readerVars, actor, op, target,
                 sawApproved, counted>>

\* Under creation_lock: there is no administrator's row, and the token is the file's.
SetupChecks(r) ==
  /\ at[r] = "idle" /\ \A q \in Requests : at[q] \notin {"setup", "created"}
  /\ AdminRows = {} /\ token # "none"
  /\ at' = [at EXCEPT ![r] = "setup"]
  /\ UNCHANGED <<rowVars, token, cacheVars, loginVars, readerVars, actor, op, target,
                 sawApproved, counted>>

SetupCommits(r, u) ==
  /\ at[r] = "setup" /\ NextId(u)
  /\ role' = [role EXCEPT ![u] = "admin"]
  /\ approved' = approved \union {u}
  /\ token' = "spent"
  /\ at' = [at EXCEPT ![r] = "created"]
  /\ UNCHANGED <<live, cacheVars, loginVars, readerVars, actor, op, target, sawApproved,
                 counted>>

\* The name is taken, or the commit fails.
SetupFails(r) ==
  /\ at[r] = "setup"
  /\ Finished(r)
  /\ UNCHANGED <<rowVars, token, cacheVars, loginVars, readerVars>>

\* remove_token() and the answer; if refresh() fails before, the file stays.
SetupAnswers(r) ==
  /\ at[r] = "created"
  /\ token' \in {"none", token}
  /\ Finished(r)
  /\ UNCHANGED <<rowVars, cacheVars, loginVars, readerVars>>

\* ----- registration, login and logout -----

\* register(): the new account waits for approval or not, as configured.
Register(u) ==
  /\ AdminRows # {}
  /\ NextId(u)
  /\ role' = [role EXCEPT ![u] = "listener"]
  /\ approved' \in {approved \ {u}, approved \union {u}}
  /\ UNCHANGED <<live, token, cacheVars, loginVars, readerVars, requestVars>>

\* login(): the account was read as approved and, after its password was verified,
\* create_session() reads its sessions.  The newest SessionLimit - 1 stay; which
\* these are is left open.
LoginReads(s, u) ==
  LET mine == live \intersect SessionsOf(u)
  IN  /\ Unused(s)
      /\ u \in Rows \intersect approved
      /\ owner' = [owner EXCEPT ![s] = u]
      /\ login' = [login EXCEPT ![s] = "reading"]
      /\ \/ /\ Cardinality(mine) < SessionLimit
            /\ UNCHANGED <<evicted, cacheVars>>
         \/ /\ Cardinality(mine) >= SessionLimit
            /\ \E S \in SUBSET mine :
                 /\ Cardinality(mine \ S) = SessionLimit - 1
                 /\ evicted' = [evicted EXCEPT ![s] = S]
            /\ Invalidate(SessionsOf(u))
      /\ UNCHANGED <<rowVars, token, loggingOut, readerVars, requestVars>>

\* The commit; it looks at the status no more.
LoginCommits(s) ==
  /\ login[s] = "reading" /\ owner[s] \in Rows
  /\ live' = (live \ evicted[s]) \union {s}
  /\ login' = [login EXCEPT ![s] = "committed"]
  /\ evicted' = [evicted EXCEPT ![s] = {}]
  /\ UNCHANGED <<role, approved, token, cacheVars, owner, loggingOut, readerVars, requestVars>>

\* The row of the account is gone: the UPDATE of last_login_at finds none.
LoginFails(s) ==
  /\ login[s] = "reading" /\ owner[s] \notin Rows
  /\ login' = [login EXCEPT ![s] = "none"]
  /\ evicted' = [evicted EXCEPT ![s] = {}]
  /\ UNCHANGED <<rowVars, token, cacheVars, owner, loggingOut, readerVars, requestVars>>

\* invalidate_user() after the commit, then the answer with the cookie.
LoginAnswers(s) ==
  /\ login[s] = "committed"
  /\ login' = [login EXCEPT ![s] = "none"]
  /\ Invalidate(SessionsOf(owner[s]))
  /\ UNCHANGED <<rowVars, token, owner, evicted, loggingOut, readerVars, requestVars>>

\* logout(): the session is revoked and the transaction committed.
LogoutCommits(s) ==
  /\ Presented(s) /\ Usable(s)
  /\ live' = live \ {s}
  /\ loggingOut' = loggingOut \union {s}
  /\ UNCHANGED <<role, approved, token, cacheVars, owner, login, evicted, readerVars, requestVars>>

\* invalidate_session() after the commit.
LogoutAnswers(s) ==
  /\ s \in loggingOut
  /\ loggingOut' = loggingOut \ {s}
  /\ Invalidate({s})
  /\ UNCHANGED <<rowVars, token, owner, login, evicted, readerVars, requestVars>>

\* The session's life or its idle time is over.  An entry's deadline is not after
\* it and is counted from before the look-up, so an entry stored later is stale too.
SessionExpires(s) ==
  /\ s \in live /\ Presented(s)
  /\ live' = live \ {s}
  /\ cache' = cache \ {s}
  /\ current' = {h \in current : cookie[h] # s}
  /\ UNCHANGED <<role, approved, token, loginVars, readerVars, requestVars>>

\* ----- the user routes of an administrator -----

\* require_admin: a usable session of an administrator.
AdminAuthorized(r, s) ==
  /\ at[r] = "idle"
  /\ Presented(s) /\ Usable(s) /\ role[owner[s]] = "admin"
  /\ at' = [at EXCEPT ![r] = "authorized"]
  /\ actor' = [actor EXCEPT ![r] = owner[s]]
  /\ UNCHANGED <<rowVars, token, cacheVars, loginVars, readerVars, op, target, sawApproved, counted>>

\* Mutant: other administrators are not counted.
PermittedUncounted(a, o, u) ==
  /\ u \in Rows
  /\ o = "bar" /\ role[u] = "admin" => u # a
  /\ o = "promote" => role[u] = "listener" /\ u \in approved
  /\ o = "delete" => u # a

\* The checks of update_user(), update_user_role() and delete_user().
Permitted(a, o, u) ==
  LET NotLast == u # a /\ Cardinality(ApprovedAdmins) > 1
  IN  /\ u \in Rows
      /\ o = "bar" /\ role[u] = "admin" => NotLast
      /\ o = "promote" => role[u] = "listener" /\ u \in approved
      /\ o = "delete" => u # a /\ (u \in ApprovedAdmins => NotLast)

\* The look at the target and at the other administrators.  Whoever loses sessions
\* has the cache entries dropped before the first write (revoke_user_sessions).
AdminReads(r, o, u) ==
  /\ at[r] = "authorized" /\ Permitted(actor[r], o, u)
  /\ at' = [at EXCEPT ![r] = "read"]
  /\ op' = [op EXCEPT ![r] = o]
  /\ target' = [target EXCEPT ![r] = u]
  /\ sawApproved' = IF u \in approved THEN sawApproved \union {r} ELSE sawApproved
  /\ counted' = [counted EXCEPT ![r] = ApprovedAdmins]
  /\ IF o = "approve" THEN UNCHANGED cacheVars ELSE Invalidate(SessionsOf(u))
  /\ UNCHANGED <<rowVars, token, loginVars, readerVars, actor>>

\* Refused by a check, or because the account has uploads in the queue.
AdminRefused(r) ==
  /\ at[r] = "authorized"
  /\ Finished(r)
  /\ UNCHANGED <<rowVars, token, cacheVars, loginVars, readerVars>>

\* Mutant: the audit row keeps the administrator's name, without a reference.
CanCommitUnaudited(r) == op[r] # "delete" => target[r] \in Rows

\* The audit row refers to the administrator, and an UPDATE has to find its row.
CanCommit(r) ==
  /\ actor[r] \in Rows
  /\ op[r] # "delete" => target[r] \in Rows

\* The new status.  A status equal to the one that was read is not written; that
\* pending, rejected and disabled differ is left open.
StatusWritten(r) ==
  LET u == target[r]
  IN  CASE op[r] = "approve" ->
             approved' = IF r \in sawApproved THEN approved ELSE approved \union {u}
        [] op[r] = "bar" ->
             \/ approved' = approved \ {u}
             \/ r \notin sawApproved /\ approved' = approved
        [] op[r] = "promote" -> approved' = approved
        [] op[r] = "delete" -> approved' = approved \ {u}

RoleWritten(r) ==
  role' = CASE op[r] = "promote" -> [role EXCEPT ![target[r]] = "admin"]
            [] op[r] = "delete" -> [role EXCEPT ![target[r]] = "none"]
            [] OTHER -> role

\* The transaction of an approval.
AdminApproves(r) ==
  /\ at[r] = "read" /\ op[r] = "approve" /\ CanCommit(r)
  /\ StatusWritten(r) /\ RoleWritten(r)
  /\ Finished(r)
  /\ UNCHANGED <<live, token, cacheVars, loginVars, readerVars>>

\* The transaction of the others: the sessions, the audit row and the account.
AdminRevokes(r) ==
  /\ at[r] = "read" /\ op[r] # "approve" /\ CanCommit(r)
  /\ StatusWritten(r) /\ RoleWritten(r)
  /\ live' = live \ SessionsOf(target[r])
  /\ at' = [at EXCEPT ![r] = "committed"]
  /\ UNCHANGED <<token, cacheVars, loginVars, readerVars, actor, op, target, sawApproved, counted>>

AdminFails(r) ==
  /\ at[r] = "read" /\ ~CanCommit(r)
  /\ Finished(r)
  /\ UNCHANGED <<rowVars, token, cacheVars, loginVars, readerVars>>

\* invalidate_user() after the commit.
AdminAnswers(r) ==
  /\ at[r] = "committed"
  /\ Finished(r)
  /\ Invalidate(SessionsOf(target[r]))
  /\ UNCHANGED <<rowVars, token, loginVars, readerVars>>

\* ----- authenticate_stream_request() -----

\* A miss notes the cache generation.  A hit changes nothing.
StreamMisses(h, s) ==
  /\ reader[h] = "idle" /\ Presented(s) /\ s \notin cache
  /\ reader' = [reader EXCEPT ![h] = "missed"]
  /\ cookie' = [cookie EXCEPT ![h] = s]
  /\ current' = current \union {h}
  /\ UNCHANGED <<rowVars, token, cache, loginVars, requestVars>>

\* The look-up in the database.
StreamReads(h) ==
  /\ reader[h] = "missed" /\ Usable(cookie[h])
  /\ reader' = [reader EXCEPT ![h] = "read"]
  /\ UNCHANGED <<rowVars, token, cacheVars, loginVars, cookie, requestVars>>

StreamRefused(h) ==
  /\ reader[h] = "missed" /\ ~Usable(cookie[h])
  /\ reader' = [reader EXCEPT ![h] = "idle"]
  /\ current' = current \ {h}
  /\ UNCHANGED <<rowVars, token, cache, loginVars, cookie, requestVars>>

\* Mutant: the generation is not compared.
StreamStoresAlways(h) ==
  /\ reader[h] = "read"
  /\ reader' = [reader EXCEPT ![h] = "idle"]
  /\ cache' = cache \union {cookie[h]}
  /\ current' = current \ {h}
  /\ UNCHANGED <<rowVars, token, loginVars, cookie, requestVars>>

\* The entry is stored under the generation of the miss only.
StreamStores(h) ==
  /\ reader[h] = "read"
  /\ reader' = [reader EXCEPT ![h] = "idle"]
  /\ cache' = IF h \in current THEN cache \union {cookie[h]} ELSE cache
  /\ current' = current \ {h}
  /\ UNCHANGED <<rowVars, token, loginVars, cookie, requestVars>>

\* An entry's few seconds are over, or newer ones displace it.
EntryExpires(s) ==
  /\ s \in cache
  /\ cache' = cache \ {s}
  /\ UNCHANGED <<rowVars, token, current, loginVars, readerVars, requestVars>>

\* The service crashes and starts again: rows stay, everything in memory is gone, and
\* synchronize() keeps or creates the token if there is no administrator.
Restart ==
  /\ login' = [s \in Sessions |-> "none"]
  /\ evicted' = [s \in Sessions |-> {}]
  /\ loggingOut' = {} /\ cache' = {} /\ current' = {}
  /\ reader' = [h \in Readers |-> "idle"]
  /\ at' = [r \in Requests |-> "idle"]
  /\ actor' = [r \in Requests |-> 1]
  /\ op' = [r \in Requests |-> "approve"]
  /\ target' = [r \in Requests |-> 1]
  /\ sawApproved' = {}
  /\ counted' = [r \in Requests |-> {}]
  /\ token' = IF AdminRows # {} THEN "none" ELSE IF token = "none" THEN "fresh" ELSE token
  /\ UNCHANGED <<rowVars, owner, cookie>>

-----------------------------------------------------------------------------
SessionStep(s) ==
  \/ \E u \in Ids : LoginReads(s, u)
  \/ LoginCommits(s) \/ LoginFails(s) \/ LoginAnswers(s)
  \/ LogoutCommits(s) \/ LogoutAnswers(s) \/ SessionExpires(s) \/ EntryExpires(s)

RequestStep(r) ==
  \/ SetupChecks(r) \/ (\E u \in Ids : SetupCommits(r, u)) \/ SetupFails(r) \/ SetupAnswers(r)
  \/ \E s \in Sessions : AdminAuthorized(r, s)
  \/ \E o \in Operations, u \in Ids : AdminReads(r, o, u)
  \/ AdminRefused(r) \/ AdminApproves(r) \/ AdminRevokes(r) \/ AdminFails(r)
  \/ AdminAnswers(r)

ReaderStep(h) ==
  \/ \E s \in Sessions : StreamMisses(h, s)
  \/ StreamReads(h) \/ StreamRefused(h) \/ StreamStores(h)

Next ==
  \/ \E s \in Sessions : SessionStep(s)
  \/ \E r \in Requests : RequestStep(r)
  \/ \E h \in Readers : ReaderStep(h)
  \/ \E u \in Ids : Register(u)
  \/ Restart

Spec == Init /\ [][Next]_vars

-----------------------------------------------------------------------------
\* A handler has ended sessions of s's account, or s itself, in the database and
\* has yet to tell the cache.
Untold(s) ==
  \/ s \in loggingOut
  \/ \E t \in Sessions : login[t] = "committed" /\ owner[t] = owner[s]
  \/ \E r \in Requests : at[r] = "committed" /\ target[r] = owner[s]

\* Setup gives no administrator to a service that has one (SPEC 4.2), however two of its
\* requests, a crash and the deletion of accounts cross; except with a token that has
\* served an earlier request and stayed, as that one failed after its commit (auth.py:92).
SetupOnlyOnce ==
  [][\A r \in Requests : at[r] = "setup" /\ at'[r] = "created" =>
       \/ AdminRows = {}
       \/ token = "spent" /\ \A q \in Requests : at[q] # "created"]_vars

\* The cache admits no session that the database would refuse, except while the
\* handler that ended it has not answered: a look-up that began before never
\* stores what it read after the invalidation.
CacheIsHonest == \A s \in cache : Usable(s) \/ Untold(s)

\* The last approved administrator goes only in a request that counted others who
\* have left since: without a second request at the same time one remains.
LastAdminStays ==
  [][ApprovedAdmins # {} /\ ApprovedAdmins' = {} =>
       \E r \in Requests :
         at[r] = "read" /\ at'[r] # "read" /\ counted[r] # ApprovedAdmins]_vars

\* Setup is not opened again, since the last administrator's row goes only in a
\* request whose own account was deleted and its id given to another one.
AdminRowStays ==
  [][AdminRows # {} /\ AdminRows' = {} =>
       \E r \in Requests :
         at[r] = "read" /\ at'[r] # "read" /\ role[actor[r]] = "listener"]_vars
=============================================================================
