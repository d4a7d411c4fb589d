--------------------------- MODULE AccountsProofs ---------------------------
(***************************************************************************)
(* Theorems about Accounts for every number of accounts, sessions and      *)
(* requests.                                                               *)
(***************************************************************************)
EXTENDS Accounts, FiniteSetTheorems, TLAPS

LEMMA OneIsId == 1 \in Ids
  BY Bounds DEF Ids

\* The id of a new row is that of no other.
LEMMA NewId ==
  ASSUME NEW u \in Ids, NextId(u)
  PROVE  u \notin Rows
  BY DEF NextId, Ids

\* Every variable keeps to its type.
THEOREM TypeCorrect == Spec => []TypeOK
<1>1. Init => TypeOK
  BY OneIsId DEF Init, TypeOK, Operations
<1>2. TypeOK /\ [Next]_vars => TypeOK'
  <2> SUFFICES ASSUME TypeOK, [Next]_vars PROVE TypeOK'
    OBVIOUS
  <2> USE DEF TypeOK, Operations
  <2>1. ASSUME NEW s \in Sessions, NEW u \in Ids, LoginReads(s, u) PROVE TypeOK'
    <3>1. PICK S \in SUBSET Sessions : evicted' = [evicted EXCEPT ![s] = S] \/ evicted' = evicted
      BY <2>1 DEF LoginReads
    <3>2. evicted' \in [Sessions -> SUBSET Sessions]
      BY <3>1
    <3>3. cache' \subseteq Sessions /\ current' \subseteq Readers
      BY <2>1 DEF LoginReads, Invalidate, cacheVars
    <3>4. login' \in [Sessions -> {"none", "reading", "committed"}] /\ owner' \in [Sessions -> Ids]
      BY <2>1 DEF LoginReads
    <3> QED BY <2>1, <3>2, <3>3, <3>4 DEF LoginReads, rowVars, readerVars, requestVars
  <2>2. ASSUME NEW s \in Sessions, LoginCommits(s) PROVE TypeOK'
    BY <2>2 DEF LoginCommits, cacheVars, readerVars, requestVars
  <2>3. ASSUME NEW s \in Sessions, LoginFails(s) \/ LoginAnswers(s) PROVE TypeOK'
    <3>1. login' \in [Sessions -> {"none", "reading", "committed"}]
      BY <2>3 DEF LoginFails, LoginAnswers
    <3>2. evicted' \in [Sessions -> SUBSET Sessions]
      BY <2>3 DEF LoginFails, LoginAnswers
    <3>3. cache' \subseteq Sessions /\ current' \subseteq Readers
      BY <2>3 DEF LoginFails, LoginAnswers, Invalidate, cacheVars
    <3>4. UNCHANGED <<rowVars, token, owner, loggingOut, readerVars, requestVars>>
      BY <2>3 DEF LoginFails, LoginAnswers
    <3> QED BY <3>1, <3>2, <3>3, <3>4 DEF rowVars, readerVars, requestVars
  <2>4. ASSUME NEW s \in Sessions, LogoutCommits(s) \/ LogoutAnswers(s) PROVE TypeOK'
    BY <2>4 DEF LogoutCommits, LogoutAnswers, Invalidate, rowVars, cacheVars, readerVars,
       requestVars
  <2>5. ASSUME NEW s \in Sessions, SessionExpires(s) \/ EntryExpires(s) PROVE TypeOK'
    BY <2>5 DEF SessionExpires, EntryExpires, rowVars, loginVars, readerVars, requestVars
  <2>6. ASSUME NEW r \in Requests, NEW s \in Sessions, AdminAuthorized(r, s) PROVE TypeOK'
    BY <2>6 DEF AdminAuthorized, rowVars, cacheVars, loginVars, readerVars
  <2>7. ASSUME NEW r \in Requests, NEW o \in Operations, NEW u \in Ids, AdminReads(r, o, u)
        PROVE TypeOK'
    BY <2>7 DEF AdminReads, Invalidate, ApprovedAdmins, AdminRows, rowVars, cacheVars,
       loginVars, readerVars
  <2>8. ASSUME NEW r \in Requests, AdminRefused(r) \/ AdminFails(r) \/ AdminAnswers(r)
        PROVE TypeOK'
    <3>1. cache' \subseteq Sessions /\ current' \subseteq Readers
      BY <2>8 DEF AdminRefused, AdminFails, AdminAnswers, Invalidate, cacheVars
    <3>2. Finished(r)
      BY <2>8 DEF AdminRefused, AdminFails, AdminAnswers
    <3>3. UNCHANGED <<rowVars, token, loginVars, readerVars>>
      BY <2>8 DEF AdminRefused, AdminFails, AdminAnswers
    <3> QED BY <3>1, <3>2, <3>3, OneIsId DEF Finished, rowVars, loginVars, readerVars
  <2>9. ASSUME NEW r \in Requests, AdminApproves(r) PROVE TypeOK'
    <3>1. role' = role /\ approved' \subseteq Ids
      BY <2>9 DEF AdminApproves, StatusWritten, RoleWritten
    <3> QED BY <2>9, <3>1, OneIsId DEF AdminApproves, Finished, cacheVars, loginVars,
          readerVars
  <2>10. ASSUME NEW r \in Requests, AdminRevokes(r) PROVE TypeOK'
    <3>1. approved' \subseteq Ids
      BY <2>10 DEF AdminRevokes, StatusWritten
    <3>2. role' \in [Ids -> {"none", "listener", "admin"}]
      BY <2>10 DEF AdminRevokes, RoleWritten
    <3> QED BY <2>10, <3>1, <3>2 DEF AdminRevokes, cacheVars, loginVars, readerVars
  <2>11. ASSUME NEW h \in Readers, NEW s \in Sessions, StreamMisses(h, s) PROVE TypeOK'
    BY <2>11 DEF StreamMisses, rowVars, loginVars, requestVars
  <2>12. ASSUME NEW h \in Readers, StreamReads(h) \/ StreamRefused(h) \/ StreamStores(h)
         PROVE TypeOK'
    BY <2>12 DEF StreamReads, StreamRefused, StreamStores, rowVars, cacheVars, loginVars,
       requestVars
  <2>13. ASSUME NEW u \in Ids, Register(u) PROVE TypeOK'
    BY <2>13 DEF Register, cacheVars, loginVars, readerVars, requestVars
  <2>14. CASE Restart
    BY <2>14, OneIsId DEF Restart, rowVars
  <2>15. CASE UNCHANGED vars
    BY <2>15 DEF vars, rowVars, cacheVars, loginVars, readerVars, requestVars
  <2>16. ASSUME NEW r \in Requests, SetupChecks(r) PROVE TypeOK'
    BY <2>16 DEF SetupChecks, rowVars, cacheVars, loginVars, readerVars
  <2>17. ASSUME NEW r \in Requests, NEW u \in Ids, SetupCommits(r, u) PROVE TypeOK'
    BY <2>17 DEF SetupCommits, cacheVars, loginVars, readerVars
  <2>18. ASSUME NEW r \in Requests, SetupFails(r) \/ SetupAnswers(r) PROVE TypeOK'
    <3>1. Finished(r) /\ token' \in {"none", token}
      BY <2>18 DEF SetupFails, SetupAnswers
    <3>2. UNCHANGED <<rowVars, cacheVars, loginVars, readerVars>>
      BY <2>18 DEF SetupFails, SetupAnswers
    <3> QED BY <3>1, <3>2, OneIsId DEF Finished, rowVars, cacheVars, loginVars, readerVars
  <2> QED
    BY <2>1, <2>2, <2>3, <2>4, <2>5, <2>6, <2>7, <2>8, <2>9, <2>10, <2>11, <2>12, <2>13,
       <2>14, <2>15, <2>16, <2>17, <2>18 DEF Next, SessionStep, RequestStep, ReaderStep
<1> QED BY <1>1, <1>2, PTL DEF Spec

-----------------------------------------------------------------------------
(***************************************************************************)
(* The cache.  A session that a handler may take from the cache or is      *)
(* about to store is Accepted: the database admits it, or the handler that *)
(* ended it has yet to tell the cache.                                     *)
(***************************************************************************)
Accepted(s) == Usable(s) \/ Untold(s)

\* What a look-up of the present generation read may be stored.
ReadersAreHonest ==
  \A h \in Readers : reader[h] = "read" /\ h \in current => Accepted(cookie[h])

\* A login revokes sessions of its own account only.
EvictsItsOwn ==
  \A t \in Sessions :
    /\ login[t] # "reading" => evicted[t] = {}
    /\ \A s \in evicted[t] : owner[s] = owner[t]

IInv == TypeOK /\ EvictsItsOwn /\ CacheIsHonest /\ ReadersAreHonest

\* A step that accepts what was accepted, and neither stores nor reads, keeps both
\* parts about the cache.
LEMMA NothingNew ==
  ASSUME CacheIsHonest, ReadersAreHonest, cache' \subseteq cache, current' \subseteq current,
         UNCHANGED readerVars, TypeOK,
         \A s \in cache' \union {cookie[h] : h \in current'} : Accepted(s) => Accepted(s)'
  PROVE  CacheIsHonest' /\ ReadersAreHonest'
<1>1. CacheIsHonest'
  BY DEF CacheIsHonest, Accepted
<1>2. ReadersAreHonest'
  <2> SUFFICES ASSUME NEW h \in Readers, reader'[h] = "read", h \in current'
               PROVE  Accepted(cookie[h])'
    BY DEF ReadersAreHonest
  <2>1. reader' = reader /\ cookie' = cookie
    BY DEF readerVars
  <2>2. PICK s : s = cookie[h]
    OBVIOUS
  <2>3. Accepted(s)
    BY <2>1, <2>2 DEF ReadersAreHonest
  <2>4. Accepted(s)'
    BY <2>2, <2>3
  <2> QED BY <2>1, <2>2, <2>4 DEF Accepted, Usable, Untold
<1> QED BY <1>1, <1>2

LEMMA EvictionKept ==
  ASSUME IInv, [Next]_vars
  PROVE  EvictsItsOwn'
<1> USE DEF IInv
<1>1. ASSUME NEW s \in Sessions, NEW u \in Ids, LoginReads(s, u) PROVE EvictsItsOwn'
  <2>1. /\ owner' = [owner EXCEPT ![s] = u] /\ login' = [login EXCEPT ![s] = "reading"]
        /\ login[s] = "none" /\ s \notin live /\ \A t \in Sessions : s \notin evicted[t]
    BY <1>1 DEF LoginReads, Unused
  <2>2. PICK S : /\ S \subseteq live \intersect SessionsOf(u)
                 /\ evicted' = [evicted EXCEPT ![s] = S]
    <3>1. CASE UNCHANGED evicted
      <4>1. evicted[s] = {}
        BY <2>1 DEF EvictsItsOwn
      <4>2. evicted' = [evicted EXCEPT ![s] = {}]
        BY <3>1, <4>1 DEF TypeOK
      <4> QED BY <4>2
    <3>2. CASE \E S \in SUBSET (live \intersect SessionsOf(u)) :
                 evicted' = [evicted EXCEPT ![s] = S]
      BY <3>2
    <3> QED BY <1>1, <3>1, <3>2 DEF LoginReads
  <2> SUFFICES ASSUME NEW t \in Sessions
               PROVE  /\ login'[t] # "reading" => evicted'[t] = {}
                      /\ \A x \in evicted'[t] : owner'[x] = owner'[t]
    BY DEF EvictsItsOwn
  <2>3. CASE t = s
    BY <2>1, <2>2, <2>3 DEF TypeOK, SessionsOf
  <2>4. CASE t # s
    BY <2>1, <2>2, <2>4 DEF TypeOK, EvictsItsOwn
  <2> QED BY <2>3, <2>4
<1>2. ASSUME NEW s \in Sessions, LoginCommits(s) \/ LoginFails(s) PROVE EvictsItsOwn'
  BY <1>2 DEF LoginCommits, LoginFails, EvictsItsOwn, TypeOK
<1>3. ASSUME NEW s \in Sessions, LoginAnswers(s) PROVE EvictsItsOwn'
  BY <1>3 DEF LoginAnswers, EvictsItsOwn, TypeOK
<1>4. CASE UNCHANGED <<owner, login, evicted>>
  BY <1>4 DEF EvictsItsOwn
<1>5. CASE Restart
  BY <1>5 DEF Restart, EvictsItsOwn
<1>6. ASSUME NEW s \in Sessions,
             LogoutCommits(s) \/ LogoutAnswers(s) \/ SessionExpires(s) \/ EntryExpires(s)
      PROVE  UNCHANGED <<owner, login, evicted>>
  BY <1>6 DEF LogoutCommits, LogoutAnswers, SessionExpires, EntryExpires, loginVars
<1>7. ASSUME NEW r \in Requests, RequestStep(r) PROVE UNCHANGED <<owner, login, evicted>>
  BY <1>7 DEF RequestStep, SetupChecks, SetupCommits, SetupFails, SetupAnswers,
     AdminAuthorized, AdminReads, AdminRefused, AdminApproves, AdminRevokes, AdminFails,
     AdminAnswers, loginVars
<1>8. ASSUME NEW h \in Readers, ReaderStep(h) PROVE UNCHANGED <<owner, login, evicted>>
  BY <1>8 DEF ReaderStep, StreamMisses, StreamReads, StreamRefused, StreamStores, loginVars
<1>9. ASSUME NEW u \in Ids, Register(u) PROVE UNCHANGED <<owner, login, evicted>>
  BY <1>9 DEF Register, loginVars
<1>10. CASE UNCHANGED vars
  BY <1>4, <1>10 DEF vars, loginVars
<1> QED
  BY <1>1, <1>2, <1>3, <1>4, <1>5, <1>6, <1>7, <1>8, <1>9, <1>10 DEF Next, SessionStep

\* Logins, logouts, expiry: what stops being usable is untold until the handler
\* drops it.
LEMMA SessionStepKeeps ==
  ASSUME IInv, NEW s \in Sessions, SessionStep(s)
  PROVE  CacheIsHonest' /\ ReadersAreHonest'
<1> USE DEF IInv
<1>1. ASSUME NEW u \in Ids, LoginReads(s, u) PROVE CacheIsHonest' /\ ReadersAreHonest'
  <2>1. /\ owner' = [owner EXCEPT ![s] = u] /\ login' = [login EXCEPT ![s] = "reading"]
        /\ UNCHANGED <<rowVars, loggingOut, readerVars, requestVars>>
        /\ Unused(s)
    BY <1>1 DEF LoginReads
  <2>2. cache' \subseteq cache /\ current' \subseteq current
    BY <1>1 DEF LoginReads, Invalidate, cacheVars
  <2>3. ASSUME NEW x \in Sessions, x # s, Accepted(x) PROVE Accepted(x)'
    <3>1. owner'[x] = owner[x]
      BY <2>1, <2>3 DEF TypeOK
    <3>2. CASE Usable(x)
      BY <2>1, <3>1, <3>2 DEF Accepted, Usable, Rows, rowVars
    <3>3. CASE x \in loggingOut
      BY <2>1, <3>3 DEF Accepted, Untold
    <3>4. ASSUME NEW t \in Sessions, login[t] = "committed", owner[t] = owner[x]
          PROVE  Accepted(x)'
      <4>1. t # s
        BY <2>1, <3>4 DEF Unused
      <4>2. login'[t] = "committed" /\ owner'[t] = owner[t]
        BY <2>1, <3>4, <4>1 DEF TypeOK
      <4> QED BY <3>1, <3>4, <4>2 DEF Accepted, Untold
    <3>5. CASE \E r \in Requests : at[r] = "committed" /\ target[r] = owner[x]
      BY <2>1, <3>1, <3>5 DEF Accepted, Untold, requestVars
    <3> QED BY <2>3, <3>2, <3>3, <3>4, <3>5 DEF Accepted, Untold
  <2>4. CacheIsHonest'
    BY <2>1, <2>2, <2>3 DEF CacheIsHonest, Accepted, Unused, TypeOK
  <2>5. ASSUME NEW h \in Readers, reader'[h] = "read", h \in current'
        PROVE  Accepted(cookie[h])'
    <3>1. reader[h] = "read" /\ h \in current /\ cookie' = cookie
      BY <2>1, <2>2, <2>5 DEF readerVars
    <3>2. cookie[h] # s
      BY <2>1, <3>1 DEF Unused
    <3>3. PICK x : x = cookie[h]
      OBVIOUS
    <3>4. x \in Sessions /\ Accepted(x)
      BY <3>1, <3>3 DEF ReadersAreHonest, TypeOK
    <3>5. Accepted(x)'
      BY <2>3, <3>2, <3>3, <3>4
    <3> QED BY <3>1, <3>3, <3>5 DEF Accepted, Usable, Untold
  <2> QED BY <2>4, <2>5 DEF ReadersAreHonest
<1>2. ASSUME LoginCommits(s) PROVE CacheIsHonest' /\ ReadersAreHonest'
  <2>1. ASSUME NEW x \in Sessions, Accepted(x) PROVE Accepted(x)'
    <3>1. /\ owner' = owner /\ role' = role /\ approved' = approved
          /\ loggingOut' = loggingOut /\ UNCHANGED requestVars
          /\ login' = [login EXCEPT ![s] = "committed"]
          /\ live' = (live \ evicted[s]) \union {s}
      BY <1>2 DEF LoginCommits
    <3>2. CASE x \in evicted[s]
      BY <3>1, <3>2 DEF Accepted, Untold, EvictsItsOwn, TypeOK
    <3>3. CASE x \notin evicted[s] /\ Usable(x)
      BY <3>1, <3>3 DEF Accepted, Usable, Rows
    <3>4. CASE Untold(x)
      BY <3>1, <3>4 DEF Accepted, Untold, TypeOK, requestVars
    <3> QED BY <2>1, <3>2, <3>3, <3>4 DEF Accepted
  <2>2. cache' = cache /\ current' = current /\ UNCHANGED readerVars
    BY <1>2 DEF LoginCommits, cacheVars
  <2> QED BY <2>1, <2>2, NothingNew DEF TypeOK
<1>3. ASSUME LoginFails(s) PROVE CacheIsHonest' /\ ReadersAreHonest'
  <2>1. ASSUME NEW x \in Sessions, Accepted(x) PROVE Accepted(x)'
    BY <1>3, <2>1 DEF LoginFails, Accepted, Usable, Untold, Rows, TypeOK, rowVars, requestVars
  <2>2. cache' = cache /\ current' = current /\ UNCHANGED readerVars
    BY <1>3 DEF LoginFails, cacheVars
  <2> QED BY <2>1, <2>2, NothingNew DEF TypeOK
<1>4. ASSUME LoginAnswers(s) PROVE CacheIsHonest' /\ ReadersAreHonest'
  <2>1. ASSUME NEW x \in Sessions, owner[x] # owner[s], Accepted(x) PROVE Accepted(x)'
    BY <1>4, <2>1 DEF LoginAnswers, Accepted, Usable, Untold, Rows, TypeOK, rowVars,
       requestVars
  <2>2. /\ cache' = cache \ SessionsOf(owner[s]) /\ current' = {}
        /\ UNCHANGED readerVars
    BY <1>4 DEF LoginAnswers, Invalidate
  <2>3. \A x \in cache' : x \in Sessions /\ owner[x] # owner[s]
    BY <2>2 DEF SessionsOf, TypeOK
  <2> QED BY <2>1, <2>2, <2>3, NothingNew DEF TypeOK
<1>5. ASSUME LogoutCommits(s) PROVE CacheIsHonest' /\ ReadersAreHonest'
  <2>1. ASSUME NEW x \in Sessions, Accepted(x) PROVE Accepted(x)'
    BY <1>5, <2>1 DEF LogoutCommits, Accepted, Usable, Untold, Rows, TypeOK, requestVars
  <2>2. cache' = cache /\ current' = current /\ UNCHANGED readerVars
    BY <1>5 DEF LogoutCommits, cacheVars
  <2> QED BY <2>1, <2>2, NothingNew DEF TypeOK
<1>6. ASSUME LogoutAnswers(s) PROVE CacheIsHonest' /\ ReadersAreHonest'
  <2>1. ASSUME NEW x \in Sessions, x # s, Accepted(x) PROVE Accepted(x)'
    BY <1>6, <2>1 DEF LogoutAnswers, Accepted, Usable, Untold, Rows, TypeOK, rowVars,
       requestVars
  <2>2. cache' = cache \ {s} /\ current' = {} /\ UNCHANGED readerVars
    BY <1>6 DEF LogoutAnswers, Invalidate
  <2> QED BY <2>1, <2>2, NothingNew DEF TypeOK
<1>7. ASSUME SessionExpires(s) PROVE CacheIsHonest' /\ ReadersAreHonest'
  <2>1. ASSUME NEW x \in Sessions, x # s, Accepted(x) PROVE Accepted(x)'
    BY <1>7, <2>1 DEF SessionExpires, Accepted, Usable, Untold, Rows, TypeOK, loginVars,
       requestVars
  <2>2. /\ cache' = cache \ {s} /\ current' = {h \in current : cookie[h] # s}
        /\ UNCHANGED readerVars
    BY <1>7 DEF SessionExpires
  <2> QED BY <2>1, <2>2, NothingNew DEF TypeOK
<1>8. ASSUME EntryExpires(s) PROVE CacheIsHonest' /\ ReadersAreHonest'
  <2>1. ASSUME NEW x \in Sessions, Accepted(x) PROVE Accepted(x)'
    BY <1>8, <2>1 DEF EntryExpires, Accepted, Usable, Untold, Rows, rowVars, loginVars,
       requestVars
  <2>2. cache' = cache \ {s} /\ current' = current /\ UNCHANGED readerVars
    BY <1>8 DEF EntryExpires
  <2> QED BY <2>1, <2>2, NothingNew DEF TypeOK
<1> QED BY <1>1, <1>2, <1>3, <1>4, <1>5, <1>6, <1>7, <1>8 DEF SessionStep

\* An administrator's request: what its transaction ends belongs to the target and
\* is untold until the request drops the target's entries.
LEMMA RequestStepKeeps ==
  ASSUME IInv, NEW r \in Requests, RequestStep(r)
  PROVE  CacheIsHonest' /\ ReadersAreHonest'
<1> USE DEF IInv
<1>1. ASSUME at[r] # "committed", at'[r] # "committed",
             \A q \in Requests \ {r} : at'[q] = at[q] /\ target'[q] = target[q],
             UNCHANGED <<live, loginVars, readerVars>>,
             Rows \subseteq Rows', approved \subseteq approved', cache' \subseteq cache, current' \subseteq current
      PROVE  CacheIsHonest' /\ ReadersAreHonest'
  <2>1. ASSUME NEW x \in Sessions, Accepted(x) PROVE Accepted(x)'
    <3>1. CASE Usable(x)
      BY <1>1, <3>1 DEF Accepted, Usable, loginVars
    <3>2. CASE \E q \in Requests : at[q] = "committed" /\ target[q] = owner[x]
      BY <1>1, <3>2 DEF Accepted, Untold, loginVars
    <3>3. CASE \/ x \in loggingOut
               \/ \E t \in Sessions : login[t] = "committed" /\ owner[t] = owner[x]
      BY <1>1, <3>3 DEF Accepted, Untold, loginVars
    <3> QED BY <2>1, <3>1, <3>2, <3>3 DEF Accepted, Untold
  <2> QED BY <1>1, <2>1, NothingNew DEF TypeOK
<1>2. ASSUME NEW s \in Sessions, AdminAuthorized(r, s)
      PROVE  CacheIsHonest' /\ ReadersAreHonest'
  BY <1>1, <1>2 DEF AdminAuthorized, TypeOK, Rows, rowVars, cacheVars
<1>3. ASSUME NEW o \in Operations, NEW u \in Ids, AdminReads(r, o, u)
      PROVE  CacheIsHonest' /\ ReadersAreHonest'
  <2>1. cache' \subseteq cache /\ current' \subseteq current
    BY <1>3 DEF AdminReads, Invalidate, cacheVars
  <2>2. /\ at[r] # "committed" /\ at'[r] # "committed"
        /\ \A q \in Requests \ {r} : at'[q] = at[q] /\ target'[q] = target[q]
    BY <1>3 DEF AdminReads, TypeOK
  <2>3. /\ UNCHANGED <<live, loginVars, readerVars>>
        /\ Rows \subseteq Rows' /\ approved \subseteq approved'
    BY <1>3 DEF AdminReads, Rows, rowVars
  <2> QED BY <1>1, <2>1, <2>2, <2>3
<1>4. ASSUME AdminRefused(r) \/ AdminFails(r) \/ AdminApproves(r) \/ SetupFails(r)
               \/ SetupAnswers(r)
      PROVE  CacheIsHonest' /\ ReadersAreHonest'
  <2>1. UNCHANGED <<cacheVars, live, loginVars, readerVars>>
    BY <1>4 DEF AdminRefused, AdminFails, AdminApproves, SetupFails, SetupAnswers, rowVars
  <2>2. Rows \subseteq Rows' /\ approved \subseteq approved'
    BY <1>4 DEF AdminRefused, AdminFails, AdminApproves, SetupFails, SetupAnswers, RoleWritten,
       StatusWritten, Rows, rowVars
  <2>3. Finished(r) /\ at[r] # "committed"
    BY <1>4 DEF AdminRefused, AdminFails, AdminApproves, SetupFails, SetupAnswers
  <2>4. /\ at'[r] # "committed"
        /\ \A q \in Requests \ {r} : at'[q] = at[q] /\ target'[q] = target[q]
    BY <2>3 DEF Finished, TypeOK
  <2> QED BY <1>1, <2>1, <2>2, <2>3, <2>4 DEF cacheVars
<1>5. ASSUME AdminRevokes(r) PROVE CacheIsHonest' /\ ReadersAreHonest'
  <2> DEFINE u == target[r]
  <2>1. /\ \A v \in Ids \ {u} : role'[v] = role[v] /\ (v \in approved => v \in approved')
        /\ live' = live \ SessionsOf(u)
        /\ at' = [at EXCEPT ![r] = "committed"]
        /\ target' = target
        /\ UNCHANGED <<cacheVars, loginVars, readerVars>>
    BY <1>5 DEF AdminRevokes, RoleWritten, StatusWritten, TypeOK, Operations
  <2>2. ASSUME NEW x \in Sessions, Accepted(x) PROVE Accepted(x)'
    <3>1. CASE owner[x] = u
      BY <2>1, <3>1 DEF Accepted, Untold, TypeOK, loginVars
    <3>2. CASE owner[x] # u /\ Usable(x)
      <4>1. x \in live'
        BY <2>1, <3>2 DEF Usable, SessionsOf
      <4>2. owner[x] \in Ids \ {u}
        BY <3>2 DEF TypeOK
      <4>3. role'[owner[x]] # "none" /\ owner[x] \in approved'
        BY <2>1, <3>2, <4>2 DEF Usable, Rows
      <4> QED BY <2>1, <4>1, <4>2, <4>3 DEF Accepted, Usable, Rows, loginVars
    <3>3. CASE Untold(x)
      BY <2>1, <3>3 DEF Accepted, Untold, TypeOK, loginVars
    <3> QED BY <2>2, <3>1, <3>2, <3>3 DEF Accepted
  <2> QED BY <2>1, <2>2, NothingNew DEF TypeOK, cacheVars
<1>6. ASSUME AdminAnswers(r) PROVE CacheIsHonest' /\ ReadersAreHonest'
  <2>1. \A q \in Requests \ {r} : at'[q] = at[q] /\ target'[q] = target[q]
    BY <1>6 DEF AdminAnswers, Finished, TypeOK
  <2>2. UNCHANGED <<rowVars, loginVars, readerVars>>
    BY <1>6 DEF AdminAnswers
  <2>3. ASSUME NEW x \in Sessions, owner[x] # target[r], Accepted(x) PROVE Accepted(x)'
    BY <2>1, <2>2, <2>3 DEF Accepted, Usable, Untold, Rows, rowVars, loginVars
  <2>4. cache' = cache \ SessionsOf(target[r]) /\ current' = {}
    BY <1>6 DEF AdminAnswers, Invalidate
  <2>5. \A x \in cache' : x \in Sessions /\ owner[x] # target[r]
    BY <2>4 DEF SessionsOf, TypeOK
  <2> QED BY <2>2, <2>3, <2>4, <2>5, NothingNew DEF TypeOK
<1>7. ASSUME SetupChecks(r) PROVE CacheIsHonest' /\ ReadersAreHonest'
  BY <1>1, <1>7 DEF SetupChecks, TypeOK, Rows, rowVars, cacheVars
<1>8. ASSUME NEW u \in Ids, SetupCommits(r, u) PROVE CacheIsHonest' /\ ReadersAreHonest'
  <2>1. Rows \subseteq Rows'
    BY <1>8 DEF SetupCommits, Rows, TypeOK
  <2> QED BY <1>1, <1>8, <2>1 DEF SetupCommits, TypeOK, cacheVars
<1> QED BY <1>2, <1>3, <1>4, <1>5, <1>6, <1>7, <1>8 DEF RequestStep

\* A look-up reads what is usable, and stores it only under its own generation.
LEMMA ReaderStepKeeps ==
  ASSUME IInv, NEW h \in Readers, ReaderStep(h)
  PROVE  CacheIsHonest' /\ ReadersAreHonest'
<1> USE DEF IInv
<1>1. UNCHANGED <<rowVars, loginVars, requestVars>>
  BY DEF ReaderStep, StreamMisses, StreamReads, StreamRefused, StreamStores
<1>2. ASSUME NEW x \in Sessions PROVE Accepted(x)' <=> Accepted(x)
  BY <1>1 DEF Accepted, Usable, Untold, Rows, rowVars, loginVars, requestVars
<1>3. \A g \in Readers \ {h} :
        /\ reader'[g] = reader[g] /\ cookie'[g] = cookie[g]
        /\ g \in current' => g \in current
  BY DEF ReaderStep, StreamMisses, StreamReads, StreamRefused, StreamStores, TypeOK, cacheVars
<1>4. reader'[h] = "read" => Usable(cookie[h]) /\ cookie'[h] = cookie[h]
  BY DEF ReaderStep, StreamMisses, StreamReads, StreamRefused, StreamStores, TypeOK
<1>5. ASSUME NEW x \in cache' PROVE x \in cache \/ (x \in Sessions /\ Accepted(x))
  BY <1>5 DEF ReaderStep, StreamMisses, StreamReads, StreamRefused, StreamStores, TypeOK,
     cacheVars, ReadersAreHonest
<1>6. CacheIsHonest'
  BY <1>2, <1>5 DEF CacheIsHonest, Accepted, TypeOK
<1>7. ASSUME NEW g \in Readers, reader'[g] = "read", g \in current'
      PROVE  Accepted(cookie[g])'
  <2>1. PICK x : x = cookie[g] /\ x \in Sessions
    BY DEF TypeOK
  <2>2. Accepted(x) /\ cookie'[g] = cookie[g]
    BY <1>3, <1>4, <1>7, <2>1 DEF ReadersAreHonest, Accepted
  <2>3. Accepted(x)'
    BY <1>2, <2>1, <2>2
  <2> QED BY <2>1, <2>2, <2>3 DEF Accepted, Usable, Untold
<1> QED BY <1>6, <1>7 DEF ReadersAreHonest

LEMMA InvariantKept == Spec => []IInv
<1>1. Init => IInv
  <2>1. Init => TypeOK
    BY OneIsId DEF Init, TypeOK, Operations
  <2> QED BY <2>1 DEF Init, IInv, EvictsItsOwn, CacheIsHonest, ReadersAreHonest
<1>2. TypeOK /\ TypeOK' /\ IInv /\ [Next]_vars => IInv'
  <2> SUFFICES ASSUME IInv, TypeOK', [Next]_vars PROVE IInv'
    BY DEF IInv
  <2>1. EvictsItsOwn'
    BY EvictionKept
  <2>2. ASSUME NEW u \in Ids, Register(u) PROVE CacheIsHonest' /\ ReadersAreHonest'
    <3>1. ASSUME NEW x \in Sessions, Accepted(x) PROVE Accepted(x)'
      <4>1. CASE Usable(x)
        <5>1. owner[x] # u /\ owner[x] \in Rows
          BY <2>2, <4>1, NewId DEF Register, Usable
        <5>2. owner[x] \in approved'
          BY <2>2, <4>1, <5>1 DEF Register, Usable
        <5>3. role'[owner[x]] = role[owner[x]]
          BY <2>2, <5>1 DEF Register, IInv, TypeOK, Rows
        <5> QED BY <2>2, <4>1, <5>1, <5>2, <5>3 DEF Register, Accepted, Usable, Rows, loginVars
      <4>2. CASE Untold(x)
        BY <2>2, <4>2 DEF Register, Accepted, Untold, loginVars, requestVars
      <4> QED BY <3>1, <4>1, <4>2 DEF Accepted
    <3>2. UNCHANGED <<cacheVars, readerVars>>
      BY <2>2 DEF Register
    <3> QED BY <3>1, <3>2, NothingNew DEF IInv, TypeOK, cacheVars
  <2>3. ASSUME Restart PROVE CacheIsHonest' /\ ReadersAreHonest'
    BY <2>3 DEF Restart, CacheIsHonest, ReadersAreHonest
  <2>4. ASSUME UNCHANGED vars PROVE CacheIsHonest' /\ ReadersAreHonest'
    <3>1. ASSUME NEW x, Accepted(x) PROVE Accepted(x)'
      BY <2>4, <3>1 DEF vars, Accepted, Usable, Untold, Rows, rowVars, loginVars, requestVars
    <3>2. UNCHANGED <<cacheVars, readerVars>>
      BY <2>4 DEF vars
    <3> QED BY <3>1, <3>2, NothingNew DEF IInv, TypeOK, cacheVars
  <2>5. CacheIsHonest' /\ ReadersAreHonest'
    BY <2>2, <2>3, <2>4, SessionStepKeeps, RequestStepKeeps, ReaderStepKeeps DEF Next
  <2> QED BY <2>1, <2>5 DEF IInv
<1> QED BY <1>1, <1>2, TypeCorrect, PTL DEF Spec

\* The cache never admits what the database refuses, unless the handler that ended
\* it has not answered (authenticate_stream_request and every route that revokes).
THEOREM CacheAlwaysHonest == Spec => []CacheIsHonest
<1>1. IInv => CacheIsHonest
  BY DEF IInv
<1> QED BY <1>1, InvariantKept, PTL

-----------------------------------------------------------------------------
(***************************************************************************)
(* Administrators.  What a request has checked it keeps until it commits.  *)
(***************************************************************************)
Checked ==
  \A r \in Requests : at[r] = "read" =>
    /\ op[r] = "delete" => target[r] # actor[r]
    /\ op[r] \in {"bar", "delete"} /\ target[r] \in counted[r] =>
         \E v \in counted[r] : v # target[r]

LEMMA IdsFinite == \A S \in SUBSET Ids : IsFiniteSet(S)
<1>1. 1 \in Int /\ MaxUsers \in Int
  BY Bounds
<1>2. IsFiniteSet(1..MaxUsers)
  BY <1>1, FS_Interval
<1> QED BY <1>2, FS_Subset DEF Ids

LEMMA TwoCounted ==
  ASSUME NEW S \in SUBSET Ids, NEW u \in S, Cardinality(S) > 1
  PROVE  \E v \in S : v # u
<1> SUFFICES ASSUME S = {u} PROVE FALSE
  OBVIOUS
<1>1. Cardinality({u}) = 1
  BY FS_Singleton
<1> QED BY <1>1

LEMMA CheckedKept == Spec => []Checked
<1>1. Init => Checked
  BY DEF Init, Checked
<1>2. TypeOK /\ Checked /\ [Next]_vars => Checked'
  <2> SUFFICES ASSUME TypeOK, Checked, [Next]_vars PROVE Checked'
    OBVIOUS
  <2>1. ASSUME NEW r \in Requests, NEW o \in Operations, NEW u \in Ids, AdminReads(r, o, u)
        PROVE  Checked'
    <3>1. /\ op' = [op EXCEPT ![r] = o] /\ target' = [target EXCEPT ![r] = u]
          /\ counted' = [counted EXCEPT ![r] = ApprovedAdmins]
          /\ actor' = actor /\ at' = [at EXCEPT ![r] = "read"]
          /\ Permitted(actor[r], o, u)
      BY <2>1 DEF AdminReads
    <3>2. o = "delete" => u # actor[r]
      BY <3>1 DEF Permitted
    <3>3. ASSUME o \in {"bar", "delete"}, u \in ApprovedAdmins
          PROVE  \E v \in ApprovedAdmins : v # u
      <4>1. Cardinality(ApprovedAdmins) > 1
        BY <3>1, <3>3 DEF Permitted, ApprovedAdmins, AdminRows
      <4>2. ApprovedAdmins \in SUBSET Ids
        BY DEF ApprovedAdmins, AdminRows
      <4> QED BY <3>3, <4>1, <4>2, TwoCounted
    <3>4. \A q \in Requests \ {r} :
            /\ op'[q] = op[q] /\ target'[q] = target[q] /\ counted'[q] = counted[q]
            /\ actor'[q] = actor[q] /\ at'[q] = at[q]
      BY <3>1 DEF TypeOK
    <3>5. op'[r] = o /\ target'[r] = u /\ counted'[r] = ApprovedAdmins
      BY <3>1 DEF TypeOK
    <3> QED BY <3>1, <3>2, <3>3, <3>4, <3>5 DEF Checked
  <2>2. ASSUME NEW r \in Requests, at'[r] # "read",
               \A q \in Requests \ {r} :
                 /\ op'[q] = op[q] /\ target'[q] = target[q] /\ counted'[q] = counted[q]
                 /\ actor'[q] = actor[q] /\ at'[q] = at[q]
        PROVE  Checked'
    BY <2>2 DEF Checked
  <2>3. ASSUME NEW r \in Requests,
               \/ \E s \in Sessions : AdminAuthorized(r, s)
               \/ SetupChecks(r) \/ \E u \in Ids : SetupCommits(r, u)
        PROVE  Checked'
    BY <2>2, <2>3 DEF AdminAuthorized, SetupChecks, SetupCommits, TypeOK
  <2>4. ASSUME NEW r \in Requests,
               \/ AdminRefused(r) \/ AdminFails(r) \/ AdminApproves(r) \/ AdminAnswers(r)
               \/ SetupFails(r) \/ SetupAnswers(r)
        PROVE  Checked'
    <3>1. Finished(r)
      BY <2>4 DEF AdminRefused, AdminFails, AdminApproves, AdminAnswers, SetupFails,
         SetupAnswers
    <3> QED BY <2>2, <3>1 DEF Finished, TypeOK
  <2>5. ASSUME NEW r \in Requests, AdminRevokes(r) PROVE Checked'
    BY <2>2, <2>5 DEF AdminRevokes, TypeOK
  <2>6. CASE UNCHANGED requestVars
    BY <2>6 DEF requestVars, Checked
  <2>7. CASE Restart
    BY <2>7 DEF Restart, Checked
  <2>8. ASSUME NEW s \in Sessions, SessionStep(s) PROVE UNCHANGED requestVars
    BY <2>8 DEF SessionStep, LoginReads, LoginCommits, LoginFails, LoginAnswers,
       LogoutCommits, LogoutAnswers, SessionExpires, EntryExpires
  <2>9. ASSUME NEW h \in Readers, ReaderStep(h) PROVE UNCHANGED requestVars
    BY <2>9 DEF ReaderStep, StreamMisses, StreamReads, StreamRefused, StreamStores
  <2>10. ASSUME NEW u \in Ids, Register(u) PROVE UNCHANGED requestVars
    BY <2>10 DEF Register
  <2> QED
    BY <2>1, <2>3, <2>4, <2>5, <2>6, <2>7, <2>8, <2>9, <2>10 DEF Next, RequestStep, vars
<1> QED BY <1>1, <1>2, TypeCorrect, PTL DEF Spec

\* Who can take an administrator away, and whom.
LEMMA OnlyRevocationsRemove ==
  ASSUME TypeOK, [Next]_vars,
         (AdminRows \ AdminRows') \union (ApprovedAdmins \ ApprovedAdmins') # {}
  PROVE  \E r \in Requests :
           /\ AdminRevokes(r)
           /\ op[r] \in {"bar", "delete"}
           /\ AdminRows \ {target[r]} \subseteq AdminRows'
           /\ ApprovedAdmins \ {target[r]} \subseteq ApprovedAdmins'
           /\ op[r] = "bar" => AdminRows' = AdminRows
<1>1. ASSUME role' = role, approved \subseteq approved' PROVE FALSE
  BY <1>1 DEF AdminRows, ApprovedAdmins
<1>2. ASSUME NEW u \in Ids, Register(u) PROVE FALSE
  <2>1. u \notin Rows
    BY <1>2, NewId DEF Register
  <2>2. AdminRows \subseteq AdminRows'
    BY <1>2, <2>1 DEF Register, AdminRows, Rows, TypeOK
  <2>3. approved \ {u} \subseteq approved'
    BY <1>2 DEF Register
  <2> QED BY <2>1, <2>2, <2>3 DEF ApprovedAdmins, AdminRows, Rows
<1>3. ASSUME NEW s \in Sessions, SessionStep(s) PROVE role' = role /\ approved' = approved
  BY <1>3 DEF SessionStep, LoginReads, LoginCommits, LoginFails, LoginAnswers, LogoutCommits,
     LogoutAnswers, SessionExpires, EntryExpires, rowVars
<1>4. ASSUME NEW h \in Readers, ReaderStep(h) PROVE role' = role /\ approved' = approved
  BY <1>4 DEF ReaderStep, StreamMisses, StreamReads, StreamRefused, StreamStores, rowVars
<1>5. ASSUME Restart \/ UNCHANGED vars PROVE role' = role /\ approved' = approved
  BY <1>5 DEF Restart, vars, rowVars
<1>6. PICK r \in Requests : RequestStep(r)
  BY <1>1, <1>2, <1>3, <1>4, <1>5 DEF Next
<1>6a. ASSUME NEW u \in Ids, SetupCommits(r, u) PROVE FALSE
  BY <1>6a DEF SetupCommits, AdminRows, ApprovedAdmins, TypeOK
<1>7. ASSUME ~AdminRevokes(r) PROVE role' = role /\ approved \subseteq approved'
  BY <1>6, <1>6a, <1>7 DEF RequestStep, SetupChecks, SetupFails, SetupAnswers,
     AdminAuthorized, AdminReads, AdminRefused, AdminApproves, AdminFails, AdminAnswers,
     RoleWritten, StatusWritten, rowVars
<1>8. AdminRevokes(r)
  BY <1>1, <1>7
<1>9. ASSUME op[r] = "promote" PROVE FALSE
  <2>1. approved' = approved /\ role' = [role EXCEPT ![target[r]] = "admin"]
    BY <1>8, <1>9 DEF AdminRevokes, RoleWritten, StatusWritten
  <2> QED BY <2>1 DEF AdminRows, ApprovedAdmins, TypeOK
<1>10. op[r] \in {"bar", "delete"}
  BY <1>8, <1>9 DEF AdminRevokes, TypeOK, Operations
<1>11. /\ approved \ {target[r]} \subseteq approved'
       /\ \A v \in Ids \ {target[r]} : role'[v] = role[v]
       /\ op[r] = "bar" => role' = role
  BY <1>8, <1>10 DEF AdminRevokes, RoleWritten, StatusWritten, TypeOK
<1> QED BY <1>8, <1>10, <1>11 DEF AdminRows, ApprovedAdmins

\* update_user() and delete_user() leave an approved administrator, unless what
\* they counted has changed when they commit.
THEOREM LastAdminAlwaysStays == Spec => LastAdminStays
<1>1. ASSUME TypeOK, Checked, [Next]_vars, ApprovedAdmins # {}, ApprovedAdmins' = {}
      PROVE  \E r \in Requests :
               at[r] = "read" /\ at'[r] # "read" /\ counted[r] # ApprovedAdmins
  <2>1. PICK r \in Requests :
          /\ AdminRevokes(r) /\ op[r] \in {"bar", "delete"}
          /\ ApprovedAdmins \ {target[r]} \subseteq ApprovedAdmins'
    BY <1>1, OnlyRevocationsRemove
  <2>2. at[r] = "read" /\ at'[r] # "read"
    BY <1>1, <2>1 DEF AdminRevokes, TypeOK
  <2>3. ASSUME counted[r] = ApprovedAdmins PROVE FALSE
    <3>1. target[r] \in ApprovedAdmins
      BY <1>1, <2>1
    <3>2. PICK v \in ApprovedAdmins : v # target[r]
      BY <1>1, <2>1, <2>2, <2>3, <3>1 DEF Checked
    <3> QED BY <1>1, <2>1, <3>2
  <2> QED BY <2>2, <2>3
<1>2. TypeOK /\ Checked /\ [Next]_vars =>
        [ApprovedAdmins # {} /\ ApprovedAdmins' = {} =>
           \E r \in Requests :
             at[r] = "read" /\ at'[r] # "read" /\ counted[r] # ApprovedAdmins]_vars
  BY <1>1
<1> QED BY <1>2, TypeCorrect, CheckedKept, PTL DEF Spec, LastAdminStays

\* The last administrator's row, without which /setup would be open again, goes only
\* when an id was given out twice: the audit row of a deletion needs its author.
THEOREM AdminRowAlwaysStays == Spec => AdminRowStays
<1>1. ASSUME TypeOK, Checked, [Next]_vars, AdminRows # {}, AdminRows' = {}
      PROVE  \E r \in Requests :
               at[r] = "read" /\ at'[r] # "read" /\ role[actor[r]] = "listener"
  <2>1. PICK r \in Requests :
          /\ AdminRevokes(r) /\ op[r] \in {"bar", "delete"}
          /\ AdminRows \ {target[r]} \subseteq AdminRows'
          /\ op[r] = "bar" => AdminRows' = AdminRows
    BY <1>1, OnlyRevocationsRemove
  <2>2. at[r] = "read" /\ at'[r] # "read"
    BY <1>1, <2>1 DEF AdminRevokes, TypeOK
  <2>3. op[r] = "delete" /\ target[r] # actor[r]
    BY <1>1, <2>1, <2>2 DEF Checked
  <2>4. actor[r] \in Ids /\ role[actor[r]] # "none"
    BY <2>1 DEF AdminRevokes, CanCommit, Rows
  <2>5. actor[r] \notin AdminRows
    BY <1>1, <2>1, <2>3
  <2> QED BY <1>1, <2>2, <2>4, <2>5 DEF AdminRows, TypeOK
<1>2. TypeOK /\ Checked /\ [Next]_vars =>
        [AdminRows # {} /\ AdminRows' = {} =>
           \E r \in Requests :
             at[r] = "read" /\ at'[r] # "read" /\ role[actor[r]] = "listener"]_vars
  BY <1>1
<1> QED BY <1>2, TypeCorrect, CheckedKept, PTL DEF Spec, AdminRowStays

-----------------------------------------------------------------------------
(***************************************************************************)
(* The setup of the first administrator.                                   *)
(***************************************************************************)
\* One setup request at a time is past the lock, it has read a token, and a token that
\* has served nobody means that no administrator ever was.
OneSetup ==
  /\ \A r, q \in Requests : {at[r], at[q]} \subseteq {"setup", "created"} => r = q
  /\ \A r \in Requests : at[r] = "setup" => token # "none"
  /\ token = "fresh" => AdminRows = {} /\ \A r \in Requests : at[r] \in {"idle", "setup"}

LEMMA OneSetupKept == Spec => []OneSetup
<1>1. Init => OneSetup
  BY DEF Init, OneSetup, AdminRows
<1>2. TypeOK /\ OneSetup /\ [Next]_vars => OneSetup'
  <2> SUFFICES ASSUME TypeOK, OneSetup, [Next]_vars PROVE OneSetup'
    OBVIOUS
  <2>1. ASSUME NEW r \in Requests, SetupChecks(r) PROVE OneSetup'
    BY <2>1 DEF SetupChecks, OneSetup, AdminRows, TypeOK, rowVars
  <2>2. ASSUME NEW r \in Requests, NEW u \in Ids, SetupCommits(r, u) PROVE OneSetup'
    BY <2>2 DEF SetupCommits, OneSetup, TypeOK
  <2>3. ASSUME NEW r \in Requests, SetupFails(r) PROVE OneSetup'
    BY <2>3 DEF SetupFails, Finished, OneSetup, AdminRows, TypeOK, rowVars
  <2>4. ASSUME NEW r \in Requests, SetupAnswers(r) PROVE OneSetup'
    BY <2>4 DEF SetupAnswers, Finished, OneSetup, AdminRows, TypeOK, rowVars
  <2>5. ASSUME UNCHANGED <<token, at>>, token = "fresh" => role' = role PROVE OneSetup'
    BY <2>5 DEF OneSetup, AdminRows
  <2>6. ASSUME NEW r \in Requests, at[r] \notin {"setup", "created"},
               at'[r] \notin {"setup", "created"}, token' = token, token # "fresh",
               \A q \in Requests \ {r} : at'[q] = at[q]
        PROVE  OneSetup'
    BY <2>6 DEF OneSetup
  <2>7. ASSUME NEW r \in Requests, NEW s \in Sessions, AdminAuthorized(r, s) PROVE OneSetup'
    <3>1. token # "fresh"
      BY <2>7 DEF AdminAuthorized, OneSetup, AdminRows, TypeOK
    <3> QED BY <2>6, <2>7, <3>1 DEF AdminAuthorized, TypeOK
  <2>8. ASSUME NEW r \in Requests,
               \/ \E o \in Operations, u \in Ids : AdminReads(r, o, u)
               \/ AdminRefused(r) \/ AdminApproves(r) \/ AdminRevokes(r) \/ AdminFails(r)
               \/ AdminAnswers(r)
        PROVE  OneSetup'
    <3>1. at[r] \in {"authorized", "read", "committed"} /\ token' = token
      BY <2>8 DEF AdminReads, AdminRefused, AdminApproves, AdminRevokes, AdminFails, AdminAnswers
    <3>2. /\ at'[r] \in {"idle", "read", "committed"}
          /\ \A q \in Requests \ {r} : at'[q] = at[q]
      BY <2>8 DEF AdminReads, AdminRefused, AdminApproves, AdminRevokes, AdminFails,
         AdminAnswers, Finished, TypeOK
    <3>3. token # "fresh"
      BY <3>1 DEF OneSetup
    <3> QED BY <2>6, <3>1, <3>2, <3>3
  <2>9. ASSUME NEW s \in Sessions, SessionStep(s) PROVE OneSetup'
    BY <2>5, <2>9 DEF SessionStep, LoginReads, LoginCommits, LoginFails, LoginAnswers,
       LogoutCommits, LogoutAnswers, SessionExpires, EntryExpires, rowVars, requestVars
  <2>10. ASSUME NEW h \in Readers, ReaderStep(h) PROVE OneSetup'
    BY <2>5, <2>10 DEF ReaderStep, StreamMisses, StreamReads, StreamRefused, StreamStores,
       rowVars, requestVars
  <2>11. ASSUME NEW u \in Ids, Register(u) PROVE OneSetup'
    <3>1. token # "fresh"
      BY <2>11 DEF Register, OneSetup
    <3> QED BY <2>5, <2>11, <3>1 DEF Register, requestVars
  <2>12. CASE Restart
    BY <2>12 DEF Restart, OneSetup, AdminRows, rowVars
  <2>13. CASE UNCHANGED vars
    BY <2>5, <2>13 DEF vars, rowVars, requestVars
  <2> QED
    BY <2>1, <2>2, <2>3, <2>4, <2>7, <2>8, <2>9, <2>10, <2>11, <2>12, <2>13
       DEF Next, RequestStep
<1> QED BY <1>1, <1>2, TypeCorrect, PTL DEF Spec

\* create_first_admin() gives a service that has an administrator no other one, unless
\* the file of a token stayed when an earlier request failed after its commit.
THEOREM SetupAlwaysOnce == Spec => SetupOnlyOnce
<1>1. ASSUME TypeOK, OneSetup, [Next]_vars, NEW r \in Requests, at[r] = "setup",
             at'[r] = "created"
      PROVE  \/ AdminRows = {}
             \/ token = "spent" /\ \A q \in Requests : at[q] # "created"
  <2>1. token \in {"fresh", "spent"} /\ \A q \in Requests : at[q] # "created"
    BY <1>1 DEF OneSetup, TypeOK
  <2> QED BY <1>1, <2>1 DEF OneSetup
<1>2. TypeOK /\ OneSetup /\ [Next]_vars =>
        [\A r \in Requests : at[r] = "setup" /\ at'[r] = "created" =>
           \/ AdminRows = {}
           \/ token = "spent" /\ \A q \in Requests : at[q] # "created"]_vars
  BY <1>1
<1> QED BY <1>2, TypeCorrect, OneSetupKept, PTL DEF Spec, SetupOnlyOnce
=============================================================================
