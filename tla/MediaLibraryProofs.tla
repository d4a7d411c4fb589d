------------------------- MODULE MediaLibraryProofs -------------------------
(***************************************************************************)
(* Theorems about MediaLibrary for every number of tracks, contents, files,*)
(* locations, imports, deletions and supervisors.                          *)
(***************************************************************************)
EXTENDS MediaLibrary, FiniteSetTheorems, TLAPS

\* An import has a content until it ends, a file once a place is promised, and an
\* old file from its second look on.
ImportsKnow ==
  \A w \in Workers :
    /\ content[w] = NoContent <=> task[w] = "idle"
    /\ new[w] = NoFile <=> task[w] \in {"idle", "staged", "looked", "replaced"}
    /\ task[w] \notin {"rechecked", "replaced", "inserted"} => old[w] = NoFile

TInv == TypeOK /\ ImportsKnow

\* What a step leaves alone, by parts of the state.
LEMMA FinishedType ==
  ASSUME NEW w \in Workers, TInv, Finished(w)
  PROVE  /\ task' \in [Workers -> Holding \union {"idle", "staged"}]
         /\ content' \in [Workers -> Contents \union {NoContent}]
         /\ new' \in [Workers -> Files \union {NoFile}]
         /\ found' \in [Workers -> Ids \union {0}]
         /\ old' \in [Workers -> Files \union {NoFile}]
         /\ wasOk' \subseteq Workers
         /\ ImportsKnow'
<1> USE DEF TInv, TypeOK, Finished
<1>1. task' \in [Workers -> Holding \union {"idle", "staged"}]
  OBVIOUS
<1>2. content' \in [Workers -> Contents \union {NoContent}]
  OBVIOUS
<1>3. new' \in [Workers -> Files \union {NoFile}]
  OBVIOUS
<1>4. /\ found' \in [Workers -> Ids \union {0}] /\ old' \in [Workers -> Files \union {NoFile}]
      /\ wasOk' \subseteq Workers
  OBVIOUS
<1>5. ImportsKnow'
  BY DEF ImportsKnow
<1> QED BY <1>1, <1>2, <1>3, <1>4, <1>5

LEMMA WithoutType ==
  ASSUME TypeOK, NEW f
  PROVE  Without(f) \in [Files -> {"none", "part", "media", "stuck"}]
BY DEF TypeOK, Without

\* A removal changes its file only: it is gone, stuck, or as it was.
LEMMA RemovalIs ==
  ASSUME TypeOK, NEW f, Removal(f)
  PROVE  /\ file' \in [Files -> {"none", "part", "media", "stuck"}]
         /\ \A g \in Files : g # f => file'[g] = file[g]
         /\ \A g \in Files : file'[g] # "none" => file[g] # "none"
         /\ \A g \in Files : file'[g] = "media" => file[g] = "media"
<1>1. CASE file' = Without(f)
  BY <1>1 DEF TypeOK, Without
<1>2. CASE f \in Fallible /\ file' = StuckWith(f)
  BY <1>2, FallibleAreFiles DEF TypeOK, StuckWith
<1> QED BY <1>1, <1>2 DEF Removal

LEMMA ReleasedType ==
  ASSUME NEW w \in Workers, TypeOK, Released(w)
  PROVE  reserved' \in [Locations -> Nat]
<1>1. \A n \in Nat : (IF n > 0 THEN n - 1 ELSE 0) \in Nat
  OBVIOUS
<1>2. PICK l : reserved' = [reserved EXCEPT ![l] = IF @ > 0 THEN @ - 1 ELSE 0]
  BY DEF Released
<1>3. CASE l \in Locations
  <2>1. reserved[l] \in Nat
    BY <1>3 DEF TypeOK
  <2>2. PICK n \in Nat : reserved' = [reserved EXCEPT ![l] = n]
    BY <1>1, <1>2, <2>1
  <2> QED BY <2>2 DEF TypeOK
<1>4. CASE l \notin Locations
  <2>1. reserved \in [Locations -> Nat]
    BY DEF TypeOK
  <2>2. [reserved EXCEPT ![l] = IF @ > 0 THEN @ - 1 ELSE 0] = reserved
    BY <1>4, <2>1
  <2> QED BY <1>2, <2>1, <2>2
<1> QED BY <1>3, <1>4

LEMMA MarkedType ==
  ASSUME TypeOK, NEW t, NEW s \in Statuses
  PROVE  /\ Marked(t, s) \in [Ids -> Statuses \union {"none"}]
         /\ \A u \in Ids : Marked(t, s)[u] = "none" <=> status[u] = "none"
BY DEF TypeOK, Marked, Rows, Statuses

LEMMA TypeInvariant == TInv /\ [Next]_vars => TInv'
<1> SUFFICES ASSUME TInv, [Next]_vars PROVE TInv'
  OBVIOUS
<1> USE DEF TInv, TypeOK
<1>1. ASSUME NEW w \in Workers, NEW c \in Contents, ImportStarts(w, c) PROVE TInv'
  BY <1>1, NoValues DEF ImportStarts, ImportsKnow, rowVars, diskVars, deleteVars, playVars, scanVars,
     Rows
<1>2. ASSUME NEW w \in Workers, ImportLooks(w) PROVE TInv'
  <2>1. CASE Duplicate(content[w])
    BY <1>2, <2>1, FinishedType DEF ImportLooks, rowVars, diskVars, deleteVars, playVars,
       scanVars, Rows
  <2>2. CASE ~Duplicate(content[w])
    BY <1>2, <2>2 DEF ImportLooks, rowVars, diskVars, deleteVars, playVars,
       scanVars, Rows, ImportsKnow, Holding
  <2> QED BY <2>1, <2>2
<1>3. ASSUME NEW w \in Workers, NEW f \in Files, PlacePromises(w, f) PROVE TInv'
  BY <1>3, NoValues, LocationsConfigured DEF PlacePromises, rowVars, deleteVars, playVars,
     scanVars, Rows, ImportsKnow, Holding, Reserving
<1>4. ASSUME NEW w \in Workers,
             NoPlace(w) \/ InsertReturns(w)
      PROVE  TInv'
  BY <1>4, FinishedType DEF NoPlace, InsertReturns, rowVars, diskVars, deleteVars, playVars,
     scanVars, Rows
<1>5. ASSUME NEW w \in Workers, PlaceCopied(w) \/ PlacePublishes(w) PROVE TInv'
  BY <1>5 DEF PlaceCopied, PlacePublishes, rowVars, deleteVars, playVars, scanVars, Rows,
     ImportsKnow, Holding, Reserving
<1>6. ASSUME NEW w \in Workers, PlaceReturns(w) PROVE TInv'
  BY <1>6, ReleasedType DEF PlaceReturns, rowVars, deleteVars, playVars, scanVars, Rows,
     ImportsKnow, Holding, Reserving
<1>7. ASSUME NEW w \in Workers, CopyFails(w) \/ PublishFails(w) PROVE TInv'
  <2>1. reserved' \in [Locations -> Nat]
    BY <1>7, ReleasedType DEF CopyFails, PublishFails
  <2>2. file' \in [Files -> {"none", "part", "media", "stuck"}]
    BY <1>7, WithoutType DEF CopyFails, PublishFails
  <2>3. Finished(w) /\ UNCHANGED <<rowVars, listed, online, deleteVars, playVars, scanVars>>
    BY <1>7 DEF CopyFails, PublishFails
  <2> QED BY <2>1, <2>2, <2>3, FinishedType DEF rowVars, deleteVars, playVars, scanVars, Rows
<1>8. ASSUME NEW w \in Workers, RecheckRejects(w) \/ RepairReturns(w) \/ ImportFails(w) PROVE TInv'
  <2>1. /\ file' \in [Files -> {"none", "part", "media", "stuck"}]
        /\ Finished(w)
        /\ UNCHANGED <<rowVars, listed, reserved, online, deleteVars, playVars, scanVars>>
    BY <1>8, RemovalIs DEF RecheckRejects, RepairReturns, ImportFails
  <2> QED BY <2>1, FinishedType DEF rowVars, deleteVars, playVars, scanVars, Rows
<1>9. ASSUME NEW w \in Workers, Recheck(w) PROVE TInv'
  BY <1>9 DEF Recheck, RowsOf, rowVars, diskVars, deleteVars, playVars, scanVars, Rows,
     ImportsKnow, Holding, Reserving
<1>10. ASSUME NEW w \in Workers, RepairCommits(w) PROVE TInv'
  BY <1>10, NoValues DEF RepairCommits, diskVars, deleteVars, playVars, scanVars, Rows,
     ImportsKnow, Holding, Reserving, Statuses
<1>11. ASSUME NEW w \in Workers, NEW t \in Ids, InsertCommits(w, t) PROVE TInv'
  BY <1>11, NoValues DEF InsertCommits, diskVars, deleteVars, playVars, scanVars, Rows,
     ImportsKnow, Holding, Reserving, Statuses
<1>12. ASSUME NEW d \in Deleters, NEW t \in Ids, DeleteReads(d, t) PROVE TInv'
  BY <1>12 DEF DeleteReads, rowVars, diskVars, importVars, playVars, scanVars, Rows, ImportsKnow
<1>13. ASSUME NEW d \in Deleters, DeleteCommits(d) PROVE TInv'
  <2>1. /\ status' = [status EXCEPT ![victim[d]] = "none"]
        /\ sha' = [sha EXCEPT ![victim[d]] = NoContent]
        /\ path' = [path EXCEPT ![victim[d]] = NoFile]
        /\ at' = [at EXCEPT ![d] = "committed"]
        /\ UNCHANGED <<listed, diskVars, online, importVars, victim, doomed, playVars, scanVars>>
    BY <1>13 DEF DeleteCommits
  <2>2. status' \in [Ids -> Statuses \union {"none"}] /\ at' \in [Deleters -> {"idle", "read", "committed"}]
    BY <2>1
  <2>3. sha' \in [Ids -> Contents \union {NoContent}]
    BY <2>1
  <2>4. path' \in [Ids -> Files \union {NoFile}]
    BY <2>1
  <2>5. ASSUME NEW t \in Ids
        PROVE  (t \notin Rows' <=> sha'[t] = NoContent) /\ (t \notin Rows' <=> path'[t] = NoFile)
    BY <2>1, NoValues DEF Rows
  <2>6. ImportsKnow'
    BY <2>1 DEF ImportsKnow, importVars
  <2> QED BY <2>1, <2>2, <2>3, <2>4, <2>5, <2>6 DEF diskVars, importVars, playVars, scanVars
<1>14. ASSUME NEW d \in Deleters, DeleteFails(d) \/ DeleteReturns(d) PROVE TInv'
  <2>1. file' \in [Files -> {"none", "part", "media", "stuck"}]
    BY <1>14, RemovalIs DEF DeleteFails, DeleteReturns, diskVars
  <2>2. /\ DeleteEnds(d)
        /\ UNCHANGED <<rowVars, listed, reserved, online, importVars, playVars, scanVars>>
    BY <1>14 DEF DeleteFails, DeleteReturns, diskVars
  <2> QED BY <2>1, <2>2 DEF DeleteEnds, rowVars, importVars, playVars, scanVars, Rows, ImportsKnow
<1>15. ASSUME NEW p \in Players, NEW t \in Ids, PlayReads(p, t) PROVE TInv'
  BY <1>15 DEF PlayReads, rowVars, diskVars, importVars, deleteVars, scanVars, Rows, ImportsKnow
<1>16. ASSUME NEW p \in Players, PlayOpens(p) PROVE TInv'
  BY <1>16 DEF PlayOpens, rowVars, diskVars, importVars, deleteVars, scanVars, Rows, ImportsKnow
<1>17. ASSUME NEW p \in Players, PlayMisses(p) \/ PlayStarts(p) \/ PlayFails(p) PROVE TInv'
  <2>1. /\ status' \in [Ids -> Statuses \union {"none"}]
        /\ \A u \in Ids : status'[u] = "none" <=> status[u] = "none"
    BY <1>17, MarkedType DEF PlayMisses, PlayStarts, PlayFails, Statuses
  <2>2. UNCHANGED <<sha, path, listed, diskVars, online, importVars, deleteVars, scanVars>>
    BY <1>17 DEF PlayMisses, PlayStarts, PlayFails
  <2>3. PlayEnds(p)
    BY <1>17 DEF PlayMisses, PlayStarts, PlayFails
  <2> QED BY <2>1, <2>2, <2>3 DEF PlayEnds, diskVars, importVars, deleteVars, scanVars, Rows,
        ImportsKnow
<1>18. ASSUME NEW t \in Ids, PlaylistEdited(t) PROVE TInv'
  BY <1>18 DEF PlaylistEdited, rowVars, diskVars, importVars, deleteVars, playVars, scanVars,
     Rows, ImportsKnow
<1>19. ASSUME NEW l \in Locations, MountChanges(l) PROVE TInv'
  BY <1>19 DEF MountChanges, rowVars, diskVars, importVars, deleteVars, playVars, scanVars,
     Rows, ImportsKnow
<1>20. CASE ScanReads
  BY <1>20 DEF ScanReads, rowVars, diskVars, importVars, deleteVars, playVars, Rows, ImportsKnow
<1>21. ASSUME NEW t \in Ids, ScanChecks(t) PROVE TInv'
  BY <1>21 DEF ScanChecks, rowVars, diskVars, importVars, deleteVars, playVars, Rows, ImportsKnow
<1>22. CASE ScanCommits
  BY <1>22 DEF ScanCommits, ScanEnds, diskVars, importVars, deleteVars, playVars, Rows,
     ImportsKnow, Statuses
<1>23. CASE ScanFails
  BY <1>23 DEF ScanFails, ScanEnds, rowVars, diskVars, importVars, deleteVars, playVars, Rows,
     ImportsKnow
<1>24. CASE Restart
  <2>1. file' \in [Files -> {"none", "part", "media", "stuck"}]
    BY <1>24 DEF Restart
  <2> QED BY <1>24, <2>1 DEF Restart, ScanEnds, rowVars, Rows, ImportsKnow
<1>25. CASE UNCHANGED vars
  BY <1>25 DEF vars, rowVars, diskVars, importVars, deleteVars, playVars, scanVars, Rows,
     ImportsKnow
<1> QED
  BY <1>1, <1>2, <1>3, <1>4, <1>5, <1>6, <1>7, <1>8, <1>9, <1>10, <1>11, <1>12, <1>13, <1>14,
     <1>15, <1>16, <1>17, <1>18, <1>19, <1>20, <1>21, <1>22, <1>23, <1>24, <1>25
  DEF Next, ImportStep, DeleteStep, PlayStep, ScanStep

LEMMA TypeInitially == Init => TInv
BY DEF Init, TInv, TypeOK, ImportsKnow, Rows

\* Every variable keeps to its type, and a row has its digest and file.
THEOREM TypeCorrect == Spec => []TypeOK
<1>1. TInv => TypeOK
  BY DEF TInv
<1> QED BY <1>1, TypeInitially, TypeInvariant, PTL DEF Spec

-----------------------------------------------------------------------------
(***************************************************************************)
(* The lock of a digest and the unique index.                              *)
(***************************************************************************)
LockHeld ==
  \A v, w \in Workers :
    task[v] \in Holding /\ task[w] \in Holding /\ content[v] = content[w] => v = w

UInv == TInv /\ LockHeld /\ UniqueIndexNeverHit

\* Imports that go on where they are or end, and no new row.
LEMMA NoNewRow ==
  ASSUME UInv,
         \A w \in Workers : task'[w] \in Holding =>
            task[w] \in Holding /\ content'[w] = content[w],
         \A w \in Workers : task'[w] = "rechecked" /\ found'[w] = 0 =>
            task[w] = "rechecked" /\ found[w] = 0 /\ content'[w] = content[w],
         \A t \in Ids : status'[t] # "none" => status[t] # "none" /\ sha'[t] = sha[t]
  PROVE  LockHeld' /\ UniqueIndexNeverHit'
BY DEF UInv, LockHeld, UniqueIndexNeverHit, RowsOf, Rows

LEMMA FinishedHolds ==
  ASSUME NEW w \in Workers, TInv, Finished(w)
  PROVE  /\ \A v \in Workers : task'[v] \in Holding =>
              task[v] \in Holding /\ content'[v] = content[v]
         /\ \A v \in Workers : task'[v] = "rechecked" /\ found'[v] = 0 =>
              task[v] = "rechecked" /\ found[v] = 0 /\ content'[v] = content[v]
<1>1. task' = [task EXCEPT ![w] = "idle"] /\ "idle" \notin Holding
  BY DEF Finished, Holding, Reserving
<1>2. \A v \in Workers : v # w => task'[v] = task[v] /\ content'[v] = content[v] /\ found'[v] = found[v]
  BY DEF Finished, TInv, TypeOK
<1>3. task'[w] = "idle"
  BY <1>1 DEF TInv, TypeOK
<1> QED BY <1>1, <1>2, <1>3

LEMMA MarkedRows ==
  ASSUME TypeOK, NEW t, NEW s \in Statuses, status' = status \/ status' = Marked(t, s)
  PROVE  \A u \in Ids : status'[u] # "none" <=> status[u] # "none"
BY MarkedType DEF TypeOK

LEMMA UniqueInvariant == UInv /\ [Next]_vars => UInv'
<1> SUFFICES ASSUME UInv, [Next]_vars PROVE UInv'
  OBVIOUS
<1>0. TInv'
  BY TypeInvariant DEF UInv
<1> SUFFICES LockHeld' /\ UniqueIndexNeverHit'
  BY <1>0 DEF UInv
<1>t. TInv /\ TypeOK
  BY DEF UInv, TInv
<1>1. ASSUME NEW w \in Workers, NEW c \in Contents, ImportStarts(w, c)
      PROVE  LockHeld' /\ UniqueIndexNeverHit'
  <2>1. \A v \in Workers : v # w => task'[v] = task[v] /\ content'[v] = content[v]
    BY <1>1, <1>t DEF ImportStarts, TypeOK
  <2>2. task'[w] = "staged" /\ "staged" \notin Holding
    BY <1>1, <1>t DEF ImportStarts, TypeOK, Holding, Reserving
  <2>3. found' = found /\ status' = status /\ sha' = sha
    BY <1>1 DEF ImportStarts, rowVars
  <2> QED BY <2>1, <2>2, <2>3, NoNewRow
<1>2. ASSUME NEW w \in Workers, ImportLooks(w)
      PROVE  LockHeld' /\ UniqueIndexNeverHit'
  <2>1. status' = status /\ sha' = sha
    BY <1>2 DEF ImportLooks, rowVars
  <2>2. CASE Duplicate(content[w])
    BY <1>2, <1>t, <2>1, <2>2, FinishedHolds, NoNewRow DEF ImportLooks
  <2>3. CASE ~Duplicate(content[w])
    <3>1. task' = [task EXCEPT ![w] = "looked"] /\ content' = content /\ found' = found
      BY <1>2, <2>3 DEF ImportLooks
    <3>2. LockHeld'
      BY <1>2, <1>t, <3>1 DEF ImportLooks, LockFree, LockHeld, UInv, TypeOK
    <3>3. UniqueIndexNeverHit'
      BY <1>t, <2>1, <3>1 DEF UniqueIndexNeverHit, RowsOf, Rows, UInv, TypeOK
    <3> QED BY <3>2, <3>3
  <2> QED BY <2>2, <2>3
<1>3. ASSUME NEW w \in Workers, status' = status, sha' = sha, content' = content, found' = found,
             task[w] \in Holding,
             NEW x \in Holding \ {"rechecked"}, task' = [task EXCEPT ![w] = x]
      PROVE  LockHeld' /\ UniqueIndexNeverHit'
  BY <1>3, <1>t, NoNewRow DEF TypeOK
<1>4. ASSUME NEW w \in Workers,
             (\E f \in Files : PlacePromises(w, f)) \/ PlaceCopied(w) \/ PlacePublishes(w)
               \/ PlaceReturns(w)
      PROVE  LockHeld' /\ UniqueIndexNeverHit'
  <2>1. status' = status /\ sha' = sha /\ content' = content /\ found' = found
    BY <1>4 DEF PlacePromises, PlaceCopied, PlacePublishes, PlaceReturns, rowVars
  <2>2. task[w] \in Holding
    BY <1>4 DEF PlacePromises, PlaceCopied, PlacePublishes, PlaceReturns, Holding, Reserving
  <2>3. \E x \in Holding \ {"rechecked"} : task' = [task EXCEPT ![w] = x]
    BY <1>4 DEF PlacePromises, PlaceCopied, PlacePublishes, PlaceReturns, Holding, Reserving
  <2> QED BY <1>3, <2>1, <2>2, <2>3
<1>5. ASSUME NEW w \in Workers, Finished(w), status' = status, sha' = sha
      PROVE  LockHeld' /\ UniqueIndexNeverHit'
  BY <1>5, <1>t, FinishedHolds, NoNewRow
<1>6. ASSUME NEW w \in Workers,
             NoPlace(w) \/ CopyFails(w) \/ PublishFails(w) \/ RecheckRejects(w)
               \/ RepairReturns(w) \/ InsertReturns(w) \/ ImportFails(w)
      PROVE  LockHeld' /\ UniqueIndexNeverHit'
  BY <1>5, <1>6 DEF NoPlace, CopyFails, PublishFails, RecheckRejects, RepairReturns,
     InsertReturns, ImportFails, rowVars
<1>7. ASSUME NEW w \in Workers, Recheck(w)
      PROVE  LockHeld' /\ UniqueIndexNeverHit'
  <2>1. status' = status /\ sha' = sha /\ content' = content /\ task[w] \in Holding
    BY <1>7 DEF Recheck, rowVars, Holding
  <2>2. task' = [task EXCEPT ![w] = "rechecked"]
    BY <1>7 DEF Recheck
  <2>3. LockHeld'
    BY <1>t, <2>1, <2>2 DEF LockHeld, UInv, TypeOK
  <2>4. \A v \in Workers : v # w => task'[v] = task[v] /\ found'[v] = found[v]
    BY <1>7, <1>t, <2>2 DEF Recheck, TypeOK
  <2>5. found'[w] = 0 => RowsOf(content[w]) = {}
    BY <1>7, <1>t DEF Recheck, TypeOK, RowsOf, Rows, Ids
  <2>6. \A v \in Workers : task'[v] = "rechecked" /\ found'[v] = 0 => RowsOf(content[v]) = {}
    BY <2>4, <2>5 DEF UInv, UniqueIndexNeverHit
  <2>7. UniqueIndexNeverHit'
    BY <2>1, <2>6 DEF UniqueIndexNeverHit, RowsOf, Rows
  <2> QED BY <2>3, <2>7
<1>8. ASSUME NEW w \in Workers, RepairCommits(w)
      PROVE  LockHeld' /\ UniqueIndexNeverHit'
  <2>1. \A t \in Ids : status'[t] # "none" => status[t] # "none"
    BY <1>8, <1>t DEF RepairCommits, Rows, TypeOK
  <2>2. sha' = sha /\ content' = content /\ found' = found
    BY <1>8 DEF RepairCommits
  <2>3. task[w] \in Holding /\ task' = [task EXCEPT ![w] = "replaced"]
    BY <1>8 DEF RepairCommits, Holding
  <2> QED BY <1>t, <2>1, <2>2, <2>3, NoNewRow DEF TypeOK
<1>9. ASSUME NEW w \in Workers, NEW t \in Ids, InsertCommits(w, t)
      PROVE  LockHeld' /\ UniqueIndexNeverHit'
  <2>1. content' = content /\ found' = found /\ task[w] = "rechecked" /\ task[w] \in Holding
    BY <1>9 DEF InsertCommits, Holding
  <2>2. task' = [task EXCEPT ![w] = "inserted"]
    BY <1>9 DEF InsertCommits
  <2>3. LockHeld'
    BY <1>t, <2>1, <2>2 DEF LockHeld, UInv, TypeOK
  <2>4. \A u \in Rows' : (u \in Rows /\ u # t /\ sha'[u] = sha[u]) \/ sha'[u] = content[w]
    BY <1>9, <1>t DEF InsertCommits, Rows, TypeOK
  <2>5. \A v \in Workers : task'[v] = "rechecked" =>
          v # w /\ task[v] = "rechecked" /\ content[v] # content[w]
    BY <1>t, <2>1, <2>2 DEF UInv, LockHeld, TypeOK, Holding
  <2>6. UniqueIndexNeverHit'
    BY <2>1, <2>4, <2>5 DEF UInv, UniqueIndexNeverHit, RowsOf
  <2> QED BY <2>3, <2>6
<1>10. ASSUME UNCHANGED importVars,
              \A t \in Ids : status'[t] # "none" => status[t] # "none" /\ sha'[t] = sha[t]
       PROVE  LockHeld' /\ UniqueIndexNeverHit'
  BY <1>10, NoNewRow DEF importVars
<1>11. ASSUME NEW d \in Deleters, DeleteStep(d)
       PROVE  LockHeld' /\ UniqueIndexNeverHit'
  <2>1. \A t \in Ids : status'[t] # "none" => status[t] # "none" /\ sha'[t] = sha[t]
    BY <1>11, <1>t DEF DeleteStep, DeleteReads, DeleteCommits, DeleteFails, DeleteReturns,
       rowVars, TypeOK
  <2>2. UNCHANGED importVars
    BY <1>11 DEF DeleteStep, DeleteReads, DeleteCommits, DeleteFails, DeleteReturns
  <2> QED BY <1>10, <2>1, <2>2
<1>12. ASSUME NEW p \in Players, PlayStep(p)
       PROVE  LockHeld' /\ UniqueIndexNeverHit'
  <2>1. status' = status \/ \E s \in Statuses : status' = Marked(playing[p], s)
    BY <1>12 DEF PlayStep, PlayReads, PlayMisses, PlayOpens, PlayStarts, PlayFails, rowVars,
       Statuses
  <2>2. \A t \in Ids : status'[t] # "none" => status[t] # "none"
    BY <1>t, <2>1, MarkedRows
  <2>3. sha' = sha /\ UNCHANGED importVars
    BY <1>12 DEF PlayStep, PlayReads, PlayMisses, PlayOpens, PlayStarts, PlayFails, rowVars
  <2> QED BY <1>10, <2>2, <2>3
<1>13. CASE ScanStep
  <2>1. \A t \in Ids : status'[t] # "none" => status[t] # "none"
    BY <1>13, <1>t DEF ScanStep, ScanReads, ScanChecks, ScanCommits, ScanFails, rowVars, Rows
  <2>2. sha' = sha /\ UNCHANGED importVars
    BY <1>13 DEF ScanStep, ScanReads, ScanChecks, ScanCommits, ScanFails, rowVars
  <2> QED BY <1>10, <2>1, <2>2
<1>14. CASE (\E t \in Ids : PlaylistEdited(t)) \/ (\E l \in Locations : MountChanges(l))
  BY <1>10, <1>14 DEF PlaylistEdited, MountChanges, rowVars
<1>15. CASE Restart
  <2>1. \A w \in Workers : task'[w] = "idle"
    BY <1>15 DEF Restart
  <2> QED BY <2>1 DEF LockHeld, UniqueIndexNeverHit, Holding, Reserving
<1>16. CASE UNCHANGED vars
  BY <1>10, <1>16 DEF vars, rowVars
<1> QED
  BY <1>1, <1>2, <1>4, <1>6, <1>7, <1>8, <1>9, <1>11, <1>12, <1>13, <1>14, <1>15, <1>16
  DEF Next, ImportStep

\* The unique index on the digest never refuses an insert of this process: the lock
\* of the digest is held from the first look to the commit.
THEOREM UniqueIndexIsNeverHit == Spec => []UniqueIndexNeverHit
<1>1. Init => UInv
  BY TypeInitially DEF Init, UInv, LockHeld, UniqueIndexNeverHit, Holding, Reserving
<1>2. UInv => UniqueIndexNeverHit
  BY DEF UInv
<1> QED BY <1>1, <1>2, UniqueInvariant, PTL DEF Spec

-----------------------------------------------------------------------------
(***************************************************************************)
(* Who names which file.                                                   *)
(***************************************************************************)
\* Imports whose file no row names yet.
Writing == Reserving \union {"placed", "rechecked"}

\* Files of different rows and handlers differ: a name is fresh when it is chosen.
RowsApart == \A t, u \in Rows : path[t] = path[u] => t = u

WritersApart ==
  \A w \in Workers : task[w] \in Writing =>
    /\ \A t \in Rows : path[t] # new[w]
    /\ \A v \in Workers : v # w => new[v] # new[w]
    /\ \A v \in Workers : old[v] # new[w]
    /\ \A d \in Deleters : doomed[d] # new[w]

\* What a repair is to remove is named by the row that it changes only, then by none.
RepairsKnow ==
  \A w \in Workers : \A t \in Rows :
    /\ task[w] = "rechecked" /\ path[t] = old[w] => t = found[w]
    /\ task[w] = "replaced" => path[t] # old[w]

\* So with a deletion and its row.
DeletionsKnow ==
  \A d \in Deleters : \A t \in Rows :
    /\ at[d] = "read" /\ path[t] = doomed[d] => t = victim[d]
    /\ at[d] = "committed" => path[t] # doomed[d]

NInv == TInv /\ RowsApart /\ WritersApart /\ RepairsKnow /\ DeletionsKnow

\* Steps that choose no file and read no row.
QuietImports ==
  \A w \in Workers :
    /\ task'[w] \in Writing => task[w] \in Writing /\ new'[w] = new[w]
    /\ new'[w] \in {new[w], NoFile} /\ old'[w] \in {old[w], NoFile}
    /\ task'[w] = "rechecked" => task[w] = "rechecked" /\ old'[w] = old[w] /\ found'[w] = found[w]
    /\ task'[w] = "replaced" => task[w] = "replaced" /\ old'[w] = old[w]

QuietDeletions ==
  \A d \in Deleters :
    /\ doomed'[d] \in {doomed[d], NoFile}
    /\ at'[d] = "read" => at[d] = "read" /\ doomed'[d] = doomed[d] /\ victim'[d] = victim[d]
    /\ at'[d] = "committed" => at[d] = "committed" /\ doomed'[d] = doomed[d]

QuietRows == \A t \in Ids : status'[t] # "none" => status[t] # "none" /\ path'[t] = path[t]

LEMMA QuietNames ==
  ASSUME NInv, QuietImports, QuietDeletions, QuietRows
  PROVE  RowsApart' /\ WritersApart' /\ RepairsKnow' /\ DeletionsKnow'
<1>1. \A t \in Ids : status[t] # "none" => path[t] \in Files
  BY DEF NInv, TInv, TypeOK, Rows
<1>2. \A w \in Workers : task[w] \in Writing => new[w] \in Files
  BY DEF NInv, TInv, TypeOK, ImportsKnow, Writing, Reserving
<1>3. RowsApart'
  BY DEF NInv, RowsApart, QuietRows, Rows
<1>4. WritersApart'
  BY <1>1, <1>2, NoValues DEF NInv, WritersApart, QuietImports, QuietDeletions, QuietRows, Rows
<1>5. RepairsKnow'
  BY DEF NInv, RepairsKnow, QuietImports, QuietRows, Rows
<1>6. DeletionsKnow'
  BY DEF NInv, DeletionsKnow, QuietDeletions, QuietRows, Rows
<1> QED BY <1>3, <1>4, <1>5, <1>6

LEMMA FinishedIsQuiet ==
  ASSUME NEW w \in Workers, TInv, Finished(w)
  PROVE  QuietImports
<1>1. /\ task'[w] = "idle" /\ new'[w] = NoFile /\ old'[w] = NoFile
  BY DEF Finished, TInv, TypeOK
<1>2. \A v \in Workers : v # w =>
        /\ task'[v] = task[v] /\ new'[v] = new[v] /\ old'[v] = old[v] /\ found'[v] = found[v]
  BY DEF Finished, TInv, TypeOK
<1>3. "idle" \notin Writing
  BY DEF Writing, Reserving
<1> QED BY <1>1, <1>2, <1>3 DEF QuietImports

LEMMA NamesInvariant == NInv /\ [Next]_vars => NInv'
<1> SUFFICES ASSUME NInv, [Next]_vars PROVE NInv'
  OBVIOUS
<1>0. TInv'
  BY TypeInvariant DEF NInv
<1> SUFFICES RowsApart' /\ WritersApart' /\ RepairsKnow' /\ DeletionsKnow'
  BY <1>0 DEF NInv
<1> DEFINE Goal == RowsApart' /\ WritersApart' /\ RepairsKnow' /\ DeletionsKnow'
<1>t. TInv /\ TypeOK
  BY DEF NInv, TInv
<1>f. /\ \A t \in Ids : status[t] # "none" => path[t] \in Files
      /\ \A w \in Workers : task[w] \in Writing => new[w] \in Files
  BY <1>t DEF TInv, TypeOK, Rows, ImportsKnow, Writing, Reserving
<1>q1. UNCHANGED importVars => QuietImports
  BY DEF importVars, QuietImports
<1>q2. UNCHANGED deleteVars => QuietDeletions
  BY DEF deleteVars, QuietDeletions
<1>q3. UNCHANGED rowVars => QuietRows
  BY DEF rowVars, QuietRows
<1>1. ASSUME NEW w \in Workers, NEW x \in (Holding \union {"staged"}) \ {"rechecked", "replaced"},
             task' = [task EXCEPT ![w] = x], x \in Writing => task[w] \in Writing,
             new' = new, old' = old, found' = found, UNCHANGED <<rowVars, deleteVars>>
      PROVE  Goal
  <2>1. QuietImports
    BY <1>1, <1>t DEF QuietImports, TypeOK
  <2> QED BY <1>1, <1>q2, <1>q3, <2>1, QuietNames
<1>2. ASSUME NEW w \in Workers, Finished(w), UNCHANGED <<rowVars, deleteVars>>
      PROVE  Goal
  BY <1>2, <1>t, <1>q2, <1>q3, FinishedIsQuiet, QuietNames
<1>3. ASSUME NEW w \in Workers,
             (\E c \in Contents : ImportStarts(w, c)) \/ ImportLooks(w) \/ PlaceCopied(w)
               \/ PlacePublishes(w) \/ PlaceReturns(w)
      PROVE  Goal
  <2>1. UNCHANGED <<rowVars, deleteVars>>
    BY <1>3 DEF ImportStarts, ImportLooks, PlaceCopied, PlacePublishes, PlaceReturns
  <2>2. CASE Finished(w)
    BY <1>2, <2>1, <2>2
  <2>3. CASE ~Finished(w)
    <3>1. \E x \in (Holding \union {"staged"}) \ {"rechecked", "replaced"} :
             task' = [task EXCEPT ![w] = x] /\ (x \in Writing => task[w] \in Writing)
      BY <1>3, <2>3 DEF ImportStarts, ImportLooks, PlaceCopied, PlacePublishes, PlaceReturns,
         Holding, Writing, Reserving
    <3>2. new' = new /\ old' = old /\ found' = found
      BY <1>3, <2>3 DEF ImportStarts, ImportLooks, PlaceCopied, PlacePublishes, PlaceReturns
    <3> QED BY <1>1, <2>1, <3>1, <3>2
  <2> QED BY <2>2, <2>3
<1>4. ASSUME NEW w \in Workers,
             NoPlace(w) \/ CopyFails(w) \/ PublishFails(w) \/ RecheckRejects(w)
               \/ RepairReturns(w) \/ InsertReturns(w) \/ ImportFails(w)
      PROVE  Goal
  BY <1>2, <1>4 DEF NoPlace, CopyFails, PublishFails, RecheckRejects, RepairReturns,
     InsertReturns, ImportFails
<1>5. ASSUME NEW w \in Workers, NEW f \in Files, PlacePromises(w, f) PROVE Goal
  <2>1. /\ rowVars' = rowVars /\ deleteVars' = deleteVars /\ old' = old /\ found' = found
        /\ task' = [task EXCEPT ![w] = "copying"] /\ new' = [new EXCEPT ![w] = f]
        /\ Fresh(f)
    BY <1>5 DEF PlacePromises
  <2>2. \A v \in Workers : v # w => task'[v] = task[v] /\ new'[v] = new[v]
    BY <2>1, <1>t DEF TypeOK
  <2>3. task'[w] = "copying" /\ new'[w] = f
    BY <2>1, <1>t DEF TypeOK
  <2>4. RowsApart' /\ DeletionsKnow'
    BY <2>1 DEF NInv, RowsApart, DeletionsKnow, Rows, rowVars, deleteVars
  <2>5. RepairsKnow'
    BY <2>1, <2>2, <2>3 DEF NInv, RepairsKnow, Rows, rowVars
  <2>6. Rows' = Rows /\ path' = path /\ doomed' = doomed
    BY <2>1 DEF Rows, rowVars, deleteVars
  <2>7. /\ \A t \in Rows : path[t] # f
        /\ \A v \in Workers : new[v] # f /\ old[v] # f
        /\ \A d \in Deleters : doomed[d] # f
    BY <2>1 DEF Fresh, Rows
  <2>8. WritersApart'
    BY <2>1, <2>2, <2>3, <2>6, <2>7 DEF NInv, WritersApart
  <2> QED BY <2>4, <2>5, <2>8
<1>6. ASSUME NEW w \in Workers, Recheck(w) PROVE Goal
  <2>1. /\ rowVars' = rowVars /\ deleteVars' = deleteVars /\ new' = new
        /\ task' = [task EXCEPT ![w] = "rechecked"] /\ task[w] = "placed"
    BY <1>6 DEF Recheck
  <2>2. /\ \A v \in Workers : v # w =>
             task'[v] = task[v] /\ old'[v] = old[v] /\ found'[v] = found[v]
        /\ task'[w] = "rechecked"
    BY <1>6, <1>t, <2>1 DEF Recheck, TypeOK
  <2>3. Rows' = Rows /\ path' = path /\ doomed' = doomed
    BY <2>1 DEF Rows, rowVars, deleteVars
  <2>4. RowsApart' /\ DeletionsKnow'
    BY <2>1 DEF NInv, RowsApart, DeletionsKnow, Rows, rowVars, deleteVars
  <2>5. \/ old'[w] = old[w] /\ RowsOf(content[w]) = {}
        \/ \E t \in Rows : found'[w] = t /\ old'[w] = path[t]
    BY <1>6, <1>t DEF Recheck, RowsOf, TypeOK
  <2>6. \A v \in Workers : task'[v] \in Writing => task[v] \in Writing
    BY <2>1, <2>2 DEF Writing
  <2>7. WritersApart'
    BY <2>1, <2>2, <2>3, <2>5, <2>6 DEF NInv, WritersApart
  <2>8. CASE \E t \in Rows : found'[w] = t /\ old'[w] = path[t]
    <3>1. RepairsKnow'
      BY <2>2, <2>3, <2>8 DEF NInv, RepairsKnow, RowsApart
    <3> QED BY <2>4, <2>7, <3>1
  <2>9. CASE old'[w] = old[w] /\ RowsOf(content[w]) = {}
    <3>1. old'[w] = NoFile
      BY <1>t, <2>1, <2>9 DEF TInv, ImportsKnow
    <3>2. RepairsKnow'
      BY <1>f, <2>2, <2>3, <3>1, NoValues DEF NInv, RepairsKnow, Rows
    <3> QED BY <2>4, <2>7, <3>2
  <2> QED BY <2>5, <2>8, <2>9
<1>7. ASSUME NEW w \in Workers, RepairCommits(w) PROVE Goal
  <2> DEFINE t == found[w]
  <2>1. /\ t \in Rows /\ task[w] = "rechecked"
        /\ deleteVars' = deleteVars /\ old' = old /\ found' = found
        /\ path' = [path EXCEPT ![t] = new[w]] /\ new' = [new EXCEPT ![w] = NoFile]
        /\ task' = [task EXCEPT ![w] = "replaced"]
    BY <1>7 DEF RepairCommits
  <2>2. /\ Rows' = Rows
        /\ path'[t] = new[w] /\ \A u \in Ids : u # t => path'[u] = path[u]
        /\ t \in Ids
    BY <1>7, <1>t, <2>1 DEF RepairCommits, Rows, TypeOK
  <2>3. /\ \A v \in Workers : v # w => task'[v] = task[v] /\ new'[v] = new[v]
        /\ task'[w] = "replaced" /\ new'[w] = NoFile
    BY <1>t, <2>1 DEF TypeOK
  <2>4. /\ new[w] \in Files /\ \A u \in Rows : path[u] # new[w]
        /\ \A v \in Workers : v # w => new[v] # new[w]
        /\ \A v \in Workers : old[v] # new[w]
        /\ \A d \in Deleters : doomed[d] # new[w]
    BY <1>f, <2>1 DEF NInv, WritersApart, Writing
  <2>5. RowsApart'
    BY <2>2, <2>4 DEF NInv, RowsApart, Rows
  <2>6. \A v \in Workers : task'[v] \in Writing => v # w /\ task[v] \in Writing
    BY <2>3 DEF Writing, Reserving
  <2>7. WritersApart'
    <3> SUFFICES ASSUME NEW v \in Workers, task'[v] \in Writing
                 PROVE  /\ \A u \in Rows : path'[u] # new'[v]
                        /\ \A x \in Workers : x # v => new'[x] # new'[v]
                        /\ \A x \in Workers : old'[x] # new'[v]
                        /\ \A d \in Deleters : doomed'[d] # new'[v]
      BY <2>2 DEF WritersApart
    <3>1. v # w /\ task[v] \in Writing /\ new'[v] = new[v] /\ new[v] \in Files
      BY <1>f, <2>3, <2>6
    <3>2. \A u \in Rows : path'[u] # new[v]
      BY <2>2, <2>4, <3>1 DEF NInv, WritersApart, Rows
    <3>3. \A x \in Workers : x # v => new'[x] # new[v]
      BY <2>3, <3>1, NoValues DEF NInv, WritersApart
    <3> QED BY <2>1, <3>1, <3>2, <3>3 DEF NInv, WritersApart, deleteVars
  <2>8. RepairsKnow'
    <3>1. ASSUME NEW v \in Workers, NEW u \in Rows, task'[v] = "rechecked", path'[u] = old[v]
          PROVE  u = found[v]
      <4>1. v # w /\ task[v] = "rechecked"
        BY <2>3, <3>1
      <4>2. u # t
        BY <2>2, <2>4, <3>1
      <4> QED BY <2>2, <3>1, <4>1, <4>2 DEF NInv, RepairsKnow, Rows
    <3>2. ASSUME NEW v \in Workers, NEW u \in Rows, task'[v] = "replaced"
          PROVE  path'[u] # old[v]
      <4>1. CASE u = t
        BY <2>2, <2>4, <4>1
      <4>2. CASE u # t
        BY <2>1, <2>2, <2>3, <3>2, <4>2 DEF NInv, RepairsKnow, Rows
      <4> QED BY <4>1, <4>2
    <3> QED BY <2>1, <2>2, <3>1, <3>2 DEF RepairsKnow
  <2>9. DeletionsKnow'
    BY <2>1, <2>2, <2>4 DEF NInv, DeletionsKnow, deleteVars, Rows
  <2> QED BY <2>5, <2>7, <2>8, <2>9
<1>8. ASSUME NEW w \in Workers, NEW t \in Ids, InsertCommits(w, t) PROVE Goal
  <2>1. /\ t \notin Rows /\ task[w] = "rechecked"
        /\ deleteVars' = deleteVars /\ old' = old /\ found' = found /\ new' = new
        /\ path' = [path EXCEPT ![t] = new[w]] /\ task' = [task EXCEPT ![w] = "inserted"]
    BY <1>8 DEF InsertCommits, Rows, Ids
  <2>2. /\ Rows' = Rows \union {t}
        /\ path'[t] = new[w] /\ \A u \in Ids : u # t => path'[u] = path[u]
    BY <1>8, <1>t, <2>1 DEF InsertCommits, Rows, TypeOK
  <2>3. /\ \A v \in Workers : v # w => task'[v] = task[v]
        /\ task'[w] = "inserted"
    BY <1>t, <2>1 DEF TypeOK
  <2>4. /\ new[w] \in Files /\ \A u \in Rows : path[u] # new[w]
        /\ \A v \in Workers : v # w => new[v] # new[w]
        /\ \A v \in Workers : old[v] # new[w]
        /\ \A d \in Deleters : doomed[d] # new[w]
    BY <1>f, <2>1 DEF NInv, WritersApart, Writing
  <2>5. \A u \in Rows' : u = t \/ (u \in Rows /\ u # t /\ path'[u] = path[u])
    BY <2>1, <2>2 DEF Rows
  <2>6. RowsApart'
    BY <2>2, <2>4, <2>5 DEF NInv, RowsApart
  <2>7. \A v \in Workers : task'[v] \in Writing => v # w /\ task[v] \in Writing
    BY <2>3 DEF Writing, Reserving
  <2>8. WritersApart'
    BY <2>1, <2>2, <2>4, <2>5, <2>7 DEF NInv, WritersApart, deleteVars
  <2>9. RepairsKnow'
    BY <2>1, <2>2, <2>3, <2>4, <2>5 DEF NInv, RepairsKnow
  <2>10. DeletionsKnow'
    BY <2>1, <2>2, <2>4, <2>5 DEF NInv, DeletionsKnow, deleteVars
  <2> QED BY <2>6, <2>8, <2>9, <2>10
<1>9. ASSUME NEW d \in Deleters, NEW t \in Ids, DeleteReads(d, t) PROVE Goal
  <2>1. /\ t \in Rows /\ rowVars' = rowVars /\ importVars' = importVars
        /\ at' = [at EXCEPT ![d] = "read"] /\ victim' = [victim EXCEPT ![d] = t]
        /\ doomed' = [doomed EXCEPT ![d] = path[t]]
    BY <1>9 DEF DeleteReads
  <2>2. /\ \A e \in Deleters : e # d =>
             at'[e] = at[e] /\ victim'[e] = victim[e] /\ doomed'[e] = doomed[e]
        /\ at'[d] = "read" /\ victim'[d] = t /\ doomed'[d] = path[t]
    BY <1>t, <2>1 DEF TypeOK
  <2>3. Rows' = Rows /\ path' = path
    BY <2>1 DEF Rows, rowVars
  <2>4. RowsApart' /\ RepairsKnow'
    BY <2>1, <2>3 DEF NInv, RowsApart, RepairsKnow, importVars
  <2>5. WritersApart'
    BY <2>1, <2>2, <2>3 DEF NInv, WritersApart, importVars
  <2>6. DeletionsKnow'
    BY <2>1, <2>2, <2>3 DEF NInv, DeletionsKnow, RowsApart
  <2> QED BY <2>4, <2>5, <2>6
<1>10. ASSUME NEW d \in Deleters, DeleteCommits(d) PROVE Goal
  <2> DEFINE t == victim[d]
  <2>1. /\ importVars' = importVars /\ victim' = victim /\ doomed' = doomed
        /\ at' = [at EXCEPT ![d] = "committed"] /\ at[d] = "read"
    BY <1>10 DEF DeleteCommits
  <2>2. \A u \in Rows' : u \in Rows /\ u # t /\ path'[u] = path[u]
    BY <1>10, <1>t DEF DeleteCommits, Rows, TypeOK
  <2>3. /\ \A e \in Deleters : e # d => at'[e] = at[e]
        /\ at'[d] = "committed"
    BY <1>t, <2>1 DEF TypeOK
  <2>4. RowsApart' /\ RepairsKnow' /\ WritersApart'
    BY <2>1, <2>2 DEF NInv, RowsApart, RepairsKnow, WritersApart, importVars
  <2>5. DeletionsKnow'
    BY <2>1, <2>2, <2>3 DEF NInv, DeletionsKnow
  <2> QED BY <2>4, <2>5
<1>11. ASSUME NEW d \in Deleters, DeleteFails(d) \/ DeleteReturns(d) PROVE Goal
  <2>1. UNCHANGED <<rowVars, importVars>> /\ DeleteEnds(d)
    BY <1>11 DEF DeleteFails, DeleteReturns
  <2>2. QuietDeletions
    BY <1>t, <2>1 DEF DeleteEnds, QuietDeletions, TypeOK
  <2> QED BY <1>q1, <1>q3, <2>1, <2>2, QuietNames
<1>12. ASSUME NEW p \in Players, PlayStep(p) PROVE Goal
  <2>1. status' = status \/ \E s \in Statuses : status' = Marked(playing[p], s)
    BY <1>12 DEF PlayStep, PlayReads, PlayMisses, PlayOpens, PlayStarts, PlayFails, rowVars,
       Statuses
  <2>2. path' = path /\ UNCHANGED <<importVars, deleteVars>>
    BY <1>12 DEF PlayStep, PlayReads, PlayMisses, PlayOpens, PlayStarts, PlayFails, rowVars
  <2>3. QuietRows
    BY <1>t, <2>1, <2>2, MarkedRows DEF QuietRows
  <2> QED BY <1>q1, <1>q2, <2>2, <2>3, QuietNames
<1>13. CASE ScanStep
  <2>1. QuietRows
    BY <1>13, <1>t DEF ScanStep, ScanReads, ScanChecks, ScanCommits, ScanFails, rowVars, Rows,
       QuietRows
  <2>2. UNCHANGED <<importVars, deleteVars>>
    BY <1>13 DEF ScanStep, ScanReads, ScanChecks, ScanCommits, ScanFails
  <2> QED BY <1>q1, <1>q2, <2>1, <2>2, QuietNames
<1>14. CASE (\E t \in Ids : PlaylistEdited(t)) \/ (\E l \in Locations : MountChanges(l))
            \/ UNCHANGED vars
  BY <1>14, <1>q1, <1>q2, <1>q3, QuietNames DEF PlaylistEdited, MountChanges, vars
<1>15. CASE Restart
  <2>1. QuietImports
    BY <1>15 DEF Restart, QuietImports, Writing, Reserving
  <2>2. QuietDeletions
    BY <1>15 DEF Restart, QuietDeletions
  <2> QED BY <1>15, <1>q3, <2>1, <2>2, QuietNames DEF Restart
<1> QED
  BY <1>3, <1>4, <1>5, <1>6, <1>7, <1>8, <1>9, <1>10, <1>11, <1>12, <1>13, <1>14, <1>15
  DEF Next, ImportStep, DeleteStep

LEMMA NamesInitially == Init => NInv
BY TypeInitially DEF Init, NInv, RowsApart, WritersApart, RepairsKnow, DeletionsKnow, Rows,
   Writing, Reserving

-----------------------------------------------------------------------------
(***************************************************************************)
(* Files that rows name, and files that nobody is responsible for.         *)
(***************************************************************************)
FilesStay ==
  \A t \in Rows :
    file[path[t]] = "media" /\ path'[t] = path[t] =>
      \/ file'[path[t]] = "media"
      \/ \E w \in Workers :
           task[w] = "inserted" /\ task'[w] = "idle" /\ new[w] = path[t]

\* A step that touches one file at most, and one that no row names.
LEMMA OtherFilesStay ==
  ASSUME TInv, NEW g, \A f \in Files : f # g => file'[f] = file[f],
         \A t \in Rows : path[t] # g
  PROVE  FilesStay
BY DEF FilesStay, TInv, TypeOK, Rows

LEMMA StepKeepsNamedFiles == NInv /\ [Next]_vars => FilesStay
<1> SUFFICES ASSUME NInv, [Next]_vars PROVE FilesStay
  OBVIOUS
<1>t. TInv /\ TypeOK
  BY DEF NInv, TInv
<1>1. ASSUME file' = file PROVE FilesStay
  BY <1>1 DEF FilesStay
<1>2. ASSUME NEW w \in Workers,
             PlaceCopied(w) \/ PlacePublishes(w) \/ CopyFails(w) \/ RecheckRejects(w)
               \/ (task[w] # "inserted" /\ ImportFails(w))
      PROVE  FilesStay
  <2>1. task[w] \in Writing \/ new[w] = NoFile
    BY <1>2, <1>t DEF PlaceCopied, PlacePublishes, CopyFails, RecheckRejects, ImportFails, Writing,
       Reserving, TInv, ImportsKnow
  <2>2. \A t \in Rows : path[t] # new[w]
    BY <2>1, <1>t DEF NInv, WritersApart, Rows, TypeOK
  <2>3. \A f \in Files : f # new[w] => file'[f] = file[f]
    <3>1. CASE PlaceCopied(w) \/ PlacePublishes(w) \/ CopyFails(w)
      BY <3>1, <1>t DEF PlaceCopied, PlacePublishes, CopyFails, Without, TypeOK
    <3>2. CASE Removal(new[w])
      BY <3>2, <1>t, RemovalIs
    <3> QED BY <1>2, <3>1, <3>2 DEF RecheckRejects, ImportFails
  <2> QED BY <1>t, <2>2, <2>3, OtherFilesStay
<1>3. ASSUME NEW w \in Workers, task[w] = "inserted", ImportFails(w) PROVE FilesStay
  <2>1. task'[w] = "idle"
    BY <1>3, <1>t DEF ImportFails, Finished, TypeOK
  <2>2. \A f \in Files : f # new[w] => file'[f] = file[f]
    BY <1>3, <1>t, RemovalIs DEF ImportFails
  <2> QED BY <1>3, <1>t, <2>1, <2>2 DEF FilesStay, TypeOK, Rows
<1>4. ASSUME NEW w \in Workers, RepairReturns(w) PROVE FilesStay
  <2>1. \A t \in Rows : path[t] # old[w]
    BY <1>4 DEF RepairReturns, NInv, RepairsKnow
  <2>2. \A f \in Files : f # old[w] => file'[f] = file[f]
    BY <1>4, <1>t, RemovalIs DEF RepairReturns, OldFile
  <2> QED BY <1>t, <2>1, <2>2, OtherFilesStay
<1>5. ASSUME NEW d \in Deleters, DeleteReturns(d) PROVE FilesStay
  <2>1. \A t \in Rows : path[t] # doomed[d]
    BY <1>5 DEF DeleteReturns, NInv, DeletionsKnow
  <2>2. \A f \in Files : f # doomed[d] => file'[f] = file[f]
    BY <1>5, <1>t, RemovalIs DEF DeleteReturns
  <2> QED BY <1>t, <2>1, <2>2, OtherFilesStay
<1>6. CASE Restart
  BY <1>6, <1>t DEF Restart, FilesStay, TypeOK, Rows
<1>7. ASSUME NEW w \in Workers, ImportStep(w) PROVE FilesStay
  <2>1. ASSUME (\E c \in Contents : ImportStarts(w, c)) \/ ImportLooks(w) \/ NoPlace(w)
               \/ (\E f \in Files : PlacePromises(w, f)) \/ PlaceReturns(w) \/ PublishFails(w)
               \/ Recheck(w) \/ RepairCommits(w) \/ (\E t \in Ids : InsertCommits(w, t))
               \/ InsertReturns(w)
        PROVE  FilesStay
    BY <1>1, <2>1 DEF ImportStarts, ImportLooks, NoPlace, PlacePromises, PlaceReturns,
       PublishFails, Recheck, RepairCommits, InsertCommits, InsertReturns, diskVars
  <2>2. CASE ImportFails(w)
    BY <1>2, <1>3, <2>2 DEF ImportFails
  <2> QED BY <1>2, <1>4, <1>7, <2>1, <2>2 DEF ImportStep
<1>8. ASSUME NEW d \in Deleters, DeleteStep(d) PROVE FilesStay
  <2>1. ASSUME (\E t \in Ids : DeleteReads(d, t)) \/ DeleteCommits(d) \/ DeleteFails(d)
        PROVE  FilesStay
    BY <1>1, <2>1 DEF DeleteReads, DeleteCommits, DeleteFails, diskVars
  <2> QED BY <1>5, <1>8, <2>1 DEF DeleteStep
<1>9. ASSUME NEW p \in Players, PlayStep(p) PROVE FilesStay
  BY <1>1, <1>9 DEF PlayStep, PlayReads, PlayMisses, PlayOpens, PlayStarts, PlayFails, diskVars
<1>10. CASE ScanStep
  BY <1>1, <1>10 DEF ScanStep, ScanReads, ScanChecks, ScanCommits, ScanFails, diskVars
<1>11. CASE (\E t \in Ids : PlaylistEdited(t)) \/ (\E l \in Locations : MountChanges(l))
            \/ UNCHANGED vars
  BY <1>1, <1>11 DEF PlaylistEdited, MountChanges, vars, diskVars
<1> QED
  BY <1>6, <1>7, <1>8, <1>9, <1>10, <1>11 DEF Next

\* No handler removes a file that a row names, but the one whose refresh() failed:
\* a deletion commits before it removes, and a repair removes what the row named
\* before.
THEOREM NamedFilesAlwaysStay == Spec => NamedFilesStay
<1>1. NInv /\ [Next]_vars =>
        [\A t \in Rows :
           file[path[t]] = "media" /\ path'[t] = path[t] =>
             \/ file'[path[t]] = "media"
             \/ \E w \in Workers :
                  task[w] = "inserted" /\ task'[w] = "idle" /\ new[w] = path[t]]_vars
  BY StepKeepsNamedFiles DEF FilesStay
<1> QED BY <1>1, NamesInitially, NamesInvariant, PTL DEF Spec, NamedFilesStay

\* A file that the step leaves behind although it could have been removed.
Abandoned(f) ==
  /\ file[f] # "none" /\ file'[f] # "none" /\ ~Owned(f)' /\ Owned(f)
  /\ ~Restart /\ ~(\E w \in Workers : PublishFails(w) /\ new[w] = f)
  /\ LocationOf[f] \in online /\ ~StaleWrite(f) /\ file'[f] # "stuck"
  /\ ~(\E w \in Workers : CopyFails(w) /\ new[w] = f /\ UNCHANGED reserved)

\* What a step removes is gone or stuck, unless a row names it.
LEMMA RemovedIsGone ==
  ASSUME TypeOK, NEW f \in Files, LocationOf[f] \in online, Removal(f), file[f] # "none",
         \A t \in Rows : path[t] # f
  PROVE  file'[f] \in {"none", "stuck"}
BY DEF TypeOK, Without, StuckWith, Removal

\* An owner goes on owning its file as long as it stays where it is.
LEMMA OwnersKeep ==
  ASSUME TInv, NEW f \in Files, Owned(f),
         \A t \in Rows : path[t] = f => t \in Rows' /\ path'[t] = f,
         \A w \in Workers : task[w] \in Holding \ {"inserted"} /\ new[w] = f =>
            task'[w] \in Holding \ {"inserted"} /\ new'[w] = f,
         \A w \in Workers : task[w] = "replaced" /\ old[w] = f =>
            task'[w] = "replaced" /\ old'[w] = f,
         \A d \in Deleters : at[d] = "committed" /\ doomed[d] = f =>
            at'[d] = "committed" /\ doomed'[d] = f
  PROVE  Owned(f)'
BY DEF Owned, TInv

LEMMA NothingAbandoned ==
  ASSUME TInv, [Next]_vars, NEW f \in Files, Abandoned(f)
  PROVE  FALSE
<1>t. TypeOK
  BY DEF TInv
<1>a. /\ Owned(f) /\ ~Owned(f)' /\ ~Restart /\ LocationOf[f] \in online /\ file'[f] # "none"
      /\ ~(\E w \in Workers : PublishFails(w) /\ new[w] = f) /\ ~StaleWrite(f)
      /\ file[f] # "none" /\ file'[f] # "stuck"
      /\ ~(\E w \in Workers : CopyFails(w) /\ new[w] = f /\ UNCHANGED reserved)
  BY DEF Abandoned
<1>n. rowVars' = rowVars => \A g : Removal(g) => g # f
  <2>1. rowVars' = rowVars => \A t \in Rows : path[t] # f
    BY <1>a DEF Owned, rowVars, Rows
  <2> QED BY <1>a, <1>t, <2>1, RemovedIsGone
<1>r. ASSUME \A t \in Ids : status[t] # "none" => status'[t] # "none", path' = path
      PROVE  \A t \in Rows : path[t] = f => t \in Rows' /\ path'[t] = f
  BY <1>r DEF Rows
<1>1. ASSUME NEW w \in Workers, NEW x \in Holding \union {"staged"},
             task' = [task EXCEPT ![w] = x], new' = [new EXCEPT ![w] = new'[w]],
             task[w] \in Holding \ {"inserted"} /\ new[w] = f =>
               x \in Holding \ {"inserted"} /\ new'[w] = f,
             task[w] # "replaced", \A v \in Workers : v # w => old'[v] = old[v],
             \A t \in Rows : path[t] = f => t \in Rows' /\ path'[t] = f,
             deleteVars' = deleteVars
      PROVE  FALSE
  <2>1. /\ \A v \in Workers : v # w => task'[v] = task[v] /\ new'[v] = new[v]
        /\ task'[w] = x
    BY <1>1, <1>t DEF TypeOK
  <2> QED BY <1>1, <1>a, <2>1, OwnersKeep DEF deleteVars
<1>2. ASSUME NEW w \in Workers, Finished(w),
             task[w] \in Holding \ {"inserted"} => new[w] # f,
             task[w] = "replaced" => old[w] # f,
             UNCHANGED <<rowVars, deleteVars>>
      PROVE  FALSE
  <2>1. \A v \in Workers : v # w => task'[v] = task[v] /\ new'[v] = new[v] /\ old'[v] = old[v]
    BY <1>2, <1>t DEF Finished, TypeOK
  <2>2. \A t \in Rows : path[t] = f => t \in Rows' /\ path'[t] = f
    BY <1>2 DEF rowVars, Rows
  <2> QED BY <1>2, <1>a, <2>1, <2>2, OwnersKeep DEF deleteVars
<1>3. ASSUME NEW w \in Workers, ImportStep(w) PROVE FALSE
  <2>1. ASSUME NEW c \in Contents, ImportStarts(w, c) PROVE FALSE
    <3>1. /\ task' = [task EXCEPT ![w] = "staged"] /\ task[w] = "idle"
          /\ UNCHANGED <<rowVars, new, old, deleteVars>>
      BY <2>1 DEF ImportStarts
    <3>2. \A t \in Rows : path[t] = f => t \in Rows' /\ path'[t] = f
      BY <3>1 DEF rowVars, Rows
    <3>3. task[w] \notin Holding
      BY <3>1 DEF Holding, Reserving
    <3>4. new' = [new EXCEPT ![w] = new'[w]]
      BY <3>1, <1>t DEF TypeOK
    <3>5. old' = old /\ deleteVars' = deleteVars
      BY <3>1
    <3> QED BY <1>1, <3>1, <3>2, <3>3, <3>4, <3>5
  <2>2. CASE ImportLooks(w)
    <3>1. UNCHANGED <<rowVars, deleteVars>> /\ task[w] = "staged"
      BY <2>2 DEF ImportLooks
    <3>2. CASE Finished(w)
      BY <1>2, <3>1, <3>2 DEF Holding, Reserving
    <3>3. CASE ~Finished(w)
      BY <1>1, <1>r, <2>2, <3>1, <3>3, <1>t DEF ImportLooks, rowVars, Holding, Reserving, TypeOK
    <3> QED BY <3>2, <3>3
  <2>3. CASE NoPlace(w)
    BY <1>2, <2>3, NoValues DEF NoPlace, TInv, ImportsKnow
  <2>4. ASSUME NEW g \in Files, PlacePromises(w, g) PROVE FALSE
    <3>1. new[w] = NoFile /\ task[w] = "looked"
      BY <2>4 DEF PlacePromises, TInv, ImportsKnow
    <3>2. /\ task' = [task EXCEPT ![w] = "copying"] /\ new' = [new EXCEPT ![w] = g]
          /\ UNCHANGED <<rowVars, old, deleteVars>>
      BY <2>4 DEF PlacePromises
    <3>3. \A t \in Rows : path[t] = f => t \in Rows' /\ path'[t] = f
      BY <3>2 DEF rowVars, Rows
    <3>4. new' = [new EXCEPT ![w] = new'[w]]
      BY <3>2, <1>t DEF TypeOK
    <3>5. new[w] # f /\ task[w] # "replaced" /\ "copying" \in Holding
      BY <3>1, NoValues DEF Holding, Reserving
    <3>6. old' = old /\ deleteVars' = deleteVars
      BY <3>2
    <3> QED BY <1>1, <3>2, <3>3, <3>4, <3>5, <3>6
  <2>5. CASE PlaceCopied(w) \/ PlacePublishes(w) \/ PlaceReturns(w)
    <3>1. \E x \in Holding \ {"inserted"} : task' = [task EXCEPT ![w] = x]
      BY <2>5 DEF PlaceCopied, PlacePublishes, PlaceReturns, Holding, Reserving
    <3>2. new' = new /\ old' = old /\ UNCHANGED <<rowVars, deleteVars>> /\ task[w] # "replaced"
      BY <2>5 DEF PlaceCopied, PlacePublishes, PlaceReturns
    <3>3. PICK x \in Holding \ {"inserted"} : task' = [task EXCEPT ![w] = x]
      BY <3>1
    <3>4. \A t \in Rows : path[t] = f => t \in Rows' /\ path'[t] = f
      BY <1>r, <3>2 DEF rowVars
    <3>5. new' = [new EXCEPT ![w] = new'[w]] /\ deleteVars' = deleteVars
      BY <1>t, <3>2 DEF TypeOK
    <3> QED BY <1>1, <3>2, <3>3, <3>4, <3>5
  <2>6. CASE CopyFails(w) \/ RecheckRejects(w) \/ ImportFails(w)
    <3>1. Finished(w) /\ UNCHANGED <<rowVars, deleteVars>> /\ task[w] # "replaced"
      BY <2>6 DEF CopyFails, RecheckRejects, ImportFails
    <3>2. CASE Removal(new[w])
      BY <1>2, <1>n, <3>1, <3>2
    <3>3. CASE CopyFails(w)
      <4>1. new[w] = f => file' = Without(new[w])
        BY <1>a, <3>3 DEF CopyFails
      <4>2. new[w] = f => Removal(new[w])
        BY <4>1 DEF Removal
      <4> QED BY <1>2, <1>n, <3>1, <4>2
    <3> QED BY <2>6, <3>2, <3>3 DEF RecheckRejects, ImportFails
  <2>7. CASE PublishFails(w)
    BY <1>2, <1>a, <2>7 DEF PublishFails
  <2>8. CASE Recheck(w)
    <3>1. /\ task' = [task EXCEPT ![w] = "rechecked"] /\ task[w] = "placed"
          /\ new' = new /\ UNCHANGED <<rowVars, deleteVars>>
      BY <2>8 DEF Recheck
    <3>2. \A v \in Workers : v # w => old'[v] = old[v]
      BY <2>8, <1>t DEF Recheck, TypeOK
    <3>3. \A t \in Rows : path[t] = f => t \in Rows' /\ path'[t] = f
      BY <3>1 DEF rowVars, Rows
    <3>4. new' = [new EXCEPT ![w] = new'[w]] /\ deleteVars' = deleteVars
      BY <3>1, <1>t DEF TypeOK
    <3>5. "rechecked" \in Holding \ {"inserted"} /\ task[w] # "replaced"
      BY <3>1 DEF Holding
    <3> QED BY <1>1, <3>1, <3>2, <3>3, <3>4, <3>5
  <2>9. CASE RepairCommits(w)
    <3>1. /\ task[w] = "rechecked" /\ found[w] \in Rows /\ found[w] \in Ids
          /\ path' = [path EXCEPT ![found[w]] = new[w]] /\ new' = [new EXCEPT ![w] = NoFile]
          /\ task' = [task EXCEPT ![w] = "replaced"] /\ old' = old /\ deleteVars' = deleteVars
          /\ Rows' = Rows
      BY <2>9, <1>t DEF RepairCommits, Rows, TypeOK
    <3>2. /\ \A v \in Workers : v # w => task'[v] = task[v] /\ new'[v] = new[v]
          /\ task'[w] = "replaced" /\ path'[found[w]] = new[w]
          /\ \A u \in Ids : u # found[w] => path'[u] = path[u]
      BY <3>1, <1>t DEF TypeOK
    <3>3. new[w] # f
      BY <1>a, <3>1, <3>2 DEF Owned
    <3>4. path[found[w]] = f => old[w] = f
      BY <1>a, <2>9 DEF StaleWrite
    <3>5. path[found[w]] # f
      BY <1>a, <3>1, <3>2, <3>4 DEF Owned
    <3>6. \A t \in Rows : path[t] = f => t \in Rows' /\ path'[t] = f
      BY <3>1, <3>2, <3>5 DEF Rows
    <3> QED BY <1>a, <3>1, <3>2, <3>3, <3>6, OwnersKeep DEF deleteVars
  <2>10. CASE RepairReturns(w)
    <3>1. Removal(old[w]) /\ Finished(w) /\ UNCHANGED <<rowVars, deleteVars>>
          /\ task[w] = "replaced"
      BY <2>10 DEF RepairReturns, OldFile
    <3>2. new[w] = NoFile
      BY <3>1 DEF TInv, ImportsKnow
    <3> QED BY <1>2, <1>n, <3>1, <3>2, NoValues
  <2>11. ASSUME NEW t \in Ids, InsertCommits(w, t) PROVE FALSE
    <3>1. /\ task[w] = "rechecked" /\ t \notin Rows
          /\ path' = [path EXCEPT ![t] = new[w]] /\ new' = new
          /\ task' = [task EXCEPT ![w] = "inserted"] /\ old' = old /\ deleteVars' = deleteVars
          /\ Rows' = Rows \union {t}
      BY <2>11, <1>t DEF InsertCommits, Rows, TypeOK, Ids
    <3>2. /\ \A v \in Workers : v # w => task'[v] = task[v]
          /\ task'[w] = "inserted" /\ path'[t] = new[w]
          /\ \A u \in Ids : u # t => path'[u] = path[u]
      BY <3>1, <1>t DEF TypeOK
    <3>3. new[w] # f
      BY <1>a, <3>1, <3>2 DEF Owned
    <3>4. \A u \in Rows : path[u] = f => u \in Rows' /\ path'[u] = f
      BY <3>1, <3>2 DEF Rows
    <3> QED BY <1>a, <3>1, <3>2, <3>3, <3>4, OwnersKeep DEF deleteVars
  <2>12. CASE InsertReturns(w)
    BY <1>2, <2>12 DEF InsertReturns
  <2> QED BY <1>3, <2>1, <2>2, <2>3, <2>4, <2>5, <2>6, <2>7, <2>8, <2>9, <2>10, <2>11, <2>12
     DEF ImportStep
<1>4. ASSUME importVars' = importVars, deleteVars' = deleteVars, path' = path,
             \A t \in Ids : status[t] # "none" => status'[t] # "none"
      PROVE  FALSE
  BY <1>4, <1>a, <1>r, OwnersKeep DEF importVars, deleteVars
<1>5. ASSUME NEW d \in Deleters, DeleteStep(d) PROVE FALSE
  <2>1. importVars' = importVars
    BY <1>5 DEF DeleteStep, DeleteReads, DeleteCommits, DeleteFails, DeleteReturns
  <2>2. ASSUME NEW t \in Ids, DeleteReads(d, t) PROVE FALSE
    <3>1. /\ at[d] = "idle" /\ rowVars' = rowVars
          /\ \A e \in Deleters : e # d => at'[e] = at[e] /\ doomed'[e] = doomed[e]
      BY <2>2, <1>t DEF DeleteReads, TypeOK
    <3> QED BY <1>a, <1>r, <2>1, <3>1, OwnersKeep DEF importVars, rowVars
  <2>3. CASE DeleteCommits(d)
    <3>1. /\ \A e \in Deleters : e # d => at'[e] = at[e]
          /\ doomed' = doomed /\ at'[d] = "committed"
      BY <2>3, <1>t DEF DeleteCommits, TypeOK
    <3>2. path[victim[d]] = f => doomed[d] = f
      BY <1>a, <2>3 DEF StaleWrite
    <3>3. path[victim[d]] # f
      BY <1>a, <3>1, <3>2 DEF Owned
    <3>4. \A u \in Ids : u # victim[d] => status'[u] = status[u] /\ path'[u] = path[u]
      BY <2>3, <1>t DEF DeleteCommits, TypeOK
    <3>5. \A u \in Rows : path[u] = f => u \in Rows' /\ path'[u] = f
      BY <3>3, <3>4 DEF Rows
    <3> QED BY <1>a, <2>1, <3>1, <3>5, OwnersKeep DEF importVars
  <2>4. CASE DeleteFails(d) \/ DeleteReturns(d)
    <3>1. rowVars' = rowVars /\ DeleteEnds(d)
      BY <2>4 DEF DeleteFails, DeleteReturns
    <3>2. \A e \in Deleters : e # d => at'[e] = at[e] /\ doomed'[e] = doomed[e]
      BY <3>1, <1>t DEF DeleteEnds, TypeOK
    <3>3. at[d] = "committed" => doomed[d] # f
      BY <1>n, <2>4, <3>1 DEF DeleteFails, DeleteReturns
    <3> QED BY <1>a, <1>r, <2>1, <3>1, <3>2, <3>3, OwnersKeep DEF importVars, rowVars
  <2> QED BY <1>5, <2>2, <2>3, <2>4 DEF DeleteStep
<1>6. ASSUME NEW p \in Players, PlayStep(p) PROVE FALSE
  <2>1. status' = status \/ \E s \in Statuses : status' = Marked(playing[p], s)
    BY <1>6 DEF PlayStep, PlayReads, PlayMisses, PlayOpens, PlayStarts, PlayFails, rowVars,
       Statuses
  <2>2. path' = path /\ UNCHANGED <<importVars, deleteVars>>
    BY <1>6 DEF PlayStep, PlayReads, PlayMisses, PlayOpens, PlayStarts, PlayFails, rowVars
  <2> QED BY <1>4, <1>t, <2>1, <2>2, MarkedRows
<1>7. CASE ScanStep
  <2>1. \A t \in Ids : status[t] # "none" => status'[t] # "none"
    BY <1>7, <1>t DEF ScanStep, ScanReads, ScanChecks, ScanCommits, ScanFails, rowVars, TypeOK
  <2>2. path' = path /\ UNCHANGED <<importVars, deleteVars>>
    BY <1>7 DEF ScanStep, ScanReads, ScanChecks, ScanCommits, ScanFails, rowVars
  <2> QED BY <1>4, <2>1, <2>2
<1>8. CASE (\E t \in Ids : PlaylistEdited(t)) \/ (\E l \in Locations : MountChanges(l))
           \/ UNCHANGED vars
  BY <1>4, <1>8 DEF PlaylistEdited, MountChanges, vars, rowVars
<1> QED BY <1>3, <1>5, <1>6, <1>7, <1>8, <1>a DEF Next

\* A file is left behind by a restart, a failure after the publication, a location that
\* is away, a write based on an old file, or a removal that fails: the file is stuck, or a
\* copy whose promise is kept with it.  Nothing else leaves one.
THEOREM LeftoversHaveCauses == Spec => LeftoverCauses
<1>1. TInv /\ [Next]_vars =>
        [\A f \in Files :
           file[f] # "none" /\ file'[f] # "none" /\ ~Owned(f)' /\ Owned(f) =>
             \/ Restart
             \/ \E w \in Workers : PublishFails(w) /\ new[w] = f
             \/ LocationOf[f] \notin online
             \/ StaleWrite(f)
             \/ file'[f] = "stuck"
             \/ \E w \in Workers : CopyFails(w) /\ new[w] = f /\ UNCHANGED reserved]_vars
  BY NothingAbandoned DEF Abandoned
<1> QED BY <1>1, TypeInitially, TypeInvariant, PTL DEF Spec, LeftoverCauses

-----------------------------------------------------------------------------
(***************************************************************************)
(* Space.  The files on a disk and those that imports with a promise are to*)
(* write fit together, and only such an import writes a file.  A promise   *)
(* covers its file from the choice of the location to the publication.     *)
(***************************************************************************)
OnDisk(l) == {f \in Files : file[f] # "none" /\ LocationOf[f] = l}
Promised(l) == {w \in Workers : task[w] \in Reserving /\ LocationOf[new[w]] = l}
Pledged(l) ==
  {f \in Files : LocationOf[f] = l /\ \E w \in Workers : task[w] \in Reserving /\ new[w] = f}

\* A copy whose removal fails keeps its promise, so there may be more than are needed.
PromisesCounted == \A l \in Locations : Cardinality(Promised(l)) <= reserved[l]
PledgesFit == \A l \in Locations : Cardinality(OnDisk(l) \union Pledged(l)) <= Limit[l]

SInv == TInv /\ PromisesCounted /\ PledgesFit

LEMMA SetsFinite ==
  ASSUME NEW l
  PROVE  /\ IsFiniteSet(OnDisk(l)) /\ Cardinality(OnDisk(l)) \in Nat
         /\ IsFiniteSet(Promised(l)) /\ Cardinality(Promised(l)) \in Nat
         /\ IsFiniteSet(Pledged(l)) /\ Cardinality(Pledged(l)) \in Nat
<1>1. OnDisk(l) \in SUBSET Files /\ Promised(l) \in SUBSET Workers /\ Pledged(l) \in SUBSET Files
  BY DEF OnDisk, Promised, Pledged
<1>2. IsFiniteSet(OnDisk(l)) /\ IsFiniteSet(Promised(l)) /\ IsFiniteSet(Pledged(l))
  BY <1>1, FilesFinite, WorkersFinite, FS_Subset
<1> QED BY <1>2, FS_CardinalityType

\* There are no more pledged files than promises.
LEMMA PledgesPromised ==
  ASSUME NEW l
  PROVE  Cardinality(Pledged(l)) <= Cardinality(Promised(l))
<1>1. \A w \in Promised(l) : new[w] \in Files => new[w] \in Pledged(l)
  BY DEF Promised, Pledged
<1>2. \A f \in Pledged(l) : \E w \in Promised(l) : new[w] = f
  BY DEF Promised, Pledged
<1> DEFINE P == {w \in Promised(l) : new[w] \in Files}
           g == [w \in P |-> new[w]]
<1>3. P \in SUBSET Promised(l)
  OBVIOUS
<1>4. IsFiniteSet(P) /\ Cardinality(P) \in Nat /\ Cardinality(P) <= Cardinality(Promised(l))
  BY <1>3, SetsFinite, FS_Subset, FS_CardinalityType
<1>5. g \in Surjection(P, Pledged(l))
  <2>1. g \in [P -> Pledged(l)]
    BY <1>1
  <2>2. \A f \in Pledged(l) : \E w \in P : g[w] = f
    BY <1>2 DEF Pledged
  <2> QED BY <2>1, <2>2 DEF Surjection
<1>6. Cardinality(Pledged(l)) <= Cardinality(P)
  BY <1>4, <1>5, FS_Surjection
<1> QED BY <1>4, <1>6, SetsFinite

\* A step that writes pledged files only, and pledges none, keeps the fit.
LEMMA NothingPledged ==
  ASSUME SInv,
         \A f \in Files : file'[f] # "none" =>
            file[f] # "none" \/ \E w \in Workers : task[w] \in Reserving /\ new[w] = f,
         \A w \in Workers : task'[w] \in Reserving => task[w] \in Reserving /\ new'[w] = new[w]
  PROVE  PledgesFit'
<1>1. Reserving' = Reserving
  BY DEF Reserving
<1>2. ASSUME NEW l \in Locations
      PROVE  Cardinality(OnDisk(l)' \union Pledged(l)') <= Limit[l]
  <2>1. OnDisk(l)' \union Pledged(l)' \in SUBSET (OnDisk(l) \union Pledged(l))
    BY <1>1 DEF OnDisk, Pledged
  <2>2. Cardinality(OnDisk(l) \union Pledged(l)) <= Limit[l] /\ Limit[l] \in Nat
    BY LocationsConfigured DEF SInv, PledgesFit
  <2>3. IsFiniteSet(OnDisk(l) \union Pledged(l))
    BY SetsFinite, FS_Union
  <2>4. /\ Cardinality(OnDisk(l)' \union Pledged(l)') <= Cardinality(OnDisk(l) \union Pledged(l))
        /\ IsFiniteSet(OnDisk(l)' \union Pledged(l)')
    BY <2>1, <2>3, FS_Subset
  <2>5. /\ Cardinality(OnDisk(l) \union Pledged(l)) \in Nat
        /\ Cardinality(OnDisk(l)' \union Pledged(l)') \in Nat
    BY <2>3, <2>4, FS_CardinalityType
  <2> QED BY <2>2, <2>4, <2>5
<1> QED BY <1>2 DEF PledgesFit

\* The promises stay, and no import is given one.
LEMMA PromisesStay ==
  ASSUME SInv, reserved' = reserved,
         \A w \in Workers : task'[w] \in Reserving => task[w] \in Reserving /\ new'[w] = new[w]
  PROVE  PromisesCounted'
<1>1. ASSUME NEW l \in Locations PROVE Promised(l)' \subseteq Promised(l)
  <2>1. Reserving' = Reserving
    BY DEF Reserving
  <2> QED BY <2>1 DEF Promised
<1>2. ASSUME NEW l \in Locations PROVE Cardinality(Promised(l)') <= reserved'[l]
  <2>1. Cardinality(Promised(l)) <= reserved[l] /\ reserved[l] \in Nat
    BY DEF SInv, PromisesCounted, TInv, TypeOK
  <2>2. IsFiniteSet(Promised(l)) /\ Cardinality(Promised(l)) \in Nat
    BY SetsFinite
  <2>3. IsFiniteSet(Promised(l)') /\ Cardinality(Promised(l)') <= Cardinality(Promised(l))
    BY <1>1, <2>2, FS_Subset
  <2>4. Cardinality(Promised(l)') \in Nat
    BY <2>3, FS_CardinalityType
  <2> QED BY <2>1, <2>2, <2>3, <2>4
<1> QED BY <1>2 DEF PromisesCounted

\* One promise ends.
LEMMA PromiseEnds ==
  ASSUME SInv, NEW w \in Workers, task[w] \in Reserving, Released(w), task'[w] \notin Reserving,
         \A v \in Workers : v # w => task'[v] = task[v] /\ new'[v] = new[v]
  PROVE  PromisesCounted'
<1>1. PICK k \in Locations : k = LocationOf[new[w]]
  BY LocationsConfigured DEF SInv, TInv, TypeOK, ImportsKnow, Reserving
<1>2. reserved' = [reserved EXCEPT ![k] = IF @ > 0 THEN @ - 1 ELSE 0]
  BY <1>1 DEF Released
<1>3. Reserving' = Reserving
  BY DEF Reserving
<1>4. w \in Promised(k)
  BY <1>1 DEF Promised
<1>5. Promised(k)' = Promised(k) \ {w}
  BY <1>3 DEF Promised
<1>6. Cardinality(Promised(k)') = Cardinality(Promised(k)) - 1
  BY <1>4, <1>5, SetsFinite, FS_RemoveElement
<1>7. Cardinality(Promised(k)) \in Nat /\ Cardinality(Promised(k)) # 0
  BY <1>4, SetsFinite, FS_EmptySet
<1>8. Cardinality(Promised(k)) <= reserved[k]
  BY DEF SInv, PromisesCounted
<1>9. reserved \in [Locations -> Nat]
  BY DEF SInv, TInv, TypeOK
<1>10. Cardinality(Promised(k)') <= reserved'[k]
  <2>1. reserved[k] \in Nat /\ reserved[k] > 0
    BY <1>7, <1>8, <1>9
  <2>2. reserved'[k] = reserved[k] - 1
    BY <1>2, <1>9, <2>1
  <2> QED BY <1>6, <1>7, <1>8, <2>1, <2>2
<1>11. ASSUME NEW l \in Locations, l # k PROVE Cardinality(Promised(l)') <= reserved'[l]
  <2>1. Promised(l)' = Promised(l)
    BY <1>1, <1>3, <1>11 DEF Promised
  <2>2. reserved'[l] = reserved[l]
    BY <1>2, <1>9, <1>11
  <2> QED BY <2>1, <2>2 DEF SInv, PromisesCounted
<1>12. \A l \in Locations : Cardinality(Promised(l)') <= reserved'[l]
  BY <1>10, <1>11
<1> QED BY <1>12 DEF PromisesCounted

\* A promise is made for a file that fits beside all others.
LEMMA PlacePromisesFits ==
  ASSUME SInv, NEW w \in Workers, NEW f \in Files, PlacePromises(w, f)
  PROVE  PromisesCounted' /\ PledgesFit'
<1>1. PICK k \in Locations : k = LocationOf[f]
  BY LocationsConfigured
<1>2. /\ reserved \in [Locations -> Nat] /\ reserved' = [reserved EXCEPT ![k] = @ + 1]
      /\ reserved[k] \in Nat /\ file' = file
  BY <1>1 DEF PlacePromises, SInv, TInv, TypeOK
<1>3. /\ task[w] \notin Reserving /\ task'[w] \in Reserving /\ new'[w] = f
      /\ \A v \in Workers : v # w => task'[v] = task[v] /\ new'[v] = new[v]
  BY DEF PlacePromises, SInv, TInv, TypeOK, Reserving
<1>4. Reserving' = Reserving
  BY DEF Reserving
<1>5. Promised(k)' = Promised(k) \union {w} /\ w \notin Promised(k)
  BY <1>1, <1>3, <1>4 DEF Promised
<1>6. Cardinality(Promised(k)') = Cardinality(Promised(k)) + 1
  BY <1>5, SetsFinite, FS_AddElement
<1>7. \A l \in Locations : l # k => Promised(l)' = Promised(l)
  BY <1>1, <1>3, <1>4 DEF Promised
<1>8. \A l \in Locations : Cardinality(Promised(l)) <= reserved[l]
  BY DEF SInv, PromisesCounted
<1>9. PromisesCounted'
  <2>1. Cardinality(Promised(k)') <= reserved'[k]
    <3>1. Cardinality(Promised(k)) \in Nat /\ reserved'[k] = reserved[k] + 1
      BY <1>2, SetsFinite
    <3> QED BY <1>2, <1>6, <1>8, <3>1
  <2>2. ASSUME NEW l \in Locations, l # k PROVE Cardinality(Promised(l)') <= reserved'[l]
    <3>1. reserved'[l] = reserved[l]
      BY <1>2, <2>2
    <3> QED BY <1>7, <1>8, <2>2, <3>1
  <2>3. \A l \in Locations : Cardinality(Promised(l)') <= reserved'[l]
    BY <2>1, <2>2
  <2> QED BY <2>3 DEF PromisesCounted
<1>10. /\ \A l : OnDisk(l)' = OnDisk(l)
       /\ \A l : l # k => Pledged(l)' = Pledged(l)
       /\ Pledged(k)' = Pledged(k) \union {f}
  <2>1. \A l : OnDisk(l)' = OnDisk(l)
    BY <1>2 DEF OnDisk
  <2>2. \A l : l # k => Pledged(l)' = Pledged(l)
    BY <1>1, <1>3, <1>4 DEF Pledged
  <2>3. Pledged(k)' = Pledged(k) \union {f}
    BY <1>1, <1>3, <1>4 DEF Pledged
  <2> QED BY <2>1, <2>2, <2>3
<1>11. Cardinality(OnDisk(k)' \union Pledged(k)') <= Limit[k]
  <2>1. Cardinality(OnDisk(k)) + reserved[k] + 1 <= Limit[k] /\ Limit[k] \in Nat
    BY <1>1, LocationsConfigured DEF PlacePromises, Selectable, Fits, Used, OnDisk
  <2>2. Cardinality(Pledged(k)) <= reserved[k]
    BY <1>2, <1>8, PledgesPromised, SetsFinite
  <2>3. /\ IsFiniteSet(OnDisk(k) \union Pledged(k)) /\ IsFiniteSet(OnDisk(k) \cap Pledged(k))
        /\ Cardinality(OnDisk(k) \union Pledged(k))
             = Cardinality(OnDisk(k)) + Cardinality(Pledged(k)) - Cardinality(OnDisk(k) \cap Pledged(k))
    BY SetsFinite, FS_Union, FS_Intersection
  <2>4. /\ Cardinality(OnDisk(k) \cap Pledged(k)) \in Nat
        /\ Cardinality(OnDisk(k) \union Pledged(k)) \in Nat
    BY <2>3, FS_CardinalityType
  <2>5. Cardinality((OnDisk(k) \union Pledged(k)) \union {f})
          <= Cardinality(OnDisk(k) \union Pledged(k)) + 1
    <3> DEFINE S == OnDisk(k) \union Pledged(k)
    <3>1. IsFiniteSet(S) /\ Cardinality(S) \in Nat
      BY <2>3, <2>4
    <3> HIDE DEF S
    <3>2. Cardinality(S \union {f}) = IF f \in S THEN Cardinality(S) ELSE Cardinality(S) + 1
      BY <3>1, FS_AddElement
    <3>3. Cardinality(S \union {f}) <= Cardinality(S) + 1
      BY <3>1, <3>2
    <3> QED BY <3>3 DEF S
  <2>6. OnDisk(k)' \union Pledged(k)' = (OnDisk(k) \union Pledged(k)) \union {f}
    BY <1>10
  <2>7. Cardinality((OnDisk(k) \union Pledged(k)) \union {f}) \in Nat
    BY <2>3, FS_AddElement, FS_CardinalityType
  <2>8. Cardinality((OnDisk(k) \union Pledged(k)) \union {f}) <= Limit[k]
    BY <1>2, <2>1, <2>2, <2>3, <2>4, <2>5, <2>7, SetsFinite
  <2> QED BY <2>6, <2>8
<1>12. \A l \in Locations : Cardinality(OnDisk(l)' \union Pledged(l)') <= Limit[l]
  <2>1. \A l \in Locations : Cardinality(OnDisk(l) \union Pledged(l)) <= Limit[l]
    BY DEF SInv, PledgesFit
  <2>2. ASSUME NEW l \in Locations, l # k
        PROVE  OnDisk(l)' = OnDisk(l) /\ Pledged(l)' = Pledged(l)
    BY <1>10, <2>2
  <2> QED BY <1>11, <2>1, <2>2
<1>13. PledgesFit'
  BY <1>12 DEF PledgesFit
<1> QED BY <1>9, <1>13

\* A step that makes and ends no promise.
LEMMA PromisesApart ==
  ASSUME SInv, reserved' = reserved,
         \A f \in Files : file'[f] # "none" => file[f] # "none",
         \A w \in Workers : task'[w] \in Reserving => task[w] \in Reserving /\ new'[w] = new[w]
  PROVE  PromisesCounted' /\ PledgesFit'
BY PromisesStay, NothingPledged

LEMMA RemovalWritesNothing ==
  ASSUME TypeOK, file' = file \/ \E f : Removal(f)
  PROVE  \A g \in Files : file'[g] # "none" => file[g] # "none"
BY RemovalIs

LEMMA SpaceInvariant == SInv /\ [Next]_vars => SInv'
<1> SUFFICES ASSUME SInv, [Next]_vars PROVE SInv'
  OBVIOUS
<1>t. TInv /\ TypeOK
  BY DEF SInv, TInv
<1>0. TInv'
  BY TypeInvariant DEF SInv
<1> SUFFICES PromisesCounted' /\ PledgesFit'
  BY <1>0 DEF SInv
<1>1. ASSUME NEW w \in Workers, ImportStep(w) PROVE PromisesCounted' /\ PledgesFit'
  <2>f. ASSUME Finished(w)
        PROVE  /\ task'[w] = "idle"
               /\ \A v \in Workers : v # w => task'[v] = task[v] /\ new'[v] = new[v]
    BY <2>f, <1>t DEF Finished, TypeOK
  <2>g. ASSUME Finished(w), task[w] \notin Reserving, reserved' = reserved,
               file' = file \/ \E f : Removal(f)
        PROVE  PromisesCounted' /\ PledgesFit'
    <3>1. "idle" \notin Reserving
      BY DEF Reserving
    <3>2. \A f \in Files : file'[f] # "none" => file[f] # "none"
      BY <1>t, <2>g, RemovalWritesNothing
    <3> QED BY <2>f, <2>g, <3>1, <3>2, PromisesApart
  <2>h. ASSUME NEW x, task' = [task EXCEPT ![w] = x], x \notin Reserving,
               task[w] \notin Reserving, new' = [new EXCEPT ![w] = new'[w]],
               reserved' = reserved, file' = file
        PROVE  PromisesCounted' /\ PledgesFit'
    <3>1. /\ task'[w] = x /\ \A v \in Workers : v # w => task'[v] = task[v] /\ new'[v] = new[v]
      BY <2>h, <1>t DEF TypeOK
    <3> QED BY <2>h, <3>1, PromisesApart
  <2>1. ASSUME NEW c \in Contents, ImportStarts(w, c) PROVE PromisesCounted' /\ PledgesFit'
    BY <2>1, <2>h, <1>t DEF ImportStarts, diskVars, Reserving, TypeOK
  <2>2. CASE ImportLooks(w)
    BY <2>2, <2>g, <2>h, <1>t DEF ImportLooks, diskVars, Reserving, TypeOK
  <2>3. CASE NoPlace(w) \/ InsertReturns(w)
    BY <2>3, <2>g DEF NoPlace, InsertReturns, diskVars, Reserving
  <2>4. ASSUME NEW f \in Files, PlacePromises(w, f) PROVE PromisesCounted' /\ PledgesFit'
    BY <2>4, PlacePromisesFits
  <2>5. CASE PlaceCopied(w) \/ PlacePublishes(w)
    <3>1. /\ task[w] \in Reserving /\ reserved' = reserved /\ new' = new
          /\ \E x \in Reserving : task' = [task EXCEPT ![w] = x]
          /\ \E y : file' = [file EXCEPT ![new[w]] = y]
      BY <2>5 DEF PlaceCopied, PlacePublishes, Reserving
    <3>2. \A v \in Workers : task'[v] \in Reserving <=> task[v] \in Reserving
      BY <1>t, <3>1 DEF TypeOK
    <3>3. \A f \in Files : file'[f] # "none" =>
            file[f] # "none" \/ \E v \in Workers : task[v] \in Reserving /\ new[v] = f
      BY <1>t, <3>1 DEF TypeOK
    <3>4. PromisesCounted'
      BY <3>1, <3>2, PromisesStay
    <3>5. PledgesFit'
      BY <3>1, <3>2, <3>3, NothingPledged
    <3> QED BY <3>4, <3>5
  <2>6. CASE PlaceReturns(w) \/ CopyFails(w) \/ PublishFails(w)
    <3>1. task[w] \in Reserving /\ (Released(w) \/ reserved' = reserved)
      BY <2>6 DEF PlaceReturns, CopyFails, PublishFails, Reserving
    <3>2. /\ task'[w] \notin Reserving
          /\ \A v \in Workers : v # w => task'[v] = task[v] /\ new'[v] = new[v]
      <4>1. CASE PlaceReturns(w)
        BY <4>1, <1>t DEF PlaceReturns, TypeOK, Reserving
      <4>2. CASE Finished(w)
        BY <4>2, <2>f DEF Reserving
      <4> QED BY <2>6, <4>1, <4>2 DEF CopyFails, PublishFails
    <3>3. file' = file \/ file' = Without(new[w]) \/ file' = [file EXCEPT ![new[w]] = "part"]
      BY <2>6 DEF PlaceReturns, CopyFails, PublishFails
    <3>4. \A f \in Files : file'[f] # "none" => file[f] # "none" \/ f = new[w]
      BY <1>t, <3>3 DEF Without, TypeOK
    <3>5. PromisesCounted'
      BY <3>1, <3>2, PromiseEnds, PromisesStay
    <3>6. PledgesFit'
      BY <3>1, <3>2, <3>4, NothingPledged
    <3> QED BY <3>5, <3>6
  <2>7. CASE RecheckRejects(w) \/ RepairReturns(w) \/ ImportFails(w)
    <3>1. Finished(w) /\ task[w] \notin Reserving /\ reserved' = reserved
      BY <2>7 DEF RecheckRejects, RepairReturns, ImportFails, Reserving
    <3>2. \E f : Removal(f)
      BY <2>7 DEF RecheckRejects, RepairReturns, ImportFails
    <3> QED BY <2>g, <3>1, <3>2
  <2>8. CASE Recheck(w)
    <3>1. /\ task[w] = "placed" /\ task' = [task EXCEPT ![w] = "rechecked"]
          /\ new' = new /\ reserved' = reserved /\ file' = file
      BY <2>8 DEF Recheck, diskVars
    <3> QED BY <2>h, <3>1, <1>t DEF Reserving, TypeOK
  <2>9. CASE RepairCommits(w)
    BY <2>9, <2>h, <1>t DEF RepairCommits, diskVars, Reserving, TypeOK
  <2>10. ASSUME NEW t \in Ids, InsertCommits(w, t) PROVE PromisesCounted' /\ PledgesFit'
    BY <2>10, <2>h, <1>t DEF InsertCommits, diskVars, Reserving, TypeOK
  <2> QED BY <1>1, <2>1, <2>2, <2>3, <2>4, <2>5, <2>6, <2>7, <2>8, <2>9, <2>10 DEF ImportStep
<1>2. ASSUME importVars' = importVars, reserved' = reserved,
             file' = file \/ \E f : Removal(f)
      PROVE  PromisesCounted' /\ PledgesFit'
  <2>1. \A f \in Files : file'[f] # "none" => file[f] # "none"
    BY <1>2, <1>t, RemovalWritesNothing
  <2> QED BY <1>2, <2>1, PromisesApart DEF importVars
<1>3. ASSUME NEW d \in Deleters, DeleteStep(d) PROVE PromisesCounted' /\ PledgesFit'
  BY <1>2, <1>3 DEF DeleteStep, DeleteReads, DeleteCommits, DeleteFails, DeleteReturns, diskVars
<1>4. ASSUME NEW p \in Players, PlayStep(p) PROVE PromisesCounted' /\ PledgesFit'
  BY <1>2, <1>4 DEF PlayStep, PlayReads, PlayMisses, PlayOpens, PlayStarts, PlayFails, diskVars
<1>5. CASE ScanStep
  BY <1>2, <1>5 DEF ScanStep, ScanReads, ScanChecks, ScanCommits, ScanFails, diskVars
<1>6. CASE (\E t \in Ids : PlaylistEdited(t)) \/ (\E l \in Locations : MountChanges(l))
           \/ UNCHANGED vars
  BY <1>2, <1>6 DEF PlaylistEdited, MountChanges, vars, diskVars
<1>7. CASE Restart
  <2>1. /\ \A w \in Workers : task'[w] \notin Reserving
        /\ \A f \in Files : file'[f] # "none" => file[f] # "none"
        /\ \A l \in Locations : reserved'[l] = 0
    BY <1>7 DEF Restart, Reserving
  <2>2. ASSUME NEW l \in Locations PROVE Cardinality(Promised(l)') <= reserved'[l]
    <3>1. Promised(l)' = {}
      BY <2>1 DEF Promised, Reserving
    <3> QED BY <2>1, <3>1, FS_EmptySet
  <2>3. PromisesCounted'
    BY <2>2 DEF PromisesCounted
  <2> QED BY <2>1, <2>3, NothingPledged
<1> QED BY <1>1, <1>3, <1>4, <1>5, <1>6, <1>7 DEF Next

LEMMA SpaceInitially == Init => SInv
<1> SUFFICES ASSUME Init PROVE SInv
  OBVIOUS
<1>1. \A l : OnDisk(l) = {} /\ Promised(l) = {} /\ Pledged(l) = {}
  BY DEF Init, OnDisk, Promised, Pledged, Reserving
<1>2. Cardinality({}) = 0
  BY FS_EmptySet
<1>3. PromisesCounted
  <2>1. \A l \in Locations : Cardinality(Promised(l)) = 0 /\ reserved[l] = 0
    BY <1>1, <1>2 DEF Init
  <2> QED BY <2>1 DEF PromisesCounted
<1>4. ASSUME NEW l \in Locations PROVE Cardinality(OnDisk(l) \union Pledged(l)) <= Limit[l]
  <2>1. OnDisk(l) \union Pledged(l) = {} /\ Limit[l] \in Nat
    BY <1>1, LocationsConfigured
  <2>2. Cardinality(OnDisk(l) \union Pledged(l)) = 0
    BY <1>2, <2>1
  <2> QED BY <2>1, <2>2
<1> QED BY <1>3, <1>4, TypeInitially DEF SInv, PledgesFit

\* No location is filled beyond its limit, however many imports place copies at a
\* time and wherever they fail: promises are counted with what is written already.
THEOREM SpaceIsAlwaysKept == Spec => []SpaceKept
<1>1. SInv => SpaceKept
  <2> SUFFICES ASSUME SInv, NEW l \in Locations PROVE Used(l) <= Limit[l]
    BY DEF SpaceKept
  <2>1. OnDisk(l) \in SUBSET (OnDisk(l) \union Pledged(l))
    OBVIOUS
  <2>2. IsFiniteSet(OnDisk(l) \union Pledged(l))
    BY SetsFinite, FS_Union
  <2>3. Cardinality(OnDisk(l)) <= Cardinality(OnDisk(l) \union Pledged(l))
    BY <2>1, <2>2, FS_Subset
  <2>4. Cardinality(OnDisk(l) \union Pledged(l)) \in Nat /\ Cardinality(OnDisk(l)) \in Nat
    BY <2>2, SetsFinite, FS_CardinalityType
  <2>5. Cardinality(OnDisk(l) \union Pledged(l)) <= Limit[l] /\ Limit[l] \in Nat
    BY LocationsConfigured DEF SInv, PledgesFit
  <2> QED BY <2>3, <2>4, <2>5 DEF Used, OnDisk
<1> QED BY <1>1, SpaceInitially, SpaceInvariant, PTL DEF Spec

-----------------------------------------------------------------------------
(***************************************************************************)
(* The library implements the content store.                               *)
(***************************************************************************)
Early == {"copying", "copied"}
Written == {"published", "placed", "rechecked"}

\* No two imports write the same file, even after the insert.
NewApart == \A w, v \in Workers : w # v /\ new[w] # NoFile => new[v] # new[w]

\* A copy is complete from its publication until a row names it.
CopiesThere ==
  \A w \in Workers :
    /\ task[w] \in Early => file[new[w]] # "media"
    /\ task[w] \in Written => file[new[w]] = "media"

CInv == NInv /\ NewApart /\ CopiesThere

\* An import takes a step: its own copy is as its next state says, and the copies of
\* the others are left alone.
LEMMA ImportKeepsCopies ==
  ASSUME CInv, NEW w \in Workers, NEW x, NEW y,
         task' = [task EXCEPT ![w] = x], new' = [new EXCEPT ![w] = y],
         \A v \in Workers : v # w /\ task[v] \in Writing => file'[new[v]] = file[new[v]],
         x \in Early => file'[y] # "media", x \in Written => file'[y] = "media",
         y # NoFile => \A v \in Workers : v # w => new[v] # y
  PROVE  NewApart' /\ CopiesThere'
<1>1. /\ task'[w] = x /\ new'[w] = y
      /\ \A v \in Workers : v # w => task'[v] = task[v] /\ new'[v] = new[v]
  BY DEF CInv, NInv, TInv, TypeOK
<1>2. NewApart'
  BY <1>1 DEF CInv, NewApart
<1>3. \A v \in Workers : v # w =>
        /\ task[v] \in Early => file[new[v]] # "media" /\ task[v] \in Writing
        /\ task[v] \in Written => file[new[v]] = "media" /\ task[v] \in Writing
  BY DEF CInv, CopiesThere, Early, Written, Writing, Reserving
<1>4. ASSUME NEW v \in Workers
      PROVE  /\ task'[v] \in Early => file'[new'[v]] # "media"
             /\ task'[v] \in Written => file'[new'[v]] = "media"
  <2>1. CASE v = w
    BY <1>1, <2>1
  <2>2. CASE v # w
    BY <1>1, <1>3, <2>2
  <2> QED BY <2>1, <2>2
<1> QED BY <1>2, <1>4 DEF CopiesThere

\* A step of another handler that touches no copy under way.
LEMMA OthersKeepCopies ==
  ASSUME CInv, UNCHANGED <<task, new>>,
         \A v \in Workers : task[v] \in Writing => file'[new[v]] = file[new[v]]
  PROVE  NewApart' /\ CopiesThere'
<1>1. Early \subseteq Writing /\ Written \subseteq Writing
  BY DEF Early, Written, Writing, Reserving
<1>2. NewApart'
  BY DEF CInv, NewApart
<1>3. CopiesThere'
  BY <1>1 DEF CInv, CopiesThere
<1> QED BY <1>2, <1>3

\* The copy of an import that writes is a file, and of no other handler.
LEMMA CopyIsItsOwn ==
  ASSUME NInv, NEW w \in Workers, task[w] \in Writing
  PROVE  /\ new[w] \in Files
         /\ \A v \in Workers : v # w => new[v] # new[w]
         /\ \A v \in Workers : old[v] # new[w]
         /\ \A d \in Deleters : doomed[d] # new[w]
         /\ \A t \in Rows : path[t] # new[w]
<1>1. new[w] \in Files
  BY DEF NInv, TInv, TypeOK, ImportsKnow, Writing, Reserving
<1> QED BY <1>1 DEF NInv, WritersApart

LEMMA CopiesInvariant == CInv /\ [Next]_vars => CInv'
<1> SUFFICES ASSUME CInv, [Next]_vars PROVE CInv'
  OBVIOUS
<1>0. NInv' /\ NInv /\ TInv /\ TypeOK
  BY NamesInvariant DEF CInv, NInv, TInv
<1> SUFFICES NewApart' /\ CopiesThere'
  BY <1>0 DEF CInv
<1>t. new = [w \in Workers |-> new[w]] /\ \A w \in Workers : new = [new EXCEPT ![w] = new[w]]
  BY <1>0 DEF TypeOK
<1>n. \A w \in Workers : new[w] # NoFile => \A v \in Workers : v # w => new[v] # new[w]
  BY DEF CInv, NewApart
<1>m. \A v \in Workers : task[v] \in Writing => new[v] \in Files
  BY <1>0, CopyIsItsOwn
<1>1. ASSUME NEW w \in Workers, NEW x \in {"staged", "looked", "placed", "rechecked", "inserted"},
             task' = [task EXCEPT ![w] = x], new' = new, file' = file,
             x \in Written => task[w] \in Written
      PROVE  NewApart' /\ CopiesThere'
  <2>1. x \notin Early
    BY DEF Early
  <2>2. x \in Written => file'[new[w]] = "media"
    BY <1>1 DEF CInv, CopiesThere
  <2> QED BY <1>1, <1>n, <1>t, <2>1, <2>2, ImportKeepsCopies
<1>2. ASSUME NEW w \in Workers, Finished(w),
             \A v \in Workers : v # w /\ task[v] \in Writing => file'[new[v]] = file[new[v]]
      PROVE  NewApart' /\ CopiesThere'
  <2>1. "idle" \notin Early /\ "idle" \notin Written
    BY DEF Early, Written
  <2>2. task' = [task EXCEPT ![w] = "idle"] /\ new' = [new EXCEPT ![w] = NoFile]
    BY <1>2 DEF Finished
  <2> QED BY <1>2, <2>1, <2>2, ImportKeepsCopies
<1>3. ASSUME NEW w \in Workers, Finished(w), \A f \in Files : f # new[w] => file'[f] = file[f]
      PROVE  NewApart' /\ CopiesThere'
  <2>1. ASSUME NEW v \in Workers, v # w, task[v] \in Writing PROVE file'[new[v]] = file[new[v]]
    <3>1. new[v] \in Files /\ new[w] # new[v]
      BY <1>0, <2>1, CopyIsItsOwn
    <3> QED BY <1>3, <3>1
  <2> QED BY <1>2, <1>3, <2>1
<1>4. ASSUME NEW w \in Workers, (\E c \in Contents : ImportStarts(w, c)) \/ PlaceReturns(w)
               \/ Recheck(w) \/ (\E t \in Ids : InsertCommits(w, t))
      PROVE  NewApart' /\ CopiesThere'
  <2>1. /\ new' = new /\ file' = file
        /\ \E x \in {"staged", "looked", "placed", "rechecked", "inserted"} :
             /\ task' = [task EXCEPT ![w] = x]
             /\ x \in Written => task[w] \in Written
    BY <1>4 DEF ImportStarts, PlaceReturns, Recheck, InsertCommits, Written, diskVars
  <2> QED BY <1>1, <2>1
<1>5. ASSUME NEW w \in Workers, ImportLooks(w) PROVE NewApart' /\ CopiesThere'
  <2>1. file' = file /\ "looked" \notin Written
    BY <1>5 DEF ImportLooks, diskVars, Written
  <2>2. CASE Duplicate(content[w])
    BY <1>2, <1>5, <2>1, <2>2 DEF ImportLooks
  <2>3. CASE ~Duplicate(content[w])
    <3>1. task' = [task EXCEPT ![w] = "looked"] /\ new' = new
      BY <1>5, <2>3 DEF ImportLooks
    <3> QED BY <1>1, <2>1, <3>1
  <2> QED BY <2>2, <2>3
<1>6. ASSUME NEW w \in Workers, NEW f \in Files, PlacePromises(w, f)
      PROVE  NewApart' /\ CopiesThere'
  <2>1. /\ task' = [task EXCEPT ![w] = "copying"] /\ new' = [new EXCEPT ![w] = f]
        /\ file' = file /\ file[f] = "none" /\ \A v \in Workers : new[v] # f
    BY <1>6 DEF PlacePromises, Fresh
  <2>2. "copying" \notin Written
    BY DEF Written
  <2> QED BY <2>1, <2>2, ImportKeepsCopies
<1>7. ASSUME NEW w \in Workers, NEW x, NEW s,
             \/ x = "copied" /\ s = "part" /\ PlaceCopied(w)
             \/ x = "published" /\ s = "media" /\ PlacePublishes(w)
      PROVE  NewApart' /\ CopiesThere'
  <2>1. task' = [task EXCEPT ![w] = x] /\ new' = new /\ file' = [file EXCEPT ![new[w]] = s]
        /\ task[w] \in Writing
    BY <1>7 DEF PlaceCopied, PlacePublishes, Writing, Reserving
  <2>2. new[w] \in Files
    BY <1>m, <2>1
  <2>3. file'[new[w]] = s /\ \A f \in Files : f # new[w] => file'[f] = file[f]
    BY <1>0, <2>1, <2>2 DEF TypeOK
  <2>4. \A v \in Workers : v # w /\ task[v] \in Writing => file'[new[v]] = file[new[v]]
    BY <1>m, <2>1, <2>3, <1>0, CopyIsItsOwn
  <2>5. (x \in Early => s # "media") /\ (x \in Written => s = "media")
    BY <1>7 DEF Early, Written
  <2>6. (x \in Early => file'[new[w]] # "media") /\ (x \in Written => file'[new[w]] = "media")
    BY <2>3, <2>5
  <2>7. new' = [new EXCEPT ![w] = new[w]]
    BY <1>t, <2>1
  <2> QED BY <1>n, <2>1, <2>4, <2>6, <2>7, ImportKeepsCopies
<1>8. ASSUME NEW w \in Workers, NoPlace(w) \/ InsertReturns(w) \/ PublishFails(w)
      PROVE  NewApart' /\ CopiesThere'
  <2>1. Finished(w) /\ file' = file
    BY <1>8 DEF NoPlace, InsertReturns, PublishFails, diskVars
  <2> QED BY <1>2, <2>1
<1>9. ASSUME NEW w \in Workers, CopyFails(w) \/ RecheckRejects(w) \/ ImportFails(w)
      PROVE  NewApart' /\ CopiesThere'
  <2>1. Finished(w)
    BY <1>9 DEF CopyFails, RecheckRejects, ImportFails
  <2>2. CASE CopyFails(w)
    <3>1. file' = Without(new[w]) \/ file' = [file EXCEPT ![new[w]] = "part"]
      BY <2>2 DEF CopyFails
    <3>2. \A f \in Files : f # new[w] => file'[f] = file[f]
      BY <1>0, <3>1 DEF Without, TypeOK
    <3> QED BY <1>3, <2>1, <3>2
  <2>3. CASE Removal(new[w])
    <3>1. \A f \in Files : f # new[w] => file'[f] = file[f]
      BY <1>0, <2>3, RemovalIs
    <3> QED BY <1>3, <2>1, <3>1
  <2> QED BY <1>9, <2>2, <2>3 DEF RecheckRejects, ImportFails
<1>10. ASSUME NEW w \in Workers, RepairCommits(w) PROVE NewApart' /\ CopiesThere'
  <2>1. task' = [task EXCEPT ![w] = "replaced"] /\ new' = [new EXCEPT ![w] = NoFile] /\ file' = file
    BY <1>10 DEF RepairCommits, diskVars
  <2>2. "replaced" \notin Early /\ "replaced" \notin Written
    BY DEF Early, Written
  <2> QED BY <2>1, <2>2, ImportKeepsCopies
<1>11. ASSUME NEW w \in Workers, RepairReturns(w) PROVE NewApart' /\ CopiesThere'
  <2>1. Finished(w) /\ Removal(old[w])
    BY <1>11 DEF RepairReturns, OldFile
  <2>2. \A v \in Workers : task[v] \in Writing => file'[new[v]] = file[new[v]]
    BY <1>0, <2>1, CopyIsItsOwn, RemovalIs
  <2> QED BY <1>2, <2>1, <2>2
<1>12. ASSUME NEW w \in Workers, ImportStep(w) PROVE NewApart' /\ CopiesThere'
  BY <1>4, <1>5, <1>6, <1>7, <1>8, <1>9, <1>10, <1>11, <1>12 DEF ImportStep
<1>13. ASSUME NEW d \in Deleters, DeleteStep(d) PROVE NewApart' /\ CopiesThere'
  <2>1. UNCHANGED <<task, new>>
    BY <1>13 DEF DeleteStep, DeleteReads, DeleteCommits, DeleteFails, DeleteReturns, importVars
  <2>2. file' = file \/ Removal(doomed[d])
    BY <1>13 DEF DeleteStep, DeleteReads, DeleteCommits, DeleteFails, DeleteReturns, diskVars
  <2>3. \A v \in Workers : task[v] \in Writing => file'[new[v]] = file[new[v]]
    BY <1>0, <2>2, CopyIsItsOwn, RemovalIs
  <2> QED BY <2>1, <2>3, OthersKeepCopies
<1>14. CASE Restart
  <2>1. \A w \in Workers : new'[w] = NoFile /\ task'[w] = "idle"
    BY <1>14 DEF Restart
  <2> QED BY <2>1 DEF NewApart, CopiesThere, Early, Written
<1>15. ASSUME UNCHANGED <<task, new, file>> PROVE NewApart' /\ CopiesThere'
  BY <1>15, OthersKeepCopies
<1>16. ASSUME NEW p \in Players, PlayStep(p) PROVE UNCHANGED <<task, new, file>>
  BY <1>16 DEF PlayStep, PlayReads, PlayMisses, PlayOpens, PlayStarts, PlayFails, importVars, diskVars
<1>17. CASE ScanStep
  BY <1>15, <1>17 DEF ScanStep, ScanReads, ScanChecks, ScanCommits, ScanFails, importVars, diskVars
<1>18. CASE (\E t \in Ids : PlaylistEdited(t)) \/ (\E l \in Locations : MountChanges(l))
            \/ UNCHANGED vars
  BY <1>15, <1>18 DEF PlaylistEdited, MountChanges, vars, importVars, diskVars
<1> QED BY <1>12, <1>13, <1>14, <1>15, <1>16, <1>17, <1>18 DEF Next

LEMMA CopiesInitially == Init => CInv
<1> SUFFICES ASSUME Init PROVE CInv
  OBVIOUS
<1>1. \A w \in Workers : new[w] = NoFile /\ task[w] = "idle"
  BY DEF Init
<1> QED BY <1>1, NamesInitially DEF CInv, NewApart, CopiesThere, Early, Written

Paths == {path[t] : t \in Rows}

LEMMA NamesOfPairs ==
  /\ Store!Named = Paths /\ Store!Held = {sha[t] : t \in Rows}
  /\ \A h \in Pairs : \E t \in Rows : h = <<sha[t], path[t]>>
<1>1. \A h \in Pairs : \E t \in Rows : h = <<sha[t], path[t]>>
  BY DEF Pairs
<1>2. \A t \in Rows : <<sha[t], path[t]>> \in Pairs
  BY DEF Pairs
<1>3. \A h \in Pairs : \E t \in Rows : h[1] = sha[t] /\ h[2] = path[t]
  BY <1>1
<1>4. \A t \in Rows : \E h \in Pairs : h[1] = sha[t] /\ h[2] = path[t]
  <2> TAKE t \in Rows
  <2>1. <<sha[t], path[t]>>[1] = sha[t] /\ <<sha[t], path[t]>>[2] = path[t]
    OBVIOUS
  <2> QED BY <1>2, <2>1
<1>5. {h[2] : h \in Pairs} = {path[t] : t \in Rows}
  BY <1>3, <1>4
<1>6. {h[1] : h \in Pairs} = {sha[t] : t \in Rows}
  BY <1>3, <1>4
<1> QED BY <1>1, <1>5, <1>6 DEF Store!Named, Store!Held, Paths

\* What leaves the three parts of the store alone.
LEMMA SameNames ==
  ASSUME UNCHANGED <<sha, path>>, \A t \in Ids : status'[t] = "none" <=> status[t] = "none"
  PROVE  Pairs' = Pairs /\ Paths' = Paths
<1>1. Rows' = Rows
  BY DEF Rows
<1> QED BY <1>1 DEF Pairs, Paths

LEMMA SameComplete ==
  ASSUME \A f \in Files : file'[f] = "media" <=> file[f] = "media"
  PROVE  Complete' = Complete
BY DEF Complete

LEMMA UnansweredIs == Unanswered = {new[w] : w \in {v \in Workers : task[v] = "inserted"}} \intersect Paths
BY DEF Unanswered, Paths

LEMMA SameUnanswered ==
  ASSUME Paths' = Paths,
         \A w \in Workers : /\ task'[w] = "inserted" <=> task[w] = "inserted"
                            /\ task[w] = "inserted" => new'[w] = new[w]
  PROVE  Unanswered' = Unanswered
<1>1. {new'[w] : w \in {v \in Workers : task'[v] = "inserted"}}
      = {new[w] : w \in {v \in Workers : task[v] = "inserted"}}
  OBVIOUS
<1>2. Unanswered' = {new'[w] : w \in {v \in Workers : task'[v] = "inserted"}} \intersect Paths'
  BY DEF Unanswered, Paths
<1> QED BY <1>1, <1>2, UnansweredIs

StoreStep == [Store!Next]_(Store!vars)

LEMMA StoreStutters ==
  ASSUME UNCHANGED <<Pairs, Complete, Unanswered>>
  PROVE  StoreStep
BY DEF StoreStep, Store!vars

LEMMA RemovalCompletes ==
  ASSUME TypeOK, NEW g, Removal(g)
  PROVE  Complete' = Complete \/ (g \in Complete /\ Complete' = Complete \ {g})
<1>1. /\ \A f \in Files : f # g => file'[f] = file[f]
      /\ \A f \in Files : file'[f] = "media" => file[f] = "media"
  BY RemovalIs
<1>2. CASE Complete' # Complete
  <2>1. g \in Files /\ file'[g] # "media" /\ file[g] = "media"
    BY <1>1, <1>2, SameComplete
  <2> QED BY <1>1, <1>2, <2>1 DEF Complete
<1> QED BY <1>2

\* The file g is removed if it can be, and no row names it.  A stuck one is not complete
\* any more: nobody looks after it.
LEMMA NamelessFileGoes ==
  ASSUME TypeOK, NEW g, Removal(g), g \notin Paths, UNCHANGED <<Pairs, Unanswered>>
  PROVE  StoreStep
<1>1. CASE Complete' = Complete
  BY <1>1, StoreStutters
<1>2. CASE Complete' # Complete
  <2>1. Complete' = Complete \ {g} /\ g \in Complete
    BY <1>2, RemovalCompletes
  <2>2. Store!Discard(g)
    BY <2>1 DEF Store!Discard
  <2>3. g \in Complete \ Store!Named
    BY <2>1, NamesOfPairs
  <2> QED BY <2>2, <2>3 DEF StoreStep, Store!Next
<1> QED BY <1>1, <1>2

\* A step that takes no import into or out of "inserted".
LEMMA QuietTask ==
  ASSUME TypeOK, NEW w \in Workers, NEW x, x # "inserted", task[w] # "inserted",
         task' = [task EXCEPT ![w] = x],
         \A v \in Workers : v # w => new'[v] = new[v],
         Paths' = Paths
  PROVE  Unanswered' = Unanswered
<1>1. task'[w] = x /\ \A v \in Workers : v # w => task'[v] = task[v]
  BY DEF TypeOK
<1>2. \A v \in Workers : /\ task'[v] = "inserted" <=> task[v] = "inserted"
                         /\ task[v] = "inserted" => new'[v] = new[v]
  BY <1>1
<1> QED BY <1>2, SameUnanswered

\* The import w leaves "inserted": its file is settled, if it still has its name.
LEMMA InsertedEnds ==
  ASSUME CInv, NEW w \in Workers, task[w] = "inserted", Finished(w), Paths' = Paths
  PROVE  Unanswered' = Unanswered \ {new[w]} /\ (new[w] \in Unanswered <=> new[w] \in Paths)
<1>1. /\ task'[w] # "inserted" /\ new[w] # NoFile
      /\ \A v \in Workers : v # w => task'[v] = task[v] /\ new'[v] = new[v] /\ new[v] # new[w]
  BY DEF Finished, CInv, NInv, TInv, TypeOK, ImportsKnow, NewApart
<1>2. {new'[v] : v \in {u \in Workers : task'[u] = "inserted"}}
      = {new[v] : v \in {u \in Workers : task[u] = "inserted"}} \ {new[w]}
  BY <1>1
<1>3. Unanswered' = {new'[v] : v \in {u \in Workers : task'[u] = "inserted"}} \intersect Paths'
  BY DEF Unanswered, Paths
<1> QED BY <1>2, <1>3, UnansweredIs

LEMMA InsertAdds ==
  ASSUME CInv, NEW w \in Workers, NEW t \in Ids, InsertCommits(w, t)
  PROVE  StoreStep
<1>t. TInv /\ TypeOK /\ NInv
  BY DEF CInv, NInv, TInv
<1>1. /\ task[w] = "rechecked" /\ task[w] \in Writing /\ task[w] \in Written
      /\ RowsOf(content[w]) = {} /\ \A u \in Rows : u < t
      /\ status' = [status EXCEPT ![t] = "ok"] /\ sha' = [sha EXCEPT ![t] = content[w]]
      /\ path' = [path EXCEPT ![t] = new[w]] /\ task' = [task EXCEPT ![w] = "inserted"]
      /\ new' = new /\ file' = file
  BY DEF InsertCommits, diskVars, Writing, Written, Reserving
<1>2. PICK c, f : c = content[w] /\ f = new[w]
  OBVIOUS
<1>3. f \in Files /\ f \notin Paths /\ file[f] = "media"
  BY <1>1, <1>2, <1>t, CopyIsItsOwn DEF Paths, CInv, CopiesThere
<1>4. c \in Contents
  BY <1>1, <1>2, <1>t DEF TInv, TypeOK, ImportsKnow
<1>5. t \notin Rows
  <2>1. ~(t < t)
    BY DEF Ids
  <2> QED BY <1>1, <2>1
<1>6. /\ Rows' = Rows \union {t} /\ sha'[t] = c /\ path'[t] = f
      /\ \A u \in Rows : sha'[u] = sha[u] /\ path'[u] = path[u]
  BY <1>1, <1>2, <1>5, <1>t DEF Rows, TypeOK
<1>7. Pairs' = Pairs \union {<<c, f>>}
  BY <1>6 DEF Pairs
<1>8. Paths' = Paths \union {f}
  BY <1>6 DEF Paths
<1>9. Complete' = Complete /\ f \in Complete
  BY <1>1, <1>3 DEF Complete
<1>10. Unanswered' = Unanswered \union {f}
  <2>1. task'[w] = "inserted" /\ \A v \in Workers : v # w => task'[v] = task[v]
    BY <1>1, <1>t DEF TypeOK
  <2>2. {new'[v] : v \in {u \in Workers : task'[u] = "inserted"}}
        = {new[v] : v \in {u \in Workers : task[u] = "inserted"}} \union {f}
    BY <1>1, <1>2, <2>1
  <2>3. Unanswered' = {new'[v] : v \in {u \in Workers : task'[u] = "inserted"}} \intersect Paths'
    BY DEF Unanswered, Paths
  <2> QED BY <1>8, <2>2, <2>3, UnansweredIs
<1>11. c \in Contents \ Store!Held /\ f \in Complete \ Store!Named
  BY <1>1, <1>2, <1>3, <1>4, <1>9, NamesOfPairs DEF RowsOf
<1>12. Store!Add(c, f)
  BY <1>7, <1>9, <1>10 DEF Store!Add
<1> QED BY <1>11, <1>12 DEF StoreStep, Store!Next

LEMMA RepairReplaces ==
  ASSUME CInv, NEW w \in Workers, RepairCommits(w)
  PROVE  StoreStep
<1>t. TInv /\ TypeOK /\ NInv
  BY DEF CInv, NInv, TInv
<1>1. PICK t \in Rows : t = found[w]
  BY DEF RepairCommits
<1>2. /\ task[w] = "rechecked" /\ task[w] \in Writing /\ task[w] \in Written
      /\ status' \in {status, [status EXCEPT ![t] = "ok"]} /\ sha' = sha
      /\ path' = [path EXCEPT ![t] = new[w]] /\ task' = [task EXCEPT ![w] = "replaced"]
      /\ new' = [new EXCEPT ![w] = NoFile] /\ file' = file
  BY <1>1 DEF RepairCommits, diskVars, Writing, Written, Reserving
<1>3. PICK c, e, f : c = sha[t] /\ e = path[t] /\ f = new[w]
  OBVIOUS
<1>4. /\ f \in Files /\ f \notin Paths /\ file[f] = "media"
      /\ \A v \in Workers : v # w => new[v] # f
  BY <1>2, <1>3, <1>t, CopyIsItsOwn DEF Paths, CInv, CopiesThere
<1>5. /\ Rows' = Rows /\ path'[t] = f
      /\ \A u \in Rows : u # t => path'[u] = path[u] /\ path[u] # e
  BY <1>1, <1>2, <1>3, <1>t DEF Rows, TypeOK, NInv, RowsApart
<1>6. <<c, e>> \in Pairs /\ \A u \in Rows : u # t => <<sha[u], path[u]>> # <<c, e>>
  BY <1>3, <1>5 DEF Pairs
<1>7. Pairs' = (Pairs \ {<<c, e>>}) \union {<<c, f>>}
  BY <1>2, <1>3, <1>5, <1>6 DEF Pairs
<1>8. Paths' = (Paths \ {e}) \union {f}
  BY <1>3, <1>5 DEF Paths
<1>9. Complete' = Complete /\ f \in Complete
  BY <1>2, <1>4 DEF Complete
<1>10. Unanswered' = Unanswered \ {e}
  <2>1. /\ task[w] # "inserted" /\ task'[w] # "inserted"
        /\ \A v \in Workers : v # w => task'[v] = task[v] /\ new'[v] = new[v]
    BY <1>2, <1>t DEF TypeOK
  <2>2. {new'[v] : v \in {u \in Workers : task'[u] = "inserted"}}
        = {new[v] : v \in {u \in Workers : task[u] = "inserted"}}
    BY <2>1
  <2>3. Unanswered' = {new'[v] : v \in {u \in Workers : task'[u] = "inserted"}} \intersect Paths'
    BY DEF Unanswered, Paths
  <2>4. f \notin {new[v] : v \in {u \in Workers : task[u] = "inserted"}}
    BY <1>4, <2>1
  <2> QED BY <1>8, <2>2, <2>3, <2>4, UnansweredIs
<1>11. f \in Complete \ Store!Named
  BY <1>4, <1>9, NamesOfPairs
<1>12. Store!Replace(<<c, e>>, f)
  BY <1>7, <1>9, <1>10 DEF Store!Replace
<1> QED BY <1>6, <1>11, <1>12 DEF StoreStep, Store!Next

LEMMA DeletionRemoves ==
  ASSUME CInv, NEW d \in Deleters, DeleteCommits(d)
  PROVE  StoreStep
<1>t. TInv /\ TypeOK /\ NInv
  BY DEF CInv, NInv, TInv
<1>1. PICK t : t = victim[d]
  OBVIOUS
<1>2. /\ status' = [status EXCEPT ![t] = "none"] /\ sha' = [sha EXCEPT ![t] = NoContent]
      /\ path' = [path EXCEPT ![t] = NoFile] /\ UNCHANGED <<task, new, file>>
  BY <1>1 DEF DeleteCommits, importVars, diskVars
<1>3. CASE t \in Rows
  <2>1. PICK c, e : c = sha[t] /\ e = path[t]
    OBVIOUS
  <2>2. /\ Rows' = Rows \ {t}
        /\ \A u \in Rows : u # t => sha'[u] = sha[u] /\ path'[u] = path[u] /\ path[u] # e
    BY <1>2, <1>3, <1>t, <2>1 DEF Rows, TypeOK, NInv, RowsApart
  <2>3. <<c, e>> \in Pairs /\ \A u \in Rows : u # t => <<sha[u], path[u]>> # <<c, e>>
    BY <1>3, <2>1, <2>2 DEF Pairs
  <2>4. Pairs' = Pairs \ {<<c, e>>}
    BY <2>1, <2>2, <2>3 DEF Pairs
  <2>5. Paths' = Paths \ {e}
    BY <2>1, <2>2 DEF Paths
  <2>6. Complete' = Complete
    BY <1>2 DEF Complete
  <2>7. Unanswered' = Unanswered \ {e}
    <3>1. Unanswered' = {new[v] : v \in {u \in Workers : task[u] = "inserted"}} \intersect Paths'
      BY <1>2 DEF Unanswered, Paths
    <3> QED BY <2>5, <3>1, UnansweredIs
  <2>8. Store!Remove(<<c, e>>)
    BY <2>4, <2>6, <2>7 DEF Store!Remove
  <2> QED BY <2>3, <2>8 DEF StoreStep, Store!Next
<1>4. CASE t \notin Rows
  <2>1. status' = status /\ sha' = sha /\ path' = path
    BY <1>2, <1>4, <1>t DEF TypeOK, Rows
  <2>2. UNCHANGED <<Pairs, Complete, Unanswered>>
    BY <1>2, <2>1 DEF Pairs, Complete, Unanswered, Rows
  <2> QED BY <2>2, StoreStutters
<1> QED BY <1>3, <1>4

\* The import whose answer is outstanding fails: it takes its file with it, if it can.
LEMMA InsertWithdraws ==
  ASSUME CInv, NEW w \in Workers, task[w] = "inserted", ImportFails(w)
  PROVE  StoreStep
<1>t. TypeOK
  BY DEF CInv, NInv, TInv
<1>1. /\ Removal(new[w]) /\ Finished(w)
      /\ UNCHANGED <<sha, path>> /\ status' = status
  BY DEF ImportFails, rowVars
<1>2. Pairs' = Pairs /\ Paths' = Paths
  BY <1>1, SameNames
<1>3. Unanswered' = Unanswered \ {new[w]} /\ (new[w] \in Unanswered <=> new[w] \in Paths)
  BY <1>1, <1>2, InsertedEnds
<1>4. CASE new[w] \notin Paths
  <2>1. Unanswered' = Unanswered
    BY <1>3, <1>4
  <2> QED BY <1>1, <1>2, <1>4, <1>t, <2>1, NamelessFileGoes
<1>5. CASE new[w] \in Paths
  <2>1. Complete' = Complete \/ Complete' = Complete \ {new[w]}
    BY <1>1, <1>t, RemovalCompletes
  <2>2. Store!Settle(new[w]) \/ Store!Withdraw(new[w])
    BY <1>2, <1>3, <2>1 DEF Store!Settle, Store!Withdraw
  <2> QED BY <1>3, <1>5, <2>2 DEF StoreStep, Store!Next
<1> QED BY <1>4, <1>5

LEMMA InsertSettles ==
  ASSUME CInv, NEW w \in Workers, InsertReturns(w)
  PROVE  StoreStep
<1>1. /\ task[w] = "inserted" /\ Finished(w) /\ file' = file
      /\ UNCHANGED <<sha, path>> /\ status' = status
  BY DEF InsertReturns, rowVars, diskVars
<1>2. Pairs' = Pairs /\ Paths' = Paths /\ Complete' = Complete
  BY <1>1, SameNames, SameComplete
<1>3. Unanswered' = Unanswered \ {new[w]}
  BY <1>1, <1>2, InsertedEnds
<1>4. CASE new[w] \in Unanswered
  <2>1. Store!Settle(new[w])
    BY <1>2, <1>3 DEF Store!Settle
  <2> QED BY <1>4, <2>1 DEF StoreStep, Store!Next
<1>5. CASE new[w] \notin Unanswered
  BY <1>2, <1>3, <1>5, StoreStutters
<1> QED BY <1>4, <1>5

LEMMA PublicationStores ==
  ASSUME CInv, NEW w \in Workers, PlacePublishes(w)
  PROVE  StoreStep
<1>t. TInv /\ TypeOK /\ NInv
  BY DEF CInv, NInv, TInv
<1>1. /\ task[w] = "copied" /\ task[w] \in Writing /\ task[w] \in Early
      /\ file' = [file EXCEPT ![new[w]] = "media"] /\ task' = [task EXCEPT ![w] = "published"]
      /\ new' = new /\ UNCHANGED <<sha, path>> /\ status' = status
  BY DEF PlacePublishes, rowVars, Writing, Reserving, Early
<1>2. PICK f \in Files : f = new[w]
  BY <1>1, <1>t, CopyIsItsOwn
<1>3. file[f] # "media" /\ f \notin Paths
  BY <1>1, <1>2, <1>t, CopyIsItsOwn DEF Paths, CInv, CopiesThere
<1>4. Pairs' = Pairs /\ Paths' = Paths
  BY <1>1, SameNames
<1>5. Unanswered' = Unanswered
  BY <1>1, <1>4, <1>t, QuietTask
<1>6. f \notin Complete /\ Complete' = Complete \union {f}
  BY <1>1, <1>2, <1>3, <1>t DEF Complete, TypeOK
<1>7. Store!Store(f)
  BY <1>4, <1>5, <1>6 DEF Store!Store
<1>8. f \in Files \ (Complete \union Store!Named)
  BY <1>3, <1>6, NamesOfPairs
<1> QED BY <1>7, <1>8 DEF StoreStep, Store!Next

LEMMA RestartKeepsNames ==
  ASSUME CInv, Restart
  PROVE  StoreStep
<1>1. UNCHANGED <<sha, path>> /\ status' = status
  BY DEF Restart, rowVars
<1>2. Pairs' = Pairs
  BY <1>1, SameNames
<1>3. \A f \in Files : file'[f] = "media" <=> file[f] = "media"
  BY DEF Restart
<1>4. Complete' = Complete
  BY <1>3, SameComplete
<1>5. \A w \in Workers : task'[w] # "inserted"
  BY DEF Restart
<1>6. Unanswered' = {}
  BY <1>5 DEF Unanswered
<1>7. Store!Restart
  BY <1>2, <1>4, <1>6 DEF Store!Restart
<1> QED BY <1>7 DEF StoreStep, Store!Next

\* Every step of an import, a deletion, a supervisor, a scan or the machine is one of
\* the store, or the store does not see it.
LEMMA StepStores ==
  ASSUME CInv, [Next]_vars
  PROVE  StoreStep
<1>t. TInv /\ TypeOK /\ NInv
  BY DEF CInv, NInv, TInv
<1>1. ASSUME UNCHANGED <<sha, path, status, file, task, new>> PROVE StoreStep
  <2>1. UNCHANGED <<Pairs, Complete, Unanswered>>
    BY <1>1 DEF Pairs, Complete, Unanswered, Rows
  <2> QED BY <2>1, StoreStutters
<1>2. ASSUME UNCHANGED <<sha, path, file, task, new>>,
             \A t \in Ids : status'[t] = "none" <=> status[t] = "none"
      PROVE  StoreStep
  <2>1. Pairs' = Pairs /\ Paths' = Paths /\ Complete' = Complete
    BY <1>2, SameNames, SameComplete
  <2>2. Unanswered' = Unanswered
    BY <1>2, <2>1, SameUnanswered
  <2> QED BY <2>1, <2>2, StoreStutters
<1>3. ASSUME NEW w \in Workers, NEW x, x # "inserted", task[w] # "inserted",
             task' = [task EXCEPT ![w] = x], \A v \in Workers : v # w => new'[v] = new[v],
             UNCHANGED <<sha, path, status>>
      PROVE  Pairs' = Pairs /\ Paths' = Paths /\ Unanswered' = Unanswered
  <2>1. Pairs' = Pairs /\ Paths' = Paths
    BY <1>3, SameNames
  <2> QED BY <1>3, <1>t, <2>1, QuietTask
<1>4. ASSUME NEW w \in Workers, Finished(w), task[w] # "inserted", UNCHANGED <<sha, path, status>>
      PROVE  Pairs' = Pairs /\ Paths' = Paths /\ Unanswered' = Unanswered
  <2>1. task' = [task EXCEPT ![w] = "idle"] /\ \A v \in Workers : v # w => new'[v] = new[v]
    BY <1>4, <1>t DEF Finished, TypeOK
  <2> QED BY <1>3, <1>4, <2>1
<1>5. ASSUME NEW w \in Workers, ImportStep(w) PROVE StoreStep
  <2>1. CASE (\E c \in Contents : ImportStarts(w, c)) \/ (\E f \in Files : PlacePromises(w, f))
             \/ PlaceReturns(w) \/ Recheck(w)
    <3>1. /\ UNCHANGED <<sha, path, status>> /\ file' = file /\ task[w] # "inserted"
          /\ \E x \in {"staged", "copying", "placed", "rechecked"} : task' = [task EXCEPT ![w] = x]
      BY <2>1 DEF ImportStarts, PlacePromises, PlaceReturns, Recheck, rowVars, diskVars
    <3>2. \A v \in Workers : v # w => new'[v] = new[v]
      BY <2>1, <1>t DEF ImportStarts, PlacePromises, PlaceReturns, Recheck, TypeOK
    <3>3. Complete' = Complete
      BY <3>1, SameComplete
    <3> QED BY <1>3, <3>1, <3>2, <3>3, StoreStutters
  <2>2. CASE ImportLooks(w) \/ NoPlace(w) \/ PublishFails(w)
    <3>1. /\ UNCHANGED <<sha, path, status>> /\ file' = file /\ task[w] # "inserted"
          /\ Finished(w) \/ (task' = [task EXCEPT ![w] = "looked"] /\ new' = new)
      BY <2>2 DEF ImportLooks, NoPlace, PublishFails, rowVars, diskVars
    <3>2. Complete' = Complete
      BY <3>1, SameComplete
    <3>3. UNCHANGED <<Pairs, Unanswered>>
      BY <1>3, <1>4, <3>1
    <3> QED BY <3>2, <3>3, StoreStutters
  <2>3. CASE PlaceCopied(w)
    <3>1. /\ task[w] = "copying" /\ task[w] \in Writing /\ task[w] \in Early
          /\ file' = [file EXCEPT ![new[w]] = "part"] /\ task' = [task EXCEPT ![w] = "copied"]
          /\ new' = new /\ UNCHANGED <<sha, path, status>>
      BY <2>3 DEF PlaceCopied, rowVars, Writing, Reserving, Early
    <3>2. file[new[w]] # "media"
      BY <3>1 DEF CInv, CopiesThere
    <3>3. \A f \in Files : file'[f] = "media" <=> file[f] = "media"
      BY <1>t, <3>1, <3>2 DEF TypeOK
    <3>4. Complete' = Complete
      BY <3>3, SameComplete
    <3> QED BY <1>3, <3>1, <3>4, StoreStutters
  <2>4. CASE CopyFails(w) \/ RecheckRejects(w) \/ (task[w] # "inserted" /\ ImportFails(w))
    <3>1. /\ task[w] # "inserted" /\ Finished(w) /\ UNCHANGED <<sha, path, status>>
          /\ task[w] \in Writing \/ new[w] = NoFile
      BY <2>4, <1>t DEF CopyFails, RecheckRejects, ImportFails, rowVars, Writing, Reserving, TInv,
         ImportsKnow
    <3>2. new[w] \notin Paths
      BY <1>t, <3>1, CopyIsItsOwn, NoValues DEF Paths, Rows, TypeOK
    <3>3. UNCHANGED <<Pairs, Unanswered>>
      BY <1>4, <3>1
    <3>4. CASE Removal(new[w])
      BY <1>t, <3>2, <3>3, <3>4, NamelessFileGoes
    <3>5. CASE CopyFails(w) /\ file' = [file EXCEPT ![new[w]] = "part"]
      <4>1. task[w] \in Early
        BY <3>5 DEF CopyFails, Early
      <4>2. file[new[w]] # "media"
        BY <4>1 DEF CInv, CopiesThere
      <4>3. \A f \in Files : file'[f] = "media" <=> file[f] = "media"
        BY <1>t, <3>5, <4>2 DEF TypeOK
      <4>4. Complete' = Complete
        BY <4>3, SameComplete
      <4> QED BY <3>3, <4>4, StoreStutters
    <3> QED BY <2>4, <3>4, <3>5 DEF CopyFails, RecheckRejects, ImportFails, Removal
  <2>5. CASE RepairReturns(w)
    <3>1. /\ task[w] = "replaced" /\ Removal(old[w]) /\ Finished(w)
          /\ UNCHANGED <<sha, path, status>>
      BY <2>5 DEF RepairReturns, OldFile, rowVars
    <3>2. old[w] \notin Paths
      BY <1>t, <3>1 DEF Paths, NInv, RepairsKnow
    <3> QED BY <1>4, <1>t, <3>1, <3>2, NamelessFileGoes
  <2>6. CASE ImportFails(w) /\ task[w] = "inserted"
    BY <2>6, InsertWithdraws
  <2> QED BY <1>5, <2>1, <2>2, <2>3, <2>4, <2>5, <2>6, InsertAdds, InsertSettles, RepairReplaces,
       PublicationStores DEF ImportStep
<1>6. ASSUME NEW d \in Deleters, DeleteStep(d) PROVE StoreStep
  <2>1. CASE (\E t \in Ids : DeleteReads(d, t)) \/ DeleteFails(d)
    BY <1>1, <2>1 DEF DeleteReads, DeleteFails, rowVars, diskVars, importVars
  <2>2. CASE DeleteReturns(d)
    <3>1. /\ at[d] = "committed" /\ Removal(doomed[d])
          /\ UNCHANGED <<sha, path, status, task, new>>
      BY <2>2 DEF DeleteReturns, rowVars, importVars
    <3>2. doomed[d] \notin Paths
      BY <1>t, <3>1 DEF Paths, NInv, DeletionsKnow
    <3>3. UNCHANGED <<Pairs, Unanswered>>
      BY <3>1 DEF Pairs, Unanswered, Rows
    <3> QED BY <1>t, <3>1, <3>2, <3>3, NamelessFileGoes
  <2> QED BY <1>6, <2>1, <2>2, DeletionRemoves DEF DeleteStep
<1>7. ASSUME NEW p \in Players, PlayStep(p) PROVE StoreStep
  <2>1. UNCHANGED <<sha, path, file, task, new>>
    BY <1>7 DEF PlayStep, PlayReads, PlayMisses, PlayOpens, PlayStarts, PlayFails, rowVars,
       diskVars, importVars
  <2>2. status' = status \/ \E s \in Statuses : status' = Marked(playing[p], s)
    BY <1>7 DEF PlayStep, PlayReads, PlayMisses, PlayOpens, PlayStarts, PlayFails, rowVars, Statuses
  <2>3. \A t \in Ids : status'[t] = "none" <=> status[t] = "none"
    BY <1>t, <2>2, MarkedType
  <2> QED BY <1>2, <2>1, <2>3
<1>8. CASE ScanCommits
  <2>1. /\ UNCHANGED <<sha, path, file, task, new>>
        /\ \A t \in Ids : verdict[t] # "keep" => t \in Rows
        /\ status' = [t \in Ids |-> IF verdict[t] = "keep" THEN status[t] ELSE verdict[t]]
    BY <1>8 DEF ScanCommits, diskVars, importVars
  <2>2. \A t \in Ids : verdict[t] # "none"
    BY <1>t DEF TypeOK
  <2>3. \A t \in Ids : status'[t] = "none" <=> status[t] = "none"
    BY <2>1, <2>2 DEF Rows
  <2> QED BY <1>2, <2>1, <2>3
<1>9. CASE ScanReads \/ (\E t \in Ids : ScanChecks(t)) \/ ScanFails
           \/ (\E t \in Ids : PlaylistEdited(t)) \/ (\E l \in Locations : MountChanges(l))
           \/ UNCHANGED vars
  BY <1>1, <1>9 DEF ScanReads, ScanChecks, ScanFails, PlaylistEdited, MountChanges, vars, rowVars,
     diskVars, importVars
<1> QED BY <1>5, <1>6, <1>7, <1>8, <1>9, RestartKeepsNames DEF Next, ScanStep

LEMMA StoreInitially == Init => Store!Init
<1> SUFFICES ASSUME Init PROVE Store!Init
  OBVIOUS
<1>1. Rows = {} /\ \A f \in Files : file[f] # "media"
  BY DEF Init, Rows
<1> QED BY <1>1 DEF Store!Init, Pairs, Complete, Unanswered

\* Whatever imports, deletions, repairs, supervisors and scans do at a time, and
\* wherever they fail or the machine stops, what the users of the library see is a
\* store: one name for a content, a complete file before it is named, and no file
\* removed under its name but by the insert whose refresh() failed.
THEOREM StoreIsImplemented == Spec => ImplementsStore
<1>1. CInv /\ [Next]_vars => [Store!Next]_(Store!vars)
  BY StepStores DEF StoreStep
<1> QED BY <1>1, CopiesInitially, CopiesInvariant, StoreInitially, PTL
  DEF Spec, ImplementsStore, Store!Spec

LEMMA StoreIsOneToOne == Spec => []Store!OneToOne
<1>1. Store!Init => Store!OneToOne
  BY DEF Store!Init, Store!OneToOne
<1>2. Store!OneToOne /\ [Store!Next]_(Store!vars) => Store!OneToOne'
  <2> SUFFICES ASSUME Store!OneToOne, [Store!Next]_(Store!vars),
                      NEW g \in Pairs', NEW h \in Pairs', g[1] = h[1] \/ g[2] = h[2]
               PROVE  g = h
    BY DEF Store!OneToOne
  <2>o. \A a, b \in Pairs : a[1] = b[1] \/ a[2] = b[2] => a = b
    BY DEF Store!OneToOne
  <2>1. CASE Pairs' \subseteq Pairs
    BY <2>o, <2>1
  <2>2. ASSUME NEW c \in Contents \ Store!Held, NEW f \in Complete \ Store!Named, Store!Add(c, f)
        PROVE  g = h
    <3>1. Pairs' = Pairs \union {<<c, f>>} /\ \A a \in Pairs : a[1] # c /\ a[2] # f
      BY <2>2 DEF Store!Add, Store!Held, Store!Named
    <3> QED BY <2>o, <3>1
  <2>3. ASSUME NEW k \in Pairs, NEW f \in Complete \ Store!Named, Store!Replace(k, f)
        PROVE  g = h
    <3>1. Pairs' = (Pairs \ {k}) \union {<<k[1], f>>} /\ \A a \in Pairs : a[2] # f
      BY <2>3 DEF Store!Replace, Store!Named
    <3>2. \A a \in Pairs \ {k} : a[1] # k[1]
      BY <2>o
    <3> QED BY <2>o, <3>1, <3>2
  <2>4. ASSUME NEW k \in Pairs, Store!Remove(k) PROVE g = h
    BY <2>1, <2>4 DEF Store!Remove
  <2>5. CASE \/ \E f \in Files \ (Complete \union Store!Named) : Store!Store(f)
             \/ \E f \in Complete \ Store!Named : Store!Discard(f)
             \/ \E f \in Unanswered : Store!Settle(f) \/ Store!Withdraw(f)
             \/ Store!Restart \/ UNCHANGED Store!vars
    BY <2>1, <2>5 DEF Store!Store, Store!Discard, Store!Settle, Store!Withdraw, Store!Restart,
       Store!vars
  <2> QED BY <2>2, <2>3, <2>4, <2>5 DEF Store!Next
<1> QED BY <1>1, <1>2, StoreIsImplemented, PTL DEF ImplementsStore, Store!Spec

TracksApart == \A t, u \in Rows : sha[t] = sha[u] \/ path[t] = path[u] => t = u

\* It follows for the rows that no two of them have the same content or name the same
\* file, through every repair and every id that is used again.
THEOREM TracksStayApart == Spec => []TracksApart
<1>1. CInv /\ Store!OneToOne => TracksApart
  <2> SUFFICES ASSUME CInv, Store!OneToOne, NEW t \in Rows, NEW u \in Rows,
                      sha[t] = sha[u] \/ path[t] = path[u]
               PROVE  t = u
    BY DEF TracksApart
  <2>1. PICK g, h : g = <<sha[t], path[t]>> /\ h = <<sha[u], path[u]>>
    OBVIOUS
  <2>2. g \in Pairs /\ h \in Pairs /\ (g[1] = h[1] \/ g[2] = h[2])
    BY <2>1 DEF Pairs
  <2>3. g = h
    BY <2>2 DEF Store!OneToOne
  <2>4. path[t] = path[u]
    BY <2>1, <2>3
  <2> QED BY <2>4 DEF CInv, NInv, RowsApart
<1> QED BY <1>1, CopiesInitially, CopiesInvariant, StoreIsOneToOne, PTL DEF Spec
=============================================================================
