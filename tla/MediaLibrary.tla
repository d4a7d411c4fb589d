---------------------------- MODULE MediaLibrary ----------------------------
(***************************************************************************)
(* The media library: track rows and the files that they name              *)
(* (services/media.py, services/storage.py, delete_track() and             *)
(* scan_tracks() in routers/admin.py, and what a supervisor writes to the  *)
(* row of the track it plays, services/playback.py).                       *)
(*                                                                         *)
(* Imports run in the threads of upload workers and of the directory scan, *)
(* deletions in request threads.  An import holds the lock of its digest   *)
(* from its first look at the rows to its end, and no transaction while it *)
(* copies.  An UPDATE or DELETE goes by the id of the row only, and SQLite *)
(* gives the id of a deleted newest row to the next one.                   *)
(***************************************************************************)
EXTENDS Naturals, FiniteSets

CONSTANTS
  MaxTracks,  \* bound: tracks at a time; their ids are 1..MaxTracks
  Contents,   \* contents, as their SHA-256 tells them apart
  NoContent,
  Files,      \* pairs of storage_id and storage_name; one that nobody knows any
              \* more stands for a new one
  NoFile,
  Locations,  \* configured storage locations, each on a disk of its own
  LocationOf, \* file -> its location
  Priority,   \* location -> its priority
  Fallible,   \* bound: the files whose removal may fail
  Detachable, \* bound: the locations that may be unmounted
  Limit,      \* location -> files up to max_usage_percent; every file has size 1
  Workers,    \* slots for imports
  Deleters,   \* slots for delete_track() requests
  Players     \* supervisors that play

ASSUME Bounds == MaxTracks \in Nat \ {0}
ASSUME NoValues == NoContent \notin Contents /\ NoFile \notin Files
ASSUME FilesFinite == IsFiniteSet(Files)
ASSUME FallibleAreFiles == Fallible \subseteq Files
ASSUME DetachableAreLocations == Detachable \subseteq Locations
ASSUME WorkersFinite == IsFiniteSet(Workers)
ASSUME LocationsConfigured ==
  LocationOf \in [Files -> Locations] /\ Priority \in [Locations -> Nat] /\ Limit \in [Locations -> Nat]

VARIABLES
  status,    \* id -> "none" without a row, else available or why it is not
  sha,       \* id -> content of the track
  path,      \* id -> file that the row names
  listed,    \* ids that a playlist refers to
  file,      \* file -> nothing, a hidden .part, a published file, or one that is stuck:
             \* its removal failed, and no row names it
  reserved,  \* location -> space promised to copies
  online,    \* locations that are mounted
  task,      \* import -> where it is
  content,   \* import -> what its staged file contains
  new,       \* import -> file it writes or has written
  found,     \* import -> id of the row that its second look found, or 0
  old,       \* import -> file that this row named
  wasOk,     \* imports that found an available row
  at,        \* deletion -> where it is
  victim,    \* deletion -> id of the track
  doomed,    \* deletion -> file that the row named
  play,      \* supervisor -> where it is
  playing,   \* supervisor -> id of its track
  playFile,  \* supervisor -> file that the row named
  scan,      \* whether a scan goes through the rows
  seen,      \* id -> status that the scan read and has not looked into yet
  seenFile,  \* id -> file that the scan read
  verdict    \* id -> what the scan is to write

rowVars == <<status, sha, path>>
diskVars == <<file, reserved>>
importVars == <<task, content, new, found, old, wasOk>>
deleteVars == <<at, victim, doomed>>
playVars == <<play, playing, playFile>>
scanVars == <<scan, seen, seenFile, verdict>>
vars == <<rowVars, listed, diskVars, online, importVars, deleteVars, playVars, scanVars>>

Ids == 1..MaxTracks
Rows == {t \in Ids : status[t] # "none"}
Statuses == {"ok", "missing", "broken"}

\* Imports whose place is still reserved, and those that hold their digest's lock.
Reserving == {"copying", "copied", "published"}
Holding == Reserving \union {"looked", "placed", "rechecked", "replaced", "inserted"}

TypeOK ==
  /\ status \in [Ids -> Statuses \union {"none"}]
  /\ sha \in [Ids -> Contents \union {NoContent}]
  /\ path \in [Ids -> Files \union {NoFile}]
  /\ \A t \in Ids : t \notin Rows <=> sha[t] = NoContent
  /\ \A t \in Ids : t \notin Rows <=> path[t] = NoFile
  /\ listed \subseteq Ids
  /\ file \in [Files -> {"none", "part", "media", "stuck"}]
  /\ reserved \in [Locations -> Nat]
  /\ online \subseteq Locations
  /\ task \in [Workers -> Holding \union {"idle", "staged"}]
  /\ content \in [Workers -> Contents \union {NoContent}]
  /\ new \in [Workers -> Files \union {NoFile}]
  /\ found \in [Workers -> Ids \union {0}]
  /\ old \in [Workers -> Files \union {NoFile}]
  /\ wasOk \subseteq Workers
  /\ at \in [Deleters -> {"idle", "read", "committed"}]
  /\ victim \in [Deleters -> Ids \union {0}]
  /\ doomed \in [Deleters -> Files \union {NoFile}]
  /\ play \in [Players -> {"idle", "read", "decoding"}]
  /\ playing \in [Players -> Ids \union {0}]
  /\ playFile \in [Players -> Files \union {NoFile}]
  /\ scan \in {"idle", "checking"}
  /\ seen \in [Ids -> Statuses \union {"none"}]
  /\ seenFile \in [Ids -> Files \union {NoFile}]
  /\ verdict \in [Ids -> {"keep", "missing", "ok"}]

-----------------------------------------------------------------------------
\* Path.is_file(): of a published file on a mounted location.
IsFile(f) == f \in Files /\ file[f] \in {"media", "stuck"} /\ LocationOf[f] \in online

\* Path.unlink(missing_ok=True): a file whose location is away stays.
Without(f) ==
  IF f \in Files /\ LocationOf[f] \in online THEN [file EXCEPT ![f] = "none"] ELSE file

\* The removal fails, and every caller leaves it at that.
StuckWith(f) ==
  IF LocationOf[f] \in online /\ file[f] # "none" /\ \A t \in Rows : path[t] # f
  THEN [file EXCEPT ![f] = "stuck"] ELSE file

Removal(f) ==
  \/ file' = Without(f)
  \/ f \in Fallible /\ file' = StuckWith(f)

\* uuid4(): a name that neither the disks nor any row or handler knows.
Fresh(f) ==
  /\ file[f] = "none"
  /\ \A t \in Ids : f \notin {path[t], seenFile[t]}
  /\ \A w \in Workers : f \notin {new[w], old[w]}
  /\ \A d \in Deleters : doomed[d] # f
  /\ \A p \in Players : playFile[p] # f

\* shutil.disk_usage()
Used(l) == Cardinality({f \in Files : file[f] # "none" /\ LocationOf[f] = l})

\* Mutant: the copies under way are not counted.
FitsUnreserved(l) == l \in online /\ Used(l) + 1 <= Limit[l]

\* The bytes of a copy under way may count twice, as used and as reserved.
Fits(l) == l \in online /\ Used(l) + reserved[l] + 1 <= Limit[l]

\* _select_location(): the highest priority; which of equal ones is left open.
Selectable(l) ==
  /\ Fits(l)
  /\ \A m \in Locations : Fits(m) => Priority[m] <= Priority[l]

\* select(Track).where(Track.sha256 == digest)
RowsOf(c) == {t \in Rows : sha[t] = c}

\* The content is in the library and its file is there.
Duplicate(c) == \E t \in RowsOf(c) : status[t] = "ok" /\ IsFile(path[t])

-----------------------------------------------------------------------------
Init ==
  /\ status = [t \in Ids |-> "none"]
  /\ sha = [t \in Ids |-> NoContent]
  /\ path = [t \in Ids |-> NoFile]
  /\ listed = {}
  /\ file = [f \in Files |-> "none"]
  /\ reserved = [l \in Locations |-> 0]
  /\ online = Locations
  /\ task = [w \in Workers |-> "idle"]
  /\ content = [w \in Workers |-> NoContent]
  /\ new = [w \in Workers |-> NoFile]
  /\ found = [w \in Workers |-> 0]
  /\ old = [w \in Workers |-> NoFile]
  /\ wasOk = {}
  /\ at = [d \in Deleters |-> "idle"]
  /\ victim = [d \in Deleters |-> 0]
  /\ doomed = [d \in Deleters |-> NoFile]
  /\ play = [p \in Players |-> "idle"]
  /\ playing = [p \in Players |-> 0]
  /\ playFile = [p \in Players |-> NoFile]
  /\ scan = "idle"
  /\ seen = [t \in Ids |-> "none"]
  /\ seenFile = [t \in Ids |-> NoFile]
  /\ verdict = [t \in Ids |-> "keep"]

\* ----- import_staged() -----

\* The staged file is probed, normalized if need be, and its digest computed.
ImportStarts(w, c) ==
  /\ task[w] = "idle"
  /\ task' = [task EXCEPT ![w] = "staged"]
  /\ content' = [content EXCEPT ![w] = c]
  /\ UNCHANGED <<rowVars, listed, diskVars, online, new, found, old, wasOk,
                 deleteVars, playVars, scanVars>>

\* The end of an import, and of what it knows.
Finished(w) ==
  /\ task' = [task EXCEPT ![w] = "idle"]
  /\ content' = [content EXCEPT ![w] = NoContent]
  /\ new' = [new EXCEPT ![w] = NoFile]
  /\ found' = [found EXCEPT ![w] = 0]
  /\ old' = [old EXCEPT ![w] = NoFile]
  /\ wasOk' = wasOk \ {w}

\* Mutant: the lock is taken for the copy only.
LockFreeForCopy(w) ==
  \A v \in Workers : content[v] = content[w] => task[v] \notin Reserving

\* _digest_locks.  That other digests may share a lock only makes imports wait.
LockFree(w) == \A v \in Workers : content[v] = content[w] => task[v] \notin Holding

\* The lock, and the first look at the rows.
ImportLooks(w) ==
  /\ task[w] = "staged" /\ LockFree(w)
  /\ IF Duplicate(content[w])
     THEN Finished(w)
     ELSE /\ task' = [task EXCEPT ![w] = "looked"]
          /\ UNCHANGED <<content, new, found, old, wasOk>>
  /\ UNCHANGED <<rowVars, listed, diskVars, online, deleteVars, playVars, scanVars>>

\* place(): a location and a name are chosen, and the space is promised.
PlacePromises(w, f) ==
  LET l == LocationOf[f]
  IN  /\ task[w] = "looked" /\ Fresh(f) /\ Selectable(l)
      /\ reserved' = [reserved EXCEPT ![l] = @ + 1]
      /\ task' = [task EXCEPT ![w] = "copying"]
      /\ new' = [new EXCEPT ![w] = f]
      /\ UNCHANGED <<rowVars, listed, file, online, content, found, old, wasOk,
                     deleteVars, playVars, scanVars>>

NoPlace(w) ==
  /\ task[w] = "looked" /\ \A l \in Locations : ~Fits(l)
  /\ Finished(w)
  /\ UNCHANGED <<rowVars, listed, diskVars, online, deleteVars, playVars, scanVars>>

\* The copy in .incoming is written and synchronized.
PlaceCopied(w) ==
  /\ task[w] = "copying" /\ LocationOf[new[w]] \in online
  /\ file' = [file EXCEPT ![new[w]] = "part"]
  /\ task' = [task EXCEPT ![w] = "copied"]
  /\ UNCHANGED <<rowVars, listed, reserved, online, content, new, found, old, wasOk,
                 deleteVars, playVars, scanVars>>

\* Its digest is right, and os.replace() publishes it.
PlacePublishes(w) ==
  /\ task[w] = "copied" /\ LocationOf[new[w]] \in online
  /\ file' = [file EXCEPT ![new[w]] = "media"]
  /\ task' = [task EXCEPT ![w] = "published"]
  /\ UNCHANGED <<rowVars, listed, reserved, online, content, new, found, old, wasOk,
                 deleteVars, playVars, scanVars>>

\* max(0, reserved - size)
Released(w) ==
  LET l == LocationOf[new[w]]
  IN  reserved' = [reserved EXCEPT ![l] = IF @ > 0 THEN @ - 1 ELSE 0]

PlaceReturns(w) ==
  /\ task[w] = "published"
  /\ Released(w)
  /\ task' = [task EXCEPT ![w] = "placed"]
  /\ UNCHANGED <<rowVars, listed, file, online, content, new, found, old, wasOk,
                 deleteVars, playVars, scanVars>>

\* The copy fails or has another digest: the .part goes.  If its removal fails the
\* promise is not taken back either.
CopyFails(w) ==
  /\ task[w] \in {"copying", "copied"}
  /\ \/ file' = Without(new[w]) /\ Released(w)
     \/ /\ new[w] \in Fallible /\ LocationOf[new[w]] \in online
        /\ file' = [file EXCEPT ![new[w]] = "part"]
        /\ UNCHANGED reserved
  /\ Finished(w)
  /\ UNCHANGED <<rowVars, listed, online, deleteVars, playVars, scanVars>>

\* The directory cannot be synchronized: place() raises, and its caller does not
\* know the file that is published already.
PublishFails(w) ==
  /\ task[w] = "published"
  /\ Released(w)
  /\ Finished(w)
  /\ UNCHANGED <<rowVars, listed, file, online, deleteVars, playVars, scanVars>>

\* Mutant: the copy stays when the second look finds the content.
RecheckKeepsCopy(w) ==
  /\ task[w] = "placed" /\ Duplicate(content[w])
  /\ file' = file
  /\ Finished(w)
  /\ UNCHANGED <<rowVars, listed, reserved, online, deleteVars, playVars, scanVars>>

\* The second look finds the content after all.
RecheckRejects(w) ==
  /\ task[w] = "placed" /\ Duplicate(content[w])
  /\ Removal(new[w])
  /\ Finished(w)
  /\ UNCHANGED <<rowVars, listed, reserved, online, deleteVars, playVars, scanVars>>

\* It finds no row, or one to be repaired.
Recheck(w) ==
  /\ task[w] = "placed" /\ ~Duplicate(content[w])
  /\ task' = [task EXCEPT ![w] = "rechecked"]
  /\ \/ /\ RowsOf(content[w]) = {}
        /\ UNCHANGED <<found, old, wasOk>>
     \/ \E t \in RowsOf(content[w]) :
          /\ found' = [found EXCEPT ![w] = t]
          /\ old' = [old EXCEPT ![w] = path[t]]
          /\ wasOk' = IF status[t] = "ok" THEN wasOk \union {w} ELSE wasOk
  /\ UNCHANGED <<rowVars, listed, diskVars, online, content, new,
                 deleteVars, playVars, scanVars>>

\* The repair is committed.  What had the right value is not written.
RepairCommits(w) ==
  LET t == found[w]
  IN  /\ task[w] = "rechecked" /\ t \in Rows
      /\ path' = [path EXCEPT ![t] = new[w]]
      /\ status' = IF w \in wasOk THEN status ELSE [status EXCEPT ![t] = "ok"]
      /\ task' = [task EXCEPT ![w] = "replaced"]
      /\ new' = [new EXCEPT ![w] = NoFile]
      /\ wasOk' = wasOk \ {w}
      /\ UNCHANGED <<sha, listed, diskVars, online, content, found, old,
                     deleteVars, playVars, scanVars>>

\* Mutant: the row's file, which is the new one by now.
OldFileAsNamed(w) == path[found[w]]

\* old_location, read before the row is changed.
OldFile(w) == old[w]

\* The old file is deleted.
RepairReturns(w) ==
  /\ task[w] = "replaced"
  /\ Removal(OldFile(w))
  /\ Finished(w)
  /\ UNCHANGED <<rowVars, listed, reserved, online, deleteVars, playVars, scanVars>>

\* A new row, with the id after the largest in use.
InsertCommits(w, t) ==
  /\ task[w] = "rechecked" /\ found[w] = 0
  /\ RowsOf(content[w]) = {}
  /\ \A u \in Rows : u < t
  /\ t > 1 => t - 1 \in Rows
  /\ status' = [status EXCEPT ![t] = "ok"]
  /\ sha' = [sha EXCEPT ![t] = content[w]]
  /\ path' = [path EXCEPT ![t] = new[w]]
  /\ task' = [task EXCEPT ![w] = "inserted"]
  /\ UNCHANGED <<listed, diskVars, online, content, new, found, old, wasOk,
                 deleteVars, playVars, scanVars>>

InsertReturns(w) ==
  /\ task[w] = "inserted"
  /\ Finished(w)
  /\ UNCHANGED <<rowVars, listed, diskVars, online, deleteVars, playVars, scanVars>>

\* Probing or a look at the rows fails, a commit does (the row to be repaired or the
\* library is gone, the database is busy), or the refresh() after an insert (the pool
\* has no connection in time): the handler removes the file, if there is one.
ImportFails(w) ==
  /\ task[w] \in {"staged", "looked", "placed", "rechecked", "inserted"}
  /\ Removal(new[w])
  /\ Finished(w)
  /\ UNCHANGED <<rowVars, listed, reserved, online, deleteVars, playVars, scanVars>>

\* ----- delete_track() and the playlists -----

\* The track is in no playlist.
DeleteReads(d, t) ==
  /\ at[d] = "idle" /\ t \in Rows \ listed
  /\ at' = [at EXCEPT ![d] = "read"]
  /\ victim' = [victim EXCEPT ![d] = t]
  /\ doomed' = [doomed EXCEPT ![d] = path[t]]
  /\ UNCHANGED <<rowVars, listed, diskVars, online, importVars, playVars, scanVars>>

DeleteEnds(d) ==
  /\ at' = [at EXCEPT ![d] = "idle"]
  /\ victim' = [victim EXCEPT ![d] = 0]
  /\ doomed' = [doomed EXCEPT ![d] = NoFile]

\* The DELETE goes by the id, and only warns when there is no row.
DeleteCommits(d) ==
  LET t == victim[d]
  IN  /\ at[d] = "read" /\ t \notin listed
      /\ status' = [status EXCEPT ![t] = "none"]
      /\ sha' = [sha EXCEPT ![t] = NoContent]
      /\ path' = [path EXCEPT ![t] = NoFile]
      /\ at' = [at EXCEPT ![d] = "committed"]
      /\ UNCHANGED <<listed, diskVars, online, importVars, victim, doomed,
                     playVars, scanVars>>

\* A playlist refers to the track by now, or the commit fails otherwise.
DeleteFails(d) ==
  /\ at[d] = "read"
  /\ DeleteEnds(d)
  /\ UNCHANGED <<rowVars, listed, diskVars, online, importVars, playVars, scanVars>>

\* unlink_after_commit(), which logs a failure
DeleteReturns(d) ==
  /\ at[d] = "committed"
  /\ Removal(doomed[d])
  /\ DeleteEnds(d)
  /\ UNCHANGED <<rowVars, listed, reserved, online, importVars, playVars, scanVars>>

\* A track enters its first playlist or leaves its last one.
PlaylistEdited(t) ==
  /\ t \in Rows
  /\ listed' = IF t \in listed THEN listed \ {t} ELSE listed \union {t}
  /\ UNCHANGED <<rowVars, diskVars, online, importVars, deleteVars, playVars, scanVars>>

\* ----- a supervisor: _play(), _begin_track() -----

PlayReads(p, t) ==
  /\ play[p] = "idle" /\ t \in listed /\ status[t] = "ok"
  /\ play' = [play EXCEPT ![p] = "read"]
  /\ playing' = [playing EXCEPT ![p] = t]
  /\ playFile' = [playFile EXCEPT ![p] = path[t]]
  /\ UNCHANGED <<rowVars, listed, diskVars, online, importVars, deleteVars, scanVars>>

PlayEnds(p) ==
  /\ play' = [play EXCEPT ![p] = "idle"]
  /\ playing' = [playing EXCEPT ![p] = 0]
  /\ playFile' = [playFile EXCEPT ![p] = NoFile]

\* Mutant: the row is written without a look whether it is there.
MarkedUnseen(t, s) == [status EXCEPT ![t] = s]

\* The row, if there is one under this id.
Marked(t, s) == IF t \in Rows THEN [status EXCEPT ![t] = s] ELSE status

\* _mark_track_missing()
PlayMisses(p) ==
  /\ play[p] = "read" /\ ~IsFile(playFile[p])
  /\ status' = Marked(playing[p], "missing")
  /\ PlayEnds(p)
  /\ UNCHANGED <<sha, path, listed, diskVars, online, importVars, deleteVars, scanVars>>

\* The decoder is started, and its first chunk awaited.
PlayOpens(p) ==
  /\ play[p] = "read" /\ IsFile(playFile[p])
  /\ play' = [play EXCEPT ![p] = "decoding"]
  /\ playFile' = [playFile EXCEPT ![p] = NoFile]
  /\ UNCHANGED <<rowVars, listed, diskVars, online, importVars, deleteVars, playing, scanVars>>

\* The track plays, so it is available, if the playlist still has it.
PlayStarts(p) ==
  /\ play[p] = "decoding"
  /\ status' = IF playing[p] \in listed THEN Marked(playing[p], "ok") ELSE status
  /\ PlayEnds(p)
  /\ UNCHANGED <<sha, path, listed, diskVars, online, importVars, deleteVars, scanVars>>

\* _record_decoder_failure(), the third one or not; or a stop before the first chunk.
PlayFails(p) ==
  /\ play[p] = "decoding"
  /\ status' \in {status, Marked(playing[p], "broken")}
  /\ PlayEnds(p)
  /\ UNCHANGED <<sha, path, listed, diskVars, online, importVars, deleteVars, scanVars>>

\* ----- scan(), up to its commit; the imports that follow are imports -----

ScanReads ==
  /\ scan = "idle"
  /\ scan' = "checking"
  /\ seen' = status
  /\ seenFile' = path
  /\ UNCHANGED <<rowVars, listed, diskVars, online, importVars, deleteVars, playVars, verdict>>

\* One row: its file is missing, or there again and probed successfully or not.
ScanChecks(t) ==
  /\ scan = "checking" /\ seen[t] # "none"
  /\ \/ /\ seen[t] = "ok" /\ ~IsFile(seenFile[t])
        /\ verdict' = [verdict EXCEPT ![t] = "missing"]
     \/ /\ seen[t] = "missing" /\ IsFile(seenFile[t])
        /\ verdict' \in {verdict, [verdict EXCEPT ![t] = "ok"]}
     \/ /\ (seen[t] = "ok") = IsFile(seenFile[t]) \/ seen[t] = "broken"
        /\ UNCHANGED verdict
  /\ seen' = [seen EXCEPT ![t] = "none"]
  /\ seenFile' = [seenFile EXCEPT ![t] = NoFile]
  /\ UNCHANGED <<rowVars, listed, diskVars, online, importVars, deleteVars, playVars, scan>>

ScanEnds ==
  /\ scan' = "idle"
  /\ seen' = [t \in Ids |-> "none"]
  /\ seenFile' = [t \in Ids |-> NoFile]
  /\ verdict' = [t \in Ids |-> "keep"]

\* Every changed row is written, by its id.
ScanCommits ==
  /\ scan = "checking" /\ \A t \in Ids : seen[t] = "none"
  /\ \A t \in Ids : verdict[t] # "keep" => t \in Rows
  /\ status' = [t \in Ids |-> IF verdict[t] = "keep" THEN status[t] ELSE verdict[t]]
  /\ ScanEnds
  /\ UNCHANGED <<sha, path, listed, diskVars, online, importVars, deleteVars, playVars>>

\* A row to be written is gone, or the commit fails otherwise.
ScanFails ==
  /\ scan = "checking" /\ \A t \in Ids : seen[t] = "none"
  /\ ScanEnds
  /\ UNCHANGED <<rowVars, listed, diskVars, online, importVars, deleteVars, playVars>>

\* ----- the machine -----

\* A location is mounted or unmounted.
MountChanges(l) ==
  /\ l \in Detachable
  /\ online' = IF l \in online THEN online \ {l} ELSE online \union {l}
  /\ UNCHANGED <<rowVars, listed, diskVars, importVars, deleteVars, playVars, scanVars>>

\* The service stops at any point and starts again: initialize() removes the .part
\* files that it can reach, up to the first that it cannot remove.
Restart ==
  /\ \E left \in SUBSET Fallible :
       file' = [f \in Files |->
                  IF file[f] = "part" /\ LocationOf[f] \in online /\ f \notin left
                  THEN "none" ELSE file[f]]
  /\ reserved' = [l \in Locations |-> 0]
  /\ task' = [w \in Workers |-> "idle"]
  /\ content' = [w \in Workers |-> NoContent]
  /\ new' = [w \in Workers |-> NoFile]
  /\ found' = [w \in Workers |-> 0]
  /\ old' = [w \in Workers |-> NoFile]
  /\ wasOk' = {}
  /\ at' = [d \in Deleters |-> "idle"]
  /\ victim' = [d \in Deleters |-> 0]
  /\ doomed' = [d \in Deleters |-> NoFile]
  /\ play' = [p \in Players |-> "idle"]
  /\ playing' = [p \in Players |-> 0]
  /\ playFile' = [p \in Players |-> NoFile]
  /\ ScanEnds
  /\ UNCHANGED <<rowVars, listed, online>>

-----------------------------------------------------------------------------
ImportStep(w) ==
  \/ \E c \in Contents : ImportStarts(w, c)
  \/ ImportLooks(w) \/ NoPlace(w) \/ \E f \in Files : PlacePromises(w, f)
  \/ PlaceCopied(w) \/ PlacePublishes(w) \/ PlaceReturns(w)
  \/ CopyFails(w) \/ PublishFails(w)
  \/ RecheckRejects(w) \/ Recheck(w)
  \/ RepairCommits(w) \/ RepairReturns(w)
  \/ \E t \in Ids : InsertCommits(w, t)
  \/ InsertReturns(w) \/ ImportFails(w)

DeleteStep(d) ==
  \/ \E t \in Ids : DeleteReads(d, t)
  \/ DeleteCommits(d) \/ DeleteFails(d) \/ DeleteReturns(d)

PlayStep(p) ==
  \/ \E t \in Ids : PlayReads(p, t)
  \/ PlayMisses(p) \/ PlayOpens(p) \/ PlayStarts(p) \/ PlayFails(p)

ScanStep == ScanReads \/ (\E t \in Ids : ScanChecks(t)) \/ ScanCommits \/ ScanFails

Next ==
  \/ \E w \in Workers : ImportStep(w)
  \/ \E d \in Deleters : DeleteStep(d)
  \/ \E p \in Players : PlayStep(p)
  \/ \E t \in Ids : PlaylistEdited(t)
  \/ \E l \in Locations : MountChanges(l)
  \/ ScanStep
  \/ Restart

Spec == Init /\ [][Next]_vars

-----------------------------------------------------------------------------
\* No location is filled beyond its limit by copies that were placed at the same
\* time: each counts what the others have promised and not yet written.
SpaceKept == \A l \in Locations : Used(l) <= Limit[l]

\* The unique index on the digest is a last resort only: no row with its content
\* appears between the second look of an import and its insert.
UniqueIndexNeverHit ==
  \A w \in Workers : task[w] = "rechecked" /\ found[w] = 0 => RowsOf(content[w]) = {}

\* A file that a row names is removed by the handler only whose refresh() after its
\* insert failed: deletions and repairs remove what no row names any more.
NamedFilesStay ==
  [][\A t \in Rows :
       file[path[t]] = "media" /\ path'[t] = path[t] =>
         \/ file'[path[t]] = "media"
         \/ \E w \in Workers :
              task[w] = "inserted" /\ task'[w] = "idle" /\ new[w] = path[t]]_vars

\* Somebody is responsible for a file: a row, the import that writes it, or the
\* handler that is about to remove it.
Owned(f) ==
  \/ \E t \in Rows : path[t] = f
  \/ \E w \in Workers : task[w] \in Holding \ {"inserted"} /\ f = new[w]
  \/ \E w \in Workers : task[w] = "replaced" /\ f = old[w]
  \/ \E d \in Deleters : at[d] = "committed" /\ f = doomed[d]

\* A write by id to a row that names another file than the handler has read.
StaleWrite(f) ==
  \/ \E d \in Deleters : DeleteCommits(d) /\ path[victim[d]] = f /\ doomed[d] # f
  \/ \E w \in Workers : RepairCommits(w) /\ path[found[w]] = f /\ old[w] # f

\* Files are left behind by a restart, by a failure after the publication, on a
\* location that is away, by a handler that did not see a repair, and where the removal
\* itself fails (admin.py:57, media.py:497, storage.py:152): by nothing else, whatever
\* fails or interleaves.
LeftoverCauses ==
  [][\A f \in Files :
       file[f] # "none" /\ file'[f] # "none" /\ ~Owned(f)' /\ Owned(f) =>
         \/ Restart
         \/ \E w \in Workers : PublishFails(w) /\ new[w] = f
         \/ LocationOf[f] \notin online
         \/ StaleWrite(f)
         \/ file'[f] = "stuck"
         \/ \E w \in Workers : CopyFails(w) /\ new[w] = f /\ UNCHANGED reserved]_vars

\* What the library holds, as its users see it: rows and their files whatever their
\* status, complete files that it still looks after, and files of inserts that have not
\* been answered.
Pairs == {<<sha[t], path[t]>> : t \in Rows}
Complete == {f \in Files : file[f] = "media"}
Unanswered ==
  {new[w] : w \in {v \in Workers : task[v] = "inserted"}} \intersect {path[t] : t \in Rows}

\* The library is a store that holds each content once, keeps the file of every name
\* and loses nothing by a restart.
Store == INSTANCE ContentStore WITH
  holds <- Pairs, stored <- Complete, settling <- Unanswered

ImplementsStore == Store!Spec
=============================================================================
