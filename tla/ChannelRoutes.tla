---------------------------- MODULE ChannelRoutes ----------------------------
(***************************************************************************)
(* Which channel a slug leads to: the rows of the channels, the index that *)
(* answers HLS requests without the database, and the events that tell a   *)
(* browser about its channel (create_channel(), update_channel() and       *)
(* delete_channel() in routers/admin.py; set_channel_route(),              *)
(* publish_channel_change(), remove() and the first half of _reconcile()   *)
(* in services/playback.py; services/events.py).                           *)
(*                                                                         *)
(* Requests run in threads of their own.  Each commits, reads its row back *)
(* and then writes the index, and nothing orders the writes of two         *)
(* requests.  A reconcile runs on the event loop and writes the index from *)
(* the row that it has read.  Only the index itself is under a lock.       *)
(***************************************************************************)
EXTENDS Naturals, Sequences

CONSTANTS
  MaxId,     \* bound: ids of channels are 1..MaxId
  Slugs,
  NoSlug,
  Reqs,      \* threads, each with one request of an administrator
  InitRows,  \* rows that the manager may find when it starts
  Changes,   \* what an update may ask for
  Watched,   \* the channel whose events a browser follows
  QueueSize  \* events that the browser's queue holds; 10 in the code

Ids == 1..MaxId
NoId == 0
Row == [slug : Slugs, enabled : BOOLEAN]
NoRow == [slug |-> NoSlug, enabled |-> FALSE]
Rows == Row \union {NoRow}

\* A new slug, or NoSlug to leave it; and the values of "enabled" that are asked for, if any.
Change == [slug : Slugs \union {NoSlug}, enabled : {{}, {TRUE}, {FALSE}}]

Nothing == [slug |-> NoSlug, enabled |-> {}]

\* What a queue of events holds: the row in a "channel" event, or anything else.
Event == [kind : {"channel", "other"}, row : Rows]

ASSUME IdBound == MaxId \in Nat \ {0} /\ Watched \in Ids
ASSUME NoSlugApart == NoSlug \notin Slugs
ASSUME QueueHolds == QueueSize \in Nat \ {0}
ASSUME ChangesTyped == Changes \subseteq Change
ASSUME InitRowsTyped == InitRows \subseteq [Ids -> Rows]
ASSUME InitSlugsUnique ==
  \A f \in InitRows : \A c, d \in Ids : f[c] # NoRow /\ f[c].slug = f[d].slug => c = d

VARIABLES
  rows,      \* id -> the row of the channel
  bySlug,    \* slug -> id that it leads to           (_enabled_channels_by_slug)
  slugOf,    \* id -> slug under which it was entered (_channel_slugs)
  pc,        \* request -> where it is
  target,    \* request -> id of its channel
  change,    \* request -> what it asks for
  view,      \* request -> the row as it read it last
  pending,   \* id -> reconciles that wait for the loop
  loopId,    \* id that a reconcile has read and not entered into the index yet
  loopRow,   \* the row that it read
  inbox,     \* events that the browser has not received yet
  shown,     \* the row that the browser shows
  recycled,  \* history: ids that were given out again
  heldBy,    \* history: slug -> ids of the rows that ever had it
  overtaken, \* history: ids taken out of the index while a reconcile was about to enter them
  missed,    \* history: ids that a failure left to the next reconcile
  unread,    \* history: no request has read the watched row since it was written
  crossed,   \* history: the watched row changed between the reading and the event of a request
  dropped    \* history: the queue was full and lost a "channel" event

rowVars == <<rows, recycled, heldBy, crossed, unread>>
indexVars == <<bySlug, slugOf>>
requestVars == <<pc, target, change, view>>
loopVars == <<pending, loopId, loopRow>>
browserVars == <<inbox, shown, dropped>>
failureVars == <<overtaken, missed>>
vars == <<rowVars, indexVars, requestVars, loopVars, browserVars, failureVars>>

Exists(c) == rows[c] # NoRow
Busy(c, where) == \E r \in Reqs : target[r] = c /\ pc[r] \in where

TypeOK ==
  /\ rows \in [Ids -> Rows] /\ heldBy \in [Slugs -> SUBSET Ids]
  /\ bySlug \in [Slugs -> Ids \union {NoId}] /\ slugOf \in [Ids -> Slugs \union {NoSlug}]
  /\ pc \in [Reqs -> {"idle", "update", "delete", "refresh", "publish", "notify", "remove", "done"}]
  /\ target \in [Reqs -> Ids \union {NoId}] /\ change \in [Reqs -> Change]
  /\ view \in [Reqs -> Rows]
  /\ pending \in [Ids -> Nat] /\ loopId \in Ids \union {NoId} /\ loopRow \in Rows
  /\ inbox \in Seq(Event) /\ Len(inbox) <= QueueSize /\ shown \in Rows
  /\ recycled \subseteq Ids /\ overtaken \subseteq Ids /\ missed \subseteq Ids
  /\ crossed \in BOOLEAN /\ dropped \in BOOLEAN /\ unread \in BOOLEAN

(***************************************************************************)
(* The index.                                                              *)
(***************************************************************************)
\* A mutant of Freed: the slug that a channel leaves stays its own.
FreedNever(c) == bySlug

\* The slug under which c was entered is freed if it still leads to c.
Freed(c) == [s \in Slugs |-> IF slugOf[c] = s /\ bySlug[s] = c THEN NoId ELSE bySlug[s]]

SetRoute(c, row) ==
  /\ slugOf' = [slugOf EXCEPT ![c] = IF row.enabled THEN row.slug ELSE NoSlug]
  /\ bySlug' = IF row.enabled THEN [Freed(c) EXCEPT ![row.slug] = c] ELSE Freed(c)

\* start() enters the channels that are enabled.
Init ==
  /\ rows \in InitRows
  /\ slugOf = [c \in Ids |-> IF rows[c].enabled THEN rows[c].slug ELSE NoSlug]
  /\ bySlug = [s \in Slugs |->
       IF \E c \in Ids : slugOf[c] = s THEN CHOOSE c \in Ids : slugOf[c] = s ELSE NoId]
  /\ pc = [r \in Reqs |-> "idle"] /\ target = [r \in Reqs |-> NoId]
  /\ change = [r \in Reqs |-> Nothing]
  /\ view = [r \in Reqs |-> NoRow]
  /\ pending = [c \in Ids |-> 0] /\ loopId = NoId /\ loopRow = NoRow
  /\ inbox = <<>> /\ shown = rows[Watched]
  /\ recycled = {} /\ overtaken = {} /\ missed = {}
  /\ crossed = FALSE /\ dropped = FALSE /\ unread = FALSE
  /\ heldBy = [s \in Slugs |-> {c \in Ids : rows[c].slug = s}]

(***************************************************************************)
(* The rows.                                                               *)
(***************************************************************************)
\* SQLite gives a new row the id after the largest one that there is.
IsNextId(c) == \A d \in Ids : (d >= c => ~Exists(d)) /\ (d + 1 = c => Exists(d))

SlugFree(s, c) == \A d \in Ids \ {c} : rows[d].slug # s

\* A request that has read the row back and whose event is still to come crosses this one.
WriteRow(c, row) ==
  /\ rows' = [rows EXCEPT ![c] = row]
  /\ unread' = (unread \/ c = Watched)
  /\ heldBy' = [s \in Slugs |-> IF row.slug = s THEN heldBy[s] \union {c} ELSE heldBy[s]]
  /\ crossed' = (crossed \/ (c = Watched /\ Busy(c, {"publish", "notify"})))

Move(r, where) == pc' = [pc EXCEPT ![r] = where]

\* The end of a request, and of what it knew.
End(r) ==
  /\ Move(r, "done")
  /\ target' = [target EXCEPT ![r] = NoId] /\ view' = [view EXCEPT ![r] = NoRow]
  /\ change' = [change EXCEPT ![r] = Nothing]

Create(r, c, row) ==
  /\ pc[r] = "idle" /\ IsNextId(c) /\ SlugFree(row.slug, c)
  /\ WriteRow(c, row)
  /\ recycled' = IF \E s \in Slugs : c \in heldBy[s] THEN recycled \union {c} ELSE recycled
  /\ Move(r, "refresh") /\ target' = [target EXCEPT ![r] = c]
  /\ UNCHANGED <<indexVars, change, view, loopVars, browserVars, failureVars>>

\* The handlers of an existing channel load it first; without it they answer 404.
Load(r, c, ask, where) ==
  /\ pc[r] = "idle" /\ Exists(c)
  /\ Move(r, where) /\ target' = [target EXCEPT ![r] = c]
  /\ change' = [change EXCEPT ![r] = ask] /\ view' = [view EXCEPT ![r] = rows[c]]
  /\ UNCHANGED <<rowVars, indexVars, loopVars, browserVars, failureVars>>

\* Only a column whose value differs from the one that was loaded is in the UPDATE.
Updated(r) ==
  LET now == rows[target[r]]
      asked == change[r]
  IN [slug |-> IF asked.slug \in {NoSlug, view[r].slug} THEN now.slug ELSE asked.slug,
      enabled |-> IF asked.enabled \subseteq {view[r].enabled} THEN now.enabled
                                                               ELSE ~view[r].enabled]

\* The row may be gone, which fails the UPDATE, and the slug taken, which answers 409.
CommitUpdate(r) ==
  LET c == target[r]
  IN /\ pc[r] = "update"
     /\ IF Exists(c) /\ SlugFree(Updated(r).slug, c)
        THEN /\ WriteRow(c, Updated(r)) /\ Move(r, "refresh")
             /\ change' = [change EXCEPT ![r] = Nothing] /\ view' = [view EXCEPT ![r] = NoRow]
             /\ UNCHANGED <<recycled, target>>
        ELSE End(r) /\ UNCHANGED rowVars
     /\ UNCHANGED <<indexVars, loopVars, browserVars, failureVars>>

Refresh(r) ==
  /\ pc[r] = "refresh" /\ Exists(target[r])
  /\ Move(r, "publish") /\ view' = [view EXCEPT ![r] = rows[target[r]]]
  /\ unread' = (unread /\ target[r] # Watched)
  /\ UNCHANGED <<rows, recycled, heldBy, crossed, target, change, indexVars, loopVars,
                 browserVars, failureVars>>

\* db.refresh() raises: the row has gone, or there is no connection in time.  The change
\* stays committed, and nothing is published, sent or reconciled.
RefreshFails(r) ==
  /\ pc[r] = "refresh"
  /\ missed' = IF Exists(target[r]) THEN missed \union {target[r]} ELSE missed
  /\ End(r)
  /\ UNCHANGED <<rowVars, indexVars, loopVars, browserVars, overtaken>>

Publish(r) ==
  /\ pc[r] = "publish"
  /\ SetRoute(target[r], view[r])
  /\ Move(r, "notify")
  /\ UNCHANGED <<rowVars, target, change, view, loopVars, browserVars, failureVars>>

\* Mutants of Deliver: the queue has no limit, or a full queue loses the new event.
DeliverUnbounded(event) ==
  /\ inbox' = Append(inbox, event)
  /\ UNCHANGED <<shown, dropped>>

DeliverOldest(event) ==
  /\ inbox' = IF Len(inbox) < QueueSize THEN Append(inbox, event) ELSE inbox
  /\ UNCHANGED <<shown, dropped>>

\* A full queue loses its oldest event.
Deliver(event) ==
  /\ inbox' = Append(IF Len(inbox) < QueueSize THEN inbox ELSE Tail(inbox), event)
  /\ dropped' = (dropped \/ (Len(inbox) = QueueSize /\ Head(inbox).kind = "channel"))
  /\ UNCHANGED shown

\* A mutant of Notify: the event is sent and no reconcile follows.
NotifyOnly(r) ==
  /\ pc[r] = "notify"
  /\ IF target[r] = Watched THEN Deliver([kind |-> "channel", row |-> view[r]])
                            ELSE UNCHANGED browserVars
  /\ End(r)
  /\ UNCHANGED <<rowVars, indexVars, loopVars, failureVars>>

\* Two calls hand the event and the reconcile to the loop; neither looks at the other.
Notify(r) ==
  /\ pc[r] = "notify"
  /\ IF target[r] = Watched THEN Deliver([kind |-> "channel", row |-> view[r]])
                            ELSE UNCHANGED browserVars
  /\ pending' = [pending EXCEPT ![target[r]] = @ + 1]
  /\ End(r)
  /\ UNCHANGED <<rowVars, indexVars, loopId, loopRow, failureVars>>

\* A DELETE that finds no row only warns.
CommitDelete(r) ==
  /\ pc[r] = "delete"
  /\ WriteRow(target[r], NoRow)
  /\ Move(r, "remove") /\ view' = [view EXCEPT ![r] = NoRow]
  /\ missed' = missed \ {target[r]}
  /\ UNCHANGED <<recycled, indexVars, target, change, loopVars, browserVars, overtaken>>

\* A mutant of Remove: the index is left to the reconcile of somebody else.
RemoveNot(r) ==
  /\ pc[r] = "remove"
  /\ End(r)
  /\ UNCHANGED <<rowVars, indexVars, loopVars, browserVars, failureVars>>

\* What remove() leaves to the loop does not touch the index.
Remove(r) ==
  LET c == target[r]
  IN /\ pc[r] = "remove"
     /\ SetRoute(c, NoRow)
     /\ overtaken' = IF loopId = c THEN overtaken \union {c} ELSE overtaken
     /\ End(r)
     /\ UNCHANGED <<rowVars, loopVars, browserVars, missed>>

(***************************************************************************)
(* The event loop.                                                         *)
(***************************************************************************)
ReconcileRead(c) ==
  /\ loopId = NoId /\ pending[c] > 0
  /\ pending' = [pending EXCEPT ![c] = @ - 1]
  /\ loopId' = c /\ loopRow' = rows[c]
  /\ missed' = missed \ {c}
  /\ UNCHANGED <<rowVars, indexVars, requestVars, browserVars, overtaken>>

\* The row cannot be read: the reconcile ends before it has touched the index.
ReconcileFails(c) ==
  /\ loopId = NoId /\ pending[c] > 0
  /\ pending' = [pending EXCEPT ![c] = @ - 1]
  /\ missed' = missed \union {c}
  /\ UNCHANGED <<rowVars, indexVars, requestVars, loopId, loopRow, browserVars, overtaken>>

ReconcileRoute ==
  /\ loopId # NoId
  /\ SetRoute(loopId, loopRow)
  /\ loopId' = NoId /\ loopRow' = NoRow
  /\ UNCHANGED <<rowVars, requestVars, pending, browserVars, failureVars>>

\* A command, an edit of the playlist or the end of a supervisor reconciles a channel that
\* exists, and the first request of a listener the channel that its slug leads to.
OtherReconcile(c) ==
  /\ Exists(c) \/ \E s \in Slugs : bySlug[s] = c
  /\ pending[c] = 0
  /\ pending' = [pending EXCEPT ![c] = 1]
  /\ UNCHANGED <<rowVars, indexVars, requestVars, loopId, loopRow, browserVars, failureVars>>

\* Snapshots of the player and edits of the playlist go into the same queue.
OtherEvent ==
  /\ Deliver([kind |-> "other", row |-> NoRow])
  /\ UNCHANGED <<rowVars, indexVars, requestVars, loopVars, failureVars>>

Receive ==
  /\ inbox # <<>>
  /\ inbox' = Tail(inbox)
  /\ shown' = IF Head(inbox).kind = "channel" THEN Head(inbox).row ELSE shown
  /\ UNCHANGED <<rowVars, indexVars, requestVars, loopVars, dropped, failureVars>>

RequestStep(r) ==
  \/ CommitUpdate(r) \/ CommitDelete(r) \/ Refresh(r) \/ RefreshFails(r)
  \/ Publish(r) \/ Notify(r) \/ Remove(r)

Next ==
  \/ \E r \in Reqs : \/ RequestStep(r)
                     \/ \E c \in Ids, row \in Row : Create(r, c, row)
                     \/ \E c \in Ids, ask \in Changes : Load(r, c, ask, "update")
                     \/ \E c \in Ids : Load(r, c, Nothing, "delete")
  \/ (\E c \in Ids : ReconcileRead(c) \/ ReconcileFails(c) \/ OtherReconcile(c))
  \/ ReconcileRoute \/ OtherEvent \/ Receive

Spec == Init /\ [][Next]_vars

(***************************************************************************)
(* Properties.                                                             *)
(***************************************************************************)
\* No request is between its commit and its end, and the loop has nothing left to do.
AtRest ==
  /\ \A r \in Reqs : pc[r] \notin {"refresh", "publish", "notify", "remove"}
  /\ \A c \in Ids : pending[c] = 0
  /\ loopId = NoId

\* Two slugs never lead to the same channel, at no moment: a slug that leads to a channel is
\* the one under which that channel was entered last (playback.py:327).
OneSlugEach == \A s \in Slugs : bySlug[s] # NoId => slugOf[bySlug[s]] = s

\* Once everything has settled, a slug leads only to a channel that is enabled and has it now.
\* There are two exceptions.  A channel was deleted while a reconcile had read its row and not
\* entered it yet (playback.py:353): its slug leads to a channel that does not exist.  Or the
\* request or the reconcile that should enter a change failed between the commit and the index
\* (admin.py:386, playback.py:350): then nothing does, until another reconcile reads the row.
NoGhostRoute ==
  AtRest => \A s \in Slugs :
    LET c == bySlug[s]
    IN c # NoId => \/ rows[c] = [slug |-> s, enabled |-> TRUE]
                   \/ ~Exists(c) /\ c \in overtaken
                   \/ c \in missed

\* Once everything has settled, the slug of an enabled channel leads to it, unless another
\* channel once had this slug, its id belonged to another channel before, or a failure left it
\* to the next reconcile.
EnabledIsReachable ==
  AtRest => \A c \in Ids \ (recycled \union missed) :
    rows[c].enabled /\ heldBy[rows[c].slug] = {c} => bySlug[rows[c].slug] = c

\* A browser that has read all its events shows the row of its channel, unless an event was
\* pushed out of its queue, two requests published in another order than they committed, or no
\* request succeeded in reading the row back since it was written last.
BrowserShowsRow ==
  AtRest /\ inbox = <<>> /\ Exists(Watched) /\ Watched \notin recycled =>
    shown = rows[Watched] \/ crossed \/ dropped \/ unread
=============================================================================
