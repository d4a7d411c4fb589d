------------------------- MODULE ChannelRoutesProofs -------------------------
(***************************************************************************)
(* That a channel never has two slugs in the index, and that the index and *)
(* a browser agree with the rows once everything has settled, but for the  *)
(* crossings that the model names; for any number of channels, slugs and   *)
(* requests.                                                               *)
(***************************************************************************)
EXTENDS ChannelRoutes, TLAPS

\* Rows have a slug, and the absence of a row has none.
LEMMA RowFacts ==
  /\ NoRow \in Rows /\ NoRow.slug = NoSlug /\ NoRow.enabled = FALSE
  /\ Nothing \in Change /\ Nothing.slug = NoSlug /\ Nothing.enabled = {} /\ NoId \notin Ids
  /\ \A row \in Rows : /\ row.enabled \in BOOLEAN
                       /\ row.slug \in Slugs \union {NoSlug}
                       /\ row.enabled => row.slug \in Slugs
                       /\ row # NoRow => row.slug \in Slugs /\ row \in Row
<1>1. NoRow \in Rows /\ NoRow.slug = NoSlug /\ NoRow.enabled = FALSE
  BY DEF NoRow, Rows
<1>2. Nothing \in Change /\ Nothing.slug = NoSlug /\ Nothing.enabled = {}
  BY DEF Nothing, Change
<1>3. NoId \notin Ids
  BY IdBound DEF NoId, Ids
<1>4. ASSUME NEW row \in Rows
      PROVE  /\ row.enabled \in BOOLEAN /\ row.slug \in Slugs \union {NoSlug}
             /\ row.enabled => row.slug \in Slugs
             /\ row # NoRow => row.slug \in Slugs /\ row \in Row
  <2>1. CASE row \in Row
    BY <2>1 DEF Row
  <2>2. CASE row = NoRow
    BY <2>2, <1>1
  <2> QED BY <2>1, <2>2, <1>4 DEF Rows
<1> QED BY <1>1, <1>2, <1>3, <1>4

\* What set_channel_route() does to the types of the index.
LEMMA RouteTyped ==
  ASSUME TypeOK, NEW c \in Ids, NEW row \in Rows, SetRoute(c, row)
  PROVE  /\ bySlug' \in [Slugs -> Ids \union {NoId}]
         /\ slugOf' \in [Ids -> Slugs \union {NoSlug}]
<1>1. Freed(c) \in [Slugs -> Ids \union {NoId}]
  BY DEF TypeOK, Freed
<1>2. row.enabled => row.slug \in Slugs
  BY RowFacts
<1> QED BY <1>1, <1>2 DEF SetRoute, TypeOK

\* What publishing does to the browser's queue: it keeps its limit.
LEMMA DeliverTyped ==
  ASSUME TypeOK, NEW event \in Event, Deliver(event)
  PROVE  inbox' \in Seq(Event) /\ Len(inbox') <= QueueSize /\ dropped' \in BOOLEAN /\ shown' = shown
<1>1. inbox \in Seq(Event) /\ Len(inbox) \in Nat /\ Len(inbox) <= QueueSize /\ QueueSize \in Nat \ {0}
  BY QueueHolds DEF TypeOK
<1>2. CASE Len(inbox) < QueueSize
  BY <1>1, <1>2 DEF Deliver, TypeOK
<1>3. CASE Len(inbox) = QueueSize
  <2>1. Tail(inbox) \in Seq(Event) /\ Len(Tail(inbox)) = Len(inbox) - 1
    BY <1>1, <1>3
  <2>2. inbox' = Append(Tail(inbox), event)
    BY <1>3, <1>1 DEF Deliver
  <2>3. dropped' \in BOOLEAN /\ shown' = shown
    BY DEF Deliver, TypeOK
  <2> QED BY <1>1, <1>3, <2>1, <2>2, <2>3
<1> QED BY <1>1, <1>2, <1>3

LEMMA EndTyped ==
  ASSUME TypeOK, NEW r \in Reqs, End(r)
  PROVE  /\ pc' \in [Reqs -> {"idle", "update", "delete", "refresh", "publish", "notify", "remove", "done"}]
         /\ target' \in [Reqs -> Ids \union {NoId}]
         /\ change' \in [Reqs -> Change] /\ view' \in [Reqs -> Rows]
  BY RowFacts DEF TypeOK, End, Move

LEMMA WriteTyped ==
  ASSUME TypeOK, NEW c \in Ids, NEW row \in Rows, WriteRow(c, row)
  PROVE  /\ rows' \in [Ids -> Rows] /\ heldBy' \in [Slugs -> SUBSET Ids]
         /\ crossed' \in BOOLEAN /\ unread' \in BOOLEAN
         /\ \A s \in Slugs : heldBy[s] \subseteq heldBy'[s]
         /\ row.slug \in Slugs => c \in heldBy'[row.slug]
  BY DEF TypeOK, WriteRow

\* An UPDATE writes a row, and it is not the empty one if there was a row before.
LEMMA UpdatedTyped ==
  ASSUME TypeOK, NEW r \in Reqs, target[r] \in Ids, Exists(target[r])
  PROVE  Updated(r) \in Row
<1>1. rows[target[r]] \in Row
  BY RowFacts DEF TypeOK, Exists
<1>2. view[r] \in Rows /\ view[r].enabled \in BOOLEAN
  BY RowFacts DEF TypeOK
<1>3. change[r].slug \in Slugs \union {NoSlug}
  BY DEF TypeOK, Change
<1> QED BY <1>1, <1>2, <1>3 DEF Updated, Row

LEMMA RowSub == Row \subseteq Rows
  BY DEF Rows

\* What set_channel_route() never does, whatever row it is given: a second slug for a channel.
LEMMA RouteKeepsOneSlug ==
  ASSUME TypeOK, OneSlugEach, NEW c \in Ids, NEW row \in Rows, SetRoute(c, row)
  PROVE  OneSlugEach'
<1> SUFFICES ASSUME NEW s \in Slugs, bySlug'[s] # NoId
             PROVE  slugOf'[bySlug'[s]] = s
  BY DEF OneSlugEach
<1>1. row.enabled => row.slug \in Slugs
  BY RowFacts
<1>2. c # NoId
  BY RowFacts
<1>3. CASE row.enabled /\ row.slug = s
  <2>1. bySlug'[s] = c
    BY <1>3, <1>1 DEF SetRoute, Freed, TypeOK
  <2> QED BY <1>3, <2>1 DEF SetRoute, TypeOK
<1>4. CASE ~(row.enabled /\ row.slug = s)
  <2>1. bySlug'[s] = Freed(c)[s]
    BY <1>4, <1>1 DEF SetRoute, Freed, TypeOK
  <2>2. bySlug'[s] = bySlug[s] /\ ~(slugOf[c] = s /\ bySlug[s] = c)
    BY <2>1 DEF Freed
  <2>3. bySlug[s] \in Ids /\ slugOf[bySlug[s]] = s
    BY <2>2 DEF OneSlugEach, TypeOK
  <2>4. bySlug[s] # c
    BY <2>2, <2>3
  <2> QED BY <2>2, <2>3, <2>4 DEF SetRoute, TypeOK
<1> QED BY <1>3, <1>4

\* A request between its first look at the row and its end has a channel.
Targeted == \A r \in Reqs : pc[r] \notin {"idle", "done"} => target[r] \in Ids

Safe == TypeOK /\ OneSlugEach /\ Targeted

LEMMA InitSafe == Init => Safe
<1> SUFFICES ASSUME Init PROVE Safe
  OBVIOUS
<1>1. rows \in [Ids -> Rows]
  BY InitRowsTyped DEF Init
<1>2. slugOf \in [Ids -> Slugs \union {NoSlug}]
  BY <1>1, RowFacts DEF Init
<1>3. ASSUME NEW s \in Slugs
      PROVE  /\ bySlug[s] \in Ids \union {NoId}
             /\ bySlug[s] # NoId => slugOf[bySlug[s]] = s
  BY DEF Init
<1>4. bySlug \in [Slugs -> Ids \union {NoId}]
  BY <1>3 DEF Init
<1>5. heldBy \in [Slugs -> SUBSET Ids]
  BY DEF Init
<1>6. pc \in [Reqs -> {"idle", "update", "delete", "refresh", "publish", "notify", "remove", "done"}]
  BY DEF Init
<1>7. target \in [Reqs -> Ids \union {NoId}] /\ change \in [Reqs -> Change] /\ view \in [Reqs -> Rows]
  BY RowFacts DEF Init
<1>8. pending \in [Ids -> Nat] /\ loopId \in Ids \union {NoId} /\ loopRow \in Rows
  BY RowFacts DEF Init
<1>9. inbox \in Seq(Event) /\ Len(inbox) <= QueueSize /\ shown \in Rows
  <2>1. inbox = <<>> /\ shown = rows[Watched]
    BY DEF Init
  <2> QED BY <2>1, <1>1, IdBound, QueueHolds
<1>10. /\ recycled \subseteq Ids /\ overtaken \subseteq Ids /\ missed \subseteq Ids
       /\ crossed \in BOOLEAN /\ dropped \in BOOLEAN /\ unread \in BOOLEAN
  BY DEF Init
<1>11. Targeted
  BY DEF Init, Targeted
<1> QED
  BY <1>1, <1>2, <1>3, <1>4, <1>5, <1>6, <1>7, <1>8, <1>9, <1>10, <1>11 DEF Safe, TypeOK, OneSlugEach

\* The steps that leave the index alone.
LEMMA IndexKept ==
  ASSUME Safe, UNCHANGED indexVars
  PROVE  /\ OneSlugEach'
         /\ bySlug' \in [Slugs -> Ids \union {NoId}] /\ slugOf' \in [Ids -> Slugs \union {NoSlug}]
  BY DEF Safe, TypeOK, OneSlugEach, indexVars

\* The types of TypeOK, one group of variables at a time.
RowsTyped ==
  /\ rows \in [Ids -> Rows] /\ heldBy \in [Slugs -> SUBSET Ids]
  /\ recycled \subseteq Ids /\ crossed \in BOOLEAN /\ unread \in BOOLEAN
IndexTyped ==
  bySlug \in [Slugs -> Ids \union {NoId}] /\ slugOf \in [Ids -> Slugs \union {NoSlug}]
RequestsTyped ==
  /\ pc \in [Reqs -> {"idle", "update", "delete", "refresh", "publish", "notify", "remove", "done"}]
  /\ target \in [Reqs -> Ids \union {NoId}] /\ change \in [Reqs -> Change]
  /\ view \in [Reqs -> Rows]
LoopTyped == pending \in [Ids -> Nat] /\ loopId \in Ids \union {NoId} /\ loopRow \in Rows
BrowserTyped ==
  inbox \in Seq(Event) /\ Len(inbox) <= QueueSize /\ shown \in Rows /\ dropped \in BOOLEAN
FailuresTyped == overtaken \subseteq Ids /\ missed \subseteq Ids

LEMMA NextTyped ==
  ASSUME RowsTyped', IndexTyped', RequestsTyped', LoopTyped', BrowserTyped', FailuresTyped'
  PROVE  TypeOK'
  BY DEF TypeOK, RowsTyped, IndexTyped, RequestsTyped, LoopTyped, BrowserTyped, FailuresTyped

LEMMA PartsKept ==
  ASSUME TypeOK
  PROVE  /\ UNCHANGED rowVars => RowsTyped'
         /\ UNCHANGED indexVars => IndexTyped'
         /\ UNCHANGED requestVars => RequestsTyped'
         /\ UNCHANGED loopVars => LoopTyped'
         /\ UNCHANGED browserVars => BrowserTyped'
         /\ UNCHANGED failureVars => FailuresTyped'
  BY DEF TypeOK, RowsTyped, IndexTyped, RequestsTyped, LoopTyped, BrowserTyped, FailuresTyped,
         rowVars, indexVars, requestVars, loopVars, browserVars, failureVars

LEMMA RequestsKept ==
  ASSUME Safe, UNCHANGED requestVars
  PROVE  RequestsTyped' /\ Targeted'
  BY PartsKept DEF Safe, Targeted, requestVars

\* A request that ends forgets its channel; one that goes on keeps it.
LEMMA RequestEnds ==
  ASSUME Safe, NEW r \in Reqs, End(r)
  PROVE  RequestsTyped' /\ Targeted'
<1>1. RequestsTyped'
  BY EndTyped DEF Safe, RequestsTyped
<1>2. Targeted'
  BY DEF Safe, TypeOK, Targeted, End, Move
<1> QED BY <1>1, <1>2

LEMMA RequestMoves ==
  ASSUME Safe, NEW r \in Reqs, NEW where \in {"refresh", "publish", "notify", "remove"},
         Move(r, where), pc[r] \notin {"idle", "done"}, UNCHANGED target,
         NEW ask \in Change, change' = [change EXCEPT ![r] = ask],
         NEW row \in Rows, view' = [view EXCEPT ![r] = row]
  PROVE  RequestsTyped' /\ Targeted'
<1>1. RequestsTyped'
  BY DEF Safe, TypeOK, RequestsTyped, Move
<1>2. Targeted'
  BY DEF Safe, TypeOK, Targeted, Move
<1> QED BY <1>1, <1>2

\* The rows and the index are kept in one invariant, which every step of the requests, of the
\* event loop and of the browser preserves.
LEMMA StepSafe ==
  ASSUME Safe, [Next]_vars
  PROVE  Safe'
<1>a. TypeOK /\ OneSlugEach /\ Targeted
  BY DEF Safe
<1>b. UNCHANGED indexVars => IndexTyped' /\ OneSlugEach'
  BY IndexKept DEF IndexTyped
<1>c. ASSUME NEW c \in Ids, NEW row \in Rows, SetRoute(c, row)
      PROVE  IndexTyped' /\ OneSlugEach'
  BY <1>a, <1>c, RouteTyped, RouteKeepsOneSlug DEF IndexTyped
<1>d. ASSUME NEW event \in Event, Deliver(event)
      PROVE  BrowserTyped'
  <2>1. shown \in Rows
    BY <1>a DEF TypeOK
  <2> QED BY <1>a, <1>d, <2>1, DeliverTyped DEF BrowserTyped
<1>e. \A r \in Reqs : view[r] \in Rows /\ change[r] \in Change
  BY <1>a DEF TypeOK
<1>f. NoRow \in Rows /\ Nothing \in Change
  BY RowFacts
<1>g. ASSUME RowsTyped', IndexTyped', OneSlugEach', RequestsTyped', Targeted', LoopTyped', BrowserTyped',
             FailuresTyped'
      PROVE  Safe'
  BY <1>g, NextTyped DEF Safe
<1>1. ASSUME NEW r \in Reqs, NEW c \in Ids, NEW row \in Row, Create(r, c, row)
      PROVE  Safe'
  <2>1. RowsTyped'
    <3>1. WriteRow(c, row) /\ row \in Rows
      BY <1>1, RowSub DEF Create
    <3>2. recycled' \subseteq Ids
      BY <1>1, <1>a DEF Create, TypeOK
    <3> QED BY <1>a, <3>1, <3>2, WriteTyped DEF RowsTyped
  <2>2. RequestsTyped' /\ Targeted'
    BY <1>1, <1>a DEF Create, RequestsTyped, Targeted, TypeOK, Move
  <2>3. UNCHANGED <<indexVars, loopVars, browserVars, failureVars>>
    BY <1>1 DEF Create
  <2> QED BY <1>a, <2>1, <2>2, <2>3, <1>b, <1>g, PartsKept
<1>2. ASSUME NEW r \in Reqs, NEW c \in Ids, NEW ask \in Change, NEW where \in {"update", "delete"},
             Load(r, c, ask, where)
      PROVE  Safe'
  <2>1. RequestsTyped' /\ Targeted'
    BY <1>2, <1>a DEF Load, RequestsTyped, Targeted, TypeOK, Move
  <2>2. UNCHANGED <<rowVars, indexVars, loopVars, browserVars, failureVars>>
    BY <1>2 DEF Load
  <2> QED BY <1>a, <2>1, <2>2, <1>b, <1>g, PartsKept
<1>3. ASSUME NEW r \in Reqs, CommitUpdate(r)
      PROVE  Safe'
  <2>1. RowsTyped' /\ RequestsTyped' /\ Targeted'
    <3>1. CASE Exists(target[r]) /\ SlugFree(Updated(r).slug, target[r])
      <4>1. WriteRow(target[r], Updated(r)) /\ Move(r, "refresh") /\ UNCHANGED <<recycled, target>>
            /\ change' = [change EXCEPT ![r] = Nothing] /\ view' = [view EXCEPT ![r] = NoRow]
        BY <1>3, <3>1 DEF CommitUpdate
      <4>2. pc[r] = "update" /\ target[r] \in Ids
        BY <1>a, <1>3 DEF CommitUpdate, Targeted
      <4>3. Updated(r) \in Rows
        BY <1>a, <3>1, <4>2, UpdatedTyped, RowSub
      <4>4. RowsTyped'
        BY <1>a, <4>1, <4>2, <4>3, WriteTyped DEF RowsTyped, TypeOK
      <4>5. RequestsTyped' /\ Targeted'
        BY <4>1, <4>2, <1>f, RequestMoves
      <4> QED BY <4>4, <4>5
    <3>2. CASE ~(Exists(target[r]) /\ SlugFree(Updated(r).slug, target[r]))
      <4>1. End(r) /\ UNCHANGED rowVars
        BY <1>3, <3>2 DEF CommitUpdate
      <4> QED BY <1>a, <4>1, RequestEnds, PartsKept
    <3> QED BY <3>1, <3>2
  <2>2. UNCHANGED <<indexVars, loopVars, browserVars, failureVars>>
    BY <1>3 DEF CommitUpdate
  <2> QED BY <1>a, <2>1, <2>2, <1>b, <1>g, PartsKept
<1>4. ASSUME NEW r \in Reqs, CommitDelete(r)
      PROVE  Safe'
  <2>1. pc[r] = "delete" /\ target[r] \in Ids /\ WriteRow(target[r], NoRow) /\ Move(r, "remove")
        /\ view' = [view EXCEPT ![r] = NoRow] /\ UNCHANGED <<recycled, target, change>>
    BY <1>a, <1>4 DEF CommitDelete, Targeted
  <2>2. RowsTyped'
    BY <1>a, <1>f, <2>1, WriteTyped DEF RowsTyped, TypeOK
  <2>3. change' = [change EXCEPT ![r] = change[r]]
    BY <1>a, <2>1 DEF TypeOK
  <2>4. RequestsTyped' /\ Targeted'
    BY <2>1, <2>3, <1>e, <1>f, RequestMoves
  <2>5. UNCHANGED <<indexVars, loopVars, browserVars>>
    BY <1>4 DEF CommitDelete
  <2>6. FailuresTyped'
    BY <1>a, <1>4 DEF CommitDelete, FailuresTyped, TypeOK
  <2> QED BY <1>a, <2>2, <2>4, <2>5, <2>6, <1>b, <1>g, PartsKept
<1>5. ASSUME NEW r \in Reqs, Refresh(r)
      PROVE  Safe'
  <2>1. RequestsTyped' /\ Targeted'
    <3>1. pc[r] = "refresh" /\ Move(r, "publish") /\ UNCHANGED <<target, change>>
          /\ view' = [view EXCEPT ![r] = rows[target[r]]]
      BY <1>5 DEF Refresh
    <3>2. rows[target[r]] \in Rows
      BY <1>a, <3>1 DEF TypeOK, Targeted
    <3>3. change' = [change EXCEPT ![r] = change[r]]
      BY <1>a, <3>1 DEF TypeOK
    <3> QED BY <3>1, <3>2, <3>3, <1>e, RequestMoves
  <2>2. UNCHANGED <<indexVars, loopVars, browserVars, failureVars>>
    BY <1>5 DEF Refresh
  <2>3. RowsTyped'
    BY <1>a, <1>5 DEF Refresh, RowsTyped, TypeOK
  <2> QED BY <1>a, <2>1, <2>2, <2>3, <1>b, <1>g, PartsKept
<1>5a. ASSUME NEW r \in Reqs, RefreshFails(r)
       PROVE  Safe'
  <2>1. pc[r] = "refresh" /\ End(r) /\ UNCHANGED <<rowVars, indexVars, loopVars, browserVars>>
    BY <1>5a DEF RefreshFails
  <2>2. FailuresTyped'
    BY <1>a, <1>5a DEF RefreshFails, Targeted, FailuresTyped, TypeOK
  <2> QED BY <1>a, <2>1, <2>2, <1>b, <1>g, RequestEnds, PartsKept
<1>6. ASSUME NEW r \in Reqs, Publish(r)
      PROVE  Safe'
  <2>1. pc[r] = "publish" /\ SetRoute(target[r], view[r]) /\ Move(r, "notify")
        /\ UNCHANGED <<rowVars, target, change, view, loopVars, browserVars, failureVars>>
    BY <1>6 DEF Publish
  <2>2. IndexTyped' /\ OneSlugEach'
    BY <1>a, <1>c, <1>e, <2>1 DEF Targeted
  <2>3. change' = [change EXCEPT ![r] = change[r]] /\ view' = [view EXCEPT ![r] = view[r]]
    BY <1>a, <2>1 DEF TypeOK
  <2>4. RequestsTyped' /\ Targeted'
    BY <2>1, <2>3, <1>e, RequestMoves
  <2> QED BY <1>a, <2>1, <2>2, <2>4, <1>g, PartsKept
<1>7. ASSUME NEW r \in Reqs, Notify(r)
      PROVE  Safe'
  <2>1. target[r] \in Ids /\ pending' = [pending EXCEPT ![target[r]] = @ + 1] /\ End(r)
        /\ UNCHANGED <<rowVars, indexVars, loopId, loopRow, failureVars>>
    BY <1>a, <1>7 DEF Notify, Targeted
  <2>2. LoopTyped'
    BY <1>a, <2>1 DEF TypeOK, LoopTyped
  <2>3. [kind |-> "channel", row |-> view[r]] \in Event
    BY <1>e DEF Event
  <2>4. BrowserTyped'
    BY <1>a, <1>7, <1>d, <2>3, PartsKept DEF Notify
  <2> QED BY <1>a, <2>1, <2>2, <2>4, <1>b, <1>g, RequestEnds, PartsKept
<1>8. ASSUME NEW r \in Reqs, Remove(r)
      PROVE  Safe'
  <2>1. target[r] \in Ids /\ SetRoute(target[r], NoRow) /\ End(r)
        /\ UNCHANGED <<rowVars, loopVars, browserVars>>
    BY <1>a, <1>8 DEF Remove, Targeted
  <2>2. FailuresTyped'
    BY <1>a, <1>8, <2>1 DEF Remove, FailuresTyped, TypeOK
  <2> QED BY <1>a, <2>1, <2>2, <1>c, <1>f, <1>g, RequestEnds, PartsKept
<1>9. ASSUME NEW c \in Ids, ReconcileRead(c)
      PROVE  Safe'
  <2>1. LoopTyped'
    BY <1>a, <1>9 DEF ReconcileRead, LoopTyped, TypeOK
  <2>2. UNCHANGED <<rowVars, indexVars, requestVars, browserVars>>
    BY <1>9 DEF ReconcileRead
  <2>3. FailuresTyped'
    BY <1>a, <1>9 DEF ReconcileRead, FailuresTyped, TypeOK
  <2> QED BY <1>a, <2>1, <2>2, <2>3, <1>b, <1>g, RequestsKept, PartsKept
<1>9a. ASSUME NEW c \in Ids, ReconcileFails(c)
      PROVE  Safe'
  <2>1. LoopTyped'
    BY <1>a, <1>9a DEF ReconcileFails, LoopTyped, TypeOK
  <2>2. UNCHANGED <<rowVars, indexVars, requestVars, browserVars>>
    BY <1>9a DEF ReconcileFails
  <2>3. FailuresTyped'
    BY <1>a, <1>9a DEF ReconcileFails, FailuresTyped, TypeOK
  <2> QED BY <1>a, <2>1, <2>2, <2>3, <1>b, <1>g, RequestsKept, PartsKept
<1>10. ASSUME NEW c \in Ids, OtherReconcile(c)
       PROVE  Safe'
  <2>1. LoopTyped'
    BY <1>a, <1>10 DEF OtherReconcile, LoopTyped, TypeOK
  <2>2. UNCHANGED <<rowVars, indexVars, requestVars, browserVars, failureVars>>
    BY <1>10 DEF OtherReconcile
  <2> QED BY <1>a, <2>1, <2>2, <1>b, <1>g, RequestsKept, PartsKept
<1>11. ASSUME ReconcileRoute
       PROVE  Safe'
  <2>1. loopId \in Ids /\ loopRow \in Rows /\ SetRoute(loopId, loopRow)
        /\ UNCHANGED <<rowVars, requestVars, pending, browserVars, failureVars>>
    BY <1>a, <1>11 DEF ReconcileRoute, TypeOK
  <2>2. LoopTyped'
    BY <1>a, <1>f, <1>11 DEF ReconcileRoute, LoopTyped, TypeOK
  <2> QED BY <1>a, <2>1, <2>2, <1>c, <1>g, RequestsKept, PartsKept
<1>12. ASSUME OtherEvent
       PROVE  Safe'
  <2>1. [kind |-> "other", row |-> NoRow] \in Event
    BY <1>f DEF Event
  <2>2. BrowserTyped' /\ UNCHANGED <<rowVars, indexVars, requestVars, loopVars, failureVars>>
    BY <1>12, <1>d, <2>1 DEF OtherEvent
  <2> QED BY <1>a, <2>2, <1>b, <1>g, RequestsKept, PartsKept
<1>13. ASSUME Receive
       PROVE  Safe'
  <2>1. inbox \in Seq(Event) /\ inbox # <<>> /\ inbox' = Tail(inbox) /\ Len(inbox) <= QueueSize
        /\ QueueSize \in Nat
    BY <1>a, <1>13, QueueHolds DEF Receive, TypeOK
  <2>2. inbox' \in Seq(Event) /\ Len(inbox') <= QueueSize /\ Head(inbox) \in Event
    BY <2>1
  <2>3. BrowserTyped' /\ UNCHANGED <<rowVars, indexVars, requestVars, loopVars, failureVars>>
    BY <1>a, <1>13, <2>2 DEF Receive, BrowserTyped, TypeOK, Event
  <2> QED BY <1>a, <2>3, <1>b, <1>g, RequestsKept, PartsKept
<1>14. ASSUME UNCHANGED vars
       PROVE  Safe'
  <2>1. UNCHANGED <<rowVars, indexVars, requestVars, loopVars, browserVars, failureVars>>
    BY <1>14 DEF vars
  <2> QED BY <1>a, <2>1, <1>b, <1>g, RequestsKept, PartsKept
<1>15. ASSUME NEW r \in Reqs, RequestStep(r)
       PROVE  Safe'
  BY <1>15, <1>3, <1>4, <1>5, <1>5a, <1>6, <1>7, <1>8 DEF RequestStep
<1>16. \A ask \in Changes : ask \in Change
  BY ChangesTyped
<1> QED
  BY <1>1, <1>2, <1>9, <1>9a, <1>10, <1>11, <1>12, <1>13, <1>14, <1>15, <1>16, <1>f DEF Next

\* The rows, the index, the requests and the browser's queue keep their types, and the queue
\* its limit, however many channels and requests there are (events.py:21).
THEOREM TypeCorrect == Spec => []TypeOK
<1>1. Safe => TypeOK
  BY DEF Safe
<1> QED BY <1>1, InitSafe, StepSafe, PTL DEF Spec

\* Two slugs never lead to the same channel, whatever requests and reconciles write the index
\* and in whatever order (playback.py:327).
THEOREM NeverTwoSlugs == Spec => []OneSlugEach
<1>1. Safe => OneSlugEach
  BY DEF Safe
<1> QED BY <1>1, InitSafe, StepSafe, PTL DEF Spec

-----------------------------------------------------------------------------
(***************************************************************************)
(* What the index and the browser say when everything has settled.  While  *)
(* requests and reconciles are on their way both may be wrong, so the      *)
(* invariant says of every wrong entry who will still look at the row.     *)
(***************************************************************************)
\* A request or a reconcile that will still read the row of c, or remove its route; or it is known
\* that one failed to.
Work(c) ==
  \/ pending[c] > 0 \/ c \in missed
  \/ Busy(c, {"publish", "notify"})
  \/ IF Exists(c) THEN Busy(c, {"refresh"}) ELSE Busy(c, {"remove"})

Overtaken(c) == ~Exists(c) /\ c \in overtaken
Current(c) == loopId = c /\ loopRow = rows[c]
Removed(c) == ~Exists(c) /\ slugOf[c] = NoSlug /\ (loopId = c => c \in overtaken)

\* Whoever enters a slug for a channel has read it in a row that the channel had.
Known(c) == \E s \in Slugs : c \in heldBy[s]

InHand(r) ==
  /\ pc[r] = "idle" => view[r] = NoRow
  /\ pc[r] \notin {"idle", "done"} =>
       /\ Known(target[r])
       /\ view[r] # NoRow => target[r] \in heldBy[view[r].slug]
       /\ pc[r] = "remove" => ~Exists(target[r]) \/ target[r] \in recycled

Held ==
  /\ \A c \in Ids : Exists(c) => c \in heldBy[rows[c].slug]
  /\ loopId # NoId /\ loopRow # NoRow => loopId \in heldBy[loopRow.slug]
  /\ \A r \in Reqs : InHand(r)

StaleIsFollowed == \A c \in Ids : loopId = c /\ loopRow # rows[c] => Work(c) \/ Overtaken(c)

EntryIsFollowed ==
  \A c \in Ids : slugOf[c] # NoSlug /\ bySlug[slugOf[c]] = c =>
    rows[c] = [slug |-> slugOf[c], enabled |-> TRUE] \/ Overtaken(c) \/ Work(c) \/ Current(c)

RowIsFollowed ==
  \A c \in Ids : rows[c].enabled /\ heldBy[rows[c].slug] = {c} /\ c \notin recycled =>
    bySlug[rows[c].slug] = c \/ Work(c) \/ Current(c)

\* The browser will show this row once it has read its events.
LastAt(i) == \A j \in 1..Len(inbox) : j > i => inbox[j].kind # "channel"
WillShow(row) ==
  \/ shown = row /\ LastAt(0)
  \/ \E i \in 1..Len(inbox) : inbox[i].kind = "channel" /\ inbox[i].row = row /\ LastAt(i)

ShowIsFollowed ==
  Exists(Watched) /\ Watched \notin recycled /\ ~crossed /\ ~dropped =>
    /\ \A r \in Reqs :
         target[r] = Watched /\ pc[r] \in {"publish", "notify"} => view[r] = rows[Watched]
    /\ WillShow(rows[Watched]) \/ unread \/ Busy(Watched, {"publish", "notify"})

\* What a step does to rows that are not its own.
LEMMA WriteKeeps ==
  ASSUME TypeOK, NEW c \in Ids, NEW row, WriteRow(c, row)
  PROVE  /\ rows'[c] = row
         /\ \A d \in Ids \ {c} : rows'[d] = rows[d]
         /\ \A s \in Slugs : heldBy[s] \subseteq heldBy'[s]
         /\ row.slug \in Slugs => c \in heldBy'[row.slug]
  BY DEF TypeOK, WriteRow

\* The histories only grow, and who may change the index and what the loop has read.
LEMMA StepShape ==
  ASSUME Safe, Next
  PROVE  /\ overtaken \subseteq overtaken' /\ recycled \subseteq recycled'
         /\ \A s \in Slugs : heldBy[s] \subseteq heldBy'[s]
         /\ \/ UNCHANGED indexVars
            \/ \E r \in Reqs : Publish(r) \/ Remove(r)
            \/ ReconcileRoute
         /\ \/ UNCHANGED <<loopId, loopRow>>
            \/ ReconcileRoute
            \/ \E c \in Ids : ReconcileRead(c)
<1> USE DEF Safe, indexVars, loopVars, rowVars, requestVars, browserVars, failureVars
<1> DEFINE P == /\ overtaken \subseteq overtaken' /\ recycled \subseteq recycled'
                /\ \A s \in Slugs : heldBy[s] \subseteq heldBy'[s]
<1>1. ASSUME NEW r \in Reqs, NEW c \in Ids, NEW row \in Row, Create(r, c, row)
      PROVE  P /\ UNCHANGED <<indexVars, loopId, loopRow>>
  BY <1>1, WriteKeeps DEF Create
<1>2. ASSUME NEW r \in Reqs, NEW c \in Ids, NEW ask, NEW where, Load(r, c, ask, where)
      PROVE  P /\ UNCHANGED <<indexVars, loopId, loopRow>>
  BY <1>2 DEF Load
<1>3. ASSUME NEW r \in Reqs, CommitUpdate(r) \/ CommitDelete(r)
      PROVE  P /\ UNCHANGED <<indexVars, loopId, loopRow>>
  <2>1. target[r] \in Ids
    BY <1>3 DEF CommitUpdate, CommitDelete, Targeted
  <2> QED BY <1>3, <2>1, WriteKeeps DEF CommitUpdate, CommitDelete
<1>4. ASSUME NEW r \in Reqs, Refresh(r) \/ RefreshFails(r) \/ Notify(r)
      PROVE  P /\ UNCHANGED <<indexVars, loopId, loopRow>>
  BY <1>4 DEF Refresh, RefreshFails, Notify
<1>5. ASSUME NEW r \in Reqs, Publish(r) \/ Remove(r)
      PROVE  P /\ UNCHANGED <<loopId, loopRow>>
  BY <1>5 DEF Publish, Remove
<1>6. ASSUME NEW c \in Ids, ReconcileRead(c)
      PROVE  P /\ UNCHANGED indexVars
  BY <1>6 DEF ReconcileRead
<1>7. ASSUME NEW c \in Ids, OtherReconcile(c) \/ ReconcileFails(c)
      PROVE  P /\ UNCHANGED <<indexVars, loopId, loopRow>>
  BY <1>7 DEF OtherReconcile, ReconcileFails
<1>8. CASE ReconcileRoute
  BY <1>8 DEF ReconcileRoute
<1>9. CASE OtherEvent \/ Receive
  BY <1>9 DEF OtherEvent, Receive
<1> QED BY <1>1, <1>2, <1>3, <1>4, <1>5, <1>6, <1>7, <1>8, <1>9 DEF Next, RequestStep

\* Nobody writes a row without another look at it afterwards, and whoever was going to look at it
\* hands this on to the next or does it: a request to the loop, the loop to itself, and only a
\* removal to nobody.
LEMMA WorkGoesOn ==
  ASSUME Safe, Next, NEW c \in Ids
  PROVE  /\ rows'[c] # rows[c] => Work(c)'
         /\ Work(c) => Work(c)' \/ Current(c)' \/ Removed(c)'
<1> USE DEF Safe, TypeOK, loopVars, rowVars, requestVars, browserVars, failureVars, indexVars, Work, Busy, Exists, Move
<1>1. ASSUME NEW r \in Reqs, NEW d \in Ids, NEW row \in Row, Create(r, d, row)
      PROVE  (rows'[c] # rows[c] => Work(c)') /\ (Work(c) => Work(c)')
  <2>1. row # NoRow
    BY NoSlugApart DEF Row, NoRow
  <2> QED BY <1>1, <2>1, WriteKeeps DEF Create
<1>2. ASSUME NEW r \in Reqs, NEW d \in Ids, NEW ask, NEW where \in {"update", "delete"}, Load(r, d, ask, where)
      PROVE  rows' = rows /\ (Work(c) => Work(c)')
  BY <1>2 DEF Load
<1>3. ASSUME NEW r \in Reqs, CommitUpdate(r)
      PROVE  (rows'[c] # rows[c] => Work(c)') /\ (Work(c) => Work(c)')
  <2>1. target[r] \in Ids /\ pc[r] = "update"
    BY <1>3 DEF CommitUpdate, Targeted
  <2>2. CASE Exists(target[r]) /\ SlugFree(Updated(r).slug, target[r])
    <3>1. Updated(r) # NoRow
      BY <2>1, <2>2, UpdatedTyped, NoSlugApart DEF Row, NoRow
    <3>2. WriteRow(target[r], Updated(r)) /\ pc' = [pc EXCEPT ![r] = "refresh"]
          /\ UNCHANGED <<target, pending, missed>>
      BY <1>3, <2>2 DEF CommitUpdate
    <3>3. rows'[target[r]] # NoRow /\ \A d \in Ids \ {target[r]} : rows'[d] = rows[d]
      BY <2>1, <3>1, <3>2, WriteKeeps
    <3> QED BY <2>1, <2>2, <3>2, <3>3
  <2>3. CASE End(r) /\ UNCHANGED <<rows, pending, missed>>
    BY <2>1, <2>3 DEF End
  <2> QED BY <1>3, <2>2, <2>3 DEF CommitUpdate
<1>4. ASSUME NEW r \in Reqs, CommitDelete(r)
      PROVE  (rows'[c] # rows[c] => Work(c)') /\ (Work(c) => Work(c)')
  <2>1. target[r] \in Ids /\ pc[r] = "delete" /\ pc' = [pc EXCEPT ![r] = "remove"]
        /\ UNCHANGED <<target, pending>> /\ WriteRow(target[r], NoRow)
        /\ missed' = missed \ {target[r]}
    BY <1>4 DEF CommitDelete, Targeted
  <2>2. rows'[target[r]] = NoRow /\ \A d \in Ids \ {target[r]} : rows'[d] = rows[d]
    BY <2>1, WriteKeeps
  <2> QED BY <2>1, <2>2
<1>5. ASSUME NEW r \in Reqs, Refresh(r)
      PROVE  rows' = rows /\ (Work(c) => Work(c)')
  BY <1>5 DEF Refresh
<1>5a. ASSUME NEW r \in Reqs, RefreshFails(r)
      PROVE  rows' = rows /\ (Work(c) => Work(c)')
  BY <1>5a DEF RefreshFails, End
<1>6. ASSUME NEW r \in Reqs, Publish(r)
      PROVE  rows' = rows /\ (Work(c) => Work(c)')
  BY <1>6 DEF Publish
<1>7. ASSUME NEW r \in Reqs, Notify(r)
      PROVE  rows' = rows /\ (Work(c) => Work(c)')
  <2>1. target[r] \in Ids
    BY <1>7 DEF Notify, Targeted
  <2> QED BY <1>7, <2>1 DEF Notify, End
<1>8. ASSUME NEW r \in Reqs, Remove(r)
      PROVE  rows' = rows /\ (Work(c) => Work(c)' \/ Removed(c)')
  <2>1. target[r] \in Ids /\ pc[r] = "remove" /\ End(r) /\ UNCHANGED <<rows, pending, loopId, missed>>
        /\ slugOf' = [slugOf EXCEPT ![target[r]] = NoSlug]
        /\ overtaken' = IF loopId = target[r] THEN overtaken \union {target[r]} ELSE overtaken
    BY <1>8, RowFacts DEF Remove, Targeted, SetRoute
  <2>2. CASE c = target[r] /\ ~Exists(c)
    BY <2>1, <2>2 DEF Removed
  <2>3. CASE c # target[r] \/ Exists(c)
    BY <2>1, <2>3 DEF End
  <2> QED BY <2>1, <2>2, <2>3
<1>9. ASSUME NEW d \in Ids, ReconcileRead(d)
      PROVE  rows' = rows /\ (Work(c) => Work(c)' \/ Current(c)')
  BY <1>9 DEF ReconcileRead, Current
<1>10. ASSUME NEW d \in Ids, OtherReconcile(d) \/ ReconcileFails(d)
      PROVE  rows' = rows /\ (Work(c) => Work(c)')
  BY <1>10 DEF OtherReconcile, ReconcileFails
<1>11. CASE ReconcileRoute \/ OtherEvent \/ Receive
  BY <1>11 DEF ReconcileRoute, OtherEvent, Receive
<1> QED
  BY <1>1, <1>2, <1>3, <1>4, <1>5, <1>5a, <1>6, <1>7, <1>8, <1>9, <1>10, <1>11 DEF Next, RequestStep

\* Nobody knows a slug of a channel that the channel never had.
LEMMA HeldNext == Safe /\ Held /\ Next => Held'
<1> SUFFICES ASSUME Safe, Held, Next PROVE Held'
  OBVIOUS
<1> USE DEF Safe, TypeOK, loopVars, rowVars, requestVars, browserVars, failureVars
<1> DEFINE Row1 == \A c \in Ids : Exists(c) => c \in heldBy[rows[c].slug]
           Loop1 == loopId # NoId /\ loopRow # NoRow => loopId \in heldBy[loopRow.slug]
<1>a. \A s \in Slugs : heldBy[s] \subseteq heldBy'[s]
  BY StepShape
<1>b. recycled \subseteq recycled' /\ \A c \in Ids : Known(c) => Known(c)'
  BY <1>a, StepShape DEF Known
<1>c. Row1 /\ Loop1 /\ \A r \in Reqs : InHand(r)
  BY DEF Held
<1>d. ASSUME rows' = rows PROVE Row1'
  BY <1>a, <1>c, <1>d, RowFacts DEF Exists
<1>e. ASSUME UNCHANGED <<loopId, loopRow>> PROVE Loop1'
  BY <1>a, <1>c, <1>e, RowFacts
\* A request that does nothing, while at most channels that were known come back.
<1>f. ASSUME NEW q \in Reqs, pc'[q] = pc[q], target'[q] = target[q], view'[q] = view[q],
             \A c \in Ids : Known(c) /\ ~Exists(c) => ~Exists(c)' \/ c \in recycled'
      PROVE  InHand(q)'
  <2> SUFFICES ASSUME pc[q] \notin {"idle", "done"} PROVE InHand(q)'
    BY <1>c, <1>f DEF InHand
  <2>1. PICK c \in Ids : c = target[q]
    BY DEF Targeted
  <2>2. /\ Known(c) /\ (view[q] # NoRow => c \in heldBy[view[q].slug])
        /\ pc[q] = "remove" => ~Exists(c) \/ c \in recycled
    BY <1>c, <2>1 DEF InHand
  <2>3. view[q] \in Rows /\ (view[q] # NoRow => view[q].slug \in Slugs)
    BY RowFacts
  <2>4. /\ Known(c)' /\ (view[q] # NoRow => c \in heldBy'[view[q].slug])
        /\ pc[q] = "remove" => ~Exists(c)' \/ c \in recycled'
    BY <1>a, <1>b, <1>f, <2>2, <2>3
  <2> QED BY <1>f, <2>1, <2>4 DEF InHand, Known, Exists
<1>g. rows' = rows => \A c \in Ids : Known(c) /\ ~Exists(c) => ~Exists(c)' \/ c \in recycled'
  BY DEF Exists
<1>h. ASSUME NEW r \in Reqs, End(r), rows' = rows PROVE \A q \in Reqs : InHand(q)'
  <2>1. InHand(r)'
    BY <1>h DEF End, Move, InHand
  <2>2. \A q \in Reqs \ {r} : pc'[q] = pc[q] /\ target'[q] = target[q] /\ view'[q] = view[q]
    BY <1>h DEF End, Move
  <2> QED BY <1>f, <1>g, <1>h, <2>1, <2>2
<1>i. ASSUME UNCHANGED requestVars, rows' = rows PROVE \A q \in Reqs : InHand(q)'
  BY <1>f, <1>g, <1>i
<1>1. ASSUME NEW r \in Reqs, NEW c \in Ids, NEW row \in Row, Create(r, c, row)
      PROVE  Held'
  <2>1. row \in Rows /\ row # NoRow /\ row.slug \in Slugs
    BY NoSlugApart DEF Row, NoRow, Rows
  <2>2. WriteRow(c, row) /\ UNCHANGED <<loopId, loopRow, view>> /\ pc[r] = "idle"
        /\ pc' = [pc EXCEPT ![r] = "refresh"] /\ target' = [target EXCEPT ![r] = c]
        /\ recycled' = IF \E s \in Slugs : c \in heldBy[s] THEN recycled \union {c} ELSE recycled
    BY <1>1 DEF Create, Move
  <2>3. rows'[c] = row /\ c \in heldBy'[row.slug] /\ \A d \in Ids \ {c} : rows'[d] = rows[d]
    BY <2>1, <2>2, WriteKeeps
  <2>4. Row1'
    BY <1>a, <1>c, <2>1, <2>3, RowFacts DEF Exists
  <2>5. \A d \in Ids : Known(d) /\ ~Exists(d) => ~Exists(d)' \/ d \in recycled'
    BY <2>2, <2>3 DEF Known, Exists
  <2>6. view[r] = NoRow
    BY <1>c, <2>2 DEF InHand
  <2>7. InHand(r)'
    BY <2>1, <2>2, <2>3, <2>6 DEF InHand, Known
  <2>8. \A q \in Reqs \ {r} : pc'[q] = pc[q] /\ target'[q] = target[q] /\ view'[q] = view[q]
    BY <2>2
  <2> QED BY <1>e, <1>f, <2>2, <2>4, <2>5, <2>7, <2>8 DEF Held
<1>2. ASSUME NEW r \in Reqs, NEW c \in Ids, NEW ask, NEW where \in {"update", "delete"},
             Load(r, c, ask, where)
      PROVE  Held'
  <2>1. rows' = rows /\ UNCHANGED <<heldBy, loopId, loopRow>> /\ Exists(c)
        /\ pc' = [pc EXCEPT ![r] = where] /\ target' = [target EXCEPT ![r] = c]
        /\ view' = [view EXCEPT ![r] = rows[c]]
    BY <1>2 DEF Load, Move
  <2>2. c \in heldBy[rows[c].slug] /\ rows[c].slug \in Slugs
    BY <1>c, <2>1, RowFacts DEF Exists
  <2>3. InHand(r)'
    BY <2>1, <2>2 DEF InHand, Known
  <2>4. \A q \in Reqs \ {r} : pc'[q] = pc[q] /\ target'[q] = target[q] /\ view'[q] = view[q]
    BY <2>1
  <2> QED BY <1>d, <1>e, <1>f, <1>g, <2>1, <2>3, <2>4 DEF Held
<1>3. ASSUME NEW r \in Reqs, CommitUpdate(r) PROVE Held'
  <2>1. PICK c \in Ids : c = target[r]
    BY <1>3 DEF CommitUpdate, Targeted
  <2>2. pc[r] = "update" /\ UNCHANGED <<loopId, loopRow>>
    BY <1>3 DEF CommitUpdate
  <2>3. CASE Exists(c) /\ SlugFree(Updated(r).slug, c)
    <3>1. Updated(r) \in Row
      BY <2>1, <2>3, UpdatedTyped
    <3>2. PICK row \in Row : row = Updated(r)
      BY <3>1
    <3>3. WriteRow(c, row) /\ pc' = [pc EXCEPT ![r] = "refresh"] /\ target' = target
          /\ view' = [view EXCEPT ![r] = NoRow]
      BY <1>3, <2>1, <2>3, <3>2 DEF CommitUpdate, Move
    <3>4. rows'[c] = row /\ c \in heldBy'[row.slug] /\ row.slug \in Slugs
          /\ \A d \in Ids \ {c} : rows'[d] = rows[d]
      BY <3>3, WriteKeeps DEF Row
    <3>5. Row1'
      BY <1>a, <1>c, <3>4, RowFacts DEF Exists
    <3>6. \A d \in Ids : Known(d) /\ ~Exists(d) => ~Exists(d)' \/ d \in recycled'
      BY <2>3, <3>4 DEF Exists
    <3>7. InHand(r)'
      BY <2>1, <3>3, <3>4 DEF InHand, Known
    <3>8. \A q \in Reqs \ {r} : pc'[q] = pc[q] /\ target'[q] = target[q] /\ view'[q] = view[q]
      BY <3>3
    <3> QED BY <1>e, <1>f, <2>2, <3>5, <3>6, <3>7, <3>8 DEF Held
  <2>4. CASE End(r) /\ rows' = rows
    BY <1>d, <1>e, <1>h, <2>2, <2>4 DEF Held
  <2> QED BY <1>3, <2>1, <2>3, <2>4 DEF CommitUpdate
<1>4. ASSUME NEW r \in Reqs, CommitDelete(r) PROVE Held'
  <2>1. PICK c \in Ids : c = target[r]
    BY <1>4 DEF CommitDelete, Targeted
  <2>2. pc[r] = "delete" /\ UNCHANGED <<loopId, loopRow, target>> /\ WriteRow(c, NoRow)
        /\ pc' = [pc EXCEPT ![r] = "remove"] /\ view' = [view EXCEPT ![r] = NoRow]
    BY <1>4, <2>1 DEF CommitDelete, Move
  <2>3. rows'[c] = NoRow /\ \A d \in Ids \ {c} : rows'[d] = rows[d]
    BY <2>2, WriteKeeps
  <2>4. Row1'
    BY <1>a, <1>c, <2>3, RowFacts DEF Exists
  <2>5. \A d \in Ids : Known(d) /\ ~Exists(d) => ~Exists(d)' \/ d \in recycled'
    BY <2>3 DEF Exists
  <2>6. Known(c)'
    BY <1>b, <1>c, <2>1, <2>2 DEF InHand
  <2>7. InHand(r)'
    BY <2>1, <2>2, <2>3, <2>6 DEF InHand, Exists, Known
  <2>8. \A q \in Reqs \ {r} : pc'[q] = pc[q] /\ target'[q] = target[q] /\ view'[q] = view[q]
    BY <2>2
  <2> QED BY <1>e, <1>f, <2>2, <2>4, <2>5, <2>7, <2>8 DEF Held
<1>5. ASSUME NEW r \in Reqs, Refresh(r) PROVE Held'
  <2>1. PICK c \in Ids : c = target[r]
    BY <1>5 DEF Refresh, Targeted
  <2>2. /\ pc[r] = "refresh" /\ UNCHANGED <<rows, heldBy, loopId, loopRow, target>> /\ Exists(c)
        /\ pc' = [pc EXCEPT ![r] = "publish"] /\ view' = [view EXCEPT ![r] = rows[c]]
    BY <1>5, <2>1 DEF Refresh, Move
  <2>3. c \in heldBy[rows[c].slug] /\ rows[c].slug \in Slugs
    BY <1>c, <2>2, RowFacts DEF Exists
  <2>4. InHand(r)'
    BY <2>1, <2>2, <2>3 DEF InHand, Known
  <2>5. \A q \in Reqs \ {r} : pc'[q] = pc[q] /\ target'[q] = target[q] /\ view'[q] = view[q]
    BY <2>2
  <2> QED BY <1>d, <1>e, <1>f, <1>g, <2>2, <2>4, <2>5 DEF Held
<1>5a. ASSUME NEW r \in Reqs, RefreshFails(r) PROVE Held'
  BY <1>d, <1>e, <1>h, <1>5a DEF Held, RefreshFails
<1>6. ASSUME NEW r \in Reqs, Publish(r) PROVE Held'
  <2>1. pc[r] = "publish" /\ pc' = [pc EXCEPT ![r] = "notify"]
        /\ UNCHANGED <<rows, heldBy, target, view, loopId, loopRow>>
    BY <1>6 DEF Publish, Move
  <2>2. InHand(r)'
    BY <1>c, <2>1 DEF InHand, Known
  <2>3. \A q \in Reqs \ {r} : pc'[q] = pc[q] /\ target'[q] = target[q] /\ view'[q] = view[q]
    BY <2>1
  <2> QED BY <1>d, <1>e, <1>f, <1>g, <2>1, <2>2, <2>3 DEF Held
<1>7. ASSUME NEW r \in Reqs, Notify(r) \/ Remove(r) PROVE Held'
  BY <1>d, <1>e, <1>h, <1>7 DEF Held, Notify, Remove
<1>8. ASSUME NEW c \in Ids, ReconcileRead(c) PROVE Held'
  <2>1. UNCHANGED <<rowVars, requestVars>> /\ loopId' = c /\ loopRow' = rows[c]
    BY <1>8 DEF ReconcileRead
  <2>2. Loop1'
    BY <1>c, <2>1 DEF Exists
  <2> QED BY <1>d, <1>i, <2>1, <2>2 DEF Held
<1>9. CASE ReconcileRoute
  <2>1. UNCHANGED <<rowVars, requestVars>> /\ loopId' = NoId
    BY <1>9 DEF ReconcileRoute
  <2> QED BY <1>d, <1>i, <2>1 DEF Held
<1>10. ASSUME NEW c \in Ids, OtherReconcile(c) \/ ReconcileFails(c) PROVE Held'
  BY <1>d, <1>e, <1>i, <1>10 DEF Held, OtherReconcile, ReconcileFails
<1>11. CASE OtherEvent \/ Receive
  BY <1>d, <1>e, <1>i, <1>11 DEF Held, OtherEvent, Receive
<1> QED
  BY <1>1, <1>2, <1>3, <1>4, <1>5, <1>5a, <1>6, <1>7, <1>8, <1>9, <1>10, <1>11 DEF Next, RequestStep

\* A reconcile that is about to enter an old row is followed by another look at the row, unless the
\* channel is removed meanwhile.
LEMMA StaleNext == Safe /\ StaleIsFollowed /\ Next => StaleIsFollowed'
<1> SUFFICES ASSUME Safe, StaleIsFollowed, Next,
                    NEW c \in Ids, loopId' = c, loopRow' # rows'[c]
             PROVE  Work(c)' \/ Overtaken(c)'
  BY DEF StaleIsFollowed
<1>1. CASE rows'[c] # rows[c] \/ Work(c)
  <2>1. Work(c)' \/ Current(c)' \/ Removed(c)'
    BY <1>1, WorkGoesOn
  <2> QED BY <2>1 DEF Current, Removed, Overtaken
<1>2. CASE rows'[c] = rows[c] /\ ~Work(c)
  <2>1. ~ReconcileRoute
    BY RowFacts DEF ReconcileRoute
  <2>2. UNCHANGED <<loopId, loopRow>>
    BY <1>2, <2>1, StepShape DEF ReconcileRead
  <2>3. Overtaken(c)
    BY <1>2, <2>2 DEF StaleIsFollowed
  <2> QED BY <1>2, <2>3, StepShape DEF Overtaken, Exists
<1> QED BY <1>1, <1>2

\* What set_channel_route() of one channel does to the others.
LEMMA RouteOfOthers ==
  ASSUME TypeOK, NEW d \in Ids, NEW row \in Rows, SetRoute(d, row), NEW c \in Ids, c # d
  PROVE  /\ slugOf'[c] = slugOf[c]
         /\ \A s \in Slugs : bySlug'[s] = c => bySlug[s] = c
         /\ \A s \in Slugs : bySlug[s] = c /\ row.slug # s => bySlug'[s] = c
<1>1. slugOf'[c] = slugOf[c]
  BY DEF SetRoute, TypeOK
<1>2. ASSUME NEW s \in Slugs
      PROVE  bySlug'[s] = IF row.enabled /\ row.slug = s THEN d
                          ELSE IF slugOf[d] = s /\ bySlug[s] = d THEN NoId ELSE bySlug[s]
  BY RowFacts DEF SetRoute, Freed
<1>3. c # NoId
  BY RowFacts
<1> QED BY <1>1, <1>2, <1>3

\* What it does to its own.
LEMMA RouteOfItself ==
  ASSUME TypeOK, NEW d \in Ids, NEW row \in Rows, SetRoute(d, row)
  PROVE  /\ row.enabled => bySlug'[row.slug] = d /\ slugOf'[d] = row.slug
         /\ ~row.enabled => slugOf'[d] = NoSlug
<1>1. row.enabled => row.slug \in Slugs
  BY RowFacts
<1> QED BY <1>1 DEF SetRoute, Freed, TypeOK

\* What the three writers of the index are, seen from a channel c.
LEMMA IndexWriters ==
  ASSUME Safe, Held, Next, NEW c \in Ids
  PROVE  \/ UNCHANGED indexVars /\ (Current(c) => Current(c)' \/ rows'[c] # rows[c])
         \/ Work(c)' /\ rows' = rows
         \/ \E r \in Reqs : Remove(r) /\ target[r] = c
         \/ ReconcileRoute /\ loopId = c
         \/ /\ rows' = rows /\ (Current(c) => Current(c)')
            /\ \E d \in Ids \ {c}, row \in Rows :
                 SetRoute(d, row) /\ (row # NoRow => d \in heldBy[row.slug])
<1> USE DEF Safe
<1>1. ASSUME NEW r \in Reqs, Publish(r)
      PROVE  \/ Work(c)' /\ rows' = rows
             \/ /\ rows' = rows /\ (Current(c) => Current(c)')
                /\ \E d \in Ids \ {c}, row \in Rows :
                     SetRoute(d, row) /\ (row # NoRow => d \in heldBy[row.slug])
  <2>1. target[r] \in Ids /\ view[r] \in Rows /\ SetRoute(target[r], view[r])
        /\ pc' = [pc EXCEPT ![r] = "notify"] /\ UNCHANGED <<rows, target, loopId, loopRow>>
    BY <1>1 DEF Publish, Targeted, TypeOK, Move, rowVars, loopVars
  <2>2. view[r] # NoRow => target[r] \in heldBy[view[r].slug]
    BY <1>1 DEF Publish, Held, InHand
  <2>3. CASE target[r] = c
    BY <2>1, <2>3 DEF Work, Busy, TypeOK
  <2>4. CASE target[r] # c
    BY <2>1, <2>2, <2>4 DEF Current
  <2> QED BY <2>3, <2>4
<1>2. ASSUME NEW r \in Reqs, Remove(r), target[r] # c
      PROVE  /\ rows' = rows /\ (Current(c) => Current(c)')
             /\ \E d \in Ids \ {c}, row \in Rows :
                  SetRoute(d, row) /\ (row # NoRow => d \in heldBy[row.slug])
  <2>1. target[r] \in Ids /\ SetRoute(target[r], NoRow) /\ UNCHANGED <<rows, loopId, loopRow>>
    BY <1>2 DEF Remove, Targeted, rowVars, loopVars
  <2> QED BY <1>2, <2>1, RowFacts DEF Current
<1>3. ASSUME ReconcileRoute, loopId # c
      PROVE  /\ rows' = rows /\ (Current(c) => Current(c)')
             /\ \E d \in Ids \ {c}, row \in Rows :
                  SetRoute(d, row) /\ (row # NoRow => d \in heldBy[row.slug])
  <2>1. loopId \in Ids /\ loopRow \in Rows /\ SetRoute(loopId, loopRow) /\ rows' = rows /\ loopId # NoId
    BY <1>3 DEF ReconcileRoute, TypeOK, rowVars
  <2>2. loopRow # NoRow => loopId \in heldBy[loopRow.slug]
    BY <2>1 DEF Held
  <2> QED BY <1>3, <2>1, <2>2 DEF Current
<1>4. CASE UNCHANGED indexVars /\ ~ReconcileRoute
  <2>1. ASSUME Current(c) PROVE UNCHANGED <<loopId, loopRow>>
    BY <1>4, <2>1, StepShape, RowFacts DEF ReconcileRead, Current
  <2> QED BY <1>4, <2>1 DEF Current
<1> QED BY <1>1, <1>2, <1>3, <1>4, StepShape

LEMMA EntryNext ==
  Safe /\ Held /\ StaleIsFollowed /\ EntryIsFollowed /\ Next => EntryIsFollowed'
<1> SUFFICES ASSUME Safe, Held, StaleIsFollowed, EntryIsFollowed, Next,
                    NEW c \in Ids, slugOf'[c] # NoSlug, bySlug'[slugOf'[c]] = c
             PROVE  \/ rows'[c] = [slug |-> slugOf'[c], enabled |-> TRUE]
                    \/ Overtaken(c)' \/ Work(c)' \/ Current(c)'
  BY DEF EntryIsFollowed
<1> USE DEF Safe
<1>1. ASSUME rows'[c] # rows[c] \/ Work(c) PROVE Work(c)' \/ Current(c)'
  BY <1>1, WorkGoesOn DEF Removed
<1>2. ASSUME Overtaken(c) PROVE Overtaken(c)' \/ Work(c)'
  BY <1>2, WorkGoesOn, StepShape DEF Overtaken, Exists
\* The entry was there before.
<1>3. ASSUME slugOf'[c] = slugOf[c], bySlug[slugOf[c]] = c, Current(c) => Current(c)' \/ rows'[c] # rows[c]
      PROVE  \/ rows'[c] = [slug |-> slugOf'[c], enabled |-> TRUE]
             \/ Overtaken(c)' \/ Work(c)' \/ Current(c)'
  BY <1>1, <1>2, <1>3 DEF EntryIsFollowed
<1>4. CASE UNCHANGED indexVars /\ (Current(c) => Current(c)' \/ rows'[c] # rows[c])
  BY <1>3, <1>4 DEF indexVars
<1>5. ASSUME NEW r \in Reqs, Remove(r), target[r] = c PROVE FALSE
  BY <1>5, RowFacts, RouteOfItself DEF Remove
<1>6. CASE ReconcileRoute /\ loopId = c
  <2>1. SetRoute(c, loopRow) /\ loopRow \in Rows /\ rows' = rows
    BY <1>6 DEF ReconcileRoute, TypeOK, rowVars
  <2>2. loopRow.enabled /\ slugOf'[c] = loopRow.slug
    BY <2>1, RouteOfItself, RowFacts
  <2>3. loopRow = [slug |-> slugOf'[c], enabled |-> TRUE]
    BY <2>1, <2>2, RowFacts DEF Rows, Row
  <2> QED BY <1>1, <1>2, <1>6, <2>1, <2>3 DEF StaleIsFollowed
<1>7. ASSUME rows' = rows, Current(c) => Current(c)', NEW d \in Ids \ {c}, NEW row \in Rows, SetRoute(d, row)
      PROVE  \/ rows'[c] = [slug |-> slugOf'[c], enabled |-> TRUE]
             \/ Overtaken(c)' \/ Work(c)' \/ Current(c)'
  <2>1. slugOf'[c] = slugOf[c] /\ slugOf[c] \in Slugs
    BY <1>7, RouteOfOthers DEF TypeOK
  <2>2. bySlug[slugOf[c]] = c
    BY <1>7, <2>1, RouteOfOthers
  <2> QED BY <1>3, <1>7, <2>1, <2>2
<1> QED BY <1>4, <1>5, <1>6, <1>7, IndexWriters

LEMMA RowNext ==
  Safe /\ Held /\ StaleIsFollowed /\ RowIsFollowed /\ Next => RowIsFollowed'
<1> SUFFICES ASSUME Safe, Held, StaleIsFollowed, RowIsFollowed, Next,
                    NEW c \in Ids, rows'[c].enabled, heldBy'[rows'[c].slug] = {c}, c \notin recycled'
             PROVE  bySlug'[rows'[c].slug] = c \/ Work(c)' \/ Current(c)'
  BY DEF RowIsFollowed
<1> USE DEF Safe
<1>1. CASE rows'[c] # rows[c]
  BY <1>1, WorkGoesOn
<1>2. CASE rows'[c] = rows[c]
  <2> DEFINE s == rows[c].slug
  <2>1. Exists(c) /\ Exists(c)' /\ s \in Slugs
    BY <1>2, RowFacts DEF Exists, TypeOK
  <2>2. heldBy[s] = {c} /\ c \notin recycled
    BY <1>2, <2>1, StepShape DEF Held
  <2>3. Work(c) => Work(c)' \/ Current(c)'
    BY <2>1, WorkGoesOn DEF Removed, Exists
  <2>4. bySlug[s] = c \/ Work(c) \/ Current(c)
    BY <1>2, <2>2 DEF RowIsFollowed
  <2>5. CASE UNCHANGED indexVars /\ (Current(c) => Current(c)' \/ rows'[c] # rows[c])
    BY <1>2, <2>3, <2>4, <2>5 DEF indexVars
  <2>6. ASSUME NEW r \in Reqs, Remove(r), target[r] = c PROVE FALSE
    BY <2>1, <2>2, <2>6 DEF Remove, Held, InHand
  <2>7. CASE ReconcileRoute /\ loopId = c
    <3>1. SetRoute(c, loopRow) /\ loopRow \in Rows
      BY <2>7 DEF ReconcileRoute, TypeOK
    <3>2. CASE loopRow = rows[c]
      BY <1>2, <3>1, <3>2, RouteOfItself
    <3>3. CASE loopRow # rows[c]
      BY <2>1, <2>3, <2>7, <3>3 DEF StaleIsFollowed, Overtaken
    <3> QED BY <3>2, <3>3
  <2>8. ASSUME Current(c) => Current(c)', NEW d \in Ids \ {c}, NEW row \in Rows, SetRoute(d, row),
               row # NoRow => d \in heldBy[row.slug]
        PROVE  bySlug'[s] = c \/ Work(c)' \/ Current(c)'
    <3>1. row.slug # s
      BY <2>1, <2>2, <2>8, RowFacts, NoSlugApart
    <3>2. bySlug[s] = c => bySlug'[s] = c
      BY <2>1, <2>8, <3>1, RouteOfOthers
    <3> QED BY <2>3, <2>4, <2>8, <3>2
  <2> QED BY <1>2, <2>5, <2>6, <2>7, <2>8, IndexWriters
<1> QED BY <1>1, <1>2

\* An event that does not push a "channel" event out of the queue takes nothing from the browser.
LEMMA DeliverShows ==
  ASSUME TypeOK, NEW event \in Event, Deliver(event), ~dropped'
  PROVE  /\ ~dropped
         /\ event.kind = "channel" => \A row \in Rows : row = event.row => WillShow(row)'
         /\ event.kind # "channel" => \A row \in Rows : WillShow(row) => WillShow(row)'
<1>1. inbox \in Seq(Event) /\ Len(inbox) \in Nat /\ Len(inbox) <= QueueSize /\ QueueSize \in Nat \ {0}
  BY QueueHolds DEF TypeOK
<1>2. ~dropped /\ shown' = shown
  BY DEF Deliver
<1>3. PICK k \in {0, 1} :
        /\ Len(inbox') = Len(inbox) + 1 - k
        /\ inbox'[Len(inbox) + 1 - k] = event
        /\ \A i \in 1..(Len(inbox) - k) : inbox'[i] = inbox[i + k]
        /\ k = 1 => 1 \in 1..Len(inbox) /\ inbox[1].kind # "channel"
  <2>1. CASE Len(inbox) < QueueSize
    <3>1. inbox' = Append(inbox, event)
      BY <2>1 DEF Deliver
    <3>2. /\ Len(inbox') = Len(inbox) + 1 /\ inbox'[Len(inbox) + 1] = event
          /\ \A i \in 1..Len(inbox) : inbox'[i] = inbox[i]
      BY <1>1, <3>1
    <3>3. WITNESS 0 \in {0, 1}
    <3> QED BY <1>1, <3>2
  <2>2. CASE Len(inbox) = QueueSize
    <3>1. inbox' = Append(Tail(inbox), event)
      BY <1>1, <2>2 DEF Deliver
    <3>a. dropped' = (dropped \/ Head(inbox).kind = "channel")
      BY <2>2 DEF Deliver
    <3>b. Head(inbox).kind # "channel"
      BY <3>a
    <3>2. Tail(inbox) \in Seq(Event) /\ Len(Tail(inbox)) = Len(inbox) - 1 /\ Head(inbox) = inbox[1]
          /\ \A i \in 1..(Len(inbox) - 1) : Tail(inbox)[i] = inbox[i + 1]
      BY <1>1, <2>2
    <3>3. /\ Len(inbox') = Len(inbox) /\ inbox'[Len(inbox)] = event
          /\ \A i \in 1..(Len(inbox) - 1) : inbox'[i] = inbox[i + 1]
      BY <1>1, <2>2, <3>1, <3>2
    <3>4. WITNESS 1 \in {0, 1}
    <3> QED BY <1>1, <2>2, <3>b, <3>2, <3>3
  <2> QED BY <1>1, <2>1, <2>2
<1>4. ASSUME event.kind = "channel", NEW row \in Rows, row = event.row PROVE WillShow(row)'
  <2>a. Len(inbox) + 1 - k \in Nat
    BY <1>1, k \in {0, 1}
  <2>1. PICK n \in Nat : n = Len(inbox) + 1 - k
    BY <2>a
  <2>2. n \in 1..Len(inbox') /\ Len(inbox') = n /\ inbox'[n] = event
    BY <1>1, <1>3, <2>1
  <2>3. LastAt(n)'
    BY <2>2 DEF LastAt
  <2> QED BY <1>4, <2>2, <2>3 DEF WillShow
<1>5. ASSUME event.kind # "channel", NEW row \in Rows, WillShow(row) PROVE WillShow(row)'
  <2>1. ASSUME NEW i \in Nat, NEW n \in Nat, LastAt(i), n + k = i \/ (n = 0 /\ i = 0)
        PROVE  LastAt(n)'
    <3> SUFFICES ASSUME NEW j \in 1..Len(inbox'), j > n PROVE inbox'[j].kind # "channel"
      BY DEF LastAt
    <3>1. CASE j = Len(inbox) + 1 - k
      BY <1>3, <1>5, <3>1
    <3>2. CASE j # Len(inbox) + 1 - k
      <4>1. j \in 1..(Len(inbox) - k) /\ j + k \in 1..Len(inbox) /\ j + k > i
        BY <1>1, <1>3, <2>1, <3>2
      <4> QED BY <1>3, <2>1, <4>1 DEF LastAt
    <3> QED BY <3>1, <3>2
  <2>2. CASE shown = row /\ LastAt(0)
    <3>1. LastAt(0)'
      BY <2>1, <2>2
    <3> QED BY <1>2, <2>2, <3>1 DEF WillShow
  <2>3. ASSUME NEW i \in 1..Len(inbox), inbox[i].kind = "channel", inbox[i].row = row, LastAt(i)
        PROVE  WillShow(row)'
    <3>1. i - k \in 1..(Len(inbox) - k)
      BY <1>1, <1>3, <2>3
    <3>a. i - k \in Nat /\ i - k + k = i
      BY <1>1, k \in {0, 1}, <3>1
    <3>3. PICK n \in Nat : n = i - k /\ n + k = i
      BY <3>a
    <3>4. LastAt(n)'
      BY <2>1, <2>3, <3>3
    <3>b. inbox'[n] = inbox[n + k]
      BY <1>3, <3>1, <3>3
    <3>c. n \in 1..Len(inbox')
      BY <1>1, <1>3, <3>1, <3>3
    <3>2. inbox'[n] = inbox[i] /\ n \in 1..Len(inbox')
      BY <3>3, <3>b, <3>c
    <3> QED BY <2>3, <3>2, <3>3, <3>4 DEF WillShow
  <2> QED BY <1>5, <2>2, <2>3 DEF WillShow
<1> QED BY <1>2, <1>4, <1>5

LEMMA ReceiveShows ==
  ASSUME TypeOK, Receive, NEW row, WillShow(row)
  PROVE  WillShow(row)'
<1>1. /\ Len(inbox) \in Nat \ {0} /\ Len(inbox') = Len(inbox) - 1 /\ Head(inbox) = inbox[1]
      /\ \A i \in 1..Len(inbox') : inbox'[i] = inbox[i + 1]
      /\ shown' = IF inbox[1].kind = "channel" THEN inbox[1].row ELSE shown
  BY DEF Receive, TypeOK
<1>2. ASSUME NEW i \in Nat, LastAt(i) PROVE LastAt(IF i = 0 THEN 0 ELSE i - 1)'
  BY <1>1, <1>2 DEF LastAt
<1>3. CASE shown = row /\ LastAt(0)
  <2>1. LastAt(0)'
    BY <1>2, <1>3
  <2>2. inbox[1].kind # "channel"
    BY <1>1, <1>3 DEF LastAt
  <2> QED BY <1>1, <1>3, <2>1, <2>2 DEF WillShow
<1>4. ASSUME NEW i \in 1..Len(inbox), inbox[i].kind = "channel", inbox[i].row = row, LastAt(i)
      PROVE  WillShow(row)'
  <2>1. LastAt(i - 1)'
    BY <1>1, <1>2, <1>4
  <2>2. CASE i = 1
    BY <1>1, <1>4, <2>1, <2>2 DEF WillShow
  <2>3. CASE i # 1
    BY <1>1, <1>4, <2>1, <2>3 DEF WillShow
  <2> QED BY <2>2, <2>3
<1> QED BY <1>3, <1>4 DEF WillShow

LEMMA ShowNext == Safe /\ ShowIsFollowed /\ Next => ShowIsFollowed'
<1> DEFINE Views == \A r \in Reqs :
              target[r] = Watched /\ pc[r] \in {"publish", "notify"} => view[r] = rows[Watched]
           Coming == unread \/ Busy(Watched, {"publish", "notify"})
<1> SUFFICES ASSUME Safe, ShowIsFollowed, Next,
                    Exists(Watched)', Watched \notin recycled', ~crossed', ~dropped'
             PROVE  Views' /\ (WillShow(rows[Watched])' \/ Coming')
  BY DEF ShowIsFollowed
<1> USE DEF Safe, TypeOK, loopVars, rowVars, requestVars, browserVars, failureVars
<1>a. Watched \in Ids
  BY IdBound
\* The row is the same, and so is what the browser has been sent.
<1>b. ASSUME rows'[Watched] = rows[Watched], ~crossed, ~dropped
      PROVE  Views /\ (WillShow(rows[Watched]) \/ Coming)
  BY <1>b, StepShape DEF ShowIsFollowed, Exists
<1>c. ASSUME UNCHANGED browserVars, WillShow(rows[Watched]), rows'[Watched] = rows[Watched]
      PROVE  WillShow(rows[Watched])'
  BY <1>c DEF WillShow, LastAt
<1>d. ASSUME NEW c \in Ids, NEW row, WriteRow(c, row)
      PROVE  /\ ~crossed /\ (c = Watched => ~Busy(Watched, {"publish", "notify"}))
             /\ c # Watched => rows'[Watched] = rows[Watched] /\ unread' = unread
             /\ c = Watched => unread'
  BY <1>a, <1>d DEF WriteRow
\* A request that neither was nor comes near the event of this channel.
<1>e. ASSUME NEW r \in Reqs, pc[r] \notin {"publish", "notify"} \/ target[r] # Watched,
             pc'[r] \notin {"publish", "notify"} \/ target'[r] # Watched,
             \A q \in Reqs \ {r} : UNCHANGED <<pc[q], target[q], view[q]>>,
             UNCHANGED <<browserVars, unread>>, rows'[Watched] = rows[Watched], ~crossed
      PROVE  Views' /\ (WillShow(rows[Watched])' \/ Coming')
  <2>1. Views /\ (WillShow(rows[Watched]) \/ Coming)
    BY <1>b, <1>e
  <2>2. Views'
    BY <1>e, <2>1
  <2>3. Coming => Coming'
    BY <1>e DEF Busy
  <2> QED BY <1>c, <1>e, <2>1, <2>2, <2>3
<1>1. ASSUME NEW r \in Reqs, NEW c \in Ids, NEW row \in Row, Create(r, c, row)
      PROVE  Views' /\ (WillShow(rows[Watched])' \/ Coming')
  <2>1. WriteRow(c, row) /\ UNCHANGED <<browserVars, view>> /\ pc[r] = "idle"
        /\ pc' = [pc EXCEPT ![r] = "refresh"] /\ target' = [target EXCEPT ![r] = c]
    BY <1>1 DEF Create, Move
  <2>2. CASE c = Watched
    <3>1. Coming'
      BY <1>d, <2>1, <2>2
    <3>2. Views'
      BY <1>d, <2>1, <2>2 DEF Busy
    <3> QED BY <3>1, <3>2
  <2>3. CASE c # Watched
    BY <1>d, <1>e, <2>1, <2>3
  <2> QED BY <2>2, <2>3
<1>2. ASSUME NEW r \in Reqs, NEW c \in Ids, NEW ask, NEW where \in {"update", "delete"},
             Load(r, c, ask, where)
      PROVE  Views' /\ (WillShow(rows[Watched])' \/ Coming')
  <2>1. UNCHANGED <<rows, crossed, unread, browserVars>> /\ pc[r] = "idle" /\ pc' = [pc EXCEPT ![r] = where]
        /\ target' = [target EXCEPT ![r] = c] /\ view' = [view EXCEPT ![r] = rows[c]]
    BY <1>2 DEF Load, Move
  <2> QED BY <1>e, <2>1
<1>3. ASSUME NEW r \in Reqs, CommitUpdate(r)
      PROVE  Views' /\ (WillShow(rows[Watched])' \/ Coming')
  <2>1. pc[r] = "update" /\ UNCHANGED browserVars /\ target[r] \in Ids
    BY <1>3 DEF CommitUpdate, Targeted
  <2>2. ASSUME WriteRow(target[r], Updated(r)), Move(r, "refresh"), UNCHANGED target,
               view' = [view EXCEPT ![r] = NoRow]
        PROVE  Views' /\ (WillShow(rows[Watched])' \/ Coming')
    <3>1. CASE target[r] = Watched
      <4>1. Coming'
        BY <1>d, <2>1, <2>2, <3>1
      <4>2. Views'
        BY <1>d, <2>1, <2>2, <3>1 DEF Busy, Move
      <4> QED BY <4>1, <4>2
    <3>2. CASE target[r] # Watched
      <4>1. ~crossed /\ rows'[Watched] = rows[Watched] /\ unread' = unread
        BY <1>d, <2>1, <2>2, <3>2
      <4> QED BY <1>e, <2>1, <2>2, <3>2, <4>1 DEF Move
    <3> QED BY <3>1, <3>2
  <2>3. ASSUME End(r), UNCHANGED rowVars
        PROVE  Views' /\ (WillShow(rows[Watched])' \/ Coming')
    BY <1>e, <2>1, <2>3 DEF End, Move
  <2> QED BY <1>3, <2>2, <2>3 DEF CommitUpdate
<1>4. ASSUME NEW r \in Reqs, CommitDelete(r)
      PROVE  Views' /\ (WillShow(rows[Watched])' \/ Coming')
  <2>1. target[r] \in Ids /\ pc[r] = "delete" /\ pc' = [pc EXCEPT ![r] = "remove"]
        /\ UNCHANGED <<target, browserVars>> /\ WriteRow(target[r], NoRow)
        /\ view' = [view EXCEPT ![r] = NoRow]
    BY <1>4 DEF CommitDelete, Targeted, Move
  <2>2. target[r] # Watched
    BY <1>a, <2>1, WriteKeeps DEF Exists
  <2>3. ~crossed /\ rows'[Watched] = rows[Watched] /\ unread' = unread
    BY <1>d, <2>1, <2>2
  <2> QED BY <1>e, <2>1, <2>2, <2>3
<1>5. ASSUME NEW r \in Reqs, Refresh(r)
      PROVE  Views' /\ (WillShow(rows[Watched])' \/ Coming')
  <2>1. /\ pc[r] = "refresh" /\ UNCHANGED <<rows, crossed, browserVars, target>>
        /\ pc' = [pc EXCEPT ![r] = "publish"] /\ view' = [view EXCEPT ![r] = rows[target[r]]]
        /\ target[r] # Watched => unread' = unread
    BY <1>5 DEF Refresh, Move
  <2>2. CASE target[r] = Watched
    <3>1. Views
      BY <1>b, <2>1
    <3>2. Views'
      BY <2>1, <2>2, <3>1
    <3>3. Coming'
      BY <2>1, <2>2 DEF Busy
    <3> QED BY <3>2, <3>3
  <2>3. CASE target[r] # Watched
    BY <1>e, <2>1, <2>3
  <2> QED BY <2>2, <2>3
<1>5a. ASSUME NEW r \in Reqs, RefreshFails(r)
      PROVE  Views' /\ (WillShow(rows[Watched])' \/ Coming')
  BY <1>5a, <1>e DEF RefreshFails, Move, End
<1>6. ASSUME NEW r \in Reqs, Publish(r)
      PROVE  Views' /\ (WillShow(rows[Watched])' \/ Coming')
  <2>1. pc[r] = "publish" /\ UNCHANGED <<rows, crossed, unread, browserVars, target, view>>
        /\ pc' = [pc EXCEPT ![r] = "notify"]
    BY <1>6 DEF Publish, Move
  <2>2. Views /\ (WillShow(rows[Watched]) \/ Coming)
    BY <1>b, <2>1
  <2>3. Views'
    BY <2>1, <2>2
  <2>4. Coming => Coming'
    BY <2>1 DEF Busy
  <2> QED BY <1>c, <2>1, <2>2, <2>3, <2>4
<1>7. ASSUME NEW r \in Reqs, Notify(r)
      PROVE  Views' /\ (WillShow(rows[Watched])' \/ Coming')
  <2>1. pc[r] = "notify" /\ UNCHANGED <<rows, crossed, unread>> /\ End(r)
    BY <1>7 DEF Notify
  <2>2. CASE target[r] = Watched
    <3>1. PICK row \in Rows : row = view[r]
      BY DEF TypeOK
    <3>2. PICK event \in Event : event = [kind |-> "channel", row |-> row]
      BY DEF Event
    <3>3. Deliver(event) /\ event.kind = "channel" /\ event.row = row
      BY <1>7, <2>2, <3>1, <3>2 DEF Notify
    <3>a. ~dropped /\ WillShow(row)'
      BY <3>3, DeliverShows
    <3>4. Views
      BY <1>b, <2>1, <3>a
    <3>b. rows'[Watched] = row
      BY <2>1, <2>2, <3>1, <3>4
    <3>5. WillShow(rows[Watched])'
      BY <3>a, <3>b DEF WillShow
    <3>6. Views'
      BY <1>a, <2>1, <3>4, RowFacts DEF End, Move
    <3> QED BY <3>5, <3>6
  <2>3. CASE target[r] # Watched
    BY <1>7, <1>e, <2>1, <2>3 DEF Notify, Move, End
  <2> QED BY <2>2, <2>3
<1>8. ASSUME NEW r \in Reqs, Remove(r)
      PROVE  Views' /\ (WillShow(rows[Watched])' \/ Coming')
  BY <1>8, <1>e DEF Remove, Move, End
<1>9. ASSUME UNCHANGED <<rowVars, requestVars, browserVars>>
      PROVE  Views' /\ (WillShow(rows[Watched])' \/ Coming')
  BY <1>b, <1>c, <1>9 DEF Busy
<1>10. CASE ReconcileRoute \/ \E c \in Ids : ReconcileRead(c) \/ ReconcileFails(c) \/ OtherReconcile(c)
  BY <1>9, <1>10 DEF ReconcileRoute, ReconcileRead, ReconcileFails, OtherReconcile
<1>11. CASE OtherEvent
  <2> DEFINE event == [kind |-> "other", row |-> NoRow]
  <2>1. event \in Event /\ event.kind # "channel"
    BY RowFacts DEF Event
  <2>2. Deliver(event) /\ UNCHANGED <<rowVars, requestVars>>
    BY <1>11 DEF OtherEvent
  <2> HIDE DEF event
  <2>3. ~dropped /\ \A row \in Rows : WillShow(row) => WillShow(row)'
    BY <2>1, <2>2, DeliverShows
  <2>4. Views /\ (WillShow(rows[Watched]) \/ Coming)
    BY <1>b, <2>2, <2>3
  <2>5. Views' /\ (Coming => Coming')
    BY <2>2, <2>4 DEF Busy
  <2>6. PICK row \in Rows : row = rows[Watched]
    BY <1>a
  <2>7. WillShow(row) => WillShow(rows[Watched])'
    BY <2>2, <2>3, <2>6 DEF WillShow
  <2> QED BY <2>4, <2>5, <2>6, <2>7
<1>12. CASE Receive
  <2>1. UNCHANGED <<rowVars, requestVars, dropped>>
    BY <1>12 DEF Receive
  <2>2. Views /\ (WillShow(rows[Watched]) \/ Coming)
    BY <1>b, <2>1
  <2>3. Views' /\ (Coming => Coming')
    BY <2>1, <2>2 DEF Busy
  <2>4. PICK row \in Rows : row = rows[Watched]
    BY <1>a
  <2>5. WillShow(row) => WillShow(row)'
    BY <1>12, ReceiveShows
  <2>6. WillShow(row)' => WillShow(rows[Watched])'
    BY <2>1, <2>4 DEF WillShow
  <2> QED BY <2>2, <2>3, <2>4, <2>5, <2>6
<1> QED
  BY <1>1, <1>2, <1>3, <1>4, <1>5, <1>5a, <1>6, <1>7, <1>8, <1>10, <1>11, <1>12 DEF Next, RequestStep

\* Why what the manager has settled is right: the index, the browser, and everyone who is about
\* to change them.
Settled == Safe /\ Held /\ StaleIsFollowed /\ EntryIsFollowed /\ RowIsFollowed /\ ShowIsFollowed

LEMMA InitSettled == Init => Settled
<1> SUFFICES ASSUME Init PROVE Settled
  OBVIOUS
<1>a. Safe
  BY InitSafe
<1>b. rows \in InitRows /\ rows \in [Ids -> Rows] /\ Watched \in Ids
  BY <1>a, IdBound DEF Init, Safe, TypeOK
<1>c. /\ slugOf = [c \in Ids |-> IF rows[c].enabled THEN rows[c].slug ELSE NoSlug]
      /\ bySlug = [s \in Slugs |->
           IF \E c \in Ids : slugOf[c] = s THEN CHOOSE c \in Ids : slugOf[c] = s ELSE NoId]
      /\ heldBy = [s \in Slugs |-> {c \in Ids : rows[c].slug = s}]
      /\ pc = [r \in Reqs |-> "idle"] /\ view = [r \in Reqs |-> NoRow]
      /\ loopId = NoId /\ inbox = <<>> /\ shown = rows[Watched]
  BY DEF Init
\* A channel with a row has it under its own slug, which no other channel has.
<1>d. ASSUME NEW c \in Ids, rows[c] # NoRow
      PROVE  rows[c].slug \in Slugs /\ \A d \in Ids : rows[d].slug = rows[c].slug => d = c
  BY <1>b, <1>d, RowFacts, InitSlugsUnique
<1>1. Held
  <2>1. \A c \in Ids : Exists(c) => c \in heldBy[rows[c].slug]
    BY <1>c, <1>d DEF Exists
  <2>2. \A r \in Reqs : InHand(r)
    BY <1>c DEF InHand
  <2> QED BY <1>c, <2>1, <2>2 DEF Held
<1>2. StaleIsFollowed
  BY <1>c, RowFacts DEF StaleIsFollowed
<1>3. ASSUME NEW c \in Ids, slugOf[c] # NoSlug
      PROVE  rows[c] = [slug |-> slugOf[c], enabled |-> TRUE]
  <2>1. rows[c] \in Rows /\ rows[c].enabled = TRUE /\ rows[c].slug = slugOf[c]
    BY <1>b, <1>c, <1>3, RowFacts
  <2>2. rows[c] \in Row
    BY <2>1, RowFacts
  <2> QED BY <2>1, <2>2 DEF Row
<1>4. EntryIsFollowed
  BY <1>3 DEF EntryIsFollowed
<1>5. ASSUME NEW c \in Ids, rows[c].enabled PROVE bySlug[rows[c].slug] = c
  <2>1. rows[c] # NoRow /\ slugOf[c] = rows[c].slug /\ rows[c].slug \in Slugs
    BY <1>b, <1>c, <1>d, <1>5, RowFacts
  <2>2. ASSUME NEW d \in Ids, slugOf[d] = rows[c].slug PROVE d = c
    <3>1. rows[d].slug = rows[c].slug
      BY <1>c, <2>1, <2>2, NoSlugApart
    <3> QED BY <1>d, <2>1, <3>1
  <2> QED BY <1>c, <2>1, <2>2
<1>6. RowIsFollowed
  BY <1>5 DEF RowIsFollowed
<1>7. ShowIsFollowed
  BY <1>b, <1>c DEF ShowIsFollowed, WillShow, LastAt
<1> QED BY <1>a, <1>1, <1>2, <1>4, <1>6, <1>7 DEF Settled

LEMMA StepSettled == Settled /\ [Next]_vars => Settled'
<1> SUFFICES ASSUME Settled, [Next]_vars PROVE Settled'
  OBVIOUS
<1>1. Safe'
  BY StepSafe DEF Settled
<1>2. CASE Next
  BY <1>1, <1>2, HeldNext, StaleNext, EntryNext, RowNext, ShowNext DEF Settled
<1>3. CASE UNCHANGED vars
  <2> USE <1>3 DEF Settled, vars, rowVars, indexVars, requestVars, loopVars, browserVars, failureVars,
                   Exists, Busy, Work, Overtaken, Current
  <2>1. Held'
    BY DEF Held, InHand, Known
  <2>2. StaleIsFollowed' /\ EntryIsFollowed' /\ RowIsFollowed'
    BY DEF StaleIsFollowed, EntryIsFollowed, RowIsFollowed
  <2>3. ShowIsFollowed'
    BY DEF ShowIsFollowed, WillShow, LastAt
  <2> QED BY <1>1, <2>1, <2>2, <2>3
<1> QED BY <1>2, <1>3

\* Nobody is going to look at a row.
LEMMA NoWorkAtRest ==
  ASSUME Safe, AtRest, NEW c \in Ids, c \notin missed
  PROVE  ~Work(c) /\ ~Current(c)
<1>1. pending[c] = 0 /\ ~Busy(c, {"publish", "notify"}) /\ ~Busy(c, {"refresh"}) /\ ~Busy(c, {"remove"})
  BY DEF AtRest, Busy
<1>2. loopId # c
  BY RowFacts DEF AtRest
<1> QED BY <1>1, <1>2 DEF Work, Current

\* Once everything has settled, a slug leads only to a channel that has it and is enabled, to one
\* that was deleted under a reconcile that had read its row (playback.py:353), or to one whose
\* change nobody entered because a refresh or a reconcile failed (admin.py:386).
THEOREM SettledIndexIsRight == Spec => []NoGhostRoute
<1>1. ASSUME Settled PROVE NoGhostRoute
  <2> SUFFICES ASSUME AtRest, NEW s \in Slugs, bySlug[s] # NoId
               PROVE  \/ rows[bySlug[s]] = [slug |-> s, enabled |-> TRUE]
                      \/ ~Exists(bySlug[s]) /\ bySlug[s] \in overtaken
                      \/ bySlug[s] \in missed
    BY DEF NoGhostRoute
  <2>1. bySlug[s] \in Ids /\ slugOf[bySlug[s]] = s /\ s # NoSlug
    BY <1>1, NoSlugApart DEF Settled, Safe, TypeOK, OneSlugEach
  <2>2. bySlug[s] \notin missed => ~Work(bySlug[s]) /\ ~Current(bySlug[s])
    BY <1>1, <2>1, NoWorkAtRest DEF Settled
  <2> QED BY <1>1, <2>1, <2>2 DEF Settled, EntryIsFollowed, Overtaken
<1> QED BY <1>1, InitSettled, StepSettled, PTL DEF Spec

\* Once everything has settled, an enabled channel whose slug and id were never those of another
\* channel is reached under its slug, unless a refresh or a reconcile of it failed and no other
\* followed (playback.py:327, routers/admin.py:346, 386).
THEOREM SettledIndexIsComplete == Spec => []EnabledIsReachable
<1>1. ASSUME Settled PROVE EnabledIsReachable
  <2>1. ASSUME AtRest, NEW c \in Ids, c \notin missed PROVE ~Work(c) /\ ~Current(c)
    BY <1>1, <2>1, NoWorkAtRest DEF Settled
  <2> QED BY <1>1, <2>1 DEF Settled, RowIsFollowed, EnabledIsReachable
<1> QED BY <1>1, InitSettled, StepSettled, PTL DEF Spec

\* A browser that has read all its events shows the row of its channel, unless an event was
\* pushed out of its queue, two requests crossed, or none could read the row back (events.py:21).
THEOREM BrowserIsRight == Spec => []BrowserShowsRow
<1>1. ASSUME Settled PROVE BrowserShowsRow
  <2> SUFFICES ASSUME AtRest, inbox = <<>>, Exists(Watched), Watched \notin recycled,
                      ~crossed, ~dropped, ~unread
               PROVE  shown = rows[Watched]
    BY DEF BrowserShowsRow
  <2>1. ~Busy(Watched, {"publish", "notify"})
    BY DEF AtRest, Busy
  <2>2. WillShow(rows[Watched])
    BY <1>1, <2>1 DEF Settled, ShowIsFollowed
  <2> QED BY <2>2 DEF WillShow
<1> QED BY <1>1, InitSettled, StepSettled, PTL DEF Spec
=============================================================================
