------------------------------- MODULE Timeline -------------------------------
(***************************************************************************)
(* The persisted logical timeline of one channel: recovering it from the   *)
(* wall clock, choosing the next item in sequence or in shuffled rounds,   *)
(* forcing an item, and the playlist edits in between.                     *)
(*                                                                         *)
(* recover_timeline() is one transaction; its loop over the tracks is      *)
(* modelled step by step on local copies, and nothing else happens before  *)
(* it commits or raises.  Seconds are integers.                            *)
(*                                                                         *)
(* The specification has names of its own, so that this module and         *)
(* ChannelRuntime, which models the same channel, can be used together.    *)
(***************************************************************************)
EXTENDS Integers, Sequences, FiniteSets

CONSTANTS
  Playlist,     \* the playlist items, in their first order
  NoItem,
  Duration,     \* item -> its track's duration
  Edited,       \* bound: the items taken off the playlist and put back
  MaxElapsed    \* bound: seconds between two anchors, and of a position

InSeq(s) == {s[i] : i \in DOMAIN s}
Items == InSeq(Playlist)

ASSUME NoItemNew == NoItem \notin Items
ASSUME ItemsFinite == IsFiniteSet(Items) /\ Edited \subseteq Items
ASSUME PlaylistOfItems ==
  Playlist \in Seq(Items) /\ \A i, j \in DOMAIN Playlist : Playlist[i] = Playlist[j] => i = j
ASSUME DurationsPositive == Duration \in [Items -> Nat \ {0}]
ASSUME ElapsedBound == MaxElapsed \in Nat

VARIABLES
  mode,        \* Channel.playback_mode
  list,        \* the playlist in order of position
  available,   \* items whose track is available
  cur,         \* state.current_item_id
  pos,         \* state.position_seconds
  elapsed,     \* now - state.anchor_at, 0 when the clock went back
  clock,       \* state.status: running (starting, live, degraded), idle (or offline), stopped
  order,       \* state.shuffle_order
  cursor,      \* state.shuffle_cursor, counted from 1
  fresh,       \* state.playlist_version = channel.playlist_version
  walk         \* the local variables of a recovery under way

timelineVars == <<mode, list, available, cur, pos, elapsed, clock, order, cursor, fresh, walk>>
editVars == <<mode, list, available>>

-----------------------------------------------------------------------------
IndexOf(s, x) == CHOOSE i \in DOMAIN s : s[i] = x

\* The elements of s that are in S, in their order.
Kept(s, S) ==
  LET kept[i \in 0..Len(s)] ==
        IF i = 0 THEN <<>> ELSE IF s[i] \in S THEN Append(kept[i - 1], s[i]) ELSE kept[i - 1]
  IN  kept[Len(s)]

\* _available(): the playable items, in playlist order.
Playable == Kept(list, available)
Ids == InSeq(Playable)

\* All orders of a set.
Orders(S) == {f \in [1..Cardinality(S) -> S] : InSeq(f) = S}

\* Mutant: a round may begin with the item that ended the last one.
NewShuffleAnyFirst(S, previous) == Orders(S)

\* _new_shuffle(): not beginning with the previous item unless there is no other.
NewShuffle(S, previous) ==
  {f \in Orders(S) : Cardinality(S) > 1 => f[1] # previous}

\* Mutant: an order of the right version is kept although items are missing in it.
NormalizedByVersion(o, c, current, isFresh) ==
  LET kept == Kept(o, Ids)
  IN  IF isFresh /\ kept # <<>>
      THEN {[order |-> kept, cursor |-> IF c < Len(kept) THEN c ELSE Len(kept)]}
      ELSE {[order |-> f, cursor |-> 1] : f \in Orders(Ids)}

\* _normalize_shuffle(): the orders and cursors it may leave behind.
Normalized(o, c, current, isFresh) ==
  LET kept == Kept(o, Ids)
  IN  IF isFresh /\ InSeq(kept) = Ids
      THEN {[order |-> kept, cursor |-> IF c < Len(kept) THEN c ELSE Len(kept)]}
      ELSE IF current \in Ids
      THEN {[order |-> <<current>> \o f, cursor |-> 1] : f \in Orders(Ids \ {current})}
      ELSE {[order |-> f, cursor |-> 1] : f \in Orders(Ids)}

\* What comes after an item in a shuffled order, or in a new one when this one is over.
Following(n, current) ==
  LET at == IF current \in InSeq(n.order) THEN IndexOf(n.order, current) ELSE n.cursor
  IN  IF at < Len(n.order)
      THEN {[item |-> n.order[at + 1], order |-> n.order, cursor |-> at + 1]}
      ELSE {[item |-> f[1], order |-> f, cursor |-> 1] : f \in NewShuffle(Ids, current)}

\* What comes after an item in the playlist.
NextInList(current) ==
  LET at == IF current \in Ids THEN IndexOf(Playable, current) ELSE 0
  IN  Playable[(at % Len(Playable)) + 1]

\* select_next(): the next item and what it makes of the shuffled order.
SelectNext(o, c, current, isFresh) ==
  IF mode = "shuffle"
  THEN UNION {Following(n, current) : n \in Normalized(o, c, current, isFresh)}
  ELSE {[item |-> NextInList(current), order |-> o, cursor |-> c]}

\* The first playable item after a stale one in a sequence, looking all around it.
NextAround(s, stale) ==
  LET start == IndexOf(s, stale)
      At(k) == s[((start - 1 + k) % Len(s)) + 1]
      k == CHOOSE k \in 1..Len(s) : At(k) \in Ids /\ \A j \in 1..(k - 1) : At(j) \notin Ids
  IN  At(k)

\* Mutant: the round counts the tracks that cannot be played.
CycleOfAll == LET d[i \in 0..Len(list)] == IF i = 0 THEN 0 ELSE d[i - 1] + Duration[list[i]]
              IN  d[Len(list)]

\* The playable items laid end to end: when each of them ends, and the length of one round.
Ends[i \in 0..Len(Playable)] == IF i = 0 THEN 0 ELSE Ends[i - 1] + Duration[Playable[i]]
CycleLength == Ends[Len(Playable)]

NoWalk == [at |-> NoItem, off |-> 0, left |-> 0, order |-> <<>>, cursor |-> 1, fresh |-> FALSE]
Walking == walk # NoWalk

TimelineTypeOK ==
  /\ mode \in {"sequential", "shuffle"}
  /\ list \in Seq(Items) /\ order \in Seq(Items)
  /\ available \subseteq Items
  /\ cur \in Items \union {NoItem}
  /\ pos \in Nat /\ elapsed \in 0..MaxElapsed /\ cursor \in Nat \ {0}
  /\ clock \in {"running", "idle", "stopped"} /\ fresh \in BOOLEAN
  /\ walk \in [at : Items \union {NoItem}, off : Nat, left : Nat, order : Seq(Items),
               cursor : Nat \ {0}, fresh : BOOLEAN]

-----------------------------------------------------------------------------
TimelineInit ==
  /\ mode \in {"sequential", "shuffle"}
  /\ list = Playlist
  /\ available = Items
  /\ cur = NoItem /\ pos = 0 /\ elapsed = 0 /\ clock = "idle"
  /\ order = <<>> /\ cursor = 1 /\ fresh = FALSE
  /\ walk = NoWalk

\* ----- recover_timeline() -----

\* The item to start from and the seconds to walk.
Recover ==
  /\ ~Walking /\ Ids # {}
  /\ LET late == pos + (IF clock = "stopped" THEN 0 ELSE elapsed)
         From(item, off, o, c, f) ==
           walk' = [at |-> item, off |-> off, left |-> Len(Playable), order |-> o,
                    cursor |-> c, fresh |-> f]
     IN  \/ /\ cur \in Ids
            /\ late < CycleLength \/ mode = "sequential"
            /\ From(cur, late % CycleLength, order, cursor, fresh)
         \/ /\ cur \in Ids
            /\ late >= CycleLength /\ mode = "shuffle"
            /\ \E f \in NewShuffle(Ids, cur) :
                 From(cur, late % CycleLength, f, IndexOf(f, cur), fresh)
         \/ /\ cur \notin Ids
            /\ cur \in InSeq(IF mode = "shuffle" THEN order ELSE list)
            /\ Ids \intersect InSeq(IF mode = "shuffle" THEN order ELSE list) # {}
            /\ From(NextAround(IF mode = "shuffle" THEN order ELSE list, cur), 0, order,
                    cursor, fresh)
         \/ /\ cur \notin InSeq(list)
            /\ mode = "sequential"
            /\ From(Playable[1], 0, order, cursor, fresh)
         \/ /\ cur \notin Ids /\ mode = "shuffle"
            /\ cur \notin InSeq(order) \/ Ids \intersect InSeq(order) = {}
            /\ \E n \in Normalized(order, cursor, NoItem, fresh) :
                 From(n.order[1], 0, n.order, 1, TRUE)
  /\ UNCHANGED <<editVars, cur, pos, elapsed, clock, order, cursor, fresh>>

\* One pass of the loop: the track is over, go on with the next one.
WalkOn ==
  /\ Walking /\ walk.left > 0 /\ walk.off >= Duration[walk.at]
  /\ \E n \in SelectNext(walk.order, walk.cursor, walk.at, walk.fresh) :
       walk' = [at |-> n.item, off |-> walk.off - Duration[walk.at], left |-> walk.left - 1,
                order |-> n.order, cursor |-> n.cursor,
                fresh |-> walk.fresh \/ mode = "shuffle"]
  /\ UNCHANGED <<editVars, cur, pos, elapsed, clock, order, cursor, fresh>>

\* The offset lies inside the track: commit.  The callers go on to starting or idle.
Arrive ==
  /\ Walking /\ walk.off < Duration[walk.at]
  /\ cur' = walk.at /\ pos' = walk.off
  /\ order' = walk.order /\ cursor' = walk.cursor
  /\ elapsed' = 0 /\ clock' \in {"running", "idle"} /\ fresh' = TRUE
  /\ walk' = NoWalk
  /\ UNCHANGED editVars

\* RuntimeError: the transaction is rolled back.
Raise ==
  /\ Walking /\ walk.left = 0 /\ walk.off >= Duration[walk.at]
  /\ walk' = NoWalk
  /\ UNCHANGED <<editVars, cur, pos, elapsed, clock, order, cursor, fresh>>

\* ----- the supervisor and the idle commands -----

\* force_timeline_item() after an order was settled on.
ForceItem(item, o, c) ==
  /\ \E n \in IF mode = "shuffle" THEN Normalized(o, c, item, fresh)
              ELSE {[order |-> o, cursor |-> c]} :
       order' = n.order /\ cursor' = n.cursor
  /\ cur' = item /\ pos' = 0 /\ elapsed' = 0 /\ fresh' = TRUE
  /\ UNCHANGED <<editVars, clock, walk>>

\* A finished or skipped track: select_next(), which leaves a shuffled order that is
\* up to date, and force_timeline_item().  A command to an idle channel recovers first.
Advance ==
  /\ ~Walking /\ Ids # {} /\ (clock = "running" \/ elapsed = 0)
  /\ \E n \in SelectNext(order, cursor, cur, fresh) :
       /\ cur' = n.item /\ order' = n.order /\ cursor' = n.cursor
       /\ pos' = 0 /\ elapsed' = 0 /\ fresh' = TRUE
  /\ UNCHANGED <<editVars, clock, walk>>

\* _selection_after() when nothing can be played any more.
AdvanceToNothing ==
  /\ ~Walking /\ Ids = {} /\ clock = "running"
  /\ cur' = NoItem /\ pos' = 0 /\ elapsed' = 0
  /\ UNCHANGED <<editVars, clock, order, cursor, fresh, walk>>

PlayNow(i) ==
  /\ ~Walking /\ i \in Ids
  /\ ForceItem(i, order, cursor)

\* Mutant: the checkpoint writes the position and leaves the anchor.
CheckpointKeepsAnchor ==
  /\ ~Walking /\ cur \in Ids /\ clock = "running"
  /\ pos + elapsed < Duration[cur]
  /\ pos' = pos + elapsed
  /\ UNCHANGED <<editVars, cur, elapsed, clock, order, cursor, fresh, walk>>

\* _checkpoint() while a track plays.
Checkpoint ==
  /\ ~Walking /\ cur \in Ids /\ clock = "running"
  /\ pos + elapsed < Duration[cur]
  /\ pos' = pos + elapsed /\ elapsed' = 0
  /\ UNCHANGED <<editVars, cur, clock, order, cursor, fresh, walk>>

\* _set_status("idle") when a supervisor is stopped: the position of a running track
\* moves with the anchor, also past the track's end.
SetIdle ==
  /\ ~Walking /\ pos + elapsed <= MaxElapsed
  /\ pos' = IF clock = "running" THEN pos + elapsed ELSE pos
  /\ elapsed' = 0 /\ clock' = "idle"
  /\ UNCHANGED <<editVars, cur, order, cursor, fresh, walk>>

\* _set_status() of any other status, and _begin_track(), move the anchor alone.
SetStatus(to) ==
  /\ ~Walking
  /\ clock' = to /\ elapsed' = 0
  /\ UNCHANGED <<editVars, cur, pos, order, cursor, fresh, walk>>

\* ----- time and administration -----

Tick ==
  /\ ~Walking /\ elapsed < MaxElapsed
  /\ elapsed' = elapsed + 1
  /\ UNCHANGED <<editVars, cur, pos, clock, order, cursor, fresh, walk>>

\* A file goes missing or fails to decode, or comes back: the version stays.
SetAvailable(i) ==
  /\ ~Walking
  /\ available' = IF i \in available THEN available \ {i} ELSE available \union {i}
  /\ UNCHANGED <<mode, list, cur, pos, elapsed, clock, order, cursor, fresh, walk>>

\* remove_playlist_item(): the current item's foreign key becomes NULL.
RemoveItem(i) ==
  /\ ~Walking /\ i \in InSeq(list)
  /\ list' = Kept(list, Items \ {i})
  /\ cur' = IF cur = i THEN NoItem ELSE cur
  /\ fresh' = FALSE
  /\ UNCHANGED <<mode, available, pos, elapsed, clock, order, cursor, walk>>

AddItem(i) ==
  /\ ~Walking /\ i \notin InSeq(list)
  /\ list' = Append(list, i) /\ fresh' = FALSE
  /\ UNCHANGED <<mode, available, cur, pos, elapsed, clock, order, cursor, walk>>

SwitchMode ==
  /\ ~Walking
  /\ mode' = IF mode = "shuffle" THEN "sequential" ELSE "shuffle"
  /\ fresh' = FALSE
  /\ UNCHANGED <<list, available, cur, pos, elapsed, clock, order, cursor, walk>>

-----------------------------------------------------------------------------
RecoverStep == Recover \/ WalkOn \/ Arrive \/ Raise

EditStep ==
  \/ SwitchMode
  \/ \E i \in Items : SetAvailable(i)
  \/ \E i \in Edited : RemoveItem(i) \/ AddItem(i)

TimelineNext ==
  \/ RecoverStep \/ Advance \/ AdvanceToNothing \/ Checkpoint \/ SetIdle \/ Tick \/ EditStep
  \/ \E i \in Items : PlayNow(i)
  \/ \E to \in {"running", "idle", "stopped"} : SetStatus(to)

TimelineSpec == TimelineInit /\ [][TimelineNext]_timelineVars

-----------------------------------------------------------------------------
\* Where a sequential timeline is in its round, whether it is at rest or being
\* recovered: the seconds of the tracks before the current one and inside it.
Phase ==
  LET item == IF Walking THEN walk.at ELSE cur
      off == IF Walking THEN walk.off ELSE pos + (IF clock = "stopped" THEN 0 ELSE elapsed)
  IN  (Ends[IndexOf(Playable, item) - 1] + off) % CycleLength

\* Recovering a sequential timeline moves neither the music nor the clock: however
\* often an idle channel is refreshed, checkpointed or restarted, it plays what it
\* would have played without (SPEC 5.4).
RecoveryKeepsPhase ==
  [][/\ mode = "sequential" /\ cur \in Ids
     /\ RecoverStep \/ Checkpoint \/ (clock = "running" /\ SetIdle)
     => Phase' = Phase]_timelineVars

\* Sequential recovery always lands inside a track, over any number of rounds.
SequentialNeverRaises == [][Raise => mode = "shuffle"]_timelineVars

\* No track follows itself, also not across two shuffled rounds (SPEC 5.2).
NoTrackTwiceInARow ==
  [][/\ WalkOn /\ Cardinality(Ids) > 1 => walk'.at # walk.at
     /\ Advance /\ Cardinality(Ids) > 1 => cur' # cur]_timelineVars

\* Whatever was edited since the last choice, a chosen item stands at the cursor of
\* a round that holds every playable item once (SPEC 5.2).
RoundIsAPermutation ==
  [][Advance /\ mode = "shuffle" =>
       /\ Len(order') = Cardinality(Ids) /\ InSeq(order') = Ids
       /\ order'[cursor'] = cur']_timelineVars

\* Recovery crosses any number of tracks and rounds (SPEC 5.4).
RecoveryAlwaysSucceeds == [][~Raise]_timelineVars
=============================================================================
