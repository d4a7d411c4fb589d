----------------------------- MODULE AudioFanout -----------------------------
(***************************************************************************)
(* One encoded channel stream and the connections that follow it           *)
(* (AudioFanout, AudioSubscription and FlacAudioFanout in                  *)
(* services/audio_streams.py, and the task that reads an encoder's output, *)
(* _track_output() in services/playback.py).                               *)
(*                                                                         *)
(* Nothing awaits inside the fanout, so each of its operations is a step.  *)
(* A byte of the stream is <<generation of the encoder, position>>, and a  *)
(* chunk is a sequence of bytes.  In FLAC the first HeaderSize bytes are   *)
(* the header without which the rest cannot be decoded.                    *)
(***************************************************************************)
EXTENDS Naturals, Sequences, SequencesExt

CONSTANTS
  Clients,     \* subscriptions, each of which is opened once
  HeaderSize,  \* bytes of the FLAC metadata
  TailLimit,   \* bytes that a later listener is given of what went before
  MaxBuffer,   \* _max_buffer_bytes
  MaxAge,      \* _max_buffer_seconds
  MaxChunk,    \* bound: bytes that one read returns
  MaxBytes,    \* bound: bytes of one encoder
  MaxEncoders, \* bound: encoders, one after the other
  MaxTime      \* bound: the clock

ASSUME LimitsPositive == MaxBuffer \in Nat \ {0} /\ MaxAge \in Nat \ {0} /\ TailLimit \in Nat \ {0}
ASSUME HeaderFits == HeaderSize \in Nat \ {0} /\ HeaderSize + TailLimit <= MaxBuffer
ASSUME Bounds ==
  /\ MaxChunk <= MaxBuffer
  /\ MaxChunk \in 1..MaxBytes /\ MaxEncoders \in Nat \ {0} /\ MaxTime \in Nat /\ MaxBytes \in Nat

VARIABLES
  flac,        \* whether this is the FLAC fanout or the AAC one
  encoder,     \* the encoder that was started last
  position,    \* bytes that it has published
  pump,        \* its output task: "reads", "drains" after the fanout was closed, or "ended"
  metadata, header, tail,  \* what the FLAC fanout keeps for the next listener
  subscribers, \* connections that a chunk is published to
  queue,       \* connection -> chunks it has not received; StreamClosed is the last one
  buffered,    \* connection -> bytes that the fanout counts in its queue
  published,   \* connection -> when the chunks in its queue were published
  state,       \* connection -> "new", "open", or "closed"
  received,    \* connection -> bytes it has received
  now,
  publishedAt  \* when the last chunk was published

streamVars == <<flac, encoder, position, pump>>
prefixVars == <<metadata, header, tail>>
subscriberVars == <<subscribers, queue, buffered, published>>
clientVars == <<state, received>>
vars == <<streamVars, prefixVars, subscriberVars, clientVars, now, publishedAt>>

Byte == (1..MaxEncoders) \X (1..MaxBytes)
Chunk == Seq(Byte)

\* No chunk is empty, so the empty one stands for the sentinel.
StreamClosed == <<>>

TypeOK ==
  /\ flac \in BOOLEAN /\ encoder \in 0..MaxEncoders /\ position \in 0..MaxBytes
  /\ pump \in {"reads", "drains", "ended"}
  /\ metadata \in Chunk /\ header \in Chunk /\ tail \in Chunk
  /\ subscribers \subseteq Clients
  /\ queue \in [Clients -> Seq(Chunk)] /\ received \in [Clients -> Chunk]
  /\ buffered \in [Clients -> Nat] /\ published \in [Clients -> Seq(0..MaxTime)]
  /\ state \in [Clients -> {"new", "open", "closed"}]
  /\ now \in 0..MaxTime /\ publishedAt \in 0..now

Init ==
  /\ flac \in BOOLEAN /\ encoder = 0 /\ position = 0 /\ pump = "ended"
  /\ metadata = <<>> /\ header = <<>> /\ tail = <<>>
  /\ subscribers = {} /\ queue = [c \in Clients |-> <<>>]
  /\ buffered = [c \in Clients |-> 0] /\ published = [c \in Clients |-> <<>>]
  /\ state = [c \in Clients |-> "new"] /\ received = [c \in Clients |-> <<>>]
  /\ now = 0 /\ publishedAt = 0

(***************************************************************************)
(* The fanout.                                                             *)
(***************************************************************************)
\* Mutant: what the connection has not received yet stays before the sentinel.
CloseBehind(S) ==
  /\ subscribers' = subscribers \ S
  /\ queue' = [c \in Clients |-> IF c \in S THEN Append(queue[c], StreamClosed) ELSE queue[c]]
  /\ buffered' = [c \in Clients |-> IF c \in S THEN 0 ELSE buffered[c]]
  /\ published' = [c \in Clients |-> IF c \in S THEN <<>> ELSE published[c]]

\* _close_subscription() for each connection of S.
CloseSubscriptions(S) ==
  /\ subscribers' = subscribers \ S
  /\ queue' = [c \in Clients |-> IF c \in S THEN <<StreamClosed>> ELSE queue[c]]
  /\ buffered' = [c \in Clients |-> IF c \in S THEN 0 ELSE buffered[c]]
  /\ published' = [c \in Clients |-> IF c \in S THEN <<>> ELSE published[c]]

TooOld(c) == published[c] # <<>> /\ now - Head(published[c]) >= MaxAge

\* Mutant: the limit is noticed when it has been passed.
SlowLater(size) == {c \in subscribers : TooOld(c) \/ buffered[c] > MaxBuffer}

\* Mutant: a slow connection closes all of them.
SlowTogether(size) ==
  IF \E c \in subscribers : TooOld(c) \/ buffered[c] + size > MaxBuffer THEN subscribers ELSE {}

\* The connections that a chunk of this size is not queued for.
Slow(size) == {c \in subscribers : TooOld(c) \/ buffered[c] + size > MaxBuffer}

LastBytes(bytes, n) == IF Len(bytes) <= n THEN bytes ELSE SubSeq(bytes, Len(bytes) - n + 1, Len(bytes))

\* publish() of the FLAC fanout.  Only a stream that begins with "fLaC" has a header.
CacheJoinPrefix(chunk) ==
  IF header # <<>>
  THEN tail' = LastBytes(tail \o chunk, TailLimit) /\ UNCHANGED <<metadata, header>>
  ELSE LET data == metadata \o chunk
       IN IF Len(data) >= HeaderSize /\ data[1][2] = 1
          THEN /\ header' = SubSeq(data, 1, HeaderSize)
               /\ tail' = LastBytes(SubSeq(data, HeaderSize + 1, Len(data)), TailLimit)
               /\ metadata' = <<>>
          ELSE metadata' = data /\ UNCHANGED <<header, tail>>

\* Which bytes look like the beginning of a frame is up to the audio.
JoinPrefixes ==
  IF ~flac THEN {<<>>}
  ELSE IF header = <<>> THEN {metadata}
  ELSE {header \o SubSeq(tail, i, Len(tail)) : i \in 1..(Len(tail) + 1)}

(***************************************************************************)
(* The encoders and their output tasks.                                    *)
(***************************************************************************)
\* Whoever starts an encoder has waited for the one before, and starting a process takes longer
\* than the output task of the old one takes to find its end.
StartEncoder ==
  /\ encoder < MaxEncoders /\ pump = "ended"
  /\ encoder' = encoder + 1 /\ position' = 0 /\ pump' = "reads"
  /\ UNCHANGED <<flac, prefixVars, subscriberVars, clientVars, now, publishedAt>>

Publish(size) ==
  LET chunk == [i \in 1..size |-> <<encoder, position + i>>]
      slow == Slow(size)
  IN /\ pump # "ended" /\ position + size <= MaxBytes
     /\ position' = position + size /\ publishedAt' = now
     /\ subscribers' = subscribers \ slow
     /\ queue' = [c \in Clients |-> IF c \in slow THEN <<StreamClosed>>
                                    ELSE IF c \in subscribers THEN Append(queue[c], chunk)
                                    ELSE queue[c]]
     /\ buffered' = [c \in Clients |-> IF c \in slow THEN 0
                                       ELSE IF c \in subscribers THEN buffered[c] + size
                                       ELSE buffered[c]]
     /\ published' = [c \in Clients |-> IF c \in slow THEN <<>>
                                        ELSE IF c \in subscribers THEN Append(published[c], now)
                                        ELSE published[c]]
     /\ IF flac THEN CacheJoinPrefix(chunk) ELSE UNCHANGED prefixVars
     /\ UNCHANGED <<flac, encoder, pump, clientVars, now>>

\* close() of either fanout.
CloseFanout ==
  /\ CloseSubscriptions(subscribers)
  /\ metadata' = <<>> /\ header' = <<>> /\ tail' = <<>>

\* Who stops an encoder closes the fanout as soon as the process has ended; the output task may
\* still have bytes to publish, or be over.
StopEncoder ==
  /\ encoder > 0
  /\ CloseFanout
  /\ pump' = IF pump = "reads" THEN "drains" ELSE pump
  /\ UNCHANGED <<flac, encoder, position, clientVars, now, publishedAt>>

\* Mutant: the output task leaves the fanout to the one who stops the encoder.
OutputEndsOnly ==
  /\ pump # "ended" /\ pump' = "ended"
  /\ UNCHANGED <<flac, encoder, position, prefixVars, subscriberVars, clientVars, now, publishedAt>>

\* The output of the encoder ends, or its task is cancelled.
OutputEnds ==
  /\ pump # "ended" /\ pump' = "ended"
  /\ CloseFanout
  /\ UNCHANGED <<flac, encoder, position, clientVars, now, publishedAt>>

(***************************************************************************)
(* The connections.                                                        *)
(***************************************************************************)
\* subscribe().  A FLAC connection holds the lock under which encoders are stopped.
Subscribe(c) ==
  /\ state[c] = "new" /\ (flac => pump # "drains")
  /\ state' = [state EXCEPT ![c] = "open"]
  /\ subscribers' = subscribers \union {c}
  /\ \E prefix \in JoinPrefixes :
       /\ queue' = [queue EXCEPT ![c] = IF prefix = <<>> THEN <<>> ELSE <<prefix>>]
       /\ buffered' = [buffered EXCEPT ![c] = Len(prefix)]
       /\ published' = [published EXCEPT ![c] = IF prefix = <<>> THEN <<>> ELSE <<now>>]
  /\ UNCHANGED <<streamVars, prefixVars, received, now, publishedAt>>

\* receive() and consumed(), which does nothing for a connection that was closed.
Receive(c) ==
  /\ state[c] = "open" /\ queue[c] # <<>>
  /\ queue' = [queue EXCEPT ![c] = Tail(queue[c])]
  /\ received' = [received EXCEPT ![c] = received[c] \o Head(queue[c])]
  /\ state' = [state EXCEPT ![c] = IF Head(queue[c]) = StreamClosed THEN "closed" ELSE "open"]
  /\ buffered' = [buffered EXCEPT ![c] =
       IF c \in subscribers THEN buffered[c] - Len(Head(queue[c])) ELSE buffered[c]]
  /\ published' = [published EXCEPT ![c] =
       IF c \in subscribers /\ published[c] # <<>> THEN Tail(published[c]) ELSE published[c]]
  /\ UNCHANGED <<streamVars, prefixVars, subscribers, now, publishedAt>>

\* close() of the subscription.  Nobody reads its queue after that.
Unsubscribe(c) ==
  /\ state[c] = "open"
  /\ state' = [state EXCEPT ![c] = "closed"]
  /\ subscribers' = subscribers \ {c}
  /\ queue' = [queue EXCEPT ![c] = <<>>] /\ buffered' = [buffered EXCEPT ![c] = 0]
  /\ published' = [published EXCEPT ![c] = <<>>]
  /\ UNCHANGED <<streamVars, prefixVars, received, now, publishedAt>>

Tick ==
  /\ now < MaxTime /\ now' = now + 1
  /\ UNCHANGED <<streamVars, prefixVars, subscriberVars, clientVars, publishedAt>>

Next ==
  \/ StartEncoder \/ StopEncoder \/ OutputEnds \/ Tick
  \/ \E size \in 1..MaxChunk : Publish(size)
  \/ \E c \in Clients : Subscribe(c) \/ Receive(c) \/ Unsubscribe(c)

Spec == Init /\ [][Next]_vars

(***************************************************************************)
(* Properties.                                                             *)
(***************************************************************************)
\* What a connection has received and what waits for it.
Heard(c) == received[c] \o FlattenSeq(queue[c])

\* Bytes of one encoder without a gap; in FLAC the header comes first, whole.
OneStream(bytes) ==
  \A i \in DOMAIN bytes :
    /\ bytes[i][1] = bytes[1][1]
    /\ flac => bytes[1][2] = 1
    /\ i > 1 /\ (~flac \/ i # HeaderSize + 1) => bytes[i][2] = bytes[i - 1][2] + 1
    /\ flac /\ i = HeaderSize + 1 => bytes[i][2] > HeaderSize

\* Whenever a connection joins, and whatever becomes of the encoders, it is given one stream
\* that can be decoded; and while it is subscribed, all of it up to now (audio_streams.py:191).
EachHearsOneStream ==
  \A c \in Clients :
    /\ OneStream(Heard(c))
    /\ c \in subscribers /\ Heard(c) # <<>> /\ pump # "ended" /\ position > 0 =>
         Heard(c)[Len(Heard(c))] \in {<<encoder, position>>, <<encoder, HeaderSize>>}

\* The fanout's account of a queue is what is in it, and it is within the limits: the chunks of
\* a connection that it still served at its last chunk were younger than MaxAge then
\* (audio_streams.py:98; SPEC.md:188).  A connection that it serves no longer is told so at once:
\* the sentinel is all that is left in its queue (audio_streams.py:123).
QueuesWithinLimits ==
  \A c \in {d \in Clients : state[d] = "open"} :
    /\ c \in subscribers =>
         /\ buffered[c] = Len(FlattenSeq(queue[c])) /\ buffered[c] <= MaxBuffer
         /\ Len(published[c]) = Len(queue[c])
         /\ published[c] # <<>> => publishedAt < Head(published[c]) + MaxAge
    /\ c \notin subscribers => queue[c] = <<StreamClosed>>

\* A chunk never closes a connection that has received everything so far, however slow the
\* others are (audio_streams.py:97).
SlowAlone ==
  [][\A c \in subscribers : queue[c] = <<>> /\ position' > position => c \in subscribers']_vars
=============================================================================
