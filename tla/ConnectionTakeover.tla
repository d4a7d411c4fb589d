------------------------- MODULE ConnectionTakeover -------------------------
(***************************************************************************)
(* What the external player endpoint promises, without saying how.  A      *)
(* player key (one generation of one account's credential) has at most one *)
(* current connection.  A newer connection of the same key displaces it; a *)
(* displaced connection drains and is never current again, and draining    *)
(* ends.  PlayerStreams is the detailed system and implements this one.    *)
(***************************************************************************)
CONSTANTS
  Keys,    \* player keys: an account together with a generation
  Conns,   \* connections
  NoConn   \* "no connection"

VARIABLES
  current,   \* the connection each key plays on, or NoConn
  draining   \* displaced connections that have not ended yet

vars == <<current, draining>>

Current == {current[k] : k \in Keys} \ {NoConn}

Init ==
  /\ current = [k \in Keys |-> NoConn]
  /\ draining = {}

\* A connection becomes the current one of key k and displaces the old one.
Connect(k, c) ==
  /\ c \notin Current \union draining
  /\ current' = [current EXCEPT ![k] = c]
  /\ draining' = draining \union ({current[k]} \ {NoConn})

\* The keys in K lose their connections: a revocation, or a shutdown.
Displace(K) ==
  /\ current' = [k \in Keys |-> IF k \in K THEN NoConn ELSE current[k]]
  /\ draining' = draining \union ({current[k] : k \in K} \ {NoConn})

\* The current connection of k ends by itself.
Leave(k) ==
  /\ current' = [current EXCEPT ![k] = NoConn]
  /\ UNCHANGED draining

Drained(c) ==
  /\ c \in draining
  /\ draining' = draining \ {c}
  /\ UNCHANGED current

Next ==
  \/ \E k \in Keys, c \in Conns : Connect(k, c)
  \/ \E K \in SUBSET Keys : Displace(K)
  \/ \E k \in Keys : Leave(k)
  \/ \E c \in Conns : Drained(c)

Safety == Init /\ [][Next]_vars

Spec == Safety /\ \A c \in Conns : WF_vars(Drained(c))
=============================================================================
