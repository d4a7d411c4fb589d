---------------------------- MODULE ContentStore ----------------------------
(***************************************************************************)
(* What the media library promises, without saying how.  A content is held *)
(* under one name at most and a name stands for one content; a file is     *)
(* complete before a name is given to it, and nobody discards a file that  *)
(* has one.  The only exception is an addition that is not settled yet:    *)
(* it may withdraw the file and leave the name behind.  What the library   *)
(* holds outlives a restart.  MediaLibrary is the detailed system and      *)
(* implements this one.                                                    *)
(***************************************************************************)
CONSTANTS
  Contents,
  Files

VARIABLES
  holds,     \* pairs of a content and the file that is named for it
  stored,    \* complete files
  settling   \* named files whose addition has not been answered

vars == <<holds, stored, settling>>

Held == {h[1] : h \in holds}
Named == {h[2] : h \in holds}

Init == holds = {} /\ stored = {} /\ settling = {}

\* A new file is complete.
Store(f) ==
  /\ stored' = stored \union {f}
  /\ UNCHANGED <<holds, settling>>

\* A file without a name goes.
Discard(f) ==
  /\ stored' = stored \ {f}
  /\ UNCHANGED <<holds, settling>>

Add(c, f) ==
  /\ holds' = holds \union {<<c, f>>}
  /\ settling' = settling \union {f}
  /\ UNCHANGED stored

\* The addition is answered.
Settle(f) ==
  /\ settling' = settling \ {f}
  /\ UNCHANGED <<holds, stored>>

\* It fails although the name is there, and takes the file back.
Withdraw(f) ==
  /\ settling' = settling \ {f}
  /\ stored' = stored \ {f}
  /\ UNCHANGED holds

\* The content of h gets another file.
Replace(h, f) ==
  /\ holds' = (holds \ {h}) \union {<<h[1], f>>}
  /\ settling' = settling \ {h[2]}
  /\ UNCHANGED stored

Remove(h) ==
  /\ holds' = holds \ {h}
  /\ settling' = settling \ {h[2]}
  /\ UNCHANGED stored

Restart ==
  /\ settling' = {}
  /\ UNCHANGED <<holds, stored>>

Next ==
  \/ \E f \in Files \ (stored \union Named) : Store(f)
  \/ \E f \in stored \ Named :
       \/ Discard(f)
       \/ \E c \in Contents \ Held : Add(c, f)
       \/ \E h \in holds : Replace(h, f)
  \/ \E f \in settling : Settle(f) \/ Withdraw(f)
  \/ \E h \in holds : Remove(h)
  \/ Restart

Spec == Init /\ [][Next]_vars

\* What follows for every store: a content has one name, and a name one content.
OneToOne == \A g, h \in holds : g[1] = h[1] \/ g[2] = h[2] => g = h
=============================================================================
