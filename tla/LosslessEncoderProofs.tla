------------------------ MODULE LosslessEncoderProofs ------------------------
(***************************************************************************)
(* Theorems about LosslessEncoder for every set of listeners and every     *)
(* number of FLAC processes.                                               *)
(***************************************************************************)
EXTENDS LosslessEncoder, TLAPS

(***************************************************************************)
(* The queue for the lock.                                                 *)
(***************************************************************************)
LEMMA Asked ==
  ASSUME lock \in Seq(Actors), NEW a \in Actors, Asks(a)
  PROVE  /\ lock' \in Seq(Actors) /\ Len(lock') = Len(lock) + 1
         /\ \A i \in 1..Len(lock) : lock'[i] = lock[i]
         /\ lock'[Len(lock) + 1] = a
  BY DEF Asks

LEMMA Released ==
  ASSUME lock \in Seq(Actors), lock # <<>>, Releases
  PROVE  /\ lock' \in Seq(Actors) /\ Len(lock') = Len(lock) - 1
         /\ \A i \in 1..Len(lock') : lock'[i] = lock[i + 1] /\ i + 1 \in 1..Len(lock)
  BY DEF Releases

\* Those who do not leave keep their order.
LEMMA OthersStay ==
  ASSUME lock \in Seq(Actors), NEW a
  PROVE  /\ Without(a) \in Seq(Actors)
         /\ \E from \in [1..Len(Without(a)) -> 1..Len(lock)] :
              \A i \in 1..Len(Without(a)) :
                 /\ Without(a)[i] = lock[from[i]]
                 /\ \A j \in 1..Len(Without(a)) : i < j => from[i] < from[j]
         /\ (\A i, j \in 1..Len(lock) : lock[i] = a /\ lock[j] = a => i = j)
              => \A i \in 1..Len(Without(a)) : Without(a)[i] # a
         /\ lock # <<>> /\ ~Holds(a) => Without(a) # <<>> /\ Head(Without(a)) = Head(lock)
<1>1. CASE \A i \in DOMAIN lock : lock[i] # a
  <2>1. Without(a) = lock
    BY <1>1 DEF Without
  <2> DEFINE from == [i \in 1..Len(lock) |-> i]
  <2>2. from \in [1..Len(Without(a)) -> 1..Len(lock)]
    BY <2>1
  <2>3. \A i \in 1..Len(Without(a)) :
           Without(a)[i] = lock[from[i]] /\ \A j \in 1..Len(Without(a)) : i < j => from[i] < from[j]
    BY <2>1
  <2> HIDE DEF from
  <2> QED BY <1>1, <2>1, <2>2, <2>3
<1>2. CASE ~\A i \in DOMAIN lock : lock[i] # a
  <2> DEFINE p == Place(a)
             from == [i \in 1..(Len(lock) - 1) |-> IF i < p THEN i ELSE i + 1]
  <2>1. p \in 1..Len(lock) /\ lock[p] = a
    BY <1>2 DEF Place
  <2>2. Without(a) = [i \in 1..(Len(lock) - 1) |-> lock[IF i < p THEN i ELSE i + 1]]
    BY <1>2 DEF Without
  <2> HIDE DEF p
  <2>3. Len(lock) - 1 \in Nat
    BY <2>1
  <2>4. \A i \in 1..(Len(lock) - 1) : lock[IF i < p THEN i ELSE i + 1] \in Actors
    BY <2>1
  <2>5. Without(a) \in Seq(Actors) /\ Len(Without(a)) = Len(lock) - 1
    BY <2>2, <2>3, <2>4
  <2>6. from \in [1..Len(Without(a)) -> 1..Len(lock)]
    BY <2>1, <2>5
  <2>7. \A i \in 1..Len(Without(a)) :
           /\ Without(a)[i] = lock[from[i]]
           /\ \A j \in 1..Len(Without(a)) : i < j => from[i] < from[j]
    BY <2>1, <2>2, <2>5
  <2>8. \A i \in 1..Len(Without(a)) : from[i] # p
    BY <2>1, <2>5
  <2>9. lock # <<>> /\ ~Holds(a) => Without(a) # <<>> /\ Head(Without(a)) = Head(lock)
    <3>1. SUFFICES ASSUME lock # <<>>, ~Holds(a)
                   PROVE  Without(a) # <<>> /\ Head(Without(a)) = Head(lock)
      OBVIOUS
    <3>2. p # 1 /\ Len(lock) \in Nat
      BY <2>1, <3>1 DEF Holds
    <3>3. 1 < p /\ 1 \in 1..(Len(lock) - 1)
      BY <2>1, <3>2
    <3>4. Without(a)[1] = lock[1]
      BY <2>2, <3>3
    <3>5. Head(lock) = lock[1]
      BY <3>1
    <3> QED BY <2>5, <3>3, <3>4, <3>5
  <2> HIDE DEF from
  <2>10. (\A i, j \in 1..Len(lock) : lock[i] = a /\ lock[j] = a => i = j)
          => \A i \in 1..Len(Without(a)) : Without(a)[i] # a
    BY <2>1, <2>6, <2>7, <2>8
  <2> QED BY <2>5, <2>6, <2>7, <2>9, <2>10
<1> QED BY <1>1, <1>2

(***************************************************************************)
(* Types.                                                                  *)
(***************************************************************************)
LEMMA TypesInit == Init => TypeOK
<1>1. <<>> \in Seq(Actors)
  OBVIOUS
<1>2. Init => lock \in Seq(Actors)
  BY <1>1 DEF Init
<1> QED BY <1>2 DEF Init, TypeOK, NoEncoder

LEMMA TypesNext == TypeOK /\ [Next]_vars => TypeOK'
<1> SUFFICES ASSUME TypeOK, [Next]_vars PROVE TypeOK'
  OBVIOUS
<1> USE DEF TypeOK, NoEncoder
<1> USE DEF lockVars, processVars, listenerVars, supervisorVars, history
<1>1. ASSUME NEW c \in Clients, Ask(c) \/ Wake(c) \/ WaitTimesOut(c) \/ Unsubscribe(c)
      PROVE  TypeOK'
  BY <1>1 DEF Ask, Wake, WaitTimesOut, Unsubscribe
<1>2. ASSUME NEW c \in Clients, Pass(c) PROVE TypeOK'
  <2>1. lock' \in Seq(Actors)
    BY <1>2 DEF Pass, Asks, Actors
  <2>2. client' \in [Clients -> {"away", "waits", "woken", "queued", "open"}]
    BY <1>2 DEF Pass
  <2>3. UNCHANGED <<handle, held, processVars, supervisorVars, follows, history>>
    BY <1>2 DEF Pass
  <2> QED BY <2>1, <2>2, <2>3
<1>3. ASSUME NEW c \in Clients, EnsureFinds(c) \/ EnsureFails(c) PROVE TypeOK'
  <2>1. lock' \in Seq(Actors)
    BY <1>3, Released DEF EnsureFinds, EnsureFails, Subscribed, Holds
  <2>2. client' \in [Clients -> {"away", "waits", "woken", "queued", "open"}]
    BY <1>3 DEF EnsureFinds, EnsureFails, Subscribed
  <2>3. follows' \in [Clients -> Encoders \union {NoEncoder}]
    BY <1>3 DEF EnsureFinds, EnsureFails, Subscribed
  <2>4. UNCHANGED <<handle, held, processVars, supervisorVars, history>>
    BY <1>3 DEF EnsureFinds, EnsureFails
  <2> QED BY <2>1, <2>2, <2>3, <2>4
<1>4. ASSUME NEW a \in Actors, TakeHandle(a), UNCHANGED supervisorVars PROVE TypeOK'
  BY <1>4 DEF TakeHandle
<1>5. ASSUME NEW c \in Clients, EnsureSeesEnd(c) PROVE TypeOK'
  BY <1>5 DEF EnsureSeesEnd, SeeItEnd, FanoutCloses
<1>6. ASSUME NEW c \in Clients, NEW e \in Encoders, EnsureCreates(c, e) PROVE TypeOK'
  BY <1>6 DEF EnsureCreates, Subscribed, Releases, Holds
<1>7. ASSUME NEW e \in Encoders, Exit(e) \/ Reap(e) \/ OutputEnds(e) PROVE TypeOK'
  BY <1>7 DEF Exit, Reap, OutputEnds, FanoutCloses
<1>a. ASSUME NEW a, Holds(a), Releases PROVE lock' \in Seq(Actors)
  BY <1>a, Released DEF Holds
<1>b. ASSUME FanoutCloses
      PROVE  /\ client' \in [Clients -> {"away", "waits", "woken", "queued", "open"}]
             /\ follows' \in [Clients -> Encoders \union {NoEncoder}]
  BY <1>b DEF FanoutCloses
<1>c. ASSUME NEW a \in Actors, StopReturns(a)
      PROVE  /\ lock' \in Seq(Actors) /\ UNCHANGED <<handle, processVars, history>>
             /\ held' \in Encoders \union {NoEncoder}
             /\ client' \in [Clients -> {"away", "waits", "woken", "queued", "open"}]
             /\ follows' \in [Clients -> Encoders \union {NoEncoder}]
  BY <1>a, <1>b, <1>c DEF StopReturns, SeeItEnd, NothingToStop
<1>8. CASE MonitorLeaves \/ MonitorSeesEnd
  BY <1>a, <1>b, <1>8 DEF MonitorLeaves, MonitorSeesEnd, SeeItEnd
<1>9. CASE MonitorAsks
  BY <1>9 DEF MonitorAsks, Asks, Actors
<1>10. CASE TaskStarts \/ TaskWrites \/ WriteEnds \/ TaskEnds
  BY <1>10 DEF TaskStarts, TaskWrites, WriteEnds, TaskEnds
<1>11. CASE WriteFails \/ TaskFails \/ TaskCrashes
  BY <1>11 DEF WriteFails, TaskFails, TaskCrashes, Asks, Actors
<1>12. CASE TaskStopped
  BY <1>c, <1>12 DEF TaskStopped, TaskKeeps, Actors
<1>13. CASE StopGoesOn
  BY <1>13 DEF StopGoesOn, Asks, Actors
<1>14. CASE StopStopped
  BY <1>c, <1>14 DEF StopStopped, Actors
<1>15. ASSUME CancelTask PROVE /\ lock' \in Seq(Actors) /\ held' \in Encoders \union {NoEncoder}
                               /\ lost' \subseteq Encoders /\ failed' = NoEncoder
                               /\ task' \in {"done", "final"}
  <2>1. Without("task") \in Seq(Actors)
    BY OthersStay
  <2>2. Append(Without("task"), "task") \in Seq(Actors)
    BY <2>1 DEF Actors
  <2>3. lock' \in Seq(Actors) /\ task' \in {"done", "final"}
    BY <1>15, <2>1, <2>2 DEF CancelTask
  <2> QED BY <1>15, <2>3 DEF CancelTask, Cancelled
<1>16. CASE StopBegins
  BY <1>15, <1>16 DEF StopBegins
<1>17. CASE StopFinishes
  BY <1>15, <1>17 DEF StopFinishes, FanoutCloses
<1>18. CASE MonitorIsCut
  <2>1. Without("monitor") \in Seq(Actors) /\ Without("stop") \in Seq(Actors)
    BY OthersStay
  <2>2. PICK a \in {"monitor", "stop"} :
          /\ Cancelled(a) /\ lock' = Without(a)
          /\ stop' = IF a = "stop" /\ stop \in {"task", "lossless", "outputs"} THEN "cut" ELSE stop
    BY <1>18 DEF MonitorIsCut
  <2>3. held' \in Encoders \union {NoEncoder} /\ lost' \subseteq Encoders
    BY <2>2 DEF Cancelled
  <2>4. lock' \in Seq(Actors) /\ stop' \in {"no", "task", "lossless", "outputs", "done", "cut"}
    BY <2>1, <2>2
  <2>5. watching' = FALSE
        /\ UNCHANGED <<handle, processVars, ready, mapped, task, failed, listenerVars, late>>
    BY <1>18 DEF MonitorIsCut
  <2> QED BY <2>3, <2>4, <2>5
<1>19. CASE UNCHANGED vars
  BY <1>19 DEF vars
<1> QED
  BY <1>1, <1>2, <1>3, <1>4, <1>5, <1>6, <1>7, <1>8, <1>9, <1>10, <1>11, <1>12, <1>13, <1>14,
     <1>16, <1>17, <1>18, <1>19
     DEF Next, ClientStep, MonitorStep, TaskStep, StopStep, EnsureStopsDead, MonitorStops,
         TaskTakesHandle, StopTakesHandle, Actors

\* Every variable keeps to its type.
THEOREM TypeCorrect == Spec => []TypeOK
  BY TypesInit, TypesNext, PTL DEF Spec

-----------------------------------------------------------------------------
Known(e) == e \in lost \/ e \in {handle, held}

\* One process at a time is neither ended nor lost: the one of the handle, or the one whose end the
\* holder of the lock waits for.
Processes ==
  /\ held # NoEncoder => handle = NoEncoder /\ lock # <<>>
  /\ handle # NoEncoder => process[handle] # "none"
  /\ \A e \in Encoders :
       /\ process[e] \in {"none", "reaped"} \/ Known(e)
       /\ process[e] = "shut" => e = held \/ e \in lost
       /\ process[e] # "none" => \A d \in 1..(e - 1) : process[d] # "none"

\* Who listens follows such a process, and who publishes is one, or has ended with nobody there.
Fanout ==
  /\ \A c \in Open : follows[c] # NoEncoder /\ Known(follows[c])
  /\ \A e \in pumps :
       \/ Known(e)
       \/ handle = NoEncoder /\ held = NoEncoder /\ process[e] = "reaped"

\* A write went to a process that was started before any later one.
Blame ==
  /\ task \in {"write", "blame"} => failed # NoEncoder
  /\ failed # NoEncoder =>
       /\ process[failed] # "none"
       /\ handle # NoEncoder => failed <= handle

BlamesRightly ==
  task = "blame" /\ failed # held =>
    failed < held /\ (process[failed] = "reaped" \/ failed \in lost)

\* Whoever made the process end that somebody listens to still holds the lock.
Stopper ==
  held # NoEncoder /\ process[held] = "shut" /\ Open # {} =>
    Holds("stop") \/ (Holds("task") /\ BlamesRightly)

\* The queue for the lock: the task and stop() are in it once at most and only while they are about
\* to stop the encoder, and no request gets in behind stop().
InTime(a) ==
  /\ a = "task" => task \in {"blame", "recover", "final"}
  /\ a = "stop" => stop = "lossless"
  /\ stop \in {"outputs", "done"} => a \notin Clients

InOrder(a, b) ==
  /\ a = b => a \notin {"task", "stop"}
  /\ a = "stop" => b \notin Clients

Ordered(s) == \A i, j \in 1..Len(s) : i < j => InOrder(s[i], s[j])
Elements(s) == {s[i] : i \in 1..Len(s)}

Queue == Ordered(lock) /\ \A a \in Elements(lock) : InTime(a)

\* What is left when the supervisor has done its last stop.
Ending ==
  /\ stop \in {"outputs", "done"} => handle = NoEncoder
  /\ stop = "no" /\ task \in {"ends", "done"} => handle \in late \union {NoEncoder}

Encoding == Processes /\ Fanout /\ Blame /\ Stopper /\ Queue /\ Ending

(***************************************************************************)
(* Every step keeps the processes accounted for.                           *)
(***************************************************************************)
\* A cancellation leaves the holder of the lock alone or loses the process that it waits for.
LEMMA LettingGo ==
  ASSUME TypeOK, Processes, StopBegins \/ StopFinishes \/ MonitorIsCut
  PROVE  /\ held' \in {held, NoEncoder} /\ lost \subseteq lost' /\ (held' # held => held \in lost')
         /\ held' # NoEncoder => lock' # <<>> /\ Head(lock') = Head(lock)
         /\ UNCHANGED <<handle, process, late>>
<1> USE DEF TypeOK, Processes, NoEncoder
<1> DEFINE P == /\ held' \in {held, NoEncoder} /\ lost \subseteq lost' /\ (held' # held => held \in lost')
                /\ held' # NoEncoder => lock' # <<>> /\ Head(lock') = Head(lock)
<1>1. ASSUME NEW a, Cancelled(a)
      PROVE  /\ held' \in {held, NoEncoder} /\ lost \subseteq lost' /\ (held' # held => held \in lost')
             /\ held' # NoEncoder => /\ Without(a) # <<>> /\ Head(Without(a)) = Head(lock)
                                     /\ Without(a) \in Seq(Actors)
  BY <1>1, OthersStay DEF Cancelled
<1>2. ASSUME CancelTask PROVE P
  <2>1. ASSUME NEW s \in Seq(Actors), s # <<>>
        PROVE  Append(s, "task") # <<>> /\ Head(Append(s, "task")) = Head(s)
    BY <2>1
  <2>2. Cancelled("task") /\ lock' \in {Without("task"), Append(Without("task"), "task")}
    BY <1>2 DEF CancelTask
  <2> QED BY <1>1, <2>1, <2>2
<1>3. CASE StopBegins
  <2>1. P
    BY <1>2, <1>3 DEF StopBegins
  <2> QED BY <1>3, <2>1 DEF StopBegins, processVars
<1>4. CASE StopFinishes
  <2>1. P
    BY <1>2, <1>4 DEF StopFinishes
  <2> QED BY <1>4, <2>1 DEF StopFinishes
<1>5. CASE MonitorIsCut
  <2>1. P
    BY <1>1, <1>5 DEF MonitorIsCut
  <2> QED BY <1>5, <2>1 DEF MonitorIsCut, processVars
<1> QED BY <1>3, <1>4, <1>5

LEMMA ProcessesNext == TypeOK /\ TypeOK' /\ Processes /\ [Next]_vars => Processes'
<1> SUFFICES ASSUME TypeOK, TypeOK', Processes, [Next]_vars PROVE Processes'
  OBVIOUS
<1> USE DEF TypeOK, Processes, Known, NoEncoder, Encoders
<1> USE DEF lockVars, processVars, listenerVars, supervisorVars, history
<1>1. ASSUME UNCHANGED <<handle, held, process, lost>>, lock' # <<>> \/ held = NoEncoder \/ lock' = lock
      PROVE  Processes'
  BY <1>1
<1>2. ASSUME NEW c \in Clients, Ask(c) \/ Wake(c) \/ WaitTimesOut(c) \/ Unsubscribe(c)
      PROVE  Processes'
  BY <1>1, <1>2 DEF Ask, Wake, WaitTimesOut, Unsubscribe
<1>3. ASSUME NEW c \in Clients, Pass(c) PROVE Processes'
  BY <1>1, <1>3, Asked DEF Pass, Actors
<1>4. ASSUME NEW c \in Clients, EnsureFinds(c) \/ EnsureFails(c) PROVE Processes'
  BY <1>1, <1>4 DEF EnsureFinds, EnsureFails
<1>5. ASSUME NEW a \in Actors, TakeHandle(a) PROVE Processes'
  BY <1>5 DEF TakeHandle, Holds
<1>6. ASSUME NEW a \in Actors, SeeItEnd(a) PROVE Processes'
  BY <1>6 DEF SeeItEnd
<1>7. ASSUME NEW c \in Clients, NEW e \in Encoders, EnsureCreates(c, e) PROVE Processes'
  BY <1>7 DEF EnsureCreates
<1>8. ASSUME NEW e \in Encoders, Exit(e) \/ Reap(e) \/ OutputEnds(e) PROVE Processes'
  <2>1. CASE Exit(e)
    BY <2>1 DEF Exit, Running
  <2>2. CASE Reap(e)
    BY <2>2 DEF Reap
  <2>3. CASE OutputEnds(e)
    BY <1>1, <2>3 DEF OutputEnds
  <2> QED BY <1>8, <2>1, <2>2, <2>3
<1>9. CASE MonitorLeaves
  BY <1>1, <1>9 DEF MonitorLeaves
<1>10. CASE MonitorAsks \/ WriteFails \/ TaskFails \/ TaskCrashes \/ StopGoesOn
  <2>1. \E a \in Actors : Asks(a)
    BY <1>10 DEF MonitorAsks, WriteFails, TaskFails, TaskCrashes, StopGoesOn, Actors
  <2>2. lock' # <<>>
    BY <2>1, Asked
  <2> QED BY <1>1, <1>10, <2>2 DEF MonitorAsks, WriteFails, TaskFails, TaskCrashes, StopGoesOn
<1>11. CASE TaskStarts \/ TaskWrites \/ WriteEnds \/ TaskEnds
  BY <1>1, <1>11 DEF TaskStarts, TaskWrites, WriteEnds, TaskEnds
<1>12. ASSUME NEW a \in Actors, StopReturns(a) PROVE Processes'
  BY <1>1, <1>6, <1>12 DEF StopReturns, NothingToStop
<1>13. CASE StopBegins \/ StopFinishes \/ MonitorIsCut
  BY <1>13, LettingGo
<1>14. CASE UNCHANGED vars
  BY <1>1, <1>14 DEF vars
<1> QED
  BY <1>2, <1>3, <1>4, <1>5, <1>6, <1>7, <1>8, <1>9, <1>10, <1>11, <1>12, <1>13, <1>14
     DEF Next, ClientStep, MonitorStep, TaskStep, StopStep, EnsureStopsDead, EnsureSeesEnd,
         MonitorStops, MonitorSeesEnd, TaskTakesHandle, StopTakesHandle, TaskStopped, StopStopped,
         Actors

LEMMA FanoutNext == TypeOK /\ TypeOK' /\ Processes /\ Fanout /\ [Next]_vars => Fanout'
<1> SUFFICES ASSUME TypeOK, TypeOK', Processes, Fanout, [Next]_vars PROVE Fanout'
  OBVIOUS
<1> USE DEF TypeOK, Processes, Fanout, Known, NoEncoder, Open
<1> USE DEF lockVars, processVars, listenerVars, supervisorVars, history
<1>1. ASSUME UNCHANGED <<handle, held, process, lost, pumps>>,
             \A c \in Clients : client'[c] = "open" => client[c] = "open" /\ follows'[c] = follows[c]
      PROVE  Fanout'
  BY <1>1
<1>2. ASSUME NEW c \in Clients, Ask(c) \/ Wake(c) \/ WaitTimesOut(c) \/ Unsubscribe(c)
      PROVE  Fanout'
  BY <1>1, <1>2 DEF Ask, Wake, WaitTimesOut, Unsubscribe
<1>3. ASSUME NEW c \in Clients, Pass(c) \/ EnsureFails(c) PROVE Fanout'
  BY <1>1, <1>3 DEF Pass, EnsureFails
<1>4. ASSUME NEW c \in Clients, EnsureFinds(c) PROVE Fanout'
  BY <1>4 DEF EnsureFinds, Subscribed
<1>5. ASSUME NEW a \in Actors, TakeHandle(a) PROVE Fanout'
  BY <1>5 DEF TakeHandle
<1>6. ASSUME NEW a \in Actors, SeeItEnd(a) PROVE Fanout'
  BY <1>6 DEF SeeItEnd, FanoutCloses
<1>7. ASSUME NEW c \in Clients, NEW e \in Encoders, EnsureCreates(c, e) PROVE Fanout'
  BY <1>7 DEF EnsureCreates, Subscribed, Encoders
<1>8. ASSUME NEW e \in Encoders, Exit(e) \/ Reap(e) PROVE Fanout'
  BY <1>8 DEF Exit, Reap, Running
<1>9. ASSUME NEW e \in Encoders, OutputEnds(e) PROVE Fanout'
  BY <1>9 DEF OutputEnds, FanoutCloses
<1>10. CASE MonitorLeaves \/ MonitorAsks \/ WriteFails \/ TaskFails \/ TaskCrashes \/ StopGoesOn
  BY <1>1, <1>10 DEF MonitorLeaves, MonitorAsks, WriteFails, TaskFails, TaskCrashes, StopGoesOn
<1>11. CASE TaskStarts \/ TaskWrites \/ WriteEnds \/ TaskEnds
  BY <1>1, <1>11 DEF TaskStarts, TaskWrites, WriteEnds, TaskEnds
<1>12. ASSUME NEW a \in Actors, StopReturns(a) PROVE Fanout'
  BY <1>1, <1>6, <1>12 DEF StopReturns, NothingToStop
<1>13. CASE StopBegins \/ StopFinishes \/ MonitorIsCut
  <2>1. pumps' \subseteq pumps
    BY <1>13 DEF StopBegins, StopFinishes, MonitorIsCut
  <2>2. \A c \in Clients : client'[c] = "open" => client[c] = "open" /\ follows'[c] = follows[c]
    BY <1>13 DEF StopBegins, StopFinishes, MonitorIsCut, FanoutCloses
  <2> QED BY <1>13, <2>1, <2>2, LettingGo
<1>14. CASE UNCHANGED vars
  BY <1>1, <1>14 DEF vars
<1> QED
  BY <1>2, <1>3, <1>4, <1>5, <1>6, <1>7, <1>8, <1>9, <1>10, <1>11, <1>12, <1>13, <1>14
     DEF Next, ClientStep, MonitorStep, TaskStep, StopStep, EnsureStopsDead, EnsureSeesEnd,
         MonitorStops, MonitorSeesEnd, TaskTakesHandle, StopTakesHandle, TaskStopped, StopStopped,
         Actors

LEMMA BlameNext == TypeOK /\ TypeOK' /\ Processes /\ Blame /\ [Next]_vars => Blame'
<1> SUFFICES ASSUME TypeOK, TypeOK', Processes, Blame, [Next]_vars PROVE Blame'
  OBVIOUS
<1> USE DEF TypeOK, Processes, Blame, NoEncoder, Encoders
<1> USE DEF lockVars, processVars, listenerVars, supervisorVars, history
<1>1. ASSUME UNCHANGED <<handle, process, task, failed>> PROVE Blame'
  BY <1>1
<1>2. ASSUME NEW c \in Clients,
             \/ Ask(c) \/ Wake(c) \/ WaitTimesOut(c) \/ Unsubscribe(c) \/ Pass(c)
             \/ EnsureFails(c) \/ EnsureFinds(c)
      PROVE  Blame'
  BY <1>1, <1>2 DEF Ask, Wake, WaitTimesOut, Unsubscribe, Pass, EnsureFails, EnsureFinds
<1>3. ASSUME NEW a \in Actors, TakeHandle(a), UNCHANGED supervisorVars PROVE Blame'
  BY <1>3 DEF TakeHandle
<1>4. ASSUME NEW a \in Actors, SeeItEnd(a), UNCHANGED supervisorVars PROVE Blame'
  BY <1>1, <1>4 DEF SeeItEnd
<1>5. ASSUME NEW c \in Clients, NEW e \in Encoders, EnsureCreates(c, e) PROVE Blame'
  <2>1. failed # NoEncoder => failed < e
    BY <1>5 DEF EnsureCreates
  <2> QED BY <1>5, <2>1 DEF EnsureCreates
<1>6. ASSUME NEW e \in Encoders, Exit(e) \/ Reap(e) \/ OutputEnds(e) PROVE Blame'
  BY <1>6 DEF Exit, Reap, OutputEnds
<1>7. CASE MonitorLeaves \/ MonitorAsks \/ StopGoesOn
  BY <1>1, <1>7 DEF MonitorLeaves, MonitorAsks, StopGoesOn
<1>8. CASE TaskStarts \/ WriteEnds \/ WriteFails \/ TaskFails \/ TaskCrashes \/ TaskEnds
  BY <1>8 DEF TaskStarts, WriteEnds, WriteFails, TaskFails, TaskCrashes, TaskEnds
<1>9. CASE TaskWrites
  BY <1>9 DEF TaskWrites
<1>10. CASE TaskStopped
  BY <1>10 DEF TaskStopped, StopReturns, SeeItEnd, NothingToStop
<1>11. CASE StopStopped
  BY <1>1, <1>11 DEF StopStopped, StopReturns, SeeItEnd, NothingToStop
<1>12. CASE StopBegins \/ StopFinishes \/ MonitorIsCut
  <2>1. CASE UNCHANGED <<task, failed>>
    BY <1>1, <1>12, <2>1, LettingGo
  <2>2. CASE CancelTask
    BY <2>2 DEF CancelTask
  <2> QED BY <1>12, <2>1, <2>2 DEF StopBegins, StopFinishes, MonitorIsCut
<1>13. CASE UNCHANGED vars
  BY <1>1, <1>13 DEF vars
<1> QED
  BY <1>2, <1>3, <1>4, <1>5, <1>6, <1>7, <1>8, <1>9, <1>10, <1>11, <1>12, <1>13
     DEF Next, ClientStep, MonitorStep, TaskStep, StopStep, EnsureStopsDead, EnsureSeesEnd,
         MonitorStops, MonitorSeesEnd, TaskTakesHandle, StopTakesHandle, Actors

(***************************************************************************)
(* Every step keeps the queue for the lock in order.                       *)
(***************************************************************************)
LEMMA OrderedAppend ==
  ASSUME NEW s \in Seq(Actors), NEW a \in Actors, Ordered(s),
         \A b \in Elements(s) : InOrder(b, a)
  PROVE  Ordered(Append(s, a)) /\ Elements(Append(s, a)) = Elements(s) \union {a}
<1> DEFINE t == Append(s, a)
<1>1. /\ Len(s) \in Nat /\ Len(t) = Len(s) + 1
      /\ \A i \in 1..Len(s) : t[i] = s[i]
      /\ t[Len(s) + 1] = a
  OBVIOUS
<1> HIDE DEF t
<1>2. \A i, j \in 1..Len(t) : i < j => i \in 1..Len(s) /\ (j \in 1..Len(s) \/ j = Len(s) + 1)
  BY <1>1
<1>3. Ordered(t)
  BY <1>1, <1>2 DEF Ordered, Elements
<1>4. Elements(t) = Elements(s) \union {a}
  BY <1>1 DEF Elements
<1> QED BY <1>3, <1>4 DEF t

LEMMA OrderedTail ==
  ASSUME NEW s \in Seq(Actors), s # <<>>, Ordered(s)
  PROVE  /\ Ordered(Tail(s))
         /\ \A b \in Elements(Tail(s)) : b \in Elements(s) /\ InOrder(Head(s), b)
<1> DEFINE t == Tail(s)
<1>1. /\ Len(s) \in Nat \ {0} /\ Len(t) = Len(s) - 1 /\ Head(s) = s[1]
      /\ \A i \in 1..Len(t) : t[i] = s[i + 1]
  OBVIOUS
<1> HIDE DEF t
<1>2. \A i \in 1..Len(t) : i + 1 \in 1..Len(s) /\ 1 < i + 1
  BY <1>1
<1>3. Ordered(t)
  BY <1>1, <1>2 DEF Ordered
<1>4. \A b \in Elements(t) : b \in Elements(s) /\ InOrder(Head(s), b)
  BY <1>1, <1>2 DEF Elements, Ordered
<1> QED BY <1>3, <1>4 DEF t

LEMMA OrderedWithout ==
  ASSUME lock \in Seq(Actors), Ordered(lock), NEW a
  PROVE  /\ Ordered(Without(a)) /\ Elements(Without(a)) \subseteq Elements(lock)
         /\ a \in {"task", "stop"} => a \notin Elements(Without(a))
<1>1. PICK from \in [1..Len(Without(a)) -> 1..Len(lock)] :
         \A i \in 1..Len(Without(a)) :
           /\ Without(a)[i] = lock[from[i]]
           /\ \A j \in 1..Len(Without(a)) : i < j => from[i] < from[j]
  BY OthersStay
<1>2. Ordered(Without(a)) /\ Elements(Without(a)) \subseteq Elements(lock)
  <2>1. \A i, j \in 1..Len(Without(a)) : i < j => from[i] < from[j]
    BY <1>1
  <2>2. Ordered(Without(a))
    BY <1>1, <2>1 DEF Ordered
  <2> QED BY <1>1, <2>2 DEF Elements
<1>3. ASSUME a \in {"task", "stop"} PROVE a \notin Elements(Without(a))
  <2>1. \A i, j \in 1..Len(lock) : lock[i] = a /\ lock[j] = a => i = j
    BY <1>3 DEF Ordered, InOrder
  <2> QED BY <2>1, OthersStay DEF Elements
<1> QED BY <1>2, <1>3

LEMMA QueueNext == TypeOK /\ TypeOK' /\ Queue /\ [Next]_vars => Queue'
<1> SUFFICES ASSUME TypeOK, TypeOK', Queue, [Next]_vars PROVE Queue'
  OBVIOUS
<1> USE DEF TypeOK, Stopping
<1> USE DEF lockVars, processVars, listenerVars, supervisorVars, history
<1>1. ASSUME UNCHANGED <<lock, task, stop>> PROVE Queue'
  BY <1>1 DEF Queue, Ordered, Elements, InOrder, InTime
<1>a. ASSUME NEW s \in Seq(Actors), lock' = s, Ordered(s), \A b \in Elements(s) : InTime(b)'
      PROVE  Queue'
  BY <1>a DEF Queue, Ordered, Elements
<1>b. ASSUME NEW a \in Actors, Holds(a), Releases,
             \A b : InOrder(a, b) /\ InTime(b) => InTime(b)'
      PROVE  Queue'
  <2>1. lock # <<>> /\ Head(lock) = a /\ lock' = Tail(lock) /\ Tail(lock) \in Seq(Actors)
    BY <1>b DEF Holds, Releases
  <2> QED BY <1>a, <1>b, <2>1, OrderedTail DEF Queue
<1>c. ASSUME NEW a \in Actors, Asks(a), InTime(a)',
             \A b : InTime(b) => InOrder(b, a) /\ InTime(b)'
      PROVE  Queue'
  <2>1. lock' = Append(lock, a) /\ Append(lock, a) \in Seq(Actors)
    BY <1>c DEF Asks
  <2> QED BY <1>a, <1>c, <2>1, OrderedAppend DEF Queue
<1>d. ASSUME UNCHANGED <<task, stop>> PROVE \A b : InTime(b) => InTime(b)'
  BY <1>d DEF InTime
<1>2. ASSUME NEW c \in Clients, Ask(c) \/ Wake(c) \/ WaitTimesOut(c) \/ Unsubscribe(c)
      PROVE  Queue'
  BY <1>1, <1>2 DEF Ask, Wake, WaitTimesOut, Unsubscribe
<1>4. ASSUME NEW c \in Clients, EnsureFails(c) \/ EnsureFinds(c) PROVE Queue'
  BY <1>b, <1>d, <1>4 DEF EnsureFails, EnsureFinds, Subscribed, Actors
<1>5. ASSUME NEW a \in Actors, TakeHandle(a), UNCHANGED supervisorVars PROVE Queue'
  BY <1>1, <1>5 DEF TakeHandle
<1>6. ASSUME NEW c \in Clients, EnsureSeesEnd(c) PROVE Queue'
  BY <1>1, <1>6 DEF EnsureSeesEnd, SeeItEnd
<1>7. ASSUME NEW c \in Clients, NEW e \in Encoders, EnsureCreates(c, e) PROVE Queue'
  BY <1>b, <1>d, <1>7 DEF EnsureCreates, Subscribed, Actors
<1>8. ASSUME NEW e \in Encoders, Exit(e) \/ Reap(e) \/ OutputEnds(e) PROVE Queue'
  BY <1>1, <1>8 DEF Exit, Reap, OutputEnds
<1>9. CASE MonitorLeaves \/ MonitorSeesEnd
  BY <1>b, <1>d, <1>9 DEF MonitorLeaves, MonitorSeesEnd, SeeItEnd, Actors
<1>11. ASSUME NEW c \in Clients, Pass(c) PROVE Queue'
  <2>1. c \in Actors /\ c # "stop" /\ c # "task"
    BY ClientsAreRequests DEF Actors
  <2>2. CASE stop = "no" /\ Asks(c) /\ UNCHANGED <<task, stop>>
    <3>1. InTime(c)'
      BY <2>1, <2>2 DEF InTime
    <3>2. \A b : InTime(b) => InOrder(b, c)
      BY <2>1, <2>2 DEF InTime, InOrder
    <3> QED BY <1>c, <1>d, <2>1, <2>2, <3>1, <3>2
  <2> QED BY <1>1, <1>11, <2>2 DEF Pass
<1>12. CASE MonitorAsks
  <2>1. "monitor" \in Actors /\ "monitor" \notin Clients
    BY ClientsAreRequests DEF Actors
  <2>2. Asks("monitor") /\ UNCHANGED <<task, stop>>
    BY <1>12 DEF MonitorAsks
  <2>3. InTime("monitor")' /\ \A b : InOrder(b, "monitor")
    BY <2>1 DEF InTime, InOrder
  <2> QED BY <1>c, <1>d, <2>1, <2>2, <2>3
<1>13. CASE TaskStarts \/ TaskWrites \/ WriteEnds \/ TaskEnds
  <2>1. lock' = lock /\ stop' = stop /\ task \notin {"blame", "recover", "final"}
    BY <1>13 DEF TaskStarts, TaskWrites, WriteEnds, TaskEnds
  <2>2. \A b : InTime(b) => InTime(b)'
    BY <2>1 DEF InTime
  <2> QED BY <1>a, <2>1, <2>2 DEF Queue
<1>14. CASE WriteFails \/ TaskFails \/ TaskCrashes
  <2>1. "task" \in Actors /\ "task" \notin Clients
    BY ClientsAreRequests DEF Actors
  <2>2. Asks("task") /\ stop' = stop /\ task' \in {"blame", "recover", "final"}
    BY <1>14 DEF WriteFails, TaskFails, TaskCrashes
  <2>3. task \notin {"blame", "recover", "final"}
    BY <1>14 DEF WriteFails, TaskFails, TaskCrashes
  <2>4. InTime("task")' /\ \A b : InTime(b) => InOrder(b, "task") /\ InTime(b)'
    BY <2>1, <2>2, <2>3 DEF InTime, InOrder
  <2> QED BY <1>c, <2>1, <2>2, <2>4
<1>15. CASE TaskStopped
  <2>1. Holds("task") /\ Releases /\ stop' = stop /\ "task" \in Actors
    BY <1>15 DEF TaskStopped, StopReturns, SeeItEnd, NothingToStop, TaskKeeps, Actors
  <2>2. \A b : InOrder("task", b) /\ InTime(b) => InTime(b)'
    BY <2>1 DEF InOrder, InTime
  <2> QED BY <1>b, <2>1, <2>2
<1>16. CASE StopGoesOn
  <2>1. "stop" \in Actors /\ "stop" \notin Clients
    BY ClientsAreRequests DEF Actors
  <2>2. Asks("stop") /\ task' = task /\ stop' = "lossless" /\ stop = "task"
    BY <1>16 DEF StopGoesOn
  <2>3. InTime("stop")' /\ \A b : InTime(b) => InOrder(b, "stop") /\ InTime(b)'
    BY <2>1, <2>2 DEF InTime, InOrder
  <2> QED BY <1>c, <2>1, <2>2, <2>3
<1>17. CASE StopStopped
  <2>1. Holds("stop") /\ Releases /\ task' = task /\ stop' = "outputs" /\ "stop" \in Actors
    BY <1>17 DEF StopStopped, StopReturns, SeeItEnd, NothingToStop, Actors
  <2>2. \A b : InOrder("stop", b) /\ InTime(b) => InTime(b)'
    BY <2>1 DEF InOrder, InTime
  <2> QED BY <1>b, <2>1, <2>2
<1>18. ASSUME CancelTask, (stop = "no" /\ stop' = "task") \/ (stop = "outputs" /\ stop' = "done")
       PROVE Queue'
  <2> DEFINE s == Without("task")
  <2>1. s \in Seq(Actors) /\ "task" \in Actors /\ "task" \notin Clients
    BY OthersStay, ClientsAreRequests DEF Actors
  <2>2. Ordered(s) /\ Elements(s) \subseteq Elements(lock) /\ "task" \notin Elements(s)
    BY OrderedWithout DEF Queue
  <2>3. \A b \in Elements(s) : InTime(b)'
    BY <1>18, <2>2 DEF Queue, InTime
  <2>4. CASE lock' = s
    BY <1>a, <2>1, <2>2, <2>3, <2>4
  <2>5. CASE lock' = Append(s, "task") /\ task' = "final"
    <3>1. \A b \in Elements(s) : InOrder(b, "task")
      BY <2>1, <2>2 DEF InOrder
    <3>2. Ordered(Append(s, "task")) /\ Elements(Append(s, "task")) = Elements(s) \union {"task"}
      BY <2>1, <2>2, <3>1, OrderedAppend
    <3>3. InTime("task")'
      BY <1>18, <2>1, <2>5 DEF InTime
    <3>4. Append(s, "task") \in Seq(Actors)
      BY <2>1
    <3> QED BY <1>a, <2>3, <2>5, <3>2, <3>3, <3>4
  <2> QED BY <1>18, <2>4, <2>5 DEF CancelTask
<1>19. CASE StopBegins
  BY <1>18, <1>19 DEF StopBegins
<1>20. CASE StopFinishes
  <2>1. CASE UNCHANGED <<lock, task>>
    <3>1. \A b : InTime(b) => InTime(b)'
      BY <1>20, <2>1 DEF StopFinishes, InTime
    <3> QED BY <1>a, <2>1, <3>1 DEF Queue
  <2> QED BY <1>18, <1>20, <2>1 DEF StopFinishes
<1>21. CASE MonitorIsCut
  <2>1. PICK a \in {"monitor", "stop"} :
           /\ lock' = Without(a) /\ task' = task
           /\ stop' = IF a = "stop" /\ stop \in {"task", "lossless", "outputs"} THEN "cut" ELSE stop
    BY <1>21 DEF MonitorIsCut
  <2>2. Without(a) \in Seq(Actors)
    BY OthersStay
  <2>3. Ordered(Without(a)) /\ Elements(Without(a)) \subseteq Elements(lock)
        /\ (a = "stop" => "stop" \notin Elements(Without(a)))
    BY OrderedWithout DEF Queue
  <2>4. \A b \in Elements(Without(a)) : InTime(b)'
    BY <2>1, <2>3 DEF Queue, InTime
  <2> QED BY <1>a, <2>1, <2>2, <2>3, <2>4
<1>22. CASE UNCHANGED vars
  BY <1>1, <1>22 DEF vars
<1> QED
  BY <1>2, <1>4, <1>5, <1>6, <1>7, <1>8, <1>9, <1>11, <1>12, <1>13, <1>14, <1>15, <1>16, <1>17,
     <1>19, <1>20, <1>21, <1>22
     DEF Next, ClientStep, MonitorStep, TaskStep, StopStep, EnsureStopsDead, MonitorStops,
         TaskTakesHandle, StopTakesHandle, Actors

(***************************************************************************)
(* Who stops an encoder that somebody listens to, and what stays at the    *)
(* end.                                                                    *)
(***************************************************************************)
LEMMA Holder ==
  ASSUME TypeOK, Queue, NEW a, Holds(a)
  PROVE  InTime(a) /\ a \in Elements(lock)
BY DEF TypeOK, Queue, Holds, Elements

LEMMA StopperNext ==
  TypeOK /\ TypeOK' /\ Processes /\ Blame /\ Queue /\ Stopper /\ [Next]_vars => Stopper'
<1> SUFFICES ASSUME TypeOK, TypeOK', Processes, Blame, Queue, Stopper, [Next]_vars PROVE Stopper'
  OBVIOUS
<1> USE DEF TypeOK, NoEncoder
<1> USE DEF lockVars, processVars, listenerVars, supervisorVars, history
<1>1. ASSUME held' = NoEncoder PROVE Stopper'
  BY <1>1 DEF Stopper
\* The holder goes on waiting for the same process.
<1>2. ASSUME held' = held, held # NoEncoder => process'[held] \in {process[held], "exited", "reaped"},
             lost \subseteq lost',
             \A e \in Encoders : process[e] = "reaped" => process'[e] = "reaped",
             \A c \in Clients : client'[c] = "open" => client[c] = "open",
             held # NoEncoder => lock' # <<>> /\ Head(lock') = Head(lock),
             held # NoEncoder /\ Holds("task") => UNCHANGED <<task, failed>>
      PROVE  Stopper'
  <2> SUFFICES ASSUME held # NoEncoder, process'[held] = "shut", Open' # {}
               PROVE  Holds("stop")' \/ (Holds("task")' /\ BlamesRightly')
    BY <1>2 DEF Stopper
  <2>1. process[held] = "shut" /\ Open # {}
    BY <1>2 DEF Open
  <2>2. CASE Holds("stop")
    BY <1>2, <2>2 DEF Holds
  <2>3. CASE Holds("task") /\ BlamesRightly
    <3>1. Holds("task")' /\ UNCHANGED <<task, failed>>
      BY <1>2, <2>3 DEF Holds
    <3>2. task = "blame" => failed \in Encoders
      BY DEF Blame
    <3>3. BlamesRightly'
      BY <1>2, <2>3, <3>1, <3>2 DEF BlamesRightly
    <3> QED BY <3>1, <3>3
  <2> QED BY <2>1, <2>2, <2>3 DEF Stopper
<1>3. held # NoEncoder => lock # <<>>
  BY DEF Processes
<1>4. ASSUME NEW a \in Actors, Asks(a)
      PROVE  held # NoEncoder => lock' # <<>> /\ Head(lock') = Head(lock)
  <2>1. lock # <<>> => 1 \in 1..Len(lock) /\ Head(lock) = lock[1]
    OBVIOUS
  <2>2. lock' \in Seq(Actors) /\ (lock' # <<>> => Head(lock') = lock'[1])
    BY <1>4, Asked
  <2> QED BY <1>3, <1>4, <2>1, <2>2, Asked
<1>5. ASSUME NEW c \in Clients, Ask(c) \/ Wake(c) \/ WaitTimesOut(c) \/ Unsubscribe(c)
      PROVE  Stopper'
  BY <1>2, <1>3, <1>5 DEF Ask, Wake, WaitTimesOut, Unsubscribe
<1>6. ASSUME NEW c \in Clients, Pass(c) PROVE Stopper'
  <2>1. held # NoEncoder => lock' # <<>> /\ Head(lock') = Head(lock)
    BY <1>3, <1>4, <1>6 DEF Pass, Actors
  <2> QED BY <1>2, <1>6, <2>1 DEF Pass
<1>7. ASSUME NEW c \in Clients,
             EnsureFinds(c) \/ EnsureFails(c) \/ \E e \in Encoders : EnsureCreates(c, e)
      PROVE  Stopper'
  BY <1>1, <1>7 DEF EnsureFinds, EnsureFails, EnsureCreates
<1>8. ASSUME NEW a \in Actors, SeeItEnd(a) \/ NothingToStop(a) PROVE Stopper'
  BY <1>1, <1>8 DEF SeeItEnd, NothingToStop
<1>9. CASE StopTakesHandle
  BY <1>9 DEF StopTakesHandle, TakeHandle, Holds, Stopper
<1>10. CASE TaskTakesHandle
  <2>1. Holds("task")' /\ held' = handle /\ handle # NoEncoder /\ UNCHANGED <<task, failed, lost>>
        /\ \A e \in Encoders : e # handle => process'[e] = process[e]
    BY <1>10 DEF TaskTakesHandle, TakeHandle, Holds
  <2>2. held = NoEncoder
    BY <1>10 DEF TaskTakesHandle, TakeHandle
  <2>3. ASSUME task = "blame", failed # handle
        PROVE  failed < handle /\ (process'[failed] = "reaped" \/ failed \in lost)
    <3>1. failed \in Encoders /\ failed <= handle /\ process[failed] # "none" /\ process'[failed] = process[failed]
      BY <2>1, <2>3 DEF Blame
    <3>2. process[failed] = "reaped" \/ failed \in lost
      BY <2>2, <2>3, <3>1 DEF Processes, Known, Encoders
    <3> QED BY <2>3, <3>1, <3>2 DEF Encoders
  <2>4. BlamesRightly'
    BY <2>1, <2>3 DEF BlamesRightly
  <2> QED BY <2>1, <2>4 DEF Stopper
<1>11. CASE MonitorStops
  <2>1. Open' = {}
    BY <1>11 DEF MonitorStops, TakeHandle, Open
  <2> QED BY <2>1 DEF Stopper
<1>12. ASSUME NEW c \in Clients, EnsureStopsDead(c) PROVE Stopper'
  <2>1. process'[held'] = "reaped"
    BY <1>12 DEF EnsureStopsDead, TakeHandle
  <2> QED BY <2>1 DEF Stopper
<1>13. ASSUME NEW e \in Encoders, Exit(e) \/ Reap(e) PROVE Stopper'
  BY <1>2, <1>3, <1>13 DEF Exit, Reap, Running
<1>14. ASSUME NEW e \in Encoders, OutputEnds(e) PROVE Stopper'
  BY <1>2, <1>3, <1>14 DEF OutputEnds, FanoutCloses
<1>15. CASE MonitorLeaves
  BY <1>1, <1>15 DEF MonitorLeaves
<1>16. CASE MonitorAsks \/ StopGoesOn
  <2>1. held # NoEncoder => lock' # <<>> /\ Head(lock') = Head(lock)
    BY <1>4, <1>16 DEF MonitorAsks, StopGoesOn, Actors
  <2> QED BY <1>2, <1>16, <2>1 DEF MonitorAsks, StopGoesOn
<1>17. Holds("task") => task \in {"blame", "recover", "final"}
  BY Holder DEF InTime
<1>18. CASE WriteFails \/ TaskFails \/ TaskCrashes
  <2>1. held # NoEncoder => lock' # <<>> /\ Head(lock') = Head(lock)
    BY <1>4, <1>18 DEF WriteFails, TaskFails, TaskCrashes, Actors
  <2> QED BY <1>2, <1>17, <1>18, <2>1 DEF WriteFails, TaskFails, TaskCrashes
<1>19. CASE TaskStarts \/ TaskWrites \/ WriteEnds \/ TaskEnds
  BY <1>2, <1>3, <1>17, <1>19 DEF TaskStarts, TaskWrites, WriteEnds, TaskEnds
<1>20. CASE StopBegins \/ StopFinishes \/ MonitorIsCut
  <2>1. CASE held' # NoEncoder
    <3>1. /\ held' = held /\ lost \subseteq lost' /\ process' = process
          /\ lock' # <<>> /\ Head(lock') = Head(lock)
      BY <1>20, <2>1, LettingGo
    <3>2. \A c \in Clients : client'[c] = "open" => client[c] = "open"
      BY <1>20 DEF StopBegins, StopFinishes, MonitorIsCut, FanoutCloses
    <3>3. Holds("task") => UNCHANGED <<task, failed>>
      BY <1>20, <2>1 DEF StopBegins, StopFinishes, MonitorIsCut, CancelTask, Cancelled
    <3> QED BY <1>2, <3>1, <3>2, <3>3
  <2> QED BY <1>1, <2>1
<1>21. CASE UNCHANGED vars
  BY <1>2, <1>3, <1>21 DEF vars
<1> QED
  BY <1>5, <1>6, <1>7, <1>8, <1>9, <1>10, <1>11, <1>12, <1>13, <1>14, <1>15, <1>16, <1>18, <1>19,
     <1>20, <1>21
     DEF Next, ClientStep, MonitorStep, TaskStep, StopStep, EnsureSeesEnd, MonitorSeesEnd,
         TaskStopped, StopStopped, StopReturns, Actors

LEMMA EndingNext ==
  TypeOK /\ Processes /\ Queue /\ Ending /\ [Next]_vars => Ending'
<1> SUFFICES ASSUME TypeOK, Processes, Queue, Ending, [Next]_vars PROVE Ending'
  OBVIOUS
<1> USE DEF Ending, NoEncoder
<1> USE DEF lockVars, processVars, listenerVars, supervisorVars, history
<1>1. ASSUME UNCHANGED <<handle, task, stop, late>> PROVE Ending'
  BY <1>1
<1>2. ASSUME NEW c \in Clients,
             \/ Ask(c) \/ Wake(c) \/ WaitTimesOut(c) \/ Unsubscribe(c) \/ Pass(c)
             \/ EnsureFinds(c) \/ EnsureFails(c)
      PROVE  Ending'
  BY <1>1, <1>2 DEF Ask, Wake, WaitTimesOut, Unsubscribe, Pass, EnsureFinds, EnsureFails
<1>3. ASSUME NEW c \in Clients, NEW e \in Encoders, EnsureCreates(c, e) PROVE Ending'
  <2>1. stop \notin {"outputs", "done"}
    BY <1>3, Holder DEF EnsureCreates, InTime
  <2> QED BY <1>3, <2>1 DEF EnsureCreates
<1>4. ASSUME NEW a \in Actors, TakeHandle(a), UNCHANGED supervisorVars PROVE Ending'
  BY <1>4 DEF TakeHandle
<1>5. ASSUME NEW a \in Actors, SeeItEnd(a), UNCHANGED supervisorVars PROVE Ending'
  BY <1>1, <1>5 DEF SeeItEnd
<1>6. ASSUME NEW e \in Encoders, Exit(e) \/ Reap(e) \/ OutputEnds(e) PROVE Ending'
  BY <1>1, <1>6 DEF Exit, Reap, OutputEnds
<1>7. CASE MonitorLeaves \/ MonitorAsks
  BY <1>1, <1>7 DEF MonitorLeaves, MonitorAsks
<1>8. CASE TaskStarts \/ TaskWrites \/ WriteEnds \/ WriteFails \/ TaskFails \/ TaskCrashes \/ TaskEnds
  BY <1>8 DEF TaskStarts, TaskWrites, WriteEnds, WriteFails, TaskFails, TaskCrashes, TaskEnds
<1>9. ASSUME NEW a, StopReturns(a) PROVE handle = NoEncoder /\ UNCHANGED <<handle, late>>
  BY <1>9 DEF StopReturns, SeeItEnd, NothingToStop, Processes
<1>10. CASE TaskStopped
  BY <1>9, <1>10 DEF TaskStopped, TaskKeeps
<1>11. CASE StopStopped
  BY <1>9, <1>11 DEF StopStopped
<1>12. CASE StopGoesOn
  BY <1>12 DEF StopGoesOn
<1>13. CASE StopBegins \/ StopFinishes \/ MonitorIsCut
  BY <1>13 DEF StopBegins, StopFinishes, MonitorIsCut
<1>14. CASE UNCHANGED vars
  BY <1>1, <1>14 DEF vars
<1> QED
  BY <1>2, <1>3, <1>4, <1>5, <1>6, <1>7, <1>8, <1>10, <1>11, <1>12, <1>13, <1>14
     DEF Next, ClientStep, MonitorStep, TaskStep, StopStep, EnsureStopsDead, EnsureSeesEnd,
         MonitorStops, MonitorSeesEnd, TaskTakesHandle, StopTakesHandle, Actors

(***************************************************************************)
(* The theorems.                                                           *)
(***************************************************************************)
LEMMA EncodingAlways == Spec => [](TypeOK /\ Encoding)
<1>1. Init => TypeOK
  BY TypesInit
<1>2. Init => Encoding
  <2> SUFFICES ASSUME Init PROVE Encoding
    OBVIOUS
  <2>1. Open = {} /\ Elements(lock) = {} /\ Ordered(lock)
    BY DEF Init, Open, Elements, Ordered
  <2> QED
    BY <2>1 DEF Init, Encoding, Processes, Fanout, Blame, Stopper, Queue, Ending, NoEncoder
<1>3. TypeOK /\ Encoding /\ [Next]_vars => TypeOK' /\ Encoding'
  BY TypesNext, ProcessesNext, FanoutNext, BlameNext, QueueNext, StopperNext, EndingNext
     DEF Encoding
<1> QED BY <1>1, <1>2, <1>3, PTL DEF Spec

\* Two FLAC processes of a channel never run at once, whatever requests, the monitor, the task and
\* stop() do, except for those whose end nobody waited for any more.
THEOREM OneEncoderRuns == Spec => []OneEncoder
<1>1. TypeOK /\ Encoding => OneEncoder
  BY DEF TypeOK, Encoding, Processes, Known, OneEncoder, Running, NoEncoder, Encoders
<1> QED BY <1>1, EncodingAlways, PTL

\* No listener hears an encoder that is not the one it was subscribed to.
THEOREM OneVoiceIsHeard == Spec => []OneVoice
<1>1. TypeOK /\ Encoding => OneVoice
  BY DEF TypeOK, Encoding, Processes, Fanout, Known, OneVoice, NoEncoder, Encoders
<1> QED BY <1>1, EncodingAlways, PTL

\* An encoder that somebody listens to is made to end by the supervisor itself, and by its task for
\* a failed write to this encoder or to one that is over.
THEOREM OnlyTheSupervisorStops == Spec => []StoppedByItsSupervisor
<1>1. ASSUME TypeOK, Encoding, NEW c \in Open, process[follows[c]] = "shut", follows[c] \notin lost
      PROVE  /\ held = follows[c]
             /\ Holds("stop") \/ (Holds("task") /\ BlamesRightly)
  <2>1. follows[c] \in Encoders
    BY <1>1 DEF Encoding, Fanout, TypeOK, Open
  <2>2. held = follows[c] /\ held # NoEncoder
    BY <1>1, <2>1 DEF Encoding, Processes, NoEncoder, Encoders
  <2> QED BY <1>1, <2>2 DEF Encoding, Stopper
<1>2. TypeOK /\ Encoding => StoppedByItsSupervisor
  BY <1>1 DEF StoppedByItsSupervisor, BlamesRightly
<1> QED BY <1>2, EncodingAlways, PTL

\* stop() leaves no encoder and no listener behind, and a crashed task only what a request started
\* after its last stop.
THEOREM StopLeavesNothing == Spec => []NothingRemains
<1>1. ASSUME TypeOK, Encoding, Gone
      PROVE  Remaining \subseteq lost \union (IF stop = "done" THEN {} ELSE late)
  <2>1. held = NoEncoder
    BY <1>1 DEF Gone, Encoding, Processes
  <2>2. \A e \in Remaining : e \in lost \/ (e = handle /\ handle # NoEncoder)
    BY <1>1, <2>1 DEF Remaining, Running, Encoding, Processes, Fanout, Known, TypeOK, Encoders,
       NoEncoder
  <2>3. handle # NoEncoder => stop = "no" /\ handle \in late
    BY <1>1 DEF Gone, Encoding, Ending, NoEncoder
  <2> QED BY <2>2, <2>3
<1>2. TypeOK /\ Encoding => NothingRemains
  BY <1>1 DEF NothingRemains
<1> QED BY <1>2, EncodingAlways, PTL

=============================================================================
