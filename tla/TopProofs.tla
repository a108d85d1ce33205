------------------------------ MODULE TopProofs ------------------------------
(***************************************************************************)
(* Subscription, SettingsView, GpuView, IncidentsView, LogView and Trend   *)
(* are safe for every instance: the connection of an app to the daemon, and*)
(* the pages it shows, whose answers arrive late, out of order or not at   *)
(* all.  Each part has an inductive invariant made of named conjuncts,     *)
(* lemmas that every step keeps each of them, and a theorem that puts it   *)
(* together.  What the pages keep of a list needs induction over lists:    *)
(* AllSequences states it for a set of lists, and the lemmas on Within     *)
(* follow from it.                                                         *)
(***************************************************************************)
EXTENDS Subscription, SettingsView, GpuView, IncidentsView, LogView, Trend,
        FiniteSetTheorems, SequenceTheorems, WellFoundedInduction, TLAPS

(* Subscription *)

\* The subscribers whose connection is in a state.
With(state) == {c \in Clients : handler[c] = state}

\* The flags of the daemon and of the screens.
FlagTypes ==
  /\ server \in {"down", "up", "stopping"} /\ socket \in {"none", "bound", "stale"}
  /\ frozen \in BOOLEAN
  /\ closing \in [Clients -> BOOLEAN] /\ suspended \in [Clients -> BOOLEAN]

\* The daemon's end of the connections.
LinkTypes ==
  /\ handler \in [Clients -> {"none", "queued", "subscribe"}]
  /\ since \in [Clients -> BOOLEAN]

\* The events on the wire, and the faults so far.
NumberTypes == faults \in 0..MaxFaults /\ wire \in [Clients -> 0..Wire]

\* The subscription threads.
WorkerTypes ==
  /\ thread \in [Clients -> {"connect", "read", "deliver", "backoff", "ended"}]
  /\ connected \in [Clients -> BOOLEAN] /\ error \in [Clients -> Errors]
  /\ told \in [Clients -> BOOLEAN \X Errors] /\ stop \in [Clients -> BOOLEAN]

\* Only a thread that reads or delivers has a connection: the others closed theirs, or
\* never had one.
HandlerInv ==
  \A c \in Clients : thread[c] \notin {"read", "deliver"} => handler[c] = "none"

\* client_count is the number of connections being served, each counted once: the
\* visitors', those whose client has gone and nobody has noticed, and the subscribers'.
CountInv ==
  /\ visitors \in 0..MaxVisitors /\ deadServed \in Nat /\ IsFiniteSet(With("subscribe"))
  /\ clients = visitors + deadServed + Cardinality(With("subscribe"))

\* The backlog holds what was connected and not accepted.
QueueInv ==
  /\ deadQueued \in Nat /\ IsFiniteSet(With("queued"))
  /\ Queued <= Backlog

\* A daemon that is down serves and queues nobody and listens on no path.
DownInv ==
  server = "down" =>
    /\ socket # "bound" /\ visitors = 0 /\ deadQueued = 0 /\ deadServed = 0
    /\ \A c \in Clients : handler[c] = "none"

\* The slow tick of each period builds the snapshot, so that it is younger than the phase.
ClockInv ==
  /\ phase \in 0..SlowEvery - 1 /\ age \in 0..SlowEvery - 1
  /\ phase > 0 => age < phase

\* Whoever has been served for a whole tick is sent the last tick's snapshot.
FreshInv == \A c \in Clients : handler[c] = "subscribe" /\ since[c] => age = 0

\* An app that is not closing was last told where its subscription stands, and only a
\* closing one has been stopped.
ToldInv == ToldIsCurrent /\ \A c \in Clients : stop[c] => closing[c]

\* What the constants give.
LEMMA SubConstants ==
  /\ SlowEvery \in Nat /\ SlowEvery > 0 /\ Backlog \in Nat /\ Backlog > 0
  /\ Wire \in Nat /\ Wire > 0 /\ MaxVisitors \in Nat /\ MaxFaults \in Nat
  BY SubscriptionAssumption

\* One connection that changes its state is counted off where it was and on where it is.
LEMMA HandlerMoves ==
  ASSUME LinkTypes, NEW c \in Clients, NEW x \in {"none", "queued", "subscribe"},
         handler' = [handler EXCEPT ![c] = x], NEW k \in {"queued", "subscribe"},
         IsFiniteSet(With(k))
  PROVE  /\ IsFiniteSet(With(k)') /\ Cardinality(With(k)) \in Nat
         /\ Cardinality(With(k)') = Cardinality(With(k))
              + (IF x = k THEN 1 ELSE 0) - (IF handler[c] = k THEN 1 ELSE 0)
<1>1. Cardinality(With(k)) \in Nat
  BY FS_CardinalityType
<1>2. c \in With(k) <=> handler[c] = k
  BY DEF With
<1>3. CASE x = k
  <2>1. With(k)' = With(k) \cup {c}
    BY <1>3 DEF With, LinkTypes
  <2> QED
    BY <1>1, <1>2, <1>3, <2>1, FS_AddElement
<1>4. CASE x # k
  <2>1. With(k)' = With(k) \ {c}
    BY <1>4 DEF With, LinkTypes
  <2> QED
    BY <1>1, <1>2, <1>4, <2>1, FS_RemoveElement
<1> QED
  BY <1>1, <1>3, <1>4

\* A step that leaves the connections, the count and the snapshot alone.
Idle ==
  /\ UNCHANGED <<socket, phase, age, clients, visitors, deadQueued, deadServed,
                 handler, since>>
  /\ server' = "down" <=> server = "down"

\* What a step may do to the connections and to the daemon's count of them: the
\* threads' own steps are Idle or give a connection up.
LinkStep ==
  \/ Start \/ Tick \/ AcceptDead \/ LeaveDead \/ Visit \/ VisitEnds \/ CloseSocket \/ Idle
  \/ \E path \in {"none", "stale"} : Gone(path)
  \/ \E c \in Clients : Accept(c) \/ Leave(c) \/ Connect(c) \/ Abandon(c)

\* Every step is one of these.
LEMMA LinkKinds ==
  ASSUME FlagTypes, [SubscriptionNext]_subVars
  PROVE  LinkStep
<1> USE DEF subVars, serverVars, links, worker, Idle
<1>1. CASE Start \/ Tick \/ AcceptDead \/ LeaveDead \/ Visit \/ VisitEnds \/ CloseSocket
  BY <1>1 DEF LinkStep
<1>2. CASE AskStop \/ Freeze \/ Thaw
  BY <1>2 DEF LinkStep, AskStop, Freeze, Thaw
<1>3. CASE Exit \/ Crash
  BY <1>3 DEF LinkStep, Exit, Crash, FlagTypes
<1>4. CASE \E c \in Clients : Accept(c) \/ Leave(c) \/ Connect(c)
  BY <1>4 DEF LinkStep
<1>5. CASE \E c \in Clients : Receive(c) \/ Deliver(c) \/ StreamFails(c)
  BY <1>5 DEF LinkStep, Receive, Deliver, StreamFails
<1>6. CASE \E c \in Clients : SubscriptionSend(c) \/ ConnectFails(c) \/ Retry(c) \/ LoopEnds(c)
  BY <1>6 DEF LinkStep, SubscriptionSend, ConnectFails, Retry, LoopEnds
<1>7. CASE \E c \in Clients : Unmount(c) \/ StopSub(c) \/ Suspend(c) \/ Resume(c)
  BY <1>7 DEF LinkStep, Unmount, StopSub, Suspend, Resume
<1>8. CASE UNCHANGED subVars
  BY <1>8 DEF LinkStep
<1> QED
  BY <1>1, <1>2, <1>3, <1>4, <1>5, <1>6, <1>7, <1>8 DEF SubscriptionNext, Work

\* The connections stay of their kind.
LEMMA LinkTypesStep ==
  ASSUME LinkTypes, LinkStep
  PROVE  LinkTypes'
<1> USE DEF LinkTypes, links, worker, serverVars
<1>1. CASE Start
  BY <1>1 DEF Start
<1>2. CASE Tick
  BY <1>2 DEF Tick
<1>3. CASE AcceptDead
  BY <1>3 DEF AcceptDead
<1>4. CASE LeaveDead
  BY <1>4 DEF LeaveDead
<1>5. CASE Visit
  BY <1>5 DEF Visit
<1>6. CASE VisitEnds
  BY <1>6 DEF VisitEnds
<1>7. CASE CloseSocket
  BY <1>7 DEF CloseSocket
<1>8. CASE Idle
  BY <1>8 DEF Idle
<1>9. CASE \E path \in {"none", "stale"} : Gone(path)
  BY <1>9 DEF Gone
<1>10. CASE \E c \in Clients : Accept(c)
  BY <1>10 DEF Accept
<1>11. CASE \E c \in Clients : Leave(c)
  BY <1>11 DEF Leave
<1>12. CASE \E c \in Clients : Connect(c)
  BY <1>12 DEF Connect
<1>13. CASE \E c \in Clients : Abandon(c)
  BY <1>13 DEF Abandon
<1> QED
  BY <1>1, <1>2, <1>3, <1>4, <1>5, <1>6, <1>7, <1>8, <1>9, <1>10, <1>11, <1>12, <1>13
     DEF LinkStep

\* A daemon that goes down, by a stop or by a crash, drops every connection.
LEMMA DownStep ==
  ASSUME FlagTypes, LinkTypes, DownInv, LinkStep
  PROVE  DownInv'
<1> USE DEF DownInv, FlagTypes, LinkTypes, links, worker, serverVars, Runs
<1>1. CASE Start
  BY <1>1 DEF Start
<1>2. CASE Tick
  BY <1>2 DEF Tick
<1>3. CASE AcceptDead
  BY <1>3 DEF AcceptDead
<1>4. CASE LeaveDead
  BY <1>4 DEF LeaveDead
<1>5. CASE Visit
  BY <1>5 DEF Visit
<1>6. CASE VisitEnds
  BY <1>6 DEF VisitEnds
<1>7. CASE CloseSocket
  BY <1>7 DEF CloseSocket
<1>8. CASE Idle
  BY <1>8 DEF Idle
<1>9. CASE \E path \in {"none", "stale"} : Gone(path)
  BY <1>9 DEF Gone
<1>10. CASE \E c \in Clients : Accept(c)
  BY <1>10 DEF Accept
<1>11. CASE \E c \in Clients : Leave(c)
  BY <1>11 DEF Leave
<1>12. CASE \E c \in Clients : Connect(c)
  BY <1>12 DEF Connect
<1>13. CASE \E c \in Clients : Abandon(c)
  <2> PICK c \in Clients : Abandon(c)
    BY <1>13
  <2> SUFFICES ASSUME server = "down" PROVE DownInv'
    BY DEF Abandon
  <2>1. handler[c] = "none"
    OBVIOUS
  <2> QED
    BY <2>1 DEF Abandon
<1> QED
  BY <1>1, <1>2, <1>3, <1>4, <1>5, <1>6, <1>7, <1>8, <1>9, <1>10, <1>11, <1>12, <1>13
     DEF LinkStep

\* Every accept counts one on, and every end of a served connection one off, once,
\* whichever side ends it.
LEMMA CountStep ==
  ASSUME LinkTypes, HandlerInv, DownInv, CountInv, LinkStep
  PROVE  CountInv'
<1> USE DEF CountInv, Count, Uncount, links, worker, serverVars
<1>a. UNCHANGED handler => With("subscribe")' = With("subscribe")
  BY DEF With
<1>b. (\A c \in Clients : handler'[c] = "none") =>
        IsFiniteSet(With("subscribe")') /\ Cardinality(With("subscribe")') = 0
  <2>1. (\A c \in Clients : handler'[c] = "none") => With("subscribe")' = {}
    BY DEF With
  <2> QED
    BY <2>1, FS_EmptySet
<1>c. Cardinality(With("subscribe")) \in Nat
  BY FS_CardinalityType
<1>1. CASE Start
  BY <1>1, <1>b, SubConstants DEF Start, DownInv
<1>2. CASE Tick
  BY <1>2, <1>a, <1>c, SubConstants DEF Tick
<1>3. CASE AcceptDead
  BY <1>3, <1>a, <1>c, SubConstants DEF AcceptDead
<1>4. CASE LeaveDead
  BY <1>4, <1>a, <1>c, SubConstants DEF LeaveDead
<1>5. CASE Visit
  BY <1>5, <1>a, <1>c, SubConstants DEF Visit
<1>6. CASE VisitEnds
  BY <1>6, <1>a, <1>c, SubConstants DEF VisitEnds
<1>7. CASE CloseSocket
  <2>1. With("subscribe")' = With("subscribe")
    BY <1>7 DEF CloseSocket, With, LinkTypes
  <2> QED
    BY <1>7, <2>1 DEF CloseSocket
<1>8. CASE Idle
  BY <1>8, <1>a, <1>c, SubConstants DEF Idle
<1>9. CASE \E path \in {"none", "stale"} : Gone(path)
  BY <1>9, <1>b, SubConstants DEF Gone
<1>10. CASE \E c \in Clients : Accept(c)
  <2> PICK c \in Clients : Accept(c)
    BY <1>10
  <2>1. handler' = [handler EXCEPT ![c] = "subscribe"]
    BY DEF Accept
  <2>2. /\ IsFiniteSet(With("subscribe")') /\ Cardinality(With("subscribe")) \in Nat
        /\ Cardinality(With("subscribe")') = Cardinality(With("subscribe"))
             + (IF "subscribe" = "subscribe" THEN 1 ELSE 0)
             - (IF handler[c] = "subscribe" THEN 1 ELSE 0)
    BY <2>1, HandlerMoves
  <2> QED
    BY <2>2 DEF Accept
<1>11. CASE \E c \in Clients : Leave(c)
  <2> PICK c \in Clients : Leave(c)
    BY <1>11
  <2>1. handler' = [handler EXCEPT ![c] = "none"]
    BY DEF Leave
  <2>2. /\ IsFiniteSet(With("subscribe")') /\ Cardinality(With("subscribe")) \in Nat
        /\ Cardinality(With("subscribe")') = Cardinality(With("subscribe"))
             + (IF "none" = "subscribe" THEN 1 ELSE 0)
             - (IF handler[c] = "subscribe" THEN 1 ELSE 0)
    BY <2>1, HandlerMoves
  <2> QED
    BY <2>2 DEF Leave
<1>12. CASE \E c \in Clients : Connect(c)
  <2> PICK c \in Clients : Connect(c)
    BY <1>12
  <2>1. handler' = [handler EXCEPT ![c] = "queued"]
    BY DEF Connect
  <2>2. /\ IsFiniteSet(With("subscribe")') /\ Cardinality(With("subscribe")) \in Nat
        /\ Cardinality(With("subscribe")') = Cardinality(With("subscribe"))
             + (IF "queued" = "subscribe" THEN 1 ELSE 0)
             - (IF handler[c] = "subscribe" THEN 1 ELSE 0)
    BY <2>1, HandlerMoves
  <2>3. handler[c] # "subscribe"
    BY DEF Connect, HandlerInv
  <2> QED
    BY <1>c, <2>2, <2>3 DEF Connect
<1>13. CASE \E c \in Clients : Abandon(c)
  <2> PICK c \in Clients : Abandon(c)
    BY <1>13
  <2>1. handler' = [handler EXCEPT ![c] = "none"]
    BY DEF Abandon
  <2>2. /\ IsFiniteSet(With("subscribe")') /\ Cardinality(With("subscribe")) \in Nat
        /\ Cardinality(With("subscribe")') = Cardinality(With("subscribe"))
             + (IF "none" = "subscribe" THEN 1 ELSE 0)
             - (IF handler[c] = "subscribe" THEN 1 ELSE 0)
    BY <2>1, HandlerMoves
  <2> QED
    BY <2>2 DEF Abandon
<1> QED
  BY <1>1, <1>2, <1>3, <1>4, <1>5, <1>6, <1>7, <1>8, <1>9, <1>10, <1>11, <1>12, <1>13
     DEF LinkStep

\* A connection is let in below the backlog only, and one given up while it was queued
\* keeps its place until it is accepted.
LEMMA QueueStep ==
  ASSUME LinkTypes, QueueInv, LinkStep
  PROVE  QueueInv'
<1> USE DEF QueueInv, links, worker, serverVars
<1>a. UNCHANGED handler => With("queued")' = With("queued")
  BY DEF With
<1>b. (\A c \in Clients : handler'[c] = "none") =>
        IsFiniteSet(With("queued")') /\ Cardinality(With("queued")') = 0
  <2>1. (\A c \in Clients : handler'[c] = "none") => With("queued")' = {}
    BY DEF With
  <2> QED
    BY <2>1, FS_EmptySet
<1>c. Cardinality(With("queued")) \in Nat
  BY FS_CardinalityType
<1>d. Queued = deadQueued + Cardinality(With("queued"))
  BY DEF Queued, With
<1>e. Queued' = deadQueued' + Cardinality(With("queued")')
  BY DEF Queued, With
<1>1. CASE Start
  BY <1>1, <1>a, <1>c, <1>d, <1>e, SubConstants DEF Start
<1>2. CASE Tick
  BY <1>2, <1>a, <1>c, <1>d, <1>e, SubConstants DEF Tick
<1>3. CASE AcceptDead
  BY <1>3, <1>a, <1>c, <1>d, <1>e, SubConstants DEF AcceptDead
<1>4. CASE LeaveDead
  BY <1>4, <1>a, <1>c, <1>d, <1>e, SubConstants DEF LeaveDead
<1>5. CASE Visit
  BY <1>5, <1>a, <1>c, <1>d, <1>e, SubConstants DEF Visit
<1>6. CASE VisitEnds
  BY <1>6, <1>a, <1>c, <1>d, <1>e, SubConstants DEF VisitEnds
<1>7. CASE CloseSocket
  <2>1. \A c \in Clients : handler'[c] # "queued"
    BY <1>7 DEF CloseSocket, LinkTypes
  <2>2. With("queued")' = {}
    BY <2>1 DEF With
  <2> QED
    BY <1>7, <1>e, <2>2, FS_EmptySet, SubConstants DEF CloseSocket
<1>8. CASE Idle
  BY <1>8, <1>a, <1>c, <1>d, <1>e, SubConstants DEF Idle
<1>9. CASE \E path \in {"none", "stale"} : Gone(path)
  BY <1>9, <1>b, <1>e, SubConstants DEF Gone
<1>10. CASE \E c \in Clients : Accept(c)
  <2> PICK c \in Clients : Accept(c)
    BY <1>10
  <2>1. handler' = [handler EXCEPT ![c] = "subscribe"]
    BY DEF Accept
  <2>2. /\ IsFiniteSet(With("queued")')
        /\ Cardinality(With("queued")') = Cardinality(With("queued"))
             + (IF "subscribe" = "queued" THEN 1 ELSE 0) - (IF handler[c] = "queued" THEN 1 ELSE 0)
    BY <2>1, HandlerMoves
  <2> QED
    BY <1>c, <1>d, <1>e, <2>2, SubConstants DEF Accept
<1>11. CASE \E c \in Clients : Leave(c)
  <2> PICK c \in Clients : Leave(c)
    BY <1>11
  <2>1. handler' = [handler EXCEPT ![c] = "none"]
    BY DEF Leave
  <2>2. /\ IsFiniteSet(With("queued")')
        /\ Cardinality(With("queued")') = Cardinality(With("queued"))
             + (IF "none" = "queued" THEN 1 ELSE 0) - (IF handler[c] = "queued" THEN 1 ELSE 0)
    BY <2>1, HandlerMoves
  <2> QED
    BY <1>c, <1>d, <1>e, <2>2, SubConstants DEF Leave
<1>12. CASE \E c \in Clients : Connect(c)
  <2> PICK c \in Clients : Connect(c)
    BY <1>12
  <2>1. handler' = [handler EXCEPT ![c] = "queued"]
    BY DEF Connect
  <2>2. /\ IsFiniteSet(With("queued")')
        /\ Cardinality(With("queued")') = Cardinality(With("queued"))
             + (IF "queued" = "queued" THEN 1 ELSE 0) - (IF handler[c] = "queued" THEN 1 ELSE 0)
    BY <2>1, HandlerMoves
  <2> QED
    BY <1>c, <1>d, <1>e, <2>2, SubConstants DEF Connect
<1>13. CASE \E c \in Clients : Abandon(c)
  <2> PICK c \in Clients : Abandon(c)
    BY <1>13
  <2>1. handler' = [handler EXCEPT ![c] = "none"]
    BY DEF Abandon
  <2>2. /\ IsFiniteSet(With("queued")')
        /\ Cardinality(With("queued")') = Cardinality(With("queued"))
             + (IF "none" = "queued" THEN 1 ELSE 0) - (IF handler[c] = "queued" THEN 1 ELSE 0)
    BY <2>1, HandlerMoves
  <2> QED
    BY <1>c, <1>d, <1>e, <2>2, SubConstants DEF Abandon
<1> QED
  BY <1>1, <1>2, <1>3, <1>4, <1>5, <1>6, <1>7, <1>8, <1>9, <1>10, <1>11, <1>12, <1>13
     DEF LinkStep

\* A tick that does not build the snapshot ages it by one, and the slow tick always builds.
LEMMA ClockStep ==
  ASSUME ClockInv, LinkStep
  PROVE  ClockInv'
<1> USE DEF ClockInv, links, worker, serverVars
<1>1. CASE Start
  BY <1>1, SubConstants DEF Start
<1>2. CASE Tick
  <2>1. phase' = IF phase + 1 = SlowEvery THEN 0 ELSE phase + 1
    BY <1>2, SubConstants DEF Tick
  <2> QED
    BY <1>2, <2>1, SubConstants DEF Tick, BuildsSnapshot
<1>3. CASE AcceptDead
  BY <1>3 DEF AcceptDead
<1>4. CASE LeaveDead
  BY <1>4 DEF LeaveDead
<1>5. CASE Visit
  BY <1>5 DEF Visit
<1>6. CASE VisitEnds
  BY <1>6 DEF VisitEnds
<1>7. CASE CloseSocket
  BY <1>7 DEF CloseSocket
<1>8. CASE Idle
  BY <1>8 DEF Idle
<1>9. CASE \E path \in {"none", "stale"} : Gone(path)
  BY <1>9 DEF Gone
<1>10. CASE \E c \in Clients : Accept(c)
  BY <1>10 DEF Accept
<1>11. CASE \E c \in Clients : Leave(c)
  BY <1>11 DEF Leave
<1>12. CASE \E c \in Clients : Connect(c)
  BY <1>12 DEF Connect
<1>13. CASE \E c \in Clients : Abandon(c)
  BY <1>13 DEF Abandon
<1> QED
  BY <1>1, <1>2, <1>3, <1>4, <1>5, <1>6, <1>7, <1>8, <1>9, <1>10, <1>11, <1>12, <1>13
     DEF LinkStep

\* By CountInv a served subscriber keeps the count above zero, so every tick under it
\* builds the snapshot, whoever else comes or goes.
LEMMA FreshStep ==
  ASSUME LinkTypes, CountInv, DownInv, FreshInv, LinkStep
  PROVE  FreshInv'
<1> USE DEF FreshInv, LinkTypes, links, worker, serverVars
<1>1. CASE Start
  BY <1>1 DEF Start, DownInv
<1>2. CASE Tick
  <2> SUFFICES ASSUME NEW c \in Clients, handler[c] = "subscribe" PROVE age' = 0
    BY <1>2 DEF Tick
  <2>1. c \in With("subscribe")
    BY DEF With
  <2>2. Cardinality(With("subscribe")) \in Nat /\ Cardinality(With("subscribe")) # 0
    BY <2>1, FS_CardinalityType, FS_EmptySet DEF CountInv
  <2>3. clients > 0
    BY <2>2 DEF CountInv
  <2> QED
    BY <1>2, <2>3 DEF Tick, BuildsSnapshot
<1>3. CASE AcceptDead
  BY <1>3 DEF AcceptDead
<1>4. CASE LeaveDead
  BY <1>4 DEF LeaveDead
<1>5. CASE Visit
  BY <1>5 DEF Visit
<1>6. CASE VisitEnds
  BY <1>6 DEF VisitEnds
<1>7. CASE CloseSocket
  BY <1>7 DEF CloseSocket
<1>8. CASE Idle
  BY <1>8 DEF Idle
<1>9. CASE \E path \in {"none", "stale"} : Gone(path)
  BY <1>9 DEF Gone
<1>10. CASE \E c \in Clients : Accept(c)
  BY <1>10 DEF Accept
<1>11. CASE \E c \in Clients : Leave(c)
  BY <1>11 DEF Leave
<1>12. CASE \E c \in Clients : Connect(c)
  BY <1>12 DEF Connect
<1>13. CASE \E c \in Clients : Abandon(c)
  BY <1>13 DEF Abandon
<1> QED
  BY <1>1, <1>2, <1>3, <1>4, <1>5, <1>6, <1>7, <1>8, <1>9, <1>10, <1>11, <1>12, <1>13
     DEF LinkStep

\* _conn leaves the thread of its kind.
LEMMA ConnTypes ==
  ASSUME WorkerTypes, NEW c \in Clients, NEW ok \in BOOLEAN, NEW err \in Errors,
         Conn(c, ok, err)
  PROVE  /\ connected' \in [Clients -> BOOLEAN] /\ error' \in [Clients -> Errors]
         /\ told' \in [Clients -> BOOLEAN \X Errors]
<1>1. connected' = [connected EXCEPT ![c] = ok] /\ error' \in {error, [error EXCEPT ![c] = err]}
  BY DEF Conn
<1>2. told' \in {told, [told EXCEPT ![c] = <<ok, IF ok THEN "none" ELSE err>>]}
  BY DEF Conn
<1>3. <<ok, IF ok THEN "none" ELSE err>> \in BOOLEAN \X Errors
  BY DEF Errors
<1>4. connected' \in [Clients -> BOOLEAN]
  BY <1>1 DEF WorkerTypes
<1>5. error' \in [Clients -> Errors]
  BY <1>1 DEF WorkerTypes
<1>6. told' \in [Clients -> BOOLEAN \X Errors]
  BY <1>2, <1>3 DEF WorkerTypes
<1> QED
  BY <1>4, <1>5, <1>6

\* _conn tells on every change, so what was told stays current.
LEMMA ConnTells ==
  ASSUME WorkerTypes, FlagTypes, ToldIsCurrent, NEW c \in Clients, ~stop[c], UNCHANGED closing,
         NEW ok \in BOOLEAN, NEW err, Conn(c, ok, err)
  PROVE  ToldIsCurrent'
<1> SUFFICES ASSUME NEW d \in Clients, ~closing[d]
             PROVE  told'[d] = <<connected'[d], IF connected'[d] THEN "none" ELSE error'[d]>>
  BY DEF ToldIsCurrent
<1> DEFINE changed == ok # connected[c] \/ (~ok /\ err # error[c])
<1>1. /\ connected' = [connected EXCEPT ![c] = ok]
      /\ error' = IF ok THEN error ELSE [error EXCEPT ![c] = err]
      /\ told' = IF changed /\ ~stop[c] /\ ~closing[c]
                 THEN [told EXCEPT ![c] = <<ok, IF ok THEN "none" ELSE err>>] ELSE told
  BY DEF Conn
<1>2. told[d] = <<connected[d], IF connected[d] THEN "none" ELSE error[d]>>
  BY DEF ToldIsCurrent
<1>3. CASE d # c
  BY <1>1, <1>2, <1>3 DEF WorkerTypes
<1>4. CASE d = c /\ changed
  <2>1. told'[d] = <<ok, IF ok THEN "none" ELSE err>> /\ connected'[d] = ok
    BY <1>1, <1>4 DEF WorkerTypes
  <2>2. ~ok => error'[d] = err
    BY <1>1, <1>4 DEF WorkerTypes
  <2> QED
    BY <2>1, <2>2
<1>5. CASE d = c /\ ~changed
  <2>1. told'[d] = told[d] /\ connected'[d] = connected[d]
    BY <1>1, <1>5 DEF WorkerTypes
  <2>2. error'[d] = error[d]
    BY <1>1, <1>5 DEF WorkerTypes
  <2> QED
    BY <1>2, <2>1, <2>2
<1> QED
  BY <1>3, <1>4, <1>5

\* A failure ends a stopped thread, and any other backs off and tells why.
LEMMA FailFacts ==
  ASSUME WorkerTypes, NEW c \in Clients, NEW err \in Errors, Fail(c, err)
  PROVE  /\ thread' \in [Clients -> {"connect", "read", "deliver", "backoff", "ended"}]
         /\ thread'[c] \in {"ended", "backoff"}
         /\ \A d \in Clients : d # c => thread'[d] = thread[d]
         /\ \/ UNCHANGED <<connected, error, told>>
            \/ ~stop[c] /\ Conn(c, FALSE, err)
  BY DEF Fail, WorkerTypes

\* ConnectFails and StreamFails are such failures.
LEMMA FailingFacts ==
  ASSUME NEW c \in Clients, ConnectFails(c) \/ StreamFails(c)
  PROVE  /\ UNCHANGED <<stop, closing, suspended, faults>>
         /\ \E err \in Errors : Fail(c, err)
         /\ \/ UNCHANGED <<serverVars, links>> /\ thread[c] = "connect"
            \/ Abandon(c)
  BY DEF ConnectFails, StreamFails, Errors

\* A status marks the connection as up, or ends a stopped thread and its connection.
LEMMA ReceiveFacts ==
  ASSUME WorkerTypes, NEW c \in Clients, Receive(c)
  PROVE  /\ UNCHANGED <<stop, closing, suspended, faults>> /\ thread[c] = "read" /\ wire[c] > 0
         /\ \/ /\ UNCHANGED <<serverVars, handler, since>> /\ ~stop[c] /\ Conn(c, TRUE, "none")
               /\ wire' = [wire EXCEPT ![c] = @ - 1]
               /\ thread' = [thread EXCEPT ![c] = "deliver"]
            \/ /\ UNCHANGED <<connected, error, told>> /\ Abandon(c)
               /\ thread' = [thread EXCEPT ![c] = "ended"]
  BY DEF Receive

\* The flags stay of their kind.
LEMMA FlagStep ==
  FlagTypes /\ [SubscriptionNext]_subVars => FlagTypes'
<1> SUFFICES ASSUME FlagTypes, [SubscriptionNext]_subVars PROVE FlagTypes'
  OBVIOUS
<1> USE DEF FlagTypes, serverVars, links, worker
<1>1. CASE Start
  BY <1>1 DEF Start
<1>2. CASE Tick
  BY <1>2 DEF Tick
<1>3. CASE AcceptDead
  BY <1>3 DEF AcceptDead
<1>4. CASE LeaveDead
  BY <1>4 DEF LeaveDead
<1>5. CASE Visit
  BY <1>5 DEF Visit
<1>6. CASE VisitEnds
  BY <1>6 DEF VisitEnds
<1>7. CASE AskStop
  BY <1>7 DEF AskStop
<1>8. CASE CloseSocket
  BY <1>8 DEF CloseSocket
<1>9. CASE Exit
  BY <1>9 DEF Exit, Gone
<1>10. CASE Crash
  BY <1>10 DEF Crash, Gone
<1>11. CASE Freeze
  BY <1>11 DEF Freeze
<1>12. CASE Thaw
  BY <1>12 DEF Thaw
<1>13. CASE \E c \in Clients : Accept(c)
  BY <1>13 DEF Accept
<1>14. CASE \E c \in Clients : SubscriptionSend(c)
  BY <1>14 DEF SubscriptionSend
<1>15. CASE \E c \in Clients : Leave(c)
  BY <1>15 DEF Leave
<1>16. CASE \E c \in Clients : Connect(c)
  BY <1>16 DEF Connect
<1>17. CASE \E c \in Clients : ConnectFails(c)
  BY <1>17 DEF ConnectFails, Fail, Conn
<1>18. CASE \E c \in Clients : Receive(c)
  BY <1>18 DEF Receive, Abandon, Conn
<1>19. CASE \E c \in Clients : Deliver(c)
  BY <1>19 DEF Deliver, Abandon
<1>20. CASE \E c \in Clients : StreamFails(c)
  BY <1>20 DEF StreamFails, Abandon, Fail, Conn
<1>21. CASE \E c \in Clients : Retry(c)
  BY <1>21 DEF Retry
<1>22. CASE \E c \in Clients : LoopEnds(c)
  BY <1>22 DEF LoopEnds
<1>23. CASE \E c \in Clients : Unmount(c)
  BY <1>23 DEF Unmount
<1>24. CASE \E c \in Clients : StopSub(c)
  BY <1>24 DEF StopSub
<1>25. CASE \E c \in Clients : Suspend(c)
  BY <1>25 DEF Suspend
<1>26. CASE \E c \in Clients : Resume(c)
  BY <1>26 DEF Resume
<1>27. CASE UNCHANGED subVars
  BY <1>27 DEF subVars
<1> QED
  BY <1>1, <1>2, <1>3, <1>4, <1>5, <1>6, <1>7, <1>8, <1>9, <1>10, <1>11, <1>12,
     <1>13, <1>14, <1>15, <1>16, <1>17, <1>18, <1>19, <1>20, <1>21, <1>22, <1>23,
     <1>24, <1>25, <1>26, <1>27 DEF SubscriptionNext, Work

\* A wire never holds more than it can, and the faults stay within their bound.
LEMMA NumberStep ==
  NumberTypes /\ [SubscriptionNext]_subVars => NumberTypes'
<1> SUFFICES ASSUME NumberTypes, [SubscriptionNext]_subVars PROVE NumberTypes'
  OBVIOUS
<1> USE DEF NumberTypes, serverVars, links, worker
<1>1. CASE Start
  BY <1>1 DEF Start
<1>2. CASE Tick
  BY <1>2 DEF Tick
<1>3. CASE AcceptDead
  BY <1>3 DEF AcceptDead
<1>4. CASE LeaveDead
  BY <1>4 DEF LeaveDead
<1>5. CASE Visit
  BY <1>5 DEF Visit
<1>6. CASE VisitEnds
  BY <1>6 DEF VisitEnds
<1>7. CASE AskStop
  BY <1>7, SubConstants DEF AskStop
<1>8. CASE CloseSocket
  BY <1>8 DEF CloseSocket
<1>9. CASE Exit
  BY <1>9 DEF Exit, Gone
<1>10. CASE Crash
  BY <1>10, SubConstants DEF Crash, Gone
<1>11. CASE Freeze
  BY <1>11, SubConstants DEF Freeze
<1>12. CASE Thaw
  BY <1>12 DEF Thaw
<1>13. CASE \E c \in Clients : Accept(c)
  BY <1>13 DEF Accept
<1>14. CASE \E c \in Clients : SubscriptionSend(c)
  BY <1>14, SubConstants DEF SubscriptionSend
<1>15. CASE \E c \in Clients : Leave(c)
  BY <1>15 DEF Leave
<1>16. CASE \E c \in Clients : Connect(c)
  BY <1>16 DEF Connect
<1>17. CASE \E c \in Clients : ConnectFails(c)
  BY <1>17 DEF ConnectFails, Fail, Conn
<1>18. CASE \E c \in Clients : Receive(c)
  <2> PICK c \in Clients : Receive(c)
    BY <1>18
  <2>1. wire' = [wire EXCEPT ![c] = @ - 1] \/ wire' = [wire EXCEPT ![c] = 0]
    BY DEF Receive, Abandon
  <2>2. wire[c] > 0 /\ faults' = faults
    BY DEF Receive
  <2> QED
    BY <2>1, <2>2, SubConstants
<1>19. CASE \E c \in Clients : Deliver(c)
  BY <1>19, SubConstants DEF Deliver, Abandon
<1>20. CASE \E c \in Clients : StreamFails(c)
  <2> PICK c \in Clients : StreamFails(c)
    BY <1>20
  <2>1. wire' = [wire EXCEPT ![c] = 0] /\ faults' = faults
    BY DEF StreamFails, Abandon
  <2> QED
    BY <2>1, SubConstants
<1>21. CASE \E c \in Clients : Retry(c)
  BY <1>21 DEF Retry
<1>22. CASE \E c \in Clients : LoopEnds(c)
  BY <1>22 DEF LoopEnds
<1>23. CASE \E c \in Clients : Unmount(c)
  BY <1>23 DEF Unmount
<1>24. CASE \E c \in Clients : StopSub(c)
  BY <1>24 DEF StopSub
<1>25. CASE \E c \in Clients : Suspend(c)
  BY <1>25, SubConstants DEF Suspend
<1>26. CASE \E c \in Clients : Resume(c)
  BY <1>26 DEF Resume
<1>27. CASE UNCHANGED subVars
  BY <1>27 DEF subVars
<1> QED
  BY <1>1, <1>2, <1>3, <1>4, <1>5, <1>6, <1>7, <1>8, <1>9, <1>10, <1>11, <1>12,
     <1>13, <1>14, <1>15, <1>16, <1>17, <1>18, <1>19, <1>20, <1>21, <1>22, <1>23,
     <1>24, <1>25, <1>26, <1>27 DEF SubscriptionNext, Work

\* The threads stay of their kind.
LEMMA WorkerStep ==
  WorkerTypes /\ [SubscriptionNext]_subVars => WorkerTypes'
<1> SUFFICES ASSUME WorkerTypes, [SubscriptionNext]_subVars PROVE WorkerTypes'
  OBVIOUS
<1>1. CASE Start
  BY <1>1 DEF Start, serverVars, links, worker, WorkerTypes, Errors
<1>2. CASE Tick
  BY <1>2 DEF Tick, serverVars, links, worker, WorkerTypes, Errors
<1>3. CASE AcceptDead
  BY <1>3 DEF AcceptDead, serverVars, links, worker, WorkerTypes, Errors
<1>4. CASE LeaveDead
  BY <1>4 DEF LeaveDead, serverVars, links, worker, WorkerTypes, Errors
<1>5. CASE Visit
  BY <1>5 DEF Visit, serverVars, links, worker, WorkerTypes, Errors
<1>6. CASE VisitEnds
  BY <1>6 DEF VisitEnds, serverVars, links, worker, WorkerTypes, Errors
<1>7. CASE AskStop
  BY <1>7 DEF AskStop, serverVars, links, worker, WorkerTypes, Errors
<1>8. CASE CloseSocket
  BY <1>8 DEF CloseSocket, serverVars, links, worker, WorkerTypes, Errors
<1>9. CASE Exit
  BY <1>9 DEF Exit, Gone, serverVars, links, worker, WorkerTypes, Errors
<1>10. CASE Crash
  BY <1>10 DEF Crash, Gone, serverVars, links, worker, WorkerTypes, Errors
<1>11. CASE Freeze
  BY <1>11 DEF Freeze, serverVars, links, worker, WorkerTypes, Errors
<1>12. CASE Thaw
  BY <1>12 DEF Thaw, serverVars, links, worker, WorkerTypes, Errors
<1>13. CASE \E c \in Clients : Accept(c)
  BY <1>13 DEF Accept, serverVars, links, worker, WorkerTypes, Errors
<1>14. CASE \E c \in Clients : SubscriptionSend(c)
  BY <1>14 DEF SubscriptionSend, serverVars, links, worker, WorkerTypes, Errors
<1>15. CASE \E c \in Clients : Leave(c)
  BY <1>15 DEF Leave, serverVars, links, worker, WorkerTypes, Errors
<1>16. CASE \E c \in Clients : Connect(c)
  BY <1>16 DEF Connect, serverVars, links, worker, WorkerTypes, Errors
<1>17. CASE \E c \in Clients : ConnectFails(c)
  <2> PICK c \in Clients : ConnectFails(c)
    BY <1>17
  <2>1. stop' = stop /\ \E err \in Errors : Fail(c, err)
    BY FailingFacts
  <2> PICK err \in Errors : Fail(c, err)
    BY <2>1
  <2>2. CASE UNCHANGED <<connected, error, told>>
    BY <2>1, <2>2, FailFacts DEF WorkerTypes
  <2>3. CASE Conn(c, FALSE, err)
    BY <2>1, <2>3, FailFacts, ConnTypes DEF WorkerTypes
  <2> QED
    BY <2>2, <2>3, FailFacts
<1>18. CASE \E c \in Clients : Receive(c)
  <2> PICK c \in Clients : Receive(c)
    BY <1>18
  <2>1. stop' = stop
    BY ReceiveFacts
  <2>2. CASE Conn(c, TRUE, "none") /\ thread' = [thread EXCEPT ![c] = "deliver"]
    <3>1. "none" \in Errors
      BY DEF Errors
    <3>2. thread' \in [Clients -> {"connect", "read", "deliver", "backoff", "ended"}]
      BY <2>2 DEF WorkerTypes
    <3>3. stop' \in [Clients -> BOOLEAN]
      BY <2>1 DEF WorkerTypes
    <3> QED
      BY <2>2, <3>1, <3>2, <3>3, ConnTypes DEF WorkerTypes
  <2>3. CASE UNCHANGED <<connected, error, told>> /\ thread' = [thread EXCEPT ![c] = "ended"]
    BY <2>1, <2>3 DEF WorkerTypes
  <2> QED
    BY <2>2, <2>3, ReceiveFacts
<1>19. CASE \E c \in Clients : Deliver(c)
  BY <1>19 DEF Deliver, Abandon, serverVars, links, worker, WorkerTypes, Errors
<1>20. CASE \E c \in Clients : StreamFails(c)
  <2> PICK c \in Clients : StreamFails(c)
    BY <1>20
  <2>1. stop' = stop /\ \E err \in Errors : Fail(c, err)
    BY FailingFacts
  <2> PICK err \in Errors : Fail(c, err)
    BY <2>1
  <2>2. CASE UNCHANGED <<connected, error, told>>
    BY <2>1, <2>2, FailFacts DEF WorkerTypes
  <2>3. CASE Conn(c, FALSE, err)
    BY <2>1, <2>3, FailFacts, ConnTypes DEF WorkerTypes
  <2> QED
    BY <2>2, <2>3, FailFacts
<1>21. CASE \E c \in Clients : Retry(c)
  BY <1>21 DEF Retry, serverVars, links, worker, WorkerTypes, Errors
<1>22. CASE \E c \in Clients : LoopEnds(c)
  BY <1>22 DEF LoopEnds, serverVars, links, worker, WorkerTypes, Errors
<1>23. CASE \E c \in Clients : Unmount(c)
  BY <1>23 DEF Unmount, serverVars, links, worker, WorkerTypes, Errors
<1>24. CASE \E c \in Clients : StopSub(c)
  BY <1>24 DEF StopSub, serverVars, links, worker, WorkerTypes, Errors
<1>25. CASE \E c \in Clients : Suspend(c)
  BY <1>25 DEF Suspend, serverVars, links, worker, WorkerTypes, Errors
<1>26. CASE \E c \in Clients : Resume(c)
  BY <1>26 DEF Resume, serverVars, links, worker, WorkerTypes, Errors
<1>27. CASE UNCHANGED subVars
  BY <1>27 DEF subVars, serverVars, links, worker, WorkerTypes, Errors
<1> QED
  BY <1>1, <1>2, <1>3, <1>4, <1>5, <1>6, <1>7, <1>8, <1>9, <1>10, <1>11, <1>12,
     <1>13, <1>14, <1>15, <1>16, <1>17, <1>18, <1>19, <1>20, <1>21, <1>22, <1>23,
     <1>24, <1>25, <1>26, <1>27 DEF SubscriptionNext, Work

\* A thread that stops reading has closed its connection.
LEMMA HandlerStep ==
  LinkTypes /\ WorkerTypes /\ HandlerInv /\ [SubscriptionNext]_subVars => HandlerInv'
<1> SUFFICES ASSUME LinkTypes, WorkerTypes, HandlerInv, [SubscriptionNext]_subVars
             PROVE  HandlerInv'
  OBVIOUS
<1> USE DEF HandlerInv, LinkTypes, WorkerTypes, serverVars, links, worker
<1>1. CASE Start
  BY <1>1 DEF Start
<1>2. CASE Tick
  BY <1>2 DEF Tick
<1>3. CASE AcceptDead
  BY <1>3 DEF AcceptDead
<1>4. CASE LeaveDead
  BY <1>4 DEF LeaveDead
<1>5. CASE Visit
  BY <1>5 DEF Visit
<1>6. CASE VisitEnds
  BY <1>6 DEF VisitEnds
<1>7. CASE AskStop
  BY <1>7 DEF AskStop
<1>8. CASE CloseSocket
  BY <1>8 DEF CloseSocket
<1>9. CASE Exit
  BY <1>9 DEF Exit, Gone
<1>10. CASE Crash
  BY <1>10 DEF Crash, Gone
<1>11. CASE Freeze
  BY <1>11 DEF Freeze
<1>12. CASE Thaw
  BY <1>12 DEF Thaw
<1>13. CASE \E c \in Clients : Accept(c)
  BY <1>13 DEF Accept
<1>14. CASE \E c \in Clients : SubscriptionSend(c)
  BY <1>14 DEF SubscriptionSend
<1>15. CASE \E c \in Clients : Leave(c)
  BY <1>15 DEF Leave
<1>16. CASE \E c \in Clients : Connect(c)
  BY <1>16 DEF Connect
<1>17. CASE \E c \in Clients : ConnectFails(c)
  <2> PICK c \in Clients : ConnectFails(c)
    BY <1>17
  <2>1. PICK err \in Errors : Fail(c, err)
    BY FailingFacts
  <2>2. \A d \in Clients : d # c => thread'[d] = thread[d]
    BY <2>1, FailFacts
  <2>3. CASE UNCHANGED links /\ thread[c] = "connect"
    BY <2>2, <2>3
  <2>4. CASE Abandon(c)
    BY <2>2, <2>4 DEF Abandon
  <2> QED
    BY <2>3, <2>4, FailingFacts
<1>18. CASE \E c \in Clients : Receive(c)
  <2> PICK c \in Clients : Receive(c)
    BY <1>18
  <2>1. CASE UNCHANGED handler /\ thread' = [thread EXCEPT ![c] = "deliver"]
    BY <2>1
  <2>2. CASE Abandon(c) /\ thread' = [thread EXCEPT ![c] = "ended"]
    BY <2>2 DEF Abandon
  <2> QED
    BY <2>1, <2>2, ReceiveFacts
<1>19. CASE \E c \in Clients : Deliver(c)
  BY <1>19 DEF Deliver, Abandon
<1>20. CASE \E c \in Clients : StreamFails(c)
  <2> PICK c \in Clients : StreamFails(c)
    BY <1>20
  <2>1. PICK err \in Errors : Fail(c, err)
    BY FailingFacts
  <2>2. \A d \in Clients : d # c => thread'[d] = thread[d]
    BY <2>1, FailFacts
  <2>3. CASE UNCHANGED links /\ thread[c] = "connect"
    BY <2>2, <2>3
  <2>4. CASE Abandon(c)
    BY <2>2, <2>4 DEF Abandon
  <2> QED
    BY <2>3, <2>4, FailingFacts
<1>21. CASE \E c \in Clients : Retry(c)
  BY <1>21 DEF Retry
<1>22. CASE \E c \in Clients : LoopEnds(c)
  BY <1>22 DEF LoopEnds
<1>23. CASE \E c \in Clients : Unmount(c)
  BY <1>23 DEF Unmount
<1>24. CASE \E c \in Clients : StopSub(c)
  BY <1>24 DEF StopSub
<1>25. CASE \E c \in Clients : Suspend(c)
  BY <1>25 DEF Suspend
<1>26. CASE \E c \in Clients : Resume(c)
  BY <1>26 DEF Resume
<1>27. CASE UNCHANGED subVars
  BY <1>27 DEF subVars
<1> QED
  BY <1>1, <1>2, <1>3, <1>4, <1>5, <1>6, <1>7, <1>8, <1>9, <1>10, <1>11, <1>12,
     <1>13, <1>14, <1>15, <1>16, <1>17, <1>18, <1>19, <1>20, <1>21, <1>22, <1>23,
     <1>24, <1>25, <1>26, <1>27 DEF SubscriptionNext, Work

\* Connecting, reading, failing, backing off, stopping: after each the app was
\* last told where its subscription stands.
LEMMA ToldStep ==
  WorkerTypes /\ FlagTypes /\ ToldInv /\ [SubscriptionNext]_subVars => ToldInv'
<1> SUFFICES ASSUME WorkerTypes, FlagTypes, ToldInv, [SubscriptionNext]_subVars
             PROVE  ToldInv'
  OBVIOUS
<1>1. CASE Start
  BY <1>1 DEF Start, serverVars, links, worker, WorkerTypes, FlagTypes, ToldInv,
                ToldIsCurrent
<1>2. CASE Tick
  BY <1>2 DEF Tick, serverVars, links, worker, WorkerTypes, FlagTypes, ToldInv,
                ToldIsCurrent
<1>3. CASE AcceptDead
  BY <1>3 DEF AcceptDead, serverVars, links, worker, WorkerTypes, FlagTypes, ToldInv,
                ToldIsCurrent
<1>4. CASE LeaveDead
  BY <1>4 DEF LeaveDead, serverVars, links, worker, WorkerTypes, FlagTypes, ToldInv,
                ToldIsCurrent
<1>5. CASE Visit
  BY <1>5 DEF Visit, serverVars, links, worker, WorkerTypes, FlagTypes, ToldInv,
                ToldIsCurrent
<1>6. CASE VisitEnds
  BY <1>6 DEF VisitEnds, serverVars, links, worker, WorkerTypes, FlagTypes, ToldInv,
                ToldIsCurrent
<1>7. CASE AskStop
  BY <1>7 DEF AskStop, serverVars, links, worker, WorkerTypes, FlagTypes, ToldInv,
                ToldIsCurrent
<1>8. CASE CloseSocket
  BY <1>8 DEF CloseSocket, serverVars, links, worker, WorkerTypes, FlagTypes, ToldInv,
                ToldIsCurrent
<1>9. CASE Exit
  BY <1>9 DEF Exit, Gone, serverVars, links, worker, WorkerTypes, FlagTypes, ToldInv,
                ToldIsCurrent
<1>10. CASE Crash
  BY <1>10 DEF Crash, Gone, serverVars, links, worker, WorkerTypes, FlagTypes, ToldInv,
                ToldIsCurrent
<1>11. CASE Freeze
  BY <1>11 DEF Freeze, serverVars, links, worker, WorkerTypes, FlagTypes, ToldInv,
                ToldIsCurrent
<1>12. CASE Thaw
  BY <1>12 DEF Thaw, serverVars, links, worker, WorkerTypes, FlagTypes, ToldInv,
                ToldIsCurrent
<1>13. CASE \E c \in Clients : Accept(c)
  BY <1>13 DEF Accept, serverVars, links, worker, WorkerTypes, FlagTypes, ToldInv,
                ToldIsCurrent
<1>14. CASE \E c \in Clients : SubscriptionSend(c)
  BY <1>14 DEF SubscriptionSend, serverVars, links, worker, WorkerTypes, FlagTypes, ToldInv,
                ToldIsCurrent
<1>15. CASE \E c \in Clients : Leave(c)
  BY <1>15 DEF Leave, serverVars, links, worker, WorkerTypes, FlagTypes, ToldInv,
                ToldIsCurrent
<1>16. CASE \E c \in Clients : Connect(c)
  BY <1>16 DEF Connect, serverVars, links, worker, WorkerTypes, FlagTypes, ToldInv,
                ToldIsCurrent
<1>17. CASE \E c \in Clients : ConnectFails(c)
  <2> PICK c \in Clients : ConnectFails(c)
    BY <1>17
  <2>1. UNCHANGED <<stop, closing>>
    BY FailingFacts
  <2>2. PICK err \in Errors : Fail(c, err)
    BY FailingFacts
  <2>3. CASE UNCHANGED <<connected, error, told>>
    BY <2>1, <2>3 DEF ToldInv, ToldIsCurrent
  <2>4. CASE ~stop[c] /\ Conn(c, FALSE, err)
    BY <2>1, <2>4, ConnTells DEF ToldInv
  <2> QED
    BY <2>2, <2>3, <2>4, FailFacts
<1>18. CASE \E c \in Clients : Receive(c)
  <2> PICK c \in Clients : Receive(c)
    BY <1>18
  <2>1. UNCHANGED <<stop, closing>>
    BY ReceiveFacts
  <2>2. CASE UNCHANGED <<connected, error, told>>
    BY <2>1, <2>2 DEF ToldInv, ToldIsCurrent
  <2>3. CASE ~stop[c] /\ Conn(c, TRUE, "none")
    BY <2>1, <2>3, ConnTells DEF ToldInv
  <2> QED
    BY <2>2, <2>3, ReceiveFacts
<1>19. CASE \E c \in Clients : Deliver(c)
  BY <1>19 DEF Deliver, Abandon, serverVars, links, worker, WorkerTypes, FlagTypes, ToldInv,
                ToldIsCurrent
<1>20. CASE \E c \in Clients : StreamFails(c)
  <2> PICK c \in Clients : StreamFails(c)
    BY <1>20
  <2>1. UNCHANGED <<stop, closing>>
    BY FailingFacts
  <2>2. PICK err \in Errors : Fail(c, err)
    BY FailingFacts
  <2>3. CASE UNCHANGED <<connected, error, told>>
    BY <2>1, <2>3 DEF ToldInv, ToldIsCurrent
  <2>4. CASE ~stop[c] /\ Conn(c, FALSE, err)
    BY <2>1, <2>4, ConnTells DEF ToldInv
  <2> QED
    BY <2>2, <2>3, <2>4, FailFacts
<1>21. CASE \E c \in Clients : Retry(c)
  BY <1>21 DEF Retry, serverVars, links, worker, WorkerTypes, FlagTypes, ToldInv,
                ToldIsCurrent
<1>22. CASE \E c \in Clients : LoopEnds(c)
  BY <1>22 DEF LoopEnds, serverVars, links, worker, WorkerTypes, FlagTypes, ToldInv,
                ToldIsCurrent
<1>23. CASE \E c \in Clients : Unmount(c)
  BY <1>23 DEF Unmount, serverVars, links, worker, WorkerTypes, FlagTypes, ToldInv,
                ToldIsCurrent
<1>24. CASE \E c \in Clients : StopSub(c)
  BY <1>24 DEF StopSub, serverVars, links, worker, WorkerTypes, FlagTypes, ToldInv,
                ToldIsCurrent
<1>25. CASE \E c \in Clients : Suspend(c)
  BY <1>25 DEF Suspend, serverVars, links, worker, WorkerTypes, FlagTypes, ToldInv,
                ToldIsCurrent
<1>26. CASE \E c \in Clients : Resume(c)
  BY <1>26 DEF Resume, serverVars, links, worker, WorkerTypes, FlagTypes, ToldInv,
                ToldIsCurrent
<1>27. CASE UNCHANGED subVars
  BY <1>27 DEF subVars, serverVars, links, worker, WorkerTypes, FlagTypes, ToldInv,
                ToldIsCurrent
<1> QED
  BY <1>1, <1>2, <1>3, <1>4, <1>5, <1>6, <1>7, <1>8, <1>9, <1>10, <1>11, <1>12,
     <1>13, <1>14, <1>15, <1>16, <1>17, <1>18, <1>19, <1>20, <1>21, <1>22, <1>23,
     <1>24, <1>25, <1>26, <1>27 DEF SubscriptionNext, Work

\* For any set of subscribers and any number of visitors and faults: client_count is
\* never negative and the backlog never overrun; once a subscriber has been served for
\* a tick, the snapshot it is sent is the last tick's; and an app that is not closing
\* was last told where its subscription stands (server.py, client_count and _subscribe;
\* main.py, tick; tui/backend.py, _run and _conn).
THEOREM SubscriptionIsSafe == SubscriptionSpec => []SubscriptionSafe
<1> DEFINE Inv ==
      /\ FlagTypes /\ LinkTypes /\ NumberTypes /\ WorkerTypes /\ HandlerInv /\ CountInv
      /\ QueueInv /\ DownInv /\ ClockInv /\ FreshInv /\ ToldInv
<1>1. SubscriptionInit => Inv
  <2> SUFFICES ASSUME SubscriptionInit PROVE Inv
    OBVIOUS
  <2>1. FlagTypes /\ LinkTypes
    BY DEF SubscriptionInit, FlagTypes, LinkTypes
  <2>2. NumberTypes /\ ClockInv
    BY SubConstants DEF SubscriptionInit, NumberTypes, ClockInv
  <2>3. WorkerTypes /\ HandlerInv /\ ToldInv
    BY DEF SubscriptionInit, WorkerTypes, Errors, HandlerInv, ToldInv, ToldIsCurrent
  <2>4. With("subscribe") = {} /\ With("queued") = {}
    BY DEF SubscriptionInit, With
  <2>5. Queued = deadQueued + Cardinality(With("queued"))
    BY DEF Queued, With
  <2>a. /\ IsFiniteSet(With("subscribe")) /\ Cardinality(With("subscribe")) = 0
        /\ IsFiniteSet(With("queued")) /\ Cardinality(With("queued")) = 0
    BY <2>4, FS_EmptySet
  <2>b. clients = 0 /\ visitors = 0 /\ deadQueued = 0 /\ deadServed = 0
    BY DEF SubscriptionInit
  <2>c. CountInv
    BY <2>a, <2>b, SubConstants DEF CountInv
  <2>d. Queued = 0
    BY <2>a, <2>b, <2>5
  <2>e. QueueInv
    BY <2>a, <2>b, <2>d, SubConstants DEF QueueInv
  <2>6. CountInv /\ QueueInv
    BY <2>c, <2>e
  <2>7. DownInv /\ FreshInv
    BY DEF SubscriptionInit, DownInv, FreshInv
  <2> QED
    BY <2>1, <2>2, <2>3, <2>6, <2>7
<1>2. Inv /\ [SubscriptionNext]_subVars => Inv'
  <2> SUFFICES ASSUME Inv, [SubscriptionNext]_subVars PROVE Inv'
    OBVIOUS
  <2>1. LinkStep
    BY LinkKinds
  <2>2. LinkTypes' /\ DownInv' /\ CountInv' /\ QueueInv' /\ ClockInv' /\ FreshInv'
    BY <2>1, LinkTypesStep, DownStep, CountStep, QueueStep, ClockStep, FreshStep
  <2>3. FlagTypes' /\ NumberTypes' /\ WorkerTypes' /\ HandlerInv' /\ ToldInv'
    BY FlagStep, NumberStep, WorkerStep, HandlerStep, ToldStep
  <2> QED
    BY <2>2, <2>3
<1>3. Inv => SubscriptionSafe
  <2> SUFFICES ASSUME Inv PROVE SubscriptionSafe
    OBVIOUS
  <2>1. clients \in Nat /\ deadQueued \in 0..Backlog
    <3>1. Cardinality(With("subscribe")) \in Nat /\ Cardinality(With("queued")) \in Nat
      BY FS_CardinalityType DEF CountInv, QueueInv
    <3>2. Queued = deadQueued + Cardinality(With("queued"))
      BY DEF Queued, With
    <3> QED
      BY <3>1, <3>2, SubConstants DEF CountInv, QueueInv
  <2>2. SubscriptionTypeOK
    BY <2>1 DEF FlagTypes, LinkTypes, NumberTypes, WorkerTypes, CountInv, ClockInv,
                SubscriptionTypeOK
  <2> QED
    BY <2>2 DEF FreshInv, ToldInv, StreamIsFresh, SubscriptionSafe
<1> HIDE DEF Inv
<1> QED
  BY <1>1, <1>2, <1>3, PTL DEF SubscriptionSpec

-----------------------------------------------------------------------------
(* SettingsView *)

\* A Select.Changed event.
Change == [key : Selects, value : SettingsValues, user : BOOLEAN]

\* The daemon's configuration, and the calls that are under way to it.
DaemonTypes ==
  /\ cfg \in Configs /\ settingsSnapshot \in Configs /\ fetched \in Configs
  /\ write \in [key : Keys \cup {All, Nothing}, value : SettingsValues, verdict : Verdicts]
  /\ late \subseteq [key : Keys \cup {All}, value : SettingsValues, verdict : {"failed"}]

\* What the page keeps per key and in its badge.
EditorTypes ==
  /\ settingsShown \in Configs /\ editor \in Configs
  /\ keep \subseteq Keys /\ focus \in Keys \cup {Nothing}
  /\ loading \in {"no", "asked", "answered"} /\ lastLoad \in {"none", "ok", "failed"}
  /\ label \in [Keys -> {"none", "applying", "applied", "rejected", "cancelled"}]
  /\ note \in {"none", "persisted", "unreadable"}

\* What the page knows, whether an answer failed, and whether the dialog is open.
ViewFlags ==
  settingsKnown \in BOOLEAN /\ failed \in BOOLEAN /\ settingsDialog \in BOOLEAN

\* How often somebody has changed something, and a call was lost.
ViewCounts ==
  /\ settingsElsewhere \in 0..MaxSettingsElsewhere /\ writes \in 0..MaxWrites
  /\ settingsLost \in 0..MaxSettingsLost

\* Why setting an editor writes nothing: an event that is still to be handled has the
\* value of its editor, and either the user chose it in the editor that has the focus,
\* or it is the value the page has shown ever since.
EventsInv ==
  /\ changes \in Seq(Change) /\ Len(changes) <= Cardinality(Selects)
  /\ \A x \in 1..Len(changes) :
       /\ changes[x].value = editor[changes[x].key]
       /\ IF changes[x].user THEN focus = changes[x].key
          ELSE changes[x].value = settingsShown[changes[x].key]

\* Why a drop-down cannot be left behind: after a load that succeeded it shows the
\* page's configuration, or what it shows is still to be handled, confirmed or written;
\* and a write ends in a reload.
AgreeInv ==
  /\ lastLoad = "ok" => settingsKnown
  /\ lastLoad = "ok" /\ loading = "no" =>
       \A k \in Selects \ keep :
         \/ editor[k] = settingsShown[k] \/ write.key \in {k, All}
         \/ (k = Gpu /\ settingsDialog) \/ \E x \in 1..Len(changes) : changes[x].key = k

\* The types of the page and of the daemon.
ViewTypes == DaemonTypes /\ EditorTypes /\ ViewFlags /\ ViewCounts
\* The inductive invariant of the settings page.
ViewInv == ViewTypes /\ EventsInv /\ AgreeInv /\ byUser = TRUE

\* What the constants give.
LEMMA ViewConstants ==
  /\ Gpu \in Selects /\ Gpu \in Keys /\ Gpu \notin Inputs /\ Inputs \cap Selects = {}
  /\ Selects \subseteq Keys /\ Inputs \subseteq Keys
  /\ Nothing \notin Keys /\ Nothing # All
  /\ Default \in SettingsValues /\ SettingsOff \in SettingsValues
  /\ MaxSettingsElsewhere \in Nat /\ MaxWrites \in Nat /\ MaxSettingsLost \in Nat
  BY SettingsViewAssumption DEF Keys, Nothing, All

\* There is a drop-down: gpu.mode's.
LEMMA OneSelect == Cardinality(Selects) \in Nat /\ Cardinality(Selects) >= 1
<1>1. Cardinality(Selects) \in Nat /\ (Cardinality(Selects) = 0 <=> Selects = {})
  BY SettingsViewAssumption, FS_CardinalityType, FS_EmptySet
<1> QED
  BY <1>1, ViewConstants

\* SetToSeq lists a finite set, each member once.
LEMMA SeqOfSet ==
  ASSUME NEW S, IsFiniteSet(S)
  PROVE  SetToSeq(S) \in [1..Cardinality(S) -> S] /\ IsInjective(SetToSeq(S))
<1>1. ExistsBijection(1..Cardinality(S), S)
  BY FS_CardinalityType
<1>2. PICK f : f \in Bijection(1..Cardinality(S), S)
  BY <1>1 DEF ExistsBijection
<1>3. f \in [1..Cardinality(S) -> S] /\ IsInjective(f)
  BY <1>2, SMT DEF Bijection, Injection, IsInjective
<1> QED
  BY <1>3 DEF SetToSeq

\* A load posts one event for each drop-down that it changes, with the value read.
LEMMA PostedFacts ==
  ASSUME fetched \in Configs
  PROVE  /\ Posted \in Seq(Change) /\ Len(Posted) <= Cardinality(Selects)
         /\ \A x \in 1..Len(Posted) : /\ Posted[x].key \in Synced
                                      /\ Posted[x].value = fetched[Posted[x].key]
                                      /\ Posted[x].user = FALSE
<1> DEFINE ks == SetToSeq(Synced)
           n  == Cardinality(Synced)
<1>1. /\ IsFiniteSet(Synced) /\ n <= Cardinality(Selects) /\ n \in Nat
      /\ Synced \subseteq Selects
  <2>1. Synced \subseteq Selects
    BY DEF Synced
  <2> QED
    BY <2>1, SettingsViewAssumption, FS_Subset, FS_CardinalityType
<1>2. ks \in [1..n -> Synced]
  BY <1>1, SeqOfSet
<1>3. DOMAIN ks = 1..n /\ \A x \in 1..n : ks[x] \in Synced
  BY <1>2
<1>4. Posted = [x \in 1..n |-> [key |-> ks[x], value |-> fetched[ks[x]], user |-> FALSE]]
  BY <1>3 DEF Posted
<1> HIDE DEF ks, n
<1>5. \A x \in 1..n : [key |-> ks[x], value |-> fetched[ks[x]], user |-> FALSE] \in Change
  BY <1>1, <1>3, ViewConstants DEF Change, Configs
<1>6. Posted \in [1..n -> Change]
  BY <1>4, <1>5
<1>7. Posted \in Seq(Change) /\ Len(Posted) = n
  BY <1>1, <1>6
<1> QED
  BY <1>1, <1>3, <1>4, <1>7

\* Handling takes the oldest event off the queue.
LEMMA HandleFacts ==
  ASSUME EventsInv, Handle
  PROVE  /\ Head(changes) \in Change /\ Head(changes) = changes[1] /\ 1 \in 1..Len(changes)
         /\ changes' \in Seq(Change)
         /\ Len(changes') = Len(changes) - 1 /\ Len(changes) \in Nat
         /\ \A x \in 1..Len(changes') :
              x + 1 \in 1..Len(changes) /\ changes'[x] = changes[x + 1]
  BY DEF EventsInv, Handle

\* Requests that are carried out, late or not, store values.
LEMMA DaemonTypesStep ==
  DaemonTypes /\ EventsInv /\ [SettingsViewNext]_pageVars => DaemonTypes'
<1> SUFFICES ASSUME DaemonTypes, EventsInv,
                    [SettingsViewNext]_pageVars
             PROVE  DaemonTypes'
  OBVIOUS
<1> USE DEF DaemonTypes, Configs, Verdicts, settingsDaemon,
            page, settingsCalls, ui, bounds, pageVars
<1>1. CASE \E k \in Keys, v \in SettingsValues : SettingsElsewhere(k, v)
  BY <1>1, ViewConstants DEF SettingsElsewhere
<1>2. CASE \E k \in Keys, v \in SettingsValues : Submit(k, v)
  BY <1>2, ViewConstants DEF Submit, Sent
<1>3. CASE \E k \in Keys, v \in SettingsValues : Choose(k, v)
  BY <1>3, ViewConstants DEF Choose
<1>4. CASE SettingsSnapshot
  BY <1>4, ViewConstants DEF SettingsSnapshot
<1>5. CASE Answer
  BY <1>5, ViewConstants DEF Answer
<1>6. CASE AnswerFails
  BY <1>6, ViewConstants DEF AnswerFails
<1>7. CASE SettingsRefuse
  BY <1>7, ViewConstants DEF SettingsRefuse
<1>8. CASE CarryOut
  BY <1>8, ViewConstants DEF CarryOut, Stored
<1>9. CASE CallFails
  BY <1>9, ViewConstants DEF CallFails
<1>10. CASE \E w \in late : CarryOutLate(w)
  <2> PICK w \in late : CarryOutLate(w)
    BY <1>10
  <2>1. /\ w.key \in Keys \cup {All} /\ w.value \in SettingsValues
        /\ late' = late \ {w} /\ (cfg' = Stored(w.key, w.value) \/ cfg' = cfg)
        /\ UNCHANGED <<settingsSnapshot, fetched, write>>
    BY DEF CarryOutLate
  <2>2. Stored(w.key, w.value) \in Configs
    BY <2>1, ViewConstants DEF Stored
  <2> QED
    BY <2>1, <2>2
<1>11. CASE Loaded
  BY <1>11, ViewConstants DEF Loaded
<1>12. CASE LoadFails
  BY <1>12, ViewConstants DEF LoadFails
<1>13. CASE SettingsShow
  BY <1>13, ViewConstants DEF SettingsShow, Reload
<1>14. CASE \E k \in Keys : Focus(k)
  BY <1>14, ViewConstants DEF Focus
<1>15. CASE Handle
  <2> DEFINE e == Head(changes)
  <2>1. e.key \in Selects /\ e.value \in SettingsValues
    BY <1>15, HandleFacts DEF Change
  <2>2. write' \in {write, [key |-> e.key, value |-> e.value, verdict |-> "asked"]}
    BY <1>15 DEF Handle, Sent
  <2>3. UNCHANGED <<cfg, settingsSnapshot, fetched, late>>
    BY <1>15 DEF Handle
  <2> HIDE DEF e
  <2> QED
    BY <2>1, <2>2, <2>3, ViewConstants
<1>16. CASE SettingsConfirm
  BY <1>16, ViewConstants DEF SettingsConfirm, Sent
<1>17. CASE SettingsCancel
  BY <1>17, ViewConstants DEF SettingsCancel
<1>18. CASE Reset
  BY <1>18, ViewConstants DEF Reset
<1>19. CASE Applied
  BY <1>19, ViewConstants DEF Applied, Reload, NoWrite
<1>20. CASE UNCHANGED pageVars
  BY <1>20, ViewConstants
<1> QED
  BY <1>1, <1>2, <1>3, <1>4, <1>5, <1>6, <1>7, <1>8, <1>9, <1>10,
     <1>11, <1>12, <1>13, <1>14, <1>15, <1>16, <1>17, <1>18, <1>19, <1>20
  DEF SettingsViewNext

\* Every answer, event and key leaves the page of its types.
LEMMA EditorTypesStep ==
  DaemonTypes /\ EditorTypes /\ [SettingsViewNext]_pageVars => EditorTypes'
<1> SUFFICES ASSUME DaemonTypes, EditorTypes,
                    [SettingsViewNext]_pageVars
             PROVE  EditorTypes'
  OBVIOUS
<1> USE DEF DaemonTypes, EditorTypes, Configs, settingsDaemon,
            page, settingsCalls, ui, bounds, pageVars
<1>1. CASE \E k \in Keys, v \in SettingsValues : SettingsElsewhere(k, v)
  BY <1>1, ViewConstants DEF SettingsElsewhere
<1>2. CASE \E k \in Keys, v \in SettingsValues : Submit(k, v)
  BY <1>2, ViewConstants DEF Submit, Sent
<1>3. CASE \E k \in Keys, v \in SettingsValues : Choose(k, v)
  BY <1>3, ViewConstants DEF Choose
<1>4. CASE SettingsSnapshot
  BY <1>4, ViewConstants DEF SettingsSnapshot
<1>5. CASE Answer
  BY <1>5, ViewConstants DEF Answer
<1>6. CASE AnswerFails
  BY <1>6, ViewConstants DEF AnswerFails
<1>7. CASE SettingsRefuse
  BY <1>7, ViewConstants DEF SettingsRefuse
<1>8. CASE CarryOut
  BY <1>8, ViewConstants DEF CarryOut
<1>9. CASE CallFails
  BY <1>9, ViewConstants DEF CallFails
<1>10. CASE \E w \in late : CarryOutLate(w)
  BY <1>10, ViewConstants DEF CarryOutLate
<1>11. CASE Loaded
  BY <1>11, ViewConstants DEF Loaded
<1>12. CASE LoadFails
  BY <1>12, ViewConstants DEF LoadFails
<1>13. CASE SettingsShow
  BY <1>13, ViewConstants DEF SettingsShow, Reload
<1>14. CASE \E k \in Keys : Focus(k)
  BY <1>14, ViewConstants DEF Focus
<1>15. CASE Handle
  BY <1>15, ViewConstants DEF Handle, Sent
<1>16. CASE SettingsConfirm
  BY <1>16, ViewConstants DEF SettingsConfirm, Sent
<1>17. CASE SettingsCancel
  BY <1>17, ViewConstants DEF SettingsCancel
<1>18. CASE Reset
  BY <1>18, ViewConstants DEF Reset
<1>19. CASE Applied
  <2>1. /\ label' \in [Keys -> {"none", "applying", "applied", "rejected", "cancelled"}]
        /\ note' \in {"none", "persisted", "unreadable"}
    BY <1>19 DEF Applied, Verdict
  <2>2. keep' \subseteq Keys
    BY <1>19, ViewConstants DEF Applied, Verdict, Named
  <2> QED
    BY <1>19, <2>1, <2>2 DEF Applied, Reload
<1>20. CASE UNCHANGED pageVars
  BY <1>20, ViewConstants
<1> QED
  BY <1>1, <1>2, <1>3, <1>4, <1>5, <1>6, <1>7, <1>8, <1>9, <1>10,
     <1>11, <1>12, <1>13, <1>14, <1>15, <1>16, <1>17, <1>18, <1>19, <1>20
  DEF SettingsViewNext

\* The flags stay flags.
LEMMA ViewFlagsStep ==
  ViewFlags /\ [SettingsViewNext]_pageVars => ViewFlags'
<1> SUFFICES ASSUME ViewFlags, [SettingsViewNext]_pageVars PROVE ViewFlags'
  OBVIOUS
<1> USE DEF ViewFlags, settingsDaemon, page, settingsCalls, ui, bounds, pageVars
<1>1. CASE \E k \in Keys, v \in SettingsValues : SettingsElsewhere(k, v)
  BY <1>1 DEF SettingsElsewhere
<1>2. CASE \E k \in Keys, v \in SettingsValues : Submit(k, v)
  BY <1>2 DEF Submit
<1>3. CASE \E k \in Keys, v \in SettingsValues : Choose(k, v)
  BY <1>3 DEF Choose
<1>4. CASE SettingsSnapshot
  BY <1>4 DEF SettingsSnapshot
<1>5. CASE Answer
  BY <1>5 DEF Answer
<1>6. CASE AnswerFails
  BY <1>6 DEF AnswerFails
<1>7. CASE SettingsRefuse
  BY <1>7 DEF SettingsRefuse
<1>8. CASE CarryOut
  BY <1>8 DEF CarryOut
<1>9. CASE CallFails
  BY <1>9 DEF CallFails
<1>10. CASE \E w \in late : CarryOutLate(w)
  BY <1>10 DEF CarryOutLate
<1>11. CASE Loaded
  BY <1>11 DEF Loaded
<1>12. CASE LoadFails
  BY <1>12 DEF LoadFails
<1>13. CASE SettingsShow
  BY <1>13 DEF SettingsShow, Reload
<1>14. CASE \E k \in Keys : Focus(k)
  BY <1>14 DEF Focus
<1>15. CASE Handle
  BY <1>15 DEF Handle
<1>16. CASE SettingsConfirm
  BY <1>16 DEF SettingsConfirm
<1>17. CASE SettingsCancel
  BY <1>17 DEF SettingsCancel
<1>18. CASE Reset
  BY <1>18 DEF Reset
<1>19. CASE Applied
  BY <1>19 DEF Applied, Reload
<1>20. CASE UNCHANGED pageVars
  BY <1>20
<1> QED
  BY <1>1, <1>2, <1>3, <1>4, <1>5, <1>6, <1>7, <1>8, <1>9, <1>10,
     <1>11, <1>12, <1>13, <1>14, <1>15, <1>16, <1>17, <1>18, <1>19, <1>20
  DEF SettingsViewNext

\* The counters stay within their bounds.
LEMMA ViewCountsStep ==
  ViewCounts /\ [SettingsViewNext]_pageVars => ViewCounts'
<1> SUFFICES ASSUME ViewCounts, [SettingsViewNext]_pageVars PROVE ViewCounts'
  OBVIOUS
<1> USE DEF ViewCounts, settingsDaemon, page, settingsCalls, ui, bounds, pageVars
<1>1. CASE \E k \in Keys, v \in SettingsValues : SettingsElsewhere(k, v)
  BY <1>1, ViewConstants DEF SettingsElsewhere
<1>2. CASE \E k \in Keys, v \in SettingsValues : Submit(k, v)
  BY <1>2, ViewConstants DEF Submit, UserMay
<1>3. CASE \E k \in Keys, v \in SettingsValues : Choose(k, v)
  BY <1>3, ViewConstants DEF Choose, UserMay
<1>4. CASE SettingsSnapshot
  BY <1>4, ViewConstants DEF SettingsSnapshot
<1>5. CASE Answer
  BY <1>5, ViewConstants DEF Answer
<1>6. CASE AnswerFails
  BY <1>6, ViewConstants DEF AnswerFails
<1>7. CASE SettingsRefuse
  BY <1>7, ViewConstants DEF SettingsRefuse
<1>8. CASE CarryOut
  BY <1>8, ViewConstants DEF CarryOut
<1>9. CASE CallFails
  BY <1>9, ViewConstants DEF CallFails
<1>10. CASE \E w \in late : CarryOutLate(w)
  BY <1>10, ViewConstants DEF CarryOutLate
<1>11. CASE Loaded
  BY <1>11, ViewConstants DEF Loaded
<1>12. CASE LoadFails
  BY <1>12, ViewConstants DEF LoadFails
<1>13. CASE SettingsShow
  BY <1>13, ViewConstants DEF SettingsShow
<1>14. CASE \E k \in Keys : Focus(k)
  BY <1>14, ViewConstants DEF Focus
<1>15. CASE Handle
  BY <1>15, ViewConstants DEF Handle
<1>16. CASE SettingsConfirm
  BY <1>16, ViewConstants DEF SettingsConfirm
<1>17. CASE SettingsCancel
  BY <1>17, ViewConstants DEF SettingsCancel
<1>18. CASE Reset
  BY <1>18, ViewConstants DEF Reset, UserMay
<1>19. CASE Applied
  BY <1>19, ViewConstants DEF Applied
<1>20. CASE UNCHANGED pageVars
  BY <1>20, ViewConstants
<1> QED
  BY <1>1, <1>2, <1>3, <1>4, <1>5, <1>6, <1>7, <1>8, <1>9, <1>10,
     <1>11, <1>12, <1>13, <1>14, <1>15, <1>16, <1>17, <1>18, <1>19, <1>20
  DEF SettingsViewNext

\* No editor changes while an event is still to be handled.
LEMMA EventsStep ==
  DaemonTypes /\ EditorTypes /\ EventsInv /\ [SettingsViewNext]_pageVars => EventsInv'
<1> SUFFICES ASSUME DaemonTypes, EditorTypes, EventsInv,
                    [SettingsViewNext]_pageVars
             PROVE  EventsInv'
  OBVIOUS
<1> USE DEF EventsInv, settingsDaemon, page, settingsCalls, ui, bounds, pageVars
<1>1. CASE \E k \in Keys, v \in SettingsValues : SettingsElsewhere(k, v)
  BY <1>1 DEF SettingsElsewhere
<1>2. CASE \E k \in Keys, v \in SettingsValues : Submit(k, v)
  BY <1>2 DEF Submit, UserMay
<1>3. CASE \E k \in Keys, v \in SettingsValues : Choose(k, v)
  <2> PICK k \in Keys, v \in SettingsValues : Choose(k, v)
    BY <1>3
  <2> DEFINE e == [key |-> k, value |-> v, user |-> TRUE]
  <2>1. e \in Change /\ changes' = <<e>> /\ UNCHANGED <<focus, settingsShown>> /\ focus = k
    BY DEF Choose, Change
  <2>2. editor'[k] = v
    BY DEF Choose, EditorTypes, Configs
  <2>3. changes' \in Seq(Change) /\ Len(changes') = 1 /\ changes'[1] = e
    BY <2>1
  <2> QED
    BY <2>1, <2>2, <2>3, OneSelect
<1>4. CASE SettingsSnapshot
  BY <1>4 DEF SettingsSnapshot
<1>5. CASE Answer
  BY <1>5 DEF Answer
<1>6. CASE AnswerFails
  BY <1>6 DEF AnswerFails
<1>7. CASE SettingsRefuse
  BY <1>7 DEF SettingsRefuse
<1>8. CASE CarryOut
  BY <1>8 DEF CarryOut
<1>9. CASE CallFails
  BY <1>9 DEF CallFails
<1>10. CASE \E w \in late : CarryOutLate(w)
  BY <1>10 DEF CarryOutLate
<1>11. CASE Loaded
  <2>1. changes' = Posted /\ settingsShown' = fetched
    BY <1>11 DEF Loaded
  <2>2. \A k \in Synced : editor'[k] = fetched[k]
    BY <1>11, ViewConstants DEF Loaded, Synced
  <2> QED
    BY <2>1, <2>2, PostedFacts DEF DaemonTypes
<1>12. CASE LoadFails
  BY <1>12 DEF LoadFails
<1>13. CASE SettingsShow
  BY <1>13 DEF SettingsShow
<1>14. CASE \E k \in Keys : Focus(k)
  BY <1>14 DEF Focus
<1>15. CASE Handle
  <2>1. UNCHANGED <<editor, focus, settingsShown>>
    BY <1>15 DEF Handle
  <2> QED
    BY <1>15, <2>1, HandleFacts, OneSelect
<1>16. CASE SettingsConfirm
  BY <1>16 DEF SettingsConfirm
<1>17. CASE SettingsCancel
  <2> DEFINE e == [key |-> Gpu, value |-> settingsShown[Gpu], user |-> FALSE]
  <2>1. /\ e \in Change /\ changes' \in {<<>>, <<e>>} /\ UNCHANGED <<focus, settingsShown>>
        /\ editor'[Gpu] = settingsShown[Gpu]
    BY <1>17, ViewConstants DEF SettingsCancel, Change, EditorTypes, Configs
  <2>2. CASE changes' = <<>>
    BY <2>2, OneSelect
  <2>3. CASE changes' = <<e>>
    <3>1. changes' \in Seq(Change) /\ Len(changes') = 1 /\ changes'[1] = e
      BY <2>1, <2>3
    <3> QED
      BY <2>1, <3>1, OneSelect
  <2> QED
    BY <2>1, <2>2, <2>3
<1>18. CASE Reset
  BY <1>18 DEF Reset
<1>19. CASE Applied
  BY <1>19 DEF Applied
<1>20. CASE UNCHANGED pageVars
  BY <1>20
<1> QED
  BY <1>1, <1>2, <1>3, <1>4, <1>5, <1>6, <1>7, <1>8, <1>9, <1>10,
     <1>11, <1>12, <1>13, <1>14, <1>15, <1>16, <1>17, <1>18, <1>19, <1>20
  DEF SettingsViewNext

\* Every way a choice may end, refused, lost, cancelled, overtaken by a load or by a
\* change elsewhere, leaves the drop-down right or a reload to come.
LEMMA AgreeStep ==
  DaemonTypes /\ EditorTypes /\ ViewFlags /\ EventsInv /\ AgreeInv /\ [SettingsViewNext]_pageVars
    => AgreeInv'
<1> SUFFICES ASSUME DaemonTypes, EditorTypes, ViewFlags, EventsInv, AgreeInv,
                    [SettingsViewNext]_pageVars
             PROVE  AgreeInv'
  OBVIOUS
<1> USE DEF AgreeInv, settingsDaemon, page, settingsCalls, ui, bounds, pageVars
<1>1. CASE \E k \in Keys, v \in SettingsValues : SettingsElsewhere(k, v)
  BY <1>1 DEF SettingsElsewhere
<1>2. CASE \E k \in Keys, v \in SettingsValues : Submit(k, v)
  <2> PICK k \in Keys, v \in SettingsValues : Submit(k, v)
    BY <1>2
  <2>1. /\ changes = <<>> /\ write.key = Nothing /\ ~settingsDialog /\ k \in Inputs
        /\ UNCHANGED <<settingsKnown, settingsShown, keep, lastLoad, loading,
                      changes, settingsDialog>>
    BY DEF Submit, UserMay
  <2>2. \A s \in Selects : editor'[s] = editor[s]
    BY <2>1, ViewConstants DEF Submit, EditorTypes, Configs
  <2>3. \A s \in Selects : s # Nothing
    BY ViewConstants
  <2> QED
    BY <2>1, <2>2, <2>3, ViewConstants
<1>3. CASE \E k \in Keys, v \in SettingsValues : Choose(k, v)
  <2> PICK k \in Keys, v \in SettingsValues : Choose(k, v)
    BY <1>3
  <2>1. /\ changes = <<>> /\ k \in Selects
        /\ changes' = <<[key |-> k, value |-> v, user |-> TRUE]>>
        /\ UNCHANGED <<settingsKnown, settingsShown, keep, lastLoad, loading,
                      write, settingsDialog>>
    BY DEF Choose, UserMay
  <2>2. Len(changes') = 1 /\ changes'[1].key = k /\ Len(changes) = 0
    BY <2>1
  <2>3. \A s \in Selects : s # k => editor'[s] = editor[s]
    BY <2>1, ViewConstants DEF Choose, EditorTypes, Configs
  <2> QED
    BY <2>1, <2>2, <2>3
<1>4. CASE SettingsSnapshot
  BY <1>4 DEF SettingsSnapshot
<1>5. CASE Answer
  BY <1>5 DEF Answer
<1>6. CASE AnswerFails
  BY <1>6 DEF AnswerFails
<1>7. CASE SettingsRefuse
  BY <1>7 DEF SettingsRefuse, DaemonTypes
<1>8. CASE CarryOut
  BY <1>8 DEF CarryOut, DaemonTypes
<1>9. CASE CallFails
  BY <1>9 DEF CallFails, DaemonTypes
<1>10. CASE \E w \in late : CarryOutLate(w)
  BY <1>10 DEF CarryOutLate
<1>11. CASE Loaded
  <2>1. settingsKnown' = TRUE /\ settingsShown' = fetched /\ keep' = keep
    BY <1>11 DEF Loaded
  <2>2. \A k \in Selects \ keep : editor'[k] = fetched[k]
    BY <1>11, ViewConstants DEF Loaded, Syncs
  <2> QED
    BY <2>1, <2>2
<1>12. CASE LoadFails
  BY <1>12 DEF LoadFails
<1>13. CASE SettingsShow
  BY <1>13 DEF SettingsShow, Reload
<1>14. CASE \E k \in Keys : Focus(k)
  BY <1>14 DEF Focus
<1>15. CASE Handle
  <2> DEFINE e == Head(changes)
  <2>1. /\ UNCHANGED <<settingsKnown, settingsShown, editor, keep, lastLoad,
                      loading, focus>>
        /\ settingsDialog => settingsDialog'
        /\ write.key # Nothing => write' = write
    BY <1>15 DEF Handle, Sent, ViewFlags
  <2>2. /\ e \in Change /\ e = changes[1] /\ 1 \in 1..Len(changes)
        /\ \A x \in 1..Len(changes) :
             x = 1 \/ \E y \in 1..Len(changes') : changes'[y] = changes[x]
    <3>1. /\ \A x \in 1..Len(changes') : changes'[x] = changes[x + 1]

         /\ Len(changes') = Len(changes) - 1 /\ Len(changes) \in Nat
      BY <1>15, HandleFacts
    <3>2. ASSUME NEW x \in 1..Len(changes), x # 1
          PROVE  \E y \in 1..Len(changes') : changes'[y] = changes[x]
      <4>1. x - 1 \in 1..Len(changes') /\ (x - 1) + 1 = x
        BY <3>1, <3>2
      <4> QED
        BY <3>1, <4>1
    <3> QED
      BY <1>15, <3>2, HandleFacts
  <2>3. lastLoad = "ok" => \/ editor[e.key] = settingsShown[e.key]
                           \/ write'.key = e.key
                           \/ (e.key = Gpu /\ settingsDialog')
    <3>1. /\ e.value = editor[e.key]
          /\ IF e.user THEN focus = e.key ELSE e.value = settingsShown[e.key]
      BY <2>2 DEF EventsInv
    <3>2. CASE ~Applies(e)
      BY <3>1, <3>2 DEF Applies
    <3>3. CASE Applies(e)
      BY <1>15, <3>3 DEF Handle, Sent
    <3> QED
      BY <3>2, <3>3
  <2>4. ASSUME lastLoad = "ok", loading = "no", NEW k \in Selects \ keep
        PROVE  \/ editor[k] = settingsShown[k] \/ write'.key \in {k, All}
               \/ (k = Gpu /\ settingsDialog')
               \/ \E x \in 1..Len(changes') : changes'[x].key = k
    <3>1. CASE editor[k] = settingsShown[k]
      BY <3>1
    <3>2. CASE write.key \in {k, All}
      BY <2>1, <3>2, ViewConstants
    <3>3. CASE k = Gpu /\ settingsDialog
      BY <2>1, <3>3
    <3>4. CASE \E x \in 1..Len(changes) : changes[x].key = k
      <4> PICK x \in 1..Len(changes) : changes[x].key = k
        BY <3>4
      <4>1. CASE x = 1
        BY <2>2, <2>3, <2>4, <4>1
      <4>2. CASE x # 1
        BY <2>2, <4>2
      <4> QED
        BY <4>1, <4>2
    <3> QED
      BY <2>4, <3>1, <3>2, <3>3, <3>4
  <2> QED
    BY <2>1, <2>4
<1>16. CASE SettingsConfirm
  <2>1. /\ UNCHANGED <<settingsKnown, settingsShown, editor, keep, lastLoad,
                      loading, changes>>
        /\ write.key = Nothing /\ write'.key = Gpu
    BY <1>16 DEF SettingsConfirm, Sent
  <2> QED
    BY <2>1, ViewConstants
<1>17. CASE SettingsCancel
  <2>1. /\ UNCHANGED <<settingsKnown, settingsShown, keep, lastLoad, loading, write>>
        /\ Len(changes) = 0
    BY <1>17 DEF SettingsCancel, settingsCalls
  <2>2. \A k \in Selects : editor'[k] = IF k = Gpu THEN settingsShown[k] ELSE editor[k]
    BY <1>17, ViewConstants DEF SettingsCancel, EditorTypes, Configs
  <2> QED
    BY <2>1, <2>2
<1>18. CASE Reset
  BY <1>18 DEF Reset
<1>19. CASE Applied
  <2>1. loading' # "no" /\ UNCHANGED <<settingsKnown, lastLoad>>
    BY <1>19 DEF Applied, Reload
  <2> QED
    BY <2>1
<1>20. CASE UNCHANGED pageVars
  BY <1>20
<1> QED
  BY <1>1, <1>2, <1>3, <1>4, <1>5, <1>6, <1>7, <1>8, <1>9, <1>10,
     <1>11, <1>12, <1>13, <1>14, <1>15, <1>16, <1>17, <1>18, <1>19, <1>20
  DEF SettingsViewNext

\* An event that a load or a cancelled dialog has posted is not applied, also in the
\* editor that has the focus.
LEMMA ByUserStep ==
  EventsInv /\ byUser = TRUE /\ [SettingsViewNext]_pageVars => byUser' = TRUE
<1> SUFFICES ASSUME EventsInv, byUser = TRUE,
                    [SettingsViewNext]_pageVars
             PROVE  byUser' = TRUE
  OBVIOUS
<1> USE DEF settingsDaemon, page, settingsCalls, ui, bounds, pageVars
<1>1. CASE \E k \in Keys, v \in SettingsValues : SettingsElsewhere(k, v)
  BY <1>1 DEF SettingsElsewhere
<1>2. CASE \E k \in Keys, v \in SettingsValues : Submit(k, v)
  BY <1>2 DEF Submit
<1>3. CASE \E k \in Keys, v \in SettingsValues : Choose(k, v)
  BY <1>3 DEF Choose
<1>4. CASE SettingsSnapshot
  BY <1>4 DEF SettingsSnapshot
<1>5. CASE Answer
  BY <1>5 DEF Answer
<1>6. CASE AnswerFails
  BY <1>6 DEF AnswerFails
<1>7. CASE SettingsRefuse
  BY <1>7 DEF SettingsRefuse
<1>8. CASE CarryOut
  BY <1>8 DEF CarryOut
<1>9. CASE CallFails
  BY <1>9 DEF CallFails
<1>10. CASE \E w \in late : CarryOutLate(w)
  BY <1>10 DEF CarryOutLate
<1>11. CASE Loaded
  BY <1>11 DEF Loaded
<1>12. CASE LoadFails
  BY <1>12 DEF LoadFails
<1>13. CASE SettingsShow
  BY <1>13 DEF SettingsShow
<1>14. CASE \E k \in Keys : Focus(k)
  BY <1>14 DEF Focus
<1>15. CASE Handle
  <2> DEFINE e == Head(changes)
  <2>1. e.user \in BOOLEAN /\ (e.user \/ e.value = settingsShown[e.key])
    BY <1>15, HandleFacts DEF EventsInv, Change
  <2>2. CASE Applies(e)
    BY <1>15, <2>1, <2>2 DEF Handle, Applies
  <2>3. CASE ~Applies(e)
    BY <1>15, <2>3 DEF Handle
  <2> QED
    BY <2>2, <2>3
<1>16. CASE SettingsConfirm
  BY <1>16 DEF SettingsConfirm
<1>17. CASE SettingsCancel
  BY <1>17 DEF SettingsCancel
<1>18. CASE Reset
  BY <1>18 DEF Reset
<1>19. CASE Applied
  BY <1>19 DEF Applied
<1>20. CASE UNCHANGED pageVars
  BY <1>20
<1> QED
  BY <1>1, <1>2, <1>3, <1>4, <1>5, <1>6, <1>7, <1>8, <1>9, <1>10,
     <1>11, <1>12, <1>13, <1>14, <1>15, <1>16, <1>17, <1>18, <1>19, <1>20
  DEF SettingsViewNext

\* A text that is being edited, or was rejected, changes only with a choice of the user.
KeepsText ==
  \A k \in Inputs : editor'[k] # editor[k] /\ (focus = k \/ k \in keep) => writes' > writes

\* No load, reset or answer touches such a text.
LEMMA TextStep ==
  EditorTypes /\ ViewCounts /\ [SettingsViewNext]_pageVars => KeepsText
<1> SUFFICES ASSUME EditorTypes, ViewCounts, [SettingsViewNext]_pageVars PROVE KeepsText
  OBVIOUS
<1> USE DEF KeepsText, settingsDaemon, page, settingsCalls, ui, bounds, pageVars
<1>1. CASE \E k \in Keys, v \in SettingsValues : SettingsElsewhere(k, v)
  BY <1>1 DEF SettingsElsewhere
<1>2. CASE \E k \in Keys, v \in SettingsValues : Submit(k, v)
  BY <1>2 DEF Submit, ViewCounts
<1>3. CASE \E k \in Keys, v \in SettingsValues : Choose(k, v)
  BY <1>3 DEF Choose, ViewCounts
<1>4. CASE SettingsSnapshot
  BY <1>4 DEF SettingsSnapshot
<1>5. CASE Answer
  BY <1>5 DEF Answer
<1>6. CASE AnswerFails
  BY <1>6 DEF AnswerFails
<1>7. CASE SettingsRefuse
  BY <1>7 DEF SettingsRefuse
<1>8. CASE CarryOut
  BY <1>8 DEF CarryOut
<1>9. CASE CallFails
  BY <1>9 DEF CallFails
<1>10. CASE \E w \in late : CarryOutLate(w)
  BY <1>10 DEF CarryOutLate
<1>11. CASE Loaded
  BY <1>11, ViewConstants DEF Loaded, Syncs
<1>12. CASE LoadFails
  BY <1>12 DEF LoadFails
<1>13. CASE SettingsShow
  BY <1>13 DEF SettingsShow
<1>14. CASE \E k \in Keys : Focus(k)
  BY <1>14 DEF Focus
<1>15. CASE Handle
  BY <1>15 DEF Handle
<1>16. CASE SettingsConfirm
  BY <1>16 DEF SettingsConfirm
<1>17. CASE SettingsCancel
  BY <1>17, ViewConstants DEF SettingsCancel, EditorTypes, Configs
<1>18. CASE Reset
  BY <1>18 DEF Reset
<1>19. CASE Applied
  BY <1>19 DEF Applied
<1>20. CASE UNCHANGED pageVars
  BY <1>20
<1> QED
  BY <1>1, <1>2, <1>3, <1>4, <1>5, <1>6, <1>7, <1>8, <1>9, <1>10,
     <1>11, <1>12, <1>13, <1>14, <1>15, <1>16, <1>17, <1>18, <1>19, <1>20
  DEF SettingsViewNext

\* The page opens with the invariant.
LEMMA ViewBegins == SettingsViewInit => ViewInv
<1> SUFFICES ASSUME SettingsViewInit PROVE ViewInv
  OBVIOUS
<1>1. cfg \in Configs /\ changes = <<>> /\ Len(changes) = 0 /\ changes \in Seq(Change)
  BY ViewConstants DEF SettingsViewInit, Configs
<1>2. DaemonTypes /\ EditorTypes
  BY <1>1, ViewConstants
  DEF SettingsViewInit, DaemonTypes, EditorTypes, Verdicts, NoWrite
<1>3. ViewCounts
  BY ViewConstants DEF SettingsViewInit, ViewCounts
<1>4. ViewFlags /\ byUser = TRUE
  BY DEF SettingsViewInit, ViewFlags
<1>5. EventsInv /\ AgreeInv
  BY <1>1, OneSelect DEF SettingsViewInit, EventsInv, AgreeInv
<1> QED
  BY <1>2, <1>3, <1>4, <1>5 DEF ViewInv, ViewTypes

\* Every step keeps it.
LEMMA ViewGoesOn == ViewInv /\ [SettingsViewNext]_pageVars => ViewInv'
  BY DaemonTypesStep, EditorTypesStep, ViewFlagsStep, ViewCountsStep, EventsStep, AgreeStep,
     ByUserStep
  DEF ViewInv, ViewTypes

\* For any keys, values and number of changes, here or elsewhere, and of lost calls:
\* after a load the drop-downs agree with what was read, only the user's choices are
\* ever written, and no text being edited or rejected is overwritten
\* (tui/screens/settings.py, loaded, on_select_changed, gpu_mode and applied).
THEOREM SettingsViewIsSafe == SettingsViewSpec => SettingsViewSafe
<1>1. ViewInv => SettingsViewTypeOK /\ SelectsAgree /\ OnlyUserApplies
  <2> SUFFICES ASSUME ViewInv PROVE SettingsViewTypeOK /\ SelectsAgree /\ OnlyUserApplies
    OBVIOUS
  <2>1. \A x \in 1..Len(changes) : changes[x] \in Change
    BY DEF ViewInv, EventsInv
  <2>2. SettingsViewTypeOK
    BY <2>1 DEF ViewInv, ViewTypes, DaemonTypes, EditorTypes, ViewFlags, ViewCounts,
                EventsInv, SettingsViewTypeOK, Change
  <2>3. SelectsAgree
    <3> SUFFICES ASSUME Quiet, lastLoad = "ok", NEW k \in Selects \ keep
                 PROVE  editor[k] = settingsShown[k]
      BY DEF SelectsAgree
    <3>1. loading = "no" /\ Len(changes) = 0 /\ ~settingsDialog /\ write.key = Nothing
      BY DEF Quiet
    <3> QED
      BY <3>1, ViewConstants DEF ViewInv, AgreeInv
  <2> QED
    BY <2>2, <2>3 DEF ViewInv, OnlyUserApplies
<1>2. ViewInv /\ [SettingsViewNext]_pageVars => [KeepsText]_pageVars
  BY TextStep DEF ViewInv, ViewTypes
<1> QED
  BY <1>1, <1>2, ViewBegins, ViewGoesOn, PTL
  DEF SettingsViewSpec, SettingsViewSafe, TextIsKept, KeepsText

-----------------------------------------------------------------------------
(* GpuView *)

\* The dialog is open while nothing is pending, and a reply is to what is pending.
PageInv ==
  /\ dialog => pending = None
  /\ reply # None => pending # None

\* What the constants give.
LEMMA ModeFacts ==
  Off \in Modes /\ None \notin Modes /\ {MaxPicks, MaxElsewhere, MaxLost} \subseteq Nat
  BY GpuViewAssumption

\* The page stays of its types.
LEMMA GpuViewTypeStep ==
  GpuViewTypeOK /\ [GpuViewNext]_gpuViewVars => GpuViewTypeOK'
<1> SUFFICES ASSUME GpuViewTypeOK, [GpuViewNext]_gpuViewVars PROVE GpuViewTypeOK'
  OBVIOUS
<1> USE DEF GpuViewTypeOK, Maybe
<1>1. CASE \E m \in Modes : Elsewhere(m)
  BY <1>1, ModeFacts DEF Elsewhere
<1>2. CASE Snapshot
  BY <1>2 DEF Snapshot
<1>3. CASE Send
  BY <1>3 DEF Send
<1>4. CASE \E m \in Modes : Reach(m)
  BY <1>4 DEF Reach
<1>5. CASE Refuse
  BY <1>5, ModeFacts DEF Refuse
<1>6. CASE Show
  BY <1>6 DEF Show, Pressed
<1>7. CASE \E m \in Modes : Pick(m)
  <2> PICK m \in Modes : Pick(m)
    BY <1>7
  <2>1. /\ radio' \in Maybe /\ picks' \in 0..MaxPicks
        /\ UNCHANGED <<mode, snapshot, flight, current, expect, elsewhere, lost>>
    BY ModeFacts DEF Pick
  <2>2. pending' \in {pending, m} /\ reply' \in {reply, None}
    BY DEF Pick, Apply
  <2>3. UNCHANGED dialog \/ dialog' = TRUE
    BY DEF Pick
  <2>4. dialog' \in BOOLEAN
    BY <2>3
  <2> QED
    BY <2>1, <2>2, <2>4
<1>8. CASE Confirm
  BY <1>8, ModeFacts DEF Confirm, Apply
<1>9. CASE Cancel
  BY <1>9 DEF Cancel, Pressed, Effective
<1>10. CASE Done
  BY <1>10 DEF Done, Pressed, Effective, Expected
<1>11. CASE UNCHANGED gpuViewVars
  BY <1>11 DEF gpuViewVars
<1> QED
  BY <1>1, <1>2, <1>3, <1>4, <1>5, <1>6, <1>7, <1>8, <1>9, <1>10, <1>11 DEF GpuViewNext

\* A pick opens the dialog or asks for the change; an answer ends what was asked.
LEMMA PageStep ==
  GpuViewTypeOK /\ PageInv /\ [GpuViewNext]_gpuViewVars => PageInv'
<1> SUFFICES ASSUME GpuViewTypeOK, PageInv, [GpuViewNext]_gpuViewVars PROVE PageInv'
  OBVIOUS
<1> USE DEF PageInv
<1>1. CASE \E m \in Modes : Elsewhere(m)
  BY <1>1 DEF Elsewhere
<1>2. CASE Snapshot
  BY <1>2 DEF Snapshot
<1>3. CASE Send
  BY <1>3 DEF Send
<1>4. CASE \E m \in Modes : Reach(m)
  BY <1>4 DEF Reach
<1>5. CASE Refuse
  BY <1>5 DEF Refuse
<1>6. CASE Show
  BY <1>6 DEF Show, Pressed
<1>7. CASE \E m \in Modes : Pick(m)
  BY <1>7, ModeFacts DEF Pick, Apply, Effective
<1>8. CASE Confirm
  BY <1>8, ModeFacts DEF Confirm, Apply
<1>9. CASE Cancel
  BY <1>9 DEF Cancel, Pressed, Effective
<1>10. CASE Done
  BY <1>10 DEF Done, Pressed, Effective, Expected
<1>11. CASE UNCHANGED gpuViewVars
  BY <1>11 DEF gpuViewVars
<1> QED
  BY <1>1, <1>2, <1>3, <1>4, <1>5, <1>6, <1>7, <1>8, <1>9, <1>10, <1>11 DEF GpuViewNext

\* A status that arrives between a pick and its answer, or between the answer and the
\* first status that agrees, does not move the buttons.
LEMMA ButtonsStep ==
  GpuViewTypeOK /\ PageInv /\ ButtonsHold /\ [GpuViewNext]_gpuViewVars => ButtonsHold'
<1> SUFFICES ASSUME GpuViewTypeOK, PageInv, ButtonsHold, [GpuViewNext]_gpuViewVars
             PROVE  ButtonsHold'
  OBVIOUS
<1> USE DEF GpuViewTypeOK, PageInv, ButtonsHold, Maybe
<1>1. CASE \E m \in Modes : Elsewhere(m)
  BY <1>1 DEF Elsewhere
<1>2. CASE Snapshot
  BY <1>2 DEF Snapshot
<1>3. CASE Send
  BY <1>3 DEF Send
<1>4. CASE \E m \in Modes : Reach(m)
  BY <1>4 DEF Reach
<1>5. CASE Refuse
  BY <1>5 DEF Refuse
<1>6. CASE Show
  BY <1>6, ModeFacts DEF Show, Pressed
<1>7. CASE \E m \in Modes : Pick(m)
  BY <1>7, ModeFacts DEF Pick, Apply, Effective
<1>8. CASE Confirm
  BY <1>8, ModeFacts DEF Confirm, Apply
<1>9. CASE Cancel
  BY <1>9, ModeFacts DEF Cancel, Pressed, Effective
<1>10. CASE Done
  BY <1>10, ModeFacts DEF Done, Pressed, Effective, Expected
<1>11. CASE UNCHANGED gpuViewVars
  BY <1>11 DEF gpuViewVars
<1> QED
  BY <1>1, <1>2, <1>3, <1>4, <1>5, <1>6, <1>7, <1>8, <1>9, <1>10, <1>11 DEF GpuViewNext

\* For any set of modes, any order of statuses and answers, refusals and changes by
\* another client: the buttons of the GPU page stay on the mode asked for while it is
\* being applied, then on the one the daemon said it reached, until a status agrees
\* (tui/screens/gpu.py, show, on_radio_set_changed and done).
THEOREM GpuViewIsSafe == GpuViewSpec => []GpuViewSafe
<1> DEFINE Inv == GpuViewTypeOK /\ PageInv /\ ButtonsHold
<1>1. GpuViewInit => Inv
  <2> SUFFICES ASSUME GpuViewInit PROVE Inv
    OBVIOUS
  <2>1. GpuViewTypeOK
    <3>1. picks \in 0..MaxPicks /\ elsewhere \in 0..MaxElsewhere /\ lost \in 0..MaxLost
      BY ModeFacts DEF GpuViewInit
    <3>2. dialog \in BOOLEAN
      BY DEF GpuViewInit
    <3> QED
      BY <3>1, <3>2 DEF GpuViewInit, GpuViewTypeOK, Maybe
  <2> QED
    BY <2>1 DEF GpuViewInit, PageInv, ButtonsHold
<1>2. Inv /\ [GpuViewNext]_gpuViewVars => Inv'
  BY GpuViewTypeStep, PageStep, ButtonsStep
<1>3. Inv => GpuViewSafe
  BY DEF GpuViewSafe
<1> QED
  BY <1>1, <1>2, <1>3, PTL DEF GpuViewSpec

-----------------------------------------------------------------------------
(* IncidentsView *)

\* The page, but for the details in flight.
RestTypes ==
  /\ listing \in 0..MaxLists /\ lists \in 0..MaxLists /\ listing <= lists
  /\ cursor \in Ids \cup {NoIncident} /\ loaded \in Ids \cup {NoIncident}
  /\ detail \in Ids \cup {NoIncident} /\ title \in Ids \cup {NoIncident, Error}

\* The details in flight are finitely many and at most MaxDetailCalls.
CallsInv ==
  /\ detailCalls \in [Ids -> 0..MaxDetailCalls]
  /\ IsFiniteSet(InFlight) /\ Cardinality(InFlight) <= MaxDetailCalls

\* What the constants give.
LEMMA PageConstants ==
  MaxDetailCalls \in Nat /\ MaxDetailCalls > 0 /\ MaxLists \in Nat /\ MaxLists > 0
  BY IncidentsViewAssumption

\* An answer takes one detail off those in flight.
LEMMA CallsEnd ==
  ASSUME CallsInv, NEW i \in Ids, detailCalls[i] > 0,
         detailCalls' = [detailCalls EXCEPT ![i] = @ - 1]
  PROVE  CallsInv'
<1>1. detailCalls' \in [Ids -> 0..MaxDetailCalls]
  BY PageConstants DEF CallsInv
<1>2. \A j \in Ids : detailCalls'[j] <= detailCalls[j]
  BY DEF CallsInv
<1>3. InFlight' \in SUBSET InFlight
  BY <1>1, <1>2, PageConstants DEF InFlight, CallsInv
<1>4. IsFiniteSet(InFlight') /\ Cardinality(InFlight') <= Cardinality(InFlight)
  BY <1>3, FS_Subset DEF CallsInv
<1>5. Cardinality(InFlight') \in Nat /\ Cardinality(InFlight) \in Nat
  BY <1>4, FS_CardinalityType DEF CallsInv
<1> QED
  BY <1>1, <1>4, <1>5, PageConstants DEF CallsInv

\* A load adds one to those in flight, and is made below the bound only.
LEMMA CallBegins ==
  ASSUME CallsInv, NEW i \in Ids, Load(i)
  PROVE  CallsInv'
<1> DEFINE k == detailCalls[i]
<1> DEFINE f == [n \in 1..k |-> <<i, n>>]
<1>1. k \in 0..MaxDetailCalls /\ MaxDetailCalls \in Nat
  BY PageConstants DEF CallsInv
<1>2. f \in Injection(1..k, InFlight)
  <2>1. \A n \in 1..k : <<i, n>> \in InFlight
    BY <1>1 DEF InFlight
  <2> QED
    BY <2>1 DEF Injection, IsInjective
<1>3. k <= Cardinality(InFlight) /\ Cardinality(InFlight) < MaxDetailCalls
  <2>1. Cardinality(1..k) = k
    BY <1>1, FS_Interval
  <2>2. Cardinality(1..k) <= Cardinality(InFlight)
    BY <1>2, FS_Injection DEF CallsInv
  <2> QED
    BY <2>1, <2>2 DEF Load
<1>4. Cardinality(InFlight) \in Nat
  BY FS_CardinalityType DEF CallsInv
<1>5. k + 1 \in 1..MaxDetailCalls
  BY <1>1, <1>3, <1>4
<1>6. detailCalls' = [detailCalls EXCEPT ![i] = k + 1]
  BY DEF Load
<1>7. detailCalls' \in [Ids -> 0..MaxDetailCalls]
  BY <1>1, <1>5, <1>6 DEF CallsInv
<1>8. InFlight' \in SUBSET (InFlight \cup {<<i, k + 1>>})
  <2> SUFFICES ASSUME NEW j \in Ids, NEW n \in 1..MaxDetailCalls, n <= detailCalls'[j]
               PROVE  <<j, n>> \in InFlight \cup {<<i, k + 1>>}
    BY DEF InFlight
  <2>1. CASE j = i
    <3>1. n <= k + 1
      BY <1>6, <2>1 DEF CallsInv
    <3>2. n = k + 1 \/ n <= k
      BY <1>1, <3>1
    <3> QED
      BY <2>1, <3>2 DEF InFlight
  <2>2. CASE j # i
    BY <1>6, <2>2 DEF InFlight, CallsInv
  <2> QED
    BY <2>1, <2>2
<1>9. /\ IsFiniteSet(InFlight \cup {<<i, k + 1>>})
      /\ Cardinality(InFlight \cup {<<i, k + 1>>}) <= Cardinality(InFlight) + 1
  <2>1. IsFiniteSet(InFlight)
    BY DEF CallsInv
  <2> DEFINE call == <<i, k + 1>>
  <2> HIDE DEF call
  <2>2. /\ IsFiniteSet(InFlight \cup {call})
        /\ Cardinality(InFlight \cup {call})
             \in {Cardinality(InFlight), Cardinality(InFlight) + 1}
    BY <2>1, FS_AddElement
  <2> QED
    BY <1>4, <2>2 DEF call
<1>10. /\ IsFiniteSet(InFlight')
       /\ Cardinality(InFlight') <= Cardinality(InFlight \cup {<<i, k + 1>>})
  BY <1>8, <1>9, FS_Subset
<1>11. Cardinality(InFlight') \in Nat /\ Cardinality(InFlight \cup {<<i, k + 1>>}) \in Nat
  BY <1>9, <1>10, FS_CardinalityType
<1>12. Cardinality(InFlight') <= MaxDetailCalls
  BY <1>1, <1>3, <1>4, <1>9, <1>10, <1>11
<1> QED
  BY <1>7, <1>10, <1>12 DEF CallsInv

\* Lists, highlights and answers keep the number of details in flight bounded.
LEMMA CallsStep ==
  CallsInv /\ [IncidentsViewNext]_incVars => CallsInv'
<1> SUFFICES ASSUME CallsInv, [IncidentsViewNext]_incVars PROVE CallsInv'
  OBVIOUS
<1>1. CASE Activate
  BY <1>1 DEF Activate, CallsInv, InFlight
<1>2. CASE Listed
  <2>1. CASE UNCHANGED detailCalls
    BY <2>1 DEF CallsInv, InFlight
  <2>2. CASE \E i \in Ids : Load(i)
    BY <2>2, CallBegins
  <2>3. (CHOOSE x \in Ids : TRUE) \in Ids \/ Ids = {}
    OBVIOUS
  <2> QED
    BY <1>2, <2>1, <2>2, <2>3 DEF Listed
<1>3. CASE ListFails
  BY <1>3 DEF ListFails, CallsInv, InFlight
<1>4. CASE \E i \in Ids : Highlight(i)
  <2>1. CASE UNCHANGED detailCalls
    BY <2>1 DEF CallsInv, InFlight
  <2>2. CASE \E i \in Ids : Load(i)
    BY <2>2, CallBegins
  <2> QED
    BY <1>4, <2>1, <2>2 DEF Highlight
<1>5. CASE \E i \in Ids : Render(i)
  BY <1>5, CallsEnd DEF Render
<1>6. CASE \E i \in Ids : RenderFails(i)
  BY <1>6, CallsEnd DEF RenderFails
<1>7. CASE UNCHANGED incVars
  BY <1>7 DEF incVars, CallsInv, InFlight
<1> QED
  BY <1>1, <1>2, <1>3, <1>4, <1>5, <1>6, <1>7 DEF IncidentsViewNext

\* The page stays of its types.
LEMMA RestStep ==
  RestTypes /\ [IncidentsViewNext]_incVars => RestTypes'
<1> SUFFICES ASSUME RestTypes, [IncidentsViewNext]_incVars PROVE RestTypes'
  OBVIOUS
<1> USE DEF RestTypes, Load
<1>1. CASE Activate
  BY <1>1, PageConstants DEF Activate
<1>2. CASE Listed
  <2>1. listing' \in 0..MaxLists /\ lists' \in 0..MaxLists /\ listing' <= lists'
    BY <1>2, PageConstants DEF Listed
  <2>2. (CHOOSE x \in Ids : TRUE) \in Ids \/ Ids = {}
    OBVIOUS
  <2> QED
    BY <1>2, <2>1, <2>2 DEF Listed
<1>3. CASE ListFails
  BY <1>3, PageConstants DEF ListFails
<1>4. CASE \E i \in Ids : Highlight(i)
  BY <1>4 DEF Highlight
<1>5. CASE \E i \in Ids : Render(i)
  BY <1>5 DEF Render
<1>6. CASE \E i \in Ids : RenderFails(i)
  BY <1>6 DEF RenderFails
<1>7. CASE UNCHANGED incVars
  BY <1>7 DEF incVars
<1> QED
  BY <1>1, <1>2, <1>3, <1>4, <1>5, <1>6, <1>7 DEF IncidentsViewNext

\* Whatever arrives late, the incident asked for last is the highlighted one.
LEMMA AskedStep ==
  AskedIsSelected /\ [IncidentsViewNext]_incVars => AskedIsSelected'
<1> SUFFICES ASSUME AskedIsSelected, [IncidentsViewNext]_incVars PROVE AskedIsSelected'
  OBVIOUS
<1> USE DEF AskedIsSelected, Load
<1>1. CASE Activate
  BY <1>1 DEF Activate
<1>2. CASE Listed
  BY <1>2 DEF Listed
<1>3. CASE ListFails
  BY <1>3 DEF ListFails
<1>4. CASE \E i \in Ids : Highlight(i)
  BY <1>4 DEF Highlight
<1>5. CASE \E i \in Ids : Render(i)
  BY <1>5 DEF Render
<1>6. CASE \E i \in Ids : RenderFails(i)
  BY <1>6 DEF RenderFails
<1>7. CASE UNCHANGED incVars
  BY <1>7 DEF incVars
<1> QED
  BY <1>1, <1>2, <1>3, <1>4, <1>5, <1>6, <1>7 DEF IncidentsViewNext

\* For any set of incidents, with lists and details answered in any order or failing:
\* the page's state is of its types, and the incident that was asked for last is the
\* one under the cursor (tui/screens/incidents.py).
THEOREM IncidentsViewIsSafe == IncidentsViewSpec => []IncidentsViewSafe
<1> DEFINE Inv == RestTypes /\ CallsInv /\ AskedIsSelected
<1>1. IncidentsViewInit => Inv
  <2> SUFFICES ASSUME IncidentsViewInit PROVE Inv
    OBVIOUS
  <2>1. RestTypes /\ AskedIsSelected
    BY PageConstants DEF IncidentsViewInit, RestTypes, AskedIsSelected
  <2>2. InFlight = {} /\ detailCalls \in [Ids -> 0..MaxDetailCalls]
    BY PageConstants DEF IncidentsViewInit, InFlight
  <2> QED
    BY <2>1, <2>2, FS_EmptySet, PageConstants DEF CallsInv
<1>2. Inv /\ [IncidentsViewNext]_incVars => Inv'
  BY RestStep, CallsStep, AskedStep
<1>3. Inv => IncidentsViewSafe
  BY DEF RestTypes, CallsInv, IncidentsViewSafe, IncidentsViewTypeOK
<1> QED
  BY <1>1, <1>2, <1>3, PTL DEF IncidentsViewSpec

-----------------------------------------------------------------------------
(* What a list comprehension keeps *)

\* A nonempty set of natural numbers has a least one, as < is well-founded.
LEMMA LeastNumber ==
  ASSUME NEW T, \A k \in T : k \in Nat, T # {}
  PROVE  \E m \in T : \A k \in T : m <= k
<1> DEFINE R == OpToRel(<, Nat)
<1>1. \A x, y \in Nat : y < x => <<y, x>> \in R
  BY DEF OpToRel
<1>2. IsWellFoundedOn(R, Nat)
  BY NatLessThanWellFounded
<1> HIDE DEF R
<1>3. T \subseteq Nat
  OBVIOUS
<1>4. PICK m \in T : \A y \in T : ~ (<<y, m>> \in R)
  BY <1>2, <1>3, WFMin
<1>5. ASSUME NEW k \in T PROVE m <= k
  <2>1. ~(k < m)
    BY <1>1, <1>4
  <2> QED
    BY <2>1
<1> QED
  BY <1>5

\* Induction over the numbers up to n, for a set.
LEMMA NumbersUpTo ==
  ASSUME NEW n \in Nat, NEW T, 0 \in T, \A k \in 0..(n - 1) : k \in T => k + 1 \in T
  PROVE  \A k \in 0..n : k \in T
<1> DEFINE U == {k \in 0..n : k \notin T}
<1> SUFFICES ASSUME U # {} PROVE FALSE
  OBVIOUS
<1>1. \A k \in U : k \in Nat
  OBVIOUS
<1> HIDE DEF U
<1>2. PICK m \in U : \A k \in U : m <= k
  BY <1>1, LeastNumber
<1>3. m \in 0..n /\ m \notin T
  BY DEF U
<1>4. m # 0
  BY <1>3
<1>5. m - 1 \in 0..(n - 1)
  BY <1>3, <1>4
<1>6. m - 1 \in U \/ m - 1 \in T
  BY <1>5 DEF U
<1>7. m - 1 \in T
  BY <1>2, <1>3, <1>6
<1>8. m = (m - 1) + 1
  BY <1>3
<1>9. (m - 1) + 1 \in T
  BY <1>5, <1>7
<1> QED
  BY <1>3, <1>8, <1>9

\* Induction over sequences, for a set of them.
LEMMA AllSequences ==
  ASSUME NEW E, NEW T, <<>> \in T, \A s \in Seq(E), e \in E : s \in T => Append(s, e) \in T
  PROVE  \A s \in Seq(E) : s \in T
<1> SUFFICES ASSUME NEW w \in Seq(E) PROVE w \in T
  OBVIOUS
<1> DEFINE U == {k \in Nat : \A s \in Seq(E) : Len(s) = k => s \in T}
<1>0. Len(w) \in Nat
  OBVIOUS
<1>1. 0 \in U
  <2>1. \A s \in Seq(E) : Len(s) = 0 => s = <<>>
    BY EmptySeq
  <2> QED
    BY <2>1
<1>2. ASSUME NEW k \in 0..(Len(w) - 1), k \in U PROVE k + 1 \in U
  <2>1. SUFFICES ASSUME NEW s \in Seq(E), Len(s) = k + 1 PROVE s \in T
    BY <1>0, <1>2
  <2>2. k \in Nat
    BY <1>0, <1>2
  <2>3. s # <<>>
    BY <2>1, <2>2
  <2>4. PICK r \in Seq(E), e \in E : s = Append(r, e)
    BY <2>3, SequenceEmptyOrAppend
  <2>5. Len(r) = k
    BY <2>1, <2>2, <2>4
  <2>6. r \in T
    BY <1>2, <2>5
  <2> QED
    BY <2>4, <2>6
<1> HIDE DEF U
<1>3. \A k \in 0..Len(w) : k \in U
  BY <1>0, <1>1, <1>2, NumbersUpTo
<1>4. Len(w) \in U
  BY <1>0, <1>3
<1> QED
  BY <1>4 DEF U

\* The table that Within builds.
IsTable(m, s, S) ==
  m = [i \in 0..Len(s) |->
         IF i = 0 THEN <<>>
         ELSE IF s[i] \in S THEN Append(m[i - 1], s[i]) ELSE m[i - 1]]

\* There is one table.
LEMMA OneTable ==
  ASSUME NEW E, NEW S, NEW s \in Seq(E), NEW m, NEW n, IsTable(m, s, S), IsTable(n, s, S)
  PROVE  m = n
<1> DEFINE T == {i \in 0..Len(s) : m[i] = n[i]}
<1>0. Len(s) \in Nat
  OBVIOUS
<1>1. 0 \in T
  BY <1>0 DEF IsTable
<1>2. ASSUME NEW k \in 0..(Len(s) - 1), k \in T PROVE k + 1 \in T
  <2>1. k + 1 \in 0..Len(s) /\ k + 1 # 0 /\ (k + 1) - 1 = k
    BY <1>0
  <2>2. m[k + 1] = IF s[k + 1] \in S THEN Append(m[k], s[k + 1]) ELSE m[k]
    BY <2>1 DEF IsTable
  <2>3. n[k + 1] = IF s[k + 1] \in S THEN Append(n[k], s[k + 1]) ELSE n[k]
    BY <2>1 DEF IsTable
  <2> QED
    BY <1>2, <2>1, <2>2, <2>3
<1>3. \A k \in 0..Len(s) : k \in T
  <2> HIDE DEF T
  <2> QED
    BY <1>0, <1>1, <1>2, NumbersUpTo
<1>4. \A k \in 0..Len(s) : m[k] = n[k]
  BY <1>3
<1>5. m = [i \in 0..Len(s) |-> m[i]] /\ n = [i \in 0..Len(s) |-> n[i]]
  BY DEF IsTable
<1> QED
  BY <1>4, <1>5

\* The table of a longer list.
Longer(m, s, e, S) ==
  [i \in 0..(Len(s) + 1) |->
     IF i <= Len(s) THEN m[i] ELSE IF e \in S THEN Append(m[Len(s)], e) ELSE m[Len(s)]]

\* It is one.
LEMMA LongerTable ==
  ASSUME NEW E, NEW S, NEW s \in Seq(E), NEW e \in E, NEW m, IsTable(m, s, S)
  PROVE  IsTable(Longer(m, s, e, S), Append(s, e), S)
<1> DEFINE w == Append(s, e)
           n == Longer(m, s, e, S)
<1>1. /\ w \in Seq(E) /\ Len(w) = Len(s) + 1 /\ Len(s) \in Nat
      /\ w[Len(s) + 1] = e /\ \A i \in 1..Len(s) : w[i] = s[i]
  BY AppendProperties
<1> HIDE DEF w
<1>2. ASSUME NEW i \in 0..Len(w)
      PROVE  n[i] = IF i = 0 THEN <<>>
                    ELSE IF w[i] \in S THEN Append(n[i - 1], w[i]) ELSE n[i - 1]
  <2>1. CASE i = 0
    <3>1. n[0] = m[0]
      BY <1>1 DEF Longer
    <3>2. m[0] = <<>>
      BY <1>1 DEF IsTable
    <3> QED
      BY <2>1, <3>1, <3>2
  <2>2. CASE i \in 1..Len(s)
    <3>1. i \in 0..Len(s) /\ i # 0 /\ i - 1 \in 0..Len(s) /\ w[i] = s[i]
      BY <1>1, <2>2
    <3>2. n[i] = m[i] /\ n[i - 1] = m[i - 1]
      BY <1>1, <3>1 DEF Longer
    <3>3. m[i] = IF s[i] \in S THEN Append(m[i - 1], s[i]) ELSE m[i - 1]
      BY <3>1 DEF IsTable
    <3> QED
      BY <3>1, <3>2, <3>3
  <2>3. CASE i = Len(s) + 1
    <3>1. n[i] = IF e \in S THEN Append(m[Len(s)], e) ELSE m[Len(s)]
      BY <1>1, <2>3 DEF Longer
    <3>2. i # 0 /\ i - 1 = Len(s) /\ n[Len(s)] = m[Len(s)]
      BY <1>1, <2>3 DEF Longer
    <3>3. w[i] = e
      BY <1>1, <2>3
    <3> QED
      BY <3>1, <3>2, <3>3
  <2> QED
    BY <1>1, <2>1, <2>2, <2>3
<1>3. n = [i \in 0..Len(w) |-> n[i]]
  BY <1>1 DEF Longer
<1> HIDE DEF n
<1>4. IsTable(n, w, S)
  BY <1>2, <1>3 DEF IsTable
<1> QED
  BY <1>4 DEF w, n

\* There is a table for every list.
LEMMA ATable ==
  ASSUME NEW E, NEW S
  PROVE  \A s \in Seq(E) : \E m : IsTable(m, s, S)
<1> DEFINE T == {s \in Seq(E) : \E m : IsTable(m, s, S)}
<1>1. <<>> \in T
  <2>1. IsTable([i \in {0} |-> <<>>], <<>>, S)
    <3>1. Len(<<>>) = 0 /\ 0..0 = {0}
      OBVIOUS
    <3> QED
      BY <3>1 DEF IsTable
  <2> QED
    BY <2>1
<1>2. ASSUME NEW s \in Seq(E), NEW e \in E, s \in T PROVE Append(s, e) \in T
  <2>1. PICK m : IsTable(m, s, S)
    BY <1>2
  <2>2. IsTable(Longer(m, s, e, S), Append(s, e), S)
    BY <2>1, LongerTable
  <2> QED
    BY <2>2
<1>3. \A s \in Seq(E) : s \in T
  <2> HIDE DEF T
  <2> QED
    BY <1>1, <1>2, AllSequences
<1> QED
  BY <1>3

\* Its last entry is what Within keeps.
LEMMA TableOf ==
  ASSUME NEW E, NEW S, NEW s \in Seq(E), NEW m, IsTable(m, s, S)
  PROVE  Within(s, S) = m[Len(s)]
<1> DEFINE c == CHOOSE n : IsTable(n, s, S)
<1>1. Within(s, S) = c[Len(s)]
  BY DEF Within, IsTable
<1>2. IsTable(c, s, S)
  OBVIOUS
<1> HIDE DEF c
<1>3. c = m
  BY <1>2, OneTable
<1> QED
  BY <1>1, <1>3

\* What Within keeps of a list with one element more.
LEMMA WithinAppend ==
  ASSUME NEW E, NEW S, NEW s \in Seq(E), NEW e \in E
  PROVE  Within(Append(s, e), S) = IF e \in S THEN Append(Within(s, S), e) ELSE Within(s, S)
<1>1. PICK m : IsTable(m, s, S)
  BY ATable
<1> DEFINE n == Longer(m, s, e, S)
<1>2. IsTable(n, Append(s, e), S)
  BY <1>1, LongerTable
<1>3. Append(s, e) \in Seq(E) /\ Len(Append(s, e)) = Len(s) + 1 /\ Len(s) \in Nat
  BY AppendProperties
<1>4. n[Len(s) + 1] = IF e \in S THEN Append(m[Len(s)], e) ELSE m[Len(s)]
  BY <1>3 DEF Longer
<1> HIDE DEF n
<1>5. Within(s, S) = m[Len(s)]
  BY <1>1, TableOf
<1>6. Within(Append(s, e), S) = n[Len(s) + 1]
  BY <1>2, <1>3, TableOf
<1> QED
  BY <1>4, <1>5, <1>6

\* Nothing is kept of nothing.
LEMMA WithinEmpty ==
  ASSUME NEW S
  PROVE  Within(<<>>, S) = <<>>
<1>1. <<>> \in Seq({}) /\ Len(<<>>) = 0
  OBVIOUS
<1>2. PICK m : IsTable(m, <<>>, S)
  BY <1>1, ATable
<1>3. m[0] = <<>>
  BY <1>1, <1>2 DEF IsTable
<1>4. Within(<<>>, S) = m[Len(<<>>)]
  <2> DEFINE s == <<>>
  <2>1. s \in Seq({}) /\ IsTable(m, s, S)
    BY <1>1, <1>2
  <2> HIDE DEF s
  <2>2. Within(s, S) = m[Len(s)]
    BY <2>1, TableOf
  <2> QED
    BY <2>2 DEF s
<1> QED
  BY <1>1, <1>3, <1>4

\* What Within keeps, in terms of places: it keeps the members of S, each at a later
\* place than the ones before it, and misses none.
IsPick(h, w, s, S) ==
  /\ h \in [1..Len(w) -> 1..Len(s)]
  /\ \A i, j \in 1..Len(w) : i < j => h[i] < h[j]
  /\ \A i \in 1..Len(w) : w[i] = s[h[i]] /\ w[i] \in S
  /\ \A j \in 1..Len(s) : s[j] \in S => \E i \in 1..Len(w) : h[i] = j

\* That is what Within keeps.
LEMMA WithinPicks ==
  ASSUME NEW E, NEW S
  PROVE  \A s \in Seq(E) : /\ Within(s, S) \in Seq(E) /\ Len(Within(s, S)) <= Len(s)
                           /\ \E h : IsPick(h, Within(s, S), s, S)
<1> DEFINE T == {s \in Seq(E) : /\ Within(s, S) \in Seq(E) /\ Len(Within(s, S)) <= Len(s)
                                /\ \E h : IsPick(h, Within(s, S), s, S)}
<1>1. <<>> \in T
  <2> DEFINE z == <<>>
  <2>1. z \in Seq(E) /\ Len(z) = 0
    OBVIOUS
  <2>2. Within(z, S) = z
    BY WithinEmpty
  <2> HIDE DEF z
  <2>3. IsPick(z, z, z, S)
    <3>1. z \in [1..Len(z) -> 1..Len(z)]
      BY <2>1 DEF z
    <3>2. 1..Len(z) = {}
      BY <2>1
    <3> QED
      BY <3>1, <3>2 DEF IsPick
  <2>4. IsPick(z, Within(z, S), z, S) /\ Within(z, S) \in Seq(E)
    BY <2>1, <2>2, <2>3, Zenon
  <2>5. Len(Within(z, S)) <= Len(z)
    <3>1. Len(z) <= Len(z)
      BY <2>1
    <3> QED
      BY <2>2, <3>1, Zenon
  <2>6. z \in T
    BY <2>1, <2>4, <2>5, Zenon
  <2> QED
    BY <2>6 DEF z
<1>2. ASSUME NEW s \in Seq(E), NEW e \in E, s \in T PROVE Append(s, e) \in T
  <2> DEFINE v == Within(s, S)
             w == Within(Append(s, e), S)
             q == Append(s, e)
  <2>1. /\ q \in Seq(E) /\ Len(q) = Len(s) + 1 /\ Len(s) \in Nat
        /\ \A i \in 1..Len(s) : q[i] = s[i]
        /\ q[Len(s) + 1] = e
    BY AppendProperties
  <2>2. w = IF e \in S THEN Append(v, e) ELSE v
    BY WithinAppend
  <2>3. v \in Seq(E) /\ Len(v) <= Len(s) /\ Len(v) \in Nat
    BY <1>2
  <2>4. PICK h : IsPick(h, v, s, S)
    BY <1>2
  <2> HIDE DEF v, w, q
  <2>5. CASE e \notin S
    <3>1. w = v
      BY <2>2, <2>5
    <3>2. IsPick(h, v, q, S)
      <4>1. h \in [1..Len(v) -> 1..Len(q)]
        BY <2>1, <2>3, <2>4 DEF IsPick
      <4>2. \A i \in 1..Len(v) : v[i] = q[h[i]]
        BY <2>1, <2>4 DEF IsPick
      <4>3. ASSUME NEW j \in 1..Len(q), q[j] \in S
            PROVE  \E i \in 1..Len(v) : h[i] = j
        <5>1. j # Len(s) + 1
          BY <2>1, <2>5, <4>3
        <5>2. j \in 1..Len(s)
          BY <2>1, <5>1
        <5> QED
          BY <2>1, <2>4, <4>3, <5>2 DEF IsPick
      <4> QED
        BY <2>4, <4>1, <4>2, <4>3 DEF IsPick
    <3>3. Len(v) <= Len(q)
      BY <2>1, <2>3
    <3> QED
      BY <2>1, <2>3, <3>1, <3>2, <3>3 DEF v, w, q
  <2>6. CASE e \in S
    <3>1. w = Append(v, e)
      BY <2>2, <2>6
    <3>2. /\ w \in Seq(E) /\ Len(w) = Len(v) + 1
          /\ \A i \in 1..Len(v) : w[i] = v[i]
          /\ w[Len(v) + 1] = e
      BY <2>3, <3>1, AppendProperties
    <3> DEFINE g == [i \in 1..Len(w) |-> IF i <= Len(v) THEN h[i] ELSE Len(s) + 1]
    <3>3. IsPick(g, w, q, S)
      <4>0. h \in [1..Len(v) -> 1..Len(s)]
        BY <2>4 DEF IsPick
      <4>1. g \in [1..Len(w) -> 1..Len(q)]
        <5>1. ASSUME NEW i \in 1..Len(w) PROVE g[i] \in 1..Len(q)
          <6>1. CASE i <= Len(v)
            <7>1. i \in 1..Len(v)
              BY <2>3, <3>2, <6>1
            <7>2. h[i] \in 1..Len(s)
              BY <4>0, <7>1
            <7> QED
              BY <2>1, <6>1, <7>2
          <6>2. CASE ~(i <= Len(v))
            BY <2>1, <6>2
          <6> QED
            BY <6>1, <6>2
        <5> QED
          BY <5>1
      <4>2. ASSUME NEW i \in 1..Len(w), NEW j \in 1..Len(w), i < j PROVE g[i] < g[j]
        <5>0. i \in 1..Len(v)
          BY <2>3, <3>2, <4>2
        <5>1. i \in 1..Len(v) /\ h[i] \in 1..Len(s)
          BY <4>0, <5>0
        <5>2. CASE j <= Len(v)
          <6>1. j \in 1..Len(v)
            BY <5>2, <2>3, <3>2
          <6>2. h[i] < h[j]
            BY <2>4, <4>2, <5>1, <6>1 DEF IsPick
          <6> QED
            BY <5>1, <5>2, <6>2, <2>3
        <5>3. CASE ~(j <= Len(v))
          BY <5>1, <5>3, <2>1, <2>3
        <5> QED
          BY <5>2, <5>3
      <4>3. ASSUME NEW i \in 1..Len(w) PROVE w[i] = q[g[i]] /\ w[i] \in S
        <5>1. CASE i <= Len(v)
          <6>1. i \in 1..Len(v)
            BY <5>1, <2>3, <3>2
          <6>2. v[i] = s[h[i]] /\ v[i] \in S /\ h[i] \in 1..Len(s)
            BY <2>4, <4>0, <6>1 DEF IsPick
          <6> QED
            BY <2>1, <3>2, <5>1, <6>1, <6>2
        <5>2. CASE ~(i <= Len(v))
          <6>1. i = Len(v) + 1
            BY <5>2, <2>3, <3>2
          <6> QED
            BY <2>1, <2>6, <3>2, <5>2, <6>1
        <5> QED
          BY <5>1, <5>2
      <4>4. ASSUME NEW j \in 1..Len(q), q[j] \in S PROVE \E i \in 1..Len(w) : g[i] = j
        <5>1. CASE j = Len(s) + 1
          <6>1. Len(v) + 1 \in 1..Len(w) /\ ~(Len(v) + 1 <= Len(v))
            BY <2>3, <3>2
          <6>2. g[Len(v) + 1] = j
            BY <5>1, <6>1
          <6> QED
            BY <6>1, <6>2
        <5>2. CASE j # Len(s) + 1
          <6>1. j \in 1..Len(s) /\ s[j] \in S
            BY <2>1, <4>4, <5>2
          <6>2. PICK i \in 1..Len(v) : h[i] = j
            BY <2>4, <6>1 DEF IsPick
          <6>3. i \in 1..Len(w) /\ i <= Len(v)
            BY <2>3, <3>2
          <6> QED
            BY <6>2, <6>3
        <5> QED
          BY <5>1, <5>2
      <4> HIDE DEF g
      <4> QED
        BY <4>1, <4>2, <4>3, <4>4 DEF IsPick
    <3>4. Len(w) <= Len(q)
      BY <2>1, <2>3, <3>2
    <3> HIDE DEF g
    <3> QED
      BY <2>1, <3>2, <3>3, <3>4 DEF w, q
  <2> QED
    BY <2>5, <2>6
<1>3. \A s \in Seq(E) : s \in T
  <2> HIDE DEF T
  <2> QED
    BY <1>1, <1>2, AllSequences
<1> QED
  BY <1>3

\* Concatenation, by a name that the provers do not look through.
Joined(s, t) == s \o t

\* Appending to two lists, one after the other, appends to the second.
LEMMA AppendBehind ==
  ASSUME NEW E, NEW a \in Seq(E), NEW b \in Seq(E), NEW e \in E
  PROVE  Append(Joined(a, b), e) = Joined(a, Append(b, e))
  BY SMTT(30) DEF Joined

\* What is kept of two lists, one after the other.
LEMMA WithinConcat ==
  ASSUME NEW E, NEW S, NEW s \in Seq(E)
  PROVE  \A t \in Seq(E) : Within(s \o t, S) = Within(s, S) \o Within(t, S)
<1> DEFINE T == {t \in Seq(E) : Within(s \o t, S) = Within(s, S) \o Within(t, S)}
<1>0. \A r \in Seq(E) : Within(r, S) \in Seq(E)
  BY WithinPicks
<1>1. <<>> \in T
  <2>1. s \o <<>> = s /\ Within(s, S) \o <<>> = Within(s, S) /\ <<>> \in Seq(E)
    BY <1>0, ConcatEmptySeq
  <2> QED
    BY <2>1, WithinEmpty
<1>2. ASSUME NEW t \in Seq(E), NEW e \in E, t \in T PROVE Append(t, e) \in T
  <2>1. s \o Append(t, e) = Append(s \o t, e)
    <3>1. Append(Joined(s, t), e) = Joined(s, Append(t, e))
      BY AppendBehind
    <3> QED
      BY <3>1, Zenon DEF Joined
  <2>2. s \o t \in Seq(E) /\ Append(t, e) \in Seq(E)
    OBVIOUS
  <2>3. Within(s \o Append(t, e), S)
          = IF e \in S THEN Append(Within(s \o t, S), e) ELSE Within(s \o t, S)
    <3> DEFINE r == s \o t
    <3>1. r \in Seq(E)
      BY <2>2
    <3> HIDE DEF r
    <3>2. Within(Append(r, e), S) = IF e \in S THEN Append(Within(r, S), e) ELSE Within(r, S)
      BY <3>1, WithinAppend
    <3> QED
      BY <2>1, <3>2 DEF r
  <2>4. Within(Append(t, e), S) = IF e \in S THEN Append(Within(t, S), e) ELSE Within(t, S)
    BY WithinAppend
  <2>5. Within(s \o t, S) = Within(s, S) \o Within(t, S)
    BY <1>2
  <2>6. Append(Within(s, S) \o Within(t, S), e) = Within(s, S) \o Append(Within(t, S), e)
    <3> DEFINE a == Within(s, S)
               b == Within(t, S)
    <3>1. a \in Seq(E) /\ b \in Seq(E)
      BY <1>0
    <3> HIDE DEF a, b
    <3>2. Append(Joined(a, b), e) = Joined(a, Append(b, e))
      BY <3>1, AppendBehind
    <3> QED
      BY <3>2, Zenon DEF a, b, Joined
  <2> QED
    BY <2>2, <2>3, <2>4, <2>5, <2>6
<1>3. \A t \in Seq(E) : t \in T
  <2> HIDE DEF T
  <2> QED
    BY <1>1, <1>2, AllSequences
<1> QED
  BY <1>3

-----------------------------------------------------------------------------
(* LogView *)

\* The lists of events are short enough, and the rest has its type.
PageTypes ==
  /\ emitted \in 0..MaxEvents /\ busy \in {"no", "asked", "answered", "failed"}
  /\ fails \in 0..MaxFails /\ filter \subseteq Types
  /\ ring \in Seq(Events) /\ Len(ring) <= Ring
  /\ answer \in Seq(Events) /\ Len(answer) <= Fetch
  /\ events \in Seq(Events) /\ Len(events) <= Fetch

\* The list s has event n last, and no event is missing between two of it.
EndsWith(s, n) == \A i \in 1..Len(s) : s[i][1] = n - Len(s) + i

\* The last of the daemon's list is the newest event.
RingInv == EndsWith(ring, emitted)

\* A list that was read from the daemon's: no event is missing between two of it.
WasRead(s) ==
  /\ \A i \in 1..Len(s) : s[i][1] <= emitted
  /\ \A i, j \in 1..Len(s) : s[j][1] = s[i][1] + j - i

\* Two lists have the same events.
Agrees(s, t) == \A i \in 1..Len(s), j \in 1..Len(t) : s[i][1] = t[j][1] => s[i] = t[j]

\* As far as s goes back, it has all of t up to its own end, unless it is full.
Covers(s, t) ==
  s # <<>> /\ t # <<>> /\ t[1][1] <= s[Len(s)][1] => Len(s) = Fetch \/ s[1][1] <= t[1][1]

\* What the page has was read before the answer, and that before what the daemon
\* has now.
ReadInv ==
  /\ WasRead(answer) /\ WasRead(events)
  /\ Agrees(events, ring) /\ Agrees(answer, ring) /\ Agrees(events, answer)
  /\ Covers(events, ring) /\ Covers(answer, ring) /\ Covers(events, answer)

\* The text ends with the events that match, and has none that is newer.
TextInv ==
  /\ text \in Seq(Events)
  /\ \E p \in Seq(Events) : text = p \o Matching(events, filter)
  /\ events # <<>> => \A i \in 1..Len(text) : text[i][1] <= events[Len(events)][1]
  /\ events = <<>> => text = <<>>
  /\ count = Len(Matching(events, filter))

\* What the proof needs of the log page.
LogInv == PageTypes /\ RingInv /\ ReadInv /\ TextInv /\ TextInOrder

\* What the constants give.
LEMMA LogConstants ==
  Ring \in Nat /\ Fetch \in Nat /\ Ring >= 1 /\ Fetch >= 1 /\ MaxEvents \in Nat /\ MaxFails \in Nat
<1>1. {Ring, Fetch} \subseteq Nat \ {0} /\ {MaxEvents, MaxFails} \subseteq Nat
  BY LogViewAssumption
<1> QED
  BY <1>1

\* An event has a number and a type.
LEMMA EventFacts ==
  /\ \A e \in Events : /\ e[1] \in Nat /\ e[1] >= 1 /\ e[1] <= MaxEvents /\ e[2] \in Types
  /\ \A n \in 1..MaxEvents, t \in Types :
       <<n, t>> \in Events /\ <<n, t>>[1] = n
  BY LogConstants DEF Events

\* The numbers of a list's events.
LEMMA NumberFacts ==
  ASSUME NEW s \in Seq(Events), NEW i \in 1..Len(s)
  PROVE  s[i] \in Events /\ s[i][1] \in Nat /\ s[i][1] >= 1 /\ s[i][1] <= MaxEvents
<1>1. s[i] \in Events
  BY ElementOfSeq
<1> QED
  BY <1>1, EventFacts

\* deque(maxlen), and the end of a list.
LEMMA NewestFacts ==
  ASSUME NEW E, NEW s \in Seq(E), NEW n \in Nat
  PROVE  /\ Newest(s, n) \in Seq(E)
         /\ Len(Newest(s, n)) = IF Len(s) <= n THEN Len(s) ELSE n
         /\ \A i \in 1..Len(Newest(s, n)) :
              Newest(s, n)[i] = s[Len(s) - Len(Newest(s, n)) + i]
<1>0. Len(s) \in Nat
  OBVIOUS
<1>1. CASE Len(s) <= n
  <2>1. Newest(s, n) = s
    BY <1>1 DEF Newest
  <2>2. \A i \in 1..Len(s) : Len(s) - Len(s) + i = i
    BY <1>0
  <2> QED
    BY <1>0, <1>1, <2>1, <2>2
<1>2. CASE ~(Len(s) <= n)
  <2> DEFINE a == Len(s) - n + 1
             w == SubSeq(s, a, Len(s))
  <2>1. Newest(s, n) = w
    BY <1>2 DEF Newest
  <2>2. a \in Int /\ Len(s) \in Int /\ Len(s) - a + 1 = n /\ a >= 1
    BY <1>0, <1>2
  <2>3. \A i \in a..Len(s) : s[i] \in E
    BY <1>0, <2>2, ElementOfSeq
  <2> HIDE DEF a
  <2>4. /\ w \in Seq(E) /\ Len(w) = IF a <= Len(s) THEN Len(s) - a + 1 ELSE 0
        /\ \A i \in 1..(Len(s) - a + 1) : w[i] = s[a + i - 1]
    BY <2>2, <2>3, SubSeqProperties
  <2>5. Len(w) = n
    BY <2>2, <2>4, <1>0
  <2>6. ASSUME NEW i \in 1..n PROVE w[i] = s[Len(s) - n + i]
    <3>1. a + i - 1 = Len(s) - n + i
      BY <1>0 DEF a
    <3>2. i \in 1..(Len(s) - a + 1)
      BY <2>2
    <3> QED
      BY <2>4, <3>1, <3>2
  <2> HIDE DEF w
  <2> QED
    BY <1>2, <2>1, <2>4, <2>5, <2>6
<1> QED
  BY <1>1, <1>2

\* What a new event leaves true of the daemon's list, and of what was read from it.
LEMMA EmitFacts ==
  ASSUME NEW r \in Seq(Events), NEW m \in Nat, NEW e \in Events, e[1] = m + 1,
         EndsWith(r, m), NEW q, q = Newest(Append(r, e), Ring)
  PROVE  /\ q \in Seq(Events) /\ Len(q) <= Ring
         /\ EndsWith(q, m + 1)
         /\ \A s \in Seq(Events) :
              (\A i \in 1..Len(s) : s[i][1] <= m) =>
                /\ Agrees(s, r) => Agrees(s, q)
                /\ Covers(s, r) => Covers(s, q)
<1>0. \A i \in 1..Len(r) : r[i][1] = m - Len(r) + i
  BY DEF EndsWith
<1> DEFINE a == Append(r, e)
<1>1. /\ a \in Seq(Events) /\ Len(a) = Len(r) + 1 /\ Len(r) \in Nat
      /\ \A i \in 1..Len(r) : a[i] = r[i]
      /\ a[Len(r) + 1] = e
  BY AppendProperties
<1>2. \A i \in 1..Len(a) : a[i][1] = (m + 1) - Len(a) + i
  <2> SUFFICES ASSUME NEW i \in 1..Len(a) PROVE a[i][1] = (m + 1) - Len(a) + i
    OBVIOUS
  <2>1. CASE i \in 1..Len(r)
    <3>1. a[i][1] = m - Len(r) + i
      BY <1>0, <1>1, <2>1
    <3> QED
      BY <1>1, <3>1
  <2>2. CASE i = Len(r) + 1
    BY <1>1, <2>2
  <2> HIDE DEF a
  <2> QED
    BY <1>1, <2>1, <2>2
<1>3. q = Newest(a, Ring)
  OBVIOUS
<1> HIDE DEF a
<1>4. /\ q \in Seq(Events) /\ Len(q) = IF Len(a) <= Ring THEN Len(a) ELSE Ring
      /\ \A i \in 1..Len(q) : q[i] = a[Len(a) - Len(q) + i]
  <2>1. a \in Seq(Events) /\ Ring \in Nat
    BY <1>1, LogConstants
  <2>2. /\ Newest(a, Ring) \in Seq(Events)
        /\ Len(Newest(a, Ring)) = IF Len(a) <= Ring THEN Len(a) ELSE Ring
        /\ \A i \in 1..Len(Newest(a, Ring)) :
             Newest(a, Ring)[i] = a[Len(a) - Len(Newest(a, Ring)) + i]
    BY <2>1, NewestFacts
  <2> QED
    BY <1>3, <2>2
<1>5. Len(q) <= Ring /\ Len(q) <= Len(a) /\ Len(q) \in Nat /\ Len(q) >= 1
  BY <1>1, <1>4, LogConstants
<1>6. ASSUME NEW i \in 1..Len(q) PROVE q[i][1] = (m + 1) - Len(q) + i
  <2>1. Len(a) - Len(q) + i \in 1..Len(a)
    BY <1>1, <1>5
  <2>2. q[i][1] = (m + 1) - Len(a) + (Len(a) - Len(q) + i)
    BY <1>2, <1>4, <2>1
  <2> QED
    BY <1>1, <1>5, <2>2
<1>7. ASSUME NEW s \in Seq(Events), \A i \in 1..Len(s) : s[i][1] <= m
      PROVE  (Agrees(s, r) => Agrees(s, q)) /\ (Covers(s, r) => Covers(s, q))
  <2>0. Len(s) \in Nat
    OBVIOUS
  <2>1. ASSUME Agrees(s, r), NEW i \in 1..Len(s), NEW j \in 1..Len(q), s[i][1] = q[j][1]
        PROVE  s[i] = q[j]
    <3>1. s[i][1] <= m /\ s[i][1] \in Nat
      BY <1>7, NumberFacts
    <3>2. q[j][1] = (m + 1) - Len(q) + j
      BY <1>6
    <3>3. (m + 1) - Len(q) + j <= m
      BY <2>1, <3>1, <3>2
    <3> DEFINE k == Len(a) - Len(q) + j
    <3>4. k \in 1..Len(r)
      BY <1>1, <1>5, <3>3
    <3>5. q[j] = r[k]
      BY <1>1, <1>4, <3>4
    <3> HIDE DEF k
    <3> QED
      BY <2>1, <3>4, <3>5 DEF Agrees
  <2>2. ASSUME Covers(s, r), s # <<>>, q # <<>>, q[1][1] <= s[Len(s)][1]
        PROVE  Len(s) = Fetch \/ s[1][1] <= q[1][1]
    <3>1. Len(s) \in 1..Len(s) /\ 1 \in 1..Len(s)
      BY <2>0, <2>2, EmptySeq
    <3>2. s[Len(s)][1] <= m /\ s[Len(s)][1] \in Nat /\ s[1][1] \in Nat
      BY <1>7, <3>1, NumberFacts
    <3>3. q[1][1] = (m + 1) - Len(q) + 1
      BY <1>5, <1>6
    <3>4. Len(q) >= 2
      BY <1>5, <2>2, <3>2, <3>3
    <3>5. Len(r) >= 1 /\ Len(q) <= Len(r) + 1
      BY <1>1, <1>5, <3>4
    <3>6. r[1][1] = m - Len(r) + 1
      BY <1>0, <1>1, <3>5
    <3>7. r[1][1] <= q[1][1]
      BY <1>1, <1>5, <3>3, <3>5, <3>6
    <3>8. r[1][1] <= s[Len(s)][1]
      BY <1>1, <1>5, <2>2, <3>2, <3>3, <3>6, <3>7
    <3>9. r # <<>>
      BY <3>5
    <3>10. Len(s) = Fetch \/ s[1][1] <= r[1][1]
      BY <2>2, <3>8, <3>9 DEF Covers
    <3> QED
      BY <1>1, <1>5, <3>2, <3>3, <3>6, <3>7, <3>10
  <2> QED
    BY <2>1, <2>2 DEF Agrees, Covers
<1> QED
  BY <1>4, <1>5, <1>6, <1>7 DEF EndsWith

\* The places of an event in two lists that end with the same one.
LEMMA SamePlace ==
  ASSUME NEW a \in Int, NEW b \in Int, NEW x \in Int, NEW y \in Int, NEW z \in Int,
         x - a + y = x - b + z
  PROVE  z = b - a + y
  OBVIOUS

\* Numbers that agree at one place of two lists agree at the others.
LEMMA SameDistance ==
  ASSUME NEW a \in Int, NEW b \in Int, NEW c \in Int, NEW d \in Int, NEW e \in Int,
         a + c - 1 = b + d - 1
  PROVE  a + (e - (d - c)) - 1 = b + e - 1
  OBVIOUS

\* What recent answers is as good as the daemon's list.
LEMMA RecentFacts ==
  ASSUME NEW r \in Seq(Events), NEW m \in Nat, EndsWith(r, m),
         NEW q, q = Newest(r, Fetch)
  PROVE  /\ q \in Seq(Events) /\ Len(q) <= Fetch
         /\ \A i \in 1..Len(q) : q[i][1] <= m
         /\ \A i, j \in 1..Len(q) : q[j][1] = q[i][1] + j - i
         /\ Agrees(q, r) /\ Covers(q, r)
         /\ \A s \in Seq(Events) :
              /\ Agrees(s, r) => Agrees(s, q)
              /\ Covers(s, r) => Covers(s, q)
<1>0. \A i \in 1..Len(r) : r[i][1] = m - Len(r) + i
  BY DEF EndsWith
<1>1. /\ q \in Seq(Events) /\ Len(q) = IF Len(r) <= Fetch THEN Len(r) ELSE Fetch
      /\ \A i \in 1..Len(q) : q[i] = r[Len(r) - Len(q) + i]
  BY LogConstants, NewestFacts
<1>2. Len(q) \in Nat /\ Len(r) \in Nat /\ Len(q) <= Fetch /\ Len(q) <= Len(r)
  BY <1>1, LogConstants
<1>3. \A i \in 1..Len(q) : Len(r) - Len(q) + i \in 1..Len(r)
  BY <1>2
<1>4. ASSUME NEW i \in 1..Len(q) PROVE q[i][1] = m - Len(q) + i
  <2>1. q[i][1] = m - Len(r) + (Len(r) - Len(q) + i)
    BY <1>0, <1>1, <1>3
  <2> QED
    BY <1>2, <2>1
<1>5. \A i, j \in 1..Len(q) : q[i][1] <= m /\ q[j][1] = q[i][1] + j - i
  BY <1>2, <1>4
<1>6. Agrees(q, r)
  <2> SUFFICES ASSUME NEW i \in 1..Len(q), NEW j \in 1..Len(r), q[i][1] = r[j][1]
               PROVE  q[i] = r[j]
    BY DEF Agrees
  <2>1. m - Len(q) + i = m - Len(r) + j
    <3>1. q[i][1] = m - Len(q) + i
      BY <1>4
    <3>2. r[j][1] = m - Len(r) + j
      BY <1>0
    <3> QED
      BY <3>1, <3>2
  <2>2. j = Len(r) - Len(q) + i
    <3>2. i \in Int /\ j \in Int /\ m \in Int /\ Len(q) \in Int /\ Len(r) \in Int
      BY <1>2
    <3> QED
      BY <2>1, <3>2, SamePlace
  <2>3. q[i] = r[Len(r) - Len(q) + i]
    BY <1>1
  <2> QED
    BY <2>2, <2>3
<1>7. Covers(q, r)
  <2> SUFFICES ASSUME q # <<>>, r # <<>> PROVE Len(q) = Fetch \/ q[1][1] <= r[1][1]
    BY DEF Covers
  <2>1. CASE Len(r) <= Fetch
    <3>1. Len(q) = Len(r) /\ 1 \in 1..Len(q)
      BY <1>1, <1>2, <2>1, EmptySeq
    <3>2. q[1][1] = m - Len(q) + 1 /\ r[1][1] = m - Len(r) + 1
      BY <1>0, <1>4, <3>1
    <3> QED
      BY <1>2, <3>1, <3>2
  <2>2. CASE ~(Len(r) <= Fetch)
    BY <1>1, <2>2
  <2> QED
    BY <2>1, <2>2
<1>8. ASSUME NEW s \in Seq(Events)
      PROVE  (Agrees(s, r) => Agrees(s, q)) /\ (Covers(s, r) => Covers(s, q))
  <2>1. ASSUME Agrees(s, r), NEW i \in 1..Len(s), NEW j \in 1..Len(q), s[i][1] = q[j][1]
        PROVE  s[i] = q[j]
    <3> DEFINE k == Len(r) - Len(q) + j
    <3>1. k \in 1..Len(r) /\ q[j] = r[k]
      BY <1>1, <1>3
    <3> HIDE DEF k
    <3> QED
      BY <2>1, <3>1 DEF Agrees
  <2>2. ASSUME Covers(s, r), s # <<>>, q # <<>>, q[1][1] <= s[Len(s)][1]
        PROVE  Len(s) = Fetch \/ s[1][1] <= q[1][1]
    <3>1. 1 \in 1..Len(q) /\ 1 \in 1..Len(r) /\ r # <<>>
      BY <1>1, <1>2, <2>2, EmptySeq
    <3>2. q[1][1] = m - Len(q) + 1 /\ r[1][1] = m - Len(r) + 1
      BY <1>0, <1>4, <3>1
    <3>3. Len(s) \in 1..Len(s) /\ 1 \in 1..Len(s)
      BY <2>2, EmptySeq
    <3>4. s[Len(s)][1] \in Nat /\ s[1][1] \in Nat
      BY <3>3, NumberFacts
    <3>5. r[1][1] <= q[1][1] /\ r[1][1] <= s[Len(s)][1]
      BY <1>2, <2>2, <3>2, <3>4
    <3>6. Len(s) = Fetch \/ s[1][1] <= r[1][1]
      BY <2>2, <3>1, <3>5 DEF Covers
    <3> QED
      BY <1>2, <3>2, <3>4, <3>5, <3>6
  <2> QED
    BY <2>1, <2>2 DEF Agrees, Covers
<1> QED
  BY <1>1, <1>2, <1>5, <1>6, <1>7, <1>8

\* The numbers of a list's events go up.
Increasing(s) == \A i, j \in 1..Len(s) : i < j => s[i][1] < s[j][1]

\* What matches the filters.
LEMMA MatchingFacts ==
  ASSUME NEW s \in Seq(Events), NEW f
  PROVE  /\ Matching(s, f) \in Seq(Events) /\ Len(Matching(s, f)) <= Len(s)
         /\ \A i \in 1..Len(Matching(s, f)) :
              Matching(s, f)[i][2] \in f /\ \E j \in 1..Len(s) : Matching(s, f)[i] = s[j]
         /\ Increasing(s) => Increasing(Matching(s, f))
<1> DEFINE S == {e \in Events : e[2] \in f}
           w == Within(s, S)
<1>0. Matching(s, f) = w
  BY DEF Matching
<1>1. \A e \in S : e[2] \in f
  OBVIOUS
<1> HIDE DEF S
<1>2. w \in Seq(Events) /\ Len(w) <= Len(s) /\ \E h : IsPick(h, w, s, S)
  BY WithinPicks
<1> HIDE DEF w
<1>3. PICK h : IsPick(h, w, s, S)
  BY <1>2
<1>4. ASSUME NEW i \in 1..Len(w)
      PROVE  w[i][2] \in f /\ w[i] = s[h[i]] /\ h[i] \in 1..Len(s)
  BY <1>1, <1>3 DEF IsPick
<1>5. ASSUME Increasing(s), NEW i \in 1..Len(w), NEW j \in 1..Len(w), i < j
      PROVE  w[i][1] < w[j][1]
  <2>1. h[i] < h[j] /\ h[i] \in 1..Len(s) /\ h[j] \in 1..Len(s)
    BY <1>3, <1>4, <1>5 DEF IsPick
  <2>2. s[h[i]][1] < s[h[j]][1]
    BY <1>5, <2>1 DEF Increasing
  <2> QED
    BY <1>4, <2>2
<1> QED
  BY <1>0, <1>2, <1>4, <1>5 DEF Increasing

\* What matches of two lists, one after the other.
LEMMA MatchingConcat ==
  ASSUME NEW s \in Seq(Events), NEW t \in Seq(Events), NEW f
  PROVE  Matching(s \o t, f) = Matching(s, f) \o Matching(t, f)
  BY WithinConcat DEF Matching

\* Nothing matches of nothing.
LEMMA MatchingNone == ASSUME NEW f PROVE Matching(<<>>, f) = <<>>
  BY WithinEmpty DEF Matching

\* A list in order, and one that is all later, make a list in order.
LEMMA OrderedConcat ==
  ASSUME NEW s \in Seq(Events), NEW t \in Seq(Events), Increasing(s), Increasing(t),
         \A i \in 1..Len(s), j \in 1..Len(t) : s[i][1] < t[j][1]
  PROVE  Increasing(s \o t)
<1> DEFINE w == s \o t
<1>1. /\ w \in Seq(Events) /\ Len(w) = Len(s) + Len(t) /\ Len(s) \in Nat /\ Len(t) \in Nat
      /\ \A i \in 1..(Len(s) + Len(t)) : w[i] = IF i <= Len(s) THEN s[i] ELSE t[i - Len(s)]
  BY ConcatProperties
<1> HIDE DEF w
<1>2. ASSUME NEW i \in 1..Len(w), NEW j \in 1..Len(w), i < j PROVE w[i][1] < w[j][1]
  <2>1. CASE j <= Len(s)
    <3>1. i \in 1..Len(s) /\ j \in 1..Len(s) /\ w[i] = s[i] /\ w[j] = s[j]
      BY <1>1, <1>2, <2>1
    <3> QED
      BY <1>2, <3>1 DEF Increasing
  <2>2. CASE i <= Len(s) /\ ~(j <= Len(s))
    <3>1. i \in 1..Len(s) /\ j - Len(s) \in 1..Len(t) /\ w[i] = s[i] /\ w[j] = t[j - Len(s)]
      BY <1>1, <1>2, <2>2
    <3> QED
      BY <3>1
  <2>3. CASE ~(i <= Len(s))
    <3>1. /\ i - Len(s) \in 1..Len(t) /\ j - Len(s) \in 1..Len(t) /\ i - Len(s) < j - Len(s)
          /\ ~(j <= Len(s))
      BY <1>1, <1>2, <2>3
    <3>2. w[i] = t[i - Len(s)] /\ w[j] = t[j - Len(s)]
      BY <1>1, <1>2, <2>3, <3>1
    <3>3. t[i - Len(s)][1] < t[j - Len(s)][1]
      BY <3>1 DEF Increasing
    <3> QED
      BY <3>2, <3>3
  <2> QED
    BY <1>1, <1>2, <2>1, <2>2, <2>3
<1> QED
  BY <1>2 DEF w, Increasing

\* The numbers of events in order leave no room for more than MaxEvents.
LEMMA OrderedIsShort ==
  ASSUME NEW s \in Seq(Events), Increasing(s)
  PROVE  Len(s) <= MaxEvents
<1>0. Len(s) \in Nat /\ MaxEvents \in Nat
  BY LogConstants
<1> DEFINE T == {k \in 0..Len(s) : k = 0 \/ s[k][1] >= k}
<1>1. 0 \in T
  BY <1>0
<1>2. ASSUME NEW k \in 0..(Len(s) - 1), k \in T PROVE k + 1 \in T
  <2>1. k + 1 \in 1..Len(s)
    BY <1>0
  <2>2. s[k + 1][1] \in Nat /\ s[k + 1][1] >= 1
    BY <2>1, NumberFacts
  <2>3. CASE k = 0
    BY <2>1, <2>2, <2>3
  <2>4. CASE k # 0
    <3>1. k \in 1..Len(s) /\ k < k + 1
      BY <1>0, <2>4
    <3>2. s[k][1] >= k /\ s[k][1] \in Nat
      BY <1>2, <2>4, <3>1, NumberFacts
    <3>3. s[k][1] < s[k + 1][1]
      BY <2>1, <3>1 DEF Increasing
    <3> QED
      BY <2>1, <2>2, <3>2, <3>3
  <2> QED
    BY <2>3, <2>4
<1>3. \A k \in 0..Len(s) : k \in T
  <2> HIDE DEF T
  <2> QED
    BY <1>0, <1>1, <1>2, NumbersUpTo
<1>4. CASE Len(s) = 0
  BY <1>0, <1>4
<1>5. CASE Len(s) # 0
  <2>1. Len(s) \in T /\ Len(s) \in 1..Len(s)
    BY <1>0, <1>3, <1>5
  <2>2. s[Len(s)][1] >= Len(s) /\ s[Len(s)][1] <= MaxEvents /\ s[Len(s)][1] \in Nat
    BY <1>5, <2>1, NumberFacts
  <2> QED
    BY <1>0, <2>2
<1> QED
  BY <1>4, <1>5

\* The end of a list is a suffix of it.
LEMMA SuffixOfConcat ==
  ASSUME NEW E, NEW p \in Seq(E), NEW s \in Seq(E)
  PROVE  IsSuffix(s, p \o s)
<1> DEFINE w == p \o s
           a == Reverse(s)
           b == Reverse(w)
<1>1. /\ w \in Seq(E) /\ Len(w) = Len(p) + Len(s) /\ Len(p) \in Nat /\ Len(s) \in Nat
      /\ \A i \in 1..(Len(p) + Len(s)) : w[i] = IF i <= Len(p) THEN p[i] ELSE s[i - Len(p)]
  BY ConcatProperties
<1> HIDE DEF w
<1>2. a \in Seq(E) /\ Len(a) = Len(s) /\ \A i \in 1..Len(s) : a[i] = s[Len(s) - i + 1]
  <2>1. \A i \in 1..Len(s) : Len(s) - i + 1 \in 1..Len(s)
    BY <1>1
  <2>2. a = [i \in 1..Len(s) |-> s[Len(s) - i + 1]]
    BY DEF Reverse
  <2>3. \A i \in 1..Len(s) : s[Len(s) - i + 1] \in E
    BY <2>1, ElementOfSeq
  <2> QED
    BY <1>1, <2>2, <2>3
<1>3. b \in Seq(E) /\ Len(b) = Len(w) /\ \A i \in 1..Len(w) : b[i] = w[Len(w) - i + 1]
  <2>1. \A i \in 1..Len(w) : Len(w) - i + 1 \in 1..Len(w)
    BY <1>1
  <2>2. b = [i \in 1..Len(w) |-> w[Len(w) - i + 1]]
    BY DEF Reverse
  <2>3. \A i \in 1..Len(w) : w[Len(w) - i + 1] \in E
    BY <1>1, <2>1, ElementOfSeq
  <2> QED
    BY <1>1, <2>2, <2>3
<1> HIDE DEF a, b
<1>4. ASSUME NEW i \in 1..Len(s) PROVE a[i] = b[i]
  <2>1. i \in 1..Len(w) /\ Len(w) - i + 1 \in 1..(Len(p) + Len(s)) /\ ~(Len(w) - i + 1 <= Len(p))
        /\ (Len(w) - i + 1) - Len(p) = Len(s) - i + 1
    BY <1>1
  <2>2. b[i] = s[Len(s) - i + 1]
    BY <1>1, <1>3, <2>1
  <2> QED
    BY <1>2, <2>2
<1>5. SubSeq(a, 1, Len(a)) = SubSeq(b, 1, Len(a))
  <2>1. SubSeq(a, 1, Len(a)) \in Seq(E) /\ Len(SubSeq(a, 1, Len(a))) = Len(s)
        /\ \A i \in 1..Len(s) : SubSeq(a, 1, Len(a))[i] = a[i]
    <3>1. SubSeq(a, 1, Len(a)) = a
      BY <1>2, SubSeqFull
    <3> QED
      BY <1>2, <3>1
  <2>2. SubSeq(b, 1, Len(a)) \in Seq(E) /\ Len(SubSeq(b, 1, Len(a))) = Len(s)
        /\ \A i \in 1..Len(s) : SubSeq(b, 1, Len(a))[i] = b[i]
    <3>1. \A i \in 1..Len(a) : b[i] \in E
      BY <1>1, <1>2, <1>3, ElementOfSeq
    <3>2. 1 \in Int /\ Len(a) \in Int /\ Len(a) - 1 + 1 = Len(s)
      BY <1>1, <1>2
    <3>3. /\ SubSeq(b, 1, Len(a)) \in Seq(E)
          /\ Len(SubSeq(b, 1, Len(a))) = IF 1 <= Len(a) THEN Len(a) - 1 + 1 ELSE 0
          /\ \A i \in 1..(Len(a) - 1 + 1) : SubSeq(b, 1, Len(a))[i] = b[1 + i - 1]
      BY <3>1, <3>2, SubSeqProperties
    <3>4. \A i \in 1..Len(s) : 1 + i - 1 = i
      OBVIOUS
    <3> QED
      BY <1>1, <1>2, <3>2, <3>3, <3>4
  <2> DEFINE c == SubSeq(a, 1, Len(a))
             d == SubSeq(b, 1, Len(a))
  <2>3. Len(c) = Len(d) /\ \A i \in 1..Len(c) : c[i] = d[i]
    BY <1>4, <2>1, <2>2
  <2> QED
    BY <2>1, <2>2, <2>3, SeqEqual
<1>6. Len(a) <= Len(b)
  BY <1>1, <1>2, <1>3
<1> QED
  BY <1>5, <1>6 DEF IsSuffix, IsPrefix, a, b, w

\* list.index
LEMMA FirstPlace ==
  ASSUME NEW s, NEW e, Len(s) \in Nat, Contains(s, e)
  PROVE  /\ SelectInSeq(s, LAMBDA x : x = e) \in 1..Len(s)
         /\ s[SelectInSeq(s, LAMBDA x : x = e)] = e
<1> DEFINE I == {i \in 1..Len(s) : s[i] = e}
<1>1. SelectInSeq(s, LAMBDA x : x = e) = IF I # {} THEN Min(I) ELSE 0
  BY DEF SelectInSeq
<1>2. I # {} /\ \A k \in I : k \in Nat
  BY DEF Contains
<1>3. \A k \in I : k \in 1..Len(s) /\ s[k] = e
  OBVIOUS
<1> HIDE DEF I
<1>4. \E m \in I : \A k \in I : m <= k
  BY <1>2, LeastNumber
<1>5. Min(I) \in I
  BY <1>4 DEF Min
<1> QED
  BY <1>1, <1>2, <1>3, <1>5

\* The beginning of a list, and the rest.
LEMMA Beginning ==
  ASSUME NEW E, NEW s \in Seq(E), NEW n \in 0..Len(s)
  PROVE  /\ SubSeq(s, 1, n) \in Seq(E) /\ Len(SubSeq(s, 1, n)) = n
         /\ \A i \in 1..n : SubSeq(s, 1, n)[i] = s[i]
<1>1. Len(s) \in Nat /\ n \in Nat
  OBVIOUS
<1>2. \A i \in 1..n : s[i] \in E
  BY <1>1, ElementOfSeq
<1> DEFINE w == SubSeq(s, 1, n)
<1>3. /\ w \in Seq(E) /\ Len(w) = IF 1 <= n THEN n - 1 + 1 ELSE 0
      /\ \A i \in 1..(n - 1 + 1) : w[i] = s[1 + i - 1]
  BY <1>1, <1>2, SubSeqProperties
<1> HIDE DEF w
<1>4. n - 1 + 1 = n /\ \A i \in 1..n : 1 + i - 1 = i
  BY <1>1
<1>5. Len(w) = n
  BY <1>1, <1>3
<1> QED
  BY <1>3, <1>4, <1>5 DEF w

\* The elements of a list after the n-th.
LEMMA Rest ==
  ASSUME NEW E, NEW s \in Seq(E), NEW n \in 0..Len(s)
  PROVE  /\ SubSeq(s, n + 1, Len(s)) \in Seq(E) /\ Len(SubSeq(s, n + 1, Len(s))) = Len(s) - n
         /\ \A i \in 1..(Len(s) - n) : /\ SubSeq(s, n + 1, Len(s))[i] = s[n + i]
                                      /\ n + i \in 1..Len(s)
<1>1. Len(s) \in Nat /\ n \in Nat /\ n <= Len(s) /\ n + 1 \in Int /\ Len(s) \in Int
  OBVIOUS
<1>2. \A i \in (n + 1)..Len(s) : s[i] \in E
  BY <1>1, ElementOfSeq
<1> DEFINE w == SubSeq(s, n + 1, Len(s))
<1>3. /\ w \in Seq(E) /\ Len(w) = IF n + 1 <= Len(s) THEN Len(s) - (n + 1) + 1 ELSE 0
      /\ \A i \in 1..(Len(s) - (n + 1) + 1) : w[i] = s[(n + 1) + i - 1]
  BY <1>1, <1>2, SubSeqProperties
<1> HIDE DEF w
<1>4. Len(s) - (n + 1) + 1 = Len(s) - n
  BY <1>1
<1>5. \A i \in 1..(Len(s) - n) : (n + 1) + i - 1 = n + i /\ n + i \in 1..Len(s)
  BY <1>1
<1>6. Len(w) = Len(s) - n
  BY <1>1, <1>3
<1> QED
  BY <1>3, <1>4, <1>5, <1>6 DEF w

\* The answer begins with events that end the list which the page has: the page
\* has read at least as far back.
LEMMA AnswerGoesOn ==
  ASSUME PageTypes, ReadInv, events # <<>>, NEW p \in 1..Len(answer),
         answer[p] = events[Len(events)]
  PROVE  \E q \in Seq(Events) : events = q \o SubSeq(answer, 1, p)
<1> DEFINE n == Len(events)
<1>1. /\ events \in Seq(Events) /\ answer \in Seq(Events) /\ n \in Nat /\ n >= 1
      /\ Len(answer) \in Nat /\ Len(answer) <= Fetch /\ n <= Fetch /\ 1 \in 1..n /\ n \in 1..n
      /\ answer # <<>> /\ 1 \in 1..Len(answer) /\ Fetch \in Nat
  <2>1. events \in Seq(Events) /\ answer \in Seq(Events) /\ Len(answer) <= Fetch /\ n <= Fetch
    BY DEF PageTypes
  <2>2. n \in Nat /\ Len(answer) \in Nat
    BY <2>1
  <2>3. n # 0
    BY <2>1, EmptySeq
  <2>4. Len(answer) # 0
    BY <2>2
  <2> QED
    BY <2>1, <2>2, <2>3, <2>4, LogConstants
<1>2. /\ answer[1][1] \in Nat /\ events[1][1] \in Nat /\ events[n][1] \in Nat
      /\ answer[p][1] = answer[1][1] + p - 1 /\ events[n][1] = events[1][1] + n - 1
  <2>1. answer[1][1] \in Nat /\ events[1][1] \in Nat /\ events[n][1] \in Nat
    BY <1>1, NumberFacts
  <2>2. answer[p][1] = answer[1][1] + p - 1
    BY <1>1 DEF ReadInv, WasRead
  <2>3. events[n][1] = events[1][1] + n - 1
    BY <1>1 DEF ReadInv, WasRead
  <2> QED
    BY <2>1, <2>2, <2>3
<1>3. p <= n
  <2>1. answer[1][1] <= events[n][1]
    BY <1>2
  <2>2. n = Fetch \/ events[1][1] <= answer[1][1]
    BY <1>1, <2>1 DEF ReadInv, Covers
  <2> QED
    BY <1>1, <1>2, <2>2
<1> DEFINE x == SubSeq(answer, 1, p)
           q == SubSeq(events, 1, n - p)
<1>4. x \in Seq(Events) /\ Len(x) = p /\ \A i \in 1..p : x[i] = answer[i]
  <2>1. p \in 0..Len(answer)
    OBVIOUS
  <2> QED
    BY <1>1, <2>1, Beginning
<1>5. q \in Seq(Events) /\ Len(q) = n - p /\ \A i \in 1..(n - p) : q[i] = events[i]
  <2> DEFINE d == n - p
  <2>1. d \in 0..n
    BY <1>1, <1>3
  <2> HIDE DEF d
  <2>2. /\ SubSeq(events, 1, d) \in Seq(Events) /\ Len(SubSeq(events, 1, d)) = d
        /\ \A i \in 1..d : SubSeq(events, 1, d)[i] = events[i]
    BY <1>1, <2>1, Beginning
  <2> QED
    BY <2>2 DEF d
<1> HIDE DEF x, q
<1>6. /\ q \o x \in Seq(Events) /\ Len(q \o x) = n
      /\ \A i \in 1..n : (q \o x)[i] = IF i <= n - p THEN q[i] ELSE x[i - (n - p)]
  <2>1. /\ q \o x \in Seq(Events) /\ Len(q \o x) = Len(q) + Len(x)
        /\ \A i \in 1..(Len(q) + Len(x)) :
             (q \o x)[i] = IF i <= Len(q) THEN q[i] ELSE x[i - Len(q)]
    BY <1>4, <1>5, ConcatProperties
  <2>2. Len(q) + Len(x) = n
    BY <1>1, <1>4, <1>5
  <2> QED
    BY <1>5, <2>1, <2>2
<1>7. ASSUME NEW i \in 1..n PROVE events[i] = (q \o x)[i]
  <2>1. CASE i <= n - p
    <3>1. i \in 1..(n - p)
      BY <2>1, <1>1
    <3> QED
      BY <1>5, <1>6, <2>1, <3>1
  <2>2. CASE ~(i <= n - p)
    <3> DEFINE k == i - (n - p)
    <3>1. k \in 1..p /\ k \in 1..Len(answer) /\ (q \o x)[i] = answer[k]
      <4>1. k \in 1..p
        BY <1>1, <1>3, <2>2
      <4>2. k \in 1..Len(answer)
        BY <1>1, <4>1
      <4>3. (q \o x)[i] = x[k]
        BY <1>6, <2>2
      <4> HIDE DEF k
      <4> QED
        BY <1>4, <4>1, <4>2, <4>3
    <3>2. answer[k][1] = answer[1][1] + k - 1 /\ events[i][1] = events[1][1] + i - 1
      <4>1. \A a, b \in 1..Len(answer) : answer[b][1] = answer[a][1] + b - a
        BY DEF ReadInv, WasRead
      <4>2. \A a, b \in 1..n : events[b][1] = events[a][1] + b - a
        BY DEF ReadInv, WasRead
      <4> HIDE DEF k, n
      <4>3. answer[k][1] = answer[1][1] + k - 1
        BY <1>1, <3>1, <4>1
      <4>4. events[i][1] = events[1][1] + i - 1
        BY <1>1, <4>2
      <4> QED
        BY <4>3, <4>4
    <3>3. events[i][1] = answer[k][1]
      <4> DEFINE a == answer[1][1]
                 b == events[1][1]
      <4>1. a \in Nat /\ b \in Nat /\ a + p - 1 = b + n - 1
        <5>1. answer[p][1] = events[n][1]
          OBVIOUS
        <5> HIDE DEF n
        <5> QED
          BY <1>2, <5>1
      <4>2. p \in Int /\ n \in Int /\ i \in Int
        BY <1>1
      <4>3. answer[1][1] + k - 1 = events[1][1] + i - 1
        <5> HIDE DEF a, b, n
        <5>1. a + (i - (n - p)) - 1 = b + i - 1
          BY <4>1, <4>2, SameDistance
        <5> QED
          BY <5>1 DEF a, b, k
      <4> HIDE DEF k, n
      <4> QED
        BY <3>2, <4>3
    <3> HIDE DEF k
    <3> QED
      BY <3>1, <3>3 DEF ReadInv, Agrees
  <2> QED
    BY <2>1, <2>2
<1>8. events = q \o x
  BY <1>1, <1>6, <1>7, SeqEqual
<1> QED
  BY <1>5, <1>8 DEF x

\* What was read is in order, and its last event is the newest.
LEMMA ReadIsOrdered ==
  ASSUME NEW s \in Seq(Events), WasRead(s)
  PROVE  /\ Increasing(s)
         /\ s # <<>> => \A i \in 1..Len(s) : s[i][1] <= s[Len(s)][1]
<1>1. \A i \in 1..Len(s) : s[i][1] \in Nat
  BY NumberFacts
<1>2. Len(s) \in Nat /\ \A i, j \in 1..Len(s) : s[j][1] = s[i][1] + j - i
  BY DEF WasRead
<1>3. Increasing(s)
  BY <1>1, <1>2 DEF Increasing
<1>4. ASSUME s # <<>>, NEW i \in 1..Len(s) PROVE s[i][1] <= s[Len(s)][1]
  <2>1. Len(s) \in 1..Len(s) /\ i <= Len(s)
    BY <1>2
  <2>2. s[Len(s)][1] = s[i][1] + Len(s) - i
    BY <1>2, <2>1
  <2> QED
    BY <1>1, <1>2, <2>1, <2>2
<1> QED
  BY <1>3, <1>4

\* What got and rerender leave true of a text.
GoodText(w, s) ==
  /\ w \in Seq(Events)
  /\ \E p \in Seq(Events) : w = p \o Matching(s, filter)
  /\ s # <<>> => \A i \in 1..Len(w) : w[i][1] <= s[Len(s)][1]
  /\ s = <<>> => w = <<>>
  /\ Increasing(w)
  /\ \A i \in 1..Len(w) : w[i][2] \in filter

\* Concatenation is associative.
LEMMA JoinedThree ==
  ASSUME NEW E, NEW a \in Seq(E), NEW b \in Seq(E), NEW c \in Seq(E)
  PROVE  Joined(Joined(a, b), c) = Joined(a, Joined(b, c)) /\ Joined(a, b) \in Seq(E)
  BY SMTT(30) DEF Joined

\* So what is joined in the middle may be joined to either side.
LEMMA JoinedAssociates ==
  ASSUME NEW E, NEW a \in Seq(E), NEW b \in Seq(E), NEW c \in Seq(E), NEW d \in Seq(E)
  PROVE  /\ Joined(Joined(a, Joined(b, c)), d) = Joined(Joined(a, b), Joined(c, d))
         /\ Joined(a, b) \in Seq(E)
<1>1. Joined(a, b) \in Seq(E) /\ Joined(b, c) \in Seq(E) /\ Joined(c, d) \in Seq(E)
  BY JoinedThree
<1>2. Joined(Joined(a, Joined(b, c)), d) = Joined(a, Joined(Joined(b, c), d))
  BY <1>1, JoinedThree
<1>3. Joined(Joined(b, c), d) = Joined(b, Joined(c, d))
  BY JoinedThree
<1>4. Joined(Joined(a, b), Joined(c, d)) = Joined(a, Joined(b, Joined(c, d)))
  BY <1>1, JoinedThree
<1> QED
  BY <1>1, <1>2, <1>3, <1>4

\* What matches of two lists, one after the other.
LEMMA MatchingJoined ==
  ASSUME NEW s \in Seq(Events), NEW t \in Seq(Events), NEW f
  PROVE  Matching(Joined(s, t), f) = Joined(Matching(s, f), Matching(t, f))
<1>1. Matching(s \o t, f) = Matching(s, f) \o Matching(t, f)
  BY MatchingConcat
<1> QED
  BY <1>1, Zenon DEF Joined

\* What matches of x is at the end of the text already, and what matches of y comes next.
LEMMA TextGoesOn ==
  ASSUME NEW u \in Seq(Events), NEW q \in Seq(Events), NEW x \in Seq(Events),
         NEW y \in Seq(Events), NEW f
  PROVE  /\ Joined(Joined(u, Matching(Joined(q, x), f)), Matching(y, f))
               = Joined(Joined(u, Matching(q, f)), Matching(Joined(x, y), f))
         /\ Joined(u, Matching(q, f)) \in Seq(Events)
<1> DEFINE mq == Matching(q, f)
           mx == Matching(x, f)
           my == Matching(y, f)
<1>1. mq \in Seq(Events) /\ mx \in Seq(Events) /\ my \in Seq(Events)
  BY MatchingFacts
<1>2. Matching(Joined(q, x), f) = Joined(mq, mx)
  BY MatchingJoined
<1>3. Matching(Joined(x, y), f) = Joined(mx, my)
  BY MatchingJoined
<1> HIDE DEF mq, mx, my
<1>4. /\ Joined(Joined(u, Joined(mq, mx)), my) = Joined(Joined(u, mq), Joined(mx, my))
      /\ Joined(u, mq) \in Seq(Events)
  BY <1>1, JoinedAssociates
<1> QED
  BY <1>2, <1>3, <1>4 DEF mq, mx, my

\* A text that is written anew is good.
LEMMA WrittenAnew ==
  ASSUME NEW s \in Seq(Events), WasRead(s)
  PROVE  GoodText(Matching(s, filter), s)
<1> DEFINE w == Matching(s, filter)
<1>1. /\ w \in Seq(Events) /\ Len(w) <= Len(s)
      /\ \A i \in 1..Len(w) : w[i][2] \in filter /\ \E j \in 1..Len(s) : w[i] = s[j]
      /\ Increasing(s) => Increasing(w)
  BY MatchingFacts
<1>2. s = <<>> => w = <<>>
  BY MatchingNone
<1> HIDE DEF w
<1>3. w = <<>> \o w /\ <<>> \in Seq(Events)
  BY <1>1, ConcatEmptySeq
<1>4. Increasing(w)
  BY <1>1, ReadIsOrdered
<1>5. s # <<>> => \A i \in 1..Len(w) : w[i][1] <= s[Len(s)][1]
  BY <1>1, ReadIsOrdered
<1>6. \E p \in Seq(Events) : w = p \o w
  BY <1>3
<1> QED
  BY <1>1, <1>2, <1>4, <1>5, <1>6 DEF GoodText, w

\* So is one that goes on after the last event the page had.
LEMMA WrittenOn ==
  ASSUME PageTypes, ReadInv, TextInv, TextInOrder,
         events # <<>>, Contains(answer, Last(events))
  PROVE  GoodText(After(answer), answer)
<1> DEFINE p == SelectInSeq(answer, LAMBDA e : e = Last(events))
           x == SubSeq(answer, 1, p)
           y == SubSeq(answer, p + 1, Len(answer))
           z == Matching(y, filter)
<1>1. /\ events \in Seq(Events) /\ answer \in Seq(Events) /\ text \in Seq(Events)
      /\ Len(answer) \in Nat
  BY DEF PageTypes, TextInv
<1>2. p \in 1..Len(answer) /\ answer[p] = events[Len(events)]
  BY <1>1, FirstPlace DEF Last
<1>3. After(answer) = text \o z
  BY DEF After
<1> HIDE DEF p
<1>4. /\ x \in Seq(Events) /\ y \in Seq(Events) /\ Len(y) = Len(answer) - p
      /\ \A i \in 1..Len(y) : y[i] = answer[p + i] /\ p + i \in 1..Len(answer)
  <2>1. p \in 0..Len(answer)
    BY <1>2
  <2>2. x \in Seq(Events)
    BY <1>1, <2>1, Beginning
  <2>3. /\ y \in Seq(Events) /\ Len(y) = Len(answer) - p
        /\ \A i \in 1..(Len(answer) - p) : y[i] = answer[p + i] /\ p + i \in 1..Len(answer)
    BY <1>1, <2>1, Rest
  <2> QED
    BY <2>2, <2>3
<1>5. answer = x \o y
  <2>1. 1 \in 1..(Len(answer) + 1) /\ p \in (1 - 1)..Len(answer) /\ Len(answer) \in p..Len(answer)
    BY <1>1, <1>2
  <2>2. x \o y = SubSeq(answer, 1, Len(answer))
    BY <1>1, <2>1, ConcatAdjacentSubSeq
  <2> QED
    BY <1>1, <2>2, SubSeqFull
<1>6. PICK q \in Seq(Events) : events = q \o x
  BY <1>2, AnswerGoesOn
<1>7. PICK u \in Seq(Events) : text = u \o Matching(events, filter)
  BY DEF TextInv
<1> HIDE DEF x, y
<1>8. /\ z \in Seq(Events)
      /\ \A i \in 1..Len(z) : z[i][2] \in filter /\ \E j \in 1..Len(y) : z[i] = y[j]
      /\ Increasing(y) => Increasing(z)
  BY <1>4, MatchingFacts
<1>9. WasRead(answer) /\ Increasing(answer)
      /\ \A i \in 1..Len(answer) : answer[i][1] <= answer[Len(answer)][1]
  <2>1. WasRead(answer)
    BY DEF ReadInv
  <2>2. answer # <<>>
    BY <1>1, <1>2
  <2> QED
    BY <1>1, <2>1, <2>2, ReadIsOrdered
<1> HIDE DEF z
<1>10. PICK v \in Seq(Events) : text \o z = v \o Matching(answer, filter)
  <2>1. x \in Seq(Events) /\ y \in Seq(Events)
    BY <1>4
  <2>2. /\ Joined(Joined(u, Matching(Joined(q, x), filter)), Matching(y, filter))
              = Joined(Joined(u, Matching(q, filter)), Matching(Joined(x, y), filter))
        /\ Joined(u, Matching(q, filter)) \in Seq(Events)
    BY <2>1, TextGoesOn
  <2>3. /\ text = Joined(u, Matching(Joined(q, x), filter)) /\ Joined(x, y) = answer
        /\ z = Matching(y, filter)
    BY <1>5, <1>6, <1>7, Zenon DEF Joined, z
  <2> DEFINE g == Joined(u, Matching(q, filter))
  <2>4. Joined(text, z) = Joined(g, Matching(answer, filter)) /\ g \in Seq(Events)
    BY <2>2, <2>3
  <2> HIDE DEF g
  <2> QED
    BY <2>4 DEF Joined
<1>12. Increasing(y) /\ \A j \in 1..Len(y) : answer[p][1] < y[j][1]
  <2>1. ASSUME NEW i \in 1..Len(y), NEW j \in 1..Len(y), i < j PROVE y[i][1] < y[j][1]
    <3>1. p + i < p + j
      BY <1>2, <2>1
    <3> QED
      BY <1>4, <1>9, <3>1 DEF Increasing
  <2>2. ASSUME NEW j \in 1..Len(y) PROVE answer[p][1] < y[j][1]
    <3>1. p < p + j
      BY <1>2
    <3> QED
      BY <1>2, <1>4, <1>9, <3>1 DEF Increasing
  <2> QED
    BY <2>1, <2>2 DEF Increasing
<1>13. /\ Increasing(text) /\ \A i \in 1..Len(text) : text[i][2] \in filter
       /\ \A i \in 1..Len(text) : text[i][1] <= answer[p][1]
  BY <1>2 DEF TextInOrder, Increasing, TextInv
<1>14. \A i \in 1..Len(text) : text[i][1] \in Nat
  BY <1>1, NumberFacts
<1>15. answer[p][1] \in Nat /\ answer[Len(answer)][1] \in Nat
  <2>1. Len(answer) \in 1..Len(answer)
    BY <1>1, <1>2
  <2> QED
    BY <1>1, <1>2, <2>1, NumberFacts
<1>16. \A i \in 1..Len(z) : /\ z[i][1] \in Nat /\ answer[p][1] < z[i][1]
                            /\ z[i][1] <= answer[Len(answer)][1]
  <2> SUFFICES ASSUME NEW i \in 1..Len(z)
               PROVE  /\ z[i][1] \in Nat /\ answer[p][1] < z[i][1]
                      /\ z[i][1] <= answer[Len(answer)][1]
    OBVIOUS
  <2>1. z[i][1] \in Nat
    BY <1>8, NumberFacts
  <2>2. PICK j \in 1..Len(y) : z[i] = y[j]
    BY <1>8
  <2>3. answer[p][1] < y[j][1]
    BY <1>12
  <2>4. y[j][1] <= answer[Len(answer)][1]
    BY <1>4, <1>9
  <2> QED
    BY <2>1, <2>2, <2>3, <2>4
<1>17. \A i \in 1..Len(text), j \in 1..Len(z) : text[i][1] < z[j][1]
  <2> SUFFICES ASSUME NEW i \in 1..Len(text), NEW j \in 1..Len(z) PROVE text[i][1] < z[j][1]
    OBVIOUS
  <2>1. text[i][1] <= answer[p][1]
    BY <1>13
  <2>2. answer[p][1] < z[j][1] /\ z[j][1] \in Nat
    BY <1>16
  <2>3. text[i][1] \in Nat /\ answer[p][1] \in Nat
    BY <1>14, <1>15
  <2> QED
    BY <2>1, <2>2, <2>3
<1>18. Increasing(text \o z)
  BY <1>1, <1>8, <1>12, <1>13, <1>17, OrderedConcat
<1>19. /\ text \o z \in Seq(Events) /\ Len(text \o z) = Len(text) + Len(z)
       /\ Len(text) \in Nat /\ Len(z) \in Nat
       /\ \A i \in 1..(Len(text) + Len(z)) :
            (text \o z)[i] = IF i <= Len(text) THEN text[i] ELSE z[i - Len(text)]
  BY <1>1, <1>8, ConcatProperties
<1>20. ASSUME NEW i \in 1..Len(text \o z)
       PROVE  /\ (text \o z)[i][1] <= answer[Len(answer)][1]
              /\ (text \o z)[i][2] \in filter
  <2>1. CASE i <= Len(text)
    <3>1. i \in 1..Len(text) /\ (text \o z)[i] = text[i]
      BY <1>19, <2>1
    <3>2. text[i][1] <= answer[p][1] /\ answer[p][1] <= answer[Len(answer)][1]
      BY <1>2, <1>9, <1>13, <3>1
    <3>3. text[i][1] <= answer[Len(answer)][1]
      BY <1>14, <1>15, <3>1, <3>2
    <3> QED
      BY <1>13, <3>1, <3>3
  <2>2. CASE ~(i <= Len(text))
    <3>1. i - Len(text) \in 1..Len(z) /\ (text \o z)[i] = z[i - Len(text)]
      BY <1>19, <2>2
    <3> QED
      BY <1>8, <1>16, <3>1
  <2> QED
    BY <2>1, <2>2
<1>21. answer # <<>>
  BY <1>1, <1>2
<1> DEFINE w == text \o z
<1>22. \E g \in Seq(Events) : w = g \o Matching(answer, filter)
  BY <1>10
<1> HIDE DEF w
<1>23. GoodText(w, answer)
  BY <1>18, <1>19, <1>20, <1>21, <1>22 DEF GoodText, w
<1> QED
  BY <1>3, <1>23 DEF w


\* Every step keeps the types.
LEMMA PageTypesStep ==
  ASSUME PageTypes, RingInv, [LogViewNext]_logViewVars
  PROVE  PageTypes'
<1> USE DEF PageTypes
<1>0. emitted \in Nat /\ MaxEvents \in Nat
  BY LogConstants
<1>1. ASSUME NEW t \in Types, Emit(t) PROVE PageTypes'
  <2>1. emitted + 1 \in 1..MaxEvents /\ emitted' = emitted + 1
    BY <1>0, <1>1 DEF Emit
  <2> DEFINE e == <<emitted + 1, t>>
  <2>2. e \in Events /\ e[1] = emitted + 1
    BY <2>1, EventFacts
  <2>3. ring' = Newest(Append(ring, e), Ring)
    BY <1>1 DEF Emit
  <2> HIDE DEF e
  <2>4. ring' \in Seq(Events) /\ Len(ring') <= Ring
    BY <1>0, <2>2, <2>3, EmitFacts DEF RingInv
  <2> QED
    BY <1>0, <1>1, <2>1, <2>4 DEF Emit
<1>2. CASE Restart
  <2>1. ring' \in Seq(Events) /\ Len(ring') <= Ring
    BY <1>2, LogConstants DEF Restart
  <2> QED
    BY <1>2, <2>1 DEF Restart
<1>3. CASE Poll
  BY <1>3 DEF Poll
<1>4. CASE Recent
  <2>1. answer' = Newest(ring, Fetch)
    BY <1>4 DEF Recent
  <2>2. answer' \in Seq(Events) /\ Len(answer') <= Fetch
    BY <1>0, <2>1, RecentFacts DEF RingInv
  <2> QED
    BY <1>4, <2>2 DEF Recent
<1>5. CASE RecentFails
  BY <1>5, LogConstants DEF RecentFails
<1>6. CASE Got
  BY <1>6 DEF Got
<1>7. CASE GotError
  BY <1>7 DEF GotError
<1>8. ASSUME NEW f \in SUBSET Types, Rerender(f) PROVE PageTypes'
  BY <1>8 DEF Rerender
<1>9. CASE UNCHANGED logViewVars
  BY <1>9 DEF logViewVars
<1> QED
  BY <1>1, <1>2, <1>3, <1>4, <1>5, <1>6, <1>7, <1>8, <1>9 DEF LogViewNext

\* The daemon's list ends with the newest event, also when it forgets the oldest.
LEMMA RingStep ==
  ASSUME PageTypes, RingInv, [LogViewNext]_logViewVars
  PROVE  RingInv'
<1>0. emitted \in Nat /\ ring \in Seq(Events) /\ MaxEvents \in Nat
  BY LogConstants DEF PageTypes
<1>1. ASSUME NEW t \in Types, Emit(t) PROVE RingInv'
  <2>1. emitted + 1 \in 1..MaxEvents /\ emitted' = emitted + 1
    BY <1>0, <1>1 DEF Emit, PageTypes
  <2> DEFINE e == <<emitted + 1, t>>
  <2>2. e \in Events /\ e[1] = emitted + 1
    BY <2>1, EventFacts
  <2>3. ring' = Newest(Append(ring, e), Ring)
    BY <1>1 DEF Emit
  <2> HIDE DEF e
  <2>4. EndsWith(ring', emitted + 1)
    BY <1>0, <2>2, <2>3, EmitFacts DEF RingInv
  <2> QED
    BY <2>1, <2>4 DEF RingInv, EndsWith
<1>2. CASE Restart
  BY <1>2 DEF Restart, RingInv, EndsWith
<1>3. CASE UNCHANGED <<emitted, ring>>
  BY <1>3 DEF RingInv, EndsWith
<1> QED
  BY <1>1, <1>2, <1>3 DEF LogViewNext, Poll, Recent, RecentFails, Got, GotError, Rerender,
     logViewVars

\* Events are added, forgotten and read in order.
LEMMA ReadStep ==
  ASSUME PageTypes, RingInv, ReadInv, [LogViewNext]_logViewVars
  PROVE  ReadInv'
<1>0. /\ emitted \in Nat /\ ring \in Seq(Events) /\ answer \in Seq(Events)
      /\ events \in Seq(Events) /\ MaxEvents \in Nat
  BY LogConstants DEF PageTypes
<1>1. ASSUME NEW t \in Types, Emit(t) PROVE ReadInv'
  <2>1. emitted + 1 \in 1..MaxEvents /\ emitted' = emitted + 1 /\ UNCHANGED <<answer, events>>
    BY <1>0, <1>1 DEF Emit, PageTypes
  <2> DEFINE e == <<emitted + 1, t>>
  <2>2. e \in Events /\ e[1] = emitted + 1
    BY <2>1, EventFacts
  <2>3. ring' = Newest(Append(ring, e), Ring)
    BY <1>1 DEF Emit
  <2> HIDE DEF e
  <2>4. \A s \in Seq(Events) :
          (\A i \in 1..Len(s) : s[i][1] <= emitted) =>
            (Agrees(s, ring) => Agrees(s, ring')) /\ (Covers(s, ring) => Covers(s, ring'))
    BY <1>0, <2>2, <2>3, EmitFacts DEF RingInv
  <2>5. /\ \A i \in 1..Len(answer) : answer[i][1] <= emitted
        /\ \A i \in 1..Len(events) : events[i][1] <= emitted
    BY DEF ReadInv, WasRead
  <2>6. /\ Agrees(events, ring') /\ Agrees(answer, ring')
        /\ Covers(events, ring') /\ Covers(answer, ring')
    BY <1>0, <2>4, <2>5 DEF ReadInv
  <2>7. WasRead(answer)' /\ WasRead(events)'
    <3>1. \A i \in 1..Len(answer) : answer[i][1] <= emitted + 1
      BY <1>0, <2>5, NumberFacts
    <3>2. \A i \in 1..Len(events) : events[i][1] <= emitted + 1
      BY <1>0, <2>5, NumberFacts
    <3> QED
      BY <2>1, <3>1, <3>2 DEF ReadInv, WasRead
  <2>8. Agrees(events, answer) /\ Covers(events, answer)
    BY DEF ReadInv
  <2> QED
    BY <2>1, <2>6, <2>7, <2>8 DEF ReadInv, Agrees, Covers
<1>2. CASE Restart
  <2>1. ring' = <<>> /\ UNCHANGED <<answer, events, emitted>>
    BY <1>2 DEF Restart
  <2>2. Agrees(events, ring)' /\ Agrees(answer, ring)'
    BY <2>1 DEF Agrees
  <2>3. Covers(events, ring)' /\ Covers(answer, ring)'
    BY <2>1 DEF Covers
  <2>4. WasRead(answer)' /\ WasRead(events)'
    BY <2>1 DEF ReadInv, WasRead
  <2>5. Agrees(events, answer)' /\ Covers(events, answer)'
    BY <2>1 DEF ReadInv, Agrees, Covers
  <2> QED
    BY <2>2, <2>3, <2>4, <2>5 DEF ReadInv
<1>3. CASE Recent
  <2>1. answer' = Newest(ring, Fetch) /\ UNCHANGED <<ring, events, emitted>>
    BY <1>3 DEF Recent
  <2>2. /\ \A i \in 1..Len(answer') : answer'[i][1] <= emitted
        /\ \A i, j \in 1..Len(answer') : answer'[j][1] = answer'[i][1] + j - i
        /\ Agrees(answer', ring) /\ Covers(answer', ring)
        /\ \A s \in Seq(Events) :
             (Agrees(s, ring) => Agrees(s, answer')) /\ (Covers(s, ring) => Covers(s, answer'))
    <3>1. EndsWith(ring, emitted)
      BY DEF RingInv
    <3> QED
      BY <1>0, <2>1, <3>1, RecentFacts
  <2>3. Agrees(events, answer') /\ Covers(events, answer')
    BY <1>0, <2>2 DEF ReadInv
  <2>4. WasRead(answer)' /\ WasRead(events)'
    BY <2>1, <2>2 DEF ReadInv, WasRead
  <2>5. Agrees(events, ring) /\ Covers(events, ring)
    BY DEF ReadInv
  <2> QED
    BY <2>1, <2>2, <2>3, <2>4, <2>5 DEF ReadInv, Agrees, Covers
<1>4. CASE Got
  <2>1. events' = answer /\ UNCHANGED <<ring, answer, emitted>>
    BY <1>4 DEF Got
  <2>2. WasRead(answer) /\ Agrees(answer, ring) /\ Covers(answer, ring)
    BY DEF ReadInv
  <2>3. Agrees(answer, answer)
    <3> SUFFICES ASSUME NEW i \in 1..Len(answer), NEW j \in 1..Len(answer),
                        answer[i][1] = answer[j][1]
                 PROVE  answer[i] = answer[j]
      BY DEF Agrees
    <3>1. answer[j][1] = answer[i][1] + j - i /\ answer[i][1] \in Nat
      BY <1>0, <2>2, NumberFacts DEF WasRead
    <3>2. i = j
      BY <3>1
    <3> QED
      BY <3>2
  <2>4. Covers(answer, answer)
    <3> SUFFICES ASSUME answer # <<>> PROVE answer[1][1] <= answer[1][1]
      BY DEF Covers
    <3>1. 1 \in 1..Len(answer)
      BY <1>0, EmptySeq
    <3>2. answer[1][1] \in Nat
      BY <1>0, <3>1, NumberFacts
    <3> QED
      BY <3>2
  <2> QED
    BY <2>1, <2>2, <2>3, <2>4 DEF ReadInv, WasRead, Agrees, Covers
<1>5. CASE UNCHANGED <<emitted, ring, answer, events>>
  BY <1>5 DEF ReadInv, WasRead, Agrees, Covers
<1> QED
  BY <1>1, <1>2, <1>3, <1>4, <1>5 DEF LogViewNext, Poll, RecentFails, GotError, Rerender,
     logViewVars

\* Answers and filters leave a good text.
LEMMA LogTextStep ==
  ASSUME PageTypes, ReadInv, TextInv, TextInOrder, [LogViewNext]_logViewVars
  PROVE  TextInv' /\ TextInOrder'
<1>0. events \in Seq(Events) /\ answer \in Seq(Events) /\ WasRead(events) /\ WasRead(answer)
  BY DEF PageTypes, ReadInv
<1>1. CASE Got
  <2>1. /\ events' = answer /\ text' = After(answer) /\ filter' = filter
        /\ count' = Len(Matching(answer, filter))
    BY <1>1 DEF Got
  <2>2. GoodText(After(answer), answer)
    <3>1. CASE events # <<>> /\ Contains(answer, Last(events))
      BY <3>1, WrittenOn
    <3>2. CASE ~(events # <<>> /\ Contains(answer, Last(events)))
      <4>1. After(answer) = Matching(answer, filter)
        BY <3>2 DEF After
      <4> QED
        BY <1>0, <4>1, WrittenAnew
    <3> QED
      BY <3>1, <3>2
  <2> DEFINE w == After(answer)
  <2>3. GoodText(w, answer) /\ text' = w
    BY <2>1, <2>2
  <2> HIDE DEF w
  <2> QED
    BY <2>1, <2>3 DEF GoodText, TextInv, TextInOrder, Increasing, Matching
<1>2. ASSUME NEW f \in SUBSET Types, Rerender(f) PROVE TextInv' /\ TextInOrder'
  <2>1. /\ text' = Matching(events, f) /\ count' = Len(Matching(events, f)) /\ filter' = f
        /\ events' = events
    BY <1>2 DEF Rerender
  <2> DEFINE w == Matching(events, f)
  <2>2. /\ w \in Seq(Events)
        /\ \A i \in 1..Len(w) : w[i][2] \in f /\ \E j \in 1..Len(events) : w[i] = events[j]
        /\ Increasing(events) => Increasing(w)
    BY <1>0, MatchingFacts
  <2>3. events = <<>> => w = <<>>
    BY MatchingNone
  <2>4. Matching(events', filter') = w
    BY <2>1
  <2> HIDE DEF w
  <2>5. Increasing(w) /\ (events # <<>> => \A i \in 1..Len(w) : w[i][1] <= events[Len(events)][1])
    BY <1>0, <2>2, ReadIsOrdered
  <2>6. \E p \in Seq(Events) : w = p \o w
    <3>1. w = <<>> \o w /\ <<>> \in Seq(Events)
      BY <2>2, ConcatEmptySeq
    <3> QED
      BY <3>1
  <2>7. text' = w /\ count' = Len(w)
    BY <2>1 DEF w
  <2> QED
    BY <2>1, <2>2, <2>3, <2>4, <2>5, <2>6, <2>7 DEF TextInv, TextInOrder, Increasing
<1>3. CASE UNCHANGED <<events, filter, text, count>>
  BY <1>3 DEF TextInv, TextInOrder, Matching
<1> QED
  BY <1>1, <1>2, <1>3 DEF LogViewNext, Emit, Restart, Poll, Recent, RecentFails, GotError,
     logViewVars

\* The page begins empty.
LEMMA LogBegins == LogViewInit => LogInv
<1> SUFFICES ASSUME LogViewInit PROVE LogInv
  OBVIOUS
<1>1. PageTypes
  BY LogConstants DEF LogViewInit, PageTypes
<1>2. RingInv
  BY DEF LogViewInit, RingInv, EndsWith
<1>3. ReadInv
  <2>1. ring = <<>> /\ answer = <<>> /\ events = <<>>
    BY DEF LogViewInit
  <2>2. WasRead(answer) /\ WasRead(events)
    BY <2>1 DEF WasRead
  <2>3. Agrees(events, ring) /\ Agrees(answer, ring) /\ Agrees(events, answer)
    BY <2>1 DEF Agrees
  <2>4. Covers(events, ring) /\ Covers(answer, ring) /\ Covers(events, answer)
    BY <2>1 DEF Covers
  <2> QED
    BY <2>2, <2>3, <2>4 DEF ReadInv
<1>4. TextInv
  <2>1. events = <<>> /\ text = <<>> /\ count = 0
    BY DEF LogViewInit
  <2>2. Matching(events, filter) = <<>>
    BY <2>1, MatchingNone
  <2>3. text = <<>> \o Matching(events, filter) /\ <<>> \in Seq(Events)
    BY <2>1, <2>2
  <2> QED
    BY <2>1, <2>2, <2>3 DEF TextInv
<1>5. TextInOrder
  BY DEF LogViewInit, TextInOrder
<1> QED
  BY <1>1, <1>2, <1>3, <1>4, <1>5 DEF LogInv

\* Every step keeps the invariant.
LEMMA LogGoesOn == LogInv /\ [LogViewNext]_logViewVars => LogInv'
  BY PageTypesStep, RingStep, ReadStep, LogTextStep DEF LogInv

\* A list of at most n elements.
LEMMA ShortLists ==
  ASSUME NEW E, NEW s \in Seq(E), NEW n \in Nat, Len(s) <= n
  PROVE  s \in BoundedSeq(E, n)
<1>1. Len(s) \in 0..n /\ s \in [1..Len(s) -> E]
  BY LenProperties
<1> QED
  BY <1>1 DEF BoundedSeq, SeqOf

\* The invariant says what the page promises.
LEMMA LogInvSuffices == LogInv => LogViewSafe
<1> SUFFICES ASSUME LogInv PROVE LogViewSafe
  OBVIOUS
<1>1. PageTypes /\ TextInv /\ TextInOrder
  BY DEF LogInv
<1>2. Len(text) <= MaxEvents /\ text \in Seq(Events)
  <2>1. Increasing(text) /\ text \in Seq(Events)
    BY <1>1 DEF TextInOrder, Increasing, TextInv
  <2> QED
    BY <2>1, OrderedIsShort
<1> DEFINE w == Matching(events, filter)
<1>3. w \in Seq(Events) /\ Len(w) <= Len(events)
  BY <1>1, MatchingFacts DEF PageTypes
<1>4. count = Len(w) /\ \E p \in Seq(Events) : text = p \o w
  BY <1>1 DEF TextInv
<1> HIDE DEF w
<1>5. IsSuffix(w, text)
  BY <1>3, <1>4, SuffixOfConcat
<1>6. TextIsComplete
  BY <1>4, <1>5 DEF TextIsComplete, w
<1>7. count \in 0..Fetch
  BY <1>1, <1>3, <1>4, LogConstants DEF PageTypes
<1>8. LogViewTypeOK
  BY <1>1, <1>2, <1>7, ShortLists, LogConstants DEF LogViewTypeOK, PageTypes
<1> QED
  BY <1>1, <1>6, <1>8 DEF LogViewSafe

\* For any event types, any lengths of the daemon's list and of a poll's answer, and any
\* interleaving of events, restarts of the daemon, polls, failures and changes of the
\* filters: the text lists the events in order, each once and only such as pass the
\* filters, ends with all that match of the last answer, and the count is theirs
\* (tui/screens/log.py, got and rerender).
THEOREM LogViewIsSafe == LogViewSpec => []LogViewSafe
<1>1. LogInv /\ UNCHANGED logViewVars => LogInv'
  BY LogGoesOn
<1> QED
  BY LogBegins, LogGoesOn, LogInvSuffices, PTL DEF LogViewSpec

-----------------------------------------------------------------------------
(* Trend *)

\* A history of at least one row, and no more than the daemon keeps.
Rows == {r \in Seq(Points) : r # <<>> /\ Len(r) <= HistoryLen}

\* The daemon's history always has a row, of a time its clock can show.
SamplesInv == clock \in 1..MaxTime /\ rows \in Rows

\* A call that was answered has such a history.
AnswersInv ==
  \A c \in trendCalls : /\ DOMAIN c = {"id", "first", "got", "rows"}
                        /\ c.got = FALSE \/ c.rows \in Rows

\* The peak is among the values taken since the reset, and above all of them.
PeakInv ==
  /\ peak.ts = 0 <=> sinceReset = {}
  /\ \A x \in sinceReset : x \in Nat /\ x <= peak.v
  /\ sinceReset # {} => peak.v \in sinceReset

\* What the constants give.
LEMMA TrendConstants ==
  /\ HistoryLen \in Nat /\ HistoryLen > 0 /\ MaxTime \in Nat /\ MaxTime > 0
  /\ Span \in Nat /\ Span > 0 /\ Span <= HistoryLen
  /\ \A v \in TrendValues : v \in Nat
<1>1. {Span, HistoryLen, MaxTime} \subseteq Nat \ {0} /\ Span <= HistoryLen
  BY TrendAssumption
<1>2. \A v \in TrendValues : v \in Nat
  BY TrendAssumption
<1> QED
  BY <1>1, <1>2

\* The last row of a history is a point.
LEMMA RowFacts ==
  ASSUME NEW r \in Rows
  PROVE  Last(r) \in Points
  BY DEF Rows, Last

\* A history that has just begun.
LEMMA OneRow ==
  ASSUME NEW p \in Points
  PROVE  <<p>> \in Rows
<1>1. <<p>> \in Seq(Points) /\ Len(<<p>>) = 1 /\ <<p>> # <<>>
  OBVIOUS
<1> QED
  BY <1>1, TrendConstants DEF Rows

\* A history that is full forgets a row and has at least the new one.
LEMMA RecordedFacts ==
  ASSUME rows \in Rows, NEW p \in Points
  PROVE  Recorded(p) \in Rows
<1> DEFINE all == Append(rows, p)
<1>1. all \in Seq(Points) /\ Len(all) = Len(rows) + 1 /\ Len(rows) \in Nat /\ Len(rows) > 0
  BY DEF Rows
<1>2. Tail(all) \in Seq(Points) /\ Len(Tail(all)) = Len(rows)
  BY <1>1
<1>3. Len(<<>>) = 0
  OBVIOUS
<1> HIDE DEF all
<1>4. all # <<>> /\ Tail(all) # <<>>
  BY <1>1, <1>2, <1>3
<1>5. Len(rows) <= HistoryLen /\ HistoryLen \in Nat
  BY TrendConstants DEF Rows
<1>6. CASE Len(all) > HistoryLen
  <2>1. Recorded(p) = Tail(all)
    BY <1>6 DEF Recorded, all
  <2> QED
    BY <1>2, <1>4, <1>5, <2>1 DEF Rows
<1>7. CASE ~(Len(all) > HistoryLen)
  <2>1. Recorded(p) = all
    BY <1>7 DEF Recorded, all
  <2>2. Len(all) <= HistoryLen
    BY <1>1, <1>5, <1>7
  <2> QED
    BY <1>1, <1>4, <2>1, <2>2 DEF Rows
<1> QED
  BY <1>6, <1>7

\* A call that begins has not been answered.
LEMMA AskedFacts ==
  ASSUME NEW first, NEW s,
         \A c \in s :
           DOMAIN c = {"id", "first", "got", "rows"} /\ (c.got = FALSE \/ c.rows \in Rows)
  PROVE  \A c \in Asked(first, s) :
           DOMAIN c = {"id", "first", "got", "rows"} /\ (c.got = FALSE \/ c.rows \in Rows)
<1> DEFINE id == CHOOSE n \in 1..(Cardinality(s) + 1) : \A c \in s : c.id # n
           new == [id |-> id, first |-> first, got |-> FALSE, rows |-> <<>>]
<1>1. Asked(first, s) = s \cup {new}
  BY DEF Asked
<1>2. DOMAIN new = {"id", "first", "got", "rows"} /\ new.got = FALSE
  OBVIOUS
<1> QED
  BY <1>1, <1>2

\* A status that is taken raises the peak or leaves it.
LEMMA PeakFacts ==
  ASSUME PeakInv, NEW p \in Points,
         peak' = Higher(p), sinceReset' = sinceReset \cup {p.v}
  PROVE  PeakInv'
<1>1. p.ts \in Nat /\ p.ts # 0 /\ p.v \in Nat
  <2>1. p.ts \in 1..MaxTime /\ p.v \in TrendValues
    BY DEF Points
  <2> QED
    BY <2>1, TrendConstants
<1>2. CASE peak.ts = 0 \/ p.v > peak.v
  <2>1. peak' = p
    BY <1>2 DEF Higher
  <2>2. \A x \in sinceReset : x \in Nat /\ x <= p.v
    <3> TAKE x \in sinceReset
    <3>1. x \in Nat /\ x <= peak.v /\ peak.v \in Nat /\ peak.ts # 0
      BY DEF PeakInv
    <3> QED
      BY <1>1, <1>2, <3>1
  <2> QED
    BY <1>1, <2>1, <2>2 DEF PeakInv
<1>3. CASE peak.ts # 0 /\ ~(p.v > peak.v)
  <2>1. peak' = peak /\ peak.v \in sinceReset /\ peak.v \in Nat
    BY <1>3 DEF Higher, PeakInv
  <2>2. p.v <= peak.v
    BY <1>1, <1>3, <2>1
  <2> QED
    BY <1>1, <1>3, <2>1, <2>2 DEF PeakInv
<1> QED
  BY <1>2, <1>3

\* Samples, restarts and a clock set back leave a history that has a row.
LEMMA SamplesStep ==
  SamplesInv /\ [TrendNext]_trendVars => SamplesInv'
<1> SUFFICES ASSUME SamplesInv, [TrendNext]_trendVars PROVE SamplesInv'
  OBVIOUS
<1> USE DEF SamplesInv, trendDaemon, trend, screen, trendVars
<1>1. CASE \E v \in TrendValues : Sample(v)
  <2> PICK v \in TrendValues : Sample(v)
    BY <1>1
  <2>1. [ts |-> clock + 1, v |-> v] \in Points /\ clock + 1 \in 1..MaxTime
    BY TrendConstants DEF Sample, Points
  <2> QED
    BY <2>1, RecordedFacts DEF Sample
<1>2. CASE \E v \in TrendValues : Up(v)
  <2> PICK v \in TrendValues : Up(v)
    BY <1>2
  <2>1. [ts |-> clock + 1, v |-> v] \in Points /\ clock + 1 \in 1..MaxTime
    BY TrendConstants DEF Up, Points
  <2>2. <<[ts |-> clock + 1, v |-> v]>> \in Rows
    BY <2>1, OneRow
  <2> QED
    BY <2>1, <2>2 DEF Up
<1>3. CASE \E t \in 1..MaxTime : ClockBack(t)
  BY <1>3, TrendConstants DEF ClockBack
<1>4. CASE Down
  BY <1>4, TrendConstants DEF Down
<1>5. CASE OnStatus
  BY <1>5, TrendConstants DEF OnStatus
<1>6. CASE ConnChanged
  BY <1>6, TrendConstants DEF ConnChanged
<1>7. CASE Refresh
  BY <1>7, TrendConstants DEF Refresh
<1>8. CASE \E c \in trendCalls : TrendFetch(c)
  BY <1>8, TrendConstants DEF TrendFetch
<1>9. CASE \E c \in trendCalls : GotHistory(c)
  BY <1>9, TrendConstants DEF GotHistory
<1>10. CASE \E c \in trendCalls : GotInitial(c)
  BY <1>10, TrendConstants DEF GotInitial
<1>11. CASE Pause
  BY <1>11, TrendConstants DEF Pause
<1>12. CASE ResetPeaks
  BY <1>12, TrendConstants DEF ResetPeaks
<1>13. CASE Tab
  BY <1>13, TrendConstants DEF Tab
<1>14. CASE UNCHANGED trendVars
  BY <1>14, TrendConstants
<1> QED
  BY <1>1, <1>2, <1>3, <1>4, <1>5, <1>6, <1>7, <1>8, <1>9, <1>10, <1>11, <1>12, <1>13, <1>14
  DEF TrendNext

\* Calls begin without a history, and end with the daemon's.
LEMMA AnswersStep ==
  SamplesInv /\ AnswersInv /\ [TrendNext]_trendVars => AnswersInv'
<1> SUFFICES ASSUME SamplesInv, AnswersInv, [TrendNext]_trendVars PROVE AnswersInv'
  OBVIOUS
<1> USE DEF AnswersInv, trendDaemon, trend, screen, trendVars
<1>1. CASE \E v \in TrendValues : Sample(v)
  BY <1>1 DEF Sample
<1>2. CASE \E v \in TrendValues : Up(v)
  BY <1>2 DEF Up
<1>3. CASE \E t \in 1..MaxTime : ClockBack(t)
  BY <1>3 DEF ClockBack
<1>4. CASE Down
  BY <1>4 DEF Down
<1>5. CASE OnStatus
  BY <1>5 DEF OnStatus
<1>6. CASE ConnChanged
  BY <1>6, AskedFacts DEF ConnChanged
<1>7. CASE Refresh
  BY <1>7, AskedFacts DEF Refresh
<1>8. CASE \E c \in trendCalls : TrendFetch(c)
  <2> PICK c \in trendCalls : TrendFetch(c)
    BY <1>8
  <2> DEFINE d == [c EXCEPT !.got = TRUE, !.rows = rows]
  <2>1. DOMAIN d = {"id", "first", "got", "rows"} /\ d.rows = rows
    OBVIOUS
  <2>2. trendCalls' \subseteq trendCalls \cup {d}
    BY DEF TrendFetch
  <2> HIDE DEF d
  <2> QED
    BY <2>1, <2>2 DEF SamplesInv
<1>9. CASE \E c \in trendCalls : GotHistory(c)
  BY <1>9 DEF GotHistory
<1>10. CASE \E c \in trendCalls : GotInitial(c)
  BY <1>10 DEF GotInitial
<1>11. CASE Pause
  BY <1>11 DEF Pause
<1>12. CASE ResetPeaks
  BY <1>12 DEF ResetPeaks
<1>13. CASE Tab
  BY <1>13 DEF Tab
<1>14. CASE UNCHANGED trendVars
  BY <1>14
<1> QED
  BY <1>1, <1>2, <1>3, <1>4, <1>5, <1>6, <1>7, <1>8, <1>9, <1>10, <1>11, <1>12, <1>13, <1>14
  DEF TrendNext

\* Statuses of the stream and the one of load_initial count, and nothing else does.
LEMMA PeakStep ==
  SamplesInv /\ AnswersInv /\ PeakInv /\ [TrendNext]_trendVars => PeakInv'
<1> SUFFICES ASSUME SamplesInv, AnswersInv, PeakInv,
                    [TrendNext]_trendVars
             PROVE  PeakInv'
  OBVIOUS
<1> USE DEF PeakInv, trendDaemon, trend, screen, trendVars
<1>1. CASE \E v \in TrendValues : Sample(v)
  BY <1>1 DEF Sample
<1>2. CASE \E v \in TrendValues : Up(v)
  BY <1>2 DEF Up
<1>3. CASE \E t \in 1..MaxTime : ClockBack(t)
  BY <1>3 DEF ClockBack
<1>4. CASE Down
  BY <1>4 DEF Down
<1>5. CASE OnStatus
  BY <1>5, RowFacts, PeakFacts DEF OnStatus, TakeStatus, SamplesInv
<1>6. CASE ConnChanged
  BY <1>6 DEF ConnChanged
<1>7. CASE Refresh
  BY <1>7 DEF Refresh
<1>8. CASE \E c \in trendCalls : TrendFetch(c)
  BY <1>8 DEF TrendFetch
<1>9. CASE \E c \in trendCalls : GotHistory(c)
  BY <1>9 DEF GotHistory
<1>10. CASE \E c \in trendCalls : GotInitial(c)
  <2> PICK c \in trendCalls : GotInitial(c)
    BY <1>10
  <2>1. Last(c.rows) \in Points
    BY RowFacts DEF GotInitial, AnswersInv
  <2>2. CASE status = NoPoint
    BY <2>1, <2>2, PeakFacts DEF GotInitial, TakeStatus
  <2>3. CASE status # NoPoint
    BY <2>3 DEF GotInitial
  <2> QED
    BY <2>2, <2>3
<1>11. CASE Pause
  BY <1>11 DEF Pause
<1>12. CASE ResetPeaks
  BY <1>12 DEF ResetPeaks, NoPoint
<1>13. CASE Tab
  BY <1>13 DEF Tab
<1>14. CASE UNCHANGED trendVars
  BY <1>14
<1> QED
  BY <1>1, <1>2, <1>3, <1>4, <1>5, <1>6, <1>7, <1>8, <1>9, <1>10, <1>11, <1>12, <1>13, <1>14
  DEF TrendNext

\* Keys and statuses leave the tab with the last status, unless it is paused.
LEMMA ShownStep ==
  paused \in BOOLEAN /\ ShownIsLatest /\ [TrendNext]_trendVars
    => paused' \in BOOLEAN /\ ShownIsLatest'
<1> SUFFICES ASSUME paused \in BOOLEAN, ShownIsLatest,
                    [TrendNext]_trendVars
             PROVE  paused' \in BOOLEAN /\ ShownIsLatest'
  OBVIOUS
<1> USE DEF ShownIsLatest, trendDaemon, trend, screen, trendVars
<1>1. CASE \E v \in TrendValues : Sample(v)
  BY <1>1 DEF Sample
<1>2. CASE \E v \in TrendValues : Up(v)
  BY <1>2 DEF Up
<1>3. CASE \E t \in 1..MaxTime : ClockBack(t)
  BY <1>3 DEF ClockBack
<1>4. CASE Down
  BY <1>4 DEF Down
<1>5. CASE OnStatus
  BY <1>5 DEF OnStatus, TakeStatus
<1>6. CASE ConnChanged
  BY <1>6 DEF ConnChanged
<1>7. CASE Refresh
  BY <1>7 DEF Refresh
<1>8. CASE \E c \in trendCalls : TrendFetch(c)
  BY <1>8 DEF TrendFetch
<1>9. CASE \E c \in trendCalls : GotHistory(c)
  BY <1>9 DEF GotHistory
<1>10. CASE \E c \in trendCalls : GotInitial(c)
  BY <1>10 DEF GotInitial, TakeStatus
<1>11. CASE Pause
  BY <1>11 DEF Pause
<1>12. CASE ResetPeaks
  BY <1>12 DEF ResetPeaks
<1>13. CASE Tab
  BY <1>13 DEF Tab
<1>14. CASE UNCHANGED trendVars
  BY <1>14
<1> QED
  BY <1>1, <1>2, <1>3, <1>4, <1>5, <1>6, <1>7, <1>8, <1>9, <1>10, <1>11, <1>12, <1>13, <1>14
  DEF TrendNext

\* The times of a list go forward, but for steps of k back.
Ordered(s, k) == \A i, j \in 1..Len(s) : i < j => s[i].ts <= s[j].ts + k

\* No point of s is later than t.
UpTo(s, t) == \A i \in 1..Len(s) : s[i].ts <= t

\* A history goes forward, up to the present.
Forward(r) == Ordered(r, 0) /\ UpTo(r, clock)

\* No sample is missing between two rows, and none before them unless the history is full.
Gapless(r) ==
  /\ \A i, j \in 1..Len(r) : r[j].ts = r[i].ts + j - i
  /\ Len(r) = HistoryLen \/ r[1].ts = 1

\* With a daemon that keeps running: no history has a gap.
GaplessInv ==
  /\ restarts = 0 /\ up = TRUE /\ Gapless(rows)
  /\ \A c \in trendCalls : c.got = FALSE \/ Gapless(c.rows)

\* The view has a point once a status has been taken.
TakenInv ==
  /\ status = NoPoint => taken = {}
  /\ \A t \in taken : t \in Nat /\ t <= clock
  /\ taken # {} => fast # <<>>

\* A point has a time and a value, and is not the one that says there is none.
LEMMA PointFacts ==
  ASSUME NEW p \in Points
  PROVE  p.ts \in 1..MaxTime /\ p.ts \in Nat /\ p.ts > 0 /\ p.v \in TrendValues /\ p # NoPoint
<1>1. p.ts \in 1..MaxTime /\ p.v \in TrendValues
  BY DEF Points
<1>2. p.ts \in Nat /\ p.ts > 0
  BY <1>1, TrendConstants
<1>3. NoPoint.ts = 0
  BY DEF NoPoint
<1> QED
  BY <1>1, <1>2, <1>3

\* The largest number of a set with a bound.
LEMMA LargestNumber ==
  ASSUME NEW n \in Nat, NEW T, \A k \in T : k \in 0..n, T # {}
  PROVE  Max(T) \in T /\ \A k \in T : k <= Max(T)
<1> DEFINE U == {n - k : k \in T}
<1>1. (\A k \in U : k \in Nat) /\ U # {}
  OBVIOUS
<1>2. PICK m \in U : \A k \in U : m <= k
  <2> HIDE DEF U
  <2> QED
    BY <1>1, LeastNumber
<1>3. PICK x \in T : m = n - x
  OBVIOUS
<1>4. \A k \in T : x >= k
  <2> TAKE k \in T
  <2>1. m <= n - k /\ k \in 0..n /\ x \in 0..n
    BY <1>2
  <2> QED
    BY <1>3, <2>1
<1> HIDE DEF U
<1>5. Max(T) \in T /\ \A y \in T : Max(T) >= y
  BY <1>4 DEF Max
<1> QED
  BY <1>5

\* f is what on_status makes of the view c, which it has emptied when the clock went
\* back, and of the status p: the m oldest points go, as they are too old, and the next
\* one is not.
IsTaken(f, c, p, m) ==
  /\ f \in Seq(Points) /\ m \in 0..Len(c) /\ Len(f) = Len(c) + 1 - m
  /\ f[Len(f)] = p /\ \A i \in 1..(Len(f) - 1) : f[i] = c[m + i]
  /\ \A i \in 1..m : c[i].ts < p.ts - Span
  /\ f[1].ts >= p.ts - Span

\* What on_status makes of the view.
LEMMA TakenFacts ==
  ASSUME NEW c \in Seq(Points), NEW p \in Points
  PROVE  \E m : IsTaken(Trim(Append(c, p), p.ts), c, p, m)
<1> DEFINE a == Append(c, p)
           T == TooOld(a, p.ts)
           m == Max(T)
           f == SubSeq(a, m + 1, Len(a))
<1>1. /\ a \in Seq(Points) /\ Len(a) = Len(c) + 1 /\ Len(c) \in Nat
      /\ a[Len(c) + 1] = p /\ \A i \in 1..Len(c) : a[i] = c[i]
  BY AppendProperties
<1>2. p.ts \in Nat /\ Span \in Nat /\ Span > 0
  BY PointFacts, TrendConstants
<1>3. Trim(a, p.ts) = f
  BY DEF Trim
<1> HIDE DEF a
<1>4. (\A k \in T : k \in 0..Len(a)) /\ 0 \in T
  BY <1>1 DEF TooOld
<1>5. m \in T /\ \A k \in T : k <= m
  <2>1. T # {} /\ Len(a) \in Nat
    BY <1>1, <1>4
  <2> HIDE DEF T
  <2> QED
    BY <1>4, <2>1, LargestNumber
<1> HIDE DEF m
<1>6. m \in 0..Len(a) /\ \A i \in 1..m : a[i].ts < p.ts - Span
  BY <1>5 DEF TooOld
<1>7. m # Len(a)
  <2> SUFFICES ASSUME m = Len(a) PROVE FALSE
    OBVIOUS
  <2>1. Len(c) + 1 \in 1..m
    BY <1>1
  <2>2. p.ts < p.ts - Span
    BY <1>1, <1>6, <2>1
  <2> QED
    BY <1>2, <2>2
<1>8. m \in 0..Len(c)
  BY <1>1, <1>6, <1>7
<1>9. a[m + 1].ts >= p.ts - Span
  <2> SUFFICES ASSUME a[m + 1].ts < p.ts - Span PROVE FALSE
    <3>1. a[m + 1] \in Points
      BY <1>1, <1>8
    <3>2. a[m + 1].ts \in Nat
      BY <3>1, PointFacts
    <3> QED
      BY <1>2, <3>2
  <2>1. \A i \in 1..(m + 1) : i \in 1..m \/ i = m + 1
    BY <1>8
  <2>2. \A i \in 1..(m + 1) : a[i].ts < p.ts - Span
    BY <1>6, <2>1
  <2>3. m + 1 \in 0..Len(a)
    BY <1>1, <1>8
  <2>4. m + 1 \in T
    BY <2>2, <2>3 DEF TooOld
  <2> QED
    BY <1>5, <1>8, <2>4
<1>10. /\ f \in Seq(Points) /\ Len(f) = Len(a) - m
       /\ \A i \in 1..Len(f) : f[i] = a[m + i]
  BY <1>1, <1>8
<1> HIDE DEF f
<1>11. f[Len(f)] = p /\ f[1] = a[m + 1]
  <2>1. Len(f) \in 1..Len(f) /\ 1 \in 1..Len(f) /\ m + Len(f) = Len(c) + 1 /\ m + 1 = 1 + m
    BY <1>1, <1>8, <1>10
  <2> QED
    BY <1>1, <1>10, <2>1
<1>12. \A i \in 1..(Len(f) - 1) : f[i] = c[m + i]
  <2> TAKE i \in 1..(Len(f) - 1)
  <2>1. i \in 1..Len(f) /\ m + i \in 1..Len(c)
    BY <1>1, <1>8, <1>10
  <2> QED
    BY <1>1, <1>10, <2>1
<1>13. \A i \in 1..m : c[i].ts < p.ts - Span
  <2> TAKE i \in 1..m
  <2>1. i \in 1..Len(c)
    BY <1>1, <1>8
  <2> QED
    BY <1>1, <1>6, <2>1
<1>14. Len(f) = Len(c) + 1 - m
  BY <1>1, <1>8, <1>10
<1>15. IsTaken(f, c, p, m)
  BY <1>8, <1>9, <1>10, <1>11, <1>12, <1>13, <1>14 DEF IsTaken
<1>16. Trim(a, p.ts) = f
  BY <1>3
<1> QED
  BY <1>15, <1>16 DEF a

\* The last element of a list is the last that is kept, if it is kept.
LEMMA PickLast ==
  ASSUME NEW E, NEW S, NEW s \in Seq(E), NEW w \in Seq(E), NEW h, IsPick(h, w, s, S),
         s # <<>>, s[Len(s)] \in S
  PROVE  w # <<>> /\ w[Len(w)] = s[Len(s)]
<1>1. Len(s) \in 1..Len(s) /\ Len(w) \in Nat /\ Len(s) \in Nat
  <2>1. Len(s) # 0
    BY EmptySeq
  <2> QED
    BY <2>1
<1>2. PICK i \in 1..Len(w) : h[i] = Len(s)
  BY <1>1 DEF IsPick
<1>3. i = Len(w)
  <2> SUFFICES ASSUME i # Len(w) PROVE FALSE
    OBVIOUS
  <2>1. Len(w) \in 1..Len(w) /\ i < Len(w)
    BY <1>1
  <2>2. h[i] < h[Len(w)] /\ h[Len(w)] \in 1..Len(s)
    BY <2>1 DEF IsPick
  <2> QED
    BY <1>1, <1>2, <2>2
<1>4. Len(w) # 0
  BY <1>1, <1>3
<1>5. w[Len(w)] = s[Len(s)]
  BY <1>2, <1>3 DEF IsPick
<1> QED
  BY <1>4, <1>5, EmptySeq

\* f is made of what is recent in the history h, and of what is newer in the view b.
IsSeeded(f, b, h) ==
  /\ f \in Seq(Points) /\ f # <<>>
  /\ \A i \in 1..Len(f) : \/ \E j \in 1..Len(h) : f[i] = h[j]
                          \/ \E j \in 1..Len(b) : f[i] = b[j]
  /\ \A j \in 1..Len(h) : h[j].ts > Last(h).ts - Span => \E i \in 1..Len(f) : f[i] = h[j]
  /\ \A j \in 1..Len(b) : b[j].ts > Last(h).ts => \E i \in 1..Len(f) : f[i] = b[j]
  /\ f[Len(f)].ts >= Last(h).ts
  /\ b # <<>> => f[Len(f)].ts >= Last(b).ts

\* The two parts of a view that is seeded: places in the history, and in the view.
LEMMA SeedParts ==
  ASSUME NEW b \in Seq(Points), NEW h \in Rows
  PROVE  \E u, v, g, k :
           /\ u \in Seq(Points) /\ v \in Seq(Points) /\ Seeded(b, h) = u \o v
           /\ IsPick(g, u, h, {p \in Points : p.ts > Last(h).ts - Span})
           /\ IsPick(k, v, b, {p \in Points : p.ts > Last(h).ts})
<1> DEFINE end == Last(h).ts
           S == {p \in Points : p.ts > end - Span}
           R == {p \in Points : p.ts > end}
           u == Within(h, S)
           v == Within(b, R)
<1>1. Seeded(b, h) = u \o v
  BY DEF Seeded
<1>2. h \in Seq(Points)
  BY DEF Rows
<1> HIDE DEF S, R
<1>3. u \in Seq(Points) /\ \E g : IsPick(g, u, h, S)
  BY <1>2, WithinPicks
<1>4. v \in Seq(Points) /\ \E k : IsPick(k, v, b, R)
  BY WithinPicks
<1> HIDE DEF u, v
<1>5. PICK g : IsPick(g, u, h, S)
  BY <1>3
<1>6. PICK k : IsPick(k, v, b, R)
  BY <1>4
<1>7. \E g1, k1 : Seeded(b, h) = u \o v /\ IsPick(g1, u, h, S) /\ IsPick(k1, v, b, R)
  BY <1>1, <1>5, <1>6
<1> QED
  BY <1>3, <1>4, <1>7, Zenon DEF S, R

\* The elements of two lists, one after the other.
LEMMA JoinedAt ==
  ASSUME NEW E, NEW u \in Seq(E), NEW v \in Seq(E)
  PROVE  /\ u \o v \in Seq(E) /\ Len(u \o v) = Len(u) + Len(v)
         /\ Len(u) \in Nat /\ Len(v) \in Nat
         /\ \A i \in 1..Len(u) : (u \o v)[i] = u[i]
         /\ \A i \in 1..Len(v) : (u \o v)[Len(u) + i] = v[i]
  OBVIOUS

\* What seeding makes of the view.
LEMMA SeededFacts ==
  ASSUME NEW b \in Seq(Points), NEW h \in Rows
  PROVE  IsSeeded(Seeded(b, h), b, h)
<1> DEFINE end == Last(h).ts
           S == {p \in Points : p.ts > end - Span}
           R == {p \in Points : p.ts > end}
           f == Seeded(b, h)
<1>1. PICK u, v, g, k :
        /\ u \in Seq(Points) /\ v \in Seq(Points) /\ f = u \o v
        /\ IsPick(g, u, h, S) /\ IsPick(k, v, b, R)
  BY SeedParts
<1> HIDE DEF f
<1>2. /\ h \in Seq(Points) /\ h # <<>> /\ Len(h) \in Nat /\ Len(b) \in Nat
      /\ h[Len(h)] \in Points /\ Last(h) = h[Len(h)] /\ end \in Nat /\ Span \in Nat /\ Span > 0
  <2>1. h \in Seq(Points) /\ h # <<>> /\ Last(h) = h[Len(h)]
    BY DEF Rows, Last
  <2>2. Last(h) \in Points
    BY RowFacts
  <2> QED
    BY <2>1, <2>2, PointFacts, TrendConstants
<1>3. /\ f \in Seq(Points) /\ Len(f) = Len(u) + Len(v) /\ Len(u) \in Nat /\ Len(v) \in Nat
      /\ \A i \in 1..Len(u) : f[i] = u[i]
      /\ \A i \in 1..Len(v) : f[Len(u) + i] = v[i]
  BY <1>1, JoinedAt
<1>4. h[Len(h)] \in S
  BY <1>2
<1>5. \A p : p \in S => p \in Points /\ p.ts \in Nat /\ p.ts > end - Span
  BY PointFacts
<1>6. \A p : p \in R => p \in Points /\ p.ts \in Nat /\ p.ts > end
  BY PointFacts
<1>7. \A p \in Points : (p.ts > end - Span => p \in S) /\ (p.ts > end => p \in R)
  OBVIOUS
<1> HIDE DEF end, S, R
<1>8. u # <<>> /\ u[Len(u)] = h[Len(h)]
  BY <1>1, <1>2, <1>4, PickLast
<1>9. Len(u) > 0
  BY <1>3, <1>8, EmptySeq
<1>10. ASSUME NEW i \in 1..Len(f)
       PROVE  \/ \E j \in 1..Len(h) : f[i] = h[j]
              \/ \E j \in 1..Len(b) : f[i] = b[j]
  <2>1. CASE i \in 1..Len(u)
    <3>1. f[i] = h[g[i]] /\ g[i] \in 1..Len(h)
      BY <1>1, <1>3, <2>1 DEF IsPick
    <3> QED
      BY <3>1
  <2>2. CASE i \notin 1..Len(u)
    <3>1. i - Len(u) \in 1..Len(v) /\ Len(u) + (i - Len(u)) = i
      BY <1>3, <2>2
    <3>2. f[i] = v[i - Len(u)]
      BY <1>3, <3>1
    <3>3. v[i - Len(u)] = b[k[i - Len(u)]] /\ k[i - Len(u)] \in 1..Len(b)
      BY <1>1, <3>1 DEF IsPick
    <3> QED
      BY <3>2, <3>3
  <2> QED
    BY <2>1, <2>2
<1>11. ASSUME NEW j \in 1..Len(h), h[j].ts > end - Span
       PROVE  \E i \in 1..Len(f) : f[i] = h[j]
  <2>1. h[j] \in S
    BY <1>2, <1>7, <1>11
  <2>2. PICK i \in 1..Len(u) : g[i] = j
    BY <1>1, <2>1 DEF IsPick
  <2>3. u[i] = h[j]
    BY <1>1, <2>2 DEF IsPick
  <2>4. i \in 1..Len(f)
    BY <1>3
  <2> QED
    BY <1>3, <2>3, <2>4
<1>12. ASSUME NEW j \in 1..Len(b), b[j].ts > end
       PROVE  \E i \in 1..Len(f) : f[i] = b[j]
  <2>1. b[j] \in R
    BY <1>7, <1>12
  <2>2. PICK i \in 1..Len(v) : k[i] = j
    BY <1>1, <2>1 DEF IsPick
  <2>3. v[i] = b[j]
    BY <1>1, <2>2 DEF IsPick
  <2>4. Len(u) + i \in 1..Len(f)
    BY <1>3
  <2> QED
    BY <1>3, <2>3, <2>4
<1>13. f # <<>>
  BY <1>3, <1>9, EmptySeq
<1>14. f[Len(f)].ts >= end /\ (b # <<>> => f[Len(f)].ts >= Last(b).ts)
  <2>1. b # <<>> => Last(b) = b[Len(b)] /\ b[Len(b)] \in Points /\ Last(b).ts \in Nat
    <3> SUFFICES ASSUME b # <<>>
                 PROVE  Last(b) = b[Len(b)] /\ b[Len(b)] \in Points /\ Last(b).ts \in Nat
      OBVIOUS
    <3>1. Last(b) = b[Len(b)]
      BY DEF Last
    <3>2. Len(b) # 0
      BY EmptySeq
    <3>3. b[Len(b)] \in Points
      BY <1>2, <3>2
    <3> QED
      BY <3>1, <3>3, PointFacts
  <2>2. CASE b # <<>> /\ Last(b).ts > end
    <3>1. b[Len(b)] \in R
      BY <1>7, <2>1, <2>2
    <3>2. v # <<>> /\ v[Len(v)] = b[Len(b)]
      BY <1>1, <2>2, <3>1, PickLast
    <3>3. Len(v) # 0
      BY <3>2, EmptySeq
    <3>4. Len(v) \in 1..Len(v)
      BY <1>3, <3>3
    <3>5. f[Len(f)] = b[Len(b)]
      BY <1>3, <3>2, <3>4
    <3>6. f[Len(f)].ts = Last(b).ts /\ Last(b).ts \in Nat
      BY <2>1, <2>2, <3>5
    <3> QED
      BY <1>2, <2>2, <3>6
  <2>3. CASE ~(b # <<>> /\ Last(b).ts > end)
    <3>1. b # <<>> => Last(b).ts <= end
      BY <1>2, <2>1, <2>3
    <3>2. f[Len(f)].ts >= end /\ f[Len(f)].ts \in Nat
      <4>1. CASE Len(v) = 0
        <5>1. Len(f) = Len(u) /\ Len(u) \in 1..Len(u)
          BY <1>3, <1>9, <4>1
        <5>2. f[Len(f)] = h[Len(h)]
          BY <1>3, <1>8, <5>1
        <5> QED
          BY <1>2, <5>2 DEF end
      <4>2. CASE Len(v) # 0
        <5>1. Len(v) \in 1..Len(v)
          BY <1>3, <4>2
        <5>2. f[Len(f)] = v[Len(v)] /\ v[Len(v)] \in R
          BY <1>1, <1>3, <5>1 DEF IsPick
        <5> QED
          BY <1>2, <1>6, <5>2
      <4> QED
        BY <4>1, <4>2
    <3> QED
      BY <1>2, <2>1, <3>1, <3>2
  <2> QED
    BY <2>2, <2>3
<1>15. IsSeeded(f, b, h)
  BY <1>3, <1>10, <1>11, <1>12, <1>13, <1>14 DEF IsSeeded, end
<1> QED
  BY <1>15 DEF f

\* Two places behind the first a, in a list of a + b.
LEMMA BothBehind ==
  ASSUME NEW a \in Nat, NEW b \in Nat, NEW i \in 1..(a + b), NEW j \in 1..(a + b),
         i \notin 1..a, i < j
  PROVE  /\ i - a \in 1..b /\ a + (i - a) = i
         /\ j - a \in 1..b /\ a + (j - a) = j
         /\ i - a < j - a
  OBVIOUS

\* A view that goes forward goes forward when it is seeded.
LEMMA SeededOrdered ==
  ASSUME NEW b \in Seq(Points), NEW h \in Rows, NEW n \in {0, 1}, Ordered(h, 0), Ordered(b, n)
  PROVE  Ordered(Seeded(b, h), n)
<1> DEFINE end == Last(h).ts
           S == {p \in Points : p.ts > end - Span}
           R == {p \in Points : p.ts > end}
           f == Seeded(b, h)
<1>1. PICK u, v, g, k :
        /\ u \in Seq(Points) /\ v \in Seq(Points) /\ f = u \o v
        /\ IsPick(g, u, h, S) /\ IsPick(k, v, b, R)
  BY SeedParts
<1> HIDE DEF f
<1>2. /\ h \in Seq(Points) /\ Len(h) \in 1..Len(h) /\ Len(h) \in Nat /\ Len(b) \in Nat
      /\ end = h[Len(h)].ts /\ end \in Nat
  <2>1. h \in Seq(Points) /\ h # <<>> /\ Last(h) = h[Len(h)]
    BY DEF Rows, Last
  <2>2. Last(h) \in Points /\ Len(h) # 0
    BY <2>1, RowFacts, EmptySeq
  <2> QED
    BY <2>1, <2>2, PointFacts
<1>3. /\ f \in Seq(Points) /\ Len(f) = Len(u) + Len(v) /\ Len(u) \in Nat /\ Len(v) \in Nat
      /\ \A i \in 1..Len(u) : f[i] = u[i]
      /\ \A i \in 1..Len(v) : f[Len(u) + i] = v[i]
  BY <1>1, JoinedAt
<1>4. \A p : p \in R => p.ts > end
  OBVIOUS
<1>5. (\A i \in 1..Len(h) : h[i].ts \in Nat) /\ (\A i \in 1..Len(b) : b[i].ts \in Nat)
  <2>1. (\A i \in 1..Len(h) : h[i] \in Points) /\ (\A i \in 1..Len(b) : b[i] \in Points)
    BY <1>2
  <2> QED
    BY <2>1, PointFacts
<1> HIDE DEF end, S, R
<1>6. \A i \in 1..Len(h) : h[i].ts <= end
  <2> TAKE i \in 1..Len(h)
  <2>1. i = Len(h) \/ i < Len(h)
    BY <1>2
  <2> QED
    BY <1>2, <1>5, <2>1 DEF Ordered
<1>7. \A i \in 1..Len(u) : u[i] = h[g[i]] /\ g[i] \in 1..Len(h)
  BY <1>1 DEF IsPick
<1>8. \A i \in 1..Len(v) : v[i] = b[k[i]] /\ k[i] \in 1..Len(b) /\ v[i] \in R
  BY <1>1 DEF IsPick
<1>9. ASSUME NEW i \in 1..Len(f), NEW j \in 1..Len(f), i < j
      PROVE  f[i].ts <= f[j].ts + n
  <2>1. CASE j \in 1..Len(u)
    <3>1. i \in 1..Len(u)
      BY <1>3, <1>9, <2>1
    <3>2. g[i] < g[j]
      BY <1>1, <1>9, <2>1, <3>1 DEF IsPick
    <3>3. h[g[i]].ts <= h[g[j]].ts + 0 /\ h[g[i]].ts \in Nat /\ h[g[j]].ts \in Nat
      BY <1>5, <1>7, <2>1, <3>1, <3>2 DEF Ordered
    <3>4. f[i] = h[g[i]] /\ f[j] = h[g[j]]
      BY <1>3, <1>7, <2>1, <3>1
    <3> QED
      BY <3>3, <3>4
  <2>2. CASE i \in 1..Len(u) /\ j \notin 1..Len(u)
    <3>1. j - Len(u) \in 1..Len(v) /\ Len(u) + (j - Len(u)) = j
      BY <1>3, <2>2
    <3>2. f[j] = v[j - Len(u)] /\ v[j - Len(u)] \in R
      BY <1>3, <1>8, <3>1
    <3>3. f[j].ts > end /\ f[j].ts \in Nat
      BY <1>4, <1>5, <1>8, <3>1, <3>2
    <3>4. f[i].ts <= end /\ f[i].ts \in Nat
      <4>1. f[i] = h[g[i]] /\ g[i] \in 1..Len(h)
        BY <1>3, <1>7, <2>2
      <4> QED
        BY <1>5, <1>6, <4>1
    <3>5. end \in Nat
      BY <1>2
    <3>6. f[i].ts <= f[j].ts
      BY <3>3, <3>4, <3>5
    <3> QED
      BY <3>3, <3>4, <3>6
  <2>3. CASE i \notin 1..Len(u)
    <3>1. /\ i - Len(u) \in 1..Len(v) /\ Len(u) + (i - Len(u)) = i
          /\ j - Len(u) \in 1..Len(v) /\ Len(u) + (j - Len(u)) = j
          /\ i - Len(u) < j - Len(u)
      <4>1. /\ Len(u) \in Nat /\ Len(v) \in Nat /\ i \notin 1..Len(u)
            /\ i \in 1..(Len(u) + Len(v)) /\ j \in 1..(Len(u) + Len(v)) /\ i < j
        BY <1>3, <1>9, <2>3
      <4> QED
        BY <4>1, BothBehind
    <3>2. f[i] = v[i - Len(u)] /\ f[j] = v[j - Len(u)]
      BY <1>3, <3>1
    <3>3. k[i - Len(u)] < k[j - Len(u)]
      BY <1>1, <3>1 DEF IsPick
    <3>4. b[k[i - Len(u)]].ts <= b[k[j - Len(u)]].ts + n
      BY <1>8, <3>1, <3>3 DEF Ordered
    <3> QED
      BY <1>8, <3>1, <3>2, <3>4
  <2> QED
    BY <2>1, <2>2, <2>3
<1>10. Ordered(f, n)
  BY <1>9 DEF Ordered
<1> QED
  BY <1>10 DEF f

\* What on_status, got_initial and set_history leave in the two views.
ViewsInv == fast \in Seq(Points) /\ (slow = <<>> \/ slow \in Rows)

\* What the page knows of the daemon, and whether it is paused.
FlagsInv ==
  /\ up \in BOOLEAN /\ fresh \in BOOLEAN /\ link \in BOOLEAN
  /\ trendConnected \in BOOLEAN /\ trendKnown \in BOOLEAN /\ paused \in BOOLEAN

\* What is shown and remembered of the statuses.
StatusInv ==
  /\ status \in Points \cup {NoPoint} /\ peak \in Points \cup {NoPoint}
  /\ trendShown \in Points \cup {NoPoint}
  /\ taken \subseteq 1..MaxTime /\ sinceReset \subseteq TrendValues

\* A view is kept, or emptied because the clock went back.
LEMMA ClearedFacts ==
  ASSUME NEW b \in Seq(Points), NEW t
  PROVE  /\ Cleared(b, t) \in Seq(Points)
         /\ \/ Cleared(b, t) = b /\ ~(b # <<>> /\ t < Last(b).ts - 1)
            \/ Cleared(b, t) = <<>> /\ b # <<>> /\ t < Last(b).ts - 1
<1>1. CASE b # <<>> /\ t < Last(b).ts - 1
  <2>1. Cleared(b, t) = <<>>
    BY <1>1 DEF Cleared
  <2>2. <<>> \in Seq(Points)
    OBVIOUS
  <2> QED
    BY <1>1, <2>1, <2>2
<1>2. CASE ~(b # <<>> /\ t < Last(b).ts - 1)
  <2>1. Cleared(b, t) = b
    BY <1>2 DEF Cleared
  <2> QED
    BY <1>2, <2>1
<1> QED
  BY <1>1, <1>2

\* A status leaves points in the view, itself the last.
LEMMA TakenView ==
  ASSUME NEW b \in Seq(Points), NEW p \in Points, NEW f,
         f = Trim(Append(Cleared(b, p.ts), p), p.ts)
  PROVE  f \in Seq(Points) /\ f # <<>> /\ f[Len(f)] = p /\ \E m : IsTaken(f, Cleared(b, p.ts), p, m)
<1>1. Cleared(b, p.ts) \in Seq(Points)
  BY ClearedFacts
<1>2. PICK m : IsTaken(f, Cleared(b, p.ts), p, m)
  BY <1>1, TakenFacts
<1>3. Len(f) = Len(Cleared(b, p.ts)) + 1 - m /\ m \in 0..Len(Cleared(b, p.ts))
  BY <1>2 DEF IsTaken
<1>4. Len(f) # 0
  BY <1>1, <1>3
<1>5. f # <<>>
  BY <1>4, EmptySeq
<1> QED
  BY <1>2, <1>5 DEF IsTaken

\* A history leaves points in the view.
LEMMA SetHistoryFacts ==
  ASSUME NEW b \in Seq(Points), NEW h \in Rows
  PROVE  /\ SetHistory(b, h) \in Seq(Points)
         /\ SetHistory(b, h) = b \/ IsSeeded(SetHistory(b, h), b, h)
<1>1. SetHistory(b, h) = b \/ SetHistory(b, h) = Seeded(b, h)
  BY DEF SetHistory
<1>2. IsSeeded(Seeded(b, h), b, h)
  BY SeededFacts
<1>3. Seeded(b, h) \in Seq(Points)
  BY <1>2 DEF IsSeeded
<1> QED
  BY <1>1, <1>2, <1>3

\* Only statuses and histories change the views.
LEMMA OtherSteps ==
  ASSUME [TrendNext]_trendVars, ~OnStatus,
         ~(\E c \in trendCalls : GotHistory(c)), ~(\E c \in trendCalls : GotInitial(c))
  PROVE  UNCHANGED <<fast, slow, status, taken>>
<1> USE DEF trendDaemon, trend, screen, trendVars
<1>1. CASE \E v \in TrendValues : Sample(v)
  BY <1>1 DEF Sample
<1>2. CASE \E v \in TrendValues : Up(v)
  BY <1>2 DEF Up
<1>3. CASE \E t \in 1..MaxTime : ClockBack(t)
  BY <1>3 DEF ClockBack
<1>4. CASE Down
  BY <1>4 DEF Down
<1>5. CASE ConnChanged
  BY <1>5 DEF ConnChanged
<1>6. CASE Refresh
  BY <1>6 DEF Refresh
<1>7. CASE \E c \in trendCalls : TrendFetch(c)
  BY <1>7 DEF TrendFetch
<1>8. CASE Pause
  BY <1>8 DEF Pause
<1>9. CASE ResetPeaks
  BY <1>9 DEF ResetPeaks
<1>10. CASE Tab
  BY <1>10 DEF Tab
<1>11. CASE UNCHANGED trendVars
  BY <1>11
<1> QED
  BY <1>1, <1>2, <1>3, <1>4, <1>5, <1>6, <1>7, <1>8, <1>9, <1>10, <1>11 DEF TrendNext

\* The views hold points, whatever comes.
LEMMA ViewsStep ==
  SamplesInv /\ AnswersInv /\ ViewsInv /\ [TrendNext]_trendVars => ViewsInv'
<1> SUFFICES ASSUME SamplesInv, AnswersInv, ViewsInv, [TrendNext]_trendVars PROVE ViewsInv'
  OBVIOUS
<1>1. CASE OnStatus
  <2>1. Last(rows) \in Points
    BY RowFacts DEF SamplesInv
  <2>2. fast' \in Seq(Points)
    BY <1>1, <2>1, TakenView DEF OnStatus, TakeStatus, ViewsInv
  <2> QED
    BY <1>1, <2>2 DEF OnStatus, ViewsInv
<1>2. CASE \E c \in trendCalls : GotHistory(c)
  <2> PICK c \in trendCalls : GotHistory(c)
    BY <1>2
  <2>1. c.rows \in Rows
    BY DEF GotHistory, AnswersInv
  <2>2. fast' \in Seq(Points)
    BY <2>1, SetHistoryFacts DEF GotHistory, ViewsInv
  <2> QED
    BY <2>1, <2>2 DEF GotHistory, ViewsInv
<1>3. CASE \E c \in trendCalls : GotInitial(c)
  <2> PICK c \in trendCalls : GotInitial(c)
    BY <1>3
  <2> DEFINE buf == SetHistory(fast, c.rows)
  <2>1. c.rows \in Rows /\ Last(c.rows) \in Points
    BY RowFacts DEF GotInitial, AnswersInv
  <2>2. buf \in Seq(Points)
    BY <2>1, SetHistoryFacts DEF ViewsInv
  <2>3. CASE status = NoPoint
    <3>1. fast' = Trim(Append(Cleared(buf, Last(c.rows).ts), Last(c.rows)), Last(c.rows).ts)
      BY <2>3 DEF GotInitial, TakeStatus
    <3> HIDE DEF buf
    <3>2. fast' \in Seq(Points)
      BY <2>1, <2>2, <3>1, TakenView
    <3> QED
      BY <2>1, <3>2 DEF GotInitial, ViewsInv
  <2>4. CASE status # NoPoint
    BY <2>1, <2>2, <2>4 DEF GotInitial, ViewsInv
  <2> QED
    BY <2>3, <2>4
<1>4. CASE /\ ~OnStatus
           /\ ~(\E c \in trendCalls : GotHistory(c)) /\ ~(\E c \in trendCalls : GotInitial(c))
  BY <1>4, OtherSteps DEF ViewsInv
<1> QED
  BY <1>1, <1>2, <1>3, <1>4

\* Flags stay flags.
LEMMA FlagsStep ==
  FlagsInv /\ [TrendNext]_trendVars => FlagsInv'
<1> SUFFICES ASSUME FlagsInv, [TrendNext]_trendVars PROVE FlagsInv'
  OBVIOUS
<1> USE DEF FlagsInv, trendDaemon, trend, screen, trendVars
<1>1. CASE \E v \in TrendValues : Sample(v)
  BY <1>1 DEF Sample
<1>2. CASE \E v \in TrendValues : Up(v)
  BY <1>2 DEF Up
<1>3. CASE \E t \in 1..MaxTime : ClockBack(t)
  BY <1>3 DEF ClockBack
<1>4. CASE Down
  BY <1>4 DEF Down
<1>5. CASE OnStatus
  BY <1>5 DEF OnStatus
<1>6. CASE ConnChanged
  BY <1>6 DEF ConnChanged
<1>7. CASE Refresh
  BY <1>7 DEF Refresh
<1>8. CASE \E c \in trendCalls : TrendFetch(c)
  BY <1>8 DEF TrendFetch
<1>9. CASE \E c \in trendCalls : GotHistory(c)
  BY <1>9 DEF GotHistory
<1>10. CASE \E c \in trendCalls : GotInitial(c)
  BY <1>10 DEF GotInitial
<1>11. CASE Pause
  BY <1>11 DEF Pause
<1>12. CASE ResetPeaks
  BY <1>12 DEF ResetPeaks
<1>13. CASE Tab
  BY <1>13 DEF Tab
<1>14. CASE UNCHANGED trendVars
  BY <1>14
<1> QED
  BY <1>1, <1>2, <1>3, <1>4, <1>5, <1>6, <1>7, <1>8, <1>9, <1>10, <1>11, <1>12, <1>13, <1>14
  DEF TrendNext

\* A status that is taken is a point, and what is remembered of it is.
LEMMA StatusTaken ==
  ASSUME StatusInv, NEW b, NEW p \in Points, TakeStatus(b, p)
  PROVE  StatusInv'
<1>1. p.ts \in 1..MaxTime /\ p.v \in TrendValues
  BY PointFacts
<1>2. peak' = p \/ peak' = peak
  BY DEF TakeStatus, Higher
<1>3. trendShown' = p \/ trendShown' = trendShown
  BY DEF TakeStatus
<1>4. status' = p /\ taken' = taken \cup {p.ts} /\ sinceReset' = sinceReset \cup {p.v}
  BY DEF TakeStatus
<1> QED
  BY <1>1, <1>2, <1>3, <1>4 DEF StatusInv

\* What is shown and remembered are statuses.
LEMMA StatusStep ==
  SamplesInv /\ AnswersInv /\ StatusInv /\ [TrendNext]_trendVars => StatusInv'
<1> SUFFICES ASSUME SamplesInv, AnswersInv, StatusInv, [TrendNext]_trendVars PROVE StatusInv'
  OBVIOUS
<1> USE DEF trendDaemon, trend, screen, trendVars
<1>1. CASE \E v \in TrendValues : Sample(v)
  BY <1>1 DEF Sample, StatusInv
<1>2. CASE \E v \in TrendValues : Up(v)
  BY <1>2 DEF Up, StatusInv
<1>3. CASE \E t \in 1..MaxTime : ClockBack(t)
  BY <1>3 DEF ClockBack, StatusInv
<1>4. CASE Down
  BY <1>4 DEF Down, StatusInv
<1>5. CASE OnStatus
  <2>1. Last(rows) \in Points /\ TakeStatus(fast, Last(rows))
    BY <1>5, RowFacts DEF SamplesInv, OnStatus
  <2> QED
    BY <2>1, StatusTaken
<1>6. CASE ConnChanged
  BY <1>6 DEF ConnChanged, StatusInv
<1>7. CASE Refresh
  BY <1>7 DEF Refresh, StatusInv
<1>8. CASE \E c \in trendCalls : TrendFetch(c)
  BY <1>8 DEF TrendFetch, StatusInv
<1>9. CASE \E c \in trendCalls : GotHistory(c)
  BY <1>9 DEF GotHistory, StatusInv
<1>10. CASE \E c \in trendCalls : GotInitial(c)
  <2> PICK c \in trendCalls : GotInitial(c)
    BY <1>10
  <2>1. Last(c.rows) \in Points
    BY RowFacts DEF GotInitial, AnswersInv
  <2>2. CASE status = NoPoint
    BY <2>1, <2>2, StatusTaken DEF GotInitial
  <2>3. CASE status # NoPoint
    BY <2>3 DEF GotInitial, StatusInv
  <2> QED
    BY <2>2, <2>3
<1>11. CASE Pause
  BY <1>11 DEF Pause, StatusInv
<1>12. CASE ResetPeaks
  BY <1>12 DEF ResetPeaks, StatusInv
<1>13. CASE Tab
  BY <1>13 DEF Tab, StatusInv
<1>14. CASE UNCHANGED trendVars
  BY <1>14 DEF StatusInv
<1> QED
  BY <1>1, <1>2, <1>3, <1>4, <1>5, <1>6, <1>7, <1>8, <1>9, <1>10, <1>11, <1>12, <1>13, <1>14
  DEF TrendNext

\* The daemon's history, and what was read of it, go forward.
HistoryTimes ==
  /\ jumps = 0 /\ Forward(rows) /\ Last(rows).ts = clock
  /\ \A c \in trendCalls : c.got = FALSE \/ Forward(c.rows)

\* So does the view.
ViewTimes ==
  /\ Ordered(fast, 1) /\ UpTo(fast, clock)
  /\ status = NoPoint => Ordered(fast, 0)

\* What happens to the daemon's history while the clock is not set back.
LEMMA DaemonSteps ==
  ASSUME [TrendNext]_trendVars, MaxJumps = 0, jumps = 0
  PROVE  /\ jumps' = 0
         /\ \/ UNCHANGED <<clock, rows>>
            \/ \E v \in TrendValues :
                 /\ clock < MaxTime /\ clock' = clock + 1
                 /\ \/ rows' = Recorded([ts |-> clock + 1, v |-> v])
                    \/ ~up /\ rows' = <<[ts |-> clock + 1, v |-> v]>>
<1> USE DEF trendDaemon, trend, screen, trendVars
<1>1. CASE \E v \in TrendValues : Sample(v)
  BY <1>1 DEF Sample
<1>2. CASE \E v \in TrendValues : Up(v)
  BY <1>2 DEF Up
<1>3. CASE \E t \in 1..MaxTime : ClockBack(t)
  BY <1>3 DEF ClockBack
<1>4. CASE Down
  BY <1>4 DEF Down
<1>5. CASE OnStatus
  BY <1>5 DEF OnStatus
<1>6. CASE ConnChanged
  BY <1>6 DEF ConnChanged
<1>7. CASE Refresh
  BY <1>7 DEF Refresh
<1>8. CASE \E c \in trendCalls : TrendFetch(c)
  BY <1>8 DEF TrendFetch
<1>9. CASE \E c \in trendCalls : GotHistory(c)
  BY <1>9 DEF GotHistory
<1>10. CASE \E c \in trendCalls : GotInitial(c)
  BY <1>10 DEF GotInitial
<1>11. CASE Pause
  BY <1>11 DEF Pause
<1>12. CASE ResetPeaks
  BY <1>12 DEF ResetPeaks
<1>13. CASE Tab
  BY <1>13 DEF Tab
<1>14. CASE UNCHANGED trendVars
  BY <1>14
<1> QED
  BY <1>1, <1>2, <1>3, <1>4, <1>5, <1>6, <1>7, <1>8, <1>9, <1>10, <1>11, <1>12, <1>13, <1>14
  DEF TrendNext

\* A call that is new has no history, and one that is answered has the daemon's.
LEMMA CallSteps ==
  ASSUME AnswersInv, [TrendNext]_trendVars
  PROVE  \A d \in trendCalls' : d \in trendCalls \/ d.got = FALSE \/ d.rows = rows
<1> USE DEF trendDaemon, trend, screen, trendVars
<1>0. \A first : \A d \in Asked(first, trendCalls) : d \in trendCalls \/ d.got = FALSE
  BY DEF Asked
<1>1. CASE \E v \in TrendValues : Sample(v)
  BY <1>1 DEF Sample
<1>2. CASE \E v \in TrendValues : Up(v)
  BY <1>2 DEF Up
<1>3. CASE \E t \in 1..MaxTime : ClockBack(t)
  BY <1>3 DEF ClockBack
<1>4. CASE Down
  BY <1>4 DEF Down
<1>5. CASE OnStatus
  BY <1>5 DEF OnStatus
<1>6. CASE ConnChanged
  BY <1>0, <1>6 DEF ConnChanged
<1>7. CASE Refresh
  BY <1>0, <1>7 DEF Refresh
<1>8. CASE \E c \in trendCalls : TrendFetch(c)
  <2> PICK c \in trendCalls : TrendFetch(c)
    BY <1>8
  <2> DEFINE d == [c EXCEPT !.got = TRUE, !.rows = rows]
  <2>1. d.rows = rows
    BY DEF AnswersInv
  <2>2. trendCalls' \subseteq trendCalls \cup {d}
    BY DEF TrendFetch
  <2> HIDE DEF d
  <2> QED
    BY <2>1, <2>2
<1>9. CASE \E c \in trendCalls : GotHistory(c)
  BY <1>9 DEF GotHistory
<1>10. CASE \E c \in trendCalls : GotInitial(c)
  BY <1>10 DEF GotInitial
<1>11. CASE Pause
  BY <1>11 DEF Pause
<1>12. CASE ResetPeaks
  BY <1>12 DEF ResetPeaks
<1>13. CASE Tab
  BY <1>13 DEF Tab
<1>14. CASE UNCHANGED trendVars
  BY <1>14
<1> QED
  BY <1>1, <1>2, <1>3, <1>4, <1>5, <1>6, <1>7, <1>8, <1>9, <1>10, <1>11, <1>12, <1>13, <1>14
  DEF TrendNext

\* A history with a row more, of which the oldest goes when it was full.
LEMMA RecordedRows ==
  ASSUME rows \in Rows, NEW p \in Points, NEW r, r = Recorded(p)
  PROVE  \E m \in {0, 1} :
           /\ Len(r) = Len(rows) + 1 - m /\ r[Len(r)] = p
           /\ \A i \in 1..(Len(r) - 1) : r[i] = rows[i + m]
           /\ m = 1 => Len(r) = HistoryLen
<1> DEFINE all == Append(rows, p)
<1>1. /\ all \in Seq(Points) /\ Len(all) = Len(rows) + 1 /\ Len(rows) \in Nat /\ Len(rows) > 0
      /\ all[Len(rows) + 1] = p /\ \A i \in 1..Len(rows) : all[i] = rows[i]
  BY DEF Rows
<1>2. Len(rows) <= HistoryLen /\ HistoryLen \in Nat
  BY TrendConstants DEF Rows
<1>3. CASE Len(all) > HistoryLen
  <2>1. r = Tail(all)
    BY <1>3 DEF Recorded
  <2> HIDE DEF all
  <2>2. Len(r) = Len(rows) /\ \A i \in 1..Len(rows) : r[i] = all[i + 1]
    BY <1>1, <2>1
  <2>3. r[Len(r)] = p
    BY <1>1, <2>2
  <2>4. \A i \in 1..(Len(r) - 1) : r[i] = rows[i + 1]
    <3> TAKE i \in 1..(Len(r) - 1)
    <3>1. i \in 1..Len(rows) /\ i + 1 \in 1..Len(rows)
      BY <1>1, <2>2
    <3> QED
      BY <1>1, <2>2, <3>1
  <2>5. Len(r) = HistoryLen /\ Len(r) = Len(rows) + 1 - 1
    BY <1>1, <1>2, <1>3, <2>2
  <2> QED
    BY <2>3, <2>4, <2>5
<1>4. CASE ~(Len(all) > HistoryLen)
  <2>1. r = all
    BY <1>4 DEF Recorded
  <2> HIDE DEF all
  <2>2. Len(r) = Len(rows) + 1 - 0 /\ r[Len(r)] = p
    BY <1>1, <2>1
  <2>3. \A i \in 1..(Len(r) - 1) : r[i] = rows[i + 0]
    BY <1>1, <2>1
  <2> QED
    BY <2>2, <2>3
<1> QED
  BY <1>3, <1>4

\* The times of points are numbers.
LEMMA TimeFacts ==
  ASSUME NEW s \in Seq(Points)
  PROVE  Len(s) \in Nat /\ \A i \in 1..Len(s) : s[i] \in Points /\ s[i].ts \in Nat
<1>1. Len(s) \in Nat /\ \A i \in 1..Len(s) : s[i] \in Points
  OBVIOUS
<1> QED
  BY <1>1, PointFacts

\* A history goes forward with the sample of now.
LEMMA RecordedForward ==
  ASSUME rows \in Rows, NEW t \in Nat, Ordered(rows, 0), UpTo(rows, t),
         NEW p \in Points, p.ts = t + 1, NEW r, r = Recorded(p)
  PROVE  Ordered(r, 0) /\ UpTo(r, t + 1) /\ r[Len(r)].ts = t + 1
<1>1. PICK m \in {0, 1} : /\ Len(r) = Len(rows) + 1 - m /\ r[Len(r)] = p
                          /\ \A i \in 1..(Len(r) - 1) : r[i] = rows[i + m]
  BY RecordedRows
<1>2. Len(rows) \in Nat /\ Len(rows) > 0 /\ \A i \in 1..Len(rows) : rows[i].ts \in Nat
  <2>1. rows \in Seq(Points) /\ rows # <<>>
    BY DEF Rows
  <2> QED
    BY <2>1, TimeFacts, EmptySeq
<1>3. \A i \in 1..(Len(r) - 1) : i + m \in 1..Len(rows)
  BY <1>1, <1>2
<1>4. \A i \in 1..(Len(r) - 1) : r[i].ts <= t /\ r[i].ts \in Nat
  BY <1>1, <1>2, <1>3 DEF UpTo
<1>5. ASSUME NEW i \in 1..Len(r), NEW j \in 1..Len(r), i < j PROVE r[i].ts <= r[j].ts + 0
  <2>1. i \in 1..(Len(r) - 1)
    BY <1>1, <1>2, <1>5
  <2>2. CASE j = Len(r)
    <3>1. r[j].ts = t + 1
      BY <1>1, <2>2
    <3>2. r[i].ts <= t /\ r[i].ts \in Nat
      BY <1>4, <2>1
    <3> QED
      BY <3>1, <3>2
  <2>3. CASE j # Len(r)
    <3>1. j \in 1..(Len(r) - 1) /\ i + m < j + m
      BY <1>1, <1>2, <1>5, <2>3
    <3>2. rows[i + m].ts <= rows[j + m].ts + 0
      BY <1>3, <2>1, <3>1 DEF Ordered
    <3> QED
      BY <1>1, <2>1, <3>1, <3>2
  <2> QED
    BY <2>2, <2>3
<1>6. ASSUME NEW i \in 1..Len(r) PROVE r[i].ts <= t + 1
  <2>1. CASE i = Len(r)
    BY <1>1, <2>1
  <2>2. CASE i # Len(r)
    <3>1. i \in 1..(Len(r) - 1)
      BY <1>1, <1>2, <2>2
    <3> QED
      BY <1>4, <3>1
  <2> QED
    BY <2>1, <2>2
<1>7. r[Len(r)].ts = t + 1
  BY <1>1
<1> QED
  BY <1>5, <1>6, <1>7 DEF Ordered, UpTo

\* A list with one point goes forward.
LEMMA OneForward ==
  ASSUME NEW p \in Points
  PROVE  Ordered(<<p>>, 0) /\ UpTo(<<p>>, p.ts) /\ Last(<<p>>) = p
<1>1. Len(<<p>>) = 1 /\ <<p>>[1] = p /\ p.ts \in Nat
  BY PointFacts
<1>2. \A i \in 1..Len(<<p>>) : i = 1
  BY <1>1
<1>3. \A i, j \in 1..Len(<<p>>) : ~(i < j)
  BY <1>2
<1>4. Last(<<p>>) = p
  BY <1>1 DEF Last
<1> QED
  BY <1>1, <1>2, <1>3, <1>4 DEF Ordered, UpTo

\* What is not later than t is not later than what comes after t.
LEMMA UpToLater ==
  ASSUME NEW s \in Seq(Points), NEW t \in Nat, NEW u \in Nat, UpTo(s, t), t <= u
  PROVE  UpTo(s, u)
  BY TimeFacts DEF UpTo

\* The histories keep going forward.
LEMMA HistoryTimesStep ==
  ASSUME MaxJumps = 0, SamplesInv, SamplesInv', AnswersInv, AnswersInv', HistoryTimes,
         [TrendNext]_trendVars
  PROVE  HistoryTimes' /\ clock' \in Nat /\ clock \in Nat /\ clock <= clock'
<1>1. jumps = 0 /\ clock \in Nat /\ clock' \in Nat /\ rows \in Rows /\ rows \in Seq(Points)
  BY TrendConstants DEF HistoryTimes, SamplesInv, Rows
<1>2. /\ jumps' = 0
      /\ \/ UNCHANGED <<clock, rows>>
         \/ \E v \in TrendValues :
              /\ clock < MaxTime /\ clock' = clock + 1
              /\ \/ rows' = Recorded([ts |-> clock + 1, v |-> v])
                 \/ ~up /\ rows' = <<[ts |-> clock + 1, v |-> v]>>
  BY <1>1, DaemonSteps
<1>3. clock <= clock' /\ Ordered(rows', 0) /\ UpTo(rows', clock') /\ Last(rows').ts = clock'
  <2>1. CASE UNCHANGED <<clock, rows>>
    BY <1>1, <2>1 DEF HistoryTimes, Forward
  <2>2. ASSUME NEW v \in TrendValues, clock < MaxTime, clock' = clock + 1,
               rows' = Recorded([ts |-> clock + 1, v |-> v])
        PROVE  Ordered(rows', 0) /\ UpTo(rows', clock') /\ Last(rows').ts = clock'
    <3>1. [ts |-> clock + 1, v |-> v] \in Points /\ [ts |-> clock + 1, v |-> v].ts = clock + 1
      BY <1>1, <2>2, TrendConstants DEF Points
    <3>2. Ordered(rows, 0) /\ UpTo(rows, clock)
      BY DEF HistoryTimes, Forward
    <3>3. Ordered(rows', 0) /\ UpTo(rows', clock + 1) /\ rows'[Len(rows')].ts = clock + 1
      BY <1>1, <2>2, <3>1, <3>2, RecordedForward
    <3> QED
      BY <2>2, <3>3 DEF Last
  <2>3. ASSUME NEW v \in TrendValues, clock < MaxTime, clock' = clock + 1,
               rows' = <<[ts |-> clock + 1, v |-> v]>>
        PROVE  Ordered(rows', 0) /\ UpTo(rows', clock') /\ Last(rows').ts = clock'
    <3> DEFINE p == [ts |-> clock + 1, v |-> v]
    <3>1. p \in Points /\ p.ts = clock + 1
      BY <1>1, <2>3, TrendConstants DEF Points
    <3>2. rows' = <<p>>
      BY <2>3
    <3> HIDE DEF p
    <3> QED
      BY <2>3, <3>1, <3>2, OneForward
  <2>4. CASE ~(UNCHANGED <<clock, rows>>)
    <3>1. PICK v \in TrendValues :
            /\ clock < MaxTime /\ clock' = clock + 1
            /\ \/ rows' = Recorded([ts |-> clock + 1, v |-> v])
               \/ ~up /\ rows' = <<[ts |-> clock + 1, v |-> v]>>
      BY <1>2, <2>4
    <3>2. clock <= clock'
      BY <1>1, <3>1
    <3>3. CASE rows' = Recorded([ts |-> clock + 1, v |-> v])
      BY <2>2, <3>1, <3>2, <3>3
    <3>4. CASE rows' = <<[ts |-> clock + 1, v |-> v]>>
      BY <2>3, <3>1, <3>2, <3>4
    <3> QED
      BY <3>1, <3>3, <3>4
  <2> QED
    BY <2>1, <2>4
<1>4. ASSUME NEW d \in trendCalls'
      PROVE  d.got = FALSE \/ (Ordered(d.rows, 0) /\ UpTo(d.rows, clock'))
  <2> SUFFICES ASSUME d.got # FALSE PROVE Ordered(d.rows, 0) /\ UpTo(d.rows, clock')
    OBVIOUS
  <2>1. d \in trendCalls \/ d.rows = rows
    BY CallSteps
  <2>2. Ordered(d.rows, 0) /\ UpTo(d.rows, clock)
    BY <2>1 DEF HistoryTimes, Forward
  <2>3. d.rows \in Seq(Points)
    BY DEF AnswersInv, Rows
  <2> QED
    BY <1>1, <1>3, <2>2, <2>3, UpToLater
<1> QED
  BY <1>1, <1>2, <1>3, <1>4 DEF HistoryTimes, Forward

\* What is not more than a second before something recent is recent, but for a second.
LEMMA OneSecond ==
  ASSUME NEW a \in Nat, NEW b \in Nat, NEW c \in Nat, NEW d \in Nat,
         a <= b + 1, a >= c - d
  PROVE  b >= c - d - 1
  OBVIOUS

\* A status that is not older than the view, but for a second, leaves one that goes
\* forward, but for a second, and is recent.
LEMMA RecentView ==
  ASSUME NEW c \in Seq(Points), NEW p \in Points, NEW f, NEW m, IsTaken(f, c, p, m),
         Ordered(c, 1), UpTo(c, p.ts + 1)
  PROVE  /\ Ordered(f, 1)
         /\ \A i \in 1..Len(f) : f[i].ts \in (p.ts - Span - 1)..(p.ts + 1)
<1>1. /\ f \in Seq(Points) /\ m \in 0..Len(c) /\ Len(f) = Len(c) + 1 - m
      /\ f[Len(f)] = p /\ \A i \in 1..(Len(f) - 1) : f[i] = c[m + i]
      /\ f[1].ts >= p.ts - Span
  BY DEF IsTaken
<1>2. Len(c) \in Nat /\ Len(f) \in Nat /\ Len(f) > 0 /\ p.ts \in Nat /\ Span \in Nat
  BY <1>1, TimeFacts, PointFacts, TrendConstants
<1>3. \A i \in 1..Len(f) : f[i].ts \in Nat
  BY <1>1, TimeFacts
<1>4. \A i \in 1..(Len(f) - 1) : m + i \in 1..Len(c)
  BY <1>1, <1>2
<1>5. \A i \in 1..Len(f) : f[i].ts <= p.ts + 1
  <2> TAKE i \in 1..Len(f)
  <2>1. CASE i = Len(f)
    BY <1>1, <1>2, <2>1
  <2>2. CASE i # Len(f)
    <3>1. i \in 1..(Len(f) - 1)
      BY <1>2, <2>2
    <3> QED
      BY <1>1, <1>4, <3>1 DEF UpTo
  <2> QED
    BY <2>1, <2>2
<1>6. ASSUME NEW i \in 1..Len(f), NEW j \in 1..Len(f), i < j PROVE f[i].ts <= f[j].ts + 1
  <2>1. CASE j = Len(f)
    BY <1>1, <1>5, <2>1
  <2>2. CASE j # Len(f)
    <3>1. i \in 1..(Len(f) - 1) /\ j \in 1..(Len(f) - 1) /\ m + i < m + j
      BY <1>1, <1>2, <1>6, <2>2
    <3>2. c[m + i].ts <= c[m + j].ts + 1
      BY <1>4, <3>1 DEF Ordered
    <3> QED
      BY <1>1, <3>1, <3>2
  <2> QED
    BY <2>1, <2>2
<1>7. ASSUME NEW i \in 1..Len(f) PROVE f[i].ts >= p.ts - Span - 1
  <2>1. 1 \in 1..Len(f) /\ f[1].ts \in Nat /\ f[i].ts \in Nat
    BY <1>2, <1>3
  <2>2. f[1].ts <= f[i].ts + 1
    <3>1. CASE i = 1
      BY <2>1, <3>1
    <3>2. CASE i # 1
      <4>1. 1 < i
        BY <1>2, <3>2
      <4> QED
        BY <1>6, <2>1, <4>1
    <3> QED
      BY <3>1, <3>2
  <2>3. f[1].ts >= p.ts - Span
    BY <1>1
  <2>4. p.ts \in Nat /\ Span \in Nat
    BY <1>2
  <2> QED
    BY <2>1, <2>2, <2>3, <2>4, OneSecond
<1> QED
  BY <1>2, <1>3, <1>5, <1>6, <1>7 DEF Ordered

\* No point is later than t, if none of the view was and the status is not.
LEMMA TakenUpTo ==
  ASSUME NEW c \in Seq(Points), NEW p \in Points, NEW f, NEW m, IsTaken(f, c, p, m),
         NEW t \in Nat, UpTo(c, t), p.ts <= t
  PROVE  UpTo(f, t)
<1>1. /\ m \in 0..Len(c) /\ Len(f) = Len(c) + 1 - m /\ Len(c) \in Nat
      /\ f[Len(f)] = p /\ \A i \in 1..(Len(f) - 1) : f[i] = c[m + i]
  BY TimeFacts DEF IsTaken
<1>2. ASSUME NEW i \in 1..Len(f) PROVE f[i].ts <= t
  <2>1. CASE i = Len(f)
    BY <1>1, <2>1
  <2>2. CASE i # Len(f)
    <3>1. i \in 1..(Len(f) - 1) /\ m + i \in 1..Len(c)
      BY <1>1, <2>2
    <3> QED
      BY <1>1, <3>1 DEF UpTo
  <2> QED
    BY <2>1, <2>2
<1> QED
  BY <1>2 DEF UpTo

\* The last of a list that goes forward is its latest.
LEMMA LastIsLatest ==
  ASSUME NEW s \in Seq(Points), s # <<>>, Ordered(s, 0)
  PROVE  UpTo(s, Last(s).ts)
<1>1. Len(s) \in Nat /\ Len(s) > 0 /\ \A i \in 1..Len(s) : s[i].ts \in Nat
  BY TimeFacts, EmptySeq
<1>2. Last(s) = s[Len(s)] /\ Len(s) \in 1..Len(s)
  BY <1>1 DEF Last
<1>3. ASSUME NEW i \in 1..Len(s) PROVE s[i].ts <= Last(s).ts
  <2>1. i = Len(s) \/ i < Len(s)
    BY <1>1
  <2>2. CASE i = Len(s)
    BY <1>1, <1>2, <2>2
  <2>3. CASE i < Len(s)
    <3>1. s[i].ts <= s[Len(s)].ts + 0
      BY <1>2, <2>3 DEF Ordered
    <3> QED
      BY <1>1, <1>2, <3>1
  <2> QED
    BY <2>1, <2>2, <2>3
<1> QED
  BY <1>3 DEF UpTo

\* What on_status makes of a view that goes forward: either it goes forward strictly, or
\* no point is later than the status.
LEMMA TakeRecent ==
  ASSUME NEW b \in Seq(Points), NEW p \in Points, NEW f, NEW t \in Nat,
         f = Trim(Append(Cleared(b, p.ts), p), p.ts),
         Ordered(b, 1), UpTo(b, t), p.ts <= t, Ordered(b, 0) \/ UpTo(b, p.ts + 1)
  PROVE  /\ Ordered(f, 1) /\ UpTo(f, t)
         /\ \A i \in 1..Len(f) : f[i].ts \in (p.ts - Span - 1)..(p.ts + 1)
<1> DEFINE c == Cleared(b, p.ts)
<1>1. PICK m : IsTaken(f, c, p, m)
  BY TakenView
<1>2. /\ c \in Seq(Points)
      /\ \/ c = b /\ ~(b # <<>> /\ p.ts < Last(b).ts - 1)
         \/ c = <<>> /\ b # <<>> /\ p.ts < Last(b).ts - 1
  BY ClearedFacts
<1> HIDE DEF c
<1>3. Ordered(c, 1) /\ UpTo(c, p.ts + 1) /\ UpTo(c, t)
  <2>1. CASE c = <<>>
    <3>1. Len(c) = 0
      BY <2>1
    <3>2. 1..Len(c) = {}
      BY <3>1
    <3> QED
      BY <3>2 DEF Ordered, UpTo
  <2>2. CASE c # <<>>
    <3>1. c = b /\ b # <<>> /\ ~(p.ts < Last(b).ts - 1)
      BY <1>2, <2>2
    <3>2. CASE UpTo(b, p.ts + 1)
      BY <3>1, <3>2
    <3>3. CASE Ordered(b, 0)
      <4>1. UpTo(b, Last(b).ts)
        BY <3>1, <3>3, LastIsLatest
      <4>2. Last(b).ts \in Nat /\ p.ts \in Nat
        <5>1. Last(b) = b[Len(b)] /\ Len(b) # 0 /\ Len(b) \in Nat
          BY <3>1, EmptySeq DEF Last
        <5>2. Len(b) \in 1..Len(b)
          BY <5>1
        <5> QED
          BY <5>1, <5>2, TimeFacts, PointFacts
      <4>3. Last(b).ts <= p.ts + 1 /\ p.ts + 1 \in Nat
        BY <3>1, <4>2
      <4>4. UpTo(b, p.ts + 1)
        BY <4>1, <4>2, <4>3, UpToLater
      <4> QED
        BY <3>1, <4>4
    <3> QED
      BY <3>2, <3>3
  <2> QED
    BY <2>1, <2>2
<1>4. UpTo(f, t)
  BY <1>1, <1>2, <1>3, TakenUpTo
<1> QED
  BY <1>1, <1>2, <1>3, <1>4, RecentView

\* What a history makes of a view that goes forward.
LEMMA SetRecent ==
  ASSUME NEW b \in Seq(Points), NEW h \in Rows, NEW t \in Nat, NEW n \in {0, 1},
         Ordered(h, 0), UpTo(h, t), Ordered(b, n), UpTo(b, t)
  PROVE  Ordered(SetHistory(b, h), n) /\ UpTo(SetHistory(b, h), t)
<1>1. SetHistory(b, h) = b \/ SetHistory(b, h) = Seeded(b, h)
  BY DEF SetHistory
<1>2. Ordered(Seeded(b, h), n)
  BY SeededOrdered
<1>3. UpTo(Seeded(b, h), t)
  <2> DEFINE f == Seeded(b, h)
  <2>1. IsSeeded(f, b, h)
    BY SeededFacts
  <2> HIDE DEF f
  <2>2. ASSUME NEW i \in 1..Len(f) PROVE f[i].ts <= t
    <3>1. (\E j \in 1..Len(h) : f[i] = h[j]) \/ (\E j \in 1..Len(b) : f[i] = b[j])
      BY <2>1 DEF IsSeeded
    <3> QED
      BY <3>1 DEF UpTo
  <2> QED
    BY <2>2 DEF UpTo, f
<1> QED
  BY <1>1, <1>2, <1>3

\* What TrendIsRecent says of a step.
RecentStep ==
  taken' # taken \/ status' # status =>
    /\ \A i, j \in 1..Len(fast') : i < j => fast'[i].ts <= fast'[j].ts + 1
    /\ \A i \in 1..Len(fast') : fast'[i].ts \in (status'.ts - Span - 1)..(status'.ts + 1)

\* A status of the stream is of now, and no point of the view is later.
LEMMA TimesOnStatus ==
  ASSUME SamplesInv, ViewsInv, HistoryTimes, ViewTimes, OnStatus
  PROVE  ViewTimes' /\ RecentStep
<1> DEFINE p == Last(rows)
<1>1. p \in Points /\ p.ts = clock /\ clock \in Nat /\ clock' = clock /\ fast \in Seq(Points)
  BY RowFacts, TrendConstants DEF SamplesInv, HistoryTimes, ViewsInv, OnStatus
<1>2. status' = p /\ fast' = Trim(Append(Cleared(fast, p.ts), p), p.ts)
  BY DEF OnStatus, TakeStatus
<1> HIDE DEF p
<1>3. Ordered(fast, 1) /\ UpTo(fast, clock)
  BY DEF ViewTimes
<1>4. UpTo(fast, p.ts + 1)
  <2>1. clock <= p.ts + 1 /\ p.ts + 1 \in Nat
    BY <1>1
  <2> QED
    BY <1>1, <1>3, <2>1, UpToLater
<1>5. p.ts <= clock
  BY <1>1
<1>6. /\ Ordered(fast', 1) /\ UpTo(fast', clock)
      /\ \A i \in 1..Len(fast') : fast'[i].ts \in (p.ts - Span - 1)..(p.ts + 1)
  BY <1>1, <1>2, <1>3, <1>4, <1>5, TakeRecent
<1>7. status' # NoPoint
  BY <1>1, <1>2, PointFacts
<1>8. RecentStep
  BY <1>2, <1>6 DEF RecentStep, Ordered
<1>9. ViewTimes'
  BY <1>1, <1>6, <1>7 DEF ViewTimes
<1> QED
  BY <1>8, <1>9

\* A history, of a refresh or of load_initial, that seeds the view.
LEMMA TimesSeeded ==
  ASSUME SamplesInv, AnswersInv, ViewsInv, HistoryTimes, ViewTimes,
         NEW c \in trendCalls, c.got # FALSE
  PROVE  /\ c.rows \in Rows /\ SetHistory(fast, c.rows) \in Seq(Points)
         /\ Ordered(SetHistory(fast, c.rows), 1) /\ UpTo(SetHistory(fast, c.rows), clock)
         /\ status = NoPoint => Ordered(SetHistory(fast, c.rows), 0)
         /\ Last(c.rows).ts <= clock
<1>1. c.rows \in Rows /\ c.rows \in Seq(Points) /\ c.rows # <<>>
  BY DEF AnswersInv, Rows
<1>2. Ordered(c.rows, 0) /\ UpTo(c.rows, clock)
  BY DEF HistoryTimes, Forward
<1>3. clock \in Nat /\ fast \in Seq(Points)
  BY TrendConstants DEF SamplesInv, ViewsInv
<1>4. Ordered(fast, 1) /\ UpTo(fast, clock) /\ (status = NoPoint => Ordered(fast, 0))
  BY DEF ViewTimes
<1>5. Ordered(SetHistory(fast, c.rows), 1) /\ UpTo(SetHistory(fast, c.rows), clock)
  <2>1. 1 \in {0, 1}
    OBVIOUS
  <2> QED
    BY <1>1, <1>2, <1>3, <1>4, <2>1, SetRecent
<1>6. status = NoPoint => Ordered(SetHistory(fast, c.rows), 0)
  <2>1. 0 \in {0, 1}
    OBVIOUS
  <2> QED
    BY <1>1, <1>2, <1>3, <1>4, <2>1, SetRecent
<1>7. Last(c.rows).ts <= clock
  <2>1. Last(c.rows) = c.rows[Len(c.rows)] /\ Len(c.rows) # 0 /\ Len(c.rows) \in Nat
    BY <1>1, EmptySeq DEF Last
  <2>2. Len(c.rows) \in 1..Len(c.rows)
    BY <2>1
  <2> QED
    BY <1>2, <2>1, <2>2 DEF UpTo
<1>8. SetHistory(fast, c.rows) \in Seq(Points)
  BY <1>1, <1>3, SetHistoryFacts
<1> QED
  BY <1>1, <1>5, <1>6, <1>7, <1>8

\* load_initial: its status may be older than histories that overtook it.
LEMMA TimesInitial ==
  ASSUME SamplesInv, AnswersInv, ViewsInv, HistoryTimes, ViewTimes,
         NEW c \in trendCalls, GotInitial(c)
  PROVE  ViewTimes' /\ RecentStep
<1> DEFINE buf == SetHistory(fast, c.rows)
           p == Last(c.rows)
<1>1. c.got # FALSE /\ clock' = clock /\ clock \in Nat
  BY TrendConstants DEF GotInitial, SamplesInv, trendDaemon
<1>2. /\ c.rows \in Rows /\ buf \in Seq(Points)
      /\ Ordered(buf, 1) /\ UpTo(buf, clock) /\ (status = NoPoint => Ordered(buf, 0))
      /\ p.ts <= clock
  BY <1>1, TimesSeeded
<1>3. p \in Points
  BY <1>2, RowFacts
<1>4. CASE status = NoPoint
  <2>1. status' = p /\ fast' = Trim(Append(Cleared(buf, p.ts), p), p.ts)
    BY <1>4 DEF GotInitial, TakeStatus
  <2> HIDE DEF buf, p
  <2>2. /\ Ordered(fast', 1) /\ UpTo(fast', clock)
        /\ \A i \in 1..Len(fast') : fast'[i].ts \in (p.ts - Span - 1)..(p.ts + 1)
    BY <1>1, <1>2, <1>3, <1>4, <2>1, TakeRecent
  <2>3. status' # NoPoint
    BY <1>3, <2>1, PointFacts
  <2>4. RecentStep
    BY <2>1, <2>2 DEF RecentStep, Ordered
  <2>5. ViewTimes'
    BY <1>1, <2>2, <2>3 DEF ViewTimes
  <2> QED
    BY <2>4, <2>5
<1>5. CASE status # NoPoint
  <2>1. fast' = buf /\ UNCHANGED <<status, taken>>
    BY <1>5 DEF GotInitial
  <2> HIDE DEF buf
  <2>2. ViewTimes'
    BY <1>1, <1>2, <1>5, <2>1 DEF ViewTimes
  <2> QED
    BY <2>1, <2>2 DEF RecentStep
<1> QED
  BY <1>4, <1>5

\* The view keeps going forward, and is recent when a status has been taken.
LEMMA ViewTimesStep ==
  ASSUME SamplesInv, AnswersInv, ViewsInv, HistoryTimes, ViewTimes,
         clock' \in Nat, clock \in Nat, clock <= clock', [TrendNext]_trendVars
  PROVE  ViewTimes' /\ RecentStep
<1>1. CASE OnStatus
  BY <1>1, TimesOnStatus
<1>2. CASE \E c \in trendCalls : GotHistory(c)
  <2> PICK c \in trendCalls : GotHistory(c)
    BY <1>2
  <2> DEFINE buf == SetHistory(fast, c.rows)
  <2>1. c.got # FALSE /\ fast' = buf /\ UNCHANGED <<clock, status, taken>>
    BY DEF GotHistory, trendDaemon
  <2>2. Ordered(buf, 1) /\ UpTo(buf, clock) /\ (status = NoPoint => Ordered(buf, 0))
    BY <2>1, TimesSeeded
  <2> HIDE DEF buf
  <2> QED
    BY <2>1, <2>2 DEF ViewTimes, RecentStep
<1>3. CASE \E c \in trendCalls : GotInitial(c)
  BY <1>3, TimesInitial
<1>4. CASE /\ ~OnStatus
           /\ ~(\E c \in trendCalls : GotHistory(c)) /\ ~(\E c \in trendCalls : GotInitial(c))
  <2>1. UNCHANGED <<fast, slow, status, taken>>
    BY <1>4, OtherSteps
  <2>2. UpTo(fast, clock')
    BY UpToLater DEF ViewsInv, ViewTimes
  <2> QED
    BY <2>1, <2>2 DEF ViewTimes, RecentStep
<1> QED
  BY <1>1, <1>2, <1>3, <1>4

\* A daemon that is not restarted keeps running.
LEMMA RunningSteps ==
  ASSUME MaxRestarts = 0, restarts = 0, up = TRUE, [TrendNext]_trendVars
  PROVE  restarts' = 0 /\ up' = TRUE
<1> USE DEF trendDaemon, trend, screen, trendVars
<1>1. CASE \E v \in TrendValues : Sample(v)
  BY <1>1 DEF Sample
<1>2. CASE \E v \in TrendValues : Up(v)
  BY <1>2 DEF Up
<1>3. CASE \E t \in 1..MaxTime : ClockBack(t)
  BY <1>3 DEF ClockBack
<1>4. CASE Down
  BY <1>4 DEF Down
<1>5. CASE OnStatus
  BY <1>5 DEF OnStatus
<1>6. CASE ConnChanged
  BY <1>6 DEF ConnChanged
<1>7. CASE Refresh
  BY <1>7 DEF Refresh
<1>8. CASE \E c \in trendCalls : TrendFetch(c)
  BY <1>8 DEF TrendFetch
<1>9. CASE \E c \in trendCalls : GotHistory(c)
  BY <1>9 DEF GotHistory
<1>10. CASE \E c \in trendCalls : GotInitial(c)
  BY <1>10 DEF GotInitial
<1>11. CASE Pause
  BY <1>11 DEF Pause
<1>12. CASE ResetPeaks
  BY <1>12 DEF ResetPeaks
<1>13. CASE Tab
  BY <1>13 DEF Tab
<1>14. CASE UNCHANGED trendVars
  BY <1>14
<1> QED
  BY <1>1, <1>2, <1>3, <1>4, <1>5, <1>6, <1>7, <1>8, <1>9, <1>10, <1>11, <1>12, <1>13, <1>14
  DEF TrendNext

\* A history with the sample of now has no gap.
LEMMA RecordedGapless ==
  ASSUME rows \in Rows, NEW t \in Nat, Gapless(rows), Last(rows).ts = t,
         NEW p \in Points, p.ts = t + 1, NEW r, r = Recorded(p)
  PROVE  Gapless(r)
<1>1. PICK m \in {0, 1} : /\ Len(r) = Len(rows) + 1 - m /\ r[Len(r)] = p
                          /\ \A i \in 1..(Len(r) - 1) : r[i] = rows[i + m]
                          /\ m = 1 => Len(r) = HistoryLen
  BY RecordedRows
<1> DEFINE L == Len(rows)
<1>2. /\ L \in Nat /\ L > 0 /\ (\A i \in 1..L : rows[i].ts \in Nat)
      /\ Last(rows) = rows[L] /\ HistoryLen \in Nat
  <2>1. rows \in Seq(Points) /\ rows # <<>> /\ Last(rows) = rows[L]
    BY DEF Rows, Last
  <2> QED
    BY <2>1, TimeFacts, EmptySeq, TrendConstants
<1>3. Len(r) \in Nat /\ Len(r) <= HistoryLen
  <2>1. r \in Rows
    BY RecordedFacts
  <2> QED
    BY <2>1 DEF Rows
<1>4. Len(r) = L + 1 - m
  BY <1>1
<1> HIDE DEF L
<1>5. ASSUME NEW i \in 1..L PROVE rows[i].ts = t + i - L
  <2>1. L \in 1..L
    BY <1>2
  <2>2. rows[L].ts = rows[i].ts + L - i
    BY <2>1 DEF Gapless, L
  <2>3. rows[L].ts = t /\ rows[i].ts \in Nat
    BY <1>2
  <2> QED
    BY <1>2, <2>2, <2>3
<1>6. ASSUME NEW i \in 1..Len(r) PROVE r[i].ts = t + 1 + i - Len(r)
  <2>1. CASE i = Len(r)
    BY <1>1, <1>3, <2>1
  <2>2. CASE i # Len(r)
    <3>1. i \in 1..(Len(r) - 1) /\ i + m \in 1..L
      BY <1>2, <1>3, <1>4, <2>2
    <3>2. r[i].ts = t + (i + m) - L
      BY <1>1, <1>5, <3>1
    <3> QED
      BY <1>2, <1>3, <1>4, <3>2
  <2> QED
    BY <2>1, <2>2
<1>7. ASSUME NEW i \in 1..Len(r), NEW j \in 1..Len(r) PROVE r[j].ts = r[i].ts + j - i
  <2>1. r[i].ts = t + 1 + i - Len(r) /\ r[j].ts = t + 1 + j - Len(r)
    BY <1>6
  <2> QED
    BY <1>3, <2>1
<1>8. Len(r) = HistoryLen \/ r[1].ts = 1
  <2>1. CASE m = 1
    BY <1>1, <2>1
  <2>2. CASE m = 0
    <3>1. L # HistoryLen
      BY <1>2, <1>3, <1>4, <2>2
    <3>2. rows[1].ts = 1
      BY <3>1 DEF Gapless, L
    <3>3. 1 \in 1..(Len(r) - 1) /\ 1 + m = 1
      BY <1>2, <1>4, <2>2
    <3> QED
      BY <1>1, <3>2, <3>3
  <2> QED
    BY <2>1, <2>2
<1> QED
  BY <1>7, <1>8 DEF Gapless

\* No history gets a gap while the daemon keeps running.
LEMMA GaplessStep ==
  ASSUME MaxJumps = 0, MaxRestarts = 0, SamplesInv, AnswersInv, HistoryTimes, GaplessInv,
         [TrendNext]_trendVars
  PROVE  GaplessInv'
<1>1. /\ restarts = 0 /\ up = TRUE /\ Gapless(rows) /\ jumps = 0
      /\ clock \in Nat /\ rows \in Rows /\ Last(rows).ts = clock
  BY TrendConstants DEF GaplessInv, HistoryTimes, SamplesInv
<1>2. restarts' = 0 /\ up' = TRUE
  BY <1>1, RunningSteps
<1>3. Gapless(rows')
  <2>1. CASE UNCHANGED <<clock, rows>>
    BY <1>1, <2>1
  <2>2. CASE ~(UNCHANGED <<clock, rows>>)
    <3>1. PICK v \in TrendValues :
            /\ clock < MaxTime /\ clock' = clock + 1
            /\ \/ rows' = Recorded([ts |-> clock + 1, v |-> v])
               \/ ~up /\ rows' = <<[ts |-> clock + 1, v |-> v]>>
      BY <1>1, <2>2, DaemonSteps
    <3>2. rows' = Recorded([ts |-> clock + 1, v |-> v])
      BY <1>1, <3>1
    <3>3. [ts |-> clock + 1, v |-> v] \in Points /\ [ts |-> clock + 1, v |-> v].ts = clock + 1
      BY <1>1, <3>1, TrendConstants DEF Points
    <3> QED
      BY <1>1, <3>2, <3>3, RecordedGapless
  <2> QED
    BY <2>1, <2>2
<1>4. ASSUME NEW d \in trendCalls' PROVE d.got = FALSE \/ Gapless(d.rows)
  <2>1. d \in trendCalls \/ d.got = FALSE \/ d.rows = rows
    BY CallSteps
  <2> QED
    BY <1>1, <2>1 DEF GaplessInv
<1> QED
  BY <1>2, <1>3, <1>4 DEF GaplessInv, Gapless

\* The last of a sequence.
LEMMA LastFacts ==
  ASSUME NEW s \in Seq(Points), s # <<>>
  PROVE  /\ Last(s) = s[Len(s)] /\ Len(s) \in 1..Len(s) /\ Len(s) \in Nat
         /\ Last(s) \in Points /\ Last(s).ts \in Nat
<1>1. Last(s) = s[Len(s)] /\ Len(s) # 0 /\ Len(s) \in Nat
  BY EmptySeq DEF Last
<1>2. Len(s) \in 1..Len(s)
  BY <1>1
<1>3. s[Len(s)] \in Points
  BY <1>2
<1> QED
  BY <1>1, <1>2, <1>3, PointFacts

\* Every time of the last Span is in a history without a gap.
LEMMA GaplessHas ==
  ASSUME NEW h \in Rows, Gapless(h), NEW t \in Nat, t > 0, t <= Last(h).ts, t > Last(h).ts - Span
  PROVE  \E j \in 1..Len(h) : h[j].ts = t
<1>1. /\ Last(h) = h[Len(h)] /\ Len(h) \in 1..Len(h) /\ Len(h) \in Nat /\ Last(h).ts \in Nat
      /\ h[1].ts \in Nat /\ HistoryLen \in Nat /\ Span \in Nat /\ Span <= HistoryLen
  <2>1. h \in Seq(Points) /\ h # <<>>
    BY DEF Rows
  <2>2. Last(h) = h[Len(h)] /\ Len(h) \in 1..Len(h) /\ Len(h) \in Nat /\ Last(h).ts \in Nat
    BY <2>1, LastFacts
  <2>3. 1 \in 1..Len(h)
    BY <2>2
  <2> QED
    BY <2>1, <2>2, <2>3, TimeFacts, TrendConstants
<1> DEFINE e == Last(h).ts
           L == Len(h)
           j == L - (e - t)
<1>2. 1 \in 1..L
  BY <1>1
<1>3. e = h[1].ts + L - 1
  <2>1. h[L].ts = h[1].ts + L - 1
    BY <1>1, <1>2 DEF Gapless
  <2> HIDE DEF L
  <2> QED
    BY <1>1, <2>1 DEF L
<1>4. L = HistoryLen \/ h[1].ts = 1
  BY DEF Gapless
<1>5. j \in 1..L
  BY <1>1, <1>3, <1>4
<1>6. h[j].ts = h[1].ts + j - 1
  BY <1>2, <1>5 DEF Gapless
<1>7. h[j].ts = t
  <2>1. j = L - (e - t) /\ L \in Nat /\ e \in Nat /\ h[1].ts \in Nat
    BY <1>1
  <2> HIDE DEF j, L, e
  <2> QED
    BY <1>3, <1>6, <2>1
<1> QED
  BY <1>5, <1>7

\* What on_status makes of the view keeps every point that is not too old.
LEMMA TakenKeeps ==
  ASSUME NEW c \in Seq(Points), NEW p \in Points, NEW f, NEW m, IsTaken(f, c, p, m),
         NEW i \in 1..Len(c), c[i].ts > p.ts - Span
  PROVE  \E j \in 1..Len(f) : f[j].ts = c[i].ts
<1>1. /\ m \in 0..Len(c) /\ Len(f) = Len(c) + 1 - m /\ Len(c) \in Nat
      /\ (\A j \in 1..(Len(f) - 1) : f[j] = c[m + j])
      /\ \A j \in 1..m : c[j].ts < p.ts - Span
  BY TimeFacts DEF IsTaken
<1>2. c[i].ts \in Nat /\ p.ts \in Nat /\ Span \in Nat
  BY TimeFacts, PointFacts, TrendConstants
<1>3. i \notin 1..m
  BY <1>1, <1>2
<1>4. i - m \in 1..(Len(f) - 1) /\ i - m \in 1..Len(f) /\ m + (i - m) = i
  BY <1>1, <1>3
<1>5. f[i - m] = c[i]
  BY <1>1, <1>4
<1> QED
  BY <1>4, <1>5

\* A status of the stream: the statuses of the last Span stay, and it is one of them.
LEMMA CompleteOnStatus ==
  ASSUME SamplesInv, ViewsInv, HistoryTimes, ViewTimes, TakenInv, TrendComplete, OnStatus
  PROVE  TakenInv' /\ TrendComplete'
<1> DEFINE p == Last(rows)
           c == Cleared(fast, p.ts)
<1>1. p \in Points /\ p.ts = clock /\ clock \in Nat /\ clock' = clock /\ fast \in Seq(Points)
  BY RowFacts, TrendConstants DEF SamplesInv, HistoryTimes, ViewsInv, OnStatus
<1>2. status' = p /\ fast' = Trim(Append(c, p), p.ts) /\ taken' = taken \cup {p.ts}
  BY DEF OnStatus, TakeStatus
<1> HIDE DEF p
<1>3. /\ fast' \in Seq(Points) /\ fast' # <<>> /\ fast'[Len(fast')] = p
      /\ \E m : IsTaken(fast', c, p, m)
  BY <1>1, <1>2, TakenView
<1>4. PICK m : IsTaken(fast', c, p, m)
  BY <1>3
<1>5. Last(fast') = p /\ Len(fast') \in 1..Len(fast')
  BY <1>3, LastFacts
<1>6. c = fast
  <2>1. fast # <<>> => Last(fast).ts \in Nat /\ Last(fast).ts <= clock
    <3> SUFFICES ASSUME fast # <<>> PROVE Last(fast).ts \in Nat /\ Last(fast).ts <= clock
      OBVIOUS
    <3>1. Last(fast) = fast[Len(fast)] /\ Len(fast) \in 1..Len(fast) /\ Last(fast).ts \in Nat
      BY <1>1, LastFacts
    <3> QED
      BY <3>1 DEF ViewTimes, UpTo
  <2>2. ~(fast # <<>> /\ p.ts < Last(fast).ts - 1)
    BY <1>1, <2>1
  <2> QED
    BY <2>2 DEF Cleared
<1> HIDE DEF c
<1>7. TakenInv'
  <2>1. status' # NoPoint
    BY <1>1, <1>2, PointFacts
  <2>2. \A t \in taken' : t \in Nat /\ t <= clock
    BY <1>1, <1>2 DEF TakenInv
  <2> QED
    BY <1>1, <1>3, <2>1, <2>2 DEF TakenInv
<1>8. ASSUME NEW t \in taken', t > p.ts - Span PROVE \E i \in 1..Len(fast') : fast'[i].ts = t
  <2>1. CASE t = p.ts
    BY <1>3, <1>5, <2>1
  <2>2. CASE t # p.ts
    <3>1. t \in taken /\ t \in Nat /\ t <= clock /\ fast # <<>>
      BY <1>2, <2>2 DEF TakenInv
    <3>2. Last(fast) = fast[Len(fast)] /\ Len(fast) \in 1..Len(fast) /\ Last(fast).ts \in Nat
      BY <1>1, <3>1, LastFacts
    <3>3. Last(fast).ts <= clock
      BY <3>2 DEF ViewTimes, UpTo
    <3>4. t > Last(fast).ts - Span
      BY <1>1, <1>8, <3>1, <3>2, <3>3, TrendConstants
    <3>5. PICK i \in 1..Len(fast) : fast[i].ts = t
      BY <3>1, <3>4 DEF TrendComplete
    <3>6. \E j \in 1..Len(fast') : fast'[j].ts = fast[i].ts
      BY <1>1, <1>4, <1>6, <1>8, <3>5, TakenKeeps
    <3> QED
      BY <3>5, <3>6
  <2> QED
    BY <2>1, <2>2
<1> QED
  BY <1>5, <1>7, <1>8 DEF TrendComplete

\* No status of the last Span is missing in f.
HasStatuses(f) ==
  /\ taken # {} => f # <<>>
  /\ \A t \in taken : t > Last(f).ts - Span => \E i \in 1..Len(f) : f[i].ts = t

\* A history loses no status: those it is too old for are in the view, and the others
\* are rows of it.
LEMMA CompleteSeeded ==
  ASSUME SamplesInv, AnswersInv, ViewsInv, GaplessInv, TakenInv, StatusInv, TrendComplete,
         NEW c \in trendCalls, c.got # FALSE
  PROVE  HasStatuses(SetHistory(fast, c.rows))
<1> DEFINE h == c.rows
           f == SetHistory(fast, h)
<1>0. SUFFICES HasStatuses(f)
  OBVIOUS
<1>1. h \in Rows /\ Gapless(h) /\ fast \in Seq(Points)
  BY DEF AnswersInv, GaplessInv, ViewsInv
<1>2. CASE f = fast
  BY <1>2 DEF TakenInv, TrendComplete, HasStatuses
<1>3. CASE f # fast
  <2>1. IsSeeded(f, fast, h)
    BY <1>1, <1>3, SetHistoryFacts
  <2> HIDE DEF f, h
  <2>2. f \in Seq(Points) /\ f # <<>>
    BY <2>1 DEF IsSeeded
  <2>3. ASSUME NEW t \in taken, t > Last(f).ts - Span PROVE \E i \in 1..Len(f) : f[i].ts = t
    <3>1. Last(f) = f[Len(f)] /\ Last(f).ts \in Nat
      BY <2>2, LastFacts
    <3>2. t \in Nat /\ t > 0 /\ fast # <<>>
      BY TrendConstants DEF TakenInv, StatusInv
    <3>3. Last(fast).ts \in Nat /\ Last(h).ts \in Nat /\ Span \in Nat
      <4>1. h \in Seq(Points) /\ h # <<>>
        BY <1>1 DEF Rows
      <4> QED
        BY <1>1, <3>2, <4>1, LastFacts, TrendConstants
    <3>4. Last(f).ts >= Last(h).ts /\ Last(f).ts >= Last(fast).ts
      BY <2>1, <3>1, <3>2 DEF IsSeeded
    <3>5. CASE t <= Last(h).ts
      <4>1. t > Last(h).ts - Span
        BY <2>3, <3>1, <3>2, <3>3, <3>4
      <4>2. PICK j \in 1..Len(h) : h[j].ts = t
        BY <1>1, <3>2, <3>5, <4>1, GaplessHas
      <4>3. PICK i \in 1..Len(f) : f[i] = h[j]
        BY <2>1, <4>1, <4>2 DEF IsSeeded
      <4> QED
        BY <4>2, <4>3
    <3>6. CASE t > Last(h).ts
      <4>1. t > Last(fast).ts - Span
        BY <2>3, <3>1, <3>2, <3>3, <3>4
      <4>2. PICK j \in 1..Len(fast) : fast[j].ts = t
        BY <4>1 DEF TrendComplete
      <4>3. PICK i \in 1..Len(f) : f[i] = fast[j]
        BY <2>1, <3>6, <4>2 DEF IsSeeded
      <4> QED
        BY <4>2, <4>3
    <3> QED
      BY <3>2, <3>3, <3>5, <3>6
  <2> QED
    BY <2>2, <2>3 DEF HasStatuses
<1> QED
  BY <1>2, <1>3

\* load_initial: its status is the first, or its history loses none.
LEMMA CompleteInitial ==
  ASSUME SamplesInv, AnswersInv, ViewsInv, HistoryTimes, ViewTimes, GaplessInv, TakenInv,
         StatusInv, TrendComplete, NEW c \in trendCalls, GotInitial(c)
  PROVE  TakenInv' /\ TrendComplete'
<1> DEFINE buf == SetHistory(fast, c.rows)
           p == Last(c.rows)
<1>1. c.got # FALSE /\ clock' = clock /\ clock \in Nat
  BY TrendConstants DEF GotInitial, SamplesInv, trendDaemon
<1>2. c.rows \in Rows /\ buf \in Seq(Points) /\ p.ts <= clock
  BY <1>1, TimesSeeded
<1>3. p \in Points /\ p.ts \in Nat
  BY <1>2, RowFacts, PointFacts
<1>4. CASE status = NoPoint
  <2>1. /\ status' = p /\ fast' = Trim(Append(Cleared(buf, p.ts), p), p.ts)
        /\ taken' = taken \cup {p.ts}
    BY <1>4 DEF GotInitial, TakeStatus
  <2>2. taken' = {p.ts}
    BY <1>4, <2>1 DEF TakenInv
  <2> HIDE DEF buf, p
  <2>3. fast' \in Seq(Points) /\ fast' # <<>> /\ fast'[Len(fast')] = p
    BY <1>2, <1>3, <2>1, TakenView
  <2>4. Len(fast') \in 1..Len(fast')
    BY <2>3, LastFacts
  <2>5. status' # NoPoint
    BY <1>3, <2>1, PointFacts
  <2>6. TakenInv'
    BY <1>1, <1>2, <1>3, <2>2, <2>3, <2>5 DEF TakenInv
  <2>7. TrendComplete'
    BY <2>2, <2>3, <2>4 DEF TrendComplete
  <2> QED
    BY <2>6, <2>7
<1>5. CASE status # NoPoint
  <2>1. fast' = buf /\ UNCHANGED <<status, taken>>
    BY <1>5 DEF GotInitial
  <2>2. HasStatuses(buf)
    BY <1>1, CompleteSeeded
  <2> HIDE DEF buf
  <2>3. TakenInv'
    BY <1>1, <1>5, <2>1, <2>2 DEF TakenInv, HasStatuses
  <2>4. TrendComplete'
    BY <2>1, <2>2 DEF TrendComplete, HasStatuses
  <2> QED
    BY <2>3, <2>4
<1> QED
  BY <1>4, <1>5

\* No step loses a status of the last Span.
LEMMA CompleteStep ==
  ASSUME SamplesInv, AnswersInv, ViewsInv, HistoryTimes, ViewTimes, GaplessInv, TakenInv,
         StatusInv, TrendComplete, clock' \in Nat, clock \in Nat, clock <= clock',
         [TrendNext]_trendVars
  PROVE  TakenInv' /\ TrendComplete'
<1>1. CASE OnStatus
  BY <1>1, CompleteOnStatus
<1>2. CASE \E c \in trendCalls : GotHistory(c)
  <2> PICK c \in trendCalls : GotHistory(c)
    BY <1>2
  <2> DEFINE buf == SetHistory(fast, c.rows)
  <2>1. c.got # FALSE /\ fast' = buf /\ UNCHANGED <<clock, status, taken>>
    BY DEF GotHistory, trendDaemon
  <2>2. HasStatuses(buf)
    BY <2>1, CompleteSeeded
  <2> HIDE DEF buf
  <2>3. TakenInv'
    BY <2>1, <2>2 DEF TakenInv, HasStatuses
  <2>4. TrendComplete'
    BY <2>1, <2>2 DEF TrendComplete, HasStatuses
  <2> QED
    BY <2>3, <2>4
<1>3. CASE \E c \in trendCalls : GotInitial(c)
  BY <1>3, CompleteInitial
<1>4. CASE /\ ~OnStatus
           /\ ~(\E c \in trendCalls : GotHistory(c)) /\ ~(\E c \in trendCalls : GotInitial(c))
  <2>1. UNCHANGED <<fast, slow, status, taken>>
    BY <1>4, OtherSteps
  <2>2. \A t \in taken : t <= clock'
    BY DEF TakenInv
  <2>3. TakenInv'
    BY <2>1, <2>2 DEF TakenInv
  <2>4. TrendComplete'
    BY <2>1 DEF TrendComplete
  <2> QED
    BY <2>3, <2>4
<1> QED
  BY <1>1, <1>2, <1>3, <1>4

\* What holds of the page whatever the daemon and its clock do.
PageTrendInv ==
  /\ SamplesInv /\ AnswersInv /\ ViewsInv /\ FlagsInv /\ StatusInv
  /\ PeakInv /\ ShownIsLatest

\* on_mount.
LEMMA TrendBegins ==
  ASSUME TrendInit
  PROVE  /\ PageTrendInv /\ HistoryTimes /\ ViewTimes /\ GaplessInv /\ TakenInv /\ TrendComplete
<1>1. PICK v \in TrendValues : rows = <<[ts |-> 1, v |-> v]>>
  BY DEF TrendInit
<1> DEFINE p == [ts |-> 1, v |-> v]
<1>2. p \in Points /\ p.ts = 1 /\ rows = <<p>>
  BY <1>1, TrendConstants DEF Points
<1> HIDE DEF p
<1>3. SamplesInv
  BY <1>2, OneRow, TrendConstants DEF TrendInit, SamplesInv
<1>4. AnswersInv
  BY AskedFacts DEF TrendInit, AnswersInv
<1>5. ViewsInv /\ FlagsInv /\ StatusInv /\ PeakInv /\ ShownIsLatest
  <2>1. <<>> \in Seq(Points)
    OBVIOUS
  <2> QED
    BY <2>1 DEF TrendInit, ViewsInv, FlagsInv, StatusInv, PeakInv, ShownIsLatest, NoPoint
<1>6. \A c \in trendCalls : c.got = FALSE
  BY DEF TrendInit, Asked
<1>7. HistoryTimes
  <2>1. Ordered(<<p>>, 0) /\ UpTo(<<p>>, 1) /\ Last(<<p>>).ts = 1
    BY <1>2, OneForward
  <2> QED
    BY <1>2, <1>6, <2>1 DEF TrendInit, HistoryTimes, Forward
<1>8. ViewTimes /\ TakenInv /\ TrendComplete
  <2>1. Len(fast) = 0 /\ taken = {}
    BY DEF TrendInit
  <2>2. 1..Len(fast) = {}
    BY <2>1
  <2> QED
    BY <2>1, <2>2 DEF ViewTimes, TakenInv, TrendComplete, Ordered, UpTo
<1>9. GaplessInv
  <2>1. Len(rows) = 1 /\ rows[1] = p /\ p.ts \in Nat
    BY <1>2
  <2>2. \A i \in 1..Len(rows) : i = 1
    BY <2>1
  <2>3. \A i, j \in 1..Len(rows) : rows[j].ts = rows[i].ts + j - i
    BY <2>1, <2>2
  <2> QED
    BY <1>2, <1>6, <2>1, <2>3 DEF TrendInit, GaplessInv, Gapless
<1> QED
  BY <1>3, <1>4, <1>5, <1>7, <1>8, <1>9 DEF PageTrendInv

\* Whatever the daemon and its clock do, the page is left in order.
LEMMA PageTrendStep ==
  ASSUME PageTrendInv, [TrendNext]_trendVars
  PROVE  PageTrendInv'
  BY SamplesStep, AnswersStep, ViewsStep, FlagsStep, StatusStep, PeakStep, ShownStep
  DEF PageTrendInv, FlagsInv

\* What that says of the types, the peaks and the tab.
LEMMA PageTrendSays ==
  ASSUME PageTrendInv
  PROVE  TrendTypeOK /\ PeaksExact /\ ShownIsLatest
<1>1. PeaksExact
  <2> SUFFICES ASSUME sinceReset # {} PROVE peak.v = Max(sinceReset)
    BY DEF PageTrendInv, PeakInv, PeaksExact
  <2>1. \A x \in sinceReset : (\A y \in sinceReset : x >= y) => x = peak.v
    BY DEF PageTrendInv, PeakInv
  <2>2. \A y \in sinceReset : peak.v >= y
    BY DEF PageTrendInv, PeakInv
  <2> QED
    BY <2>1, <2>2 DEF PageTrendInv, PeakInv, Max
<1>2. Len(rows) \in 1..HistoryLen /\ clock \in 1..MaxTime
  <2>1. rows \in Seq(Points) /\ rows # <<>> /\ Len(rows) <= HistoryLen /\ clock \in 1..MaxTime
    BY DEF PageTrendInv, SamplesInv, Rows
  <2> QED
    BY <2>1, EmptySeq, TrendConstants
<1>3. Len(slow) <= HistoryLen
  <2>1. CASE slow = <<>>
    <3>1. Len(slow) = 0
      BY <2>1
    <3> QED
      BY <3>1, TrendConstants
  <2>2. CASE slow \in Rows
    BY <2>2 DEF Rows
  <2> QED
    BY <2>1, <2>2 DEF PageTrendInv, ViewsInv
<1>4. \A i \in 1..Len(fast) : fast[i] \in Points
  BY DEF PageTrendInv, ViewsInv
<1>5. {up, fresh, link, trendConnected, trendKnown, paused} \subseteq BOOLEAN
  BY DEF PageTrendInv, FlagsInv
<1>6. /\ {status, peak, trendShown} \subseteq Points \cup {NoPoint}
      /\ taken \subseteq 1..MaxTime /\ sinceReset \subseteq TrendValues
  BY DEF PageTrendInv, StatusInv
<1> QED
  BY <1>1, <1>2, <1>3, <1>4, <1>5, <1>6 DEF PageTrendInv, TrendTypeOK

\* For any history, values, restarts and keys, with a clock that may be set back: the
\* views hold points of the daemon, no more rows than it keeps, the session peak is the
\* highest value since it was reset, and a tab that is not paused shows the last status
\* (tui/app.py, on_status, got_initial, set_history, action_pause and action_reset_peaks).
THEOREM PeaksAreExact == TrendSpec => [](TrendTypeOK /\ PeaksExact /\ ShownIsLatest)
<1>1. TrendInit => PageTrendInv
  BY TrendBegins
<1>2. PageTrendInv /\ [TrendNext]_trendVars => PageTrendInv'
  BY PageTrendStep
<1>3. PageTrendInv => TrendTypeOK /\ PeaksExact /\ ShownIsLatest
  BY PageTrendSays
<1> QED
  BY <1>1, <1>2, <1>3, PTL DEF TrendSpec

\* With a clock that is not set back, for any histories, late or out of order, and
\* restarts of the daemon: after a status has been taken the 60 s view goes forward,
\* but for the second that on_status tolerates, and holds nothing further than Span and
\* that second from the status (tui/app.py, on_status, got_initial and set_history).
THEOREM ViewIsRecent ==
  ASSUME MaxJumps = 0
  PROVE  TrendSpec => TrendIsRecent
<1> DEFINE Inv == PageTrendInv /\ HistoryTimes /\ ViewTimes
<1>1. TrendInit => Inv
  BY TrendBegins
<1>2. Inv /\ [TrendNext]_trendVars => Inv' /\ RecentStep
  <2> SUFFICES ASSUME Inv, [TrendNext]_trendVars PROVE Inv' /\ RecentStep
    OBVIOUS
  <2>1. PageTrendInv'
    BY PageTrendStep
  <2>2. SamplesInv /\ SamplesInv' /\ AnswersInv /\ AnswersInv' /\ ViewsInv
    BY <2>1 DEF PageTrendInv
  <2>3. HistoryTimes' /\ clock' \in Nat /\ clock \in Nat /\ clock <= clock'
    BY <2>2, HistoryTimesStep
  <2>4. ViewTimes' /\ RecentStep
    BY <2>2, <2>3, ViewTimesStep
  <2> QED
    BY <2>1, <2>3, <2>4
<1>3. TrendInit /\ [][TrendNext]_trendVars => [][RecentStep]_trendVars
  BY <1>1, <1>2, PTL
<1> QED
  BY <1>3, PTL DEF TrendSpec, TrendIsRecent, RecentStep

\* With a daemon that keeps running and a clock that is not set back, for any histories,
\* late or out of order: the 60 s view, the peaks and the tab are what the statuses said.
\* In particular no status of the last Span is missing, as a history that seeds the view
\* has no gap and reaches back as far as the view (tui/app.py, on_status, got_initial and
\* set_history).
THEOREM TrendIsSafe ==
  ASSUME MaxJumps = 0, MaxRestarts = 0
  PROVE  TrendSpec => TrendSafe
<1> DEFINE Inv == /\ PageTrendInv /\ HistoryTimes /\ ViewTimes
                  /\ GaplessInv /\ TakenInv /\ TrendComplete
<1>1. TrendInit => Inv
  BY TrendBegins
<1>2. Inv /\ [TrendNext]_trendVars => Inv'
  <2> SUFFICES ASSUME Inv, [TrendNext]_trendVars PROVE Inv'
    OBVIOUS
  <2>1. PageTrendInv'
    BY PageTrendStep
  <2>2. SamplesInv /\ SamplesInv' /\ AnswersInv /\ AnswersInv' /\ ViewsInv /\ StatusInv
    BY <2>1 DEF PageTrendInv
  <2>3. HistoryTimes' /\ clock' \in Nat /\ clock \in Nat /\ clock <= clock'
    BY <2>2, HistoryTimesStep
  <2>4. ViewTimes'
    BY <2>2, <2>3, ViewTimesStep
  <2>5. GaplessInv'
    BY <2>2, GaplessStep
  <2>6. TakenInv' /\ TrendComplete'
    BY <2>2, <2>3, CompleteStep
  <2> QED
    BY <2>1, <2>3, <2>4, <2>5, <2>6
<1>3. Inv => TrendTypeOK /\ TrendComplete /\ PeaksExact /\ ShownIsLatest
  BY PageTrendSays
<1>4. TrendSpec => TrendIsRecent
  BY ViewIsRecent
<1> QED
  BY <1>1, <1>2, <1>3, <1>4, PTL DEF TrendSpec, TrendSafe
=============================================================================
