---------------------------- MODULE Subscription ----------------------------
(***************************************************************************)
(* The status stream between turbomacd and its subscribers: the threaded   *)
(* socket server (daemon/server.py) with its client count, the main loop's *)
(* status snapshot that depends on that count (daemon/main.py), and the    *)
(* reconnecting worker thread of the TUI (tui/backend.py, tui/app.py).     *)
(*                                                                         *)
(* A status is only its age, an error only its kind, and the back-off of   *)
(* the worker only a pause: time is left to the interleaving.  The faults  *)
(* are a crash or a stop of the daemon, a daemon that is frozen, and a TUI *)
(* that is suspended; MaxFaults bounds them.                               *)
(***************************************************************************)
EXTENDS Naturals, FiniteSets

CONSTANTS Clients,      \* running turbomactop processes
          SlowEvery,    \* SLOW_EVERY: ticks of 250 ms between two slow ticks
          Backlog,      \* connections the listening socket keeps unaccepted
          Wire,         \* status lines a connection buffers
          MaxVisitors,  \* connections of turbomacctl served at once
          MaxFaults     \* crashes, stops, freezes and suspensions

ASSUME SubscriptionAssumption ==
    /\ SlowEvery \in Nat \ {0} /\ Backlog \in Nat \ {0} /\ Wire \in Nat \ {0}
    /\ MaxVisitors \in Nat /\ MaxFaults \in Nat

VARIABLES
    server,      \* "down", "up", or "stopping" (the stopping event is set)
    socket,      \* the socket file: "none", "bound", or "stale" after a crash
    frozen,      \* the daemon's process makes no step
    phase,       \* tick % SLOW_EVERY
    age,         \* ticks since status_snapshot was built
    clients,     \* ControlServer.clients
    visitors,    \* request connections being served
    deadQueued,  \* unaccepted connections whose client has gone
    deadServed,  \* handler threads whose client has gone
    handler,     \* per client: "none", "queued", or "subscribe"
    since,       \* per client: a tick has passed since its handler started
    wire,        \* per client: status lines not yet read
    thread,      \* per client: where Subscription._run is
    connected,   \* per client: backend.connected
    error,       \* per client: backend.last_error
    told,        \* per client: what conn_changed was last called with
    stop,        \* per client: stop_event
    closing,     \* per client: app.closing
    suspended,   \* per client: the TUI's process makes no step
    faults

serverVars == <<server, socket, frozen, phase, age, clients, visitors, deadQueued, deadServed>>
links  == <<handler, since, wire>>
worker == <<thread, connected, error, told, stop, closing, suspended>>
subVars   == <<serverVars, links, worker, faults>>

Errors == {"none", "refused", "ended", "timeout"}

SubscriptionTypeOK ==
    /\ server \in {"down", "up", "stopping"} /\ socket \in {"none", "bound", "stale"}
    /\ frozen \in BOOLEAN /\ phase \in 0..SlowEvery - 1 /\ age \in 0..SlowEvery - 1
    /\ clients \in Nat /\ visitors \in 0..MaxVisitors
    /\ deadQueued \in 0..Backlog /\ deadServed \in Nat
    /\ handler \in [Clients -> {"none", "queued", "subscribe"}]
    /\ since \in [Clients -> BOOLEAN] /\ wire \in [Clients -> 0..Wire]
    /\ thread \in [Clients -> {"connect", "read", "deliver", "backoff", "ended"}]
    /\ connected \in [Clients -> BOOLEAN] /\ error \in [Clients -> Errors]
    /\ told \in [Clients -> BOOLEAN \X Errors] /\ stop \in [Clients -> BOOLEAN]
    /\ closing \in [Clients -> BOOLEAN] /\ suspended \in [Clients -> BOOLEAN]
    /\ faults \in 0..MaxFaults

SubscriptionInit ==
    /\ server = "down" /\ socket = "none" /\ frozen = FALSE /\ phase = 0 /\ age = 0
    /\ clients = 0 /\ visitors = 0 /\ deadQueued = 0 /\ deadServed = 0
    /\ handler = [c \in Clients |-> "none"] /\ since = [c \in Clients |-> FALSE]
    /\ wire = [c \in Clients |-> 0] /\ thread = [c \in Clients |-> "connect"]
    /\ connected = [c \in Clients |-> FALSE] /\ error = [c \in Clients |-> "none"]
    /\ told = [c \in Clients |-> <<FALSE, "none">>] /\ stop = [c \in Clients |-> FALSE]
    /\ closing = [c \in Clients |-> FALSE] /\ suspended = [c \in Clients |-> FALSE]
    /\ faults = 0

-----------------------------------------------------------------------------
(* The daemon: the control socket and the main loop. *)

Runs == server # "down" /\ ~frozen

\* ControlServer.__init__: a path nobody listens on is unlinked, then bound.
\* The run loop follows, with its first tick a slow one.
Start ==
    /\ server = "down"
    /\ server' = "up" /\ socket' = "bound" /\ frozen' = FALSE
    /\ phase' = 0 /\ age' = 0 /\ clients' = 0 /\ visitors' = 0
    /\ UNCHANGED <<deadQueued, deadServed, links, worker, faults>>

\* client_count, under its lock
Count == clients' = clients + 1

\* Mutant of Uncount: a connection is counted off by its handler and its server.
UncountTwice == clients' = IF clients > 1 THEN clients - 2 ELSE 0

Uncount == clients' = clients - 1

\* Daemon.tick: the snapshot is built on the slow tick, and on every tick
\* while a connection is being served
BuildsSnapshot == phase = 0 \/ clients > 0

Tick ==
    /\ server = "up" /\ Runs
    /\ phase' = (phase + 1) % SlowEvery
    /\ age' = IF BuildsSnapshot THEN 0 ELSE age + 1
    /\ since' = [c \in Clients |-> handler[c] = "subscribe"]
    /\ UNCHANGED <<server, socket, frozen, clients, visitors, deadQueued, deadServed,
                   handler, wire, worker, faults>>

\* _Conn.handle: counted, then the subscribe request is read.  The accept
\* loop runs until shutdown() returns.
Accept(c) ==
    /\ Runs /\ socket = "bound" /\ handler[c] = "queued"
    /\ handler' = [handler EXCEPT ![c] = "subscribe"]
    /\ since' = [since EXCEPT ![c] = FALSE]
    /\ Count
    /\ UNCHANGED <<server, socket, frozen, phase, age, visitors, deadQueued, deadServed,
                   wire, worker, faults>>

AcceptDead ==
    /\ Runs /\ socket = "bound" /\ deadQueued > 0
    /\ deadQueued' = deadQueued - 1 /\ deadServed' = deadServed + 1
    /\ Count
    /\ UNCHANGED <<server, socket, frozen, phase, age, visitors, links, worker, faults>>

\* _subscribe: one status line, unless the connection's buffer is full
SubscriptionSend(c) ==
    /\ Runs /\ server = "up" /\ handler[c] = "subscribe" /\ wire[c] < Wire
    /\ wire' = [wire EXCEPT ![c] = @ + 1]
    /\ UNCHANGED <<serverVars, handler, since, worker, faults>>

\* _subscribe returns: the server stops, or the send to a stalled subscriber
\* has timed out
Leave(c) ==
    /\ Runs /\ handler[c] = "subscribe"
    /\ server = "stopping" \/ (suspended[c] /\ wire[c] = Wire)
    /\ handler' = [handler EXCEPT ![c] = "none"]
    /\ Uncount
    /\ UNCHANGED <<server, socket, frozen, phase, age, visitors, deadQueued, deadServed,
                   since, wire, worker, faults>>

\* _send fails on a connection whose client has gone
LeaveDead ==
    /\ Runs /\ deadServed > 0
    /\ deadServed' = deadServed - 1
    /\ Uncount
    /\ UNCHANGED <<server, socket, frozen, phase, age, visitors, deadQueued,
                   links, worker, faults>>

\* A request connection of turbomacctl: _serve until the client closes it
Visit ==
    /\ Runs /\ socket = "bound" /\ visitors < MaxVisitors
    /\ visitors' = visitors + 1
    /\ Count
    /\ UNCHANGED <<server, socket, frozen, phase, age, deadQueued, deadServed,
                   links, worker, faults>>

VisitEnds ==
    /\ Runs /\ visitors > 0
    /\ visitors' = visitors - 1
    /\ Uncount
    /\ UNCHANGED <<server, socket, frozen, phase, age, deadQueued, deadServed,
                   links, worker, faults>>

\* ControlServer.stop: the event, then the accept loop, the listening socket
\* and the path
AskStop ==
    /\ server = "up" /\ Runs /\ faults < MaxFaults
    /\ server' = "stopping" /\ faults' = faults + 1
    /\ UNCHANGED <<socket, frozen, phase, age, clients, visitors, deadQueued,
                   deadServed, links, worker>>

CloseSocket ==
    /\ server = "stopping" /\ Runs /\ socket = "bound"
    /\ socket' = "none" /\ deadQueued' = 0
    /\ handler' = [c \in Clients |-> IF handler[c] = "queued" THEN "none" ELSE handler[c]]
    /\ UNCHANGED <<server, frozen, phase, age, clients, visitors, deadServed,
                   since, wire, worker, faults>>

\* The process ends, with every connection; what was sent can still be read.
Gone(path) ==
    /\ server' = "down" /\ socket' = path /\ frozen' = FALSE
    /\ clients' = 0 /\ visitors' = 0 /\ deadQueued' = 0 /\ deadServed' = 0
    /\ handler' = [c \in Clients |-> "none"]
    /\ UNCHANGED <<phase, age, since, wire, worker>>

Exit == server = "stopping" /\ Runs /\ socket = "none" /\ Gone("none") /\ UNCHANGED faults

Crash ==
    /\ server # "down" /\ faults < MaxFaults
    /\ Gone(IF socket = "bound" THEN "stale" ELSE socket)
    /\ faults' = faults + 1

Freeze ==
    /\ Runs /\ faults < MaxFaults
    /\ frozen' = TRUE /\ faults' = faults + 1
    /\ UNCHANGED <<server, socket, phase, age, clients, visitors, deadQueued,
                   deadServed, links, worker>>

Thaw ==
    /\ frozen
    /\ frozen' = FALSE
    /\ UNCHANGED <<server, socket, phase, age, clients, visitors, deadQueued,
                   deadServed, links, worker, faults>>

-----------------------------------------------------------------------------
(* The subscriber: Subscription._run on its thread, and the app. *)

Awake(c) == ~suspended[c]

\* Subscription._conn, with conn_from_thread
Conn(c, ok, err) ==
    LET changed == ok # connected[c] \/ (~ok /\ err # error[c]) IN
    /\ connected' = [connected EXCEPT ![c] = ok]
    /\ error' = IF ok THEN error ELSE [error EXCEPT ![c] = err]
    /\ told' = IF changed /\ ~stop[c] /\ ~closing[c]
               THEN [told EXCEPT ![c] = <<ok, IF ok THEN "none" ELSE err>>] ELSE told

\* Any failure: the end if the subscription is stopped, else back off
Fail(c, err) ==
    IF stop[c]
    THEN /\ thread' = [thread EXCEPT ![c] = "ended"]
         /\ UNCHANGED <<connected, error, told>>
    ELSE /\ thread' = [thread EXCEPT ![c] = "backoff"]
         /\ Conn(c, FALSE, err)

\* The client closes its connection: the server keeps what it has of it.
Abandon(c) ==
    /\ wire' = [wire EXCEPT ![c] = 0]
    /\ handler' = [handler EXCEPT ![c] = "none"]
    /\ deadQueued' = deadQueued + (IF handler[c] = "queued" THEN 1 ELSE 0)
    /\ deadServed' = deadServed + (IF handler[c] = "subscribe" THEN 1 ELSE 0)
    /\ UNCHANGED <<server, socket, frozen, phase, age, clients, visitors, since>>

Queued == deadQueued + Cardinality({c \in Clients : handler[c] = "queued"})

\* Client._connect and the subscribe request
Connect(c) ==
    /\ thread[c] = "connect" /\ ~stop[c] /\ Awake(c)
    /\ socket = "bound" /\ Queued < Backlog
    /\ thread' = [thread EXCEPT ![c] = "read"]
    /\ handler' = [handler EXCEPT ![c] = "queued"]
    /\ UNCHANGED <<serverVars, since, wire, connected, error, told, stop,
                   closing, suspended, faults>>

\* No socket, nobody listening, or (frozen) a full backlog until the timeout
ConnectFails(c) ==
    /\ thread[c] = "connect" /\ ~stop[c] /\ Awake(c)
    /\ \/ socket # "bound" /\ Fail(c, "refused")
       \/ socket = "bound" /\ frozen /\ Queued = Backlog /\ Fail(c, "timeout")
    /\ UNCHANGED <<serverVars, links, stop, closing, suspended, faults>>

\* A status line arrives: unless stopped, the connection counts as up.
Receive(c) ==
    /\ thread[c] = "read" /\ Awake(c) /\ wire[c] > 0
    /\ IF stop[c]
       THEN /\ thread' = [thread EXCEPT ![c] = "ended"]
            /\ Abandon(c)
            /\ UNCHANGED <<connected, error, told>>
       ELSE /\ thread' = [thread EXCEPT ![c] = "deliver"]
            /\ wire' = [wire EXCEPT ![c] = @ - 1]
            /\ Conn(c, TRUE, "none")
            /\ UNCHANGED <<serverVars, handler, since>>
    /\ UNCHANGED <<stop, closing, suspended, faults>>

\* The callback, app.from_thread: it raises once the app is closing.
Deliver(c) ==
    /\ thread[c] = "deliver" /\ Awake(c)
    /\ IF closing[c]
       THEN /\ stop' = [stop EXCEPT ![c] = TRUE]
            /\ thread' = [thread EXCEPT ![c] = "ended"]
            /\ Abandon(c)
       ELSE /\ thread' = [thread EXCEPT ![c] = "read"]
            /\ UNCHANGED <<stop, serverVars, links>>
    /\ UNCHANGED <<connected, error, told, closing, suspended, faults>>

\* Mutant of StreamFails: the stream is read without a timeout.
StreamEndsOnly(c) ==
    /\ thread[c] = "read" /\ Awake(c) /\ wire[c] = 0
    /\ handler[c] = "none" /\ Fail(c, "ended")
    /\ Abandon(c)
    /\ UNCHANGED <<stop, closing, suspended, faults>>

\* The server closed the connection, or sent nothing for 5 s
StreamFails(c) ==
    /\ thread[c] = "read" /\ Awake(c) /\ wire[c] = 0
    /\ \/ handler[c] = "none" /\ Fail(c, "ended")
       \/ handler[c] # "none" /\ frozen /\ Fail(c, "timeout")
    /\ Abandon(c)
    /\ UNCHANGED <<stop, closing, suspended, faults>>

\* The pause between two attempts is over.
Retry(c) ==
    /\ thread[c] = "backoff" /\ Awake(c)
    /\ thread' = [thread EXCEPT ![c] = "connect"]
    /\ UNCHANGED <<serverVars, links, connected, error, told, stop, closing,
                   suspended, faults>>

\* The loop's test of stop_event
LoopEnds(c) ==
    /\ thread[c] = "connect" /\ Awake(c) /\ stop[c]
    /\ thread' = [thread EXCEPT ![c] = "ended"]
    /\ UNCHANGED <<serverVars, links, connected, error, told, stop, closing,
                   suspended, faults>>

\* app.on_unmount: closing is set, then the subscription is stopped.
Unmount(c) ==
    /\ Awake(c) /\ ~closing[c]
    /\ closing' = [closing EXCEPT ![c] = TRUE]
    /\ UNCHANGED <<serverVars, links, thread, connected, error, told, stop,
                   suspended, faults>>

StopSub(c) ==
    /\ Awake(c) /\ closing[c] /\ ~stop[c]
    /\ stop' = [stop EXCEPT ![c] = TRUE]
    /\ UNCHANGED <<serverVars, links, thread, connected, error, told, closing,
                   suspended, faults>>

Suspend(c) ==
    /\ Awake(c) /\ faults < MaxFaults
    /\ suspended' = [suspended EXCEPT ![c] = TRUE] /\ faults' = faults + 1
    /\ UNCHANGED <<serverVars, links, thread, connected, error, told, stop, closing>>

Resume(c) ==
    /\ suspended[c]
    /\ suspended' = [suspended EXCEPT ![c] = FALSE]
    /\ UNCHANGED <<serverVars, links, thread, connected, error, told, stop,
                   closing, faults>>

-----------------------------------------------------------------------------
Work(c) == \/ Connect(c) \/ ConnectFails(c) \/ Receive(c) \/ Deliver(c)
           \/ StreamFails(c) \/ Retry(c) \/ LoopEnds(c)

SubscriptionNext ==
    \/ Start \/ Tick \/ AcceptDead \/ LeaveDead \/ Visit \/ VisitEnds
    \/ AskStop \/ CloseSocket \/ Exit \/ Crash \/ Freeze \/ Thaw
    \/ \E c \in Clients : \/ Accept(c) \/ SubscriptionSend(c) \/ Leave(c) \/ Work(c)
                          \/ Unmount(c) \/ StopSub(c) \/ Suspend(c) \/ Resume(c)

\* The daemon's threads and the TUI's run when they can; nobody need start,
\* stop, freeze, suspend or close anything, nor wake it again.
SubscriptionFairness ==
    /\ WF_subVars(Tick) /\ WF_subVars(AcceptDead)
    /\ WF_subVars(LeaveDead) /\ WF_subVars(CloseSocket)
    /\ WF_subVars(Exit)
    /\ \A c \in Clients :
         /\ WF_subVars(Accept(c)) /\ WF_subVars(SubscriptionSend(c))
         /\ WF_subVars(Leave(c)) /\ WF_subVars(Work(c))
         /\ WF_subVars(StopSub(c))
SubscriptionSpec ==
    SubscriptionInit /\ [][SubscriptionNext]_subVars /\ SubscriptionFairness

-----------------------------------------------------------------------------
(* Once a subscriber has been served for a tick, the snapshot it is sent   *)
(* is the last tick's, whoever else connected or left in the meantime: the *)
(* client count never reads zero under a subscriber (main.py, tick;        *)
(* server.py, client_count).                                               *)
StreamIsFresh == \A c \in Clients : server = "up" /\ handler[c] = "subscribe" /\ since[c] => age = 0

(* The last thing the app was told of its connection, on which it redraws  *)
(* header and banner, is what the backend says now (backend.py, _conn).    *)
ToldIsCurrent ==
  \A c \in Clients :
    ~closing[c] => told[c] = <<connected[c], IF connected[c] THEN "none" ELSE error[c]>>

(* A TUI whose daemon stays up and answers ends up connected for good,     *)
(* whatever crashes, freezes and suspensions came before (backend.py,      *)
(* _run: every failure leads back to a connection attempt).                *)
Reconnects ==
    \A c \in Clients :
        <>[](server = "up" /\ ~frozen /\ ~suspended[c] /\ ~closing[c]) => <>[]connected[c]

(* A daemon that stays away is shown as disconnected, with no status of it *)
(* left to come (protocol.py, stream; backend.py, _conn).                  *)
LossIsNoticed ==
    \A c \in Clients :
        <>[]((server = "down" \/ frozen) /\ ~suspended[c] /\ ~closing[c]) => <>[]~connected[c]

(* A closed TUI's worker thread ends, also when it is blocked on a frozen  *)
(* daemon or waiting to retry (backend.py, _run and stop).                 *)
ThreadEnds ==
    \A c \in Clients : <>[](closing[c] /\ ~suspended[c]) => <>(thread[c] = "ended")

(* The handler threads of clients that have gone end, so that they neither *)
(* pile up nor keep the daemon building statuses (server.py, _send).       *)
DeadAreReleased == <>[](server = "up" /\ ~frozen) => []<>(deadServed + deadQueued = 0)

(* Subscribers are sent what is current, and told what is (server.py,      *)
(* backend.py).                                                            *)
SubscriptionSafe == SubscriptionTypeOK /\ StreamIsFresh /\ ToldIsCurrent

(* Connections come back, losses are noticed, and what has been closed is  *)
(* given up on both sides (backend.py, _run; server.py).                   *)
ConnectionSettles == Reconnects /\ LossIsNoticed /\ ThreadEnds /\ DeadAreReleased
=============================================================================
