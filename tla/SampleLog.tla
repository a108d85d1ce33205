----------------------------- MODULE SampleLog ------------------------------
(***************************************************************************)
(* The sample log (linux/turbomac/daemon/logger.py): the control loop's    *)
(* write, the writer thread, the housekeeping thread that compresses and   *)
(* prunes, close at shutdown, and the files a crash leaves.  A record is   *)
(* its number and the hour it is of; a file is named after the time it was *)
(* opened, here the number of files opened before (turbomacd.service       *)
(* restarts after 2 s, so that no two have a name in common).              *)
(***************************************************************************)
EXTENDS Integers, Sequences, FiniteSetsExt

CONSTANTS QueueMax,        \* QUEUE_MAX
          MaxFiles,        \* max_mib: every file counts as one
          Records, Hours,  \* bounds: records written, hours that begin
          MaxLogFaults,    \* writes, opens or compressions that fail
          MaxStops         \* shutdowns and crashes

ASSUME LogAssumption ==
  /\ QueueMax \in Nat \ {0} /\ MaxFiles \in Nat \ {0}
  /\ {Records, Hours, MaxLogFaults, MaxStops} \subseteq Nat

VARIABLES
  offered, clock,       \* records so far; the hour it is
  q, hold,              \* the queue; the record write could not put, or NoItem
  backlog,              \* _backlog
  wpc, item,            \* the writer thread: where it is, the record it has
  path, fh, hour, buf,  \* the current file; the open one, its hour; what a
                        \* failed write has left in its buffer
  plain, gz,            \* samples-*.jsonl and samples-*.jsonl.gz: the records
  files,                \* files opened so far
  wk, again,            \* the housekeeping thread; _again
  todo, expired,        \* what it has listed
  closing,              \* close(): "no", "asked", "joined" or "gaveup"
  logFaults, stops

queueVars == <<offered, clock, q, hold>>
fileVars  == <<path, fh, hour, buf, files>>
workVars  == <<wk, again, todo, expired>>
logVars == <<queueVars, backlog, wpc, item, fileVars, plain, gz, workVars, closing,
          logFaults, stops>>

NoItem == [id |-> 0, hour |-> 0]
Stop   == [id |-> 0, hour |-> 1]      \* the None that close() puts

Without(f, x) == [y \in DOMAIN f \ {x} |-> f[y]]
With(f, x, v) == [y \in DOMAIN f \cup {x} |-> IF y = x THEN v ELSE f[y]]
LogFault == logFaults < MaxLogFaults /\ logFaults' = logFaults + 1

-----------------------------------------------------------------------------
(* write, on the control loop; it never waits *)

Put(h) ==
  /\ closing = "no" /\ hold = NoItem /\ offered < Records
  /\ h \in {clock, clock + 1} /\ h <= Hours
  /\ clock' = h /\ offered' = offered + 1
  /\ LET r == [id |-> offered + 1, hour |-> h] IN
     IF Len(q) < QueueMax THEN q' = Append(q, r) /\ UNCHANGED hold
     ELSE hold' = r /\ UNCHANGED q
  /\ UNCHANGED <<backlog, wpc, item, fileVars, plain, gz, workVars, closing,
                 logFaults, stops>>

\* The queue was full: the oldest record goes to make room.  The writer may
\* have taken one in between.
Displace ==
  /\ hold # NoItem
  /\ q' = Append(IF q = <<>> THEN q ELSE Tail(q), hold)
  /\ hold' = NoItem /\ backlog' = TRUE
  /\ UNCHANGED <<offered, clock, wpc, item, fileVars, plain, gz, workVars, closing,
                 logFaults, stops>>

-----------------------------------------------------------------------------
(* _writer_loop *)

Get ==
  /\ wpc = "get" /\ q # <<>>
  /\ item' = Head(q) /\ q' = Tail(q)
  /\ wpc' = IF Head(q) = Stop THEN "done" ELSE "write"
  /\ UNCHANGED <<offered, clock, hold, backlog, fileVars, plain, gz, workVars, closing,
                 logFaults, stops>>

\* The end of a turn, with or without an error.
NextItem ==
  /\ wpc' = "get" /\ item' = NoItem
  /\ backlog' = (backlog /\ Len(q) >= QueueMax \div 2)

Rotates == fh = 0 \/ item.hour # hour

\* fh.close() flushes what the buffer holds.
CloseOld ==
  /\ fh' = 0 /\ buf' = {}
  /\ plain' = IF fh = 0 THEN plain ELSE [plain EXCEPT ![fh] = @ \cup buf]

\* _open: the path is the new file's before the file is there ...
Rotate ==
  /\ wpc = "write" /\ Rotates
  /\ \/ CloseOld /\ path' = files + 1 /\ wpc' = "open" /\ UNCHANGED <<item, backlog, logFaults>>
     \/ LogFault /\ fh # 0 /\ buf' = {} /\ NextItem /\ UNCHANGED <<fh, path, plain>>
  /\ UNCHANGED <<queueVars, hour, files, gz, workVars, closing, stops>>

Open ==
  /\ wpc = "open"
  /\ files' = files + 1
  /\ \/ /\ fh' = files + 1 /\ hour' = item.hour /\ wpc' = "header"
        /\ plain' = With(plain, files + 1, {})
        /\ UNCHANGED <<item, backlog, logFaults>>
     \/ LogFault /\ NextItem /\ UNCHANGED <<fh, hour, plain>>
  /\ UNCHANGED <<queueVars, path, buf, gz, workVars, closing, stops>>

\* ... the header is written, and a worker started or asked to go round again.
Header ==
  /\ wpc = "header"
  /\ \/ /\ wpc' = "line"
        /\ IF wk = "off" THEN wk' = "start" /\ UNCHANGED again
           ELSE again' = TRUE /\ UNCHANGED wk
        /\ UNCHANGED <<item, backlog, logFaults>>
     \/ LogFault /\ NextItem /\ UNCHANGED <<wk, again>>
  /\ UNCHANGED <<queueVars, fileVars, plain, gz, todo, expired, closing, stops>>

\* Mutant of Line: a write that fails ends the thread.
LineFatal ==
  /\ wpc = "line" \/ (wpc = "write" /\ ~Rotates)
  /\ \/ /\ plain' = [plain EXCEPT ![fh] = @ \cup buf \cup {item.id}] /\ buf' = {}
        /\ NextItem /\ UNCHANGED logFaults
     \/ LogFault /\ wpc' = "dead" /\ UNCHANGED <<buf, plain, item, backlog>>
  /\ UNCHANGED <<queueVars, path, fh, hour, files, gz, workVars, closing, stops>>

\* _line: the record, after what failed writes have left in the buffer.
Line ==
  /\ wpc = "line" \/ (wpc = "write" /\ ~Rotates)
  /\ \/ /\ plain' = [plain EXCEPT ![fh] = @ \cup buf \cup {item.id}] /\ buf' = {}
        /\ UNCHANGED logFaults
     \/ LogFault /\ buf' = buf \cup {item.id} /\ UNCHANGED plain
  /\ NextItem
  /\ UNCHANGED <<queueVars, path, fh, hour, files, gz, workVars, closing, stops>>

-----------------------------------------------------------------------------
(* _housekeep_loop *)

idleVars == <<queueVars, backlog, wpc, item, fileVars, closing, stops>>

List ==
  /\ wk = "start" /\ wk' = "compress"
  /\ again' = FALSE /\ todo' = DOMAIN plain
  /\ UNCHANGED <<idleVars, plain, gz, expired, logFaults>>

Finished(f) == f # path

\* compress_file: the .gz takes its place in one step (tmp, fsync, rename) ...
Compress ==
  /\ wk = "compress" /\ todo # {}
  /\ LET f == Min(todo) IN
     \/ /\ Finished(f) /\ f \in DOMAIN plain
        /\ gz' = With(gz, f, plain[f]) /\ wk' = "unlink"
        /\ UNCHANGED <<todo, logFaults>>
     \/ Finished(f) /\ LogFault /\ todo' = todo \ {f} /\ UNCHANGED <<gz, wk>>
     \/ ~Finished(f) /\ todo' = todo \ {f} /\ UNCHANGED <<gz, wk, logFaults>>
  /\ UNCHANGED <<idleVars, plain, again, expired>>

\* ... before the plain file goes.
Unlink ==
  /\ wk = "unlink" /\ wk' = "compress" /\ todo' = todo \ {Min(todo)}
  /\ \/ plain' = Without(plain, Min(todo)) /\ UNCHANGED logFaults
     \/ LogFault /\ UNCHANGED plain
  /\ UNCHANGED <<idleVars, gz, again, expired>>

\* prune: all files of both kinds, and those past retention_days ...
Entries == ((DOMAIN plain) \X {1}) \cup ((DOMAIN gz) \X {2})

PruneScan(cut) ==
  /\ wk = "compress" /\ todo = {} /\ wk' = "prune"
  /\ expired' = {e \in Entries : e[1] < cut /\ e[1] # path}
  /\ UNCHANGED <<idleVars, plain, gz, again, todo, logFaults>>

Before(d, e) == d[1] < e[1] \/ (d[1] = e[1] /\ d[2] < e[2])

\* Mutant of Surplus: the newest files go first.
SurplusNewest(keep) ==
  {e \in keep : /\ e[1] # path
                /\ Cardinality({d \in keep : Before(e, d) /\ d[1] # path})
                     < Cardinality(keep) - MaxFiles}

\* ... which go, and then the oldest until max_mib are left.
Surplus(keep) ==
  {e \in keep : /\ e[1] # path
                /\ Cardinality({d \in keep : Before(d, e) /\ d[1] # path})
                     < Cardinality(keep) - MaxFiles}

PruneRemove ==
  /\ wk = "prune" /\ wk' = "again"
  /\ LET gone == expired \cup Surplus(Entries \ expired) IN
     /\ plain' = [f \in {f \in DOMAIN plain : <<f, 1>> \notin gone} |-> plain[f]]
     /\ gz'    = [f \in {f \in DOMAIN gz : <<f, 2>> \notin gone} |-> gz[f]]
  /\ expired' = {}
  /\ UNCHANGED <<idleVars, again, todo, logFaults>>

\* The thread is alive for a while after it has read _again.
Again ==
  /\ wk = "again" /\ wk' = IF again THEN "start" ELSE "exit"
  /\ UNCHANGED <<idleVars, plain, gz, again, todo, expired, logFaults>>

Exit ==
  /\ wk = "exit" /\ wk' = "off"
  /\ UNCHANGED <<idleVars, plain, gz, again, todo, expired, logFaults>>

-----------------------------------------------------------------------------
(* close and restart *)

\* Mutant of AskStop: the oldest record gives way to the None at once.
AskStopAtOnce == /\ q' = Append(IF Len(q) = QueueMax THEN Tail(q) ELSE q, Stop)
                 /\ UNCHANGED logFaults

\* The None waits for room; a writer stuck on the disk costs a record.
AskStop ==
  \/ Len(q) < QueueMax /\ q' = Append(q, Stop) /\ UNCHANGED logFaults
  \/ Len(q) = QueueMax /\ LogFault /\ q' = Append(Tail(q), Stop)

Close ==
  /\ closing = "no" /\ hold = NoItem /\ stops < MaxStops
  /\ AskStop /\ closing' = "asked"
  /\ UNCHANGED <<offered, clock, hold, backlog, wpc, item, fileVars, plain, gz,
                 workVars, stops>>

\* The writer is joined, and the file is closed.
Joined ==
  /\ closing = "asked" /\ wpc = "done" /\ closing' = "joined"
  /\ \/ CloseOld /\ UNCHANGED logFaults
     \/ LogFault /\ fh' = 0 /\ buf' = {} /\ UNCHANGED plain
  /\ UNCHANGED <<queueVars, backlog, wpc, item, path, hour, files, gz, workVars, stops>>

\* The process ends, joined, timed out or crashed, and starts again.
LogRestart ==
  /\ stops < MaxStops /\ stops' = stops + 1
  /\ q' = <<>> /\ hold' = NoItem /\ backlog' = FALSE /\ wpc' = "get" /\ item' = NoItem
  /\ path' = 0 /\ fh' = 0 /\ buf' = {} /\ hour' = 0
  /\ wk' = "start" /\ again' = FALSE /\ todo' = {} /\ expired' = {}
  /\ closing' = "no"
  /\ UNCHANGED <<offered, clock, plain, gz, files, logFaults>>

LogInit ==
  /\ offered = 0 /\ clock = 1 /\ q = <<>> /\ hold = NoItem /\ backlog = FALSE
  /\ wpc = "get" /\ item = NoItem /\ path = 0 /\ fh = 0 /\ hour = 0 /\ buf = {}
  /\ files = 0
  /\ plain = <<>> /\ gz = <<>>
  /\ wk = "start" /\ again = FALSE /\ todo = {} /\ expired = {}
  /\ closing = "no" /\ logFaults = 0 /\ stops = 0

Writer == Get \/ Rotate \/ Open \/ Header \/ Line
Worker == List \/ Compress \/ Unlink \/ (\E cut \in 0..files : PruneScan(cut))
            \/ PruneRemove \/ Again \/ Exit

LogNext == \/ \E h \in 1..Hours : Put(h)
           \/ Displace \/ Writer \/ Worker \/ Close \/ Joined \/ LogRestart

\* Both threads and the control loop keep running while the process does.
LogFairness ==
  /\ WF_logVars(Displace) /\ WF_logVars(Writer)
  /\ WF_logVars(Worker) /\ WF_logVars(Joined)
LogSpec == LogInit /\ [][LogNext]_logVars /\ LogFairness

-----------------------------------------------------------------------------
OnDisk(f)  == UNION {f[x] : x \in DOMAIN f}
Queued     == {q[i].id : i \in DOMAIN q} \cup {hold.id, item.id} \cup buf
Waiting    == Queued \ {0}
Kept       == OnDisk(plain) \cup OnDisk(gz)

LogTypeOK ==
  /\ Len(q) <= QueueMax /\ Cardinality(Waiting) <= QueueMax + 2 + MaxLogFaults
  /\ backlog \in BOOLEAN /\ again \in BOOLEAN
  /\ path \in 0..files + 1 /\ fh \in 0..files
  /\ DOMAIN plain \subseteq 1..files /\ DOMAIN gz \subseteq 1..files

\* Through rotation, compression, pruning, failures and crashes, the log is
\* the stream of records that SampleStream promises.
Stream == INSTANCE SampleStream WITH waiting <- Waiting, kept <- Kept
StreamSpec == Stream!Spec

\* The file that is being written is never compressed or removed under it.
OpenFileStays == fh # 0 => fh \in DOMAIN plain

\* A close() that joins the writer leaves no record behind it ...
CloseDrains == closing = "joined" => Waiting = {}

\* ... and, unless the disk is stuck or fails, none is given up on the way.
CloseKeeps ==
  [][closing' # "no" /\ logFaults' = logFaults => Waiting \subseteq Waiting' \cup Kept']_logVars

\* Every record that is offered leaves the buffers, to the disk or not.
RecordsSettle ==
  \A r \in 1..Records : r \in Queued ~> r \notin Queued \/ (r \in buf /\ wpc = "get")

\* The open file stays, and closing the log loses nothing (logger.py).
LogSafe == [](LogTypeOK /\ OpenFileStays /\ CloseDrains) /\ CloseKeeps
=============================================================================
