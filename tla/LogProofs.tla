------------------------------ MODULE LogProofs ------------------------------
(***************************************************************************)
(* SampleLog is safe and implements SampleStream, for every instance.  The *)
(* inductive invariant says in which order records wait, in which order the*)
(* files hold them, and what the housekeeping thread may rely on between   *)
(* two of its steps.  Then every step is one of five moves on the records  *)
(* that wait and those that are kept, and each move is one of the stream's.*)
(***************************************************************************)
EXTENDS SampleLog, FiniteSetTheorems, WellFoundedInduction, TLAPS

\* What the queue holds: a record with its number and hour, or the None of close.
Item == [id : Nat, hour : Nat]

\* The records of file f, in its plain or its compressed form.
Held(f) == (IF f \in DOMAIN plain THEN plain[f] ELSE {})
             \cup (IF f \in DOMAIN gz THEN gz[f] ELSE {})

\* The queue holds no more than QUEUE_MAX records.
QueueTypes ==
  /\ offered \in Nat /\ clock \in Nat /\ q \in Seq(Item) /\ Len(q) <= QueueMax
  /\ hold \in Item /\ item \in Item

\* Hours, file names and the faults so far.
NumberTypes ==
  /\ hour \in Nat /\ path \in Nat /\ fh \in Nat /\ files \in Nat
  /\ logFaults \in 0..MaxLogFaults

\* _backlog and _again are flags.
FlagsInv == backlog \in BOOLEAN /\ again \in BOOLEAN

\* The writer has a record exactly while it is on one; the open file is the current
\* one, and only a file that is open has anything in its buffer.  Between the two
\* halves of _open the path is of a file that is not there yet.
WriterInv ==
  /\ wpc \in {"get", "write", "open", "header", "line", "done"}
  /\ item.id = 0 <=> wpc \in {"get", "done"}
  /\ wpc \in {"header", "line"} => fh # 0
  /\ fh = 0 => buf = {}
  /\ fh # 0 => fh = path
  /\ IF wpc = "open" THEN path = files + 1 /\ fh = 0 ELSE path \in {0, files}

\* close puts one None, at the end, after which nothing is put; the writer that has
\* taken it leaves an empty queue.
CloseInv ==
  /\ closing \in {"no", "asked", "joined"}
  /\ hold.id = 0 => hold = NoItem
  /\ closing = "no" => wpc # "done" /\ \A x \in 1..Len(q) : q[x].id # 0
  /\ \A x \in 1..Len(q) : q[x].id = 0 => q[x] = Stop /\ x = Len(q)
  /\ closing # "no" => hold = NoItem
  /\ wpc = "done" => q = <<>>
  /\ closing = "joined" => wpc = "done" /\ buf = {}

\* Records wait in the order they came: those in the buffer of the file, the one the
\* writer has, the queue, and the one that found the queue full.
OrderInv ==
  /\ buf \subseteq 1..offered /\ item.id <= offered /\ hold.id <= offered
  /\ \A x \in 1..Len(q) : q[x].id <= offered
  /\ item.id # 0 => \A b \in buf : b < item.id
  /\ hold.id # 0 => item.id < hold.id /\ \A b \in buf : b < hold.id
  /\ \A x \in 1..Len(q) :
       /\ q[x].id # 0 => item.id < q[x].id /\ \A b \in buf : b < q[x].id
       /\ hold.id # 0 => q[x].id < hold.id
       /\ \A y \in 1..Len(q) : x < y /\ q[y].id # 0 => q[x].id < q[y].id

\* The open file is there, the current one is not compressed, and a file that is
\* there in both forms has the same records in both.
FilesInv ==
  /\ DOMAIN plain \subseteq 1..files /\ DOMAIN gz \subseteq 1..files
  /\ fh # 0 => fh \in DOMAIN plain
  /\ path \notin DOMAIN gz
  /\ \A f \in DOMAIN plain : f \in DOMAIN gz => plain[f] = gz[f]

\* What the housekeeping thread has seen stays true while the writer goes on: the
\* file it unlinks is compressed and finished, and the files past retention are the
\* oldest, none of them current.
WorkInv ==
  /\ wk = "unlink" => Min(todo) \in DOMAIN gz /\ Min(todo) # path
  /\ wk = "prune" => \A e \in expired :
       /\ e \in (1..files) \X {1, 2} /\ e[1] # path
       /\ \A d \in Entries : Before(d, e) => d \in expired

\* A later file has later records only.
RecordsInv ==
  \A f, g \in 1..files : f < g => \A x \in Held(f), y \in Held(g) : x < y

\* Whatever is on the disk came before whatever waits.
KeptInv == Kept \subseteq 1..offered /\ \A k \in Kept, w \in Waiting : k < w

\* What the constants give.
LEMMA LogConstants ==
  /\ QueueMax \in Nat /\ QueueMax > 0 /\ MaxFiles \in Nat /\ MaxFiles > 0
  /\ Records \in Nat /\ Hours \in Nat /\ MaxLogFaults \in Nat /\ MaxStops \in Nat
  BY LogAssumption

\* Append, position by position.
LEMMA AppendFacts ==
  ASSUME NEW s \in Seq(Item), NEW r \in Item
  PROVE  /\ Append(s, r) \in Seq(Item) /\ Len(Append(s, r)) = Len(s) + 1 /\ Len(s) \in Nat
         /\ \A x \in 1..Len(s) : Append(s, r)[x] = s[x]
         /\ Append(s, r)[Len(s) + 1] = r
  OBVIOUS

\* Tail and Head, position by position.
LEMMA TailFacts ==
  ASSUME NEW s \in Seq(Item), s # <<>>
  PROVE  /\ Tail(s) \in Seq(Item) /\ Len(s) \in Nat /\ Len(s) > 0
         /\ Len(Tail(s)) = Len(s) - 1
         /\ \A x \in 1..Len(Tail(s)) : Tail(s)[x] = s[x + 1]
         /\ Head(s) = s[1] /\ Head(s) \in Item
  OBVIOUS

\* The items that stand for none and for the None of close, and records.
LEMMA ItemFacts ==
  /\ NoItem \in Item /\ NoItem.id = 0 /\ Stop \in Item /\ Stop.id = 0
  /\ \A r \in Item : r.id \in Nat /\ r.hour \in Nat
  /\ \A n, h \in Nat : [id |-> n, hour |-> h] \in Item
  /\ <<>> \in Seq(Item) /\ Len(<<>>) = 0
  BY DEF Item, NoItem, Stop

\* What write does with record r of hour h: the queue takes it, or it is held back.
PutItem(h, r) ==
  /\ r.id = offered + 1 /\ offered' = offered + 1 /\ h \in Nat /\ clock' = h
  /\ UNCHANGED item
  /\ IF Len(q) < QueueMax THEN q' = Append(q, r) /\ UNCHANGED hold
     ELSE hold' = r /\ UNCHANGED q
  /\ hold = NoItem /\ closing = "no"

\* write makes one record, the next in number.
LEMMA PutFacts ==
  ASSUME QueueTypes, NEW h \in 1..Hours, Put(h)
  PROVE  \E r \in Item : PutItem(h, r)
<1> DEFINE r == [id |-> offered + 1, hour |-> h]
<1>1. r \in Item /\ r.id = offered + 1
  BY LogConstants, ItemFacts DEF QueueTypes
<1>2. PutItem(h, r)
  BY <1>1, LogConstants DEF PutItem, Put
<1> QED
  BY <1>1, <1>2

\* The queue after the oldest record has made room for another.
LEMMA ShiftFacts ==
  ASSUME NEW s \in Seq(Item), NEW r \in Item, NEW t,
         t = Append(IF s = <<>> THEN s ELSE Tail(s), r)
  PROVE  /\ Len(t) \in Nat /\ Len(s) \in Nat /\ Len(t) > 0 /\ t[Len(t)] = r
         /\ \A x \in 1..Len(t) : x # Len(t) => x + 1 \in 1..Len(s) /\ t[x] = s[x + 1]
         /\ s # <<>> => Len(t) = Len(s)
<1>1. CASE s = <<>>
  BY <1>1, AppendFacts
<1>2. CASE s # <<>>
  BY <1>2, AppendFacts, TailFacts
<1> QED
  BY <1>1, <1>2

\* No step overfills the queue: neither write's displacement nor close.
LEMMA QueueTypesStep ==
  QueueTypes /\ [LogNext]_logVars => QueueTypes'
<1> SUFFICES ASSUME QueueTypes, [LogNext]_logVars PROVE QueueTypes'
  OBVIOUS
<1> USE DEF QueueTypes, queueVars, fileVars, workVars, idleVars
<1>1. CASE \E h \in 1..Hours : Put(h)
  <2> PICK h \in 1..Hours : Put(h)
    BY <1>1
  <2>1. PICK r \in Item : PutItem(h, r)
    BY PutFacts
  <2>2. CASE Len(q) < QueueMax
    BY <2>1, <2>2, AppendFacts, LogConstants DEF PutItem
  <2>3. CASE ~(Len(q) < QueueMax)
    BY <2>1, <2>3, LogConstants DEF PutItem
  <2> QED
    BY <2>2, <2>3
<1>2. CASE Displace
  <2>1. (Tail(q) \in Seq(Item) /\ Len(Tail(q)) = Len(q) - 1) \/ q = <<>>
    BY TailFacts
  <2> QED
    BY <1>2, <2>1, AppendFacts, ItemFacts, LogConstants DEF Displace
<1>3. CASE Get
  <2>1. Head(q) \in Item /\ Tail(q) \in Seq(Item) /\ Len(Tail(q)) <= Len(q)
    BY <1>3, TailFacts DEF Get
  <2>2. Len(Tail(q)) <= QueueMax
    BY <2>1, LogConstants
  <2> QED
    BY <1>3, <2>1, <2>2 DEF Get
<1>4. CASE Rotate
  <2>1. UNCHANGED <<offered, clock, q, hold>> /\ item' \in {item, NoItem}
    BY <1>4 DEF Rotate, NextItem
  <2> QED
    BY <2>1, ItemFacts
<1>5. CASE Open
  <2>1. UNCHANGED <<offered, clock, q, hold>> /\ item' \in {item, NoItem}
    BY <1>5 DEF Open, NextItem
  <2> QED
    BY <2>1, ItemFacts
<1>6. CASE Header
  <2>1. UNCHANGED <<offered, clock, q, hold>> /\ item' \in {item, NoItem}
    BY <1>6 DEF Header, NextItem
  <2> QED
    BY <2>1, ItemFacts
<1>7. CASE Line
  <2>1. UNCHANGED <<offered, clock, q, hold>> /\ item' \in {item, NoItem}
    BY <1>7 DEF Line, NextItem
  <2> QED
    BY <2>1, ItemFacts
<1>8. CASE List
  BY <1>8 DEF List
<1>9. CASE Compress
  BY <1>9 DEF Compress, LogFault, Finished
<1>10. CASE Unlink
  BY <1>10 DEF Unlink, LogFault
<1>11. CASE \E cut \in 0..files : PruneScan(cut)
  BY <1>11 DEF PruneScan
<1>12. CASE PruneRemove
  BY <1>12 DEF PruneRemove
<1>13. CASE Again
  BY <1>13 DEF Again
<1>14. CASE Exit
  BY <1>14 DEF Exit
<1>15. CASE Close
  <2>1. /\ UNCHANGED <<offered, clock, hold, item>>
        /\ \/ Len(q) < QueueMax /\ q' = Append(q, Stop)
           \/ Len(q) = QueueMax /\ q' = Append(Tail(q), Stop)
    BY <1>15 DEF Close, AskStop
  <2>2. CASE Len(q) < QueueMax /\ q' = Append(q, Stop)
    BY <2>1, <2>2, AppendFacts, ItemFacts, LogConstants
  <2>3. CASE Len(q) = QueueMax /\ q' = Append(Tail(q), Stop)
    <3>1. q # <<>>
      BY <2>3, LogConstants
    <3>2. Tail(q) \in Seq(Item) /\ Len(Tail(q)) = Len(q) - 1
      BY <3>1, TailFacts
    <3> QED
      BY <2>1, <2>3, <3>2, AppendFacts, ItemFacts, LogConstants
  <2> QED
    BY <2>1, <2>2, <2>3
<1>16. CASE Joined
  BY <1>16 DEF Joined, CloseOld, LogFault
<1>17. CASE LogRestart
  BY <1>17, ItemFacts, LogConstants DEF LogRestart
<1>18. CASE UNCHANGED logVars
  BY <1>18 DEF logVars
<1> QED
  BY <1>1, <1>2, <1>3, <1>4, <1>5, <1>6, <1>7, <1>8, <1>9, <1>10, <1>11, <1>12,
     <1>13, <1>14, <1>15, <1>16, <1>17, <1>18 DEF LogNext, Writer, Worker

\* Files and hours stay numbers, and faults are counted.
LEMMA NumberTypesStep ==
  QueueTypes /\ NumberTypes /\ [LogNext]_logVars => NumberTypes'
<1> SUFFICES ASSUME QueueTypes, NumberTypes, [LogNext]_logVars PROVE NumberTypes'
  OBVIOUS
<1> USE DEF NumberTypes, QueueTypes, queueVars, fileVars, workVars, idleVars
<1>1. CASE \E h \in 1..Hours : Put(h)
  BY <1>1 DEF Put
<1>2. CASE Displace
  BY <1>2 DEF Displace
<1>3. CASE Get
  BY <1>3 DEF Get
<1>4. CASE Rotate
  BY <1>4, LogConstants DEF Rotate, CloseOld, NextItem, LogFault
<1>5. CASE Open
  BY <1>5, LogConstants, ItemFacts DEF Open, NextItem, LogFault
<1>6. CASE Header
  BY <1>6, LogConstants DEF Header, NextItem, LogFault
<1>7. CASE Line
  BY <1>7, LogConstants DEF Line, NextItem, LogFault, Rotates
<1>8. CASE List
  BY <1>8 DEF List
<1>9. CASE Compress
  BY <1>9, LogConstants DEF Compress, LogFault, Finished
<1>10. CASE Unlink
  BY <1>10, LogConstants DEF Unlink, LogFault
<1>11. CASE \E cut \in 0..files : PruneScan(cut)
  BY <1>11 DEF PruneScan
<1>12. CASE PruneRemove
  BY <1>12 DEF PruneRemove
<1>13. CASE Again
  BY <1>13 DEF Again
<1>14. CASE Exit
  BY <1>14 DEF Exit
<1>15. CASE Close
  BY <1>15, LogConstants DEF Close, AskStop, LogFault
<1>16. CASE Joined
  BY <1>16, LogConstants DEF Joined, CloseOld, LogFault
<1>17. CASE LogRestart
  BY <1>17 DEF LogRestart
<1>18. CASE UNCHANGED logVars
  BY <1>18 DEF logVars
<1> QED
  BY <1>1, <1>2, <1>3, <1>4, <1>5, <1>6, <1>7, <1>8, <1>9, <1>10, <1>11, <1>12,
     <1>13, <1>14, <1>15, <1>16, <1>17, <1>18 DEF LogNext, Writer, Worker

\* Every step leaves flags.
LEMMA FlagsStep ==
  FlagsInv /\ [LogNext]_logVars => FlagsInv'
<1> SUFFICES ASSUME FlagsInv, [LogNext]_logVars PROVE FlagsInv'
  OBVIOUS
<1> USE DEF FlagsInv, queueVars, fileVars, workVars, idleVars
<1>1. CASE \E h \in 1..Hours : Put(h)
  BY <1>1 DEF Put
<1>2. CASE Displace
  BY <1>2 DEF Displace
<1>3. CASE Get
  BY <1>3 DEF Get
<1>4. CASE Rotate
  BY <1>4 DEF Rotate, CloseOld, NextItem, LogFault
<1>5. CASE Open
  BY <1>5 DEF Open, NextItem, LogFault
<1>6. CASE Header
  BY <1>6 DEF Header, NextItem, LogFault
<1>7. CASE Line
  BY <1>7 DEF Line, NextItem, LogFault, Rotates
<1>8. CASE List
  BY <1>8 DEF List
<1>9. CASE Compress
  BY <1>9 DEF Compress, LogFault, Finished
<1>10. CASE Unlink
  BY <1>10 DEF Unlink, LogFault
<1>11. CASE \E cut \in 0..files : PruneScan(cut)
  BY <1>11 DEF PruneScan
<1>12. CASE PruneRemove
  BY <1>12 DEF PruneRemove
<1>13. CASE Again
  BY <1>13 DEF Again
<1>14. CASE Exit
  BY <1>14 DEF Exit
<1>15. CASE Close
  BY <1>15 DEF Close, AskStop, LogFault
<1>16. CASE Joined
  BY <1>16 DEF Joined, CloseOld, LogFault
<1>17. CASE LogRestart
  BY <1>17 DEF LogRestart
<1>18. CASE UNCHANGED logVars
  BY <1>18 DEF logVars
<1> QED
  BY <1>1, <1>2, <1>3, <1>4, <1>5, <1>6, <1>7, <1>8, <1>9, <1>10, <1>11, <1>12,
     <1>13, <1>14, <1>15, <1>16, <1>17, <1>18 DEF LogNext, Writer, Worker

\* Every outcome of a turn, failed close, open, header or line included, leaves the
\* writer with a file it can go on from.
LEMMA WriterStep ==
  QueueTypes /\ NumberTypes /\ CloseInv /\ WriterInv /\ [LogNext]_logVars => WriterInv'
<1> SUFFICES ASSUME QueueTypes, NumberTypes, CloseInv, WriterInv,
                    [LogNext]_logVars
             PROVE WriterInv'
  OBVIOUS
<1> USE DEF WriterInv, QueueTypes, NumberTypes, queueVars, fileVars, workVars, idleVars
<1>1. CASE \E h \in 1..Hours : Put(h)
  BY <1>1 DEF Put
<1>2. CASE Displace
  BY <1>2 DEF Displace
<1>3. CASE Get
  <2>1. Head(q) = q[1] /\ Len(q) > 0 /\ Head(q) \in Item
    BY <1>3, TailFacts DEF Get
  <2>2. Head(q).id = 0 <=> Head(q) = Stop
    BY <2>1, ItemFacts DEF CloseInv
  <2> QED
    BY <1>3, <2>2 DEF Get
<1>4. CASE Rotate
  BY <1>4, ItemFacts DEF Rotate, CloseOld, NextItem, LogFault
<1>5. CASE Open
  BY <1>5, ItemFacts DEF Open, NextItem, LogFault
<1>6. CASE Header
  BY <1>6, ItemFacts DEF Header, NextItem, LogFault
<1>7. CASE Line
  BY <1>7, ItemFacts DEF Line, NextItem, LogFault, Rotates
<1>8. CASE List
  BY <1>8 DEF List
<1>9. CASE Compress
  BY <1>9 DEF Compress, LogFault, Finished
<1>10. CASE Unlink
  BY <1>10 DEF Unlink, LogFault
<1>11. CASE \E cut \in 0..files : PruneScan(cut)
  BY <1>11 DEF PruneScan
<1>12. CASE PruneRemove
  BY <1>12 DEF PruneRemove
<1>13. CASE Again
  BY <1>13 DEF Again
<1>14. CASE Exit
  BY <1>14 DEF Exit
<1>15. CASE Close
  BY <1>15 DEF Close, AskStop, LogFault
<1>16. CASE Joined
  BY <1>16 DEF Joined, CloseOld, LogFault
<1>17. CASE LogRestart
  BY <1>17, ItemFacts DEF LogRestart
<1>18. CASE UNCHANGED logVars
  BY <1>18 DEF logVars
<1> QED
  BY <1>1, <1>2, <1>3, <1>4, <1>5, <1>6, <1>7, <1>8, <1>9, <1>10, <1>11, <1>12,
     <1>13, <1>14, <1>15, <1>16, <1>17, <1>18 DEF LogNext, Writer, Worker

\* Nothing follows the None, whatever close races with.
LEMMA CloseStep ==
  QueueTypes /\ NumberTypes /\ WriterInv /\ CloseInv /\ [LogNext]_logVars => CloseInv'
<1> SUFFICES ASSUME QueueTypes, NumberTypes, WriterInv, CloseInv,
                    [LogNext]_logVars
             PROVE CloseInv'
  OBVIOUS
<1> USE DEF CloseInv, QueueTypes, queueVars, fileVars, workVars, idleVars
<1>1. CASE \E h \in 1..Hours : Put(h)
  <2> PICK h \in 1..Hours : Put(h)
    BY <1>1
  <2>1. PICK r \in Item : PutItem(h, r)
    BY PutFacts
  <2>2. UNCHANGED <<closing, wpc, buf>> /\ r.id # 0 /\ wpc # "done" /\ closing = "no"
    BY <2>1 DEF Put, PutItem
  <2>3. CASE Len(q) < QueueMax
    BY <2>1, <2>2, <2>3, AppendFacts, SMTT(30) DEF PutItem
  <2>4. CASE ~(Len(q) < QueueMax)
    BY <2>1, <2>2, <2>4 DEF PutItem
  <2> QED
    BY <2>3, <2>4
<1>2. CASE Displace
  <2>1. hold.id # 0 /\ closing = "no" /\ wpc # "done" /\ UNCHANGED <<closing, wpc, buf>>
    BY <1>2, ItemFacts DEF Displace
  <2>2. /\ Len(q') \in Nat /\ Len(q') > 0 /\ q'[Len(q')] = hold
        /\ \A x \in 1..Len(q') : x # Len(q') => x + 1 \in 1..Len(q) /\ q'[x] = q[x + 1]
    BY <1>2, ShiftFacts DEF Displace
  <2>3. \A x \in 1..Len(q') : q'[x].id # 0
    BY <2>1, <2>2
  <2> QED
    BY <1>2, <2>1, <2>3 DEF Displace
<1>3. CASE Get
  <2>1. /\ Head(q) = q[1] /\ Len(q) > 0 /\ q' = Tail(q) /\ Len(q') = Len(q) - 1
        /\ \A x \in 1..Len(q') : q'[x] = q[x + 1]
        /\ UNCHANGED <<closing, hold, buf>> /\ closing # "joined"
    BY <1>3, TailFacts DEF Get
  <2>2. \A x \in 1..Len(q') : x + 1 \in 1..Len(q)
    BY <2>1
  <2>3. wpc' = "done" => q[1].id = 0
    BY <1>3, <2>1, ItemFacts DEF Get
  <2>4. wpc' = "done" => q' = <<>> /\ closing # "no"
    BY <2>1, <2>3
  <2> QED
    BY <2>1, <2>2, <2>4
<1>4. CASE Rotate
  BY <1>4 DEF Rotate, CloseOld, NextItem, LogFault
<1>5. CASE Open
  BY <1>5 DEF Open, NextItem, LogFault
<1>6. CASE Header
  BY <1>6 DEF Header, NextItem, LogFault
<1>7. CASE Line
  BY <1>7 DEF Line, NextItem, LogFault, Rotates
<1>8. CASE List
  BY <1>8 DEF List
<1>9. CASE Compress
  BY <1>9 DEF Compress, LogFault, Finished
<1>10. CASE Unlink
  BY <1>10 DEF Unlink, LogFault
<1>11. CASE \E cut \in 0..files : PruneScan(cut)
  BY <1>11 DEF PruneScan
<1>12. CASE PruneRemove
  BY <1>12 DEF PruneRemove
<1>13. CASE Again
  BY <1>13 DEF Again
<1>14. CASE Exit
  BY <1>14 DEF Exit
<1>15. CASE Close
  <2>1. /\ UNCHANGED <<hold, item, wpc, buf>> /\ hold = NoItem /\ closing' = "asked"
        /\ closing = "no"
        /\ \/ Len(q) < QueueMax /\ q' = Append(q, Stop)
           \/ Len(q) = QueueMax /\ q' = Append(Tail(q), Stop)
    BY <1>15 DEF Close, AskStop
  <2>2. \A x \in 1..Len(q') : q'[x].id = 0 => q'[x] = Stop /\ x = Len(q')
    <3>1. CASE q' = Append(q, Stop)
      BY <2>1, <3>1, AppendFacts, ItemFacts
    <3>2. CASE Len(q) = QueueMax /\ q' = Append(Tail(q), Stop)
      <4>1. q # <<>>
        BY <3>2, LogConstants
      <4> QED
        BY <2>1, <3>2, <4>1, ShiftFacts, ItemFacts
    <3> QED
      BY <2>1, <3>1, <3>2
  <2> QED
    BY <2>1, <2>2
<1>16. CASE Joined
  BY <1>16 DEF Joined, CloseOld, LogFault
<1>17. CASE LogRestart
  BY <1>17, ItemFacts DEF LogRestart
<1>18. CASE UNCHANGED logVars
  BY <1>18 DEF logVars
<1> QED
  BY <1>1, <1>2, <1>3, <1>4, <1>5, <1>6, <1>7, <1>8, <1>9, <1>10, <1>11, <1>12,
     <1>13, <1>14, <1>15, <1>16, <1>17, <1>18 DEF LogNext, Writer, Worker

\* No step lets a record overtake another: a displacement drops the oldest of the
\* queue, and a failed write leaves its record in the buffer before all others.
LEMMA OrderStep ==
  QueueTypes /\ NumberTypes /\ WriterInv /\ CloseInv /\ OrderInv /\ [LogNext]_logVars
    => OrderInv'
<1> SUFFICES ASSUME QueueTypes, NumberTypes, WriterInv, CloseInv, OrderInv,
                    [LogNext]_logVars
             PROVE OrderInv'
  OBVIOUS
<1> USE DEF OrderInv, QueueTypes, queueVars, fileVars, workVars, idleVars
<1>1. CASE \E h \in 1..Hours : Put(h)
  <2> PICK h \in 1..Hours : Put(h)
    BY <1>1
  <2>1. PICK r \in Item : PutItem(h, r)
    BY PutFacts
  <2>2. /\ UNCHANGED <<item, buf>>
        /\ r.id = offered + 1 /\ offered' = offered + 1 /\ hold.id = 0
    BY <2>1, ItemFacts DEF Put, PutItem
  <2>3. CASE Len(q) < QueueMax
    <3>1. /\ UNCHANGED hold /\ Len(q') = Len(q) + 1 /\ q'[Len(q) + 1] = r /\ Len(q) \in Nat
          /\ \A x \in 1..Len(q) : q'[x] = q[x]
      BY <2>1, <2>3, AppendFacts DEF PutItem
    <3>2. /\ \A x \in 1..Len(q') : x \in 1..Len(q) \/ x = Len(q) + 1
          /\ \A x \in 1..Len(q) : q[x].id \in Nat
          /\ item.id \in Nat /\ hold.id \in Nat
      BY <3>1, ItemFacts
    <3>3. buf' \subseteq 1..offered' /\ item'.id <= offered' /\ hold'.id <= offered'
      BY <2>2, <3>1, <3>2
    <3>4. ASSUME NEW x \in 1..Len(q')
          PROVE  /\ q'[x].id <= offered'
                 /\ q'[x].id # 0 => item'.id < q'[x].id /\ \A b \in buf' : b < q'[x].id
      <4>1. CASE x \in 1..Len(q)
        <5>1. q'[x] = q[x] /\ q[x].id \in Nat /\ q[x].id <= offered
          BY <3>1, <3>2, <4>1
        <5>2. q[x].id # 0 => item.id < q[x].id /\ \A b \in buf : b < q[x].id
          BY <4>1
        <5> QED
          BY <2>2, <5>1, <5>2
      <4>2. CASE x = Len(q) + 1
        BY <2>2, <3>1, <3>2, <4>2
      <4> QED
        BY <3>2, <4>1, <4>2
    <3>5. ASSUME NEW x \in 1..Len(q'), NEW y \in 1..Len(q'), x < y, q'[y].id # 0
          PROVE  q'[x].id < q'[y].id
      <4>1. x \in 1..Len(q)
        BY <3>1, <3>5
      <4>2. CASE y \in 1..Len(q)
        BY <3>1, <3>5, <4>1, <4>2
      <4>3. CASE y = Len(q) + 1
        BY <2>2, <3>1, <3>2, <4>1, <4>3
      <4> QED
        BY <3>2, <4>2, <4>3
    <3> QED
      BY <2>2, <3>1, <3>3, <3>4, <3>5
  <2>4. CASE ~(Len(q) < QueueMax)
    <3>1. UNCHANGED q /\ hold' = r
      BY <2>1, <2>4 DEF PutItem
    <3>2. \A x \in 1..Len(q) : q[x] \in Item
      OBVIOUS
    <3> QED
      BY <2>2, <3>1, <3>2, ItemFacts
  <2> QED
    BY <2>3, <2>4
<1>2. CASE Displace
  <2>1. /\ hold.id # 0 /\ UNCHANGED <<offered, item, buf>> /\ hold'.id = 0
        /\ hold.id \in Nat /\ item.id \in Nat /\ \A x \in 1..Len(q) : q[x].id \in Nat
    BY <1>2, ItemFacts DEF Displace, CloseInv
  <2>2. /\ Len(q') \in Nat /\ Len(q') > 0 /\ q'[Len(q')] = hold
        /\ \A x \in 1..Len(q') : x # Len(q') => x + 1 \in 1..Len(q) /\ q'[x] = q[x + 1]
    BY <1>2, ShiftFacts DEF Displace
  <2>3. \A x \in 1..Len(q') : /\ q'[x].id <= offered
                              /\ q'[x].id # 0 => item.id < q'[x].id /\ \A b \in buf : b < q'[x].id
    BY <2>1, <2>2
  <2>4. ASSUME NEW x \in 1..Len(q'), NEW y \in 1..Len(q'), x < y, q'[y].id # 0
        PROVE  q'[x].id < q'[y].id
    <3>1. x + 1 \in 1..Len(q) /\ q'[x] = q[x + 1]
      BY <2>2, <2>4
    <3>2. CASE y = Len(q')
      BY <2>1, <2>2, <3>1, <3>2
    <3>3. CASE y # Len(q')
      <4>1. y + 1 \in 1..Len(q) /\ q'[y] = q[y + 1]
        BY <2>2, <3>3
      <4>2. x + 1 < y + 1 /\ q[y + 1].id # 0
        BY <2>4, <4>1
      <4>3. q[x + 1].id < q[y + 1].id
        BY <3>1, <4>1, <4>2
      <4> QED
        BY <3>1, <4>1, <4>3
    <3> QED
      BY <3>2, <3>3
  <2> QED
    BY <2>1, <2>3, <2>4
<1>3. CASE Get
  <2>1. /\ Head(q) = q[1] /\ Len(q) > 0 /\ q' = Tail(q) /\ Len(q') = Len(q) - 1
        /\ \A x \in 1..Len(q') : q'[x] = q[x + 1]
        /\ UNCHANGED <<offered, hold, buf>> /\ item' = q[1] /\ Len(q) \in Nat
    BY <1>3, TailFacts DEF Get
  <2>2. \A x \in 1..Len(q') : x + 1 \in 1..Len(q)
    BY <2>1
  <2>3. 1 \in 1..Len(q)
    BY <2>1
  <2>4. \A x, y \in 1..Len(q') : x < y /\ q'[y].id # 0 => q'[x].id < q'[y].id
    BY <2>1, <2>2
  <2>5. \A x \in 1..Len(q') : q'[x].id # 0 => item'.id < q'[x].id
    BY <2>1, <2>2, <2>3
  <2> QED
    BY <2>1, <2>2, <2>3, <2>4, <2>5
<1>4. CASE Rotate
  <2>1. /\ UNCHANGED <<offered, q, hold>> /\ item' \in {item, NoItem} /\ buf' \in {buf, {}}
    BY <1>4 DEF Rotate, CloseOld, NextItem
  <2>2. \A x \in 1..Len(q) : q[x] \in Item
    OBVIOUS
  <2> QED
    BY <2>1, <2>2, ItemFacts
<1>5. CASE Open
  <2>1. /\ UNCHANGED <<offered, q, hold, buf>> /\ item' \in {item, NoItem}
    BY <1>5 DEF Open, NextItem
  <2>2. \A x \in 1..Len(q) : q[x] \in Item
    OBVIOUS
  <2> QED
    BY <2>1, <2>2, ItemFacts
<1>6. CASE Header
  <2>1. /\ UNCHANGED <<offered, q, hold, buf>> /\ item' \in {item, NoItem}
    BY <1>6 DEF Header, NextItem
  <2>2. \A x \in 1..Len(q) : q[x] \in Item
    OBVIOUS
  <2> QED
    BY <2>1, <2>2, ItemFacts
<1>7. CASE Line
  <2>1. /\ UNCHANGED <<offered, q, hold>> /\ item' = NoItem
        /\ buf' \in {{}, buf \cup {item.id}}
        /\ item.id # 0
    BY <1>7 DEF Line, NextItem, WriterInv
  <2>2. /\ \A x \in 1..Len(q) : q[x].id \in Nat
        /\ item.id \in Nat /\ item'.id = 0 /\ hold.id \in Nat
    BY <2>1, ItemFacts
  <2>a. item.id \in 1..offered
    BY <2>1, <2>2
  <2>3. buf' \subseteq 1..offered
    BY <2>1, <2>a
  <2>4. \A x \in 1..Len(q) : q[x].id # 0 => \A b \in buf' : b < q[x].id
    BY <2>1, <2>2
  <2>5. hold.id # 0 => \A b \in buf' : b < hold.id
    BY <2>1, <2>2
  <2>6. \A x \in 1..Len(q) : q[x].id # 0 => item'.id < q[x].id
    BY <2>2
  <2>7. hold.id # 0 => item'.id < hold.id
    BY <2>2
  <2> QED
    BY <2>1, <2>2, <2>3, <2>4, <2>5, <2>6, <2>7
<1>8. CASE List
  BY <1>8 DEF List
<1>9. CASE Compress
  BY <1>9 DEF Compress, LogFault, Finished
<1>10. CASE Unlink
  BY <1>10 DEF Unlink, LogFault
<1>11. CASE \E cut \in 0..files : PruneScan(cut)
  BY <1>11 DEF PruneScan
<1>12. CASE PruneRemove
  BY <1>12 DEF PruneRemove
<1>13. CASE Again
  BY <1>13 DEF Again
<1>14. CASE Exit
  BY <1>14 DEF Exit
<1>15. CASE Close
  <2>1. /\ UNCHANGED <<hold, item, buf, offered>> /\ hold = NoItem
        /\ \/ Len(q) < QueueMax /\ q' = Append(q, Stop)
           \/ Len(q) = QueueMax /\ q' = Append(Tail(q), Stop)
    BY <1>15 DEF Close, AskStop
  <2>2. CASE q' = Append(q, Stop)
    <3>1. /\ Len(q') = Len(q) + 1 /\ q'[Len(q) + 1].id = 0 /\ Len(q) \in Nat
          /\ \A x \in 1..Len(q) : q'[x] = q[x]
      BY <2>2, AppendFacts, ItemFacts
    <3>2. \A x \in 1..Len(q') : x \in 1..Len(q) \/ (x = Len(q) + 1 /\ q'[x].id = 0)
      BY <3>1
    <3>3. \A x, y \in 1..Len(q') : x < y /\ q'[y].id # 0 => q'[x].id < q'[y].id
      BY <3>1, <3>2
    <3>4. \A x \in 1..Len(q') : /\ q'[x].id <= offered
                                /\ q'[x].id # 0 => item.id < q'[x].id /\ \A b \in buf : b < q'[x].id
      BY <3>1, <3>2
    <3> QED
      BY <2>1, <3>3, <3>4, ItemFacts
  <2>3. CASE Len(q) = QueueMax /\ q' = Append(Tail(q), Stop)
    <3>1. q # <<>>
      BY <2>3, LogConstants
    <3>2. /\ Len(q') \in Nat /\ q'[Len(q')].id = 0
          /\ \A x \in 1..Len(q') : x # Len(q') => x + 1 \in 1..Len(q) /\ q'[x] = q[x + 1]
      BY <2>3, <3>1, ShiftFacts, ItemFacts
    <3>3. ASSUME NEW x \in 1..Len(q'), NEW y \in 1..Len(q'), x < y, q'[y].id # 0
          PROVE  q'[x].id < q'[y].id
      <4>1. /\ x + 1 \in 1..Len(q) /\ q'[x] = q[x + 1]
            /\ y + 1 \in 1..Len(q) /\ q'[y] = q[y + 1]
        BY <3>2, <3>3
      <4> QED
        BY <3>3, <4>1, SMTT(30)
    <3>4. \A x \in 1..Len(q') : /\ q'[x].id <= offered
                                /\ q'[x].id # 0 => item.id < q'[x].id /\ \A b \in buf : b < q'[x].id
      BY <3>2
    <3> QED
      BY <2>1, <3>3, <3>4, ItemFacts
  <2> QED
    BY <2>1, <2>2, <2>3
<1>16. CASE Joined
  <2>1. UNCHANGED <<offered, q, hold, item>> /\ buf' = {}
    BY <1>16 DEF Joined, CloseOld
  <2> QED
    BY <2>1
<1>17. CASE LogRestart
  BY <1>17, ItemFacts DEF LogRestart
<1>18. CASE UNCHANGED logVars
  BY <1>18 DEF logVars
<1> QED
  BY <1>1, <1>2, <1>3, <1>4, <1>5, <1>6, <1>7, <1>8, <1>9, <1>10, <1>11, <1>12,
     <1>13, <1>14, <1>15, <1>16, <1>17, <1>18 DEF LogNext, Writer, Worker

\* Rotation, compression and pruning in any interleaving leave the open file there,
\* and both forms of a file alike.
LEMMA FilesStep ==
  QueueTypes /\ NumberTypes /\ WriterInv /\ WorkInv /\ FilesInv /\ [LogNext]_logVars
    => FilesInv'
<1> SUFFICES ASSUME QueueTypes, NumberTypes, WriterInv, WorkInv, FilesInv,
                    [LogNext]_logVars
             PROVE FilesInv'
  OBVIOUS
<1> USE DEF FilesInv, NumberTypes, queueVars, fileVars, workVars, idleVars
<1>1. CASE \E h \in 1..Hours : Put(h)
  BY <1>1 DEF Put
<1>2. CASE Displace
  BY <1>2 DEF Displace
<1>3. CASE Get
  BY <1>3 DEF Get
<1>4. CASE Rotate
  <2>1. /\ UNCHANGED <<files, gz>> /\ DOMAIN plain' = DOMAIN plain
        /\ fh' \in {0, fh} /\ path' \in {path, files + 1}
        /\ path' # path => fh' = 0
    BY <1>4 DEF Rotate, CloseOld
  <2>2. \A f \in DOMAIN plain : f \in DOMAIN gz => plain'[f] = plain[f]
    BY <1>4 DEF Rotate, CloseOld, WriterInv
  <2> QED
    BY <2>1, <2>2
<1>5. CASE Open
  <2>1. UNCHANGED <<path, gz>> /\ files' = files + 1 /\ path = files + 1 /\ fh = 0
    BY <1>5 DEF Open, WriterInv
  <2>2. CASE UNCHANGED <<fh, plain>>
    BY <2>1, <2>2
  <2>3. CASE fh' = files + 1 /\ plain' = With(plain, files + 1, {})
    <3>1. /\ DOMAIN plain' = DOMAIN plain \cup {files + 1}
          /\ \A f \in DOMAIN plain : f # files + 1 => plain'[f] = plain[f]
      BY <2>3 DEF With
    <3>2. files + 1 \notin DOMAIN gz
      OBVIOUS
    <3> QED
      BY <2>1, <2>3, <3>1, <3>2
  <2> QED
    BY <1>5, <2>2, <2>3 DEF Open
<1>6. CASE Header
  <2>1. UNCHANGED <<fileVars, plain, gz>>
    BY <1>6 DEF Header
  <2> QED
    BY <2>1
<1>7. CASE Line
  <2>1. /\ UNCHANGED <<files, path, fh, gz>> /\ DOMAIN plain' = DOMAIN plain
    BY <1>7 DEF Line
  <2>2. fh # 0 /\ fh = path
    BY <1>7 DEF Line, Rotates, WriterInv
  <2>3. \A f \in DOMAIN plain : f \in DOMAIN gz => plain'[f] = plain[f]
    BY <1>7, <2>2 DEF Line
  <2> QED
    BY <2>1, <2>3
<1>8. CASE List
  BY <1>8 DEF List
<1>9. CASE Compress
  <2> DEFINE f == Min(todo)
  <2>1. UNCHANGED <<files, path, fh, plain>>
    BY <1>9 DEF Compress
  <2>2. CASE UNCHANGED gz
    BY <2>1, <2>2
  <2>3. CASE f # path /\ f \in DOMAIN plain /\ gz' = With(gz, f, plain[f])
    <3> HIDE DEF f
    <3>1. /\ DOMAIN gz' = DOMAIN gz \cup {f} /\ gz'[f] = plain[f]
          /\ \A g \in DOMAIN gz : g # f => gz'[g] = gz[g]
      BY <2>3 DEF With
    <3> QED
      BY <2>1, <2>3, <3>1
  <2> QED
    BY <1>9, <2>2, <2>3 DEF Compress, Finished
<1>10. CASE Unlink
  <2> DEFINE f == Min(todo)
  <2>1. UNCHANGED <<files, path, fh, gz>> /\ f # path
    BY <1>10 DEF Unlink, WorkInv
  <2>2. CASE UNCHANGED plain
    BY <2>1, <2>2
  <2>3. CASE plain' = Without(plain, f)
    <3> HIDE DEF f
    <3>1. /\ DOMAIN plain' = DOMAIN plain \ {f}
          /\ \A g \in DOMAIN plain' : plain'[g] = plain[g]
      BY <2>3 DEF Without
    <3> QED
      BY <2>1, <3>1 DEF WriterInv
  <2> QED
    BY <1>10, <2>2, <2>3 DEF Unlink
<1>11. CASE \E cut \in 0..files : PruneScan(cut)
  BY <1>11 DEF PruneScan
<1>12. CASE PruneRemove
  <2> DEFINE gone == expired \cup Surplus(Entries \ expired)
  <2>1. /\ UNCHANGED <<files, path, fh>>
        /\ plain' = [f \in {f \in DOMAIN plain : <<f, 1>> \notin gone} |-> plain[f]]
        /\ gz'    = [f \in {f \in DOMAIN gz : <<f, 2>> \notin gone} |-> gz[f]]
    BY <1>12 DEF PruneRemove
  <2>2. \A e \in gone : e[1] # path
    BY <1>12 DEF PruneRemove, WorkInv, Surplus
  <2> HIDE DEF gone
  <2>3. fh # 0 => <<fh, 1>> \notin gone
    BY <2>2 DEF WriterInv
  <2> QED
    BY <2>1, <2>3
<1>13. CASE Again
  BY <1>13 DEF Again
<1>14. CASE Exit
  BY <1>14 DEF Exit
<1>15. CASE Close
  BY <1>15 DEF Close, AskStop, LogFault
<1>16. CASE Joined
  <2>1. /\ UNCHANGED <<files, path, gz>> /\ DOMAIN plain' = DOMAIN plain /\ fh' = 0
    BY <1>16 DEF Joined, CloseOld
  <2>2. \A f \in DOMAIN plain : f \in DOMAIN gz => plain'[f] = plain[f]
    BY <1>16 DEF Joined, CloseOld, WriterInv
  <2> QED
    BY <2>1, <2>2
<1>17. CASE LogRestart
  BY <1>17 DEF LogRestart
<1>18. CASE UNCHANGED logVars
  BY <1>18 DEF logVars
<1> QED
  BY <1>1, <1>2, <1>3, <1>4, <1>5, <1>6, <1>7, <1>8, <1>9, <1>10, <1>11, <1>12,
     <1>13, <1>14, <1>15, <1>16, <1>17, <1>18 DEF LogNext, Writer, Worker

\* What the housekeeping thread has listed holds at its next step, although the
\* writer may have rotated in between.
LEMMA WorkStep ==
  QueueTypes /\ NumberTypes /\ WriterInv /\ FilesInv /\ WorkInv /\ [LogNext]_logVars
    => WorkInv'
<1> SUFFICES ASSUME QueueTypes, NumberTypes, WriterInv, FilesInv, WorkInv,
                    [LogNext]_logVars
             PROVE WorkInv'
  OBVIOUS
<1> USE DEF WorkInv, NumberTypes, queueVars, fileVars, workVars, idleVars
<1>1. CASE \E h \in 1..Hours : Put(h)
  BY <1>1 DEF Put, Entries, Before
<1>2. CASE Displace
  BY <1>2 DEF Displace, Entries, Before
<1>3. CASE Get
  BY <1>3 DEF Get, Entries, Before
<1>4. CASE Rotate
  <2>1. /\ UNCHANGED <<files, gz, wk, todo, expired>> /\ DOMAIN plain' = DOMAIN plain
        /\ path' \in {path, files + 1}
    BY <1>4 DEF Rotate, CloseOld
  <2>2. Entries' = Entries
    BY <2>1 DEF Entries
  <2> QED
    BY <2>1, <2>2 DEF FilesInv, Before
<1>5. CASE Open
  <2>1. UNCHANGED <<path, gz, wk, todo, expired>> /\ files' = files + 1
    BY <1>5 DEF Open
  <2>2. DOMAIN plain' \subseteq DOMAIN plain \cup {files + 1}
    BY <1>5 DEF Open, With
  <2>3. \A d \in Entries' : d \in Entries \/ d[1] = files + 1
    BY <2>1, <2>2 DEF Entries
  <2>4. ASSUME wk = "prune", NEW e \in expired, NEW d \in Entries', Before(d, e)
        PROVE  d \in expired
    <3>1. e[1] \in 1..files
      BY <2>4
    <3>2. d[1] # files + 1
      BY <2>4, <3>1 DEF Before
    <3> QED
      BY <2>3, <2>4, <3>2
  <2>5. ASSUME wk = "prune", NEW e \in expired
        PROVE  e \in (1..files') \X {1, 2} /\ e[1] # path
    <3>1. e \in (1..files) \X {1, 2} /\ e[1] # path
      BY <2>5
    <3>2. 1..files \subseteq 1..files'
      BY <2>1
    <3> QED
      BY <3>1, <3>2
  <2>6. wk = "unlink" => Min(todo) \in DOMAIN gz /\ Min(todo) # path
    OBVIOUS
  <2> QED
    BY <2>1, <2>4, <2>5, <2>6 DEF Before
<1>6. CASE Header
  <2>1. UNCHANGED <<fileVars, plain, gz, todo, expired>> /\ (wk' = wk \/ wk' = "start")
    BY <1>6 DEF Header
  <2> QED
    BY <2>1 DEF Entries, Before
<1>7. CASE Line
  <2>1. /\ UNCHANGED <<files, path, gz, wk, todo, expired>> /\ DOMAIN plain' = DOMAIN plain
    BY <1>7 DEF Line
  <2>2. Entries' = Entries
    BY <2>1 DEF Entries
  <2> QED
    BY <2>1, <2>2 DEF Before
<1>8. CASE List
  BY <1>8 DEF List
<1>9. CASE Compress
  <2> DEFINE f == Min(todo)
  <2>1. UNCHANGED path /\ wk' \in {"compress", "unlink"}
    BY <1>9 DEF Compress
  <2>2. wk' = "unlink" => f # path /\ gz' = With(gz, f, plain[f]) /\ UNCHANGED todo
    BY <1>9 DEF Compress, Finished
  <2>3. wk' = "unlink" => Min(todo) \in DOMAIN gz' /\ UNCHANGED todo
    BY <2>2 DEF With
  <2> QED
    BY <2>1, <2>2, <2>3
<1>10. CASE Unlink
  BY <1>10 DEF Unlink, LogFault
<1>11. CASE \E cut \in 0..files : PruneScan(cut)
  <2> PICK cut \in 0..files : PruneScan(cut)
    BY <1>11
  <2>1. /\ UNCHANGED <<files, path, plain, gz>> /\ wk' = "prune"
        /\ expired' = {e \in Entries : e[1] < cut /\ e[1] # path}
    BY DEF PruneScan
  <2>2. Entries' = Entries /\ Entries \subseteq (1..files) \X {1, 2}
    BY <2>1 DEF Entries, FilesInv
  <2>3. ASSUME NEW e \in expired', NEW d \in Entries, Before(d, e) PROVE d \in expired'
    <3>1. /\ d[1] \in 1..files /\ e[1] \in 1..files /\ d[1] <= e[1]
          /\ e[1] < cut /\ e[1] # path
      BY <2>1, <2>2, <2>3 DEF Before
    <3>2. path \notin 1..files - 1
      BY DEF WriterInv
    <3>3. d[1] # path
      BY <3>1, <3>2
    <3> QED
      BY <2>1, <3>1, <3>3
  <2> QED
    BY <2>1, <2>2, <2>3 DEF Before
<1>12. CASE PruneRemove
  BY <1>12 DEF PruneRemove
<1>13. CASE Again
  BY <1>13 DEF Again
<1>14. CASE Exit
  BY <1>14 DEF Exit
<1>15. CASE Close
  BY <1>15 DEF Close, AskStop, LogFault, Entries, Before
<1>16. CASE Joined
  <2>1. /\ UNCHANGED <<files, path, gz, wk, todo, expired>> /\ DOMAIN plain' = DOMAIN plain
    BY <1>16 DEF Joined, CloseOld
  <2>2. Entries' = Entries
    BY <2>1 DEF Entries
  <2> QED
    BY <2>1, <2>2 DEF Before
<1>17. CASE LogRestart
  BY <1>17 DEF LogRestart
<1>18. CASE UNCHANGED logVars
  BY <1>18 DEF logVars, Entries, Before
<1> QED
  BY <1>1, <1>2, <1>3, <1>4, <1>5, <1>6, <1>7, <1>8, <1>9, <1>10, <1>11, <1>12,
     <1>13, <1>14, <1>15, <1>16, <1>17, <1>18 DEF LogNext, Writer, Worker

\* What is kept is what the files hold; a plain file holds what its other form does.
LEMMA HeldFacts ==
  ASSUME FilesInv
  PROVE  /\ \A k : k \in Kept <=> \E f \in 1..files : k \in Held(f)
         /\ \A f : f \notin 1..files => Held(f) = {}
         /\ \A f \in DOMAIN plain : Held(f) = plain[f]
<1>1. \A k : k \in Kept => \E f \in 1..files : k \in Held(f)
  BY DEF FilesInv, Kept, OnDisk, Held
<1>2. \A f, k : k \in Held(f) => k \in Kept
  BY DEF FilesInv, Kept, OnDisk, Held
<1>3. \A f : f \notin 1..files => Held(f) = {}
  BY DEF FilesInv, Held
<1>4. \A f \in DOMAIN plain : Held(f) = plain[f]
  BY DEF FilesInv, Held
<1> QED
  BY <1>1, <1>2, <1>3, <1>4

\* Files that only shrink stay in order.
LEMMA HeldShrinks ==
  ASSUME FilesInv, RecordsInv, files \in Nat, files' \in Nat,
         \A f \in 1..files' : Held(f)' \subseteq Held(f)
  PROVE  RecordsInv'
<1>1. SUFFICES ASSUME NEW f \in 1..files', NEW g \in 1..files', f < g,
                      NEW x \in Held(f)', NEW y \in Held(g)'
               PROVE  x < y
  BY DEF RecordsInv
<1>2. x \in Held(f) /\ y \in Held(g)
  OBVIOUS
<1>3. f \in 1..files /\ g \in 1..files
  BY <1>2, HeldFacts
<1> QED
  BY <1>1, <1>2, <1>3 DEF RecordsInv

\* The newest file may take records newer than all that are kept.
LEMMA HeldGrows ==
  ASSUME FilesInv, RecordsInv, files \in Nat, files' = files, NEW rs,
         \A f \in 1..files : f # files => Held(f)' = Held(f),
         Held(files)' \subseteq Held(files) \cup rs,
         \A k \in Kept, r \in rs : k < r
  PROVE  RecordsInv'
<1>1. SUFFICES ASSUME NEW f \in 1..files, NEW g \in 1..files, f < g,
                      NEW x \in Held(f)', NEW y \in Held(g)'
               PROVE  x < y
  BY DEF RecordsInv
<1>2. x \in Held(f) /\ x \in Kept
  BY <1>1, HeldFacts
<1>3. CASE y \in Held(g)
  BY <1>1, <1>2, <1>3 DEF RecordsInv
<1>4. CASE y \in rs
  BY <1>2, <1>4
<1> QED
  BY <1>1, <1>3, <1>4

\* What is in the buffer or with the writer still waits.
LEMMA BufferWaits ==
  ASSUME QueueTypes, WriterInv, OrderInv
  PROVE  buf \subseteq Waiting /\ (item.id # 0 => item.id \in Waiting)
<1>1. \A b \in buf : b # 0
  BY DEF OrderInv, QueueTypes
<1> QED
  BY <1>1 DEF Waiting, Queued

\* Only the newest file is written to, and with records newer than any.
LEMMA RecordsStep ==
  /\ QueueTypes /\ NumberTypes /\ WriterInv /\ OrderInv /\ FilesInv /\ KeptInv
  /\ RecordsInv /\ [LogNext]_logVars
  => RecordsInv'
<1> SUFFICES ASSUME QueueTypes, NumberTypes, WriterInv, OrderInv, FilesInv, KeptInv,
                    RecordsInv, [LogNext]_logVars
             PROVE  RecordsInv'
  OBVIOUS
<1> USE DEF NumberTypes, queueVars, fileVars, workVars, idleVars
<1>1. CASE \E h \in 1..Hours : Put(h)
  <2>1. UNCHANGED <<plain, gz, files>>
    BY <1>1 DEF Put
  <2> QED
    BY <2>1, HeldShrinks DEF Held
<1>2. CASE Displace
  <2>1. UNCHANGED <<plain, gz, files>>
    BY <1>2 DEF Displace
  <2> QED
    BY <2>1, HeldShrinks DEF Held
<1>3. CASE Get
  <2>1. UNCHANGED <<plain, gz, files>>
    BY <1>3 DEF Get
  <2> QED
    BY <2>1, HeldShrinks DEF Held
<1>4. CASE Rotate
  <2>1. CASE UNCHANGED <<plain, gz>> /\ files' = files
    BY <2>1, HeldShrinks DEF Held
  <2>2. CASE fh # 0 /\ plain' = [plain EXCEPT ![fh] = @ \cup buf]
    <3>1. /\ fh = files /\ files' = files /\ UNCHANGED gz /\ wpc # "open"
          /\ plain' = [plain EXCEPT ![files] = @ \cup buf] /\ files \in DOMAIN plain
      BY <1>4, <2>2 DEF Rotate, FilesInv, WriterInv
    <3>2. /\ \A f \in 1..files : f # files => Held(f)' = Held(f)
          /\ Held(files)' \subseteq Held(files) \cup buf
      BY <3>1 DEF Held
    <3>3. \A k \in Kept, r \in buf : k < r
      BY BufferWaits DEF KeptInv
    <3> QED
      BY <3>1, <3>2, <3>3, HeldGrows
  <2> QED
    BY <1>4, <2>1, <2>2 DEF Rotate, CloseOld
<1>5. CASE Open
  <2>1. UNCHANGED gz /\ files' = files + 1
    BY <1>5 DEF Open
  <2>2. UNCHANGED plain \/ plain' = With(plain, files + 1, {})
    BY <1>5 DEF Open
  <2>3. \A f \in 1..files' : Held(f)' \subseteq Held(f)
    BY <2>1, <2>2 DEF Held, With
  <2> QED
    BY <2>1, <2>3, HeldShrinks
<1>6. CASE Header
  <2>1. UNCHANGED <<plain, gz, files>>
    BY <1>6 DEF Header
  <2> QED
    BY <2>1, HeldShrinks DEF Held
<1>7. CASE Line
  <2>1. CASE UNCHANGED plain
    BY <1>7, <2>1, HeldShrinks DEF Line, Held
  <2>2. CASE plain' = [plain EXCEPT ![fh] = @ \cup buf \cup {item.id}]
    <3>1. /\ fh = files /\ files' = files /\ UNCHANGED gz /\ item.id # 0
          /\ plain' = [plain EXCEPT ![files] = @ \cup buf \cup {item.id}]
          /\ files \in DOMAIN plain
      BY <1>7, <2>2 DEF Line, Rotates, FilesInv, WriterInv
    <3>2. /\ \A f \in 1..files : f # files => Held(f)' = Held(f)
          /\ Held(files)' \subseteq Held(files) \cup (buf \cup {item.id})
      BY <3>1 DEF Held
    <3>3. \A k \in Kept, r \in buf \cup {item.id} : k < r
      BY <3>1, BufferWaits DEF KeptInv
    <3> QED
      BY <3>1, <3>2, <3>3, HeldGrows
  <2> QED
    BY <1>7, <2>1, <2>2 DEF Line
<1>8. CASE List
  <2>1. UNCHANGED <<plain, gz, files>>
    BY <1>8 DEF List
  <2> QED
    BY <2>1, HeldShrinks DEF Held
<1>9. CASE Compress
  <2> DEFINE f == Min(todo)
  <2>1. UNCHANGED <<files, plain>>
    BY <1>9 DEF Compress
  <2>2. CASE UNCHANGED gz
    BY <2>1, <2>2, HeldShrinks DEF Held
  <2>3. CASE f \in DOMAIN plain /\ gz' = With(gz, f, plain[f])
    <3> HIDE DEF f
    <3>1. \A g : Held(g)' \subseteq Held(g)
      BY <2>1, <2>3 DEF Held, With
    <3> QED
      BY <2>1, <3>1, HeldShrinks
  <2> QED
    BY <1>9, <2>2, <2>3 DEF Compress
<1>10. CASE Unlink
  <2>1. UNCHANGED <<files, gz>> /\ (UNCHANGED plain \/ plain' = Without(plain, Min(todo)))
    BY <1>10 DEF Unlink
  <2>2. \A g : Held(g)' \subseteq Held(g)
    BY <2>1 DEF Held, Without
  <2> QED
    BY <2>1, <2>2, HeldShrinks
<1>11. CASE \E cut \in 0..files : PruneScan(cut)
  <2>1. UNCHANGED <<plain, gz, files>>
    BY <1>11 DEF PruneScan
  <2> QED
    BY <2>1, HeldShrinks DEF Held
<1>12. CASE PruneRemove
  <2> DEFINE gone == expired \cup Surplus(Entries \ expired)
  <2>1. /\ UNCHANGED files
        /\ plain' = [f \in {f \in DOMAIN plain : <<f, 1>> \notin gone} |-> plain[f]]
        /\ gz'    = [f \in {f \in DOMAIN gz : <<f, 2>> \notin gone} |-> gz[f]]
    BY <1>12 DEF PruneRemove
  <2> HIDE DEF gone
  <2>2. \A g : Held(g)' \subseteq Held(g)
    BY <2>1 DEF Held
  <2> QED
    BY <2>1, <2>2, HeldShrinks
<1>13. CASE Again
  <2>1. UNCHANGED <<plain, gz, files>>
    BY <1>13 DEF Again
  <2> QED
    BY <2>1, HeldShrinks DEF Held
<1>14. CASE Exit
  <2>1. UNCHANGED <<plain, gz, files>>
    BY <1>14 DEF Exit
  <2> QED
    BY <2>1, HeldShrinks DEF Held
<1>15. CASE Close
  <2>1. UNCHANGED <<plain, gz, files>>
    BY <1>15 DEF Close
  <2> QED
    BY <2>1, HeldShrinks DEF Held
<1>16. CASE Joined
  <2>1. CASE UNCHANGED <<plain, gz>> /\ files' = files
    BY <2>1, HeldShrinks DEF Held
  <2>2. CASE fh # 0 /\ plain' = [plain EXCEPT ![fh] = @ \cup buf]
    <3>1. /\ fh = files /\ files' = files /\ UNCHANGED gz /\ wpc # "open"
          /\ plain' = [plain EXCEPT ![files] = @ \cup buf] /\ files \in DOMAIN plain
      BY <1>16, <2>2 DEF Joined, FilesInv, WriterInv
    <3>2. /\ \A f \in 1..files : f # files => Held(f)' = Held(f)
          /\ Held(files)' \subseteq Held(files) \cup buf
      BY <3>1 DEF Held
    <3>3. \A k \in Kept, r \in buf : k < r
      BY BufferWaits DEF KeptInv
    <3> QED
      BY <3>1, <3>2, <3>3, HeldGrows
  <2> QED
    BY <1>16, <2>1, <2>2 DEF Joined, CloseOld
<1>17. CASE LogRestart
  <2>1. UNCHANGED <<plain, gz, files>>
    BY <1>17 DEF LogRestart
  <2> QED
    BY <2>1, HeldShrinks DEF Held
<1>18. CASE UNCHANGED logVars
  <2>1. UNCHANGED <<plain, gz, files>>
    BY <1>18 DEF logVars
  <2> QED
    BY <2>1, HeldShrinks DEF Held
<1> QED
  BY <1>1, <1>2, <1>3, <1>4, <1>5, <1>6, <1>7, <1>8, <1>9, <1>10, <1>11, <1>12,
     <1>13, <1>14, <1>15, <1>16, <1>17, <1>18 DEF LogNext, Writer, Worker

\* No record is offered.
Unoffered == offered' = offered

\* The moves a step may make on the records that wait and those that are kept: a
\* record is offered,
Offers == offered' = offered + 1 /\ Waiting' = Waiting \cup {offered + 1} /\ Kept' = Kept

\* nothing moves,
Rests == Unoffered /\ Waiting' = Waiting /\ Kept' = Kept

\* records that wait are lost, by a displacement or a fault, and none of them once
\* closing without a fault,
Loses ==
  /\ Unoffered /\ Waiting' \subseteq Waiting /\ Kept' = Kept
  /\ closing' = "no" \/ logFaults' # logFaults

\* the oldest records that wait reach the disk,
Keeps ==
  \E rs \in SUBSET Waiting :
    /\ Unoffered /\ Waiting' = Waiting \ rs /\ Kept' = Kept \cup rs
    /\ \A r \in rs, w \in Waiting \ rs : r < w

\* or the oldest records on the disk are forgotten.
Forgets ==
  /\ Unoffered /\ Waiting' = Waiting /\ Kept' \subseteq Kept
  /\ \A k \in Kept', j \in Kept \ Kept' : j < k

\* Every step of the log is one of these.
Move == Offers \/ Rests \/ Loses \/ Keeps \/ Forgets

\* Who waits, by place.
LEMMA WaitingIs ==
  ASSUME QueueTypes
  PROVE  \A w : w \in Waiting <=> /\ w # 0
                                  /\ \/ w \in {hold.id, item.id} \cup buf
                                     \/ \E x \in 1..Len(q) : w = q[x].id
  BY DEF QueueTypes, Waiting, Queued

\* Who waits after a step, by place.
LEMMA WaitingAfter ==
  ASSUME QueueTypes'
  PROVE  \A w : w \in Waiting' <=> /\ w # 0
                                   /\ \/ w \in {hold'.id, item'.id} \cup buf'
                                      \/ \E x \in 1..Len(q') : w = q'[x].id
  BY DEF QueueTypes, Waiting, Queued

\* Whoever waits was offered.
LEMMA WaitingWasOffered ==
  ASSUME QueueTypes, OrderInv
  PROVE  Waiting \subseteq 1..offered
<1> SUFFICES ASSUME NEW w \in Waiting PROVE w \in 1..offered
  OBVIOUS
<1>a. /\ w # 0 /\ hold.id \in Nat /\ item.id \in Nat /\ hold.id <= offered
      /\ item.id <= offered /\ buf \subseteq 1..offered /\ offered \in Nat
  BY WaitingIs, ItemFacts DEF QueueTypes, OrderInv
<1>b. \A n \in Nat : n # 0 /\ n <= offered => n \in 1..offered
  BY <1>a
<1>1. CASE w \in {hold.id, item.id} \cup buf
  <2>1. CASE w = hold.id
    BY <1>a, <1>b, <2>1
  <2>2. CASE w = item.id
    BY <1>a, <1>b, <2>2
  <2> QED
    BY <1>1, <1>a, <2>1, <2>2
<1>2. CASE \E x \in 1..Len(q) : w = q[x].id
  <2> PICK x \in 1..Len(q) : w = q[x].id
    BY <1>2
  <2>1. q[x].id \in Nat /\ q[x].id <= offered /\ w # 0
    BY WaitingIs, ItemFacts DEF QueueTypes, OrderInv
  <2> QED
    BY <2>1 DEF QueueTypes
<1> QED
  BY <1>1, <1>2, WaitingIs

\* Nobody moves when queue, writer and buffer stand still.
LEMMA SameWaiting ==
  ASSUME UNCHANGED <<q, hold, item, buf>>
  PROVE  Waiting' = Waiting
  BY DEF Waiting, Queued

\* Nothing moves on the disk when the files stand still.
LEMMA SameKept ==
  ASSUME UNCHANGED <<plain, gz>>
  PROVE  Kept' = Kept
  BY DEF Kept, OnDisk

\* write offers a record, also when it finds the queue full.
LEMMA PutMoves ==
  ASSUME QueueTypes, QueueTypes', NEW h \in 1..Hours, Put(h)
  PROVE  Offers
<1>1. PICK r \in Item : PutItem(h, r)
  BY PutFacts
<1>a. UNCHANGED <<buf, item, plain, gz>> /\ offered' = offered + 1 /\ hold = NoItem
  BY DEF Put, fileVars
<1>2. Kept' = Kept /\ UNCHANGED <<buf, item>> /\ offered' = offered + 1 /\ hold.id = 0
  BY <1>a, SameKept, ItemFacts
<1>3. offered + 1 # 0
  BY DEF QueueTypes
<1>4. CASE Len(q) < QueueMax
  <2>1. /\ UNCHANGED hold /\ Len(q') = Len(q) + 1 /\ q'[Len(q) + 1] = r /\ Len(q) \in Nat
        /\ \A x \in 1..Len(q) : q'[x] = q[x]
    BY <1>1, <1>4, AppendFacts DEF PutItem, QueueTypes
  <2>2. \A w : (\E x \in 1..Len(q') : w = q'[x].id)
                 <=> w = offered + 1 \/ \E x \in 1..Len(q) : w = q[x].id
    <3>1. \A x \in 1..Len(q') : x \in 1..Len(q) \/ x = Len(q) + 1
      BY <2>1
    <3>2. Len(q) + 1 \in 1..Len(q') /\ 1..Len(q) \subseteq 1..Len(q')
      BY <2>1
    <3>3. r.id = offered + 1
      BY <1>1 DEF PutItem
    <3> QED
      BY <2>1, <3>1, <3>2, <3>3
  <2>3. UNCHANGED <<hold, item, buf>>
    BY <1>2, <2>1
  <2>4. ASSUME NEW w PROVE w \in Waiting' <=> w \in Waiting \/ w = offered + 1
    BY <1>3, <2>2, <2>3, WaitingIs, WaitingAfter
  <2> QED
    BY <1>2, <2>4 DEF Offers
<1>5. CASE ~(Len(q) < QueueMax)
  <2>1. UNCHANGED q /\ hold'.id = offered + 1
    BY <1>1, <1>5 DEF PutItem
  <2>2. \A w : w \in Waiting' <=> w \in Waiting \/ w = offered + 1
    BY <1>2, <1>3, <2>1, WaitingIs, WaitingAfter
  <2> QED
    BY <1>2, <2>2 DEF Offers
<1> QED
  BY <1>4, <1>5

\* Making room loses the oldest record of the queue, if the writer has left one.
LEMMA DisplaceMoves ==
  ASSUME QueueTypes, QueueTypes', CloseInv, Displace
  PROVE  Loses
<1>a. /\ UNCHANGED <<offered, item, buf, closing, plain, gz>> /\ hold' = NoItem
      /\ closing = "no"
  BY DEF Displace, CloseInv, fileVars
<1>1. /\ UNCHANGED <<offered, item, buf, closing>> /\ hold'.id = 0 /\ closing = "no"
      /\ Kept' = Kept
  BY <1>a, ItemFacts, SameKept
<1>2. /\ Len(q') \in Nat /\ Len(q') > 0 /\ q'[Len(q')] = hold
      /\ \A x \in 1..Len(q') : x # Len(q') => x + 1 \in 1..Len(q) /\ q'[x] = q[x + 1]
  BY ShiftFacts DEF Displace, QueueTypes
<1>3. \A w : (\E x \in 1..Len(q') : w = q'[x].id)
               => w = hold.id \/ \E x \in 1..Len(q) : w = q[x].id
  BY <1>2
<1>4. \A w : w \in Waiting' => w \in Waiting
  BY <1>1, <1>3, WaitingIs, WaitingAfter
<1> QED
  BY <1>1, <1>4 DEF Loses, Unoffered

\* Taking a record from the queue moves it nowhere.
LEMMA GetMoves ==
  ASSUME QueueTypes, QueueTypes', WriterInv, Get
  PROVE  Rests
<1>a. UNCHANGED <<offered, hold, buf, plain, gz>> /\ item' = Head(q) /\ item.id = 0
  BY DEF Get, WriterInv, fileVars
<1>b. /\ Len(q) \in Nat /\ Len(q) > 0 /\ Len(q') = Len(q) - 1 /\ Head(q) = q[1]
      /\ \A x \in 1..Len(q') : q'[x] = q[x + 1]
  BY TailFacts DEF Get, QueueTypes
<1>1. /\ Len(q) \in Nat /\ Len(q) > 0 /\ Len(q') = Len(q) - 1
      /\ \A x \in 1..Len(q') : q'[x] = q[x + 1]
      /\ UNCHANGED <<offered, hold, buf>> /\ item' = q[1] /\ Kept' = Kept /\ item.id = 0
  BY <1>a, <1>b, SameKept
<1>2. \A x \in 1..Len(q') : x + 1 \in 1..Len(q)
  BY <1>1
<1>3. ASSUME NEW x \in 1..Len(q), x # 1 PROVE x - 1 \in 1..Len(q') /\ q[x] = q'[x - 1]
  <2>1. x - 1 \in 1..Len(q') /\ (x - 1) + 1 = x
    BY <1>1, <1>3
  <2> QED
    BY <1>1, <2>1
<1>4. 1 \in 1..Len(q)
  BY <1>1
<1>5. \A w : w = item'.id \/ (\E x \in 1..Len(q') : w = q'[x].id)
               <=> \E x \in 1..Len(q) : w = q[x].id
  <2>1. \A w : (\E x \in 1..Len(q') : w = q'[x].id) => \E x \in 1..Len(q) : w = q[x].id
    BY <1>1, <1>2
  <2>2. \A x \in 1..Len(q) : q[x] = item' \/ \E y \in 1..Len(q') : q[x] = q'[y]
    BY <1>1, <1>3
  <2>3. \E x \in 1..Len(q) : item' = q[x]
    BY <1>1, <1>4
  <2> QED
    BY <2>1, <2>2, <2>3
<1>6. UNCHANGED <<hold, buf>> /\ item.id = 0
  BY <1>1
<1>7. ASSUME NEW w PROVE w \in Waiting' <=> w \in Waiting
  BY <1>5, <1>6, WaitingIs, WaitingAfter
<1> QED
  BY <1>1, <1>7 DEF Rests, Unoffered

\* A turn that fails loses at most its record and the buffer, and is a fault.
LEMMA FailedTurnMoves ==
  ASSUME QueueTypes, QueueTypes', UNCHANGED <<offered, q, hold, plain, gz>>,
         item'.id \in {0, item.id}, buf' \in {{}, buf}, logFaults' # logFaults
  PROVE  Loses
<1>1. \A w : w \in Waiting' => w \in Waiting
  BY WaitingIs, WaitingAfter
<1> QED
  BY <1>1, SameKept DEF Loses, Unoffered

\* Writing to a file adds the records to what is on the disk.
LEMMA DiskGrows ==
  ASSUME NEW f, NEW x \in DOMAIN f, NEW rs
  PROVE  OnDisk([f EXCEPT ![x] = @ \cup rs]) = OnDisk(f) \cup rs
<1> DEFINE g == [f EXCEPT ![x] = @ \cup rs]
<1>1. DOMAIN g = DOMAIN f /\ g[x] = f[x] \cup rs /\ \A y \in DOMAIN f : y # x => g[y] = f[y]
  OBVIOUS
<1> HIDE DEF g
<1>2. \A k : k \in OnDisk(g) <=> k \in OnDisk(f) \/ k \in rs
  <2>1. \A k : k \in OnDisk(g) => k \in OnDisk(f) \/ k \in rs
    BY <1>1 DEF OnDisk
  <2>2. \A k \in OnDisk(f) : k \in OnDisk(g)
    BY <1>1 DEF OnDisk
  <2>3. \A k \in rs : k \in OnDisk(g)
    BY <1>1 DEF OnDisk
  <2> QED
    BY <2>1, <2>2, <2>3
<1>3. OnDisk(g) = OnDisk(f) \cup rs
  BY <1>2
<1> QED
  BY <1>3 DEF g

\* Closing a file keeps its buffer, which holds the oldest records that wait.
LEMMA FlushMoves ==
  ASSUME QueueTypes, QueueTypes', WriterInv, OrderInv, FilesInv, CloseOld,
         UNCHANGED <<offered, q, hold, item, gz>>
  PROVE  Keeps
<1>1. Kept' = Kept \cup buf
  <2>1. CASE fh = 0
    BY <2>1, SameKept DEF CloseOld, WriterInv
  <2>2. CASE fh # 0
    <3>1. fh \in DOMAIN plain /\ plain' = [plain EXCEPT ![fh] = @ \cup buf]
      BY <2>2 DEF CloseOld, FilesInv
    <3>2. OnDisk(plain') = OnDisk(plain) \cup buf
      BY <3>1, DiskGrows
    <3>3. OnDisk(gz') = OnDisk(gz)
      OBVIOUS
    <3> QED
      BY <3>2, <3>3 DEF Kept
  <2> QED
    BY <2>1, <2>2
<1>2. buf' = {} /\ buf \in SUBSET Waiting
  BY BufferWaits DEF CloseOld
<1>3. \A w \in Waiting : w \in buf \/ \A b \in buf : b < w
  BY WaitingIs DEF OrderInv
<1>4. \A w \in buf : /\ w # 0 => w # item.id /\ w # hold.id
                     /\ \A x \in 1..Len(q) : w # 0 => w # q[x].id
  BY ItemFacts DEF OrderInv, QueueTypes
<1>5. \A w : w \in Waiting' <=> w \in Waiting /\ w \notin buf
  BY <1>2, <1>4, WaitingIs, WaitingAfter
<1>6. Waiting' = Waiting \ buf
  BY <1>5
<1> QED
  BY <1>1, <1>2, <1>3, <1>6 DEF Keeps, Unoffered

\* A line keeps the buffer and the record, or leaves the record in the buffer.
LEMMA LineMoves ==
  ASSUME QueueTypes, QueueTypes', WriterInv, OrderInv, FilesInv, Line
  PROVE  Rests \/ Keeps
<1>1. /\ UNCHANGED <<offered, q, hold, gz>> /\ item'.id = 0 /\ item.id # 0
      /\ fh \in DOMAIN plain
  BY ItemFacts DEF Line, NextItem, queueVars, Rotates, WriterInv, FilesInv
<1>2. CASE plain' = [plain EXCEPT ![fh] = @ \cup buf \cup {item.id}] /\ buf' = {}
  <2> DEFINE rs == buf \cup {item.id}
  <2>1. Kept' = Kept \cup rs
    <3>1. plain' = [plain EXCEPT ![fh] = @ \cup rs]
      BY <1>2
    <3> HIDE DEF rs
    <3>2. OnDisk(plain') = OnDisk(plain) \cup rs
      BY <1>1, <3>1, DiskGrows
    <3>3. OnDisk(gz') = OnDisk(gz)
      BY <1>1
    <3> QED
      BY <3>2, <3>3 DEF Kept
  <2>2. rs \in SUBSET Waiting
    BY <1>1, BufferWaits
  <2>3. \A w \in Waiting : w \in rs \/ \A r \in rs : r < w
    BY <1>1, WaitingIs DEF OrderInv
  <2>4. \A b \in rs : /\ b # 0 => b # hold.id
                      /\ \A x \in 1..Len(q) : b # 0 => b # q[x].id
    BY <1>1, ItemFacts DEF OrderInv, QueueTypes
  <2>5. \A w : w \in Waiting' <=> w \in Waiting /\ w \notin rs
    BY <1>1, <1>2, <2>4, WaitingIs, WaitingAfter
  <2>6. Waiting' = Waiting \ rs
    BY <2>5
  <2> HIDE DEF rs
  <2> QED
    BY <1>1, <2>1, <2>2, <2>3, <2>6 DEF Keeps, Unoffered
<1>3. CASE UNCHANGED plain /\ buf' = buf \cup {item.id}
  <2>1. \A w : w \in Waiting' <=> w \in Waiting
    BY <1>1, <1>3, WaitingIs, WaitingAfter
  <2> QED
    BY <1>1, <1>3, <2>1, SameKept DEF Rests, Unoffered
<1> QED
  BY <1>2, <1>3 DEF Line

\* Opening a file keeps nothing yet; a failure loses the record.
LEMMA OpenMoves ==
  ASSUME QueueTypes, QueueTypes', FilesInv, NumberTypes, Open
  PROVE  Rests \/ Loses
<1>1. UNCHANGED <<offered, q, hold, buf, gz>>
  BY DEF Open, queueVars
<1>2. CASE plain' = With(plain, files + 1, {}) /\ UNCHANGED item
  <2>1. files + 1 \notin DOMAIN plain
    BY DEF FilesInv, NumberTypes
  <2>2. /\ DOMAIN plain' = DOMAIN plain \cup {files + 1} /\ plain'[files + 1] = {}
        /\ \A f \in DOMAIN plain : plain'[f] = plain[f]
    BY <1>2, <2>1 DEF With
  <2>3. OnDisk(plain') = OnDisk(plain)
    <3>1. \A k : k \in OnDisk(plain') => k \in OnDisk(plain)
      BY <2>2 DEF OnDisk
    <3>2. \A k : k \in OnDisk(plain) => k \in OnDisk(plain')
      BY <2>2 DEF OnDisk
    <3> QED
      BY <3>1, <3>2
  <2>4. OnDisk(gz') = OnDisk(gz)
    BY <1>1
  <2>5. Kept' = Kept
    BY <2>3, <2>4 DEF Kept
  <2> QED
    BY <1>1, <1>2, <2>5, SameWaiting DEF Rests, Unoffered
<1>3. CASE LogFault /\ NextItem /\ UNCHANGED plain
  <2>1. item'.id = 0 /\ logFaults' # logFaults
    BY <1>3, ItemFacts DEF NextItem, LogFault, NumberTypes
  <2> QED
    BY <1>1, <1>3, <2>1, FailedTurnMoves
<1> QED
  BY <1>2, <1>3 DEF Open

\* Compressing a file, or removing its plain form, changes nothing that is kept: the
\* other form has the same records.
LEMMA FileMoves ==
  ASSUME FilesInv, WorkInv, Compress \/ Unlink
  PROVE  Rests
<1>1. UNCHANGED <<offered, q, hold, item, buf>>
  BY DEF Compress, Unlink, idleVars, queueVars, fileVars
<1>2. CASE UNCHANGED <<plain, gz>>
  BY <1>1, <1>2, SameWaiting, SameKept DEF Rests, Unoffered
<1>3. CASE /\ Min(todo) \in DOMAIN plain
           /\ gz' = With(gz, Min(todo), plain[Min(todo)]) /\ UNCHANGED plain
  <2> DEFINE f == Min(todo)
  <2>1. f \in DOMAIN plain /\ gz' = With(gz, f, plain[f]) /\ UNCHANGED plain
    BY <1>3
  <2> HIDE DEF f
  <2>2. /\ DOMAIN gz' = DOMAIN gz \cup {f} /\ gz'[f] = plain[f]
        /\ \A g \in DOMAIN gz : gz'[g] = gz[g]
    BY <2>1 DEF With, FilesInv
  <2>3. \A k : k \in OnDisk(gz') => k \in OnDisk(gz) \/ k \in plain[f]
    BY <2>2 DEF OnDisk
  <2>4. \A k : k \in OnDisk(gz) => k \in OnDisk(gz')
    BY <2>2 DEF OnDisk
  <2>5. \A k \in plain[f] : k \in OnDisk(plain)
    BY <2>1 DEF OnDisk
  <2>6. OnDisk(plain') = OnDisk(plain)
    BY <2>1
  <2>7. Kept' = Kept
    BY <2>3, <2>4, <2>5, <2>6 DEF Kept
  <2> QED
    BY <1>1, <2>7, SameWaiting DEF Rests, Unoffered
<1>4. CASE wk = "unlink" /\ plain' = Without(plain, Min(todo)) /\ UNCHANGED gz
  <2> DEFINE f == Min(todo)
  <2>1. f \in DOMAIN gz /\ plain' = Without(plain, f) /\ UNCHANGED gz
    BY <1>4 DEF WorkInv
  <2> HIDE DEF f
  <2>2. DOMAIN plain' = DOMAIN plain \ {f} /\ \A g \in DOMAIN plain' : plain'[g] = plain[g]
    BY <2>1 DEF Without
  <2>3. \A k : k \in OnDisk(plain') => k \in OnDisk(plain)
    BY <2>2 DEF OnDisk
  <2>4. \A k : k \in OnDisk(plain) =>
          k \in OnDisk(plain') \/ (f \in DOMAIN plain /\ k \in plain[f])
    BY <2>2 DEF OnDisk
  <2>5. \A k : f \in DOMAIN plain /\ k \in plain[f] => k \in OnDisk(gz)
    BY <2>1 DEF OnDisk, FilesInv
  <2>6. OnDisk(gz') = OnDisk(gz)
    BY <2>1
  <2>7. Kept' = Kept
    BY <2>3, <2>4, <2>5, <2>6 DEF Kept
  <2> QED
    BY <1>1, <2>7, SameWaiting DEF Rests, Unoffered
<1> QED
  BY <1>2, <1>3, <1>4 DEF Compress, Unlink

\* close loses a record only if the writer is stuck.
LEMMA CloseMoves ==
  ASSUME QueueTypes, QueueTypes', NumberTypes, Close
  PROVE  Rests \/ Loses
<1>1. UNCHANGED <<offered, hold, item, buf, plain, gz>>
  BY DEF Close, fileVars
<1>2. CASE q' = Append(q, Stop)
  <2>1. /\ Len(q') = Len(q) + 1 /\ q'[Len(q) + 1].id = 0 /\ Len(q) \in Nat
        /\ \A x \in 1..Len(q) : q'[x] = q[x]
    BY <1>2, AppendFacts, ItemFacts DEF QueueTypes
  <2>2. \A w : w # 0 => ((\E x \in 1..Len(q') : w = q'[x].id)
                           <=> \E x \in 1..Len(q) : w = q[x].id)
    <3>1. \A x \in 1..Len(q') : x \in 1..Len(q) \/ q'[x].id = 0
      BY <2>1
    <3>2. 1..Len(q) \subseteq 1..Len(q')
      BY <2>1
    <3> QED
      BY <2>1, <3>1, <3>2
  <2>3. ASSUME NEW w PROVE w \in Waiting' <=> w \in Waiting
    BY <1>1, <2>2, WaitingIs, WaitingAfter
  <2> QED
    BY <1>1, <2>3, SameKept DEF Rests, Unoffered
<1>3. CASE Len(q) = QueueMax /\ LogFault /\ q' = Append(Tail(q), Stop)
  <2>1. q # <<>>
    BY <1>3, LogConstants
  <2>2. /\ Len(q') \in Nat /\ q'[Len(q')].id = 0
        /\ \A x \in 1..Len(q') : x # Len(q') => x + 1 \in 1..Len(q) /\ q'[x] = q[x + 1]
    BY <1>3, <2>1, ShiftFacts, ItemFacts DEF QueueTypes
  <2>3. \A w : w # 0 /\ (\E x \in 1..Len(q') : w = q'[x].id)
                 => \E x \in 1..Len(q) : w = q[x].id
    BY <2>2
  <2>4. ASSUME NEW w \in Waiting' PROVE w \in Waiting
    BY <1>1, <2>3, WaitingIs, WaitingAfter
  <2>5. logFaults' # logFaults
    BY <1>3 DEF LogFault, NumberTypes
  <2> QED
    BY <1>1, <2>4, <2>5, SameKept DEF Loses, Unoffered
<1> QED
  BY <1>2, <1>3 DEF Close, AskStop

\* There are finitely many files.
LEMMA EntriesFinite ==
  ASSUME FilesInv, NumberTypes
  PROVE  Entries \subseteq (1..files) \X {1, 2} /\ IsFiniteSet(Entries)
<1>1. Entries \in SUBSET ((1..files) \X {1, 2})
  BY DEF Entries, FilesInv
<1>2. IsFiniteSet(1..files)
  BY FS_Interval DEF NumberTypes
<1>3. IsFiniteSet({1} \cup {2})
  BY FS_Singleton, FS_AddElement
<1>4. {1} \cup {2} = {1, 2}
  OBVIOUS
<1>5. IsFiniteSet((1..files) \X {1, 2})
  BY <1>2, <1>3, <1>4, FS_Product
<1> QED
  BY <1>1, <1>5, FS_Subset

\* What prune removes is oldest first: with a file goes each one before it.
LEMMA GoneIsOldest ==
  ASSUME NumberTypes, WriterInv, FilesInv, WorkInv, wk = "prune",
         NEW e \in expired \cup Surplus(Entries \ expired),
         NEW d \in Entries, Before(d, e)
  PROVE  d \in expired \cup Surplus(Entries \ expired)
<1>1. CASE e \in expired
  BY <1>1 DEF WorkInv
<1>2. CASE e \in Surplus(Entries \ expired) /\ d \notin expired
  <2> DEFINE keep == Entries \ expired
  <2> DEFINE Older(c) == {b \in keep : Before(b, c) /\ b[1] # path}
  <2>1. e \in keep /\ e[1] # path /\ Cardinality(Older(e)) < Cardinality(keep) - MaxFiles
    BY <1>2 DEF Surplus
  <2>2. /\ d \in (1..files) \X {1, 2} /\ e \in (1..files) \X {1, 2} /\ d \in keep
        /\ \A b \in keep : b \in (1..files) \X {1, 2}
    BY <1>2, <2>1, EntriesFinite
  <2>3. d[1] # path
    <3>1. d[1] \in 1..files /\ e[1] \in 1..files /\ d[1] <= e[1] /\ e[1] # path
      BY <2>1, <2>2 DEF Before
    <3>2. path \notin 1..files - 1
      BY DEF WriterInv, NumberTypes
    <3> QED
      BY <3>1, <3>2 DEF NumberTypes
  <2>4. IsFiniteSet(keep)
    BY EntriesFinite, FS_Difference
  <2>5. Older(e) \in SUBSET keep
    OBVIOUS
  <2>6. Older(d) \in SUBSET Older(e)
    <3> SUFFICES ASSUME NEW b \in keep, Before(b, d) PROVE Before(b, e)
      OBVIOUS
    <3>1. /\ b[1] \in Nat /\ d[1] \in Nat /\ e[1] \in Nat
          /\ b[2] \in Nat /\ d[2] \in Nat /\ e[2] \in Nat
      BY <2>2 DEF NumberTypes
    <3> QED
      BY <3>1 DEF Before
  <2>7. IsFiniteSet(Older(e))
    BY <2>4, <2>5, FS_Subset
  <2>8. Cardinality(Older(d)) <= Cardinality(Older(e)) /\ IsFiniteSet(Older(d))
    BY <2>6, <2>7, FS_Subset
  <2>9. /\ Cardinality(Older(d)) \in Nat /\ Cardinality(Older(e)) \in Nat
        /\ Cardinality(keep) \in Nat
    BY <2>4, <2>7, <2>8, FS_CardinalityType
  <2>10. Cardinality(Older(d)) < Cardinality(keep) - MaxFiles
    BY <2>1, <2>8, <2>9, LogConstants
  <2> QED
    BY <2>2, <2>3, <2>10 DEF Surplus
<1> QED
  BY <1>1, <1>2

\* So pruning forgets the oldest records: what is left of a file's two forms has all
\* its records, and those of earlier files are earlier.
LEMMA PruneMoves ==
  ASSUME NumberTypes, WriterInv, FilesInv, WorkInv, RecordsInv, PruneRemove
  PROVE  Forgets
<1> DEFINE gone == expired \cup Surplus(Entries \ expired)
<1>1. /\ UNCHANGED <<offered, q, hold, item, buf>>
      /\ plain' = [f \in {f \in DOMAIN plain : <<f, 1>> \notin gone} |-> plain[f]]
      /\ gz'    = [f \in {f \in DOMAIN gz : <<f, 2>> \notin gone} |-> gz[f]]
  BY DEF PruneRemove, idleVars, queueVars, fileVars
<1>2. \A e \in gone, d \in Entries : Before(d, e) => d \in gone
  BY GoneIsOldest DEF PruneRemove
<1> HIDE DEF gone
<1>3. /\ DOMAIN plain' = {f \in DOMAIN plain : <<f, 1>> \notin gone}
      /\ DOMAIN gz' = {f \in DOMAIN gz : <<f, 2>> \notin gone}
      /\ \A f \in DOMAIN plain' : plain'[f] = plain[f]
      /\ \A f \in DOMAIN gz' : gz'[f] = gz[f]
  BY <1>1
<1>4. /\ \A f \in DOMAIN plain : f \in 1..files /\ <<f, 1>> \in Entries
      /\ \A f \in DOMAIN gz : f \in 1..files /\ <<f, 2>> \in Entries
  BY DEF Entries, FilesInv
<1>5. \A k \in Kept' : \/ \E f \in DOMAIN plain : <<f, 1>> \notin gone /\ k \in plain[f]
                       \/ \E f \in DOMAIN gz : <<f, 2>> \notin gone /\ k \in gz[f]
  BY <1>3 DEF Kept, OnDisk
<1>6. \A f \in DOMAIN plain : <<f, 1>> \notin gone => plain[f] \subseteq Kept'
  BY <1>3 DEF Kept, OnDisk
<1>7. \A f \in DOMAIN gz : <<f, 2>> \notin gone => gz[f] \subseteq Kept'
  BY <1>3 DEF Kept, OnDisk
<1>8. \A j \in Kept : \/ \E f \in DOMAIN plain : j \in plain[f]
                      \/ \E f \in DOMAIN gz : j \in gz[f]
  BY DEF Kept, OnDisk
<1>9. /\ \A f \in DOMAIN plain : plain[f] \subseteq Kept /\ plain[f] \subseteq Held(f)
      /\ \A f \in DOMAIN gz : gz[f] \subseteq Kept /\ gz[f] \subseteq Held(f)
  BY DEF Kept, OnDisk, Held
<1>10. ASSUME NEW k \in Kept', NEW j \in Kept, j \notin Kept'
       PROVE  j < k
  <2>1. PICK g \in 1..files, s \in {1, 2} :
          /\ <<g, s>> \in Entries /\ <<g, s>> \notin gone /\ k \in Held(g)
          /\ s = 2 => g \in DOMAIN gz
    <3>1. CASE \E f \in DOMAIN plain : <<f, 1>> \notin gone /\ k \in plain[f]
      <4> PICK f \in DOMAIN plain : <<f, 1>> \notin gone /\ k \in plain[f]
        BY <3>1
      <4>1. f \in 1..files /\ <<f, 1>> \in Entries /\ k \in Held(f)
        BY <1>4, <1>9
      <4> QED
        BY <4>1
    <3>2. CASE \E f \in DOMAIN gz : <<f, 2>> \notin gone /\ k \in gz[f]
      <4> PICK f \in DOMAIN gz : <<f, 2>> \notin gone /\ k \in gz[f]
        BY <3>2
      <4>1. f \in 1..files /\ <<f, 2>> \in Entries /\ k \in Held(f)
        BY <1>4, <1>9
      <4> QED
        BY <4>1
    <3> QED
      BY <1>5, <3>1, <3>2
  <2>2. PICK f \in 1..files, t \in {1, 2} :
          /\ <<f, t>> \in Entries /\ <<f, t>> \in gone /\ j \in Held(f)
          /\ t = 1 => f \in DOMAIN plain /\ j \in plain[f]
    <3>1. CASE \E f \in DOMAIN plain : j \in plain[f]
      <4> PICK f \in DOMAIN plain : j \in plain[f]
        BY <3>1
      <4>1. f \in 1..files /\ <<f, 1>> \in Entries /\ <<f, 1>> \in gone /\ j \in Held(f)
        BY <1>4, <1>6, <1>9, <1>10
      <4> QED
        BY <4>1
    <3>2. CASE \E f \in DOMAIN gz : j \in gz[f]
      <4> PICK f \in DOMAIN gz : j \in gz[f]
        BY <3>2
      <4>1. f \in 1..files /\ <<f, 2>> \in Entries /\ <<f, 2>> \in gone /\ j \in Held(f)
        BY <1>4, <1>7, <1>9, <1>10
      <4> QED
        BY <4>1
    <3> QED
      BY <1>8, <3>1, <3>2
  <2>3. ~Before(<<g, s>>, <<f, t>>)
    BY <1>2, <2>1, <2>2
  <2>4. ~(g < f) /\ ~(g = f /\ s < t)
    BY <2>3 DEF Before
  <2>5. g # f
    <3> SUFFICES ASSUME g = f PROVE FALSE
      OBVIOUS
    <3>1. s = 2 /\ t = 1
      BY <2>1, <2>2, <2>4
    <3>2. g \in DOMAIN gz /\ g \in DOMAIN plain /\ j \in plain[g]
      BY <2>1, <2>2, <3>1
    <3>3. j \in gz[g]
      BY <3>2 DEF FilesInv
    <3> QED
      BY <1>7, <1>10, <2>1, <3>1, <3>2, <3>3
  <2>6. f < g
    BY <2>4, <2>5 DEF NumberTypes
  <2> QED
    BY <2>1, <2>2, <2>6 DEF RecordsInv
<1>11. Kept' \subseteq Kept
  BY <1>5, <1>9
<1> QED
  BY <1>1, <1>10, <1>11, SameWaiting DEF Forgets, Unoffered

\* The part of the inductive invariant that does not speak of all that is kept.
LogBase ==
  /\ QueueTypes /\ NumberTypes /\ FlagsInv /\ WriterInv /\ CloseInv /\ OrderInv
  /\ FilesInv /\ WorkInv /\ RecordsInv

\* Every step of the writer, the housekeeping thread, write, close and a restart is
\* one of the moves.
LEMMA MoveStep ==
  ASSUME LogBase, QueueTypes', [LogNext]_logVars
  PROVE  Move
<1> USE DEF LogBase, queueVars, fileVars, workVars, idleVars
<1>1. CASE \E h \in 1..Hours : Put(h)
  BY <1>1, PutMoves DEF Move
<1>2. CASE Displace
  BY <1>2, DisplaceMoves DEF Move
<1>3. CASE Get
  BY <1>3, GetMoves DEF Move
<1>4. CASE Rotate
  <2>1. CASE CloseOld /\ UNCHANGED item
    BY <1>4, <2>1, FlushMoves DEF Rotate, Move
  <2>2. CASE LogFault /\ buf' = {} /\ NextItem /\ UNCHANGED plain
    <3>1. item'.id = 0 /\ logFaults' # logFaults
      BY <2>2, ItemFacts DEF NextItem, LogFault, NumberTypes
    <3> QED
      BY <1>4, <2>2, <3>1, FailedTurnMoves DEF Rotate, Move
  <2> QED
    BY <1>4, <2>1, <2>2 DEF Rotate
<1>5. CASE Open
  BY <1>5, OpenMoves DEF Move
<1>6. CASE Header
  <2>1. UNCHANGED <<offered, q, hold, buf, plain, gz>>
    BY <1>6 DEF Header
  <2>2. CASE UNCHANGED item
    BY <2>1, <2>2, SameWaiting, SameKept DEF Rests, Unoffered, Move
  <2>3. CASE LogFault /\ NextItem
    <3>1. item'.id = 0 /\ logFaults' # logFaults
      BY <2>3, ItemFacts DEF NextItem, LogFault, NumberTypes
    <3> QED
      BY <2>1, <3>1, FailedTurnMoves DEF Move
  <2> QED
    BY <1>6, <2>2, <2>3 DEF Header
<1>7. CASE Line
  BY <1>7, LineMoves DEF Move
<1>8. CASE List
  <2>1. UNCHANGED <<offered, q, hold, item, buf, plain, gz>>
    BY <1>8 DEF List
  <2> QED
    BY <2>1, SameWaiting, SameKept DEF Rests, Unoffered, Move
<1>9. CASE Compress
  BY <1>9, FileMoves DEF Move
<1>10. CASE Unlink
  BY <1>10, FileMoves DEF Move
<1>11. CASE \E cut \in 0..files : PruneScan(cut)
  <2>1. UNCHANGED <<offered, q, hold, item, buf, plain, gz>>
    BY <1>11 DEF PruneScan
  <2> QED
    BY <2>1, SameWaiting, SameKept DEF Rests, Unoffered, Move
<1>12. CASE PruneRemove
  BY <1>12, PruneMoves DEF Move
<1>13. CASE Again
  <2>1. UNCHANGED <<offered, q, hold, item, buf, plain, gz>>
    BY <1>13 DEF Again
  <2> QED
    BY <2>1, SameWaiting, SameKept DEF Rests, Unoffered, Move
<1>14. CASE Exit
  <2>1. UNCHANGED <<offered, q, hold, item, buf, plain, gz>>
    BY <1>14 DEF Exit
  <2> QED
    BY <2>1, SameWaiting, SameKept DEF Rests, Unoffered, Move
<1>15. CASE Close
  BY <1>15, CloseMoves DEF Move
<1>16. CASE Joined
  <2>1. UNCHANGED <<offered, q, hold, item, gz>>
    BY <1>16 DEF Joined
  <2>2. CASE CloseOld
    BY <2>1, <2>2, FlushMoves DEF Move
  <2>3. CASE LogFault /\ buf' = {} /\ UNCHANGED plain
    <3>1. logFaults' # logFaults
      BY <2>3 DEF LogFault, NumberTypes
    <3> QED
      BY <2>1, <2>3, <3>1, FailedTurnMoves DEF Move
  <2> QED
    BY <1>16, <2>2, <2>3 DEF Joined
<1>17. CASE LogRestart
  <2>1. /\ UNCHANGED <<offered, plain, gz>> /\ closing' = "no"
        /\ q' = <<>> /\ hold' = NoItem /\ item' = NoItem /\ buf' = {}
    BY <1>17 DEF LogRestart
  <2>2. Len(q') = 0 /\ hold'.id = 0 /\ item'.id = 0
    BY <2>1, ItemFacts
  <2>3. \A w : w \notin Waiting'
    BY <2>1, <2>2, WaitingAfter
  <2> QED
    BY <2>1, <2>3, SameKept DEF Loses, Unoffered, Move
<1>18. CASE UNCHANGED logVars
  <2>1. UNCHANGED <<offered, q, hold, item, buf, plain, gz>>
    BY <1>18 DEF logVars
  <2> QED
    BY <2>1, SameWaiting, SameKept DEF Rests, Unoffered, Move
<1> QED
  BY <1>1, <1>2, <1>3, <1>4, <1>5, <1>6, <1>7, <1>8, <1>9, <1>10, <1>11, <1>12,
     <1>13, <1>14, <1>15, <1>16, <1>17, <1>18 DEF LogNext, Writer, Worker

\* A nonempty set of records that were offered has a largest, as < is well-founded.
LEMMA LargestRecord ==
  ASSUME NEW n \in Nat, NEW S \in SUBSET (1..n), S # {}
  PROVE  \E m \in S : \A k \in S : k <= m
<1> DEFINE T == {n - k : k \in S}
<1>a. \A k \in S : n - k \in Nat
  OBVIOUS
<1>1. T \subseteq Nat /\ T # {}
  BY <1>a
<1> HIDE DEF T
<1> DEFINE R == OpToRel(<, Nat)
<1>2. \A x, y \in Nat : y < x => <<y, x>> \in R
  BY DEF OpToRel
<1>3. IsWellFoundedOn(R, Nat)
  BY NatLessThanWellFounded
<1> HIDE DEF R
<1>4. PICK x \in T : \A y \in T : ~ (<<y, x>> \in R)
  BY <1>1, <1>3, WFMin
<1>5. PICK m \in S : x = n - m
  BY DEF T
<1>6. ASSUME NEW k \in S PROVE k <= m
  <2>1. n - k \in T
    BY DEF T
  <2>2. ~(n - k < x)
    BY <1>1, <1>2, <1>4, <2>1
  <2> QED
    BY <1>5, <2>2
<1> QED
  BY <1>6

\* Every move is a step of SampleStream, or a stutter: what is forgotten are the
\* records up to the largest one that went.
LEMMA MovesAreTheStreams ==
  ASSUME QueueTypes, OrderInv, KeptInv, Move
  PROVE  [Stream!Next]_Stream!vars
<1>1. Waiting \subseteq 1..offered /\ Kept \subseteq 1..offered /\ offered \in Nat
  BY WaitingWasOffered DEF QueueTypes, KeptInv
<1>2. CASE Offers
  BY <1>2 DEF Offers, Stream!Next, Stream!Offer
<1>3. CASE Rests
  BY <1>3 DEF Rests, Unoffered, Stream!vars
<1>4. CASE Loses
  <2> DEFINE rs == Waiting \ Waiting'
  <2>1. rs \in SUBSET Waiting /\ Waiting' = Waiting \ rs
    BY <1>4 DEF Loses
  <2> HIDE DEF rs
  <2>2. CASE rs = {}
    BY <1>4, <2>1, <2>2 DEF Loses, Unoffered, Stream!vars
  <2>3. CASE rs # {}
    BY <1>4, <2>1, <2>3 DEF Loses, Unoffered, Stream!Next, Stream!Lose
  <2> QED
    BY <2>2, <2>3
<1>5. CASE Keeps
  <2>1. PICK rs \in SUBSET Waiting :
          /\ Unoffered /\ Waiting' = Waiting \ rs /\ Kept' = Kept \cup rs
          /\ \A r \in rs, w \in Waiting \ rs : r < w
    BY <1>5 DEF Keeps
  <2>2. CASE rs = {}
    BY <2>1, <2>2 DEF Unoffered, Stream!vars
  <2>3. CASE rs # {}
    <3>1. \A r \in rs : \A k \in Kept \cup (Waiting \ rs) :
            (k \in Kept => k < r) /\ (k \in Waiting => r < k)
      <4> SUFFICES ASSUME NEW r \in rs, NEW k \in Kept \cup (Waiting \ rs)
                   PROVE  (k \in Kept => k < r) /\ (k \in Waiting => r < k)
        OBVIOUS
      <4>1. k \in Kept => k \notin Waiting
        BY <1>1 DEF KeptInv
      <4> QED
        BY <2>1, <4>1 DEF KeptInv
    <3>2. Stream!Keep(rs)
      BY <2>1, <2>3, <3>1 DEF Unoffered, Stream!Keep
    <3> QED
      BY <3>2 DEF Stream!Next
  <2> QED
    BY <2>2, <2>3
<1>6. CASE Forgets
  <2> DEFINE S == Kept \ Kept'
  <2>1. S \in SUBSET (1..offered) /\ S \subseteq Kept
    BY <1>1
  <2>2. CASE S = {}
    <3>1. Kept' = Kept
      BY <1>6, <2>2 DEF Forgets
    <3> QED
      BY <1>6, <3>1 DEF Forgets, Unoffered, Stream!vars
  <2>3. CASE S # {}
    <3>1. PICK m \in S : \A k \in S : k <= m
      BY <1>1, <2>1, <2>3, LargestRecord
    <3>2. \A k \in Kept : k \in Kept' <=> k > m
      <4>1. \A k \in Kept' : m < k
        BY <1>6, <3>1 DEF Forgets
      <4>2. \A k \in Kept : k \in Nat
        BY <1>1
      <4> QED
        BY <1>6, <2>1, <3>1, <4>1, <4>2 DEF Forgets
    <3>3. Kept' = {k \in Kept : k > m} /\ m \in Kept /\ Kept' # Kept
      BY <1>6, <3>1, <3>2 DEF Forgets
    <3>4. Stream!Forget(m)
      BY <1>6, <3>3 DEF Forgets, Unoffered, Stream!Forget
    <3> QED
      BY <3>3, <3>4 DEF Stream!Next
  <2> QED
    BY <2>2, <2>3
<1> QED
  BY <1>2, <1>3, <1>4, <1>5, <1>6 DEF Move

\* No move lets a record that waits come before one that is kept.
LEMMA KeptStep ==
  ASSUME QueueTypes, OrderInv, KeptInv, Move
  PROVE  KeptInv'
<1>1. Waiting \subseteq 1..offered /\ Kept \subseteq 1..offered /\ offered \in Nat
  BY WaitingWasOffered DEF QueueTypes, KeptInv
<1>2. CASE Offers
  <2>1. \A k \in Kept : k < offered + 1 /\ k \in 1..offered + 1
    BY <1>1
  <2> QED
    BY <1>2, <2>1 DEF Offers, KeptInv
<1>3. CASE Rests \/ Loses \/ Forgets
  BY <1>3 DEF Rests, Loses, Forgets, Unoffered, KeptInv
<1>4. CASE Keeps
  BY <1>1, <1>4 DEF Keeps, Unoffered, KeptInv
<1> QED
  BY <1>2, <1>3, <1>4 DEF Move

\* The buffer holds no more records than there were failed writes.
BufferInv == IsFiniteSet(buf) /\ Cardinality(buf) <= logFaults

\* A buffer that stays or is emptied keeps its bound.
LEMMA BufferKept ==
  ASSUME NumberTypes, BufferInv, buf' \in {buf, {}},
         UNCHANGED logFaults \/ logFaults' = logFaults + 1
  PROVE  BufferInv'
<1>1. Cardinality(buf) \in Nat /\ logFaults \in Nat
  BY FS_CardinalityType DEF BufferInv, NumberTypes
<1>2. CASE buf' = buf
  BY <1>1, <1>2 DEF BufferInv
<1>3. CASE buf' = {}
  <2>1. IsFiniteSet(buf') /\ Cardinality(buf') = 0
    BY <1>3, FS_EmptySet
  <2> QED
    BY <1>1, <2>1 DEF BufferInv
<1> QED
  BY <1>2, <1>3

\* Only a failed write adds to the buffer, and one record.
LEMMA BufferStep ==
  NumberTypes /\ BufferInv /\ [LogNext]_logVars => BufferInv'
<1> SUFFICES ASSUME NumberTypes, BufferInv, [LogNext]_logVars PROVE BufferInv'
  OBVIOUS
<1> USE DEF BufferInv, NumberTypes, queueVars, fileVars, workVars, idleVars
<1>1. CASE \E h \in 1..Hours : Put(h)
  BY <1>1 DEF Put
<1>2. CASE Displace
  BY <1>2 DEF Displace
<1>3. CASE Get
  BY <1>3 DEF Get
<1>4. CASE Rotate
  <2>1. buf' \in {buf, {}} /\ (UNCHANGED logFaults \/ logFaults' = logFaults + 1)
    BY <1>4 DEF Rotate, CloseOld, NextItem, LogFault
  <2> QED
    BY <2>1, BufferKept
<1>5. CASE Open
  <2>1. buf' \in {buf, {}} /\ (UNCHANGED logFaults \/ logFaults' = logFaults + 1)
    BY <1>5 DEF Open, NextItem, LogFault
  <2> QED
    BY <2>1, BufferKept
<1>6. CASE Header
  <2>1. buf' \in {buf, {}} /\ (UNCHANGED logFaults \/ logFaults' = logFaults + 1)
    BY <1>6 DEF Header, NextItem, LogFault
  <2> QED
    BY <2>1, BufferKept
<1>7. CASE Line
  <2>1. \/ buf' = {} /\ UNCHANGED logFaults
        \/ buf' = buf \cup {item.id} /\ logFaults' = logFaults + 1
    BY <1>7 DEF Line, LogFault
  <2>2. Cardinality(buf) \in Nat
    BY FS_CardinalityType
  <2>3. CASE buf' = {} /\ UNCHANGED logFaults
    BY <2>3, BufferKept
  <2>4. CASE buf' = buf \cup {item.id} /\ logFaults' = logFaults + 1
    <3>1. /\ IsFiniteSet(buf')
          /\ Cardinality(buf') \in {Cardinality(buf), Cardinality(buf) + 1}
      BY <2>4, FS_AddElement
    <3> QED
      BY <2>2, <2>4, <3>1
  <2> QED
    BY <2>1, <2>3, <2>4
<1>8. CASE List
  BY <1>8 DEF List
<1>9. CASE Compress
  <2>1. buf' \in {buf, {}} /\ (UNCHANGED logFaults \/ logFaults' = logFaults + 1)
    BY <1>9 DEF Compress, LogFault, Finished
  <2> QED
    BY <2>1, BufferKept
<1>10. CASE Unlink
  <2>1. buf' \in {buf, {}} /\ (UNCHANGED logFaults \/ logFaults' = logFaults + 1)
    BY <1>10 DEF Unlink, LogFault
  <2> QED
    BY <2>1, BufferKept
<1>11. CASE \E cut \in 0..files : PruneScan(cut)
  BY <1>11 DEF PruneScan
<1>12. CASE PruneRemove
  BY <1>12 DEF PruneRemove
<1>13. CASE Again
  BY <1>13 DEF Again
<1>14. CASE Exit
  BY <1>14 DEF Exit
<1>15. CASE Close
  <2>1. buf' \in {buf, {}} /\ (UNCHANGED logFaults \/ logFaults' = logFaults + 1)
    BY <1>15 DEF Close, AskStop, LogFault
  <2> QED
    BY <2>1, BufferKept
<1>16. CASE Joined
  <2>1. buf' \in {buf, {}} /\ (UNCHANGED logFaults \/ logFaults' = logFaults + 1)
    BY <1>16 DEF Joined, CloseOld, LogFault
  <2> QED
    BY <2>1, BufferKept
<1>17. CASE LogRestart
  <2>1. buf' \in {buf, {}} /\ (UNCHANGED logFaults \/ logFaults' = logFaults + 1)
    BY <1>17 DEF LogRestart
  <2> QED
    BY <2>1, BufferKept
<1>18. CASE UNCHANGED logVars
  BY <1>18 DEF logVars
<1> QED
  BY <1>1, <1>2, <1>3, <1>4, <1>5, <1>6, <1>7, <1>8, <1>9, <1>10, <1>11, <1>12,
     <1>13, <1>14, <1>15, <1>16, <1>17, <1>18 DEF LogNext, Writer, Worker

\* So what waits is bounded: the queue, the record that is held back, the writer's
\* and the buffer.
LEMMA WaitingIsBounded ==
  ASSUME QueueTypes, NumberTypes, BufferInv
  PROVE  Cardinality(Waiting) <= QueueMax + 2 + MaxLogFaults
<1> DEFINE ids == {q[x].id : x \in 1..Len(q)}
<1>1. IsFiniteSet(ids) /\ Cardinality(ids) <= QueueMax /\ Cardinality(ids) \in Nat
  <2>1. Len(q) \in Nat /\ Len(q) <= QueueMax
    BY DEF QueueTypes
  <2>2. IsFiniteSet(1..Len(q)) /\ Cardinality(1..Len(q)) = Len(q)
    <3> DEFINE n == Len(q)
    <3>1. n \in Nat
      BY <2>1
    <3> HIDE DEF n
    <3>2. /\ IsFiniteSet(1..n)
          /\ Cardinality(1..n) = IF 1 > n THEN 0 ELSE n - 1 + 1
      BY <3>1, FS_Interval
    <3>3. IsFiniteSet(1..n) /\ Cardinality(1..n) = n
      BY <3>1, <3>2
    <3> QED
      BY <3>3 DEF n
  <2> DEFINE f == [x \in 1..Len(q) |-> q[x].id]
  <2>3. f \in Surjection(1..Len(q), ids)
    BY DEF Surjection
  <2> HIDE DEF f, ids
  <2>4. IsFiniteSet(ids) /\ Cardinality(ids) <= Cardinality(1..Len(q))
    BY <2>2, <2>3, FS_Surjection
  <2>5. Cardinality(ids) \in Nat
    BY <2>4, FS_CardinalityType
  <2> QED
    BY <2>1, <2>2, <2>4, <2>5, LogConstants
<1> DEFINE all == ((ids \cup {hold.id}) \cup {item.id}) \cup buf
<1>2. Waiting \in SUBSET all
  BY WaitingIs
<1> HIDE DEF ids
<1>3. /\ IsFiniteSet(ids \cup {hold.id}) /\ Cardinality(ids \cup {hold.id}) <= QueueMax + 1
      /\ Cardinality(ids \cup {hold.id}) \in Nat
  BY <1>1, FS_AddElement, LogConstants
<1>4. /\ IsFiniteSet((ids \cup {hold.id}) \cup {item.id})
      /\ Cardinality((ids \cup {hold.id}) \cup {item.id}) <= QueueMax + 2
      /\ Cardinality((ids \cup {hold.id}) \cup {item.id}) \in Nat
  <2> DEFINE two == ids \cup {hold.id}
  <2>1. IsFiniteSet(two) /\ Cardinality(two) <= QueueMax + 1 /\ Cardinality(two) \in Nat
    BY <1>3
  <2> HIDE DEF two
  <2>2. /\ IsFiniteSet(two \cup {item.id})
        /\ Cardinality(two \cup {item.id}) <= QueueMax + 2
        /\ Cardinality(two \cup {item.id}) \in Nat
    BY <2>1, FS_AddElement, LogConstants
  <2> QED
    BY <2>2 DEF two
<1>5. /\ IsFiniteSet(all)
      /\ Cardinality(all) <= QueueMax + 2 + MaxLogFaults /\ Cardinality(all) \in Nat
  <2> DEFINE three == (ids \cup {hold.id}) \cup {item.id}
  <2>1. /\ IsFiniteSet(three)
        /\ Cardinality(three) <= QueueMax + 2 /\ Cardinality(three) \in Nat
    BY <1>4
  <2>2. IsFiniteSet(buf) /\ Cardinality(buf) \in Nat /\ Cardinality(buf) <= MaxLogFaults
    BY FS_CardinalityType, LogConstants DEF BufferInv, NumberTypes
  <2> HIDE DEF three
  <2>3. IsFiniteSet(three \cap buf) /\ Cardinality(three \cap buf) \in Nat
    BY <2>1, FS_Intersection, FS_CardinalityType
  <2>4. /\ IsFiniteSet(three \cup buf)
        /\ Cardinality(three \cup buf)
             = Cardinality(three) + Cardinality(buf) - Cardinality(three \cap buf)
    BY <2>1, <2>2, FS_Union
  <2>5. Cardinality(three \cup buf) <= QueueMax + 2 + MaxLogFaults
    BY <2>1, <2>2, <2>3, <2>4, LogConstants
  <2>6. Cardinality(three \cup buf) \in Nat
    BY <2>4, FS_CardinalityType
  <2> QED
    BY <2>4, <2>5, <2>6 DEF three
<1> HIDE DEF all
<1>6. Cardinality(Waiting) <= Cardinality(all) /\ IsFiniteSet(Waiting)
  BY <1>2, <1>5, FS_Subset
<1>7. Cardinality(Waiting) \in Nat
  BY <1>6, FS_CardinalityType
<1> QED
  BY <1>5, <1>6, <1>7, LogConstants

\* The inductive invariant of the sample log.
LogInv == LogBase /\ KeptInv /\ BufferInv

\* It holds at the start.
LEMMA LogBegins == LogInit => LogInv
<1> SUFFICES ASSUME LogInit PROVE LogInv
  OBVIOUS
<1>1. Len(q) = 0 /\ q = <<>> /\ hold.id = 0 /\ item.id = 0
  BY ItemFacts DEF LogInit
<1>2. QueueTypes /\ NumberTypes /\ WriterInv
  BY <1>1, ItemFacts, LogConstants DEF LogInit, QueueTypes, NumberTypes, WriterInv
<1>a. FlagsInv
  BY DEF LogInit, FlagsInv
<1>b. CloseInv
  BY <1>1 DEF LogInit, CloseInv
<1>c. OrderInv
  BY <1>1 DEF LogInit, OrderInv
<1>3. FlagsInv /\ CloseInv /\ OrderInv
  BY <1>a, <1>b, <1>c
<1>4. DOMAIN plain = {} /\ DOMAIN gz = {} /\ files = 0
  BY DEF LogInit
<1>5. FilesInv /\ WorkInv /\ RecordsInv
  BY <1>4 DEF LogInit, FilesInv, WorkInv, RecordsInv
<1>6. KeptInv
  BY <1>4 DEF KeptInv, Kept, OnDisk
<1>7. BufferInv
  BY FS_EmptySet DEF LogInit, BufferInv
<1> QED
  BY <1>2, <1>3, <1>5, <1>6, <1>7 DEF LogInv, LogBase

\* Every step keeps it, and is a move.
LEMMA LogGoesOn ==
  ASSUME LogInv, [LogNext]_logVars
  PROVE  LogInv' /\ Move
<1> USE DEF LogInv, LogBase
<1>1. QueueTypes' /\ NumberTypes' /\ FlagsInv' /\ WriterInv' /\ CloseInv' /\ OrderInv'
  BY QueueTypesStep, NumberTypesStep, FlagsStep, WriterStep, CloseStep, OrderStep
<1>2. FilesInv' /\ WorkInv' /\ RecordsInv' /\ BufferInv'
  BY FilesStep, WorkStep, RecordsStep, BufferStep
<1>3. Move
  BY <1>1, MoveStep
<1>4. KeptInv'
  BY <1>3, KeptStep
<1> QED
  BY <1>1, <1>2, <1>3, <1>4

\* For any queue, number of files, records, hours, faults, closes and crashes: the
\* file being written is never compressed or removed under the writer, a close that
\* joins the writer leaves no record behind, and without a fault closing loses none
\* (logger.py, SampleLogger).
THEOREM LogIsSafe == LogSpec => LogSafe
<1>1. LogInit => LogInv
  BY LogBegins
<1>2. LogInv /\ [LogNext]_logVars => LogInv'
  BY LogGoesOn
<1>3. LogInv => LogTypeOK /\ OpenFileStays /\ CloseDrains
  <2> SUFFICES ASSUME LogInv PROVE LogTypeOK /\ OpenFileStays /\ CloseDrains
    OBVIOUS
  <2> USE DEF LogInv, LogBase
  <2>1. backlog \in BOOLEAN /\ again \in BOOLEAN
    BY DEF FlagsInv
  <2>2. path \in 0..files + 1 /\ fh \in 0..files
    BY DEF NumberTypes, WriterInv
  <2>3. LogTypeOK
    BY <2>1, <2>2, WaitingIsBounded DEF LogTypeOK, QueueTypes, FilesInv
  <2>4. OpenFileStays
    BY DEF OpenFileStays, FilesInv
  <2>5. ASSUME closing = "joined" PROVE Waiting = {}
    <3>1. q = <<>> /\ hold.id = 0 /\ item.id = 0 /\ buf = {}
      BY <2>5, ItemFacts DEF CloseInv, WriterInv
    <3>2. \A w : w \notin Waiting
      BY <3>1, WaitingIs, ItemFacts
    <3> QED
      BY <3>2
  <2> QED
    BY <2>3, <2>4, <2>5 DEF CloseDrains
<1>4. LogInv /\ [LogNext]_logVars =>
        [closing' # "no" /\ logFaults' = logFaults
           => Waiting \subseteq Waiting' \cup Kept']_logVars
  <2> SUFFICES ASSUME LogInv, [LogNext]_logVars, closing' # "no", logFaults' = logFaults
               PROVE  Waiting \subseteq Waiting' \cup Kept'
    OBVIOUS
  <2>1. Move
    BY LogGoesOn
  <2> QED
    BY <2>1 DEF Move, Offers, Rests, Loses, Keeps, Forgets
<1> QED
  BY <1>1, <1>2, <1>3, <1>4, PTL DEF LogSpec, LogSafe, CloseKeeps

\* For all of these the log implements SampleStream: records are kept in the order
\* they came and each once, and forgotten oldest first, however the writer, the
\* housekeeping thread, close and crashes interleave.
THEOREM LogIsAStream == LogSpec => StreamSpec
<1>1. LogInit => LogInv
  BY LogBegins
<1>2. LogInv /\ [LogNext]_logVars => LogInv'
  BY LogGoesOn
<1>3. LogInit => Stream!Init
  <2> SUFFICES ASSUME LogInit PROVE Stream!Init
    OBVIOUS
  <2>1. /\ q = <<>> /\ hold.id = 0 /\ item.id = 0 /\ buf = {}
        /\ DOMAIN plain = {} /\ DOMAIN gz = {}
    BY ItemFacts DEF LogInit
  <2>2. QueueTypes
    BY LogBegins DEF LogInv, LogBase
  <2>3. \A w : w \notin Waiting
    BY <2>1, <2>2, WaitingIs, ItemFacts
  <2>4. Kept = {}
    BY <2>1 DEF Kept, OnDisk
  <2> QED
    BY <2>3, <2>4 DEF LogInit, Stream!Init
<1>4. LogInv /\ [LogNext]_logVars => [Stream!Next]_Stream!vars
  BY LogGoesOn, MovesAreTheStreams DEF LogInv, LogBase
<1> QED
  BY <1>1, <1>2, <1>3, <1>4, PTL DEF LogSpec, StreamSpec, Stream!Spec
=============================================================================
