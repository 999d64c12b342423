--------------------------- MODULE JobEventStream_proofs ---------------------------
(***************************************************************************)
(* Proofs about the event streams, for any number of clients, connections,  *)
(* handlers and executors, and for every page size.                         *)
(***************************************************************************)
EXTENDS JobEventStream, JobLifecycle_proofs

-----------------------------------------------------------------------------
(* The event log only grows *)

Extends(old, new) ==
  /\ Len(old) <= Len(new)
  /\ \A i \in 1..Len(old) : new[i] = old[i]

\* Of sequences, a longer one extends what a shorter one does.
LEMMA ExtendsTransitive ==
  ASSUME NEW S, NEW a \in Seq(S), NEW b \in Seq(S), NEW c \in Seq(S), Extends(a, b), Extends(b, c)
  PROVE  Extends(a, c)
  <1>1. Len(a) \in Nat /\ Len(b) \in Nat /\ Len(c) \in Nat
    OBVIOUS
  <1>2. Len(a) <= Len(b) /\ Len(b) <= Len(c)
    BY DEF Extends
  <1>3. \A i \in 1..Len(a) : i \in 1..Len(b)
    BY <1>1, <1>2
  <1> QED
    BY <1>1, <1>2, <1>3 DEF Extends

\* A sequence that extends another has it as a prefix.
LEMMA ExtendsIsPrefix ==
  ASSUME NEW S, NEW a \in Seq(S), NEW b \in Seq(S), Extends(a, b)
  PROVE  IsPrefix(a, b)
  <1>1. Len(a) \in Nat /\ Len(b) \in Nat /\ Len(a) <= Len(b)
    BY DEF Extends
  <1>2. Len(SubSeq(a, 1, Len(a))) = Len(a) /\ Len(SubSeq(b, 1, Len(a))) = Len(a)
    BY <1>1
  <1>3. SubSeq(a, 1, Len(a)) \in Seq(S) /\ SubSeq(b, 1, Len(a)) \in Seq(S)
    BY <1>1
  <1>4. \A i \in 1..Len(a) : SubSeq(a, 1, Len(a))[i] = SubSeq(b, 1, Len(a))[i]
    BY <1>1 DEF Extends
  <1>5. SubSeq(a, 1, Len(a)) = SubSeq(b, 1, Len(a))
    BY <1>2, <1>3, <1>4
  <1> QED
    BY <1>1, <1>5 DEF IsPrefix

\* A transaction that appends an event to a row, whatever columns it writes, extends its log.
LEMMA AppendExtends ==
  ASSUME NEW row \in Rows, NEW new \in Rows, new.events = row.events, NEW kind, NEW s
  PROVE  Extends(row.events, AppendEvent(new, kind, s).events)
  <1> DEFINE e == [kind |-> kind, status |-> s]
  <1>1. row.events \in Seq(Events)
    BY DEF Rows
  <1>2. AppendEvent(new, kind, s).events = Append(row.events, e)
    BY DEF AppendEvent, Rows
  <1> HIDE DEF e
  <1>3. \A i \in 1..Len(row.events) : Append(row.events, e)[i] = row.events[i]
    BY <1>1
  <1>4. Len(Append(row.events, e)) = Len(row.events) + 1
    BY <1>1
  <1>5. Len(row.events) \in Nat
    BY <1>1
  <1> QED
    BY <1>2, <1>3, <1>4, <1>5 DEF Extends

\* The same of transition(), mark_running() and request_cancel(), which are such transactions.
LEMMA TransitionExtends ==
  ASSUME NEW row \in Rows, NEW s \in JobStatus, NEW n \in Nat, NEW e \in ErrorCodes
  PROVE  Extends(row.events, Transition(row, s, n, e).events)
  <1> DEFINE written == [row EXCEPT !.status = s, !.result_count = n, !.error_code = e]
  <1>1. written \in Rows /\ written.events = row.events
    BY DEF Rows, RowStatus
  <1>2. Transition(row, s, n, e) = AppendEvent(written, "status", s)
    BY DEF Transition
  <1> HIDE DEF written
  <1> QED
    BY <1>1, <1>2, AppendExtends

LEMMA MarkRunningExtends ==
  ASSUME NEW row \in Rows
  PROVE  Extends(row.events, MarkRunning(row).events)
  <1> DEFINE written == [row EXCEPT !.status = "running", !.attempt = @ + 1,
                                    !.error_code = "none"]
  <1>1. row.attempt + 1 \in Nat
    BY DEF Rows
  <1>2. written \in Rows /\ written.events = row.events
    BY <1>1 DEF Rows, RowStatus, JobStatus, ErrorCodes
  <1>3. MarkRunning(row) = AppendEvent(written, "status", "running")
    BY DEF MarkRunning
  <1> HIDE DEF written
  <1> QED
    BY <1>2, <1>3, AppendExtends

LEMMA RequestCancelExtends ==
  ASSUME NEW row \in Rows
  PROVE  Extends(row.events, RequestCancel(row).events)
  <1> DEFINE next == IF row.status = "queued" THEN "cancelled" ELSE row.status
             written == [row EXCEPT !.status = next, !.cancel_requested = TRUE]
  <1>1. CASE Terminal(row.status)
    <2>1. RequestCancel(row) = row /\ row.events \in Seq(Events)
      BY <1>1 DEF RequestCancel, Rows
    <2> QED
      BY <2>1 DEF Extends
  <1>2. CASE ~Terminal(row.status)
    <2>1. next \in RowStatus
      BY DEF Rows, RowStatus, JobStatus
    <2>2. written \in Rows /\ written.events = row.events
      BY <2>1 DEF Rows
    <2>3. RequestCancel(row) = AppendEvent(written, "cancel_requested", next)
      BY <1>2 DEF RequestCancel
    <2> HIDE DEF written, next
    <2> QED
      BY <2>2, <2>3, AppendExtends
  <1> QED
    BY <1>1, <1>2

\* Whoever writes an existing row, its log keeps every event at its place.
LEMMA LogGrows ==
  ASSUME TypeOK, RowsPrecedeUse, [Next]_vars, NEW j \in Requests, Exists(j)
  PROVE  Extends(jobs[j].events, jobs'[j].events)
  <1>0. jobs[j] \in Rows /\ jobs[j].events \in Seq(Events) /\ jobs[j].result_count \in Nat
    BY TypeParts DEF Rows
  <1>1. CASE jobs'[j] = jobs[j]
    BY <1>0, <1>1 DEF Extends
  <1>2. CASE RowWrite(j, jobs'[j])
    <2>1. ~Inserted(j)
      BY DEF Inserted, InsertJob, RowsPrecedeUse
    <2>2. CASE jobs'[j] = SetDispatchId(jobs[j])
      BY <1>0, <2>2 DEF SetDispatchId, Rows, Extends
    <2>3. CASE jobs'[j] = Transition(jobs[j], "failed", jobs[j].result_count, "DISPATCH_FAILED")
      BY <1>0, <2>3, Codes, TransitionExtends
    <2>4. CASE jobs'[j] = RequestCancel(jobs[j])
      BY <1>0, <2>4, RequestCancelExtends
    <2>5. CASE jobs'[j] = MarkRunning(jobs[j])
      BY <1>0, <2>5, MarkRunningExtends
    <2>6. ASSUME NEW s \in JobStatus, NEW e \in ErrorCodes,
                 jobs'[j] = Transition(jobs[j], s, jobs[j].result_count, e)
          PROVE  Extends(jobs[j].events, jobs'[j].events)
      BY <1>0, <2>6, TransitionExtends
    <2>7. ASSUME NEW w \in Workers, jobs'[j] = Transition(jobs[j], "succeeded", exec[w].found, "none")
          PROVE  Extends(jobs[j].events, jobs'[j].events)
      <3>1. exec[w].found \in Nat
        BY TypeParts DEF ExecOK, ExecFrames
      <3> QED
        BY <1>0, <2>7, <3>1, Codes, TransitionExtends
    <2>8. ASSUME NEW kind, jobs'[j] = AppendEvent(jobs[j], kind, "none")
          PROVE  Extends(jobs[j].events, jobs'[j].events)
      BY <1>0, <2>8, AppendExtends
    <2> QED
      BY <1>2, <2>1, <2>2, <2>3, <2>4, <2>5, <2>6, <2>7, <2>8 DEF RowWrite
  <1> QED
    BY <1>1, <1>2, StepWrites DEF StepWrite

-----------------------------------------------------------------------------
(* A stream follows the log: the invariant behind StreamIsPrefix *)

StreamPcs == {"new", "lost", "closed"} \cup Connected

StreamFrames == [pc : StreamPcs, job : Requests \cup {None}, sequence : Nat, batch : Seq(Events),
                 read : Nat, received : Seq(Events), connects : Nat]

\* A connection's next event is the one after those its client holds, and the events read
\* and not yet sent are the log's next ones.
Follows(s) ==
  /\ s.job = None => s.pc = "new" /\ s.received = << >>
  /\ s.job # None => Exists(s.job) /\ Extends(s.received, jobs[s.job].events)
  /\ s.pc \in Connected => s.sequence = Len(s.received)
  /\ s.pc = "yield" =>
       /\ Len(s.batch) >= 1
       /\ s.sequence + Len(s.batch) <= Len(jobs[s.job].events)
       /\ \A i \in 1..Len(s.batch) : s.batch[i] = jobs[s.job].events[s.sequence + i]

FollowInv == /\ stream \in [Clients -> StreamFrames]
             /\ \A c \in Clients : Follows(stream[c])

\* What a client does to its own connection.
ClientStep(c) ==
  \/ \E j \in Requests : Connect(c, j)
  \/ ReadEvents(c) \/ YieldEvent(c) \/ PollJob(c) \/ WakeUp(c) \/ LoseConnection(c)

\* A step of the whole system is one of the writers, with the streams as they are or all
\* lost with the process, or one of a client.
LEMMA StreamSteps ==
  ASSUME [StreamNext]_svars
  PROVE  /\ [Next]_vars
         /\ \/ stream' = stream
            \/ ProcessCrash /\ stream' = [c \in Clients |-> Lost(stream[c])]
            \/ \E c \in Clients : ClientStep(c) /\ UNCHANGED vars
  BY DEF StreamNext, WritersNext, ServerCrash, Serve, ClientStep, Next, svars

\* A longer log is still followed.
LEMMA StillFollows ==
  ASSUME TypeOK, RowsPrecedeUse, [Next]_vars, NEW s \in StreamFrames, Follows(s)
  PROVE  Follows(s)'
  <1>1. s.job \in Requests \cup {None} /\ s.received \in Seq(Events) /\ s.batch \in Seq(Events)
        /\ s.sequence \in Nat
    BY DEF StreamFrames
  <1>2. CASE s.job = None
    BY <1>2 DEF Follows, Connected
  <1>3. CASE s.job # None
    <2>1. s.job \in Requests /\ Exists(s.job)
      BY <1>1, <1>3 DEF Follows
    <2>2. Extends(jobs[s.job].events, jobs'[s.job].events) /\ Exists(s.job)'
      BY <2>1, LogGrows, RowsStay
    <2>3. jobs[s.job].events \in Seq(Events) /\ jobs'[s.job].events \in Seq(Events)
      BY <2>1, NextType, TypeParts, TypePartsNext DEF Rows
    <2>4. Extends(s.received, jobs'[s.job].events)
      <3>1. Extends(s.received, jobs[s.job].events)
        BY <1>3 DEF Follows
      <3> QED
        BY <1>1, <2>2, <2>3, <3>1, ExtendsTransitive
    <2>5. ASSUME s.pc = "yield"
          PROVE  /\ s.sequence + Len(s.batch) <= Len(jobs'[s.job].events)
                 /\ \A i \in 1..Len(s.batch) : s.batch[i] = jobs'[s.job].events[s.sequence + i]
      <3> DEFINE old == jobs[s.job].events
                 new == jobs'[s.job].events
                 batch == s.batch
                 n == s.sequence
      <3>1. /\ n + Len(batch) <= Len(old)
            /\ \A i \in 1..Len(batch) : batch[i] = old[n + i]
        BY <2>5 DEF Follows
      <3>2. /\ old \in Seq(Events) /\ new \in Seq(Events) /\ Extends(old, new)
            /\ batch \in Seq(Events) /\ n \in Nat
        BY <1>1, <2>2, <2>3
      <3> HIDE DEF old, new, batch, n
      <3>3. Len(old) \in Nat /\ Len(new) \in Nat /\ Len(batch) \in Nat
        BY <3>2
      <3>4. Len(old) <= Len(new) /\ \A k \in 1..Len(old) : new[k] = old[k]
        BY <3>2 DEF Extends
      <3>5. \A i \in 1..Len(batch) : n + i \in 1..Len(old)
        BY <3>1, <3>2, <3>3
      <3>6. n + Len(batch) <= Len(new)
        BY <3>1, <3>2, <3>3, <3>4
      <3>7. \A i \in 1..Len(batch) : batch[i] = new[n + i]
        BY <3>1, <3>4, <3>5
      <3> QED
        BY <3>6, <3>7 DEF new, batch, n
    <2>6. s.pc \in Connected => s.sequence = Len(s.received)
      BY DEF Follows
    <2>7. s.pc = "yield" => Len(s.batch) >= 1
      BY DEF Follows
    <2> QED
      BY <1>3, <2>2, <2>4, <2>5, <2>6, <2>7 DEF Follows
  <1> QED
    BY <1>2, <1>3

\* A lost connection keeps its job and what the client received.
LEMMA LostFollows ==
  ASSUME NEW s \in StreamFrames, Follows(s)
  PROVE  Lost(s) \in StreamFrames /\ Follows(Lost(s))
  <1> DEFINE empty == << >>
  <1>1. CASE s.pc \in Connected
    <2>1. Lost(s) = [pc |-> "lost", job |-> s.job, sequence |-> s.sequence, batch |-> empty,
                     read |-> 0, received |-> s.received, connects |-> s.connects]
      BY <1>1 DEF Lost, StreamFrames
    <2>2. empty \in Seq(Events) /\ "lost" \in StreamPcs
      BY DEF StreamPcs
    <2> HIDE DEF empty
    <2>4. Lost(s) \in StreamFrames
      BY <2>1, <2>2 DEF StreamFrames
    <2>3. Lost(s).pc = "lost" /\ Lost(s).job = s.job /\ Lost(s).received = s.received
      BY <2>1 DEF StreamFrames
    <2> QED
      BY <1>1, <2>3, <2>4 DEF Follows, Connected
  <1>2. CASE s.pc \notin Connected
    BY <1>2 DEF Lost
  <1> QED
    BY <1>1, <1>2

\* A new connection continues after the last event its client received.
LEMMA ConnectFollows ==
  ASSUME TypeOK, FollowInv, NEW c \in Clients, NEW j \in Requests, Connect(c, j)
  PROVE  stream'[c] \in StreamFrames /\ Follows(stream'[c])
  <1> DEFINE s == stream[c]
             held == Len(s.received)
  <1>1. s \in StreamFrames /\ Follows(s)
    BY DEF FollowInv
  <1>2. stream'[c] = [pc |-> "read", job |-> j, sequence |-> held, batch |-> s.batch,
                      read |-> s.read, received |-> s.received, connects |-> s.connects + 1]
    <2>1. stream \in [Clients -> StreamFrames] /\ s \in StreamFrames
      BY DEF FollowInv
    <2>2. stream' = [stream EXCEPT ![c].pc = "read",
                                  ![c].job = j,
                                  ![c].sequence = held,
                                  ![c].connects = @ + 1]
      BY DEF Connect
    <2>3. stream'[c] = [s EXCEPT !.pc = "read",
                                !.job = j,
                                !.sequence = held,
                                !.connects = @ + 1]
      BY <2>1, <2>2
    <2> QED
      BY <2>1, <2>3 DEF StreamFrames
  <1>3. s.pc \in {"new", "lost"} /\ s.job \in {None, j} /\ Exists(j)
    BY DEF Connect
  <1>4. s.received \in Seq(Events) /\ held \in Nat
    BY <1>1 DEF StreamFrames
  <1>5. jobs[j].events \in Seq(Events)
    BY TypeParts DEF Rows
  <1> HIDE DEF s, held
  <1>6. stream'[c] \in StreamFrames
    BY <1>1, <1>2, <1>4 DEF StreamFrames, StreamPcs, Connected
  <1>7. j # None
    BY ConstantsAssumption
  <1>8. Extends(s.received, jobs[j].events)
    <2>1. CASE s.job = None
      BY <1>1, <1>5, <2>1 DEF Follows, Extends
    <2>2. CASE s.job = j
      BY <1>1, <1>7, <2>2 DEF Follows
    <2> QED
      BY <1>3, <2>1, <2>2
  <1> QED
    BY <1>2, <1>3, <1>6, <1>7, <1>8 DEF Follows, held

\* A sequence without elements is the empty one.
LEMMA NoElements ==
  ASSUME NEW S, NEW seq \in Seq(S)
  PROVE  seq = << >> <=> Len(seq) = 0
  OBVIOUS

\* What list_events returns: at most a page of the log, from the event after the last one sent.
LEMMA PageOfLog ==
  ASSUME NEW S, NEW log \in Seq(S), NEW after \in 0..Len(log), NEW last \in after..Len(log)
  PROVE  /\ SubSeq(log, after + 1, last) \in Seq(S)
         /\ Len(SubSeq(log, after + 1, last)) = last - after
         /\ \A i \in 1..(last - after) : SubSeq(log, after + 1, last)[i] = log[after + i]
  <1>1. Len(log) \in Nat /\ after \in Nat /\ last \in Nat /\ after <= last /\ last <= Len(log)
    OBVIOUS
  <1>2. Len(SubSeq(log, after + 1, last)) = last - after
    BY <1>1
  <1>3. \A i \in 1..(last - after) : SubSeq(log, after + 1, last)[i] = log[after + i]
    BY <1>1
  <1>4. SubSeq(log, after + 1, last) \in Seq(S)
    BY <1>1
  <1> QED
    BY <1>2, <1>3, <1>4

\* The end of the page read after `after' of a log of n events.
PageEnd(after, n) == IF after + PageSize < n THEN after + PageSize ELSE n

LEMMA PageEndType ==
  ASSUME NEW n \in Nat, NEW after \in 0..n
  PROVE  PageEnd(after, n) \in after..n /\ (PageEnd(after, n) = after => after = n)
  BY StreamAssumption DEF PageEnd

\* The events a connection reads are the log's next ones; reading none means there are none.
LEMMA ReadFollows ==
  ASSUME TypeOK, FollowInv, NEW c \in Clients, ReadEvents(c)
  PROVE  /\ stream'[c] \in StreamFrames /\ Follows(stream'[c])
         /\ stream'[c].job = stream[c].job /\ stream'[c].received = stream[c].received
         /\ stream'[c].pc \in {"poll", "yield"}
         /\ stream'[c].pc = "yield" => stream'[c].read >= 1
         /\ stream'[c].pc = "poll" => Len(stream[c].received) = Len(Log(c))
  <1> DEFINE s == stream[c]
             log == Log(c)
             after == s.sequence
             last == PageEnd(after, Len(log))
             events == SubSeq(log, after + 1, last)
             pc == IF events = << >> THEN "poll" ELSE "yield"
             n == Len(events)
  <1>1. s \in StreamFrames /\ Follows(s)
    BY DEF FollowInv
  <1>2. s.pc = "read"
    BY DEF ReadEvents
  <1>3. stream'[c] = [pc |-> pc, job |-> s.job, sequence |-> after, batch |-> events,
                      read |-> n, received |-> s.received, connects |-> s.connects]
    <2>1. stream \in [Clients -> StreamFrames] /\ s \in StreamFrames
      BY DEF FollowInv
    <2>2. stream' = [stream EXCEPT ![c].pc = pc,
                                  ![c].batch = events,
                                  ![c].read = n]
      BY DEF ReadEvents, PageEnd
    <2>3. stream'[c] = [s EXCEPT !.pc = pc,
                                !.batch = events,
                                !.read = n]
      BY <2>1, <2>2
    <2> QED
      BY <2>1, <2>3 DEF StreamFrames
  <1>4. /\ s.job \in Requests /\ Exists(s.job) /\ Extends(s.received, log)
        /\ after = Len(s.received)
    BY <1>1, <1>2 DEF Follows, Connected, StreamFrames, Log
  <1>5. log \in Seq(Events) /\ s.received \in Seq(Events)
    BY <1>1, <1>4, TypeParts DEF Rows, StreamFrames, Log
  <1>6. /\ Len(log) \in Nat /\ after \in 0..Len(log) /\ Len(s.received) \in Nat
    BY <1>4, <1>5 DEF Extends
  <1>7. last \in after..Len(log) /\ (last = after => after = Len(log))
    BY <1>6, PageEndType
  <1> HIDE DEF last
  <1>8. events \in Seq(Events) /\ n = last - after
        /\ \A i \in 1..n : events[i] = log[after + i]
    <2> HIDE DEF log, after
    <2>1. /\ SubSeq(log, after + 1, last) \in Seq(Events)
          /\ Len(SubSeq(log, after + 1, last)) = last - after
          /\ \A i \in 1..(last - after) : SubSeq(log, after + 1, last)[i] = log[after + i]
      BY <1>5, <1>6, <1>7, PageOfLog
    <2> QED
      BY <2>1
  <1>9. (events = << >> <=> n = 0) /\ Len(events) = n
    BY <1>8, NoElements
  <1> HIDE DEF events, n
  <1>10. pc \in {"poll", "yield"} /\ (pc = "yield" <=> n # 0) /\ n \in Nat
    BY <1>6, <1>7, <1>8, <1>9
  <1> HIDE DEF pc
  <1>11. stream'[c] \in StreamFrames
    BY <1>1, <1>3, <1>8, <1>10 DEF StreamFrames, StreamPcs, Connected
  <1>12. s.job # None /\ log = jobs[s.job].events
    BY <1>4, ConstantsAssumption DEF Log
  <1> HIDE DEF s, log
  <1>13. stream'[c].pc = "yield" => n >= 1 /\ after + n <= Len(log)
    BY <1>3, <1>6, <1>7, <1>8, <1>10
  <1>14. Follows(stream'[c])
    BY <1>3, <1>4, <1>8, <1>9, <1>10, <1>12, <1>13 DEF Follows
  <1> QED
    BY <1>3, <1>4, <1>7, <1>8, <1>10, <1>11, <1>13, <1>14 DEF s, log

\* The event that is sent is the one after those the client holds.
LEMMA YieldFollows ==
  ASSUME TypeOK, FollowInv, NEW c \in Clients, YieldEvent(c)
  PROVE  /\ stream'[c] \in StreamFrames /\ Follows(stream'[c])
         /\ stream'[c].read = stream[c].read /\ stream'[c].pc \in {"poll", "yield"}
  <1> DEFINE s == stream[c]
             log == Log(c)
             batch == Tail(s.batch)
             received == Append(s.received, s.batch[1])
             pc == IF Len(s.batch) = 1 THEN "poll" ELSE "yield"
             after == s.sequence
  <1>1. s \in StreamFrames /\ Follows(s)
    BY DEF FollowInv
  <1>2. s.pc = "yield"
    BY DEF YieldEvent
  <1>3. stream'[c] = [pc |-> pc, job |-> s.job, sequence |-> after + 1, batch |-> batch,
                      read |-> s.read, received |-> received, connects |-> s.connects]
    <2>1. stream \in [Clients -> StreamFrames] /\ s \in StreamFrames
      BY DEF FollowInv
    <2>2. stream' = [stream EXCEPT ![c].pc = pc,
                                  ![c].batch = batch,
                                  ![c].sequence = after + 1,
                                  ![c].received = received]
      BY DEF YieldEvent
    <2>3. stream'[c] = [s EXCEPT !.pc = pc,
                                !.batch = batch,
                                !.sequence = after + 1,
                                !.received = received]
      BY <2>1, <2>2
    <2> QED
      BY <2>1, <2>3 DEF StreamFrames
  <1>4. /\ s.job \in Requests /\ Exists(s.job) /\ Extends(s.received, log)
        /\ after = Len(s.received) /\ Len(s.batch) >= 1 /\ after + Len(s.batch) <= Len(log)
    BY <1>1, <1>2 DEF Follows, Connected, StreamFrames, Log
  <1>5. \A i \in 1..Len(s.batch) : s.batch[i] = log[after + i]
    BY <1>1, <1>2 DEF Follows, Log
  <1>6. /\ log \in Seq(Events) /\ s.received \in Seq(Events) /\ s.batch \in Seq(Events)
        /\ after \in Nat /\ s.read \in Nat /\ s.connects \in Nat
    BY <1>1, <1>4, TypeParts DEF Rows, StreamFrames, Log
  <1>7. s.job # None /\ log = jobs[s.job].events
    BY <1>4, ConstantsAssumption DEF Log
  <1>8. pc \in {"poll", "yield"} /\ (pc = "yield" => Len(s.batch) # 1)
    OBVIOUS
  <1>9. Len(s.batch) \in Nat /\ Len(log) \in Nat /\ s.batch[1] \in Events
    BY <1>4, <1>6
  <1>10. batch \in Seq(Events) /\ Len(batch) = Len(s.batch) - 1
    BY <1>4, <1>6, <1>9
  <1>11. \A i \in 1..Len(batch) : batch[i] = s.batch[i + 1]
    BY <1>4, <1>6, <1>9
  <1>12. received \in Seq(Events) /\ Len(received) = after + 1
    BY <1>4, <1>6, <1>9
  <1>13. received[after + 1] = s.batch[1] /\ \A i \in 1..after : received[i] = s.received[i]
    BY <1>4, <1>6, <1>9
  <1> HIDE DEF s, log, batch, received, pc, after
  <1>14. pc = "yield" => Len(batch) >= 1 /\ after + 1 + Len(batch) <= Len(log)
    <2>1. /\ after \in Nat /\ Len(s.batch) \in Nat /\ Len(log) \in Nat
          /\ Len(s.batch) >= 1 /\ after + Len(s.batch) <= Len(log)
      BY <1>4, <1>6, <1>9
    <2>2. \A a, n, l \in Nat : n >= 1 /\ n # 1 /\ a + n <= l => n - 1 >= 1 /\ a + 1 + (n - 1) <= l
      OBVIOUS
    <2>3. Len(batch) = Len(s.batch) - 1
      BY <1>10
    <2> QED
      BY <1>8, <2>1, <2>2, <2>3
  <1>15. Extends(received, log)
    <2>1. 1 \in 1..Len(s.batch) /\ Len(received) <= Len(log)
      <3>1. /\ after \in Nat /\ Len(s.batch) \in Nat /\ Len(log) \in Nat
            /\ Len(s.batch) >= 1 /\ after + Len(s.batch) <= Len(log)
            /\ Len(received) = after + 1
        BY <1>4, <1>6, <1>9, <1>12
      <3> QED
        BY <3>1
    <2>2. s.batch[1] = log[after + 1]
      BY <1>5, <2>1
    <2>3. ASSUME NEW i \in 1..Len(received) PROVE received[i] = log[i]
      <3>1. CASE i = after + 1
        BY <1>13, <2>2, <3>1
      <3>2. CASE i # after + 1
        <4>1. i \in 1..after
          BY <1>6, <1>12, <3>2
        <4> QED
          BY <1>4, <1>13, <4>1 DEF Extends
      <3> QED
        BY <3>1, <3>2
    <2> QED
      BY <2>1, <2>3 DEF Extends
  <1>16. ASSUME NEW i \in 1..Len(batch) PROVE batch[i] = log[after + 1 + i]
    <2>1. i + 1 \in 1..Len(s.batch) /\ after + (i + 1) = after + 1 + i
      BY <1>6, <1>9, <1>10
    <2> QED
      BY <1>5, <1>11, <2>1
  <1>17. stream'[c] \in StreamFrames
    <2>1. after + 1 \in Nat
      BY <1>6
    <2> QED
      BY <1>3, <1>4, <1>6, <1>8, <1>10, <1>12, <2>1 DEF StreamFrames, StreamPcs, Connected
  <1>18. Follows(stream'[c])
    BY <1>3, <1>4, <1>7, <1>8, <1>12, <1>14, <1>15, <1>16 DEF Follows
  <1> QED
    BY <1>3, <1>8, <1>17, <1>18 DEF s

\* Between two reads nothing is received.
LEMMA PauseFollows ==
  ASSUME FollowInv, NEW c \in Clients, PollJob(c) \/ WakeUp(c)
  PROVE  stream'[c] \in StreamFrames /\ Follows(stream'[c])
  <1> DEFINE s == stream[c]
  <1>1. s \in StreamFrames /\ Follows(s) /\ s.pc \in {"poll", "sleep"}
    BY DEF FollowInv, PollJob, WakeUp
  <1>2. PICK pc \in {"closed", "sleep", "read"} : stream'[c] = [s EXCEPT !.pc = pc]
    BY DEF FollowInv, PollJob, WakeUp
  <1> HIDE DEF s
  <1>3. stream'[c] \in StreamFrames
    BY <1>1, <1>2 DEF StreamFrames, StreamPcs, Connected
  <1>4. /\ stream'[c].pc = pc /\ stream'[c].job = s.job /\ stream'[c].received = s.received
        /\ stream'[c].sequence = s.sequence
    BY <1>1, <1>2 DEF StreamFrames
  <1> QED
    BY <1>1, <1>3, <1>4 DEF Follows, Connected

\* A client's step leaves its own connection in order, and the others as they are.
LEMMA ClientFollows ==
  ASSUME TypeOK, FollowInv, NEW c \in Clients, ClientStep(c)
  PROVE  /\ stream'[c] \in StreamFrames /\ Follows(stream'[c])
         /\ stream' = [stream EXCEPT ![c] = stream'[c]]
  <1>1. stream' = [stream EXCEPT ![c] = stream'[c]]
    BY DEF ClientStep, Connect, ReadEvents, YieldEvent, PollJob, WakeUp, LoseConnection, FollowInv
  <1>2. CASE LoseConnection(c)
    <2>1. stream'[c] = Lost(stream[c])
      BY <1>2 DEF LoseConnection, FollowInv
    <2> QED
      BY <1>1, <2>1, LostFollows DEF FollowInv
  <1> QED
    BY <1>1, <1>2, ConnectFollows, ReadFollows, YieldFollows, PauseFollows DEF ClientStep

LEMMA NextFollow ==
  ASSUME TypeOK, RowsPrecedeUse, FollowInv, [StreamNext]_svars
  PROVE  FollowInv'
  <1>1. CASE stream' = stream
    <2>1. [Next]_vars
      BY StreamSteps
    <2>2. ASSUME NEW c \in Clients PROVE Follows(stream[c])'
      <3>1. PICK s \in StreamFrames : s = stream[c]
        BY DEF FollowInv
      <3>2. Follows(s)'
        BY <2>1, <3>1, StillFollows DEF FollowInv
      <3> QED
        BY <1>1, <3>1, <3>2 DEF Follows, Exists
    <2> QED
      BY <1>1, <2>2 DEF FollowInv
  <1>2. CASE ProcessCrash /\ stream' = [c \in Clients |-> Lost(stream[c])]
    <2>1. jobs' = jobs
      BY <1>2 DEF ProcessCrash
    <2>2. ASSUME NEW c \in Clients PROVE stream'[c] \in StreamFrames /\ Follows(stream[c])'
      <3>1. stream'[c] \in StreamFrames /\ Follows(stream'[c])
        BY <1>2, LostFollows DEF FollowInv
      <3> QED
        BY <2>1, <3>1 DEF Follows, Exists
    <2> QED
      BY <1>2, <2>2 DEF FollowInv
  <1>3. ASSUME NEW c \in Clients, ClientStep(c), UNCHANGED vars PROVE FollowInv'
    <2>1. /\ stream'[c] \in StreamFrames /\ Follows(stream'[c])
          /\ stream' = [stream EXCEPT ![c] = stream'[c]]
      BY <1>3, ClientFollows
    <2>2. jobs' = jobs
      BY <1>3 DEF vars
    <2>3. ASSUME NEW d \in Clients PROVE stream'[d] \in StreamFrames /\ Follows(stream'[d])
      BY <2>1 DEF FollowInv
    <2>4. \A d \in Clients : Follows(stream[d])'
      BY <2>2, <2>3 DEF Follows, Exists
    <2> QED
      BY <2>1, <2>3, <2>4 DEF FollowInv
  <1> QED
    BY <1>1, <1>2, <1>3, StreamSteps

LEMMA InitFollow == StreamInit => FollowInv
  <1>1. NoStream \in StreamFrames /\ Follows(NoStream)
    BY DEF NoStream, StreamFrames, StreamPcs, Follows, Connected
  <1> QED
    BY <1>1 DEF StreamInit, FollowInv

\* The writers beside the streams are those of JobLifecycle.
LEMMA StreamAlwaysIndInv == StreamSpec => Spec /\ []IndInv
  <1>1. StreamInit => Init
    BY DEF StreamInit
  <1>2. [StreamNext]_svars => [Next]_vars
    BY StreamSteps
  <1> QED
    BY <1>1, <1>2, Inductive, PTL DEF StreamSpec, Spec

LEMMA AlwaysFollow == StreamSpec => []FollowInv
  <1>1. IndInv /\ FollowInv /\ [StreamNext]_svars => FollowInv'
    BY NextFollow DEF IndInv
  <1> QED
    BY <1>1, InitFollow, StreamAlwaysIndInv, PTL DEF StreamSpec

\* Over any number of connections, and whatever the writers, the faults and the other clients
\* do between its reads, a client holds the log's first events, each once and in order.
THEOREM StreamsFollowTheLog == StreamSpec => []StreamIsPrefix
  <1>1. TypeOK /\ FollowInv => StreamIsPrefix
    <2> SUFFICES ASSUME TypeOK, FollowInv, NEW c \in Clients, stream[c].job # None
                 PROVE  IsPrefix(stream[c].received, Log(c))
      BY DEF StreamIsPrefix
    <2>1. stream[c] \in StreamFrames /\ Extends(stream[c].received, Log(c))
      BY DEF FollowInv, Follows, Log
    <2>2. stream[c].received \in Seq(Events) /\ Log(c) \in Seq(Events)
      BY <2>1, TypeParts DEF StreamFrames, Log, Rows
    <2> QED
      BY <2>1, <2>2, ExtendsIsPrefix
  <1>2. IndInv => TypeOK
    BY DEF IndInv
  <1> QED
    BY <1>1, <1>2, AlwaysFollow, StreamAlwaysIndInv, PTL

-----------------------------------------------------------------------------
(* A closed stream was complete: the invariant behind StreamIsComplete *)

\* Nobody will write the row again: it is terminal, its create call is past the dispatch, and
\* an executor that has it is about to find it terminal.
Over(j) ==
  /\ Terminal(jobs[j].status)
  /\ api[j].pc \notin {"submit", "record", "failing"}
  /\ \A w \in Workers : exec[w].pc # "idle" /\ exec[w].job = j => exec[w].pc = "load"

\* A client between a read that found no event and the poll holds the whole log, and so does,
\* for good, one whose stream was closed.
Whole(s) ==
  /\ s.pc = "poll" /\ s.read = 0 => Len(s.received) = Len(jobs[s.job].events)
  /\ s.pc = "yield" => s.read >= 1
  /\ s.pc = "closed" => Len(s.received) = Len(jobs[s.job].events) /\ Over(s.job)

WholeInv == \A c \in Clients : Whole(stream[c])

\* An executor that finds a terminal row returns.
LEMMA OverAtLoad ==
  ASSUME Mode = "inline", IndInv, [Next]_vars, NEW j \in Requests, Over(j), NEW w \in Workers,
         exec'[w].pc # "idle", exec'[w].job = j
  PROVE  exec'[w].pc = "load"
  <1>0. exec \in [Workers -> ExecFrames]
    BY DEF IndInv, TypeOK
  <1>1. FrameEffect(w)
    BY StepFrameEffect DEF IndInv
  <1>2. exec[w].pc # "idle" /\ exec[w].job = j => exec[w].pc = "load"
    BY DEF Over
  <1>3. ASSUME Load(w) \/ Check(w) \/ BackoffEnds(w) PROVE FALSE
    <2>1. exec[w].pc # "idle" /\ exec'[w].job = exec[w].job
      BY <1>0, <1>3, ExecuteKeepsJob, TypeParts DEF IndInv, Execute
    <2>2. exec[w].pc = "load" /\ exec[w].job = j
      BY <1>2, <2>1
    <2>3. Return(w)
      BY <1>3, <2>2 DEF Load, Check, BackoffEnds, At, Row, Over
    <2> QED
      BY <1>0, <2>3, IdleFrame DEF Return
  <1>4. CASE exec'[w] = exec[w]
    BY <1>2, <1>4
  <1>5. CASE exec'[w].pc = "unknown" /\ exec[w].pc = "unknown"
    <2>1. Moves
      BY StepMoves DEF IndInv, DeliveredOnce
    <2>2. exec'[w].job = exec[w].job
      BY <1>5, <2>1 DEF Moves, FramesKeep
    <2> QED
      BY <1>2, <1>5, <2>2
  <1>6. exec'[w].pc = "unknown" => exec[w].pc = "unknown"
    BY <1>3, StepEnters
  <1>7. CASE Moved(w, {"load"}, {"check"})
    BY <1>3, <1>7, StepEnters DEF Moved
  <1>8. CASE \/ Moved(w, {"check"}, {"cancelling", "claim"}) \/ Moved(w, InAttempt, InAttempt)
             \/ Moved(w, {"backoff"}, {"check"})
    BY <1>2, <1>8 DEF Moved, InAttempt
  <1>9. ~Claimed(w)
    <2> SUFFICES ASSUME Claimed(w) PROVE FALSE
      OBVIOUS
    <2>1. exec[w].pc = "claim" /\ exec[w] \in ExecFrames
      BY <1>0 DEF Claimed
    <2>2. ~Return(w)
      BY <1>0, IdleFrame DEF Return
    <2>3. exec'[w].job = exec[w].job
      BY <1>0, <2>1, <2>2 DEF Claimed, ExecFrames
    <2> QED
      BY <1>2, <2>1, <2>3
  <1> QED
    BY <1>1, <1>4, <1>5, <1>6, <1>7, <1>8, <1>9 DEF FrameEffect

\* A job that is over stays as it is.
LEMMA OverStays ==
  ASSUME Mode = "inline", IndInv, [Next]_vars, NEW j \in Requests, Over(j)
  PROVE  jobs'[j] = jobs[j] /\ Over(j)'
  <1>1. jobs[j] \in Rows /\ api \in [Requests -> ApiFrames] /\ Exists(j)
    BY DEF IndInv, TypeOK, Over, Terminal, Exists
  <1>2. api[j].pc \notin {"new", "find", "insert", "submit", "record", "failing"}
    BY <1>1 DEF Over, IndInv, RowsPrecedeUse
  <1>3. \A w \in Workers : exec[w].pc # "idle" /\ exec[w].job = j => exec[w].pc = "load"
    BY DEF Over
  <1>4. jobs'[j] = jobs[j]
    <2>1. CASE RowWrite(j, jobs'[j])
      <3>1. ~Inserted(j)
        BY <1>2 DEF Inserted, InsertJob
      <3>2. ASSUME NEW c \in Cancels, jobs'[j] = RequestCancel(jobs[j]) PROVE jobs'[j] = jobs[j]
        BY <3>2 DEF RequestCancel, Over
      <3>3. ASSUME NEW w \in Workers, exec[w].job = j,
                   \/ Claimed(w) \/ Succeeding(w) \/ Publishing(w)
                   \/ exec[w].pc \in {"raised", "correlate"}
                   \/ \E s \in JobStatus : EndsAs(w, s)
            PROVE  FALSE
        BY <1>3, <3>3 DEF Claimed, Succeeding, Publishing, EndsAs
      <3> QED
        BY <1>2, <2>1, <3>1, <3>2, <3>3 DEF RowWrite
    <2> QED
      BY <2>1, StepWrites DEF StepWrite, IndInv
  <1>5. api'[j].pc \notin {"submit", "record", "failing"}
    <2>1. ApiEffect(j)
      BY StepApiEffect DEF IndInv
    <2>2. ~Inserted(j)
      BY <1>2 DEF Inserted, InsertJob
    <2> QED
      BY <1>1, <1>2, <2>1, <2>2 DEF ApiEffect, ApiFrames
  <1>6. \A w \in Workers : exec'[w].pc # "idle" /\ exec'[w].job = j => exec'[w].pc = "load"
    BY OverAtLoad
  <1> QED
    BY <1>4, <1>5, <1>6 DEF Over

\* On one event loop, a poll that finds the job terminal finds no handler in the middle of its
\* work, and no executor that has not returned.
LEMMA ClosingIsOver ==
  ASSUME Mode = "inline", DeliveryInv, NEW c \in Clients, NEW j \in Requests, StreamTurn(c),
         Terminal(jobs[j].status)
  PROVE  Over(j)
  <1>1. Running = {}
    BY DEF StreamTurn
  <1>2. api[j].pc \notin ApiRunning
    BY <1>1 DEF Running
  <1>3. \A w \in Workers : exec[w].pc \in ExecSuspended
    BY <1>1 DEF Running
  <1>4. \A w \in Workers : ~Owns(w, j)
    BY <1>3 DEF DeliveryInv, Terminal, Unacknowledged, ExecSuspended
  <1>5. \A w \in Workers : exec[w].job = j => exec[w].pc = "idle"
    BY <1>3, <1>4 DEF Owns, ExecSuspended, InAttempt
  <1> QED
    BY <1>2, <1>5 DEF Over, ApiRunning

\* A client's own steps.
LEMMA ClientWhole ==
  ASSUME Mode = "inline", IndInv, DeliveryInv, FollowInv, WholeInv, NEW c \in Clients, ClientStep(c)
  PROVE  Whole(stream'[c])
  <1>0. TypeOK /\ stream[c] \in StreamFrames /\ Follows(stream[c]) /\ Whole(stream[c])
    BY DEF IndInv, FollowInv, WholeInv
  <1>1. ASSUME NEW j \in Requests, Connect(c, j) PROVE Whole(stream'[c])
    <2>1. stream'[c].pc = "read"
      BY <1>1 DEF Connect, FollowInv, StreamFrames
    <2> QED
      BY <2>1 DEF Whole
  <1>2. CASE ReadEvents(c)
    BY <1>0, <1>2, ReadFollows DEF Whole, Log
  <1>3. CASE YieldEvent(c)
    <2>1. stream'[c].read >= 1 /\ stream'[c].pc \in {"poll", "yield"} /\ stream[c].read \in Nat
      BY <1>0, <1>3, YieldFollows DEF Whole, YieldEvent, StreamFrames
    <2> QED
      BY <2>1 DEF Whole
  <1>4. CASE PollJob(c)
    <2>1. stream[c].pc = "poll" /\ StreamTurn(c) /\ stream[c].job \in Requests
      BY <1>0, <1>4 DEF PollJob, Follows, StreamFrames
    <2>2. CASE Terminal(jobs[stream[c].job].status) /\ stream[c].read = 0
      <3>1. Over(stream[c].job)
        BY <2>1, <2>2, ClosingIsOver
      <3>2. stream'[c].pc = "closed" /\ stream'[c].job = stream[c].job
            /\ stream'[c].received = stream[c].received
        BY <1>0, <1>4, <2>2 DEF PollJob, FollowInv, StreamFrames
      <3> QED
        BY <1>0, <2>1, <2>2, <3>1, <3>2 DEF Whole
    <2>3. CASE ~(Terminal(jobs[stream[c].job].status) /\ stream[c].read = 0)
      <3>1. stream'[c].pc = "sleep"
        BY <1>4, <2>3 DEF PollJob, FollowInv, StreamFrames
      <3> QED
        BY <3>1 DEF Whole
    <2> QED
      BY <2>2, <2>3
  <1>5. CASE WakeUp(c)
    <2>1. stream'[c].pc = "read"
      BY <1>5 DEF WakeUp, FollowInv, StreamFrames
    <2> QED
      BY <2>1 DEF Whole
  <1>6. CASE LoseConnection(c)
    <2>1. stream'[c].pc = "lost"
      BY <1>0, <1>6 DEF LoseConnection, Lost, FollowInv, StreamFrames
    <2> QED
      BY <2>1 DEF Whole
  <1> QED
    BY <1>1, <1>2, <1>3, <1>4, <1>5, <1>6 DEF ClientStep

\* A connection between its reads keeps the log as it read it, and a closed one is over.
LEMMA StillWhole ==
  ASSUME Mode = "inline", IndInv, [Next]_vars, NEW s \in StreamFrames, Follows(s), Whole(s),
         s.pc = "poll" => jobs' = jobs
  PROVE  Whole(s)'
  <1>1. s.pc = "closed" => s.job \in Requests
    BY DEF Follows, StreamFrames
  <1>2. s.pc = "closed" => jobs'[s.job] = jobs[s.job] /\ Over(s.job)'
    BY <1>1, OverStays DEF Whole
  <1> QED
    BY <1>2 DEF Whole

LEMMA NextWhole ==
  ASSUME Mode = "inline", IndInv, DeliveryInv, FollowInv, WholeInv, [StreamNext]_svars
  PROVE  WholeInv'
  <1>0. [Next]_vars
    BY StreamSteps
  <1>1. CASE stream' = stream
    <2>1. ASSUME NEW c \in Clients PROVE Whole(stream[c])'
      <3>1. PICK s \in StreamFrames : s = stream[c]
        BY DEF FollowInv
      <3>2. s.pc = "poll" => jobs' = jobs
        BY <3>1 DEF StreamNext, WritersNext, ServerCrash, ProcessCrash, svars, vars
      <3>3. Whole(s)'
        BY <1>0, <3>1, <3>2, StillWhole DEF FollowInv, WholeInv
      <3> QED
        BY <1>1, <3>1, <3>3 DEF Whole
    <2> QED
      BY <2>1 DEF WholeInv
  <1>2. CASE ProcessCrash /\ stream' = [c \in Clients |-> Lost(stream[c])]
    <2>1. ASSUME NEW c \in Clients PROVE Whole(stream[c])'
      <3>1. PICK s \in StreamFrames : s = stream[c]
        BY DEF FollowInv
      <3>2. stream'[c] = Lost(s)
        BY <1>2, <3>1
      <3>3. CASE s.pc \in Connected
        <4>1. stream'[c].pc = "lost"
          BY <3>2, <3>3 DEF Lost, StreamFrames
        <4> QED
          BY <4>1 DEF Whole
      <3>4. CASE s.pc \notin Connected
        <4>1. stream'[c] = s
          BY <3>2, <3>4 DEF Lost
        <4>2. Whole(s)'
          BY <1>0, <3>1, <3>4, StillWhole DEF FollowInv, WholeInv, Connected
        <4> QED
          BY <4>1, <4>2 DEF Whole
      <3> QED
        BY <3>3, <3>4
    <2> QED
      BY <2>1 DEF WholeInv
  <1>3. ASSUME NEW c \in Clients, ClientStep(c), UNCHANGED vars PROVE WholeInv'
    <2>1. Whole(stream'[c]) /\ stream' = [stream EXCEPT ![c] = stream'[c]]
      BY <1>3, ClientWhole, ClientFollows DEF IndInv
    <2>2. ASSUME NEW d \in Clients PROVE Whole(stream'[d])
      BY <2>1 DEF WholeInv, FollowInv
    <2>3. jobs' = jobs /\ api' = api /\ exec' = exec
      BY <1>3 DEF vars
    <2>4. \A d \in Clients : Whole(stream[d])'
      BY <2>2, <2>3 DEF Whole, Over
    <2> QED
      BY <2>4 DEF WholeInv
  <1> QED
    BY <1>1, <1>2, <1>3, StreamSteps

LEMMA InitWhole == StreamInit => WholeInv
  BY DEF StreamInit, NoStream, WholeInv, Whole

\* On one event loop, a stream the server ended was complete: its client holds every event of
\* the job, and none is appended later, whatever is cancelled, interrupted or crashes.
THEOREM ClosedStreamsAreComplete ==
  ASSUME Mode = "inline"
  PROVE  StreamSpec => []StreamIsComplete
  <1>1. DeliveredOnce
    BY DEF DeliveredOnce
  <1>2. StreamSpec => [](IndInv /\ DeliveryInv /\ FollowInv)
    BY <1>1, StreamAlwaysIndInv, AlwaysDelivery, AlwaysFollow, PTL
  <1>3. IndInv /\ DeliveryInv /\ FollowInv /\ WholeInv /\ [StreamNext]_svars => WholeInv'
    BY NextWhole
  <1>4. IndInv /\ FollowInv /\ WholeInv => StreamIsComplete
    <2> SUFFICES ASSUME IndInv, FollowInv, WholeInv, NEW c \in Clients, stream[c].pc = "closed"
                 PROVE  stream[c].received = Log(c)
      BY DEF StreamIsComplete
    <2>1. /\ stream[c] \in StreamFrames /\ Extends(stream[c].received, Log(c))
          /\ Len(stream[c].received) = Len(Log(c)) /\ stream[c].job \in Requests
      BY DEF FollowInv, Follows, WholeInv, Whole, Log, StreamFrames
    <2>2. stream[c].received \in Seq(Events) /\ Log(c) \in Seq(Events)
      BY <2>1 DEF StreamFrames, Log, IndInv, TypeOK, Rows
    <2> QED
      BY <2>1, <2>2 DEF Extends
  <1> QED
    BY <1>2, <1>3, <1>4, InitWhole, PTL DEF StreamSpec

=============================================================================
