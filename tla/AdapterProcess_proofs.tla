-------------------------- MODULE AdapterProcess_proofs --------------------------
(***************************************************************************)
(* Proofs about AdapterProcess, for every number of scans and every          *)
(* max_concurrency: slots, payload files and processes are given back, and   *)
(* the executor's loop implements ScanCall.                                 *)
(***************************************************************************)
EXTENDS AdapterProcess, FiniteSetTheorems, SequenceTheorems, TLAPS

-----------------------------------------------------------------------------
(* The inductive invariant *)

Holders == {s \in Scans : scan[s].pc \in Holding}

\* The frames, processes, signals and files have their types.
ScanFrames == [pc : {"new", "queued", "ended"} \cup Holding,
               reason : {"none", "timeout", "cancel"}, cancelling : BOOLEAN,
               outcome : Outcomes]

ExecFrames == [pc : {"poll", "await", "reraise", "done"}, cancelling : BOOLEAN,
               verdict : Verdicts]

FramesOK ==
  /\ scan \in [Scans -> ScanFrames]
  /\ exec \in [Scans -> ExecFrames]
  /\ proc \in [Scans -> {"none", "alive", "exited"}]
  /\ sig \in [Scans -> {"none", "term", "kill"}]
  /\ file \in [Scans -> {"none", "written", "partial"}]
  /\ free \in 0..MaxConcurrency
  /\ flag \subseteq Scans /\ down \in BOOLEAN

Waiting(s) == scan[s].pc = "queued" /\ ~scan[s].cancelling

\* The queue holds each waiting scan once.
QueueOK ==
  /\ queue \in Seq(Scans)
  /\ \A i, j \in 1..Len(queue) : queue[i] = queue[j] => i = j
  /\ \A i \in 1..Len(queue) : Waiting(queue[i])
  /\ \A s \in Scans : Waiting(s) => \E i \in 1..Len(queue) : queue[i] = s

\* No slot is lost or given twice.
SlotsOK ==
  /\ IsFiniteSet(Holders)
  /\ free + Cardinality(Holders) = MaxConcurrency
  /\ queue # << >> => free = 0

\* What a scan's process, its signal and its file are while the scan is where it is.
ScanOK(s) ==
  /\ scan[s].pc \in {"new", "queued", "spawn"} => proc[s] = "none"
  /\ scan[s].pc \in {"communicate", "grace", "kill"} => proc[s] # "none"
  /\ scan[s].pc \in {"new", "queued", "spawn", "communicate"} =>
       sig[s] = "none" /\ scan[s].reason = "none"
  /\ scan[s].pc \in {"grace", "kill"} => sig[s] # "none" /\ scan[s].reason # "none"
  /\ scan[s].pc = "new" => file[s] = "none"
  /\ scan[s].pc \in {"queued"} \cup Holding => file[s] = "written"
  /\ scan[s].outcome = "none" <=> ~Ended(s)
  /\ Ended(s) => ~scan[s].cancelling /\ file[s] # "written"

\* How a scan may have ended, seen from its process.
EndOK(s) ==
  /\ Ended(s) /\ proc[s] = "alive" =>
       /\ sig[s] # "none" /\ scan[s].outcome = "CANCELLED"
       /\ scan[s].reason = "timeout" \/ down
  /\ scan[s].outcome = "returned" => proc[s] = "exited" /\ sig[s] = "none"
  /\ scan[s].reason = "cancel" /\ scan[s].cancelling => down

\* A scan is cancelled only by an executor that has left its poll, or by the shutdown.
ExecOK(s) ==
  /\ exec[s].pc \in {"await", "reraise", "done"} \/ exec[s].verdict = "none"
  /\ exec[s].pc # "done" => exec[s].verdict = "none"
  /\ exec[s].cancelling => down
  /\ exec[s].pc = "poll" /\ ~exec[s].cancelling =>
       ~scan[s].cancelling /\ scan[s].reason # "cancel" /\ scan[s].outcome # "CANCELLED"
  /\ exec[s].pc = "await" => s \in flag
  /\ exec[s].pc = "reraise" => down
  /\ exec[s].pc = "done" /\ ~Ended(s) => exec[s].verdict = "INTERNAL_ERROR"
  /\ exec[s].verdict = "returned" => scan[s].outcome = "returned"

ScanInv(s) == ScanOK(s) /\ EndOK(s) /\ ExecOK(s)

Inv == FramesOK /\ QueueOK /\ SlotsOK /\ \A s \in Scans : ScanInv(s)

-----------------------------------------------------------------------------

\* The scan that is first in the queue waits.
LEMMA HeadWaits ==
  ASSUME QueueOK, queue # << >>
  PROVE  Head(queue) \in Scans /\ Waiting(Head(queue)) /\ Head(queue) = queue[1]
  <1>1. Len(queue) \in Nat /\ Len(queue) >= 1 /\ Head(queue) = queue[1] /\ queue[1] \in Scans
    BY DEF QueueOK
  <1> QED
    BY <1>1 DEF QueueOK

\* Removing a scan from a queue that holds it once closes the gap it leaves.
LEMMA RemoveFirstProperties ==
  ASSUME NEW S, NEW q \in Seq(S), NEW i \in 1..Len(q),
         \A j \in 1..Len(q) : q[j] = q[i] => j = i
  PROVE  /\ RemoveFirst(q, q[i]) \in Seq(S)
         /\ Len(RemoveFirst(q, q[i])) = Len(q) - 1
         /\ \A j \in 1..(Len(q) - 1) :
              RemoveFirst(q, q[i])[j] = IF j < i THEN q[j] ELSE q[j + 1]
  <1> DEFINE before == SubSeq(q, 1, i - 1)
             after == SubSeq(q, i + 1, Len(q))
  <1>0. Len(q) \in Nat /\ RemoveAt(q, i) = before \o after
    BY DEF RemoveAt
  <1>1. before \in Seq(S) /\ Len(before) = i - 1 /\ \A j \in 1..(i - 1) : before[j] = q[j]
    BY <1>0, SubSeqProperties
  <1>2. after \in Seq(S) /\ Len(after) = Len(q) - i
        /\ \A j \in 1..(Len(q) - i) : after[j] = q[i + j]
    BY <1>0, SubSeqProperties
  <1> HIDE DEF before, after
  <1>3. /\ before \o after \in Seq(S)
        /\ Len(before \o after) = Len(before) + Len(after)
        /\ \A j \in 1..(Len(before) + Len(after)) :
             (before \o after)[j] = IF j <= Len(before) THEN before[j] ELSE after[j - Len(before)]
    BY <1>1, <1>2, ConcatProperties
  <1>4. {j \in 1..Len(q) : q[j] = q[i]} = {i} /\ Min({i}) = i
    BY DEF Min
  <1>5. SelectInSeq(q, LAMBDA v : v = q[i]) = i
    BY <1>4 DEF SelectInSeq
  <1>6. RemoveFirst(q, q[i]) = RemoveAt(q, i)
    BY <1>5 DEF RemoveFirst
  <1>7. /\ RemoveAt(q, i) \in Seq(S) /\ Len(RemoveAt(q, i)) = Len(q) - 1
        /\ \A j \in 1..(Len(q) - 1) : RemoveAt(q, i)[j] = IF j < i THEN q[j] ELSE q[j + 1]
    BY <1>0, <1>1, <1>2, <1>3
  <1> QED
    BY <1>6, <1>7

\* Removing a scan that does not wait changes nothing.
LEMMA RemoveFirstAbsent ==
  ASSUME NEW q, NEW e, \A i \in 1..Len(q) : q[i] # e
  PROVE  RemoveFirst(q, e) = q
  <1> DEFINE found == SelectInSeq(q, LAMBDA v : v = e)
  <1>1. RemoveFirst(q, e) = IF \E i \in 1..Len(q) : q[i] = e THEN RemoveAt(q, found) ELSE q
    BY DEF RemoveFirst
  <1> HIDE DEF found
  <1> QED
    BY <1>1

-----------------------------------------------------------------------------
(* The semaphore *)

\* A scan that takes a free slot.
LEMMA TakeSlot ==
  ASSUME FramesOK, SlotsOK, NEW s \in Scans \ Holders, free > 0, free' = free - 1,
         Holders' = Holders \cup {s}, queue' = queue
  PROVE  SlotsOK' /\ free' \in 0..MaxConcurrency
  <1>1. /\ IsFiniteSet(Holders \cup {s}) /\ Cardinality(Holders) \in Nat
        /\ Cardinality(Holders \cup {s}) = Cardinality(Holders) + 1
    BY FS_AddElement, FS_CardinalityType DEF SlotsOK
  <1>2. free \in Nat /\ MaxConcurrency \in Nat
    BY AdapterAssumption DEF FramesOK
  <1> QED
    BY <1>1, <1>2 DEF SlotsOK

\* A scan that gives its slot back, or hands it to one that waits.
LEMMA GiveSlot ==
  ASSUME FramesOK, SlotsOK, NEW s \in Holders,
         \/ queue = << >> /\ queue' = queue /\ free' = free + 1 /\ Holders' = Holders \ {s}
         \/ /\ queue # << >> /\ free' = free
            /\ \E t \in Scans \ Holders : Holders' = (Holders \ {s}) \cup {t}
  PROVE  SlotsOK' /\ free' \in 0..MaxConcurrency
  <1> DEFINE rest == Holders \ {s}
  <1>1. /\ IsFiniteSet(rest) /\ Cardinality(rest) \in Nat /\ Cardinality(Holders) \in Nat
        /\ Cardinality(rest) = Cardinality(Holders) - 1
    BY FS_RemoveElement, FS_CardinalityType DEF SlotsOK
  <1>2. \A t \in Scans \ Holders : /\ IsFiniteSet(rest \cup {t})
                                   /\ Cardinality(rest \cup {t}) = Cardinality(rest) + 1
    BY <1>1, FS_AddElement
  <1>3. free \in Nat /\ MaxConcurrency \in Nat /\ free + Cardinality(Holders) = MaxConcurrency
    BY AdapterAssumption DEF FramesOK, SlotsOK
  <1>4. CASE queue = << >> /\ queue' = queue /\ free' = free + 1 /\ Holders' = rest
    <2>1. IsFiniteSet(Holders') /\ Cardinality(Holders') = Cardinality(Holders) - 1
      BY <1>1, <1>4
    <2>2. free' + Cardinality(Holders') = MaxConcurrency /\ free' \in 0..MaxConcurrency
      BY <1>1, <1>3, <1>4, <2>1
    <2>3. queue' = << >>
      BY <1>4
    <2> QED
      BY <2>1, <2>2, <2>3 DEF SlotsOK
  <1>5. ASSUME queue # << >>, free' = free, NEW t \in Scans \ Holders, Holders' = rest \cup {t}
        PROVE  SlotsOK' /\ free' \in 0..MaxConcurrency
    <2>0. IsFiniteSet(rest \cup {t}) /\ Cardinality(rest \cup {t}) = Cardinality(rest) + 1
      BY <1>2
    <2>1. IsFiniteSet(Holders') /\ Cardinality(Holders') = Cardinality(Holders)
      BY <1>1, <1>5, <2>0
    <2>2. free' + Cardinality(Holders') = MaxConcurrency /\ free' \in 0..MaxConcurrency
      BY <1>1, <1>3, <1>5, <2>1
    <2>3. free' = 0
      BY <1>5 DEF SlotsOK
    <2> QED
      BY <2>1, <2>2, <2>3 DEF SlotsOK
  <1> QED
    BY <1>4, <1>5

-----------------------------------------------------------------------------
(* The queue *)

\* Nobody starts or stops waiting.
LEMMA QueueKept ==
  ASSUME QueueOK, queue' = queue, \A t \in Scans : Waiting(t)' <=> Waiting(t)
  PROVE  QueueOK'
  <1>1. \A i \in 1..Len(queue) : queue[i] \in Scans
    BY DEF QueueOK
  <1> QED
    BY <1>1 DEF QueueOK

\* A scan joins at the end.
LEMMA QueueJoined ==
  ASSUME QueueOK, NEW s \in Scans, ~Waiting(s), queue' = Append(queue, s), Waiting(s)',
         \A t \in Scans \ {s} : Waiting(t)' <=> Waiting(t)
  PROVE  QueueOK'
  <1> DEFINE n == Len(queue)
  <1>1. /\ n \in Nat /\ queue' \in Seq(Scans) /\ Len(queue') = n + 1 /\ queue'[n + 1] = s
        /\ \A i \in 1..n : queue'[i] = queue[i] /\ queue[i] \in Scans /\ queue[i] # s
    BY DEF QueueOK
  <1> HIDE DEF n
  <1>2. \A i \in 1..(n + 1) : i \in 1..n \/ i = n + 1
    BY <1>1
  <1>3. \A i, j \in 1..Len(queue') : queue'[i] = queue'[j] => i = j
    BY <1>1, <1>2 DEF QueueOK, n
  <1>4. \A i \in 1..Len(queue') : scan'[queue'[i]].pc = "queued" /\ ~scan'[queue'[i]].cancelling
    BY <1>1, <1>2 DEF QueueOK, Waiting, n
  <1>5. ASSUME NEW t \in Scans, Waiting(t)' PROVE \E i \in 1..Len(queue') : queue'[i] = t
    <2>1. CASE t = s
      BY <1>1, <2>1
    <2>2. CASE t # s
      <3>1. PICK i \in 1..n : queue[i] = t
        BY <1>5, <2>2 DEF QueueOK, n
      <3>2. i \in 1..Len(queue') /\ queue'[i] = t
        BY <1>1, <3>1
      <3> QED
        BY <3>2
    <2> QED
      BY <2>1, <2>2
  <1> QED
    BY <1>1, <1>3, <1>4, <1>5 DEF QueueOK, Waiting

\* The scan in place k leaves, whichever way, and the others move up.
LEMMA QueueLeft ==
  ASSUME QueueOK, NEW k \in 1..Len(queue), NEW s \in Scans, queue[k] = s,
         queue' \in Seq(Scans), Len(queue') = Len(queue) - 1,
         \A j \in 1..(Len(queue) - 1) : queue'[j] = IF j < k THEN queue[j] ELSE queue[j + 1],
         ~Waiting(s)', \A t \in Scans \ {s} : Waiting(t)' <=> Waiting(t)
  PROVE  QueueOK'
  <1> DEFINE n == Len(queue)
             old(j) == IF j < k THEN j ELSE j + 1
  <1>1. n \in Nat /\ Len(queue') = n - 1 /\ k \in 1..n
    BY DEF QueueOK
  <1>2. \A j \in 1..(n - 1) : /\ old(j) \in 1..n /\ old(j) # k /\ queue'[j] = queue[old(j)]
                              /\ queue[old(j)] \in Scans \ {s}
    BY <1>1 DEF QueueOK
  <1>3. \A i, j \in 1..(n - 1) : old(i) = old(j) => i = j
    BY <1>1
  <1>4. \A i \in 1..n : i # k => \E j \in 1..(n - 1) : old(j) = i
    <2> SUFFICES ASSUME NEW i \in 1..n, i # k PROVE \E j \in 1..(n - 1) : old(j) = i
      OBVIOUS
    <2>1. CASE i < k
      BY <1>1, <2>1
    <2>2. CASE i > k
      <3>1. i - 1 \in 1..(n - 1) /\ old(i - 1) = i
        BY <1>1, <2>2
      <3> QED
        BY <3>1
    <2> QED
      BY <1>1, <2>1, <2>2
  <1> HIDE DEF n, old
  <1>5. \A i, j \in 1..Len(queue') : queue'[i] = queue'[j] => i = j
    <2> SUFFICES ASSUME NEW i \in 1..Len(queue'), NEW j \in 1..Len(queue'), queue'[i] = queue'[j]
                 PROVE  i = j
      OBVIOUS
    <2>1. /\ i \in 1..(n - 1) /\ j \in 1..(n - 1) /\ old(i) \in 1..n /\ old(j) \in 1..n
          /\ queue[old(i)] = queue[old(j)]
      BY <1>1, <1>2
    <2>2. old(i) = old(j)
      BY <2>1 DEF QueueOK, n
    <2> QED
      BY <1>3, <2>1, <2>2
  <1>6. \A i \in 1..Len(queue') : scan'[queue'[i]].pc = "queued" /\ ~scan'[queue'[i]].cancelling
    <2> SUFFICES ASSUME NEW i \in 1..Len(queue')
                 PROVE  scan'[queue'[i]].pc = "queued" /\ ~scan'[queue'[i]].cancelling
      OBVIOUS
    <2>1. PICK t \in Scans \ {s}, h \in 1..n : t = queue'[i] /\ t = queue[h]
      BY <1>1, <1>2
    <2>2. Waiting(t)
      BY <2>1 DEF QueueOK, Waiting, n
    <2>3. Waiting(t)'
      BY <2>2
    <2> QED
      BY <2>1, <2>3 DEF Waiting
  <1>7. ASSUME NEW t \in Scans, Waiting(t)' PROVE \E i \in 1..Len(queue') : queue'[i] = t
    <2>1. t # s /\ Waiting(t)
      BY <1>7
    <2>2. PICK i \in 1..n : queue[i] = t
      BY <2>1 DEF QueueOK, n
    <2>3. PICK j \in 1..(n - 1) : old(j) = i
      BY <1>4, <2>1, <2>2
    <2> QED
      BY <1>1, <1>2, <2>2, <2>3
  <1> QED
    BY <1>5, <1>6, <1>7 DEF QueueOK, Waiting

-----------------------------------------------------------------------------
(* What a step leaves alone *)

LEMMA SlotsKept ==
  ASSUME SlotsOK, Holders' = Holders, free' = free, queue' = queue
  PROVE  SlotsOK'
  BY DEF SlotsOK

\* A slot stays given while the queue shrinks.
LEMMA SlotsKeptQueueLeft ==
  ASSUME SlotsOK, Holders' = Holders, free' = free, queue = << >> => queue' = << >>
  PROVE  SlotsOK'
  BY DEF SlotsOK

\* A scan whose parts do not move, or that is handed a slot by another one.
LEMMA Bystander ==
  ASSUME FramesOK, NEW t \in Scans, ScanInv(t),
         scan'[t] = scan[t] \/ (Waiting(t) /\ scan'[t] = [scan[t] EXCEPT !.pc = "spawn"]),
         exec'[t] = exec[t], proc'[t] = proc[t], sig'[t] = sig[t], file'[t] = file[t],
         t \in flag => t \in flag', down => down'
  PROVE  ScanInv(t)'
  <1>1. scan[t] \in ScanFrames
    BY DEF FramesOK
  <1>2. CASE scan'[t] = scan[t]
    BY <1>2 DEF ScanInv, ScanOK, EndOK, ExecOK, Ended
  <1>3. CASE Waiting(t) /\ scan'[t] = [scan[t] EXCEPT !.pc = "spawn"]
    <2>1. /\ scan'[t].pc = "spawn" /\ scan'[t].reason = scan[t].reason
          /\ scan'[t].cancelling = FALSE /\ scan'[t].outcome = scan[t].outcome
          /\ scan[t].pc = "queued" /\ scan[t].cancelling = FALSE
      BY <1>1, <1>3 DEF Waiting, ScanFrames
    <2>2. ScanOK(t)'
      BY <2>1 DEF ScanInv, ScanOK, Ended, Holding
    <2>3. EndOK(t)'
      BY <2>1 DEF ScanInv, EndOK, ScanOK, Ended
    <2>4. ExecOK(t)'
      BY <2>1 DEF ScanInv, ExecOK, Ended
    <2> QED
      BY <2>2, <2>3, <2>4 DEF ScanInv
  <1> QED
    BY <1>2, <1>3

\* The end of a scan that holds a slot.
LEMMA FinishEffects ==
  ASSUME FramesOK, QueueOK, SlotsOK, NEW s \in Holders, NEW o \in Outcomes, Finish(s, o)
  PROVE  /\ scan' \in [Scans -> ScanFrames] /\ free' \in 0..MaxConcurrency
         /\ QueueOK' /\ SlotsOK'
         /\ scan'[s] = EndedAs(scan[s], o)
         /\ \A t \in Scans \ {s} :
              scan'[t] = scan[t] \/ (Waiting(t) /\ scan'[t] = [scan[t] EXCEPT !.pc = "spawn"])
         /\ file' = [file EXCEPT ![s] = "none"]
  <1> DEFINE frames == [scan EXCEPT ![s] = EndedAs(scan[s], o)]
  <1>1. /\ s \in Scans /\ scan[s] \in ScanFrames /\ scan[s].pc \in Holding /\ ~Waiting(s)
        /\ file' = [file EXCEPT ![s] = "none"]
    BY DEF Holders, FramesOK, Finish, Waiting, Holding
  <1>2. EndedAs(scan[s], o) \in ScanFrames /\ EndedAs(scan[s], o).pc = "ended"
    BY <1>1 DEF EndedAs, ScanFrames
  <1>3. frames \in [Scans -> ScanFrames] /\ frames[s] = EndedAs(scan[s], o)
        /\ \A t \in Scans \ {s} : frames[t] = scan[t]
    BY <1>1, <1>2 DEF FramesOK
  <1>4. \/ queue = << >> /\ scan' = frames /\ free' = free + 1 /\ queue' = queue
        \/ /\ queue # << >> /\ scan' = [frames EXCEPT ![Head(queue)].pc = "spawn"]
           /\ queue' = Tail(queue) /\ free' = free
    BY DEF Finish, Release
  <1> HIDE DEF frames
  <1>5. CASE queue = << >> /\ scan' = frames /\ free' = free + 1 /\ queue' = queue
    <2>1. \A t \in Scans : Waiting(t)' <=> Waiting(t)
      BY <1>1, <1>2, <1>3, <1>5 DEF Waiting
    <2>2. QueueOK'
      BY <1>5, <2>1, QueueKept
    <2>3. \A t \in Scans : t \in Holders' <=> t \in Holders /\ t # s
      BY <1>1, <1>2, <1>3, <1>5 DEF Holders, Holding
    <2>4. Holders' = Holders \ {s}
      BY <2>3 DEF Holders
    <2>5. SlotsOK' /\ free' \in 0..MaxConcurrency
      BY <1>5, <2>4, GiveSlot
    <2> QED
      BY <1>1, <1>3, <1>5, <2>2, <2>5
  <1>6. CASE /\ queue # << >> /\ scan' = [frames EXCEPT ![Head(queue)].pc = "spawn"]
             /\ queue' = Tail(queue) /\ free' = free
    <2>1. PICK h \in Scans : h = Head(queue) /\ Waiting(h) /\ h = queue[1] /\ h # s
      BY <1>1, <1>6, HeadWaits
    <2>2. scan[h] \in ScanFrames /\ scan[h].pc = "queued" /\ ~scan[h].cancelling
      BY <2>1 DEF FramesOK, Waiting
    <2>3. scan' = [frames EXCEPT ![h] = [scan[h] EXCEPT !.pc = "spawn"]]
      BY <1>3, <1>6, <2>1
    <2>4. [scan[h] EXCEPT !.pc = "spawn"] \in ScanFrames /\ [scan[h] EXCEPT !.pc = "spawn"].pc = "spawn"
      BY <2>2 DEF ScanFrames, Holding
    <2>5. /\ scan' \in [Scans -> ScanFrames] /\ scan'[s] = EndedAs(scan[s], o)
          /\ scan'[h] = [scan[h] EXCEPT !.pc = "spawn"]
          /\ \A t \in Scans \ {s, h} : scan'[t] = scan[t]
      BY <1>1, <1>3, <2>1, <2>3, <2>4
    <2>6. ~Waiting(h)' /\ \A t \in Scans \ {h} : Waiting(t)' <=> Waiting(t)
      BY <1>1, <1>2, <2>4, <2>5 DEF Waiting
    <2>7. QueueOK'
      <3>1. /\ queue \in Seq(Scans) /\ Len(queue) \in Nat /\ Len(queue) >= 1
            /\ 1 \in 1..Len(queue)
        BY <1>6 DEF QueueOK
      <3>2. /\ queue' \in Seq(Scans) /\ Len(queue') = Len(queue) - 1
            /\ \A j \in 1..(Len(queue) - 1) : queue'[j] = queue[j + 1]
        BY <1>6, <3>1
      <3>3. \A j \in 1..(Len(queue) - 1) : queue'[j] = IF j < 1 THEN queue[j] ELSE queue[j + 1]
        BY <3>1, <3>2
      <3> QED
        BY <2>1, <2>6, <3>1, <3>2, <3>3, QueueLeft
    <2>8. h \in Scans \ Holders /\ Holders' = (Holders \ {s}) \cup {h}
      <3>1. \A t \in Scans : t \in Holders' <=> (t \in Holders /\ t # s) \/ t = h
        BY <1>1, <1>2, <2>1, <2>4, <2>5 DEF Holders, Holding
      <3>2. h \notin Holders
        BY <2>2 DEF Holders, Holding
      <3> QED
        BY <2>1, <3>1, <3>2 DEF Holders
    <2>9. SlotsOK' /\ free' \in 0..MaxConcurrency
      BY <1>6, <2>8, GiveSlot
    <2> QED
      BY <1>1, <2>1, <2>5, <2>7, <2>9
  <1> QED
    BY <1>4, <1>5, <1>6

\* A step of one scan that neither takes nor gives a slot, nor starts or stops waiting.
LEMMA MoveEffects ==
  ASSUME FramesOK, QueueOK, SlotsOK, NEW s \in Scans, NEW f \in ScanFrames,
         scan' = [scan EXCEPT ![s] = f], queue' = queue, free' = free,
         f.pc \in Holding <=> scan[s].pc \in Holding,
         f.pc = "queued" /\ ~f.cancelling <=> Waiting(s)
  PROVE  /\ scan' \in [Scans -> ScanFrames] /\ QueueOK' /\ SlotsOK'
         /\ scan'[s] = f /\ \A t \in Scans \ {s} : scan'[t] = scan[t]
  <1>1. /\ scan' \in [Scans -> ScanFrames] /\ scan'[s] = f
        /\ \A t \in Scans \ {s} : scan'[t] = scan[t]
    BY DEF FramesOK
  <1>2. \A t \in Scans : Waiting(t)' <=> Waiting(t)
    BY <1>1 DEF Waiting
  <1>3. \A t \in Scans : t \in Holders' <=> t \in Holders
    BY <1>1 DEF Holders
  <1>4. Holders' = Holders
    BY <1>3 DEF Holders
  <1> QED
    BY <1>1, <1>2, <1>4, QueueKept, SlotsKept

\* The cancelled scan leaves the queue if it waits there.
LEMMA CancelTaskEffects ==
  ASSUME FramesOK, QueueOK, SlotsOK, NEW s \in Scans, CancelTask(s), free' = free
  PROVE  /\ scan' \in [Scans -> ScanFrames] /\ QueueOK' /\ SlotsOK'
         /\ scan'[s] = [scan[s] EXCEPT !.cancelling = TRUE]
         /\ \A t \in Scans \ {s} : scan'[t] = scan[t]
  <1>1. /\ scan' \in [Scans -> ScanFrames] /\ scan'[s] = [scan[s] EXCEPT !.cancelling = TRUE]
        /\ \A t \in Scans \ {s} : scan'[t] = scan[t]
    BY DEF FramesOK, CancelTask, ScanFrames
  <1>2. scan[s] \in ScanFrames /\ scan'[s].pc = scan[s].pc /\ scan'[s].cancelling
    BY <1>1 DEF FramesOK, ScanFrames
  <1>3. \A t \in Scans : t \in Holders' <=> t \in Holders
    BY <1>1, <1>2 DEF Holders
  <1>4. Holders' = Holders
    BY <1>3 DEF Holders
  <1>5. ~Waiting(s)' /\ \A t \in Scans \ {s} : Waiting(t)' <=> Waiting(t)
    BY <1>1, <1>2 DEF Waiting
  <1>6. queue' = RemoveFirst(queue, s) /\ queue \in Seq(Scans) /\ Len(queue) \in Nat
    BY DEF CancelTask, QueueOK
  <1>7. CASE Waiting(s)
    <2>1. PICK i \in 1..Len(queue) : queue[i] = s
      BY <1>7 DEF QueueOK
    <2>2. \A j \in 1..Len(queue) : queue[j] = queue[i] => j = i
      BY DEF QueueOK
    <2>3. /\ queue' \in Seq(Scans) /\ Len(queue') = Len(queue) - 1
          /\ \A j \in 1..(Len(queue) - 1) : queue'[j] = IF j < i THEN queue[j] ELSE queue[j + 1]
      BY <1>6, <2>1, <2>2, RemoveFirstProperties
    <2>4. QueueOK'
      BY <1>5, <2>1, <2>3, QueueLeft
    <2>5. queue # << >>
      BY <1>6, <2>1
    <2> QED
      BY <1>1, <1>4, <2>4, <2>5, SlotsKeptQueueLeft
  <1>8. CASE ~Waiting(s)
    <2>1. \A i \in 1..Len(queue) : queue[i] # s
      BY <1>8 DEF QueueOK
    <2>2. queue' = queue
      BY <1>6, <2>1, RemoveFirstAbsent
    <2>3. \A t \in Scans : Waiting(t)' <=> Waiting(t)
      BY <1>5, <1>8
    <2> QED
      BY <1>1, <1>4, <2>2, <2>3, QueueKept, SlotsKept
  <1> QED
    BY <1>7, <1>8

-----------------------------------------------------------------------------
(* The steps of a scan preserve the invariant *)

LEMMA RefuseInv ==
  ASSUME Inv, NEW s \in Scans, NEW o \in Outcomes, Refuse(s, o)
  PROVE  Inv'
  <1> DEFINE f == EndedAs(scan[s], o)
  <1>1. /\ FramesOK /\ QueueOK /\ SlotsOK /\ \A t \in Scans : ScanInv(t)
        /\ scan[s] \in ScanFrames /\ scan[s].pc = "new" /\ ~scan[s].cancelling
        /\ scan' = [scan EXCEPT ![s] = f]
        /\ UNCHANGED <<exec, proc, sig, file, queue, free, flag, down>>
        /\ o \in {"ADAPTER_UNAVAILABLE", "PRODUCT_CLI_ERROR"}
    BY DEF Inv, FramesOK, Refuse, At
  <1>2. /\ f \in ScanFrames /\ f.pc = "ended" /\ f.outcome = o /\ ~f.cancelling
        /\ f.reason = scan[s].reason
    BY <1>1 DEF EndedAs, ScanFrames
  <1> HIDE DEF f
  <1>3. /\ scan' \in [Scans -> ScanFrames] /\ QueueOK' /\ SlotsOK' /\ scan'[s] = f
        /\ \A t \in Scans \ {s} : scan'[t] = scan[t]
    BY <1>1, <1>2, MoveEffects DEF Holding, Waiting
  <1>4. FramesOK'
    BY <1>1, <1>3 DEF FramesOK
  <1>5. ScanInv(s)'
    BY <1>1, <1>2, <1>3 DEF ScanInv, ScanOK, EndOK, ExecOK, Ended, Holding
  <1>6. \A t \in Scans \ {s} : ScanInv(t)'
    BY <1>1, <1>3, Bystander
  <1> QED
    BY <1>3, <1>4, <1>5, <1>6 DEF Inv

LEMMA WriteFailsInv ==
  ASSUME Inv, NEW s \in Scans, WriteFails(s)
  PROVE  Inv'
  <1> DEFINE f == EndedAs(scan[s], "INTERNAL_ERROR")
  <1>1. /\ FramesOK /\ QueueOK /\ SlotsOK /\ \A t \in Scans : ScanInv(t)
        /\ scan[s] \in ScanFrames /\ scan[s].pc = "new" /\ ~scan[s].cancelling
        /\ scan' = [scan EXCEPT ![s] = f] /\ file' = [file EXCEPT ![s] = "partial"]
        /\ UNCHANGED <<exec, proc, sig, queue, free, flag, down>>
    BY DEF Inv, FramesOK, WriteFails, At
  <1>2. /\ f \in ScanFrames /\ f.pc = "ended" /\ f.outcome = "INTERNAL_ERROR" /\ ~f.cancelling
        /\ f.reason = scan[s].reason
    BY <1>1 DEF EndedAs, ScanFrames, Outcomes
  <1> HIDE DEF f
  <1>3. /\ scan' \in [Scans -> ScanFrames] /\ QueueOK' /\ SlotsOK' /\ scan'[s] = f
        /\ \A t \in Scans \ {s} : scan'[t] = scan[t]
    BY <1>1, <1>2, MoveEffects DEF Holding, Waiting
  <1>4. FramesOK' /\ file'[s] = "partial" /\ \A t \in Scans \ {s} : file'[t] = file[t]
    BY <1>1, <1>3 DEF FramesOK
  <1>5. ScanInv(s)'
    BY <1>1, <1>2, <1>3, <1>4 DEF ScanInv, ScanOK, EndOK, ExecOK, Ended, Holding
  <1>6. \A t \in Scans \ {s} : ScanInv(t)'
    BY <1>1, <1>3, <1>4, Bystander
  <1> QED
    BY <1>3, <1>4, <1>5, <1>6 DEF Inv

LEMMA StartInv ==
  ASSUME Inv, NEW s \in Scans, Start(s)
  PROVE  Inv'
  <1>1. /\ FramesOK /\ QueueOK /\ SlotsOK /\ \A t \in Scans : ScanInv(t)
        /\ scan[s] \in ScanFrames /\ scan[s].pc = "new" /\ ~scan[s].cancelling
        /\ file' = [file EXCEPT ![s] = "written"]
        /\ UNCHANGED <<exec, proc, sig, flag, down>>
        /\ free \in 0..MaxConcurrency /\ free \in Nat
    BY AdapterAssumption DEF Inv, FramesOK, Start, At
  <1>2. file' \in [Scans -> {"none", "written", "partial"}] /\ file'[s] = "written"
        /\ \A t \in Scans \ {s} : file'[t] = file[t]
    BY <1>1 DEF FramesOK
  <1>3. ASSUME NEW pc \in {"spawn", "queued"}, scan' = [scan EXCEPT ![s].pc = pc],
               QueueOK', SlotsOK', free' \in 0..MaxConcurrency
        PROVE  Inv'
    <2>1. /\ scan' \in [Scans -> ScanFrames] /\ scan'[s] = [scan[s] EXCEPT !.pc = pc]
          /\ \A t \in Scans \ {s} : scan'[t] = scan[t]
      BY <1>1, <1>3 DEF FramesOK, ScanFrames, Holding
    <2>2. /\ scan'[s].pc = pc /\ ~scan'[s].cancelling /\ scan'[s].reason = scan[s].reason
          /\ scan'[s].outcome = scan[s].outcome
      BY <1>1, <2>1 DEF ScanFrames
    <2>3. FramesOK'
      BY <1>1, <1>2, <1>3, <2>1 DEF FramesOK
    <2>4. ScanInv(s)'
      BY <1>1, <1>2, <1>3, <2>2 DEF ScanInv, ScanOK, EndOK, ExecOK, Ended, Holding
    <2>5. \A t \in Scans \ {s} : ScanInv(t)'
      BY <1>1, <1>2, <2>1, Bystander
    <2> QED
      BY <1>3, <2>3, <2>4, <2>5 DEF Inv
  <1>4. CASE free > 0
    <2>1. free' = free - 1 /\ scan' = [scan EXCEPT ![s].pc = "spawn"] /\ queue' = queue
      BY <1>4 DEF Start
    <2>2. /\ scan'[s].pc = "spawn" /\ ~scan'[s].cancelling
          /\ \A t \in Scans \ {s} : scan'[t] = scan[t]
      BY <1>1, <2>1 DEF FramesOK, ScanFrames
    <2>3. \A t \in Scans : Waiting(t)' <=> Waiting(t)
      BY <1>1, <2>2 DEF Waiting
    <2>4. s \in Scans \ Holders /\ \A t \in Scans : t \in Holders' <=> t \in Holders \/ t = s
      BY <1>1, <2>2 DEF Holders, Holding
    <2>5. Holders' = Holders \cup {s}
      BY <2>4 DEF Holders
    <2>6. SlotsOK' /\ free' \in 0..MaxConcurrency
      BY <1>1, <1>4, <2>1, <2>4, <2>5, TakeSlot
    <2> QED
      BY <1>1, <1>3, <2>1, <2>3, <2>6, QueueKept
  <1>5. CASE ~(free > 0)
    <2>1. queue' = Append(queue, s) /\ scan' = [scan EXCEPT ![s].pc = "queued"] /\ free' = free
      BY <1>5 DEF Start
    <2>2. /\ scan'[s].pc = "queued" /\ ~scan'[s].cancelling
          /\ \A t \in Scans \ {s} : scan'[t] = scan[t]
      BY <1>1, <2>1 DEF FramesOK, ScanFrames
    <2>3. Waiting(s)' /\ ~Waiting(s) /\ \A t \in Scans \ {s} : Waiting(t)' <=> Waiting(t)
      BY <1>1, <2>2 DEF Waiting
    <2>4. QueueOK'
      BY <1>1, <2>1, <2>3, QueueJoined
    <2>5. \A t \in Scans : t \in Holders' <=> t \in Holders
      BY <1>1, <2>2 DEF Holders, Holding
    <2>6. Holders' = Holders /\ free' = 0
      BY <1>1, <1>5, <2>1, <2>5 DEF Holders
    <2>7. SlotsOK'
      BY <1>1, <2>1, <2>6 DEF SlotsOK
    <2> QED
      BY <1>1, <1>3, <2>1, <2>4, <2>7
  <1> QED
    BY <1>4, <1>5

\* A scan that holds a slot ends, in a way its process and its executor agree with.
LEMMA FinishInv ==
  ASSUME Inv, NEW s \in Holders, NEW o \in Outcomes \ {"none"}, Finish(s, o),
         UNCHANGED <<exec, proc, sig, flag, down>>,
         proc[s] = "alive" => /\ sig[s] # "none" /\ o = "CANCELLED"
                              /\ scan[s].reason = "timeout" \/ down,
         o = "returned" => proc[s] = "exited" /\ sig[s] = "none",
         exec[s].pc = "poll" /\ ~exec[s].cancelling => o # "CANCELLED"
  PROVE  Inv'
  <1> DEFINE f == EndedAs(scan[s], o)
  <1>1. /\ FramesOK /\ QueueOK /\ SlotsOK /\ \A t \in Scans : ScanInv(t)
        /\ s \in Scans /\ scan[s] \in ScanFrames /\ ~Ended(s)
    BY DEF Inv, FramesOK, Holders, Holding, Ended
  <1>2. /\ f.pc = "ended" /\ f.outcome = o /\ ~f.cancelling /\ f.reason = scan[s].reason
    BY <1>1 DEF EndedAs, ScanFrames
  <1> HIDE DEF f
  <1>3. /\ scan' \in [Scans -> ScanFrames] /\ free' \in 0..MaxConcurrency
        /\ QueueOK' /\ SlotsOK' /\ scan'[s] = f
        /\ \A t \in Scans \ {s} :
             scan'[t] = scan[t] \/ (Waiting(t) /\ scan'[t] = [scan[t] EXCEPT !.pc = "spawn"])
        /\ file' = [file EXCEPT ![s] = "none"]
    BY <1>1, FinishEffects DEF f
  <1>4. FramesOK' /\ file'[s] = "none" /\ \A t \in Scans \ {s} : file'[t] = file[t]
    BY <1>1, <1>3 DEF FramesOK
  <1>5. ScanOK(s)'
    BY <1>1, <1>2, <1>3, <1>4 DEF ScanOK, Ended, Holding
  <1>6. EndOK(s)'
    BY <1>1, <1>2, <1>3 DEF EndOK, Ended
  <1>7. ExecOK(s)'
    BY <1>1, <1>2, <1>3 DEF ScanInv, ExecOK, Ended
  <1>8. \A t \in Scans \ {s} : ScanInv(t)'
    BY <1>1, <1>3, <1>4, Bystander
  <1> QED
    BY <1>3, <1>4, <1>5, <1>6, <1>7, <1>8 DEF Inv, ScanInv

LEMMA SpawnFailsInv ==
  ASSUME Inv, NEW s \in Scans, SpawnFails(s)
  PROVE  Inv'
  BY FinishInv DEF SpawnFails, At, Inv, ScanInv, ScanOK, Holders, Holding, Outcomes

LEMMA SpawnInv ==
  ASSUME Inv, NEW s \in Scans, Spawn(s)
  PROVE  Inv'
  <1> DEFINE f == [scan[s] EXCEPT !.pc = "communicate"]
  <1>1. /\ FramesOK /\ QueueOK /\ SlotsOK /\ \A t \in Scans : ScanInv(t)
        /\ scan[s] \in ScanFrames /\ scan[s].pc = "spawn" /\ ~scan[s].cancelling
        /\ scan' = [scan EXCEPT ![s] = f] /\ proc' = [proc EXCEPT ![s] = "alive"]
        /\ UNCHANGED <<exec, sig, file, queue, free, flag, down>>
    BY DEF Inv, FramesOK, Spawn, At
  <1>2. /\ f \in ScanFrames /\ f.pc = "communicate" /\ f.outcome = scan[s].outcome
        /\ ~f.cancelling /\ f.reason = scan[s].reason
    BY <1>1 DEF Holding, ScanFrames
  <1> HIDE DEF f
  <1>3. /\ scan' \in [Scans -> ScanFrames] /\ QueueOK' /\ SlotsOK' /\ scan'[s] = f
        /\ \A t \in Scans \ {s} : scan'[t] = scan[t]
    BY <1>1, <1>2, MoveEffects DEF Holding, Waiting
  <1>4. FramesOK' /\ proc'[s] = "alive" /\ \A t \in Scans \ {s} : proc'[t] = proc[t]
    BY <1>1, <1>3 DEF FramesOK
  <1>5. ScanInv(s)'
    BY <1>1, <1>2, <1>3, <1>4 DEF ScanInv, ScanOK, EndOK, ExecOK, Ended, Holding
  <1>6. \A t \in Scans \ {s} : ScanInv(t)'
    BY <1>1, <1>3, <1>4, Bystander
  <1> QED
    BY <1>3, <1>4, <1>5, <1>6 DEF Inv

LEMMA CollectInv ==
  ASSUME Inv, NEW s \in Scans, NEW o \in Outcomes, Collect(s, o)
  PROVE  Inv'
  <1>1. /\ scan[s].pc = "communicate" /\ proc[s] = "exited" /\ Finish(s, o) /\ ScanInv(s)
        /\ o \in {"returned", "PRODUCT_CLI_ERROR", "INTERNAL_ERROR"}
        /\ UNCHANGED <<exec, proc, sig, flag, down>>
    BY DEF Collect, At, Inv
  <1>2. s \in Holders /\ sig[s] = "none"
    BY <1>1 DEF ScanInv, ScanOK, Holders, Holding
  <1> QED
    BY <1>1, <1>2, FinishInv

\* A stop on a timeout, or on a cancellation by an executor that no longer polls.
LEMMA StopProcessInv ==
  ASSUME Inv, NEW s \in Scans, NEW reason \in {"timeout", "cancel"}, StopProcess(s, reason),
         scan[s].pc = "communicate", UNCHANGED <<exec, proc, flag, down>>,
         reason = "cancel" => ~(exec[s].pc = "poll" /\ ~exec[s].cancelling)
  PROVE  Inv'
  <1>1. CASE proc[s] = "exited" /\ Finish(s, StoppedAs(reason)) /\ UNCHANGED sig
    <2>1. StoppedAs(reason) \in Outcomes \ {"none", "returned"} /\ s \in Holders
          /\ (StoppedAs(reason) = "CANCELLED" => reason = "cancel")
      BY DEF StoppedAs, Outcomes, Holders, Holding
    <2> QED
      BY <1>1, <2>1, FinishInv
  <1>2. CASE /\ proc[s] = "alive" /\ sig' = [sig EXCEPT ![s] = "term"]
             /\ scan' = [scan EXCEPT ![s].pc = "grace", ![s].reason = reason,
                                     ![s].cancelling = FALSE]
             /\ UNCHANGED <<file, queue, free>>
    <2> DEFINE f == [scan[s] EXCEPT !.pc = "grace", !.reason = reason, !.cancelling = FALSE]
    <2>1. /\ FramesOK /\ QueueOK /\ SlotsOK /\ \A t \in Scans : ScanInv(t)
          /\ scan[s] \in ScanFrames /\ scan \in [Scans -> ScanFrames]
      BY DEF Inv, FramesOK
    <2>2. /\ f \in ScanFrames /\ f.pc = "grace" /\ f.outcome = scan[s].outcome
          /\ ~f.cancelling /\ f.reason = reason
      BY <2>1 DEF Holding, ScanFrames
    <2>3. scan' = [scan EXCEPT ![s] = f]
      BY <1>2, <2>1
    <2> HIDE DEF f
    <2>4. /\ scan' \in [Scans -> ScanFrames] /\ QueueOK' /\ SlotsOK' /\ scan'[s] = f
          /\ \A t \in Scans \ {s} : scan'[t] = scan[t]
      BY <1>2, <2>1, <2>2, <2>3, MoveEffects DEF Holding, Waiting
    <2>5. FramesOK' /\ sig'[s] = "term" /\ \A t \in Scans \ {s} : sig'[t] = sig[t]
      BY <1>2, <2>1, <2>4 DEF FramesOK
    <2>6. ScanOK(s)' /\ EndOK(s)'
      BY <1>2, <2>1, <2>2, <2>4, <2>5 DEF ScanInv, ScanOK, EndOK, Ended, Holding
    <2>7. ExecOK(s)'
      BY <1>2, <2>1, <2>2, <2>4 DEF ScanInv, ExecOK, Ended
    <2>8. \A t \in Scans \ {s} : ScanInv(t)'
      BY <1>2, <2>1, <2>4, <2>5, Bystander
    <2> QED
      BY <2>4, <2>5, <2>6, <2>7, <2>8 DEF Inv, ScanInv
  <1> QED
    BY <1>1, <1>2 DEF StopProcess

LEMMA TimeoutInv ==
  ASSUME Inv, NEW s \in Scans, Timeout(s)
  PROVE  Inv'
  BY StopProcessInv DEF Timeout, At

LEMMA GraceEndsInv ==
  ASSUME Inv, NEW s \in Scans, GraceEnds(s)
  PROVE  Inv'
  <1> DEFINE f == [scan[s] EXCEPT !.pc = "kill"]
  <1>1. /\ FramesOK /\ QueueOK /\ SlotsOK /\ \A t \in Scans : ScanInv(t)
        /\ scan[s] \in ScanFrames /\ scan[s].pc = "grace" /\ ~scan[s].cancelling
        /\ scan' = [scan EXCEPT ![s] = f] /\ sig' = [sig EXCEPT ![s] = "kill"]
        /\ UNCHANGED <<exec, proc, file, queue, free, flag, down>>
    BY DEF Inv, FramesOK, GraceEnds, At
  <1>2. /\ f \in ScanFrames /\ f.pc = "kill" /\ f.outcome = scan[s].outcome
        /\ ~f.cancelling /\ f.reason = scan[s].reason
    BY <1>1 DEF Holding, ScanFrames
  <1> HIDE DEF f
  <1>3. /\ scan' \in [Scans -> ScanFrames] /\ QueueOK' /\ SlotsOK' /\ scan'[s] = f
        /\ \A t \in Scans \ {s} : scan'[t] = scan[t]
    BY <1>1, <1>2, MoveEffects DEF Holding, Waiting
  <1>4. FramesOK' /\ sig'[s] = "kill" /\ \A t \in Scans \ {s} : sig'[t] = sig[t]
    BY <1>1, <1>3 DEF FramesOK
  <1>5. ScanInv(s)'
    BY <1>1, <1>2, <1>3, <1>4 DEF ScanInv, ScanOK, EndOK, ExecOK, Ended, Holding
  <1>6. \A t \in Scans \ {s} : ScanInv(t)'
    BY <1>1, <1>3, <1>4, Bystander
  <1> QED
    BY <1>3, <1>4, <1>5, <1>6 DEF Inv

LEMMA StoppedInv ==
  ASSUME Inv, NEW s \in Scans, Stopped(s)
  PROVE  Inv'
  <1> DEFINE o == StoppedAs(scan[s].reason)
  <1>1. /\ scan[s].pc \in {"grace", "kill"} /\ proc[s] = "exited" /\ Finish(s, o) /\ ScanInv(s)
        /\ UNCHANGED <<exec, proc, sig, flag, down>> /\ scan[s] \in ScanFrames
    BY DEF Stopped, At, Inv, FramesOK
  <1>2. scan[s].reason \in {"timeout", "cancel"} /\ s \in Holders
    BY <1>1 DEF ScanFrames, ScanInv, ScanOK, Holders, Holding
  <1>3. o \in Outcomes \ {"none", "returned"} /\ (o = "CANCELLED" => scan[s].reason = "cancel")
    BY <1>2 DEF StoppedAs, Outcomes
  <1> HIDE DEF o
  <1>4. exec[s].pc = "poll" /\ ~exec[s].cancelling => o # "CANCELLED"
    BY <1>1, <1>3 DEF ScanInv, ExecOK
  <1> QED
    BY <1>1, <1>2, <1>3, <1>4, FinishInv

LEMMA TakeCancelInv ==
  ASSUME Inv, NEW s \in Scans, TakeCancel(s)
  PROVE  Inv'
  <1>1. /\ FramesOK /\ QueueOK /\ SlotsOK /\ \A t \in Scans : ScanInv(t)
        /\ scan[s] \in ScanFrames /\ scan[s].cancelling
        /\ UNCHANGED <<exec, proc, flag, down>>
        /\ ~(exec[s].pc = "poll" /\ ~exec[s].cancelling)
    BY DEF Inv, FramesOK, TakeCancel, ScanInv, ExecOK
  <1>2. CASE /\ scan[s].pc \in {"new", "queued"}
             /\ scan' = [scan EXCEPT ![s] = EndedAs(@, "CANCELLED")]
             /\ file' = [file EXCEPT ![s] = "none"]
             /\ UNCHANGED <<sig, queue, free>>
    <2> DEFINE f == EndedAs(scan[s], "CANCELLED")
    <2>1. /\ f \in ScanFrames /\ f.pc = "ended" /\ f.outcome = "CANCELLED" /\ ~f.cancelling
          /\ f.reason = scan[s].reason
      BY <1>1 DEF EndedAs, ScanFrames, Outcomes
    <2>2. scan' = [scan EXCEPT ![s] = f]
      BY <1>2
    <2> HIDE DEF f
    <2>3. /\ scan' \in [Scans -> ScanFrames] /\ QueueOK' /\ SlotsOK' /\ scan'[s] = f
          /\ \A t \in Scans \ {s} : scan'[t] = scan[t]
      BY <1>1, <1>2, <2>1, <2>2, MoveEffects DEF Holding, Waiting
    <2>4. FramesOK' /\ file'[s] = "none" /\ \A t \in Scans \ {s} : file'[t] = file[t]
      BY <1>1, <1>2, <2>3 DEF FramesOK
    <2>5. ScanOK(s)' /\ EndOK(s)'
      BY <1>1, <1>2, <2>1, <2>3, <2>4 DEF ScanInv, ScanOK, EndOK, Ended, Holding
    <2>6. ExecOK(s)'
      BY <1>1, <1>2, <2>1, <2>3 DEF ScanInv, ExecOK, Ended
    <2>7. \A t \in Scans \ {s} : ScanInv(t)'
      BY <1>1, <1>2, <2>3, <2>4, Bystander
    <2> QED
      BY <2>3, <2>4, <2>5, <2>6, <2>7 DEF Inv, ScanInv
  <1>3. CASE scan[s].pc = "communicate" /\ StopProcess(s, "cancel")
    BY <1>1, <1>3, StopProcessInv
  <1>4. CASE scan[s].pc \in {"spawn", "grace", "kill"} /\ Finish(s, "CANCELLED") /\ UNCHANGED sig
    <2>1. s \in Holders /\ "CANCELLED" \in Outcomes \ {"none", "returned"}
      BY <1>4 DEF Holders, Holding, Outcomes
    <2>2. proc[s] = "alive" => sig[s] # "none" /\ (scan[s].reason = "timeout" \/ down)
      <3>1. ScanOK(s) /\ EndOK(s)
        BY <1>1 DEF ScanInv
      <3>2. CASE scan[s].pc = "spawn"
        BY <3>1, <3>2 DEF ScanOK
      <3>3. CASE scan[s].pc \in {"grace", "kill"}
        BY <1>1, <3>1, <3>3 DEF ScanOK, EndOK, ScanFrames
      <3> QED
        BY <1>4, <3>2, <3>3
    <2> QED
      BY <1>1, <1>4, <2>1, <2>2, FinishInv
  <1> QED
    BY <1>2, <1>3, <1>4 DEF TakeCancel

-----------------------------------------------------------------------------
(* The steps of an executor and of the environment preserve the invariant *)

\* An executor ends with a verdict that its scan agrees with.
LEMMA ReturnInv ==
  ASSUME Inv, NEW s \in Scans, NEW v \in Verdicts, Return(s, v),
         UNCHANGED <<scan, proc, sig, file, queue, free, flag, down>>,
         ~Ended(s) => v = "INTERNAL_ERROR", v = "returned" => scan[s].outcome = "returned"
  PROVE  Inv'
  <1> DEFINE e == [pc |-> "done", cancelling |-> FALSE, verdict |-> v]
  <1>1. /\ FramesOK /\ QueueOK /\ SlotsOK /\ \A t \in Scans : ScanInv(t)
        /\ exec' = [exec EXCEPT ![s] = e] /\ e \in ExecFrames
    BY DEF Inv, Return, ExecFrames
  <1>2. /\ FramesOK' /\ exec'[s] = e /\ \A t \in Scans \ {s} : exec'[t] = exec[t]
    BY <1>1 DEF FramesOK
  <1>3. QueueOK' /\ SlotsOK'
    <2>1. \A t \in Scans : Waiting(t)' <=> Waiting(t)
      BY DEF Waiting
    <2>2. Holders' = Holders
      BY DEF Holders
    <2> QED
      BY <1>1, <2>1, <2>2, QueueKept, SlotsKept
  <1>4. ScanInv(s)'
    BY <1>1, <1>2 DEF ScanInv, ScanOK, EndOK, ExecOK, Ended, Holding
  <1>5. \A t \in Scans \ {s} : ScanInv(t)'
    BY <1>1, <1>2, Bystander
  <1> QED
    BY <1>2, <1>3, <1>4, <1>5 DEF Inv

\* A polling executor cancels its scan, and waits for the end of it.
LEMMA CancelInv ==
  ASSUME Inv, NEW s \in Scans, CancelTask(s), ~Ended(s), exec[s].pc = "poll",
         NEW e \in ExecFrames, exec' = [exec EXCEPT ![s] = e],
         e.pc \in {"await", "reraise"}, e.verdict = "none", ~e.cancelling,
         e.pc = "await" => s \in flag, e.pc = "reraise" => exec[s].cancelling,
         UNCHANGED <<proc, sig, file, free, flag, down>>
  PROVE  Inv'
  <1>1. /\ FramesOK /\ QueueOK /\ SlotsOK /\ \A t \in Scans : ScanInv(t)
        /\ scan[s] \in ScanFrames
    BY DEF Inv, FramesOK
  <1>2. /\ scan' \in [Scans -> ScanFrames] /\ QueueOK' /\ SlotsOK'
        /\ scan'[s] = [scan[s] EXCEPT !.cancelling = TRUE]
        /\ \A t \in Scans \ {s} : scan'[t] = scan[t]
    BY <1>1, CancelTaskEffects
  <1>3. /\ scan'[s].pc = scan[s].pc /\ scan'[s].reason = scan[s].reason
        /\ scan'[s].outcome = scan[s].outcome /\ scan'[s].cancelling
    BY <1>1, <1>2 DEF ScanFrames
  <1>4. /\ FramesOK' /\ exec'[s] = e /\ \A t \in Scans \ {s} : exec'[t] = exec[t]
    BY <1>1, <1>2 DEF FramesOK
  <1>5. ScanOK(s)' /\ EndOK(s)'
    BY <1>1, <1>3, <1>4 DEF ScanInv, ScanOK, EndOK, ExecOK, Ended, Holding
  <1>6. ExecOK(s)'
    BY <1>1, <1>3, <1>4 DEF ScanInv, ExecOK, Ended
  <1>7. \A t \in Scans \ {s} : ScanInv(t)'
    BY <1>1, <1>2, <1>4, Bystander
  <1> QED
    BY <1>2, <1>4, <1>5, <1>6, <1>7 DEF Inv, ScanInv

LEMMA ExecStepInv ==
  ASSUME Inv, NEW s \in Scans, ExecStep(s)
  PROVE  Inv'
  <1>1. /\ scan[s] \in ScanFrames /\ exec[s] \in ExecFrames /\ exec \in [Scans -> ExecFrames]
        /\ ScanOK(s) /\ ExecOK(s) /\ scan[s].outcome \in Outcomes
    BY DEF Inv, FramesOK, ScanFrames, ScanInv
  <1>2. CASE PollDone(s)
    <2>1. scan[s].outcome \in Verdicts
      BY <1>1, <1>2 DEF PollDone, ExecOK, Verdicts
    <2> QED
      BY <1>2, <2>1, ReturnInv DEF PollDone
  <1>3. CASE PollCancel(s)
    <2>1. CASE Ended(s)
      <3>1. AwaitedAs(scan[s].outcome) \in Verdicts \ {"returned"}
        BY <1>1 DEF AwaitedAs, Verdicts, Outcomes
      <3> QED
        BY <1>3, <2>1, <3>1, ReturnInv DEF PollCancel
    <2>2. CASE ~Ended(s)
      <3> DEFINE e == [exec[s] EXCEPT !.pc = "await"]
      <3>1. /\ e \in ExecFrames /\ e.pc = "await" /\ e.verdict = "none" /\ ~e.cancelling
            /\ exec' = [exec EXCEPT ![s] = e]
        BY <1>1, <1>3, <2>2 DEF PollCancel, ExecFrames, ExecOK
      <3> HIDE DEF e
      <3> QED
        BY <1>3, <2>2, <3>1, CancelInv DEF PollCancel
    <2> QED
      BY <2>1, <2>2
  <1>4. CASE AwaitEnds(s)
    <2> DEFINE v == IF exec[s].cancelling THEN "JobCancelledError" ELSE AwaitedAs(scan[s].outcome)
    <2>1. v \in Verdicts \ {"returned"}
      BY <1>1 DEF AwaitedAs, Verdicts, Outcomes
    <2>2. Return(s, v) /\ Ended(s)
      BY <1>4 DEF AwaitEnds
    <2> HIDE DEF v
    <2> QED
      BY <1>4, <2>1, <2>2, ReturnInv DEF AwaitEnds
  <1>5. CASE TakeInterrupt(s)
    <2>1. CASE Ended(s)
      <3>1. "CancelledError" \in Verdicts
        BY DEF Verdicts
      <3> QED
        BY <1>5, <2>1, <3>1, ReturnInv DEF TakeInterrupt
    <2>2. CASE ~Ended(s)
      <3> DEFINE e == [exec[s] EXCEPT !.pc = "reraise", !.cancelling = FALSE]
      <3>1. /\ e \in ExecFrames /\ e.pc = "reraise" /\ e.verdict = "none" /\ ~e.cancelling
        BY <1>1, <1>5 DEF TakeInterrupt, ExecFrames, ExecOK
      <3>2. exec' = [exec EXCEPT ![s] = e]
        BY <1>1, <1>5, <2>2 DEF TakeInterrupt
      <3> HIDE DEF e
      <3> QED
        BY <1>5, <2>2, <3>1, <3>2, CancelInv DEF TakeInterrupt
    <2> QED
      BY <2>1, <2>2
  <1>6. CASE Reraise(s)
    <2>1. "CancelledError" \in Verdicts
      BY DEF Verdicts
    <2> QED
      BY <1>6, <2>1, ReturnInv DEF Reraise
  <1> QED
    BY <1>2, <1>3, <1>4, <1>5, <1>6 DEF ExecStep

LEMMA PollFailsInv ==
  ASSUME Inv, NEW s \in Scans, PollFails(s)
  PROVE  Inv'
  <1>1. "INTERNAL_ERROR" \in Verdicts
    BY DEF Verdicts, Outcomes
  <1> QED
    BY <1>1, ReturnInv DEF PollFails

\* A step that moves no scan and no executor.
LEMMA StillInv ==
  ASSUME Inv, FramesOK', UNCHANGED <<scan, exec, sig, file, queue, free, down>>,
         flag \subseteq flag', \A s \in Scans : ScanOK(s)' /\ EndOK(s)'
  PROVE  Inv'
  <1>1. \A t \in Scans : Waiting(t)' <=> Waiting(t)
    BY DEF Waiting
  <1>2. Holders' = Holders
    BY DEF Holders
  <1>3. QueueOK' /\ SlotsOK'
    BY <1>1, <1>2, QueueKept, SlotsKept DEF Inv
  <1>4. \A s \in Scans : ExecOK(s)'
    BY DEF Inv, ScanInv, ExecOK, Ended
  <1> QED
    BY <1>3, <1>4 DEF Inv, ScanInv

LEMMA RequestCancelInv ==
  ASSUME Inv, NEW s \in Scans, RequestCancel(s)
  PROVE  Inv'
  <1>1. FramesOK'
    BY AdapterAssumption DEF Inv, FramesOK, RequestCancel
  <1>2. \A t \in Scans : ScanOK(t)' /\ EndOK(t)'
    BY DEF Inv, ScanInv, ScanOK, EndOK, Ended, RequestCancel
  <1> QED
    BY <1>1, <1>2, StillInv DEF RequestCancel

LEMMA ExitInv ==
  ASSUME Inv, NEW s \in Scans, Exit(s)
  PROVE  Inv'
  <1>1. FramesOK' /\ proc'[s] = "exited" /\ \A t \in Scans \ {s} : proc'[t] = proc[t]
    BY DEF Inv, FramesOK, Exit
  <1>2. scan[s] \in ScanFrames /\ \A t \in Scans : ScanOK(t) /\ EndOK(t)
    BY DEF Inv, ScanInv, FramesOK
  <1>3. ScanOK(s)' /\ EndOK(s)'
    BY <1>1, <1>2 DEF ScanOK, EndOK, Ended, Exit
  <1>4. \A t \in Scans \ {s} : ScanOK(t)' /\ EndOK(t)'
    BY <1>1, <1>2 DEF ScanOK, EndOK, Ended, Exit
  <1> QED
    BY <1>1, <1>3, <1>4, StillInv DEF Exit

LEMMA ShutdownInv ==
  ASSUME Inv, Shutdown
  PROVE  Inv'
  <1>1. /\ FramesOK /\ SlotsOK /\ down' /\ \A s \in Scans : ScanInv(s)
        /\ scan' = [s \in Scans |-> [scan[s] EXCEPT !.cancelling = ~Ended(s)]]
        /\ queue' = << >>
        /\ exec' = [s \in Scans |->
                      [exec[s] EXCEPT !.cancelling =
                         exec[s].pc = "poll" \/ (exec[s].pc = "await" /\ Ended(s))]]
        /\ UNCHANGED <<proc, sig, file, free, flag>>
    BY DEF Inv, Shutdown
  <1>2. \A s \in Scans : /\ scan[s] \in ScanFrames /\ exec[s] \in ExecFrames
                         /\ Ended(s) \in BOOLEAN
    BY <1>1 DEF FramesOK, Ended
  <1>3. \A s \in Scans : /\ scan'[s] \in ScanFrames /\ scan'[s].pc = scan[s].pc
                         /\ scan'[s].reason = scan[s].reason
                         /\ scan'[s].outcome = scan[s].outcome
                         /\ scan'[s].cancelling = ~Ended(s)
    BY <1>1, <1>2 DEF ScanFrames
  <1>4. \A s \in Scans : /\ exec'[s] \in ExecFrames /\ exec'[s].pc = exec[s].pc
                         /\ exec'[s].verdict = exec[s].verdict
                         /\ exec[s].pc = "poll" => exec'[s].cancelling
    BY <1>1, <1>2 DEF ExecFrames
  <1>5. FramesOK'
    <2>1. scan' \in [Scans -> ScanFrames] /\ exec' \in [Scans -> ExecFrames]
      BY <1>1, <1>3, <1>4
    <2> QED
      BY <1>1, <2>1 DEF FramesOK
  <1>6. QueueOK'
    <2>1. \A s \in Scans : ~Waiting(s)'
      BY <1>3 DEF Waiting, Ended
    <2>2. queue' \in Seq(Scans) /\ Len(queue') = 0
      BY <1>1
    <2> QED
      BY <2>1, <2>2 DEF QueueOK
  <1>7. SlotsOK'
    <2>1. \A s \in Scans : s \in Holders' <=> s \in Holders
      BY <1>3 DEF Holders
    <2>2. Holders' = Holders
      BY <2>1 DEF Holders
    <2> QED
      BY <1>1, <2>2, SlotsKeptQueueLeft
  <1>8. ASSUME NEW s \in Scans PROVE ScanInv(s)'
    <2>0. /\ scan'[s].pc = scan[s].pc /\ scan'[s].reason = scan[s].reason
          /\ scan'[s].outcome = scan[s].outcome /\ scan'[s].cancelling = ~Ended(s)
          /\ exec'[s].pc = exec[s].pc /\ exec'[s].verdict = exec[s].verdict
          /\ exec[s].pc = "poll" => exec'[s].cancelling
          /\ Ended(s)' <=> Ended(s)
      BY <1>3, <1>4 DEF Ended
    <2>1. ScanOK(s)'
      <3>1. /\ proc'[s] = proc[s] /\ sig'[s] = sig[s] /\ file'[s] = file[s]
            /\ scan'[s].cancelling => ~Ended(s)
        BY <1>1, <2>0
      <3>2. ScanOK(s) /\ (scan[s].outcome = "none" <=> ~Ended(s))
        BY <1>1 DEF ScanInv, ScanOK
      <3> QED
        BY <2>0, <3>1, <3>2 DEF ScanOK
    <2>2. EndOK(s)'
      BY <1>1, <2>0 DEF ScanInv, EndOK, Ended
    <2>3. ExecOK(s)'
      BY <1>1, <2>0 DEF ScanInv, ExecOK, Ended
    <2> QED
      BY <2>1, <2>2, <2>3 DEF ScanInv
  <1> QED
    BY <1>5, <1>6, <1>7, <1>8 DEF Inv

-----------------------------------------------------------------------------
(* The theorems *)

LEMMA InitInv == Init => Inv
  <1> SUFFICES ASSUME Init PROVE Inv
    OBVIOUS
  <1>1. FramesOK
    <2>1. /\ [pc |-> "new", reason |-> "none", cancelling |-> FALSE, outcome |-> "none"] \in ScanFrames
          /\ [pc |-> "poll", cancelling |-> FALSE, verdict |-> "none"] \in ExecFrames
      BY DEF ScanFrames, ExecFrames, Outcomes, Verdicts
    <2>2. scan \in [Scans -> ScanFrames] /\ exec \in [Scans -> ExecFrames]
      BY <2>1 DEF Init
    <2>3. /\ proc = [s \in Scans |-> "none"] /\ sig = [s \in Scans |-> "none"]
          /\ file = [s \in Scans |-> "none"]
          /\ free \in 0..MaxConcurrency /\ flag = {} /\ down = FALSE
      BY AdapterAssumption DEF Init
    <2> QED
      BY <2>2, <2>3 DEF FramesOK
  <1>2. QueueOK
    <2>1. queue \in Seq(Scans) /\ Len(queue) = 0
      BY DEF Init
    <2>2. \A s \in Scans : ~Waiting(s)
      BY DEF Init, Waiting
    <2> QED
      BY <2>1, <2>2 DEF QueueOK
  <1>3. SlotsOK
    <2>1. \A s \in Scans : s \notin Holders
      BY DEF Init, Holders, Holding
    <2>2. Holders = {}
      BY <2>1 DEF Holders
    <2>3. MaxConcurrency \in Nat /\ free = MaxConcurrency /\ queue = << >>
      BY AdapterAssumption DEF Init
    <2> QED
      BY <2>2, <2>3, FS_EmptySet DEF SlotsOK
  <1>4. \A s \in Scans : ScanInv(s)
    BY DEF Init, ScanInv, ScanOK, EndOK, ExecOK, Ended, Holding
  <1> QED
    BY <1>1, <1>2, <1>3, <1>4 DEF Inv

LEMMA NextInv == Inv /\ [Next]_vars => Inv'
  <1> SUFFICES ASSUME Inv, [Next]_vars PROVE Inv'
    OBVIOUS
  <1>1. ASSUME NEW s \in Scans, ScanStep(s) PROVE Inv'
    <2>1. ASSUME NEW o \in Outcomes, Refuse(s, o) \/ Collect(s, o) PROVE Inv'
      BY <2>1, RefuseInv, CollectInv
    <2> QED
      BY <1>1, <2>1, WriteFailsInv, StartInv, SpawnFailsInv, SpawnInv, TimeoutInv, GraceEndsInv,
         StoppedInv, TakeCancelInv DEF ScanStep
  <1>2. ASSUME NEW s \in Scans, ExecStep(s) \/ PollFails(s) \/ RequestCancel(s) \/ Exit(s)
        PROVE  Inv'
    BY <1>2, ExecStepInv, PollFailsInv, RequestCancelInv, ExitInv
  <1>3. CASE Shutdown
    BY <1>3, ShutdownInv
  <1>4. CASE UNCHANGED vars
    <2>1. \A t \in Scans : Waiting(t)' <=> Waiting(t)
      BY <1>4 DEF Waiting, vars
    <2>2. Holders' = Holders
      BY <1>4 DEF Holders, vars
    <2>3. QueueOK' /\ SlotsOK'
      BY <1>4, <2>1, <2>2, QueueKept, SlotsKept DEF Inv, vars
    <2>4. FramesOK'
      BY <1>4 DEF Inv, FramesOK, vars
    <2>5. \A t \in Scans : ScanInv(t)'
      BY <1>4, Bystander DEF Inv, vars
    <2> QED
      BY <2>3, <2>4, <2>5 DEF Inv
  <1> QED
    BY <1>1, <1>2, <1>3, <1>4 DEF Next

LEMMA AlwaysInv == Spec => []Inv
  BY InitInv, NextInv, PTL DEF Spec

\* The frames, the semaphore and its queue keep their shape: each waiting scan is in the
\* queue once, whichever way scans leave it.
THEOREM AdapterTypes == Spec => []TypeOK
  <1>1. Inv => TypeOK
    <2> SUFFICES ASSUME Inv PROVE TypeOK
      OBVIOUS
    <2>1. FramesOK /\ QueueOK
      BY DEF Inv
    <2>2. \A s \in Scans : (\E i \in 1..Len(queue) : queue[i] = s)
                             <=> scan[s].pc = "queued" /\ ~scan[s].cancelling
      BY <2>1 DEF QueueOK, Waiting
    <2>3. \A i \in 1..Len(queue) : queue[i] \in Scans
      BY <2>1 DEF QueueOK
    <2>4. {queue[i] : i \in 1..Len(queue)} =
            {s \in Scans : scan[s].pc = "queued" /\ ~scan[s].cancelling}
      BY <2>2, <2>3
    <2> QED
      BY <2>1, <2>4 DEF TypeOK, FramesOK, QueueOK, ScanFrames, ExecFrames
  <1> QED
    BY <1>1, AlwaysInv, PTL

\* No slot of the semaphore is lost or given twice, and never more processes than
\* max_concurrency run that nobody has signalled.
THEOREM AdapterSlots == Spec => []SlotsConserved
  <1>1. Inv => SlotsConserved
    <2> SUFFICES ASSUME Inv PROVE SlotsConserved
      OBVIOUS
    <2> DEFINE running == {s \in Scans : proc[s] = "alive" /\ sig[s] = "none"}
    <2>1. /\ SlotsOK /\ Holders = {s \in Scans : scan[s].pc \in Holding}
          /\ free \in Nat /\ MaxConcurrency \in Nat
      BY AdapterAssumption DEF Inv, Holders, FramesOK
    <2>2. \A s \in Scans : proc[s] = "alive" /\ sig[s] = "none" => scan[s].pc \in Holding
      <3> SUFFICES ASSUME NEW s \in Scans, proc[s] = "alive", sig[s] = "none"
                   PROVE  scan[s].pc \in Holding
        OBVIOUS
      <3>1. scan[s] \in ScanFrames /\ ScanOK(s) /\ EndOK(s)
        BY DEF Inv, FramesOK, ScanInv
      <3> QED
        BY <3>1 DEF ScanFrames, ScanOK, EndOK, Ended
    <2>3. running \subseteq Holders
      BY <2>1, <2>2
    <2> HIDE DEF running
    <2>4. /\ Cardinality(running) <= Cardinality(Holders)
          /\ Cardinality(running) \in Nat /\ Cardinality(Holders) \in Nat
      BY <2>1, <2>3, FS_Subset, FS_CardinalityType DEF SlotsOK
    <2>5. free + Cardinality(Holders) = MaxConcurrency
      BY <2>1 DEF SlotsOK
    <2>6. Cardinality(running) <= MaxConcurrency
      BY <2>1, <2>4, <2>5
    <2> QED
      BY <2>1, <2>5, <2>6 DEF SlotsConserved, SlotsOK, running
  <1> QED
    BY <1>1, AlwaysInv, PTL

\* The payload file is there as long as an unsignalled process may read it.
THEOREM AdapterPayloads == Spec => []PayloadLives
  <1>1. Inv => PayloadLives
    <2> SUFFICES ASSUME Inv, NEW s \in Scans
                 PROVE  /\ proc[s] = "alive" /\ sig[s] = "none" => file[s] = "written"
                        /\ Ended(s) => file[s] # "written"
      BY DEF PayloadLives
    <2>1. scan[s] \in ScanFrames /\ ScanOK(s) /\ EndOK(s)
      BY DEF Inv, FramesOK, ScanInv
    <2> QED
      BY <2>1 DEF ScanFrames, ScanOK, EndOK, Ended, Holding
  <1> QED
    BY <1>1, AlwaysInv, PTL

\* An ended scan leaves a live process only when a cancellation met it in _stop_process.
THEOREM AdapterOrphans == Spec => []OrphansAreExplained
  <1>1. Inv => OrphansAreExplained
    BY DEF Inv, ScanInv, EndOK, OrphansAreExplained
  <1> QED
    BY <1>1, AlwaysInv, PTL

\* Findings come only from a process that ended by itself, and an executor that is done
\* leaves a scan running only after an error of its poll.
THEOREM AdapterVerdicts == Spec => []VerdictIsHonest
  <1>1. Inv => VerdictIsHonest
    BY DEF Inv, ScanInv, EndOK, ExecOK, VerdictIsHonest
  <1> QED
    BY <1>1, AlwaysInv, PTL

-----------------------------------------------------------------------------
(* The executor's loop implements ScanCall *)

\* One executor's step moves one call.
LEMMA CallMoves ==
  ASSUME FramesOK, NEW s \in Scans, NEW e, exec' = [exec EXCEPT ![s] = e]
  PROVE  calls' = [calls EXCEPT ![s] = CallOf(e)] /\ calls[s] = CallOf(exec[s])
  <1>1. \A t \in Scans : CallOf(exec'[t]) = IF t = s THEN CallOf(e) ELSE CallOf(exec[t])
    BY DEF FramesOK
  <1>2. calls' = [t \in Scans |-> CallOf(exec'[t])]
    BY DEF calls
  <1>3. [calls EXCEPT ![s] = CallOf(e)] =
          [t \in Scans |-> IF t = s THEN CallOf(e) ELSE CallOf(exec[t])]
    BY DEF calls
  <1> QED
    BY <1>1, <1>2, <1>3 DEF calls

\* A call whose executor returns.
LEMMA CallReturns ==
  ASSUME FramesOK, NEW s \in Scans, NEW v, Return(s, v)
  PROVE  calls' = [calls EXCEPT ![s] = v] /\ calls[s] = CallOf(exec[s])
  <1> DEFINE e == [pc |-> "done", cancelling |-> FALSE, verdict |-> v]
  <1>1. exec' = [exec EXCEPT ![s] = e] /\ CallOf(e) = v
    BY DEF Return, CallOf
  <1> HIDE DEF e
  <1> QED
    BY <1>1, CallMoves

LEMMA StepImplements ==
  ASSUME Inv, [Next]_vars
  PROVE  [Call!Next]_(Call!vars)
  <1>0. FramesOK
    BY DEF Inv
  <1>1. ASSUME UNCHANGED <<exec, flag>> PROVE UNCHANGED Call!vars
    BY <1>1 DEF Call!vars, calls
  <1>2. ASSUME NEW s \in Scans, ScanStep(s) \/ Exit(s) PROVE UNCHANGED Call!vars
    <2>1. UNCHANGED <<exec, flag>>
      BY <1>2 DEF ScanStep, Exit, Refuse, Collect, WriteFails, Start, SpawnFails, Spawn, Timeout,
                  GraceEnds, Stopped, TakeCancel
    <2> QED
      BY <1>1, <2>1
  <1>3. CASE Shutdown
    <2>1. ASSUME NEW s \in Scans PROVE CallOf(exec'[s]) = CallOf(exec[s])
      <3>1. exec[s] \in ExecFrames /\ exec'[s].pc = exec[s].pc /\ exec'[s].verdict = exec[s].verdict
        BY <1>0, <1>3 DEF FramesOK, Shutdown, ExecFrames
      <3> QED
        BY <3>1 DEF CallOf
    <2> QED
      BY <1>3, <2>1 DEF Call!vars, calls, Shutdown
  <1>4. ASSUME NEW s \in Scans, RequestCancel(s) PROVE Call!Request(s)
    BY <1>4 DEF RequestCancel, Call!Request, calls
  <1>5. ASSUME NEW s \in Scans, ExecStep(s) \/ PollFails(s) PROVE Call!Step(s)
    <2>1. /\ exec[s] \in ExecFrames /\ scan[s] \in ScanFrames /\ ScanOK(s) /\ ExecOK(s)
          /\ scan[s].outcome \in Outcomes /\ UNCHANGED flag
      BY <1>5 DEF Inv, ScanInv, FramesOK, ScanFrames, ExecStep, PollDone, PollCancel, PollFails,
                  AwaitEnds, TakeInterrupt, Reraise
    <2>2. CASE PollDone(s)
      <3>1. /\ s \notin flag /\ scan[s].outcome \in {"returned"} \cup Call!ScanErrors
            /\ Return(s, scan[s].outcome) /\ exec[s].pc = "poll"
        BY <2>1, <2>2 DEF PollDone, ScanOK, ExecOK, Outcomes, Call!ScanErrors
      <3>2. Call!Becomes(s, {"scan"}, scan[s].outcome)
        BY <1>0, <2>1, <3>1, CallReturns DEF CallOf, Call!Becomes
      <3>3. Call!Becomes(s, {"scan", "teardown"}, scan[s].outcome)
        BY <3>2 DEF Call!Becomes
      <3> QED
        BY <3>1, <3>2, <3>3 DEF Call!Step, Call!Returns, Call!Raises
    <2>3. ASSUME s \in flag, Ended(s), exec[s].pc \in {"poll", "await"},
                 Return(s, AwaitedAs(scan[s].outcome)) \/ Return(s, "JobCancelledError")
          PROVE  Call!Step(s)
      <3>1. PICK v \in {"JobCancelledError"} \cup Call!ScanErrors : Return(s, v)
        BY <2>1, <2>3 DEF AwaitedAs, ScanOK, Outcomes, Call!ScanErrors
      <3>2. Call!Becomes(s, {"scan", "teardown"}, v)
        BY <1>0, <2>1, <2>3, <3>1, CallReturns DEF CallOf, Call!Becomes
      <3> QED
        BY <2>3, <3>1, <3>2 DEF Call!Step, Call!Cancels, Call!Raises
    <2>4. CASE PollCancel(s)
      <3>1. CASE Ended(s)
        BY <2>3, <2>4, <3>1 DEF PollCancel
      <3>2. CASE ~Ended(s)
        <4> DEFINE e == [exec[s] EXCEPT !.pc = "await"]
        <4>1. exec' = [exec EXCEPT ![s] = e] /\ CallOf(e) = "teardown" /\ CallOf(exec[s]) = "scan"
          BY <1>0, <2>1, <2>4, <3>2 DEF PollCancel, CallOf, ExecFrames, FramesOK
        <4> HIDE DEF e
        <4>2. Call!Becomes(s, {"scan"}, "teardown")
          BY <1>0, <2>1, <4>1, CallMoves DEF Call!Becomes
        <4> QED
          BY <2>4, <4>2 DEF PollCancel, Call!Step, Call!Cancels
      <3> QED
        BY <3>1, <3>2
    <2>5. CASE AwaitEnds(s)
      BY <2>1, <2>3, <2>5 DEF AwaitEnds, ExecOK
    <2>6. CASE PollFails(s)
      <3>1. Call!Becomes(s, {"scan", "teardown"}, "INTERNAL_ERROR")
        BY <1>0, <2>1, <2>6, CallReturns DEF PollFails, CallOf, Call!Becomes
      <3> QED
        BY <3>1 DEF Call!Step, Call!Raises, Call!ScanErrors
    <2>7. CASE TakeInterrupt(s)
      <3>1. CASE Ended(s)
        <4>1. Call!Becomes(s, {"scan", "interrupted"}, "CancelledError")
          BY <1>0, <2>1, <2>7, <3>1, CallReturns DEF TakeInterrupt, CallOf, Call!Becomes
        <4> QED
          BY <4>1 DEF Call!Step, Call!Interrupted
      <3>2. CASE ~Ended(s)
        <4> DEFINE e == [exec[s] EXCEPT !.pc = "reraise", !.cancelling = FALSE]
        <4>1. exec' = [exec EXCEPT ![s] = e]
          BY <1>0, <2>7, <3>2 DEF TakeInterrupt, FramesOK
        <4>2. CallOf(e) = "interrupted" /\ CallOf(exec[s]) = "scan"
          BY <2>1, <2>7 DEF TakeInterrupt, CallOf, ExecFrames
        <4> HIDE DEF e
        <4>3. Call!Becomes(s, {"scan"}, "interrupted")
          BY <1>0, <2>1, <4>1, <4>2, CallMoves DEF Call!Becomes
        <4> QED
          BY <4>3 DEF Call!Step, Call!Interrupted
      <3> QED
        BY <3>1, <3>2
    <2>8. CASE Reraise(s)
      <3>1. Call!Becomes(s, {"scan", "interrupted"}, "CancelledError")
        BY <1>0, <2>1, <2>8, CallReturns DEF Reraise, CallOf, Call!Becomes
      <3> QED
        BY <3>1 DEF Call!Step, Call!Interrupted
    <2> QED
      BY <1>5, <2>2, <2>4, <2>5, <2>6, <2>7, <2>8 DEF ExecStep
  <1>6. CASE UNCHANGED vars
    BY <1>1, <1>6 DEF vars
  <1> QED
    BY <1>2, <1>3, <1>4, <1>5, <1>6 DEF Next, Call!Next

\* _scan_with_cancellation returns findings only if its last poll saw no request, raises
\* JobCancelledError only for a request that was made, and passes an interruption on,
\* whatever the scans' subprocesses and the semaphore they share do.
THEOREM AdapterImplementsScanCall == Spec => ImplementsScanCall
  <1>1. Init => Call!Init
    BY DEF Init, Call!Init, calls, CallOf
  <1>2. Inv /\ [Next]_vars => [Call!Next]_(Call!vars)
    BY StepImplements
  <1> QED
    BY <1>1, <1>2, AlwaysInv, PTL DEF Spec, ImplementsScanCall, Call!ScanCallSpec

=============================================================================
