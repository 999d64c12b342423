----------------------------- MODULE JobEventStream ------------------------------
(***************************************************************************)
(* GET /v1/scans/{job_id}/events beside the processes that write the job:   *)
(* the server-sent event loop of scan_events, one per connection, and the   *)
(* client that reconnects with Last-Event-ID.                               *)
(*                                                                         *)
(* A connection reads the log and then the row in two repository calls.  In *)
(* mode "inline" nothing runs between them when the read found no event     *)
(* (there is no yield and no await); in mode "celery" the writers are other *)
(* processes and anything may.  The heartbeat comment is left out.          *)
(***************************************************************************)
EXTENDS JobLifecycle, SequencesExt

CONSTANTS Clients,
          PageSize,      \* the LIMIT of list_events
          MaxConnects    \* bound: connections of one client

ASSUME StreamAssumption ==
  /\ Clients \cap (Requests \cup Cancels \cup Workers) = {}
  /\ PageSize \in Nat \ {0} /\ MaxConnects \in Nat

VARIABLE stream \* each client's connection: the generator's locals and what the client holds

svars == <<vars, stream>>

NoStream == [pc |-> "new", job |-> None, sequence |-> 0, batch |-> << >>, read |-> 0,
             received |-> << >>, connects |-> 0]

StreamInit == Init /\ stream = [c \in Clients |-> NoStream]

\* A generator between its two reads keeps the event loop.
StreamTurn(c) ==
  Mode = "inline" => Running = {} /\ \A d \in Clients \ {c} : stream[d].pc # "poll"

Log(c) == jobs[stream[c].job].events

\* Mutant: Last-Event-ID is ignored.
ConnectFromStart(c, j) ==
  /\ stream[c].pc \in {"new", "lost"} /\ stream[c].connects < MaxConnects /\ StreamTurn(c)
  /\ stream[c].job \in {None, j} /\ Exists(j)
  /\ stream' = [stream EXCEPT ![c].pc = "read", ![c].job = j, ![c].sequence = 0,
                              ![c].connects = @ + 1]

\* The row is found, Last-Event-ID (the last id this client received) is parsed.
Connect(c, j) ==
  /\ stream[c].pc \in {"new", "lost"} /\ stream[c].connects < MaxConnects /\ StreamTurn(c)
  /\ stream[c].job \in {None, j} /\ Exists(j)
  /\ stream' = [stream EXCEPT ![c].pc = "read", ![c].job = j,
                              ![c].sequence = Len(stream[c].received), ![c].connects = @ + 1]

\* list_events(after_sequence): an event's sequence is its place in the log.
ReadEvents(c) ==
  LET after == stream[c].sequence
      last == IF after + PageSize < Len(Log(c)) THEN after + PageSize ELSE Len(Log(c))
      events == SubSeq(Log(c), after + 1, last)
  IN  /\ stream[c].pc = "read" /\ StreamTurn(c)
      /\ stream' = [stream EXCEPT ![c].pc = IF events = << >> THEN "poll" ELSE "yield",
                                  ![c].batch = events, ![c].read = Len(events)]

\* One event is sent; the client keeps it and its id.
YieldEvent(c) ==
  /\ stream[c].pc = "yield" /\ StreamTurn(c)
  /\ stream' = [stream EXCEPT ![c].pc = IF Len(stream[c].batch) = 1 THEN "poll" ELSE "yield",
                              ![c].batch = Tail(@), ![c].sequence = @ + 1,
                              ![c].received = Append(@, stream[c].batch[1])]

\* Mutant: the stream ends with the job, whatever the read before found.
PollJobAfterAnyRead(c) ==
  /\ stream[c].pc = "poll" /\ StreamTurn(c)
  /\ stream' = [stream EXCEPT ![c].pc =
       IF Terminal(jobs[stream[c].job].status) THEN "closed" ELSE "sleep"]

\* Mutant: only a job that succeeded ends the stream.
PollJobSucceeded(c) ==
  /\ stream[c].pc = "poll" /\ StreamTurn(c)
  /\ stream' = [stream EXCEPT ![c].pc =
       IF jobs[stream[c].job].status = "succeeded" /\ stream[c].read = 0 THEN "closed" ELSE "sleep"]

\* The row is read: the stream ends on a terminal job if the read before found no event.
PollJob(c) ==
  /\ stream[c].pc = "poll" /\ StreamTurn(c)
  /\ stream' = [stream EXCEPT ![c].pc =
       IF Terminal(jobs[stream[c].job].status) /\ stream[c].read = 0 THEN "closed" ELSE "sleep"]

WakeUp(c) ==
  /\ stream[c].pc = "sleep" /\ StreamTurn(c)
  /\ stream' = [stream EXCEPT ![c].pc = "read"]

Connected == {"read", "yield", "poll", "sleep"}

Lost(s) == IF s.pc \in Connected THEN [s EXCEPT !.pc = "lost", !.batch = << >>, !.read = 0] ELSE s

\* The connection is lost, or one of the two reads raises and ends the response.
LoseConnection(c) ==
  /\ stream[c].pc \in Connected /\ stream[c].connects < MaxConnects
  /\ stream' = [stream EXCEPT ![c] = Lost(@)]

Serve(c) == ReadEvents(c) \/ YieldEvent(c) \/ PollJob(c) \/ WakeUp(c)

WritersNext ==
  /\ Mode = "inline" => \A c \in Clients : stream[c].pc # "poll"
  /\ Step
  /\ UNCHANGED stream

\* The death of the inline process ends every stream with it.
ServerCrash == ProcessCrash /\ stream' = [c \in Clients |-> Lost(stream[c])]

StreamNext ==
  \/ WritersNext
  \/ ServerCrash
  \/ \E c \in Clients : /\ \/ \E j \in Requests : Connect(c, j)
                           \/ Serve(c)
                           \/ LoseConnection(c)
                        /\ UNCHANGED vars

StreamSpec == StreamInit /\ [][StreamNext]_svars

\* A client reads what is sent and reconnects; the writers are as fair as in JobLifecycle.
StreamFairness ==
  /\ \A r \in Requests : WF_svars(WritersNext /\ CreateScan(r))
  /\ \A c \in Cancels : WF_svars(WritersNext /\ CancelScan(c))
  /\ \A w \in Workers : /\ WF_svars(WritersNext /\ \E j \in Requests : Deliver(w, j))
                        /\ WF_svars(WritersNext /\ Execute(w))
  /\ \A c \in Clients : /\ WF_svars(Serve(c) /\ UNCHANGED vars)
                        /\ WF_svars((\E j \in Requests : Connect(c, j)) /\ UNCHANGED vars)

StreamFairSpec == StreamSpec /\ StreamFairness

-----------------------------------------------------------------------------

\* Over any number of connections a client receives the log from its first event on, in
\* order, with no event missing or repeated, while executors and handlers append to it.
StreamIsPrefix ==
  \A c \in Clients : stream[c].job # None => IsPrefix(stream[c].received, Log(c))

\* A stream the server ended was complete: the client holds every event of the job, the one
\* that announces the terminal status among them, and none is appended later.
StreamIsComplete ==
  \A c \in Clients : stream[c].pc = "closed" => stream[c].received = Log(c)

\* A client that stays is told how the job ended and the server closes the stream.
StreamsClose == \A c \in Clients : stream[c].job # None ~> stream[c].pc = "closed"

=============================================================================
