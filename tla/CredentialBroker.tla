-------------------------- MODULE CredentialBroker --------------------------
(***************************************************************************)
(* sf_broker.py: the process that holds a credential outside the sandbox   *)
(* and hands it to whoever presents the ticket of an open grant.           *)
(*                                                                         *)
(* Three kinds of thread run here: the owner (open_grant, close_grant,     *)
(* close), the serving thread with its select loop (_serve), and one       *)
(* decision thread per slot (_handle).  `self._lock` makes a decision and  *)
(* a change of the grants atomic to each other; the reply, the audit rows  *)
(* and the queues are outside it.  A caller is one connection; redeem()'s  *)
(* retry is another caller.  Tickets are the grants they name, a request   *)
(* is a whole line or a connection closed without one, and the clock is    *)
(* the set of things whose deadline has passed.  Of the serving thread's   *)
(* own audit rows only that one may fail to be written is kept, which ends *)
(* that thread; the sockets on disk are BrokerEndpoints.                   *)
(***************************************************************************)
EXTENDS Naturals, Sequences, FiniteSets, SequencesExt

CONSTANTS
  Sessions, Grants, Callers,
  SessionOf,      \* the session each grant was opened for
  NoGrant,        \* a ticket no grant answers to
  Tickets,        \* what the callers of an instance present
  MaxPending,     \* MAX_PENDING_CONNECTIONS, of both queues
  MaxSlots,       \* MAX_CONCURRENT_REQUESTS
  MaxIssues       \* the grants' max_issues

ASSUME BrokerAssumption ==
  /\ SessionOf \in [Grants -> Sessions]
  /\ NoGrant \notin Grants /\ Tickets \subseteq Grants \cup {NoGrant}
  /\ {MaxPending, MaxSlots, MaxIssues} \subseteq Nat \ {0}

Codes == {"overloaded", "malformed"}

VARIABLES
  \* the owner's side
  grant,        \* _grants and _tombstones: life, issues, whether it expired
  listening,    \* _listeners
  open,         \* not _closed
  \* the serving thread and its queues
  loop,         \* where _serve is
  events,       \* what select returned and is still to be processed
  arrived,      \* the connections still waiting, oldest first
  readyq,       \* _ready
  free,         \* _slots
  caller,       \* the connections
  issuedRows    \* the credential-issued rows of each grant

owner   == <<grant, listening, open>>
serving == <<loop, events, arrived, readyq, free>>
cbVars  == <<owner, serving, caller, issuedRows>>

Away  == [at |-> "away", session |-> NoGrant, ticket |-> NoGrant,
          sent |-> "nothing", late |-> FALSE, answer |-> "none"]

CbTypeOK ==
  /\ grant \in [Grants -> [life : {"none", "open", "closed"},
                           issues : Nat, expired : BOOLEAN]]
  /\ listening \subseteq Sessions /\ open \in BOOLEAN
  /\ loop \in {"select", "events", "drain", "stopped", "died", "joined"}
  /\ events \subseteq Sessions \cup Callers
  /\ arrived \in Seq(Callers) /\ readyq \in Seq(Callers)
  /\ free \in 0..MaxSlots
  /\ \A c \in Callers :
       /\ caller[c].at \in {"away", "backlog", "pending", "ready", "deciding",
                            "issued", "answering", "done"}
       /\ caller[c].sent \in {"nothing", "line", "closed"}
       /\ caller[c].answer \in {"none", "value", "refused"} \cup Codes
  /\ issuedRows \in [Grants -> Nat]

\* A broker that has just started.
CbInit ==
  /\ grant = [g \in Grants |-> [life |-> "none", issues |-> 0, expired |-> FALSE]]
  /\ listening = {} /\ open = TRUE
  /\ loop = "select" /\ events = {} /\ arrived = <<>> /\ readyq = <<>>
  /\ free = MaxSlots
  /\ caller = [c \in Callers |-> Away]
  /\ issuedRows = [g \in Grants |-> 0]

At(where)    == {c \in Callers : caller[c].at = where}
Move(c, at)  == [caller EXCEPT ![c].at = at, ![c].late = FALSE]
\* the connection is closed, its caller told k
Ended(c, k)  == [caller EXCEPT ![c] = [Away EXCEPT !.at = "done", !.answer = k,
                                       !.ticket = caller[c].ticket]]
OpenIn(s)    == {g \in Grants : grant[g].life = "open" /\ SessionOf[g] = s}

-----------------------------------------------------------------------------
(* The owner.                                                              *)

\* open_grant, with the lock held: the listener is there before the grant.
OpenGrant(g) ==
  /\ open /\ grant[g].life = "none"
  /\ grant' = [grant EXCEPT ![g].life = "open"]
  /\ listening' = listening \cup {SessionOf[g]}
  /\ UNCHANGED <<open, serving, caller, issuedRows>>

\* _drop_listener: the backlog of a closed listener is reset.
Dropped(gone) ==
  /\ listening' = listening \ gone
  /\ caller' = [c \in Callers |->
       IF caller[c].at = "backlog" /\ caller[c].session \in gone
       THEN Ended(c, "none")[c] ELSE caller[c]]

Revoked(gs) ==
  [g \in Grants |-> IF g \in gs THEN [grant[g] EXCEPT !.life = "closed"] ELSE grant[g]]

\* close_grant(session=...): the mission ended.
CloseSession(s) ==
  /\ OpenIn(s) # {}
  /\ grant' = Revoked(OpenIn(s))
  /\ Dropped({s})
  /\ UNCHANGED <<open, serving, issuedRows>>

\* close_grant(grant_id=...) leaves the endpoint.
CloseGrant(g) ==
  /\ grant[g].life = "open"
  /\ grant' = Revoked({g})
  /\ UNCHANGED <<listening, open, serving, caller, issuedRows>>

\* close() up to the join: every grant is revoked and every listener dropped.
CloseBroker ==
  /\ open
  /\ open' = FALSE
  /\ grant' = Revoked({g \in Grants : grant[g].life = "open"})
  /\ Dropped(listening)
  /\ UNCHANGED <<serving, issuedRows>>

\* close() after the join, which does not mind how the thread ended: whatever
\* is still queued is closed unanswered.
CloseQueues ==
  /\ ~open /\ loop \in {"stopped", "died"}
  /\ loop' = "joined"
  /\ caller' = [c \in Callers |->
       IF caller[c].at \in {"pending", "ready"}
       THEN Ended(c, "none")[c] ELSE caller[c]]
  /\ readyq' = <<>> /\ arrived' = <<>>
  /\ UNCHANGED <<owner, events, free, issuedRows>>

\* The monotonic clock passes a grant's expiry.
GrantExpires(g) ==
  /\ grant[g].life = "open" /\ ~grant[g].expired
  /\ grant' = [grant EXCEPT ![g].expired = TRUE]
  /\ UNCHANGED <<listening, open, serving, caller, issuedRows>>

-----------------------------------------------------------------------------
(* The callers.                                                            *)

Connect(c, s, t) ==
  /\ caller[c].at = "away" /\ s \in listening
  /\ caller' = [caller EXCEPT ![c].at = "backlog", ![c].session = s, ![c].ticket = t]
  /\ UNCHANGED <<owner, serving, issuedRows>>

\* A line, or the end of the connection; what a caller sends before it is
\* accepted is seen as if sent after.
Send(c) ==
  /\ caller[c].at = "pending" /\ caller[c].sent = "nothing"
  /\ \E what \in {"line", "closed"} : caller' = [caller EXCEPT ![c].sent = what]
  /\ UNCHANGED <<owner, serving, issuedRows>>

Waiting == {"pending", "ready"}

\* REQUEST_DEADLINE runs out for the oldest connection that still has one.
DeadlinePasses(c) ==
  /\ caller[c].at \in Waiting /\ ~caller[c].late
  /\ \A i, j \in DOMAIN arrived :
       arrived[j] = c /\ i < j => caller[arrived[i]].late
  /\ caller' = [caller EXCEPT ![c].late = TRUE]
  /\ UNCHANGED <<owner, serving, issuedRows>>

-----------------------------------------------------------------------------
(* The serving thread.                                                     *)

Select ==
  /\ loop = "select"
  /\ IF open
     THEN /\ loop' = "events"
          /\ events' = {s \in listening :
                          \E c \in At("backlog") : caller[c].session = s}
                       \cup {c \in At("pending") : caller[c].sent # "nothing"}
     ELSE loop' = "stopped" /\ UNCHANGED events
  /\ UNCHANGED <<owner, arrived, readyq, free, caller, issuedRows>>

\* _finish: the row is written before the answer.  Where it cannot be written
\* nothing in _serve catches the exception: the connection is closed with the
\* thread's frames, its caller told nothing, and the thread is gone.
Told(k) == {k, "none"}
LoopAfter(told) == IF told = "none" THEN "died" ELSE loop

\* _accept: room is made by dropping the connection closest to its deadline.
Stalest == arrived[Min({i \in DOMAIN arrived : caller[arrived[i]].at = "pending"})]

Accept(s, c) ==
  /\ loop = "events" /\ s \in events
  /\ s \in listening /\ caller[c].at = "backlog" /\ caller[c].session = s
  /\ events' = events \ {s}
  /\ IF Cardinality(At("pending")) < MaxPending
     THEN /\ caller' = Move(c, "pending") /\ arrived' = Append(arrived, c)
          /\ UNCHANGED loop
     ELSE \* _evict_stalest; the thread's end takes the new connection along
          \E told \in Told("overloaded") :
            /\ loop' = LoopAfter(told)
            /\ LET rest == RemoveFirst(arrived, Stalest) IN
               IF told = "none"
               THEN /\ caller' = [Ended(Stalest, told) EXCEPT ![c].at = "done"]
                    /\ arrived' = rest
               ELSE /\ caller' = [Ended(Stalest, told) EXCEPT ![c].at = "pending"]
                    /\ arrived' = Append(rest, c)
  /\ UNCHANGED <<owner, readyq, free, issuedRows>>

\* The listener went, or the connection was finished, since select returned.
Stale(e) == IF e \in Sessions THEN e \notin listening ELSE caller[e].at # "pending"

\* variant: the oldest of the queue makes room, as in the other queue
PromotedOverOldest(c) ==
  IF Len(readyq) < MaxPending
  THEN [who |-> c, to |-> "ready", queue |-> Append(readyq, c)]
  ELSE [who |-> readyq[1], to |-> "done", queue |-> Append(Tail(readyq), c)]

\* _promote: a request that finds the ready queue full is the one refused.
\* Who leaves the pending queue, for where, and the ready queue then.
Promoted(c) ==
  IF Len(readyq) < MaxPending
  THEN [who |-> c, to |-> "ready", queue |-> Append(readyq, c)]
  ELSE [who |-> c, to |-> "done", queue |-> readyq]

Readable(c) ==
  /\ loop = "events" /\ open /\ c \in events /\ caller[c].at = "pending"
  /\ events' = events \ {c}
  /\ IF caller[c].sent = "closed"
     THEN /\ \E told \in Told("malformed") :
               caller' = Ended(c, told) /\ loop' = LoopAfter(told)
          /\ arrived' = RemoveFirst(arrived, c)
          /\ UNCHANGED readyq
     ELSE LET p == Promoted(c) IN
          /\ readyq' = p.queue
          /\ IF p.to = "ready"
             THEN caller' = [caller EXCEPT ![c].at = "ready"]
                  /\ UNCHANGED <<arrived, loop>>
             ELSE /\ \E told \in Told("overloaded") :
                       /\ caller' = [Ended(p.who, told) EXCEPT
                                      ![c].at = IF p.who = c THEN "done" ELSE "ready"]
                       /\ loop' = LoopAfter(told)
                  /\ arrived' = RemoveFirst(arrived, p.who)
  /\ UNCHANGED <<owner, free, issuedRows>>

\* every event of the batch is behind the loop
Processed == (open \/ events = {}) /\ \A e \in events : Stale(e)

\* variant: only a connection that sent something is timed, by its last byte
OverdueSpoken == {c \in Callers : caller[c].late /\ caller[c].at = "ready"}

\* _expire: whose deadline has passed, in either queue.
Overdue == {c \in Callers : caller[c].late /\ caller[c].at \in Waiting}

Expire(c) ==
  /\ loop = "events" /\ Processed /\ c \in Overdue
  /\ events' = {}
  /\ \E told \in Told(IF caller[c].at = "ready" THEN "overloaded" ELSE "malformed") :
       caller' = Ended(c, told) /\ loop' = LoopAfter(told)
  /\ readyq' = RemoveFirst(readyq, c) /\ arrived' = RemoveFirst(arrived, c)
  /\ UNCHANGED <<owner, free, issuedRows>>

TurnToQueue ==
  /\ loop = "events" /\ events' = {}
  /\ \/ Processed /\ Overdue = {} /\ loop' = "drain"
     \/ ~open /\ events # {} /\ loop' = "stopped"
  /\ UNCHANGED <<owner, arrived, readyq, free, caller, issuedRows>>

\* variant: the slot of a handler that could not be started is returned twice
SlotReturnedTwice == free + 1

\* the slots after a handler could not be started
SlotReturned == free

\* _drain_ready: a decision thread for the head of the queue.
Drain ==
  /\ loop = "drain" /\ readyq # <<>> /\ free > 0
  /\ readyq' = Tail(readyq) /\ arrived' = RemoveFirst(arrived, readyq[1])
  /\ \/ /\ caller' = Move(readyq[1], "deciding")
        /\ free' = free - 1
        /\ UNCHANGED loop
     \/ /\ \E told \in Told("overloaded") :          \* no thread to be had
             caller' = Ended(readyq[1], told) /\ loop' = LoopAfter(told)
        /\ free' = SlotReturned
  /\ UNCHANGED <<owner, events, issuedRows>>

\* the end of one turn of the loop
TurnOver ==
  /\ loop = "drain" /\ (readyq = <<>> \/ free = 0)
  /\ loop' = "select"
  /\ UNCHANGED <<owner, events, arrived, readyq, free, caller, issuedRows>>

-----------------------------------------------------------------------------
(* A decision thread.                                                      *)

\* decide: what stands between this request and the value, in the order the
\* code asks.
Answer(c) ==
  LET g == caller[c].ticket IN
  IF g = NoGrant THEN "unknown_ticket"
  ELSE IF grant[g].life # "open" THEN "unknown_ticket"
  ELSE IF SessionOf[g] # caller[c].session THEN "wrong_session"
  ELSE IF grant[g].expired THEN "expired"
  ELSE IF grant[g].issues >= MaxIssues THEN "replayed"
  ELSE "value"

\* variant: the issue is not counted while the lock is held
DecideUncounted(c) ==
  /\ caller[c].at = "deciding"
  /\ caller' = [caller EXCEPT
       ![c].at = IF Answer(c) = "value" THEN "issued" ELSE "answering",
       ![c].answer = IF Answer(c) = "value" THEN "none" ELSE "refused"]
  /\ UNCHANGED <<owner, serving, issuedRows>>

\* decide, with the lock held: the issue is counted here, and a refusal is
\* recorded before it is answered.
Decide(c) ==
  /\ caller[c].at = "deciding"
  /\ IF Answer(c) = "value"
     THEN /\ grant' = [grant EXCEPT ![caller[c].ticket].issues = @ + 1]
          /\ caller' = Move(c, "issued")
     ELSE /\ caller' = [Move(c, "answering") EXCEPT ![c].answer = "refused"]
          /\ UNCHANGED grant
  /\ UNCHANGED <<listening, open, serving, issuedRows>>

\* The credential-issued row, written after the lock is released and before
\* the answer is returned.  An append that fails ends in _handle's except
\* clause: the caller is closed on, and the issue stays spent.
RecordIssue(c) ==
  /\ caller[c].at = "issued"
  /\ \/ /\ issuedRows' = [issuedRows EXCEPT ![caller[c].ticket] = @ + 1]
        /\ caller' = [Move(c, "answering") EXCEPT ![c].answer = "value"]
        /\ UNCHANGED free
     \/ /\ caller' = Ended(c, "none")
        /\ free' = free + 1
        /\ UNCHANGED issuedRows
  /\ UNCHANGED <<owner, loop, events, arrived, readyq>>

\* _reply and the end of _handle: an answer nobody reads is lost, the slot is
\* returned either way.
Reply(c) ==
  /\ caller[c].at = "answering"
  /\ \E heard \in {caller[c].answer, "none"} : caller' = Ended(c, heard)
  /\ free' = free + 1
  /\ UNCHANGED <<owner, loop, events, arrived, readyq, issuedRows>>

-----------------------------------------------------------------------------
Handler(c) == Decide(c) \/ RecordIssue(c) \/ Reply(c)

Serve ==
  \/ Select \/ TurnToQueue \/ Drain \/ TurnOver
  \/ \E s \in Sessions, c \in Callers : Accept(s, c)
  \/ \E c \in Callers : Readable(c) \/ Expire(c)

CbNext ==
  \/ \E g \in Grants : OpenGrant(g) \/ CloseGrant(g) \/ GrantExpires(g)
  \/ \E s \in Sessions : CloseSession(s)
  \/ CloseBroker \/ CloseQueues
  \/ \E c \in Callers, s \in Sessions, t \in Tickets : Connect(c, s, t)
  \/ \E c \in Callers : Send(c) \/ DeadlinePasses(c) \/ Handler(c)
  \/ Serve

\* The serving thread runs until it is stopped or ended by a row that it cannot
\* write, which no step of it has to be; a decision thread runs until it has
\* answered, and deadlines pass.  A caller takes three steps of Handler and one
\* of DeadlinePasses at most, so fairness to some is fairness to each.
CbFairness ==
  /\ WF_cbVars(Serve) /\ WF_cbVars(CloseQueues)
  /\ WF_cbVars(\E c \in Callers : Handler(c))
  /\ WF_cbVars(\E c \in Callers : DeadlinePasses(c))

CbSpec == CbInit /\ [][CbNext]_cbVars /\ CbFairness

-----------------------------------------------------------------------------
\* However requests interleave, no grant is worth more answers than it has
\* issues, and every value that left was in the audit file before it did
\* (the comments at sf_broker.py:1874-1877 and :803-815).
ValuesAreAccountedFor ==
  \A g \in Grants :
    LET held == {c \in Callers : caller[c].ticket = g /\ caller[c].answer = "value"} IN
    /\ Cardinality(held) <= MaxIssues
    /\ Cardinality(held) <= issuedRows[g]

\* A complete request that is waiting keeps its place whatever else arrives:
\* it leaves the queue for a decision, by its own deadline, because no thread
\* can be had for it at the head, or with the broker (sf_broker.py:1577-1593).
PlacesKept ==
  [][\A i \in DOMAIN readyq :
       LET c == readyq[i] IN
       c \notin Range(readyq') => caller[c].late \/ ~open \/ (i = 1 /\ loop = "drain")]_cbVars

\* A caller the broker accepted is answered or closed on, however long it takes
\* to speak and however many others there are: time and again, and a caller
\* connects once, nobody is left waiting -- but by a broker whose serving thread
\* a row that was not written has ended, and that has not been closed since.
Unserved == loop = "died" /\ open

CallersAreAnswered ==
  []<>(Unserved \/ \A c \in Callers : caller[c].at \notin Waiting)
=============================================================================
