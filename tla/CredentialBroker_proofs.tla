------------------------ MODULE CredentialBroker_proofs ------------------------
(***************************************************************************)
(* Proofs about the credential broker, for any number of sessions, grants, *)
(* callers, slots and issues; the callers need not be finitely many.       *)
(*                                                                         *)
(* An issue is counted under the lock, in the step that decides: the       *)
(* callers that hold a value or are about to be handed one are never more  *)
(* than the issues of their grant.  Every other step, whatever it does to  *)
(* the queues, leaves nobody new with a value (Quiet).  The ready queue    *)
(* shrinks only at its head, by a deadline, or with the broker.            *)
(*                                                                         *)
(* The slots are counted against the decision threads that run: a slot is  *)
(* taken only for the head of the ready queue, which holds every           *)
(* connection once and only such as have no thread yet (ReadyOnce).        *)
(*                                                                         *)
(* The last section is about the sockets of any number of brokers: what a  *)
(* start-up sweep of another broker may take, and that a broker alone on   *)
(* the host loses nothing.                                                 *)
(***************************************************************************)
EXTENDS CredentialBroker, BrokerEndpoints, FiniteSetTheorems,
        SequenceTheorems, WellFoundedInduction, TLAPS

USE DEF owner, serving

Answers == {"none", "value", "refused"} \cup Codes

Conn == [at : {"away", "backlog", "pending", "ready", "deciding", "issued",
               "answering", "done"},
         session : Sessions \cup {NoGrant}, ticket : Grants \cup {NoGrant},
         sent : {"nothing", "line", "closed"}, late : BOOLEAN, answer : Answers]

CbTyped ==
  /\ grant \in [Grants -> [life : {"none", "open", "closed"},
                           issues : Nat, expired : BOOLEAN]]
  /\ readyq \in Seq(Callers)
  /\ caller \in [Callers -> Conn]
  /\ issuedRows \in [Grants -> Nat]

\* The serving thread stops only in a broker that was closed.
StoppedClosed == loop \in {"stopped", "joined"} => ~open

\* A caller that has not come yet holds nothing.
AwayHoldsNothing == \A c \in Callers : caller[c].at = "away" => caller[c].answer # "value"

Valued(g)  == {c \in Callers : caller[c].ticket = g /\ caller[c].answer = "value"}
Holders(g) == {c \in Callers : caller[c].ticket = g /\ caller[c].at = "issued"} \cup Valued(g)

\* The issues of a grant are enough for all who hold or will hold its value.
IssuesCover ==
  \A g \in Grants :
    /\ IsFiniteSet(Holders(g)) /\ Cardinality(Holders(g)) <= grant[g].issues
    /\ grant[g].issues <= MaxIssues

\* The rows in the audit file are enough for all who hold it.
RowsCover ==
  \A g \in Grants : IsFiniteSet(Valued(g)) /\ Cardinality(Valued(g)) <= issuedRows[g]

CbInv ==
  CbTyped /\ StoppedClosed /\ AwayHoldsNothing /\ IssuesCover /\ RowsCover

-----------------------------------------------------------------------------
(* The sequence operator that the queues are shortened with.               *)

(* A set of indices that is not empty has a least one.                     *)
LEMMA Least == ASSUME NEW n \in Nat, NEW I \in SUBSET (1..n), I # {}
   PROVE \E i \in I : \A j \in I : i <= j
<1> DEFINE N == 0..n
           T == {0..i : i \in I}
<1>1. IsFiniteSet(N) /\ FiniteSubsetsOf(N) = SUBSET N
  <2>1. IsFiniteSet(N)
    BY FS_Interval
  <2> QED
    BY <2>1, FS_FiniteSubsetsOfFinite
<1>2. IsWellFoundedOn(StrictSubsetOrdering(N), SUBSET N)
  BY <1>1, FS_StrictSubsetOrderingWellFounded
<1>3. T \subseteq SUBSET N /\ T # {}
  <2>1. \A i \in I : 0..i \subseteq N
    OBVIOUS
  <2> QED
    BY <2>1
<1>4. PICK x \in T : \A y \in T : ~(<<y, x>> \in StrictSubsetOrdering(N))
  <2> HIDE DEF T, N
  <2> QED BY <1>2, <1>3, WFMin
<1>5. PICK i \in I : x = 0..i
  BY <1>4
<1>6. ASSUME NEW j \in I, j < i PROVE FALSE
  <2>1. 0..j \in T /\ 0..j \subseteq 0..i /\ i \in 0..i /\ i \notin 0..j
    BY <1>6
  <2>2. 0..j # 0..i
    BY <2>1
  <2>3. <<0..j, 0..i>> \in StrictSubsetOrdering(N)
    BY <2>1, <2>2 DEF StrictSubsetOrdering
  <2> QED BY <1>4, <1>5, <2>1, <2>3
<1> QED BY <1>6
(* RemoveFirst takes out one element, the one it is asked to.              *)
LEMMA RemoveFirstAt == ASSUME NEW S, NEW s \in Seq(S), NEW e, NEW k \in 1..Len(s), s[k] = e
 PROVE \E i \in 1..Len(s) : RemoveFirst(s, e) = SubSeq(s,1,i-1) \o SubSeq(s,i+1,Len(s)) /\ s[i] = e
<1> DEFINE I == { i \in 1..Len(s) : s[i] = e }
<1>1. RemoveFirst(s, e) = RemoveAt(s, SelectInSeq(s, LAMBDA v : v = e))
  BY DEF RemoveFirst
<1>2. SelectInSeq(s, LAMBDA v : v = e) = Min(I)
  BY DEF SelectInSeq
<1>3. Min(I) \in I
  <2>1. I \in SUBSET (1..Len(s)) /\ I # {} /\ Len(s) \in Nat
    OBVIOUS
  <2> HIDE DEF I
  <2>2. \E i \in I : \A j \in I : i <= j
    BY <2>1, Least
  <2> QED
    BY <2>2 DEF Min
<1> QED BY <1>1, <1>2, <1>3 DEF RemoveAt
(* Everything else stays.                                                  *)
LEMMA RemoveFirstKeeps ==  ASSUME NEW S, NEW s \in Seq(S), NEW e
 PROVE RemoveFirst(s, e) \in Seq(S) /\ Range(s) \ {e} \subseteq Range(RemoveFirst(s, e))
<1>1. CASE \A k \in 1..Len(s) : s[k] # e
  BY <1>1 DEF RemoveFirst
<1>2. CASE \E k \in 1..Len(s) : s[k] = e
  <2>1. PICK i \in 1..Len(s) : RemoveFirst(s, e) = SubSeq(s,1,i-1) \o SubSeq(s,i+1,Len(s)) /\ s[i] = e
    BY <1>2, RemoveFirstAt
  <2> DEFINE u == SubSeq(s, 1, i-1)
             v == SubSeq(s, i+1, Len(s))
             t == u \o v
  <2>a. /\ Len(s) \in Nat /\ i \in Nat /\ i >= 1 /\ i <= Len(s)
    OBVIOUS
  <2>2. /\ u \in Seq(S) /\ Len(u) = i-1 /\ \A j \in 1..(i-1) : u[j] = s[j]
    BY SubSeqProperties
  <2>3. /\ v \in Seq(S) /\ Len(v) = Len(s) - i
        /\ \A j \in 1..(Len(s) - i) : v[j] = s[i+1+j-1]
    BY SubSeqProperties
  <2> HIDE DEF u, v
  <2>4. /\ t \in Seq(S) /\ Len(t) = (i-1) + (Len(s)-i)
        /\ \A j \in 1..((i-1) + (Len(s)-i)) : t[j] = IF j <= i-1 THEN u[j] ELSE v[j - (i-1)]
    <3>1. /\ u \o v \in Seq(S) /\ Len(u \o v) = Len(u) + Len(v)
          /\ \A j \in 1..(Len(u) + Len(v)) :
               (u \o v)[j] = IF j <= Len(u) THEN u[j] ELSE v[j - Len(u)]
      BY <2>2, <2>3, ConcatProperties
    <3> QED
      BY <2>2, <2>3, <3>1
  <2> HIDE DEF t
  <2>5. ASSUME NEW j \in 1..Len(s), s[j] # e PROVE s[j] \in Range(t)
    <3>0. DOMAIN t = 1..(Len(s) - 1)
      BY <2>a, <2>4
    <3>1. CASE j < i
      <4>1. j \in DOMAIN t /\ t[j] = s[j]
        BY <2>a, <2>2, <2>4, <3>0, <3>1, SMTT(30)
      <4> QED
        BY <4>1 DEF Range
    <3>2. CASE j > i
      <4>1. j-1 \in DOMAIN t /\ j-1 > i-1 /\ j-i \in 1..(Len(s)-i)
        BY <2>a, <3>0, <3>2
      <4>2. t[j-1] = v[(j-1)-(i-1)]
        <5>1. j-1 \in 1..((i-1) + (Len(s)-i)) /\ ~(j-1 <= i-1)
          BY <2>a, <3>2
        <5> QED
          BY <2>4, <5>1
      <4>3. v[j-i] = s[i+1+(j-i)-1]
        BY <2>3, <4>1
      <4>4. (j-1)-(i-1) = j-i /\ i+1+(j-i)-1 = j
        BY <2>a
      <4>5. t[j-1] = s[j]
        BY <4>2, <4>3, <4>4
      <4> QED
        BY <4>1, <4>5 DEF Range
    <3> QED
      BY <2>1, <2>5, <2>a, <3>1, <3>2
  <2>6. Range(s) = {s[j] : j \in 1..Len(s)}
    BY DEF Range
  <2>7. RemoveFirst(s, e) = t
    BY <2>1 DEF t, u, v
  <2> QED
    BY <2>4, <2>5, <2>6, <2>7
<1> QED
  BY <1>1, <1>2
-----------------------------------------------------------------------------
(* How a connection changes.                                               *)

(* The end of one connection: who it was stays, nothing else does.         *)
LEMMA EndedFacts ==
  ASSUME caller \in [Callers -> Conn], NEW c, NEW k \in Answers
  PROVE  /\ Ended(c, k) \in [Callers -> Conn]
         /\ \A d \in Callers : d # c => Ended(c, k)[d] = caller[d]
         /\ c \in Callers => /\ Ended(c, k)[c].at = "done"
                             /\ Ended(c, k)[c].answer = k
                             /\ Ended(c, k)[c].ticket = caller[c].ticket
<1>1. CASE c \in Callers
  <2>1. caller[c].ticket \in Grants \cup {NoGrant}
    BY <1>1 DEF Conn
  <2>2. [Away EXCEPT !.at = "done", !.answer = k, !.ticket = caller[c].ticket] \in Conn
    BY <2>1 DEF Away, Conn
  <2> QED
    BY <1>1, <2>2 DEF Ended, Away
<1>2. CASE c \notin Callers
  BY <1>2 DEF Ended
<1> QED
  BY <1>1, <1>2

(* What _finish may tell a caller, and where it leaves the serving thread. *)
LEMMA ToldFacts ==
  ASSUME NEW k \in Codes, NEW told \in Told(k)
  PROVE  told \in Answers \ {"value"} /\ LoopAfter(told) \in {loop, "died"}
BY DEF Told, LoopAfter, Answers, Codes

(* A connection moves on: its time starts again, it is the same one.       *)
LEMMA MoveFacts ==
  ASSUME caller \in [Callers -> Conn], NEW c \in Callers,
         NEW at \in {"pending", "deciding", "issued", "answering"}
  PROVE  /\ Move(c, at) \in [Callers -> Conn]
         /\ \A d \in Callers : d # c => Move(c, at)[d] = caller[d]
         /\ Move(c, at)[c].at = at /\ Move(c, at)[c].answer = caller[c].answer
         /\ Move(c, at)[c].ticket = caller[c].ticket
<1>1. [caller[c] EXCEPT !.at = at, !.late = FALSE] \in Conn
  BY DEF Conn
<1>2. Move(c, at) = [caller EXCEPT ![c] = [caller[c] EXCEPT !.at = at, !.late = FALSE]]
  BY DEF Move
<1>3. /\ [caller[c] EXCEPT !.at = at, !.late = FALSE].at = at
      /\ [caller[c] EXCEPT !.at = at, !.late = FALSE].answer = caller[c].answer
      /\ [caller[c] EXCEPT !.at = at, !.late = FALSE].ticket = caller[c].ticket
  BY DEF Conn
<1> QED
  BY <1>1, <1>2, <1>3

\* Nobody new is handed a value or is about to be, and nobody comes back.
Calm(d) ==
  /\ caller'[d].answer = "value" =>
       caller[d].answer = "value" /\ caller'[d].ticket = caller[d].ticket
  /\ caller'[d].at = "issued" =>
       caller[d].at = "issued" /\ caller'[d].ticket = caller[d].ticket
  /\ caller'[d].at = "away" => caller[d].at = "away"

Quiet == caller' \in [Callers -> Conn] /\ \A d \in Callers : Calm(d)

Same(d) == caller'[d] = caller[d]

(* A connection that is left alone is calm.                                *)
LEMMA SameIsCalm == \A d \in Callers : Same(d) => Calm(d)
BY DEF Same, Calm

(* What every step but Decide and RecordIssue is to the values: it issues   *)
(* nothing and writes no row.                                              *)
Uncounted ==
  /\ Quiet
  /\ grant' \in [Grants -> [life : {"none", "open", "closed"},
                            issues : Nat, expired : BOOLEAN]]
  /\ \A g \in Grants : grant'[g].issues = grant[g].issues
  /\ issuedRows' = issuedRows

(* The owner's calls and the clock of a grant.                             *)
LEMMA OwnerUncounted ==
  ASSUME CbInv,
         \/ \E g \in Grants : OpenGrant(g) \/ CloseGrant(g) \/ GrantExpires(g)
         \/ \E s \in Sessions : CloseSession(s)
         \/ CloseBroker
  PROVE  Uncounted
<1>0. CbTyped
  BY DEF CbInv
<1>1. ASSUME NEW gs
      PROVE  /\ Revoked(gs) \in [Grants -> [life : {"none", "open", "closed"},
                                            issues : Nat, expired : BOOLEAN]]
             /\ \A g \in Grants : Revoked(gs)[g].issues = grant[g].issues
  BY <1>0 DEF CbTyped, Revoked
<1>2. ASSUME NEW gone, Dropped(gone) PROVE Quiet
  <2>1. ASSUME NEW d \in Callers PROVE caller'[d] \in Conn /\ Calm(d)
    <3>1. CASE caller'[d] = caller[d]
      BY <1>0, <3>1, SameIsCalm DEF CbTyped, Same
    <3>2. CASE caller'[d] = Ended(d, "none")[d]
      BY <1>0, <3>2, EndedFacts DEF CbTyped, Calm, Answers
    <3> QED
      BY <1>2, <3>1, <3>2 DEF Dropped
  <2>2. caller' = [d \in Callers |-> caller'[d]]
    BY <1>2 DEF Dropped
  <2> QED
    BY <2>1, <2>2 DEF Quiet
<1>3. ASSUME UNCHANGED caller PROVE Quiet
  BY <1>0, <1>3, SameIsCalm DEF CbTyped, Quiet, Same
<1>4. ASSUME NEW g \in Grants, OpenGrant(g) PROVE Uncounted
  BY <1>0, <1>3, <1>4 DEF OpenGrant, Uncounted, CbTyped
<1>5. ASSUME NEW g \in Grants, CloseGrant(g) PROVE Uncounted
  BY <1>1, <1>3, <1>5 DEF CloseGrant, Uncounted
<1>6. ASSUME NEW g \in Grants, GrantExpires(g) PROVE Uncounted
  BY <1>0, <1>3, <1>6 DEF GrantExpires, Uncounted, CbTyped
<1>7. ASSUME NEW s \in Sessions, CloseSession(s) PROVE Uncounted
  BY <1>1, <1>2, <1>7 DEF CloseSession, Uncounted
<1>8. CASE CloseBroker
  BY <1>1, <1>2, <1>8 DEF CloseBroker, Uncounted
<1> QED
  BY <1>4, <1>5, <1>6, <1>7, <1>8

(* The callers, the serving thread and a reply.                            *)
LEMMA ServiceUncounted ==
  ASSUME CbInv,
         \/ CloseQueues \/ Serve
         \/ \E c \in Callers, s \in Sessions, t \in Tickets : Connect(c, s, t)
         \/ \E c \in Callers : Send(c) \/ DeadlinePasses(c) \/ Reply(c)
  PROVE  Uncounted
<1>0. CbTyped /\ AwayHoldsNothing
  BY DEF CbInv
<1>a. SUFFICES Quiet
  BY <1>0 DEF Uncounted, CbTyped, CloseQueues, Serve, Connect, Send, DeadlinePasses,
     Reply, Select, TurnToQueue, Drain, TurnOver, Accept, Readable, Expire
<1>1. ASSUME UNCHANGED caller PROVE Quiet
  BY <1>0, <1>1, SameIsCalm DEF CbTyped, Quiet, Same
<1>2. ASSUME NEW c, NEW k \in Answers \ {"value"}, caller' = Ended(c, k) PROVE Quiet
  <2>1. ASSUME NEW d \in Callers PROVE Calm(d)
    <3>1. CASE d = c
      <4>1. caller'[d].at = "done" /\ caller'[d].answer = k
        BY <1>0, <1>2, <3>1, EndedFacts DEF CbTyped
      <4> QED
        BY <4>1 DEF Calm
    <3>2. CASE d # c
      <4>1. Same(d)
        BY <1>0, <1>2, <3>2, EndedFacts DEF CbTyped, Same
      <4> QED
        BY <4>1, SameIsCalm
    <3> QED
      BY <3>1, <3>2
  <2> QED
    BY <1>0, <1>2, <2>1, EndedFacts DEF CbTyped, Quiet
<1>3. ASSUME NEW c, NEW k \in Answers \ {"value"}, NEW d \in Callers,
             NEW at \in {"pending", "ready", "done"},
             caller' = [Ended(c, k) EXCEPT ![d].at = at]
      PROVE  Quiet
  <2>1. Ended(c, k) \in [Callers -> Conn]
    BY <1>0, <1>3, EndedFacts DEF CbTyped
  <2>2. caller' \in [Callers -> Conn]
    BY <1>3, <2>1 DEF Conn
  <2>3. ASSUME NEW e \in Callers PROVE Calm(e)
    <3>1. /\ caller'[e].answer = Ended(c, k)[e].answer
          /\ caller'[e].ticket = Ended(c, k)[e].ticket
          /\ caller'[e].at \in {Ended(c, k)[e].at} \cup {"pending", "ready", "done"}
      BY <1>3, <2>1 DEF Conn
    <3>2. CASE e = c
      BY <1>0, <3>1, <3>2, EndedFacts DEF CbTyped, Calm
    <3>3. CASE e # c
      BY <1>0, <3>1, <3>3, EndedFacts DEF CbTyped, Calm
    <3> QED
      BY <3>2, <3>3
  <2> QED
    BY <2>2, <2>3 DEF Quiet
<1>4. ASSUME NEW c \in Callers, NEW at \in {"pending", "deciding"}, caller' = Move(c, at)
      PROVE  Quiet
  <2>1. ASSUME NEW d \in Callers PROVE Calm(d)
    <3>1. CASE d = c
      <4>1. caller'[d].at = at /\ caller'[d].answer = caller[d].answer
            /\ caller'[d].ticket = caller[d].ticket
        BY <1>0, <1>4, <3>1, MoveFacts DEF CbTyped
      <4> QED
        BY <4>1 DEF Calm
    <3>2. CASE d # c
      <4>1. Same(d)
        BY <1>0, <1>4, <3>2, MoveFacts DEF CbTyped, Same
      <4> QED
        BY <4>1, SameIsCalm
    <3> QED
      BY <3>1, <3>2
  <2> QED
    BY <1>0, <1>4, <2>1, MoveFacts DEF CbTyped, Quiet
<1>5. CASE CloseQueues
  <2>1. ASSUME NEW d \in Callers PROVE caller'[d] \in Conn /\ Calm(d)
    <3>1. CASE caller'[d] = caller[d]
      BY <1>0, <3>1, SameIsCalm DEF CbTyped, Same
    <3>2. CASE caller'[d] = Ended(d, "none")[d]
      BY <1>0, <3>2, EndedFacts DEF CbTyped, Calm, Answers
    <3> QED
      BY <1>5, <3>1, <3>2 DEF CloseQueues
  <2>2. caller' = [d \in Callers |-> caller'[d]]
    BY <1>5 DEF CloseQueues
  <2> QED
    BY <2>1, <2>2 DEF Quiet
<1>6. ASSUME NEW c \in Callers, NEW s \in Sessions, NEW t \in Tickets, Connect(c, s, t)
      PROVE  Quiet
  <2>1. t \in Grants \cup {NoGrant}
    BY BrokerAssumption
  <2>2. caller' \in [Callers -> Conn]
    <3>1. caller[c] \in Conn
      BY <1>0 DEF CbTyped
    <3>2. [caller[c] EXCEPT !.at = "backlog", !.session = s, !.ticket = t] \in Conn
      BY <2>1, <3>1 DEF Conn
    <3>3. caller' = [caller EXCEPT ![c] =
                       [caller[c] EXCEPT !.at = "backlog", !.session = s, !.ticket = t]]
      BY <1>6 DEF Connect
    <3> QED
      BY <1>0, <3>2, <3>3 DEF CbTyped
  <2>3. ASSUME NEW d \in Callers PROVE Calm(d)
    BY <1>0, <1>6 DEF CbTyped, Connect, Conn, Calm, AwayHoldsNothing
  <2> QED
    BY <2>2, <2>3 DEF Quiet
<1>7. ASSUME NEW c \in Callers, Send(c) \/ DeadlinePasses(c) PROVE Quiet
  <2>1. caller' \in [Callers -> Conn]
    <3>1. caller[c] \in Conn
      BY <1>0 DEF CbTyped
    <3>2. /\ \A what \in {"line", "closed"} : [caller[c] EXCEPT !.sent = what] \in Conn
          /\ [caller[c] EXCEPT !.late = TRUE] \in Conn
      BY <3>1 DEF Conn
    <3>3. CASE Send(c)
      <4>1. PICK what \in {"line", "closed"} :
              caller' = [caller EXCEPT ![c] = [caller[c] EXCEPT !.sent = what]]
        BY <3>3 DEF Send
      <4> QED
        BY <1>0, <3>2, <4>1 DEF CbTyped
    <3>4. CASE DeadlinePasses(c)
      <4>1. caller' = [caller EXCEPT ![c] = [caller[c] EXCEPT !.late = TRUE]]
        BY <3>4 DEF DeadlinePasses
      <4> QED
        BY <1>0, <3>2, <4>1 DEF CbTyped
    <3> QED
      BY <1>7, <3>3, <3>4
  <2>2. ASSUME NEW d \in Callers PROVE Calm(d)
    BY <1>0, <1>7 DEF CbTyped, Send, DeadlinePasses, Conn, Calm
  <2> QED
    BY <2>1, <2>2 DEF Quiet
<1>8. ASSUME NEW c \in Callers, Reply(c) PROVE Quiet
  <2>1. PICK heard \in {caller[c].answer, "none"} : caller' = Ended(c, heard)
    BY <1>8 DEF Reply
  <2>2. heard \in Answers
    BY <1>0 DEF CbTyped, Conn, Answers
  <2>3. ASSUME NEW d \in Callers PROVE Calm(d)
    <3>1. CASE d = c
      <4>1. /\ caller'[d].at = "done" /\ caller'[d].answer \in {caller[d].answer, "none"}
            /\ caller'[d].ticket = caller[d].ticket
        BY <1>0, <2>1, <2>2, <3>1, EndedFacts DEF CbTyped
      <4> QED
        BY <4>1 DEF Calm
    <3>2. CASE d # c
      <4>1. Same(d)
        BY <1>0, <2>1, <2>2, <3>2, EndedFacts DEF CbTyped, Same
      <4> QED
        BY <4>1, SameIsCalm
    <3> QED
      BY <3>1, <3>2
  <2> QED
    BY <1>0, <2>1, <2>2, <2>3, EndedFacts DEF CbTyped, Quiet
<1>9. CASE Select \/ TurnToQueue \/ TurnOver
  BY <1>1, <1>9 DEF Select, TurnToQueue, TurnOver
<1>10. CASE Drain
  <2>1. readyq[1] \in Callers
    BY <1>0, <1>10 DEF Drain, CbTyped
  <2> QED
    BY <1>2, <1>4, <1>10, <2>1, ToldFacts DEF Drain, Codes
<1>11. ASSUME NEW s \in Sessions, NEW c \in Callers, Accept(s, c) PROVE Quiet
  <2>1. \/ caller' = Move(c, "pending")
        \/ \E told \in Told("overloaded"), at \in {"pending", "done"} :
             caller' = [Ended(Stalest, told) EXCEPT ![c].at = at]
    BY <1>11 DEF Accept
  <2> QED
    BY <1>3, <1>4, <2>1, ToldFacts DEF Codes
<1>12. ASSUME NEW c \in Callers, Readable(c) PROVE Quiet
  <2>1. CASE caller[c].sent = "closed"
    <3>1. PICK told \in Told("malformed") : caller' = Ended(c, told)
      BY <1>12, <2>1 DEF Readable
    <3> QED
      BY <1>2, <3>1, ToldFacts DEF Codes
  <2>2. CASE caller' = [caller EXCEPT ![c].at = "ready"]
    <3>1. caller' \in [Callers -> Conn]
      <4>1. [caller[c] EXCEPT !.at = "ready"] \in Conn
        BY <1>0 DEF CbTyped, Conn
      <4>2. caller' = [caller EXCEPT ![c] = [caller[c] EXCEPT !.at = "ready"]]
        BY <2>2
      <4> QED
        BY <1>0, <4>1, <4>2 DEF CbTyped
    <3>2. ASSUME NEW d \in Callers PROVE Calm(d)
      BY <1>0, <2>2 DEF CbTyped, Conn, Calm
    <3> QED
      BY <3>1, <3>2 DEF Quiet
  <2>3. CASE /\ caller[c].sent # "closed" /\ Promoted(c).to # "ready"
    <3>1. PICK told \in Told("overloaded"), at \in {"done", "ready"} :
            caller' = [Ended(Promoted(c).who, told) EXCEPT ![c].at = at]
      BY <1>12, <2>3 DEF Readable
    <3> QED
      BY <1>3, <3>1, ToldFacts DEF Codes
  <2> QED
    BY <1>12, <2>1, <2>2, <2>3 DEF Readable
<1>13. ASSUME NEW c \in Callers, Expire(c) PROVE Quiet
  <2>1. PICK k \in Codes : \E told \in Told(k) : caller' = Ended(c, told)
    BY <1>13 DEF Expire, Codes
  <2> QED
    BY <1>2, <2>1, ToldFacts
<1> QED
  BY <1>5, <1>6, <1>7, <1>8, <1>9, <1>10, <1>11, <1>12, <1>13 DEF Serve

-----------------------------------------------------------------------------
(* Who holds a value after a step that issues none held it before.         *)
LEMMA QuietKeeps ==
  ASSUME CbInv, Uncounted
  PROVE  IssuesCover' /\ RowsCover' /\ AwayHoldsNothing'
<1>1. CbTyped /\ IssuesCover /\ RowsCover /\ AwayHoldsNothing
  BY DEF CbInv
<1>2. \A d \in Callers : Calm(d)
  BY DEF Uncounted, Quiet
<1>3. ASSUME NEW g \in Grants
      PROVE  /\ IsFiniteSet(Holders(g)') /\ Cardinality(Holders(g)') <= grant'[g].issues
             /\ grant'[g].issues <= MaxIssues
             /\ IsFiniteSet(Valued(g)') /\ Cardinality(Valued(g)') <= issuedRows'[g]
  <2>1. Holders(g)' \subseteq Holders(g) /\ Valued(g)' \subseteq Valued(g)
    BY <1>2 DEF Calm, Holders, Valued
  <2>2. /\ IsFiniteSet(Holders(g)) /\ Cardinality(Holders(g)) <= grant[g].issues
        /\ IsFiniteSet(Valued(g)) /\ Cardinality(Valued(g)) <= issuedRows[g]
        /\ grant[g].issues \in Nat /\ issuedRows[g] \in Nat /\ grant[g].issues <= MaxIssues
    BY <1>1 DEF IssuesCover, RowsCover, CbTyped
  <2>3. /\ IsFiniteSet(Holders(g)') /\ Cardinality(Holders(g)') <= Cardinality(Holders(g))
        /\ IsFiniteSet(Valued(g)') /\ Cardinality(Valued(g)') <= Cardinality(Valued(g))
    BY <2>1, <2>2, FS_Subset
  <2>4. /\ Cardinality(Holders(g)) \in Nat /\ Cardinality(Holders(g)') \in Nat
        /\ Cardinality(Valued(g)) \in Nat /\ Cardinality(Valued(g)') \in Nat
    BY <2>2, <2>3, FS_CardinalityType
  <2>5. grant'[g].issues = grant[g].issues /\ issuedRows'[g] = issuedRows[g]
    BY DEF Uncounted
  <2> QED
    BY <2>2, <2>3, <2>4, <2>5
<1>4. AwayHoldsNothing'
  BY <1>1, <1>2 DEF AwayHoldsNothing, Calm
<1>5. IssuesCover'
  BY <1>3 DEF IssuesCover
<1>6. RowsCover'
  BY <1>3 DEF RowsCover
<1> QED
  BY <1>4, <1>5, <1>6

(* One more element makes a finite set larger by one at most.              *)
LEMMA OneMore ==
  ASSUME NEW S, IsFiniteSet(S), NEW x
  PROVE  IsFiniteSet(S \cup {x}) /\ Cardinality(S \cup {x}) <= Cardinality(S) + 1
<1>1. Cardinality(S) \in Nat
  BY FS_CardinalityType
<1>2. CASE x \in S
  <2>1. S \cup {x} = S
    BY <1>2
  <2>2. Cardinality(S \cup {x}) = Cardinality(S) /\ IsFiniteSet(S \cup {x})
    BY <2>1
  <2> QED
    BY <1>1, <2>2
<1>3. CASE x \notin S
  BY <1>1, <1>3, FS_AddElement
<1> QED
  BY <1>2, <1>3

(* A decision that hands out the value counts it, and is made only where   *)
(* the grant has an issue left.                                            *)
LEMMA DecideKeeps ==
  ASSUME CbInv, NEW c \in Callers, Decide(c)
  PROVE  /\ IssuesCover' /\ RowsCover' /\ AwayHoldsNothing'
         /\ caller' \in [Callers -> Conn] /\ issuedRows' = issuedRows
         /\ grant' \in [Grants -> [life : {"none", "open", "closed"},
                                   issues : Nat, expired : BOOLEAN]]
<1>0. CbTyped /\ IssuesCover /\ RowsCover /\ AwayHoldsNothing
  BY DEF CbInv
<1>1. CASE Answer(c) = "value"
  <2> DEFINE h == caller[c].ticket
  <2>1. caller' = Move(c, "issued") /\ grant' = [grant EXCEPT ![h].issues = @ + 1]
        /\ issuedRows' = issuedRows
    BY <1>1 DEF Decide
  <2>2. h \in Grants /\ grant[h].issues < MaxIssues /\ grant[h].issues \in Nat
    <3>1. h \in Grants \cup {NoGrant} /\ h # NoGrant
      BY <1>0, <1>1 DEF CbTyped, Conn, Answer
    <3>2. h \in Grants /\ ~(grant[h].issues >= MaxIssues)
      BY <1>1, <3>1 DEF Answer
    <3> QED
      BY <1>0, <3>2, BrokerAssumption DEF CbTyped
  <2>3. /\ caller' \in [Callers -> Conn]
        /\ \A d \in Callers : d # c => caller'[d] = caller[d]
        /\ caller'[c].answer = caller[c].answer /\ caller'[c].ticket = h
        /\ caller'[c].at = "issued"
    BY <1>0, <2>1, MoveFacts DEF CbTyped
  <2>4. /\ grant' \in [Grants -> [life : {"none", "open", "closed"},
                                  issues : Nat, expired : BOOLEAN]]
        /\ grant'[h].issues = grant[h].issues + 1
        /\ \A g \in Grants \ {h} : grant'[g].issues = grant[g].issues
    <3>1. /\ grant[h] \in [life : {"none", "open", "closed"}, issues : Nat,
                            expired : BOOLEAN]
          /\ grant' = [grant EXCEPT ![h] = [grant[h] EXCEPT !.issues = @ + 1]]
      BY <1>0, <2>1, <2>2 DEF CbTyped
    <3>2. /\ [grant[h] EXCEPT !.issues = @ + 1] \in
               [life : {"none", "open", "closed"}, issues : Nat, expired : BOOLEAN]
          /\ [grant[h] EXCEPT !.issues = @ + 1].issues = grant[h].issues + 1
      BY <3>1
    <3> HIDE DEF h
    <3> QED
      BY <1>0, <2>2, <3>1, <3>2 DEF CbTyped
  <2>5. ASSUME NEW g \in Grants
        PROVE  /\ Valued(g)' = Valued(g)
               /\ g # h => Holders(g)' = Holders(g)
               /\ g = h => Holders(g)' = Holders(g) \cup {c}
    BY <2>3 DEF Valued, Holders
  <2>6. RowsCover'
    BY <1>0, <2>1, <2>5 DEF RowsCover
  <2>7. IssuesCover'
    <3> SUFFICES ASSUME NEW g \in Grants
                 PROVE  /\ IsFiniteSet(Holders(g)')
                        /\ Cardinality(Holders(g)') <= grant'[g].issues
                        /\ grant'[g].issues <= MaxIssues
      BY DEF IssuesCover
    <3>1. CASE g # h
      BY <1>0, <2>4, <2>5, <3>1 DEF IssuesCover
    <3>2. CASE g = h
      <4>1. /\ IsFiniteSet(Holders(h)) /\ Cardinality(Holders(h)) <= grant[h].issues
            /\ Cardinality(Holders(h)) \in Nat
        BY <1>0, <2>2, FS_CardinalityType DEF IssuesCover
      <4>2. /\ IsFiniteSet(Holders(h) \cup {c})
            /\ Cardinality(Holders(h) \cup {c}) <= Cardinality(Holders(h)) + 1
        BY <4>1, OneMore
      <4>3. Holders(g)' = Holders(h) \cup {c}
        BY <2>5, <3>2
      <4>4. grant'[g].issues = grant[h].issues + 1 /\ MaxIssues \in Nat
        BY <2>4, <3>2, BrokerAssumption
      <4>5. Cardinality(Holders(h) \cup {c}) \in Nat
        BY <4>2, FS_CardinalityType
      <4>6. /\ Cardinality(Holders(h) \cup {c}) <= grant[h].issues + 1
            /\ grant[h].issues + 1 <= MaxIssues
        BY <2>2, <4>1, <4>2, <4>4, <4>5
      <4> QED
        BY <4>2, <4>3, <4>4, <4>6
    <3> QED
      BY <3>1, <3>2
  <2>8. AwayHoldsNothing'
    BY <1>0, <2>3 DEF AwayHoldsNothing
  <2> QED
    BY <2>1, <2>3, <2>4, <2>6, <2>7, <2>8
<1>2. CASE Answer(c) # "value"
  <2>1. caller' = [Move(c, "answering") EXCEPT ![c].answer = "refused"]
        /\ grant' = grant /\ issuedRows' = issuedRows
    BY <1>2 DEF Decide
  <2>2. /\ Move(c, "answering") \in [Callers -> Conn]
        /\ \A d \in Callers : d # c => Move(c, "answering")[d] = caller[d]
        /\ Move(c, "answering")[c].at = "answering"
    BY <1>0, MoveFacts DEF CbTyped
  <2>3. caller' \in [Callers -> Conn] /\ caller'[c].answer = "refused"
        /\ caller'[c].at = "answering"
        /\ \A d \in Callers : d # c => caller'[d] = caller[d]
    BY <2>1, <2>2 DEF Conn, Answers
  <2>4. Quiet
    BY <2>3 DEF Quiet, Calm
  <2>5. Uncounted
    BY <1>0, <2>1, <2>4 DEF Uncounted, CbTyped
  <2> QED
    BY <2>1, <2>5, QuietKeeps DEF Uncounted, Quiet
<1> QED
  BY <1>1, <1>2

(* The row is written before the value is handed on, or the value is not   *)
(* handed on.                                                              *)
LEMMA RecordIssueKeeps ==
  ASSUME CbInv, NEW c \in Callers, RecordIssue(c)
  PROVE  /\ IssuesCover' /\ RowsCover' /\ AwayHoldsNothing'
         /\ caller' \in [Callers -> Conn] /\ issuedRows' \in [Grants -> Nat]
         /\ grant' = grant
<1>0. CbTyped /\ IssuesCover /\ RowsCover /\ AwayHoldsNothing
  BY DEF CbInv
<1>1. grant' = grant /\ caller[c].at = "issued"
  BY DEF RecordIssue
<1>2. CASE caller' = Ended(c, "none") /\ issuedRows' = issuedRows
  <2>1. ASSUME NEW d \in Callers PROVE Calm(d)
    <3>1. CASE d = c
      <4>1. caller'[d].at = "done" /\ caller'[d].answer = "none"
        BY <1>0, <1>2, <3>1, EndedFacts DEF CbTyped, Answers
      <4> QED
        BY <4>1 DEF Calm
    <3>2. CASE d # c
      <4>1. Same(d)
        BY <1>0, <1>2, <3>2, EndedFacts DEF CbTyped, Answers, Same
      <4> QED
        BY <4>1, SameIsCalm
    <3> QED
      BY <3>1, <3>2
  <2>2. Quiet
    BY <1>0, <1>2, <2>1, EndedFacts DEF CbTyped, Quiet, Answers
  <2>3. Uncounted
    BY <1>0, <1>1, <1>2, <2>2 DEF Uncounted, CbTyped
  <2> QED
    BY <1>0, <1>1, <1>2, <2>3, QuietKeeps DEF Uncounted, Quiet, CbTyped
<1>3. CASE /\ issuedRows' = [issuedRows EXCEPT ![caller[c].ticket] = @ + 1]
           /\ caller' = [Move(c, "answering") EXCEPT ![c].answer = "value"]
  <2> DEFINE h == caller[c].ticket
  <2>1. /\ Move(c, "answering") \in [Callers -> Conn]
        /\ \A d \in Callers : d # c => Move(c, "answering")[d] = caller[d]
        /\ Move(c, "answering")[c].at = "answering"
        /\ Move(c, "answering")[c].ticket = h
    BY <1>0, MoveFacts DEF CbTyped
  <2>2. /\ caller' \in [Callers -> Conn] /\ caller'[c].answer = "value"
        /\ caller'[c].at = "answering" /\ caller'[c].ticket = h
        /\ \A d \in Callers : d # c => caller'[d] = caller[d]
    BY <1>3, <2>1 DEF Conn, Answers
  <2>3. /\ issuedRows' \in [Grants -> Nat]
        /\ \A g \in Grants : issuedRows'[g] = IF g = h THEN issuedRows[g] + 1 ELSE issuedRows[g]
    <3>1. issuedRows' = [issuedRows EXCEPT ![h] = issuedRows[h] + 1]
      BY <1>3
    <3>2. issuedRows \in [Grants -> Nat]
      BY <1>0 DEF CbTyped
    <3> HIDE DEF h
    <3>3. CASE h \in Grants
      <4>1. issuedRows[h] + 1 \in Nat
        BY <3>2, <3>3
      <4> QED
        BY <3>1, <3>2, <3>3, <4>1
    <3>4. CASE h \notin Grants
      BY <3>1, <3>2, <3>4
    <3> QED
      BY <3>3, <3>4
  <2>4. ASSUME NEW g \in Grants
        PROVE  /\ Holders(g)' \subseteq Holders(g)
               /\ g # h => Valued(g)' = Valued(g)
               /\ g = h => Valued(g)' = Valued(g) \cup {c}
    BY <1>1, <2>2 DEF Valued, Holders
  <2>5. IssuesCover'
    <3> SUFFICES ASSUME NEW g \in Grants
                 PROVE  /\ IsFiniteSet(Holders(g)')
                        /\ Cardinality(Holders(g)') <= grant'[g].issues
                        /\ grant'[g].issues <= MaxIssues
      BY DEF IssuesCover
    <3>1. /\ IsFiniteSet(Holders(g)) /\ Cardinality(Holders(g)) <= grant[g].issues
          /\ grant[g].issues <= MaxIssues /\ grant[g].issues \in Nat
      BY <1>0 DEF IssuesCover, CbTyped
    <3>2. /\ IsFiniteSet(Holders(g)') /\ Cardinality(Holders(g)') <= Cardinality(Holders(g))
      BY <2>4, <3>1, FS_Subset
    <3>3. Cardinality(Holders(g)) \in Nat /\ Cardinality(Holders(g)') \in Nat
      BY <3>1, <3>2, FS_CardinalityType
    <3> QED
      BY <1>1, <3>1, <3>2, <3>3
  <2>6. RowsCover'
    <3> SUFFICES ASSUME NEW g \in Grants
                 PROVE  IsFiniteSet(Valued(g)') /\ Cardinality(Valued(g)') <= issuedRows'[g]
      BY DEF RowsCover
    <3>1. /\ IsFiniteSet(Valued(g)) /\ Cardinality(Valued(g)) <= issuedRows[g]
          /\ issuedRows[g] \in Nat /\ Cardinality(Valued(g)) \in Nat
      BY <1>0, FS_CardinalityType DEF RowsCover, CbTyped
    <3>2. CASE g # h
      BY <2>3, <2>4, <3>1, <3>2
    <3>3. CASE g = h
      <4>1. /\ IsFiniteSet(Valued(g) \cup {c})
            /\ Cardinality(Valued(g) \cup {c}) <= Cardinality(Valued(g)) + 1
            /\ Cardinality(Valued(g) \cup {c}) \in Nat
        BY <3>1, OneMore, FS_CardinalityType
      <4>2. Valued(g)' = Valued(g) \cup {c} /\ issuedRows'[g] = issuedRows[g] + 1
        BY <2>3, <2>4, <3>3
      <4> QED
        BY <3>1, <4>1, <4>2
    <3> QED
      BY <3>2, <3>3
  <2>7. AwayHoldsNothing'
    BY <1>0, <2>2 DEF AwayHoldsNothing
  <2> QED
    BY <1>1, <2>2, <2>3, <2>5, <2>6, <2>7
<1> QED
  BY <1>2, <1>3 DEF RecordIssue

-----------------------------------------------------------------------------
(* A step is one that issues nothing, a decision or the writing of a row.  *)
LEMMA BrokerSteps ==
  ASSUME CbInv, CbNext
  PROVE  Uncounted \/ \E c \in Callers : Decide(c) \/ RecordIssue(c)
BY OwnerUncounted, ServiceUncounted DEF CbNext, Handler

(* The ready queue stays a queue of callers, and the serving thread stops  *)
(* only after close().                                                     *)
LEMMA QueueStep ==
  ASSUME CbInv, CbNext
  PROVE  readyq' \in Seq(Callers) /\ StoppedClosed'
<1>0. readyq \in Seq(Callers) /\ StoppedClosed
  BY DEF CbInv, CbTyped
<1>1. StoppedClosed'
  <2>1. CASE UNCHANGED <<loop, open>> \/ open' = FALSE
    BY <1>0, <2>1 DEF StoppedClosed
  <2>2. CASE Select \/ TurnToQueue \/ CloseQueues \/ TurnOver
    BY <1>0, <2>2 DEF Select, TurnToQueue, CloseQueues, TurnOver, StoppedClosed
  <2>3. CASE loop' = "died"
    BY <2>3 DEF StoppedClosed
  <2> QED
    BY <2>1, <2>2, <2>3 DEF LoopAfter, CbNext, Handler, Serve, OpenGrant, CloseGrant, GrantExpires,
       CloseSession, CloseBroker, Connect, Send, DeadlinePasses, Decide, RecordIssue,
       Reply, Drain, Accept, Readable, Expire
<1>2. readyq' \in Seq(Callers)
  <2>1. CASE readyq' = readyq \/ readyq' = <<>>
    <3>1. <<>> \in Seq(Callers)
      OBVIOUS
    <3> QED
      BY <1>0, <2>1, <3>1
  <2>2. CASE Drain
    BY <1>0, <2>2 DEF Drain
  <2>3. ASSUME NEW c \in Callers, Readable(c) PROVE readyq' \in Seq(Callers)
    BY <1>0, <2>3 DEF Readable, Promoted
  <2>4. ASSUME NEW c \in Callers, Expire(c) PROVE readyq' \in Seq(Callers)
    BY <1>0, <2>4, RemoveFirstKeeps DEF Expire
  <2> QED
    BY <2>1, <2>2, <2>3, <2>4 DEF CbNext, Handler, Serve, OpenGrant, CloseGrant,
       GrantExpires, CloseSession, CloseBroker, Connect, Send, DeadlinePasses, Decide,
       RecordIssue, Reply, Accept, Select, TurnToQueue, TurnOver, CloseQueues
<1> QED
  BY <1>1, <1>2

(* The initial states have the invariant.                                  *)
LEMMA CbInvInit == CbInit => CbInv
<1> SUFFICES ASSUME CbInit PROVE CbInv
  OBVIOUS
<1>1. CbTyped
  <2>1. Away \in Conn
    BY DEF Away, Conn, Answers
  <2> QED
    BY <2>1 DEF CbInit, CbTyped
<1>2. StoppedClosed /\ AwayHoldsNothing
  BY DEF CbInit, StoppedClosed, AwayHoldsNothing, Away
<1>3. \A g \in Grants : Holders(g) = {} /\ Valued(g) = {}
  BY DEF CbInit, Holders, Valued, Away
<1>4. IssuesCover /\ RowsCover
  <2>1. IsFiniteSet({}) /\ Cardinality({}) = 0
    BY FS_EmptySet
  <2>2. \A g \in Grants : grant[g].issues = 0 /\ issuedRows[g] = 0
    BY DEF CbInit
  <2>3. MaxIssues \in Nat
    BY BrokerAssumption
  <2>4. 0 <= 0 /\ 0 <= MaxIssues
    BY <2>3
  <2>5. IssuesCover
    BY <1>3, <2>1, <2>2, <2>4 DEF IssuesCover
  <2>6. RowsCover
    BY <1>3, <2>1, <2>2, <2>4 DEF RowsCover
  <2> QED
    BY <2>5, <2>6
<1> QED
  BY <1>1, <1>2, <1>4 DEF CbInv

(* Every step keeps the invariant.                                         *)
LEMMA CbInvStep == CbInv /\ [CbNext]_cbVars => CbInv'
<1> SUFFICES ASSUME CbInv, [CbNext]_cbVars PROVE CbInv'
  OBVIOUS
<1>1. CASE CbNext
  <2>1. readyq' \in Seq(Callers) /\ StoppedClosed'
    BY <1>1, QueueStep
  <2>2. CASE Uncounted
    BY <2>1, <2>2, QuietKeeps DEF CbInv, CbTyped, Uncounted, Quiet
  <2>3. ASSUME NEW c \in Callers, Decide(c) PROVE CbInv'
    BY <2>1, <2>3, DecideKeeps DEF CbInv, CbTyped
  <2>4. ASSUME NEW c \in Callers, RecordIssue(c) PROVE CbInv'
    BY <2>1, <2>4, RecordIssueKeeps DEF CbInv, CbTyped
  <2> QED
    BY <1>1, <2>2, <2>3, <2>4, BrokerSteps
<1>2. CASE UNCHANGED cbVars
  BY <1>2 DEF cbVars, CbInv, CbTyped, StoppedClosed, AwayHoldsNothing, IssuesCover,
     RowsCover, Holders, Valued
<1> QED
  BY <1>1, <1>2

(* The inductive invariant holds in every state.                           *)
THEOREM BrokerInvariant == CbSpec => []CbInv
BY CbInvInit, CbInvStep, PTL DEF CbSpec

(* Whoever has a value is among the holders that the issues cover.         *)
LEMMA ValuesAccounted == CbInv => ValuesAreAccountedFor
<1> SUFFICES ASSUME CbInv, NEW g \in Grants
             PROVE  Cardinality(Valued(g)) <= MaxIssues /\ Cardinality(Valued(g)) <= issuedRows[g]
  BY DEF ValuesAreAccountedFor, Valued
<1>1. /\ IsFiniteSet(Holders(g)) /\ Cardinality(Holders(g)) <= grant[g].issues
      /\ grant[g].issues <= MaxIssues /\ grant[g].issues \in Nat
      /\ IsFiniteSet(Valued(g)) /\ Cardinality(Valued(g)) <= issuedRows[g]
  BY DEF CbInv, IssuesCover, RowsCover, CbTyped
<1>2. Cardinality(Valued(g)) <= Cardinality(Holders(g))
  BY <1>1, FS_Subset DEF Holders
<1>3. Cardinality(Valued(g)) \in Nat /\ Cardinality(Holders(g)) \in Nat
      /\ MaxIssues \in Nat
  BY <1>1, FS_CardinalityType, BrokerAssumption
<1> QED
  BY <1>1, <1>2, <1>3

(* However requests interleave, no grant is worth more answers than it has *)
(* issues, and every value that left was in the audit file first.          *)
THEOREM ValuesAreAccountedForHolds == CbSpec => []ValuesAreAccountedFor
BY ValuesAccounted, BrokerInvariant, PTL

-----------------------------------------------------------------------------
\* What PlacesKept asks of one step.
PlaceKept ==
  \A i \in DOMAIN readyq :
    LET c == readyq[i] IN
    c \notin Range(readyq') => caller[c].late \/ ~open \/ (i = 1 /\ loop = "drain")

(* Only the head of the ready queue, an overdue connection or a closed     *)
(* broker shorten it (_promote, _expire, _drain_ready, close).             *)
LEMMA PlacesStep == CbInv /\ [CbNext]_cbVars => PlaceKept
<1> SUFFICES ASSUME CbInv, [CbNext]_cbVars PROVE PlaceKept
  OBVIOUS
<1>0. readyq \in Seq(Callers) /\ StoppedClosed
  BY DEF CbInv, CbTyped
<1>1. CASE UNCHANGED readyq
  BY <1>1 DEF PlaceKept, Range
<1>2. CASE CloseQueues
  BY <1>0, <1>2 DEF CloseQueues, PlaceKept, StoppedClosed
<1>3. CASE Drain
  <2>1. readyq' = Tail(readyq) /\ loop = "drain"
    BY <1>3 DEF Drain
  <2> SUFFICES ASSUME NEW i \in 1..Len(readyq), i # 1 PROVE readyq[i] \in Range(readyq')
    BY <1>0, <2>1 DEF PlaceKept
  <2>2. i - 1 \in DOMAIN readyq' /\ readyq'[i - 1] = readyq[i]
    BY <1>0, <2>1
  <2> QED
    BY <2>2 DEF Range
<1>4. ASSUME NEW c \in Callers, Readable(c) PROVE PlaceKept
  <2>1. readyq' = readyq \/ readyq' = Append(readyq, c)
    BY <1>4 DEF Readable, Promoted
  <2>2. ASSUME NEW i \in DOMAIN readyq PROVE i \in DOMAIN readyq' /\ readyq'[i] = readyq[i]
    BY <1>0, <2>1
  <2> QED
    BY <2>2 DEF PlaceKept, Range
<1>5. ASSUME NEW c \in Callers, Expire(c) PROVE PlaceKept
  <2>1. readyq' = RemoveFirst(readyq, c) /\ caller[c].late
    BY <1>5 DEF Expire, Overdue
  <2>2. Range(readyq) \ {c} \subseteq Range(readyq')
    BY <1>0, <2>1, RemoveFirstKeeps
  <2>3. \A i \in DOMAIN readyq : readyq[i] \in Range(readyq)
    BY DEF Range
  <2> QED
    BY <2>1, <2>2, <2>3 DEF PlaceKept
<1> QED
  BY <1>1, <1>2, <1>3, <1>4, <1>5
     DEF CbNext, Handler, Serve, OpenGrant, CloseGrant, GrantExpires, CloseSession,
         CloseBroker, Connect, Send, DeadlinePasses, Decide, RecordIssue, Reply, Accept,
         Select, TurnToQueue, TurnOver, cbVars

(* A complete request keeps its place, however many others arrive.         *)
THEOREM PlacesKeptHolds == CbSpec => PlacesKept
<1>1. CbInv /\ [CbNext]_cbVars => [PlaceKept]_cbVars
  BY PlacesStep
<1> QED
  BY <1>1, BrokerInvariant, PTL DEF CbSpec, PlacesKept, PlaceKept

-----------------------------------------------------------------------------
(* The queues and the slots.                                               *)

\* The connections a decision thread holds.
Working == {c \in Callers : caller[c].at \in {"deciding", "issued", "answering"}}

\* Whoever has not sent a whole request is in the list deadlines are read from.
PendingArrived == \A c \in Callers : caller[c].at = "pending" => c \in Range(arrived)

\* The ready queue holds whom it says, and everybody once.
ReadyOnce ==
  /\ \A i \in DOMAIN readyq : caller[readyq[i]].at = "ready"
  /\ \A i, j \in DOMAIN readyq : readyq[i] = readyq[j] => i = j

\* A slot is free or a decision thread has it.
SlotsCounted ==
  IsFiniteSet(Working) /\ free \in Nat /\ Cardinality(Working) + free = MaxSlots

Plain ==
  /\ listening \subseteq Sessions /\ open \in BOOLEAN
  /\ loop \in {"select", "events", "drain", "stopped", "died", "joined"}
  /\ events \subseteq Sessions \cup Callers
  /\ arrived \in Seq(Callers)

QueueInv == Plain /\ PendingArrived /\ ReadyOnce /\ SlotsCounted

(* Taking one element out of a sequence that holds it once takes it out.   *)
LEMMA RemoveFirstOnce ==
  ASSUME NEW S, NEW s \in Seq(S), NEW e,
         \A i, j \in DOMAIN s : s[i] = s[j] => i = j
  PROVE  /\ \A k \in DOMAIN RemoveFirst(s, e) :
              RemoveFirst(s, e)[k] # e /\ RemoveFirst(s, e)[k] \in Range(s)
         /\ \A k, l \in DOMAIN RemoveFirst(s, e) :
              RemoveFirst(s, e)[k] = RemoveFirst(s, e)[l] => k = l
<1>1. CASE \A k \in 1..Len(s) : s[k] # e
  <2>1. RemoveFirst(s, e) = s
    BY <1>1 DEF RemoveFirst
  <2> QED
    BY <1>1, <2>1 DEF Range
<1>2. CASE \E k \in 1..Len(s) : s[k] = e
  <2>1. PICK i \in 1..Len(s) :
          RemoveFirst(s, e) = SubSeq(s, 1, i-1) \o SubSeq(s, i+1, Len(s)) /\ s[i] = e
    BY <1>2, RemoveFirstAt
  <2> DEFINE u == SubSeq(s, 1, i-1)
             v == SubSeq(s, i+1, Len(s))
             t == u \o v
             old(k) == IF k < i THEN k ELSE k + 1
  <2>a. Len(s) \in Nat /\ i \in Nat /\ i >= 1 /\ i <= Len(s) /\ DOMAIN s = 1..Len(s)
    OBVIOUS
  <2>2. /\ u \in Seq(S) /\ Len(u) = i-1 /\ \A j \in 1..(i-1) : u[j] = s[j]
    BY SubSeqProperties
  <2>3. /\ v \in Seq(S) /\ Len(v) = Len(s) - i
        /\ \A j \in 1..(Len(s) - i) : v[j] = s[i+1+j-1]
    BY SubSeqProperties
  <2> HIDE DEF u, v
  <2>4. /\ t \in Seq(S) /\ Len(t) = Len(u) + Len(v)
        /\ \A j \in 1..(Len(u) + Len(v)) : t[j] = IF j <= Len(u) THEN u[j] ELSE v[j - Len(u)]
    <3>1. u \in Seq(S) /\ v \in Seq(S)
      BY <2>2, <2>3
    <3> QED
      BY <3>1, ConcatProperties
  <2> HIDE DEF t
  <2>5. DOMAIN t = 1..(Len(s) - 1)
    <3>1. DOMAIN t = 1..Len(t)
      BY <2>4
    <3>2. Len(t) = Len(s) - 1
      BY <2>a, <2>2, <2>3, <2>4
    <3> QED
      BY <3>1, <3>2
  <2>6. ASSUME NEW k \in DOMAIN t
        PROVE  old(k) \in DOMAIN s /\ old(k) # i /\ t[k] = s[old(k)]
    <3>0. k \in Nat /\ k >= 1 /\ k <= Len(s) - 1
      BY <2>a, <2>5
    <3>1. CASE k < i
      <4>1. k \in 1..(Len(u) + Len(v)) /\ k <= Len(u) /\ k \in 1..(i-1)
        BY <2>a, <2>2, <2>3, <3>0, <3>1
      <4>2. t[k] = u[k] /\ u[k] = s[k]
        BY <2>2, <2>4, <4>1
      <4> QED
        BY <2>a, <3>0, <3>1, <4>2
    <3>2. CASE ~(k < i)
      <4>1. k \in 1..(Len(u) + Len(v)) /\ ~(k <= Len(u)) /\ k - Len(u) = k - (i-1)
            /\ k - (i-1) \in 1..(Len(s) - i) /\ i+1+(k-(i-1))-1 = k + 1
        BY <2>a, <2>2, <2>3, <3>0, <3>2
      <4>2. t[k] = v[k - (i-1)] /\ v[k - (i-1)] = s[k + 1]
        BY <2>3, <2>4, <4>1
      <4> QED
        BY <2>a, <3>0, <3>2, <4>2
    <3> QED
      BY <3>1, <3>2
  <2>7. ASSUME NEW k \in DOMAIN t, NEW l \in DOMAIN t, t[k] = t[l] PROVE k = l
    <3>1. old(k) = old(l)
      BY <2>6, <2>7
    <3> QED
      BY <2>a, <2>5, <3>1
  <2>8. ASSUME NEW k \in DOMAIN t PROVE t[k] # e /\ t[k] \in Range(s)
    <3>1. old(k) \in DOMAIN s /\ old(k) # i /\ t[k] = s[old(k)] /\ i \in DOMAIN s
      BY <2>6, <2>a
    <3> HIDE DEF old
    <3> QED
      BY <2>1, <3>1 DEF Range
  <2>9. RemoveFirst(s, e) = t
    BY <2>1 DEF t, u, v
  <2> QED
    BY <2>7, <2>8, <2>9
<1> QED
  BY <1>1, <1>2

(* What is appended is there, with the rest.                               *)
LEMMA AppendRange ==
  ASSUME NEW S, NEW s \in Seq(S), NEW e \in S
  PROVE  Range(s) \cup {e} \subseteq Range(Append(s, e))
<1>1. DOMAIN s = 1..Len(s) /\ Len(s) \in Nat /\ DOMAIN Append(s, e) = 1..(Len(s) + 1)
  OBVIOUS
<1>2. \A i \in 1..Len(s) : Append(s, e)[i] = s[i]
  OBVIOUS
<1>3. Append(s, e)[Len(s) + 1] = e /\ Len(s) + 1 \in 1..(Len(s) + 1)
  BY <1>1
<1>4. 1..Len(s) \subseteq 1..(Len(s) + 1)
  BY <1>1
<1> QED
  BY <1>1, <1>2, <1>3, <1>4 DEF Range

(* A ready queue is left alone with the connections in it.                 *)
LEMMA ReadyStays ==
  ASSUME CbTyped, ReadyOnce, readyq' = readyq,
         \A d \in Callers : caller[d].at = "ready" => caller'[d].at = "ready"
  PROVE  ReadyOnce'
<1>1. \A i \in DOMAIN readyq : readyq[i] \in Callers
  BY DEF CbTyped
<1> QED
  BY <1>1 DEF ReadyOnce

\* A connection that stays in its queue or with its thread, or is in neither.
Settled(d) ==
  \/ caller'[d].at = caller[d].at
  \/ {caller[d].at, caller'[d].at} \subseteq {"deciding", "issued", "answering"}
  \/ {caller[d].at, caller'[d].at} \subseteq {"away", "backlog", "done"}

(* A step that leaves the queues and the slots alone, and everybody where  *)
(* they are.                                                               *)
LEMMA SettledStep ==
  ASSUME CbTyped, QueueInv, Plain', UNCHANGED <<arrived, readyq, free>>,
         \A d \in Callers : Settled(d)
  PROVE  QueueInv'
<1>1. Working' = Working
  BY DEF Settled, Working
<1>3. \A d \in Callers : caller'[d].at \in {"pending", "ready"} => caller'[d].at = caller[d].at
  BY DEF Settled
<1>4. \A d \in Callers : caller[d].at \in {"pending", "ready"} => caller'[d].at = caller[d].at
  BY DEF Settled
<1>5. PendingArrived'
  BY <1>3 DEF QueueInv, PendingArrived
<1>6. ReadyOnce'
  BY <1>4, ReadyStays DEF QueueInv
<1>7. SlotsCounted'
  BY <1>1 DEF QueueInv, SlotsCounted
<1> QED
  BY <1>5, <1>6, <1>7 DEF QueueInv

(* The owner, the callers and the clock.                                   *)
LEMMA QueuesAndOwner ==
  ASSUME CbInv, QueueInv,
         \/ \E g \in Grants : OpenGrant(g) \/ CloseGrant(g) \/ GrantExpires(g)
         \/ \E s \in Sessions : CloseSession(s)
         \/ CloseBroker
         \/ \E c \in Callers, s \in Sessions, t \in Tickets : Connect(c, s, t)
         \/ \E c \in Callers : Send(c) \/ DeadlinePasses(c)
  PROVE  QueueInv'
<1>0. CbTyped
  BY DEF CbInv
<1>1. Plain'
  BY BrokerAssumption DEF QueueInv, Plain, OpenGrant, CloseGrant, GrantExpires, CloseSession,
     CloseBroker, Dropped, Connect, Send, DeadlinePasses
<1>2. UNCHANGED <<arrived, readyq, free>>
  BY DEF OpenGrant, CloseGrant, GrantExpires, CloseSession, CloseBroker, Connect, Send,
     DeadlinePasses
<1>3. ASSUME NEW gone, Dropped(gone), NEW d \in Callers PROVE Settled(d)
  <2>1. CASE caller'[d] = caller[d]
    BY <2>1 DEF Settled
  <2>2. CASE caller[d].at = "backlog" /\ caller'[d] = Ended(d, "none")[d]
    <3>1. caller'[d].at = "done"
      BY <1>0, <2>2, EndedFacts DEF CbTyped, Answers
    <3> QED
      BY <2>2, <3>1 DEF Settled
  <2> QED
    BY <1>3, <2>1, <2>2 DEF Dropped
<1>4. ASSUME NEW d \in Callers PROVE Settled(d)
  <2>1. CASE UNCHANGED caller
    BY <2>1 DEF Settled
  <2>2. ASSUME NEW c \in Callers, NEW s \in Sessions, NEW t \in Tickets, Connect(c, s, t)
        PROVE  Settled(d)
    <3>1. /\ caller[c].at = "away" /\ caller[c] \in Conn
          /\ caller' = [caller EXCEPT ![c] =
               [caller[c] EXCEPT !.at = "backlog", !.session = s, !.ticket = t]]
      BY <1>0, <2>2 DEF Connect, CbTyped
    <3>2. [caller[c] EXCEPT !.at = "backlog", !.session = s, !.ticket = t].at = "backlog"
      BY <3>1 DEF Conn
    <3>3. caller'[d].at = caller[d].at \/ (d = c /\ caller'[d].at = "backlog")
      BY <1>0, <3>1, <3>2 DEF CbTyped
    <3> QED
      BY <3>1, <3>3 DEF Settled
  <2>3. ASSUME NEW c \in Callers, Send(c) \/ DeadlinePasses(c) PROVE Settled(d)
    BY <1>0, <2>3 DEF Send, DeadlinePasses, Settled, CbTyped, Conn
  <2> QED
    BY <1>3, <2>1, <2>2, <2>3 DEF OpenGrant, CloseGrant, GrantExpires, CloseSession, CloseBroker
<1> QED
  BY <1>0, <1>1, <1>2, <1>4, SettledStep

(* The loop itself.                                                        *)
LEMMA QueuesAndLoop ==
  ASSUME CbInv, QueueInv, Select \/ TurnToQueue \/ TurnOver
  PROVE  QueueInv'
<1>1. Plain'
  BY DEF QueueInv, Plain, Select, TurnToQueue, TurnOver, At
<1>2. UNCHANGED <<arrived, readyq, free, caller>>
  BY DEF Select, TurnToQueue, TurnOver
<1> QED
  BY <1>1, <1>2, SettledStep DEF CbInv, Settled

(* close() after the join empties both queues.                             *)
LEMMA QueuesAndClose == ASSUME CbInv, QueueInv, CloseQueues PROVE QueueInv'
<1>0. CbTyped
  BY DEF CbInv
<1>1. Plain' /\ free' = free /\ readyq' = <<>>
  BY DEF QueueInv, Plain, CloseQueues
<1>2. ASSUME NEW d \in Callers
      PROVE  IF caller[d].at \in {"pending", "ready"} THEN caller'[d].at = "done"
             ELSE caller'[d].at = caller[d].at
  BY <1>0, EndedFacts DEF CloseQueues, CbTyped, Answers
<1>3. Working' = Working /\ PendingArrived' /\ ReadyOnce'
  BY <1>1, <1>2 DEF Working, PendingArrived, ReadyOnce
<1> QED
  BY <1>1, <1>3 DEF QueueInv, SlotsCounted

(* _accept: a connection comes in, and the stalest may have to go.         *)
LEMMA QueuesAndAccept ==
  ASSUME CbInv, QueueInv, NEW s \in Sessions, NEW c \in Callers, Accept(s, c)
  PROVE  QueueInv'
<1>0. CbTyped /\ arrived \in Seq(Callers) /\ PendingArrived
  BY DEF CbInv, QueueInv, Plain
<1>1. /\ caller[c].at = "backlog" /\ UNCHANGED <<listening, open, readyq, free>>
      /\ events' \subseteq events /\ loop' \in {loop, "died"}
  BY ToldFacts DEF Accept, Codes
<1>2. CASE caller' = Move(c, "pending") /\ arrived' = Append(arrived, c)
  <2>1. \A d \in Callers : caller'[d].at = IF d = c THEN "pending" ELSE caller[d].at
    BY <1>0, <1>2, MoveFacts DEF CbTyped
  <2>2. Plain'
    BY <1>0, <1>1, <1>2 DEF QueueInv, Plain
  <2>3. Working' = Working
    BY <1>1, <2>1 DEF Working
  <2>4. Range(arrived) \cup {c} \subseteq Range(arrived')
    BY <1>0, <1>2, AppendRange
  <2>5. PendingArrived'
    BY <1>0, <2>1, <2>4 DEF PendingArrived
  <2>6. ReadyOnce'
    BY <1>0, <1>1, <2>1, ReadyStays DEF QueueInv
  <2> QED
    BY <1>1, <2>2, <2>3, <2>5, <2>6 DEF QueueInv, SlotsCounted
<1>3. ASSUME ~(Cardinality(At("pending")) < MaxPending),
             NEW told \in Told("overloaded"), NEW at \in {"pending", "done"},
             caller' = [Ended(Stalest, told) EXCEPT ![c].at = at],
             arrived' = IF at = "done" THEN RemoveFirst(arrived, Stalest)
                        ELSE Append(RemoveFirst(arrived, Stalest), c)
      PROVE  QueueInv'
  <2>1. Stalest \in Callers /\ caller[Stalest].at = "pending"
    <3> DEFINE I == {i \in DOMAIN arrived : caller[arrived[i]].at = "pending"}
    <3>1. At("pending") # {}
      <4>1. Cardinality({}) = 0 /\ 0 < MaxPending
        BY FS_EmptySet, BrokerAssumption
      <4> QED
        BY <1>3, <4>1
    <3>2. I # {}
      BY <1>0, <3>1 DEF At, PendingArrived, Range
    <3>3. I \in SUBSET (1..Len(arrived)) /\ Len(arrived) \in Nat
      BY <1>0
    <3> HIDE DEF I
    <3>4. \E i \in I : \A j \in I : i <= j
      BY <3>2, <3>3, Least
    <3>5. Min(I) \in I
      BY <3>4 DEF Min
    <3>6. Stalest = arrived[Min(I)]
      BY DEF Stalest, I
    <3> QED
      BY <1>0, <3>5, <3>6 DEF I
  <2> DEFINE q == RemoveFirst(arrived, Stalest)
  <2>2. q \in Seq(Callers) /\ Range(arrived) \ {Stalest} \subseteq Range(q)
    BY <1>0, RemoveFirstKeeps
  <2>3. ASSUME NEW d \in Callers
        PROVE  caller'[d].at = IF d = c THEN at
                               ELSE IF d = Stalest THEN "done" ELSE caller[d].at
    <3>1. /\ Ended(Stalest, told) \in [Callers -> Conn]
          /\ d # Stalest => Ended(Stalest, told)[d] = caller[d]
          /\ Ended(Stalest, told)[Stalest].at = "done"
      BY <1>0, <2>1, EndedFacts, ToldFacts DEF CbTyped, Codes
    <3> HIDE DEF q
    <3> QED
      BY <1>3, <3>1 DEF Conn
  <2> HIDE DEF q
  <2>4. arrived' = IF at = "done" THEN q ELSE Append(q, c)
    BY <1>3 DEF q
  <2>5. Plain'
    BY <1>1, <2>2, <2>4 DEF QueueInv, Plain
  <2>6. Range(q) \cup (IF at = "done" THEN {} ELSE {c}) \subseteq Range(arrived')
    BY <2>2, <2>4, AppendRange
  <2>7. PendingArrived'
    BY <1>0, <2>2, <2>3, <2>6 DEF PendingArrived
  <2>8. Working' = Working
    BY <1>1, <2>1, <2>3 DEF Working
  <2>9. ReadyOnce'
    BY <1>0, <1>1, <2>1, <2>3, ReadyStays DEF QueueInv
  <2> QED
    BY <1>1, <2>5, <2>7, <2>8, <2>9 DEF QueueInv, SlotsCounted
<1>4. \/ caller' = Move(c, "pending") /\ arrived' = Append(arrived, c)
      \/ /\ ~(Cardinality(At("pending")) < MaxPending)
         /\ \E told \in Told("overloaded"), at \in {"pending", "done"} :
              /\ caller' = [Ended(Stalest, told) EXCEPT ![c].at = at]
              /\ arrived' = IF at = "done" THEN RemoveFirst(arrived, Stalest)
                            ELSE Append(RemoveFirst(arrived, Stalest), c)
  BY DEF Accept
<1> QED
  BY <1>2, <1>3, <1>4

(* A connection that leaves the pending queue for none: it is told k and    *)
(* closed on.                                                              *)
LEMMA LeavesPending ==
  ASSUME CbInv, QueueInv, NEW c \in Callers, NEW k \in Answers,
         caller[c].at = "pending", caller' = Ended(c, k),
         arrived' = RemoveFirst(arrived, c), UNCHANGED <<readyq, free>>, Plain'
  PROVE  QueueInv'
<1>0. CbTyped /\ arrived \in Seq(Callers)
  BY DEF CbInv, QueueInv, Plain
<1>1. \A d \in Callers : caller'[d].at = IF d = c THEN "done" ELSE caller[d].at
  BY <1>0, EndedFacts DEF CbTyped
<1>2. PendingArrived'
  BY <1>0, <1>1, RemoveFirstKeeps DEF QueueInv, PendingArrived
<1>3. ReadyOnce'
  BY <1>0, <1>1, ReadyStays DEF QueueInv
<1>4. Working' = Working
  BY <1>1 DEF Working
<1> QED
  BY <1>2, <1>3, <1>4 DEF QueueInv, SlotsCounted

(* _readable and _promote: a whole request changes queues, a closed        *)
(* connection or a request too many is finished.                           *)
LEMMA QueuesAndReadable ==
  ASSUME CbInv, QueueInv, NEW c \in Callers, Readable(c)
  PROVE  QueueInv'
<1>0. CbTyped /\ arrived \in Seq(Callers) /\ readyq \in Seq(Callers)
  BY DEF CbInv, QueueInv, Plain, CbTyped
<1>1. /\ caller[c].at = "pending" /\ UNCHANGED <<listening, open, free>>
      /\ events' \subseteq events /\ loop' \in {loop, "died"}
  BY ToldFacts DEF Readable, Codes
<1>2. ASSUME NEW k \in Codes, NEW told \in Told(k), caller' = Ended(c, told),
             arrived' = RemoveFirst(arrived, c), readyq' = readyq
      PROVE  QueueInv'
  <2>1. Plain'
    BY <1>0, <1>1, <1>2, RemoveFirstKeeps DEF QueueInv, Plain
  <2> QED
    BY <1>1, <1>2, <2>1, LeavesPending, ToldFacts
<1>3. CASE /\ caller' = [caller EXCEPT ![c].at = "ready"] /\ arrived' = arrived
           /\ readyq' = Append(readyq, c)
  <2>1. \A d \in Callers : caller'[d].at = IF d = c THEN "ready" ELSE caller[d].at
    BY <1>0, <1>3 DEF CbTyped, Conn
  <2>2. Plain'
    BY <1>1, <1>3 DEF QueueInv, Plain
  <2>3. PendingArrived'
    BY <1>3, <2>1 DEF QueueInv, PendingArrived
  <2>4. ReadyOnce'
    <3>1. /\ DOMAIN readyq = 1..Len(readyq) /\ Len(readyq) \in Nat
          /\ DOMAIN readyq' = 1..(Len(readyq) + 1)
          /\ \A i \in 1..Len(readyq) : readyq'[i] = readyq[i]
          /\ readyq'[Len(readyq) + 1] = c
      BY <1>0, <1>3
    <3>2. \A i \in 1..Len(readyq) : readyq[i] # c /\ readyq[i] \in Callers
      BY <1>0, <1>1 DEF QueueInv, ReadyOnce
    <3>3. \A i \in DOMAIN readyq' : i \in 1..Len(readyq) \/ i = Len(readyq) + 1
      BY <3>1
    <3>4. \A i \in DOMAIN readyq' : caller'[readyq'[i]].at = "ready"
      BY <2>1, <3>1, <3>2, <3>3 DEF QueueInv, ReadyOnce
    <3>5. \A i, j \in DOMAIN readyq' : readyq'[i] = readyq'[j] => i = j
      BY <3>1, <3>2, <3>3 DEF QueueInv, ReadyOnce
    <3> QED
      BY <3>4, <3>5 DEF ReadyOnce
  <2>5. Working' = Working
    BY <1>1, <2>1 DEF Working
  <2> QED
    BY <1>1, <2>2, <2>3, <2>4, <2>5 DEF QueueInv, SlotsCounted
<1>4. CASE caller[c].sent = "closed"
  BY <1>2, <1>4 DEF Readable, Codes
<1>5. CASE caller[c].sent # "closed" /\ Len(readyq) < MaxPending
  <2>1. Promoted(c).to = "ready" /\ Promoted(c).queue = Append(readyq, c)
    BY <1>5 DEF Promoted
  <2> QED
    BY <1>3, <1>5, <2>1 DEF Readable
<1>6. CASE caller[c].sent # "closed" /\ ~(Len(readyq) < MaxPending)
  <2>1. Promoted(c).to = "done" /\ Promoted(c).queue = readyq /\ Promoted(c).who = c
    BY <1>6 DEF Promoted
  <2>2. PICK told \in Told("overloaded") :
          caller' = [Ended(c, told) EXCEPT ![c].at = "done"]
    BY <1>6, <2>1 DEF Readable
  <2>3. Ended(c, told) \in [Callers -> Conn] /\ Ended(c, told)[c].at = "done"
    BY <1>0, EndedFacts, ToldFacts DEF CbTyped, Codes
  <2>4. [Ended(c, told)[c] EXCEPT !.at = "done"] = Ended(c, told)[c]
    BY <2>3 DEF Conn
  <2>5. caller' = Ended(c, told)
    BY <2>2, <2>3, <2>4
  <2>6. arrived' = RemoveFirst(arrived, c) /\ readyq' = readyq
    BY <1>6, <2>1 DEF Readable
  <2> QED
    BY <1>2, <2>5, <2>6 DEF Codes
<1> QED
  BY <1>4, <1>5, <1>6

(* _expire: an overdue connection leaves whichever queue it is in.         *)
LEMMA QueuesAndExpire ==
  ASSUME CbInv, QueueInv, NEW c \in Callers, Expire(c)
  PROVE  QueueInv'
<1>0. CbTyped /\ arrived \in Seq(Callers) /\ readyq \in Seq(Callers)
  BY DEF CbInv, QueueInv, Plain, CbTyped
<1>1. /\ caller[c].at \in {"pending", "ready"}
      /\ UNCHANGED <<listening, open, free>>
      /\ events' = {} /\ arrived' = RemoveFirst(arrived, c)
      /\ readyq' = RemoveFirst(readyq, c)
  BY DEF Expire, Overdue, Waiting
<1>c. PICK code \in Codes :
        \E told \in Told(code) : caller' = Ended(c, told) /\ loop' = LoopAfter(told)
  BY DEF Expire, Codes
<1>a. PICK told \in Told(code) : caller' = Ended(c, told) /\ loop' = LoopAfter(told)
  BY <1>c
<1>b. loop' \in {loop, "died"}
  BY <1>a, ToldFacts
<1>2. \A d \in Callers : caller'[d].at = IF d = c THEN "done" ELSE caller[d].at
  BY <1>0, <1>a, EndedFacts, ToldFacts DEF CbTyped
<1>3. Plain'
  BY <1>0, <1>1, <1>b, RemoveFirstKeeps DEF QueueInv, Plain
<1>4. PendingArrived'
  BY <1>0, <1>1, <1>2, RemoveFirstKeeps DEF QueueInv, PendingArrived
<1>5. ReadyOnce'
  <2>1. /\ \A k \in DOMAIN readyq' : readyq'[k] # c /\ readyq'[k] \in Range(readyq)
        /\ \A k, l \in DOMAIN readyq' : readyq'[k] = readyq'[l] => k = l
    BY <1>0, <1>1, RemoveFirstOnce DEF QueueInv, ReadyOnce
  <2>2. \A e \in Range(readyq) : e \in Callers /\ caller[e].at = "ready"
    BY <1>0 DEF QueueInv, ReadyOnce, Range
  <2> QED
    BY <1>2, <2>1, <2>2 DEF ReadyOnce
<1>6. Working' = Working
  BY <1>1, <1>2 DEF Working
<1> QED
  BY <1>1, <1>3, <1>4, <1>5, <1>6 DEF QueueInv, SlotsCounted

(* One more thread, one slot less.                                         *)
LEMMA ThreadTakesSlot ==
  ASSUME SlotsCounted, NEW c, c \notin Working, free > 0,
         Working' = Working \cup {c}, free' = free - 1
  PROVE  SlotsCounted'
<1>1. IsFiniteSet(Working \cup {c}) /\ Cardinality(Working \cup {c}) = Cardinality(Working) + 1
  BY FS_AddElement DEF SlotsCounted
<1>2. Cardinality(Working) \in Nat
  BY FS_CardinalityType DEF SlotsCounted
<1> QED
  BY <1>1, <1>2 DEF SlotsCounted

(* One thread less, one slot more.                                         *)
LEMMA ThreadReturnsSlot ==
  ASSUME SlotsCounted, NEW c \in Working, Working' = Working \ {c}, free' = free + 1
  PROVE  SlotsCounted'
<1>1. IsFiniteSet(Working \ {c}) /\ Cardinality(Working \ {c}) = Cardinality(Working) - 1
  BY FS_RemoveElement DEF SlotsCounted
<1>2. Cardinality(Working) \in Nat /\ MaxSlots \in Nat
  BY FS_CardinalityType, BrokerAssumption DEF SlotsCounted
<1> QED
  BY <1>1, <1>2 DEF SlotsCounted

(* _drain_ready: the head of the queue gets a thread, or is refused.       *)
LEMMA QueuesAndDrain == ASSUME CbInv, QueueInv, Drain PROVE QueueInv'
<1> DEFINE c == readyq[1]
<1>0. CbTyped /\ arrived \in Seq(Callers) /\ readyq \in Seq(Callers)
  BY DEF CbInv, QueueInv, Plain, CbTyped
<1>1. /\ readyq # <<>> /\ free > 0 /\ readyq' = Tail(readyq)
      /\ arrived' = RemoveFirst(arrived, c) /\ UNCHANGED <<listening, open, events>>
      /\ loop' \in {loop, "died"}
  BY ToldFacts DEF Drain, Codes
<1>2. 1 \in DOMAIN readyq /\ c \in Callers
  BY <1>0, <1>1
<1>3. caller[c].at = "ready"
  BY <1>2 DEF QueueInv, ReadyOnce
<1>4. /\ \A d \in Callers : d # c => caller'[d].at = caller[d].at
      /\ \/ caller'[c].at = "deciding" /\ free' = free - 1
         \/ caller'[c].at = "done" /\ free' = free
  <2>1. CASE caller' = Move(c, "deciding") /\ free' = free - 1
    BY <1>0, <1>2, <2>1, MoveFacts DEF CbTyped
  <2>2. ASSUME NEW told \in Told("overloaded"), caller' = Ended(c, told), free' = free
        PROVE  caller'[c].at = "done" /\ \A d \in Callers : d # c => caller'[d] = caller[d]
    BY <1>0, <1>2, <2>2, EndedFacts, ToldFacts DEF CbTyped, Codes
  <2> QED
    BY <2>1, <2>2 DEF Drain, SlotReturned
<1>5. Plain'
  BY <1>0, <1>1, RemoveFirstKeeps DEF QueueInv, Plain
<1>6. PendingArrived'
  <2>1. Range(arrived) \ {c} \subseteq Range(arrived')
    BY <1>0, <1>1, RemoveFirstKeeps
  <2> HIDE DEF c
  <2> QED
    BY <1>2, <1>3, <1>4, <2>1 DEF QueueInv, PendingArrived
<1>7. ReadyOnce'
  <2>1. /\ \A k \in DOMAIN readyq' : k + 1 \in DOMAIN readyq /\ readyq'[k] = readyq[k + 1]
        /\ \A k \in DOMAIN readyq' : k \in Nat /\ k >= 1
    BY <1>0, <1>1
  <2>2. ASSUME NEW k \in DOMAIN readyq' PROVE readyq'[k] \in Callers \ {c}
    <3>1. k + 1 # 1 /\ k + 1 \in DOMAIN readyq
      BY <2>1
    <3> QED
      BY <1>0, <1>2, <2>1, <3>1 DEF QueueInv, ReadyOnce
  <2>3. \A k \in DOMAIN readyq' : caller'[readyq'[k]].at = "ready"
    <3> HIDE DEF c
    <3> QED
      BY <1>4, <2>1, <2>2 DEF QueueInv, ReadyOnce
  <2>4. \A k, l \in DOMAIN readyq' : readyq'[k] = readyq'[l] => k = l
    BY <2>1 DEF QueueInv, ReadyOnce
  <2> QED
    BY <2>3, <2>4 DEF ReadyOnce
<1>8. SlotsCounted'
  <2> HIDE DEF c
  <2>1. CASE caller'[c].at = "deciding" /\ free' = free - 1
    <3>1. Working' = Working \cup {c} /\ c \notin Working
      BY <1>2, <1>3, <1>4, <2>1 DEF Working
    <3> QED
      BY <1>1, <2>1, <3>1, ThreadTakesSlot DEF QueueInv
  <2>2. CASE caller'[c].at = "done" /\ free' = free
    <3>1. Working' = Working
      BY <1>2, <1>3, <1>4, <2>2 DEF Working
    <3> QED
      BY <2>2, <3>1 DEF SlotsCounted, QueueInv
  <2> QED
    BY <1>4, <2>1, <2>2
<1> QED
  BY <1>5, <1>6, <1>7, <1>8 DEF QueueInv

(* A decision thread keeps its slot until it has answered or given up.     *)
LEMMA QueuesAndHandler ==
  ASSUME CbInv, QueueInv, NEW c \in Callers, Handler(c)
  PROVE  QueueInv'
<1>0. CbTyped
  BY DEF CbInv
<1>1. Plain' /\ UNCHANGED <<arrived, readyq>>
  BY DEF QueueInv, Plain, Handler, Decide, RecordIssue, Reply
<1>2. caller[c].at \in {"deciding", "issued", "answering"}
  BY DEF Handler, Decide, RecordIssue, Reply
<1>3. CASE /\ free' = free /\ caller'[c].at \in {"deciding", "issued", "answering"}
           /\ \A d \in Callers : d # c => caller'[d].at = caller[d].at
  BY <1>0, <1>1, <1>2, <1>3, SettledStep DEF Settled
<1>4. CASE \E k \in Answers : caller' = Ended(c, k) /\ free' = free + 1
  <2>1. \A d \in Callers : caller'[d].at = IF d = c THEN "done" ELSE caller[d].at
    BY <1>0, <1>4, EndedFacts DEF CbTyped
  <2>2. PendingArrived'
    BY <1>1, <2>1 DEF QueueInv, PendingArrived
  <2>3. ReadyOnce'
    BY <1>0, <1>1, <1>2, <2>1, ReadyStays DEF QueueInv
  <2>4. Working' = Working \ {c} /\ c \in Working
    BY <1>2, <2>1 DEF Working
  <2>5. SlotsCounted'
    BY <1>4, <2>4, ThreadReturnsSlot DEF QueueInv
  <2> QED
    BY <1>1, <2>2, <2>3, <2>5 DEF QueueInv
<1>5. ASSUME NEW at \in {"issued", "answering"}, NEW k \in Answers,
             caller' \in {Move(c, at), [Move(c, at) EXCEPT ![c].answer = k]}, free' = free
      PROVE  QueueInv'
  <2>1. /\ Move(c, at) \in [Callers -> Conn] /\ Move(c, at)[c].at = at
        /\ \A d \in Callers : d # c => Move(c, at)[d] = caller[d]
    BY <1>0, MoveFacts DEF CbTyped
  <2>2. /\ caller'[c].at = at
        /\ \A d \in Callers : d # c => caller'[d].at = caller[d].at
    BY <1>5, <2>1 DEF Conn
  <2> QED
    BY <1>3, <1>5, <2>2
<1>6. CASE Decide(c)
  <2>1. free' = free
    BY <1>6 DEF Decide
  <2>2. \/ caller' = Move(c, "issued")
        \/ caller' = [Move(c, "answering") EXCEPT ![c].answer = "refused"]
    BY <1>6 DEF Decide
  <2> QED
    BY <1>5, <2>1, <2>2 DEF Answers
<1>7. CASE RecordIssue(c)
  BY <1>4, <1>5, <1>7 DEF RecordIssue, Answers
<1>8. CASE Reply(c)
  BY <1>0, <1>4, <1>8 DEF Reply, Answers, CbTyped, Conn
<1> QED
  BY <1>6, <1>7, <1>8 DEF Handler

(* Every step keeps the queues and the slots in order.                     *)
LEMMA QueueInvStep == CbInv /\ QueueInv /\ [CbNext]_cbVars => QueueInv'
<1> SUFFICES ASSUME CbInv, QueueInv, [CbNext]_cbVars PROVE QueueInv'
  OBVIOUS
<1>1. CASE UNCHANGED cbVars
  BY <1>1 DEF cbVars, QueueInv, Plain, PendingArrived, ReadyOnce, SlotsCounted, Working
<1>2. CASE CbNext
  BY <1>2, QueuesAndOwner, QueuesAndLoop, QueuesAndClose, QueuesAndAccept,
     QueuesAndReadable, QueuesAndExpire, QueuesAndDrain, QueuesAndHandler DEF CbNext, Serve
<1> QED
  BY <1>1, <1>2

(* A broker starts with empty queues and every slot.                       *)
LEMMA QueueInvInit == CbInit => QueueInv
<1> SUFFICES ASSUME CbInit PROVE QueueInv
  OBVIOUS
<1>1. Working = {}
  BY DEF CbInit, Working, Away
<1>2. Plain /\ PendingArrived /\ ReadyOnce
  BY DEF CbInit, Plain, PendingArrived, ReadyOnce, Away
<1>3. SlotsCounted
  BY <1>1, FS_EmptySet, BrokerAssumption DEF SlotsCounted, CbInit
<1> QED
  BY <1>2, <1>3 DEF QueueInv

(* The queues and the slots stay in order.                                 *)
LEMMA QueuesStayInOrder == CbSpec => [](CbInv /\ QueueInv)
BY CbInvInit, CbInvStep, QueueInvInit, QueueInvStep, PTL DEF CbSpec

(* No more decision threads run than there are slots, and no slot is lost  *)
(* or returned twice, however the threads end.                             *)
THEOREM SlotsAreReturned ==
  CbSpec => [](IsFiniteSet(Working) /\ Cardinality(Working) + free = MaxSlots)
<1>1. QueueInv => IsFiniteSet(Working) /\ Cardinality(Working) + free = MaxSlots
  BY DEF QueueInv, SlotsCounted
<1> QED
  BY <1>1, QueuesStayInOrder, PTL

(* What the two invariants say of the types.                               *)
LEMMA BrokerTypes == CbInv /\ QueueInv => CbTypeOK
<1> SUFFICES ASSUME CbInv, QueueInv PROVE CbTypeOK
  OBVIOUS
<1>1. free \in 0..MaxSlots
  <2>1. Cardinality(Working) \in Nat /\ free \in Nat /\ MaxSlots \in Nat
    BY FS_CardinalityType, BrokerAssumption DEF QueueInv, SlotsCounted
  <2> QED
    BY <2>1 DEF QueueInv, SlotsCounted
<1> QED
  BY <1>1 DEF CbTypeOK, CbInv, CbTyped, QueueInv, Plain, Conn, Answers

(* The types of the broker.                                                *)
THEOREM BrokerTypeCorrect == CbSpec => []CbTypeOK
BY BrokerTypes, QueuesStayInOrder, PTL

-----------------------------------------------------------------------------
(* The endpoints of the brokers.                                           *)

(* A broker that makes sessions has swept; one that has swept sweeps no    *)
(* more, and so takes nothing of its own.                                  *)
SweptFirst ==
  /\ \A s \in Rooms : making[s] # "none" => life[HostOf[s]] = "up"
  /\ \A b \in Brokers : life[b] # "sweeping" => toSweep[b] = {} /\ refused[b] = {}

EpInv == EpTypeOK /\ SweptFirst

(* A step keeps the types.                                                 *)
LEMMA EpTypeStep == EpTypeOK /\ [EpNext]_epVars => EpTypeOK'
<1> SUFFICES ASSUME EpTypeOK, [EpNext]_epVars PROVE EpTypeOK'
  OBVIOUS
<1> USE EndpointsAssumption DEF EpTypeOK
<1>1. ASSUME NEW b \in Brokers, BeginSweep(b) PROVE EpTypeOK'
  BY <1>1 DEF BeginSweep
<1>2. ASSUME NEW b \in Brokers, EndSweep(b) PROVE EpTypeOK'
  BY <1>2 DEF EndSweep
<1>3. ASSUME NEW b \in Brokers, BrokerDies(b) PROVE EpTypeOK'
  BY <1>3 DEF BrokerDies
<1>4. ASSUME NEW b \in Brokers, BrokerRestarts(b) PROVE EpTypeOK'
  BY <1>4 DEF BrokerRestarts
<1>5. ASSUME NEW b \in Brokers, NEW s \in Rooms, Probe(b, s) PROVE EpTypeOK'
  BY <1>5 DEF Probe
<1>6. ASSUME NEW b \in Brokers, NEW s \in Rooms, Sweep(b, s) PROVE EpTypeOK'
  BY <1>6 DEF Sweep
<1>7. ASSUME NEW s \in Rooms, MakeDirectory(s) PROVE EpTypeOK'
  BY <1>7 DEF MakeDirectory
<1>8. ASSUME NEW s \in Rooms, Bind(s) PROVE EpTypeOK'
  BY <1>8 DEF Bind
<1>9. ASSUME NEW s \in Rooms, Listen(s) PROVE EpTypeOK'
  BY <1>9 DEF Listen
<1>10. ASSUME NEW s \in Rooms, Drop(s) PROVE EpTypeOK'
  BY <1>10 DEF Drop
<1>11. CASE UNCHANGED epVars
  BY <1>11 DEF epVars
<1> QED
  BY <1>1, <1>2, <1>3, <1>4, <1>5, <1>6, <1>7, <1>8, <1>9, <1>10, <1>11 DEF EpNext

(* A step keeps the order of the sweep and the sessions.                   *)
LEMMA SweptFirstStep == EpInv /\ [EpNext]_epVars => SweptFirst'
<1> SUFFICES ASSUME EpInv, [EpNext]_epVars PROVE SweptFirst'
  OBVIOUS
<1> USE EndpointsAssumption DEF EpInv, EpTypeOK, SweptFirst
<1>1. ASSUME NEW b \in Brokers, BeginSweep(b) PROVE SweptFirst'
  BY <1>1 DEF BeginSweep
<1>2. ASSUME NEW b \in Brokers, EndSweep(b) PROVE SweptFirst'
  BY <1>2 DEF EndSweep
<1>3. ASSUME NEW b \in Brokers, BrokerDies(b) PROVE SweptFirst'
  BY <1>3 DEF BrokerDies
<1>4. ASSUME NEW b \in Brokers, BrokerRestarts(b) PROVE SweptFirst'
  BY <1>4 DEF BrokerRestarts
<1>5. ASSUME NEW b \in Brokers, NEW s \in Rooms, Probe(b, s) PROVE SweptFirst'
  BY <1>5 DEF Probe
<1>6. ASSUME NEW b \in Brokers, NEW s \in Rooms, Sweep(b, s) PROVE SweptFirst'
  BY <1>6 DEF Sweep
<1>7. ASSUME NEW s \in Rooms, MakeDirectory(s) PROVE SweptFirst'
  BY <1>7 DEF MakeDirectory
<1>8. ASSUME NEW s \in Rooms, Bind(s) PROVE SweptFirst'
  BY <1>8 DEF Bind
<1>9. ASSUME NEW s \in Rooms, Listen(s) PROVE SweptFirst'
  BY <1>9 DEF Listen
<1>10. ASSUME NEW s \in Rooms, Drop(s) PROVE SweptFirst'
  BY <1>10 DEF Drop
<1>11. CASE UNCHANGED epVars
  BY <1>11 DEF epVars
<1> QED
  BY <1>1, <1>2, <1>3, <1>4, <1>5, <1>6, <1>7, <1>8, <1>9, <1>10, <1>11 DEF EpNext

(* It starts so, and stays so.                                             *)
LEMMA EpInvStays == /\ EpInit => EpInv
                    /\ EpInv /\ [EpNext]_epVars => EpInv'
<1>1. EpInit => EpInv
  BY EndpointsAssumption DEF EpInit, EpInv, EpTypeOK, SweptFirst
<1> QED
  BY <1>1, EpTypeStep, SweptFirstStep DEF EpInv

(* A listener is lost to its broker, or to a sweep of another one that     *)
(* found its socket refusing before.                                       *)
LostStep ==
  \A s \in Rooms :
    making[s] = "live" /\ sock[s] = "live" /\ making'[s] = "live" /\ sock'[s] # "live" =>
      \E b \in Brokers : b # HostOf[s] /\ life[b] = "sweeping" /\ s \in refused[b]

(* No broker takes the endpoint of a session of its own: a live socket     *)
(* that goes without being dropped is taken by a sweep of another broker.  *)
THEOREM OnlyAnotherSweeps == EpSpec => [][LostStep]_epVars
<1>1. EpInv /\ [EpNext]_epVars => [LostStep]_epVars
  <2> SUFFICES ASSUME EpInv, EpNext, NEW s \in Rooms,
                      making[s] = "live", sock[s] = "live", making'[s] = "live", sock'[s] # "live"
               PROVE  \E b \in Brokers : b # HostOf[s] /\ life[b] = "sweeping" /\ s \in refused[b]
    BY DEF LostStep
  <2> USE EndpointsAssumption DEF EpInv, EpTypeOK, SweptFirst
  <2>1. life[HostOf[s]] = "up"
    OBVIOUS
  <2>2. ASSUME NEW b \in Brokers, NEW r \in Rooms, Sweep(b, r) PROVE r = s /\ s \in refused[b]
    BY <2>2 DEF Sweep
  <2>3. ASSUME NEW b \in Brokers, s \in refused[b] PROVE b # HostOf[s] /\ life[b] = "sweeping"
    BY <2>1, <2>3
  <2>4. ASSUME UNCHANGED sock PROVE FALSE
    BY <2>4
  <2>5. CASE \E b \in Brokers : BeginSweep(b) \/ EndSweep(b) \/ BrokerRestarts(b)
                                 \/ \E r \in Rooms : Probe(b, r)
    BY <2>4, <2>5 DEF BeginSweep, EndSweep, BrokerRestarts, Probe
  <2>6. ASSUME NEW b \in Brokers, BrokerDies(b) PROVE FALSE
    BY <2>6 DEF BrokerDies
  <2>7. ASSUME NEW r \in Rooms, MakeDirectory(r) \/ Bind(r) \/ Listen(r) \/ Drop(r) PROVE FALSE
    BY <2>7 DEF MakeDirectory, Bind, Listen, Drop
  <2> QED
    BY <2>2, <2>3, <2>5, <2>6, <2>7 DEF EpNext
<1> QED
  BY <1>1, EpInvStays, PTL DEF EpSpec

(* The types of the endpoints.                                             *)
THEOREM EndpointsTypeCorrect == EpSpec => []EpTypeOK
<1>1. EpInv => EpTypeOK
  BY DEF EpInv
<1> QED
  BY <1>1, EpInvStays, PTL DEF EpSpec

\* A session listens at its socket, and no broker that sweeps has found it
\* refusing before.
Secure(s) ==
  making[s] = "live" /\ sock[s] = "live" /\ \A b \in Brokers : s \notin refused[b]

SecureStep == \A s \in Rooms : Secure(s) /\ making'[s] = "live" => Secure(s)'

(* However many brokers start, sweep, die and start again, an endpoint that *)
(* listens is "left strictly alone" from when no probe of before its listen *)
(* is left: until its session drops it or its broker dies it stays live,    *)
(* and no broker takes it for a dead one any more.                          *)
THEOREM LiveEndpointsAreLeftAlone == EpSpec => [][SecureStep]_epVars
<1>1. EpInv /\ [EpNext]_epVars => [SecureStep]_epVars
  <2> SUFFICES ASSUME EpInv, EpNext, NEW s \in Rooms, Secure(s), making'[s] = "live"
               PROVE  Secure(s)'
    BY DEF SecureStep
  <2> USE EndpointsAssumption DEF EpInv, EpTypeOK, Secure
  <2>1. ASSUME NEW b \in Brokers, BeginSweep(b) \/ EndSweep(b) \/ BrokerRestarts(b)
        PROVE  Secure(s)'
    BY <2>1 DEF BeginSweep, EndSweep, BrokerRestarts
  <2>2. ASSUME NEW b \in Brokers, NEW r \in Rooms, Probe(b, r) PROVE Secure(s)'
    BY <2>2 DEF Probe
  <2>3. ASSUME NEW b \in Brokers, NEW r \in Rooms, Sweep(b, r) PROVE Secure(s)'
    BY <2>3 DEF Sweep
  <2>4. ASSUME NEW b \in Brokers, BrokerDies(b) PROVE Secure(s)'
    BY <2>4 DEF BrokerDies
  <2>5. ASSUME NEW r \in Rooms, MakeDirectory(r) \/ Bind(r) PROVE Secure(s)'
    BY <2>5 DEF MakeDirectory, Bind
  <2>6. ASSUME NEW r \in Rooms, Listen(r) \/ Drop(r) PROVE Secure(s)'
    BY <2>6 DEF Listen, Drop
  <2> QED
    BY <2>1, <2>2, <2>3, <2>4, <2>5, <2>6 DEF EpNext
<1> QED
  BY <1>1, EpInvStays, PTL DEF EpSpec
=============================================================================
