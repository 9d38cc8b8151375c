----------------------- MODULE MissionServices_proofs -----------------------
(***************************************************************************)
(* Proofs about three services of a mission: the turn of the local model   *)
(* provider, the blast radius of what a mission is given, and the session  *)
(* of shadowfetch-firebreak in which it runs; and about all six services   *)
(* that MCMissionServices puts together.                                   *)
(*                                                                         *)
(* The turn (ProviderTurn), for generations, logs and redactors of any     *)
(* size: what counts as complete was ended by the bridge, between          *)
(* Firebreak's two records, and judged when nobody was left to write       *)
(* (ReadOut).  What is in the pipe is known piece by piece (Generated,     *)
(* Concluded, Reported), and parse_stream is a function of the log's prefixes: *)
(* so each step of its loop is one piece further on, and Stepwise takes    *)
(* the place of an induction (TokensAreRead, ToldIsComplete).              *)
(*                                                                         *)
(* The blast radius (BlastRadius), for the worlds of the run and all those *)
(* in which its parts meet (AllWorlds).  There is one lemma for each thing *)
(* that a world may contain, which says that a finding says so             *)
(* (SocketIsSaid, NameIsSaid, RepoIsSaid, CeilingIsSaid), or that what     *)
(* hides it is said to have been unread (UnreadIsSaid).                    *)
(*                                                                         *)
(* The session (FirebreakSession), for every request and any number of     *)
(* signals.  The inductive invariant FbInv says, for each stage of the     *)
(* launcher and of the tree, what must have happened before it.  The tree  *)
(* outlives the launcher, so it is the tree's stage, not the launcher's,   *)
(* that carries the fence: a FIFO that was opened for writing is proof of  *)
(* a NAT that was attached, whoever is still there to have opened it.      *)
(*                                                                         *)
(* The six together: no service touches another (ServicesStayApart), so    *)
(* that everything has its type, and the safety properties hold, on the    *)
(* specification that the run explores.                                    *)
(***************************************************************************)
EXTENDS MCMissionServices, CredentialBroker_proofs, ApprovalGate_proofs,
        FiniteSetTheorems, SequenceTheorems, WellFoundedInduction, TLAPS

-----------------------------------------------------------------------------
(* The turn of the local model provider.                                   *)

Piece == {"started", "status", "token", "error", "ended", "done", "cancelled", "log", "cut"}
           \X (0..MaxTokens) \X {1, 2}

(* The output and the counters are of their kinds.                         *)
TurnTyped ==
  /\ stream \in Seq(Piece) /\ pos \in Nat /\ kept \in Nat
  /\ pos <= Len(stream) /\ kept <= pos /\ kept <= MaxOutput
  /\ sent \in 0..MaxTokens /\ readOnly \in BOOLEAN /\ saved \in BOOLEAN

(* The bridge exits well only after it has saved and said so; Firebreak    *)
(* says so only of a bridge that did, between its two records.             *)
EndedWell ==
  /\ bpc \in {"finish", "return"} => saved = ~readOnly
  /\ bexit = "ok" => bpc = "exited" /\ saved = ~readOnly
  /\ fpc = "start" => recs = {}
  /\ fpc \in {"spawn", "wait", "end"} => recs = {"started"}
  /\ fpc = "start" \/ fpc = "spawn" => bpc = "none"
  /\ fexit = "ok" =>
       /\ bexit = "ok" /\ fpc \in {"end", "exited"}
       /\ fpc = "exited" => recs = {"started", "ended"}

(* The log is judged when nobody is left to write, and all of it was read. *)
ReadOut ==
  opc = "judge" \/ verdict \in {"failed", "complete"} =>
    /\ fpc = "exited" /\ ~Alive /\ pos = Len(stream) /\ kept = AtMost(pos, MaxOutput)

Judged ==
  /\ opc \in {"read", "term", "kill", "judge", "over"}
  /\ verdict \in {"failed", "complete"} => opc = "over"
  /\ verdict = "complete" => fexit = "ok"

PtInv == TurnTyped /\ EndedWell /\ ReadOut /\ Judged

(* What is written makes the output longer.                                *)
LEMMA LongerOutput ==
  ASSUME stream \in Seq(Piece),
         stream' = stream \/ \E more \in Seq(Piece) : stream' = stream \o more
  PROVE  /\ stream' \in Seq(Piece) /\ Len(stream') >= Len(stream)
         /\ Len(stream') \in Nat /\ Len(stream) \in Nat
<1>1. CASE stream' = stream
  BY <1>1
<1>2. ASSUME NEW more \in Seq(Piece), stream' = stream \o more
      PROVE  stream' \in Seq(Piece) /\ Len(stream') >= Len(stream)
  BY <1>2
<1>3. stream' \in Seq(Piece) /\ Len(stream') >= Len(stream)
  BY <1>1, <1>2
<1> QED
  BY <1>3

(* A line is a sequence of two pieces.                                     *)
LEMMA LineTyped ==
  ASSUME NEW event \in {"started", "status", "token", "error", "ended", "done", "cancelled",
                        "log", "cut"},
         NEW n \in 0..MaxTokens
  PROVE  Line(event, n) \in Seq(Piece)
BY DEF Line, Piece

(* A step keeps the types.                                                 *)
LEMMA TurnTypedStep == TurnTyped /\ EndedWell /\ [PtNext]_ptVars => TurnTyped'
<1> SUFFICES ASSUME TurnTyped, EndedWell, [PtNext]_ptVars PROVE TurnTyped'
  OBVIOUS
<1>a. \A event \in {"started", "status", "error", "ended", "done", "cancelled", "log"} :
        Line(event, 0) \in Seq(Piece)
  <2>1. 0 \in 0..MaxTokens
    BY TurnAssumption
  <2> QED
    BY <2>1, LineTyped
<1> USE TurnAssumption DEF TurnTyped, bridge, firebreak, executor
<1>0. ASSUME UNCHANGED <<pos, kept, sent, saved, readOnly>>,
             stream' = stream \/ \E more \in Seq(Piece) : stream' = stream \o more
      PROVE  TurnTyped'
  <2>1. stream' \in Seq(Piece) /\ Len(stream') >= Len(stream) /\ Len(stream') \in Nat
    BY <1>0, LongerOutput
  <2>2. pos' <= Len(stream')
    BY <1>0, <2>1
  <2> QED
    BY <1>0, <2>1, <2>2
<1>1. CASE ReachService \/ GenerationDone \/ Cancelled
  <2>1. UNCHANGED <<pos, kept, sent, saved, readOnly>>
    BY <1>1 DEF ReachService, GenerationDone, Cancelled
  <2>2. stream' = stream \/ \E e \in {"started", "status", "error", "done", "cancelled"} : Emit(e)
    BY <1>1 DEF ReachService, GenerationDone, Cancelled
  <2>3. ASSUME NEW e \in {"started", "status", "error", "done", "cancelled"}, Emit(e)
        PROVE  \E more \in Seq(Piece) : stream' = stream \o more
    BY <1>a, <2>3 DEF Emit
  <2> QED
    BY <1>0, <2>1, <2>2, <2>3
<1>2. CASE ServiceLine
  <2>1. CASE UNCHANGED sent
    <3>1. stream' = stream \/ Emit("error")
      BY <1>2, <2>1 DEF ServiceLine
    <3>2. UNCHANGED <<pos, kept, saved, readOnly>>
      BY <1>2 DEF ServiceLine
    <3> QED
      BY <1>0, <1>a, <2>1, <3>1, <3>2 DEF Emit
  <2>2. CASE sent < MaxTokens /\ sent' = sent + 1 /\ EmitToken(sent + 1)
    <3>1. Line("token", sent + 1) \in Seq(Piece)
      BY <2>2, LineTyped
    <3> QED
      BY <1>2, <2>2, <3>1, LongerOutput DEF ServiceLine, EmitToken
  <2> QED
    BY <1>2, <2>1, <2>2 DEF ServiceLine
<1>3. CASE SaveSession
  <2>1. stream' = stream \/ \E more \in Seq(Piece) : stream' = stream \o more
    BY <1>3, <1>a DEF SaveSession, Emit
  <2> QED
    <3>1. UNCHANGED <<pos, kept, sent, readOnly>> /\ saved' \in BOOLEAN
      BY <1>3 DEF SaveSession
    <3>2. stream' \in Seq(Piece) /\ Len(stream') >= Len(stream) /\ Len(stream') \in Nat
      BY <2>1, LongerOutput
    <3>3. Len(stream) \in Nat
      OBVIOUS
    <3> QED
      BY <3>1, <3>2, <3>3
<1>4. CASE Killed
  <2>1. <<>> \in Seq(Piece) /\ <<<<"cut", 0, 1>>>> \in Seq(Piece)
    BY DEF Piece
  <2> QED
    BY <1>0, <1>4, <2>1 DEF Killed
<1>5. CASE Spawn \/ Interrupt \/ BridgeEnded \/ End
  BY <1>0, <1>5, <1>a DEF Spawn, Interrupt, BridgeEnded, End, Emit
<1>6. ASSUME NEW n \in DOMAIN stream, ReadBlock(n) PROVE TurnTyped'
  <2>1. /\ UNCHANGED <<stream, sent, readOnly, saved>> /\ pos < n /\ pos' = n
        /\ kept' = IF n > kept + Carry THEN AtMost(n - Carry, MaxOutput) ELSE kept
    BY <1>6 DEF ReadBlock
  <2>2. n \in Nat /\ n <= Len(stream) /\ pos \in Nat /\ kept \in Nat /\ kept <= pos
        /\ kept <= MaxOutput /\ Carry \in Nat /\ MaxOutput \in Nat
    BY <1>6
  <2>3. kept' \in Nat /\ kept' <= n /\ kept' <= MaxOutput
    BY <2>1, <2>2 DEF AtMost
  <2> QED
    BY <2>1, <2>2, <2>3
<1>7. CASE EndOfStream \/ CheckRaises
  BY <1>7 DEF EndOfStream, CheckRaises, Flushed, AtMost
<1>8. CASE KillTree \/ Judge
  BY <1>8 DEF KillTree, Judge
<1>9. CASE UNCHANGED ptVars
  BY <1>9 DEF ptVars
<1> QED
  BY <1>1, <1>2, <1>3, <1>4, <1>5, <1>6, <1>7, <1>8, <1>9 DEF PtNext

(* Who exits well has done what is expected of it.                         *)
LEMMA EndedWellStep == TurnTyped /\ EndedWell /\ [PtNext]_ptVars => EndedWell'
<1> SUFFICES ASSUME TurnTyped, EndedWell, [PtNext]_ptVars PROVE EndedWell'
  OBVIOUS
<1> USE DEF EndedWell, TurnTyped, bridge, firebreak, executor, Exit, Alive
<1>1. CASE ReachService \/ ServiceLine
  BY <1>1 DEF ReachService, ServiceLine
<1>2. CASE SaveSession \/ GenerationDone
  BY <1>2 DEF SaveSession, GenerationDone
<1>3. CASE Cancelled \/ Killed
  BY <1>3 DEF Cancelled, Killed
<1>4. CASE Spawn \/ Interrupt
  BY <1>4 DEF Spawn, Interrupt
<1>5. CASE BridgeEnded \/ End
  BY <1>5 DEF BridgeEnded, End
<1>6. CASE (\E n \in DOMAIN stream : ReadBlock(n)) \/ EndOfStream \/ CheckRaises \/ Judge
           \/ UNCHANGED ptVars
  BY <1>6 DEF ReadBlock, EndOfStream, CheckRaises, Judge, ptVars
<1>7. CASE KillTree
  BY <1>7 DEF KillTree
<1> QED
  BY <1>1, <1>2, <1>3, <1>4, <1>5, <1>6, <1>7 DEF PtNext

(* After the end of the stream there is nothing to read.                   *)
LEMMA ReadOutStep == PtInv /\ [PtNext]_ptVars => ReadOut' /\ Judged'
<1> SUFFICES ASSUME PtInv, [PtNext]_ptVars PROVE ReadOut' /\ Judged'
  OBVIOUS
<1> USE DEF PtInv, ReadOut, Judged, EndedWell, bridge, firebreak, executor, Exit, Alive
<1>1. CASE ReachService \/ ServiceLine \/ SaveSession
  BY <1>1 DEF ReachService, ServiceLine, SaveSession
<1>2. CASE GenerationDone \/ Cancelled \/ Killed
  BY <1>2 DEF GenerationDone, Cancelled, Killed
<1>3. CASE Spawn \/ Interrupt \/ BridgeEnded \/ End
  BY <1>3 DEF Spawn, Interrupt, BridgeEnded, End
<1>4. CASE \E n \in DOMAIN stream : ReadBlock(n)
  BY <1>4 DEF ReadBlock
<1>5. CASE EndOfStream \/ CheckRaises
  BY <1>5 DEF EndOfStream, CheckRaises, Flushed
<1>6. CASE KillTree
  BY <1>6 DEF KillTree
<1>7. CASE Judge
  BY <1>7 DEF Judge, Accepted
<1>8. CASE UNCHANGED ptVars
  BY <1>8 DEF ptVars
<1> QED
  BY <1>1, <1>2, <1>3, <1>4, <1>5, <1>6, <1>7, <1>8 DEF PtNext

(* It starts so.                                                           *)
LEMMA TurnStarts == PtInit => PtInv
<1>1. PtInit => TurnTyped
  <2>1. PtInit => stream \in Seq(Piece) /\ Len(stream) = 0
    BY DEF PtInit
  <2>2. MaxOutput \in Nat /\ MaxTokens \in Nat
    BY TurnAssumption
  <2>3. PtInit => /\ pos = 0 /\ kept = 0 /\ sent = 0
                  /\ readOnly \in BOOLEAN /\ saved \in BOOLEAN
    BY DEF PtInit
  <2> QED
    BY <2>1, <2>2, <2>3 DEF TurnTyped
<1>2. PtInit => EndedWell /\ ReadOut /\ Judged
  BY DEF PtInit, EndedWell, ReadOut, Judged
<1> QED
  BY <1>1, <1>2 DEF PtInv

(* A turn counts as complete only if the bridge ended it: its history is   *)
(* saved if it keeps one, both audit records are written, its status is    *)
(* that of success, and what was judged is all that anybody wrote, or as   *)
(* much as the log holds.                                                  *)
THEOREM CompleteIsEnded ==
  PtSpec => [](verdict = "complete" =>
                 /\ bexit = "ok" /\ saved # readOnly /\ recs = {"started", "ended"}
                 /\ pos = Len(stream) /\ (kept < MaxOutput => kept = Len(stream)))
<1>1. PtInit => PtInv
  BY TurnStarts
<1>2. PtInv /\ [PtNext]_ptVars => PtInv'
  BY TurnTypedStep, EndedWellStep, ReadOutStep DEF PtInv
<1>3. PtInv => (verdict = "complete" =>
                 /\ bexit = "ok" /\ saved # readOnly /\ recs = {"started", "ended"}
                 /\ pos = Len(stream) /\ (kept < MaxOutput => kept = Len(stream)))
  BY TurnAssumption DEF PtInv, TurnTyped, EndedWell, ReadOut, Judged, AtMost
<1> QED
  BY <1>1, <1>2, <1>3, PTL DEF PtSpec

-----------------------------------------------------------------------------
(* The log, read piece by piece.  The reading is a function on the pieces  *)
(* that refers to itself, so there must be one for each log, and what it   *)
(* is after a piece is known from what it was before.  The tokens, the     *)
(* event that completes the turn and the lines of the others follow.       *)

(* A set of numbers up to a bound has a least one.                         *)
LEMMA LeastNumber ==
  ASSUME NEW n \in Nat, NEW I \in SUBSET (0..n), I # {}
  PROVE  \E i \in I : \A j \in I : i <= j
<1> DEFINE N == 0..n
           T == {0..i : i \in I}
<1>1. IsWellFoundedOn(StrictSubsetOrdering(N), SUBSET N)
  <2>1. IsFiniteSet(N)
    BY FS_Interval
  <2>2. FiniteSubsetsOf(N) = SUBSET N
    BY <2>1, FS_FiniteSubsetsOfFinite
  <2> QED
    BY <2>1, <2>2, FS_StrictSubsetOrderingWellFounded
<1>2. T \subseteq SUBSET N /\ T # {}
  <2>1. \A i \in I : 0..i \subseteq N
    OBVIOUS
  <2> QED
    BY <2>1
<1>3. PICK x \in T : \A y \in T : ~(<<y, x>> \in StrictSubsetOrdering(N))
  <2> HIDE DEF T, N
  <2> QED
    BY <1>1, <1>2, WFMin
<1>4. PICK i \in I : x = 0..i
  BY <1>3
<1>5. ASSUME NEW j \in I, j < i PROVE FALSE
  <2>1. 0..j \in T /\ 0..j \subseteq 0..i /\ i \in 0..i /\ i \notin 0..j
    BY <1>5
  <2>2. <<0..j, 0..i>> \in StrictSubsetOrdering(N)
    BY <2>1 DEF StrictSubsetOrdering
  <2> QED
    BY <1>3, <1>4, <2>1, <2>2
<1> QED
  BY <1>5

(* Induction up to a bound, for a set instead of a predicate.              *)
LEMMA Stepwise ==
  ASSUME NEW n \in Nat, NEW T, 0 \in T, \A k \in 1..n : k - 1 \in T => k \in T
  PROVE  0..n \subseteq T
<1> DEFINE bad == (0..n) \ T
<1>1. SUFFICES ASSUME bad # {} PROVE FALSE
  OBVIOUS
<1>2. PICK k \in bad : \A j \in bad : k <= j
  BY <1>1, LeastNumber
<1>3. k \in 1..n /\ k - 1 \in 0..n /\ k - 1 \notin bad
  BY <1>2
<1> QED
  BY <1>2, <1>3

(* What is read up to a piece, from what was read before it.               *)
After(a, pieces, i) == IF Whole(pieces, i) THEN Handle(a, pieces[i]) ELSE a

Unfolds(g, pieces, n) ==
  g = [i \in 0..n |-> IF i = 0 THEN Unread ELSE After(g[i - 1], pieces, i)]

(* There is such a reading of every log, so that the definition is one.    *)
LEMMA ReadingExists ==
  ASSUME NEW pieces, NEW n \in Nat
  PROVE  \E g : Unfolds(g, pieces, n)
<1> DEFINE T == {k \in 0..n : \E g : Unfolds(g, pieces, k)}
<1>1. 0 \in T
  <2>1. Unfolds([i \in 0..0 |-> Unread], pieces, 0)
    BY DEF Unfolds
  <2> QED
    BY <2>1
<1>2. ASSUME NEW k \in 1..n, k - 1 \in T PROVE k \in T
  <2>1. PICK g : Unfolds(g, pieces, k - 1)
    BY <1>2
  <2> DEFINE h == [i \in 0..k |-> IF i = k THEN After(g[k - 1], pieces, k) ELSE g[i]]
  <2>2. \A i \in 0..(k - 1) :
          g[i] = IF i = 0 THEN Unread ELSE After(g[i - 1], pieces, i)
    BY <2>1 DEF Unfolds
  <2>3. ASSUME NEW i \in 0..k
        PROVE  h[i] = IF i = 0 THEN Unread ELSE After(h[i - 1], pieces, i)
    <3>1. CASE i = k
      <4>1. h[i] = After(g[k - 1], pieces, k) /\ h[i - 1] = g[k - 1] /\ i # 0
        BY <3>1
      <4> QED
        BY <3>1, <4>1
    <3>2. CASE i # k
      <4>1. i \in 0..(k - 1) /\ h[i] = g[i] /\ (i # 0 => h[i - 1] = g[i - 1])
        BY <3>2
      <4> QED
        BY <2>2, <4>1
    <3> QED
      BY <3>1, <3>2
  <2>4. Unfolds(h, pieces, k)
    <3>1. h = [i \in 0..k |-> h[i]]
      OBVIOUS
    <3> HIDE DEF h
    <3> QED
      BY <2>3, <3>1 DEF Unfolds
  <2> QED
    BY <2>4
<1>3. 0..n \subseteq T
  <2> HIDE DEF T
  <2> QED
    BY <1>1, <1>2, Stepwise
<1> QED
  BY <1>3

(* The reading of a log, piece by piece.                                   *)
LEMMA ReadingUnfolds ==
  ASSUME NEW pieces, Len(pieces) \in Nat
  PROVE  /\ Reading(pieces)[0] = Unread
         /\ \A i \in 1..Len(pieces) :
              Reading(pieces)[i] = After(Reading(pieces)[i - 1], pieces, i)
<1> DEFINE upTo == CHOOSE g : Unfolds(g, pieces, Len(pieces))
<1>1. Reading(pieces) = upTo
  BY DEF Reading, Unfolds, After
<1>2. Unfolds(upTo, pieces, Len(pieces))
  BY ReadingExists
<1>3. upTo = [i \in 0..Len(pieces) |->
                IF i = 0 THEN Unread ELSE After(upTo[i - 1], pieces, i)]
  BY <1>2 DEF Unfolds
<1> HIDE DEF upTo
<1>4. /\ upTo[0] = Unread
      /\ \A i \in 1..Len(pieces) : upTo[i] = After(upTo[i - 1], pieces, i)
  BY <1>3
<1> QED
  BY <1>1, <1>4

(* A piece is heard of only when it ends its line.                         *)
LEMMA HalfALine ==
  ASSUME NEW a, NEW pieces, NEW i \in Nat, NEW e, NEW n, pieces[i] = <<e, n, 1>>
  PROVE  After(a, pieces, i) = a
BY DEF After, Whole

(* Then it is handled.                                                     *)
LEMMA AWholeLine ==
  ASSUME NEW a, NEW pieces, NEW i \in Nat, i > 1, NEW e, NEW n,
         pieces[i - 1] = <<e, n, 1>>, pieces[i] = <<e, n, 2>>
  PROVE  After(a, pieces, i) = Handle(a, <<e, n, 2>>)
<1>1. [<<e, n, 2>> EXCEPT ![3] = 1] = <<e, n, 1>>
  OBVIOUS
<1> QED
  BY <1>1 DEF After, Whole

(* What is carried as a log event leaves the turn as it is.                *)
LEMMA CarriedAlong ==
  ASSUME NEW a, NEW pieces, NEW i,
         pieces[i][1] \notin {"token", "done", "error", "cancelled"}
  PROVE  After(a, pieces, i) = a
BY DEF After, Handle

(* The first tokens, and the turn after them.                              *)
UpTo(n) == [i \in 1..n |-> i]
TokensRead(n) == [tokens |-> UpTo(n), message |-> <<>>, complete |-> FALSE, error |-> FALSE]
TurnRead(n) == Handle(TokensRead(n), <<"done", 0, 2>>)

(* They are a sequence, which the next one is appended to.                 *)
LEMMA UpToIs ==
  ASSUME NEW n \in Nat
  PROVE  /\ UpTo(n) \in Seq(1..n) /\ Len(UpTo(n)) = n
         /\ UpTo(n) = <<>> <=> n = 0
         /\ Append(UpTo(n), n + 1) = UpTo(n + 1)
<1>1. UpTo(n) \in Seq(1..n) /\ Len(UpTo(n)) = n
  BY DEF UpTo
<1>2. UpTo(n) = <<>> <=> n = 0
  BY <1>1, EmptySeq
<1>3. Append(UpTo(n), n + 1) = UpTo(n + 1)
  BY DEF UpTo
<1> QED
  BY <1>1, <1>2, <1>3

(* What an answer has of them.                                             *)
Answered(n) == UpTo(AtMost(n, MaxMessage))

(* It is where the message of the tokens is cut, and is empty only if there*)
(* are none.                                                               *)
LEMMA AnsweredIs ==
  ASSUME NEW n \in Nat
  PROVE  /\ Answered(n) = SubSeq(UpTo(n), 1, AtMost(Len(UpTo(n)), MaxMessage))
         /\ Answered(n) = <<>> <=> n = 0
<1> DEFINE k == AtMost(n, MaxMessage)
<1>1. k \in Nat /\ k <= n /\ (k = 0 <=> n = 0)
  BY TurnAssumption DEF AtMost
<1>2. Len(UpTo(n)) = n
  BY UpToIs
<1>3. Answered(n) = <<>> <=> n = 0
  BY <1>1, UpToIs DEF Answered
<1> HIDE DEF k
<1>4. SubSeq(UpTo(n), 1, k) = [i \in 1..k |-> i]
  BY <1>1 DEF UpTo
<1> QED
  BY <1>2, <1>3, <1>4 DEF Answered, UpTo, k

(* A token is appended; the end makes a message of them.                   *)
LEMMA TokenIsHandled ==
  ASSUME NEW j \in Nat \ {0}
  PROVE  Handle(TokensRead(j - 1), <<"token", j, 2>>) = TokensRead(j)
<1>1. Append(UpTo(j - 1), j) = UpTo(j)
  <2>1. j - 1 \in Nat /\ (j - 1) + 1 = j
    OBVIOUS
  <2> QED
    BY <2>1, UpToIs
<1> QED
  BY <1>1 DEF Handle, TokensRead

(* The end of the stream makes a message of the words.                     *)
LEMMA DoneIsHandled ==
  ASSUME NEW n \in Nat
  PROVE  /\ TurnRead(n).tokens = <<>> /\ TurnRead(n).message = Answered(n)
         /\ TurnRead(n).complete = TRUE /\ TurnRead(n).error = FALSE
<1> DEFINE f == [tokens |-> <<>>, message |-> Answered(n), complete |-> FALSE, error |-> FALSE]
<1>1. UpTo(n) = <<>> <=> n = 0
  BY UpToIs
<1>2. Flush(TokensRead(n)) = f
  <2>1. CASE UpTo(n) = <<>>
    <3>1. n = 0 /\ UpTo(0) = <<>> /\ Answered(0) = <<>>
      BY <1>1, <2>1, AnsweredIs, UpToIs
    <3> QED
      BY <2>1, <3>1 DEF Flush, TokensRead
  <2>2. CASE UpTo(n) # <<>>
    <3>1. SubSeq(UpTo(n), 1, AtMost(Len(UpTo(n)), MaxMessage)) = Answered(n)
      BY AnsweredIs
    <3> HIDE DEF UpTo
    <3> QED
      BY <2>2, <3>1 DEF Flush, TokensRead
  <2> QED
    BY <2>1, <2>2
<1>3. TurnRead(n) = [f EXCEPT !.complete = TRUE]
  BY <1>2 DEF Handle, TurnRead
<1> QED
  BY <1>3

(* A line of the output.                                                   *)
LineAt(i, event, n) == stream[i] = <<event, n, 1>> /\ stream[i + 1] = <<event, n, 2>>

(* What the bridge has written when it has passed on so many tokens.       *)
Generated ==
  /\ Len(stream) >= 2 * sent + 4
  /\ LineAt(1, "started", 0) /\ LineAt(3, "status", 0)
  /\ \A j \in 1..sent : LineAt(2 * j + 3, "token", j)

(* How much that is with the event that ends the turn.                     *)
Before == 2 * sent + (IF readOnly THEN 4 ELSE 6)

Concluded ==
  /\ Generated /\ Len(stream) >= Before
  /\ ~readOnly => LineAt(Before - 1, "ended", 0)

(* All that a bridge says that exits well, and what may come after it.     *)
Reported ==
  /\ Concluded /\ Len(stream) >= Before + 2
  /\ LineAt(Before + 1, "done", 0)
  /\ \A i \in (Before + 3)..Len(stream) : stream[i][1] = "log"

(* Every token that was generated is read, in order.                       *)
LEMMA TokensAreRead ==
  ASSUME Generated, sent \in Nat, Len(stream) \in Nat
  PROVE  Reading(stream)[2 * sent + 4] = TokensRead(sent)
<1> DEFINE R == Reading(stream)
           T == {j \in 0..sent : R[2 * j + 4] = TokensRead(j)}
<1>1. R[0] = Unread /\ \A i \in 1..Len(stream) : R[i] = After(R[i - 1], stream, i)
  BY ReadingUnfolds
<1> HIDE DEF R
<1>2. 0 \in T
  <2>1. 4 <= Len(stream)
    BY DEF Generated
  <2>2. /\ stream[1] = <<"started", 0, 1>> /\ stream[2] = <<"started", 0, 2>>
        /\ stream[3] = <<"status", 0, 1>> /\ stream[4] = <<"status", 0, 2>>
    BY DEF Generated, LineAt
  <2>3. /\ R[1] = After(R[0], stream, 1) /\ R[2] = After(R[1], stream, 2)
        /\ R[3] = After(R[2], stream, 3) /\ R[4] = After(R[3], stream, 4)
    BY <1>1, <2>1
  <2>4. R[1] = R[0] /\ R[2] = R[1] /\ R[3] = R[2] /\ R[4] = R[3]
    BY <2>2, <2>3, CarriedAlong
  <2>5. TokensRead(0) = Unread
    BY UpToIs DEF TokensRead, Unread
  <2> QED
    BY <1>1, <2>4, <2>5
<1>3. ASSUME NEW j \in 1..sent, j - 1 \in T PROVE j \in T
  <2>1. R[2 * j + 2] = TokensRead(j - 1)
    BY <1>3
  <2>2. /\ 2 * j + 3 \in 1..Len(stream) /\ 2 * j + 4 \in 1..Len(stream)
        /\ (2 * j + 3) - 1 = 2 * j + 2 /\ (2 * j + 4) - 1 = 2 * j + 3
    BY DEF Generated
  <2>3. stream[2 * j + 3] = <<"token", j, 1>> /\ stream[2 * j + 4] = <<"token", j, 2>>
    <3>1. LineAt(2 * j + 3, "token", j) /\ (2 * j + 3) + 1 = 2 * j + 4
      BY DEF Generated
    <3> QED
      BY <3>1 DEF LineAt
  <2>4. R[2 * j + 3] = After(R[2 * j + 2], stream, 2 * j + 3)
    BY <1>1, <2>2
  <2>5. R[2 * j + 4] = After(R[2 * j + 3], stream, 2 * j + 4)
    BY <1>1, <2>2
  <2>6. R[2 * j + 3] = TokensRead(j - 1)
    BY <2>1, <2>2, <2>3, <2>4, HalfALine
  <2>7. R[2 * j + 4] = Handle(TokensRead(j - 1), <<"token", j, 2>>)
    BY <2>2, <2>3, <2>5, <2>6, AWholeLine
  <2>9. Handle(TokensRead(j - 1), <<"token", j, 2>>) = TokensRead(j)
    BY TokenIsHandled
  <2> QED
    BY <2>7, <2>9
<1>4. 0..sent \subseteq T
  <2> HIDE DEF T
  <2> QED
    BY <1>2, <1>3, Stepwise
<1> QED
  BY <1>4 DEF R

(* So a turn that was told is complete, and its answer all the tokens.     *)
LEMMA ToldIsComplete ==
  ASSUME Reported, sent \in Nat, readOnly \in BOOLEAN, Len(stream) \in Nat
  PROVE  ParseStream(stream) = TurnRead(sent)
<1> DEFINE R == Reading(stream)
           n == Len(stream) - (Before + 2)
           T == {k \in 0..n : R[Before + 2 + k] = TurnRead(sent)}
<1>1. R[0] = Unread /\ \A i \in 1..Len(stream) : R[i] = After(R[i - 1], stream, i)
  BY ReadingUnfolds
<1>2. R[2 * sent + 4] = TokensRead(sent)
  BY TokensAreRead DEF Reported, Concluded
<1> HIDE DEF R
<1>3. Before \in Nat /\ Before >= 2 * sent + 4 /\ Before + 2 <= Len(stream) /\ n \in Nat
  BY DEF Reported, Before
<1>4. R[Before] = TokensRead(sent)
  <2>1. CASE readOnly
    BY <1>2, <2>1 DEF Before
  <2>2. CASE ~readOnly
    <3>1. Before = 2 * sent + 6 /\ Before - 1 = 2 * sent + 5
      BY <2>2 DEF Before
    <3>2. stream[2 * sent + 5] = <<"ended", 0, 1>> /\ stream[2 * sent + 6] = <<"ended", 0, 2>>
      BY <2>2, <3>1 DEF Reported, Concluded, LineAt
    <3>3. /\ R[2 * sent + 5] = After(R[2 * sent + 4], stream, 2 * sent + 5)
          /\ R[2 * sent + 6] = After(R[2 * sent + 5], stream, 2 * sent + 6)
      <4>1. 2 * sent + 5 \in 1..Len(stream) /\ 2 * sent + 6 \in 1..Len(stream)
        BY <1>3, <3>1
      <4> QED
        BY <1>1, <4>1
    <3>0. stream[2 * sent + 5][1] = "ended" /\ stream[2 * sent + 6][1] = "ended"
      BY <3>2
    <3>4. R[2 * sent + 5] = R[2 * sent + 4]
      BY <3>0, <3>3, CarriedAlong
    <3>5. R[2 * sent + 6] = R[2 * sent + 5]
      BY <3>0, <3>3, CarriedAlong
    <3> QED
      BY <1>2, <3>1, <3>4, <3>5
  <2> QED
    BY <2>1, <2>2
<1>5. R[Before + 2] = TurnRead(sent)
  <2>1. stream[Before + 1] = <<"done", 0, 1>> /\ stream[Before + 2] = <<"done", 0, 2>>
    BY <1>3 DEF Reported, LineAt
  <2>2. /\ R[Before + 1] = After(R[Before], stream, Before + 1)
        /\ R[Before + 2] = After(R[Before + 1], stream, Before + 2)
    <3>1. /\ Before + 1 \in 1..Len(stream) /\ Before + 2 \in 1..Len(stream)
          /\ (Before + 1) - 1 = Before /\ (Before + 2) - 1 = Before + 1
      BY <1>3
    <3> QED
      BY <1>1, <3>1
  <2>3. R[Before + 1] = TokensRead(sent)
    <3>1. Before + 1 \in Nat
      BY <1>3
    <3>2. After(R[Before], stream, Before + 1) = R[Before]
      BY <2>1, <3>1, HalfALine
    <3> QED
      BY <1>4, <2>2, <3>2
  <2>4. R[Before + 2] = Handle(TokensRead(sent), <<"done", 0, 2>>)
    <3>1. /\ Before + 2 \in Nat /\ Before + 2 > 1 /\ (Before + 2) - 1 = Before + 1
      BY <1>3
    <3> QED
      BY <2>1, <2>2, <2>3, <3>1, AWholeLine
  <2> QED
    BY <2>4 DEF TurnRead
<1>6. 0 \in T
  BY <1>3, <1>5
<1>7. ASSUME NEW k \in 1..n, k - 1 \in T PROVE k \in T
  <2>1. /\ Before + 2 + k \in (Before + 3)..Len(stream) /\ Before + 2 + k \in 1..Len(stream)
        /\ (Before + 2 + k) - 1 = Before + 2 + (k - 1)
    BY <1>3
  <2>2. stream[Before + 2 + k][1] = "log"
    BY <2>1 DEF Reported
  <2>3. R[Before + 2 + k] = After(R[Before + 2 + (k - 1)], stream, Before + 2 + k)
    BY <1>1, <2>1
  <2>4. R[Before + 2 + k] = R[Before + 2 + (k - 1)]
    BY <2>2, <2>3, CarriedAlong
  <2> QED
    BY <1>7, <2>4
<1>8. n \in T
  <2> HIDE DEF T, n
  <2>1. 0..n \subseteq T
    BY <1>3, <1>6, <1>7, Stepwise
  <2> QED
    BY <1>3, <2>1
<1>9. R[Len(stream)] = TurnRead(sent)
  BY <1>3, <1>8
<1> QED
  BY <1>9, DoneIsHandled DEF ParseStream, Ending, R

(* Where the bridge is, and what it has written so far.                    *)
InOrder ==
  /\ bpc = "none" => sent = 0 /\ (fpc # "exited" => stream = <<>>)
  /\ bpc = "start" => stream = <<>> /\ sent = 0
  /\ bpc = "ask" => stream = Line("started", 0) /\ sent = 0
  /\ bpc \in {"read", "save"} => Generated /\ Len(stream) = 2 * sent + 4
  /\ bpc = "finish" => Concluded /\ Len(stream) = Before
  /\ bpc = "return" => Reported /\ Len(stream) = Before + 2
  /\ bexit = "ok" => Reported

(* Nobody disturbs a turn that is not interrupted.                         *)
Untouched ==
  opc \in {"read", "judge"} \/ verdict \in {"failed", "complete"} =>
    /\ signalled = {} /\ (Alive => fpc = "wait")
    /\ bexit = "ok" /\ fpc \in {"end", "exited"} => fexit = "ok"

(* When no more is read, what was held back has been written.              *)
HeldBack == opc # "read" => kept = AtMost(pos, MaxOutput)

JudgedWhole ==
  kept < MaxOutput =>
    /\ verdict = "complete" => answer = Answered(sent)
    /\ verdict = "failed" => bexit # "ok" \/ (readOnly /\ sent = 0)

WholeInv == InOrder /\ Untouched /\ HeldBack /\ JudgedWhole

(* A line that is written ends the output, and changes nothing before it.  *)
LEMMA Appended ==
  ASSUME NEW e, NEW n, stream \in Seq(Piece), stream' = stream \o Line(e, n)
  PROVE  /\ Len(stream') = Len(stream) + 2 /\ Len(stream) \in Nat /\ Len(stream') \in Nat
         /\ \A i \in 1..Len(stream) : stream'[i] = stream[i]
         /\ stream'[Len(stream) + 1] = <<e, n, 1>> /\ stream'[Len(stream) + 2] = <<e, n, 2>>
<1>1. /\ Len(Line(e, n)) = 2 /\ Line(e, n)[1] = <<e, n, 1>> /\ Line(e, n)[2] = <<e, n, 2>>
  BY DEF Line
<1>2. Len(stream \o Line(e, n)) = Len(stream) + 2 /\ Len(stream) \in Nat
  BY <1>1 DEF Line
<1>3. \A i \in 1..(Len(stream) + 2) :
        (stream \o Line(e, n))[i] = IF i <= Len(stream) THEN stream[i]
                                   ELSE Line(e, n)[i - Len(stream)]
  <2> DEFINE S == Piece \cup {<<e, n, 1>>, <<e, n, 2>>}
  <2>1. stream \in Seq(S)
    BY SeqMonotonic
  <2>2. Line(e, n) \in Seq(S)
    BY DEF Line
  <2> HIDE DEF S
  <2> QED
    BY <1>1, <2>1, <2>2, ConcatProperties
<1>4. /\ (stream \o Line(e, n))[Len(stream) + 1] = Line(e, n)[1]
      /\ (stream \o Line(e, n))[Len(stream) + 2] = Line(e, n)[2]
  BY <1>2, <1>3
<1>5. \A i \in 1..Len(stream) : (stream \o Line(e, n))[i] = stream[i]
  BY <1>2, <1>3
<1> QED
  BY <1>1, <1>2, <1>4, <1>5

(* What was said stays said.                                               *)
LEMMA SaidIsSaid ==
  ASSUME sent \in Nat, readOnly \in BOOLEAN, Len(stream) \in Nat, Len(stream') \in Nat,
         sent' = sent, readOnly' = readOnly, Len(stream') >= Len(stream),
         \A i \in 1..Len(stream) : stream'[i] = stream[i]
  PROVE  /\ Before' = Before
         /\ Generated => Generated'
         /\ Concluded => Concluded'
         /\ Reported /\ (\A i \in (Len(stream) + 1)..Len(stream') : stream'[i][1] = "log")
              => Reported'
<1>1. Before' = Before /\ Before \in Nat /\ Before >= 2 * sent + 4
  BY DEF Before
<1>2. ASSUME NEW i \in Nat, i >= 1, i + 1 <= Len(stream), NEW e, NEW n, LineAt(i, e, n)
      PROVE  LineAt(i, e, n)'
  <2>1. i \in 1..Len(stream) /\ i + 1 \in 1..Len(stream)
    BY <1>2
  <2>2. stream'[i] = stream[i] /\ stream'[i + 1] = stream[i + 1]
    BY <2>1
  <2> QED
    BY <1>2, <2>2 DEF LineAt
<1>3. ASSUME Generated PROVE Generated'
  <2>1. Len(stream) >= 4 /\ LineAt(1, "started", 0) /\ LineAt(3, "status", 0)
    BY <1>3 DEF Generated
  <2>2. LineAt(1, "started", 0)' /\ LineAt(3, "status", 0)'
    BY <1>2, <2>1
  <2>3. ASSUME NEW j \in 1..sent PROVE LineAt(2 * j + 3, "token", j)'
    <3>1. LineAt(2 * j + 3, "token", j)
      BY <1>3 DEF Generated
    <3>2. 2 * j + 3 \in Nat /\ 2 * j + 3 >= 1 /\ (2 * j + 3) + 1 <= Len(stream)
      BY <1>3 DEF Generated
    <3> QED
      BY <1>2, <3>1, <3>2
  <2> QED
    BY <1>3, <2>2, <2>3 DEF Generated
<1>4. ASSUME Concluded PROVE Concluded'
  <2>1. ~readOnly => LineAt(Before - 1, "ended", 0)'
    <3>1. Before - 1 \in Nat /\ Before - 1 >= 1 /\ (Before - 1) + 1 <= Len(stream)
      BY <1>1, <1>4 DEF Concluded
    <3>2. ~readOnly => LineAt(Before - 1, "ended", 0)
      BY <1>4 DEF Concluded
    <3>3. SUFFICES ASSUME ~readOnly
                   PROVE  /\ stream'[Before - 1] = <<"ended", 0, 1>>
                          /\ stream'[(Before - 1) + 1] = <<"ended", 0, 2>>
      BY <1>1 DEF LineAt
    <3> QED
      BY <1>1, <3>1, <3>2, <3>3 DEF LineAt
  <2> QED
    BY <1>1, <1>3, <1>4, <2>1 DEF Concluded
<1>5. ASSUME Reported, \A i \in (Len(stream) + 1)..Len(stream') : stream'[i][1] = "log"
      PROVE  Reported'
  <2>1. Concluded'
    BY <1>4, <1>5 DEF Reported
  <2>2. LineAt(Before + 1, "done", 0)'
    <3>1. Before + 1 \in Nat /\ Before + 1 >= 1 /\ (Before + 1) + 1 <= Len(stream)
      BY <1>1, <1>5 DEF Reported
    <3>2. LineAt(Before + 1, "done", 0)
      BY <1>5 DEF Reported
    <3>3. SUFFICES /\ stream'[Before + 1] = <<"done", 0, 1>>
                   /\ stream'[(Before + 1) + 1] = <<"done", 0, 2>>
      BY <1>1 DEF LineAt
    <3> QED
      BY <1>1, <3>1, <3>2 DEF LineAt
  <2>3. ASSUME NEW i \in (Before + 3)..Len(stream') PROVE stream'[i][1] = "log"
    <3>1. CASE i <= Len(stream)
      BY <1>1, <1>5, <3>1 DEF Reported
    <3>2. CASE i > Len(stream)
      BY <1>1, <1>5, <3>2
    <3> QED
      BY <1>1, <3>1, <3>2
  <2>4. Len(stream') >= Before + 2
    BY <1>1, <1>5 DEF Reported
  <2> QED
    BY <1>1, <2>1, <2>2, <2>3, <2>4 DEF Reported
<1> QED
  BY <1>1, <1>3, <1>4, <1>5

(* What the bridge starts with.                                            *)
LEMMA StartedIsSaid ==
  ASSUME sent' = 0, stream' = Line("started", 0) \o Line("status", 0)
  PROVE  Generated' /\ Len(stream') = 4
<1>1. /\ Len(stream') = 4
      /\ stream'[1] = <<"started", 0, 1>> /\ stream'[2] = <<"started", 0, 2>>
      /\ stream'[3] = <<"status", 0, 1>> /\ stream'[4] = <<"status", 0, 2>>
  BY DEF Line
<1> QED
  BY <1>1 DEF Generated, LineAt

(* A token that is passed on.                                              *)
LEMMA TokenIsSaid ==
  ASSUME TurnTyped, Generated, Len(stream) = 2 * sent + 4, sent' = sent + 1,
         EmitToken(sent + 1)
  PROVE  Generated' /\ Len(stream') = 2 * sent' + 4
<1>1. sent \in Nat /\ stream \in Seq(Piece)
  BY TurnAssumption DEF TurnTyped
<1>2. /\ Len(stream') = Len(stream) + 2
      /\ \A i \in 1..Len(stream) : stream'[i] = stream[i]
      /\ stream'[Len(stream) + 1] = <<"token", sent + 1, 1>>
      /\ stream'[Len(stream) + 2] = <<"token", sent + 1, 2>>
  BY <1>1, Appended DEF EmitToken
<1>3. Len(stream') = 2 * sent' + 4
  <2>1. Len(stream') = Len(stream) + 2 /\ sent \in Nat
    BY <1>1, <1>2
  <2> QED
    BY <2>1
<1>4. /\ stream'[1] = <<"started", 0, 1>> /\ stream'[2] = <<"started", 0, 2>>
      /\ stream'[3] = <<"status", 0, 1>> /\ stream'[4] = <<"status", 0, 2>>
  BY <1>1, <1>2 DEF Generated, LineAt
<1>5. ASSUME NEW j \in 1..(sent + 1)
      PROVE  /\ stream'[2 * j + 3] = <<"token", j, 1>>
             /\ stream'[(2 * j + 3) + 1] = <<"token", j, 2>>
  <2>1. CASE j <= sent
    <3>1. LineAt(2 * j + 3, "token", j)
      BY <1>1, <2>1 DEF Generated
    <3>2. 2 * j + 3 \in 1..Len(stream) /\ (2 * j + 3) + 1 \in 1..Len(stream)
      BY <1>1, <2>1
    <3> QED
      BY <1>2, <3>1, <3>2 DEF LineAt
  <2>2. CASE j = sent + 1
    <3>1. 2 * j + 3 = Len(stream) + 1 /\ (2 * j + 3) + 1 = Len(stream) + 2
      BY <1>1, <2>2
    <3> QED
      BY <1>2, <2>2, <3>1
  <2> QED
    BY <1>1, <2>1, <2>2
<1> QED
  <2>1. LineAt(1, "started", 0)' /\ LineAt(3, "status", 0)'
    BY <1>4 DEF LineAt
  <2>2. \A j \in 1..(sent + 1) : LineAt(2 * j + 3, "token", j)'
    BY <1>5 DEF LineAt
  <2>3. Len(stream') >= 2 * sent' + 4
    BY <1>1, <1>3
  <2> QED
    BY <1>3, <2>1, <2>2, <2>3 DEF Generated

(* The history is saved, and the turn ended in the output.                 *)
LEMMA EndedIsSaid ==
  ASSUME TurnTyped, Generated, Len(stream) = 2 * sent + 4, sent' = sent, readOnly' = readOnly,
         IF readOnly THEN stream' = stream ELSE Emit("ended")
  PROVE  Concluded' /\ Len(stream') = Before'
<1>1. sent \in Nat /\ stream \in Seq(Piece) /\ readOnly \in BOOLEAN /\ Len(stream) \in Nat
  BY TurnAssumption DEF TurnTyped
<1>2. CASE readOnly
  <2>1. Generated' /\ Before' = 2 * sent + 4
    BY <1>1, <1>2, SaidIsSaid DEF Before
  <2> QED
    BY <1>2, <2>1 DEF Concluded
<1>3. CASE ~readOnly
  <2>1. /\ Len(stream') = Len(stream) + 2 /\ Len(stream') \in Nat
        /\ \A i \in 1..Len(stream) : stream'[i] = stream[i]
        /\ stream'[Len(stream) + 1] = <<"ended", 0, 1>>
        /\ stream'[Len(stream) + 2] = <<"ended", 0, 2>>
    BY <1>1, <1>3, Appended DEF Emit
  <2>2. Generated' /\ Before' = 2 * sent + 6
    BY <1>1, <1>3, <2>1, SaidIsSaid DEF Before
  <2>3. Before' - 1 = Len(stream) + 1 /\ (Before' - 1) + 1 = Len(stream) + 2
    BY <1>1, <2>2
  <2>4. LineAt(Before - 1, "ended", 0)'
    BY <2>1, <2>3 DEF LineAt
  <2> QED
    BY <1>1, <1>3, <2>1, <2>2, <2>4 DEF Concluded
<1> QED
  BY <1>2, <1>3

(* The event that completes it.                                            *)
LEMMA DoneIsSaid ==
  ASSUME TurnTyped, Concluded, Len(stream) = Before, sent' = sent, readOnly' = readOnly,
         Emit("done")
  PROVE  Reported' /\ Len(stream') = Before' + 2
<1>1. sent \in Nat /\ stream \in Seq(Piece) /\ readOnly \in BOOLEAN /\ Len(stream) \in Nat
  BY TurnAssumption DEF TurnTyped
<1>2. /\ Len(stream') = Len(stream) + 2 /\ Len(stream') \in Nat
      /\ \A i \in 1..Len(stream) : stream'[i] = stream[i]
      /\ stream'[Len(stream) + 1] = <<"done", 0, 1>>
      /\ stream'[Len(stream) + 2] = <<"done", 0, 2>>
  BY <1>1, Appended DEF Emit
<1>3. Concluded' /\ Before' = Before
  BY <1>1, <1>2, SaidIsSaid
<1>4. (Before + 1) + 1 = Len(stream) + 2 /\ Before + 1 = Len(stream) + 1
  BY <1>1
<1>5. LineAt(Before + 1, "done", 0)'
  BY <1>2, <1>3, <1>4 DEF LineAt
<1> QED
  BY <1>1, <1>2, <1>3, <1>5 DEF Reported

(* What others write comes after the bridge: they are log lines.           *)
LEMMA LogIsSaid ==
  ASSUME TurnTyped, Reported, sent' = sent, readOnly' = readOnly, Emit("log")
  PROVE  Reported'
<1>1. sent \in Nat /\ stream \in Seq(Piece) /\ readOnly \in BOOLEAN /\ Len(stream) \in Nat
  BY TurnAssumption DEF TurnTyped
<1>2. /\ Len(stream') = Len(stream) + 2 /\ Len(stream') \in Nat
      /\ \A i \in 1..Len(stream) : stream'[i] = stream[i]
      /\ stream'[Len(stream) + 1] = <<"log", 0, 1>>
      /\ stream'[Len(stream) + 2] = <<"log", 0, 2>>
  BY <1>1, Appended DEF Emit
<1>3. \A i \in (Len(stream) + 1)..Len(stream') : stream'[i][1] = "log"
  BY <1>1, <1>2
<1> QED
  BY <1>1, <1>2, <1>3, SaidIsSaid

(* The bridge says everything, and in order.                               *)
LEMMA InOrderStep == PtInv /\ InOrder /\ [PtNext]_ptVars => InOrder'
<1> SUFFICES ASSUME PtInv, InOrder, [PtNext]_ptVars PROVE InOrder'
  OBVIOUS
<1> USE DEF bridge, firebreak, executor
<1>1. /\ sent \in Nat /\ stream \in Seq(Piece) /\ readOnly \in BOOLEAN /\ Len(stream) \in Nat
      /\ TurnTyped /\ (bexit = "ok" => bpc = "exited")
      /\ fpc \in {"start", "spawn"} => bpc = "none"
  BY TurnAssumption DEF PtInv, TurnTyped, EndedWell
<1>2. ASSUME UNCHANGED <<stream, sent, readOnly>>
      PROVE  /\ UNCHANGED <<Generated, Concluded, Reported, Before>>
  BY <1>2 DEF Generated, Concluded, Reported, Before, LineAt
<1>3. ASSUME bpc' = "exited", bexit' # "ok" PROVE InOrder'
  BY <1>3 DEF InOrder
<1>4. CASE ReachService
  <2>1. CASE bpc = "start" /\ Emit("started") /\ bpc' = "ask" /\ UNCHANGED bexit
    <3>1. stream' = Line("started", 0) /\ sent' = 0 /\ bexit' # "ok"
      BY <1>1, <1>4, <2>1 DEF InOrder, ReachService, Emit, Line
    <3> QED
      BY <2>1, <3>1 DEF InOrder
  <2>2. CASE bpc = "ask" /\ Emit("status") /\ bpc' = "read" /\ UNCHANGED bexit
    <3>1. stream' = Line("started", 0) \o Line("status", 0) /\ sent' = 0 /\ bexit' # "ok"
      BY <1>1, <1>4, <2>2 DEF InOrder, ReachService, Emit
    <3>2. Generated' /\ Len(stream') = 2 * sent' + 4
      BY <3>1, StartedIsSaid
    <3> QED
      BY <2>2, <3>1, <3>2 DEF InOrder
  <2> QED
    BY <1>3, <1>4, <2>1, <2>2 DEF ReachService, Exit
<1>5. CASE ServiceLine
  <2>1. bpc = "read" /\ Generated /\ Len(stream) = 2 * sent + 4 /\ bexit # "ok"
    BY <1>1, <1>5 DEF ServiceLine, InOrder
  <2>2. CASE sent < MaxTokens /\ sent' = sent + 1 /\ EmitToken(sent + 1) /\ UNCHANGED <<bpc, bexit>>
    <3>1. Generated' /\ Len(stream') = 2 * sent' + 4
      BY <1>1, <2>1, <2>2, TokenIsSaid
    <3> QED
      BY <2>1, <2>2, <3>1 DEF InOrder
  <2>3. CASE bpc' = "save" /\ UNCHANGED <<stream, sent, bexit>>
    BY <1>2, <1>5, <2>1, <2>3 DEF ServiceLine, InOrder
  <2> QED
    BY <1>3, <1>5, <2>2, <2>3 DEF ServiceLine, Exit
<1>6. CASE SaveSession
  <2>1. bpc = "save" /\ Generated /\ Len(stream) = 2 * sent + 4 /\ bexit # "ok"
    BY <1>1, <1>6 DEF SaveSession, InOrder
  <2>2. Concluded' /\ Len(stream') = Before'
    BY <1>1, <1>6, <2>1, EndedIsSaid DEF SaveSession
  <2> QED
    BY <1>6, <2>1, <2>2 DEF SaveSession, InOrder
<1>7. CASE GenerationDone
  <2>1. CASE bpc = "finish" /\ Emit("done") /\ bpc' = "return" /\ UNCHANGED bexit
    <3>1. Reported' /\ Len(stream') = Before' + 2
      BY <1>1, <1>7, <2>1, DoneIsSaid DEF GenerationDone, InOrder
    <3> QED
      BY <2>1, <3>1 DEF InOrder
  <2>2. CASE bpc = "return" /\ Exit("ok") /\ UNCHANGED stream
    BY <1>2, <1>7, <2>2 DEF GenerationDone, InOrder, Exit
  <2> QED
    BY <1>7, <2>1, <2>2 DEF GenerationDone
<1>8. CASE Cancelled \/ Killed
  BY <1>3, <1>8 DEF Cancelled, Killed, Exit
<1>9. ASSUME UNCHANGED <<stream, bpc, bexit, sent, readOnly>>, fpc = "exited" => fpc' = "exited"
      PROVE  InOrder'
  BY <1>2, <1>9 DEF InOrder
<1>10. CASE Spawn
  <2>1. CASE fpc = "start" /\ Emit("log") /\ fpc' = "exited" /\ fexit' = "error"
               /\ UNCHANGED <<bpc, recs>>
    BY <1>1, <1>10, <2>1 DEF Spawn, InOrder
  <2>2. CASE fpc = "spawn" /\ fpc' = "wait" /\ bpc' = "start" /\ UNCHANGED <<stream, fexit, recs>>
    BY <1>1, <1>10, <2>2 DEF Spawn, InOrder
  <2> QED
    BY <1>9, <1>10, <2>1, <2>2 DEF Spawn
<1>11. CASE Interrupt \/ BridgeEnded
  BY <1>9, <1>11 DEF Interrupt, BridgeEnded
<1>12. CASE End
  <2>1. bexit = "ok" => Reported'
    BY <1>1, <1>12, LogIsSaid DEF End, InOrder
  <2> QED
    BY <1>12, <2>1 DEF End, InOrder, Alive
<1>13. CASE (\E n \in DOMAIN stream : ReadBlock(n)) \/ EndOfStream \/ CheckRaises \/ Judge
            \/ UNCHANGED ptVars
  BY <1>9, <1>13 DEF ReadBlock, EndOfStream, CheckRaises, Judge, ptVars
<1>14. CASE KillTree
  BY <1>3, <1>9, <1>14 DEF KillTree, Exit
<1> QED
  BY <1>4, <1>5, <1>6, <1>7, <1>8, <1>10, <1>11, <1>12, <1>13, <1>14 DEF PtNext

(* A turn that nobody interrupts ends as its bridge did.                   *)
LEMMA UntouchedStep == PtInv /\ Untouched /\ [PtNext]_ptVars => Untouched'
<1> SUFFICES ASSUME PtInv, Untouched, [PtNext]_ptVars PROVE Untouched'
  OBVIOUS
<1> USE DEF PtInv, Untouched, Judged, EndedWell, bridge, firebreak, executor, Exit, Alive
<1>1. CASE ReachService \/ ServiceLine \/ SaveSession
  BY <1>1 DEF ReachService, ServiceLine, SaveSession
<1>2. CASE GenerationDone \/ Cancelled \/ Killed
  BY <1>2 DEF GenerationDone, Cancelled, Killed
<1>3. CASE Spawn \/ Interrupt
  BY <1>3 DEF Spawn, Interrupt
<1>4. CASE BridgeEnded \/ End
  BY <1>4 DEF BridgeEnded, End
<1>5. CASE (\E n \in DOMAIN stream : ReadBlock(n)) \/ EndOfStream \/ CheckRaises \/ Judge
           \/ UNCHANGED ptVars
  BY <1>5 DEF ReadBlock, EndOfStream, CheckRaises, Judge, ptVars
<1>6. CASE KillTree
  BY <1>6 DEF KillTree
<1> QED
  BY <1>1, <1>2, <1>3, <1>4, <1>5, <1>6 DEF PtNext

(* The log is as long as it gets when the reading stops.                   *)
LEMMA HeldBackStep == HeldBack /\ [PtNext]_ptVars => HeldBack'
<1> SUFFICES ASSUME HeldBack, [PtNext]_ptVars PROVE HeldBack'
  OBVIOUS
<1> USE DEF HeldBack, bridge, firebreak, executor
<1>1. CASE ReachService \/ ServiceLine \/ SaveSession \/ GenerationDone \/ Cancelled \/ Killed
  BY <1>1 DEF ReachService, ServiceLine, SaveSession, GenerationDone, Cancelled, Killed
<1>2. CASE Spawn \/ Interrupt \/ BridgeEnded \/ End \/ UNCHANGED ptVars
  BY <1>2 DEF Spawn, Interrupt, BridgeEnded, End, ptVars
<1>3. CASE (\E n \in DOMAIN stream : ReadBlock(n)) \/ EndOfStream \/ CheckRaises
  BY <1>3 DEF ReadBlock, EndOfStream, CheckRaises, Flushed
<1>4. CASE KillTree \/ Judge
  BY <1>4 DEF KillTree, Judge
<1> QED
  BY <1>1, <1>2, <1>3, <1>4 DEF PtNext

(* A log that is not full is the whole output.                             *)
LEMMA LogIsWhole ==
  ASSUME stream \in Seq(Piece), pos = Len(stream), kept = pos, kept < MaxOutput
  PROVE  Log = stream
<1>1. SubSeq(stream, 1, Len(stream)) = stream
  OBVIOUS
<1> QED
  BY <1>1 DEF Log

(* What a turn is judged to be is what it was.                             *)
LEMMA JudgeIsRight ==
  ASSUME PtInv, WholeInv, Judge, kept < MaxOutput
  PROVE  /\ verdict' = "complete" => answer' = Answered(sent)
         /\ verdict' = "failed" => bexit # "ok" \/ (readOnly /\ sent = 0)
<1>1. /\ sent \in Nat /\ stream \in Seq(Piece) /\ readOnly \in BOOLEAN /\ Len(stream) \in Nat
      /\ pos \in Nat /\ MaxOutput \in Nat
  BY TurnAssumption DEF PtInv, TurnTyped
<1>2. /\ opc = "judge" /\ fpc = "exited" /\ pos = Len(stream) /\ kept = pos
  BY <1>1 DEF Judge, PtInv, ReadOut, AtMost
<1>3. CASE bexit = "ok"
  <2>1. ParseStream(Log) = TurnRead(sent)
    BY <1>1, <1>2, <1>3, LogIsWhole, ToldIsComplete DEF WholeInv, InOrder
  <2>2. fexit = "ok"
    BY <1>2, <1>3 DEF WholeInv, Untouched
  <2>3. /\ TurnRead(sent).message = Answered(sent) /\ (Answered(sent) = <<>> <=> sent = 0)
        /\ TurnRead(sent).complete = TRUE /\ TurnRead(sent).error = FALSE
    BY <1>1, DoneIsHandled, AnsweredIs
  <2>4. Accepted(TurnRead(sent))
    BY <2>2, <2>3 DEF Accepted
  <2> HIDE DEF TurnRead, Answered
  <2>5. CASE readOnly => Answered(sent) # <<>>
    BY <2>1, <2>3, <2>4, <2>5 DEF Judge
  <2>6. CASE readOnly /\ Answered(sent) = <<>>
    BY <2>1, <2>3, <2>4, <2>6 DEF Judge
  <2> QED
    BY <2>5, <2>6
<1>4. CASE bexit # "ok"
  <2>1. fexit # "ok"
    BY <1>4 DEF PtInv, EndedWell
  <2> QED
    BY <1>4, <2>1 DEF Judge, Accepted
<1> QED
  BY <1>3, <1>4

(* And stays, since nothing happens after it.                              *)
LEMMA JudgedWholeStep == PtInv /\ WholeInv /\ [PtNext]_ptVars => JudgedWhole'
<1> SUFFICES ASSUME PtInv, WholeInv, [PtNext]_ptVars PROVE JudgedWhole'
  OBVIOUS
<1> USE DEF bridge, firebreak, executor
<1>1. CASE Judge
  <2>1. kept' = kept /\ sent' = sent /\ bexit' = bexit /\ readOnly' = readOnly
    BY <1>1 DEF Judge
  <2>2. Answered(sent)' = Answered(sent)
    BY <2>1 DEF UpTo, Answered
  <2> QED
    BY <1>1, <2>1, <2>2, JudgeIsRight DEF JudgedWhole
<1>2. CASE verdict' \notin {"complete", "failed"}
  BY <1>2 DEF JudgedWhole
<1>3. CASE UNCHANGED ptVars
  BY <1>3 DEF ptVars, JudgedWhole, WholeInv, UpTo, Answered
<1>4. ASSUME verdict \in {"complete", "failed"}
      PROVE  fpc = "exited" /\ ~Alive /\ opc = "over"
  BY <1>4 DEF PtInv, ReadOut, Judged
<1>5. CASE ReachService \/ ServiceLine \/ SaveSession \/ GenerationDone \/ Cancelled \/ Killed
  BY <1>2, <1>4, <1>5 DEF ReachService, ServiceLine, SaveSession, GenerationDone, Cancelled, Killed,
     Alive
<1>6. CASE Spawn \/ Interrupt \/ BridgeEnded \/ End
  BY <1>2, <1>4, <1>6 DEF Spawn, Interrupt, BridgeEnded, End
<1>7. CASE (\E n \in DOMAIN stream : ReadBlock(n)) \/ EndOfStream \/ CheckRaises \/ KillTree
  BY <1>2, <1>4, <1>7 DEF ReadBlock, EndOfStream, CheckRaises, KillTree
<1> QED
  BY <1>1, <1>2, <1>3, <1>5, <1>6, <1>7 DEF PtNext

(* As long as the log is not full, it is all that was read, however the    *)
(* turn ended; a turn counts as complete exactly when the bridge ended it, *)
(* and its answer is every token, in order, up to the one where any answer *)
(* is cut.                                                                 *)
THEOREM TurnIsReadWholeHolds == PtSpec => []TurnIsReadWhole
<1>1. PtInit => PtInv /\ WholeInv
  <2>1. PtInit => WholeInv
    BY DEF PtInit, WholeInv, InOrder, Untouched, HeldBack, JudgedWhole, Alive
  <2> QED
    BY <2>1, TurnStarts
<1>2. PtInv /\ WholeInv /\ [PtNext]_ptVars => PtInv' /\ WholeInv'
  BY TurnTypedStep, EndedWellStep, ReadOutStep, InOrderStep, UntouchedStep, HeldBackStep,
     JudgedWholeStep DEF PtInv, WholeInv
<1>3. PtInv /\ WholeInv => TurnIsReadWhole
  <2>1. SUFFICES ASSUME PtInv, WholeInv, opc = "over", kept < MaxOutput
                 PROVE  /\ kept = pos
                        /\ verdict = "complete" => bexit = "ok" /\ answer = Answered(sent)
                        /\ verdict = "failed" => bexit # "ok" \/ (readOnly /\ sent = 0)
    BY DEF TurnIsReadWhole, UpTo, Answered
  <2>2. kept = pos
    BY <2>1, TurnAssumption DEF PtInv, TurnTyped, WholeInv, HeldBack, AtMost
  <2>3. verdict = "complete" => bexit = "ok"
    BY <2>1 DEF PtInv, Judged, EndedWell
  <2> QED
    BY <2>1, <2>2, <2>3 DEF WholeInv, JudgedWhole
<1> QED
  BY <1>1, <1>2, <1>3, PTL DEF PtSpec

(* What a piece of a log may be: the tokens are numbered.                  *)
LogPiece == {p \in Piece \cup {Note} : p[1] = "token" => p[2] \in 1..MaxTokens}

Turns == [tokens : Seq(1..MaxTokens), message : Seq(1..MaxTokens),
          complete : BOOLEAN, error : BOOLEAN]

(* What is cut off leaves a sequence of tokens.                            *)
LEMMA CutTyped ==
  ASSUME NEW S, NEW t \in Seq(S)
  PROVE  SubSeq(t, 1, AtMost(Len(t), MaxMessage)) \in Seq(S)
<1> DEFINE k == AtMost(Len(t), MaxMessage)
<1>1. k \in Nat /\ k <= Len(t)
  BY TurnAssumption DEF AtMost
<1> HIDE DEF k
<1>2. \A i \in 1..k : t[i] \in S
  BY <1>1, LenProperties
<1>3. 1 \in Int /\ k \in Int
  BY <1>1
<1>4. SubSeq(t, 1, k) \in Seq(S)
  BY <1>2, <1>3, SubSeqProperties
<1> QED
  BY <1>4 DEF k

(* Whatever is read is a turn.                                             *)
LEMMA FlushTyped == ASSUME NEW a \in Turns PROVE Flush(a) \in Turns
<1>1. CASE a.tokens = <<>>
  BY <1>1 DEF Flush
<1>2. CASE a.tokens # <<>>
  <2> DEFINE t == a.tokens
             m == SubSeq(t, 1, AtMost(Len(t), MaxMessage))
  <2>1. Flush(a) = [tokens |-> <<>>, message |-> m, complete |-> a.complete, error |-> a.error]
    BY <1>2 DEF Flush
  <2>2. t \in Seq(1..MaxTokens) /\ a.complete \in BOOLEAN /\ a.error \in BOOLEAN
    BY DEF Turns
  <2>3. m \in Seq(1..MaxTokens)
    BY <2>2, CutTyped
  <2>4. <<>> \in Seq(1..MaxTokens)
    OBVIOUS
  <2> HIDE DEF m
  <2> QED
    BY <2>1, <2>2, <2>3, <2>4 DEF Turns
<1> QED
  BY <1>1, <1>2

(* One with its end marked is one.                                         *)
LEMMA SetTyped ==
  ASSUME NEW a \in Turns
  PROVE  [a EXCEPT !.complete = TRUE] \in Turns /\ [a EXCEPT !.error = TRUE] \in Turns
BY DEF Turns

(* So is what an event makes of one.                                       *)
LEMMA HandleTyped ==
  ASSUME NEW a \in Turns, NEW r, r[1] = "token" => r[2] \in 1..MaxTokens
  PROVE  Handle(a, r) \in Turns
<1>1. CASE r[1] = "token"
  <2>1. Append(a.tokens, r[2]) \in Seq(1..MaxTokens)
    BY <1>1 DEF Turns
  <2>2. Handle(a, r) = [a EXCEPT !.tokens = Append(a.tokens, r[2])]
    BY <1>1 DEF Handle
  <2> QED
    BY <2>1, <2>2 DEF Turns
<1>2. CASE r[1] = "done"
  <2>1. Handle(a, r) = [Flush(a) EXCEPT !.complete = TRUE]
    BY <1>2 DEF Handle
  <2> QED
    BY <2>1, FlushTyped, SetTyped
<1>3. CASE r[1] \in {"error", "cancelled"}
  <2>1. Handle(a, r) = [Flush(a) EXCEPT !.error = TRUE]
    BY <1>3 DEF Handle
  <2> QED
    BY <2>1, FlushTyped, SetTyped
<1>4. CASE r[1] \notin {"token", "done", "error", "cancelled"}
  BY <1>4 DEF Handle
<1> QED
  BY <1>1, <1>2, <1>3, <1>4

(* And what the log as a whole does.                                       *)
LEMMA ParsedTyped ==
  ASSUME NEW pieces \in Seq(LogPiece)
  PROVE  ParseStream(pieces) \in Turns
<1> DEFINE R == Reading(pieces)
           T == {k \in 0..Len(pieces) : R[k] \in Turns}
<1>0. Len(pieces) \in Nat /\ \A i \in 1..Len(pieces) : pieces[i] \in LogPiece
  OBVIOUS
<1>1. R[0] = Unread /\ \A i \in 1..Len(pieces) : R[i] = After(R[i - 1], pieces, i)
  BY <1>0, ReadingUnfolds
<1> HIDE DEF R
<1>2. 0 \in T
  <2>1. <<>> \in Seq(1..MaxTokens)
    OBVIOUS
  <2>2. Unread \in Turns
    BY <2>1 DEF Unread, Turns
  <2> QED
    BY <1>0, <1>1, <2>2
<1>3. ASSUME NEW k \in 1..Len(pieces), k - 1 \in T PROVE k \in T
  <2>1. R[k] = After(R[k - 1], pieces, k) /\ R[k - 1] \in Turns
    BY <1>1, <1>3
  <2>2. pieces[k][1] = "token" => pieces[k][2] \in 1..MaxTokens
    <3>1. \A p \in LogPiece : p[1] = "token" => p[2] \in 1..MaxTokens
      BY DEF LogPiece
    <3>2. pieces[k] \in LogPiece
      BY <1>0
    <3> QED
      BY <3>1, <3>2
  <2>3. Handle(R[k - 1], pieces[k]) \in Turns
    BY <2>1, <2>2, HandleTyped
  <2> QED
    BY <2>1, <2>3 DEF After
<1>4. R[Len(pieces)] \in Turns
  <2> HIDE DEF T
  <2>1. 0..Len(pieces) \subseteq T
    BY <1>0, <1>2, <1>3, Stepwise
  <2> QED
    BY <1>0, <2>1 DEF T
<1>5. ASSUME NEW a \in Turns, NEW truncated PROVE Ending(a, truncated) \in Turns
  BY FlushTyped, SetTyped DEF Ending
<1> QED
  BY <1>4, <1>5 DEF ParseStream, R

(* A part of a log is one.                                                 *)
LEMMA PartOfLog ==
  ASSUME NEW S, NEW s \in Seq(S), NEW m \in Nat \ {0}, NEW n \in 0..Len(s)
  PROVE  SubSeq(s, m, n) \in Seq(S)
<1>1. Len(s) \in Nat /\ m \in Int /\ n \in Int
  OBVIOUS
<1>2. \A i \in m..n : s[i] \in S
  BY <1>1
<1> QED
  BY <1>1, <1>2, SubSeqProperties

(* So the remembered end of the output is one.                             *)
LEMMA TailTyped ==
  ASSUME NEW s \in Seq(LogPiece) PROVE RetainedTail(s) \in Seq(LogPiece)
<1> DEFINE last == SubSeq(s, Len(s) - AtMost(Len(s), TailSize) + 1, Len(s))
           ends == {i \in DOMAIN last : last[i][3] = 2}
           first == CHOOSE i \in ends : \A j \in ends : i <= j
<1>1. last \in Seq(LogPiece)
  <2>1. Len(s) \in Nat /\ TailSize \in Nat
    BY TurnAssumption
  <2>2. Len(s) - AtMost(Len(s), TailSize) + 1 \in Nat \ {0} /\ Len(s) \in 0..Len(s)
    BY <2>1 DEF AtMost
  <2> QED
    BY <2>2, PartOfLog
<1>2. RetainedTail(s) = IF ends = {} THEN last ELSE SubSeq(last, first + 1, Len(last))
  BY DEF RetainedTail
<1> HIDE DEF last
<1>3. ASSUME ends # {} PROVE SubSeq(last, first + 1, Len(last)) \in Seq(LogPiece)
  <2>1. Len(last) \in Nat /\ ends \in SUBSET (0..Len(last))
    BY <1>1
  <2>2. first \in ends
    <3>1. \E i \in ends : \A j \in ends : i <= j
      BY <1>3, <2>1, LeastNumber
    <3> QED
      BY <3>1
  <2>3. first + 1 \in Nat \ {0} /\ Len(last) \in 0..Len(last)
    BY <2>1, <2>2
  <2> QED
    BY <1>1, <2>3, PartOfLog
<1> QED
  BY <1>1, <1>2, <1>3

(* And the log, whether or not it was cut and continued.                   *)
LEMMA LogTyped ==
  ASSUME TurnTyped, stream \in Seq(LogPiece)
  PROVE  Log \in Seq(LogPiece)
<1> DEFINE read == SubSeq(stream, 1, pos)
<1>1. pos \in 0..Len(stream) /\ kept \in 0..pos /\ Len(stream) \in Nat /\ 1 \in Nat \ {0}
  BY DEF TurnTyped
<1>2. read \in Seq(LogPiece) /\ Len(read) = pos
  BY <1>1, PartOfLog
<1>3. SubSeq(read, 1, kept) \in Seq(LogPiece)
  BY <1>1, <1>2, PartOfLog
<1>4. RetainedTail(read) \in Seq(LogPiece)
  BY <1>2, TailTyped
<1>5. <<Note>> \in Seq(LogPiece)
  BY DEF Note, LogPiece
<1> HIDE DEF read
<1>6. SubSeq(read, 1, kept) \o <<Note>> \o RetainedTail(read) \in Seq(LogPiece)
  BY <1>3, <1>4, <1>5
<1> QED
  BY <1>3, <1>6 DEF Log, read

(* The processes and the executor are where they can be.                   *)
Controlled ==
  /\ bpc \in {"none", "start", "ask", "read", "save", "finish", "return", "exited"}
  /\ {bexit, fexit} \subseteq ExitCodes
  /\ fpc \in {"start", "spawn", "wait", "end", "exited"}
  /\ recs \subseteq {"started", "ended"} /\ signalled \subseteq {"bridge", "firebreak"}
  /\ verdict \in {"none", "failed", "interrupted", "complete"}

(* A step keeps them there.                                                *)
LEMMA ControlledStep == Controlled /\ [PtNext]_ptVars => Controlled'
<1> SUFFICES ASSUME Controlled, [PtNext]_ptVars PROVE Controlled'
  OBVIOUS
<1> USE DEF Controlled, ExitCodes, bridge, firebreak, executor, Exit
<1>1. CASE ReachService \/ ServiceLine \/ SaveSession
  BY <1>1 DEF ReachService, ServiceLine, SaveSession
<1>2. CASE GenerationDone \/ Cancelled \/ Killed
  BY <1>2 DEF GenerationDone, Cancelled, Killed
<1>3. CASE Spawn
  BY <1>3 DEF Spawn
<1>4. CASE Interrupt
  BY <1>4 DEF Interrupt
<1>5. CASE BridgeEnded \/ End
  BY <1>5 DEF BridgeEnded, End
<1>6. CASE (\E n \in DOMAIN stream : ReadBlock(n)) \/ EndOfStream \/ CheckRaises
           \/ UNCHANGED ptVars
  BY <1>6 DEF ReadBlock, EndOfStream, CheckRaises, ptVars
<1>7. CASE KillTree
  BY <1>7 DEF KillTree
<1>8. CASE Judge
  <2>1. /\ UNCHANGED <<bpc, bexit, fpc, fexit, recs, signalled>>
        /\ verdict' \in {"complete", "failed"}
    BY <1>8 DEF Judge
  <2> QED
    BY <2>1
<1> QED
  BY <1>1, <1>2, <1>3, <1>4, <1>5, <1>6, <1>7, <1>8 DEF PtNext

(* Every token that is written has its number, so the answer is of such.   *)
NumberedInv == Controlled /\ stream \in Seq(LogPiece) /\ answer \in Seq(1..MaxTokens)

(* A step keeps the tokens numbered.                                       *)
LEMMA NumberedStep == PtInv /\ NumberedInv /\ [PtNext]_ptVars => NumberedInv'
<1> SUFFICES ASSUME PtInv, NumberedInv, [PtNext]_ptVars PROVE NumberedInv'
  OBVIOUS
<1> USE DEF bridge, firebreak, executor
<1>1. Controlled'
  BY ControlledStep DEF NumberedInv
<1>2. stream' \in Seq(LogPiece)
  <2>1. stream \in Seq(LogPiece) /\ sent \in Nat /\ MaxTokens \in Nat
    BY TurnAssumption DEF NumberedInv, PtInv, TurnTyped
  <2>2. ASSUME NEW more \in Seq(LogPiece), stream' = stream \o more PROVE stream' \in Seq(LogPiece)
    BY <2>1, <2>2
  <2>3. \A e \in {"started", "status", "error", "ended", "done", "cancelled", "log"} :
          Line(e, 0) \in Seq(LogPiece)
    BY <2>1 DEF Line, LogPiece, Piece
  <2>4. CASE stream' = stream
    BY <2>1, <2>4
  <2>5. CASE ReachService \/ SaveSession \/ GenerationDone \/ Cancelled
    BY <2>2, <2>3, <2>4, <2>5 DEF ReachService, SaveSession, GenerationDone, Cancelled, Emit
  <2>6. CASE ServiceLine
    <3>1. CASE sent < MaxTokens /\ EmitToken(sent + 1)
      <4>1. Line("token", sent + 1) \in Seq(LogPiece)
        BY <2>1, <3>1 DEF Line, LogPiece, Piece
      <4> QED
        BY <2>2, <3>1, <4>1 DEF EmitToken
    <3>2. CASE stream' = stream \/ Emit("error")
      BY <2>2, <2>3, <2>4, <3>2 DEF Emit
    <3> QED
      BY <2>6, <3>1, <3>2 DEF ServiceLine
  <2>7. CASE Killed
    <3>1. <<>> \in Seq(LogPiece) /\ <<<<"cut", 0, 1>>>> \in Seq(LogPiece)
      BY <2>1 DEF LogPiece, Piece
    <3> QED
      BY <2>2, <2>7, <3>1 DEF Killed
  <2>8. CASE Spawn \/ End
    BY <2>2, <2>3, <2>4, <2>8 DEF Spawn, End, Emit
  <2>9. CASE Interrupt \/ BridgeEnded \/ (\E n \in DOMAIN stream : ReadBlock(n)) \/ EndOfStream
             \/ CheckRaises \/ KillTree \/ Judge \/ UNCHANGED ptVars
    BY <2>4, <2>9 DEF Interrupt, BridgeEnded, ReadBlock, EndOfStream, CheckRaises, KillTree, Judge,
       ptVars
  <2> QED
    BY <2>5, <2>6, <2>7, <2>8, <2>9 DEF PtNext
<1>3. answer' \in Seq(1..MaxTokens)
  <2>1. answer \in Seq(1..MaxTokens) /\ Log \in Seq(LogPiece)
    BY LogTyped DEF NumberedInv, PtInv
  <2>2. ParseStream(Log).message \in Seq(1..MaxTokens)
    BY <2>1, ParsedTyped DEF Turns
  <2>3. CASE Judge
    BY <2>1, <2>2, <2>3 DEF Judge
  <2>4. CASE UNCHANGED answer
    BY <2>1, <2>4
  <2>5. CASE ReachService \/ ServiceLine \/ SaveSession \/ GenerationDone \/ Cancelled \/ Killed
             \/ Spawn \/ Interrupt \/ BridgeEnded \/ End
    BY <2>4, <2>5 DEF ReachService, ServiceLine, SaveSession, GenerationDone, Cancelled, Killed,
       Spawn, Interrupt, BridgeEnded, End
  <2>6. CASE (\E n \in DOMAIN stream : ReadBlock(n)) \/ EndOfStream \/ CheckRaises \/ KillTree
             \/ UNCHANGED ptVars
    BY <2>4, <2>6 DEF ReadBlock, EndOfStream, CheckRaises, KillTree, ptVars
  <2> QED
    BY <2>3, <2>5, <2>6 DEF PtNext
<1> QED
  BY <1>1, <1>2, <1>3 DEF NumberedInv

(* The types: the log is never longer than its bound, and never ahead of   *)
(* what was read; an answer is made of tokens, also one that is read from  *)
(* a log that was cut and continued.                                       *)
THEOREM TurnTypeCorrect == PtSpec => []PtTypeOK
<1>1. PtInit => PtInv /\ NumberedInv
  <2>1. PtInit => Controlled
    BY DEF PtInit, Controlled, ExitCodes
  <2>2. PtInit => stream \in Seq(LogPiece) /\ answer \in Seq(1..MaxTokens)
    BY DEF PtInit
  <2> QED
    BY <2>1, <2>2, TurnStarts DEF NumberedInv
<1>2. PtInv /\ NumberedInv /\ [PtNext]_ptVars => PtInv' /\ NumberedInv'
  BY TurnTypedStep, EndedWellStep, ReadOutStep, NumberedStep DEF PtInv
<1>3. PtInv /\ NumberedInv => PtTypeOK
  <2>1. PtInv => /\ pos \in 0..Len(stream) /\ kept \in 0..pos /\ kept <= MaxOutput
                 /\ sent \in 0..MaxTokens /\ {readOnly, saved} \subseteq BOOLEAN
    BY TurnAssumption DEF PtInv, TurnTyped
  <2>2. PtInv => opc \in {"read", "term", "kill", "judge", "over"}
    BY DEF PtInv, Judged
  <2> QED
    BY <2>1, <2>2 DEF NumberedInv, Controlled, PtTypeOK
<1> QED
  BY <1>1, <1>2, <1>3, PTL DEF PtSpec

-----------------------------------------------------------------------------
(* The blast radius.                                                       *)

USE DEF NONE, CONTAINED, BOUNDED, BROAD, UNKNOWN

(* Worlds in which everything may meet, which are too many for TLC.        *)
AllWorlds ==
  {w \in [ceiling : Ceilings, walk : Walks, socket : {"none", "seen", "hidden"},
          repo : Repositories \cup {NoRepo}, grant : GrantShapes, mask : Masks] : Sound(w)}

(* What the findings say before the test command is asked.                 *)
Base(w) ==
  WorkspaceFindings(w) \cup GrantFindings(w) \cup MaskFindings(w) \cup AccountFindings(w)
    \cup NetworkFindings(w) \cup CredentialFindings(w) \cup GitFindings(w)

Finding == Dimensions \X (NONE..UNKNOWN)

(* The worlds that a run goes through are some of them.                    *)
LEMMA WorldsAreSome == Worlds \subseteq AllWorlds
BY DEF Worlds, AllWorlds, GrantShapes, Masks, NoMask, Ungranted

(* A finding names an axis and a level of the ladder.                      *)
LEMMA BaseTyped ==
  ASSUME NEW w \in AllWorlds
  PROVE  Base(w) \subseteq Finding
<1> USE DEF Finding, Dimensions, Reassure, Unseen, SocketFindings
<1>1. WorkspaceFindings(w) \subseteq Finding
  BY DEF WorkspaceFindings
<1>2. GrantFindings(w) \subseteq Finding
  BY DEF GrantFindings
<1>3. MaskFindings(w) \subseteq Finding
  BY DEF MaskFindings, AllWorlds, Masks
<1>4. AccountFindings(w) \subseteq Finding
  BY DEF AccountFindings
<1>5. NetworkFindings(w) \subseteq Finding
  BY DEF NetworkFindings, AllWorlds, Ceilings
<1>6. CredentialFindings(w) \subseteq Finding
  BY DEF CredentialFindings
<1>7. RepoFindings(w) \subseteq Finding
  BY DEF RepoFindings
<1>8. GitFindings(w) \subseteq Finding
  BY <1>7 DEF GitFindings
<1> QED
  BY <1>1, <1>2, <1>3, <1>4, <1>5, <1>6, <1>8 DEF Base

(* A set of levels has a greatest.                                         *)
LEMMA MaxOfLevels ==
  ASSUME NEW S \in SUBSET (NONE..UNKNOWN), S # {}
  PROVE  Max(S) \in S /\ \A x \in S : x <= Max(S)
<1>1. \E x \in S : \A y \in S : x >= y
  <2>1. CASE 4 \in S
    BY <2>1
  <2>2. CASE 4 \notin S /\ 3 \in S
    BY <2>2
  <2>3. CASE 4 \notin S /\ 3 \notin S /\ 2 \in S
    BY <2>3
  <2>4. CASE 4 \notin S /\ 3 \notin S /\ 2 \notin S /\ 1 \in S
    BY <2>4
  <2>5. CASE 4 \notin S /\ 3 \notin S /\ 2 \notin S /\ 1 \notin S
    <3>1. PICK x : x \in S
      OBVIOUS
    <3>2. \A y \in S : y = 0
      BY <2>5
    <3> QED
      BY <3>1, <3>2
  <2> QED
    BY <2>1, <2>2, <2>3, <2>4, <2>5
<1> QED
  BY <1>1 DEF Max

(* An axis is called contained when no finding on it says more.            *)
LEMMA LevelIsLow ==
  ASSUME NEW raised \in SUBSET Finding, NEW d \in Dimensions
  PROVE  /\ Level(raised, d) \in NONE..UNKNOWN
         /\ Level(raised, d) <= CONTAINED <=>
              \A n \in NONE..UNKNOWN : <<d, n>> \in raised => n <= CONTAINED
<1> DEFINE S == {f[2] : f \in {g \in raised : g[1] = d}} \cup {NONE}
<1>1. S \in SUBSET (NONE..UNKNOWN) /\ S # {}
  BY DEF Finding
<1>2. Max(S) \in S /\ \A x \in S : x <= Max(S)
  BY <1>1, MaxOfLevels
<1>3. \A n \in NONE..UNKNOWN : <<d, n>> \in raised => n \in S
  OBVIOUS
<1>4. \A n \in S : n = NONE \/ <<d, n>> \in raised
  BY DEF Finding
<1> QED
  <2> HIDE DEF S
  <2>1. Level(raised, d) = Max(S)
    BY DEF Level, S
  <2>2. PICK m \in NONE..UNKNOWN : m = Max(S)
    BY <1>1, <1>2
  <2>3. \A x \in S : x \in NONE..UNKNOWN /\ x <= m
    BY <1>1, <1>2, <2>2
  <2>4. m = NONE \/ <<d, m>> \in raised
    BY <1>2, <1>4, <2>2
  <2>5. ASSUME m <= CONTAINED, NEW n \in NONE..UNKNOWN, <<d, n>> \in raised
        PROVE  n <= CONTAINED
    BY <1>3, <2>3, <2>5
  <2> QED
    BY <2>1, <2>2, <2>4, <2>5

-----------------------------------------------------------------------------
(* An axis that a finding puts above contained.                            *)
Said(w, d) == \E n \in {BOUNDED, BROAD, UNKNOWN} : <<d, n>> \in Base(w)

(* A tree that was not enumerated to its end is said to hide something.    *)
LEMMA UnreadIsSaid ==
  ASSUME NEW w \in AllWorlds, w.walk # "whole"
  PROVE  Said(w, "reachable") /\ Said(w, "durable")
<1>1. <<"reachable", UNKNOWN>> \in WorkspaceFindings(w)
  BY DEF WorkspaceFindings, Unseen, TreeRead
<1>2. <<"durable", UNKNOWN>> \in GitFindings(w)
  BY DEF GitFindings, Unseen, TreeRead
<1> QED
  BY <1>1, <1>2 DEF Said, Base

(* A network, the account and a credential are what the ceiling says.      *)
LEMMA CeilingIsSaid ==
  ASSUME NEW w \in AllWorlds
  PROVE  /\ w.ceiling.network # "none" =>
              Said(w, "reachable") /\ Said(w, "exfiltratable") /\ Said(w, "durable")
         /\ w.ceiling.account =>
              Said(w, "reachable") /\ Said(w, "destructible") /\ Said(w, "durable")
         /\ w.ceiling.credentials => Said(w, "reachable")
         /\ w.ceiling.credentials /\ w.ceiling.account => Said(w, "exfiltratable")
<1>1. w.ceiling.network # "none" =>
        Said(w, "reachable") /\ Said(w, "exfiltratable") /\ Said(w, "durable")
  <2> SUFFICES ASSUME w.ceiling.network # "none"
               PROVE  Said(w, "reachable") /\ Said(w, "exfiltratable") /\ Said(w, "durable")
    OBVIOUS
  <2>1. /\ \E n \in {BOUNDED, BROAD} : <<"reachable", n>> \in NetworkFindings(w)
        /\ <<"exfiltratable", BROAD>> \in NetworkFindings(w)
        /\ \E n \in {BOUNDED, UNKNOWN} : <<"durable", n>> \in NetworkFindings(w)
    BY DEF NetworkFindings, AllWorlds, Ceilings
  <2> QED
    BY <2>1 DEF Said, Base
<1>2. w.ceiling.account => Said(w, "reachable") /\ Said(w, "destructible") /\ Said(w, "durable")
  <2>1. w.ceiling.account =>
          {"reachable", "destructible", "durable"} \X {BOUNDED} \subseteq AccountFindings(w)
    BY DEF AccountFindings
  <2> QED
    BY <2>1 DEF Said, Base
<1>3. w.ceiling.credentials => Said(w, "reachable")
  <2>1. w.ceiling.credentials => <<"reachable", BOUNDED>> \in CredentialFindings(w)
    BY DEF CredentialFindings
  <2> QED
    BY <2>1 DEF Said, Base
<1>4. w.ceiling.credentials /\ w.ceiling.account => Said(w, "exfiltratable")
  <2>1. w.ceiling.credentials /\ w.ceiling.account =>
          <<"exfiltratable", BOUNDED>> \in CredentialFindings(w)
    BY DEF CredentialFindings
  <2> QED
    BY <2>1 DEF Said, Base
<1> QED
  BY <1>1, <1>2, <1>3, <1>4

(* So is every socket, unless the tree it is in was not enumerated.        *)
LEMMA SocketIsSaid ==
  ASSUME NEW w \in AllWorlds, {w.socket, w.grant.socket} # {"none"}
  PROVE  /\ Said(w, "reachable")
         /\ HardlinksRead(w) => Said(w, "exfiltratable")
<1> USE DEF AllWorlds, Sound, GrantShapes, Ungranted
<1>1. CASE w.socket = "seen"
  <2>1. SocketFindings \subseteq WorkspaceFindings(w)
    BY <1>1 DEF WorkspaceFindings
  <2> QED
    BY <2>1 DEF Said, Base, SocketFindings
<1>2. CASE w.socket = "hidden"
  <2>1. w.walk # "whole"
    BY <1>2
  <2> QED
    BY <2>1, UnreadIsSaid DEF HardlinksRead, TreeRead
<1>0. w.grant.socket # "none" => w.grant.walk \in Walks
  <2>1. w.grant = Ungranted \/ w.grant \in [walk : Walks, socket : {"none", "seen", "hidden"}]
    OBVIOUS
  <2> QED
    BY <2>1
<1>3. CASE w.grant.socket = "seen"
  <2>0. w.grant.walk \notin {"none", "gone"}
    BY <1>0, <1>3 DEF Walks
  <2>1. SocketFindings \subseteq GrantFindings(w)
    BY <1>3, <2>0 DEF GrantFindings
  <2> QED
    BY <2>1 DEF Said, Base, SocketFindings
<1>4. CASE w.grant.socket = "hidden"
  <2>1. w.grant.walk \in {"truncated", "partly", "gone"}
    BY <1>0, <1>4 DEF Walks
  <2>2. \E n \in {BOUNDED, UNKNOWN} : <<"reachable", n>> \in GrantFindings(w)
    BY <2>1 DEF GrantFindings, Unseen
  <2> QED
    BY <2>1, <2>2 DEF Said, Base, HardlinksRead
<1> QED
  BY <1>1, <1>2, <1>3, <1>4

(* And every grant, and every other name of a masked content.              *)
LEMMA NameIsSaid ==
  ASSUME NEW w \in AllWorlds, w.mask.kind # "unexaminable",
         w.grant.walk # "none" \/ w.mask.second \notin {"none", "outside"}
  PROVE  Said(w, "reachable")
<1> USE DEF AllWorlds, Sound, GrantShapes, Ungranted, Masks
<1>1. CASE w.grant.walk # "none"
  <2>1. \E n \in {BOUNDED, UNKNOWN} : <<"reachable", n>> \in GrantFindings(w)
    BY <1>1 DEF GrantFindings, Unseen
  <2> QED
    BY <2>1 DEF Said, Base
<1>2. CASE w.mask.second = "workspace"
  <2>1. <<"reachable", UNKNOWN>> \in MaskFindings(w)
    BY <1>2 DEF MaskFindings, Reassure
  <2> QED
    BY <2>1 DEF Said, Base
<1>3. CASE w.mask.second = "hidden"
  <2>1. w.walk # "whole"
    BY <1>3
  <2> QED
    BY <2>1, UnreadIsSaid
<1>4. w.mask.second \in {"grant", "hiddengrant"} => w.grant.walk # "none"
  OBVIOUS
<1> QED
  BY <1>1, <1>2, <1>3, <1>4

(* And what git would run or reach, in a repository that is read.          *)
LEMMA RepoIsSaid ==
  ASSUME NEW w \in AllWorlds, w.repo.place = "seen", w.repo.shape # "garbled"
  PROVE  /\ w.repo.shape = "external" => Said(w, "reachable") /\ Said(w, "durable")
         /\ w.repo.remote = "command" => Said(w, "reachable")
         /\ Channel(w) =>
              Said(w, "destructible") /\ Said(w, "exfiltratable") /\ Said(w, "durable")
         /\ w.repo.runs => Said(w, "durable")
<1> USE DEF AllWorlds, Repositories, NoRepo
<1>0. RepoFindings(w) \subseteq Base(w)
  BY DEF GitFindings, Base
<1>1. w.repo.shape = "external" => {"durable", "reachable"} \X {UNKNOWN} \subseteq RepoFindings(w)
  BY DEF RepoFindings
<1>2. w.repo.config # "read" => Dimensions \X {UNKNOWN} \subseteq RepoFindings(w)
  BY DEF RepoFindings, Unseen
<1>3. w.repo.config = "read" /\ w.repo.remote = "command" =>
        <<"reachable", UNKNOWN>> \in RepoFindings(w)
  BY DEF RepoFindings
<1>4. w.repo.config = "read" /\ Channel(w) =>
        {"durable", "exfiltratable", "destructible"} \X {UNKNOWN} \subseteq RepoFindings(w)
  BY DEF RepoFindings, Channel
<1>5. w.repo.config = "read" /\ w.repo.runs => <<"durable", BOUNDED>> \in RepoFindings(w)
  BY DEF RepoFindings
<1>6. \A d \in Dimensions, n \in {BOUNDED, UNKNOWN} : <<d, n>> \in RepoFindings(w) => Said(w, d)
  BY <1>0 DEF Said
<1> QED
  BY <1>1, <1>2, <1>3, <1>4, <1>5, <1>6 DEF Dimensions

(* What the world makes possible is said, unless it was overlooked.        *)
LEMMA ReallyIsSaid ==
  ASSUME NEW w \in AllWorlds, NEW d \in Dimensions, Really(w, d), ~Overlooked(w, d)
  PROVE  Said(w, d)
<1> DEFINE repo == w.repo.place # "none"
<1>0. w.repo.place \in {"none", "seen", "hidden", "behind", "over"}
  BY DEF AllWorlds, Repositories, NoRepo
<1>1. w.repo.place \in {"hidden", "behind"} => w.walk # "whole"
  BY DEF AllWorlds, Sound
<1>2. CASE d = "reachable"
  <2>1. w.repo.place # "over" /\ w.repo.shape # "garbled" /\ w.mask.kind # "unexaminable"
    BY <1>2 DEF Overlooked
  <2>2. CASE repo
    BY <1>0, <1>1, <1>2, <2>1, <2>2, UnreadIsSaid, RepoIsSaid, SocketIsSaid, CeilingIsSaid,
       NameIsSaid DEF Really
  <2>3. CASE ~repo
    BY <1>2, <2>1, <2>3, SocketIsSaid, CeilingIsSaid, NameIsSaid DEF Really
  <2> QED
    BY <2>2, <2>3
<1>3. CASE d = "destructible" \/ d = "exfiltratable"
  <2>1. w.repo.place # "over" /\ w.repo.shape # "garbled" /\ HardlinksRead(w) /\ ~Misread(w)
    BY <1>3 DEF Overlooked
  <2>2. repo => w.repo.place = "seen"
    BY <1>0, <1>1, <2>1 DEF HardlinksRead, TreeRead
  <2>3. repo /\ Channel(w) => Said(w, d)
    BY <1>3, <2>1, <2>2, RepoIsSaid
  <2> QED
    BY <1>3, <2>1, <2>3, SocketIsSaid, CeilingIsSaid DEF Really
<1>4. CASE d = "durable"
  <2>0. ~Misread(w)
    BY <1>4 DEF Overlooked
  <2>1. CASE w.repo.place = "over" \/ (w.repo.place = "seen" /\ w.repo.shape = "garbled")
    <3>1. <<"durable", UNKNOWN>> \in GitFindings(w)
      BY <2>1 DEF GitFindings, Unseen
    <3> QED
      BY <1>4, <3>1 DEF Said, Base
  <2>2. CASE w.repo.place \in {"hidden", "behind"}
    BY <1>1, <1>4, <2>2, UnreadIsSaid
  <2>3. CASE w.repo.place = "seen" /\ w.repo.shape # "garbled"
    BY <1>4, <2>0, <2>3, RepoIsSaid, CeilingIsSaid DEF Really
  <2>4. CASE w.repo.place = "none"
    BY <1>4, <2>4, CeilingIsSaid DEF Really
  <2> QED
    BY <1>0, <2>1, <2>2, <2>3, <2>4
<1> QED
  BY <1>2, <1>3, <1>4 DEF Dimensions

-----------------------------------------------------------------------------
(* Where everything was read, a finding above contained has its reason.    *)
LEMMA AllReadIsQuiet ==
  ASSUME NEW w \in AllWorlds, AllRead(w), NEW d \in Dimensions, ~Really(w, d),
         NEW n \in NONE..UNKNOWN, <<d, n>> \in Base(w)
  PROVE  n <= CONTAINED
<1> USE DEF AllRead, Reassure, Unseen, SocketFindings, HardlinksRead, TreeRead, Dimensions
<1>0. /\ w.walk = "whole" /\ w.grant.walk \in {"none", "whole"}
      /\ w.mask.kind \in {"none", "absent", "file", "directory"}
      /\ w.repo.place \in {"none", "seen"} /\ w.repo.shape \in {"inside", "external"}
      /\ w.repo.remote \in {"none", "wire", "host", "mounted", "relative", "unmounted", "command"}
      /\ w.repo.config = "read" /\ w.repo.hooks # "unread"
      /\ w.ceiling.network \in {"none", "listed", "open"}
  <2>1. w.grant.walk \in {"none", "whole"}
    OBVIOUS
  <2>2. w.mask.kind \in {"none", "absent", "file", "directory"}
    BY DEF AllWorlds, Masks
  <2>3. w.repo.shape \in {"inside", "external"}
        /\ w.repo.remote \in {"none", "wire", "host", "mounted", "relative", "unmounted", "command"}
    BY DEF AllWorlds, NoRepo, Repositories
  <2>4. w.ceiling.network \in {"none", "listed", "open"}
    BY DEF AllWorlds, Ceilings
  <2> QED
    BY <2>1, <2>2, <2>3, <2>4
<1>a. d = "reachable" =>
        /\ w.socket = "none" /\ w.grant.socket = "none" /\ w.grant.walk = "none"
        /\ w.ceiling.network = "none" /\ ~w.ceiling.account /\ ~w.ceiling.credentials
        /\ w.mask.second \in {"none", "outside"}
        /\ w.mask.kind = "file" => w.mask.second = "none"
        /\ w.repo.place = "seen" => w.repo.shape = "inside" /\ w.repo.remote # "command"
  BY <1>0 DEF Really
<1>b. d = "destructible" => ~w.ceiling.account /\ (w.repo.place = "seen" => ~Channel(w))
  BY <1>0 DEF Really
<1>c. d = "exfiltratable" =>
        /\ w.socket = "none" /\ w.grant.socket = "none" /\ w.ceiling.network = "none"
        /\ w.repo.place = "seen" => ~Channel(w)
        /\ ~(w.ceiling.credentials /\ w.ceiling.account)
  BY <1>0 DEF Really
<1>d. d = "durable" =>
        /\ w.ceiling.network = "none" /\ ~w.ceiling.account
        /\ w.repo.place = "seen" =>
             ~Channel(w) /\ w.repo.shape = "inside" /\ ~w.repo.runs
  BY <1>0 DEF Really
<1>1. CASE <<d, n>> \in WorkspaceFindings(w)
  BY <1>0, <1>1, <1>a, <1>b, <1>c, <1>d DEF WorkspaceFindings
<1>2. CASE <<d, n>> \in GrantFindings(w)
  BY <1>0, <1>2, <1>a, <1>b, <1>c, <1>d DEF GrantFindings
<1>3. CASE <<d, n>> \in MaskFindings(w)
  BY <1>0, <1>3, <1>a DEF MaskFindings
<1>4. CASE <<d, n>> \in AccountFindings(w)
  BY <1>4, <1>a, <1>b, <1>c, <1>d DEF AccountFindings
<1>5. CASE <<d, n>> \in NetworkFindings(w)
  BY <1>0, <1>5, <1>a, <1>c, <1>d DEF NetworkFindings
<1>6. CASE <<d, n>> \in CredentialFindings(w)
  BY <1>6, <1>a, <1>c DEF CredentialFindings
<1>7. CASE <<d, n>> \in GitFindings(w)
  <2>1. CASE w.repo.place = "none"
    BY <1>0, <1>7, <2>1 DEF GitFindings
  <2>2. CASE w.repo.place = "seen"
    <3>1. <<d, n>> \in RepoFindings(w)
      BY <1>0, <1>7, <2>2 DEF GitFindings
    <3>2. Channel(w) => w.repo.remote # "none"
      BY DEF Channel
    <3> QED
      BY <1>0, <1>a, <1>b, <1>c, <1>d, <2>2, <3>1, <3>2 DEF RepoFindings
  <2> QED
    BY <1>0, <2>1, <2>2
<1> QED
  BY <1>1, <1>2, <1>3, <1>4, <1>5, <1>6, <1>7 DEF Base

(* An unpredictable command opens no axis that was not open.               *)
LEMMA TestOpensNothing ==
  ASSUME NEW w \in AllWorlds, AllRead(w), NEW d \in Dimensions,
         \A n \in NONE..UNKNOWN : <<d, n>> \in Base(w) => n <= CONTAINED,
         NEW n \in NONE..UNKNOWN, <<d, n>> \in TestFindings(w, Base(w))
  PROVE  n <= CONTAINED
<1> DEFINE widened == {f[1] : f \in {g \in Base(w) : g[2] > CONTAINED}} \ {"reachable"}
<1>1. d \notin widened
  BY BaseTyped DEF Finding
<1>2. <<d, n>> \in widened \X {UNKNOWN} => FALSE
  BY <1>1
<1>3. <<d, n>> \in Reassure(TreeRead(w) /\ HardlinksRead(w), "destructible", CONTAINED)
        => n <= CONTAINED
  BY DEF Reassure, AllRead, HardlinksRead
<1> QED
  BY <1>2, <1>3 DEF TestFindings

(* What the classifier says is typed.                                      *)
LEMMA FindingsTyped ==
  ASSUME NEW w \in AllWorlds
  PROVE  /\ Findings(w) = Base(w) \cup TestFindings(w, Base(w))
         /\ Findings(w) \in SUBSET Finding
<1>1. Findings(w) = Base(w) \cup TestFindings(w, Base(w))
  BY DEF Findings, Base
<1>2. TestFindings(w, Base(w)) \subseteq Finding
  BY BaseTyped DEF TestFindings, Reassure, Finding, Dimensions
<1> QED
  BY <1>1, <1>2, BaseTyped

(* Both rules, of worlds in which everything may meet.                     *)
THEOREM LevelsAreTrue ==
  \A w \in AllWorlds, d \in Dimensions :
    LET level == Level(Findings(w), d) IN
    /\ level <= CONTAINED /\ Really(w, d) => Overlooked(w, d)
    /\ AllRead(w) /\ ~Really(w, d) => level <= CONTAINED
<1> SUFFICES ASSUME NEW w \in AllWorlds, NEW d \in Dimensions
             PROVE  /\ Level(Findings(w), d) <= CONTAINED /\ Really(w, d) => Overlooked(w, d)
                    /\ AllRead(w) /\ ~Really(w, d) => Level(Findings(w), d) <= CONTAINED
  OBVIOUS
<1>1. /\ Findings(w) = Base(w) \cup TestFindings(w, Base(w))
      /\ Findings(w) \in SUBSET Finding
  BY FindingsTyped
<1>2. Level(Findings(w), d) <= CONTAINED <=>
        \A n \in NONE..UNKNOWN : <<d, n>> \in Findings(w) => n <= CONTAINED
  BY <1>1, LevelIsLow
<1>3. ASSUME Level(Findings(w), d) <= CONTAINED, Really(w, d) PROVE Overlooked(w, d)
  <2>1. ~Said(w, d)
    BY <1>1, <1>2, <1>3 DEF Said
  <2> QED
    BY <1>3, <2>1, ReallyIsSaid
<1>4. ASSUME AllRead(w), ~Really(w, d) PROVE Level(Findings(w), d) <= CONTAINED
  <2>1. \A n \in NONE..UNKNOWN : <<d, n>> \in Base(w) => n <= CONTAINED
    BY <1>4, AllReadIsQuiet
  <2>2. \A n \in NONE..UNKNOWN : <<d, n>> \in TestFindings(w, Base(w)) => n <= CONTAINED
    BY <1>4, <2>1, TestOpensNothing
  <2> QED
    BY <1>1, <1>2, <2>1, <2>2
<1> QED
  BY <1>3, <1>4

(* The classifier has not run, or has found what it finds in this world.   *)
BlInv ==
  /\ world \in AllWorlds
  /\ levels \in {Unclassified, [d \in Dimensions |-> Level(Findings(world), d)]}

(* It starts so, and stays so.                                             *)
LEMMA BlInvStays == /\ BlInit => BlInv
                    /\ BlInv /\ [BlNext]_blVars => BlInv'
<1>1. BlInit => BlInv
  BY WorldsAreSome DEF BlInit, BlInv
<1>2. BlInv /\ [BlNext]_blVars => BlInv'
  BY DEF BlNext, Classify, blVars, BlInv
<1> QED
  BY <1>1, <1>2

(* The levels found are levels.                                            *)
LEMMA LevelsTyped == BlInv => BlTypeOK
<1> SUFFICES ASSUME world \in AllWorlds,
                    levels = [d \in Dimensions |-> Level(Findings(world), d)]
             PROVE  levels \in [Dimensions -> NONE..UNKNOWN]
  BY DEF BlInv, BlTypeOK
<1>1. \A d \in Dimensions : Level(Findings(world), d) \in NONE..UNKNOWN
  BY FindingsTyped, LevelIsLow
<1> QED
  BY <1>1

(* The types of the classifier.                                            *)
THEOREM BlastTypeCorrect == BlSpec => []BlTypeOK
BY BlInvStays, LevelsTyped, PTL DEF BlSpec

(* An axis that is called contained is, and a contained one is called so.  *)
THEOREM ContainedIsTrueHolds == BlSpec => []ContainedIsTrue
<1>1. BlInv => ContainedIsTrue
  <2> SUFFICES ASSUME world \in AllWorlds,
                      levels = [d \in Dimensions |-> Level(Findings(world), d)],
                      NEW d \in Dimensions
               PROVE  /\ levels[d] <= CONTAINED /\ Really(world, d) => Overlooked(world, d)
                      /\ AllRead(world) /\ ~Really(world, d) => levels[d] <= CONTAINED
    BY DEF BlInv, ContainedIsTrue
  <2>1. levels[d] = Level(Findings(world), d)
    OBVIOUS
  <2> QED
    BY <2>1, LevelsAreTrue
<1> QED
  BY <1>1, BlInvStays, PTL DEF BlSpec

-----------------------------------------------------------------------------
(* A session of shadowfetch-firebreak.                                     *)

USE FirebreakAssumption DEF Handled, Networked, outside, stopping, HelperVars,
    NatVars, RemoveScratch, LeaveRun, Raise

Record == {"refused", "started", "ended"} \X BOOLEAN

(* The records are what append_record writes.                              *)
EntriesTyped == entries \in Seq(Record)

(* Nothing is on record, and there is no tree, before the session is       *)
(* recorded; a session that goes on was recorded as started, and has not   *)
(* been refused.                                                           *)
Early == {"arguments", "checkpoint", "launch", "record"}

Started ==
  /\ \E r \in Range(entries) : r[1] = "started"
  /\ \A r \in Range(entries) : r[1] # "refused"

RecordedFirst ==
  /\ pc \in Early => entries = <<>> /\ tree = "none"
  /\ pc \in Handled \/ tree # "none" => Started

(* The checkpoint comes before the launch.                                 *)
CheckpointFirst ==
  pc \in {"launch", "record"} \cup Handled \/ tree # "none" =>
    (want.checkpoint => checkpoint)

(* The NAT is attached before the FIFO is opened for writing, that before  *)
(* the helper goes on, and the allowlist before the payload.               *)
AttachedFirst ==
  /\ pc = "release" => attached
  /\ fifo # "closed" => attached
  /\ tree \in {"filtering", "payload"} => (Networked => attached)
  /\ tree = "payload" => (want.network = "listed" => rules)

(* Whoever was told to stop is on the way out.                             *)
ToldToStop ==
  /\ outcome = "cancelled" => signals >= 1 /\ pc \in {"clean", "kill", "end", "gone"}
  /\ pc = "kill" => outcome = "cancelled"

(* Who has been where the network is set up, and who cleans up after it.   *)
NatOwned ==
  /\ pc \in Early \cup {"spawn", "forked", "pid", "attach"} => nat = "none"
  /\ ~Networked =>
       nat = "none" /\ pc \notin {"pid", "attach", "slirp", "ready", "release", "clean"}
  /\ nat \in {"starting", "up"} =>
       "nat" \in holds \/ pc = "slirp" \/ outcome = "cancelled" \/ cut
  /\ pc \in {"kill", "end"} /\ ~cut => ~(nat \in {"starting", "up"} /\ "nat" \in holds)

(* Who started the payload of a session without a network, and who ends it. *)
TreeOwned ==
  /\ pc = "spawn" => tree = "none"
  /\ ~Networked =>
       /\ tree \in {"none", "payload", "dead"}
       /\ tree = "payload" =>
            "process" \in holds \/ pc = "forked" \/ outcome = "cancelled" \/ cut
       /\ pc = "end" /\ ~cut /\ signals <= 1 => ~(tree = "payload" /\ "process" \in holds)

FbInv ==
  /\ FbTypeOK /\ EntriesTyped /\ RecordedFirst /\ CheckpointFirst
  /\ AttachedFirst /\ ToldToStop /\ NatOwned /\ TreeOwned /\ NothingIsLeft

-----------------------------------------------------------------------------
(* One more record: the set of records grows by it.                        *)
LEMMA WriteAppends ==
  ASSUME EntriesTyped, NEW kind \in {"refused", "started", "ended"}, Write(kind)
  PROVE  /\ EntriesTyped'
         /\ \E whole \in BOOLEAN :
              Range(entries') = Range(entries) \cup {<<kind, whole>>}
<1>1. PICK whole \in BOOLEAN : entries' = Append(entries, <<kind, whole>>)
  BY DEF Write
<1>2. <<kind, whole>> \in Record
  BY DEF Record
<1>3. EntriesTyped'
  BY <1>1, <1>2 DEF EntriesTyped
<1>4. /\ DOMAIN entries' = 1..(Len(entries) + 1)
      /\ \A i \in 1..Len(entries) : entries'[i] = entries[i]
      /\ entries'[Len(entries) + 1] = <<kind, whole>>
      /\ DOMAIN entries = 1..Len(entries)
      /\ Len(entries) \in Nat
  BY <1>1, <1>2 DEF EntriesTyped
<1>5. Range(entries') \subseteq Range(entries) \cup {<<kind, whole>>}
  <2> SUFFICES ASSUME NEW i \in 1..(Len(entries) + 1)
               PROVE  entries'[i] \in Range(entries) \cup {<<kind, whole>>}
    BY <1>4 DEF Range
  <2>1. CASE i \in 1..Len(entries)
    BY <1>4, <2>1 DEF Range
  <2>2. CASE i = Len(entries) + 1
    BY <1>4, <2>2
  <2> QED
    BY <1>4, <2>1, <2>2
<1>6. Range(entries) \subseteq Range(entries')
  <2> SUFFICES ASSUME NEW i \in 1..Len(entries)
               PROVE  entries[i] \in Range(entries')
    BY <1>4 DEF Range
  <2>1. entries'[i] = entries[i] /\ i \in DOMAIN entries'
    BY <1>4
  <2> QED
    BY <2>1 DEF Range
<1>7. <<kind, whole>> \in Range(entries')
  <2>1. Len(entries) + 1 \in DOMAIN entries'
    BY <1>4
  <2> QED
    BY <1>4, <2>1 DEF Range
<1>8. Range(entries') = Range(entries) \cup {<<kind, whole>>}
  BY <1>5, <1>6, <1>7
<1> QED
  BY <1>3, <1>8

(* There is nothing in the file of a session that has recorded nothing.    *)
LEMMA RangeOfNone == Range(<<>>) = {}
BY DEF Range

(* Every record is of a kind that the type invariant names.                *)
LEMMA EntriesKinds ==
  EntriesTyped => \A r \in Range(entries) : r \in {"refused", "started", "ended"} \X BOOLEAN
BY DEF EntriesTyped, Range, Record

-----------------------------------------------------------------------------
(* The initial states have it.                                            *)
LEMMA FbInvInit == FbInit => FbInv
<1> SUFFICES ASSUME FbInit PROVE FbInv
  OBVIOUS
<1>1. FbTypeOK
  <2>1. scratch \in {"none", "there", "removed"}
    BY DEF FbInit
  <2>2. \A r \in Range(entries) : r \in {"refused", "started", "ended"} \X BOOLEAN
    BY RangeOfNone DEF FbInit
  <2>3. {pidFile, attached, rules, checkpoint, cut} \subseteq BOOLEAN
    BY DEF FbInit
  <2> QED
    BY <2>1, <2>2, <2>3 DEF FbInit, FbTypeOK
<1>2. EntriesTyped
  BY DEF FbInit, EntriesTyped
<1> QED
  BY <1>1, <1>2 DEF FbInit, FbInv, RecordedFirst, CheckpointFirst, AttachedFirst,
                    ToldToStop, NatOwned, TreeOwned, NothingIsLeft, Early

(* Only append_record touches the file.                                   *)
LEMMA EntriesStep == FbInv /\ [FbNext]_fbVars => EntriesTyped'
<1> SUFFICES ASSUME FbInv, [FbNext]_fbVars PROVE EntriesTyped'
  OBVIOUS
<1>1. Write("refused") \/ Write("started") \/ Write("ended") => EntriesTyped'
  BY WriteAppends DEF FbInv
<1>2. UNCHANGED entries => EntriesTyped'
  BY DEF FbInv, EntriesTyped
<1> QED
  BY <1>1, <1>2 DEF FbNext, Arguments, TakeCheckpoint, BuildLaunch, RecordStarted,
     SpawnTree, HoldTree, ReportPid, OpenFifo, Released, Filter, TreeEnds,
     NatConfigures, NatDies, AwaitPid, AttachNetwork, HoldNat, AwaitNat, Release,
     Wait, Clean, Kill, RecordEnded, Terminate, LauncherKilled, fbVars

(* Every action keeps the type.                                            *)
LEMMA FbTypeStep == FbInv /\ [FbNext]_fbVars => FbTypeOK'
<1> SUFFICES ASSUME FbInv, [FbNext]_fbVars PROVE FbTypeOK'
  OBVIOUS
<1>0. /\ FbTypeOK
      /\ \A r \in Range(entries') : r \in {"refused", "started", "ended"} \X BOOLEAN
  BY EntriesStep, EntriesKinds DEF FbInv, EntriesTyped, Range, Record
<1>a. pidFile \in BOOLEAN /\ attached \in BOOLEAN /\ rules \in BOOLEAN
      /\ checkpoint \in BOOLEAN /\ cut \in BOOLEAN
  BY <1>0 DEF FbTypeOK
<1> SUFFICES /\ want' \in [network : {"none", "listed", "open"}, checkpoint : BOOLEAN]
             /\ pc' \in {"arguments", "checkpoint", "launch", "record", "gone"} \cup Handled
             /\ tree' \in {"none", "booting", "reported", "blocked", "filtering", "payload", "dead"}
             /\ nat' \in {"none", "starting", "up", "dead"}
             /\ scratch' \in {"none", "there", "removed"}
             /\ fifo' \in {"closed", "open", "go"}
             /\ pidFile' \in BOOLEAN /\ attached' \in BOOLEAN /\ rules' \in BOOLEAN
             /\ checkpoint' \in BOOLEAN /\ cut' \in BOOLEAN
             /\ outcome' \in {"none", "return", "error", "cancelled"}
             /\ signals' \in 0..MaxSignals
             /\ holds' \in SUBSET {"process", "nat"}
  BY <1>0 DEF FbTypeOK
<1> USE <1>0, <1>a DEF FbTypeOK
<1>1. CASE Arguments
  BY <1>1 DEF Arguments
<1>2. CASE TakeCheckpoint
  BY <1>2 DEF TakeCheckpoint
<1>3. CASE BuildLaunch
  BY <1>3 DEF BuildLaunch
<1>4. CASE RecordStarted
  BY <1>4 DEF RecordStarted
<1>5. CASE SpawnTree
  BY <1>5 DEF SpawnTree
<1>6. CASE ReportPid
  <2>1. UNCHANGED <<want, pc, nat, scratch, fifo, attached, checkpoint, outcome, stopping, rules>>
    BY <1>6 DEF ReportPid
  <2>2. tree' \in {"reported", "dead"} /\ pidFile' \in BOOLEAN
    BY <1>6 DEF ReportPid
  <2> QED
    BY <2>1, <2>2
<1>7. CASE OpenFifo
  BY <1>7 DEF OpenFifo
<1>8. CASE Released
  BY <1>8 DEF Released
<1>9. CASE Filter
  <2>1. UNCHANGED <<want, pc, nat, scratch, fifo, attached, checkpoint, outcome, stopping, pidFile>>
    BY <1>9 DEF Filter
  <2>2. tree' \in {"payload", "dead"}
    BY <1>9 DEF Filter
  <2>3. rules' = (want.network = "listed") \/ rules' = rules
    BY <1>9 DEF Filter
  <2>4. rules' \in BOOLEAN
    BY <2>3
  <2> QED
    BY <2>1, <2>2, <2>4
<1>10. CASE TreeEnds
  BY <1>10 DEF TreeEnds
<1>11. CASE NatConfigures
  BY <1>11 DEF NatConfigures
<1>12. CASE NatDies
  BY <1>12 DEF NatDies
<1>13. CASE AwaitPid
  BY <1>13 DEF AwaitPid
<1>14. CASE AttachNetwork
  BY <1>14 DEF AttachNetwork
<1>15. CASE AwaitNat
  BY <1>15 DEF AwaitNat
<1>16. CASE Release
  BY <1>16 DEF Release
<1>17. CASE Wait
  BY <1>17 DEF Wait
<1>18. CASE Clean
  BY <1>18 DEF Clean
<1>19. CASE Kill
  BY <1>19 DEF Kill
<1>20. CASE RecordEnded
  BY <1>20 DEF RecordEnded
<1>21. CASE Terminate
  <2>1. /\ UNCHANGED <<want, nat, scratch, fifo, attached, checkpoint, pidFile, rules>>
        /\ signals < MaxSignals /\ signals' = signals + 1
        /\ UNCHANGED holds
    BY <1>21 DEF Terminate
  <2>2. signals' \in 0..MaxSignals
    BY <2>1
  <2>3. outcome' \in {outcome, "cancelled"} /\ tree' \in {tree, "dead"}
    BY <1>21 DEF Terminate
  <2>4. pc' \in {"gone", "kill", "end", "clean"}
    BY <1>21 DEF Terminate
  <2>5. cut' = TRUE \/ cut' = (cut \/ pc = "clean")
    BY <1>21 DEF Terminate
  <2>6. cut' \in BOOLEAN
    BY <2>5
  <2> QED
    BY <2>1, <2>2, <2>3, <2>4, <2>6
<1>22. CASE LauncherKilled
  BY <1>22 DEF LauncherKilled
<1>23. CASE HoldTree \/ HoldNat
  <2>1. holds' \in SUBSET {"process", "nat"}
    BY <1>23 DEF HoldTree, HoldNat
  <2>2. pc' \in {"pid", "wait", "ready"}
    BY <1>23 DEF HoldTree, HoldNat
  <2>3. UNCHANGED <<want, outside, scratch, checkpoint, outcome, signals, cut>>
    BY <1>23 DEF HoldTree, HoldNat
  <2> QED
    BY <2>1, <2>2, <2>3
<1>24. CASE UNCHANGED fbVars
  BY <1>24 DEF fbVars
<1> QED
  BY <1>1, <1>2, <1>3, <1>4, <1>5, <1>6, <1>7, <1>8, <1>9, <1>10, <1>11, <1>12, <1>13,
     <1>14, <1>15, <1>16, <1>17, <1>18, <1>19, <1>20, <1>21, <1>22, <1>23, <1>24 DEF FbNext

(* No step reaches a handled stage, or a tree, without the "started" line. *)
LEMMA RecordedStep == FbInv /\ [FbNext]_fbVars => RecordedFirst'
<1> SUFFICES ASSUME FbInv, [FbNext]_fbVars PROVE RecordedFirst'
  OBVIOUS
<1>0. EntriesTyped /\ RecordedFirst
  BY DEF FbInv
<1>a. ASSUME Write("ended"), Started PROVE Started'
  BY <1>0, <1>a, WriteAppends DEF Started
<1>b. ASSUME UNCHANGED entries, Started PROVE Started'
  BY <1>b DEF Started
<1>c. ASSUME Write("started"), entries = <<>> PROVE Started'
  <2>1. PICK whole \in BOOLEAN : Range(entries') = Range(entries) \cup {<<"started", whole>>}
    BY <1>0, <1>c, WriteAppends
  <2>2. Range(entries) = {}
    BY <1>c, RangeOfNone
  <2>3. Range(entries') = {<<"started", whole>>}
    BY <2>1, <2>2
  <2> QED
    BY <2>3 DEF Started
<1> HIDE DEF Started, Write
<1> USE <1>0, <1>a, <1>b, <1>c DEF RecordedFirst, Early
<1>1. CASE Arguments \/ TakeCheckpoint \/ BuildLaunch
  BY <1>1 DEF Arguments, TakeCheckpoint, BuildLaunch
<1>2. CASE RecordStarted \/ SpawnTree \/ HoldTree
  BY <1>2 DEF RecordStarted, SpawnTree, HoldTree
<1>3. CASE ReportPid \/ OpenFifo \/ Released \/ Filter \/ TreeEnds
  BY <1>3 DEF ReportPid, OpenFifo, Released, Filter, TreeEnds
<1>4. CASE NatConfigures \/ NatDies \/ AwaitPid \/ AttachNetwork \/ HoldNat \/ AwaitNat
  BY <1>4 DEF NatConfigures, NatDies, AwaitPid, AttachNetwork, HoldNat, AwaitNat
<1>5. CASE Release \/ Wait \/ Clean \/ Kill \/ RecordEnded
  BY <1>5 DEF Release, Wait, Clean, Kill, RecordEnded
<1>6. CASE Terminate
  BY <1>6 DEF Terminate
<1>7. CASE LauncherKilled
  BY <1>7 DEF LauncherKilled
<1>8. CASE UNCHANGED fbVars
  BY <1>8 DEF fbVars
<1> QED
  BY <1>1, <1>2, <1>3, <1>4, <1>5, <1>6, <1>7, <1>8 DEF FbNext

(* No step of the launcher, the tree, the NAT or a signal overtakes the     *)
(* checkpoint, the NAT or the allowlist.                                    *)
LEMMA FenceStep ==
  FbInv /\ [FbNext]_fbVars => CheckpointFirst' /\ AttachedFirst'
<1> SUFFICES ASSUME FbInv, [FbNext]_fbVars PROVE CheckpointFirst' /\ AttachedFirst'
  OBVIOUS
<1> USE DEF FbInv, FbTypeOK, CheckpointFirst, AttachedFirst, NatOwned, RecordedFirst, Early
<1>1. CASE Arguments \/ TakeCheckpoint \/ BuildLaunch
  BY <1>1 DEF Arguments, TakeCheckpoint, BuildLaunch
<1>2. CASE RecordStarted \/ SpawnTree \/ HoldTree
  BY <1>2 DEF RecordStarted, SpawnTree, HoldTree
<1>3. CASE ReportPid \/ OpenFifo \/ Released \/ Filter \/ TreeEnds
  BY <1>3 DEF ReportPid, OpenFifo, Released, Filter, TreeEnds
<1>4. CASE NatConfigures \/ NatDies \/ AwaitPid \/ AttachNetwork \/ HoldNat \/ AwaitNat
  BY <1>4 DEF NatConfigures, NatDies, AwaitPid, AttachNetwork, HoldNat, AwaitNat
<1>5. CASE Release \/ Wait \/ Clean \/ Kill \/ RecordEnded
  BY <1>5 DEF Release, Wait, Clean, Kill, RecordEnded
<1>6. CASE Terminate
  BY <1>6 DEF Terminate
<1>7. CASE LauncherKilled
  BY <1>7 DEF LauncherKilled
<1>8. CASE UNCHANGED fbVars
  BY <1>8 DEF fbVars
<1> QED
  BY <1>1, <1>2, <1>3, <1>4, <1>5, <1>6, <1>7, <1>8 DEF FbNext

(* Only a signal cancels, and only on the way out.                          *)
LEMMA ToldStep == FbInv /\ [FbNext]_fbVars => ToldToStop'
<1> SUFFICES ASSUME FbInv, [FbNext]_fbVars PROVE ToldToStop'
  OBVIOUS
<1> USE DEF FbInv, FbTypeOK, ToldToStop
<1>1. CASE Arguments \/ TakeCheckpoint \/ BuildLaunch
  BY <1>1 DEF Arguments, TakeCheckpoint, BuildLaunch
<1>2. CASE RecordStarted \/ SpawnTree \/ HoldTree
  BY <1>2 DEF RecordStarted, SpawnTree, HoldTree
<1>3. CASE ReportPid \/ OpenFifo \/ Released \/ Filter \/ TreeEnds
  BY <1>3 DEF ReportPid, OpenFifo, Released, Filter, TreeEnds
<1>4. CASE NatConfigures \/ NatDies \/ AwaitPid \/ AttachNetwork \/ HoldNat \/ AwaitNat
  BY <1>4 DEF NatConfigures, NatDies, AwaitPid, AttachNetwork, HoldNat, AwaitNat
<1>5. CASE Release \/ Wait \/ Clean \/ Kill \/ RecordEnded
  BY <1>5 DEF Release, Wait, Clean, Kill, RecordEnded
<1>6. CASE Terminate
  BY <1>6 DEF Terminate
<1>7. CASE LauncherKilled
  BY <1>7 DEF LauncherKilled
<1>8. CASE UNCHANGED fbVars
  BY <1>8 DEF fbVars
<1> QED
  BY <1>1, <1>2, <1>3, <1>4, <1>5, <1>6, <1>7, <1>8 DEF FbNext

(* Whoever raises goes through the cleanup, unless it is cut short.         *)
LEMMA OwnedStep == FbInv /\ [FbNext]_fbVars => NatOwned' /\ TreeOwned'
<1> SUFFICES ASSUME FbInv, [FbNext]_fbVars PROVE NatOwned' /\ TreeOwned'
  OBVIOUS
<1> USE DEF FbInv, FbTypeOK, RecordedFirst, ToldToStop, NatOwned, TreeOwned, Early
<1>1. CASE Arguments \/ TakeCheckpoint \/ BuildLaunch
  BY <1>1 DEF Arguments, TakeCheckpoint, BuildLaunch
<1>2. CASE RecordStarted \/ SpawnTree \/ HoldTree
  BY <1>2 DEF RecordStarted, SpawnTree, HoldTree
<1>3. CASE ReportPid \/ OpenFifo \/ Released \/ Filter \/ TreeEnds
  BY <1>3 DEF ReportPid, OpenFifo, Released, Filter, TreeEnds
<1>4. CASE NatConfigures \/ NatDies \/ AwaitPid \/ AttachNetwork \/ HoldNat \/ AwaitNat
  BY <1>4 DEF NatConfigures, NatDies, AwaitPid, AttachNetwork, HoldNat, AwaitNat
<1>5. CASE Release \/ Wait \/ Clean \/ Kill \/ RecordEnded
  BY <1>5 DEF Release, Wait, Clean, Kill, RecordEnded
<1>6. CASE Terminate
  <2>1. /\ UNCHANGED <<want, nat, holds>> /\ signals' = signals + 1 /\ signals \in Nat
        /\ tree' \in {tree, "dead"}
    BY <1>6 DEF Terminate
  <2>2. CASE pc' = "gone"
    <3>1. cut' = TRUE
      BY <1>6, <2>2 DEF Terminate
    <3> QED
      BY <2>1, <2>2, <3>1
  <2>3. CASE pc' # "gone"
    <3>1. /\ pc \in Handled /\ outcome' = "cancelled" /\ pc' \in {"clean", "kill", "end"}
          /\ pc' = "clean" => Networked
          /\ pc' = "end" => pc \in {"kill", "end"}
          /\ pc' = "kill" => pc \in {"spawn", "forked", "clean"} \/ ~Networked
      BY <1>6, <2>3 DEF Terminate
    <3>2. cut => cut'
      BY <1>6, <2>3 DEF Terminate
    <3>3. pc = "clean" => cut'
      BY <1>6, <2>3 DEF Terminate
    <3> QED
      BY <2>1, <2>3, <3>1, <3>2, <3>3
  <2> QED
    BY <2>2, <2>3
<1>7. CASE LauncherKilled
  BY <1>7 DEF LauncherKilled
<1>8. CASE UNCHANGED fbVars
  BY <1>8 DEF fbVars
<1> QED
  BY <1>1, <1>2, <1>3, <1>4, <1>5, <1>6, <1>7, <1>8 DEF FbNext

(* And who goes without having been cut short has cleaned up.               *)
LEMMA NothingStep == FbInv /\ [FbNext]_fbVars => NothingIsLeft'
<1> SUFFICES ASSUME FbInv, [FbNext]_fbVars PROVE NothingIsLeft'
  OBVIOUS
<1> USE DEF FbInv, FbTypeOK, RecordedFirst, ToldToStop, NatOwned, TreeOwned, NothingIsLeft,
        Early
<1>1. CASE Arguments \/ TakeCheckpoint \/ BuildLaunch
  BY <1>1 DEF Arguments, TakeCheckpoint, BuildLaunch
<1>2. CASE RecordStarted \/ SpawnTree \/ HoldTree
  BY <1>2 DEF RecordStarted, SpawnTree, HoldTree
<1>3. CASE ReportPid \/ OpenFifo \/ Released \/ Filter \/ TreeEnds
  BY <1>3 DEF ReportPid, OpenFifo, Released, Filter, TreeEnds
<1>4. CASE NatConfigures \/ NatDies \/ AwaitPid \/ AttachNetwork \/ HoldNat \/ AwaitNat
  BY <1>4 DEF NatConfigures, NatDies, AwaitPid, AttachNetwork, HoldNat, AwaitNat
<1>5. CASE Release \/ Wait \/ Clean \/ Kill \/ RecordEnded
  BY <1>5 DEF Release, Wait, Clean, Kill, RecordEnded
<1>6. CASE Terminate
  BY <1>6 DEF Terminate
<1>7. CASE LauncherKilled
  BY <1>7 DEF LauncherKilled
<1>8. CASE UNCHANGED fbVars
  BY <1>8 DEF fbVars
<1> QED
  BY <1>1, <1>2, <1>3, <1>4, <1>5, <1>6, <1>7, <1>8 DEF FbNext

(* Every step keeps the inductive invariant.                               *)
LEMMA FbInvStep == FbInv /\ [FbNext]_fbVars => FbInv'
BY EntriesStep, FbTypeStep, RecordedStep, FenceStep, ToldStep, OwnedStep,
   NothingStep DEF FbInv

(* What must have happened before has happened, in every state.            *)
THEOREM SessionInvariant == FbSpec => []FbInv
BY FbInvInit, FbInvStep, PTL DEF FbSpec

(* The types of the session.                                               *)
THEOREM SessionTypeCorrect == FbSpec => []FbTypeOK
BY SessionInvariant, PTL DEF FbInv

(* A payload runs behind its fence, and a launcher that was not cut short   *)
(* leaves nothing but what it had not yet in a variable.                   *)
THEOREM SessionIsSafeHolds == FbSpec => []SessionIsSafe
<1>1. FbInv => SessionIsSafe
  BY DEF FbInv, SessionIsSafe, PayloadIsFenced, RecordedFirst, Started,
         CheckpointFirst, AttachedFirst
<1> QED
  BY <1>1, SessionInvariant, PTL

-----------------------------------------------------------------------------
(* The services together, as the run explores them.                        *)

(* The steps of the broker and of the gate keep their types whether or not *)
(* anybody is scheduled fairly.                                            *)
LEMMA BrokerTypesHold == CbInit /\ [][CbNext]_cbVars => []CbTypeOK
BY BrokerTypes, CbInvInit, CbInvStep, QueueInvInit, QueueInvStep, PTL

(* The same of the gate.                                                   *)
LEMMA GateTypesHold == ApInit /\ [][ApNext]_apVars => []ApTypeOK
BY GateTypes, GateInvariant, PTL

(* No service's step touches another: each behaviour of the six together   *)
(* is one of each of them, so what is proved of one without fairness holds *)
(* beside the others.                                                      *)
THEOREM ServicesStayApart ==
  Spec => /\ CbInit /\ [][CbNext]_cbVars
          /\ EpSpec
          /\ ApInit /\ [][ApNext]_apVars
          /\ PtSpec /\ BlSpec /\ FbSpec
<1>1. MCWorld \in Worlds
  <2>1. MCWorld.ceiling \in {c \in Ceilings : ~c.writable}
    BY DEF MCWorld, Ceilings
  <2>2. MCWorld \in [ceiling : Ceilings, walk : Walks, socket : {"none", "seen", "hidden"},
                      repo : {NoRepo}, grant : {Ungranted}, mask : {NoMask}]
    BY <2>1 DEF MCWorld, Walks
  <2>3. Sound(MCWorld)
    BY DEF MCWorld, Sound, NoRepo, Ungranted, NoMask
  <2> QED
    BY <2>2, <2>3 DEF Worlds
<1>2. Init => CbInit /\ EpInit /\ ApInit /\ PtInit /\ BlInit /\ FbInit
  BY <1>1 DEF Init, BlInit
<1>3. [Next]_vars => /\ [CbNext]_cbVars /\ [EpNext]_epVars /\ [ApNext]_apVars
                     /\ [PtNext]_ptVars /\ [BlNext]_blVars /\ [FbNext]_fbVars
  BY DEF Next, Broker, Endpoints, Gate, Turn, Radius, Session, vars
<1> QED
  BY <1>2, <1>3, PTL DEF Spec, EpSpec, PtSpec, BlSpec, FbSpec

(* Everything that the services keep is of its kind, whichever of them are *)
(* explored.                                                               *)
THEOREM ServicesTypeCorrect == Spec => []TypeOK
BY ServicesStayApart, BrokerTypesHold, EndpointsTypeCorrect, GateTypesHold, TurnTypeCorrect,
   BlastTypeCorrect, SessionTypeCorrect, PTL DEF TypeOK

(* What the run checks of them, on its own specification and for every     *)
(* value of the constants: of the values and the queues of the broker, of  *)
(* the approvals, the turn, the levels and the sandbox.                    *)
THEOREM ServicesAreSafe ==
  Spec => /\ [](ValuesAreAccountedFor /\ UsedWhileStanding /\ WhatRunsWasApproved)
          /\ [](TurnIsReadWhole /\ ContainedIsTrue /\ SessionIsSafe)
          /\ PlacesKept
<1>1. CbInit /\ [][CbNext]_cbVars => []ValuesAreAccountedFor /\ PlacesKept
  <2>1. CbInv /\ [CbNext]_cbVars => [PlaceKept]_cbVars
    BY PlacesStep
  <2> QED
    BY <2>1, ValuesAccounted, CbInvInit, CbInvStep, PTL DEF PlacesKept, PlaceKept
<1>2. ApInit /\ [][ApNext]_apVars => [](UsedWhileStanding /\ WhatRunsWasApproved)
  <2>1. GateInv => UsedWhileStanding
    BY DEF GateInv
  <2> QED
    BY <2>1, RunsApproved, GateInvariant, PTL
<1> QED
  BY <1>1, <1>2, ServicesStayApart, TurnIsReadWholeHolds, ContainedIsTrueHolds,
     SessionIsSafeHolds, PTL
=============================================================================
