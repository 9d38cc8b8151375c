------------------------- MODULE AuditTrail_proofs --------------------------
(***************************************************************************)
(* Proofs about the two records of what was done: the audit chain of the   *)
(* missions with its mirror in the journal, and the log of the MCP         *)
(* servers.                                                                *)
(*                                                                         *)
(* The chain (AuditMirror).  As long as nothing was damaged and no line    *)
(* was lost, the lines in the journal and those on their way to it are the *)
(* prefixes of the chain, one for each row, and the other tables say what  *)
(* the chain says (Witnessed).  The verifier reads the three one after the *)
(* other: what it has read is the chain if the chain did not grow          *)
(* meanwhile, and if it did, then the verifier sees that it was overtaken  *)
(* (ReadWhole).  What it then reports is right in both directions.         *)
(*                                                                         *)
(* The log (McpAudit).  A row links to the piece before it whoever wrote   *)
(* that one, and whatever a short write or a killed server left (Linked).  *)
(* A server has a row that asks for the call on the platter before its     *)
(* handler has an effect (Intent, EffectsRequested).                       *)
(*                                                                         *)
(* Each record has its types besides.  Those of the log need numbers that  *)
(* its inductive invariant does not: no call and no row has a number that  *)
(* was not given yet (CallsNumbered, RowsNumbered).                        *)
(***************************************************************************)
EXTENDS AuditMirror, McpAudit, FiniteSetTheorems, WellFoundedInduction,
        SequenceTheorems, TLAPS

-----------------------------------------------------------------------------
(* The audit chain, its mirror and the verifier.                           *)

Events == [serial : Nat, what : {"queued", "running", "record"}]
OnItsWay(l) == \E w \in Writers : l \in flight[w]

AmTyped ==
  /\ log \in Seq(Events) /\ serial \in Nat /\ Len(log) \in 1..serial
  /\ log[1].what # "record"
  /\ \A l \in lines : l.seq \in 1..serial
  /\ lines # {}
  /\ flight \in [Writers -> SUBSET [seq : 1..serial, hash : Seq(Events)]]
  /\ damage \in Nat /\ lost \in BOOLEAN
  /\ vrows.rows \in Seq(Events) /\ vrows.serial \in Nat
  /\ verifier \in {"idle", "rows", "settle", "states", "done"}

\* What the verifier has read is not more than there was, and not less.
ReadInOrder ==
  /\ vrows.lines \subseteq lines
  /\ vrows.serial <= serial
  /\ verifier \in {"settle", "states"} =>
       vrows.lines \subseteq vfirst /\ vfirst \subseteq lines /\ vlast \subseteq lines
       /\ vfirst # {} /\ vlast # {}

\* Where nothing was damaged or lost, the journal and the lines on their way to
\* it are the chain, and the other tables say what it says.
Clean == damage = 0 /\ ~lost
Witnessed ==
  Clean =>
    /\ \A l \in lines : l.seq <= Len(log) /\ l.hash = SubSeq(log, 1, l.seq)
    /\ \A l : OnItsWay(l) => l.seq <= Len(log) /\ l.hash = SubSeq(log, 1, l.seq)
    /\ \A i \in 1..Len(log) : (\E l \in lines : l.seq = i) \/ (\E l : OnItsWay(l) /\ l.seq = i)
    /\ ~failing
    /\ state = StateOf(log)
    /\ records \subseteq Recorded(log)

\* Where nothing was appended since either, the verifier has read the chain, and
\* knows of each line that is on its way.
Steady == Clean /\ serial = vrows.serial
Overtaken == \E f \in vrows.flight, l \in lines : l.seq > f.seq
ReadWhole ==
  Steady =>
    /\ vrows.rows = log
    /\ \A l : OnItsWay(l) => l \in vrows.flight
    /\ verifier = "states" =>
         /\ \E l \in vlast : l.seq = Len(log)
         /\ (\A i \in 1..Len(log) : \E l \in vlast : l.seq = i) \/ Overtaken

AmInv == AmTyped /\ ReadInOrder /\ Witnessed /\ ReadWhole /\ DamageIsFound /\ AlarmsAreExplained

(* A set of numbers up to a bound has a greatest one.                      *)
LEMMA Greatest ==
  ASSUME NEW n \in Nat, NEW I \in SUBSET (0..n), I # {}
  PROVE  /\ Max(I) \in I
         /\ \A j \in I : j <= Max(I)
<1> DEFINE N == 0..n
           T == {i..n : i \in I}
<1>1. IsWellFoundedOn(StrictSubsetOrdering(N), SUBSET N)
  <2>1. IsFiniteSet(N)
    BY FS_Interval
  <2>2. FiniteSubsetsOf(N) = SUBSET N
    BY <2>1, FS_FiniteSubsetsOfFinite
  <2> QED
    BY <2>1, <2>2, FS_StrictSubsetOrderingWellFounded
<1>2. T \subseteq SUBSET N /\ T # {}
  <2>1. \A i \in I : i..n \subseteq N
    OBVIOUS
  <2> QED
    BY <2>1
<1>3. PICK x \in T : \A y \in T : ~(<<y, x>> \in StrictSubsetOrdering(N))
  <2> HIDE DEF T, N
  <2> QED
    BY <1>1, <1>2, WFMin
<1>4. PICK i \in I : x = i..n
  BY <1>3
<1>5. ASSUME NEW j \in I, j > i PROVE FALSE
  <2>1. j..n \in T /\ j..n \subseteq i..n /\ i \in i..n /\ i \notin j..n
    BY <1>5
  <2>2. <<j..n, i..n>> \in StrictSubsetOrdering(N)
    BY <2>1 DEF StrictSubsetOrdering
  <2> QED
    BY <1>3, <1>4, <2>1, <2>2
<1>6. i \in I /\ \A j \in I : i >= j
  BY <1>5
<1>7. Max(I) \in I /\ \A j \in I : Max(I) >= j
  BY <1>6 DEF Max
<1> QED
  BY <1>7

(* And a smallest.                                                         *)
LEMMA Smallest ==
  ASSUME NEW n \in Nat, NEW I \in SUBSET (0..n), I # {}
  PROVE  /\ Min(I) \in I
         /\ \A j \in I : Min(I) <= j
<1> DEFINE J == {n - i : i \in I}
<1>1. J \in SUBSET (0..n) /\ J # {}
  <2>1. \A i \in I : n - i \in 0..n
    OBVIOUS
  <2> QED
    BY <2>1
<1> HIDE DEF J
<1>2. Max(J) \in J /\ \A j \in J : j <= Max(J)
  BY <1>1, Greatest
<1>3. PICK i \in I : Max(J) = n - i
  BY <1>2 DEF J
<1>4. \A j \in I : i <= j
  <2> SUFFICES ASSUME NEW j \in I PROVE i <= j
    OBVIOUS
  <2>1. n - j \in J
    BY DEF J
  <2>2. n - j <= n - i
    BY <1>2, <1>3, <2>1
  <2> QED
    BY <2>2
<1> QED
  BY <1>4 DEF Min

(* The newest line of the journal.                                         *)
LEMMA HeadIsThere ==
  ASSUME NEW n \in Nat, NEW ls, ls # {}, \A l \in ls : l.seq \in 1..n
  PROVE  /\ HeadOf(ls) \in 1..n
         /\ \A l \in ls : l.seq <= HeadOf(ls)
         /\ \E l \in ls : l.seq = HeadOf(ls)
<1> DEFINE I == {l.seq : l \in ls}
<1>1. I \in SUBSET (0..n) /\ I # {}
  OBVIOUS
<1> HIDE DEF I
<1>2. Max(I) \in I /\ \A j \in I : j <= Max(I)
  BY <1>1, Greatest
<1>3. HeadOf(ls) = Max(I)
  BY DEF HeadOf, I
<1> QED
  BY <1>2, <1>3 DEF I

(* An event more: what was the chain up to an earlier event still is.      *)
LEMMA PrefixStays ==
  ASSUME NEW s \in Seq(Events), NEW e \in Events, NEW i \in 1..Len(s)
  PROVE  SubSeq(Append(s, e), 1, i) = SubSeq(s, 1, i)
OBVIOUS

(* The last state is the new one, or the one before if a record was added. *)
LEMMA StateFollows ==
  ASSUME NEW s \in Seq(Events), NEW e \in Events, Len(s) >= 1, s[1].what # "record"
  PROVE  StateOf(Append(s, e)) = IF e.what = "record" THEN StateOf(s) ELSE e.what
<1> DEFINE t == Append(s, e)
           M == {i \in DOMAIN s : s[i].what # "record"}
           K == {i \in DOMAIN t : t[i].what # "record"}
<1>1. /\ Len(s) \in Nat /\ DOMAIN s = 1..Len(s) /\ DOMAIN t = 1..(Len(s) + 1)
      /\ t[Len(s) + 1] = e /\ \A i \in 1..Len(s) : t[i] = s[i]
  OBVIOUS
<1> HIDE DEF t
<1>2. CASE e.what = "record"
  <2>1. K = M
    BY <1>1, <1>2
  <2>2. M \in SUBSET (0..Len(s)) /\ 1 \in M
    BY <1>1
  <2> HIDE DEF K, M
  <2>3. Max(M) \in M
    BY <1>1, <2>2, Greatest
  <2>4. Max(M) \in 1..Len(s)
    BY <1>1, <2>3 DEF M
  <2> QED
    BY <1>1, <1>2, <2>1, <2>4 DEF StateOf, t, K, M
<1>3. CASE e.what # "record"
  <2>1. K \in SUBSET (0..(Len(s) + 1)) /\ Len(s) + 1 \in K /\ Len(s) + 1 \in Nat
    BY <1>1, <1>3
  <2> HIDE DEF K
  <2>2. Max(K) \in K /\ \A j \in K : j <= Max(K)
    BY <1>1, <2>1, Greatest
  <2>3. Max(K) = Len(s) + 1
    <3>1. Max(K) \in 0..(Len(s) + 1) /\ Len(s) + 1 <= Max(K)
      BY <2>1, <2>2
    <3> QED
      BY <2>1, <3>1
  <2> QED
    BY <1>1, <1>3, <2>3 DEF StateOf, t, K
<1> QED
  BY <1>2, <1>3

(* The mission's creation has the invariant.                               *)
LEMMA AmInvInit == AmInit => AmInv
<1> SUFFICES ASSUME AmInit PROVE AmInv
  OBVIOUS
<1> DEFINE e == [serial |-> 1, what |-> "queued"]
<1>1. e \in Events /\ e.what = "queued"
  BY DEF Events
<1> HIDE DEF e
<1>2. log = <<e>> /\ log \in Seq(Events) /\ Len(log) = 1 /\ log[1] = e /\ serial = 1
  BY <1>1 DEF AmInit, e
<1>3. lines = {Line(log, 1)} /\ Line(log, 1).seq = 1 /\ Line(log, 1).hash = SubSeq(log, 1, 1)
  BY DEF AmInit, Line
<1>4. AmTyped
  <2>1. flight \in [Writers -> SUBSET [seq : 1..serial, hash : Seq(Events)]]
    BY DEF AmInit
  <2>2. \A l \in lines : l.seq \in 1..serial
    BY <1>2, <1>3
  <2>3. /\ damage \in Nat /\ lost \in BOOLEAN /\ verifier = "idle"
        /\ vrows.rows = <<>> /\ vrows.serial = 0
    BY DEF AmInit, NotRead
  <2>4. Len(log) \in 1..serial /\ log[1].what # "record" /\ serial \in Nat
    BY <1>1, <1>2
  <2> QED
    BY <1>2, <1>3, <2>1, <2>2, <2>3, <2>4 DEF AmTyped
<1>5. ReadInOrder /\ DamageIsFound /\ AlarmsAreExplained
  BY <1>2 DEF AmInit, ReadInOrder, DamageIsFound, AlarmsAreExplained, NotRead
<1>6. StateOf(log) = "queued"
  <2>1. {i \in DOMAIN log : log[i].what # "record"} = {1}
    BY <1>1, <1>2
  <2>2. Max({1}) = 1
    BY DEF Max
  <2> QED
    BY <1>1, <1>2, <2>1, <2>2 DEF StateOf
<1>7. Witnessed
  <2>1. \A l : ~OnItsWay(l)
    BY DEF AmInit, OnItsWay
  <2>2. \A l \in lines : l.seq = 1 /\ l.hash = SubSeq(log, 1, l.seq)
    BY <1>3
  <2>3. \A i \in 1..Len(log) : \E l \in lines : l.seq = i
    BY <1>2, <1>3
  <2>4. ~failing /\ state = StateOf(log) /\ records = {}
    BY <1>6 DEF AmInit
  <2> QED
    BY <1>2, <2>1, <2>2, <2>3, <2>4 DEF Witnessed
<1>8. ReadWhole
  BY <1>2 DEF AmInit, ReadWhole, Steady, NotRead
<1> QED
  BY <1>4, <1>5, <1>7, <1>8 DEF AmInv

(* What the verifier has read and said stays true while the engine goes on.*)
LEMMA EngineGoesOn ==
  ASSUME AmInv, UNCHANGED report, lines \subseteq lines', serial' \in Nat, serial <= serial',
         damage' \in Nat, damage <= damage', lost => lost',
         \/ ~Steady'
         \/ log' = log /\ damage' = damage /\ lost' = lost /\ serial' = serial
            /\ \A l : OnItsWay(l)' => OnItsWay(l)
  PROVE  ReadInOrder' /\ ReadWhole' /\ DamageIsFound' /\ AlarmsAreExplained'
<1> USE DEF report
<1>t. serial \in Nat /\ damage \in Nat /\ vrows.serial \in Nat
  BY DEF AmInv, AmTyped
<1>1. ReadInOrder'
  BY <1>t DEF AmInv, ReadInOrder
<1>2. DamageIsFound'
  BY DEF AmInv, DamageIsFound
<1>3. AlarmsAreExplained'
  BY <1>t DEF AmInv, AlarmsAreExplained
<1>4. Overtaken => Overtaken'
  BY DEF Overtaken
<1>5. ~Steady' => ReadWhole'
  BY DEF ReadWhole
<1>6. ASSUME log' = log /\ damage' = damage /\ lost' = lost /\ serial' = serial,
             \A l : OnItsWay(l)' => OnItsWay(l)
      PROVE  ReadWhole'
  <2>1. Steady' => Steady
    BY <1>6 DEF Steady, Clean
  <2> QED
    BY <1>4, <1>6, <2>1 DEF AmInv, ReadWhole
<1> QED
  BY <1>1, <1>2, <1>3, <1>5, <1>6

(* An event that is appended is on its way to the journal.                 *)
LEMMA AppendKeeps ==
  ASSUME AmInv, NEW w \in Writers, AppendEvent(w)
  PROVE  AmInv'
<1> DEFINE e == [serial |-> serial', what |-> IF state' = state THEN "record" ELSE state']
           f == Line(log', Len(log'))
<1>1. /\ flight[w] = {} /\ serial' = serial + 1
      /\ log' = Append(log, e) /\ flight' = [flight EXCEPT ![w] = {f}]
      /\ UNCHANGED <<lines, failing, lost, damage, report>>
      /\ \/ state' = (IF state = "queued" THEN "running" ELSE "queued") /\ UNCHANGED records
         \/ records' = records \cup {serial'} /\ UNCHANGED state
  BY DEF AppendEvent
<1>2. /\ log \in Seq(Events) /\ serial \in Nat /\ Len(log) \in 1..serial
      /\ log[1].what # "record" /\ damage \in Nat
      /\ flight \in [Writers -> SUBSET [seq : 1..serial, hash : Seq(Events)]]
  BY DEF AmInv, AmTyped
<1>3. e \in Events /\ e.serial = serial' /\ (e.what = "record" <=> state' = state)
      /\ (state' # state => e.what = state')
  BY <1>1, <1>2 DEF Events
<1> HIDE DEF e
<1>4. /\ log' \in Seq(Events) /\ Len(log') = Len(log) + 1
      /\ log'[Len(log) + 1] = e /\ \A i \in 1..Len(log) : log'[i] = log[i]
      /\ Len(log) \in Nat
  BY <1>1, <1>2, <1>3
<1>5. f.seq = Len(log) + 1 /\ f.hash = SubSeq(log', 1, f.seq)
  BY <1>4 DEF Line
<1>6. f \in [seq : 1..serial', hash : Seq(Events)]
  <2>1. SubSeq(log', 1, Len(log')) \in Seq(Events)
    BY <1>4, SubSeqProperties
  <2>2. Len(log') \in 1..serial'
    BY <1>1, <1>2, <1>4
  <2> QED
    BY <2>1, <2>2 DEF Line
<1> HIDE DEF f
<1>7. AmTyped'
  <2>1. [seq : 1..serial, hash : Seq(Events)] \subseteq [seq : 1..serial', hash : Seq(Events)]
    BY <1>1, <1>2
  <2>2. flight' \in [Writers -> SUBSET [seq : 1..serial', hash : Seq(Events)]]
    BY <1>1, <1>2, <1>6, <2>1
  <2>3. Len(log') \in 1..serial' /\ log'[1].what # "record" /\ serial' \in Nat
    BY <1>1, <1>2, <1>4
  <2>4. \A l \in lines' : l.seq \in 1..serial'
    BY <1>1, <1>2 DEF AmInv, AmTyped
  <2> QED
    BY <1>1, <1>4, <2>2, <2>3, <2>4 DEF AmInv, AmTyped, report
<1>8. ~Steady'
  BY <1>1, <1>2 DEF AmInv, ReadInOrder, AmTyped, Steady, report
<1>9. ReadInOrder' /\ ReadWhole' /\ DamageIsFound' /\ AlarmsAreExplained'
  BY <1>1, <1>2, <1>8, EngineGoesOn
<1>10. Witnessed'
  <2> SUFFICES ASSUME Clean' PROVE Witnessed'
    BY DEF Witnessed
  <2>1. Clean
    BY <1>1 DEF Clean
  <2>2. \A i \in 1..Len(log) : SubSeq(log', 1, i) = SubSeq(log, 1, i)
    BY <1>1, <1>2, <1>3, PrefixStays
  <2>3. \A l \in lines : l.seq \in 1..Len(log) /\ l.hash = SubSeq(log, 1, l.seq)
    BY <1>2, <2>1 DEF AmInv, Witnessed, AmTyped
  <2>4. \A l : OnItsWay(l) => l.seq \in 1..Len(log) /\ l.hash = SubSeq(log, 1, l.seq)
    BY <1>2, <2>1 DEF AmInv, Witnessed, OnItsWay
  <2>5. \A l : OnItsWay(l)' <=> OnItsWay(l) \/ l = f
    BY <1>1, <1>2 DEF OnItsWay
  <2>6. \A l \in lines' : l.seq <= Len(log') /\ l.hash = SubSeq(log', 1, l.seq)
    BY <1>1, <1>4, <2>2, <2>3
  <2>7. \A l : OnItsWay(l)' => l.seq <= Len(log') /\ l.hash = SubSeq(log', 1, l.seq)
    BY <1>4, <1>5, <2>2, <2>4, <2>5
  <2>8. \A i \in 1..Len(log') : (\E l \in lines' : l.seq = i) \/ (\E l : OnItsWay(l)' /\ l.seq = i)
    <3>1. \A i \in 1..Len(log') : i \in 1..Len(log) \/ i = Len(log) + 1
      BY <1>4
    <3>2. \A i \in 1..Len(log) : (\E l \in lines : l.seq = i) \/ (\E l : OnItsWay(l) /\ l.seq = i)
      BY <2>1 DEF AmInv, Witnessed
    <3> QED
      BY <1>1, <1>5, <2>5, <3>1, <3>2
  <2>9. state' = StateOf(log')
    <3>1. StateOf(log') = IF e.what = "record" THEN StateOf(log) ELSE e.what
      BY <1>1, <1>2, <1>3, StateFollows
    <3> QED
      BY <1>3, <2>1, <3>1 DEF AmInv, Witnessed
  <2>10. records' \subseteq Recorded(log')
    <3>1. Recorded(log) \subseteq Recorded(log')
      BY <1>2, <1>4 DEF Recorded, Range
    <3>2. e.what = "record" => serial' \in Recorded(log')
      <4>1. Len(log) + 1 \in DOMAIN log'
        BY <1>4
      <4>2. e \in Range(log')
        BY <1>4, <4>1 DEF Range
      <4> QED
        BY <1>3, <4>2 DEF Recorded
    <3>3. records \subseteq Recorded(log)
      BY <2>1 DEF AmInv, Witnessed
    <3> QED
      BY <1>1, <1>3, <3>1, <3>2, <3>3
  <2>11. ~failing'
    BY <1>1, <2>1 DEF AmInv, Witnessed
  <2> QED
    BY <2>6, <2>7, <2>8, <2>9, <2>10, <2>11 DEF Witnessed
<1> QED
  BY <1>7, <1>9, <1>10 DEF AmInv

(* A line that arrives is no longer on its way.                            *)
LEMMA MirrorKeeps ==
  ASSUME AmInv, NEW w \in Writers, MirrorLine(w)
  PROVE  AmInv'
<1>1. /\ lines' = lines \cup flight[w] /\ failing' = FALSE
      /\ flight' = [flight EXCEPT ![w] = {}]
      /\ UNCHANGED <<log, serial, state, records, lost, damage, report>>
  BY DEF MirrorLine, ledger
<1>2. /\ serial \in Nat /\ damage \in Nat
      /\ flight \in [Writers -> SUBSET [seq : 1..serial, hash : Seq(Events)]]
  BY DEF AmInv, AmTyped
<1>3. /\ \A l : OnItsWay(l)' => OnItsWay(l)
      /\ \A l : OnItsWay(l) => OnItsWay(l)' \/ l \in lines'
      /\ \A l \in lines' : l \in lines \/ OnItsWay(l)
  BY <1>1, <1>2 DEF OnItsWay
<1>4. ReadInOrder' /\ ReadWhole' /\ DamageIsFound' /\ AlarmsAreExplained'
  BY <1>1, <1>2, <1>3, EngineGoesOn
<1>5. AmTyped'
  <2>1. \A l \in lines' : l.seq \in 1..serial'
    BY <1>1, <1>2 DEF AmInv, AmTyped
  <2>2. flight' \in [Writers -> SUBSET [seq : 1..serial', hash : Seq(Events)]]
    BY <1>1, <1>2
  <2> QED
    BY <1>1, <2>1, <2>2 DEF AmInv, AmTyped, report
<1>6. Witnessed'
  <2> SUFFICES ASSUME Clean' PROVE Witnessed'
    BY DEF Witnessed
  <2>1. Clean
    BY <1>1 DEF Clean
  <2>2. /\ \A l \in lines' : l.seq <= Len(log') /\ l.hash = SubSeq(log', 1, l.seq)
        /\ \A l : OnItsWay(l)' => l.seq <= Len(log') /\ l.hash = SubSeq(log', 1, l.seq)
    BY <1>1, <1>3, <2>1 DEF AmInv, Witnessed
  <2>3. \A i \in 1..Len(log') : (\E l \in lines' : l.seq = i) \/ (\E l : OnItsWay(l)' /\ l.seq = i)
    <3>1. \A i \in 1..Len(log) : (\E l \in lines : l.seq = i) \/ (\E l : OnItsWay(l) /\ l.seq = i)
      BY <2>1 DEF AmInv, Witnessed
    <3> QED
      BY <1>1, <1>3, <3>1
  <2> QED
    BY <1>1, <2>1, <2>2, <2>3 DEF AmInv, Witnessed
<1> QED
  BY <1>4, <1>5, <1>6 DEF AmInv

(* A line that is lost, and damage to the database: nothing is claimed any *)
(* more but that what the journal has been told is found.                  *)
LEMMA LossKeeps ==
  ASSUME AmInv, NEW w \in Writers, MirrorFails(w)
  PROVE  AmInv'
<1>1. /\ flight' = [flight EXCEPT ![w] = {}] /\ lost' = TRUE
      /\ UNCHANGED <<log, serial, state, records, lines, damage, report>>
  BY DEF MirrorFails, ledger
<1>2. serial \in Nat /\ damage \in Nat
  BY DEF AmInv, AmTyped
<1>3. ~Steady' /\ Witnessed'
  BY <1>1 DEF Steady, Clean, Witnessed
<1>4. ReadInOrder' /\ ReadWhole' /\ DamageIsFound' /\ AlarmsAreExplained'
  BY <1>1, <1>2, <1>3, EngineGoesOn
<1>5. AmTyped'
  BY <1>1 DEF AmInv, AmTyped, report
<1> QED
  BY <1>3, <1>4, <1>5 DEF AmInv

(* A row that is put back or rewritten: the mirror still has what was      *)
(* there.                                                                  *)
LEMMA DamageKeeps ==
  ASSUME AmInv, NEW k \in DOMAIN log, PutBack(k) \/ RewriteEvent(k)
  PROVE  AmInv'
<1>1. /\ damage' = damage + 1 /\ UNCHANGED <<lines, flight, failing, lost, report>>
  BY DEF PutBack, RewriteEvent, journald
<1>2. /\ log \in Seq(Events) /\ serial \in Nat /\ damage \in Nat /\ Len(log) \in 1..serial
      /\ k \in 1..Len(log) /\ log[1].what # "record"
      /\ flight \in [Writers -> SUBSET [seq : 1..serial, hash : Seq(Events)]]
  BY DEF AmInv, AmTyped
<1>3. /\ log' \in Seq(Events) /\ serial' \in Nat /\ serial <= serial' /\ Len(log') \in 1..serial'
      /\ log'[1].what # "record"
  <2>1. CASE PutBack(k)
    <3>1. log' = SubSeq(log, 1, k) /\ serial' = serial
      BY <2>1 DEF PutBack
    <3> DEFINE q == SubSeq(log, 1, k)
    <3>2. Len(log) \in Nat /\ k \in Nat /\ k >= 1 /\ k <= Len(log)
      BY <1>2
    <3>3. q \in Seq(Events) /\ Len(q) = k /\ \A i \in 1..k : q[i] = log[i]
      <4>1. log \in Seq(Events) /\ \A i \in 1..k : log[i] \in Events
        BY <1>2, <3>2
      <4> QED
        BY <3>2, <4>1, SubSeqProperties
    <3> HIDE DEF q
    <3>4. q[1] = log[1]
      BY <3>2, <3>3
    <3>5. log' = q
      BY <3>1 DEF q
    <3>6. serial' \in Nat /\ serial <= serial' /\ k \in 1..serial'
      BY <1>2, <3>1, <3>2
    <3>7. log'[1].what # "record"
      BY <1>2, <3>4, <3>5
    <3> QED
      BY <3>3, <3>5, <3>6, <3>7
  <2>2. CASE RewriteEvent(k)
    <3>1. log' = [log EXCEPT ![k].serial = serial'] /\ serial' = serial + 1
          /\ log[k].what = "record"
      BY <2>2 DEF RewriteEvent
    <3> DEFINE e == [log[k] EXCEPT !.serial = serial']
    <3>2. e \in Events
      <4>1. log[k] \in Events /\ serial' \in Nat
        BY <1>2, <3>1
      <4> QED
        BY <4>1 DEF Events
    <3>3. log' = [log EXCEPT ![k] = e]
      BY <3>1
    <3> HIDE DEF e
    <3>4. log' \in Seq(Events) /\ Len(log') = Len(log)
      BY <1>2, <3>2, <3>3
    <3>5. log'[1] = log[1]
      <4>1. k # 1
        BY <1>2, <3>1
      <4> QED
        BY <1>2, <3>3, <4>1
    <3> QED
      BY <1>2, <3>1, <3>4, <3>5
  <2> QED
    BY <2>1, <2>2
<1>4. ~Steady' /\ Witnessed'
  BY <1>1, <1>2 DEF Steady, Clean, Witnessed
<1>5. ReadInOrder' /\ ReadWhole' /\ DamageIsFound' /\ AlarmsAreExplained'
  BY <1>1, <1>2, <1>3, <1>4, EngineGoesOn
<1>6. AmTyped'
  <2>1. [seq : 1..serial, hash : Seq(Events)] \subseteq [seq : 1..serial', hash : Seq(Events)]
    BY <1>2, <1>3
  <2>2. flight' \in [Writers -> SUBSET [seq : 1..serial', hash : Seq(Events)]]
    BY <1>1, <1>2, <2>1
  <2>3. \A l \in lines' : l.seq \in 1..serial'
    BY <1>1, <1>2, <1>3 DEF AmInv, AmTyped
  <2> QED
    BY <1>1, <1>2, <1>3, <2>2, <2>3 DEF AmInv, AmTyped, report
<1> QED
  BY <1>4, <1>5, <1>6 DEF AmInv

(* The verifier reads the chain, and later the journal.                    *)
LEMMA ReadKeeps ==
  ASSUME AmInv, VerifyRows \/ ReadJournal \/ ReadJournalAgain
  PROVE  AmInv'
<1>1. UNCHANGED <<log, serial, state, records, lines, flight, failing, lost, damage>>
  BY DEF VerifyRows, ReadJournal, ReadJournalAgain, ledger, journald
<1>2. /\ log \in Seq(Events) /\ serial \in Nat /\ damage \in Nat /\ Len(log) \in 1..serial
      /\ lines # {} /\ \A l \in lines : l.seq \in 1..serial
  BY DEF AmInv, AmTyped
<1>3. Witnessed'
  BY <1>1 DEF AmInv, Witnessed, Clean, OnItsWay
<1>4. (\A l : OnItsWay(l)' <=> OnItsWay(l)) /\ (Clean' <=> Clean)
  BY <1>1 DEF OnItsWay, Clean
<1>5. CASE VerifyRows
  <2>1. /\ verifier' = "rows" /\ vrows'.rows = log /\ vrows'.serial = serial
        /\ vrows'.lines = lines /\ vrows'.flight = UNION {flight[w] : w \in Writers}
    BY <1>5 DEF VerifyRows
  <2>2. AmTyped'
    BY <1>1, <1>2, <2>1 DEF AmInv, AmTyped
  <2>3. ReadInOrder'
    BY <1>1, <1>2, <2>1 DEF ReadInOrder
  <2>4. DamageIsFound' /\ AlarmsAreExplained'
    BY <2>1 DEF DamageIsFound, AlarmsAreExplained
  <2>5. ReadWhole'
    BY <1>1, <1>4, <2>1 DEF ReadWhole, OnItsWay
  <2> QED
    BY <1>3, <2>2, <2>3, <2>4, <2>5 DEF AmInv
<1>6. CASE ReadJournal
  <2>1. /\ verifier = "rows" /\ vfirst' = lines /\ vlast' = lines /\ vrows' = vrows
        /\ verifier' = IF Behind(lines) THEN "settle" ELSE "states"
    BY <1>6 DEF ReadJournal
  <2>2. AmTyped'
    BY <1>1, <2>1 DEF AmInv, AmTyped
  <2>3. ReadInOrder'
    BY <1>1, <1>2, <2>1 DEF AmInv, ReadInOrder
  <2>4. DamageIsFound' /\ AlarmsAreExplained'
    BY <2>1 DEF DamageIsFound, AlarmsAreExplained
  <2>5. ReadWhole'
    <3> SUFFICES ASSUME Steady' PROVE ReadWhole'
      BY DEF ReadWhole
    <3>1. Steady
      BY <1>1, <1>4, <2>1 DEF Steady
    <3>2. vrows.rows = log /\ \A l : OnItsWay(l) => l \in vrows.flight
      BY <3>1 DEF AmInv, ReadWhole
    <3>3. ASSUME verifier' = "states"
          PROVE  /\ \E l \in lines : l.seq = Len(log)
                 /\ (\A i \in 1..Len(log) : \E l \in lines : l.seq = i) \/ Overtaken
      <4>1. HeadOf(lines) >= Len(log) /\ HeadOf(lines) \in 1..serial
        <5>1. ~Behind(lines)
          BY <2>1, <3>3
        <5>2. HeadOf(lines) \in 1..serial
          BY <1>2, HeadIsThere
        <5> QED
          BY <1>2, <3>2, <5>1, <5>2 DEF Behind
      <4>2. PICK l \in lines : l.seq = HeadOf(lines)
        BY <1>2, HeadIsThere
      <4>3. /\ \A m \in lines : m.seq <= Len(log)
            /\ \A i \in 1..Len(log) : (\E m \in lines : m.seq = i) \/ (\E m : OnItsWay(m) /\ m.seq = i)
        BY <3>1 DEF AmInv, Witnessed, Steady
      <4>4. l.seq = Len(log)
        BY <1>2, <4>1, <4>2, <4>3
      <4>5. ASSUME NEW i \in 1..Len(log), ~ \E m \in lines : m.seq = i PROVE Overtaken
        <5>1. PICK f : OnItsWay(f) /\ f.seq = i
          BY <4>3, <4>5
        <5>2. f \in vrows.flight /\ i # Len(log)
          BY <3>2, <4>4, <4>5, <5>1
        <5> QED
          BY <1>2, <4>4, <4>5, <5>1, <5>2 DEF Overtaken
      <4> QED
        BY <4>4, <4>5
    <3> QED
      BY <1>1, <1>4, <2>1, <3>2, <3>3 DEF ReadWhole, Overtaken
  <2> QED
    BY <1>3, <2>2, <2>3, <2>4, <2>5 DEF AmInv
<1>7. CASE ReadJournalAgain
  <2>1. /\ verifier = "settle" /\ vlast' = lines /\ vrows' = vrows /\ vfirst' = vfirst
        /\ verifier' = "states"
        /\ vrows.flight \cap UNION {flight[w] : w \in Writers} = {}
    BY <1>7 DEF ReadJournalAgain
  <2>2. AmTyped'
    BY <1>1, <2>1 DEF AmInv, AmTyped
  <2>3. ReadInOrder'
    BY <1>1, <1>2, <2>1 DEF AmInv, ReadInOrder
  <2>4. DamageIsFound' /\ AlarmsAreExplained'
    BY <2>1 DEF DamageIsFound, AlarmsAreExplained
  <2>5. ReadWhole'
    <3> SUFFICES ASSUME Steady' PROVE ReadWhole'
      BY DEF ReadWhole
    <3>1. Steady
      BY <1>1, <1>4, <2>1 DEF Steady
    <3>2. vrows.rows = log /\ \A l : OnItsWay(l) => l \in vrows.flight
      BY <3>1 DEF AmInv, ReadWhole
    <3>3. \A l : ~OnItsWay(l)
      BY <2>1, <3>2 DEF OnItsWay
    <3>4. \A i \in 1..Len(log) : \E l \in lines : l.seq = i
      BY <3>1, <3>3 DEF AmInv, Witnessed, Steady
    <3>5. Len(log) \in 1..Len(log)
      BY <1>2
    <3> QED
      BY <1>1, <1>4, <2>1, <3>2, <3>4, <3>5 DEF ReadWhole
  <2> QED
    BY <1>3, <2>2, <2>3, <2>4, <2>5 DEF AmInv
<1> QED
  BY <1>5, <1>6, <1>7

(* What the journal was told and the database has lost is among what the   *)
(* verifier reports.                                                       *)
LEMMA VerdictFinds ==
  ASSUME AmInv, Verdict
  PROVE  DamageIsFound'
<1> SUFFICES ASSUME NEW l \in vrows.lines,
                    l.seq > Len(vrows.rows) \/ l.hash # SubSeq(vrows.rows, 1, l.seq)
             PROVE  alarms' \ {"degraded"} # {}
  BY DEF Verdict, DamageIsFound
<1>1. /\ l \in vfirst /\ vfirst # {} /\ \A m \in vfirst : m.seq \in 1..serial
      /\ serial \in Nat /\ vrows.rows \in Seq(Events) /\ l.seq \in Nat
  BY DEF Verdict, AmInv, ReadInOrder, AmTyped
<1>2. CASE l.seq > Len(vrows.rows)
  <2>1. HeadOf(vfirst) \in Nat /\ l.seq <= HeadOf(vfirst)
    <3>1. HeadOf(vfirst) \in 1..serial /\ l.seq <= HeadOf(vfirst)
      BY <1>1, HeadIsThere
    <3> QED
      BY <1>1, <3>1
  <2>2. HeadOf(vfirst) > Len(vrows.rows)
    BY <1>1, <1>2, <2>1
  <2>3. "truncated" \in alarms'
    BY <2>2 DEF Verdict
  <2> QED
    BY <2>3
<1>3. CASE ~(l.seq > Len(vrows.rows))
  <2>1. l.seq <= Len(vrows.rows)
    BY <1>1, <1>3
  <2>2. l \in Rewritten(vrows.rows, vfirst)
    BY <1>1, <1>3, <2>1 DEF Rewritten
  <2>3. "rewritten" \in alarms'
    BY <2>2 DEF Verdict
  <2> QED
    BY <2>3
<1> QED
  BY <1>2, <1>3

(* And it reports nothing for which there is no reason.                    *)
LEMMA VerdictExplained ==
  ASSUME AmInv, Verdict
  PROVE  AlarmsAreExplained'
<1>1. /\ verifier = "states"
      /\ UNCHANGED <<log, serial, state, records, lines, flight, failing, lost, damage, vrows>>
  BY DEF Verdict, ledger, journald
<1>2. /\ serial \in Nat /\ damage \in Nat /\ vrows.serial \in Nat /\ vrows.serial <= serial
      /\ lost \in BOOLEAN /\ log \in Seq(Events) /\ Len(log) \in 1..serial
      /\ \A l \in lines : l.seq \in 1..serial
  BY DEF AmInv, AmTyped, ReadInOrder
<1> SUFFICES ASSUME ~(damage > 0 \/ lost \/ serial > vrows.serial), ~Overtaken
             PROVE  alarms' = {}
  BY <1>1 DEF AlarmsAreExplained, Overtaken
<1>3. Steady /\ Clean
  BY <1>2 DEF Steady, Clean
<1>4. /\ vrows.rows = log
      /\ \E l \in vlast : l.seq = Len(log)
      /\ \A i \in 1..Len(log) : \E l \in vlast : l.seq = i
  BY <1>1, <1>3 DEF AmInv, ReadWhole
<1>5. vfirst \subseteq lines /\ vlast \subseteq lines /\ vfirst # {} /\ vlast # {}
  BY <1>1 DEF AmInv, ReadInOrder
<1>6. /\ \A l \in lines : l.seq <= Len(log) /\ l.hash = SubSeq(log, 1, l.seq)
      /\ ~failing /\ state = StateOf(log) /\ records \subseteq Recorded(log)
  BY <1>3 DEF AmInv, Witnessed
<1>7. /\ HeadOf(vfirst) \in 1..serial /\ HeadOf(vlast) \in 1..serial
      /\ \E l \in vfirst : l.seq = HeadOf(vfirst)
      /\ \A l \in vlast : l.seq <= HeadOf(vlast)
  BY <1>2, <1>5, HeadIsThere
<1>8. ~(HeadOf(vfirst) > Len(log))
  BY <1>2, <1>5, <1>6, <1>7
<1>9. ~(HeadOf(vlast) < Len(log))
  BY <1>2, <1>4, <1>7
<1>10. Rewritten(log, vfirst) = {}
  BY <1>5, <1>6 DEF Rewritten
<1>11. Conflicts(vlast) = {}
  BY <1>5, <1>6 DEF Conflicts
<1>12. Gaps(log, vlast) = {}
  <2> SUFFICES ASSUME NEW i \in Gaps(log, vlast) PROVE FALSE
    OBVIOUS
  <2> DEFINE I == {l.seq : l \in vlast}
  <2>1. i \in Min(I)..HeadOf(vlast) /\ i <= Len(log) /\ i \notin I
    BY DEF Gaps
  <2>2. Min(I) \in I /\ \A j \in I : Min(I) <= j
    <3>1. I \in SUBSET (0..serial) /\ I # {}
      BY <1>2, <1>5
    <3> HIDE DEF I
    <3> QED
      BY <1>2, <3>1, Smallest
  <2>3. Min(I) \in 1..serial
    BY <1>2, <1>5, <2>2
  <2> HIDE DEF I
  <2>4. i \in 1..Len(log)
    BY <1>2, <1>7, <2>1, <2>3
  <2> QED
    BY <1>4, <2>1, <2>4 DEF I
<1> QED
  BY <1>4, <1>6, <1>8, <1>9, <1>10, <1>11, <1>12 DEF Verdict

(* The verdict only says what the verifier has read.                       *)
LEMMA VerdictKeeps ==
  ASSUME AmInv, Verdict
  PROVE  AmInv'
<1>1. /\ verifier' = "done"
      /\ UNCHANGED <<log, serial, state, records, lines, flight, failing, lost, damage, vrows>>
  BY DEF Verdict, ledger, journald
<1>2. AmTyped' /\ Witnessed' /\ ReadInOrder' /\ ReadWhole'
  BY <1>1 DEF AmInv, AmTyped, Witnessed, Clean, OnItsWay, ReadInOrder, ReadWhole, Steady
<1> QED
  BY <1>2, VerdictFinds, VerdictExplained DEF AmInv

(* Every step keeps the invariant.                                         *)
LEMMA AmInvStep == AmInv /\ [AmNext]_amVars => AmInv'
<1> SUFFICES ASSUME AmInv, [AmNext]_amVars PROVE AmInv'
  OBVIOUS
<1>1. CASE UNCHANGED amVars
  <2>1. UNCHANGED <<log, serial, state, records, lines, flight, failing, lost, damage, vrows,
                    vfirst, vlast, verifier, alarms>>
    BY <1>1 DEF amVars, ledger, journald, report
  <2>2. AmTyped' /\ Witnessed' /\ ReadInOrder'
    BY <2>1 DEF AmInv, AmTyped, Witnessed, Clean, OnItsWay, ReadInOrder
  <2>3. ReadWhole' /\ DamageIsFound' /\ AlarmsAreExplained'
    BY <2>1 DEF AmInv, ReadWhole, Steady, Clean, OnItsWay, Overtaken, DamageIsFound,
                AlarmsAreExplained
  <2> QED
    BY <2>2, <2>3 DEF AmInv
<1> QED
  BY <1>1, AppendKeeps, MirrorKeeps, LossKeeps, DamageKeeps, ReadKeeps, VerdictKeeps DEF AmNext

(* The chain, the journal and the verifier of a reachable state are as     *)
(* AmInv says.                                                             *)
THEOREM MirrorInvariant == AmSpec => []AmInv
BY AmInvInit, AmInvStep, PTL DEF AmSpec

(* What the journal has been told and the database no longer holds is      *)
(* found, for any number of events and any damage.                         *)
THEOREM DamageIsFoundHolds == AmSpec => []DamageIsFound
BY MirrorInvariant, PTL DEF AmInv

(* An honest engine is not accused by a verifier that runs beside it.      *)
THEOREM AlarmsAreExplainedHolds == AmSpec => []AlarmsAreExplained
BY MirrorInvariant, PTL DEF AmInv

-----------------------------------------------------------------------------
(* The log of the MCP servers.                                             *)

Outcomes == {"denied", "requested", "completed", "failed"}
LogRows == [phase : Outcomes \cup {"genesis"}, call : Nat, hash : Nat, prev : Nat, seq : Nat]
Pieces == [row : LogRows \cup {Fragment}, newline : BOOLEAN]
Calls == [pc : {"idle", "lock", "genesis", "write", "sync", "handler"}, call : Nat,
          category : Categories, phase : Outcomes \cup {"none"}]

MaTyped ==
  /\ audit \in Seq(Pieces) /\ platter \in 0..Len(audit)
  /\ mcp \in [Servers -> Calls] /\ made \in Nat /\ rows \in Nat

Requested(i, c) == audit[i].row.call = c /\ audit[i].row.phase = "requested"

\* What a call has put into the file where it stands.
Intent(s) ==
  /\ mcp[s].pc \in {"lock", "genesis", "write", "sync"} => mcp[s].phase \in Outcomes
  /\ mcp[s].phase = "requested" => mcp[s].category \in {"MUTATING", "DESTRUCTIVE"}
  /\ mcp[s].pc = "sync" /\ mcp[s].phase = "requested" =>
       \E i \in 1..Len(audit) : Requested(i, mcp[s].call)
  /\ mcp[s].pc = "handler" /\ mcp[s].category # "READ_ONLY" =>
       \E i \in 1..platter : Requested(i, mcp[s].call)

EffectsRequested == \A c \in effects : \E i \in 1..platter : Requested(i, c)

\* A row follows the row that stands before it, and the first one nothing.
Link(i) ==
  audit[i].row # Fragment =>
    IF i = 1 THEN audit[i].row.prev = 0
    ELSE audit[i - 1].row # Fragment =>
           /\ audit[i].row.prev = audit[i - 1].row.hash
           /\ audit[i].row.seq = audit[i - 1].row.seq + 1
Linked == \A i \in 1..Len(audit) : Link(i)

MaInv == MaTyped /\ (\A s \in Servers : Intent(s)) /\ EffectsRequested /\ Linked

(* A row that a server builds is a row, and follows the last piece.        *)
LEMMA RowFollows ==
  ASSUME MaTyped, NEW s \in Servers, NEW ph \in Outcomes \cup {"genesis"}
  PROVE  /\ Row(s, ph) \in LogRows /\ Row(s, ph) # Fragment
         /\ Row(s, ph).phase = ph
         /\ ph # "genesis" => Row(s, ph).call = mcp[s].call
         /\ audit = <<>> => Row(s, ph).prev = 0
         /\ audit # <<>> => /\ Row(s, ph).prev = audit[Len(audit)].row.hash
                            /\ Row(s, ph).seq = audit[Len(audit)].row.seq + 1
<1>1. /\ mcp[s].call \in Nat /\ rows + 1 \in Nat /\ audit \in Seq(Pieces)
  BY DEF MaTyped, Calls
<1>2. ASSUME audit # <<>> PROVE LastRow.hash \in Nat /\ LastRow.seq \in Nat
  <2>1. Len(audit) \in 1..Len(audit)
    BY <1>1, <1>2
  <2>2. audit[Len(audit)] \in Pieces
    BY <1>1, <2>1
  <2> QED
    BY <2>2 DEF LastRow, Pieces, LogRows, Fragment
<1>3. Row(s, ph) \in LogRows
  BY <1>1, <1>2 DEF Row, LogRows
<1>4. Row(s, ph).phase = ph /\ Fragment.phase = "fragment"
  BY DEF Row, Fragment
<1>5. Row(s, ph) # Fragment
  BY <1>4 DEF Outcomes
<1> QED
  BY <1>3, <1>4, <1>5 DEF Row, LastRow

(* One piece more behind the others: nothing that was there is changed.    *)
LEMMA PieceAppended ==
  ASSUME MaTyped, NEW p \in Pieces, audit' = Append(audit, p)
  PROVE  /\ audit' \in Seq(Pieces) /\ Len(audit') = Len(audit) + 1 /\ Len(audit) \in Nat
         /\ \A i \in 1..Len(audit) : audit'[i] = audit[i]
         /\ audit'[Len(audit) + 1] = p
BY DEF MaTyped

(* The piece that a write puts there keeps the chain linked.               *)
LEMMA WriteLinks ==
  ASSUME MaTyped, Linked, NEW s \in Servers, NEW ph \in Outcomes \cup {"genesis"},
         NEW r \in {Fragment, Row(s, ph)}, NEW b \in BOOLEAN,
         audit' = Append(audit, [row |-> r, newline |-> b])
  PROVE  /\ audit' \in Seq(Pieces) /\ Len(audit') = Len(audit) + 1 /\ Len(audit) \in Nat
         /\ \A i \in 1..Len(audit) : audit'[i] = audit[i]
         /\ audit'[Len(audit) + 1].row = r
         /\ Linked'
<1> DEFINE p == [row |-> r, newline |-> b]
<1>1. p \in Pieces /\ p.row = r
  BY RowFollows DEF Pieces
<1> HIDE DEF p
<1>2. audit' = Append(audit, p)
  BY DEF p
<1>3. /\ audit' \in Seq(Pieces) /\ Len(audit') = Len(audit) + 1 /\ Len(audit) \in Nat
      /\ \A i \in 1..Len(audit) : audit'[i] = audit[i]
      /\ audit'[Len(audit) + 1] = p
  BY <1>1, <1>2, PieceAppended
<1>4. ASSUME NEW i \in 1..Len(audit) PROVE Link(i)'
  BY <1>3, <1>4 DEF Linked, Link
<1>5. ASSUME NEW i, i = Len(audit) + 1 PROVE Link(i)'
  <2>1. CASE r = Fragment
    BY <1>1, <1>3, <1>5, <2>1 DEF Link
  <2>2. CASE r = Row(s, ph) /\ audit = <<>>
    <3>1. Len(audit) = 0
      BY <2>2
    <3> QED
      BY <1>1, <1>3, <1>5, <2>2, <3>1, RowFollows DEF Link
  <2>3. CASE r = Row(s, ph) /\ audit # <<>>
    <3>1. Len(audit) # 0
      BY <2>3 DEF MaTyped
    <3>2. audit'[i - 1] = audit[Len(audit)] /\ i # 1
      BY <1>3, <1>5, <3>1
    <3>3. audit'[i].row = r
      BY <1>1, <1>3, <1>5
    <3>4. r.prev = audit[Len(audit)].row.hash /\ r.seq = audit[Len(audit)].row.seq + 1
      BY <2>3, RowFollows
    <3> QED
      BY <3>2, <3>3, <3>4 DEF Link
  <2> QED
    BY <2>1, <2>2, <2>3
<1>6. \A i \in 1..Len(audit') : i \in 1..Len(audit) \/ i = Len(audit) + 1
  BY <1>3
<1> QED
  BY <1>1, <1>3, <1>4, <1>5, <1>6 DEF Linked

(* While the file and what is synced of it only grow, what was on record   *)
(* for a call stays on record.                                             *)
LEMMA FileGrows ==
  ASSUME MaInv, audit' \in Seq(Pieces), platter' \in 0..Len(audit'), platter <= platter',
         Len(audit) <= Len(audit'), \A i \in 1..Len(audit) : audit'[i] = audit[i]
  PROVE  /\ \A c : (\E i \in 1..platter : Requested(i, c)) => (\E i \in 1..platter' : Requested(i, c)')
         /\ \A c : (\E i \in 1..Len(audit) : Requested(i, c))
                     => (\E i \in 1..Len(audit') : Requested(i, c)')
         /\ \A s \in Servers : mcp'[s] = mcp[s] => Intent(s)'
         /\ effects' = effects => EffectsRequested'
<1>1. Len(audit) \in Nat /\ Len(audit') \in Nat /\ platter \in 0..Len(audit)
  BY DEF MaInv, MaTyped
<1>2. \A i \in 1..Len(audit) : \A c : Requested(i, c) => Requested(i, c)'
  BY DEF Requested
<1>3. /\ \A c : (\E i \in 1..platter : Requested(i, c)) => (\E i \in 1..platter' : Requested(i, c)')
      /\ \A c : (\E i \in 1..Len(audit) : Requested(i, c))
                  => (\E i \in 1..Len(audit') : Requested(i, c)')
  <2>1. ASSUME NEW c, NEW i \in 1..platter, Requested(i, c)
        PROVE  \E j \in 1..platter' : Requested(j, c)'
    <3>1. i \in 1..Len(audit) /\ i \in 1..platter'
      BY <1>1
    <3> QED
      BY <1>2, <2>1, <3>1
  <2>2. ASSUME NEW c, NEW i \in 1..Len(audit), Requested(i, c)
        PROVE  \E j \in 1..Len(audit') : Requested(j, c)'
    <3>1. i \in 1..Len(audit')
      BY <1>1
    <3> QED
      BY <1>2, <2>2, <3>1
  <2> QED
    BY <2>1, <2>2
<1>4. ASSUME NEW s \in Servers, mcp'[s] = mcp[s] PROVE Intent(s)'
  BY <1>3, <1>4 DEF MaInv, Intent
<1>5. effects' = effects => EffectsRequested'
  BY <1>3 DEF MaInv, EffectsRequested
<1> QED
  BY <1>3, <1>4, <1>5

(* A step of one server that leaves the file as it is: what is to show is  *)
(* where the server stands then.                                           *)
LEMMA FileAsItIs ==
  ASSUME MaInv, NEW s \in Servers, NEW v \in Calls, mcp' = [mcp EXCEPT ![s] = v],
         UNCHANGED <<audit, platter, effects>>, made' \in Nat, rows' \in Nat, Intent(s)'
  PROVE  MaInv'
<1>1. MaTyped'
  BY DEF MaInv, MaTyped
<1>2. Linked'
  BY DEF MaInv, Linked, Link
<1>3. platter \in 0..Len(audit) /\ Len(audit) \in Nat /\ audit \in Seq(Pieces)
  BY DEF MaInv, MaTyped
<1>4. /\ \A t \in Servers : mcp'[t] = mcp[t] => Intent(t)'
      /\ EffectsRequested'
  BY <1>3, FileGrows
<1>5. \A t \in Servers : t = s \/ mcp'[t] = mcp[t]
  BY DEF MaInv, MaTyped
<1> QED
  BY <1>1, <1>2, <1>4, <1>5 DEF MaInv

(* A write that puts a piece there, and perhaps syncs it.                  *)
LEMMA FileWritten ==
  ASSUME MaInv, NEW s \in Servers, NEW v \in Calls, mcp' = [mcp EXCEPT ![s] = v],
         NEW ph \in Outcomes \cup {"genesis"}, NEW r \in {Fragment, Row(s, ph)}, NEW b \in BOOLEAN,
         audit' = Append(audit, [row |-> r, newline |-> b]),
         platter' \in {platter, Len(audit')}, UNCHANGED <<effects, made>>, rows' \in Nat, Intent(s)'
  PROVE  MaInv'
<1>1. /\ audit' \in Seq(Pieces) /\ Len(audit') = Len(audit) + 1 /\ Len(audit) \in Nat
      /\ \A i \in 1..Len(audit) : audit'[i] = audit[i]
      /\ Linked'
  BY WriteLinks DEF MaInv
<1>2. platter' \in 0..Len(audit') /\ platter <= platter' /\ Len(audit) <= Len(audit')
  BY <1>1 DEF MaInv, MaTyped
<1>3. MaTyped'
  BY <1>1, <1>2 DEF MaInv, MaTyped
<1>4. /\ \A t \in Servers : mcp'[t] = mcp[t] => Intent(t)'
      /\ EffectsRequested'
  BY <1>1, <1>2, FileGrows
<1>5. \A t \in Servers : t = s \/ mcp'[t] = mcp[t]
  BY DEF MaInv, MaTyped
<1> QED
  BY <1>1, <1>3, <1>4, <1>5 DEF MaInv

(* The empty log has the invariant.                                        *)
LEMMA MaInvInit == MaInit => MaInv
<1> SUFFICES ASSUME MaInit PROVE MaInv
  OBVIOUS
<1>1. Idle \in Calls /\ audit = <<>> /\ audit \in Seq(Pieces) /\ Len(audit) = 0
  BY DEF MaInit, Idle, Calls, Categories
<1>2. MaTyped
  BY <1>1 DEF MaInit, MaTyped
<1>3. \A s \in Servers : Intent(s)
  BY DEF MaInit, Intent, Idle
<1> QED
  BY <1>1, <1>2, <1>3 DEF MaInit, MaInv, EffectsRequested, Linked

(* A server that gives up, or that goes on after a row that was written.   *)
LEMMA Continues ==
  ASSUME MaInv, NEW s \in Servers, NEW w \in BOOLEAN, Continue(s, w)
  PROVE  \E v \in Calls :
           /\ mcp' = [mcp EXCEPT ![s] = v] /\ mcp'[s] = v
           /\ \/ v = Idle
              \/ /\ w /\ mcp[s].phase = "requested"
                 /\ v.pc = "handler" /\ v.phase = "none" /\ v.call = mcp[s].call
                 /\ v.category = mcp[s].category
<1> DEFINE c == mcp[s]
           v == IF c.phase = "requested" /\ w THEN [c EXCEPT !.pc = "handler", !.phase = "none"]
                ELSE Idle
<1>1. c \in Calls /\ Idle \in Calls /\ mcp \in [Servers -> Calls]
  BY DEF MaInv, MaTyped, Idle, Calls, Categories
<1>2. mcp' = [mcp EXCEPT ![s] = v]
  BY DEF Continue
<1> DEFINE u == [c EXCEPT !.pc = "handler", !.phase = "none"]
<1> HIDE DEF c
<1>3. /\ u \in Calls /\ u.pc = "handler" /\ u.phase = "none"
      /\ u.call = c.call /\ u.category = c.category
  BY <1>1 DEF Calls
<1> HIDE DEF u
<1>4. v \in Calls
  BY <1>1, <1>3 DEF u
<1>5. \/ v = Idle
      \/ /\ w /\ c.phase = "requested"
         /\ v.pc = "handler" /\ v.phase = "none" /\ v.call = c.call /\ v.category = c.category
  BY <1>3 DEF u
<1> HIDE DEF v
<1>6. mcp'[s] = v
  BY <1>1, <1>2
<1> QED
  BY <1>2, <1>4, <1>5, <1>6 DEF c

(* A server without a call has written nothing ahead.                      *)
LEMMA IdleIntent ==
  ASSUME NEW s \in Servers, mcp'[s] = Idle
  PROVE  Intent(s)'
BY DEF Intent, Idle

(* A call enters: the gate decides what its first row will say.            *)
LEMMA CallKeeps ==
  ASSUME MaInv, NEW s \in Servers, NEW category \in Categories, NEW observed \in BOOLEAN,
         Call(s, category, observed)
  PROVE  MaInv'
<1> DEFINE next(pc, phase) == [pc |-> pc, call |-> made', category |-> category, phase |-> phase]
           v == IF ~Gate(s, category, observed) THEN next("lock", "denied")
                ELSE IF category = "READ_ONLY" THEN next("handler", "none")
                ELSE next("lock", "requested")
<1>1. mcp' = [mcp EXCEPT ![s] = v] /\ made' = made + 1
      /\ UNCHANGED <<audit, platter, rows, effects>>
  BY DEF Call
<1>2. made' \in Nat /\ rows' \in Nat /\ mcp \in [Servers -> Calls]
  BY <1>1 DEF MaInv, MaTyped
<1>3. v \in Calls
  BY <1>2 DEF Calls, Outcomes
<1>4. /\ v.pc \in {"lock", "handler"} /\ v.phase \in Outcomes \cup {"none"}
      /\ v.pc = "lock" => v.phase \in Outcomes
      /\ v.phase = "requested" => v.category \in {"MUTATING", "DESTRUCTIVE"}
      /\ v.pc = "handler" => v.category = "READ_ONLY"
  BY DEF Outcomes, Gate, Categories
<1> HIDE DEF v
<1>5. mcp'[s] = v
  BY <1>1, <1>2
<1>6. Intent(s)'
  BY <1>4, <1>5 DEF Intent
<1> QED
  BY <1>1, <1>2, <1>3, <1>6, FileAsItIs

\* A server that only moves on.
Moves(s, to) == mcp' = [mcp EXCEPT ![s].pc = to]

(* A server that goes on keeps its call.                                   *)
LEMMA MovesTo ==
  ASSUME MaInv, NEW s \in Servers,
         NEW to \in {"idle", "lock", "genesis", "write", "sync", "handler"}, Moves(s, to)
  PROVE  \E v \in Calls :
           /\ mcp' = [mcp EXCEPT ![s] = v] /\ mcp'[s] = v /\ v.pc = to
           /\ v.call = mcp[s].call /\ v.category = mcp[s].category /\ v.phase = mcp[s].phase
<1> DEFINE v == [mcp[s] EXCEPT !.pc = to]
<1>1. mcp[s] \in Calls /\ mcp \in [Servers -> Calls]
  BY DEF MaInv, MaTyped
<1>2. /\ v \in Calls /\ v.pc = to
      /\ v.call = mcp[s].call /\ v.category = mcp[s].category /\ v.phase = mcp[s].phase
  BY <1>1 DEF Calls
<1>3. mcp' = [mcp EXCEPT ![s] = v]
  BY DEF Moves
<1> HIDE DEF v
<1>4. mcp'[s] = v
  BY <1>1, <1>3
<1> QED
  BY <1>2, <1>3, <1>4

(* Taking the lock reads the log and writes nothing.                       *)
LEMMA LockLogKeeps ==
  ASSUME MaInv, NEW s \in Servers, LockLog(s)
  PROVE  MaInv'
<1>1. UNCHANGED <<audit, platter, effects>> /\ made' \in Nat /\ rows' \in Nat
      /\ mcp[s].pc = "lock"
  BY DEF LockLog, MaInv, MaTyped
<1>2. CASE Moves(s, "genesis") \/ Moves(s, "write")
  <2>1. PICK to \in {"genesis", "write"} : Moves(s, to)
    BY <1>2
  <2>2. PICK v \in Calls :
           /\ mcp' = [mcp EXCEPT ![s] = v] /\ mcp'[s] = v /\ v.pc = to
           /\ v.call = mcp[s].call /\ v.category = mcp[s].category /\ v.phase = mcp[s].phase
    BY <2>1, MovesTo
  <2>3. Intent(s)'
    BY <1>1, <2>1, <2>2 DEF MaInv, Intent
  <2> QED
    BY <1>1, <2>2, <2>3, FileAsItIs
<1>3. CASE Continue(s, FALSE)
  <2>1. PICK v \in Calls : mcp' = [mcp EXCEPT ![s] = v] /\ mcp'[s] = v /\ v = Idle
    BY <1>3, Continues
  <2>2. Intent(s)'
    BY <2>1, IdleIntent
  <2> QED
    BY <1>1, <2>1, <2>2, FileAsItIs
<1> QED
  BY <1>2, <1>3 DEF LockLog, Moves

(* The first row of a log links to nothing.                                *)
LEMMA GenesisKeeps ==
  ASSUME MaInv, NEW s \in Servers, Genesis(s)
  PROVE  MaInv'
<1>1. /\ mcp[s].pc = "genesis" /\ Moves(s, "write") /\ UNCHANGED <<effects, made>>
      /\ audit' = Append(audit, [row |-> Row(s, "genesis"), newline |-> TRUE])
      /\ platter' = Len(audit') /\ rows' \in Nat
  BY DEF Genesis, Moves, MaInv, MaTyped
<1>2. PICK v \in Calls :
         /\ mcp' = [mcp EXCEPT ![s] = v] /\ mcp'[s] = v /\ v.pc = "write"
         /\ v.call = mcp[s].call /\ v.category = mcp[s].category /\ v.phase = mcp[s].phase
  BY <1>1, MovesTo
<1>3. Intent(s)'
  BY <1>1, <1>2 DEF MaInv, Intent
<1> QED
  BY <1>1, <1>2, <1>3, FileWritten

(* A row goes behind the last whole line, linked to it.                    *)
LEMMA WriteRowKeeps ==
  ASSUME MaInv, NEW s \in Servers, WriteRow(s)
  PROVE  MaInv'
<1> DEFINE ph == mcp[s].phase
<1>1. /\ mcp[s].pc = "write" /\ UNCHANGED <<effects, made, platter>>
      /\ audit' = Append(audit, [row |-> Row(s, ph), newline |-> TRUE])
      /\ rows' \in Nat
  BY DEF WriteRow, MaInv, MaTyped
<1>2. ph \in Outcomes
  BY <1>1 DEF MaInv, Intent
<1>3. /\ Len(audit') = Len(audit) + 1 /\ Len(audit) \in Nat
      /\ audit'[Len(audit) + 1].row = Row(s, ph)
  BY <1>1, <1>2, WriteLinks DEF MaInv
<1>4. Row(s, ph).phase = ph /\ Row(s, ph).call = mcp[s].call
  BY <1>2, RowFollows DEF MaInv, Outcomes
<1>5. CASE Durable(s)
  <2>1. Moves(s, "sync")
    BY <1>5 DEF WriteRow, Moves
  <2>2. PICK v \in Calls :
           /\ mcp' = [mcp EXCEPT ![s] = v] /\ mcp'[s] = v /\ v.pc = "sync"
           /\ v.call = mcp[s].call /\ v.category = mcp[s].category /\ v.phase = mcp[s].phase
    BY <2>1, MovesTo
  <2>3. v.phase = "requested" => \E i \in 1..Len(audit') : Requested(i, v.call)'
    BY <1>3, <1>4, <2>2 DEF Requested
  <2>4. Intent(s)'
    BY <1>1, <2>2, <2>3 DEF MaInv, Intent
  <2> QED
    BY <1>1, <1>2, <2>2, <2>4, FileWritten
<1>6. CASE ~Durable(s)
  <2>1. Continue(s, TRUE)
    BY <1>6 DEF WriteRow
  <2>2. ph # "requested"
    BY <1>6 DEF Durable, MaInv, Intent
  <2>3. PICK v \in Calls : mcp' = [mcp EXCEPT ![s] = v] /\ mcp'[s] = v /\ v = Idle
    BY <2>1, <2>2, Continues
  <2>4. Intent(s)'
    BY <2>3, IdleIntent
  <2> QED
    BY <1>1, <1>2, <2>3, <2>4, FileWritten
<1> QED
  BY <1>5, <1>6

(* The row is on the platter before its call goes on.                      *)
LEMMA SyncRowKeeps ==
  ASSUME MaInv, NEW s \in Servers, SyncRow(s)
  PROVE  MaInv'
<1>1. /\ mcp[s].pc = "sync" /\ UNCHANGED <<audit, effects, made, rows>>
      /\ platter' = Len(audit) /\ Continue(s, TRUE)
  BY DEF SyncRow
<1>2. /\ platter \in 0..Len(audit) /\ Len(audit) \in Nat /\ audit \in Seq(Pieces)
      /\ mcp \in [Servers -> Calls]
  BY DEF MaInv, MaTyped
<1>3. PICK v \in Calls :
           /\ mcp' = [mcp EXCEPT ![s] = v] /\ mcp'[s] = v
           /\ \/ v = Idle
              \/ /\ mcp[s].phase = "requested"
                 /\ v.pc = "handler" /\ v.phase = "none" /\ v.call = mcp[s].call
                 /\ v.category = mcp[s].category
  BY <1>1, Continues
<1>4. mcp[s].phase = "requested" => \E i \in 1..Len(audit) : Requested(i, mcp[s].call)
  BY <1>1 DEF MaInv, Intent
<1>5. Intent(s)'
  <2>1. CASE v = Idle
    BY <1>3, <2>1, IdleIntent
  <2>2. CASE v # Idle
    <3>1. \E i \in 1..Len(audit) : Requested(i, mcp[s].call)
      BY <1>3, <1>4, <2>2
    <3>2. \E i \in 1..platter' : Requested(i, v.call)'
      BY <1>1, <1>3, <2>2, <3>1 DEF Requested
    <3> QED
      BY <1>3, <2>2, <3>2 DEF Intent
  <2> QED
    BY <2>1, <2>2
<1>6. MaTyped'
  BY <1>1, <1>2, <1>3 DEF MaInv, MaTyped
<1>7. /\ \A t \in Servers : mcp'[t] = mcp[t] => Intent(t)'
      /\ EffectsRequested'
  BY <1>1, <1>2, FileGrows
<1>8. \A t \in Servers : t = s \/ mcp'[t] = mcp[t]
  BY <1>2, <1>3
<1>9. Linked'
  BY <1>1 DEF MaInv, Linked, Link
<1> QED
  BY <1>5, <1>6, <1>7, <1>8, <1>9 DEF MaInv

(* A short write leaves a piece that no row links to.                      *)
LEMMA WriteFailsKeeps ==
  ASSUME MaInv, NEW s \in Servers, WriteFails(s)
  PROVE  MaInv'
<1> DEFINE ph == IF mcp[s].pc = "genesis" THEN "genesis" ELSE mcp[s].phase
<1>1. /\ mcp[s].pc \in {"genesis", "write", "sync"} /\ UNCHANGED <<effects, made, platter>>
      /\ Continue(s, FALSE) /\ rows' = rows + 1
  BY DEF WriteFails
<1>2. PICK v \in Calls : mcp' = [mcp EXCEPT ![s] = v] /\ mcp'[s] = v /\ v = Idle
  BY <1>1, Continues
<1>3. Intent(s)' /\ rows' \in Nat /\ made' \in Nat
  BY <1>1, <1>2, IdleIntent DEF MaInv, MaTyped
<1>4. CASE UNCHANGED audit
  BY <1>1, <1>2, <1>3, <1>4, FileAsItIs
<1>5. CASE \E r \in {Fragment, Row(s, ph)}, b \in BOOLEAN :
             audit' = Append(audit, [row |-> r, newline |-> b])
  <2>1. ph \in Outcomes \cup {"genesis"}
    BY <1>1 DEF MaInv, Intent
  <2> HIDE DEF ph
  <2>2. PICK r \in {Fragment, Row(s, ph)}, b \in BOOLEAN :
             audit' = Append(audit, [row |-> r, newline |-> b])
    BY <1>5
  <2> QED
    BY <1>1, <1>2, <1>3, <2>1, <2>2, FileWritten
<1>6. \/ UNCHANGED audit
      \/ audit' \in {Append(audit, [row |-> Fragment, newline |-> FALSE]),
                    Append(audit, [row |-> Row(s, ph), newline |-> FALSE]),
                    Append(audit, [row |-> Row(s, ph), newline |-> TRUE])}
  BY DEF WriteFails
<1> QED
  BY <1>4, <1>5, <1>6

(* The handler has its effect only behind a row that asks for it.          *)
LEMMA HandleKeeps ==
  ASSUME MaInv, NEW s \in Servers, Handle(s)
  PROVE  MaInv'
<1> DEFINE v == [mcp[s] EXCEPT !.pc = "lock",
                   !.phase = IF mcp[s].call \in effects' THEN "completed" ELSE "failed"]
<1>1. /\ mcp[s].pc = "handler" /\ UNCHANGED <<audit, platter, made, rows>>
      /\ effects' \in {effects, effects \cup {mcp[s].call}}
      /\ mcp[s].category = "READ_ONLY" => effects' = effects
      /\ mcp' = [mcp EXCEPT ![s] = v]
  BY DEF Handle
<1>2. /\ mcp[s] \in Calls /\ mcp \in [Servers -> Calls] /\ platter \in 0..Len(audit)
      /\ Len(audit) \in Nat /\ audit \in Seq(Pieces)
  BY DEF MaInv, MaTyped
<1>3. v \in Calls /\ v.pc = "lock" /\ v.phase \in {"completed", "failed"}
  BY <1>2 DEF Calls, Outcomes
<1> HIDE DEF v
<1>4. mcp'[s] = v
  BY <1>1, <1>2
<1>5. Intent(s)'
  BY <1>3, <1>4 DEF Intent, Outcomes
<1>6. MaTyped'
  BY <1>1, <1>2, <1>3 DEF MaInv, MaTyped
<1>7. \A t \in Servers : mcp'[t] = mcp[t] => Intent(t)'
  BY <1>1, <1>2, FileGrows
<1>8. \A t \in Servers : t = s \/ mcp'[t] = mcp[t]
  BY <1>1, <1>2
<1>9. Linked'
  BY <1>1 DEF MaInv, Linked, Link
<1>10. effects' # effects => \E i \in 1..platter : Requested(i, mcp[s].call)
  BY <1>1 DEF MaInv, Intent
<1>11. EffectsRequested'
  BY <1>1, <1>10 DEF MaInv, EffectsRequested, Requested
<1> QED
  BY <1>5, <1>6, <1>7, <1>8, <1>9, <1>11 DEF MaInv

(* A server that is killed leaves the rows it has written.                 *)
LEMMA ServerKilledKeeps ==
  ASSUME MaInv, NEW s \in Servers, ServerKilled(s)
  PROVE  MaInv'
<1>1. /\ mcp' = [mcp EXCEPT ![s] = Idle] /\ UNCHANGED <<audit, platter, effects>>
      /\ made' \in Nat /\ rows' \in Nat
  BY DEF ServerKilled, MaInv, MaTyped
<1>2. Idle \in Calls /\ mcp'[s] = Idle
  BY <1>1 DEF MaInv, MaTyped, Idle, Calls, Categories
<1> QED
  BY <1>1, <1>2, IdleIntent, FileAsItIs

(* What the power leaves is the synced part, whole pieces after it, and of *)
(* the next piece a fragment or its row.                                   *)
LEMMA PowerLostKeeps ==
  ASSUME MaInv, PowerLost
  PROVE  MaInv'
<1>1. /\ mcp' = [s \in Servers |-> Idle] /\ UNCHANGED <<made, rows, effects>>
      /\ platter' = Len(audit')
  BY DEF PowerLost
<1>2. PICK k \in platter..Len(audit) :
        \/ audit' = SubSeq(audit, 1, k)
        \/ /\ k # Len(audit)
           /\ \E r \in {Fragment, audit[k + 1].row} :
                audit' = Append(SubSeq(audit, 1, k), [row |-> r, newline |-> FALSE])
  BY DEF PowerLost
<1>3. /\ audit \in Seq(Pieces) /\ Len(audit) \in Nat /\ platter \in 0..Len(audit)
      /\ k \in Nat /\ k <= Len(audit)
  BY DEF MaInv, MaTyped
<1> DEFINE q == SubSeq(audit, 1, k)
<1>4. q \in Seq(Pieces) /\ Len(q) = k /\ \A i \in 1..k : q[i] = audit[i]
  BY <1>3
<1> HIDE DEF q
<1> DEFINE Kept ==
             /\ audit' \in Seq(Pieces) /\ Len(audit') \in Nat /\ Len(audit') >= k
             /\ \A i \in 1..k : audit'[i] = audit[i]
             /\ \A i \in 1..Len(audit') : i \in 1..k \/ i = k + 1
             /\ Len(audit') # k => k + 1 \in 1..Len(audit)
                                   /\ audit'[k + 1].row \in {Fragment, audit[k + 1].row}
<1>5. Kept
  <2>1. CASE audit' = q
    BY <1>4, <1>3, <2>1
  <2>2. ASSUME k # Len(audit), NEW r \in {Fragment, audit[k + 1].row},
               audit' = Append(q, [row |-> r, newline |-> FALSE])
        PROVE  Kept
    <3> DEFINE p == [row |-> r, newline |-> FALSE]
    <3>1. k + 1 \in 1..Len(audit)
      BY <1>3, <2>2
    <3>2. p \in Pieces /\ p.row = r
      <4>1. audit[k + 1] \in Pieces
        BY <1>3, <3>1
      <4>2. r \in LogRows \cup {Fragment}
        BY <4>1 DEF Pieces
      <4> QED
        BY <4>2 DEF Pieces
    <3> HIDE DEF p
    <3>3. audit' = Append(q, p)
      BY <2>2 DEF p
    <3>4. /\ audit' \in Seq(Pieces) /\ Len(audit') = k + 1
          /\ \A i \in 1..k : audit'[i] = q[i]
          /\ audit'[k + 1] = p
      BY <1>3, <1>4, <3>2, <3>3
    <3> QED
      BY <1>3, <1>4, <3>1, <3>2, <3>4
  <2> QED
    BY <1>2, <2>1, <2>2 DEF q
<1>6. Linked'
  <2> SUFFICES ASSUME NEW i \in 1..Len(audit') PROVE Link(i)'
    BY DEF Linked
  <2>1. CASE i \in 1..k
    <3>1. i \in 1..Len(audit) /\ (i # 1 => i - 1 \in 1..k)
      BY <1>3, <2>1
    <3>2. Link(i) /\ audit'[i] = audit[i] /\ (i # 1 => audit'[i - 1] = audit[i - 1])
      BY <1>5, <2>1, <3>1 DEF MaInv, Linked
    <3> QED
      BY <3>2 DEF Link
  <2>2. CASE i = k + 1
    <3>1. i \in 1..Len(audit) /\ audit'[i].row \in {Fragment, audit[i].row}
      BY <1>3, <1>5, <2>2
    <3>2. Link(i) /\ (i # 1 => audit'[i - 1] = audit[i - 1])
      BY <1>3, <1>5, <2>2, <3>1 DEF MaInv, Linked
    <3> QED
      BY <3>1, <3>2 DEF Link
  <2> QED
    BY <1>5, <2>1, <2>2
<1>7. Idle \in Calls
  BY DEF Idle, Calls, Categories
<1>8. MaTyped'
  BY <1>1, <1>5, <1>7 DEF MaInv, MaTyped
<1>9. \A s \in Servers : Intent(s)'
  BY <1>1, IdleIntent
<1>10. EffectsRequested'
  <2>1. \A i \in 1..platter : i \in 1..platter' /\ audit'[i] = audit[i]
    BY <1>1, <1>3, <1>5
  <2> QED
    BY <1>1, <2>1 DEF MaInv, EffectsRequested, Requested
<1> QED
  BY <1>6, <1>8, <1>9, <1>10 DEF MaInv

(* Every step keeps the invariant.                                         *)
LEMMA MaInvStep == MaInv /\ [MaNext]_maVars => MaInv'
<1> SUFFICES ASSUME MaInv, [MaNext]_maVars PROVE MaInv'
  OBVIOUS
<1>1. CASE UNCHANGED maVars
  BY <1>1 DEF maVars, MaInv, MaTyped, Intent, EffectsRequested, Requested, Linked, Link
<1> QED
  BY <1>1, CallKeeps, LockLogKeeps, GenesisKeeps, WriteRowKeeps, SyncRowKeeps, WriteFailsKeeps,
     HandleKeeps, ServerKilledKeeps, PowerLostKeeps DEF MaNext

(* Every file that is reachable is linked, with the requests where they    *)
(* belong.                                                                 *)
THEOREM McpInvariant == MaSpec => []MaInv
BY MaInvInit, MaInvStep, PTL DEF MaSpec

(* A linked file without a piece that stopped inside a row verifies.       *)
LEMMA LinkedVerifies ==
  ASSUME MaInv, \A i \in DOMAIN audit : Whole(audit[i])
  PROVE  Problems = {}
<1>1. /\ audit \in Seq(Pieces) /\ Len(audit) \in Nat /\ DOMAIN audit = 1..Len(audit)
  BY DEF MaInv, MaTyped
<1>2. \A i \in 1..Len(audit) : audit[i].row # Fragment /\ audit[i].newline
  BY <1>1 DEF Whole
<1>3. \A i \in 1..Len(audit) : IsRecord(i)
  <2> SUFFICES ASSUME NEW i \in 1..Len(audit) PROVE IsRecord(i)
    OBVIOUS
  <2>1. i = 1 \/ i - 1 \in 1..Len(audit)
    BY <1>1
  <2> QED
    BY <1>2, <2>1 DEF IsRecord, BeginsLine
<1> DEFINE good == {i \in DOMAIN audit : IsRecord(i)}
           before(i) == {j \in good : j < i}
           follows(row, earlier) == row.prev = earlier.hash /\ row.seq = earlier.seq + 1
<1>4. good = 1..Len(audit)
  BY <1>1, <1>3
<1>5. ASSUME NEW i \in good
      PROVE  ~(IF before(i) = {} THEN audit[i].row.prev # 0
               ELSE ~follows(audit[i].row, audit[Max(before(i))].row))
  <2>1. i \in 1..Len(audit) /\ Link(i) /\ before(i) = 1..(i - 1)
    BY <1>1, <1>4, <1>5 DEF MaInv, Linked
  <2>2. CASE i = 1
    BY <1>2, <2>1, <2>2 DEF Link
  <2>3. CASE i # 1
    <3>1. i - 1 \in 1..Len(audit) /\ i - 1 \in 1..(i - 1)
      BY <1>1, <2>1, <2>3
    <3>2. Max(1..(i - 1)) = i - 1
      <4> DEFINE m == i - 1
      <4>1. m \in Nat /\ m \in 1..m
        BY <2>1, <3>1
      <4> HIDE DEF m
      <4>2. \A x \in 1..m : (\A y \in 1..m : x >= y) => x = m
        BY <4>1
      <4>3. \A y \in 1..m : m >= y
        BY <4>1
      <4>4. Max(1..m) = m
        BY <4>1, <4>2, <4>3 DEF Max
      <4> QED
        BY <4>4 DEF m
    <3>3. before(i) # {} /\ Max(before(i)) = i - 1
      BY <2>1, <3>1, <3>2
    <3>4. /\ audit[i].row.prev = audit[i - 1].row.hash
          /\ audit[i].row.seq = audit[i - 1].row.seq + 1
      BY <1>2, <2>1, <2>3, <3>1 DEF Link
    <3> QED
      BY <3>3, <3>4
  <2> QED
    BY <2>2, <2>3
<1> QED
  BY <1>1, <1>4, <1>5 DEF Problems

(* The log keeps up: for any servers, calls, failed writes, deaths and     *)
(* power cuts, the log that is left has the request of every call that     *)
(* changed something, and verifies unless something stopped inside a row.  *)
THEOREM LogKeepsUpHolds == MaSpec => []LogKeepsUp
<1>1. MaInv => LogKeepsUp
  BY LinkedVerifies DEF MaInv, EffectsRequested, Requested, LogKeepsUp
<1> QED
  BY <1>1, McpInvariant, PTL

-----------------------------------------------------------------------------
(* The types of both records.                                              *)

\* A line that is on its way names the event that its hash ends with.
FlightLined == \A w \in Writers : \A l \in flight[w] : l.seq = Len(l.hash)

LogNumbered == \A i \in DOMAIN log : log[i].serial \in 1..MaxSerial
ChainTypes == LogNumbered /\ serial <= MaxSerial /\ state \in {"queued", "running"}
              /\ records \subseteq 1..MaxSerial
JournalTypes == (\A l \in lines : l.seq = Len(l.hash)) /\ FlightLined
                /\ (\A w \in Writers : Cardinality(flight[w]) <= 1) /\ failing \in BOOLEAN
ReportTypes == vfirst \subseteq lines /\ vlast \subseteq lines /\ damage <= MaxDamage

(* The first row, its line, and a verifier that has read nothing.          *)
LEMMA MirrorTypesInit == AmInit => ChainTypes /\ JournalTypes /\ ReportTypes
<1> SUFFICES ASSUME AmInit PROVE ChainTypes /\ JournalTypes /\ ReportTypes
  OBVIOUS
<1> DEFINE e == [serial |-> 1, what |-> "queued"]
<1>1. e \in Events /\ e.serial = 1
  BY DEF Events
<1> HIDE DEF e
<1>2. log = <<e>>
  BY DEF AmInit, e
<1>3. log \in Seq(Events) /\ Len(log) = 1 /\ DOMAIN log = 1..1 /\ log[1] = e
  BY <1>1, <1>2
<1>4. MaxSerial \in Nat /\ MaxSerial >= 1 /\ MaxDamage \in Nat
  BY MirrorAssumption
<1>5. ChainTypes
  BY <1>1, <1>3, <1>4 DEF AmInit, ChainTypes, LogNumbered
<1>6. Len(SubSeq(log, 1, 1)) = 1
  BY <1>3
<1>7. \A l \in lines : l.seq = Len(l.hash)
  <2>1. lines = {Line(log, 1)}
    BY DEF AmInit
  <2>2. Line(log, 1).seq = 1 /\ Line(log, 1).hash = SubSeq(log, 1, 1)
    BY DEF Line
  <2> QED
    BY <1>6, <2>1, <2>2
<1>8. \A w \in Writers : flight[w] = {} /\ Cardinality(flight[w]) <= 1
  BY FS_EmptySet DEF AmInit
<1>9. JournalTypes
  BY <1>7, <1>8 DEF AmInit, JournalTypes, FlightLined
<1> QED
  BY <1>4, <1>5, <1>9 DEF AmInit, ReportTypes

(* The last state among events of which the first has one is a state.      *)
LEMMA StateIsOne ==
  ASSUME NEW s \in Seq(Events), Len(s) >= 1, s[1].what # "record"
  PROVE  StateOf(s) \in {"queued", "running"}
<1> DEFINE I == {i \in DOMAIN s : s[i].what # "record"}
<1>1. I \in SUBSET (0..Len(s)) /\ I # {} /\ Len(s) \in Nat
  <2>1. Len(s) \in Nat /\ 1 \in DOMAIN s /\ DOMAIN s \subseteq 0..Len(s)
    OBVIOUS
  <2> QED
    BY <2>1
<1> HIDE DEF I
<1>2. Max(I) \in I
  BY <1>1, Greatest
<1>3. Max(I) \in DOMAIN s /\ s[Max(I)].what # "record"
  BY <1>2 DEF I
<1>4. s[Max(I)] \in Events
  BY <1>3
<1> QED
  BY <1>3, <1>4 DEF StateOf, I, Events

(* The serials on record are those of the chain's rows.                    *)
LEMMA RecordedOfLog ==
  ASSUME NEW s \in Seq(Events), NEW n \in Nat, \A i \in DOMAIN s : s[i].serial \in 1..n
  PROVE  Recorded(s) \subseteq 1..n
BY DEF Recorded, Range

(* One event more is written, with a serial of its own.                    *)
LEMMA AppendTypes ==
  ASSUME AmInv, ChainTypes, JournalTypes, NEW w \in Writers, AppendEvent(w)
  PROVE  ChainTypes' /\ JournalTypes'
<1> DEFINE e == [serial |-> serial', what |-> IF state' = state THEN "record" ELSE state']
           f == Line(log', Len(log'))
<1>1. /\ serial' = serial + 1 /\ serial < MaxSerial
      /\ log' = Append(log, e) /\ flight' = [flight EXCEPT ![w] = {f}]
      /\ UNCHANGED <<lines, failing>>
      /\ \/ state' = (IF state = "queued" THEN "running" ELSE "queued") /\ UNCHANGED records
         \/ records' = records \cup {serial'} /\ UNCHANGED state
  BY DEF AppendEvent
<1>2. /\ log \in Seq(Events) /\ serial \in Nat /\ MaxSerial \in Nat
      /\ flight \in [Writers -> SUBSET [seq : 1..serial, hash : Seq(Events)]]
  BY MirrorAssumption DEF AmInv, AmTyped
<1>3. state' \in {"queued", "running"}
  BY <1>1 DEF ChainTypes
<1>4. serial' \in 1..MaxSerial /\ serial' \in Nat
  BY <1>1, <1>2
<1>5. e \in Events /\ e.serial = serial'
  BY <1>3, <1>4 DEF Events
<1> HIDE DEF e
<1>6. /\ log' \in Seq(Events) /\ Len(log') = Len(log) + 1 /\ Len(log) \in Nat
      /\ log'[Len(log) + 1] = e /\ \A i \in 1..Len(log) : log'[i] = log[i]
  BY <1>1, <1>2, <1>5
<1>7. LogNumbered'
  <2>1. \A i \in 1..Len(log) : log[i].serial \in 1..MaxSerial
    BY <1>2 DEF ChainTypes, LogNumbered
  <2>2. \A i \in 1..(Len(log) + 1) : log'[i].serial \in 1..MaxSerial
    BY <1>4, <1>5, <1>6, <2>1
  <2>3. DOMAIN log' = 1..(Len(log) + 1)
    BY <1>6
  <2> QED
    BY <2>2, <2>3 DEF LogNumbered
<1>8. ChainTypes'
  <2>1. records' \subseteq records \cup {serial'}
    BY <1>1
  <2>2. records' \subseteq 1..MaxSerial
    BY <1>4, <2>1 DEF ChainTypes
  <2>3. serial' <= MaxSerial
    BY <1>2, <1>4
  <2> QED
    BY <1>3, <1>7, <2>2, <2>3 DEF ChainTypes
<1>9. f.seq = Len(f.hash)
  <2>1. Len(log') \in Nat
    BY <1>6
  <2>2. Len(SubSeq(log', 1, Len(log'))) = Len(log')
    BY <1>6, <2>1
  <2> QED
    BY <2>2 DEF Line
<1> HIDE DEF f
<1>10. Cardinality({f}) = 1
  BY FS_Singleton
<1>11. \A x \in Writers : flight'[x] \in {flight[x], {f}}
  BY <1>1, <1>2
<1>12. \A x \in Writers : Cardinality(flight'[x]) <= 1
  <2> SUFFICES ASSUME NEW x \in Writers PROVE Cardinality(flight'[x]) <= 1
    OBVIOUS
  <2>0. Cardinality(flight[x]) <= 1
    BY DEF JournalTypes
  <2>1. CASE flight'[x] = flight[x]
    BY <2>0, <2>1
  <2>2. CASE flight'[x] = {f}
    BY <1>10, <2>2
  <2> QED
    BY <1>11, <2>1, <2>2
<1>13. FlightLined'
  BY <1>9, <1>11 DEF JournalTypes, FlightLined
<1> QED
  BY <1>1, <1>8, <1>12, <1>13 DEF JournalTypes

(* A line arrives or is lost.                                              *)
LEMMA LineTypes ==
  ASSUME AmInv, JournalTypes, NEW w \in Writers, MirrorLine(w) \/ MirrorFails(w)
  PROVE  JournalTypes' /\ lines \subseteq lines'
<1>1. /\ flight' = [flight EXCEPT ![w] = {}]
      /\ lines' \in {lines, lines \cup flight[w]} /\ failing' \in {failing, TRUE, FALSE}
  BY DEF MirrorLine, MirrorFails
<1>2. flight \in [Writers -> SUBSET [seq : 1..serial, hash : Seq(Events)]]
  BY DEF AmInv, AmTyped
<1>3. \A x \in Writers : flight'[x] \in {flight[x], {}}
  BY <1>1, <1>2
<1>4. \A x \in Writers : Cardinality(flight'[x]) <= 1
  <2> SUFFICES ASSUME NEW x \in Writers PROVE Cardinality(flight'[x]) <= 1
    OBVIOUS
  <2>0. Cardinality(flight[x]) <= 1
    BY DEF JournalTypes
  <2>1. CASE flight'[x] = flight[x]
    BY <2>0, <2>1
  <2>2. CASE flight'[x] = {}
    BY <2>2, FS_EmptySet
  <2> QED
    BY <1>3, <2>1, <2>2
<1>5. FlightLined' /\ \A l \in lines' : l.seq = Len(l.hash)
  BY <1>1, <1>3 DEF JournalTypes, FlightLined
<1>6. failing' \in BOOLEAN
  BY <1>1 DEF JournalTypes
<1> QED
  BY <1>1, <1>4, <1>5, <1>6 DEF JournalTypes

(* What damage leaves is made of rows that were written.                   *)
LEMMA DamageTypes ==
  ASSUME AmInv, ChainTypes, NEW k \in DOMAIN log, PutBack(k) \/ RewriteEvent(k)
  PROVE  ChainTypes'
<1>1. /\ log \in Seq(Events) /\ serial \in Nat /\ k \in 1..Len(log) /\ Len(log) \in Nat
      /\ log[1].what # "record" /\ MaxSerial \in Nat
      /\ \A i \in 1..Len(log) : log[i].serial \in 1..MaxSerial
  BY MirrorAssumption DEF AmInv, AmTyped, ChainTypes, LogNumbered
<1>2. CASE PutBack(k)
  <2>1. log' = SubSeq(log, 1, k) /\ serial' = serial
        /\ state' = StateOf(log') /\ records' = Recorded(log')
    BY <1>2 DEF PutBack
  <2>2. log' \in Seq(Events) /\ Len(log') = k /\ \A i \in 1..k : log'[i] = log[i]
    BY <1>1, <2>1
  <2>3. \A i \in DOMAIN log' : log'[i].serial \in 1..MaxSerial
    BY <1>1, <2>2
  <2>4. StateOf(log') \in {"queued", "running"}
    BY <1>1, <2>2, StateIsOne
  <2>5. Recorded(log') \subseteq 1..MaxSerial
    BY <1>1, <2>2, <2>3, RecordedOfLog
  <2> QED
    BY <2>1, <2>3, <2>4, <2>5 DEF ChainTypes, LogNumbered
<1>3. CASE RewriteEvent(k)
  <2> DEFINE e == [log[k] EXCEPT !.serial = serial']
  <2>1. log' = [log EXCEPT ![k] = e] /\ serial' = serial + 1 /\ serial < MaxSerial
        /\ state' = state /\ records' = Recorded(log')
    BY <1>3 DEF RewriteEvent
  <2>2. e \in Events /\ e.serial = serial'
    <3>1. log[k] \in Events /\ serial' \in Nat
      BY <1>1, <2>1
    <3> QED
      BY <3>1 DEF Events
  <2> HIDE DEF e
  <2>3. log' \in Seq(Events) /\ Len(log') = Len(log)
        /\ \A i \in 1..Len(log) : log'[i] \in {log[i], e}
    BY <1>1, <2>1, <2>2
  <2>4. serial' \in 1..MaxSerial
    BY <1>1, <2>1
  <2>5. \A i \in DOMAIN log' : log'[i].serial \in 1..MaxSerial
    BY <1>1, <2>2, <2>3, <2>4
  <2>6. Recorded(log') \subseteq 1..MaxSerial
    BY <1>1, <2>3, <2>5, RecordedOfLog
  <2>7. serial' <= MaxSerial /\ LogNumbered'
    BY <1>1, <2>4, <2>5 DEF LogNumbered
  <2> QED
    BY <2>1, <2>6, <2>7 DEF ChainTypes
<1> QED
  BY <1>2, <1>3

(* The verifier's reports are of lines that the journal holds.             *)
LEMMA ReportTypesStep == ReportTypes /\ lines \subseteq lines' /\ [AmNext]_amVars
                           /\ damage \in Nat => ReportTypes'
<1> SUFFICES ASSUME ReportTypes, lines \subseteq lines', [AmNext]_amVars, damage \in Nat
             PROVE  ReportTypes'
  OBVIOUS
<1> USE DEF ReportTypes
<1>c. MaxDamage \in Nat
  BY MirrorAssumption
<1>1. ASSUME NEW w \in Writers, AppendEvent(w) \/ MirrorLine(w) \/ MirrorFails(w)
      PROVE  ReportTypes'
  BY <1>1 DEF AppendEvent, MirrorLine, MirrorFails, report
<1>2. ASSUME NEW k \in DOMAIN log, PutBack(k) \/ RewriteEvent(k) PROVE ReportTypes'
  BY <1>2, <1>c DEF PutBack, RewriteEvent, report
<1>3. CASE VerifyRows \/ ReadJournal \/ ReadJournalAgain \/ Verdict
  BY <1>3 DEF VerifyRows, ReadJournal, ReadJournalAgain, Verdict
<1>4. CASE UNCHANGED amVars
  BY <1>4 DEF amVars, report
<1> QED
  BY <1>1, <1>2, <1>3, <1>4 DEF AmNext

(* Every step keeps the types.                                             *)
LEMMA MirrorTypesStep ==
  AmInv /\ ChainTypes /\ JournalTypes /\ ReportTypes /\ [AmNext]_amVars
    => ChainTypes' /\ JournalTypes' /\ ReportTypes'
<1> SUFFICES ASSUME AmInv, ChainTypes, JournalTypes, ReportTypes, [AmNext]_amVars
             PROVE  ChainTypes' /\ JournalTypes' /\ ReportTypes'
  OBVIOUS
<1>1. ChainTypes' /\ JournalTypes' /\ lines \subseteq lines'
  <2>1. CASE UNCHANGED <<log, serial, state, records, lines, flight, failing>>
    BY <2>1 DEF ChainTypes, LogNumbered, JournalTypes, FlightLined
  <2>2. ASSUME NEW w \in Writers, AppendEvent(w)
        PROVE  ChainTypes' /\ JournalTypes' /\ lines \subseteq lines'
    <3>1. lines' = lines
      BY <2>2 DEF AppendEvent
    <3> QED
      BY <2>2, <3>1, AppendTypes
  <2>3. ASSUME NEW w \in Writers, MirrorLine(w) \/ MirrorFails(w)
        PROVE  ChainTypes' /\ JournalTypes' /\ lines \subseteq lines'
    <3>1. UNCHANGED <<log, serial, state, records>>
      BY <2>3 DEF MirrorLine, MirrorFails, ledger
    <3>2. ChainTypes'
      BY <3>1 DEF ChainTypes, LogNumbered
    <3> QED
      BY <2>3, <3>2, LineTypes
  <2>4. ASSUME NEW k \in DOMAIN log, PutBack(k) \/ RewriteEvent(k)
        PROVE  ChainTypes' /\ JournalTypes' /\ lines \subseteq lines'
    <3>1. UNCHANGED <<lines, flight, failing>>
      BY <2>4 DEF PutBack, RewriteEvent, journald
    <3>2. JournalTypes'
      BY <3>1 DEF JournalTypes, FlightLined
    <3> QED
      BY <2>4, <3>1, <3>2, DamageTypes
  <2>5. CASE VerifyRows \/ ReadJournal \/ ReadJournalAgain \/ Verdict \/ UNCHANGED amVars
    BY <2>1, <2>5 DEF VerifyRows, ReadJournal, ReadJournalAgain, Verdict, amVars, ledger, journald
  <2> QED
    BY <2>2, <2>3, <2>4, <2>5 DEF AmNext
<1>2. damage \in Nat
  BY DEF AmInv, AmTyped
<1> QED
  BY <1>1, <1>2, ReportTypesStep

(* And they are the module's types.                                        *)
LEMMA MirrorTypes == AmInv /\ ChainTypes /\ JournalTypes /\ ReportTypes => AmTypeOK
<1> SUFFICES ASSUME AmInv, ChainTypes, JournalTypes, ReportTypes PROVE AmTypeOK
  OBVIOUS
<1>1. \A i \in DOMAIN log : log[i] \in Events
  BY DEF AmInv, AmTyped
<1>2. \A i \in DOMAIN log : log[i].serial \in 1..MaxSerial
                            /\ log[i].what \in {"queued", "running", "record"}
  BY <1>1 DEF ChainTypes, LogNumbered, Events
<1>3. serial \in 0..MaxSerial /\ damage \in 0..MaxDamage
  BY MirrorAssumption DEF AmInv, AmTyped, ChainTypes, ReportTypes
<1>4. \A b \in {failing, lost} : b \in BOOLEAN
  BY DEF AmInv, AmTyped, JournalTypes
<1>5. {failing, lost} \subseteq BOOLEAN
  BY <1>4, Zenon
<1>6. verifier \in {"idle", "rows", "settle", "states", "done"}
  BY DEF AmInv, AmTyped
<1> QED
  BY <1>2, <1>3, <1>5, <1>6 DEF AmTypeOK, ChainTypes, JournalTypes, ReportTypes

\* The chain, the journal and what the verifier holds of them are of their kind:
\* every row has a serial number that was given out, every line is of the event
\* that its hash ends with, and no process has more than one line on its way.
THEOREM MirrorTypeCorrect == AmSpec => []AmTypeOK
<1> DEFINE Types == ChainTypes /\ JournalTypes /\ ReportTypes
<1>1. AmInit => AmInv /\ Types
  BY AmInvInit, MirrorTypesInit
<1>2. (AmInv /\ Types) /\ [AmNext]_amVars => (AmInv /\ Types)'
  BY AmInvStep, MirrorTypesStep
<1>3. AmInv /\ Types => AmTypeOK
  BY MirrorTypes
<1> QED
  BY <1>1, <1>2, <1>3, PTL DEF AmSpec

\* A call that is under way has a number, and every row is of a call that was
\* made.
CallsNumbered ==
  /\ made <= MaxCalls
  /\ \A s \in Servers : mcp[s].call <= made /\ (mcp[s].pc # "idle" => mcp[s].call # 0)
  /\ effects \subseteq 1..made

RowsNumbered == \A i \in 1..Len(audit) : audit[i].row.call \in 0..made

LockAndMishaps ==
  /\ flock \in Servers \cup {"none"}
  /\ mishaps \in [short : 0..MaxShort, stopped : 0..MaxStopped]

(* The empty log.                                                          *)
LEMMA McpTypesInit == MaInit => CallsNumbered /\ RowsNumbered /\ LockAndMishaps
<1> SUFFICES ASSUME MaInit PROVE CallsNumbered /\ RowsNumbered /\ LockAndMishaps
  OBVIOUS
<1>1. MaxCalls \in Nat /\ MaxShort \in Nat /\ MaxStopped \in Nat
  BY McpAssumption
<1>2. CallsNumbered
  BY <1>1 DEF MaInit, CallsNumbered, Idle
<1>3. RowsNumbered /\ LockAndMishaps
  BY <1>1 DEF MaInit, RowsNumbered, LockAndMishaps
<1> QED
  BY <1>2, <1>3

\* The server goes on with the call that it has, or is idle.
SameCall(s) ==
  \E v \in Calls : /\ mcp' = [mcp EXCEPT ![s] = v]
                   /\ v = Idle \/ (mcp[s].pc # "idle" /\ v.call = mcp[s].call)

(* Only Call gives a server a new call.                                    *)
LEMMA CallStays ==
  ASSUME MaInv, NEW s \in Servers,
         \/ LockLog(s) \/ Genesis(s) \/ WriteRow(s) \/ SyncRow(s) \/ WriteFails(s)
         \/ Handle(s) \/ ServerKilled(s)
  PROVE  SameCall(s)
<1>1. ASSUME NEW to \in {"idle", "lock", "genesis", "write", "sync", "handler"}, Moves(s, to),
             mcp[s].pc # "idle"
      PROVE  SameCall(s)
  BY <1>1, MovesTo DEF SameCall
<1>2. ASSUME NEW w \in BOOLEAN, Continue(s, w), mcp[s].pc # "idle"
      PROVE  SameCall(s)
  BY <1>2, Continues DEF SameCall
<1>3. Idle \in Calls
  BY DEF Idle, Calls, Categories
<1>4. CASE ServerKilled(s)
  BY <1>3, <1>4 DEF ServerKilled, SameCall
<1>5. CASE Handle(s)
  <2> DEFINE v == [mcp[s] EXCEPT !.pc = "lock",
                     !.phase = IF mcp[s].call \in effects' THEN "completed" ELSE "failed"]
  <2>1. mcp' = [mcp EXCEPT ![s] = v] /\ mcp[s].pc # "idle"
    BY <1>5 DEF Handle
  <2>2. mcp[s] \in Calls
    BY DEF MaInv, MaTyped
  <2>3. v \in Calls /\ v.call = mcp[s].call
    BY <2>2 DEF Calls, Outcomes
  <2> HIDE DEF v
  <2> QED
    BY <2>1, <2>3 DEF SameCall
<1>6. CASE LockLog(s)
  <2>1. mcp[s].pc # "idle" /\ (Moves(s, "genesis") \/ Moves(s, "write") \/ Continue(s, FALSE))
    BY <1>6 DEF LockLog, Moves
  <2> QED
    BY <1>1, <1>2, <2>1
<1>7. CASE Genesis(s)
  <2>1. mcp[s].pc # "idle" /\ Moves(s, "write")
    BY <1>7 DEF Genesis, Moves
  <2> QED
    BY <1>1, <2>1
<1>8. CASE WriteRow(s)
  <2>1. mcp[s].pc # "idle" /\ (Moves(s, "sync") \/ Continue(s, TRUE))
    BY <1>8 DEF WriteRow, Moves
  <2> QED
    BY <1>1, <1>2, <2>1
<1>9. CASE SyncRow(s) \/ WriteFails(s)
  <2>1. mcp[s].pc # "idle" /\ (Continue(s, TRUE) \/ Continue(s, FALSE))
    BY <1>9 DEF SyncRow, WriteFails
  <2> QED
    BY <1>2, <2>1
<1> QED
  BY <1>4, <1>5, <1>6, <1>7, <1>8, <1>9

(* Calls are numbered in the order they are made.                          *)
LEMMA CallsNumberedStep == MaInv /\ CallsNumbered /\ [MaNext]_maVars => CallsNumbered'
<1> SUFFICES ASSUME MaInv, CallsNumbered, [MaNext]_maVars PROVE CallsNumbered'
  OBVIOUS
<1>c. /\ MaxCalls \in Nat /\ made \in Nat /\ mcp \in [Servers -> Calls]
      /\ \A s \in Servers : mcp[s].call \in Nat
  BY McpAssumption DEF MaInv, MaTyped, Calls
<1>i. Idle.call = 0 /\ Idle.pc = "idle"
  BY DEF Idle
<1>1. ASSUME NEW s \in Servers, NEW category \in Categories, NEW observed \in BOOLEAN,
             Call(s, category, observed)
      PROVE  CallsNumbered'
  <2> DEFINE next(pc, phase) == [pc |-> pc, call |-> made', category |-> category,
                                 phase |-> phase]
             v == IF ~Gate(s, category, observed) THEN next("lock", "denied")
                  ELSE IF category = "READ_ONLY" THEN next("handler", "none")
                  ELSE next("lock", "requested")
  <2>1. /\ mcp' = [mcp EXCEPT ![s] = v] /\ made < MaxCalls /\ made' = made + 1
        /\ effects' = effects
    BY <1>1 DEF Call
  <2>2. v.call = made'
    OBVIOUS
  <2> HIDE DEF v
  <2>3. \A t \in Servers : mcp'[t] = mcp[t] \/ mcp'[t] = v
    BY <1>c, <2>1
  <2>4. \A t \in Servers : mcp'[t].call <= made' /\ (mcp'[t].pc # "idle" => mcp'[t].call # 0)
    BY <1>c, <2>1, <2>2, <2>3 DEF CallsNumbered
  <2>5. made' <= MaxCalls /\ effects' \subseteq 1..made'
    BY <1>c, <2>1 DEF CallsNumbered
  <2> QED
    BY <2>4, <2>5 DEF CallsNumbered
<1>2. ASSUME NEW s \in Servers,
             \/ LockLog(s) \/ Genesis(s) \/ WriteRow(s) \/ SyncRow(s) \/ WriteFails(s)
             \/ Handle(s) \/ ServerKilled(s)
      PROVE  CallsNumbered'
  <2>1. PICK v \in Calls :
           /\ mcp' = [mcp EXCEPT ![s] = v]
           /\ v = Idle \/ (mcp[s].pc # "idle" /\ v.call = mcp[s].call)
    BY <1>2, CallStays DEF SameCall
  <2>2. \A t \in Servers : mcp'[t] = mcp[t] \/ (t = s /\ mcp'[t] = v)
    BY <1>c, <2>1
  <2>3. made' = made
    BY <1>2 DEF LockLog, Genesis, WriteRow, SyncRow, WriteFails, Handle, ServerKilled
  <2>4. \A t \in Servers : mcp'[t].call <= made' /\ (mcp'[t].pc # "idle" => mcp'[t].call # 0)
    BY <1>c, <1>i, <2>1, <2>2, <2>3 DEF CallsNumbered
  <2>5. effects' \subseteq 1..made
    <3>1. CASE Handle(s)
      <4>1. effects' \subseteq effects \cup {mcp[s].call} /\ mcp[s].pc # "idle"
        BY <3>1 DEF Handle
      <4>2. mcp[s].call \in 1..made
        BY <1>c, <4>1 DEF CallsNumbered
      <4> QED
        BY <4>1, <4>2 DEF CallsNumbered
    <3>2. CASE ~Handle(s)
      <4>1. effects' = effects
        BY <1>2, <3>2 DEF LockLog, Genesis, WriteRow, SyncRow, WriteFails, ServerKilled
      <4> QED
        BY <4>1 DEF CallsNumbered
    <3> QED
      BY <3>1, <3>2
  <2> QED
    BY <2>3, <2>4, <2>5 DEF CallsNumbered
<1>3. CASE PowerLost
  <2>1. mcp' = [s \in Servers |-> Idle] /\ UNCHANGED <<made, effects>>
    BY <1>3 DEF PowerLost
  <2>2. \A s \in Servers : mcp'[s] = Idle
    BY <2>1
  <2> QED
    BY <1>c, <1>i, <2>1, <2>2 DEF CallsNumbered
<1>4. CASE UNCHANGED maVars
  BY <1>4 DEF maVars, CallsNumbered
<1> QED
  BY <1>1, <1>2, <1>3, <1>4 DEF MaNext

(* A row carries the number of its server's call.                          *)
LEMMA RowNumbered ==
  ASSUME MaInv, CallsNumbered, NEW s \in Servers, NEW ph
  PROVE  Row(s, ph).call \in 0..made /\ Fragment.call \in 0..made
<1>1. mcp[s].call \in Nat /\ made \in Nat /\ mcp[s].call <= made
  BY DEF MaInv, MaTyped, Calls, CallsNumbered
<1> QED
  BY <1>1 DEF Row, Fragment

(* So the file holds numbers of calls alone, whatever the power leaves.    *)
LEMMA RowsNumberedStep ==
  MaInv /\ CallsNumbered /\ RowsNumbered /\ [MaNext]_maVars => RowsNumbered'
<1> SUFFICES ASSUME MaInv, CallsNumbered, RowsNumbered, [MaNext]_maVars PROVE RowsNumbered'
  OBVIOUS
<1>c. made \in Nat /\ audit \in Seq(Pieces) /\ Len(audit) \in Nat /\ platter \in 0..Len(audit)
  BY DEF MaInv, MaTyped
<1>1. ASSUME UNCHANGED audit, made' \in {made, made + 1} PROVE RowsNumbered'
  BY <1>1, <1>c DEF RowsNumbered
<1>2. ASSUME NEW r, NEW b, audit' = Append(audit, [row |-> r, newline |-> b]), made' = made,
             r.call \in 0..made
      PROVE  RowsNumbered'
  <2> DEFINE p == [row |-> r, newline |-> b]
  <2>1. p.row = r
    OBVIOUS
  <2> HIDE DEF p
  <2>2. audit' = Append(audit, p)
    BY <1>2 DEF p
  <2>3. Len(audit') = Len(audit) + 1 /\ audit'[Len(audit) + 1] = p
        /\ \A i \in 1..Len(audit) : audit'[i] = audit[i]
    BY <1>c, <2>2
  <2> QED
    BY <1>c, <1>2, <2>1, <2>3 DEF RowsNumbered
<1>3. ASSUME NEW s \in Servers, NEW category \in Categories, NEW observed \in BOOLEAN,
             Call(s, category, observed)
      PROVE  RowsNumbered'
  BY <1>1, <1>3 DEF Call
<1>4. ASSUME NEW s \in Servers, LockLog(s) \/ SyncRow(s) \/ Handle(s) \/ ServerKilled(s)
      PROVE  RowsNumbered'
  BY <1>1, <1>4 DEF LockLog, SyncRow, Handle, ServerKilled
<1>5. ASSUME NEW s \in Servers, Genesis(s) \/ WriteRow(s) PROVE RowsNumbered'
  <2>1. made' = made
        /\ \E ph : audit' = Append(audit, [row |-> Row(s, ph), newline |-> TRUE])
    BY <1>5 DEF Genesis, WriteRow
  <2> QED
    BY <1>2, <2>1, RowNumbered
<1>6. ASSUME NEW s \in Servers, WriteFails(s) PROVE RowsNumbered'
  <2> DEFINE ph == IF mcp[s].pc = "genesis" THEN "genesis" ELSE mcp[s].phase
  <2>1. /\ made' = made
        /\ \/ UNCHANGED audit
           \/ audit' \in {Append(audit, [row |-> Fragment, newline |-> FALSE]),
                         Append(audit, [row |-> Row(s, ph), newline |-> FALSE]),
                         Append(audit, [row |-> Row(s, ph), newline |-> TRUE])}
    BY <1>6 DEF WriteFails
  <2>2. Row(s, ph).call \in 0..made /\ Fragment.call \in 0..made
    BY RowNumbered
  <2> HIDE DEF ph
  <2> QED
    BY <1>1, <1>2, <2>1, <2>2
<1>7. CASE PowerLost
  <2>1. made' = made
    BY <1>7 DEF PowerLost
  <2>2. PICK k \in platter..Len(audit) :
          \/ audit' = SubSeq(audit, 1, k)
          \/ /\ k # Len(audit)
             /\ \E r \in {Fragment, audit[k + 1].row} :
                  audit' = Append(SubSeq(audit, 1, k), [row |-> r, newline |-> FALSE])
    BY <1>7 DEF PowerLost
  <2> DEFINE q == SubSeq(audit, 1, k)
  <2>3. k \in 0..Len(audit)
    BY <1>c
  <2>4. q \in Seq(Pieces) /\ Len(q) = k /\ \A i \in 1..k : q[i] = audit[i]
    BY <1>c, <2>3
  <2>5. \A i \in 1..k : q[i].row.call \in 0..made
    BY <1>c, <2>3, <2>4 DEF RowsNumbered
  <2> HIDE DEF q
  <2>6. CASE audit' = q
    BY <2>1, <2>4, <2>5, <2>6 DEF RowsNumbered
  <2>7. ASSUME k # Len(audit), NEW r \in {Fragment, audit[k + 1].row},
               audit' = Append(q, [row |-> r, newline |-> FALSE])
        PROVE  RowsNumbered'
    <3> DEFINE p == [row |-> r, newline |-> FALSE]
    <3>1. p.row = r
      OBVIOUS
    <3> HIDE DEF p
    <3>2. audit' = Append(q, p)
      BY <2>7 DEF p
    <3>3. Len(audit') = k + 1 /\ audit'[k + 1] = p /\ \A i \in 1..k : audit'[i] = q[i]
      BY <2>3, <2>4, <3>2
    <3>4. r.call \in 0..made
      <4>1. Fragment.call = 0
        BY DEF Fragment
      <4>2. k + 1 \in 1..Len(audit)
        BY <1>c, <2>3, <2>7
      <4>3. audit[k + 1].row.call \in 0..made
        BY <4>2 DEF RowsNumbered
      <4>4. r = Fragment \/ r = audit[k + 1].row
        BY <2>7
      <4> QED
        BY <1>c, <4>1, <4>3, <4>4
    <3>5. \A i \in 1..k : audit'[i].row.call \in 0..made
      BY <2>5, <3>3
    <3>6. audit'[k + 1].row.call \in 0..made
      BY <3>1, <3>3, <3>4
    <3>7. \A i \in 1..Len(audit') : i \in 1..k \/ i = k + 1
      BY <2>3, <3>3
    <3> QED
      BY <2>1, <3>5, <3>6, <3>7 DEF RowsNumbered
  <2> QED
    BY <2>2, <2>6, <2>7 DEF q
<1>8. CASE UNCHANGED maVars
  BY <1>1, <1>8 DEF maVars
<1> QED
  BY <1>3, <1>4, <1>5, <1>6, <1>7, <1>8 DEF MaNext

(* The lock and the counts of what went wrong.                             *)
LEMMA LockAndMishapsStep == LockAndMishaps /\ [MaNext]_maVars => LockAndMishaps'
<1> SUFFICES ASSUME LockAndMishaps, [MaNext]_maVars PROVE LockAndMishaps'
  OBVIOUS
<1> USE DEF LockAndMishaps
<1>c. MaxShort \in Nat /\ MaxStopped \in Nat
  BY McpAssumption
<1>1. ASSUME NEW s \in Servers,
             \/ \E category \in Categories, observed \in BOOLEAN : Call(s, category, observed)
             \/ LockLog(s) \/ Genesis(s) \/ WriteRow(s) \/ SyncRow(s) \/ Handle(s)
      PROVE  LockAndMishaps'
  <2>1. mishaps' = mishaps /\ flock' \in {flock, s, "none"}
    BY <1>1 DEF Call, LockLog, Genesis, WriteRow, SyncRow, Handle
  <2> QED
    BY <2>1
<1>2. ASSUME NEW s \in Servers, WriteFails(s) PROVE LockAndMishaps'
  <2>1. mishaps' = [mishaps EXCEPT !.short = @ + 1] /\ mishaps.short < MaxShort
        /\ flock' = "none"
    BY <1>2 DEF WriteFails
  <2> QED
    BY <1>c, <2>1
<1>3. ASSUME NEW s \in Servers, ServerKilled(s) PROVE LockAndMishaps'
  <2>1. mishaps' = [mishaps EXCEPT !.stopped = @ + 1] /\ mishaps.stopped < MaxStopped
        /\ flock' \in {flock, "none"}
    BY <1>3 DEF ServerKilled
  <2> QED
    BY <1>c, <2>1
<1>4. CASE PowerLost
  <2>1. mishaps' = [mishaps EXCEPT !.stopped = @ + 1] /\ mishaps.stopped < MaxStopped
        /\ flock' = "none"
    BY <1>4 DEF PowerLost
  <2> QED
    BY <1>c, <2>1
<1>5. CASE UNCHANGED maVars
  BY <1>5 DEF maVars
<1> QED
  BY <1>1, <1>2, <1>3, <1>4, <1>5 DEF MaNext

(* And they are the module's types.                                        *)
LEMMA McpTypes == MaInv /\ CallsNumbered /\ RowsNumbered /\ LockAndMishaps => MaTypeOK
<1> SUFFICES ASSUME MaInv, CallsNumbered, RowsNumbered, LockAndMishaps PROVE MaTypeOK
  OBVIOUS
<1>1. /\ made \in 0..MaxCalls /\ made <= MaxCalls /\ made \in Nat
  BY McpAssumption DEF MaInv, MaTyped, CallsNumbered
<1>2. \A i \in DOMAIN audit : audit[i] \in Pieces /\ audit[i].row.call \in 0..made
  BY DEF MaInv, MaTyped, RowsNumbered
<1>3. \A i \in DOMAIN audit : audit[i].newline \in BOOLEAN /\ audit[i].row.call \in 0..MaxCalls
  <2>1. 0..made \subseteq 0..MaxCalls
    BY <1>1, McpAssumption
  <2> QED
    BY <1>2, <2>1 DEF Pieces
<1>4. effects \subseteq 1..MaxCalls
  BY <1>1, McpAssumption DEF CallsNumbered
<1>5. \A s \in Servers : mcp[s] \in Calls
  BY DEF MaInv, MaTyped
<1>6. \A s \in Servers : mcp[s].category \in Categories
       /\ mcp[s].pc \in {"idle", "lock", "genesis", "write", "sync", "handler"}
  BY <1>5 DEF Calls
<1> QED
  BY <1>1, <1>3, <1>4, <1>6 DEF MaTypeOK, MaInv, MaTyped, LockAndMishaps

\* The log holds whole pieces and numbers of calls that were made, whoever was
\* killed and whatever the power left of it; only a call that was made has an effect.
THEOREM McpTypeCorrect == MaSpec => []MaTypeOK
<1> DEFINE Types == CallsNumbered /\ RowsNumbered /\ LockAndMishaps
<1>1. MaInit => MaInv /\ Types
  BY MaInvInit, McpTypesInit
<1>2. (MaInv /\ Types) /\ [MaNext]_maVars => (MaInv /\ Types)'
  BY MaInvStep, CallsNumberedStep, RowsNumberedStep, LockAndMishapsStep
<1>3. MaInv /\ Types => MaTypeOK
  BY McpTypes
<1> QED
  BY <1>1, <1>2, <1>3, PTL DEF MaSpec
=============================================================================
