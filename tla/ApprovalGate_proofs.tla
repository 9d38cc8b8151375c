------------------------- MODULE ApprovalGate_proofs -------------------------
(***************************************************************************)
(* Proofs about the approvals of a mission and the gate in run_mission,    *)
(* for every set of approvals, scopes, command-line runs and hosts.        *)
(*                                                                         *)
(* Three arguments.  The transaction of Use reads revoked_at again, and an *)
(* approval whose revocation is in the chain has revoked_at set: so in the *)
(* order of the chain nothing is used after it was revoked, whatever was   *)
(* found before.  Whoever is past the workspace lock is alone there and    *)
(* looks at a queued mission (LockHeld): so one use of one approval is     *)
(* chained for it.  And a row that covers the scope its runner has read    *)
(* goes on covering it, from the query to the execution: neither the scope *)
(* of a row nor what a process has read changes; and the approval that the *)
(* mission names there is the one that runner used, because no other one   *)
(* is past the lock.  So what runs is what was approved.                   *)
(***************************************************************************)
EXTENDS ApprovalGate, FiniteSetTheorems, TLAPS

USE GateAssumption DEF table, gate, scopes, runner, Runners, Written

Events == {"granted", "revoked", "used"} \X Aps
Usable == {Nothing} \cup {Approval(a) : a \in Aps}
Row == [there : BOOLEAN, revoked : BOOLEAN, expired : BOOLEAN, scope : Scopes]

\* The types, with the functions over the runners as functions.
GateTyped ==
  /\ approvals \in [Aps -> Row]
  /\ trail \in Seq(Events)
  /\ declared \in Scopes /\ asked \in [Runners -> Scopes]
  /\ task \in {"queued", "running", "ended"}
  /\ usedBy \in Usable
  /\ at \in [Runners -> {"idle", "enter", "gate", "check", "use", "start",
                         "drain", "asleep", "done"}]
  /\ rows \in [Runners -> SUBSET Aps]
  /\ found \in [Runners -> Usable]

\* The row is there and covers what the runner has read that is asked for.
Fits(r, a) == approvals[a].there /\ Covers(approvals[a].scope, asked[r])

\* What a runner has read and has found fits, and so does what it used.
RowsFit == \A r \in Runners : at[r] = "check" => \A a \in rows[r] : Fits(r, a)

FoundFits ==
  \A r \in Runners : at[r] = "use" => found[r] # Nothing /\ Fits(r, found[r].ap)

UsedFits ==
  \A r \in Runners : at[r] = "start" /\ Escalates(asked[r]) =>
    usedBy # Nothing /\ Fits(r, usedBy.ap)

\* The table has every revocation that the chain has.
RevokedInTable ==
  \A a \in Aps : Chained("revoked", a) => approvals[a].revoked

GateInv ==
  /\ GateTyped /\ RowsFit /\ FoundFits /\ UsedFits
  /\ RevokedInTable /\ UsedWhileStanding

-----------------------------------------------------------------------------
(* An approval is not the absence of one, and is told by its id.           *)
LEMMA Choice ==
  /\ \A a \in Aps : Approval(a) # Nothing /\ Approval(a).ap = a /\ Approval(a) \in Usable
  /\ \A c \in Usable : c # Nothing => c.ap \in Aps /\ c = Approval(c.ap)
<1>1. ASSUME NEW a \in Aps
      PROVE  Approval(a) # Nothing /\ Approval(a).ap = a /\ Approval(a) \in Usable
  <2>1. Approval(a).ap = a /\ Nothing.ap = "none" /\ a # "none"
    BY DEF Approval, Nothing
  <2> QED
    BY <2>1 DEF Usable
<1>2. ASSUME NEW c \in Usable, c # Nothing
      PROVE  c.ap \in Aps /\ c = Approval(c.ap)
  <2>1. PICK a \in Aps : c = Approval(a)
    BY <1>2 DEF Usable
  <2> QED
    BY <1>1, <2>1
<1> QED
  BY <1>1, <1>2

(* One more event of the chain is behind all the others.                   *)
LEMMA OneMoreEvent ==
  ASSUME trail \in Seq(Events), NEW e \in Events, trail' = Append(trail, e)
  PROVE  /\ trail' \in Seq(Events)
         /\ Len(trail) \in Nat /\ DOMAIN trail = 1..Len(trail)
         /\ DOMAIN trail' = 1..(Len(trail) + 1)
         /\ \A i \in 1..Len(trail) : trail'[i] = trail[i]
         /\ trail'[Len(trail) + 1] = e
OBVIOUS

(* An event that is in the chain has the form of one.                      *)
LEMMA EventsTyped ==
  ASSUME trail \in Seq(Events), NEW i \in DOMAIN trail
  PROVE  /\ trail[i][1] \in {"granted", "revoked", "used"} /\ trail[i][2] \in Aps
         /\ trail[i] = <<trail[i][1], trail[i][2]>>
<1>1. trail[i] \in Events
  OBVIOUS
<1> QED
  BY <1>1 DEF Events

(* Everything that happens is a person, the clock, the worker's sleep or a *)
(* step of a runner.                                                       *)
LEMMA GateSteps ==
  ASSUME ApNext
  PROVE  \/ \E a \in Aps, s \in Scopes : GrantApproval(a, s)
         \/ \E a \in Aps : RevokeApproval(a)
         \/ \E a \in Aps : ExpiryPasses(a)
         \/ \E s \in Scopes : Upgrade(s)
         \/ \E r \in Runners : Call(r) \/ RunStep(r)
         \/ Scan \/ DrainInbox \/ Select30
BY DEF ApNext, WorkerLoop

-----------------------------------------------------------------------------
(* What a step may do to the runners and the mission, in terms of what the *)
(* invariant is about.                                                     *)
Places == {"idle", "enter", "gate", "check", "use", "start", "drain", "asleep", "done"}

RunnersTyped ==
  /\ at \in [Runners -> Places]
  /\ rows \in [Runners -> SUBSET Aps]
  /\ found \in [Runners -> Usable]

\* What is read stands, and what is found was read.
ReadsFollow ==
  /\ \A q \in Runners : at'[q] = "check" =>
       \/ at[q] = "check" /\ rows'[q] = rows[q]
       \/ rows'[q] = {a \in Aps : Standing(q, a)}
  /\ \A q \in Runners : at'[q] = "use" =>
       \/ at[q] = "use" /\ found'[q] = found[q]
       \/ at[q] = "check" /\ \E a \in rows[q] : found'[q] = Approval(a)

\* The mission names what was found, by the one that comes to the start.
MissionFollows ==
  /\ usedBy' = usedBy \/ \E q \in Runners : at[q] = "use" /\ usedBy' = found[q]
  /\ task' \in {"queued", "running", "ended"}
  /\ \A q \in Runners : at'[q] = "start" =>
       \/ at[q] = "start" \/ ~Escalates(asked[q])
       \/ at[q] = "use" /\ usedBy' = found[q]

\* What a runner has read it keeps, once it is at the gate.
ScopesFollow ==
  /\ asked' \in [Runners -> Scopes]
  /\ \A q \in Runners : at'[q] \in {"check", "use", "start"} => asked'[q] = asked[q]

\* The chain is left alone, or records the use of what stands in the table.
ChainFollows ==
  \/ trail' = trail
  \/ \E q \in Runners :
       /\ at[q] = "use" /\ ~approvals[found[q].ap].revoked
       /\ trail' = Append(trail, <<"used", found[q].ap>>)

RunnerMoves ==
  /\ RunnersTyped' /\ ReadsFollow /\ MissionFollows /\ ChainFollows
  /\ approvals' = approvals /\ declared' = declared /\ ScopesFollow

(* A person starts a command-line run.                                      *)
LEMMA CallMoves == ASSUME GateTyped, NEW r \in Runners, Call(r) PROVE RunnerMoves
<1> USE DEF Call, GateTyped, Goto, Leave
<1>1. RunnersTyped'
  BY Choice DEF RunnersTyped, Places
<1>2. ReadsFollow
  BY DEF ReadsFollow
<1>3. MissionFollows
  BY DEF MissionFollows
<1>4. ChainFollows
  BY DEF ChainFollows
<1>5. approvals' = approvals /\ declared' = declared /\ ScopesFollow
  BY DEF ScopesFollow
<1> QED
  BY <1>1, <1>2, <1>3, <1>4, <1>5 DEF RunnerMoves

(* The workspace lock is taken, or the runner leaves.                       *)
LEMMA EnterMoves == ASSUME GateTyped, NEW r \in Runners, Enter(r) PROVE RunnerMoves
<1> USE DEF Enter, GateTyped, Goto, Leave
<1>1. RunnersTyped'
  BY Choice DEF RunnersTyped, Places
<1>2. ReadsFollow
  BY DEF ReadsFollow
<1>3. MissionFollows
  BY DEF MissionFollows
<1>4. ChainFollows
  BY DEF ChainFollows
<1>5. approvals' = approvals /\ declared' = declared /\ ScopesFollow
  BY DEF ScopesFollow
<1> QED
  BY <1>1, <1>2, <1>3, <1>4, <1>5 DEF RunnerMoves

(* The rows that stand are read, or none is needed.                         *)
LEMMA ReadRowsMoves == ASSUME GateTyped, NEW r \in Runners, ReadRows(r) PROVE RunnerMoves
<1> USE DEF ReadRows, GateTyped, Goto, Leave
<1>1. RunnersTyped'
  <2>1. at' \in [Runners -> Places]
    BY DEF Places
  <2>2. rows' \in [Runners -> SUBSET Aps]
    OBVIOUS
  <2>3. Nothing \in Usable /\ found' = [found EXCEPT ![r] = Nothing]
    BY DEF Usable
  <2> QED
    BY <2>1, <2>2, <2>3 DEF RunnersTyped
<1>2. ReadsFollow
  BY DEF ReadsFollow
<1>3. MissionFollows
  BY DEF MissionFollows
<1>4. ChainFollows
  BY DEF ChainFollows
<1>5. approvals' = approvals /\ declared' = declared /\ ScopesFollow
  BY DEF ScopesFollow
<1> QED
  BY <1>1, <1>2, <1>3, <1>4, <1>5 DEF RunnerMoves

(* One of the rows that were read is found, or the runner leaves.           *)
LEMMA CheckChainMoves == ASSUME GateTyped, NEW r \in Runners, CheckChain(r) PROVE RunnerMoves
<1> USE DEF CheckChain, GateTyped, Goto, Leave
<1>1. RunnersTyped'
  <2>1. at' \in [Runners -> Places] /\ rows' \in [Runners -> SUBSET Aps]
    BY DEF Places
  <2>2. rows[r] \subseteq Aps
    OBVIOUS
  <2>3. found' = found \/ \E a \in Aps : found' = [found EXCEPT ![r] = Approval(a)]
    BY <2>2
  <2>4. found' \in [Runners -> Usable]
    BY <2>3, Choice
  <2> QED
    BY <2>1, <2>4 DEF RunnersTyped
<1>2. ReadsFollow
  BY DEF ReadsFollow
<1>3. MissionFollows
  BY DEF MissionFollows
<1>4. ChainFollows
  BY DEF ChainFollows
<1>5. approvals' = approvals /\ declared' = declared /\ ScopesFollow
  BY DEF ScopesFollow
<1> QED
  BY <1>1, <1>2, <1>3, <1>4, <1>5 DEF RunnerMoves

(* What was found is used, if its row still stands.                         *)
LEMMA UseMoves == ASSUME GateTyped, NEW r \in Runners, Use(r) PROVE RunnerMoves
<1> USE DEF Use, GateTyped, Goto, Leave
<1>1. RunnersTyped'
  <2>1. at' \in [Runners -> Places]
    BY DEF Places
  <2>2. Nothing \in Usable /\ found' = [found EXCEPT ![r] = Nothing] /\ rows' = rows
    BY DEF Usable
  <2> QED
    BY <2>1, <2>2 DEF RunnersTyped
<1>2. ReadsFollow
  BY DEF ReadsFollow
<1>3. MissionFollows
  BY DEF MissionFollows
<1>4. ChainFollows
  BY DEF ChainFollows
<1>5. approvals' = approvals /\ declared' = declared /\ ScopesFollow
  BY DEF ScopesFollow
<1> QED
  BY <1>1, <1>2, <1>3, <1>4, <1>5 DEF RunnerMoves

(* Only a runner past the gate starts the mission.                          *)
LEMMA StartMoves == ASSUME GateTyped, NEW r \in Runners, Start(r) PROVE RunnerMoves
<1> USE DEF Start, GateTyped, Goto, Leave
<1>1. RunnersTyped'
  BY Choice DEF RunnersTyped, Places
<1>2. ReadsFollow
  BY DEF ReadsFollow
<1>3. MissionFollows
  BY DEF MissionFollows
<1>4. ChainFollows
  BY DEF ChainFollows
<1>5. approvals' = approvals /\ declared' = declared /\ ScopesFollow
  BY DEF ScopesFollow
<1> QED
  BY <1>1, <1>2, <1>3, <1>4, <1>5 DEF RunnerMoves

(* The runner leaves.                                                       *)
LEMMA FinishMoves == ASSUME GateTyped, NEW r \in Runners, Finish(r) PROVE RunnerMoves
<1> USE DEF Finish, GateTyped, Goto, Leave
<1>1. RunnersTyped'
  BY Choice DEF RunnersTyped, Places
<1>2. ReadsFollow
  BY DEF ReadsFollow
<1>3. MissionFollows
  BY DEF MissionFollows
<1>4. ChainFollows
  BY DEF ChainFollows
<1>5. approvals' = approvals /\ declared' = declared /\ ScopesFollow
  BY DEF ScopesFollow
<1> QED
  BY <1>1, <1>2, <1>3, <1>4, <1>5 DEF RunnerMoves

(* The worker goes to the mission or to sleep.                              *)
LEMMA ScanMoves == ASSUME GateTyped, Scan PROVE RunnerMoves
<1> USE DEF Scan, GateTyped, Goto, Leave
<1>1. RunnersTyped'
  BY Choice DEF RunnersTyped, Places
<1>2. ReadsFollow
  BY DEF ReadsFollow
<1>3. MissionFollows
  BY DEF MissionFollows
<1>4. ChainFollows
  BY DEF ChainFollows
<1>5. approvals' = approvals /\ declared' = declared /\ ScopesFollow
  BY DEF ScopesFollow
<1> QED
  BY <1>1, <1>2, <1>3, <1>4, <1>5 DEF RunnerMoves

(* The worker drains its inbox.                                            *)
LEMMA DrainInboxMoves == ASSUME GateTyped, DrainInbox PROVE RunnerMoves
<1> USE DEF DrainInbox, GateTyped, Goto, Leave
<1>1. RunnersTyped'
  BY Choice DEF RunnersTyped, Places
<1>2. ReadsFollow
  BY DEF ReadsFollow
<1>3. MissionFollows
  BY DEF MissionFollows
<1>4. ChainFollows
  BY DEF ChainFollows
<1>5. approvals' = approvals /\ declared' = declared /\ ScopesFollow
  BY DEF ScopesFollow
<1> QED
  BY <1>1, <1>2, <1>3, <1>4, <1>5 DEF RunnerMoves

(* The worker wakes.                                                        *)
LEMMA Select30Moves == ASSUME GateTyped, Select30 PROVE RunnerMoves
<1> USE DEF Select30, GateTyped, Goto, Leave
<1>1. RunnersTyped'
  BY Choice DEF RunnersTyped, Places
<1>2. ReadsFollow
  BY DEF ReadsFollow
<1>3. MissionFollows
  BY DEF MissionFollows
<1>4. ChainFollows
  BY DEF ChainFollows
<1>5. approvals' = approvals /\ declared' = declared /\ ScopesFollow
  BY DEF ScopesFollow
<1> QED
  BY <1>1, <1>2, <1>3, <1>4, <1>5 DEF RunnerMoves

(* So it is for all of them, and for a step that is none.                  *)
LEMMA RunnersMove ==
  ASSUME GateTyped,
         \/ \E r \in Runners : Call(r) \/ RunStep(r)
         \/ Scan \/ DrainInbox \/ Select30
  PROVE  RunnerMoves
BY CallMoves, EnterMoves, ReadRowsMoves, CheckChainMoves, UseMoves, StartMoves,
   FinishMoves, ScanMoves, DrainInboxMoves, Select30Moves DEF RunStep

-----------------------------------------------------------------------------
(* The workspace lock.                                                     *)

Inside(r) == at[r] \in {"gate", "check", "use", "start"}

\* Whoever is inside holds the lock, and nobody else does; the mission it
\* looked at there is still queued until it starts it.
LockHeld ==
  /\ workspace = {} \/ \E r \in Runners : workspace = {r}
  /\ inbox \in BOOLEAN
  /\ \A r \in Runners : Inside(r) => workspace = {r}
  /\ \A r \in Runners : at[r] \in {"gate", "check", "use"} => task = "queued"

(* Two runners are never inside together.                                  *)
LEMMA OneInside ==
  ASSUME LockHeld, NEW r \in Runners, NEW q \in Runners, Inside(r), Inside(q)
  PROVE  r = q
BY DEF LockHeld

-----------------------------------------------------------------------------
(* A row that fits what a runner has read goes on doing so.                *)
LEMMA FitsStays ==
  ASSUME GateTyped, [ApNext]_apVars
  PROVE  \A q \in Runners : \A a \in Aps :
           at'[q] \in {"check", "use", "start"} /\ Fits(q, a) => Fits(q, a)'
<1>1. CASE \E b \in Aps, s \in Scopes : GrantApproval(b, s)
  BY <1>1 DEF GrantApproval, Fits, GateTyped, Row
<1>2. CASE \E b \in Aps : RevokeApproval(b)
  BY <1>2 DEF RevokeApproval, Fits, GateTyped, Row
<1>3. CASE \E b \in Aps : ExpiryPasses(b)
  BY <1>3 DEF ExpiryPasses, Fits, GateTyped, Row
<1>4. CASE \E s \in Scopes : Upgrade(s)
  BY <1>4 DEF Upgrade, Fits
<1>5. CASE RunnerMoves
  BY <1>5 DEF RunnerMoves, ScopesFollow, Fits
<1>6. CASE UNCHANGED apVars
  BY <1>6 DEF apVars, Fits
<1> QED
  BY <1>1, <1>2, <1>3, <1>4, <1>5, <1>6, GateSteps, RunnersMove

(* The initial states have it.                                             *)
LEMMA GateInvInit == ApInit => GateInv
<1> SUFFICES ASSUME ApInit PROVE GateInv
  OBVIOUS
<1>1. GateTyped
  BY DEF ApInit, GateTyped, Usable, Row, Events
<1>2. RowsFit /\ FoundFits /\ UsedFits
  BY Choice DEF ApInit, RowsFit, FoundFits, UsedFits
<1>3. RevokedInTable /\ UsedWhileStanding
  BY DEF ApInit, RevokedInTable, UsedWhileStanding, Chained
<1> QED
  BY <1>1, <1>2, <1>3 DEF GateInv

(* A row that is granted, revoked or expires is a row.                     *)
LEMMA RowsTyped ==
    ASSUME approvals \in [Aps -> Row], NEW a \in Aps, NEW s \in Scopes
    PROVE  /\ [approvals EXCEPT ![a].there = TRUE, ![a].scope = s] \in [Aps -> Row]
           /\ [approvals EXCEPT ![a].revoked = TRUE] \in [Aps -> Row]
           /\ [approvals EXCEPT ![a].expired = TRUE] \in [Aps -> Row]
BY DEF Row

(* Every step keeps the types.                                             *)
LEMMA GateTypedStep == GateInv /\ [ApNext]_apVars => GateTyped'
<1> SUFFICES ASSUME GateInv, [ApNext]_apVars PROVE GateTyped'
  OBVIOUS
<1>0. GateTyped
  BY DEF GateInv
<1>1. ASSUME NEW a \in Aps, NEW s \in Scopes, GrantApproval(a, s) PROVE GateTyped'
  <2>1. approvals' \in [Aps -> Row]
    BY <1>0, <1>1, RowsTyped DEF GrantApproval, GateTyped
  <2>2. trail' \in Seq(Events)
    BY <1>0, <1>1, OneMoreEvent DEF GrantApproval, GateTyped, Events
  <2> QED
    BY <1>0, <1>1, <2>1, <2>2 DEF GrantApproval, GateTyped
<1>2. ASSUME NEW a \in Aps, RevokeApproval(a) PROVE GateTyped'
  <2>1. approvals' \in [Aps -> Row]
    BY <1>0, <1>2, RowsTyped DEF RevokeApproval, GateTyped
  <2>2. trail' \in Seq(Events)
    BY <1>0, <1>2, OneMoreEvent DEF RevokeApproval, GateTyped, Events
  <2> QED
    BY <1>0, <1>2, <2>1, <2>2 DEF RevokeApproval, GateTyped
<1>3. ASSUME NEW a \in Aps, ExpiryPasses(a) PROVE GateTyped'
  <2>1. approvals' \in [Aps -> Row]
    BY <1>0, <1>3, RowsTyped DEF ExpiryPasses, GateTyped
  <2> QED
    BY <1>0, <1>3, <2>1 DEF ExpiryPasses, GateTyped
<1>4. CASE RunnerMoves
  <2>1. \A q \in Runners : at[q] = "use" => found[q] \in Usable /\ found[q].ap \in Aps
    BY Choice DEF GateInv, GateTyped, FoundFits
  <2>2. trail' \in Seq(Events)
    BY <1>0, <1>4, <2>1, OneMoreEvent DEF RunnerMoves, ChainFollows, GateTyped, Events
  <2>3. usedBy' \in Usable
    BY <1>0, <1>4, <2>1 DEF RunnerMoves, MissionFollows, GateTyped
  <2> QED
    BY <1>0, <1>4, <2>2, <2>3
       DEF RunnerMoves, MissionFollows, ScopesFollow, GateTyped, RunnersTyped, Places
<1>5. CASE (\E s \in Scopes : Upgrade(s)) \/ UNCHANGED apVars
  BY <1>0, <1>5 DEF Upgrade, apVars, GateTyped
<1> QED
  BY <1>0, <1>1, <1>2, <1>3, <1>4, <1>5, GateSteps, RunnersMove

(* Every step keeps what fits: nobody else uses an approval while a runner *)
(* is past the gate.                                                       *)
LEMMA FitStep ==
  GateInv /\ LockHeld /\ [ApNext]_apVars => RowsFit' /\ FoundFits' /\ UsedFits'
<1> SUFFICES ASSUME GateInv, LockHeld, [ApNext]_apVars
             PROVE  RowsFit' /\ FoundFits' /\ UsedFits'
  OBVIOUS
<1>0. GateTyped /\ RowsFit /\ FoundFits /\ UsedFits
  BY DEF GateInv
<1>1. \A q \in Runners : \A a \in Aps :
        at'[q] \in {"check", "use", "start"} /\ Fits(q, a) => Fits(q, a)'
  BY <1>0, FitsStays
<1>2. CASE RunnerMoves
  <2>1. RowsFit'
    <3>1. \A q \in Runners : \A a \in Aps : Standing(q, a) => Fits(q, a)
      BY DEF Standing, Fits
    <3>2. ASSUME NEW q \in Runners, at'[q] = "check", NEW a \in rows'[q]
          PROVE  a \in Aps /\ Fits(q, a)
      BY <1>0, <1>2, <3>1, <3>2 DEF RunnerMoves, ReadsFollow, RowsFit, GateTyped
    <3> QED
      BY <1>1, <3>2 DEF RowsFit
  <2>2. FoundFits'
    <3>1. ASSUME NEW q \in Runners, at'[q] = "use"
          PROVE  found'[q] # Nothing /\ found'[q].ap \in Aps /\ Fits(q, found'[q].ap)
      <4>1. CASE at[q] = "use" /\ found'[q] = found[q]
        BY <1>0, <4>1, Choice DEF FoundFits, GateTyped
      <4>2. CASE at[q] = "check" /\ \E a \in rows[q] : found'[q] = Approval(a)
        <5>1. PICK a \in rows[q] : found'[q] = Approval(a)
          BY <4>2
        <5>2. a \in Aps /\ Fits(q, a)
          BY <1>0, <4>2 DEF GateTyped, RowsFit
        <5> QED
          BY <5>1, <5>2, Choice
      <4> QED
        BY <1>2, <3>1, <4>1, <4>2 DEF RunnerMoves, ReadsFollow
    <3> QED
      BY <1>1, <3>1 DEF FoundFits
  <2>3. UsedFits'
    <3>1. ASSUME NEW q \in Runners, at'[q] = "start", Escalates(asked'[q])
          PROVE  usedBy' # Nothing /\ usedBy'.ap \in Aps /\ Fits(q, usedBy'.ap)
      <4>0. Escalates(asked[q])
        BY <1>2, <3>1 DEF RunnerMoves, ScopesFollow
      <4>1. CASE at[q] = "start"
        <5>1. \A p \in Runners : at[p] # "use"
          BY <4>1, OneInside DEF Inside
        <5>2. usedBy' = usedBy
          BY <1>2, <5>1 DEF RunnerMoves, MissionFollows
        <5> QED
          BY <1>0, <4>0, <4>1, <5>2, Choice DEF UsedFits, GateTyped
      <4>2. CASE at[q] = "use" /\ usedBy' = found[q]
        BY <1>0, <4>2, Choice DEF FoundFits, GateTyped
      <4> QED
        BY <1>2, <3>1, <4>0, <4>1, <4>2 DEF RunnerMoves, MissionFollows
    <3> QED
      BY <1>1, <3>1 DEF UsedFits
  <2> QED
    BY <2>1, <2>2, <2>3
<1>3. CASE UNCHANGED <<asked, usedBy, at, rows, found>>
  <2>1. RowsFit'
    BY <1>0, <1>1, <1>3 DEF RowsFit, GateTyped
  <2>2. FoundFits'
    BY <1>0, <1>1, <1>3, Choice DEF FoundFits, GateTyped
  <2>3. UsedFits'
    BY <1>0, <1>1, <1>3, Choice DEF UsedFits, GateTyped
  <2> QED
    BY <2>1, <2>2, <2>3
<1> QED
  BY <1>0, <1>2, <1>3, GateSteps, RunnersMove
     DEF GrantApproval, RevokeApproval, ExpiryPasses, Upgrade, apVars

(* A revocation is in the table before it is in the chain of anyone.       *)
LEMMA RevokedStep == GateInv /\ [ApNext]_apVars => RevokedInTable'
<1> SUFFICES ASSUME GateInv, [ApNext]_apVars PROVE RevokedInTable'
  OBVIOUS
<1>0. GateTyped /\ RevokedInTable
  BY DEF GateInv
<1>1. ASSUME NEW kind \in {"granted", "used", "revoked"}, NEW b \in Aps,
             trail' = Append(trail, <<kind, b>>), NEW a \in Aps, Chained("revoked", a)'
      PROVE  Chained("revoked", a) \/ (kind = "revoked" /\ a = b)
  BY <1>0, <1>1, OneMoreEvent DEF Chained, GateTyped, Events
<1>2. ASSUME NEW a \in Aps, NEW s \in Scopes, GrantApproval(a, s) PROVE RevokedInTable'
  BY <1>0, <1>1, <1>2 DEF GrantApproval, RevokedInTable, GateTyped, Row
<1>3. ASSUME NEW a \in Aps, RevokeApproval(a) PROVE RevokedInTable'
  BY <1>0, <1>1, <1>3 DEF RevokeApproval, RevokedInTable, GateTyped, Row
<1>4. ASSUME NEW a \in Aps, ExpiryPasses(a) PROVE RevokedInTable'
  BY <1>0, <1>4 DEF ExpiryPasses, RevokedInTable, GateTyped, Row, Chained
<1>5. CASE RunnerMoves
  <2>1. \A q \in Runners : at[q] = "use" => found[q].ap \in Aps
    BY Choice DEF GateInv, GateTyped, FoundFits
  <2>2. CASE trail' = trail
    BY <1>0, <1>5, <2>2 DEF RunnerMoves, RevokedInTable, Chained
  <2>3. CASE trail' # trail
    BY <1>0, <1>1, <1>5, <2>1, <2>3 DEF RunnerMoves, ChainFollows, RevokedInTable
  <2> QED
    BY <2>2, <2>3
<1>6. CASE (\E s \in Scopes : Upgrade(s)) \/ UNCHANGED apVars
  BY <1>0, <1>6 DEF Upgrade, apVars, RevokedInTable, Chained
<1> QED
  BY <1>0, <1>2, <1>3, <1>4, <1>5, <1>6, GateSteps, RunnersMove

(* A use is recorded only of what has no revocation in the chain.          *)
LEMMA UsedStep == GateInv /\ [ApNext]_apVars => UsedWhileStanding'
<1> SUFFICES ASSUME GateInv, [ApNext]_apVars PROVE UsedWhileStanding'
  OBVIOUS
<1>0. GateTyped /\ RevokedInTable /\ UsedWhileStanding
  BY DEF GateInv
<1>1. CASE trail' = trail
  BY <1>0, <1>1 DEF UsedWhileStanding
<1>2. ASSUME NEW kind \in {"granted", "revoked"}, NEW b \in Aps,
             trail' = Append(trail, <<kind, b>>)
      PROVE  UsedWhileStanding'
  BY <1>0, <1>2, OneMoreEvent DEF UsedWhileStanding, GateTyped, Events
<1>3. ASSUME NEW b \in Aps, ~approvals[b].revoked, trail' = Append(trail, <<"used", b>>)
      PROVE  UsedWhileStanding'
  <2>1. \A i \in DOMAIN trail : trail[i] # <<"revoked", b>>
    BY <1>0, <1>3 DEF RevokedInTable, Chained
  <2>2. /\ Len(trail) \in Nat /\ DOMAIN trail = 1..Len(trail)
        /\ DOMAIN trail' = 1..(Len(trail) + 1)
        /\ \A i \in 1..Len(trail) : trail'[i] = trail[i]
        /\ trail'[Len(trail) + 1] = <<"used", b>>
    BY <1>0, <1>3, OneMoreEvent DEF GateTyped, Events
  <2> SUFFICES ASSUME NEW i \in DOMAIN trail', NEW j \in DOMAIN trail',
                      trail'[i][1] = "revoked", trail'[j] = <<"used", trail'[i][2]>>
               PROVE  j < i
    BY DEF UsedWhileStanding
  <2>3. i \in 1..Len(trail) /\ trail[i][1] = "revoked"
    BY <2>2
  <2>4. trail[i][2] # b
    BY <1>0, <2>1, <2>2, <2>3, EventsTyped DEF GateTyped
  <2>5. j \in 1..Len(trail) /\ trail[j] = <<"used", trail[i][2]>>
    BY <2>2, <2>3, <2>4
  <2> QED
    BY <1>0, <2>2, <2>3, <2>5 DEF UsedWhileStanding
<1>4. CASE RunnerMoves
  <2>1. \A q \in Runners : at[q] = "use" => found[q].ap \in Aps
    BY Choice DEF GateInv, GateTyped, FoundFits
  <2> QED
    BY <1>1, <1>3, <1>4, <2>1 DEF RunnerMoves, ChainFollows
<1> QED
  BY <1>0, <1>1, <1>2, <1>4, GateSteps, RunnersMove
     DEF GrantApproval, RevokeApproval, ExpiryPasses, Upgrade, apVars

(* Every step keeps the inductive invariant.                               *)
LEMMA GateInvStep == GateInv /\ LockHeld /\ [ApNext]_apVars => GateInv'
BY GateTypedStep, FitStep, RevokedStep, UsedStep DEF GateInv

\* A use is in the chain only of a mission that starts or has started.
UsedIsStarting ==
  \A i \in DOMAIN trail :
    trail[i][1] = "used" => task # "queued" \/ \E r \in Runners : at[r] = "start"

\* A mission uses one approval, once.
UsedOnce ==
  \A i, j \in DOMAIN trail : trail[i][1] = "used" /\ trail[j][1] = "used" => i = j

LockInv == LockHeld /\ UsedIsStarting /\ UsedOnce

(* A step that writes no use, and brings nobody in or to the start.        *)
LEMMA LockUntouched ==
  ASSUME GateTyped, LockInv, UNCHANGED <<workspace, task, at>>, inbox' \in BOOLEAN,
         \/ trail' = trail
         \/ \E a \in Aps, k \in {"granted", "revoked"} : trail' = Append(trail, <<k, a>>)
  PROVE  LockInv'
<1>1. LockHeld'
  BY DEF LockInv, LockHeld, Inside
<1>2. ASSUME NEW i \in DOMAIN trail', trail'[i][1] = "used"
      PROVE  i \in DOMAIN trail /\ trail'[i] = trail[i]
  <2>1. ASSUME NEW a \in Aps, NEW k \in {"granted", "revoked"}, trail' = Append(trail, <<k, a>>)
        PROVE  i \in DOMAIN trail /\ trail'[i] = trail[i]
    <3>1. trail \in Seq(Events) /\ <<k, a>> \in Events
      BY DEF GateTyped, Events
    <3>2. /\ i = Len(trail) + 1 \/ (i \in DOMAIN trail /\ trail'[i] = trail[i])
          /\ trail'[Len(trail) + 1] = <<k, a>>
      BY <1>2, <2>1, <3>1, OneMoreEvent
    <3> QED
      BY <1>2, <3>2
  <2> QED
    BY <1>2, <2>1
<1>3. UsedIsStarting' /\ UsedOnce'
  BY <1>2 DEF LockInv, UsedIsStarting, UsedOnce
<1> QED
  BY <1>1, <1>3 DEF LockInv

(* A runner comes to the lock, gets on, or leaves; it writes no use.       *)
LEMMA LockRunner ==
  ASSUME GateTyped, LockInv, NEW r \in Runners, inbox' \in BOOLEAN, trail' = trail,
         task' = task, NEW w, at' = [at EXCEPT ![r] = w],
         at[r] # "start",
         \/ /\ Inside(r) /\ w \in {"check", "use", "start"} /\ workspace' = workspace
         \/ /\ ~Inside(r) /\ workspace = {} /\ task = "queued"
            /\ workspace' = {r} /\ w = "gate"
         \/ /\ w \in {"idle", "enter", "drain", "asleep", "done"}
            /\ workspace' = workspace \ {r}
         \/ /\ ~Inside(r) /\ w \in {"idle", "enter", "drain", "asleep", "done"}
            /\ workspace' = workspace
  PROVE  LockInv'
<1>1. /\ at'[r] = w /\ \A q \in Runners : q # r => at'[q] = at[q]
  BY DEF GateTyped
<1>2. LockHeld'
  BY <1>1 DEF LockInv, LockHeld, Inside
<1>3. UsedIsStarting' /\ UsedOnce'
  BY <1>1 DEF LockInv, UsedIsStarting, UsedOnce
<1> QED
  BY <1>2, <1>3 DEF LockInv

(* The transaction that uses the approval: there is no use before.         *)
LEMMA LockUse ==
  ASSUME GateTyped, FoundFits, LockInv, NEW r \in Runners, Use(r)
  PROVE  LockInv'
<1> USE DEF Use, Goto, Leave
<1>1. at[r] = "use" /\ task = "queued" /\ task' = task /\ inbox' = TRUE /\ Inside(r)
  BY DEF LockInv, LockHeld, Inside
<1>2. CASE approvals[found[r].ap].revoked
  <2>1. /\ trail' = trail /\ workspace' = workspace \ {r}
        /\ at' = [at EXCEPT ![r] = IF r = Runner THEN "drain" ELSE "done"]
    BY <1>2
  <2> QED
    BY <1>1, <2>1, LockRunner
<1>3. CASE ~approvals[found[r].ap].revoked
  <2>1. /\ trail' = Append(trail, <<"used", found[r].ap>>) /\ workspace' = workspace
        /\ at' = [at EXCEPT ![r] = "start"]
    BY <1>3
  <2>2. at'[r] = "start" /\ \A q \in Runners : q # r => at'[q] = at[q]
    BY <2>1 DEF GateTyped
  <2>3. \A q \in Runners : at[q] # "start"
    BY <1>1, OneInside DEF Inside, LockInv
  <2>4. \A i \in DOMAIN trail : trail[i][1] # "used"
    BY <1>1, <2>3 DEF LockInv, UsedIsStarting
  <2>5. \A i \in DOMAIN trail' : i = Len(trail) + 1 \/ (i \in DOMAIN trail /\ trail'[i] = trail[i])
    BY <2>1 DEF GateTyped
  <2>6. UsedOnce'
    BY <2>4, <2>5 DEF UsedOnce
  <2>7. UsedIsStarting'
    BY <2>2 DEF UsedIsStarting
  <2>8. LockHeld'
    BY <1>1, <2>1, <2>2 DEF LockInv, LockHeld, Inside
  <2> QED
    BY <2>6, <2>7, <2>8 DEF LockInv
<1> QED
  BY <1>2, <1>3

(* The mission starts, and ends with its runner gone.                      *)
LEMMA LockStart ==
  ASSUME GateTyped, LockInv, NEW r \in Runners, Start(r) \/ Finish(r)
  PROVE  LockInv'
<1>1. at[r] = "start" /\ Inside(r) /\ inbox' = TRUE /\ trail' = trail /\ task' # "queued"
  BY DEF Start, Finish, Inside
<1>2. \A q \in Runners : q # r => ~Inside(q)
  BY <1>1, OneInside DEF LockInv
<1>3. UsedIsStarting' /\ UsedOnce'
  BY <1>1 DEF LockInv, UsedIsStarting, UsedOnce
<1>4. LockHeld'
  <2>1. CASE Start(r)
    BY <1>1, <1>2, <2>1 DEF Start, LockInv, LockHeld, Inside
  <2>2. CASE Finish(r)
    <3>1. /\ workspace' = workspace \ {r} /\ at'[r] \in {"drain", "done"}
          /\ \A q \in Runners : q # r => at'[q] = at[q]
      BY <2>2 DEF Finish, Leave, GateTyped
    <3> QED
      BY <1>1, <1>2, <3>1 DEF LockInv, LockHeld, Inside
  <2> QED
    BY <2>1, <2>2
<1> QED
  BY <1>3, <1>4 DEF LockInv

(* Every step keeps the lock.                                              *)
LEMMA LockInvStep == GateInv /\ LockInv /\ [ApNext]_apVars => LockInv'
<1> SUFFICES ASSUME GateInv, LockInv, [ApNext]_apVars PROVE LockInv'
  OBVIOUS
<1>0. GateTyped /\ FoundFits /\ inbox \in BOOLEAN
  BY DEF GateInv, LockInv, LockHeld
<1>1. ASSUME NEW a \in Aps, RevokeApproval(a) \/ ExpiryPasses(a) PROVE LockInv'
  BY <1>0, <1>1, LockUntouched DEF RevokeApproval, ExpiryPasses
<1>2. ASSUME NEW a \in Aps, NEW s \in Scopes, GrantApproval(a, s) PROVE LockInv'
  BY <1>0, <1>2, LockUntouched DEF GrantApproval
<1>3. ASSUME NEW r \in Clients, Call(r) PROVE LockInv'
  BY <1>0, <1>3, LockRunner DEF Call, Inside
<1>4. ASSUME NEW r \in Runners, Enter(r) PROVE LockInv'
  BY <1>0, <1>4, LockRunner DEF Enter, Leave, Inside
<1>5. ASSUME NEW r \in Runners, ReadRows(r) PROVE LockInv'
  BY <1>0, <1>5, LockRunner DEF ReadRows, Goto, Inside
<1>6. ASSUME NEW r \in Runners, CheckChain(r) PROVE LockInv'
  BY <1>0, <1>6, LockRunner DEF CheckChain, Goto, Leave, Inside
<1>7. ASSUME NEW r \in Runners, Use(r) PROVE LockInv'
  BY <1>0, <1>7, LockUse
<1>8. ASSUME NEW r \in Runners, Start(r) \/ Finish(r) PROVE LockInv'
  BY <1>0, <1>8, LockStart
<1>9. CASE Scan \/ DrainInbox \/ Select30
  BY <1>0, <1>9, LockRunner DEF Scan, DrainInbox, Select30, Goto, Inside
<1>10. CASE (\E s \in Scopes : Upgrade(s)) \/ UNCHANGED apVars
  BY <1>0, <1>10, LockUntouched DEF Upgrade, apVars
<1> QED
  BY <1>1, <1>2, <1>3, <1>4, <1>5, <1>6, <1>7, <1>8, <1>9, <1>10
     DEF ApNext, RunStep, WorkerLoop

(* It starts with the lock free.                                           *)
LEMMA LockInvInit == ApInit => LockInv
<1> SUFFICES ASSUME ApInit PROVE LockInv
  OBVIOUS
<1>1. DOMAIN trail = {}
  BY DEF ApInit
<1>2. UsedIsStarting /\ UsedOnce
  BY <1>1 DEF UsedIsStarting, UsedOnce
<1>3. LockHeld
  BY DEF ApInit, LockHeld, Inside
<1> QED
  BY <1>2, <1>3 DEF LockInv

(* The two invariants hold in every state: each step of the first one      *)
(* needs the lock, and each step of the lock what was found.               *)
LEMMA GateInvariant == ApInit /\ [][ApNext]_apVars => [](GateInv /\ LockInv)
<1>1. LockInv => LockHeld
  BY DEF LockInv
<1> QED
  BY <1>1, GateInvInit, GateInvStep, LockInvInit, LockInvStep, PTL

(* However a revocation races the gate, in the order of the chain nothing  *)
(* is used after it was revoked (revoke_approval, require_approval).       *)
THEOREM UsedWhileStandingHolds == ApSpec => []UsedWhileStanding
<1>1. GateInv => UsedWhileStanding
  BY DEF GateInv
<1> QED
  BY <1>1, GateInvariant, PTL DEF ApSpec

(* The approval that was used still covers what runs.                      *)
LEMMA RunsApproved == GateInv => WhatRunsWasApproved
BY DEF GateInv, UsedFits, Fits, Covers, WhatRunsWasApproved

(* A runner that needs a person for what it has read that the provider     *)
(* declares runs the mission under an approval that covers all of that     *)
(* (require_approval, find_approval, approval_covers).                     *)
THEOREM WhatRunsWasApprovedHolds == ApSpec => []WhatRunsWasApproved
BY RunsApproved, GateInvariant, PTL DEF ApSpec

(* However the worker and the command line race for a mission, one of them *)
(* is inside the gate, and the chain gets one use of one approval for it.  *)
THEOREM ApprovalIsUsedOnce ==
  ApSpec => [](UsedOnce /\ \A r, q \in Runners : Inside(r) /\ Inside(q) => r = q)
<1>1. LockInv => UsedOnce /\ \A r, q \in Runners : Inside(r) /\ Inside(q) => r = q
  BY OneInside DEF LockInv
<1> QED
  BY <1>1, GateInvariant, PTL DEF ApSpec

(* What the two invariants say of the types.                               *)
LEMMA GateTypes == GateInv /\ LockInv => ApTypeOK
<1> SUFFICES ASSUME GateInv, LockInv PROVE ApTypeOK
  OBVIOUS
<1>1. Cardinality(workspace) <= 1
  <2>1. CASE workspace = {}
    BY <2>1, FS_EmptySet
  <2>2. ASSUME NEW r \in Runners, workspace = {r} PROVE Cardinality(workspace) <= 1
    <3>1. Cardinality({r}) = 1
      BY FS_Singleton
    <3> QED
      BY <2>2, <3>1
  <2> QED
    BY <2>1, <2>2 DEF LockInv, LockHeld
<1>2. /\ approvals \in [Aps -> [there : BOOLEAN, revoked : BOOLEAN,
                              expired : BOOLEAN, scope : Scopes]]
      /\ trail \in Seq({"granted", "revoked", "used"} \X Aps)
  BY DEF GateInv, GateTyped, Row, Events
<1> QED
  BY <1>1, <1>2 DEF ApTypeOK, GateInv, GateTyped, Usable, LockInv, LockHeld

(* The types of the gate.                                                  *)
THEOREM GateTypeCorrect == ApSpec => []ApTypeOK
BY GateTypes, GateInvariant, PTL DEF ApSpec
=============================================================================
