----------------------------- MODULE AuditMirror -----------------------------
(***************************************************************************)
(* The audit chain of sf_missions.py, its mirror in journald (sf_audit.py) *)
(* and the verifier that compares the two (verify_chain, verify_states,    *)
(* verify_domain_records).                                                 *)
(*                                                                         *)
(* Every event is appended under BEGIN IMMEDIATE, together with the row it *)
(* is about, and mirrored after the commit by the process that appended    *)
(* it, which may die first or find the journal closed.  A row of the chain *)
(* is a serial number nothing else has, and what it records; its hash      *)
(* stands for the whole chain up to it, so two hashes agree when the       *)
(* prefixes do.  The database is one file: it can be put back from a copy, *)
(* or edited by another program, and journald keeps what it was told.      *)
(***************************************************************************)
EXTENDS Naturals, Sequences, FiniteSets, FiniteSetsExt, Functions

CONSTANTS
  Writers,      \* processes of the engine
  MaxSerial,    \* rows ever written, a bound
  MaxDamage     \* how often the database is damaged, a bound

ASSUME MirrorAssumption == MaxSerial \in Nat \ {0} /\ MaxDamage \in Nat

VARIABLES
  log,          \* the events table
  serial,       \* how many rows were ever written
  state,        \* the row of the missions table
  records,      \* the serial numbers of the domain rows
  lines,        \* what the journal holds: sequence number and hash
  flight,       \* the lines each process has committed and not mirrored yet
  failing,      \* audit-mirror.json: whether a failure is on record
  lost,         \* whether a committed row was never mirrored
  damage,       \* how often the database was damaged
  verifier,     \* where verify_chain is
  vrows,        \* the events it read, with what else was true then
  vfirst,       \* the journal as it read it first
  vlast,        \* and after the settle, if there was one
  alarms        \* the problems it reports

ledger   == <<log, serial, state, records>>
journald == <<lines, flight, failing, lost>>
report   == <<verifier, vrows, vfirst, vlast, alarms>>
amVars   == <<ledger, journald, damage, report>>

Line(rows, i) == [seq |-> i, hash |-> SubSeq(rows, 1, i)]
NotRead == [rows |-> <<>>, serial |-> 0, flight |-> {}, lines |-> {}]

AmTypeOK ==
  /\ \A i \in DOMAIN log : log[i].serial \in 1..MaxSerial
                           /\ log[i].what \in {"queued", "running", "record"}
  /\ serial \in 0..MaxSerial /\ state \in {"queued", "running"}
  /\ records \subseteq 1..MaxSerial
  /\ \A l \in lines : l.seq = Len(l.hash)
  /\ \A w \in Writers : Cardinality(flight[w]) <= 1
  /\ {failing, lost} \subseteq BOOLEAN /\ damage \in 0..MaxDamage
  /\ verifier \in {"idle", "rows", "settle", "states", "done"}
  /\ vfirst \subseteq lines /\ vlast \subseteq lines

\* The chain's first row is the mission's creation; it is mirrored.
AmInit ==
  /\ log = <<[serial |-> 1, what |-> "queued"]>> /\ serial = 1
  /\ state = "queued" /\ records = {}
  /\ lines = {Line(log, 1)} /\ flight = [w \in Writers |-> {}]
  /\ failing = FALSE /\ lost = FALSE
  /\ damage = 0
  /\ verifier = "idle" /\ vrows = NotRead /\ vfirst = {} /\ vlast = {} /\ alarms = {}

-----------------------------------------------------------------------------
(* The engine.                                                             *)

\* _append inside the caller's transaction, with the row it is about: a
\* transition of the mission, or a record that is part of its receipt.
AppendEvent(w) ==
  /\ flight[w] = {} /\ serial < MaxSerial
  /\ serial' = serial + 1
  /\ \/ state' = (IF state = "queued" THEN "running" ELSE "queued") /\ UNCHANGED records
     \/ records' = records \cup {serial'} /\ UNCHANGED state
  /\ log' = Append(log, [serial |-> serial',
                         what |-> IF state' = state THEN "record" ELSE state'])
  /\ flight' = [flight EXCEPT ![w] = {Line(log', Len(log'))}]
  /\ UNCHANGED <<lines, failing, lost, damage, report>>

\* mirror, and the bookmark beside the database: a success forgets failures.
MirrorLine(w) ==
  /\ flight[w] # {}
  /\ lines' = lines \cup flight[w]
  /\ failing' = FALSE
  /\ flight' = [flight EXCEPT ![w] = {}]
  /\ UNCHANGED <<ledger, lost, damage, report>>

\* The journal is closed, and the failure is counted; or the process dies.
MirrorFails(w) ==
  /\ flight[w] # {}
  /\ flight' = [flight EXCEPT ![w] = {}]
  /\ failing' \in {failing, TRUE}
  /\ lost' = TRUE
  /\ UNCHANGED <<ledger, lines, damage, report>>

\* The last state among some events.
StateOf(rows) == rows[Max({i \in DOMAIN rows : rows[i].what # "record"})].what

Recorded(rows) == {e.serial : e \in {x \in Range(rows) : x.what = "record"}}

\* The database is put back from a copy that holds its first k events.
PutBack(k) ==
  /\ damage < MaxDamage /\ k < Len(log)
  /\ damage' = damage + 1
  /\ log' = SubSeq(log, 1, k)
  /\ state' = StateOf(log') /\ records' = Recorded(log')
  /\ UNCHANGED <<serial, journald, report>>

\* Another program rewrites event k and chains what follows again.
RewriteEvent(k) ==
  /\ damage < MaxDamage /\ serial < MaxSerial /\ log[k].what = "record"
  /\ damage' = damage + 1 /\ serial' = serial + 1
  /\ log' = [log EXCEPT ![k].serial = serial']
  /\ records' = Recorded(log')
  /\ UNCHANGED <<state, journald, report>>

-----------------------------------------------------------------------------
(* The verifier.  The chain is read first, the journal after it, the other *)
(* tables last; nothing holds the writers back in between.                 *)

VerifyRows ==
  /\ verifier \in {"idle", "done"}
  /\ verifier' = "rows"
  /\ vrows' = [rows |-> log, serial |-> serial, lines |-> lines,
               flight |-> UNION {flight[w] : w \in Writers}]
  /\ vfirst' = {} /\ vlast' = {} /\ alarms' = {}
  /\ UNCHANGED <<ledger, journald, damage>>

HeadOf(ls) == Max({l.seq : l \in ls})

\* variant: the verifier does not wait for a journal that is behind
BehindNow(ls) == FALSE

\* The journal holds something, and less than the database.
Behind(ls) == HeadOf(ls) < Len(vrows.rows)

ReadJournal ==
  /\ verifier = "rows"
  /\ vfirst' = lines /\ vlast' = lines
  /\ verifier' = IF Behind(lines) THEN "settle" ELSE "states"
  /\ UNCHANGED <<ledger, journald, damage, vrows, alarms>>

\* JOURNAL_SETTLE_SECONDS later every line that was on its way has arrived, or
\* its process is gone.
ReadJournalAgain ==
  /\ verifier = "settle" /\ vrows.flight \cap UNION {flight[w] : w \in Writers} = {}
  /\ vlast' = lines
  /\ verifier' = "states"
  /\ UNCHANGED <<ledger, journald, damage, vrows, vfirst, alarms>>

\* variant: only the newest line is compared
RewrittenHead(rows, ls) ==
  {l \in ls : l.seq = HeadOf(ls) /\ l.seq <= Len(rows) /\ l.hash # SubSeq(rows, 1, l.seq)}

\* Lines whose event the database holds with another hash.
Rewritten(rows, ls) == {l \in ls : l.seq <= Len(rows) /\ l.hash # SubSeq(rows, 1, l.seq)}

\* Events inside the range the journal can see that have no line.
Gaps(rows, ls) ==
  {i \in Min({l.seq : l \in ls})..HeadOf(ls) : i <= Len(rows) /\ i \notin {l.seq : l \in ls}}

Conflicts(ls) == {l \in ls : \E m \in ls : m.seq = l.seq /\ m.hash # l.hash}

\* verify_states and verify_domain_records, and the verdict.  A record without
\* a witness is only accused when some record of its kind has one.
Verdict ==
  /\ verifier = "states"
  /\ verifier' = "done"
  /\ LET rows == vrows.rows IN
     alarms' =
       (IF HeadOf(vfirst) > Len(rows) THEN {"truncated"} ELSE {})
       \cup (IF HeadOf(vlast) < Len(rows) THEN {"unwitnessed"} ELSE {})
       \cup (IF Gaps(rows, vlast) # {} THEN {"gaps"} ELSE {})
       \cup (IF Conflicts(vlast) # {} THEN {"conflict"} ELSE {})
       \cup (IF Rewritten(rows, vfirst) # {} THEN {"rewritten"} ELSE {})
       \cup (IF StateOf(rows) # state THEN {"state"} ELSE {})
       \cup (IF Recorded(rows) # {} /\ ~(records \subseteq Recorded(rows))
             THEN {"record"} ELSE {})
       \cup (IF failing THEN {"degraded"} ELSE {})
  /\ UNCHANGED <<ledger, journald, damage, vrows, vfirst, vlast>>

-----------------------------------------------------------------------------
AmNext ==
  \/ \E w \in Writers : AppendEvent(w) \/ MirrorLine(w) \/ MirrorFails(w)
  \/ \E k \in DOMAIN log : PutBack(k) \/ RewriteEvent(k)
  \/ VerifyRows \/ ReadJournal \/ ReadJournalAgain \/ Verdict

AmSpec == AmInit /\ [][AmNext]_amVars

-----------------------------------------------------------------------------
\* Whatever the journal was told and the database no longer holds is reported,
\* however many honest events came after the damage: the comment at
\* sf_missions.py:2058-2061.
DamageIsFound ==
  verifier = "done" /\ (\E l \in vrows.lines : l.seq > Len(vrows.rows)
                          \/ l.hash # SubSeq(vrows.rows, 1, l.seq))
    => alarms \ {"degraded"} # {}

\* An accusation has a reason: damage, a committed event that was never
\* mirrored, an event appended while the verifier was reading, or a line still
\* on its way behind a later one.  The lag of a single line is none of these:
\* the verifier waits for it (sf_missions.py:2098-2103).
AlarmsAreExplained ==
  verifier = "done" /\ alarms # {} =>
    \/ damage > 0 \/ lost \/ serial > vrows.serial
    \/ \E f \in vrows.flight, l \in lines : l.seq > f.seq
=============================================================================
