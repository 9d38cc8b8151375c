------------------------------ MODULE McpAudit ------------------------------
(***************************************************************************)
(* The audit log of the MCP servers (sf_mcp.py): Server.call, the gate,    *)
(* AuditLog.append and verify_audit.                                       *)
(*                                                                         *)
(* Every server is a process of its own and answers one call at a time;    *)
(* all of them append to one file under one flock.  A call that changes    *)
(* something runs only after its request is on the disk.  A process may be *)
(* killed, the disk may fill in the middle of a row, and the power may go, *)
(* which leaves what was synced and any prefix of what was not.            *)
(*                                                                         *)
(* The file is a sequence of pieces.  A piece is what one write put there: *)
(* a row, or a fragment of one, with its newline or without; a line is     *)
(* what stands between two newlines.  A row's hash is its serial number.   *)
(***************************************************************************)
EXTENDS Naturals, Sequences, FiniteSetsExt

CONSTANTS
  Servers,
  Allows,       \* the servers that were started to allow destructive tools
  MaxCalls,     \* bounds: calls, writes that fail, deaths and power cuts
  MaxShort,
  MaxStopped

ASSUME McpAssumption ==
  Allows \subseteq Servers /\ {MaxCalls, MaxShort, MaxStopped} \subseteq Nat

VARIABLES
  audit,        \* the pieces of audit.jsonl
  platter,      \* how many of them are on the disk
  flock,        \* who holds the lock of the file, "none" if nobody
  mcp,          \* per server: where it is in Server.call
  made,         \* calls that were made, and rows that were written
  rows,
  effects,      \* calls that changed something
  mishaps       \* writes that failed; processes stopped

maVars == <<audit, platter, flock, mcp, made, rows, effects, mishaps>>

\* CATEGORIES, and that of a tool that the server does not have.
Categories == {"READ_ONLY", "MUTATING", "DESTRUCTIVE", "unknown"}
Idle == [pc |-> "idle", call |-> 0, category |-> "READ_ONLY", phase |-> "none"]

Fragment == [phase |-> "fragment", call |-> 0, hash |-> 0, prev |-> 0, seq |-> 0]
Whole(p) == p.row # Fragment /\ p.newline

MaTypeOK ==
  /\ \A i \in DOMAIN audit : audit[i].newline \in BOOLEAN /\ audit[i].row.call \in 0..MaxCalls
  /\ platter \in 0..Len(audit)
  /\ flock \in Servers \cup {"none"}
  /\ \A s \in Servers : mcp[s].category \in Categories
       /\ mcp[s].pc \in {"idle", "lock", "genesis", "write", "sync", "handler"}
  /\ made \in 0..MaxCalls /\ rows \in Nat /\ effects \subseteq 1..MaxCalls
  /\ mishaps.short \in 0..MaxShort /\ mishaps.stopped \in 0..MaxStopped

MaInit ==
  /\ audit = <<>> /\ platter = 0 /\ flock = "none"
  /\ mcp = [s \in Servers |-> Idle]
  /\ made = 0 /\ rows = 0 /\ effects = {}
  /\ mishaps = [short |-> 0, stopped |-> 0]

-----------------------------------------------------------------------------
(* The file.                                                               *)

\* A piece that begins a line, and a line that is one row.
BeginsLine(i) == i = 1 \/ audit[i - 1].newline
IsRecord(i) ==
  BeginsLine(i) /\ audit[i].row # Fragment /\ (audit[i].newline \/ i = Len(audit))

\* _tail_record: the last line, which is a record also without its newline.
LastRow == audit[Len(audit)].row
TailReadable == audit = <<>> \/ IsRecord(Len(audit))

\* _emit, of a row that follows the tail.
Row(s, phase) ==
  [phase |-> phase, call |-> IF phase = "genesis" THEN 0 ELSE mcp[s].call,
   hash |-> rows + 1,
   prev |-> IF audit = <<>> THEN 0 ELSE LastRow.hash,
   seq  |-> IF audit = <<>> THEN 1 ELSE LastRow.seq + 1]

\* Every row of a call that changes something, its denial too.
Durable(s) == mcp[s].category \notin {"READ_ONLY", "unknown"}

-----------------------------------------------------------------------------
(* Server.call.                                                            *)

\* The gate: a destructive tool needs the posture and an observed session.
Gate(s, category, observed) ==
  /\ category # "unknown"
  /\ category = "DESTRUCTIVE" => s \in Allows /\ observed

Call(s, category, observed) ==
  /\ mcp[s].pc = "idle" /\ made < MaxCalls
  /\ made' = made + 1
  /\ LET next(pc, phase) == [pc |-> pc, call |-> made', category |-> category, phase |-> phase]
     IN mcp' = [mcp EXCEPT ![s] =
          IF ~Gate(s, category, observed) THEN next("lock", "denied")
          ELSE IF category = "READ_ONLY" THEN next("handler", "none")
          ELSE next("lock", "requested")]
  /\ UNCHANGED <<audit, platter, flock, rows, effects, mishaps>>

\* What comes after a row, if it was written and if it was not: the handler
\* after a request, and nothing without one.
Continue(s, written) ==
  mcp' = [mcp EXCEPT ![s] =
    IF @.phase = "requested" /\ written THEN [@ EXCEPT !.pc = "handler", !.phase = "none"]
    ELSE Idle]

\* append: the lock, and the tail under it.  A tail that is not a record is
\* AuditUnavailable, for good.
LockLog(s) ==
  /\ mcp[s].pc = "lock" /\ flock = "none"
  /\ IF TailReadable
     THEN /\ flock' = s
          /\ mcp' = [mcp EXCEPT ![s].pc = IF audit = <<>> THEN "genesis" ELSE "write"]
     ELSE Continue(s, FALSE) /\ UNCHANGED flock
  /\ UNCHANGED <<audit, platter, made, rows, effects, mishaps>>

\* The chain's first row is synced before the second one is written.
Genesis(s) ==
  /\ mcp[s].pc = "genesis"
  /\ audit' = Append(audit, [row |-> Row(s, "genesis"), newline |-> TRUE])
  /\ platter' = Len(audit') /\ rows' = rows + 1
  /\ mcp' = [mcp EXCEPT ![s].pc = "write"]
  /\ UNCHANGED <<flock, made, effects, mishaps>>

WriteRow(s) ==
  /\ mcp[s].pc = "write"
  /\ audit' = Append(audit, [row |-> Row(s, mcp[s].phase), newline |-> TRUE])
  /\ rows' = rows + 1
  /\ IF Durable(s) THEN mcp' = [mcp EXCEPT ![s].pc = "sync"] /\ UNCHANGED flock
     ELSE Continue(s, TRUE) /\ flock' = "none"
  /\ UNCHANGED <<platter, made, effects, mishaps>>

\* variant: the request is flushed and not synced
SyncLater(s) ==
  /\ mcp[s].pc = "sync" /\ flock' = "none"
  /\ Continue(s, TRUE)
  /\ UNCHANGED <<audit, platter, made, rows, effects, mishaps>>

SyncRow(s) ==
  /\ mcp[s].pc = "sync"
  /\ platter' = Len(audit) /\ flock' = "none"
  /\ Continue(s, TRUE)
  /\ UNCHANGED <<audit, made, rows, effects, mishaps>>

\* The disk is full: nothing, a part, or, by the flush of close(), all of the
\* row is in the file, and the caller is told that it was not recorded.  A sync
\* may fail as well.
WriteFails(s) ==
  /\ mcp[s].pc \in {"genesis", "write", "sync"} /\ mishaps.short < MaxShort
  /\ mishaps' = [mishaps EXCEPT !.short = @ + 1]
  /\ rows' = rows + 1
  /\ LET phase == IF mcp[s].pc = "genesis" THEN "genesis" ELSE mcp[s].phase
         row == Row(s, phase) IN
     \/ UNCHANGED audit
     \/ /\ mcp[s].pc # "sync"
        /\ audit' \in {Append(audit, [row |-> Fragment, newline |-> FALSE]),
                      Append(audit, [row |-> row, newline |-> FALSE]),
                      Append(audit, [row |-> row, newline |-> TRUE])}
  /\ flock' = "none"
  /\ Continue(s, FALSE)
  /\ UNCHANGED <<platter, made, effects>>

\* The handler changes something or refuses; its outcome is a second row.
Handle(s) ==
  /\ mcp[s].pc = "handler"
  /\ effects' \in {effects, effects \cup {mcp[s].call}}
  /\ mcp[s].category = "READ_ONLY" => effects' = effects
  /\ mcp' = [mcp EXCEPT ![s].pc = "lock",
                        ![s].phase = IF mcp[s].call \in effects' THEN "completed" ELSE "failed"]
  /\ UNCHANGED <<audit, platter, flock, made, rows, mishaps>>

-----------------------------------------------------------------------------
\* A server is killed, and its lock with it.  Another one is started.
ServerKilled(s) ==
  /\ mcp[s].pc # "idle" /\ mishaps.stopped < MaxStopped
  /\ mishaps' = [mishaps EXCEPT !.stopped = @ + 1]
  /\ mcp' = [mcp EXCEPT ![s] = Idle]
  /\ flock' = IF flock = s THEN "none" ELSE flock
  /\ UNCHANGED <<audit, platter, made, rows, effects>>

\* What was not synced survives up to some byte: k pieces and, of the next one,
\* nothing, a part, or all but its newline.
PowerLost ==
  /\ mishaps.stopped < MaxStopped
  /\ mishaps' = [mishaps EXCEPT !.stopped = @ + 1]
  /\ \E k \in platter..Len(audit) :
       /\ audit' \in {SubSeq(audit, 1, k)} \cup
            IF k = Len(audit) THEN {}
            ELSE {Append(SubSeq(audit, 1, k), [row |-> r, newline |-> FALSE]) :
                    r \in {Fragment, audit[k + 1].row}}
       /\ platter' = Len(audit')
  /\ mcp' = [s \in Servers |-> Idle] /\ flock' = "none"
  /\ UNCHANGED <<made, rows, effects>>

MaNext ==
  \/ \E s \in Servers :
       \/ \E category \in Categories, observed \in BOOLEAN : Call(s, category, observed)
       \/ LockLog(s) \/ Genesis(s) \/ WriteRow(s) \/ SyncRow(s)
       \/ WriteFails(s) \/ Handle(s) \/ ServerKilled(s)
  \/ PowerLost

MaSpec == MaInit /\ [][MaNext]_maVars

-----------------------------------------------------------------------------
\* verify_audit: the pieces that are not a record, and the records that do not
\* follow the one before them.
Problems ==
  LET good == {i \in DOMAIN audit : IsRecord(i)}
      before(i) == {j \in good : j < i}
      follows(row, earlier) == row.prev = earlier.hash /\ row.seq = earlier.seq + 1
  IN (DOMAIN audit \ good)
       \cup {i \in good : IF before(i) = {} THEN audit[i].row.prev # 0
                         ELSE ~follows(audit[i].row, audit[Max(before(i))].row)}

\* "The intent is on the platter before the effect, or there is no effect"
\* (sf_mcp.py:741): whatever was killed or cut, the log that is left holds the
\* request of every call that changed something.  And what several servers wrote
\* into it verifies as one chain, unless a write or the power stopped inside a row.
LogKeepsUp ==
  /\ \A c \in effects : \E i \in 1..platter :
       audit[i].row.call = c /\ audit[i].row.phase = "requested"
  /\ (\A i \in DOMAIN audit : Whole(audit[i])) => Problems = {}
=============================================================================
