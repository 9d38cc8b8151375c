---------------------------- MODULE ProviderTurn ----------------------------
(***************************************************************************)
(* One turn of the local model provider: Executor.agent_turn runs the      *)
(* bridge under shadowfetch-firebreak, keeps what the two write on one     *)
(* pipe in a bounded log (run_process), and decides from the exit status   *)
(* and from the log (parse_stream, turn_succeeded) whether the turn is     *)
(* complete and what its answer is.                                        *)
(*                                                                         *)
(* A line is two pieces, the second of which ends it; a read, a kill or    *)
(* the bound of the log can fall between the two.  The tokens the service  *)
(* sends are numbered.                                                     *)
(***************************************************************************)
EXTENDS Naturals, Sequences

CONSTANTS
  MaxTokens,    \* how many tokens a generation has, a bound
  MaxOutput,    \* the bound of the log, in pieces
  MaxMessage,   \* MAX_MESSAGE_CHARS, in tokens: where an answer is cut
  TailSize,     \* how much of the end of the output is remembered besides
  Carry         \* what the redactor holds back until it is flushed

ASSUME TurnAssumption ==
  /\ MaxTokens \in Nat /\ {MaxOutput, MaxMessage, TailSize, Carry} \subseteq Nat \ {0}

VARIABLES
  stream,       \* all the pieces that were written to the pipe
  pos,          \* how many of them run_process has read
  kept,         \* how many of those it has written to the log
  bpc, bexit,   \* the bridge: where it is, its exit status
  sent,         \* the tokens it has passed on
  saved,        \* the session's history has this turn
  fpc, fexit,   \* Firebreak, around the bridge
  recs,         \* its audit records of this session
  signalled,    \* who has a SIGTERM to handle
  opc,          \* the executor
  verdict,      \* "none", "failed", "interrupted", "complete"
  answer,       \* the tokens of the answer
  readOnly      \* a report: it has no session, and must have an answer

bridge == <<bpc, bexit, sent, saved>>
firebreak == <<fpc, fexit, recs>>
executor == <<pos, kept, opc, verdict, answer>>
ptVars == <<stream, bridge, firebreak, executor, signalled, readOnly>>

ExitCodes == {"none", "ok", "error", "cancelled", "killed"}
PtTypeOK ==
  /\ pos \in 0..Len(stream) /\ kept \in 0..pos /\ kept <= MaxOutput
  /\ bpc \in {"none", "start", "ask", "read", "save", "finish", "return", "exited"}
  /\ {bexit, fexit} \subseteq ExitCodes /\ sent \in 0..MaxTokens
  /\ fpc \in {"start", "spawn", "wait", "end", "exited"}
  /\ recs \subseteq {"started", "ended"} /\ signalled \subseteq {"bridge", "firebreak"}
  /\ opc \in {"read", "term", "kill", "judge", "over"}
  /\ verdict \in {"none", "failed", "interrupted", "complete"}
  /\ answer \in Seq(1..MaxTokens) /\ {readOnly, saved} \subseteq BOOLEAN

PtInit ==
  /\ stream = <<>> /\ pos = 0 /\ kept = 0
  /\ bpc = "none" /\ bexit = "none" /\ sent = 0 /\ saved = FALSE
  /\ fpc = "start" /\ fexit = "none" /\ recs = {} /\ signalled = {}
  /\ opc = "read" /\ verdict = "none" /\ answer = <<>>
  /\ readOnly \in BOOLEAN

\* a piece: the event, the number of its token, which half of the line
Line(event, n) == <<<<event, n, 1>>, <<event, n, 2>>>>
EmitToken(n) == stream' = stream \o Line("token", n)
Emit(event) == stream' = stream \o Line(event, 0)
Exit(code) == bpc' = "exited" /\ bexit' = code

-----------------------------------------------------------------------------
(* local-model-bridge                                                      *)

\* The service has a model and answers, or there is an error to report.
ReachService ==
  /\ \/ bpc = "start" /\ Emit("started") /\ bpc' = "ask" /\ UNCHANGED bexit
     \/ bpc = "ask" /\ Emit("status") /\ bpc' = "read" /\ UNCHANGED bexit
     \/ bpc \in {"start", "ask"} /\ Emit("error") /\ Exit("error")
  /\ UNCHANGED <<sent, saved, firebreak, executor, signalled, readOnly>>

\* One line of the service: a token; what is not a token and not an end; the
\* last one, or the end of the stream without it; one that cannot be read, an
\* error, a silence, the deadline.
ServiceLine ==
  /\ bpc = "read"
  /\ \/ sent < MaxTokens /\ sent' = sent + 1 /\ EmitToken(sent + 1) /\ UNCHANGED <<bpc, bexit>>
     \/ bpc' = "save" /\ UNCHANGED <<stream, sent, bexit>>
     \/ Emit("error") /\ Exit("error") /\ UNCHANGED sent
  /\ UNCHANGED <<saved, firebreak, executor, signalled, readOnly>>

\* The history first, with this turn; then the event that ends the turn.
SaveSession ==
  /\ bpc = "save"
  /\ bpc' = "finish" /\ saved' = ~readOnly
  /\ IF readOnly THEN UNCHANGED stream ELSE Emit("ended")
  /\ UNCHANGED <<bexit, sent, firebreak, executor, signalled, readOnly>>

GenerationDone ==
  /\ \/ bpc = "finish" /\ Emit("done") /\ bpc' = "return" /\ UNCHANGED bexit
     \/ bpc = "return" /\ Exit("ok") /\ UNCHANGED stream
  /\ UNCHANGED <<sent, saved, firebreak, executor, signalled, readOnly>>

Alive == bpc \notin {"none", "exited"}

\* SIGTERM raises Cancelled wherever the bridge is, also after its last event.
Cancelled ==
  /\ Alive /\ "bridge" \in signalled
  /\ Emit("cancelled") /\ Exit("cancelled")
  /\ UNCHANGED <<sent, saved, firebreak, executor, signalled, readOnly>>

\* Memory, cpu time, SIGTERM before the handler: perhaps in the middle of a line.
Killed ==
  /\ Alive
  /\ \E cut \in {<<>>, <<<<"cut", 0, 1>>>>} : stream' = stream \o cut
  /\ Exit("killed")
  /\ UNCHANGED <<sent, saved, firebreak, executor, signalled, readOnly>>

-----------------------------------------------------------------------------
(* shadowfetch-firebreak                                                   *)

\* The started record is written before the sandbox is spawned, or there is no
\* sandbox.
Spawn ==
  /\ \/ fpc = "start" /\ recs' = {"started"} /\ fpc' = "spawn"
        /\ UNCHANGED <<stream, bpc, fexit>>
     \/ fpc = "start" /\ Emit("log") /\ fpc' = "exited" /\ fexit' = "error"
        /\ UNCHANGED <<bpc, recs>>
     \/ fpc = "spawn" /\ fpc' = "wait" /\ bpc' = "start"
        /\ UNCHANGED <<stream, fexit, recs>>
  /\ UNCHANGED <<bexit, sent, saved, executor, signalled, readOnly>>

\* SIGTERM becomes KeyboardInterrupt, and the sandbox is terminated too; before
\* the handler is there it ends Firebreak.
Interrupt ==
  /\ "firebreak" \in signalled /\ fpc \in {"start", "spawn", "wait"}
  /\ IF fpc = "wait" THEN fpc' = "end" ELSE fpc' = "exited"
  /\ fexit' = "cancelled"
  /\ signalled' = (signalled \ {"firebreak"}) \cup {"bridge"}
  /\ UNCHANGED <<stream, bridge, recs, executor, readOnly>>

BridgeEnded ==
  /\ fpc = "wait" /\ ~Alive
  /\ fpc' = "end" /\ fexit' = bexit
  /\ UNCHANGED <<stream, bridge, recs, executor, signalled, readOnly>>

\* The ended record, the trailer on the shared pipe, the bridge's exit status.
End ==
  /\ fpc = "end" /\ ~Alive
  /\ fpc' = "exited" /\ recs' = recs \cup {"ended"} /\ Emit("log")
  /\ UNCHANGED <<bridge, fexit, executor, signalled, readOnly>>

-----------------------------------------------------------------------------
(* Executor.run_process                                                    *)

AtMost(n, bound) == IF n < bound THEN n ELSE bound

\* A block is read; what the redactor lets go of is written while there is room.
ReadBlock(n) ==
  /\ opc = "read" /\ pos < n
  /\ pos' = n
  /\ kept' = IF n > kept + Carry THEN AtMost(n - Carry, MaxOutput) ELSE kept
  /\ UNCHANGED <<stream, bridge, firebreak, signalled, opc, verdict, answer, readOnly>>

\* Whichever way the loop ends, what the redactor held is written.
Flushed == AtMost(pos, MaxOutput)

\* Nothing is left to read and nobody can write any more.
EndOfStream ==
  /\ opc = "read" /\ pos = Len(stream) /\ fpc = "exited" /\ ~Alive
  /\ kept' = Flushed /\ opc' = "judge"
  /\ UNCHANGED <<stream, bridge, firebreak, signalled, pos, verdict, answer, readOnly>>

\* check() finds the mission cancelled or out of time, and raises.
CheckRaises ==
  /\ opc = "read"
  /\ kept' = Flushed /\ opc' = "term" /\ verdict' = "interrupted"
  /\ UNCHANGED <<stream, bridge, firebreak, signalled, pos, answer, readOnly>>

\* kill_tree: SIGTERM to the process group; SIGKILL if it is there 3 s later.
KillTree ==
  /\ \/ /\ opc = "term" /\ fpc = "exited"
        /\ opc' = "over" /\ UNCHANGED <<signalled, bpc, bexit, fpc, fexit>>
     \/ /\ opc = "term" /\ fpc # "exited"
        /\ opc' = "kill" /\ signalled' = {"bridge", "firebreak"}
        /\ UNCHANGED <<bpc, bexit, fpc, fexit>>
     \/ /\ opc = "kill" /\ opc' = "over" /\ UNCHANGED signalled
        /\ IF fpc = "exited" THEN UNCHANGED <<bpc, bexit, fpc, fexit>>
           ELSE /\ fpc' = "exited" /\ fexit' = "killed"
                /\ IF Alive THEN Exit("killed") ELSE UNCHANGED <<bpc, bexit>>
  /\ UNCHANGED <<stream, sent, saved, recs, pos, kept, verdict, answer, readOnly>>

-----------------------------------------------------------------------------
(* What is in the log, and what agent_turn makes of it.                    *)

Note == <<"note", 0, 0>>

\* The end of the output, from its first record boundary on.
RetainedTail(s) ==
  LET last == SubSeq(s, Len(s) - AtMost(Len(s), TailSize) + 1, Len(s))
      ends == {i \in DOMAIN last : last[i][3] = 2}
  IN IF ends = {} THEN last
     ELSE SubSeq(last, (CHOOSE i \in ends : \A j \in ends : i <= j) + 1, Len(last))

\* A log that is full has a note and the end of the output after it.
Log ==
  LET read == SubSeq(stream, 1, pos) IN
  IF kept < MaxOutput THEN SubSeq(read, 1, kept)
  ELSE SubSeq(read, 1, kept) \o <<Note>> \o RetainedTail(read)

\* The tokens become a message, which is cut when it is too long; nothing in the
\* turn says that it was.
Flush(a) ==
  IF a.tokens = <<>> THEN a
  ELSE [tokens |-> <<>>, message |-> SubSeq(a.tokens, 1, AtMost(Len(a.tokens), MaxMessage)),
        complete |-> a.complete, error |-> a.error]

Handle(a, r) ==
  CASE r[1] = "token" -> [a EXCEPT !.tokens = Append(@, r[2])]
    [] r[1] = "done" -> [Flush(a) EXCEPT !.complete = TRUE]
    [] r[1] \in {"error", "cancelled"} -> [Flush(a) EXCEPT !.error = TRUE]
    [] OTHER -> a

Unread == [tokens |-> <<>>, message |-> <<>>, complete |-> FALSE, error |-> FALSE]

\* A piece that ends a whole line; any other line is carried as a log event.
Whole(pieces, i) ==
  i > 1 /\ pieces[i][3] = 2 /\ pieces[i - 1] = [pieces[i] EXCEPT ![3] = 1]

\* The events up to each piece of a log, reduced to what turn_succeeded and
\* final_message ask of them.
Reading(pieces) ==
  LET upTo[i \in 0..Len(pieces)] ==
        IF i = 0 THEN Unread
        ELSE IF Whole(pieces, i) THEN Handle(upTo[i - 1], pieces[i]) ELSE upTo[i - 1]
  IN upTo

\* What is made of a stream that ends before, or after, its terminal event.
Ending(a, truncated) ==
  IF a.complete /\ a.tokens = <<>> THEN a
  ELSE IF truncated /\ ~a.complete THEN [Flush(a) EXCEPT !.error = TRUE]
  ELSE IF a.tokens # <<>> THEN [Flush(a) EXCEPT !.complete = TRUE]
  ELSE [a EXCEPT !.error = TRUE]

\* parse_stream: all the lines, and how they end.
ParseStream(pieces) ==
  Ending(Reading(pieces)[Len(pieces)], pieces # <<>> /\ pieces[Len(pieces)][3] = 1)

\* variant: the exit status is left to the events
AcceptedByEvents(turn) == turn.complete /\ ~turn.error

\* The bridge's exit status first, then turn_succeeded.
Accepted(turn) == fexit = "ok" /\ turn.complete /\ ~turn.error

Judge ==
  /\ opc = "judge" /\ opc' = "over"
  /\ LET turn == ParseStream(Log) IN
     IF Accepted(turn) /\ (readOnly => turn.message # <<>>)
     THEN verdict' = "complete" /\ answer' = turn.message
     ELSE verdict' = "failed" /\ UNCHANGED answer
  /\ UNCHANGED <<stream, bridge, firebreak, signalled, pos, kept, readOnly>>

PtNext ==
  \/ ReachService \/ ServiceLine \/ SaveSession \/ GenerationDone \/ Cancelled \/ Killed
  \/ Spawn \/ Interrupt \/ BridgeEnded \/ End
  \/ \E n \in DOMAIN stream : ReadBlock(n)
  \/ EndOfStream \/ CheckRaises \/ KillTree \/ Judge

PtSpec == PtInit /\ [][PtNext]_ptVars

-----------------------------------------------------------------------------
\* As long as the log is not full, it is all of what was read, however the turn
\* ended; a turn counts as complete exactly when the bridge ended it, whatever
\* killed or cut off what; and its answer is every token, in order, up to the one
\* at which any answer is cut
\* (sf_missions.py:3577-3583, sf_provider_localmodel.py:507-519 and 535).
TurnIsReadWhole ==
  opc = "over" /\ kept < MaxOutput =>
    /\ kept = pos
    /\ verdict = "complete" =>
         bexit = "ok" /\ answer = [i \in 1..AtMost(sent, MaxMessage) |-> i]
    /\ verdict = "failed" => bexit # "ok" \/ (readOnly /\ sent = 0)
=============================================================================
