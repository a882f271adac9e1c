---------------------------- MODULE CodexSource ----------------------------
(***************************************************************************)
(* The parity checker's own reading of a codex rollout: a second           *)
(* interpreter of the same records, written independently of the adapter,  *)
(* that yields the artifacts the canonical database must show.             *)
(*                                                                         *)
(* Ids, pointers and identities are those of CanonicalManifest; "out" is   *)
(* the manifest written so far.                                            *)
(***************************************************************************)
EXTENDS CanonicalManifest, FiniteSetsExt, TLC

\* codexSourceTurn; seq 0 stands for no active turn.
SourceTurn(seq, ts) ==
    [seq |-> seq, id |-> <<>>, start |-> ts, fin |-> FALSE, task |-> FALSE, ops |-> 0, ui |-> 0]

\* newCodexSourceState.
NewSource ==
    [out |-> <<>>, line |-> 0, ts |-> 0, content |-> 0, turn |-> SourceTurn(0, 0), n |-> 0,
     subs |-> 0, open |-> <<>>, web |-> <<>>, compacted |-> <<0, 0>>,
     ses |-> [kind |-> "root", parent |-> <<>>, root |-> <<>>, st |-> "running",
              start |-> 0, end |-> NoTime, meta |-> <<>>]]

Emit(s, artifacts) == [s EXCEPT !.out = @ \o artifacts]

-----------------------------------------------------------------------------
(* The session header.                                                     *)

\* codexSourceSessionKindAndParent.
SourceKindAndParent(h) ==
    CASE h.src = "subagent" -> <<"sub_agent", IF h.inner # <<>> THEN h.inner ELSE h.outer>>
      [] h.src # "subagent" /\ h.fork # <<>> -> <<"fork", h.fork>>
      [] OTHER ->
            IF h.src = "internal" THEN <<"tool_internal", <<>>>>
            ELSE IF h.thread = "subagent" THEN <<"sub_agent", h.outer>>
            ELSE IF h.thread = "memory_consolidation" THEN <<"tool_internal", <<>>>>
            ELSE <<"root", <<>>>>

\* codexSessionMetadataIdentityFromSource, hasDescriptiveCodexMetadata.
SourceMetadata(h) ==
    LET relationship == CASE SourceKindAndParent(h)[1] = "root" -> ""
                          [] OTHER -> SourceKindAndParent(h)[1]
    IN  IF h.agent = "" /\ relationship = "" THEN <<>> ELSE <<h.agent, relationship>>

\* rootFor with no other file that names the parent: the parent is the root.
RootFor(parent) == parent

\* updateCodexSourceSession, sessionBoundary.
SourceSession(s, h) ==
    [s EXCEPT !.ses = [@ EXCEPT !.kind = SourceKindAndParent(h)[1],
                                !.parent = SourceKindAndParent(h)[2],
                                !.root = RootFor(SourceKindAndParent(h)[2]),
                                !.start = s.ts, !.meta = SourceMetadata(h)]]

\* noteContentTimestamp.
SourceRecord(s, ts) == [s EXCEPT !.line = @ + 1, !.ts = ts, !.content = ts]

-----------------------------------------------------------------------------
(* Turns and operations.                                                   *)

\* ensureTurn: a finalized turn is never reused.
SourceEnsure(s) ==
    IF s.turn.seq # 0 /\ ~s.turn.fin THEN s
    ELSE [s EXCEPT !.n = @ + 1, !.turn = SourceTurn(s.n + 1, s.ts)]

TurnOut(turn, st, end) == TurnBoundary(turn.seq, [st |-> st, start |-> turn.start, end |-> end])

\* finalizeActiveTurn.
SourceFinalizeTurn(s, st, end) ==
    LET e == IF end < s.turn.start THEN s.turn.start ELSE end
    IN  Emit([s EXCEPT !.turn.fin = TRUE], <<TurnOut(s.turn, st, e)>>)

\* opBoundary, opBoundaryWithNamespace.
OpOut(t, n, kind, name, ns, st, start, end) ==
    OpBoundary(t, n, [kind |-> kind, name |-> name, ns |-> ns, st |-> st,
                      start |-> start, end |-> end])

\* toolError.
ErrorOut(t, n, err) ==
    IF err = "" THEN <<>>
    ELSE <<Identity("tool_error", <<"op", t, n, "error">>, <<"tool", err>>)>>

\* The boundary of an op that was open, with the error its end named.
ToolOut(o, st, err, end) ==
    <<OpOut(o.turn, o.op, "tool", o.name, o.ns, st, o.start, end)>> \o ErrorOut(o.turn, o.op, err)

CloseTool(s, call, st, err) ==
    Emit([s EXCEPT !.open = [c \in DOMAIN s.open \ {call} |-> s.open[c]]],
         ToolOut(s.open[call], st, err, s.ts))

\* finalizeOpenToolsForTurn; seq 0 closes the tools of every turn.
ToolsOf(s, seq) == {c \in DOMAIN s.open : seq = 0 \/ s.open[c].turn = seq}

SourceFinalizeTools(s, seq, st, end) ==
    LET close(c) == LET o == s.open[c]
                    IN  IF o.enrich = <<>> THEN ToolOut(o, st, "", end)
                        ELSE ToolOut(o, o.enrich[1], o.enrich[2], end)
    IN  [s EXCEPT !.out = FoldSet(LAMBDA c, acc : acc \o close(c), @, ToolsOf(s, seq)),
                  !.open = [c \in DOMAIN s.open \ ToolsOf(s, seq) |-> s.open[c]]]

SourceClose(s, turnStatus, toolStatus, end) ==
    SourceFinalizeTurn(SourceFinalizeTools(s, s.turn.seq, toolStatus, end), turnStatus, end)

SourceOpen(s) == s.turn.seq # 0 /\ ~s.turn.fin

\* activateTurn.
ActivateTurn(s, id) ==
    LET closed == IF SourceOpen(s) /\ id # <<>> /\ id # s.turn.id
                  THEN IF s.turn.task THEN SourceClose(s, "failed", "cancelled", s.ts)
                       ELSE SourceClose(s, "completed", "completed", s.ts)
                  ELSE s
        e == SourceEnsure(closed)
    IN  IF e.turn.id = <<>> THEN [e EXCEPT !.turn.id = id] ELSE e

\* recordTaskStarted.
SourceTaskStarted(s, id) == [ActivateTurn(s, id) EXCEPT !.turn.task = TRUE]

\* recordTaskComplete, recordTurnAborted: the id in the record is not read.
SourceTaskComplete(s) ==
    IF SourceOpen(s) THEN SourceClose(s, "completed", "completed", s.ts) ELSE s
SourceTurnAborted(s) ==
    IF SourceOpen(s) THEN SourceClose(s, "failed", "cancelled", s.ts) ELSE s

NextSourceOp(s) == [SourceEnsure(s) EXCEPT !.turn.ops = @ + 1]

\* recordCompletedOp.
SourceCompletedOp(s, kind, name, st) ==
    LET e == NextSourceOp(s)
    IN  Emit(e, <<OpOut(e.turn.seq, e.turn.ops, kind, name, "", st, s.ts, s.ts)>>)

\* recordUserInput, splitTurnForUserInput: any open tool of the turn holds the
\* split back.
SourceSplits(s) == SourceOpen(s) /\ s.turn.ui > 0 /\ ToolsOf(s, s.turn.seq) = {}

SourceUserInput(s) ==
    LET split == IF SourceSplits(s)
                 THEN [SourceEnsure(SourceFinalizeTurn(s, "completed", s.ts))
                         EXCEPT !.subs = @ + 1, !.turn.id = <<"sub", s.subs + 1>>]
                 ELSE s
    IN  [SourceCompletedOp(split, "internal", "user_input", "completed") EXCEPT !.turn.ui = @ + 1]

\* codexPointerArtifactsFromDocument: one artifact per pointer.
Pointers(s, cls, ptrs) ==
    Emit(s, [i \in DOMAIN ptrs |->
                Artifact(cls, LineId(s.line, ptrs[i]),
                         IF ImagePointer(ptrs[i]) THEN "json" ELSE "text", At(s.line, ptrs[i]))])

\* A user message: its texts are prompts, its image blocks images.
UserPointers(s, ptrs) ==
    Pointers(Pointers(s, "user_prompt", SelectSeq(ptrs, LAMBDA p : ~ImagePointer(p))),
             "user_image", SelectSeq(ptrs, LAMBDA p : ImagePointer(p)))

\* codexRawLineArtifact, codexSemanticLineArtifact.
RawLine(s, cls, dom) == Emit(s, <<Artifact(cls, LineId(s.line, ""), dom, At(s.line, ""))>>)

\* recordToolStart; recordWebSearchStart adds the synthetic id to its queue.
SourceToolStart(s, call, name, ns) ==
    LET e == NextSourceOp(s)
    IN  IF call = <<>> THEN e
        ELSE [e EXCEPT !.open = (call :> [turn |-> e.turn.seq, op |-> e.turn.ops, name |-> name,
                                          ns |-> ns, start |-> s.ts, enrich |-> <<>>]) @@ s.open]

SourceWebSearchStart(s) ==
    LET e    == SourceEnsure(s)
        call == <<"ws", e.turn.seq, e.turn.ops + 1>>
    IN  RawLine([SourceToolStart(e, call, "web_search", "web") EXCEPT !.web = Append(@, call)],
                "tool_request", "raw")

\* recordToolOutput: closes an open call; the output is an artifact either way.
SourceToolOutput(s, call) ==
    LET o == s.open[call]
        closed == IF call \notin DOMAIN s.open THEN s
                  ELSE IF o.enrich = <<>> THEN CloseTool(s, call, "completed", "")
                  ELSE CloseTool(s, call, o.enrich[1], o.enrich[2])
    IN  Pointers(closed, "tool_response", <<"output">>)

\* recordExecCommandEnd, recordPatchApplyEnd, recordMcpToolCallEnd,
\* recordImageGenerationEnd: only an open call hears its end.
SourceExecEnd(s, call, st, err) ==
    IF call \in DOMAIN s.open THEN [s EXCEPT !.open[call].enrich = <<st, err>>] ELSE s
SourceToolEnd(s, call, st, err) ==
    IF call \in DOMAIN s.open THEN CloseTool(s, call, st, err) ELSE s
SourceMcpEnd(s, call, st, err) ==
    IF call \in DOMAIN s.open
    THEN CloseTool([s EXCEPT !.open[call].name = "mcp_tool", !.open[call].ns = "mcp"], call, st, err)
    ELSE s

\* recordWebSearchEnd.
SourceWebSearchEnd(s) ==
    LET first == SelectInSeq(s.web, LAMBDA c : c \in DOMAIN s.open)
    IN  IF first = 0 THEN [s EXCEPT !.web = <<>>]
        ELSE CloseTool([s EXCEPT !.web = SubSeq(@, first + 1, Len(@))], s.web[first],
                       "completed", "")

\* recordCollabSpawn.
SourceCollabSpawn(s, child, st) ==
    LET e == SourceCompletedOp(s, "session", "spawn", st)
    IN  IF child = <<>> THEN s
        ELSE Emit(e, <<Identity("subagent_link", <<"op", e.turn.seq, e.turn.ops, "child">>, child)>>)

\* recordCompaction.
SourceCompaction(s, extra) ==
    LET e == SourceCompletedOp(s, "compaction", "compaction", "completed")
    IN  Emit(e, <<Identity("compaction_event",
                           <<"op", e.turn.seq, e.turn.ops, "compaction">>, <<extra, s.ts, s.ts>>)>>)

\* recordCompacted, recordContextCompacted: the companion event is recognised
\* by its line and by its timestamp.
SourceCompacted(s) ==
    RawLine([SourceCompaction(s, <<"auto", "history">>) EXCEPT !.compacted = <<s.line, s.ts>>],
            "log_entry", "text")
SourceContextCompacted(s) ==
    IF s.compacted = <<s.line - 1, s.ts>> THEN s
    ELSE RawLine(SourceCompaction(s, <<"auto">>), "log_entry", "text")

\* genericLogEntry, genericLogEntryWithSystemOp.
SourceLog(s, sev, msg) ==
    Emit(s, <<Artifact("log_entry", LogId(s.turn.seq, 0, s.ts, sev, msg), "text", <<"message", msg>>)>>)
SourceSystemLog(s, sev, msg) ==
    Emit(SourceLog(s, sev, msg),
         <<Identity("system_op", LogId(s.turn.seq, 0, s.ts, sev, msg),
                    <<s.turn.seq, msg, sev, s.ts>>)>>)

\* extractCodexMessageEventLog.
SourceMessageEvent(s, sev, msg, hasMessage) ==
    IF hasMessage THEN Pointers(s, "log_entry", <<"message">>) ELSE SourceLog(s, sev, msg)

-----------------------------------------------------------------------------
(* End of file.                                                            *)

\* finalizeSessionBoundary, sessionMetadataArtifact.
SessionOut(s) ==
    Emit(s, <<Identity("session_boundary", <<"session">>,
                       <<IF s.ses.kind = "root" THEN <<<<>>, <<>>>>
                         ELSE <<s.ses.parent, s.ses.root>>,
                         s.ses.kind, s.ses.st, s.ses.start, s.ses.end>>)>>
            \o (IF s.ses.meta = <<>> THEN <<>>
                ELSE <<Identity("session_metadata", <<"session", "metadata">>, s.ses.meta)>>))

\* finalizeAtEOF, normalizeActiveTurnEndUs.
SourceAtEOF(s, stale, mtime) ==
    LET end == IF mtime < s.turn.start THEN s.turn.start ELSE mtime
    IN  SessionOut(
          CASE ~SourceOpen(s) -> SourceFinalizeTools(s, 0, "completed", s.content)
            [] SourceOpen(s) /\ s.turn.task /\ stale ->
                 [SourceClose(s, "failed", "cancelled", end)
                    EXCEPT !.ses.st = "failed", !.ses.end = end]
            [] SourceOpen(s) /\ s.turn.task /\ ~stale ->
                 Emit(s, <<TurnOut(s.turn, "running", NoTime)>>)
            [] OTHER -> SourceClose(s, "completed", "completed", s.content))

=============================================================================
