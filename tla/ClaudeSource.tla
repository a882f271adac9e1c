---------------------------- MODULE ClaudeSource ----------------------------
(***************************************************************************)
(* The parity checker's own reading of a claude-code transcript, written   *)
(* independently of the adapter: the artifacts each record must leave in   *)
(* the canonical database.  A value "s" is claudeCodeSourceState with the  *)
(* artifacts written so far in "out".                                      *)
(***************************************************************************)
EXTENDS CanonicalManifest

\* newClaudeCodeSourceState.
NewClaudeSource(file) ==
    [file |-> file, line |-> 0, ts |-> 0, out |-> <<>>, started |-> FALSE, startedAt |-> NoTime,
     open |-> FALSE, turn |-> 0, turnAt |-> NoTime, fin |-> FALSE, op |-> 0, tools |-> <<>>,
     meta |-> <<>>, prs |-> <<>>]

\* claudeCodeBoundaryCoalescer: the last boundary under a key replaces the
\* earlier ones; other artifacts pass through.
CoalescedClasses == {"session_boundary", "turn_boundary", "op_boundary"}
Write(s, a) ==
    [s EXCEPT !.out = Append(IF a.cls \in CoalescedClasses
                             THEN SelectSeq(@, LAMBDA b : Key(b) # Key(a)) ELSE @, a)]

\* observeSessionStart, for a record that has a timestamp.
SourceTimestamped(s) ==
    LET next == [s EXCEPT !.line = @ + 1, !.ts = @ + 1]
    IN  IF s.started THEN next
        ELSE [next EXCEPT !.started = TRUE, !.startedAt = next.ts]

\* recordClaudeCodeSessionMetadata.
SourceSnapshot(s, patch) == [s EXCEPT !.line = @ + 1, !.meta = patch @@ @]

-----------------------------------------------------------------------------
(* The artifacts.                                                          *)

\* sessionBoundary: a transcript never says that its session ended.
SourceSessionBoundary(s) ==
    LET lineage == IF s.file.kind = "root" THEN <<<<>>, <<>>>> ELSE <<s.file.parent, s.file.root>>
    IN  Identity("session_boundary", <<"session">>,
                 <<lineage, s.file.kind, "running", s.startedAt, NoTime>>)

\* turnBoundary.
SourceTurnBoundary(s, st, end) ==
    Write(s, Identity("turn_boundary", <<"turn", s.turn>>, <<st, s.turnAt, end>>))

\* opBoundaryAtTurn.
OpAt(s, turn, op, kind, name, ns, st, start, end) ==
    Write(s, Identity("op_boundary", <<"op", turn, op>>, <<kind, name, ns, st, start, end>>))

\* opErrorAtTurn.
ErrorAt(s, turn, op, kind, err) ==
    Write(s, Identity(IF kind = "llm" THEN "llm_error" ELSE "tool_error",
                      <<"op", turn, op, "error">>, <<kind, err>>))

\* inlineArtifact, inlineArtifactAtTurn: the value at a pointer of the line.
Inline(s, cls, ptr) ==
    Write(s, Artifact(cls, LineId(s.line, ptr), IF ptr \in JsonPointers THEN "json" ELSE "text",
                      At(s.line, ptr)))

\* logEntry.
SourceLog(s, msg) ==
    Write(s, Artifact("log_entry", <<"line", s.line, "/log">>, "text", <<"message", msg>>))

\* systemOp.
SourceSystemOp(s, sev, msg) ==
    Write(s, Identity("system_op", <<"line", s.line, "/system">>, <<s.turn, msg, sev, s.ts>>))

\* attachmentMetadata.
SourceAttachment(s) ==
    Write(s, Identity("attachment_metadata", <<"line", s.line, "/attachment">>, <<"turn", s.turn>>))

\* A completed op at the record: s.opSeq++ and opBoundary.
SourceOp(s, kind, name) ==
    LET next == [s EXCEPT !.op = @ + 1]
    IN  OpAt(next, s.turn, next.op, kind, name, "", "completed", s.ts, s.ts)

-----------------------------------------------------------------------------
(* user records.                                                           *)

\* ensureClaudeCodeTurn.
EnsureTurn(s) ==
    IF s.open THEN s
    ELSE [s EXCEPT !.turn = 1, !.open = TRUE, !.fin = FALSE, !.turnAt = s.ts, !.op = 0]

\* startClaudeCodeUserTurn.
SourceStartTurn(s) ==
    LET turn == [s EXCEPT !.turn = @ + 1, !.open = TRUE, !.fin = FALSE, !.turnAt = s.ts, !.op = 0]
    IN  Inline(SourceOp(turn, "internal", "user_input"), "user_prompt", "content")

\* recordClaudeCodeUserPrompt.
SourceUserPrompt(s) ==
    SourceStartTurn(IF s.open /\ ~s.fin THEN SourceTurnBoundary(s, "completed", s.ts) ELSE s)

\* recordClaudeCodeUserTextBlock, recordClaudeCodeUserImageBlock.
SourceUserBlock(s, ptr) ==
    Inline(SourceOp(EnsureTurn(s), "internal", "user_input"),
           IF ptr = "image" THEN "user_image" ELSE "user_prompt", ptr)

\* recordClaudeCodeToolResults.
SourceToolResult(s, id, ptr, bad, echo) ==
    IF id \notin DOMAIN s.tools THEN s
    ELSE LET tool == s.tools[id]
             response == Inline(s, "tool_response", ptr)
             full == IF echo THEN Inline(response, "tool_response", "toolUseResult") ELSE response
             ended == OpAt(full, tool.turn, tool.op, tool.kind, tool.name, "builtin",
                           IF bad THEN "failed" ELSE "completed", tool.at, s.ts)
             wrong == IF bad THEN ErrorAt(ended, tool.turn, tool.op, tool.kind, "tool_error")
                      ELSE ended
         IN  [wrong EXCEPT !.tools = [t \in DOMAIN @ \ {id} |-> @[t]]]

SourceUserArray(s, blocks, has) ==
    FoldLeftDomain(LAMBDA acc, i :
        LET open == DOMAIN s.tools
            first == \A j \in 1..i-1 : ~(blocks[j].b = "result" /\ blocks[j].id \in open)
        IN  IF blocks[i].b = "result"
            THEN SourceToolResult(acc, blocks[i].id, <<"result 1", "result 2">>[i],
                                  blocks[i].bad, has /\ first)
            ELSE SourceUserBlock(acc, blocks[i].b), s, blocks)

\* recordClaudeCodeUser, isCompactSummary.
SourceCompactSummary(s) == Inline(SourceLog(s, "compaction-summary"), "log_entry", "content")

-----------------------------------------------------------------------------
(* assistant, system and pr-link records.                                  *)

\* recordClaudeCodeToolUse, recordClaudeCodeAgentToolUse: the op's own boundary
\* waits for the result or for the end of the file.
SourceToolUse(s, use, ptr) ==
    LET next == [s EXCEPT !.op = @ + 1]
        child == IF use.agent /\ use.id \in s.file.linked THEN <<"child", use.id>> ELSE <<>>
        tool == [turn |-> s.turn, op |-> next.op, at |-> s.ts, child |-> child,
                 kind |-> IF use.agent THEN "session" ELSE "tool",
                 name |-> IF use.agent THEN "task" ELSE "Bash"]
        asked == Inline([next EXCEPT !.tools = (use.id :> tool) @@ @], "tool_request", ptr)
    IN  IF child = <<>> THEN asked
        ELSE Write(asked, Identity("subagent_link", <<"op", s.turn, next.op, "child">>, child))

\* recordClaudeCodeAssistant.
SourceAssistant(s, text, thinking, uses) ==
    LET llm == SourceOp(EnsureTurn(s), "llm", "model")
        said == IF text THEN Inline(llm, "assistant_message", "text") ELSE llm
        thought == IF thinking
                   THEN Inline(SourceOp(said, "reasoning", ""), "reasoning_text", "thinking")
                   ELSE said
    IN  FoldLeftDomain(LAMBDA acc, i : SourceToolUse(acc, uses[i], <<"input 1", "input 2">>[i]),
                       thought, uses)

\* recordClaudeCodeSystem, compact_boundary; compactionEvent.
SourceCompactBoundary(s, duration) ==
    LET turn == EnsureTurn(s)
        next == [turn EXCEPT !.op = @ + 1]
        op == OpAt(next, next.turn, next.op, "compaction", "compaction", "", "completed",
                   s.ts, s.ts + duration)
        event == Identity("compaction_event", <<"op", next.turn, next.op, "compaction">>,
                          <<<<"manual", duration>>, s.ts, s.ts + duration>>)
    IN  SourceLog(Write(op, event), "compact_boundary")

\* recordClaudeCodeSystem, turn_duration.
SourceTurnDuration(s) ==
    IF s.open THEN [SourceTurnBoundary(s, "completed", s.ts) EXCEPT !.fin = TRUE] ELSE s

\* recordClaudeCodeAPIError.
SourceAPIError(s) ==
    LET turn == EnsureTurn(s)
        next == [turn EXCEPT !.op = @ + 1]
        op == OpAt(next, next.turn, next.op, "llm", "api_error", "", "failed", s.ts, s.ts)
    IN  SourceLog(ErrorAt(op, next.turn, next.op, "llm", "api_error"), "api_error")

SourcePRLink(s, link) ==
    LET links == Append(s.prs, link)
    IN  SourceLog([s EXCEPT !.prs = links, !.meta = ("prLinks" :> links) @@ @], "pr-link")

-----------------------------------------------------------------------------
(* The end of the file.                                                    *)

\* finalizeClaudeCodeOpenToolsAtEOF: running, unless a completed child says
\* when it ended (inspectClaudeCodeChildCompletion).
SourceOpenTools(s, completed, end) ==
    FoldSet(LAMBDA id, acc :
              LET tool == s.tools[id]
                  ended == tool.child # <<>> /\ tool.child \in completed
              IN  OpAt(acc, tool.turn, tool.op, tool.kind, tool.name, "builtin",
                       IF ended THEN "completed" ELSE "running", tool.at,
                       IF ended THEN end ELSE NoTime),
            s, DOMAIN s.tools)

\* sessionMetadataArtifact: when any was seen, session or not.
SourceSessionMetadata(s) ==
    IF s.meta = <<>> THEN s
    ELSE Write(s, Identity("session_metadata", <<"session", "metadata">>, s.meta))

\* finalizeClaudeCodeAtEOF.
SourceFinalize(s, completed, end) ==
    LET tools == Write(SourceOpenTools(s, completed, end), SourceSessionBoundary(s))
        turn == IF s.open /\ ~s.fin THEN SourceTurnBoundary(tools, "running", NoTime) ELSE tools
    IN  SourceSessionMetadata(IF s.started THEN turn ELSE s)

=============================================================================
