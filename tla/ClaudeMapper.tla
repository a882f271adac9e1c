----------------------------- MODULE ClaudeMapper -----------------------------
(***************************************************************************)
(* The claude-code adapter's mapper: how the records of one transcript     *)
(* become sessions, turns, operations, payload references and log entries. *)
(* A mapper value "c" holds the inference state of fileMapper and, in db,  *)
(* the canonical rows its events have produced.                            *)
(*                                                                         *)
(* Records carry a timestamp except the metadata snapshots.  A session     *)
(* starts at the first timestamp: what precedes it is held back in "pend". *)
(***************************************************************************)
EXTENDS CanonicalRows

NoOwner == <<0, 0>>

\* newFileMapper for a transcript "file" ([kind, parent, root, linked]);
\* "linked" are the tool uses whose child transcript has a sidecar.
NewClaude(file) ==
    [file |-> file, line |-> 0, ts |-> 0, db |-> EmptyDb, started |-> FALSE, pend |-> <<>>,
     turn |-> 0, fin |-> FALSE, op |-> 0, tools |-> <<>>, agents |-> <<>>, resolved |-> {},
     compaction |-> NoOwner, prs |-> <<>>]

\* sessionStarted0, then the events held back.
StartSession(c, ts) ==
    [c EXCEPT !.db = FoldLeft(LAMBDA db, patch : PatchSessionMeta(db, patch, NoTime),
                              PutSession(@, c.file.kind, c.file.parent, c.file.root, ts),
                              c.pend)]

\* mapRecord for a record with a timestamp: the session starts before the
\* record's own events.
Timestamped(c) ==
    LET next == [c EXCEPT !.line = @ + 1, !.ts = @ + 1]
    IN  IF c.started THEN next
        ELSE [StartSession(next, next.ts) EXCEPT !.started = TRUE, !.pend = <<>>]

\* A slip: the snapshot's update is emitted at once.
MapSnapshotAtOnce(c, patch) ==
    [c EXCEPT !.line = @ + 1, !.db = PatchSessionMeta(@, patch, NoTime)]

\* mapRecord for a snapshot: before the session starts its update is held back.
MapSnapshot(c, patch) ==
    LET next == [c EXCEPT !.line = @ + 1]
    IN  IF c.started THEN [next EXCEPT !.db = PatchSessionMeta(@, patch, NoTime)]
        ELSE [next EXCEPT !.pend = Append(@, patch)]

\* finalizeSessionStart, which every read of the file reaches at its end.  The
\* next read begins with a new mapper that replays the file, so the mapper's
\* own state does not change.
ReadToEnd(c) == IF c.started THEN c ELSE StartSession(c, NoTime)

-----------------------------------------------------------------------------
(* Operations, references and logs at the current record.                  *)

StartOp(c, kind, name, ns, child, extra) ==
    [c EXCEPT !.op = @ + 1,
              !.db = PutOp(@, c.turn, c.op + 1, kind, name, ns, child, extra, c.ts)]

FinishOp(c, st, err, end) == [c EXCEPT !.db = PutOpFinal(@, c.turn, c.op, st, err, end, 0)]

DoneOp(c, kind, name) ==
    FinishOp(StartOp(c, kind, name, "", <<>>, <<>>), "completed", "", c.ts)

\* emitInlinePayload.
Ref(c, owner, kind, ptr) == [c EXCEPT !.db = PutRef(@, owner[1], owner[2], kind, c.line, ptr)]
Here(c) == <<c.turn, c.op>>

\* logEntry: the record is the artifact, under /log or /system.
LogSystem(c, sev, msg) ==
    [c EXCEPT !.db = PutLog(@, c.turn, 0, c.ts, sev, msg, <<"line", c.line, "/system">>, "system")]
LogRecord(c, sev, msg) ==
    [c EXCEPT !.db = PutLog(@, c.turn, 0, c.ts, sev, msg, <<"line", c.line, "/log">>, "")]
\* attachmentLog.
LogAttachment(c) ==
    [c EXCEPT !.db = PutLog(@, c.turn, 0, c.ts, "DBG", "attachment",
                            <<"line", c.line, "/attachment">>, "attachment")]

-----------------------------------------------------------------------------
(* user records.                                                           *)

\* startUserTurn.
StartUserTurn(c) ==
    [c EXCEPT !.turn = @ + 1, !.op = 0, !.fin = FALSE, !.db = PutTurn(@, c.turn + 1, c.ts)]

\* finalizeCurrentTurn, and the turn_duration arm of mapSystem.
FinalizeTurn(c) ==
    [c EXCEPT !.fin = TRUE, !.db = PutTurnFinal(@, c.turn, "completed", "", c.ts, c.ts)]

UserInputOp(c, ptr) ==
    LET done == DoneOp(c, "internal", "user_input")
    IN  Ref(done, Here(done), "tool_request", ptr)

\* A slip: the turn before is left running.
MapUserPromptOpenEnded(c) == UserInputOp(StartUserTurn(c), "content")

\* mapUserPrompt: a prompt ends the turn that is open and opens the next one.
MapUserPrompt(c) ==
    UserInputOp(StartUserTurn(IF c.turn > 0 /\ ~c.fin THEN FinalizeTurn(c) ELSE c), "content")

\* mapUserArrayTextBlock, mapUserArrayImageBlock.
MapUserBlock(c, ptr) == UserInputOp(IF c.turn = 0 THEN StartUserTurn(c) ELSE c, ptr)

\* mapToolResultBlock: only a tool that is open is answered; the structured echo
\* of the record goes to the first of them.  resolveAgentOp: the result of an
\* Agent speaks for the child.
MapToolResult(c, id, ptr, bad, echo) ==
    IF id \notin DOMAIN c.tools THEN c
    ELSE LET tool == c.tools[id]
             owner == <<tool.turn, tool.op>>
             response == Ref(c, owner, "tool_response", ptr)
             full == IF echo THEN Ref(response, owner, "tool_response", "toolUseResult")
                     ELSE response
         IN  [full EXCEPT !.db = PutOpFinal(@, tool.turn, tool.op,
                                            IF bad THEN "failed" ELSE "completed",
                                            IF bad THEN "tool_error" ELSE "", c.ts, 0),
                          !.tools = [t \in DOMAIN @ \ {id} |-> @[t]],
                          !.agents = [a \in DOMAIN @ \ {tool.child} |-> @[a]],
                          !.resolved = @ \cup ({tool.child} \ {<<>>})]

\* mapToolResultUser over the blocks [b, id, bad] of the record.
ResultPointers == <<"result 1", "result 2">>
Echoes(blocks, i, open, has) ==
    /\ has
    /\ \A j \in 1..i-1 : ~(blocks[j].b = "result" /\ blocks[j].id \in open)

MapUserArray(c, blocks, has) ==
    FoldLeftDomain(LAMBDA acc, i :
        IF blocks[i].b = "result"
        THEN MapToolResult(acc, blocks[i].id, ResultPointers[i], blocks[i].bad,
                           Echoes(blocks, i, DOMAIN c.tools, has))
        ELSE MapUserBlock(acc, blocks[i].b), c, blocks)

\* mapCompactSummaryUser, emitSummaryPayload: the summary belongs to the latest
\* compaction, and to nothing when there was none.
MapCompactSummary(c) ==
    LET logged == LogRecord(c, "INF", "compaction-summary")
    IN  IF c.compaction[2] = 0 THEN logged ELSE Ref(logged, c.compaction, "log", "content")

-----------------------------------------------------------------------------
(* assistant records.                                                      *)

\* ensureAssistantTurn: no event; the writer makes the turn with its first op.
EnsureAssistantTurn(c) == IF c.turn = 0 THEN [c EXCEPT !.turn = 1, !.op = 0] ELSE c

ChildOf(c, id) == IF id \in c.file.linked THEN <<"child", id>> ELSE <<>>

\* toolUseStarted, agentToolUseStarted, rememberAgentOp, rememberOpenToolUse.
InputPointers == <<"input 1", "input 2">>
MapToolUse(c, use, ptr) ==
    LET child == IF use.agent THEN ChildOf(c, use.id) ELSE <<>>
        op == IF use.agent THEN StartOp(c, "session", "task", "builtin", child, <<>>)
              ELSE StartOp(c, "tool", "Bash", "builtin", <<>>, <<>>)
        open == [turn |-> op.turn, op |-> op.op, child |-> child]
        asked == Ref(op, Here(op), "tool_request", ptr)
    IN  [asked EXCEPT !.tools = IF use.id = <<>> THEN @ ELSE (use.id :> open) @@ @,
                      !.agents = IF child = <<>> THEN @ ELSE (child :> Here(op)) @@ @]

\* mapAssistant: the LLM op and its text, then the reasoning, then the tools.
MapAssistant(c, text, thinking, uses) ==
    LET turn == EnsureAssistantTurn(c)
        llm == DoneOp(turn, "llm", "model")
        said == IF text THEN Ref(llm, Here(llm), "llm_response", "text") ELSE llm
        mused == DoneOp(said, "reasoning", "")
        thought == IF thinking THEN Ref(mused, Here(mused), "llm_reasoning", "thinking") ELSE said
    IN  FoldLeftDomain(LAMBDA acc, i : MapToolUse(acc, uses[i], InputPointers[i]), thought, uses)

-----------------------------------------------------------------------------
(* system, attachment, queue-operation and pr-link records.                *)

\* mapCompaction: an op of the current turn, or of turn 0 before there is one.
MapCompaction(c, duration) ==
    LET op == StartOp(c, "compaction", "compaction", "", <<>>, <<"manual", duration>>)
        done == FinishOp(op, "completed", "", c.ts + duration)
    IN  LogRecord([done EXCEPT !.compaction = Here(op)], "INF", "compact_boundary")

\* mapSystem, turn_duration.
MapTurnDuration(c) == IF c.turn = 0 THEN c ELSE FinalizeTurn(c)

\* mapAPIError, mapAPIErrorInCurrentTurn.
MapAPIError(c) ==
    LET turn == IF c.turn = 0 THEN StartUserTurn(c) ELSE c
        op == StartOp(turn, "llm", "api_error", "", <<>>, <<>>)
    IN  LogRecord(FinishOp(op, "failed", "api_error", c.ts), "ERR", "api_error")

\* mapPRLink: every link seen so far, as one value.
MapPRLink(c, link) ==
    LET links == Append(c.prs, link)
        logged == LogRecord(c, "INF", "pr-link")
    IN  [logged EXCEPT !.prs = links, !.db = PatchSessionMeta(@, "prLinks" :> links, c.ts)]

-----------------------------------------------------------------------------
\* pairCompletedFinalization and agentFinalizeEvent: an Agent op whose result
\* never came ends where its completed child ended (collectAgentDeferral: not
\* once a result spoke for the child).
FinalizeAgents(c, completed, end) ==
    FoldSet(LAMBDA child, acc :
              [acc EXCEPT !.db = PutOpFinal(@, c.agents[child][1], c.agents[child][2],
                                            "completed", "", end, 0)],
            c, (DOMAIN c.agents \ c.resolved) \cap completed)

=============================================================================
