---------------------------- MODULE CodexMapper ----------------------------
(***************************************************************************)
(* The codex adapter's mapper: how the records of one rollout file become  *)
(* canonical events.  Every handler is an operator on the mapper's state;  *)
(* the events it emits are applied to the canonical rows at once, so the   *)
(* state carries the rows next to the mapper's own maps.                   *)
(*                                                                         *)
(* Turn ids, call ids and native ids are tuples (<<>> is the empty id, so  *)
(* a synthetic id such as "sub:1" or "ws#1:2" is <<"sub", 1>> or           *)
(* <<"ws", 1, 2>>).  A payload pointer is "text", "image", "arguments",    *)
(* "output" or "message", and "" for the whole line.  Re-emitting an op    *)
(* only to merge extras changes no field the rows keep and is left out.    *)
(***************************************************************************)
EXTENDS CanonicalRows, FiniteSetsExt, TLC

Blank == <<>>

\* turnState.  "tool" is hasOpenToolCall, "llm" lastLLMOpSeq, "tok" the tokens
\* counted so far.
TurnState(id, ts) ==
    [id |-> id, start |-> ts, fin |-> FALSE, task |-> FALSE, ui |-> 0,
     tool |-> FALSE, llm |-> 0, tok |-> 0]

\* newFileMapper.  "turns" is the turn map in turnOrder, indexed by seq;
\* "active" the seq of the active turn, 0 for none.
NewMapper ==
    [db |-> EmptyDb, line |-> 0, ts |-> 0, content |-> 0, turns |-> <<>>, active |-> 0,
     subs |-> 0, open |-> <<>>, final |-> <<>>, web |-> <<>>, seen |-> {},
     compacted |-> 0, eof |-> FALSE]

-----------------------------------------------------------------------------
(* The session header.                                                     *)

\* applySessionMeta: kind, parent and relationship by the first rule that
\* holds.  h.src is the class of payload.source, h.inner the parent it names,
\* h.outer payload.parent_thread_id.
MetaKind(h) ==
    CASE h.src = "subagent" -> "sub_agent"
      [] h.src # "subagent" /\ h.fork # <<>> -> "fork"
      [] h.src = "internal" /\ h.fork = <<>> -> "tool_internal"
      [] OTHER -> IF h.thread = "subagent" THEN "sub_agent"
                  ELSE IF h.thread = "memory_consolidation" THEN "tool_internal"
                  ELSE "root"

MetaParent(h) ==
    CASE h.src = "subagent" -> IF h.inner # <<>> THEN h.inner ELSE h.outer
      [] h.src # "subagent" /\ h.fork # <<>> -> h.fork
      [] OTHER -> IF MetaKind(h) = "sub_agent" THEN h.outer ELSE <<>>

\* sessionExtras, agentNameFromMeta: nothing descriptive, no metadata.
SessionExtras(h) ==
    LET relationship == IF MetaKind(h) = "root" THEN "" ELSE MetaKind(h)
    IN  IF h.agent = "" /\ relationship = "" THEN <<>>
        ELSE <<h.agent, relationship>>

\* mapRecord on the first record: sessionStarted0.  rootOf names the parent as
\* the root when there is one; the session itself is <<>>.
MapSessionMeta(m, h) ==
    [m EXCEPT !.db = PutSessionMeta(PutSession(@, MetaKind(h), MetaParent(h),
                                               MetaParent(h), m.ts),
                                    SessionExtras(h))]

\* mapRecord: the preamble every later record shares.
NextRecord(m, ts) == [m EXCEPT !.line = @ + 1, !.ts = ts, !.content = ts]

-----------------------------------------------------------------------------
(* Turns.                                                                  *)

\* openTurn and emitTurnStarted: an id seen before becomes active again, even
\* when that turn is finalized.
OpenTurn(m, id) ==
    LET known == SelectInSeq(m.turns, LAMBDA t : t.id = id)
        seq   == Len(m.turns) + 1
    IN  IF known # 0 THEN [m EXCEPT !.active = known]
        ELSE [m EXCEPT !.turns = Append(@, TurnState(id, m.ts)), !.active = seq,
                       !.db = PutTurn(@, seq, m.ts)]

EnsureTurn(m) == IF m.active # 0 THEN m ELSE OpenTurn(m, Blank)

MostRecentOpenTurn(m) == SelectLastInSeq(m.turns, LAMBDA t : ~t.fin)

FinalizeTurn(m, seq, st, err, end) ==
    [m EXCEPT !.turns[seq].fin = TRUE, !.db = PutTurnFinal(@, seq, st, err, end, m.ts)]

\* recordFinalizedOp after an OpFinalized event: the call leaves openOps.
CloseCall(m, call, st, err, end) ==
    LET op == m.open[call]
    IN  [m EXCEPT !.db = PutOpFinal(@, op.turn, op.op, st, err, end, 0),
                  !.open = [c \in DOMAIN m.open \ {call} |-> m.open[c]],
                  !.final = (call :> [turn |-> op.turn, op |-> op.op, st |-> st, err |-> err])
                            @@ m.final]

\* What exec_command_end stashed outranks the outcome at hand.
Outcome(op, st, err) == IF op.enrich = <<>> THEN <<st, err>> ELSE op.enrich

CallsOf(m, seq) == {c \in DOMAIN m.open : m.open[c].turn = seq}

\* A slip: calls left open by the turn stay open.
FinalizeNoOps(m, seq, st, end) == m

\* finalizeDanglingOps, pruneWebSearchQueue.
FinalizeDanglingOps(m, seq, st, end) ==
    LET closed == FoldSet(LAMBDA c, acc : LET o == Outcome(m.open[c], st, "")
                                          IN  CloseCall(acc, c, o[1], o[2], end),
                          m, CallsOf(m, seq))
    IN  [closed EXCEPT !.web = SelectSeq(@, LAMBDA c : c[2] # seq)]

\* supersedePriorTurn.
SupersedePriorTurn(m, id) ==
    LET prior == MostRecentOpenTurn(m)
    IN  IF prior = 0 \/ (prior # 0 /\ m.turns[prior].id = id) THEN m
        ELSE IF m.turns[prior].task
        THEN FinalizeTurn(FinalizeDanglingOps(m, prior, "cancelled", m.ts),
                          prior, "failed", "replaced", m.ts)
        ELSE FinalizeTurn(FinalizeDanglingOps(m, prior, "completed", m.ts),
                          prior, "completed", "", m.ts)

\* A slip: the turn that was open is left open.
OpenWithoutSuperseding(m, id) == OpenTurn(m, id)

\* mapTurnContext.
MapTurnContext(m, id) == OpenTurn(SupersedePriorTurn(m, id), id)

\* mapTaskStarted.
MapTaskStarted(m, id) ==
    LET e == OpenTurn(SupersedePriorTurn(m, id), id)
    IN  [e EXCEPT !.turns[e.active].task = TRUE]

\* applyLLMCtx: the turn's tokens are written to its last LLM op.
ApplyLLMCtx(m, seq) ==
    LET t == m.turns[seq]
    IN  IF t.llm = 0 \/ t.tok = 0 THEN m
        ELSE [m EXCEPT !.db = PutOpFinal(@, seq, t.llm, "completed", "",
                                         @.ops[seq][t.llm].end, t.tok)]

\* logEntry: scoped to the active turn, finalized or not.
Log(m, sev, msg, sel) ==
    [m EXCEPT !.db = PutLog(@, m.active, 0, m.ts, sev, msg, sel, "")]

\* mapTaskComplete: a turn that a user-input split already finalized hands the
\* completion to the newest open turn.
MapTaskComplete(m, id) ==
    LET named  == SelectInSeq(m.turns, LAMBDA t : t.id = id)
        target == IF named # 0 /\ m.turns[named].fin THEN MostRecentOpenTurn(m) ELSE named
    IN  IF target = 0 THEN Log(m, "WRN", "task_complete_no_turn", <<>>)
        ELSE FinalizeTurn(FinalizeDanglingOps(ApplyLLMCtx(m, target), target, "completed", m.ts),
                          target, "completed", "", m.ts)

\* mapTurnAborted.
MapTurnAborted(m, id) ==
    LET named == SelectInSeq(m.turns, LAMBDA t : t.id = id /\ ~t.fin)
    IN  IF named = 0 THEN Log(m, "WRN", "turn_aborted_no_turn", <<>>)
        ELSE FinalizeTurn(FinalizeDanglingOps(m, named, "cancelled", m.ts),
                          named, "failed", "user_interrupt", m.ts)

\* mapTokenCount: the named turn, or the active one.
MapTokenCount(m, id) ==
    LET named  == IF id = Blank THEN 0 ELSE SelectInSeq(m.turns, LAMBDA t : t.id = id)
        target == IF named # 0 THEN named ELSE m.active
    IN  IF target = 0 THEN Log(m, "DBG", "token_count_no_turn", <<>>)
        ELSE [m EXCEPT !.turns[target].tok = @ + 1]

-----------------------------------------------------------------------------
(* Operations.                                                             *)

\* nextOp and OpStarted in the active turn, opened when there is none.
StartOp(m, kind, name, ns, child, extra) ==
    LET e == EnsureTurn(m)
        n == Len(e.db.ops[e.active]) + 1
    IN  [e EXCEPT !.db = PutOp(@, e.active, n, kind, name, ns, child, extra, m.ts)]

LastOp(m) == Len(m.db.ops[m.active])

\* OpStarted and OpFinalized from one record.
CompletedOp(m, kind, name, child, extra, st) ==
    LET e == StartOp(m, kind, name, "", child, extra)
    IN  [e EXCEPT !.db = PutOpFinal(@, e.active, LastOp(e), st, "", m.ts, 0)]

\* appendPayloadRefs: the pointers, or the whole line.
Refs(m, t, n, kind, ptrs) ==
    [m EXCEPT !.db = FoldLeft(LAMBDA d, p : PutRef(d, t, n, kind, m.line, p), @,
                              IF ptrs = <<>> THEN <<"">> ELSE ptrs)]

RefsOnLast(m, kind, ptrs) == Refs(m, m.active, LastOp(m), kind, ptrs)

\* finalizeTurnForSubSplit and the sub-turn.
SplitTurn(m) ==
    LET closed == FinalizeTurn(m, m.active, "completed", "", m.ts)
    IN  OpenTurn([closed EXCEPT !.subs = @ + 1], <<"sub", m.subs + 1>>)

Splits(m) == /\ m.active # 0
             /\ m.turns[m.active].ui >= 1
             /\ ~m.turns[m.active].tool
             /\ ~m.turns[m.active].fin

\* userFingerprint, firstSeenUser: a text seen anywhere earlier in the file is a
\* duplicate; the empty text never is, and is not remembered.
FirstSeenUser(m, text) == text \notin m.seen

\* emitUserInput.
EmitUserInput(m, text, ptrs) ==
    LET split == EnsureTurn(IF Splits(m) THEN SplitTurn(m) ELSE m)
        input == CompletedOp(split, "internal", "user_input", <<>>, <<>>, "completed")
    IN  IF ~FirstSeenUser(m, text) THEN m
        ELSE [RefsOnLast(input, "tool_request", ptrs)
                EXCEPT !.turns[input.active].ui = @ + 1,
                       !.seen = IF text = "" THEN @ ELSE @ \cup {text}]

\* mapMessage for any other role.
MapAssistant(m, ptrs, phase) ==
    LET e == CompletedOp(m, "llm", "message", <<>>, <<>>, "completed")
        r == [RefsOnLast(e, "llm_response", ptrs) EXCEPT !.turns[e.active].llm = LastOp(e)]
    IN  IF phase = "final_answer" THEN Log(r, "INF", "final_answer", <<>>) ELSE r

\* mapReasoning: no reference when there is neither text nor encrypted content.
MapReasoning(m, ptrs, encrypted) ==
    LET e == CompletedOp(m, "reasoning", "reasoning", <<>>, <<>>, "completed")
    IN  IF ptrs = <<>> /\ ~encrypted THEN e ELSE RefsOnLast(e, "llm_reasoning", ptrs)

\* trackOp: a call without an id cannot be matched later.
TrackOp(m, call) ==
    IF call = Blank THEN m
    ELSE [m EXCEPT !.open = (call :> [turn |-> m.active, op |-> LastOp(m), enrich |-> <<>>])
                            @@ m.open]

\* mapToolCall.
MapToolCall(m, call, ptrs) ==
    LET e == RefsOnLast(StartOp(m, "tool", "exec", "shell", <<>>, <<>>), "tool_request", ptrs)
    IN  [TrackOp(e, call) EXCEPT !.turns[e.active].tool = TRUE]

\* mapImageGenCall, emitSingleToolOp: it does not hold back the split.
MapImageGenCall(m, call) ==
    TrackOp(RefsOnLast(StartOp(m, "tool", "image_generation", "media", <<>>, <<>>),
                       "tool_request", <<>>), call)

\* mapWebSearchCall: tracked under a synthetic id and queued for its end.
MapWebSearchCall(m) ==
    LET e    == RefsOnLast(StartOp(m, "tool", "web_search", "web", <<>>, <<>>),
                           "tool_request", <<>>)
        call == <<"ws", e.active, LastOp(e)>>
    IN  [TrackOp(e, call) EXCEPT !.web = Append(@, call)]

\* refreshHasOpenToolCall.
RefreshOpenToolCall(m, seq) == [m EXCEPT !.turns[seq].tool = CallsOf(m, seq) # {}]

\* mapToolOutput: "bad" is what outputStatus makes of the output's text.
MapToolOutput(m, call, bad) ==
    LET op == m.open[call]
        o  == Outcome(op, IF bad THEN "failed" ELSE "completed", IF bad THEN "tool_error" ELSE "")
    IN  CASE call \in DOMAIN m.open ->
               Refs(RefreshOpenToolCall(CloseCall(m, call, o[1], o[2], m.ts), op.turn),
                    op.turn, op.op, "tool_response", <<"output">>)
          [] call \in DOMAIN m.final \ DOMAIN m.open ->
               Refs(m, m.final[call].turn, m.final[call].op, "tool_response", <<"output">>)
          [] OTHER -> Log(m, "WRN", "tool_output_unmatched", <<>>)

\* enrichFinalizedOp: a late end event corrects the status of a closed call;
\* the record of what it closed with is not updated.
EnrichFinalizedOp(m, call, st, err, msg) ==
    LET f == m.final[call]
    IN  IF call \notin DOMAIN m.final THEN Log(m, "DBG", msg, <<>>)
        ELSE IF st = "" \/ (f.st = st /\ f.err = err) THEN m
        ELSE [m EXCEPT !.db = PutOpFinal(@, f.turn, f.op, st, err, m.ts, 0)]

\* enrichOp for exec_command_end: an open call keeps the outcome for its output.
EnrichExec(m, call, st, err) ==
    IF call \in DOMAIN m.open THEN [m EXCEPT !.open[call].enrich = <<st, err>>]
    ELSE EnrichFinalizedOp(m, call, st, err, "enrich_exec_command_end")

\* enrichMcp: the end renames and closes an open call.
EnrichMcp(m, call, st, err) ==
    LET op == m.open[call]
    IN  IF call \notin DOMAIN m.open THEN Log(m, "DBG", "enrich_mcp_tool_call_end", <<>>)
        ELSE CloseCall([m EXCEPT !.db = PutOp(@, op.turn, op.op, "tool", "mcp_tool", "mcp",
                                              <<>>, <<>>, m.ts)],
                       call, st, err, m.ts)

\* enrichPatchApply.
EnrichPatchApply(m, call, st, err) ==
    IF call \in DOMAIN m.open THEN CloseCall(m, call, st, err, m.ts)
    ELSE EnrichFinalizedOp(m, call, st, err, "enrich_patch_apply_end")

\* finalizeImageGeneration.
FinalizeImageGeneration(m, call) ==
    IF call \in DOMAIN m.open
    THEN RefreshOpenToolCall(CloseCall(m, call, "completed", "", m.ts), m.open[call].turn)
    ELSE EnrichFinalizedOp(m, call, "", "", "enrich_image_generation_end")

\* enrichWebSearch, dequeueWebSearch: the oldest search still open ends.
EnrichWebSearch(m) ==
    LET first == SelectInSeq(m.web, LAMBDA c : c \in DOMAIN m.open)
    IN  IF first = 0 THEN Log([m EXCEPT !.web = <<>>], "DBG", "web_search_end_no_call", <<>>)
        ELSE CloseCall([m EXCEPT !.web = SubSeq(@, first + 1, Len(@))],
                       m.web[first], "completed", "", m.ts)

\* mapCollabSpawn.
MapCollabSpawn(m, child, st) ==
    IF child = Blank THEN Log(m, "DBG", "collab_agent_spawn_end_no_child", <<>>)
    ELSE CompletedOp(m, "session", "spawn", child, <<>>, st)

\* emitCompactionOp: the whole record is kept as a log payload.
EmitCompactionOp(m, extra) ==
    RefsOnLast(CompletedOp(m, "compaction", "compaction", <<>>, extra, "completed"), "log", <<>>)

\* mapCompacted, suppressContextCompacted.
MapCompacted(m) == [EmitCompactionOp(m, <<"auto", "history">>) EXCEPT !.compacted = m.line]
MapContextCompacted(m) ==
    IF m.compacted # 0 /\ m.compacted + 1 = m.line THEN m ELSE EmitCompactionOp(m, <<"auto">>)

\* mapEventMsg: collab ends and errors carry their message by pointer.
MapMessageEvent(m, sev, msg, hasMessage) ==
    IF hasMessage THEN Log(m, sev, "message", <<"line", m.line, "message">>)
    ELSE Log(m, sev, msg, <<>>)

-----------------------------------------------------------------------------
(* End of file.                                                            *)

\* closeOpenTurnAtEOF: never ends before it starts.
CloseOpenTurnAtEOF(m, seq, end, st, err, dangling) ==
    LET e == IF end < m.turns[seq].start THEN m.turns[seq].start ELSE end
    IN  FinalizeTurn(FinalizeDanglingOps(m, seq, dangling, e), seq, st, err, e)

\* finalizeAtEOF: a turn no task_started announced ends with its content; one
\* that was announced stays open until the file is stale, and then fails.
FinalizeAtEOF(m, stale, mtime) ==
    LET open == MostRecentOpenTurn(m)
    IN  IF m.eof THEN m
        ELSE IF open = 0 THEN [m EXCEPT !.eof = TRUE]
        ELSE IF ~m.turns[open].task
        THEN [CloseOpenTurnAtEOF(m, open, IF m.content = 0 THEN mtime ELSE m.content,
                                 "completed", "", "completed") EXCEPT !.eof = TRUE]
        ELSE IF ~stale THEN m
        ELSE LET closed == CloseOpenTurnAtEOF(m, open, mtime, "failed", "incomplete", "cancelled")
             IN  [closed EXCEPT !.eof = TRUE,
                                !.db = PutSessionFinal(@, "failed", @.turns[open].end)]

=============================================================================
