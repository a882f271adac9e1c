---------------------------- MODULE CodexParity ----------------------------
(***************************************************************************)
(* One codex rollout read by both interpreters: the adapter's mapper,      *)
(* whose events become canonical rows, and the parity checker's source     *)
(* extractor.  After the last record the checker compares the manifest of  *)
(* the rows with the manifest of the source.                               *)
(*                                                                         *)
(* A rollout is any sequence of records from one of the Alphabets.  The    *)
(* shapes on which the two interpreters are known to part are collected in *)
(* "odd" as they occur, so that a property can speak of the files without  *)
(* them, and a run can look at the files with one of them.                 *)
(***************************************************************************)
EXTENDS CodexMapper, CodexSource

CONSTANTS Alphabets,   \* [set, depth, headers]: the record kinds a rollout draws
                       \* from, how many records follow the header, the headers
          Oddities,    \* the shapes a rollout of this run may show
          MaxOdd       \* shapes one rollout may combine

VARIABLES m,      \* the adapter's mapper, with the canonical rows
          s,      \* the parity source extractor
          kinds,  \* the alphabet of this rollout
          odd,    \* the shapes met so far
          done    \* the end of the file was processed

pvars == <<m, s, kinds, odd, done>>

CodexClasses ==
    {"session_boundary", "turn_boundary", "op_boundary", "session_metadata", "system_op",
     "compaction_event", "subagent_link", "tool_error"}

Cell(avail, doms) == [avail |-> avail, doms |-> doms]

\* codexMatrixRows: what the checker accepts from a codex source.
CodexMatrix ==
    [c \in CodexClasses |-> Cell({"available"}, {"identity"})]
    @@ ("user_prompt" :> Cell({"available", "source_empty"}, {"text", "json"}))
    @@ ("user_image" :> Cell({"available"}, {"json"}))
    @@ [c \in {"assistant_message", "reasoning_text"} |->
            Cell({"available", "source_empty"}, {"text"})]
    @@ ("tool_request" :> Cell({"available", "source_unavailable", "source_empty"},
                               {"text", "json", "raw"}))
    @@ ("tool_response" :> Cell({"available", "source_unavailable", "source_empty"},
                                {"text", "json"}))
    @@ ("log_entry" :> Cell({"available", "source_empty"}, {"text", "raw"}))
    @@ [c \in {"llm_request", "llm_response", "llm_error"} |->
            Cell({"not_source_visible"}, {})]

Init == /\ kinds \in Alphabets
        /\ odd = {}
        /\ done = FALSE
        /\ \E h \in kinds.headers :
              /\ m = MapSessionMeta([NewMapper EXCEPT !.line = 1, !.ts = 1], h)
              /\ s = SourceSession([NewSource EXCEPT !.line = 1, !.ts = 1], h)

-----------------------------------------------------------------------------
(* Reading a record.                                                       *)

\* The mapper and the extractor at the next record, one tick later.
M1 == NextRecord(m, m.ts + 1)
S1 == SourceRecord(s, s.ts + 1)

Reads(kind) == ~done /\ kind \in kinds.set /\ m.line <= kinds.depth

\* The record is an oddity of the given name when "is" holds.
Meets(name, is) ==
    /\ is => name \in Oddities
    /\ odd' = IF is THEN odd \cup {name} ELSE odd
    /\ Cardinality(odd') <= MaxOdd

Become(mapper, source) ==
    /\ m' = mapper
    /\ s' = source
    /\ UNCHANGED <<kinds, done>>

Ids(used, tag) == {<<tag, k>> : k \in 1..Cardinality(used) + 1}
TurnIds == Ids({t.id : t \in {u \in Range(m.turns) : u.id # <<>> /\ u.id[1] = "turn"}}, "turn")
Calls == DOMAIN m.open \cup DOMAIN m.final
CallIds == Ids({c \in Calls : c[1] = "call"}, "call")

\* A record outside any turn, or in one that is still open.
InOpenTurn == m.active = 0 \/ (m.active # 0 /\ ~m.turns[m.active].fin)

\* The turn a start names is new, or the one that is open.
NamesNewTurn(id) ==
    \/ SelectInSeq(m.turns, LAMBDA t : t.id = id) = 0
    \/ m.active # 0 /\ m.turns[m.active].id = id /\ ~m.turns[m.active].fin

ReadTurnContext ==
    /\ Reads("turn_context")
    /\ \E id \in TurnIds : /\ Meets("turn_again", ~NamesNewTurn(id))
                           /\ Become(MapTurnContext(M1, id), ActivateTurn(S1, id))

ReadTaskStarted ==
    /\ Reads("task_started")
    /\ \E id \in TurnIds : /\ Meets("turn_again", ~NamesNewTurn(id))
                           /\ Become(MapTaskStarted(M1, id), SourceTaskStarted(S1, id))

\* The latest turn the rollout named, split or not.
LatestNamed == SelectLastInSeq(m.turns, LAMBDA t : t.id # <<>> /\ t.id[1] = "turn")
EndsLatest(id) == LatestNamed # 0 /\ m.turns[LatestNamed].id = id
                  /\ MostRecentOpenTurn(m) >= LatestNamed

ReadTaskComplete ==
    /\ Reads("task_complete")
    /\ \E id \in TurnIds : /\ Meets("end_without_turn", ~EndsLatest(id))
                           /\ Become(MapTaskComplete(M1, id), SourceTaskComplete(S1))

ReadTurnAborted ==
    /\ Reads("turn_aborted")
    /\ \E id \in TurnIds :
          /\ Meets("abort_after_split",
                   ~(EndsLatest(id) /\ ~m.turns[LatestNamed].fin))
          /\ Become(MapTurnAborted(M1, id), SourceTurnAborted(S1))

ReadTokenCount ==
    /\ Reads("token_count")
    /\ Meets("tokens_without_turn", m.active = 0)
    /\ Become(MapTokenCount(M1, <<>>), S1)

-----------------------------------------------------------------------------
(* response_item records.                                                  *)

\* The flag that holds back a split says what the open calls say.
FlagIsTrue == m.active # 0 => m.turns[m.active].tool = (CallsOf(m, m.active) # {})

ReadUserMessage ==
    /\ Reads("user")
    /\ \E text \in {"a", "b"}, ptrs \in {<<"text">>, <<"text", "image">>} :
          /\ IF text \in m.seen THEN Meets("prompt_again", TRUE)
             ELSE IF ~InOpenTurn THEN Meets("between_turns", TRUE)
             ELSE Meets("stale_tool_flag", ~FlagIsTrue)
          /\ Become(EmitUserInput(M1, text, ptrs), UserPointers(SourceUserInput(S1), ptrs))

\* A content record after the last turn ended starts a turn for one side only.
Content(kind) == Reads(kind) /\ Meets("between_turns", ~InOpenTurn)

ReadAssistant ==
    /\ Reads("assistant")
    /\ \E phase \in {"", "final_answer"} :
          /\ IF ~InOpenTurn THEN Meets("between_turns", TRUE)
             ELSE Meets("final_answer", phase = "final_answer")
          /\ Become(MapAssistant(M1, <<"text">>, phase),
                    Pointers(SourceCompletedOp(S1, "llm", "message", "completed"),
                             "assistant_message", <<"text">>))

ReadReasoning ==
    /\ Reads("reasoning")
    /\ \E ptrs \in {<<>>, <<"text">>}, encrypted \in BOOLEAN :
          /\ IF ~InOpenTurn THEN Meets("between_turns", TRUE)
             ELSE Meets("encrypted_only", ptrs = <<>> /\ encrypted)
          /\ Become(MapReasoning(M1, ptrs, encrypted),
                    Pointers(SourceCompletedOp(S1, "reasoning", "reasoning", "completed"),
                             "reasoning_text", ptrs))

\* Without arguments the mapper refers to the whole line.
ReadToolCall ==
    /\ Reads("tool_call")
    /\ \E call \in CallIds \cup {<<>>}, ptrs \in {<<>>, <<"arguments">>} :
          /\ CASE ~InOpenTurn -> Meets("between_turns", TRUE)
               [] InOpenTurn /\ call \in Calls -> Meets("call_again", TRUE)
               [] InOpenTurn /\ call = <<>> -> Meets("call_without_id", TRUE)
               [] OTHER -> Meets("call_without_arguments", ptrs = <<>>)
          /\ Become(MapToolCall(M1, call, ptrs),
                    Pointers(SourceToolStart(S1, call, "exec", "shell"), "tool_request", ptrs))

ReadToolOutput ==
    /\ Reads("tool_output")
    /\ \E call \in CallIds, bad \in BOOLEAN :
          /\ IF call \notin Calls THEN Meets("output_unmatched", TRUE)
             ELSE Meets("output_reads_failed",
                        bad /\ call \in DOMAIN m.open /\ m.open[call].enrich = <<>>)
          /\ Become(MapToolOutput(M1, call, bad), SourceToolOutput(S1, call))

ReadWebSearchCall ==
    /\ Content("web_call")
    /\ Become(MapWebSearchCall(M1), SourceWebSearchStart(S1))

\* The mapper keeps the whole record as the request, the extractor nothing.
ReadImageCall ==
    /\ Reads("image_call")
    /\ \E call \in CallIds \ Calls :
          /\ Meets("image_call", TRUE)
          /\ Become(MapImageGenCall(M1, call),
                    SourceToolStart(S1, call, "image_generation", "media"))

\* The mapper keeps the whole record as a log, the extractor only the event.
ReadResponseCompaction ==
    /\ Reads("response_compaction")
    /\ Meets("response_compaction", TRUE)
    /\ Become(EmitCompactionOp(M1, <<"auto">>), SourceCompaction(S1, <<"auto">>))

-----------------------------------------------------------------------------
(* event_msg and compacted records.                                        *)

\* The extractor takes the prompt and records no input op.
ReadUserMessageEvent ==
    /\ Reads("user_event")
    /\ \E text \in {"a", "b"} :
          /\ Meets("user_event", TRUE)
          /\ Become(EmitUserInput(M1, text, <<"message">>), UserPointers(S1, <<"message">>))

Ended(bad, err) == IF bad THEN <<"failed", err>> ELSE <<"completed", "">>

\* A late end that contradicts what the call closed with.
Corrects(call, o) == /\ call \in DOMAIN m.final \ DOMAIN m.open
                     /\ <<m.final[call].st, m.final[call].err>> # o

ReadExecCommandEnd ==
    /\ Reads("exec_end")
    /\ \E call \in CallIds, bad \in BOOLEAN :
          LET o == Ended(bad, "command_failed")
          IN  /\ IF call \notin Calls THEN Meets("end_unmatched", TRUE)
                 ELSE Meets("late_correction", Corrects(call, o))
              /\ Become(EnrichExec(M1, call, o[1], o[2]), SourceExecEnd(S1, call, o[1], o[2]))

ReadPatchApplyEnd ==
    /\ Reads("patch_end")
    /\ \E call \in CallIds, bad \in BOOLEAN :
          LET o == Ended(bad, "patch_failed")
          IN  /\ IF call \notin Calls THEN Meets("end_unmatched", TRUE)
                 ELSE Meets("late_correction", Corrects(call, o))
              /\ Become(EnrichPatchApply(M1, call, o[1], o[2]), SourceToolEnd(S1, call, o[1], o[2]))

ReadMcpToolCallEnd ==
    /\ Reads("mcp_end")
    /\ \E call \in CallIds, bad \in BOOLEAN :
          LET o == Ended(bad, "tool_error")
          IN  /\ Meets("end_unmatched", call \notin DOMAIN m.open)
              /\ Become(EnrichMcp(M1, call, o[1], o[2]), SourceMcpEnd(S1, call, o[1], o[2]))

ReadImageGenerationEnd ==
    /\ Reads("image_end")
    /\ \E call \in CallIds :
          /\ Meets("end_unmatched", call \notin Calls)
          /\ Become(FinalizeImageGeneration(M1, call), SourceToolEnd(S1, call, "completed", ""))

ReadWebSearchEnd ==
    /\ Reads("web_end")
    /\ Meets("end_unmatched", \A i \in DOMAIN m.web : m.web[i] \notin DOMAIN m.open)
    /\ Become(EnrichWebSearch(M1), SourceWebSearchEnd(S1))

ReadCollabSpawnEnd ==
    /\ Reads("spawn")
    /\ \E child \in {<<>>, <<"thread">>}, st \in {"completed", "failed"} :
          /\ IF child = <<>> THEN Meets("spawn_without_child", TRUE)
             ELSE Meets("between_turns", ~InOpenTurn)
          /\ Become(MapCollabSpawn(M1, child, st), SourceCollabSpawn(S1, child, st))

ReadCompacted == /\ Content("compacted")
                 /\ Become(MapCompacted(M1), SourceCompacted(S1))

\* The companion of a compacted record carries its timestamp, or a later one.
ReadContextCompacted ==
    /\ Reads("context_compacted")
    /\ \E tick \in {0, 1} :
          LET next  == NextRecord(m, m.ts + tick)
              nextS == SourceRecord(s, s.ts + tick)
          IN  /\ IF ~InOpenTurn THEN Meets("between_turns", TRUE)
                 ELSE Meets("companion_later", tick = 1 /\ m.compacted = m.line)
              /\ tick = 0 => m.compacted = m.line
              /\ Become(MapContextCompacted(next), SourceContextCompacted(nextS))

ReadAgentEvent == /\ Reads("agent_event")
                  /\ UNCHANGED odd
                  /\ Become(Log(M1, "DBG", "agent_message", <<>>),
                            SourceLog(S1, "DBG", "agent_message"))

ReadMarkerEvent == /\ Reads("marker")
                   /\ UNCHANGED odd
                   /\ Become(Log(M1, "INF", "marker", <<>>), SourceSystemLog(S1, "INF", "marker"))

ReadMessageEvent ==
    /\ Reads("message_event")
    /\ UNCHANGED odd
    /\ \E has \in BOOLEAN, sev \in {"ERR", "DBG"} :
          Become(MapMessageEvent(M1, sev, "event", has), SourceMessageEvent(S1, sev, "event", has))

-----------------------------------------------------------------------------
\* The scanner's end of a fully read file and the extractor's, at the same
\* modification time.
EndOfFile ==
    /\ ~done
    /\ \E stale \in BOOLEAN :
          /\ Meets("open_call_in_live_turn",
                   ~stale /\ \E i \in DOMAIN m.turns :
                        ~m.turns[i].fin /\ m.turns[i].task /\ CallsOf(m, i) # {})
          /\ m' = FinalizeAtEOF(m, stale, m.ts + 1)
          /\ s' = SourceAtEOF(s, stale, s.ts + 1)
    /\ done' = TRUE
    /\ UNCHANGED kinds

Next == \/ ReadTurnContext \/ ReadTaskStarted \/ ReadTaskComplete \/ ReadTurnAborted
        \/ ReadTokenCount \/ ReadUserMessage \/ ReadAssistant \/ ReadReasoning
        \/ ReadToolCall \/ ReadToolOutput \/ ReadWebSearchCall \/ ReadImageCall
        \/ ReadResponseCompaction \/ ReadUserMessageEvent \/ ReadExecCommandEnd
        \/ ReadPatchApplyEnd \/ ReadMcpToolCallEnd \/ ReadImageGenerationEnd
        \/ ReadWebSearchEnd \/ ReadCollabSpawnEnd \/ ReadCompacted \/ ReadContextCompacted
        \/ ReadAgentEvent \/ ReadMarkerEvent \/ ReadMessageEvent \/ EndOfFile

Spec == Init /\ [][Next]_pvars

-----------------------------------------------------------------------------
(* Properties.                                                             *)

\* Two interpreters, one story: for every rollout without a known oddity, the
\* canonical rows the adapter wrote and the artifacts the checker reads from
\* the file agree in every boundary, status, time, payload and log.
CodexParityPasses ==
    done /\ odd = {} => Diff(CodexMatrix, 0, s.out, Manifest(m.db)).state = "PASS"

\* Whatever the rollout holds: the mapper and the rows agree on which turns are
\* finished, at most one turn is open, every call the mapper still
\* waits for is a running row and every call it closed is not, and no payload
\* reference was emitted for an op the writer does not have.
CodexTurnsDisciplined ==
    /\ \A i \in DOMAIN m.turns : m.turns[i].fin <=> m.db.turns[i].st # "running"
    /\ Quantify(DOMAIN m.turns, LAMBDA i : ~m.turns[i].fin) <= 1
    /\ \A c \in DOMAIN m.open : m.db.ops[m.open[c].turn][m.open[c].op].st = "running"
    /\ \A c \in DOMAIN m.final \ DOMAIN m.open :
          m.db.ops[m.final[c].turn][m.final[c].op].st # "running"
    /\ m.db.orphans = 0

=============================================================================
