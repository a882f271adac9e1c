----------------------------- MODULE MCMappers -----------------------------
(***************************************************************************)
(* The two transcript formats side by side: a behaviour is one codex       *)
(* rollout or one claude-code transcript, read by its adapter and by the   *)
(* parity extractor.  The alphabets say which records a file draws from    *)
(* and how many it has.                                                    *)
(***************************************************************************)
EXTENDS CodexParity

CONSTANT ClaudeMaxOdd

VARIABLES which,                                        \* "codex" or "claude"
          claude, extract, letters, ids, oddities, over \* the claude-code side

claudeVars == <<claude, extract, letters, ids, oddities, over>>

------------------------------------------------------------------------------
(* Codex rollouts.                                                          *)

H(src, fork, thread, inner, outer, agent) ==
    [src |-> src, fork |-> fork, thread |-> thread, inner |-> inner, outer |-> outer,
     agent |-> agent]

AllHeaders ==
    {H(src, fork, thread, inner, outer, agent) :
        src \in {"", "subagent", "internal"}, fork \in {<<>>, <<"forked">>},
        thread \in {"", "subagent", "memory_consolidation"}, inner \in {<<>>, <<"inner">>},
        outer \in {<<>>, <<"outer">>}, agent \in {"", "agent"}}

A(depth, set) ==
    [set |-> set, depth |-> depth, headers |-> {H("", <<>>, "", <<>>, <<>>, "agent")}]

\* Turns and inputs; tool calls and their ends; searches and images; logs and
\* compactions; every header on its own.
CodexAlphabets ==
    {A(6, {"turn_context", "task_complete", "user"}),
     A(5, {"task_started", "turn_aborted", "user", "assistant", "token_count", "task_complete"}),
     A(5, {"task_started", "tool_call", "tool_output", "exec_end"}),
     A(4, {"tool_call", "tool_output", "patch_end", "mcp_end", "user"}),
     A(6, {"web_call", "web_end", "task_complete", "task_started"}),
     A(4, {"user", "web_call", "image_call", "image_end", "tool_call", "turn_context"}),
     A(3, {"task_started", "compacted", "context_compacted", "response_compaction",
           "agent_event", "marker", "message_event", "spawn", "reasoning", "user_event"}),
     [A(0, {}) EXCEPT !.headers = AllHeaders]}

CodexOddities ==
    {"turn_again", "end_without_turn", "abort_after_split", "tokens_without_turn",
     "prompt_again", "between_turns", "stale_tool_flag", "final_answer",
     "encrypted_only", "call_again", "call_without_id", "call_without_arguments",
     "output_unmatched", "output_reads_failed", "image_call", "response_compaction",
     "user_event", "end_unmatched", "late_correction", "spawn_without_child",
     "companion_later", "open_call_in_live_turn"}

------------------------------------------------------------------------------
(* Claude-code transcripts.                                                 *)

C(depth, set) == [set |-> set, depth |-> depth]

ClaudeTranscripts ==
    {[kind |-> "root", parent |-> <<>>, root |-> <<>>, linked |-> {<<"use", 1>>}],
     [kind |-> "sub_agent", parent |-> <<"parent">>, root |-> <<"parent">>, linked |-> {}]}

\* Prompts and durations; tools and their results; compactions and errors;
\* metadata and logs before and after the first timestamp.
ClaudeAlphabets ==
    {C(5, {"prompt", "duration", "array"}),
     C(3, {"assistant", "array", "prompt"}),
     C(4, {"compaction", "summary", "api_error", "prompt", "attachment"}),
     C(3, {"snapshot", "pr_link", "log", "system", "attachment", "prompt", "corrupt"})}

ClaudeOddities == {"summary_without_compaction", "use_again", "compaction_first", "corrupt",
                   "read_before_start", "never_timestamped"}

Claude == INSTANCE ClaudeParity
          WITH Adapter <- "claude-code", Transcripts <- ClaudeTranscripts,
               Alphabets <- ClaudeAlphabets, Oddities <- ClaudeOddities, MaxOdd <- ClaudeMaxOdd,
               c <- claude, s <- extract, kinds <- letters, used <- ids, odd <- oddities,
               done <- over

------------------------------------------------------------------------------
\* The side that does not move starts from one file.
MappersInit ==
    /\ Init /\ Claude!Init /\ which \in {"codex", "claude"}
    /\ which = "codex" => letters.depth = 5 /\ claude.file.kind = "root"
    /\ which = "claude" => kinds.depth = 6 /\ "user" \in kinds.set
MappersNext == \/ which = "codex" /\ Next /\ UNCHANGED <<claudeVars, which>>
               \/ which = "claude" /\ Claude!Next /\ UNCHANGED <<pvars, which>>
MappersSpec == MappersInit /\ [][MappersNext]_<<pvars, claudeVars, which>>

\* ClaudeParity's property: the canonical rows of a claude-code transcript and
\* the artifacts the checker reads from it agree.
ClaudeParityPasses == Claude!ClaudeParityPasses

\* ClaudeParity's property: rows of a claude-code transcript are running
\* exactly while somebody waits for them.
ClaudeOpsDisciplined == Claude!ClaudeOpsDisciplined
==============================================================================
