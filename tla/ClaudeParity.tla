---------------------------- MODULE ClaudeParity ----------------------------
(***************************************************************************)
(* One claude-code transcript read by both interpreters: the adapter's     *)
(* mapper, whose events become canonical rows, and the parity checker's    *)
(* source extractor.  While the transcript grows the adapter may read it   *)
(* to its present end any number of times; after the last record the       *)
(* checker compares the two manifests.                                     *)
(*                                                                         *)
(* As in CodexParity, the shapes on which the two are known to part are    *)
(* collected in "odd" as they occur.                                       *)
(***************************************************************************)
EXTENDS ClaudeMapper, ClaudeSource

CONSTANTS Transcripts,  \* [kind, parent, root, linked]: the files
          Alphabets,    \* [set, depth]: the record kinds of a transcript and its length
          Oddities,     \* the shapes a transcript of this run may show
          MaxOdd        \* shapes one transcript may combine

VARIABLES c,      \* the adapter's mapper, with the canonical rows
          s,      \* the parity source extractor
          kinds,  \* the alphabet of this transcript
          used,   \* the tool-use ids the transcript has shown
          odd,    \* the shapes met so far
          done    \* the end of the file was processed

cvars == <<c, s, kinds, used, odd, done>>

IdentityClasses ==
    {"session_boundary", "turn_boundary", "op_boundary", "llm_error", "tool_error",
     "subagent_link", "system_op", "compaction_event", "session_metadata", "attachment_metadata"}

Cell(avail, doms) == [avail |-> avail, doms |-> doms]

\* claudeCodeMatrixRows: what the checker accepts from a claude-code source.
ClaudeMatrix ==
    [cls \in IdentityClasses |-> Cell({"available"}, {"identity"})]
    @@ [cls \in {"user_prompt", "assistant_message", "reasoning_text", "log_entry"} |->
            Cell({"available", "source_empty"}, {"text"})]
    @@ ("user_image" :> Cell({"available"}, {"json"}))
    @@ [cls \in {"tool_request", "tool_response"} |->
            Cell({"available", "source_empty"}, {"json", "text"})]
    @@ [cls \in {"llm_request", "llm_response"} |-> Cell({"source_unavailable"}, {})]

Init == /\ kinds \in Alphabets
        /\ \E file \in Transcripts : c = NewClaude(file) /\ s = NewClaudeSource(file)
        /\ used = {} /\ odd = {}
        /\ done = FALSE

-----------------------------------------------------------------------------
(* Reading a record.                                                       *)

C1 == Timestamped(c)
S1 == SourceTimestamped(s)

Reads(kind) == ~done /\ kind \in kinds.set /\ c.line < kinds.depth

Meets(name, is) ==
    /\ is => name \in Oddities
    /\ odd' = IF is THEN odd \cup {name} ELSE odd
    /\ Cardinality(odd') <= MaxOdd

Become(mapper, source) ==
    /\ c' = mapper
    /\ s' = source
    /\ UNCHANGED <<kinds, done>>

Plain(kind) == Reads(kind) /\ UNCHANGED <<used, odd>>

UseIds == {<<"use", k>> : k \in 1..2}

\* The timestamp-less snapshots: titles, modes, prompts, file history.
ReadSnapshot ==
    /\ Plain("snapshot")
    /\ \E key \in {"title", "mode"}, v \in {"a", "b"} :
          Become(MapSnapshot(c, key :> v), SourceSnapshot(s, key :> v))

ReadMetaUser == /\ Plain("log")
                /\ Become(LogRecord(C1, "DBG", "meta-user"), SourceLog(S1, "meta-user"))

ReadPrompt == /\ Plain("prompt")
              /\ Become(MapUserPrompt(C1), SourceUserPrompt(S1))

\* The extractor expects a summary's text as a log payload in any case.
ReadCompactSummary ==
    /\ Reads("summary")
    /\ Meets("summary_without_compaction", c.compaction = NoOwner)
    /\ UNCHANGED used
    /\ Become(MapCompactSummary(C1), SourceCompactSummary(S1))

Block(b, id, bad) == [b |-> b, id |-> id, bad |-> bad]
Text == Block("text", <<>>, FALSE)
Result(k, bad) == Block("result", <<"use", k>>, bad)
ArrayBlocks == {<<Text>>, <<Block("image", <<>>, FALSE), Text>>}
               \cup {<<Result(k, bad)>> : k \in 1..2, bad \in BOOLEAN}
               \cup {<<Result(1, FALSE), Text>>}
               \cup {<<Result(k, FALSE), Result(2, TRUE)>> : k \in 1..2}

ReadUserArray ==
    /\ Plain("array")
    /\ \E blocks \in ArrayBlocks, echo \in BOOLEAN :
          Become(MapUserArray(C1, blocks, echo), SourceUserArray(S1, blocks, echo))

\* A tool use with an id of its own, or a blank one; an Agent and a tool at once.
Use(id, agent) == [id |-> id, agent |-> agent]
Uses == {<<>>} \cup {<<Use(id, agent)>> : id \in UseIds \cup {<<>>}, agent \in BOOLEAN}
        \cup {<<Use(id, TRUE), Use(<<"use", 2>>, FALSE)>> : id \in UseIds \cup {<<>>}}

\* The extractor keeps open tools by id alone while the mapper's rows stay: a
\* second use of an id hides the first.
Ids(uses) == {uses[i].id : i \in DOMAIN uses}
Repeats(uses) == Ids(uses) \cap used # {} \/ Cardinality(Ids(uses)) < Len(uses)

ReadAssistant ==
    /\ Reads("assistant")
    /\ \E says \in {<<FALSE, FALSE>>, <<TRUE, FALSE>>, <<TRUE, TRUE>>}, uses \in Uses :
          /\ Meets("use_again", Repeats(uses))
          /\ used' = used \cup Ids(uses)
          /\ Become(MapAssistant(C1, says[1], says[2], uses),
                    SourceAssistant(S1, says[1], says[2], uses))

ReadSynthetic == /\ Plain("log")
                 /\ Become(LogRecord(C1, "INF", "synthetic-assistant"),
                           SourceLog(S1, "synthetic-assistant"))

\* Before any turn the mapper uses turn 0 and the extractor turn 1.
ReadCompactBoundary ==
    /\ Reads("compaction")
    /\ \E duration \in {0, 1} :
          /\ Meets("compaction_first", c.turn = 0)
          /\ Become(MapCompaction(C1, duration), SourceCompactBoundary(S1, duration))
    /\ UNCHANGED used

ReadTurnDuration == /\ Plain("duration")
                    /\ Become(MapTurnDuration(C1), SourceTurnDuration(S1))

ReadAPIError == /\ Plain("api_error")
                /\ Become(MapAPIError(C1), SourceAPIError(S1))

ReadSystem ==
    /\ Plain("system")
    /\ \E l \in {<<"DBG", "stop_hook_summary">>, <<"INF", "system:informational">>} :
          Become(LogSystem(C1, l[1], l[2]), SourceSystemOp(S1, l[1], l[2]))

ReadAttachment == /\ Plain("attachment")
                  /\ Become(LogAttachment(C1), SourceAttachment(S1))

ReadQueueOperation == /\ Plain("log")
                      /\ Become(LogRecord(C1, "INF", "queue-operation"),
                                SourceLog(S1, "queue-operation"))

ReadPRLink == /\ Plain("pr_link")
              /\ \E link \in {"one", "two"} : Become(MapPRLink(C1, link), SourcePRLink(S1, link))

\* A line that does not decode: the adapter reports it and goes on, the
\* extractor records a corrupt artifact.
ReadCorruptLine ==
    /\ Reads("corrupt")
    /\ Meets("corrupt", TRUE)
    /\ UNCHANGED used
    /\ Become([c EXCEPT !.line = @ + 1],
              LET next == [s EXCEPT !.line = @ + 1]
              IN  Write(next, [Artifact("log_entry", <<"line", next.line>>, "raw", <<"raw">>)
                               EXCEPT !.avail = "source_corrupt", !.failures = TRUE]))

-----------------------------------------------------------------------------
(* The adapter's reads of the growing file, and the end.                   *)

\* streamLines reaches the present end and flushes a session start that no
\* timestamp has triggered yet; without one pending there is nothing to flush.
AdapterCatchesUp ==
    /\ ~done /\ ~c.started /\ c.db # ReadToEnd(c).db
    /\ Meets("read_before_start", TRUE)
    /\ UNCHANGED used
    /\ Become(ReadToEnd(c), s)

\* Scan pairs the open Agent ops with the children that are complete.
EndOfFile ==
    /\ ~done
    /\ \E completed \in SUBSET ({t.child : t \in Range(s.tools)} \ {<<>>}) :
          /\ Meets("never_timestamped", ~s.started)
          /\ c' = FinalizeAgents(ReadToEnd(c), completed, c.ts + 1)
          /\ s' = SourceFinalize(s, completed, s.ts + 1)
    /\ done' = TRUE
    /\ UNCHANGED <<kinds, used>>

Next == \/ ReadSnapshot \/ ReadMetaUser \/ ReadPrompt \/ ReadCompactSummary \/ ReadUserArray
        \/ ReadAssistant \/ ReadSynthetic \/ ReadCompactBoundary \/ ReadTurnDuration
        \/ ReadAPIError \/ ReadSystem \/ ReadAttachment \/ ReadQueueOperation \/ ReadPRLink
        \/ ReadCorruptLine \/ AdapterCatchesUp \/ EndOfFile

Spec == Init /\ [][Next]_cvars

-----------------------------------------------------------------------------
(* Properties.                                                             *)

Verdict == Diff(ClaudeMatrix, 0, s.out, Manifest(c.db)).state

\* Two interpreters, one story: for every transcript without a known oddity
\* the canonical rows and the artifacts the checker reads from the file agree
\* in every boundary, status, time, payload, link and log; and a transcript
\* with a line that does not decode is never reported as passing.
ClaudeParityPasses ==
    done => /\ odd = {} => Verdict = "PASS"
            /\ "corrupt" \in odd => Verdict # "PASS"

\* Whatever the transcript holds: exactly the turns before the current one, and
\* the current one once it was finalized, are completed; a tool the mapper waits
\* for is a running row; no payload reference names an op without a row; and
\* unless an id was used twice, an Agent op waits for its child or was answered,
\* never both, and a row is running only while somebody still waits for it.
ClaudeOpsDisciplined ==
    LET rows == c.db.ops
        awaited == {<<t.turn, t.op>> : t \in Range(c.tools)}
        blank == {<<t.turn, t.op>> : t \in {s.tools[id] : id \in {<<>>} \cap DOMAIN s.tools}}
    IN  /\ \A t \in DOMAIN c.db.turns \ {0} :
              c.db.turns[t].st = "completed" <=> t < c.turn \/ c.fin
        /\ ~done => \A o \in awaited : rows[o[1]][o[2]].st = "running"
        /\ c.db.orphans = 0
        /\ "use_again" \notin odd =>
              /\ DOMAIN c.agents \cap c.resolved = {}
              /\ \A t \in DOMAIN rows : \A n \in DOMAIN rows[t] :
                    rows[t][n].st = "running" => <<t, n>> \in awaited \cup blank

=============================================================================
