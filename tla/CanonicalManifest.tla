-------------------------- MODULE CanonicalManifest --------------------------
(***************************************************************************)
(* The manifest the parity checker extracts from the canonical database:   *)
(* which artifacts each kind of row yields, under which native id, class   *)
(* and identity.  "Adapter" is the format of the source being checked.     *)
(*                                                                         *)
(* Selectors are functions of the native id for every artifact below, so   *)
(* one value stands for all of them.  A payload resolves to the bytes at   *)
(* its line and pointer, which <<"at", line, pointer>> names.              *)
(***************************************************************************)
EXTENDS CanonicalRows, ParityManifest

CONSTANT Adapter   \* "codex", "claude-code", ...

Artifact(cls, id, dom, val) ==
    [cls |-> cls, id |-> id, avail |-> "available", dom |-> dom, val |-> val,
     sel |-> "selector", synth |-> "no", failures |-> FALSE]

\* identityArtifact: the hash covers the identity object.
Identity(cls, id, val) == Artifact(cls, id, "identity", val)

\* codexPointerArtifactFromResolved and its like: the value at a pointer.
LineId(line, ptr) == IF ptr = "" THEN <<"line", line>> ELSE <<"line", line, ptr>>
At(line, ptr) == <<"at", line, ptr>>

-----------------------------------------------------------------------------
(* Sessions.                                                               *)

\* canonicalSessionNativeLineage: the stash speaks for a parent or root that
\* has no row, but never for a root session.
Lineage(ses) ==
    IF ses.kind = "root" THEN <<<<>>, <<>>>>
    ELSE <<ses.stashParent, ses.stashRoot>>

\* artifactFromSession.
SessionBoundary(db) ==
    Identity("session_boundary", <<"session">>,
             <<Lineage(db.ses), db.ses.kind, db.ses.st, db.ses.start, db.ses.end>>)

\* writeAdapterSessionArtifacts: metadata, when the source recorded any.
SessionMetadata(db) ==
    IF db.ses.meta = <<>> THEN <<>>
    ELSE <<Identity("session_metadata", <<"session", "metadata">>, db.ses.meta)>>

SessionArtifacts(db) ==
    IF db.started THEN <<SessionBoundary(db)>> \o SessionMetadata(db) ELSE <<>>

-----------------------------------------------------------------------------
(* Turns and operations.                                                   *)

\* artifactFromTurn.
TurnBoundary(t, row) ==
    Identity("turn_boundary", <<"turn", t>>, <<row.st, row.start, row.end>>)

\* parityMCPToolNamespace: codex compares only MCP namespaces.
ParityNamespace(ns) == IF Adapter # "codex" \/ ns = "mcp" THEN ns ELSE ""

OpBoundary(t, n, row) ==
    Identity("op_boundary", <<"op", t, n>>,
             <<row.kind, row.name, ParityNamespace(row.ns), row.st, row.start, row.end>>)

\* canonicalOpErrorSourceVisible, artifactFromOpError.
OpError(t, n, row) ==
    IF row.st = "failed" /\ row.err # "" /\ ~(Adapter = "codex" /\ row.kind = "llm")
    THEN <<Identity(IF row.kind = "llm" THEN "llm_error" ELSE "tool_error",
                    <<"op", t, n, "error">>, <<row.kind, row.err>>)>>
    ELSE <<>>

\* artifactFromSubagentLink.
SubagentLink(t, n, row) ==
    IF row.child = <<>> THEN <<>>
    ELSE <<Identity("subagent_link", <<"op", t, n, "child">>, row.child)>>

\* claudeCodeArtifactsFromOp, codexArtifactsFromOp: a compaction op carries an
\* event artifact whose details come from the op's extras.
CompactionEvent(t, n, row) ==
    IF row.kind = "compaction" /\ row.name = "compaction"
    THEN <<Identity("compaction_event", <<"op", t, n, "compaction">>,
                    <<row.extra, row.start, row.end>>)>>
    ELSE <<>>

\* artifactsFromOp.
OpArtifacts(t, n, row) ==
    <<OpBoundary(t, n, row)>> \o OpError(t, n, row) \o SubagentLink(t, n, row)
    \o CompactionEvent(t, n, row)

\* Turns are numbered from one; an op that came before any turn is in turn 0.
TurnAt(db, i) == IF 0 \in DOMAIN db.turns THEN i - 1 ELSE i
TurnCount(db) == Cardinality(DOMAIN db.turns)

TurnArtifacts(db) ==
    [i \in 1..TurnCount(db) |-> TurnBoundary(TurnAt(db, i), db.turns[TurnAt(db, i)])]

AllOpArtifacts(db) ==
    FlattenSeq([i \in 1..TurnCount(db) |->
        LET t == TurnAt(db, i)
        IN  FlattenSeq([n \in DOMAIN db.ops[t] |-> OpArtifacts(t, n, db.ops[t][n])])])

-----------------------------------------------------------------------------
(* Payload references.                                                     *)

UserInput(row) == row.kind = "internal" /\ row.name = "user_input"

\* codexUserImagePointer, claudeCodeUserImagePointer: the pointer of a block
\* rather than of the text in one.
ImagePointer(ptr) == ptr = "image"
AssistantPointer(ptr) == ptr = "text"

\* payloadRefClass.
RefClass(row, ref) ==
    CASE ref.kind = "llm_request" -> "llm_request"
      [] ref.kind = "llm_response" ->
            IF row.kind = "llm" /\ AssistantPointer(ref.ptr)
            THEN "assistant_message" ELSE "llm_response"
      [] ref.kind = "llm_reasoning" -> "reasoning_text"
      [] ref.kind = "tool_request" ->
            IF ~UserInput(row) THEN "tool_request"
            ELSE IF ImagePointer(ref.ptr) THEN "user_image" ELSE "user_prompt"
      [] ref.kind = "tool_response" -> "tool_response"
      [] ref.kind = "log" -> "log_entry"

\* payloadHashDomain: a pointer resolves to text or to JSON; a whole line is
\* text for logs and reasoning and raw bytes otherwise.
JsonPointers == {"image", "input 1", "input 2", "result 1", "result 2", "toolUseResult"}
RefDomain(ref) ==
    CASE ref.ptr \in JsonPointers -> "json"
      [] ref.ptr \notin JsonPointers \cup {""} -> "text"
      [] ref.ptr = "" -> IF ref.kind \in {"llm_reasoning", "log"} THEN "text" ELSE "raw"

\* artifactFromPayloadRefResolved.
RefArtifact(db, ref) ==
    Artifact(RefClass(db.ops[ref.op[1]][ref.op[2]], ref), LineId(ref.line, ref.ptr),
             RefDomain(ref), At(ref.line, ref.ptr))

-----------------------------------------------------------------------------
(* Log entries.                                                            *)

\* logNativeArtifactID over the scope of the entry.
LogId(t, n, ts, sev, msg) == <<"log", t, n, ts, sev, msg>>

\* The bytes of an entry are its message; "message" is one that was copied
\* from the record the entry selects.
LogText(l) == IF l.msg = "message" THEN At(l.sel[2], l.sel[3]) ELSE <<"message", l.msg>>

\* attachmentMetadataArtifactFromLogEntry.
AttachmentMetadata(l) == Identity("attachment_metadata", l.sel, <<"turn", l.turn>>)

\* artifactFromLogEntry: the selector an adapter stored overrides the id, and
\* one stored for an attachment makes the entry an attachment artifact.
LogArtifact(l) ==
    CASE l.tag = "attachment" -> AttachmentMetadata(l)
      [] l.tag # "attachment" /\ l.sel # <<>> -> Artifact("log_entry", l.sel, "text", LogText(l))
      [] OTHER -> Artifact("log_entry", LogId(l.turn, l.op, l.ts, l.sev, l.msg), "text", LogText(l))

\* codexSystemEventTypeFromMessage, claudeCodeLoggedSystemSubtype.
SystemMessages == {"marker"}
IsSystemOp(l) == \/ Adapter = "codex" /\ l.msg \in SystemMessages
                 \/ Adapter = "claude-code" /\ l.tag = "system"

\* artifactFromCodexSystemLogEntry, artifactFromClaudeCodeSystemLogEntry.
SystemOp(l) ==
    Identity("system_op", IF l.sel # <<>> THEN l.sel ELSE LogId(l.turn, l.op, l.ts, l.sev, l.msg),
             <<l.turn, l.msg, l.sev, l.ts>>)

\* writeLogEntryRowArtifacts: for claude-code a system entry is the operation
\* instead of a log, for codex it is both.
LogArtifacts(l) ==
    (IF Adapter = "claude-code" /\ IsSystemOp(l) THEN <<>> ELSE <<LogArtifact(l)>>)
    \o (IF IsSystemOp(l) THEN <<SystemOp(l)>> ELSE <<>>)

-----------------------------------------------------------------------------
\* extractCanonicalToWriter: sessions, turns, operations, payloads, logs.
Manifest(db) ==
    SessionArtifacts(db) \o TurnArtifacts(db) \o AllOpArtifacts(db)
    \o [i \in DOMAIN db.refs |-> RefArtifact(db, db.refs[i])]
    \o FlattenSeq([i \in DOMAIN db.logs |-> LogArtifacts(db.logs[i])])

=============================================================================
