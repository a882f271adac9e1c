--------------------------- MODULE ParityManifest ---------------------------
(***************************************************************************)
(* The parity checker's data: artifacts, the rules that make one valid,    *)
(* and the two engines that compare a manifest extracted from the source   *)
(* with one extracted from the canonical database.                         *)
(*                                                                         *)
(* An artifact keeps what the engines tell apart: its class, its native    *)
(* id (schema version, adapter, source and session are one scope here),    *)
(* its availability, hash domain, selector and bytes.  "val" stands for    *)
(* the hash, the byte count and the character count together, with NoVal   *)
(* for a missing hash; "synth" for the synthetic flag, its reason and the  *)
(* id prefix that documents it.                                            *)
(***************************************************************************)
EXTENDS Integers, Sequences, FiniteSets, SequencesExt

NoVal == <<>>             \* computed_sha256 = ""
NoId == <<>>              \* native_artifact_id = ""
EmptyVal == <<"empty">>   \* EmptySHA256 over zero bytes

\* ClassUserPrompt ... : the classes whose loss is P0 (missingSeverity).
ContentClasses ==
    {"user_prompt", "user_image", "assistant_message", "reasoning_text",
     "llm_request", "llm_response", "llm_sdk_request", "llm_sdk_response",
     "tool_request", "tool_response", "subagent_link"}

\* SelectorProofRequired: the classes whose selectors are compared as well.
SelectorClasses ==
    (ContentClasses \ {"subagent_link"})
        \cup {"log_entry", "attachment_metadata", "patch_metadata"}

\* ByteProofRequired: the availabilities that promise bytes.
ByteProof(a) ==
    a.avail \in {"available", "source_empty", "partial_source", "redacted",
                 "compacted_away"}

Key(a) == <<a.cls, a.id>>
ClasslessKey(a) == a.id

\* Artifact.Validate: identity, integrity failures of a corrupt artifact, then
\* the byte proof, then the synthetic reason.
Valid(a) ==
    /\ a.id # NoId
    /\ a.avail = "source_corrupt" => a.failures
    /\ a.avail # "source_unavailable" =>
         /\ a.dom # "none"
         /\ a.sel # "none"
         /\ ByteProof(a) => a.val # NoVal
         /\ a.avail = "source_empty" => a.val = EmptyVal
         /\ a.synth # "unknown_reason"

\* syntheticIsDocumented: a known reason and the id prefix that names it.
Documented(a) == a.synth = "documented"

\* matrix[cls] is a record [avail, doms]; a class outside the
\* matrix has no row, and a row that allows "unknown" closes nothing.
\* validateArtifactAgainstMatrix.
MatrixAllows(matrix, a) ==
    \/ a.avail \in {"source_corrupt", "unverifiable"}
    \/ /\ a.cls \in DOMAIN matrix
       /\ \/ "unknown" \in matrix[a.cls].avail
          \/ /\ a.avail \in matrix[a.cls].avail
             /\ \/ a.dom = "none"
                \/ matrix[a.cls].doms = {}
                \/ a.dom \in matrix[a.cls].doms

-----------------------------------------------------------------------------
(* Findings.                                                               *)

Finding(a, sev, code) == [sev |-> sev, code |-> code, cls |-> a.cls, id |-> a.id]

\* CodeInvalidSourceArtifact / CodeInvalidCanonicalArtifact and the like.
OnSide(what, side) ==
    CASE what = "invalid" /\ side = "source" -> "invalid_source"
      [] what = "invalid" /\ side = "canonical" -> "invalid_canonical"
      [] what = "duplicate" /\ side = "source" -> "duplicate_source"
      [] what = "duplicate" /\ side = "canonical" -> "duplicate_canonical"

\* missingSeverity.
MissingSeverity(a) ==
    IF a.avail # "source_unavailable" /\ a.cls \in ContentClasses THEN "P0" ELSE "P1"

\* recordArtifactValidation: what an artifact contributes by itself.
Validation(matrix, side, a) ==
    (IF Valid(a) THEN <<>> ELSE <<Finding(a, "P1", OnSide("invalid", side))>>)
    \o (IF MatrixAllows(matrix, a) THEN <<>>
                                   ELSE <<Finding(a, "P2", "matrix")>>)

\* compareMatchedArtifacts.
CompareMatched(s, c) ==
    IF c.avail = "unverifiable" \/ ~Valid(c)
    THEN <<Finding(s, "P1", "unverifiable")>>
    ELSE (IF c.avail = s.avail THEN <<>> ELSE <<Finding(s, "P1", "availability")>>)
         \o (IF ~ByteProof(s) THEN <<>>
             ELSE (IF c.dom = s.dom THEN <<>> ELSE <<Finding(s, "P1", "hash_domain")>>)
                  \o (CASE c.val = NoVal -> <<Finding(s, "P1", "unverifiable")>>
                        [] c.val # NoVal /\ c.val # s.val -> <<Finding(s, "P0", "hash")>>
                        [] OTHER -> <<>>)
                  \o (IF s.cls \in SelectorClasses /\ c.sel # s.sel
                      THEN <<Finding(s, "P1", "selector")>> ELSE <<>>))

\* The positions of the artifacts with a key, in a manifest.
Having(m, key) == {i \in DOMAIN m : Key(m[i]) = key}
HavingClassless(m, id) == {i \in DOMAIN m : ClasslessKey(m[i]) = id}
Duplicated(m, a) == \E i, j \in Having(m, Key(a)) : i # j

\* addDuplicateFindings / the tail of indexArtifacts: one finding per key that
\* occurs more than once, on its first artifact.
DuplicatesAt(m, side, i) ==
    IF /\ Duplicated(m, m[i])
       /\ \A j \in 1..i-1 : Key(m[j]) # Key(m[i])
    THEN <<Finding(m[i], "P1", OnSide("duplicate", side))>>
    ELSE <<>>

Duplicates(m, side) == FlattenSeq([i \in 1..Len(m) |-> DuplicatesAt(m, side, i)])

\* compareSourceArtifacts: the fate of one source artifact.
CompareSource(source, canonical, s) ==
    LET matches == Having(canonical, Key(s))
    IN  IF s.avail = "source_corrupt" THEN <<Finding(s, "P1", "source_corrupt")>>
        ELSE IF Duplicated(source, s) THEN <<>>
        ELSE IF \E i \in matches : matches = {i}
             THEN CompareMatched(s, canonical[CHOOSE i \in matches : TRUE])
        ELSE IF matches # {} THEN <<Finding(s, "P1", "duplicate_canonical")>>
        ELSE IF HavingClassless(canonical, ClasslessKey(s)) # {}
             THEN <<Finding(s, "P1", "class_mismatch")>>
        ELSE <<Finding(s, MissingSeverity(s), "missing_canonical")>>

\* compareCanonicalArtifacts: the fate of one canonical artifact.
CompareCanonical(source, canonical, c) ==
    IF \/ Duplicated(canonical, c)
       \/ Having(source, Key(c)) # {}
       \/ HavingClassless(source, ClasslessKey(c)) # {}
       \/ Documented(c)
    THEN <<>>
    ELSE <<Finding(c, "P1", IF c.synth = "no" THEN "extra_canonical"
                                              ELSE "undocumented_synthetic")>>

Empty == [state |-> "PASS", total |-> 0, details |-> <<>>]

\* A slip: a full detail list drops the finding before it can move the state.
AddKept(cap, acc, f) ==
    IF cap >= 0 /\ Len(acc.details) >= cap THEN [acc EXCEPT !.total = @ + 1]
    ELSE [state   |-> IF f.code = "source_corrupt" THEN "INCOMPLETE"
                      ELSE IF acc.state = "PASS" THEN "FAIL" ELSE acc.state,
          total   |-> acc.total + 1,
          details |-> Append(acc.details, f)]

\* findingAccumulator.add: the cap drops details, never counts; a corrupt source
\* outranks every severity.
Add(cap, acc, f) ==
    [state   |-> IF f.code = "source_corrupt" THEN "INCOMPLETE"
                 ELSE IF acc.state = "PASS" /\ f.sev \in {"P0", "P1", "P2"}
                      THEN "FAIL" ELSE acc.state,
     total   |-> acc.total + 1,
     details |-> IF cap < 0 \/ Len(acc.details) < cap
                 THEN Append(acc.details, f) ELSE acc.details]

\* The accumulator after the first findings, in the order they are met.
AfterEach(cap, findings) ==
    LET acc[n \in 0..Len(findings)] ==
            IF n = 0 THEN Empty ELSE Add(cap, acc[n - 1], findings[n])
    IN  acc
Accumulate(cap, findings) == AfterEach(cap, findings)[Len(findings)]

\* The findings of the two comparison loops, which both engines run alike.
Comparisons(source, canonical) ==
    FlattenSeq([i \in 1..Len(source) |-> CompareSource(source, canonical, source[i])])
    \o FlattenSeq([i \in 1..Len(canonical) |->
                        CompareCanonical(source, canonical, canonical[i])])

Validations(matrix, side, m) ==
    FlattenSeq([i \in 1..Len(m) |-> Validation(matrix, side, m[i])])

\* DiffContextCapped: the in-memory engine, which indexes one side after the
\* other and then compares.
DiffFindings(matrix, source, canonical) ==
    Validations(matrix, "source", source) \o Duplicates(source, "source")
    \o Validations(matrix, "canonical", canonical) \o Duplicates(canonical, "canonical")
    \o Comparisons(source, canonical)

Diff(matrix, cap, source, canonical) ==
    Accumulate(cap, DiffFindings(matrix, source, canonical))

=============================================================================
