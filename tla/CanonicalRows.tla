---------------------------- MODULE CanonicalRows ----------------------------
(***************************************************************************)
(* The canonical rows of one session and what the writer does with each    *)
(* event an adapter emits: the statements behind applySessionStarted,      *)
(* applyTurnStarted, applyOpStarted and the rest, as functions from a      *)
(* database value to the next one.  Batching, cursors and crashes are      *)
(* Coalescer's subject; here every event has been committed.               *)
(*                                                                         *)
(* A database value holds the session row, the turn rows by seq, the op    *)
(* rows of each turn in seq order, the payload references and the log      *)
(* entries, and counts the payload references that named no op.  Linkage   *)
(* to other sessions is Resolver's subject: a parent or root that is not   *)
(* the session itself stays in the stash.  Timestamps are small numbers.   *)
(***************************************************************************)
EXTENDS Integers, Sequences, SequencesExt, TLC

NoTime == 0
Running == "running"

SessionRow(kind, parent, root, ts) ==
    [kind |-> kind, stashParent |-> parent, stashRoot |-> root, st |-> Running,
     start |-> ts, end |-> NoTime, meta |-> <<>>]

EmptyDb == [ses |-> SessionRow("root", <<>>, <<>>, NoTime), started |-> FALSE,
            turns |-> <<>>, ops |-> <<>>, refs |-> <<>>, logs |-> <<>>, orphans |-> 0]

MinTime(a, b) == IF a < b THEN a ELSE b

\* applySessionStarted: insert, or repair the stub an earlier event left
\* (parent, root and kind from the event, the earlier start).
PutSession(db, kind, parent, root, ts) ==
    [db EXCEPT !.started = TRUE,
               !.ses = IF ~db.started THEN SessionRow(kind, parent, root, ts)
                       ELSE [@ EXCEPT !.kind = kind, !.stashParent = parent,
                                      !.stashRoot = root, !.start = MinTime(@, ts)]]

\* applySessionUpdated: later metadata replaces what it names.
PutSessionMeta(db, meta) == [db EXCEPT !.ses.meta = meta]

\* applySessionUpdated for one key of the extras: json_patch keeps the others.
\* requireSessionID: a session that has no row yet gets a stub starting at ts.
PatchSessionMeta(db, patch, ts) ==
    LET known == IF db.started THEN db
                 ELSE [db EXCEPT !.started = TRUE, !.ses = SessionRow("root", <<>>, <<>>, ts)]
    IN  [known EXCEPT !.ses.meta = patch @@ @]

PutSessionFinal(db, st, end) == [db EXCEPT !.ses.st = st, !.ses.end = end]

TurnRow(ts) == [st |-> Running, start |-> ts, end |-> NoTime, err |-> ""]

\* applyTurnStarted: the earliest start wins, everything else is kept.
PutTurn(db, t, ts) ==
    IF t \in DOMAIN db.turns
    THEN [db EXCEPT !.turns[t].start = MinTime(@, ts)]
    ELSE [db EXCEPT !.turns = (t :> TurnRow(ts)) @@ @, !.ops = (t :> <<>>) @@ @]

\* applyTurnFinalized: unconditional; a turn never started is inserted.
PutTurnFinal(db, t, st, err, end, ts) ==
    LET known == IF t \in DOMAIN db.turns THEN db ELSE PutTurn(db, t, ts)
    IN  [known EXCEPT !.turns[t] = [@ EXCEPT !.st = st, !.err = err, !.end = end]]

HasOp(db, t, n) == t \in DOMAIN db.ops /\ n \in DOMAIN db.ops[t]

OpRow(kind, name, ns, child, extra, ts) ==
    [kind |-> kind, name |-> name, ns |-> ns, child |-> child, extra |-> extra,
     st |-> Running, err |-> "", start |-> ts, end |-> NoTime, tok |-> 0]

\* applyOpStarted: a turn that has no row yet gets one; a re-emitted op takes
\* the new kind, name and extras, keeps a namespace the event leaves empty, its
\* child, its status and the earliest start.
PutOp(db, t, n, kind, name, ns, child, extra, ts) ==
    LET known == IF t \in DOMAIN db.turns THEN db ELSE PutTurn(db, t, ts)
    IN  IF HasOp(known, t, n)
        THEN [known EXCEPT !.ops[t][n] =
                [@ EXCEPT !.kind = kind, !.name = name,
                          !.ns = IF ns = "" THEN @ ELSE ns,
                          !.child = IF @ = <<>> THEN child ELSE @,
                          !.extra = extra, !.start = MinTime(@, ts)]]
        ELSE [known EXCEPT !.ops[t] = Append(@, OpRow(kind, name, ns, child, extra, ts))]

\* resolveFinalizedOpTiming: an end before the start, or a missing one, leaves
\* the stored end alone.
FinalEnd(op, end) == IF end = NoTime \/ end < op.start THEN op.end ELSE end

\* applyOpFinalized: status, error and tokens are overwritten every time; an
\* op without a row is an orphan finalize and changes nothing.
PutOpFinal(db, t, n, st, err, end, tok) ==
    IF ~HasOp(db, t, n) THEN db
    ELSE [db EXCEPT !.ops[t][n] = [@ EXCEPT !.st = st, !.err = err, !.tok = tok,
                                            !.end = FinalEnd(db.ops[t][n], end)]]

\* applyPayloadRef: one row per op, kind and location; a reference to an op
\* with no row is reported and skipped so that it cannot fail the batch.
PutRef(db, t, n, kind, line, ptr) ==
    LET ref == [op |-> <<t, n>>, kind |-> kind, line |-> line, ptr |-> ptr]
    IN  IF ~HasOp(db, t, n) THEN [db EXCEPT !.orphans = @ + 1]
        ELSE IF Contains(db.refs, ref) THEN db
        ELSE [db EXCEPT !.refs = Append(@, ref)]

\* applyLogEntry: the identity of an entry is all of its fields, and a
\* replayed one is ignored.  "sel" is the artifact id the adapter put in the
\* extras (<<>> for none) and "tag" the record type found there.
PutLog(db, t, n, ts, sev, msg, sel, tag) ==
    LET entry == [turn |-> t, op |-> n, ts |-> ts, sev |-> sev, msg |-> msg,
                  sel |-> sel, tag |-> tag]
    IN  IF Contains(db.logs, entry) THEN db
        ELSE [db EXCEPT !.logs = Append(@, entry)]

=============================================================================
