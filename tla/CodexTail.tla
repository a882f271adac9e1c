------------------------------ MODULE CodexTail ------------------------------
(***************************************************************************)
(* How the codex adapter reads rollout files that grow under it: the scan  *)
(* at start, the catch-up that closes the gap between scan and tail, the   *)
(* watcher with its debounced flushes, the cursor that makes a restart     *)
(* resume, and the decision about a turn left open at the end of a file.   *)
(*                                                                         *)
(* A rollout is a sequence of lines plus, possibly, an unfinished one.     *)
(* Sizes and offsets count half lines, so a complete line is 2 and an      *)
(* unfinished one 1.  What a line does is reduced to its effect on turns:  *)
(* "meta" is the session header, "start" announces a turn (task_started),  *)
(* "ctx" opens one without announcing it (turn_context alone), "done" ends *)
(* the open one, and "quiet" is a line that yields no event.  CodexMapper  *)
(* has the whole mapping.                                                  *)
(***************************************************************************)
EXTENDS Integers, FiniteSets, Sequences, SequencesExt

CONSTANTS Files,      \* the rollouts
          Days,       \* the shard directories
          DayOf,      \* the directory of each rollout
          ChanCap,    \* events the channel holds before its reader must wait
          MaxLines,   \* lines written to a rollout, over all its generations
          MaxFaults,  \* truncations, lost notifications, failed watches, failed reads
          MaxCrashes  \* restarts of the daemon

ASSUME TailAssumption == /\ DayOf \in [Files -> Days]
                         /\ Files \cap Days = {}
                         /\ MaxLines \in Nat

VARIABLES disk,     \* the rollouts: lines, unfinished line, mtime an hour old, generation
          days,     \* the directories that exist
          phase,    \* "down", "scan", "catchup", "loop" (idle) or "flush"
          todo,     \* rollouts the current pass has still to read
          opened,   \* the rollout being read, with its size and age when opened
          cur,      \* the cursor in memory
          watched,  \* directories the watcher watches
          pending,  \* notifications not yet received: rollouts and directories
          dirty,    \* rollouts waiting for the debounce timer
          chan,     \* events sent and not committed yet
          db,       \* what is committed: lines seen, cursor
          lost,     \* rollouts a fault made the tail forget
          spliced,  \* rollouts cut during a read, or regrown before the next
          faults, crashes

tvars == <<disk, days, phase, todo, opened, cur, watched, pending, dirty, chan, db, lost,
           spliced, faults, crashes>>

tail    == <<phase, todo, opened, cur, watched, dirty>>
ghosts  == <<lost, spliced>>
world   == <<disk, days>>
budget  == <<faults, crashes>>

Kinds == {"meta", "start", "ctx", "done", "quiet"}

NoFile == <<>>
NewFileCursor == [off |-> 0, size |-> 0, eof |-> 0, mt |-> 0]
NewCursor == [f \in Files |-> NewFileCursor]

Size(d) == 2 * Len(d.lines) + (IF d.part THEN 1 ELSE 0)
Exists(f) == DayOf[f] \in days /\ Size(disk[f]) > 0
Discovered == {f \in Files : Exists(f)}

Init == /\ disk = [f \in Files |-> [lines |-> <<>>, part |-> FALSE, stale |-> FALSE, gen |-> 1,
                                written |-> 0]]
        /\ days = {}
        /\ phase = "down"
        /\ todo = {} /\ opened = NoFile /\ cur = NewCursor
        /\ watched = {} /\ pending = {} /\ dirty = {} /\ chan = <<>>
        /\ db = [seen |-> {}, cur |-> NewCursor]
        /\ lost = {} /\ spliced = {} /\ faults = 0 /\ crashes = 0

-----------------------------------------------------------------------------
(* The codex program writes.                                               *)

\* A send waits while the channel is full; what one read sends goes as a whole.  The other
\* steps wait too, all but the stops: they do not depend on how much of it is committed, and
\* a stop, which does, forgets what they changed or leaves them to happen after it.
Room == Len(chan) < ChanCap

Tailing == phase \in {"catchup", "loop", "flush"}

\* fsnotify: a change in a watched directory is announced; announcements of the
\* same file coalesce.
Notify(x, dir) == pending' = IF Tailing /\ dir \in watched THEN pending \cup {x} ELSE pending

Changed(f, new) ==
    /\ Room
    /\ disk' = [disk EXCEPT ![f] = new]
    /\ Notify(f, DayOf[f])
    /\ UNCHANGED <<days, tail, chan, db, lost, spliced, crashes>>

\* The root is watched as long as the tail runs.
MakeDay(d) ==
    /\ Room /\ d \notin days
    /\ days' = days \cup {d}
    /\ pending' = IF Tailing THEN pending \cup {d} ELSE pending
    /\ UNCHANGED <<disk, tail, chan, db, ghosts, budget>>

WriteLine(f, kind) ==
    /\ DayOf[f] \in days /\ disk[f].written < MaxLines
    /\ kind = "meta" => disk[f].lines = <<>>
    /\ disk[f].lines = <<>> => kind \in {"meta", "quiet"}
    /\ Changed(f, [disk[f] EXCEPT !.lines = Append(@, kind), !.part = FALSE, !.stale = FALSE,
                                  !.written = @ + 1])
    /\ UNCHANGED faults

WritePart(f) ==
    /\ DayOf[f] \in days /\ disk[f].written < MaxLines /\ ~disk[f].part
    /\ Changed(f, [disk[f] EXCEPT !.part = TRUE, !.stale = FALSE])
    /\ UNCHANGED faults

Truncate(f) ==
    /\ faults < MaxFaults /\ Size(disk[f]) > 0
    /\ faults' = faults + 1
    /\ Changed(f, [disk[f] EXCEPT !.lines = <<>>, !.part = FALSE, !.stale = FALSE, !.gen = @ + 1])

\* An hour passes without a write.
GoStale(f) ==
    /\ Room /\ Exists(f) /\ ~disk[f].stale
    /\ disk' = [disk EXCEPT ![f].stale = TRUE]
    /\ UNCHANGED <<days, tail, pending, chan, db, ghosts, budget>>

-----------------------------------------------------------------------------
(* Reading one rollout.                                                    *)

\* The line that opened the turn still open after n lines, 0 for none.
OpenTurn(lines, n) ==
    LET last == SelectLastInSubSeq(lines, 1, n, LAMBDA k : k \in {"start", "ctx", "done"})
    IN  IF last = 0 \/ lines[last] = "done" THEN 0 ELSE last

Item(tag, f, gen, n) == [tag |-> tag, file |-> f, gen |-> gen, line |-> n]

Lines(items) == {<<x.file, x.gen, x.line>> : x \in {y \in Range(items) : y.tag = "line"}}
Delivered == db.seen \cup Lines(chan)

\* streamLines: every line is replayed into a new mapper, those that start at
\* or after emitFrom are sent.  What was sent before is an upsert that changes
\* nothing, and is not put on the channel again.
Emitted(d, emitFrom) == {n \in DOMAIN d.lines : 2 * (n - 1) >= emitFrom /\ d.lines[n] # "quiet"}
Fresh(f, d, emitFrom, n) == n \in Emitted(d, emitFrom) /\ <<f, d.gen, n>> \notin Delivered
SentUpTo(f, d, emitFrom) ==
    LET up[n \in 0 .. Len(d.lines)] ==
            IF n = 0 THEN <<>>
            ELSE IF Fresh(f, d, emitFrom, n) THEN Append(up[n - 1], Item("line", f, d.gen, n))
            ELSE up[n - 1]
    IN  up
Sent(f, d, emitFrom) == SentUpTo(f, d, emitFrom)[Len(d.lines)]

\* A slip: an unfinished line counts as read.
AdvancedPastPart(d) == Size(d)

\* readOneLine holds an unfinished line back.
Advanced(d) == 2 * Len(d.lines)

\* resetTruncatedRolloutCursor.
AfterTruncation(fc, size) == IF fc.size > 0 /\ size < fc.size THEN NewFileCursor ELSE fc

\* A slip: the decision is taken at every end of file.
EofModeForgetful(fc, size, advanced, emitted) == IF advanced < size THEN "none" ELSE "emit"

\* eofMode, eofAlreadyFinalized, eofGrewWithoutContent.
EofMode(fc, size, advanced, emitted) ==
    CASE advanced < size -> "none"
      [] advanced >= size /\ fc.eof > 0 /\ (fc.eof = size \/ (size > fc.eof /\ ~emitted)) -> "suppress"
      [] OTHER -> "emit"

\* finalizeAtEOF: an unannounced turn completes, an announced one fails once the
\* file is an hour old, and stays open until then.
Decides(d, turn, stale) == turn = 0 \/ d.lines[turn] = "ctx" \/ stale
EofItems(f, d, stale) ==
    LET turn == OpenTurn(d.lines, Len(d.lines))
    IN  IF turn = 0 \/ ~Decides(d, turn, stale) THEN <<>>
        ELSE <<Item("eof", f, d.gen, turn)>>

\* finalizeRolloutAtEOF, advanceSuppressedEOFMarker: the marker after the read.
EofMarker(fc, mode, d, size, stale) ==
    CASE mode = "none" -> fc.eof
      [] mode = "suppress" -> size
      [] mode = "emit" -> IF Decides(d, OpenTurn(d.lines, Len(d.lines)), stale) THEN size ELSE fc.eof

HasMeta(d) == Len(d.lines) > 0 /\ d.lines[1] = "meta"

\* skipUnchangedEOFFinalizedRollout (scan) and the stat-skip of the tail.
ScanSkips(f) == /\ cur[f].off # 0 /\ cur[f].size # 0 /\ cur[f].eof # 0
                /\ {cur[f].off, cur[f].size, cur[f].eof} = {Size(disk[f])}
                /\ cur[f].mt = disk[f].gen
TailSkips(f) == /\ cur[f].off > 0 /\ cur[f].size > 0
                /\ cur[f].size = Size(disk[f]) /\ cur[f].off >= Size(disk[f])

Reading == phase \in {"scan", "catchup", "flush"}

Skip(f) ==
    /\ Reading /\ opened = NoFile /\ f \in todo /\ Room
    /\ IF phase = "scan" THEN ScanSkips(f) ELSE TailSkips(f)
    /\ todo' = todo \ {f}
    /\ spliced' = IF cur[f].mt # disk[f].gen THEN spliced \cup {f} ELSE spliced
    /\ UNCHANGED <<world, phase, opened, cur, watched, dirty, pending, chan, db, lost, budget>>

\* openRolloutForRead: the size and the age are those of this moment; the file
\* may grow before its end is reached.
Open(f) ==
    /\ Reading /\ opened = NoFile /\ f \in todo
    /\ Room
    /\ IF phase = "scan" THEN ~ScanSkips(f) ELSE ~TailSkips(f)
    /\ opened' = [file |-> f, size |-> Size(disk[f]), stale |-> disk[f].stale, gen |-> disk[f].gen]
    /\ UNCHANGED <<world, phase, todo, cur, watched, dirty, pending, chan, db, ghosts, budget>>

\* scanProgress.record decides by count and by clock; the tail reports once per
\* flush.  A report that repeats the one before it changes nothing.
Progress(c) == [tag |-> "progress", cur |-> c]
LastReport == LET i == SelectLastInSeq(chan, LAMBDA x : x.tag = "progress")
              IN  IF i = 0 THEN db.cur ELSE chan[i].cur
Report(items, c) == IF c = LastReport THEN items ELSE Append(items, Progress(c))

\* readRollout: the cursor, the lines and the decision at the end of the file.
\* A file that does not begin with a session_meta is left where it is.
Read ==
    /\ opened # NoFile
    /\ LET f     == opened.file
           d     == disk[f]
           fc    == AfterTruncation(cur[f], opened.size)
           from  == IF fc.off > opened.size THEN opened.size ELSE fc.off
           lines == Sent(f, d, from)
           adv   == Advanced(d)
           mode  == EofMode(fc, opened.size, adv, Emitted(d, from) # {})
           next  == [off |-> adv, size |-> opened.size, mt |-> opened.gen,
                     eof |-> EofMarker(fc, mode, d, opened.size, opened.stale)]
           sent  == lines \o (IF mode = "emit" THEN EofItems(f, d, opened.stale) ELSE <<>>)
       IN  /\ cur' = IF HasMeta(d) THEN [cur EXCEPT ![f] = next] ELSE cur
           /\ \E report \in IF phase = "scan" THEN BOOLEAN ELSE {FALSE} :
                 LET all == IF HasMeta(d) THEN chan \o sent ELSE chan
                 IN  chan' = IF report THEN Report(all, cur') ELSE all
           /\ spliced' = IF opened.gen # d.gen \/ (fc.off > 0 /\ fc.mt # d.gen)
                         THEN spliced \cup {f} ELSE spliced
           /\ todo' = todo \ {f}
           /\ lost' = lost \ {f}
    /\ opened' = NoFile
    /\ UNCHANGED <<world, phase, watched, dirty, pending, db, budget>>

\* An open, stat, seek or read error is reported and the pass goes on without
\* the file; nothing puts it back on the list.
ReadFails(f) ==
    /\ faults < MaxFaults /\ Reading /\ f \in todo /\ opened = NoFile /\ Room
    /\ faults' = faults + 1
    /\ todo' = todo \ {f}
    /\ lost' = lost \cup {f}
    /\ UNCHANGED <<world, phase, opened, cur, watched, dirty, pending, chan, db, spliced, crashes>>

-----------------------------------------------------------------------------
(* Scan, catch-up and the tail loop.                                       *)

\* Adapter.Scan from the stored cursor.
StartScan ==
    /\ phase = "down" /\ Room
    /\ phase' = "scan" /\ cur' = db.cur /\ todo' = Discovered
    /\ UNCHANGED <<world, opened, watched, pending, dirty, chan, db, ghosts, budget>>

\* addWatchTree over the directories that exist: watcher.Add may fail for some
\* of them.  A file in a directory that was missing its watch is not marked.
AddWatches(dirs) ==
    \E failing \in SUBSET (dirs \ watched) :
       /\ faults' = faults + Cardinality(failing)
       /\ faults' <= MaxFaults
       /\ watched' = watched \cup (dirs \ failing)

Forgotten(old, new) == {f \in Files : DayOf[f] \in new \ old /\ DayOf[f] \notin pending}

\* catchUpFromCursor reads every rollout discovered after the watches are set.
CatchUp == Discovered

\* End of the scan: report, then Adapter.Tail on the same cursor.  The watches
\* come first, the catch-up reads whatever was written before them.
EndScan ==
    /\ phase = "scan" /\ todo = {} /\ opened = NoFile /\ Room
    /\ chan' = Report(chan, cur)
    /\ AddWatches(days)
    /\ phase' = "catchup" /\ todo' = CatchUp /\ pending' = {} /\ dirty' = {}
    /\ UNCHANGED <<world, opened, cur, db, ghosts, crashes>>

\* catchUpFromCursor and flushDirty end with a report.
EndFlush ==
    /\ phase \in {"catchup", "flush"} /\ todo = {} /\ opened = NoFile /\ Room
    /\ chan' = Report(chan, cur)
    /\ phase' = "loop"
    /\ UNCHANGED <<world, todo, opened, cur, watched, dirty, pending, db, ghosts, budget>>

\* handleEvent for a rollout.
TakeFile(f) ==
    /\ phase = "loop" /\ f \in pending /\ Room
    /\ pending' = pending \ {f}
    /\ dirty' = dirty \cup {f}
    /\ UNCHANGED <<world, phase, todo, opened, cur, watched, chan, db, ghosts, budget>>

\* A slip: a new directory is watched, what it already holds is left.
ExistingIgnored(d) == dirty

\* markExistingDirty: the rollouts already in a new directory.
MarkExisting(d) == dirty \cup {f \in Discovered : DayOf[f] = d}

\* handleCreatedDirectory.
TakeDay(d) ==
    /\ phase = "loop" /\ d \in pending /\ Room
    /\ AddWatches({d})
    /\ pending' = pending \ {d}
    /\ dirty' = MarkExisting(d)
    /\ UNCHANGED <<world, phase, todo, opened, cur, chan, db, ghosts, crashes>>

\* The debounce timer, or a dirty set at its limit.
Flush ==
    /\ phase = "loop" /\ dirty # {} /\ Room
    /\ phase' = "flush" /\ todo' = dirty /\ dirty' = {}
    /\ UNCHANGED <<world, opened, cur, watched, pending, chan, db, ghosts, budget>>

\* onTick.
Tick ==
    /\ phase = "loop" /\ Room
    /\ AddWatches(days)
    /\ chan' = Report(chan, cur)
    /\ lost' = lost \cup Forgotten(watched, watched')
    /\ UNCHANGED <<world, phase, todo, opened, cur, dirty, pending, db, spliced, crashes>>

\* The kernel's queue overflows: the watcher reports an error that is logged.
Overflow ==
    /\ faults < MaxFaults /\ phase = "loop" /\ pending # {} /\ Room
    /\ faults' = faults + 1
    /\ pending' = {}
    /\ lost' = lost \cup {f \in Files : f \in pending \/ DayOf[f] \in pending}
    /\ UNCHANGED <<world, tail, chan, db, spliced, crashes>>

\* The supervisor cancels the tail and starts another, on the cursor reached so
\* far: the map of file cursors is shared with the scan cursor of the adapter.
RestartTail ==
    /\ Tailing /\ crashes < MaxCrashes
    /\ crashes' = crashes + 1
    /\ phase' = "catchup" /\ todo' = CatchUp /\ pending' = {} /\ dirty' = {}
    /\ watched' = days /\ opened' = NoFile
    /\ UNCHANGED <<world, cur, chan, db, ghosts, faults>>

Crash ==
    /\ phase # "down" /\ crashes < MaxCrashes
    /\ crashes' = crashes + 1
    /\ phase' = "down" /\ todo' = {} /\ opened' = NoFile /\ cur' = NewCursor
    /\ watched' = {} /\ pending' = {} /\ dirty' = {} /\ chan' = <<>>
    /\ UNCHANGED <<world, db, lost, spliced, faults>>

-----------------------------------------------------------------------------
(* The ingester commits in order.                                          *)

Commit ==
    /\ chan # <<>>
    /\ LET x == Head(chan)
       IN  db' = CASE x.tag = "progress" -> [db EXCEPT !.cur = x.cur]
                   [] x.tag = "line" -> [db EXCEPT !.seen = @ \cup {<<x.file, x.gen, x.line>>}]
                   [] x.tag = "eof" -> db
    /\ chan' = Tail(chan)
    /\ UNCHANGED <<world, tail, pending, ghosts, budget>>

-----------------------------------------------------------------------------
Next == \/ \E d \in Days : MakeDay(d) \/ TakeDay(d)
        \/ \E f \in Files : \/ \E k \in Kinds : WriteLine(f, k)
                            \/ WritePart(f) \/ Truncate(f) \/ GoStale(f)
                            \/ Skip(f) \/ Open(f) \/ ReadFails(f) \/ TakeFile(f)
        \/ Read \/ StartScan \/ EndScan \/ EndFlush \/ Flush \/ Tick \/ Overflow
        \/ RestartTail \/ Crash \/ Commit

Spec == Init /\ [][Next]_tvars

-----------------------------------------------------------------------------
(* Properties.                                                             *)

\* No cursor claims a line that was not delivered: every line below the offset
\* in memory was sent or committed, and every line below the stored offset is
\* committed, whatever was read while the file grew, failed or crashed.  (A file
\* cut and regrown past its old size between two reads is not recognised.)
Covered(c, delivered) ==
    \A f \in Files \ spliced : c[f].mt = disk[f].gen =>
        \A n \in DOMAIN disk[f].lines :
           2 * n <= c[f].off /\ disk[f].lines[n] # "quiet" => <<f, disk[f].gen, n>> \in delivered
CursorsAreHonest == Covered(cur, Delivered) /\ Covered(db.cur, db.seen)

\* A quiet tail forgets nothing: complete lines beyond the cursor are announced
\* or waiting for the timer.  Only a fault makes the tail forget a rollout: an
\* overflowing queue, a directory that could not be watched, a failed read.
NothingForgotten ==
    phase = "loop" =>
        \A f \in Files \ lost :
           HasMeta(disk[f]) /\ cur[f].off < 2 * Len(disk[f].lines) =>
              \/ f \in dirty \cup pending
              \/ DayOf[f] \in pending \/ DayOf[f] \notin watched

\* The decision about the end of a file is durable: once the marker is stored, no
\* later read decides the fate of the same turn again unless there is content
\* after the marker, whether the file is met unchanged, longer or after a restart.
EofNotRepeated ==
    [][\A i \in DOMAIN chan' \ DOMAIN chan :
          LET x == chan'[i]
              c == db.cur[x.file]
              lines == disk[x.file].lines
          IN  x.tag = "eof" /\ x.file \notin spliced' /\ c.mt = x.gen /\ c.eof >= 2 * x.line =>
                 \E n \in DOMAIN lines : 2 * n > c.eof /\ lines[n] # "quiet"]_chan

=============================================================================
