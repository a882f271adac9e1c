----------------------------- MODULE MCCoalescer -----------------------------
(***************************************************************************)
(* Small instances of Coalescer.  s1's streams refer to one parent with    *)
(* and without its session event first; s2 is a short second source that   *)
(* shares transactions with s1.                                            *)
(***************************************************************************)
EXTENDS Coalescer

CONSTANTS s1, s2, p1

Sess == [kind |-> "session", parent |-> p1]
Op   == [kind |-> "op", parent |-> p1]
Prog == [kind |-> "progress", parent |-> p1]

Shared(long, short) == [s \in Sources |-> IF s = s1 THEN long ELSE short]

\* A source that announces its parent and one that only checkpoints; a
\* source that never announces its parent, alone.
TwoStreams == {Shared(<<Sess, Prog, Op>>, <<Prog>>), Shared(<<Op, Prog, Op>>, <<>>)}

\* One source, its parent announced or not.
OneStream == {Shared(<<Sess, Op, Prog>>, <<>>), Shared(<<Op, Prog, Op>>, <<>>)}
==============================================================================
