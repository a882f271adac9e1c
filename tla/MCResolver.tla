----------------------------- MODULE MCResolver ------------------------------
(***************************************************************************)
(* A small instance of Resolver: a root, its child and its grandchild in   *)
(* one source, and operations that name the children in different ways.    *)
(***************************************************************************)
EXTENDS Resolver

Sources == [root |-> "x", child |-> "x", grand |-> "x"]
Natives == [root |-> "n1", child |-> "n2", grand |-> "n3"]

Session(i, p, r, t, ts) ==
    [kind |-> "session", id |-> i, toParent |-> p, toRoot |-> r, tool |-> t,
     ts |-> ts, real |-> TRUE, synthetic |-> FALSE]
Op(o, i, c, t, ts) == [kind |-> "op", op |-> o, id |-> i, toChild |-> c, tool |-> t, ts |-> ts]

\* A nested lineage read in any order.  The root lands as the stub its
\* operation inserts; the grandchild only knows its parent
\* and carries the tool use id of its own parent's spawn; the child is also
\* announced, later, from its parent's side; one operation names its child,
\* the other only the tool use.
Lineage ==
    {Session("child", "n1", "n1", "t", 2),
     [Session("child", "n1", None, None, 3) EXCEPT !.synthetic = TRUE, !.real = FALSE],
     Session("grand", "n2", None, "t", 2),
     Op("o1", "root", None, "t", 2), Op("o2", "child", "n3", None, 1)}
==============================================================================
