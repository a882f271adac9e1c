---------------------------- MODULE MCParityDiff ----------------------------
(* Artifact shapes for the diff engines: every branch of the comparison.   *)
EXTENDS ParityDiff

MCMatrix == [op_boundary |-> [avail |-> {"available", "source_empty"}, doms |-> {"identity"}],
             user_prompt |-> [avail |-> {"available", "source_unavailable"}, doms |-> {"text"}],
             log_entry   |-> [avail |-> {"unknown"}, doms |-> {}]]

Art(cls, id, avail, dom, val, sel, synth, failures) ==
    [cls |-> cls, id |-> <<id>>, avail |-> avail, dom |-> dom, val |-> val, sel |-> sel,
     synth |-> synth, failures |-> failures]

MCShapes ==
    {Art("op_boundary", 1, "available", "identity", <<"a">>, "f", "no", FALSE),
     Art("op_boundary", 1, "available", "identity", <<"b">>, "f", "no", FALSE),
     Art("op_boundary", 1, "source_empty", "identity", EmptyVal, "f", "no", FALSE),
     Art("user_prompt", 1, "available", "text", <<"a">>, "f", "no", FALSE),
     Art("user_prompt", 1, "source_unavailable", "none", NoVal, "none", "no", FALSE),
     Art("user_prompt", 1, "unverifiable", "text", NoVal, "f", "no", FALSE),
     Art("user_prompt", 1, "available", "text", <<"a">>, "g", "no", FALSE),
     Art("log_entry", 2, "source_corrupt", "text", <<"a">>, "f", "no", TRUE),
     Art("log_entry", 2, "available", "text", <<"a">>, "f", "documented", FALSE),
     Art("log_entry", 2, "available", "raw", NoVal, "f", "unknown_reason", FALSE),
     Art("patch_metadata", 2, "available", "identity", <<"a">>, "f", "no", FALSE)}
=============================================================================
