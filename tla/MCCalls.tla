------------------------------ MODULE MCCalls ------------------------------
(* Instances of Calls for TLC. *)
EXTENDS Calls

Line(kind, method, tool, mode) ==
    [kind |-> kind, method |-> method, tool |-> tool, mode |-> mode, version |-> 0]
Tool(tool, mode) == Line("request", "tools/call", tool, mode)

\* Lines that lead to the daemon, and those beside them that must not disturb.
SomeLines ==
    {Tool("search", ""), Tool("search", "keyword"), Tool("search", "none"), Tool("recall", ""),
     Tool("resync", ""), Tool("status", ""), Tool("unknown", ""), Line("request", "unknown", "", ""),
     Line("notification", "initialized", "", ""), Line("malformed", "", "", ""),
     [Line("request", "initialize", "", "") EXCEPT !.version = 2]}

OneSearch == {Tool("search", "")}
=============================================================================
