---------------------------- MODULE MCTraceLoading ----------------------------
EXTENDS TraceLoading

CONSTANTS a, b, w

MCPaths == {a, b}
MCPackages == {w}

\* The traces are named in the order of the session: none is left out.
MCSessions == {<<a>>, <<a, b>>}
==============================================================================
