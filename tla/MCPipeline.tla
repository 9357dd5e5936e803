----------------------------- MODULE MCPipeline -----------------------------
(* Bounded instances of Pipeline: channels that fill up with one or two     *)
(* lines, one line filtered out, and equal messages within a source.         *)
EXTENDS Pipeline

CONSTANTS s1, s2

MCPassing == Lines \ {<<s2, 2>>}
MCKeyOf == [l \in Lines |-> l[1]]

=============================================================================
