--------------------------- MODULE MCCoordination ---------------------------
EXTENDS Coordination

CONSTANTS t1, t2, r1, r2, m1, m2, m3, k1, k2

MCFallbackChain == <<"ollama", "vllm">>
MCBackend == <<"chroma", "qdrant">>
MCViews == {{m1, m2, m3}, {m1, m2}}

\* Two keys where one is no composite of others.
MCKeysOf == [x \in Kinds |-> IF x \in {"gset", "pncounter", "lwwmap"} THEN {k1, k2} ELSE {k1}]
=============================================================================
