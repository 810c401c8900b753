--------------------------- MODULE MCWasmBinding ----------------------------
EXTENDS WasmBinding

CONSTANTS a, b, g, x, y

Key(method_, pattern_) == [method |-> method_, pattern |-> pattern_]

\* A slash at the end and none, a literal beside a parameter under two names, a
\* second method, one that is not UTF-8, and what is refused.
MCKeys == {Key("GET", <<"", a>>), Key("GET", <<"", a, "">>), Key("GET", <<"", x>>),
           Key("GET", <<"", y, b>>), Key("POST", <<"", "">>), Key("GET", <<"", g>>),
           Key("", <<"", a>>), Key("GET", <<a>>)}

MCPaths == {<<"">>, <<"", a>>, <<"", b, "">>, <<"", a, b>>, <<"", g>>}

\* The routes and the requests of the trie are those that the page passes on.
MCPatterns == {Pieces(key.pattern) : key \in MCKeys}

MCRequests == {Asked(method, path) : method \in {"GET", "POST"}, path \in MCPaths}

=============================================================================
