---------------------------- MODULE MCRouteTrie -----------------------------
EXTENDS RouteTrie

CONSTANTS a, b, x, y

\* Patterns that share prefixes in every way a dead end can arise: a literal
\* beside a parameter, two names for one parameter child, one name twice on a
\* path, and paths that are prefixes of others.
MCPatterns == {<<>>, <<a>>, <<x>>, <<a, b>>, <<y, b>>,
               <<x, a, x>>, <<x, y, y>>, <<x, a, x, b>>}

MCRequests ==
  [method : {"GET"},  path : {<<>>, <<a>>, <<b>>, <<a, b>>, <<a, a, b>>, <<b, a, b, a>>}]
  \cup [method : {"HEAD"}, path : {<<a>>, <<b, a, a>>}]

=============================================================================
