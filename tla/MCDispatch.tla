----------------------------- MODULE MCDispatch -----------------------------
EXTENDS Dispatch

MCPaths      == {<<"/">>, <<"/", "a">>, <<"/", "a", "b">>, <<"/", "a", "/", "b">>, <<"/", "b">>}
MCScopes   == {<<>>, <<"/", "a">>}
MCMountPaths == {<<>>, <<"a", "/">>}

=============================================================================
