-------------------------- MODULE MCDatabaseOwner ---------------------------
EXTENDS DatabaseOwner

CONSTANTS a1, a2, a3, n1, n2, n3

\* Two threads may contend while a third comes, and one of them comes twice.
MCRounds == (a1 :> 2) @@ (a2 :> 1) @@ (a3 :> 1)

\* Either two of them share a namespace, or all three need one of their own.
MCServes == (a1 :> {n1, n2}) @@ (a2 :> {n1}) @@ (a3 :> {n3})

\* Bytes are 0 and 1, so that 1 is the largest.
MCKeys == {<<0>>, <<0, 1>>, <<1>>, <<1, 1>>, <<1, 1, 1>>}

MCPrefixes == {<<>>, <<0>>, <<1>>, <<0, 1>>}

MCScenarios == {{"apps"}, {"writer", "reader"}}
=============================================================================
