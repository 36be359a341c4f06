------------------------------ MODULE MCQuery ------------------------------
EXTENDS Query

A == <<0, 0, 1>>
B == <<0, 1, 0>>
C == <<1, 0, 1>>

MCIds == {A, B}

MCStakeKey(c) == <<1, c[2], c[3]>>

MCKeys ==
  [d \in KeyedDims |->
     CASE d = "time" -> {1, 2}
       [] d = "balances" -> {MCStakeKey(A), MCStakeKey(B)}
       [] d = "signals" -> {A}
       [] d = "nullifiers" -> {A}
       [] OTHER -> {A, B}]

\* One key of a dimension has several records, the other a single one.
MCRecords ==
  [d \in KeyedDims |-> [k \in MCKeys[d] |->
     CASE d = "time" -> {C}
       [] d = "balances" -> IF k = MCStakeKey(A) THEN {1, 2} ELSE {2}
       [] d = "neurons" -> IF k = A THEN {1, 2} ELSE {1}
       [] d = "signals" -> {[neuron |-> A, network |-> B, link_count |-> n, step |-> 1] : n \in {1, 2}}
       [] d = "nullifiers" -> {Unit}
       [] d = "cards" ->
            IF k = A THEN {[particle |-> A, valence |-> "against"], [particle |-> B, valence |-> "neutral"]}
            ELSE {[particle |-> A, valence |-> "for"]}]]

MCLinks == [p \in MCIds |-> IF p = A THEN {A, B} ELSE {A}]

MCLists == {<<>>, <<A, A>>, <<B, A, B>>}

MCSubjects == {{"neurons"}, {"time"}, {"signals"}, {"nullifiers"}, {"cards", "balances"},
               {"balances"}, {"axons_out"}}

MCQueried == {{"neurons"}, {"time"}, {"signals"}, {"balances"}, {"axons_out"}}
=============================================================================
