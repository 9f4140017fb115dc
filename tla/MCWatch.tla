-------------------------------- MODULE MCWatch --------------------------------
(* Model-checking instance of Watch: two servers with one publisher each; a *)
(* client of one topic that asks for two events, and a client of one entity *)
(* whose limit is below the least that watch allows.                        *)
EXTENDS Watch, TLC

CONSTANTS p1, p2, s1, s2, c1, c2, t1, t2, e1

MCPublishers == {p1, p2}
MCServers    == {s1, s2}
MCServerOf   == (p1 :> s1) @@ (p2 :> s2)
MCClients    == {c1, c2}
MCTopics     == {t1, t2}
MCEntities   == {e1}
MCKinds      == {<<t1, e1>>, <<t2, None>>}
MCTopic      == (c1 :> t2) @@ (c2 :> None)
MCEntityId   == (c1 :> None) @@ (c2 :> e1)
MCAsked      == (c1 :> 2) @@ (c2 :> 0)

\* The servers, each with its publisher, are interchangeable.
Symmetry ==
  {f \in Permutations({p1, p2, s1, s2}) :
     /\ {f[p1], f[p2]} = MCPublishers
     /\ f[s1] = MCServerOf[f[p1]]
     /\ f[s2] = MCServerOf[f[p2]]}

=============================================================================
