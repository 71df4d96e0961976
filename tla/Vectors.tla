------------------------------- MODULE Vectors -------------------------------
(* std::erase_if on the vectors of actions, listeners and notifications.    *)
EXTENDS Naturals, FiniteSets, Sequences

\* The elements of s that belong to keep, in order: a set of one sequence.
Kept(s, keep) ==
    LET places == {i \in DOMAIN s : s[i] \in keep}
    IN  {[k \in DOMAIN f |-> s[f[k]]] :
           f \in {g \in [1 .. Cardinality(places) -> places] :
                    /\ \A j, k \in DOMAIN g : j < k => g[j] < g[k]
                    /\ \A i \in places : \E k \in DOMAIN g : g[k] = i}}
=============================================================================
