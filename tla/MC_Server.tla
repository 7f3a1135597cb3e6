----------------------------- MODULE MC_Server -----------------------------
(* Three connections over two slots and two keys of one principal.         *)
EXTENDS GatewayServer, TLC

CONSTANTS c1, c2, c3
MCClients == {c1, c2, c3}
Symmetry == Permutations(MCClients)
MCKeys == {"k1", "k2"}
MCWants == {[key |-> "k1", method |-> "POST", op |-> "chat.completions"],
            [key |-> "k1", method |-> "PUT", op |-> "governance.write"],
            [key |-> "k2", method |-> "DELETE", op |-> "models.write"],
            [key |-> NoKey, method |-> "GET", op |-> "health"]}
MCRoleOf == [k \in MCKeys |-> "operator"]
MCMain == {"main"}
MCEmbedded == {"embedded"}
=============================================================================
