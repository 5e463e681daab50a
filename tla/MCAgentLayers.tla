--------------------------- MODULE MCAgentLayers ----------------------------
(* A small instance of AgentLayers: the requests that between them use      *)
(* every kind of address and every way an operation is refused.             *)
EXTENDS AgentLayers

MCRoleOf   == ("layer" :> "norole") @@ ("lineart" :> "line")
MCAddress  == {[by |-> "active"], [by |-> "role", role |-> "line"], [by |-> "index", at |-> 0]}
                \cup {[by |-> "id", id |-> i] : i \in {2}}
MCNewLayer == {[kind |-> "raster", name |-> "layer", role |-> "norole"],
               [kind |-> "group", name |-> "layer", role |-> "line"],
               [kind |-> "raster", name |-> "layer", role |-> "unknown"]}
MCProps    == {[name |-> "lineart", lock |-> FALSE, role |-> "norole", active |-> TRUE],
               [name |-> "layer", lock |-> TRUE, role |-> "unknown", active |-> FALSE]}
=============================================================================
