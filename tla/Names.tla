------------------------------- MODULE Names --------------------------------
(* The names the components of the servers are parameterised by.            *)
CONSTANTS
    Users,      \* the clients
    Nodes,      \* the nodes of the type a room is wanted on
    Rooms,      \* room IDs; a room ID is used once
    Requests,   \* the HTTP requests
    None        \* the absent value: no owner (""), no room, no node

ASSUME NoneAssumption == None \notin Users \union Nodes \union Rooms \union Requests
=============================================================================
