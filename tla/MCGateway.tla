------------------------------ MODULE MCGateway -------------------------------
(* An instance of Gateway: a chat with M3, an Anthropic client that may      *)
(* leave, a request for oMLX, and an operator with one of two commands.      *)
EXTENDS Gateway

Req(id, route, backend) ==
  [id |-> id, route |-> route, backend |-> backend, known |-> TRUE]

MCClients ==
  {Req(1, "chat", "m3"), Req(2, "messages", "m3"), Req(3, "responses", "omlx")}
MCOperators == {Req(4, "stop-m3", "omlx"), Req(5, "switch", "m3")}
MCCallers == MCClients \cup MCOperators
MCLeavers == {r \in MCClients: r.route = "messages"}

\* The operator gives the one command or the other.
OneCommand ==
  \A c, d \in MCOperators: pc[c] # "new" /\ pc[d] # "new" => c = d
MCSpec == Init /\ [][Next /\ OneCommand']_vars /\ Fairness
=============================================================================
