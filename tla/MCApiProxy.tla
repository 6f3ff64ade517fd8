----------------------------- MODULE MCApiProxy -----------------------------
(* Two agents with a budget and one without, and two connections: enough   *)
(* for two requests of an agent to pass the check before the first one is  *)
(* charged, and for another agent's request to come between them.          *)
EXTENDS ApiProxy, TLC

CONSTANTS main, judge, stranger

MCAgents == {main, judge, stranger}
MCLimit == main :> 3 @@ judge :> 1

=============================================================================
