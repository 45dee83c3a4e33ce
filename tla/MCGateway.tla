----------------------------- MODULE MCGateway -----------------------------
(* The registry of the gateway, the parser of one of its WebSockets and one *)
(* of its rate budgets, each with small constants.  The three share no      *)
(* state, so one moves only while the others stand at their beginning.      *)
EXTENDS GatewayRegistry, WebSocketParser, RateBudget

MCConns == {"c1", "c2", "c3", "c4"}
MCIps == {"ip1", "ip2"}

Frame(op, fin, valid, header, len) ==
  [op |-> op, fin |-> fin, valid |-> valid, header |-> header, len |-> len]

MCFrames == {
  Frame("binary", TRUE, TRUE, 1, 1),
  Frame("binary", FALSE, TRUE, 1, 1),
  Frame("continuation", FALSE, TRUE, 1, 1),
  Frame("continuation", TRUE, TRUE, 1, 0),
  Frame("continuation", TRUE, TRUE, 1, 2),
  Frame("ping", TRUE, TRUE, 1, 0),
  Frame("close", TRUE, TRUE, 1, 0),
  Frame("text", TRUE, TRUE, 1, 0),
  Frame("binary", TRUE, FALSE, 1, 0),
  Frame("binary", TRUE, TRUE, 2, 4)}

\* One of the registry's initial states stands for all while the others move.
NoRegistry == Init /\ ~tls /\ \A c \in Conns : clientIp[c] = "ip1"
MCInit == Init /\ ParserInit /\ BudgetInit
RegistryMoves == ParserInit /\ BudgetInit /\ Next /\ UNCHANGED <<parserVars, budgetVars>>
ParserMoves == NoRegistry /\ BudgetInit /\ ParserNext /\ UNCHANGED <<vars, budgetVars>>
BudgetMoves == NoRegistry /\ ParserInit /\ BudgetNext /\ UNCHANGED <<vars, parserVars>>
MCSpec ==
  /\ MCInit /\ [][RegistryMoves \/ ParserMoves \/ BudgetMoves]_<<vars, parserVars, budgetVars>>
  /\ WF_vars(Heartbeat)
=============================================================================
