--------------------------- MODULE MC_FingerWS ---------------------------
(***************************************************************************)
(* One or two connections; two requests on a connection are enough for a *)
(* request to arrive while the previous one is being captured.           *)
(***************************************************************************)
EXTENDS FingerWebSocket

CONSTANTS c1, c2, NoValue

OneConn == {c1}
TwoConns == {c1, c2}
=============================================================================
