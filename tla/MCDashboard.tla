---------------------------- MODULE MCDashboard -----------------------------
(* Two browsers with the smile page, or one backtest page that opens its   *)
(* websocket twice.                                                        *)
EXTENDS Dashboard
=============================================================================
