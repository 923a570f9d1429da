----------------------------- MODULE MCWsClient -----------------------------
(***************************************************************************)
(* WsClient with two runs of connect() at a time, which is one more than   *)
(* start, stop and the timer ever have.                                    *)
(***************************************************************************)
EXTENDS WsClient

CONSTANTS c1, c2
=============================================================================
