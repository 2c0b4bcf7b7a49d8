------------------------------ MODULE MCWebCarrier ------------------------------
EXTENDS WebCarrier

(* Over HTTPS two writes, three frames down and as many refusals as it      *)
(* takes to end the attempts of a batch; over the WebSocket a message of    *)
(* two frames is enough to cut it, and one ping to come in between.         *)
MCMaxWrites == [https |-> 2, ws |-> 2]
MCMaxOut == [https |-> 3, ws |-> 2]
MCMaxBusy == [https |-> 2, ws |-> 1]
=============================================================================
