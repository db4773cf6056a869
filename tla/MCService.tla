----------------------------- MODULE MCService -----------------------------
(* The service and one server that is started by hand.                        *)
EXTENDS Service

CONSTANTS unit, hand
=============================================================================
