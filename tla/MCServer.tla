------------------------------ MODULE MCServer ------------------------------
(* Instances of Server: a terminal listener and an SSH listener, reached from *)
(* two addresses.  The third connection shares its address with the first.   *)
EXTENDS Server, TLC

CONSTANTS Tcp, Ssh, c1, c2, c3, ip1, ip2

MCIpOf2 == c1 :> ip1 @@ c2 :> ip2
MCPortOf2 == c1 :> Tcp @@ c2 :> Ssh

MCIpOf3 == MCIpOf2 @@ c3 :> ip1
MCPortOf3 == MCPortOf2 @@ c3 :> Ssh
=============================================================================
