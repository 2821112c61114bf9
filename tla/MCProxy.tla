------------------------------- MODULE MCProxy -------------------------------
(* Texts of one and two bytes for Proxy. *)
EXTENDS Proxy

MCMessage == {<<1, 2>>}
MCReset == <<2>>
MCReady == <<3>>
MCPreparation == << <<1>>, <<1>>, <<1>> >>
MCQuota == [p \in Peer |-> IF p = "manager" THEN 5 ELSE 1]
=============================================================================
