-------------------------- MODULE MCGatewaySession --------------------------
(* Instance of GatewaySession for TLC: two public streams; two controls of  *)
(* a client that may ask for the private side too, with two connections, or *)
(* one control with three.                                                  *)
EXTENDS GatewaySession

CONSTANTS c1, c2, c3

Public == [e \in Endpoints |-> "public"]

MCBounds == {[connections |-> {c1, c2}, controls |-> 2, visibilities |-> Visibilities],
             [connections |-> {c1, c2, c3}, controls |-> 1, visibilities |-> {"public"}]}
=============================================================================
