--------------------------- MODULE MCOrderGateway ---------------------------
(* Instances of OrderGateway for TLC.                                        *)
EXTENDS OrderGateway
=============================================================================
