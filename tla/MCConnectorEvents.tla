------------------------- MODULE MCConnectorEvents -------------------------
(***************************************************************************)
(* Instances of ConnectorEvents for TLC.                                   *)
(***************************************************************************)
EXTENDS ConnectorEvents

=============================================================================
