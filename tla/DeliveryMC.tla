----------------------------- MODULE DeliveryMC ------------------------------
(***************************************************************************)
(* An instance of Delivery for TLC: the jobs of ConnectorJobs.             *)
(***************************************************************************)
EXTENDS Delivery, ConnectorJobs
=============================================================================
