------------------------------ MODULE PairingMC ------------------------------
(* A small instance of Pairing, with the scopes of Twitch. *)
EXTENDS Pairing

TwitchBase == {"user:read:email"}
TwitchPublish == {"channel:manage:broadcast"}
===============================================================================
