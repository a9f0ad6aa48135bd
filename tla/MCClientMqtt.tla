---------------------------- MODULE MCClientMqtt ----------------------------
(* ClientMqtt for TLC.                                                     *)
EXTENDS ClientMqtt
=============================================================================
