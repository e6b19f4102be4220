---------------------------- MODULE MCLlmGateway ----------------------------
(* An instance of LlmGateway for TLC.                                      *)
EXTENDS LlmGateway
=============================================================================
