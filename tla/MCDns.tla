------------------------------- MODULE MCDns --------------------------------
(* Instances of Dns for TLC: two servers, one of each address family.      *)
EXTENDS Dns

TwoFamilies == <<4, 6>>
==============================================================================
