------------------------ MODULE MCCredentialRefresh ------------------------
(***************************************************************************)
(* CredentialRefresh in units of 15 seconds with the deployed constants:   *)
(* floor and retry 60 s, a fetch of two Vault calls with hvac's timeout of *)
(* 30 s each, a connect of 10 s and a drain of query_timeout + acquire     *)
(* timeout (30 s + 5 s) rounded up, and leases of half an hour and an      *)
(* hour.  The shorter one has two units to spare.                          *)
(***************************************************************************)
EXTENDS CredentialRefresh
=============================================================================
