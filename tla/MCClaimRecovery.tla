--------------------------- MODULE MCClaimRecovery ---------------------------
(* ClaimRecovery for TLC; one tick is 30 seconds in ShippedSettings.cfg.     *)
EXTENDS ClaimRecovery
==============================================================================
