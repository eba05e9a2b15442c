----------------------------- MODULE MCDesktop ------------------------------
EXTENDS Desktop

(* The first client gets events, the second competes for the desktop.      *)
MCQuota == <<2, 0>>
=============================================================================
