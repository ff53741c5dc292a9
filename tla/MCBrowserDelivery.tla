-------------------------- MODULE MCBrowserDelivery --------------------------
(***************************************************************************)
(* Instances of BrowserDelivery for TLC.                                   *)
(***************************************************************************)
EXTENDS BrowserDelivery

=============================================================================
