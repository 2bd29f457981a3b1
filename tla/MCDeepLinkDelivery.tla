------------------------- MODULE MCDeepLinkDelivery -------------------------
(* Instance of DeepLinkDelivery with overlapping dispatches of one event.  *)
EXTENDS DeepLinkDelivery
=============================================================================
