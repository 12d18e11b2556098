---------------------------- MODULE MCChromeHost ----------------------------
(* ChromeHost for TLC: a session and the one that replaces it or follows    *)
(* it, in two tabs, with one restart of the service worker, which may fall  *)
(* between them. The tabs are interchangeable: the first session is in a    *)
(* given one.                                                               *)
EXTENDS ChromeHost

Explored == tab[1] \in {NoTab, CHOOSE t \in Tabs : TRUE}
=============================================================================
