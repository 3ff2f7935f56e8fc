--------------------------- MODULE MCClientSession ---------------------------
(* Three grants: a sign-in and two that rotate it or follow it.  One read at a  *)
(* time is a page that does one thing; two are any page with two requests.      *)
EXTENDS ClientSession
=============================================================================
