---- MODULE MCSessionStore ----
(* Two sessions, two credentials each, a time to live of two units, and one *)
(* timer object more than there are entries, so that set always finds one.  *)
EXTENDS SessionStore

CONSTANTS k1, k2, v1, v2, h1, h2, h3

MCKey == {k1, k2}
MCValue == {v1, v2}
MCHandle == {h1, h2, h3}
====
