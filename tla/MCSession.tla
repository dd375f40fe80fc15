---------------------------- MODULE MCSession ----------------------------
(***************************************************************************)
(* Session for TLC: one tab or two, one client or two.                     *)
(***************************************************************************)
EXTENDS Session

CONSTANTS c1, c2, t1, t2

OneClient == {c1}
TwoClients == {c1, c2}
OneTab == {t1}
TwoTabs == {t1, t2}

=============================================================================
