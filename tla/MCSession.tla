----------------------------- MODULE MCSession -----------------------------
(* Session for TLC: connections are interchangeable. *)
EXTENDS Session, TLC

Symmetry == Permutations(Conns)
AllRequests == {"login", "logout", "query"}
QueryLogout == {"query", "logout"}
NoLogout == {"login", "query"}
TwoFds == 1 .. 2
ThreeFds == 1 .. 3
=============================================================================
