----------------------------- MODULE MCSession -----------------------------
(* Session for TLC: two connections, and one or two accounts and logins.   *)
EXTENDS Session, TLC
CONSTANTS f1, f2, a1, a2, l1, l2
MCFds       == {f1, f2}
MCAccounts1 == {a1}
MCAccounts2 == {a1, a2}
MCLogins1   == {l1}
MCLogins2   == {l1, l2}
MCSymmetry  == Permutations(MCFds) \cup Permutations(MCLogins2)
=============================================================================
