----------------------------- MODULE MCAccounts -----------------------------
(***************************************************************************)
(* Two small instances of Accounts for TLC, with two tabs and two          *)
(* addresses: tabs of one browser that share a jar, what is in flight      *)
(* keeping the cookies it was sent with, and one tab in each of two        *)
(* browsers, where the one may sign the other in.                          *)
(***************************************************************************)
EXTENDS Accounts, TLC

CONSTANTS b1, b2, t1, t2, e1, e2

MCBrowsers == {b1}
MCTabs == {t1, t2}
MCBrowserOf == [t \in MCTabs |-> b1]
MCEmails == {e1, e2}

MCTwoBrowsers == {b1, b2}
MCOwnBrowser == [t \in MCTabs |-> IF t = t1 THEN b1 ELSE b2]

Symmetry == Permutations(MCTabs) \cup Permutations(MCEmails)
EmailSymmetry == Permutations(MCEmails)
=============================================================================
