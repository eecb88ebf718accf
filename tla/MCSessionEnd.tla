---------------------------- MODULE MCSessionEnd ----------------------------
(* Two token responses that logout requests or the clean-up job delete.      *)
(* Logout: two users, an application whose tokens logout deletes and one     *)
(* whose tokens it leaves alone, two requests of one browser.  CleanUp: one  *)
(* user, batches of one row, every order of expiry and revocation.           *)
EXTENDS SessionEnd, TLC

CONSTANTS i1, i2, ann, bob, web, device, home, l1, l2, browser

TwoIssues == {i1, i2}
OneUser == {ann}
TwoUsers == {ann, bob}
WebOnly == {web}
TwoApps == {web, device}
NoUri == {}
OneUri == {home}
NoneRegistered == {}
WebHome == {<<web, home>>}
NoLogout == {}
TwoLogouts == {l1, l2}
OneBrowser == {browser}
OneInstant == {0}
FourInstants == 0 .. 3

Alike == Permutations(TwoIssues) \cup Permutations(TwoUsers) \cup Permutations(TwoLogouts)
=============================================================================
