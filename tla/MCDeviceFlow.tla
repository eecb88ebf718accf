---------------------------- MODULE MCDeviceFlow ----------------------------
(* Two devices that may draw the same user code, two users, three browser    *)
(* requests, and two polls by a public client, a confidential one or one     *)
(* whose secret is blank.                                                    *)
EXTENDS DeviceFlow, TLC

CONSTANTS tv, watch, k1, k2, ann, bob, t1, t2, t3, p1, p2, read, write, cli, srv, old

TwoDevices == {tv, watch}
TwoCodes == {k1, k2}
TwoUsers == {ann, bob}
TwoScopes == {read, write}
ThreeTabs == {t1, t2, t3}
TwoPolls == {p1, p2}
ThreeApplications == {cli, srv, old}
PublicClient == {cli}
BlankClient == {old}

Alike == Permutations(TwoCodes) \cup Permutations(TwoUsers) \cup Permutations(ThreeTabs)
         \cup Permutations(TwoPolls) \cup Permutations(TwoDevices)
=============================================================================
