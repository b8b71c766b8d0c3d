---------------------------- MODULE MCVpnService ----------------------------
(***************************************************************************)
(* VpnService on finite instances: sets of settings, and the symmetry of   *)
(* the profiles and of the handleNetworkChange coroutines.                 *)
(***************************************************************************)
EXTENDS VpnService, TLC

KillPrefs  == {[kill |-> TRUE,  auto |-> TRUE,  proxyOnly |-> FALSE]}
AutoPrefs  == {[kill |-> FALSE, auto |-> TRUE,  proxyOnly |-> FALSE]}
PlainPrefs == {[kill |-> FALSE, auto |-> FALSE, proxyOnly |-> FALSE]}
ProxyPrefs == {[kill |-> FALSE, auto |-> TRUE,  proxyOnly |-> TRUE]}
KillAutoPrefs  == KillPrefs \cup AutoPrefs
KillPlainPrefs == KillPrefs \cup PlainPrefs
AllPrefs       == KillPrefs \cup AutoPrefs \cup PlainPrefs \cup ProxyPrefs

Interchangeable == Permutations(Profiles) \cup Permutations(Recs)

=============================================================================
