----------------------------- MODULE VpnService -----------------------------
(***************************************************************************)
(* The connection life cycle of TZVPNVpnService: connecting, recovering    *)
(* from a failed tunnel, the kill switch, auto-reconnect, disconnecting    *)
(* and the death of the service.                                           *)
(*                                                                         *)
(* Every coroutine of the service runs on Dispatchers.Main, one thread, so *)
(* an action below is one segment of a coroutine between two suspension    *)
(* points: it is atomic, and any other coroutine or callback may run       *)
(* before the next segment.  Blocking work is done inside                  *)
(* withContext(Dispatchers.IO); a pc that ends in such a block names it,   *)
(* and the action of that pc is the end of the block together with the     *)
(* code that follows it.  Cancelling a coroutine removes it at once, except*)
(* that a blocking call it has under way cannot be interrupted: it ends    *)
(* later, on its own, as an "orphan".                                      *)
(*                                                                         *)
(* What one tunnel type starts, stops and restarts is the subject of       *)
(* TunnelStartup; here the local proxy is a single resource, and connect() *)
(* opens the interface first, in the order of the DNSTT, VayDNS, SSH, DoH, *)
(* Naive, SOCKS5, VLESS and Hysteria2 types.                               *)
(*                                                                         *)
(* Operators named ...Mutant are the forms a plausible bug would give to   *)
(* the definition that follows them; the specification does not use them.  *)
(***************************************************************************)
EXTENDS Naturals, Sequences

CONSTANTS
    Profiles,       \* profile ids
    NoProfile,      \* the id -1
    Prefs,          \* the settings considered
    MaxSeamless,    \* MAX_SEAMLESS_RECONNECTS(_DNSTT)
    MaxAuto,        \* AUTO_RECONNECT_MAX_RETRIES
    Recs,           \* coroutines of handleNetworkChange (bound on how many live)
    JoinMayTimeOut, \* whether disconnecting may outlast the 5 s connect() waits
    MaxIntents,     \* bound: start commands on their way to the service
    MaxInputs       \* bound: events from the user, the network and the system

ASSUME ProfilesAssumption == NoProfile \notin Profiles
ASSUME PrefsAssumption ==
    Prefs \subseteq [kill : BOOLEAN, auto : BOOLEAN, proxyOnly : BOOLEAN]
ASSUME LimitsAssumption ==
    /\ MaxSeamless \in Nat
    /\ MaxAuto \in Nat
    /\ JoinMayTimeOut \in BOOLEAN
    /\ MaxIntents \in Nat
    /\ MaxInputs \in Nat
ASSUME RecsAssumption ==
    Recs \cap {"connect", "disconnect", "health", "lost", "debounce",
               "auto", "kill", "pool"} = {}

VARIABLES
    pref,        \* the stored settings: killSwitch, autoReconnect, proxyOnlyMode
    inputs,      \* events the environment may still produce
    svc,         \* the service as Android sees it
    intents,     \* start commands sent and not yet delivered
    saved,       \* PREF_LAST_PROFILE_ID while PREF_WAS_CONNECTED, else NoProfile
    want,        \* history: the profile the user last asked for, if any
    pc,          \* where each coroutine is suspended
    arg,         \* the profile id a coroutine captured
    isReconnecting, isKillSwitchActive, isAutoReconnecting,
    isUserInitiatedDisconnect, connectionWasSuccessful,
    seamlessReconnectAttempts, autoReconnectAttempt,
    netCb,       \* networkCallback # null (and the Doze receiver with it)
    currentNetwork,  \* the callback's currentNetwork # null
    grace,       \* less than NETWORK_CHANGE_GRACE_MS since connectionEstablishedAt
    currentProfileId,
    tun,         \* vpnInterface # null
    hev,         \* HevSocks5Tunnel.isRunning()
    proxy,       \* the local proxy; "orphan" if a cancelled coroutine started it
    autoFlag,    \* VpnRepositoryImpl.isAutoReconnect
    orphans      \* blocking calls that outlived their coroutine

envVars   == <<pref, inputs>>
lifeVars  == <<svc, intents, saved, want>>
jobVars   == <<pc, arg>>
flagVars  == <<isReconnecting, isKillSwitchActive, isAutoReconnecting,
               isUserInitiatedDisconnect, connectionWasSuccessful>>
countVars == <<seamlessReconnectAttempts, autoReconnectAttempt>>
netVars   == <<netCb, currentNetwork, grace>>
resVars   == <<currentProfileId, tun, hev, proxy, autoFlag, orphans>>
vars == <<envVars, lifeVars, jobVars, flagVars, countVars, netVars, resVars>>

-----------------------------------------------------------------------------
(* Coroutines and where they suspend.                                      *)

Jobs == {"connect", "disconnect", "health", "lost", "debounce", "auto",
         "kill", "pool"}
Hosts == Jobs \cup Recs

\* handleTunnelFailure is a suspend function: it runs inside its caller.
FailurePcs == {"tf_delay", "tf_decide", "tf_auto", "ks_io", "ar_io", "er_io"}
ConnectPcs == {"c_join", "c_stopAll", "c_clean", "c_load", "c_vpn", "c_proxy",
               "c_tun", "c_finish", "c_catch"}
RecPcs     == {"q", "q_rec", "r_stop", "r_start", "r_tun", "r_probe", "r_fin"}
Pcs == {"none", "d_q", "d_io", "h_loop", "h_q", "l_delay", "b_delay",
        "a_delay", "k_delay", "p_q"} \cup FailurePcs \cup ConnectPcs \cup RecPcs

\* Suspended inside a blocking call that starts, or stops, native code.
StartingPcs == {"c_proxy", "r_start"}
StoppingPcs == {"c_stopAll", "c_clean", "ks_io", "ar_io", "er_io", "d_io",
                "r_stop"}

Running(h) == pc[h] # "none"

\* Inside the part of handleNetworkChange that isReconnecting protects.
Reconnecting(r) == pc[r] \in (RecPcs \ {"q", "q_rec"}) \cup FailurePcs

Commands == [cmd : {"connect", "disconnect", "reconnect"},
             profile : Profiles \cup {NoProfile},
             fresh : BOOLEAN]   \* sent when no instance could take it

\* Blocking calls that go on when the coroutines in S are cancelled.
OrphansOf(S) ==
    {k \in {"start", "stop"} :
        \E h \in S : pc[h] \in (IF k = "start" THEN StartingPcs ELSE StoppingPcs)}

Pref == [kill : BOOLEAN, auto : BOOLEAN, proxyOnly : BOOLEAN]

Init ==
    /\ pref \in Prefs
    /\ inputs = MaxInputs
    /\ svc = "none"
    /\ intents = <<>>
    /\ saved = NoProfile
    /\ want = NoProfile
    /\ pc = [h \in Hosts |-> "none"]
    /\ arg = [h \in Hosts |-> NoProfile]
    /\ isReconnecting = FALSE
    /\ isKillSwitchActive = FALSE
    /\ isAutoReconnecting = FALSE
    /\ isUserInitiatedDisconnect = FALSE
    /\ connectionWasSuccessful = FALSE
    /\ seamlessReconnectAttempts = 0
    /\ autoReconnectAttempt = 0
    /\ netCb = FALSE
    /\ currentNetwork = FALSE
    /\ grace = FALSE
    /\ currentProfileId = NoProfile
    /\ tun = FALSE
    /\ hev = FALSE
    /\ proxy = "down"
    /\ autoFlag = FALSE
    /\ orphans = {}

-----------------------------------------------------------------------------
(* Parts of several handlers.                                              *)

\* What the service becomes when tun' = open, with or without stopSelf().
\* The system stays bound to a VpnService whose interface is open: stopSelf()
\* then destroys nothing until the interface is closed.
SvcAfter(stop, open) ==
    IF svc = "destroying" \/ (svc = "started" /\ ~stop) THEN svc
    ELSE IF open THEN "bound" ELSE "destroying"

\* Where handleTunnelFailure suspends first when tun2socks is running = alive.
CanSeamlessMutant(alive) ==    \* the budget is not looked at
    /\ pref.proxyOnly \/ alive
    /\ ~isKillSwitchActive
    /\ ~isAutoReconnecting

CanSeamless(alive) ==
    /\ pref.proxyOnly \/ alive
    /\ seamlessReconnectAttempts < MaxSeamless
    /\ ~isKillSwitchActive
    /\ ~isAutoReconnecting

EnterFailure(h, alive) ==
    /\ pc' = [pc EXCEPT ![h] = IF CanSeamless(alive) THEN "tf_delay" ELSE "tf_decide"]
    /\ seamlessReconnectAttempts' =
           IF CanSeamless(alive) THEN seamlessReconnectAttempts + 1 ELSE 0

\* The part of cleanupConnection before its blocking block.  It cancels the
\* health check and the network-lost timer even when one of them is the
\* coroutine h that runs it: h then dies at the next suspension point.
CleanupCancels == {"health", "debounce", "lost"}
CleanupBegin(h, next) ==
    /\ pc' = [x \in Hosts |-> IF x \in CleanupCancels THEN "none"
                              ELSE IF x = h THEN next ELSE pc[x]]
    /\ orphans' = orphans \cup OrphansOf(CleanupCancels \ {h})
    /\ isReconnecting' = FALSE
    /\ netCb' = FALSE
    /\ currentNetwork' = FALSE

\* The blocking block of cleanupConnection and the rest of it.
CleanupEndMutant(stop) ==      \* the interface is not closed
    /\ hev' = FALSE
    /\ proxy' = "down"
    /\ currentProfileId' = NoProfile
    /\ svc' = SvcAfter(stop, tun)
    /\ UNCHANGED tun

CleanupEnd(stop) ==
    /\ hev' = FALSE
    /\ proxy' = "down"
    /\ tun' = FALSE
    /\ currentProfileId' = NoProfile
    /\ svc' = SvcAfter(stop, FALSE)

\* The finally block of handleNetworkChange, when h is such a coroutine.
FinallyMutant(h) ==            \* the flag is not reset
    /\ autoFlag' = (autoFlag /\ h \notin Recs)
    /\ UNCHANGED isReconnecting

Finally(h) ==
    /\ isReconnecting' = (isReconnecting /\ h \notin Recs)
    /\ autoFlag' = (autoFlag /\ h \notin Recs)

\* connect(p), called by a coroutine or handler that leaves f and a of the others.
LaunchConnect(f, a, p) ==
    /\ pc' = [f EXCEPT !["connect"] = "c_join"]
    /\ arg' = [a EXCEPT !["connect"] = p]
    /\ orphans' = orphans \cup OrphansOf({"connect"})

\* startHealthCheck()
StartHealthCheck(f) ==
    /\ pc' = [f EXCEPT !["health"] = "h_loop"]
    /\ seamlessReconnectAttempts' = 0

-----------------------------------------------------------------------------
(* connect(profileId)                                                      *)

\* withTimeout(5000) { disconnectJob?.join() }
ConnectJoin ==
    /\ pc["connect"] = "c_join"
    /\ Running("disconnect") => JoinMayTimeOut
    /\ pc' = [pc EXCEPT !["connect"] = "c_stopAll"]
    /\ UNCHANGED <<envVars, lifeVars, arg, flagVars, countVars, netVars, resVars>>

\* currentProfileId != -1 && currentProfileId != profileId
SwitchesProfileMutant ==       \* only a finished connection counts
    /\ connectionWasSuccessful
    /\ currentProfileId \notin {NoProfile, arg["connect"]}

SwitchesProfile == currentProfileId \notin {NoProfile, arg["connect"]}

\* Every bridge is stopped; a change of profile also cleans up.
ConnectStopAll ==
    /\ pc["connect"] = "c_stopAll"
    /\ hev' = FALSE
    /\ proxy' = "down"
    /\ IF SwitchesProfile
       THEN CleanupBegin("connect", "c_clean")
       ELSE /\ pc' = [pc EXCEPT !["connect"] = "c_load"]
            /\ UNCHANGED <<isReconnecting, netCb, currentNetwork, orphans>>
    /\ UNCHANGED <<envVars, lifeVars, arg, isKillSwitchActive,
                   isAutoReconnecting, isUserInitiatedDisconnect,
                   connectionWasSuccessful, countVars, grace, currentProfileId,
                   tun, autoFlag>>

ConnectClean ==
    /\ pc["connect"] = "c_clean"
    /\ CleanupEnd(FALSE)
    /\ pc' = [pc EXCEPT !["connect"] = "c_load"]
    /\ UNCHANGED <<envVars, intents, saved, want, arg, flagVars,
                   countVars, netVars, autoFlag, orphans>>

ConnectLoad ==
    /\ pc["connect"] = "c_load"
    /\ arg' = [arg EXCEPT !["connect"] = NoProfile]
    /\ \/ /\ arg["connect"] # NoProfile
          /\ currentProfileId' = arg["connect"]
          /\ isUserInitiatedDisconnect' = FALSE
          /\ pc' = [pc EXCEPT !["connect"] = "c_vpn"]
          /\ UNCHANGED svc
       \/ \* deleted, expired or bound to another device
          /\ svc' = SvcAfter(TRUE, tun)
          /\ pc' = [pc EXCEPT !["connect"] = "none"]
          /\ UNCHANGED <<currentProfileId, isUserInitiatedDisconnect>>
    /\ UNCHANGED <<envVars, intents, saved, want, isReconnecting,
                   isKillSwitchActive, isAutoReconnecting, connectionWasSuccessful,
                   countVars, netVars, tun, hev, proxy, autoFlag, orphans>>

\* catch (e: Exception) of connect(): it reads a setting, which suspends, then
\* treats the exception as a tunnel failure or ends.
ConnectCatch ==
    /\ pc["connect"] = "c_catch"
    /\ IF pref.auto /\ connectionWasSuccessful /\ ~isUserInitiatedDisconnect
          /\ autoReconnectAttempt < MaxAuto
       THEN /\ EnterFailure("connect", hev)
            /\ UNCHANGED <<isReconnecting, netCb, currentNetwork, orphans>>
       ELSE /\ CleanupBegin("connect", "er_io")
            /\ UNCHANGED seamlessReconnectAttempts
    /\ UNCHANGED <<envVars, lifeVars, arg, isKillSwitchActive,
                   isAutoReconnecting, isUserInitiatedDisconnect,
                   connectionWasSuccessful, autoReconnectAttempt, grace,
                   currentProfileId, tun, hev, proxy, autoFlag>>

\* A step of a connectXxx that failed: onVpnError, stopForeground, stopSelf.
ConnectGivesUpMutant(open) ==  \* tries again instead
    /\ pc' = [pc EXCEPT !["connect"] = "c_vpn"]
    /\ tun' = open
    /\ UNCHANGED svc

ConnectGivesUp(open) ==
    /\ pc' = [pc EXCEPT !["connect"] = "none"]
    /\ tun' = open
    /\ svc' = SvcAfter(TRUE, open)

ConnectContinues(next) ==
    /\ pc' = [pc EXCEPT !["connect"] = next]
    /\ UNCHANGED svc

connectStepUnchanged ==
    UNCHANGED <<envVars, intents, saved, want, arg, flagVars, countVars,
                netVars, currentProfileId, autoFlag, orphans>>

\* establishVpnInterface() returns an interface or null, or throws
ConnectVpn ==
    /\ pc["connect"] = "c_vpn"
    /\ \/ ConnectContinues("c_proxy") /\ tun' = (tun \/ ~pref.proxyOnly)
          /\ UNCHANGED <<hev, proxy>>
       \/ ~pref.proxyOnly /\ ConnectGivesUp(FALSE) /\ UNCHANGED <<hev, proxy>>
       \/ ConnectContinues("c_catch") /\ UNCHANGED <<tun, hev, proxy>>
    /\ connectStepUnchanged

\* The native client, then the SOCKS bridge in front of it.
ConnectProxy ==
    /\ pc["connect"] = "c_proxy"
    /\ \/ ConnectContinues("c_tun") /\ proxy' = "up" /\ UNCHANGED <<tun, hev>>
       \/ \* the client does not start: the interface is closed
          ConnectGivesUp(FALSE) /\ proxy' = "down" /\ UNCHANGED hev
       \/ \* the bridge does not start: stopCurrentProxy(), nothing is closed
          ConnectGivesUp(tun) /\ proxy' = "down" /\ UNCHANGED hev
    /\ connectStepUnchanged

\* startTun2Socks(profile, vpnInterface!!), on failure it stops the proxy
ConnectTun ==
    /\ pc["connect"] = "c_tun"
    /\ \/ /\ pref.proxyOnly
          /\ ConnectContinues("c_finish")
          /\ UNCHANGED <<tun, hev, proxy>>
       \/ ~pref.proxyOnly /\ tun /\ ConnectContinues("c_finish") /\ hev' = TRUE
          /\ UNCHANGED <<tun, proxy>>
       \/ ~pref.proxyOnly /\ tun /\ ConnectGivesUp(FALSE)
          /\ hev' = FALSE /\ proxy' = "down"
       \/ \* vpnInterface!! on null
          ~pref.proxyOnly /\ ~tun /\ ConnectContinues("c_catch")
          /\ UNCHANGED <<tun, hev, proxy>>
    /\ connectStepUnchanged

\* finishConnection()
ConnectFinish ==
    /\ pc["connect"] = "c_finish"
    /\ StartHealthCheck([pc EXCEPT !["connect"] = "none"])
    /\ connectionWasSuccessful' = TRUE
    /\ autoReconnectAttempt' = 0
    /\ autoFlag' = FALSE
    /\ grace' = TRUE
    /\ saved' = currentProfileId
    /\ netCb' = TRUE
    /\ currentNetwork' = TRUE
    /\ UNCHANGED <<envVars, svc, intents, want, arg, isReconnecting,
                   isKillSwitchActive, isAutoReconnecting,
                   isUserInitiatedDisconnect, currentProfileId, tun, hev, proxy,
                   orphans>>

-----------------------------------------------------------------------------
(* handleTunnelFailure(reason), run by the coroutine h                     *)

\* After the delay: setAutoReconnect(true) and a "tunnel recovery".  When h is
\* itself a handleNetworkChange it returns, and its finally block runs before
\* the coroutine it has just launched.
TunnelFailureSeamless(h) ==
    /\ pc[h] = "tf_delay"
    /\ \E r \in Recs :
          /\ pc[r] = "none" \/ r = h
          /\ pc' = [pc EXCEPT ![h] = "none", ![r] = "q_rec"]
    /\ isReconnecting' = (isReconnecting /\ h \notin Recs)
    /\ autoFlag' = (h \notin Recs)
    /\ UNCHANGED <<envVars, lifeVars, arg, isKillSwitchActive, isAutoReconnecting,
                   isUserInitiatedDisconnect, connectionWasSuccessful, countVars,
                   netVars, currentProfileId, tun, hev, proxy, orphans>>

KillSwitchApplies == pref.kill /\ ~pref.proxyOnly /\ tun
AutoReconnectApplies ==
    /\ pref.auto
    /\ connectionWasSuccessful
    /\ ~isUserInitiatedDisconnect
    /\ autoReconnectAttempt < MaxAuto

\* enterKillSwitchMode up to its blocking block: cancels the health check, and
\* so the coroutine itself when the health check has launched it
TunnelFailureKill(h) ==
    /\ pc[h] = "tf_decide"
    /\ KillSwitchApplies
    /\ isKillSwitchActive' = TRUE
    /\ pc' = [pc EXCEPT ![h] = "ks_io", !["health"] = "none"]
    /\ UNCHANGED <<envVars, lifeVars, arg, isReconnecting,
                   isAutoReconnecting, isUserInitiatedDisconnect,
                   connectionWasSuccessful, countVars, netVars, resVars>>

\* The kill switch is off: the second setting is read.
TunnelFailureNoKill(h) ==
    /\ pc[h] = "tf_decide"
    /\ ~KillSwitchApplies
    /\ pc' = [pc EXCEPT ![h] = "tf_auto"]
    /\ UNCHANGED <<envVars, lifeVars, arg, flagVars, countVars, netVars, resVars>>

\* enterAutoReconnectMode up to the blocking block of cleanupConnection
TunnelFailureAuto(h) ==
    /\ pc[h] = "tf_auto"
    /\ AutoReconnectApplies
    /\ autoReconnectAttempt' = autoReconnectAttempt + 1
    /\ isAutoReconnecting' = TRUE
    /\ arg' = [arg EXCEPT ![h] = currentProfileId]
    /\ CleanupBegin(h, "ar_io")
    /\ UNCHANGED <<envVars, lifeVars, isKillSwitchActive,
                   isUserInitiatedDisconnect, connectionWasSuccessful,
                   seamlessReconnectAttempts, grace, currentProfileId, tun, hev,
                   proxy, autoFlag>>

\* neither: onVpnError, cleanupConnection, stopForeground, stopSelf
TunnelFailureError(h) ==
    /\ pc[h] = "tf_auto"
    /\ ~AutoReconnectApplies
    /\ CleanupBegin(h, "er_io")
    /\ UNCHANGED <<envVars, lifeVars, arg, isKillSwitchActive,
                   isAutoReconnecting, isUserInitiatedDisconnect,
                   connectionWasSuccessful, countVars, grace, currentProfileId,
                   tun, hev, proxy, autoFlag>>

\* The rest of enterKillSwitchMode: tun2socks and proxy stopped, the interface
\* kept, a reconnection launched that first waits 2 s.
KillSwitchEnter(h) ==
    /\ pc[h] = "ks_io"
    /\ hev' = FALSE
    /\ proxy' = "down"
    /\ pc' = [pc EXCEPT ![h] = "none", !["kill"] = "k_delay"]
    /\ Finally(h)
    /\ UNCHANGED <<envVars, lifeVars, arg, isKillSwitchActive,
                   isAutoReconnecting, isUserInitiatedDisconnect,
                   connectionWasSuccessful, countVars, netVars, currentProfileId,
                   tun, orphans>>

\* The rest of enterAutoReconnectMode: all closed, autoReconnectJob launched.
AutoReconnectEnter(h) ==
    /\ pc[h] = "ar_io"
    /\ CleanupEnd(FALSE)
    /\ pc' = [pc EXCEPT ![h] = "none", !["auto"] = "a_delay"]
    /\ arg' = [arg EXCEPT ![h] = NoProfile, !["auto"] = arg[h]]
    /\ Finally(h)
    /\ UNCHANGED <<envVars, intents, saved, want, isKillSwitchActive,
                   isAutoReconnecting, isUserInitiatedDisconnect,
                   connectionWasSuccessful, countVars, netVars, orphans>>

\* The rest of the error path (of connect() too).
ErrorStop(h) ==
    /\ pc[h] = "er_io"
    /\ CleanupEnd(TRUE)
    /\ pc' = [pc EXCEPT ![h] = "none"]
    /\ Finally(h)
    /\ UNCHANGED <<envVars, intents, saved, want, arg,
                   isKillSwitchActive, isAutoReconnecting,
                   isUserInitiatedDisconnect, connectionWasSuccessful, countVars,
                   netVars, orphans>>

FailureStep(h) ==
    \/ TunnelFailureSeamless(h)
    \/ TunnelFailureKill(h)
    \/ TunnelFailureNoKill(h)
    \/ TunnelFailureAuto(h)
    \/ TunnelFailureError(h)
    \/ KillSwitchEnter(h)
    \/ AutoReconnectEnter(h)
    \/ ErrorStop(h)

-----------------------------------------------------------------------------
(* The timers and monitors that lead to a failure or a reconnection.       *)

\* handleNetworkChange(reason) launched by the coroutine h, which ends
LaunchNetworkChange(h) ==
    \E r \in Recs :
        /\ pc[r] = "none"
        /\ pc' = [pc EXCEPT ![h] = "none", ![r] = "q"]

KillSwitchTimer ==
    /\ pc["kill"] = "k_delay"
    /\ IF isKillSwitchActive
       THEN LaunchNetworkChange("kill")
       ELSE pc' = [pc EXCEPT !["kill"] = "none"]
    /\ UNCHANGED <<envVars, lifeVars, arg, flagVars, countVars, netVars, resVars>>

DebounceTimer ==
    /\ pc["debounce"] = "b_delay"
    /\ LaunchNetworkChange("debounce")
    /\ UNCHANGED <<envVars, lifeVars, arg, flagVars, countVars, netVars, resVars>>

AutoReconnectTimer ==
    /\ pc["auto"] = "a_delay"
    /\ IF isUserInitiatedDisconnect
       THEN /\ pc' = [pc EXCEPT !["auto"] = "none"]
            /\ arg' = [arg EXCEPT !["auto"] = NoProfile]
            /\ UNCHANGED <<orphans, isAutoReconnecting, autoFlag>>
       ELSE /\ LaunchConnect([pc EXCEPT !["auto"] = "none"],
                             [arg EXCEPT !["auto"] = NoProfile], arg["auto"])
            /\ isAutoReconnecting' = FALSE
            /\ autoFlag' = TRUE
    /\ UNCHANGED <<envVars, lifeVars, isReconnecting, isKillSwitchActive,
                   isUserInitiatedDisconnect, connectionWasSuccessful, countVars,
                   netVars, currentProfileId, tun, hev, proxy>>

\* No network for 3 s.
NetworkLostTimer ==
    /\ pc["lost"] = "l_delay"
    /\ EnterFailure("lost", hev)
    /\ UNCHANGED <<envVars, lifeVars, arg, flagVars,
                   autoReconnectAttempt, netVars, resVars>>

\* The loop of the health check finds the proxy or tun2socks dead; it launches
\* a child coroutine on the main thread and ends.
HealthCheckFails ==
    /\ pc["health"] = "h_loop"
    /\ proxy = "down" \/ (~pref.proxyOnly /\ ~hev)
    /\ pc' = [pc EXCEPT !["health"] = "h_q"]
    /\ UNCHANGED <<envVars, lifeVars, arg, flagVars, countVars, netVars, resVars>>

HealthCheckReports ==
    /\ pc["health"] = "h_q"
    /\ EnterFailure("health", hev)
    /\ UNCHANGED <<envVars, lifeVars, arg, flagVars,
                   autoReconnectAttempt, netVars, resVars>>

\* onDnsPoolDead, on the main thread
DnsPoolDeadReports ==
    /\ pc["pool"] = "p_q"
    /\ IF Running("health")
       THEN EnterFailure("pool", hev)
       ELSE pc' = [pc EXCEPT !["pool"] = "none"] /\ UNCHANGED seamlessReconnectAttempts
    /\ UNCHANGED <<envVars, lifeVars, arg, flagVars,
                   autoReconnectAttempt, netVars, resVars>>

-----------------------------------------------------------------------------
(* handleNetworkChange(reason), the coroutine r                            *)

NetworkChangeIgnored(r) ==
    /\ pc[r] \in {"q", "q_rec"}
    /\ (grace /\ pc[r] = "q") \/ isReconnecting
    /\ pc' = [pc EXCEPT ![r] = "none"]
    /\ UNCHANGED <<envVars, lifeVars, arg, flagVars, countVars, netVars, resVars>>

NetworkChangeBegin(r) ==
    /\ pc[r] \in {"q", "q_rec"}
    /\ ~(grace /\ pc[r] = "q") /\ ~isReconnecting
    /\ \/ /\ currentProfileId # NoProfile
          /\ pc' = [pc EXCEPT ![r] = "r_stop", !["health"] = "none"]
          /\ isReconnecting' = TRUE
          /\ UNCHANGED autoFlag
       \/ \* no profile, or a deleted one: return, through the finally block
          /\ pc' = [pc EXCEPT ![r] = "none", !["health"] = "none"]
          /\ isReconnecting' = FALSE
          /\ autoFlag' = FALSE
    /\ UNCHANGED <<envVars, lifeVars, arg, isKillSwitchActive,
                   isAutoReconnecting, isUserInitiatedDisconnect,
                   connectionWasSuccessful, countVars, netVars, currentProfileId,
                   tun, hev, proxy, orphans>>

recStepUnchanged ==
    UNCHANGED <<envVars, lifeVars, arg, flagVars, autoReconnectAttempt,
                netVars, currentProfileId, tun, autoFlag, orphans>>

NetworkChangeStop(r) ==
    /\ pc[r] = "r_stop"
    /\ proxy' = "down"
    /\ pc' = [pc EXCEPT ![r] = "r_start"]
    /\ UNCHANGED <<hev, seamlessReconnectAttempts>>
    /\ recStepUnchanged

\* The proxy is started again and comes up, or does not.
NetworkChangeStart(r) ==
    /\ pc[r] = "r_start"
    /\ \/ /\ proxy' = "up"
          /\ pc' = [pc EXCEPT ![r] = "r_tun"]
          /\ UNCHANGED seamlessReconnectAttempts
       \/ proxy' = "down" /\ EnterFailure(r, hev)
    /\ UNCHANGED hev
    /\ recStepUnchanged

\* tun2socks is only looked at while it runs
NetworkChangeTun(r) ==
    /\ pc[r] = "r_tun"
    /\ pc' = [pc EXCEPT ![r] = IF ~pref.proxyOnly /\ hev THEN "r_probe" ELSE "r_fin"]
    /\ UNCHANGED <<hev, proxy, seamlessReconnectAttempts>>
    /\ recStepUnchanged

\* 3 s later its traffic has resumed, or it is restarted on the interface
NetworkChangeProbe(r) ==
    /\ pc[r] = "r_probe"
    /\ \/ hev /\ pc' = [pc EXCEPT ![r] = "r_fin"]
          /\ UNCHANGED <<hev, proxy, seamlessReconnectAttempts>>
       \/ hev' = tun /\ pc' = [pc EXCEPT ![r] = "r_fin"]
          /\ UNCHANGED <<proxy, seamlessReconnectAttempts>>
       \/ tun /\ hev' = FALSE /\ proxy' = "down" /\ EnterFailure(r, FALSE)
    /\ recStepUnchanged

NetworkChangeFinish(r) ==
    /\ pc[r] = "r_fin"
    /\ StartHealthCheck([pc EXCEPT ![r] = "none"])
    /\ isKillSwitchActive' = FALSE
    /\ Finally(r)
    /\ UNCHANGED <<envVars, lifeVars, arg, isAutoReconnecting,
                   isUserInitiatedDisconnect, connectionWasSuccessful,
                   autoReconnectAttempt, netVars, currentProfileId, tun, hev,
                   proxy, orphans>>

NetworkChangeStep(r) ==
    \/ NetworkChangeIgnored(r)
    \/ NetworkChangeBegin(r)
    \/ NetworkChangeStop(r)
    \/ NetworkChangeStart(r)
    \/ NetworkChangeTun(r)
    \/ NetworkChangeProbe(r)
    \/ NetworkChangeFinish(r)

-----------------------------------------------------------------------------
(* disconnect(), onRevoke()                                                *)

\* The part that runs at once.  No coroutine of handleNetworkChange is among
\* the ones it cancels.
DisconnectCancelsMutant == {"auto", "debounce", "lost"}   \* not connectJob

DisconnectCancels == {"auto", "connect", "debounce", "lost"}
Disconnect(byUser) ==
    /\ ~Running("disconnect")       \* bound: one disconnect under way
    /\ isUserInitiatedDisconnect' = (byUser \/ isUserInitiatedDisconnect)
    /\ isKillSwitchActive' = FALSE
    /\ isAutoReconnecting' = FALSE
    /\ autoReconnectAttempt' = 0
    /\ connectionWasSuccessful' = FALSE
    /\ autoFlag' = FALSE
    /\ isReconnecting' = FALSE
    /\ pc' = [h \in Hosts |-> IF h \in DisconnectCancels THEN "none"
                              ELSE IF h = "disconnect" THEN "d_q" ELSE pc[h]]
    /\ arg' = [h \in Hosts |-> IF h \in DisconnectCancels THEN NoProfile ELSE arg[h]]
    /\ orphans' = orphans \cup OrphansOf(DisconnectCancels)
    /\ UNCHANGED <<seamlessReconnectAttempts, netVars,
                   currentProfileId, tun, hev, proxy>>

\* disconnectJob: clearConnectionState, cleanupConnection
DisconnectBegin ==
    /\ pc["disconnect"] = "d_q"
    /\ saved' = NoProfile
    /\ grace' = FALSE
    /\ CleanupBegin("disconnect", "d_io")
    /\ UNCHANGED <<envVars, svc, intents, want, arg, isKillSwitchActive,
                   isAutoReconnecting, isUserInitiatedDisconnect,
                   connectionWasSuccessful, countVars, currentProfileId, tun, hev,
                   proxy, autoFlag>>

\* onVpnDisconnected, stopForeground, stopSelf
DisconnectEnd ==
    /\ pc["disconnect"] = "d_io"
    /\ CleanupEnd(TRUE)
    /\ pc' = [pc EXCEPT !["disconnect"] = "none"]
    /\ UNCHANGED <<envVars, intents, saved, want, arg, flagVars,
                   countVars, netVars, autoFlag, orphans>>

-----------------------------------------------------------------------------
(* Android: delivery of start commands, the death of the service.          *)

\* A command is bound to the instance that lives when it is sent.  stopSelf()
\* carries no start id, so commands sent before it do not keep the service.
Send(c, p) ==
    /\ Len(intents) < MaxIntents
    /\ intents' = Append(intents, [cmd |-> c, profile |-> p,
                     fresh |-> svc \in {"none", "killed", "destroying"}])
    /\ svc' = IF svc = "bound" THEN "started" ELSE svc

\* The head of intents is a command c that an instance, old or new, takes.
Deliver(c) ==
    /\ intents # <<>>
    /\ Head(intents).cmd = c
    /\ Head(intents).fresh <=> svc \in {"none", "killed"}
    /\ intents' = [i \in 1..Len(Tail(intents)) |->
                     [Tail(intents)[i] EXCEPT !.fresh = @ /\ svc = "destroying"]]
    /\ svc' = IF Head(intents).fresh THEN "started" ELSE svc
    /\ UNCHANGED <<envVars, saved, want>>

\* onStartCommand(ACTION_CONNECT)
StartConnect ==
    /\ Deliver("connect")
    /\ LaunchConnect(pc, arg, Head(intents).profile)
    /\ UNCHANGED <<flagVars, countVars, netVars, currentProfileId, tun,
                   hev, proxy, autoFlag>>

\* onStartCommand(ACTION_DISCONNECT)
StartDisconnect ==
    /\ Deliver("disconnect")
    /\ Disconnect(TRUE)

\* onStartCommand(ACTION_RECONNECT): handleNetworkChange("manual reconnect")
StartReconnect ==
    /\ Deliver("reconnect")
    /\ \E r \in Recs :
          /\ pc[r] = "none"
          /\ pc' = [pc EXCEPT ![r] = "q"]
    /\ UNCHANGED <<arg, flagVars, countVars, netVars, resVars>>

\* onStartCommand(null) after the process was killed: handleServiceRestart
StickyRestart ==
    /\ svc = "killed"
    /\ intents = <<>>
    /\ IF saved # NoProfile
       THEN svc' = "started" /\ LaunchConnect(pc, arg, saved)
       ELSE svc' = "destroying" /\ UNCHANGED <<pc, arg, orphans>>
    /\ UNCHANGED <<envVars, intents, saved, want, flagVars, countVars,
                   netVars, currentProfileId, tun, hev, proxy, autoFlag>>

\* The fields of an instance that is gone.
InstanceGone ==
    /\ pc' = [h \in Hosts |-> "none"]
    /\ arg' = [h \in Hosts |-> NoProfile]
    /\ isReconnecting' = FALSE
    /\ isKillSwitchActive' = FALSE
    /\ isAutoReconnecting' = FALSE
    /\ isUserInitiatedDisconnect' = FALSE
    /\ connectionWasSuccessful' = FALSE
    /\ seamlessReconnectAttempts' = 0
    /\ autoReconnectAttempt' = 0
    /\ netCb' = FALSE
    /\ currentNetwork' = FALSE
    /\ grace' = FALSE
    /\ autoFlag' = FALSE

\* What cleanupConnectionSync stops and closes.
CleanupConnectionSyncMutant == \* forgets the interface
    /\ hev' = FALSE
    /\ proxy' = "down"
    /\ currentProfileId' = NoProfile
    /\ UNCHANGED tun

CleanupConnectionSync ==
    /\ hev' = FALSE
    /\ proxy' = "down"
    /\ tun' = FALSE
    /\ currentProfileId' = NoProfile

\* onDestroy: cleanupConnectionSync, clearConnectionState, serviceScope.cancel
OnDestroy ==
    /\ svc = "destroying"
    /\ \A i \in 1..Len(intents) : intents[i].fresh
    /\ InstanceGone
    /\ CleanupConnectionSync
    /\ orphans' = orphans \cup OrphansOf(Hosts)
    /\ svc' = "none"
    /\ saved' = NoProfile
    /\ UNCHANGED <<envVars, intents, want>>

\* A blocking call of a cancelled coroutine ends: the client it was starting
\* runs (or did not start), what it was stopping has stopped.
OrphanStart ==
    /\ "start" \in orphans
    /\ orphans' = orphans \ {"start"}
    /\ proxy' \in {proxy, "orphan"}
    /\ UNCHANGED <<envVars, lifeVars, jobVars, flagVars, countVars, netVars,
                   currentProfileId, tun, hev, autoFlag>>

OrphanStop ==
    /\ "stop" \in orphans
    /\ orphans' = orphans \ {"stop"}
    /\ hev' \in {hev, FALSE}       \* tun2socks may have been stopped before
    /\ proxy' = "down"
    /\ UNCHANGED <<envVars, lifeVars, jobVars, flagVars, countVars, netVars,
                   currentProfileId, tun, autoFlag>>

GraceEnds ==
    /\ grace
    /\ grace' = FALSE
    /\ UNCHANGED <<envVars, lifeVars, jobVars, flagVars, countVars, netCb,
                   currentNetwork, resVars>>

-----------------------------------------------------------------------------
(* Events from outside, MaxInputs of them.                                 *)

Input == inputs > 0 /\ inputs' = inputs - 1 /\ UNCHANGED pref

\* VpnConnectionManager.connect, for which no connection may exist, and
\* reconnect, for another profile than the connected one
UserConnects ==
    /\ Input
    /\ \E p \in Profiles :
          /\ p # want \/ svc # "started"
          /\ Send("connect", p)
          /\ want' = p
    /\ UNCHANGED <<saved, jobVars, flagVars, countVars, netVars, resVars>>

\* VpnConnectionManager.disconnect
UserDisconnects ==
    /\ Input
    /\ want # NoProfile
    /\ Send("disconnect", NoProfile)
    /\ want' = NoProfile
    /\ UNCHANGED <<saved, jobVars, flagVars, countVars, netVars, resVars>>

\* The Reconnect button of the notification that shows "Connected"
UserReconnects ==
    /\ Input
    /\ svc = "started" /\ want # NoProfile
    /\ connectionWasSuccessful /\ ~isKillSwitchActive /\ ~isAutoReconnecting
    /\ ~Running("connect") /\ ~Running("disconnect")
    /\ Send("reconnect", NoProfile)
    /\ UNCHANGED <<saved, want, jobVars, flagVars, countVars, netVars, resVars>>

\* onTaskRemoved: the app is swiped away
TaskRemoved ==
    /\ Input
    /\ currentProfileId # NoProfile
    /\ saved' = currentProfileId
    /\ Send("connect", currentProfileId)
    /\ UNCHANGED <<want, jobVars, flagVars, countVars, netVars, resVars>>

\* onRevoke: another VPN takes over
Revoked ==
    /\ Input
    /\ tun
    /\ Disconnect(FALSE)
    /\ want' = NoProfile
    /\ UNCHANGED <<svc, intents, saved>>

\* debouncedReconnect(reason)
DebouncedReconnect ==
    /\ pc' = [pc EXCEPT !["lost"] = "none", !["debounce"] = "b_delay"]
    /\ orphans' = orphans \cup OrphansOf({"lost"})

\* onAvailable; a first network inside the quiet period is only noted
NetworkAvailable ==
    /\ Input
    /\ netCb
    /\ currentNetwork' = TRUE
    /\ \/ DebouncedReconnect
       \/ /\ grace
          /\ pc' = [pc EXCEPT !["lost"] = "none"]
          /\ orphans' = orphans \cup OrphansOf({"lost"})
    /\ UNCHANGED <<lifeVars, arg, flagVars, countVars, netCb, grace,
                   currentProfileId, tun, hev, proxy, autoFlag>>

\* onLost of the current network
NetworkLost ==
    /\ Input
    /\ netCb /\ currentNetwork
    /\ currentNetwork' = FALSE
    /\ pc' = [pc EXCEPT !["lost"] = "l_delay"]
    /\ orphans' = orphans \cup OrphansOf({"lost"})
    /\ UNCHANGED <<lifeVars, arg, flagVars, countVars, netCb, grace,
                   currentProfileId, tun, hev, proxy, autoFlag>>

\* onLinkPropertiesChanged with other addresses or DNS servers, or the end of
\* Doze with an unhealthy proxy
LinkOrDozeChange ==
    /\ Input
    /\ netCb
    /\ currentNetwork \/ proxy = "down"
    /\ DebouncedReconnect
    /\ UNCHANGED <<lifeVars, arg, flagVars, countVars, netVars,
                   currentProfileId, tun, hev, proxy, autoFlag>>

ProxyDies ==
    /\ Input
    /\ proxy # "down"
    /\ proxy' = "down"
    /\ UNCHANGED <<lifeVars, jobVars, flagVars, countVars, netVars,
                   currentProfileId, tun, hev, autoFlag, orphans>>

Tun2SocksDies ==
    /\ Input
    /\ hev
    /\ hev' = FALSE
    /\ UNCHANGED <<lifeVars, jobVars, flagVars, countVars, netVars,
                   currentProfileId, tun, proxy, autoFlag, orphans>>

\* The loop of the health check finds a stall, a dead QUIC or SSH session, dead
\* DNS workers or exhausted CONNECT slots.
TunnelStalls ==
    /\ Input
    /\ pc["health"] = "h_loop"
    /\ pc' = [pc EXCEPT !["health"] = "h_q"]
    /\ UNCHANGED <<lifeVars, arg, flagVars, countVars, netVars, resVars>>

\* DnsttSocksBridge calls onDnsPoolDead, set by startHealthCheck
DnsPoolDies ==
    /\ Input
    /\ pc["health"] = "h_loop" /\ pc["pool"] = "none"
    /\ proxy # "down"
    /\ pc' = [pc EXCEPT !["pool"] = "p_q"]
    /\ UNCHANGED <<lifeVars, arg, flagVars, countVars, netVars, resVars>>

\* The system kills the process and, if the service was started, restarts it.
ProcessKilled ==
    /\ Input
    /\ svc # "none" /\ svc # "killed"
    /\ InstanceGone
    /\ tun' = FALSE /\ hev' = FALSE /\ proxy' = "down"
    /\ currentProfileId' = NoProfile
    /\ orphans' = {}
    /\ svc' = IF svc = "started" THEN "killed" ELSE "none"
    /\ intents' = [i \in DOMAIN intents |-> [intents[i] EXCEPT !.fresh = TRUE]]
    /\ UNCHANGED <<saved, want>>

-----------------------------------------------------------------------------

ConnectStep ==
    \/ ConnectJoin
    \/ ConnectStopAll
    \/ ConnectClean
    \/ ConnectLoad
    \/ ConnectVpn
    \/ ConnectProxy
    \/ ConnectTun
    \/ ConnectFinish
    \/ ConnectCatch

DisconnectStep == DisconnectBegin \/ DisconnectEnd

\* What the scheduler, the timers and Android do by themselves.
System ==
    \/ ConnectStep
    \/ DisconnectStep
    \/ \E h \in Hosts : FailureStep(h)
    \/ \E r \in Recs : NetworkChangeStep(r)
    \/ KillSwitchTimer
    \/ DebounceTimer
    \/ AutoReconnectTimer
    \/ NetworkLostTimer
    \/ HealthCheckFails
    \/ HealthCheckReports
    \/ DnsPoolDeadReports
    \/ StartConnect
    \/ StartDisconnect
    \/ StartReconnect
    \/ StickyRestart
    \/ OnDestroy
    \/ OrphanStart
    \/ OrphanStop
    \/ GraceEnds

Environment ==
    \/ UserConnects
    \/ UserDisconnects
    \/ UserReconnects
    \/ TaskRemoved
    \/ Revoked
    \/ NetworkAvailable
    \/ NetworkLost
    \/ LinkOrDozeChange
    \/ ProxyDies
    \/ Tun2SocksDies
    \/ TunnelStalls
    \/ DnsPoolDies
    \/ ProcessKilled

Next == System \/ Environment

Spec == Init /\ [][Next]_vars

\* A suspended coroutine is resumed, a timer fires, a blocking call returns, a
\* start command is delivered, a stopped service is destroyed.  Nothing is
\* assumed of the user, the network or the tunnel.
Fairness ==
    /\ WF_vars(ConnectStep)
    /\ WF_vars(DisconnectStep)
    /\ \A h \in Hosts : WF_vars(FailureStep(h))
    /\ \A r \in Recs : WF_vars(NetworkChangeStep(r))
    /\ WF_vars(KillSwitchTimer)
    /\ WF_vars(DebounceTimer)
    /\ WF_vars(AutoReconnectTimer)
    /\ WF_vars(NetworkLostTimer)
    /\ WF_vars(HealthCheckFails \/ HealthCheckReports)
    /\ WF_vars(DnsPoolDeadReports)
    /\ WF_vars(StartConnect \/ StartDisconnect \/ StartReconnect)
    /\ WF_vars(StickyRestart)
    /\ WF_vars(OnDestroy)
    /\ WF_vars(OrphanStart)
    /\ WF_vars(OrphanStop)
    /\ WF_vars(GraceEnds)

FairSpec == Spec /\ Fairness

-----------------------------------------------------------------------------
(* Properties.                                                             *)

\* The three parts of the type invariant, which the provers treat differently.
FlagsOK ==
    /\ isReconnecting \in BOOLEAN
    /\ isKillSwitchActive \in BOOLEAN
    /\ isAutoReconnecting \in BOOLEAN
    /\ isUserInitiatedDisconnect \in BOOLEAN
    /\ connectionWasSuccessful \in BOOLEAN
    /\ netCb \in BOOLEAN
    /\ currentNetwork \in BOOLEAN
    /\ grace \in BOOLEAN
    /\ tun \in BOOLEAN
    /\ hev \in BOOLEAN
    /\ autoFlag \in BOOLEAN

JobsOK ==
    /\ pc \in [Hosts -> Pcs]
    /\ arg \in [Hosts -> Profiles \cup {NoProfile}]

StateOK ==
    /\ pref \in Pref
    /\ inputs \in 0..MaxInputs
    /\ svc \in {"none", "started", "bound", "destroying", "killed"}
    /\ intents \in Seq(Commands)
    /\ saved \in Profiles \cup {NoProfile}
    /\ want \in Profiles \cup {NoProfile}
    /\ seamlessReconnectAttempts \in 0..MaxSeamless
    /\ autoReconnectAttempt \in 0..MaxAuto
    /\ currentProfileId \in Profiles \cup {NoProfile}
    /\ proxy \in {"down", "up", "orphan"}
    /\ orphans \subseteq {"start", "stop"}

\* Every variable has its type; in particular the two retry counters never
\* pass MAX_SEAMLESS_RECONNECTS and AUTO_RECONNECT_MAX_RETRIES.
TypeOK == FlagsOK /\ JobsOK /\ StateOK

\* isReconnecting, the flag that makes handleNetworkChange refuse to run twice,
\* is set only while such a coroutine is inside its try block: no early return,
\* failure path, cancellation or destruction leaves it set with nobody to reset
\* it, which would end every later recovery.
ReconnectFlagOwned == isReconnecting => \E r \in Recs : Reconnecting(r)

\* However the service ends (stopSelf on any path, with a connect() or a
\* recovery still under way, or the process killed), no coroutine and no network
\* callback of it is left to act, and no interface, tun2socks or proxy it
\* started.  Only a native client whose starting coroutine was cancelled can
\* come up later; connect() stops the kinds on its list before the next start.
NothingOutlivesService ==
    svc \in {"none", "killed"} =>
        /\ \A h \in Hosts : ~Running(h)
        /\ ~netCb /\ ~tun /\ ~hev /\ proxy # "up"

\* connect() reaches the new profile only after what belongs to another one is
\* gone: the interface of the old profile is never used for the new one.
SwitchCleansUp ==
    pc["connect"] = "c_load" => currentProfileId \in {NoProfile, arg["connect"]}

\* After disconnect() no interface is opened until connect() has accepted a new
\* profile, whatever connection attempt was under way.
NoTunAfterDisconnect == [][~tun /\ tun' => ~isUserInitiatedDisconnect]_vars

\* A reconnection ends: every path through handleNetworkChange and through the
\* failure handler inside it gives the flag back.
ReconnectEnds == isReconnecting ~> ~isReconnecting

\* connect() ends: connected, refused, failed, or turned into a failure handler.
ConnectEnds == pc["connect"] \in ConnectPcs ~> pc["connect"] \notin ConnectPcs

\* Once disconnecting has begun the service is some time without interface and
\* tun2socks and gone, even if connects, recoveries and failures interleave.
DisconnectTearsDown ==
    Running("disconnect") ~> svc \in {"none", "killed"} /\ ~tun /\ ~hev

\* What comments and documentation say that the code does not do.

\* "Successfully reconnected after network change": a reconnection that ends
\* kill switch mode leaves tun2socks running.
KillSwitchRestores ==
    \A r \in Recs : pc[r] = "r_fin" /\ isKillSwitchActive => hev

=============================================================================
