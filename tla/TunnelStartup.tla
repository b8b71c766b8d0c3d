---------------------------- MODULE TunnelStartup ----------------------------
(***************************************************************************)
(* What each kind of tunnel starts, in which order, and what is undone when*)
(* a step fails: the connectXxx functions of TZVPNVpnService, their stop   *)
(* and restart counterparts, and the part of VpnRepositoryImpl that stops  *)
(* the proxy behind the service's back.                                    *)
(*                                                                         *)
(* A start or a stop is a program: a sequence of steps, each with the      *)
(* program that replaces the rest when the step fails.  One connection at a*)
(* time; how connections, recoveries and failures interleave is the        *)
(* subject of VpnService.                                                  *)
(*                                                                         *)
(* Operators named ...Mutant are the forms a plausible bug would give to   *)
(* the definition that follows them; the specification does not use them.  *)
(***************************************************************************)
EXTENDS Naturals, Sequences

CONSTANTS
    Kinds,        \* the kinds of profile considered
    MaxTransports,\* Tor transports that Smart Connect tries (4 in the code)
    LateKinds     \* those whose blocking starts may outlive their coroutine

\* A tunnel type of the code stands for itself, with three exceptions.
\* NOIZDNS(_SSH) is treated in every respect as DNSTT(_SSH).  VLESS profiles
\* with REALITY security and SNOWFLAKE profiles with SMART bridge lines take a
\* path of their own through connectVless and connectSnowflake.
AllKinds == {"SLIPSTREAM", "SLIPSTREAM_SSH", "DNSTT", "DNSTT_SSH", "VAYDNS",
             "VAYDNS_SSH", "SSH", "DOH", "NAIVE", "NAIVE_SSH", "SNOWFLAKE",
             "SNOWFLAKE_SMART", "SOCKS5", "VLESS", "VLESS_REALITY", "HYSTERIA2"}

ASSUME KindsAssumption == Kinds \subseteq AllKinds /\ LateKinds \subseteq Kinds
ASSUME BoundsAssumption == MaxTransports \in Nat \ {0}

\* currentTunnelType of a profile
TunnelType(k) == CASE k = "VLESS_REALITY" -> "VLESS"
                   [] k = "SNOWFLAKE_SMART" -> "SNOWFLAKE"
                   [] OTHER -> k

\* Clients listen behind a bridge, on proxyPort + 1; bridges and the clients
\* that need none listen on proxyPort.
Clients == {"Slipstream", "Dnstt", "Vaydns", "Naive", "Snowflake"}
Listeners == {"SlipstreamSocks", "DnsttSocks", "Ssh", "NaiveSocks", "TorSocks",
              "Socks5", "Vless", "Reality", "Hysteria2", "Doh"}
Components == Clients \cup Listeners \cup {"Http", "Hev"}

VARIABLES
    kind,      \* the profile of currentProfileId, "none" for -1
    type,      \* currentTunnelType of the service
    repoType,  \* currentTunnelType of VpnRepositoryImpl, "none" for null
    proxyOnly, \* isProxyOnly
    phase,     \* what todo is for, or what has been reached
    todo,      \* the rest of the program
    running,   \* components that run: process-wide singletons
    tun,       \* vpnInterface # null
    refs,      \* clients that hold a reference to the service
    late,      \* starts whose coroutine has been cancelled
    fault,     \* something has died since the last start or restart
    overruns   \* in this behaviour cancelled starts may go on

vars == <<kind, type, repoType, proxyOnly, phase, todo, running, tun, refs,
          late, fault, overruns>>

Phases == {"idle", "starting", "connected", "restarting", "broken", "blocking",
           "stopping", "stopped"}

-----------------------------------------------------------------------------
(* Programs.                                                               *)

Do(op, c) == [op |-> op, c |-> c, orElse |-> <<>>]
Try(op, c, u) == [op |-> op, c |-> c, orElse |-> u]
Stop(c) == Do("stop", c)
StopSelf == Do("stopSelf", "-")
Close == Do("close", "-")

\* stopCurrentProxy(): the HTTP proxy, then what the type consists of, front first
StopCurrentProxyMutant(t) == <<Stop("Http")>> \o   \* the clients first
    CASE t = "SLIPSTREAM" -> <<Stop("Slipstream"), Stop("SlipstreamSocks")>>
      [] t = "SLIPSTREAM_SSH" -> <<Stop("Slipstream"), Stop("Ssh")>>
      [] t = "NAIVE" -> <<Stop("Naive"), Stop("NaiveSocks")>>
      [] OTHER -> <<>>

StopCurrentProxy(t) == <<Stop("Http")>> \o
    CASE t = "SLIPSTREAM" -> <<Stop("SlipstreamSocks"), Stop("Slipstream")>>
      [] t = "SLIPSTREAM_SSH" -> <<Stop("Ssh"), Stop("Slipstream")>>
      [] t = "DNSTT" -> <<Stop("DnsttSocks"), Stop("Dnstt")>>
      [] t = "VAYDNS" -> <<Stop("DnsttSocks"), Stop("Vaydns")>>
      [] t = "SSH" -> <<Stop("Ssh")>>
      [] t = "DNSTT_SSH" -> <<Stop("Ssh"), Stop("DnsttSocks"), Stop("Dnstt")>>
      [] t = "VAYDNS_SSH" -> <<Stop("Ssh"), Stop("Vaydns")>>
      [] t = "DOH" -> <<Stop("Doh")>>
      [] t = "NAIVE_SSH" -> <<Stop("Ssh"), Stop("Naive")>>
      [] t = "NAIVE" -> <<Stop("NaiveSocks"), Stop("Naive")>>
      [] t = "SNOWFLAKE" -> <<Stop("TorSocks"), Stop("Snowflake")>>
      [] t = "SOCKS5" -> <<Stop("Socks5")>>
      [] t = "VLESS" -> <<Stop("Vless")>>
      [] t = "HYSTERIA2" -> <<Stop("Hysteria2")>>

\* clearVpnServiceRef()
ClearVpnServiceRef(t) ==
    CASE t \in {"SLIPSTREAM", "SLIPSTREAM_SSH"} -> <<Do("unref", "Slipstream")>>
      [] t \in {"DNSTT", "DNSTT_SSH"} -> <<Do("unref", "Dnstt")>>
      [] OTHER -> <<>>

\* VpnRepositoryImpl.stopCurrentProxy(), called when tun2socks does not start
RepoStopCurrentProxy(t) ==
    CASE t = "SLIPSTREAM" -> <<Stop("SlipstreamSocks"), Stop("Slipstream")>>
      [] t = "SLIPSTREAM_SSH" -> <<Stop("Ssh"), Stop("Slipstream")>>
      [] t = "DNSTT" -> <<Stop("Dnstt")>>
      [] t = "VAYDNS" -> <<Stop("Vaydns")>>
      [] t = "SSH" -> <<Stop("Ssh")>>
      [] t = "DNSTT_SSH" -> <<Stop("Ssh"), Stop("Dnstt")>>
      [] t = "VAYDNS_SSH" -> <<Stop("Ssh"), Stop("Vaydns")>>
      [] t = "DOH" -> <<Stop("Doh")>>
      [] t = "SNOWFLAKE" -> <<Stop("TorSocks"), Stop("Snowflake")>>
      [] t = "SOCKS5" -> <<Stop("Socks5")>>
      [] t = "VLESS" -> <<Stop("Reality"), Stop("Vless")>>
      [] t = "HYSTERIA2" -> <<Stop("Hysteria2")>>
      [] t = "none" -> <<Stop("SlipstreamSocks"), Stop("Slipstream"), Stop("Dnstt"),
                         Stop("Vaydns"), Stop("Ssh"), Stop("TorSocks"),
                         Stop("Snowflake"), Stop("NaiveSocks"), Stop("Naive")>>

\* cleanupConnection(), and cleanupConnectionSync() but for what it cancels
CleanupConnectionMutant(t, po) ==      \* closes first, stops afterwards
    <<Close>> \o ClearVpnServiceRef(t)
    \o (IF po THEN <<>> ELSE <<Stop("Hev")>>)
    \o StopCurrentProxy(t) \o <<Do("forget", "-")>>

CleanupConnection(t, po) ==
    (IF po THEN <<>> ELSE <<Stop("Hev")>>)
    \o StopCurrentProxy(t) \o ClearVpnServiceRef(t)
    \o <<Close, Do("forget", "-")>>

\* "Stop ALL bridge types", at the start of connect()
StopAllBridges(t) ==
    StopCurrentProxy(t)
    \o <<Stop("Hev"), Stop("DnsttSocks"), Stop("Ssh"), Stop("SlipstreamSocks"),
         Stop("NaiveSocks"), Stop("TorSocks"), Stop("Socks5"), Stop("Dnstt"),
         Stop("Vaydns"), Stop("Slipstream")>>

\* handleProxyStartupFailure()
HandleProxyStartupFailure(t) == StopCurrentProxy(t) \o ClearVpnServiceRef(t)

\* Steps of a start.  Each failure path ends with stopSelf().
Start(c, u) == Try("start", c, u \o <<StopSelf>>)
Ready(c, u) == Try("ready", c, u \o <<StopSelf>>)
OpenTun(u)  == Try("tun", "-", u \o <<StopSelf>>)
Tun2Socks(u) == Try("hev", "-", u \o <<StopSelf>>)

-----------------------------------------------------------------------------
(* connectXxx(): proxy-only mode leaves out the interface and tun2socks.   *)

connectSlipstream ==
    LET P == HandleProxyStartupFailure("SLIPSTREAM")
        R == ClearVpnServiceRef("SLIPSTREAM")
    IN <<Do("ref", "Slipstream"),
         Start("Slipstream", R), Ready("Slipstream", P),
         Start("SlipstreamSocks", P), Ready("SlipstreamSocks", P),
         OpenTun(P), Tun2Socks(<<Close>> \o R)>>

connectSlipstreamSsh ==
    LET P == HandleProxyStartupFailure("SLIPSTREAM_SSH")
        R == ClearVpnServiceRef("SLIPSTREAM_SSH")
        C == <<Stop("Slipstream")>> \o R
    IN <<Do("ref", "Slipstream"),
         Start("Slipstream", R), Ready("Slipstream", P),
         Ready("Slipstream", C),                    \* waitForQuicReady
         Do("repo", "SLIPSTREAM_SSH"),
         Start("Ssh", C), Ready("Ssh", <<Stop("Ssh")>> \o C),
         OpenTun(<<Stop("Ssh")>> \o C),
         Tun2Socks(<<Stop("Ssh"), Stop("Slipstream"), Close>> \o R)>>

connectDnstt ==
    LET P == HandleProxyStartupFailure("DNSTT")
        R == ClearVpnServiceRef("DNSTT")
    IN <<Do("ref", "Dnstt"),
         OpenTun(R),
         Start("Dnstt", <<Close>> \o R), Ready("Dnstt", P \o <<Close>>),
         Start("DnsttSocks", P), Ready("DnsttSocks", P),
         Tun2Socks(<<Close>> \o R)>>

connectDnsttSsh ==
    LET P == HandleProxyStartupFailure("DNSTT_SSH")
        R == ClearVpnServiceRef("DNSTT_SSH")
        C == <<Stop("Dnstt"), Close>> \o R
    IN <<Do("ref", "Dnstt"),
         OpenTun(R),
         Start("Dnstt", <<Close>> \o R), Ready("Dnstt", P \o <<Close>>),
         Do("repo", "DNSTT_SSH"),
         Start("Ssh", C), Ready("Ssh", <<Stop("Ssh")>> \o C),
         Tun2Socks(<<Stop("Ssh")>> \o C)>>

connectVaydns ==
    LET P == HandleProxyStartupFailure("VAYDNS")
    IN <<OpenTun(<<>>),
         Start("Vaydns", <<Close>>), Ready("Vaydns", P \o <<Close>>),
         Start("DnsttSocks", P), Ready("DnsttSocks", P),
         Tun2Socks(<<Close>>)>>

connectVaydnsSsh ==
    LET P == HandleProxyStartupFailure("VAYDNS_SSH")
        C == <<Stop("Vaydns"), Close>>
    IN <<OpenTun(<<>>),
         Start("Vaydns", <<Close>>), Ready("Vaydns", P \o <<Close>>),
         Do("repo", "VAYDNS_SSH"),
         Start("Ssh", C), Ready("Ssh", <<Stop("Ssh")>> \o C),
         Tun2Socks(<<Stop("Ssh")>> \o C)>>

connectSsh ==
    <<Do("repo", "SSH"),
      OpenTun(<<>>),
      Start("Ssh", <<Close>>), Ready("Ssh", <<Stop("Ssh"), Close>>),
      Tun2Socks(<<Stop("Ssh"), Close>>)>>

\* NaiveProxy with c in front of it; the repository's type is left as it was
overNaive(c) ==
    <<OpenTun(<<>>),
      Start("Naive", <<Close>>), Ready("Naive", <<Stop("Naive"), Close>>),
      Start(c, <<Stop("Naive"), Close>>),
      Ready(c, <<Stop(c), Stop("Naive"), Close>>),
      Tun2Socks(<<Stop(c), Stop("Naive"), Close>>)>>
connectNaiveMutant ==          \* relies on the repository to stop the bridge
    [overNaive("NaiveSocks") EXCEPT ![6] = Tun2Socks(<<Close>>)]
connectNaive == overNaive("NaiveSocks")
connectNaiveSsh == overNaive("Ssh")

connectDoh ==
    <<OpenTun(<<>>),
      Start("Doh", <<Close>>),
      Ready("Doh", HandleProxyStartupFailure("DOH") \o <<Close>>),
      Tun2Socks(<<Close>>)>>

\* VpnRepositoryImpl.startSnowflakeProxy(); u undoes a failure of either part
startSnowflakeProxy(u) ==
    <<Try("start", "Snowflake", u),
      Try("start", "TorSocks", <<Stop("Snowflake")>> \o u)>>

connectSnowflake ==
    LET P == HandleProxyStartupFailure("SNOWFLAKE")
    IN startSnowflakeProxy(<<StopSelf>>)
       \o <<Ready("Snowflake", P),                  \* waitForTorReady
            Ready("TorSocks", P),
            OpenTun(P), Tun2Socks(<<Close>>)>>

\* A transport that does not come up is replaced by the next one.
connectSnowflakeSmart ==
    LET Rest == <<OpenTun(StopCurrentProxy("SNOWFLAKE")), Tun2Socks(<<Close>>),
                  Do("finish", "-")>>
        transports[n \in 0..MaxTransports] ==
            IF n = 0 THEN <<StopSelf>>
            ELSE LET next == <<Stop("TorSocks"), Stop("Snowflake")>> \o transports[n-1]
                 IN startSnowflakeProxy(transports[n-1])
                    \o <<Try("ready", "Snowflake", next), Try("ready", "TorSocks", next)>>
                    \o Rest
    IN transports[MaxTransports]

connectSocks5 ==
    <<Do("repo", "SOCKS5"),
      OpenTun(<<>>),
      Start("Socks5", <<Close>>), Ready("Socks5", <<Stop("Socks5"), Close>>),
      Tun2Socks(<<Stop("Socks5"), Close>>)>>

connectVless ==
    <<Do("repo", "VLESS"),
      OpenTun(<<>>),
      Start("Vless", <<Close>>), Ready("Vless", <<Stop("Vless"), Close>>),
      Ready("Vless", <<Stop("Vless"), Close>>),     \* probe of the server
      Tun2Socks(<<Stop("Vless"), Close>>)>>

connectVlessReality ==
    <<Do("repo", "VLESS"),
      OpenTun(<<>>),
      Start("Reality", <<Close>>), Ready("Reality", <<Stop("Reality"), Close>>),
      Tun2Socks(<<Stop("Reality"), Close>>)>>

connectHysteria2 ==
    <<Do("repo", "HYSTERIA2"),
      OpenTun(<<>>),
      Start("Hysteria2", <<Close>>), Ready("Hysteria2", <<Stop("Hysteria2"), Close>>),
      Tun2Socks(<<Stop("Hysteria2"), Close>>)>>

\* The dispatch at the end of connect(), and finishConnection()
connectOf(k) ==
    IF k = "SNOWFLAKE_SMART" THEN connectSnowflakeSmart
    ELSE (CASE k = "SLIPSTREAM" -> connectSlipstream
            [] k = "SLIPSTREAM_SSH" -> connectSlipstreamSsh
            [] k = "DNSTT" -> connectDnstt
            [] k = "DNSTT_SSH" -> connectDnsttSsh
            [] k = "VAYDNS" -> connectVaydns
            [] k = "VAYDNS_SSH" -> connectVaydnsSsh
            [] k = "SSH" -> connectSsh
            [] k = "DOH" -> connectDoh
            [] k = "NAIVE" -> connectNaive
            [] k = "NAIVE_SSH" -> connectNaiveSsh
            [] k = "SNOWFLAKE" -> connectSnowflake
            [] k = "SOCKS5" -> connectSocks5
            [] k = "VLESS" -> connectVless
            [] k = "VLESS_REALITY" -> connectVlessReality
            [] k = "HYSTERIA2" -> connectHysteria2) \o <<Do("finish", "-")>>

-----------------------------------------------------------------------------
(* handleNetworkChange(): the proxy is stopped and started again, the      *)
(* interface stays.  A failure is left to handleTunnelFailure.             *)

Broken == Do("broken", "-")
Again(c) == <<Try("start", c, <<Broken>>), Try("ready", c, <<Broken>>)>>
WaitPort == Try("ready", "proxyPort", <<Broken>>)

\* stopClientBlocking(), once more
DrainPort(t) ==
    CASE t \in {"DNSTT", "DNSTT_SSH"} -> <<Stop("Dnstt")>>
      [] t \in {"VAYDNS", "VAYDNS_SSH"} -> <<Stop("Vaydns")>>
      [] OTHER -> <<>>

restartMutant(t) == <<>>       \* the proxy is taken to have survived

restart(t) ==
    CASE t = "SSH" -> Again("Ssh")
      [] t = "DNSTT_SSH" -> Again("Dnstt") \o <<Do("repo", t)>> \o Again("Ssh")
      [] t = "VAYDNS_SSH" -> Again("Vaydns") \o <<Do("repo", t)>> \o Again("Ssh")
      [] t = "SLIPSTREAM_SSH" -> Again("Slipstream") \o <<Do("repo", t)>> \o Again("Ssh")
      [] t = "SLIPSTREAM" -> Again("Slipstream") \o Again("SlipstreamSocks")
      [] t = "DNSTT" -> Again("Dnstt") \o Again("DnsttSocks")
      [] t = "VAYDNS" -> Again("Vaydns") \o Again("DnsttSocks")
      [] t = "NAIVE_SSH" -> Again("Naive") \o Again("Ssh")
      [] t = "NAIVE" -> Again("Naive") \o Again("NaiveSocks")
      [] t = "DOH" -> Again("Doh")
      [] t = "SNOWFLAKE" -> startSnowflakeProxy(<<Broken>>) \o <<WaitPort>>
      [] OTHER -> <<WaitPort>>          \* Result.success(Unit) // handled above

HandleNetworkChange(t) ==
    StopCurrentProxy(t) \o DrainPort(t) \o restart(t)
    \o <<Try("retun", "-", <<Broken>>)>>
    \o (IF t = "SNOWFLAKE" THEN <<Try("ready", "Snowflake", <<Broken>>)>> ELSE <<>>)
    \o <<Do("finish", "-")>>

-----------------------------------------------------------------------------

Init ==
    /\ kind = "none"
    /\ type = "SLIPSTREAM"
    /\ repoType = "none"
    /\ proxyOnly = FALSE
    /\ phase = "idle"
    /\ todo = <<>>
    /\ running = {}
    /\ tun = FALSE
    /\ refs = {}
    /\ late = {}
    /\ fault = FALSE
    /\ overruns \in BOOLEAN

(* The steps of a program.                                                 *)

Step(op) == todo # <<>> /\ Head(todo).op = op
Component == Head(todo).c
Proceed == todo' = Tail(todo)
Fail == todo' = Head(todo).orElse

StopComponent ==
    /\ Step("stop")
    /\ running' = running \ {Component}
    /\ Proceed
    /\ UNCHANGED <<kind, type, repoType, proxyOnly, phase, tun, refs, late, fault, overruns>>

SetVpnService ==
    /\ \/ Step("ref") /\ refs' = refs \cup {Component}
       \/ Step("unref") /\ refs' = refs \ {Component}
    /\ Proceed
    /\ UNCHANGED <<kind, type, repoType, proxyOnly, phase, running, tun, late, fault, overruns>>

\* The repository's startXxxProxy functions note the type they have started.
SetCurrentTunnelType ==
    /\ Step("repo")
    /\ repoType' = Component
    /\ Proceed
    /\ UNCHANGED <<kind, type, proxyOnly, phase, running, tun, refs, late, fault, overruns>>

StartedType(c) ==
    CASE c = "Slipstream" -> "SLIPSTREAM"
      [] c = "Dnstt" -> "DNSTT"
      [] c = "Vaydns" -> "VAYDNS"
      [] c = "Doh" -> "DOH"
      [] c = "TorSocks" -> "SNOWFLAKE"
      [] OTHER -> repoType

StartComponent ==
    /\ Step("start")
    /\ \/ /\ running' = running \cup {Component}
          /\ repoType' = StartedType(Component)
          /\ Proceed
       \/ Fail /\ UNCHANGED <<running, repoType>>
    /\ UNCHANGED <<kind, type, proxyOnly, phase, tun, refs, late, fault, overruns>>

\* waitForProxyReady() and its relatives: whatever answers on the port will do
Listening(c) == IF c = "proxyPort" THEN running \cap Listeners # {} ELSE c \in running

WaitForProxyReady ==
    /\ Step("ready")
    /\ (Listening(Component) /\ Proceed) \/ Fail
    /\ UNCHANGED <<kind, type, repoType, proxyOnly, phase, running, tun, refs, late,
                   fault, overruns>>

\* vpnInterface = establishVpnInterface(); it may start the HTTP proxy first
EstablishVpnInterface ==
    /\ Step("tun") /\ ~proxyOnly
    /\ running' \in {running, running \cup {"Http"}}
    /\ (tun' = TRUE /\ Proceed) \/ (tun' = FALSE /\ Fail)
    /\ UNCHANGED <<kind, type, repoType, proxyOnly, phase, refs, late, fault, overruns>>

CloseVpnInterface ==
    /\ Step("close")
    /\ tun' = FALSE
    /\ Proceed
    /\ UNCHANGED <<kind, type, repoType, proxyOnly, phase, running, refs, late, fault, overruns>>

\* tun2socks does not start: VpnRepositoryImpl.stopCurrentProxy() runs first
Tun2SocksFails ==
    /\ todo' = RepoStopCurrentProxy(repoType) \o Head(todo).orElse
    /\ repoType' = "none"

StartTun2Socks ==
    /\ Step("hev") /\ ~proxyOnly
    /\ \/ running' = running \cup {"Hev"} /\ Proceed /\ UNCHANGED repoType
       \/ Tun2SocksFails /\ UNCHANGED running
    /\ UNCHANGED <<kind, type, proxyOnly, phase, tun, refs, late, fault, overruns>>

\* handleNetworkChange() looks at tun2socks only if it runs: it carries
\* traffic, or is restarted on the interface there is
CheckTun2Socks ==
    /\ Step("retun")
    /\ \/ Proceed /\ UNCHANGED <<running, repoType>>
       \/ /\ ~proxyOnly /\ "Hev" \in running /\ tun
          /\ Tun2SocksFails
          /\ running' = running \ {"Hev"}
    /\ UNCHANGED <<kind, type, proxyOnly, phase, tun, refs, late, fault, overruns>>

ProxyOnlySkips ==
    /\ Step("tun") \/ Step("hev")
    /\ proxyOnly
    /\ Proceed
    /\ UNCHANGED <<kind, type, repoType, proxyOnly, phase, running, tun, refs, late,
                   fault, overruns>>

\* connect() accepts the profile and goes on with its tunnel type, or refuses
AcceptProfile ==
    /\ Step("accept")
    /\ \/ /\ kind' = Component
          /\ type' = TunnelType(Component)
          /\ proxyOnly' \in BOOLEAN
          /\ todo' = connectOf(Component)
          /\ fault' = FALSE
       \/ /\ todo' = <<StopSelf>>
          /\ UNCHANGED <<kind, type, proxyOnly, fault>>
    /\ UNCHANGED <<repoType, phase, running, tun, refs, late, overruns>>

\* finishConnection() and the end of handleNetworkChange() start the HTTP proxy
FinishConnection ==
    /\ Step("finish")
    /\ phase' = "connected"
    /\ running' \in {running, running \cup {"Http"}}
    /\ Proceed
    /\ UNCHANGED <<kind, type, repoType, proxyOnly, tun, refs, late, fault, overruns>>

\* The last step of a program that does not end with a connection.
EndProgram ==
    /\ \/ Step("broken") /\ phase' = "broken" /\ UNCHANGED <<kind, type, proxyOnly>>
       \/ Step("stopSelf") /\ phase' = "stopped" /\ UNCHANGED <<kind, type, proxyOnly>>
       \/ Step("forget") /\ kind' = "none" /\ UNCHANGED <<phase, type, proxyOnly>>
       \/ /\ Step("gone")      \* the next instance starts afresh
          /\ phase' = "idle" /\ type' = "SLIPSTREAM" /\ proxyOnly' = FALSE
          /\ UNCHANGED kind
    /\ Proceed
    /\ UNCHANGED <<repoType, running, tun, refs, late, fault, overruns>>

-----------------------------------------------------------------------------
(* What starts a program.                                                  *)

\* The coroutine of an unfinished connect() is cancelled.  A start that blocks
\* goes on (bound: one at a time).
Cancel ==
    late' \in {late} \cup
        (IF overruns /\ late = {} /\ phase = "starting" /\ Step("start")
         THEN {late \cup {Component}} ELSE {})

\* connect(profileId), for the current profile or another one
Connect(k, same) ==
    /\ phase \in {"idle", "starting", "connected", "broken", "stopped"}
    /\ same => kind = k
    /\ overruns => k \in LateKinds
    /\ phase' = "starting"
    /\ todo' = StopAllBridges(type)
               \o (IF kind = "none" \/ same THEN <<>> ELSE CleanupConnection(type, proxyOnly))
               \o <<Do("accept", k)>>
    /\ Cancel
    /\ UNCHANGED <<kind, type, repoType, proxyOnly, running, tun, refs, fault, overruns>>

Disconnect ==
    /\ phase \in {"starting", "connected", "broken"} \/ (phase = "stopped" /\ tun)
    /\ phase' = "stopping"
    /\ todo' = CleanupConnection(type, proxyOnly) \o <<StopSelf>>
    /\ Cancel
    /\ UNCHANGED <<kind, type, repoType, proxyOnly, running, tun, refs, fault, overruns>>

NetworkChanges ==
    /\ phase \in {"connected", "broken"}
    /\ kind # "none"
    /\ phase' = "restarting"
    /\ todo' = HandleNetworkChange(type)
    /\ fault' = FALSE
    /\ UNCHANGED <<kind, type, repoType, proxyOnly, running, tun, refs, late, overruns>>

\* handleTunnelFailure() without a seamless reconnect: kill switch mode, or
\* cleanupConnection() before an auto-reconnect or stopSelf()
EnterKillSwitchMode ==
    /\ phase \in {"connected", "broken"} /\ todo = <<>>
    /\ tun /\ ~proxyOnly
    /\ phase' = "blocking"
    /\ todo' = <<Stop("Hev")>> \o StopCurrentProxy(type) \o <<Broken>>
    /\ fault' = TRUE
    /\ UNCHANGED <<kind, type, repoType, proxyOnly, running, tun, refs, late, overruns>>

TunnelFailure ==
    /\ phase \in {"connected", "broken"} /\ todo = <<>>
    /\ phase' = "stopping"
    /\ \E end \in {StopSelf, Broken} :
          todo' = CleanupConnection(type, proxyOnly) \o <<end>>
    /\ UNCHANGED <<kind, type, repoType, proxyOnly, running, tun, refs, late, fault, overruns>>

\* onDestroy(); a service is not destroyed while its interface is open
OnDestroy ==
    /\ phase = "stopped" /\ ~tun
    /\ phase' = "stopping"
    /\ todo' = <<Stop("Http")>> \o CleanupConnection(type, proxyOnly) \o <<Do("gone", "-")>>
    /\ UNCHANGED <<kind, type, repoType, proxyOnly, running, tun, refs, late, fault, overruns>>

ComponentDies ==
    /\ phase = "connected"
    /\ \E c \in running : running' = running \ {c}
    /\ fault' = TRUE
    /\ UNCHANGED <<kind, type, repoType, proxyOnly, phase, todo, tun, refs, late, overruns>>

LateStart ==
    /\ \E c \in late : running' = running \cup {c} /\ late' = late \ {c}
    /\ UNCHANGED <<kind, type, repoType, proxyOnly, phase, todo, tun, refs, fault, overruns>>

ProgramStep ==
    \/ StopComponent
    \/ SetVpnService
    \/ SetCurrentTunnelType
    \/ StartComponent
    \/ WaitForProxyReady
    \/ EstablishVpnInterface
    \/ CloseVpnInterface
    \/ StartTun2Socks
    \/ CheckTun2Socks
    \/ ProxyOnlySkips
    \/ AcceptProfile
    \/ FinishConnection
    \/ EndProgram

Next ==
    \/ ProgramStep
    \/ \E k \in Kinds, same \in BOOLEAN : Connect(k, same)
    \/ Disconnect
    \/ NetworkChanges
    \/ EnterKillSwitchMode
    \/ TunnelFailure
    \/ OnDestroy
    \/ ComponentDies
    \/ LateStart

Spec == Init /\ [][Next]_vars

-----------------------------------------------------------------------------
(* Properties.                                                             *)

\* Every variable has its type, and a reference is held by the two clients
\* that take one only.
TypeOK ==
    /\ kind \in Kinds \cup {"none"}
    /\ type \in {TunnelType(k) : k \in AllKinds}
    /\ repoType \in {TunnelType(k) : k \in AllKinds} \cup {"none"}
    /\ proxyOnly \in BOOLEAN
    /\ phase \in Phases
    /\ todo = <<>> <=> phase \in {"idle", "connected", "broken", "stopped"}
    /\ running \subseteq Components
    /\ tun \in BOOLEAN
    /\ refs \subseteq {"Slipstream", "Dnstt"}
    /\ late \subseteq Clients \cup Listeners
    /\ fault \in BOOLEAN
    /\ overruns \/ late = {}

\* The clients that may be behind each listener.
Behind(f) ==
    CASE f = "SlipstreamSocks" -> {"Slipstream"}
      [] f = "DnsttSocks" -> {"Dnstt", "Vaydns"}
      [] f = "Ssh" -> {"Slipstream", "Dnstt", "Vaydns", "Naive"}
      [] f = "NaiveSocks" -> {"Naive"}
      [] f = "TorSocks" -> {"Snowflake"}
      [] OTHER -> {}

\* VpnRepositoryImpl.stopCurrentProxy() stops the client of these two kinds and
\* not the bridge in front of it, when tun2socks does not start.
BridgeForgotten == {"DNSTT", "VAYDNS"}

\* "SSH first, then the DNS tunnel": on every stop, undo, switch and restart
\* path no client is stopped while the listener in front of it still accepts
\* connections.
StopsFrontFirst ==
    [][\/ todo = <<>> \/ overruns
       \/ phase \in {"starting", "restarting"} /\ kind \in BridgeForgotten
       \/ \A f \in running' : Behind(f) \cap (running \ running') = {}]_vars

\* The reference native code protects its sockets with is taken away only after
\* that code was stopped, and set before it is started.  (With the types.)
NativeHasRef ==
    /\ TypeOK
    /\ overruns \/ running \cap {"Slipstream", "Dnstt"} \subseteq refs

\* tun2socks never runs on an interface that a program has closed.
TunOutlivesTun2Socks == "Hev" \in running => tun

\* The parts of the proxy.  tun2socks is not one of them: handleNetworkChange
\* starts it again only if it runs (TZVPNVpnService.kt:4826), which is not so
\* after the kill switch; VpnService!KillSwitchRestores shows that.
Needs(k) ==
    CASE k = "SLIPSTREAM" -> {"Slipstream", "SlipstreamSocks"}
      [] k = "SLIPSTREAM_SSH" -> {"Slipstream", "Ssh"}
      [] k = "DNSTT" -> {"Dnstt", "DnsttSocks"}
      [] k = "DNSTT_SSH" -> {"Dnstt", "Ssh"}
      [] k = "VAYDNS" -> {"Vaydns", "DnsttSocks"}
      [] k = "VAYDNS_SSH" -> {"Vaydns", "Ssh"}
      [] k = "SSH" -> {"Ssh"}
      [] k = "DOH" -> {"Doh"}
      [] k = "NAIVE" -> {"Naive", "NaiveSocks"}
      [] k = "NAIVE_SSH" -> {"Naive", "Ssh"}
      [] k \in {"SNOWFLAKE", "SNOWFLAKE_SMART"} -> {"Snowflake", "TorSocks"}
      [] k = "SOCKS5" -> {"Socks5"}
      [] k = "VLESS" -> {"Vless"}
      [] k = "VLESS_REALITY" -> {"Reality"}
      [] k = "HYSTERIA2" -> {"Hysteria2"}

\* What connect() and handleNetworkChange() call success is one: unless something
\* has died since, all parts of the proxy run.
ConnectedIsComplete == phase = "connected" /\ ~fault => Needs(kind) \subseteq running

\* When the service is gone nothing it started is left: no component, no
\* interface, no reference to the dead instance.
NothingLeft == phase = "idle" /\ ~overruns => running = {} /\ ~tun /\ refs = {}

\* "Stop the SOCKS5 proxy since tun2socks failed": a start that fails leaves
\* nothing that accepts connections.
FailedStartStopsProxy ==
    phase = "stopped" /\ ~overruns /\ kind \notin BridgeForgotten =>
        running \cap Listeners = {}

=============================================================================
