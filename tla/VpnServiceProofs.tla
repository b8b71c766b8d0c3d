-------------------------- MODULE VpnServiceProofs --------------------------
(***************************************************************************)
(* Proofs about VpnService, for any number of profiles, settings, retries, *)
(* reconnection coroutines and events.  First the type invariant, then the *)
(* invariants of the connection life cycle, by induction over the steps of *)
(* the specification: one case per action.                                 *)
(***************************************************************************)
EXTENDS VpnService, TLAPS

(* The coroutines and the places where they suspend.                       *)

\* The coroutines with a name are hosts, and no coroutine of
\* handleNetworkChange is one of them.
LEMMA HostsFacts ==
    /\ "connect" \in Hosts /\ "disconnect" \in Hosts /\ "health" \in Hosts
    /\ "lost" \in Hosts /\ "debounce" \in Hosts /\ "auto" \in Hosts
    /\ "kill" \in Hosts /\ "pool" \in Hosts
    /\ Recs \subseteq Hosts
    /\ Recs \cap Jobs = {}
BY RecsAssumption DEF Hosts, Jobs

\* The places the actions name are places of Pcs.
LEMMA PcsFacts ==
    /\ "none" \in Pcs /\ "d_q" \in Pcs /\ "d_io" \in Pcs /\ "h_loop" \in Pcs
    /\ "h_q" \in Pcs /\ "l_delay" \in Pcs /\ "b_delay" \in Pcs
    /\ "a_delay" \in Pcs /\ "k_delay" \in Pcs /\ "p_q" \in Pcs
    /\ "tf_delay" \in Pcs /\ "tf_decide" \in Pcs /\ "tf_auto" \in Pcs
    /\ "ks_io" \in Pcs /\ "ar_io" \in Pcs /\ "er_io" \in Pcs
    /\ "c_join" \in Pcs /\ "c_stopAll" \in Pcs /\ "c_clean" \in Pcs
    /\ "c_load" \in Pcs /\ "c_vpn" \in Pcs /\ "c_proxy" \in Pcs
    /\ "c_tun" \in Pcs /\ "c_finish" \in Pcs /\ "c_catch" \in Pcs
    /\ "q" \in Pcs /\ "q_rec" \in Pcs /\ "r_stop" \in Pcs /\ "r_start" \in Pcs
    /\ "r_tun" \in Pcs /\ "r_probe" \in Pcs /\ "r_fin" \in Pcs
BY DEF Pcs, FailurePcs, ConnectPcs, RecPcs

\* Cancelled coroutines leave only blocking starts and stops behind.
LEMMA OrphansFacts == \A S : OrphansOf(S) \subseteq {"start", "stop"}
BY DEF OrphansOf

-----------------------------------------------------------------------------
(* What the parts shared by several actions do to the types.               *)

Lives == {"none", "started", "bound", "destroying", "killed"}
Names == {"connect", "disconnect", "reconnect"}

\* A membership test is a Boolean.
LEMMA MemberType == ASSUME NEW x, NEW S PROVE (x \in S) \in BOOLEAN
OBVIOUS

\* A function on 1..n is a sequence.
LEMMA SeqType ==
    ASSUME NEW S, NEW n \in Nat, NEW s \in [1..n -> S] PROVE s \in Seq(S)
OBVIOUS

\* A start command is a Command.
LEMMA CommandType ==
    ASSUME NEW c \in Names, NEW p \in Profiles \cup {NoProfile},
           NEW f \in BOOLEAN
    PROVE  [cmd |-> c, profile |-> p, fresh |-> f] \in Commands
BY DEF Commands, Names

\* Sending a start command keeps the queue a queue of commands.
LEMMA SendType ==
    ASSUME TypeOK, NEW c \in Names, NEW p \in Profiles \cup {NoProfile},
           Send(c, p)
    PROVE  intents' \in Seq(Commands) /\ svc' \in Lives
<1> DEFINE f == svc \in {"none", "killed", "destroying"}
           e == [cmd |-> c, profile |-> p, fresh |-> f]
<1>1. f \in BOOLEAN
  BY MemberType, ZenonT(40)
<1>2. e \in Commands
  BY <1>1, CommandType, Zenon
<1>3. intents' = Append(intents, e) /\ intents \in Seq(Commands)
  BY Zenon DEF Send, TypeOK, StateOK
<1>4. intents' \in Seq(Commands)
  <2> HIDE DEF e, f
  <2> QED BY <1>2, <1>3
<1>5. svc' \in Lives
  BY DEF Send, TypeOK, StateOK, Lives
<1> QED BY <1>4, <1>5

\* So does delivering one; the one delivered is a command.
LEMMA DeliverType ==
    ASSUME TypeOK, NEW c, Deliver(c)
    PROVE  /\ Head(intents) \in Commands
           /\ intents' \in Seq(Commands)
           /\ svc' \in Lives
           /\ UNCHANGED <<envVars, saved, want>>
<1> DEFINE t == Tail(intents)
           g(i) == [t[i] EXCEPT !.fresh = @ /\ svc = "destroying"]
<1>1. intents \in Seq(Commands) /\ intents # <<>>
  BY DEF Deliver, TypeOK, StateOK
<1>2. t \in Seq(Commands) /\ Head(intents) \in Commands
  BY <1>1
<1>3. intents' = [i \in 1..Len(t) |-> g(i)]
  BY Zenon DEF Deliver
<1>4. ASSUME NEW i \in 1..Len(t) PROVE g(i) \in Commands
  <2>1. t[i] \in Commands
    BY <1>2
  <2>2. (t[i].fresh /\ svc = "destroying") \in BOOLEAN
    BY Zenon
  <2> QED BY <2>1, <2>2, Zenon DEF Commands
<1>5. intents' \in Seq(Commands)
  <2>1. intents' \in [1..Len(t) -> Commands]
    BY <1>3, <1>4, Zenon
  <2>2. Len(t) \in Nat
    BY <1>2
  <2> QED BY <2>1, <2>2, SeqType, Zenon
<1>6. svc' \in Lives /\ UNCHANGED <<envVars, saved, want>>
  BY DEF Deliver, TypeOK, StateOK, Lives
<1> QED BY <1>2, <1>5, <1>6

\* And so does the death of the process, after which all go to a new instance.
LEMMA FreshType ==
    ASSUME TypeOK, ProcessKilled PROVE intents' \in Seq(Commands)
<1> DEFINE g(i) == [intents[i] EXCEPT !.fresh = TRUE]
<1>1. intents \in Seq(Commands)
  BY DEF TypeOK, StateOK
<1>2. ASSUME NEW i \in 1..Len(intents) PROVE g(i) \in Commands
  <2>1. intents[i] \in Commands
    BY <1>1
  <2> QED BY <2>1, Zenon DEF Commands
<1>3. DOMAIN intents = 1..Len(intents)
  BY <1>1
<1>4. intents' = [i \in 1..Len(intents) |-> g(i)]
  BY <1>3, Zenon DEF ProcessKilled
<1>5. intents' \in [1..Len(intents) -> Commands]
  BY <1>2, <1>4, Zenon
<1>6. Len(intents) \in Nat
  BY <1>1
<1> QED BY <1>5, <1>6, SeqType, Zenon

\* An event from outside uses up one of the events left.
LEMMA InputType ==
    ASSUME TypeOK, Input PROVE inputs' \in 0..MaxInputs /\ pref' = pref
BY LimitsAssumption DEF TypeOK, StateOK, Input

\* A tunnel failure spends a seamless reconnection only if one is left.
LEMMA FailureType ==
    ASSUME TypeOK, NEW h, NEW alive, EnterFailure(h, alive)
    PROVE  seamlessReconnectAttempts' \in 0..MaxSeamless
BY LimitsAssumption DEF TypeOK, StateOK, EnterFailure, CanSeamless

-----------------------------------------------------------------------------
(* Types.                                                                  *)

\* Every action keeps the flags Boolean.
LEMMA FlagsStep ==
    ASSUME TypeOK, Next PROVE FlagsOK'
<1> USE DEF TypeOK, FlagsOK, envVars, lifeVars, jobVars, flagVars, countVars,
   netVars, resVars
<1>1. CASE ConnectJoin
  BY <1>1, Zenon DEF ConnectJoin
<1>2. CASE ConnectStopAll
  BY <1>2, Zenon DEF ConnectStopAll, SwitchesProfile, CleanupBegin,
     CleanupCancels
<1>3. CASE ConnectClean
  BY <1>3, Zenon DEF ConnectClean, CleanupEnd, SvcAfter
<1>4. CASE ConnectLoad
  BY <1>4, ZenonT(40) DEF ConnectLoad, SvcAfter
<1>5. CASE ConnectVpn
  BY <1>5, ZenonT(40) DEF ConnectVpn, ConnectContinues, ConnectGivesUp,
     connectStepUnchanged, SvcAfter
<1>6. CASE ConnectProxy
  BY <1>6, ZenonT(40) DEF ConnectProxy, ConnectContinues, ConnectGivesUp,
     connectStepUnchanged, SvcAfter
<1>7. CASE ConnectTun
  BY <1>7, ZenonT(40) DEF ConnectTun, ConnectContinues, ConnectGivesUp,
     connectStepUnchanged, SvcAfter
<1>8. CASE ConnectFinish
  BY <1>8, Zenon DEF ConnectFinish, StartHealthCheck
<1>9. CASE ConnectCatch
  BY <1>9, ZenonT(40) DEF ConnectCatch, EnterFailure, CleanupBegin, CanSeamless,
     CleanupCancels
<1>10. CASE DisconnectBegin
  BY <1>10, Zenon DEF DisconnectBegin, CleanupBegin, CleanupCancels
<1>11. CASE DisconnectEnd
  BY <1>11, Zenon DEF DisconnectEnd, CleanupEnd, SvcAfter
<1>12. ASSUME NEW h \in Hosts, TunnelFailureSeamless(h) PROVE FlagsOK'
  BY <1>12, Zenon DEF TunnelFailureSeamless
<1>13. ASSUME NEW h \in Hosts, TunnelFailureKill(h) PROVE FlagsOK'
  BY <1>13, Zenon DEF TunnelFailureKill, KillSwitchApplies
<1>14. ASSUME NEW h \in Hosts, TunnelFailureNoKill(h) PROVE FlagsOK'
  BY <1>14, Zenon DEF TunnelFailureNoKill, KillSwitchApplies
<1>15. ASSUME NEW h \in Hosts, TunnelFailureAuto(h) PROVE FlagsOK'
  BY <1>15, Zenon DEF TunnelFailureAuto, AutoReconnectApplies, CleanupBegin,
     CleanupCancels
<1>16. ASSUME NEW h \in Hosts, TunnelFailureError(h) PROVE FlagsOK'
  BY <1>16, Zenon DEF TunnelFailureError, AutoReconnectApplies, CleanupBegin,
     CleanupCancels
<1>17. ASSUME NEW h \in Hosts, KillSwitchEnter(h) PROVE FlagsOK'
  BY <1>17, Zenon DEF KillSwitchEnter, Finally
<1>18. ASSUME NEW h \in Hosts, AutoReconnectEnter(h) PROVE FlagsOK'
  BY <1>18, Zenon DEF AutoReconnectEnter, CleanupEnd, Finally, SvcAfter
<1>19. ASSUME NEW h \in Hosts, ErrorStop(h) PROVE FlagsOK'
  BY <1>19, Zenon DEF ErrorStop, CleanupEnd, Finally, SvcAfter
<1>20. ASSUME NEW r \in Recs, NetworkChangeIgnored(r) PROVE FlagsOK'
  BY <1>20, Zenon DEF NetworkChangeIgnored
<1>21. ASSUME NEW r \in Recs, NetworkChangeBegin(r) PROVE FlagsOK'
  BY <1>21, Zenon DEF NetworkChangeBegin
<1>22. ASSUME NEW r \in Recs, NetworkChangeStop(r) PROVE FlagsOK'
  BY <1>22, Zenon DEF NetworkChangeStop, recStepUnchanged
<1>23. ASSUME NEW r \in Recs, NetworkChangeStart(r) PROVE FlagsOK'
  BY <1>23, Zenon DEF NetworkChangeStart, EnterFailure, recStepUnchanged,
     CanSeamless
<1>24. ASSUME NEW r \in Recs, NetworkChangeTun(r) PROVE FlagsOK'
  BY <1>24, Zenon DEF NetworkChangeTun, recStepUnchanged
<1>25. ASSUME NEW r \in Recs, NetworkChangeProbe(r) PROVE FlagsOK'
  BY <1>25, ZenonT(40) DEF NetworkChangeProbe, EnterFailure, recStepUnchanged,
     CanSeamless
<1>26. ASSUME NEW r \in Recs, NetworkChangeFinish(r) PROVE FlagsOK'
  BY <1>26, Zenon DEF NetworkChangeFinish, StartHealthCheck, Finally
<1>27. CASE KillSwitchTimer
  BY <1>27, Zenon DEF KillSwitchTimer, LaunchNetworkChange
<1>28. CASE DebounceTimer
  BY <1>28, Zenon DEF DebounceTimer, LaunchNetworkChange
<1>29. CASE AutoReconnectTimer
  BY <1>29, Zenon DEF AutoReconnectTimer, LaunchConnect
<1>30. CASE NetworkLostTimer
  BY <1>30, Zenon DEF NetworkLostTimer, EnterFailure, CanSeamless
<1>31. CASE HealthCheckFails
  BY <1>31, Zenon DEF HealthCheckFails
<1>32. CASE HealthCheckReports
  BY <1>32, Zenon DEF HealthCheckReports, EnterFailure, CanSeamless
<1>33. CASE DnsPoolDeadReports
  BY <1>33, Zenon DEF DnsPoolDeadReports, EnterFailure, CanSeamless
<1>34. CASE StartConnect
  BY <1>34, Zenon DEF StartConnect, Deliver, LaunchConnect
<1>35. CASE StartDisconnect
  BY <1>35, Zenon DEF StartDisconnect, Deliver, Disconnect, DisconnectCancels
<1>36. CASE StartReconnect
  BY <1>36, Zenon DEF StartReconnect, Deliver
<1>37. CASE StickyRestart
  BY <1>37, Zenon DEF StickyRestart, LaunchConnect
<1>38. CASE OnDestroy
  BY <1>38, Zenon DEF OnDestroy, InstanceGone, CleanupConnectionSync
<1>39. CASE OrphanStart
  BY <1>39, Zenon DEF OrphanStart
<1>40. CASE OrphanStop
  BY <1>40, ZenonT(40) DEF OrphanStop
<1>41. CASE GraceEnds
  BY <1>41, Zenon DEF GraceEnds
<1>42. CASE UserConnects
  BY <1>42, Zenon DEF UserConnects, Input, Send
<1>43. CASE UserDisconnects
  BY <1>43, Zenon DEF UserDisconnects, Input, Send
<1>44. CASE UserReconnects
  BY <1>44, Zenon DEF UserReconnects, Input, Send
<1>45. CASE TaskRemoved
  BY <1>45, Zenon DEF TaskRemoved, Input, Send
<1>46. CASE Revoked
  BY <1>46, Zenon DEF Revoked, Input, Disconnect, DisconnectCancels
<1>47. CASE NetworkAvailable
  BY <1>47, Zenon DEF NetworkAvailable, Input, DebouncedReconnect
<1>48. CASE NetworkLost
  BY <1>48, Zenon DEF NetworkLost, Input
<1>49. CASE LinkOrDozeChange
  BY <1>49, Zenon DEF LinkOrDozeChange, Input, DebouncedReconnect
<1>50. CASE ProxyDies
  BY <1>50, Zenon DEF ProxyDies, Input
<1>51. CASE Tun2SocksDies
  BY <1>51, Zenon DEF Tun2SocksDies, Input
<1>52. CASE TunnelStalls
  BY <1>52, Zenon DEF TunnelStalls, Input
<1>53. CASE DnsPoolDies
  BY <1>53, Zenon DEF DnsPoolDies, Input
<1>54. CASE ProcessKilled
  BY <1>54, Zenon DEF ProcessKilled, Input, InstanceGone
<1> QED
  BY <1>1, <1>2, <1>3, <1>4, <1>5, <1>6, <1>7, <1>8, <1>9, <1>10, <1>11,
     <1>12, <1>13, <1>14, <1>15, <1>16, <1>17, <1>18, <1>19, <1>20, <1>21,
     <1>22, <1>23, <1>24, <1>25, <1>26, <1>27, <1>28, <1>29, <1>30, <1>31,
     <1>32, <1>33, <1>34, <1>35, <1>36, <1>37, <1>38, <1>39, <1>40, <1>41,
     <1>42, <1>43, <1>44, <1>45, <1>46, <1>47, <1>48, <1>49, <1>50, <1>51,
     <1>52, <1>53, <1>54, Zenon DEF Next, System, ConnectStep, DisconnectStep,
     FailureStep, NetworkChangeStep, Environment

\* Every action keeps each coroutine at one of the places of Pcs, and the
\* profile it captured a profile.
LEMMA JobsStep ==
    ASSUME TypeOK, Next PROVE JobsOK'
<1> USE HostsFacts, PcsFacts DEF TypeOK, JobsOK, envVars, lifeVars, jobVars,
   flagVars, countVars, netVars, resVars
<1>1. CASE ConnectJoin
  BY <1>1 DEF ConnectJoin
<1>2. CASE ConnectStopAll
  BY <1>2 DEF ConnectStopAll, SwitchesProfile, CleanupBegin, CleanupCancels
<1>3. CASE ConnectClean
  BY <1>3 DEF ConnectClean, CleanupEnd, SvcAfter
<1>4. CASE ConnectLoad
  BY <1>4 DEF ConnectLoad, SvcAfter
<1>5. CASE ConnectVpn
  BY <1>5 DEF ConnectVpn, ConnectContinues, ConnectGivesUp,
     connectStepUnchanged, SvcAfter
<1>6. CASE ConnectProxy
  BY <1>6 DEF ConnectProxy, ConnectContinues, ConnectGivesUp,
     connectStepUnchanged, SvcAfter
<1>7. CASE ConnectTun
  BY <1>7 DEF ConnectTun, ConnectContinues, ConnectGivesUp,
     connectStepUnchanged, SvcAfter
<1>8. CASE ConnectFinish
  BY <1>8 DEF ConnectFinish, StartHealthCheck
<1>9. CASE ConnectCatch
  BY <1>9 DEF ConnectCatch, EnterFailure, CleanupBegin, CanSeamless,
     CleanupCancels
<1>10. CASE DisconnectBegin
  BY <1>10 DEF DisconnectBegin, CleanupBegin, CleanupCancels
<1>11. CASE DisconnectEnd
  BY <1>11 DEF DisconnectEnd, CleanupEnd, SvcAfter
<1>12. ASSUME NEW h \in Hosts, TunnelFailureSeamless(h) PROVE JobsOK'
  BY <1>12 DEF TunnelFailureSeamless
<1>13. ASSUME NEW h \in Hosts, TunnelFailureKill(h) PROVE JobsOK'
  BY <1>13 DEF TunnelFailureKill, KillSwitchApplies
<1>14. ASSUME NEW h \in Hosts, TunnelFailureNoKill(h) PROVE JobsOK'
  BY <1>14 DEF TunnelFailureNoKill, KillSwitchApplies
<1>15. ASSUME NEW h \in Hosts, TunnelFailureAuto(h) PROVE JobsOK'
  BY <1>15 DEF TunnelFailureAuto, AutoReconnectApplies, CleanupBegin,
     CleanupCancels, StateOK
<1>16. ASSUME NEW h \in Hosts, TunnelFailureError(h) PROVE JobsOK'
  BY <1>16 DEF TunnelFailureError, AutoReconnectApplies, CleanupBegin,
     CleanupCancels
<1>17. ASSUME NEW h \in Hosts, KillSwitchEnter(h) PROVE JobsOK'
  BY <1>17 DEF KillSwitchEnter, Finally
<1>18. ASSUME NEW h \in Hosts, AutoReconnectEnter(h) PROVE JobsOK'
  BY <1>18 DEF AutoReconnectEnter, CleanupEnd, Finally, SvcAfter
<1>19. ASSUME NEW h \in Hosts, ErrorStop(h) PROVE JobsOK'
  BY <1>19 DEF ErrorStop, CleanupEnd, Finally, SvcAfter
<1>20. ASSUME NEW r \in Recs, NetworkChangeIgnored(r) PROVE JobsOK'
  BY <1>20 DEF NetworkChangeIgnored
<1>21. ASSUME NEW r \in Recs, NetworkChangeBegin(r) PROVE JobsOK'
  BY <1>21 DEF NetworkChangeBegin
<1>22. ASSUME NEW r \in Recs, NetworkChangeStop(r) PROVE JobsOK'
  BY <1>22 DEF NetworkChangeStop, recStepUnchanged
<1>23. ASSUME NEW r \in Recs, NetworkChangeStart(r) PROVE JobsOK'
  BY <1>23 DEF NetworkChangeStart, EnterFailure, recStepUnchanged, CanSeamless
<1>24. ASSUME NEW r \in Recs, NetworkChangeTun(r) PROVE JobsOK'
  BY <1>24 DEF NetworkChangeTun, recStepUnchanged
<1>25. ASSUME NEW r \in Recs, NetworkChangeProbe(r) PROVE JobsOK'
  BY <1>25 DEF NetworkChangeProbe, EnterFailure, recStepUnchanged, CanSeamless
<1>26. ASSUME NEW r \in Recs, NetworkChangeFinish(r) PROVE JobsOK'
  BY <1>26 DEF NetworkChangeFinish, StartHealthCheck, Finally
<1>27. CASE KillSwitchTimer
  BY <1>27 DEF KillSwitchTimer, LaunchNetworkChange
<1>28. CASE DebounceTimer
  BY <1>28 DEF DebounceTimer, LaunchNetworkChange
<1>29. CASE AutoReconnectTimer
  BY <1>29 DEF AutoReconnectTimer, LaunchConnect
<1>30. CASE NetworkLostTimer
  BY <1>30 DEF NetworkLostTimer, EnterFailure, CanSeamless
<1>31. CASE HealthCheckFails
  BY <1>31 DEF HealthCheckFails
<1>32. CASE HealthCheckReports
  BY <1>32 DEF HealthCheckReports, EnterFailure, CanSeamless
<1>33. CASE DnsPoolDeadReports
  BY <1>33 DEF DnsPoolDeadReports, EnterFailure, CanSeamless
<1>34. CASE StartConnect
  BY <1>34, DeliverType DEF StartConnect, LaunchConnect, Commands
<1>35. CASE StartDisconnect
  BY <1>35 DEF StartDisconnect, Disconnect, DisconnectCancels
<1>36. CASE StartReconnect
  BY <1>36 DEF StartReconnect
<1>37. CASE StickyRestart
  BY <1>37 DEF StickyRestart, LaunchConnect, StateOK
<1>38. CASE OnDestroy
  BY <1>38 DEF OnDestroy, InstanceGone, CleanupConnectionSync
<1>39. CASE OrphanStart
  BY <1>39 DEF OrphanStart
<1>40. CASE OrphanStop
  BY <1>40 DEF OrphanStop
<1>41. CASE GraceEnds
  BY <1>41 DEF GraceEnds
<1>42. CASE UserConnects
  BY <1>42 DEF UserConnects, Input, Send
<1>43. CASE UserDisconnects
  BY <1>43 DEF UserDisconnects, Input, Send
<1>44. CASE UserReconnects
  BY <1>44 DEF UserReconnects, Input, Send
<1>45. CASE TaskRemoved
  BY <1>45 DEF TaskRemoved, Input, Send
<1>46. CASE Revoked
  BY <1>46 DEF Revoked, Input, Disconnect, DisconnectCancels
<1>47. CASE NetworkAvailable
  BY <1>47 DEF NetworkAvailable, Input, DebouncedReconnect
<1>48. CASE NetworkLost
  BY <1>48 DEF NetworkLost, Input
<1>49. CASE LinkOrDozeChange
  BY <1>49 DEF LinkOrDozeChange, Input, DebouncedReconnect
<1>50. CASE ProxyDies
  BY <1>50 DEF ProxyDies, Input
<1>51. CASE Tun2SocksDies
  BY <1>51 DEF Tun2SocksDies, Input
<1>52. CASE TunnelStalls
  BY <1>52 DEF TunnelStalls, Input
<1>53. CASE DnsPoolDies
  BY <1>53 DEF DnsPoolDies, Input
<1>54. CASE ProcessKilled
  BY <1>54 DEF ProcessKilled, Input, InstanceGone
<1> QED
  BY <1>1, <1>2, <1>3, <1>4, <1>5, <1>6, <1>7, <1>8, <1>9, <1>10, <1>11,
     <1>12, <1>13, <1>14, <1>15, <1>16, <1>17, <1>18, <1>19, <1>20, <1>21,
     <1>22, <1>23, <1>24, <1>25, <1>26, <1>27, <1>28, <1>29, <1>30, <1>31,
     <1>32, <1>33, <1>34, <1>35, <1>36, <1>37, <1>38, <1>39, <1>40, <1>41,
     <1>42, <1>43, <1>44, <1>45, <1>46, <1>47, <1>48, <1>49, <1>50, <1>51,
     <1>52, <1>53, <1>54, Zenon DEF Next, System, ConnectStep, DisconnectStep,
     FailureStep, NetworkChangeStep, Environment

\* Every action keeps the rest of the state in its range.  That the retry
\* counters stay within their limits is FailureType and the guard of
\* TunnelFailureAuto.
LEMMA StateStep ==
    ASSUME TypeOK, Next PROVE StateOK'
<1> USE OrphansFacts, LimitsAssumption DEF TypeOK, StateOK, Lives, Names,
   envVars, lifeVars, jobVars, flagVars, countVars, netVars, resVars
<1>1. CASE ConnectJoin
  BY <1>1 DEF ConnectJoin
<1>2. CASE ConnectStopAll
  BY <1>2 DEF ConnectStopAll, SwitchesProfile, CleanupBegin, CleanupCancels
<1>3. CASE ConnectClean
  BY <1>3 DEF ConnectClean, CleanupEnd, SvcAfter
<1>4. CASE ConnectLoad
  BY <1>4, HostsFacts DEF ConnectLoad, SvcAfter, JobsOK
<1>5. CASE ConnectVpn
  BY <1>5 DEF ConnectVpn, ConnectContinues, ConnectGivesUp,
     connectStepUnchanged, SvcAfter
<1>6. CASE ConnectProxy
  BY <1>6 DEF ConnectProxy, ConnectContinues, ConnectGivesUp,
     connectStepUnchanged, SvcAfter
<1>7. CASE ConnectTun
  BY <1>7 DEF ConnectTun, ConnectContinues, ConnectGivesUp,
     connectStepUnchanged, SvcAfter
<1>8. CASE ConnectFinish
  BY <1>8 DEF ConnectFinish, StartHealthCheck
<1>9. CASE ConnectCatch
  BY <1>9, FailureType DEF ConnectCatch, CleanupBegin, CleanupCancels
<1>10. CASE DisconnectBegin
  BY <1>10 DEF DisconnectBegin, CleanupBegin, CleanupCancels
<1>11. CASE DisconnectEnd
  BY <1>11 DEF DisconnectEnd, CleanupEnd, SvcAfter
<1>12. ASSUME NEW h \in Hosts, TunnelFailureSeamless(h) PROVE StateOK'
  BY <1>12 DEF TunnelFailureSeamless
<1>13. ASSUME NEW h \in Hosts, TunnelFailureKill(h) PROVE StateOK'
  BY <1>13 DEF TunnelFailureKill, KillSwitchApplies
<1>14. ASSUME NEW h \in Hosts, TunnelFailureNoKill(h) PROVE StateOK'
  BY <1>14 DEF TunnelFailureNoKill, KillSwitchApplies
<1>15. ASSUME NEW h \in Hosts, TunnelFailureAuto(h) PROVE StateOK'
  <2>1. autoReconnectAttempt' \in 0..MaxAuto
    BY <1>15 DEF TunnelFailureAuto, AutoReconnectApplies
  <2>2. orphans' \subseteq {"start", "stop"}
    BY <1>15 DEF TunnelFailureAuto, CleanupBegin
  <2> QED BY <1>15, <2>1, <2>2 DEF TunnelFailureAuto
<1>16. ASSUME NEW h \in Hosts, TunnelFailureError(h) PROVE StateOK'
  BY <1>16 DEF TunnelFailureError, AutoReconnectApplies, CleanupBegin,
     CleanupCancels
<1>17. ASSUME NEW h \in Hosts, KillSwitchEnter(h) PROVE StateOK'
  BY <1>17 DEF KillSwitchEnter, Finally
<1>18. ASSUME NEW h \in Hosts, AutoReconnectEnter(h) PROVE StateOK'
  BY <1>18 DEF AutoReconnectEnter, CleanupEnd, Finally, SvcAfter
<1>19. ASSUME NEW h \in Hosts, ErrorStop(h) PROVE StateOK'
  BY <1>19 DEF ErrorStop, CleanupEnd, Finally, SvcAfter
<1>20. ASSUME NEW r \in Recs, NetworkChangeIgnored(r) PROVE StateOK'
  BY <1>20 DEF NetworkChangeIgnored
<1>21. ASSUME NEW r \in Recs, NetworkChangeBegin(r) PROVE StateOK'
  BY <1>21 DEF NetworkChangeBegin
<1>22. ASSUME NEW r \in Recs, NetworkChangeStop(r) PROVE StateOK'
  BY <1>22 DEF NetworkChangeStop, recStepUnchanged
<1>23. ASSUME NEW r \in Recs, NetworkChangeStart(r) PROVE StateOK'
  BY <1>23, FailureType DEF NetworkChangeStart, recStepUnchanged
<1>24. ASSUME NEW r \in Recs, NetworkChangeTun(r) PROVE StateOK'
  BY <1>24 DEF NetworkChangeTun, recStepUnchanged
<1>25. ASSUME NEW r \in Recs, NetworkChangeProbe(r) PROVE StateOK'
  BY <1>25, FailureType DEF NetworkChangeProbe, recStepUnchanged
<1>26. ASSUME NEW r \in Recs, NetworkChangeFinish(r) PROVE StateOK'
  BY <1>26 DEF NetworkChangeFinish, StartHealthCheck, Finally
<1>27. CASE KillSwitchTimer
  BY <1>27 DEF KillSwitchTimer, LaunchNetworkChange
<1>28. CASE DebounceTimer
  BY <1>28 DEF DebounceTimer, LaunchNetworkChange
<1>29. CASE AutoReconnectTimer
  BY <1>29 DEF AutoReconnectTimer, LaunchConnect
<1>30. CASE NetworkLostTimer
  BY <1>30, FailureType DEF NetworkLostTimer
<1>31. CASE HealthCheckFails
  BY <1>31 DEF HealthCheckFails
<1>32. CASE HealthCheckReports
  BY <1>32, FailureType DEF HealthCheckReports
<1>33. CASE DnsPoolDeadReports
  BY <1>33, FailureType DEF DnsPoolDeadReports
<1>34. CASE StartConnect
  BY <1>34, DeliverType DEF StartConnect, LaunchConnect
<1>35. CASE StartDisconnect
  <2>1. orphans' \subseteq {"start", "stop"}
    BY <1>35 DEF StartDisconnect, Disconnect
  <2> QED BY <1>35, <2>1, DeliverType DEF StartDisconnect, Disconnect
<1>36. CASE StartReconnect
  BY <1>36, DeliverType DEF StartReconnect
<1>37. CASE StickyRestart
  BY <1>37 DEF StickyRestart, LaunchConnect
<1>38. CASE OnDestroy
  <2>1. orphans' \subseteq {"start", "stop"}
    BY <1>38 DEF OnDestroy
  <2> QED BY <1>38, <2>1 DEF OnDestroy, InstanceGone, CleanupConnectionSync
<1>39. CASE OrphanStart
  BY <1>39 DEF OrphanStart
<1>40. CASE OrphanStop
  BY <1>40 DEF OrphanStop
<1>41. CASE GraceEnds
  BY <1>41 DEF GraceEnds
<1>42. CASE UserConnects
  BY <1>42, InputType, SendType DEF UserConnects
<1>43. CASE UserDisconnects
  BY <1>43, InputType, SendType DEF UserDisconnects
<1>44. CASE UserReconnects
  BY <1>44, InputType, SendType DEF UserReconnects
<1>45. CASE TaskRemoved
  BY <1>45, InputType, SendType DEF TaskRemoved
<1>46. CASE Revoked
  <2>1. orphans' \subseteq {"start", "stop"}
    BY <1>46 DEF Revoked, Disconnect
  <2> QED BY <1>46, <2>1, InputType DEF Revoked, Disconnect
<1>47. CASE NetworkAvailable
  BY <1>47, InputType DEF NetworkAvailable, DebouncedReconnect
<1>48. CASE NetworkLost
  BY <1>48, InputType DEF NetworkLost
<1>49. CASE LinkOrDozeChange
  BY <1>49, InputType DEF LinkOrDozeChange, DebouncedReconnect
<1>50. CASE ProxyDies
  BY <1>50, InputType DEF ProxyDies
<1>51. CASE Tun2SocksDies
  BY <1>51, InputType DEF Tun2SocksDies
<1>52. CASE TunnelStalls
  BY <1>52, InputType DEF TunnelStalls
<1>53. CASE DnsPoolDies
  BY <1>53, InputType DEF DnsPoolDies
<1>54. CASE ProcessKilled
  <2>1. inputs' \in 0..MaxInputs /\ pref' = pref
    BY <1>54, InputType DEF ProcessKilled
  <2>2. seamlessReconnectAttempts' = 0 /\ autoReconnectAttempt' = 0
    BY <1>54 DEF ProcessKilled, InstanceGone
  <2>3. /\ svc' \in Lives
        /\ currentProfileId' = NoProfile /\ proxy' = "down" /\ orphans' = {}
        /\ saved' = saved /\ want' = want
    BY <1>54, Zenon DEF ProcessKilled
  <2>4. intents' \in Seq(Commands)
    BY <1>54, FreshType
  <2> QED BY <2>1, <2>2, <2>3, <2>4
<1> QED
  BY <1>1, <1>2, <1>3, <1>4, <1>5, <1>6, <1>7, <1>8, <1>9, <1>10, <1>11,
     <1>12, <1>13, <1>14, <1>15, <1>16, <1>17, <1>18, <1>19, <1>20, <1>21,
     <1>22, <1>23, <1>24, <1>25, <1>26, <1>27, <1>28, <1>29, <1>30, <1>31,
     <1>32, <1>33, <1>34, <1>35, <1>36, <1>37, <1>38, <1>39, <1>40, <1>41,
     <1>42, <1>43, <1>44, <1>45, <1>46, <1>47, <1>48, <1>49, <1>50, <1>51,
     <1>52, <1>53, <1>54, Zenon DEF Next, System, ConnectStep, DisconnectStep,
     FailureStep, NetworkChangeStep, Environment

\* TypeOK holds in every reachable state: in particular no interleaving of
\* handleTunnelFailure with connect(), the timers and disconnect() takes the
\* seamless attempts past MAX_SEAMLESS_RECONNECTS or the automatic ones past
\* AUTO_RECONNECT_MAX_RETRIES.
THEOREM TypeCorrect == Spec => []TypeOK
<1>1. Init => TypeOK
  <2> SUFFICES ASSUME Init PROVE TypeOK
    OBVIOUS
  <2>1. FlagsOK
    BY Zenon DEF Init, FlagsOK
  <2>2. JobsOK
    BY PcsFacts DEF Init, JobsOK
  <2>3. StateOK
    BY PrefsAssumption, LimitsAssumption DEF Init, StateOK, Pref
  <2> QED BY <2>1, <2>2, <2>3 DEF TypeOK
<1>2. TypeOK /\ [Next]_vars => TypeOK'
  <2> SUFFICES ASSUME TypeOK, [Next]_vars PROVE TypeOK'
    OBVIOUS
  <2>1. CASE Next
    BY <2>1, FlagsStep, JobsStep, StateStep DEF TypeOK
  <2>2. CASE UNCHANGED vars
    <3> USE <2>2 DEF vars, envVars, lifeVars, jobVars, flagVars, countVars,
          netVars, resVars, TypeOK
    <3>1. FlagsOK'
      BY Zenon DEF FlagsOK
    <3>2. JobsOK' /\ StateOK'
      BY DEF JobsOK, StateOK
    <3> QED BY <3>1, <3>2
  <2> QED BY <2>1, <2>2
<1> QED BY <1>1, <1>2, PTL DEF Spec

-----------------------------------------------------------------------------
(* The connection life cycle.                                              *)

\* What NoTunAfterDisconnect rests on: a connect() about to open the interface
\* has not been cancelled by disconnect().
OpeningNotCancelled == pc["connect"] = "c_vpn" => ~isUserInitiatedDisconnect

\* Together with TypeOK, inductive.
Safety ==
    /\ ReconnectFlagOwned
    /\ NothingOutlivesService
    /\ SwitchCleansUp
    /\ OpeningNotCancelled

\* Every action keeps Safety.
LEMMA SafetyStep ==
    ASSUME TypeOK, Safety, Next PROVE Safety'
<1> USE HostsFacts, RecsAssumption
<1> USE DEF TypeOK, JobsOK, Safety, ReconnectFlagOwned,
   NothingOutlivesService, SwitchCleansUp, OpeningNotCancelled, Running,
   Reconnecting, Jobs, FailurePcs, RecPcs, envVars, lifeVars, jobVars,
   flagVars, countVars, netVars, resVars
<1>1. CASE ConnectJoin
  BY <1>1 DEF ConnectJoin
<1>2. CASE ConnectStopAll
  BY <1>2 DEF ConnectStopAll, SwitchesProfile, CleanupBegin, CleanupCancels
<1>3. CASE ConnectClean
  BY <1>3 DEF ConnectClean, CleanupEnd, SvcAfter
<1>4. CASE ConnectLoad
  BY <1>4 DEF ConnectLoad, SvcAfter
<1>5. CASE ConnectVpn
  BY <1>5 DEF ConnectVpn, ConnectContinues, ConnectGivesUp,
     connectStepUnchanged, SvcAfter
<1>6. CASE ConnectProxy
  BY <1>6 DEF ConnectProxy, ConnectContinues, ConnectGivesUp,
     connectStepUnchanged, SvcAfter
<1>7. CASE ConnectTun
  BY <1>7 DEF ConnectTun, ConnectContinues, ConnectGivesUp,
     connectStepUnchanged, SvcAfter
<1>8. CASE ConnectFinish
  BY <1>8 DEF ConnectFinish, StartHealthCheck
<1>9. CASE ConnectCatch
  BY <1>9 DEF ConnectCatch, EnterFailure, CleanupBegin, CanSeamless,
     CleanupCancels
<1>10. CASE DisconnectBegin
  BY <1>10 DEF DisconnectBegin, CleanupBegin, CleanupCancels
<1>11. CASE DisconnectEnd
  BY <1>11 DEF DisconnectEnd, CleanupEnd, SvcAfter
<1>12. ASSUME NEW h \in Hosts, TunnelFailureSeamless(h) PROVE Safety'
  BY <1>12 DEF TunnelFailureSeamless
<1>13. ASSUME NEW h \in Hosts, TunnelFailureKill(h) PROVE Safety'
  BY <1>13 DEF TunnelFailureKill, KillSwitchApplies
<1>14. ASSUME NEW h \in Hosts, TunnelFailureNoKill(h) PROVE Safety'
  BY <1>14 DEF TunnelFailureNoKill, KillSwitchApplies
<1>15. ASSUME NEW h \in Hosts, TunnelFailureAuto(h) PROVE Safety'
  BY <1>15 DEF TunnelFailureAuto, AutoReconnectApplies, CleanupBegin,
     CleanupCancels
<1>16. ASSUME NEW h \in Hosts, TunnelFailureError(h) PROVE Safety'
  BY <1>16 DEF TunnelFailureError, AutoReconnectApplies, CleanupBegin,
     CleanupCancels
<1>17. ASSUME NEW h \in Hosts, KillSwitchEnter(h) PROVE Safety'
  BY <1>17 DEF KillSwitchEnter, Finally
<1>18. ASSUME NEW h \in Hosts, AutoReconnectEnter(h) PROVE Safety'
  BY <1>18 DEF AutoReconnectEnter, CleanupEnd, Finally, SvcAfter
<1>19. ASSUME NEW h \in Hosts, ErrorStop(h) PROVE Safety'
  BY <1>19 DEF ErrorStop, CleanupEnd, Finally, SvcAfter
<1>20. ASSUME NEW r \in Recs, NetworkChangeIgnored(r) PROVE Safety'
  BY <1>20 DEF NetworkChangeIgnored
<1>21. ASSUME NEW r \in Recs, NetworkChangeBegin(r) PROVE Safety'
  BY <1>21 DEF NetworkChangeBegin
<1>22. ASSUME NEW r \in Recs, NetworkChangeStop(r) PROVE Safety'
  BY <1>22 DEF NetworkChangeStop, recStepUnchanged
<1>23. ASSUME NEW r \in Recs, NetworkChangeStart(r) PROVE Safety'
  BY <1>23 DEF NetworkChangeStart, EnterFailure, recStepUnchanged, CanSeamless
<1>24. ASSUME NEW r \in Recs, NetworkChangeTun(r) PROVE Safety'
  BY <1>24 DEF NetworkChangeTun, recStepUnchanged
<1>25. ASSUME NEW r \in Recs, NetworkChangeProbe(r) PROVE Safety'
  BY <1>25 DEF NetworkChangeProbe, EnterFailure, recStepUnchanged, CanSeamless
<1>26. ASSUME NEW r \in Recs, NetworkChangeFinish(r) PROVE Safety'
  BY <1>26 DEF NetworkChangeFinish, StartHealthCheck, Finally
<1>27. CASE KillSwitchTimer
  BY <1>27 DEF KillSwitchTimer, LaunchNetworkChange
<1>28. CASE DebounceTimer
  BY <1>28 DEF DebounceTimer, LaunchNetworkChange
<1>29. CASE AutoReconnectTimer
  BY <1>29 DEF AutoReconnectTimer, LaunchConnect
<1>30. CASE NetworkLostTimer
  BY <1>30 DEF NetworkLostTimer, EnterFailure, CanSeamless
<1>31. CASE HealthCheckFails
  BY <1>31 DEF HealthCheckFails
<1>32. CASE HealthCheckReports
  BY <1>32 DEF HealthCheckReports, EnterFailure, CanSeamless
<1>33. CASE DnsPoolDeadReports
  BY <1>33 DEF DnsPoolDeadReports, EnterFailure, CanSeamless
<1>34. CASE StartConnect
  BY <1>34 DEF StartConnect, Deliver, LaunchConnect
<1>35. CASE StartDisconnect
  BY <1>35 DEF StartDisconnect, Deliver, Disconnect, DisconnectCancels
<1>36. CASE StartReconnect
  BY <1>36 DEF StartReconnect, Deliver
<1>37. CASE StickyRestart
  BY <1>37 DEF StickyRestart, LaunchConnect
<1>38. CASE OnDestroy
  BY <1>38 DEF OnDestroy, InstanceGone, CleanupConnectionSync
<1>39. CASE OrphanStart
  BY <1>39 DEF OrphanStart
<1>40. CASE OrphanStop
  <2>1. NothingOutlivesService'
    BY <1>40, Zenon DEF OrphanStop
  <2> QED BY <1>40, <2>1 DEF OrphanStop
<1>41. CASE GraceEnds
  BY <1>41 DEF GraceEnds
<1>42. CASE UserConnects
  BY <1>42 DEF UserConnects, Input, Send
<1>43. CASE UserDisconnects
  BY <1>43 DEF UserDisconnects, Input, Send
<1>44. CASE UserReconnects
  BY <1>44 DEF UserReconnects, Input, Send
<1>45. CASE TaskRemoved
  BY <1>45 DEF TaskRemoved, Input, Send
<1>46. CASE Revoked
  BY <1>46 DEF Revoked, Input, Disconnect, DisconnectCancels
<1>47. CASE NetworkAvailable
  BY <1>47 DEF NetworkAvailable, Input, DebouncedReconnect
<1>48. CASE NetworkLost
  BY <1>48 DEF NetworkLost, Input
<1>49. CASE LinkOrDozeChange
  BY <1>49 DEF LinkOrDozeChange, Input, DebouncedReconnect
<1>50. CASE ProxyDies
  BY <1>50 DEF ProxyDies, Input
<1>51. CASE Tun2SocksDies
  BY <1>51 DEF Tun2SocksDies, Input
<1>52. CASE TunnelStalls
  BY <1>52 DEF TunnelStalls, Input
<1>53. CASE DnsPoolDies
  BY <1>53 DEF DnsPoolDies, Input
<1>54. CASE ProcessKilled
  BY <1>54 DEF ProcessKilled, Input, InstanceGone
<1> QED
  BY <1>1, <1>2, <1>3, <1>4, <1>5, <1>6, <1>7, <1>8, <1>9, <1>10, <1>11,
     <1>12, <1>13, <1>14, <1>15, <1>16, <1>17, <1>18, <1>19, <1>20, <1>21,
     <1>22, <1>23, <1>24, <1>25, <1>26, <1>27, <1>28, <1>29, <1>30, <1>31,
     <1>32, <1>33, <1>34, <1>35, <1>36, <1>37, <1>38, <1>39, <1>40, <1>41,
     <1>42, <1>43, <1>44, <1>45, <1>46, <1>47, <1>48, <1>49, <1>50, <1>51,
     <1>52, <1>53, <1>54, Zenon DEF Next, System, ConnectStep, DisconnectStep,
     FailureStep, NetworkChangeStep, Environment

\* Safety holds in every reachable state.
LEMMA SafetyInvariant == Spec => []Safety
<1>1. Init => Safety
  BY HostsFacts DEF Init, Safety, ReconnectFlagOwned, NothingOutlivesService,
     SwitchCleansUp, OpeningNotCancelled, Running
<1>2. TypeOK /\ Safety /\ [Next]_vars => Safety'
  <2> SUFFICES ASSUME TypeOK, Safety, [Next]_vars PROVE Safety'
    OBVIOUS
  <2>1. CASE Next
    BY <2>1, SafetyStep
  <2>2. CASE UNCHANGED vars
    BY <2>2 DEF vars, envVars, lifeVars, jobVars, flagVars, countVars, netVars,
       resVars, Safety, ReconnectFlagOwned, NothingOutlivesService,
       SwitchCleansUp, OpeningNotCancelled, Running, Reconnecting
  <2> QED BY <2>1, <2>2
<1> QED BY <1>1, <1>2, TypeCorrect, PTL DEF Spec

\* isReconnecting is never left set without a handleNetworkChange coroutine that
\* will reset it: not by its early returns, not by the failure handler that runs
\* inside it, not by the cancellations of disconnect() and cleanupConnection.
THEOREM ReconnectFlagIsOwned == Spec => []ReconnectFlagOwned
<1>1. Safety => ReconnectFlagOwned
  BY DEF Safety
<1> QED BY <1>1, SafetyInvariant, PTL

\* Whatever was under way when the service ended, onDestroy leaves no coroutine,
\* callback, interface, tun2socks or proxy of it behind.
THEOREM ServiceLeavesNothing == Spec => []NothingOutlivesService
<1>1. Safety => NothingOutlivesService
  BY DEF Safety
<1> QED BY <1>1, SafetyInvariant, PTL

\* connect() accepts a profile only when nothing of another profile is left, in
\* whatever order connects, disconnects, recoveries and failures came.
THEOREM SwitchIsClean == Spec => []SwitchCleansUp
<1>1. Safety => SwitchCleansUp
  BY DEF Safety
<1> QED BY <1>1, SafetyInvariant, PTL

\* Only connect() opens the interface, when establishVpnInterface returns.
LEMMA OnlyConnectVpnOpens ==
    ASSUME TypeOK, Next, ~tun, tun' PROVE ConnectVpn
<1> USE DEF envVars, lifeVars, jobVars, flagVars, countVars, netVars, resVars
<1>1. ~ConnectStep \/ ConnectVpn
  BY DEF ConnectStep, ConnectJoin, ConnectStopAll, SwitchesProfile,
     CleanupBegin, CleanupCancels, ConnectClean, CleanupEnd, SvcAfter,
     ConnectLoad, ConnectProxy, ConnectContinues, ConnectGivesUp,
     connectStepUnchanged, ConnectTun, ConnectFinish, StartHealthCheck,
     ConnectCatch, CanSeamless
<1>2. ~DisconnectStep
  BY DEF DisconnectStep, DisconnectBegin, CleanupBegin, CleanupCancels,
     DisconnectEnd, CleanupEnd, SvcAfter
<1>3. \A h \in Hosts : ~FailureStep(h)
  BY DEF FailureStep, TunnelFailureSeamless, TunnelFailureKill,
     KillSwitchApplies, TunnelFailureNoKill, TunnelFailureAuto,
     AutoReconnectApplies, CleanupBegin, CleanupCancels, TunnelFailureError,
     KillSwitchEnter, Finally, AutoReconnectEnter, CleanupEnd, SvcAfter,
     ErrorStop
<1>4. \A r \in Recs : ~NetworkChangeStep(r)
  BY DEF NetworkChangeStep, NetworkChangeIgnored, NetworkChangeBegin,
     NetworkChangeStop, recStepUnchanged, NetworkChangeStart, CanSeamless,
     NetworkChangeTun, NetworkChangeProbe, NetworkChangeFinish,
     StartHealthCheck, Finally
<1>5. ~(System /\ ~ConnectStep /\ ~DisconnectStep)
  BY <1>3, <1>4 DEF System, KillSwitchTimer, LaunchNetworkChange,
     DebounceTimer, AutoReconnectTimer, LaunchConnect, NetworkLostTimer,
     CanSeamless, HealthCheckFails, HealthCheckReports, DnsPoolDeadReports,
     StartConnect, StartDisconnect, Disconnect, DisconnectCancels,
     StartReconnect, StickyRestart, OnDestroy, InstanceGone,
     CleanupConnectionSync, OrphanStart, OrphanStop, GraceEnds
<1>6. ~Environment
  BY DEF Environment, UserConnects, UserDisconnects, UserReconnects,
     TaskRemoved, Revoked, Disconnect, DisconnectCancels, NetworkAvailable,
     DebouncedReconnect, NetworkLost, LinkOrDozeChange, ProxyDies,
     Tun2SocksDies, TunnelStalls, DnsPoolDies, ProcessKilled, InstanceGone
<1> QED BY <1>1, <1>2, <1>5, <1>6 DEF Next

\* No step opens the interface between disconnect() and the next connect() that
\* is accepted: only ConnectVpn opens it, and OpeningNotCancelled is its guard.
THEOREM DisconnectStaysClosed == Spec => NoTunAfterDisconnect
<1>1. TypeOK /\ Safety /\ [Next]_vars
        => [~tun /\ tun' => ~isUserInitiatedDisconnect]_vars
  <2> SUFFICES ASSUME TypeOK, Safety, Next, ~tun, tun'
               PROVE  ~isUserInitiatedDisconnect
    BY DEF NoTunAfterDisconnect
  <2>1. ConnectVpn
    BY OnlyConnectVpnOpens
  <2> QED BY <2>1 DEF ConnectVpn, Safety, OpeningNotCancelled
<1> QED BY <1>1, TypeCorrect, SafetyInvariant, PTL DEF Spec, NoTunAfterDisconnect

=============================================================================
