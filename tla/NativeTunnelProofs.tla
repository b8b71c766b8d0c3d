------------------------- MODULE NativeTunnelProofs -------------------------
(***************************************************************************)
(* Proofs about NativeTunnel, for any number of callers whose calls        *)
(* overlap in any way, any number of starts and sessions and any limit: as *)
(* long as the calls do not meet in one of the windows that damage the     *)
(* tunnel, the threads never overlap and a stop reaches every task and     *)
(* session.                                                                *)
(***************************************************************************)
EXTENDS NativeTunnel, SequenceTheorems, TLAPS

-----------------------------------------------------------------------------
(* The inductive invariant.                                                *)

\* All threads but the last one have ended, none follows it, and while it
\* lives, or is about to be created, tunnel_running says so.
ThreadsInOrder ==
    /\ \A t \in Threads : t < handle => thread[t] = "ended"
    /\ \A t \in Threads : thread[t] = "none" <=> t > handle
    /\ \A t \in Threads : Alive(t) => tunnelRunning
    /\ \A c \in Callers : caller[c] = "create" => tunnelRunning

Launching(c) == caller[c] \in {"setRunning", "create"}

\* A caller that sets up the next thread is alone, and what it has set is what
\* the thread finds.
StartsAlone ==
    /\ \A c, d \in Callers : Launching(c) /\ Launching(d) => c = d
    /\ \A c \in Callers :
         Launching(c) => /\ \A t \in Threads : ~Alive(t)
                         /\ config = handle + 1 /\ tunFd = handle + 1
    /\ \A t \in Threads : thread[t] = "config" => config = t /\ tunFd = t

\* The tail of a stop comes after the end of the thread it has joined.
TailsComeLast ==
    \A c \in Callers :
      caller[c] \in {"free", "clear", "resetFd"} /\ target[c] # 0
      => thread[target[c]] = "ended"

Control == ThreadsInOrder /\ StartsAlone /\ TailsComeLast

Setting(c) == caller[c] \in {"nativeStart", "setConfig", "setRunning", "create"}

\* A start that has set reject_quic is alone, and the setting lasts until the
\* thread resets it.
SettingsKept ==
    /\ \A c, d \in Callers : Setting(c) /\ Setting(d) => c = d
    /\ \A c \in Callers :
         Setting(c) => rejectQuic = asked[c] /\ \A t \in Threads : ~Busy(t)
    /\ \A t \in Threads : Busy(t) => rejectQuic = wanted

Distinct(s) == \A i, j \in DOMAIN s : s[i] = s[j] => i = j

\* The tasks of a tunnel exist while it runs; the event task joins the others
\* only after run has become 0, and the timer task stops only then.
TasksKept ==
    /\ (\A t \in Threads : thread[t] # "running") => sessions = <<>> /\ joining = "none"
    /\ (\E t \in Threads : thread[t] = "running") =>
          /\ \A x \in Tasks : tasks[x] # "none"
          /\ run => tasks["timer"] # "stopped"
    /\ joining # "none" => ~run
    /\ tasks["event"] = "stopped" => joining = "none"

\* The tasks, for as long as they belong to one thread.
TaskInv == Orderly => TasksKept /\ TimersRun /\ StopReachesAll

IInv ==
    /\ TypeOK /\ Distinct(sessions)
    /\ Orderly => Control
    /\ races = {} => SettingsKept
    /\ TaskInv

-----------------------------------------------------------------------------
(* Sequences.                                                              *)

\* Taking a session out of the list.
LEMMA RemoveAtFacts ==
    ASSUME NEW S, NEW s \in Seq(S), NEW i \in DOMAIN s, Distinct(s)
    PROVE  /\ RemoveAt(s, i) \in Seq(S)
           /\ ToSet(RemoveAt(s, i)) = ToSet(s) \ {s[i]}
           /\ Distinct(RemoveAt(s, i))
<1> DEFINE r == RemoveAt(s, i)
<1>1. /\ i \in 1 .. Len(s) /\ Len(s) \in Nat
      /\ DOMAIN s = 1 .. Len(s)
      /\ \A j \in 1 .. Len(s) : s[j] \in S
  OBVIOUS
<1>2. /\ SubSeq(s, 1, i - 1) \in Seq(S) /\ Len(SubSeq(s, 1, i - 1)) = i - 1
      /\ \A j \in 1 .. i - 1 : SubSeq(s, 1, i - 1)[j] = s[j]
  <2>1. 1 \in Int /\ i - 1 \in Int /\ \A j \in 1 .. i - 1 : s[j] \in S
    BY <1>1
  <2>2. /\ SubSeq(s, 1, i - 1) \in Seq(S)
        /\ Len(SubSeq(s, 1, i - 1)) = IF 1 <= i - 1 THEN (i - 1) - 1 + 1 ELSE 0
        /\ \A j \in 1 .. (i - 1) - 1 + 1 : SubSeq(s, 1, i - 1)[j] = s[1 + j - 1]
    BY ONLY <2>1, SubSeqProperties
  <2> QED BY <2>2, <1>1
<1>3. /\ SubSeq(s, i + 1, Len(s)) \in Seq(S)
      /\ Len(SubSeq(s, i + 1, Len(s))) = Len(s) - i
      /\ \A j \in 1 .. Len(s) - i : SubSeq(s, i + 1, Len(s))[j] = s[i + j]
  <2>1. i + 1 \in Int /\ Len(s) \in Int /\ \A j \in i + 1 .. Len(s) : s[j] \in S
    BY <1>1
  <2>2. /\ SubSeq(s, i + 1, Len(s)) \in Seq(S)
        /\ Len(SubSeq(s, i + 1, Len(s)))
             = IF i + 1 <= Len(s) THEN Len(s) - (i + 1) + 1 ELSE 0
        /\ \A j \in 1 .. Len(s) - (i + 1) + 1 :
              SubSeq(s, i + 1, Len(s))[j] = s[(i + 1) + j - 1]
    BY ONLY <2>1, SubSeqProperties
  <2> QED BY <2>2, <1>1
<1> DEFINE a == SubSeq(s, 1, i - 1)
           b == SubSeq(s, i + 1, Len(s))
<1>3a. r = a \o b
  BY DEF RemoveAt
<1>3b. /\ a \in Seq(S) /\ Len(a) = i - 1 /\ \A j \in 1 .. i - 1 : a[j] = s[j]
       /\ b \in Seq(S) /\ Len(b) = Len(s) - i
       /\ \A j \in 1 .. Len(s) - i : b[j] = s[i + j]
  BY <1>2, <1>3
<1> HIDE DEF r, a, b
<1>3c. /\ r \in Seq(S) /\ Len(r) = Len(a) + Len(b)
       /\ \A j \in 1 .. Len(a) + Len(b) :
             r[j] = IF j <= Len(a) THEN a[j] ELSE b[j - Len(a)]
  BY <1>3a, <1>3b, ConcatProperties
<1>4. r \in Seq(S) /\ Len(r) = Len(s) - 1
  BY <1>1, <1>3b, <1>3c
<1>5. \A j \in 1 .. Len(s) - 1 : r[j] = IF j < i THEN s[j] ELSE s[j + 1]
  <2> SUFFICES ASSUME NEW j \in 1 .. Len(s) - 1
               PROVE  r[j] = IF j < i THEN s[j] ELSE s[j + 1]
    OBVIOUS
  <2>1. CASE j < i
    BY <2>1, <1>1, <1>3b, <1>3c
  <2>2. CASE ~(j < i)
    <3>1. r[j] = b[j - (i - 1)]
      BY <2>2, <1>1, <1>3b, <1>3c
    <3>2. j - (i - 1) \in 1 .. Len(s) - i /\ i + (j - (i - 1)) = j + 1
      BY <2>2, <1>1
    <3> QED BY <3>1, <3>2, <2>2, <1>3b
  <2> QED BY <2>1, <2>2
<1>6. DOMAIN r = 1 .. Len(s) - 1
  BY <1>1, <1>4
<1>7. Distinct(r)
  <2> SUFFICES ASSUME NEW j \in 1 .. Len(s) - 1, NEW k \in 1 .. Len(s) - 1, r[j] = r[k]
               PROVE  j = k
    BY <1>6 DEF Distinct
  <2> DEFINE p(x) == IF x < i THEN x ELSE x + 1
  <2>1. p(j) \in 1 .. Len(s) /\ p(k) \in 1 .. Len(s) /\ (p(j) = p(k) => j = k)
    BY <1>1
  <2>2. r[j] = s[p(j)] /\ r[k] = s[p(k)]
    BY <1>5
  <2> HIDE DEF p
  <2> QED BY <1>1, <2>1, <2>2 DEF Distinct
<1>8. ToSet(r) \subseteq ToSet(s) \ {s[i]}
  BY <1>1, <1>5, <1>6 DEF Distinct, ToSet
<1>9. ToSet(s) \ {s[i]} \subseteq ToSet(r)
  <2> SUFFICES ASSUME NEW k \in 1 .. Len(s), s[k] # s[i]
               PROVE  \E j \in 1 .. Len(s) - 1 : r[j] = s[k]
    BY <1>1, <1>6 DEF ToSet
  <2>1. CASE k < i
    <3>1. k \in 1 .. Len(s) - 1 /\ r[k] = s[k]
      BY <2>1, <1>1, <1>5
    <3> QED BY <3>1
  <2>2. CASE k > i
    <3>1. k - 1 \in 1 .. Len(s) - 1 /\ ~(k - 1 < i) /\ (k - 1) + 1 = k
      BY <2>2, <1>1
    <3>2. r[k - 1] = s[k]
      BY <3>1, <1>5
    <3> QED BY <3>1, <3>2
  <2>3. k # i
    OBVIOUS
  <2> QED BY <2>1, <2>2, <2>3, <1>1
<1> QED BY <1>4, <1>7, <1>8, <1>9 DEF r

\* Putting one at its end.
LEMMA AppendFacts ==
    ASSUME NEW S, NEW s \in Seq(S), NEW e \in S
    PROVE  /\ Append(s, e) \in Seq(S) /\ Append(s, e) # <<>>
           /\ ToSet(Append(s, e)) = ToSet(s) \cup {e}
           /\ Head(Append(s, e)) \in ToSet(Append(s, e))
           /\ Distinct(s) /\ e \notin ToSet(s) => Distinct(Append(s, e))
<1>1. /\ Len(s) \in Nat /\ DOMAIN s = 1 .. Len(s)
      /\ Append(s, e) \in Seq(S) /\ Len(Append(s, e)) = Len(s) + 1
      /\ DOMAIN Append(s, e) = 1 .. Len(s) + 1
      /\ \A j \in 1 .. Len(s) + 1 : Append(s, e)[j] = IF j <= Len(s) THEN s[j] ELSE e
  OBVIOUS
<1>2. Append(s, e) # <<>>
  BY <1>1
<1>3. ToSet(Append(s, e)) \subseteq ToSet(s) \cup {e}
  BY <1>1 DEF ToSet
<1>4. ToSet(s) \cup {e} \subseteq ToSet(Append(s, e))
  <2>1. e \in ToSet(Append(s, e))
    <3>1. Len(s) + 1 \in 1 .. Len(s) + 1 /\ Append(s, e)[Len(s) + 1] = e
      BY <1>1
    <3> QED BY <3>1, <1>1 DEF ToSet
  <2>2. ASSUME NEW k \in 1 .. Len(s) PROVE s[k] \in ToSet(Append(s, e))
    <3>1. k \in 1 .. Len(s) + 1 /\ Append(s, e)[k] = s[k]
      BY <1>1
    <3> QED BY <3>1, <1>1 DEF ToSet
  <2> QED BY <2>1, <2>2, <1>1 DEF ToSet
<1>5. Head(Append(s, e)) \in ToSet(Append(s, e))
  <2>1. Head(Append(s, e)) = Append(s, e)[1] /\ 1 \in 1 .. Len(s) + 1
    BY <1>1
  <2> QED BY <2>1, <1>1 DEF ToSet
<1>6. ASSUME Distinct(s), e \notin ToSet(s) PROVE Distinct(Append(s, e))
  BY <1>1, <1>6 DEF Distinct, ToSet
<1> QED BY <1>1, <1>2, <1>3, <1>4, <1>5, <1>6

-----------------------------------------------------------------------------
(* The types.                                                              *)

\* The variables of the callers.
CallTypes ==
    /\ caller \in [Callers -> CallerPcs]
    /\ target \in [Callers -> 0 .. MaxStarts]
    /\ back \in [Callers -> {"idle", "startFlags"}]
    /\ asked \in [Callers -> BOOLEAN]
    /\ races \subseteq Windows

\* The flags.
FlagTypes == {wanted, tunnelRunning, rejectQuic, run} \subseteq BOOLEAN

\* The numbers of threads and starts.
NumberTypes == {handle, config, tunFd, eventFd} \cup joined \subseteq 0 .. MaxStarts

\* The threads and their socket pairs.
ThreadTypes == thread \in [Threads -> ThreadPcs] /\ event \in [Threads -> BOOLEAN]

\* The tasks and the sessions.
TaskTypes ==
    /\ tasks \in [Tasks -> TaskStates]
    /\ joining \in {"none", "io", "timer"}
    /\ sessions \in Seq(Slots)
    /\ doomed \subseteq ToSet(sessions)
    /\ Distinct(sessions)

Types == CallTypes /\ FlagTypes /\ NumberTypes /\ ThreadTypes /\ TaskTypes

\* The parts are the whole.
LEMMA TypeParts == Types <=> TypeOK /\ Distinct(sessions)
BY DEF Types, CallTypes, FlagTypes, NumberTypes, ThreadTypes, TaskTypes, TypeOK

\* What a step leaves alone keeps its type.
LEMMA TypeFrame ==
    /\ CallTypes /\ UNCHANGED <<caller, target, back, asked, races>> => CallTypes'
    /\ FlagTypes /\ UNCHANGED <<wanted, tunnelRunning, rejectQuic, run>> => FlagTypes'
    /\ NumberTypes /\ UNCHANGED <<handle, config, tunFd, eventFd, joined>> => NumberTypes'
    /\ ThreadTypes /\ UNCHANGED <<thread, event>> => ThreadTypes'
    /\ TaskTypes /\ UNCHANGED <<tasks, joining, sessions, doomed>> => TaskTypes'
BY DEF CallTypes, FlagTypes, NumberTypes, ThreadTypes, TaskTypes

\* A step keeps the types.
LEMMA TypeStep == Types /\ [Next]_vars => Types'
<1> SUFFICES ASSUME Types, [Next]_vars PROVE Types'
  OBVIOUS
<1> USE CountsAssumption DEF Threads
<1>1. ASSUME NEW c \in Callers, Start(c) PROVE Types'
  <2>1. CallTypes'
    BY <1>1 DEF Start, Goes, Meets, Windows, Types, CallTypes, CallerPcs
  <2> QED BY <1>1, TypeFrame, <2>1 DEF Start, Types, callVars, jniVars,
       threadVars, taskVars
<1>2. ASSUME NEW c \in Callers, StartStops(c) PROVE Types'
  <2>1. CallTypes'
    BY <1>2 DEF StartStops, Goes, Meets, Windows, Types, CallTypes, CallerPcs
  <2> QED BY <1>2, TypeFrame, <2>1 DEF StartStops, Types, callVars, jniVars,
       threadVars, taskVars
<1>3. ASSUME NEW c \in Callers, SetRejectQuic(c) PROVE Types'
  <2>1. CallTypes'
    BY <1>3 DEF SetRejectQuic, Goes, Meets, Windows, Types, CallTypes, CallerPcs
  <2>2. FlagTypes'
    BY <1>3 DEF SetRejectQuic, Types, FlagTypes, callVars, jniVars, threadVars,
         taskVars
  <2> QED BY <1>3, TypeFrame, <2>1, <2>2 DEF SetRejectQuic, Types, callVars,
       jniVars, threadVars, taskVars
<1>4. ASSUME NEW c \in Callers, NativeStart(c) PROVE Types'
  <2>1. CallTypes'
    BY <1>4 DEF NativeStart, StartReturns, Goes, Meets, Windows, Types, CallTypes, CallerPcs
  <2> QED BY <1>4, TypeFrame, <2>1 DEF NativeStart, Types, callVars, jniVars,
       threadVars, taskVars
<1>5. ASSUME NEW c \in Callers, SetConfig(c) PROVE Types'
  <2>1. CallTypes'
    BY <1>5 DEF SetConfig, StartReturns, Goes, Meets, Windows, Types, CallTypes, CallerPcs
  <2>2. NumberTypes'
    BY <1>5 DEF SetConfig, Types, NumberTypes, callVars, jniVars, threadVars,
         taskVars
  <2> QED BY <1>5, TypeFrame, <2>1, <2>2 DEF SetConfig, Types, callVars, jniVars,
       threadVars, taskVars
<1>6. ASSUME NEW c \in Callers, SetRunning(c) PROVE Types'
  <2>1. CallTypes'
    BY <1>6 DEF SetRunning, Goes, Meets, Windows, Types, CallTypes, CallerPcs
  <2>2. FlagTypes'
    BY <1>6 DEF SetRunning, Types, FlagTypes, callVars, jniVars, threadVars,
         taskVars
  <2> QED BY <1>6, TypeFrame, <2>1, <2>2 DEF SetRunning, Types, callVars,
       jniVars, threadVars, taskVars
<1>7. ASSUME NEW c \in Callers, CreateThread(c) PROVE Types'
  <2>1. CallTypes'
    BY <1>7 DEF CreateThread, StartReturns, Goes, Meets, Windows, Types, CallTypes, CallerPcs
  <2>2. FlagTypes'
    BY <1>7 DEF CreateThread, Types, FlagTypes, CallTypes, callVars, jniVars,
         threadVars, taskVars
  <2>3. NumberTypes'
    BY <1>7 DEF CreateThread, Types, NumberTypes, callVars, jniVars, threadVars,
         taskVars
  <2>4. ThreadTypes'
    BY <1>7 DEF CreateThread, ThreadPcs, Types, ThreadTypes, NumberTypes,
         callVars, jniVars, threadVars, taskVars
  <2> QED BY <1>7, TypeFrame, <2>1, <2>2, <2>3, <2>4 DEF CreateThread, Types,
       callVars, jniVars, threadVars, taskVars
<1>8. ASSUME NEW c \in Callers, NativeStop(c) PROVE Types'
  <2>1. CallTypes'
    BY <1>8 DEF NativeStop, Goes, Meets, Windows, Types, CallTypes, CallerPcs
  <2> QED BY <1>8, TypeFrame, <2>1 DEF NativeStop, Types, callVars, jniVars,
       threadVars, taskVars
<1>9. ASSUME NEW c \in Callers, WaitFd(c) PROVE Types'
  <2>1. CallTypes'
    BY <1>9 DEF WaitFd, Goes, Meets, Windows, Types, CallTypes, CallerPcs,
         NumberTypes
  <2> QED BY <1>9, TypeFrame, <2>1 DEF WaitFd, Types, callVars, jniVars,
       threadVars, taskVars
<1>10. ASSUME NEW c \in Callers, WriteEvent(c) PROVE Types'
  <2>1. CallTypes'
    BY <1>10 DEF WriteEvent, Goes, Meets, Windows, Types, CallTypes, CallerPcs
  <2>2. ThreadTypes'
    BY <1>10 DEF WriteEvent, ThreadPcs, Types, ThreadTypes, NumberTypes, callVars,
         jniVars, threadVars, taskVars
  <2> QED BY <1>10, TypeFrame, <2>1, <2>2 DEF WriteEvent, Types, callVars,
       jniVars, threadVars, taskVars
<1>11. ASSUME NEW c \in Callers, Join(c) PROVE Types'
  <2>1. CallTypes'
    BY <1>11 DEF Join, Goes, Meets, Windows, Types, CallTypes, CallerPcs,
         NumberTypes
  <2>2. NumberTypes'
    BY <1>11 DEF Join, Types, NumberTypes, callVars, jniVars, threadVars, taskVars
  <2> QED BY <1>11, TypeFrame, <2>1, <2>2 DEF Join, Types, callVars, jniVars,
       threadVars, taskVars
<1>12. ASSUME NEW c \in Callers, JoinReturned(c) PROVE Types'
  <2>1. CallTypes'
    BY <1>12 DEF JoinReturned, Goes, Meets, Windows, Types, CallTypes, CallerPcs
  <2> QED BY <1>12, TypeFrame, <2>1 DEF JoinReturned, Types, callVars, jniVars,
       threadVars, taskVars
<1>13. ASSUME NEW c \in Callers, FreeConfig(c) PROVE Types'
  <2>1. CallTypes'
    BY <1>13 DEF FreeConfig, Goes, Meets, Windows, Types, CallTypes, CallerPcs
  <2>2. NumberTypes'
    BY <1>13 DEF FreeConfig, Types, NumberTypes, callVars, jniVars, threadVars,
         taskVars
  <2> QED BY <1>13, TypeFrame, <2>1, <2>2 DEF FreeConfig, Types, callVars,
       jniVars, threadVars, taskVars
<1>14. ASSUME NEW c \in Callers, ClearRunning(c) PROVE Types'
  <2>1. CallTypes'
    BY <1>14 DEF ClearRunning, Goes, Meets, Windows, Types, CallTypes, CallerPcs
  <2>2. FlagTypes'
    BY <1>14 DEF ClearRunning, Types, FlagTypes, callVars, jniVars, threadVars,
         taskVars
  <2> QED BY <1>14, TypeFrame, <2>1, <2>2 DEF ClearRunning, Types, callVars,
       jniVars, threadVars, taskVars
<1>15. ASSUME NEW c \in Callers, ResetFd(c) PROVE Types'
  <2>1. CallTypes'
    BY <1>15 DEF ResetFd, Goes, Meets, Windows, Types, CallTypes, CallerPcs
  <2>2. NumberTypes'
    BY <1>15 DEF ResetFd, Types, NumberTypes, callVars, jniVars, threadVars,
         taskVars
  <2> QED BY <1>15, TypeFrame, <2>1, <2>2 DEF ResetFd, Types, callVars, jniVars,
       threadVars, taskVars
<1>16. ASSUME NEW t \in Threads, InitSystem(t) PROVE Types'
  <2>1. ThreadTypes'
    BY <1>16 DEF InitSystem, ThreadGoes, ThreadPcs, Types, ThreadTypes, callVars,
         jniVars, threadVars, taskVars
  <2> QED BY <1>16, TypeFrame, <2>1 DEF InitSystem, Types, callVars, jniVars,
       threadVars, taskVars
<1>17. ASSUME NEW t \in Threads, TunnelInit(t) PROVE Types'
  <2>1. ThreadTypes'
    BY <1>17 DEF TunnelInit, ThreadGoes, ThreadPcs, Types, ThreadTypes, callVars,
         jniVars, threadVars, taskVars
  <2> QED BY <1>17, TypeFrame, <2>1 DEF TunnelInit, Types, callVars, jniVars,
       threadVars, taskVars
<1>18. ASSUME NEW t \in Threads, EventTaskInit(t) PROVE Types'
  <2>1. NumberTypes'
    BY <1>18 DEF EventTaskInit, Types, NumberTypes, callVars, jniVars, threadVars,
         taskVars
  <2>2. ThreadTypes'
    BY <1>18 DEF EventTaskInit, ThreadGoes, ThreadPcs, Types, ThreadTypes,
         callVars, jniVars, threadVars, taskVars
  <2> QED BY <1>18, TypeFrame, <2>1, <2>2 DEF EventTaskInit, Types, callVars,
       jniVars, threadVars, taskVars
<1>19. ASSUME NEW t \in Threads, TasksInit(t) PROVE Types'
  <2>1. FlagTypes'
    BY <1>19 DEF TasksInit, Types, FlagTypes, callVars, jniVars, threadVars,
         taskVars
  <2>2. ThreadTypes'
    BY <1>19 DEF TasksInit, ThreadGoes, ThreadPcs, Types, ThreadTypes, callVars,
         jniVars, threadVars, taskVars
  <2>3. TaskTypes'
    BY <1>19 DEF TasksInit, Types, TaskTypes, Tasks, TaskStates, Woken, ToSet,
         callVars, jniVars, threadVars, taskVars
  <2> QED BY <1>19, TypeFrame, <2>1, <2>2, <2>3 DEF TasksInit, Types, callVars,
       jniVars, threadVars, taskVars
<1>20. ASSUME NEW t \in Threads, SystemReturns(t) PROVE Types'
  <2>1. ThreadTypes'
    BY <1>20 DEF SystemReturns, ThreadGoes, ThreadPcs, Types, ThreadTypes,
         callVars, jniVars, threadVars, taskVars
  <2> QED BY <1>20, TypeFrame, <2>1 DEF SystemReturns, Types, callVars, jniVars,
       threadVars, taskVars
<1>21. ASSUME NEW t \in Threads, Fini(t) PROVE Types'
  <2>1. FlagTypes'
    BY <1>21 DEF Fini, Types, FlagTypes, callVars, jniVars, threadVars, taskVars
  <2>2. NumberTypes'
    BY <1>21 DEF Fini, Types, NumberTypes, callVars, jniVars, threadVars, taskVars
  <2>3. ThreadTypes'
    BY <1>21 DEF Fini, ThreadGoes, ThreadPcs, Types, ThreadTypes, callVars,
         jniVars, threadVars, taskVars
  <2>4. TaskTypes'
    BY <1>21 DEF Fini, Types, TaskTypes, Tasks, TaskStates, Woken, ToSet,
         callVars, jniVars, threadVars, taskVars
  <2> QED BY <1>21, TypeFrame, <2>1, <2>2, <2>3, <2>4 DEF Fini, Types, callVars,
       jniVars, threadVars, taskVars
<1>22. ASSUME NEW t \in Threads, Exit(t) PROVE Types'
  <2>1. FlagTypes'
    BY <1>22 DEF Exit, Types, FlagTypes, callVars, jniVars, threadVars, taskVars
  <2>2. ThreadTypes'
    BY <1>22 DEF Exit, ThreadGoes, ThreadPcs, Types, ThreadTypes, callVars,
         jniVars, threadVars, taskVars
  <2> QED BY <1>22, TypeFrame, <2>1, <2>2 DEF Exit, Types, callVars, jniVars,
       threadVars, taskVars
<1>23. ASSUME NEW t \in Threads, EventRead(t) PROVE Types'
  <2>1. FlagTypes'
    BY <1>23 DEF EventRead, Types, FlagTypes, callVars, jniVars, threadVars,
         taskVars
  <2>2. ThreadTypes'
    BY <1>23 DEF EventRead, ThreadPcs, Types, ThreadTypes, callVars, jniVars,
         threadVars, taskVars
  <2>3. TaskTypes'
    BY <1>23 DEF EventRead, Types, TaskTypes, Tasks, TaskStates, Woken, ToSet,
         callVars, jniVars, threadVars, taskVars
  <2> QED BY <1>23, TypeFrame, <2>1, <2>2, <2>3 DEF EventRead, Types, callVars,
       jniVars, threadVars, taskVars
<1>24. ASSUME NEW t \in Threads, EventJoins(t) PROVE Types'
  <2>1. TaskTypes'
    BY <1>24 DEF EventJoins, Types, TaskTypes, Tasks, TaskStates, Woken, ToSet,
         callVars, jniVars, threadVars, taskVars
  <2> QED BY <1>24, TypeFrame, <2>1 DEF EventJoins, Types, callVars, jniVars,
       threadVars, taskVars
<1>25. ASSUME NEW t \in Threads, IoWaits(t) PROVE Types'
  <2>1. TaskTypes'
    BY <1>25 DEF IoWaits, Types, TaskTypes, Tasks, TaskStates, Woken, ToSet,
         callVars, jniVars, threadVars, taskVars
  <2> QED BY <1>25, TypeFrame, <2>1 DEF IoWaits, Types, callVars, jniVars,
       threadVars, taskVars
<1>26. ASSUME NEW t \in Threads, TimerRound(t) PROVE Types'
  <2>1. TaskTypes'
    BY <1>26 DEF TimerRound, Types, TaskTypes, Tasks, TaskStates, Woken, ToSet,
         callVars, jniVars, threadVars, taskVars
  <2> QED BY <1>26, TypeFrame, <2>1 DEF TimerRound, Types, callVars, jniVars,
       threadVars, taskVars
<1>27. ASSUME NEW t \in Threads, TimerFires(t) PROVE Types'
  <2>1. TaskTypes'
    BY <1>27 DEF TimerFires, Types, TaskTypes, Tasks, TaskStates, Woken, ToSet,
         callVars, jniVars, threadVars, taskVars
  <2> QED BY <1>27, TypeFrame, <2>1 DEF TimerFires, Types, callVars, jniVars,
       threadVars, taskVars
<1>28. ASSUME NEW t \in Threads, NEW s \in Slots, IoAccepts(t, s) PROVE Types'
  <2>1. TaskTypes'
    <3>1. /\ sessions' = Append(sessions, s) /\ s \notin ToSet(sessions)
          /\ doomed' \subseteq doomed \cup {Head(sessions')}
          /\ tasks' \in [Tasks -> TaskStates] /\ joining' = joining
      BY <1>28 DEF IoAccepts, InsertSession, Types, TaskTypes, Woken, Tasks, TaskStates
    <3>2. sessions \in Seq(Slots) /\ Distinct(sessions) /\ doomed \subseteq ToSet(sessions)
      BY DEF Types, TaskTypes
    <3>3. /\ sessions' \in Seq(Slots) /\ Distinct(sessions')
          /\ ToSet(sessions') = ToSet(sessions) \cup {s}
          /\ Head(sessions') \in ToSet(sessions')
      BY <3>1, <3>2, AppendFacts
    <3> QED BY <3>1, <3>2, <3>3 DEF Types, TaskTypes
  <2> QED BY <1>28, TypeFrame, <2>1 DEF IoAccepts, Types, callVars, jniVars,
       threadVars, taskVars
<1>29. ASSUME NEW t \in Threads, NEW s \in Slots, SessionActive(t, s) PROVE Types'
  <2>1. TaskTypes'
    <3>1. PICK i \in DOMAIN sessions :
                sessions[i] = s /\ sessions' = Append(RemoveAt(sessions, i), s)
      BY <1>29 DEF SessionActive, At
    <3>2. sessions \in Seq(Slots) /\ Distinct(sessions)
      BY DEF Types, TaskTypes
    <3>3. /\ RemoveAt(sessions, i) \in Seq(Slots) /\ Distinct(RemoveAt(sessions, i))
          /\ ToSet(RemoveAt(sessions, i)) = ToSet(sessions) \ {s}
      BY <3>1, <3>2, RemoveAtFacts
    <3>4. /\ sessions' \in Seq(Slots) /\ Distinct(sessions')
          /\ ToSet(sessions') = (ToSet(sessions) \ {s}) \cup {s}
      BY <3>1, <3>3, AppendFacts
    <3> QED BY <1>29, <3>4 DEF SessionActive, Types, TaskTypes
  <2> QED BY <1>29, TypeFrame, <2>1 DEF SessionActive, Types, callVars, jniVars,
       threadVars, taskVars
<1>30. ASSUME NEW t \in Threads, NEW s \in Slots, SessionEnds(t, s) PROVE Types'
  <2>1. TaskTypes'
    <3>1. PICK i \in DOMAIN sessions :
                sessions[i] = s /\ sessions' = RemoveAt(sessions, i)
      BY <1>30 DEF SessionEnds, At
    <3>2. sessions \in Seq(Slots) /\ Distinct(sessions)
      BY DEF Types, TaskTypes
    <3>3. /\ sessions' \in Seq(Slots) /\ Distinct(sessions')
          /\ ToSet(sessions') = ToSet(sessions) \ {s}
      BY <3>1, <3>2, RemoveAtFacts
    <3> QED BY <1>30, <3>3 DEF SessionEnds, Types, TaskTypes
  <2> QED BY <1>30, TypeFrame, <2>1 DEF SessionEnds, Types, callVars, jniVars,
       threadVars, taskVars
<1>31. CASE UNCHANGED vars
  BY <1>31, TypeFrame DEF Types, vars, callVars, jniVars, taskVars
<1> QED BY <1>1, <1>2, <1>3, <1>4, <1>5, <1>6, <1>7, <1>8, <1>9, <1>10, <1>11,
     <1>12, <1>13, <1>14, <1>15, <1>16, <1>17, <1>18, <1>19, <1>20, <1>21, <1>22,
     <1>23, <1>24, <1>25, <1>26, <1>27, <1>28, <1>29, <1>30, <1>31
     DEF Next, CallerStep, ThreadStep

-----------------------------------------------------------------------------
(* Callers and threads.                                                    *)

\* At most one thread lives, the last one.
LEMMA OneAlive ==
    ASSUME TypeOK, ThreadsInOrder, NEW t \in Threads, NEW u \in Threads,
           Alive(t), Alive(u)
    PROVE  t = u
<1>1. ASSUME NEW v \in Threads, Alive(v) PROVE v = handle
  <2>1. handle \in 0 .. MaxStarts
    BY DEF TypeOK
  <2> QED BY <1>1, <2>1, CountsAssumption DEF Threads, ThreadsInOrder, Alive
<1> QED BY <1>1

\* What the tasks do does not concern the callers and the threads.
LEMMA ControlFrame ==
    Control /\ UNCHANGED <<caller, target, handle, thread, tunnelRunning, config, tunFd>>
    => Control'
BY DEF Control, ThreadsInOrder, StartsAlone, TailsComeLast, Launching, Alive

\* A step in the life of a thread keeps the order, its last one clearing
\* tunnel_running.
LEMMA ThreadMoves ==
    ASSUME TypeOK, Control, NEW t \in Threads, Alive(t),
           NEW to \in ThreadPcs \ {"none", "config"},
           thread' = [thread EXCEPT ![t] = to],
           UNCHANGED <<caller, target, handle, config, tunFd>>,
           to = "ended" \/ tunnelRunning' = tunnelRunning
    PROVE  Control'
<1> USE CountsAssumption DEF Threads
<1>1. thread \in [Threads -> ThreadPcs] /\ target \in [Callers -> 0 .. MaxStarts]
  BY DEF TypeOK
<1>2. \A u \in Threads : Alive(u) => u = t
  BY OneAlive DEF Control
<1>3. \A u \in Threads : thread'[u] = IF u = t THEN to ELSE thread[u]
  BY <1>1
<1>4. \A c \in Callers : ~Launching(c)
  BY DEF Control, StartsAlone
<1>5. \A u \in Threads : Alive(u)' => u = t /\ to # "ended"
  BY <1>2, <1>3 DEF Alive
<1>6. ThreadsInOrder'
  <2>1. \A u \in Threads : (u < handle => thread'[u] = "ended")
                            /\ (thread'[u] = "none" <=> u > handle)
    BY <1>3 DEF Control, ThreadsInOrder, Alive
  <2>2. \A u \in Threads : Alive(u)' => tunnelRunning'
    BY <1>5 DEF Control, ThreadsInOrder
  <2>3. \A c \in Callers : caller'[c] # "create"
    BY <1>4 DEF Launching
  <2> QED BY <2>1, <2>2, <2>3 DEF ThreadsInOrder
<1>7. StartsAlone'
  <2>1. \A c \in Callers : ~Launching(c)'
    BY <1>4 DEF Launching
  <2>2. \A u \in Threads : thread'[u] # "config"
    BY <1>2, <1>3 DEF Alive
  <2> QED BY <2>1, <2>2 DEF StartsAlone
<1>8. TailsComeLast'
  <2> SUFFICES ASSUME NEW c \in Callers, caller[c] \in {"free", "clear", "resetFd"},
                      target[c] # 0
               PROVE  thread'[target[c]] = "ended"
    BY DEF TailsComeLast
  <2>1. target[c] \in Threads /\ thread[target[c]] = "ended"
    BY <1>1 DEF Control, TailsComeLast
  <2> QED BY <1>3, <2>1 DEF Alive
<1> QED BY <1>6, <1>7, <1>8 DEF Control

\* A step keeps the order of callers and threads, unless it is one in which calls
\* meet to damage the tunnel.
LEMMA ControlStep ==
    TypeOK /\ Control /\ Orderly /\ Orderly' /\ [Next]_vars => Control'
<1> SUFFICES ASSUME TypeOK, Control, Orderly, Orderly', [Next]_vars PROVE Control'
  OBVIOUS
<1> USE CountsAssumption DEF Threads
<1>1. ASSUME NEW c \in Callers, Start(c) PROVE Control'
  <2>1. ThreadsInOrder'
    BY <1>1 DEF Start, Goes, Meets, Another, Orderly, TypeOK, Control,
         ThreadsInOrder, StartsAlone, TailsComeLast, Launching, Alive, jniVars,
         threadVars
  <2>2. StartsAlone'
    BY <1>1 DEF Start, Goes, Meets, Another, Orderly, TypeOK, Control,
         ThreadsInOrder, StartsAlone, TailsComeLast, Launching, Alive, jniVars,
         threadVars
  <2>3. TailsComeLast'
    BY <1>1 DEF Start, Goes, Meets, Another, Orderly, TypeOK, Control,
         ThreadsInOrder, StartsAlone, TailsComeLast, Launching, Alive, jniVars,
         threadVars
  <2> QED BY <2>1, <2>2, <2>3 DEF Control
<1>2. ASSUME NEW c \in Callers, StartStops(c) PROVE Control'
  <2>1. ThreadsInOrder'
    BY <1>2 DEF StartStops, Goes, Meets, Another, Orderly, TypeOK, Control,
         ThreadsInOrder, StartsAlone, TailsComeLast, Launching, Alive, jniVars,
         threadVars
  <2>2. StartsAlone'
    BY <1>2 DEF StartStops, Goes, Meets, Another, Orderly, TypeOK, Control,
         ThreadsInOrder, StartsAlone, TailsComeLast, Launching, Alive, jniVars,
         threadVars
  <2>3. TailsComeLast'
    BY <1>2 DEF StartStops, Goes, Meets, Another, Orderly, TypeOK, Control,
         ThreadsInOrder, StartsAlone, TailsComeLast, Launching, Alive, jniVars,
         threadVars
  <2> QED BY <2>1, <2>2, <2>3 DEF Control
<1>3. ASSUME NEW c \in Callers, SetRejectQuic(c) PROVE Control'
  <2>1. ThreadsInOrder'
    BY <1>3 DEF SetRejectQuic, Goes, Meets, Another, Orderly, TypeOK, Control,
         ThreadsInOrder, StartsAlone, TailsComeLast, Launching, Alive, jniVars,
         threadVars
  <2>2. StartsAlone'
    BY <1>3 DEF SetRejectQuic, Goes, Meets, Another, Orderly, TypeOK, Control,
         ThreadsInOrder, StartsAlone, TailsComeLast, Launching, Alive, jniVars,
         threadVars
  <2>3. TailsComeLast'
    BY <1>3 DEF SetRejectQuic, Goes, Meets, Another, Orderly, TypeOK, Control,
         ThreadsInOrder, StartsAlone, TailsComeLast, Launching, Alive, jniVars,
         threadVars
  <2> QED BY <2>1, <2>2, <2>3 DEF Control
<1>4. ASSUME NEW c \in Callers, NativeStart(c) PROVE Control'
  <2>1. ThreadsInOrder'
    BY <1>4 DEF NativeStart, StartReturns, Goes, Meets, Another, Orderly, TypeOK, Control,
         ThreadsInOrder, StartsAlone, TailsComeLast, Launching, Alive, jniVars,
         threadVars
  <2>2. StartsAlone'
    BY <1>4 DEF NativeStart, StartReturns, Goes, Meets, Another, Orderly, TypeOK, Control,
         ThreadsInOrder, StartsAlone, TailsComeLast, Launching, Alive, jniVars,
         threadVars
  <2>3. TailsComeLast'
    BY <1>4 DEF NativeStart, StartReturns, Goes, Meets, Another, Orderly, TypeOK, Control,
         ThreadsInOrder, StartsAlone, TailsComeLast, Launching, Alive, jniVars,
         threadVars
  <2> QED BY <2>1, <2>2, <2>3 DEF Control
<1>5. ASSUME NEW c \in Callers, SetConfig(c) PROVE Control'
  <2>1. /\ ~tunnelRunning /\ \A d \in Callers : ~Launching(d)
        /\ \A t \in Threads : ~Alive(t)
    <3>1. "start" \notin races'
      BY DEF Orderly
    <3>2. ~tunnelRunning /\ \A d \in Callers : d # c => caller[d] # "setRunning"
      BY <1>5, <3>1 DEF SetConfig, Meets, Another
    <3> QED BY <1>5, <3>2 DEF SetConfig, Control, ThreadsInOrder, Launching
  <2>2. /\ UNCHANGED <<tunnelRunning, handle, thread, target>>
        /\ \/ /\ config' = handle + 1 /\ tunFd' = handle + 1
              /\ caller' = [caller EXCEPT ![c] = "setRunning"]
           \/ caller' = [caller EXCEPT ![c] = "idle"]
    BY <1>5 DEF SetConfig, StartReturns, Goes, threadVars
  <2>3. caller \in [Callers -> CallerPcs]
    BY DEF TypeOK
  <2>4. ThreadsInOrder'
    BY <2>1, <2>2, <2>3 DEF Control, ThreadsInOrder, Alive
  <2>5. StartsAlone'
    <3>1. \A d \in Callers : Launching(d)' => d = c /\ config' = handle + 1 /\ tunFd' = handle + 1
      BY <2>1, <2>2, <2>3 DEF Launching
    <3>2. \A t \in Threads : ~Alive(t)' /\ thread'[t] # "config"
      BY <2>1, <2>2 DEF Alive
    <3> QED BY <2>2, <3>1, <3>2 DEF StartsAlone
  <2>6. TailsComeLast'
    BY <2>2, <2>3 DEF Control, TailsComeLast
  <2> QED BY <2>4, <2>5, <2>6 DEF Control
<1>6. ASSUME NEW c \in Callers, SetRunning(c) PROVE Control'
  <2>1. ThreadsInOrder'
    BY <1>6 DEF SetRunning, Goes, Meets, Another, Orderly, TypeOK, Control,
         ThreadsInOrder, StartsAlone, TailsComeLast, Launching, Alive, jniVars,
         threadVars
  <2>2. StartsAlone'
    BY <1>6 DEF SetRunning, Goes, Meets, Another, Orderly, TypeOK, Control,
         ThreadsInOrder, StartsAlone, TailsComeLast, Launching, Alive, jniVars,
         threadVars
  <2>3. TailsComeLast'
    BY <1>6 DEF SetRunning, Goes, Meets, Another, Orderly, TypeOK, Control,
         ThreadsInOrder, StartsAlone, TailsComeLast, Launching, Alive, jniVars,
         threadVars
  <2> QED BY <2>1, <2>2, <2>3 DEF Control
<1>7. ASSUME NEW c \in Callers, CreateThread(c) PROVE Control'
  <2>1. /\ \A t \in Threads : ~Alive(t)
        /\ \A d \in Callers : Launching(d) => d = c
        /\ tunnelRunning /\ config = handle + 1 /\ tunFd = handle + 1
    BY <1>7 DEF CreateThread, Control, ThreadsInOrder, StartsAlone, Launching
  <2>2. /\ caller \in [Callers -> CallerPcs] /\ thread \in [Threads -> ThreadPcs]
        /\ target \in [Callers -> 0 .. MaxStarts]
        /\ handle \in 0 .. MaxStarts /\ handle < MaxStarts /\ handle + 1 \in Threads
    <3>1. handle \in 0 .. MaxStarts /\ handle < MaxStarts
      BY <1>7 DEF CreateThread, TypeOK
    <3> QED BY <3>1 DEF TypeOK
  <2>3. caller' = [caller EXCEPT ![c] = "idle"] /\ UNCHANGED <<target, tunFd>>
    BY <1>7 DEF CreateThread, StartReturns, Goes
  <2>4. \A d \in Callers : ~Launching(d)' /\ caller'[d] # "create"
    BY <2>1, <2>2, <2>3 DEF Launching
  <2>5. CASE UNCHANGED <<handle, thread>>
    <3>1. \A t \in Threads : ~Alive(t)' /\ thread'[t] # "config"
      BY <2>1, <2>5 DEF Alive
    <3>2. ThreadsInOrder'
      BY <2>4, <2>5, <3>1 DEF Control, ThreadsInOrder
    <3>3. StartsAlone'
      BY <2>4, <3>1 DEF StartsAlone
    <3>4. TailsComeLast'
      BY <2>2, <2>3, <2>5 DEF Control, TailsComeLast
    <3> QED BY <3>2, <3>3, <3>4 DEF Control
  <2>6. CASE /\ handle' = handle + 1 /\ UNCHANGED <<tunnelRunning, config>>
             /\ thread' = [thread EXCEPT ![handle + 1] = "config"]
    <3>1. \A t \in Threads : thread'[t] = IF t = handle + 1 THEN "config" ELSE thread[t]
      BY <2>2, <2>6
    <3>2. ASSUME NEW t \in Threads
          PROVE  /\ t < handle' => thread'[t] = "ended"
                 /\ thread'[t] = "none" <=> t > handle'
      <4>1. thread[t] = "none" \/ thread[t] = "ended"
        BY <2>1 DEF Alive
      <4>2. thread[t] = "none" <=> t > handle
        BY DEF Control, ThreadsInOrder
      <4> QED BY <2>2, <2>6, <3>1, <4>1, <4>2
    <3>3. ThreadsInOrder'
      BY <2>1, <2>4, <2>6, <3>2 DEF ThreadsInOrder
    <3>4. ASSUME NEW t \in Threads, thread'[t] = "config" PROVE t = handle + 1
      BY <2>1, <3>1, <3>4 DEF Alive
    <3>5. StartsAlone'
      BY <2>1, <2>3, <2>4, <2>6, <3>4 DEF StartsAlone
    <3>6. ASSUME NEW d \in Callers, caller'[d] \in {"free", "clear", "resetFd"}, target[d] # 0
          PROVE  thread'[target[d]] = "ended"
      <4>1. thread[target[d]] = "ended" /\ target[d] \in Threads
        BY <2>2, <2>3, <3>6 DEF Control, TailsComeLast
      <4>2. thread[handle + 1] = "none"
        BY <2>2 DEF Control, ThreadsInOrder
      <4> QED BY <3>1, <4>1, <4>2
    <3>7. TailsComeLast'
      BY <2>3, <3>6 DEF TailsComeLast
    <3> QED BY <3>3, <3>5, <3>7 DEF Control
  <2> QED BY <1>7, <2>5, <2>6 DEF CreateThread
<1>8. ASSUME NEW c \in Callers, NativeStop(c) PROVE Control'
  <2>1. ThreadsInOrder'
    BY <1>8 DEF NativeStop, Goes, Meets, Another, Orderly, TypeOK, Control,
         ThreadsInOrder, StartsAlone, TailsComeLast, Launching, Alive, jniVars,
         threadVars
  <2>2. StartsAlone'
    BY <1>8 DEF NativeStop, Goes, Meets, Another, Orderly, TypeOK, Control,
         ThreadsInOrder, StartsAlone, TailsComeLast, Launching, Alive, jniVars,
         threadVars
  <2>3. TailsComeLast'
    BY <1>8 DEF NativeStop, Goes, Meets, Another, Orderly, TypeOK, Control,
         ThreadsInOrder, StartsAlone, TailsComeLast, Launching, Alive, jniVars,
         threadVars
  <2> QED BY <2>1, <2>2, <2>3 DEF Control
<1>9. ASSUME NEW c \in Callers, WaitFd(c) PROVE Control'
  <2>1. ThreadsInOrder'
    BY <1>9 DEF WaitFd, Goes, Meets, Another, Orderly, TypeOK, Control,
         ThreadsInOrder, StartsAlone, TailsComeLast, Launching, Alive, jniVars,
         threadVars
  <2>2. StartsAlone'
    BY <1>9 DEF WaitFd, Goes, Meets, Another, Orderly, TypeOK, Control,
         ThreadsInOrder, StartsAlone, TailsComeLast, Launching, Alive, jniVars,
         threadVars
  <2>3. TailsComeLast'
    BY <1>9 DEF WaitFd, Goes, Meets, Another, Orderly, TypeOK, Control,
         ThreadsInOrder, StartsAlone, TailsComeLast, Launching, Alive, jniVars,
         threadVars
  <2> QED BY <2>1, <2>2, <2>3 DEF Control
<1>10. ASSUME NEW c \in Callers, WriteEvent(c) PROVE Control'
  <2>1. ThreadsInOrder'
    BY <1>10 DEF WriteEvent, Goes, Meets, Another, Orderly, TypeOK, Control,
         ThreadsInOrder, StartsAlone, TailsComeLast, Launching, Alive, jniVars,
         threadVars
  <2>2. StartsAlone'
    BY <1>10 DEF WriteEvent, Goes, Meets, Another, Orderly, TypeOK, Control,
         ThreadsInOrder, StartsAlone, TailsComeLast, Launching, Alive, jniVars,
         threadVars
  <2>3. TailsComeLast'
    BY <1>10 DEF WriteEvent, Goes, Meets, Another, Orderly, TypeOK, Control,
         ThreadsInOrder, StartsAlone, TailsComeLast, Launching, Alive, jniVars,
         threadVars
  <2> QED BY <2>1, <2>2, <2>3 DEF Control
<1>11. ASSUME NEW c \in Callers, Join(c) PROVE Control'
  <2>1. ThreadsInOrder'
    BY <1>11 DEF Join, Goes, Meets, Another, Orderly, TypeOK, Control,
         ThreadsInOrder, StartsAlone, TailsComeLast, Launching, Alive, jniVars,
         threadVars
  <2>2. StartsAlone'
    BY <1>11 DEF Join, Goes, Meets, Another, Orderly, TypeOK, Control,
         ThreadsInOrder, StartsAlone, TailsComeLast, Launching, Alive, jniVars,
         threadVars
  <2>3. TailsComeLast'
    BY <1>11 DEF Join, Goes, Meets, Another, Orderly, TypeOK, Control,
         ThreadsInOrder, StartsAlone, TailsComeLast, Launching, Alive, jniVars,
         threadVars
  <2> QED BY <2>1, <2>2, <2>3 DEF Control
<1>12. ASSUME NEW c \in Callers, JoinReturned(c) PROVE Control'
  <2>1. ThreadsInOrder'
    BY <1>12 DEF JoinReturned, Goes, Meets, Another, Orderly, TypeOK, Control,
         ThreadsInOrder, StartsAlone, TailsComeLast, Launching, Alive, jniVars,
         threadVars
  <2>2. StartsAlone'
    BY <1>12 DEF JoinReturned, Goes, Meets, Another, Orderly, TypeOK, Control,
         ThreadsInOrder, StartsAlone, TailsComeLast, Launching, Alive, jniVars,
         threadVars
  <2>3. TailsComeLast'
    BY <1>12 DEF JoinReturned, Goes, Meets, Another, Orderly, TypeOK, Control,
         ThreadsInOrder, StartsAlone, TailsComeLast, Launching, Alive, jniVars,
         threadVars
  <2> QED BY <2>1, <2>2, <2>3 DEF Control
<1>13. ASSUME NEW c \in Callers, FreeConfig(c) PROVE Control'
  <2>1. /\ caller \in [Callers -> CallerPcs] /\ target \in [Callers -> 0 .. MaxStarts]
        /\ handle \in 0 .. MaxStarts
    BY DEF TypeOK
  <2>2. config \in {0, target[c]}
    <3>1. "late" \notin races'
      BY DEF Orderly
    <3> QED BY <1>13, <3>1 DEF FreeConfig, Meets
  <2>3. /\ target[c] # 0 => thread[target[c]] = "ended" /\ target[c] \in Threads
        /\ target[c] <= handle
    BY <1>13, <2>1 DEF FreeConfig, Control, TailsComeLast, ThreadsInOrder
  <2>4. \A d \in Callers : ~Launching(d)
    BY <2>1, <2>2, <2>3 DEF Control, StartsAlone
  <2>5. \A t \in Threads : thread[t] # "config"
    BY <2>2, <2>3 DEF Control, StartsAlone
  <2>6. /\ UNCHANGED <<tunnelRunning, handle, thread>>
        /\ \A d \in Callers : d # c => caller'[d] = caller[d] /\ target'[d] = target[d]
        /\ caller'[c] = "clear" /\ target'[c] = target[c]
    BY <1>13, <2>1 DEF FreeConfig, Goes, threadVars, TypeOK
  <2>7. ThreadsInOrder'
    BY <2>6 DEF Control, ThreadsInOrder, Alive
  <2>8. StartsAlone'
    BY <2>4, <2>5, <2>6 DEF StartsAlone, Launching
  <2>9. TailsComeLast'
    BY <2>3, <2>6 DEF Control, TailsComeLast
  <2> QED BY <2>7, <2>8, <2>9 DEF Control
<1>14. ASSUME NEW c \in Callers, ClearRunning(c) PROVE Control'
  <2>1. /\ caller \in [Callers -> CallerPcs] /\ target \in [Callers -> 0 .. MaxStarts]
        /\ handle \in 0 .. MaxStarts
    BY DEF TypeOK
  <2>2. /\ ~tunnelRunning \/ handle = target[c]
        /\ \A d \in Callers : d # c => caller[d] # "create"
    <3>1. "late" \notin races'
      BY DEF Orderly
    <3> QED BY <1>14, <3>1 DEF ClearRunning, Meets, Another
  <2>3. \A t \in Threads : ~Alive(t)
    <3>1. target[c] # 0 => thread[target[c]] = "ended"
      BY <1>14 DEF ClearRunning, Control, TailsComeLast
    <3>2. ASSUME NEW t \in Threads, Alive(t) PROVE t = handle
      BY <2>1, <3>2 DEF Control, ThreadsInOrder, Alive
    <3>3. \A t \in Threads : Alive(t) => tunnelRunning
      BY DEF Control, ThreadsInOrder
    <3> QED BY <2>1, <2>2, <3>1, <3>2, <3>3 DEF Alive
  <2>4. /\ UNCHANGED <<handle, thread, target, config, tunFd>>
        /\ \A d \in Callers : d # c => caller'[d] = caller[d]
        /\ caller'[c] = "resetFd" /\ caller[c] = "clear"
    BY <1>14, <2>1 DEF ClearRunning, Goes, threadVars
  <2>5. ThreadsInOrder'
    BY <2>2, <2>3, <2>4 DEF Control, ThreadsInOrder, Alive
  <2>6. StartsAlone'
    BY <2>3, <2>4 DEF Control, StartsAlone, Launching, Alive
  <2>7. TailsComeLast'
    BY <2>4 DEF Control, TailsComeLast
  <2> QED BY <2>5, <2>6, <2>7 DEF Control
<1>15. ASSUME NEW c \in Callers, ResetFd(c) PROVE Control'
  <2>1. /\ caller \in [Callers -> CallerPcs] /\ target \in [Callers -> 0 .. MaxStarts]
        /\ handle \in 0 .. MaxStarts
    BY DEF TypeOK
  <2>2. tunFd \in {0, target[c]}
    <3>1. "late" \notin races'
      BY DEF Orderly
    <3> QED BY <1>15, <3>1 DEF ResetFd, Meets
  <2>3. /\ target[c] # 0 => thread[target[c]] = "ended" /\ target[c] \in Threads
        /\ target[c] <= handle
    BY <1>15, <2>1 DEF ResetFd, Control, TailsComeLast, ThreadsInOrder
  <2>4. \A d \in Callers : ~Launching(d)
    BY <2>1, <2>2, <2>3 DEF Control, StartsAlone
  <2>5. \A t \in Threads : thread[t] # "config"
    BY <2>2, <2>3 DEF Control, StartsAlone
  <2>6. /\ UNCHANGED <<tunnelRunning, handle, thread>>
        /\ \A d \in Callers : d # c => caller'[d] = caller[d] /\ target'[d] = target[d]
        /\ caller'[c] \in {"idle", "startFlags"}
    BY <1>15, <2>1 DEF ResetFd, Goes, threadVars, TypeOK
  <2>7. ThreadsInOrder'
    BY <2>6 DEF Control, ThreadsInOrder, Alive
  <2>8. StartsAlone'
    BY <2>4, <2>5, <2>6 DEF StartsAlone, Launching
  <2>9. TailsComeLast'
    BY <2>3, <2>6 DEF Control, TailsComeLast
  <2> QED BY <2>7, <2>8, <2>9 DEF Control
<1>16. ASSUME NEW t \in Threads, InitSystem(t) PROVE Control'
  <2>1. Alive(t) /\ UNCHANGED <<caller, target, handle, config, tunFd>>
    BY <1>16 DEF InitSystem, ThreadGoes, Alive, callVars, jniVars
  <2>2. PICK to \in ThreadPcs \ {"none", "config"} :
              /\ thread' = [thread EXCEPT ![t] = to]
              /\ to = "ended" \/ tunnelRunning' = tunnelRunning
    BY <1>16 DEF InitSystem, ThreadGoes, ThreadPcs, jniVars
  <2> QED BY <2>1, <2>2, ThreadMoves
<1>17. ASSUME NEW t \in Threads, TunnelInit(t) PROVE Control'
  <2>1. Alive(t) /\ UNCHANGED <<caller, target, handle, config, tunFd>>
    BY <1>17 DEF TunnelInit, ThreadGoes, Alive, callVars, jniVars
  <2>2. PICK to \in ThreadPcs \ {"none", "config"} :
              /\ thread' = [thread EXCEPT ![t] = to]
              /\ to = "ended" \/ tunnelRunning' = tunnelRunning
    BY <1>17 DEF TunnelInit, ThreadGoes, ThreadPcs, jniVars
  <2> QED BY <2>1, <2>2, ThreadMoves
<1>18. ASSUME NEW t \in Threads, EventTaskInit(t) PROVE Control'
  <2>1. Alive(t) /\ UNCHANGED <<caller, target, handle, config, tunFd>>
    BY <1>18 DEF EventTaskInit, ThreadGoes, Alive, callVars, jniVars
  <2>2. PICK to \in ThreadPcs \ {"none", "config"} :
              /\ thread' = [thread EXCEPT ![t] = to]
              /\ to = "ended" \/ tunnelRunning' = tunnelRunning
    BY <1>18 DEF EventTaskInit, ThreadGoes, ThreadPcs, jniVars
  <2> QED BY <2>1, <2>2, ThreadMoves
<1>19. ASSUME NEW t \in Threads, TasksInit(t) PROVE Control'
  <2>1. Alive(t) /\ UNCHANGED <<caller, target, handle, config, tunFd>>
    BY <1>19 DEF TasksInit, ThreadGoes, Alive, callVars, jniVars
  <2>2. PICK to \in ThreadPcs \ {"none", "config"} :
              /\ thread' = [thread EXCEPT ![t] = to]
              /\ to = "ended" \/ tunnelRunning' = tunnelRunning
    BY <1>19 DEF TasksInit, ThreadGoes, ThreadPcs, jniVars
  <2> QED BY <2>1, <2>2, ThreadMoves
<1>20. ASSUME NEW t \in Threads, SystemReturns(t) PROVE Control'
  <2>1. Alive(t) /\ UNCHANGED <<caller, target, handle, config, tunFd>>
    BY <1>20 DEF SystemReturns, ThreadGoes, Alive, callVars, jniVars
  <2>2. PICK to \in ThreadPcs \ {"none", "config"} :
              /\ thread' = [thread EXCEPT ![t] = to]
              /\ to = "ended" \/ tunnelRunning' = tunnelRunning
    BY <1>20 DEF SystemReturns, ThreadGoes, ThreadPcs, jniVars
  <2> QED BY <2>1, <2>2, ThreadMoves
<1>21. ASSUME NEW t \in Threads, Fini(t) PROVE Control'
  <2>1. Alive(t) /\ UNCHANGED <<caller, target, handle, config, tunFd>>
    BY <1>21 DEF Fini, ThreadGoes, Alive, callVars, jniVars
  <2>2. PICK to \in ThreadPcs \ {"none", "config"} :
              /\ thread' = [thread EXCEPT ![t] = to]
              /\ to = "ended" \/ tunnelRunning' = tunnelRunning
    BY <1>21 DEF Fini, ThreadGoes, ThreadPcs, jniVars
  <2> QED BY <2>1, <2>2, ThreadMoves
<1>22. ASSUME NEW t \in Threads, Exit(t) PROVE Control'
  <2>1. Alive(t) /\ UNCHANGED <<caller, target, handle, config, tunFd>>
    BY <1>22 DEF Exit, ThreadGoes, Alive, callVars, jniVars
  <2>2. PICK to \in ThreadPcs \ {"none", "config"} :
              /\ thread' = [thread EXCEPT ![t] = to]
              /\ to = "ended" \/ tunnelRunning' = tunnelRunning
    BY <1>22 DEF Exit, ThreadGoes, ThreadPcs, jniVars
  <2> QED BY <2>1, <2>2, ThreadMoves
<1>23. ASSUME NEW t \in Threads, EventRead(t) PROVE Control'
  BY <1>23, ControlFrame DEF EventRead, callVars, jniVars
<1>24. ASSUME NEW t \in Threads, EventJoins(t) PROVE Control'
  BY <1>24, ControlFrame DEF EventJoins, callVars, jniVars
<1>25. ASSUME NEW t \in Threads, IoWaits(t) PROVE Control'
  BY <1>25, ControlFrame DEF IoWaits, callVars, jniVars
<1>26. ASSUME NEW t \in Threads, TimerRound(t) PROVE Control'
  BY <1>26, ControlFrame DEF TimerRound, callVars, jniVars
<1>27. ASSUME NEW t \in Threads, TimerFires(t) PROVE Control'
  BY <1>27, ControlFrame DEF TimerFires, callVars, jniVars
<1>28. ASSUME NEW t \in Threads, NEW s \in Slots, IoAccepts(t, s) PROVE Control'
  BY <1>28, ControlFrame DEF IoAccepts, callVars, jniVars
<1>29. ASSUME NEW t \in Threads, NEW s \in Slots, SessionActive(t, s) PROVE Control'
  BY <1>29, ControlFrame DEF SessionActive, callVars, jniVars
<1>30. ASSUME NEW t \in Threads, NEW s \in Slots, SessionEnds(t, s) PROVE Control'
  BY <1>30, ControlFrame DEF SessionEnds, callVars, jniVars
<1>31. CASE UNCHANGED vars
  BY <1>31, ControlFrame DEF vars, callVars, jniVars
<1> QED BY <1>1, <1>2, <1>3, <1>4, <1>5, <1>6, <1>7, <1>8, <1>9, <1>10, <1>11,
     <1>12, <1>13, <1>14, <1>15, <1>16, <1>17, <1>18, <1>19, <1>20, <1>21, <1>22,
     <1>23, <1>24, <1>25, <1>26, <1>27, <1>28, <1>29, <1>30, <1>31
     DEF Next, CallerStep, ThreadStep

-----------------------------------------------------------------------------
(* The setting.                                                            *)

\* What neither sets, starts nor ends anything keeps the setting.
LEMMA SettingsFrame ==
    /\ SettingsKept /\ UNCHANGED <<wanted, thread, rejectQuic>>
    /\ \A d \in Callers : Setting(d)' => Setting(d) /\ asked'[d] = asked[d]
    => SettingsKept'
BY DEF SettingsKept, Setting, Busy

\* A step keeps the setting, unless calls meet.
LEMMA SettingsStep ==
    TypeOK /\ Control /\ SettingsKept /\ races' = {} /\ [Next]_vars => SettingsKept'
<1> SUFFICES ASSUME TypeOK, Control, SettingsKept, races' = {}, [Next]_vars
             PROVE  SettingsKept'
  OBVIOUS
<1> USE CountsAssumption DEF Threads
<1>1. ASSUME NEW c \in Callers, Start(c) PROVE SettingsKept'
  <2>1. caller \in [Callers -> CallerPcs] /\ back \in [Callers -> {"idle", "startFlags"}]
    BY DEF TypeOK
  <2> QED BY <1>1, <2>1, SettingsFrame DEF Start, Goes, Setting, threadVars
<1>2. ASSUME NEW c \in Callers, StartStops(c) PROVE SettingsKept'
  <2>1. caller \in [Callers -> CallerPcs] /\ back \in [Callers -> {"idle", "startFlags"}]
    BY DEF TypeOK
  <2> QED BY <1>2, <2>1, SettingsFrame DEF StartStops, Goes, Setting, threadVars
<1>3. ASSUME NEW c \in Callers, SetRejectQuic(c) PROVE SettingsKept'
  <2>1. caller \in [Callers -> CallerPcs] /\ asked \in [Callers -> BOOLEAN]
    BY DEF TypeOK
  <2>2. "setting" \notin races'
    OBVIOUS
  <2>3. (\A t \in Threads : ~Busy(t)) /\ \A d \in Callers : d # c => ~Setting(d)
    BY <1>3, <2>2 DEF SetRejectQuic, Meets, Another, Setting
  <2>4. /\ rejectQuic' = asked'[c] /\ thread' = thread
        /\ \A d \in Callers : d # c => caller'[d] = caller[d]
    BY <1>3, <2>1 DEF SetRejectQuic, Goes
  <2>5. (\A t \in Threads : ~Busy(t)') /\ \A d \in Callers : Setting(d)' => d = c
    BY <2>3, <2>4 DEF Busy, Setting
  <2> QED BY <2>4, <2>5 DEF SettingsKept
<1>4. ASSUME NEW c \in Callers, NativeStart(c) PROVE SettingsKept'
  <2>1. caller \in [Callers -> CallerPcs] /\ asked \in [Callers -> BOOLEAN]
    BY DEF TypeOK
  <2>2. \A d \in Callers : Setting(d)' => Setting(d) /\ asked'[d] = asked[d]
    BY <1>4, <2>1 DEF NativeStart, StartReturns, Goes, Setting
  <2> QED BY <1>4, <2>2, SettingsFrame DEF NativeStart, threadVars
<1>5. ASSUME NEW c \in Callers, SetConfig(c) PROVE SettingsKept'
  <2>1. caller \in [Callers -> CallerPcs] /\ asked \in [Callers -> BOOLEAN]
    BY DEF TypeOK
  <2>2. \A d \in Callers : Setting(d)' => Setting(d) /\ asked'[d] = asked[d]
    BY <1>5, <2>1 DEF SetConfig, StartReturns, Goes, Setting
  <2> QED BY <1>5, <2>2, SettingsFrame DEF SetConfig, threadVars
<1>6. ASSUME NEW c \in Callers, SetRunning(c) PROVE SettingsKept'
  <2>1. caller \in [Callers -> CallerPcs] /\ back \in [Callers -> {"idle", "startFlags"}]
    BY DEF TypeOK
  <2> QED BY <1>6, <2>1, SettingsFrame DEF SetRunning, Goes, Setting, threadVars
<1>7. ASSUME NEW c \in Callers, CreateThread(c) PROVE SettingsKept'
  <2>1. caller \in [Callers -> CallerPcs] /\ thread \in [Threads -> ThreadPcs]
    BY DEF TypeOK
  <2>2. /\ rejectQuic = asked[c] /\ \A t \in Threads : ~Busy(t)
        /\ \A d \in Callers : Setting(d) => d = c
    BY <1>7 DEF CreateThread, SettingsKept, Setting
  <2>3. \A d \in Callers : ~Setting(d)'
    BY <1>7, <2>1, <2>2 DEF CreateThread, StartReturns, Goes, Setting
  <2>4. rejectQuic' = rejectQuic
    BY <1>7 DEF CreateThread
  <2>5. CASE wanted' = asked[c]
    BY <2>2, <2>3, <2>4, <2>5 DEF SettingsKept
  <2>6. CASE thread' = thread
    BY <2>2, <2>3, <2>6 DEF SettingsKept, Busy
  <2> QED BY <1>7, <2>5, <2>6 DEF CreateThread
<1>8. ASSUME NEW c \in Callers, NativeStop(c) PROVE SettingsKept'
  <2>1. caller \in [Callers -> CallerPcs] /\ back \in [Callers -> {"idle", "startFlags"}]
    BY DEF TypeOK
  <2> QED BY <1>8, <2>1, SettingsFrame DEF NativeStop, Goes, Setting, threadVars
<1>9. ASSUME NEW c \in Callers, WaitFd(c) PROVE SettingsKept'
  <2>1. caller \in [Callers -> CallerPcs] /\ back \in [Callers -> {"idle", "startFlags"}]
    BY DEF TypeOK
  <2> QED BY <1>9, <2>1, SettingsFrame DEF WaitFd, Goes, Setting, threadVars
<1>10. ASSUME NEW c \in Callers, WriteEvent(c) PROVE SettingsKept'
  <2>1. caller \in [Callers -> CallerPcs] /\ back \in [Callers -> {"idle", "startFlags"}]
    BY DEF TypeOK
  <2> QED BY <1>10, <2>1, SettingsFrame DEF WriteEvent, Goes, Setting, threadVars
<1>11. ASSUME NEW c \in Callers, Join(c) PROVE SettingsKept'
  <2>1. caller \in [Callers -> CallerPcs] /\ back \in [Callers -> {"idle", "startFlags"}]
    BY DEF TypeOK
  <2> QED BY <1>11, <2>1, SettingsFrame DEF Join, Goes, Setting, threadVars
<1>12. ASSUME NEW c \in Callers, JoinReturned(c) PROVE SettingsKept'
  <2>1. caller \in [Callers -> CallerPcs] /\ back \in [Callers -> {"idle", "startFlags"}]
    BY DEF TypeOK
  <2> QED BY <1>12, <2>1, SettingsFrame DEF JoinReturned, Goes, Setting, threadVars
<1>13. ASSUME NEW c \in Callers, FreeConfig(c) PROVE SettingsKept'
  <2>1. caller \in [Callers -> CallerPcs] /\ back \in [Callers -> {"idle", "startFlags"}]
    BY DEF TypeOK
  <2> QED BY <1>13, <2>1, SettingsFrame DEF FreeConfig, Goes, Setting, threadVars
<1>14. ASSUME NEW c \in Callers, ClearRunning(c) PROVE SettingsKept'
  <2>1. caller \in [Callers -> CallerPcs] /\ back \in [Callers -> {"idle", "startFlags"}]
    BY DEF TypeOK
  <2> QED BY <1>14, <2>1, SettingsFrame DEF ClearRunning, Goes, Setting, threadVars
<1>15. ASSUME NEW c \in Callers, ResetFd(c) PROVE SettingsKept'
  <2>1. caller \in [Callers -> CallerPcs] /\ back \in [Callers -> {"idle", "startFlags"}]
    BY DEF TypeOK
  <2> QED BY <1>15, <2>1, SettingsFrame DEF ResetFd, Goes, Setting, threadVars
<1>16. ASSUME NEW t \in Threads, InitSystem(t) PROVE SettingsKept'
  BY <1>16 DEF InitSystem, ThreadGoes, TypeOK, SettingsKept, Setting, Busy,
       callVars
<1>17. ASSUME NEW t \in Threads, TunnelInit(t) PROVE SettingsKept'
  BY <1>17 DEF TunnelInit, ThreadGoes, TypeOK, SettingsKept, Setting, Busy,
       callVars
<1>18. ASSUME NEW t \in Threads, EventTaskInit(t) PROVE SettingsKept'
  BY <1>18 DEF EventTaskInit, ThreadGoes, TypeOK, SettingsKept, Setting, Busy,
       callVars
<1>19. ASSUME NEW t \in Threads, TasksInit(t) PROVE SettingsKept'
  BY <1>19 DEF TasksInit, ThreadGoes, TypeOK, SettingsKept, Setting, Busy,
       callVars
<1>20. ASSUME NEW t \in Threads, SystemReturns(t) PROVE SettingsKept'
  BY <1>20 DEF SystemReturns, ThreadGoes, TypeOK, SettingsKept, Setting, Busy,
       callVars
<1>21. ASSUME NEW t \in Threads, Fini(t) PROVE SettingsKept'
  <2>1. Alive(t) /\ \A u \in Threads : Alive(u) => u = t
    BY <1>21, OneAlive DEF Fini, ThreadGoes, Alive, Control
  <2> QED BY <1>21, <2>1 DEF Fini, ThreadGoes, TypeOK, SettingsKept, Setting, Busy,
       callVars, Alive
<1>22. ASSUME NEW t \in Threads, Exit(t) PROVE SettingsKept'
  BY <1>22 DEF Exit, ThreadGoes, TypeOK, SettingsKept, Setting, Busy, callVars
<1>23. ASSUME NEW t \in Threads, EventRead(t) PROVE SettingsKept'
  BY <1>23, SettingsFrame DEF EventRead, Setting, callVars
<1>24. ASSUME NEW t \in Threads, EventJoins(t) PROVE SettingsKept'
  BY <1>24, SettingsFrame DEF EventJoins, Setting, callVars
<1>25. ASSUME NEW t \in Threads, IoWaits(t) PROVE SettingsKept'
  BY <1>25, SettingsFrame DEF IoWaits, Setting, callVars
<1>26. ASSUME NEW t \in Threads, TimerRound(t) PROVE SettingsKept'
  BY <1>26, SettingsFrame DEF TimerRound, Setting, callVars
<1>27. ASSUME NEW t \in Threads, TimerFires(t) PROVE SettingsKept'
  BY <1>27, SettingsFrame DEF TimerFires, Setting, callVars
<1>28. ASSUME NEW t \in Threads, NEW s \in Slots, IoAccepts(t, s) PROVE SettingsKept'
  BY <1>28, SettingsFrame DEF IoAccepts, Setting, callVars
<1>29. ASSUME NEW t \in Threads, NEW s \in Slots, SessionActive(t, s) PROVE SettingsKept'
  BY <1>29, SettingsFrame DEF SessionActive, Setting, callVars
<1>30. ASSUME NEW t \in Threads, NEW s \in Slots, SessionEnds(t, s) PROVE SettingsKept'
  BY <1>30, SettingsFrame DEF SessionEnds, Setting, callVars
<1>31. CASE UNCHANGED vars
  BY <1>31, SettingsFrame DEF vars, Setting, callVars
<1> QED BY <1>1, <1>2, <1>3, <1>4, <1>5, <1>6, <1>7, <1>8, <1>9, <1>10, <1>11,
     <1>12, <1>13, <1>14, <1>15, <1>16, <1>17, <1>18, <1>19, <1>20, <1>21, <1>22,
     <1>23, <1>24, <1>25, <1>26, <1>27, <1>28, <1>29, <1>30, <1>31
     DEF Next, CallerStep, ThreadStep

-----------------------------------------------------------------------------
(* Tasks and sessions.                                                     *)

\* Whether a thread runs its tasks.
Serving == \E t \in Threads : thread[t] = "running"

\* A step that leaves the tasks alone, and whether they run, keeps their invariant.
LEMMA TaskFrame ==
    Orderly /\ TaskInv /\ UNCHANGED taskVars /\ (Serving' <=> Serving) => TaskInv'
BY DEF TaskInv, TasksKept, TimersRun, StopReachesAll, Serving, taskVars

\* A step keeps the invariant of the tasks.
LEMMA TaskStep ==
    TypeOK /\ Distinct(sessions) /\ Control /\ Orderly /\ TaskInv /\ [Next]_vars => TaskInv'
<1> SUFFICES ASSUME TypeOK, Distinct(sessions), Control, Orderly, TaskInv, [Next]_vars
             PROVE  TaskInv'
  OBVIOUS
<1>1. ASSUME NEW c \in Callers, Start(c) PROVE TaskInv'
  BY <1>1, TaskFrame DEF Start, Serving, threadVars
<1>2. ASSUME NEW c \in Callers, StartStops(c) PROVE TaskInv'
  BY <1>2, TaskFrame DEF StartStops, Serving, threadVars
<1>3. ASSUME NEW c \in Callers, SetRejectQuic(c) PROVE TaskInv'
  BY <1>3, TaskFrame DEF SetRejectQuic, Serving, threadVars
<1>4. ASSUME NEW c \in Callers, NativeStart(c) PROVE TaskInv'
  BY <1>4, TaskFrame DEF NativeStart, Serving, threadVars
<1>5. ASSUME NEW c \in Callers, SetConfig(c) PROVE TaskInv'
  BY <1>5, TaskFrame DEF SetConfig, Serving, threadVars
<1>6. ASSUME NEW c \in Callers, SetRunning(c) PROVE TaskInv'
  BY <1>6, TaskFrame DEF SetRunning, Serving, threadVars
<1>7. ASSUME NEW c \in Callers, CreateThread(c) PROVE TaskInv'
  <2>1. \A t \in Threads : thread[t] # "running"
    BY <1>7 DEF CreateThread, Control, StartsAlone, Launching, Alive
  <2>2. thread \in [Threads -> ThreadPcs]
    BY DEF TypeOK
  <2>3. Serving' <=> Serving
    BY <1>7, <2>1, <2>2 DEF CreateThread, Serving
  <2> QED BY <1>7, <2>3, TaskFrame DEF CreateThread
<1>8. ASSUME NEW c \in Callers, NativeStop(c) PROVE TaskInv'
  BY <1>8, TaskFrame DEF NativeStop, Serving, threadVars
<1>9. ASSUME NEW c \in Callers, WaitFd(c) PROVE TaskInv'
  BY <1>9, TaskFrame DEF WaitFd, Serving, threadVars
<1>10. ASSUME NEW c \in Callers, WriteEvent(c) PROVE TaskInv'
  BY <1>10, TaskFrame DEF WriteEvent, Serving, threadVars
<1>11. ASSUME NEW c \in Callers, Join(c) PROVE TaskInv'
  BY <1>11, TaskFrame DEF Join, Serving, threadVars
<1>12. ASSUME NEW c \in Callers, JoinReturned(c) PROVE TaskInv'
  BY <1>12, TaskFrame DEF JoinReturned, Serving, threadVars
<1>13. ASSUME NEW c \in Callers, FreeConfig(c) PROVE TaskInv'
  BY <1>13, TaskFrame DEF FreeConfig, Serving, threadVars
<1>14. ASSUME NEW c \in Callers, ClearRunning(c) PROVE TaskInv'
  BY <1>14, TaskFrame DEF ClearRunning, Serving, threadVars
<1>15. ASSUME NEW c \in Callers, ResetFd(c) PROVE TaskInv'
  BY <1>15, TaskFrame DEF ResetFd, Serving, threadVars
<1>16. ASSUME NEW t \in Threads, InitSystem(t) PROVE TaskInv'
  <2>1. Serving' <=> Serving
    BY <1>16 DEF InitSystem, ThreadGoes, Serving, TypeOK
  <2> QED BY <1>16, <2>1, TaskFrame DEF InitSystem
<1>17. ASSUME NEW t \in Threads, TunnelInit(t) PROVE TaskInv'
  <2>1. Serving' <=> Serving
    BY <1>17 DEF TunnelInit, ThreadGoes, Serving, TypeOK
  <2> QED BY <1>17, <2>1, TaskFrame DEF TunnelInit
<1>18. ASSUME NEW t \in Threads, EventTaskInit(t) PROVE TaskInv'
  <2>1. Serving' <=> Serving
    BY <1>18 DEF EventTaskInit, ThreadGoes, Serving, TypeOK
  <2> QED BY <1>18, <2>1, TaskFrame DEF EventTaskInit
<1>19. ASSUME NEW t \in Threads, TasksInit(t) PROVE TaskInv'
  <2>1. \A u \in Threads : Alive(u) => u = t
    BY <1>19, OneAlive DEF TasksInit, ThreadGoes, Alive, Control
  <2>2. \A u \in Threads : u # t => thread[u] # "running"
    BY <2>1 DEF Alive
  <2>3. TasksKept'
    BY <1>19, <2>2 DEF TasksInit, ThreadGoes, TypeOK, Tasks, TaskInv, TasksKept,
         TimersRun, StopReachesAll, taskVars
  <2>4. TimersRun' /\ StopReachesAll'
    BY <1>19, <2>2 DEF TasksInit, ThreadGoes, TypeOK, Tasks, TaskInv, TasksKept,
         TimersRun, StopReachesAll, ToSet, taskVars
  <2> QED BY <2>3, <2>4 DEF TaskInv
<1>20. ASSUME NEW t \in Threads, SystemReturns(t) PROVE TaskInv'
  <2>1. \A u \in Threads : Alive(u) => u = t
    BY <1>20, OneAlive DEF SystemReturns, ThreadGoes, Alive, Control
  <2>2. \A u \in Threads : u # t => thread[u] # "running"
    BY <2>1 DEF Alive
  <2>3. TasksKept'
    BY <1>20, <2>2 DEF SystemReturns, ThreadGoes, TypeOK, Tasks, TaskInv,
         TasksKept, TimersRun, StopReachesAll, taskVars
  <2>4. TimersRun' /\ StopReachesAll'
    BY <1>20, <2>2 DEF SystemReturns, ThreadGoes, TypeOK, Tasks, TaskInv,
         TasksKept, TimersRun, StopReachesAll, ToSet, taskVars
  <2> QED BY <2>3, <2>4 DEF TaskInv
<1>21. ASSUME NEW t \in Threads, Fini(t) PROVE TaskInv'
  <2>1. \A u \in Threads : Alive(u) => u = t
    BY <1>21, OneAlive DEF Fini, ThreadGoes, Alive, Control
  <2>2. \A u \in Threads : u # t => thread[u] # "running"
    BY <2>1 DEF Alive
  <2>3. TasksKept'
    BY <1>21, <2>2 DEF Fini, ThreadGoes, TypeOK, Tasks, TaskInv, TasksKept,
         TimersRun, StopReachesAll, taskVars
  <2>4. TimersRun' /\ StopReachesAll'
    BY <1>21, <2>2 DEF Fini, ThreadGoes, TypeOK, Tasks, TaskInv, TasksKept,
         TimersRun, StopReachesAll, ToSet, taskVars
  <2> QED BY <2>3, <2>4 DEF TaskInv
<1>22. ASSUME NEW t \in Threads, Exit(t) PROVE TaskInv'
  <2>1. Serving' <=> Serving
    BY <1>22 DEF Exit, ThreadGoes, Serving, TypeOK
  <2> QED BY <1>22, <2>1, TaskFrame DEF Exit
<1>23. ASSUME NEW t \in Threads, EventRead(t) PROVE TaskInv'
  <2>1. thread[t] = "running" /\ thread' = thread /\ sessions' = sessions
    BY <1>23 DEF EventRead
  <2>2. TasksKept'
    BY <1>23, <2>1 DEF EventRead, Woken, TaskStates, TypeOK, Tasks, TaskInv,
         TasksKept, TimersRun, StopReachesAll
  <2>3. TimersRun' /\ StopReachesAll'
    BY <1>23, <2>1 DEF EventRead, Woken, TaskStates, TypeOK, Tasks, TaskInv,
         TasksKept, TimersRun, StopReachesAll
  <2> QED BY <2>2, <2>3 DEF TaskInv
<1>24. ASSUME NEW t \in Threads, EventJoins(t) PROVE TaskInv'
  <2>1. thread[t] = "running" /\ thread' = thread /\ sessions' = sessions
    BY <1>24 DEF EventJoins
  <2>2. TasksKept'
    BY <1>24, <2>1 DEF EventJoins, Woken, TaskStates, TypeOK, Tasks, TaskInv,
         TasksKept, TimersRun, StopReachesAll
  <2>3. TimersRun' /\ StopReachesAll'
    BY <1>24, <2>1 DEF EventJoins, Woken, TaskStates, TypeOK, Tasks, TaskInv,
         TasksKept, TimersRun, StopReachesAll
  <2> QED BY <2>2, <2>3 DEF TaskInv
<1>25. ASSUME NEW t \in Threads, IoWaits(t) PROVE TaskInv'
  <2>1. thread[t] = "running" /\ thread' = thread /\ sessions' = sessions
    BY <1>25 DEF IoWaits
  <2>2. TasksKept'
    BY <1>25, <2>1 DEF IoWaits, Woken, TaskStates, TypeOK, Tasks, TaskInv,
         TasksKept, TimersRun, StopReachesAll
  <2>3. TimersRun' /\ StopReachesAll'
    BY <1>25, <2>1 DEF IoWaits, Woken, TaskStates, TypeOK, Tasks, TaskInv,
         TasksKept, TimersRun, StopReachesAll
  <2> QED BY <2>2, <2>3 DEF TaskInv
<1>26. ASSUME NEW t \in Threads, TimerRound(t) PROVE TaskInv'
  <2>1. thread[t] = "running" /\ thread' = thread /\ sessions' = sessions
    BY <1>26 DEF TimerRound
  <2>2. TasksKept'
    BY <1>26, <2>1 DEF TimerRound, Woken, TaskStates, TypeOK, Tasks, TaskInv,
         TasksKept, TimersRun, StopReachesAll
  <2>3. TimersRun' /\ StopReachesAll'
    BY <1>26, <2>1 DEF TimerRound, Woken, TaskStates, TypeOK, Tasks, TaskInv,
         TasksKept, TimersRun, StopReachesAll
  <2> QED BY <2>2, <2>3 DEF TaskInv
<1>27. ASSUME NEW t \in Threads, TimerFires(t) PROVE TaskInv'
  <2>1. thread[t] = "running" /\ thread' = thread /\ sessions' = sessions
    BY <1>27 DEF TimerFires
  <2>2. TasksKept'
    BY <1>27, <2>1 DEF TimerFires, Woken, TaskStates, TypeOK, Tasks, TaskInv,
         TasksKept, TimersRun, StopReachesAll
  <2>3. TimersRun' /\ StopReachesAll'
    BY <1>27, <2>1 DEF TimerFires, Woken, TaskStates, TypeOK, Tasks, TaskInv,
         TasksKept, TimersRun, StopReachesAll
  <2> QED BY <2>2, <2>3 DEF TaskInv
<1>28. ASSUME NEW t \in Threads, NEW s \in Slots, IoAccepts(t, s) PROVE TaskInv'
  <2>1. /\ thread[t] = "running" /\ thread' = thread /\ run /\ run' = run
        /\ sessions' = Append(sessions, s) /\ s \notin ToSet(sessions)
        /\ joining' = joining
    BY <1>28 DEF IoAccepts, InsertSession
  <2>2. sessions \in Seq(Slots) /\ Distinct(sessions) /\ joining = "none"
    BY <2>1 DEF TypeOK, TaskInv, TasksKept
  <2>3. /\ tasks'["timer"] \in {"run", "sleep"}
        /\ tasks'["event"] = tasks["event"]
        /\ \A x \in Tasks : tasks'[x] # "none"
    BY <1>28, <2>1 DEF IoAccepts, Woken, TypeOK, Tasks, TaskStates, TaskInv,
         TasksKept
  <2> QED BY <2>1, <2>2, <2>3 DEF TaskInv, TasksKept, TimersRun, StopReachesAll
<1>29. ASSUME NEW t \in Threads, NEW s \in Slots, SessionActive(t, s) PROVE TaskInv'
  <2>1. PICK i \in DOMAIN sessions :
              sessions[i] = s /\ sessions' = Append(RemoveAt(sessions, i), s)
    BY <1>29 DEF SessionActive, At
  <2>2. sessions \in Seq(Slots) /\ Distinct(sessions) /\ sessions # <<>>
    BY <2>1 DEF TypeOK, TaskInv, TasksKept
  <2>3. /\ RemoveAt(sessions, i) \in Seq(Slots) /\ Distinct(RemoveAt(sessions, i))
        /\ ToSet(RemoveAt(sessions, i)) = ToSet(sessions) \ {s}
    BY <2>1, <2>2, RemoveAtFacts
  <2>4. /\ Distinct(sessions')
        /\ ToSet(sessions') = (ToSet(sessions) \ {s}) \cup {s}
    BY <2>1, <2>3, AppendFacts
  <2>5. ToSet(sessions') = ToSet(sessions)
    BY <2>1, <2>4 DEF ToSet
  <2>6. /\ thread[t] = "running" /\ thread' = thread
        /\ UNCHANGED <<run, tasks, joining, doomed>>
    BY <1>29 DEF SessionActive
  <2> QED BY <2>2, <2>4, <2>5, <2>6 DEF TaskInv, TasksKept, TimersRun, StopReachesAll
<1>30. ASSUME NEW t \in Threads, NEW s \in Slots, SessionEnds(t, s) PROVE TaskInv'
  <2>1. PICK i \in DOMAIN sessions :
              sessions[i] = s /\ sessions' = RemoveAt(sessions, i)
    BY <1>30 DEF SessionEnds, At
  <2>2. sessions \in Seq(Slots) /\ Distinct(sessions) /\ sessions # <<>>
    BY <2>1 DEF TypeOK, TaskInv, TasksKept
  <2>3. Distinct(sessions') /\ ToSet(sessions') = ToSet(sessions) \ {s}
    BY <2>1, <2>2, RemoveAtFacts
  <2>4. /\ thread[t] = "running" /\ thread' = thread
        /\ UNCHANGED <<run, tasks, joining>> /\ doomed' = doomed \ {s}
    BY <1>30 DEF SessionEnds
  <2> QED BY <2>2, <2>3, <2>4 DEF TaskInv, TasksKept, TimersRun, StopReachesAll
<1>31. CASE UNCHANGED vars
  BY <1>31, TaskFrame DEF vars, Serving
<1> QED BY <1>1, <1>2, <1>3, <1>4, <1>5, <1>6, <1>7, <1>8, <1>9, <1>10, <1>11,
     <1>12, <1>13, <1>14, <1>15, <1>16, <1>17, <1>18, <1>19, <1>20, <1>21, <1>22,
     <1>23, <1>24, <1>25, <1>26, <1>27, <1>28, <1>29, <1>30, <1>31
     DEF Next, CallerStep, ThreadStep

-----------------------------------------------------------------------------
(* The theorems.                                                           *)

\* The initial state satisfies the invariant.
LEMMA InitInv == Init => IInv
<1> SUFFICES ASSUME Init PROVE IInv
  OBVIOUS
<1> USE CountsAssumption DEF Init, Threads
<1>1. TypeOK /\ Distinct(sessions)
  <2>1. CallTypes
    BY DEF CallTypes, CallerPcs
  <2>2. FlagTypes
    BY Zenon DEF FlagTypes
  <2>2a. NumberTypes
    BY DEF NumberTypes
  <2>3. ThreadTypes
    BY DEF ThreadTypes, ThreadPcs
  <2>4. TaskTypes
    BY DEF TaskTypes, TaskStates, Distinct, ToSet
  <2> QED BY <2>1, <2>2, <2>2a, <2>3, <2>4, TypeParts DEF Types
<1>2. Control
  BY DEF Control, ThreadsInOrder, StartsAlone, TailsComeLast, Launching, Alive
<1>3. SettingsKept
  BY DEF SettingsKept, Setting, Busy
<1>4. TaskInv
  BY DEF TaskInv, TasksKept, TimersRun, StopReachesAll, Tasks, ToSet
<1> QED BY <1>1, <1>2, <1>3, <1>4 DEF IInv

\* What has happened is not forgotten.
LEMMA RacesGrow == [Next]_vars => races \subseteq races'
<1> SUFFICES ASSUME [Next]_vars PROVE races \subseteq races'
  OBVIOUS
<1>1. ASSUME NEW c \in Callers, Start(c) \/ NativeStop(c) \/ CallerStep(c)
      PROVE  races \subseteq races'
  BY <1>1 DEF CallerStep, Start, StartStops, SetRejectQuic, NativeStart, SetConfig,
       SetRunning, CreateThread, NativeStop, WaitFd, WriteEvent, Join, JoinReturned,
       FreeConfig, ClearRunning, ResetFd, Meets
<1>2. ASSUME NEW t \in Threads, ThreadStep(t) PROVE races \subseteq races'
  BY <1>2 DEF ThreadStep, InitSystem, TunnelInit, EventTaskInit, TasksInit,
       SystemReturns, Fini, Exit, EventRead, EventJoins, IoWaits, TimerRound,
       TimerFires, callVars
<1>3. ASSUME NEW t \in Threads, NEW s \in Slots,
             IoAccepts(t, s) \/ SessionActive(t, s) \/ SessionEnds(t, s)
      PROVE  races \subseteq races'
  BY <1>3 DEF IoAccepts, SessionActive, SessionEnds, callVars
<1>4. CASE UNCHANGED vars
  BY <1>4 DEF vars, callVars
<1> QED BY <1>1, <1>2, <1>3, <1>4 DEF Next

\* The invariant holds throughout, for any callers.
THEOREM Invariance == Spec => []IInv
<1>1. IInv /\ [Next]_vars => IInv'
  <2> SUFFICES ASSUME IInv, [Next]_vars PROVE IInv'
    OBVIOUS
  <2>1. TypeOK' /\ Distinct(sessions)'
    <3>1. Types'
      BY TypeStep, TypeParts DEF IInv
    <3> QED BY <3>1 DEF Types, CallTypes, FlagTypes, NumberTypes, ThreadTypes, TaskTypes,
         TypeOK
  <2>2. races \subseteq races'
    BY RacesGrow
  <2>3. Orderly' => Control' /\ TaskInv'
    BY <2>2, ControlStep, TaskStep DEF IInv, Orderly
  <2>4. races' = {} => SettingsKept'
    BY <2>2, SettingsStep DEF IInv, Orderly
  <2>5. TaskInv'
    BY <2>3 DEF TaskInv
  <2> QED BY <2>1, <2>3, <2>4, <2>5 DEF IInv
<1> QED BY InitInv, <1>1, PTL DEF Spec

\* However many threads call start and stop, and whatever fails: unless calls
\* have met in one of the three windows that damage the tunnel, its threads do
\* not overlap and each finds the configuration and the descriptor of its start.
THEOREM ThreadsDoNotOverlap == Spec => []OneThread
<1>1. IInv => OneThread
  BY OneAlive DEF IInv, OneThread, Control, StartsAlone
<1> QED BY Invariance, <1>1, PTL

\* Unless calls have met, the tunnel works with the setting of its own start.
THEOREM SettingIsKept == Spec => []SettingApplies
<1>1. IInv => SettingApplies
  BY DEF IInv, SettingApplies, SettingsKept, Busy
<1> QED BY Invariance, <1>1, PTL

\* The timer task is never parked beside a session.
THEOREM TimersKeepRunning == Spec => []TimersRun
<1>1. IInv => TimersRun
  BY DEF IInv, TaskInv, TimersRun
<1> QED BY Invariance, <1>1, PTL

\* A stop reaches every session and every task, for any number of sessions.
THEOREM StopIsHeard == Spec => []StopReachesAll
<1>1. IInv => StopReachesAll
  BY DEF IInv, TaskInv, StopReachesAll
<1> QED BY Invariance, <1>1, PTL

=============================================================================
