------------------------------- MODULE Relay -------------------------------
(***************************************************************************)
(* What a relayed TCP session promises the two programs it connects: an    *)
(* application behind the TUN device and the SOCKS server.  Each direction *)
(* is a first-in first-out stream of bytes.  The receiver sees a prefix of *)
(* what the sender wrote, never a byte out of order, twice or altered, and *)
(* it is told of the end of the stream only when it has had all of it.     *)
(* The session may give up at any time, also with its last delivery; it    *)
(* then delivers nothing more.                                             *)
(*                                                                         *)
(* The byte at position i of a stream is represented by the number i.      *)
(***************************************************************************)
EXTENDS Naturals, Sequences

CONSTANT Dirs          \* the directions, "up" to the server and "down" from it

VARIABLES
    sent,              \* sent[d]: how many bytes the source has written
    got,               \* got[d]: the bytes the destination has received
    ended,             \* ended[d]: the source has closed its side
    told,              \* told[d]: the destination has been told of the end
    over               \* the session has been given up

relayVars == <<sent, got, ended, told, over>>

Init ==
    /\ sent = [d \in Dirs |-> 0]
    /\ got = [d \in Dirs |-> <<>>]
    /\ ended = [d \in Dirs |-> FALSE]
    /\ told = [d \in Dirs |-> FALSE]
    /\ over = FALSE

Send(d) ==
    /\ ~ended[d]
    /\ sent'[d] > sent[d]
    /\ \A e \in Dirs \ {d} : sent'[e] = sent[e]
    /\ UNCHANGED <<got, ended, told, over>>

\* The next bytes of the stream, in order.
Deliver(d) ==
    /\ ~over /\ ~told[d]
    /\ Len(got'[d]) \in Len(got[d]) + 1 .. sent[d]
    /\ \A i \in 1 .. Len(got'[d]) : got'[d][i] = i
    /\ \A e \in Dirs \ {d} : got'[e] = got[e]
    /\ over' \in BOOLEAN
    /\ UNCHANGED <<sent, ended, told>>

End(d) ==
    /\ ~ended[d]
    /\ ended' = [ended EXCEPT ![d] = TRUE]
    /\ UNCHANGED <<sent, got, told, over>>

Tell(d) ==
    /\ ~over
    /\ ended[d]
    /\ Len(got[d]) = sent[d]
    /\ told' = [told EXCEPT ![d] = TRUE]
    /\ over' \in BOOLEAN
    /\ UNCHANGED <<sent, got, ended>>

GiveUp ==
    /\ over' = TRUE
    /\ UNCHANGED <<sent, got, ended, told>>

Next ==
    \/ \E d \in Dirs : Send(d) \/ Deliver(d) \/ End(d) \/ Tell(d)
    \/ GiveUp

Spec == Init /\ [][Next]_relayVars
=============================================================================
