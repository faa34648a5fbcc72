---------------------------- MODULE MCInterfaces ----------------------------
(***************************************************************************)
(* The interface drivers side by side.  Each behaviour exercises one of     *)
(* them, chosen initially by focus, so the state graph is the union of      *)
(* theirs and not their product.                                            *)
(***************************************************************************)
EXTENDS Reconnect, Listener, HttpSessions, AutoInterface, UdpInterface, Framing, RNode

VARIABLE focus

MCIpOf == [s \in Sockets |-> IF s = 4 THEN 2 ELSE 1]

\* Packets of every two bytes that a framing gives a meaning, and noise that ends in one.
MCPayloads == {<<"cmd">>} \cup [1..2 -> {"end", "esc", "tend"}]
MCNoise == {<< >>, <<"cmd", "esc">>, <<"tend", "end">>}

mcVars == <<focus, ifVars, listenerVars, httpVars, autoVars, udpVars, framingVars, radioVars>>

\* The classes are chosen by the component in focus only.
Canonical ==
    /\ focus # "client" => ifKind = "tcp" /\ initiator /\ autoReconnect
    /\ focus # "listener" => svKind = "tcp"
    /\ focus # "framing" => frKind = "hdlc" /\ frSent = <<(<<"cmd">>)>> /\ frNoise = << >>

Init ==
    /\ focus \in {"client", "listener", "http", "again", "auto", "devices", "udp", "framing", "radio"}
    /\ ReconnectInit /\ ListenerInit /\ HttpInit /\ AutoInit /\ UdpInit
    /\ FramingInit /\ RadioInit
    /\ Canonical

ClientOnly ==
    UNCHANGED <<focus, listenerVars, httpVars, autoVars, udpVars, framingVars, radioVars>>
ListenerOnly ==
    UNCHANGED <<focus, ifVars, httpVars, autoVars, udpVars, framingVars, radioVars>>
HttpOnly ==
    UNCHANGED <<focus, ifVars, listenerVars, autoVars, udpVars, framingVars, radioVars>>
AutoOnly ==
    UNCHANGED <<focus, ifVars, listenerVars, httpVars, udpVars, framingVars, radioVars>>
UdpOnly ==
    UNCHANGED <<focus, ifVars, listenerVars, httpVars, autoVars, framingVars, radioVars>>
FramingOnly ==
    UNCHANGED <<focus, ifVars, listenerVars, httpVars, autoVars, udpVars, radioVars>>
RadioOnly ==
    UNCHANGED <<focus, ifVars, listenerVars, httpVars, autoVars, udpVars, framingVars>>

\* Traffic is explored on devices that were opened before disconnect() is called, and with none
\* of it every way in which the opening of the devices goes. Two datagrams are looked at at once
\* up to the last tick.
OpensWell == ~aiStray /\ (aiState = "closed" => aiConn.pc = "done")
CopiesMeet == Cardinality(aiData) > 1 => aiNow < MaxAutoTime
IsSilent == aiHashing = {}

\* An HTTP client that is connected once and exchanges packets with the server, or sends one
\* packet and is connected again.
IsHttp == focus \in {"http", "again"}

Next ==
    \/ focus = "client" /\ ReconnectNext /\ ClientOnly
    \/ focus = "listener" /\ ListenerNext /\ ListenerOnly
    \/ focus = "http" /\ HttpNext /\ hcConnects' <= 1 /\ HttpOnly
    \/ focus = "again" /\ HttpNext /\ hcSent' <= 1 /\ hsQueue' = hsQueue /\ HttpOnly
    \/ focus = "auto" /\ AutoNext /\ (OpensWell /\ CopiesMeet)' /\ AutoOnly
    \/ focus = "devices" /\ AutoNext /\ IsSilent' /\ AutoOnly
    \/ focus = "udp" /\ UdpNext /\ UdpOnly
    \/ focus = "framing" /\ FramingNext /\ FramingOnly
    \/ focus = "radio" /\ RadioNext /\ RadioOnly

\* The event loop runs every callback that is due, dials settle by their timeout, and an HTTP
\* request is answered or fails; the network does not lose every exchange for ever.
Fairness ==
    /\ WF_ifVars(focus = "client" /\ Establish) /\ WF_ifVars(focus = "client" /\ InboundLoop)
    /\ WF_ifVars(focus = "client" /\ LoopWakes)
    /\ \A f \in Flights : WF_httpVars(IsHttp /\ ClientStep(f)) /\ WF_httpVars(IsHttp /\ ServerStep(f))
    /\ WF_httpVars(IsHttp /\ PollTimer) /\ SF_httpVars(IsHttp /\ Exchanged)

Spec == Init /\ [][Next]_mcVars /\ Fairness
=============================================================================
