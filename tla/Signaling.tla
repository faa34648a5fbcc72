----------------------------- MODULE Signaling -----------------------------
(***************************************************************************)
(* WebRTC signalling: connect() opens a link to a peer, sends its offer as a *)
(* resource, waits for the answer and adopts the data channel as an          *)
(* interface; the peer answers.  Two nodes, which may dial each other at once; *)
(* a dial is named after the node that makes it.                              *)
(***************************************************************************)
EXTENDS Naturals

CONSTANTS
    Nodes,        \* the two nodes
    MaxConnects   \* bound: connect() calls of each

VARIABLES
    sgStarted,    \* nodes whose start() has completed and that are not stopped
    sgDial,       \* dial -> where _connectOnce is
    sgWaiter,     \* dial -> the answer waiter of _receiveSDP
    sgUnheld,     \* history: dials whose waiter rejected while nobody awaited it
    sgPeer,       \* dial -> where the responder's _handleOffer is
    sgOpen,       \* dials whose data channel is open
    sgIfaces,     \* <<node, dial>>: the channel is an interface of the node
    sgLink,       \* dials whose signalling link is open
    sgConnects    \* node -> connect() calls

signalVars == <<sgStarted, sgDial, sgWaiter, sgUnheld, sgPeer, sgOpen, sgIfaces, sgLink, sgConnects>>

DialEnded == {"idle", "done", "failed"}

SignalInit ==
    /\ sgStarted = {} /\ sgDial = [n \in Nodes |-> "idle"] /\ sgWaiter = [n \in Nodes |-> "none"]
    /\ sgUnheld = {} /\ sgPeer = [n \in Nodes |-> "idle"] /\ sgOpen = {} /\ sgIfaces = {} /\ sgLink = {}
    /\ sgConnects = [n \in Nodes |-> 0]

Other(n) == CHOOSE m \in Nodes : m # n
dialVars == <<sgDial, sgWaiter, sgUnheld>>
-----------------------------------------------------------------------------
\* start() and stop(); a stop leaves dials and interfaces alone.
StartOrStop(n) ==
    /\ sgStarted' = IF n \in sgStarted THEN sgStarted \ {n} ELSE sgStarted \cup {n}
    /\ n \in sgStarted => sgConnects[n] > 0
    /\ UNCHANGED <<dialVars, sgPeer, sgOpen, sgIfaces, sgLink, sgConnects>>

\* connect(): one at a time for a peer.
Connect(n) ==
    /\ n \in sgStarted /\ sgDial[n] \in DialEnded /\ sgConnects[n] < MaxConnects
    /\ sgConnects' = [sgConnects EXCEPT ![n] = @ + 1]
    /\ sgDial' = [sgDial EXCEPT ![n] = "linking"] /\ sgWaiter' = [sgWaiter EXCEPT ![n] = "none"]
    /\ sgPeer' = [sgPeer EXCEPT ![n] = "idle"] /\ sgOpen' = sgOpen \ {n} /\ sgLink' = sgLink \ {n}
    /\ UNCHANGED <<sgStarted, sgUnheld, sgIfaces>>

\* A step that fails ends the dial; the guard of connect() is cleared, the link stays as it
\* is.
Fails(n) == sgDial' = [sgDial EXCEPT ![n] = "failed"]

\* The peer's identity is recalled and the link established, or not.
LinkEstablished(n) ==
    /\ sgDial[n] = "linking"
    /\ \/ Other(n) \in sgStarted /\ sgDial' = [sgDial EXCEPT ![n] = "gathering"] /\ sgLink' = sgLink \cup {n}
       \/ Fails(n) /\ UNCHANGED sgLink
    /\ UNCHANGED <<sgStarted, sgWaiter, sgUnheld, sgPeer, sgOpen, sgIfaces, sgConnects>>

\* The offer is made and its candidates gathered, or the gathering times out: the waiter is
\* armed, and the offer starts on its way.  No offer may come of it.
SendOffer(n) ==
    /\ sgDial[n] = "gathering"
    /\ \/ sgDial' = [sgDial EXCEPT ![n] = "offering"] /\ sgWaiter' = [sgWaiter EXCEPT ![n] = "armed"]
       \/ Fails(n) /\ UNCHANGED sgWaiter
    /\ UNCHANGED <<sgStarted, sgUnheld, sgPeer, sgOpen, sgIfaces, sgLink, sgConnects>>

\* The offer resource is complete at the peer; the proof of it is still to come.
OfferArrives(n) ==
    /\ sgDial[n] = "offering" /\ sgPeer[n] = "idle" /\ sgPeer' = [sgPeer EXCEPT ![n] = "answering"]
    /\ UNCHANGED <<sgStarted, dialVars, sgOpen, sgIfaces, sgLink, sgConnects>>

\* _sendSDP ends: by the proof of the peer, after which connect() awaits the answer...
OfferSent(n) ==
    /\ sgDial[n] = "offering" /\ sgPeer[n] # "idle" /\ sgDial' = [sgDial EXCEPT ![n] = "awaiting"]
    /\ UNCHANGED <<sgStarted, sgWaiter, sgUnheld, sgPeer, sgOpen, sgIfaces, sgLink, sgConnects>>

\* ...or with an error, which cancels the waiter.
OfferFails(n) ==
    /\ sgDial[n] = "offering" /\ Fails(n)
    /\ sgWaiter' = [sgWaiter EXCEPT ![n] = IF @ = "armed" THEN "cancelled" ELSE @]
    /\ UNCHANGED <<sgStarted, sgUnheld, sgPeer, sgOpen, sgIfaces, sgLink, sgConnects>>

\* The waiter settles once.  A rejection needs somebody who awaits it.
Settles(n, how) ==
    /\ sgWaiter[n] = "armed" /\ sgWaiter' = [sgWaiter EXCEPT ![n] = how]
    /\ sgUnheld' = IF how = "rejected" /\ sgDial[n] # "awaiting" THEN sgUnheld \cup {n} ELSE sgUnheld
    /\ UNCHANGED sgDial

\* The peer's answer arrives; or a resource that fails, is malformed or is no answer.
AnswerArrives(n) ==
    /\ sgPeer[n] = "answering"
    /\ \/ sgPeer' = [sgPeer EXCEPT ![n] = "answered"]
          /\ IF sgWaiter[n] = "armed" THEN Settles(n, "resolved") ELSE UNCHANGED dialVars
       \/ sgPeer' = [sgPeer EXCEPT ![n] = "failed"]
          /\ IF sgWaiter[n] = "armed" THEN Settles(n, "rejected") ELSE UNCHANGED dialVars
    /\ UNCHANGED <<sgStarted, sgOpen, sgIfaces, sgLink, sgConnects>>

\* The responder gives up before it answers.
AnswerFails(n) ==
    /\ sgPeer[n] = "answering" /\ sgPeer' = [sgPeer EXCEPT ![n] = "failed"]
    /\ UNCHANGED <<sgStarted, dialVars, sgOpen, sgIfaces, sgLink, sgConnects>>

\* Mutant: the timer only runs until the offer is sent.
AnswerTimeoutWhileOffering(n) ==
    /\ sgDial[n] = "offering" /\ Settles(n, "rejected")
    /\ UNCHANGED <<sgStarted, sgPeer, sgOpen, sgIfaces, sgLink, sgConnects>>

\* answerTimeoutMs after the waiter was armed.
AnswerTimeout(n) ==
    /\ Settles(n, "rejected")
    /\ UNCHANGED <<sgStarted, sgPeer, sgOpen, sgIfaces, sgLink, sgConnects>>

\* connect() goes on after its await of the answer.
AnswerAwaited(n) ==
    /\ sgDial[n] = "awaiting" /\ sgWaiter[n] \in {"resolved", "rejected"}
    /\ IF sgWaiter[n] = "resolved" THEN sgDial' = [sgDial EXCEPT ![n] = "opening"] ELSE Fails(n)
    /\ UNCHANGED <<sgStarted, sgWaiter, sgUnheld, sgPeer, sgOpen, sgIfaces, sgLink, sgConnects>>

\* Both descriptions are set and the peers reach each other.
ChannelOpens(n) ==
    /\ sgDial[n] = "opening" /\ sgPeer[n] = "answered" /\ n \notin sgOpen /\ sgOpen' = sgOpen \cup {n}
    /\ UNCHANGED <<sgStarted, dialVars, sgPeer, sgIfaces, sgLink, sgConnects>>

\* _adoptChannel on the initiator's side, which ends connect(); or the channel does not open
\* in time, fails or closes first.
Adopt(n) ==
    /\ sgDial[n] = "opening"
    /\ \/ n \in sgOpen /\ sgDial' = [sgDial EXCEPT ![n] = "done"]
          /\ sgIfaces' = sgIfaces \cup {<<n, n>>} /\ sgLink' = sgLink \ {n}
       \/ Fails(n) /\ UNCHANGED <<sgIfaces, sgLink>>
    /\ UNCHANGED <<sgStarted, sgWaiter, sgUnheld, sgPeer, sgOpen, sgConnects>>

\* _adoptChannel on the responder's side.
PeerAdopts(n) ==
    /\ sgPeer[n] = "answered" /\ n \in sgOpen /\ sgPeer' = [sgPeer EXCEPT ![n] = "adopted"]
    /\ sgIfaces' = sgIfaces \cup {<<Other(n), n>>} /\ sgLink' = sgLink \ {n}
    /\ UNCHANGED <<sgStarted, dialVars, sgOpen, sgConnects>>

\* The channel closes, by disconnect() on a side or by itself: the read loops end and each
\* side's transport drops the interface.
ChannelCloses(n) ==
    /\ n \in sgOpen /\ sgDial[n] # "opening" /\ sgPeer[n] # "answered"
    /\ sgOpen' = sgOpen \ {n} /\ sgIfaces' = {i \in sgIfaces : i[2] # n}
    /\ UNCHANGED <<sgStarted, dialVars, sgPeer, sgLink, sgConnects>>

SignalNext == \E n \in Nodes :
    \/ StartOrStop(n) \/ Connect(n) \/ LinkEstablished(n) \/ SendOffer(n) \/ OfferArrives(n) \/ OfferSent(n)
    \/ OfferFails(n) \/ AnswerArrives(n) \/ AnswerFails(n) \/ AnswerTimeout(n) \/ AnswerAwaited(n)
    \/ ChannelOpens(n) \/ Adopt(n) \/ PeerAdopts(n) \/ ChannelCloses(n)
-----------------------------------------------------------------------------
\* Every connect() settles, and with it the guard that refuses another one: a lost answer, a
\* peer that stops or a channel that never opens cannot keep a dial pending.
ConnectSettles == \A n \in Nodes : (sgDial[n] \notin DialEnded) ~> (sgDial[n] \in DialEnded)

\* A dial that has ended left no timer behind that could reject later, one that awaits the
\* answer has a waiter that will settle, and a channel is only waited for when the peer has
\* answered (_connectOnce, _receiveSDP, _sendSDP).
WaiterFollowsDial == \A n \in Nodes :
    /\ sgWaiter[n] = "armed" => sgDial[n] \in {"offering", "awaiting"}
    /\ sgDial[n] = "awaiting" => sgWaiter[n] \in {"armed", "resolved", "rejected"} /\ sgPeer[n] # "idle"
    /\ sgDial[n] = "opening" => sgWaiter[n] = "resolved" /\ sgPeer[n] \in {"answered", "adopted"}

\* The waiter never rejects a promise nobody holds, "an unhandled rejection that crashes the
\* process".
WaiterIsHeld == sgUnheld = {}

\* A dial settles, and at every moment its waiter is where the dial says (_connectOnce,
\* _receiveSDP, _sendSDP).
DialsSettle == []WaiterFollowsDial /\ ConnectSettles
=============================================================================
