------------------------------ MODULE LXMFSend ------------------------------
(***************************************************************************)
(* Sending LXMF messages to one recipient: send() tries a direct link, which *)
(* concurrent sends share, then an opportunistic packet, then a propagation  *)
(* node, as far as its fallback allows.                                       *)
(***************************************************************************)
EXTENDS Naturals, FiniteSets

CONSTANTS
    Sends,       \* send() calls
    Large,       \* those whose message exceeds the link MDU
    FallbackOf,  \* send -> "none", "opportunistic" or "propagation"
    MaxLinks     \* bound: links established

ASSUME FallbackAssumption == FallbackOf \in [Sends -> {"none", "opportunistic", "propagation"}]

VARIABLES
    lsPc,          \* send -> where it is
    lsLink,        \* send -> the link it is on, or 0
    lsMade,        \* links established so far
    lsUp,          \* links that are active
    lsDirect,      \* directLinks: the cached link to the recipient, or 0
    lsNode,        \* outboundPropagationLink, or 0
    lsIdentified,  \* identifiedLinks
    lsAttached,    \* attachedLinks
    lsIdentifies,  \* history: link -> LINKIDENTIFY packets sent on it
    lsHeld,        \* history: <<send, how>>: the copy sent that way is with the recipient or the node
    lsVia          \* send -> how it ended: "none", "packet", "resource", "opportunistic", "propagation" or "error"

sendVars == <<lsPc, lsLink, lsMade, lsUp, lsDirect, lsNode, lsIdentified, lsAttached, lsIdentifies, lsHeld, lsVia>>

LinkIds == 1..MaxLinks

SendInit ==
    /\ lsPc = [s \in Sends |-> "idle"] /\ lsLink = [s \in Sends |-> 0] /\ lsMade = 0 /\ lsUp = {}
    /\ lsDirect = 0 /\ lsNode = 0 /\ lsIdentified = {} /\ lsAttached = {}
    /\ lsIdentifies = [l \in LinkIds |-> 0] /\ lsHeld = {} /\ lsVia = [s \in Sends |-> "none"]

Goes(s, pc) == lsPc' = [lsPc EXCEPT ![s] = pc]
Ends(s, how) == Goes(s, "ended") /\ lsVia' = [lsVia EXCEPT ![s] = how]
tableVars == <<lsMade, lsUp, lsDirect, lsNode, lsIdentified, lsAttached, lsIdentifies>>
-----------------------------------------------------------------------------
\* Replies on the link are listened for, once per link.
AttachLinkMessageListeners(l) == lsAttached' = lsAttached \cup {l}

\* send() with no link given, and _establishDirectLink: a cached link that is active is used
\* again, any other is forgotten before the first await.
Send(s) ==
    /\ lsPc[s] = "idle"
    /\ IF lsDirect \in lsUp
       THEN Goes(s, "onlink") /\ lsLink' = [lsLink EXCEPT ![s] = lsDirect] /\ AttachLinkMessageListeners(lsDirect)
            /\ UNCHANGED lsDirect
       ELSE Goes(s, "dialling") /\ lsDirect' = 0 /\ UNCHANGED <<lsLink, lsAttached>>
    /\ UNCHANGED <<lsMade, lsUp, lsNode, lsIdentified, lsIdentifies, lsHeld, lsVia>>

\* The identity was recalled or solicited, and a usable path is there, arrived by an announce
\* or did not come in time: the link is initiated in any case.
RequestAndAwaitPath(s) ==
    /\ lsPc[s] = "dialling" /\ Goes(s, "linking")
    /\ UNCHANGED <<lsLink, tableVars, lsHeld, lsVia>>

\* The link has become active: it is cached, and wired for replies.
DirectLinkUp(s) ==
    /\ lsPc[s] = "linking" /\ lsMade < MaxLinks /\ lsMade' = lsMade + 1
    /\ lsUp' = lsUp \cup {lsMade'} /\ lsDirect' = lsMade' /\ AttachLinkMessageListeners(lsMade')
    /\ lsLink' = [lsLink EXCEPT ![s] = lsMade'] /\ Goes(s, "onlink")
    /\ UNCHANGED <<lsNode, lsIdentified, lsIdentifies, lsHeld, lsVia>>

\* What follows a failure on the direct link.
Escalate(s) == IF FallbackOf[s] = "none" THEN Ends(s, "error") ELSE Goes(s, "opportunistic") /\ UNCHANGED lsVia

\* The identity is unknown, or the link did not come up.
DirectLinkFails(s) ==
    /\ lsPc[s] \in {"dialling", "linking"} /\ Escalate(s)
    /\ UNCHANGED <<lsLink, tableVars, lsHeld>>

\* _sendOverLink: a link that is gone is an error; a link of ours that is not identified yet
\* is, with an await.
SendOverLink(s) ==
    /\ lsPc[s] = "onlink"
    /\ IF lsLink[s] \notin lsUp THEN Escalate(s)
       ELSE Goes(s, IF lsLink[s] \in lsIdentified THEN "sending" ELSE "identifying") /\ UNCHANGED lsVia
    /\ UNCHANGED <<lsLink, tableVars, lsHeld>>

\* LINKIDENTIFY is out, or the link is gone.
IdentifiesLink(s) ==
    /\ lsPc[s] = "identifying"
    /\ IF lsLink[s] \in lsUp
       THEN /\ Goes(s, "sending") /\ lsIdentified' = lsIdentified \cup {lsLink[s]}
            /\ lsIdentifies' = [lsIdentifies EXCEPT ![lsLink[s]] = @ + 1] /\ UNCHANGED lsVia
       ELSE Escalate(s) /\ UNCHANGED <<lsIdentified, lsIdentifies>>
    /\ UNCHANGED <<lsLink, lsMade, lsUp, lsDirect, lsNode, lsAttached, lsHeld>>

\* A message that fits is one packet, on its way when send() resolves; it may get lost.
SendPacketOnLink(s) ==
    /\ lsPc[s] = "sending" /\ s \notin Large
    /\ IF lsLink[s] \in lsUp THEN Ends(s, "packet") /\ lsHeld' \in {lsHeld, lsHeld \cup {<<s, "packet">>}}
       ELSE Escalate(s) /\ UNCHANGED lsHeld
    /\ UNCHANGED <<lsLink, tableVars>>

\* Mutant: the resource counts as sent once it is advertised.
AdvertiseIsEnough(s) ==
    /\ lsPc[s] = "sending" /\ s \in Large /\ lsLink[s] \in lsUp /\ Ends(s, "resource")
    /\ UNCHANGED <<lsLink, tableVars, lsHeld>>

\* A large one is a resource: advertised...
Advertise(s) ==
    /\ lsPc[s] = "sending" /\ s \in Large /\ lsLink[s] \in lsUp /\ Goes(s, "transferring")
    /\ UNCHANGED <<lsLink, tableVars, lsHeld, lsVia>>

\* ...and awaited: _awaitOutgoingResource.  The recipient has it before its proof arrives.
ResourceAssembled(s) ==
    /\ lsPc[s] \in {"transferring", "submitting"}
    /\ lsHeld' = lsHeld \cup {<<s, IF lsPc[s] = "transferring" THEN "resource" ELSE "propagation">>}
    /\ UNCHANGED <<lsPc, lsLink, tableVars, lsVia>>

ResourceProven(s) ==
    /\ lsPc[s] = "transferring" /\ <<s, "resource">> \in lsHeld /\ lsLink[s] \in lsUp /\ Ends(s, "resource")
    /\ UNCHANGED <<lsLink, tableVars, lsHeld>>

\* The link closes first, the transfer fails or it times out.
ResourceFails(s) ==
    /\ lsPc[s] = "transferring" /\ Escalate(s)
    /\ UNCHANGED <<lsLink, tableVars, lsHeld>>

\* A link that has closed before the resource is advertised.
LinkGone(s) ==
    /\ lsPc[s] = "sending" /\ s \in Large /\ lsLink[s] \notin lsUp /\ Escalate(s)
    /\ UNCHANGED <<lsLink, tableVars, lsHeld>>

\* _sendOpportunistic: the receipt of the packet settles, by the recipient's proof or by its
\* timeout; the packet may have arrived all the same.
OpportunisticArrives(s) ==
    /\ lsPc[s] = "opportunistic" /\ lsHeld' = lsHeld \cup {<<s, "opportunistic">>}
    /\ UNCHANGED <<lsPc, lsLink, tableVars, lsVia>>

OpportunisticProven(s) ==
    /\ lsPc[s] = "opportunistic" /\ <<s, "opportunistic">> \in lsHeld /\ Ends(s, "opportunistic")
    /\ UNCHANGED <<lsLink, tableVars, lsHeld>>

OpportunisticFails(s) ==
    /\ lsPc[s] = "opportunistic"
    /\ IF FallbackOf[s] = "propagation" THEN Goes(s, "packing") /\ UNCHANGED lsVia ELSE Ends(s, "error")
    /\ UNCHANGED <<lsLink, tableVars, lsHeld>>
-----------------------------------------------------------------------------
\* submitToPropagationNode: the message is packed and stamped, the link to the node taken from
\* the cache or established.
SubmitOnCached(s) ==
    /\ lsPc[s] = "packing" /\ lsNode \in lsUp
    /\ Goes(s, "submitting") /\ lsLink' = [lsLink EXCEPT ![s] = lsNode]
    /\ UNCHANGED <<tableVars, lsHeld, lsVia>>

SubmitOnFresh(s) ==
    /\ lsPc[s] = "packing" /\ lsNode \notin lsUp /\ lsMade < MaxLinks /\ lsMade' = lsMade + 1
    /\ lsUp' = lsUp \cup {lsMade'} /\ lsNode' = lsMade' /\ lsLink' = [lsLink EXCEPT ![s] = lsMade'] /\ Goes(s, "submitting")
    /\ UNCHANGED <<lsDirect, lsIdentified, lsAttached, lsIdentifies, lsHeld, lsVia>>

\* No identity, no stamp or no link: send() rejects.
SubmitRefused(s) ==
    /\ lsPc[s] = "packing" /\ Ends(s, "error")
    /\ UNCHANGED <<lsLink, tableVars, lsHeld>>

SubmitProven(s) ==
    /\ lsPc[s] = "submitting" /\ <<s, "propagation">> \in lsHeld /\ lsLink[s] \in lsUp /\ Ends(s, "propagation")
    /\ UNCHANGED <<lsLink, tableVars, lsHeld>>

\* A failed transfer forgets whatever link is cached by now and tears down its own.
SubmitFails(s) ==
    /\ lsPc[s] = "submitting" /\ Ends(s, "error")
    /\ lsNode' = 0 /\ lsUp' = lsUp \ {lsLink[s]}
    /\ UNCHANGED <<lsLink, lsMade, lsDirect, lsIdentified, lsAttached, lsIdentifies, lsHeld>>

\* A link closes: the tables forget it.
LinkCloses(l) ==
    /\ l \in lsUp /\ lsUp' = lsUp \ {l}
    /\ lsDirect' = IF lsDirect = l THEN 0 ELSE lsDirect
    /\ lsAttached' = lsAttached \ {l} /\ lsIdentified' = lsIdentified \ {l}
    /\ UNCHANGED <<lsPc, lsLink, lsMade, lsNode, lsIdentifies, lsHeld, lsVia>>

SendStep(s) ==
    \/ Send(s) \/ RequestAndAwaitPath(s) \/ DirectLinkUp(s) \/ DirectLinkFails(s) \/ SendOverLink(s) \/ IdentifiesLink(s) \/ SendPacketOnLink(s)
    \/ Advertise(s) \/ ResourceAssembled(s) \/ ResourceProven(s) \/ ResourceFails(s) \/ LinkGone(s)
    \/ OpportunisticArrives(s) \/ OpportunisticProven(s) \/ OpportunisticFails(s)
    \/ SubmitOnCached(s) \/ SubmitOnFresh(s) \/ SubmitRefused(s) \/ SubmitProven(s) \/ SubmitFails(s)

SendNext == (\E s \in Sends : SendStep(s)) \/ (\E l \in LinkIds : LinkCloses(l))
-----------------------------------------------------------------------------
\* send() resolves only when the message is in the hands of the recipient or of the
\* propagation node, the single packet on a direct link excepted; and no fallback is taken
\* that the caller did not allow.
SentIsHeld == \A s \in Sends :
    /\ lsVia[s] \in {"resource", "opportunistic", "propagation"} => <<s, lsVia[s]>> \in lsHeld
    /\ lsVia[s] = "opportunistic" => FallbackOf[s] # "none"
    /\ lsVia[s] = "propagation" => FallbackOf[s] = "propagation"

\* send()'s comment: "LINKIDENTIFY is sent once before the message DATA".
IdentifiedOnce == \A l \in LinkIds : lsIdentifies[l] <= 1

\* The cached direct link is the only one open to the recipient.
OneDirectLink == Cardinality(lsAttached \cap lsUp) <= 1
=============================================================================
