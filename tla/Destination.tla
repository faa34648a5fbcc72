---------------------------- MODULE Destination ----------------------------
(***************************************************************************)
(* A destination that announces itself: the periodic cadence, announces on  *)
(* demand and path responses are asynchronous tasks over one ratchet ring,  *)
(* which a task may rotate and save, which data encrypted by a peer is      *)
(* opened with, and which a packet it does not open reloads from storage.   *)
(***************************************************************************)
EXTENDS Integers, Sequences

CONSTANTS
    Emitters,       \* announce tasks that can be under way at once
    Tags,           \* tags of path requests
    MaxRatchets,    \* MAX_RATCHETS
    MaxRotations,   \* bound: times the ratchet interval passes
    MaxCadences,    \* bound: startAnnouncing() and stopAnnouncing() calls
    MaxOnAir,       \* bound: announces emitted
    MaxData,        \* bound: DATA packets received
    MaxRestarts     \* bound: restarts

VARIABLES
    dsTimer,      \* _announceTimer is set
    dsGen,        \* _announceGeneration
    dsTask,       \* emitter -> [pc, gen, tag, ratchet, ring]
    dsRing,       \* ratchets, newest first
    dsMade,       \* ratchets generated so far; a ratchet is its number
    dsDue,        \* the ratchet interval has passed since latestRatchetTime
    dsStored,     \* the ring in storage
    dsCache,      \* pathResponses: tag -> ratchet of the cached announce, or NoResponse
    dsAir,        \* history: announces broadcast: [ratchet, late]
    dsData,       \* _handleData under way: [pc, key, opens, fresh, ring]
    dsRefused,    \* history: a packet under a fresh ratchet was dropped
    dsReplaced,   \* history: a reload or a restart replaced a ring newer than the stored one
    dsCount       \* bounds: [rotations, cadences, air, data, restarts]

destinationVars == <<dsTimer, dsGen, dsTask, dsRing, dsMade, dsDue, dsStored, dsCache, dsAir, dsData, dsRefused, dsReplaced, dsCount>>

ASSUME DestinationAssumption == MaxRatchets \in Nat \ {0}

NoResponse == -1            \* no announce is cached for the tag
IdleEmitter == [pc |-> "idle", gen |-> 0, tag |-> "none", ratchet |-> 0, ring |-> << >>, target |-> 0]
Unscheduled == -1           \* the generation of an announce that belongs to no cadence

NoRatchet == -2             \* null
IdentityKey == 0            \* the long-term key of the destination's identity
ForeignKey == -1            \* a key the destination never had
NoData == [pc |-> "idle", key |-> IdentityKey, opens |-> FALSE, fresh |-> FALSE, ring |-> << >>]

\* enableRatchets() on an empty store: one forced rotation, saved.
DestinationInit ==
    /\ dsTimer = FALSE /\ dsGen = 0 /\ dsTask = [e \in Emitters |-> IdleEmitter]
    /\ dsRing = <<1>> /\ dsMade = 1 /\ dsDue = FALSE /\ dsStored = <<1>>
    /\ dsCache = [t \in Tags |-> NoResponse] /\ dsAir = {} /\ dsData = NoData
    /\ dsReplaced = FALSE /\ dsRefused = FALSE
    /\ dsCount = [rotations |-> 0, cadences |-> 0, air |-> 0, data |-> 0, restarts |-> 0]

packetVars == <<dsData, dsRefused>>
ringVars == <<dsRing, dsMade, dsDue, dsStored, packetVars, dsReplaced>>

Bump(f) == dsCount' = [dsCount EXCEPT ![f] = @ + 1]
-----------------------------------------------------------------------------
\* _emitAnnounce, up to its first await: a path response for a tag answered lately takes the
\* cached announce; any other one needs the current ratchet, and first a rotation when one
\* is due.
Begun(gen, tag) ==
    LET cached == tag \in Tags /\ dsCache[tag] # NoResponse
    IN  [IdleEmitter EXCEPT !.gen = gen, !.tag = tag,
                     !.pc = IF cached THEN "ready" ELSE IF dsDue THEN "rotating" ELSE "signing",
                     !.ratchet = IF cached THEN dsCache[tag] ELSE IF dsDue THEN 0 ELSE Head(dsRing)]

EmitAnnounce(e, gen, tag) ==
    /\ dsTask[e].pc = "idle" /\ dsCount.air < MaxOnAir
    /\ dsTask' = [dsTask EXCEPT ![e] = Begun(gen, tag)]

\* announce() and announcePathResponse(tag).
Announce(e) == \E tag \in Tags \cup {"none"} :
    /\ EmitAnnounce(e, Unscheduled, tag) /\ Bump("air")
    /\ UNCHANGED <<dsTimer, dsGen, dsCache, dsAir, ringVars>>

\* startAnnouncing(): a fresh generation; the first announce at once unless the cadence was
\* running already.
StartAnnouncing ==
    /\ dsCount.cadences < MaxCadences
    /\ dsTimer' = TRUE /\ dsGen' = dsGen + 1
    /\ \/ dsTimer /\ Bump("cadences") /\ UNCHANGED dsTask
       \/ /\ ~dsTimer /\ \E e \in Emitters : EmitAnnounce(e, dsGen + 1, "none")
          /\ dsCount' = [dsCount EXCEPT !.cadences = @ + 1, !.air = @ + 1]
    /\ UNCHANGED <<dsCache, dsAir, ringVars>>

\* Mutant: stopping clears the timer and leaves the generation.
StopAnnouncingOnly ==
    /\ dsTimer /\ dsCount.cadences < MaxCadences
    /\ dsTimer' = FALSE /\ Bump("cadences")
    /\ UNCHANGED <<dsGen, dsTask, dsCache, dsAir, ringVars>>

\* stopAnnouncing() while the cadence runs.
StopAnnouncing ==
    /\ dsTimer /\ dsCount.cadences < MaxCadences
    /\ dsTimer' = FALSE /\ dsGen' = dsGen + 1 /\ Bump("cadences")
    /\ UNCHANGED <<dsTask, dsCache, dsAir, ringVars>>

\* _scheduledAnnounce: a tick of the cadence.
ScheduledAnnounce(e) ==
    /\ dsTimer /\ EmitAnnounce(e, dsGen, "none") /\ Bump("air")
    /\ UNCHANGED <<dsTimer, dsGen, dsCache, dsAir, ringVars>>

\* The ratchet interval has passed.
IntervalPasses ==
    /\ ~dsDue /\ dsCount.rotations < MaxRotations /\ dsDue' = TRUE /\ Bump("rotations")
    /\ UNCHANGED <<dsTimer, dsGen, dsTask, dsRing, dsMade, dsStored, dsCache, dsAir, packetVars, dsReplaced>>

\* _prunePathResponses finds the cached answer too old.
CachedResponseExpires(t) ==
    /\ dsCache[t] # NoResponse /\ dsCache' = [dsCache EXCEPT ![t] = NoResponse]
    /\ UNCHANGED <<dsTimer, dsGen, dsTask, dsAir, ringVars, dsCount>>

Newest(ring) == SubSeq(ring, 1, IF Len(ring) < MaxRatchets THEN Len(ring) ELSE MaxRatchets)

\* rotateRatchets() has its key: the ring it had in hand gains it, and _persistOwnedRatchets
\* encodes the ring of that moment.  dsTask[e].target is 0 until a reload gives the
\* destination another ring object; the key then goes into the one that was replaced.
RotateRatchets(e) ==
    /\ dsTask[e].pc = "rotating"
    /\ LET ring == IF dsTask[e].target = 0 THEN Newest(<<dsMade + 1>> \o dsRing) ELSE dsRing
       IN  /\ dsRing' = ring /\ dsMade' = dsMade + 1 /\ dsDue' = FALSE
           /\ dsTask' = [dsTask EXCEPT ![e].pc = "saving", ![e].ring = ring]
    /\ UNCHANGED <<dsTimer, dsGen, dsStored, dsCache, dsAir, dsData, dsRefused, dsReplaced, dsCount>>

\* _persistOwnedRatchets has stored the encoded ring, or failed to and said so in the log;
\* the announce takes the ratchet that is first by then.
RatchetsSaved(e) ==
    /\ dsTask[e].pc = "saving"
    /\ dsStored' \in {dsTask[e].ring, dsStored}
    /\ dsTask' = [dsTask EXCEPT ![e].pc = "signing", ![e].ratchet = Head(dsRing), ![e].ring = << >>]
    /\ UNCHANGED <<dsTimer, dsGen, dsRing, dsMade, dsDue, dsCache, dsAir, dsData, dsRefused, dsReplaced, dsCount>>

\* The announce is signed; a path response is cached under its tag.
AnnounceSigned(e) ==
    /\ dsTask[e].pc = "signing"
    /\ dsTask' = [dsTask EXCEPT ![e].pc = "ready"]
    /\ dsCache' = IF dsTask[e].tag \in Tags THEN [dsCache EXCEPT ![dsTask[e].tag] = dsTask[e].ratchet] ELSE dsCache
    /\ UNCHANGED <<dsTimer, dsGen, dsAir, ringVars, dsCount>>

\* It goes on air unless it belongs to a cadence that was restarted or stopped meanwhile.
BroadcastAnnounce(e) ==
    /\ dsTask[e].pc = "ready"
    /\ dsAir' = IF dsTask[e].gen \in {Unscheduled, dsGen}
                THEN dsAir \cup {[ratchet |-> dsTask[e].ratchet, late |-> dsTask[e].gen # Unscheduled /\ ~dsTimer]}
                ELSE dsAir
    /\ dsTask' = [dsTask EXCEPT ![e] = IdleEmitter]
    /\ UNCHANGED <<dsTimer, dsGen, dsCache, ringVars, dsCount>>
-----------------------------------------------------------------------------
\* recallRatchetFrom, at a peer: the ratchet of the announce it heard last, whichever that
\* is, or null: it heard none, or too long ago.
RecalledRatchets == {a.ratchet : a \in dsAir} \cup {NoRatchet}

\* Identity.encrypt: the key pair the shared secret is agreed with.
EncryptedTo(ratchet) == IF ratchet = NoRatchet THEN IdentityKey ELSE ratchet

\* Identity.decrypt: the ratchets of the ring, newest first, then the identity's own key; null
\* when none of them verifies the token.
Decrypts(key, ring) == key = IdentityKey \/ \E i \in DOMAIN ring : ring[i] = key

\* A ratchet is fresh while fewer than MaxRatchets were made after it.
Recent(key) == key \in 1..dsMade /\ key + MaxRatchets > dsMade /\ ~dsReplaced

\* send() and encrypt() of a peer.
SentUnder == {EncryptedTo(r) : r \in RecalledRatchets}

\* receive() hands a packet to _handleData, which tries the ring of that moment.  It may also
\* be a packet for someone else.
ReceiveData ==
    /\ dsData.pc = "idle" /\ dsCount.data < MaxData /\ Bump("data")
    /\ \E key \in SentUnder \cup {ForeignKey} :
           dsData' = [NoData EXCEPT !.pc = "opening", !.key = key, !.fresh = Recent(key), !.opens = Decrypts(key, dsRing)]
    /\ UNCHANGED <<dsTimer, dsGen, dsTask, dsRing, dsMade, dsDue, dsStored, dsCache, dsAir, dsReplaced, dsRefused>>

\* What _handleData does after a decrypt: the data event and the proof, or the next step.
Opened(next) ==
    /\ dsData' = IF dsData.opens THEN [NoData EXCEPT !.pc = "proving"]
                 ELSE IF next = "drop" THEN NoData ELSE [dsData EXCEPT !.pc = next]
    /\ dsRefused' = (dsRefused \/ (~dsData.opens /\ next = "drop" /\ dsData.fresh))
    /\ UNCHANGED <<dsTimer, dsGen, dsTask, dsRing, dsMade, dsDue, dsStored, dsCache, dsAir, dsReplaced, dsCount>>

\* identity.decrypt returns: no key fitted, so the stored ring is asked for.
DataDecrypted == dsData.pc = "opening" /\ Opened("reading")

\* ...loadOwnedRatchets() of the adapter answers, or throws and the packet is dropped...
ReloadReads ==
    /\ dsData.pc = "reading"
    /\ \/ dsData' = [dsData EXCEPT !.pc = "read", !.ring = dsStored] /\ UNCHANGED dsRefused
       \/ dsData' = NoData /\ dsRefused' = (dsRefused \/ dsData.fresh)
    /\ UNCHANGED <<dsTimer, dsGen, dsTask, dsRing, dsMade, dsDue, dsStored, dsCache, dsAir, dsReplaced, dsCount>>

\* ...its signature is valid, and it becomes the destination's ring and is tried...
ReloadApplies ==
    /\ dsData.pc = "read"
    /\ dsData' = [dsData EXCEPT !.pc = "retrying", !.ring = << >>, !.opens = Decrypts(dsData.key, dsData.ring)]
    /\ dsRing' = dsData.ring /\ dsReplaced' = (dsReplaced \/ dsData.ring # dsRing)
    /\ dsTask' = [e \in Emitters |-> IF dsTask[e].pc = "rotating" THEN [dsTask[e] EXCEPT !.target = 1] ELSE dsTask[e]]
    /\ UNCHANGED <<dsTimer, dsGen, dsMade, dsDue, dsStored, dsCache, dsAir, dsRefused, dsCount>>

\* ...once.
DataRetried == dsData.pc = "retrying" /\ Opened("drop")

\* _provePacket has signed the hash: the PROOF is broadcast.
ProveData ==
    /\ dsData.pc = "proving" /\ dsData' = NoData
    /\ UNCHANGED <<dsTimer, dsGen, dsTask, dsRing, dsMade, dsDue, dsStored, dsCache, dsAir, dsReplaced, dsRefused, dsCount>>

\* The process restarts: enableRatchets() restores the stored ring; latestRatchetTime is
\* zero again, so the next announce rotates.
RestartDestination ==
    /\ dsCount.restarts < MaxRestarts /\ Bump("restarts")
    /\ dsTimer' = FALSE /\ dsGen' = 0 /\ dsTask' = [e \in Emitters |-> IdleEmitter]
    /\ dsRing' = dsStored /\ dsReplaced' = (dsReplaced \/ dsStored # dsRing) /\ dsDue' = TRUE
    /\ dsCache' = [t \in Tags |-> NoResponse] /\ dsData' = NoData
    /\ UNCHANGED <<dsMade, dsStored, dsAir, dsRefused>>

DestinationNext ==
    \/ \E e \in Emitters :
           \/ Announce(e) \/ ScheduledAnnounce(e) \/ RotateRatchets(e) \/ RatchetsSaved(e)
           \/ AnnounceSigned(e) \/ BroadcastAnnounce(e)
    \/ StartAnnouncing \/ StopAnnouncing \/ IntervalPasses \/ RestartDestination
    \/ ReceiveData \/ DataDecrypted \/ ReloadReads \/ ReloadApplies \/ DataRetried \/ ProveData
    \/ \E t \in Tags : CachedResponseExpires(t)
-----------------------------------------------------------------------------
\* What a peer may rely on.  No announce of a cadence goes on air after stopAnnouncing(); and
\* as long as no reload or restart has brought back another ring than the one held, any of the
\* last MaxRatchets ratchets that were announced is held, and no data encrypted to one of them
\* is dropped.
AnnouncesAreKept ==
    /\ ~dsRefused
    /\ \A a \in dsAir :
           /\ ~a.late
           /\ Recent(a.ratchet) => \E i \in DOMAIN dsRing : dsRing[i] = a.ratchet

\* Without that condition (the ring is persisted "so a restart can still decrypt messages
\* encrypted to prior ratchets"), every announced ratchet is one
\* the destination can still find, in memory or in storage.
AnnouncedIsFindable == \A a \in dsAir : a.ratchet + MaxRatchets > dsMade =>
    \E ring \in {dsRing, dsStored} : \E i \in DOMAIN ring : ring[i] = a.ratchet
=============================================================================
