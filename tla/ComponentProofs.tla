-------------------------- MODULE ComponentProofs --------------------------
(***************************************************************************)
(* Proofs about the components of a node that need few steps each: requests *)
(* over a link, soliciting an identity, the packet hash list, discovered     *)
(* interfaces, the listening interfaces, UDP and the RNode radio, byte streams,*)
(* destinations and their ratchets, the routing table, the zero-configuration *)
(* interface and the framing of byte streams. Each has an inductive invariant of its own. *)
(***************************************************************************)
EXTENDS LinkRequest, PathSolicitation, PacketFilter, Discovery, Listener, UdpInterface, RNode,
        StreamBuffer, Destination, RoutingTable, AutoInterface, Framing,
        FiniteSetTheorems, SequenceTheorems, WellFoundedInduction, TLAPS

-----------------------------------------------------------------------------
\* The promises of request(), for any number of callers whose ids differ.

IdsDistinct == \A r, q \in Requests : Id[r] = Id[q] => r = q

\* An entry is stored under its own id, waits, and its call has registered it.
EntriesWait ==
    \A i \in Ids : pendingRequests[i] # NoEntry =>
        LET r == pendingRequests[i]
        IN /\ Id[r] = i /\ promise[r] = "pending"
           /\ phase[r] \in {"transmitting", "done"}

\* A call that has not returned holds nothing, and one that still transmits
\* knows of a quiet settlement.
CallsFollow ==
    \A r \in Requests :
        /\ phase[r] \in {"idle", "preparing"} => promise[r] = "none"
        /\ handedOut[r] => phase[r] = "done"
        /\ phase[r] = "transmitting" /\ promise[r] = "undefined" => quiet[r]

RequestInv == /\ TypeOK /\ NoUnheldRejection /\ NoBogusValue
              /\ TimersMatchEntries /\ EntriesWait /\ CallsFollow

-----------------------------------------------------------------------------

\* Removing the entries of a set of requests, whose timers go with them.
LEMMA RemoveKeeps ==
    ASSUME IdsDistinct, TypeOK, TimersMatchEntries, EntriesWait,
           NEW es, NEW fired, es \subseteq Entries, fired \subseteq es, Remove(es, fired)
    PROVE  /\ timer' \in [Requests -> BOOLEAN]
           /\ settled' \in [Requests -> BOOLEAN]
           /\ pendingRequests' \in [Ids -> Requests \cup {NoEntry}]
           /\ TimersMatchEntries'
           /\ \A i \in Ids : /\ pendingRequests'[i] # NoEntry
                                  => pendingRequests'[i] = pendingRequests[i]
                             /\ pendingRequests'[i] \notin es
<1> USE RequestAssumption, NoEntryAssumption
<1>1. NoEntry \notin es
  BY DEF Entries
<1>2. /\ timer' \in [Requests -> BOOLEAN]
      /\ settled' \in [Requests -> BOOLEAN]
      /\ pendingRequests' \in [Ids -> Requests \cup {NoEntry}]
  BY DEF Remove, TypeOK
<1>3. \A i \in Ids : /\ pendingRequests'[i] # NoEntry
                          => pendingRequests'[i] = pendingRequests[i]
                     /\ pendingRequests'[i] \notin es
  BY <1>1 DEF Remove
<1>4. \A r \in Requests : timer'[r] = (timer[r] /\ r \notin es)
  BY DEF Remove, TypeOK
<1>5. \A r \in Requests : Id[r] \in Ids
  BY DEF Ids
<1>6. \A r \in Requests : (pendingRequests'[Id[r]] = r)
                             <=> (pendingRequests[Id[r]] = r /\ r \notin es)
  BY <1>1, <1>5 DEF Remove, TypeOK
<1> QED
  BY <1>2, <1>3, <1>4, <1>6 DEF TimersMatchEntries

\* A settlement that leaves the calls alone: each removed entry's promise is
\* answered or failed by the rule of _failPendingRequest.
LEMMA SettleKeeps ==
    ASSUME IdsDistinct, RequestInv, NEW es, NEW fired,
           es \subseteq Entries, fired \subseteq es, Remove(es, fired),
           UNCHANGED <<phase, handedOut, threw>>, active' \in BOOLEAN,
           promise' \in [Requests -> Promises], quiet' \in [Requests -> BOOLEAN],
           wire' \subseteq [type : {"REQUEST", "RESPONSE", "ADV"}, id : Ids],
           transfer' \in [Ids -> Transfers],
           \A r \in Requests : r \notin es =>
               promise'[r] = promise[r] /\ quiet'[r] = quiet[r],
           \A r \in Requests : r \in es =>
               \/ promise'[r] = "response"
               \/ promise'[r] = "rejected" /\ handedOut[r]
               \/ promise'[r] = "undefined" /\ quiet'[r] /\ ~handedOut[r]
    PROVE  RequestInv'
<1> USE RequestAssumption, NoEntryAssumption
<1>1. /\ timer' \in [Requests -> BOOLEAN]
      /\ settled' \in [Requests -> BOOLEAN]
      /\ pendingRequests' \in [Ids -> Requests \cup {NoEntry}]
      /\ TimersMatchEntries'
      /\ \A i \in Ids : /\ pendingRequests'[i] # NoEntry
                             => pendingRequests'[i] = pendingRequests[i]
                        /\ pendingRequests'[i] \notin es
  BY RemoveKeeps DEF RequestInv
<1>2. TypeOK'
  BY <1>1 DEF RequestInv, TypeOK
<1>3. NoUnheldRejection' /\ NoBogusValue'
  BY DEF RequestInv, NoUnheldRejection, NoBogusValue
<1>4. EntriesWait'
  BY <1>1 DEF RequestInv, EntriesWait, TypeOK
<1>5. \A r \in es : phase[r] \notin {"idle", "preparing"}
  BY DEF Entries, RequestInv, EntriesWait
<1>6. CallsFollow'
  BY <1>5 DEF RequestInv, CallsFollow
<1> QED
  BY <1>1, <1>2, <1>3, <1>4, <1>6 DEF RequestInv

LEMMA EntryOfIsEntry ==
    ASSUME NEW i \in Ids
    PROVE  EntryOf(i) \subseteq Entries
BY DEF EntryOf, Entries

\* _failPendingRequest on waiting entries preserves the invariant.
LEMMA FailKeeps ==
    ASSUME IdsDistinct, RequestInv, NEW es, NEW fired,
           es \subseteq Entries, fired \subseteq es, FailPendingRequests(es, fired),
           UNCHANGED <<phase, handedOut, threw>>, active' \in BOOLEAN,
           wire' = wire, transfer' \in [Ids -> Transfers]
    PROVE  RequestInv'
<1>1. promise' \in [Requests -> Promises] /\ quiet' \in [Requests -> BOOLEAN]
  BY DEF FailPendingRequests, RequestInv, TypeOK, Promises
<1>2. \A r \in Requests : r \notin es =>
          promise'[r] = promise[r] /\ quiet'[r] = quiet[r]
  BY DEF FailPendingRequests, RequestInv, TypeOK
<1>3. \A r \in Requests : r \in es =>
          \/ promise'[r] = "rejected" /\ handedOut[r]
          \/ promise'[r] = "undefined" /\ quiet'[r] /\ ~handedOut[r]
  BY DEF FailPendingRequests
<1>4. Remove(es, fired)
  BY DEF FailPendingRequests
<1> QED
  BY <1>1, <1>2, <1>3, <1>4, SettleKeeps DEF RequestInv, TypeOK

LEMMA ResolveKeeps ==
    ASSUME IdsDistinct, RequestInv, NEW i \in Ids, ResolveResponse(i),
           UNCHANGED <<phase, handedOut, threw>>, active' \in BOOLEAN,
           wire' \subseteq wire, transfer' \in [Ids -> Transfers]
    PROVE  RequestInv'
<1>1. /\ promise' \in [Requests -> Promises]
      /\ \A r \in Requests : r \notin EntryOf(i) => promise'[r] = promise[r]
      /\ \A r \in Requests : r \in EntryOf(i) => promise'[r] = "response"
  BY DEF ResolveResponse, RequestInv, TypeOK, Promises
<1>2. Remove(EntryOf(i), {}) /\ quiet' = quiet
  BY DEF ResolveResponse
<1> QED
  BY <1>1, <1>2, EntryOfIsEntry, SettleKeeps DEF RequestInv, TypeOK

-----------------------------------------------------------------------------
\* The steps of request() itself.
LEMMA CallSteps ==
    ASSUME IdsDistinct, RequestInv, NEW r \in Requests,
           Request(r) \/ Register(r) \/ Transmitted(r) \/ SettledFirst(r)
    PROVE  RequestInv'
<1> USE RequestAssumption, NoEntryAssumption
<1>0. Id[r] \in Ids
  BY DEF Ids
<1>1. CASE Request(r)
  BY <1>1 DEF Request, RequestInv, TypeOK, NoUnheldRejection, NoBogusValue,
              TimersMatchEntries, EntriesWait, CallsFollow, Phases
<1>2. CASE Register(r)
  <2>1. promise[r] = "none" /\ ~handedOut[r]
    BY <1>2 DEF Register, RequestInv, CallsFollow
  <2>2. TypeOK'
    BY <1>2, <1>0 DEF Register, RequestInv, TypeOK, Phases, Promises, Packet
  <2>3. TimersMatchEntries'
    BY <1>2, <1>0 DEF Register, RequestInv, TypeOK, TimersMatchEntries, IdsDistinct
  <2>4. EntriesWait'
    BY <1>2, <1>0, <2>1 DEF Register, RequestInv, TypeOK, EntriesWait
  <2>5. NoUnheldRejection' /\ NoBogusValue' /\ CallsFollow'
    BY <1>2, <2>1 DEF Register, RequestInv, TypeOK, NoUnheldRejection,
                      NoBogusValue, CallsFollow
  <2> QED
    BY <2>2, <2>3, <2>4, <2>5 DEF RequestInv
<1>3. CASE Transmitted(r) \/ SettledFirst(r)
  <2>1. /\ phase[r] = "transmitting" /\ Resume(r)
        /\ UNCHANGED <<active, pendingRequests, timer, promise, settled, quiet,
                       wire, transfer>>
    BY <1>3 DEF Transmitted, SettledFirst
  <2>2. TypeOK'
    BY <2>1 DEF Resume, RequestInv, TypeOK, Phases
  <2>3. TimersMatchEntries' /\ EntriesWait'
    BY <2>1 DEF Resume, RequestInv, TypeOK, TimersMatchEntries, EntriesWait
  <2>4. NoUnheldRejection' /\ NoBogusValue' /\ CallsFollow'
    BY <2>1 DEF Resume, RequestInv, TypeOK, NoUnheldRejection, NoBogusValue,
                CallsFollow
  <2> QED
    BY <2>2, <2>3, <2>4 DEF RequestInv
<1> QED
  BY <1>1, <1>2, <1>3

\* A transmission that throws discards its own entry, which nobody holds.
LEMMA TransmitFailsKeeps ==
    ASSUME IdsDistinct, RequestInv, NEW r \in Requests, TransmitFails(r)
    PROVE  RequestInv'
<1> USE RequestAssumption, NoEntryAssumption
<1>0. Id[r] \in Ids /\ EntryOf(Id[r]) \subseteq Entries
  BY EntryOfIsEntry DEF Ids
<1>1. EntryOf(Id[r]) \subseteq {r}
  BY <1>0 DEF EntryOf, RequestInv, TypeOK, EntriesWait, IdsDistinct
<1>2. Remove(EntryOf(Id[r]), {})
  BY DEF TransmitFails, Discard
<1>3. /\ timer' \in [Requests -> BOOLEAN]
      /\ settled' \in [Requests -> BOOLEAN]
      /\ pendingRequests' \in [Ids -> Requests \cup {NoEntry}]
      /\ TimersMatchEntries'
      /\ \A i \in Ids : /\ pendingRequests'[i] # NoEntry
                             => pendingRequests'[i] = pendingRequests[i]
                        /\ pendingRequests'[i] \notin EntryOf(Id[r])
  BY <1>0, <1>2, RemoveKeeps DEF RequestInv
<1>4. /\ promise' \in [Requests -> Promises]
      /\ \A q \in Requests : q \notin EntryOf(Id[r]) => promise'[q] = promise[q]
      /\ \A q \in Requests : q \in EntryOf(Id[r]) => promise'[q] = "undefined"
  BY DEF TransmitFails, Discard, RequestInv, TypeOK, Promises
<1>5. ~handedOut[r] /\ handedOut' = handedOut /\ phase' = [phase EXCEPT ![r] = "done"]
  BY DEF TransmitFails, RequestInv, CallsFollow
<1>6. TypeOK'
  BY <1>3, <1>4 DEF TransmitFails, RequestInv, TypeOK, Phases
<1>7. EntriesWait'
  BY <1>3, <1>4, <1>5 DEF RequestInv, TypeOK, EntriesWait
<1>8. NoUnheldRejection' /\ NoBogusValue'
  BY <1>1, <1>4, <1>5 DEF RequestInv, NoUnheldRejection, NoBogusValue
<1>9. CallsFollow'
  BY <1>1, <1>4, <1>5 DEF TransmitFails, RequestInv, TypeOK, CallsFollow
<1> QED
  BY <1>3, <1>6, <1>7, <1>8, <1>9 DEF RequestInv

LEMMA TimeoutKeeps ==
    ASSUME IdsDistinct, RequestInv, NEW r \in Requests, Timeout(r)
    PROVE  RequestInv'
<1>1. Id[r] \in Ids /\ EntryOf(Id[r]) \subseteq Entries
  BY EntryOfIsEntry DEF Ids
<1>2. {r} \subseteq EntryOf(Id[r])
  BY NoEntryAssumption DEF Timeout, EntryOf, RequestInv, TimersMatchEntries
<1>3. transfer' \in [Ids -> Transfers]
  BY DEF Timeout, CancelTransfers, RequestInv, TypeOK, Transfers
<1>4. FailPendingRequests(EntryOf(Id[r]), {r})
  BY DEF Timeout
<1>5. UNCHANGED <<phase, handedOut, threw>> /\ active' \in BOOLEAN /\ wire' = wire
  BY DEF Timeout, RequestInv, TypeOK
<1> QED
  BY <1>1, <1>2, <1>3, <1>4, <1>5, FailKeeps

\* The steps of the responder and of the response.
LEMMA ResponseSteps ==
    ASSUME IdsDistinct, RequestInv, NEW i \in Ids,
           \/ Dispatch(i) \/ HandleResponse(i) \/ HandleResourceResponse(i)
           \/ ResponseTransferFails(i)
           \/ \E kind \in Transfers : AcceptResponse(i, kind)
    PROVE  RequestInv'
<1>1. CASE Dispatch(i)
  BY <1>1 DEF Dispatch, Packet, RequestInv, TypeOK, NoUnheldRejection,
              NoBogusValue, TimersMatchEntries, EntriesWait, CallsFollow
<1>2. CASE HandleResponse(i)
  <2>1. ResolveResponse(i) /\ wire' \subseteq wire
        /\ UNCHANGED <<phase, handedOut, threw>> /\ active' \in BOOLEAN /\ transfer' = transfer
    BY <1>2 DEF HandleResponse, RequestInv, TypeOK
  <2> QED
    BY <2>1, ResolveKeeps DEF RequestInv, TypeOK
<1>3. CASE HandleResourceResponse(i)
  <2>1. ResolveResponse(i) /\ wire' \subseteq wire
        /\ UNCHANGED <<phase, handedOut, threw>> /\ active' \in BOOLEAN
    BY <1>3 DEF HandleResourceResponse, RequestInv, TypeOK
  <2>2. transfer' \in [Ids -> Transfers]
    BY <1>3 DEF HandleResourceResponse, RequestInv, TypeOK, Transfers
  <2> QED
    BY <2>1, <2>2, ResolveKeeps
<1>4. CASE ResponseTransferFails(i)
  <2> DEFINE es == IF transfer[i] = "split" THEN EntryOf(i) ELSE {}
  <2>1. FailPendingRequests(es, {}) /\ wire' = wire
        /\ UNCHANGED <<phase, handedOut, threw>> /\ active' \in BOOLEAN
    BY <1>4 DEF ResponseTransferFails, RequestInv, TypeOK
  <2>2. transfer' \in [Ids -> Transfers]
    BY <1>4 DEF ResponseTransferFails, RequestInv, TypeOK, Transfers
  <2>3. es \subseteq Entries
    BY EntryOfIsEntry
  <2> HIDE DEF es
  <2> QED
    BY <2>1, <2>2, <2>3, FailKeeps
<1>5. ASSUME NEW kind \in Transfers, AcceptResponse(i, kind)
      PROVE  RequestInv'
  BY <1>5 DEF AcceptResponse, RequestInv, TypeOK, NoUnheldRejection,
              NoBogusValue, TimersMatchEntries, EntriesWait, CallsFollow
<1> QED
  BY <1>1, <1>2, <1>3, <1>4, <1>5

LEMMA CloseKeeps ==
    ASSUME IdsDistinct, RequestInv, Close
    PROVE  RequestInv'
<1>1. FailPendingRequests(Entries, {})
  BY DEF Close
<1>2. /\ transfer' \in [Ids -> Transfers] /\ wire' = wire /\ active' \in BOOLEAN
      /\ UNCHANGED <<phase, handedOut, threw>>
  BY DEF Close, CancelTransfers, RequestInv, TypeOK, Transfers
<1> QED
  BY <1>1, <1>2, FailKeeps

LEMMA RequestInductive == ASSUME IdsDistinct PROVE Spec => []RequestInv
<1>1. Init => RequestInv
  BY RequestAssumption, NoEntryAssumption
     DEF Init, RequestInv, TypeOK, NoUnheldRejection, NoBogusValue, Ids,
         TimersMatchEntries, EntriesWait, CallsFollow, Phases, Promises, Transfers
<1>2. RequestInv /\ [Next]_vars => RequestInv'
  <2> SUFFICES ASSUME RequestInv, [Next]_vars
               PROVE  RequestInv'
    OBVIOUS
  <2>1. ASSUME NEW p \in wire, Lose(p)
        PROVE  RequestInv'
    BY <2>1 DEF Lose, RequestInv, TypeOK, NoUnheldRejection, NoBogusValue,
                TimersMatchEntries, EntriesWait, CallsFollow
  <2>2. CASE UNCHANGED vars
    BY <2>2 DEF vars, RequestInv, TypeOK, NoUnheldRejection, NoBogusValue,
                TimersMatchEntries, EntriesWait, CallsFollow
  <2> QED
    BY <2>1, <2>2, CallSteps, TransmitFailsKeeps, TimeoutKeeps, ResponseSteps,
       CloseKeeps DEF Next
<1> QED
  BY <1>1, <1>2, PTL DEF Spec

\* Whenever timeout, transmission failure, transfer failure and closure strike,
\* no response promise is rejected before a caller holds it, for any number of
\* concurrent requests (_failPendingRequest, _discardPendingRequest).
THEOREM RejectionsAreHeld == ASSUME IdsDistinct PROVE Spec => []NoUnheldRejection
<1>1. RequestInv => NoUnheldRejection
  BY DEF RequestInv
<1> QED
  BY <1>1, RequestInductive, PTL

\* A caller is never handed the placeholder value of a settled entry.
THEOREM AnswersAreReal == ASSUME IdsDistinct PROVE Spec => []NoBogusValue
<1>1. RequestInv => NoBogusValue
  BY DEF RequestInv
<1> QED
  BY <1>1, RequestInductive, PTL

\* No request's timer outlives its entry and no entry is without one.
THEOREM TimersAreExact == ASSUME IdsDistinct PROVE Spec => []TimersMatchEntries
<1>1. RequestInv => TimersMatchEntries
  BY DEF RequestInv
<1> QED
  BY <1>1, RequestInductive, PTL

\* The three together, for any number of concurrent requests with ids of their own.
THEOREM PromiseSafety == ASSUME IdsDistinct PROVE Spec => []PromisesSafe
<1>1. RequestInv => PromisesSafe
  BY DEF RequestInv, PromisesSafe
<1> QED
  BY <1>1, RequestInductive, PTL

-----------------------------------------------------------------------------
\* Solicitations.

\* The states of a solicitation that leads others.
Leading == {"asking", "waiting", "settled"}

\* There is at most one leader, it is the one in the table, and everyone who joined follows it.
SolicitInv ==
    /\ soPc = [c \in Callers |-> soPc[c]] /\ soLeader \in [Callers -> Callers \cup {Nobody}]
    /\ soInflight \in Callers \cup {Nobody}
    /\ soWronged = {}
    /\ \A c \in Callers : soPc[c] \in Leading <=> soInflight = c
    /\ \A c \in Callers : soPc[c] = "joined" => soLeader[c] = soInflight /\ soInflight # Nobody

\* The initial state: nobody solicits.
LEMMA SolicitInitially == SolicitInit => SolicitInv
BY CallersAssumption DEF SolicitInit, SolicitInv, Leading

\* Every step of a caller, an announce, a timeout and the askers keep the invariant.
LEMMA SolicitInductive == SolicitInv /\ [SolicitNext]_solicitVars => SolicitInv'
<1> SUFFICES ASSUME SolicitInv, [SolicitNext]_solicitVars PROVE SolicitInv'
    OBVIOUS
<1> USE CallersAssumption DEF SolicitInv, Leading, askVars
<1>1. ASSUME NEW c \in Callers, Recall(c) PROVE SolicitInv'
    BY <1>1 DEF Recall, SolicitEnded
<1>2. ASSUME NEW c \in Callers, JoinOrSolicit(c) PROVE SolicitInv'
    BY <1>2 DEF JoinOrSolicit
<1>3. ASSUME NEW c \in Callers, PathRequested(c) \/ SolicitTimeout(c) PROVE SolicitInv'
    BY <1>3 DEF PathRequested, SolicitTimeout
<1>4. ASSUME NEW c \in Callers, SolicitationSettled(c) PROVE SolicitInv'
    BY <1>4 DEF SolicitationSettled, Conclude
<1>5. ASSUME NEW c \in Callers, LeaderEnds(c) PROVE SolicitInv'
    BY <1>5 DEF LeaderEnds, Forget
<1>6. CASE AnnounceIngested \/ MinIntervalPasses
    BY <1>6 DEF AnnounceIngested, MinIntervalPasses
<1>7. ASSUME NEW a \in Askers, RequestPathAuto(a) \/ AutoRequested(a) PROVE SolicitInv'
    BY <1>7 DEF RequestPathAuto, AutoRequested
<1>8. CASE UNCHANGED solicitVars
    BY <1>8 DEF solicitVars
<1> QED
    BY <1>1, <1>2, <1>3, <1>4, <1>5, <1>6, <1>7, <1>8 DEF SolicitNext

\* No caller is told "unknown" for an identity known in time and none joins a solicitation
\* that is over, for any number of callers.
THEOREM SolicitSafety == SolicitInit /\ [][SolicitNext]_solicitVars => []SolicitationsAreHonest
<1>1. SolicitInv => SolicitationsAreHonest
    BY CallersAssumption DEF SolicitInv, SolicitationsAreHonest, Leading
<1> QED
    BY SolicitInitially, SolicitInductive, <1>1, PTL
-----------------------------------------------------------------------------
\* The packet hash list.

\* Neither generation outgrows half the list, a hash in the older one has seen the younger
\* one fill, and a hash in neither has seen half the list go by.
FilterInv ==
    /\ IsFiniteSet(pfCurrent) /\ IsFiniteSet(pfPrev)
    /\ 2 * Cardinality(pfCurrent) <= HashlistMax /\ 2 * Cardinality(pfPrev) <= HashlistMax + 2
    /\ pfSince \in [Packets -> 0..Never] /\ pfTooSoon = {}
    /\ \A p \in Packets :
        /\ p \in pfPrev \ pfCurrent => pfSince[p] >= Cardinality(pfCurrent)
        /\ p \notin pfCurrent \cup pfPrev => pfSince[p] = Never \/ 2 * pfSince[p] > HashlistMax

\* The initial state: nothing seen.
LEMMA FilterInitially == FilterInit => FilterInv
<1> SUFFICES ASSUME FilterInit PROVE FilterInv
    OBVIOUS
<1>1. IsFiniteSet(pfCurrent) /\ IsFiniteSet(pfPrev) /\ Cardinality(pfCurrent) = 0 /\ Cardinality(pfPrev) = 0
    BY FS_EmptySet DEF FilterInit
<1>2. pfSince \in [Packets -> 0..Never]
    BY HashlistAssumption DEF FilterInit, Never
<1> QED
    BY <1>1, <1>2, HashlistAssumption DEF FilterInit, FilterInv, Never

\* A packet that arrives, fresh or not, and the clock keep the invariant.
LEMMA FilterInductive == FilterInv /\ [FilterNext]_filterVars => FilterInv'
<1> SUFFICES ASSUME FilterInv, [FilterNext]_filterVars PROVE FilterInv'
    OBVIOUS
<1> USE HashlistAssumption
<1>1. CASE UNCHANGED filterVars \/ PrTick
    BY <1>1 DEF filterVars, PrTick, FilterInv
<1>2. ASSUME NEW p \in Packets, PacketArrives(p), p \notin pfCurrent \cup pfPrev PROVE FilterInv'
  <2> DEFINE grown == pfCurrent \cup {p}
  <2> DEFINE n == Cardinality(pfCurrent)
  <2>1. IsFiniteSet(grown) /\ Cardinality(grown) = n + 1 /\ n \in Nat /\ Cardinality(pfPrev) \in Nat
    BY <1>2, FS_AddElement, FS_CardinalityType DEF FilterInv
  <2>2. pfSince' = [q \in Packets |-> IF q = p THEN 0 ELSE IF pfSince[q] = Never THEN Never
                                      ELSE Least(pfSince[q] + 1, HashlistMax + 1)]
    BY <1>2 DEF PacketArrives
  <2>3. pfSince' \in [Packets -> 0..Never]
    BY <2>2 DEF FilterInv, Never, Least
  <2>4. pfTooSoon' = {}
    BY <1>2 DEF PacketArrives, FilterInv
  <2>5. ASSUME NEW q \in Packets, q # p
        PROVE  /\ pfSince[q] \in 0..Never
               /\ pfSince'[q] = Never \/ pfSince'[q] = HashlistMax + 1 \/ pfSince'[q] = pfSince[q] + 1
               /\ pfSince[q] = Never => pfSince'[q] = Never
    BY <2>2, <2>5 DEF FilterInv, Least, Never
  <2>6. CASE 2 * (n + 1) > HashlistMax
    <3>1. pfPrev' = grown /\ pfCurrent' = {}
        BY <1>2, <2>1, <2>6 DEF PacketArrives, RememberHash
    <3>2. IsFiniteSet(pfCurrent') /\ Cardinality(pfCurrent') = 0
        BY <3>1, FS_EmptySet
    <3>3. 2 * Cardinality(pfPrev') <= HashlistMax + 2
        BY <2>1, <3>1 DEF FilterInv
    <3>4. ASSUME NEW q \in Packets, q \notin grown
          PROVE  pfSince'[q] = Never \/ 2 * pfSince'[q] > HashlistMax
      <4>1. CASE q \in pfPrev
        BY <2>1, <2>5, <2>6, <3>4, <4>1 DEF FilterInv, Never
      <4>2. CASE q \notin pfPrev
        BY <2>1, <2>5, <3>4, <4>2 DEF FilterInv, Never
      <4> QED
        BY <4>1, <4>2
    <3>5. \A q \in Packets : pfSince'[q] >= 0
        BY <2>3
    <3> QED
        BY <2>1, <2>3, <2>4, <3>1, <3>2, <3>3, <3>4, <3>5 DEF FilterInv
  <2>7. CASE ~(2 * (n + 1) > HashlistMax)
    <3>1. pfCurrent' = grown /\ pfPrev' = pfPrev
        BY <1>2, <2>1, <2>7 DEF PacketArrives, RememberHash
    <3>2. 2 * Cardinality(pfCurrent') <= HashlistMax
        BY <2>1, <2>7, <3>1
    <3>3. ASSUME NEW q \in Packets, q \in pfPrev \ grown PROVE pfSince'[q] >= Cardinality(pfCurrent')
        BY <2>1, <2>5, <2>7, <3>1, <3>3 DEF FilterInv, Never
    <3>4. ASSUME NEW q \in Packets, q \notin grown \cup pfPrev
          PROVE  pfSince'[q] = Never \/ 2 * pfSince'[q] > HashlistMax
        BY <2>5, <3>4 DEF FilterInv, Never
    <3> QED
        BY <2>1, <2>3, <2>4, <3>1, <3>2, <3>3, <3>4 DEF FilterInv
  <2> QED
    BY <2>6, <2>7
<1>3. ASSUME NEW p \in Packets, PacketArrives(p), p \in pfCurrent \cup pfPrev PROVE FilterInv'
    BY <1>3, <1>1 DEF PacketArrives
<1> QED
    BY <1>1, <1>2, <1>3 DEF FilterNext

\* A packet is handled again only after more than half the list's maximum of fresh ones, and
\* the list stays within its bound, for every maximum and any traffic.
THEOREM FilterSafety == FilterInit /\ [][FilterNext]_filterVars => []RememberedLongEnough
<1>1. ASSUME FilterInv PROVE RememberedLongEnough
  <2>1. Cardinality(pfCurrent) \in Nat /\ Cardinality(pfPrev) \in Nat
    BY <1>1, FS_CardinalityType DEF FilterInv
  <2>2. Cardinality(pfCurrent \cup pfPrev) \in Nat
        /\ Cardinality(pfCurrent \cup pfPrev) <= Cardinality(pfCurrent) + Cardinality(pfPrev)
    <3>1. IsFiniteSet(pfCurrent) /\ IsFiniteSet(pfPrev)
        BY <1>1 DEF FilterInv
    <3>2. IsFiniteSet(pfCurrent \cap pfPrev) /\ IsFiniteSet(pfCurrent \cup pfPrev)
          /\ Cardinality(pfCurrent \cup pfPrev)
             = Cardinality(pfCurrent) + Cardinality(pfPrev) - Cardinality(pfCurrent \cap pfPrev)
        BY <3>1, FS_Union, FS_Intersection
    <3>3. Cardinality(pfCurrent \cap pfPrev) \in Nat /\ Cardinality(pfCurrent \cup pfPrev) \in Nat
        BY <3>2, FS_CardinalityType
    <3> QED
        BY <2>1, <3>2, <3>3
  <2> QED
    BY <1>1, <2>1, <2>2, HashlistAssumption DEF FilterInv, RememberedLongEnough
<1> QED
    BY FilterInitially, FilterInductive, <1>1, PTL
-----------------------------------------------------------------------------
\* Listeners.

\* The sockets that were spawned are known, and attached.
ListenerInv == sock = [s \in Sockets |-> sock[s]] /\ svSpawned \subseteq Sockets /\ SpawnedIsAttached

\* The initial state: a server without clients.
LEMMA ListenerInitially == ListenerInit => ListenerInv
BY DEF ListenerInit, ListenerInv, SpawnedIsAttached

\* Accepting, losing and disconnecting clients keep the invariant.
LEMMA ListenerInductive == ListenerInv /\ [ListenerNext]_listenerVars => ListenerInv'
<1> SUFFICES ASSUME ListenerInv, [ListenerNext]_listenerVars PROVE ListenerInv'
    OBVIOUS
<1> USE DEF ListenerInv, SpawnedIsAttached
<1>1. ASSUME NEW s \in Sockets, TcpAccept(s) \/ WsAccept(s) \/ IncomingConnection(s) PROVE ListenerInv'
    BY <1>1 DEF TcpAccept, WsAccept, IncomingConnection, Accept
<1>2. ASSUME NEW s \in Sockets, SocketLost(s) PROVE ListenerInv'
    BY <1>2 DEF SocketLost
<1>3. ASSUME NEW s \in Sockets, SpawnedLost(s) PROVE ListenerInv'
    BY <1>3 DEF SpawnedLost, SpawnedAfterLoss
<1>4. ASSUME NEW i \in Ips, FlapExpires(i) PROVE ListenerInv'
    BY <1>4 DEF FlapExpires
<1>5. CASE TcpServerDisconnect \/ BackboneServerDisconnect
    BY <1>5 DEF TcpServerDisconnect, BackboneServerDisconnect, DisconnectSpawned
<1>6. CASE WsServerDisconnect
    BY <1>6 DEF WsServerDisconnect, DisconnectSpawned
<1>7. CASE UNCHANGED listenerVars
    BY <1>7 DEF listenerVars
<1> QED
    BY <1>1, <1>2, <1>3, <1>4, <1>5, <1>6, <1>7 DEF ListenerNext

\* What a Backbone or WebSocket server would disconnect is what the transport still uses, for
\* any number of connections and addresses.
THEOREM ListenerSafety == ListenerInit /\ [][ListenerNext]_listenerVars => []SpawnedIsAttached
<1>1. ListenerInv => SpawnedIsAttached
    BY DEF ListenerInv
<1> QED
    BY ListenerInitially, ListenerInductive, <1>1, PTL
-----------------------------------------------------------------------------
\* UDP.

\* A stopped interface has no stream, and its stop has begun.
UdpInv == udStopped \in BOOLEAN /\ udStream \in BOOLEAN /\ (udStopped => ~udStream /\ udPc # "idle")

\* The stream stays closed once disconnect() has closed it.
LEMMA UdpInductive == UdpInv /\ [UdpNext]_udpVars => UdpInv'
<1> SUFFICES ASSUME UdpInv, [UdpNext]_udpVars PROVE UdpInv'
    OBVIOUS
<1>1. CASE UdpConnect
  <2>1. udStopped' = udStopped /\ (udStream' = udStream \/ (udStream' = TRUE /\ ~udStopped))
    BY <1>1 DEF UdpConnect
  <2>2. udStopped => udPc' # "idle"
    BY <1>1 DEF UdpInv, UdpConnect
  <2>3. udStream' \in BOOLEAN /\ (udStopped => ~udStream')
    <3>1. CASE udStream' = udStream
        BY <3>1 DEF UdpInv
    <3>2. CASE udStream' = TRUE /\ ~udStopped
        BY <3>2
    <3> QED
        BY <2>1, <3>1, <3>2
  <2> QED
    BY <2>1, <2>2, <2>3 DEF UdpInv
<1>2. CASE UdpDisconnect
    BY <1>2 DEF UdpInv, UdpDisconnect
<1>3. CASE UdpOnMessage \/ UdpOpened \/ UdpProcessOutgoing \/ UdpSealed \/ UNCHANGED udpVars
    BY <1>3 DEF UdpInv, UdpOnMessage, UdpOpened, UdpProcessOutgoing, UdpSealed, udpVars
<1> QED
    BY <1>1, <1>2, <1>3 DEF UdpNext

\* A step after disconnect() hands nothing to the transport.
LEMMA UdpStep == UdpInv /\ [UdpNext]_udpVars => [udStopped => udGot' = udGot]_udpVars
BY DEF UdpInv, udpVars, UdpNext, UdpConnect, UdpOnMessage, UdpOpened, UdpProcessOutgoing, UdpSealed, UdpDisconnect

\* No datagram is pushed into the stream of a disconnected UDP interface, for any traffic.
THEOREM UdpSafety == UdpInit /\ [][UdpNext]_udpVars => NothingAfterClose
<1>1. UdpInit => UdpInv
    BY DEF UdpInit, UdpInv
<1> QED
    BY <1>1, UdpInductive, UdpStep, PTL DEF NothingAfterClose
-----------------------------------------------------------------------------
\* The radio.

\* BeaconIsComing, with the type of what it depends on; a field is reported only when fresh.
RadioInv ==
    /\ rnQueue \in Seq({"data", "beacon"}) /\ rnFirstTx \in BOOLEAN /\ rnIdTimer \in BOOLEAN
    /\ rnReports \in [RadioFields -> {"none", "ok", "bad"}]
    /\ \A f \in RadioFields : rnReports[f] # "none" => f \in rnFresh
    /\ BeaconIsComing

\* The initial state: nothing sent, nothing reported.
LEMMA RadioInitially == RadioInit => RadioInv
<1> SUFFICES ASSUME RadioInit PROVE RadioInv
    OBVIOUS
<1>1. rnQueue \in Seq({"data", "beacon"})
    BY DEF RadioInit
<1>4. rnFirstTx \in BOOLEAN /\ rnIdTimer \in BOOLEAN
    BY DEF RadioInit
<1>2. rnReports \in [RadioFields -> {"none", "ok", "bad"}]
      /\ \A f \in RadioFields : rnReports[f] # "none" => f \in rnFresh
    BY DEF RadioInit
<1>3. BeaconIsComing
    BY DEF RadioInit, BeaconIsComing
<1> QED
    BY <1>1, <1>2, <1>3, <1>4 DEF RadioInv

\* A step that transmits, queues or takes from the queue keeps a beacon coming.
LEMMA TransmitKeeps ==
    ASSUME RadioInv, NEW item \in {"data", "beacon"}, NEW armed \in BOOLEAN, Transmit(item, armed),
           item = "beacon" \/ armed = rnIdTimer
    PROVE  (rnQueue \in Seq({"data", "beacon"}) /\ rnFirstTx \in BOOLEAN /\ rnIdTimer \in BOOLEAN /\ BeaconIsComing)'
<1>1. CASE rnOnline /\ rnReady
    BY <1>1 DEF Transmit, NoteTransmission, RadioInv, BeaconIsComing
<1>2. CASE ~(rnOnline /\ rnReady)
  <2>1. rnQueue' = Append(rnQueue, item) /\ rnIdTimer' = armed /\ rnFirstTx' = rnFirstTx
    BY <1>2 DEF Transmit
  <2>2. rnQueue' \in Seq({"data", "beacon"}) /\ Len(rnQueue') = Len(rnQueue) + 1
        /\ rnQueue'[Len(rnQueue) + 1] = item
        /\ \A i \in 1..Len(rnQueue) : rnQueue'[i] = rnQueue[i]
    BY <2>1 DEF RadioInv
  <2>3. CASE item = "beacon"
    BY <2>1, <2>2, <2>3 DEF RadioInv, BeaconIsComing
  <2>4. CASE item # "beacon"
    BY <2>1, <2>2, <2>4 DEF RadioInv, BeaconIsComing
  <2> QED
    BY <2>3, <2>4
<1> QED
    BY <1>1, <1>2

\* Every step of the driver and of the device keeps the invariant.
LEMMA RadioInductive == RadioInv /\ [RadioNext]_radioVars => RadioInv'
<1> SUFFICES ASSUME RadioInv, [RadioNext]_radioVars PROVE RadioInv'
    OBVIOUS
<1>quiet. ASSUME UNCHANGED <<rnReports, rnFresh>>, UNCHANGED rnQueue,
             \/ UNCHANGED <<rnFirstTx, rnIdTimer>>
             \/ CloseTransportSafely
      PROVE  RadioInv'
  <2>1. rnFirstTx' \in BOOLEAN /\ rnIdTimer' \in BOOLEAN
    BY <1>quiet DEF CloseTransportSafely, RadioInv
  <2>2. CASE UNCHANGED <<rnFirstTx, rnIdTimer>>
    BY <1>quiet, <2>2 DEF RadioInv, BeaconIsComing
  <2>3. CASE CloseTransportSafely
    BY <1>quiet, <2>1, <2>3 DEF CloseTransportSafely, RadioInv, BeaconIsComing
  <2> QED
    BY <1>quiet, <2>2, <2>3
<1>1. CASE RadioEstablish \/ ConfigureFails \/ RadioDisconnect
    BY <1>1, <1>quiet DEF RadioEstablish, ConfigureFails, RadioDisconnect, queueVars
<1>2. CASE ConfigureDevice \/ RadioUp \/ ReadLoopLost
    BY <1>2, <1>quiet DEF ConfigureDevice, RadioUp, ReadLoopLost, queueVars
<1>open. CASE OpenTransport
  <2>1. rnReports' = [f \in RadioFields |-> "none"] /\ UNCHANGED <<rnQueue, rnFirstTx, rnIdTimer>>
    BY <1>open DEF OpenTransport, ResetRadioState
  <2>2. BeaconIsComing'
    BY <2>1 DEF RadioInv, BeaconIsComing
  <2> QED
    BY <2>1, <2>2 DEF RadioInv
<1>3. CASE HandleCommandByte \/ HandleMultiByteCommand
    BY <1>3 DEF HandleCommandByte, HandleMultiByteCommand, Reported, queueVars, RadioInv, BeaconIsComing
<1>4. CASE RadioSend
    BY <1>4, TransmitKeeps DEF RadioSend, RadioInv
<1>5. CASE SendIdBeacon
    BY <1>5, TransmitKeeps DEF SendIdBeacon, RadioInv
<1>6. CASE ProcessQueue
  <2>1. CASE rnQueue = << >>
    BY <1>6, <2>1 DEF ProcessQueue, RadioInv, BeaconIsComing
  <2>2. CASE rnQueue # << >>
    <3>1. /\ Tail(rnQueue) \in Seq({"data", "beacon"}) /\ Head(rnQueue) \in {"data", "beacon"}
          /\ Head(rnQueue) = rnQueue[1] /\ Len(Tail(rnQueue)) = Len(rnQueue) - 1
          /\ \A i \in 1..Len(Tail(rnQueue)) : Tail(rnQueue)[i] = rnQueue[i + 1]
        BY <2>2 DEF RadioInv
    <3>2. rnQueue' = Tail(rnQueue) /\ NoteTransmission(Head(rnQueue), rnIdTimer)
          /\ UNCHANGED <<rnReports, rnFresh>>
        BY <1>6, <2>2 DEF ProcessQueue
    <3>3. CASE Head(rnQueue) = "beacon"
        BY <3>1, <3>2, <3>3 DEF NoteTransmission, RadioInv, BeaconIsComing
    <3>4. CASE Head(rnQueue) # "beacon"
      <4>1. ASSUME NEW i \in DOMAIN rnQueue, rnQueue[i] = "beacon"
            PROVE  \E j \in DOMAIN Tail(rnQueue) : Tail(rnQueue)[j] = "beacon"
        <5>1. i \in 1..Len(rnQueue) /\ i # 1
            BY <3>1, <3>4, <4>1 DEF RadioInv
        <5>2. i - 1 \in 1..Len(Tail(rnQueue)) /\ Tail(rnQueue)[i - 1] = rnQueue[i]
            BY <3>1, <5>1 DEF RadioInv
        <5> QED
            BY <3>1, <4>1, <5>2
      <4>2. rnFirstTx' = TRUE /\ rnIdTimer' = (rnIdTimer \/ ~rnFirstTx)
            /\ rnQueue' = Tail(rnQueue) /\ rnReports' = rnReports /\ rnFresh' = rnFresh
        BY <3>2, <3>4 DEF NoteTransmission
      <4>3. BeaconIsComing'
        BY <4>1, <4>2 DEF RadioInv, BeaconIsComing
      <4> QED
        BY <3>1, <4>2, <4>3 DEF RadioInv
    <3> QED
        BY <3>3, <3>4
  <2> QED
    BY <2>1, <2>2
<1>7. CASE UNCHANGED radioVars
    BY <1>7 DEF radioVars, RadioInv, BeaconIsComing
<1> QED
    BY <1>1, <1>2, <1>open, <1>3, <1>4, <1>5, <1>6, <1>7 DEF RadioNext

\* The interface comes online only on values reported on this connection.
LEMMA RadioStep ==
    RadioInv /\ [RadioNext]_radioVars => [~rnOnline /\ rnOnline' => RadioFields \ {"firmware"} \subseteq rnFresh]_radioVars
<1> SUFFICES ASSUME RadioInv, RadioNext, ~rnOnline, rnOnline'
             PROVE  RadioFields \ {"firmware"} \subseteq rnFresh
    OBVIOUS
<1>1. RadioUp
    BY DEF RadioNext, RadioEstablish, OpenTransport, ConfigureDevice, ConfigureFails, ReadLoopLost, RadioDisconnect,
           HandleCommandByte, HandleMultiByteCommand, Reported, RadioSend, SendIdBeacon, ProcessQueue
<1> QED
    BY <1>1 DEF RadioUp, RadioInv

\* A radio that has transmitted identifies itself, and is online only with a device that has
\* confirmed its configuration: for any fields, traffic and number of reconnections.
THEOREM RadioSafety == RadioInit /\ [][RadioNext]_radioVars => RadioIsLawful
<1>1. RadioInv => BeaconIsComing
    BY DEF RadioInv
<1> QED
    BY RadioInitially, RadioInductive, RadioStep, <1>1, PTL DEF RadioIsLawful, ValidatedAfresh
-----------------------------------------------------------------------------
\* Discovery.

\* A record is one of its four fields.
IsRecord(r) == r = [heard |-> r.heard, age |-> r.age, source |-> r.source, none |-> r.none]

\* What memory may hold when m is in memory and d in storage.
Same(m, d) == m = d \/ m = Sanitized(d)

\* Before the stored records were read nothing is in memory or under way; after it,
\* a record that is neither being saved nor being deleted is the same in both places.
NothingYet ==
    /\ dcStore = [k \in Found |-> Unknown] /\ dcChain = << >>
    /\ dcSaving = {} /\ dcListing = {} /\ dcDeleting = {} /\ dcListeners = 0

\* Memory and disk agree but for what is being saved or deleted, or was and failed.
InStep ==
    /\ \A s \in dcSaving : s.key \in Found => Same(dcStore[s.key], s.record) /\ s.key \notin dcDeleting
    /\ \A k \in dcDeleting : dcStore[k] = Unknown
    /\ \A k \in Found : Same(dcStore[k], dcDisk[k]) \/ k \in dcFailed \/ k \in dcDeleting \/ \E s \in dcSaving : s.key = k

\* Until two hydrations cross, nothing is loaded or memory and disk are in step.
StorageInv ==
    /\ DOMAIN dcStore = Found /\ DOMAIN dcDisk = Found /\ dcDeleting \subseteq Found
    /\ dcListeners \in Nat /\ dcHydrating \in Nat /\ (dcHeld => dcListeners > 0)
    /\ dcCrossed \in BOOLEAN
    /\ \A k \in Found : IsRecord(dcStore[k]) /\ IsRecord(dcDisk[k])
    /\ \A s \in dcSaving : s = [key |-> s.key, record |-> s.record] /\ IsRecord(s.record)
    /\ \A s, t \in dcSaving : s = t
    /\ dcCrossed \/ NothingYet \/ InStep

\* Time and sanitizing keep a record one, and do not get in each other's way.
LEMMA RecordsStay ==
    ASSUME NEW r, IsRecord(r)
    PROVE  /\ IsRecord(Older(r)) /\ IsRecord(Sanitized(r))
           /\ Sanitized(Sanitized(r)) = Sanitized(r) /\ Older(Sanitized(r)) = Sanitized(Older(r))
<1>0. PICK f : f = FALSE
    OBVIOUS
<1>1. PICK h, a, c, n : r = [heard |-> h, age |-> a, source |-> c, none |-> n]
    BY DEF IsRecord
<1>2. ASSUME NEW x PROVE Sanitized(x) = [x EXCEPT !.none = f]
    BY <1>0, Zenon DEF Sanitized
<1>3. Sanitized(r) = [heard |-> h, age |-> a, source |-> c, none |-> f]
    BY <1>1, <1>2
<1>4. CASE a > RemoveAge
    BY <1>1, <1>2, <1>3, <1>4 DEF Older, IsRecord
<1>5. CASE ~(a > RemoveAge)
  <2>1. Older(r) = [heard |-> h, age |-> a + 1, source |-> c, none |-> n]
    BY <1>1, <1>5 DEF Older
  <2>2. Older(Sanitized(r)) = [heard |-> h, age |-> a + 1, source |-> c, none |-> f]
    BY <1>3, <1>5 DEF Older
  <2>3. Sanitized(Older(r)) = [heard |-> h, age |-> a + 1, source |-> c, none |-> f]
    BY <1>2, <2>1
  <2>4. Sanitized(Sanitized(r)) = Sanitized(r)
    BY <1>2, <1>3
  <2> QED
    BY <1>1, <1>3, <2>1, <2>2, <2>3, <2>4 DEF IsRecord
<1> QED
    BY <1>4, <1>5

\* Time does not touch an absent record, and there is nothing to sanitize in it.
LEMMA UnknownStays == IsRecord(Unknown) /\ Older(Unknown) = Unknown /\ Sanitized(Unknown) = Unknown
<1>0. PICK f : f = FALSE
    OBVIOUS
<1>1. Unknown = [heard |-> MaxOffers + 1, age |-> RemoveAge + 1, source |-> "nobody", none |-> f]
    BY <1>0, Zenon DEF Unknown
<1>2. Sanitized(Unknown) = [Unknown EXCEPT !.none = f]
    BY <1>0, Zenon DEF Sanitized
<1>3. IsRecord(Unknown) /\ Older(Unknown) = Unknown
    BY <1>1, DiscoveryAssumption DEF Older, IsRecord
<1>4. Sanitized(Unknown) = Unknown
    BY <1>1, <1>2
<1> QED
    BY <1>3, <1>4

LEMMA SameStays ==
    ASSUME NEW m, NEW d, IsRecord(d), Same(m, d)
    PROVE  Same(Sanitized(m), d) /\ Same(Older(m), Older(d))
    BY RecordsStay DEF Same

\* The initial state: nothing is in memory yet.
LEMMA StorageInitially == DiscoveryInit => StorageInv
<1> SUFFICES ASSUME DiscoveryInit PROVE StorageInv
    OBVIOUS
<1>1. DOMAIN dcStore = Found /\ DOMAIN dcDisk = Found
    BY DEF DiscoveryInit
<1>2. NothingYet
    BY DEF DiscoveryInit, NothingYet
<1>3. \A k \in Found : IsRecord(dcStore[k]) /\ IsRecord(dcDisk[k])
  <2>1. ASSUME NEW r \in [heard : {0}, age : {0}, source : {"former"}, none : BOOLEAN] PROVE IsRecord(r)
    BY DEF IsRecord
  <2> QED
    BY <2>1, UnknownStays DEF DiscoveryInit
<1> QED
    BY <1>1, <1>2, <1>3 DEF DiscoveryInit, StorageInv

\* Sanitizing what is in memory keeps it in step.
LEMMA SanitizingKeeps ==
    ASSUME StorageInv, NEW clean, clean = [k \in Found |-> Sanitized(dcStore[k])]
    PROVE  /\ \A k \in Found : IsRecord(clean[k])
           /\ NothingYet => clean = dcStore
           /\ InStep => /\ \A s \in dcSaving : s.key \in Found => Same(clean[s.key], s.record)
                        /\ \A k \in dcDeleting : clean[k] = Unknown
                        /\ \A k \in Found : Same(dcStore[k], dcDisk[k]) => Same(clean[k], dcDisk[k])
<1>1. \A k \in Found : clean[k] = Sanitized(dcStore[k])
    OBVIOUS
<1>2. \A k \in Found : IsRecord(clean[k])
    BY <1>1, RecordsStay DEF StorageInv
<1>3. NothingYet => clean = dcStore
    BY <1>1, UnknownStays DEF NothingYet, StorageInv
<1>4. ASSUME InStep
      PROVE  /\ \A s \in dcSaving : s.key \in Found => Same(clean[s.key], s.record)
             /\ \A k \in dcDeleting : clean[k] = Unknown
             /\ \A k \in Found : Same(dcStore[k], dcDisk[k]) => Same(clean[k], dcDisk[k])
    BY <1>1, <1>4, SameStays, UnknownStays DEF InStep, StorageInv
<1> QED
    BY <1>2, <1>3, <1>4

\* Forgetting a record, and starting to delete it, keeps the invariant.
LEMMA ForgetKeeps ==
    ASSUME StorageInv, NEW k \in Found, NEW rest, NEW store, ForgetRecord(k, rest, store), dcDeleting = {}, ~NothingYet,
           store \in {dcStore, [q \in Found |-> Sanitized(dcStore[q])]}
    PROVE  StorageInv'
<1>1. PICK clean : clean = [q \in Found |-> Sanitized(dcStore[q])]
    OBVIOUS
<1>2. /\ DOMAIN store = Found /\ \A q \in Found : IsRecord(store[q])
      /\ InStep => /\ \A s \in dcSaving : s.key \in Found => Same(store[s.key], s.record)
                   /\ \A q \in Found : Same(dcStore[q], dcDisk[q]) => Same(store[q], dcDisk[q])
  <2>1. CASE store = dcStore
    BY <2>1 DEF StorageInv, InStep
  <2>2. CASE store = clean
    BY <1>1, <2>2, SanitizingKeeps
  <2> QED
    BY <1>1, <2>1, <2>2
<1>3. /\ dcDeleting' = {k} /\ dcStore' = [store EXCEPT ![k] = Unknown]
      /\ dcCrossed' = (dcCrossed \/ \E s \in dcSaving : s.key = k)
      /\ UNCHANGED <<dcDisk, dcChain, dcSaving, dcHydrating, dcListeners, dcHeld, dcFailed>>
    BY DEF ForgetRecord, lifeVars
<1>4. DOMAIN dcStore' = Found /\ dcStore'[k] = Unknown /\ \A q \in Found : q # k => dcStore'[q] = store[q]
    BY <1>2, <1>3
<1>5. \A q \in Found : IsRecord(dcStore'[q])
    BY <1>2, <1>4, UnknownStays
<1>6. dcCrossed' \in BOOLEAN
    BY <1>3
<1>7. dcCrossed' \/ InStep'
  <2>1. SUFFICES ASSUME ~dcCrossed' PROVE InStep'
    OBVIOUS
  <2>2. InStep /\ \A s \in dcSaving : s.key # k
    BY <1>3, <2>1 DEF StorageInv
  <2>3. \A s \in dcSaving : s.key \in Found => Same(dcStore'[s.key], s.record) /\ s.key \notin dcDeleting'
    BY <1>2, <1>3, <1>4, <2>2
  <2>4. \A q \in Found : Same(dcStore'[q], dcDisk[q]) \/ q \in dcFailed \/ q \in dcDeleting' \/ \E s \in dcSaving : s.key = q
    BY <1>2, <1>3, <1>4, <2>2 DEF InStep
  <2> QED
    BY <1>3, <1>4, <2>3, <2>4 DEF InStep
<1> QED
    BY <1>3, <1>4, <1>5, <1>6, <1>7 DEF StorageInv

\* Announces, saves, listings, faults and time keep the invariant.
LEMMA StorageInductive == StorageInv /\ [DiscoveryNext]_discoveryVars => StorageInv'
<1> SUFFICES ASSUME StorageInv, [DiscoveryNext]_discoveryVars PROVE StorageInv'
    OBVIOUS
<1>1. CASE Start
    BY <1>1 DEF Start, storeVars, listVars, StorageInv, InStep, NothingYet
<1>2. CASE \E read \in SUBSET Found : Hydrated(read)
  <2>0. PICK read \in SUBSET Found : Hydrated(read)
    BY <1>2
  <2>1. /\ DOMAIN dcStore' = Found /\ UNCHANGED <<dcDisk, dcSaving, dcDeleting>>
        /\ \A k \in Found : dcStore'[k] = IF k \notin read \/ dcDisk[k] = Unknown THEN dcStore[k] ELSE dcDisk[k]
        /\ dcListeners' \in Nat /\ dcHydrating' \in Nat /\ dcListeners' > 0
        /\ dcCrossed' = (dcCrossed \/ dcSaving # {} \/ dcDeleting # {})
        /\ dcFailed' = {k \in Found : k \notin read \/ (k \in dcFailed /\ dcDisk[k] = Unknown)}
    BY <2>0 DEF Hydrated, StorageInv
  <2>2. \A k \in Found : IsRecord(dcStore'[k]) /\ IsRecord(dcDisk'[k])
    BY <2>1 DEF StorageInv
  <2>3. dcCrossed' \/ InStep'
    <3>1. SUFFICES ASSUME ~dcCrossed' PROVE InStep'
      OBVIOUS
    <3>2. dcSaving' = {} /\ dcDeleting' = {} /\ (NothingYet \/ InStep) /\ dcSaving = {} /\ dcDeleting = {}
      BY <2>1, <3>1 DEF StorageInv
    <3>3. \A k \in Found : Same(dcStore'[k], dcDisk'[k]) \/ k \in dcFailed'
      <4> TAKE k \in Found
      <4>1. CASE k \notin read
        BY <2>1, <4>1
      <4>2. CASE k \in read /\ dcDisk[k] # Unknown
        BY <2>1, <4>2 DEF Same
      <4>3. CASE k \in read /\ dcDisk[k] = Unknown
        BY <2>1, <3>2, <4>3 DEF Same, InStep, NothingYet
      <4> QED
        BY <4>1, <4>2, <4>3
    <3> QED
      BY <3>2, <3>3 DEF InStep
  <2> QED
    BY <2>1, <2>2, <2>3 DEF StorageInv
<1>3. CASE Stop
    BY <1>3 DEF Stop, storeVars, listVars, StorageInv, InStep, NothingYet
<1>4. CASE \E o \in Offers : OnAnnounce(o)
  <2>1. PICK o \in Offers : OnAnnounce(o)
    BY <1>4
  <2>2. ASSUME NothingYet PROVE dcChain' = << >>
    <3>1. [i \in 1..0 |-> o] = << >>
        OBVIOUS
    <3> QED
        BY <2>1, <2>2, <3>1 DEF OnAnnounce, NothingYet
  <2> QED
    BY <2>1, <2>2 DEF OnAnnounce, storeVars, lifeVars, listVars, StorageInv, InStep, NothingYet
<1>5. CASE ProcessAnnounce
  <2>1. ~NothingYet
    BY <1>5 DEF ProcessAnnounce, NothingYet
  <2>2. CASE Accepts(Head(dcChain))
    <3> DEFINE o == Head(dcChain)
               r == Remembered(o)
               s == [key |-> o.key, record |-> r]
    <3>1. /\ dcStore' = [dcStore EXCEPT ![o.key] = r] /\ dcSaving' = {s} /\ dcSaving = {}
          /\ dcCrossed' = (dcCrossed \/ o.key \in dcDeleting)
          /\ UNCHANGED <<dcDisk, lifeVars, dcDeleting, dcFailed>>
        BY <1>5, <2>2 DEF ProcessAnnounce
    <3>2. IsRecord(r)
        BY DEF Remembered, IsRecord
    <3> HIDE DEF o, r
    <3>3. s.key = o.key /\ s.record = r /\ s = [key |-> s.key, record |-> s.record]
        OBVIOUS
    <3> HIDE DEF s
    <3> QED
        BY <2>1, <3>1, <3>2, <3>3 DEF lifeVars, StorageInv, InStep, Same
  <2>3. CASE ~Accepts(Head(dcChain))
    BY <1>5, <2>1, <2>3 DEF ProcessAnnounce, lifeVars, StorageInv, InStep
  <2> QED
    BY <2>2, <2>3
<1>6. CASE Persisted
  <2>1. PICK s \in dcSaving : /\ dcSaving' = dcSaving \ {s} /\ dcDisk' = [dcDisk EXCEPT ![s.key] = s.record]
                              /\ dcFailed' = dcFailed \ {s.key}
                              /\ UNCHANGED <<dcStore, dcChain, lifeVars, listVars, dcCount>>
    BY <1>6 DEF Persisted
  <2> QED
    BY <2>1 DEF lifeVars, listVars, StorageInv, InStep, NothingYet
<1>7. CASE PersistFails
  <2>1. PICK s \in dcSaving : /\ dcSaving' = dcSaving \ {s} /\ dcDisk' \in {dcDisk, [dcDisk EXCEPT ![s.key] = Unknown]}
                              /\ dcFailed' = dcFailed \cup {s.key}
                              /\ UNCHANGED <<dcStore, dcChain, lifeVars, listVars>>
    BY <1>7 DEF PersistFails
  <2>2. DOMAIN dcDisk' = Found /\ \A k \in Found : IsRecord(dcDisk'[k]) /\ (k # s.key => dcDisk'[k] = dcDisk[k])
    BY <2>1, UnknownStays DEF StorageInv
  <2> QED
    BY <2>1, <2>2 DEF lifeVars, listVars, StorageInv, InStep, NothingYet
<1>8. CASE ListCollects
  <2>1. PICK clean : clean = [k \in Found |-> Sanitized(dcStore[k])]
    OBVIOUS
  <2>2. /\ dcDeleting = {}
        /\ \/ \E k \in Found, rest \in SUBSET Found : dcStore[k] # Unknown /\ ForgetRecord(k, rest, clean)
           \/ dcStore' = clean /\ UNCHANGED <<dcDisk, dcChain, dcSaving, lifeVars, listVars, dcFailed>>
    BY <1>8, <2>1 DEF ListCollects
  <2>3. CASE \E k \in Found, rest \in SUBSET Found : dcStore[k] # Unknown /\ ForgetRecord(k, rest, clean)
    <3>1. PICK k \in Found, rest \in SUBSET Found : dcStore[k] # Unknown /\ ForgetRecord(k, rest, clean)
      BY <2>3
    <3>2. ~NothingYet
      BY <3>1 DEF NothingYet
    <3> QED
      BY <2>1, <2>2, <3>1, <3>2, ForgetKeeps
  <2>4. CASE dcStore' = clean /\ UNCHANGED <<dcDisk, dcChain, dcSaving, lifeVars, listVars, dcFailed>>
    <3>1. DOMAIN dcStore' = Found /\ \A k \in Found : IsRecord(dcStore'[k])
      BY <2>1, <2>4, SanitizingKeeps
    <3>2. NothingYet => NothingYet'
      BY <2>1, <2>4, SanitizingKeeps DEF NothingYet, lifeVars, listVars
    <3>3. InStep => InStep'
      BY <2>1, <2>4, SanitizingKeeps DEF InStep, listVars
    <3> QED
      BY <2>4, <3>1, <3>2, <3>3 DEF StorageInv, lifeVars, listVars
  <2> QED
    BY <2>2, <2>3, <2>4
<1>9. CASE \E k \in Found : ListForgets(k)
    BY <1>9, ForgetKeeps DEF ListForgets, NothingYet
<1>10. CASE ListDeleted
    BY <1>10, UnknownStays DEF ListDeleted, lifeVars, StorageInv, InStep, NothingYet, Same
<1>11. CASE TimePasses
  <2>1. /\ DOMAIN dcStore' = Found /\ DOMAIN dcDisk' = Found
        /\ \A k \in Found : dcStore'[k] = Older(dcStore[k]) /\ dcDisk'[k] = Older(dcDisk[k])
        /\ UNCHANGED <<dcChain, dcHydrating, dcListeners, dcHeld, dcListing, dcDeleting, dcCrossed, dcFailed>>
    BY <1>11 DEF TimePasses, lifeVars, listVars
  <2>2. dcSaving' = {[key |-> s.key, record |-> Older(s.record)] : s \in dcSaving}
    BY <1>11 DEF TimePasses, StorageInv
  <2>a. \A k \in Found : IsRecord(dcStore'[k]) /\ IsRecord(dcDisk'[k])
    BY <2>1, RecordsStay DEF StorageInv
  <2>3. CASE NothingYet
    BY <1>11, <2>1, <2>2, <2>3, <2>a, UnknownStays DEF TimePasses, StorageInv, NothingYet
  <2>4. CASE ~NothingYet
    <3>1. /\ \A s \in dcSaving' : s = [key |-> s.key, record |-> s.record] /\ IsRecord(s.record)
          /\ \A s, t \in dcSaving' : s = t
        BY <2>2, RecordsStay DEF StorageInv
    <3>2. ASSUME InStep PROVE InStep'
      <4>1. \A s \in dcSaving' : s.key \in Found => Same(dcStore'[s.key], s.record) /\ s.key \notin dcDeleting'
        BY <2>1, <2>2, <3>2, SameStays DEF InStep, StorageInv
      <4>2. \A k \in dcDeleting' : dcStore'[k] = Unknown'
        BY <2>1, <3>2, UnknownStays DEF StorageInv, InStep, Unknown
      <4>3. \A k \in Found : (\E s \in dcSaving : s.key = k) => \E s \in dcSaving' : s.key = k
        <5>1. ASSUME NEW s \in dcSaving
              PROVE  \E t \in dcSaving' : t.key = s.key
            <6> DEFINE t == [key |-> s.key, record |-> Older(s.record)]
            <6>1. t \in dcSaving'
                BY <2>2
            <6>2. t.key = s.key
                OBVIOUS
            <6> QED
                BY <6>1, <6>2
        <5> QED
            BY <5>1
      <4>4. \A k \in Found : Same(dcStore'[k], dcDisk'[k]) \/ k \in dcFailed' \/ k \in dcDeleting' \/ \E s \in dcSaving' : s.key = k
        BY <2>1, <3>2, <4>3, SameStays DEF InStep, StorageInv
      <4> QED
        BY <4>1, <4>2, <4>4 DEF InStep
    <3> QED
        BY <2>1, <2>a, <2>4, <3>1, <3>2 DEF StorageInv
  <2> QED
    BY <2>3, <2>4
<1>12. CASE UNCHANGED discoveryVars
    BY <1>12 DEF discoveryVars, StorageInv, InStep, NothingYet
<1> QED
    BY <1>1, <1>2, <1>3, <1>4, <1>5, <1>6, <1>7, <1>8, <1>9, <1>10, <1>11, <1>12 DEF DiscoveryNext

\* What the discovery store keeps follows what it remembers, for any announces, starts,
\* stops, listings and failures of single storage operations, as long as no removal and no
\* second start meets a save.
THEOREM StorageSafety == DiscoveryInit /\ [][DiscoveryNext]_discoveryVars => []StorageFollows
<1>1. StorageInv => StorageFollows
    BY DEF StorageInv, StorageFollows, NothingYet, InStep, Same
<1> QED
    BY StorageInitially, StorageInductive, <1>1, PTL

-----------------------------------------------------------------------------
\* Byte streams over a channel.

\* What a stream message carries, and whether it was compressed.
StreamMessages == [from : Nat, to : Nat, eof : BOOLEAN, packed : BOOLEAN]

\* The byte a message under way has to begin with, when the reader is open.
Due(i) == IF i = 1 THEN Len(sbRead) + 1 ELSE sbWire[i - 1].to + 1

\* The type of the stream's variables.
StreamTyped ==
    /\ sbChunks \in Nat /\ sbOffset \in 0..sbChunks
    /\ sbWire \in Seq(StreamMessages) /\ sbRead \in Seq(Nat)

\* What is under way continues what was read and ends where the writer is; between writes the
\* writer has sent everything, and nothing follows an EOF.
Continues ==
    /\ \A i \in 1..Len(sbWire) : sbWire[i].from = Due(i) /\ sbWire[i].to + 1 >= sbWire[i].from
    /\ Due(Len(sbWire) + 1) = sbOffset + 1

\* StreamIntact with what is under way: the bytes read are a prefix of those written, what
\* is on the wire continues them, and only the last message says that nothing follows.
StreamInv ==
    /\ StreamTyped
    /\ sbWriter # "writing" => sbOffset = sbChunks
    /\ \A i \in 1..Len(sbWire) : sbWire[i].eof => sbWriter = "closed" /\ i = Len(sbWire)
    /\ sbReader = "open" /\ ~sbDown => Continues
    /\ \A k \in 1..Len(sbRead) : sbRead[k] = k
    /\ sbReader = "done" => sbWriter = "closed" /\ Len(sbRead) = sbChunks

\* Nothing is written yet.
LEMMA StreamInitially == StreamInit => StreamInv
BY DEF StreamInit, StreamInv, StreamTyped, Continues, Due

\* A message carries at least one of the bytes that are left, and no more than those.
LEMMA WriteOneFits ==
    ASSUME NEW left \in Nat \ {0}, NEW w \in WriteOne(left)
    PROVE  w.sent \in 1..left /\ w.used = w.sent /\ w.packed \in BOOLEAN
<1> USE StreamAssumption
<1> DEFINE cap == Lesser(left, MaxChunkLen)
<1>0. cap \in 1..left
    BY DEF Lesser
<1> HIDE DEF cap
<1>1. ASSUME NEW t \in 1..3, cap \div t > MinCompress PROVE cap \div t \in 1..left
    <2>1. CASE t = 1 BY <1>0, <1>1, <2>1
    <2>2. CASE t = 2 BY <1>0, <1>1, <2>2
    <2>3. CASE t = 3 BY <1>0, <1>1, <2>3
    <2> QED BY <2>1, <2>2, <2>3
<1>2. CASE w \in {[sent |-> cap \div t, used |-> cap \div t, packed |-> TRUE] : t \in {u \in 1..3 : cap \div u > MinCompress}}
    <2>1. PICK t \in 1..3 : cap \div t > MinCompress /\ w = [sent |-> cap \div t, used |-> cap \div t, packed |-> TRUE]
        BY <1>2
    <2>2. w.packed \in BOOLEAN
        BY <2>1, Zenon
    <2> QED
        BY <1>1, <2>1, <2>2
<1>3. CASE w \in {[sent |-> k, used |-> k, packed |-> FALSE] : k \in {Lesser(cap, MaxDataLen)}}
    <2>1. PICK k : k \in 1..left /\ w = [sent |-> k, used |-> k, packed |-> FALSE]
        BY <1>0, <1>3 DEF Lesser
    <2>2. w.packed \in BOOLEAN
        BY <2>1, Zenon
    <2> QED
        BY <2>1, <2>2
<1> QED
    BY <1>2, <1>3 DEF WriteOne, cap

\* A message at the end of what is under way.
LEMMA SendKeeps ==
    ASSUME StreamTyped, NEW m \in StreamMessages, sbWire' = Append(sbWire, m), UNCHANGED <<sbRead, sbDown>>,
           Continues, m.from = sbOffset + 1, m.to = sbOffset', sbOffset' \in Nat, sbOffset' >= sbOffset
    PROVE  Continues'
<1>1. /\ Len(sbWire') = Len(sbWire) + 1 /\ sbWire'[Len(sbWire) + 1] = m
      /\ \A i \in 1..Len(sbWire) : sbWire'[i] = sbWire[i]
      /\ Len(sbWire) \in Nat /\ Len(sbRead) \in Nat /\ \A i \in 1..Len(sbWire) : sbWire[i] \in StreamMessages
    BY DEF StreamTyped
<1>2. sbRead' = sbRead /\ sbOffset \in Nat /\ m.from \in Nat /\ m.to \in Nat /\ m.to + 1 >= m.from
  <2>1. m.from \in Nat /\ m.to \in Nat
    BY DEF StreamMessages
  <2>2. sbOffset \in Nat
    BY DEF StreamTyped
  <2>3. ASSUME NEW a \in Nat, NEW b \in Nat, b >= a PROVE b + 1 >= a + 1
    BY <2>3
  <2>4. m.to + 1 >= m.from
    BY <2>2, <2>3
  <2> QED
    BY <2>1, <2>2, <2>4
<1>3. /\ \A i \in 1..Len(sbWire) : sbWire[i].from = Due(i) /\ sbWire[i].to + 1 >= sbWire[i].from
      /\ Due(Len(sbWire) + 1) = sbOffset + 1
    BY DEF Continues
<1>4. ASSUME NEW i \in 1..(Len(sbWire) + 1) PROVE Due(i)' = Due(i)
  <2>1. CASE i = 1
    BY <1>2, <2>1 DEF Due
  <2>2. CASE i # 1
    <3>1. i - 1 \in 1..Len(sbWire)
        BY <1>1, <2>2
    <3> QED
        BY <1>1, <2>2, <3>1 DEF Due
  <2> QED
    BY <2>1, <2>2
<1>5. ASSUME NEW i \in 1..Len(sbWire') PROVE sbWire'[i].from = Due(i)' /\ sbWire'[i].to + 1 >= sbWire'[i].from
  <2>1. i \in 1..(Len(sbWire) + 1)
    BY <1>1
  <2>2. CASE i \in 1..Len(sbWire)
    BY <1>1, <1>3, <1>4, <2>1, <2>2
  <2>3. CASE i = Len(sbWire) + 1
    BY <1>1, <1>2, <1>3, <1>4, <2>1, <2>3
  <2> QED
    BY <1>1, <2>1, <2>2, <2>3
<1>6. Due(Len(sbWire) + 1)' = sbOffset' + 1
  <2>1. Len(sbWire') + 1 # 1 /\ Len(sbWire') + 1 - 1 = Len(sbWire) + 1
    BY <1>1
  <2> QED
    BY <1>1, <2>1 DEF Due
<1> QED
    BY <1>5, <1>6 DEF Continues

\* Every step of the writer, the channel and the reader keeps the invariant.
LEMMA StreamInductive == StreamInv /\ [StreamNext]_streamVars => StreamInv'
<1> SUFFICES ASSUME StreamInv, [StreamNext]_streamVars PROVE StreamInv'
    OBVIOUS
<1> USE StreamAssumption
<1>1. ASSUME NEW n \in 1..MaxBytes, WriteChunk(n) PROVE StreamInv'
    BY <1>1 DEF WriteChunk, StreamInv, StreamTyped, Continues, Due
<1>2. CASE SendOne
    <2>1. PICK w \in WriteOne(sbChunks - sbOffset) :
              /\ sbWire' = Append(sbWire, [from |-> sbOffset + 1, to |-> sbOffset + w.sent, eof |-> FALSE, packed |-> w.packed])
              /\ sbOffset' = sbOffset + w.used
        BY <1>2 DEF SendOne
    <2> DEFINE m == [from |-> sbOffset + 1, to |-> sbOffset + w.sent, eof |-> FALSE, packed |-> w.packed]
    <2>2. w.sent \in 1..(sbChunks - sbOffset) /\ w.used = w.sent /\ w.packed \in BOOLEAN
        <3>1. sbChunks - sbOffset \in Nat \ {0}
            BY <1>2 DEF SendOne, StreamInv, StreamTyped
        <3> QED BY <2>1, <3>1, WriteOneFits
    <2>3. m \in StreamMessages /\ sbOffset' \in 0..sbChunks /\ m.to = sbOffset' /\ sbOffset' >= sbOffset
        <3>1. sbChunks \in Nat /\ sbOffset \in 0..sbChunks
            BY DEF StreamInv, StreamTyped
        <3>2. sbOffset + 1 \in Nat /\ sbOffset + w.sent \in 0..sbChunks
            BY ONLY <2>2, <3>1
        <3>3. m \in StreamMessages /\ m.to = sbOffset + w.sent
            BY <2>2, <3>1, <3>2 DEF StreamMessages
        <3> HIDE DEF m
        <3> QED BY ONLY <2>1, <2>2, <3>1, <3>2, <3>3
    <2> HIDE DEF m
    <2>4. StreamTyped'
        <3>1. StreamTyped /\ sbWire' = Append(sbWire, m) /\ UNCHANGED <<sbChunks, sbRead>>
            BY <1>2, <2>1 DEF SendOne, StreamInv, m
        <3>2. sbWire' \in Seq(StreamMessages)
            BY ONLY <2>3, <3>1 DEF StreamTyped
        <3> QED BY ONLY <2>3, <3>1, <3>2 DEF StreamTyped
    <2>5. sbReader' = "open" /\ ~sbDown' => Continues'
        <3>1. m.from = sbOffset + 1 BY DEF m
        <3>2. sbReader' = "open" /\ ~sbDown' => Continues /\ StreamTyped
            BY <1>2 DEF SendOne, StreamInv
        <3>3. sbWire' = Append(sbWire, m) /\ UNCHANGED <<sbRead, sbDown>> /\ sbOffset' \in Nat
            BY <1>2, <2>1, <2>3 DEF SendOne, m, StreamInv, StreamTyped
        <3> QED
            BY <2>3, <3>1, <3>2, <3>3, SendKeeps
    <2>6. \A i \in 1..Len(sbWire) : ~sbWire[i].eof
        BY <1>2 DEF SendOne, StreamInv
    <2>7. \A i \in 1..Len(sbWire') : ~sbWire'[i].eof
        BY <2>1, <2>6 DEF StreamInv, StreamTyped
    <2> QED
        BY <1>2, <2>4, <2>5, <2>7 DEF SendOne, StreamInv
<1>3. CASE WriteSettled \/ CloseWriter \/ AbortWriter
    BY <1>3 DEF WriteSettled, CloseWriter, AbortWriter, StreamInv, StreamTyped, Continues, Due
<1>4. CASE SendEof
    <2> DEFINE m == [from |-> sbOffset + 1, to |-> sbOffset, eof |-> TRUE, packed |-> FALSE]
    <2>1. m \in StreamMessages /\ m.from = sbOffset + 1 /\ m.to = sbOffset /\ sbOffset' = sbOffset /\ sbWire' = Append(sbWire, m)
        BY <1>4 DEF SendEof, StreamInv, StreamTyped, StreamMessages
    <2>2. StreamTyped'
        BY <1>4, <2>1 DEF SendEof, StreamInv, StreamTyped
    <2>3. sbReader' = "open" /\ ~sbDown' => Continues'
        <3>1. StreamTyped /\ UNCHANGED <<sbRead, sbDown, sbReader>> /\ (sbReader = "open" /\ ~sbDown => Continues)
            BY <1>4 DEF SendEof, StreamInv
        <3>2. sbOffset' \in Nat /\ sbOffset' >= sbOffset /\ m.to = sbOffset'
            BY <2>1, <3>1 DEF StreamTyped
        <3> HIDE DEF m
        <3> QED
            BY <2>1, <3>1, <3>2, SendKeeps
    <2>4. \A i \in 1..Len(sbWire') : sbWire'[i].eof => i = Len(sbWire')
        BY <1>4, <2>1 DEF SendEof, StreamInv, StreamTyped
    <2> QED
        BY <1>4, <2>2, <2>3, <2>4 DEF SendEof, StreamInv
<1>5. CASE Deliver
    <2> DEFINE m == Head(sbWire)
               bytes == [k \in 1..m.to + 1 - m.from |-> m.from + k - 1]
    <2>1. /\ m = sbWire[1] /\ m \in StreamMessages /\ Len(sbWire) >= 1 /\ Len(sbWire) \in Nat
          /\ Len(sbWire') = Len(sbWire) - 1 /\ \A i \in 1..Len(sbWire') : sbWire'[i] = sbWire[i + 1]
          /\ sbWire' \in Seq(StreamMessages) /\ Len(sbRead) \in Nat
        BY <1>5 DEF Deliver, StreamInv, StreamTyped
    <2>2. /\ UNCHANGED <<sbChunks, sbOffset, sbWriter, sbDown>> /\ ~sbDown
          /\ sbReader # "open" => UNCHANGED <<sbReader, sbRead>>
          /\ sbReader = "open" => /\ sbReader' = OnMessage(m)
                                  /\ sbRead' = IF OnMessage(m) = "failed" THEN sbRead ELSE sbRead \o bytes
        BY <1>5 DEF Deliver
    <2>3. m.from \in Nat /\ m.to \in Nat
        BY <2>1 DEF StreamMessages
    <2>4. OnMessage(m) \in {"failed", "done", "open"} /\ (OnMessage(m) = "done" => m.eof)
        BY DEF OnMessage
    <2>6. bytes = [k \in 1..(m.to + 1 - m.from) |-> m.from + k - 1]
        OBVIOUS
    <2> HIDE DEF m, bytes
    <2>5. ASSUME NEW i \in 1..Len(sbWire'), sbWire'[i].eof PROVE sbWriter' = "closed" /\ i = Len(sbWire')
        <3>1. i + 1 \in 1..Len(sbWire) /\ sbWire[i + 1].eof
            BY <2>1, <2>5
        <3> QED
            BY <2>1, <2>2, <3>1 DEF StreamInv
    <2>7. CASE sbReader # "open" \/ OnMessage(m) = "failed"
        <3>1. UNCHANGED sbRead /\ sbReader' # "open" /\ (sbReader' = "done" => sbReader = "done")
            BY <2>2, <2>7
        <3> QED
            BY <2>1, <2>2, <2>5, <3>1 DEF StreamInv, StreamTyped
    <2>8. CASE sbReader = "open" /\ OnMessage(m) # "failed"
        <3>1. Continues /\ m.from = Len(sbRead) + 1 /\ m.to + 1 >= m.from
            BY <2>1, <2>2, <2>8 DEF StreamInv, Continues, Due
        <3>2. m.to + 1 - m.from \in Nat
            BY <2>3, <3>1
        <3>3. bytes \in Seq(Nat) /\ Len(bytes) = m.to + 1 - m.from
            <4>1. bytes \in [1..(m.to + 1 - m.from) -> Nat]
                BY <2>3, <2>6, <3>2
            <4>2. bytes \in Seq(Nat)
                BY <3>2, <4>1, SeqDef
            <4> QED
                BY <3>2, <4>1, <4>2, LenProperties
        <3>4. \A k \in 1..Len(bytes) : bytes[k] = Len(sbRead) + k
            BY <2>1, <2>3, <2>6, <3>1, <3>3
        <3>5. sbRead' = sbRead \o bytes
            BY <2>2, <2>8
        <3>6. sbRead' \in Seq(Nat) /\ Len(sbRead') = m.to
            <4>1. sbRead \in Seq(Nat)
                BY DEF StreamInv, StreamTyped
            <4>2. sbRead' \in Seq(Nat) /\ Len(sbRead') = Len(sbRead) + Len(bytes)
                BY <3>3, <3>5, <4>1, ConcatProperties
            <4>3. Len(sbRead) \in Nat /\ m.to \in Nat
                BY <2>3, <4>1
            <4>4. Len(sbRead') = Len(sbRead) + (m.to + 1 - (Len(sbRead) + 1))
                BY <3>1, <3>3, <4>2
            <4> QED
                BY <4>2, <4>3, <4>4
        <3>7. \A k \in 1..Len(sbRead') : sbRead'[k] = k
            BY <2>1, <3>3, <3>4, <3>5, ConcatProperties DEF StreamInv, StreamTyped
        <3>8. StreamTyped'
            BY <2>1, <2>2, <3>6 DEF StreamInv, StreamTyped
        <3>9. Continues'
            <4>1. ASSUME NEW i \in 1..(Len(sbWire') + 1)
                  PROVE  (IF i = 1 THEN Len(sbRead') + 1 ELSE sbWire'[i - 1].to + 1) = Due(i + 1)
                <5>1. CASE i = 1
                    BY <2>1, <3>6, <5>1 DEF Due
                <5>2. CASE i # 1
                    <6>1. i - 1 \in 1..Len(sbWire') /\ (i - 1) + 1 = i /\ (i + 1) - 1 = i /\ i + 1 # 1
                        BY <2>1, <5>2
                    <6>2. sbWire'[i - 1] = sbWire[i]
                        BY <2>1, <6>1
                    <6> QED
                        BY <5>2, <6>1, <6>2 DEF Due
                <5> QED
                    BY <5>1, <5>2
            <4>2. Len(sbWire') + 1 = Len(sbWire) /\ Len(sbWire') \in Nat
                BY <2>1
            <4>3. ASSUME NEW i \in 1..Len(sbWire')
                  PROVE  sbWire'[i].from = (IF i = 1 THEN Len(sbRead') + 1 ELSE sbWire'[i - 1].to + 1) /\ sbWire'[i].to + 1 >= sbWire'[i].from
                <5>1. i + 1 \in 1..Len(sbWire) /\ i \in 1..(Len(sbWire') + 1) /\ sbWire'[i] = sbWire[i + 1]
                    BY <2>1, <4>2
                <5> QED
                    BY <3>1, <4>1, <5>1 DEF Continues
            <4>4. (IF Len(sbWire') + 1 = 1 THEN Len(sbRead') + 1 ELSE sbWire'[(Len(sbWire') + 1) - 1].to + 1) = sbOffset' + 1
                BY <2>2, <3>1, <4>1, <4>2 DEF Continues
            <4> QED
                BY <4>3, <4>4 DEF Continues, Due
        <3>10. m.eof => sbWriter = "closed" /\ m.to = sbChunks
            <4>1. m.eof => Len(sbWire) = 1 /\ sbWriter = "closed" /\ sbOffset = sbChunks
                BY <2>1 DEF StreamInv
            <4>2. Len(sbWire) = 1 => Due(Len(sbWire) + 1) = m.to + 1
                BY <2>1 DEF Due
            <4> QED
                BY <2>3, <3>1, <4>1, <4>2 DEF Continues, StreamInv, StreamTyped
        <3> QED
            BY <2>2, <2>4, <2>5, <2>8, <3>6, <3>7, <3>8, <3>9, <3>10 DEF StreamInv
    <2> QED
        BY <2>7, <2>8
<1>6. CASE CancelReader \/ UNCHANGED streamVars
    BY <1>6 DEF CancelReader, streamVars, StreamInv, StreamTyped, Continues, Due
<1>7. CASE ShutDown
    BY <1>7 DEF ShutDown, StreamInv, StreamTyped
<1> QED
    BY <1>1, <1>2, <1>3, <1>4, <1>5, <1>6, <1>7 DEF StreamNext, StreamStep

\* The reader gets the writer's bytes in order, without gaps or repeats, and a stream that ended
\* is complete: for any writes, message sizes and compression threshold.
THEOREM StreamSafety == StreamSpec => []StreamIntact
<1>1. StreamInv => StreamIntact
    BY DEF StreamInv, StreamTyped, StreamIntact
<1> QED
    BY StreamInitially, StreamInductive, <1>1, PTL DEF StreamSpec

-----------------------------------------------------------------------------
\* Destinations: announces, the ratchet ring and the decryption of data packets.

\* A ratchet ring, newest first; ratchets are numbered as they are made.
Rings == Seq(Int)

\* The state of the decryption of a data packet.
DataStates == [pc : {"idle", "opening", "reading", "read", "retrying", "proving"}, key : Int,
               opens : BOOLEAN, fresh : BOOLEAN, ring : Rings]

\* The state of an announce.
TaskStates == [pc : {"idle", "rotating", "saving", "signing", "ready"}, gen : Int, tag : Tags \cup {"none"},
               ratchet : Int, ring : Rings, target : Int]

\* The type of the destination's variables; no ring that is saved or read is empty.
DestinationTyped ==
    /\ dsGen \in Nat /\ dsMade \in Nat
    /\ dsRing \in Rings /\ dsStored \in Rings /\ dsRing # << >> /\ dsStored # << >>
    /\ dsCache \in [Tags -> Int]
    /\ dsTask \in [Emitters -> TaskStates]
    /\ dsAir \subseteq [ratchet : Int, late : BOOLEAN]
    /\ dsData \in DataStates
    /\ \A e \in Emitters : dsTask[e].pc = "saving" => dsTask[e].ring # << >>
    /\ dsData.pc = "read" => dsData.ring # << >>

\* A ratchet is never further back in the ring than its age allows.
RingAged ==
    /\ Len(dsRing) <= MaxRatchets
    /\ \A i \in 1..Len(dsRing) : dsRing[i] + i <= dsMade + 1

\* Unless the ring was replaced from outside, a recent ratchet is in it.
Held(r) == ~dsReplaced => r <= dsMade /\ (Recent(r) => \E i \in DOMAIN dsRing : dsRing[i] = r)

\* The announces of a cadence that are under way belong to the present one only while it runs.
CadenceInv == \A e \in Emitters : dsTask[e].pc # "idle" /\ dsTask[e].gen # Unscheduled =>
    /\ dsTask[e].gen <= dsGen
    /\ dsTask[e].gen = dsGen => dsTimer

\* AnnouncesAreKept, for the announces that are under way and cached as well as those on air,
\* with the age of every ratchet in the ring and the cadence the announces belong to.
DestinationInv ==
    /\ DestinationTyped
    /\ ~dsReplaced => RingAged
    /\ \A a \in dsAir : ~a.late /\ Held(a.ratchet)
    /\ \A t \in Tags : Held(dsCache[t])
    /\ \A e \in Emitters : dsTask[e].pc \in {"signing", "ready"} => Held(dsTask[e].ratchet)
    /\ CadenceInv
    /\ ~dsRefused
    /\ dsData.fresh => dsData.pc = "opening" /\ dsData.opens

\* One ratchet, and nothing announced.
LEMMA DestinationInitially == DestinationInit => DestinationInv
<1> SUFFICES ASSUME DestinationInit PROVE DestinationInv
    OBVIOUS
<1> USE DestinationAssumption DEF DestinationInit
<1>1. DestinationTyped
    BY DEF DestinationTyped, TaskStates, DataStates, Rings, IdleEmitter, NoData, IdentityKey, NoResponse
<1>2. RingAged
    BY DEF RingAged
<1>3. \A t \in Tags : Held(dsCache[t])
    BY DEF Held, Recent, NoResponse
<1> QED
    BY <1>1, <1>2, <1>3 DEF DestinationInv, CadenceInv, IdleEmitter, NoData

\* What is in the ring is there.
LEMMA HeadIsHeld ==
    ASSUME DestinationTyped, ~dsReplaced => RingAged PROVE Head(dsRing) \in Int /\ Held(Head(dsRing))
<1>1. 1 \in DOMAIN dsRing /\ 1 \in 1..Len(dsRing) /\ Head(dsRing) = dsRing[1] /\ dsRing[1] \in Int
    BY DEF DestinationTyped, TaskStates, Rings
<1>2. ~dsReplaced => dsRing[1] <= dsMade
    BY <1>1 DEF RingAged, DestinationTyped, TaskStates
<1> QED
    BY <1>1, <1>2 DEF Held

\* A task that starts.
LEMMA EmitKeeps ==
    ASSUME DestinationInv, NEW e \in Emitters, NEW gen \in Int, NEW tag \in Tags \cup {"none"}, EmitAnnounce(e, gen, tag),
           UNCHANGED <<dsCache, dsAir, ringVars>>, dsGen' \in Nat, dsGen <= dsGen',
           dsGen' = dsGen => (dsTimer => dsTimer'),
           gen # Unscheduled => gen = dsGen' /\ dsTimer'
    PROVE  DestinationInv'
<1> DEFINE b == Begun(gen, tag)
<1>1. DestinationTyped /\ dsTask' = [dsTask EXCEPT ![e] = b]
    BY DEF DestinationInv, EmitAnnounce
<1>2. /\ b \in TaskStates
      /\ b.pc # "saving" /\ b.gen = gen
      /\ b.pc \in {"signing", "ready"} => Held(b.ratchet)
    <2> DEFINE cached == tag \in Tags /\ dsCache[tag] # NoResponse
               pc == IF cached THEN "ready" ELSE IF dsDue THEN "rotating" ELSE "signing"
               ratchet == IF cached THEN dsCache[tag] ELSE IF dsDue THEN 0 ELSE Head(dsRing)
    <2>0. b = [IdleEmitter EXCEPT !.gen = gen, !.tag = tag, !.pc = pc, !.ratchet = ratchet]
        BY Zenon DEF Begun
    <2>1. b = [pc |-> pc, gen |-> gen, tag |-> tag, ratchet |-> ratchet, ring |-> << >>, target |-> 0]
        <3> HIDE DEF pc, ratchet, b
        <3> QED
            BY <2>0 DEF IdleEmitter
    <2>2. pc \in {"ready", "rotating", "signing"}
        OBVIOUS
    <2>3. ratchet \in Int
        BY <1>1, HeadIsHeld DEF DestinationTyped, TaskStates, DestinationInv
    <2>4. pc \in {"signing", "ready"} => Held(ratchet)
        BY <1>1, HeadIsHeld DEF DestinationInv
    <2>5. << >> \in Rings
        BY DEF Rings
    <2> HIDE DEF pc, ratchet, b
    <2> QED
        BY <2>1, <2>2, <2>3, <2>4, <2>5 DEF TaskStates
<1> HIDE DEF b
<1>3. UNCHANGED <<dsCache, dsAir, dsRing, dsMade, dsDue, dsStored, dsData, dsRefused, dsReplaced>>
    BY DEF ringVars, packetVars
<1>4. DestinationTyped'
    BY <1>1, <1>2, <1>3 DEF DestinationTyped, TaskStates
<1>5. \A r : Held(r)' <=> Held(r)
    BY <1>3 DEF Held, Recent
<1>6. (~dsReplaced => RingAged)'
    BY <1>3 DEF DestinationInv, RingAged
<1>7. \A f \in Emitters : dsTask'[f] = IF f = e THEN b ELSE dsTask[f]
    BY <1>1 DEF DestinationTyped, TaskStates
<1>8. CadenceInv'
    BY <1>1, <1>2, <1>7 DEF CadenceInv, DestinationInv, DestinationTyped, TaskStates, Unscheduled
<1>9. ASSUME NEW f \in Emitters, dsTask'[f].pc \in {"signing", "ready"} PROVE Held(dsTask'[f].ratchet)
    BY <1>2, <1>7, <1>9 DEF DestinationInv
<1> QED
    BY <1>3, <1>4, <1>5, <1>6, <1>8, <1>9 DEF DestinationInv

\* The ring keeps every ratchet that is still fresh: the one it drops was the oldest of a full
\* ring, and the new one makes it stale.
LEMMA RotationKeeps ==
    ASSUME DestinationInv, NEW e \in Emitters, RotateRatchets(e)
    PROVE  /\ dsRing' \in Rings /\ dsRing' # << >> /\ (~dsReplaced => RingAged')
           /\ \A r \in Int : Held(r) => Held(r)'
<1> DEFINE grown == <<dsMade + 1>> \o dsRing
           n == IF Len(grown) < MaxRatchets THEN Len(grown) ELSE MaxRatchets
<1>1. dsMade \in Nat /\ dsRing \in Seq(Int) /\ dsRing # << >> /\ Len(dsRing) \in Nat /\ dsMade' = dsMade + 1 /\ dsReplaced' = dsReplaced
    BY DEF DestinationInv, DestinationTyped, TaskStates, RotateRatchets, Rings
<1>2. CASE dsTask[e].target # 0
    <2>1. dsRing' = dsRing
        BY <1>2 DEF RotateRatchets
    <2>2. ~dsReplaced => RingAged'
        BY <1>1, <2>1 DEF DestinationInv, RingAged
    <2>3. ASSUME NEW r \in Int, Held(r) PROVE Held(r)'
        BY <1>1, <2>1, <2>3, DestinationAssumption DEF Held, Recent
    <2> QED
        BY <1>1, <2>1, <2>2, <2>3 DEF Rings
<1>3. CASE dsTask[e].target = 0
    <2>1. dsRing' = SubSeq(grown, 1, n)
        BY <1>3 DEF RotateRatchets, Newest
    <2>2. /\ grown \in Seq(Int) /\ Len(grown) = Len(dsRing) + 1 /\ grown[1] = dsMade + 1
          /\ \A i \in 1..Len(dsRing) : grown[i + 1] = dsRing[i]
        BY <1>1
    <2> HIDE DEF grown
    <2>3. n \in 1..Len(grown) /\ n <= MaxRatchets /\ (n = Len(dsRing) + 1 \/ n = MaxRatchets)
        BY <1>1, <2>2, DestinationAssumption
    <2> HIDE DEF n
    <2>4. dsRing' \in Seq(Int) /\ Len(dsRing') = n /\ \A i \in 1..n : dsRing'[i] = grown[i]
        BY <2>1, <2>2, <2>3, SubSeqProperties
    <2>5. ~dsReplaced => RingAged'
        <3> SUFFICES ASSUME ~dsReplaced PROVE RingAged'
            OBVIOUS
        <3>1. RingAged
            BY DEF DestinationInv
        <3>2. ASSUME NEW i \in 1..n PROVE dsRing'[i] + i <= dsMade' + 1
            <4>1. CASE i = 1
                BY <1>1, <2>2, <2>4, <4>1
            <4>2. CASE i # 1
                <5>1. PICK k \in 1..Len(dsRing) : i = k + 1
                    <6>1. i - 1 \in 1..Len(dsRing) /\ i = (i - 1) + 1
                        BY <1>1, <2>2, <2>3, <4>2
                    <6> QED
                        BY <6>1
                <5>2. dsRing'[i] = dsRing[k] /\ dsRing[k] \in Int
                    BY <1>1, <2>2, <2>4, <5>1
                <5>3. dsRing[k] + k <= dsMade + 1
                    BY <3>1, <5>1 DEF RingAged
                <5> QED
                    BY <1>1, <5>1, <5>2, <5>3
            <4> QED
                BY <4>1, <4>2
        <3> QED
            BY <2>3, <2>4, <3>2 DEF RingAged
    <2>6. ASSUME NEW r \in Int, Held(r) PROVE Held(r)'
        <3> SUFFICES ASSUME ~dsReplaced, Recent(r)' PROVE \E i \in DOMAIN dsRing' : dsRing'[i] = r
            BY <1>1, <2>6 DEF Held, Recent
        <3>1. r <= dsMade /\ r \in 1..dsMade /\ r + MaxRatchets > dsMade + 1
            BY <1>1, <2>6 DEF Held, Recent
        <3>2. PICK i \in 1..Len(dsRing) : dsRing[i] = r
            BY <1>1, <2>6, <3>1, DestinationAssumption DEF Held, Recent
        <3>3. r + i <= dsMade + 1 /\ Len(dsRing) <= MaxRatchets
            BY <3>2 DEF DestinationInv, RingAged
        <3>4. i + 1 <= MaxRatchets /\ i + 1 <= Len(dsRing) + 1 /\ i + 1 \in Nat
            BY ONLY <1>1, <3>1, <3>2, <3>3, DestinationAssumption
        <3>5. i + 1 \in 1..n /\ n \in Nat
            BY ONLY <1>1, <2>3, <3>2, <3>4
        <3>6. grown[i + 1] = r
            BY ONLY <2>2, <3>2
        <3>7. i + 1 \in DOMAIN dsRing' /\ dsRing'[i + 1] = r
            BY ONLY <2>4, <3>5, <3>6
        <3> QED
            BY <3>7
    <2> QED
        BY <2>3, <2>4, <2>5, <2>6 DEF Rings
<1> QED
    BY <1>2, <1>3 DEF DestinationInv, DestinationTyped, TaskStates

\* Every step of the destination, its tasks and its peers.
LEMMA DestinationInductive ==
    ASSUME DestinationInv, [DestinationNext]_destinationVars PROVE DestinationInv'
<1>1. ASSUME NEW e \in Emitters, Announce(e) PROVE DestinationInv'
    <2>1. PICK tag \in Tags \cup {"none"} : EmitAnnounce(e, Unscheduled, tag)
        BY <1>1 DEF Announce
    <2>2. UNCHANGED <<dsTimer, dsGen, dsCache, dsAir, ringVars>>
        BY <1>1 DEF Announce
    <2>3. dsGen' \in Nat /\ dsGen <= dsGen' /\ (dsGen' = dsGen => (dsTimer => dsTimer'))
        BY <2>2 DEF DestinationInv, DestinationTyped
    <2>4. Unscheduled \in Int
        BY DEF Unscheduled
    <2> QED
        BY ONLY DestinationInv, <2>1, <2>2, <2>3, <2>4, EmitKeeps
<1>2. ASSUME NEW e \in Emitters, ScheduledAnnounce(e) PROVE DestinationInv'
    BY <1>2, EmitKeeps DEF ScheduledAnnounce, DestinationInv, DestinationTyped, TaskStates
<1>3. CASE StartAnnouncing
    <2>1. CASE dsTimer /\ UNCHANGED dsTask
        <3>1. UNCHANGED <<dsCache, dsAir, dsRing, dsMade, dsDue, dsStored, dsData, dsRefused, dsReplaced>>
            BY <1>3 DEF StartAnnouncing, ringVars, packetVars
        <3>2. CadenceInv' /\ DestinationTyped'
            BY <1>3, <2>1, <3>1 DEF StartAnnouncing, DestinationInv, CadenceInv, DestinationTyped, TaskStates
        <3> QED
            BY <2>1, <3>1, <3>2 DEF DestinationInv, Held, Recent, RingAged
    <2>2. ASSUME NEW e \in Emitters, EmitAnnounce(e, dsGen + 1, "none") PROVE DestinationInv'
        <3>1. dsGen' = dsGen + 1 /\ dsTimer' /\ UNCHANGED <<dsCache, dsAir, ringVars>> /\ dsGen \in Nat
            BY <1>3 DEF StartAnnouncing, DestinationInv, DestinationTyped, TaskStates
        <3>2. dsGen + 1 \in Int /\ dsGen' \in Nat /\ dsGen <= dsGen' /\ dsGen' # dsGen
            BY <3>1
        <3> QED
            BY <2>2, <3>1, <3>2, EmitKeeps
    <2> QED
        BY <1>3, <2>1, <2>2 DEF StartAnnouncing
<1>4. CASE StopAnnouncing
    <2>1. UNCHANGED <<dsTask, dsCache, dsAir, dsRing, dsMade, dsDue, dsStored, dsData, dsRefused, dsReplaced>>
        BY <1>4 DEF StopAnnouncing, ringVars, packetVars
    <2>2. CadenceInv' /\ DestinationTyped'
        BY <1>4, <2>1 DEF StopAnnouncing, DestinationInv, CadenceInv, DestinationTyped, TaskStates
    <2> QED
        BY <2>1, <2>2 DEF DestinationInv, Held, Recent, RingAged
<1>5. CASE IntervalPasses
    BY <1>5 DEF IntervalPasses, packetVars, DestinationInv, DestinationTyped, TaskStates, CadenceInv, Held, Recent, RingAged
<1>6. ASSUME NEW e \in Emitters, RotateRatchets(e) PROVE DestinationInv'
    <2>1. /\ dsMade' = dsMade + 1
          /\ dsTask' = [dsTask EXCEPT ![e].pc = "saving", ![e].ring = dsRing']
          /\ UNCHANGED <<dsTimer, dsGen, dsStored, dsCache, dsAir, dsData, dsRefused, dsReplaced, dsCount>>
        BY <1>6 DEF RotateRatchets
    <2>2. dsRing' \in Rings /\ dsRing' # << >> /\ (~dsReplaced => RingAged') /\ \A r \in Int : Held(r) => Held(r)'
        BY <1>6, RotationKeeps
    <2>3. DestinationTyped'
        <3>1. dsTask' \in [Emitters -> TaskStates]
            BY <2>1, <2>2 DEF DestinationInv, DestinationTyped, TaskStates
        <3>2. \A f \in Emitters : dsTask'[f].pc = "saving" => dsTask'[f].ring # << >>
            BY <2>1, <2>2 DEF DestinationInv, DestinationTyped, TaskStates
        <3> QED
            BY <2>1, <2>2, <3>1, <3>2 DEF DestinationInv, DestinationTyped
    <2>4. CadenceInv'
        BY <2>1, <1>6 DEF DestinationInv, DestinationTyped, TaskStates, CadenceInv, RotateRatchets
    <2>5. ASSUME NEW a \in dsAir PROVE ~a.late /\ Held(a.ratchet)'
        <3>1. a.ratchet \in Int
            BY DEF DestinationInv, DestinationTyped, TaskStates
        <3>2. ~a.late /\ Held(a.ratchet)
            BY DEF DestinationInv
        <3>3. \A r \in Int : Held(r) => Held(r)'
            BY <2>2
        <3> QED
            BY <3>1, <3>2, <3>3
    <2>6. ASSUME NEW t \in Tags PROVE Held(dsCache[t])'
        <3>1. dsCache'[t] = dsCache[t] /\ dsCache[t] \in Int /\ Held(dsCache[t])
            BY <2>1 DEF DestinationInv, DestinationTyped, TaskStates
        <3> QED
            BY <2>2, <3>1
    <2>7. ASSUME NEW f \in Emitters, dsTask'[f].pc \in {"signing", "ready"} PROVE dsTask'[f] = dsTask[f] /\ Held(dsTask[f].ratchet)'
        <3>1. dsTask'[f] = dsTask[f] /\ dsTask[f].ratchet \in Int /\ Held(dsTask[f].ratchet)
            BY <2>1, <2>7 DEF DestinationInv, DestinationTyped, TaskStates
        <3> QED
            BY <2>2, <3>1
    <2> QED
        BY <2>1, <2>2, <2>3, <2>4, <2>5, <2>6, <2>7 DEF DestinationInv
<1>7. ASSUME NEW e \in Emitters, RatchetsSaved(e) PROVE DestinationInv'
    <2>1. /\ dsTask' = [dsTask EXCEPT ![e].pc = "signing", ![e].ratchet = Head(dsRing), ![e].ring = << >>]
          /\ UNCHANGED <<dsTimer, dsGen, dsRing, dsMade, dsDue, dsCache, dsAir, dsData, dsRefused, dsReplaced, dsCount>>
          /\ dsStored' \in {dsTask[e].ring, dsStored} /\ dsTask[e].pc = "saving"
        BY <1>7 DEF RatchetsSaved
    <2>2. Head(dsRing) \in Int /\ Held(Head(dsRing)) /\ << >> \in Rings
        BY HeadIsHeld DEF DestinationInv, Rings
    <2>3. DestinationTyped'
        BY <2>1, <2>2 DEF DestinationInv, DestinationTyped, TaskStates
    <2>4. CadenceInv'
        BY <2>1 DEF DestinationInv, DestinationTyped, TaskStates, CadenceInv
    <2>5. \A r : Held(r)' <=> Held(r)
        BY <2>1 DEF Held, Recent
    <2>6. \A f \in Emitters : dsTask'[f].pc \in {"signing", "ready"} => Held(dsTask'[f].ratchet)
        BY <2>1, <2>2 DEF DestinationInv, DestinationTyped, TaskStates
    <2> QED
        BY <2>1, <2>3, <2>4, <2>5, <2>6 DEF DestinationInv, RingAged
<1>8. ASSUME NEW e \in Emitters, AnnounceSigned(e) PROVE DestinationInv'
    <2>1. /\ dsTask[e].pc = "signing" /\ dsTask' = [dsTask EXCEPT ![e].pc = "ready"]
          /\ dsCache' = IF dsTask[e].tag \in Tags THEN [dsCache EXCEPT ![dsTask[e].tag] = dsTask[e].ratchet] ELSE dsCache
          /\ UNCHANGED <<dsTimer, dsGen, dsAir, dsRing, dsMade, dsDue, dsStored, dsData, dsRefused, dsReplaced>>
        BY <1>8 DEF AnnounceSigned, ringVars, packetVars
    <2>2. Held(dsTask[e].ratchet)
        BY <2>1 DEF DestinationInv
    <2>3. DestinationTyped'
        BY <2>1 DEF DestinationInv, DestinationTyped, TaskStates
    <2>4. CadenceInv'
        BY <2>1 DEF DestinationInv, DestinationTyped, TaskStates, CadenceInv
    <2>5. \A r : Held(r)' <=> Held(r)
        BY <2>1 DEF Held, Recent
    <2>6. \A f \in Emitters : dsTask'[f].pc \in {"signing", "ready"} => Held(dsTask'[f].ratchet)
        BY <2>1, <2>2 DEF DestinationInv, DestinationTyped, TaskStates
    <2>7. \A t \in Tags : Held(dsCache'[t])
        BY <2>1, <2>2 DEF DestinationInv, DestinationTyped, TaskStates
    <2> QED
        BY <2>1, <2>3, <2>4, <2>5, <2>6, <2>7 DEF DestinationInv, RingAged
<1>9. ASSUME NEW e \in Emitters, BroadcastAnnounce(e) PROVE DestinationInv'
    <2> DEFINE a == [ratchet |-> dsTask[e].ratchet, late |-> dsTask[e].gen # Unscheduled /\ ~dsTimer]
    <2>1. /\ dsTask[e].pc = "ready" /\ dsTask' = [dsTask EXCEPT ![e] = IdleEmitter]
          /\ dsAir' = IF dsTask[e].gen \in {Unscheduled, dsGen} THEN dsAir \cup {a} ELSE dsAir
          /\ UNCHANGED <<dsTimer, dsGen, dsCache, dsRing, dsMade, dsDue, dsStored, dsData, dsRefused, dsReplaced>>
        BY <1>9 DEF BroadcastAnnounce, ringVars, packetVars
    <2>2. dsTask[e].gen \in {Unscheduled, dsGen} => ~a.late
        BY <2>1 DEF DestinationInv, CadenceInv
    <2>3. a.ratchet \in Int /\ Held(a.ratchet) /\ a \in [ratchet : Int, late : BOOLEAN]
        BY <2>1 DEF DestinationInv, DestinationTyped, TaskStates
    <2> HIDE DEF a
    <2>4. DestinationTyped'
        BY <2>1, <2>3 DEF DestinationInv, DestinationTyped, TaskStates, IdleEmitter, Rings
    <2>5. CadenceInv'
        BY <2>1 DEF DestinationInv, DestinationTyped, TaskStates, CadenceInv, IdleEmitter
    <2>6. \A r : Held(r)' <=> Held(r)
        BY <2>1 DEF Held, Recent
    <2>7. \A f \in Emitters : dsTask'[f].pc \in {"signing", "ready"} => Held(dsTask'[f].ratchet)
        BY <2>1 DEF DestinationInv, DestinationTyped, TaskStates, IdleEmitter
    <2>8. \A x \in dsAir' : ~x.late /\ Held(x.ratchet)
        BY <2>1, <2>2, <2>3 DEF DestinationInv
    <2> QED
        BY <2>1, <2>4, <2>5, <2>6, <2>7, <2>8 DEF DestinationInv, RingAged
<1>10. ASSUME NEW t \in Tags, CachedResponseExpires(t) PROVE DestinationInv'
    <2>1. /\ dsCache' = [dsCache EXCEPT ![t] = NoResponse]
          /\ UNCHANGED <<dsTimer, dsGen, dsTask, dsAir, dsRing, dsMade, dsDue, dsStored, dsData, dsRefused, dsReplaced>>
        BY <1>10 DEF CachedResponseExpires, ringVars, packetVars
    <2>2. Held(NoResponse) /\ NoResponse \in Int
        BY DEF Held, Recent, NoResponse, DestinationInv, DestinationTyped, TaskStates
    <2>3. DestinationTyped' /\ CadenceInv'
        BY <2>1, <2>2 DEF DestinationInv, DestinationTyped, TaskStates, CadenceInv
    <2>4. \A u \in Tags : Held(dsCache'[u])
        BY <2>1, <2>2 DEF DestinationInv, DestinationTyped, TaskStates
    <2>5. \A r : Held(r)' <=> Held(r)
        BY <2>1 DEF Held, Recent
    <2> QED
        BY <2>1, <2>3, <2>4, <2>5 DEF DestinationInv, RingAged
<1>11. CASE RestartDestination
    <2>1. /\ dsTimer' = FALSE /\ dsGen' = 0 /\ dsTask' = [e \in Emitters |-> IdleEmitter]
          /\ dsRing' = dsStored /\ dsReplaced' = (dsReplaced \/ dsStored # dsRing)
          /\ dsCache' = [t \in Tags |-> NoResponse] /\ dsData' = NoData
          /\ UNCHANGED <<dsMade, dsStored, dsAir, dsRefused>>
        BY <1>11 DEF RestartDestination
    <2>2. DestinationTyped'
        BY <2>1 DEF DestinationInv, DestinationTyped, TaskStates, DataStates, IdleEmitter, Rings, NoData, IdentityKey, NoResponse
    <2>3. CadenceInv' /\ \A f \in Emitters : dsTask'[f].pc = "idle"
        BY <2>1 DEF CadenceInv, IdleEmitter
    <2>4. ~dsReplaced' => ~dsReplaced /\ dsRing' = dsRing
        BY <2>1
    <2>5. \A r : Held(r) => Held(r)'
        BY <2>1, <2>4 DEF Held, Recent
    <2>6. \A u \in Tags : Held(dsCache[u])'
        BY <2>1 DEF Held, Recent, NoResponse, DestinationInv, DestinationTyped, TaskStates
    <2>7. ~dsData'.fresh
        BY <2>1 DEF NoData
    <2> QED
        BY <2>1, <2>2, <2>3, <2>4, <2>5, <2>6, <2>7 DEF DestinationInv, RingAged
<1>12. ASSUME UNCHANGED <<dsTimer, dsGen, dsTask, dsRing, dsMade, dsStored, dsCache, dsAir, dsReplaced>>,
              dsData' \in DataStates, dsData'.pc = "read" => dsData'.ring # << >>, ~dsRefused',
              dsData'.fresh => dsData'.pc = "opening" /\ dsData'.opens
       PROVE  DestinationInv'
    <2>1. DestinationTyped'
        BY <1>12 DEF DestinationInv, DestinationTyped, TaskStates
    <2> QED
        BY <1>12, <2>1 DEF DestinationInv, RingAged, Held, Recent, CadenceInv
<1>13. NoData \in DataStates /\ NoData.pc = "idle" /\ ~NoData.fresh
    BY DEF NoData, DataStates, IdentityKey, Rings
<1>14. /\ dsData \in DataStates /\ (dsData.pc = "read" => dsData.ring # << >>) /\ ~dsRefused
       /\ (dsData.fresh => dsData.pc = "opening" /\ dsData.opens) /\ dsStored \in Rings /\ dsStored # << >> /\ << >> \in Rings
    BY DEF DestinationInv, DestinationTyped, TaskStates, Rings
<1>15. CASE ReceiveData
    <2>1. PICK key \in SentUnder \cup {ForeignKey} :
             dsData' = [NoData EXCEPT !.pc = "opening", !.key = key, !.fresh = Recent(key), !.opens = Decrypts(key, dsRing)]
        BY <1>15 DEF ReceiveData
    <2>2. key \in Int /\ (Recent(key) => Decrypts(key, dsRing))
        <3>1. CASE key \in {ForeignKey, IdentityKey}
            BY <3>1 DEF ForeignKey, IdentityKey, Recent, Decrypts
        <3>2. ASSUME NEW a \in dsAir, key = a.ratchet PROVE key \in Int /\ (Recent(key) => Decrypts(key, dsRing))
            BY <3>2 DEF DestinationInv, DestinationTyped, TaskStates, Held, Recent, Decrypts
        <3> QED
            BY <3>1, <3>2 DEF SentUnder, EncryptedTo, RecalledRatchets
    <2>3. Recent(key) \in BOOLEAN /\ Decrypts(key, dsRing) \in BOOLEAN
        BY DEF Recent, Decrypts
    <2>4. dsData' = [pc |-> "opening", key |-> key, opens |-> Decrypts(key, dsRing), fresh |-> Recent(key), ring |-> << >>]
        BY <2>1 DEF NoData
    <2>5. dsData' \in DataStates
        BY <1>14, <2>2, <2>3, <2>4 DEF DataStates
    <2>6. dsData'.pc = "opening" /\ (dsData'.fresh => dsData'.opens)
        BY <2>2, <2>4
    <2> QED
        BY <1>12, <1>14, <1>15, <2>5, <2>6 DEF ReceiveData
<1>16. ASSUME NEW next \in {"reading", "drop"}, Opened(next), dsData.pc = IF next = "drop" THEN "retrying" ELSE "opening" PROVE DestinationInv'
    <2>1. [NoData EXCEPT !.pc = "proving"] \in DataStates /\ [NoData EXCEPT !.pc = "proving"].pc = "proving" /\ ~[NoData EXCEPT !.pc = "proving"].fresh
        BY <1>13 DEF DataStates
    <2>2. next # "drop" => [dsData EXCEPT !.pc = next] \in DataStates /\ [dsData EXCEPT !.pc = next].pc = "reading"
                            /\ [dsData EXCEPT !.pc = next].fresh = dsData.fresh
        BY <1>14, <1>16 DEF DataStates
    <2>3. ~dsRefused'
        BY <1>14, <1>16 DEF Opened
    <2>4. dsData' \in DataStates /\ dsData'.pc # "read" /\ ~dsData'.fresh
        BY <1>13, <1>14, <1>16, <2>1, <2>2 DEF Opened
    <2> QED
        BY <1>12, <1>16, <2>3, <2>4 DEF Opened
<1>17. CASE ReloadReads
    <2>0. dsData.pc = "reading" /\ ~dsData.fresh
        BY <1>14, <1>17 DEF ReloadReads
    <2>1. dsData.pc = "reading" /\ ~dsData.fresh /\ ~dsRefused'
        <3>1. dsRefused' = dsRefused \/ dsRefused' = (dsRefused \/ dsData.fresh)
            BY <1>17 DEF ReloadReads
        <3>2. ~dsRefused /\ ~dsData.fresh
            BY <1>14, <2>0
        <3>3. ~dsRefused'
            BY <3>1, <3>2
        <3> QED
            BY <2>0, <3>3
    <2>2. [dsData EXCEPT !.pc = "read", !.ring = dsStored] \in DataStates
          /\ [dsData EXCEPT !.pc = "read", !.ring = dsStored].ring = dsStored /\ [dsData EXCEPT !.pc = "read", !.ring = dsStored].fresh = dsData.fresh
        BY <1>14 DEF DataStates
    <2>3. dsData' \in DataStates /\ (dsData'.pc = "read" => dsData'.ring # << >>) /\ ~dsData'.fresh
        BY <1>13, <1>14, <1>17, <2>1, <2>2 DEF ReloadReads
    <2> QED
        BY <1>12, <1>17, <2>1, <2>3 DEF ReloadReads
<1>18. CASE ReloadApplies
    <2> DEFINE moved == [e \in Emitters |-> IF dsTask[e].pc = "rotating" THEN [dsTask[e] EXCEPT !.target = 1] ELSE dsTask[e]]
    <2>1. /\ dsData.pc = "read" /\ dsData' = [dsData EXCEPT !.pc = "retrying", !.ring = << >>, !.opens = Decrypts(dsData.key, dsData.ring)]
          /\ dsRing' = dsData.ring /\ dsReplaced' = (dsReplaced \/ dsData.ring # dsRing) /\ dsTask' = moved
          /\ UNCHANGED <<dsTimer, dsGen, dsMade, dsDue, dsStored, dsCache, dsAir, dsRefused, dsCount>>
        BY <1>18 DEF ReloadApplies
    <2>2. Decrypts(dsData.key, dsData.ring) \in BOOLEAN
        BY DEF Decrypts
    <2>3. dsData' \in DataStates /\ dsData'.pc = "retrying" /\ ~dsData'.fresh /\ dsData.ring \in Rings
        BY <1>14, <2>1, <2>2 DEF DataStates
    <2>4. \A f \in Emitters : dsTask'[f].pc = dsTask[f].pc /\ dsTask'[f].gen = dsTask[f].gen /\ dsTask'[f].ratchet = dsTask[f].ratchet
                                /\ dsTask'[f].ring = dsTask[f].ring
        BY <2>1 DEF DestinationInv, DestinationTyped, TaskStates
    <2>5. DestinationTyped'
        <3>1. dsTask' \in [Emitters -> TaskStates]
            <4>1. ASSUME NEW f \in Emitters PROVE (IF dsTask[f].pc = "rotating" THEN [dsTask[f] EXCEPT !.target = 1] ELSE dsTask[f]) \in TaskStates
                <5>1. dsTask[f] \in TaskStates
                    BY DEF DestinationInv, DestinationTyped
                <5>2. [dsTask[f] EXCEPT !.target = 1] \in TaskStates
                    BY <5>1 DEF TaskStates
                <5> QED
                    BY <5>1, <5>2
            <4> QED
                BY <2>1, <4>1
        <3> QED
            BY <1>14, <2>1, <2>3, <2>4, <3>1 DEF DestinationInv, DestinationTyped, TaskStates
    <2>6. CadenceInv'
        BY <2>1, <2>4 DEF DestinationInv, CadenceInv
    <2>7. ~dsReplaced' => ~dsReplaced /\ dsRing' = dsRing
        BY <2>1
    <2>8. \A r : Held(r) => Held(r)'
        BY <2>1, <2>7 DEF Held, Recent
    <2> QED
        BY <2>1, <2>3, <2>4, <2>5, <2>6, <2>7, <2>8 DEF DestinationInv, RingAged
<1>19. CASE ProveData
    BY <1>12, <1>13, <1>14, <1>19 DEF ProveData
<1>20. CASE UNCHANGED destinationVars
    BY <1>20 DEF destinationVars, DestinationInv, DestinationTyped, TaskStates, RingAged, Held, Recent, CadenceInv
<1>21. DataDecrypted \/ DataRetried => DestinationInv'
    BY <1>16 DEF DataDecrypted, DataRetried
<1> QED
    BY <1>1, <1>2, <1>3, <1>4, <1>5, <1>6, <1>7, <1>8, <1>9, <1>10, <1>11, <1>15, <1>17, <1>18, <1>19, <1>20, <1>21
       DEF DestinationNext

\* What a peer may rely on.
THEOREM DestinationSafety == DestinationInit /\ [][DestinationNext]_destinationVars => []AnnouncesAreKept
<1>1. DestinationInv => AnnouncesAreKept
    BY DEF DestinationInv, AnnouncesAreKept, Held, Recent
<1> QED
    BY DestinationInitially, DestinationInductive, <1>1, PTL

-----------------------------------------------------------------------------
\* The routing table.

\* The newest emission time of an entry exists, and is one of its own: by the least number of
\* blobs for which it would not.
LEMMA TimebaseBounds ==
    ASSUME NEW r \in Route
    PROVE  /\ timebaseFromBlobs(r) \in Nat
           /\ timebaseFromBlobs(r) \in {0} \cup {Emission[b] : b \in blobsOf(r)}
           /\ \A b \in blobsOf(r) : timebaseFromBlobs(r) >= Emission[b]
<1> DEFINE s == r.randomBlobs
           Times(n) == {0} \cup {Emission[s[k]] : k \in 1..n}
           Top(n) == \E m \in Times(n) : \A y \in Times(n) : m >= y
           Bad == {n \in Nat : n <= Len(s) /\ ~Top(n)}
<1>1. s \in Seq(Blobs) /\ Len(s) \in Nat /\ \A k \in 1..Len(s) : s[k] \in Blobs /\ Emission[s[k]] \in Nat
    BY PathTableAssumption DEF Route
<1>0. blobsOf(r) = {s[k] : k \in 1..Len(s)}
    BY <1>1 DEF blobsOf
<1> HIDE DEF s
<1>2. Bad = {}
    <2> SUFFICES ASSUME Bad # {} PROVE FALSE
        OBVIOUS
    <2>1. PICK n \in Bad : \A y \in Bad : ~(<<y, n>> \in OpToRel(<, Nat))
        BY WFMin, NatLessThanWellFounded
    <2>2. n \in Nat /\ n <= Len(s) /\ ~Top(n) /\ \A y \in Bad : ~(y < n)
        BY <2>1 DEF OpToRel
    <2>3. n # 0
        <3>1. Times(0) = {0}
            OBVIOUS
        <3>2. Top(0)
            BY <3>1
        <3> QED
            BY <2>2, <3>2
    <2>4. n - 1 \in Nat /\ n - 1 <= Len(s) /\ n - 1 < n /\ n \in 1..Len(s)
        BY <1>1, <2>2, <2>3
    <2>5. Top(n - 1)
        BY <2>2, <2>4
    <2>6. PICK m \in Times(n - 1) : \A y \in Times(n - 1) : m >= y
        BY <2>5
    <2>7. Times(n) = Times(n - 1) \cup {Emission[s[n]]}
        <3>1. 1..n = (1..n - 1) \cup {n}
            BY <2>4
        <3> QED
            BY <3>1
    <2>8. m \in Nat /\ Emission[s[n]] \in Nat /\ \A y \in Times(n - 1) : y \in Nat
        <3>1. \A k \in 1..n - 1 : k \in 1..Len(s)
            BY <1>1, <2>4
        <3>2. \A y \in Times(n - 1) : y \in Nat
            BY <1>1, <3>1
        <3> QED
            BY <1>1, <2>4, <2>6, <3>2
    <2> HIDE DEF Times
    <2>9. \E x \in Times(n) : \A y \in Times(n) : x >= y
        <3>1. CASE m >= Emission[s[n]]
            BY <2>6, <2>7, <2>8, <3>1
        <3>2. CASE ~(m >= Emission[s[n]])
            BY <2>6, <2>7, <2>8, <3>2
        <3> QED
            BY <3>1, <3>2
    <2> QED
        BY <2>2, <2>9
<1>3. Top(Len(s))
    <2> HIDE DEF Top
    <2>1. Len(s) \notin Bad
        BY <1>2
    <2> QED
        BY <1>1, <2>1
<1>5. {0} \cup {Emission[b] : b \in blobsOf(r)} = Times(Len(s))
    BY <1>0
<1>6. timebaseFromBlobs(r) = Max(Times(Len(s)))
    BY <1>5 DEF timebaseFromBlobs
<1>7. Max(Times(Len(s))) \in Times(Len(s)) /\ \A y \in Times(Len(s)) : Max(Times(Len(s))) >= y
    <2> HIDE DEF Times
    <2> QED
        BY <1>3 DEF Max
<1>8. \A y \in Times(Len(s)) : y \in Nat
    BY <1>1
<1> HIDE DEF Times, Top
<1> QED
    BY <1>5, <1>6, <1>7, <1>8

\* Only the blobs of an entry count.
LEMMA TimebaseOfBlobs ==
    ASSUME NEW r, NEW q, q.randomBlobs = r.randomBlobs PROVE timebaseFromBlobs(q) = timebaseFromBlobs(r)
BY DEF timebaseFromBlobs, blobsOf

\* What is recorded is among the blobs, and so are those it had, except the oldest of a full list.
LEMMA RecordBlobType ==
    ASSUME NEW q \in Seq(Blobs), NEW b \in Blobs
    PROVE  recordBlob(q, b) \in Seq(Blobs) /\ \E k \in DOMAIN recordBlob(q, b) : recordBlob(q, b)[k] = b
<1> DEFINE longer == Append(q, b)
<1>1. longer \in Seq(Blobs) /\ Len(longer) = Len(q) + 1 /\ longer[Len(q) + 1] = b /\ Len(q) \in Nat
    BY AppendProperties
<1>2. CASE \E k \in DOMAIN q : q[k] = b
    BY <1>2 DEF recordBlob
<1>3. CASE ~(\E k \in DOMAIN q : q[k] = b) /\ ~(Len(longer) > MAX_RANDOM_BLOBS)
    BY <1>1, <1>3 DEF recordBlob
<1>4. CASE ~(\E k \in DOMAIN q : q[k] = b) /\ Len(longer) > MAX_RANDOM_BLOBS
    <2>1. recordBlob(q, b) = Tail(longer)
        BY <1>4 DEF recordBlob
    <2>2. Len(q) \in Nat \ {0}
        BY <1>1, <1>4, PathTableAssumption
    <2> HIDE DEF longer
    <2>3. longer # << >> 
        BY <1>1
    <2>4. /\ Tail(longer) \in Seq(Blobs) /\ Len(Tail(longer)) = Len(q)
          /\ \A i \in 1..Len(q) : Tail(longer)[i] = longer[i + 1]
        BY <1>1, <2>3, HeadTailProperties
    <2>5. Len(q) \in DOMAIN Tail(longer) /\ Tail(longer)[Len(q)] = b
        BY <1>1, <2>2, <2>4
    <2> QED
        BY <2>1, <2>4, <2>5
<1> QED
    BY <1>2, <1>3, <1>4

\* An entry stops outranking longer paths no later than a lookup culls it.
RouteInv ==
    /\ route \in Route \cup {NoRoute}
    /\ attached \subseteq Interfaces
    /\ now \in Nat
    /\ route # NoRoute => route.timestamp <= now /\ route.expires <= route.timestamp + PATH_EXPIRY

\* No route is known.
LEMMA RouteInitially == RouteInit => RouteInv
<1> SUFFICES ASSUME RouteInit PROVE RouteInv
    OBVIOUS
<1>1. ASSUME NEW i \in Interfaces, NEW b \in Blobs, NEW h \in Hops
      PROVE  DecodeRoute(i, b, h) \in Route /\ DecodeRoute(i, b, h).timestamp = 0 /\ DecodeRoute(i, b, h).expires = PATH_EXPIRY
    <2>1. <<b>> \in Seq(Blobs)
        OBVIOUS
    <2> QED
        BY <2>1, PathTableAssumption DEF DecodeRoute, Route, PathState
<1>2. CASE route = NoRoute
    BY <1>2 DEF RouteInit, RouteInv
<1>3. ASSUME NEW i \in Interfaces, NEW b \in Blobs, NEW h \in Hops, route = DecodeRoute(i, b, h) PROVE RouteInv
    BY <1>1, <1>3, PathTableAssumption DEF RouteInit, RouteInv
<1> QED
    BY <1>2, <1>3 DEF RouteInit

\* A lookup keeps an entry's blobs and rank, or drops one that no longer outranks a longer path.
LEMMA LookupKeeps ==
    ASSUME RouteInv
    PROVE  LET found == getRoute(route, now, attached)
           IN  /\ found \in Route \cup {NoRoute}
               /\ found = NoRoute => route = NoRoute \/ now >= route.expires
               /\ found # NoRoute =>
                    /\ route # NoRoute
                    /\ found.hops = route.hops /\ found.timestamp = route.timestamp /\ found.expires = route.expires
                    /\ found.state = route.state /\ found.randomBlobs = route.randomBlobs
                    /\ route.interface # NoInterface => found.interface = route.interface
<1>1. CASE route = NoRoute
    BY <1>1 DEF getRoute
<1>2. CASE route # NoRoute
    <2>1. route \in Route /\ now \in Nat /\ route.timestamp <= now /\ route.expires <= route.timestamp + PATH_EXPIRY
        BY <1>2 DEF RouteInv
    <2>2. CASE now >= route.timestamp + PATH_EXPIRY
        BY <1>2, <2>1, <2>2, PathTableAssumption DEF getRoute, Route
    <2>3. CASE ~(now >= route.timestamp + PATH_EXPIRY)
        <3>1. CASE route.interface = NoInterface /\ route.interfaceName \in attached
            <4>1. getRoute(route, now, attached) = [route EXCEPT !.interface = route.interfaceName]
                BY <1>2, <2>3, <3>1 DEF getRoute
            <4>2. [route EXCEPT !.interface = route.interfaceName] \in Route
                BY <2>1 DEF Route
            <4> QED
                BY <1>2, <2>1, <3>1, <4>1, <4>2, NoRouteAssumption DEF Route
        <3>2. CASE ~(route.interface = NoInterface /\ route.interfaceName \in attached)
            BY <1>2, <2>1, <2>3, <3>2 DEF getRoute
        <3> QED
            BY <3>1, <3>2
    <2> QED
        BY <2>2, <2>3
<1> QED
    BY <1>1, <1>2

\* What NeverOlder and DetoursAreEarned ask of a step.
Improves ==
    /\ Replaced /\ now < route.expires => timebaseFromBlobs(route') >= timebaseFromBlobs(route)
    /\ Replaced /\ route'.hops > route.hops /\ route'.interface # route.interface /\ route.interface # NoInterface =>
          \/ route.state = "UNRESPONSIVE"
          \/ now >= route.expires
          \/ timebaseFromBlobs(route') > timebaseFromBlobs(route)

\* A step that keeps the blobs and the interface or the length.
LEMMA SameBlobsImprove ==
    ASSUME RouteInv,
           route # NoRoute /\ route' # NoRoute =>
              /\ route'.randomBlobs = route.randomBlobs
              /\ route'.hops = route.hops \/ route'.interface = route.interface
    PROVE  Improves
<1> SUFFICES ASSUME Replaced PROVE Improves
    BY DEF Improves
<1>1. route \in Route /\ timebaseFromBlobs(route') = timebaseFromBlobs(route) /\ timebaseFromBlobs(route) \in Nat /\ route.hops \in Nat
    BY TimebaseOfBlobs, TimebaseBounds, PathTableAssumption DEF Replaced, RouteInv, Route, Hops
<1> QED
    BY <1>1 DEF Improves, Replaced

\* An announce replaces a route only as RoutesImprove allows.
LEMMA AnnounceImproves ==
    ASSUME RouteInv, NEW b \in Blobs, NEW h \in Hops, NEW i \in Interfaces, RouteAnnounced(b, h, i)
    PROVE  RouteInv' /\ Improves
<1> DEFINE e == [randomBlob |-> b, hops |-> h, viaInterface |-> i]
           found == getRoute(route, now, attached)
<1>1. route' = addOrUpdateRoute(found, e, now) /\ UNCHANGED <<attached, now>>
    BY DEF RouteAnnounced
<1>2. /\ found \in Route \cup {NoRoute}
      /\ found = NoRoute => route = NoRoute \/ now >= route.expires
      /\ found # NoRoute =>
           /\ route # NoRoute
           /\ found.hops = route.hops /\ found.timestamp = route.timestamp /\ found.expires = route.expires
           /\ found.state = route.state /\ found.randomBlobs = route.randomBlobs
           /\ route.interface # NoInterface => found.interface = route.interface
    BY LookupKeeps
<1> HIDE DEF found
<1>3. now \in Nat /\ route \in Route \cup {NoRoute} /\ e.randomBlob = b /\ e.hops = h /\ e.viaInterface = i
    BY DEF RouteInv
<1> HIDE DEF e
<1>4. CASE ~shouldAdd(found, e, now)
    <2>1. route' = found /\ found # NoRoute
        BY <1>1, <1>4 DEF addOrUpdateRoute, shouldAdd
    <2>2. RouteInv'
        BY <1>1, <1>2, <1>3, <2>1 DEF RouteInv
    <2> QED
        BY <1>2, <2>1, <2>2, SameBlobsImprove
<1>5. CASE shouldAdd(found, e, now)
    <2> DEFINE old == IF found = NoRoute THEN << >> ELSE found.randomBlobs
    <2>1. route' = newRoute(found, e, now)
        BY <1>1, <1>5 DEF addOrUpdateRoute
    <2>2. old \in Seq(Blobs)
        BY <1>2 DEF Route
    <2>3. (IF found # NoRoute /\ (Heavier(found, e) \/ Alternative(found, e, now)) THEN found.state ELSE "UNKNOWN") \in PathState
        BY <1>2 DEF Route, PathState
    <2>4. recordBlob(old, b) \in Seq(Blobs) /\ \E k \in DOMAIN recordBlob(old, b) : recordBlob(old, b)[k] = b
        BY <2>2, RecordBlobType
    <2>5. route' = [interface |-> i, interfaceName |-> i, hops |-> h, timestamp |-> now, expires |-> now + PATH_EXPIRY,
                    randomBlobs |-> recordBlob(old, b),
                    state |-> IF found # NoRoute /\ (Heavier(found, e) \/ Alternative(found, e, now)) THEN found.state ELSE "UNKNOWN"]
        BY <1>3, <2>1 DEF newRoute
    <2> HIDE DEF old
    <2>6. route' \in Route /\ route'.timestamp = now /\ route'.expires = now + PATH_EXPIRY /\ route'.hops = h
          /\ route'.randomBlobs = recordBlob(old, b)
        BY <1>3, <2>3, <2>4, <2>5, PathTableAssumption DEF Route
    <2>7. RouteInv'
        BY <1>1, <1>3, <2>6, PathTableAssumption DEF RouteInv
    <2>8. b \in blobsOf(route')
        BY <2>4, <2>6 DEF blobsOf
    <2>9. timebaseFromBlobs(route') \in Nat /\ timebaseFromBlobs(route') >= Emission[b] /\ Emission[b] \in Nat
        BY <2>6, <2>8, TimebaseBounds, PathTableAssumption
    <2>10. Improves
        <3>0. route # NoRoute => route.expires \in Nat
            BY <1>3 DEF Route
        <3> SUFFICES ASSUME route # NoRoute, now < route.expires PROVE Improves
            BY <1>3, <3>0 DEF Improves, Replaced
        <3>1. route \in Route /\ timebaseFromBlobs(route) \in Nat /\ route.hops \in Nat /\ route.expires \in Nat
            BY <1>3, TimebaseBounds DEF Route, Hops
        <3>2. found # NoRoute /\ ~(now >= found.expires) /\ timebaseFromBlobs(found) = timebaseFromBlobs(route)
            BY <1>2, <1>3, <3>1, TimebaseOfBlobs
        <3>3. \/ Emission[b] > timebaseFromBlobs(route)
              \/ h <= route.hops /\ Emission[b] = timebaseFromBlobs(route)
              \/ Emission[b] = timebaseFromBlobs(route) /\ route.state = "UNRESPONSIVE"
            BY <1>2, <1>3, <1>5, <3>2 DEF shouldAdd, Fresher, Heavier, Outlived, Alternative
        <3> QED
            BY <2>6, <2>9, <3>1, <3>3 DEF Improves, Hops
    <2> QED
        BY <2>7, <2>10
<1> QED
    BY <1>4, <1>5

\* Every operation on the table.
LEMMA RouteStep ==
    ASSUME RouteInv, [RouteNext]_routeVars PROVE RouteInv' /\ [Improves]_routeVars
<1> USE PathTableAssumption
<1>1. ASSUME NEW s \in PathState, MarkState(s) PROVE RouteInv' /\ Improves
    <2>1. CASE route = NoRoute
        BY <1>1, <2>1, SameBlobsImprove DEF MarkState, markState, RouteInv
    <2>2. CASE route # NoRoute
        <3>1. route' = [route EXCEPT !.state = s] /\ UNCHANGED <<attached, now>> /\ route \in Route
            BY <1>1, <2>2 DEF MarkState, markState, RouteInv
        <3>2. route' \in Route /\ route'.randomBlobs = route.randomBlobs /\ route'.interface = route.interface
              /\ route'.timestamp = route.timestamp /\ route'.expires = route.expires
            BY <3>1 DEF Route
        <3>3. RouteInv'
            BY <2>2, <3>1, <3>2 DEF RouteInv
        <3> QED
            BY <3>2, <3>3, SameBlobsImprove
    <2> QED
        BY <2>1, <2>2
<1>2. ASSUME NEW h \in Hops, SetHops(h) PROVE RouteInv' /\ Improves
    <2>1. CASE route = NoRoute
        BY <1>2, <2>1, SameBlobsImprove DEF SetHops, setHops, RouteInv
    <2>2. CASE route # NoRoute
        <3>1. route' = [route EXCEPT !.hops = h] /\ UNCHANGED <<attached, now>> /\ route \in Route
            BY <1>2, <2>2 DEF SetHops, setHops, RouteInv
        <3>2. route' \in Route /\ route'.randomBlobs = route.randomBlobs /\ route'.interface = route.interface
              /\ route'.timestamp = route.timestamp /\ route'.expires = route.expires
            BY <3>1 DEF Route
        <3>3. RouteInv'
            BY <2>2, <3>1, <3>2 DEF RouteInv
        <3> QED
            BY <3>2, <3>3, SameBlobsImprove
    <2> QED
        BY <2>1, <2>2
<1>3. CASE ExpireRoute
    BY <1>3, SameBlobsImprove DEF ExpireRoute, expireRoute, RouteInv
<1>4. CASE Lookup
    <2>1. route' = getRoute(route, now, attached) /\ UNCHANGED <<attached, now>>
        BY <1>4 DEF Lookup
    <2>2. RouteInv'
        BY <2>1, LookupKeeps DEF RouteInv
    <2> QED
        BY <2>1, <2>2, LookupKeeps, SameBlobsImprove
<1>5. CASE Use
    <2> DEFINE found == getRoute(route, now, attached)
    <2>1. route' = (IF found = NoRoute THEN found ELSE [found EXCEPT !.timestamp = now]) /\ UNCHANGED <<attached, now>> /\ now \in Nat
        BY <1>5 DEF Use, RouteInv
    <2>2. CASE found = NoRoute
        BY <2>1, <2>2, SameBlobsImprove DEF RouteInv
    <2>3. CASE found # NoRoute
        <3>1. found \in Route /\ found.hops = route.hops /\ found.timestamp = route.timestamp /\ found.expires = route.expires
              /\ found.randomBlobs = route.randomBlobs /\ route # NoRoute
            BY <2>3, LookupKeeps
        <3> HIDE DEF found
        <3>2. route' \in Route /\ route'.randomBlobs = route.randomBlobs /\ route'.hops = route.hops
              /\ route'.timestamp = now /\ route'.expires = route.expires
            BY <2>1, <2>3, <3>1 DEF Route
        <3>3. route \in Route /\ route.timestamp \in Nat /\ route.expires \in Nat /\ route.timestamp <= now /\ route.expires <= route.timestamp + PATH_EXPIRY
            BY <3>1 DEF RouteInv, Route
        <3>4. RouteInv'
            BY <2>1, <3>2, <3>3 DEF RouteInv
        <3> QED
            BY <3>2, <3>4, SameBlobsImprove
    <2> QED
        BY <2>2, <2>3
<1>6. ASSUME NEW i \in Interfaces, AddInterface(i) PROVE RouteInv' /\ Improves
    BY <1>6, SameBlobsImprove DEF AddInterface, RouteInv
<1>7. ASSUME NEW i \in Interfaces, RemoveInterface(i) PROVE RouteInv' /\ Improves
    BY <1>7, SameBlobsImprove DEF RemoveInterface, dropInterface, RouteInv
<1>8. CASE Tick
    <2>1. now' = now + 1 /\ UNCHANGED <<route, attached>>
        BY <1>8 DEF Tick
    <2>2. RouteInv'
        BY <2>1 DEF RouteInv, Route
    <2> QED
        BY <2>1, <2>2, SameBlobsImprove
<1>9. CASE UNCHANGED routeVars
    BY <1>9 DEF routeVars, RouteInv
<1> QED
    BY <1>1, <1>2, <1>3, <1>4, <1>5, <1>6, <1>7, <1>8, <1>9, AnnounceImproves DEF RouteNext

\* Announces only improve an entry.
THEOREM RouteSafety == RouteSpec => RoutesImprove
<1>1. RouteInv /\ [RouteNext]_routeVars => RouteInv'
    BY RouteStep
<1>2. RouteInv /\ [RouteNext]_routeVars =>
        [Replaced /\ now < route.expires => timebaseFromBlobs(route') >= timebaseFromBlobs(route)]_routeVars
    BY RouteStep DEF Improves
<1>3. RouteInv /\ [RouteNext]_routeVars =>
        [Replaced
         /\ route'.hops > route.hops
         /\ route'.interface # route.interface
         /\ route.interface # NoInterface =>
            \/ route.state = "UNRESPONSIVE"
            \/ now >= route.expires
            \/ timebaseFromBlobs(route') > timebaseFromBlobs(route)]_routeVars
    BY RouteStep DEF Improves
<1> QED
    BY RouteInitially, <1>1, <1>2, <1>3, PTL DEF RouteSpec, RoutesImprove, NeverOlder, DetoursAreEarned
-----------------------------------------------------------------------------
\* The zero-configuration interface.

\* The copies under way that would be handed to a peer interface.
LiveCopies == {c \in aiData : c[1] \in aiSpawned /\ aiInst[c[1]] = c[2]}

\* Nothing is accepted any more: no data socket is open or will be, and no copy is live.
Deaf == aiConn.pc = "done" /\ (\A d \in Devices : dataSock[d] = "none") /\ LiveCopies = {}

\* The deque holds the datagram for as long as its acceptance asks for.
InDeque(m) == \E i \in DOMAIN mifDeque : mifDeque[i].hash = m /\ mifDeque[i].expiresAt >= acceptedAt[m] + DequeTtl

\* A datagram that was accepted lately is remembered, unless it was displaced.
DequeInv == \A m \in Datagrams :
    acceptedAt[m] # 0 /\ aiNow < acceptedAt[m] + DequeTtl /\ m \notin displaced => Deaf \/ InDeque(m)

\* The type of what the duplicate check and the peer table depend on.
AutoTyped ==
    /\ dataSock \in [Devices -> {"none", "bound", "rebinding"}]
    /\ aiPeers \in [AutoPeers -> Nat] /\ aiInst \in [AutoPeers -> Nat] /\ aiHashing \subseteq AutoPeers
    /\ \A c \in aiData : c[1] \in AutoPeers /\ c[2] \in Nat /\ c[3] \in Datagrams /\ c[2] <= aiInst[c[1]]
    /\ mifDeque \in Seq([hash : Datagrams, expiresAt : Nat])
    /\ aiNow \in Nat \ {0} /\ acceptedAt \in [Datagrams -> Nat]
    /\ \A m \in Datagrams : acceptedAt[m] <= aiNow

\* Before connect() has ended there are no peers and no data, and the interface is not online.
Quiet == aiConn.pc # "done" =>
    /\ aiState # "on" /\ aiHashing = {} /\ aiSpawned = {} /\ aiData = {}
    /\ aiPeers = [a \in AutoPeers |-> 0] /\ acceptedAt = [m \in Datagrams |-> 0]

\* A peer interface belongs to a known address, and while the interface is up to every one.
PeersInv ==
    /\ aiSpawned \subseteq {a \in AutoPeers : aiPeers[a] # 0}
    /\ aiState = "on" => aiSpawned = {a \in AutoPeers : aiPeers[a] # 0}

\* connect() is busy with a device.
Busy == aiConn.pc \in {"multicast", "unicast", "data", "abandon"}

\* What is open and announced on: the adopted devices, but for the one being opened, of which
\* it is what its step says.
DevicesOpen ==
    /\ adopted \subseteq Devices /\ aiConn.todo \subseteq Devices /\ adopted \cap aiConn.todo = {}
    /\ aiConn.pc = "idle" => adopted = {}
    /\ Busy => aiConn.dev \in adopted
    /\ aiTimers \subseteq adopted
    /\ \A d \in adopted : (d \in aiTimers /\ Recorded(d) \subseteq aiOpen) \/ (Busy /\ d = aiConn.dev)
    /\ \A x \in aiOpen : \E d \in adopted : x \in Recorded(d)
    /\ aiConn.pc = "data" => aiConn.dev \in aiTimers /\ Recorded(aiConn.dev) \subseteq aiOpen
    /\ aiConn.pc = "unicast" => <<aiConn.dev, "multicast">> \in aiOpen
    /\ \A d \in Devices \ adopted : dataSock[d] = "none"

\* ...as long as disconnect() has not been called.
DevicesInv ==
    /\ aiConn = [pc |-> aiConn.pc, dev |-> aiConn.dev, todo |-> aiConn.todo]
    /\ ~aiEnded /\ ~aiShut.waits => DevicesOpen

\* The invariant.
AutoInv == AutoTyped /\ Quiet /\ PeersInv /\ DequeInv /\ DevicesInv /\ repeated = FALSE

\* Nothing is adopted, heard or accepted.
LEMMA AutoInitially == AutoInit => AutoInv
<1> SUFFICES ASSUME AutoInit PROVE AutoInv
    OBVIOUS
<1>1. AutoTyped
    BY DEF AutoInit, AutoTyped
<1>2. Quiet /\ PeersInv /\ DequeInv
    BY DEF AutoInit, Quiet, PeersInv, DequeInv
<1>3. DevicesInv
    BY DEF AutoInit, DevicesInv, DevicesOpen, Busy
<1>4. repeated = FALSE
    BY DEF AutoInit
<1> QED
    BY <1>1, <1>2, <1>3, <1>4 DEF AutoInv

\* connect() and its steps.
Connecting ==
    \/ AutoConnect \/ BindMulticast \/ BindUnicast \/ BindData \/ AbandonInterface \/ ConnectEnds
    \/ \E d \in Devices : AdoptDevice(d)

\* The steps of connect() move on to the next socket or device.
LEMMA ConnectingDevices ==
    ASSUME AutoInv, Connecting
    PROVE  DevicesInv' /\ (aiConn'.pc = "done" <=> ConnectEnds) /\ aiConn.pc # "done"
<1>0. aiConn = [pc |-> aiConn.pc, dev |-> aiConn.dev, todo |-> aiConn.todo]
    BY DEF AutoInv, DevicesInv
<1> DEFINE Outcome == DevicesInv' /\ (aiConn'.pc = "done" <=> ConnectEnds) /\ aiConn.pc # "done"
<1>1. CASE AutoConnect
  <2>1. aiConn' = [pc |-> "next", dev |-> aiConn.dev, todo |-> Devices] /\ aiConn.pc = "idle"
    BY <1>0, <1>1 DEF AutoConnect
  <2>2. UNCHANGED <<aiEnded, aiShut, adopted, aiTimers, aiOpen, dataSock>>
    BY <1>1 DEF AutoConnect
  <2>3. DevicesOpen => DevicesOpen'
    BY <2>1, <2>2 DEF DevicesOpen, Busy, Recorded
  <2> QED
    BY <1>0, <2>1, <2>2, <2>3 DEF DevicesInv, AutoInv, ConnectEnds, Opening
<1>2. CASE BindMulticast
  <2>1. PICK pc \in {"unicast", "abandon"} : aiConn' = [pc |-> pc, dev |-> aiConn.dev, todo |-> aiConn.todo] /\ aiConn.pc = "multicast"
        /\ aiOpen' = IF pc = "unicast" THEN aiOpen \cup {<<aiConn.dev, "multicast">>} ELSE aiOpen
    BY <1>0, <1>2 DEF BindMulticast, Opening
  <2>2. UNCHANGED <<aiEnded, aiShut, adopted, aiTimers, dataSock>>
    BY <1>2 DEF BindMulticast
  <2>3. DevicesOpen => DevicesOpen'
    BY <2>1, <2>2 DEF DevicesOpen, Busy, Recorded
  <2> QED
    BY <1>0, <2>1, <2>2, <2>3 DEF DevicesInv, AutoInv, ConnectEnds, Opening
<1>3. CASE BindUnicast
  <2>1. PICK pc \in {"data", "abandon"} : aiConn' = [pc |-> pc, dev |-> aiConn.dev, todo |-> aiConn.todo] /\ aiConn.pc = "unicast"
        /\ aiOpen' = (IF pc = "data" THEN aiOpen \cup {<<aiConn.dev, "unicast">>} ELSE aiOpen)
        /\ aiTimers' = (IF pc = "data" THEN aiTimers \cup {aiConn.dev} ELSE aiTimers)
    BY <1>0, <1>3 DEF BindUnicast, Opening, StartAnnounceLoop
  <2>2. UNCHANGED <<aiEnded, aiShut, adopted, dataSock>>
    BY <1>3 DEF BindUnicast
  <2>3. DevicesOpen => DevicesOpen'
    BY <2>1, <2>2 DEF DevicesOpen, Busy, Recorded
  <2> QED
    BY <1>0, <2>1, <2>2, <2>3 DEF DevicesInv, AutoInv, ConnectEnds, Opening
<1>4. CASE BindData
  <2>1. PICK pc \in {"next", "abandon"} : aiConn' = [pc |-> pc, dev |-> aiConn.dev, todo |-> aiConn.todo] /\ aiConn.pc = "data"
        /\ dataSock' = (IF pc = "next" THEN [dataSock EXCEPT ![aiConn.dev] = "bound"] ELSE dataSock)
    BY <1>0, <1>4 DEF BindData, Opening
  <2>2. UNCHANGED <<aiEnded, aiShut, adopted, aiTimers, aiOpen>>
    BY <1>4 DEF BindData
  <2>3. DevicesOpen => DevicesOpen'
    BY <2>1, <2>2 DEF DevicesOpen, Busy, Recorded, AutoInv, AutoTyped
  <2> QED
    BY <1>0, <2>1, <2>2, <2>3 DEF DevicesInv, AutoInv, ConnectEnds, Opening
<1>5. CASE AbandonInterface
  <2>1. aiConn' = [pc |-> "next", dev |-> aiConn.dev, todo |-> aiConn.todo] /\ aiConn.pc = "abandon"
    BY <1>0, <1>5 DEF AbandonInterface, Opening
  <2>2. /\ UNCHANGED <<aiEnded, aiShut>>
        /\ aiTimers' = aiTimers \ {aiConn.dev} /\ aiOpen' = aiOpen \ Recorded(aiConn.dev)
        /\ dataSock' = [dataSock EXCEPT ![aiConn.dev] = "none"] /\ adopted' = adopted \ {aiConn.dev}
    BY <1>5 DEF AbandonInterface
  <2>3. DevicesOpen => DevicesOpen'
    BY <2>1, <2>2 DEF DevicesOpen, Busy, Recorded, AutoInv, AutoTyped
  <2> QED
    BY <1>0, <2>1, <2>2, <2>3 DEF DevicesInv, AutoInv, ConnectEnds, Opening
<1>6. CASE ConnectEnds
  <2>1. aiConn' = [pc |-> "done", dev |-> aiConn.dev, todo |-> aiConn.todo] /\ aiConn.pc = "next"
    BY <1>0, <1>6 DEF ConnectEnds, Opening
  <2>2. UNCHANGED <<aiEnded, aiShut, adopted, aiTimers, aiOpen, dataSock>>
    BY <1>6 DEF ConnectEnds
  <2>3. DevicesOpen => DevicesOpen'
    BY <2>1, <2>2 DEF DevicesOpen, Busy, Recorded
  <2> QED
    BY <1>0, <1>6, <2>1, <2>2, <2>3 DEF DevicesInv, AutoInv
<1>7. ASSUME NEW d \in Devices, AdoptDevice(d) PROVE Outcome
  <2>1. aiConn' = [pc |-> "multicast", dev |-> d, todo |-> aiConn.todo \ {d}] /\ aiConn.pc = "next" /\ d \in aiConn.todo
    BY <1>7 DEF AdoptDevice
  <2>2. UNCHANGED <<aiEnded, aiShut, aiTimers, aiOpen, dataSock>> /\ adopted' = adopted \cup {d}
    BY <1>7 DEF AdoptDevice
  <2>6. aiConn'.pc = "multicast" /\ aiConn'.dev = d /\ aiConn'.todo = aiConn.todo \ {d}
    BY <2>1
  <2>3. DevicesOpen => DevicesOpen'
    <3> SUFFICES ASSUME DevicesOpen PROVE DevicesOpen'
        OBVIOUS
    <3>1. /\ adopted' \subseteq Devices /\ aiConn'.todo \subseteq Devices /\ adopted' \cap aiConn'.todo = {}
          /\ aiTimers' \subseteq adopted' /\ \A e \in Devices \ adopted' : dataSock'[e] = "none"
        BY <2>2, <2>6 DEF DevicesOpen
    <3>2. Busy' /\ aiConn'.dev \in adopted' /\ ~Busy
        BY <2>1, <2>2, <2>6 DEF Busy
    <3>3. \A e \in adopted' : (e \in aiTimers' /\ Recorded(e) \subseteq aiOpen') \/ (Busy' /\ e = aiConn'.dev)
      <4>1. ASSUME NEW e \in adopted, e # d PROVE e \in aiTimers' /\ Recorded(e) \subseteq aiOpen'
        BY <2>2, <3>2, <4>1 DEF DevicesOpen
      <4>2. \A e \in adopted' : e = d \/ (e \in adopted /\ e # d)
        BY <2>2
      <4>3. aiConn'.dev = d
        BY <2>6
      <4> HIDE DEF Recorded
      <4> QED
        BY ONLY <3>2, <4>1, <4>2, <4>3, Zenon
    <3>4. \A x \in aiOpen' : \E e \in adopted' : x \in Recorded(e)
        BY <2>2 DEF DevicesOpen
    <3> QED
        BY <2>6, <3>1, <3>2, <3>3, <3>4 DEF DevicesOpen, Recorded
  <2>4. aiConn'.pc = "multicast"
    BY <2>1
  <2>5. ~ConnectEnds
    BY <1>0, <2>4 DEF ConnectEnds, Opening
  <2> QED
    BY <1>0, <2>1, <2>2, <2>3, <2>4, <2>5 DEF DevicesInv, AutoInv
<1> QED
    BY <1>1, <1>2, <1>3, <1>4, <1>5, <1>6, <1>7 DEF Connecting

\* They leave the peers and the data alone, of which there are none yet.
LEMMA ConnectingKeeps ==
    ASSUME AutoInv, Connecting
    PROVE  AutoInv'
<1>1. DevicesInv' /\ (aiConn'.pc = "done" <=> ConnectEnds) /\ aiConn.pc # "done"
    BY ConnectingDevices
<1>2. UNCHANGED dataVars /\ (aiState' = aiState \/ ConnectEnds)
    BY DEF Connecting, AutoConnect, BindMulticast, BindUnicast, BindData, AbandonInterface, ConnectEnds, AdoptDevice
<1>3. dataSock' \in [Devices -> {"none", "bound", "rebinding"}]
    BY DEF Connecting, AutoConnect, BindMulticast, BindUnicast, BindData, AbandonInterface, ConnectEnds, AdoptDevice, AutoInv, AutoTyped
<1>4. AutoTyped'
    BY <1>2, <1>3 DEF AutoInv, AutoTyped, dataVars
<1>5. Quiet' /\ PeersInv' /\ DequeInv'
    BY <1>1, <1>2 DEF AutoInv, Quiet, PeersInv, DequeInv, dataVars
<1>6. repeated' = FALSE
    BY <1>2 DEF dataVars, AutoInv
<1> QED
    BY <1>1, <1>4, <1>5, <1>6 DEF AutoInv

\* Nothing is accepted any more once nothing is open and no copy is live.
LEMMA DeafStays ==
    ASSUME AutoInv, Deaf, AutoNext
    PROVE  Deaf'
<1>0. /\ aiConn.pc = "done" /\ (\A d \in Devices : dataSock[d] = "none")
      /\ \A c \in aiData : c[1] \in aiSpawned => aiInst[c[1]] # c[2]
    BY DEF Deaf, LiveCopies
<1>1. ~Connecting
    BY ConnectingDevices, <1>0
<1>2. \A a \in AutoPeers, m \in Datagrams, d \in Devices : ~OnData(a, m, d)
    BY <1>0 DEF OnData
<1>3. \A d \in Devices : ~RebindEnds(d)
    BY <1>0 DEF RebindEnds
<1>4. aiConn'.pc = "done"
    BY <1>0, <1>1, <1>2, <1>3 DEF AutoNext, Connecting, RunPeerJobs, AutoDisconnect, AutoClosed, AutoTick, OnDiscoveryMessage,
       AddPeer, DiscoveryRefused, ProcessIncoming, deviceVars
<1>5. \A d \in Devices : dataSock'[d] = "none"
    BY <1>0, <1>1, <1>2, <1>3 DEF AutoNext, Connecting, RunPeerJobs, CheckLinkLocalChange, AutoDisconnect, AutoClosed, AutoTick, OnDiscoveryMessage,
       AddPeer, DiscoveryRefused, ProcessIncoming
<1>6. aiData' \subseteq aiData
    BY <1>1, <1>2, <1>3 DEF AutoNext, Connecting, RunPeerJobs, AutoDisconnect, AutoClosed, AutoTick, OnDiscoveryMessage,
       AddPeer, DiscoveryRefused, ProcessIncoming
<1>7. ASSUME NEW a \in AutoPeers, a \in aiSpawned'
      PROVE  (a \in aiSpawned /\ aiInst'[a] = aiInst[a]) \/ aiInst'[a] = aiInst[a] + 1
    BY <1>1, <1>2, <1>3, <1>7 DEF AutoNext, Connecting, RunPeerJobs, ExpirePeers, AutoDisconnect, AutoClosed, AutoTick, OnDiscoveryMessage,
       AddPeer, DiscoveryRefused, ProcessIncoming, AutoInv, AutoTyped
<1>8. ASSUME NEW c \in aiData', c[1] \in aiSpawned' PROVE aiInst'[c[1]] # c[2]
  <2>1. c \in aiData /\ c[1] \in AutoPeers /\ c[2] \in Nat /\ c[2] <= aiInst[c[1]] /\ aiInst[c[1]] \in Nat
    BY <1>6 DEF AutoInv, AutoTyped
  <2> QED
    BY <1>0, <1>7, <1>8, <2>1
<1> QED
    BY <1>4, <1>5, <1>8 DEF Deaf, LiveCopies

\* A datagram joins the deque, the oldest making room.
LEMMA RememberKeeps ==
    ASSUME AutoTyped, NEW m \in Datagrams, Remember(m)
    PROVE  /\ mifDeque' \in Seq([hash : Datagrams, expiresAt : Nat])
           /\ \E i \in DOMAIN mifDeque' : mifDeque'[i].hash = m /\ mifDeque'[i].expiresAt = aiNow + DequeTtl
           /\ \A i \in DOMAIN mifDeque :
                \/ \E j \in DOMAIN mifDeque' : mifDeque'[j] = mifDeque[i]
                \/ mifDeque[i].expiresAt <= aiNow
                \/ mifDeque[i].hash \in displaced'
           /\ \A x \in Datagrams : x # m /\ x \notin displaced' => x \notin displaced
<1> DEFINE S == [hash : Datagrams, expiresAt : Nat]
           e == [hash |-> m, expiresAt |-> aiNow + DequeTtl]
           q == mifDeque
           grown == Append(q, e)
<1>1. q \in Seq(S) /\ aiNow \in Nat /\ DequeTtl \in Nat /\ DequeLen \in Nat /\ DequeLen > 0
    BY AutoAssumption DEF AutoTyped
<1>2. e \in S /\ e.hash = m /\ e.expiresAt = aiNow + DequeTtl
    BY <1>1
<1>3. /\ mifDeque' = IF Len(grown) > DequeLen THEN Tail(grown) ELSE grown
      /\ displaced' = (displaced \ {m}) \cup
           IF Len(grown) > DequeLen /\ Head(grown).expiresAt > aiNow THEN {Head(grown).hash} ELSE {}
    BY DEF Remember
<1> HIDE DEF e, S
<1>4. grown \in Seq(S) /\ Len(grown) = Len(q) + 1 /\ (\A i \in 1..Len(q) : grown[i] = q[i]) /\ grown[Len(q) + 1] = e /\ Len(q) \in Nat
      /\ DOMAIN q = 1..Len(q)
    BY <1>1, <1>2
<1> HIDE DEF grown, q
<1>5. CASE ~(Len(grown) > DequeLen)
  <2>1. mifDeque' = grown /\ displaced' = displaced \ {m} /\ DOMAIN grown = 1..(Len(q) + 1)
    BY <1>3, <1>4, <1>5
  <2>2. Len(q) + 1 \in DOMAIN grown /\ \A i \in DOMAIN q : i \in DOMAIN grown
    BY <1>4, <2>1
  <2> QED
    BY <1>2, <1>4, <2>1, <2>2 DEF q, S
<1>6. CASE Len(grown) > DequeLen
  <2> DEFINE p == Tail(grown)
  <2>1. p \in Seq(S) /\ Len(p) = Len(q) /\ (\A i \in 1..Len(q) : p[i] = grown[i + 1]) /\ Head(grown) = grown[1]
    BY <1>4, HeadTailProperties
  <2>2. DOMAIN p = 1..Len(q)
    BY <1>4, <2>1
  <2>3. mifDeque' = p
    BY <1>3, <1>6
  <2> HIDE DEF p
  <2>4. Len(q) > 0
    BY <1>1, <1>4, <1>6
  <2>5. Len(q) \in DOMAIN p /\ p[Len(q)] = e
    BY <1>4, <2>1, <2>2, <2>4
  <2>6. ASSUME NEW i \in DOMAIN q
        PROVE  (\E j \in DOMAIN p : p[j] = q[i]) \/ q[i].expiresAt <= aiNow \/ q[i].hash \in displaced'
    <3>1. CASE i = 1
      <4>1. q[i] = Head(grown) /\ q[i].expiresAt \in Nat
        <5>1. 1 \in 1..Len(q) /\ q[i] \in S
            BY <1>1, <1>4, <2>4
        <5>2. q[i] = Head(grown)
            BY <1>4, <2>1, <3>1, <5>1
        <5>3. \A r \in S : r.expiresAt \in Nat
            BY DEF S
        <5> QED
            BY <5>1, <5>2, <5>3
      <4>2. CASE q[i].expiresAt > aiNow
        BY <1>3, <1>6, <4>1, <4>2
      <4>3. CASE ~(q[i].expiresAt > aiNow)
        BY <1>1, <4>1, <4>3
      <4> QED
        BY <4>2, <4>3
    <3>2. CASE i # 1
      <4>1. i - 1 \in DOMAIN p /\ (i - 1) + 1 = i /\ i \in 1..Len(q)
        BY <1>4, <2>2, <3>2
      <4>2. p[i - 1] = q[i]
        BY <1>4, <2>1, <2>2, <4>1
      <4> QED
        BY <4>1, <4>2
    <3> QED
        BY <3>1, <3>2
  <2>7. \A x \in Datagrams : x # m /\ x \notin displaced' => x \notin displaced
    BY <1>3
  <2> QED
    BY <1>2, <2>1, <2>3, <2>5, <2>6, <2>7 DEF q, S
<1> QED
    BY <1>5, <1>6

\* What the deque holds has a time.
LEMMA DequeTyped == AutoTyped => \A i \in DOMAIN mifDeque : mifDeque[i].expiresAt \in Nat
<1> DEFINE S == [hash : Datagrams, expiresAt : Nat]
<1> SUFFICES ASSUME AutoTyped, NEW i \in DOMAIN mifDeque PROVE mifDeque[i].expiresAt \in Nat
    OBVIOUS
<1>1. mifDeque \in Seq(S)
    BY DEF AutoTyped
<1>2. \A r \in S : r.expiresAt \in Nat
    OBVIOUS
<1> HIDE DEF S
<1>3. mifDeque[i] \in S
    BY <1>1
<1> QED
    BY <1>2, <1>3

\* The rest of processIncoming.
LEMMA ProcessIncomingKeeps ==
    ASSUME AutoInv, NEW c \in aiData, ProcessIncoming(c[1], c[2], c[3], c[4])
    PROVE  AutoInv'
<1> DEFINE m == c[3]
<1>0. /\ c[1] \in AutoPeers /\ m \in Datagrams /\ aiNow \in Nat \ {0} /\ DequeTtl \in Nat \ {0} /\ acceptedAt \in [Datagrams -> Nat]
      /\ AutoTyped /\ DequeInv /\ \A x \in Datagrams : acceptedAt[x] <= aiNow
    BY AutoAssumption DEF AutoInv, AutoTyped
<1>1. /\ aiData' \subseteq aiData
      /\ UNCHANGED <<aiConn, aiOpen, aiTimers, aiShut, aiEnded, aiInst, aiState, adopted, dataSock, aiSpawned, aiHashing, aiNow>>
    BY DEF ProcessIncoming, deviceVars
<1>2. Deaf => Deaf'
    BY <1>1 DEF Deaf, LiveCopies
<1>3. aiPeers' \in [AutoPeers -> Nat] /\ \A a \in AutoPeers : aiPeers'[a] = 0 <=> aiPeers[a] = 0
    BY <1>0 DEF ProcessIncoming, AutoTyped
<1>4. PeersInv' /\ Quiet'
  <2>1. aiConn.pc = "done"
    BY DEF AutoInv, Quiet
  <2> QED
    BY <1>1, <1>3, <2>1 DEF PeersInv, Quiet, AutoInv
<1>5. DevicesInv'
    BY <1>1 DEF DevicesInv, DevicesOpen, Busy, AutoInv
<1>6. CASE IsDuplicate(m)
  <2>1. UNCHANGED <<mifDeque, acceptedAt, displaced, repeated>>
    BY <1>6 DEF ProcessIncoming
  <2>2. AutoTyped'
    BY <1>0, <1>1, <1>3, <2>1 DEF AutoTyped
  <2>3. DequeInv'
    BY <1>1, <1>2, <2>1 DEF DequeInv, InDeque, AutoInv
  <2> QED
    BY <1>4, <1>5, <2>1, <2>2, <2>3 DEF AutoInv
<1>7. CASE ~IsDuplicate(m)
  <2>1. Remember(m)
    BY <1>7 DEF ProcessIncoming
  <2>2. /\ mifDeque' \in Seq([hash : Datagrams, expiresAt : Nat])
        /\ \E i \in DOMAIN mifDeque' : mifDeque'[i].hash = m /\ mifDeque'[i].expiresAt = aiNow + DequeTtl
        /\ \A i \in DOMAIN mifDeque :
             \/ \E j \in DOMAIN mifDeque' : mifDeque'[j] = mifDeque[i]
             \/ mifDeque[i].expiresAt <= aiNow
             \/ mifDeque[i].hash \in displaced'
        /\ \A x \in Datagrams : x # m /\ x \notin displaced' => x \notin displaced
    BY <1>0, <2>1, RememberKeeps
  <2>3. \/ acceptedAt' = [acceptedAt EXCEPT ![m] = aiNow]
        \/ acceptedAt' = acceptedAt
    BY <1>7 DEF ProcessIncoming
  <2>4. /\ acceptedAt' \in [Datagrams -> Nat] /\ acceptedAt'[m] \in Nat /\ acceptedAt'[m] <= aiNow
        /\ \A x \in Datagrams : x # m => acceptedAt'[x] = acceptedAt[x]
    BY <1>0, <2>3
  <2>5. AutoTyped'
    BY <1>0, <1>1, <1>3, <2>2, <2>4 DEF AutoTyped
  <2>6. DequeInv'
    <3> SUFFICES ASSUME NEW x \in Datagrams, acceptedAt'[x] # 0, aiNow' < acceptedAt'[x] + DequeTtl, x \notin displaced'
                 PROVE  Deaf' \/ InDeque(x)'
        BY DEF DequeInv
    <3>1. CASE x = m
      <4>1. PICK i \in DOMAIN mifDeque' : mifDeque'[i].hash = m /\ mifDeque'[i].expiresAt = aiNow + DequeTtl
        BY <2>2
      <4>2. aiNow + DequeTtl >= acceptedAt'[m] + DequeTtl
        BY <1>0, <2>4
      <4> QED
        BY <3>1, <4>1, <4>2 DEF InDeque
    <3>2. CASE x # m
      <4>1. acceptedAt'[x] = acceptedAt[x] /\ x \notin displaced /\ aiNow' = aiNow
        BY <1>1, <2>2, <2>4, <3>2
      <4>2. CASE Deaf
        BY <1>2, <4>2
      <4>3. CASE InDeque(x)
        <5>1. PICK i \in DOMAIN mifDeque : mifDeque[i].hash = x /\ mifDeque[i].expiresAt >= acceptedAt[x] + DequeTtl
            BY <4>3 DEF InDeque
        <5>2. mifDeque[i].expiresAt \in Nat
            BY <1>0, <5>1, DequeTyped
        <5>3. ~(mifDeque[i].expiresAt <= aiNow)
            BY <1>0, <4>1, <5>1, <5>2
        <5>4. PICK j \in DOMAIN mifDeque' : mifDeque'[j] = mifDeque[i]
            BY <2>2, <5>1, <5>3
        <5> QED
            BY <4>1, <5>1, <5>4 DEF InDeque
      <4> QED
        BY <1>0, <4>1, <4>2, <4>3 DEF DequeInv
    <3> QED
        BY <3>1, <3>2
  <2>7. repeated' = FALSE
    <3>1. repeated = FALSE
        BY DEF AutoInv
    <3>2. CASE c[1] \in aiSpawned /\ aiInst[c[1]] = c[2]
      <4>1. repeated' = (repeated \/ (acceptedAt[m] # 0 /\ aiNow < acceptedAt[m] + DequeTtl /\ m \notin displaced))
        BY <1>7, <3>2 DEF ProcessIncoming
      <4>2. ~(acceptedAt[m] # 0 /\ aiNow < acceptedAt[m] + DequeTtl /\ m \notin displaced)
        <5> SUFFICES ASSUME acceptedAt[m] # 0, aiNow < acceptedAt[m] + DequeTtl, m \notin displaced PROVE FALSE
            OBVIOUS
        <5>1. ~Deaf
            BY <3>2 DEF Deaf, LiveCopies
        <5>2. PICK i \in DOMAIN mifDeque : mifDeque[i].hash = m /\ mifDeque[i].expiresAt >= acceptedAt[m] + DequeTtl
            BY <1>0, <5>1 DEF DequeInv, InDeque
        <5>3. mifDeque[i].expiresAt \in Nat
            BY <1>0, <5>2, DequeTyped
        <5>4. mifDeque[i].expiresAt > aiNow
            BY <1>0, <5>2, <5>3
        <5> QED
            BY <1>7, <5>2, <5>4 DEF IsDuplicate
      <4> QED
        BY ONLY <3>1, <4>1, <4>2, Zenon
    <3>3. CASE ~(c[1] \in aiSpawned /\ aiInst[c[1]] = c[2])
      <4>1. repeated' = repeated
        BY <1>7, <3>3 DEF ProcessIncoming
      <4> QED
        BY <3>1, <4>1
    <3> QED
        BY <3>2, <3>3
  <2> QED
    BY <1>4, <1>5, <2>5, <2>6, <2>7 DEF AutoInv
<1> QED
    BY <1>6, <1>7

\* The steps that neither open a socket nor look at a datagram.
Others ==
    \/ RunPeerJobs \/ AutoDisconnect \/ AutoClosed \/ AutoTick
    \/ \E a \in AutoPeers : OnDiscoveryMessage(a) \/ AddPeer(a) \/ DiscoveryRefused(a)
    \/ \E d \in Devices : RebindEnds(d)
    \/ \E a \in AutoPeers, m \in Datagrams, d \in Devices : OnData(a, m, d)

\* They keep the invariant as well.
LEMMA OthersKeep ==
    ASSUME AutoInv, Others
    PROVE  AutoInv'
<1> USE DEF Others
<1>0. AutoTyped /\ Quiet /\ PeersInv /\ DequeInv /\ DevicesInv /\ repeated = FALSE
    BY DEF AutoInv
<1>1. UNCHANGED <<aiConn, adopted, acceptedAt, displaced, repeated>>
    BY DEF RunPeerJobs, AutoDisconnect, AutoClosed, AutoTick, OnDiscoveryMessage, AddPeer, DiscoveryRefused, RebindEnds, OnData, deviceVars
<1>2. aiNow' \in Nat /\ aiNow' >= aiNow
  <2>1. aiNow' = aiNow \/ aiNow' = aiNow + 1
    BY DEF RunPeerJobs, AutoDisconnect, AutoClosed, AutoTick, OnDiscoveryMessage, AddPeer, DiscoveryRefused, RebindEnds, OnData
  <2> QED
    BY <1>0, <2>1 DEF AutoTyped
<1>3. AutoTyped'
  <2>1. dataSock' \in [Devices -> {"none", "bound", "rebinding"}]
    BY <1>0 DEF RunPeerJobs, CheckLinkLocalChange, AutoDisconnect, AutoClosed, AutoTick, OnDiscoveryMessage, AddPeer, DiscoveryRefused, RebindEnds, OnData, AutoTyped
  <2>2. /\ aiPeers' \in [AutoPeers -> Nat] /\ aiInst' \in [AutoPeers -> Nat] /\ aiHashing' \subseteq AutoPeers
        /\ \A a \in AutoPeers : aiInst'[a] >= aiInst[a]
    <3> USE <1>0 DEF AutoTyped
    <3>1. CASE RunPeerJobs
        BY <3>1 DEF RunPeerJobs, ExpirePeers
    <3>2. CASE AutoClosed
        BY <3>2 DEF AutoClosed
    <3>3. ASSUME NEW a \in AutoPeers, OnDiscoveryMessage(a) \/ DiscoveryRefused(a)
          PROVE  aiPeers' = aiPeers /\ aiInst' = aiInst /\ aiHashing' \subseteq AutoPeers
        BY <3>3 DEF OnDiscoveryMessage, DiscoveryRefused
    <3>6. CASE aiPeers' = aiPeers /\ aiInst' = aiInst /\ aiHashing' \subseteq AutoPeers
        BY <3>6
    <3>4. ASSUME NEW a \in AutoPeers, AddPeer(a)
          PROVE  /\ aiPeers' \in [AutoPeers -> Nat] /\ aiInst' \in [AutoPeers -> Nat] /\ aiHashing' \subseteq AutoPeers
                 /\ \A b \in AutoPeers : aiInst'[b] >= aiInst[b]
      <4>1. aiInst' \in [AutoPeers -> Nat] /\ \A b \in AutoPeers : aiInst'[b] >= aiInst[b]
        <5>1. aiInst' = aiInst \/ aiInst' = [aiInst EXCEPT ![a] = @ + 1]
            BY <3>4 DEF AddPeer
        <5>2. aiInst \in [AutoPeers -> Nat]
            OBVIOUS
        <5>3. CASE aiInst' = aiInst
            BY ONLY <5>2, <5>3
        <5>4. CASE aiInst' = [aiInst EXCEPT ![a] = @ + 1]
            BY ONLY <5>2, <5>4
        <5> QED
            BY ONLY <5>1, <5>3, <5>4
      <4>2. aiPeers' = [aiPeers EXCEPT ![a] = aiNow] /\ aiHashing' = aiHashing \ {a}
        BY <3>4 DEF AddPeer
      <4> QED
        BY <4>1, <4>2
    <3>5. \/ RunPeerJobs \/ AutoClosed \/ (aiPeers' = aiPeers /\ aiInst' = aiInst /\ aiHashing' \subseteq AutoPeers)
          \/ \E a \in AutoPeers : OnDiscoveryMessage(a) \/ AddPeer(a) \/ DiscoveryRefused(a)
        BY DEF AutoDisconnect, AutoTick, RebindEnds, OnData
    <3> QED
        BY <3>1, <3>2, <3>3, <3>4, <3>5, <3>6
  <2>3. ASSUME NEW c \in aiData' PROVE c[1] \in AutoPeers /\ c[2] \in Nat /\ c[3] \in Datagrams /\ c[2] <= aiInst'[c[1]]
    <3>1. \/ c \in aiData
          \/ \E a \in AutoPeers, m \in Datagrams, d \in Devices : c = <<a, aiInst[a], m, d>> /\ aiInst' = aiInst
      <4>1. ASSUME NEW a \in AutoPeers, NEW m \in Datagrams, NEW d \in Devices, OnData(a, m, d)
            PROVE  c \in aiData \/ (c = <<a, aiInst[a], m, d>> /\ aiInst' = aiInst)
        BY <4>1 DEF OnData
      <4>2. aiData' = aiData \/ \E a \in AutoPeers, m \in Datagrams, d \in Devices : OnData(a, m, d)
        BY DEF RunPeerJobs, AutoDisconnect, AutoClosed, AutoTick, OnDiscoveryMessage, AddPeer, DiscoveryRefused, RebindEnds
      <4> QED
        BY <4>1, <4>2
    <3>2. CASE c \in aiData
      <4>1. c[1] \in AutoPeers /\ c[2] \in Nat /\ c[3] \in Datagrams /\ c[2] <= aiInst[c[1]] /\ aiInst[c[1]] \in Nat
        BY ONLY <1>0, <3>2 DEF AutoTyped
      <4>2. aiInst'[c[1]] >= aiInst[c[1]] /\ aiInst'[c[1]] \in Nat
        BY ONLY <2>2, <4>1
      <4> QED
        BY ONLY <4>1, <4>2
    <3>3. ASSUME NEW a \in AutoPeers, NEW m \in Datagrams, NEW d \in Devices, c = <<a, aiInst[a], m, d>>, aiInst' = aiInst
          PROVE  c[1] \in AutoPeers /\ c[2] \in Nat /\ c[3] \in Datagrams /\ c[2] <= aiInst'[c[1]]
      <4>1. aiInst[a] \in Nat
        BY ONLY <1>0, <3>3 DEF AutoTyped
      <4>2. c[1] = a /\ c[2] = aiInst[a] /\ c[3] = m
        BY ONLY <3>3
      <4> QED
        BY ONLY <3>3, <4>1, <4>2
    <3> QED
        BY ONLY <3>1, <3>2, <3>3
  <2>4. mifDeque' \in Seq([hash : Datagrams, expiresAt : Nat])
    <3>1. mifDeque' = mifDeque \/ mifDeque' = << >>
        BY DEF RunPeerJobs, AutoDisconnect, AutoClosed, AutoTick, OnDiscoveryMessage, AddPeer, DiscoveryRefused, RebindEnds, OnData
    <3> DEFINE S == [hash : Datagrams, expiresAt : Nat]
    <3>2. mifDeque \in Seq(S)
        BY <1>0 DEF AutoTyped
    <3> HIDE DEF S
    <3>3. mifDeque' \in Seq(S)
        BY ONLY <3>1, <3>2, EmptySeq
    <3> QED
        BY <3>3 DEF S
  <2>5. aiNow' \in Nat \ {0} /\ acceptedAt' \in [Datagrams -> Nat] /\ \A m \in Datagrams : acceptedAt'[m] <= aiNow'
    BY <1>0, <1>1, <1>2 DEF AutoTyped
  <2> QED
    BY <2>1, <2>2, <2>3, <2>4, <2>5 DEF AutoTyped
<1>4. Quiet'
    BY <1>0, <1>1 DEF Quiet, RunPeerJobs, AutoDisconnect, AutoClosed, AutoTick, OnDiscoveryMessage, AddPeer, DiscoveryRefused, RebindEnds, OnData
<1>5. PeersInv'
  <2> USE <1>0 DEF AutoTyped
  <2>1. CASE RunPeerJobs
    BY <2>1 DEF RunPeerJobs, ExpirePeers, TimedOut, PeersInv
  <2>2. CASE AutoDisconnect
    BY <2>2 DEF AutoDisconnect, PeersInv
  <2>3. CASE AutoClosed
    BY <2>3 DEF AutoClosed, PeersInv
  <2>4. ASSUME NEW a \in AutoPeers, AddPeer(a) PROVE PeersInv'
    BY <2>4 DEF AddPeer, PeersInv
  <2>5. CASE UNCHANGED <<aiState, aiSpawned, aiPeers>>
    BY <2>5 DEF PeersInv
  <2> QED
    BY <2>1, <2>2, <2>3, <2>4, <2>5 DEF AutoTick, OnDiscoveryMessage, DiscoveryRefused, RebindEnds, OnData
<1>6. DequeInv'
  <2> SUFFICES ASSUME NEW x \in Datagrams, acceptedAt'[x] # 0, aiNow' < acceptedAt'[x] + DequeTtl, x \notin displaced'
               PROVE  Deaf' \/ InDeque(x)'
    BY DEF DequeInv
  <2>1. aiNow < acceptedAt[x] + DequeTtl /\ acceptedAt[x] # 0 /\ x \notin displaced
    BY <1>0, <1>1, <1>2, AutoAssumption DEF AutoTyped
  <2>2. CASE Deaf
    BY <2>2, DeafStays DEF AutoNext
  <2>3. CASE InDeque(x) /\ mifDeque' = mifDeque
    BY <1>1, <2>3 DEF InDeque
  <2>4. CASE AutoClosed
    <3>1. aiConn.pc = "done"
        BY <1>0, <2>1 DEF Quiet
    <3> QED
        BY <1>1, <2>4, <3>1 DEF AutoClosed, Deaf, LiveCopies
  <2>5. mifDeque' = mifDeque \/ AutoClosed
    BY DEF RunPeerJobs, AutoDisconnect, AutoTick, OnDiscoveryMessage, AddPeer, DiscoveryRefused, RebindEnds, OnData
  <2> QED
    BY <1>0, <2>1, <2>2, <2>3, <2>4, <2>5 DEF DequeInv
<1>7. DevicesInv'
  <2>1. CASE AutoDisconnect \/ AutoClosed
    <3>1. aiShut'.waits \/ aiEnded'
      <4>1. CASE AutoDisconnect
        BY <4>1 DEF AutoDisconnect
      <4>2. CASE AutoClosed
        BY <4>2, Zenon DEF AutoClosed
      <4> QED
        BY <2>1, <4>1, <4>2
    <3> QED
        BY <1>0, <1>1, <3>1 DEF DevicesInv
  <2>2. CASE ~(AutoDisconnect \/ AutoClosed)
    <3>1. UNCHANGED <<aiEnded, aiShut, aiOpen, aiTimers>>
        BY <2>2 DEF RunPeerJobs, AutoTick, OnDiscoveryMessage, AddPeer, DiscoveryRefused, RebindEnds, OnData, deviceVars
    <3>2. \A d \in Devices : dataSock[d] = "none" => dataSock'[d] = "none"
        BY <1>0, <2>2 DEF RunPeerJobs, CheckLinkLocalChange, AutoTick, OnDiscoveryMessage, AddPeer, DiscoveryRefused, RebindEnds, OnData, AutoTyped
    <3>3. DevicesOpen => DevicesOpen'
        BY <1>1, <3>1, <3>2 DEF DevicesOpen, Busy
    <3> QED
        BY <1>0, <1>1, <3>1, <3>3 DEF DevicesInv
  <2> QED
    BY <2>1, <2>2
<1> QED
    BY <1>0, <1>1, <1>3, <1>4, <1>5, <1>6, <1>7 DEF AutoInv

\* Every step keeps the invariant.
LEMMA AutoInductive == AutoInv /\ [AutoNext]_autoVars => AutoInv'
<1> SUFFICES ASSUME AutoInv, [AutoNext]_autoVars PROVE AutoInv'
    OBVIOUS
<1>1. CASE AutoNext
    BY <1>1, ConnectingKeeps, ProcessIncomingKeeps, OthersKeep DEF AutoNext, Connecting, Others
<1>2. CASE UNCHANGED autoVars
  <2>1. UNCHANGED <<aiConn, aiOpen, aiTimers, aiShut, aiEnded, dataVars, aiState, adopted, dataSock>>
    BY <1>2 DEF autoVars, deviceVars, dataVars
  <2> QED
    BY <2>1 DEF AutoInv, AutoTyped, Quiet, PeersInv, DequeInv, Deaf, LiveCopies, InDeque, DevicesInv, DevicesOpen, Busy, dataVars
<1> QED
    BY <1>1, <1>2

\* AutoPeering for any devices, addresses, datagrams, deque and timeouts, and any order of
\* connect(), disconnect(), peer jobs and datagrams.
THEOREM AutoSafety == AutoInit /\ [][AutoNext]_autoVars => []AutoPeering
<1>1. AutoInv => AutoPeering
  <2> SUFFICES ASSUME AutoInv PROVE AutoPeering
    OBVIOUS
  <2>1. ~repeated
    BY DEF AutoInv
  <2>2. aiState = "on" => aiSpawned = {a \in AutoPeers : aiPeers[a] # 0}
    BY DEF AutoInv, PeersInv
  <2>3. ASSUME aiState = "on", ~aiEnded, ~aiShut.waits
        PROVE  /\ adopted = aiTimers /\ aiOpen = UNION {Recorded(d) : d \in adopted}
               /\ \A d \in Devices \ adopted : dataSock[d] = "none"
    <3>1. aiConn.pc = "done" /\ DevicesOpen /\ ~Busy
        BY <2>3 DEF AutoInv, Quiet, DevicesInv, Busy
    <3>2. \A d \in adopted : d \in aiTimers /\ Recorded(d) \subseteq aiOpen
        BY <3>1 DEF DevicesOpen
    <3> QED
        BY <3>1, <3>2 DEF DevicesOpen
  <2> QED
    BY <2>1, <2>2, <2>3 DEF AutoPeering
<1> QED
    BY AutoInitially, AutoInductive, <1>1, PTL

-----------------------------------------------------------------------------
\* Framing.

\* The rank of a position among others.
Rank(ns, n) == Cardinality({o \in ns : o <= n})

\* The positions of a finite set are numbered from one by their rank.
LEMMA Ranked ==
    ASSUME NEW ns, ns \subseteq Nat, IsFiniteSet(ns)
    PROVE  /\ Cardinality(ns) \in Nat
           /\ \A n \in ns : Rank(ns, n) \in 1..Cardinality(ns)
           /\ \A n, o \in ns : Rank(ns, n) = Rank(ns, o) => n = o
           /\ \A k \in 1..Cardinality(ns) : \E n \in ns : Rank(ns, n) = k
<1> DEFINE upTo(n) == {o \in ns : o <= n}
           r == [n \in ns |-> Rank(ns, n)]
<1>1. Cardinality(ns) \in Nat
    BY FS_CardinalityType
<1>2. ASSUME NEW n \in ns
      PROVE  IsFiniteSet(upTo(n)) /\ Cardinality(upTo(n)) \in Nat /\ Cardinality(upTo(n)) <= Cardinality(ns) /\ n \in upTo(n)
    BY FS_Subset, FS_CardinalityType
<1>3. ASSUME NEW n \in ns PROVE Rank(ns, n) \in 1..Cardinality(ns)
  <2>1. Cardinality(upTo(n)) # 0
    BY <1>2, FS_EmptySet
  <2> QED
    BY <1>1, <1>2, <2>1 DEF Rank
<1>4. ASSUME NEW n \in ns, NEW o \in ns, n < o PROVE Rank(ns, n) # Rank(ns, o)
  <2>1. ASSUME NEW x \in ns, x <= n PROVE x <= o
    BY <1>4, <2>1
  <2>2. o <= o /\ ~(o <= n)
    BY <1>4
  <2>3. upTo(n) \in SUBSET upTo(o) /\ o \in upTo(o) /\ o \notin upTo(n)
    BY ONLY <1>4, <2>1, <2>2, Zenon
  <2>4. Cardinality(upTo(o)) = Cardinality(upTo(n)) => upTo(o) = upTo(n)
    BY <1>2, <2>3, FS_Subset
  <2> QED
    BY <2>3, <2>4 DEF Rank
<1>5. ASSUME NEW n \in ns, NEW o \in ns, Rank(ns, n) = Rank(ns, o) PROVE n = o
    BY <1>4, <1>5
<1>6. r \in Injection(ns, 1..Cardinality(ns))
    BY <1>3, <1>5 DEF Injection, IsInjective
<1>7. IsFiniteSet(1..Cardinality(ns)) /\ Cardinality(1..Cardinality(ns)) = Cardinality(ns)
    BY <1>1, FS_Interval
<1>8. r \in Surjection(ns, 1..Cardinality(ns))
    BY <1>6, <1>7, FS_Injection
<1>9. ASSUME NEW k \in 1..Cardinality(ns) PROVE \E n \in ns : Rank(ns, n) = k
    BY <1>8 DEF Surjection
<1> QED
    BY <1>1, <1>3, <1>5, <1>9

\* What is taken from the positions has one entry for each, at its rank, and nothing else has.
LEMMA AtRanks ==
    ASSUME NEW q, NEW ns, ns \subseteq Nat, IsFiniteSet(ns)
    PROVE  /\ DOMAIN AtPositions(q, ns) = 1..Cardinality(ns)
           /\ \A n \in ns : AtPositions(q, ns)[Rank(ns, n)] = q[n]
<1> DEFINE N == Cardinality(ns)
           nth(k) == CHOOSE n \in ns : Rank(ns, n) = k
<1>1. AtPositions(q, ns) = [k \in 1..N |-> q[nth(k)]]
    BY DEF AtPositions, Rank
<1>2. ASSUME NEW k \in 1..N PROVE nth(k) \in ns /\ Rank(ns, nth(k)) = k
    BY Ranked
<1>3. ASSUME NEW n \in ns PROVE Rank(ns, n) \in 1..N /\ nth(Rank(ns, n)) = n
  <2>1. Rank(ns, n) \in 1..N
    BY Ranked
  <2>2. nth(Rank(ns, n)) \in ns /\ Rank(ns, nth(Rank(ns, n))) = Rank(ns, n)
    BY <1>2, <2>1
  <2> QED
    BY <2>1, <2>2, Ranked
<1> HIDE DEF nth, N
<1>4. \A n \in ns : AtPositions(q, ns)[Rank(ns, n)] = q[n]
    BY <1>1, <1>3
<1>5. DOMAIN AtPositions(q, ns) = 1..N
    BY <1>1
<1> QED
    BY <1>4, <1>5 DEF N

\* Whatever holds the same at every rank is that sequence.
HoldsRanks(f, q, ns) == f = [k \in 1..Cardinality(ns) |-> f[k]] /\ \A n \in ns : f[Rank(ns, n)] = q[n]

LEMMA AtUnique ==
    ASSUME NEW q, NEW ns, NEW f, ns \subseteq Nat, IsFiniteSet(ns), HoldsRanks(f, q, ns)
    PROVE  f = AtPositions(q, ns)
<1> DEFINE N == Cardinality(ns)
           nth(k) == CHOOSE n \in ns : Rank(ns, n) = k
<1>1. AtPositions(q, ns) = [k \in 1..N |-> q[nth(k)]]
    BY DEF AtPositions, Rank
<1>2. ASSUME NEW k \in 1..N PROVE nth(k) \in ns /\ Rank(ns, nth(k)) = k
    BY Ranked
<1>3. ASSUME NEW k \in 1..N PROVE f[k] = q[nth(k)]
    BY <1>2 DEF HoldsRanks
<1>4. [k \in 1..N |-> f[k]] = [k \in 1..N |-> q[nth(k)]]
    BY <1>3
<1> QED
    BY <1>1, <1>4, Zenon DEF HoldsRanks

\* It is a sequence of what is held there.
TypedAt(q, ns, S) == \A n \in ns : q[n] \in S

LEMMA AtTyped ==
    ASSUME NEW S, NEW q, NEW ns, ns \subseteq Nat, IsFiniteSet(ns), TypedAt(q, ns, S)
    PROVE  AtPositions(q, ns) \in Seq(S) /\ Len(AtPositions(q, ns)) = Cardinality(ns)
<1> DEFINE p == AtPositions(q, ns)
           N == Cardinality(ns)
<1>1. DOMAIN p = 1..N /\ N \in Nat /\ \A n \in ns : p[Rank(ns, n)] = q[n]
    BY AtRanks, FS_CardinalityType
<1>2. \A k \in 1..N : \E n \in ns : Rank(ns, n) = k
    BY Ranked
<1>3. p = [k \in 1..N |-> p[k]]
    BY <1>1 DEF AtPositions
<1> HIDE DEF p, N
<1>4. \A k \in 1..N : p[k] \in S
    BY <1>1, <1>2 DEF TypedAt
<1>5. PICK f : f = p
    OBVIOUS
<1>6. f = [k \in 1..N |-> f[k]] /\ \A k \in 1..N : f[k] \in S
    BY ONLY <1>3, <1>4, <1>5, Zenon
<1>7. f \in [1..N -> S]
    BY <1>6
<1>8. f \in Seq(S) /\ Len(f) = N
    BY <1>1, <1>7
<1> QED
    BY <1>5, <1>8 DEF p, N

\* It depends on nothing else.
LEMMA AtSame ==
    ASSUME NEW q, NEW r, NEW ns, ns \subseteq Nat, IsFiniteSet(ns), \A n \in ns : q[n] = r[n]
    PROVE  AtPositions(q, ns) = AtPositions(r, ns)
<1>1. PICK f : f = AtPositions(q, ns)
    OBVIOUS
<1>2. f = [k \in 1..Cardinality(ns) |-> f[k]]
    BY <1>1 DEF AtPositions
<1>3. \A n \in ns : f[Rank(ns, n)] = q[n]
    BY <1>1, AtRanks
<1>4. HoldsRanks(f, r, ns)
    BY <1>2, <1>3 DEF HoldsRanks
<1> QED
    BY <1>1, <1>4, AtUnique

LEMMA AtNone == ASSUME NEW q PROVE AtPositions(q, {}) = << >>
    BY FS_EmptySet DEF AtPositions

\* A position behind the others adds an entry at the end.
LEMMA AtOneMore ==
    ASSUME NEW S, NEW q, NEW ns, NEW m \in Nat, NEW all, all = ns \cup {m}, ns \subseteq Nat, IsFiniteSet(ns), \A n \in ns : n < m,
           TypedAt(q, ns, S), q[m] \in S
    PROVE  AtPositions(q, all) = Append(AtPositions(q, ns), q[m])
<1> DEFINE N == Cardinality(ns)
           p == AtPositions(q, ns)
           f == Append(p, q[m])
<1>1. N \in Nat /\ IsFiniteSet(all) /\ all \subseteq Nat /\ Cardinality(all) = N + 1
  <2>1. m \notin ns
    OBVIOUS
  <2> QED
    BY <2>1, FS_CardinalityType, FS_AddElement
<1>2. ASSUME NEW n \in ns PROVE Rank(all, n) = Rank(ns, n)
  <2>1. {o \in all : o <= n} = {o \in ns : o <= n}
    OBVIOUS
  <2> QED
    BY <2>1 DEF Rank
<1>3. Rank(all, m) = N + 1
  <2>1. ASSUME NEW o \in all PROVE o <= m
    BY <1>1
  <2>2. {o \in all : o <= m} = all
    BY ONLY <2>1, Zenon
  <2> QED
    BY <1>1, <2>2 DEF Rank
<1>4. p \in Seq(S) /\ Len(p) = N /\ q[m] \in S
  <2>1. TypedAt(q, ns, S) /\ q[m] \in S
    BY DEF TypedAt
  <2> QED
    BY <2>1, AtTyped
<1>5. \A n \in ns : p[Rank(ns, n)] = q[n] /\ Rank(ns, n) \in 1..N
    BY AtRanks, Ranked
<1> HIDE DEF N, p
<1>6. f = [k \in 1..N + 1 |-> f[k]] /\ f[N + 1] = q[m] /\ \A k \in 1..N : f[k] = p[k]
    BY <1>1, <1>4
<1> HIDE DEF f
<1>7. \A n \in all : f[Rank(all, n)] = q[n]
    BY <1>2, <1>3, <1>5, <1>6
<1>8. f = AtPositions(q, all)
  <2>1. PICK g : g = f
    OBVIOUS
  <2>2. HoldsRanks(g, q, all)
    BY ONLY <1>1, <1>6, <1>7, <2>1, Zenon DEF HoldsRanks
  <2>3. g = AtPositions(q, all)
    BY ONLY <1>1, <2>2, AtUnique
  <2> QED
    BY <2>1, <2>3
<1> QED
    BY <1>8 DEF f, p

\* What hdlcUnescape makes of a buffer whose escapes are valid.
PlainOf(buf) == [i \in DOMAIN buf |-> IF i > 1 /\ buf[i - 1] = "esc" THEN Plain(buf[i]) ELSE buf[i]]
Kept(buf) == {i \in DOMAIN buf : buf[i] # "esc"}
Decoded(buf) == AtPositions(PlainOf(buf), Kept(buf))
EscapeLast(buf) == buf # << >> /\ buf[Len(buf)] = "esc"
WellEscaped(buf) == \A i \in DOMAIN buf : buf[i] = "esc" /\ i < Len(buf) => buf[i + 1] \in {"tend", "tesc"}

LEMMA UnescapeDecodes ==
    ASSUME NEW buf \in Seq(Bytes), WellEscaped(buf), ~EscapeLast(buf)
    PROVE  HdlcUnescape(buf) = Decoded(buf)
<1>1. \A i \in DOMAIN buf : buf[i] = "esc" => i < Len(buf) /\ buf[i + 1] \in {"tend", "tesc"}
  <2>1. ASSUME NEW i \in DOMAIN buf, buf[i] = "esc" PROVE i < Len(buf)
    BY <2>1 DEF EscapeLast
  <2> QED
    BY <2>1 DEF WellEscaped
<1> QED
    BY <1>1, Zenon DEF HdlcUnescape, Decoded, PlainOf, Kept

LEMMA KeptFinite ==
    ASSUME NEW buf \in Seq(Bytes)
    PROVE  Kept(buf) \subseteq Nat /\ IsFiniteSet(Kept(buf))
<1>1. Kept(buf) \subseteq 1..Len(buf)
    BY DEF Kept
<1>2. IsFiniteSet(1..Len(buf))
    BY FS_Interval
<1> QED
    BY <1>1, <1>2, FS_Subset

\* A byte more: an escape adds nothing yet, any other is decoded by what it follows.
LEMMA DecodedAppend ==
    ASSUME NEW buf \in Seq(Bytes), NEW x \in Bytes
    PROVE  /\ x = "esc" => Decoded(Append(buf, x)) = Decoded(buf)
           /\ x # "esc" => Decoded(Append(buf, x)) = Append(Decoded(buf), IF EscapeLast(buf) THEN Plain(x) ELSE x)
<1> DEFINE n == Len(buf)
<1>1. PICK more : more = Append(buf, x)
    OBVIOUS
<1>2. /\ more \in Seq(Bytes) /\ n \in Nat /\ DOMAIN more = 1..n + 1 /\ DOMAIN buf = 1..n
      /\ more[n + 1] = x /\ \A i \in 1..n : more[i] = buf[i]
    BY <1>1
<1>3. \A i \in DOMAIN more : PlainOf(more)[i] = IF i > 1 /\ more[i - 1] = "esc" THEN Plain(more[i]) ELSE more[i]
    BY DEF PlainOf
<1>4. \A i \in DOMAIN buf : PlainOf(buf)[i] = IF i > 1 /\ buf[i - 1] = "esc" THEN Plain(buf[i]) ELSE buf[i]
    BY DEF PlainOf
<1>5. \A b \in Bytes : Plain(b) \in Bytes
    BY DEF Plain, Bytes
<1>6. \A i \in 1..n : PlainOf(more)[i] = PlainOf(buf)[i]
  <2>1. ASSUME NEW i \in 1..n PROVE more[i] = buf[i] /\ (i > 1 => more[i - 1] = buf[i - 1])
    BY <1>2
  <2> QED
    BY <1>2, <1>3, <1>4, <2>1
<1>7. PlainOf(more)[n + 1] = IF EscapeLast(buf) THEN Plain(x) ELSE x
  <2>1. (n + 1 > 1 /\ more[n + 1 - 1] = "esc") <=> EscapeLast(buf)
    BY <1>2 DEF EscapeLast
  <2>2. n + 1 \in DOMAIN more
    BY <1>2
  <2>3. PlainOf(more)[n + 1] = IF n + 1 > 1 /\ more[n + 1 - 1] = "esc" THEN Plain(more[n + 1]) ELSE more[n + 1]
    BY ONLY <1>3, <2>2
  <2> QED
    BY <1>2, <2>1, <2>3
<1>8. \A i \in DOMAIN more : PlainOf(more)[i] \in Bytes
    BY <1>2, <1>3, <1>5
<1>9. Kept(buf) \subseteq Nat /\ IsFiniteSet(Kept(buf)) /\ \A i \in Kept(buf) : i < n + 1
  <2>1. \A i \in Kept(buf) : i < n + 1
    BY <1>2 DEF Kept
  <2> QED
    BY <2>1, KeptFinite
<1>10. AtPositions(PlainOf(more), Kept(buf)) = Decoded(buf)
  <2>1. \A i \in Kept(buf) : PlainOf(more)[i] = PlainOf(buf)[i]
    BY <1>2, <1>6 DEF Kept
  <2> QED
    BY <1>9, <2>1, AtSame DEF Decoded
<1>11. CASE x = "esc"
  <2>1. Kept(more) = Kept(buf)
    BY <1>2, <1>11 DEF Kept
  <2> QED
    BY <1>1, <1>10, <1>11, <2>1 DEF Decoded
<1>12. CASE x # "esc"
  <2>1. Kept(more) = Kept(buf) \cup {n + 1}
    BY <1>2, <1>12 DEF Kept
  <2>2. \A i \in Kept(buf) \cup {n + 1} : PlainOf(more)[i] \in Bytes
    BY <1>2, <1>8, <2>1 DEF Kept
  <2>3. PICK q : q = PlainOf(more)
    OBVIOUS
  <2>4. n + 1 \in Nat /\ \A i \in Kept(buf) \cup {n + 1} : q[i] \in Bytes
    BY <1>2, <2>2, <2>3
  <2>5. AtPositions(q, Kept(buf) \cup {n + 1}) = Append(AtPositions(q, Kept(buf)), q[n + 1])
    <3>1. PICK k, ns, all : k = n + 1 /\ ns = Kept(buf) /\ all = ns \cup {k}
      OBVIOUS
    <3>2. /\ k \in Nat /\ ns \subseteq Nat /\ IsFiniteSet(ns) /\ (\A i \in ns : i < k)
          /\ TypedAt(q, ns, Bytes) /\ q[k] \in Bytes /\ all = ns \cup {k}
      BY ONLY <1>9, <2>4, <3>1, Zenon DEF TypedAt
    <3>3. AtPositions(q, all) = Append(AtPositions(q, ns), q[k])
      BY ONLY <3>2, AtOneMore
    <3> QED
      BY ONLY <3>1, <3>3, Zenon
  <2> QED
    BY ONLY <1>1, <1>7, <1>10, <1>12, <2>1, <2>3, <2>5, Zenon DEF Decoded
<1> QED
    BY <1>11, <1>12

\* The access code check accepts a packet: it is one more of those recovered.
LEMMA AcceptedGrows ==
    ASSUME NEW sent \in Seq(Payloads), NEW k \in DOMAIN sent
    PROVE  AtPositions(sent, {i \in 1..k : ~Refused(sent[i])})
             = IF Refused(sent[k]) THEN AtPositions(sent, {i \in 1..k - 1 : ~Refused(sent[i])})
               ELSE Append(AtPositions(sent, {i \in 1..k - 1 : ~Refused(sent[i])}), sent[k])
<1>1. PICK ns, all : ns = {i \in 1..k - 1 : ~Refused(sent[i])} /\ all = {i \in 1..k : ~Refused(sent[i])}
    OBVIOUS
<1>2. k \in Nat /\ k \in 1..Len(sent) /\ sent[k] \in Payloads
    OBVIOUS
<1>3. CASE Refused(sent[k])
  <2>1. all = ns
    BY <1>1, <1>2, <1>3
  <2> QED
    BY <1>1, <1>3, <2>1
<1>4. CASE ~Refused(sent[k])
  <2>1. all = ns \cup {k}
    BY <1>1, <1>2, <1>4
  <2>2. ns \subseteq 1..k - 1
    BY <1>1
  <2>3. ns \subseteq Nat /\ IsFiniteSet(ns) /\ \A i \in ns : i < k
    <3>1. IsFiniteSet(1..k - 1)
      <4>1. PICK j \in Int : j = k - 1
        BY <1>2
      <4>2. IsFiniteSet(1..j)
        BY FS_Interval
      <4> QED
        BY <4>1, <4>2
    <3>2. IsFiniteSet(ns)
      BY ONLY <2>2, <3>1, FS_Subset
    <3>3. \A i \in ns : i \in Nat /\ i < k
      BY <1>2, <2>2
    <3> QED
      BY <3>2, <3>3
  <2>4. TypedAt(sent, ns, Payloads)
    BY <1>2, <2>2 DEF TypedAt
  <2>5. AtPositions(sent, all) = Append(AtPositions(sent, ns), sent[k])
    BY ONLY <1>2, <2>1, <2>3, <2>4, AtOneMore
  <2> QED
    BY <1>1, <1>4, <2>5
<1> QED
    BY <1>3, <1>4

\* Where the stream is: the framing and the packets are fixed, noise comes before the first
\* frame only, and the second byte of a piece is there for an opened KISS frame and for a
\* byte that had to be escaped.
Framed == frSent[frPkt]

FramingPosition ==
    /\ frSent \in Seq(Payloads) /\ frNoise \in Seq(Bytes) /\ frPkt \in Nat \ {0} /\ frAt \in Nat /\ frOff \in {1, 2}
    /\ frKind \in Framings
    /\ \A i \in DOMAIN frNoise : frNoise[i] = "end" => i = Len(frNoise)
    /\ frNoise # << >> => frPkt = 1 /\ frAt = 0 /\ frOff = 1
    /\ frPkt \notin DOMAIN frSent => frAt = 0 /\ frOff = 1
    /\ frPkt \in DOMAIN frSent => frAt <= Len(Framed) + 1
    /\ frOff = 2 => \/ frAt = 0 /\ frKind # "hdlc"
                    \/ frAt \in DOMAIN Framed /\ Framed[frAt] \in {"end", "esc"}

\* The byte that is read and what is next on the wire.
ReadNoise == frNoise # << >> /\ NextByte = Head(frNoise) /\ frNoise' = Tail(frNoise) /\ UNCHANGED <<frPkt, frAt, frOff>>
ReadOpening == /\ frAt = 0 /\ frOff = 1 /\ NextByte = "end" /\ UNCHANGED frPkt
               /\ IF frKind = "hdlc" THEN frAt' = 1 /\ frOff' = 1 ELSE frAt' = 0 /\ frOff' = 2
ReadCommand == frKind # "hdlc" /\ frAt = 0 /\ frOff = 2 /\ NextByte = "cmd" /\ frAt' = 1 /\ frOff' = 1 /\ UNCHANGED frPkt
ReadPlain == /\ frAt \in DOMAIN Framed /\ frOff = 1 /\ Framed[frAt] \notin {"end", "esc"} /\ NextByte = Framed[frAt]
             /\ frAt' = frAt + 1 /\ frOff' = 1 /\ UNCHANGED frPkt
ReadEscape == /\ frAt \in DOMAIN Framed /\ frOff = 1 /\ Framed[frAt] \in {"end", "esc"} /\ NextByte = "esc"
              /\ frOff' = 2 /\ UNCHANGED <<frPkt, frAt>>
ReadTransposed == /\ frAt \in DOMAIN Framed /\ frOff = 2 /\ NextByte \in {"tend", "tesc"} /\ Plain(NextByte) = Framed[frAt]
                  /\ frAt' = frAt + 1 /\ frOff' = 1 /\ UNCHANGED frPkt
ReadClosing == frAt = Len(Framed) + 1 /\ frOff = 1 /\ NextByte = "end" /\ frAt' = 0 /\ frOff' = 1 /\ frPkt' = frPkt + 1
ReadFrame == /\ frNoise = << >> /\ frNoise' = << >> /\ frPkt \in DOMAIN frSent
             /\ \/ ReadOpening \/ ReadCommand \/ ReadPlain \/ ReadEscape \/ ReadTransposed \/ ReadClosing

LEMMA Positions ==
    ASSUME FramingPosition, Consume
    PROVE  UNCHANGED <<frKind, frSent>> /\ (ReadNoise \/ ReadFrame)
<1> USE FramingAssumption
<1>1. UNCHANGED <<frKind, frSent>> /\ frPkt \in DOMAIN frSent
    BY DEF FramingPosition, Consume
<1>2. CASE frNoise # << >>
    BY <1>1, <1>2 DEF FramingPosition, Consume, ReadNoise, NextByte
<1>3. CASE frNoise = << >>
  <2>1. Framed \in Seq(Bytes) /\ frAt \in Nat /\ frOff \in {1, 2} /\ frAt <= Len(Framed) + 1
    BY <1>1 DEF FramingPosition, Framed
  <2>2. NextByte = Piece[frOff] /\ frNoise' = << >>
    BY <1>3 DEF NextByte, Consume
  <2>3. /\ frOff < Len(Piece) => frOff' = frOff + 1 /\ UNCHANGED <<frPkt, frAt>>
        /\ ~(frOff < Len(Piece)) => /\ frOff' = 1
                                    /\ IF frAt <= Len(Framed) THEN frAt' = frAt + 1 /\ UNCHANGED frPkt
                                       ELSE frAt' = 0 /\ frPkt' = frPkt + 1
    BY <1>3 DEF Consume, Framed
  <2>4. CASE frAt = 0
    <3>1. Piece = IF frKind = "hdlc" THEN <<"end">> ELSE <<"end", "cmd">>
      BY <2>1, <2>4 DEF Piece, HdlcFrame, KissFrame, Framed
    <3>2. frOff = 2 => frKind # "hdlc"
      BY <2>1, <2>4 DEF FramingPosition
    <3>3. CASE frKind = "hdlc"
      BY <1>1, <1>3, <2>1, <2>2, <2>3, <2>4, <3>1, <3>2, <3>3 DEF ReadFrame, ReadOpening
    <3>4. CASE frKind # "hdlc" /\ frOff = 1
      BY <1>1, <1>3, <2>1, <2>2, <2>3, <2>4, <3>1, <3>4 DEF ReadFrame, ReadOpening
    <3>5. CASE frKind # "hdlc" /\ frOff = 2
      BY <1>1, <1>3, <2>1, <2>2, <2>3, <2>4, <3>1, <3>5 DEF ReadFrame, ReadCommand
    <3> QED
      BY <2>1, <3>3, <3>4, <3>5
  <2>5. CASE frAt = Len(Framed) + 1
    <3>1. Piece = <<"end">>
      BY <2>1, <2>5 DEF Piece, HdlcFrame, KissFrame, Framed
    <3>2. frOff = 1
      BY <2>1, <2>5 DEF FramingPosition
    <3> QED
      BY <1>1, <1>3, <2>1, <2>2, <2>3, <2>5, <3>1, <3>2 DEF ReadFrame, ReadClosing
  <2>6. CASE frAt \in DOMAIN Framed
    <3>1. PICK b : b = Framed[frAt]
      OBVIOUS
    <3>2. b \in Bytes /\ frAt # 0 /\ frAt <= Len(Framed)
      BY <2>1, <2>6, <3>1
    <3>3. Piece = IF b \in {"end", "esc"} THEN <<"esc", Transposed(b)>> ELSE <<b>>
      BY <2>6, <3>1, <3>2 DEF Piece, HdlcFrame, KissFrame, HdlcEscape, KissEscape, Transposed, Framed
    <3>4. b \in {"end", "esc"} => Transposed(b) \in {"tend", "tesc"} /\ Plain(Transposed(b)) = b
      BY DEF Transposed, Plain
    <3>5. frOff = 2 => b \in {"end", "esc"}
      BY <3>1, <3>2 DEF FramingPosition
    <3>6. CASE b \notin {"end", "esc"}
      <4>1. Piece = <<b>> /\ frOff = 1
        BY <2>1, <3>3, <3>5, <3>6
      <4> QED
        BY <1>1, <1>3, <2>2, <2>3, <2>6, <3>1, <3>2, <3>6, <4>1 DEF ReadFrame, ReadPlain
    <3>7. CASE b \in {"end", "esc"} /\ frOff = 1
      <4>1. Piece = <<"esc", Transposed(b)>>
        BY <3>3, <3>7
      <4> QED
        BY <1>1, <1>3, <2>2, <2>3, <2>6, <3>1, <3>7, <4>1 DEF ReadFrame, ReadEscape
    <3>8. CASE b \in {"end", "esc"} /\ frOff = 2
      <4>1. Piece = <<"esc", Transposed(b)>>
        BY <3>3, <3>8
      <4> QED
        BY <1>1, <1>3, <2>2, <2>3, <2>6, <3>1, <3>2, <3>4, <3>8, <4>1 DEF ReadFrame, ReadTransposed
    <3> QED
      BY <2>1, <3>6, <3>7, <3>8
  <2> QED
    BY <2>1, <2>4, <2>5, <2>6
<1> QED
    BY <1>2, <1>3

LEMMA PositionKept ==
    ASSUME FramingPosition, UNCHANGED <<frKind, frSent>>, ReadNoise \/ ReadFrame
    PROVE  FramingPosition'
<1>1. CASE ReadNoise
  <2>1. frNoise \in Seq(Bytes) /\ frNoise # << >>
    BY <1>1 DEF FramingPosition, ReadNoise
  <2>2. frNoise' \in Seq(Bytes) /\ Len(frNoise') = Len(frNoise) - 1 /\ \A i \in DOMAIN frNoise' : frNoise'[i] = frNoise[i + 1] /\ i + 1 \in DOMAIN frNoise
    BY <1>1, <2>1 DEF ReadNoise
  <2>3. \A i \in DOMAIN frNoise' : frNoise'[i] = "end" => i = Len(frNoise')
    BY <2>1, <2>2 DEF FramingPosition
  <2> QED
    BY <1>1, <2>1, <2>2, <2>3 DEF FramingPosition, ReadNoise, Framed
<1>2. CASE ReadFrame
  <2>1. frNoise = << >> /\ frNoise' = << >> /\ frPkt \in DOMAIN frSent
    BY <1>2 DEF ReadFrame
  <2>2. CASE ReadOpening
    BY <2>1, <2>2 DEF FramingPosition, ReadOpening, Framed
  <2>3. CASE ReadCommand
    BY <2>1, <2>3 DEF FramingPosition, ReadCommand, Framed
  <2>4. CASE ReadPlain
    BY <2>1, <2>4 DEF FramingPosition, ReadPlain, Framed
  <2>5. CASE ReadEscape
    BY <2>1, <2>5 DEF FramingPosition, ReadEscape, Framed
  <2>6. CASE ReadTransposed
    BY <2>1, <2>6 DEF FramingPosition, ReadTransposed, Framed
  <2>7. CASE ReadClosing
    BY <2>1, <2>7 DEF FramingPosition, ReadClosing, Framed
  <2> QED
    BY <1>2, <2>2, <2>3, <2>4, <2>5, <2>6, <2>7 DEF ReadFrame
<1> QED
    BY <1>1, <1>2

\* What the reader holds: nothing of the noise, nothing between frames, and of a frame what
\* has been read of its packet. Len bounds it: an HDLC buffer holds the escapes as well.
HalfHdlc ==
    /\ frIn /\ frBuf \in Seq(Bytes) /\ WellEscaped(frBuf) /\ (EscapeLast(frBuf) <=> frOff = 2)
    /\ Decoded(frBuf) = SubSeq(Framed, 1, frAt - 1) /\ Len(frBuf) <= 2 * (frAt - 1) + frOff - 1
HalfKiss == frIn /\ frCmd = "cmd" /\ (frEsc <=> frOff = 2) /\ frBuf = SubSeq(Framed, 1, frAt - 1)
FrameOpened == frIn /\ frCmd = "unknown" /\ frBuf = << >> /\ ~frEsc

Reader ==
    /\ frNoise # << >> => ~frIn
    /\ frAt = 0 /\ frOff = 1 => ~frIn \/ (frBuf = << >> /\ frCmd = "unknown")
    /\ frAt = 0 /\ frOff = 2 => FrameOpened
    /\ frAt # 0 => IF frKind = "hdlc" THEN HalfHdlc ELSE HalfKiss
    /\ frCut = Accepted

Intact == frKind = "kiss" => \A i \in DOMAIN frSent : ~Refused(frSent[i])

\* What has been handed on.
Outlet == frCut \in Seq(Seq(Bytes)) /\ frOut \in Seq(Nat) /\ HandedOnce /\ (frKind # "rnode" => InTurn)

FramingInv == FramingPosition /\ (Intact => Reader /\ Outlet)

LEMMA AcceptedKept == ASSUME UNCHANGED <<frSent, frPkt>> PROVE Accepted' = Accepted
    BY DEF Accepted

LEMMA AcceptedClosing ==
    ASSUME FramingPosition, frPkt \in DOMAIN frSent, UNCHANGED frSent, frPkt' = frPkt + 1
    PROVE  Accepted' = IF Refused(Framed) THEN Accepted ELSE Append(Accepted, Framed)
<1>1. frSent \in Seq(Payloads) /\ frPkt' - 1 = frPkt /\ frPkt \in Nat
    BY DEF FramingPosition
<1>2. Accepted' = AtPositions(frSent, {i \in 1..frPkt : ~Refused(frSent[i])})
  <2>1. Accepted' = AtPositions(frSent, {i \in 1..frPkt' - 1 : ~Refused(frSent[i])})
    BY DEF Accepted, Refused
  <2> QED
    BY <1>1, <2>1, Zenon
<1>3. PICK sent, k : sent = frSent /\ k = frPkt
    OBVIOUS
<1>4. sent \in Seq(Payloads) /\ k \in DOMAIN sent
    BY <1>1, <1>3
<1>5. AtPositions(sent, {i \in 1..k : ~Refused(sent[i])})
             = IF Refused(sent[k]) THEN AtPositions(sent, {i \in 1..k - 1 : ~Refused(sent[i])})
               ELSE Append(AtPositions(sent, {i \in 1..k - 1 : ~Refused(sent[i])}), sent[k])
    BY ONLY <1>4, AcceptedGrows
<1> QED
    BY ONLY <1>2, <1>3, <1>5, Zenon DEF Accepted, Framed

\* A reader that attaches in the middle of a frame waits for its end.
LEMMA NoiseIgnored ==
    ASSUME FramingPosition, Reader, ReadNoise, UNCHANGED <<frKind, frSent>>, UNCHANGED frCut,
           IF NextByte = "end" THEN Restart(TRUE) ELSE UNCHANGED <<frIn, frEsc, frCmd, frBuf>>
    PROVE  Reader'
<1>1. frNoise \in Seq(Bytes) /\ frNoise # << >> /\ frAt = 0 /\ frOff = 1 /\ ~frIn /\ frAt' = 0 /\ frOff' = 1
    BY DEF FramingPosition, Reader, ReadNoise
<1>2. frNoise' = Tail(frNoise) /\ NextByte = Head(frNoise)
    BY DEF ReadNoise
<1>3. NextByte = "end" => frNoise' = << >>
    BY <1>1, <1>2 DEF FramingPosition
<1>4. Accepted' = Accepted
    BY AcceptedKept DEF ReadNoise
<1>5. CASE NextByte = "end"
    BY <1>1, <1>3, <1>4, <1>5 DEF Reader, Restart
<1>6. CASE NextByte # "end"
    BY <1>1, <1>4, <1>6 DEF Reader
<1> QED
    BY <1>5, <1>6

\* How much of a packet has been read.
LEMMA ReadSoFar ==
    ASSUME NEW p \in Seq(Bytes)
    PROVE  /\ SubSeq(p, 1, 0) = << >> /\ SubSeq(p, 1, Len(p)) = p
           /\ \A i \in DOMAIN p : /\ SubSeq(p, 1, i) = Append(SubSeq(p, 1, i - 1), p[i])
                                /\ Len(SubSeq(p, 1, i - 1)) = i - 1
    OBVIOUS

\* What an empty buffer is, and what a byte adds to the escapes in one.
LEMMA EscapesKept ==
    ASSUME NEW buf \in Seq(Bytes), NEW x \in Bytes, WellEscaped(buf), EscapeLast(buf) => x \in {"tend", "tesc"}
    PROVE  WellEscaped(Append(buf, x)) /\ (EscapeLast(Append(buf, x)) <=> x = "esc")
<1>1. PICK more : more = Append(buf, x)
    OBVIOUS
<1>2. /\ more \in Seq(Bytes) /\ Len(more) = Len(buf) + 1 /\ more[Len(buf) + 1] = x /\ Len(buf) \in Nat
      /\ \A i \in 1..Len(buf) : more[i] = buf[i]
    BY <1>1
<1>3. ASSUME NEW i \in DOMAIN more, more[i] = "esc", i < Len(more) PROVE more[i + 1] \in {"tend", "tesc"}
  <2>1. i \in 1..Len(buf) /\ buf[i] = "esc"
    BY <1>2, <1>3
  <2>2. CASE i = Len(buf)
    BY <1>2, <2>1, <2>2 DEF EscapeLast
  <2>3. CASE i # Len(buf)
    <3>1. i + 1 \in 1..Len(buf) /\ i < Len(buf)
      BY <2>1, <2>3, <1>2
    <3>2. buf[i + 1] \in {"tend", "tesc"}
      BY <2>1, <3>1 DEF WellEscaped
    <3> QED
      BY <1>2, <3>1, <3>2
  <2> QED
    BY <2>2, <2>3
<1>4. WellEscaped(more)
    BY <1>3 DEF WellEscaped
<1>5. EscapeLast(more) <=> x = "esc"
    BY <1>2 DEF EscapeLast
<1> QED
    BY <1>1, <1>4, <1>5

LEMMA EmptyDecodes ==
    WellEscaped(<< >>) /\ ~EscapeLast(<< >>) /\ Decoded(<< >>) = << >> /\ HdlcUnescape(<< >>) = << >> /\ Refused(<< >>)
<1>1. Kept(<< >>) = {}
    BY DEF Kept
<1>2. Decoded(<< >>) = << >>
    BY <1>1, AtNone DEF Decoded
<1>3. WellEscaped(<< >>) /\ ~EscapeLast(<< >>)
    BY DEF WellEscaped, EscapeLast
<1>4. HdlcUnescape(<< >>) = << >>
  <2>0. << >> \in Seq(Bytes)
    OBVIOUS
  <2>1. PICK none \in Seq(Bytes) : none = << >>
    BY <2>0, Zenon
  <2>2. HdlcUnescape(none) = Decoded(none)
    BY <1>3, <2>1, UnescapeDecodes
  <2> QED
    BY <1>2, <2>1, <2>2
<1> QED
    BY <1>2, <1>3, <1>4, FramingAssumption DEF Refused

LEMMA HdlcReads ==
    ASSUME FramingPosition, Reader, HdlcFeed, ReadNoise \/ ReadFrame, UNCHANGED <<frKind, frSent>>
    PROVE  Reader'
<1> USE FramingAssumption
<1>0. /\ frKind = "hdlc" /\ frKind' = "hdlc"
      /\ NextByte = "end" =>
            /\ Restart(TRUE)
            /\ frCut' = IF frIn /\ ~Refused(HdlcUnescape(frBuf)) THEN Append(frCut, HdlcUnescape(frBuf)) ELSE frCut
      /\ NextByte # "end" =>
            /\ UNCHANGED frCut
            /\ ~frIn => UNCHANGED <<frIn, frEsc, frCmd, frBuf>>
            /\ frIn /\ ~(Len(frBuf) >= MaxFrame) => frBuf' = Append(frBuf, NextByte) /\ UNCHANGED <<frIn, frEsc, frCmd>>
    BY DEF HdlcFeed
<1>1. CASE ReadNoise
  <2>1. ~frIn
    BY <1>1 DEF Reader, ReadNoise
  <2>2. UNCHANGED frCut /\ IF NextByte = "end" THEN Restart(TRUE) ELSE UNCHANGED <<frIn, frEsc, frCmd, frBuf>>
    BY <1>0, <2>1
  <2> QED
    BY <1>1, <2>2, NoiseIgnored
<1>2. CASE ReadFrame
  <2>0. frNoise = << >> /\ frNoise' = << >> /\ frPkt \in DOMAIN frSent
    BY <1>2 DEF ReadFrame
  <2>1. Framed \in Seq(Bytes) /\ 2 * Len(Framed) <= MaxFrame /\ MaxFrame \in Nat /\ frAt \in Nat
    BY <1>0, <2>0 DEF FramingPosition, Framed
  <2>2. CASE ReadOpening
    <3>1. frAt' = 1 /\ frOff' = 1 /\ UNCHANGED frPkt /\ NextByte = "end" /\ (frIn => frBuf = << >>)
      BY <1>0, <2>2 DEF ReadOpening, Reader
    <3>2. UNCHANGED frCut /\ frIn' /\ frBuf' = << >>
      BY <1>0, <3>1, EmptyDecodes DEF Restart
    <3>3. Accepted' = Accepted /\ Framed' = Framed
      BY <3>1, AcceptedKept DEF Framed
    <3>4. HalfHdlc'
      <4>1. frBuf' \in Seq(Bytes) /\ Len(frBuf') = 0
        BY <3>2
      <4>2. WellEscaped(frBuf)' /\ ~EscapeLast(frBuf)' /\ Decoded(frBuf)' = << >>
        BY <3>2, EmptyDecodes
      <4>3. SubSeq(Framed, 1, frAt - 1)' = << >>
        BY <2>1, <3>1, <3>3, ReadSoFar
      <4>4. Len(frBuf') <= 2 * (frAt' - 1) + frOff' - 1 /\ ~(frOff' = 2)
        BY <3>1, <4>1
      <4> QED
        BY <3>2, <4>1, <4>2, <4>3, <4>4, Zenon DEF HalfHdlc
    <3> QED
      BY <1>0, <2>0, <3>1, <3>2, <3>3, <3>4 DEF Reader
  <2>3. ~ReadCommand
    BY <1>0 DEF ReadCommand
  <2>4. CASE ReadPlain \/ ReadEscape \/ ReadTransposed
    <3>1. /\ frAt \in DOMAIN Framed /\ UNCHANGED frPkt /\ HalfHdlc /\ NextByte # "end" /\ NextByte \in Bytes
          /\ EscapeLast(frBuf) => NextByte \in {"tend", "tesc"}
      <4>1. HalfHdlc
        BY <1>0, <2>1, <2>4 DEF Reader, ReadPlain, ReadEscape, ReadTransposed
      <4>2. NextByte # "end" /\ NextByte \in Bytes
        BY <2>1, <2>4 DEF ReadPlain, ReadEscape, ReadTransposed, Bytes
      <4> QED
        BY <2>4, <4>1, <4>2 DEF ReadPlain, ReadEscape, ReadTransposed, HalfHdlc
    <3>2. /\ frBuf \in Seq(Bytes) /\ WellEscaped(frBuf) /\ frIn /\ Decoded(frBuf) = SubSeq(Framed, 1, frAt - 1)
          /\ Len(frBuf) <= 2 * (frAt - 1) + frOff - 1 /\ (EscapeLast(frBuf) <=> frOff = 2)
      BY <3>1 DEF HalfHdlc
    <3>3. frOff \in {1, 2} /\ frAt <= Len(Framed) /\ frAt # 0
      BY <2>1, <3>1 DEF FramingPosition
    <3>4. ~(Len(frBuf) >= MaxFrame)
      BY <2>1, <3>2, <3>3
    <3>5. frBuf' = Append(frBuf, NextByte) /\ UNCHANGED frCut /\ frIn'
      BY <1>0, <3>1, <3>2, <3>4
    <3>6. Accepted' = Accepted /\ Framed' = Framed
      BY <3>1, AcceptedKept DEF Framed
    <3>7. WellEscaped(frBuf') /\ (EscapeLast(frBuf') <=> NextByte = "esc")
      <4>1. PICK x : x = NextByte
        OBVIOUS
      <4>2. WellEscaped(Append(frBuf, x)) /\ (EscapeLast(Append(frBuf, x)) <=> x = "esc")
        BY <3>1, <3>2, <4>1, EscapesKept
      <4> QED
        BY ONLY <3>5, <4>1, <4>2, Zenon
    <3>8. /\ NextByte = "esc" => Decoded(frBuf') = Decoded(frBuf)
          /\ NextByte # "esc" => Decoded(frBuf') = Append(Decoded(frBuf), IF frOff = 2 THEN Plain(NextByte) ELSE NextByte)
      <4>1. PICK x : x = NextByte
        OBVIOUS
      <4>2. /\ x = "esc" => Decoded(Append(frBuf, x)) = Decoded(frBuf)
            /\ x # "esc" => Decoded(Append(frBuf, x)) = Append(Decoded(frBuf), IF EscapeLast(frBuf) THEN Plain(x) ELSE x)
        BY <3>1, <3>2, <4>1, DecodedAppend
      <4>3. EscapeLast(frBuf) <=> frOff = 2
        BY <3>2
      <4> QED
        BY ONLY <3>5, <4>1, <4>2, <4>3
    <3>9. Len(frBuf') = Len(frBuf) + 1 /\ frBuf' \in Seq(Bytes) /\ Len(frBuf) \in Nat
      BY <3>1, <3>2, <3>5
    <3>10. SubSeq(Framed, 1, frAt) = Append(SubSeq(Framed, 1, frAt - 1), Framed[frAt])
      BY <2>1, <3>1, ReadSoFar
    <3>11. CASE ReadEscape
      <4>1. frOff = 1 /\ frOff' = 2 /\ frAt' = frAt /\ NextByte = "esc"
        BY <3>11 DEF ReadEscape
      <4>2. Decoded(frBuf') = SubSeq(Framed', 1, frAt' - 1)
        BY ONLY <3>2, <3>6, <3>8, <4>1, Zenon
      <4>3. Len(frBuf') <= 2 * (frAt' - 1) + frOff' - 1
        BY <2>1, <3>2, <3>3, <3>9, <4>1
      <4>4. HalfHdlc'
        BY <3>5, <3>7, <3>9, <4>1, <4>2, <4>3 DEF HalfHdlc
      <4> QED
        BY <1>0, <2>0, <3>3, <3>5, <3>6, <4>1, <4>4 DEF Reader
    <3>12. CASE ReadPlain \/ ReadTransposed
      <4>1. /\ frOff' = 1 /\ frAt' = frAt + 1 /\ frAt' - 1 = frAt /\ NextByte # "esc"
            /\ Framed[frAt] = IF frOff = 2 THEN Plain(NextByte) ELSE NextByte
        BY <2>1, <3>12 DEF ReadPlain, ReadTransposed
      <4>2. Decoded(frBuf') = SubSeq(Framed', 1, frAt' - 1)
        BY <3>2, <3>6, <3>8, <3>10, <4>1
      <4>3. Len(frBuf') <= 2 * (frAt' - 1) + frOff' - 1
        BY <2>1, <3>2, <3>3, <3>9, <4>1
      <4>4. HalfHdlc'
        BY <3>5, <3>7, <3>9, <4>1, <4>2, <4>3 DEF HalfHdlc
      <4> QED
        BY <1>0, <2>0, <2>1, <3>5, <3>6, <4>1, <4>4 DEF Reader
    <3> QED
      BY <2>4, <3>11, <3>12
  <2>5. CASE ReadClosing
    <3>1. /\ frAt' = 0 /\ frOff' = 1 /\ frPkt' = frPkt + 1 /\ NextByte = "end" /\ HalfHdlc /\ frOff = 1
          /\ frAt - 1 = Len(Framed)
      BY <1>0, <2>1, <2>5 DEF ReadClosing, Reader
    <3>2. HdlcUnescape(frBuf) = Framed /\ frIn
      BY <2>1, <3>1, UnescapeDecodes, ReadSoFar DEF HalfHdlc
    <3>3. frCut' = (IF Refused(Framed) THEN frCut ELSE Append(frCut, Framed)) /\ frBuf' = << >> /\ frCmd' = "unknown"
      BY <1>0, <3>1, <3>2 DEF Restart
    <3>4. frCut' = Accepted'
      BY <2>0, <3>1, <3>3, AcceptedClosing DEF Reader
    <3> QED
      BY <2>0, <3>1, <3>3, <3>4 DEF Reader
  <2> QED
    BY <1>2, <2>2, <2>3, <2>4, <2>5 DEF ReadFrame
<1> QED
    BY <1>1, <1>2

\* Both KISS parsers resolve an escape as it arrives: what they do inside a frame.
LEMMA KissReadsByte ==
    ASSUME FramingPosition, Reader, frKind # "hdlc", UNCHANGED <<frKind, frSent>>, frNoise' = << >>, frPkt \in DOMAIN frSent,
           ReadPlain \/ ReadEscape \/ ReadTransposed, UNCHANGED <<frCut, frIn, frCmd>>,
           NextByte = "esc" => frEsc' = TRUE /\ UNCHANGED frBuf,
           NextByte # "esc" => frBuf' = Append(frBuf, IF frEsc THEN Plain(NextByte) ELSE NextByte) /\ frEsc' = FALSE
    PROVE  Reader'
<1>1. Framed \in Seq(Bytes) /\ frAt \in Nat
    BY FramingAssumption DEF FramingPosition, Framed
<1>2. frAt \in DOMAIN Framed /\ UNCHANGED frPkt /\ frAt # 0
    BY <1>1 DEF ReadPlain, ReadEscape, ReadTransposed
<1>3. HalfKiss
    BY <1>2 DEF Reader
<1>4. Accepted' = Accepted /\ Framed' = Framed
    BY <1>2, AcceptedKept DEF Framed
<1>5. SubSeq(Framed, 1, frAt) = Append(SubSeq(Framed, 1, frAt - 1), Framed[frAt])
    BY <1>1, <1>2, ReadSoFar
<1>6. CASE ReadEscape
  <2>1. frOff' = 2 /\ frAt' = frAt /\ NextByte = "esc"
    BY <1>6 DEF ReadEscape
  <2>2. frBuf' = SubSeq(Framed', 1, frAt' - 1)
    BY ONLY NextByte = "esc" => frEsc' = TRUE /\ UNCHANGED frBuf, <1>3, <1>4, <2>1, Zenon DEF HalfKiss
  <2>3. HalfKiss'
    BY <1>3, <2>1, <2>2 DEF HalfKiss
  <2> QED
    BY <1>2, <1>4, <2>1, <2>3 DEF Reader
<1>7. CASE ReadPlain \/ ReadTransposed
  <2>1. /\ frOff' = 1 /\ frAt' = frAt + 1 /\ frAt' - 1 = frAt /\ NextByte # "esc"
        /\ Framed[frAt] = IF frOff = 2 THEN Plain(NextByte) ELSE NextByte
    BY <1>1, <1>7 DEF ReadPlain, ReadTransposed
  <2>2. frBuf' = Append(SubSeq(Framed, 1, frAt - 1), Framed[frAt]) /\ frEsc' = FALSE
    <3>1. CASE frOff = 2
      BY <1>3, <2>1, <3>1 DEF HalfKiss
    <3>2. CASE frOff # 2
      BY <1>3, <2>1, <3>2 DEF HalfKiss
    <3> QED
      BY <3>1, <3>2
  <2>3. frBuf' = SubSeq(Framed', 1, frAt' - 1)
    BY ONLY <1>4, <1>5, <2>1, <2>2, Zenon
  <2>4. HalfKiss'
    BY <1>3, <2>1, <2>2, <2>3 DEF HalfKiss
  <2> QED
    BY <1>1, <1>4, <2>1, <2>4 DEF Reader
<1> QED
    BY <1>6, <1>7

\* A delimiter outside a data frame and the command behind it.
LEMMA KissOpens ==
    ASSUME FramingPosition, Reader, frKind # "hdlc", UNCHANGED <<frKind, frSent>>, frNoise' = << >>, UNCHANGED frCut,
           \/ ReadOpening /\ Restart(TRUE)
           \/ ReadCommand /\ frCmd' = NextByte /\ UNCHANGED <<frIn, frEsc, frBuf>>,
           frPkt \in DOMAIN frSent
    PROVE  Reader'
<1>1. Framed \in Seq(Bytes) /\ UNCHANGED frPkt
  <2>1. Framed \in Seq(Bytes)
    BY FramingAssumption DEF FramingPosition, Framed
  <2>2. UNCHANGED frPkt
    BY DEF ReadOpening, ReadCommand
  <2> QED
    BY <2>1, <2>2
<1>2. Accepted' = Accepted /\ Framed' = Framed
    BY <1>1, AcceptedKept DEF Framed
<1>3. CASE ReadOpening /\ Restart(TRUE)
    BY <1>2, <1>3 DEF Reader, ReadOpening, Restart, FrameOpened
<1>4. CASE ReadCommand /\ frCmd' = NextByte /\ UNCHANGED <<frIn, frEsc, frBuf>>
  <2>1. FrameOpened /\ frAt' = 1 /\ frOff' = 1 /\ frCmd' = "cmd"
    BY <1>4 DEF Reader, ReadCommand
  <2>2. SubSeq(Framed', 1, frAt' - 1) = << >>
    BY <1>1, <1>2, <2>1, ReadSoFar
  <2>3. HalfKiss'
    BY <1>4, <2>1, <2>2 DEF HalfKiss, FrameOpened
  <2> QED
    BY <1>2, <2>1, <2>3 DEF Reader
<1> QED
    BY <1>3, <1>4

LEMMA KissReads ==
    ASSUME FramingPosition, Reader, Intact, KissFeed, ReadNoise \/ ReadFrame, UNCHANGED <<frKind, frSent>>
    PROVE  Reader'
<1> USE FramingAssumption
<1>0. frKind = "kiss"
    BY DEF KissFeed
<1>1. CASE ReadNoise
  <2>1. ~frIn
    BY <1>1 DEF Reader, ReadNoise
  <2>2. UNCHANGED frCut /\ IF NextByte = "end" THEN Restart(TRUE) ELSE UNCHANGED <<frIn, frEsc, frCmd, frBuf>>
    BY <2>1 DEF KissFeed
  <2> QED
    BY <1>1, <2>2, NoiseIgnored
<1>2. CASE ReadFrame
  <2>0. frNoise = << >> /\ frNoise' = << >> /\ frPkt \in DOMAIN frSent
    BY <1>2 DEF ReadFrame
  <2>1. Framed \in Seq(Bytes) /\ Len(Framed) <= MaxFrame /\ MaxFrame \in Nat /\ frAt \in Nat /\ ~Refused(Framed)
    BY <1>0, <2>0 DEF FramingPosition, Framed, Intact
  <2>2. CASE ReadOpening
    <3>1. NextByte = "end" /\ ~(frIn /\ frCmd = "cmd")
      BY <2>2 DEF ReadOpening, Reader
    <3>2. Restart(TRUE) /\ UNCHANGED frCut
      BY <3>1 DEF KissFeed
    <3> QED
      BY <1>0, <2>0, <2>2, <3>2, KissOpens
  <2>3. CASE ReadCommand
    <3>1. NextByte = "cmd" /\ frIn /\ frBuf = << >> /\ frCmd = "unknown"
      BY <2>3 DEF ReadCommand, Reader, FrameOpened
    <3>2. frCmd' = NextByte /\ UNCHANGED <<frIn, frEsc, frBuf>> /\ UNCHANGED frCut
      BY <3>1 DEF KissFeed
    <3> QED
      BY <1>0, <2>0, <2>3, <3>2, KissOpens
  <2>4. CASE ReadPlain \/ ReadEscape \/ ReadTransposed
    <3>1. frAt \in DOMAIN Framed /\ frAt # 0 /\ frAt <= Len(Framed) /\ NextByte # "end"
      BY <2>1, <2>4 DEF ReadPlain, ReadEscape, ReadTransposed
    <3>2. HalfKiss
      BY <1>0, <3>1 DEF Reader
    <3>3. frIn /\ frCmd = "cmd" /\ Len(frBuf) = frAt - 1
      BY <2>1, <3>1, <3>2, ReadSoFar DEF HalfKiss
    <3>4. Len(frBuf) < MaxFrame /\ ~(Len(frBuf) >= MaxFrame)
      BY <2>1, <3>1, <3>3
    <3>5. frEsc => NextByte \in {"tend", "tesc"}
      BY <2>4, <3>2 DEF HalfKiss, ReadPlain, ReadEscape, ReadTransposed
    <3>6. /\ UNCHANGED <<frCut, frIn, frCmd>> /\ (NextByte = "esc" => frEsc' = TRUE /\ UNCHANGED frBuf)
          /\ NextByte # "esc" => frBuf' = Append(frBuf, IF frEsc THEN Plain(NextByte) ELSE NextByte) /\ frEsc' = FALSE
      BY <3>1, <3>3, <3>4, <3>5 DEF KissFeed
    <3> QED
      BY <1>0, <2>0, <2>4, <3>6, KissReadsByte
  <2>5. CASE ReadClosing
    <3>1. /\ frAt' = 0 /\ frOff' = 1 /\ frPkt' = frPkt + 1 /\ NextByte = "end" /\ HalfKiss
          /\ frAt - 1 = Len(Framed)
      BY <1>0, <2>1, <2>5 DEF ReadClosing, Reader
    <3>2. frBuf = Framed /\ frIn /\ frCmd = "cmd"
      BY <2>1, <3>1, ReadSoFar DEF HalfKiss
    <3>3. frCut' = Append(frCut, Framed) /\ frBuf' = << >> /\ frCmd' = "unknown"
      BY <2>1, <3>1, <3>2 DEF KissFeed, Restart
    <3>4. frCut' = Accepted'
      BY <2>0, <2>1, <3>1, <3>3, AcceptedClosing DEF Reader
    <3> QED
      BY <2>0, <3>1, <3>3, <3>4 DEF Reader
  <2> QED
    BY <1>2, <2>2, <2>3, <2>4, <2>5 DEF ReadFrame
<1> QED
    BY <1>1, <1>2

LEMMA RNodeReads ==
    ASSUME FramingPosition, Reader, FeedBytes, ReadNoise \/ ReadFrame, UNCHANGED <<frKind, frSent>>
    PROVE  Reader'
<1> USE FramingAssumption
<1>0. frKind # "hdlc"
    BY DEF FeedBytes
<1>1. CASE ReadNoise
  <2>1. ~frIn
    BY <1>1 DEF Reader, ReadNoise
  <2>2. UNCHANGED frCut /\ IF NextByte = "end" THEN Restart(TRUE) ELSE UNCHANGED <<frIn, frEsc, frCmd, frBuf>>
    BY <2>1 DEF FeedBytes
  <2> QED
    BY <1>1, <2>2, NoiseIgnored
<1>2. CASE ReadFrame
  <2>0. frNoise = << >> /\ frNoise' = << >> /\ frPkt \in DOMAIN frSent
    BY <1>2 DEF ReadFrame
  <2>1. Framed \in Seq(Bytes) /\ Len(Framed) <= MaxFrame /\ MaxFrame \in Nat /\ frAt \in Nat
    BY <2>0 DEF FramingPosition, Framed
  <2>2. CASE ReadOpening
    <3>1. NextByte = "end" /\ ~(frIn /\ frCmd = "cmd")
      BY <2>2 DEF ReadOpening, Reader
    <3>2. Restart(TRUE) /\ UNCHANGED frCut
      BY <3>1 DEF FeedBytes
    <3> QED
      BY <1>0, <2>0, <2>2, <3>2, KissOpens
  <2>3. CASE ReadCommand
    <3>1. NextByte = "cmd" /\ frIn /\ frBuf = << >> /\ frCmd = "unknown"
      BY <2>3 DEF ReadCommand, Reader, FrameOpened
    <3>2. ~(Len(frBuf) >= MaxFrame) /\ Len(frBuf) < MaxFrame
      BY <3>1
    <3>3. frCmd' = NextByte /\ UNCHANGED <<frIn, frEsc, frBuf>> /\ UNCHANGED frCut
      BY <3>1, <3>2 DEF FeedBytes
    <3> QED
      BY <1>0, <2>0, <2>3, <3>3, KissOpens
  <2>4. CASE ReadPlain \/ ReadEscape \/ ReadTransposed
    <3>1. frAt \in DOMAIN Framed /\ frAt # 0 /\ frAt <= Len(Framed) /\ NextByte # "end"
      BY <2>1, <2>4 DEF ReadPlain, ReadEscape, ReadTransposed
    <3>2. HalfKiss
      BY <1>0, <3>1 DEF Reader
    <3>3. frIn /\ frCmd = "cmd" /\ Len(frBuf) = frAt - 1
      BY <2>1, <3>1, <3>2, ReadSoFar DEF HalfKiss
    <3>4. Len(frBuf) < MaxFrame /\ ~(Len(frBuf) >= MaxFrame)
      BY <2>1, <3>1, <3>3
    <3>5. /\ UNCHANGED <<frCut, frIn, frCmd>> /\ (NextByte = "esc" => frEsc' = TRUE /\ UNCHANGED frBuf)
          /\ NextByte # "esc" => frBuf' = Append(frBuf, IF frEsc THEN Plain(NextByte) ELSE NextByte) /\ frEsc' = FALSE
      BY <3>1, <3>3, <3>4 DEF FeedBytes, HandleDataByte
    <3> QED
      BY <1>0, <2>0, <2>4, <3>5, KissReadsByte
  <2>5. CASE ReadClosing
    <3>1. /\ frAt' = 0 /\ frOff' = 1 /\ frPkt' = frPkt + 1 /\ NextByte = "end" /\ HalfKiss
          /\ frAt - 1 = Len(Framed)
      BY <1>0, <2>1, <2>5 DEF ReadClosing, Reader
    <3>2. frBuf = Framed /\ frIn /\ frCmd = "cmd"
      BY <2>1, <3>1, ReadSoFar DEF HalfKiss
    <3>3. frCut' = (IF Refused(Framed) THEN frCut ELSE Append(frCut, Framed)) /\ ~frIn'
      BY <3>1, <3>2 DEF FeedBytes
    <3>4. frCut' = Accepted'
      BY <2>0, <3>1, <3>3, AcceptedClosing DEF Reader
    <3> QED
      BY <2>0, <3>1, <3>3, <3>4 DEF Reader
  <2> QED
    BY <1>2, <2>2, <2>3, <2>4, <2>5 DEF ReadFrame
<1> QED
    BY <1>1, <1>2

\* A frame that is cut out is handed on in its turn, or later.
LEMMA CutHandsOn ==
    ASSUME Outlet, UNCHANGED frKind, NEW p \in Seq(Bytes), frCut' = Append(frCut, p),
           frOut' = IF frKind = "rnode" THEN frOut ELSE Append(frOut, Len(frCut'))
    PROVE  Outlet'
<1>1. PICK m \in Nat : m = Len(frCut) /\ DOMAIN frCut = 1..m
    BY DEF Outlet
<1>2. frCut' \in Seq(Seq(Bytes)) /\ Len(frCut') = m + 1 /\ DOMAIN frCut' = 1..(m + 1)
    BY <1>1 DEF Outlet
<1>3. CASE frKind = "rnode"
    BY <1>1, <1>2, <1>3 DEF Outlet, HandedOnce
<1>4. CASE frKind # "rnode"
  <2>0. frOut \in Seq(Nat) /\ frOut = [k \in 1..m |-> k]
    BY <1>1, <1>4 DEF Outlet, InTurn
  <2>a. DOMAIN frOut = 1..m /\ \A k \in 1..m : frOut[k] = k
    BY ONLY <2>0
  <2>1. frOut \in Seq(Nat) /\ DOMAIN frOut = 1..m /\ Len(frOut) = m /\ \A k \in 1..m : frOut[k] = k
    BY ONLY <1>1, <2>0, <2>a
  <2>2. PICK e \in Nat : e = m + 1 /\ frOut' = Append(frOut, e)
    BY <1>2, <1>4
  <2>3. frOut' \in Seq(Nat) /\ DOMAIN frOut' = 1..(m + 1) /\ \A k \in 1..(m + 1) : frOut'[k] = k
    BY <2>1, <2>2
  <2>4. frOut' = [k \in 1..(m + 1) |-> k]
    <3>1. PICK o : o = frOut'
      OBVIOUS
    <3>2. o \in Seq(Nat) /\ DOMAIN o = 1..(m + 1) /\ \A k \in 1..(m + 1) : o[k] = k
      BY <2>3, <3>1
    <3>3. o \in [1..Len(o) -> Nat] /\ DOMAIN o = 1..Len(o)
      BY <3>2, LenProperties
    <3>4. o \in [1..(m + 1) -> Nat]
      BY <3>2, <3>3
    <3> QED
      BY ONLY <3>1, <3>2, <3>4
  <2>5. InTurn'
    BY <1>2, <2>4 DEF InTurn
  <2>6. HandedOnce'
    BY <1>2, <2>3 DEF HandedOnce
  <2> QED
    BY <1>2, <2>3, <2>5, <2>6 DEF Outlet
<1> QED
    BY <1>3, <1>4

LEMMA CheckHandsOn == ASSUME Outlet, NEW i, RadioProcessIncoming(i) PROVE Outlet'
<1>1. /\ frKind = "rnode" /\ frKind' = "rnode" /\ i \in DOMAIN frCut /\ UNCHANGED frCut /\ frOut' = Append(frOut, i)
      /\ \A k \in DOMAIN frOut : frOut[k] # i
    BY DEF RadioProcessIncoming
<1>2. PICK m \in Nat : m = Len(frOut) /\ DOMAIN frOut = 1..m /\ frOut \in Seq(Nat) /\ i \in Nat
    BY <1>1 DEF Outlet
<1>3. frOut' \in Seq(Nat) /\ DOMAIN frOut' = 1..(m + 1) /\ frOut'[m + 1] = i /\ \A k \in 1..m : frOut'[k] = frOut[k]
    BY <1>1, <1>2
<1>4. \A k \in 1..(m + 1) : k \in 1..m \/ k = m + 1
    BY <1>2
<1>5. HandedOnce'
    BY <1>1, <1>2, <1>3, <1>4 DEF Outlet, HandedOnce
<1> QED
    BY <1>1, <1>3, <1>5 DEF Outlet

\* The initial noise is as assumed.
LEMMA FramingBegins == FramingInit => FramingInv
<1> SUFFICES ASSUME FramingInit PROVE FramingInv
    OBVIOUS
<1>1. frSent \in Seq(Payloads) /\ frNoise \in Seq(Bytes) /\ frNoise \in Noise
    BY FramingAssumption DEF FramingInit
<1>2. FramingPosition
  <2>1. \A i \in DOMAIN frNoise : frNoise[i] = "end" => i = Len(frNoise)
    BY <1>1, FramingAssumption
  <2> QED
    BY <1>1, <2>1 DEF FramingInit, FramingPosition, Framed
<1>3. Accepted = << >>
  <2>1. {i \in 1..frPkt - 1 : ~Refused(frSent[i])} = {}
    BY DEF FramingInit
  <2> QED
    BY <2>1, AtNone DEF Accepted
<1>4. Reader
    BY <1>3 DEF FramingInit, Reader
<1>5. Outlet
  <2>1. [k \in DOMAIN << >> |-> k] = << >>
    OBVIOUS
  <2> QED
    BY <2>1 DEF FramingInit, Outlet, HandedOnce, InTurn
<1> QED
    BY <1>2, <1>4, <1>5 DEF FramingInv

\* Every packet the access code check accepts is cut out of the stream once its frame has
\* been read, and nothing else is, and each is handed on at most once, by the stream of a
\* socket at once and in order: for any number of packets of any bytes, in HDLC, in KISS while
\* none is refused, and through the parser of the RNode driver, whose checks may overtake one
\* another, wherever in a frame the reader attached.
THEOREM FramingSafety == FramingInit /\ [][FramingNext]_framingVars => []FramesRecovered
<1>1. FramingInit => FramingInv
    BY FramingBegins
<1>2. FramingInv /\ [FramingNext]_framingVars => FramingInv'
  <2> SUFFICES ASSUME FramingInv, [FramingNext]_framingVars PROVE FramingInv'
    OBVIOUS
  <2>1. CASE HdlcFeed \/ KissFeed \/ FeedBytes
    <3>1. FramingPosition /\ Consume
      BY <2>1 DEF FramingInv, HdlcFeed, KissFeed, FeedBytes
    <3>2. UNCHANGED <<frKind, frSent>> /\ (ReadNoise \/ ReadFrame)
      BY <3>1, Positions
    <3>3. FramingPosition'
      BY <3>1, <3>2, PositionKept
    <3>4. Intact' <=> Intact
      BY <3>2 DEF Intact, Refused
    <3>5. Intact => Reader'
      <4> SUFFICES ASSUME Intact PROVE Reader'
        OBVIOUS
      <4>1. Reader
        BY DEF FramingInv
      <4>2. CASE HdlcFeed
        BY <3>1, <3>2, <4>1, <4>2, HdlcReads
      <4>3. CASE KissFeed
        BY <3>1, <3>2, <4>1, <4>3, KissReads
      <4>4. CASE FeedBytes
        BY <3>1, <3>2, <4>1, <4>4, RNodeReads
      <4> QED
        BY <2>1, <4>2, <4>3, <4>4
    <3>6. Intact => Outlet'
      <4> SUFFICES ASSUME Intact PROVE Outlet'
        OBVIOUS
      <4>1. Reader /\ Reader' /\ Outlet
        BY <3>5 DEF FramingInv
      <4>2. frCut' = frCut \/ (frCut' = Append(frCut, Framed) /\ Framed \in Seq(Bytes))
        <5>1. CASE UNCHANGED frPkt
          <6>1. Accepted' = Accepted
            BY <3>2, <5>1, AcceptedKept
          <6> QED
            BY <4>1, <6>1 DEF Reader
        <5>2. CASE frPkt' # frPkt
          <6>1. frPkt' = frPkt + 1 /\ frPkt \in DOMAIN frSent
            BY <3>2, <5>2 DEF ReadNoise, ReadFrame, ReadOpening, ReadCommand, ReadPlain, ReadEscape, ReadTransposed, ReadClosing
          <6>2. Framed \in Seq(Bytes)
            BY <3>1, <6>1, FramingAssumption DEF FramingPosition, Framed
          <6>3. Accepted' = IF Refused(Framed) THEN Accepted ELSE Append(Accepted, Framed)
            BY <3>1, <3>2, <6>1, AcceptedClosing
          <6> QED
            BY <4>1, <6>2, <6>3 DEF Reader
        <5> QED
          BY <5>1, <5>2
      <4>3. frOut' = IF frKind = "rnode" \/ frCut' = frCut THEN frOut ELSE Append(frOut, Len(frCut'))
        BY <2>1 DEF HdlcFeed, KissFeed, FeedBytes, HandOn
      <4>4. CASE frCut' = frCut
        BY <3>2, <4>1, <4>3, <4>4 DEF Outlet, HandedOnce, InTurn
      <4>5. CASE frCut' # frCut
        BY <3>2, <4>1, <4>2, <4>3, <4>5, CutHandsOn
      <4> QED
        BY <4>4, <4>5
    <3> QED
      BY <3>3, <3>4, <3>5, <3>6 DEF FramingInv
  <2>2. ASSUME UNCHANGED <<frKind, frSent, frNoise, frPkt, frAt, frOff, frIn, frEsc, frCmd, frBuf, frCut>>
        PROVE  (FramingPosition' <=> FramingPosition) /\ (Intact' <=> Intact) /\ (Reader' <=> Reader)
    BY <2>2 DEF FramingPosition, Reader, Intact, Accepted, Framed, HalfHdlc, HalfKiss, FrameOpened
  <2>3. ASSUME NEW i, RadioProcessIncoming(i) PROVE FramingInv'
    <3>1. UNCHANGED <<frKind, frSent, frNoise, frPkt, frAt, frOff, frIn, frEsc, frCmd, frBuf, frCut>>
      BY <2>3 DEF RadioProcessIncoming
    <3> QED
      BY <2>2, <2>3, <3>1, CheckHandsOn DEF FramingInv
  <2>4. CASE UNCHANGED framingVars
    <3>1. Outlet' <=> Outlet
      BY <2>4 DEF framingVars, Outlet, HandedOnce, InTurn
    <3> QED
      BY <2>2, <2>4, <3>1 DEF framingVars, FramingInv
  <2> QED
    BY <2>1, <2>3, <2>4 DEF FramingNext
<1>3. FramingInv => FramesRecovered
    BY DEF FramingInv, Intact, Reader, Outlet, FramesRecovered
<1> QED
    BY <1>1, <1>2, <1>3, PTL
=============================================================================
