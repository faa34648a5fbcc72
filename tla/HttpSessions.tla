---------------------------- MODULE HttpSessions ----------------------------
(***************************************************************************)
(* The HTTP POST exchange: a client that registers, then polls the server   *)
(* with its queued packets and takes the server's back in the response, and *)
(* a server with one peer interface per registration, which it reaps when   *)
(* it is idle.  Requests and responses may be lost; the client learns of a  *)
(* reaped session by a 401 and registers again.                             *)
(*                                                                          *)
(* Nothing keeps the client to one request at a time: a packet written while *)
(* connect() registers polls on its own, and a poll outlives a disconnect(). *)
(* Nor does the server wait for the packets of a request before it answers:  *)
(* their access codes are checked one after the other in the background.    *)
(***************************************************************************)
EXTENDS Naturals, Sequences, FiniteSets

CONSTANTS
    MaxBatch,      \* packets per exchange
    Flights,       \* bound: HTTP requests under way at a time
    MaxHttpPackets,\* bound: packets the application sends
    MaxHttpConnects,\* bound: calls of connect()
    MaxSessions    \* bound: registrations the server hands out

ASSUME HttpAssumption == MaxBatch \in Nat \ {0}

VARIABLES
    hcRunning, hcOnline,
    hcConnects,    \* calls of connect() so far: after the first there is a writable
    hcSession,     \* the session the client holds, 0 for none
    hcSent,        \* packets handed to the interface so far, numbered from 1
    hcBatches,     \* the splices of _outboundQueue so far, by _batchSeq: the session, the packets
                   \* first..last, and the next of them that the server looks at
    hcPolling,     \* _polling
    hcTimers,      \* armed poll timers
    hcHandle,      \* _pollTimer names one of them
    hcRegFailed,   \* history: a re-registration has failed
    posts,         \* the requests under way and their answers
    hsUp,          \* the server listens
    hsPeers,       \* peersById: the live sessions
    hsIssued,      \* registrations handed out
    hsQueue,       \* per session, packets waiting for the client
    hsIngest,      \* batches whose ingest() is under way
    hsGot          \* packets the server's peers have received, with their batch, in order

hcVars == <<hcRunning, hcOnline, hcConnects, hcSession, hcSent, hcBatches, hcPolling, hcTimers, hcHandle, hcRegFailed>>
pollVars == <<hcBatches, hcPolling, hcTimers, hcHandle>>
hsVars == <<hsUp, hsPeers, hsIssued, hsQueue, hsIngest, hsGot>>
httpVars == <<hcRunning, hcOnline, hcConnects, hcSession, hcSent, hcBatches, hcPolling, hcTimers, hcHandle, hcRegFailed,
              posts, hsUp, hsPeers, hsIssued, hsQueue, hsIngest, hsGot>>

\* A request: connect()'s or _poll's registration, or an exchange in a session, with the batch
\* it carries if any. Its answer is "none" while it is on the wire, then "ok", "denied" or
\* "error"; a registration is granted a session.
Post(kind, session, batch) == [kind |-> kind, session |-> session, batch |-> batch, answer |-> "none", granted |-> 0]
NoPost == Post("none", 0, 0)
FreeFlight == CHOOSE f \in Flights : posts[f] = NoPost
MayPost == \E f \in Flights : posts[f] = NoPost

HttpInit ==
    /\ hcRunning = FALSE /\ hcOnline = FALSE /\ hcConnects = 0 /\ hcSession = 0 /\ hcSent = 0 /\ hcBatches = << >>
    /\ hcPolling = FALSE /\ hcTimers = 0 /\ hcHandle = FALSE /\ hcRegFailed = FALSE
    /\ posts = [f \in Flights |-> NoPost]
    /\ hsUp = TRUE /\ hsPeers = {} /\ hsIssued = 0 /\ hsQueue = [s \in 1..MaxSessions |-> 0] /\ hsIngest = {} /\ hsGot = << >>

\* _outboundQueue holds the packets behind the last batch.
Taken == IF hcBatches = << >> THEN 0 ELSE hcBatches[Len(hcBatches)].last
Outbound == hcSent - Taken
-----------------------------------------------------------------------------
\* Client.

\* connect(), by an owner who has not called it, or has disconnected, or saw it fail: new
\* streams, and a registration.
HttpConnect ==
    /\ ~hcRunning /\ hcConnects < MaxHttpConnects /\ MayPost
    /\ hcRunning' = TRUE /\ hcConnects' = hcConnects + 1
    /\ posts' = [posts EXCEPT ![FreeFlight] = Post("connect", 0, 0)]
    /\ UNCHANGED <<hcOnline, hcSession, hcSent, pollVars, hcRegFailed, hsVars>>

\* The splice of _doExchange.
TakenBatch(session, sent) ==
    [session |-> session, first |-> Taken + 1, next |-> Taken + 1,
     last |-> IF sent - Taken < MaxBatch THEN sent ELSE Taken + MaxBatch]

\* The synchronous part of _poll in a running client, in the given flight: an unregistered one
\* skips the exchange and goes straight to the rescheduling. timers are armed besides, and
\* handle says whether _pollTimer names one of them.
StartPoll(f, session, sent, timers, handle) ==
    IF session = 0
    THEN /\ hcPolling' = FALSE /\ hcTimers' = timers + 1 /\ hcHandle' = TRUE /\ posts' = [posts EXCEPT ![f] = NoPost]
         /\ UNCHANGED hcBatches
    ELSE /\ hcPolling' = TRUE /\ hcTimers' = timers /\ hcHandle' = handle
         /\ IF sent = Taken
            THEN posts' = [posts EXCEPT ![f] = Post("exchange", session, 0)] /\ UNCHANGED hcBatches
            ELSE /\ hcBatches' = Append(hcBatches, TakenBatch(session, sent))
                 /\ posts' = [posts EXCEPT ![f] = Post("exchange", session, Len(hcBatches) + 1)]

\* The end of _poll: it reschedules itself unless the interface was stopped meanwhile.
EndPoll(f) ==
    /\ posts' = [posts EXCEPT ![f] = NoPost] /\ hcPolling' = FALSE
    /\ IF hcRunning THEN hcTimers' = hcTimers + 1 /\ hcHandle' = TRUE ELSE UNCHANGED <<hcTimers, hcHandle>>

\* connect() goes on: online, and the first poll, unless disconnect() came meanwhile.
Connected(f) ==
    /\ posts[f].kind = "connect" /\ posts[f].answer = "ok"
    /\ hcSession' = posts[f].granted /\ hcOnline' = TRUE
    /\ IF hcRunning
       THEN StartPoll(f, posts[f].granted, hcSent, hcTimers, hcHandle)
       ELSE posts' = [posts EXCEPT ![f] = NoPost] /\ UNCHANGED pollVars
    /\ UNCHANGED <<hcRunning, hcConnects, hcSent, hcRegFailed, hsVars>>

ConnectFails(f) ==
    /\ posts[f].kind = "connect" /\ posts[f].answer = "error"
    /\ hcRunning' = FALSE /\ posts' = [posts EXCEPT ![f] = NoPost]
    /\ UNCHANGED <<hcOnline, hcConnects, hcSession, hcSent, pollVars, hcRegFailed, hsVars>>

\* The registration inside a poll; when it fails the next poll finds no session.
Reregistered(f) ==
    /\ posts[f].kind = "register" /\ posts[f].answer \in {"ok", "error"}
    /\ hcSession' = IF posts[f].answer = "ok" THEN posts[f].granted ELSE hcSession
    /\ hcRegFailed' = (hcRegFailed \/ posts[f].answer = "error")
    /\ EndPoll(f)
    /\ UNCHANGED <<hcRunning, hcOnline, hcConnects, hcSent, hcBatches, hsVars>>

\* Mutant: a refused exchange is treated as a transient failure.
ExchangeAnsweredStale(f) ==
    /\ posts[f].kind = "exchange" /\ posts[f].answer # "none"
    /\ EndPoll(f)
    /\ UNCHANGED <<hcRunning, hcOnline, hcConnects, hcSession, hcSent, hcBatches, hcRegFailed, hsVars>>

\* The exchange's answer: a 401 drops the session and registers again within the same poll,
\* any other failure is left to the next poll. Packets of a failed exchange are not requeued.
ExchangeAnswered(f) ==
    /\ posts[f].kind = "exchange" /\ posts[f].answer # "none"
    /\ IF posts[f].answer = "denied"
       THEN /\ hcSession' = 0 /\ posts' = [posts EXCEPT ![f] = Post("register", 0, 0)]
            /\ UNCHANGED <<hcPolling, hcTimers, hcHandle>>
       ELSE EndPoll(f) /\ UNCHANGED hcSession
    /\ UNCHANGED <<hcRunning, hcOnline, hcConnects, hcSent, hcBatches, hcRegFailed, hsVars>>

\* A poll timer fires, the one _pollTimer names or one that it no longer does; in a stopped
\* client it does nothing.
PollTimer ==
    /\ hcTimers > 0
    /\ \E named \in BOOLEAN :
          /\ IF named THEN hcHandle ELSE hcHandle => hcTimers > 1
          /\ IF hcRunning
             THEN MayPost /\ StartPoll(FreeFlight, hcSession, hcSent, hcTimers - 1, hcHandle /\ ~named)
             ELSE hcTimers' = hcTimers - 1 /\ hcHandle' = (hcHandle /\ ~named) /\ UNCHANGED <<hcBatches, hcPolling, posts>>
    /\ UNCHANGED <<hcRunning, hcOnline, hcConnects, hcSession, hcSent, hcRegFailed, hsVars>>

\* _pushOutbound queues the packet; in a running client that is not polling _triggerSend polls
\* at once, in the place of the timer it knows of.
PushOutbound ==
    /\ hcConnects > 0 /\ hcSent < MaxHttpPackets
    /\ hcSent' = hcSent + 1
    /\ IF hcRunning /\ ~hcPolling
       THEN MayPost /\ StartPoll(FreeFlight, hcSession, hcSent + 1, IF hcHandle THEN hcTimers - 1 ELSE hcTimers, FALSE)
       ELSE UNCHANGED <<pollVars, posts>>
    /\ UNCHANGED <<hcRunning, hcOnline, hcConnects, hcSession, hcRegFailed, hsVars>>

HttpDisconnect ==
    /\ hcRunning \/ hcOnline
    /\ hcRunning' = FALSE /\ hcOnline' = FALSE /\ hcSession' = 0
    /\ hcTimers' = (IF hcHandle THEN hcTimers - 1 ELSE hcTimers) /\ hcHandle' = FALSE
    /\ UNCHANGED <<hcConnects, hcSent, hcBatches, hcPolling, hcRegFailed, posts, hsVars>>
-----------------------------------------------------------------------------
\* Server. The response of a request that was handled may still be lost.

OnWire(f, kind) == posts[f].kind \in kind /\ posts[f].answer = "none"

HandleRegister(f) ==
    /\ hsUp /\ OnWire(f, {"connect", "register"}) /\ hsIssued < MaxSessions
    /\ hsIssued' = hsIssued + 1 /\ hsPeers' = hsPeers \cup {hsIssued + 1}
    /\ \E answer \in {"ok", "error"} :
          posts' = [posts EXCEPT ![f] = [@ EXCEPT !.answer = answer, !.granted = hsIssued + 1]]
    /\ UNCHANGED <<hcVars, hsUp, hsQueue, hsIngest, hsGot>>

\* Credentials first; then ingest() is started on the posted packets, and up to a batch of the
\* peer's own leave its queue for good.
HandleExchange(f) ==
    /\ hsUp /\ OnWire(f, {"exchange"})
    /\ IF posts[f].session \in hsPeers
       THEN /\ hsIngest' = IF posts[f].batch = 0 THEN hsIngest ELSE hsIngest \cup {posts[f].batch}
            /\ hsQueue' = [hsQueue EXCEPT ![posts[f].session] = IF @ < MaxBatch THEN 0 ELSE @ - MaxBatch]
            /\ \E answer \in {"ok", "error"} : posts' = [posts EXCEPT ![f] = [@ EXCEPT !.answer = answer]]
       ELSE /\ \E answer \in {"denied", "error"} : posts' = [posts EXCEPT ![f] = [@ EXCEPT !.answer = answer]]
            /\ UNCHANGED <<hsIngest, hsQueue>>
    /\ UNCHANGED <<hcVars, hsUp, hsPeers, hsIssued, hsGot>>

\* One packet of an ingest() under way: it is received if it is not too large, _openRaw and
\* deserialize accept it, and the peer has not been closed meanwhile.
IngestNext(b) ==
    LET batch == hcBatches[b]
    IN  /\ b \in hsIngest
        /\ hcBatches' = [hcBatches EXCEPT ![b].next = @ + 1]
        /\ hsIngest' = IF batch.next = batch.last THEN hsIngest \ {b} ELSE hsIngest
        /\ \E opened \in BOOLEAN :
              hsGot' = IF opened /\ batch.session \in hsPeers THEN Append(hsGot, [batch |-> b, packet |-> batch.next]) ELSE hsGot
        /\ UNCHANGED <<hcRunning, hcOnline, hcConnects, hcSession, hcSent, hcPolling, hcTimers, hcHandle, hcRegFailed,
                       posts, hsUp, hsPeers, hsIssued, hsQueue>>

\* External: a request that never reaches the server, or a server that answers with an error.
RequestFails(f) ==
    /\ OnWire(f, {"connect", "register", "exchange"})
    /\ posts' = [posts EXCEPT ![f] = [@ EXCEPT !.answer = "error"]]
    /\ UNCHANGED <<hcVars, hsVars>>

\* The server's node writes a packet to a peer interface.
PeerWrite(s) ==
    /\ s \in hsPeers /\ \A o \in DOMAIN hsQueue : hsQueue[o] = 0
    /\ hsQueue' = [hsQueue EXCEPT ![s] = @ + 1]
    /\ UNCHANGED <<hcVars, posts, hsUp, hsPeers, hsIssued, hsIngest, hsGot>>

\* The reaper drops a peer it has not seen for the idle timeout and closes its interface.
Reap(s) ==
    /\ s \in hsPeers
    /\ hsPeers' = hsPeers \ {s} /\ hsQueue' = [hsQueue EXCEPT ![s] = 0]
    /\ UNCHANGED <<hcVars, posts, hsUp, hsIssued, hsIngest, hsGot>>

\* The server interface stops: every peer is closed and no request is served any more.
ServerDisconnect ==
    /\ hsUp /\ hsUp' = FALSE
    /\ hsPeers' = {} /\ hsQueue' = [s \in DOMAIN hsQueue |-> 0]
    /\ UNCHANGED <<hcVars, posts, hsIssued, hsIngest, hsGot>>

\* An exchange that reaches the server and whose answer comes back.
Exchanged == \E f \in Flights : HandleExchange(f) /\ posts'[f].answer # "error"
ClientStep(f) == Connected(f) \/ ConnectFails(f) \/ Reregistered(f) \/ ExchangeAnswered(f)
ServerStep(f) == HandleRegister(f) \/ HandleExchange(f) \/ RequestFails(f)

HttpNext ==
    \/ HttpConnect \/ PollTimer \/ PushOutbound \/ HttpDisconnect
    \/ \E f \in Flights : ClientStep(f) \/ ServerStep(f)
    \/ \E b \in 1..MaxHttpPackets : IngestNext(b)
    \/ \E s \in 1..MaxSessions : PeerWrite(s) \/ Reap(s)
    \/ ServerDisconnect
-----------------------------------------------------------------------------
\* A running client never falls silent: a timer, a poll or connect() will poll next, whatever
\* was stopped, restarted, refused or renewed (_poll, _triggerSend, connect).
PollsGoOn == hcRunning => hcTimers > 0 \/ \E f \in Flights : posts[f] # NoPost

\* A packet arrives at most once, and those of an exchange in the order in which they were
\* sent, although polls overlap and failed exchanges lose whole batches
\* (_doExchange, ingest).
ArrivesOnce == \A i, j \in DOMAIN hsGot : i < j =>
    /\ hsGot[i].packet # hsGot[j].packet
    /\ hsGot[i].batch = hsGot[j].batch => hsGot[i].packet < hsGot[j].packet

\* What a poll session never does: fall silent, or hand over a packet twice or those of an
\* exchange out of order, whatever is lost, reaped and renewed (_poll, _triggerSend, ingest).
PollsSafe == PollsGoOn /\ ArrivesOnce

\* A packet waiting in a running client leaves the queue although exchanges fail and the
\* server reaps its session, as long as no re-registration fails (_poll).
QueueDrains == (Outbound > 0 /\ hcRunning) ~> (Outbound = 0 \/ ~hcRunning \/ hcRegFailed)

\* A client whose session the server has reaped notices it by an exchange and gets another,
\* as long as exchanges get through and no re-registration fails (_doExchange, _register).
SessionRecovers ==
    (hcRunning /\ hcOnline /\ hcSession \notin hsPeers)
        ~> (hcSession \in hsPeers \/ hcRegFailed \/ ~hcRunning \/ ~hsUp)

\* What a poll session promises: that, a queue that drains and a session that is renewed
\* (_poll, _triggerSend, _doExchange, _register).
PollsDeliver == []PollsSafe /\ QueueDrains /\ SessionRecovers

\* _triggerSend exchanges "immediately when idle": the client has one chain of polls.
OnePollChain == hcTimers + Cardinality({f \in Flights : posts[f].kind \in {"exchange", "register"}}) <= 1

\* Packets arrive in the order in which they were sent.
ArrivesInOrder == \A i, j \in DOMAIN hsGot : i < j => hsGot[i].packet < hsGot[j].packet

\* An online client polls.
OnlineIsRunning == hcOnline => hcRunning
=============================================================================
