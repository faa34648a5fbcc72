----------------------------- MODULE Discovery -----------------------------
(***************************************************************************)
(* Discovery of interfaces: announces of the discovery aspect are parsed one *)
(* after the other, remembered and saved; listing forgets the records that   *)
(* are too old or no longer acceptable; start() and stop() come and go.  An   *)
(* operation of the storage adapter may fail, which is logged.               *)
(***************************************************************************)
EXTENDS Naturals, Sequences, FiniteSets

CONSTANTS
    Found,          \* discovery hashes: one per (transport, name)
    Offers,         \* announces: [key, stamped, sealed, wellFormed, type, source, none]
    Discoverable,   \* DISCOVERABLE_TYPES
    Sources,        \* discoverySources
    CanOpen,        \* a networkIdentity is configured
    RemoveAge,      \* THRESHOLD_REMOVE, in ticks
    MaxOffers, MaxStarts, MaxLists, MaxStorageFaults  \* bounds

ASSUME DiscoveryAssumption == RemoveAge \in Nat

VARIABLES
    dcStore, dcDisk,  \* key -> [heard, age, source, none] or Unknown: in memory and in storage;
                      \* none: an IFAC parameter is the literal "None"
    dcChain,          \* _chain: announces not yet taken up
    dcSaving,         \* records being persisted: [key, record]
    dcStarted,        \* _started
    dcHydrating,      \* start() calls awaiting _hydrate
    dcListeners,      \* announce listeners on the transport
    dcHeld,           \* _announceListener is set
    dcListing,        \* the stale keys of the list() under way
    dcDeleting,       \* the key whose storage record is being deleted: a set of at most one
    dcForgotten,      \* history: keys removed although heard lately
    dcCrossed,        \* history: a removal or a second start() met a save or a removal
    dcFailed,         \* history: keys a failed storage operation has left apart
    dcCount           \* bounds: [offers, starts, lists, faults]

discoveryVars == <<dcStore, dcDisk, dcChain, dcSaving, dcStarted, dcHydrating, dcListeners, dcHeld, dcListing, dcDeleting, dcForgotten, dcCrossed, dcFailed, dcCount>>

Unknown == [heard |-> MaxOffers + 1, age |-> RemoveAge + 1, source |-> "nobody", none |-> FALSE]
storeVars == <<dcStore, dcDisk>>
lifeVars == <<dcStarted, dcHydrating, dcListeners, dcHeld>>
listVars == <<dcListing, dcDeleting, dcForgotten, dcCrossed>>
StorageFault == dcCount.faults < MaxStorageFaults
BumpCount(f) == dcCount' = [dcCount EXCEPT ![f] = @ + 1]

\* The store holds what an earlier run of the program saved, from any source.
DiscoveryInit ==
    /\ dcStore = [k \in Found |-> Unknown]
    /\ dcDisk \in [Found -> {Unknown} \cup [heard : {0}, age : {0}, source : {"former"}, none : BOOLEAN]]
    /\ dcChain = << >> /\ dcSaving = {} /\ dcStarted = FALSE /\ dcHydrating = 0 /\ dcListeners = 0 /\ dcHeld = FALSE
    /\ dcListing = {} /\ dcDeleting = {} /\ dcForgotten = {} /\ dcCrossed = FALSE
    /\ dcFailed = {} /\ dcCount = [offers |-> 0, starts |-> 0, lists |-> 0, faults |-> 0]
-----------------------------------------------------------------------------
\* start(): nothing when started; the listener comes only after the stored records are read.
Start ==
    /\ ~dcStarted /\ dcCount.starts < MaxStarts /\ BumpCount("starts")
    /\ dcStarted' = TRUE /\ dcHydrating' = dcHydrating + 1
    /\ UNCHANGED <<storeVars, dcChain, dcSaving, dcListeners, dcHeld, listVars, dcFailed>>

\* _hydrate is done and start() goes on, stopped meanwhile or not. A failure ends the reading
\* and leaves out the other keys.
Hydrated(read) ==
    /\ dcHydrating > 0 /\ dcHydrating' = dcHydrating - 1 /\ dcListeners' = dcListeners + 1 /\ dcHeld' = TRUE
    /\ IF read = Found THEN UNCHANGED dcCount ELSE StorageFault /\ BumpCount("faults")
    /\ dcStore' = [k \in Found |-> IF k \notin read \/ dcDisk[k] = Unknown THEN dcStore[k] ELSE dcDisk[k]]
    /\ dcFailed' = {k \in Found : k \notin read \/ (k \in dcFailed /\ dcDisk[k] = Unknown)}
    /\ dcCrossed' = (dcCrossed \/ dcSaving # {} \/ dcDeleting # {})
    /\ UNCHANGED <<dcDisk, dcChain, dcSaving, dcStarted, dcListing, dcDeleting, dcForgotten>>

\* stop() takes away the listener it knows of, the last one installed; the chain runs on.
Stop ==
    /\ dcStarted /\ dcStarted' = FALSE
    /\ dcListeners' = IF dcHeld THEN dcListeners - 1 ELSE dcListeners
    /\ dcHeld' = FALSE
    /\ UNCHANGED <<storeVars, dcChain, dcSaving, dcHydrating, listVars, dcFailed, dcCount>>

\* An announce event of the transport: every listener chains it.
OnAnnounce(o) ==
    /\ dcCount.offers < MaxOffers /\ BumpCount("offers")
    /\ dcChain' = dcChain \o [i \in 1..dcListeners |-> o]
    /\ UNCHANGED <<storeVars, dcSaving, lifeVars, listVars, dcFailed>>

\* parseDiscoveryAnnounce with buildDiscoveredInfo: the announcing identity is a source we
\* trust, the payload can be opened, its stamp is worth enough and every field is valid.
Parses(o) == o.source \in Sources /\ (o.sealed => CanOpen) /\ o.stamped /\ o.wellFormed

Accepts(o) == Parses(o) /\ o.type \in Discoverable

Remembered(o) == [heard |-> IF dcStore[o.key] = Unknown THEN 0 ELSE dcStore[o.key].heard + 1, age |-> 0, source |-> o.source, none |-> o.none]

\* Mutant: announces are processed side by side.
ProcessAnnounceAtOnce ==
    /\ dcChain # << >> /\ dcChain' = Tail(dcChain)
    /\ IF Accepts(Head(dcChain))
       THEN LET o == Head(dcChain)
            IN  /\ dcStore' = [dcStore EXCEPT ![o.key] = Remembered(o)]
                /\ dcSaving' = dcSaving \cup {[key |-> o.key, record |-> Remembered(o)]}
                /\ dcCrossed' = (dcCrossed \/ o.key \in dcDeleting)
       ELSE UNCHANGED <<dcStore, dcSaving, dcCrossed>>
    /\ UNCHANGED <<dcDisk, lifeVars, dcListing, dcDeleting, dcForgotten, dcFailed, dcCount>>

\* _processAnnounce, when the one before it has ended: an acceptable announce is remembered
\* and its record goes to storage.
ProcessAnnounce ==
    /\ dcChain # << >> /\ dcSaving = {} /\ dcChain' = Tail(dcChain)
    /\ IF Accepts(Head(dcChain))
       THEN LET o == Head(dcChain)
            IN  /\ dcStore' = [dcStore EXCEPT ![o.key] = Remembered(o)]
                /\ dcSaving' = {[key |-> o.key, record |-> Remembered(o)]}
                /\ dcCrossed' = (dcCrossed \/ o.key \in dcDeleting)
       ELSE UNCHANGED <<dcStore, dcSaving, dcCrossed>>
    /\ UNCHANGED <<dcDisk, lifeVars, dcListing, dcDeleting, dcForgotten, dcFailed, dcCount>>

\* _persist: the record is in storage.
Persisted == \E s \in dcSaving :
    /\ dcSaving' = dcSaving \ {s} /\ dcDisk' = [dcDisk EXCEPT ![s.key] = s.record] /\ dcFailed' = dcFailed \ {s.key}
    /\ UNCHANGED <<dcStore, dcChain, lifeVars, listVars, dcCount>>

\* It is not: the old record stays, or is cut off and reads as none.
PersistFails == \E s \in dcSaving :
    /\ StorageFault /\ BumpCount("faults")
    /\ dcSaving' = dcSaving \ {s} /\ dcFailed' = dcFailed \cup {s.key}
    /\ dcDisk' \in {dcDisk, [dcDisk EXCEPT ![s.key] = Unknown]}
    /\ UNCHANGED <<dcStore, dcChain, lifeVars, listVars>>

\* A record is forgotten, and its storage record with an await.
ForgetRecord(k, rest, store) ==
    /\ dcListing' = rest /\ dcDeleting' = {k}
    /\ dcForgotten' = IF store[k] # Unknown /\ store[k].age <= RemoveAge /\ store[k].source \in Sources
                      THEN dcForgotten \cup {k} ELSE dcForgotten
    /\ dcStore' = [store EXCEPT ![k] = Unknown]
    /\ dcCrossed' = (dcCrossed \/ \E s \in dcSaving : s.key = k)
    /\ UNCHANGED <<dcDisk, dcChain, dcSaving, lifeVars, dcFailed>>

\* "None" is taken out of a record.
Sanitized(r) == [r EXCEPT !.none = FALSE]

\* listDiscoveredInterfaces: every record in memory is sanitized, and not saved; the keys to
\* forget are collected, and the first one is forgotten at once...
ListCollects ==
    LET stale == {k \in Found : dcStore[k] # Unknown /\ (dcStore[k].age > RemoveAge \/ dcStore[k].source \notin Sources)}
        clean == [k \in Found |-> Sanitized(dcStore[k])]
    IN  /\ dcListing = {} /\ dcDeleting = {} /\ dcCount.lists < MaxLists /\ BumpCount("lists")
        /\ \/ \E k \in stale : ForgetRecord(k, stale \ {k}, clean)
           \/ /\ stale = {} /\ dcStore' = clean
              /\ UNCHANGED <<dcDisk, dcChain, dcSaving, lifeVars, listVars, dcFailed>>

\* ...the others as the storage answers.
ListForgets(k) ==
    /\ k \in dcListing /\ dcDeleting = {} /\ ForgetRecord(k, dcListing \ {k}, dcStore) /\ UNCHANGED dcCount

\* _delete: the record is gone from storage, or it is not.
ListDeleted ==
    /\ dcDeleting # {} /\ dcDeleting' = {}
    /\ \/ /\ dcDisk' = [k \in Found |-> IF k \in dcDeleting THEN Unknown ELSE dcDisk[k]]
          /\ dcFailed' = dcFailed \ dcDeleting /\ UNCHANGED dcCount
       \/ StorageFault /\ BumpCount("faults") /\ dcFailed' = dcFailed \cup dcDeleting /\ UNCHANGED dcDisk
    /\ UNCHANGED <<dcStore, dcChain, dcSaving, lifeVars, dcListing, dcForgotten, dcCrossed>>

Older(r) == IF r.age > RemoveAge THEN r ELSE [r EXCEPT !.age = @ + 1]
TimePasses ==
    /\ dcStore' = [k \in Found |-> Older(dcStore[k])] /\ dcDisk' = [k \in Found |-> Older(dcDisk[k])]
    /\ dcSaving' = {[s EXCEPT !.record = Older(@)] : s \in dcSaving}
    /\ UNCHANGED <<dcChain, lifeVars, listVars, dcFailed, dcCount>>

DiscoveryNext ==
    \/ Start \/ (\E read \in SUBSET Found : Hydrated(read)) \/ Stop \/ ProcessAnnounce \/ Persisted \/ PersistFails \/ ListCollects \/ ListDeleted \/ TimePasses
    \/ \E o \in Offers : OnAnnounce(o)
    \/ \E k \in Found : ListForgets(k)
-----------------------------------------------------------------------------
\* When nothing is under way, and no removal or restart has met a save, storage holds what
\* memory holds, but for the "None" a listing has taken out of memory only and for the keys
\* whose last storage operation failed.
StorageFollows ==
    (dcSaving = {} /\ dcDeleting = {} /\ ~dcCrossed /\ dcListeners > 0) =>
        \A k \in Found \ dcFailed : dcStore[k] \in {dcDisk[k], Sanitized(dcDisk[k])}

\* What a listing shows is what a restart shows: sanitized records are saved.
SanitizedIsSaved ==
    (dcSaving = {} /\ dcDeleting = {} /\ ~dcCrossed /\ dcListeners > 0) => \A k \in Found \ dcFailed : dcStore[k] = dcDisk[k]

\* listDiscoveredInterfaces prunes records older than the threshold, and no others.
FreshIsKept == dcForgotten = {}

\* Nothing listens after stop().
StoppedIsSilent == ~dcStarted => dcListeners = 0
=============================================================================
