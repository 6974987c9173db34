------------------------ MODULE LegacyCameraMetadata ------------------------
(***************************************************************************)
(* libshims/gui/CameraMetadata.cpp: the old CameraMetadata object, kept    *)
(* alive for camera blobs.  An object owns a camera_metadata buffer on     *)
(* the heap; buffers move between objects and the blob with release() and  *)
(* acquire(), and an update may replace the buffer by a larger one.  Blobs *)
(* call the methods of an object one at a time: each call is one step.     *)
(*                                                                         *)
(* Of the camera_metadata library the model keeps the header: a buffer has *)
(* room for entryCap entries and for dataCap units of data outside them,   *)
(* and counts what it holds.  An address may be used again once it is      *)
(* freed.                                                                  *)
(***************************************************************************)
EXTENDS Integers, FiniteSets

CONSTANTS Objects,      \* CameraMetadata objects of the blobs
          Addresses,    \* addresses the allocator has
          Tags,         \* tags with a type
          UnknownTag,   \* a tag without one
          Sizes,        \* data sizes of an entry (0: stored in the entry itself)
          ClientCaps,   \* capacities of the buffers that blobs make themselves
          NULL, Free

\* A camera_metadata with the sizes of its entries' data.
Entries == UNION {[S -> Sizes] : S \in SUBSET Tags}
Buffers == [entries : Entries, entryCount : Nat, dataCount : Int, entryCap : Nat, dataCap : Nat]

ASSUME MetadataAssumption ==
    /\ Sizes \subseteq Nat /\ ClientCaps \subseteq Nat
    /\ UnknownTag \notin Tags
    /\ {NULL, Free} \cap Addresses = {}
    /\ NULL \notin Buffers /\ Free \notin Buffers

VARIABLES
    heap,     \* heap[n]: the camera_metadata at address n, or Free
    live,     \* the objects that are constructed
    buffer,   \* buffer[o]: the address object o owns, or NULL
    locked,   \* locked[o]
    client,   \* addresses that the blobs own
    result    \* what the last call returned

metadataVars == <<heap, live, buffer, locked, client, result>>

MetadataInit ==
    /\ heap = [n \in Addresses |-> Free]
    /\ live = {}
    /\ buffer = [o \in Objects |-> NULL]
    /\ locked \in [Objects -> BOOLEAN]    \* memory of no object yet
    /\ client = {}
    /\ result = "OK"

-----------------------------------------------------------------------------
(* The camera_metadata library *)

NoEntries == [t \in {} |-> 0]

allocate_camera_metadata(entryCap, dataCap) ==
    [entries |-> NoEntries, entryCount |-> 0, dataCount |-> 0,
     entryCap |-> entryCap, dataCap |-> dataCap]

\* append_camera_metadata(b, c) into a new, empty b; NULL if it does not fit.
append_camera_metadata(b, c) ==
    IF c.entryCount <= b.entryCap /\ c.dataCount <= b.dataCap
    THEN [c EXCEPT !.entryCap = b.entryCap, !.dataCap = b.dataCap]
    ELSE NULL

\* add_camera_metadata_entry and update_camera_metadata_entry: buffer b with
\* the entry for tag t; NULL if it does not fit.
SetEntry(b, t, size) ==
    LET known == t \in DOMAIN b.entries
        entryCount == IF known THEN b.entryCount ELSE b.entryCount + 1
        dataCount == b.dataCount + size - (IF known THEN b.entries[t] ELSE 0)
    IN  IF entryCount <= b.entryCap /\ dataCount <= b.dataCap
        THEN [b EXCEPT !.entries = [u \in DOMAIN b.entries \cup {t} |->
                                       IF u = t THEN size ELSE b.entries[u]],
                       !.entryCount = entryCount, !.dataCount = dataCount]
        ELSE NULL

-----------------------------------------------------------------------------
FreeAddresses == {n \in Addresses : heap[n] = Free}

\* Mutant: grows only when the buffer is already over-full.
Grown_TooLate(count, extra, capacity) ==
    IF count > capacity THEN (count + extra) * 2 ELSE capacity

Grown(count, extra, capacity) ==
    IF count + extra > capacity THEN (count + extra) * 2 ELSE capacity

\* Mutant: the entries are not copied to the replacement.
Replacement_NotAppended(b, entryCap, dataCap) == allocate_camera_metadata(entryCap, dataCap)

Replacement(b, entryCap, dataCap) ==
    append_camera_metadata(allocate_camera_metadata(entryCap, dataCap), b)

\* resizeIfNeeded(o, 1, extraData): the possible outcomes.  at is the address
\* the object then owns, freed the address given back (or NULL).
Resized(o, extraData) ==
    LET Outcome(r, at, b, freed) == [result |-> r, at |-> at, buffer |-> b, freed |-> freed]
        New(b, freed) == {Outcome("OK", n, b, freed) : n \in FreeAddresses}
        old == heap[buffer[o]]
        NoMemory == Outcome("NO_MEMORY", buffer[o], old, NULL)
        entryCap == Grown(old.entryCount, 1, old.entryCap)
        dataCap == Grown(old.dataCount, extraData, old.dataCap)
        copy == Replacement(old, entryCap, dataCap)
    IN  IF buffer[o] = NULL
        THEN New(allocate_camera_metadata(2, extraData * 2), NULL)
                \cup {Outcome("NO_MEMORY", NULL, NULL, NULL)}
        ELSE IF entryCap = old.entryCap /\ dataCap = old.dataCap
        THEN {Outcome("OK", buffer[o], old, NULL)}
        ELSE {NoMemory} \cup
             (IF copy = NULL THEN {Outcome("ERROR", buffer[o], old, NULL)}
                             ELSE New(copy, buffer[o]))

\* Where the data of an update may lie: at the first byte of the object's own
\* buffer, behind that byte in it, or elsewhere.
Sources == {"start", "inside", "elsewhere"}

\* "dataAddress > bufferAddress && dataAddress < bufferAddress + bufferSize"
DataInside(o, src) == buffer[o] # NULL /\ src = "inside"

Answer(r) == result' = r

\* updateImpl refuses the call: locked object, unknown tag, data in own buffer.
UpdateRefused(o, t, src) ==
    /\ o \in live
    /\ \/ locked[o] /\ Answer("INVALID_OPERATION")
       \/ ~locked[o] /\ t = UnknownTag /\ Answer("BAD_VALUE")
       \/ ~locked[o] /\ t # UnknownTag /\ DataInside(o, src) /\ Answer("INVALID_OPERATION")
    /\ UNCHANGED <<heap, live, buffer, locked, client>>

\* updateImpl goes through: resize, then add or update the entry.  The data are
\* read last: at the start of a buffer that the resize has freed their bytes,
\* which are not modelled, are undefined.
Update(o, t, size, src) ==
    /\ o \in live /\ ~locked[o] /\ t # UnknownTag /\ ~DataInside(o, src)
    /\ \E r \in Resized(o, size) :
          LET after == [n \in Addresses |-> IF n = r.freed THEN Free ELSE heap[n]]
              set == SetEntry(r.buffer, t, size)
          IN  \/ /\ r.result # "OK"
                 /\ Answer(r.result)
                 /\ UNCHANGED <<heap, buffer>>
              \/ /\ r.result = "OK"
                 /\ buffer' = [buffer EXCEPT ![o] = r.at]
                 /\ heap' = [after EXCEPT ![r.at] = IF set = NULL THEN r.buffer ELSE set]
                 /\ Answer(IF set = NULL THEN "ERROR" ELSE "OK")
    /\ UNCHANGED <<live, locked, client>>

\* The constructor.
Ctor(o) ==
    /\ o \notin live
    /\ live' = live \cup {o}
    /\ buffer' = [buffer EXCEPT ![o] = NULL]
    /\ locked' = [locked EXCEPT ![o] = FALSE]
    /\ Answer("OK")
    /\ UNCHANGED <<heap, client>>

\* Mutant: a locked object is cleared, too.
MayClear_Locked(o, isLocked) == buffer[o] # NULL

MayClear(o, isLocked) == ~isLocked /\ buffer[o] # NULL

\* The heap after clear() of an object whose lock flag is isLocked.
Freed(o, isLocked) ==
    IF MayClear(o, isLocked) THEN [heap EXCEPT ![buffer[o]] = Free] ELSE heap

Clear(o) ==
    /\ o \in live
    /\ heap' = Freed(o, locked[o])
    /\ buffer' = [buffer EXCEPT ![o] = IF MayClear(o, locked[o]) THEN NULL ELSE @]
    /\ Answer("OK")
    /\ UNCHANGED <<live, locked, client>>

\* The destructor unlocks first, so that clear() frees the buffer.
Dtor(o) ==
    /\ o \in live
    /\ live' = live \ {o}
    /\ locked' = [locked EXCEPT ![o] = FALSE]
    /\ heap' = Freed(o, FALSE)
    /\ buffer' = [buffer EXCEPT ![o] = NULL]
    /\ Answer("OK")
    /\ UNCHANGED client

\* Mutant: the object keeps the pointer it gives away.
AfterRelease_Kept(o) == buffer[o]

AfterRelease(o) == NULL

Release(o) ==
    /\ o \in live
    /\ IF locked[o]
       THEN UNCHANGED <<buffer, client>>
       ELSE /\ client' = client \cup ({buffer[o]} \ {NULL})
            /\ buffer' = [buffer EXCEPT ![o] = AfterRelease(o)]
    /\ Answer("OK")
    /\ UNCHANGED <<heap, live, locked>>

\* acquire(n): an unlocked object frees its own buffer and takes the blob's.
Acquire(o, n) ==
    /\ o \in live
    /\ n \in client \cup {NULL}
    /\ IF locked[o]
       THEN UNCHANGED <<heap, buffer, client>>
       ELSE /\ heap' = Freed(o, FALSE)
            /\ buffer' = [buffer EXCEPT ![o] = n]
            /\ client' = client \ {n}
    /\ Answer("OK")
    /\ UNCHANGED <<live, locked>>

GetAndLock(o) ==
    /\ o \in live
    /\ locked' = [locked EXCEPT ![o] = TRUE]
    /\ Answer("OK")
    /\ UNCHANGED <<heap, live, buffer, client>>

Unlock(o, n) ==
    /\ o \in live
    /\ \/ ~locked[o] /\ Answer("INVALID_OPERATION") /\ UNCHANGED locked
       \/ locked[o] /\ n # buffer[o] /\ Answer("BAD_VALUE") /\ UNCHANGED locked
       \/ /\ locked[o] /\ n = buffer[o]
          /\ locked' = [locked EXCEPT ![o] = FALSE]
          /\ Answer("OK")
    /\ UNCHANGED <<heap, live, buffer, client>>

\* find() answers with an empty entry on a locked or empty object.
Find(o, t) ==
    /\ o \in live
    /\ Answer(IF ~locked[o] /\ buffer[o] # NULL /\ t \in DOMAIN heap[buffer[o]].entries
              THEN "FOUND" ELSE "EMPTY_ENTRY")
    /\ UNCHANGED <<heap, live, buffer, locked, client>>

\* A blob makes a buffer of its own, or frees one.
ClientAllocates(entryCap, dataCap) ==
    /\ \E n \in FreeAddresses :
          /\ heap' = [heap EXCEPT ![n] = allocate_camera_metadata(entryCap, dataCap)]
          /\ client' = client \cup {n}
    /\ Answer("OK")
    /\ UNCHANGED <<live, buffer, locked>>

ClientFrees(n) ==
    /\ n \in client
    /\ heap' = [heap EXCEPT ![n] = Free]
    /\ client' = client \ {n}
    /\ Answer("OK")
    /\ UNCHANGED <<live, buffer, locked>>

MetadataNext ==
    \/ \E o \in Objects :
          \/ \E t \in Tags \cup {UnknownTag}, src \in Sources : UpdateRefused(o, t, src)
          \/ \E t \in Tags, size \in Sizes, src \in Sources : Update(o, t, size, src)
          \/ Ctor(o) \/ Clear(o) \/ Dtor(o) \/ Release(o) \/ GetAndLock(o)
          \/ \E n \in Addresses \cup {NULL} : Acquire(o, n)
          \/ \E n \in Addresses \cup {NULL} : Unlock(o, n)
          \/ \E t \in Tags : Find(o, t)
    \/ \E e \in ClientCaps, d \in ClientCaps : ClientAllocates(e, d)
    \/ \E n \in Addresses : ClientFrees(n)

MetadataSpec == MetadataInit /\ [][MetadataNext]_metadataVars

-----------------------------------------------------------------------------
MetadataTypeOK ==
    /\ heap \in [Addresses -> Buffers \cup {Free}]
    /\ live \subseteq Objects
    /\ buffer \in [Objects -> Addresses \cup {NULL}]
    /\ locked \in [Objects -> BOOLEAN]
    /\ client \subseteq Addresses
    /\ result \in {"OK", "ERROR", "NO_MEMORY", "INVALID_OPERATION", "BAD_VALUE", "FOUND", "EMPTY_ENTRY"}

\* Who would free address n.
Owners(n) == {o \in live : buffer[o] = n}

\* Every buffer has exactly one owner, through any sequence of release(),
\* acquire(), resizes and failures: none leaks, none is freed twice, and no
\* object or blob holds a freed one.
OneOwner ==
    \A n \in Addresses :
        Cardinality(Owners(n)) + (IF n \in client THEN 1 ELSE 0) =
            IF heap[n] = Free THEN 0 ELSE 1

\* While a blob uses the pointer of getAndLock(), no method but the destructor
\* changes, replaces or frees the buffer it points to.
LockedIsFrozen ==
    [][\A o \in live \cap live' : locked[o] /\ buffer[o] # NULL =>
          buffer'[o] = buffer[o] /\ heap'[buffer[o]] = heap[buffer[o]]]_metadataVars

\* resizeIfNeeded makes enough room: the library never refuses the entry of
\* update(), and copying to the replacement never fails.
UpdateFits == result # "ERROR"

\* update() changes the entry of its tag only, whether it succeeds, grows the
\* buffer or runs out of memory; when it fails the old value stays, too.
UpdateKeepsOthers ==
    [][\A o \in Objects, t \in Tags, size \in Sizes, src \in Sources : Update(o, t, size, src) =>
          LET before == IF buffer[o] = NULL THEN NoEntries ELSE heap[buffer[o]].entries
              after == IF buffer'[o] = NULL THEN NoEntries ELSE heap'[buffer'[o]].entries
              kept == DOMAIN before \ (IF result' = "OK" THEN {t} ELSE {})
          IN  /\ \A u \in kept : u \in DOMAIN after /\ after[u] = before[u]
              /\ result' = "OK" => after[t] = size
              /\ DOMAIN after \subseteq DOMAIN before \cup {t}]_metadataVars
=============================================================================
