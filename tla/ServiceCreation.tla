-------------------------- MODULE ServiceCreation --------------------------
(***************************************************************************)
(* From NewService to Service.Close for services that share a driver: the  *)
(* reserved key names, the key store, the onion services Tor serves, the   *)
(* registered services and the descriptor events that reach them.  A       *)
(* creator is one call of NewService and the service it returns; the key   *)
(* Tor generates for it is named after it, and so is its service ID.       *)
(***************************************************************************)
EXTENDS Naturals, FiniteSets

CONSTANTS
    Creators, Names,
    None,           \* no name, no creator, no key
    Outside,        \* a key that another process stores
    Foreign,        \* IDs of services of others, whose descriptors Tor fetches
    CacheLimit      \* 256 in handleDescriptorEvent

ASSUME CreationAssumption ==
    /\ None \notin Creators \cup Names
    /\ Outside \notin Creators \cup Foreign \cup {None}
    /\ Creators \cap Foreign = {}
    /\ CacheLimit \in Nat

VARIABLES
    closed, done,   \* Driver.closed; Driver.Close has dropped its maps
    holder,         \* Driver.keyNames, with the creator that holds the name
    services,       \* Driver.services
    descriptors,    \* Driver.descriptors
    store,          \* the OnionKeyStore
    tor,            \* creators whose onion service Tor serves
    announced,      \* IDs Tor has served: their events may still arrive
    pc, name, key,  \* of every creator: position, KeyName, Service.key
    scope,          \* its Service.scope is open
    cached,         \* what NewService read from descriptors
    publication,    \* Service.publication
    loop,           \* the event loop: the service and event it delivers
    confirmed       \* history: services an upload was seen for since their last new mapping

vars == <<closed, done, holder, services, descriptors, store, tor, announced, pc, name, key, scope, cached,
          publication, loop, confirmed>>
driver == <<closed, done>>
outside == <<store, tor, announced>>
events == <<descriptors, cached, publication, loop, confirmed>>

Keys == Creators \cup {Outside}
IDs == Keys \cup Foreign
States == {"pending", "published", "failed"}
Idle == [to |-> None, state |-> "pending"]

Init ==
    /\ closed = FALSE /\ done = FALSE
    /\ holder = [n \in Names |-> None]
    /\ services = {}
    /\ descriptors = [i \in IDs |-> "none"]
    /\ store = [n \in Names |-> None]
    /\ tor = {} /\ announced = {}
    /\ pc = [c \in Creators |-> "idle"]
    /\ name = [c \in Creators |-> None]
    /\ key = [c \in Creators |-> None]
    /\ scope = [c \in Creators |-> TRUE]
    /\ cached = [c \in Creators |-> "none"]
    /\ publication = [c \in Creators |-> "pending"]
    /\ loop = Idle
    /\ confirmed = {}

Goto(c, label) == pc' = [pc EXCEPT ![c] = label]

\* holder after a name is deleted; the empty name is not in the map.
Free(n) == [m \in Names |-> IF m = n THEN None ELSE holder[m]]

-----------------------------------------------------------------------------
(* NewService                                                                *)

\* Under Driver.mu: a closed driver or a name in use refuses.
Taken(n) == n # None /\ holder[n] # None

Reserve(c, n) ==
    /\ pc[c] = "idle"
    /\ ~closed
    /\ ~Taken(n)
    /\ name' = [name EXCEPT ![c] = n]
    /\ holder' = [m \in Names |-> IF m = n THEN c ELSE holder[m]]
    /\ Goto(c, IF n = None THEN "bind" ELSE "load")
    /\ UNCHANGED <<driver, services, outside, key, scope, events>>

Refuse(c, n) ==
    /\ pc[c] = "idle"
    /\ closed \/ Taken(n)
    /\ scope' = [scope EXCEPT ![c] = FALSE]
    /\ Goto(c, "failed")
    /\ UNCHANGED <<driver, holder, services, outside, name, key, events>>

\* OnionKeys.Load finds the key or reports fs.ErrNotExist ...
Load(c) ==
    /\ pc[c] = "load"
    /\ key' = [key EXCEPT ![c] = store[name[c]]]
    /\ Goto(c, "bind")
    /\ UNCHANGED <<driver, holder, services, outside, name, scope, events>>

\* ... newBacking listens and gives the listener to the scope ...
Bind(c) ==
    /\ pc[c] = "bind"
    /\ scope[c]
    /\ Goto(c, "add")
    /\ UNCHANGED <<driver, holder, services, outside, name, key, scope, events>>

\* ... and either fails, or the stored key is invalid.
SetupFails(c) ==
    /\ pc[c] \in {"load", "bind"}
    /\ Goto(c, "fail")
    /\ UNCHANGED <<driver, holder, services, outside, name, key, scope, events>>

\* The key of a new service: the loaded one, or the one Tor generates.
KeyOf(c) == IF key[c] = None THEN c ELSE key[c]
Serves(c) == tor' = tor \cup {c} /\ announced' = announced \cup {KeyOf(c)}

\* ADD_ONION.  Tor refuses a key it serves already.  A generated key with a
\* name has to be stored.  The driver may have begun to close since the command
\* was sent; a Tor that has ended answers no more.
AddAccepted(c) ==
    /\ pc[c] = "add"
    /\ ~done
    /\ \A other \in tor : key[other] # KeyOf(c)
    /\ Serves(c)
    /\ key' = [key EXCEPT ![c] = KeyOf(c)]
    /\ Goto(c, IF key[c] = None /\ name[c] # None THEN "store" ELSE "own")
    /\ UNCHANGED <<driver, holder, services, store, name, scope, events>>

AddRejected(c) ==
    /\ pc[c] = "add"
    /\ ~done
    /\ Goto(c, "fail")
    /\ UNCHANGED <<driver, holder, services, outside, name, key, scope, events>>

\* Without a reply, or with an invalid one, Tor may or may not have executed
\* the command: NewService closes the driver, and goes on when that is done.
CloseOnDoubtNever == FALSE
CloseOnDoubt == TRUE

AddLost(c) ==
    /\ pc[c] = "add"
    /\ \/ UNCHANGED <<tor, announced>>
       \/ ~done /\ Serves(c)
    /\ closed' = (closed \/ CloseOnDoubt)
    /\ Goto(c, IF CloseOnDoubt THEN "doomed" ELSE "fail")
    /\ UNCHANGED <<done, holder, services, store, name, key, scope, events>>

\* OnionKeys.Store creates the name if it is absent.
Store(c) ==
    /\ pc[c] = "store"
    /\ store[name[c]] = None
    /\ store' = [store EXCEPT ![name[c]] = key[c]]
    /\ Goto(c, "own")
    /\ UNCHANGED <<driver, holder, services, tor, announced, name, key, scope, events>>

\* It fails, for a name that exists by now or for its own reasons (and can then
\* have stored the key): DEL_ONION takes the service back.
AfterStoreFailureContinues == "own"
AfterStoreFailure == "undo"

StoreFails(c) ==
    /\ pc[c] = "store"
    /\ \/ UNCHANGED store
       \/ store[name[c]] = None /\ store' = [store EXCEPT ![name[c]] = key[c]]
    /\ Goto(c, AfterStoreFailure)
    /\ UNCHANGED <<driver, holder, services, tor, announced, name, key, scope, events>>

\* The same command ends a returned service (Service.close).  A failure closes
\* the driver.  (Service.close holds Service.mu meanwhile: see Service.)
Deleted(c) ==
    /\ pc[c] \in {"undo", "withdraw"}
    /\ ~done
    /\ tor' = tor \ {c}
    /\ Goto(c, IF pc[c] = "undo" THEN "fail" ELSE "release")
    /\ UNCHANGED <<driver, holder, services, store, announced, name, key, scope, events>>

DeleteFails(c) ==
    /\ pc[c] \in {"undo", "withdraw"}
    /\ \/ UNCHANGED tor
       \/ ~done /\ tor' = tor \ {c}
    /\ closed' = TRUE
    /\ Goto(c, IF pc[c] = "undo" THEN "doomed" ELSE "abandon")
    /\ UNCHANGED <<done, holder, services, store, announced, name, key, scope, events>>

\* scope.add of clearKey.
Own(c) ==
    /\ pc[c] = "own"
    /\ Goto(c, IF scope[c] THEN "register" ELSE "fail")
    /\ UNCHANGED <<driver, holder, services, outside, name, key, scope, events>>

\* Under Driver.mu: the service enters the map and the cached event is read.
Register(c) ==
    /\ pc[c] = "register"
    /\ ~closed
    /\ services' = services \cup {c}
    /\ cached' = [cached EXCEPT ![c] = descriptors[key[c]]]
    /\ confirmed' = IF descriptors[key[c]] = "published" THEN confirmed \cup {c} ELSE confirmed
    /\ Goto(c, IF descriptors[key[c]] = "none" THEN "returned" ELSE "replay")
    /\ UNCHANGED <<driver, holder, outside, name, key, scope, descriptors, publication, loop>>

RegisterRefused(c) ==
    /\ pc[c] = "register"
    /\ closed
    /\ Goto(c, "fail")
    /\ UNCHANGED <<driver, holder, services, outside, name, key, scope, events>>

\* The deferred functions of an error: the registration closes the scope, then
\* the name is free again.
Cleanup(c) ==
    /\ pc[c] = "fail" \/ (pc[c] = "doomed" /\ done)
    /\ scope' = [scope EXCEPT ![c] = FALSE]
    /\ holder' = Free(name[c])
    /\ Goto(c, "failed")
    /\ UNCHANGED <<driver, services, outside, name, key, events>>

-----------------------------------------------------------------------------
(* Service.close and Driver.Close                                            *)

CloseService(c) ==
    /\ pc[c] = "returned"
    /\ Goto(c, IF closed THEN "release" ELSE "withdraw")
    /\ UNCHANGED <<driver, holder, services, outside, name, key, scope, events>>

Release(c) ==
    /\ pc[c] = "release" \/ (pc[c] = "abandon" /\ done)
    /\ scope' = [scope EXCEPT ![c] = FALSE]
    /\ services' = services \ {c}
    /\ descriptors' = [descriptors EXCEPT ![key[c]] = "none"]
    /\ holder' = Free(name[c])
    /\ Goto(c, "closed")
    /\ UNCHANGED <<driver, outside, name, key, cached, publication, loop, confirmed>>

DriverClose ==
    /\ ~closed
    /\ closed' = TRUE
    /\ UNCHANGED <<done, holder, services, outside, pc, name, key, scope, events>>

\* Driver.resources closes the scope of a service ...
Sweep(c) ==
    /\ closed
    /\ pc[c] # "idle"
    /\ scope[c]
    /\ scope' = [scope EXCEPT ![c] = FALSE]
    /\ UNCHANGED <<driver, holder, services, outside, pc, name, key, events>>

\* ... and when Tor has ended the maps are dropped.
DriverDone ==
    /\ closed /\ ~done
    /\ \A c \in Creators : pc[c] # "idle" => ~scope[c]
    /\ done' = TRUE
    /\ tor' = {}
    /\ services' = {}
    /\ holder' = [n \in Names |-> None]
    /\ UNCHANGED <<closed, store, announced, pc, name, key, scope, events>>

\* Another process that uses the same key store, with its own key for its name.
StoreElsewhere(n) ==
    /\ \A m \in Names : store[m] # Outside
    /\ store[n] = None
    /\ store' = [store EXCEPT ![n] = Outside]
    /\ UNCHANGED <<driver, holder, services, tor, announced, pc, name, key, scope, events>>

-----------------------------------------------------------------------------
(* handleDescriptorEvent and handlePublication                               *)

\* A published service ignores other states.
HandledAny(c, st) == st
Handled(c, st) == IF publication[c] = "published" THEN "published" ELSE st

Handle(c, st) == publication' = [publication EXCEPT ![c] = Handled(c, st)]

\* Under Driver.mu: cache the event if there is room (a full cache updates not
\* even the IDs it has), and find the service.  Of strangers' services Tor
\* reports failed fetches, of its own every state.
Room == Cardinality({i \in IDs : descriptors[i] # "none"}) < CacheLimit

Descriptor(id, st) ==
    LET found == {c \in services : key[c] = id} IN
    /\ loop = Idle
    /\ ~done
    /\ id \in announced \/ (id \in Foreign /\ st = "failed")
    /\ descriptors' = IF Room THEN [descriptors EXCEPT ![id] = st] ELSE descriptors
    /\ \/ found = {} /\ UNCHANGED <<loop, confirmed>>
       \/ \E c \in found :
             /\ loop' = [to |-> c, state |-> st]
             /\ confirmed' = IF st = "published" THEN confirmed \cup {c} ELSE confirmed
    /\ UNCHANGED <<driver, holder, services, outside, pc, name, key, scope, cached, publication>>

\* After the unlock, the event loop hands the event to the service ...
Deliver ==
    /\ loop # Idle
    /\ Handle(loop.to, loop.state)
    /\ loop' = Idle
    /\ UNCHANGED <<driver, holder, services, outside, pc, name, key, scope, descriptors, cached, confirmed>>

\* ... and so does NewService, with the event it found in the cache.
Replay(c) ==
    /\ pc[c] = "replay"
    /\ Handle(c, cached[c])
    /\ cached' = [cached EXCEPT ![c] = "none"]
    /\ Goto(c, "returned")
    /\ UNCHANGED <<driver, holder, services, outside, name, key, scope, descriptors, loop, confirmed>>

\* A new port mapping (Service) forgets the cached event and, after the unlock,
\* makes the service pending again: to no effect once it is published.
ResetPublication(c) ==
    /\ pc[c] = "returned"
    /\ descriptors' = [descriptors EXCEPT ![key[c]] = "none"]
    /\ confirmed' = confirmed \ {c}
    /\ Goto(c, "reset")
    /\ UNCHANGED <<driver, holder, services, outside, name, key, scope, cached, publication, loop>>

ResetHandle(c) ==
    /\ pc[c] = "reset"
    /\ Handle(c, "pending")
    /\ Goto(c, "returned")
    /\ UNCHANGED <<driver, holder, services, outside, name, key, scope, descriptors, cached, loop, confirmed>>

Next ==
    \/ \E c \in Creators :
          \/ \E n \in Names \cup {None} : Reserve(c, n) \/ Refuse(c, n)
          \/ Load(c) \/ Bind(c) \/ SetupFails(c)
          \/ AddAccepted(c) \/ AddRejected(c) \/ AddLost(c)
          \/ Store(c) \/ StoreFails(c) \/ Deleted(c) \/ DeleteFails(c)
          \/ Own(c) \/ Register(c) \/ RegisterRefused(c) \/ Replay(c) \/ Cleanup(c)
          \/ ResetPublication(c) \/ ResetHandle(c) \/ CloseService(c) \/ Release(c) \/ Sweep(c)
    \/ DriverClose \/ DriverDone
    \/ \E n \in Names : StoreElsewhere(n)
    \/ \E id \in IDs, st \in States : Descriptor(id, st)
    \/ Deliver

Spec == Init /\ [][Next]_vars

-----------------------------------------------------------------------------
(* Properties                                                                *)

\* While the driver is open, Tor serves exactly what somebody answers for.  An
\* onion service belongs to a creation that still has to succeed or take it back,
\* or to a service that is not closed, and its name stays reserved as long; a
\* service that was created is served; a name is held by nobody who has ended.
OnionsAnswerToHolders ==
    ~closed =>
        /\ \A c \in tor :
              /\ pc[c] \in {"store", "undo", "own", "register", "replay", "returned", "reset", "withdraw"}
              /\ name[c] # None => holder[name[c]] = c
        /\ \A c \in Creators : pc[c] \in {"own", "register", "replay", "returned", "reset"} => c \in tor
        /\ \A n \in Names : holder[n] # None => pc[holder[n]] \notin {"idle", "failed", "closed"}

\* A named service has the key the store holds for its name before it becomes
\* visible, also when another process stores the name between Load and Store: the
\* next service of that name has the same address.  No two registered services
\* have the same ID, so handleDescriptorEvent finds the right one.
NamedKeyIsDurable ==
    /\ \A c \in Creators :
          (name[c] # None /\ pc[c] \in {"own", "register", "replay", "returned", "reset", "withdraw"})
              => store[name[c]] = key[c]
    /\ \A c, other \in services : key[c] = key[other] => c = other

\* An upload that Tor confirms for a mapping, seen in the cache or by the event
\* loop, is not overwritten: not by the older event that NewService replays, nor by
\* the pending state of resetPublication, when both come after the unlock and the
\* event loop has delivered a newer one (service.go:209, 490, 505; driver_events.go:141).
ConfirmationSticks ==
    \A c \in confirmed :
        (pc[c] # "replay" /\ loop.to # c) => publication[c] = "published"

\* WaitPublished returns when the state is published, and is said to wait for an
\* upload "for the current mapping" (service.go:460): when resetPublication is done,
\* a published state rests on an upload seen since.
PublishedIsCurrent ==
    \A c \in Creators :
        (pc[c] = "returned" /\ publication[c] = "published") => c \in confirmed
=============================================================================
