------------------------- MODULE OnionServiceProofs -------------------------
(***************************************************************************)
(* Proofs about the two ends of an onion service's life that ServiceProofs *)
(* leaves out: ServiceCreation.tla, for any number of services and names,  *)
(* and ServiceAccept.tla, for any number of accepting goroutines.  The two *)
(* state machines share no variable; each theorem is about one of them.    *)
(***************************************************************************)
EXTENDS ServiceCreation, ServiceAccept, FiniteSetTheorems, TLAPS

\* Zenon goes first, with time for a slow machine; a leaf that needs SMT says so.
USE ZenonT(20), SMTT(90)

Labels ==
    {"idle", "load", "bind", "add", "store", "undo", "own", "register", "replay", "returned", "reset",
     "withdraw", "release", "abandon", "doomed", "fail", "failed", "closed"}

\* The values of the variables, and what is left when Driver.Close is through.
TypeInv ==
    /\ closed \in BOOLEAN /\ done \in BOOLEAN
    /\ holder \in [Names -> Creators \cup {None}]
    /\ store \in [Names -> Keys \cup {None}]
    /\ services \subseteq Creators /\ tor \subseteq Creators /\ confirmed \subseteq Creators
    /\ pc \in [Creators -> Labels]
    /\ name \in [Creators -> Names \cup {None}]
    /\ \A c \in Creators : pc[c] = "load" => name[c] # None
    /\ \A c \in Creators : pc[c] \in {"store", "own", "register"} => key[c] # None
    /\ \A c \in Creators : pc[c] = "replay" => cached[c] # "none"
    /\ key \in [Creators -> Keys \cup {None}]
    /\ scope \in [Creators -> BOOLEAN]
    /\ cached \in [Creators -> States \cup {"none"}]
    /\ publication \in [Creators -> States]
    /\ descriptors \in [IDs -> States \cup {"none"}]
    /\ loop \in [to : Creators \cup {None}, state : States]
    /\ loop.to = None => loop = Idle
    /\ done => closed /\ services = {} /\ tor = {}

\* A creation or a service that has not ended.
Busy(c) == pc[c] \notin {"idle", "failed", "closed"}

\* A reserved name and the creator that holds it know each other, until
\* Driver.Close drops the map.
HolderInv ==
    /\ \A n \in Names : holder[n] # None => name[holder[n]] = n /\ Busy(holder[n])
    /\ \A c \in Creators : (~done /\ Busy(c) /\ name[c] # None) => holder[name[c]] = c

\* While the driver is open, the position of a creator says whether Tor serves
\* its onion, and only its own end closes its scope.
TorInv ==
    ~closed =>
        /\ \A c \in tor : pc[c] \in {"store", "undo", "own", "register", "replay", "returned", "reset", "withdraw"}
        /\ \A c \in Creators : pc[c] \in {"store", "own", "register", "replay", "returned", "reset"} => c \in tor
        /\ \A c \in Creators : pc[c] \notin {"failed", "closed"} => scope[c]

\* Where the key of a creator comes from: the store, or Tor.  A stored key is
\* never replaced, and no key has two names.
KeyInv ==
    /\ \A c \in Creators : pc[c] \in {"idle", "load"} => key[c] = None
    /\ \A c \in Creators : pc[c] \in {"bind", "add"} =>
           key[c] = None \/ (name[c] # None /\ store[name[c]] = key[c])
    /\ \A c \in Creators : pc[c] = "store" => name[c] # None /\ key[c] = c
    /\ \A c \in Creators :
           pc[c] \in {"own", "register", "replay", "returned", "reset", "withdraw", "release", "abandon"} =>
               key[c] # None /\ IF name[c] = None THEN key[c] = c ELSE store[name[c]] = key[c]
    /\ \A n \in Names : store[n] \in Creators => name[store[n]] = n /\ pc[store[n]] # "idle"
    /\ \A m, n \in Names : store[m] = Outside /\ store[n] = Outside => m = n
    /\ \A c \in services : pc[c] \in {"replay", "returned", "reset", "withdraw", "release", "abandon"}

\* An upload confirmed for a mapping is in the service, or on its way from the
\* cache or from the event loop.
UploadInv ==
    \A c \in confirmed :
        \/ publication[c] = "published"
        \/ pc[c] = "replay" /\ cached[c] = "published"
        \/ loop.to = c /\ loop.state = "published"

IInv == TypeInv /\ HolderInv /\ TorInv /\ KeyInv /\ UploadInv

-----------------------------------------------------------------------------
\* A new driver satisfies the invariant.
LEMMA InitIInv == Init => IInv
<1> SUFFICES ASSUME Init PROVE IInv
    OBVIOUS
<1> USE CreationAssumption DEF Init
<1>1. TypeInv
    BY ZenonT(60) DEF TypeInv, Labels, Keys, IDs, States, Idle
<1>2. HolderInv /\ TorInv /\ KeyInv /\ UploadInv
    BY DEF HolderInv, TorInv, KeyInv, UploadInv, Busy
<1> QED
    BY <1>1, <1>2 DEF IInv

\* Every step keeps the types.
LEMMA TypeKept == TypeInv /\ [Next]_vars => TypeInv'
<1> SUFFICES ASSUME TypeInv, [Next]_vars PROVE TypeInv'
    OBVIOUS
<1> USE CreationAssumption DEF TypeInv, Labels, Goto, driver, outside, events, Keys, IDs, States, Idle
<1>1. ASSUME NEW c \in Creators, NEW n \in Names \cup {None}, Reserve(c, n)
      PROVE  TypeInv'
    BY <1>1, SMTT(90) DEF Reserve
<1>2. ASSUME NEW c \in Creators, NEW n \in Names \cup {None}, Refuse(c, n)
      PROVE  TypeInv'
    BY <1>2, SMTT(90) DEF Refuse
<1>3. ASSUME NEW c \in Creators, Load(c)
      PROVE  TypeInv'
    BY <1>3, SMTT(90) DEF Load
<1>4. ASSUME NEW c \in Creators, Bind(c)
      PROVE  TypeInv'
    BY <1>4, SMTT(90) DEF Bind
<1>5. ASSUME NEW c \in Creators, SetupFails(c)
      PROVE  TypeInv'
    BY <1>5, SMTT(90) DEF SetupFails
<1>6. ASSUME NEW c \in Creators, AddAccepted(c)
      PROVE  TypeInv'
    BY <1>6, SMTT(90) DEF AddAccepted, Serves, KeyOf
<1>7. ASSUME NEW c \in Creators, AddRejected(c)
      PROVE  TypeInv'
    BY <1>7 DEF AddRejected
<1>8. ASSUME NEW c \in Creators, AddLost(c)
      PROVE  TypeInv'
    BY <1>8, SMTT(90) DEF AddLost, Serves, KeyOf, CloseOnDoubt
<1>9. ASSUME NEW c \in Creators, Store(c)
      PROVE  TypeInv'
    BY <1>9, ZenonT(60) DEF Store
<1>10. ASSUME NEW c \in Creators, StoreFails(c)
      PROVE  TypeInv'
    BY <1>10, SMTT(90) DEF StoreFails, AfterStoreFailure
<1>11. ASSUME NEW c \in Creators, Deleted(c)
      PROVE  TypeInv'
    BY <1>11, SMTT(90) DEF Deleted
<1>12. ASSUME NEW c \in Creators, DeleteFails(c)
      PROVE  TypeInv'
    BY <1>12, SMTT(90) DEF DeleteFails
<1>13. ASSUME NEW c \in Creators, Own(c)
      PROVE  TypeInv'
    BY <1>13, SMTT(90) DEF Own
<1>14. ASSUME NEW c \in Creators, Register(c)
      PROVE  TypeInv'
    BY <1>14, SMTT(90) DEF Register
<1>15. ASSUME NEW c \in Creators, RegisterRefused(c)
      PROVE  TypeInv'
    BY <1>15 DEF RegisterRefused
<1>16. ASSUME NEW c \in Creators, Replay(c)
      PROVE  TypeInv'
    BY <1>16, SMTT(90) DEF Replay, Handle, Handled
<1>17. ASSUME NEW c \in Creators, Cleanup(c)
      PROVE  TypeInv'
    BY <1>17, SMTT(90) DEF Cleanup, Free
<1>18. ASSUME NEW c \in Creators, ResetPublication(c)
      PROVE  TypeInv'
    BY <1>18, ZenonT(60) DEF ResetPublication
<1>19. ASSUME NEW c \in Creators, ResetHandle(c)
      PROVE  TypeInv'
    BY <1>19 DEF ResetHandle, Handle, Handled
<1>20. ASSUME NEW c \in Creators, CloseService(c)
      PROVE  TypeInv'
    BY <1>20, SMTT(90) DEF CloseService
<1>21. ASSUME NEW c \in Creators, Release(c)
      PROVE  TypeInv'
    BY <1>21, ZenonT(60) DEF Release, Free
<1>22. ASSUME NEW c \in Creators, Sweep(c)
      PROVE  TypeInv'
    BY <1>22 DEF Sweep
<1>23. ASSUME DriverClose
      PROVE  TypeInv'
    BY <1>23 DEF DriverClose
<1>24. ASSUME DriverDone
      PROVE  TypeInv'
    BY <1>24 DEF DriverDone
<1>25. ASSUME NEW n \in Names, StoreElsewhere(n)
      PROVE  TypeInv'
    BY <1>25 DEF StoreElsewhere
<1>26. ASSUME NEW id \in IDs, NEW st \in States, Descriptor(id, st)
      PROVE  TypeInv'
    BY <1>26, SMTT(90) DEF Descriptor
<1>27. ASSUME Deliver
      PROVE  TypeInv'
    BY <1>27 DEF Deliver, Handle, Handled
<1>28. CASE UNCHANGED vars
    BY <1>28 DEF vars
<1> HIDE DEF TypeInv, Labels, Goto, driver, outside, events, Keys, IDs, States, Idle
<1> QED
    BY <1>1, <1>2, <1>3, <1>4, <1>5, <1>6, <1>7, <1>8, <1>9, <1>10, <1>11, <1>12, <1>13,
       <1>14, <1>15, <1>16, <1>17, <1>18, <1>19, <1>20, <1>21, <1>22, <1>23, <1>24, <1>25,
       <1>26, <1>27, <1>28 DEF Next

\* Reserving, and every way to end, keep the names and their holders in step.
LEMMA HolderKept == TypeInv /\ HolderInv /\ [Next]_vars => HolderInv'
<1> SUFFICES ASSUME TypeInv, HolderInv, [Next]_vars PROVE HolderInv'
    OBVIOUS
<1> USE CreationAssumption DEF TypeInv, HolderInv, Busy, Goto, driver, outside, events, Taken
<1>1. ASSUME NEW c \in Creators, NEW n \in Names \cup {None}, Reserve(c, n)
      PROVE  HolderInv'
    BY <1>1, SMTT(90) DEF Reserve
<1>2. ASSUME NEW c \in Creators, NEW n \in Names \cup {None}, Refuse(c, n)
      PROVE  HolderInv'
    BY <1>2, SMTT(90) DEF Refuse
<1>3. ASSUME NEW c \in Creators, Load(c)
      PROVE  HolderInv'
    BY <1>3, SMTT(90) DEF Load
<1>4. ASSUME NEW c \in Creators, Bind(c)
      PROVE  HolderInv'
    BY <1>4, SMTT(90) DEF Bind
<1>5. ASSUME NEW c \in Creators, SetupFails(c)
      PROVE  HolderInv'
    BY <1>5, SMTT(90) DEF SetupFails
<1>6. ASSUME NEW c \in Creators, AddAccepted(c)
      PROVE  HolderInv'
    BY <1>6, SMTT(90) DEF AddAccepted, Serves, KeyOf
<1>7. ASSUME NEW c \in Creators, AddRejected(c)
      PROVE  HolderInv'
    BY <1>7, SMTT(90) DEF AddRejected
<1>8. ASSUME NEW c \in Creators, AddLost(c)
      PROVE  HolderInv'
    BY <1>8, SMTT(90) DEF AddLost, Serves, KeyOf, CloseOnDoubt
<1>9. ASSUME NEW c \in Creators, Store(c)
      PROVE  HolderInv'
    BY <1>9, SMTT(90) DEF Store
<1>10. ASSUME NEW c \in Creators, StoreFails(c)
      PROVE  HolderInv'
    BY <1>10, SMTT(90) DEF StoreFails, AfterStoreFailure
<1>11. ASSUME NEW c \in Creators, Deleted(c)
      PROVE  HolderInv'
    BY <1>11, SMTT(90) DEF Deleted
<1>12. ASSUME NEW c \in Creators, DeleteFails(c)
      PROVE  HolderInv'
    BY <1>12, SMTT(90) DEF DeleteFails
<1>13. ASSUME NEW c \in Creators, Own(c)
      PROVE  HolderInv'
    BY <1>13, SMTT(90) DEF Own
<1>14. ASSUME NEW c \in Creators, Register(c)
      PROVE  HolderInv'
    BY <1>14, SMTT(90) DEF Register
<1>15. ASSUME NEW c \in Creators, RegisterRefused(c)
      PROVE  HolderInv'
    BY <1>15, SMTT(90) DEF RegisterRefused
<1>16. ASSUME NEW c \in Creators, Replay(c)
      PROVE  HolderInv'
    BY <1>16, SMTT(90) DEF Replay, Handle, Handled
<1>17. ASSUME NEW c \in Creators, Cleanup(c)
      PROVE  HolderInv'
    BY <1>17, SMTT(90) DEF Cleanup, Free
<1>18. ASSUME NEW c \in Creators, ResetPublication(c)
      PROVE  HolderInv'
    BY <1>18, SMTT(90) DEF ResetPublication
<1>19. ASSUME NEW c \in Creators, ResetHandle(c)
      PROVE  HolderInv'
    BY <1>19, SMTT(90) DEF ResetHandle, Handle, Handled
<1>20. ASSUME NEW c \in Creators, CloseService(c)
      PROVE  HolderInv'
    BY <1>20, SMTT(90) DEF CloseService
<1>21. ASSUME NEW c \in Creators, Release(c)
      PROVE  HolderInv'
    BY <1>21, SMTT(90) DEF Release, Free
<1>22. ASSUME NEW c \in Creators, Sweep(c)
      PROVE  HolderInv'
    BY <1>22 DEF Sweep
<1>23. ASSUME DriverClose
      PROVE  HolderInv'
    BY <1>23 DEF DriverClose
<1>24. ASSUME DriverDone
      PROVE  HolderInv'
    BY <1>24 DEF DriverDone
<1>25. ASSUME NEW n \in Names, StoreElsewhere(n)
      PROVE  HolderInv'
    BY <1>25 DEF StoreElsewhere
<1>26. ASSUME NEW id \in IDs, NEW st \in States, Descriptor(id, st)
      PROVE  HolderInv'
    BY <1>26 DEF Descriptor
<1>27. ASSUME Deliver
      PROVE  HolderInv'
    BY <1>27 DEF Deliver, Handle, Handled
<1>28. CASE UNCHANGED vars
    BY <1>28 DEF vars
<1> HIDE DEF TypeInv, HolderInv, Busy, Goto, driver, outside, events, Taken
<1> QED
    BY <1>1, <1>2, <1>3, <1>4, <1>5, <1>6, <1>7, <1>8, <1>9, <1>10, <1>11, <1>12, <1>13,
       <1>14, <1>15, <1>16, <1>17, <1>18, <1>19, <1>20, <1>21, <1>22, <1>23, <1>24, <1>25,
       <1>26, <1>27, <1>28 DEF Next

\* Whoever gives up an onion service while the driver is open has withdrawn it.
LEMMA TorKept == TypeInv /\ TorInv /\ [Next]_vars => TorInv'
<1> SUFFICES ASSUME TypeInv, TorInv, [Next]_vars PROVE TorInv'
    OBVIOUS
<1> USE CreationAssumption DEF TypeInv, TorInv, Goto, driver, outside, events
<1>1. ASSUME NEW c \in Creators, NEW n \in Names \cup {None}, Reserve(c, n)
      PROVE  TorInv'
    BY <1>1, SMTT(90) DEF Reserve
<1>2. ASSUME NEW c \in Creators, NEW n \in Names \cup {None}, Refuse(c, n)
      PROVE  TorInv'
    BY <1>2, SMTT(90) DEF Refuse
<1>3. ASSUME NEW c \in Creators, Load(c)
      PROVE  TorInv'
    BY <1>3, SMTT(90) DEF Load
<1>4. ASSUME NEW c \in Creators, Bind(c)
      PROVE  TorInv'
    BY <1>4, SMTT(90) DEF Bind
<1>5. ASSUME NEW c \in Creators, SetupFails(c)
      PROVE  TorInv'
    BY <1>5, SMTT(90) DEF SetupFails
<1>6. ASSUME NEW c \in Creators, AddAccepted(c)
      PROVE  TorInv'
    BY <1>6, SMTT(90) DEF AddAccepted, Serves, KeyOf
<1>7. ASSUME NEW c \in Creators, AddRejected(c)
      PROVE  TorInv'
    BY <1>7, SMTT(90) DEF AddRejected
<1>8. ASSUME NEW c \in Creators, AddLost(c)
      PROVE  TorInv'
    BY <1>8 DEF AddLost, Serves, KeyOf, CloseOnDoubt
<1>9. ASSUME NEW c \in Creators, Store(c)
      PROVE  TorInv'
    BY <1>9, SMTT(90) DEF Store
<1>10. ASSUME NEW c \in Creators, StoreFails(c)
      PROVE  TorInv'
    BY <1>10, SMTT(90) DEF StoreFails, AfterStoreFailure
<1>11. ASSUME NEW c \in Creators, Deleted(c)
      PROVE  TorInv'
    BY <1>11, SMTT(90) DEF Deleted
<1>12. ASSUME NEW c \in Creators, DeleteFails(c)
      PROVE  TorInv'
    BY <1>12 DEF DeleteFails
<1>13. ASSUME NEW c \in Creators, Own(c)
      PROVE  TorInv'
    BY <1>13, SMTT(90) DEF Own
<1>14. ASSUME NEW c \in Creators, Register(c)
      PROVE  TorInv'
    BY <1>14, SMTT(90) DEF Register
<1>15. ASSUME NEW c \in Creators, RegisterRefused(c)
      PROVE  TorInv'
    BY <1>15 DEF RegisterRefused
<1>16. ASSUME NEW c \in Creators, Replay(c)
      PROVE  TorInv'
    BY <1>16, SMTT(90) DEF Replay, Handle, Handled
<1>17. ASSUME NEW c \in Creators, Cleanup(c)
      PROVE  TorInv'
    BY <1>17, SMTT(90) DEF Cleanup, Free
<1>18. ASSUME NEW c \in Creators, ResetPublication(c)
      PROVE  TorInv'
    BY <1>18, SMTT(90) DEF ResetPublication
<1>19. ASSUME NEW c \in Creators, ResetHandle(c)
      PROVE  TorInv'
    BY <1>19, SMTT(90) DEF ResetHandle, Handle, Handled
<1>20. ASSUME NEW c \in Creators, CloseService(c)
      PROVE  TorInv'
    BY <1>20, SMTT(90) DEF CloseService
<1>21. ASSUME NEW c \in Creators, Release(c)
      PROVE  TorInv'
    BY <1>21, SMTT(90) DEF Release, Free
<1>22. ASSUME NEW c \in Creators, Sweep(c)
      PROVE  TorInv'
    BY <1>22 DEF Sweep
<1>23. ASSUME DriverClose
      PROVE  TorInv'
    BY <1>23 DEF DriverClose
<1>24. ASSUME DriverDone
      PROVE  TorInv'
    BY <1>24 DEF DriverDone
<1>25. ASSUME NEW n \in Names, StoreElsewhere(n)
      PROVE  TorInv'
    BY <1>25 DEF StoreElsewhere
<1>26. ASSUME NEW id \in IDs, NEW st \in States, Descriptor(id, st)
      PROVE  TorInv'
    BY <1>26 DEF Descriptor
<1>27. ASSUME Deliver
      PROVE  TorInv'
    BY <1>27 DEF Deliver, Handle, Handled
<1>28. CASE UNCHANGED vars
    BY <1>28 DEF vars
<1> HIDE DEF TypeInv, TorInv, Goto, driver, outside, events
<1> QED
    BY <1>1, <1>2, <1>3, <1>4, <1>5, <1>6, <1>7, <1>8, <1>9, <1>10, <1>11, <1>12, <1>13,
       <1>14, <1>15, <1>16, <1>17, <1>18, <1>19, <1>20, <1>21, <1>22, <1>23, <1>24, <1>25,
       <1>26, <1>27, <1>28 DEF Next

\* Keys come from the store or from Tor, and the store keeps what it has.
LEMMA KeyKept == TypeInv /\ KeyInv /\ [Next]_vars => KeyInv'
<1> SUFFICES ASSUME TypeInv, KeyInv, [Next]_vars PROVE KeyInv'
    OBVIOUS
<1> USE CreationAssumption DEF TypeInv, KeyInv, Goto, driver, outside, events, Keys
<1>1. ASSUME NEW c \in Creators, NEW n \in Names \cup {None}, Reserve(c, n)
      PROVE  KeyInv'
    BY <1>1, SMTT(90) DEF Reserve
<1>2. ASSUME NEW c \in Creators, NEW n \in Names \cup {None}, Refuse(c, n)
      PROVE  KeyInv'
    BY <1>2, SMTT(90) DEF Refuse
<1>3. ASSUME NEW c \in Creators, Load(c)
      PROVE  KeyInv'
    BY <1>3, SMTT(90) DEF Load
<1>4. ASSUME NEW c \in Creators, Bind(c)
      PROVE  KeyInv'
    BY <1>4, SMTT(90) DEF Bind
<1>5. ASSUME NEW c \in Creators, SetupFails(c)
      PROVE  KeyInv'
    BY <1>5, SMTT(90) DEF SetupFails
<1>6. ASSUME NEW c \in Creators, AddAccepted(c)
      PROVE  KeyInv'
    BY <1>6, SMTT(90) DEF AddAccepted, Serves, KeyOf
<1>7. ASSUME NEW c \in Creators, AddRejected(c)
      PROVE  KeyInv'
    BY <1>7, SMTT(90) DEF AddRejected
<1>8. ASSUME NEW c \in Creators, AddLost(c)
      PROVE  KeyInv'
    BY <1>8, SMTT(90) DEF AddLost, Serves, KeyOf, CloseOnDoubt
<1>9. ASSUME NEW c \in Creators, Store(c)
      PROVE  KeyInv'
    BY <1>9, SMTT(90) DEF Store
<1>10. ASSUME NEW c \in Creators, StoreFails(c)
      PROVE  KeyInv'
    BY <1>10, SMTT(90) DEF StoreFails, AfterStoreFailure
<1>11. ASSUME NEW c \in Creators, Deleted(c)
      PROVE  KeyInv'
    BY <1>11, SMTT(90) DEF Deleted
<1>12. ASSUME NEW c \in Creators, DeleteFails(c)
      PROVE  KeyInv'
    BY <1>12, SMTT(90) DEF DeleteFails
<1>13. ASSUME NEW c \in Creators, Own(c)
      PROVE  KeyInv'
    BY <1>13, SMTT(90) DEF Own
<1>14. ASSUME NEW c \in Creators, Register(c)
      PROVE  KeyInv'
    BY <1>14, SMTT(90) DEF Register
<1>15. ASSUME NEW c \in Creators, RegisterRefused(c)
      PROVE  KeyInv'
    BY <1>15, SMTT(90) DEF RegisterRefused
<1>16. ASSUME NEW c \in Creators, Replay(c)
      PROVE  KeyInv'
    BY <1>16, SMTT(90) DEF Replay, Handle, Handled
<1>17. ASSUME NEW c \in Creators, Cleanup(c)
      PROVE  KeyInv'
    BY <1>17, SMTT(90) DEF Cleanup, Free
<1>18. ASSUME NEW c \in Creators, ResetPublication(c)
      PROVE  KeyInv'
    BY <1>18, SMTT(90) DEF ResetPublication
<1>19. ASSUME NEW c \in Creators, ResetHandle(c)
      PROVE  KeyInv'
    BY <1>19, SMTT(90) DEF ResetHandle, Handle, Handled
<1>20. ASSUME NEW c \in Creators, CloseService(c)
      PROVE  KeyInv'
    BY <1>20, SMTT(90) DEF CloseService
<1>21. ASSUME NEW c \in Creators, Release(c)
      PROVE  KeyInv'
    BY <1>21, SMTT(90) DEF Release, Free
<1>22. ASSUME NEW c \in Creators, Sweep(c)
      PROVE  KeyInv'
    BY <1>22 DEF Sweep
<1>23. ASSUME DriverClose
      PROVE  KeyInv'
    BY <1>23 DEF DriverClose
<1>24. ASSUME DriverDone
      PROVE  KeyInv'
    BY <1>24 DEF DriverDone
<1>25. ASSUME NEW n \in Names, StoreElsewhere(n)
      PROVE  KeyInv'
    BY <1>25, SMTT(90) DEF StoreElsewhere
<1>26. ASSUME NEW id \in IDs, NEW st \in States, Descriptor(id, st)
      PROVE  KeyInv'
    BY <1>26 DEF Descriptor
<1>27. ASSUME Deliver
      PROVE  KeyInv'
    BY <1>27 DEF Deliver, Handle, Handled
<1>28. CASE UNCHANGED vars
    BY <1>28 DEF vars
<1> HIDE DEF TypeInv, KeyInv, Goto, driver, outside, events, Keys
<1> QED
    BY <1>1, <1>2, <1>3, <1>4, <1>5, <1>6, <1>7, <1>8, <1>9, <1>10, <1>11, <1>12, <1>13,
       <1>14, <1>15, <1>16, <1>17, <1>18, <1>19, <1>20, <1>21, <1>22, <1>23, <1>24, <1>25,
       <1>26, <1>27, <1>28 DEF Next

\* The handlers of publication events never replace a confirmed upload.
LEMMA UploadKept == TypeInv /\ UploadInv /\ [Next]_vars => UploadInv'
<1> SUFFICES ASSUME TypeInv, UploadInv, [Next]_vars PROVE UploadInv'
    OBVIOUS
<1> USE CreationAssumption DEF TypeInv, UploadInv, Goto, driver, outside, events, States, Idle
<1>1. ASSUME NEW c \in Creators, NEW n \in Names \cup {None}, Reserve(c, n)
      PROVE  UploadInv'
    BY <1>1 DEF Reserve
<1>2. ASSUME NEW c \in Creators, NEW n \in Names \cup {None}, Refuse(c, n)
      PROVE  UploadInv'
    BY <1>2 DEF Refuse
<1>3. ASSUME NEW c \in Creators, Load(c)
      PROVE  UploadInv'
    BY <1>3 DEF Load
<1>4. ASSUME NEW c \in Creators, Bind(c)
      PROVE  UploadInv'
    BY <1>4 DEF Bind
<1>5. ASSUME NEW c \in Creators, SetupFails(c)
      PROVE  UploadInv'
    BY <1>5 DEF SetupFails
<1>6. ASSUME NEW c \in Creators, AddAccepted(c)
      PROVE  UploadInv'
    BY <1>6 DEF AddAccepted, Serves, KeyOf
<1>7. ASSUME NEW c \in Creators, AddRejected(c)
      PROVE  UploadInv'
    BY <1>7 DEF AddRejected
<1>8. ASSUME NEW c \in Creators, AddLost(c)
      PROVE  UploadInv'
    BY <1>8 DEF AddLost, Serves, KeyOf, CloseOnDoubt
<1>9. ASSUME NEW c \in Creators, Store(c)
      PROVE  UploadInv'
    BY <1>9 DEF Store
<1>10. ASSUME NEW c \in Creators, StoreFails(c)
      PROVE  UploadInv'
    BY <1>10 DEF StoreFails, AfterStoreFailure
<1>11. ASSUME NEW c \in Creators, Deleted(c)
      PROVE  UploadInv'
    BY <1>11 DEF Deleted
<1>12. ASSUME NEW c \in Creators, DeleteFails(c)
      PROVE  UploadInv'
    BY <1>12 DEF DeleteFails
<1>13. ASSUME NEW c \in Creators, Own(c)
      PROVE  UploadInv'
    BY <1>13 DEF Own
<1>14. ASSUME NEW c \in Creators, Register(c)
      PROVE  UploadInv'
    BY <1>14, SMTT(90) DEF Register
<1>15. ASSUME NEW c \in Creators, RegisterRefused(c)
      PROVE  UploadInv'
    BY <1>15 DEF RegisterRefused
<1>16. ASSUME NEW c \in Creators, Replay(c)
      PROVE  UploadInv'
    BY <1>16 DEF Replay, Handle, Handled
<1>17. ASSUME NEW c \in Creators, Cleanup(c)
      PROVE  UploadInv'
    BY <1>17 DEF Cleanup, Free
<1>18. ASSUME NEW c \in Creators, ResetPublication(c)
      PROVE  UploadInv'
    BY <1>18 DEF ResetPublication
<1>19. ASSUME NEW c \in Creators, ResetHandle(c)
      PROVE  UploadInv'
    BY <1>19 DEF ResetHandle, Handle, Handled
<1>20. ASSUME NEW c \in Creators, CloseService(c)
      PROVE  UploadInv'
    BY <1>20 DEF CloseService
<1>21. ASSUME NEW c \in Creators, Release(c)
      PROVE  UploadInv'
    BY <1>21 DEF Release, Free
<1>22. ASSUME NEW c \in Creators, Sweep(c)
      PROVE  UploadInv'
    BY <1>22 DEF Sweep
<1>23. ASSUME DriverClose
      PROVE  UploadInv'
    BY <1>23 DEF DriverClose
<1>24. ASSUME DriverDone
      PROVE  UploadInv'
    BY <1>24 DEF DriverDone
<1>25. ASSUME NEW n \in Names, StoreElsewhere(n)
      PROVE  UploadInv'
    BY <1>25 DEF StoreElsewhere
<1>26. ASSUME NEW id \in IDs, NEW st \in States, Descriptor(id, st)
      PROVE  UploadInv'
    BY <1>26, SMTT(90) DEF Descriptor
<1>27. ASSUME Deliver
      PROVE  UploadInv'
    BY <1>27 DEF Deliver, Handle, Handled
<1>28. CASE UNCHANGED vars
    BY <1>28 DEF vars
<1> HIDE DEF TypeInv, UploadInv, Goto, driver, outside, events, States, Idle
<1> QED
    BY <1>1, <1>2, <1>3, <1>4, <1>5, <1>6, <1>7, <1>8, <1>9, <1>10, <1>11, <1>12, <1>13,
       <1>14, <1>15, <1>16, <1>17, <1>18, <1>19, <1>20, <1>21, <1>22, <1>23, <1>24, <1>25,
       <1>26, <1>27, <1>28 DEF Next
-----------------------------------------------------------------------------
\* Every step keeps the invariant.
LEMMA StepKeeps == IInv /\ [Next]_vars => IInv'
    BY TypeKept, HolderKept, TorKept, KeyKept, UploadKept DEF IInv

\* The inductive invariant holds.
LEMMA Invariance == Spec => []IInv
    BY InitIInv, StepKeeps, PTL DEF Spec

\* While the driver is open Tor serves an onion service exactly as long as a
\* creation or a service answers for it, whatever the key store, Tor and
\* concurrent calls of NewService and Close do (service.go:120, 178, 189, 574).
THEOREM HoldersAnswer == Spec => []OnionsAnswerToHolders
<1>1. IInv => OnionsAnswerToHolders
  <2> SUFFICES ASSUME IInv, ~closed PROVE OnionsAnswerToHolders
      BY DEF OnionsAnswerToHolders
  <2> USE CreationAssumption DEF IInv, TypeInv
  <2>1. ~done
      OBVIOUS
  <2>2. \A c \in tor : name[c] # None => holder[name[c]] = c
      BY <2>1 DEF HolderInv, TorInv, Busy
  <2> QED
      BY <2>2 DEF OnionsAnswerToHolders, HolderInv, TorInv, Busy
<1> QED
    BY <1>1, Invariance, PTL

\* A named service is visible only with the key the store holds for its name,
\* and no two registered services have the same ID (service.go:155, 189, 205).
THEOREM KeysAreDurable == Spec => []NamedKeyIsDurable
<1>1. IInv => NamedKeyIsDurable
  <2> SUFFICES ASSUME IInv PROVE NamedKeyIsDurable
      OBVIOUS
  <2> USE CreationAssumption DEF IInv, TypeInv
  <2>1. ASSUME NEW c \in services, NEW d \in services, key[c] = key[d]
        PROVE  c = d
    <3>1. CASE name[c] = None /\ name[d] = None
        BY <2>1, <3>1, SMTT(90) DEF KeyInv
    <3>2. CASE name[c] # None /\ name[d] # None
      <4>1. name[c] = name[d]
          BY <2>1, <3>2, SMTT(90) DEF KeyInv, Keys
      <4> QED
          BY <2>1, <3>2, <4>1, SMTT(90) DEF KeyInv, HolderInv, Busy
    <3>3. CASE name[c] = None /\ name[d] # None
        BY <2>1, <3>3, SMTT(90) DEF KeyInv
    <3>4. CASE name[c] # None /\ name[d] = None
        BY <2>1, <3>4, SMTT(90) DEF KeyInv
    <3> QED
        BY <3>1, <3>2, <3>3, <3>4
  <2> QED
      BY <2>1 DEF NamedKeyIsDurable, KeyInv
<1> QED
    BY <1>1, Invariance, PTL

\* An upload that Tor confirmed for a mapping is never overwritten by an older
\* event (service.go:209, 490, 505; driver_events.go:141).
THEOREM ConfirmationIsKept == Spec => []ConfirmationSticks
<1>1. IInv => ConfirmationSticks
    BY DEF IInv, UploadInv, ConfirmationSticks
<1> QED
    BY <1>1, Invariance, PTL

-----------------------------------------------------------------------------
(* ServiceAccept.                                                           *)

\* The goroutines inside the backing Accept.
Inside == {a \in Acceptors : at[a] \in {"accept", "leave"}}

\* The values of the variables; accepted is what is kept and not yet closed.
AcceptType ==
    /\ listener \in BOOLEAN /\ stopping \in BOOLEAN /\ woken \in BOOLEAN
    /\ accepted = {a \in Acceptors : conn[a] \notin {"none", "raw", "closed"}}
    /\ connScope \in {"open", "closing", "done"}
    /\ at \in [Acceptors -> {"idle", "accept", "leave", "track", "register"}]
    /\ conn \in [Acceptors -> Status]
    /\ closer \in {"idle", "listeners", "wait", "sleep", "scope", "done"}
    /\ drain \in BOOLEAN /\ drained \in BOOLEAN

\* Service.accepting counts them.
CountInv == IsFiniteSet(Inside) /\ accepting = Cardinality(Inside)

\* Where an acceptor holds a connection that no list knows yet.
PlaceInv ==
    \A a \in Acceptors :
        /\ at[a] = "accept" => conn[a] = "none"
        /\ at[a] = "leave" => conn[a] \in {"none", "raw"}
        /\ at[a] = "track" => conn[a] = "raw"
        /\ at[a] = "register" => conn[a] = "kept"
        /\ conn[a] = "raw" => at[a] \in {"leave", "track"}
        /\ conn[a] = "kept" => at[a] = "register"

\* The scope owns open connections until it has swept them.
ScopeInv ==
    /\ connScope # "open" => \A a \in Acceptors : conn[a] # "live"
    /\ connScope = "done" => \A a \in Acceptors : conn[a] # "doomed"
    /\ closer = "done" => connScope = "done"

\* A wait that ended by itself found nothing, and nothing is kept any more.
DrainInv ==
    /\ closer # "idle" => stopping
    /\ drained => stopping /\ accepted = {}

AcceptInv == AcceptType /\ CountInv /\ PlaceInv /\ ScopeInv /\ DrainInv

\* Only entering and leaving the backing Accept change the count, each by the
\* goroutine that does (service.go:635-677).
LEMMA AcceptingCounted ==
    ASSUME AcceptType, CountInv, AcceptNext
    PROVE  CountInv'
<1> DEFINE Same == Inside' = Inside /\ accepting' = accepting
<1>1. ASSUME Same PROVE CountInv'
  BY <1>1 DEF CountInv
<1>2. ASSUME NEW a \in Acceptors, AcceptEnter(a) PROVE CountInv'
  <2>1. a \notin Inside
    BY <1>2 DEF AcceptEnter, Inside
  <2>2. Inside' = Inside \cup {a}
    BY <1>2 DEF AcceptEnter, AcceptGoto, Inside, AcceptType
  <2>3. accepting' = accepting + 1
    BY <1>2 DEF AcceptEnter
  <2> QED
    BY <2>1, <2>2, <2>3, FS_AddElement DEF CountInv
<1>3. ASSUME NEW a \in Acceptors, AcceptLeave(a) PROVE CountInv'
  <2>1. a \in Inside
    BY <1>3 DEF AcceptLeave, Inside
  <2>2. Inside' = Inside \ {a}
    BY <1>3 DEF AcceptLeave, AcceptGoto, Inside, AcceptType
  <2>3. accepting' = accepting - 1
    BY <1>3 DEF AcceptLeave, Left
  <2> QED
    BY <2>1, <2>2, <2>3, FS_RemoveElement DEF CountInv
<1>4. ASSUME NEW a \in Acceptors, AcceptConn(a) PROVE CountInv'
  <2> Same
    BY <1>4 DEF AcceptConn, AcceptGoto, Inside, AcceptType, service
  <2> QED
    BY <1>1
<1>5. ASSUME NEW a \in Acceptors, Track(a) PROVE CountInv'
  <2> Same
    BY <1>5 DEF Track, AcceptGoto, Inside, AcceptType
  <2> QED
    BY <1>1
<1>6. ASSUME NEW a \in Acceptors, RegisterConn(a) PROVE CountInv'
  <2> Same
    BY <1>6 DEF RegisterConn, AcceptGoto, Inside, AcceptType, service
  <2> QED
    BY <1>1
<1>7. ASSUME at' = at, accepting' = accepting PROVE CountInv'
  BY <1>1, <1>7 DEF Inside
<1>8. ASSUME NEW a \in Acceptors, RawClose(a) \/ SweepClose(a) \/ RawForget(a) \/ ConnClose(a)
      PROVE  CountInv'
  BY <1>7, <1>8 DEF RawClose, SweepClose, RawForget, ConnClose,
     service
<1>9. ASSUME CloserStep \/ DrainExpire \/ DriverClosesScope \/ Finished \/ \E d \in BOOLEAN : CloseStop(d)
      PROVE  CountInv'
  BY <1>7, <1>9
  DEF CloserStep, CloseListeners, DrainCheck, DrainWake, CloseScope,
     CloseReturn, SweepEnd,
      DrainExpire, DriverClosesScope, ScopeClose, Finished, CloseStop, service, acceptVars
<1> QED
  BY <1>2, <1>3, <1>4, <1>5, <1>6, <1>8, <1>9 DEF AcceptNext, Run

\* Every step of Accept, of a closing connection, of Service.close and of the scope
\* keeps the rest of the invariant.
LEMMA AcceptKept ==
    ASSUME AcceptType, PlaceInv, ScopeInv, DrainInv, AcceptNext
    PROVE  (AcceptType /\ PlaceInv /\ ScopeInv /\ DrainInv)'
<1> USE DEF AcceptType, PlaceInv, ScopeInv, DrainInv, Status
<1>1. ASSUME NEW a \in Acceptors, AcceptEnter(a)
      PROVE  (AcceptType /\ PlaceInv /\ ScopeInv /\ DrainInv)'
  BY <1>1 DEF AcceptEnter, Signal, Set, AcceptGoto, closing
<1>2. ASSUME NEW a \in Acceptors, AcceptConn(a)
      PROVE  (AcceptType /\ PlaceInv /\ ScopeInv /\ DrainInv)'
  BY <1>2, SMTT(90) DEF AcceptConn, Set, AcceptGoto, service, closing
<1>3. ASSUME NEW a \in Acceptors, AcceptLeave(a)
      PROVE  (AcceptType /\ PlaceInv /\ ScopeInv /\ DrainInv)'
  BY <1>3 DEF AcceptLeave, Signal, AcceptGoto, closing
<1>4. ASSUME NEW a \in Acceptors, Track(a)
      PROVE  (AcceptType /\ PlaceInv /\ ScopeInv /\ DrainInv)'
  <2>1. CASE Keeps
    <3>1. accepted' = accepted \cup {a} /\ ~stopping
      BY <1>4, <2>1 DEF Track, Keeps
    <3>2. /\ conn' = [conn EXCEPT ![a] = "kept"] /\ at' = [at EXCEPT ![a] = "register"]
          /\ woken' = TRUE
          /\ UNCHANGED <<listener, stopping, accepting, connScope, closer, drain, drained>>
      BY <1>4, <2>1 DEF Track, Signal, Set, AcceptGoto, closing
    <3> QED
      BY <3>1, <3>2
  <2>2. CASE ~Keeps
    BY <1>4, <2>2, SMTT(90) DEF Track, Refused, Set, AcceptGoto, closing
  <2> QED
    BY <2>1, <2>2
<1>5. ASSUME NEW a \in Acceptors, RegisterConn(a)
      PROVE  (AcceptType /\ PlaceInv /\ ScopeInv /\ DrainInv)'
  BY <1>5 DEF RegisterConn, LateStatus, Set, AcceptGoto, service,
     closing
<1>6. ASSUME NEW a \in Acceptors, ConnClose(a)
      PROVE  (AcceptType /\ PlaceInv /\ ScopeInv /\ DrainInv)'
  BY <1>6 DEF ConnClose, Set, service, closing
<1>7. ASSUME NEW a \in Acceptors, RawClose(a)
      PROVE  (AcceptType /\ PlaceInv /\ ScopeInv /\ DrainInv)'
  BY <1>7, SMTT(90) DEF RawClose, Set, service, closing
<1>8. ASSUME NEW a \in Acceptors, SweepClose(a)
      PROVE  (AcceptType /\ PlaceInv /\ ScopeInv /\ DrainInv)'
  BY <1>8 DEF SweepClose, Set, service, closing
<1>9. ASSUME NEW a \in Acceptors, RawForget(a)
      PROVE  (AcceptType /\ PlaceInv /\ ScopeInv /\ DrainInv)'
  BY <1>9 DEF RawForget, Signal, Set, closing
<1>10. ASSUME NEW d \in BOOLEAN, CloseStop(d)
      PROVE  (AcceptType /\ PlaceInv /\ ScopeInv /\ DrainInv)'
  BY <1>10 DEF CloseStop, Signal
<1>11. ASSUME CloseListeners PROVE (AcceptType /\ PlaceInv /\ ScopeInv /\ DrainInv)'
  BY <1>11 DEF CloseListeners, service
<1>12. ASSUME DrainCheck PROVE (AcceptType /\ PlaceInv /\ ScopeInv /\ DrainInv)'
  <2>3. closer = "wait"
    BY <1>12 DEF DrainCheck
  <2>1. CASE NothingAccepted
    <3>1. /\ accepted = {} /\ closer' = "scope" /\ drained' = TRUE
          /\ UNCHANGED <<listener, stopping, accepting, accepted, woken, connScope, at, conn, drain>>
      BY <1>12, <2>1, ZenonT(60) DEF DrainCheck, NothingAccepted
    <3> QED
      BY <2>3, <3>1
  <2>2. CASE ~NothingAccepted
    <3>2. /\ closer' = "sleep" /\ woken' = FALSE
          /\ UNCHANGED <<listener, stopping, accepting, accepted, drained, connScope, at, conn, drain>>
      BY <1>12, <2>2, ZenonT(60) DEF DrainCheck
    <3> QED
      BY <2>3, <3>2
  <2> QED
    BY <2>1, <2>2
<1>13. ASSUME DrainWake PROVE (AcceptType /\ PlaceInv /\ ScopeInv /\ DrainInv)'
  BY <1>13 DEF DrainWake, service
<1>14. ASSUME DrainExpire PROVE (AcceptType /\ PlaceInv /\ ScopeInv /\ DrainInv)'
  BY <1>14 DEF DrainExpire, service
<1>15. ASSUME ScopeClose PROVE (AcceptType /\ PlaceInv /\ ScopeInv /\ DrainInv)'
  BY <1>15 DEF ScopeClose, Dooms, service, closing
<1>16. ASSUME SweepEnd PROVE (AcceptType /\ PlaceInv /\ ScopeInv /\ DrainInv)'
  BY <1>16 DEF SweepEnd, Swept, service, closing
<1>17. ASSUME CloseReturn PROVE (AcceptType /\ PlaceInv /\ ScopeInv /\ DrainInv)'
  BY <1>17 DEF CloseReturn, service
<1>18. ASSUME Finished PROVE (AcceptType /\ PlaceInv /\ ScopeInv /\ DrainInv)'
  BY <1>18 DEF Finished, acceptVars, service, closing
<1> QED
  BY <1>1, <1>2, <1>3, <1>4, <1>5, <1>6, <1>7, <1>8, <1>9, <1>10, <1>11, <1>12, <1>13, <1>14, <1>15,
     <1>16, <1>17, <1>18 DEF AcceptNext, Run, CloserStep, CloseScope,
     DriverClosesScope

\* A new service has accepted nothing and runs no Accept.
LEMMA AcceptInitially == AcceptInit => AcceptInv
<1> SUFFICES ASSUME AcceptInit PROVE AcceptInv
  OBVIOUS
<1>1. Inside = {} /\ accepting = 0
  BY DEF AcceptInit, Inside
<1>2. CountInv
  BY <1>1, FS_EmptySet DEF CountInv
<1> QED
  BY <1>2 DEF AcceptInit, AcceptInv, AcceptType, PlaceInv, ScopeInv, DrainInv, Status

\* The inductive invariant holds.
LEMMA AcceptInvariant == AcceptSpec => []AcceptInv
<1>1. AcceptInv /\ [AcceptNext]_acceptVars => AcceptInv'
  <2> SUFFICES ASSUME AcceptInv, [AcceptNext]_acceptVars PROVE AcceptInv'
    OBVIOUS
  <2>1. CASE AcceptNext
    BY <2>1, AcceptingCounted, AcceptKept DEF AcceptInv
  <2>2. CASE UNCHANGED acceptVars
    BY <2>2, SMTT(90) DEF AcceptInv, AcceptType, CountInv, Inside, PlaceInv, ScopeInv, DrainInv, acceptVars,
       service, closing
  <2> QED
    BY <2>1, <2>2
<1> QED
  BY <1>1, AcceptInitially, PTL DEF AcceptSpec

\* accepting is the number of goroutines inside the backing Accept and accepted the
\* set of connections that are kept and not closed: what Drain waits on is true.
THEOREM Bookkeeping == AcceptSpec => []TypeOK
<1>1. ASSUME AcceptInv PROVE TypeOK
  <2>1. accepting = Cardinality({a \in Acceptors : at[a] \in {"accept", "leave"}})
    BY <1>1 DEF AcceptInv, CountInv, Inside
  <2>2. AcceptType
    BY <1>1 DEF AcceptInv
  <2>3. \A S : Cardinality(S) = Cardinality(S)
    BY ZenonT(60) DEF Cardinality, Cardinality
  <2> QED
    BY <2>1, <2>2, <2>3 DEF AcceptType, TypeOK
<1> QED
  BY <1>1, AcceptInvariant, PTL

\* A drained service has no open connection and never gets one again, and a closed
\* one leaves none with the application (service.go:522).
THEOREM ClosedIsEmpty == AcceptSpec => []ClosedStaysEmpty
<1>1. AcceptInv => ClosedStaysEmpty
  BY DEF AcceptInv, AcceptType, ScopeInv, DrainInv, ClosedStaysEmpty, Open, Status
<1> QED
  BY <1>1, AcceptInvariant, PTL

\* waitAccepted does not sleep through the change it waits for: while it sleeps with
\* nothing left to wait for, the channel it holds is closed (service.go:585-600).
NoLostWakeup == closer = "sleep" /\ NothingAccepted => woken

\* A step that leaves nothing to wait for signals, and waitAccepted takes a new
\* channel only when something is left.
THEOREM WakeupIsSeen == AcceptSpec => []NoLostWakeup
<1>1. AcceptInit => NoLostWakeup
  BY DEF AcceptInit, NoLostWakeup
<1>2. NoLostWakeup /\ [AcceptNext]_acceptVars => NoLostWakeup'
  <2> SUFFICES ASSUME NoLostWakeup, [AcceptNext]_acceptVars PROVE NoLostWakeup'
    OBVIOUS
  <2>1. ASSUME closer' \in {closer, "idle", "listeners", "wait", "scope", "done"},
               woken' \/ UNCHANGED <<accepted, accepting, woken>>
        PROVE  NoLostWakeup'
    BY <2>1, SMTT(90) DEF NoLostWakeup, NothingAccepted
  <2>2. ASSUME NEW a \in Acceptors, Run(a) \/ AcceptEnter(a) \/ AcceptConn(a)
                                    \/ ConnClose(a)
        PROVE  NoLostWakeup'
    BY <2>1, <2>2
    DEF Run, AcceptEnter, AcceptConn, ConnClose, AcceptLeave,
        Track, RegisterConn, RawClose, SweepClose, RawForget,
        Signal, service, closing
  <2>3. ASSUME NEW d \in BOOLEAN, CloseStop(d) PROVE NoLostWakeup'
    BY <2>1, <2>3 DEF CloseStop, Signal
  <2>4. CASE DrainCheck
    BY <2>4 DEF DrainCheck, NoLostWakeup, NothingAccepted
  <2>5. CASE CloseListeners \/ DrainWake \/ CloseScope \/ CloseReturn
             \/ SweepEnd \/ DrainExpire \/ DriverClosesScope
    BY <2>1, <2>5
    DEF CloseListeners, DrainWake, CloseScope, CloseReturn,
        SweepEnd, DrainExpire, DriverClosesScope, ScopeClose, service,
        closing
  <2>6. CASE UNCHANGED acceptVars
    BY <2>1, <2>6 DEF acceptVars, service, closing
  <2> QED
    BY <2>2, <2>3, <2>4, <2>5, <2>6 DEF AcceptNext, CloserStep, Finished
<1> QED
  BY <1>1, <1>2, PTL DEF AcceptSpec
=============================================================================
