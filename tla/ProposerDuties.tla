--------------------------- MODULE ProposerDuties ---------------------------
(***************************************************************************)
(* The proposer-duties cache of the relay (services/api/service.go):      *)
(* updateProposerDuties, started by processNewSlot on a goroutine of its  *)
(* own for every new head, guarded by the isUpdatingProposerDuties flag   *)
(* and throttled to every 8 slots.  It re-reads the duties from redis and *)
(* replaces proposerDutiesMap/Response and proposerDutiesSlot.            *)
(*                                                                         *)
(* The duties redis holds are written by the housekeeper, outside this    *)
(* repository; they are a version number here, bumped by the environment.*)
(* Init is the state StartServer leaves: the blocking first update, then  *)
(* processNewSlot for the same head, which starts an update goroutine.    *)
(***************************************************************************)
EXTENDS Naturals

CONSTANTS
    StartSlot,     \* head slot reported by the beacon node at start
    MaxSlot,       \* last head event
    MaxVersion,    \* housekeeper writes of the duties in redis
    RedisFaults    \* TRUE: GetProposerDuties may fail

ASSUME StartSlot >= 8 /\ StartSlot <= MaxSlot

\* The throttle of the code: a refresh every 8 slots.
DutiesInterval == 8

Heads    == StartSlot..MaxSlot
Versions == 0..MaxVersion

VARIABLES
    headSlot,        \* api.headSlot
    redisVersion,    \* the duties stored in redis
    dutiesVersion,   \* the duties in proposerDutiesMap / Response
    dutiesSlot,      \* api.proposerDutiesSlot
    updating,        \* api.isUpdatingProposerDuties
    upd              \* updateProposerDuties(h) goroutines

vars == <<headSlot, redisVersion, dutiesVersion, dutiesSlot, updating, upd>>

Init ==
    /\ headSlot = StartSlot
    /\ redisVersion = 1
    /\ \/ dutiesVersion = 1 /\ dutiesSlot = StartSlot
       \/ RedisFaults /\ dutiesVersion = 0 /\ dutiesSlot = 0
    /\ updating = FALSE
    /\ upd = [h \in Heads |-> [pc |-> IF h = StartSlot THEN "spawned" ELSE "none",
                               got |-> 0, err |-> FALSE]]

(* The housekeeper stores new duties in redis.                            *)
HousekeeperWrite ==
    /\ redisVersion < MaxVersion
    /\ redisVersion' = redisVersion + 1
    /\ UNCHANGED <<headSlot, dutiesVersion, dutiesSlot, updating, upd>>

(* processNewSlot: a newer head event stores the head and starts          *)
(* updateProposerDuties(h) on its own goroutine.                          *)
NewHead(h) ==
    /\ headSlot < h
    /\ headSlot' = h
    /\ upd' = [upd EXCEPT ![h].pc = "spawned"]
    /\ UNCHANGED <<redisVersion, dutiesVersion, dutiesSlot, updating>>

(* The throttle headSlot%8 != 0 && headSlot-proposerDutiesSlot < 8.  The  *)
(* subtraction is on uint64: when an older goroutine runs after a newer  *)
(* one stored a larger slot it wraps to a value far above 8.             *)
Throttled(h) ==
    /\ h % DutiesInterval # 0
    /\ h >= dutiesSlot
    /\ h - dutiesSlot < DutiesInterval

(* Mutant: no single-flight flag, every goroutine goes on.                *)
Start_NoSingleFlight(h) ==
    /\ upd[h].pc = "spawned"
    /\ updating' = TRUE /\ upd' = [upd EXCEPT ![h].pc = "throttle"]
    /\ UNCHANGED <<headSlot, redisVersion, dutiesVersion, dutiesSlot>>

(* isUpdatingProposerDuties.Swap(true): return when another update holds *)
(* the flag, else hold it.                                                *)
Start(h) ==
    /\ upd[h].pc = "spawned"
    /\ \/ updating /\ upd' = [upd EXCEPT ![h].pc = "done"] /\ UNCHANGED updating
       \/ ~updating /\ updating' = TRUE /\ upd' = [upd EXCEPT ![h].pc = "throttle"]
    /\ UNCHANGED <<headSlot, redisVersion, dutiesVersion, dutiesSlot>>

(* The throttle: return, releasing the flag (deferred), or go on to read. *)
Throttle(h) ==
    /\ upd[h].pc = "throttle"
    /\ \/ Throttled(h) /\ updating' = FALSE /\ upd' = [upd EXCEPT ![h].pc = "done"]
       \/ ~Throttled(h) /\ upd' = [upd EXCEPT ![h].pc = "reading"] /\ UNCHANGED updating
    /\ UNCHANGED <<headSlot, redisVersion, dutiesVersion, dutiesSlot>>

(* redis.GetProposerDuties: the duties redis holds now, or an error.      *)
Fetch(h) ==
    /\ upd[h].pc = "reading"
    /\ \/ upd' = [upd EXCEPT ![h] = [pc |-> "storing", got |-> redisVersion, err |-> FALSE]]
       \/ RedisFaults /\ upd' = [upd EXCEPT ![h] = [pc |-> "storing", got |-> 0, err |-> TRUE]]
    /\ UNCHANGED <<headSlot, redisVersion, dutiesVersion, dutiesSlot, updating>>

(* Mutant: the slot after the head is stored as the duties slot.         *)
Store_SlotPlusOne(h) ==
    /\ upd[h].pc = "storing"
    /\ IF upd[h].err
       THEN UNCHANGED <<dutiesVersion, dutiesSlot>>
       ELSE dutiesVersion' = upd[h].got /\ dutiesSlot' = h + 1
    /\ updating' = FALSE
    /\ upd' = [upd EXCEPT ![h].pc = "done"]
    /\ UNCHANGED <<headSlot, redisVersion>>

(* Mutant: the flag is released on the success path only.               *)
Store_NoReleaseOnError(h) ==
    /\ upd[h].pc = "storing"
    /\ IF upd[h].err
       THEN UNCHANGED <<dutiesVersion, dutiesSlot, updating>>
       ELSE dutiesVersion' = upd[h].got /\ dutiesSlot' = h /\ updating' = FALSE
    /\ upd' = [upd EXCEPT ![h].pc = "done"]
    /\ UNCHANGED <<headSlot, redisVersion>>

(* On success store the duties and the slot under the lock; on an error   *)
(* only log.  The deferred Store(false) releases the flag on both paths.  *)
Store(h) ==
    /\ upd[h].pc = "storing"
    /\ IF upd[h].err
       THEN UNCHANGED <<dutiesVersion, dutiesSlot>>
       ELSE dutiesVersion' = upd[h].got /\ dutiesSlot' = h
    /\ updating' = FALSE
    /\ upd' = [upd EXCEPT ![h].pc = "done"]
    /\ UNCHANGED <<headSlot, redisVersion>>

Next ==
    \/ HousekeeperWrite
    \/ \E h \in Heads : NewHead(h) \/ Start(h) \/ Throttle(h) \/ Fetch(h) \/ Store(h)

Spec == Init /\ [][Next]_vars

(* Every updateProposerDuties goroutine runs to its end.                  *)
FairSpec == Spec /\ \A h \in Heads : WF_vars(Start(h) \/ Throttle(h) \/ Fetch(h) \/ Store(h))

TypeOK ==
    /\ headSlot \in Heads
    /\ redisVersion \in Versions /\ dutiesVersion \in Versions
    /\ dutiesSlot \in {0} \cup Heads
    /\ updating \in BOOLEAN
    /\ upd \in [Heads -> [pc: {"none", "spawned", "throttle", "reading", "storing", "done"},
                          got: Versions, err: BOOLEAN]]

-----------------------------------------------------------------------------
(* Goroutines of several heads run in any order and redis changes while  *)
(* one of them reads it: the duties the relay serves are never replaced   *)
(* by older ones than it already had (the single-flight flag).            *)
DutiesNeverOlder == [][dutiesVersion' >= dutiesVersion]_vars

(* The flag taken by Swap(true) is always given back (the deferred       *)
(* Store(false)), so later heads are not locked out of refreshing.        *)
FlagReleased == updating ~> ~updating

=============================================================================
