---------------------------- MODULE RandaoOracle ----------------------------
(***************************************************************************)
(* The expected prev_randao of the relay (services/api/service.go):       *)
(* updatedExpectedRandao, the goroutine that asks the beacon node for the *)
(* randao of a slot and stores it for the next slot, and its two callers: *)
(* processNewSlot (one fetch per new head) and handleSubmitNewBlock,      *)
(* which kicks a fetch when a submission is for a slot newer than the     *)
(* stored one and later confirms the stored slot equals its own.          *)
(*                                                                         *)
(* The randao value of a slot is fixed by the beacon chain, so the stored *)
(* value is a function of the stored slot and only the slot is kept: a    *)
(* submission's own random field is its data and is not modelled.         *)
(***************************************************************************)
EXTENDS Naturals, FiniteSets

CONSTANTS
    MaxSlot,          \* the beacon head never passes this slot
    NumSubs,          \* builder submissions
    EarlySubmissions, \* TRUE: a submission may target head+2 as well as head+1
    RandaoFaults      \* TRUE: GetRandao may fail for a slot the node knows

Slots == 0..MaxSlot
Subs  == 1..NumSubs

\* One fetch goroutine per new head and at most one per submission.
FetchKeys == {<<"head", h>> : h \in 1..MaxSlot} \cup {<<"sub", i>> : i \in Subs}

VARIABLES
    beaconHead,         \* head slot of the beacon node
    headSlot,           \* api.headSlot
    expectedSlot,       \* api.expectedPrevRandao.slot
    updating,           \* api.expectedPrevRandaoUpdating
    fetch,              \* fetch goroutines: queried slot and program counter
    sub                 \* submissions: target slot and program counter

vars == <<beaconHead, headSlot, expectedSlot, updating, fetch, sub>>

Init ==
    /\ beaconHead = 1
    /\ headSlot = 0
    /\ expectedSlot = 0
    /\ updating = 0
    /\ fetch = [k \in FetchKeys |-> [slot |-> 0, pc |-> "none"]]
    /\ sub = [i \in Subs |-> [slot |-> 0, pc |-> "idle"]]

Spawn(k, s) == fetch' = [fetch EXCEPT ![k] = [slot |-> s, pc |-> "spawned"]]

(* The beacon chain moves on; the relay learns of it by a head event.     *)
BeaconAdvance ==
    /\ beaconHead < MaxSlot
    /\ beaconHead' = beaconHead + 1
    /\ UNCHANGED <<headSlot, expectedSlot, updating, fetch, sub>>

(* processNewSlot: a head event for a newer slot (the head event stream   *)
(* may skip slots) stores the head and starts updatedExpectedRandao(h).   *)
NewHead(h) ==
    /\ headSlot < h /\ h <= beaconHead
    /\ headSlot' = h
    /\ Spawn(<<"head", h>>, h)
    /\ UNCHANGED <<beaconHead, expectedSlot, updating, sub>>

(* updatedExpectedRandao, first critical section: abort when the slot is  *)
(* older than the stored one or not newer than the one being fetched,     *)
(* else claim it as the slot being fetched.                               *)
FetchStart(k) ==
    /\ fetch[k].pc = "spawned"
    /\ LET slot == fetch[k].slot IN
       IF slot < expectedSlot \/ slot <= updating
       THEN /\ fetch' = [fetch EXCEPT ![k].pc = "done"]
            /\ UNCHANGED updating
       ELSE /\ updating' = slot
            /\ fetch' = [fetch EXCEPT ![k].pc = "fetching"]
    /\ UNCHANGED <<beaconHead, headSlot, expectedSlot, sub>>

(* GetRandao(slot) fails for a slot the beacon node has not seen, and may *)
(* fail on a transport error.                                             *)
RandaoAvailable(slot) == slot <= beaconHead

(* Mutant: the answer is stored without the still-the-latest check.       *)
FetchDone_NoLatestCheck(k) ==
    /\ fetch[k].pc = "fetching"
    /\ LET slot == fetch[k].slot IN
       \/ /\ RandaoAvailable(slot)
          /\ expectedSlot' = slot + 1
          /\ UNCHANGED updating
       \/ /\ ~RandaoAvailable(slot) \/ RandaoFaults
          /\ updating' = 0
          /\ UNCHANGED expectedSlot
    /\ fetch' = [fetch EXCEPT ![k].pc = "done"]
    /\ UNCHANGED <<beaconHead, headSlot, sub>>

(* The answer: on an error, reset the slot being fetched to 0; on success *)
(* store slot+1 if it is not older than the stored slot.  The slot being  *)
(* fetched is left as it is after a success.                              *)
FetchDone(k) ==
    /\ fetch[k].pc = "fetching"
    /\ LET slot == fetch[k].slot IN
       \/ /\ RandaoAvailable(slot)
          /\ expectedSlot' = IF slot + 1 >= expectedSlot THEN slot + 1 ELSE expectedSlot
          /\ UNCHANGED updating
       \/ /\ ~RandaoAvailable(slot) \/ RandaoFaults
          /\ updating' = 0
          /\ UNCHANGED expectedSlot
    /\ fetch' = [fetch EXCEPT ![k].pc = "done"]
    /\ UNCHANGED <<beaconHead, headSlot, sub>>

(* A builder submits for the next slot (or, early, the one after).        *)
Arrive(i) ==
    /\ sub[i].pc = "idle"
    /\ \E s \in {headSlot + 1} \cup (IF EarlySubmissions THEN {headSlot + 2} ELSE {}) :
          sub' = [sub EXCEPT ![i] = [slot |-> s, pc |-> "arrived"]]
    /\ UNCHANGED <<beaconHead, headSlot, expectedSlot, updating, fetch>>

(* Mutant: the fetch is kicked for the submission's own slot.            *)
Kick_SameSlot(i) ==
    /\ sub[i].pc = "arrived"
    /\ IF sub[i].slot > expectedSlot
       THEN Spawn(<<"sub", i>>, sub[i].slot)
       ELSE UNCHANGED fetch
    /\ sub' = [sub EXCEPT ![i].pc = "kicked"]
    /\ UNCHANGED <<beaconHead, headSlot, expectedSlot, updating>>

(* Randao check 1: a submission for a slot newer than the stored one      *)
(* starts updatedExpectedRandao(slot - 1).                                *)
Kick(i) ==
    /\ sub[i].pc = "arrived"
    /\ IF sub[i].slot > expectedSlot
       THEN Spawn(<<"sub", i>>, sub[i].slot - 1)
       ELSE UNCHANGED fetch
    /\ sub' = [sub EXCEPT ![i].pc = "kicked"]
    /\ UNCHANGED <<beaconHead, headSlot, expectedSlot, updating>>

(* The past-slot gate, then randao check 2: the stored slot must be the   *)
(* submission's slot, else "prev_randao is not known yet" (500).          *)
Confirm(i) ==
    /\ sub[i].pc = "kicked"
    /\ sub' = [sub EXCEPT ![i].pc =
                 CASE sub[i].slot <= headSlot         -> "past"
                   [] expectedSlot # sub[i].slot      -> "unknown"
                   [] OTHER                           -> "confirmed"]
    /\ UNCHANGED <<beaconHead, headSlot, expectedSlot, updating, fetch>>

Next ==
    \/ BeaconAdvance
    \/ \E h \in Slots : NewHead(h)
    \/ \E k \in FetchKeys : FetchStart(k) \/ FetchDone(k)
    \/ \E i \in Subs : Arrive(i) \/ Kick(i) \/ Confirm(i)

Spec == Init /\ [][Next]_vars

TypeOK ==
    /\ beaconHead \in Slots /\ headSlot \in Slots
    /\ expectedSlot \in 0..MaxSlot + 2 /\ updating \in 0..MaxSlot + 1
    /\ fetch \in [FetchKeys -> [slot: 0..MaxSlot + 1, pc: {"none", "spawned", "fetching", "done"}]]
    /\ sub \in [Subs -> [slot: 0..MaxSlot + 2,
                         pc: {"idle", "arrived", "kicked", "past", "unknown", "confirmed"}]]

-----------------------------------------------------------------------------
(* The single-flight slot expectedPrevRandaoUpdating is claimed in one    *)
(* critical section (1044-1052) and left set or reset in another          *)
(* (1054-1078), by whichever fetch answers: once no fetch is in flight it *)
(* is either released or covered by the stored expected slot.  A claim    *)
(* left standing above the stored slot would make every later fetch for   *)
(* a slot up to it abort (1047), so the expected prev_randao would never  *)
(* be fetched for those slots.                                            *)
FlagNeverWedged ==
    (\A k \in FetchKeys : fetch[k].pc # "fetching")
        => (updating = 0 \/ updating < expectedSlot)
=============================================================================
