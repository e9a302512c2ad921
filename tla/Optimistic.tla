----------------------------- MODULE Optimistic -----------------------------
(***************************************************************************)
(* The optimistic path of src/services/api/service.go and the builder      *)
(* registry it reads:                                                       *)
(*   - handleSubmitNewBlock's builder-cache read, blacklist check, past-    *)
(*     slot check and the optimistic / synchronous branch (1192-1365),      *)
(*     with everything after the branch (staleness check, store writes)     *)
(*     as one step that stores the bid or fails (SubmitBlock models it);    *)
(*   - processOptimisticBlock and demoteBuilder, the optimisticBlocks wait  *)
(*     group;                                                               *)
(*   - processNewSlot's updateOptimisticSlot goroutine: Wait, then          *)
(*     optimisticSlot := head + 1, then the builder cache refresh;          *)
(*   - the getPayload goroutine's refund step: Wait, then the demotion      *)
(*     lookup and the refund update;                                        *)
(*   - the operator's builder status and collateral endpoints.              *)
(* Builder rows and demotion rows live in the database (DBFaults: every     *)
(* database call may fail).                                                 *)
(***************************************************************************)
EXTENDS Naturals, FiniteSets

CONSTANTS
    Builders,           \* builder public keys
    NumSubs,            \* number of builder submissions
    SubBuilder,         \* SubBuilder[r]: the builder of submission r
    SubSlot,            \* SubSlot[r]: the slot of submission r
    MaxSlot,            \* head slots are 1..MaxSlot
    Values,             \* bid values (non-zero: value 0 never gets here)
    Collaterals,        \* collateral values the operator may set
    InitCollateral,     \* every builder's collateral row at start
    MaxOperatorCalls,   \* operator status/collateral calls
    DBFaults,           \* TRUE: every database call may fail
    Absent              \* a builder missing from blockBuildersCache

ASSUME
    /\ NumSubs \in Nat \ {0}
    /\ SubBuilder \in [1..NumSubs -> Builders]
    /\ SubSlot \in [1..NumSubs -> 1..MaxSlot]
    /\ MaxSlot \in Nat \ {0}
    /\ Values \subseteq Nat \ {0}
    /\ InitCollateral \in Collaterals /\ Collaterals \subseteq Nat
    /\ MaxOperatorCalls \in Nat
    /\ DBFaults \in BOOLEAN

Subs == 1..NumSubs
Slots == 1..MaxSlot

(* A builder row / cache entry: common.BuilderStatus and the collateral. *)
Entry == [hp: BOOLEAN, bl: BOOLEAN, dem: BOOLEAN, coll: Collaterals]

(* A missing cache entry reads as low-prio, not blacklisted, not demoted, *)
(* collateral zero.                                                        *)
EntryOf(e) == IF e = Absent THEN [hp |-> FALSE, bl |-> FALSE, dem |-> FALSE, coll |-> 0]
              ELSE e

VARIABLES
    headSlot,       \* api.headSlot
    optimisticSlot, \* api.optimisticSlot
    cache,          \* api.blockBuildersCache
    dbBuilder,      \* block builder rows: status bits and collateral
    demotions,      \* demotion rows (one per demoted submission)
    refunded,       \* demotion rows updated with the refund justification
    wg,             \* counter of the optimisticBlocks wait group
    sub,            \* sub[r]: submission r's handler
    gor,            \* gor[r]: submission r's processOptimisticBlock goroutine
    upd,            \* upd[h]: the updateOptimisticSlot(h) goroutine, the rows
                    \* it read and the builders it has still to copy
    pay,            \* pay[s]: the getPayload goroutine of slot s
    opCalls         \* operator calls made so far

vars == <<headSlot, optimisticSlot, cache, dbBuilder, demotions, refunded,
          wg, sub, gor, upd, pay, opCalls>>

Init ==
    /\ headSlot = 0
    /\ optimisticSlot = 0
    /\ cache = [b \in Builders |-> Absent]
    /\ dbBuilder = [b \in Builders |->
                      [hp |-> FALSE, bl |-> FALSE, dem |-> FALSE, coll |-> InitCollateral]]
    /\ demotions = {}
    /\ refunded = {}
    /\ wg = 0
    /\ \E val \in [Subs -> Values] :
          sub = [r \in Subs |-> [pc |-> "idle", value |-> val[r], entry |-> Absent,
                                 opt |-> FALSE]]
    /\ gor = [r \in Subs |-> "none"]
    /\ upd = [h \in Slots |-> [pc |-> "none", rows |-> dbBuilder, left |-> {}]]
    /\ pay = [s \in Slots |-> [pc |-> "idle", block |-> 0]]
    /\ opCalls = 0

-----------------------------------------------------------------------------
(* handleSubmitNewBlock                                                     *)

(* The builder-cache read (missing: low-prio, collateral 0); a blacklisted *)
(* builder is answered 200 with nothing processed.                        *)
SubReadCache(r) ==
    /\ sub[r].pc = "idle"
    /\ sub' = [sub EXCEPT ![r].entry = EntryOf(cache[SubBuilder[r]]),
                          ![r].pc = IF EntryOf(cache[SubBuilder[r]]).bl
                                    THEN "ignored" ELSE "checks"]
    /\ UNCHANGED <<headSlot, optimisticSlot, cache, dbBuilder, demotions, refunded,
                   wg, gor, upd, pay, opCalls>>

(* The optimistic path is taken iff the cached collateral exceeds the      *)
(* value, the cached entry is not demoted and the slot is optimisticSlot.  *)
OptimisticBranch(r) ==
    /\ sub[r].entry.coll > sub[r].value
    /\ ~sub[r].entry.dem
    /\ SubSlot[r] = optimisticSlot

(* Past-slot check and the other in-memory checks, then the branch: the   *)
(* optimistic one starts processOptimisticBlock and goes on at once, the  *)
(* synchronous one answers 400 on a failed simulation.                    *)
SubBranch(r) ==
    /\ sub[r].pc = "checks"
    /\ \/ /\ SubSlot[r] <= headSlot
          /\ sub' = [sub EXCEPT ![r].pc = "rejected"]
          /\ UNCHANGED gor
       \/ /\ sub' = [sub EXCEPT ![r].pc = "rejected"]     \* another check failed
          /\ UNCHANGED gor
       \/ /\ SubSlot[r] > headSlot
          /\ OptimisticBranch(r)
          /\ sub' = [sub EXCEPT ![r].pc = "posted", ![r].opt = TRUE]
          /\ gor' = [gor EXCEPT ![r] = "spawned"]
       \/ /\ SubSlot[r] > headSlot
          /\ ~OptimisticBranch(r)
          /\ \E ok \in BOOLEAN : sub' = [sub EXCEPT ![r].pc = IF ok THEN "posted" ELSE "rejected"]
          /\ UNCHANGED gor
    /\ UNCHANGED <<headSlot, optimisticSlot, cache, dbBuilder, demotions, refunded,
                   wg, upd, pay, opCalls>>

(* Staleness check and the four store writes: stored (200) or failed. *)
SubStore(r) ==
    /\ sub[r].pc = "posted"
    /\ \E ok \in BOOLEAN : sub' = [sub EXCEPT ![r].pc = IF ok THEN "accepted" ELSE "failed"]
    /\ UNCHANGED <<headSlot, optimisticSlot, cache, dbBuilder, demotions, refunded,
                   wg, gor, upd, pay, opCalls>>

-----------------------------------------------------------------------------
(* processOptimisticBlock                                                   *)

(* The goroutine's first statement: optimisticBlocks.Add(1). *)
OptAdd(r) ==
    /\ gor[r] = "spawned"
    /\ gor' = [gor EXCEPT ![r] = "running"]
    /\ wg' = wg + 1
    /\ UNCHANGED <<headSlot, optimisticSlot, cache, dbBuilder, demotions, refunded,
                   sub, upd, pay, opCalls>>

(* demoteBuilder: the new status copies high-prio and blacklisted from the *)
(* cached entry and sets demoted; then the demotion row is inserted.  Each *)
(* write may fail and is only logged.                                     *)
DemoteBuilder(r) ==
    LET b == SubBuilder[r]
        e == EntryOf(cache[b])
    IN  /\ \/ dbBuilder' = [dbBuilder EXCEPT ![b] = [@ EXCEPT !.hp = e.hp, !.bl = e.bl,
                                                              !.dem = TRUE]]
           \/ DBFaults /\ UNCHANGED dbBuilder
        /\ \/ demotions' = demotions \cup {r}
           \/ DBFaults /\ UNCHANGED demotions

OptSimulate_NoDone(r) ==
    /\ gor[r] = "running"
    /\ \/ UNCHANGED <<dbBuilder, demotions>> /\ wg' = wg - 1
       \/ DemoteBuilder(r) /\ UNCHANGED wg
    /\ gor' = [gor EXCEPT ![r] = "done"]
    /\ UNCHANGED <<headSlot, optimisticSlot, cache, refunded, sub, upd, pay, opCalls>>

(* The simulation returns; on failure the builder is demoted.  The deferred *)
(* Done runs last.                                                         *)
OptSimulate(r) ==
    /\ gor[r] = "running"
    /\ \/ UNCHANGED <<dbBuilder, demotions>>
       \/ DemoteBuilder(r)
    /\ gor' = [gor EXCEPT ![r] = "done"]
    /\ wg' = wg - 1
    /\ UNCHANGED <<headSlot, optimisticSlot, cache, refunded, sub, upd, pay, opCalls>>

-----------------------------------------------------------------------------
(* Slot clock: processNewSlot stores the head and starts                   *)
(* updateOptimisticSlot(head).                                              *)
NewHead ==
    /\ \E h \in Slots :
          /\ h > headSlot
          /\ headSlot' = h
          /\ upd' = [upd EXCEPT ![h].pc = "waiting"]
    /\ UNCHANGED <<optimisticSlot, cache, dbBuilder, demotions, refunded,
                   wg, sub, gor, pay, opCalls>>

UpdateOptimisticSlot_OffByOne(h) ==
    /\ upd[h].pc = "waiting"
    /\ wg = 0
    /\ optimisticSlot' = h + 2
    /\ upd' = [upd EXCEPT ![h].pc = "refresh"]
    /\ UNCHANGED <<headSlot, cache, dbBuilder, demotions, refunded,
                   wg, sub, gor, pay, opCalls>>

(* optimisticBlocks.Wait() returns, then optimisticSlot := h + 1. *)
UpdateOptimisticSlot(h) ==
    /\ upd[h].pc = "waiting"
    /\ wg = 0
    /\ optimisticSlot' = h + 1
    /\ upd' = [upd EXCEPT ![h].pc = "refresh"]
    /\ UNCHANGED <<headSlot, cache, dbBuilder, demotions, refunded,
                   wg, sub, gor, pay, opCalls>>

(* GetBlockBuilders; a failed read returns and leaves the cache as it was.*)
RefreshBuilderCache(h) ==
    /\ upd[h].pc = "refresh"
    /\ \/ upd' = [upd EXCEPT ![h] = [pc |-> "copy", rows |-> dbBuilder, left |-> Builders]]
       \/ DBFaults /\ upd' = [upd EXCEPT ![h].pc = "done"]
    /\ UNCHANGED <<headSlot, optimisticSlot, cache, dbBuilder, demotions, refunded,
                   wg, sub, gor, pay, opCalls>>

(* The range over the rows, in Go's map order: each row is written into   *)
(* the shared blockBuildersCache map in place, one entry at a time.       *)
CopyBuilderEntry(h, b) ==
    /\ upd[h].pc = "copy"
    /\ b \in upd[h].left
    /\ cache' = [cache EXCEPT ![b] = upd[h].rows[b]]
    /\ upd' = [upd EXCEPT ![h].left = @ \ {b},
                          ![h].pc = IF upd[h].left = {b} THEN "done" ELSE "copy"]
    /\ UNCHANGED <<headSlot, optimisticSlot, dbBuilder, demotions, refunded,
                   wg, sub, gor, pay, opCalls>>

-----------------------------------------------------------------------------
(* getPayload delivers the stored block of an accepted submission r for   *)
(* slot s; its goroutine is then at the refund step.                      *)
DeliverPayload(s) ==
    /\ pay[s].pc = "idle"
    /\ \E r \in Subs :
          /\ SubSlot[r] = s
          /\ sub[r].pc = "accepted"
          /\ pay' = [pay EXCEPT ![s] = [pc |-> "waiting", block |-> r]]
    /\ UNCHANGED <<headSlot, optimisticSlot, cache, dbBuilder, demotions, refunded,
                   wg, sub, gor, upd, opCalls>>

(* optimisticBlocks.Wait(), then GetBuilderDemotion for the delivered     *)
(* block; when a row is found, UpdateBuilderDemotion adds the refund      *)
(* justification.  Either database call may fail (logged, return).       *)
RefundCheck(s) ==
    /\ pay[s].pc = "waiting"
    /\ wg = 0
    /\ \/ /\ pay[s].block \in demotions
          /\ refunded' = refunded \cup {pay[s].block}
       \/ /\ pay[s].block \notin demotions \/ DBFaults
          /\ UNCHANGED refunded
    /\ pay' = [pay EXCEPT ![s].pc = "done"]
    /\ UNCHANGED <<headSlot, optimisticSlot, cache, dbBuilder, demotions,
                   wg, sub, gor, upd, opCalls>>

-----------------------------------------------------------------------------
(* Internal API                                                            *)

(* POST /internal/v1/builder/{pubkey}: the three bits from the query       *)
(* (absent = false) replace the row's status.                             *)
SetBuilderStatus(b, hp, bl, dem) ==
    /\ opCalls < MaxOperatorCalls
    /\ opCalls' = opCalls + 1
    /\ \/ dbBuilder' = [dbBuilder EXCEPT ![b] = [@ EXCEPT !.hp = hp, !.bl = bl, !.dem = dem]]
       \/ DBFaults /\ UNCHANGED dbBuilder
    /\ UNCHANGED <<headSlot, optimisticSlot, cache, demotions, refunded,
                   wg, sub, gor, upd, pay>>

(* POST /internal/v1/builder/collateral/{pubkey}. *)
SetBuilderCollateral(b, c) ==
    /\ opCalls < MaxOperatorCalls
    /\ opCalls' = opCalls + 1
    /\ \/ dbBuilder' = [dbBuilder EXCEPT ![b].coll = c]
       \/ DBFaults /\ UNCHANGED dbBuilder
    /\ UNCHANGED <<headSlot, optimisticSlot, cache, demotions, refunded,
                   wg, sub, gor, upd, pay>>

Next ==
    \/ \E r \in Subs :
          SubReadCache(r) \/ SubBranch(r) \/ SubStore(r) \/ OptAdd(r) \/ OptSimulate(r)
    \/ NewHead
    \/ \E h \in Slots : UpdateOptimisticSlot(h) \/ RefreshBuilderCache(h)
    \/ \E h \in Slots, b \in Builders : CopyBuilderEntry(h, b)
    \/ \E s \in Slots : DeliverPayload(s) \/ RefundCheck(s)
    \/ \E b \in Builders, hp, bl, dem \in BOOLEAN : SetBuilderStatus(b, hp, bl, dem)
    \/ \E b \in Builders, c \in Collaterals : SetBuilderCollateral(b, c)

(* Every goroutine the Go scheduler has started keeps running.  Handlers, *)
(* head events, proposers and the operator act at will; once every        *)
(* request is answered and every goroutine has returned the relay idles,  *)
(* so the runs do not check deadlock and a goroutine blocked for ever     *)
(* shows as a violated liveness property.                                 *)
Fairness ==
    /\ \A r \in Subs : WF_vars(OptAdd(r)) /\ WF_vars(OptSimulate(r))
    /\ \A h \in Slots : /\ WF_vars(UpdateOptimisticSlot(h)) /\ WF_vars(RefreshBuilderCache(h))
                        /\ WF_vars(\E b \in Builders : CopyBuilderEntry(h, b))
    /\ \A s \in Slots : WF_vars(RefundCheck(s))

Spec == Init /\ [][Next]_vars
FairSpec == Spec /\ Fairness

-----------------------------------------------------------------------------
TypeOK ==
    /\ headSlot \in 0..MaxSlot
    /\ optimisticSlot \in 0..MaxSlot + 1
    /\ cache \in [Builders -> Entry \cup {Absent}]
    /\ dbBuilder \in [Builders -> Entry]
    /\ demotions \subseteq Subs /\ refunded \subseteq Subs
    /\ wg \in 0..NumSubs
    /\ gor \in [Subs -> {"none", "spawned", "running", "done"}]
    /\ upd \in [Slots -> [pc: {"none", "waiting", "refresh", "copy", "done"},
                          rows: [Builders -> Entry], left: SUBSET Builders]]
    /\ pay \in [Slots -> [pc: {"idle", "waiting", "done"}, block: 0..NumSubs]]
    /\ opCalls \in 0..MaxOperatorCalls

(* Spec section 4.4: the demotion sets demoted=true on the builder row;    *)
(* high-prio and blacklisted are independent bits that only an operator    *)
(* call through the internal API changes.  demoteBuilder (442) writes a    *)
(* whole status built from the cached entry, so a blacklist set by the     *)
(* operator after the last cache refresh must not be undone by it.         *)
OperatorBitsKept ==
    [][\A b \in Builders :
         opCalls' = opCalls
            => /\ dbBuilder'[b].bl = dbBuilder[b].bl
               /\ dbBuilder'[b].hp = dbBuilder[b].hp]_vars

(* Spec I5 / scenario 5: once a builder's row says demoted, every later   *)
(* submission of that builder takes the synchronous path: a submission    *)
(* that reads the builder cache (1192) after the demotion was persisted   *)
(* sees the builder as demoted, so the branch at 1353 is closed to it.    *)
SubsequentSubmissionsSeeDemotion ==
    [][\A r \in Subs :
         (sub[r].pc = "idle" /\ sub'[r].pc = "checks" /\ dbBuilder[SubBuilder[r]].dem)
            => sub'[r].entry.dem]_vars

(* Spec §4.8: the getPayload goroutine waits for the optimistic            *)
(* simulations, so when its refund step has run, a demotion of the        *)
(* delivered block carries the refund justification.                      *)
NoMissedRefund ==
    \A s \in Slots :
        (pay[s].pc = "done" /\ pay[s].block \in demotions) => pay[s].block \in refunded

(* Spec section 5: the builder-cache refresh swaps a new map in whole, so  *)
(* a submission's cache read (1192) sees the old map or the new one, never *)
(* one a refresh has written part of (581).                               *)
NoCacheReadDuringRefresh ==
    [][\A r \in Subs :
         (sub[r].pc = "idle" /\ sub'[r].pc # "idle")
            => \A h \in Slots : upd[h].pc = "copy" => upd[h].left = Builders]_vars

(* Every getPayload goroutine gets past optimisticBlocks.Wait() and ends   *)
(* its refund step: the optimistic simulations drain.                     *)
RefundCheckTerminates ==
    \A s \in Slots : pay[s].pc = "waiting" ~> pay[s].pc = "done"

=============================================================================
