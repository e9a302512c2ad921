---------------------------- MODULE Registration ----------------------------
(***************************************************************************)
(* The validator registration pipeline (services/api/service.go):         *)
(* handleRegisterValidator walks the JSON array of a request element by   *)
(* element and hands registrations to two bounded channels without        *)
(* waiting; startActiveValidatorProcessor and                             *)
(* startValidatorRegistrationDBProcessor workers drain them.              *)
(*                                                                         *)
(* A registration is its validator and timestamp.  What can be wrong with *)
(* an element is its kind: "parse" (no pubkey or timestamp, or a          *)
(* timestamp too far in the future), "decode" (the full JSON does not     *)
(* decode), "badsig" (the signature does not verify), "ok".               *)
(* datastore.SaveValidatorRegistration lives outside this repository: it  *)
(* is modelled from the spec (4.2, section 7 P3) as an upsert that keeps  *)
(* the newer timestamp and also records it for                           *)
(* GetValidatorRegistrationTimestamp.                                     *)
(***************************************************************************)
EXTENDS Naturals, Sequences

CONSTANTS
    Validators,      \* validator pubkeys
    Known,           \* the known-validator set at start
    LaterKnown,      \* validators the beacon node reports at a later refresh
    Handlers,        \* concurrent registerValidator requests
    Batch,           \* Batch[h]: the elements of request h
    ChanCap,         \* capacity of each channel (450_000 in the code)
    Workers,         \* workers per channel (10 in the code)
    Timestamps,      \* registration timestamps
    RedisFaults,     \* TRUE: GetValidatorRegistrationTimestamp may fail
    DBFaults         \* TRUE: SaveValidatorRegistration may fail

Reg   == [pk: Validators, ts: Timestamps]
NoReg == [pk |-> CHOOSE v \in Validators : TRUE, ts |-> 0]

VARIABLES
    known,      \* the datastore's known-validator set
    hnd,        \* per request: next element, error flag, status written
    activeC,    \* api.activeValidatorC
    regC,       \* api.validatorRegC
    active,     \* redis active-validator set
    stored,     \* stored registration timestamp per validator
    dbw,        \* registration DB workers: the registration each holds
    actw        \* active-validator workers: the pubkey each holds

vars == <<known, hnd, activeC, regC, active, stored, dbw, actw>>

Init ==
    /\ known = Known
    /\ hnd = [h \in Handlers |-> [pos |-> 1, stopped |-> FALSE, status |-> 0]]
    /\ activeC = <<>> /\ regC = <<>>
    /\ active = {}
    /\ stored = [v \in Validators |-> 0]
    /\ dbw = [w \in Workers |-> NoReg]
    /\ actw = [w \in Workers |-> "idle"]

\* http.ResponseWriter: the first status written is the one sent.
Respond(h, code) == IF hnd[h].status = 0 THEN code ELSE hnd[h].status

\* Mutant: a send that never finds the channel full.
Offer_Unbounded(c, x) == Append(c, x)

\* select { case c <- x: default: log }: drop when full.
Offer(c, x) == IF Len(c) < ChanCap THEN Append(c, x) ELSE c

Element(h) ==
    /\ hnd[h].pos <= Len(Batch[h])
    /\ LET e    == Batch[h][hnd[h].pos]
           next == [hnd[h] EXCEPT !.pos = @ + 1]
           fail == [next EXCEPT !.stopped = TRUE, !.status = Respond(h, 400)]
       IN
       \/ hnd[h].stopped
          /\ hnd' = [hnd EXCEPT ![h] = next] /\ UNCHANGED <<activeC, regC>>
       \/ ~hnd[h].stopped /\ (e.kind = "parse" \/ e.pk \notin known)
          /\ hnd' = [hnd EXCEPT ![h] = fail] /\ UNCHANGED <<activeC, regC>>
       \/ ~hnd[h].stopped /\ e.kind # "parse" /\ e.pk \in known
          /\ activeC' = Offer(activeC, e.pk)
          /\ \E prevRead \in {TRUE} \cup (IF RedisFaults THEN {FALSE} ELSE {}) :
             \/ prevRead /\ stored[e.pk] >= e.ts
                /\ hnd' = [hnd EXCEPT ![h] = next] /\ UNCHANGED regC
             \/ ~(prevRead /\ stored[e.pk] >= e.ts) /\ e.kind = "decode"
                /\ hnd' = [hnd EXCEPT ![h] = fail] /\ UNCHANGED regC
             \/ ~(prevRead /\ stored[e.pk] >= e.ts) /\ e.kind = "badsig"
                /\ hnd' = [hnd EXCEPT ![h] = [next EXCEPT !.status = Respond(h, 400)]]
                /\ UNCHANGED regC
             \/ ~(prevRead /\ stored[e.pk] >= e.ts) /\ e.kind = "ok"
                /\ hnd' = [hnd EXCEPT ![h] = next]
                /\ regC' = Offer(regC, [pk |-> e.pk, ts |-> e.ts])
    /\ UNCHANGED <<known, active, stored, dbw, actw>>

(* After the array: w.WriteHeader(200), which is a no-op once an error    *)
(* status was written.                                                    *)
Finish(h) ==
    /\ hnd[h].pos = Len(Batch[h]) + 1
    /\ hnd' = [hnd EXCEPT ![h].pos = @ + 1, ![h].status = Respond(h, 200)]
    /\ UNCHANGED <<known, activeC, regC, active, stored, dbw, actw>>

(* startActiveValidatorProcessor: take a pubkey, then SetActiveValidator. *)
ActiveTake(w) ==
    /\ actw[w] = "idle" /\ activeC # <<>>
    /\ actw' = [actw EXCEPT ![w] = Head(activeC)]
    /\ activeC' = Tail(activeC)
    /\ UNCHANGED <<known, hnd, regC, active, stored, dbw>>

ActiveSave(w) ==
    /\ actw[w] # "idle"
    /\ \/ active' = active \cup {actw[w]}
       \/ RedisFaults /\ UNCHANGED active
    /\ actw' = [actw EXCEPT ![w] = "idle"]
    /\ UNCHANGED <<known, hnd, activeC, regC, stored, dbw>>

(* startValidatorRegistrationDBProcessor: take a registration, then save. *)
RegTake(w) ==
    /\ dbw[w] = NoReg /\ regC # <<>>
    /\ dbw' = [dbw EXCEPT ![w] = Head(regC)]
    /\ regC' = Tail(regC)
    /\ UNCHANGED <<known, hnd, activeC, active, stored, actw>>

(* datastore.SaveValidatorRegistration: an upsert deduplicated by         *)
(* timestamp; a failure is logged by the worker.                          *)
SaveValidatorRegistration(r) ==
    \/ stored' = [stored EXCEPT ![r.pk] = IF r.ts > @ THEN r.ts ELSE @]
    \/ DBFaults /\ UNCHANGED stored

RegSave(w) ==
    /\ dbw[w] # NoReg
    /\ SaveValidatorRegistration(dbw[w])
    /\ dbw' = [dbw EXCEPT ![w] = NoReg]
    /\ UNCHANGED <<known, hnd, activeC, regC, active, actw>>

(* startKnownValidatorUpdates: every half epoch the datastore reloads the *)
(* known validators from the beacon node; an error is only logged.        *)
RefreshKnownValidators ==
    /\ \/ known' = Known \cup LaterKnown
       \/ RedisFaults /\ UNCHANGED known
    /\ UNCHANGED <<hnd, activeC, regC, active, stored, dbw, actw>>

Next ==
    \/ RefreshKnownValidators
    \/ \E h \in Handlers : Element(h) \/ Finish(h)
    \/ \E w \in Workers : ActiveTake(w) \/ ActiveSave(w) \/ RegTake(w) \/ RegSave(w)

Spec == Init /\ [][Next]_vars

TypeOK ==
    /\ known \subseteq Validators
    /\ hnd \in [Handlers -> [pos: Nat, stopped: BOOLEAN, status: {0, 200, 400}]]
    /\ activeC \in Seq(Validators) /\ Len(activeC) <= ChanCap
    /\ regC \in Seq(Reg) /\ Len(regC) <= ChanCap
    /\ active \subseteq Validators
    /\ stored \in [Validators -> {0} \cup Timestamps]
    /\ dbw \in [Workers -> Reg \cup {NoReg}]
    /\ actw \in [Workers -> Validators \cup {"idle"}]

-----------------------------------------------------------------------------
(* Every element whose signature passed, over all requests.               *)
VerifiedRegs ==
    LET elems == UNION {{Batch[h][i] : i \in DOMAIN Batch[h]} : h \in Handlers}
    IN  {[pk |-> e.pk, ts |-> e.ts] : e \in {x \in elems : x.kind = "ok"}}

=============================================================================
