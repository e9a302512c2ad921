----------------------------- MODULE SubmitBlock -----------------------------
(***************************************************************************)
(* The builder submission pipeline and the proposer delivery pipeline of   *)
(* src/services/api/service.go, running concurrently over the shared bid   *)
(* store:                                                                  *)
(*   - handleSubmitNewBlock, synchronous-simulation path: one process per  *)
(*     HTTP request, split at its store calls and at the simulation;       *)
(*   - handleGetHeader + the proposer's signature, handleGetPayload with   *)
(*     its single retry, and the goroutine that sets the delivered-slot    *)
(*     marker;                                                             *)
(*   - processNewSlot's update of headSlot.                                *)
(* Every store call may fail when StoreFaults is TRUE.  The optimistic     *)
(* branch and the builder cache are modelled in Optimistic.                *)
(***************************************************************************)
EXTENDS Naturals, Sequences

CONSTANTS
    Builders,           \* builder public keys
    NumRequests,        \* number of builder HTTP submissions
    ReqBuilder,         \* ReqBuilder[r]: the builder that sends submission r
    ReqSlot,            \* ReqSlot[r]: the slot submission r bids for
    MaxSlot,            \* slots are 1..MaxSlot
    Values,             \* bid values a submission may carry
    StoreFaults,        \* TRUE: every store call may return a transport error
    NoBid

ASSUME
    /\ NumRequests \in Nat \ {0}
    /\ ReqBuilder \in [1..NumRequests -> Builders]
    /\ ReqSlot \in [1..NumRequests -> 1..MaxSlot]
    /\ MaxSlot \in Nat \ {0}
    /\ Values \subseteq Nat
    /\ StoreFaults \in BOOLEAN

Requests == 1..NumRequests
Slots == 1..MaxSlot

VARIABLES
    headSlot,   \* api.headSlot
    clock,      \* wall clock in milliseconds, read as receivedAt
    req,        \* req[r]: state of submission r's handler
    prop,       \* prop[s]: the proposer of slot s and its getPayload call
    traces, payloads, latestBid, topBid, lastDelivered

INSTANCE BidStore

store == <<traces, payloads, latestBid, topBid, lastDelivered>>
vars == <<headSlot, clock, req, prop, store>>

(* The block hash of submission r is r: every submission is a distinct block. *)
BidOf(r) == Bid(req[r].builder, r, req[r].value, req[r].recvAt)

Finished == {"ok", "rejected", "ignored", "error"}

ReqState ==
    [pc: {"idle", "checks", "simulate", "staleCheck", "write"} \cup Finished,
     builder: Builders, slot: Slots, value: Values, recvAt: Nat, step: 1..4]

PropState ==
    [pc: {"idle", "signed", "retry", "responded", "delivered", "refused"},
     header: [builder: Builders, hash: Requests, value: Values, recvAt: Nat] \cup {NoBid}]

(* The inputs: each request's builder and slot are fixed by the model,   *)
(* its value is any of Values.                                           *)
Init ==
    /\ headSlot = 0
    /\ clock = 1
    /\ \E val \in [Requests -> Values] :
          req = [r \in Requests |-> [pc |-> "idle", builder |-> ReqBuilder[r],
                                     slot |-> ReqSlot[r], value |-> val[r],
                                     recvAt |-> 0, step |-> 1]]
    /\ prop = [s \in Slots |-> [pc |-> "idle", header |-> NoBid]]
    /\ StoreInit

-----------------------------------------------------------------------------
(* handleSubmitNewBlock                                                     *)

(* receivedAt := now, the body is decoded, then the delivered-slot gate:  *)
(* a submission for a slot <= slot_last_payload_delivered is rejected.  A *)
(* failed read of the marker, or an unset one, lets it through.  Nothing  *)
(* shared is touched between the clock read and the store read.           *)
Arrive(r) ==
    /\ req[r].pc = "idle"
    /\ \E t \in {clock, clock + 1} :
          /\ clock' = t
          /\ \/ req' = [req EXCEPT ![r].recvAt = t,
                                  ![r].pc = IF req[r].slot <= lastDelivered
                                            THEN "rejected" ELSE "checks"]
             \/ StoreFaults /\ req' = [req EXCEPT ![r].recvAt = t, ![r].pc = "checks"]
    /\ UNCHANGED <<headSlot, prop, store>>

(* The in-memory checks up to the signature: a submission for a past slot  *)
(* is rejected, one of value 0 is answered 200 and dropped, one of a      *)
(* blacklisted (or, with the flag, low-prio) builder is answered 200 and  *)
(* dropped, and an invalid one (timestamp, duty, fee recipient, sanity,   *)
(* prev_randao, signature) is rejected.                                   *)
Checks(r) ==
    /\ req[r].pc = "checks"
    /\ \/ req[r].slot <= headSlot /\ req' = [req EXCEPT ![r].pc = "rejected"]
       \/ /\ req[r].slot > headSlot
          /\ req' = [req EXCEPT ![r].pc = IF req[r].value = 0 THEN "ignored" ELSE "simulate"]
       \/ req' = [req EXCEPT ![r].pc = "ignored"]
       \/ req' = [req EXCEPT ![r].pc = "rejected"]
    /\ UNCHANGED <<headSlot, clock, prop, store>>

(* Synchronous simulation; "block already known" counts as success. *)
Simulate(r) ==
    /\ req[r].pc = "simulate"
    /\ \E ok \in BOOLEAN : req' = [req EXCEPT ![r].pc = IF ok THEN "staleCheck" ELSE "rejected"]
    /\ UNCHANGED <<headSlot, clock, prop, store>>

(* "already using a newer payload": a strictly older receivedAt than the   *)
(* one stored with the builder's latest bid is rejected; a failed read is  *)
(* logged and ignored.                                                     *)
StaleCheck(r) ==
    LET latest == GetBuilderLatestPayloadReceivedAt(req[r].slot, req[r].builder)
    IN  /\ req[r].pc = "staleCheck"
        /\ \/ req' = [req EXCEPT ![r].pc = IF req[r].recvAt < latest THEN "rejected" ELSE "write"]
           \/ StoreFaults /\ req' = [req EXCEPT ![r].pc = "write"]
        /\ UNCHANGED <<headSlot, clock, prop, store>>

WriteOrder_PayloadLast == <<"trace", "bid", "top", "payload">>
WriteOrder_TopBeforeBid == <<"trace", "payload", "top", "bid">>

(* The order of the four store writes. *)
WriteOrder == <<"trace", "payload", "bid", "top">>

StoreWrite(op, s, bid) ==
    CASE op = "trace"   -> SaveBidTrace(s, bid)
      [] op = "payload" -> SaveExecutionPayload(s, bid)
      [] op = "bid"     -> SaveLatestBuilderBid(s, bid)
      [] op = "top"     -> UpdateTopBid(s)

CacheWrite_StepOverrun(r) ==
    /\ req[r].pc = "write"
    /\ StoreWrite(WriteOrder[req[r].step], req[r].slot, BidOf(r))
    /\ req' = [req EXCEPT ![r].pc = IF req[r].step = 4 THEN "ok" ELSE "write",
                          ![r].step = @ + 1]
    /\ UNCHANGED <<headSlot, clock, prop>>

(* The next store write; the first error answers 500 and leaves the       *)
(* earlier writes in place.  After the last one the request is answered   *)
(* 200.                                                                    *)
CacheWrite(r) ==
    /\ req[r].pc = "write"
    /\ \/ /\ StoreWrite(WriteOrder[req[r].step], req[r].slot, BidOf(r))
          /\ req' = [req EXCEPT ![r].pc = IF req[r].step = 4 THEN "ok" ELSE "write",
                                ![r].step = IF @ = 4 THEN 4 ELSE @ + 1]
       \/ /\ StoreFaults
          /\ req' = [req EXCEPT ![r].pc = "error"]
          /\ UNCHANGED store
    /\ UNCHANGED <<headSlot, clock, prop>>

-----------------------------------------------------------------------------
(* Proposer side                                                           *)

(* getHeader for slot s (not older than the head) returns the top bid; the *)
(* proposer signs the blinded block built on it.  No bid: 204, no change. *)
GetHeader(s) ==
    /\ prop[s].pc = "idle"
    /\ s >= headSlot
    /\ topBid[s] # NoBid
    /\ prop' = [prop EXCEPT ![s] = [pc |-> "signed", header |-> topBid[s]]]
    /\ UNCHANGED <<headSlot, clock, req, store>>

PayloadKnown(s) == <<s, prop[s].header.hash>> \in payloads

(* First lookup of the execution payload. *)
GetPayload(s) ==
    /\ prop[s].pc = "signed"
    /\ \/ PayloadKnown(s) /\ prop' = [prop EXCEPT ![s].pc = "responded"]
       \/ (~PayloadKnown(s) \/ StoreFaults) /\ prop' = [prop EXCEPT ![s].pc = "retry"]
    /\ UNCHANGED <<headSlot, clock, req, store>>

(* After the retry delay: second and last lookup. *)
GetPayloadRetry(s) ==
    /\ prop[s].pc = "retry"
    /\ \/ PayloadKnown(s) /\ prop' = [prop EXCEPT ![s].pc = "responded"]
       \/ (~PayloadKnown(s) \/ StoreFaults) /\ prop' = [prop EXCEPT ![s].pc = "refused"]
    /\ UNCHANGED <<headSlot, clock, req, store>>

(* The goroutine started after the response: it sets the delivered-slot   *)
(* marker to this call's slot (a failed write is only logged), then reads *)
(* the bid trace and records the delivered payload in the database, whose *)
(* failures are only logged as well.                                      *)
MarkDelivered(s) ==
    /\ prop[s].pc = "responded"
    /\ \/ SetStatsLastDelivered(s)
       \/ StoreFaults /\ UNCHANGED store
    /\ prop' = [prop EXCEPT ![s].pc = "delivered"]
    /\ UNCHANGED <<headSlot, clock, req>>

-----------------------------------------------------------------------------
(* processNewSlot: a head event for a newer slot stores it. *)
NewHead ==
    /\ \E h \in Slots : h > headSlot /\ headSlot' = h
    /\ UNCHANGED <<clock, req, prop, store>>

(* Every request answered, every proposer idle or done, last slot reached. *)
Quiescent ==
    /\ \A r \in Requests : req[r].pc \in Finished
    /\ \A s \in Slots : prop[s].pc \in {"idle", "delivered", "refused"}
    /\ headSlot = MaxSlot
    /\ UNCHANGED vars

Next ==
    \/ \E r \in Requests :
          \/ Arrive(r) \/ Checks(r) \/ Simulate(r)
          \/ StaleCheck(r) \/ CacheWrite(r)
    \/ \E s \in Slots :
          \/ GetHeader(s) \/ GetPayload(s) \/ GetPayloadRetry(s)
          \/ MarkDelivered(s)
    \/ NewHead
    \/ Quiescent

Spec == Init /\ [][Next]_vars

-----------------------------------------------------------------------------
TypeOK ==
    /\ headSlot \in 0..MaxSlot
    /\ clock \in 1..NumRequests + 1
    /\ req \in [Requests -> ReqState]
    /\ prop \in [Slots -> PropState]
    /\ traces \subseteq Slots \X Requests
    /\ payloads \subseteq Slots \X Requests
    /\ lastDelivered \in 0..MaxSlot

(* The top bid that getHeader serves always has its bid trace and its     *)
(* execution payload in the store, whatever the interleaving of           *)
(* concurrent submissions and failed writes: a proposer that signs the    *)
(* served header gets the payload, and the delivered-payload goroutine    *)
(* finds the trace.  Depends on the write order trace, payload, bid, top. *)
TopBidBacked ==
    \A s \in Slots :
        topBid[s] # NoBid => <<s, topBid[s].hash>> \in traces \cap payloads

(* A submission answered 200 is reflected in the top bid for as long as it *)
(* is still its builder's latest bid: getHeader serves a bid worth at     *)
(* least as much (spec P4).                                               *)
AcceptedBidReflected ==
    \A r \in Requests :
        LET s == req[r].slot IN
        (req[r].pc = "ok" /\ latestBid[s][req[r].builder] = BidOf(r))
            => topBid[s] # NoBid /\ topBid[s].value >= req[r].value

(* Spec §5: per builder and slot, the stored bid follows arrival order: it *)
(* is never replaced by a submission received earlier than the stored one.*)
LatestBidNeverOlder ==
    [][\A s \in Slots, b \in Builders :
         latestBid[s][b] # NoBid =>
            /\ latestBid'[s][b] # NoBid
            /\ latestBid'[s][b].recvAt >= latestBid[s][b].recvAt]_vars

(* The bid store as the pipelines drive it implements the auction of     *)
(* AuctionSpec: a bid trace and payload pair becomes fetchable when the   *)
(* second of them is written, SaveLatestBuilderBid is a Retain and        *)
(* UpdateTopBid a Publish; every other step leaves the auction alone.     *)
Auction == INSTANCE AuctionSpec WITH
    Hashes <- Requests,
    Times  <- 1..NumRequests + 1,
    avail  <- traces \cap payloads,
    bids   <- latestBid,
    best   <- topBid

(* Whatever the interleaving of submissions, failed writes and proposer  *)
(* calls, the store only ever retains a bid whose trace and payload are   *)
(* already stored and only ever serves the best retained bid: the write   *)
(* order of handleSubmitNewBlock implements the auction of the spec.      *)
AuctionRefinement == Auction!Spec

=============================================================================
