------------------------------ MODULE BidStore ------------------------------
(***************************************************************************)
(* The relay's shared bid store (datastore.RedisCache).  Its code is not   *)
(* part of this repository: the operations below follow spec.md §4.1 and   *)
(* are the only way the pipeline modules change the store.                 *)
(*                                                                         *)
(* One (slot, parent hash, proposer) tuple per slot: the parent hash and   *)
(* the proposer of a slot are fixed, so a slot names the tuple.            *)
(***************************************************************************)
EXTENDS Naturals

CONSTANTS
    Slots,      \* slots bids may be stored for
    Builders,   \* builder public keys
    NoBid       \* "no bid": an empty latest-bid or top-bid entry

VARIABLES
    traces,         \* set of <<slot, block hash>>: saved bid traces
    payloads,       \* set of <<slot, block hash>>: saved execution payloads
    latestBid,      \* latestBid[s][b]: builder b's latest bid for slot s
    topBid,         \* topBid[s]: the bid getHeader serves for slot s
    lastDelivered   \* stats field slot_last_payload_delivered (0 = unset)


(* A bid: the builder, the block hash, the value and the receive time    *)
(* (milliseconds) that SaveLatestBuilderBid stores with it.              *)
Bid(b, h, v, t) == [builder |-> b, hash |-> h, value |-> v, recvAt |-> t]

StoreInit ==
    /\ traces = {}
    /\ payloads = {}
    /\ latestBid = [s \in Slots |-> [b \in Builders |-> NoBid]]
    /\ topBid = [s \in Slots |-> NoBid]
    /\ lastDelivered = 0

BidsOf(s) == {latestBid[s][b] : b \in Builders} \ {NoBid}

(* update_top_bid ordering: higher value, then earlier receive time, then *)
(* the smaller block hash.                                               *)
Outbids(x, y) ==
    \/ x.value > y.value
    \/ x.value = y.value /\ x.recvAt < y.recvAt
    \/ x.value = y.value /\ x.recvAt = y.recvAt /\ x.hash < y.hash

BestOf(S) ==
    IF S = {} THEN NoBid
    ELSE CHOOSE x \in S : \A y \in S \ {x} : Outbids(x, y)

SaveBidTrace(s, bid) ==
    /\ traces' = traces \cup {<<s, bid.hash>>}
    /\ UNCHANGED <<payloads, latestBid, topBid, lastDelivered>>

SaveExecutionPayload(s, bid) ==
    /\ payloads' = payloads \cup {<<s, bid.hash>>}
    /\ UNCHANGED <<traces, latestBid, topBid, lastDelivered>>

(* Overwrites the builder's current bid for the slot, with its receive time. *)
SaveLatestBuilderBid(s, bid) ==
    /\ latestBid' = [latestBid EXCEPT ![s][bid.builder] = bid]
    /\ UNCHANGED <<traces, payloads, topBid, lastDelivered>>

(* One atomic step, serialised per tuple as spec §5 requires. *)
UpdateTopBid(s) ==
    /\ topBid' = [topBid EXCEPT ![s] = BestOf(BidsOf(s))]
    /\ UNCHANGED <<traces, payloads, latestBid, lastDelivered>>

(* 0 when the builder has no bid for the slot yet. *)
GetBuilderLatestPayloadReceivedAt(s, b) ==
    IF latestBid[s][b] = NoBid THEN 0 ELSE latestBid[s][b].recvAt

SetStatsLastDelivered(s) ==
    /\ lastDelivered' = s
    /\ UNCHANGED <<traces, payloads, latestBid, topBid>>

=============================================================================
