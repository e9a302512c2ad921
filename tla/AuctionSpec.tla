----------------------------- MODULE AuctionSpec -----------------------------
(***************************************************************************)
(* What the relay promises of its bid store (spec.md 4.1, 4.6 stage 16,   *)
(* I1, I3), with no requests, retries or failures: per slot, every        *)
(* builder has at most one retained bid; a bid may only become a          *)
(* builder's retained bid once its bid trace and execution payload can be *)
(* fetched; the bid served to proposers is the best retained bid at the   *)
(* moment it was last published.                                          *)
(***************************************************************************)
EXTENDS Naturals

CONSTANTS
    Slots,      \* slots
    Builders,   \* builder public keys
    Hashes,     \* block hashes
    Values,     \* bid values
    Times,      \* receive times
    NoBid       \* no bid

Bids == [builder: Builders, hash: Hashes, value: Values, recvAt: Times]

VARIABLES
    avail,      \* <<slot, hash>> whose trace and payload can be fetched
    bids,       \* bids[s][b]: builder b's retained bid for slot s
    best        \* best[s]: the bid served for slot s

vars == <<avail, bids, best>>

(* Higher value, then earlier receipt, then the smaller block hash. *)
Beats(x, y) ==
    \/ x.value > y.value
    \/ x.value = y.value /\ x.recvAt < y.recvAt
    \/ x.value = y.value /\ x.recvAt = y.recvAt /\ x.hash < y.hash

Retained(s) == {bids[s][b] : b \in Builders} \ {NoBid}

Best(S) == IF S = {} THEN NoBid ELSE CHOOSE x \in S : \A y \in S \ {x} : Beats(x, y)

Init ==
    /\ avail = {}
    /\ bids = [s \in Slots |-> [b \in Builders |-> NoBid]]
    /\ best = [s \in Slots |-> NoBid]

(* The bid trace and payload of a block become fetchable. *)
Stage(s, h) ==
    /\ avail' = avail \cup {<<s, h>>}
    /\ UNCHANGED <<bids, best>>

(* A fetchable bid replaces its builder's retained bid. *)
Retain(s, bid) ==
    /\ <<s, bid.hash>> \in avail
    /\ bids' = [bids EXCEPT ![s][bid.builder] = bid]
    /\ UNCHANGED <<avail, best>>

(* The best retained bid is published to proposers. *)
Publish(s) ==
    /\ best' = [best EXCEPT ![s] = Best(Retained(s))]
    /\ UNCHANGED <<avail, bids>>

Next ==
    \E s \in Slots :
        \/ \E h \in Hashes : Stage(s, h)
        \/ \E bid \in Bids : Retain(s, bid)
        \/ Publish(s)

Spec == Init /\ [][Next]_vars
=============================================================================
